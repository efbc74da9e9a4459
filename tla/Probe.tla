-------------------------------- MODULE Probe --------------------------------
(***************************************************************************)
(* The failure detector of one member: the probe thread, the acks that     *)
(* packetListen dispatches by sequence number, the timer that gives up,    *)
(* the TCP ping of the detached fall-back thread, and the pings relayed    *)
(* for other members with the threads that send their nacks.               *)
(*                                                                         *)
(* These threads talk through pipes whose descriptors are captured by      *)
(* number.  owner[f] says which pipe has its write end at number f; a      *)
(* number that was closed is given out again, the lowest first.  The read  *)
(* ends, each used by one thread only, are left out.                       *)
(*                                                                         *)
(* Acks may come late, twice or never.  What is done under ackLock is one  *)
(* step; the two accesses to ackHandlers that take no lock may also end    *)
(* the process (UnlockedAccess).  The probe thread also needs nodeMutex,   *)
(* which the deadlocks of Suspicion and Lifecycle keep for ever.           *)
(***************************************************************************)
EXTENDS Naturals, Sequences

CONSTANTS
    AllowTcpPings, \* the values of config->AllowTcpPing
    MaxSeq,        \* bound: how many sequence numbers are drawn
    MaxRelays,     \* bound: how many indirect pings come in
    MaxFd,         \* bound: descriptor numbers
    MaxUnread      \* bound: messages in the probe's pipes when one more nack comes

ASSUME TcpAssumption == AllowTcpPings \subseteq BOOLEAN
ASSUME BoundsAssumption == MaxSeq \in Nat /\ MaxRelays \in Nat /\ MaxFd \in Nat /\ MaxUnread \in Nat
\* Three pipes of the probe and one of every relay: pipe() does not fail.
ASSUME FdAssumption == MaxFd >= MaxRelays + 3

VARIABLES
    allowTcpPing, \* config->AllowTcpPing
    sequenceNum,  \* the atomic counter memberlist::sequenceNum
    probe,        \* the probe thread: where it is, its number, its descriptors
    inbox,        \* what can be read from the probe's ackfd[0]
    reply,        \* what can be read from the probe's fallbackfd[0]
    ackHandlers,  \* the handler of every sequence number, or None
    listen,       \* packetListen: the handler it is in
    tcp,          \* the detached threads that ping over TCP
    nacks,        \* the detached threads that send a nack
    poked,        \* relays whose cancelFd[0] has something to read
    answered,     \* what each relay was answered with
    relays,       \* how many indirect pings have come in
    owner,        \* the pipe whose write end has that descriptor number
    pinged,       \* sequence numbers that may be acked
    asked,        \* sequence numbers that may be nacked
    saved,        \* history: probes that ended with an answer over TCP
    causes,       \* history: what may lead to a descriptor being misused
    misused,      \* history: a write or close went to a descriptor of another pipe
    ended,        \* an exception or a null pointer has ended the process
    nodeMutexKept \* a thread that holds nodeMutex will never release it

vars == <<allowTcpPing, sequenceNum, probe, inbox, reply, ackHandlers, listen, tcp, nacks,
          poked, answered, relays, owner, pinged, asked, saved, causes, misused, ended,
          nodeMutexKept>>

-----------------------------------------------------------------------------
(* Data. *)

Seqs == 1..MaxSeq
Fds == 1..MaxFd

\* fd is the write end that ackFn uses (the cancel pipe of a relay).
Handler == [use : {"probe", "relay"}, fd : Fds, nackFd : Fds \cup {0},
            timer : {"new", "asleep", "over"}]
None == [use |-> "none", fd |-> 0, nackFd |-> 0, timer |-> "over"]

NoProbe == [pc |-> "idle", seq |-> 0, ack |-> 0, nack |-> 0, fallback |-> 0]
Listening == [pc |-> "idle", seq |-> 0, h |-> None]

Unused == [pipe |-> "none", of |-> 0]
Pipe(p, s) == [pipe |-> p, of |-> s]

\* pipe() returns the lowest numbers that are free.
Lowest(S) == CHOOSE f \in S : \A g \in S : f <= g
FreeFds == {f \in Fds : owner[f] = Unused}

Init ==
    /\ allowTcpPing \in AllowTcpPings
    /\ sequenceNum = 0
    /\ probe = NoProbe
    /\ inbox = <<>> /\ reply = <<>>
    /\ ackHandlers = [s \in Seqs |-> None]
    /\ listen = Listening
    /\ tcp = {} /\ nacks = {} /\ poked = {}
    /\ answered = [s \in Seqs |-> {}] /\ relays = 0
    /\ owner = [f \in Fds |-> Unused]
    /\ pinged = {} /\ asked = {}
    /\ saved = {} /\ causes = {} /\ misused = FALSE /\ ended = FALSE
    /\ nodeMutexKept = FALSE

-----------------------------------------------------------------------------
(* Descriptors. *)

\* Write(f, ...) of a thread that takes f for the pipe p.  Where the message ends
\* up is decided by the number.  Whoever reads it there goes by its first byte,
\* which is value: Complete, didConnect or the 0 of a nack.
WriteTo(f, p, value) ==
    /\ misused' = (misused \/ owner[f] # p)
    /\ ended' = (owner[f] = Unused)
    /\ inbox' = IF owner[f].pipe = "ack" THEN Append(inbox, value) ELSE inbox
    /\ reply' = IF owner[f].pipe = "fallback" THEN Append(reply, value) ELSE reply
    /\ poked' = IF owner[f].pipe = "cancel" THEN poked \cup {owner[f].of} ELSE poked

\* Close of the numbers in F by a thread that takes them for the pipes in P.
CloseAll(F, P) ==
    /\ owner' = [f \in Fds |-> IF f \in F THEN Unused ELSE owner[f]]
    /\ misused' = (misused \/ \E f \in F : owner[f] \notin P)
    /\ ended' = (\E f \in F : owner[f] = Unused)

\* Mutant of ProbeFds: the nack pipe is forgotten.
ProbeFdsWithoutNack == {probe.ack, probe.fallback} \ {0}

ProbeFds == {probe.ack, probe.nack, probe.fallback} \ {0}

\* clearProbePipes, and the end of the probe.  What still knows the descriptors:
\* the handler packetListen is about to call, and the TCP thread.
EndProbe ==
    /\ CloseAll(ProbeFds, {Pipe(p, probe.seq) : p \in {"ack", "nack", "fallback"}})
    /\ probe' = NoProbe
    /\ inbox' = <<>> /\ reply' = <<>>
    /\ causes' = causes
          \cup (IF listen.seq = probe.seq /\ listen.h.use = "probe" THEN {"late handler"} ELSE {})
          \cup (IF \E t \in tcp : t.of = probe.seq THEN {"late TCP thread"} ELSE {})

SetHandler(s, h) == ackHandlers' = [ackHandlers EXCEPT ![s] = h]

\* Mutant of EraseHandler: it stays.
KeepHandler(s) == UNCHANGED ackHandlers
EraseHandler(s) == SetHandler(s, None)

\* Who expects a handler of its own kind and finds another has drawn the same
\* sequence number.
Collision(s, use) ==
    IF ackHandlers[s].use \in {"none", use} THEN {} ELSE {"collision"}

-----------------------------------------------------------------------------
(* The probe thread. *)

ProbeSame == UNCHANGED <<allowTcpPing, listen, nacks, answered, relays, nodeMutexKept>>

\* nextSeqNum: a fetch_add, in a step of its own, and a load.
NextSeqNum == sequenceNum

\* A probe starts with nodeMutex, for the node to be probed.
ProbeAdd ==
    /\ ~ended /\ probe.pc = "idle" /\ sequenceNum < MaxSeq /\ ~nodeMutexKept
    /\ sequenceNum' = sequenceNum + 1
    /\ probe' = [probe EXCEPT !.pc = "load"]
    /\ UNCHANGED <<inbox, reply, ackHandlers, tcp, poked, owner, pinged, asked, saved, causes, misused, ended>>
    /\ ProbeSame

\* The load, the two pipes, and setProbePipes under ackLock.
ProbeSet ==
    LET s == NextSeqNum
        a == Lowest(FreeFds)
        n == Lowest(FreeFds \ {a})
    IN  /\ ~ended /\ probe.pc = "load"
        /\ probe' = [pc |-> "run", seq |-> s, ack |-> a, nack |-> n, fallback |-> 0]
        /\ owner' = [owner EXCEPT ![a] = Pipe("ack", s), ![n] = Pipe("nack", s)]
        /\ SetHandler(s, [use |-> "probe", fd |-> a, nackFd |-> n, timer |-> "new"])
        /\ causes' = causes \cup Collision(s, "probe")
        /\ UNCHANGED <<sequenceNum, inbox, reply, tcp, poked, pinged, asked, saved, misused, ended>>
        /\ ProbeSame

\* Mutant of TimerStarted: it is not.
TimerNotStarted(s) == ackHandlers
\* The timer of a relay has no task and does not run.
TimerStarted(s) ==
    IF ackHandlers[s].use = "probe" THEN [ackHandlers EXCEPT ![s].timer = "asleep"]
    ELSE ackHandlers

\* ackHandlers[seqNo]->t.Run() without the lock, and the ping.  If the entry has
\* been erased meanwhile [] makes a null pointer.
ProbeRun ==
    /\ ~ended /\ probe.pc = "run"
    /\ ended' = (ackHandlers[probe.seq] = None)
    /\ ackHandlers' = TimerStarted(probe.seq)
    /\ pinged' = pinged \cup {probe.seq}
    /\ probe' = [probe EXCEPT !.pc = "select"]
    /\ UNCHANGED <<sequenceNum, inbox, reply, tcp, poked, owner, asked, saved, causes, misused>>
    /\ ProbeSame

\* The ack came in time.
ProbeAcked ==
    /\ ~ended /\ probe.pc = "select"
    /\ inbox # <<>> /\ Head(inbox)
    /\ EndProbe
    /\ UNCHANGED <<sequenceNum, ackHandlers, tcp, poked, pinged, asked, saved>>
    /\ ProbeSame

\* tv_sec is not initialised for the connect nor for the read of a TCP ping: the
\* time after which it gives up may never come.
TcpLimits == {"time", "never"}

\* Mutant of TcpThread: it captures fallbackfd before the pipe is made.
TcpThreadBeforePipe(b, limit) == [of |-> probe.seq, fd |-> probe.fallback, limit |-> limit]
TcpThread(b, limit) == [of |-> probe.seq, fd |-> b, limit |-> limit]

\* No ack within ProbeTimeout, or the timer came first, whose message is put back.
\* Indirect pings, to nodes chosen under nodeMutex, the fall-back pipe and its thread.
ProbeIndirect ==
    LET b == Lowest(FreeFds)
    IN  /\ ~ended /\ probe.pc = "select"
        /\ inbox # <<>> => ~Head(inbox)
        /\ ~nodeMutexKept
        /\ inbox' = IF inbox = <<>> THEN inbox ELSE Append(Tail(inbox), FALSE)
        /\ asked' = asked \cup {probe.seq}
        /\ owner' = [owner EXCEPT ![b] = Pipe("fallback", probe.seq)]
        /\ probe' = [probe EXCEPT !.pc = "waitAck", !.fallback = b]
        /\ \/ ~allowTcpPing /\ UNCHANGED tcp
           \/ /\ allowTcpPing
              /\ \E limit \in TcpLimits : tcp' = tcp \cup {TcpThread(b, limit)}
        /\ UNCHANGED <<sequenceNum, reply, ackHandlers, poked, pinged, saved, causes, misused, ended>>
        /\ ProbeSame

\* probetimeout.tv_sec is not initialised: a negative one makes select fail.
ProbeSelectFails ==
    /\ ~ended /\ probe.pc = "select"
    /\ ended' = TRUE
    /\ UNCHANGED <<sequenceNum, probe, inbox, reply, ackHandlers, tcp, poked, owner, pinged, asked, saved, causes, misused>>
    /\ ProbeSame

\* The blocking read of ackfd[0].
ProbeWaitAck ==
    /\ ~ended /\ probe.pc = "waitAck"
    /\ inbox # <<>>
    /\ IF Head(inbox) THEN EndProbe
       ELSE /\ inbox' = Tail(inbox)
            /\ probe' = [probe EXCEPT !.pc = "waitTcp"]
            /\ UNCHANGED <<reply, owner, causes, misused, ended>>
    /\ UNCHANGED <<sequenceNum, ackHandlers, tcp, poked, pinged, asked, saved>>
    /\ ProbeSame

\* The blocking read of fallbackfd[0]: the node answered over TCP, and the handler
\* stays in the map.
ProbeSaved ==
    /\ ~ended /\ probe.pc = "waitTcp"
    /\ reply # <<>> /\ allowTcpPing /\ Head(reply)
    /\ EndProbe
    /\ saved' = saved \cup {probe.seq}
    /\ UNCHANGED <<sequenceNum, ackHandlers, tcp, poked, pinged, asked>>
    /\ ProbeSame

\* It did not: the handler goes and the node is suspected (Membership!ProbeFail);
\* if suspectNode waits for nodeMutex in vain no other probe starts.
ProbeFailed ==
    /\ ~ended /\ probe.pc = "waitTcp"
    /\ reply # <<>> /\ ~(allowTcpPing /\ Head(reply))
    /\ EndProbe
    /\ EraseHandler(probe.seq)
    /\ UNCHANGED <<sequenceNum, tcp, poked, pinged, asked, saved>>
    /\ ProbeSame

-----------------------------------------------------------------------------
(* The timer of setProbePipes. *)

TimerSame == UNCHANGED <<allowTcpPing, sequenceNum, probe, tcp, nacks, answered, relays, owner,
                         pinged, asked, saved, causes, nodeMutexKept>>

\* ProbeInterval is over; the handler is in the map ...
TimerFire(s) ==
    /\ ~ended /\ ackHandlers[s].timer = "asleep"
    /\ WriteTo(ackHandlers[s].fd, Pipe("ack", s), FALSE)
    /\ ackHandlers' = [ackHandlers EXCEPT ![s].timer = "over"]
    /\ UNCHANGED listen
    /\ TimerSame

\* ... or handleAck has taken it and not stopped its timer yet.
TimerFireTaken ==
    /\ ~ended /\ listen.pc = "ack" /\ listen.h.timer = "asleep"
    /\ WriteTo(listen.h.fd, Pipe("ack", listen.seq), FALSE)
    /\ listen' = [listen EXCEPT !.h.timer = "over"]
    /\ UNCHANGED ackHandlers
    /\ TimerSame

-----------------------------------------------------------------------------
(* packetListen: acks and nacks. *)

ListenSame == UNCHANGED <<allowTcpPing, probe, tcp, asked, saved, nodeMutexKept>>

\* handleAck takes the handler out of the map; without one it returns.
HandleAck(s) ==
    /\ ~ended /\ listen.pc = "idle" /\ s \in pinged
    /\ ackHandlers[s] # None
    /\ listen' = [pc |-> "ack", seq |-> s, h |-> ackHandlers[s]]
    /\ SetHandler(s, None)
    /\ UNCHANGED <<sequenceNum, relays, inbox, reply, nacks, poked, answered, owner, pinged, causes, misused, ended>>
    /\ ListenSame

\* Stop, and ackFn of a probe.
RunProbeAck ==
    /\ ~ended /\ listen.pc = "ack" /\ listen.h.use = "probe"
    /\ WriteTo(listen.h.fd, Pipe("ack", listen.seq), TRUE)
    /\ listen' = Listening
    /\ UNCHANGED <<sequenceNum, relays, ackHandlers, nacks, answered, owner, pinged, causes>>
    /\ ListenSame

\* ackFn of a relay: the nack thread may have timed out by now.
RunRelayAck ==
    LET s == listen.seq
    IN  /\ ~ended /\ listen.pc = "ack" /\ listen.h.use = "relay"
        /\ CloseAll({listen.h.fd}, {Pipe("cancel", s)})
        /\ answered' = [answered EXCEPT ![s] = @ \cup {"ack"}]
        /\ causes' = IF \E t \in nacks : t.seq = s /\ t.pc = "wait" THEN causes
                     ELSE causes \cup {"race"}
        /\ listen' = Listening
        /\ UNCHANGED <<sequenceNum, relays, inbox, reply, ackHandlers, nacks, poked, pinged>>
        /\ ListenSame

\* handleNack leaves the handler in the map; a relay has no nackFn.
HandleNack(s) ==
    /\ ~ended /\ listen.pc = "idle" /\ s \in asked /\ Len(inbox) + Len(reply) < MaxUnread
    /\ ackHandlers[s].use = "probe"
    /\ listen' = [pc |-> "nack", seq |-> s, h |-> ackHandlers[s]]
    /\ UNCHANGED <<sequenceNum, relays, inbox, reply, ackHandlers, nacks, poked, answered, owner, pinged, causes, misused, ended>>
    /\ ListenSame

RunNack ==
    /\ ~ended /\ listen.pc = "nack"
    /\ WriteTo(listen.h.nackFd, Pipe("nack", listen.seq), FALSE)
    /\ listen' = Listening
    /\ UNCHANGED <<sequenceNum, relays, ackHandlers, nacks, answered, owner, pinged, causes>>
    /\ ListenSame

-----------------------------------------------------------------------------
(* packetListen: indirect pings. *)

RelayAdd ==
    /\ ~ended /\ listen.pc = "idle"
    /\ sequenceNum < MaxSeq /\ relays < MaxRelays
    /\ sequenceNum' = sequenceNum + 1
    /\ relays' = relays + 1
    /\ listen' = [listen EXCEPT !.pc = "load"]
    /\ UNCHANGED <<inbox, reply, ackHandlers, nacks, poked, answered, owner, pinged, causes, misused, ended>>
    /\ ListenSame

\* The load, the pipe, setAckHandler, the ping and the thread that sends the nack
\* (a probe always asks for one).  tv_sec of its select is not initialised.
RelaySet ==
    LET s == NextSeqNum
        c == Lowest(FreeFds)
    IN  /\ ~ended /\ listen.pc = "load"
        /\ owner' = [owner EXCEPT ![c] = Pipe("cancel", s)]
        /\ SetHandler(s, [use |-> "relay", fd |-> c, nackFd |-> 0, timer |-> "over"])
        /\ causes' = causes \cup Collision(s, "relay")
        /\ pinged' = pinged \cup {s}
        /\ \E limit \in {"time", "never", "negative"} :
              /\ nacks' = nacks \cup {[seq |-> s, fd |-> c, pc |-> "wait", limit |-> limit]}
              /\ ended' = (limit = "negative")
        /\ listen' = Listening
        /\ UNCHANGED <<sequenceNum, relays, inbox, reply, poked, answered, misused>>
        /\ ListenSame

-----------------------------------------------------------------------------
(* The detached threads. *)

DetachedSame == UNCHANGED <<allowTcpPing, sequenceNum, probe, listen, relays, pinged, asked, saved,
                            nodeMutexKept>>

Readable(s) == s \in poked \/ \A f \in Fds : owner[f] # Pipe("cancel", s)

\* The select on cancelFd[0] sees that the ack came.
NackCancelled(t) ==
    /\ ~ended /\ t.pc = "wait" /\ Readable(t.seq)
    /\ nacks' = nacks \ {t}
    /\ UNCHANGED <<inbox, reply, ackHandlers, tcp, poked, answered, owner, causes, misused, ended>>
    /\ DetachedSame

NackExpire(t) ==
    /\ ~ended /\ t.pc = "wait" /\ t.limit = "time" /\ ~Readable(t.seq)
    /\ nacks' = (nacks \ {t}) \cup {[t EXCEPT !.pc = "expired"]}
    /\ UNCHANGED <<inbox, reply, ackHandlers, tcp, poked, answered, owner, causes, misused, ended>>
    /\ DetachedSame

\* Mutant of NackSent: it is not.
NackNotSent(s) == UNCHANGED answered
NackSent(s) == answered' = [answered EXCEPT ![s] = @ \cup {"nack"}]

\* No ack in time: erase whatever handler has the number, and send the nack.
NackSend(t) ==
    /\ ~ended /\ t.pc = "expired"
    /\ causes' = causes \cup Collision(t.seq, "relay")
    /\ EraseHandler(t.seq)
    /\ CloseAll({t.fd}, {Pipe("cancel", t.seq)})
    /\ NackSent(t.seq)
    /\ nacks' = nacks \ {t}
    /\ UNCHANGED <<inbox, reply, tcp, poked>>
    /\ DetachedSame

\* sendPingAndWaitForAck tells whether there was an answer in time.  A connection
\* that is refused, times out or breaks throws, in a thread that catches nothing,
\* and so does a negative tv_sec.
TcpDone(t) ==
    /\ ~ended
    /\ tcp' = tcp \ {t}
    /\ \/ \E didConnect \in BOOLEAN : WriteTo(t.fd, Pipe("fallback", t.of), didConnect)
       \/ ended' = TRUE /\ UNCHANGED <<inbox, reply, poked, misused>>
    /\ UNCHANGED <<ackHandlers, nacks, answered, owner, causes>>
    /\ DetachedSame

\* A handler under nodeMutex joins a timer thread that waits for nodeMutex
\* (Suspicion!Blocked, Lifecycle!HandlerJoinsTimer).
KeepNodeMutex ==
    /\ ~ended /\ ~nodeMutexKept
    /\ nodeMutexKept' = TRUE
    /\ UNCHANGED <<allowTcpPing, sequenceNum, probe, inbox, reply, ackHandlers, listen, tcp, nacks,
                   poked, answered, relays, owner, pinged, asked, saved, causes, misused, ended>>

\* The accesses to ackHandlers without ackLock (setProbePipes, the nack thread)
\* race with those under it, and with each other.
UnlockedAccess ==
    /\ ~ended
    /\ probe.pc = "run" \/ \E t \in nacks : t.pc = "expired"
    /\ ended' = TRUE
    /\ UNCHANGED <<inbox, reply, ackHandlers, tcp, nacks, poked, answered, owner, causes, misused>>
    /\ DetachedSame

-----------------------------------------------------------------------------
Next ==
    \/ ProbeAdd \/ ProbeSet \/ ProbeRun \/ ProbeAcked \/ ProbeIndirect \/ ProbeSelectFails
    \/ ProbeWaitAck \/ ProbeSaved \/ ProbeFailed
    \/ \E s \in Seqs : TimerFire(s) \/ HandleAck(s) \/ HandleNack(s)
    \/ TimerFireTaken \/ RunProbeAck \/ RunRelayAck \/ RunNack
    \/ RelayAdd \/ RelaySet
    \/ \E t \in nacks : NackCancelled(t) \/ NackExpire(t) \/ NackSend(t)
    \/ \E t \in tcp : TcpDone(t)
    \/ UnlockedAccess \/ KeepNodeMutex

\* Threads run and sleeps end.  Nothing makes an ack, a nack or an indirect ping
\* arrive, and the first select of a probe need not time out.  A nack need not be
\* written: nothing reads the nack pipe, and Write blocks once it is full.  A
\* thread that pings over TCP need not end if its limit never comes.
Fairness ==
    /\ WF_vars(ProbeSet \/ ProbeRun \/ ProbeAcked \/ (inbox # <<>> /\ ProbeIndirect)
                \/ ProbeWaitAck \/ ProbeSaved \/ ProbeFailed)
    /\ \A s \in Seqs : WF_vars(TimerFire(s))
    /\ WF_vars(RunProbeAck \/ RunRelayAck \/ RelaySet)
    /\ WF_vars(\E t \in nacks : NackCancelled(t) \/ NackExpire(t) \/ NackSend(t))
    /\ WF_vars(\E t \in tcp : t.limit = "time" /\ TcpDone(t))

Spec == Init /\ [][Next]_vars /\ Fairness

-----------------------------------------------------------------------------
(* Properties. *)

\* Type invariant of the state above.
TypeOK ==
    /\ allowTcpPing \in BOOLEAN
    /\ sequenceNum \in 0..MaxSeq /\ relays \in 0..MaxRelays
    /\ probe.pc \in {"idle", "load", "run", "select", "waitAck", "waitTcp"}
    /\ probe.pc \in {"run", "select", "waitAck", "waitTcp"} =>
          probe.seq \in Seqs /\ probe.ack \in Fds /\ probe.nack \in Fds
    /\ inbox \in Seq(BOOLEAN) /\ reply \in Seq(BOOLEAN)
    /\ ackHandlers \in [Seqs -> Handler \cup {None}]
    /\ listen.pc \in {"idle", "ack", "nack", "load"}
    /\ listen.h \in Handler \cup {None}
    /\ tcp \subseteq [of : Seqs, fd : Fds, limit : TcpLimits]
    /\ nacks \subseteq [seq : Seqs, fd : Fds, pc : {"wait", "expired"},
                        limit : {"time", "never", "negative"}]
    /\ answered \in [Seqs -> SUBSET {"ack", "nack"}]
    /\ poked \cup pinged \cup asked \cup saved \subseteq Seqs
    /\ misused \in BOOLEAN /\ ended \in BOOLEAN /\ nodeMutexKept \in BOOLEAN

\* No thread ever writes to or closes a descriptor that has passed to another
\* pipe, or to none, except for three reasons: a probe that ended with an answer
\* over TCP left its handler behind (saved); a probe ended while packetListen had
\* its handler in hand, or while its TCP thread was running; an ack came when the
\* nack of its relay was due.  That two threads draw the same sequence number is
\* none of them.
MisuseHasCause == misused => causes \ {"collision"} # {} \/ saved # {}

\* Handlers do not pile up: one that is in the map belongs to the probe in
\* progress or to a relay whose nack thread will erase it.  The probes that were
\* saved by TCP leave theirs for ever.
HandlersAccountedFor ==
    ~misused =>
        \A s \in Seqs :
            /\ ackHandlers[s].use = "probe" => s = probe.seq \/ s \in saved
            /\ ackHandlers[s].use = "relay" => \E t \in nacks : t.seq = s

\* When every thread is done, every pipe is closed, on whichever path the probes
\* and relays ended.
DescriptorsReturned ==
    probe.pc = "idle" /\ listen.pc = "idle" /\ tcp = {} /\ nacks = {} =>
        FreeFds = Fds \/ misused

\* A probe comes to its end (at the latest to the call of suspectNode) whatever is
\* lost, late or repeated.  It does not if no ack comes and AllowTcpPing is off
\* (nothing is ever written to fallbackfd) or the TCP thread waits without a limit;
\* if a deadlock elsewhere keeps nodeMutex, which it needs for the indirect pings;
\* or after two threads drew the same sequence number or used each other's
\* descriptors.
ProbeEnds ==
    probe.pc # "idle" ~>
        \/ probe.pc = "idle"
        \/ ~allowTcpPing /\ probe.pc = "waitTcp"
        \/ \E t \in tcp : t.of = probe.seq /\ t.limit = "never" /\ probe.pc = "waitTcp"
        \/ nodeMutexKept /\ probe.pc = "select"
        \/ ended \/ misused \/ "collision" \in causes

\* Whoever asked for an indirect ping is answered, with the ack or else with a
\* nack, unless select was given a time that never comes.
IndirectAnswered ==
    \A s \in Seqs :
        (\E t \in nacks : t.seq = s) ~>
            \/ answered[s] # {}
            \/ \E t \in nacks : t.seq = s /\ t.limit = "never"
            \/ ended \/ misused
=============================================================================
