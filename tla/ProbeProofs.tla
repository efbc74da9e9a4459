----------------------------- MODULE ProbeProofs -----------------------------
(***************************************************************************)
(* Proofs about Probe, for every number of probes, relays and descriptors: *)
(* the types, that descriptors and handlers are given back, and that only  *)
(* the causes which MisuseHasCause lists lead to a misused descriptor.     *)
(***************************************************************************)
EXTENDS Probe, FiniteSetTheorems, WellFoundedInduction, TLAPS

-----------------------------------------------------------------------------
(* The inductive invariant. *)

ProbeRec == [pc : {"idle", "load", "run", "select", "waitAck", "waitTcp"},
             seq : 0..MaxSeq, ack : 0..MaxFd, nack : 0..MaxFd, fallback : 0..MaxFd]
ListenRec == [pc : {"idle", "ack", "nack", "load"}, seq : 0..MaxSeq,
              h : Handler \cup {None}]
Owners == [pipe : {"none", "ack", "nack", "fallback", "cancel"}, of : 0..MaxSeq]
TcpThreads == [of : Seqs, fd : Fds, limit : TcpLimits]
NackThreads == [seq : Seqs, fd : Fds, pc : {"wait", "expired"},
                limit : {"time", "never", "negative"}]

Running == probe.pc \in {"run", "select", "waitAck", "waitTcp"}

Typed ==
    /\ allowTcpPing \in BOOLEAN
    /\ sequenceNum \in 0..MaxSeq /\ relays \in 0..MaxRelays
    /\ probe \in ProbeRec /\ listen \in ListenRec
    /\ inbox \in Seq(BOOLEAN) /\ reply \in Seq(BOOLEAN)
    /\ ackHandlers \in [Seqs -> Handler \cup {None}]
    /\ owner \in [Fds -> Owners]
    /\ tcp \in SUBSET TcpThreads /\ nacks \in SUBSET NackThreads
    /\ answered \in [Seqs -> SUBSET {"ack", "nack"}]
    /\ poked \in SUBSET Seqs /\ pinged \in SUBSET Seqs
    /\ asked \in SUBSET Seqs /\ saved \in SUBSET Seqs
    /\ misused \in BOOLEAN /\ ended \in BOOLEAN

\* The probe has a number and its first two pipes while it runs, and the third
\* once it has asked for indirect pings.
ProbeShape ==
    /\ Running => probe.seq # 0 /\ probe.ack # 0 /\ probe.nack # 0
    /\ ~Running => /\ probe.seq = 0 /\ probe.ack = 0 /\ probe.nack = 0
                   /\ inbox = <<>>
    /\ probe.fallback # 0 <=> probe.pc \in {"waitAck", "waitTcp"}

\* A relay's handler has no timer; a probe's has a pipe for nacks.
HandlerShape(h) ==
    /\ h.use = "relay" => h.timer = "over"
    /\ h.use = "probe" => h.nackFd # 0

HandlersShape == \A s \in Seqs : HandlerShape(ackHandlers[s])

ListenShape ==
    /\ HandlerShape(listen.h)
    /\ listen.pc \in {"ack", "nack"} => listen.seq # 0 /\ listen.h # None
    /\ listen.pc \in {"idle", "load"} => listen.h = None
    /\ listen.pc = "nack" => listen.h.use = "probe"

\* A pipe of a probe is one of the probe in progress and has the number that
\* the probe has for it.
OwnerShape ==
    \A f \in Fds :
        /\ owner[f].pipe = "none" => owner[f] = Unused
        /\ owner[f].pipe = "cancel" => owner[f].of # 0
        /\ owner[f].pipe = "ack" => f = probe.ack /\ owner[f].of = probe.seq
        /\ owner[f].pipe = "nack" => f = probe.nack /\ owner[f].of = probe.seq
        /\ owner[f].pipe = "fallback" => f = probe.fallback /\ owner[f].of = probe.seq

\* nextSeqNum adds before it loads: the next number is above all numbers that
\* the same thread has drawn before.
SeqOrder ==
    /\ probe.pc = "load" \/ listen.pc = "load" => sequenceNum # 0
    /\ listen.seq <= sequenceNum
    /\ \A s \in Seqs : ackHandlers[s].use # "none" => s <= sequenceNum
    /\ probe.pc = "load" =>
          /\ listen.h.use = "probe" => listen.seq < sequenceNum
          /\ \A s \in Seqs : ackHandlers[s].use = "probe" => s < sequenceNum
    /\ \A t \in nacks : t.seq <= sequenceNum
    /\ listen.pc = "load" => \A t \in nacks : t.seq < sequenceNum

NackUnique == \A t, u \in nacks : t.seq = u.seq => t = u

\* Cancel pipes are open for at most the relays that have come in.
CancelFds == {f \in Fds : owner[f].pipe = "cancel"}
CancelCount ==
    Cardinality(CancelFds) + (IF listen.pc = "load" THEN 1 ELSE 0) <= relays

\* As long as no descriptor was misused.
CancelHeld ==
    \A f \in Fds : owner[f].pipe = "cancel" =>
        \E t \in nacks : t.seq = owner[f].of /\ t.fd = f
RelayOpen ==
    \A s \in Seqs : ackHandlers[s].use = "relay" =>
        owner[ackHandlers[s].fd] = Pipe("cancel", s)
TakenOnce == listen.pc = "ack" => ackHandlers[listen.seq].use # listen.h.use
HasAck(messages) == \E n \in 1..Len(messages) : messages[n]
ProbeHandlers ==
    \A s \in Seqs : ackHandlers[s].use = "probe" => s = probe.seq \/ s \in saved
AckedOnce == HasAck(inbox) => ackHandlers[probe.seq].use # "probe"
Sound ==
    ~misused => poked = {} /\ CancelHeld /\ RelayOpen /\ TakenOnce /\ ProbeHandlers /\ AckedOnce

\* As long as nothing has happened that may lead to misuse.
NoCause == causes \subseteq {"collision"} /\ saved = {}
PipesOpen ==
    /\ Running => /\ owner[probe.ack] = Pipe("ack", probe.seq)
                  /\ owner[probe.nack] = Pipe("nack", probe.seq)
    /\ probe.fallback # 0 => owner[probe.fallback] = Pipe("fallback", probe.seq)
OfProbe(s, h) == s = probe.seq /\ h.fd = probe.ack /\ h.nackFd = probe.nack
HandlersOfProbe == \A s \in Seqs : ackHandlers[s].use = "probe" => OfProbe(s, ackHandlers[s])
ListenOfProbe == listen.h.use = "probe" => OfProbe(listen.seq, listen.h)
TcpOfProbe == \A t \in tcp : t.of = probe.seq /\ t.fd = probe.fallback
NacksOpen ==
    \A t \in nacks :
        \/ owner[t.fd] = Pipe("cancel", t.seq)
        \/ t.pc = "wait" /\ \A f \in Fds : owner[f] # Pipe("cancel", t.seq)
RelayInHand ==
    listen.h.use = "relay" =>
        \A t \in nacks : t.seq = listen.seq =>
            t.fd = listen.h.fd /\ owner[t.fd] = Pipe("cancel", t.seq)
Clean ==
    NoCause => /\ ~misused /\ PipesOpen /\ HandlersOfProbe /\ ListenOfProbe
               /\ TcpOfProbe /\ NacksOpen /\ RelayInHand

Shapes == /\ Typed /\ ProbeShape /\ HandlersShape /\ ListenShape /\ OwnerShape
          /\ SeqOrder /\ NackUnique /\ CancelCount
PInv == Shapes /\ Sound /\ Clean

-----------------------------------------------------------------------------
(* pipe() finds free descriptors. *)

\* A nonempty set of descriptor numbers has a lowest one.
LEMMA LowestIsIn ==
    ASSUME NEW S \in SUBSET Fds, S # {}
    PROVE  Lowest(S) \in S
  <1> DEFINE R == OpToRel(<, Nat)
  <1>1. IsWellFoundedOn(R, Nat)
    BY NatLessThanWellFounded
  <1>2. \A x, y \in Nat : y < x => <<y, x>> \in R
    BY DEF OpToRel
  <1>3. S \in SUBSET Nat
    BY DEF Fds
  <1> HIDE DEF R
  <1>4. PICK x \in S : \A y \in S : ~(<<y, x>> \in R)
    BY <1>1, <1>3, WFMin
  <1>5. ASSUME NEW y \in S PROVE x <= y
    <2>1. x \in Nat /\ y \in Nat /\ ~(y < x)
      BY <1>2, <1>3, <1>4
    <2> QED
      BY <2>1
  <1> QED
    BY <1>5 DEF Lowest

\* Sets of descriptors are finite.
LEMMA FdsFinite ==
    /\ IsFiniteSet(Fds) /\ Cardinality(Fds) = MaxFd
    /\ \A S \in SUBSET Fds : IsFiniteSet(S) /\ Cardinality(S) \in Nat
  <1>1. MaxFd \in Nat /\ MaxFd \in Int /\ 1 \in Int
    BY BoundsAssumption
  <1>2. IsFiniteSet(Fds) /\ Cardinality(Fds) = MaxFd
    BY <1>1, FS_Interval DEF Fds
  <1> QED
    BY <1>2, FS_Subset, FS_CardinalityType

\* A set of up to three elements.
LEMMA ThreeElements ==
    ASSUME NEW x, NEW y, NEW z
    PROVE  /\ IsFiniteSet({x}) /\ Cardinality({x}) = 1
           /\ IsFiniteSet({x, y}) /\ Cardinality({x, y}) <= 2
           /\ IsFiniteSet({x, y, z}) /\ Cardinality({x, y, z}) <= 3
           /\ Cardinality({x, y}) \in Nat /\ Cardinality({x, y, z}) \in Nat
  <1>1. IsFiniteSet({x}) /\ Cardinality({x}) = 1
    BY FS_Singleton
  <1>2. IsFiniteSet({x, y}) /\ Cardinality({x, y}) \in 1..2
    <2>1. {x, y} = {x} \cup {y}
      OBVIOUS
    <2>2. /\ IsFiniteSet({x} \cup {y})
          /\ Cardinality({x} \cup {y}) = IF y \in {x} THEN Cardinality({x}) ELSE Cardinality({x}) + 1
      BY <1>1, FS_AddElement
    <2> QED
      BY <1>1, <2>1, <2>2
  <1>3. IsFiniteSet({x, y, z}) /\ Cardinality({x, y, z}) \in 1..3
    <2>1. {x, y, z} = {x, y} \cup {z}
      OBVIOUS
    <2>2. /\ IsFiniteSet({x, y} \cup {z})
          /\ Cardinality({x, y} \cup {z}) =
                IF z \in {x, y} THEN Cardinality({x, y}) ELSE Cardinality({x, y}) + 1
      BY <1>2, FS_AddElement
    <2> QED
      BY <1>2, <2>1, <2>2
  <1> QED
    BY <1>1, <1>2, <1>3

\* If S holds the probe's descriptors and there is room besides it and the
\* cancel pipes, some number outside S is free.
LEMMA FreeOutside ==
    ASSUME Typed, OwnerShape, NEW S, IsFiniteSet(S), Cardinality(S) \in Nat,
           \A f \in Fds : owner[f].pipe \in {"ack", "nack", "fallback"} => f \in S,
           Cardinality(S) + Cardinality(CancelFds) < MaxFd
    PROVE  \E f \in FreeFds : f \notin S
  <1>1. IsFiniteSet(CancelFds) /\ Cardinality(CancelFds) \in Nat
    BY FdsFinite DEF CancelFds
  <1>2. /\ IsFiniteSet(S \cup CancelFds)
        /\ Cardinality(S \cup CancelFds)
              = Cardinality(S) + Cardinality(CancelFds) - Cardinality(S \cap CancelFds)
    BY <1>1, FS_Union
  <1>3. Cardinality(S \cap CancelFds) \in Nat
    BY <1>1, FS_Intersection, FS_CardinalityType
  <1>4. ~(Fds \subseteq S \cup CancelFds)
    <2> SUFFICES ASSUME Fds \subseteq S \cup CancelFds PROVE FALSE
      OBVIOUS
    <2>1. Cardinality(Fds) <= Cardinality(S \cup CancelFds)
      BY <1>2, FS_Subset
    <2> QED
      BY <1>1, <1>2, <1>3, <2>1, FdsFinite, BoundsAssumption
  <1>5. PICK f \in Fds : f \notin S /\ f \notin CancelFds
    BY <1>4
  <1>6. owner[f].pipe = "none"
    BY <1>5 DEF CancelFds, Typed, Owners
  <1>7. owner[f] = Unused
    BY <1>5, <1>6 DEF OwnerShape
  <1> QED
    BY <1>5, <1>7 DEF FreeFds

\* There is a free descriptor whenever one is taken, and two for a probe.
LEMMA FreeDescriptors ==
    ASSUME Shapes
    PROVE  /\ probe.pc = "load" =>
                 LET a == Lowest(FreeFds)
                     n == Lowest(FreeFds \ {a})
                 IN  /\ a \in Fds /\ owner[a] = Unused
                     /\ n \in Fds /\ owner[n] = Unused /\ n # a
           /\ probe.pc = "select" \/ listen.pc = "load" =>
                 Lowest(FreeFds) \in Fds /\ owner[Lowest(FreeFds)] = Unused
  <1>0. /\ Typed /\ OwnerShape /\ ProbeShape /\ CancelCount
        /\ MaxFd \in Nat /\ MaxRelays \in Nat /\ MaxFd >= MaxRelays + 3
        /\ relays \in 0..MaxRelays /\ FreeFds \in SUBSET Fds
    BY BoundsAssumption, FdAssumption DEF Shapes, Typed, FreeFds
  <1>1. Cardinality(CancelFds) \in Nat
    BY FdsFinite DEF CancelFds
  <1>2. /\ Cardinality(CancelFds) <= relays
        /\ listen.pc = "load" => Cardinality(CancelFds) + 1 <= relays
    BY <1>0, <1>1 DEF CancelCount
  <1> DEFINE a == Lowest(FreeFds)
             n == Lowest(FreeFds \ {a})
  <1>3. ASSUME probe.pc = "load"
        PROVE  /\ a \in Fds /\ owner[a] = Unused
               /\ n \in Fds /\ owner[n] = Unused /\ n # a
    <2>1. \A f \in Fds : owner[f].pipe \notin {"ack", "nack", "fallback"}
      BY <1>0, <1>3, BoundsAssumption DEF OwnerShape, ProbeShape, Running, Fds
    <2>2. FreeFds # {}
      BY <1>0, <1>1, <1>2, <2>1, FreeOutside, FS_EmptySet
    <2>3. a \in FreeFds
      BY <1>0, <2>2, LowestIsIn
    <2>4. IsFiniteSet({a}) /\ Cardinality({a}) = 1
      BY FS_Singleton
    <2> HIDE DEF a
    <2>5. FreeFds \ {a} # {}
      BY <1>0, <1>1, <1>2, <2>1, <2>4, FreeOutside
    <2>6. n \in FreeFds \ {a}
      BY <1>0, <2>5, LowestIsIn
    <2> QED
      BY <1>3, <2>3, <2>6 DEF a, FreeFds
  <1>4. ASSUME probe.pc = "select"
        PROVE  Lowest(FreeFds) \in Fds /\ owner[Lowest(FreeFds)] = Unused
    <2> DEFINE S == {probe.ack, probe.nack}
    <2>1. \A f \in Fds : owner[f].pipe \in {"ack", "nack", "fallback"} => f \in S
      BY <1>0, <1>4, BoundsAssumption DEF OwnerShape, ProbeShape, Running, Fds
    <2>2. IsFiniteSet(S) /\ Cardinality(S) \in Nat /\ Cardinality(S) <= 2
      BY ThreeElements
    <2> HIDE DEF S
    <2>3. FreeFds # {}
      BY <1>0, <1>1, <1>2, <2>1, <2>2, FreeOutside
    <2> QED
      BY <1>0, <1>4, <2>3, LowestIsIn DEF FreeFds
  <1>5. ASSUME listen.pc = "load"
        PROVE  Lowest(FreeFds) \in Fds /\ owner[Lowest(FreeFds)] = Unused
    <2> DEFINE S == {probe.ack, probe.nack, probe.fallback}
    <2>1. \A f \in Fds : owner[f].pipe \in {"ack", "nack", "fallback"} => f \in S
      BY <1>0 DEF OwnerShape
    <2>2. IsFiniteSet(S) /\ Cardinality(S) \in Nat /\ Cardinality(S) <= 3
      BY ThreeElements
    <2> HIDE DEF S
    <2>3. FreeFds # {}
      BY <1>0, <1>1, <1>2, <1>5, <2>1, <2>2, FreeOutside
    <2> QED
      BY <1>0, <1>5, <2>3, LowestIsIn DEF FreeFds
  <1> QED
    BY <1>3, <1>4, <1>5

-----------------------------------------------------------------------------
(* Facts that several steps use. *)

\* An ack is among the messages of a pipe if it was there or has been added.
LEMMA AckAmong ==
    ASSUME NEW s \in Seq(BOOLEAN), NEW v \in BOOLEAN
    PROVE  /\ Append(s, v) \in Seq(BOOLEAN)
           /\ HasAck(Append(s, v)) => HasAck(s) \/ v
           /\ s # <<>> =>
                 /\ Tail(s) \in Seq(BOOLEAN) /\ Head(s) \in BOOLEAN
                 /\ Head(s) => HasAck(s)
                 /\ HasAck(Tail(s)) => HasAck(s)
  <1>1. Append(s, v) \in Seq(BOOLEAN)
    OBVIOUS
  <1>2. ASSUME HasAck(Append(s, v)) PROVE HasAck(s) \/ v
    <2>1. PICK n \in 1..Len(Append(s, v)) : Append(s, v)[n]
      BY <1>2 DEF HasAck
    <2>2. Len(Append(s, v)) = Len(s) + 1 /\ Len(s) \in Nat
      OBVIOUS
    <2>3. CASE n = Len(s) + 1
      BY <2>1, <2>2, <2>3
    <2>4. CASE n \in 1..Len(s)
      BY <2>1, <2>2, <2>4 DEF HasAck
    <2> QED
      BY <2>2, <2>3, <2>4
  <1>3. ASSUME s # <<>>
        PROVE  /\ Tail(s) \in Seq(BOOLEAN) /\ Head(s) \in BOOLEAN
               /\ Head(s) => HasAck(s)
               /\ HasAck(Tail(s)) => HasAck(s)
    <2>1. Len(s) \in Nat /\ Len(s) >= 1 /\ Len(Tail(s)) = Len(s) - 1
      BY <1>3
    <2>2. Tail(s) \in Seq(BOOLEAN) /\ Head(s) = s[1]
      BY <1>3
    <2>3. \A n \in 1..Len(Tail(s)) : Tail(s)[n] = s[n + 1]
      BY <1>3
    <2>4. ASSUME HasAck(Tail(s)) PROVE HasAck(s)
      <3>1. PICK n \in 1..Len(Tail(s)) : Tail(s)[n]
        BY <2>4 DEF HasAck
      <3>2. n + 1 \in 1..Len(s) /\ s[n + 1]
        BY <2>1, <2>3, <3>1
      <3> QED
        BY <3>2 DEF HasAck
    <2>5. Head(s) => HasAck(s)
      <3>1. 1 \in 1..Len(s)
        BY <2>1
      <3> QED
        BY <2>2, <3>1 DEF HasAck
    <2>6. Head(s) \in BOOLEAN
      BY <1>3
    <2> QED
      BY <2>2, <2>4, <2>5, <2>6
  <1> QED
    BY <1>1, <1>2, <1>3

\* The cancel pipes stay within the relays if none is opened.
LEMMA CancelShrinks ==
    ASSUME Typed, Typed', CancelCount, CancelFds' \subseteq CancelFds,
           \/ relays' = relays /\ (listen'.pc = "load" => listen.pc = "load")
           \/ relays' = relays + 1 /\ listen.pc = "idle"
    PROVE  CancelCount'
  <1>1. /\ Cardinality(CancelFds) \in Nat /\ Cardinality(CancelFds)' \in Nat
        /\ Cardinality(CancelFds') <= Cardinality(CancelFds)
    <2>1. CancelFds \in SUBSET Fds /\ IsFiniteSet(CancelFds)
      BY FdsFinite DEF CancelFds
    <2>2. CancelFds' \in SUBSET CancelFds /\ CancelFds' \in SUBSET Fds
      BY <2>1
    <2> QED
      BY <2>1, <2>2, FS_Subset, FdsFinite
  <1>2. relays \in Nat /\ relays' \in Nat
    BY BoundsAssumption DEF Typed
  <1> QED
    BY <1>1, <1>2 DEF CancelCount

\* A handler is a record, and None has no use.
LEMMA HandlerFields ==
    ASSUME NEW h \in Handler \cup {None}
    PROVE  /\ h.use \in {"none", "probe", "relay"}
           /\ h.use = "none" <=> h = None
           /\ h.use # "none" => h \in Handler /\ h.fd \in Fds
           /\ h.nackFd \in Fds \cup {0}
           /\ h.timer \in {"new", "asleep", "over"}
  BY DEF Handler, None

-----------------------------------------------------------------------------
(* Steps that touch no descriptor. *)

\* A step that changes neither the handlers, the probe, the descriptors nor
\* the threads' numbers; at most it ends the process.
LEMMA Stutters ==
    ASSUME PInv, ended' \in BOOLEAN,
           UNCHANGED <<allowTcpPing, sequenceNum, probe, inbox, reply, ackHandlers,
                       listen, tcp, nacks, poked, answered, relays, owner, pinged,
                       asked, saved, causes, misused>>
    PROVE  PInv'
  <1>1. Shapes'
    BY DEF PInv, Shapes, Typed, ProbeShape, HandlersShape, HandlerShape, ListenShape,
           OwnerShape, SeqOrder, NackUnique, CancelCount, CancelFds, Running
  <1>2. Sound'
    BY DEF PInv, Sound, CancelHeld, RelayOpen, TakenOnce, ProbeHandlers, AckedOnce, HasAck
  <1>3. Clean'
    BY DEF PInv, Clean, NoCause, PipesOpen, HandlersOfProbe, ListenOfProbe, OfProbe,
           TcpOfProbe, NacksOpen, RelayInHand, Running
  <1> QED
    BY <1>1, <1>2, <1>3 DEF PInv

\* The fetch_add of the probe's nextSeqNum.
LEMMA ProbeAddKeeps == ASSUME PInv, ProbeAdd PROVE PInv'
  <1>0. /\ Typed /\ MaxSeq \in Nat /\ probe \in ProbeRec /\ sequenceNum \in Nat
        /\ listen \in ListenRec
    BY BoundsAssumption DEF PInv, Shapes, Typed
  <1>1. /\ probe.pc = "idle" /\ sequenceNum' = sequenceNum + 1 /\ sequenceNum < MaxSeq
        /\ probe' = [probe EXCEPT !.pc = "load"]
        /\ UNCHANGED <<allowTcpPing, inbox, reply, ackHandlers, listen, tcp, nacks, poked,
                       answered, relays, owner, pinged, asked, saved, causes, misused, ended>>
    BY DEF ProbeAdd, ProbeSame
  <1>2. /\ probe' \in ProbeRec /\ probe'.pc = "load" /\ probe'.seq = probe.seq
        /\ probe'.ack = probe.ack /\ probe'.nack = probe.nack
        /\ probe'.fallback = probe.fallback
    BY <1>0, <1>1 DEF ProbeRec
  <1>3. Typed'
    BY <1>0, <1>1, <1>2 DEF Typed
  <1>4. ProbeShape' /\ HandlersShape' /\ ListenShape' /\ OwnerShape'
    BY <1>1, <1>2
    DEF PInv, Shapes, ProbeShape, Running, HandlersShape, HandlerShape, ListenShape, OwnerShape
  <1>5. SeqOrder'
    BY <1>0, <1>1, <1>2 DEF PInv, Shapes, SeqOrder, ListenRec, NackThreads, Seqs, Typed, Handler, None
  <1>6. NackUnique' /\ CancelCount'
    BY <1>1 DEF PInv, Shapes, NackUnique, CancelCount, CancelFds
  <1>7. Sound'
    BY <1>1, <1>2 DEF PInv, Sound, CancelHeld, RelayOpen, TakenOnce, ProbeHandlers, AckedOnce, HasAck
  <1>8. Clean'
    BY <1>1, <1>2 DEF PInv, Clean, NoCause, PipesOpen, HandlersOfProbe, ListenOfProbe,
       OfProbe, TcpOfProbe, NacksOpen, RelayInHand, Running
  <1> QED
    BY <1>3, <1>4, <1>5, <1>6, <1>7, <1>8 DEF PInv, Shapes

\* The probe starts its handler's timer and sends the ping.
LEMMA ProbeRunKeeps == ASSUME PInv, ProbeRun PROVE PInv'
  <1>0. /\ Typed /\ probe \in ProbeRec /\ ackHandlers \in [Seqs -> Handler \cup {None}]
        /\ HandlersShape /\ ProbeShape
    BY DEF PInv, Shapes, Typed
  <1>1. /\ probe.pc = "run" /\ probe' = [probe EXCEPT !.pc = "select"]
        /\ ackHandlers' = TimerStarted(probe.seq)
        /\ pinged' = pinged \cup {probe.seq} /\ ended' \in BOOLEAN
        /\ UNCHANGED <<allowTcpPing, sequenceNum, inbox, reply, listen, tcp, nacks, poked,
                       answered, relays, owner, asked, saved, causes, misused>>
    BY DEF ProbeRun, ProbeSame
  <1>2. /\ probe' \in ProbeRec /\ probe'.pc = "select" /\ probe'.seq = probe.seq
        /\ probe'.ack = probe.ack /\ probe'.nack = probe.nack
        /\ probe'.fallback = probe.fallback /\ probe.seq \in Seqs
    BY <1>0, <1>1, BoundsAssumption DEF ProbeRec, ProbeShape, Running, Seqs
  <1>3. ASSUME NEW s \in Seqs
        PROVE  /\ ackHandlers'[s] \in Handler \cup {None}
               /\ ackHandlers'[s].use = ackHandlers[s].use
               /\ ackHandlers'[s].fd = ackHandlers[s].fd
               /\ ackHandlers'[s].nackFd = ackHandlers[s].nackFd
               /\ HandlerShape(ackHandlers'[s])
    <2> DEFINE h == ackHandlers[s]
    <2>1. h \in Handler \cup {None} /\ HandlerShape(h)
      BY <1>0 DEF HandlersShape
    <2>2. CASE s = probe.seq /\ h.use = "probe"
      <3>1. ackHandlers'[s] = [h EXCEPT !.timer = "asleep"] /\ h \in Handler
        BY <1>0, <1>1, <2>1, <2>2, HandlerFields DEF TimerStarted
      <3> HIDE DEF h
      <3>2. /\ [h EXCEPT !.timer = "asleep"] \in Handler
            /\ [h EXCEPT !.timer = "asleep"].use = h.use
            /\ [h EXCEPT !.timer = "asleep"].fd = h.fd
            /\ [h EXCEPT !.timer = "asleep"].nackFd = h.nackFd
        BY <3>1 DEF Handler
      <3> QED
        BY <2>1, <2>2, <3>1, <3>2 DEF HandlerShape, h
    <2>3. CASE ~(s = probe.seq /\ h.use = "probe")
      <3>1. ackHandlers'[s] = h
        BY <1>0, <1>1, <2>3 DEF TimerStarted
      <3> QED
        BY <2>1, <3>1
    <2> QED
      BY <2>2, <2>3
  <1>4. ackHandlers' \in [Seqs -> Handler \cup {None}]
    <2>1. ackHandlers' = [ackHandlers EXCEPT ![probe.seq].timer = "asleep"] \/ ackHandlers' = ackHandlers
      BY <1>1 DEF TimerStarted
    <2>2. ackHandlers' = [s \in Seqs |-> ackHandlers'[s]]
      BY <1>0, <2>1
    <2> QED
      BY <1>3, <2>2
  <1>5. Typed'
    BY <1>0, <1>1, <1>2, <1>4 DEF Typed
  <1>6. ProbeShape' /\ HandlersShape' /\ ListenShape' /\ OwnerShape'
    BY <1>1, <1>2, <1>3
    DEF PInv, Shapes, ProbeShape, Running, HandlersShape, HandlerShape, ListenShape, OwnerShape
  <1>7. SeqOrder'
    BY <1>1, <1>2, <1>3 DEF PInv, Shapes, SeqOrder
  <1>8. NackUnique' /\ CancelCount'
    BY <1>1 DEF PInv, Shapes, NackUnique, CancelCount, CancelFds
  <1>9. Sound'
    <2>1. ~misused' => poked' = {} /\ CancelHeld' /\ RelayOpen' /\ ProbeHandlers'
      BY <1>1, <1>2, <1>3 DEF PInv, Sound, CancelHeld, RelayOpen, ProbeHandlers
    <2>2. listen.pc = "ack" => listen.seq \in Seqs
      BY <1>0, BoundsAssumption DEF PInv, Shapes, ListenShape, Typed, ListenRec, Seqs
    <2>3. ~misused' => TakenOnce' /\ AckedOnce'
      BY <1>1, <1>2, <1>3, <2>2 DEF PInv, Sound, TakenOnce, AckedOnce, HasAck
    <2> QED
      BY <2>1, <2>3 DEF Sound
  <1>10. Clean'
    BY <1>1, <1>2, <1>3 DEF PInv, Clean, NoCause, PipesOpen, HandlersOfProbe, ListenOfProbe,
       OfProbe, TcpOfProbe, NacksOpen, RelayInHand, Running
  <1> QED
    BY <1>5, <1>6, <1>7, <1>8, <1>9, <1>10 DEF PInv, Shapes

\* The put-back read of the timer's message, when the node is asked over TCP.
LEMMA ProbeWaitKeeps == ASSUME PInv, ProbeWaitAck, ~Head(inbox) PROVE PInv'
  <1>0. /\ Typed /\ probe \in ProbeRec /\ inbox \in Seq(BOOLEAN) /\ ProbeShape
    BY DEF PInv, Shapes, Typed
  <1>1. /\ probe.pc = "waitAck" /\ probe' = [probe EXCEPT !.pc = "waitTcp"]
        /\ inbox # <<>> /\ inbox' = Tail(inbox)
        /\ UNCHANGED <<allowTcpPing, sequenceNum, reply, ackHandlers, listen, tcp, nacks, poked,
                       answered, relays, owner, pinged, asked, saved, causes, misused, ended>>
    BY DEF ProbeWaitAck, ProbeSame
  <1>2. /\ probe' \in ProbeRec /\ probe'.pc = "waitTcp" /\ probe'.seq = probe.seq
        /\ probe'.ack = probe.ack /\ probe'.nack = probe.nack
        /\ probe'.fallback = probe.fallback
    BY <1>0, <1>1 DEF ProbeRec
  <1>3. inbox' \in Seq(BOOLEAN) /\ (HasAck(inbox') => HasAck(inbox))
    BY <1>0, <1>1, AckAmong
  <1>4. Typed'
    BY <1>0, <1>1, <1>2, <1>3 DEF Typed
  <1>5. ProbeShape' /\ HandlersShape' /\ ListenShape' /\ OwnerShape'
    BY <1>1, <1>2
    DEF PInv, Shapes, ProbeShape, Running, HandlersShape, HandlerShape, ListenShape, OwnerShape
  <1>6. SeqOrder' /\ NackUnique' /\ CancelCount'
    BY <1>1, <1>2 DEF PInv, Shapes, SeqOrder, NackUnique, CancelCount, CancelFds
  <1>7. Sound'
    BY <1>1, <1>2, <1>3
    DEF PInv, Sound, CancelHeld, RelayOpen, TakenOnce, ProbeHandlers, AckedOnce
  <1>8. Clean'
    BY <1>1, <1>2 DEF PInv, Clean, NoCause, PipesOpen, HandlersOfProbe, ListenOfProbe,
       OfProbe, TcpOfProbe, NacksOpen, RelayInHand, Running
  <1> QED
    BY <1>4, <1>5, <1>6, <1>7, <1>8 DEF PInv, Shapes

\* packetListen takes a handler out of the map, or borrows it for a nack.
LEMMA HandleKeeps ==
    ASSUME PInv, NEW s \in Seqs, HandleAck(s) \/ HandleNack(s)
    PROVE  PInv'
  <1> DEFINE h == ackHandlers[s]
  <1>0. /\ Typed /\ listen \in ListenRec /\ h \in Handler \cup {None}
        /\ ackHandlers \in [Seqs -> Handler \cup {None}] /\ HandlerShape(h)
        /\ None \in Handler \cup {None} /\ s \in 0..MaxSeq /\ s # 0
    BY BoundsAssumption DEF PInv, Shapes, Typed, HandlersShape, Seqs
  <1>1. /\ listen.pc = "idle" /\ h # None /\ h.use # "none"
        /\ listen'.pc \in {"ack", "nack"} /\ listen'.seq = s /\ listen'.h = h
        /\ listen' \in ListenRec
        /\ listen'.pc = "ack" => ackHandlers' = [ackHandlers EXCEPT ![s] = None]
        /\ listen'.pc = "nack" => ackHandlers' = ackHandlers /\ h.use = "probe"
        /\ UNCHANGED <<allowTcpPing, sequenceNum, probe, inbox, reply, tcp, nacks, poked,
                       answered, relays, owner, pinged, asked, saved, causes, misused, ended>>
    BY <1>0, HandlerFields DEF HandleAck, HandleNack, ListenSame, SetHandler, ListenRec, None
  <1>2. \A x \in Seqs : ackHandlers'[x] = ackHandlers[x] \/ ackHandlers'[x] = None
    BY <1>0, <1>1
  <1>3. None.use = "none" /\ HandlerShape(None)
    BY DEF None, HandlerShape
  <1> HIDE DEF h
  <1>4. ackHandlers' \in [Seqs -> Handler \cup {None}]
    BY <1>0, <1>1
  <1>5. Typed'
    BY <1>0, <1>1, <1>4 DEF Typed
  <1>6. ProbeShape' /\ HandlersShape' /\ ListenShape' /\ OwnerShape'
    BY <1>0, <1>1, <1>2, <1>3
    DEF PInv, Shapes, ProbeShape, Running, HandlersShape, ListenShape, OwnerShape
  <1>7. SeqOrder'
    BY <1>0, <1>1, <1>2, <1>3 DEF PInv, Shapes, SeqOrder, h
  <1>8. NackUnique' /\ CancelCount'
    BY <1>1 DEF PInv, Shapes, NackUnique, CancelCount, CancelFds
  <1>9. Sound'
    <2>1. ~misused' => poked' = {} /\ CancelHeld' /\ RelayOpen' /\ ProbeHandlers'
      BY <1>1, <1>2, <1>3 DEF PInv, Sound, CancelHeld, RelayOpen, ProbeHandlers
    <2>2. TakenOnce'
      BY <1>0, <1>1, <1>3 DEF TakenOnce
    <2>3. ~misused' => AckedOnce'
      <3>1. HasAck(inbox) => probe.seq \in Seqs
        <4>1. inbox = <<>> => ~HasAck(inbox)
          BY DEF HasAck
        <4>2. inbox # <<>> => probe.seq # 0
          BY DEF PInv, Shapes, ProbeShape
        <4> QED
          BY <1>0, <4>1, <4>2, BoundsAssumption DEF Typed, ProbeRec, Seqs
      <3> QED
        BY <1>1, <1>2, <1>3, <3>1 DEF PInv, Sound, AckedOnce
    <2> QED
      BY <2>1, <2>2, <2>3 DEF Sound
  <1>10. Clean'
    <2> SUFFICES ASSUME NoCause' PROVE (~misused /\ PipesOpen /\ HandlersOfProbe /\ ListenOfProbe
                                        /\ TcpOfProbe /\ NacksOpen /\ RelayInHand)'
      BY DEF Clean
    <2>0. NoCause /\ ~misused
      BY <1>1 DEF PInv, Clean, NoCause
    <2>1. (~misused /\ PipesOpen /\ TcpOfProbe /\ NacksOpen)'
      BY <1>1, <2>0 DEF PInv, Clean, PipesOpen, TcpOfProbe, NacksOpen, Running
    <2>2. HandlersOfProbe' /\ ListenOfProbe'
      BY <1>1, <1>2, <1>3, <2>0 DEF PInv, Clean, HandlersOfProbe, ListenOfProbe, OfProbe, h
    <2>3. RelayInHand'
      <3> SUFFICES ASSUME h.use = "relay", NEW t \in nacks, t.seq = s
                   PROVE  t.fd = h.fd /\ owner[t.fd] = Pipe("cancel", t.seq)
        BY <1>1 DEF RelayInHand
      <3>1. owner[h.fd] = Pipe("cancel", s) /\ h.fd \in Fds
        BY <1>0, <2>0, HandlerFields DEF PInv, Sound, RelayOpen, h
      <3>2. PICK u \in nacks : u.seq = s /\ u.fd = h.fd
        BY <2>0, <3>1 DEF PInv, Sound, CancelHeld, Pipe
      <3>3. u = t
        BY <3>2 DEF PInv, Shapes, NackUnique
      <3> QED
        BY <3>1, <3>2, <3>3
    <2> QED
      BY <2>1, <2>2, <2>3
  <1> QED
    BY <1>5, <1>6, <1>7, <1>8, <1>9, <1>10 DEF PInv, Shapes

\* The fetch_add of a relay's nextSeqNum.
LEMMA RelayAddKeeps == ASSUME PInv, RelayAdd PROVE PInv'
  <1>0. /\ Typed /\ MaxSeq \in Nat /\ MaxRelays \in Nat /\ sequenceNum \in Nat
        /\ relays \in Nat /\ listen \in ListenRec
    BY BoundsAssumption DEF PInv, Shapes, Typed
  <1>1. /\ listen.pc = "idle" /\ sequenceNum' = sequenceNum + 1 /\ sequenceNum < MaxSeq
        /\ relays' = relays + 1 /\ relays < MaxRelays
        /\ listen' = [listen EXCEPT !.pc = "load"]
        /\ UNCHANGED <<allowTcpPing, probe, inbox, reply, ackHandlers, tcp, nacks, poked,
                       answered, owner, pinged, asked, saved, causes, misused, ended>>
    BY DEF RelayAdd, ListenSame
  <1>2. /\ listen' \in ListenRec /\ listen'.pc = "load" /\ listen'.seq = listen.seq
        /\ listen'.h = listen.h
    BY <1>0, <1>1 DEF ListenRec
  <1>3. Typed'
    BY <1>0, <1>1, <1>2 DEF Typed
  <1>4. ProbeShape' /\ HandlersShape' /\ ListenShape' /\ OwnerShape'
    BY <1>1, <1>2
    DEF PInv, Shapes, ProbeShape, Running, HandlersShape, ListenShape, OwnerShape
  <1>5. SeqOrder'
    BY <1>0, <1>1, <1>2 DEF PInv, Shapes, SeqOrder, ListenRec, NackThreads, Seqs, Typed
  <1>6. NackUnique' /\ CancelCount'
    <2>1. CancelFds' = CancelFds
      BY <1>1 DEF CancelFds
    <2> QED
      BY <1>0, <1>1, <1>3, <2>1, CancelShrinks DEF PInv, Shapes, NackUnique
  <1>7. Sound'
    BY <1>1, <1>2 DEF PInv, Sound, CancelHeld, RelayOpen, TakenOnce, ProbeHandlers, AckedOnce
  <1>8. Clean'
    BY <1>1, <1>2 DEF PInv, Clean, NoCause, PipesOpen, HandlersOfProbe, ListenOfProbe,
       OfProbe, TcpOfProbe, NacksOpen, RelayInHand, Running
  <1> QED
    BY <1>3, <1>4, <1>5, <1>6, <1>7, <1>8 DEF PInv, Shapes

\* A nack thread ends because its cancel pipe was closed.
LEMMA NackCancelledKeeps == ASSUME PInv, NEW t \in nacks, NackCancelled(t) PROVE PInv'
  <1>1. /\ Readable(t.seq) /\ nacks' = nacks \ {t}
        /\ UNCHANGED <<allowTcpPing, sequenceNum, probe, inbox, reply, ackHandlers, listen, tcp,
                       poked, answered, relays, owner, pinged, asked, saved, causes,
                       misused, ended>>
    BY DEF NackCancelled, DetachedSame
  <1>2. Typed'
    BY <1>1 DEF PInv, Shapes, Typed
  <1>3. ProbeShape' /\ HandlersShape' /\ ListenShape' /\ OwnerShape' /\ CancelCount'
    BY <1>1 DEF PInv, Shapes, ProbeShape, Running, HandlersShape, ListenShape, OwnerShape,
                CancelCount, CancelFds
  <1>4. SeqOrder' /\ NackUnique'
    BY <1>1 DEF PInv, Shapes, SeqOrder, NackUnique
  <1>5. Sound'
    <2>1. ~misused' => poked' = {} /\ RelayOpen' /\ TakenOnce' /\ ProbeHandlers' /\ AckedOnce'
      BY <1>1 DEF PInv, Sound, RelayOpen, TakenOnce, ProbeHandlers, AckedOnce
    <2>2. ASSUME ~misused', NEW f \in Fds, owner[f].pipe = "cancel"
          PROVE  \E u \in nacks' : u.seq = owner[f].of /\ u.fd = f
      <3>1. PICK u \in nacks : u.seq = owner[f].of /\ u.fd = f
        BY <1>1, <2>2 DEF PInv, Sound, CancelHeld
      <3>2. owner[f] = Pipe("cancel", owner[f].of)
        BY <2>2 DEF PInv, Shapes, Typed, Owners, Pipe
      <3>3. \A g \in Fds : owner[g] # Pipe("cancel", t.seq)
        BY <1>1, <2>2 DEF PInv, Sound, Readable
      <3> QED
        BY <1>1, <3>1, <3>2, <3>3
    <2> QED
      BY <1>1, <2>1, <2>2 DEF Sound, CancelHeld
  <1>6. Clean'
    BY <1>1 DEF PInv, Clean, NoCause, PipesOpen, HandlersOfProbe, ListenOfProbe,
       OfProbe, TcpOfProbe, NacksOpen, RelayInHand, Running
  <1> QED
    BY <1>2, <1>3, <1>4, <1>5, <1>6 DEF PInv, Shapes

\* The select of a nack thread times out.
LEMMA NackExpireKeeps == ASSUME PInv, NEW t \in nacks, NackExpire(t) PROVE PInv'
  <1> DEFINE x == [t EXCEPT !.pc = "expired"]
  <1>1. /\ t.pc = "wait" /\ ~Readable(t.seq) /\ nacks' = (nacks \ {t}) \cup {x}
        /\ UNCHANGED <<allowTcpPing, sequenceNum, probe, inbox, reply, ackHandlers, listen, tcp,
                       poked, answered, relays, owner, pinged, asked, saved, causes,
                       misused, ended>>
    BY DEF NackExpire, DetachedSame
  <1>2. t \in NackThreads /\ x \in NackThreads /\ x.seq = t.seq /\ x.fd = t.fd
    BY DEF PInv, Shapes, Typed, NackThreads
  <1> HIDE DEF x
  <1>3. Typed'
    BY <1>1, <1>2 DEF PInv, Shapes, Typed
  <1>4. ProbeShape' /\ HandlersShape' /\ ListenShape' /\ OwnerShape' /\ CancelCount'
    BY <1>1 DEF PInv, Shapes, ProbeShape, Running, HandlersShape, ListenShape, OwnerShape,
                CancelCount, CancelFds
  <1>5. SeqOrder' /\ NackUnique'
    BY <1>1, <1>2 DEF PInv, Shapes, SeqOrder, NackUnique
  <1>6. Sound'
    <2>1. ~misused' => poked' = {} /\ RelayOpen' /\ TakenOnce' /\ ProbeHandlers' /\ AckedOnce'
      BY <1>1 DEF PInv, Sound, RelayOpen, TakenOnce, ProbeHandlers, AckedOnce
    <2>2. ~misused' => CancelHeld'
      BY <1>1, <1>2 DEF PInv, Sound, CancelHeld
    <2> QED
      BY <2>1, <2>2 DEF Sound
  <1>7. Clean'
    <2>1. ASSUME NoCause' PROVE NacksOpen'
      <3>1. NacksOpen
        BY <1>1, <2>1 DEF PInv, Clean, NoCause
      <3>2. owner[x.fd] = Pipe("cancel", x.seq)
        BY <1>1, <1>2, <3>1 DEF NacksOpen, Readable
      <3> QED
        BY <1>1, <3>1, <3>2 DEF NacksOpen
    <2>2. ASSUME NoCause' PROVE RelayInHand'
      BY <1>1, <1>2, <2>2 DEF PInv, Clean, NoCause, RelayInHand
    <2>3. NoCause' => (~misused /\ PipesOpen /\ HandlersOfProbe /\ ListenOfProbe /\ TcpOfProbe)'
      BY <1>1 DEF PInv, Clean, NoCause, PipesOpen, HandlersOfProbe, ListenOfProbe,
         OfProbe, TcpOfProbe, Running
    <2> QED
      BY <2>1, <2>2, <2>3 DEF Clean
  <1> QED
    BY <1>3, <1>4, <1>5, <1>6, <1>7 DEF PInv, Shapes

-----------------------------------------------------------------------------
(* Steps that write to a pipe. *)

\* A write to a descriptor that the writer takes for a pipe of a probe: either
\* it reaches that pipe or misused is set.
LEMMA WriteReaches ==
    ASSUME PInv, NEW f \in Fds, NEW p \in {"ack", "nack", "fallback"}, NEW s,
           NEW v \in BOOLEAN, WriteTo(f, Pipe(p, s), v)
    PROVE  /\ misused' \in BOOLEAN /\ ended' \in BOOLEAN
           /\ inbox' \in Seq(BOOLEAN) /\ reply' \in Seq(BOOLEAN)
           /\ poked' \in SUBSET Seqs
           /\ ~Running => inbox' = <<>>
           /\ owner[f] = Pipe(p, s) => misused' = misused
           /\ ~misused' =>
                 /\ ~misused /\ owner[f] = Pipe(p, s) /\ s = probe.seq
                 /\ poked' = poked
                 /\ HasAck(inbox') => HasAck(inbox) \/ (v /\ p = "ack")
  <1>0. /\ Typed /\ OwnerShape /\ ProbeShape /\ owner[f] \in Owners
        /\ inbox \in Seq(BOOLEAN) /\ reply \in Seq(BOOLEAN) /\ misused \in BOOLEAN
    BY DEF PInv, Shapes, Typed
  <1>1. misused' \in BOOLEAN /\ ended' \in BOOLEAN /\ (owner[f] = Pipe(p, s) => misused' = misused)
    BY <1>0 DEF WriteTo
  <1>2. /\ inbox' = inbox \/ inbox' = Append(inbox, v)
        /\ reply' = reply \/ reply' = Append(reply, v)
        /\ inbox' # inbox => owner[f].pipe = "ack"
    BY DEF WriteTo
  <1>3. inbox' \in Seq(BOOLEAN) /\ reply' \in Seq(BOOLEAN)
    BY <1>0, <1>2, AckAmong
  <1>4. poked' \in SUBSET Seqs
    <2>1. owner[f].pipe = "cancel" => owner[f].of \in Seqs
      BY <1>0, BoundsAssumption DEF OwnerShape, Owners, Seqs
    <2> QED
      BY <1>0, <2>1 DEF WriteTo, Typed
  <1>5. ASSUME ~Running PROVE inbox' = <<>>
    <2>1. owner[f].pipe # "ack"
      BY <1>0, <1>5, BoundsAssumption DEF OwnerShape, ProbeShape, Fds
    <2> QED
      BY <1>0, <1>2, <1>5, <2>1 DEF ProbeShape
  <1>6. ASSUME ~misused'
        PROVE  /\ ~misused /\ owner[f] = Pipe(p, s) /\ s = probe.seq
               /\ poked' = poked
               /\ HasAck(inbox') => HasAck(inbox) \/ (v /\ p = "ack")
    <2>1. ~misused /\ owner[f] = Pipe(p, s)
      BY <1>0, <1>6 DEF WriteTo
    <2>2. owner[f].pipe = p /\ owner[f].of = s
      BY <2>1 DEF Pipe
    <2>3. s = probe.seq
      BY <1>0, <2>2 DEF OwnerShape
    <2>4. poked' = poked
      BY <2>2 DEF WriteTo
    <2>5. HasAck(inbox') => HasAck(inbox) \/ (v /\ p = "ack")
      <3>1. CASE inbox' = inbox
        BY <3>1
      <3>2. CASE inbox' # inbox
        <4>1. inbox' = Append(inbox, v) /\ p = "ack"
          BY <1>2, <2>2, <3>2
        <4>2. HasAck(Append(inbox, v)) => HasAck(inbox) \/ v
          BY <1>0, AckAmong
        <4> QED
          BY <4>1, <4>2
      <3> QED
        BY <3>1, <3>2
    <2> QED
      BY <2>1, <2>3, <2>4, <2>5
  <1> QED
    BY <1>1, <1>3, <1>4, <1>5, <1>6

\* What a handler is for, and the numbers that it has captured.
SameHandler(g, h) == g.use = h.use /\ g.fd = h.fd /\ g.nackFd = h.nackFd

\* A step that writes to a pipe of a probe and otherwise only sets timers, ends
\* the handler in hand or ends a TCP thread.
LEMMA WriteKeeps ==
    ASSUME PInv, NEW f \in Fds, NEW p \in {"ack", "nack", "fallback"}, NEW s,
           NEW v \in BOOLEAN, WriteTo(f, Pipe(p, s), v),
           UNCHANGED <<allowTcpPing, sequenceNum, probe, nacks, answered, relays, owner,
                       pinged, asked, saved, causes>>,
           ackHandlers' \in [Seqs -> Handler \cup {None}],
           \A x \in Seqs : /\ SameHandler(ackHandlers'[x], ackHandlers[x])
                           /\ HandlerShape(ackHandlers'[x]),
           listen' \in ListenRec, HandlerShape(listen'.h),
           \/ listen' = Listening
           \/ /\ listen'.pc = listen.pc /\ listen'.seq = listen.seq
              /\ SameHandler(listen'.h, listen.h) /\ (listen'.h = None <=> listen.h = None),
           tcp' \subseteq tcp,
           NoCause => owner[f] = Pipe(p, s),
           ~misused /\ p = "ack" /\ s = probe.seq /\ v => ackHandlers[s].use # "probe"
    PROVE  PInv'
  <1>0. Shapes /\ Typed /\ OwnerShape /\ ProbeShape /\ ListenShape
    BY DEF PInv, Shapes
  <1>1. /\ misused' \in BOOLEAN /\ ended' \in BOOLEAN
        /\ inbox' \in Seq(BOOLEAN) /\ reply' \in Seq(BOOLEAN)
        /\ poked' \in SUBSET Seqs
        /\ ~Running => inbox' = <<>>
        /\ owner[f] = Pipe(p, s) => misused' = misused
    BY WriteReaches
  <1>2. ~misused' =>
            /\ ~misused /\ owner[f] = Pipe(p, s) /\ s = probe.seq
            /\ poked' = poked
            /\ HasAck(inbox') => HasAck(inbox) \/ (v /\ p = "ack")
    BY WriteReaches
  <1>3. Listening.pc = "idle" /\ Listening.h = None /\ Listening.seq = 0 /\ None.use = "none"
    BY DEF Listening, None
  <1>4. Typed'
    BY <1>0, <1>1 DEF Typed
  <1>5. ProbeShape'
    BY <1>0, <1>1 DEF ProbeShape, Running
  <1>6. ListenShape'
    BY <1>0, <1>3 DEF ListenShape, SameHandler
  <1>7. HandlersShape' /\ OwnerShape' /\ NackUnique'
    BY DEF PInv, Shapes, HandlersShape, OwnerShape, NackUnique
  <1>8. SeqOrder'
    <2>1. SeqOrder /\ sequenceNum \in Nat
      BY <1>0, BoundsAssumption DEF Shapes, Typed
    <2>2. CASE listen' = Listening
      BY <1>3, <2>1, <2>2 DEF SeqOrder, SameHandler
    <2>3. CASE listen' # Listening
      BY <2>1, <2>3 DEF SeqOrder, SameHandler
    <2> QED
      BY <2>2, <2>3
  <1>9. CancelCount'
    <2>1. CancelFds' = CancelFds
      BY DEF CancelFds
    <2> QED
      BY <1>0, <1>3, <1>4, <2>1, CancelShrinks DEF Shapes
  <1>10. Sound'
    <2> SUFFICES ASSUME ~misused'
                 PROVE  /\ poked' = {} /\ CancelHeld' /\ RelayOpen'
                        /\ TakenOnce' /\ ProbeHandlers' /\ AckedOnce'
      BY DEF Sound
    <2>0. ~misused /\ poked = {} /\ CancelHeld /\ RelayOpen /\ TakenOnce /\ ProbeHandlers /\ AckedOnce
      BY <1>2 DEF PInv, Sound
    <2>1. poked' = {} /\ CancelHeld' /\ RelayOpen' /\ ProbeHandlers'
      BY <1>2, <2>0 DEF CancelHeld, RelayOpen, ProbeHandlers, SameHandler
    <2>2. TakenOnce'
      <3>1. listen.pc = "ack" => listen.seq \in Seqs
        BY <1>0, BoundsAssumption DEF ListenShape, Typed, ListenRec, Seqs
      <3> QED
        BY <1>3, <2>0, <3>1 DEF TakenOnce, SameHandler
    <2>3. AckedOnce'
      <3>1. probe.seq \in Seqs
        <4>1. f \in Fds /\ owner[f].pipe = p
          BY <1>2 DEF Pipe
        <4>2. Running
          BY <1>0, <4>1, BoundsAssumption DEF OwnerShape, ProbeShape, Fds, Running
        <4> QED
          BY <1>0, <4>2, BoundsAssumption DEF ProbeShape, Typed, ProbeRec, Seqs
      <3> QED
        BY <1>2, <2>0, <3>1 DEF AckedOnce, SameHandler
    <2> QED
      BY <2>1, <2>2, <2>3
  <1>11. Clean'
    <2> SUFFICES ASSUME NoCause'
                 PROVE  (~misused /\ PipesOpen /\ HandlersOfProbe /\ ListenOfProbe
                         /\ TcpOfProbe /\ NacksOpen /\ RelayInHand)'
      BY DEF Clean
    <2>0. NoCause
      BY DEF NoCause
    <2>1. /\ ~misused /\ PipesOpen /\ HandlersOfProbe /\ ListenOfProbe
          /\ TcpOfProbe /\ NacksOpen /\ RelayInHand
      BY <2>0 DEF PInv, Clean
    <2>2. (~misused)'
      BY <1>1, <2>0, <2>1
    <2>3. (PipesOpen /\ HandlersOfProbe /\ TcpOfProbe /\ NacksOpen)'
      BY <2>1 DEF PipesOpen, Running, HandlersOfProbe, OfProbe, SameHandler, TcpOfProbe, NacksOpen
    <2>4. (ListenOfProbe /\ RelayInHand)'
      BY <1>3, <2>1 DEF ListenOfProbe, RelayInHand, OfProbe, SameHandler
    <2> QED
      BY <2>2, <2>3, <2>4
  <1> QED
    BY <1>4, <1>5, <1>6, <1>7, <1>8, <1>9, <1>10, <1>11 DEF PInv, Shapes

\* A handler whose timer is over is the same handler.
LEMMA TimerOver ==
    ASSUME NEW h \in Handler, HandlerShape(h)
    PROVE  LET g == [h EXCEPT !.timer = "over"]
           IN  g \in Handler /\ SameHandler(g, h) /\ HandlerShape(g)
  BY DEF Handler, SameHandler, HandlerShape

\* A probe's timer fires with its handler in the map.
LEMMA TimerFireKeeps == ASSUME PInv, NEW s \in Seqs, TimerFire(s) PROVE PInv'
  <1> DEFINE h == ackHandlers[s]
             g == [h EXCEPT !.timer = "over"]
  <1>0. /\ ackHandlers \in [Seqs -> Handler \cup {None}] /\ h \in Handler \cup {None}
        /\ HandlersShape /\ HandlerShape(h) /\ ListenShape /\ listen \in ListenRec
    BY DEF PInv, Shapes, Typed, HandlersShape
  <1>1. /\ h.timer = "asleep" /\ WriteTo(h.fd, Pipe("ack", s), FALSE)
        /\ ackHandlers' = [ackHandlers EXCEPT ![s] = g]
        /\ UNCHANGED <<allowTcpPing, sequenceNum, probe, listen, tcp, nacks, answered, relays,
                       owner, pinged, asked, saved, causes>>
    BY DEF TimerFire, TimerSame
  <1>2. h \in Handler /\ h.fd \in Fds /\ h.use = "probe"
    <2>1. h # None /\ h.use # "relay"
      BY <1>0, <1>1 DEF None, HandlerShape
    <2> QED
      BY <1>0, <2>1, HandlerFields
  <1>3. g \in Handler /\ SameHandler(g, h) /\ HandlerShape(g)
    BY <1>0, <1>2, TimerOver
  <1>4. NoCause => owner[h.fd] = Pipe("ack", s)
    <2>1. ASSUME NoCause PROVE s = probe.seq /\ h.fd = probe.ack /\ PipesOpen
      BY <1>2, <2>1 DEF PInv, Clean, HandlersOfProbe, OfProbe
    <2>2. s = probe.seq => Running
      BY BoundsAssumption DEF PInv, Shapes, ProbeShape, Seqs
    <2> QED
      BY <2>1, <2>2 DEF PipesOpen
  <1> HIDE DEF g, h
  <1>5. ackHandlers' \in [Seqs -> Handler \cup {None}]
    BY <1>0, <1>1, <1>3
  <1>6. \A x \in Seqs : /\ SameHandler(ackHandlers'[x], ackHandlers[x])
                        /\ HandlerShape(ackHandlers'[x])
    BY <1>0, <1>1, <1>3 DEF SameHandler, HandlersShape, h
  <1>7. /\ listen' \in ListenRec /\ HandlerShape(listen'.h)
        /\ listen'.pc = listen.pc /\ listen'.seq = listen.seq
        /\ SameHandler(listen'.h, listen.h) /\ (listen'.h = None <=> listen.h = None)
    BY <1>0, <1>1 DEF ListenShape, SameHandler
  <1> QED
    BY <1>1, <1>2, <1>4, <1>5, <1>6, <1>7, WriteKeeps

\* A probe's timer fires after handleAck has taken the handler.
LEMMA TimerFireTakenKeeps == ASSUME PInv, TimerFireTaken PROVE PInv'
  <1> DEFINE h == listen.h
             g == [h EXCEPT !.timer = "over"]
  <1>0. /\ ackHandlers \in [Seqs -> Handler \cup {None}] /\ h \in Handler \cup {None}
        /\ HandlersShape /\ HandlerShape(h) /\ ListenShape /\ listen \in ListenRec
    BY DEF PInv, Shapes, Typed, ListenShape, ListenRec
  <1>1. /\ h.timer = "asleep" /\ WriteTo(h.fd, Pipe("ack", listen.seq), FALSE)
        /\ listen.pc = "ack" /\ listen' = [listen EXCEPT !.h = g]
        /\ UNCHANGED <<allowTcpPing, sequenceNum, probe, ackHandlers, tcp, nacks, answered, relays,
                       owner, pinged, asked, saved, causes>>
    BY DEF TimerFireTaken, TimerSame
  <1>2. h \in Handler /\ h.fd \in Fds /\ h.use = "probe" /\ listen.seq # 0
    <2>1. h # None /\ h.use # "relay"
      BY <1>0, <1>1 DEF None, HandlerShape
    <2> QED
      BY <1>0, <1>1, <2>1, HandlerFields DEF ListenShape
  <1>3. g \in Handler /\ SameHandler(g, h) /\ HandlerShape(g) /\ None.use = "none"
    BY <1>0, <1>2, TimerOver DEF None
  <1>4. NoCause => owner[h.fd] = Pipe("ack", listen.seq)
    <2>1. ASSUME NoCause PROVE listen.seq = probe.seq /\ h.fd = probe.ack /\ PipesOpen
      BY <1>2, <2>1 DEF PInv, Clean, ListenOfProbe, OfProbe
    <2>2. listen.seq = probe.seq => Running
      BY <1>2 DEF PInv, Shapes, ProbeShape
    <2> QED
      BY <2>1, <2>2 DEF PipesOpen
  <1> HIDE DEF g
  <1>5. /\ ackHandlers' \in [Seqs -> Handler \cup {None}]
        /\ \A x \in Seqs : /\ SameHandler(ackHandlers'[x], ackHandlers[x])
                           /\ HandlerShape(ackHandlers'[x])
    BY <1>0, <1>1 DEF SameHandler, HandlersShape
  <1>6. /\ listen' \in ListenRec /\ listen'.h = g
        /\ listen'.pc = listen.pc /\ listen'.seq = listen.seq
    BY <1>0, <1>1, <1>3 DEF ListenRec
  <1>7. /\ HandlerShape(listen'.h)
        /\ SameHandler(listen'.h, listen.h) /\ (listen'.h = None <=> listen.h = None)
    BY <1>2, <1>3, <1>6 DEF SameHandler
  <1> QED
    BY <1>1, <1>2, <1>4, <1>5, <1>6, <1>7, WriteKeeps

\* ackFn and nackFn of a probe.
LEMMA RunKeeps == ASSUME PInv, RunProbeAck \/ RunNack PROVE PInv'
  <1> DEFINE h == listen.h
  <1>0. /\ ackHandlers \in [Seqs -> Handler \cup {None}] /\ h \in Handler \cup {None}
        /\ HandlersShape /\ HandlerShape(h) /\ ListenShape /\ listen \in ListenRec
    BY DEF PInv, Shapes, Typed, ListenShape, ListenRec
  <1>1. /\ listen' = Listening
        /\ UNCHANGED <<allowTcpPing, sequenceNum, probe, ackHandlers, tcp, nacks, answered, relays,
                       owner, pinged, asked, saved, causes>>
    BY DEF RunProbeAck, RunNack, ListenSame
  <1>2. h.use = "probe" /\ listen.seq # 0 /\ h.fd \in Fds /\ h.nackFd \in Fds
    <2>1. h.use = "probe" /\ listen.seq # 0 /\ h.nackFd # 0
      BY <1>0 DEF RunProbeAck, RunNack, ListenShape, HandlerShape
    <2> QED
      BY <1>0, <2>1, HandlerFields
  <1>3. NoCause => /\ owner[h.fd] = Pipe("ack", listen.seq)
                   /\ owner[h.nackFd] = Pipe("nack", listen.seq)
    <2>1. ASSUME NoCause
          PROVE  /\ listen.seq = probe.seq /\ h.fd = probe.ack
                 /\ h.nackFd = probe.nack /\ PipesOpen
      BY <1>2, <2>1 DEF PInv, Clean, ListenOfProbe, OfProbe
    <2>2. listen.seq = probe.seq => Running
      BY <1>2 DEF PInv, Shapes, ProbeShape
    <2> QED
      BY <2>1, <2>2 DEF PipesOpen
  <1>4. /\ ackHandlers' \in [Seqs -> Handler \cup {None}]
        /\ \A x \in Seqs : /\ SameHandler(ackHandlers'[x], ackHandlers[x])
                           /\ HandlerShape(ackHandlers'[x])
    BY <1>0, <1>1 DEF SameHandler, HandlersShape
  <1>5. listen' \in ListenRec /\ HandlerShape(listen'.h)
    BY <1>1, BoundsAssumption DEF ListenRec, Listening, HandlerShape, None
  <1>6. CASE RunProbeAck
    <2>1. WriteTo(h.fd, Pipe("ack", listen.seq), TRUE) /\ listen.pc = "ack"
      BY <1>6 DEF RunProbeAck
    <2>2. ~misused => ackHandlers[listen.seq].use # "probe"
      BY <1>2, <2>1 DEF PInv, Sound, TakenOnce
    <2> QED
      BY <1>1, <1>2, <1>3, <1>4, <1>5, <2>1, <2>2, WriteKeeps
  <1>7. CASE RunNack
    <2>1. WriteTo(h.nackFd, Pipe("nack", listen.seq), FALSE)
      BY <1>7 DEF RunNack
    <2> QED
      BY <1>1, <1>2, <1>3, <1>4, <1>5, <2>1, WriteKeeps
  <1> QED
    BY <1>6, <1>7

\* A TCP thread writes its result, or an exception ends the process.
LEMMA TcpDoneKeeps == ASSUME PInv, NEW t \in tcp, TcpDone(t) PROVE PInv'
  <1>0. /\ t \in TcpThreads /\ ackHandlers \in [Seqs -> Handler \cup {None}]
        /\ HandlersShape /\ ListenShape /\ listen \in ListenRec /\ Typed
    BY DEF PInv, Shapes, Typed
  <1>1. /\ tcp' = tcp \ {t}
        /\ UNCHANGED <<allowTcpPing, sequenceNum, probe, ackHandlers, listen, nacks, answered,
                       relays, owner, pinged, asked, saved, causes>>
    BY DEF TcpDone, DetachedSame
  <1>2. t.fd \in Fds /\ t.of \in Seqs /\ t.fd # 0
    BY <1>0, BoundsAssumption DEF TcpThreads, Fds
  <1>3. NoCause => owner[t.fd] = Pipe("fallback", t.of)
    BY <1>2 DEF PInv, Clean, TcpOfProbe, PipesOpen
  <1>4. /\ \A x \in Seqs : /\ SameHandler(ackHandlers'[x], ackHandlers[x])
                           /\ HandlerShape(ackHandlers'[x])
        /\ ackHandlers' \in [Seqs -> Handler \cup {None}]
        /\ listen' \in ListenRec /\ HandlerShape(listen'.h)
        /\ listen'.pc = listen.pc /\ listen'.seq = listen.seq
        /\ SameHandler(listen'.h, listen.h) /\ (listen'.h = None <=> listen.h = None)
    BY <1>0, <1>1 DEF ListenShape, HandlersShape, SameHandler
  <1>5. CASE \E didConnect \in BOOLEAN : WriteTo(t.fd, Pipe("fallback", t.of), didConnect)
    <2>1. PICK v \in BOOLEAN : WriteTo(t.fd, Pipe("fallback", t.of), v)
      BY <1>5
    <2> QED
      BY <1>1, <1>2, <1>3, <1>4, <2>1, WriteKeeps
  <1>6. CASE ended' = TRUE /\ UNCHANGED <<inbox, reply, poked, misused>>
    <2>1. Shapes'
      BY <1>0, <1>1, <1>6 DEF PInv, Shapes, Typed, ProbeShape, HandlersShape, HandlerShape, ListenShape,
           OwnerShape, SeqOrder, NackUnique, CancelCount, CancelFds, Running
    <2>2. Sound'
      BY <1>1, <1>6 DEF PInv, Sound, CancelHeld, RelayOpen, TakenOnce, ProbeHandlers, AckedOnce, HasAck
    <2>3. Clean'
      BY <1>1, <1>6 DEF PInv, Clean, NoCause, PipesOpen, HandlersOfProbe, ListenOfProbe, OfProbe,
           TcpOfProbe, NacksOpen, RelayInHand, Running
    <2> QED
      BY <2>1, <2>2, <2>3 DEF PInv
  <1> QED
    BY <1>5, <1>6 DEF TcpDone

-----------------------------------------------------------------------------
(* Steps that close descriptors. *)

\* The end of a probe: its handler is gone, or the probe was saved by TCP.
LEMMA EndProbeKeeps ==
    ASSUME PInv, EndProbe, Running,
           UNCHANGED <<allowTcpPing, sequenceNum, listen, tcp, nacks, poked, answered, relays,
                       pinged, asked>>,
           ackHandlers' = ackHandlers \/ ackHandlers' = [ackHandlers EXCEPT ![probe.seq] = None],
           saved' \in SUBSET Seqs, saved \subseteq saved',
           ~misused /\ ackHandlers'[probe.seq].use = "probe" => probe.seq \in saved'
    PROVE  PInv'
  <1> DEFINE P == {Pipe(p, probe.seq) : p \in {"ack", "nack", "fallback"}}
  <1>0. /\ Shapes /\ Typed /\ OwnerShape /\ ProbeShape /\ ListenShape /\ HandlersShape
        /\ probe.seq \in Seqs /\ ackHandlers \in [Seqs -> Handler \cup {None}]
        /\ None.use = "none" /\ HandlerShape(None)
    BY BoundsAssumption DEF PInv, Shapes, Typed, ProbeShape, ProbeRec, Seqs, None, HandlerShape
  <1>1. /\ probe' = NoProbe /\ inbox' = <<>> /\ reply' = <<>>
        /\ owner' = [f \in Fds |-> IF f \in ProbeFds THEN Unused ELSE owner[f]]
        /\ misused' = (misused \/ \E f \in ProbeFds : owner[f] \notin P)
        /\ ended' \in BOOLEAN
        /\ causes \subseteq causes'
        /\ listen.seq = probe.seq /\ listen.h.use = "probe" => "late handler" \in causes'
        /\ \A t \in tcp : t.of = probe.seq => "late TCP thread" \in causes'
    BY DEF EndProbe, CloseAll
  <1>2. /\ NoProbe.pc = "idle" /\ NoProbe.seq = 0 /\ NoProbe.ack = 0 /\ NoProbe.nack = 0
        /\ NoProbe.fallback = 0 /\ NoProbe \in ProbeRec
        /\ Unused \in Owners /\ Unused.pipe = "none"
    BY BoundsAssumption DEF NoProbe, ProbeRec, Unused, Owners
  <1>3. \A f \in Fds :
            \/ owner'[f] = Unused
            \/ owner'[f] = owner[f] /\ owner[f].pipe \notin {"ack", "nack", "fallback"}
    <2> TAKE f \in Fds
    <2>1. owner[f].pipe \in {"ack", "nack", "fallback"} => f \in {probe.ack, probe.nack, probe.fallback}
      BY <1>0 DEF OwnerShape
    <2>2. f # 0
      BY BoundsAssumption DEF Fds
    <2>3. owner'[f] = IF f \in ProbeFds THEN Unused ELSE owner[f]
      BY <1>1
    <2> QED
      BY <2>1, <2>2, <2>3 DEF ProbeFds
  <1>4. \A x \in Seqs : ackHandlers'[x] = ackHandlers[x] \/ ackHandlers'[x] = None
    BY <1>0
  <1>5. owner' \in [Fds -> Owners] /\ ackHandlers' \in [Seqs -> Handler \cup {None}]
    BY <1>0, <1>1, <1>2 DEF Typed
  <1>6. <<>> \in Seq(BOOLEAN) /\ misused' \in BOOLEAN
    <2>1. misused' \in BOOLEAN
      BY <1>1, Zenon
    <2> QED
      BY <2>1
  <1>7. Typed'
    BY <1>0, <1>1, <1>2, <1>5, <1>6 DEF Typed
  <1>8. ProbeShape'
    BY <1>1, <1>2 DEF ProbeShape, Running
  <1>9. HandlersShape' /\ ListenShape' /\ NackUnique'
    BY <1>0, <1>4 DEF Shapes, HandlersShape, ListenShape, NackUnique
  <1>10. OwnerShape'
    BY <1>0, <1>2, <1>3 DEF OwnerShape
  <1>11. SeqOrder'
    BY <1>0, <1>1, <1>2, <1>4 DEF Shapes, SeqOrder
  <1>12. CancelCount'
    <2>1. CancelFds' \subseteq CancelFds
      BY <1>2, <1>3 DEF CancelFds
    <2> QED
      BY <1>0, <1>7, <2>1, CancelShrinks DEF Shapes
  <1>13. ~misused' => /\ ~misused
                      /\ \A f \in Fds : owner[f].pipe = "cancel" => owner'[f] = owner[f]
    <2>1. \A o \in P : o.pipe # "cancel"
      BY DEF Pipe
    <2> QED
      BY <1>0, <1>1, <2>1 DEF Typed
  <1> HIDE DEF P
  <1>14. Sound'
    <2> SUFFICES ASSUME ~misused'
                 PROVE  /\ poked' = {} /\ CancelHeld' /\ RelayOpen'
                        /\ TakenOnce' /\ ProbeHandlers' /\ AckedOnce'
      BY DEF Sound
    <2>0. /\ ~misused /\ poked = {} /\ CancelHeld /\ RelayOpen /\ TakenOnce /\ ProbeHandlers
          /\ \A f \in Fds : owner[f].pipe = "cancel" => owner'[f] = owner[f]
      BY <1>13 DEF PInv, Sound
    <2>1. poked' = {} /\ CancelHeld'
      BY <1>2, <1>3, <2>0 DEF CancelHeld
    <2>2. RelayOpen'
      <3> SUFFICES ASSUME NEW x \in Seqs, ackHandlers'[x].use = "relay"
                   PROVE  owner'[ackHandlers'[x].fd] = Pipe("cancel", x)
        BY DEF RelayOpen
      <3>1. /\ ackHandlers'[x] = ackHandlers[x] /\ ackHandlers[x].fd \in Fds
            /\ owner[ackHandlers[x].fd] = Pipe("cancel", x)
        BY <1>0, <1>4, <2>0, HandlerFields DEF RelayOpen
      <3>2. owner[ackHandlers[x].fd].pipe = "cancel"
        BY <3>1 DEF Pipe
      <3> QED
        BY <2>0, <3>1, <3>2
    <2>3. TakenOnce'
      <3>1. listen.pc = "ack" => listen.seq \in Seqs /\ listen.h.use # "none"
        BY <1>0, BoundsAssumption, HandlerFields DEF ListenShape, Typed, ListenRec, Seqs
      <3> QED
        BY <1>0, <1>4, <2>0, <3>1 DEF TakenOnce
    <2>4. ProbeHandlers'
      <3> SUFFICES ASSUME NEW x \in Seqs, ackHandlers'[x].use = "probe"
                   PROVE  x \in saved'
        BY DEF ProbeHandlers
      <3>1. ackHandlers[x].use = "probe"
        BY <1>0, <1>4
      <3>2. x = probe.seq \/ x \in saved
        BY <2>0, <3>1 DEF ProbeHandlers
      <3> QED
        BY <2>0, <3>2
    <2>5. AckedOnce'
      <3>1. ~HasAck(<<>>)
        BY DEF HasAck
      <3> QED
        BY <1>1, <3>1 DEF AckedOnce
    <2> QED
      BY <2>1, <2>2, <2>3, <2>4, <2>5
  <1>15. Clean'
    <2> SUFFICES ASSUME NoCause'
                 PROVE  (~misused /\ PipesOpen /\ HandlersOfProbe /\ ListenOfProbe
                         /\ TcpOfProbe /\ NacksOpen /\ RelayInHand)'
      BY DEF Clean
    <2>0. NoCause
      BY <1>1 DEF NoCause
    <2>1. /\ ~misused /\ PipesOpen /\ HandlersOfProbe /\ ListenOfProbe
          /\ TcpOfProbe /\ NacksOpen /\ RelayInHand
      BY <2>0 DEF PInv, Clean
    <2>2. ~misused'
      BY <1>1, <2>1 DEF PipesOpen, ProbeFds, P
    <2>3. PipesOpen'
      BY <1>1, <1>2 DEF PipesOpen, Running
    <2>4. HandlersOfProbe'
      BY <1>0, <1>4, <2>1 DEF HandlersOfProbe, OfProbe, NoCause
    <2>5. ListenOfProbe' /\ TcpOfProbe'
      BY <1>1, <2>1 DEF ListenOfProbe, OfProbe, TcpOfProbe, NoCause
    <2>6. \A f \in Fds : owner[f].pipe = "cancel" => owner'[f] = owner[f]
      BY <1>13, <2>2
    <2>7. \A t \in nacks : /\ t.fd \in Fds
                           /\ owner[t.fd] = Pipe("cancel", t.seq) => owner'[t.fd] = Pipe("cancel", t.seq)
      BY <1>0, <2>6 DEF Typed, NackThreads, Pipe
    <2>8. NacksOpen'
      <3>1. \A f \in Fds, t \in nacks : owner'[f] = Pipe("cancel", t.seq) => owner[f] = Pipe("cancel", t.seq)
        BY <1>2, <1>3 DEF Pipe
      <3> QED
        BY <2>1, <2>7, <3>1 DEF NacksOpen
    <2>9. RelayInHand'
      BY <2>1, <2>7 DEF RelayInHand
    <2> QED
      BY <2>2, <2>3, <2>4, <2>5, <2>8, <2>9
  <1> QED
    BY <1>7, <1>8, <1>9, <1>10, <1>11, <1>12, <1>14, <1>15 DEF PInv, Shapes

\* A running probe has a sequence number.
LEMMA RunningSeq ==
    ASSUME probe \in ProbeRec, ProbeShape, Running
    PROVE  probe.seq \in Seqs /\ probe.ack \in Fds /\ probe.nack \in Fds
  <1>1. /\ probe.seq \in 0..MaxSeq /\ probe.ack \in 0..MaxFd /\ probe.nack \in 0..MaxFd
    BY DEF ProbeRec
  <1>2. probe.seq # 0 /\ probe.ack # 0 /\ probe.nack # 0
    BY DEF ProbeShape
  <1> QED
    BY <1>1, <1>2, BoundsAssumption DEF Seqs, Fds

\* The four ways a probe ends.
LEMMA ProbeEndsKeep ==
    ASSUME PInv,
           ProbeAcked \/ (ProbeWaitAck /\ Head(inbox)) \/ ProbeSaved \/ ProbeFailed
    PROVE  PInv'
  <1>0. /\ probe \in ProbeRec /\ ProbeShape /\ saved \in SUBSET Seqs /\ inbox \in Seq(BOOLEAN)
        /\ ackHandlers \in [Seqs -> Handler \cup {None}] /\ None.use = "none"
    BY DEF PInv, Shapes, Typed, None
  <1>1. /\ EndProbe /\ Running
        /\ UNCHANGED <<allowTcpPing, sequenceNum, listen, tcp, nacks, poked, answered, relays,
                       pinged, asked>>
    <2>1. CASE ProbeAcked \/ ProbeSaved \/ ProbeFailed
      BY <2>1 DEF ProbeAcked, ProbeSaved, ProbeFailed, ProbeSame, Running
    <2>2. CASE ProbeWaitAck /\ Head(inbox)
      BY <2>2 DEF ProbeWaitAck, ProbeSame, Running
    <2> QED
      BY <2>1, <2>2
  <1>2. probe.seq \in Seqs
    BY <1>0, <1>1, RunningSeq DEF PInv, Shapes
  <1>3. CASE ProbeAcked \/ (ProbeWaitAck /\ Head(inbox))
    <2>1. inbox # <<>> /\ Head(inbox) /\ UNCHANGED <<ackHandlers, saved>>
      BY <1>3 DEF ProbeAcked, ProbeWaitAck
    <2>2. HasAck(inbox)
      BY <1>0, <2>1, AckAmong
    <2>3. ~misused => ackHandlers[probe.seq].use # "probe"
      BY <2>2 DEF PInv, Sound, AckedOnce
    <2> QED
      BY <1>0, <1>1, <2>1, <2>3, EndProbeKeeps
  <1>4. CASE ProbeSaved
    <2>1. ackHandlers' = ackHandlers /\ saved' = saved \cup {probe.seq}
      BY <1>4 DEF ProbeSaved
    <2> QED
      BY <1>0, <1>1, <1>2, <2>1, EndProbeKeeps
  <1>5. CASE ProbeFailed
    <2>1. ackHandlers' = [ackHandlers EXCEPT ![probe.seq] = None] /\ saved' = saved
      BY <1>5 DEF ProbeFailed, EraseHandler, SetHandler
    <2>2. ackHandlers'[probe.seq].use # "probe"
      BY <1>0, <1>2, <2>1
    <2> QED
      BY <1>0, <1>1, <2>1, <2>2, EndProbeKeeps
  <1> QED
    BY <1>3, <1>4, <1>5

\* Closing one descriptor.
LEMMA CloseOne ==
    ASSUME PInv, NEW g \in Fds, NEW s \in Seqs, CloseAll({g}, {Pipe("cancel", s)}),
           relays' = relays, listen'.pc = "load" => listen.pc = "load", probe' = probe
    PROVE  /\ owner' \in [Fds -> Owners] /\ misused' \in BOOLEAN /\ ended' \in BOOLEAN
           /\ OwnerShape' /\ (Typed' => CancelCount')
           /\ owner'[g] = Unused /\ Unused.pipe = "none"
           /\ \A f \in Fds \ {g} : owner'[f] = owner[f]
           /\ ~misused' => ~misused /\ owner[g] = Pipe("cancel", s)
           /\ owner[g] = Pipe("cancel", s) => misused' = misused
  <1>0. Typed /\ OwnerShape /\ CancelCount /\ owner \in [Fds -> Owners] /\ misused \in BOOLEAN
    BY DEF PInv, Shapes, Typed
  <1>1. /\ owner' = [f \in Fds |-> IF f \in {g} THEN Unused ELSE owner[f]]
        /\ misused' = (misused \/ \E f \in {g} : owner[f] \notin {Pipe("cancel", s)})
        /\ ended' = (\E f \in {g} : owner[f] = Unused)
    BY DEF CloseAll
  <1>2. Unused \in Owners /\ Unused.pipe = "none"
    BY BoundsAssumption DEF Unused, Owners
  <1>3. /\ owner' \in [Fds -> Owners] /\ owner'[g] = Unused
        /\ \A f \in Fds \ {g} : owner'[f] = owner[f]
    BY <1>0, <1>1, <1>2
  <1>4. OwnerShape'
    BY <1>0, <1>2, <1>3 DEF OwnerShape
  <1>5. Typed' => CancelCount'
    <2>1. CancelFds' \subseteq CancelFds
      BY <1>2, <1>3 DEF CancelFds
    <2> QED
      BY <1>0, <2>1, CancelShrinks
  <1> QED
    BY <1>0, <1>1, <1>2, <1>3, <1>4, <1>5

\* ackFn of a relay closes the cancel pipe.
LEMMA RunRelayAckKeeps == ASSUME PInv, RunRelayAck PROVE PInv'
  <1> DEFINE s == listen.seq
             g == listen.h.fd
  <1>0. /\ Typed /\ ListenShape /\ listen \in ListenRec /\ listen.h \in Handler \cup {None}
        /\ SeqOrder /\ sequenceNum \in Nat
    BY BoundsAssumption DEF PInv, Shapes, Typed, ListenRec
  <1>1. /\ listen.pc = "ack" /\ listen.h.use = "relay"
        /\ CloseAll({g}, {Pipe("cancel", s)})
        /\ answered' = [answered EXCEPT ![s] = @ \cup {"ack"}]
        /\ listen' = Listening
        /\ causes \subseteq causes'
        /\ \/ \E t \in nacks : t.seq = s /\ t.pc = "wait"
           \/ "race" \in causes'
        /\ UNCHANGED <<allowTcpPing, sequenceNum, probe, inbox, reply, ackHandlers, tcp, nacks,
                       poked, relays, pinged, asked, saved>>
    BY DEF RunRelayAck, ListenSame
  <1>2. s \in Seqs /\ g \in Fds
    <2>1. s # 0 /\ s \in 0..MaxSeq /\ MaxSeq \in Nat
      BY <1>0, <1>1, BoundsAssumption DEF ListenShape, ListenRec
    <2> QED
      BY <1>0, <1>1, <2>1, HandlerFields DEF Seqs
  <1>3. /\ Listening.pc = "idle" /\ Listening.h = None /\ Listening.seq = 0 /\ None.use = "none"
        /\ Listening \in ListenRec /\ HandlerShape(None)
    BY BoundsAssumption DEF Listening, None, ListenRec, HandlerShape
  <1> HIDE DEF s, g
  <1>4. /\ owner' \in [Fds -> Owners] /\ misused' \in BOOLEAN /\ ended' \in BOOLEAN
        /\ OwnerShape' /\ (Typed' => CancelCount')
        /\ owner'[g] = Unused /\ Unused.pipe = "none"
        /\ \A f \in Fds \ {g} : owner'[f] = owner[f]
        /\ ~misused' => ~misused /\ owner[g] = Pipe("cancel", s)
        /\ owner[g] = Pipe("cancel", s) => misused' = misused
    BY <1>1, <1>2, <1>3, CloseOne
  <1>5. answered' \in [Seqs -> SUBSET {"ack", "nack"}]
    BY <1>0, <1>1, <1>2 DEF Typed
  <1>6. Typed'
    BY <1>0, <1>1, <1>3, <1>4, <1>5 DEF Typed
  <1>7. ProbeShape' /\ HandlersShape' /\ ListenShape' /\ NackUnique'
    BY <1>1, <1>3 DEF PInv, Shapes, ProbeShape, Running, HandlersShape, ListenShape, NackUnique
  <1>8. SeqOrder'
    BY <1>0, <1>1, <1>3 DEF SeqOrder
  <1>9. Sound'
    <2> SUFFICES ASSUME ~misused'
                 PROVE  /\ poked' = {} /\ CancelHeld' /\ RelayOpen'
                        /\ TakenOnce' /\ ProbeHandlers' /\ AckedOnce'
      BY DEF Sound
    <2>0. /\ ~misused /\ owner[g] = Pipe("cancel", s) /\ poked = {} /\ CancelHeld /\ RelayOpen
          /\ TakenOnce /\ ProbeHandlers /\ AckedOnce
      BY <1>4 DEF PInv, Sound
    <2>1. poked' = {} /\ CancelHeld'
      BY <1>1, <1>4, <2>0 DEF CancelHeld
    <2>2. RelayOpen'
      <3> SUFFICES ASSUME NEW x \in Seqs, ackHandlers[x].use = "relay"
                   PROVE  owner'[ackHandlers[x].fd] = Pipe("cancel", x)
        BY <1>1 DEF RelayOpen
      <3>1. owner[ackHandlers[x].fd] = Pipe("cancel", x) /\ ackHandlers[x].fd \in Fds
        BY <1>0, <2>0, HandlerFields DEF RelayOpen, Typed
      <3>2. x # s
        BY <1>1, <2>0 DEF TakenOnce, s
      <3>3. Pipe("cancel", x) # Pipe("cancel", s)
        BY <3>2 DEF Pipe
      <3> QED
        BY <1>4, <2>0, <3>1, <3>3
    <2>3. TakenOnce' /\ ProbeHandlers' /\ AckedOnce'
      BY <1>1, <1>3, <2>0 DEF TakenOnce, ProbeHandlers, AckedOnce
    <2> QED
      BY <2>1, <2>2, <2>3
  <1>10. Clean'
    <2> SUFFICES ASSUME NoCause'
                 PROVE  (~misused /\ PipesOpen /\ HandlersOfProbe /\ ListenOfProbe
                         /\ TcpOfProbe /\ NacksOpen /\ RelayInHand)'
      BY DEF Clean
    <2>0. NoCause
      BY <1>1 DEF NoCause
    <2>1. /\ ~misused /\ PipesOpen /\ HandlersOfProbe /\ ListenOfProbe
          /\ TcpOfProbe /\ NacksOpen /\ RelayInHand
      BY <2>0 DEF PInv, Clean
    <2>2. PICK t \in nacks : t.seq = s /\ t.pc = "wait"
      BY <1>1 DEF NoCause
    <2>3. t.fd = g /\ owner[g] = Pipe("cancel", s)
      BY <1>1, <2>1, <2>2 DEF RelayInHand, s, g
    <2>4. ~misused'
      BY <1>4, <2>1, <2>3
    <2>5. PipesOpen'
      <3>1. \A p \in {"ack", "nack", "fallback"} : Pipe(p, probe.seq) # Pipe("cancel", s)
        BY DEF Pipe
      <3>2. /\ probe.ack \in Fds \cup {0} /\ probe.nack \in Fds \cup {0}
            /\ probe.fallback \in Fds \cup {0}
        BY <1>0, BoundsAssumption DEF Typed, ProbeRec, Fds
      <3>3. Running => probe.ack # 0 /\ probe.nack # 0
        BY DEF PInv, Shapes, ProbeShape
      <3> QED
        BY <1>1, <1>4, <2>1, <2>3, <3>1, <3>2, <3>3 DEF PipesOpen, Running
    <2>6. HandlersOfProbe' /\ ListenOfProbe' /\ TcpOfProbe' /\ RelayInHand'
      BY <1>1, <1>3, <2>1 DEF HandlersOfProbe, ListenOfProbe, OfProbe, TcpOfProbe, RelayInHand
    <2>7. \A f \in Fds : owner'[f] # Pipe("cancel", s)
      <3> SUFFICES ASSUME NEW f \in Fds, owner'[f] = Pipe("cancel", s) PROVE FALSE
        OBVIOUS
      <3>1. f # g /\ owner[f] = Pipe("cancel", s)
        BY <1>4 DEF Pipe
      <3>2. PICK u \in nacks : u.seq = s /\ u.fd = f
        BY <2>1, <3>1 DEF PInv, Sound, CancelHeld, Pipe
      <3>3. u = t
        BY <2>2, <3>2 DEF PInv, Shapes, NackUnique
      <3> QED
        BY <2>3, <3>1, <3>2, <3>3
    <2>8. NacksOpen'
      <3> SUFFICES ASSUME NEW u \in nacks
                   PROVE  \/ owner'[u.fd] = Pipe("cancel", u.seq)
                          \/ u.pc = "wait" /\ \A f \in Fds : owner'[f] # Pipe("cancel", u.seq)
        BY <1>1 DEF NacksOpen
      <3>1. CASE u.seq = s
        <4>1. u = t
          BY <2>2, <3>1 DEF PInv, Shapes, NackUnique
        <4> QED
          BY <2>2, <2>7, <4>1
      <3>2. CASE u.seq # s
        <4>1. Pipe("cancel", u.seq) # Pipe("cancel", s) /\ Pipe("cancel", u.seq) # Unused
          BY <3>2 DEF Pipe, Unused
        <4>2. u.fd \in Fds
          BY <1>0 DEF Typed, NackThreads
        <4> QED
          BY <1>2, <1>4, <2>1, <2>3, <4>1, <4>2 DEF NacksOpen
      <3> QED
        BY <3>1, <3>2
    <2> QED
      BY <2>4, <2>5, <2>6, <2>8
  <1> QED
    BY <1>4, <1>6, <1>7, <1>8, <1>9, <1>10 DEF PInv, Shapes

\* The nack is due: the handler goes and the cancel pipe is closed.
LEMMA NackSendKeeps == ASSUME PInv, NEW t \in nacks, NackSend(t) PROVE PInv'
  <1> DEFINE s == t.seq
             g == t.fd
  <1>0. /\ Typed /\ ListenShape /\ SeqOrder /\ listen \in ListenRec /\ t \in NackThreads
        /\ ackHandlers \in [Seqs -> Handler \cup {None}]
    BY DEF PInv, Shapes, Typed
  <1>1. /\ t.pc = "expired" /\ CloseAll({g}, {Pipe("cancel", s)})
        /\ ackHandlers' = [ackHandlers EXCEPT ![s] = None]
        /\ answered' = [answered EXCEPT ![s] = @ \cup {"nack"}]
        /\ nacks' = nacks \ {t} /\ causes \subseteq causes'
        /\ UNCHANGED <<allowTcpPing, sequenceNum, probe, inbox, reply, listen, tcp,
                       poked, relays, pinged, asked, saved>>
    BY DEF NackSend, DetachedSame, EraseHandler, SetHandler, NackSent
  <1>2. s \in Seqs /\ g \in Fds
    BY <1>0 DEF NackThreads
  <1>3. None.use = "none" /\ HandlerShape(None)
    BY DEF None, HandlerShape
  <1> HIDE DEF s, g
  <1>4. /\ owner' \in [Fds -> Owners] /\ misused' \in BOOLEAN /\ ended' \in BOOLEAN
        /\ OwnerShape' /\ (Typed' => CancelCount')
        /\ owner'[g] = Unused /\ Unused.pipe = "none"
        /\ \A f \in Fds \ {g} : owner'[f] = owner[f]
        /\ ~misused' => ~misused /\ owner[g] = Pipe("cancel", s)
        /\ owner[g] = Pipe("cancel", s) => misused' = misused
    BY <1>1, <1>2, CloseOne
  <1>5. /\ \A x \in Seqs : ackHandlers'[x] = IF x = s THEN None ELSE ackHandlers[x]
        /\ ackHandlers' \in [Seqs -> Handler \cup {None}]
    BY <1>0, <1>1, <1>2
  <1>6. answered' \in [Seqs -> SUBSET {"ack", "nack"}]
    BY <1>0, <1>1, <1>2 DEF Typed
  <1>7. Typed'
    BY <1>0, <1>1, <1>4, <1>5, <1>6 DEF Typed
  <1>8. ProbeShape' /\ HandlersShape' /\ ListenShape' /\ NackUnique'
    BY <1>1, <1>3, <1>5 DEF PInv, Shapes, ProbeShape, Running, HandlersShape, ListenShape, NackUnique
  <1>9. SeqOrder'
    BY <1>0, <1>1, <1>3, <1>5 DEF SeqOrder
  <1>10. Sound'
    <2> SUFFICES ASSUME ~misused'
                 PROVE  /\ poked' = {} /\ CancelHeld' /\ RelayOpen'
                        /\ TakenOnce' /\ ProbeHandlers' /\ AckedOnce'
      BY DEF Sound
    <2>0. /\ ~misused /\ owner[g] = Pipe("cancel", s) /\ poked = {} /\ CancelHeld /\ RelayOpen
          /\ TakenOnce /\ ProbeHandlers /\ AckedOnce
      BY <1>4 DEF PInv, Sound
    <2>1. poked' = {} /\ CancelHeld'
      BY <1>1, <1>4, <2>0 DEF CancelHeld, g
    <2>2. RelayOpen'
      <3> SUFFICES ASSUME NEW x \in Seqs, ackHandlers'[x].use = "relay"
                   PROVE  owner'[ackHandlers'[x].fd] = Pipe("cancel", x)
        BY DEF RelayOpen
      <3>1. x # s /\ ackHandlers'[x] = ackHandlers[x]
        BY <1>3, <1>5
      <3>2. owner[ackHandlers[x].fd] = Pipe("cancel", x) /\ ackHandlers[x].fd \in Fds
        BY <1>0, <2>0, <3>1, HandlerFields DEF RelayOpen
      <3>3. Pipe("cancel", x) # Pipe("cancel", s)
        BY <3>1 DEF Pipe
      <3> QED
        BY <1>4, <2>0, <3>1, <3>2, <3>3
    <2>3. TakenOnce'
      <3>1. listen.pc = "ack" => listen.seq \in Seqs /\ listen.h.use # "none"
        BY <1>0, BoundsAssumption, HandlerFields DEF ListenShape, ListenRec, Seqs
      <3> QED
        BY <1>1, <1>3, <1>5, <2>0, <3>1 DEF TakenOnce
    <2>4. ProbeHandlers'
      BY <1>1, <1>3, <1>5, <2>0 DEF ProbeHandlers
    <2>5. AckedOnce'
      <3>1. HasAck(inbox) => probe.seq \in Seqs
        <4>1. inbox = <<>> => ~HasAck(inbox)
          BY DEF HasAck
        <4>2. inbox # <<>> => probe.seq # 0
          BY DEF PInv, Shapes, ProbeShape
        <4> QED
          BY <1>0, <4>1, <4>2, BoundsAssumption DEF Typed, ProbeRec, Seqs
      <3> QED
        BY <1>1, <1>3, <1>5, <2>0, <3>1 DEF AckedOnce
    <2> QED
      BY <2>1, <2>2, <2>3, <2>4, <2>5
  <1>11. Clean'
    <2> SUFFICES ASSUME NoCause'
                 PROVE  (~misused /\ PipesOpen /\ HandlersOfProbe /\ ListenOfProbe
                         /\ TcpOfProbe /\ NacksOpen /\ RelayInHand)'
      BY DEF Clean
    <2>0. NoCause
      BY <1>1 DEF NoCause
    <2>1. /\ ~misused /\ PipesOpen /\ HandlersOfProbe /\ ListenOfProbe
          /\ TcpOfProbe /\ NacksOpen /\ RelayInHand
      BY <2>0 DEF PInv, Clean
    <2>2. owner[g] = Pipe("cancel", s)
      BY <1>1, <2>1 DEF NacksOpen, s, g
    <2>3. ~misused'
      BY <1>4, <2>1, <2>2
    <2>4. PipesOpen'
      <3>1. \A p \in {"ack", "nack", "fallback"} : Pipe(p, probe.seq) # Pipe("cancel", s)
        BY DEF Pipe
      <3>2. /\ probe.ack \in Fds \cup {0} /\ probe.nack \in Fds \cup {0}
            /\ probe.fallback \in Fds \cup {0}
        BY <1>0, BoundsAssumption DEF Typed, ProbeRec, Fds
      <3>3. Running => probe.ack # 0 /\ probe.nack # 0
        BY DEF PInv, Shapes, ProbeShape
      <3> QED
        BY <1>1, <1>4, <2>1, <2>2, <3>1, <3>2, <3>3 DEF PipesOpen, Running
    <2>5. HandlersOfProbe' /\ ListenOfProbe' /\ TcpOfProbe'
      BY <1>1, <1>3, <1>5, <2>1 DEF HandlersOfProbe, ListenOfProbe, OfProbe, TcpOfProbe
    <2>6. ASSUME NEW u \in nacks'
          PROVE  /\ u \in nacks /\ u.fd \in Fds
                 /\ Pipe("cancel", u.seq) # Pipe("cancel", s)
                 /\ Pipe("cancel", u.seq) # Unused
      <3>1. u.seq # s
        BY <1>1 DEF PInv, Shapes, NackUnique, s
      <3> QED
        BY <1>0, <1>1, <3>1 DEF Pipe, Unused, Typed, NackThreads
    <2>7. NacksOpen'
      <3> SUFFICES ASSUME NEW u \in nacks'
                   PROVE  \/ owner'[u.fd] = Pipe("cancel", u.seq)
                          \/ u.pc = "wait" /\ \A f \in Fds : owner'[f] # Pipe("cancel", u.seq)
        BY DEF NacksOpen
      <3> QED
        BY <1>2, <1>4, <2>1, <2>2, <2>6 DEF NacksOpen
    <2>8. RelayInHand'
      BY <1>1, <1>4, <2>1, <2>2, <2>6 DEF RelayInHand
    <2> QED
      BY <2>3, <2>4, <2>5, <2>7, <2>8
  <1> QED
    BY <1>4, <1>7, <1>8, <1>9, <1>10, <1>11 DEF PInv, Shapes

-----------------------------------------------------------------------------
(* Steps that make a pipe. *)

\* The probe draws its number, makes two pipes and registers its handler.
LEMMA ProbeSetKeeps == ASSUME PInv, ProbeSet PROVE PInv'
  <1> DEFINE s == sequenceNum
             a == Lowest(FreeFds)
             n == Lowest(FreeFds \ {a})
             h == [use |-> "probe", fd |-> a, nackFd |-> n, timer |-> "new"]
  <1>0. /\ Typed /\ ProbeShape /\ SeqOrder /\ OwnerShape /\ ListenShape /\ HandlersShape
        /\ ackHandlers \in [Seqs -> Handler \cup {None}] /\ owner \in [Fds -> Owners]
        /\ sequenceNum \in 0..MaxSeq /\ tcp \in SUBSET TcpThreads /\ nacks \in SUBSET NackThreads
    BY DEF PInv, Shapes, Typed
  <1>1. /\ probe.pc = "load"
        /\ probe' = [pc |-> "run", seq |-> s, ack |-> a, nack |-> n, fallback |-> 0]
        /\ owner' = [owner EXCEPT ![a] = Pipe("ack", s), ![n] = Pipe("nack", s)]
        /\ ackHandlers' = [ackHandlers EXCEPT ![s] = h]
        /\ causes \subseteq causes'
        /\ UNCHANGED <<allowTcpPing, sequenceNum, inbox, reply, listen, tcp, nacks, poked, answered,
                       relays, pinged, asked, saved, misused, ended>>
    BY DEF ProbeSet, ProbeSame, NextSeqNum, SetHandler
  <1>2. a \in Fds /\ owner[a] = Unused /\ n \in Fds /\ owner[n] = Unused /\ n # a
    BY <1>1, FreeDescriptors DEF PInv
  <1> HIDE DEF a, n
  <1>3. s \in Seqs
    BY <1>0, <1>1, BoundsAssumption DEF SeqOrder, Seqs
  <1>4. /\ probe.seq = 0 /\ probe.ack = 0 /\ probe.nack = 0 /\ probe.fallback = 0
        /\ inbox = <<>> /\ 0 \notin Fds /\ 0 \notin Seqs
    BY <1>0, <1>1 DEF ProbeShape, Running, Fds, Seqs
  <1>5. /\ probe' \in ProbeRec /\ probe'.pc = "run" /\ probe'.seq = s
        /\ probe'.ack = a /\ probe'.nack = n /\ probe'.fallback = 0
        /\ s # 0 /\ a # 0 /\ n # 0
    BY <1>0, <1>1, <1>2, <1>3, BoundsAssumption DEF ProbeRec, Fds, Seqs
  <1>6. h \in Handler /\ h.use = "probe" /\ h.fd = a /\ h.nackFd = n /\ HandlerShape(h)
    BY <1>2, <1>5 DEF Handler, HandlerShape
  <1> HIDE DEF h
  <1>7. /\ ackHandlers' \in [Seqs -> Handler \cup {None}] /\ ackHandlers'[s] = h
        /\ \A x \in Seqs \ {s} : ackHandlers'[x] = ackHandlers[x]
    BY <1>0, <1>1, <1>3, <1>6
  <1>8. /\ owner'[a] = Pipe("ack", s) /\ owner'[n] = Pipe("nack", s)
        /\ \A f \in Fds \ {a, n} : owner'[f] = owner[f]
        /\ owner' \in [Fds -> Owners]
    <2>1. Pipe("ack", s) \in Owners /\ Pipe("nack", s) \in Owners
      BY <1>0 DEF Pipe, Owners
    <2> QED
      BY <1>0, <1>1, <1>2, <2>1
  <1> HIDE DEF s
  <1>9. Typed'
    BY <1>0, <1>1, <1>5, <1>7, <1>8 DEF Typed
  <1>10. ProbeShape' /\ HandlersShape' /\ ListenShape' /\ NackUnique'
    BY <1>0, <1>1, <1>3, <1>5, <1>6, <1>7
    DEF PInv, Shapes, ProbeShape, Running, HandlersShape, ListenShape, NackUnique
  <1>11. \A f \in Fds : owner[f].pipe \notin {"ack", "nack", "fallback"}
    BY <1>0, <1>4 DEF OwnerShape
  <1>12. /\ Pipe("ack", s).pipe = "ack" /\ Pipe("nack", s).pipe = "nack"
         /\ Pipe("ack", s).of = s /\ Pipe("nack", s).of = s /\ Unused.pipe = "none"
    BY DEF Pipe, Unused
  <1>13. OwnerShape'
    <2> SUFFICES ASSUME NEW f \in Fds
                 PROVE  /\ owner'[f].pipe = "none" => owner'[f] = Unused
                        /\ owner'[f].pipe = "cancel" => owner'[f].of # 0
                        /\ owner'[f].pipe = "ack" => f = probe'.ack /\ owner'[f].of = probe'.seq
                        /\ owner'[f].pipe = "nack" => f = probe'.nack /\ owner'[f].of = probe'.seq
                        /\ owner'[f].pipe = "fallback" =>
                              f = probe'.fallback /\ owner'[f].of = probe'.seq
      BY DEF OwnerShape
    <2>1. CASE f \in {a, n}
      BY <1>2, <1>5, <1>8, <1>12, <2>1
    <2>2. CASE f \notin {a, n}
      BY <1>0, <1>8, <1>11, <2>2 DEF OwnerShape
    <2> QED
      BY <2>1, <2>2
  <1>14. SeqOrder'
    BY <1>0, <1>1, <1>5, <1>7 DEF SeqOrder, s, Seqs
  <1>15. CancelCount'
    <2>1. CancelFds' \subseteq CancelFds
      BY <1>2, <1>8, <1>12 DEF CancelFds
    <2> QED
      BY <1>0, <1>1, <1>9, <2>1, CancelShrinks DEF PInv, Shapes
  <1>16. Sound'
    <2> SUFFICES ASSUME ~misused
                 PROVE  /\ poked' = {} /\ CancelHeld' /\ RelayOpen'
                        /\ TakenOnce' /\ ProbeHandlers' /\ AckedOnce'
      BY <1>1 DEF Sound
    <2>0. /\ poked = {} /\ CancelHeld /\ RelayOpen /\ TakenOnce /\ ProbeHandlers
      BY DEF PInv, Sound
    <2>1. poked' = {} /\ CancelHeld'
      BY <1>1, <1>2, <1>8, <1>12, <2>0 DEF CancelHeld
    <2>2. RelayOpen'
      <3> SUFFICES ASSUME NEW x \in Seqs, ackHandlers'[x].use = "relay"
                   PROVE  owner'[ackHandlers'[x].fd] = Pipe("cancel", x)
        BY DEF RelayOpen
      <3>1. ackHandlers'[x] = ackHandlers[x]
        BY <1>6, <1>7
      <3>2. owner[ackHandlers[x].fd] = Pipe("cancel", x) /\ ackHandlers[x].fd \in Fds
        BY <1>0, <2>0, <3>1, HandlerFields DEF RelayOpen
      <3>3. Pipe("cancel", x) # Unused
        BY DEF Pipe, Unused
      <3> QED
        BY <1>2, <1>8, <3>1, <3>2, <3>3
    <2>3. TakenOnce'
      <3>1. listen.pc = "ack" => listen.seq \in Seqs
        BY <1>0, BoundsAssumption DEF ListenShape, Typed, ListenRec, Seqs
      <3>2. listen.h.use = "probe" => listen.seq # s
        BY <1>0, <1>1 DEF SeqOrder, s
      <3> QED
        BY <1>1, <1>6, <1>7, <2>0, <3>1, <3>2 DEF TakenOnce
    <2>4. ProbeHandlers'
      BY <1>1, <1>4, <1>5, <1>7, <2>0 DEF ProbeHandlers
    <2>5. AckedOnce'
      BY <1>1, <1>4 DEF AckedOnce, HasAck
    <2> QED
      BY <2>1, <2>2, <2>3, <2>4, <2>5
  <1>17. Clean'
    <2> SUFFICES ASSUME NoCause'
                 PROVE  (~misused /\ PipesOpen /\ HandlersOfProbe /\ ListenOfProbe
                         /\ TcpOfProbe /\ NacksOpen /\ RelayInHand)'
      BY DEF Clean
    <2>0. NoCause
      BY <1>1 DEF NoCause
    <2>1. /\ ~misused /\ PipesOpen /\ HandlersOfProbe /\ ListenOfProbe
          /\ TcpOfProbe /\ NacksOpen /\ RelayInHand
      BY <2>0 DEF PInv, Clean
    <2>2. ~misused' /\ PipesOpen'
      BY <1>1, <1>5, <1>8, <2>1 DEF PipesOpen
    <2>3. HandlersOfProbe'
      BY <1>4, <1>5, <1>6, <1>7, <2>1 DEF HandlersOfProbe, OfProbe
    <2>4. ListenOfProbe'
      BY <1>0, <1>1, <1>4, <2>1 DEF ListenOfProbe, OfProbe, ListenShape, HandlerShape
    <2>5. TcpOfProbe'
      BY <1>0, <1>1, <1>4, <2>1 DEF TcpOfProbe, TcpThreads
    <2>6. ASSUME NEW x, NEW f \in Fds
          PROVE  owner[f] = Pipe("cancel", x) <=> owner'[f] = Pipe("cancel", x)
      <3>1. /\ Pipe("cancel", x) # Unused /\ Pipe("cancel", x) # Pipe("ack", s)
            /\ Pipe("cancel", x) # Pipe("nack", s)
        BY DEF Pipe, Unused
      <3> QED
        BY <1>2, <1>8, <3>1
    <2>7. NacksOpen' /\ RelayInHand'
      <3>1. \A t \in nacks : t.fd \in Fds
        BY <1>0 DEF NackThreads
      <3> QED
        BY <1>1, <2>1, <2>6, <3>1 DEF NacksOpen, RelayInHand
    <2> QED
      BY <2>2, <2>3, <2>4, <2>5, <2>7
  <1> QED
    BY <1>9, <1>10, <1>13, <1>14, <1>15, <1>16, <1>17 DEF PInv, Shapes

\* The probe makes the fall-back pipe and starts the TCP thread.
LEMMA ProbeIndirectKeeps == ASSUME PInv, ProbeIndirect PROVE PInv'
  <1> DEFINE b == Lowest(FreeFds)
             s == probe.seq
  <1>a. PICK limit \in TcpLimits :
            tcp' \subseteq tcp \cup {[of |-> s, fd |-> b, limit |-> limit]}
    BY DEF ProbeIndirect, TcpThread, TcpLimits
  <1> DEFINE T == [of |-> s, fd |-> b, limit |-> limit]
  <1>0. /\ Typed /\ ProbeShape /\ SeqOrder /\ OwnerShape /\ ListenShape /\ HandlersShape
        /\ probe \in ProbeRec /\ inbox \in Seq(BOOLEAN) /\ owner \in [Fds -> Owners]
        /\ ackHandlers \in [Seqs -> Handler \cup {None}]
        /\ tcp \in SUBSET TcpThreads /\ nacks \in SUBSET NackThreads
    BY DEF PInv, Shapes, Typed
  <1>1. /\ probe.pc = "select"
        /\ inbox' = IF inbox = <<>> THEN inbox ELSE Append(Tail(inbox), FALSE)
        /\ asked' = asked \cup {s}
        /\ owner' = [owner EXCEPT ![b] = Pipe("fallback", s)]
        /\ probe' = [probe EXCEPT !.pc = "waitAck", !.fallback = b]
        /\ tcp' \subseteq tcp \cup {T}
        /\ UNCHANGED <<allowTcpPing, sequenceNum, reply, ackHandlers, listen, nacks, poked, answered,
                       relays, pinged, saved, causes, misused, ended>>
    BY <1>a DEF ProbeIndirect, ProbeSame
  <1>2. b \in Fds /\ owner[b] = Unused
    BY <1>1, FreeDescriptors DEF PInv
  <1> HIDE DEF b
  <1>3. Running /\ s \in Seqs /\ probe.ack \in Fds /\ probe.nack \in Fds
    <2>1. Running
      BY <1>1 DEF Running
    <2> QED
      BY <1>0, <2>1, RunningSeq
  <1>4. probe.fallback = 0 /\ 0 \notin Fds /\ b # 0
    BY <1>0, <1>1, <1>2 DEF ProbeShape, Fds
  <1>5. /\ probe' \in ProbeRec /\ probe'.pc = "waitAck" /\ probe'.seq = probe.seq
        /\ probe'.ack = probe.ack /\ probe'.nack = probe.nack /\ probe'.fallback = b
    <2>1. b \in 0..MaxFd
      BY <1>2, BoundsAssumption DEF Fds
    <2> QED
      BY <1>0, <1>1, <2>1 DEF ProbeRec
  <1>6. T \in TcpThreads /\ T.of = probe.seq /\ T.fd = b
    BY <1>2, <1>3 DEF TcpThreads
  <1> HIDE DEF s, T
  <1>7. inbox' \in Seq(BOOLEAN) /\ (HasAck(inbox') => HasAck(inbox))
    <2>1. CASE inbox = <<>>
      BY <1>0, <1>1, <2>1
    <2>2. CASE inbox # <<>>
      <3>1. Tail(inbox) \in Seq(BOOLEAN) /\ (HasAck(Tail(inbox)) => HasAck(inbox))
        BY <1>0, <2>2, AckAmong
      <3>2. /\ Append(Tail(inbox), FALSE) \in Seq(BOOLEAN)
            /\ HasAck(Append(Tail(inbox), FALSE)) => HasAck(Tail(inbox))
        BY <3>1, AckAmong
      <3> QED
        BY <1>1, <2>2, <3>1, <3>2
    <2> QED
      BY <2>1, <2>2
  <1>8. /\ owner'[b] = Pipe("fallback", s) /\ owner' \in [Fds -> Owners]
        /\ \A f \in Fds \ {b} : owner'[f] = owner[f]
    <2>1. Pipe("fallback", s) \in Owners
      BY <1>0 DEF Pipe, Owners, ProbeRec, s
    <2> QED
      BY <1>0, <1>1, <1>2, <2>1
  <1>9. Pipe("fallback", s).pipe = "fallback" /\ Pipe("fallback", s).of = s /\ Unused.pipe = "none"
    BY DEF Pipe, Unused
  <1>10. Typed'
    <2>1. tcp' \in SUBSET TcpThreads /\ asked' \in SUBSET Seqs
      BY <1>0, <1>1, <1>3, <1>6 DEF Typed
    <2> QED
      BY <1>0, <1>1, <1>5, <1>7, <1>8, <2>1 DEF Typed
  <1>11. ProbeShape' /\ HandlersShape' /\ ListenShape' /\ NackUnique'
    BY <1>0, <1>1, <1>3, <1>4, <1>5
    DEF PInv, Shapes, ProbeShape, Running, HandlersShape, ListenShape, NackUnique
  <1>12. OwnerShape'
    <2> SUFFICES ASSUME NEW f \in Fds
                 PROVE  /\ owner'[f].pipe = "none" => owner'[f] = Unused
                        /\ owner'[f].pipe = "cancel" => owner'[f].of # 0
                        /\ owner'[f].pipe = "ack" => f = probe'.ack /\ owner'[f].of = probe'.seq
                        /\ owner'[f].pipe = "nack" => f = probe'.nack /\ owner'[f].of = probe'.seq
                        /\ owner'[f].pipe = "fallback" =>
                              f = probe'.fallback /\ owner'[f].of = probe'.seq
      BY DEF OwnerShape
    <2>1. CASE f = b
      BY <1>5, <1>8, <1>9, <2>1 DEF s
    <2>2. CASE f # b
      BY <1>0, <1>4, <1>5, <1>8, <2>2 DEF OwnerShape
    <2> QED
      BY <2>1, <2>2
  <1>13. SeqOrder'
    BY <1>0, <1>1, <1>5 DEF SeqOrder
  <1>14. CancelCount'
    <2>1. CancelFds' \subseteq CancelFds
      BY <1>2, <1>8, <1>9 DEF CancelFds
    <2> QED
      BY <1>0, <1>1, <1>10, <2>1, CancelShrinks DEF PInv, Shapes
  <1>15. ASSUME NEW x, NEW f \in Fds
         PROVE  owner[f] = Pipe("cancel", x) <=> owner'[f] = Pipe("cancel", x)
    <2>1. Pipe("cancel", x) # Unused /\ Pipe("cancel", x) # Pipe("fallback", s)
      BY DEF Pipe, Unused
    <2> QED
      BY <1>2, <1>8, <2>1
  <1>16. Sound'
    <2> SUFFICES ASSUME ~misused
                 PROVE  /\ poked' = {} /\ CancelHeld' /\ RelayOpen'
                        /\ TakenOnce' /\ ProbeHandlers' /\ AckedOnce'
      BY <1>1 DEF Sound
    <2>0. /\ poked = {} /\ CancelHeld /\ RelayOpen /\ TakenOnce /\ ProbeHandlers /\ AckedOnce
      BY DEF PInv, Sound
    <2>1. poked' = {} /\ CancelHeld'
      BY <1>1, <1>2, <1>8, <1>9, <2>0 DEF CancelHeld
    <2>2. RelayOpen'
      <3>1. \A x \in Seqs : ackHandlers[x].use = "relay" => ackHandlers[x].fd \in Fds
        BY <1>0, HandlerFields
      <3> QED
        BY <1>1, <1>15, <2>0, <3>1 DEF RelayOpen
    <2>3. TakenOnce' /\ ProbeHandlers' /\ AckedOnce'
      BY <1>1, <1>5, <1>7, <2>0 DEF TakenOnce, ProbeHandlers, AckedOnce
    <2> QED
      BY <2>1, <2>2, <2>3
  <1>17. Clean'
    <2> SUFFICES ASSUME NoCause
                 PROVE  (~misused /\ PipesOpen /\ HandlersOfProbe /\ ListenOfProbe
                         /\ TcpOfProbe /\ NacksOpen /\ RelayInHand)'
      BY <1>1 DEF Clean, NoCause
    <2>1. /\ ~misused /\ PipesOpen /\ HandlersOfProbe /\ ListenOfProbe
          /\ TcpOfProbe /\ NacksOpen /\ RelayInHand
      BY DEF PInv, Clean
    <2>2. ~misused' /\ PipesOpen'
      <3>1. /\ owner[probe.ack] = Pipe("ack", s) /\ owner[probe.nack] = Pipe("nack", s)
            /\ Pipe("ack", s) # Unused /\ Pipe("nack", s) # Unused
        BY <1>3, <2>1 DEF PipesOpen, Pipe, Unused, s
      <3> QED
        BY <1>1, <1>2, <1>3, <1>5, <1>8, <2>1, <3>1 DEF PipesOpen, s
    <2>3. HandlersOfProbe' /\ ListenOfProbe'
      BY <1>1, <1>5, <2>1 DEF HandlersOfProbe, ListenOfProbe, OfProbe
    <2>4. TcpOfProbe'
      BY <1>0, <1>1, <1>4, <1>5, <1>6, <2>1 DEF TcpOfProbe, TcpThreads
    <2>5. NacksOpen' /\ RelayInHand'
      <3>1. \A t \in nacks : t.fd \in Fds
        BY <1>0 DEF NackThreads
      <3> QED
        BY <1>1, <1>15, <2>1, <3>1 DEF NacksOpen, RelayInHand
    <2> QED
      BY <2>2, <2>3, <2>4, <2>5
  <1> QED
    BY <1>10, <1>11, <1>12, <1>13, <1>14, <1>16, <1>17 DEF PInv, Shapes

\* packetListen draws a number for a relay, makes the cancel pipe, registers the
\* handler and starts the nack thread.
LEMMA RelaySetKeeps == ASSUME PInv, RelaySet PROVE PInv'
  <1> DEFINE s == sequenceNum
             c == Lowest(FreeFds)
             h == [use |-> "relay", fd |-> c, nackFd |-> 0, timer |-> "over"]
  <1>0. /\ Typed /\ ProbeShape /\ SeqOrder /\ OwnerShape /\ ListenShape /\ HandlersShape
        /\ CancelCount /\ relays \in Nat /\ pinged \in SUBSET Seqs
        /\ ackHandlers \in [Seqs -> Handler \cup {None}] /\ owner \in [Fds -> Owners]
        /\ sequenceNum \in 0..MaxSeq /\ nacks \in SUBSET NackThreads /\ probe \in ProbeRec
    BY BoundsAssumption DEF PInv, Shapes, Typed
  <1>1. PICK limit \in {"time", "never", "negative"} :
             /\ nacks' = nacks \cup {[seq |-> s, fd |-> c, pc |-> "wait", limit |-> limit]}
             /\ ended' = (limit = "negative")
    BY DEF RelaySet, NextSeqNum
  <1>2. /\ listen.pc = "load" /\ listen' = Listening
        /\ owner' = [owner EXCEPT ![c] = Pipe("cancel", s)]
        /\ ackHandlers' = [ackHandlers EXCEPT ![s] = h]
        /\ causes \subseteq causes' /\ pinged' = pinged \cup {s}
        /\ UNCHANGED <<allowTcpPing, sequenceNum, probe, inbox, reply, tcp, poked, answered,
                       relays, asked, saved, misused>>
    BY DEF RelaySet, ListenSame, NextSeqNum, SetHandler
  <1>3. c \in Fds /\ owner[c] = Unused
    BY <1>2, FreeDescriptors DEF PInv
  <1> HIDE DEF c
  <1> DEFINE N == [seq |-> s, fd |-> c, pc |-> "wait", limit |-> limit]
  <1>4. s \in Seqs /\ s # 0 /\ s \in Nat
    BY <1>0, <1>2, BoundsAssumption DEF SeqOrder, Seqs
  <1>5. /\ Listening.pc = "idle" /\ Listening.h = None /\ Listening.seq = 0 /\ None.use = "none"
        /\ Listening \in ListenRec /\ HandlerShape(None)
    BY BoundsAssumption DEF Listening, None, ListenRec, HandlerShape
  <1>6. h \in Handler /\ h.use = "relay" /\ h.fd = c /\ HandlerShape(h)
    BY <1>3 DEF Handler, HandlerShape
  <1>7. N \in NackThreads /\ N.seq = s /\ N.fd = c /\ N.pc = "wait" /\ nacks' = nacks \cup {N}
    BY <1>1, <1>3, <1>4 DEF NackThreads
  <1> HIDE DEF h, N
  <1>8. /\ ackHandlers' \in [Seqs -> Handler \cup {None}] /\ ackHandlers'[s] = h
        /\ \A x \in Seqs \ {s} : ackHandlers'[x] = ackHandlers[x]
    BY <1>0, <1>2, <1>4, <1>6
  <1>9. /\ owner'[c] = Pipe("cancel", s) /\ owner' \in [Fds -> Owners]
        /\ \A f \in Fds \ {c} : owner'[f] = owner[f]
    <2>1. Pipe("cancel", s) \in Owners
      BY <1>0 DEF Pipe, Owners
    <2> QED
      BY <1>0, <1>2, <1>3, <2>1
  <1>10. Pipe("cancel", s).pipe = "cancel" /\ Pipe("cancel", s).of = s /\ Unused.pipe = "none"
    BY DEF Pipe, Unused
  <1>11. \A t \in nacks : t.seq \in Seqs /\ t.seq # s /\ t.fd \in Fds
    BY <1>0, <1>2 DEF SeqOrder, NackThreads, Seqs
  <1>12. ended' \in BOOLEAN
    BY <1>1, Zenon
  <1>13. Typed'
    <2>1. nacks' \in SUBSET NackThreads /\ pinged' \in SUBSET Seqs
      BY <1>0, <1>2, <1>4, <1>7
    <2> QED
      BY <1>0, <1>2, <1>5, <1>8, <1>9, <1>12, <2>1 DEF Typed
  <1>14. ProbeShape' /\ HandlersShape' /\ ListenShape'
    BY <1>0, <1>2, <1>5, <1>6, <1>8 DEF ProbeShape, Running, HandlersShape, ListenShape
  <1>15. NackUnique'
    BY <1>7, <1>11 DEF PInv, Shapes, NackUnique
  <1>16. OwnerShape'
    <2> SUFFICES ASSUME NEW f \in Fds
                 PROVE  /\ owner'[f].pipe = "none" => owner'[f] = Unused
                        /\ owner'[f].pipe = "cancel" => owner'[f].of # 0
                        /\ owner'[f].pipe = "ack" => f = probe'.ack /\ owner'[f].of = probe'.seq
                        /\ owner'[f].pipe = "nack" => f = probe'.nack /\ owner'[f].of = probe'.seq
                        /\ owner'[f].pipe = "fallback" =>
                              f = probe'.fallback /\ owner'[f].of = probe'.seq
      BY DEF OwnerShape
    <2>1. CASE f = c
      BY <1>4, <1>9, <1>10, <2>1
    <2>2. CASE f # c
      BY <1>0, <1>2, <1>9, <2>2 DEF OwnerShape
    <2> QED
      BY <2>1, <2>2
  <1>17. SeqOrder'
    <2>1. \A x \in Seqs : ackHandlers'[x].use # "none" => x <= sequenceNum
      BY <1>0, <1>8 DEF SeqOrder, Seqs
    <2>2. probe.pc = "load" => \A x \in Seqs : ackHandlers'[x].use = "probe" => x < sequenceNum
      BY <1>0, <1>6, <1>8 DEF SeqOrder
    <2>3. \A t \in nacks' : t.seq <= sequenceNum
      BY <1>0, <1>4, <1>7 DEF SeqOrder
    <2> QED
      BY <1>0, <1>2, <1>4, <1>5, <2>1, <2>2, <2>3 DEF SeqOrder
  <1>18. CancelCount'
    <2>1. CancelFds' \subseteq CancelFds \cup {c}
      BY <1>9 DEF CancelFds
    <2>2. IsFiniteSet(CancelFds) /\ Cardinality(CancelFds) \in Nat
      BY FdsFinite DEF CancelFds
    <2>3. /\ IsFiniteSet(CancelFds \cup {c})
          /\ Cardinality(CancelFds \cup {c}) =
                IF c \in CancelFds THEN Cardinality(CancelFds) ELSE Cardinality(CancelFds) + 1
      BY <2>2, FS_AddElement
    <2>4. IsFiniteSet(CancelFds') /\ Cardinality(CancelFds') <= Cardinality(CancelFds \cup {c})
      BY <2>1, <2>3, FS_Subset
    <2>5. Cardinality(CancelFds') \in Nat
      BY <2>4, FS_CardinalityType
    <2>6. Cardinality(CancelFds) + 1 <= relays
      BY <1>0, <1>2 DEF CancelCount
    <2>7. Cardinality(CancelFds') <= relays
      BY <1>0, <2>2, <2>3, <2>4, <2>5, <2>6
    <2> QED
      BY <1>0, <1>2, <1>5, <2>5, <2>7 DEF CancelCount
  <1>19. Sound'
    <2> SUFFICES ASSUME ~misused
                 PROVE  /\ poked' = {} /\ CancelHeld' /\ RelayOpen'
                        /\ TakenOnce' /\ ProbeHandlers' /\ AckedOnce'
      BY <1>2 DEF Sound
    <2>0. /\ poked = {} /\ CancelHeld /\ RelayOpen /\ ProbeHandlers /\ AckedOnce
      BY DEF PInv, Sound
    <2>1. poked' = {} /\ CancelHeld'
      BY <1>2, <1>7, <1>9, <1>10, <2>0 DEF CancelHeld
    <2>2. RelayOpen'
      <3> SUFFICES ASSUME NEW x \in Seqs, ackHandlers'[x].use = "relay"
                   PROVE  owner'[ackHandlers'[x].fd] = Pipe("cancel", x)
        BY DEF RelayOpen
      <3>1. CASE x = s
        BY <1>6, <1>8, <1>9, <3>1
      <3>2. CASE x # s
        <4>1. ackHandlers'[x] = ackHandlers[x]
          BY <1>8, <3>2
        <4>2. owner[ackHandlers[x].fd] = Pipe("cancel", x) /\ ackHandlers[x].fd \in Fds
          BY <1>0, <2>0, <4>1, HandlerFields DEF RelayOpen
        <4>3. Pipe("cancel", x) # Unused
          BY DEF Pipe, Unused
        <4> QED
          BY <1>3, <1>9, <4>1, <4>2, <4>3
      <3> QED
        BY <3>1, <3>2
    <2>3. TakenOnce' /\ ProbeHandlers'
      BY <1>2, <1>5, <1>6, <1>8, <2>0 DEF TakenOnce, ProbeHandlers
    <2>4. AckedOnce'
      <3>1. HasAck(inbox) => probe.seq \in Seqs
        <4>1. inbox = <<>> => ~HasAck(inbox)
          BY DEF HasAck
        <4>2. inbox # <<>> => probe.seq # 0
          BY <1>0 DEF ProbeShape
        <4> QED
          BY <1>0, <4>1, <4>2, BoundsAssumption DEF ProbeRec, Seqs
      <3> QED
        BY <1>2, <1>6, <1>8, <2>0, <3>1 DEF AckedOnce
    <2> QED
      BY <2>1, <2>2, <2>3, <2>4
  <1>20. Clean'
    <2> SUFFICES ASSUME NoCause'
                 PROVE  (~misused /\ PipesOpen /\ HandlersOfProbe /\ ListenOfProbe
                         /\ TcpOfProbe /\ NacksOpen /\ RelayInHand)'
      BY DEF Clean
    <2>0. NoCause
      BY <1>2 DEF NoCause
    <2>1. /\ ~misused /\ PipesOpen /\ HandlersOfProbe
          /\ TcpOfProbe /\ NacksOpen
      BY <2>0 DEF PInv, Clean
    <2>2. ~misused' /\ PipesOpen'
      <3>1. \A p \in {"ack", "nack", "fallback"} : Pipe(p, probe.seq) # Unused
        BY DEF Pipe, Unused
      <3>2. /\ probe.ack \in Fds \cup {0} /\ probe.nack \in Fds \cup {0}
            /\ probe.fallback \in Fds \cup {0}
        BY <1>0, BoundsAssumption DEF ProbeRec, Fds
      <3>3. Running => probe.ack # 0 /\ probe.nack # 0
        BY <1>0 DEF ProbeShape
      <3> QED
        BY <1>2, <1>3, <1>9, <2>1, <3>1, <3>2, <3>3 DEF PipesOpen, Running
    <2>3. HandlersOfProbe' /\ ListenOfProbe' /\ TcpOfProbe' /\ RelayInHand'
      BY <1>2, <1>5, <1>6, <1>8, <2>1
      DEF HandlersOfProbe, ListenOfProbe, OfProbe, TcpOfProbe, RelayInHand
    <2>4. NacksOpen'
      <3> SUFFICES ASSUME NEW t \in nacks'
                   PROVE  \/ owner'[t.fd] = Pipe("cancel", t.seq)
                          \/ t.pc = "wait" /\ \A f \in Fds : owner'[f] # Pipe("cancel", t.seq)
        BY DEF NacksOpen
      <3>1. CASE t = N
        BY <1>7, <1>9, <3>1
      <3>2. CASE t # N
        <4>1. t \in nacks /\ t.fd \in Fds /\ t.seq # s
          BY <1>7, <1>11, <3>2
        <4>2. Pipe("cancel", t.seq) # Unused /\ Pipe("cancel", t.seq) # Pipe("cancel", s)
          BY <4>1 DEF Pipe, Unused
        <4> QED
          BY <1>3, <1>9, <2>1, <4>1, <4>2 DEF NacksOpen
      <3> QED
        BY <3>1, <3>2
    <2> QED
      BY <2>2, <2>3, <2>4
  <1> QED
    BY <1>13, <1>14, <1>15, <1>16, <1>17, <1>18, <1>19, <1>20 DEF PInv, Shapes

-----------------------------------------------------------------------------
(* The invariant is inductive, and what follows from it. *)

\* The invariant holds before the first probe.
LEMMA PInvInit == Init => PInv
  <1> SUFFICES ASSUME Init PROVE PInv
    OBVIOUS
  <1>1. /\ MaxSeq \in Nat /\ MaxFd \in Nat /\ MaxRelays \in Nat
        /\ 0 \in 0..MaxSeq /\ 0 \in 0..MaxFd /\ 0 \in 0..MaxRelays
    BY BoundsAssumption
  <1>2. /\ NoProbe \in ProbeRec /\ NoProbe.pc = "idle" /\ NoProbe.seq = 0 /\ NoProbe.ack = 0
        /\ NoProbe.nack = 0 /\ NoProbe.fallback = 0
    BY <1>1 DEF NoProbe, ProbeRec
  <1>3. /\ Listening \in ListenRec /\ Listening.pc = "idle" /\ Listening.h = None
        /\ Listening.seq = 0 /\ None.use = "none" /\ HandlerShape(None)
    BY <1>1 DEF Listening, None, ListenRec, HandlerShape
  <1>4. Unused \in Owners /\ Unused.pipe = "none"
    BY <1>1 DEF Unused, Owners
  <1>5. /\ probe = NoProbe /\ listen = Listening /\ inbox = <<>> /\ reply = <<>>
        /\ sequenceNum = 0 /\ relays = 0 /\ tcp = {} /\ nacks = {} /\ poked = {} /\ saved = {}
        /\ pinged = {} /\ asked = {} /\ misused = FALSE /\ ended = FALSE
        /\ ackHandlers = [s \in Seqs |-> None] /\ owner = [f \in Fds |-> Unused]
        /\ answered = [s \in Seqs |-> {}] /\ allowTcpPing \in BOOLEAN
    BY TcpAssumption DEF Init
  <1>6. Typed
    <2>1. /\ ackHandlers \in [Seqs -> Handler \cup {None}] /\ owner \in [Fds -> Owners]
          /\ answered \in [Seqs -> SUBSET {"ack", "nack"}]
      BY <1>4, <1>5
    <2>2. inbox \in Seq(BOOLEAN) /\ reply \in Seq(BOOLEAN)
      BY <1>5
    <2>3. misused \in BOOLEAN /\ ended \in BOOLEAN
      BY <1>5
    <2>4. probe \in ProbeRec /\ listen \in ListenRec
      BY <1>2, <1>3, <1>5
    <2>5. sequenceNum \in 0..MaxSeq /\ relays \in 0..MaxRelays
      BY <1>1, <1>5
    <2>6. /\ tcp \in SUBSET TcpThreads /\ nacks \in SUBSET NackThreads
          /\ poked \in SUBSET Seqs /\ pinged \in SUBSET Seqs
          /\ asked \in SUBSET Seqs /\ saved \in SUBSET Seqs
      BY <1>5
    <2> QED
      BY <1>5, <2>1, <2>2, <2>3, <2>4, <2>5, <2>6, Zenon DEF Typed
  <1>7. ProbeShape /\ HandlersShape /\ ListenShape
    BY <1>2, <1>3, <1>5 DEF ProbeShape, HandlersShape, ListenShape, Running
  <1>8. OwnerShape /\ SeqOrder /\ NackUnique
    BY <1>2, <1>3, <1>4, <1>5 DEF OwnerShape, SeqOrder, NackUnique
  <1>9. CancelCount
    <2>1. CancelFds = {}
      BY <1>4, <1>5 DEF CancelFds
    <2> QED
      BY <1>3, <1>5, <2>1, FS_EmptySet DEF CancelCount
  <1>10. Sound
    <2>1. CancelHeld /\ RelayOpen /\ ProbeHandlers
      BY <1>3, <1>4, <1>5 DEF CancelHeld, RelayOpen, ProbeHandlers
    <2>2. TakenOnce
      BY <1>3, <1>5 DEF TakenOnce
    <2>3. AckedOnce
      BY <1>5 DEF AckedOnce, HasAck
    <2> QED
      BY <1>5, <2>1, <2>2, <2>3 DEF Sound
  <1>11. Clean
    BY <1>2, <1>3, <1>5 DEF Clean, PipesOpen, HandlersOfProbe, ListenOfProbe, TcpOfProbe,
       NacksOpen, RelayInHand, Running
  <1> QED
    BY <1>6, <1>7, <1>8, <1>9, <1>10, <1>11 DEF PInv, Shapes

\* One step per action; the two ways to end the process change nothing else.
LEMMA PInvInductive == PInv /\ [Next]_vars => PInv'
  <1> SUFFICES ASSUME PInv, [Next]_vars PROVE PInv'
    OBVIOUS
  <1>1. CASE ProbeAdd
    BY <1>1, ProbeAddKeeps
  <1>2. CASE ProbeSet
    BY <1>2, ProbeSetKeeps
  <1>3. CASE ProbeRun
    BY <1>3, ProbeRunKeeps
  <1>4. CASE ProbeIndirect
    BY <1>4, ProbeIndirectKeeps
  <1>5. CASE ProbeSelectFails
    <2>1. /\ ended' = TRUE
          /\ UNCHANGED <<allowTcpPing, sequenceNum, probe, inbox, reply, ackHandlers,
                         listen, tcp, nacks, poked, answered, relays, owner, pinged,
                         asked, saved, causes, misused>>
      BY <1>5 DEF ProbeSelectFails, ProbeSame
    <2> QED
      BY <2>1, Stutters
  <1>6. CASE ProbeWaitAck /\ ~Head(inbox)
    BY <1>6, ProbeWaitKeeps
  <1>7. CASE ProbeAcked \/ (ProbeWaitAck /\ Head(inbox)) \/ ProbeSaved \/ ProbeFailed
    BY <1>7, ProbeEndsKeep
  <1>8. ASSUME NEW s \in Seqs, TimerFire(s) PROVE PInv'
    BY <1>8, TimerFireKeeps
  <1>9. ASSUME NEW s \in Seqs, HandleAck(s) \/ HandleNack(s) PROVE PInv'
    BY <1>9, HandleKeeps
  <1>10. CASE TimerFireTaken
    BY <1>10, TimerFireTakenKeeps
  <1>11. CASE RunProbeAck \/ RunNack
    BY <1>11, RunKeeps
  <1>12. CASE RunRelayAck
    BY <1>12, RunRelayAckKeeps
  <1>13. CASE RelayAdd
    BY <1>13, RelayAddKeeps
  <1>14. CASE RelaySet
    BY <1>14, RelaySetKeeps
  <1>15. ASSUME NEW t \in nacks, NackCancelled(t) PROVE PInv'
    BY <1>15, NackCancelledKeeps
  <1>16. ASSUME NEW t \in nacks, NackExpire(t) PROVE PInv'
    BY <1>16, NackExpireKeeps
  <1>17. ASSUME NEW t \in nacks, NackSend(t) PROVE PInv'
    BY <1>17, NackSendKeeps
  <1>18. ASSUME NEW t \in tcp, TcpDone(t) PROVE PInv'
    BY <1>18, TcpDoneKeeps
  <1>19. CASE UnlockedAccess
    <2>1. /\ ended' = TRUE
          /\ UNCHANGED <<allowTcpPing, sequenceNum, probe, inbox, reply, ackHandlers,
                         listen, tcp, nacks, poked, answered, relays, owner, pinged,
                         asked, saved, causes, misused>>
      BY <1>19 DEF UnlockedAccess, DetachedSame
    <2> QED
      BY <2>1, Stutters
  <1>20. CASE KeepNodeMutex
    <2>1. UNCHANGED <<allowTcpPing, sequenceNum, probe, inbox, reply, ackHandlers,
                      listen, tcp, nacks, poked, answered, relays, owner, pinged,
                      asked, saved, causes, misused, ended>>
      BY <1>20 DEF KeepNodeMutex
    <2>2. ended \in BOOLEAN
      BY DEF PInv, Shapes, Typed
    <2> QED
      BY <2>1, <2>2, Stutters
  <1>21. CASE UNCHANGED vars
    <2>1. UNCHANGED <<allowTcpPing, sequenceNum, probe, inbox, reply, ackHandlers,
                      listen, tcp, nacks, poked, answered, relays, owner, pinged,
                      asked, saved, causes, misused, ended>>
      BY <1>21 DEF vars
    <2>2. ended \in BOOLEAN
      BY DEF PInv, Shapes, Typed
    <2> QED
      BY <2>1, <2>2, Stutters
  <1> QED
    BY <1>1, <1>2, <1>3, <1>4, <1>5, <1>6, <1>7, <1>8, <1>9, <1>10, <1>11, <1>12, <1>13,
       <1>14, <1>15, <1>16, <1>17, <1>18, <1>19, <1>20, <1>21 DEF Next

\* The invariant holds in every reachable state.
LEMMA PInvAlways == Spec => []PInv
  BY PInvInit, PInvInductive, PTL DEF Spec

KeptType == nodeMutexKept \in BOOLEAN

\* Only one step touches nodeMutexKept.
LEMMA KeptTyped == Spec => []KeptType
  <1>1. Init => KeptType
    BY DEF Init, KeptType
  <1>2. KeptType /\ [Next]_vars => KeptType'
    <2> SUFFICES ASSUME KeptType, [Next]_vars
                 PROVE  nodeMutexKept' = nodeMutexKept \/ nodeMutexKept' = TRUE
      BY DEF KeptType
    <2> QED
      BY DEF Next, vars, ProbeAdd, ProbeSet, ProbeRun, ProbeAcked, ProbeIndirect, ProbeSelectFails,
         ProbeWaitAck, ProbeSaved, ProbeFailed, ProbeSame, TimerFire, TimerFireTaken, TimerSame,
         HandleAck, HandleNack, RunProbeAck, RunRelayAck, RunNack, RelayAdd, RelaySet, ListenSame,
         NackCancelled, NackExpire, NackSend, TcpDone, UnlockedAccess, DetachedSame, KeepNodeMutex
  <1> QED
    BY <1>1, <1>2, PTL DEF Spec

\* The state has its type.
THEOREM ProbeTypeCorrect == Spec => []TypeOK
  <1>1. PInv /\ KeptType => TypeOK
    <2> SUFFICES ASSUME PInv, KeptType PROVE TypeOK
      OBVIOUS
    <2>1. /\ probe \in ProbeRec /\ listen \in ListenRec /\ ProbeShape /\ Typed
      BY DEF PInv, Shapes, Typed
    <2>2. Running => probe.seq \in Seqs /\ probe.ack \in Fds /\ probe.nack \in Fds
      BY <2>1, RunningSeq
    <2>3. /\ probe.pc \in {"idle", "load", "run", "select", "waitAck", "waitTcp"}
          /\ listen.pc \in {"idle", "ack", "nack", "load"}
          /\ listen.h \in Handler \cup {None}
      BY <2>1 DEF ProbeRec, ListenRec
    <2> QED
      BY <2>1, <2>2, <2>3 DEF Typed, TypeOK, KeptType, Running, TcpThreads, NackThreads
  <1> QED
    BY <1>1, PInvAlways, KeptTyped, PTL

\* Whatever the bounds are, a descriptor is written to or closed by someone it
\* no longer belongs to only after one of the three causes: the handler left by
\* a probe that TCP saved, a handler or TCP thread that outlives its probe, or an
\* ack that races the nack of its relay.  Two threads drawing the same sequence
\* number never is the cause.
THEOREM MisuseOnlyFromItsCauses == Spec => []MisuseHasCause
  <1>1. PInv => MisuseHasCause
    <2> SUFFICES ASSUME PInv, misused PROVE causes \ {"collision"} # {} \/ saved # {}
      BY DEF MisuseHasCause
    <2>1. ~NoCause
      BY DEF PInv, Clean
    <2> QED
      BY <2>1 DEF NoCause
  <1> QED
    BY <1>1, PInvAlways, PTL

\* As long as no descriptor was misused, every handler in ackHandlers has someone
\* who takes it out again, but for those of the probes that TCP saved.
THEOREM HandlersDoNotPileUp == Spec => []HandlersAccountedFor
  <1>1. PInv => HandlersAccountedFor
    <2> SUFFICES ASSUME PInv, ~misused, NEW s \in Seqs
                 PROVE  /\ ackHandlers[s].use = "probe" => s = probe.seq \/ s \in saved
                        /\ ackHandlers[s].use = "relay" => \E t \in nacks : t.seq = s
      BY DEF HandlersAccountedFor
    <2>1. CancelHeld /\ RelayOpen /\ ProbeHandlers
      BY DEF PInv, Sound
    <2>2. ackHandlers[s].use = "probe" => s = probe.seq \/ s \in saved
      BY <2>1 DEF ProbeHandlers
    <2>3. ASSUME ackHandlers[s].use = "relay" PROVE \E t \in nacks : t.seq = s
      <3>1. ackHandlers[s] \in Handler \cup {None}
        BY DEF PInv, Shapes, Typed
      <3>2. ackHandlers[s].fd \in Fds
        BY <2>3, <3>1, HandlerFields
      <3>3. owner[ackHandlers[s].fd] = Pipe("cancel", s)
        BY <2>1, <2>3 DEF RelayOpen
      <3> QED
        BY <2>1, <3>2, <3>3 DEF CancelHeld, Pipe
    <2> QED
      BY <2>2, <2>3
  <1> QED
    BY <1>1, PInvAlways, PTL

\* Once no probe, relay or detached thread is left, every pipe has been closed,
\* unless a descriptor was misused.
THEOREM AllPipesAreClosed == Spec => []DescriptorsReturned
  <1>1. PInv => DescriptorsReturned
    <2> SUFFICES ASSUME PInv, probe.pc = "idle", nacks = {}, ~misused
                 PROVE  FreeFds = Fds
      BY DEF DescriptorsReturned
    <2>1. /\ probe.seq = 0 /\ probe.ack = 0 /\ probe.nack = 0 /\ probe.fallback = 0
          /\ OwnerShape /\ CancelHeld
      BY DEF PInv, Shapes, ProbeShape, Running, Sound
    <2>2. ASSUME NEW f \in Fds PROVE owner[f] = Unused
      <3>1. f # 0
        BY DEF Fds
      <3>2. owner[f].pipe \in {"none", "ack", "nack", "fallback", "cancel"}
        BY DEF PInv, Shapes, Typed, Owners
      <3>3. owner[f].pipe # "cancel"
        BY <2>1 DEF CancelHeld
      <3> QED
        BY <2>1, <3>1, <3>2, <3>3 DEF OwnerShape
    <2> QED
      BY <2>2 DEF FreeFds
  <1> QED
    BY <1>1, PInvAlways, PTL
=============================================================================
