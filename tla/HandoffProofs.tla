---------------------------- MODULE HandoffProofs ---------------------------
(***************************************************************************)
(* Proofs about Handoff, for every queue depth and every pipe capacity.    *)
(***************************************************************************)
EXTENDS Handoff, SequenceTheorems, TLAPS

HInv == TypeOK /\ WakeupPerMessage

\* What a packet carries is a sequence of broadcasts.
LEMMA BurstType ==
    ASSUME NEW b \in BoundedSeq(Broadcasts, MaxBurst)
    PROVE  b \in Seq(Broadcasts)
  BY BurstAssumption DEF BoundedSeq, SeqOf

\* Popping a nonempty stack makes it one shorter.
LEMMA FrontProperties ==
    ASSUME NEW S, NEW s \in Seq(S), s # <<>>
    PROVE  Front(s) \in Seq(S) /\ Len(Front(s)) = Len(s) - 1 /\ Len(s) > 0
  <1>1. Len(s) \in Nat /\ Len(s) > 0 /\ \A i \in 1..Len(s) - 1 : s[i] \in S
    OBVIOUS
  <1>2. Front(s) \in Seq(S)
        /\ Len(Front(s)) = IF 1 <= Len(s) - 1 THEN Len(s) - 1 - 1 + 1 ELSE 0
    BY <1>1, SubSeqProperties DEF Front
  <1> DEFINE n == Len(s)
             l == Len(Front(s))
  <1>3. n \in Nat /\ n > 0 /\ l = IF 1 <= n - 1 THEN n - 1 - 1 + 1 ELSE 0
    BY <1>1, <1>2
  <1> HIDE DEF n, l
  <1>4. l = n - 1 /\ n > 0
    BY <1>3
  <1> QED
    BY <1>2, <1>4 DEF n, l

\* WakeupPerMessage is inductive together with the type invariant.
LEMMA HInvInductive == HInv /\ [Next]_vars => HInv'
  <1> SUFFICES ASSUME HInv, [Next]_vars PROVE HInv'
    OBVIOUS
  <1> USE DepthAssumption, BurstAssumption
  <1>0. CASE UNCHANGED vars
    BY <1>0 DEF vars, HInv, TypeOK, WakeupPerMessage
  <1>a. Len(high) \in Nat /\ Len(low) \in Nat /\ Len(batch) \in Nat /\ wakeups \in Nat
    BY DEF HInv, TypeOK
  <1>1. ASSUME NEW b \in BoundedSeq(Broadcasts, MaxBurst), Receive(b)
        PROVE  HInv'
    <2>1. b \in Seq(Broadcasts) /\ Len(b) \in Nat
      BY BurstType
    <2> QED
      BY <1>1, <1>a, <2>1 DEF Receive, HInv, TypeOK, WakeupPerMessage
  <1>2. CASE Lock
    BY <1>2, <1>a DEF Lock, HInv, TypeOK, WakeupPerMessage
  <1>3. CASE QueueHigh
    <2>1. Head(batch) \in {"alive"} /\ Tail(batch) \in Seq(Broadcasts)
      BY <1>3, HeadTailProperties DEF QueueHigh, HInv, TypeOK
    <2>2. high' \in Seq({"alive"}) /\ Len(high') = Len(high) + 1
      BY <1>3, <2>1, AppendProperties DEF QueueHigh, HInv, TypeOK
    <2> QED
      BY <1>3, <1>a, <2>1, <2>2
      DEF QueueHigh, Wake, HasRoom, HInv, TypeOK, WakeupPerMessage
  <1>4. CASE QueueLow
    <2>1. Head(batch) \in Types /\ Tail(batch) \in Seq(Broadcasts)
      BY <1>4, HeadTailProperties DEF QueueLow, HInv, TypeOK, Broadcasts
    <2>2. low' \in Seq(Types) /\ Len(low') = Len(low) + 1
      BY <1>4, <2>1, AppendProperties DEF QueueLow, HInv, TypeOK
    <2> QED
      BY <1>4, <1>a, <2>1, <2>2
      DEF QueueLow, Wake, HasRoom, HInv, TypeOK, WakeupPerMessage
  <1>5. CASE DropFull
    <2>1. Tail(batch) \in Seq(Broadcasts)
      BY <1>5, HeadTailProperties DEF DropFull, HInv, TypeOK
    <2> QED
      BY <1>5, <1>a, <2>1 DEF DropFull, HInv, TypeOK, WakeupPerMessage
  <1>6. CASE WriteWakeup
    BY <1>6, <1>a DEF WriteWakeup, HInv, TypeOK, WakeupPerMessage
  <1>7. CASE Unlock
    BY <1>7, <1>a DEF Unlock, HInv, TypeOK, WakeupPerMessage
  <1>8. CASE ListenerExit
    BY <1>8, <1>a DEF ListenerExit, HInv, TypeOK, WakeupPerMessage
  <1>9. CASE ReadWakeup
    BY <1>9, <1>a DEF ReadWakeup, HInv, TypeOK, WakeupPerMessage
  <1>10. CASE NextMessage
    <2>1. CASE high # <<>> /\ high' = Front(high) /\ UNCHANGED low
      <3>1. high' \in Seq({"alive"}) /\ Len(high') = Len(high) - 1 /\ Len(high) > 0
        BY <2>1, FrontProperties DEF HInv, TypeOK
      <3> QED
        BY <1>10, <1>a, <2>1, <3>1 DEF NextMessage, HInv, TypeOK, WakeupPerMessage
    <2>2. CASE low # <<>> /\ low' = Front(low) /\ UNCHANGED high
      <3>1. low' \in Seq(Types) /\ Len(low') = Len(low) - 1 /\ Len(low) > 0
        BY <2>2, FrontProperties DEF HInv, TypeOK
      <3> QED
        BY <1>10, <1>a, <2>2, <3>1 DEF NextMessage, HInv, TypeOK, WakeupPerMessage
    <2> QED
      BY <1>10, <2>1, <2>2 DEF NextMessage
  <1>11. CASE Handled
    BY <1>11, <1>a DEF Handled, HInv, TypeOK, WakeupPerMessage
  <1>12. CASE NoMessage
    BY <1>12, <1>a DEF NoMessage, HInv, TypeOK, WakeupPerMessage
  <1>13. CASE HandlerExit
    BY <1>13, <1>a DEF HandlerExit, HInv, TypeOK, WakeupPerMessage
  <1>14. CASE ShutDown
    BY <1>14, <1>a DEF ShutDown, HInv, TypeOK, WakeupPerMessage
  <1> QED
    BY <1>0, <1>1, <1>2, <1>3, <1>4, <1>5, <1>6, <1>7, <1>8, <1>9, <1>10, <1>11,
       <1>12, <1>13, <1>14
    DEF Next, ListenerStep, HandlerStep

\* The invariant holds in every reachable state.
LEMMA HInvAlways == Spec => []HInv
  <1>1. Init => HInv
    <2>1. ASSUME NEW S PROVE <<>> \in Seq(S) /\ Len(<<>>) = 0
      OBVIOUS
    <2>2. ASSUME Init PROVE TypeOK
      <3>1. /\ high \in Seq({"alive"})
            /\ low \in Seq(Types)
            /\ batch \in Seq(Broadcasts)
        BY <2>1, <2>2 DEF Init
      <3>2. wakeups \in 0..PipeCapacity
        BY <2>2, DepthAssumption DEF Init
      <3> QED
        BY <2>2, <3>1, <3>2 DEF Init, TypeOK
    <2>3. ASSUME Init PROVE WakeupPerMessage
      BY <2>1, <2>3, DepthAssumption DEF Init, WakeupPerMessage
    <2> QED
      BY <2>2, <2>3 DEF HInv
  <1> QED
    BY <1>1, HInvInductive, PTL DEF Spec

\* Every step of the two threads keeps the types: an alive message goes to the
\* high-priority stack and nothing else does, and the pipe never holds more
\* wake-ups than its capacity.
THEOREM HandoffTypeCorrect == Spec => []TypeOK
  BY HInvAlways, PTL DEF HInv

\* The hand-off never loses a wake-up: however packetListen and packetHandler
\* interleave, a wake-up is outstanding for every queued message but the ones
\* at either end of the pipe, and the stacks stay within HandoffQueueDepth.
THEOREM NoLostWakeup == Spec => []WakeupPerMessage
  BY HInvAlways, PTL DEF HInv
=============================================================================
