------------------------------- MODULE Beliefs -------------------------------
(***************************************************************************)
(* What the membership protocol promises, without messages, timers, probes *)
(* or threads.  Every member is the only one that numbers its incarnations *)
(* and the only one that announces that it leaves; what the others believe *)
(* about it is always one of these numbers.  What a running member         *)
(* believes about another only moves on: to a higher number, from alive to *)
(* suspect to left, or to a new address after it has left.  Nobody         *)
(* suspects itself, and nobody is ever declared dead by another.           *)
(***************************************************************************)
EXTENDS Naturals

CONSTANTS
    Members,  \* whoever may take part
    Addrs,    \* their addresses
    MaxInc    \* bound: the highest number each member gives itself

VARIABLES
    belief,    \* belief[i][j]: what i believes about j
    issued,    \* the highest incarnation number j has given itself
    announced  \* the incarnations at which j announced that it leaves

vars == <<belief, issued, announced>>

Unknown == [inc |-> 0, st |-> "unknown", addr |-> CHOOSE a \in Addrs : TRUE]
View(n, s, a) == [inc |-> n, st |-> s, addr |-> a]

Init ==
    /\ belief = [i \in Members |-> [j \in Members |-> Unknown]]
    /\ issued = [i \in Members |-> 0]
    /\ announced = [i \in Members |-> {}]

\* A member gives itself a number, says of itself what it likes at a number no
\* lower than before, or both; that it has left only if it has announced it.  It
\* may even say that it is dead: aliveNode stores that when news of an earlier
\* run come before setAlive.
Own(i) ==
    /\ \/ UNCHANGED issued
       \/ \E n \in (issued[i] + 1)..MaxInc[i] : issued' = [issued EXCEPT ![i] = n]
    /\ \/ UNCHANGED belief
       \/ \E n \in belief[i][i].inc..issued'[i], s \in {"alive", "dead", "left"}, a \in Addrs :
             /\ s = "left" => n \in announced[i]
             /\ belief' = [belief EXCEPT ![i][i] = View(n, s, a)]
    /\ UNCHANGED announced

Announce(i) ==
    /\ announced' = [announced EXCEPT ![i] = @ \cup {belief[i][i].inc}]
    /\ UNCHANGED <<belief, issued>>

Believe(i, j, e) ==
    /\ i # j
    /\ belief' = [belief EXCEPT ![i][j] = e]
    /\ UNCHANGED <<issued, announced>>

\* i hears of j: for the first time, at a higher number, or at a new address
\* after j has left.
BelieveAlive(i, j) ==
    \E n \in 1..issued[j], a \in Addrs :
        /\ \/ belief[i][j].st = "unknown"
           \/ n > belief[i][j].inc /\ a = belief[i][j].addr
           \/ belief[i][j].st = "left" /\ a # belief[i][j].addr
        /\ Believe(i, j, View(n, "alive", a))

Suspect(i, j) ==
    /\ belief[i][j].st = "alive"
    /\ \E n \in belief[i][j].inc..issued[j] :
          Believe(i, j, View(n, "suspect", belief[i][j].addr))

BelieveLeft(i, j) ==
    /\ belief[i][j].st \in {"alive", "suspect"}
    /\ \E n \in announced[j] :
          /\ n >= belief[i][j].inc
          /\ Believe(i, j, View(n, "left", belief[i][j].addr))

\* The process of i ends; the others know nothing of it.
Forget(i) ==
    /\ belief' = [belief EXCEPT ![i] = [j \in Members |-> Unknown]]
    /\ UNCHANGED <<issued, announced>>

Next ==
    \E i \in Members :
        \/ Own(i) \/ Announce(i) \/ Forget(i)
        \/ \E j \in Members : BelieveAlive(i, j) \/ Suspect(i, j) \/ BelieveLeft(i, j)

Spec == Init /\ [][Next]_vars
=============================================================================
