---------------------------- MODULE MCMembership ----------------------------
(* Membership with the constants of its TLC runs. *)
EXTENDS Membership

CONSTANTS m1, m2, m3, a1, a2

\* How often each process may be started, and how many incarnation numbers it
\* may issue.
Once == [i \in Members |-> 1]
Twice == [i \in Members |-> 2]
ThriceM1 == [i \in Members |-> IF i = m1 THEN 3 ELSE 1]
TwiceM1 == [i \in Members |-> IF i = m1 THEN 2 ELSE 1]
=============================================================================
