----------------------------- MODULE MCSuspicion -----------------------------
(***************************************************************************)
(* Suspicion for TLC: the table of logarithms.                             *)
(***************************************************************************)
EXTENDS Suspicion

\* 100 * log(i), rounded down.
MCLog == <<0, 69, 109, 138, 160, 179, 194, 207, 219>>
=============================================================================
