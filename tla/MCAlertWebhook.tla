--------------------------- MODULE MCAlertWebhook ---------------------------
(* Small instances of AlertWebhook for TLC. *)
EXTENDS AlertWebhook, TLC

CONSTANTS a1, a2, a3, h1, h2

ShortAndLong == [a \in Alerts |-> IF a = a2 THEN 2 ELSE 1]
Symmetry == Permutations(Threads)
=============================================================================
