---------------------------- MODULE MCValidation ----------------------------
(* A small cluster for Validation: one run of resize.sh at a time. *)
EXTENDS Validation, TLC

Adds == [NoRequest EXCEPT !.number = 1]
Given ==
    {Adds, [Adds EXCEPT !.no_reconfigure = TRUE], [Adds EXCEPT !.mode = "remove", !.sweep = TRUE],
     [Adds EXCEPT !.mode = "remove", !.force = TRUE],
     [NoRequest EXCEPT !.mode = "reconfigure"],
     [NoRequest EXCEPT !.mode = "reconfigure", !.crucial = TRUE]}
    \union {[NoRequest EXCEPT !.mode = "reconfigure", !.nodes = {n}] : n \in Names}
Symmetry == Permutations(Names)
=============================================================================
