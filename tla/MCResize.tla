------------------------------ MODULE MCResize ------------------------------
(* A small cluster for Resize, with the command lines worth combining. *)
EXTENDS Resize, TLC

Plain == NoRequest
Adds == [Plain EXCEPT !.number = 1]
Given ==
    {Adds, [Adds EXCEPT !.sweep = TRUE], [Adds EXCEPT !.mode = "remove"],
     [Plain EXCEPT !.mode = "remove", !.number = 2, !.sweep = TRUE, !.force = TRUE],
     [Plain EXCEPT !.mode = "remove_unreachable"],
     [Plain EXCEPT !.mode = "reconfigure"]}
    \union {[Plain EXCEPT !.mode = "remove", !.nodes = S] : S \in kSubset(2, Names)}
    \union {[Plain EXCEPT !.mode = "remove_unreachable", !.nodes = {n}, !.FORCE = TRUE,
                          !.no_reconfigure = TRUE] : n \in Names}
Symmetry == Permutations(Names) \union Permutations(Runs)
=============================================================================
