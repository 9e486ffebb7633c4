---------------------------- MODULE MCTopology ----------------------------
(* Two clusters for Topology, of one and of two nodes; the name of the     *)
(* first is the beginning of that of the second.                           *)
EXTENDS Topology, TLC

CONSTANTS hpc, hpc_big, n1, n2, n3

HomeOf == n1 :> hpc @@ n2 :> hpc_big @@ n3 :> hpc_big
Beginning == {<<hpc, hpc_big>>}
Symmetry == Permutations({n2, n3}) \union Permutations(Plays)
=============================================================================
