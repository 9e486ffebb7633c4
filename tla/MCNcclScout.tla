---------------------------- MODULE MCNcclScout ----------------------------
(* A few nodes for NcclScout: all alike, or some of another shape.  The    *)
(* fleets, like the symmetry, do not tell the nodes apart.                 *)
EXTENDS NcclScout, TLC

Others(f, s) == Cardinality({h \in Hosts : f[h] = s})

MixedFleets ==
    {f \in [Hosts -> {"A100", "H100", "unknown"}] :
        <<Others(f, "A100"), Others(f, "unknown")>> \in {<<0, 0>>, <<1, 0>>, <<0, 2>>}}

Symmetry == Permutations(Hosts)
=============================================================================
