------------------------------ MODULE Topology ------------------------------
(***************************************************************************)
(* roles/slurm/tasks/compute.yml and destroy.yml, and                      *)
(* roles/destroy_unreachable/tasks/slurm.yml, when rack_aware is off: the  *)
(* plays of all clusters change the lines of one topology.conf.  A play    *)
(* reads the line of its cluster, computes a new one, and has lineinfile   *)
(* read the whole file and write it back; then it tells Slurm of its nodes *)
(* and has it load the file.  Plays of different clusters know nothing of  *)
(* each other; two of the same one meet when resize.sh is run with FORCE   *)
(* or beside delete_cluster.sh.                                            *)
(***************************************************************************)
EXTENDS Naturals, FiniteSets

CONSTANTS Clusters,   \* cluster_name of each
          Nodes,      \* Slurm names of nodes
          Home,       \* the cluster of a node
          Similar,    \* <<c, d>>: the name of d begins with that of c
          Plays,      \* bound: the playbooks that run at a time
          MaxStarts,  \* bound on the playbooks that are started
          MaxFaults   \* bound on playbooks that break off and refused deletions

ASSUME ClustersAssumption == Clusters # {} /\ Home \in [Nodes -> Clusters]
ASSUME SimilarAssumption == Similar \subseteq Clusters \X Clusters
ASSUME BoundsAssumption == MaxStarts \in Nat /\ MaxFaults \in Nat

Own(c) == {n \in Nodes : Home[n] = c}
Lines == [Clusters -> SUBSET Nodes]
NoLines == [c \in Clusters |-> {}]

VARIABLES
  file,      \* topology.conf: the nodes of a cluster's line, {} without one
  loaded,    \* what scontrol reconfigure loaded of it
  slurm,     \* the nodes Slurm has
  play,      \* the playbooks at work
  troubled,  \* history: clusters whose plays met, overwrote each other or broke off
  starts, faults

vars == <<file, loaded, slurm, play, troubled, starts, faults>>

Kinds == {"add", "destroy", "unreachable"}
PlayRec ==
    [at : {"idle", "read", "open", "write", "slurm", "reconfigure"}, kind : Kinds,
     cluster : Clusters,      \* cluster_name
     nodes : SUBSET Nodes,    \* nodes_to_add, or the one of unreachable_slurm_nodes
     switch : Clusters,       \* the line it edits
     line : SUBSET Nodes,     \* what it is to become
     copy : Lines]            \* the file as lineinfile has read it

Idle ==
    [at |-> "idle", kind |-> "add", cluster |-> CHOOSE c \in Clusters : TRUE, nodes |-> {},
     switch |-> CHOOSE c \in Clusters : TRUE, line |-> {}, copy |-> NoLines]

Working(p) == play[p].at # "idle"
Moved(p, at) == [play EXCEPT ![p].at = at]

-----------------------------------------------------------------------------
(* grep "SwitchName=c" finds the lines of similar names as well. *)
Matches(c) == {d \in Clusters : file[d] # {} /\ (d = c \/ <<c, d>> \in Similar)}

(* Of several lines scontrol show hostname makes nothing, and without one  *)
(* the grep fails: either way the rescue goes on with no nodes.            *)
LineOf(c) == {n \in Nodes : \E d \in Clusters : Matches(c) = {d} /\ n \in file[d]}

(* A play for some nodes of a cluster begins. *)
Begin(p) ==
    /\ ~Working(p) /\ starts < MaxStarts
    /\ \E k \in Kinds, c \in Clusters : \E S \in SUBSET Own(c) \ {{}} :
         /\ k = "unreachable" => \E n \in S : S = {n}
         /\ play' = [play EXCEPT ![p] =
                [at |-> "read", kind |-> k, cluster |-> c, nodes |-> S, switch |-> c,
                 line |-> {}, copy |-> NoLines]]
         /\ troubled' = IF \E q \in Plays : Working(q) /\ play[q].cluster = c
                        THEN troubled \union {c} ELSE troubled
    /\ starts' = starts + 1
    /\ UNCHANGED <<file, loaded, slurm, faults>>

(* The line a play has decided to write. *)
Edit(r, d, S) == [r EXCEPT !.switch = d, !.line = S, !.at = "open"]

\* Mutant of ReadAdd: the line is replaced, not extended.
ReadAddOnly(p) ==
    /\ play[p].at = "read" /\ play[p].kind = "add"
    /\ play' = [play EXCEPT ![p] = Edit(@, @.cluster, @.nodes)]
    /\ UNCHANGED <<file, loaded, slurm, troubled, starts, faults>>

(* compute.yml: Get nodes from Cluster Switch, with its rescue. *)
ReadAdd(p) ==
    /\ play[p].at = "read" /\ play[p].kind = "add"
    /\ play' = [play EXCEPT ![p] = Edit(@, @.cluster, LineOf(@.cluster) \union @.nodes)]
    /\ UNCHANGED <<file, loaded, slurm, troubled, starts, faults>>

(* destroy.yml: Get nodes from Cluster Switch, Get new cluster_list.  The  *)
(* state=future before it takes no node away.                              *)
ReadDestroy(p) ==
    /\ play[p].at = "read" /\ play[p].kind = "destroy"
    /\ play' = [play EXCEPT ![p] = Edit(@, @.cluster, LineOf(@.cluster) \ @.nodes)]
    /\ UNCHANGED <<file, loaded, slurm, troubled, starts, faults>>

(* slurm.yml asks Slurm, not the file, for the switch of the node, and     *)
(* edits nothing without one.                                              *)
Switches(S) == {d \in Clusters : S \intersect loaded[d] # {}}
ReadUnreachable(p) ==
    LET S == Switches(play[p].nodes) IN
    /\ play[p].at = "read" /\ play[p].kind = "unreachable"
    /\ \/ S = {} /\ play' = Moved(p, "slurm")
       \/ \E d \in S : /\ S = {d}
                       /\ play' = [play EXCEPT ![p] = Edit(@, d, loaded[d] \ @.nodes)]
    /\ UNCHANGED <<file, loaded, slurm, troubled, starts, faults>>

(* A node on two switches, where similar names can put it: the first task  *)
(* fails.                                                                  *)
TwoSwitches(p) ==
    /\ play[p].at = "read" /\ play[p].kind = "unreachable"
    /\ \E d, e \in Switches(play[p].nodes) : d # e
    /\ play' = [play EXCEPT ![p] = Idle]
    /\ UNCHANGED <<file, loaded, slurm, troubled, starts, faults>>

(* lineinfile reads the file. *)
Open(p) ==
    LET others == {q \in Plays : play[q].at = "write"} IN
    /\ play[p].at = "open"
    /\ play' = [play EXCEPT ![p].copy = file, ![p].at = "write"]
    /\ troubled' = IF others = {} THEN troubled
                   ELSE troubled \union {play[q].switch : q \in others \union {p}}
    /\ UNCHANGED <<file, loaded, slurm, starts, faults>>

\* Mutant of Write: the regular expression is that of the grep.
WriteSimilar(p) ==
    LET r == play[p]
        found == {d \in Clusters : d = r.switch \/ <<r.switch, d>> \in Similar} IN
    /\ r.at = "write"
    /\ file' = [d \in Clusters |-> IF d \in found THEN r.line ELSE r.copy[d]]
    /\ play' = Moved(p, "slurm")
    /\ UNCHANGED <<loaded, slurm, troubled, starts, faults>>

(* It writes the file back, if the line is to change: an empty line goes. *)
Write(p) ==
    LET r == play[p] IN
    /\ r.at = "write"
    /\ file' = IF r.copy[r.switch] = r.line THEN file ELSE [r.copy EXCEPT ![r.switch] = r.line]
    /\ play' = Moved(p, "slurm")
    /\ UNCHANGED <<loaded, slurm, troubled, starts, faults>>

(* slurmd starts and registers its node; scontrol delete nodename. *)
TellSlurm(p) ==
    LET r == play[p] IN
    /\ r.at = "slurm"
    /\ slurm' = IF r.kind = "add" THEN slurm \union r.nodes ELSE slurm \ r.nodes
    /\ play' = Moved(p, "reconfigure")
    /\ UNCHANGED <<file, loaded, troubled, starts, faults>>

(* Slurm refuses to delete some of the nodes, which is ignored. *)
DeleteRefused(p) ==
    LET r == play[p] IN
    /\ r.at = "slurm" /\ r.kind # "add" /\ faults < MaxFaults
    /\ \E S \in SUBSET r.nodes \ {{}} : slurm' = slurm \ (r.nodes \ S)
    /\ play' = Moved(p, "reconfigure")
    /\ troubled' = troubled \union {r.cluster}
    /\ faults' = faults + 1
    /\ UNCHANGED <<file, loaded, starts>>

\* Mutant of Reconfigure: only plays that add nodes have Slurm read the file.
ReconfigureAdds(p) ==
    /\ play[p].at = "reconfigure"
    /\ loaded' = IF play[p].kind = "add" THEN file ELSE loaded
    /\ play' = [play EXCEPT ![p] = Idle]
    /\ UNCHANGED <<file, slurm, troubled, starts, faults>>

Reconfigure(p) ==
    /\ play[p].at = "reconfigure"
    /\ loaded' = file
    /\ play' = [play EXCEPT ![p] = Idle]
    /\ UNCHANGED <<file, slurm, troubled, starts, faults>>

(* A task fails, or timeout 2m of cleanup.sh ends the playbook: it matters *)
(* once the line is written and Slurm does not know.                       *)
BreakOff(p) ==
    LET r == play[p] IN
    /\ Working(p) /\ faults < MaxFaults
    /\ play' = [play EXCEPT ![p] = Idle]
    /\ troubled' = IF r.at \in {"slurm", "reconfigure"} THEN troubled \union {r.cluster, r.switch}
                   ELSE troubled
    /\ faults' = faults + 1
    /\ UNCHANGED <<file, loaded, slurm, starts>>

Init ==
    /\ file = NoLines /\ loaded = NoLines /\ slurm = {}
    /\ play = [p \in Plays |-> Idle]
    /\ troubled = {} /\ starts = 0 /\ faults = 0

Next ==
    \E p \in Plays :
        \/ Begin(p) \/ ReadAdd(p) \/ ReadDestroy(p) \/ ReadUnreachable(p) \/ TwoSwitches(p)
        \/ Open(p) \/ Write(p) \/ TellSlurm(p) \/ DeleteRefused(p) \/ Reconfigure(p) \/ BreakOff(p)

Spec == Init /\ [][Next]_vars

-----------------------------------------------------------------------------
(* Properties *)

(* TypeOK: the types of the variables, and that a line about to be written *)
(* has the nodes a play adds and none that it takes away.                  *)
Decided(r) ==
    r.at \in {"open", "write"} =>
        IF r.kind = "add" THEN r.nodes \subseteq r.line ELSE r.nodes \intersect r.line = {}
TypeOK ==
    /\ file \in Lines /\ loaded \in Lines /\ slurm \subseteq Nodes
    /\ play \in [Plays -> PlayRec]
    /\ \A p \in Plays : Decided(play[p])
    /\ troubled \subseteq Clusters
    /\ starts \in Nat /\ faults \in Nat

(* The name of a cluster begins no other's. *)
Distinct(c) == \A d \in Clusters : <<c, d>> \in Similar => d = c

(* However the plays overlap, break off or overwrite each other's lines,   *)
(* a cluster whose name begins no other's has only nodes of its own on its *)
(* switch (compute.yml:107).                                               *)
OwnNodesOnly ==
    \A c \in Clusters : Distinct(c) => file[c] \union loaded[c] \subseteq Own(c)

(* Whatever plays of other clusters do to the one file meanwhile, a        *)
(* cluster at rest has its line, what Slurm loaded of it and the nodes     *)
(* Slurm has of it agree, unless its own plays met, lineinfile of two      *)
(* plays did, or one of them broke off (compute.yml:104).                  *)
SwitchesAgree ==
    \A c \in Clusters \ troubled :
        (Distinct(c) /\ \A p \in Plays : Working(p) => play[p].cluster # c)
        => file[c] = loaded[c] /\ file[c] = slurm \intersect Own(c)

(* A node leaves its switch only by a play that is to take it away, under  *)
(* the same conditions (destroy.yml:72, slurm.yml:78).                     *)
Leaving(c) ==
    UNION {play[p].nodes : p \in {q \in Plays : play[q].cluster = c /\ play[q].kind # "add"}}
OnlyTargetsLeave ==
    [][\A c \in Clusters \ troubled : Distinct(c) => file[c] \ file'[c] \subseteq Leaving(c)]_vars
=============================================================================
