--------------------------- MODULE TopologyProofs ---------------------------
(***************************************************************************)
(* Theorems about Topology, for any clusters, nodes, names and plays.      *)
(* OwnNodesOnly and SwitchesAgree are invariants, and OnlyTargetsLeave an  *)
(* action property.  IInv adds to SwitchesAgree what a play at work on a   *)
(* cluster has found and will leave (Phase), that a file read by lineinfile *)
(* is still the file on disk as far as untroubled clusters go (CopyInv),   *)
(* and that two plays with the file in hand are both troubled (LoneInv).   *)
(***************************************************************************)
EXTENDS Topology, TLAPS

OwnPlay(r) ==
    /\ r.nodes \subseteq Own(r.cluster)
    /\ Distinct(r.switch) => r.switch = r.cluster
    /\ r.at = "read" => r.switch = r.cluster
    /\ r.at \in {"open", "write"} /\ Distinct(r.switch) => r.line \subseteq Own(r.switch)
    /\ r.at = "write" => \A c \in Clusters : Distinct(c) => r.copy[c] \subseteq Own(c)
OwnInv == OwnNodesOnly /\ \A p \in Plays : OwnPlay(play[p])

Target(r, S) == IF r.kind = "add" THEN S \union r.nodes ELSE S \ r.nodes
On(r, c) == r.at # "idle" /\ r.cluster = c
Before(c) == file[c] = loaded[c] /\ file[c] = slurm \intersect Own(c)
Phase(r, c) ==
    /\ r.at \in {"read", "open", "write"} => Before(c)
    /\ r.at \in {"open", "write"} =>
          IF r.switch = c THEN r.line = Target(r, file[c]) ELSE Target(r, file[c]) = file[c]
    /\ r.at = "slurm" => file[c] = Target(r, slurm \intersect Own(c))
    /\ r.at = "reconfigure" => file[c] = slurm \intersect Own(c)

Alone(c) == \A p, q \in Plays : On(play[p], c) /\ On(play[q], c) => p = q
AtRest(c) == (\A p \in Plays : ~On(play[p], c)) => Before(c)
AtWork(c) == \A p \in Plays : On(play[p], c) => Phase(play[p], c)
AgreeInv == \A c \in Clusters \ troubled : Distinct(c) => Alone(c) /\ AtRest(c) /\ AtWork(c)

CopyInv ==
    \A c \in Clusters \ troubled : Distinct(c) =>
        \A p \in Plays : play[p].at = "write" => play[p].copy[c] = file[c]
LoneInv ==
    \A p, q \in Plays :
        p # q /\ play[p].at = "write" /\ play[q].at = "write" => play[p].switch \in troubled

IInv == TypeOK /\ OwnInv /\ AgreeInv /\ CopyInv /\ LoneInv

Step(p) ==
    \/ Begin(p) \/ ReadAdd(p) \/ ReadDestroy(p) \/ ReadUnreachable(p) \/ TwoSwitches(p)
    \/ Open(p) \/ Write(p) \/ TellSlurm(p) \/ DeleteRefused(p) \/ Reconfigure(p) \/ BreakOff(p)

-----------------------------------------------------------------------------
(* Types *)

LEMMA IdleType == Idle \in PlayRec /\ Idle.at = "idle" /\ Idle.nodes = {}
                  /\ Idle.switch = Idle.cluster
  BY ClustersAssumption DEF Idle, PlayRec, Kinds, Lines, NoLines

LEMMA InitTypes == Init => TypeOK
  BY IdleType DEF Init, TypeOK, Lines, NoLines, Decided

LEMMA LineType == ASSUME NEW c \in Clusters PROVE LineOf(c) \subseteq Nodes
  BY DEF LineOf

(* What a step makes of the play that takes it, and that it leaves the     *)
(* others alone.                                                           *)
Becomes(p, R) ==
    /\ R \in PlayRec /\ Decided(R)
    /\ play'[p] = R
    /\ \A q \in Plays : q # p => play'[q] = play[q]
    /\ play' \in [Plays -> PlayRec]

LEMMA Change ==
    ASSUME TypeOK, NEW p \in Plays, NEW R \in PlayRec, Decided(R), play' = [play EXCEPT ![p] = R]
    PROVE  Becomes(p, R)
  BY DEF TypeOK, Becomes

LEMMA BecomesTypes ==
    ASSUME TypeOK, NEW p \in Plays, NEW R, Becomes(p, R)
    PROVE  (\A q \in Plays : Decided(play[q]))'
  BY DEF Becomes, TypeOK

(* Only the place changes. *)
LEMMA MovedOn ==
    ASSUME TypeOK, NEW p \in Plays, NEW a, a \in {"slurm", "reconfigure"}, play' = Moved(p, a)
    PROVE  \E R \in PlayRec :
              /\ Becomes(p, R)
              /\ R.at = a /\ R.kind = play[p].kind /\ R.cluster = play[p].cluster
              /\ R.nodes = play[p].nodes /\ R.switch = play[p].switch
<1> DEFINE R == [play[p] EXCEPT !.at = a]
<1>1. play[p] \in PlayRec  BY DEF TypeOK
<1>2. R \in PlayRec /\ R.at = a /\ R.kind = play[p].kind /\ R.cluster = play[p].cluster
      /\ R.nodes = play[p].nodes /\ R.switch = play[p].switch
  BY <1>1 DEF PlayRec
<1>3. play' = [play EXCEPT ![p] = R]  BY DEF Moved
<1>4. Decided(R)  BY <1>2 DEF Decided
<1> HIDE DEF R
<1>5. Becomes(p, R)  BY <1>2, <1>3, <1>4, Change
<1> QED  BY <1>2, <1>5

(* The line to be written is chosen. *)
LEMMA Edited ==
    ASSUME TypeOK, NEW p \in Plays
    PROVE  \A d \in Clusters : \A L \in SUBSET Nodes :
              (IF play[p].kind = "add" THEN play[p].nodes \subseteq L
               ELSE play[p].nodes \intersect L = {})
              => LET R == Edit(play[p], d, L) IN
                 /\ R \in PlayRec /\ Decided(R)
                 /\ R.at = "open" /\ R.kind = play[p].kind /\ R.cluster = play[p].cluster
                 /\ R.nodes = play[p].nodes /\ R.switch = d /\ R.line = L
<1>1. play[p] \in PlayRec  BY DEF TypeOK
<1> TAKE d \in Clusters
<1> TAKE L \in SUBSET Nodes
<1> HAVE IF play[p].kind = "add" THEN play[p].nodes \subseteq L
         ELSE play[p].nodes \intersect L = {}
<1> DEFINE R == Edit(play[p], d, L)
<1>2. R \in PlayRec /\ R.at = "open" /\ R.kind = play[p].kind /\ R.cluster = play[p].cluster
      /\ R.nodes = play[p].nodes /\ R.switch = d /\ R.line = L
  BY <1>1 DEF PlayRec, Edit
<1>3. Decided(R)
  <2> HIDE DEF R
  <2> QED  BY <1>2 DEF Decided
<1> QED  BY <1>2, <1>3

(* The file is read. *)
LEMMA FileCopied ==
    ASSUME TypeOK, NEW p \in Plays, play[p].at = "open",
           play' = [play EXCEPT ![p].copy = file, ![p].at = "write"]
    PROVE  \E R \in PlayRec :
              /\ Becomes(p, R)
              /\ R.at = "write" /\ R.kind = play[p].kind /\ R.cluster = play[p].cluster
              /\ R.nodes = play[p].nodes /\ R.switch = play[p].switch
              /\ R.line = play[p].line /\ R.copy = file
<1> DEFINE R == [play[p] EXCEPT !.copy = file, !.at = "write"]
<1>1. play[p] \in PlayRec /\ file \in Lines /\ Decided(play[p])  BY DEF TypeOK
<1>2. R \in PlayRec /\ R.at = "write" /\ R.kind = play[p].kind /\ R.cluster = play[p].cluster
      /\ R.nodes = play[p].nodes /\ R.switch = play[p].switch
      /\ R.line = play[p].line /\ R.copy = file
  BY <1>1 DEF PlayRec
<1>3. play' = [play EXCEPT ![p] = R]  OBVIOUS
<1>4. Decided(R)  BY <1>1, <1>2 DEF Decided
<1> HIDE DEF R
<1>5. Becomes(p, R)  BY <1>2, <1>3, <1>4, Change
<1> QED  BY <1>2, <1>5

(* The play ends. *)
LEMMA Ends ==
    ASSUME TypeOK, NEW p \in Plays, play' = [play EXCEPT ![p] = Idle]
    PROVE  Becomes(p, Idle)
<1>1. Decided(Idle)  BY IdleType DEF Decided
<1> QED  BY <1>1, IdleType, Change

-----------------------------------------------------------------------------
(* How SwitchesAgree is kept for one cluster *)

(* What a play has found remains true while its line and the nodes Slurm   *)
(* has of the cluster stay, even if Slurm loads the file.                  *)
LEMMA StillPhase ==
    ASSUME NEW c, NEW r, file'[c] = file[c], slurm' \intersect Own(c) = slurm \intersect Own(c),
           loaded'[c] = loaded[c] \/ loaded'[c] = file[c]
    PROVE  (Phase(r, c) => Phase(r, c)') /\ (Before(c) => Before(c)')
<1>1. Before(c) => Before(c)'  BY DEF Before
<1>2. Own(c)' = Own(c)  BY DEF Own
<1>3. Target(r, file[c])' = Target(r, file[c])  BY DEF Target
<1>4. Target(r, slurm \intersect Own(c))' = Target(r, slurm \intersect Own(c))
  BY <1>2 DEF Target
<1> QED  BY <1>1, <1>2, <1>3, <1>4 DEF Phase

(* A step of a play of another cluster. *)
LEMMA Elsewhere ==
    ASSUME NEW c \in Clusters, NEW p \in Plays, NEW R, Becomes(p, R),
           ~On(play[p], c), ~On(R, c), Alone(c), AtRest(c), AtWork(c),
           file'[c] = file[c], slurm' \intersect Own(c) = slurm \intersect Own(c),
           loaded'[c] = loaded[c] \/ loaded'[c] = file[c]
    PROVE  Alone(c)' /\ AtRest(c)' /\ AtWork(c)'
<1>1. \A q \in Plays : On(play'[q], c) => On(play[q], c) /\ q # p /\ play'[q] = play[q]
  BY DEF Becomes
<1>2. \A q \in Plays : On(play[q], c) => On(play'[q], c)  BY DEF Becomes
<1>3. Alone(c)'  BY <1>1 DEF Alone, On
<1>4. AtRest(c)'  BY <1>2, StillPhase DEF AtRest, On
<1>5. AtWork(c)'
  <2> SUFFICES ASSUME NEW q \in Plays, On(play'[q], c) PROVE Phase(play[q], c)'
    BY DEF AtWork, On
  <2>1. play'[q] = play[q] /\ Phase(play[q], c)  BY <1>1 DEF AtWork
  <2>2. ASSUME NEW r, r = play[q] PROVE Phase(r, c) => Phase(r, c)'  BY StillPhase
  <2>3. \A r : r = play[q] => (Phase(r, c) => Phase(r, c)')  BY <2>2
  <2> QED  BY <2>1, <2>3 DEF Phase, Before, Target
<1> QED  BY <1>3, <1>4, <1>5

(* A step of the only play of the cluster. *)
LEMMA Here ==
    ASSUME NEW c \in Clusters, NEW p \in Plays, NEW R, Becomes(p, R),
           \A q \in Plays : q # p => ~On(play[q], c),
           On(R, c) => Phase(R, c)', ~On(R, c) => Before(c)'
    PROVE  Alone(c)' /\ AtRest(c)' /\ AtWork(c)'
<1>1. \A q \in Plays : On(play'[q], c) => q = p  BY DEF Becomes
<1>2. Alone(c)'  BY <1>1 DEF Alone, On
<1>3. AtRest(c)'  BY DEF AtRest, On, Becomes
<1>4. AtWork(c)'  BY <1>1 DEF AtWork, On, Becomes, Phase, Target
<1> QED  BY <1>2, <1>3, <1>4

(* Both together, for a step that changes neither the files nor Slurm's    *)
(* nodes, by a play that is still on the cluster it was on.                *)
LEMMA Onward ==
    ASSUME TypeOK, AgreeInv, NEW p \in Plays, NEW R, Becomes(p, R), play[p].at # "idle",
           R.cluster = play[p].cluster, troubled \subseteq troubled',
           \A c \in Clusters \ troubled' : Distinct(c) /\ c # play[p].cluster =>
              /\ file'[c] = file[c] /\ slurm' \intersect Own(c) = slurm \intersect Own(c)
              /\ loaded'[c] = loaded[c] \/ loaded'[c] = file[c],
           \A c \in Clusters \ troubled' :
              Distinct(c) /\ c = play[p].cluster /\ Phase(play[p], c)
              => IF R.at = "idle" THEN Before(c)' ELSE Phase(R, c)'
    PROVE  AgreeInv'
<1> SUFFICES ASSUME NEW c \in Clusters, c \notin troubled', Distinct(c)
             PROVE  Alone(c)' /\ AtRest(c)' /\ AtWork(c)'
  BY DEF AgreeInv, Distinct
<1>1. Alone(c) /\ AtRest(c) /\ AtWork(c)  BY DEF AgreeInv
<1>2. CASE c # play[p].cluster
  <2>1. ~On(play[p], c) /\ ~On(R, c)  BY <1>2 DEF On
  <2> QED  BY <1>1, <1>2, <2>1, Elsewhere
<1>3. CASE c = play[p].cluster
  <2>1. On(play[p], c)  BY <1>3 DEF On
  <2>2. Phase(play[p], c)  BY <1>1, <2>1 DEF AtWork
  <2>3. \A q \in Plays : q # p => ~On(play[q], c)  BY <1>1, <2>1 DEF Alone
  <2>4. IF R.at = "idle" THEN Before(c)' ELSE Phase(R, c)'  BY <1>3, <2>2
  <2>5. On(R, c) => Phase(R, c)'  BY <2>4 DEF On
  <2>6. ~On(R, c) => Before(c)'  BY <1>3, <2>4 DEF On
  <2> QED  BY <2>3, <2>5, <2>6, Here
<1> QED  BY <1>2, <1>3

(* The other parts, for a step that leaves the files alone and does not    *)
(* read them.                                                              *)
LEMMA Quietly ==
    ASSUME TypeOK, OwnInv, CopyInv, LoneInv, NEW p \in Plays, NEW R, Becomes(p, R),
           R.at # "write", OwnPlay(R), troubled \subseteq troubled', file' = file,
           loaded' = loaded \/ loaded' = file
    PROVE  OwnInv' /\ CopyInv' /\ LoneInv'
<1>1. OwnInv'
  <2>1. \A q \in Plays : OwnPlay(play'[q])  BY DEF OwnInv, Becomes
  <2>2. (\A q \in Plays : OwnPlay(play[q]))'  BY <2>1 DEF OwnPlay, Own, Distinct
  <2>3. OwnNodesOnly'  BY DEF OwnInv, OwnNodesOnly, Own, Distinct
  <2> QED  BY <2>2, <2>3 DEF OwnInv
<1>2. \A q \in Plays : play'[q].at = "write" => q # p /\ play'[q] = play[q]
  BY DEF Becomes
<1>3. CopyInv'  BY <1>2 DEF CopyInv, Distinct
<1>4. LoneInv'  BY <1>2 DEF LoneInv
<1> QED  BY <1>1, <1>3, <1>4

-----------------------------------------------------------------------------
(* The steps *)

LEMMA BeginKeeps == ASSUME IInv, NEW p \in Plays, Begin(p) PROVE IInv'
<1> USE DEF IInv
<1>1. PICK k \in Kinds, c \in Clusters : \E S \in SUBSET Own(c) \ {{}} :
         /\ play' = [play EXCEPT ![p] =
                [at |-> "read", kind |-> k, cluster |-> c, nodes |-> S, switch |-> c,
                 line |-> {}, copy |-> NoLines]]
         /\ troubled' = IF \E q \in Plays : Working(q) /\ play[q].cluster = c
                        THEN troubled \union {c} ELSE troubled
  BY DEF Begin
<1>2. PICK S \in SUBSET Own(c) :
         /\ play' = [play EXCEPT ![p] =
                [at |-> "read", kind |-> k, cluster |-> c, nodes |-> S, switch |-> c,
                 line |-> {}, copy |-> NoLines]]
         /\ troubled' = IF \E q \in Plays : Working(q) /\ play[q].cluster = c
                        THEN troubled \union {c} ELSE troubled
  BY <1>1
<1> DEFINE R == [at |-> "read", kind |-> k, cluster |-> c, nodes |-> S, switch |-> c,
                 line |-> {}, copy |-> NoLines]
<1>3. R \in PlayRec /\ R.at = "read" /\ R.cluster = c /\ R.nodes = S /\ R.switch = c
  BY DEF PlayRec, Own, Lines, NoLines
<1>4. play' = [play EXCEPT ![p] = R]  BY <1>2
<1>5. Decided(R) /\ OwnPlay(R)  BY <1>3 DEF Decided, OwnPlay
<1> HIDE DEF R
<1>6. Becomes(p, R)  BY <1>3, <1>4, <1>5, Change
<1>7. troubled \subseteq troubled' /\ troubled' \subseteq Clusters  BY <1>2 DEF TypeOK
<1>8. UNCHANGED <<file, loaded, slurm, faults>> /\ starts' \in Nat /\ play[p].at = "idle"
  BY DEF Begin, TypeOK, Working
<1>9. TypeOK'  BY <1>6, <1>7, <1>8, BecomesTypes DEF TypeOK, Becomes
<1>10. OwnInv' /\ CopyInv' /\ LoneInv'  BY <1>3, <1>5, <1>6, <1>7, <1>8, Quietly
<1>11. AgreeInv'
  <2> SUFFICES ASSUME NEW d \in Clusters, d \notin troubled', Distinct(d)
               PROVE  Alone(d)' /\ AtRest(d)' /\ AtWork(d)'
    BY DEF AgreeInv, Distinct
  <2>1. Alone(d) /\ AtRest(d) /\ AtWork(d)  BY <1>7 DEF AgreeInv
  <2>2. CASE d # c
    <3>1. ~On(play[p], d) /\ ~On(R, d)  BY <1>3, <1>8, <2>2 DEF On
    <3> QED  BY <1>6, <1>8, <2>1, <3>1, Elsewhere
  <2>3. CASE d = c
    <3>1. \A q \in Plays : ~On(play[q], d)  BY <1>2, <2>3 DEF On, Working
    <3>2. Before(d)'  BY <1>8, <2>1, <3>1 DEF AtRest, Before, Own
    <3>3. Phase(R, d)'  BY <1>3, <3>2 DEF Phase
    <3> QED  BY <1>6, <3>1, <3>2, <3>3, Here
  <2> QED  BY <2>2, <2>3
<1> QED  BY <1>9, <1>10, <1>11

(* For a name that begins no other, grep finds the right line or none. *)
LEMMA DistinctLine ==
    ASSUME TypeOK, NEW c \in Clusters, Distinct(c) PROVE LineOf(c) = file[c]
<1>1. file[c] \subseteq Nodes  BY DEF TypeOK, Lines
<1>2. CASE file[c] = {}
  <2>1. Matches(c) = {}  BY <1>2 DEF Matches, Distinct
  <2> QED  BY <1>2, <2>1 DEF LineOf
<1>3. CASE file[c] # {}
  <2>1. Matches(c) = {c}  BY <1>3 DEF Matches, Distinct
  <2> QED  BY <1>1, <2>1 DEF LineOf
<1> QED  BY <1>2, <1>3

(* A reading of the cluster's own line, by a play that adds or takes away. *)
LEMMA ReadKeeps ==
    ASSUME IInv, NEW p \in Plays, play[p].at = "read", NEW R,
           R = Edit(play[p], play[p].cluster, Target(play[p], LineOf(play[p].cluster))),
           play' = [play EXCEPT ![p] = R],
           UNCHANGED <<file, loaded, slurm, troubled, starts, faults>>
    PROVE  IInv'
<1> USE DEF IInv
<1> DEFINE L == Target(play[p], LineOf(play[p].cluster))
<1>1. play[p] \in PlayRec /\ OwnPlay(play[p])  BY DEF TypeOK, OwnInv
<1>2. play[p].cluster \in Clusters  BY <1>1 DEF PlayRec
<1>3. /\ R \in PlayRec /\ Becomes(p, R)
      /\ R.at = "open" /\ R.kind = play[p].kind /\ R.cluster = play[p].cluster
      /\ R.nodes = play[p].nodes /\ R.switch = play[p].cluster /\ R.line = L
  <2>1. LineOf(play[p].cluster) \subseteq Nodes  BY <1>2, LineType
  <2>2. L \in SUBSET Nodes  BY <1>1, <2>1 DEF Target, PlayRec
  <2>3. IF play[p].kind = "add" THEN play[p].nodes \subseteq L
        ELSE play[p].nodes \intersect L = {}
    BY DEF Target
  <2> HIDE DEF L
  <2>4. R = Edit(play[p], play[p].cluster, L)  BY DEF L
  <2>5. /\ R \in PlayRec /\ Decided(R)
        /\ R.at = "open" /\ R.kind = play[p].kind /\ R.cluster = play[p].cluster
        /\ R.nodes = play[p].nodes /\ R.switch = play[p].cluster /\ R.line = L
    BY <1>2, <2>2, <2>3, <2>4, Edited
  <2>6. Becomes(p, R)  BY <2>5, Change
  <2> QED  BY <2>5, <2>6
<1>4. R.switch = R.cluster  BY <1>1, <1>3 DEF OwnPlay
<1>5. TypeOK'  BY <1>3, BecomesTypes DEF TypeOK, Becomes
<1>6. OwnPlay(R)
  <2>1. ASSUME Distinct(R.switch) PROVE R.line \subseteq Own(R.switch)
    <3>1. LineOf(R.cluster) = file[R.cluster]  BY <1>2, <1>3, <1>4, <2>1, DistinctLine
    <3>2. file[R.cluster] \subseteq Own(R.cluster)
      BY <1>2, <1>3, <1>4, <2>1 DEF OwnInv, OwnNodesOnly
    <3>3. R.nodes \subseteq Own(R.cluster)  BY <1>1, <1>3 DEF OwnPlay
    <3> QED  BY <1>3, <1>4, <3>1, <3>2, <3>3 DEF Target
  <2> QED  BY <1>1, <1>3, <1>4, <2>1 DEF OwnPlay
<1>7. OwnInv' /\ CopyInv' /\ LoneInv'  BY <1>3, <1>6, Quietly
<1>8. \A c \in Clusters \ troubled' :
         Distinct(c) /\ c = play[p].cluster /\ Phase(play[p], c)
         => IF R.at = "idle" THEN Before(c)' ELSE Phase(R, c)'
  <2> SUFFICES ASSUME NEW c \in Clusters, Distinct(c), c = play[p].cluster, Phase(play[p], c)
               PROVE  Phase(R, c)'
    BY <1>3
  <2>1. Before(c) /\ Before(c)'  BY DEF Phase, Before, Own
  <2>2. R.line = Target(R, file[c])  BY <1>3, DistinctLine DEF Target
  <2>3. Target(R, file[c])' = Target(R, file[c])  BY DEF Target
  <2> QED  BY <1>3, <1>4, <2>1, <2>2, <2>3 DEF Phase
<1>9. AgreeInv'  BY <1>3, <1>8, Onward
<1> QED  BY <1>5, <1>7, <1>9

LEMMA ReadAddKeeps == ASSUME IInv, NEW p \in Plays, ReadAdd(p) PROVE IInv'
  BY ReadKeeps DEF ReadAdd, Target

LEMMA ReadDestroyKeeps == ASSUME IInv, NEW p \in Plays, ReadDestroy(p) PROVE IInv'
  BY ReadKeeps DEF ReadDestroy, Target

(* A node is removed by what Slurm loaded, which is what the file says. *)
LEMMA ReadUnreachableKeeps == ASSUME IInv, NEW p \in Plays, ReadUnreachable(p) PROVE IInv'
<1> USE DEF IInv
<1> DEFINE S == Switches(play[p].nodes)
<1>1. play[p] \in PlayRec /\ OwnPlay(play[p])  BY DEF TypeOK, OwnInv
<1>2. /\ play[p].at = "read" /\ play[p].kind = "unreachable"
      /\ UNCHANGED <<file, loaded, slurm, troubled, starts, faults>>
  BY DEF ReadUnreachable
<1>3. CASE S = {} /\ play' = Moved(p, "slurm")
  <2>1. PICK R \in PlayRec :
           /\ Becomes(p, R)
           /\ R.at = "slurm" /\ R.kind = play[p].kind /\ R.cluster = play[p].cluster
           /\ R.nodes = play[p].nodes /\ R.switch = play[p].switch
    BY <1>3, MovedOn
  <2>2. TypeOK'  BY <1>2, <2>1, BecomesTypes DEF TypeOK, Becomes
  <2>3. OwnPlay(R)  BY <1>1, <2>1 DEF OwnPlay
  <2>4. OwnInv' /\ CopyInv' /\ LoneInv'  BY <1>2, <2>1, <2>3, Quietly
  <2>5. ASSUME NEW c \in Clusters, Distinct(c), c = play[p].cluster, Phase(play[p], c)
        PROVE  Phase(R, c)'
    <3>1. Before(c) /\ loaded[c] \intersect play[p].nodes = {}
      BY <1>2, <1>3, <2>5 DEF Phase, Switches
    <3>2. file[c] = (slurm \intersect Own(c)) \ R.nodes  BY <2>1, <3>1 DEF Before
    <3>3. Target(R, slurm \intersect Own(c))' = (slurm \intersect Own(c)) \ R.nodes
      BY <1>2, <2>1 DEF Target, Own
    <3> QED  BY <1>2, <2>1, <3>2, <3>3 DEF Phase
  <2>6. AgreeInv'  BY <1>2, <2>1, <2>5, Onward
  <2> QED  BY <2>2, <2>4, <2>6
<1>4. CASE \E d \in S : /\ S = {d}
                       /\ play' = [play EXCEPT ![p] = Edit(@, d, loaded[d] \ @.nodes)]
  <2>1. PICK d \in Clusters :
           S = {d} /\ play' = [play EXCEPT ![p] = Edit(@, d, loaded[d] \ @.nodes)]
    BY <1>4 DEF Switches
  <2> DEFINE L == loaded[d] \ play[p].nodes
             E == Edit(play[p], d, L)
  <2>2. L \in SUBSET Nodes /\ play[p].nodes \intersect L = {}
    BY DEF TypeOK, Lines
  <2>3. L = loaded[d] \ play[p].nodes  OBVIOUS
  <2> HIDE DEF L
  <2>4. PICK R \in PlayRec :
           /\ Becomes(p, R)
           /\ R.at = "open" /\ R.kind = play[p].kind /\ R.cluster = play[p].cluster
           /\ R.nodes = play[p].nodes /\ R.switch = d /\ R.line = L
    <3>1. /\ E \in PlayRec /\ Decided(E)
          /\ E.at = "open" /\ E.kind = play[p].kind /\ E.cluster = play[p].cluster
          /\ E.nodes = play[p].nodes /\ E.switch = d /\ E.line = L
      BY <1>2, <2>2, Edited
    <3>2. play' = [play EXCEPT ![p] = E]  BY <2>1, <2>3
    <3> HIDE DEF E
    <3>3. Becomes(p, E)  BY <3>1, <3>2, Change
    <3> QED  BY <3>1, <3>3
  <2>5. TypeOK'  BY <1>2, <2>4, BecomesTypes DEF TypeOK, Becomes
  <2>6. d \in S  BY <2>1
  <2>7. ASSUME Distinct(d) PROVE d = play[p].cluster /\ L \subseteq Own(d)
    <3>1. PICK n : n \in loaded[d] /\ n \in play[p].nodes  BY <2>6 DEF Switches
    <3>2. loaded[d] \subseteq Own(d)  BY <2>7 DEF OwnInv, OwnNodesOnly
    <3>3. n \in Own(d) /\ n \in Own(play[p].cluster)  BY <1>1, <3>1, <3>2 DEF OwnPlay
    <3> QED  BY <2>3, <3>2, <3>3 DEF Own
  <2>8. OwnPlay(R)  BY <1>1, <2>4, <2>7 DEF OwnPlay
  <2>9. OwnInv' /\ CopyInv' /\ LoneInv'  BY <1>2, <2>4, <2>8, Quietly
  <2>10. ASSUME NEW c \in Clusters, Distinct(c), c = play[p].cluster, Phase(play[p], c)
         PROVE  Phase(R, c)'
    <3>1. Before(c) /\ Before(c)'  BY <1>2, <2>10 DEF Phase, Before, Own
    <3>2. Target(R, file[c])' = file[c] \ R.nodes  BY <1>2, <2>4 DEF Target
    <3>3. CASE c = d
      <4>1. R.line = file[c] \ R.nodes  BY <2>3, <2>4, <3>1, <3>3 DEF Before
      <4> QED  BY <2>4, <3>1, <3>2, <3>3, <4>1 DEF Phase
    <3>4. CASE c # d
      <4>1. c \notin S  BY <2>1, <3>4
      <4>2. loaded[c] \intersect play[p].nodes = {}  BY <4>1 DEF Switches
      <4>3. Target(R, file[c])' = file[c]  BY <2>4, <3>1, <3>2, <4>2 DEF Before
      <4> QED  BY <1>2, <2>4, <3>1, <3>4, <4>3 DEF Phase
    <3> QED  BY <3>3, <3>4
  <2>11. AgreeInv'  BY <1>2, <2>4, <2>10, Onward
  <2> QED  BY <2>5, <2>9, <2>11
<1> QED  BY <1>3, <1>4 DEF ReadUnreachable

(* A play that ends without having changed anything. *)
LEMMA EndKeeps ==
    ASSUME IInv, NEW p \in Plays, play[p].at \in {"read", "open", "write"},
           play' = [play EXCEPT ![p] = Idle], faults' \in Nat,
           UNCHANGED <<file, loaded, slurm, troubled, starts>>
    PROVE  IInv'
<1> USE DEF IInv
<1>1. Becomes(p, Idle)  BY Ends
<1>2. TypeOK'  BY <1>1, BecomesTypes DEF TypeOK, Becomes
<1>3. OwnPlay(Idle)  BY IdleType DEF OwnPlay
<1>4. OwnInv' /\ CopyInv' /\ LoneInv'  BY <1>1, <1>3, IdleType, Quietly
<1>5. AgreeInv'
  <2> SUFFICES ASSUME NEW c \in Clusters, c \notin troubled', Distinct(c)
               PROVE  Alone(c)' /\ AtRest(c)' /\ AtWork(c)'
    BY DEF AgreeInv, Distinct
  <2>1. Alone(c) /\ AtRest(c) /\ AtWork(c)  BY DEF AgreeInv
  <2>2. ~On(Idle, c)  BY IdleType DEF On
  <2>3. CASE c # play[p].cluster
    <3>1. ~On(play[p], c)  BY <2>3 DEF On
    <3>2. slurm' \intersect Own(c) = slurm \intersect Own(c)  OBVIOUS
    <3> QED  BY <1>1, <2>1, <2>2, <3>1, <3>2, Elsewhere
  <2>4. CASE c = play[p].cluster
    <3>1. On(play[p], c)  BY <2>4 DEF On
    <3>2. Before(c)'  BY <2>1, <3>1 DEF AtWork, Phase, Before, Own
    <3>3. \A q \in Plays : q # p => ~On(play[q], c)  BY <2>1, <3>1 DEF Alone
    <3> QED  BY <1>1, <2>2, <3>2, <3>3, Here
  <2> QED  BY <2>3, <2>4
<1> QED  BY <1>2, <1>4, <1>5

LEMMA TwoSwitchesKeeps == ASSUME IInv, NEW p \in Plays, TwoSwitches(p) PROVE IInv'
  BY EndKeeps DEF TwoSwitches, IInv, TypeOK

(* A play that breaks off where it may have changed something.             *)
LEMMA BreakOffKeeps == ASSUME IInv, NEW p \in Plays, BreakOff(p) PROVE IInv'
<1> USE DEF IInv
<1>1. /\ play[p].at # "idle" /\ play' = [play EXCEPT ![p] = Idle]
      /\ UNCHANGED <<file, loaded, slurm, starts>> /\ faults' \in Nat
      /\ troubled' = IF play[p].at \in {"slurm", "reconfigure"}
                     THEN troubled \union {play[p].cluster, play[p].switch} ELSE troubled
  BY DEF BreakOff, Working, TypeOK
<1>2. play[p] \in PlayRec  BY DEF TypeOK
<1>3. CASE play[p].at \in {"read", "open", "write"}
  BY <1>1, <1>3, EndKeeps
<1>4. CASE play[p].at \in {"slurm", "reconfigure"}
  <2>1. Becomes(p, Idle)  BY <1>1, Ends
  <2>2. troubled \subseteq troubled' /\ troubled' \subseteq Clusters /\ play[p].cluster \in troubled'
    BY <1>1, <1>2, <1>4 DEF TypeOK, PlayRec
  <2>3. TypeOK'  BY <1>1, <2>1, <2>2, BecomesTypes DEF TypeOK, Becomes
  <2>4. OwnPlay(Idle)  BY IdleType DEF OwnPlay
  <2>5. OwnInv' /\ CopyInv' /\ LoneInv'  BY <1>1, <2>1, <2>2, <2>4, IdleType, Quietly
  <2>6. AgreeInv'
    <3> SUFFICES ASSUME NEW c \in Clusters, c \notin troubled', Distinct(c)
                 PROVE  Alone(c)' /\ AtRest(c)' /\ AtWork(c)'
      BY DEF AgreeInv, Distinct
    <3>1. Alone(c) /\ AtRest(c) /\ AtWork(c)  BY <2>2 DEF AgreeInv
    <3>2. ~On(play[p], c) /\ ~On(Idle, c)  BY <2>2, IdleType DEF On
    <3> QED  BY <1>1, <2>1, <3>1, <3>2, Elsewhere
  <2> QED  BY <2>3, <2>5, <2>6
<1> QED  BY <1>1, <1>2, <1>3, <1>4 DEF PlayRec

(* lineinfile reads the file: whoever has it in hand as well is troubled.  *)
LEMMA OpenKeeps == ASSUME IInv, NEW p \in Plays, Open(p) PROVE IInv'
<1> USE DEF IInv
<1> DEFINE others == {q \in Plays : play[q].at = "write"}
<1>1. /\ play[p].at = "open"
      /\ play' = [play EXCEPT ![p].copy = file, ![p].at = "write"]
      /\ troubled' = IF others = {} THEN troubled
                     ELSE troubled \union {play[q].switch : q \in others \union {p}}
      /\ UNCHANGED <<file, loaded, slurm, starts, faults>>
  BY DEF Open
<1>2. \A q \in Plays : play[q] \in PlayRec /\ play[q].switch \in Clusters /\ OwnPlay(play[q])
  BY DEF TypeOK, OwnInv, PlayRec
<1>3. PICK R \in PlayRec :
         /\ Becomes(p, R)
         /\ R.at = "write" /\ R.kind = play[p].kind /\ R.cluster = play[p].cluster
         /\ R.nodes = play[p].nodes /\ R.switch = play[p].switch
         /\ R.line = play[p].line /\ R.copy = file
  BY <1>1, FileCopied
<1>4. troubled \subseteq troubled' /\ troubled' \subseteq Clusters
  BY <1>1, <1>2 DEF TypeOK
<1>5. TypeOK'  BY <1>1, <1>3, <1>4, BecomesTypes DEF TypeOK, Becomes
<1>6. OwnPlay(R)
  <2>1. \A c \in Clusters : Distinct(c) => file[c] \subseteq Own(c)  BY DEF OwnInv, OwnNodesOnly
  <2> QED  BY <1>1, <1>2, <1>3, <2>1 DEF OwnPlay
<1>7. OwnInv'
  <2>1. \A q \in Plays : OwnPlay(play'[q])  BY <1>2, <1>3, <1>6 DEF Becomes
  <2>2. (\A q \in Plays : OwnPlay(play[q]))'  BY <2>1 DEF OwnPlay, Own, Distinct
  <2>3. OwnNodesOnly'  BY <1>1 DEF OwnInv, OwnNodesOnly, Own, Distinct
  <2> QED  BY <2>2, <2>3 DEF OwnInv
<1>8. CopyInv'  BY <1>1, <1>3, <1>4 DEF CopyInv, Distinct, Becomes
<1>9. LoneInv'
  <2> SUFFICES ASSUME NEW q \in Plays, NEW r \in Plays, q # r,
                      play'[q].at = "write", play'[r].at = "write"
               PROVE  play'[q].switch \in troubled'
    BY DEF LoneInv
  <2>1. CASE q # p /\ r # p
    BY <1>3, <1>4, <2>1 DEF LoneInv, Becomes
  <2>2. CASE q = p \/ r = p
    <3>1. others # {}  BY <1>3, <2>2 DEF Becomes
    <3>2. troubled' = troubled \union {play[t].switch : t \in others \union {p}}  BY <1>1, <3>1
    <3>3. q \in others \union {p}  BY <1>3 DEF Becomes
    <3>4. play'[q].switch = play[q].switch  BY <1>3 DEF Becomes
    <3> QED  BY <3>2, <3>3, <3>4
  <2> QED  BY <2>1, <2>2
<1>10. AgreeInv'
  <2>1. ASSUME NEW c \in Clusters, Distinct(c), c = play[p].cluster, Phase(play[p], c)
        PROVE  Phase(R, c)'
    <3>1. Before(c) /\ Before(c)'  BY <1>1, <2>1 DEF Phase, Before, Own
    <3>2. Target(R, file[c])' = Target(play[p], file[c])  BY <1>1, <1>3 DEF Target
    <3> QED  BY <1>1, <1>3, <2>1, <3>1, <3>2 DEF Phase
  <2> QED  BY <1>1, <1>3, <1>4, <2>1, Onward
<1> QED  BY <1>5, <1>7, <1>8, <1>9, <1>10

(* What is written: nothing on lines of other clusters that are not        *)
(* troubled, and the chosen line on its own.                               *)
LEMMA Written ==
    ASSUME IInv, NEW p \in Plays, Write(p)
    PROVE  /\ file' \in Lines
           /\ \A c \in Clusters : Distinct(c) => file'[c] \subseteq Own(c)
           /\ \A c \in Clusters \ troubled : Distinct(c) =>
                 file'[c] = IF play[p].switch = c THEN play[p].line ELSE file[c]
<1> USE DEF IInv
<1>1. /\ play[p] \in PlayRec /\ OwnPlay(play[p]) /\ play[p].at = "write"
      /\ file' = IF play[p].copy[play[p].switch] = play[p].line THEN file
                 ELSE [play[p].copy EXCEPT ![play[p].switch] = play[p].line]
  BY DEF TypeOK, OwnInv, Write
<1>2. /\ play[p].copy \in Lines /\ play[p].switch \in Clusters /\ play[p].line \in SUBSET Nodes
      /\ file \in Lines
  BY <1>1 DEF PlayRec, TypeOK
<1> DEFINE copy == play[p].copy
           s == play[p].switch
           L == play[p].line
<1>3. \A c \in Clusters \ troubled : Distinct(c) => copy[c] = file[c]
  BY <1>1 DEF CopyInv
<1>4. \A c \in Clusters : Distinct(c) => copy[c] \subseteq Own(c) /\ file[c] \subseteq Own(c)
  BY <1>1 DEF OwnPlay, OwnInv, OwnNodesOnly
<1>5. Distinct(s) => L \subseteq Own(s)  BY <1>1 DEF OwnPlay
<1>6. file' = IF copy[s] = L THEN file ELSE [copy EXCEPT ![s] = L]  BY <1>1
<1> HIDE DEF copy, s, L
<1>7. copy \in Lines /\ s \in Clusters /\ L \in SUBSET Nodes  BY <1>2 DEF copy, s, L
<1>8. file' \in Lines  BY <1>2, <1>6, <1>7 DEF Lines
<1>9. \A c \in Clusters : Distinct(c) => file'[c] \subseteq Own(c)
  BY <1>4, <1>5, <1>6, <1>7 DEF Lines
<1>10. \A c \in Clusters \ troubled : Distinct(c) => file'[c] = IF s = c THEN L ELSE file[c]
  BY <1>3, <1>6, <1>7 DEF Lines
<1> QED  BY <1>8, <1>9, <1>10 DEF s, L

LEMMA WriteKeeps == ASSUME IInv, NEW p \in Plays, Write(p) PROVE IInv'
<1> USE DEF IInv
<1>1. /\ play[p].at = "write" /\ play' = Moved(p, "slurm")
      /\ UNCHANGED <<loaded, slurm, troubled, starts, faults>>
  BY DEF Write
<1>2. \A q \in Plays : play[q] \in PlayRec /\ OwnPlay(play[q])  BY DEF TypeOK, OwnInv
<1>3. PICK R \in PlayRec :
         /\ Becomes(p, R)
         /\ R.at = "slurm" /\ R.kind = play[p].kind /\ R.cluster = play[p].cluster
         /\ R.nodes = play[p].nodes /\ R.switch = play[p].switch
  BY <1>1, MovedOn
<1>4. TypeOK'  BY <1>1, <1>3, Written, BecomesTypes DEF TypeOK, Becomes
<1>5. OwnPlay(R)  BY <1>2, <1>3 DEF OwnPlay
<1>6. OwnInv'
  <2>1. \A q \in Plays : OwnPlay(play'[q])  BY <1>2, <1>3, <1>5 DEF Becomes
  <2>2. (\A q \in Plays : OwnPlay(play[q]))'  BY <2>1 DEF OwnPlay, Own, Distinct
  <2>3. OwnNodesOnly'  BY <1>1, Written DEF OwnInv, OwnNodesOnly, Own, Distinct
  <2> QED  BY <2>2, <2>3 DEF OwnInv
<1>7. \A q \in Plays : play'[q].at = "write" => q # p /\ play'[q] = play[q]
  BY <1>3 DEF Becomes
<1>8. CopyInv'
  <2> SUFFICES ASSUME NEW c \in Clusters, c \notin troubled', Distinct(c),
                      NEW q \in Plays, play'[q].at = "write"
               PROVE  play'[q].copy[c] = file'[c]
    BY DEF CopyInv, Distinct
  <2>1. q # p /\ play'[q] = play[q]  BY <1>7
  <2>2. play[q].copy[c] = file[c]  BY <1>1, <2>1 DEF CopyInv
  <2>3. play[p].switch \in troubled  BY <1>1, <2>1 DEF LoneInv
  <2>4. file'[c] = file[c]  BY <1>1, <2>3, Written
  <2> QED  BY <2>1, <2>2, <2>4
<1>9. LoneInv'  BY <1>1, <1>7 DEF LoneInv
<1>10. \A c \in Clusters \ troubled' : Distinct(c) /\ c # play[p].cluster =>
          /\ file'[c] = file[c] /\ slurm' \intersect Own(c) = slurm \intersect Own(c)
          /\ loaded'[c] = loaded[c]
  <2> SUFFICES ASSUME NEW c \in Clusters, c \notin troubled', Distinct(c), c # play[p].cluster
               PROVE  file'[c] = file[c]
    BY <1>1
  <2>1. play[p].switch # c  BY <1>2 DEF OwnPlay
  <2> QED  BY <1>1, <2>1, Written
<1>11. \A c \in Clusters \ troubled' :
          Distinct(c) /\ c = play[p].cluster /\ Phase(play[p], c) => Phase(R, c)'
  <2> SUFFICES ASSUME NEW c \in Clusters, c \notin troubled', Distinct(c),
                      c = play[p].cluster, Phase(play[p], c)
               PROVE  Phase(R, c)'
    OBVIOUS
  <2>1. file[c] = slurm \intersect Own(c)  BY <1>1 DEF Phase, Before
  <2>2. file'[c] = Target(play[p], file[c])  BY <1>1, Written DEF Phase
  <2>3. Target(R, slurm \intersect Own(c))' = Target(play[p], slurm \intersect Own(c))
    BY <1>1, <1>3 DEF Target, Own
  <2> QED  BY <1>3, <2>1, <2>2, <2>3 DEF Phase
<1>12. AgreeInv'  BY <1>1, <1>3, <1>10, <1>11, Onward
<1> QED  BY <1>4, <1>6, <1>8, <1>9, <1>12

LEMMA TellSlurmKeeps == ASSUME IInv, NEW p \in Plays, TellSlurm(p) PROVE IInv'
<1> USE DEF IInv
<1>1. /\ play[p].at = "slurm" /\ play' = Moved(p, "reconfigure")
      /\ slurm' = Target(play[p], slurm)
      /\ UNCHANGED <<file, loaded, troubled, starts, faults>>
  BY DEF TellSlurm, Target
<1>2. play[p] \in PlayRec /\ OwnPlay(play[p])  BY DEF TypeOK, OwnInv
<1>3. PICK R \in PlayRec :
         /\ Becomes(p, R)
         /\ R.at = "reconfigure" /\ R.kind = play[p].kind /\ R.cluster = play[p].cluster
         /\ R.nodes = play[p].nodes /\ R.switch = play[p].switch
  BY <1>1, MovedOn
<1>4. slurm' \subseteq Nodes  BY <1>1, <1>2 DEF Target, TypeOK, PlayRec
<1>5. TypeOK'  BY <1>1, <1>3, <1>4, BecomesTypes DEF TypeOK, Becomes
<1>6. OwnPlay(R)  BY <1>2, <1>3 DEF OwnPlay
<1>7. OwnInv' /\ CopyInv' /\ LoneInv'  BY <1>1, <1>3, <1>6, Quietly
<1>8. play[p].nodes \subseteq Own(play[p].cluster)  BY <1>2 DEF OwnPlay
<1>9. \A c \in Clusters : c # play[p].cluster =>
         slurm' \intersect Own(c) = slurm \intersect Own(c)
  BY <1>1, <1>8 DEF Target, Own
<1>10. \A c \in Clusters : c = play[p].cluster =>
          slurm' \intersect Own(c) = Target(play[p], slurm \intersect Own(c))
  BY <1>1, <1>8 DEF Target
<1>11. \A c \in Clusters \ troubled' :
          Distinct(c) /\ c = play[p].cluster /\ Phase(play[p], c) => Phase(R, c)'
  <2> SUFFICES ASSUME NEW c \in Clusters, c = play[p].cluster, Phase(play[p], c)
               PROVE  Phase(R, c)'
    OBVIOUS
  <2>1. file'[c] = slurm' \intersect Own(c)  BY <1>1, <1>10 DEF Phase
  <2>2. Own(c)' = Own(c)  BY DEF Own
  <2> QED  BY <1>3, <2>1, <2>2 DEF Phase
<1>12. AgreeInv'  BY <1>1, <1>3, <1>9, <1>11, Onward
<1> QED  BY <1>5, <1>7, <1>12

LEMMA DeleteRefusedKeeps == ASSUME IInv, NEW p \in Plays, DeleteRefused(p) PROVE IInv'
<1> USE DEF IInv
<1>1. /\ play[p].at = "slurm" /\ play' = Moved(p, "reconfigure")
      /\ troubled' = troubled \union {play[p].cluster}
      /\ UNCHANGED <<file, loaded, starts>> /\ faults' \in Nat
  BY DEF DeleteRefused, TypeOK
<1>2. PICK S \in SUBSET play[p].nodes : slurm' = slurm \ (play[p].nodes \ S)
  BY DEF DeleteRefused
<1>3. play[p] \in PlayRec /\ OwnPlay(play[p])  BY DEF TypeOK, OwnInv
<1>4. PICK R \in PlayRec :
         /\ Becomes(p, R)
         /\ R.at = "reconfigure" /\ R.kind = play[p].kind /\ R.cluster = play[p].cluster
         /\ R.nodes = play[p].nodes /\ R.switch = play[p].switch
  BY <1>1, MovedOn
<1>5. slurm' \subseteq Nodes /\ troubled' \subseteq Clusters
  BY <1>1, <1>2, <1>3 DEF TypeOK, PlayRec
<1>6. TypeOK'  BY <1>1, <1>4, <1>5, BecomesTypes DEF TypeOK, Becomes
<1>7. OwnPlay(R)  BY <1>3, <1>4 DEF OwnPlay
<1>8. OwnInv' /\ CopyInv' /\ LoneInv'  BY <1>1, <1>4, <1>7, Quietly
<1>9. \A c \in Clusters : c # play[p].cluster =>
         slurm' \intersect Own(c) = slurm \intersect Own(c)
  BY <1>2, <1>3 DEF OwnPlay, Own
<1>10. AgreeInv'  BY <1>1, <1>4, <1>9, Onward
<1> QED  BY <1>6, <1>8, <1>10

LEMMA ReconfigureKeeps == ASSUME IInv, NEW p \in Plays, Reconfigure(p) PROVE IInv'
<1> USE DEF IInv
<1>1. /\ play[p].at = "reconfigure" /\ play' = [play EXCEPT ![p] = Idle] /\ loaded' = file
      /\ UNCHANGED <<file, slurm, troubled, starts, faults>>
  BY DEF Reconfigure
<1>2. Becomes(p, Idle)  BY <1>1, Ends
<1>3. TypeOK'  BY <1>1, <1>2, BecomesTypes DEF TypeOK, Becomes
<1>4. OwnPlay(Idle)  BY IdleType DEF OwnPlay
<1>5. OwnInv' /\ CopyInv' /\ LoneInv'  BY <1>1, <1>2, <1>4, IdleType, Quietly
<1>6. AgreeInv'
  <2> SUFFICES ASSUME NEW c \in Clusters, c \notin troubled', Distinct(c)
               PROVE  Alone(c)' /\ AtRest(c)' /\ AtWork(c)'
    BY DEF AgreeInv, Distinct
  <2>1. Alone(c) /\ AtRest(c) /\ AtWork(c)  BY <1>1 DEF AgreeInv
  <2>2. ~On(Idle, c)  BY IdleType DEF On
  <2>3. CASE c # play[p].cluster
    <3>1. ~On(play[p], c)  BY <2>3 DEF On
    <3>2. slurm' \intersect Own(c) = slurm \intersect Own(c)  BY <1>1
    <3> QED  BY <1>1, <1>2, <2>1, <2>2, <3>1, <3>2, Elsewhere
  <2>4. CASE c = play[p].cluster
    <3>1. On(play[p], c)  BY <1>1, <2>4 DEF On
    <3>2. file[c] = slurm \intersect Own(c)  BY <1>1, <2>1, <3>1 DEF AtWork, Phase
    <3>3. Before(c)'  BY <1>1, <3>2 DEF Before, Own
    <3>4. \A q \in Plays : q # p => ~On(play[q], c)  BY <2>1, <3>1 DEF Alone
    <3> QED  BY <1>2, <2>2, <3>3, <3>4, Here
  <2> QED  BY <2>3, <2>4
<1> QED  BY <1>3, <1>5, <1>6

-----------------------------------------------------------------------------
LEMMA InitHolds == Init => IInv
<1> SUFFICES ASSUME Init PROVE IInv  OBVIOUS
<1>1. \A p \in Plays : play[p] = Idle  BY DEF Init
<1>2. OwnInv  BY <1>1, IdleType DEF Init, OwnInv, OwnNodesOnly, OwnPlay, NoLines
<1>3. AgreeInv
  BY <1>1, IdleType DEF Init, AgreeInv, Alone, AtRest, AtWork, On, Before, NoLines
<1>4. CopyInv /\ LoneInv  BY <1>1, IdleType DEF CopyInv, LoneInv
<1> QED  BY <1>2, <1>3, <1>4, InitTypes DEF IInv

LEMMA StepKeeps == IInv /\ [Next]_vars => IInv'
<1> SUFFICES ASSUME IInv, [Next]_vars PROVE IInv'  OBVIOUS
<1>1. CASE Next
  <2> SUFFICES ASSUME NEW p \in Plays, Step(p) PROVE IInv'
    BY <1>1 DEF Next, Step
  <2> QED
    BY BeginKeeps, ReadAddKeeps, ReadDestroyKeeps, ReadUnreachableKeeps, TwoSwitchesKeeps,
       OpenKeeps, WriteKeeps, TellSlurmKeeps, DeleteRefusedKeeps, ReconfigureKeeps,
       BreakOffKeeps DEF Step
<1>2. CASE UNCHANGED vars
  <2> USE <1>2 DEF vars, IInv
  <2>1. TypeOK'  BY DEF TypeOK, Decided
  <2>2. OwnInv'  BY DEF OwnInv, OwnNodesOnly, OwnPlay, Own, Distinct
  <2>3. AgreeInv'
    <3> SUFFICES ASSUME NEW c \in Clusters, c \notin troubled', Distinct(c)
                 PROVE  Alone(c)' /\ AtRest(c)' /\ AtWork(c)'
      BY DEF AgreeInv, Distinct
    <3>1. Alone(c) /\ AtRest(c) /\ AtWork(c)  BY DEF AgreeInv
    <3>2. Alone(c)'  BY <3>1 DEF Alone, On
    <3>3. AtRest(c)'  BY <3>1 DEF AtRest, On, Before, Own
    <3>4. \A r : Phase(r, c) => Phase(r, c)'
      BY StillPhase DEF Own
    <3>5. AtWork(c)'  BY <3>1, <3>4 DEF AtWork, On, Phase, Target, Before
    <3> QED  BY <3>2, <3>3, <3>5
  <2>4. CopyInv' /\ LoneInv'  BY DEF CopyInv, LoneInv, Distinct
  <2> QED  BY <2>1, <2>2, <2>3, <2>4
<1> QED  BY <1>1, <1>2

LEMMA Invariance == Spec => []IInv
  BY InitHolds, StepKeeps, PTL DEF Spec

(* Every variable keeps its type, and no play writes a line that lacks the *)
(* nodes it adds or has those it takes away.                               *)
THEOREM TopologyTypes == Spec => []TypeOK
  BY Invariance, PTL DEF IInv

(* A cluster whose name begins no other's never has nodes of another on    *)
(* its switch, whatever overlaps, fails or is overwritten.                 *)
THEOREM SwitchesAreOwn == Spec => []OwnNodesOnly
  BY Invariance, PTL DEF IInv, OwnInv

(* topology.conf, what Slurm loaded of it and the nodes Slurm has agree    *)
(* about every cluster at rest that is not troubled.                       *)
THEOREM RestMeansAgreement == Spec => []SwitchesAgree
<1>1. IInv => SwitchesAgree
  <2> SUFFICES ASSUME IInv, NEW c \in Clusters, c \notin troubled, Distinct(c),
                      \A p \in Plays : Working(p) => play[p].cluster # c
               PROVE  Before(c)
    BY DEF SwitchesAgree, Before
  <2>1. AtRest(c)  BY DEF IInv, AgreeInv
  <2> QED  BY <2>1 DEF AtRest, On, Working
<1> QED  BY <1>1, Invariance, PTL

(* No node leaves its switch but by a play that is to take it away, under  *)
(* the same conditions.                                                    *)
THEOREM OthersStay == Spec => OnlyTargetsLeave
<1> DEFINE Stays == \A c \in Clusters \ troubled :
                       Distinct(c) => file[c] \ file'[c] \subseteq Leaving(c)
<1>1. IInv /\ [Next]_vars => [Stays]_vars
  <2> SUFFICES ASSUME IInv, Next, NEW c \in Clusters, c \notin troubled, Distinct(c)
               PROVE  file[c] \ file'[c] \subseteq Leaving(c)
    OBVIOUS
  <2>1. PICK p \in Plays : Step(p)  BY DEF Next, Step
  <2>2. CASE file' = file
    BY <2>2
  <2>3. CASE Write(p)
    <3>1. file'[c] = IF play[p].switch = c THEN play[p].line ELSE file[c]  BY <2>3, Written
    <3>2. CASE play[p].switch # c
      BY <3>1, <3>2
    <3>3. CASE play[p].switch = c
      <4>1. OwnPlay(play[p]) /\ play[p].at = "write"  BY <2>3 DEF IInv, OwnInv, Write
      <4>2. On(play[p], c)  BY <3>3, <4>1 DEF OwnPlay, On
      <4>3. Phase(play[p], c)  BY <4>2 DEF IInv, AgreeInv, AtWork
      <4>4. file'[c] = Target(play[p], file[c])  BY <3>1, <3>3, <4>1, <4>3 DEF Phase
      <4>5. CASE play[p].kind = "add"
        BY <4>4, <4>5 DEF Target
      <4>6. CASE play[p].kind # "add"
        <5>1. file[c] \ file'[c] \subseteq play[p].nodes  BY <4>4, <4>6 DEF Target
        <5>2. play[p].nodes \subseteq Leaving(c)  BY <4>2, <4>6 DEF Leaving, On
        <5> QED  BY <5>1, <5>2
      <4> QED  BY <4>5, <4>6
    <3> QED  BY <3>2, <3>3
  <2>4. Write(p) \/ file' = file
    BY <2>1 DEF Step, Begin, ReadAdd, ReadDestroy, ReadUnreachable, TwoSwitches, Open, TellSlurm,
       DeleteRefused, Reconfigure, BreakOff
  <2> QED  BY <2>2, <2>3, <2>4
<1> QED  BY <1>1, Invariance, PTL DEF Spec, OnlyTargetsLeave
=============================================================================
