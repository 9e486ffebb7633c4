---------------------------- MODULE ResizeProofs ----------------------------
(***************************************************************************)
(* What holds of Resize for any set of instances, any number of runs that  *)
(* overlap, any command lines, and any number of failures and kills.       *)
(***************************************************************************)
EXTENDS Resize, FiniteSetTheorems, TLAPS

USE NamesAssumption, RequestsAssumption, ResizeBounds

(* Sets of instances *)

LEMMA NamesFinite ==
  ASSUME NEW S, S \subseteq Names
  PROVE  IsFiniteSet(S) /\ Cardinality(S) \in Nat
  BY FS_Subset, FS_CardinalityType

LEMMA ComputeIsNames ==
  ASSUME NEW i \in InventoryRec
  PROVE  Compute(i) \subseteq Names
  BY DEF InventoryRec, Compute

LEMMA PoolSizeIsNat == TypeOK => PoolSize \in Nat
  BY NamesFinite DEF TypeOK, PoolSize

LEMMA WithoutIsInventory ==
  ASSUME NEW i \in InventoryRec, NEW T \in SUBSET Names
  PROVE  Without(i, T) \in InventoryRec
  BY DEF InventoryRec, Without

LEMMA NfsChoiceIsNode ==
  ASSUME NEW i \in InventoryRec, NEW n \in NfsChoice(i)
  PROVE  n \in Names \union {None}
  BY DEF InventoryRec, NfsChoice

LEMMA WithNfs ==
  ASSUME NEW i \in InventoryRec, NEW n \in Names \union {None}
  PROVE  [i EXCEPT !.nfs = n] \in InventoryRec
  BY DEF InventoryRec

-----------------------------------------------------------------------------
(* Records of runs *)

LEMMA OffIsRun == Off \in RunRec
<1>1. NoRequest \in RequestRec
  BY DEF NoRequest, RequestRec, Modes
<1>2. NoInventory \in InventoryRec
  BY DEF NoInventory, InventoryRec
<1>. QED
  BY <1>1, <1>2 DEF Off, RunRec, PCs

LEMMA RunFields ==
  ASSUME NEW u \in RunRec
  PROVE  /\ u.pc \in PCs /\ u.req \in RequestRec /\ u.draft \in InventoryRec
         /\ u.known \subseteq Names /\ u.cn_instances \subseteq Names
         /\ u.to_remove \subseteq Names /\ u.todo \subseteq Names
         /\ u.broke \subseteq Names
         /\ u.flag \in {0, 1} /\ u.current_size \in Nat /\ u.newsize \in Nat
  BY DEF RunRec

LEMMA RequestFields ==
  ASSUME NEW q \in RequestRec
  PROVE  q.mode \in Modes /\ q.number \in Nat /\ q.nodes \subseteq Names
  BY DEF RequestRec

(* A step of one run leaves the others as they are. *)
Others(r) == \A s \in Runs \ {r} : run'[s] = run[s]

LEMMA Change ==
  ASSUME run \in [Runs -> RunRec], NEW r \in Runs, NEW u \in RunRec,
         run' = [run EXCEPT ![r] = u]
  PROVE  run' \in [Runs -> RunRec] /\ run'[r] = u /\ Others(r)
  BY DEF Others

LEMMA GoEffect ==
  ASSUME run \in [Runs -> RunRec], NEW r \in Runs, NEW pc \in PCs, Go(r, pc)
  PROVE  /\ run' \in [Runs -> RunRec] /\ Others(r)
         /\ run'[r] = [run[r] EXCEPT !.pc = pc]
<1>1. [run[r] EXCEPT !.pc = pc] \in RunRec
  BY DEF RunRec
<1>2. run' = [run EXCEPT ![r] = [run[r] EXCEPT !.pc = pc]]
  BY DEF Go
<1>. QED
  BY <1>1, <1>2, Change

LEMMA OffEffect ==
  ASSUME run \in [Runs -> RunRec], NEW r \in Runs, run' = [run EXCEPT ![r] = Off]
  PROVE  run' \in [Runs -> RunRec] /\ run'[r] = Off /\ Others(r)
  BY OffIsRun, Change

(* The choice of nodes is made among the instances and the named nodes.    *)
LEMMA ByNumberIsNames ==
  ASSUME NEW q \in RequestRec, NEW dead \in SUBSET Names, NEW instances \in SUBSET Names,
         NEW T \in ByNumber(q, dead, instances)
  PROVE  T \subseteq Names
<1> DEFINE additional == q.number - Cardinality(dead)
<1>1. CASE additional <= 0
  BY <1>1 DEF ByNumber
<1>2. CASE ~(additional <= 0) /\ additional >= Cardinality(instances)
  BY <1>2 DEF ByNumber
<1>3. CASE ~(additional <= 0) /\ ~(additional >= Cardinality(instances))
  BY <1>3 DEF ByNumber, kSubset
<1>. QED
  BY <1>1, <1>2, <1>3

LEMMA ToRemoveIsNames ==
  ASSUME TypeOK, NEW r \in Runs, NEW T \in ToRemove(r)
  PROVE  T \subseteq Names
<1> DEFINE q == run[r].req
           dead == Unreachable(r)
<1>1. run[r] \in RunRec
  BY DEF TypeOK
<1>2. q \in RequestRec /\ q.nodes \subseteq Names /\ run[r].cn_instances \subseteq Names
  BY <1>1, RunFields, RequestFields
<1>3. dead \subseteq Names
  BY <1>1, RunFields DEF Unreachable
<1>4. ByNumber(q, dead, run[r].cn_instances) \subseteq SUBSET Names
  BY <1>2, <1>3, ByNumberIsNames
<1> HIDE DEF q, dead
<1>. QED
  BY <1>2, <1>3, <1>4 DEF ToRemove, q, dead

-----------------------------------------------------------------------------
(* Type correctness *)

LEMMA InitTypeOK == Init => TypeOK
<1> SUFFICES ASSUME Init PROVE TypeOK
  OBVIOUS
<1>1. pool \subseteq Names /\ up \subseteq Names /\ tf \in Nat
  BY NamesFinite DEF Init
<1>2. inv \in InventoryRec /\ places \in PlacesRec
  BY <1>1 DEF Init, InventoryRec, PlacesRec
<1>3. run \in [Runs -> RunRec]
  BY OffIsRun DEF Init
<1>4. /\ lock \in BOOLEAN /\ loose \subseteq Names
      /\ mixed \in BOOLEAN /\ crossed \in BOOLEAN /\ killed \in BOOLEAN /\ unwritten \in BOOLEAN
  BY Zenon DEF Init
<1>5. starts \in Nat /\ faults \in Nat
  BY DEF Init
<1>. QED
  BY <1>1, <1>2, <1>3, <1>4, <1>5, Zenon DEF TypeOK

LEMMA FaultTypeOK ==
  ASSUME faults \in Nat, NEW failed, Fault(failed)
  PROVE  faults' \in Nat
  BY DEF Fault

LEMMA PlacesTypeOK ==
  ASSUME places \in PlacesRec, NEW failed \in BOOLEAN, NEW p \in PlacesRec,
         places' \in PlacesAfter(failed, p)
  PROVE  places' \in PlacesRec
<1>1. CASE ~failed
  BY <1>1 DEF PlacesAfter
<1>2. CASE failed
  <2>1. PICK k \in 0 .. 3 : places' = FirstOf(k, p)
    BY <1>2 DEF PlacesAfter
  <2>. QED
    BY <2>1 DEF FirstOf, PlacesRec
<1>. QED
  BY <1>1, <1>2

-----------------------------------------------------------------------------
(* What the steps make of the record of their run *)

LEMMA LookEffect ==
  ASSUME TypeOK, NEW r \in Runs, Look(r)
  PROVE  /\ run' \in [Runs -> RunRec] /\ Others(r)
         /\ \E q \in RequestRec :
              run'[r] = [Off EXCEPT !.pc = IF TakesLock(q) THEN "create" ELSE "list", !.req = q]
<1>1. PICK q \in Requests :
        run' = [run EXCEPT ![r] = [Off EXCEPT !.pc = IF TakesLock(q) THEN "create" ELSE "list",
                                              !.req = q]]
  BY Zenon DEF Look
<1> DEFINE u == [Off EXCEPT !.pc = IF TakesLock(q) THEN "create" ELSE "list", !.req = q]
<1>2. q \in RequestRec
  OBVIOUS
<1>3. u \in RunRec
  BY <1>2, OffIsRun DEF RunRec, PCs
<1>4. run' = [run EXCEPT ![r] = u]
  BY <1>1
<1>5. run' \in [Runs -> RunRec] /\ run'[r] = u /\ Others(r)
  <2> HIDE DEF u
  <2>. QED
    BY <1>3, <1>4, Change DEF TypeOK
<1>. QED
  BY <1>2, <1>5

LEMMA LookStart ==
  ASSUME TypeOK, NEW r \in Runs, Look(r)
  PROVE  run'[r].pc \in {"list", "create"} /\ run'[r].to_remove = {}
<1>1. PICK q \in RequestRec :
        run'[r] = [Off EXCEPT !.pc = IF TakesLock(q) THEN "create" ELSE "list", !.req = q]
  BY LookEffect
<1>. QED
  BY ONLY <1>1 DEF Off

LEMMA ListEffect ==
  ASSUME TypeOK, NEW r \in Runs, List(r)
  PROVE  /\ run' \in [Runs -> RunRec] /\ Others(r) /\ faults' \in Nat
         /\ \E L \in SUBSET Names :
              run'[r] = [run[r] EXCEPT !.pc = AfterListing(run[r].req), !.cn_instances = L,
                                       !.known = Compute(inv), !.current_size = PoolSize]
<1>1. PICK L \in SUBSET pool :
        /\ Listing(L)
        /\ run' = [run EXCEPT ![r].pc = AfterListing(run[r].req), ![r].cn_instances = L,
                              ![r].known = Compute(inv), ![r].current_size = PoolSize]
  BY DEF List
<1> DEFINE u == [run[r] EXCEPT !.pc = AfterListing(run[r].req), !.cn_instances = L,
                               !.known = Compute(inv), !.current_size = PoolSize]
<1>2. AfterListing(run[r].req) \in PCs
  BY DEF AfterListing, PCs
<1>3. L \subseteq Names /\ Compute(inv) \subseteq Names /\ PoolSize \in Nat
  BY ComputeIsNames, PoolSizeIsNat DEF TypeOK
<1>4. u \in RunRec
  <2>1. run[r] \in RunRec
    BY DEF TypeOK
  <2>2. \A v \in RunRec, pc \in PCs, A, K \in SUBSET Names, k \in Nat :
          [v EXCEPT !.pc = pc, !.cn_instances = A, !.known = K, !.current_size = k] \in RunRec
    BY DEF RunRec
  <2>. QED
    BY <1>2, <1>3, <2>1, <2>2
<1>5. run' = [run EXCEPT ![r] = u]
  BY <1>1 DEF TypeOK
<1>6. faults' \in Nat
  BY <1>1, FaultTypeOK DEF Listing, TypeOK
<1>7. run' \in [Runs -> RunRec] /\ run'[r] = u /\ Others(r)
  <2> HIDE DEF u
  <2>. QED
    BY <1>4, <1>5, Change DEF TypeOK
<1>. QED
  BY <1>3, <1>6, <1>7

LEMMA ProbeEffect ==
  ASSUME TypeOK, NEW r \in Runs, Probe(r)
  PROVE  /\ run' \in [Runs -> RunRec] /\ Others(r)
         /\ \/ run'[r] = [run[r] EXCEPT !.pc = "end"]
            \/ \E T \in ToRemove(r) :
                 run'[r] = [run[r] EXCEPT !.pc = AfterProbe(run[r].req, T),
                                          !.to_remove = T, !.todo = T,
                                          !.current_size =
                                              IF AfterProbe(run[r].req, T) = "terminate"
                                              THEN PoolSize ELSE @]
<1>1. CASE Go(r, "end")
  BY <1>1, GoEffect DEF TypeOK, PCs
<1>2. ASSUME NEW T \in ToRemove(r),
             run' = [run EXCEPT ![r].pc = AfterProbe(run[r].req, T),
                                ![r].to_remove = T, ![r].todo = T,
                                ![r].current_size =
                                    IF AfterProbe(run[r].req, T) = "terminate"
                                    THEN PoolSize ELSE @]
      PROVE  /\ run' \in [Runs -> RunRec] /\ Others(r)
             /\ run'[r] = [run[r] EXCEPT !.pc = AfterProbe(run[r].req, T),
                                         !.to_remove = T, !.todo = T,
                                         !.current_size =
                                             IF AfterProbe(run[r].req, T) = "terminate"
                                             THEN PoolSize ELSE @]
  <2> DEFINE pc == AfterProbe(run[r].req, T)
             size == IF pc = "terminate" THEN PoolSize ELSE run[r].current_size
             u == [run[r] EXCEPT !.pc = pc, !.to_remove = T, !.todo = T, !.current_size = size]
  <2>1. T \subseteq Names
    BY ToRemoveIsNames
  <2>2. pc \in PCs
    BY DEF AfterProbe, PCs
  <2>3. size \in Nat
    BY PoolSizeIsNat, RunFields DEF TypeOK
  <2>4. run' = [run EXCEPT ![r] = u]
    <3> HIDE DEF pc
    <3>1. run' = [run EXCEPT ![r].pc = pc, ![r].to_remove = T, ![r].todo = T,
                             ![r].current_size = IF pc = "terminate" THEN PoolSize ELSE @]
      BY <1>2 DEF pc
    <3>. QED
      BY <3>1 DEF TypeOK
  <2>5. u \in RunRec
    <3>1. run[r] \in RunRec
      BY DEF TypeOK
    <3> HIDE DEF pc, size
    <3>. QED
      BY <2>1, <2>2, <2>3, <3>1 DEF RunRec
  <2>6. run' \in [Runs -> RunRec] /\ run'[r] = u /\ Others(r)
    <3> HIDE DEF u
    <3>. QED
      BY <2>4, <2>5, Change DEF TypeOK
  <2>. QED
    BY <2>6
<1>. QED
  BY <1>1, <1>2 DEF Probe

LEMMA TerminateEffect ==
  ASSUME TypeOK, NEW r \in Runs, Terminate(r)
  PROVE  /\ run' \in [Runs -> RunRec] /\ Others(r) /\ faults' \in Nat
         /\ \E n \in run[r].todo :
              /\ run'[r] = [run[r] EXCEPT !.todo = @ \ {n}]
              /\ pool \ {n} \subseteq pool' /\ pool' \subseteq pool
              /\ up' \subseteq up /\ loose' \subseteq loose \union {n}
<1>1. PICK n \in run[r].todo, failed \in BOOLEAN :
         /\ Fault(failed)
         /\ IF failed THEN /\ UNCHANGED <<pool, up>>
                          /\ loose' = loose \union {n}
                      ELSE /\ pool' = pool \ {n} /\ up' = up \ {n}
                           /\ UNCHANGED loose
         /\ run' = [run EXCEPT ![r].todo = @ \ {n}]
  BY DEF Terminate
<1> DEFINE u == [run[r] EXCEPT !.todo = @ \ {n}]
<1>2. u \in RunRec
  BY DEF TypeOK, RunRec
<1>3. run' = [run EXCEPT ![r] = u]
  BY <1>1 DEF TypeOK
<1>4. run' \in [Runs -> RunRec] /\ run'[r] = u /\ Others(r)
  <2> HIDE DEF u
  <2>. QED
    BY <1>2, <1>3, Change DEF TypeOK
<1>5. faults' \in Nat
  BY <1>1, FaultTypeOK DEF TypeOK
<1>6. /\ pool \ {n} \subseteq pool' /\ pool' \subseteq pool
      /\ up' \subseteq up /\ loose' \subseteq loose \union {n}
  BY <1>1
<1>. QED
  BY <1>4, <1>5, <1>6

LEMMA UninstallEffect ==
  ASSUME TypeOK, NEW r \in Runs, Uninstall(r)
  PROVE  /\ run' \in [Runs -> RunRec] /\ Others(r)
         /\ run'[r] = [run[r] EXCEPT !.pc = "play_remove",
                                     !.draft = Without(inv, run[r].to_remove),
                                     !.todo = run[r].to_remove, !.flag = 0]
<1> DEFINE u == [run[r] EXCEPT !.pc = "play_remove",
                               !.draft = Without(inv, run[r].to_remove),
                               !.todo = run[r].to_remove, !.flag = 0]
<1>1. run[r] \in RunRec
  BY DEF TypeOK
<1>2. Without(inv, run[r].to_remove) \in InventoryRec
  BY <1>1, RunFields, WithoutIsInventory DEF TypeOK
<1>3. u \in RunRec
  BY <1>1, <1>2 DEF RunRec, PCs
<1>4. run' = [run EXCEPT ![r] = u]
  BY DEF Uninstall, TypeOK
<1>5. run' \in [Runs -> RunRec] /\ run'[r] = u /\ Others(r)
  <2> HIDE DEF u
  <2>. QED
    BY <1>3, <1>4, Change DEF TypeOK
<1>. QED
  BY <1>5

LEMMA PlayRemoveEffect ==
  ASSUME TypeOK, NEW r \in Runs, PlayRemove(r)
  PROVE  /\ run' \in [Runs -> RunRec] /\ Others(r) /\ faults' \in Nat
         /\ places' \in PlacesRec /\ loose' \subseteq Names
         /\ \E n \in run[r].todo, flag \in {0, 1}, broke \in SUBSET Names :
              /\ run'[r] = [run[r] EXCEPT !.todo = @ \ {n}, !.flag = flag, !.broke = broke]
              /\ broke = IF flag = 0 THEN run[r].broke ELSE run[r].broke \union {n}
<1>1. PICK n \in run[r].todo, failed \in BOOLEAN, refused \in BOOLEAN :
        /\ Plays(r, failed)
        /\ places' \in PlacesAfter(failed, RemovedFrom(n, run[r].draft, refused))
        /\ loose' = IF failed \/ refused THEN loose \union {n} ELSE loose
        /\ run' = [run EXCEPT ![r].todo = @ \ {n}, ![r].flag = IF failed THEN 1 ELSE 0,
                              ![r].broke = IF failed THEN @ \union {n} ELSE @]
  BY DEF PlayRemove
<1>3. run[r] \in RunRec
  BY DEF TypeOK
<1>2. PICK flag \in {0, 1}, broke \in SUBSET Names :
        /\ flag = IF failed THEN 1 ELSE 0
        /\ broke = IF failed THEN run[r].broke \union {n} ELSE run[r].broke
  BY <1>3, RunFields
<1> DEFINE u == [run[r] EXCEPT !.todo = @ \ {n}, !.flag = flag, !.broke = broke]
<1>4. u \in RunRec
  BY <1>3 DEF RunRec
<1>5. run' = [run EXCEPT ![r] = u]
  BY <1>1, <1>2 DEF TypeOK
<1>11. broke = IF flag = 0 THEN run[r].broke ELSE run[r].broke \union {n}
  BY <1>2
<1>6. run' \in [Runs -> RunRec] /\ run'[r] = u /\ Others(r)
  <2> HIDE DEF u
  <2>. QED
    BY <1>4, <1>5, Change DEF TypeOK
<1>7. faults' \in Nat
  BY <1>1, FaultTypeOK DEF Plays, TypeOK
<1>8. RemovedFrom(n, run[r].draft, refused) \in PlacesRec
  <2>1. Compute(run[r].draft) \subseteq Names
    BY <1>3, RunFields, ComputeIsNames
  <2>. QED
    BY <2>1 DEF RemovedFrom, PlacesRec, TypeOK
<1>9. places' \in PlacesRec
  BY <1>1, <1>8, PlacesTypeOK DEF TypeOK
<1>10. loose' \subseteq Names
  BY <1>1, <1>3, RunFields DEF TypeOK
<1>. QED
  BY <1>6, <1>7, <1>9, <1>10, <1>11

LEMMA CommitRemovalEffect ==
  ASSUME TypeOK, NEW r \in Runs, CommitRemoval(r)
  PROVE  /\ run' \in [Runs -> RunRec] /\ Others(r)
         /\ \/ run'[r] = [run[r] EXCEPT !.pc = "end"]
            \/ /\ run[r].flag = 0 \/ run[r].req.force
               /\ run'[r] = [run[r] EXCEPT !.pc = "terminate", !.todo = run[r].to_remove,
                                           !.current_size = PoolSize]
<1>1. run[r] \in RunRec
  BY DEF TypeOK
<1>2. CASE run' = [run EXCEPT ![r].pc = "end"]
  BY <1>2, GoEffect DEF Go, TypeOK, PCs
<1>3. ASSUME run' = [run EXCEPT ![r].pc = "terminate", ![r].todo = run[r].to_remove,
                                ![r].current_size = PoolSize]
      PROVE  /\ run' \in [Runs -> RunRec] /\ Others(r)
             /\ run'[r] = [run[r] EXCEPT !.pc = "terminate", !.todo = run[r].to_remove,
                                         !.current_size = PoolSize]
  <2> DEFINE u == [run[r] EXCEPT !.pc = "terminate", !.todo = run[r].to_remove,
                                 !.current_size = PoolSize]
  <2>1. u \in RunRec
    BY <1>1, PoolSizeIsNat DEF RunRec, PCs
  <2>2. run' = [run EXCEPT ![r] = u]
    BY <1>3 DEF TypeOK
  <2> HIDE DEF u
  <2>3. run' \in [Runs -> RunRec] /\ run'[r] = u /\ Others(r)
    BY <2>1, <2>2, Change DEF TypeOK
  <2>. QED
    BY <2>3 DEF u
<1>. QED
  BY <1>2, <1>3 DEF CommitRemoval

LEMMA DraftAddEffect ==
  ASSUME TypeOK, NEW r \in Runs, DraftAdd(r)
  PROVE  /\ run' \in [Runs -> RunRec] /\ Others(r) /\ faults' \in Nat
         /\ \E i \in InventoryRec : run'[r] = [run[r] EXCEPT !.pc = "play_add", !.draft = i]
<1>1. PICK L \in SUBSET pool, new \in SUBSET Names, named \in SUBSET Names,
           nfs \in Names \union {None} :
        LET i == [inv EXCEPT !.conf = @ \union (new \ named), !.add = @ \union named] IN
        /\ Listing(L)
        /\ run' = [run EXCEPT ![r].pc = "play_add", ![r].draft = [i EXCEPT !.nfs = nfs]]
  <2>1. PICK L \in SUBSET pool :
          LET new == L \ inv.conf
              named == IF run[r].req.nodes = {} THEN new ELSE new \intersect run[r].req.nodes
              i == [inv EXCEPT !.conf = @ \union (new \ named), !.add = @ \union named] IN
          /\ Listing(L)
          /\ \E nfs \in NfsChoice(i) :
               run' = [run EXCEPT ![r].pc = "play_add", ![r].draft = [i EXCEPT !.nfs = nfs]]
    BY DEF DraftAdd
  <2> DEFINE new == L \ inv.conf
             named == IF run[r].req.nodes = {} THEN new ELSE new \intersect run[r].req.nodes
             i == [inv EXCEPT !.conf = @ \union (new \ named), !.add = @ \union named]
  <2>2. new \in SUBSET Names /\ named \in SUBSET Names
    BY DEF TypeOK
  <2>3. i \in InventoryRec
    BY <2>2 DEF TypeOK, InventoryRec
  <2>4. PICK nfs \in NfsChoice(i) :
          run' = [run EXCEPT ![r].pc = "play_add", ![r].draft = [i EXCEPT !.nfs = nfs]]
    BY <2>1
  <2>5. nfs \in Names \union {None}
    BY <2>3, NfsChoiceIsNode
  <2>. QED
    BY <2>1, <2>2, <2>4, <2>5
<1> DEFINE j == [inv EXCEPT !.conf = @ \union (new \ named), !.add = @ \union named]
           i == [j EXCEPT !.nfs = nfs]
           u == [run[r] EXCEPT !.pc = "play_add", !.draft = i]
<1>2. i \in InventoryRec
  BY DEF TypeOK, InventoryRec
<1>3. run' = [run EXCEPT ![r].pc = "play_add", ![r].draft = i]
  BY <1>1
<1> HIDE DEF i
<1>4. run' = [run EXCEPT ![r] = u]
  BY <1>3 DEF TypeOK
<1>5. u \in RunRec
  <2>1. run[r] \in RunRec
    BY DEF TypeOK
  <2>. QED
    BY <1>2, <2>1 DEF RunRec, PCs
<1>6. run' \in [Runs -> RunRec] /\ run'[r] = u /\ Others(r)
  <2> HIDE DEF u
  <2>. QED
    BY <1>4, <1>5, Change DEF TypeOK
<1>7. faults' \in Nat
  BY <1>1, FaultTypeOK DEF Listing, TypeOK
<1>. QED
  BY <1>2, <1>6, <1>7

LEMMA DraftAllEffect ==
  ASSUME TypeOK, NEW r \in Runs, DraftAll(r)
  PROVE  /\ run' \in [Runs -> RunRec] /\ Others(r) /\ faults' \in Nat
         /\ \E i \in InventoryRec :
              i.add = {} /\ run'[r] = [run[r] EXCEPT !.pc = "play_all", !.draft = i]
<1>1. PICK L \in SUBSET pool :
        LET i == [inv EXCEPT !.conf = L, !.add = {}] IN
        /\ Listing(L)
        /\ \E nfs \in NfsChoice(i) :
             run' = [run EXCEPT ![r].pc = "play_all", ![r].draft = [i EXCEPT !.nfs = nfs]]
  BY DEF DraftAll
<1> DEFINE j == [inv EXCEPT !.conf = L, !.add = {}]
<1>2. j \in InventoryRec /\ j.add = {}
  BY DEF TypeOK, InventoryRec
<1>3. PICK nfs \in NfsChoice(j) :
        run' = [run EXCEPT ![r].pc = "play_all", ![r].draft = [j EXCEPT !.nfs = nfs]]
  BY <1>1
<1>4. nfs \in Names \union {None}
  BY <1>2, NfsChoiceIsNode
<1> DEFINE i == [j EXCEPT !.nfs = nfs]
           u == [run[r] EXCEPT !.pc = "play_all", !.draft = i]
<1>5. i \in InventoryRec /\ i.add = {}
  <2> HIDE DEF j
  <2>. QED
    BY <1>2, <1>4 DEF InventoryRec
<1>6. run' = [run EXCEPT ![r].pc = "play_all", ![r].draft = i]
  BY <1>3
<1> HIDE DEF i
<1>7. run' = [run EXCEPT ![r] = u]
  BY <1>6 DEF TypeOK
<1>8. u \in RunRec
  <2>1. run[r] \in RunRec
    BY DEF TypeOK
  <2>. QED
    BY <1>5, <2>1 DEF RunRec, PCs
<1>9. run' \in [Runs -> RunRec] /\ run'[r] = u /\ Others(r)
  <2> HIDE DEF u
  <2>. QED
    BY <1>7, <1>8, Change DEF TypeOK
<1>10. faults' \in Nat
  BY <1>1, FaultTypeOK DEF Listing, TypeOK
<1>. QED
  BY <1>5, <1>9, <1>10

-----------------------------------------------------------------------------
(* Every step keeps the type of the state *)

LEMMA LookTypeOK ==
  ASSUME TypeOK, NEW r \in Runs, Look(r)
  PROVE  TypeOK'
<1>1. run' \in [Runs -> RunRec]
  BY LookEffect
<1>2. starts' \in Nat
  BY DEF Look, TypeOK
<1>3. mixed' \in BOOLEAN /\ crossed' \in BOOLEAN
  BY Zenon DEF Look, TypeOK
<1>. QED
  BY <1>1, <1>2, <1>3, Zenon DEF Look, TypeOK

LEMMA CreateLockTypeOK ==
  ASSUME TypeOK, NEW r \in Runs, CreateLock(r)
  PROVE  TypeOK'
<1>1. run' \in [Runs -> RunRec]
  BY GoEffect DEF CreateLock, TypeOK, PCs
<1>. QED
  BY <1>1, Zenon DEF CreateLock, TypeOK, counters, marks

LEMMA FinishTypeOK ==
  ASSUME TypeOK, NEW r \in Runs, Finish(r)
  PROVE  TypeOK'
<1>1. run' \in [Runs -> RunRec]
  BY OffEffect DEF Finish, TypeOK
<1>2. lock' \in BOOLEAN
  BY Zenon DEF Finish, TypeOK
<1>. QED
  BY <1>1, <1>2, Zenon DEF Finish, TypeOK, counters, marks

LEMMA KillTypeOK ==
  ASSUME TypeOK, NEW r \in Runs, Kill(r)
  PROVE  TypeOK'
<1>1. run' \in [Runs -> RunRec]
  BY OffEffect DEF Kill, TypeOK
<1>2. faults' \in Nat
  BY FaultTypeOK DEF Kill, TypeOK
<1>3. run[r] \in RunRec
  BY DEF TypeOK
<1>4. Compute(run[r].draft) \subseteq Names /\ run[r].to_remove \subseteq Names
  BY <1>3, RunFields, ComputeIsNames
<1>5. loose' \subseteq Names
  BY <1>4 DEF Kill, TypeOK
<1>6. killed' \in BOOLEAN /\ unwritten' \in BOOLEAN
  BY Zenon DEF Kill, TypeOK
<1>. QED
  BY <1>1, <1>2, <1>5, <1>6, Zenon DEF Kill, TypeOK

LEMMA ListTypeOK ==
  ASSUME TypeOK, NEW r \in Runs, List(r)
  PROVE  TypeOK'
  BY ListEffect, Zenon DEF List, TypeOK, marks

LEMMA ProbeTypeOK ==
  ASSUME TypeOK, NEW r \in Runs, Probe(r)
  PROVE  TypeOK'
<1>1. run' \in [Runs -> RunRec]
  BY ProbeEffect
<1>2. run'[r].to_remove \subseteq Names
  BY <1>1, RunFields
<1>3. loose' \subseteq Names
  BY <1>2 DEF Probe, TypeOK
<1>. QED
  BY <1>1, <1>3, Zenon DEF Probe, TypeOK, counters, marks

LEMMA TerminateTypeOK ==
  ASSUME TypeOK, NEW r \in Runs, Terminate(r)
  PROVE  TypeOK'
<1>1. run' \in [Runs -> RunRec] /\ faults' \in Nat
  BY TerminateEffect
<1>2. PICK n \in run[r].todo :
        pool' \subseteq pool /\ up' \subseteq up /\ loose' \subseteq loose \union {n}
  BY TerminateEffect
<1>3. n \in Names
  BY RunFields DEF TypeOK
<1>4. pool' \subseteq Names /\ up' \subseteq Names /\ loose' \subseteq Names
  BY <1>2, <1>3 DEF TypeOK
<1>. QED
  BY <1>1, <1>4, Zenon DEF Terminate, TypeOK, marks

LEMMA MeasureEffect ==
  ASSUME TypeOK, NEW r \in Runs, Measure(r)
  PROVE  /\ run' \in [Runs -> RunRec] /\ Others(r)
         /\ \E pc \in {"record", "record_new"} :
              /\ run'[r] = [run[r] EXCEPT !.pc = pc, !.newsize = PoolSize]
              /\ pc = IF run[r].pc = "measure" THEN "record_new" ELSE "record"
<1>1. run[r] \in RunRec /\ PoolSize \in Nat
  BY PoolSizeIsNat DEF TypeOK
<1>2. PICK pc \in {"record", "record_new"} :
        pc = IF run[r].pc = "measure" THEN "record_new" ELSE "record"
  OBVIOUS
<1> DEFINE u == [run[r] EXCEPT !.pc = pc, !.newsize = PoolSize]
<1>3. u \in RunRec
  BY <1>1 DEF RunRec, PCs
<1>4. run' = [run EXCEPT ![r] = u]
  BY <1>2 DEF Measure, WithSize
<1>5. run' \in [Runs -> RunRec] /\ run'[r] = u /\ Others(r)
  <2> HIDE DEF u
  <2>. QED
    BY <1>3, <1>4, Change DEF TypeOK
<1>. QED
  BY <1>2, <1>5

LEMMA MeasureTypeOK ==
  ASSUME TypeOK, NEW r \in Runs, Measure(r)
  PROVE  TypeOK'
<1>1. run' \in [Runs -> RunRec]
  BY MeasureEffect
<1>. QED
  BY <1>1, Zenon DEF Measure, TypeOK, counters, marks

LEMMA AfterRecordIs ==
  ASSUME NEW u
  PROVE  /\ AfterRecord(u) \in {"grow", "end", "draft_add"}
         /\ u.pc # "record" => AfterRecord(u) # "grow"
         /\ AfterRecord(u) = "grow" => u.req.mode = "add"
         /\ u.pc = "record" => AfterRecord(u) # "draft_add"
  BY DEF AfterRecord

LEMMA RecordEffect ==
  ASSUME TypeOK, NEW r \in Runs, Record(r)
  PROVE  /\ run' \in [Runs -> RunRec] /\ Others(r) /\ faults' \in Nat
         /\ run'[r] = [run[r] EXCEPT !.pc = AfterRecord(run[r])]
         /\ unwritten' \in BOOLEAN
         /\ unwritten' \/ Permanent \/ tf' = run[r].newsize
         /\ tf' \in {tf, run[r].newsize}
         /\ loose' = IF run[r].pc = "record_new" /\ AfterRecord(run[r]) = "end"
                     THEN loose \union (pool \ inv.conf) ELSE loose
<1> DEFINE u == run[r]
<1>1. PICK written \in BOOLEAN :
        /\ Fault(~written)
        /\ tf' = IF written /\ ~Permanent THEN u.newsize ELSE tf
        /\ unwritten' = ~written
  BY DEF Record
<1>2. AfterRecord(u) \in PCs
  BY AfterRecordIs DEF PCs
<1> HIDE DEF u
<1>3. /\ run' \in [Runs -> RunRec] /\ Others(r)
      /\ run'[r] = [run[r] EXCEPT !.pc = AfterRecord(u)]
  BY <1>2, GoEffect DEF Record, TypeOK, u
<1>4. faults' \in Nat
  BY <1>1, FaultTypeOK DEF TypeOK
<1>5. loose' = IF u.pc = "record_new" /\ AfterRecord(u) = "end"
               THEN loose \union (pool \ inv.conf) ELSE loose
  BY DEF Record, u
<1>6. /\ unwritten' \in BOOLEAN /\ tf' \in {tf, u.newsize}
      /\ unwritten' \/ Permanent \/ tf' = u.newsize
  BY <1>1
<1>. QED
  BY <1>3, <1>4, <1>5, <1>6 DEF u

LEMMA RecordTypeOK ==
  ASSUME TypeOK, NEW r \in Runs, Record(r)
  PROVE  TypeOK'
<1>1. /\ run' \in [Runs -> RunRec] /\ faults' \in Nat /\ unwritten' \in BOOLEAN
      /\ tf' \in {tf, run[r].newsize}
  BY RecordEffect
<1>2. tf' \in Nat
  BY <1>1, RunFields DEF TypeOK
<1>3. loose' \subseteq Names
  BY RecordEffect DEF TypeOK
<1>. QED
  BY <1>1, <1>2, <1>3, Zenon DEF Record, TypeOK

LEMMA UnansweredTypeOK ==
  ASSUME TypeOK, NEW r \in Runs, Unanswered(r)
  PROVE  TypeOK'
<1>1. run' \in [Runs -> RunRec]
  BY GoEffect DEF Unanswered, TypeOK, PCs
<1>2. faults' \in Nat
  BY FaultTypeOK DEF Unanswered, TypeOK
<1>3. run[r].to_remove \subseteq Names
  BY RunFields DEF TypeOK
<1>4. loose' \subseteq Names
  BY <1>3 DEF Unanswered, TypeOK
<1>5. unwritten' \in BOOLEAN
  BY Zenon DEF Unanswered, TypeOK
<1>. QED
  BY <1>1, <1>2, <1>4, <1>5, Zenon DEF Unanswered, TypeOK

(* What OCI may do with the pool when it is given another size. *)
LEMMA GrowEffect ==
  ASSUME TypeOK, NEW r \in Runs, Grow(r)
  PROVE  /\ run' \in [Runs -> RunRec] /\ Others(r) /\ faults' \in Nat
         /\ run'[r].pc \in {"end", "measure"} /\ run'[r] = [run[r] EXCEPT !.pc = run'[r].pc]
         /\ unwritten' \in BOOLEAN
         /\ run'[r].pc = "end" => unwritten'
         /\ \E new \in SUBSET Names, lost \in SUBSET pool :
              /\ pool' = (pool \ lost) \union new
              /\ up' = (up \ lost) \union new
              /\ loose' = UNION {loose, lost, IF run'[r].pc = "end" THEN new ELSE {}}
              /\ run[r].current_size - Cardinality(run[r].to_remove) + run[r].req.number
                     >= Cardinality(pool) => lost = {}
<1> DEFINE size == run[r].current_size - Cardinality(run[r].to_remove) + run[r].req.number
           room == Min({size - Cardinality(pool), Cardinality(Fresh)})
<1>1. PICK new \in SUBSET Fresh, lost \in SUBSET pool, timeout \in BOOLEAN :
         /\ IF size >= Cardinality(pool)
            THEN lost = {} /\ Cardinality(new) \in {room, 0}
            ELSE new = {} /\ Cardinality(lost) = Cardinality(pool) - size
         /\ Fault(timeout \/ (size >= Cardinality(pool) /\ Cardinality(new) < room))
         /\ pool' = (pool \ lost) \union new
         /\ up' = (up \ lost) \union new
         /\ Go(r, IF timeout THEN "end" ELSE "measure")
         /\ loose' = UNION {loose, lost, IF timeout THEN new ELSE {}}
         /\ unwritten' = (unwritten \/ timeout)
  BY Zenon DEF Grow
<1>2. new \in SUBSET Names
  BY <1>1 DEF Fresh
<1> HIDE DEF room
<1>3. size >= Cardinality(pool) => lost = {}
  BY <1>1
<1>4. faults' \in Nat
  BY <1>1, FaultTypeOK DEF TypeOK
<1> DEFINE pc == IF timeout THEN "end" ELSE "measure"
<1>5. pc \in {"end", "measure"} /\ (pc = "end" <=> timeout)
  OBVIOUS
<1>5a. Go(r, pc)
  BY <1>1
<1> HIDE DEF pc
<1>6. run' \in [Runs -> RunRec] /\ Others(r) /\ run'[r] = [run[r] EXCEPT !.pc = pc]
  BY <1>5, <1>5a, GoEffect DEF TypeOK, PCs
<1>7. run'[r].pc = pc
  BY <1>6 DEF TypeOK, RunRec
<1>8. loose' = UNION {loose, lost, IF run'[r].pc = "end" THEN new ELSE {}}
  BY <1>1, <1>5, <1>7
<1>9. unwritten' \in BOOLEAN /\ (run'[r].pc = "end" => unwritten')
  BY <1>1, <1>5, <1>7, Zenon DEF TypeOK
<1> HIDE DEF size
<1>10. size >= Cardinality(pool) => lost = {}
  BY <1>3
<1>. QED
  BY <1>1, <1>2, <1>4, <1>5, <1>6, <1>7, <1>8, <1>9, <1>10 DEF size

LEMMA GrowTypeOK ==
  ASSUME TypeOK, NEW r \in Runs, Grow(r)
  PROVE  TypeOK'
<1>1. run' \in [Runs -> RunRec] /\ faults' \in Nat /\ unwritten' \in BOOLEAN
  BY GrowEffect
<1>2. PICK new \in SUBSET Names, lost \in SUBSET pool :
        /\ pool' = (pool \ lost) \union new
        /\ up' = (up \ lost) \union new
        /\ loose' = UNION {loose, lost, IF run'[r].pc = "end" THEN new ELSE {}}
  BY GrowEffect
<1>3. pool' \subseteq Names /\ up' \subseteq Names /\ loose' \subseteq Names
  BY <1>2 DEF TypeOK
<1>. QED
  BY <1>1, <1>3, Zenon DEF Grow, TypeOK

LEMMA GrowRefusedTypeOK ==
  ASSUME TypeOK, NEW r \in Runs, GrowRefused(r)
  PROVE  TypeOK'
<1>1. run' \in [Runs -> RunRec]
  BY GoEffect DEF GrowRefused, TypeOK, PCs
<1>2. faults' \in Nat
  BY FaultTypeOK DEF GrowRefused, TypeOK
<1>. QED
  BY <1>1, <1>2, Zenon DEF GrowRefused, TypeOK, marks

LEMMA UninstallTypeOK ==
  ASSUME TypeOK, NEW r \in Runs, Uninstall(r)
  PROVE  TypeOK'
  BY UninstallEffect, Zenon DEF Uninstall, TypeOK, counters, marks

LEMMA PlayRemoveTypeOK ==
  ASSUME TypeOK, NEW r \in Runs, PlayRemove(r)
  PROVE  TypeOK'
  BY PlayRemoveEffect, Zenon DEF PlayRemove, TypeOK, marks

LEMMA CommitRemovalTypeOK ==
  ASSUME TypeOK, NEW r \in Runs, CommitRemoval(r)
  PROVE  TypeOK'
<1>1. run' \in [Runs -> RunRec]
  BY CommitRemovalEffect
<1>2. inv' \in InventoryRec
  BY RunFields DEF CommitRemoval, TypeOK
<1>3. loose' \subseteq Names
  BY RunFields DEF CommitRemoval, TypeOK
<1>. QED
  BY <1>1, <1>2, <1>3, Zenon DEF CommitRemoval, TypeOK, counters, marks

LEMMA DraftTypeOK ==
  ASSUME TypeOK, NEW r \in Runs, DraftAdd(r) \/ DraftAll(r)
  PROVE  TypeOK'
<1>1. run' \in [Runs -> RunRec] /\ faults' \in Nat
  BY DraftAddEffect, DraftAllEffect
<1>. QED
  BY <1>1, Zenon DEF DraftAdd, DraftAll, TypeOK, marks

LEMMA PlayAddTypeOK ==
  ASSUME TypeOK, NEW r \in Runs, PlayAdd(r)
  PROVE  TypeOK'
<1> DEFINE i == run[r].draft
<1>1. i \in InventoryRec /\ Compute(i) \subseteq Names
  BY RunFields, ComputeIsNames DEF TypeOK
<1>2. PICK failed \in BOOLEAN :
        /\ Plays(r, failed)
        /\ places' \in PlacesAfter(failed, Added(i))
        /\ inv' = IF failed THEN inv ELSE [i EXCEPT !.conf = Compute(i), !.add = {}]
        /\ loose' = IF failed THEN loose \union Compute(i) \union (pool \ inv.conf)
                    ELSE (loose \ i.add) \union (i.conf \ inv.conf) \union (pool \ Compute(i))
  BY DEF PlayAdd
<1>3. Added(i) \in PlacesRec
  BY <1>1 DEF Added, TypeOK, PlacesRec, InventoryRec
<1>4. places' \in PlacesRec
  BY <1>2, <1>3, PlacesTypeOK DEF TypeOK
<1>5. inv' \in InventoryRec
  BY <1>1, <1>2 DEF TypeOK, InventoryRec
<1>6. loose' \subseteq Names
  BY <1>1, <1>2 DEF TypeOK, InventoryRec
<1>7. faults' \in Nat
  BY <1>2, FaultTypeOK DEF Plays, TypeOK
<1>8. run' \in [Runs -> RunRec]
  BY GoEffect DEF PlayAdd, TypeOK, PCs
<1>. QED
  BY <1>4, <1>5, <1>6, <1>7, <1>8, Zenon DEF PlayAdd, TypeOK, marks

LEMMA PlayAllTypeOK ==
  ASSUME TypeOK, NEW r \in Runs, PlayAll(r)
  PROVE  TypeOK'
<1> DEFINE i == run[r].draft
           crucial == run[r].req.crucial
<1>1. i \in InventoryRec /\ i.conf \subseteq Names
  BY RunFields DEF TypeOK, InventoryRec
<1>2. PICK failed \in BOOLEAN :
         /\ Plays(r, failed)
         /\ places' \in PlacesAfter(failed, Configured(i, crucial))
         /\ inv' = IF failed THEN inv ELSE i
         /\ loose' = IF failed \/ crucial THEN UNION {loose, i.conf, inv.conf, pool}
                     ELSE (loose \ i.conf) \union (inv.conf \ i.conf) \union (pool \ i.conf)
  BY DEF PlayAll
<1>3. Configured(i, crucial) \in PlacesRec
  BY <1>1 DEF Configured, TypeOK, PlacesRec
<1>4. places' \in PlacesRec
  BY <1>2, <1>3, PlacesTypeOK DEF TypeOK
<1>5. inv' \in InventoryRec
  BY <1>1, <1>2 DEF TypeOK
<1>6. loose' \subseteq Names
  BY <1>1, <1>2 DEF TypeOK, InventoryRec
<1>7. faults' \in Nat
  BY <1>2, FaultTypeOK DEF Plays, TypeOK
<1>8. run' \in [Runs -> RunRec]
  BY GoEffect DEF PlayAll, TypeOK, PCs
<1>. QED
  BY <1>4, <1>5, <1>6, <1>7, <1>8, Zenon DEF PlayAll, TypeOK, marks

LEMMA StopAnsweringTypeOK ==
  ASSUME TypeOK, NEW n \in Names, StopAnswering(n)
  PROVE  TypeOK'
<1>1. faults' \in Nat
  BY FaultTypeOK DEF StopAnswering, TypeOK
<1>2. up' \subseteq Names
  BY DEF StopAnswering, TypeOK
<1>. QED
  BY <1>1, <1>2, Zenon DEF StopAnswering, TypeOK, marks

LEMMA AnswerAgainTypeOK ==
  ASSUME TypeOK, NEW n \in Names, AnswerAgain(n)
  PROVE  TypeOK'
<1>1. up' \subseteq Names
  BY DEF AnswerAgain, TypeOK
<1>. QED
  BY <1>1, Zenon DEF AnswerAgain, TypeOK, counters, marks

LEMMA NextTypeOK ==
  ASSUME TypeOK, [Next]_vars
  PROVE  TypeOK'
<1>1. ASSUME NEW r \in Runs, Look(r) \/ RunStep(r) \/ Kill(r)
      PROVE  TypeOK'
  <2>1. CASE Look(r)
    BY <2>1, LookTypeOK
  <2>2. CASE Kill(r)
    BY <2>2, KillTypeOK
  <2>3. CASE CreateLock(r) \/ List(r) \/ Probe(r) \/ Finish(r)
    BY <2>3, CreateLockTypeOK, ListTypeOK, ProbeTypeOK, FinishTypeOK
  <2>4. CASE Removal(r)
    BY <2>4, UninstallTypeOK, PlayRemoveTypeOK, CommitRemovalTypeOK, TerminateTypeOK
       DEF Removal
  <2>7. CASE Sizing(r)
    BY <2>7, MeasureTypeOK, RecordTypeOK, UnansweredTypeOK DEF Sizing
  <2>5. CASE Addition(r)
    BY <2>5, GrowTypeOK, GrowRefusedTypeOK, DraftTypeOK, PlayAddTypeOK DEF Addition
  <2>6. CASE Reconfiguration(r)
    BY <2>6, DraftTypeOK, PlayAllTypeOK DEF Reconfiguration
  <2>. QED
    BY <1>1, <2>1, <2>2, <2>3, <2>4, <2>5, <2>6, <2>7 DEF RunStep
<1>2. ASSUME NEW n \in Names, StopAnswering(n) \/ AnswerAgain(n)
      PROVE  TypeOK'
  BY <1>2, StopAnsweringTypeOK, AnswerAgainTypeOK
<1>3. CASE UNCHANGED vars
  BY <1>3, Zenon DEF vars, counters, marks, TypeOK
<1>. QED
  BY <1>1, <1>2, <1>3 DEF Next

(* Type correctness: whatever runs overlap, fail or are killed, the state  *)
(* keeps its type; no size that is counted leaves the natural numbers.     *)
THEOREM TypeCorrect == Spec => []TypeOK
<1>1. Init => TypeOK
  BY InitTypeOK
<1>2. TypeOK /\ [Next]_vars => TypeOK'
  BY NextTypeOK
<1>. QED
  BY <1>1, <1>2, PTL DEF Spec

-----------------------------------------------------------------------------
(* What a run's own record says of where it is.  It is told what to remove *)
(* in Probe and not before; it terminates nothing unless Ansible's removal *)
(* of some node went well, or --force or --no_reconfigure was given; only  *)
(* an add or a reconfigure writes an inventory with new nodes.             *)
Bounded(u) ==
    u.req.mode = "remove" /\ u.req.nodes = {} /\ ~u.req.sweep =>
        Cardinality(u.to_remove) <= u.req.number

AddsOnly(u) ==
    u.req.mode = "add" /\ ~u.req.sweep =>
        u.to_remove = {} /\ u.pc \notin {"uninstall", "play_remove", "terminate", "record"}

(* One of the playbooks went well, or an option says to go on without.     *)
Cleared(u) ==
    u.req.force = TRUE \/ u.req.no_reconfigure = TRUE \/ u.to_remove \ u.broke # {}

RunOK(u) ==
    /\ u.pc = "off" => u = Off
    /\ u.pc = "create" => TakesLock(u.req)
    /\ u.pc \in {"create", "list", "probe"} => u.to_remove = {} /\ u.flag = 0
    /\ u.pc \in {"create", "list", "probe", "uninstall"} => u.broke = {}
    /\ u.pc \in {"uninstall", "play_remove"} => u.to_remove # {}
    /\ u.pc \in {"grow", "measure", "record_new"} => u.req.mode = "add"
    /\ u.pc \in {"draft_add", "play_add", "draft_all", "play_all"} =>
         u.req.mode \in {"add", "reconfigure"}
    /\ u.pc = "play_remove" =>
         /\ u.draft.nfs \notin u.to_remove /\ u.draft.add = {}
         /\ u.todo \subseteq u.to_remove /\ u.broke \intersect u.todo = {}
         /\ u.flag = 0 /\ u.todo # u.to_remove => u.to_remove \ u.broke # {}
    /\ u.pc = "play_all" => u.draft.add = {}
    /\ u.pc = "terminate" => u.todo \subseteq u.to_remove /\ Cleared(u)
    /\ Bounded(u)
    /\ AddsOnly(u)

RunsOK == \A r \in Runs : RunOK(run[r])

LEMMA OffOK == RunOK(Off)
<1>1. Cardinality({}) = 0
  BY FS_EmptySet
<1>. QED
  BY <1>1 DEF RunOK, Off, Bounded, AddsOnly, NoRequest

(* A step that changes nothing but the place of its run. *)
LEMMA GoOK ==
  ASSUME NEW u \in RunRec, RunOK(u), NEW pc \in PCs,
         pc \notin {"off", "create", "list", "probe", "uninstall", "play_remove", "terminate",
                    "record", "play_all"},
         pc \in {"grow", "measure", "record_new"} => u.req.mode = "add",
         pc \in {"draft_add", "play_add", "draft_all"} => u.req.mode \in {"add", "reconfigure"}
  PROVE  RunOK([u EXCEPT !.pc = pc])
  BY DEF RunOK, RunRec, Bounded, AddsOnly

LEMMA ByNumberBound ==
  ASSUME NEW q \in RequestRec, NEW instances \in SUBSET Names,
         NEW T \in ByNumber(q, {}, instances)
  PROVE  Cardinality(T) <= q.number
<1>1. Cardinality({}) = 0 /\ q.number \in Nat
  BY FS_EmptySet DEF RequestRec
<1>2. CASE q.number <= 0
  BY <1>1, <1>2 DEF ByNumber
<1>3. CASE ~(q.number <= 0) /\ q.number >= Cardinality(instances)
  BY <1>1, <1>3, NamesFinite DEF ByNumber
<1>4. CASE ~(q.number <= 0) /\ ~(q.number >= Cardinality(instances))
  <2>1. q.number - Cardinality({}) = q.number
    BY <1>1
  <2>2. T \in {{} \union S : S \in kSubset(q.number, instances \ {inv.nfs})}
    <3> DEFINE k == q.number - Cardinality({})
               K == {{} \union S : S \in kSubset(k, instances \ {inv.nfs})}
    <3>1. ~(k <= 0) /\ ~(k >= Cardinality(instances))
      BY <1>4, <2>1
    <3>2. T \in IF k <= 0 THEN {{}}
                ELSE IF k >= Cardinality(instances) THEN {instances} ELSE K
      BY Zenon DEF ByNumber
    <3>3. k = q.number
      BY <2>1
    <3> HIDE DEF k, K
    <3>4. T \in K
      BY <3>1, <3>2
    <3>. QED
      BY <3>3, <3>4, Zenon DEF K
  <2>3. PICK S \in kSubset(q.number, instances \ {inv.nfs}) : T = {} \union S
    BY <2>2
  <2>4. T = S /\ Cardinality(S) = q.number
    BY <2>3 DEF kSubset
  <2>. QED
    BY <1>1, <2>4
<1>. QED
  BY <1>2, <1>3, <1>4

(* What a run without --remove_unreachable may remove. *)
LEMMA ToRemoveBound ==
  ASSUME TypeOK, NEW r \in Runs, NEW T \in ToRemove(r), run[r].req.sweep # TRUE
  PROVE  /\ run[r].req.mode = "add" => T = {}
         /\ run[r].req.mode = "remove" /\ run[r].req.nodes = {} =>
              /\ Cardinality(T) <= run[r].req.number
              /\ T \in ByNumber(run[r].req, {}, run[r].cn_instances)
<1> DEFINE q == run[r].req
           dead == Unreachable(r)
<1>1. q \in RequestRec /\ q.sweep \in BOOLEAN /\ run[r].cn_instances \in SUBSET Names
  BY DEF TypeOK, RunRec, RequestRec
<1>2. ~q.sweep
  BY <1>1
<1>3. T \in IF q.mode = "remove_unreachable"
             THEN IF q.nodes = {} THEN {dead} \ {{}} ELSE {q.nodes}
             ELSE IF dead # {} /\ ~q.sweep THEN {}
             ELSE IF q.mode = "add" THEN {dead}
             ELSE IF q.nodes # {} THEN {q.nodes \union dead}
             ELSE ByNumber(q, dead, run[r].cn_instances)
  BY Zenon DEF ToRemove
<1> HIDE DEF q, dead
<1>4. ASSUME q.mode # "remove_unreachable"
      PROVE  dead = {}
  <2> SUFFICES ASSUME dead # {} PROVE FALSE
    OBVIOUS
  <2>1. T \in {}
    BY <1>2, <1>3, <1>4
  <2>. QED
    BY <2>1
<1>5. ASSUME q.mode = "add"
      PROVE  T = {}
  <2>1. dead = {}
    BY <1>4, <1>5
  <2>2. T \in {dead}
    BY <1>3, <1>5, <2>1
  <2>. QED
    BY <2>1, <2>2
<1>6. ASSUME q.mode = "remove", q.nodes = {}
      PROVE  T \in ByNumber(q, {}, run[r].cn_instances)
  BY <1>2, <1>3, <1>4, <1>6
<1>7. ASSUME q.mode = "remove", q.nodes = {}
      PROVE  Cardinality(T) <= q.number
  BY <1>1, <1>6, <1>7, ByNumberBound
<1>. QED
  BY <1>5, <1>6, <1>7 DEF q

LEMMA ProbeOK ==
  ASSUME TypeOK, RunsOK, NEW r \in Runs, Probe(r)
  PROVE  RunOK(run'[r])
<1>1. run[r] \in RunRec /\ RunOK(run[r]) /\ run[r].pc = "probe"
  BY DEF TypeOK, RunsOK, Probe
<1>2. CASE run'[r] = [run[r] EXCEPT !.pc = "end"]
  BY <1>1, <1>2, GoOK DEF PCs
<1>3. ASSUME NEW T \in ToRemove(r),
             run'[r] = [run[r] EXCEPT !.pc = AfterProbe(run[r].req, T),
                                      !.to_remove = T, !.todo = T,
                                      !.current_size =
                                          IF AfterProbe(run[r].req, T) = "terminate"
                                          THEN PoolSize ELSE @]
      PROVE  RunOK(run'[r])
  <2> DEFINE q == run[r].req
             pc == AfterProbe(q, T)
             u == run'[r]
  <2>1. pc \in {"terminate", "uninstall", "grow", "end"}
    BY DEF AfterProbe
  <2>2. /\ pc = "grow" => q.mode = "add"
        /\ T = {} => pc \in {"grow", "end"}
        /\ pc = "terminate" => q.no_reconfigure
    BY DEF AfterProbe
  <2>3. /\ u.pc = pc /\ u.to_remove = T /\ u.todo = T /\ u.flag = run[r].flag
        /\ u.req = q /\ u.broke = run[r].broke
    <3> HIDE DEF pc
    <3>. QED
      BY <1>1, <1>3 DEF RunRec, pc
  <2>4. u.flag = 0 /\ u.broke = {}
    BY <1>1, <2>3 DEF RunOK
  <2>7. pc = "terminate" => Cleared(u)
    <3>1. q.no_reconfigure \in BOOLEAN
      BY <1>1 DEF RunRec, RequestRec
    <3>. QED
      BY <2>2, <2>3, <3>1, Zenon DEF Cleared
  <2>5. Bounded(u)
    BY <2>3, ToRemoveBound DEF Bounded
  <2>6. AddsOnly(u)
    BY <2>1, <2>2, <2>3, ToRemoveBound DEF AddsOnly
  <2> HIDE DEF pc, u
  <2>. QED
    BY <2>1, <2>2, <2>3, <2>4, <2>5, <2>6, <2>7 DEF RunOK, u
<1>. QED
  BY <1>2, <1>3, ProbeEffect

LEMMA NextRunOK ==
  ASSUME TypeOK, RunsOK, NothingHalfAdded, NEW r \in Runs, Look(r) \/ RunStep(r) \/ Kill(r)
  PROVE  RunOK(run'[r])
<1> USE DEF PCs
<1>1. run[r] \in RunRec /\ RunOK(run[r]) /\ run \in [Runs -> RunRec]
  BY DEF TypeOK, RunsOK
<1>2. CASE Look(r)
  <2>1. PICK q \in RequestRec :
          run'[r] = [Off EXCEPT !.pc = IF TakesLock(q) THEN "create" ELSE "list", !.req = q]
    BY <1>2, LookEffect
  <2>2. Cardinality({}) = 0 /\ q.number \in Nat
    BY FS_EmptySet, RequestFields
  <2>3. /\ run'[r].pc \in {"create", "list"} /\ run'[r].req = q
        /\ run'[r].to_remove = {} /\ run'[r].broke = {} /\ run'[r].flag = 0
    BY <2>1 DEF Off
  <2>4. run'[r].pc = "create" => TakesLock(q)
    BY <2>1 DEF Off
  <2>. QED
    BY <2>2, <2>3, <2>4 DEF RunOK, Bounded, AddsOnly
<1>3. CASE CreateLock(r)
  <2>1. run'[r] = [run[r] EXCEPT !.pc = "list"]
    BY <1>1, <1>3, GoEffect DEF CreateLock
  <2>. QED
    BY <1>1, <1>3, <2>1 DEF RunOK, RunRec, Bounded, AddsOnly, CreateLock
<1>4. CASE List(r)
  <2>1. PICK L \in SUBSET Names :
          run'[r] = [run[r] EXCEPT !.pc = AfterListing(run[r].req), !.cn_instances = L,
                                   !.known = Compute(inv), !.current_size = PoolSize]
    BY <1>4, ListEffect
  <2>2. run'[r].pc = AfterListing(run[r].req)
    BY <1>1, <2>1 DEF RunRec
  <2>3. /\ run'[r].req = run[r].req /\ run'[r].to_remove = run[r].to_remove
        /\ run'[r].flag = run[r].flag /\ run'[r].broke = run[r].broke
    BY <1>1, <2>1 DEF RunRec
  <2>4. /\ AfterListing(run[r].req) \in {"probe", "draft_add", "draft_all"}
        /\ AfterListing(run[r].req) # "probe" => run[r].req.mode = "reconfigure"
    <3>1. CASE run[r].req.mode = "reconfigure"
      BY <3>1 DEF AfterListing
    <3>2. CASE run[r].req.mode # "reconfigure"
      BY <3>2 DEF AfterListing
    <3>. QED
      BY <3>1, <3>2
  <2>. QED
    BY <1>1, <1>4, <2>2, <2>3, <2>4 DEF RunOK, Bounded, AddsOnly, List
<1>5. CASE Probe(r)
  BY <1>5, ProbeOK
<1>6. CASE Finish(r)
  BY <1>1, <1>6, OffEffect, OffOK DEF Finish
<1>7. CASE Kill(r)
  BY <1>1, <1>7, OffEffect, OffOK DEF Kill
<1>8. CASE Uninstall(r)
  <2> DEFINE i == Without(inv, run[r].to_remove)
  <2>1. run'[r] = [run[r] EXCEPT !.pc = "play_remove", !.draft = i,
                                 !.todo = run[r].to_remove, !.flag = 0]
    BY <1>8, UninstallEffect
  <2>2. i.add = {} /\ i.nfs \notin run[r].to_remove
    BY <1>1 DEF Without, NothingHalfAdded, RunRec
  <2> HIDE DEF i
  <2>3. AddsOnly(run'[r])
    BY <1>1, <1>8, <2>1 DEF RunOK, RunRec, AddsOnly, Uninstall
  <2>4. /\ run'[r].pc = "play_remove" /\ run'[r].draft = i /\ run'[r].req = run[r].req
        /\ run'[r].to_remove = run[r].to_remove /\ run'[r].todo = run[r].to_remove
        /\ run'[r].broke = run[r].broke
    BY <1>1, <2>1 DEF RunRec
  <2>5. run[r].to_remove # {} /\ run[r].broke = {} /\ Bounded(run[r])
    BY <1>1, <1>8 DEF RunOK, Uninstall
  <2>. QED
    BY <2>2, <2>3, <2>4, <2>5 DEF RunOK, Bounded
<1>9. CASE PlayRemove(r)
  <2>1. PICK n \in run[r].todo, flag \in {0, 1}, broke \in SUBSET Names :
          /\ run'[r] = [run[r] EXCEPT !.todo = @ \ {n}, !.flag = flag, !.broke = broke]
          /\ broke = IF flag = 0 THEN run[r].broke ELSE run[r].broke \union {n}
    BY <1>9, PlayRemoveEffect
  <2>2. /\ run'[r].pc = "play_remove" /\ run'[r].draft = run[r].draft
        /\ run'[r].req = run[r].req /\ run'[r].to_remove = run[r].to_remove
        /\ run'[r].todo = run[r].todo \ {n} /\ run'[r].flag = flag /\ run'[r].broke = broke
    BY <1>1, <1>9, <2>1 DEF RunRec, PlayRemove
  <2>3. /\ run[r].draft.nfs \notin run[r].to_remove /\ run[r].draft.add = {}
        /\ run[r].todo \subseteq run[r].to_remove /\ run[r].to_remove # {}
        /\ run[r].broke \intersect run[r].todo = {}
        /\ Bounded(run[r]) /\ AddsOnly(run[r])
    BY <1>1, <1>9 DEF RunOK, PlayRemove
  <2>4. broke \intersect (run[r].todo \ {n}) = {}
    BY <2>1, <2>3
  <2>5. flag = 0 => run[r].to_remove \ broke # {}
    BY <2>1, <2>3
  <2>6. Bounded(run'[r]) /\ AddsOnly(run'[r])
    BY <1>9, <2>2, <2>3 DEF Bounded, AddsOnly, PlayRemove
  <2>. QED
    BY <2>2, <2>3, <2>4, <2>5, <2>6 DEF RunOK
<1>10. CASE CommitRemoval(r)
  <2>1. CASE run'[r] = [run[r] EXCEPT !.pc = "end"]
    BY <1>1, <2>1, GoOK
  <2>2. CASE /\ run[r].flag = 0 \/ run[r].req.force
             /\ run'[r] = [run[r] EXCEPT !.pc = "terminate", !.todo = run[r].to_remove,
                                         !.current_size = PoolSize]
    <3>1. run[r].flag = 0 \/ run[r].req.force = TRUE
      BY <1>1, <2>2, Zenon DEF RunRec, RequestRec
    <3>2. /\ run'[r].pc = "terminate" /\ run'[r].req = run[r].req
          /\ run'[r].to_remove = run[r].to_remove /\ run'[r].todo = run[r].to_remove
          /\ run'[r].broke = run[r].broke
      BY <1>1, <2>2 DEF RunRec
    <3>3. /\ run[r].to_remove # {} /\ Bounded(run[r]) /\ AddsOnly(run[r])
          /\ run[r].flag = 0 => run[r].to_remove \ run[r].broke # {}
      BY <1>1, <1>10 DEF RunOK, CommitRemoval
    <3>4. Cleared(run'[r])
      BY <3>1, <3>2, <3>3 DEF Cleared
    <3>5. Bounded(run'[r]) /\ AddsOnly(run'[r])
      BY <1>10, <3>2, <3>3 DEF Bounded, AddsOnly, CommitRemoval
    <3>. QED
      BY <3>2, <3>4, <3>5 DEF RunOK
  <2>. QED
    BY <1>10, <2>1, <2>2, CommitRemovalEffect
<1>11. CASE Terminate(r)
  <2>1. PICK n \in run[r].todo : run'[r] = [run[r] EXCEPT !.todo = @ \ {n}]
    BY <1>11, TerminateEffect
  <2>2. /\ run'[r].pc = "terminate" /\ run'[r].req = run[r].req
        /\ run'[r].to_remove = run[r].to_remove /\ run'[r].todo = run[r].todo \ {n}
        /\ run'[r].broke = run[r].broke
    BY <1>1, <1>11, <2>1 DEF RunRec, Terminate
  <2>3. /\ run[r].todo \subseteq run[r].to_remove /\ Cleared(run[r])
        /\ Bounded(run[r]) /\ AddsOnly(run[r])
    BY <1>1, <1>11 DEF RunOK, Terminate
  <2>4. Cleared(run'[r]) /\ Bounded(run'[r]) /\ AddsOnly(run'[r])
    BY <1>11, <2>2, <2>3 DEF Cleared, Bounded, AddsOnly, Terminate
  <2>. QED
    BY <2>2, <2>3, <2>4 DEF RunOK
<1>12. CASE Measure(r)
  <2>1. PICK pc \in {"record", "record_new"} :
          /\ run'[r] = [run[r] EXCEPT !.pc = pc, !.newsize = PoolSize]
          /\ pc = IF run[r].pc = "measure" THEN "record_new" ELSE "record"
    BY <1>12, MeasureEffect
  <2>2. /\ run'[r].pc = pc /\ run'[r].req = run[r].req
        /\ run'[r].to_remove = run[r].to_remove
    BY <1>1, <2>1 DEF RunRec
  <2>3. run[r].pc \in {"measure", "terminate"} /\ Bounded(run[r]) /\ AddsOnly(run[r])
    BY <1>1, <1>12 DEF RunOK, Measure, Resized
  <2>4. pc = "record_new" => run[r].req.mode = "add"
    BY <1>1, <2>1 DEF RunOK
  <2>5. Bounded(run'[r]) /\ AddsOnly(run'[r])
    BY <2>1, <2>2, <2>3 DEF Bounded, AddsOnly
  <2>. QED
    BY <2>2, <2>4, <2>5 DEF RunOK
<1>19. CASE Record(r)
  <2>1. /\ run'[r] = [run[r] EXCEPT !.pc = AfterRecord(run[r])]
        /\ run[r].pc \in {"record", "record_new"}
    BY <1>19, RecordEffect DEF Record
  <2>2. /\ AfterRecord(run[r]) \in {"grow", "end", "draft_add"}
        /\ AfterRecord(run[r]) # "end" => run[r].req.mode = "add"
    BY <1>1, <2>1, AfterRecordIs DEF RunOK
  <2> DEFINE pc == AfterRecord(run[r])
  <2> HIDE DEF pc
  <2>3. RunOK([run[r] EXCEPT !.pc = pc])
    BY <1>1, <2>2, GoOK DEF pc
  <2>. QED
    BY <2>1, <2>3 DEF pc
<1>20. CASE Unanswered(r)
  <2>1. Go(r, "end")
    BY <1>20 DEF Unanswered
  <2>2. run'[r] = [run[r] EXCEPT !.pc = "end"]
    BY <1>1, <2>1, GoEffect
  <2>. QED
    BY <1>1, <2>2, GoOK
<1>13. CASE Grow(r)
  <2>1. /\ run'[r].pc \in {"end", "measure"}
        /\ run'[r] = [run[r] EXCEPT !.pc = run'[r].pc]
    BY <1>13, GrowEffect
  <2>2. run[r].req.mode = "add"
    BY <1>1, <1>13 DEF Grow, RunOK
  <2>3. RunOK([run[r] EXCEPT !.pc = run'[r].pc])
    BY <1>1, <2>1, <2>2, GoOK
  <2>. QED
    BY <2>1, <2>3
<1>14. CASE GrowRefused(r)
  <2>1. Go(r, "end")
    BY <1>14 DEF GrowRefused
  <2>2. run'[r] = [run[r] EXCEPT !.pc = "end"]
    BY <1>1, <2>1, GoEffect
  <2>. QED
    BY <1>1, <2>2, GoOK
<1>15. CASE DraftAdd(r)
  <2>1. PICK i \in InventoryRec : run'[r] = [run[r] EXCEPT !.pc = "play_add", !.draft = i]
    BY <1>15, DraftAddEffect
  <2>2. /\ run'[r].pc = "play_add" /\ run'[r].req = run[r].req
        /\ run'[r].to_remove = run[r].to_remove
    BY <1>1, <2>1 DEF RunRec
  <2>. QED
    BY <1>1, <1>15, <2>2 DEF RunOK, Bounded, AddsOnly, DraftAdd
<1>16. CASE DraftAll(r)
  <2>1. PICK i \in InventoryRec :
          i.add = {} /\ run'[r] = [run[r] EXCEPT !.pc = "play_all", !.draft = i]
    BY <1>16, DraftAllEffect
  <2>2. /\ run'[r].pc = "play_all" /\ run'[r].req = run[r].req /\ run'[r].draft.add = {}
        /\ run'[r].to_remove = run[r].to_remove
    BY <1>1, <2>1 DEF RunRec
  <2>. QED
    BY <1>1, <1>16, <2>2 DEF RunOK, Bounded, AddsOnly, DraftAll
<1>17. CASE PlayAdd(r)
  <2>1. Go(r, "end")
    BY <1>17 DEF PlayAdd
  <2>2. run'[r] = [run[r] EXCEPT !.pc = "end"]
    BY <1>1, <2>1, GoEffect
  <2>. QED
    BY <1>1, <2>2, GoOK
<1>18. CASE PlayAll(r)
  <2>1. Go(r, "end")
    BY <1>18 DEF PlayAll
  <2>2. run'[r] = [run[r] EXCEPT !.pc = "end"]
    BY <1>1, <2>1, GoEffect
  <2>. QED
    BY <1>1, <2>2, GoOK
<1>. QED
  BY <1>2, <1>3, <1>4, <1>5, <1>6, <1>7, <1>8, <1>9, <1>10, <1>11, <1>12, <1>13, <1>14,
     <1>15, <1>16, <1>17, <1>18, <1>19, <1>20
     DEF RunStep, Removal, Sizing, Addition, Reconfiguration

-----------------------------------------------------------------------------
(* What is true of all runs together, as long as none has overlapped       *)
(* another: the one that works is alone, an add that removes nothing knows *)
(* the pool's size, and a removal by number spares the NFS node.           *)
Alone ==
    ~mixed => \A r, s \in Runs : run[r].pc # "off" /\ run[s].pc # "off" => r = s

SizeKnown ==
    ~mixed => \A r \in Runs :
        run[r].req.mode = "add" /\ run[r].req.sweep # TRUE /\ run[r].pc \in {"probe", "grow"}
        => run[r].current_size = Cardinality(pool)

NfsSpared ==
    ~mixed => \A r \in Runs :
        run[r].req.mode = "remove" /\ run[r].req.nodes = {} /\ run[r].req.sweep # TRUE
            /\ inv.nfs \in run[r].to_remove
        => run[r].cn_instances \subseteq run[r].to_remove

(* The size a run has read is still the pool's when it writes it down. *)
Measured ==
    ~mixed => \A r \in Runs :
        run[r].pc \in {"record", "record_new"} => run[r].newsize = Cardinality(pool)

(* Of the runs that take the lock, too, one is alone. *)
LockAlone == ~crossed => \A r, s \in Runs : Locking(r) /\ Locking(s) => r = s

IInv ==
    /\ TypeOK /\ RunsOK /\ NothingHalfAdded
    /\ Alone /\ SizeKnown /\ NfsSpared /\ Measured
    /\ LockAlone /\ StateKnowsSize /\ LockMeansRunning

(* The steps between the taking of the lock and the last one. *)
Middle(r) ==
    List(r) \/ Probe(r) \/ Removal(r) \/ Sizing(r) \/ Addition(r) \/ Reconfiguration(r)

LEMMA StepOthers ==
  ASSUME TypeOK, NEW r \in Runs, Look(r) \/ RunStep(r) \/ Kill(r)
  PROVE  Others(r)
<1> USE DEF TypeOK, PCs
<1>1. CASE Look(r) \/ List(r) \/ Probe(r)
  BY <1>1, LookEffect, ListEffect, ProbeEffect
<1>2. CASE Kill(r) \/ Finish(r)
  BY <1>2, OffEffect DEF Kill, Finish
<1>3. CASE CreateLock(r)
  BY <1>3, GoEffect DEF CreateLock
<1>4. CASE Removal(r)
  BY <1>4, UninstallEffect, PlayRemoveEffect, CommitRemovalEffect, TerminateEffect DEF Removal
<1>7. CASE Sizing(r)
  BY <1>7, MeasureEffect, RecordEffect, GoEffect DEF Sizing, Unanswered
<1>5. CASE Addition(r)
  BY <1>5, GrowEffect, DraftAddEffect, GoEffect DEF Addition, GrowRefused, PlayAdd
<1>6. CASE Reconfiguration(r)
  BY <1>6, DraftAllEffect, GoEffect DEF Reconfiguration, PlayAll
<1>. QED
  BY <1>1, <1>2, <1>3, <1>4, <1>5, <1>6, <1>7 DEF RunStep

Same(u, v) == v.req = u.req /\ v.pc \notin {"off", "create"}

LEMMA MiddleStep ==
  ASSUME TypeOK, NEW r \in Runs, Middle(r)
  PROVE  /\ run[r].pc \notin {"off", "create"} /\ run'[r].pc \notin {"off", "create"}
         /\ run'[r].req = run[r].req
         /\ UNCHANGED <<lock, mixed, crossed, killed>>
<1> USE DEF PCs
<1>1. run[r] \in RunRec /\ run \in [Runs -> RunRec]
  BY DEF TypeOK
<1>2. UNCHANGED <<lock, mixed, crossed, killed>>
  BY Zenon DEF Middle, Removal, Sizing, Addition, Reconfiguration, List, Probe, Uninstall,
       PlayRemove, CommitRemoval, Terminate, Measure, Record, Unanswered, Grow, GrowRefused,
       DraftAdd, PlayAdd, DraftAll, PlayAll, marks
<1>3. run[r].pc \notin {"off", "create"}
  BY DEF Middle, Removal, Sizing, Addition, Reconfiguration, List, Probe, Uninstall, PlayRemove,
       CommitRemoval, Terminate, Measure, Resized, Record, Unanswered, Grow, GrowRefused,
       DraftAdd, PlayAdd, DraftAll, PlayAll
<1> SUFFICES Same(run[r], run'[r])
  BY <1>2, <1>3 DEF Same
<1>4. ASSUME NEW pc \in PCs \ {"off", "create"}, Go(r, pc)
      PROVE  Same(run[r], run'[r])
  <2>1. run'[r] = [run[r] EXCEPT !.pc = pc]
    BY <1>1, <1>4, GoEffect
  <2>2. run'[r].pc = pc /\ run'[r].req = run[r].req
    BY <1>1, <2>1 DEF RunRec
  <2>. QED
    BY <2>2 DEF Same
<1>5. CASE List(r)
  <2>1. AfterListing(run[r].req) \notin {"off", "create"}
    BY DEF AfterListing
  <2>2. PICK L \in SUBSET Names :
          run'[r] = [run[r] EXCEPT !.pc = AfterListing(run[r].req), !.cn_instances = L,
                                   !.known = Compute(inv), !.current_size = PoolSize]
    BY <1>5, ListEffect
  <2>3. run'[r].pc = AfterListing(run[r].req) /\ run'[r].req = run[r].req
    BY <1>1, <2>2 DEF RunRec
  <2>. QED
    BY <2>1, <2>3 DEF Same
<1>6. CASE Probe(r)
  <2>1. \A T \in ToRemove(r) : AfterProbe(run[r].req, T) \notin {"off", "create"}
    BY DEF AfterProbe
  <2>2. CASE run'[r] = [run[r] EXCEPT !.pc = "end"]
    BY <1>1, <2>2 DEF RunRec, Same
  <2>3. ASSUME NEW T \in ToRemove(r),
               run'[r] = [run[r] EXCEPT !.pc = AfterProbe(run[r].req, T),
                                        !.to_remove = T, !.todo = T,
                                        !.current_size =
                                            IF AfterProbe(run[r].req, T) = "terminate"
                                            THEN PoolSize ELSE @]
        PROVE  Same(run[r], run'[r])
    <3> DEFINE pc == AfterProbe(run[r].req, T)
    <3>1. pc \notin {"off", "create"}
      BY <2>1
    <3> HIDE DEF pc
    <3>2. run'[r].pc = pc /\ run'[r].req = run[r].req
      BY <1>1, <2>3 DEF RunRec, pc
    <3>. QED
      BY <3>1, <3>2 DEF Same
  <2>4. \/ run'[r] = [run[r] EXCEPT !.pc = "end"]
        \/ \E T \in ToRemove(r) :
             run'[r] = [run[r] EXCEPT !.pc = AfterProbe(run[r].req, T),
                                      !.to_remove = T, !.todo = T,
                                      !.current_size =
                                          IF AfterProbe(run[r].req, T) = "terminate"
                                          THEN PoolSize ELSE @]
    BY <1>6, ProbeEffect
  <2>. QED
    BY <2>2, <2>3, <2>4, Zenon
<1>7. CASE Uninstall(r)
  <2>1. run'[r] = [run[r] EXCEPT !.pc = "play_remove",
                                 !.draft = Without(inv, run[r].to_remove),
                                 !.todo = run[r].to_remove, !.flag = 0]
    BY <1>7, UninstallEffect
  <2>. QED
    BY <1>1, <2>1 DEF RunRec, Same
<1>8. CASE CommitRemoval(r)
  <2>1. CASE run'[r] = [run[r] EXCEPT !.pc = "end"]
    BY <1>1, <2>1 DEF RunRec, Same
  <2>2. CASE run'[r] = [run[r] EXCEPT !.pc = "terminate", !.todo = run[r].to_remove,
                                      !.current_size = PoolSize]
    BY <1>1, <2>2 DEF RunRec, Same
  <2>. QED
    BY <1>8, <2>1, <2>2, CommitRemovalEffect
<1>13. CASE PlayRemove(r)
  <2>1. PICK n \in run[r].todo, flag \in {0, 1}, broke \in SUBSET Names :
          /\ run'[r] = [run[r] EXCEPT !.todo = @ \ {n}, !.flag = flag, !.broke = broke]
          /\ broke = IF flag = 0 THEN run[r].broke ELSE run[r].broke \union {n}
    BY <1>13, PlayRemoveEffect
  <2>. QED
    BY <1>1, <1>3, <2>1 DEF RunRec, Same
<1>14. CASE Terminate(r)
  <2>1. PICK n \in run[r].todo : run'[r] = [run[r] EXCEPT !.todo = @ \ {n}]
    BY <1>14, TerminateEffect
  <2>. QED
    BY <1>1, <1>3, <2>1 DEF RunRec, Same
<1>9. CASE Measure(r)
  <2>1. PICK pc \in {"record", "record_new"} :
          run'[r] = [run[r] EXCEPT !.pc = pc, !.newsize = PoolSize]
    BY <1>9, MeasureEffect
  <2>. QED
    BY <1>1, <2>1 DEF RunRec, Same
<1>15. CASE Record(r)
  <2>1. Go(r, AfterRecord(run[r]))
    BY <1>15 DEF Record
  <2>. QED
    BY <1>4, <2>1, AfterRecordIs
<1>10. CASE Grow(r)
  <2>1. run'[r].pc \in {"end", "measure"} /\ run'[r] = [run[r] EXCEPT !.pc = run'[r].pc]
    BY <1>10, GrowEffect
  <2>. QED
    BY <1>1, <2>1 DEF RunRec, Same
<1>11. CASE Unanswered(r) \/ GrowRefused(r) \/ PlayAdd(r) \/ PlayAll(r)
  <2>1. Go(r, "end")
    BY <1>11 DEF Unanswered, GrowRefused, PlayAdd, PlayAll
  <2>. QED
    BY <1>4, <2>1
<1>12. CASE DraftAdd(r) \/ DraftAll(r)
  <2>1. PICK i \in InventoryRec, pc \in {"play_add", "play_all"} :
          run'[r] = [run[r] EXCEPT !.pc = pc, !.draft = i]
    BY <1>12, DraftAddEffect, DraftAllEffect
  <2>. QED
    BY <1>1, <2>1 DEF RunRec, Same
<1>. QED
  BY <1>5, <1>6, <1>7, <1>8, <1>9, <1>10, <1>11, <1>12, <1>13, <1>14, <1>15
     DEF Middle, Removal, Sizing, Addition, Reconfiguration

LEMMA RunsOKStep ==
  ASSUME TypeOK, RunsOK, NothingHalfAdded, NEW r \in Runs, Look(r) \/ RunStep(r) \/ Kill(r)
  PROVE  RunsOK'
<1>1. RunOK(run'[r]) /\ Others(r)
  BY NextRunOK, StepOthers
<1>2. \A s \in Runs : RunOK(run'[s])
  BY <1>1 DEF Others, RunsOK
<1>. QED
  BY <1>2 DEF RunsOK

(* The inventory on disk gets its new content from a removal's draft, from *)
(* an add's with its nodes moved, or from a reconfiguration's.             *)
LEMMA InventoryStep ==
  ASSUME TypeOK, NEW r \in Runs, Look(r) \/ RunStep(r) \/ Kill(r)
  PROVE  \/ inv' = inv
         \/ CommitRemoval(r) /\ inv' = run[r].draft
         \/ PlayAdd(r) /\ inv'.add = {}
         \/ PlayAll(r) /\ inv' = run[r].draft
<1>1. CASE PlayAdd(r)
  <2>1. run[r].draft \in InventoryRec
    BY DEF TypeOK, RunRec
  <2>. QED
    BY <1>1, <2>1 DEF PlayAdd, InventoryRec
<1>2. CASE PlayAll(r)
  BY <1>2 DEF PlayAll
<1>3. CASE CommitRemoval(r)
  BY <1>3 DEF CommitRemoval
<1>. QED
  BY <1>1, <1>2, <1>3, Zenon DEF RunStep, Removal, Sizing, Addition, Reconfiguration, Look,
     CreateLock, List, Probe, Finish, Kill, Uninstall, PlayRemove, Terminate, Measure, Record,
     Unanswered, Grow, GrowRefused, DraftAdd, DraftAll

LEMMA NothingHalfAddedStep ==
  ASSUME TypeOK, RunsOK, NothingHalfAdded, NEW r \in Runs, Look(r) \/ RunStep(r) \/ Kill(r)
  PROVE  NothingHalfAdded'
<1>1. RunOK(run[r])
  BY DEF RunsOK
<1>2. CASE CommitRemoval(r) /\ inv' = run[r].draft
  BY <1>1, <1>2 DEF RunOK, CommitRemoval, NothingHalfAdded
<1>3. CASE PlayAll(r) /\ inv' = run[r].draft
  BY <1>1, <1>3 DEF RunOK, PlayAll, NothingHalfAdded
<1>. QED
  BY <1>2, <1>3, InventoryStep DEF NothingHalfAdded

-----------------------------------------------------------------------------
(* One run at a time *)

LEMMA MiddleOrEnds ==
  ASSUME NEW r \in Runs, RunStep(r)
  PROVE  CreateLock(r) \/ Finish(r) \/ Middle(r)
  BY DEF RunStep, Middle

LEMMA OnlyThisRun ==
  ASSUME Alone, ~mixed, NEW r \in Runs, run[r].pc # "off", RunsOK
  PROVE  \A s \in Runs \ {r} : run[s] = Off
  BY DEF Alone, RunsOK, RunOK

LEMMA WorkingStep ==
  ASSUME TypeOK, NEW r \in Runs, RunStep(r) \/ Kill(r)
  PROVE  run[r].pc # "off" /\ mixed' = mixed
<1>1. CASE CreateLock(r)
  BY <1>1 DEF CreateLock, marks
<1>2. CASE Finish(r)
  BY <1>2 DEF Finish, marks
<1>3. CASE Kill(r)
  BY <1>3 DEF Kill
<1>. QED
  BY <1>1, <1>2, <1>3, MiddleOrEnds, MiddleStep

LEMMA AloneStep ==
  ASSUME TypeOK, Alone, NEW r \in Runs, Look(r) \/ RunStep(r) \/ Kill(r)
  PROVE  Alone'
<1>1. Others(r)
  BY StepOthers
<1>2. CASE Look(r)
  <2> SUFFICES ASSUME ~mixed' PROVE Alone'
    BY DEF Alone
  <2>1. \A s \in Runs : run[s].pc = "off"
    BY <1>2 DEF Look, Idle
  <2>2. \A s \in Runs \ {r} : run'[s].pc = "off"
    BY <1>1, <2>1 DEF Others
  <2>. QED
    BY <2>2 DEF Alone
<1>3. CASE RunStep(r) \/ Kill(r)
  <2>1. run[r].pc # "off" /\ mixed' = mixed
    BY <1>3, WorkingStep
  <2>. QED
    BY <1>1, <2>1 DEF Alone, Others
<1>. QED
  BY <1>2, <1>3

LEMMA LockAloneStep ==
  ASSUME TypeOK, LockAlone, NEW r \in Runs, Look(r) \/ RunStep(r) \/ Kill(r)
  PROVE  LockAlone'
<1> SUFFICES ASSUME ~crossed', NEW s \in Runs, NEW t \in Runs, Locking(s)', Locking(t)'
             PROVE  s = t
  BY DEF LockAlone
<1>1. run \in [Runs -> RunRec] /\ Others(r)
  BY StepOthers DEF TypeOK
<1>2. \A v \in Runs \ {r} : Locking(v)' <=> Locking(v)
  BY <1>1 DEF Others, Locking
<1>3. CASE Look(r)
  <2>1. PICK q \in Requests :
          /\ run' = [run EXCEPT ![r] = [Off EXCEPT !.pc = IF TakesLock(q) THEN "create"
                                                         ELSE "list", !.req = q]]
          /\ crossed' = (crossed \/ (TakesLock(q) /\ \E v \in Runs : Locking(v)))
    BY <1>3 DEF Look
  <2>2. run'[r].req = q
    BY <1>1, <2>1 DEF Off
  <2>3. Locking(r)' => TakesLock(q)
    BY <2>2 DEF Locking
  <2>4. ~crossed /\ (TakesLock(q) => \A v \in Runs : ~Locking(v))
    BY <2>1
  <2>. QED
    BY <1>2, <2>3, <2>4 DEF LockAlone
<1>4. ASSUME RunStep(r) \/ Kill(r)
      PROVE  (Locking(r)' => Locking(r)) /\ crossed' = crossed
  <2>1. CASE CreateLock(r)
    <3>1. run'[r] = [run[r] EXCEPT !.pc = "list"] /\ run[r].pc = "create"
      BY <1>1, <2>1, GoEffect DEF CreateLock, PCs
    <3>2. run'[r].req = run[r].req
      BY <1>1, <3>1 DEF RunRec
    <3>. QED
      BY <2>1, <3>1, <3>2 DEF Locking, CreateLock, marks
  <2>2. CASE Finish(r) \/ Kill(r)
    <3>1. run' = [run EXCEPT ![r] = Off] /\ crossed' = crossed
      BY <2>2, Zenon DEF Finish, Kill, marks
    <3>2. run'[r].pc = "off"
      BY <1>1, <3>1, OffEffect DEF Off
    <3>. QED
      BY <3>1, <3>2 DEF Locking
  <2>3. CASE Middle(r)
    BY <2>3, MiddleStep DEF Locking
  <2>. QED
    BY <1>4, <2>1, <2>2, <2>3, MiddleOrEnds
<1>. QED
  BY <1>2, <1>3, <1>4 DEF LockAlone

(* A run that holds the lock, its file made. *)
Holding(r) == Locking(r) /\ run[r].pc # "create"

LEMMA LockMeansRunningStep ==
  ASSUME TypeOK, RunsOK, LockAlone, LockMeansRunning, NEW r \in Runs,
         Look(r) \/ RunStep(r) \/ Kill(r)
  PROVE  LockMeansRunning'
<1> SUFFICES ASSUME ~crossed'
             PROVE  /\ \A s \in Runs : Holding(s)' => lock'
                    /\ lock' /\ ~killed' => \E s \in Runs : Holding(s)'
  BY DEF LockMeansRunning, Holding
<1>1. run \in [Runs -> RunRec] /\ Others(r) /\ RunOK(run[r])
  BY StepOthers DEF TypeOK, RunsOK
<1>2. \A s \in Runs \ {r} : Holding(s)' <=> Holding(s)
  BY <1>1 DEF Others, Holding, Locking
<1>3. ~crossed =>
        /\ \A s \in Runs : Holding(s) => lock
        /\ lock /\ ~killed => \E s \in Runs : Holding(s)
  BY DEF LockMeansRunning, Holding
<1>4. CASE Look(r)
  <2>1. PICK q \in RequestRec :
          run'[r] = [Off EXCEPT !.pc = IF TakesLock(q) THEN "create" ELSE "list", !.req = q]
    BY <1>4, LookEffect
  <2>2. /\ run'[r].req = q
        /\ run'[r].pc = IF TakesLock(q) THEN "create" ELSE "list"
    BY <2>1 DEF Off
  <2>3. ~Holding(r)'
    BY <2>2 DEF Holding, Locking
  <2>4. ~Holding(r)
    BY <1>4 DEF Look, Holding, Locking
  <2>5. ~crossed /\ lock' = lock /\ killed' = killed
    BY <1>4 DEF Look
  <2>. QED
    BY <1>2, <1>3, <2>3, <2>4, <2>5
<1>5. CASE CreateLock(r)
  <2>1. run'[r] = [run[r] EXCEPT !.pc = "list"] /\ run[r].pc = "create" /\ lock'
    BY <1>1, <1>5, GoEffect DEF CreateLock, PCs
  <2>2. run'[r].req = run[r].req /\ run'[r].pc = "list"
    BY <1>1, <2>1 DEF RunRec
  <2>3. Holding(r)'
    BY <1>1, <2>1, <2>2 DEF Holding, Locking, RunOK
  <2>. QED
    BY <2>1, <2>3
<1>6. CASE Finish(r) \/ Kill(r)
  <2>1. ~Holding(r)' /\ ~crossed
    <3>1. run' = [run EXCEPT ![r] = Off] /\ crossed' = crossed
      BY <1>6, Zenon DEF Finish, Kill, marks
    <3>2. run'[r].pc = "off"
      BY <1>1, <3>1, OffEffect DEF Off
    <3>. QED
      BY <3>1, <3>2 DEF Holding, Locking
  <2>2. CASE TakesLock(run[r].req)
    <3>1. Locking(r)
      BY <1>6, <2>2 DEF Locking, Finish, Kill
    <3>2. \A s \in Runs \ {r} : ~Holding(s)
      BY <2>1, <3>1 DEF LockAlone, Holding
    <3>3. ~lock' \/ killed'
      BY <1>6, <2>2 DEF Finish, Kill
    <3>. QED
      BY <1>2, <2>1, <3>2, <3>3
  <2>3. CASE ~TakesLock(run[r].req)
    <3>1. ~Holding(r)
      BY <2>3 DEF Holding, Locking
    <3>2. (lock' <=> lock) /\ (killed' <=> killed)
      <4>1. CASE Finish(r)
        BY <2>3, <4>1, Zenon DEF Finish, marks
      <4>2. CASE Kill(r)
        BY <2>3, <4>2, Zenon DEF Kill
      <4>. QED
        BY <1>6, <4>1, <4>2
    <3>. QED
      BY <1>2, <1>3, <2>1, <3>1, <3>2
  <2>. QED
    BY <2>2, <2>3
<1>7. CASE Middle(r)
  <2>1. (Holding(r)' <=> Holding(r)) /\ ~crossed /\ lock' = lock /\ killed' = killed
    BY <1>7, MiddleStep DEF Holding, Locking
  <2>. QED
    BY <1>2, <1>3, <2>1
<1>. QED
  BY <1>4, <1>5, <1>6, <1>7, MiddleOrEnds

-----------------------------------------------------------------------------
(* What the lone run knows *)

LEMMA ByNumberNfs ==
  ASSUME NEW q \in RequestRec, NEW instances \in SUBSET Names,
         NEW T \in ByNumber(q, {}, instances), inv.nfs \in T
  PROVE  instances \subseteq T
<1> DEFINE k == q.number - Cardinality({})
           K == {{} \union S : S \in kSubset(k, instances \ {inv.nfs})}
<1>1. T \in IF k <= 0 THEN {{}}
            ELSE IF k >= Cardinality(instances) THEN {instances} ELSE K
  BY Zenon DEF ByNumber
<1>2. ASSUME T \in K
      PROVE  FALSE
  <2>1. PICK S \in kSubset(k, instances \ {inv.nfs}) : T = {} \union S
    BY <1>2
  <2>. QED
    BY <2>1 DEF kSubset
<1> HIDE DEF k, K
<1>. QED
  BY <1>1, <1>2

LEMMA ProbePc ==
  ASSUME TypeOK, NEW r \in Runs, Probe(r)
  PROVE  run'[r].pc \in {"terminate", "uninstall", "grow", "end"}
<1>1. run[r] \in RunRec
  BY DEF TypeOK
<1>2. CASE run'[r] = [run[r] EXCEPT !.pc = "end"]
  BY <1>1, <1>2 DEF RunRec
<1>3. ASSUME NEW T \in ToRemove(r),
             run'[r] = [run[r] EXCEPT !.pc = AfterProbe(run[r].req, T),
                                      !.to_remove = T, !.todo = T,
                                      !.current_size =
                                          IF AfterProbe(run[r].req, T) = "terminate"
                                          THEN PoolSize ELSE @]
      PROVE  run'[r].pc \in {"terminate", "uninstall", "grow", "end"}
  <2> DEFINE pc == AfterProbe(run[r].req, T)
  <2>1. pc \in {"terminate", "uninstall", "grow", "end"}
    BY DEF AfterProbe
  <2> HIDE DEF pc
  <2>2. run'[r].pc = pc
    BY <1>1, <1>3 DEF RunRec, pc
  <2>. QED
    BY <2>1, <2>2
<1>. QED
  BY <1>2, <1>3, ProbeEffect, Zenon

(* Few steps lead to where a run reads a size or goes by one. *)
LEMMA Landing ==
  ASSUME TypeOK, NEW r \in Runs, RunStep(r) \/ Kill(r),
         run'[r].pc \in {"probe", "grow", "record", "record_new"}
  PROVE  List(r) \/ Probe(r) \/ Measure(r) \/ Record(r)
<1> USE DEF PCs
<1>1. run \in [Runs -> RunRec] /\ run[r] \in RunRec
  BY DEF TypeOK
<1>4. CASE Kill(r) \/ Finish(r)
  <2>1. run' = [run EXCEPT ![r] = Off]
    BY <1>4, Zenon DEF Kill, Finish
  <2>. QED
    BY <1>1, <2>1 DEF Off
<1>5. CASE CreateLock(r) \/ Unanswered(r) \/ GrowRefused(r) \/ PlayAdd(r) \/ PlayAll(r)
  <2>1. Go(r, "list") \/ Go(r, "end")
    BY <1>5 DEF CreateLock, Unanswered, GrowRefused, PlayAdd, PlayAll
  <2>2. run'[r].pc \in {"list", "end"}
    BY <1>1, <2>1 DEF Go, RunRec
  <2>. QED
    BY <2>2
<1>8. CASE Uninstall(r)
  <2>1. run'[r] = [run[r] EXCEPT !.pc = "play_remove",
                                 !.draft = Without(inv, run[r].to_remove),
                                 !.todo = run[r].to_remove, !.flag = 0]
    BY <1>1, <1>8, UninstallEffect
  <2>2. run'[r].pc = "play_remove"
    BY <1>1, <2>1 DEF RunRec
  <2>. QED
    BY <2>2
<1>9. CASE PlayRemove(r)
  <2>1. PICK n \in run[r].todo, flag \in {0, 1}, broke \in SUBSET Names :
          /\ run'[r] = [run[r] EXCEPT !.todo = @ \ {n}, !.flag = flag, !.broke = broke]
          /\ broke = IF flag = 0 THEN run[r].broke ELSE run[r].broke \union {n}
    BY <1>1, <1>9, PlayRemoveEffect
  <2>2. run'[r].pc = "play_remove"
    BY <1>1, <1>9, <2>1 DEF RunRec, PlayRemove
  <2>. QED
    BY <2>2
<1>10. CASE CommitRemoval(r)
  <2>1. CASE run'[r] = [run[r] EXCEPT !.pc = "end"]
    <3>1. run'[r].pc = "end"
      BY <1>1, <2>1 DEF RunRec
    <3>. QED
      BY <3>1
  <2>2. CASE run'[r] = [run[r] EXCEPT !.pc = "terminate", !.todo = run[r].to_remove,
                                      !.current_size = PoolSize]
    <3>1. run'[r].pc = "terminate"
      BY <1>1, <2>2 DEF RunRec
    <3>. QED
      BY <3>1
  <2>. QED
    BY <1>1, <1>10, <2>1, <2>2, CommitRemovalEffect
<1>11. CASE Terminate(r)
  <2>1. PICK n \in run[r].todo : run'[r] = [run[r] EXCEPT !.todo = @ \ {n}]
    BY <1>1, <1>11, TerminateEffect
  <2>2. run'[r].pc = "terminate"
    BY <1>1, <1>11, <2>1 DEF RunRec, Terminate
  <2>. QED
    BY <2>2
<1>13. CASE Grow(r)
  BY <1>1, <1>13, GrowEffect
<1>14. CASE DraftAdd(r) \/ DraftAll(r)
  <2>1. PICK i \in InventoryRec, pc \in {"play_add", "play_all"} :
          run'[r] = [run[r] EXCEPT !.pc = pc, !.draft = i]
    BY <1>1, <1>14, DraftAddEffect, DraftAllEffect
  <2>2. run'[r].pc = pc
    BY <1>1, <2>1 DEF RunRec
  <2>. QED
    BY <2>2
<1>. QED
  BY <1>4, <1>5, <1>8, <1>9, <1>10, <1>11, <1>13, <1>14
     DEF RunStep, Removal, Sizing, Addition, Reconfiguration

LEMMA SizeKnownStep ==
  ASSUME IInv, NEW r \in Runs, Look(r) \/ RunStep(r) \/ Kill(r)
  PROVE  SizeKnown'
<1> SUFFICES ASSUME ~mixed', NEW s \in Runs,
                    run'[s].req.mode = "add", run'[s].req.sweep # TRUE,
                    run'[s].pc \in {"probe", "grow"}
             PROVE  run'[s].current_size = Cardinality(pool')
  BY Zenon DEF SizeKnown
<1> USE DEF PCs
<1>1. /\ TypeOK /\ RunsOK /\ Alone /\ SizeKnown
      /\ run \in [Runs -> RunRec] /\ run[r] \in RunRec /\ RunOK(run[r]) /\ Others(r)
  BY StepOthers DEF IInv, TypeOK, RunsOK
<1>2. CASE Look(r)
  <2>1. \A t \in Runs : run[t].pc = "off"
    BY <1>2 DEF Look, Idle
  <2>2. run'[r].pc \in {"list", "create"}
    BY <1>1, <1>2, LookStart
  <2>. QED
    BY <1>1, <2>1, <2>2 DEF Others
<1>3. CASE RunStep(r) \/ Kill(r)
  <2>1. ~mixed /\ run[r].pc # "off"
    BY <1>1, <1>3, WorkingStep
  <2>2. \A t \in Runs \ {r} : run'[t].pc = "off"
    BY <1>1, <2>1, OnlyThisRun DEF Others, Off
  <2>3. s = r
    BY <2>2
  <2>6. CASE List(r)
    <3>1. PICK L \in SUBSET Names :
            run'[r] = [run[r] EXCEPT !.pc = AfterListing(run[r].req), !.cn_instances = L,
                                     !.known = Compute(inv), !.current_size = PoolSize]
      BY <1>1, <2>6, ListEffect
    <3>2. run'[r].current_size = PoolSize
      BY <1>1, <3>1 DEF RunRec
    <3>3. pool' = pool
      BY <2>6 DEF List
    <3>. QED
      BY <2>3, <3>2, <3>3 DEF PoolSize
  <2>7. CASE Probe(r)
    <3>1. CASE run'[r] = [run[r] EXCEPT !.pc = "end"]
      <4>1. run'[r].pc = "end"
        BY <1>1, <3>1 DEF RunRec
      <4>. QED
        BY <2>3, <4>1
    <3>2. ASSUME NEW T \in ToRemove(r),
                 run'[r] = [run[r] EXCEPT !.pc = AfterProbe(run[r].req, T),
                                          !.to_remove = T, !.todo = T,
                                          !.current_size =
                                              IF AfterProbe(run[r].req, T) = "terminate"
                                              THEN PoolSize ELSE @]
          PROVE  run'[s].current_size = Cardinality(pool')
      <4> DEFINE pc == AfterProbe(run[r].req, T)
      <4> HIDE DEF pc
      <4>1. /\ run'[r].pc = pc /\ run'[r].req = run[r].req
            /\ pc # "terminate" => run'[r].current_size = run[r].current_size
        BY <1>1, <3>2 DEF RunRec, pc
      <4>2. run[r].current_size = Cardinality(pool)
        BY <1>1, <2>1, <2>3, <2>7, <4>1 DEF SizeKnown, Probe
      <4>3. pool' = pool
        BY <2>7 DEF Probe
      <4>. QED
        BY <2>3, <4>1, <4>2, <4>3
    <3>. QED
      BY <1>1, <2>7, <3>1, <3>2, ProbeEffect, Zenon
  <2>8. CASE Measure(r)
    <3>1. PICK pc \in {"record", "record_new"} :
            run'[r] = [run[r] EXCEPT !.pc = pc, !.newsize = PoolSize]
      BY <1>1, <2>8, MeasureEffect
    <3>2. run'[r].pc = pc
      BY <1>1, <3>1 DEF RunRec
    <3>. QED
      BY <2>3, <3>2
  <2>9. CASE Record(r)
    <3>1. Go(r, AfterRecord(run[r]))
      BY <2>9 DEF Record
    <3>2. run'[r].pc = AfterRecord(run[r]) /\ run'[r].req = run[r].req
      BY <1>1, <3>1 DEF Go, RunRec
    <3>3. run[r].pc = "record"
      BY <2>3, <3>2, AfterRecordIs
    <3>4. run[r].req.sweep \in BOOLEAN
      BY <1>1 DEF RunRec, RequestRec
    <3>. QED
      BY <1>1, <2>3, <3>2, <3>3, <3>4 DEF RunOK, AddsOnly
  <2>. QED
    BY <1>1, <1>3, <2>3, <2>6, <2>7, <2>8, <2>9, Landing
<1>. QED
  BY <1>2, <1>3

LEMMA MeasuredStep ==
  ASSUME IInv, NEW r \in Runs, Look(r) \/ RunStep(r) \/ Kill(r)
  PROVE  Measured'
<1> SUFFICES ASSUME ~mixed', NEW s \in Runs, run'[s].pc \in {"record", "record_new"}
             PROVE  run'[s].newsize = Cardinality(pool')
  BY Zenon DEF Measured
<1>1. /\ TypeOK /\ RunsOK /\ Alone
      /\ run \in [Runs -> RunRec] /\ run[r] \in RunRec /\ Others(r)
  BY StepOthers DEF IInv, TypeOK
<1>2. CASE Look(r)
  <2>1. \A t \in Runs : run[t].pc = "off"
    BY <1>2 DEF Look, Idle
  <2>2. run'[r].pc \in {"list", "create"}
    BY <1>1, <1>2, LookStart
  <2>. QED
    BY <1>1, <2>1, <2>2 DEF Others
<1>3. CASE RunStep(r) \/ Kill(r)
  <2>1. ~mixed /\ run[r].pc # "off"
    BY <1>1, <1>3, WorkingStep
  <2>2. s = r
    BY <1>1, <2>1, OnlyThisRun DEF Others, Off
  <2>3. CASE Measure(r)
    <3>1. PICK pc \in {"record", "record_new"} :
            run'[r] = [run[r] EXCEPT !.pc = pc, !.newsize = PoolSize]
      BY <1>1, <2>3, MeasureEffect
    <3>2. run'[r].newsize = PoolSize /\ pool' = pool
      BY <1>1, <2>3, <3>1 DEF RunRec, Measure
    <3>. QED
      BY <2>2, <3>2 DEF PoolSize
  <2>4. CASE Record(r)
    <3>1. run'[r] = [run[r] EXCEPT !.pc = AfterRecord(run[r])]
      BY <1>1, <2>4, RecordEffect
    <3>2. run'[r].pc = AfterRecord(run[r])
      BY <1>1, <3>1 DEF RunRec
    <3>. QED
      BY <2>2, <3>2, AfterRecordIs
  <2>5. CASE List(r)
    <3>1. PICK L \in SUBSET Names :
            run'[r] = [run[r] EXCEPT !.pc = AfterListing(run[r].req), !.cn_instances = L,
                                     !.known = Compute(inv), !.current_size = PoolSize]
      BY <1>1, <2>5, ListEffect
    <3>2. run'[r].pc = AfterListing(run[r].req)
      BY <1>1, <3>1 DEF RunRec
    <3>3. AfterListing(run[r].req) \in {"probe", "draft_add", "draft_all"}
      BY DEF AfterListing
    <3>. QED
      BY <2>2, <3>2, <3>3
  <2>6. CASE Probe(r)
    <3>1. run'[r].pc \in {"terminate", "uninstall", "grow", "end"}
      BY <1>1, <2>6, ProbePc
    <3>. QED
      BY <2>2, <3>1
  <2>. QED
    BY <1>1, <1>3, <2>2, <2>3, <2>4, <2>5, <2>6, Landing
<1>. QED
  BY <1>2, <1>3

LEMMA StateKnowsSizeStep ==
  ASSUME IInv, NEW r \in Runs, Look(r) \/ RunStep(r) \/ Kill(r)
  PROVE  StateKnowsSize'
<1> SUFFICES ASSUME ~Permanent, ~mixed', ~unwritten',
                    ~(\E s \in Runs : Changing(run'[s]))
             PROVE  tf' = Cardinality(pool')
  BY DEF StateKnowsSize
<1>1. /\ TypeOK /\ run \in [Runs -> RunRec] /\ run[r] \in RunRec /\ Others(r)
  BY StepOthers DEF IInv, TypeOK
<1>2. ~mixed /\ (Look(r) => \A s \in Runs : run[s].pc = "off")
  <2>1. CASE Look(r)
    <3>1. ~mixed /\ Idle
      BY <2>1, Zenon DEF Look
    <3>. QED
      BY <3>1 DEF Idle
  <2>2. CASE ~Look(r)
    BY <1>1, <2>2, WorkingStep
  <2>. QED
    BY <2>1, <2>2
(* A step that does not touch the sizes, from outside the gap. *)
<1>3. ASSUME ~Changing(run[r]), UNCHANGED <<pool, tf>>, ~unwritten
      PROVE  tf' = Cardinality(pool')
  <2>1. \A s \in Runs : ~Changing(run[s])
    BY <1>1, <1>3 DEF Others
  <2>. QED
    BY <1>2, <1>3, <2>1 DEF IInv, StateKnowsSize
<1>4. CASE Kill(r)
  BY <1>3, <1>4 DEF Kill
<1>5. CASE Unanswered(r)
  BY <1>3, <1>5 DEF Unanswered
<1>6. CASE Terminate(r)
  <2>1. PICK n \in run[r].todo : run'[r] = [run[r] EXCEPT !.todo = @ \ {n}]
    BY <1>1, <1>6, TerminateEffect
  <2>2. run'[r].pc = "terminate"
    BY <1>1, <1>6, <2>1 DEF RunRec, Terminate
  <2>. QED
    BY <2>2 DEF Changing
<1>7. CASE Measure(r)
  <2>1. PICK pc \in {"record", "record_new"} :
          run'[r] = [run[r] EXCEPT !.pc = pc, !.newsize = PoolSize]
    BY <1>1, <1>7, MeasureEffect
  <2>2. run'[r].pc = pc
    BY <1>1, <2>1 DEF RunRec
  <2>. QED
    BY <2>2 DEF Changing
<1>8. CASE Record(r)
  <2>1. tf' = run[r].newsize
    BY <1>1, <1>8, RecordEffect
  <2>2. run[r].newsize = Cardinality(pool)
    BY <1>2, <1>8 DEF Record, IInv, Measured
  <2>3. pool' = pool
    BY <1>8 DEF Record
  <2>. QED
    BY <2>1, <2>2, <2>3
<1>9. CASE Grow(r)
  <2>1. run'[r].pc \in {"end", "measure"} /\ (run'[r].pc = "end" => unwritten')
    BY <1>1, <1>9, GrowEffect
  <2>. QED
    BY <2>1 DEF Changing
<1>10. CASE \/ Look(r) \/ CreateLock(r) \/ List(r) \/ Probe(r) \/ Finish(r) \/ Uninstall(r)
            \/ PlayRemove(r) \/ CommitRemoval(r) \/ GrowRefused(r) \/ DraftAdd(r)
            \/ PlayAdd(r) \/ DraftAll(r) \/ PlayAll(r)
  <2>1. UNCHANGED <<pool, tf, unwritten>>
    BY <1>10, Zenon DEF Look, CreateLock, List, Probe, Finish, Uninstall, PlayRemove,
       CommitRemoval, GrowRefused, DraftAdd, PlayAdd, DraftAll, PlayAll, marks
  <2>2. ~Changing(run[r])
    BY <1>10 DEF Changing, Look, CreateLock, List, Probe, Finish, Uninstall, PlayRemove,
       CommitRemoval, GrowRefused, DraftAdd, PlayAdd, DraftAll, PlayAll
  <2>. QED
    BY <1>3, <2>1, <2>2
<1>. QED
  BY <1>4, <1>5, <1>6, <1>7, <1>8, <1>9, <1>10
     DEF RunStep, Removal, Sizing, Addition, Reconfiguration

LEMMA NfsSparedStep ==
  ASSUME IInv, NEW r \in Runs, Look(r) \/ RunStep(r) \/ Kill(r)
  PROVE  NfsSpared'
<1> SUFFICES ASSUME ~mixed', NEW s \in Runs,
                    run'[s].req.mode = "remove", run'[s].req.nodes = {},
                    run'[s].req.sweep # TRUE, inv'.nfs \in run'[s].to_remove
             PROVE  run'[s].cn_instances \subseteq run'[s].to_remove
  BY Zenon DEF NfsSpared
<1> USE DEF PCs
<1>1. /\ TypeOK /\ RunsOK /\ Alone /\ NfsSpared
      /\ run \in [Runs -> RunRec] /\ run[r] \in RunRec /\ RunOK(run[r]) /\ Others(r)
  BY StepOthers DEF IInv, TypeOK, RunsOK
<1>2. CASE Look(r)
  <2>1. \A t \in Runs : run[t] = Off
    BY <1>1, <1>2 DEF Look, Idle, RunsOK, RunOK
  <2>2. run'[r].to_remove = {}
    BY <1>1, <1>2, LookStart
  <2>3. \A t \in Runs : run'[t].to_remove = {}
    BY <1>1, <2>1, <2>2 DEF Others, Off
  <2>. QED
    BY <2>3
<1>3. CASE RunStep(r) \/ Kill(r)
  <2>1. ~mixed /\ run[r].pc # "off"
    BY <1>1, <1>3, WorkingStep
  <2>2. \A t \in Runs \ {r} : run'[t].to_remove = {}
    BY <1>1, <2>1, OnlyThisRun DEF Others, Off
  <2>3. s = r
    BY <2>2
  (* Where the request, the list and the choice stay as they are. *)
  <2>4. ASSUME run'[r].req = run[r].req, run'[r].to_remove = run[r].to_remove,
               run'[r].cn_instances = run[r].cn_instances
        PROVE  run'[s].cn_instances \subseteq run'[s].to_remove
    <3>1. CASE inv' = inv
      BY <1>1, <2>1, <2>3, <2>4, <3>1 DEF NfsSpared
    <3>2. CASE CommitRemoval(r) /\ inv' = run[r].draft
      <4>1. run[r].draft.nfs \notin run[r].to_remove
        BY <1>1, <3>2 DEF RunOK, CommitRemoval
      <4>. QED
        BY <2>3, <2>4, <3>2, <4>1
    <3>3. CASE PlayAdd(r) \/ PlayAll(r)
      <4>1. run[r].req.mode \in {"add", "reconfigure"}
        BY <1>1, <3>3 DEF RunOK, PlayAdd, PlayAll
      <4>. QED
        BY <2>3, <2>4, <4>1
    <3>. QED
      BY <1>1, <1>3, <3>1, <3>2, <3>3, InventoryStep
  <2>5. CASE Kill(r) \/ Finish(r)
    <3>1. run' = [run EXCEPT ![r] = Off]
      BY <2>5, Zenon DEF Kill, Finish
    <3>2. run'[r].to_remove = {}
      BY <1>1, <3>1 DEF Off
    <3>. QED
      BY <2>3, <3>2
  <2>6. CASE List(r)
    <3>1. PICK L \in SUBSET Names :
            run'[r] = [run[r] EXCEPT !.pc = AfterListing(run[r].req), !.cn_instances = L,
                                     !.known = Compute(inv), !.current_size = PoolSize]
      BY <1>1, <2>6, ListEffect
    <3>2. run'[r].to_remove = run[r].to_remove
      BY <1>1, <3>1 DEF RunRec
    <3>3. run[r].to_remove = {}
      BY <1>1, <2>6 DEF RunOK, List
    <3>. QED
      BY <2>3, <3>2, <3>3
  <2>7. CASE Probe(r)
    <3>1. CASE run'[r] = [run[r] EXCEPT !.pc = "end"]
      BY <1>1, <2>4, <3>1 DEF RunRec
    <3>2. ASSUME NEW T \in ToRemove(r),
                 run'[r] = [run[r] EXCEPT !.pc = AfterProbe(run[r].req, T),
                                          !.to_remove = T, !.todo = T,
                                          !.current_size =
                                              IF AfterProbe(run[r].req, T) = "terminate"
                                              THEN PoolSize ELSE @]
          PROVE  run'[s].cn_instances \subseteq run'[s].to_remove
      <4> DEFINE pc == AfterProbe(run[r].req, T)
                 q == run[r].req
      <4> HIDE DEF pc
      <4>1. /\ run'[r].to_remove = T /\ run'[r].req = q
            /\ run'[r].cn_instances = run[r].cn_instances
        BY <1>1, <3>2 DEF RunRec, pc
      <4>2. T \in ByNumber(q, {}, run[r].cn_instances)
        BY <1>1, <2>3, <4>1, ToRemoveBound
      <4>3. inv.nfs \in T
        BY <2>3, <2>7, <4>1 DEF Probe
      <4>4. q \in RequestRec /\ run[r].cn_instances \in SUBSET Names
        BY <1>1 DEF RunRec
      <4> HIDE DEF q
      <4>. QED
        BY <2>3, <4>1, <4>2, <4>3, <4>4, ByNumberNfs
    <3>. QED
      BY <1>1, <2>7, <3>1, <3>2, ProbeEffect, Zenon
  <2>8. CASE Uninstall(r)
    <3>1. run'[r] = [run[r] EXCEPT !.pc = "play_remove",
                                   !.draft = Without(inv, run[r].to_remove),
                                   !.todo = run[r].to_remove, !.flag = 0]
      BY <1>1, <2>8, UninstallEffect
    <3>. QED
      BY <1>1, <2>4, <3>1 DEF RunRec
  <2>9. CASE PlayRemove(r)
    <3>1. PICK n \in run[r].todo, flag \in {0, 1}, broke \in SUBSET Names :
            /\ run'[r] = [run[r] EXCEPT !.todo = @ \ {n}, !.flag = flag, !.broke = broke]
            /\ broke = IF flag = 0 THEN run[r].broke ELSE run[r].broke \union {n}
      BY <1>1, <2>9, PlayRemoveEffect
    <3>. QED
      BY <1>1, <2>4, <3>1 DEF RunRec
  <2>10. CASE CommitRemoval(r)
    <3>1. CASE run'[r] = [run[r] EXCEPT !.pc = "end"]
      BY <1>1, <2>4, <3>1 DEF RunRec
    <3>2. CASE run'[r] = [run[r] EXCEPT !.pc = "terminate", !.todo = run[r].to_remove,
                                        !.current_size = PoolSize]
      BY <1>1, <2>4, <3>2 DEF RunRec
    <3>. QED
      BY <1>1, <2>10, <3>1, <3>2, CommitRemovalEffect
  <2>11. CASE Terminate(r)
    <3>1. PICK n \in run[r].todo : run'[r] = [run[r] EXCEPT !.todo = @ \ {n}]
      BY <1>1, <2>11, TerminateEffect
    <3>. QED
      BY <1>1, <2>4, <3>1 DEF RunRec
  <2>15. CASE Measure(r)
    <3>1. PICK pc \in {"record", "record_new"} :
            run'[r] = [run[r] EXCEPT !.pc = pc, !.newsize = PoolSize]
      BY <1>1, <2>15, MeasureEffect
    <3>. QED
      BY <1>1, <2>4, <3>1 DEF RunRec
  <2>16. CASE Record(r)
    <3> DEFINE pc == AfterRecord(run[r])
    <3>1. run'[r] = [run[r] EXCEPT !.pc = pc]
      BY <1>1, <2>16, RecordEffect
    <3> HIDE DEF pc
    <3>. QED
      BY <1>1, <2>4, <3>1 DEF RunRec
  <2>12. CASE \/ CreateLock(r) \/ Unanswered(r) \/ GrowRefused(r) \/ PlayAdd(r)
              \/ PlayAll(r)
    <3>1. PICK pc \in PCs : Go(r, pc)
      BY <2>12 DEF CreateLock, Unanswered, GrowRefused, PlayAdd, PlayAll
    <3>2. run'[r] = [run[r] EXCEPT !.pc = pc]
      BY <1>1, <3>1, GoEffect
    <3>. QED
      BY <1>1, <2>4, <3>2 DEF RunRec
  <2>13. CASE Grow(r)
    <3>1. PICK pc \in PCs : run'[r] = [run[r] EXCEPT !.pc = pc]
      BY <1>1, <2>13, GrowEffect
    <3>. QED
      BY <1>1, <2>4, <3>1 DEF RunRec
  <2>14. CASE DraftAdd(r) \/ DraftAll(r)
    <3>1. PICK i \in InventoryRec, pc \in {"play_add", "play_all"} :
            run'[r] = [run[r] EXCEPT !.pc = pc, !.draft = i]
      BY <1>1, <2>14, DraftAddEffect, DraftAllEffect
    <3>. QED
      BY <1>1, <2>4, <3>1 DEF RunRec
  <2>. QED
    BY <1>3, <2>5, <2>6, <2>7, <2>8, <2>9, <2>10, <2>11, <2>12, <2>13, <2>14, <2>15, <2>16
       DEF RunStep, Removal, Sizing, Addition, Reconfiguration
<1>. QED
  BY <1>2, <1>3

-----------------------------------------------------------------------------
(* The invariant of the specification *)

LEMMA InitIInv == Init => IInv
<1> SUFFICES ASSUME Init PROVE IInv
  OBVIOUS
<1>1. TypeOK
  BY InitTypeOK
<1>2. \A r \in Runs : run[r] = Off
  BY DEF Init
<1>3. RunsOK
  BY <1>2, OffOK DEF RunsOK
<1>4. \A r \in Runs : run[r].pc = "off" /\ run[r].to_remove = {}
  BY <1>2 DEF Off
<1>4a. Alone /\ SizeKnown /\ NfsSpared /\ Measured /\ LockAlone
  BY <1>4 DEF Alone, SizeKnown, NfsSpared, Measured, LockAlone, Locking
<1>5. StateKnowsSize /\ NothingHalfAdded
  BY DEF Init, StateKnowsSize, NothingHalfAdded
<1>6. LockMeansRunning
  BY <1>4 DEF LockMeansRunning, Locking, Init
<1>. QED
  BY <1>1, <1>3, <1>4a, <1>5, <1>6 DEF IInv

LEMMA NextIInv ==
  ASSUME IInv, [Next]_vars
  PROVE  IInv'
<1>1. TypeOK'
  BY NextTypeOK DEF IInv
<1>2. ASSUME NEW r \in Runs, Look(r) \/ RunStep(r) \/ Kill(r)
      PROVE  IInv'
  <2>1. RunsOK' /\ NothingHalfAdded'
    BY <1>2, RunsOKStep, NothingHalfAddedStep DEF IInv
  <2>2. Alone' /\ LockAlone' /\ LockMeansRunning'
    BY <1>2, AloneStep, LockAloneStep, LockMeansRunningStep DEF IInv
  <2>3. SizeKnown' /\ NfsSpared' /\ Measured' /\ StateKnowsSize'
    BY <1>2, SizeKnownStep, NfsSparedStep, MeasuredStep, StateKnowsSizeStep
  <2>. QED
    BY <1>1, <2>1, <2>2, <2>3 DEF IInv
<1>3. ASSUME UNCHANGED <<run, inv, pool, tf, lock, marks>>
      PROVE  IInv'
  <2>1. RunsOK' /\ NothingHalfAdded'
    BY <1>3 DEF IInv, RunsOK, NothingHalfAdded
  <2>2. Alone' /\ LockAlone' /\ LockMeansRunning'
    BY <1>3 DEF IInv, Alone, LockAlone, LockMeansRunning, Locking, marks
  <2>3. SizeKnown' /\ NfsSpared' /\ Measured' /\ StateKnowsSize'
    BY <1>3 DEF IInv, SizeKnown, NfsSpared, Measured, StateKnowsSize, Changing, marks
  <2>. QED
    BY <1>1, <2>1, <2>2, <2>3 DEF IInv
<1>4. ASSUME NEW n \in Names, StopAnswering(n) \/ AnswerAgain(n)
      PROVE  IInv'
  BY <1>3, <1>4 DEF StopAnswering, AnswerAgain
<1>5. CASE UNCHANGED vars
  BY <1>3, <1>5 DEF vars
<1>. QED
  BY <1>2, <1>4, <1>5 DEF Next

THEOREM InductiveInvariant == Spec => []IInv
<1>1. Init => IInv
  BY InitIInv
<1>2. IInv /\ [Next]_vars => IInv'
  BY NextIInv
<1>. QED
  BY <1>1, <1>2, PTL DEF Spec

(* However runs overlap, fail or are killed, compute_to_add of the         *)
(* inventory on disk is empty: resize never leaves it half moved.          *)
THEOREM InventoryNeverHalfAdded == Spec => []NothingHalfAdded
<1>1. IInv => NothingHalfAdded
  BY DEF IInv
<1>. QED
  BY <1>1, InductiveInvariant, PTL

(* get_summary and updateTFState: the Terraform state of an autoscaled     *)
(* cluster has the pool's size whenever no run is between changing the     *)
(* pool and writing it down, unless runs overlapped or the last to change  *)
(* the pool was killed, broken off or refused in between.                  *)
THEOREM TerraformKnowsSize == Spec => []StateKnowsSize
<1>1. IInv => StateKnowsSize
  BY DEF IInv
<1>. QED
  BY <1>1, InductiveInvariant, PTL

(* resize.sh: while no two runs that take the lock overlapped, the file is *)
(* there during such a run, whatever reconfigures beside it, and there     *)
(* only then unless one was killed.                                        *)
THEOREM LockTellsOfRuns == Spec => []LockMeansRunning
<1>1. IInv => LockMeansRunning
  BY DEF IInv
<1>. QED
  BY <1>1, InductiveInvariant, PTL

(* remove with a number takes no more nodes than that, and the NFS node    *)
(* only when it takes all.                                                 *)
THEOREM RemovesNoMore == Spec => []TakesNoMore
<1>1. IInv => TakesNoMore
  <2> SUFFICES ASSUME IInv, NEW r \in Runs,
                      run[r].req.mode = "remove", run[r].req.nodes = {}, ~run[r].req.sweep
               PROVE  /\ Cardinality(run[r].to_remove) <= run[r].req.number
                      /\ ~mixed /\ inv.nfs \in run[r].to_remove =>
                           run[r].cn_instances \subseteq run[r].to_remove
    BY Zenon DEF TakesNoMore
  <2>1. run[r].req.sweep # TRUE
    OBVIOUS
  <2>2. Bounded(run[r])
    BY DEF IInv, RunsOK, RunOK
  <2>. QED
    BY <2>1, <2>2 DEF IInv, NfsSpared, Bounded
<1>. QED
  BY <1>1, InductiveInvariant, PTL

(* Which nodes a step may take from the pool: those a removal named or     *)
(* found unreachable, when a playbook of it went well or an option says to *)
(* go on without; or those OCI takes when an add that swept or overlapped  *)
(* sets too small a size.                                                  *)
THEOREM OnlyNamedNodesGo == Spec => OnlyTargetsGo
<1> DEFINE A(n) ==
      \E r \in Runs :
         \/ /\ run[r].pc = "terminate" /\ n \in run[r].to_remove
            /\ run[r].req.force \/ run[r].req.no_reconfigure \/ run[r].to_remove \ run[r].broke # {}
         \/ run[r].pc = "grow" /\ (run[r].req.sweep \/ mixed)
<1>1. ASSUME IInv, [Next]_vars
      PROVE  [\A n \in pool \ pool' : A(n)]_vars
  <2> SUFFICES ASSUME NEW n \in pool \ pool' PROVE A(n)
    OBVIOUS
  <2>1. PICK r \in Runs : Terminate(r) \/ Grow(r)
    <3>1. pool' # pool
      OBVIOUS
    <3>. QED
      BY <1>1, <3>1, ZenonT(60) DEF Next, vars, RunStep, Removal, Sizing, Addition,
         Reconfiguration, Look, CreateLock, List, Probe, Finish, Kill, Uninstall, PlayRemove,
         CommitRemoval, Measure, Record, Unanswered, GrowRefused, DraftAdd, PlayAdd, DraftAll,
         PlayAll, StopAnswering, AnswerAgain
  <2>2. TypeOK /\ run[r] \in RunRec /\ RunOK(run[r])
    BY <1>1 DEF IInv, TypeOK, RunsOK
  <2>3. CASE Terminate(r)
    <3>1. PICK m \in run[r].todo : pool \ {m} \subseteq pool'
      BY <2>2, <2>3, TerminateEffect
    <3>2. run[r].pc = "terminate"
      BY <2>3 DEF Terminate
    <3>3. n \in run[r].to_remove /\ Cleared(run[r])
      BY <2>2, <3>1, <3>2 DEF RunOK
    <3>4. run[r].req.force \/ run[r].req.no_reconfigure \/ run[r].to_remove \ run[r].broke # {}
      BY <3>3, Zenon DEF Cleared
    <3>. QED
      BY <3>2, <3>3, <3>4, Zenon
  <2>4. CASE Grow(r)
    <3>1. run[r].pc = "grow"
      BY <2>4 DEF Grow
    <3>2. PICK lost \in SUBSET pool :
            /\ n \in lost
            /\ run[r].current_size - Cardinality(run[r].to_remove) + run[r].req.number
                   >= Cardinality(pool) => lost = {}
      BY <2>2, <2>4, GrowEffect
    <3>3. SUFFICES ASSUME run[r].req.sweep # TRUE, ~mixed PROVE FALSE
      BY <3>1, Zenon
    <3>4. run[r].req.mode = "add" /\ run[r].req.sweep \in BOOLEAN /\ run[r].req.number \in Nat
      BY <2>2, <3>1 DEF RunOK, RunRec, RequestRec
    <3>5. run[r].to_remove = {}
      BY <2>2, <3>3, <3>4 DEF RunOK, AddsOnly
    <3>6. run[r].current_size = Cardinality(pool)
      BY <1>1, <3>1, <3>3, <3>4 DEF IInv, SizeKnown
    <3>7. Cardinality({}) = 0 /\ Cardinality(pool) \in Nat
      BY <2>2, FS_EmptySet, NamesFinite DEF TypeOK
    <3>. QED
      BY <3>2, <3>4, <3>5, <3>6, <3>7
  <2>. QED
    BY <2>1, <2>3, <2>4
<1>2. IInv /\ [Next]_vars => [\A n \in pool \ pool' : A(n)]_vars
  BY <1>1
<1>. QED
  BY <1>2, InductiveInvariant, PTL DEF Spec, OnlyTargetsGo, A

-----------------------------------------------------------------------------
(* That a lone run of resize leaves no difference between OCI's pool, the  *)
(* inventory, /etc/hosts, topology.conf and Slurm without a cause          *)
(* (DriftHasACause of Resize), for any instances, requests and failures.   *)
(* The invariant says how far each phase of a run is ahead of the others.  *)

(* The four written places agree with P about the nodes of N. *)
AgreeOn(N, P) ==
    \A n \in N : /\ n \in inv.conf <=> n \in P
                 /\ n \in places.hosts <=> n \in P
                 /\ n \in places.topo <=> n \in P
                 /\ n \in places.slurm <=> n \in P

Settled == AgreeOn(Names \ loose, pool)

NfsOK == inv.nfs \in UNION {{None}, inv.conf, loose}

(* While nodes are uninstalled: the inventory is the old one, the places   *)
(* agree about the nodes that stay, and have none that is done with.       *)
Uninstalling(r) ==
    LET u == run[r] IN
    /\ u.draft = Without(inv, u.to_remove) /\ u.todo \subseteq u.to_remove
    /\ \A n \in Names \ loose : n \in inv.conf <=> n \in pool
    /\ \A n \in Names \ (loose \union u.to_remove) :
         /\ n \in places.hosts <=> n \in pool
         /\ n \in places.topo <=> n \in pool
         /\ n \in places.slurm <=> n \in pool
    /\ \A n \in (u.to_remove \ u.todo) \ loose :
         n \notin places.hosts /\ n \notin places.topo /\ n \notin places.slurm

(* While nodes are added: the places agree with the inventory, and the     *)
(* pool has more.                                                          *)
Adding(r) ==
    LET u == run[r] IN
    /\ AgreeOn(Names \ loose, inv.conf)
    /\ inv.conf \ loose \subseteq pool
    /\ u.pc = "play_add" =>
         /\ inv.conf \subseteq u.draft.conf
         /\ u.draft.add \subseteq pool
         /\ u.draft.nfs \in UNION {{None}, Compute(u.draft), loose}

Reconfiguring(r) ==
    LET u == run[r] IN
    u.pc = "play_all" =>
        /\ u.draft.conf \subseteq pool /\ u.draft.add = {}
        /\ u.draft.nfs \in UNION {{None}, u.draft.conf, inv.conf, loose}

AddPCs == {"measure", "record_new", "draft_add", "play_add"}

Phase(r) ==
    LET u == run[r] IN
    /\ u.pc = "play_remove" => Uninstalling(r)
    /\ u.pc = "terminate" => AgreeOn(Names \ loose, pool \ u.todo)
    /\ u.pc \in AddPCs => Adding(r)
    /\ u.pc \notin {"play_remove", "terminate"} \union AddPCs => Settled
    /\ Reconfiguring(r)

DriftInv ==
    ~mixed => /\ NfsOK
              /\ Idle => Settled
              /\ \A r \in Runs : run[r].pc # "off" => Phase(r)

-----------------------------------------------------------------------------
(* Steps that leave the pool, the inventory and the places alone *)

Still == UNCHANGED <<pool, inv, places, loose>>

LEMMA StillSettled ==
  ASSUME Still, Settled
  PROVE  Settled'
  BY DEF Still, Settled, AgreeOn

LEMMA StillNfs ==
  ASSUME Still, NfsOK
  PROVE  NfsOK'
  BY DEF Still, NfsOK

(* To a place where all agree, from one where all agree. *)
LEMMA StillPhase ==
  ASSUME TypeOK, Still, Settled, NEW r \in Runs,
         run'[r].pc \notin {"play_remove", "terminate", "play_add", "play_all"}
  PROVE  Phase(r)'
<1>1. Settled'
  BY StillSettled
<1>2. ASSUME run'[r].pc \in AddPCs
      PROVE  Adding(r)'
  <2>1. AgreeOn(Names \ loose, inv.conf)'
    BY DEF Still, Settled, AgreeOn
  <2>2. inv'.conf \ loose' \subseteq pool'
    BY DEF Still, Settled, AgreeOn, TypeOK, InventoryRec
  <2>. QED
    BY <1>2, <2>1, <2>2 DEF Adding
<1>. QED
  BY <1>1, <1>2 DEF Phase, Reconfiguring, AddPCs

(* On to the next place of an addition, before its draft is written. *)
LEMMA StillAdding ==
  ASSUME Still, NEW r \in Runs, Adding(r), run'[r].pc \in AddPCs \ {"play_add"}
  PROVE  Phase(r)'
<1>1. AgreeOn(Names \ loose, inv.conf)' /\ inv'.conf \ loose' \subseteq pool'
  BY DEF Still, Adding, AgreeOn
<1>2. Adding(r)'
  BY <1>1 DEF Adding
<1>. QED
  BY <1>2 DEF Phase, Reconfiguring, AddPCs

(* What the pool has more than the inventory is put among the loose. *)
LEMMA AddingSettles ==
  ASSUME NEW r \in Runs, NfsOK, Adding(r), UNCHANGED <<pool, inv, places>>,
         loose \subseteq loose', pool \ inv.conf \subseteq loose'
  PROVE  NfsOK' /\ Settled'
  BY DEF Adding, Settled, AgreeOn, NfsOK

LEMMA PlaceByPlace ==
  ASSUME NEW failed \in BOOLEAN, NEW p, places' \in PlacesAfter(failed, p)
  PROVE  /\ places'.hosts \in {places.hosts, p.hosts}
         /\ places'.topo \in {places.topo, p.topo}
         /\ places'.slurm \in {places.slurm, p.slurm}
         /\ ~failed => places' = p
<1>1. CASE ~failed
  BY <1>1 DEF PlacesAfter
<1>2. CASE failed
  <2>1. PICK k \in 0 .. 3 : places' = FirstOf(k, p)
    BY <1>2 DEF PlacesAfter
  <2>. QED
    BY <1>2, <2>1 DEF FirstOf
<1>. QED
  BY <1>1, <1>2

-----------------------------------------------------------------------------
(* The steps of a lone run *)

LEMMA UninstallPhase ==
  ASSUME TypeOK, NothingHalfAdded, NEW r \in Runs, NfsOK, Phase(r), Uninstall(r)
  PROVE  NfsOK' /\ Phase(r)'
<1>1. Settled /\ Still
  BY DEF Uninstall, Phase, Still, AddPCs
<1>2. run'[r] = [run[r] EXCEPT !.pc = "play_remove", !.draft = Without(inv, run[r].to_remove),
                         !.todo = run[r].to_remove, !.flag = 0]
  BY UninstallEffect
<1>3. /\ run'[r].pc = "play_remove" /\ run'[r].draft = Without(inv, run[r].to_remove)
      /\ run'[r].todo = run[r].to_remove /\ run'[r].to_remove = run[r].to_remove
  <2>1. run[r] \in RunRec
    BY DEF TypeOK
  <2>. QED
    BY <1>2, <2>1 DEF RunRec
<1>4. Uninstalling(r)'
  BY <1>1, <1>3 DEF Uninstalling, Settled, AgreeOn, Still
<1>5. Phase(r)'
  BY <1>3, <1>4 DEF Phase, Reconfiguring, AddPCs
<1>. QED
  BY <1>1, <1>5, StillNfs

LEMMA PlayRemovePhase ==
  ASSUME TypeOK, NothingHalfAdded, NEW r \in Runs, NfsOK, Phase(r), PlayRemove(r)
  PROVE  NfsOK' /\ Phase(r)'
<1> DEFINE i == run[r].draft
           T == run[r].to_remove
<1>1. run[r] \in RunRec /\ run[r].pc = "play_remove" /\ Uninstalling(r)
  BY DEF TypeOK, PlayRemove, Phase, AddPCs
<1>2. PICK n \in run[r].todo, failed \in BOOLEAN, refused \in BOOLEAN :
        /\ places' \in PlacesAfter(failed, RemovedFrom(n, i, refused))
        /\ loose' = IF failed \/ refused THEN loose \union {n} ELSE loose
        /\ run' = [run EXCEPT ![r].todo = @ \ {n}, ![r].flag = IF failed THEN 1 ELSE 0,
                              ![r].broke = IF failed THEN @ \union {n} ELSE @]
  BY DEF PlayRemove
<1>3. UNCHANGED <<pool, inv>>
  BY DEF PlayRemove
<1>4. /\ run'[r].pc = "play_remove" /\ run'[r].draft = i /\ run'[r].to_remove = T
      /\ run'[r].todo = run[r].todo \ {n}
  BY <1>1, <1>2 DEF TypeOK, RunRec
<1>5. n \in T /\ T \subseteq Names /\ Compute(i) = inv.conf \ T
  BY <1>1 DEF Uninstalling, Without, Compute, NothingHalfAdded, RunRec
<1>6. loose \subseteq loose' /\ loose' \subseteq loose \union {n}
      /\ (failed \/ refused => n \in loose')
  BY <1>2
<1> DEFINE p == RemovedFrom(n, i, refused)
<1>7. /\ p.hosts = IF Compute(i) = {} THEN places.hosts \ {n} ELSE Compute(i)
      /\ p.topo = places.topo \ {n}
      /\ p.slurm = IF refused THEN places.slurm ELSE places.slurm \ {n}
  BY DEF RemovedFrom
<1>8. /\ places'.hosts \in {places.hosts, p.hosts}
      /\ places'.topo \in {places.topo, p.topo}
      /\ places'.slurm \in {places.slurm, p.slurm}
      /\ ~failed => places' = p
  BY <1>2, PlaceByPlace
<1> HIDE DEF p, i, T
<1>9. Uninstalling(r)'
  <2>1. run'[r].draft = Without(inv', run'[r].to_remove) /\ run'[r].todo \subseteq run'[r].to_remove
    BY <1>1, <1>3, <1>4 DEF Uninstalling, i, T
  <2>2. \A m \in Names \ loose' : m \in inv'.conf <=> m \in pool'
    BY <1>1, <1>3, <1>6 DEF Uninstalling
  <2>3. \A m \in Names \ (loose' \union run'[r].to_remove) :
          /\ m \in places'.hosts <=> m \in pool'
          /\ m \in places'.topo <=> m \in pool'
          /\ m \in places'.slurm <=> m \in pool'
    <3> SUFFICES ASSUME NEW m \in Names, m \notin loose', m \notin T
                 PROVE  /\ m \in places'.hosts <=> m \in pool'
                        /\ m \in places'.topo <=> m \in pool'
                        /\ m \in places'.slurm <=> m \in pool'
      BY <1>4
    <3>1. m # n /\ m \notin loose
      BY <1>5, <1>6
    <3>2. /\ m \in inv.conf <=> m \in pool
          /\ m \in places.hosts <=> m \in pool
          /\ m \in places.topo <=> m \in pool
          /\ m \in places.slurm <=> m \in pool
      BY <1>1, <3>1 DEF Uninstalling, T
    <3>. QED
      BY <1>3, <1>5, <1>7, <1>8, <3>1, <3>2
  <2>4. \A m \in (run'[r].to_remove \ run'[r].todo) \ loose' :
          m \notin places'.hosts /\ m \notin places'.topo /\ m \notin places'.slurm
    <3> SUFFICES ASSUME NEW m \in T, m \notin run[r].todo \ {n}, m \notin loose'
                 PROVE  m \notin places'.hosts /\ m \notin places'.topo
                        /\ m \notin places'.slurm
      BY <1>4
    <3>1. m \notin Compute(i)
      BY <1>5
    <3>2. CASE m = n
      BY <1>6, <1>7, <1>8, <3>1, <3>2
    <3>3. CASE m # n
      <4>1. m \notin places.hosts /\ m \notin places.topo /\ m \notin places.slurm
        BY <1>1, <1>6, <3>3 DEF Uninstalling, T
      <4>. QED
        BY <1>7, <1>8, <3>1, <4>1
    <3>. QED
      BY <3>2, <3>3
  <2>. QED
    BY <2>1, <2>2, <2>3, <2>4 DEF Uninstalling
<1>10. Phase(r)'
  BY <1>4, <1>9 DEF Phase, Reconfiguring, AddPCs
<1>11. NfsOK'
  BY <1>3, <1>6 DEF NfsOK
<1>. QED
  BY <1>10, <1>11

LEMMA CommitRemovalPhase ==
  ASSUME TypeOK, NothingHalfAdded, NEW r \in Runs, NfsOK, Phase(r), CommitRemoval(r)
  PROVE  NfsOK' /\ Phase(r)'
<1> DEFINE T == run[r].to_remove
<1>1. run[r] \in RunRec /\ run[r].todo = {} /\ Uninstalling(r)
  BY DEF TypeOK, CommitRemoval, Phase, AddPCs
<1>2. UNCHANGED <<pool, places>>
  BY DEF CommitRemoval
<1>3. T \subseteq Names /\ run[r].draft.conf = inv.conf \ T
      /\ run[r].draft.nfs = IF inv.nfs \in T THEN None ELSE inv.nfs
  BY <1>1 DEF Uninstalling, Without, RunRec
<1>4. \/ run'[r] = [run[r] EXCEPT !.pc = "end"]
      \/ run'[r] = [run[r] EXCEPT !.pc = "terminate", !.todo = T, !.current_size = PoolSize]
  BY CommitRemovalEffect
<1>5. \/ run'[r].pc = "end" /\ run'[r].todo = {}
      \/ run'[r].pc = "terminate" /\ run'[r].todo = T
  BY <1>1, <1>4 DEF RunRec
<1>6. run'[r].pc = "end" => run[r].flag # 0
  <2>1. run[r].flag = 0 => run' = [run EXCEPT ![r].pc = "terminate", ![r].todo = T,
                                              ![r].current_size = PoolSize]
    BY DEF CommitRemoval
  <2>2. run[r].flag = 0 => run'[r].pc = "terminate"
    BY <2>1 DEF TypeOK, RunRec
  <2>. QED
    BY <2>2
<1> HIDE DEF T
<1>7. CASE run[r].flag = 0
  <2>1. inv' = run[r].draft /\ loose' = loose
    BY <1>7 DEF CommitRemoval
  <2>2. run'[r].pc = "terminate" /\ run'[r].todo = T
    BY <1>5, <1>6, <1>7
  <2>3. AgreeOn(Names \ loose, pool \ run[r].todo)'
    BY <1>1, <1>2, <1>3, <2>1, <2>2 DEF AgreeOn, Uninstalling, T
  <2>4. NfsOK'
    BY <1>3, <2>1 DEF NfsOK
  <2>5. Phase(r)'
    BY <2>2, <2>3 DEF Phase, Reconfiguring, AddPCs
  <2>. QED
    BY <2>4, <2>5
<1>8. CASE run[r].flag # 0
  <2>1. inv' = inv /\ loose' = loose \union T
    BY <1>8 DEF CommitRemoval, T
  <2>2. AgreeOn(Names \ loose, pool)'
    BY <1>1, <1>2, <2>1 DEF AgreeOn, Uninstalling, T
  <2>3. run'[r].todo = T => AgreeOn(Names \ loose, pool \ run[r].todo)'
    BY <1>1, <1>2, <2>1 DEF AgreeOn, Uninstalling, T
  <2>4. NfsOK'
    BY <2>1 DEF NfsOK
  <2>5. Phase(r)'
    <3>1. CASE run'[r].pc = "end"
      BY <2>2, <3>1 DEF Phase, Reconfiguring, Settled, AddPCs
    <3>2. CASE run'[r].pc = "terminate" /\ run'[r].todo = T
      <4>1. AgreeOn(Names \ loose, pool \ run[r].todo)'
        BY <2>3, <3>2
      <4>. QED
        BY <3>2, <4>1 DEF Phase, Reconfiguring, AddPCs
    <3>. QED
      BY <1>5, <3>1, <3>2
  <2>. QED
    BY <2>4, <2>5
<1>. QED
  BY <1>7, <1>8

LEMMA TerminatePhase ==
  ASSUME TypeOK, NothingHalfAdded, NEW r \in Runs, NfsOK, Phase(r), Terminate(r)
  PROVE  NfsOK' /\ Phase(r)'
<1>1. run[r] \in RunRec /\ AgreeOn(Names \ loose, pool \ run[r].todo)
  BY DEF TypeOK, Terminate, Phase, AddPCs
<1>2. PICK n \in run[r].todo, failed \in BOOLEAN :
        /\ IF failed THEN /\ UNCHANGED <<pool, up>>
                         /\ loose' = loose \union {n}
                     ELSE /\ pool' = pool \ {n} /\ up' = up \ {n}
                          /\ UNCHANGED loose
        /\ run' = [run EXCEPT ![r].todo = @ \ {n}]
  BY DEF Terminate
<1>3. UNCHANGED <<inv, places>>
  BY DEF Terminate
<1>4. run'[r].pc = "terminate" /\ run'[r].todo = run[r].todo \ {n}
  BY <1>1, <1>2 DEF TypeOK, RunRec, Terminate
<1>5. AgreeOn(Names \ loose, pool \ run[r].todo)'
  BY <1>1, <1>2, <1>3, <1>4 DEF AgreeOn
<1>6. NfsOK'
  BY <1>2, <1>3 DEF NfsOK
<1>. QED
  BY <1>4, <1>5, <1>6 DEF Phase, Reconfiguring, AddPCs

LEMMA GoPc ==
  ASSUME TypeOK, NEW r \in Runs, NEW pc, Go(r, pc)
  PROVE  run'[r].pc = pc
  BY DEF Go, TypeOK, RunRec

LEMMA MeasurePhase ==
  ASSUME TypeOK, NothingHalfAdded, NEW r \in Runs, NfsOK, Phase(r), Measure(r)
  PROVE  NfsOK' /\ Phase(r)'
<1>1. Still
  BY DEF Measure, Still
<1>2. PICK pc \in {"record", "record_new"} :
        /\ run'[r] = [run[r] EXCEPT !.pc = pc, !.newsize = PoolSize]
        /\ pc = IF run[r].pc = "measure" THEN "record_new" ELSE "record"
  BY MeasureEffect
<1>3. run'[r].pc = pc
  BY <1>2 DEF TypeOK, RunRec
<1>4. CASE run[r].pc = "measure"
  <2>1. Adding(r)
    BY <1>4 DEF Phase, AddPCs
  <2>. QED
    BY <1>1, <1>2, <1>3, <1>4, <2>1, StillAdding, StillNfs DEF AddPCs
<1>5. CASE run[r].pc = "terminate" /\ run[r].todo = {}
  <2>1. AgreeOn(Names \ loose, pool \ run[r].todo)
    BY <1>5 DEF Phase, AddPCs
  <2>2. Settled
    BY <1>5, <2>1 DEF Settled, AgreeOn
  <2>3. run'[r].pc = "record"
    BY <1>2, <1>3, <1>5
  <2>. QED
    BY <1>1, <2>2, <2>3, StillPhase, StillNfs
<1>. QED
  BY <1>4, <1>5 DEF Measure, Resized

LEMMA RecordPhase ==
  ASSUME TypeOK, NothingHalfAdded, NEW r \in Runs, NfsOK, Phase(r), Record(r)
  PROVE  NfsOK' /\ Phase(r)'
<1> DEFINE next == AfterRecord(run[r])
<1>1. /\ run'[r] = [run[r] EXCEPT !.pc = next]
      /\ loose' = IF run[r].pc = "record_new" /\ next = "end"
                  THEN loose \union (pool \ inv.conf) ELSE loose
  BY RecordEffect
<1>2. /\ next \in {"grow", "end", "draft_add"}
      /\ run[r].pc # "record" => next # "grow"
      /\ run[r].pc = "record" => next # "draft_add"
  BY AfterRecordIs
<1> HIDE DEF next
<1>3. run'[r].pc = next
  BY <1>1 DEF TypeOK, RunRec
<1>4. UNCHANGED <<pool, inv, places>>
  BY DEF Record
<1>5. CASE run[r].pc = "record"
  <2>1. Settled /\ Still
    BY <1>1, <1>4, <1>5 DEF Phase, AddPCs, Still
  <2>. QED
    BY <1>2, <1>3, <1>5, <2>1, StillPhase, StillNfs
<1>6. CASE run[r].pc = "record_new" /\ next = "end"
  <2>1. Adding(r)
    BY <1>6 DEF Phase, AddPCs
  <2>2. NfsOK' /\ Settled'
    BY <1>1, <1>4, <1>6, <2>1, AddingSettles
  <2>. QED
    BY <1>3, <1>6, <2>2 DEF Phase, Reconfiguring, AddPCs
<1>7. CASE run[r].pc = "record_new" /\ next # "end"
  <2>1. Adding(r)
    BY <1>7 DEF Phase, AddPCs
  <2>2. Still /\ next = "draft_add"
    BY <1>1, <1>2, <1>4, <1>7 DEF Still
  <2>. QED
    BY <1>3, <2>1, <2>2, StillAdding, StillNfs DEF AddPCs
<1>. QED
  BY <1>5, <1>6, <1>7 DEF Record

LEMMA UnansweredPhase ==
  ASSUME TypeOK, NEW r \in Runs, RunOK(run[r]), NfsOK, Phase(r), Unanswered(r)
  PROVE  NfsOK' /\ Phase(r)'
<1>1. UNCHANGED <<pool, inv, places>>
  BY DEF Unanswered
<1>2. /\ loose \subseteq loose' /\ run[r].to_remove \subseteq loose'
      /\ run[r].pc = "measure" => pool \ inv.conf \subseteq loose'
  BY DEF Unanswered
<1>3. Go(r, "end")
  BY DEF Unanswered
<1>4. run'[r].pc = "end"
  BY <1>3, GoPc
<1>5. NfsOK'
  BY <1>1, <1>2 DEF NfsOK
<1>6. CASE run[r].pc = "list"
  <2>1. Settled
    BY <1>6 DEF Phase, AddPCs
  <2>. QED
    BY <1>1, <1>2, <1>4, <1>5, <2>1 DEF Settled, AgreeOn, Phase, Reconfiguring, AddPCs
<1>7. CASE run[r].pc = "measure"
  <2>1. Adding(r)
    BY <1>7 DEF Phase, AddPCs
  <2>2. Settled'
    BY <1>1, <1>2, <1>7, <2>1, AddingSettles
  <2>. QED
    BY <1>4, <1>5, <2>2 DEF Phase, Reconfiguring, AddPCs
<1>8. CASE run[r].pc = "terminate"
  <2>1. AgreeOn(Names \ loose, pool \ run[r].todo) /\ run[r].todo \subseteq run[r].to_remove
    BY <1>8 DEF Phase, RunOK, AddPCs
  <2>2. Settled'
    BY <1>1, <1>2, <2>1 DEF Settled, AgreeOn
  <2>. QED
    BY <1>4, <1>5, <2>2 DEF Phase, Reconfiguring, AddPCs
<1>. QED
  BY <1>6, <1>7, <1>8 DEF Unanswered, Resized

LEMMA GrowPhase ==
  ASSUME TypeOK, NothingHalfAdded, NEW r \in Runs, NfsOK, Phase(r), Grow(r)
  PROVE  NfsOK' /\ Phase(r)'
<1>1. Settled
  BY DEF Grow, Phase, AddPCs
<1>2. PICK new \in SUBSET Names, lost \in SUBSET pool :
        /\ pool' = (pool \ lost) \union new
        /\ loose' = UNION {loose, lost, IF run'[r].pc = "end" THEN new ELSE {}}
  BY GrowEffect
<1>3. UNCHANGED <<inv, places>>
  BY DEF Grow
<1>4. run'[r].pc \in {"end", "measure"}
  BY GrowEffect
<1>5. NfsOK'
  BY <1>2, <1>3 DEF NfsOK
<1>7. CASE run'[r].pc = "end"
  <2>1. loose' = UNION {loose, lost, new}
    BY <1>2, <1>7
  <2>2. Settled'
    BY <1>1, <1>2, <1>3, <2>1 DEF Settled, AgreeOn
  <2>. QED
    BY <1>5, <1>7, <2>2 DEF Phase, Reconfiguring, AddPCs
<1>8. CASE run'[r].pc = "measure"
  <2>1. loose' = loose \union lost
    BY <1>2, <1>8
  <2>2. AgreeOn(Names \ loose, inv.conf)'
    BY <1>1, <1>2, <1>3, <2>1 DEF Settled, AgreeOn
  <2>3. inv'.conf \ loose' \subseteq pool'
    BY <1>1, <1>2, <1>3, <2>1 DEF Settled, AgreeOn, TypeOK, InventoryRec
  <2>4. Adding(r)'
    BY <1>8, <2>2, <2>3 DEF Adding
  <2>. QED
    BY <1>5, <1>8, <2>4 DEF Phase, Reconfiguring, AddPCs
<1>. QED
  BY <1>4, <1>7, <1>8

LEMMA DraftAddPhase ==
  ASSUME TypeOK, NothingHalfAdded, NEW r \in Runs, NfsOK, Phase(r), DraftAdd(r)
  PROVE  NfsOK' /\ Phase(r)'
<1>1. Adding(r) /\ Still /\ run[r] \in RunRec
  BY DEF DraftAdd, Phase, Still, TypeOK, AddPCs
<1>2. PICK L \in SUBSET pool :
        LET new == L \ inv.conf
            named == IF run[r].req.nodes = {} THEN new ELSE new \intersect run[r].req.nodes
            i == [inv EXCEPT !.conf = @ \union (new \ named), !.add = @ \union named] IN
        \E nfs \in NfsChoice(i) :
          run' = [run EXCEPT ![r].pc = "play_add", ![r].draft = [i EXCEPT !.nfs = nfs]]
  BY DEF DraftAdd
<1> DEFINE new == L \ inv.conf
           named == IF run[r].req.nodes = {} THEN new ELSE new \intersect run[r].req.nodes
           i == [inv EXCEPT !.conf = @ \union (new \ named), !.add = @ \union named]
<1>3. PICK nfs \in NfsChoice(i) :
        run' = [run EXCEPT ![r].pc = "play_add", ![r].draft = [i EXCEPT !.nfs = nfs]]
  BY <1>2
<1>4. new \subseteq pool /\ named \subseteq new
  OBVIOUS
<1> HIDE DEF new, named
<1>5. /\ i.conf = inv.conf \union (new \ named) /\ i.add = named /\ i.nfs = inv.nfs
      /\ i \in InventoryRec
  BY <1>4 DEF TypeOK, InventoryRec, NothingHalfAdded
<1> DEFINE j == [i EXCEPT !.nfs = nfs]
<1> HIDE DEF i
<1>6. j.conf = i.conf /\ j.add = i.add /\ j.nfs = nfs
  BY <1>5 DEF InventoryRec
<1>7. nfs \in UNION {{None}, Compute(i), loose}
  BY <1>5 DEF NfsChoice, NfsOK, Compute
<1>8. run' = [run EXCEPT ![r].pc = "play_add", ![r].draft = j]
  BY <1>3
<1> HIDE DEF j
<1>9. run'[r].pc = "play_add" /\ run'[r].draft = j
  BY <1>1, <1>8 DEF TypeOK, RunRec
<1>10. /\ inv.conf \subseteq j.conf /\ j.add \subseteq pool
       /\ j.nfs \in UNION {{None}, Compute(j), loose}
  BY <1>4, <1>5, <1>6, <1>7 DEF Compute
<1>11. AgreeOn(Names \ loose, inv.conf)'
  BY <1>1 DEF Adding, AgreeOn, Still
<1>12. Adding(r)'
  BY <1>1, <1>9, <1>10, <1>11 DEF Adding, Still
<1>. QED
  BY <1>1, <1>9, <1>12, StillNfs DEF Phase, Reconfiguring, AddPCs

LEMMA PlayAddPhase ==
  ASSUME TypeOK, NothingHalfAdded, NEW r \in Runs, NfsOK, Phase(r), PlayAdd(r)
  PROVE  NfsOK' /\ Phase(r)'
<1> DEFINE i == run[r].draft
<1>1. Adding(r) /\ i \in InventoryRec /\ run[r].pc = "play_add"
  BY DEF PlayAdd, Phase, TypeOK, RunRec, AddPCs
<1>2. PICK failed \in BOOLEAN :
        /\ places' \in PlacesAfter(failed, Added(i))
        /\ inv' = IF failed THEN inv ELSE [i EXCEPT !.conf = Compute(i), !.add = {}]
        /\ loose' = IF failed THEN loose \union Compute(i) \union (pool \ inv.conf)
                    ELSE (loose \ i.add) \union (i.conf \ inv.conf) \union (pool \ Compute(i))
  BY DEF PlayAdd
<1>3. pool' = pool
  BY DEF PlayAdd
<1>4. Go(r, "end")
  BY DEF PlayAdd
<1>5. run'[r].pc = "end"
  BY <1>4, GoPc
<1>6. /\ inv.conf \subseteq i.conf /\ i.add \subseteq pool
      /\ i.nfs \in UNION {{None}, Compute(i), loose}
      /\ AgreeOn(Names \ loose, inv.conf) /\ inv.conf \ loose \subseteq pool
  BY <1>1 DEF Adding
<1>7. /\ Added(i).hosts = (IF Compute(i) = {} THEN places.hosts ELSE Compute(i))
      /\ Added(i).topo = places.topo \union i.add
      /\ Added(i).slurm = places.slurm \union i.add
  BY DEF Added
<1>8. /\ places'.hosts \in {places.hosts, Added(i).hosts}
      /\ places'.topo \in {places.topo, Added(i).topo}
      /\ places'.slurm \in {places.slurm, Added(i).slurm}
      /\ ~failed => places' = Added(i)
  BY <1>2, PlaceByPlace
<1>9. Compute(i) = i.conf \union i.add
  BY DEF Compute
<1>10. CASE failed
  <2>1. inv' = inv /\ loose' = loose \union Compute(i) \union (pool \ inv.conf)
    BY <1>2, <1>10
  <2>2. Settled'
    <3> SUFFICES ASSUME NEW n \in Names, n \notin loose'
                 PROVE  /\ n \in inv'.conf <=> n \in pool'
                        /\ n \in places'.hosts <=> n \in pool'
                        /\ n \in places'.topo <=> n \in pool'
                        /\ n \in places'.slurm <=> n \in pool'
      BY DEF Settled, AgreeOn
    <3>1. n \notin loose /\ n \notin i.conf /\ n \notin i.add /\ n \notin inv.conf /\ n \notin pool
      BY <1>6, <1>9, <2>1
    <3>2. n \notin places.hosts /\ n \notin places.topo /\ n \notin places.slurm
      BY <1>6, <3>1 DEF AgreeOn
    <3> HIDE DEF i
    <3>. QED
      BY <1>3, <1>7, <1>8, <1>9, <2>1, <3>1, <3>2
  <2>3. NfsOK'
    BY <2>1 DEF NfsOK
  <2>. QED
    BY <1>5, <2>2, <2>3 DEF Phase, Reconfiguring, AddPCs
<1>11. CASE ~failed
  <2>1. /\ inv'.conf = Compute(i) /\ inv'.nfs = i.nfs
        /\ loose' = (loose \ i.add) \union (i.conf \ inv.conf) \union (pool \ Compute(i))
    BY <1>1, <1>2, <1>11 DEF InventoryRec
  <2>2. Settled'
    <3> SUFFICES ASSUME NEW n \in Names, n \notin loose'
                 PROVE  /\ n \in inv'.conf <=> n \in pool'
                        /\ n \in places'.hosts <=> n \in pool'
                        /\ n \in places'.topo <=> n \in pool'
                        /\ n \in places'.slurm <=> n \in pool'
      BY DEF Settled, AgreeOn
    <3> HIDE DEF i
    <3>1. CASE n \in i.add
      BY <1>3, <1>6, <1>7, <1>8, <1>9, <1>11, <2>1, <3>1
    <3>2. CASE n \notin i.add
      <4>1. n \notin loose /\ (n \in i.conf <=> n \in inv.conf)
        BY <1>6, <2>1, <3>2
      <4>2. /\ n \in places.hosts <=> n \in inv.conf
            /\ n \in places.topo <=> n \in inv.conf
            /\ n \in places.slurm <=> n \in inv.conf
        BY <1>6, <4>1 DEF AgreeOn
      <4>3. n \in pool <=> n \in inv.conf
        BY <1>6, <1>9, <2>1, <3>2, <4>1
      <4>. QED
        BY <1>3, <1>7, <1>8, <1>9, <1>11, <2>1, <3>2, <4>1, <4>2, <4>3
    <3>. QED
      BY <3>1, <3>2
  <2>3. NfsOK'
    BY <1>6, <1>9, <2>1 DEF NfsOK
  <2>. QED
    BY <1>5, <2>2, <2>3 DEF Phase, Reconfiguring, AddPCs
<1>. QED
  BY <1>10, <1>11

LEMMA DraftAllPhase ==
  ASSUME TypeOK, NothingHalfAdded, NEW r \in Runs, NfsOK, Phase(r), DraftAll(r)
  PROVE  NfsOK' /\ Phase(r)'
<1>1. Settled /\ Still /\ run[r] \in RunRec
  BY DEF DraftAll, Phase, Still, TypeOK, AddPCs
<1>2. PICK L \in SUBSET pool :
        LET i == [inv EXCEPT !.conf = L, !.add = {}] IN
        \E nfs \in NfsChoice(i) :
          run' = [run EXCEPT ![r].pc = "play_all", ![r].draft = [i EXCEPT !.nfs = nfs]]
  BY DEF DraftAll
<1> DEFINE i == [inv EXCEPT !.conf = L, !.add = {}]
<1>3. PICK nfs \in NfsChoice(i) :
        run' = [run EXCEPT ![r].pc = "play_all", ![r].draft = [i EXCEPT !.nfs = nfs]]
  BY <1>2
<1>4. i.conf = L /\ i.add = {} /\ i.nfs = inv.nfs /\ i \in InventoryRec
  BY DEF TypeOK, InventoryRec
<1> DEFINE j == [i EXCEPT !.nfs = nfs]
<1> HIDE DEF i
<1>5. j.conf = L /\ j.add = {} /\ j.nfs = nfs
  BY <1>4 DEF InventoryRec
<1>6. run' = [run EXCEPT ![r].pc = "play_all", ![r].draft = j]
  BY <1>3
<1> HIDE DEF j
<1>7. run'[r].pc = "play_all" /\ run'[r].draft = j
  BY <1>1, <1>6 DEF TypeOK, RunRec
<1>8. nfs \in UNION {{None}, L, inv.conf, loose}
  BY <1>4 DEF NfsChoice, NfsOK
<1>9. Reconfiguring(r)'
  BY <1>1, <1>5, <1>7, <1>8 DEF Reconfiguring, Still
<1>. QED
  BY <1>1, <1>7, <1>9, StillSettled, StillNfs DEF Phase, AddPCs

LEMMA PlayAllPhase ==
  ASSUME TypeOK, NothingHalfAdded, NEW r \in Runs, NfsOK, Phase(r), PlayAll(r)
  PROVE  NfsOK' /\ Phase(r)'
<1> DEFINE i == run[r].draft
           crucial == run[r].req.crucial
           p == Configured(i, crucial)
<1>1. Settled /\ Reconfiguring(r) /\ run[r].pc = "play_all"
  BY DEF PlayAll, Phase, AddPCs
<1>2. PICK failed \in BOOLEAN :
        /\ places' \in PlacesAfter(failed, p)
        /\ inv' = IF failed THEN inv ELSE i
        /\ loose' = IF failed \/ crucial THEN UNION {loose, i.conf, inv.conf, pool}
                    ELSE (loose \ i.conf) \union (inv.conf \ i.conf) \union (pool \ i.conf)
  BY DEF PlayAll
<1>3. pool' = pool
  BY DEF PlayAll
<1>4. Go(r, "end")
  BY DEF PlayAll
<1>5. run'[r].pc = "end"
  BY <1>4, GoPc
<1>6. i.conf \subseteq pool /\ i.nfs \in UNION {{None}, i.conf, inv.conf, loose}
  BY <1>1 DEF Reconfiguring
<1>7. /\ p.hosts = (IF i.conf = {} THEN places.hosts ELSE i.conf)
      /\ p.topo \in {places.topo, places.topo \union i.conf}
      /\ p.slurm \in {places.slurm, places.slurm \union i.conf}
      /\ ~crucial => /\ p.topo = places.topo \union i.conf
                     /\ p.slurm = places.slurm \union i.conf
  BY DEF Configured
<1>8. /\ places'.hosts \in {places.hosts, p.hosts}
      /\ places'.topo \in {places.topo, p.topo}
      /\ places'.slurm \in {places.slurm, p.slurm}
      /\ ~failed => places' = p
  BY <1>2, PlaceByPlace
<1> HIDE DEF p, i, crucial
<1>9. Settled'
  <2> SUFFICES ASSUME NEW n \in Names, n \notin loose'
               PROVE  /\ n \in inv'.conf <=> n \in pool'
                      /\ n \in places'.hosts <=> n \in pool'
                      /\ n \in places'.topo <=> n \in pool'
                      /\ n \in places'.slurm <=> n \in pool'
    BY DEF Settled, AgreeOn
  <2>1. n \notin loose => /\ n \in inv.conf <=> n \in pool
                          /\ n \in places.hosts <=> n \in pool
                          /\ n \in places.topo <=> n \in pool
                          /\ n \in places.slurm <=> n \in pool
    BY <1>1 DEF Settled, AgreeOn
  <2>2. CASE failed \/ crucial
    <3>1. n \notin loose /\ n \notin i.conf /\ n \notin inv.conf /\ n \notin pool
      BY <1>2, <2>2
    <3>. QED
      BY <1>2, <1>3, <1>7, <1>8, <2>1, <3>1
  <2>3. CASE ~failed /\ ~crucial
    <3>1. n \notin (loose \ i.conf) \union (inv.conf \ i.conf) \union (pool \ i.conf)
      BY <1>2, <2>3
    <3>2. inv' = i /\ places' = p
      BY <1>2, <1>8, <2>3
    <3>. QED
      BY <1>3, <1>6, <1>7, <2>1, <2>3, <3>1, <3>2
  <2>. QED
    BY <2>2, <2>3
<1>10. NfsOK'
  <2>1. CASE failed \/ crucial
    BY <1>2, <1>6, <2>1 DEF NfsOK
  <2>2. CASE ~failed /\ ~crucial
    BY <1>2, <1>6, <2>2 DEF NfsOK
  <2>. QED
    BY <2>1, <2>2
<1>. QED
  BY <1>5, <1>9, <1>10 DEF Phase, Reconfiguring, AddPCs

LEMMA ListPhase ==
  ASSUME TypeOK, NothingHalfAdded, NEW r \in Runs, NfsOK, Phase(r), List(r)
  PROVE  NfsOK' /\ Phase(r)'
<1>1. Settled /\ Still
  BY DEF List, Phase, Still, AddPCs
<1>2. PICK L \in SUBSET Names :
        run'[r] = [run[r] EXCEPT !.pc = AfterListing(run[r].req), !.cn_instances = L,
                                 !.known = Compute(inv), !.current_size = PoolSize]
  BY ListEffect
<1>3. run[r] \in RunRec
  BY DEF TypeOK
<1>4. run'[r].pc = AfterListing(run[r].req)
  BY <1>2, <1>3 DEF RunRec
<1>5. AfterListing(run[r].req) \in {"probe", "draft_add", "draft_all"}
  BY DEF AfterListing
<1>. QED
  BY <1>1, <1>4, <1>5, StillPhase, StillNfs

LEMMA ProbePhase ==
  ASSUME TypeOK, NothingHalfAdded, NEW r \in Runs, NfsOK, Phase(r), Probe(r)
  PROVE  NfsOK' /\ Phase(r)'
<1>1. Settled /\ run[r] \in RunRec
  BY DEF Probe, Phase, TypeOK, AddPCs
<1>2. UNCHANGED <<pool, inv, places>>
  BY DEF Probe
<1>3. loose' = IF run'[r].pc = "terminate" THEN loose \union run'[r].to_remove ELSE loose
  BY DEF Probe
<1>4. /\ run'[r].pc \in {"terminate", "uninstall", "grow", "end"}
      /\ run'[r].pc = "terminate" => run'[r].todo = run'[r].to_remove
  <2>1. CASE run'[r] = [run[r] EXCEPT !.pc = "end"]
    BY <1>1, <2>1 DEF RunRec
  <2>2. ASSUME NEW T \in ToRemove(r),
               run'[r] = [run[r] EXCEPT !.pc = AfterProbe(run[r].req, T),
                                        !.to_remove = T, !.todo = T,
                                        !.current_size =
                                            IF AfterProbe(run[r].req, T) = "terminate"
                                            THEN PoolSize ELSE @]
        PROVE  /\ run'[r].pc \in {"terminate", "uninstall", "grow", "end"}
               /\ run'[r].pc = "terminate" => run'[r].todo = run'[r].to_remove
    <3> DEFINE pc == AfterProbe(run[r].req, T)
    <3>1. pc \in {"terminate", "uninstall", "grow", "end"}
      BY DEF AfterProbe
    <3> HIDE DEF pc
    <3>2. run'[r].pc = pc /\ run'[r].todo = T /\ run'[r].to_remove = T
      BY <1>1, <2>2 DEF RunRec, pc
    <3>. QED
      BY <3>1, <3>2
  <2>3. \/ run'[r] = [run[r] EXCEPT !.pc = "end"]
        \/ \E T \in ToRemove(r) :
             run'[r] = [run[r] EXCEPT !.pc = AfterProbe(run[r].req, T),
                                      !.to_remove = T, !.todo = T,
                                      !.current_size =
                                          IF AfterProbe(run[r].req, T) = "terminate"
                                          THEN PoolSize ELSE @]
    BY ProbeEffect
  <2>. QED
    BY <2>1, <2>2, <2>3, Zenon
<1>5. CASE run'[r].pc = "terminate"
  <2>1. AgreeOn(Names \ loose, pool \ run[r].todo)'
    BY <1>1, <1>2, <1>3, <1>4, <1>5 DEF Settled, AgreeOn
  <2>2. NfsOK'
    BY <1>2, <1>3 DEF NfsOK
  <2>. QED
    BY <1>5, <2>1, <2>2 DEF Phase, Reconfiguring, AddPCs
<1>6. CASE run'[r].pc # "terminate"
  <2>1. Still
    BY <1>2, <1>3, <1>6 DEF Still
  <2>. QED
    BY <1>1, <1>4, <1>6, <2>1, StillPhase, StillNfs
<1>. QED
  BY <1>5, <1>6

LEMMA GoPhase ==
  ASSUME TypeOK, NEW r \in Runs, NfsOK, Phase(r), CreateLock(r) \/ GrowRefused(r)
  PROVE  NfsOK' /\ Phase(r)'
<1>1. Settled /\ Still
  BY DEF CreateLock, GrowRefused, Phase, Still, AddPCs
<1>2. Go(r, "list") \/ Go(r, "end")
  BY DEF CreateLock, GrowRefused
<1>3. run'[r].pc \in {"list", "end"}
  BY <1>2, GoPc
<1>. QED
  BY <1>1, <1>3, StillPhase, StillNfs

LEMMA FinishSettles ==
  ASSUME NEW r \in Runs, NfsOK, Phase(r), Finish(r)
  PROVE  NfsOK' /\ Settled'
<1>1. Settled /\ Still
  BY DEF Finish, Phase, Still, AddPCs
<1>. QED
  BY <1>1, StillSettled, StillNfs

(* Whatever a killed run was at, what it was about is among the loose. *)
LEMMA KillSettles ==
  ASSUME TypeOK, NEW r \in Runs, RunOK(run[r]), NfsOK, Phase(r), Kill(r)
  PROVE  NfsOK' /\ Settled'
<1>1. UNCHANGED <<pool, inv, places>>
  BY DEF Kill
<1>2. /\ loose \subseteq loose' /\ run[r].to_remove \subseteq loose'
      /\ pool \ inv.conf \subseteq loose'
  BY DEF Kill
<1>3. NfsOK'
  BY <1>1, <1>2 DEF NfsOK
<1>4. CASE run[r].pc = "play_remove"
  <2>1. Uninstalling(r)
    BY <1>4 DEF Phase, AddPCs
  <2>. QED
    BY <1>1, <1>2, <1>3, <2>1 DEF Uninstalling, Settled, AgreeOn
<1>5. CASE run[r].pc = "terminate"
  <2>1. AgreeOn(Names \ loose, pool \ run[r].todo) /\ run[r].todo \subseteq run[r].to_remove
    BY <1>5 DEF Phase, RunOK, AddPCs
  <2>. QED
    BY <1>1, <1>2, <1>3, <2>1 DEF Settled, AgreeOn
<1>6. CASE run[r].pc \in AddPCs
  <2>1. AgreeOn(Names \ loose, inv.conf) /\ inv.conf \ loose \subseteq pool
    BY <1>6 DEF Phase, Adding, AddPCs
  <2>. QED
    BY <1>1, <1>2, <1>3, <2>1 DEF Settled, AgreeOn
<1>7. CASE run[r].pc \notin {"play_remove", "terminate"} \union AddPCs
  <2>1. Settled
    BY <1>7 DEF Phase, AddPCs
  <2>. QED
    BY <1>1, <1>2, <1>3, <2>1 DEF Settled, AgreeOn
<1>. QED
  BY <1>4, <1>5, <1>6, <1>7

-----------------------------------------------------------------------------
(* The invariant of the specification *)

LEMMA MiddlePhase ==
  ASSUME TypeOK, NothingHalfAdded, NEW r \in Runs, RunOK(run[r]), NfsOK, Phase(r), Middle(r)
  PROVE  NfsOK' /\ Phase(r)'
  BY ListPhase, ProbePhase, UninstallPhase, PlayRemovePhase, CommitRemovalPhase, TerminatePhase,
     MeasurePhase, RecordPhase, UnansweredPhase, GrowPhase, GoPhase, DraftAddPhase,
     PlayAddPhase, DraftAllPhase, PlayAllPhase
     DEF Middle, Removal, Sizing, Addition, Reconfiguration

LEMMA LookDrift ==
  ASSUME IInv, DriftInv, NEW r \in Runs, Look(r)
  PROVE  DriftInv'
<1> SUFFICES ASSUME ~mixed'
             PROVE  /\ NfsOK' /\ (Idle' => Settled')
                    /\ \A s \in Runs : run'[s].pc # "off" => Phase(s)'
  BY DEF DriftInv
<1>1. ~mixed /\ Idle
  BY DEF Look
<1>2. NfsOK /\ Settled /\ Still /\ TypeOK
  BY <1>1 DEF DriftInv, Look, Still, IInv
<1>3. Others(r) /\ \E q \in RequestRec :
        run'[r] = [Off EXCEPT !.pc = IF TakesLock(q) THEN "create" ELSE "list", !.req = q]
  BY <1>2, LookEffect
<1>4. run'[r].pc \in {"list", "create"}
  BY <1>3 DEF Off
<1>5. Phase(r)'
  BY <1>2, <1>4, StillPhase
<1>6. \A s \in Runs \ {r} : run'[s].pc = "off"
  BY <1>1, <1>3 DEF Idle, Others
<1>. QED
  BY <1>2, <1>5, <1>6, StillSettled, StillNfs

LEMMA WorkDrift ==
  ASSUME IInv, DriftInv, NEW r \in Runs, RunStep(r) \/ Kill(r)
  PROVE  DriftInv'
<1> SUFFICES ASSUME ~mixed'
             PROVE  /\ NfsOK' /\ (Idle' => Settled')
                    /\ \A s \in Runs : run'[s].pc # "off" => Phase(s)'
  BY DEF DriftInv
<1>1. TypeOK /\ RunsOK /\ RunOK(run[r]) /\ NothingHalfAdded /\ Alone
  BY DEF IInv, RunsOK
<1>2. run[r].pc # "off" /\ ~mixed
  BY <1>1, WorkingStep
<1>3. NfsOK /\ Phase(r)
  BY <1>2 DEF DriftInv
<1>4. \A s \in Runs \ {r} : run'[s].pc = "off"
  <2>1. Others(r)
    BY <1>1, StepOthers
  <2>2. \A s \in Runs \ {r} : run[s] = Off
    BY <1>1, <1>2, OnlyThisRun
  <2>. QED
    BY <2>1, <2>2 DEF Others, Off
<1>5. CASE Finish(r) \/ Kill(r)
  <2>1. run' = [run EXCEPT ![r] = Off]
    BY <1>5 DEF Finish, Kill
  <2>2. run'[r].pc = "off"
    BY <1>1, <2>1 DEF TypeOK, Off
  <2>3. NfsOK' /\ Settled'
    BY <1>1, <1>3, <1>5, FinishSettles, KillSettles
  <2>. QED
    BY <1>4, <2>2, <2>3
<1>6. CASE CreateLock(r) \/ Middle(r)
  <2>1. NfsOK' /\ Phase(r)'
    BY <1>1, <1>3, <1>6, GoPhase, MiddlePhase
  <2>2. run'[r].pc # "off"
    <3>1. CASE CreateLock(r)
      <4>1. Go(r, "list")
        BY <3>1 DEF CreateLock
      <4>. QED
        BY <1>1, <4>1, GoPc
    <3>2. CASE Middle(r)
      BY <1>1, <3>2, MiddleStep
    <3>. QED
      BY <1>6, <3>1, <3>2
  <2>. QED
    BY <1>4, <2>1, <2>2 DEF Idle
<1>. QED
  BY <1>5, <1>6, MiddleOrEnds

LEMMA QuietDrift ==
  ASSUME DriftInv, UNCHANGED <<run, inv, pool, places, loose, mixed>>
  PROVE  DriftInv'
<1> SUFFICES ASSUME ~mixed'
             PROVE  /\ NfsOK' /\ (Idle' => Settled')
                    /\ \A s \in Runs : run'[s].pc # "off" => Phase(s)'
  BY DEF DriftInv
<1>1. NfsOK /\ (Idle => Settled) /\ \A s \in Runs : run[s].pc # "off" => Phase(s)
  BY DEF DriftInv
<1>2. NfsOK' /\ (Idle' => Settled')
  BY <1>1 DEF NfsOK, Idle, Settled, AgreeOn
<1>3. ASSUME NEW s \in Runs, Phase(s)
      PROVE  Phase(s)'
  BY <1>3 DEF Phase, Settled, AgreeOn, Uninstalling, Adding, Reconfiguring, Without, Compute, AddPCs
<1>. QED
  BY <1>1, <1>2, <1>3

LEMMA NextDrift ==
  ASSUME IInv, DriftInv, [Next]_vars
  PROVE  DriftInv'
<1>1. ASSUME NEW r \in Runs, Look(r) \/ RunStep(r) \/ Kill(r)
      PROVE  DriftInv'
  BY <1>1, LookDrift, WorkDrift
<1>2. ASSUME NEW n \in Names, StopAnswering(n) \/ AnswerAgain(n)
      PROVE  DriftInv'
  BY <1>2, QuietDrift DEF StopAnswering, AnswerAgain, marks
<1>3. CASE UNCHANGED vars
  BY <1>3, QuietDrift DEF vars, marks
<1>. QED
  BY <1>1, <1>2, <1>3 DEF Next

LEMMA InitDrift == Init => DriftInv
<1> SUFFICES ASSUME Init PROVE DriftInv
  OBVIOUS
<1>1. NfsOK /\ Settled
  BY DEF Init, NfsOK, Settled, AgreeOn
<1>2. \A r \in Runs : run[r].pc = "off"
  BY DEF Init, Off
<1>. QED
  BY <1>1, <1>2 DEF DriftInv

(* Runs of resize that do not overlap leave the pool, the inventory,       *)
(* /etc/hosts, topology.conf and Slurm in agreement about every node but   *)
(* those a failure, an option or a kill left half done.                    *)
THEOREM NoDriftWithoutCause == Spec => []DriftHasACause
<1>1. Init => DriftInv
  BY InitDrift
<1>2. IInv /\ DriftInv /\ [Next]_vars => DriftInv'
  BY NextDrift
<1>3. IInv /\ DriftInv => DriftHasACause
  <2> SUFFICES ASSUME IInv, DriftInv, Idle, ~mixed
               PROVE  /\ \A S \in {inv.conf, places.hosts, places.topo, places.slurm} :
                           S \ loose = pool \ loose
                      /\ inv.nfs \in UNION {{None}, inv.conf, loose}
    BY Zenon DEF DriftHasACause
  <2>1. Settled /\ NfsOK
    BY DEF DriftInv
  <2>2. /\ pool \subseteq Names /\ inv.conf \subseteq Names /\ places.hosts \subseteq Names
        /\ places.topo \subseteq Names /\ places.slurm \subseteq Names
    BY DEF IInv, TypeOK, InventoryRec, PlacesRec
  <2>3. \A S \in {inv.conf, places.hosts, places.topo, places.slurm} :
          S \ loose = pool \ loose
    BY <2>1, <2>2 DEF Settled, AgreeOn
  <2>. QED
    BY <2>1, <2>3 DEF NfsOK
<1>. QED
  BY <1>1, <1>2, <1>3, InductiveInvariant, PTL DEF Spec
=============================================================================
