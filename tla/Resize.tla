------------------------------- MODULE Resize -------------------------------
(***************************************************************************)
(* Manual resizing: bin/resize.sh, which takes the cluster's lock file,    *)
(* and bin/resize/resize.py with reconfigure.py and utils.py, which change *)
(* the instance pool through OCI and then the inventory, /etc/hosts and    *)
(* Slurm through Ansible.  Nothing makes the two halves one step: nodes    *)
(* stop answering between them, a playbook fails half way, the run is      *)
(* killed, or a second run overlaps.                                       *)
(* Left out: compute clusters (CN = "CC"), DNS records, and host names     *)
(* other than the instances' (change_hostname).                            *)
(***************************************************************************)
EXTENDS Integers, FiniteSets, FiniteSetsExt

CONSTANTS Names,       \* bound: the instances OCI has room for
          None,        \* no node
          Runs,        \* bound: the runs of resize.sh that may overlap
          Requests,    \* the command lines that are given
          Permanent,   \* the cluster of the stack itself, not an autoscaled one
          MaxStarts,   \* bound on the runs started
          MaxFaults    \* bound on the failures, outages and kills

Modes == {"add", "remove", "remove_unreachable", "reconfigure"}
RequestRec ==
    [mode : Modes, number : Nat, nodes : SUBSET Names, sweep : BOOLEAN,
     force : BOOLEAN, no_reconfigure : BOOLEAN, crucial : BOOLEAN, FORCE : BOOLEAN]

ASSUME NamesAssumption == IsFiniteSet(Names) /\ None \notin Names
ASSUME RequestsAssumption == Requests \subseteq RequestRec
ASSUME ResizeBounds == Permanent \in BOOLEAN /\ MaxStarts \in Nat /\ MaxFaults \in Nat

VARIABLES
  pool,     \* the instances of the cluster network
  up,       \* those that answer ssh
  inv,      \* the inventory on disk
  places,   \* where Ansible writes the nodes down
  tf,       \* the size in the cluster's Terraform state
  lock,     \* the file currently_resizing exists
  run,      \* the runs of resize.sh
  loose,    \* history: the nodes that a failure or an option left half done
  mixed,    \* history: two runs have overlapped
  crossed,  \* history: two runs that take the lock have overlapped
  killed,   \* history: a run that takes the lock has been killed
  unwritten, \* history: a run has changed the pool and not written down its size
  starts, faults

marks == <<mixed, crossed, killed, unwritten>>
counters == <<starts, faults>>
vars == <<pool, up, inv, places, tf, lock, run, loose, marks, counters>>

InventoryRec == [conf : SUBSET Names, add : SUBSET Names, nfs : Names \union {None}]
PlacesRec == [hosts : SUBSET Names, topo : SUBSET Names, slurm : SUBSET Names]
PCs == {"off", "create", "list", "probe", "uninstall", "play_remove", "terminate", "record",
        "grow", "measure", "record_new", "draft_add", "play_add", "draft_all", "play_all", "end"}
(* broke is history: the nodes whose removal by Ansible failed. *)
RunRec ==
    [pc : PCs, req : RequestRec, known : SUBSET Names, cn_instances : SUBSET Names,
     to_remove : SUBSET Names, todo : SUBSET Names, broke : SUBSET Names, draft : InventoryRec,
     flag : {0, 1}, current_size : Nat, newsize : Nat]

NoInventory == [conf |-> {}, add |-> {}, nfs |-> None]
NoRequest == [mode |-> "add", number |-> 0, nodes |-> {}, sweep |-> FALSE, force |-> FALSE,
              no_reconfigure |-> FALSE, crucial |-> FALSE, FORCE |-> FALSE]
Off == [pc |-> "off", req |-> NoRequest, known |-> {}, cn_instances |-> {}, to_remove |-> {},
        todo |-> {}, broke |-> {}, draft |-> NoInventory, flag |-> 0, current_size |-> 0,
        newsize |-> 0]

Init ==
    /\ pool \in SUBSET Names \ {{}} /\ up = pool
    /\ \E n \in pool : inv = [conf |-> pool, add |-> {}, nfs |-> n]
    /\ places = [hosts |-> pool, topo |-> pool, slurm |-> pool]
    /\ tf = Cardinality(pool)
    /\ lock = FALSE
    /\ run = [r \in Runs |-> Off]
    /\ loose = {} /\ mixed = FALSE /\ crossed = FALSE /\ killed = FALSE /\ unwritten = FALSE
    /\ starts = 0 /\ faults = 0

Idle == \A r \in Runs : run[r].pc = "off"
Compute(i) == i.conf \union i.add
Placed == UNION {places.hosts, places.topo, places.slurm}

(* A step that may fail spends one of the failures when it does. *)
Fault(failed) ==
    /\ failed => faults < MaxFaults
    /\ faults' = IF failed THEN faults + 1 ELSE faults

Go(r, pc) == run' = [run EXCEPT ![r].pc = pc]

-----------------------------------------------------------------------------
(* bin/resize.sh *)

(* A reconfigure (resize_type=default) goes straight to resize.py, and the *)
(* permanent cluster has no lock.                                          *)
TakesLock(q) == ~Permanent /\ q.mode # "reconfigure"
Locking(r) == run[r].pc # "off" /\ TakesLock(run[r].req)

(* The lock file is looked for; with FORCE it does not count.  A run that  *)
(* finds it prints a message and exits.                                    *)
Look(r) ==
    /\ run[r].pc = "off" /\ starts < MaxStarts
    /\ \E q \in Requests :
         /\ ~TakesLock(q) \/ ~lock \/ q.FORCE
         /\ run' = [run EXCEPT ![r] = [Off EXCEPT !.pc = IF TakesLock(q) THEN "create" ELSE "list",
                                                  !.req = q]]
         /\ crossed' = (crossed \/ (TakesLock(q) /\ \E s \in Runs : Locking(s)))
    /\ starts' = starts + 1
    /\ mixed' = (mixed \/ ~Idle)
    /\ UNCHANGED <<pool, up, inv, places, tf, lock, loose, killed, unwritten, faults>>

(* Created in a step of its own: two runs may have looked before. *)
CreateLock(r) ==
    /\ run[r].pc = "create"
    /\ lock' = TRUE
    /\ Go(r, "list")
    /\ UNCHANGED <<pool, up, inv, places, tf, loose, marks, counters>>

(* Mutant of Finish: whoever comes to the end removes the lock. *)
FinishAny(r) ==
    /\ run[r].pc = "end"
    /\ lock' = FALSE
    /\ run' = [run EXCEPT ![r] = Off]
    /\ UNCHANGED <<pool, up, inv, places, tf, loose, marks, counters>>

(* Whatever resize.py returned, the lock file goes; not after a            *)
(* reconfigure, which may have run beside one that has it.                 *)
Finish(r) ==
    /\ run[r].pc = "end"
    /\ lock' = (lock /\ ~TakesLock(run[r].req))
    /\ run' = [run EXCEPT ![r] = Off]
    /\ UNCHANGED <<pool, up, inv, places, tf, loose, marks, counters>>

(* Between changing the pool and writing down its size. *)
Changing(u) == u.pc \in {"terminate", "measure", "record", "record_new"}

(* The run is killed: the lock stays and nothing is undone. *)
Kill(r) ==
    /\ run[r].pc \notin {"off", "end"} /\ Fault(TRUE)
    /\ loose' = UNION {loose, run[r].to_remove, pool \ inv.conf, Compute(run[r].draft)}
    /\ run' = [run EXCEPT ![r] = Off]
    /\ killed' = (killed \/ TakesLock(run[r].req))
    /\ unwritten' = (unwritten \/ Changing(run[r]))
    /\ UNCHANGED <<pool, up, inv, places, tf, lock, mixed, crossed, starts>>

-----------------------------------------------------------------------------
(* bin/resize/resize.py *)

(* get_instances skips the instances whose network card it cannot read. *)
Listing(L) ==
    /\ L \subseteq pool /\ Cardinality(pool \ L) <= 1
    /\ Fault(L # pool)

AfterListing(q) ==
    IF q.mode # "reconfigure" THEN "probe"
    ELSE IF q.nodes # {} THEN "draft_add" ELSE "draft_all"

(* get_summary: the size of the pool as OCI gives it. *)
PoolSize == Cardinality(pool)

(* parse_inventory, get_summary, wait_for_running_status, get_instances. *)
List(r) ==
    /\ run[r].pc = "list"
    /\ \E L \in SUBSET pool :
         /\ Listing(L)
         /\ run' = [run EXCEPT ![r].pc = AfterListing(run[r].req), ![r].cn_instances = L,
                               ![r].known = Compute(inv),
                               ![r].current_size = PoolSize]
    /\ UNCHANGED <<pool, up, inv, places, tf, lock, loose, marks, starts>>

(* Mutant of ByNumber: the NFS node is as good as any other. *)
ByNumberAny(q, dead, instances) ==
    LET additional == q.number - Cardinality(dead) IN
    {dead \union S : S \in kSubset(additional, instances)}

(* remove without --nodes: the unreachable nodes, and as many of the last  *)
(* nodes of the listing as are missing to the number asked for, the NFS    *)
(* node left out; or every node when that takes them all.                  *)
ByNumber(q, dead, instances) ==
    LET additional == q.number - Cardinality(dead) IN
    IF additional <= 0 THEN {dead}
    ELSE IF additional >= Cardinality(instances) THEN {instances}
    ELSE {dead \union S : S \in kSubset(additional, instances \ {inv.nfs})}

(* The nodes getreachable gets no answer from, of those it is given. *)
Unreachable(r) ==
    LET listed == IF run[r].req.mode = "remove_unreachable" THEN run[r].cn_instances ELSE {} IN
    (listed \union run[r].known) \ up

(* What each mode makes of them; no value when it exits. *)
ToRemove(r) ==
    LET q == run[r].req  dead == Unreachable(r) IN
    IF q.mode = "remove_unreachable" THEN IF q.nodes = {} THEN {dead} \ {{}} ELSE {q.nodes}
    ELSE IF dead # {} /\ ~q.sweep THEN {}
    ELSE IF q.mode = "add" THEN {dead}
    ELSE IF q.nodes # {} THEN {q.nodes \union dead}
    ELSE ByNumber(q, dead, run[r].cn_instances)

(* Without --no_reconfigure a removal is configured first. *)
AfterProbe(q, T) ==
    IF T # {} THEN IF q.no_reconfigure THEN "terminate" ELSE "uninstall"
    ELSE IF q.mode = "add" THEN "grow" ELSE "end"

(* getreachable and the choice of hostnames_to_remove.  The size is read   *)
(* again before the first node goes.                                       *)
Probe(r) ==
    LET q == run[r].req IN
    /\ run[r].pc = "probe"
    /\ \/ \E T \in ToRemove(r) :
            run' = [run EXCEPT ![r].pc = AfterProbe(q, T), ![r].to_remove = T, ![r].todo = T,
                              ![r].current_size =
                                  IF AfterProbe(q, T) = "terminate" THEN PoolSize ELSE @]
       \/ ToRemove(r) = {} /\ Go(r, "end")
    /\ loose' = IF run'[r].pc = "terminate" THEN loose \union run'[r].to_remove ELSE loose
    /\ UNCHANGED <<pool, up, inv, places, tf, lock, marks, counters>>

(* Mutant of Terminate: everything that is left of the list goes, and      *)
(* whatever else does not answer.                                          *)
TerminateMore(r) ==
    /\ run[r].pc = "terminate"
    /\ \E n \in run[r].todo :
         /\ pool' = pool \ ({n} \union (pool \ up)) /\ up' = up \ {n}
         /\ run' = [run EXCEPT ![r].todo = @ \ {n}]
    /\ UNCHANGED <<inv, places, tf, lock, loose, marks, counters>>

(* The instance leaves the pool, which shrinks by one.  An exception, also *)
(* for a node that is no instance, is printed and passed over.             *)
Terminate(r) ==
    /\ run[r].pc = "terminate"
    /\ \E n \in run[r].todo, failed \in BOOLEAN :
         /\ n \in pool \/ ~failed
         /\ Fault(failed)
         /\ IF failed THEN /\ UNCHANGED <<pool, up>>
                          /\ loose' = loose \union {n}
                      ELSE /\ pool' = pool \ {n} /\ up' = up \ {n}
                           /\ UNCHANGED loose
         /\ run' = [run EXCEPT ![r].todo = @ \ {n}]
    /\ UNCHANGED <<inv, places, tf, lock, marks, starts>>

(* After the last node has gone, and after the pool has grown. *)
Resized(u) == u.pc = "measure" \/ (u.pc = "terminate" /\ u.todo = {})
WithSize(u, n) ==
    [u EXCEPT !.pc = IF u.pc = "measure" THEN "record_new" ELSE "record", !.newsize = n]

(* Mutant of Measure: the size the run began with is taken for it. *)
MeasureOld(r) ==
    /\ Resized(run[r])
    /\ run' = [run EXCEPT ![r] = WithSize(run[r], run[r].current_size)]
    /\ UNCHANGED <<pool, up, inv, places, tf, lock, loose, marks, counters>>

(* The size is read; another run may change it before it is written down.  *)
Measure(r) ==
    /\ Resized(run[r])
    /\ run' = [run EXCEPT ![r] = WithSize(run[r], PoolSize)]
    /\ UNCHANGED <<pool, up, inv, places, tf, lock, loose, marks, counters>>

(* A removal is followed by the addition of mode add; after an addition    *)
(* the sizes tell the run whether there is something to configure.         *)
AfterRecord(u) ==
    IF u.pc = "record" THEN IF u.req.mode = "add" THEN "grow" ELSE "end"
    ELSE IF u.newsize = u.current_size \/ u.req.no_reconfigure THEN "end" ELSE "draft_add"

(* updateTFState: only an autoscaled cluster has its state in its folder.  *)
(* Whatever fails in it is swallowed, and the run goes on.                 *)
Record(r) ==
    LET u == run[r] IN
    /\ u.pc \in {"record", "record_new"}
    /\ \E written \in BOOLEAN :
         /\ Fault(~written)
         /\ tf' = IF written /\ ~Permanent THEN u.newsize ELSE tf
         /\ unwritten' = ~written
    /\ Go(r, AfterRecord(u))
    /\ loose' = IF u.pc = "record_new" /\ AfterRecord(u) = "end"
                THEN loose \union (pool \ inv.conf) ELSE loose
    /\ UNCHANGED <<pool, up, inv, places, lock, mixed, crossed, killed, starts>>

(* get_summary finds no running cluster, or OCI does not answer: the run   *)
(* ends, before it has begun, before the first node goes or before the     *)
(* size is read.                                                           *)
Unanswered(r) ==
    LET u == run[r] IN
    /\ u.pc = "list" \/ Resized(u) \/ (u.pc = "terminate" /\ u.todo = u.to_remove)
    /\ Fault(TRUE)
    /\ Go(r, "end")
    /\ loose' = UNION {loose, u.to_remove, IF u.pc = "measure" THEN pool \ inv.conf ELSE {}}
    /\ unwritten' = (unwritten \/ Changing(u))
    /\ UNCHANGED <<pool, up, inv, places, tf, lock, mixed, crossed, killed, starts>>

(* Names OCI has not given out and nothing remembers. *)
Fresh ==
    Names \ UNION {pool, Compute(inv), Placed,
                   UNION {run[r].to_remove \union Compute(run[r].draft) : r \in Runs}}

(* The pool is given the size it had before the removal, less the nodes to *)
(* remove, more the number asked for: it grows as far as OCI has room, or  *)
(* shrinks by instances of OCI's choosing.  The wait for it may time out:  *)
(* that ends the run, and the pool is what it has become.                  *)
Grow(r) ==
    LET size == run[r].current_size - Cardinality(run[r].to_remove) + run[r].req.number
        room == Min({size - Cardinality(pool), Cardinality(Fresh)}) IN
    /\ run[r].pc = "grow" /\ size >= 0
    /\ \E new \in SUBSET Fresh, lost \in SUBSET pool, timeout \in BOOLEAN :
         /\ IF size >= Cardinality(pool)
            THEN lost = {} /\ Cardinality(new) \in {room, 0}
            ELSE new = {} /\ Cardinality(lost) = Cardinality(pool) - size
         /\ Fault(timeout \/ (size >= Cardinality(pool) /\ Cardinality(new) < room))
         /\ pool' = (pool \ lost) \union new
         /\ up' = (up \ lost) \union new
         /\ Go(r, IF timeout THEN "end" ELSE "measure")
         /\ loose' = UNION {loose, lost, IF timeout THEN new ELSE {}}
         /\ unwritten' = (unwritten \/ timeout)
    /\ UNCHANGED <<inv, places, tf, lock, mixed, crossed, killed, starts>>

(* OCI refuses the size: the exception ends resize.py. *)
GrowRefused(r) ==
    /\ run[r].pc = "grow"
    /\ Fault(run[r].current_size + run[r].req.number >= Cardinality(run[r].to_remove))
    /\ Go(r, "end")
    /\ UNCHANGED <<pool, up, inv, places, tf, lock, loose, marks, starts>>

-----------------------------------------------------------------------------
(* bin/resize/reconfigure.py *)

(* The inventory without some nodes; the NFS line goes with its node. *)
Without(i, T) ==
    [conf |-> i.conf \ T, add |-> i.add \ T, nfs |-> IF i.nfs \in T THEN None ELSE i.nfs]

(* destroy_unreachable_reconfigure: a temporary inventory without them. *)
Uninstall(r) ==
    /\ run[r].pc = "uninstall"
    /\ run' = [run EXCEPT ![r].pc = "play_remove", ![r].draft = Without(inv, run[r].to_remove),
                          ![r].todo = run[r].to_remove, ![r].flag = 0]
    /\ UNCHANGED <<pool, up, inv, places, tf, lock, loose, marks, counters>>

(* update_cluster: a playbook on the temporary inventory.  It fails when a *)
(* compute node of it does not answer, or for reasons of its own, and then *)
(* the first k of its changes to the three places have been made.          *)
Plays(r, failed) ==
    /\ Compute(run[r].draft) \subseteq up \/ failed
    /\ Fault(failed /\ Compute(run[r].draft) \subseteq up)
FirstOf(k, p) ==
    [hosts |-> IF k >= 1 THEN p.hosts ELSE places.hosts,
     topo |-> IF k >= 2 THEN p.topo ELSE places.topo,
     slurm |-> IF k >= 3 THEN p.slurm ELSE places.slurm]
PlacesAfter(failed, p) == IF failed THEN {FirstOf(k, p) : k \in 0 .. 3} ELSE {p}

(* resize_remove_unreachable.yml for one node: its line in /etc/hosts, its *)
(* place in topology.conf, the Slurm node, and the cluster's /etc/hosts    *)
(* block anew.  Slurm may refuse to delete the node: ignore_errors.        *)
RemovedFrom(n, i, refused) ==
    [hosts |-> IF Compute(i) = {} THEN places.hosts \ {n} ELSE Compute(i),
     topo |-> places.topo \ {n},
     slurm |-> IF refused THEN places.slurm ELSE places.slurm \ {n}]

(* One run of the playbook per node: only the last one's result is kept.   *)
PlayRemove(r) ==
    /\ run[r].pc = "play_remove"
    /\ \E n \in run[r].todo, failed, refused \in BOOLEAN :
         /\ Plays(r, failed)
         /\ refused => n \in places.slurm
         /\ places' \in PlacesAfter(failed, RemovedFrom(n, run[r].draft, refused))
         /\ loose' = IF failed \/ refused THEN loose \union {n} ELSE loose
         /\ run' = [run EXCEPT ![r].todo = @ \ {n}, ![r].flag = IF failed THEN 1 ELSE 0,
                               ![r].broke = IF failed THEN @ \union {n} ELSE @]
    /\ UNCHANGED <<pool, up, inv, tf, lock, marks, starts>>

(* Mutant of CommitRemoval: the nodes are terminated in any case. *)
CommitRemovalAnyway(r) ==
    LET ok == run[r].flag = 0 IN
    /\ run[r].pc = "play_remove" /\ run[r].todo = {}
    /\ inv' = IF ok THEN run[r].draft ELSE inv
    /\ loose' = loose
    /\ run' = [run EXCEPT ![r].pc = "terminate", ![r].todo = run[r].to_remove,
                          ![r].current_size = PoolSize]
    /\ UNCHANGED <<pool, up, places, tf, lock, marks, counters>>

(* After a success the temporary inventory becomes the inventory.  After a *)
(* failure the run exits, unless it was given --force.  The size is read   *)
(* again before the first node goes.                                       *)
CommitRemoval(r) ==
    LET ok == run[r].flag = 0 IN
    /\ run[r].pc = "play_remove" /\ run[r].todo = {}
    /\ inv' = IF ok THEN run[r].draft ELSE inv
    /\ loose' = IF ok THEN loose ELSE loose \union run[r].to_remove
    /\ run' = IF ok \/ run[r].req.force
              THEN [run EXCEPT ![r].pc = "terminate", ![r].todo = run[r].to_remove,
                               ![r].current_size = PoolSize]
              ELSE [run EXCEPT ![r].pc = "end"]
    /\ UNCHANGED <<pool, up, places, tf, lock, marks, counters>>

(* The nfs group: kept, or the first node of compute_to_add, or else of    *)
(* compute_configured.                                                     *)
NfsChoice(i) ==
    IF i.nfs # None THEN {i.nfs}
    ELSE IF i.add # {} THEN i.add
    ELSE IF i.conf # {} THEN i.conf ELSE {None}

(* add_reconfigure: the instances not in compute_configured are to add;    *)
(* with --nodes, the others are listed as configured as they are.          *)
DraftAdd(r) ==
    LET chosen == run[r].req.nodes IN
    /\ run[r].pc = "draft_add"
    /\ \E L \in SUBSET pool :
         LET new == L \ inv.conf
             named == IF chosen = {} THEN new ELSE new \intersect chosen
             i == [inv EXCEPT !.conf = @ \union (new \ named), !.add = @ \union named] IN
         /\ Listing(L)
         /\ \E nfs \in NfsChoice(i) :
              run' = [run EXCEPT ![r].pc = "play_add", ![r].draft = [i EXCEPT !.nfs = nfs]]
    /\ UNCHANGED <<pool, up, inv, places, tf, lock, loose, marks, starts>>

(* Mutant of Added: the topology is left to the next reconfiguration. *)
AddedWithoutTopology(i) ==
    [hosts |-> IF Compute(i) = {} THEN places.hosts ELSE Compute(i),
     topo |-> places.topo, slurm |-> places.slurm \union i.add]

(* resize_add.yml: the cluster's /etc/hosts block, then topology.conf and  *)
(* Slurm for the nodes to add.  What wait_for_hosts.sh says is not used.   *)
Added(i) == [hosts |-> IF Compute(i) = {} THEN places.hosts ELSE Compute(i),
             topo |-> places.topo \union i.add,
             slurm |-> places.slurm \union i.add]

(* Mutant of PlayAdd: compute_to_add is written as it is. *)
PlayAddUnmoved(r) ==
    LET i == run[r].draft IN
    /\ run[r].pc = "play_add"
    /\ \E failed \in BOOLEAN :
         /\ Plays(r, failed)
         /\ places' \in PlacesAfter(failed, Added(i))
         /\ inv' = IF failed THEN inv ELSE i
         /\ loose' = IF failed THEN loose \union Compute(i) \union (pool \ inv.conf)
                     ELSE (loose \ i.add) \union (i.conf \ inv.conf) \union (pool \ Compute(i))
    /\ Go(r, "end")
    /\ UNCHANGED <<pool, up, tf, lock, marks, starts>>

(* update_cluster with resize_add.yml; after a success compute_to_add is   *)
(* moved to compute_configured and the inventory replaced, after a failure *)
(* the run exits.                                                          *)
PlayAdd(r) ==
    LET i == run[r].draft IN
    /\ run[r].pc = "play_add"
    /\ \E failed \in BOOLEAN :
         /\ Plays(r, failed)
         /\ places' \in PlacesAfter(failed, Added(i))
         /\ inv' = IF failed THEN inv ELSE [i EXCEPT !.conf = Compute(i), !.add = {}]
         /\ loose' = IF failed THEN loose \union Compute(i) \union (pool \ inv.conf)
                     ELSE (loose \ i.add) \union (i.conf \ inv.conf) \union (pool \ Compute(i))
    /\ Go(r, "end")
    /\ UNCHANGED <<pool, up, tf, lock, marks, starts>>

(* reconfigure: compute_configured is written anew from the instances. *)
DraftAll(r) ==
    /\ run[r].pc = "draft_all"
    /\ \E L \in SUBSET pool :
         LET i == [inv EXCEPT !.conf = L, !.add = {}] IN
         /\ Listing(L)
         /\ \E nfs \in NfsChoice(i) :
              run' = [run EXCEPT ![r].pc = "play_all", ![r].draft = [i EXCEPT !.nfs = nfs]]
    /\ UNCHANGED <<pool, up, inv, places, tf, lock, loose, marks, starts>>

(* site.yml or new_nodes.yml does all for every node; resize_remove.yml,   *)
(* for --ansible_crucial, has the /etc/hosts files only.                   *)
Configured(i, crucial) ==
    [hosts |-> IF i.conf = {} THEN places.hosts ELSE i.conf,
     topo |-> IF crucial THEN places.topo ELSE places.topo \union i.conf,
     slurm |-> IF crucial THEN places.slurm ELSE places.slurm \union i.conf]

PlayAll(r) ==
    LET i == run[r].draft  crucial == run[r].req.crucial IN
    /\ run[r].pc = "play_all"
    /\ \E failed \in BOOLEAN :
         /\ Plays(r, failed)
         /\ places' \in PlacesAfter(failed, Configured(i, crucial))
         /\ inv' = IF failed THEN inv ELSE i
         /\ loose' = IF failed \/ crucial THEN UNION {loose, i.conf, inv.conf, pool}
                     ELSE (loose \ i.conf) \union (inv.conf \ i.conf) \union (pool \ i.conf)
    /\ Go(r, "end")
    /\ UNCHANGED <<pool, up, tf, lock, marks, starts>>

-----------------------------------------------------------------------------
(* The nodes *)

StopAnswering(n) ==
    /\ n \in up /\ Fault(TRUE)
    /\ up' = up \ {n}
    /\ UNCHANGED <<pool, inv, places, tf, lock, run, loose, marks, starts>>

AnswerAgain(n) ==
    /\ n \in pool \ up
    /\ up' = up \union {n}
    /\ UNCHANGED <<pool, inv, places, tf, lock, run, loose, marks, counters>>

Removal(r) ==
    Uninstall(r) \/ PlayRemove(r) \/ CommitRemoval(r) \/ Terminate(r)
Sizing(r) == Measure(r) \/ Record(r) \/ Unanswered(r)
Addition(r) == Grow(r) \/ GrowRefused(r) \/ DraftAdd(r) \/ PlayAdd(r)
Reconfiguration(r) == DraftAll(r) \/ PlayAll(r)

RunStep(r) ==
    \/ CreateLock(r) \/ List(r) \/ Probe(r) \/ Finish(r)
    \/ Removal(r) \/ Sizing(r) \/ Addition(r) \/ Reconfiguration(r)

Next ==
    \/ \E r \in Runs : Look(r) \/ RunStep(r) \/ Kill(r)
    \/ \E n \in Names : StopAnswering(n) \/ AnswerAgain(n)

Spec == Init /\ [][Next]_vars

-----------------------------------------------------------------------------
(* Properties *)

(* The type of the state. *)
TypeOK ==
    /\ pool \subseteq Names /\ up \subseteq Names
    /\ inv \in InventoryRec /\ places \in PlacesRec
    /\ tf \in Nat /\ lock \in BOOLEAN
    /\ run \in [Runs -> RunRec]
    /\ loose \subseteq Names
    /\ mixed \in BOOLEAN /\ crossed \in BOOLEAN /\ killed \in BOOLEAN /\ unwritten \in BOOLEAN
    /\ starts \in Nat /\ faults \in Nat

(* When no run is under way and none has overlapped another, the pool, the *)
(* inventory, /etc/hosts, topology.conf and Slurm agree about every node   *)
(* but those a playbook failed on, a failed call, an option or a kill left *)
(* half done: a run never leaves a difference that has no such cause.  Nor *)
(* does one leave an NFS server that is not a configured node.             *)
DriftHasACause ==
    Idle /\ ~mixed =>
        /\ \A S \in {inv.conf, places.hosts, places.topo, places.slurm} : S \ loose = pool \ loose
        /\ inv.nfs \in UNION {{None}, inv.conf, loose}

(* compute_to_add of the inventory on disk is always empty: nodes wait     *)
(* there in temporary inventories only, even when runs overlap or die.     *)
NothingHalfAdded == inv.add = {}

(* Only a node that a removal was told to remove or found unreachable      *)
(* leaves the pool, but for those OCI takes when an add sets too small a   *)
(* size: with --remove_unreachable, or beside another run.  And, but for   *)
(* --force and --no_reconfigure, none goes before Ansible has removed at   *)
(* least one node of the run.  That it has removed this one is so only for *)
(* a run with one: the result of the last playbook stands for all, and a   *)
(* node whose own failed before that goes too.                             *)
OnlyTargetsGo ==
    [][\A n \in pool \ pool' : \E r \in Runs :
         LET u == run[r] IN
         \/ /\ u.pc = "terminate" /\ n \in u.to_remove
            /\ u.req.force \/ u.req.no_reconfigure \/ u.to_remove \ u.broke # {}
         \/ u.pc = "grow" /\ (u.req.sweep \/ mixed)]_vars

(* remove with a number and nothing else never has more nodes to remove    *)
(* than that, and the NFS node is not among them unless all are.           *)
TakesNoMore ==
    \A r \in Runs :
        LET q == run[r].req IN
        q.mode = "remove" /\ q.nodes = {} /\ ~q.sweep =>
            /\ Cardinality(run[r].to_remove) <= q.number
            /\ ~mixed /\ inv.nfs \in run[r].to_remove => run[r].cn_instances \subseteq run[r].to_remove

(* The Terraform state of an autoscaled cluster, which delete_cluster.sh   *)
(* destroys from, has the pool's size in it when no run is between         *)
(* changing the pool and writing it down.  Runs that overlapped may have   *)
(* each written what it read; or a run was killed or ended by an exception *)
(* in between, or could not write, and none has written since.             *)
StateKnowsSize ==
    \/ Permanent \/ mixed \/ unwritten
    \/ tf = Cardinality(pool)
    \/ \E r \in Runs : Changing(run[r])

(* The lock file is there while a run that takes it works, and gone once   *)
(* it is over, unless two of them overlapped or one was killed; whatever   *)
(* reconfigures, which neither look for it nor take it, run beside them.   *)
LockMeansRunning ==
    ~crossed =>
        /\ \A r \in Runs : Locking(r) /\ run[r].pc # "create" => lock
        /\ lock /\ ~killed => \E r \in Runs : Locking(r) /\ run[r].pc # "create"
=============================================================================
