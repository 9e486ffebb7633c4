----------------------------- MODULE Validation -----------------------------
(***************************************************************************)
(* scripts/validation.py -n y, which compares what resize.sh lists with    *)
(* /etc/hosts, Slurm, topology.conf, the inventory and OCI.  It reads one  *)
(* place after the other, beside runs of resize.sh that change them all.   *)
(* The nodes of other clusters are taken to be in order everywhere.        *)
(***************************************************************************)
EXTENDS Resize

CONSTANT Similar  \* the cluster's name is part of another cluster's lines in /etc/hosts

ASSUME SimilarAssumption == Similar \in BOOLEAN

VARIABLES
  audit,     \* the run of validation.py: how far it is and what it has read
  same,      \* the places it said are the same as resize
  reported,  \* what it wrote into its files: a place and a node
  still      \* history: nothing has changed since it began

auditVars == <<audit, same, reported, still>>

Listed == {"hosts", "slurm", "topo", "inventory", "oci"}
AuditPCs == {"off", "all", "hosts", "slurm", "topo", "inventory", "compare", "done"}
AuditRec ==
    [pc : AuditPCs, resize : SUBSET Names, all : SUBSET Names, hosts : SUBSET Names,
     slurm : SUBSET Names, topo : SUBSET Names, inventory : SUBSET Names]
NoAudit == [pc |-> "off", resize |-> {}, all |-> {}, hosts |-> {}, slurm |-> {}, topo |-> {},
            inventory |-> {}]

(* Every place, for the properties. *)
At(p) == CASE p = "hosts" -> places.hosts
           [] p = "slurm" -> places.slurm
           [] p = "topo" -> places.topo
           [] p = "inventory" -> inv.conf
           [] p = "oci" -> pool

AuditInit ==
    /\ Init
    /\ audit = NoAudit /\ same = {} /\ reported = {} /\ still = FALSE

-----------------------------------------------------------------------------
(* getResizeCluster: the nodes resize.sh lists. *)
ListClusters ==
    /\ audit.pc \in {"off", "done"}
    /\ \E L \in SUBSET pool :
         /\ Listing(L)
         /\ audit' = [NoAudit EXCEPT !.pc = "all", !.resize = L]
         /\ still' = (L = pool)
    /\ same' = {} /\ reported' = {}
    /\ UNCHANGED <<pool, up, inv, places, tf, lock, run, loose, marks, starts>>

(* getResizeNodes again, for all clusters. *)
ListAll ==
    /\ audit.pc = "all"
    /\ \E L \in SUBSET pool :
         /\ Listing(L)
         /\ audit' = [audit EXCEPT !.pc = "hosts", !.all = L]
         /\ still' = (still /\ L = pool)
    /\ UNCHANGED <<same, reported>>
    /\ UNCHANGED <<pool, up, inv, places, tf, lock, run, loose, marks, starts>>

(* nodesFromEtcHosts *)
ReadHosts ==
    /\ audit.pc = "hosts"
    /\ audit' = [audit EXCEPT !.pc = "slurm", !.hosts = places.hosts]
    /\ UNCHANGED <<vars, same, reported, still>>

(* A node of Slurm is looked up in /etc/hosts as it is now, then among the *)
(* nodes of all clusters; one not found is written down and left out.      *)
Resolved(S) == S \intersect places.hosts \intersect audit.all

Unresolved(p, S) == {p} \X (S \ Resolved(S))

(* Mutant of ReadSlurm: a node that is not found is dropped silently. *)
ReadSlurmQuietly ==
    /\ audit.pc = "slurm"
    /\ audit' = [audit EXCEPT !.pc = "topo", !.slurm = Resolved(places.slurm)]
    /\ UNCHANGED <<vars, same, reported, still>>

(* slurmGetNodes *)
ReadSlurm ==
    /\ audit.pc = "slurm"
    /\ audit' = [audit EXCEPT !.pc = "topo", !.slurm = Resolved(places.slurm)]
    /\ reported' = reported \union Unresolved("slurm", places.slurm)
    /\ UNCHANGED <<vars, same, still>>

(* topologyGetNodes *)
ReadTopology ==
    /\ audit.pc = "topo"
    /\ audit' = [audit EXCEPT !.pc = "inventory", !.topo = Resolved(places.topo)]
    /\ reported' = reported \union Unresolved("topo", places.topo)
    /\ UNCHANGED <<vars, same, still>>

(* inventoryNodes: compute_configured only. *)
ReadInventory ==
    /\ audit.pc = "inventory"
    /\ audit' = [audit EXCEPT !.pc = "compare", !.inventory = inv.conf]
    /\ UNCHANGED <<vars, same, reported, still>>

(* Mutant of Differences: /etc/hosts is what a place is compared with. *)
DifferencesFromHosts(p, S) == {p} \X ((audit.hosts \ S) \union (S \ audit.hosts))

(* dictEqualCheck, what it writes: the nodes of only one of the two. *)
Differences(p, S) == {p} \X ((audit.resize \ S) \union (S \ audit.resize))

(* The places that are compared at all: Slurm and the topology only when   *)
(* /etc/hosts gives every node the cluster that resize does.  With a       *)
(* similar name it may not: no node differs, and nothing is written.       *)
Compared(confused) ==
    IF audit.hosts = audit.resize /\ ~confused THEN Listed ELSE Listed \ {"slurm", "topo"}

(* ociCommand: asked last, right before the comparison. *)
OciNodes == pool

(* dictEqualCheck for one place after the other.  Left out, as no place is *)
(* compared by it: the file slurmWarnNodes.txt, with the nodes of Slurm    *)
(* that slurmctld does not hear from.                                      *)
Compare ==
    LET seen == [p \in Listed |-> IF p = "oci" THEN OciNodes ELSE audit[p]] IN
    /\ audit.pc = "compare"
    /\ \E confused \in {FALSE, Similar} :
         /\ reported' = reported \union UNION {Differences(p, seen[p]) : p \in Compared(confused)}
         /\ same' = {p \in Compared(confused) :
                       seen[p] = audit.resize /\ (p = "hosts" => ~confused)}
    /\ audit' = [NoAudit EXCEPT !.pc = "done"]
    /\ UNCHANGED <<vars, still>>

AuditStep ==
    \/ ListClusters \/ ListAll \/ ReadHosts \/ ReadSlurm
    \/ ReadTopology \/ ReadInventory \/ Compare

(* A run of resize.sh goes on, or a node stops or starts answering. *)
ResizeStep ==
    /\ Next
    /\ still' = (still /\ UNCHANGED <<pool, inv, places>>)
    /\ UNCHANGED <<audit, same, reported>>

AuditNext == AuditStep \/ ResizeStep
AuditSpec == AuditInit /\ [][AuditNext]_<<vars, auditVars>>

-----------------------------------------------------------------------------
(* Properties *)

(* The type of what the audit keeps. *)
AuditTypeOK ==
    /\ audit \in AuditRec /\ same \subseteq Listed
    /\ reported \subseteq Listed \X Names /\ still \in BOOLEAN

(* A finished audit of a cluster that has not changed meanwhile: a node it *)
(* writes down for a place is really in only one of that and the pool.  A  *)
(* node of Slurm that is in both but not in /etc/hosts is written down     *)
(* too, with that as the reason.                                           *)
ReportsAreReal ==
    audit.pc = "done" /\ still =>
        \A x \in reported :
            \/ (x[2] \in At(x[1])) # (x[2] \in pool)
            \/ x[1] \in {"slurm", "topo"} /\ x[2] \notin places.hosts

(* ... and if it writes nothing down, all five places agree, whatever a    *)
(* run of resize.sh has left half done.  Documented (the help of -n): the  *)
(* number of nodes is checked to be consistent across all of them; not so  *)
(* for a cluster with a similar name.                                      *)
QuietAuditAgrees ==
    audit.pc = "done" /\ still /\ reported = {} => \A p \in Listed : At(p) = pool

(* An audit after a run that had no trouble and left nothing half done is  *)
(* quiet: the resize scripts and the audit mean the same by "in order".    *)
CleanRunsAuditQuiet ==
    audit.pc = "done" /\ still /\ Idle /\ ~mixed /\ loose = {} => reported = {}
=============================================================================
