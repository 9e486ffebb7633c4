-------------------------- MODULE ValidationProofs --------------------------
(***************************************************************************)
(* Theorems about Validation, for any nodes, runs and requests.  What the  *)
(* audit has read is the truth as long as nothing has changed: MatchInv    *)
(* says so for each of its places.                                         *)
(***************************************************************************)
EXTENDS Validation, ResizeProofs

(* Where the audit is when it has gone past a reading. *)
ResizeDone == {"all", "hosts", "slurm", "topo", "inventory", "compare"}
AllDone == {"hosts", "slurm", "topo", "inventory", "compare"}
HostsDone == {"slurm", "topo", "inventory", "compare"}
SlurmDone == {"topo", "inventory", "compare"}
TopoDone == {"inventory", "compare"}

Found(S) == S \intersect places.hosts \intersect pool

(* A difference, or a node that is there but not in /etc/hosts. *)
Real(p, n) ==
    \/ (n \in At(p)) # (n \in pool)
    \/ p \in {"slurm", "topo"} /\ n \in At(p) /\ n \notin places.hosts

Agreement == \A p \in Listed : At(p) = pool

(* What an audit knows of a cluster that has not changed. *)
Matched ==
    /\ audit.pc \in ResizeDone => audit.resize = pool
    /\ audit.pc \in AllDone => audit.all = pool
    /\ audit.pc \in HostsDone => audit.hosts = places.hosts
    /\ audit.pc \in SlurmDone =>
         /\ audit.slurm = Found(places.slurm)
         /\ \A n \in places.slurm \ audit.slurm : <<"slurm", n>> \in reported
    /\ audit.pc \in TopoDone =>
         /\ audit.topo = Found(places.topo)
         /\ \A n \in places.topo \ audit.topo : <<"topo", n>> \in reported
    /\ audit.pc = "compare" => audit.inventory = inv.conf
    /\ audit.pc # "off" => \A p \in Listed, n \in Names : <<p, n>> \in reported => Real(p, n)
    /\ audit.pc = "done" /\ reported = {} /\ ~Similar => Agreement

MatchInv == still => Matched

-----------------------------------------------------------------------------
(* The audit changes nothing but how many of its listings have failed.     *)

Reads ==
    /\ UNCHANGED <<pool, up, inv, places, tf, lock, run, loose, marks, starts>>
    /\ faults' \in Nat

LEMMA AuditReads ==
  ASSUME TypeOK, AuditStep
  PROVE  Reads
<1>1. faults \in Nat
  BY DEF TypeOK
<1>2. CASE ListClusters \/ ListAll
  <2>1. PICK L \in SUBSET pool : Listing(L)
    BY <1>2 DEF ListClusters, ListAll
  <2>2. faults' \in Nat
    BY <2>1, <1>1 DEF Listing, Fault
  <2>. QED
    BY <1>2, <2>2 DEF ListClusters, ListAll, Reads
<1>3. CASE ReadHosts \/ ReadSlurm \/ ReadTopology \/ ReadInventory \/ Compare
  <2>1. UNCHANGED vars
    BY <1>3 DEF ReadHosts, ReadSlurm, ReadTopology, ReadInventory, Compare
  <2>. QED
    BY <2>1, <1>1 DEF vars, counters, Reads
<1>. QED
  BY <1>2, <1>3 DEF AuditStep

LEMMA ReadsKeepIInv ==
  ASSUME IInv, Reads
  PROVE  IInv'
<1>1. TypeOK'
  BY DEF IInv, TypeOK, Reads, marks
<1>2. RunsOK' /\ NothingHalfAdded'
  BY DEF IInv, Reads, RunsOK, NothingHalfAdded
<1>3. Alone' /\ SizeKnown' /\ NfsSpared' /\ Measured'
  BY DEF IInv, Reads, Alone, SizeKnown, NfsSpared, Measured, marks
<1>4. StateKnowsSize'
  BY DEF IInv, Reads, StateKnowsSize, Changing, marks
<1>5. LockAlone' /\ LockMeansRunning'
  BY DEF IInv, Reads, LockAlone, LockMeansRunning, Locking, marks
<1>. QED
  BY <1>1, <1>2, <1>3, <1>4, <1>5 DEF IInv

LEMMA ReadsKeepDriftInv ==
  ASSUME DriftInv, Reads
  PROVE  DriftInv'
  BY QuietDrift DEF Reads, marks

(* The invariants of Resize beside an audit. *)
LEMMA NextResizeInv ==
  ASSUME IInv, DriftInv, [AuditNext]_<<vars, auditVars>>
  PROVE  IInv' /\ DriftInv'
<1>1. CASE AuditStep
  BY <1>1, AuditReads, ReadsKeepIInv, ReadsKeepDriftInv DEF IInv
<1>2. CASE ResizeStep
  BY <1>2, NextIInv, NextDrift DEF ResizeStep
<1>3. CASE UNCHANGED <<vars, auditVars>>
  BY <1>3, NextIInv, NextDrift
<1>. QED
  BY <1>1, <1>2, <1>3 DEF AuditNext

-----------------------------------------------------------------------------
(* Types *)

LEMMA PlacesTyped ==
  ASSUME TypeOK
  PROVE  /\ \A p \in Listed : At(p) \subseteq Names
         /\ \A S : Resolved(S) \subseteq S /\ Resolved(S) \subseteq Names
  BY DEF TypeOK, InventoryRec, PlacesRec, Listed, At, Resolved

LEMMA AuditTypeStep ==
  ASSUME TypeOK, AuditTypeOK, AuditStep
  PROVE  AuditTypeOK'
<1>. USE DEF AuditTypeOK, AuditRec, AuditPCs
<1>1. places.slurm \subseteq Names /\ places.topo \subseteq Names
      /\ places.hosts \subseteq Names /\ inv.conf \subseteq Names /\ pool \subseteq Names
  BY DEF TypeOK, InventoryRec, PlacesRec
<1>2. CASE ListClusters
  <2>1. PICK L \in SUBSET pool : /\ audit' = [NoAudit EXCEPT !.pc = "all", !.resize = L]
                                 /\ still' = (L = pool)
    BY <1>2 DEF ListClusters
  <2>2. audit' \in AuditRec
    BY <2>1, <1>1 DEF NoAudit
  <2>3. still' \in BOOLEAN
    BY <2>1, Zenon
  <2>. QED
    BY <2>2, <2>3, <1>2 DEF ListClusters
<1>3. CASE ListAll
  <2>1. PICK L \in SUBSET pool : /\ audit' = [audit EXCEPT !.pc = "hosts", !.all = L]
                                 /\ still' = (still /\ L = pool)
    BY <1>3 DEF ListAll
  <2>2. audit' \in AuditRec
    BY <2>1, <1>1
  <2>3. still' \in BOOLEAN
    BY <2>1, Zenon
  <2>. QED
    BY <2>2, <2>3, <1>3 DEF ListAll
<1>4. CASE ReadHosts
  BY <1>1, <1>4 DEF ReadHosts
<1>5. CASE ReadSlurm
  BY <1>1, <1>5, PlacesTyped DEF ReadSlurm, Unresolved, Listed
<1>6. CASE ReadTopology
  BY <1>1, <1>6, PlacesTyped DEF ReadTopology, Unresolved, Listed
<1>7. CASE ReadInventory
  BY <1>1, <1>7 DEF ReadInventory
<1>8. CASE Compare
  <2>. DEFINE seen == [p \in Listed |-> IF p = "oci" THEN OciNodes ELSE audit[p]]
  <2>1. PICK confused \in {FALSE, Similar} :
          /\ reported' = reported \union UNION {Differences(p, seen[p]) : p \in Compared(confused)}
          /\ same' = {p \in Compared(confused) :
                        seen[p] = audit.resize /\ (p = "hosts" => ~confused)}
    BY <1>8, Zenon DEF Compare
  <2>2. Compared(confused) \subseteq Listed
    BY DEF Compared
  <2>3. \A p \in Listed : seen[p] \subseteq Names
    BY <1>1 DEF Listed, OciNodes
  <2>4. same' \subseteq Listed
    BY <2>1, <2>2
  <2>5. \A p \in Compared(confused) : Differences(p, seen[p]) \subseteq Listed \X Names
    BY <2>2, <2>3 DEF Differences
  <2>. DEFINE all == {Differences(p, seen[p]) : p \in Compared(confused)}
  <2>6. UNION all \subseteq Listed \X Names
    <3>1. SUFFICES ASSUME NEW x \in UNION all PROVE x \in Listed \X Names
      OBVIOUS
    <3>2. PICK p \in Compared(confused) : x \in Differences(p, seen[p])
      OBVIOUS
    <3>3. Differences(p, seen[p]) \subseteq Listed \X Names
      BY <2>5
    <3>. QED
      BY ONLY <3>2, <3>3
  <2>6a. reported' = reported \union UNION all
    BY <2>1
  <2>6b. reported' \subseteq Listed \X Names
    <3>. HIDE DEF all
    <3>. QED
      BY <2>6, <2>6a
  <2>7. audit' \in AuditRec /\ still' = still
    BY <1>8 DEF Compare, NoAudit
  <2>. QED
    BY <2>4, <2>6b, <2>7
<1>. QED
  BY <1>2, <1>3, <1>4, <1>5, <1>6, <1>7, <1>8 DEF AuditStep

LEMMA NextAuditType ==
  ASSUME TypeOK, AuditTypeOK, [AuditNext]_<<vars, auditVars>>
  PROVE  AuditTypeOK'
<1>1. CASE AuditStep
  BY <1>1, AuditTypeStep
<1>2. CASE ResizeStep
  <2>1. still' \in BOOLEAN
    BY <1>2, Zenon DEF ResizeStep
  <2>. QED
    BY <1>2, <2>1 DEF ResizeStep, AuditTypeOK
<1>3. CASE UNCHANGED <<vars, auditVars>>
  BY <1>3 DEF auditVars, AuditTypeOK
<1>. QED
  BY <1>1, <1>2, <1>3 DEF AuditNext

-----------------------------------------------------------------------------
(* Readings that match *)

LEMMA SameState ==
  ASSUME MatchInv, UNCHANGED <<pool, inv, places, auditVars>>
  PROVE  MatchInv'
<1>1. UNCHANGED <<audit, reported, still>>
  BY DEF auditVars
<1>2. UNCHANGED <<pool, inv, places>>
  OBVIOUS
<1>3. Agreement' <=> Agreement
  BY <1>2 DEF Agreement, At
<1>4. \A p, n : Real(p, n)' <=> Real(p, n)
  BY <1>2 DEF Real, At
<1>. QED
  BY <1>1, <1>2, <1>3, <1>4 DEF MatchInv, Matched, Found

LEMMA ResizeStepMatches ==
  ASSUME MatchInv, ResizeStep
  PROVE  MatchInv'
<1>1. SUFFICES ASSUME still' PROVE Matched'
  BY DEF MatchInv
<1>2. still /\ UNCHANGED <<pool, inv, places>>
  BY <1>1, Zenon DEF ResizeStep
<1>3. UNCHANGED <<audit, reported>>
  BY DEF ResizeStep
<1>4. Agreement' <=> Agreement
  BY <1>2 DEF Agreement, At
<1>5. \A p, n : Real(p, n)' <=> Real(p, n)
  BY <1>2 DEF Real, At
<1>. QED
  BY <1>2, <1>3, <1>4, <1>5 DEF MatchInv, Matched, Found

LEMMA ListingsMatch ==
  ASSUME AuditTypeOK, MatchInv, ListClusters \/ ListAll
  PROVE  MatchInv'
<1>1. SUFFICES ASSUME still' PROVE Matched'
  BY DEF MatchInv
<1>2. UNCHANGED <<pool, inv, places>>
  BY DEF ListClusters, ListAll
<1>3. CASE ListClusters
  <2>1. PICK L \in SUBSET pool : /\ audit' = [NoAudit EXCEPT !.pc = "all", !.resize = L]
                                 /\ still' = (L = pool)
    BY <1>3 DEF ListClusters
  <2>2. L = pool
    BY <1>1, <2>1, Zenon
  <2>3. audit'.pc = "all" /\ audit'.resize = pool /\ reported' = {}
    BY <1>3, <2>1, <2>2 DEF ListClusters, NoAudit
  <2>. QED
    BY <1>2, <2>3 DEF Matched, AllDone, HostsDone, SlurmDone, TopoDone
<1>4. CASE ListAll
  <2>1. PICK L \in SUBSET pool : /\ audit' = [audit EXCEPT !.pc = "hosts", !.all = L]
                                 /\ still' = (still /\ L = pool)
    BY <1>4 DEF ListAll
  <2>2. L = pool /\ still
    BY <1>1, <2>1, Zenon
  <2>3. audit.pc = "all" /\ reported' = reported
    BY <1>4 DEF ListAll
  <2>4. audit'.pc = "hosts" /\ audit'.all = pool /\ audit'.resize = audit.resize
    BY <2>1, <2>2 DEF AuditTypeOK, AuditRec
  <2>5. audit.resize = pool
    BY <2>2, <2>3 DEF MatchInv, Matched, ResizeDone
  <2>6. \A p \in Listed, n \in Names : <<p, n>> \in reported => Real(p, n)
    BY <2>2, <2>3 DEF MatchInv, Matched
  <2>7. \A p, n : Real(p, n)' <=> Real(p, n)
    BY <1>2 DEF Real, At
  <2>. QED
    BY <1>2, <2>3, <2>4, <2>5, <2>6, <2>7
       DEF Matched, HostsDone, SlurmDone, TopoDone
<1>. QED
  BY <1>3, <1>4

LEMMA ReadingsMatch ==
  ASSUME TypeOK, AuditTypeOK, MatchInv, ReadHosts \/ ReadSlurm \/ ReadTopology \/ ReadInventory
  PROVE  MatchInv'
<1>1. SUFFICES ASSUME still' PROVE Matched'
  BY DEF MatchInv
<1>2. UNCHANGED <<pool, inv, places>> /\ still
  BY <1>1 DEF ReadHosts, ReadSlurm, ReadTopology, ReadInventory, vars
<1>3. Matched
  BY <1>2 DEF MatchInv
<1>4. audit.pc \in AllDone \ {"compare"}
  BY DEF ReadHosts, ReadSlurm, ReadTopology, ReadInventory, AllDone
<1>5. audit.all = pool
  BY <1>3, <1>4 DEF Matched
<1>6. \A S : Resolved(S) = Found(S)
  BY <1>5 DEF Resolved, Found
<1>7. \A p, n : Real(p, n)' <=> Real(p, n)
  BY <1>2 DEF Real, At
<1>8. audit \in AuditRec
  BY DEF AuditTypeOK
<1>9. \A p \in Listed, n \in Names : <<p, n>> \in reported => Real(p, n)
  BY <1>3, <1>4 DEF Matched, AllDone
<1>. USE DEF AuditRec, ResizeDone, AllDone, HostsDone, SlurmDone, TopoDone
<1>10. CASE ReadHosts
  BY <1>2, <1>3, <1>7, <1>8, <1>10 DEF ReadHosts, Matched
<1>11. CASE ReadSlurm
  <2>1. /\ audit.pc = "slurm" /\ audit' = [audit EXCEPT !.pc = "topo", !.slurm = Found(places.slurm)]
        /\ reported' = reported \union ({"slurm"} \X (places.slurm \ Found(places.slurm)))
    BY <1>6, <1>11 DEF ReadSlurm, Unresolved
  <2>2. \A n \in places.slurm \ Found(places.slurm) : Real("slurm", n)
    BY DEF Found, Real, At
  <2>3. \A p \in Listed, n \in Names : <<p, n>> \in reported' => Real(p, n)
    BY <2>1, <2>2, <1>9
  <2>. QED
    BY <1>2, <1>3, <1>7, <1>8, <2>1, <2>3 DEF Matched, Found
<1>12. CASE ReadTopology
  <2>1. /\ audit.pc = "topo" /\ audit' = [audit EXCEPT !.pc = "inventory", !.topo = Found(places.topo)]
        /\ reported' = reported \union ({"topo"} \X (places.topo \ Found(places.topo)))
    BY <1>6, <1>12 DEF ReadTopology, Unresolved
  <2>2. \A n \in places.topo \ Found(places.topo) : Real("topo", n)
    BY DEF Found, Real, At
  <2>3. \A p \in Listed, n \in Names : <<p, n>> \in reported' => Real(p, n)
    BY <2>1, <2>2, <1>9
  <2>. QED
    BY <1>2, <1>3, <1>7, <1>8, <2>1, <2>3 DEF Matched, Found
<1>13. CASE ReadInventory
  BY <1>2, <1>3, <1>7, <1>8, <1>13 DEF ReadInventory, Matched, Found
<1>. QED
  BY <1>10, <1>11, <1>12, <1>13

(* What a comparison writes down is real, and nothing written down means   *)
(* agreement: the hosts are always compared, and so is the rest then.      *)
LEMMA CompareMatches ==
  ASSUME TypeOK, AuditTypeOK, MatchInv, Compare
  PROVE  MatchInv'
<1>1. SUFFICES ASSUME still' PROVE Matched'
  BY DEF MatchInv
<1>. DEFINE seen == [p \in Listed |-> IF p = "oci" THEN OciNodes ELSE audit[p]]
<1>2. audit.pc = "compare" /\ audit'.pc = "done"
  BY DEF Compare, NoAudit
<1>3. UNCHANGED <<pool, inv, places>> /\ still
  BY <1>1 DEF Compare, vars
<1>4. Matched
  BY <1>3 DEF MatchInv
<1>5. /\ audit.resize = pool /\ audit.hosts = places.hosts /\ audit.inventory = inv.conf
      /\ audit.slurm = Found(places.slurm) /\ audit.topo = Found(places.topo)
  BY <1>2, <1>4 DEF Matched, ResizeDone, HostsDone, SlurmDone, TopoDone
<1>6. /\ \A n \in places.slurm \ audit.slurm : <<"slurm", n>> \in reported
      /\ \A n \in places.topo \ audit.topo : <<"topo", n>> \in reported
      /\ \A p \in Listed, n \in Names : <<p, n>> \in reported => Real(p, n)
  BY <1>2, <1>4 DEF Matched, SlurmDone, TopoDone
<1>7. /\ seen["hosts"] = places.hosts /\ seen["inventory"] = inv.conf /\ seen["oci"] = pool
      /\ seen["slurm"] = Found(places.slurm) /\ seen["topo"] = Found(places.topo)
  BY <1>5 DEF Listed, OciNodes
<1>8. /\ At("hosts") = places.hosts /\ At("inventory") = inv.conf /\ At("oci") = pool
      /\ At("slurm") = places.slurm /\ At("topo") = places.topo
  BY DEF At
<1>9. PICK confused \in {FALSE, Similar} :
        reported' = reported \union UNION {Differences(p, seen[p]) : p \in Compared(confused)}
  BY Zenon DEF Compare
<1>10. Compared(confused) \subseteq Listed
  BY DEF Compared
<1>11. \A x : x \in reported' <=>
          x \in reported \/ \E p \in Compared(confused) : x \in Differences(p, seen[p])
  <2>. HIDE DEF seen
  <2>. QED
    BY <1>9
<1>12. \A p : Differences(p, seen[p]) = {p} \X ((pool \ seen[p]) \union (seen[p] \ pool))
  BY <1>5 DEF Differences
<1>. HIDE DEF seen
<1>13. \A p \in Listed, n \in Names : <<p, n>> \in reported' => Real(p, n)
  <2>1. SUFFICES ASSUME NEW p \in Listed, NEW n \in Names, n \in (pool \ seen[p]) \union (seen[p] \ pool)
                 PROVE  Real(p, n)
    BY <1>6, <1>10, <1>11, <1>12
  <2>2. CASE p \in {"hosts", "inventory", "oci"}
    BY <1>7, <1>8, <2>1, <2>2 DEF Real
  <2>3. CASE p \in {"slurm", "topo"}
    BY <1>7, <1>8, <2>1, <2>3 DEF Real, Found
  <2>. QED
    BY <2>2, <2>3 DEF Listed
<1>14. ASSUME reported' = {}, ~Similar PROVE Agreement
  <2>1. \A p \in Compared(confused) : \A n : n \notin (pool \ seen[p]) \union (seen[p] \ pool)
    <3>1. ASSUME NEW p \in Compared(confused), NEW n, n \in (pool \ seen[p]) \union (seen[p] \ pool)
          PROVE  FALSE
      <4>1. <<p, n>> \in Differences(p, seen[p])
        BY <1>12, <3>1
      <4>. QED
        BY <4>1, <1>11, <1>14
    <3>. QED
      BY <3>1
  <2>2. "hosts" \in Compared(confused)
    BY DEF Compared, Listed
  <2>3. places.hosts = pool
    BY <2>1, <2>2, <1>7
  <2>4. Compared(confused) = Listed
    <3>1. confused = FALSE
      BY <1>14, SimilarAssumption, Zenon
    <3>. QED
      BY <3>1, <2>3, <1>5 DEF Compared
  <2>5. \A p \in Listed : seen[p] = pool
    BY <2>1, <2>4
  <2>6. inv.conf = pool /\ Found(places.slurm) = pool /\ Found(places.topo) = pool
    BY <2>5, <1>7 DEF Listed
  <2>7. reported = {}
    BY <1>11, <1>14
  <2>8. places.slurm \subseteq audit.slurm /\ places.topo \subseteq audit.topo
    BY <2>7, <1>6
  <2>9. places.slurm = pool /\ places.topo = pool
    BY <2>6, <2>8, <1>5 DEF Found
  <2>. QED
    BY <2>3, <2>6, <2>9, <1>8 DEF Agreement, Listed
<1>15. Agreement' <=> Agreement
  BY <1>3 DEF Agreement, At
<1>16. \A p, n : Real(p, n)' <=> Real(p, n)
  BY <1>3 DEF Real, At
<1>. QED
  BY <1>2, <1>13, <1>14, <1>15, <1>16 DEF Matched, ResizeDone, AllDone, HostsDone, SlurmDone, TopoDone

LEMMA NextMatches ==
  ASSUME TypeOK, AuditTypeOK, MatchInv, [AuditNext]_<<vars, auditVars>>
  PROVE  MatchInv'
<1>1. CASE AuditStep
  BY <1>1, ListingsMatch, ReadingsMatch, CompareMatches DEF AuditStep
<1>2. CASE ResizeStep
  BY <1>2, ResizeStepMatches
<1>3. CASE UNCHANGED <<vars, auditVars>>
  BY <1>3, SameState DEF vars
<1>. QED
  BY <1>1, <1>2, <1>3 DEF AuditNext

-----------------------------------------------------------------------------
(* The theorems *)

WholeInv == IInv /\ DriftInv /\ AuditTypeOK /\ MatchInv

LEMMA InitWhole == AuditInit => WholeInv
<1> SUFFICES ASSUME AuditInit PROVE WholeInv
  OBVIOUS
<1>1. IInv /\ DriftInv
  BY InitIInv, InitDrift DEF AuditInit
<1>2. AuditTypeOK
  BY DEF AuditInit, AuditTypeOK, AuditRec, AuditPCs, NoAudit
<1>3. MatchInv
  BY Zenon DEF AuditInit, MatchInv
<1>. QED
  BY <1>1, <1>2, <1>3 DEF WholeInv

(* The invariants of Resize, the types, and what the audit knows of a      *)
(* cluster that has not changed, hold together.                            *)
THEOREM AuditInvariant == AuditSpec => []WholeInv
<1>1. AuditInit => WholeInv
  BY InitWhole
<1>2. WholeInv /\ [AuditNext]_<<vars, auditVars>> => WholeInv'
  BY NextResizeInv, NextAuditType, NextMatches DEF WholeInv, IInv
<1>. QED
  BY <1>1, <1>2, PTL DEF AuditSpec

(* What the audit of validation.py has read, said and written down keeps   *)
(* its type, beside any runs of resize.sh.                                 *)
THEOREM AuditTypeCorrect == AuditSpec => []AuditTypeOK
<1>1. WholeInv => AuditTypeOK
  BY DEF WholeInv
<1>. QED
  BY <1>1, AuditInvariant, PTL

LEMMA WrittenDown ==
  ASSUME WholeInv, audit.pc = "done", still, NEW x \in reported
  PROVE  x[1] \in Listed /\ Real(x[1], x[2])
<1>1. PICK p \in Listed, n \in Names : x = <<p, n>>
  BY DEF WholeInv, AuditTypeOK
<1>. QED
  BY <1>1 DEF WholeInv, MatchInv, Matched

(* A node that validation.py writes down for a place is in only one of     *)
(* that and the pool, or it is missing from /etc/hosts, if nothing changed *)
(* while it read.                                                          *)
THEOREM OnlyRealReports == AuditSpec => []ReportsAreReal
<1>1. WholeInv => ReportsAreReal
  BY WrittenDown DEF ReportsAreReal, Real
<1>. QED
  BY <1>1, AuditInvariant, PTL

(* Unless another cluster has a similar name, validation.py is silent only *)
(* about a cluster whose five places agree, if nothing changed meanwhile.  *)
THEOREM SilenceIsAgreement ==
  ASSUME ~Similar
  PROVE  AuditSpec => []QuietAuditAgrees
<1>1. WholeInv => QuietAuditAgrees
  BY DEF WholeInv, MatchInv, Matched, QuietAuditAgrees, Agreement
<1>. QED
  BY <1>1, AuditInvariant, PTL

(* After runs of resize.sh that had no trouble, did not overlap and left   *)
(* nothing half done, validation.py writes nothing down.                   *)
THEOREM CleanRunsAreQuiet == AuditSpec => []CleanRunsAuditQuiet
<1>1. WholeInv => CleanRunsAuditQuiet
  <2>1. SUFFICES ASSUME WholeInv, audit.pc = "done", still, Idle, ~mixed, loose = {}
                 PROVE  reported = {}
    BY Zenon DEF CleanRunsAuditQuiet
  <2>2. Settled
    BY <2>1 DEF WholeInv, DriftInv
  <2>2a. \A p \in Listed : At(p) \subseteq Names /\ pool \subseteq Names
    BY <2>1, PlacesTyped DEF WholeInv, IInv, TypeOK
  <2>2b. \A n \in Names : \A p \in Listed : n \in At(p) <=> n \in pool
    BY <2>1, <2>2 DEF Settled, AgreeOn, Listed, At
  <2>3. \A p \in Listed : At(p) = pool
    BY <2>2a, <2>2b
  <2>4. ASSUME NEW x \in reported PROVE FALSE
    <3>1. x[1] \in Listed /\ Real(x[1], x[2])
      BY <2>1, WrittenDown
    <3>2. At(x[1]) = pool /\ places.hosts = pool
      BY <2>3, <3>1 DEF At, Listed
    <3>. QED
      BY <3>1, <3>2 DEF Real
  <2>. QED
    BY <2>4
<1>. QED
  BY <1>1, AuditInvariant, PTL
=============================================================================
