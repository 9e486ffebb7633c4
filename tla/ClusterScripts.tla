--------------------------- MODULE ClusterScripts ---------------------------
(***************************************************************************)
(* The life of an autoscaled cluster as bin/create_cluster.sh,             *)
(* bin/delete_cluster.sh and bin/cleanup.sh drive it.  A cluster is a      *)
(* folder under autoscaling/clusters (with its two marker files), the      *)
(* instances OCI runs for it and the nodes Slurm knows of it; nothing ties *)
(* the three together but the order in which the scripts touch them.       *)
(* Every script is a process of its own, started by the autoscaler with    *)
(* Popen and never waited for.                                             *)
(***************************************************************************)
EXTENDS Naturals, FiniteSets, Functions

CONSTANTS Types,      \* the (queue, instance type) pairs of queues.conf
          MaxIndex,   \* bound on the INDEX of a cluster name queue-INDEX-convention
          Scripts,    \* bound: the script processes that may run at once
          Jobs,       \* bound: the jobs that are ever submitted to Slurm
          JobType,    \* the instance type a job asks for
          JobSize,    \* the number of nodes a job asks for
          ADs,        \* number of availability domains create_cluster.sh tries
          CanFail,    \* which external steps may fail
          MaxFaults   \* bound on the number of failures of external steps

ASSUME TypesAssumption == IsFiniteSet(Types) /\ MaxIndex \in Nat
ASSUME JobsAssumption == JobType \in [Jobs -> Types] /\ JobSize \in [Jobs -> Nat \ {0}]
ASSUME BoundsAssumption ==
    /\ ADs \in Nat \ {0}
    /\ MaxFaults \in Nat
    /\ CanFail \subseteq {"shape", "apply", "cleanup", "destroy"}
ASSUME FiniteAssumption == IsFiniteSet(Scripts) /\ IsFiniteSet(Jobs)

VARIABLES
  folder,      \* the clusters that have a folder
  building,    \* nodes written in a cluster's currently_building file, 0: no file
  destroying,  \* the clusters that have a currently_destroying file
  inst,        \* instances OCI runs for a cluster
  reg,         \* nodes of a cluster in Slurm's node list and topology
  stale,       \* how many of those have been idle or down for idle_time
  dead,        \* how many of those an earlier cluster of the name has left there
  uncleaned,   \* history: clusters a cleanup of which has failed, until Slurm lost them
  haunted,     \* history: the names given again while Slurm listed such nodes
  script,      \* the create and delete scripts
  job,         \* what squeue says of a job
  at,          \* the cluster a running job runs on
  faults       \* failures so far

slurmVars == <<reg, stale, dead, uncleaned, haunted>>
cloudVars == <<inst, slurmVars>>
fileVars == <<folder, building, destroying>>
jobVars == <<job, at>>

(* A cluster is named by its type and its index. *)
Names == Types \X (1 .. MaxIndex)
TypeOf(c) == c[1]
OfType(S, t) == {c \in S : TypeOf(c) = t}
NoName == <<>>

(* Where a script is.  start: Popen has returned but nothing has run.      *)
(* launch .. joined: terraform apply; grace, failed: the 60 s sleep after  *)
(* it; retry: the next availability domain; force: delete_cluster FORCE.   *)
ApplyPCs == {"launch", "configure", "joined"}
CreatePCs == ApplyPCs \union {"c_start", "grace", "failed", "retry", "force"}
DestroyPCs == {"cleanup", "destroy", "remove"}
ScriptPCs == CreatePCs \union DestroyPCs \union {"idle", "d_start"}
(* here: the script's working directory still exists. *)
ScriptRec ==
    {r \in [pc : ScriptPCs, name : Names \union {NoName}, size : Nat, ads : Nat, here : BOOLEAN] :
       /\ r.pc # "idle" => r.name \in Names
       /\ r.pc \in CreatePCs \ {"force"} => r.ads > 0}

Idle == [pc |-> "idle", name |-> NoName, size |-> 0, ads |-> 0, here |-> FALSE]

(* A script at one of the given places works on cluster c. *)
At(c, pcs) == \E s \in Scripts : script[s].name = c /\ script[s].pc \in pcs
RunningOn(c) == {j \in Jobs : job[j] = "running" /\ at[j] = c}

Goto(s, pc) == script' = [script EXCEPT ![s].pc = pc]
End(s) == script' = [script EXCEPT ![s] = Idle]
Fault(kind) == kind \in CanFail /\ faults < MaxFaults /\ faults' = faults + 1

-----------------------------------------------------------------------------
(* create_cluster.sh *)

(* Popen of a script: it exists, and has not run yet. *)
Spawn(s, pc, c, n) ==
    /\ script[s] = Idle
    /\ script' = [script EXCEPT ![s] = [pc |-> pc, name |-> c, size |-> n,
                                        ads |-> ADs, here |-> FALSE]]

(* echo >> currently_building: the file's first line is the one read back. *)
MarkBuilding(c, n) ==
    building' = IF building[c] = 0 THEN [building EXCEPT ![c] = n] ELSE building

(* cp -r tf_init, cd, and the first turn of the AD loop up to terraform.   *)
(* What Slurm lists under the name by now is not of this cluster.          *)
CreateStart(s) ==
    LET c == script[s].name IN
    /\ script[s].pc = "c_start"
    /\ folder' = folder \union {c}
    /\ MarkBuilding(c, script[s].size)
    /\ script' = [script EXCEPT ![s].pc = "launch", ![s].here = TRUE]
    /\ dead' = [dead EXCEPT ![c] = reg[c]]
    /\ haunted' = IF reg[c] > 0 THEN haunted \union {c} ELSE haunted
    /\ UNCHANGED <<destroying, inst, reg, stale, uncleaned, jobVars, faults>>

(* rm -rf of a cluster's folder.  Scripts that have it as their working    *)
(* directory are left without one.                                         *)
RemoveFolder(s, c) ==
    /\ folder' = folder \ {c}
    /\ building' = [building EXCEPT ![c] = 0]
    /\ destroying' = destroying \ {c}
    /\ script' = [r \in Scripts |-> IF r = s THEN Idle
                                    ELSE IF script[r].name = c
                                    THEN [script[r] EXCEPT !.here = FALSE]
                                    ELSE script[r]]

(* queues.conf, which the pass has read, no longer has the instance type:  *)
(* the script copies the folder, finds no shape, removes it and exits.     *)
CreateNoShape(s) ==
    /\ script[s].pc = "c_start"
    /\ Fault("shape")
    /\ RemoveFolder(s, script[s].name)
    /\ UNCHANGED <<cloudVars, jobVars>>

(* terraform apply creates the instances and writes the inventory file. *)
ApplyLaunch(s) ==
    /\ script[s].pc = "launch" /\ script[s].here
    /\ inst' = [inst EXCEPT ![script[s].name] = script[s].size]
    /\ Goto(s, "configure")
    /\ UNCHANGED <<fileVars, slurmVars, jobVars, faults>>

(* Its last resource runs configure_as.sh: the nodes join Slurm, and the   *)
(* switch of their cluster, with what was left on it.                      *)
ApplyConfigure(s) ==
    LET c == script[s].name IN
    /\ script[s].pc = "configure" /\ script[s].here
    /\ reg' = [reg EXCEPT ![c] = dead[c] + script[s].size]
    /\ Goto(s, "joined")
    /\ UNCHANGED <<fileVars, inst, stale, dead, uncleaned, haunted, jobVars, faults>>

ApplyDone(s) ==
    /\ script[s].pc = "joined" /\ script[s].here
    /\ Goto(s, "grace")
    /\ UNCHANGED <<fileVars, cloudVars, jobVars, faults>>

(* terraform apply fails, with whatever it has created so far in place.    *)
(* In a working directory that was removed under the script it must fail.  *)
ApplyFail(s) ==
    /\ script[s].pc \in ApplyPCs
    /\ IF script[s].here THEN Fault("apply") ELSE UNCHANGED faults
    /\ Goto(s, "failed")
    /\ UNCHANGED <<fileVars, cloudVars, jobVars>>

(* rm currently_building, in the working directory. *)
UnmarkBuilding(s) ==
    building' = IF script[s].here THEN [building EXCEPT ![script[s].name] = 0] ELSE building

(* 60 s after a successful apply the marker goes and the script ends. *)
GraceOver(s) ==
    /\ script[s].pc = "grace"
    /\ UnmarkBuilding(s)
    /\ End(s)
    /\ UNCHANGED <<folder, destroying, cloudVars, jobVars, faults>>

(* Mutant of FailOver: the loop over the ADs never runs out. *)
FailOverForEver(s) ==
    /\ script[s].pc = "failed"
    /\ UnmarkBuilding(s)
    /\ script' = [script EXCEPT ![s].ads = @ - 1, ![s].pc = "retry"]
    /\ UNCHANGED <<folder, destroying, cloudVars, jobVars, faults>>

(* Mutant of FailOver: after the last AD the script just ends. *)
FailOverNoDelete(s) ==
    /\ script[s].pc = "failed"
    /\ UnmarkBuilding(s)
    /\ IF script[s].ads > 1
       THEN script' = [script EXCEPT ![s].ads = @ - 1, ![s].pc = "retry"]
       ELSE End(s)
    /\ UNCHANGED <<folder, destroying, cloudVars, jobVars, faults>>

(* 60 s after a failed one the marker goes; the next AD, or the deletion. *)
FailOver(s) ==
    /\ script[s].pc = "failed"
    /\ UnmarkBuilding(s)
    /\ script' = [script EXCEPT ![s].ads = @ - 1,
                                ![s].pc = IF script[s].ads > 1 THEN "retry" ELSE "force"]
    /\ UNCHANGED <<folder, destroying, cloudVars, jobVars, faults>>

CreateRetry(s) ==
    /\ script[s].pc = "retry"
    /\ IF script[s].here THEN MarkBuilding(script[s].name, script[s].size)
                         ELSE UNCHANGED building
    /\ Goto(s, "launch")
    /\ UNCHANGED <<folder, destroying, cloudVars, jobVars, faults>>

-----------------------------------------------------------------------------
(* delete_cluster.sh *)

(* All but some of the nodes of a cluster go from Slurm. *)
Unlist(c, left) ==
    /\ reg' = [reg EXCEPT ![c] = left]
    /\ \E old \in 0 .. stale[c] :
         /\ old <= left /\ stale[c] + left <= old + reg[c]
         /\ stale' = [stale EXCEPT ![c] = old]
    /\ dead' = [dead EXCEPT ![c] = IF left < @ THEN left ELSE @]

(* resize.sh remove_unreachable for each node that Slurm still has on the  *)
(* cluster's switch.  It is called without the name of a cluster, so it    *)
(* does nothing where there is no permanent one, it may fail or find its   *)
(* lock taken, and its status is not looked at.                            *)
RemoveUnreachable(c) ==
    /\ \E left \in 0 .. reg[c] :
         /\ Unlist(c, left)
         /\ uncleaned' = IF left = 0 THEN uncleaned \ {c} ELSE uncleaned
    /\ UNCHANGED haunted

(* Mutant of DeleteStart: the marker is written but not looked for. *)
DeleteStartUnchecked(s) ==
    /\ script[s].pc \in {"d_start", "force"}
    /\ script[s].name \in folder
    /\ destroying' = destroying \union {script[s].name}
    /\ script' = [script EXCEPT ![s].pc = "cleanup", ![s].here = TRUE]
    /\ UNCHANGED <<folder, building, cloudVars, jobVars, faults>>

(* cd, look for currently_destroying, write it.  The check is skipped with *)
(* FORCE.  Without a folder the script stays where it was started and does *)
(* all it does there: nothing to clean up, nothing to destroy, and then it *)
(* tries to remove what Slurm still lists, unless a marker left in that    *)
(* directory stops it.  The 5 s its caller sleeps are enough for that.     *)
DeleteStart(s) ==
    LET c == script[s].name IN
    /\ script[s].pc \in {"d_start", "force"}
    /\ \/ /\ c \in folder /\ (c \notin destroying \/ script[s].pc = "force")
          /\ destroying' = destroying \union {c}
          /\ script' = [script EXCEPT ![s].pc = "cleanup", ![s].here = TRUE]
          /\ UNCHANGED slurmVars
       \/ /\ c \in folder /\ c \in destroying /\ script[s].pc # "force"
          /\ End(s)
          /\ UNCHANGED <<destroying, slurmVars>>
       \/ /\ c \notin folder
          /\ RemoveUnreachable(c)
          /\ End(s)
          /\ UNCHANGED destroying
    /\ UNCHANGED <<folder, building, inst, jobVars, faults>>

(* cleanup.sh: the Ansible playbook takes the nodes of the inventory out   *)
(* of Slurm.  When it fails, with FORCE after a second try, some of them   *)
(* stay and terraform destroy runs anyway.                                 *)
Cleanup(s) ==
    LET c == script[s].name IN
    /\ script[s].pc = "cleanup"
    /\ \/ Unlist(c, dead[c]) /\ UNCHANGED <<uncleaned, faults>>
       \/ /\ Fault("cleanup")
          /\ \E left \in dead[c] .. reg[c] : Unlist(c, left)
          /\ uncleaned' = uncleaned \union {c}
    /\ Goto(s, "destroy")
    /\ UNCHANGED <<fileVars, inst, haunted, jobVars>>

(* terraform destroy.  An apply of the same folder that holds the state    *)
(* lock makes it fail at once: this is the try, of six, that finds the     *)
(* lock free.  It ends whatever still runs on the instances.               *)
Destroy(s) ==
    LET c == script[s].name IN
    /\ script[s].pc = "destroy" /\ script[s].here
    /\ ~ At(c, ApplyPCs)
    /\ inst' = [inst EXCEPT ![c] = 0]
    /\ job' = [j \in Jobs |-> IF j \in RunningOn(c) THEN "killed" ELSE job[j]]
    /\ at' = [j \in Jobs |-> IF j \in RunningOn(c) THEN NoName ELSE at[j]]
    /\ Goto(s, "remove")
    /\ UNCHANGED <<fileVars, slurmVars, faults>>

(* Mutant of DestroyGiveUp: the folder goes although the instances stay. *)
DestroyGiveUpRemoves(s) ==
    /\ script[s].pc = "destroy" /\ script[s].here
    /\ Fault("destroy")
    /\ destroying' = destroying \ {script[s].name}
    /\ folder' = folder \ {script[s].name}
    /\ End(s)
    /\ UNCHANGED <<building, cloudVars, jobVars>>

(* terraform destroy has failed and so have its five retries, 120 s apart: *)
(* of itself, or because an apply has outlasted them.                      *)
DestroyGiveUp(s) ==
    LET c == script[s].name IN
    /\ script[s].pc = "destroy"
    /\ IF script[s].here /\ ~ At(c, ApplyPCs) THEN Fault("destroy") ELSE UNCHANGED faults
    /\ destroying' = IF script[s].here THEN destroying \ {c} ELSE destroying
    /\ End(s)
    /\ UNCHANGED <<folder, building, cloudVars, jobVars>>

(* Whatever Slurm still lists is told to go, then the folder does.         *)
Remove(s) ==
    LET c == script[s].name IN
    /\ script[s].pc = "remove"
    /\ RemoveUnreachable(c)
    /\ RemoveFolder(s, c)
    /\ UNCHANGED <<inst, jobVars, faults>>

-----------------------------------------------------------------------------
ScriptsTypeOK ==
    /\ folder \subseteq Names
    /\ building \in [Names -> Nat]
    /\ destroying \subseteq Names
    /\ inst \in [Names -> Nat] /\ reg \in [Names -> Nat] /\ stale \in [Names -> Nat]
    /\ dead \in [Names -> Nat] /\ uncleaned \subseteq Names /\ haunted \subseteq Names
    /\ script \in [Scripts -> ScriptRec]
    /\ job \in [Jobs -> {"new", "pending", "running", "done", "killed"}]
    /\ at \in [Jobs -> Names \union {NoName}]
    /\ faults \in 0 .. MaxFaults

ScriptsInit ==
    /\ folder = {} /\ destroying = {}
    /\ building = [c \in Names |-> 0]
    /\ inst = [c \in Names |-> 0]
    /\ reg = [c \in Names |-> 0]
    /\ stale = [c \in Names |-> 0]
    /\ dead = [c \in Names |-> 0] /\ uncleaned = {} /\ haunted = {}
    /\ script = [s \in Scripts |-> Idle]
    /\ job = [j \in Jobs |-> "new"]
    /\ at = [j \in Jobs |-> NoName]
    /\ faults = 0
=============================================================================
