----------------------------- MODULE Autoscaler -----------------------------
(***************************************************************************)
(* autoscaling/crontab/autoscale_slurm.sh, which cron starts every minute, *)
(* together with the scripts it starts (ClusterScripts) and with Slurm.    *)
(* A pass takes /tmp/autoscaling_lock, reads squeue, then the nodes, then  *)
(* the cluster folders, and only then deletes, resizes and builds from     *)
(* what it has read, while scripts and jobs go on beside it.               *)
(***************************************************************************)
EXTENDS ClusterScripts

CONSTANTS Permanent,    \* the types with "permanent: true"
          MaxCount,     \* max_cluster_count of a type
          MaxSize,      \* max_cluster_size of a type
          MaxNodes,     \* max_number_nodes of a type
          SlowBuild,    \* nodes may look idle for idle_time while still being built
          SlowScan,     \* a pass may spend more than 60 s between sinfo and the folders
          MaxCrashes,   \* bound on the passes that are killed
          MaxCleanups   \* bound on the runs of cron.daily/oci-hpc-cleanup

ASSUME LimitsAssumption ==
    /\ Permanent \subseteq Types
    /\ MaxCount \in [Types -> Nat] /\ MaxSize \in [Types -> Nat] /\ MaxNodes \in [Types -> Nat]
    /\ SlowBuild \in BOOLEAN /\ SlowScan \in BOOLEAN
    /\ MaxCrashes \in Nat /\ MaxCleanups \in Nat

VARIABLES
  lock,        \* /tmp/autoscaling_lock exists
  pass,        \* where the running pass is, "off" when there is none
  toBuild,     \* cluster_to_build: the jobs a cluster is wanted for
  toDestroy,   \* cluster_to_destroy
  toResize,    \* the clusters in nodes_to_destroy
  used,        \* used_index: the names the pass believes taken
  seen,        \* current_nodes and building_nodes, cluster by cluster
  toRead,      \* the clusters whose nodes, then topology, the pass has yet to ask for
  old,         \* nodes_to_destroy_temp: how many of a cluster's nodes it found old
  ranAt,       \* where a job ran according to the pass's sinfo
  asleep,      \* the scripts whose sleep 60 had begun when it called sinfo
  unsafe,      \* history: the running jobs that started on a cluster about to go
  crashes,     \* passes killed so far
  cleanups     \* daily cleanups so far

scriptVars == <<fileVars, cloudVars, script, jobVars, faults>>
scanVars == <<toRead, old, ranAt, asleep>>
passVars == <<lock, pass, toBuild, toDestroy, toResize, used, seen, scanVars>>
boundVars == <<crashes, cleanups>>
vars == <<scriptVars, passVars, unsafe, boundVars>>

Busy(c) == LET run == RunningOn(c) IN SumFunctionOnSet(JobSize, run)

(* Slurm nodes of a type, plus those being built, as the pass counts them. *)
Counted(t) == SumFunctionOnSet(seen, OfType(Names, t))

(* time.sleep(5) after each Popen: the script has done its first steps.    *)
Settled == \A s \in Scripts : script[s].pc \notin {"c_start", "d_start"}

-----------------------------------------------------------------------------
(* The pass *)

(* No lock file: create it and begin.  With one the script exits at once.  *)
PassStart ==
    /\ ~lock /\ pass = "off"
    /\ lock' = TRUE /\ pass' = "jobs"
    /\ UNCHANGED <<scriptVars, toBuild, toDestroy, toResize, used, seen, scanVars, unsafe,
                   boundVars>>

(* getJobs: pending jobs, except those for a permanent instance type. *)
ReadJobs ==
    /\ pass = "jobs"
    /\ toBuild' = {j \in Jobs : job[j] = "pending" /\ JobType[j] \notin Permanent}
    /\ pass' = "nodes"
    /\ UNCHANGED <<scriptVars, lock, toDestroy, toResize, used, seen, scanVars, unsafe, boundVars>>

(* getClusters: one sinfo tells of every node whether it is idle or down,  *)
(* or allocated.  All of them are counted; of each the pass is to ask more.*)
ListNodes ==
    /\ pass = "nodes"
    /\ seen' = reg
    /\ toRead' = {c \in Names : reg[c] > 0}
    /\ ranAt' = at
    /\ asleep' = {s \in Scripts : script[s].pc \in {"grace", "failed"}}
    /\ pass' = "scan"
    /\ UNCHANGED <<scriptVars, lock, toBuild, toDestroy, toResize, used, old, unsafe, boundVars>>

(* running_cluster: the clusters with a node that sinfo listed as busy. *)
Ran(c) == \E j \in Jobs : ranAt[j] = c
(* Nodes that sinfo listed as idle and on which a job has started since.   *)
Begun(c) ==
    LET since == {j \in RunningOn(c) : ranAt[j] # c} IN SumFunctionOnSet(JobSize, since)
(* Nodes of c can have been idle, or up, for idle_time. *)
Aged(c) == SlowBuild \/ ~At(c, CreatePCs)

(* getNodeDetails and getIdleTime of the nodes of a cluster that sinfo     *)
(* listed as idle or down.  While a job runs sacct knows no last end: such *)
(* a node is as old as its slurmd.                                         *)
AgeOne ==
    /\ pass = "scan"
    /\ \E c \in toRead :
         /\ reg[c] >= seen[c]
         /\ toRead' = toRead \ {c}
         /\ \E begun \in 0 .. (IF Aged(c) THEN Begun(c) ELSE 0) :
              old' = IF c \in folder /\ TypeOf(c) \notin Permanent
                     THEN [old EXCEPT ![c] = stale[c] + begun] ELSE old
    /\ UNCHANGED <<scriptVars, lock, pass, toBuild, toDestroy, toResize, used, seen, ranAt, asleep,
                   unsafe, boundVars>>

(* What a finished pass leaves: its lists die with the process. *)
Forget ==
    /\ pass' = "off"
    /\ toBuild' = {} /\ toDestroy' = {} /\ toResize' = {} /\ used' = {}
    /\ seen' = [c \in Names |-> 0]
    /\ toRead' = {} /\ old' = [c \in Names |-> 0]
    /\ ranAt' = [j \in Jobs |-> NoName] /\ asleep' = {}

(* A node has left Slurm since: sinfo -n prints nothing getNodeDetails can *)
(* use, it raises, and the except clause ends the pass.                    *)
NodeGone ==
    /\ pass = "scan"
    /\ \E c \in toRead : reg[c] < seen[c]
    /\ lock' = FALSE
    /\ Forget
    /\ UNCHANGED <<scriptVars, unsafe, boundVars>>

(* Mutant of Whole: clusters that are only partly idle go as well. *)
WholePartly(c) == old[c] > 0

(* All the nodes of the cluster are old, and none was busy. *)
Whole(c) == ~Ran(c) /\ reg[c] <= old[c]

(* Then getTopology of each cluster with old nodes: it goes when they are  *)
(* all of its topology and nothing ran on it, else it is to be resized.    *)
JudgeOne ==
    /\ pass = "scan" /\ toRead = {}
    /\ \E c \in Names :
         /\ old[c] > 0
         /\ old' = [old EXCEPT ![c] = 0]
         /\ toDestroy' = IF Whole(c) THEN toDestroy \union {c} ELSE toDestroy
         /\ toResize' = IF Whole(c) THEN toResize ELSE toResize \union {c}
    /\ UNCHANGED <<scriptVars, lock, pass, toBuild, used, seen, toRead, ranAt, asleep, unsafe,
                   boundVars>>

(* Clusters being built for n nodes of type t; jobs that want such a one.  *)
BeingBuilt(n, t) == {c \in OfType(Names, t) : building[c] = n}
Wanting(S, n, t) == {j \in S : JobSize[j] = n /\ JobType[j] = t}

(* Mutant of Unmatched: clusters being built are not matched with jobs. *)
UnmatchedAll(S, R) == R = S

(* Each cluster being built takes one job of its size and type off the     *)
(* list, the first squeue lists: here any one.                             *)
Unmatched(S, R) ==
    /\ R \subseteq S
    /\ \A j \in S :
         LET n == JobSize[j]  t == JobType[j]
             want == Cardinality(Wanting(S, n, t))
             built == Cardinality(BeingBuilt(n, t)) IN
         Cardinality(Wanting(R, n, t)) = IF want > built THEN want - built ELSE 0

(* Mutant of ReadFolders: the name of a cluster being destroyed counts as  *)
(* free already.                                                           *)
ReadFoldersLive ==
    /\ pass = "scan" /\ toRead = {} /\ \A c \in Names : old[c] = 0
    /\ used' = folder \ destroying
    /\ seen' = [c \in Names |-> seen[c] + building[c]]
    /\ \E R \in SUBSET toBuild : Unmatched(toBuild, R) /\ toBuild' = R
    /\ pass' = "destroy" /\ ranAt' = [j \in Jobs |-> NoName] /\ asleep' = {}
    /\ UNCHANGED <<scriptVars, lock, toDestroy, toResize, toRead, old, unsafe, boundVars>>

(* os.listdir and the currently_building files, then the matching. *)
ReadFolders ==
    /\ pass = "scan" /\ toRead = {} /\ \A c \in Names : old[c] = 0
    /\ used' = folder
    /\ seen' = [c \in Names |-> seen[c] + building[c]]
    /\ \E R \in SUBSET toBuild : Unmatched(toBuild, R) /\ toBuild' = R
    /\ pass' = "destroy" /\ ranAt' = [j \in Jobs |-> NoName] /\ asleep' = {}
    /\ UNCHANGED <<scriptVars, lock, toDestroy, toResize, toRead, old, unsafe, boundVars>>

DeleteOne ==
    /\ pass = "destroy" /\ Settled
    /\ \E c \in toDestroy :
         /\ toDestroy' = toDestroy \ {c}
         /\ \E s \in Scripts : Spawn(s, "d_start", c, 0)
    /\ UNCHANGED <<fileVars, cloudVars, jobVars, faults, lock, pass, toBuild, toResize,
                   used, seen, scanVars, unsafe, boundVars>>

(* Mutant of ResizeRaises: the exception ends the pass but not its lock. *)
ResizeRaisesLocked ==
    /\ pass = "destroy" /\ toDestroy = {} /\ Settled /\ toResize # {}
    /\ Forget
    /\ UNCHANGED <<scriptVars, lock, unsafe, boundVars>>

(* The call that would start resize.sh hands '--quiet' to Popen as bufsize *)
(* and raises TypeError; the except clause ends the pass there.            *)
ResizeRaises ==
    /\ pass = "destroy" /\ toDestroy = {} /\ Settled /\ toResize # {}
    /\ lock' = FALSE
    /\ Forget
    /\ UNCHANGED <<scriptVars, unsafe, boundVars>>

NothingToResize ==
    /\ pass = "destroy" /\ toDestroy = {} /\ Settled /\ toResize = {}
    /\ pass' = "build"
    /\ UNCHANGED <<scriptVars, lock, toBuild, toDestroy, toResize, used, seen, scanVars, unsafe,
                   boundVars>>

(* nextIndex: the lowest index that used_index does not hold. *)
IsNext(t, i) ==
    /\ <<t, i>> \notin used
    /\ \A k \in 1 .. (i - 1) : <<t, k>> \in used

(* Mutant of TooMany: one cluster too many. *)
TooManyPlusOne(t) == Cardinality(OfType(used, t)) > MaxCount[t]

(* Mutant of TooLarge: the nodes of the new cluster itself do not count. *)
TooLargeBefore(j) ==
    JobSize[j] > MaxSize[JobType[j]] \/ Counted(JobType[j]) >= MaxNodes[JobType[j]]

TooMany(t) == Cardinality(OfType(used, t)) >= MaxCount[t]
TooLarge(j) ==
    \/ JobSize[j] > MaxSize[JobType[j]]
    \/ Counted(JobType[j]) + JobSize[j] > MaxNodes[JobType[j]]

(* Over max_cluster_count: nothing changes. *)
SkipOne ==
    /\ pass = "build" /\ Settled
    /\ \E j \in toBuild : TooMany(JobType[j]) /\ toBuild' = toBuild \ {j}
    /\ UNCHANGED <<scriptVars, lock, pass, toDestroy, toResize, used, seen, scanVars, unsafe,
                   boundVars>>

(* Over a size limit: the index stays reserved for the rest of the pass. *)
RefuseOne ==
    /\ pass = "build" /\ Settled
    /\ \E j \in toBuild, i \in 1 .. MaxIndex :
         /\ ~TooMany(JobType[j]) /\ TooLarge(j)
         /\ IsNext(JobType[j], i)
         /\ used' = used \union {<<JobType[j], i>>}
         /\ toBuild' = toBuild \ {j}
    /\ UNCHANGED <<scriptVars, lock, pass, toDestroy, toResize, seen, scanVars, unsafe, boundVars>>

BuildOne ==
    /\ pass = "build" /\ Settled
    /\ \E j \in toBuild, i \in 1 .. MaxIndex :
         LET c == <<JobType[j], i>> IN
         /\ ~TooMany(JobType[j]) /\ ~TooLarge(j)
         /\ IsNext(JobType[j], i)
         /\ used' = used \union {c}
         /\ seen' = [seen EXCEPT ![c] = @ + JobSize[j]]
         /\ toBuild' = toBuild \ {j}
         /\ \E s \in Scripts : Spawn(s, "c_start", c, JobSize[j])
    /\ UNCHANGED <<fileVars, cloudVars, jobVars, faults, lock, pass, toDestroy, toResize,
                   scanVars, unsafe, boundVars>>

PassEnd ==
    /\ pass = "build" /\ toBuild = {} /\ Settled
    /\ lock' = FALSE
    /\ Forget
    /\ UNCHANGED <<scriptVars, unsafe, boundVars>>

(* Mutant of PassCrash: the lock goes with the process. *)
PassCrashUnlocks ==
    /\ pass # "off" /\ crashes < MaxCrashes
    /\ crashes' = crashes + 1
    /\ lock' = FALSE
    /\ Forget
    /\ UNCHANGED <<scriptVars, unsafe, cleanups>>

(* The process is killed: no handler runs and the lock file stays. *)
PassCrash ==
    /\ pass # "off" /\ crashes < MaxCrashes
    /\ crashes' = crashes + 1
    /\ Forget
    /\ UNCHANGED <<scriptVars, lock, unsafe, cleanups>>

-----------------------------------------------------------------------------
(* Slurm, and time *)

(* A pass whose sinfo listed no busy node of c is still making up its mind.*)
Considered(c) == ~Ran(c) /\ (c \in toRead \/ old[c] > 0)

(* A cluster whose nodes a pass or a script may take away without a look.  *)
Doomed(c) ==
    \/ c \in toDestroy \/ Considered(c)
    \/ At(c, ScriptPCs \ {"idle", "grace"})

JobSubmit(j) ==
    /\ job[j] = "new"
    /\ job' = [job EXCEPT ![j] = "pending"]
    /\ UNCHANGED <<fileVars, cloudVars, script, at, faults, passVars, unsafe, boundVars>>

(* Slurm starts a job on free nodes of its type that answer. *)
JobStart(j) ==
    /\ job[j] = "pending"
    /\ \E c \in OfType(Names, JobType[j]) :
         /\ inst[c] > 0
         /\ dead[c] + Busy(c) + JobSize[j] <= reg[c]
         /\ job' = [job EXCEPT ![j] = "running"]
         /\ at' = [at EXCEPT ![j] = c]
         /\ \E left \in 0 .. stale[c] :
              /\ left + Busy(c) + JobSize[j] <= reg[c]
              /\ stale[c] <= left + JobSize[j]
              /\ stale' = [stale EXCEPT ![c] = left]
         /\ unsafe' = IF Doomed(c) THEN unsafe \union {j} ELSE unsafe
    /\ UNCHANGED <<fileVars, inst, reg, dead, uncleaned, haunted, script, faults, passVars,
                   boundVars>>

JobFinish(j) ==
    /\ job[j] = "running"
    /\ job' = [job EXCEPT ![j] = "done"]
    /\ at' = [at EXCEPT ![j] = NoName]
    /\ unsafe' = unsafe \ {j}
    /\ UNCHANGED <<fileVars, cloudVars, script, faults, passVars, boundVars>>

JobCancel(j) ==
    /\ job[j] = "pending"
    /\ job' = [job EXCEPT ![j] = "done"]
    /\ UNCHANGED <<fileVars, cloudVars, script, at, faults, passVars, unsafe, boundVars>>

(* idle_time goes by for some nodes on which nothing runs. *)
Age(c) ==
    /\ \E n \in (stale[c] + 1) .. reg[c] :
         /\ Aged(c) \/ n <= dead[c]
         /\ n + Busy(c) <= reg[c]
         /\ stale' = [stale EXCEPT ![c] = n]
    /\ UNCHANGED <<fileVars, inst, reg, dead, uncleaned, haunted, script, jobVars, faults, passVars,
                   unsafe, boundVars>>

(* cron.daily/oci-hpc-cleanup: rm -rf of everything under clusters. *)
DailyCleanup ==
    /\ cleanups < MaxCleanups
    /\ cleanups' = cleanups + 1
    /\ folder' = {} /\ destroying' = {}
    /\ building' = [c \in Names |-> 0]
    /\ script' = [s \in Scripts |-> [script[s] EXCEPT !.here = FALSE]]
    /\ UNCHANGED <<cloudVars, jobVars, faults, passVars, unsafe, crashes>>

-----------------------------------------------------------------------------
Init ==
    /\ ScriptsInit
    /\ lock = FALSE /\ pass = "off"
    /\ toBuild = {} /\ toDestroy = {} /\ toResize = {} /\ used = {}
    /\ seen = [c \in Names |-> 0]
    /\ toRead = {} /\ old = [c \in Names |-> 0]
    /\ ranAt = [j \in Jobs |-> NoName] /\ asleep = {}
    /\ unsafe = {}
    /\ crashes = 0 /\ cleanups = 0

PassStep ==
    \/ PassStart \/ ReadJobs
    \/ ListNodes \/ AgeOne \/ NodeGone \/ JudgeOne \/ ReadFolders
    \/ DeleteOne \/ ResizeRaises \/ NothingToResize
    \/ SkipOne \/ RefuseOne \/ BuildOne \/ PassEnd

(* The end of either sleep 60 of create_cluster.sh: one that has begun     *)
(* after a pass called sinfo outlasts its way to the folders.              *)
SleepOver(s) ==
    /\ SlowScan \/ pass # "scan" \/ s \in asleep
    /\ GraceOver(s) \/ FailOver(s)
    /\ asleep' = asleep \ {s}

ScriptStep(s) ==
    /\ \/ SleepOver(s)
       \/ /\ \/ CreateStart(s) \/ CreateNoShape(s)
             \/ ApplyLaunch(s) \/ ApplyConfigure(s) \/ ApplyDone(s) \/ ApplyFail(s)
             \/ CreateRetry(s)
             \/ DeleteStart(s) \/ Cleanup(s) \/ Destroy(s) \/ DestroyGiveUp(s) \/ Remove(s)
          /\ UNCHANGED asleep
    /\ UNCHANGED <<lock, pass, toBuild, toDestroy, toResize, used, seen, toRead, old, ranAt, unsafe,
                   boundVars>>

JobStep(j) == JobSubmit(j) \/ JobStart(j) \/ JobFinish(j) \/ JobCancel(j)

Next ==
    \/ PassStep
    \/ PassCrash
    \/ \E s \in Scripts : ScriptStep(s)
    \/ \E j \in Jobs : JobStep(j)
    \/ \E c \in Names : Age(c)
    \/ DailyCleanup

Spec == Init /\ [][Next]_vars

-----------------------------------------------------------------------------
(* Properties *)

PassTypeOK ==
    /\ lock \in BOOLEAN
    /\ pass \in {"off", "jobs", "nodes", "scan", "destroy", "build"}
    /\ toBuild \subseteq Jobs
    /\ toDestroy \subseteq Names /\ toResize \subseteq Names /\ used \subseteq Names
    /\ seen \in [Names -> Nat]
    /\ toRead \subseteq Names /\ old \in [Names -> Nat]
    /\ ranAt \in [Jobs -> Names \union {NoName}] /\ asleep \subseteq Scripts

TypeOK ==
    /\ ScriptsTypeOK /\ PassTypeOK
    /\ unsafe \subseteq Jobs
    /\ crashes \in 0 .. MaxCrashes /\ cleanups \in 0 .. MaxCleanups

(* Clusters a create script has been started for that have no folder yet. *)
Starting == {c \in Names : At(c, {"c_start"})}

(* Folders and the create scripts that are about to make one never exceed  *)
(* max_cluster_count, whatever passes, deletions and crashes overlap.      *)
ClusterCountWithinLimit ==
    \A t \in Types : Cardinality(OfType(folder \union Starting, t)) <= MaxCount[t]

(* Why that holds: the names a pass believes taken, once it has listed the *)
(* folders, cover every folder and every script about to make one, because *)
(* only the build loop of the pass that holds the lock starts such scripts *)
(* and it waits five seconds for each; and they are never too many.        *)
UsedCoversClaims == pass \in {"destroy", "build"} => folder \union Starting \subseteq used
UsedWithinLimit == \A t \in Types : Cardinality(OfType(used, t)) <= MaxCount[t]
PassHoldsLock == pass # "off" => lock
StartsInBuildOnly == pass \notin {"off", "build"} \/ ~lock => Starting = {}
CountInv ==
    /\ ClusterCountWithinLimit
    /\ UsedCoversClaims /\ UsedWithinLimit
    /\ PassHoldsLock /\ StartsInBuildOnly

(* Slurm nodes that a deletion has left behind look idle for ever.  Once a *)
(* cluster is built on their name, a pass takes them for old nodes of it   *)
(* and deletes it while it is being built.  Until then the following hold. *)
NamesClean == haunted = {}

(* The nodes Slurm has, those left behind included, or is promised by a    *)
(* currently_building file never exceed max_number_nodes: nothing falls    *)
(* between a pass's sinfo and its look at the folders.                     *)
Promised == [c \in Names |-> IF building[c] > reg[c] THEN building[c] ELSE reg[c]]
NodesWithinLimit ==
    NamesClean => \A t \in Types : SumFunctionOnSet(Promised, OfType(Names, t)) <= MaxNodes[t]

(* A pass that no longer sees a job's cluster being built would build it   *)
(* another: there are never more builds of a size and type under way than  *)
(* jobs of that size and type were ever submitted.                         *)
BuildsMatchDemand ==
    NamesClean =>
    \A j \in Jobs :
        Cardinality({s \in Scripts :
                       /\ script[s].pc \in ApplyPCs \union {"c_start", "grace", "retry"}
                       /\ script[s].size = JobSize[j]
                       /\ TypeOf(script[s].name) = JobType[j]})
          <= Cardinality({k \in Wanting(Jobs, JobSize[j], JobType[j]) : job[k] # "new"})

(* create_cluster.sh is only ever started on a name no folder, to nest its *)
(* copy in, no instances and no other script at work are left of.  Nodes   *)
(* may be left of it in Slurm: that is how a name gets haunted.            *)
FreshName ==
    NamesClean =>
    \A s \in Scripts :
        script[s].pc = "c_start" =>
            /\ script[s].name \notin folder
            /\ inst[script[s].name] = 0
            /\ \A r \in Scripts \ {s} : script[r].name # script[s].name

(* Instances always have the folder whose Terraform state the scripts need *)
(* to get rid of them.  Slurm nodes that no pass will look at again for    *)
(* want of one are only those of a cluster a cleanup of which has failed:  *)
(* delete_cluster.sh removes the folder whether or not its last attempt to *)
(* remove them did anything.                                               *)
NoOrphans ==
    NamesClean => \A c \in Names \ folder : inst[c] = 0 /\ (reg[c] > 0 => c \in uncleaned)

(* The check of currently_destroying keeps two scripts from taking one     *)
(* cluster down together, FORCE after a failed build included.             *)
OneDestroyer ==
    NamesClean =>
    \A r, s \in Scripts :
        /\ script[r].pc \in DestroyPCs /\ script[s].pc \in DestroyPCs
        /\ script[r].name = script[s].name
        => r = s

(* A job that Slurm starts on a cluster runs to its end, however late the  *)
(* scripts and passes that decided before it act, unless at its start a    *)
(* script was working on the cluster, a pass had condemned it, or one was  *)
(* between the sinfo that showed the cluster idle and its verdict: what    *)
(* the pass asks of a node after that does not tell it of the job.         *)
SafeStartNeverKilled ==
    [][NamesClean => \A j \in Jobs :
         job[j] = "running" /\ job'[j] = "killed" => j \in unsafe]_vars
-----------------------------------------------------------------------------
(* Liveness.  Cron keeps starting passes, the scripts and what they call   *)
(* return, time goes by, Slurm's scheduler comes round again and again     *)
(* well within idle_time and a sleep ends whatever passes come and go      *)
(* (strong fairness), and jobs have time limits.                           *)
(* Users need not submit or cancel, nothing need fail.                     *)
ServiceFairness ==
    /\ WF_vars(PassStep)
    /\ \A s \in Scripts : SF_vars(ScriptStep(s))
    /\ \A c \in Names : WF_vars(Age(c))
    /\ \A j \in Jobs : SF_vars(JobStart(j))

FairSpec == Spec /\ ServiceFairness /\ \A j \in Jobs : WF_vars(JobFinish(j))

(* The limits of queues.conf leave room for the job, on its own. *)
Fits(j) ==
    /\ JobType[j] \notin Permanent /\ MaxCount[JobType[j]] > 0
    /\ JobSize[j] <= MaxSize[JobType[j]] /\ JobSize[j] <= MaxNodes[JobType[j]]

(* A pass always gives the lock back. *)
LockReleased == lock ~> ~lock

(* A waiting job the limits leave room for does not wait for ever: other   *)
(* clusters that hold its index or its nodes go when they are idle.  But a *)
(* job over a limit takes a free index in every pass that refuses it, so   *)
(* this holds once no such job of the type is left waiting.                *)
OversizeWaits(t) == \E k \in Jobs : JobType[k] = t /\ ~Fits(k) /\ job[k] = "pending"
WaitingJobServed ==
    \A j \in Jobs : Fits(j) =>
        (<>[]~OversizeWaits(JobType[j]) => (job[j] = "pending" ~> job[j] # "pending"))

(* A cluster on which nothing runs does not stay: it is spun down.         *)
IdleClusterSpunDown ==
    \A c \in Names : TypeOf(c) \notin Permanent =>
        (inst[c] > 0 ~> (inst[c] = 0 \/ RunningOn(c) # {}))
=============================================================================
