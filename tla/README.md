# A TLA+ development of the HPC cluster stack

The stack deploys a controller that runs Slurm, an autoscaler that launches and
destroys Terraform clusters for waiting jobs, scripts and playbooks that
configure, resize, check and clean up nodes, and a monitoring side (Prometheus,
Grafana, an alert webhook, health checks).  This directory models the part with
behaviour of its own: the processes that run concurrently, share files, and can
fail half way.

## The system

| Component | State | Operations | Interacts by |
|---|---|---|---|
| Autoscaler pass, `autoscaling/crontab/autoscale_slurm.sh` | `/tmp/autoscaling_lock`; the lists of one pass | read jobs, nodes, folders; delete, resize, build | cron; `squeue`, `sinfo`; cluster folders; `Popen` |
| `bin/create_cluster.sh` | `clusters/<name>/`, `currently_building`, Terraform state | copy, mark, apply per availability domain, unmark, FORCE delete | folder, OCI, Slurm |
| `bin/delete_cluster.sh`, `bin/cleanup.sh` | `currently_destroying` | mark, Ansible cleanup, destroy with retries, remove | folder, OCI, Slurm |
| Playbooks of `roles/slurm` and `roles/destroy_unreachable` | `topology.conf`, what Slurm loaded of it, Slurm's nodes | add, remove, remove unreachable nodes of a cluster | one file shared by all playbook runs |
| `bin/resize.sh`, `bin/resize/*.py` | `currently_resizing`, instance pool, inventory, size in the Terraform state | add, remove, remove unreachable, reconfigure | OCI, Ansible, `/etc/hosts`, Slurm |
| Node count audit, `scripts/validation.py` | what it has read so far, the files it writes | read five places, compare | `resize.sh list`, `/etc/hosts`, Slurm, inventory, OCI |
| Health gate, `healthchecks.sh` and `check_gpu_setup.py` | `/tmp/latest_healthcheck.log`, `wtmp`, the node's state in Slurm | check, recommend, drain or let the job start | slurmd runs it as prolog and as health check program |
| Bad node search, `scripts/ncclscout.py` | pairs, results, lists of good and bad nodes | test in pairs, retest, report | ssh, `mpirun` |
| Alert webhook, `ons_webhook.py.j2` | two bounded queues, an SQLite table of open alerts | receive, process, remind, push | HTTP, threads, OCI notifications |
| `cron.daily/oci-hpc-cleanup` | none | `rm -rf` of the cluster folders | the folders |
| Monitoring tables and collectors | MySQL tables of clusters, nodes, jobs | insert and update | cron, the scripts above |
| Metric exporters, CLI, samples | none or external | read and print | files, LDAP, Prometheus |

What is hard in it:

* **Stale readings.** A pass decides from three readings made one after the
  other while scripts and jobs go on; an audit compares five; a removal uses the
  topology Slurm loaded some time ago; a log under a minute old stands for a
  health check, also while it is being written.
* **State in many places.** A cluster is a folder, instances, Slurm nodes, a
  line of `topology.conf`, an inventory, lines of `/etc/hosts`, a size in
  Terraform's state; nothing but the order of the scripts' steps keeps them
  together.
* **Partial failure.** `terraform` and `ansible-playbook` fail half way, are
  retried, forced, timed out or given up; a check that raises counts as passed;
  a pair test that times out says nothing of its nodes.
* **Names and limits.** A name is free again when its folder is gone;
  `max_cluster_count` and `max_number_nodes` have to count what has been
  started and does not show yet.
* **Crashes, kills and cleanups.** A lock outlives a killed run; a daily job
  removes the folders under whatever is running.
* **Two at a time.** Deletions and builds, two resize runs, two plays on one
  file, two health checks on one log, server threads and daemons on bounded
  queues.

## Modules

| Module | What it is |
|---|---|
| `ClusterScripts` | the create and delete scripts: folder, markers, instances, Slurm nodes, one action per step |
| `Autoscaler` | the pass, Slurm and time around `ClusterScripts`; the properties |
| `AutoscalerProofs` | theorems about `Autoscaler`: types and count; the life of a cluster; nodes and demand |
| `Resize` | manual resizing: pool, inventory, places, Terraform state, lock |
| `ResizeProofs` | theorems about `Resize`: overlapping runs and kills; no drift without a cause |
| `Validation` | the audit that runs beside `Resize`, which it extends |
| `ValidationProofs` | theorems about the composition |
| `Topology` | the plays of all clusters on the one `topology.conf` |
| `TopologyProofs` | theorems about it |
| `GpuSetup` | the checks of `check_gpu_setup.py` and their summary, as operators |
| `HealthGate` | the two runs of `healthchecks.sh`, Slurm, the clock and the operator around `GpuSetup` |
| `HealthGateProofs` | theorems: reboots are spaced, a termination is final, the gate holds |
| `NcclScout` | the search for bad nodes |
| `NcclScoutProofs` | theorems: who is called good and who bad |
| `AlertFeed` | what the alert webhook promises: one inbox, one outbox, the open alerts |
| `AlertWebhook` | its server threads, daemons, queues and database; the properties |
| `AlertWebhookProofs` | theorems, among them that `AlertWebhook` implements `AlertFeed` |
| `FoldTheorems` | lemmas about the folds of the community modules, for sets and sequences of any size |
| `MC...` | values for TLC |

Definitions whose comment says "Mutant of `X`" are wrong on
purpose: each is `X` with a plausible mistake, kept beside it to show that a
property notices.

### ClusterScripts

`folder`, `building` and `destroying` are the directories under
`autoscaling/clusters` and their two marker files (`building` holds the node
count of the marker's first line, the one that is read back).  `inst` and `reg`
are the instances OCI runs and the nodes Slurm lists, per cluster; `stale` is how
many of the latter have been idle or down for `idle_time`, `dead` how many were left
there by an earlier cluster of the name.  `script` holds the running scripts, each
with its place, cluster, size, remaining availability domains and whether its
working directory still exists (`here`: the daily cleanup, or another script, may
remove it).  `uncleaned` and `haunted` are history: the clusters a cleanup of which
has failed, until Slurm has lost their nodes, and the names that were given again
while Slurm still listed such nodes.

`create_cluster.sh` is `CreateStart` (or `CreateNoShape`, when `queues.conf` no longer
has the instance type), `ApplyLaunch`, `ApplyConfigure`, `ApplyDone` or `ApplyFail`,
then `GraceOver`, or `FailOver` followed by `CreateRetry` for the next domain or by
the FORCE deletion.  `delete_cluster.sh` is `DeleteStart`, `Cleanup` (all of
`cleanup.sh`), `Destroy` or `DestroyGiveUp`, and `Remove`.  `Destroy` is the one of
the six tries of `terraform destroy` that finds the state lock free; when an apply
holds it through all of them the script gives up.  `Remove` sweeps what Slurm still
lists with `RemoveUnreachable`, which may leave any of it there: `resize.sh` is
called without a cluster name and its status is not looked at.  Then the folder
goes in any case.  A script started without its folder runs elsewhere and only
reaches Slurm by name, in the same way (`DeleteStart`, last alternative).

### Autoscaler

`PassStart`, `ReadJobs` and `ReadFolders` are the lock, the first and the last
reading of `getstatus_slurm`.  The reading of the nodes in between takes several
steps: `ListNodes` is the one `sinfo`, which says which nodes are idle and which
are not (`ranAt` is where jobs ran then) and counts them; `AgeOne` asks `sacct`
and `scontrol` about the idle nodes of a cluster (`toRead` are those it has still
to ask about, `old` how many it found old) or, as `NodeGone`, raises on one that
has left Slurm since; `JudgeOne` asks for the topology and puts the cluster on one
of the two lists.  Jobs start and end between any two of these.  `DeleteOne`,
`ResizeRaises`, `SkipOne`, `RefuseOne`, `BuildOne` are one turn of the loops of
the main program, `PassEnd` its end and `PassCrash` its death.  `cluster_to_build`
is `toBuild`, `used_index` is `used`, and `current_nodes` plus `building_nodes` is
`seen`. Jobs are external: submitted, started by Slurm on free nodes of their
type, finished, cancelled.  `unsafe` is a history variable: the jobs Slurm started
on a cluster that a script worked on, that was already condemned, or that a pass
had found idle and not yet judged.

Assumptions, each of which the code makes too:

* The five seconds a pass sleeps after each `Popen` let the script do its first
  steps (`Settled`).
* Cron starts passes a minute apart, so that looking for the lock and creating
  it is one step.
* A 60 s sleep of `create_cluster.sh` that begins after a pass has called `sinfo`
  outlasts its way to the folders unless `SlowScan` (one that had begun before, in
  `asleep`, may end at any moment of it), and nodes are not idle for `idle_time`
  while still being configured unless `SlowBuild`.  The run `crash` sets both; the
  theorems of `AutoscalerProofs` cover all values.
* Instance types have distinct hostname conventions; `queues.conf` may lose an
  instance type while a script is started (`CreateNoShape`) but does not change
  otherwise; a job runs only on nodes of its type; `debug` is off.
* A node of a partly idle cluster has an `inst-` alias in `/etc/hosts` or none
  at all, so that the resize loop starts at least one command.

### Resize

`pool` is the cluster network in OCI, `up` the instances that answer ssh, `inv`
the inventory on disk (`conf` is `[compute_configured]`, `add` is
`[compute_to_add]`, `nfs` the node of `[nfs]`), `places` where Ansible writes
nodes down (`hosts`: `/etc/hosts`; `topo`: `topology.conf`; `slurm`: Slurm), `tf`
the size in the Terraform state of an autoscaled cluster, `lock` the file
`currently_resizing`.  `run[r]` is one run of `resize.sh`: its place, its command
line and the locals of `resize.py` (`cn_instances`, `to_remove`, the temporary
inventory `draft`, the playbooks' result `flag`).  History are `loose`, the nodes that
a failure or an option left half done; `broke`, those of a run whose own playbook
failed; whether two runs have overlapped (`mixed`), two that take the lock
(`crossed`), one of those was killed (`killed`), or a run has changed the pool and
not written down its size (`unwritten`).

`Look`, `CreateLock` and `Finish` are `resize.sh`; a reconfiguration and the
permanent cluster go past the lock (`TakesLock`).  `List` and `Probe` get the
instances and find the unreachable ones.  A removal is `Uninstall` (write the
temporary inventory), `PlayRemove` (the playbook, once, or once per unreachable
node), `CommitRemoval`, `Terminate` (`detach_instance_pool_instance` for each) and
then the size: `Measure` reads it from OCI, `Record` writes it into the Terraform
state, or fails to and goes on.  An addition is `Grow` or `GrowRefused`, again
`Measure` and `Record`, `DraftAdd`, `PlayAdd`; `Grow` may time out with the pool
changed, which ends the run, and so does OCI when it does not answer
(`Unanswered`); a reconfiguration `DraftAdd` with `PlayAdd`, or `DraftAll` with
`PlayAll`.  A playbook that fails leaves the places after any one of its parts
(`PlacesAfter`).  `Kill`, `StopAnswering`, `AnswerAgain` are the environment.

### Validation

`audit` is one run of `validation.py -n y`: `ListClusters` and `ListAll` call
`resize.sh list`, then `ReadHosts`, `ReadSlurm`, `ReadTopology`, `ReadInventory`,
and `Compare`, which asks OCI last and does `dictEqualCheck` for each place.
`same` are the places it prints as the same, `reported` what it writes to files.
`still` is history: nothing has changed since the audit began.  Between any two
readings `ResizeStep` lets a run of `resize.sh` go on.

### Topology

`file` is `topology.conf`, a line of nodes for each cluster; `loaded` what the
last `scontrol reconfigure` read of it; `slurm` the nodes Slurm has.  `play[p]` is
a playbook at work: the place it has reached, `cluster_name`, the nodes it is
for, the line it has computed, and the `copy` of the file that `lineinfile`
holds between reading (`Open`) and writing it back (`Write`).  `ReadAdd` is
`compute.yml`, `ReadDestroy` is `destroy.yml`, `ReadUnreachable` and `TwoSwitches`
are `destroy_unreachable/tasks/slurm.yml`; `TellSlurm` is slurmd's registration
or `scontrol delete`, `DeleteRefused` a refusal that is ignored, `Reconfigure`
the last task, `BreakOff` a task that fails or `timeout 2m` of `cleanup.sh`.
`Similar` says which cluster's name begins another's: `grep` finds both lines, the
regular expression of `lineinfile` does not.  `troubled` is history.

### GpuSetup and HealthGate

A node is its set of symptoms, what is wrong at which device.  In `GpuSetup` a
check is an operator from the node to the symptoms it sees, `Rules` the reasons
of section 4 in their order, `RecommendedAction` and `Summary` the fold that makes
one action of them.

In `HealthGate`, `log` is `/tmp/latest_healthcheck.log` (fresh for a minute, the
messages in it, each with the run that wrote it, and `mixed` when one run has
emptied it under the other and left it a hole), `caller` the two runs of
`healthchecks.sh`, `boots` is `wtmp`, `drained` and `advice` what Slurm holds
against the node.  `NoShape` is a run that the metadata service does not answer:
it leaves before it looks at the log.  `Start` looks at the log's age, `Open` is
the redirection that empties it, `RunSection` one check, which may write over the
other run's message as everything a run prints may (`Writes`; `lost` is history of
it), `Report` the summary with `Escalate` for too many reboots, `Read` the `grep`
that drains the node or lets the job start (of a binary file it says only that it
matches), `Die` an uncaught exception.  The node breaks and heals, the clock
ticks, the operator follows the advice or resumes the node.

### NcclScout

`speed[h]` is what a node can do.  `Reach` orders the nodes by their answers and
pairs them; `Test` and `TestRaises` are the first round; `PrintResults` fixes the
serial threshold, `Classify` makes `good_nodes` and `bad_nodes`; `Retest` tests a
node with the next good one, first those of failed pairs and, after `RetestLow`,
those of slow pairs; `Report` prints `cleared` and `accused`.

### AlertWebhook

`post[h]` is what a thread of the HTTP server still has to put on `alertQ`
(`alert_queue`).  `adp` is the place of `alert_processing_daemon` in its loop
(`top`, `get`, `put`, `commit`, `remind`, `reminding`), `event`, `now`, `todo`,
`updated` and `lastDay` its locals; `table` is the database as its connection
sees it and `disk` as committed.  `notifQ` is `notification_queue`; `ndp` is the
place of `notification_processing_daemon` (`get`, `sleep`, `push`, `dead`), `batch`
its list and `held` the notification that did not fit.  `told` is a history
variable.  Time is half days, before and after 11:00, so that "more than twelve
hours ago" is certain after three half days and possible before.

`GetAlert` takes an alert and chooses the branch, `PutNotification` is the
blocking put together with the INSERT or DELETE of the same transaction (nobody
else reads the connection's view), `Commit` the commit.  `GetNotification`,
`SleepOver`, `GetTimeout` are the aggregation, `Push` a message OCI accepts and
`PushFails` one it refuses, after which the thread is gone.  `Restart` is the
end of the process at any moment and its start by systemd or by hand: only
`disk` is left.  Lengths are in an arbitrary unit; the newline between two
notifications is counted in them.  An alert counts as resolved if its status does
not say that it fires and it ends after it has started, and as firing otherwise.
`Ignored` are those named DatasourceNoData or with an empty name; one without a
name is processed under the default `None`.  Alerts without parsable dates and
errors of SQLite, which would end `alert_processing_daemon`, are left out: Grafana
always sends both dates.

`AlertFeed` has none of this: `Arrive`, `Process`, `Remind`, `Deliver`, and
`Forget` for a restart.  Under the mapping `Inbox` (the event in hand and
`alertQ`), `table.open`, `UnderWay` (`batch`, `held`, `notifQ`) each step of
`AlertWebhook` is a step of it or none.

## Runs

| Run | Bounds | Shows |
|---|---|---|
| `faults` | 2 jobs of sizes 1 and 2, 3 names, 2 scripts, limits 2 clusters and 2 nodes, 1 failure of an apply, a destroy or a cleanup or a missing instance type, until a name is haunted | limits, demand, names, parts of clusters, deletions, running jobs |
| `crash` | 1 job of size 1, 2 names, 2 scripts, 2 domains, 1 failed apply, 1 crash, 1 daily cleanup, `SlowBuild`, `SlowScan` | `CountInv`, the inductive invariant of the proof that clusters stay within their limit |
| `live` | 2 jobs, one of them over the limits, 1 name, 1 cluster allowed, 1 failed apply, fairness | the liveness of the autoscaler |
| `resize` | 3 instances, 2 runs of `resize.sh`, 2 starts of 12 command lines, 1 failure, outage or kill | what pool, inventory, places, Terraform state and lock have to do with each other |
| `validation` | 3 instances, 1 run at a time of 9 command lines, 2 starts, 1 failure, audits at any moment, no similar name | what an audit's reports and its silence mean |
| `topology` | 2 clusters of 1 and 2 nodes, one's name begins the other's, 2 plays at a time, 4 in all, 1 play that breaks off or refused deletion | what stays true of one file under plays that know nothing of each other |
| `health` | 2 GPUs, a symptom that a reboot may cure or two that call for different actions, 3 readings of the clock, 1 fault, fairness | the gate, the reboots, draining in the end |
| `nccl` | 5 nodes, all alike, with one of another shape or two unknown, every speed and failure, both modes | who is called good and bad |
| `webhook` | 3 alerts of lengths 1 and 2 against 3, one ignored, queues of 2, 2 threads, 3 posts, 3 half days, 1 refused message, 1 restart | consistency of database, queues and messages; every step is a step of `AlertFeed` |
| `webhook_live` | queues of 1, 2 posts of up to 2 alerts, reminders, fairness | everything is delivered, no post blocks for ever |
| `violated_retry` | `faults` with 2 domains | a failed apply makes a second build for one job possible |
| `violated_scout` | 4 nodes | `--parallel` calls slow nodes good |

Why the bounds are enough:

* *Autoscaler.*  Two scripts let a build overlap a deletion, two builds overlap,
  or two deletions meet; three names for two clusters leave one that a wrong
  limit or a reused name would take; sizes 1 and 2 put every total on both sides
  of the node limit; one name for a job that fits and one that does not makes them
  compete for the index, and makes the one that fits wait for the remains of a
  failed build to go.  `faults` has `NamesClean` as its constraint: the states in which
  a name has just become haunted are checked, what follows them is not explored,
  since a build on such a name is deleted as idle (see below) and the properties
  say nothing of it.  A second type multiplies states without a new kind of overlap,
  since types share nothing but the lock and the script slots.
* *Resize and Validation.*  With three names a pool of one can grow and shrink, a
  removal has a node that goes, one that stays and the NFS node; two runs is what
  `FORCE` makes; one fault puts an outage, a failed playbook or call, or a kill at
  every step of either.  The audit needs one run beside it, and two starts so that
  it also sees what the second run makes of the first one's leftovers.
* *Topology.*  Three nodes make a cluster with one line to lose and one whose line
  can shrink; two plays at a time give every overlap of the two halves of
  `lineinfile`; four starts fill a line, change it, and let a third and a fourth
  play meet what an overlap has left.
* *HealthGate.*  Checks share nothing but the log, so the symptoms of two cases
  reach every branch of the summary that the properties tell apart; three
  readings of the clock put a reboot inside and outside of the two hours and on
  either side of the new year.  They do not reach past the day; a fourth makes the
  run too long, so that the end of the day's window is left to the theorem
  `NoRebootLoop`, which has no bounds.
* *NcclScout.*  Five nodes are two pairs and an odd one, the fewest with a good
  pair, a slow or failed pair and the special case.
* *AlertWebhook.*  Queues of two places can be reordered; queues of one
  (`webhook_live`) make every thread wait for every other with the fewest alerts;
  lengths 1 and 2 against 3 give a message that is exactly full and one that would
  be too full.

`CHECK_DEADLOCK FALSE` stands where the system really stops: no more starts, a
terminated node, a finished search, a notification thread that has died, a
crashed pass whose lock nobody removes.

The type invariants that are proved below for `Resize`, `Validation` and
`Topology` are left to the proofs; the others are checked here as well.

Safety of the autoscaler:

* `ClusterCountWithinLimit`: folders and starting creates never exceed
  `max_cluster_count`.
* `NodesWithinLimit`: nodes listed, left-over ones included, or promised never exceed
  `max_number_nodes`, so nothing falls between the readings.
* `BuildsMatchDemand`: never more builds of a size and type than jobs of it.
* `FreshName`: `create_cluster.sh` starts only on a name without a folder, instances
  or another script.
* `NoOrphans`: instances always have their folder; Slurm nodes without one are only
  those of a cluster whose cleanup has failed.
* `OneDestroyer`: no two scripts take one cluster down together.
* `SafeStartNeverKilled`: a job is killed only if at its start a script worked on
  its cluster, a pass had condemned it, or one had found it idle and not yet given
  its verdict.

All but the first hold until a name is haunted (`NamesClean`).

Liveness of the autoscaler (`live`): `LockReleased`, `WaitingJobServed` (a job that fits
gets its nodes, unless one over the limits waits for ever), `IdleClusterSpunDown`.
Fairness: weak for the pass (cron) and for time passing,
strong for each script's steps (a sleep ends although passes come and go) and for
Slurm starting a job (its scheduler comes round well within `idle_time`), weak for
jobs ending (time limits).  Nothing is assumed of users, failures, crashes or
cleanups.

Safety of resizing (`resize`) and of the audit (`validation`):

* `DriftHasACause`: with no run under way and none overlapped, the five places
  agree about every node but those that a failure, a kill or an option left half
  done, and the NFS server is a configured node.
* `NothingHalfAdded`: no node is left in `compute_to_add` on disk.
* `OnlyTargetsGo`: what leaves the pool was to be removed, or is taken by OCI when an
  add sets too small a size; and before a removal terminates anything, unless
  `--force` or `--no_reconfigure`, Ansible has removed one of its nodes at least.
* `TakesNoMore`: a removal by number takes no more, and spares the NFS node.
* `StateKnowsSize`: the size that `delete_cluster.sh` will destroy from is the
  pool's, unless a run is between changing and writing it, runs have overlapped, or
  the last one that changed the pool did not get to write.
* `LockMeansRunning`: until two of the runs that take the lock overlap, it is there
  while one works and gone afterwards but for a kill, whatever reconfigurations run
  beside them.
* `ReportsAreReal`, `QuietAuditAgrees`, `CleanRunsAuditQuiet`: an audit of a cluster
  that held still reports real differences only, is silent only if all places
  agree, and is silent after runs without trouble.

Safety of the topology:

* `OwnNodesOnly`: a cluster whose name begins no other's has only its own nodes on
  its switch, whatever overlaps.
* `SwitchesAgree`: a cluster at rest, whose plays neither met nor broke off and did
  not lose the race of two `lineinfile`s, has the same nodes in the file, in what
  Slurm loaded and in Slurm, *whatever other clusters' plays are in the middle of*.
* `OnlyTargetsLeave`: under the same conditions only a play that is to take a node
  away does so.

The health gate:

* `GateHolds`: a job starts on a node that has had an error since before the log
  was emptied only if the script left without a look at the log, a check failed or
  died, one run wrote over the other's message, or the other run is still writing.
* `RebootsSpaced`: recommendations reboot a node at most once in two hours and six
  times a day, however late they are followed, until `wtmp` is rotated.
* `TerminateIsFinal`: no later finding lessens a termination.
* `FaultyNodeDrained`: a node whose error stays is drained again and again, or
  gone.  Fairness: weak for the two runs of `healthchecks.sh` (slurmd starts what is
  due and waits for it) and for jobs ending, strong for the log's age (a minute
  passes between checks).  Nothing is assumed of the operator.

The bad node search: `GoodNodesCleared` (every sound node is called good once some
pair did well) and `SlowNodeReported` (without `--parallel` every measured slow node
is called bad), for fleets of one known shape.  The other fleets are in the
run because of the paths they take, on which it may die.

Safety of the webhook:

* `TableMatchesStory`: until a restart, an alert is in the database exactly when
  the last thing told of it, or on its way, is that it fires.
* `StoryMakesSense`: in the order people read, no alert is new twice in a row
  nor reminded of when it is over, until a restart.
* `EveryPushFits`: no message is empty or too long, if no notification is.
* `DiskFollows`: the database is at most one alert behind.
* `ImplementsFeed`: every step is a step of `AlertFeed`.

Liveness of the webhook (`webhook_live`): `ImplementsFairFeed`,
`EveryPostAnswered`.  Fairness: weak, for each daemon as a whole and for each
server thread's put, since they are threads of a running process whose waits
all have timeouts or end when there is room.  Restarts and refused messages are
not in this run: nothing in the code makes up for them.

### Disagreements the runs show

* `violated_retry`: between two availability domains the marker is missing for
  a moment, and a pass may build a second cluster for the job.
* `violated_scout`: with `--parallel` neither the odd node's pair nor the pairs of
  the second round have a threshold, so any bandwidth passes there and a slow node
  is listed as good.

### Consequences of the code that no run is spent on

The models contain these, and the properties are stated around them:

* *Autoscaler.*  `'--quiet'` reaches `Popen` as `bufsize` (`autoscale_slurm.sh:406`);
  the `TypeError` ends the pass, no cluster is ever resized, and while one is
  partly idle the build loop is skipped.  A job over `max_cluster_size` keeps an
  index for the rest of each pass and so the last place of `max_cluster_count`
  (`:437`).  The daily cleanup removes the folders of live clusters (the cron role's
  `el.yml:65`), which are then never deleted.  After `delete_cluster.sh` gives up,
  the nodes are out of Slurm and nothing tries again.
  A job that starts between a pass's `sinfo` and its verdict may be killed: what the
  pass asks afterwards of a node does not tell of it.  A job over `max_number_nodes`
  takes an index in every pass, and with `max_cluster_count` 1 no other job of the
  type is ever served while it waits.
* *Left-over nodes.*  The sweep of `delete_cluster.sh:106` gives `resize.sh` no cluster
  name; where there is no permanent cluster `resize.py:143` exits at once.  If the
  cleanup has failed too, the nodes stay in Slurm without a folder.  No pass deletes
  them (`autoscale_slurm.sh:272`), they count against `max_number_nodes` for ever
  (`:262`), and a cluster built on their name later is `haunted`: they make it look
  idle while it is being built, and it is deleted under its build or its jobs.
* *Resize.*  A reconfiguration neither looks for `currently_resizing` nor makes it
  (`resize.sh:172`) and runs beside a removal or an addition.  When several nodes
  are removed as unreachable and the playbook fails on one of them and then
  succeeds on the last, all are terminated, the failed one too, without `--force`
  (`reconfigure.py:91`).  `updateTFState` swallows every failure, so that the size
  in the Terraform state may be an old one.  Of two overlapping adds the second
  computes its size from a size read before the first grew the pool, and may
  shrink it.  `add 1 --remove_unreachable` with exactly one unreachable node ends
  with the size it began with, so the run prints that no node was added and the
  new one stays unconfigured (`resize.py:336`).  `host in line` in
  `reconfigure.py:67` also matches lines of hosts whose names contain the one to
  remove; the model's names do not.
* *Validation.*  With `Similar`, `grep` finds the lines of a cluster whose name
  contains this one's: Slurm and the topology are then not compared, nothing is
  written, and the audit is quiet about a difference (`validation.py:197`, `:582`).
  A node of Slurm that cannot be looked up is written to a file while the message
  says "same".
* *Topology.*  An add to a cluster whose name begins another's takes over the
  other's nodes when it has no line yet; when both have one, the rescue forgets its
  own (`compute.yml:107`), and a destroy then removes its whole line.  Two
  `lineinfile`s at one moment lose a line of another cluster.  Several unreachable
  nodes of a switch in one play would be put back one by one; `reconfigure.py:91`
  therefore runs the play once per node.  `cleanup.sh:24` calls
  `/opt/oci-hpc/bin/resize.py`, which is not there.
* *Health gate.*  Without an answer of the metadata service the prolog lets the job
  start unchecked.  Two runs that write the log at once overwrite each other's lines,
  and a line may be lost; behind a hole `grep` says "binary file matches" instead of
  the action.  A run that finds a log less than a minute old reads it even if it
  has just been emptied, and lets the job start.  A Fabric Manager error turns an
  earlier `Reboot` into `FabricManagerRestart`; a row remap failure alone is not
  reported, and "many" rows of one GPU are overwritten by "few" of a later one;
  `wtmp` has no year, so an entry of last December counts as one of next December;
  a boot on 29 February makes `strptime` raise, which ends the script without a
  message.  Slurm gets the first reason with the final action.
* *Bad node search.*  Without `--parallel` the first node of a failed pair is
  announced as bad (`ncclscout.py:230`) but never retested nor listed (`:304`), and
  one left-over threshold measures all pairs.
* *Webhook.*  One refused message ends the notification thread, whose queue is
  never emptied again while the service looks alive (`ons_webhook.py.j2:122`).  A
  notification that is itself too long causes an empty message and then one over
  the limit; a restart forgets the notification of an alert that is already in the
  database.

Hazards that no property covers are in `PROJECT.json` with the reason: the lock of a
killed pass, clusters whose folder the daily cleanup has removed and a play that
breaks off, for which the code has no recovery; the order in which posts of one
alert are queued, which nothing in the code observes; and an audit during which the
cluster changes, against which it has no defence.

## Proofs

All theorems hold for every value of the constants that meets the named
assumptions: finite sets, natural bounds.  Each rests on an inductive invariant
that is stronger than the property, because the property alone says too little of
what a running actor knows.  Every invariant and action property that a passing
run checks is proved here, and so are the type invariants no run checks.

`FoldTheorems` is about data.  The totals and summaries of the models are folds,
which the library defines by recursion on the subsets of a set.  The induction
theorems of the library take a predicate, which the provers cannot instantiate, so
each proof takes a smallest counterexample instead: a finite set of subsets has one
that includes no other (`SmallestSubset`), a set of numbers a least one
(`SmallestNumber`).  `FoldUnique` says that what satisfies the equation of a fold is
the fold.  From it come the lemmas on `SumFunctionOnSet` (`SumAdd`, `SumMonotone`,
`SumIncrease`, ...), and `FoldInOrder`: the fold of a sequence is the last of a series
of values, one for each element.

`AutoscalerProofs`:

* `TypeCorrect`: `Spec => []TypeOK`.  `TypeOK` is inductive; script records are
  treated once, in the lemmas on `ScriptRec`.
* `CountInvariant`, `ClusterCount`: `Spec => []ClusterCountWithinLimit`.  A build step
  adds a cluster because the *pass's list* has room, so the list has to cover all
  folders and starting scripts (`UsedCoversClaims`) and be within the limit itself
  (`UsedWithinLimit`).  The list is made from the folders alone, so no script may be
  about to make one at that time (`StartsInBuildOnly`), which holds because only the
  pass that holds the lock starts such scripts (`PassHoldsLock`) and sleeps after
  each.  `CountInv` is the conjunction, checked by `crash`.

* `NamesAreFresh`, `NothingIsOrphaned`, `DestroyersAreAlone`, `SafeStartsSurvive`,
  under `~SlowBuild` and `MaxCleanups = 0` (a slow build is idle before it is
  finished, and a daily cleanup removes folders of live clusters: both break the
  properties), and until a name is haunted.  `LifeInv` ties the place of each script
  to the folder, the markers and the instances (`ScriptShape`, `Files`), says what a
  cluster without a script looks like and which cleanup the nodes it has left behind
  go back to (`Rests`, `Emptied`, `Listed`, `CleanedUp`), that what is being built is
  neither old nor to go (`NotOld`), that the pass's lists are empty when it is done
  with them (`ListDone`), and that every job on a cluster a pass is about to judge or
  has condemned, or a script works on, is in `unsafe` (`DoomedJobs`).  It is inductive
  up to the step that makes a name haunted, and `haunted` only grows
  (`NamesStayHaunted`), hence `CleanLife`.
* `NodesStayWithinLimit`, `BuildsStayWithinDemand`, under the same and `~SlowScan`
  and `ADs = 1`.  Both fail without: a build that ends between two readings is
  counted in neither, and with a second domain the marker goes before the build is
  tried again (`violated_retry`).  The node limit does not follow from the numbers of
  the moment, because an apply that is under way may list fewer nodes than were
  promised: `LimitInv` says that there is a *plan*, a number for each name that
  covers what is listed, marked and starting, and whose sum is within the limit
  (`Planned`), and that a pass has counted such a plan when it decides (`SeenAll`),
  or will have with the markers it has still to read (`SeenSoFar`).  For the demand
  it says that the builds under way and the jobs a pass still wants to build for are
  together no more than the jobs submitted (`RoomForMore`).  `ClusterScripts` states
  for these sums that scripts and jobs are finitely many.

`ResizeProofs`: `TypeCorrect`, `InventoryNeverHalfAdded`, `TerraformKnowsSize`,
`LockTellsOfRuns`, `RemovesNoMore`, `OnlyNamedNodesGo`, for any number of overlapping
runs, failures and kills.  `IInv` adds to them what a run at each place has in its
locals (`RunsOK`), that a run which has not overlapped is alone (`Alone`) and knows
the pool's size when it begins (`SizeKnown`) and when it writes it (`Measured`), that
of the runs which take the lock one is alone too (`LockAlone`), and that the NFS node
is not on its list (`NfsSpared`).

There too: `NoDriftWithoutCause`.  `DriftInv` says for a lone run, place by
place (`Phase`), how far each of the five places is ahead of the others and about
which nodes they agree already.

`ValidationProofs`: `AuditTypeCorrect`, `OnlyRealReports`, `CleanRunsAreQuiet`, and
`SilenceIsAgreement` assuming `~Similar`.  `WholeInv` is the invariants of `Resize` and
`MatchInv`: while `still`, what the audit has read is what is there.

`TopologyProofs`: `TopologyTypes`, `SwitchesAreOwn`, `RestMeansAgreement`, `OthersStay`,
for any clusters, nodes, plays at a time and failures.  `OwnInv` says that lines,
copies and computed lines of a distinct cluster have only its nodes; `AgreeInv` that
an untroubled cluster has at most one play (`Alone`), agrees when it has none
(`AtRest`) and differs in a definite way at each place of the one it has (`AtWork`);
`CopyInv` and `LoneInv` that a copy held by another cluster's play still has this
cluster's line as it is in the file, unless two plays hold copies, in which case
their clusters count as troubled.

`HealthGateProofs`, for any symptoms, limits and order of events:

* `NoRebootLoop`.  `RebootInv` maps every reboot that was followed to an entry of
  `wtmp` of its own that is not the oldest, and bounds the advice in the log and in
  Slurm by the reboots of the window (`Told`, `AdviceOK`).
* `TerminationIsFinal`: along the series of values of the summary's fold an action
  `Terminate` stays, and one of the reasons puts it there.
* `GateTypeOK`.  `GateTypes` adds that a check at work is at a section that can find
  something; the types of the advice need that the fold ends in a known action.
* `GateKeepsJobsOff`.  `GateInv` says that the symptoms that are `due`, those since
  the log was emptied last, are still there, and that whenever the log may be read
  somebody answers for them (`Covered`): the log has a message, a run at work has
  seen them or is yet to come to the section that does (`Diligent`), a check has
  failed, or a message was written over (`lost`).

`AlertWebhookProofs` assumes a positive queue size, natural lengths and bounds.

* `WebhookTypes`: `Spec => []TypeOK`, inductive as it stands; it carries what
  each place of a daemon tells of its locals.
* `DatabaseFollows`: `Spec => []DiskFollows`, inductive with `TypeOK`.
* `WebhookImplementsFeed`: `Spec => Feed!FeedSpec`.  `FeedInv` adds to the two
  above that an event in hand is worth telling (`WorthTelling`), which is what
  makes `PutNotification` the same step as `Process`; one lemma per action maps
  it to its abstract step, over the lemmas on sequences at the top.

* `TableIsAsTold`, `ToldInOrder`.  `StoryInv` is the two properties together,
  inductive with `FeedInv`: what an alert's last notification is,
  delivered or under way, decides what may be told next, and no step but a put
  changes it (`ToldAfter` is the same before and after a push or a hand-over).
* `MessagesFit`, assuming that no notification alone is too long (`NoneTooLong`; the
  code has no answer to one that is).  `PushInv` bounds the length of `batch` and of
  `held` and says that a batch about to be sent is not empty; the lengths are sums
  over sequences of any length.

`NcclScoutProofs`, for any hosts, shapes, speeds, timeouts and order of answers:

* `ScoutTypes`.  `Base` adds to the types that only nodes that answered are tested
  and listed (`Places`), that a result is what its pair can do (`Measures`, `Speeds`),
  that nobody is tested with itself in the first round and there are two good nodes
  to retest with in turn (`Couples`), and that a search begins with nothing (`Fresh`).
* `SoundNodesAreCleared`, `SlowNodesAreReported`, for fleets of one known shape.
  `ScoutInv` follows the search: every pair is measured against the one threshold,
  and every node is in a pair that is yet to be tested, has a result or has failed
  (`Counted`); then every good node has proved it, and whoever is to be retested is
  in the list of those waiting or judged (`Retested`).  A later result never changes
  what an earlier one has said.

Only model-checked: everything under fairness, since liveness and `ENABLED` are out
of the prover's reach (`LockReleased`, `WaitingJobServed`, `IdleClusterSpunDown`,
`FaultyNodeDrained`, `ImplementsFairFeed`, `EveryPostAnswered`), and the two
disagreements.

## Not modelled, and why

* *Autoscaler*: other changes of `queues.conf` than a type that goes, `debug`, the
  monitoring tables that the scripts write and dashboards read.
* *Resize*: compute clusters, DNS records, host names other than the instances',
  `.do_not_edit`, `destroy_reconfigure`, which nothing calls.
* *Validation*: the file of `-cn`, and the PCIe, throttling and md5 checks, which
  run a script on each node and compare nothing.
* *Topology*: the rack-aware plays, `gres.conf`, the copy for a backup controller,
  `slurm_config.sh --initial`.
* *Health gate*: AMD and virtual machine shapes, the bandwidth test, which is not run
  with `--slurm`, and the bad pages check, whose result the summary does not use.
* *Bad node search*: two hosts given by name; a node does the same in every test.
* Terraform declarations, installation playbooks, exporters, samples, log
  collection and the user command line have no behaviour between their steps.

## Plan

Done: `ClusterScripts`, `Autoscaler`, `AlertFeed`, `AlertWebhook`, `Resize`,
`Validation`, `Topology`, `GpuSetup`, `HealthGate`, `NcclScout`, their runs, and
the proofs above.

Left:

1. `ClusterLife`: an abstract cluster (absent, building, up, going) that `Autoscaler`
   is shown to implement where `LifeInv` holds.
2. The pure algorithms: the balance of `mmt.py`, whose counts are stale when two
   playbooks overlap, and the order of `node_ordering_by_rack.py`.
3. The rack-aware plays of `roles/slurm`, and `gres.conf`.
4. `Monitor`: the job table that `monitor_slurm.sh` keeps.
