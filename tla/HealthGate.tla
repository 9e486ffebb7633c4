----------------------------- MODULE HealthGate -----------------------------
(***************************************************************************)
(* healthchecks.sh on one GPU node: slurmd runs it as the prolog of every  *)
(* job and as the HealthCheckProgram of an idle node, at the same time if  *)
(* it so happens.  Both share one log file, which stands for the result    *)
(* while it is less than a minute old: also while it is being written.     *)
(* The shell opens it with >, so each run writes at a place of its own, on *)
(* top of whatever the other has there.                                    *)
(* A node with an error is drained, and somebody follows the action that   *)
(* check_gpu_setup.py recommends, which depends on the node's reboots.     *)
(***************************************************************************)
EXTENDS GpuSetup

CONSTANTS Cases,       \* the sets of symptoms that may come together in a behaviour
          ShortTime,   \* two hours
          Day,         \* a day
          Limit,       \* the reboots in a day that are not too many: 5
          NewYear,     \* when the year that wtmp does not write changes
          MaxTime,     \* bound on the clock
          MaxFaults    \* bound on what fails: metadata, checks, panics, rotations

ASSUME CasesAssumption == Cases \subseteq SUBSET Symptom /\ \A C \in Cases : IsFiniteSet(C)
ASSUME TimesAssumption ==
    /\ {ShortTime, Day, Limit, NewYear, MaxTime, MaxFaults} \subseteq Nat
    /\ ShortTime <= Day

VARIABLES
  prone,     \* the symptoms that may come
  hw,        \* the symptoms the node has
  log,       \* /tmp/latest_healthcheck.log: fresh, mixed, and the messages in it
  caller,    \* the two runs of healthchecks.sh
  job,       \* the job on the node
  drained,   \* Slurm gives the node no job
  advice,    \* the action in the reason it was drained for
  now,       \* the clock
  boots,     \* wtmp: the boots it remembers, the oldest first
  due,       \* history: the symptoms there all the time since the log was emptied
  trouble,   \* history: since then a check has failed or died
  lost,      \* history: since then a run has written over the other's message
  followed,  \* history: the reboots that were recommended
  rotated,   \* history: wtmp has been rotated
  faults

gate == <<log, caller, job, drained, advice>>
clock == <<now, boots, followed, rotated>>
vars == <<prone, hw, gate, clock, due, trouble, lost, faults>>

Callers == {"prolog", "monitor"}
PCs == {"off", "open", "check", "report", "read"}
CallerRec == [pc : PCs, at : 0 .. Len(AllSections), seen : SUBSET Symptom]
Off == [pc |-> "off", at |-> 0, seen |-> {}]

Init ==
    /\ prone \in Cases /\ hw = {}
    /\ log = [fresh |-> FALSE, mixed |-> FALSE, msgs |-> {}]
    /\ caller = [c \in Callers |-> Off]
    /\ job = "none" /\ drained = FALSE /\ advice = NONE
    /\ now = 0 /\ boots = <<0>>
    /\ due = {} /\ trouble = FALSE /\ lost = FALSE /\ followed = <<>> /\ rotated = FALSE
    /\ faults = 0

Fault(failed) ==
    /\ failed => faults < MaxFaults
    /\ faults' = IF failed THEN faults + 1 ELSE faults

(* The sections of a check that can find something; the others pass. *)
Sections == [C \in Cases |-> {i \in DOMAIN AllSections : Sees(AllSections[i], C) # {}}]

(* A run that has seen something goes on to the next section, if any. *)
Onward(at, seen) ==
    LET later == {i \in Sections[prone] : i > at} IN
    [pc |-> IF later = {} THEN "report" ELSE "check",
     at |-> IF later = {} THEN 0 ELSE Min(later),
     seen |-> seen]

-----------------------------------------------------------------------------
(* healthchecks.sh *)

(* The prolog of a job, or the program of a node without one. *)
Called(c) ==
    /\ caller[c].pc = "off"
    /\ job = (IF c = "prolog" THEN "prolog" ELSE "none")

(* The metadata service does not tell the shape: the script leaves without *)
(* a look at the log, and with the status that lets the job start.         *)
NoShape(c) ==
    /\ Called(c) /\ Fault(TRUE)
    /\ job' = IF c = "prolog" THEN "running" ELSE job
    /\ UNCHANGED <<prone, hw, log, caller, drained, advice, clock, due, trouble, lost>>

(* Mutant of Start: the comparison with 60 seconds is the wrong way round. *)
StartReversed(c) ==
    /\ Called(c)
    /\ caller' = [caller EXCEPT ![c].pc = IF log.fresh THEN "open" ELSE "read"]
    /\ UNCHANGED <<prone, hw, log, job, drained, advice, clock, due, trouble, lost, faults>>

(* The age of the log decides whether there is a check at all. *)
Start(c) ==
    /\ Called(c)
    /\ caller' = [caller EXCEPT ![c].pc = IF log.fresh THEN "read" ELSE "open"]
    /\ UNCHANGED <<prone, hw, log, job, drained, advice, clock, due, trouble, lost, faults>>

(* The redirection empties the log.  Another run that has it open goes on  *)
(* behind a hole, which makes the log a binary file for grep.              *)
Open(c) ==
    /\ caller[c].pc = "open"
    /\ log' = [fresh |-> TRUE, msgs |-> {},
               mixed |-> \E d \in Callers \ {c} : caller[d].pc \in {"check", "report"}]
    /\ caller' = [caller EXCEPT ![c] = Onward(0, {})]
    /\ due' = hw /\ trouble' = FALSE /\ lost' = FALSE
    /\ UNCHANGED <<prone, hw, job, drained, advice, clock, faults>>

(* A run writes where it has got to: there may be the other's message.     *)
Writes(c, mine) ==
    \E gone \in SUBSET {m \in log.msgs : m[1] # c} :
        /\ log' = [log EXCEPT !.fresh = TRUE, !.msgs = (@ \ gone) \union mine]
        /\ lost' = (lost \/ gone # {})

(* Section 3 of check_gpu_setup.py, one check after the other. *)
RunSection(c) ==
    LET at == caller[c].at  s == AllSections[at] IN
    /\ caller[c].pc = "check"
    /\ \E raised \in BOOLEAN :
         /\ Fault(raised)
         /\ \E found \in IF raised THEN Default(s) ELSE {Sees(s, hw)} :
              caller' = [caller EXCEPT ![c] = Onward(at, @.seen \union found)]
         /\ trouble' = (trouble \/ raised)
    /\ Writes(c, {})
    /\ UNCHANGED <<prone, hw, job, drained, advice, clock, due>>

(* get_reboots_count: the oldest entry of wtmp is skipped.  An entry of    *)
(* last year is taken for one of this year, which is still to come.        *)
Reboots(window) ==
    {i \in 2 .. Len(boots) : boots[i] + window >= now \/ (boots[i] < NewYear /\ NewYear <= now)}

(* Mutant of Escalate: the reboots of the day are counted, not the last one. *)
EscalateByDay(action) ==
    IF action = "Reboot" /\ Cardinality(Reboots(Day)) > Limit THEN "Terminate" ELSE action

(* The end of section 4: too many reboots turn one more into Terminate. *)
Escalate(action) ==
    IF action = "Reboot" /\ (Reboots(ShortTime) # {} \/ Cardinality(Reboots(Day)) > Limit)
    THEN "Terminate" ELSE action

(* Mutant of Report: one error is not enough for a message. *)
ReportSeveral(c) ==
    LET seen == caller[c].seen IN
    /\ caller[c].pc = "report"
    /\ Writes(c, IF Cardinality(Reasons(seen)) <= 1 THEN {} ELSE {<<c, Escalate(Summary(seen))>>})
    /\ caller' = [caller EXCEPT ![c] = [Off EXCEPT !.pc = "read"]]
    /\ UNCHANGED <<prone, hw, job, drained, advice, clock, due, trouble, faults>>

(* With --slurm the first reason and the action are written to the log,    *)
(* if there is a reason.                                                   *)
Report(c) ==
    LET seen == caller[c].seen IN
    /\ caller[c].pc = "report"
    /\ Writes(c, IF Reasons(seen) = {} THEN {} ELSE {<<c, Escalate(Summary(seen))>>})
    /\ caller' = [caller EXCEPT ![c] = [Off EXCEPT !.pc = "read"]]
    /\ UNCHANGED <<prone, hw, job, drained, advice, clock, due, trouble, faults>>

(* The script dies with a traceback, which has no message in it: without   *)
(* the instance's metadata, or on a reboot of the 29th of February.        *)
Die(c) ==
    /\ caller[c].pc \in {"check", "report"} /\ Fault(TRUE)
    /\ Writes(c, {})
    /\ trouble' = TRUE
    /\ caller' = [caller EXCEPT ![c] = [Off EXCEPT !.pc = "read"]]
    /\ UNCHANGED <<prone, hw, job, drained, advice, clock, due>>

(* grep finds a message: the prolog fails, for which Slurm drains the node *)
(* and queues the job again; the HealthCheckProgram drains it by itself.   *)
(* It finds none: the job starts.  Of a binary file grep only says that it *)
(* matches, so that the action is not in the reason.                       *)
Read(c) ==
    /\ caller[c].pc = "read"
    /\ \/ /\ log.msgs = {}
          /\ job' = IF c = "prolog" THEN "running" ELSE job
          /\ UNCHANGED <<drained, advice>>
       \/ \E m \in log.msgs :
            /\ job' = IF c = "prolog" THEN "none" ELSE job
            /\ drained' = TRUE
            /\ advice' \in IF log.mixed THEN {m[2], NONE} ELSE {m[2]}
    /\ caller' = [caller EXCEPT ![c] = Off]
    /\ UNCHANGED <<prone, hw, log, clock, due, trouble, lost, faults>>

-----------------------------------------------------------------------------
(* Slurm *)

GiveJob ==
    /\ job = "none" /\ ~drained
    /\ job' = "prolog"
    /\ UNCHANGED <<prone, hw, log, caller, drained, advice, clock, due, trouble, lost, faults>>

JobEnds ==
    /\ job = "running"
    /\ job' = "none"
    /\ UNCHANGED <<prone, hw, log, caller, drained, advice, clock, due, trouble, lost, faults>>

-----------------------------------------------------------------------------
(* The node, the clock and the operator *)

Break(x) ==
    /\ x \in prone \ hw /\ job # "gone"
    /\ hw' = hw \union {x}
    /\ UNCHANGED <<prone, gate, clock, due, trouble, lost, faults>>

Heal(x) ==
    /\ x \in hw
    /\ hw' = hw \ {x} /\ due' = due \ {x}
    /\ UNCHANGED <<prone, gate, clock, trouble, lost, faults>>

(* A minute passes since the log was written: not between the end of a     *)
(* check and the grep that follows it.                                     *)
Age ==
    /\ log.fresh /\ \A c \in Callers : caller[c].pc # "read"
    /\ log' = [log EXCEPT !.fresh = FALSE]
    /\ UNCHANGED <<prone, hw, caller, job, drained, advice, clock, due, trouble, lost, faults>>

Tick ==
    /\ now < MaxTime /\ job # "gone"
    /\ now' = now + 1
    /\ UNCHANGED <<prone, hw, gate, boots, followed, rotated, due, trouble, lost, faults>>

(* Whatever runs ends, and the log is older than a minute afterwards. *)
Boot ==
    /\ boots' = Append(boots, now)
    /\ caller' = [c \in Callers |-> Off]
    /\ log' = [log EXCEPT !.fresh = FALSE]
    /\ job' = "none"

Panic ==
    /\ job # "gone" /\ Fault(TRUE)
    /\ Boot
    /\ UNCHANGED <<prone, hw, drained, advice, now, followed, rotated, due, trouble, lost>>

(* logrotate starts wtmp anew. *)
Rotate ==
    /\ ~rotated /\ Fault(TRUE)
    /\ boots' = <<>> /\ rotated' = TRUE
    /\ UNCHANGED <<prone, hw, gate, now, followed, due, trouble, lost>>

FollowReboot ==
    /\ drained /\ job = "none" /\ advice = "Reboot"
    /\ Boot
    /\ advice' = NONE
    /\ followed' = Append(followed, now)
    /\ UNCHANGED <<prone, hw, drained, now, rotated, due, trouble, lost, faults>>

FollowTerminate ==
    /\ drained /\ job = "none" /\ advice = "Terminate"
    /\ job' = "gone"
    /\ caller' = [c \in Callers |-> Off]
    /\ UNCHANGED <<prone, hw, log, drained, advice, clock, due, trouble, lost, faults>>

(* The node is given jobs again, repaired or not. *)
Resume ==
    /\ drained /\ job # "gone" /\ advice # "Terminate"
    /\ drained' = FALSE /\ advice' = NONE
    /\ UNCHANGED <<prone, hw, log, caller, job, clock, due, trouble, lost, faults>>

Check(c) == Start(c) \/ Open(c) \/ RunSection(c) \/ Report(c) \/ Read(c)

Next ==
    \/ \E c \in Callers : Check(c) \/ Die(c) \/ NoShape(c)
    \/ GiveJob \/ JobEnds
    \/ \E x \in prone : Break(x) \/ Heal(x)
    \/ Age \/ Tick \/ Panic \/ Rotate
    \/ FollowReboot \/ FollowTerminate \/ Resume

Spec == Init /\ [][Next]_vars

(* slurmd starts what is due and lets it finish, jobs end, and the log     *)
(* gets older when nobody writes to it.                                    *)
FairSpec ==
    /\ Spec
    /\ \A c \in Callers : WF_vars(Check(c))
    /\ WF_vars(JobEnds) /\ SF_vars(Age)

-----------------------------------------------------------------------------
(* Properties *)

(* The type of the state. *)
TypeOK ==
    /\ prone \in Cases /\ hw \subseteq Symptom /\ due \subseteq Symptom
    /\ log \in [fresh : BOOLEAN, mixed : BOOLEAN, msgs : SUBSET (Callers \X Actions)]
    /\ caller \in [Callers -> CallerRec]
    /\ job \in {"none", "prolog", "running", "gone"}
    /\ drained \in BOOLEAN /\ advice \in Actions
    /\ now \in Nat /\ boots \in Seq(Nat) /\ followed \in Seq(Nat)
    /\ trouble \in BOOLEAN /\ lost \in BOOLEAN /\ rotated \in BOOLEAN /\ faults \in Nat

(* A job starts on a node with an error that was there before the log was  *)
(* emptied, and has been since, only if the script has left without a look *)
(* at the log, a check has failed or died, a run has written over what the *)
(* other has found, or the other run is still writing the log, which       *)
(* counts as fresh all the same.                                           *)
GateHolds ==
    [][job = "prolog" /\ job' = "running" =>
           \/ Reasons(Found(due)) = {}
           \/ caller["prolog"].pc = "off"
           \/ trouble \/ lost
           \/ caller["monitor"].pc \in {"check", "report"}]_vars

(* As long as wtmp has not been rotated, following the recommendations     *)
(* reboots a node at most once in two hours and Limit + 1 times in a day,  *)
(* whatever else has rebooted it and however late they are followed.       *)
RebootsSpaced ==
    \/ rotated
    \/ /\ \A i \in 1 .. Len(followed) - 1 : followed[i] + ShortTime < followed[i + 1]
       /\ Cardinality({i \in 1 .. Len(followed) : followed[i] + Day >= now}) <= Limit + 1

Final == {"narrow", "fallen", "inactive", "bad_signal", "powersave"}

(* When a check has seen what calls for a termination, no later finding    *)
(* turns its recommendation into a lesser one.                             *)
TerminateIsFinal ==
    \A c \in Callers :
        caller[c].pc = "report" /\ Present(caller[c].seen, Final) # {}
            => Escalate(Summary(caller[c].seen)) = "Terminate"

(* The symptoms that are errors by themselves. *)
Errors == {x \in UNION Cases : Reasons(Found({x})) # {}}

(* A node with an error that stays is drained, again each time somebody    *)
(* resumes it: the two runs cannot keep each other from reading it.        *)
FaultyNodeDrained ==
    \A x \in Errors : <>[](x \in hw) => []<>(drained \/ job = "gone")
=============================================================================
