-------------------------- MODULE AutoscalerProofs --------------------------
(***************************************************************************)
(* What holds of Autoscaler for any number of clusters, jobs, scripts,     *)
(* crashes, failures and cleanups, and for slow builds and slow scans too. *)
(* In three parts: types and the count of clusters; the life of a cluster; *)
(* the limits on nodes.                                                    *)
(***************************************************************************)
EXTENDS Autoscaler, FoldTheorems, FiniteSetTheorems, TLAPS

USE TypesAssumption, JobsAssumption, BoundsAssumption, LimitsAssumption

(* Script records *)

LEMMA IdleIsScript == Idle \in ScriptRec
  BY DEF ScriptRec, Idle, ScriptPCs, CreatePCs, ApplyPCs

LEMMA ScriptFields ==
  ASSUME NEW r \in ScriptRec
  PROVE  /\ r.pc \in ScriptPCs /\ r.size \in Nat /\ r.ads \in Nat /\ r.here \in BOOLEAN
         /\ r.pc # "idle" => r.name \in Names
         /\ r.pc \in CreatePCs \ {"force"} => r.ads > 0
  BY DEF ScriptRec

LEMMA GotoIsScript ==
  ASSUME NEW r \in ScriptRec, r.name \in Names, NEW pc \in ScriptPCs,
         pc \in CreatePCs \ {"force"} => r.ads > 0
  PROVE  [r EXCEPT !.pc = pc] \in ScriptRec
  BY DEF ScriptRec

LEMMA GotoHereIsScript ==
  ASSUME NEW r \in ScriptRec, r.name \in Names, NEW pc \in ScriptPCs,
         pc \in CreatePCs \ {"force"} => r.ads > 0
  PROVE  [r EXCEPT !.pc = pc, !.here = TRUE] \in ScriptRec
  BY DEF ScriptRec

LEMMA AwayIsScript ==
  ASSUME NEW r \in ScriptRec
  PROVE  [r EXCEPT !.here = FALSE] \in ScriptRec
  BY DEF ScriptRec

LEMMA NextADIsScript ==
  ASSUME NEW r \in ScriptRec, r.pc = "failed"
  PROVE  [r EXCEPT !.ads = @ - 1, !.pc = IF r.ads > 1 THEN "retry" ELSE "force"] \in ScriptRec
<1> DEFINE pc == IF r.ads > 1 THEN "retry" ELSE "force"
<1>1. r.ads \in Nat /\ r.ads > 0 /\ r.name \in Names
  BY DEF ScriptRec, CreatePCs
<1>2. r.ads - 1 \in Nat /\ (pc = "retry" => r.ads - 1 > 0)
  BY <1>1
<1>3. pc \in ScriptPCs /\ pc # "idle" /\ (pc \in CreatePCs \ {"force"} => pc = "retry")
  BY DEF ScriptPCs, CreatePCs
<1> HIDE DEF pc
<1>4. [r EXCEPT !.ads = @ - 1, !.pc = pc] \in ScriptRec
  BY <1>1, <1>2, <1>3 DEF ScriptRec
<1>. QED
  BY <1>4 DEF pc

LEMMA SpawnIsScript ==
  ASSUME NEW pc \in {"c_start", "d_start"}, NEW c \in Names, NEW n \in Nat
  PROVE  [pc |-> pc, name |-> c, size |-> n, ads |-> ADs, here |-> FALSE] \in ScriptRec
  BY DEF ScriptRec, ScriptPCs, CreatePCs
-----------------------------------------------------------------------------
(* Type correctness *)

LEMMA InitTypeOK == Init => TypeOK
<1> SUFFICES ASSUME Init PROVE TypeOK
  OBVIOUS
<1>1. script \in [Scripts -> ScriptRec]
  BY IdleIsScript DEF Init, ScriptsInit
<1>2. ScriptsTypeOK
  BY <1>1 DEF Init, ScriptsInit, ScriptsTypeOK
<1>3. lock \in BOOLEAN
  BY Zenon DEF Init
<1>4. crashes \in 0 .. MaxCrashes /\ cleanups \in 0 .. MaxCleanups
  BY SMT DEF Init
<1>5. seen \in [Names -> Nat]
  BY SMT DEF Init
<1>6. pass \in {"off", "jobs", "nodes", "scan", "destroy", "build"} /\ toBuild \subseteq Jobs
    /\ toDestroy \subseteq Names /\ toResize \subseteq Names /\ used \subseteq Names
    /\ toRead \subseteq Names /\ asleep \subseteq Scripts /\ unsafe \subseteq Jobs
  BY Zenon DEF Init
<1>7. old \in [Names -> Nat] /\ ranAt \in [Jobs -> Names \union {NoName}]
  BY SMT DEF Init
<1>. QED
  BY <1>2, <1>3, <1>4, <1>5, <1>6, <1>7, Zenon DEF TypeOK, PassTypeOK

(* One script changes, to another well-formed record. *)
LEMMA ScriptChange ==
  ASSUME script \in [Scripts -> ScriptRec], NEW s \in Scripts, NEW r \in ScriptRec,
         script' = [script EXCEPT ![s] = r]
  PROVE  script' \in [Scripts -> ScriptRec]
  OBVIOUS

LEMMA GotoTypeOK ==
  ASSUME script \in [Scripts -> ScriptRec], NEW s \in Scripts, NEW pc \in ScriptPCs,
         script[s].pc # "idle", pc \in CreatePCs \ {"force"} => script[s].ads > 0,
         Goto(s, pc)
  PROVE  script' \in [Scripts -> ScriptRec]
<1>1. [script[s] EXCEPT !.pc = pc] \in ScriptRec
  BY ScriptFields, GotoIsScript
<1>. QED
  BY <1>1 DEF Goto

LEMMA EndTypeOK ==
  ASSUME script \in [Scripts -> ScriptRec], NEW s \in Scripts, End(s)
  PROVE  script' \in [Scripts -> ScriptRec]
  BY IdleIsScript DEF End

LEMMA SpawnTypeOK ==
  ASSUME script \in [Scripts -> ScriptRec], NEW s \in Scripts,
         NEW pc \in {"c_start", "d_start"}, NEW c \in Names, NEW n \in Nat,
         Spawn(s, pc, c, n)
  PROVE  script' \in [Scripts -> ScriptRec]
  BY SpawnIsScript DEF Spawn

LEMMA MarkTypeOK ==
  ASSUME building \in [Names -> Nat], NEW c \in Names, NEW n \in Nat, MarkBuilding(c, n)
  PROVE  building' \in [Names -> Nat]
  BY DEF MarkBuilding

(* The nodes Slurm lists of a cluster become fewer. *)
LEMMA UnlistTypeOK ==
  ASSUME ScriptsTypeOK, NEW c \in Names, NEW left \in 0 .. reg[c], Unlist(c, left)
  PROVE  /\ reg' \in [Names -> Nat] /\ stale' \in [Names -> Nat] /\ dead' \in [Names -> Nat]
<1>1. left \in Nat
  BY DEF ScriptsTypeOK
<1>2. reg' \in [Names -> Nat] /\ dead' \in [Names -> Nat]
  BY <1>1 DEF Unlist, ScriptsTypeOK
<1>3. stale' \in [Names -> Nat]
  BY <1>1 DEF Unlist, ScriptsTypeOK
<1>. QED
  BY <1>2, <1>3

LEMMA UnreachableTypeOK ==
  ASSUME ScriptsTypeOK, NEW c \in Names, RemoveUnreachable(c)
  PROVE  /\ reg' \in [Names -> Nat] /\ stale' \in [Names -> Nat] /\ dead' \in [Names -> Nat]
         /\ uncleaned' \subseteq Names /\ haunted' \subseteq Names
<1>1. PICK left \in 0 .. reg[c] :
         Unlist(c, left) /\ uncleaned' = IF left = 0 THEN uncleaned \ {c} ELSE uncleaned
  BY Zenon DEF RemoveUnreachable
<1>2. uncleaned' \subseteq Names /\ haunted' \subseteq Names
  BY <1>1 DEF RemoveUnreachable, ScriptsTypeOK
<1>. QED
  BY <1>1, <1>2, UnlistTypeOK

LEMMA RemoveFolderTypeOK ==
  ASSUME ScriptsTypeOK, NEW s \in Scripts, NEW c \in Names, RemoveFolder(s, c)
  PROVE  /\ folder' \subseteq Names /\ destroying' \subseteq Names
         /\ building' \in [Names -> Nat] /\ script' \in [Scripts -> ScriptRec]
<1>1. script' \in [Scripts -> ScriptRec]
  BY IdleIsScript, AwayIsScript DEF RemoveFolder, ScriptsTypeOK
<1>. QED
  BY <1>1 DEF RemoveFolder, ScriptsTypeOK

(* What a script may do, the end of a sleep included. *)
Does(s) ==
    \/ CreateStart(s) \/ CreateNoShape(s) \/ ApplyLaunch(s) \/ ApplyConfigure(s) \/ ApplyDone(s)
    \/ ApplyFail(s) \/ GraceOver(s) \/ FailOver(s) \/ CreateRetry(s)
    \/ DeleteStart(s) \/ Cleanup(s) \/ Destroy(s) \/ DestroyGiveUp(s) \/ Remove(s)

(* Every step of every script, whatever it fails at. *)
LEMMA ScriptStepTypeOK ==
  ASSUME ScriptsTypeOK, NEW s \in Scripts, Does(s)
  PROVE  ScriptsTypeOK'
<1> DEFINE c == script[s].name
<1>1. /\ script \in [Scripts -> ScriptRec]
      /\ script[s].size \in Nat /\ script[s].ads \in Nat
      /\ script[s].pc # "idle" => c \in Names
      /\ script[s].pc \in CreatePCs \ {"force"} => script[s].ads > 0
  BY ScriptFields DEF ScriptsTypeOK
<1> USE DEF ScriptPCs, CreatePCs, ApplyPCs, DestroyPCs, fileVars, cloudVars, slurmVars, jobVars
<1>2. CASE CreateStart(s)
  <2>1. script' \in [Scripts -> ScriptRec]
    <3>1. [script[s] EXCEPT !.pc = "launch", !.here = TRUE] \in ScriptRec
      BY <1>1, <1>2, GotoHereIsScript DEF CreateStart
    <3>. QED
      BY <1>1, <1>2, <3>1 DEF CreateStart
  <2>2. building' \in [Names -> Nat]
    BY <1>1, <1>2, MarkTypeOK DEF CreateStart, ScriptsTypeOK
  <2>3. dead' \in [Names -> Nat] /\ haunted' \subseteq Names
    BY <1>1, <1>2 DEF CreateStart, ScriptsTypeOK
  <2>. QED
    BY <1>1, <1>2, <2>1, <2>2, <2>3 DEF CreateStart, ScriptsTypeOK
<1>3. CASE ApplyLaunch(s)
  <2>1. script' \in [Scripts -> ScriptRec]
    BY <1>1, <1>3, GotoTypeOK DEF ApplyLaunch
  <2>. QED
    BY <1>1, <1>3, <2>1 DEF ApplyLaunch, ScriptsTypeOK
<1>4. CASE ApplyConfigure(s)
  <2>1. script' \in [Scripts -> ScriptRec]
    BY <1>1, <1>4, GotoTypeOK DEF ApplyConfigure
  <2>. QED
    BY <1>1, <1>4, <2>1 DEF ApplyConfigure, ScriptsTypeOK
<1>5. CASE ApplyDone(s)
  <2>1. script' \in [Scripts -> ScriptRec]
    BY <1>1, <1>5, GotoTypeOK DEF ApplyDone
  <2>. QED
    BY <1>1, <1>5, <2>1 DEF ApplyDone, ScriptsTypeOK
<1>6. CASE ApplyFail(s)
  <2>1. script' \in [Scripts -> ScriptRec]
    BY <1>1, <1>6, GotoTypeOK DEF ApplyFail
  <2>. QED
    BY <1>1, <1>6, <2>1 DEF ApplyFail, Fault, ScriptsTypeOK
<1>7. CASE GraceOver(s)
  <2>1. script' \in [Scripts -> ScriptRec]
    BY <1>1, <1>7, EndTypeOK DEF GraceOver
  <2>. QED
    BY <1>1, <1>7, <2>1 DEF GraceOver, UnmarkBuilding, ScriptsTypeOK
<1>8. CASE FailOver(s)
  <2>1. script' \in [Scripts -> ScriptRec]
    <3>1. [script[s] EXCEPT !.ads = @ - 1,
                            !.pc = IF script[s].ads > 1 THEN "retry" ELSE "force"] \in ScriptRec
      BY <1>1, <1>8, NextADIsScript DEF FailOver
    <3>. QED
      BY <1>1, <1>8, <3>1 DEF FailOver
  <2>. QED
    BY <1>1, <1>8, <2>1 DEF FailOver, UnmarkBuilding, ScriptsTypeOK
<1>9. CASE CreateRetry(s)
  <2>1. script' \in [Scripts -> ScriptRec]
    BY <1>1, <1>9, GotoTypeOK DEF CreateRetry
  <2>2. building' \in [Names -> Nat]
    BY <1>1, <1>9, MarkTypeOK DEF CreateRetry, ScriptsTypeOK
  <2>. QED
    BY <1>1, <1>9, <2>1, <2>2 DEF CreateRetry, ScriptsTypeOK
<1>10. CASE DeleteStart(s)
  <2>1. script' \in [Scripts -> ScriptRec]
    <3>1. [script[s] EXCEPT !.pc = "cleanup", !.here = TRUE] \in ScriptRec
      BY <1>1, <1>10, GotoHereIsScript DEF DeleteStart
    <3>. QED
      BY <1>1, <1>10, <3>1, EndTypeOK DEF DeleteStart
  <2>2. c \in Names
    BY <1>1, <1>10 DEF DeleteStart
  <2>3. CASE UNCHANGED slurmVars
    BY <1>10, <2>1, <2>2, <2>3 DEF DeleteStart, ScriptsTypeOK
  <2>4. CASE RemoveUnreachable(c)
    BY <1>10, <2>1, <2>2, <2>4, UnreachableTypeOK DEF DeleteStart, ScriptsTypeOK
  <2>. QED
    BY <1>10, <2>3, <2>4 DEF DeleteStart
<1>11. CASE Cleanup(s)
  <2>1. script' \in [Scripts -> ScriptRec]
    BY <1>1, <1>11, GotoTypeOK DEF Cleanup
  <2>2. /\ c \in Names /\ folder' = folder /\ building' = building /\ destroying' = destroying
        /\ inst' = inst /\ haunted' = haunted /\ job' = job /\ at' = at
    BY <1>1, <1>11 DEF Cleanup
  <2>3. uncleaned' \subseteq Names /\ faults' \in 0 .. MaxFaults
    BY <1>11, <2>2 DEF Cleanup, Fault, ScriptsTypeOK
  <2>4. PICK left \in Nat : Unlist(c, left)
    BY <1>11, <2>2 DEF Cleanup, ScriptsTypeOK
  <2>5. reg' \in [Names -> Nat] /\ dead' \in [Names -> Nat] /\ stale' \in [Names -> Nat]
    BY <2>2, <2>4 DEF Unlist, ScriptsTypeOK
  <2>. QED
    BY <2>1, <2>2, <2>3, <2>5, Zenon DEF ScriptsTypeOK
<1>12. CASE Destroy(s)
  <2>1. script' \in [Scripts -> ScriptRec]
    BY <1>1, <1>12, GotoTypeOK DEF Destroy
  <2>2. /\ job' \in [Jobs -> {"new", "pending", "running", "done", "killed"}]
        /\ at' \in [Jobs -> Names \union {NoName}]
    BY <1>1, <1>12 DEF Destroy, ScriptsTypeOK
  <2>. QED
    BY <1>1, <1>12, <2>1, <2>2 DEF Destroy, ScriptsTypeOK
<1>13. CASE DestroyGiveUp(s)
  <2>1. script' \in [Scripts -> ScriptRec]
    BY <1>1, <1>13, EndTypeOK DEF DestroyGiveUp
  <2>. QED
    BY <1>1, <1>13, <2>1 DEF DestroyGiveUp, Fault, ScriptsTypeOK
<1>14. CASE Remove(s)
  <2>1. c \in Names
    BY <1>1, <1>14 DEF Remove
  <2>. QED
    BY <1>14, <2>1, UnreachableTypeOK, RemoveFolderTypeOK DEF Remove, ScriptsTypeOK
<1>15. CASE CreateNoShape(s)
  <2>1. c \in Names
    BY <1>1, <1>15 DEF CreateNoShape
  <2>. QED
    BY <1>15, <2>1, RemoveFolderTypeOK DEF CreateNoShape, Fault, ScriptsTypeOK
<1>. QED
  BY <1>2, <1>3, <1>4, <1>5, <1>6, <1>7, <1>8, <1>9, <1>10, <1>11, <1>12, <1>13, <1>14, <1>15
     DEF Does

(* A pass that ends or dies leaves a well-typed state. *)
LEMMA ForgetTypeOK ==
  ASSUME PassTypeOK, Forget, lock' \in BOOLEAN
  PROVE  PassTypeOK'
<1>1. seen' \in [Names -> Nat] /\ old' \in [Names -> Nat]
      /\ ranAt' \in [Jobs -> Names \union {NoName}]
  BY SMT DEF Forget
<1>2. /\ pass' \in {"off", "jobs", "nodes", "scan", "destroy", "build"}
      /\ toBuild' \subseteq Jobs
      /\ toDestroy' \subseteq Names /\ toResize' \subseteq Names /\ used' \subseteq Names
      /\ toRead' \subseteq Names /\ asleep' \subseteq Scripts
  BY Zenon DEF Forget
<1>. QED
  BY <1>1, <1>2, Zenon DEF PassTypeOK

(* The steps of the pass that start no script. *)
PassOnly ==
    \/ PassStart \/ ReadJobs \/ ListNodes \/ AgeOne \/ NodeGone \/ JudgeOne \/ ReadFolders
    \/ ResizeRaises \/ NothingToResize \/ SkipOne \/ RefuseOne \/ PassEnd

LEMMA BegunIsNat ==
  ASSUME ScriptsTypeOK, NEW c
  PROVE  Begun(c) \in Nat
<1> DEFINE since == {j \in RunningOn(c) : ranAt[j] # c}
<1>1. since \subseteq Jobs
  BY DEF RunningOn
<1>2. IsFiniteSet(since)
  BY <1>1, FiniteAssumption, FS_Subset
<1> HIDE DEF since
<1>3. SumFunctionOnSet(JobSize, since) \in Nat
  BY <1>1, <1>2, SumRecursion DEF Natural
<1>. QED
  BY <1>3 DEF Begun, since

LEMMA AgeOneTypeOK ==
  ASSUME PassTypeOK, ScriptsTypeOK, AgeOne
  PROVE  PassTypeOK'
<1>1. PICK c \in toRead :
         /\ toRead' = toRead \ {c}
         /\ \E begun \in 0 .. (IF Aged(c) THEN Begun(c) ELSE 0) :
              old' = IF c \in folder /\ TypeOf(c) \notin Permanent
                     THEN [old EXCEPT ![c] = stale[c] + begun] ELSE old
  BY Zenon DEF AgeOne
<1>2. PICK begun \in 0 .. (IF Aged(c) THEN Begun(c) ELSE 0) :
         old' = IF c \in folder /\ TypeOf(c) \notin Permanent
                THEN [old EXCEPT ![c] = stale[c] + begun] ELSE old
  BY <1>1, Zenon
<1>3. begun \in Nat /\ c \in Names
  BY <1>1, BegunIsNat DEF PassTypeOK
<1>4. old' \in [Names -> Nat]
  BY <1>2, <1>3 DEF PassTypeOK, ScriptsTypeOK
<1>5. toRead' \subseteq Names
  BY <1>1, Zenon DEF PassTypeOK
<1>. QED
  BY <1>4, <1>5, Zenon DEF AgeOne, PassTypeOK

LEMMA JudgeOneTypeOK ==
  ASSUME PassTypeOK, JudgeOne
  PROVE  PassTypeOK'
<1>1. PICK c \in Names :
         /\ old' = [old EXCEPT ![c] = 0]
         /\ toDestroy' = IF Whole(c) THEN toDestroy \union {c} ELSE toDestroy
         /\ toResize' = IF Whole(c) THEN toResize ELSE toResize \union {c}
  BY Zenon DEF JudgeOne
<1>2. old' \in [Names -> Nat]
  BY <1>1, SMT DEF PassTypeOK
<1>3. toDestroy' \subseteq Names /\ toResize' \subseteq Names
  BY <1>1, Zenon DEF PassTypeOK
<1>. QED
  BY <1>2, <1>3, Zenon DEF JudgeOne, PassTypeOK

LEMMA PassOnlyTypeOK ==
  ASSUME PassTypeOK, ScriptsTypeOK, PassOnly
  PROVE  PassTypeOK'
<1>1. CASE PassStart
  BY <1>1, Zenon DEF PassStart, scanVars, PassTypeOK
<1>2. CASE ReadJobs
  BY <1>2, Zenon DEF ReadJobs, scanVars, PassTypeOK
<1>3. CASE ListNodes
  BY <1>3, Zenon DEF ListNodes, PassTypeOK, ScriptsTypeOK
<1>4. CASE ReadFolders
  <2>1. seen' \in [Names -> Nat]
    BY <1>4 DEF ReadFolders, PassTypeOK, ScriptsTypeOK
  <2>2. toBuild' \subseteq Jobs
    BY <1>4, Zenon DEF ReadFolders, PassTypeOK
  <2>3. ranAt' \in [Jobs -> Names \union {NoName}]
    BY <1>4, SMT DEF ReadFolders
  <2>. QED
    BY <1>4, <2>1, <2>2, <2>3, Zenon DEF ReadFolders, PassTypeOK, ScriptsTypeOK
<1>5. CASE NodeGone
  BY <1>5, ForgetTypeOK DEF NodeGone
<1>6. CASE ResizeRaises
  BY <1>6, ForgetTypeOK DEF ResizeRaises
<1>7. CASE NothingToResize
  BY <1>7, Zenon DEF NothingToResize, scanVars, PassTypeOK
<1>8. CASE SkipOne
  BY <1>8, Zenon DEF SkipOne, scanVars, PassTypeOK
<1>9. CASE RefuseOne
  <2>1. PICK j \in toBuild, i \in 1 .. MaxIndex :
           used' = used \union {<<JobType[j], i>>} /\ toBuild' = toBuild \ {j}
    BY <1>9, Zenon DEF RefuseOne
  <2>2. <<JobType[j], i>> \in Names
    BY <2>1 DEF PassTypeOK, Names
  <2>. QED
    BY <1>9, <2>1, <2>2, Zenon DEF RefuseOne, scanVars, PassTypeOK
<1>10. CASE PassEnd
  BY <1>10, ForgetTypeOK DEF PassEnd
<1>. QED
  BY <1>1, <1>2, <1>3, <1>4, <1>5, <1>6, <1>7, <1>8, <1>9, <1>10, AgeOneTypeOK, JudgeOneTypeOK
     DEF PassOnly

LEMMA PassOnlyKeeps ==
  ASSUME PassOnly
  PROVE  UNCHANGED scriptVars /\ UNCHANGED <<unsafe, boundVars>>
<1>1. CASE PassStart \/ ReadJobs \/ ListNodes \/ AgeOne \/ NodeGone \/ JudgeOne
  BY <1>1, Zenon DEF PassStart, ReadJobs, ListNodes, AgeOne, NodeGone, JudgeOne, boundVars
<1>2. CASE ReadFolders \/ ResizeRaises \/ NothingToResize \/ SkipOne \/ RefuseOne \/ PassEnd
  BY <1>2, Zenon DEF ReadFolders, ResizeRaises, NothingToResize, SkipOne, RefuseOne, PassEnd,
                     boundVars
<1>. QED
  BY <1>1, <1>2 DEF PassOnly

(* What a script's step leaves of the pass. *)
LEMMA ScriptStepParts ==
  ASSUME NEW s \in Scripts, ScriptStep(s)
  PROVE  /\ Does(s)
         /\ UNCHANGED <<lock, pass, toBuild, toDestroy, toResize, used, seen, toRead, old, ranAt,
                        unsafe, crashes, cleanups>>
         /\ asleep' \subseteq asleep
         /\ GraceOver(s) \/ FailOver(s) \/ asleep' = asleep
<1>1. CASE SleepOver(s)
  BY <1>1, Zenon DEF ScriptStep, SleepOver, Does, boundVars
<1>2. CASE ~SleepOver(s)
  BY <1>2, Zenon DEF ScriptStep, Does, boundVars
<1>. QED
  BY <1>1, <1>2

(* TypeOK is inductive. *)
LEMMA NextTypeOK ==
  ASSUME TypeOK, [Next]_vars
  PROVE  TypeOK'
<1> USE DEF TypeOK
<1> DEFINE Same == UNCHANGED scriptVars
<1>1. Same => ScriptsTypeOK'
  BY DEF scriptVars, fileVars, cloudVars, slurmVars, jobVars, ScriptsTypeOK
<1>2. UNCHANGED passVars => PassTypeOK'
  BY Zenon DEF passVars, scanVars, PassTypeOK
<1>3. CASE PassOnly
  <2>1. Same /\ UNCHANGED <<unsafe, boundVars>>
    BY <1>3, PassOnlyKeeps
  <2>2. PassTypeOK'
    BY <1>3, PassOnlyTypeOK
  <2>. QED
    BY <1>1, <2>1, <2>2, Zenon DEF boundVars
<1>4. CASE DeleteOne
  <2>1. PICK c \in toDestroy, s \in Scripts :
           toDestroy' = toDestroy \ {c} /\ Spawn(s, "d_start", c, 0)
    BY <1>4, Zenon DEF DeleteOne
  <2>2. script' \in [Scripts -> ScriptRec]
    BY <2>1, SpawnTypeOK DEF ScriptsTypeOK, PassTypeOK
  <2>3. ScriptsTypeOK'
    BY <1>4, <2>2, Zenon DEF DeleteOne, ScriptsTypeOK, fileVars, cloudVars, slurmVars, jobVars
  <2>4. PassTypeOK'
    BY <1>4, <2>1, Zenon DEF DeleteOne, PassTypeOK, scanVars
  <2>. QED
    BY <1>4, <2>3, <2>4, Zenon DEF DeleteOne, boundVars
<1>5. CASE BuildOne
  <2>1. PICK j \in toBuild, i \in 1 .. MaxIndex :
           LET c == <<JobType[j], i>> IN
           /\ used' = used \union {c}
           /\ seen' = [seen EXCEPT ![c] = @ + JobSize[j]]
           /\ toBuild' = toBuild \ {j}
           /\ \E s \in Scripts : Spawn(s, "c_start", c, JobSize[j])
    BY <1>5, Zenon DEF BuildOne
  <2>2. <<JobType[j], i>> \in Names /\ JobSize[j] \in Nat
    BY <2>1 DEF PassTypeOK, Names
  <2>3. script' \in [Scripts -> ScriptRec]
    BY <2>1, <2>2, SpawnTypeOK DEF ScriptsTypeOK
  <2>4. ScriptsTypeOK'
    BY <1>5, <2>3, Zenon DEF BuildOne, ScriptsTypeOK, fileVars, cloudVars, slurmVars, jobVars
  <2>5. seen' \in [Names -> Nat]
    BY <2>1, <2>2 DEF PassTypeOK
  <2>6. PassTypeOK'
    BY <1>5, <2>1, <2>2, <2>5, Zenon DEF BuildOne, PassTypeOK, scanVars
  <2>. QED
    BY <1>5, <2>4, <2>6, Zenon DEF BuildOne, boundVars
<1>6. CASE PassCrash
  <2>1. PassTypeOK'
    BY <1>6, ForgetTypeOK DEF PassCrash, PassTypeOK
  <2>2. ScriptsTypeOK'
    BY <1>1, <1>6 DEF PassCrash
  <2>3. crashes' \in 0 .. MaxCrashes
    BY <1>6, SMT DEF PassCrash
  <2>. QED
    BY <1>6, <2>1, <2>2, <2>3, Zenon DEF PassCrash
<1>7. CASE \E s \in Scripts : ScriptStep(s)
  <2>1. PICK s \in Scripts : ScriptStep(s)
    BY <1>7
  <2>2. ScriptsTypeOK'
    BY <2>1, ScriptStepTypeOK, ScriptStepParts, Zenon
  <2>3. PassTypeOK'
    BY <2>1, ScriptStepParts, Zenon DEF PassTypeOK
  <2>. QED
    BY <2>1, <2>2, <2>3, ScriptStepParts, Zenon
<1>8. CASE \E j \in Jobs : JobStep(j)
  <2>1. PICK j \in Jobs : JobStep(j)
    BY <1>8
  <2>2. CASE JobStart(j)
    <3>1. PICK c \in Names : at' = [at EXCEPT ![j] = c] /\ \E left \in 0 .. stale[c] :
                                stale' = [stale EXCEPT ![c] = left]
      BY <2>2, Zenon DEF JobStart, OfType
    <3>2. stale' \in [Names -> Nat]
      BY <3>1 DEF ScriptsTypeOK
    <3>3. job' \in [Jobs -> {"new", "pending", "running", "done", "killed"}]
      BY <2>2 DEF JobStart, ScriptsTypeOK
    <3>4. at' \in [Jobs -> Names \union {NoName}]
      BY <3>1 DEF ScriptsTypeOK
    <3>5. ScriptsTypeOK'
      BY <2>2, <3>2, <3>3, <3>4, Zenon DEF JobStart, ScriptsTypeOK, fileVars
    <3>. QED
      BY <1>2, <2>2, <3>5, Zenon DEF JobStart, boundVars
  <2>3. CASE JobSubmit(j) \/ JobFinish(j) \/ JobCancel(j)
    <3>1. job' \in [Jobs -> {"new", "pending", "running", "done", "killed"}]
      BY <2>3 DEF JobSubmit, JobFinish, JobCancel, ScriptsTypeOK
    <3>2. at' \in [Jobs -> Names \union {NoName}]
      BY <2>3 DEF JobSubmit, JobFinish, JobCancel, ScriptsTypeOK
    <3>3. ScriptsTypeOK'
      BY <2>3, <3>1, <3>2, Zenon DEF JobSubmit, JobFinish, JobCancel, ScriptsTypeOK, fileVars,
                                     cloudVars, slurmVars
    <3>. QED
      BY <1>2, <2>3, <3>3, Zenon DEF JobSubmit, JobFinish, JobCancel, boundVars
  <2>. QED
    BY <2>1, <2>2, <2>3 DEF JobStep
<1>9. CASE \E c \in Names : Age(c)
  <2>1. PICK c \in Names : Age(c)
    BY <1>9
  <2>2. stale' \in [Names -> Nat]
    BY <2>1 DEF Age, ScriptsTypeOK
  <2>3. ScriptsTypeOK'
    BY <2>1, <2>2, Zenon DEF Age, ScriptsTypeOK, fileVars, jobVars
  <2>. QED
    BY <1>2, <2>1, <2>3, Zenon DEF Age, boundVars
<1>10. CASE DailyCleanup
  <2>1. script' \in [Scripts -> ScriptRec] /\ building' \in [Names -> Nat]
    BY <1>10, AwayIsScript DEF DailyCleanup, ScriptsTypeOK
  <2>2. ScriptsTypeOK'
    BY <1>10, <2>1, Zenon DEF DailyCleanup, ScriptsTypeOK, cloudVars, slurmVars, jobVars
  <2>3. cleanups' \in 0 .. MaxCleanups
    BY <1>10, SMT DEF DailyCleanup
  <2>. QED
    BY <1>2, <1>10, <2>2, <2>3, Zenon DEF DailyCleanup
<1>11. CASE UNCHANGED vars
  BY <1>1, <1>2, <1>11, Zenon DEF vars, boundVars
<1>. QED
  BY <1>3, <1>4, <1>5, <1>6, <1>7, <1>8, <1>9, <1>10, <1>11, Zenon DEF Next, PassStep, PassOnly

(* Whatever interleaves, every variable keeps its type: no stale count,    *)
(* node count or availability-domain counter goes below zero, and the      *)
(* scripts at work always have the name of a cluster.                      *)
THEOREM TypeCorrect == Spec => []TypeOK
  BY InitTypeOK, NextTypeOK, PTL DEF Spec
-----------------------------------------------------------------------------
(* How many clusters there are of a type *)

LEMMA NamesFinite == IsFiniteSet(Names)
<1>1. IsFiniteSet(1 .. MaxIndex)
  BY FS_Interval
<1>. QED
  BY <1>1, FS_Product DEF Names

LEMMA OfTypeFinite ==
  ASSUME NEW S \in SUBSET Names, NEW t
  PROVE  IsFiniteSet(OfType(S, t)) /\ Cardinality(OfType(S, t)) \in Nat
<1>1. OfType(S, t) \in SUBSET Names
  BY DEF OfType
<1>. QED
  BY <1>1, NamesFinite, FS_Subset, FS_CardinalityType

LEMMA OfTypeMono ==
  ASSUME NEW S \in SUBSET Names, NEW R \in SUBSET S, NEW t
  PROVE  Cardinality(OfType(R, t)) <= Cardinality(OfType(S, t))
<1>1. OfType(R, t) \in SUBSET OfType(S, t)
  BY DEF OfType
<1>. QED
  BY <1>1, OfTypeFinite, FS_Subset

LEMMA OfTypeAdd ==
  ASSUME NEW S \in SUBSET Names, NEW c \in Names, NEW t
  PROVE  Cardinality(OfType(S \union {c}, t))
           <= Cardinality(OfType(S, t)) + (IF TypeOf(c) = t THEN 1 ELSE 0)
<1>1. CASE TypeOf(c) = t
  <2>1. OfType(S \union {c}, t) = OfType(S, t) \union {c}
    BY <1>1 DEF OfType
  <2>2. IsFiniteSet(OfType(S, t)) /\ Cardinality(OfType(S, t)) \in Nat
    BY OfTypeFinite
  <2>3. Cardinality(OfType(S, t) \union {c}) =
          IF c \in OfType(S, t) THEN Cardinality(OfType(S, t)) ELSE Cardinality(OfType(S, t)) + 1
    BY <2>2, FS_AddElement, Zenon
  <2>4. Cardinality(OfType(S, t) \union {c}) <= Cardinality(OfType(S, t)) + 1
    <3> DEFINE n == Cardinality(OfType(S, t))
               m == Cardinality(OfType(S, t) \union {c})
    <3>1. n \in Nat /\ (m = n \/ m = n + 1)
      BY <2>2, <2>3, Zenon
    <3> HIDE DEF n, m
    <3>2. m <= n + 1
      BY <3>1
    <3>. QED
      BY <3>2 DEF n, m
  <2>. QED
    BY <1>1, <2>1, <2>4, Zenon
<1>2. CASE TypeOf(c) # t
  <2>1. OfType(S \union {c}, t) = OfType(S, t)
    BY <1>2 DEF OfType
  <2>. QED
    BY <1>2, <2>1, OfTypeFinite
<1>. QED
  BY <1>1, <1>2

-----------------------------------------------------------------------------
(* The claims on names: folders, and scripts about to make one *)

LEMMA StartingNames == Starting \in SUBSET Names
  BY DEF Starting

(* No step of a script claims a name that was not claimed before. *)
LEMMA ScriptStepClaims ==
  ASSUME TypeOK, NEW s \in Scripts, Does(s)
  PROVE  Starting' \subseteq Starting /\ folder' \union Starting' \subseteq folder \union Starting
<1>1. /\ script \in [Scripts -> ScriptRec] /\ folder \subseteq Names
      /\ script[s].pc # "idle" => script[s].name \in Names
  BY ScriptFields DEF TypeOK, ScriptsTypeOK
<1> DEFINE Kept == \A r \in Scripts : script'[r].pc = "c_start"
                      => script[r].pc = "c_start" /\ script'[r].name = script[r].name
<1>2. Kept => Starting' \subseteq Starting
  BY DEF Starting, At
<1>3. CASE CreateStart(s)
  <2>1. Kept
    BY <1>1, <1>3 DEF CreateStart
  <2>2. script[s].name \in Starting
    BY <1>1, <1>3 DEF CreateStart, Starting, At
  <2>3. folder' = folder \union {script[s].name}
    BY <1>3 DEF CreateStart
  <2>. QED
    BY <1>2, <2>1, <2>2, <2>3
<1>4. CASE ApplyLaunch(s) \/ ApplyConfigure(s) \/ ApplyDone(s) \/ ApplyFail(s) \/ CreateRetry(s)
           \/ Cleanup(s) \/ Destroy(s)
  <2>1. Kept
    <3>1. PICK pc \in ScriptPCs \ {"c_start"} : Goto(s, pc)
      BY <1>4 DEF ApplyLaunch, ApplyConfigure, ApplyDone, ApplyFail, CreateRetry, Cleanup,
                  Destroy, ScriptPCs, CreatePCs, ApplyPCs, DestroyPCs
    <3>. QED
      BY <1>1, <3>1 DEF Goto
  <2>2. folder' = folder
    BY <1>4, Zenon DEF ApplyLaunch, ApplyConfigure, ApplyDone, ApplyFail, CreateRetry, Cleanup,
                       Destroy, fileVars
  <2>. QED
    BY <1>2, <2>1, <2>2
<1>5. CASE GraceOver(s) \/ FailOver(s) \/ DeleteStart(s) \/ DestroyGiveUp(s)
  <2>1. Kept
    <3>1. CASE End(s)
      BY <1>1, <3>1 DEF End, Idle
    <3>2. CASE FailOver(s)
      BY <1>1, <3>2 DEF FailOver
    <3>3. CASE script' = [script EXCEPT ![s].pc = "cleanup", ![s].here = TRUE]
      BY <1>1, <3>3
    <3>. QED
      BY <1>5, <3>1, <3>2, <3>3, Zenon DEF GraceOver, DeleteStart, DestroyGiveUp
  <2>2. folder' = folder
    BY <1>5, Zenon DEF GraceOver, FailOver, DeleteStart, DestroyGiveUp
  <2>. QED
    BY <1>2, <2>1, <2>2
<1>6. CASE Remove(s) \/ CreateNoShape(s)
  <2>1. RemoveFolder(s, script[s].name)
    BY <1>6, Zenon DEF Remove, CreateNoShape
  <2>2. Kept
    BY <1>1, <2>1 DEF RemoveFolder, Idle
  <2>3. folder' \subseteq folder
    BY <2>1 DEF RemoveFolder
  <2>. QED
    BY <1>2, <2>2, <2>3
<1>. QED
  BY <1>3, <1>4, <1>5, <1>6, Zenon DEF Does

(* A script that is started claims the name it is given, if it is to make  *)
(* a folder.                                                               *)
LEMMA SpawnClaims ==
  ASSUME TypeOK, NEW s \in Scripts, NEW pc, NEW c \in Names, NEW n, Spawn(s, pc, c, n)
  PROVE  Starting' \subseteq Starting \union (IF pc = "c_start" THEN {c} ELSE {})
<1>1. /\ script \in [Scripts -> ScriptRec]
      /\ script' = [script EXCEPT ![s] = [pc |-> pc, name |-> c, size |-> n,
                                           ads |-> ADs, here |-> FALSE]]
  BY DEF TypeOK, ScriptsTypeOK, Spawn
<1>2. \A r \in Scripts : script'[r].pc = "c_start" =>
        \/ script[r].pc = "c_start" /\ script'[r].name = script[r].name
        \/ pc = "c_start" /\ script'[r].name = c
  BY <1>1
<1>. QED
  BY <1>2 DEF Starting, At

(* One more used name, of a type that had room for it. *)
LEMMA UsedGrows ==
  ASSUME TypeOK, UsedWithinLimit, NEW j \in toBuild, NEW i \in 1 .. MaxIndex,
         ~TooMany(JobType[j]), used' = used \union {<<JobType[j], i>>}
  PROVE  UsedWithinLimit'
<1> DEFINE c == <<JobType[j], i>>
<1>1. c \in Names /\ used \in SUBSET Names /\ TypeOf(c) = JobType[j] /\ JobType[j] \in Types
  BY DEF Names, TypeOf, TypeOK, PassTypeOK
<1>2. Cardinality(OfType(used, JobType[j])) < MaxCount[JobType[j]]
  <2>1. Cardinality(OfType(used, JobType[j])) \in Nat
    BY <1>1, OfTypeFinite
  <2>. QED
    BY <1>1, <2>1 DEF TooMany
<1> SUFFICES ASSUME NEW t \in Types PROVE Cardinality(OfType(used', t)) <= MaxCount[t]
  BY DEF UsedWithinLimit
<1> DEFINE n == Cardinality(OfType(used, t))
           m == Cardinality(OfType(used', t))
<1>3. m <= n + (IF TypeOf(c) = t THEN 1 ELSE 0)
  BY <1>1, OfTypeAdd
<1>4. n \in Nat /\ m \in Nat
  <2>1. used' \in SUBSET Names
    BY <1>1
  <2>. QED
    BY <1>1, <2>1, OfTypeFinite
<1>5. n <= MaxCount[t] /\ (TypeOf(c) = t => n < MaxCount[t]) /\ MaxCount[t] \in Nat
  BY <1>1, <1>2 DEF UsedWithinLimit
<1> HIDE DEF n, m, c
<1>6. m <= MaxCount[t]
  BY <1>3, <1>4, <1>5
<1>. QED
  BY <1>6 DEF m

(* Names within the used ones are no more than those. *)
LEMMA ClaimsUsedCount ==
  ASSUME TypeOK', UsedWithinLimit', folder' \union Starting' \subseteq used'
  PROVE  ClusterCountWithinLimit'
<1> SUFFICES ASSUME NEW t \in Types
             PROVE  Cardinality(OfType(folder' \union Starting', t)) <= MaxCount[t]
  BY DEF ClusterCountWithinLimit
<1>1. used' \in SUBSET Names /\ folder' \union Starting' \in SUBSET used'
      /\ folder' \union Starting' \in SUBSET Names
  BY DEF TypeOK, PassTypeOK
<1>2. Cardinality(OfType(used', t)) <= MaxCount[t]
  BY DEF UsedWithinLimit
<1>. QED
  BY <1>1, <1>2, OfTypeMono, OfTypeFinite

LEMMA SettledStarting == TypeOK /\ Settled => Starting = {}
  BY DEF Settled, Starting, At

(* Fewer claims and no more used names: the invariant survives. *)
LEMMA FewerClaims ==
  ASSUME TypeOK, TypeOK', CountInv, Starting' \subseteq Starting,
         folder' \union Starting' \subseteq folder \union Starting, pass' = pass, lock' = lock,
         used' = used
  PROVE  CountInv'
<1>1. ClusterCountWithinLimit'
  <2> SUFFICES ASSUME NEW t \in Types
               PROVE  Cardinality(OfType(folder' \union Starting', t)) <= MaxCount[t]
    BY DEF ClusterCountWithinLimit
  <2>1. /\ folder \union Starting \in SUBSET Names
        /\ folder' \union Starting' \in SUBSET (folder \union Starting)
        /\ folder' \union Starting' \in SUBSET Names
    BY StartingNames DEF TypeOK, ScriptsTypeOK
  <2>2. Cardinality(OfType(folder \union Starting, t)) <= MaxCount[t]
    BY DEF CountInv, ClusterCountWithinLimit
  <2>. QED
    BY <2>1, <2>2, OfTypeMono, OfTypeFinite
<1>2. UsedWithinLimit' /\ PassHoldsLock'
  BY Zenon DEF CountInv, UsedWithinLimit, PassHoldsLock
<1>3. UsedCoversClaims'
  BY Zenon DEF CountInv, UsedCoversClaims
<1>4. StartsInBuildOnly'
  BY Zenon DEF CountInv, StartsInBuildOnly
<1>. QED
  BY <1>1, <1>2, <1>3, <1>4 DEF CountInv

LEMMA NoneWithinLimit == \A t \in Types : Cardinality(OfType({}, t)) <= MaxCount[t]
<1>1. \A t : OfType({}, t) = {}
  BY DEF OfType
<1>2. Cardinality({}) = 0
  BY FS_EmptySet
<1>3. \A t \in Types : MaxCount[t] >= 0
  OBVIOUS
<1>. QED
  BY <1>1, <1>2, <1>3

LEMMA InitCountInv == Init => CountInv
<1> SUFFICES ASSUME Init PROVE CountInv
  OBVIOUS
<1>1. folder = {} /\ used = {} /\ pass = "off" /\ script = [s \in Scripts |-> Idle]
  BY DEF Init, ScriptsInit
<1>2. Starting = {}
  BY <1>1 DEF Starting, At, Idle
<1>. QED
  BY <1>1, <1>2, NoneWithinLimit DEF CountInv, ClusterCountWithinLimit, UsedCoversClaims, UsedWithinLimit,
                          PassHoldsLock, StartsInBuildOnly

(* Steps that start no script and make no folder. *)
LEMMA QuietPassStep ==
  ASSUME TypeOK, CountInv, UNCHANGED scriptVars, UsedWithinLimit', UsedCoversClaims',
         PassHoldsLock', StartsInBuildOnly'
  PROVE  CountInv'
<1>1. folder' = folder /\ Starting' = Starting
  BY DEF scriptVars, fileVars, Starting, At
<1>. QED
  BY <1>1 DEF CountInv, ClusterCountWithinLimit

(* CountInv is inductive relative to TypeOK. *)
LEMMA NextCountInv ==
  ASSUME TypeOK, TypeOK', CountInv, [Next]_vars
  PROVE  CountInv'
<1> USE DEF CountInv
<1>1. CASE \E s \in Scripts : ScriptStep(s)
  BY <1>1, ScriptStepParts, ScriptStepClaims, FewerClaims, Zenon
<1>2. CASE (\E j \in Jobs : JobStep(j)) \/ (\E c \in Names : Age(c)) \/ DailyCleanup
           \/ UNCHANGED vars \/ DeleteOne
  <2>1. pass' = pass /\ lock' = lock /\ used' = used
    BY <1>2, Zenon DEF JobStep, JobSubmit, JobStart, JobFinish, JobCancel, Age, DailyCleanup,
                       DeleteOne, passVars, vars
  <2>2. Starting' \subseteq Starting
    <3>1. CASE UNCHANGED script
      BY <3>1 DEF Starting, At
    <3>2. CASE script' = [s \in Scripts |-> [script[s] EXCEPT !.here = FALSE]]
      <4>1. \A s \in Scripts : script[s] \in ScriptRec
        BY DEF TypeOK, ScriptsTypeOK
      <4>2. \A s \in Scripts : script'[s].pc = script[s].pc /\ script'[s].name = script[s].name
        BY <3>2, <4>1 DEF ScriptRec
      <4>. QED
        BY <4>2 DEF Starting, At
    <3>3. CASE DeleteOne
      <4>1. PICK c \in toDestroy, s \in Scripts : Spawn(s, "d_start", c, 0)
        BY <3>3, Zenon DEF DeleteOne
      <4>. QED
        BY <4>1, SpawnClaims DEF TypeOK, PassTypeOK
    <3>. QED
      BY <1>2, <3>1, <3>2, <3>3, Zenon DEF JobStep, JobSubmit, JobStart, JobFinish, JobCancel, Age,
         DailyCleanup, vars, scriptVars
  <2>3. folder' \subseteq folder
    BY <1>2, Zenon DEF JobStep, JobSubmit, JobStart, JobFinish, JobCancel, Age, DailyCleanup,
                       DeleteOne, fileVars, vars, scriptVars
  <2>. QED
    BY <2>1, <2>2, <2>3, FewerClaims
<1>3. CASE PassStart \/ ReadJobs \/ ListNodes \/ AgeOne \/ JudgeOne \/ NothingToResize \/ SkipOne
  <2>1. UNCHANGED scriptVars /\ used' = used
    BY <1>3, Zenon DEF PassStart, ReadJobs, ListNodes, AgeOne, JudgeOne, NothingToResize, SkipOne
  <2>2. folder' = folder /\ Starting' = Starting
    BY <2>1 DEF scriptVars, fileVars, Starting, At
  <2>3. UsedWithinLimit'
    BY <2>1 DEF UsedWithinLimit
  <2>4. /\ pass' \in {"destroy", "build"} => pass \in {"destroy", "build"}
        /\ pass' # "off" => lock'
        /\ pass' \notin {"off", "build"} \/ ~lock' =>
             pass \notin {"off", "build"} \/ ~lock \/ Settled
    BY <1>3, Zenon DEF PassStart, ReadJobs, ListNodes, AgeOne, JudgeOne, NothingToResize, SkipOne,
                       PassHoldsLock
  <2>5. UsedCoversClaims' /\ PassHoldsLock' /\ StartsInBuildOnly'
    BY <2>1, <2>2, <2>4, SettledStarting DEF UsedCoversClaims, PassHoldsLock, StartsInBuildOnly
  <2>. QED
    BY <2>1, <2>3, <2>5, QuietPassStep
<1>4. CASE ReadFolders
  <2>1. UNCHANGED scriptVars /\ used' = folder /\ pass = "scan" /\ pass' = "destroy"
        /\ lock' = lock
    BY <1>4, Zenon DEF ReadFolders
  <2>2. Starting = {} /\ Starting' = {} /\ folder' = folder
    BY <2>1 DEF StartsInBuildOnly, scriptVars, fileVars, Starting, At
  <2>3. folder \union Starting = folder
    BY <2>2
  <2>4. UsedWithinLimit'
    BY <2>1, <2>3 DEF ClusterCountWithinLimit, UsedWithinLimit
  <2>5. UsedCoversClaims' /\ PassHoldsLock' /\ StartsInBuildOnly'
    BY <2>1, <2>2 DEF UsedCoversClaims, PassHoldsLock, StartsInBuildOnly
  <2>. QED
    BY <2>1, <2>4, <2>5, QuietPassStep
<1>5. CASE NodeGone \/ ResizeRaises \/ PassEnd \/ PassCrash
  <2>1. UNCHANGED scriptVars /\ used' = {} /\ pass' = "off"
    BY <1>5, Zenon DEF NodeGone, ResizeRaises, PassEnd, PassCrash, Forget
  <2>2. Starting' = Starting
    BY <2>1 DEF scriptVars, fileVars, Starting, At
  <2>3. UsedWithinLimit'
    BY <2>1, NoneWithinLimit, Zenon DEF UsedWithinLimit
  <2>4. UsedCoversClaims' /\ PassHoldsLock'
    BY <2>1 DEF UsedCoversClaims, PassHoldsLock
  <2>5. lock' \/ Starting = {}
    <3>1. CASE NodeGone \/ ResizeRaises
      BY <3>1 DEF NodeGone, ResizeRaises, StartsInBuildOnly
    <3>2. CASE PassEnd
      BY <3>2, SettledStarting DEF PassEnd
    <3>3. CASE PassCrash
      BY <3>3, Zenon DEF PassCrash, PassHoldsLock
    <3>. QED
      BY <1>5, <3>1, <3>2, <3>3
  <2>6. StartsInBuildOnly'
    BY <2>1, <2>2, <2>5 DEF StartsInBuildOnly
  <2>. QED
    BY <2>1, <2>3, <2>4, <2>6, QuietPassStep
<1>6. CASE RefuseOne
  <2>1. PICK j \in toBuild, i \in 1 .. MaxIndex :
           ~TooMany(JobType[j]) /\ used' = used \union {<<JobType[j], i>>}
    BY <1>6, Zenon DEF RefuseOne
  <2>2. UNCHANGED scriptVars /\ pass' = pass /\ lock' = lock
    BY <1>6, Zenon DEF RefuseOne
  <2>3. folder' = folder /\ Starting' = Starting
    BY <2>2 DEF scriptVars, fileVars, Starting, At
  <2>4. UsedWithinLimit'
    BY <2>1, UsedGrows
  <2>5. UsedCoversClaims' /\ PassHoldsLock' /\ StartsInBuildOnly'
    BY <2>1, <2>2, <2>3 DEF UsedCoversClaims, PassHoldsLock, StartsInBuildOnly
  <2>. QED
    BY <2>2, <2>4, <2>5, QuietPassStep
<1>7. CASE BuildOne
  <2>1. PICK j \in toBuild, i \in 1 .. MaxIndex :
          /\ ~TooMany(JobType[j])
          /\ used' = used \union {<<JobType[j], i>>}
          /\ \E s \in Scripts : Spawn(s, "c_start", <<JobType[j], i>>, JobSize[j])
    BY <1>7, Zenon DEF BuildOne
  <2>2. pass = "build" /\ pass' = pass /\ lock' = lock /\ folder' = folder
    BY <1>7, Zenon DEF BuildOne, fileVars
  <2> DEFINE c == <<JobType[j], i>>
  <2>3. c \in Names
    BY <2>1 DEF Names, TypeOK, PassTypeOK
  <2>4. Starting' \subseteq Starting \union {c}
    BY <2>1, <2>3, SpawnClaims
  <2>5. UsedWithinLimit'
    BY <2>1, UsedGrows
  <2>6. folder' \union Starting' \subseteq used'
    BY <2>1, <2>2, <2>4 DEF UsedCoversClaims
  <2>7. ClusterCountWithinLimit'
    BY <2>5, <2>6, ClaimsUsedCount
  <2>8. UsedCoversClaims' /\ PassHoldsLock' /\ StartsInBuildOnly'
    BY <2>2, <2>6 DEF UsedCoversClaims, PassHoldsLock, StartsInBuildOnly
  <2>. QED
    BY <2>5, <2>7, <2>8
<1>. QED
  BY <1>1, <1>2, <1>3, <1>4, <1>5, <1>6, <1>7, Zenon DEF Next, PassStep

(* What the names a pass believes taken cover, whichever pass is killed at *)
(* whatever moment.                                                        *)
THEOREM CountInvariant == Spec => []CountInv
<1>1. Init => TypeOK /\ CountInv
  BY InitTypeOK, InitCountInv
<1>2. (TypeOK /\ CountInv) /\ [Next]_vars => (TypeOK /\ CountInv)'
  BY NextTypeOK, NextCountInv
<1>. QED
  BY <1>1, <1>2, PTL DEF Spec

(* No overlap of passes, builds, deletions, crashes, cleanups and failures *)
(* makes more clusters of a type than max_cluster_count allows.            *)
THEOREM ClusterCount == Spec => []ClusterCountWithinLimit
<1>1. CountInv => ClusterCountWithinLimit
  BY DEF CountInv
<1>. QED
  BY <1>1, CountInvariant, PTL

-----------------------------------------------------------------------------
(* The life of a cluster in Autoscaler, for any number of clusters, jobs,  *)
(* scripts, passes, crashes and failures, but without daily cleanups, with *)
(* builds that are over before idle_time is, and until a name is given     *)
(* again under which Slurm still lists nodes: a name is fresh when a       *)
(* cluster is built, nothing of a cluster is left without its folder but   *)
(* nodes whose cleanup has failed, one script at a time takes it down, and *)
(* no job on it is killed that did not start when it was already to go, or *)
(* when a pass was making up its mind.                                     *)

IsCreate(u) == u.pc \in CreatePCs
IsDestroy(u) == u.pc \in DestroyPCs
IsDelete(u) == u.pc = "d_start"

(* A script that works in the cluster's folder. *)
Works(u) == u.pc # "c_start" /\ (IsCreate(u) \/ IsDestroy(u))

(* While a create script works on a cluster, no other script does. *)
OneCreator ==
    \A r, s \in Scripts :
        /\ IsCreate(script[r]) /\ (IsCreate(script[s]) \/ IsDestroy(script[s]) \/ IsDelete(script[s]))
        /\ script[r].name = script[s].name
        => r = s
OneTaker ==
    \A r, s \in Scripts :
        IsDestroy(script[r]) /\ IsDestroy(script[s]) /\ script[r].name = script[s].name => r = s
IdleOnes == \A s \in Scripts : script[s].pc = "idle" => script[s] = Idle
ScriptShape == OneCreator /\ OneTaker /\ IdleOnes

(* The folder is there from a script's first step to its last, and the     *)
(* marker while it is taken down.                                          *)
WorksInFolder == \A s \in Scripts : Works(script[s]) => script[s].name \in folder
Marked == \A s \in Scripts : IsDestroy(script[s]) => script[s].name \in destroying
NewFolder == \A s \in Scripts : script[s].pc = "c_start" => script[s].name \notin folder
Files == WorksInFolder /\ Marked /\ NewFolder

(* Whatever there is of a cluster has a folder, and is gone before it,     *)
(* except nodes that Slurm goes on listing after a failed cleanup.         *)
Rests == \A c \in Names : inst[c] # 0 \/ RunningOn(c) # {} => c \in folder
Emptied ==
    \A s \in Scripts, c \in Names :
        script[s].pc = "remove" /\ script[s].name = c => inst[c] = 0 /\ RunningOn(c) = {}
Listed ==
    \A c \in Names :
        /\ dead[c] = 0
        /\ reg[c] = 0 => stale[c] = 0
        /\ reg[c] # 0 /\ c \notin folder => c \in uncleaned
CleanedUp ==
    \A s \in Scripts, c \in Names :
        script[s].pc \in {"destroy", "remove"} /\ script[s].name = c /\ reg[c] # 0
        => c \in uncleaned

(* A cluster that is being built has no old nodes and is not to go. *)
NotOld ==
    \A s \in Scripts, c \in Names :
        IsCreate(script[s]) /\ script[s].name = c =>
            /\ c \notin toDestroy /\ old[c] = 0
            /\ script[s].pc # "c_start" => stale[c] = 0

(* The pass's lists are empty where it has no use for them. *)
ListDone ==
    /\ pass = "build" => toDestroy = {}
    /\ pass # "scan" => toRead = {} /\ \A c \in Names : old[c] = 0

(* Whoever runs on a cluster that is to go knew it, so to say. *)
DoomedJobs == \A c \in Names : Doomed(c) => RunningOn(c) \subseteq unsafe

Cloud == Rests /\ Emptied /\ Listed /\ CleanedUp
LifeInv == NamesClean /\ ScriptShape /\ Files /\ Cloud /\ NotOld /\ ListDone /\ DoomedJobs

Base == TypeOK /\ CountInv /\ LifeInv

-----------------------------------------------------------------------------
(* Places of scripts *)

LEMMA NoNameIsNone == NoName \notin Names
  BY DEF NoName, Names

LEMMA Places ==
  ASSUME NEW u
  PROVE  /\ IsCreate(u) => ~IsDestroy(u) /\ ~IsDelete(u) /\ u.pc # "idle" /\ u.pc # "remove"
         /\ IsDestroy(u) => ~IsDelete(u) /\ u.pc # "idle"
         /\ IsDelete(u) => u.pc # "idle" /\ u.pc # "remove" /\ ~Works(u)
         /\ u.pc = "c_start" => IsCreate(u) /\ ~Works(u)
         /\ u.pc = "remove" => IsDestroy(u)
         /\ Works(u) => IsCreate(u) \/ IsDestroy(u)
         /\ u.pc = "idle" => ~Works(u)
  BY DEF IsCreate, IsDestroy, IsDelete, Works, CreatePCs, ApplyPCs, DestroyPCs

LEMMA IdlePlace ==
  /\ Idle.pc = "idle" /\ Idle.name = NoName
  /\ ~IsCreate(Idle) /\ ~IsDestroy(Idle) /\ ~IsDelete(Idle) /\ ~Works(Idle)
  /\ Idle.pc # "c_start" /\ Idle.pc # "remove"
  BY DEF Idle, IsCreate, IsDestroy, IsDelete, Works, CreatePCs, ApplyPCs, DestroyPCs

LEMMA ScriptName ==
  ASSUME TypeOK, NEW s \in Scripts, script[s].pc # "idle"
  PROVE  script[s].name \in Names
  BY ScriptFields DEF TypeOK, ScriptsTypeOK

(* What every script but s keeps in a step. *)
Others(s) ==
    \A r \in Scripts \ {s} :
        /\ script'[r].pc = script[r].pc /\ script'[r].name = script[r].name
        /\ script[r].pc = "idle" => script'[r] = script[r]

LEMMA OthersPlaces ==
  ASSUME NEW s \in Scripts, Others(s), NEW r \in Scripts, r # s
  PROVE  /\ script'[r].pc = script[r].pc /\ script'[r].name = script[r].name
         /\ IsCreate(script'[r]) <=> IsCreate(script[r])
         /\ IsDestroy(script'[r]) <=> IsDestroy(script[r])
         /\ IsDelete(script'[r]) <=> IsDelete(script[r])
         /\ Works(script'[r]) <=> Works(script[r])
         /\ script[r].pc = "idle" => script'[r] = script[r]
  BY DEF Others, IsCreate, IsDestroy, IsDelete, Works

-----------------------------------------------------------------------------
(* The shape of the scripts: what each kind of move does to it *)

LEMMA CreateMoves ==
  ASSUME ScriptShape, NEW s \in Scripts, Others(s), IsCreate(script[s]), IsCreate(script'[s]),
         script'[s].name = script[s].name
  PROVE  ScriptShape'
<1>1. \A r \in Scripts : /\ script'[r].name = script[r].name
                         /\ IsCreate(script'[r]) <=> IsCreate(script[r])
                         /\ IsDestroy(script'[r]) => IsDestroy(script[r])
                         /\ IsDelete(script'[r]) => IsDelete(script[r])
  BY OthersPlaces, Places
<1>2. OneCreator' /\ OneTaker'
  BY <1>1 DEF ScriptShape, OneCreator, OneTaker
<1>3. IdleOnes'
  BY OthersPlaces, Places DEF ScriptShape, IdleOnes
<1>. QED
  BY <1>2, <1>3 DEF ScriptShape

LEMMA DestroyMoves ==
  ASSUME ScriptShape, NEW s \in Scripts, Others(s), IsDestroy(script[s]), IsDestroy(script'[s]),
         script'[s].name = script[s].name
  PROVE  ScriptShape'
<1>1. \A r \in Scripts : /\ script'[r].name = script[r].name
                         /\ IsCreate(script'[r]) => IsCreate(script[r])
                         /\ IsDestroy(script'[r]) <=> IsDestroy(script[r])
                         /\ IsDelete(script'[r]) => IsDelete(script[r])
  BY OthersPlaces, Places
<1>2. OneCreator' /\ OneTaker'
  BY <1>1 DEF ScriptShape, OneCreator, OneTaker
<1>3. IdleOnes'
  BY OthersPlaces, Places DEF ScriptShape, IdleOnes
<1>. QED
  BY <1>2, <1>3 DEF ScriptShape

LEMMA EndMoves ==
  ASSUME ScriptShape, NEW s \in Scripts, Others(s), script'[s] = Idle
  PROVE  ScriptShape'
<1>1. ~IsCreate(script'[s]) /\ ~IsDestroy(script'[s]) /\ ~IsDelete(script'[s])
  BY IdlePlace
<1>2. OneCreator' /\ OneTaker'
  BY <1>1, OthersPlaces DEF ScriptShape, OneCreator, OneTaker
<1>3. IdleOnes'
  BY OthersPlaces DEF ScriptShape, IdleOnes
<1>. QED
  BY <1>2, <1>3 DEF ScriptShape

(* delete_cluster.sh begins: nobody else takes the cluster down, because   *)
(* of the marker, or because the create script that gave up is the one.    *)
LEMMA DeleteMoves ==
  ASSUME ScriptShape, Marked, NEW s \in Scripts, Others(s), IsDestroy(script'[s]),
         script'[s].name = script[s].name,
         \/ IsCreate(script[s])
         \/ IsDelete(script[s]) /\ script[s].name \notin destroying
  PROVE  ScriptShape'
<1>1. ~IsCreate(script'[s]) /\ ~IsDelete(script'[s]) /\ script'[s].pc # "idle"
  BY Places
<1>2. \A r \in Scripts : r # s /\ IsCreate(script[r]) => script[r].name # script[s].name
  BY DEF ScriptShape, OneCreator
<1>3. \A r \in Scripts : r # s /\ IsDestroy(script[r]) => script[r].name # script[s].name
  BY DEF ScriptShape, OneCreator, Marked
<1>4. OneCreator'
  <2>1. SUFFICES ASSUME NEW q \in Scripts, NEW r \in Scripts, IsCreate(script'[q]),
                        IsCreate(script'[r]) \/ IsDestroy(script'[r]) \/ IsDelete(script'[r]),
                        script'[q].name = script'[r].name
                 PROVE  q = r
    BY DEF OneCreator
  <2>2. q # s
    BY <1>1, <2>1
  <2>. QED
    BY <1>2, <2>1, <2>2, OthersPlaces DEF ScriptShape, OneCreator
<1>5. OneTaker'
  BY <1>3, OthersPlaces DEF ScriptShape, OneTaker
<1>6. IdleOnes'
  BY <1>1, OthersPlaces DEF ScriptShape, IdleOnes
<1>. QED
  BY <1>4, <1>5, <1>6 DEF ScriptShape

-----------------------------------------------------------------------------
(* The rest of the invariant: what each kind of move does to it *)

(* Places of scripts that may take the nodes away. *)
Dooms(u) == u.pc \in ScriptPCs \ {"idle", "grace"}
Less(f, g) == \A c \in Names : g[c] = 0 => f[c] = 0

(* What a pass means to take away, now or after a closer look. *)
ToGo(c) == c \in toDestroy \/ Considered(c)
passSees == <<pass, toDestroy, toRead, old, ranAt, unsafe>>

(* What becomes of the nodes Slurm lists while no cluster is being built.  *)
Shrinks ==
    /\ Less(reg', reg) /\ Less(stale', stale)
    /\ \A c \in Names :
         /\ dead'[c] = 0
         /\ reg'[c] = 0 => stale'[c] = 0
         /\ reg'[c] # 0 /\ c \in uncleaned => c \in uncleaned'

LEMMA DoomStays ==
  ASSUME DoomedJobs, \A c \in Names : ToGo(c)' => ToGo(c), unsafe \subseteq unsafe',
         \A r \in Scripts : Dooms(script'[r]) =>
                              Dooms(script[r]) /\ script'[r].name = script[r].name,
         \A c \in Names : RunningOn(c)' \subseteq RunningOn(c)
  PROVE  DoomedJobs'
<1>1. \A c \in Names : At(c, ScriptPCs \ {"idle", "grace"})' => At(c, ScriptPCs \ {"idle", "grace"})
  BY DEF At, Dooms
<1>2. \A c \in Names : Doomed(c)' => Doomed(c)
  BY <1>1, Zenon DEF Doomed, ToGo
<1>. QED
  BY <1>2, Zenon DEF DoomedJobs

LEMMA OthersDoom ==
  ASSUME NEW s \in Scripts, Others(s), Dooms(script'[s]) =>
                              Dooms(script[s]) /\ script'[s].name = script[s].name
  PROVE  \A r \in Scripts : Dooms(script'[r]) =>
                              Dooms(script[r]) /\ script'[r].name = script[r].name
  BY DEF Others, Dooms

LEMMA SameRunning ==
  ASSUME UNCHANGED jobVars
  PROVE  \A c : RunningOn(c)' = RunningOn(c)
  BY DEF jobVars, RunningOn

LEMMA SameToGo ==
  ASSUME UNCHANGED passSees
  PROVE  /\ \A c : ToGo(c)' <=> ToGo(c)
         /\ ListDone => ListDone'
         /\ toDestroy' = toDestroy /\ old' = old /\ unsafe' = unsafe
  BY DEF passSees, ToGo, Considered, Ran, ListDone

LEMMA LifeParts ==
  ASSUME Base
  PROVE  /\ NamesClean /\ OneCreator /\ OneTaker /\ ScriptShape
         /\ WorksInFolder /\ Marked /\ NewFolder
         /\ Rests /\ Emptied /\ Listed /\ CleanedUp
         /\ NotOld /\ ListDone /\ DoomedJobs
  BY DEF Base, LifeInv, ScriptShape, Files, Cloud

(* Slurm's nodes when none are added and no script or folder is. *)
LEMMA ShrinkKeeps ==
  ASSUME Listed, CleanedUp, Shrinks,
         \A c \in Names : reg'[c] # 0 /\ c \in folder /\ c \notin folder' => c \in uncleaned,
         \A r \in Scripts : \A c \in Names :
             script'[r].pc \in {"destroy", "remove"} /\ script'[r].name = c =>
                 \/ script[r].pc \in {"destroy", "remove"} /\ script[r].name = c
                 \/ reg'[c] # 0 => c \in uncleaned'
  PROVE  Listed' /\ CleanedUp'
<1>1. ASSUME NEW c \in Names
      PROVE  /\ dead'[c] = 0
             /\ reg'[c] = 0 => stale'[c] = 0
             /\ reg'[c] # 0 /\ c \notin folder' => c \in uncleaned'
  BY DEF Listed, Shrinks, Less
<1>2. ASSUME NEW r \in Scripts, NEW c \in Names, script'[r].pc \in {"destroy", "remove"},
             script'[r].name = c, reg'[c] # 0
      PROVE  c \in uncleaned'
  BY <1>2 DEF CleanedUp, Shrinks, Less
<1>. QED
  BY <1>1, <1>2 DEF Listed, CleanedUp

LEMMA CreateKeeps ==
  ASSUME Base, haunted' = {}, NEW s \in Scripts, Others(s), IsCreate(script[s]),
         script[s].pc # "grace",
         IsCreate(script'[s]), script'[s].pc # "c_start", script'[s].name = script[s].name,
         folder' = folder \union {script[s].name},
         UNCHANGED <<destroying, stale, uncleaned>>, UNCHANGED jobVars, UNCHANGED passSees,
         \A c \in Names : c = script[s].name => stale[c] = 0,
         \A c \in Names : dead'[c] = 0,
         \A c \in Names : c # script[s].name => inst'[c] = inst[c] /\ reg'[c] = reg[c]
  PROVE  LifeInv'
<1>. DEFINE c == script[s].name
<1>1. c \in Names
  BY Places, ScriptName DEF Base
<1>2. /\ OneCreator /\ WorksInFolder /\ Marked /\ NewFolder /\ Rests /\ Emptied /\ NotOld
      /\ ListDone /\ DoomedJobs /\ ScriptShape /\ Listed /\ CleanedUp
  BY LifeParts
<1>3. ScriptShape'
  BY <1>2, CreateMoves
<1>4. \A r \in Scripts : r # s /\ (IsCreate(script[r]) \/ IsDestroy(script[r])) => script[r].name # c
  BY <1>2 DEF OneCreator
<1>5. WorksInFolder'
  BY <1>2, OthersPlaces DEF WorksInFolder
<1>6. Marked'
  BY <1>2, OthersPlaces, Places DEF Marked
<1>7. NewFolder'
  BY <1>2, <1>4, OthersPlaces, Places DEF NewFolder
<1>8. \A d : RunningOn(d)' = RunningOn(d)
  BY SameRunning
<1>9. Rests'
  <2>1. SUFFICES ASSUME NEW d \in Names, inst'[d] # 0 \/ RunningOn(d)' # {} PROVE d \in folder'
    BY DEF Rests
  <2>2. CASE d # c
    <3>1. inst[d] # 0 \/ RunningOn(d) # {}
      BY <1>8, <2>1, <2>2, Zenon
    <3>. QED
      BY <1>2, <3>1 DEF Rests
  <2>. QED
    BY <2>2
<1>10. Emptied'
  <2>1. SUFFICES ASSUME NEW r \in Scripts, NEW d \in Names, script'[r].pc = "remove",
                        script'[r].name = d
                 PROVE  inst'[d] = 0 /\ RunningOn(d)' = {}
    BY DEF Emptied
  <2>2. r # s /\ script[r].pc = "remove" /\ script[r].name = d
    BY <2>1, OthersPlaces, Places
  <2>3. d # c
    BY <1>4, <2>2, Places
  <2>. QED
    BY <1>2, <1>8, <2>2, <2>3 DEF Emptied
<1>11. Listed'
  <2>1. SUFFICES ASSUME NEW d \in Names
                 PROVE  /\ dead'[d] = 0
                        /\ reg'[d] = 0 => stale'[d] = 0
                        /\ reg'[d] # 0 /\ d \notin folder' => d \in uncleaned'
    BY DEF Listed
  <2>2. CASE d = c
    BY <2>2
  <2>3. CASE d # c
    BY <1>2, <2>3 DEF Listed
  <2>. QED
    BY <2>2, <2>3
<1>12. CleanedUp'
  <2>1. SUFFICES ASSUME NEW r \in Scripts, NEW d \in Names,
                        script'[r].pc \in {"destroy", "remove"}, script'[r].name = d, reg'[d] # 0
                 PROVE  d \in uncleaned'
    BY DEF CleanedUp
  <2>2. IsDestroy(script'[r])
    BY <2>1 DEF IsDestroy, DestroyPCs
  <2>3. r # s
    BY <2>2, Places
  <2>4. IsDestroy(script[r]) /\ script[r].pc = script'[r].pc /\ script[r].name = d
    BY <2>1, <2>2, <2>3, OthersPlaces
  <2>5. reg[d] # 0
    BY <1>4, <2>1, <2>3, <2>4
  <2>. QED
    BY <1>2, <2>1, <2>4, <2>5 DEF CleanedUp
<1>13. NotOld'
  BY <1>2, OthersPlaces, SameToGo DEF NotOld
<1>14. ListDone'
  BY <1>2, SameToGo
<1>15. DoomedJobs'
  <2>1. Dooms(script[s])
    BY DEF Dooms, IsCreate, ScriptPCs, CreatePCs, ApplyPCs
  <2>2. \A r \in Scripts : Dooms(script'[r]) => Dooms(script[r]) /\ script'[r].name = script[r].name
    BY <2>1, OthersDoom
  <2>. QED
    BY <1>2, <1>8, <2>2, SameToGo, DoomStays
<1>. QED
  BY <1>3, <1>5, <1>6, <1>7, <1>9, <1>10, <1>11, <1>12, <1>13, <1>14, <1>15
     DEF LifeInv, Files, Cloud, NamesClean

(* A script ends; Slurm may have lost some nodes. *)
LEMMA EndKeeps ==
  ASSUME Base, haunted' = {}, NEW s \in Scripts, Others(s), script'[s] = Idle, folder' = folder,
         \/ destroying' = destroying
         \/ /\ IsCreate(script[s]) \/ IsDestroy(script[s])
            /\ destroying' = destroying \ {script[s].name},
         inst' = inst, Shrinks, UNCHANGED jobVars, UNCHANGED passSees
  PROVE  LifeInv'
<1>1. /\ OneCreator /\ OneTaker /\ WorksInFolder /\ Marked /\ NewFolder /\ Rests /\ Emptied
      /\ NotOld /\ ListDone /\ DoomedJobs /\ ScriptShape /\ Listed /\ CleanedUp
  BY LifeParts
<1>2. ScriptShape'
  BY <1>1, EndMoves
<1>3. WorksInFolder'
  BY <1>1, OthersPlaces, IdlePlace DEF WorksInFolder
<1>4. Marked'
  <2>1. SUFFICES ASSUME NEW r \in Scripts, IsDestroy(script'[r]) PROVE script'[r].name \in destroying'
    BY DEF Marked
  <2>2. r # s /\ IsDestroy(script[r]) /\ script'[r].name = script[r].name
    BY <2>1, OthersPlaces, IdlePlace
  <2>3. script[r].name \in destroying
    BY <1>1, <2>2 DEF Marked
  <2>4. IsDestroy(script[s]) => script[s].name # script[r].name
    BY <1>1, <2>2 DEF OneTaker
  <2>5. IsCreate(script[s]) => script[s].name # script[r].name
    BY <1>1, <2>2 DEF OneCreator
  <2>. QED
    BY <2>2, <2>3, <2>4, <2>5
<1>5. NewFolder'
  BY <1>1, OthersPlaces, IdlePlace DEF NewFolder
<1>6. \A d : RunningOn(d)' = RunningOn(d)
  BY SameRunning
<1>7. Rests'
  BY <1>1, <1>6 DEF Rests
<1>8. Emptied'
  <2>1. SUFFICES ASSUME NEW r \in Scripts, NEW c \in Names,
                        script'[r].pc = "remove", script'[r].name = c
                 PROVE  inst'[c] = 0 /\ RunningOn(c)' = {}
    BY DEF Emptied
  <2>2. r # s
    BY <2>1, IdlePlace
  <2>3. script[r].pc = "remove" /\ script[r].name = c
    BY <2>1, <2>2 DEF Others
  <2>. QED
    BY <1>1, <1>6, <2>3 DEF Emptied
<1>9. Listed' /\ CleanedUp'
  <2>1. ASSUME NEW r \in Scripts, NEW c \in Names, script'[r].pc \in {"destroy", "remove"},
               script'[r].name = c
        PROVE  script[r].pc \in {"destroy", "remove"} /\ script[r].name = c
    <3>1. r # s
      BY <2>1, IdlePlace
    <3>. QED
      BY <2>1, <3>1 DEF Others
  <2>. QED
    BY <1>1, <2>1, ShrinkKeeps
<1>10. NotOld'
  <2>1. SUFFICES ASSUME NEW r \in Scripts, NEW c \in Names, IsCreate(script'[r]),
                        script'[r].name = c
                 PROVE  /\ c \notin toDestroy' /\ old'[c] = 0
                        /\ script'[r].pc # "c_start" => stale'[c] = 0
    BY DEF NotOld
  <2>2. r # s /\ IsCreate(script[r]) /\ script[r].name = c /\ script'[r].pc = script[r].pc
    BY <2>1, OthersPlaces, IdlePlace
  <2>. QED
    BY <1>1, <2>2, SameToGo DEF NotOld, Shrinks, Less
<1>11. ListDone'
  BY <1>1, SameToGo
<1>12. DoomedJobs'
  <2>1. ~Dooms(script'[s])
    BY IdlePlace DEF Dooms
  <2>2. \A r \in Scripts : Dooms(script'[r]) => Dooms(script[r]) /\ script'[r].name = script[r].name
    BY <2>1, OthersDoom
  <2>. QED
    BY <1>1, <1>6, <2>2, SameToGo, DoomStays
<1>. QED
  BY <1>2, <1>3, <1>4, <1>5, <1>7, <1>8, <1>9, <1>10, <1>11, <1>12
     DEF LifeInv, Files, Cloud, NamesClean

(* A script goes on, or begins, taking a cluster down. *)
LEMMA DestroyKeeps ==
  ASSUME Base, haunted' = {}, NEW s \in Scripts, Others(s), ScriptShape',
         Dooms(script[s]), IsDestroy(script'[s]), script'[s].name = script[s].name,
         script[s].name \in folder,
         folder' = folder, destroying' = destroying \union {script[s].name},
         Less(inst', inst), Shrinks,
         \A c \in Names : RunningOn(c)' \subseteq RunningOn(c),
         script'[s].pc = "remove" =>
             \A c \in Names : c = script[s].name => inst'[c] = 0 /\ RunningOn(c)' = {},
         script'[s].pc \in {"destroy", "remove"} =>
             \/ script[s].pc = "destroy"
             \/ \A c \in Names : c = script[s].name /\ reg'[c] # 0 => c \in uncleaned',
         UNCHANGED passSees
  PROVE  LifeInv'
<1>1. /\ WorksInFolder /\ Marked /\ NewFolder /\ Rests /\ Emptied
      /\ NotOld /\ ListDone /\ DoomedJobs /\ Listed /\ CleanedUp
  BY LifeParts
<1>2. ~IsCreate(script'[s]) /\ script'[s].pc # "c_start"
  BY Places
<1>3. WorksInFolder'
  BY <1>1, OthersPlaces DEF WorksInFolder
<1>4. Marked'
  BY <1>1, OthersPlaces DEF Marked
<1>5. NewFolder'
  BY <1>1, <1>2, OthersPlaces DEF NewFolder
<1>6. Rests'
  <2>1. SUFFICES ASSUME NEW d \in Names, inst'[d] # 0 \/ RunningOn(d)' # {} PROVE d \in folder'
    BY DEF Rests
  <2>2. inst[d] # 0 \/ RunningOn(d) # {}
    BY <2>1 DEF Less
  <2>. QED
    BY <1>1, <2>2 DEF Rests
<1>7. Emptied'
  <2>1. SUFFICES ASSUME NEW r \in Scripts, NEW d \in Names, script'[r].pc = "remove",
                        script'[r].name = d
                 PROVE  inst'[d] = 0 /\ RunningOn(d)' = {}
    BY DEF Emptied
  <2>2. CASE r # s
    <3>1. script[r].pc = "remove" /\ script[r].name = d
      BY <2>1, <2>2, OthersPlaces
    <3>2. inst[d] = 0 /\ RunningOn(d) = {}
      BY <1>1, <3>1 DEF Emptied
    <3>3. RunningOn(d)' = {}
      BY <3>2
    <3>. QED
      BY <3>2, <3>3 DEF Less
  <2>. QED
    BY <2>1, <2>2
<1>8. Listed' /\ CleanedUp'
  <2>1. ASSUME NEW r \in Scripts, NEW c \in Names, script'[r].pc \in {"destroy", "remove"},
               script'[r].name = c
        PROVE  \/ script[r].pc \in {"destroy", "remove"} /\ script[r].name = c
               \/ reg'[c] # 0 => c \in uncleaned'
    <3>1. CASE r # s
      BY <2>1, <3>1 DEF Others
    <3>2. CASE r = s
      BY <2>1, <3>2
    <3>. QED
      BY <3>1, <3>2
  <2>. QED
    BY <1>1, <2>1, ShrinkKeeps
<1>9. NotOld'
  <2>1. SUFFICES ASSUME NEW r \in Scripts, NEW c \in Names, IsCreate(script'[r]),
                        script'[r].name = c
                 PROVE  /\ c \notin toDestroy' /\ old'[c] = 0
                        /\ script'[r].pc # "c_start" => stale'[c] = 0
    BY DEF NotOld
  <2>2. r # s /\ IsCreate(script[r]) /\ script[r].name = c /\ script'[r].pc = script[r].pc
    BY <1>2, <2>1, OthersPlaces
  <2>. QED
    BY <1>1, <2>2, SameToGo DEF NotOld, Shrinks, Less
<1>10. ListDone'
  BY <1>1, SameToGo
<1>11. DoomedJobs'
  <2>1. \A r \in Scripts : Dooms(script'[r]) => Dooms(script[r]) /\ script'[r].name = script[r].name
    BY OthersDoom
  <2>. QED
    BY <1>1, <2>1, SameToGo, DoomStays
<1>. QED
  BY <1>3, <1>4, <1>5, <1>6, <1>7, <1>8, <1>9, <1>10, <1>11 DEF LifeInv, Files, Cloud, NamesClean

(* The last of a cluster goes, and with it the script that took it down. *)
LEMMA RemoveKeeps ==
  ASSUME Base, haunted' = {}, NEW s \in Scripts, Others(s), script[s].pc = "remove",
         script'[s] = Idle,
         folder' = folder \ {script[s].name}, destroying' = destroying \ {script[s].name},
         inst' = inst, Shrinks, UNCHANGED jobVars, UNCHANGED passSees
  PROVE  LifeInv'
<1>. DEFINE c == script[s].name
<1>1. /\ OneCreator /\ OneTaker /\ WorksInFolder /\ Marked /\ NewFolder /\ Rests /\ Emptied
      /\ NotOld /\ ListDone /\ DoomedJobs /\ ScriptShape /\ Listed /\ CleanedUp
  BY LifeParts
<1>2. c \in Names /\ IsDestroy(script[s])
  BY Places, ScriptName DEF Base
<1>3. \A r \in Scripts : r # s /\ (IsCreate(script[r]) \/ IsDestroy(script[r])) => script[r].name # c
  BY <1>1, <1>2, Places DEF OneCreator, OneTaker
<1>4. ScriptShape'
  BY <1>1, EndMoves
<1>5. WorksInFolder'
  BY <1>1, <1>3, OthersPlaces, IdlePlace, Places DEF WorksInFolder
<1>6. Marked'
  BY <1>1, <1>3, OthersPlaces, IdlePlace DEF Marked
<1>7. NewFolder'
  BY <1>1, OthersPlaces, IdlePlace DEF NewFolder
<1>8. \A d : RunningOn(d)' = RunningOn(d)
  BY SameRunning
<1>9. inst[c] = 0 /\ RunningOn(c) = {}
  BY <1>1, <1>2 DEF Emptied
<1>10. Rests'
  <2>1. SUFFICES ASSUME NEW d \in Names, inst'[d] # 0 \/ RunningOn(d)' # {} PROVE d \in folder'
    BY DEF Rests
  <2>2. inst[d] # 0 \/ RunningOn(d) # {}
    BY <1>8, <2>1
  <2>3. d # c
    BY <1>9, <2>2
  <2>4. d \in folder
    BY <1>1, <2>2 DEF Rests
  <2>. QED
    BY <2>3, <2>4
<1>11. Emptied'
  <2>1. SUFFICES ASSUME NEW r \in Scripts, NEW d \in Names,
                        script'[r].pc = "remove", script'[r].name = d
                 PROVE  inst'[d] = 0 /\ RunningOn(d)' = {}
    BY DEF Emptied
  <2>2. r # s
    BY <2>1, IdlePlace
  <2>3. script[r].pc = "remove" /\ script[r].name = d
    BY <2>1, <2>2, OthersPlaces
  <2>4. inst[d] = 0 /\ RunningOn(d) = {}
    BY <1>1, <2>3 DEF Emptied
  <2>. QED
    BY <1>8, <2>4
<1>12. Listed' /\ CleanedUp'
  <2>1. ASSUME NEW r \in Scripts, NEW d \in Names, script'[r].pc \in {"destroy", "remove"},
               script'[r].name = d
        PROVE  script[r].pc \in {"destroy", "remove"} /\ script[r].name = d
    <3>1. r # s
      BY <2>1, IdlePlace
    <3>. QED
      BY <2>1, <3>1 DEF Others
  <2>2. \A d \in Names : reg'[d] # 0 /\ d \in folder /\ d \notin folder' => d \in uncleaned
    BY <1>1 DEF CleanedUp, Shrinks, Less
  <2>. QED
    BY <1>1, <2>1, <2>2, ShrinkKeeps
<1>13. NotOld'
  <2>1. SUFFICES ASSUME NEW r \in Scripts, NEW d \in Names, IsCreate(script'[r]),
                        script'[r].name = d
                 PROVE  /\ d \notin toDestroy' /\ old'[d] = 0
                        /\ script'[r].pc # "c_start" => stale'[d] = 0
    BY DEF NotOld
  <2>2. r # s /\ IsCreate(script[r]) /\ script[r].name = d /\ script'[r].pc = script[r].pc
    BY <2>1, OthersPlaces, IdlePlace
  <2>. QED
    BY <1>1, <2>2, SameToGo DEF NotOld, Shrinks, Less
<1>14. ListDone'
  BY <1>1, SameToGo
<1>15. DoomedJobs'
  <2>1. ~Dooms(script'[s])
    BY IdlePlace DEF Dooms
  <2>2. \A r \in Scripts : Dooms(script'[r]) => Dooms(script[r]) /\ script'[r].name = script[r].name
    BY <2>1, OthersDoom
  <2>. QED
    BY <1>1, <1>8, <2>2, SameToGo, DoomStays
<1>. QED
  BY <1>4, <1>5, <1>6, <1>7, <1>10, <1>11, <1>12, <1>13, <1>14, <1>15
     DEF LifeInv, Files, Cloud, NamesClean

-----------------------------------------------------------------------------
(* The steps of the scripts *)

LEMMA GotoMove ==
  ASSUME TypeOK, NEW s \in Scripts, NEW pc, Goto(s, pc)
  PROVE  Others(s) /\ script'[s].pc = pc /\ script'[s].name = script[s].name
<1>1. script \in [Scripts -> ScriptRec] /\ script[s] \in ScriptRec
  BY DEF TypeOK, ScriptsTypeOK
<1>. QED
  BY <1>1 DEF Goto, Others, ScriptRec

LEMMA EndMove ==
  ASSUME TypeOK, NEW s \in Scripts, End(s)
  PROVE  Others(s) /\ script'[s] = Idle
<1>1. script \in [Scripts -> ScriptRec]
  BY DEF TypeOK, ScriptsTypeOK
<1>. QED
  BY <1>1 DEF End, Others

LEMMA SlurmSame ==
  ASSUME Listed, UNCHANGED slurmVars
  PROVE  Shrinks
  BY DEF slurmVars, Listed, Shrinks, Less

LEMMA UnlistShrinks ==
  ASSUME TypeOK, Listed, NEW c \in Names, NEW left \in 0 .. reg[c], Unlist(c, left),
         \A d \in Names : d \in uncleaned /\ (d # c \/ left # 0) => d \in uncleaned'
  PROVE  Shrinks /\ reg'[c] = left
<1>1. /\ reg \in [Names -> Nat] /\ stale \in [Names -> Nat] /\ dead \in [Names -> Nat]
      /\ left \in Nat /\ left <= reg[c]
  BY DEF TypeOK, ScriptsTypeOK
<1>2. reg'[c] = left /\ \A d \in Names : d # c => reg'[d] = reg[d]
  BY <1>1 DEF Unlist
<1>3. PICK few \in 0 .. stale[c] :
         /\ few <= left /\ stale[c] + left <= few + reg[c]
         /\ stale' = [stale EXCEPT ![c] = few]
  BY DEF Unlist
<1>4. few \in Nat /\ few <= stale[c] /\ few <= left /\ stale'[c] = few
      /\ \A d \in Names : d # c => stale'[d] = stale[d]
  BY <1>1, <1>3
<1>5. \A d \in Names : dead'[d] = 0
  BY <1>1 DEF Unlist, Listed
<1>6. ASSUME NEW d \in Names
      PROVE  /\ reg[d] = 0 => reg'[d] = 0
             /\ stale[d] = 0 => stale'[d] = 0
             /\ reg'[d] = 0 => stale'[d] = 0
             /\ reg'[d] # 0 /\ d \in uncleaned => d \in uncleaned'
  <2>1. CASE d = c
    <3>1. reg[c] \in Nat /\ stale[c] \in Nat
      BY <1>1
    <3>. QED
      BY <1>1, <1>2, <1>4, <2>1, <3>1
  <2>2. CASE d # c
    BY <1>2, <1>4, <2>2 DEF Listed
  <2>. QED
    BY <2>1, <2>2
<1>. QED
  BY <1>2, <1>5, <1>6 DEF Shrinks, Less

LEMMA UnreachableShrinks ==
  ASSUME TypeOK, Listed, NEW c \in Names, RemoveUnreachable(c)
  PROVE  Shrinks
<1>1. PICK left \in 0 .. reg[c] :
         Unlist(c, left) /\ uncleaned' = IF left = 0 THEN uncleaned \ {c} ELSE uncleaned
  BY Zenon DEF RemoveUnreachable
<1>. QED
  BY <1>1, UnlistShrinks

(* A script whose folder goes ends; others have no directory any more. *)
LEMMA RemoveMove ==
  ASSUME TypeOK, ScriptShape, NEW s \in Scripts, script[s].name \in Names,
         RemoveFolder(s, script[s].name)
  PROVE  Others(s) /\ script'[s] = Idle
<1>1. script \in [Scripts -> ScriptRec]
  BY DEF TypeOK, ScriptsTypeOK
<1>2. script'[s] = Idle
  BY DEF RemoveFolder
<1>3. ASSUME NEW r \in Scripts \ {s}
      PROVE  /\ script'[r].pc = script[r].pc /\ script'[r].name = script[r].name
             /\ script[r].pc = "idle" => script'[r] = script[r]
  <2>1. /\ script'[r] = script[r] \/ script'[r] = [script[r] EXCEPT !.here = FALSE]
        /\ script[r].name # script[s].name => script'[r] = script[r]
    BY DEF RemoveFolder
  <2>2. script[r] \in ScriptRec
    BY <1>1
  <2>3. script[r].pc = "idle" => script[r].name # script[s].name
    BY NoNameIsNone, IdlePlace DEF ScriptShape, IdleOnes
  <2>. QED
    BY <2>1, <2>2, <2>3 DEF ScriptRec
<1>. QED
  BY <1>2, <1>3 DEF Others

LEMMA CreateStepLife ==
  ASSUME Base, haunted' = {}, NEW s \in Scripts, UNCHANGED passSees,
         \/ CreateStart(s) \/ ApplyLaunch(s) \/ ApplyConfigure(s) \/ ApplyDone(s) \/ ApplyFail(s)
         \/ FailOver(s) \/ CreateRetry(s)
  PROVE  LifeInv'
<1>1. TypeOK /\ script \in [Scripts -> ScriptRec] /\ script[s] \in ScriptRec
  BY DEF Base, TypeOK, ScriptsTypeOK
<1>2. IsCreate(script[s]) /\ script[s].pc # "grace"
  BY Zenon DEF CreateStart, ApplyLaunch, ApplyConfigure, ApplyDone, ApplyFail, FailOver, CreateRetry,
         IsCreate, CreatePCs, ApplyPCs
<1>3. /\ Others(s) /\ script'[s].pc \in CreatePCs \ {"c_start"} /\ script'[s].name = script[s].name
  <2>1. CASE CreateStart(s)
    BY <1>1, <2>1 DEF CreateStart, Others, ScriptRec, CreatePCs, ApplyPCs
  <2>2. CASE FailOver(s)
    BY <1>1, <2>2 DEF FailOver, Others, ScriptRec, CreatePCs, ApplyPCs
  <2>3. CASE ApplyLaunch(s) \/ ApplyConfigure(s) \/ ApplyDone(s) \/ ApplyFail(s) \/ CreateRetry(s)
    <3>1. PICK pc \in CreatePCs \ {"c_start"} : Goto(s, pc)
      BY <2>3 DEF ApplyLaunch, ApplyConfigure, ApplyDone, ApplyFail, CreateRetry, CreatePCs,
                  ApplyPCs
    <3>. QED
      BY <1>1, <3>1, GotoMove
  <2>. QED
    BY <2>1, <2>2, <2>3
<1>4. IsCreate(script'[s]) /\ script'[s].pc # "c_start"
  BY <1>3 DEF IsCreate
<1>5. folder' = folder \union {script[s].name}
  <2>1. CASE CreateStart(s)
    BY <2>1 DEF CreateStart
  <2>2. CASE ~CreateStart(s)
    <3>1. folder' = folder /\ script[s].pc # "c_start"
      BY <2>2, Zenon DEF ApplyLaunch, ApplyConfigure, ApplyDone, ApplyFail, FailOver,
                         CreateRetry, fileVars, ApplyPCs
    <3>2. script[s].name \in folder
      BY <1>2, <3>1, LifeParts DEF WorksInFolder, Works
    <3>. QED
      BY <3>1, <3>2
  <2>. QED
    BY <2>1, <2>2
<1>6. UNCHANGED <<destroying, stale, uncleaned>> /\ UNCHANGED jobVars
  BY Zenon DEF CreateStart, ApplyLaunch, ApplyConfigure, ApplyDone, ApplyFail, FailOver,
               CreateRetry, fileVars, cloudVars, slurmVars, jobVars
<1>7. \A c \in Names : c # script[s].name => inst'[c] = inst[c] /\ reg'[c] = reg[c]
  <2>1. inst \in [Names -> Nat] /\ reg \in [Names -> Nat]
    BY <1>1 DEF TypeOK, ScriptsTypeOK
  <2>. QED
    BY <2>1 DEF CreateStart, ApplyLaunch, ApplyConfigure, ApplyDone, ApplyFail, FailOver,
                CreateRetry, cloudVars, slurmVars
<1>8. script[s].name \in Names
  BY <1>1, <1>2, Places, ScriptName
<1>9. \A c \in Names : dead[c] = 0 /\ (reg[c] = 0 => stale[c] = 0)
  BY LifeParts DEF Listed
<1>10. CreateStart(s) => reg[script[s].name] = 0
  <2>1. SUFFICES ASSUME CreateStart(s), reg[script[s].name] # 0 PROVE FALSE
    OBVIOUS
  <2>2. reg[script[s].name] > 0
    BY <1>1, <1>8, <2>1 DEF TypeOK, ScriptsTypeOK
  <2>3. haunted' = haunted \union {script[s].name}
    BY <2>1, <2>2 DEF CreateStart
  <2>. QED
    BY <2>3
<1>11. \A c \in Names : c = script[s].name => stale[c] = 0
  <2>1. CASE CreateStart(s)
    BY <1>8, <1>9, <1>10, <2>1
  <2>2. CASE ~CreateStart(s)
    <3>1. script[s].pc # "c_start"
      BY <2>2, Zenon DEF ApplyLaunch, ApplyConfigure, ApplyDone, ApplyFail, FailOver,
                         CreateRetry, ApplyPCs
    <3>. QED
      BY <1>2, <1>8, <3>1, LifeParts DEF NotOld
  <2>. QED
    BY <2>1, <2>2
<1>12. \A c \in Names : dead'[c] = 0
  <2>1. CASE CreateStart(s)
    <3>1. dead' = [dead EXCEPT ![script[s].name] = reg[script[s].name]] /\ dead \in [Names -> Nat]
      BY <1>1, <2>1 DEF CreateStart, TypeOK, ScriptsTypeOK
    <3>. QED
      BY <1>8, <1>9, <1>10, <2>1, <3>1
  <2>2. CASE ~CreateStart(s)
    <3>1. dead' = dead
      BY <2>2, Zenon DEF ApplyLaunch, ApplyConfigure, ApplyDone, ApplyFail, FailOver,
                         CreateRetry, cloudVars, slurmVars
    <3>. QED
      BY <1>9, <3>1
  <2>. QED
    BY <2>1, <2>2
<1>. QED
  BY <1>2, <1>3, <1>4, <1>5, <1>6, <1>7, <1>11, <1>12, CreateKeeps

LEMMA EndStepLife ==
  ASSUME Base, haunted' = {}, NEW s \in Scripts, UNCHANGED passSees,
         \/ GraceOver(s)
         \/ DestroyGiveUp(s)
         \/ CreateNoShape(s)
         \/ DeleteStart(s) /\ End(s)
  PROVE  LifeInv'
<1>1. TypeOK /\ Listed /\ ScriptShape /\ NewFolder
  BY LifeParts DEF Base
<1>2. script[s].name \in Names
  <2>1. script[s].pc # "idle"
    BY Zenon DEF GraceOver, DestroyGiveUp, CreateNoShape, DeleteStart
  <2>. QED
    BY <1>1, <2>1, ScriptName
<1>3. Others(s) /\ script'[s] = Idle
  <2>1. CASE CreateNoShape(s)
    BY <1>1, <1>2, <2>1, RemoveMove DEF CreateNoShape
  <2>2. CASE ~CreateNoShape(s)
    <3>1. End(s)
      BY <2>2, Zenon DEF GraceOver, DestroyGiveUp
    <3>. QED
      BY <1>1, <3>1, EndMove
  <2>. QED
    BY <2>1, <2>2
<1>4. inst' = inst /\ UNCHANGED jobVars
  BY Zenon DEF GraceOver, DestroyGiveUp, CreateNoShape, DeleteStart, fileVars, cloudVars
<1>5. folder' = folder
  <2>1. CASE CreateNoShape(s)
    <3>1. script[s].name \notin folder
      BY <1>1, <2>1 DEF NewFolder, CreateNoShape
    <3>2. folder' = folder \ {script[s].name}
      BY <2>1, Zenon DEF CreateNoShape, RemoveFolder
    <3>. QED
      BY <3>1, <3>2
  <2>2. CASE ~CreateNoShape(s)
    BY <2>2, Zenon DEF GraceOver, DestroyGiveUp, DeleteStart, fileVars
  <2>. QED
    BY <2>1, <2>2
<1>6. ~(script' = [script EXCEPT ![s].pc = "cleanup", ![s].here = TRUE])
  <2>1. script'[s].pc # "cleanup"
    BY <1>3, IdlePlace
  <2>2. script \in [Scripts -> ScriptRec]
    BY <1>1 DEF TypeOK, ScriptsTypeOK
  <2>3. script[s] \in ScriptRec
    BY <2>2
  <2>. QED
    BY <2>1, <2>2, <2>3 DEF ScriptRec
<1>7. \/ destroying' = destroying
      \/ /\ IsCreate(script[s]) \/ IsDestroy(script[s])
         /\ destroying' = destroying \ {script[s].name}
  <2>1. CASE GraceOver(s)
    BY <2>1, Zenon DEF GraceOver
  <2>2. CASE DestroyGiveUp(s)
    <3>1. IsDestroy(script[s])
      BY <2>2 DEF DestroyGiveUp, IsDestroy, DestroyPCs
    <3>. QED
      BY <2>2, <3>1, Zenon DEF DestroyGiveUp
  <2>3. CASE CreateNoShape(s)
    <3>1. IsCreate(script[s])
      BY <2>3 DEF CreateNoShape, IsCreate, CreatePCs
    <3>. QED
      BY <2>3, <3>1, Zenon DEF CreateNoShape, RemoveFolder
  <2>4. CASE DeleteStart(s)
    BY <1>6, <2>4, Zenon DEF DeleteStart
  <2>. QED
    BY <2>1, <2>2, <2>3, <2>4
<1>8. Shrinks
  <2>1. CASE GraceOver(s) \/ DestroyGiveUp(s) \/ CreateNoShape(s)
    <3>1. UNCHANGED slurmVars
      BY <2>1, Zenon DEF GraceOver, DestroyGiveUp, CreateNoShape, cloudVars
    <3>. QED
      BY <1>1, <3>1, SlurmSame
  <2>2. CASE DeleteStart(s)
    <3>1. UNCHANGED slurmVars \/ RemoveUnreachable(script[s].name)
      BY <1>6, <2>2, Zenon DEF DeleteStart
    <3>. QED
      BY <1>1, <1>2, <3>1, SlurmSame, UnreachableShrinks
  <2>. QED
    BY <2>1, <2>2
<1>. QED
  BY <1>3, <1>4, <1>5, <1>7, <1>8, EndKeeps

LEMMA DeleteStepLife ==
  ASSUME Base, haunted' = {}, NEW s \in Scripts, UNCHANGED passSees,
         DeleteStart(s), ~End(s)
  PROVE  LifeInv'
<1>1. TypeOK /\ script \in [Scripts -> ScriptRec] /\ script[s] \in ScriptRec
  BY DEF Base, TypeOK, ScriptsTypeOK
<1>2. /\ script[s].pc \in {"d_start", "force"}
      /\ script[s].name \in folder /\ (script[s].name \notin destroying \/ script[s].pc = "force")
      /\ destroying' = destroying \union {script[s].name}
      /\ script' = [script EXCEPT ![s].pc = "cleanup", ![s].here = TRUE]
      /\ UNCHANGED slurmVars
      /\ UNCHANGED <<folder, inst, jobVars>>
  BY Zenon DEF DeleteStart
<1>3. Others(s) /\ script'[s].pc = "cleanup" /\ script'[s].name = script[s].name
  BY <1>1, <1>2 DEF Others, ScriptRec
<1>4. IsDestroy(script'[s]) /\ Dooms(script[s])
  BY <1>2, <1>3 DEF IsDestroy, Dooms, DestroyPCs, ScriptPCs, CreatePCs
<1>5. IsCreate(script[s]) \/ (IsDelete(script[s]) /\ script[s].name \notin destroying)
  BY <1>2 DEF IsCreate, IsDelete, CreatePCs
<1>6. ScriptShape'
  BY <1>3, <1>4, <1>5, LifeParts, DeleteMoves
<1>7. Less(inst', inst) /\ Shrinks
  BY <1>2, LifeParts, SlurmSame DEF Less
<1>8. \A c \in Names : RunningOn(c)' \subseteq RunningOn(c)
  BY <1>2, SameRunning
<1>9. script'[s].pc # "remove" /\ script'[s].pc \notin {"destroy", "remove"}
  BY <1>3
<1>10. folder' = folder
  BY <1>2
<1>. QED
  BY <1>2, <1>3, <1>4, <1>6, <1>7, <1>8, <1>9, <1>10, DestroyKeeps

LEMMA DestroyStepLife ==
  ASSUME Base, haunted' = {}, NEW s \in Scripts, UNCHANGED passSees,
         Cleanup(s) \/ Destroy(s)
  PROVE  LifeInv'
<1>1. /\ TypeOK /\ inst \in [Names -> Nat] /\ reg \in [Names -> Nat] /\ stale \in [Names -> Nat]
      /\ job \in [Jobs -> {"new", "pending", "running", "done", "killed"}]
  BY DEF Base, TypeOK, ScriptsTypeOK
<1>2. IsDestroy(script[s]) /\ Dooms(script[s]) /\ script[s].pc # "remove"
  BY DEF Cleanup, Destroy, IsDestroy, Dooms, DestroyPCs, ScriptPCs, CreatePCs
<1>3. PICK pc \in {"destroy", "remove"} : Goto(s, pc) /\ (Cleanup(s) => pc = "destroy")
  <2>1. CASE Cleanup(s)
    BY <2>1 DEF Cleanup
  <2>2. CASE ~Cleanup(s)
    BY <2>2 DEF Destroy
  <2>. QED
    BY <2>1, <2>2
<1>4. Others(s) /\ script'[s].pc = pc /\ script'[s].name = script[s].name
  BY <1>1, <1>3, GotoMove
<1>5. IsDestroy(script'[s])
  BY <1>4 DEF IsDestroy, DestroyPCs
<1>6. ScriptShape'
  BY <1>2, <1>4, <1>5, LifeParts, DestroyMoves
<1>7. script[s].name \in Names /\ script[s].name \in folder /\ script[s].name \in destroying
  <2>1. script[s].name \in Names
    BY <1>1, <1>2, Places, ScriptName
  <2>2. Works(script[s])
    BY <1>2, Places DEF Works
  <2>. QED
    BY <1>2, <2>1, <2>2, LifeParts DEF WorksInFolder, Marked
<1>8. folder' = folder /\ destroying' = destroying \union {script[s].name}
  <2>1. folder' = folder /\ destroying' = destroying
    BY Zenon DEF Cleanup, Destroy, fileVars
  <2>. QED
    BY <1>7, <2>1
<1>9. Less(inst', inst)
  BY <1>1, <1>7 DEF Less, Cleanup, Destroy
<1>10. CASE Cleanup(s)
  <2> DEFINE c == script[s].name
  <2>3. Listed /\ dead[c] = 0 /\ c \in Names /\ reg[c] \in Nat
    BY <1>1, <1>7, LifeParts DEF Listed
  <2>4. Shrinks /\ (reg'[c] # 0 => c \in uncleaned')
    <3>1. CASE Unlist(c, dead[c]) /\ uncleaned' = uncleaned
      BY <1>1, <2>3, <3>1, UnlistShrinks
    <3>2. CASE uncleaned' = uncleaned \union {c} /\ \E left \in dead[c] .. reg[c] : Unlist(c, left)
      <4>1. PICK left \in 0 .. reg[c] : Unlist(c, left)
        BY <2>3, <3>2
      <4>. QED
        BY <1>1, <2>3, <3>2, <4>1, UnlistShrinks
    <3>. QED
      BY <1>10, <3>1, <3>2 DEF Cleanup
  <2>1. \A d \in Names : RunningOn(d)' \subseteq RunningOn(d)
    BY <1>10, SameRunning DEF Cleanup
  <2>2. script'[s].pc # "remove"
    BY <1>3, <1>4, <1>10
  <2>5. \A d \in Names : d = script[s].name /\ reg'[d] # 0 => d \in uncleaned'
    BY <2>4
  <2>6. Shrinks
    BY <2>4
  <2> HIDE DEF c
  <2>. QED
    BY <1>2, <1>4, <1>5, <1>6, <1>7, <1>8, <1>9, <2>1, <2>2, <2>5, <2>6, DestroyKeeps
<1>11. CASE Destroy(s)
  <2>1. \A c \in Names : /\ RunningOn(c)' \subseteq RunningOn(c)
                         /\ c = script[s].name => RunningOn(c)' = {}
    <3>1. SUFFICES ASSUME NEW c \in Names, NEW j \in Jobs, job'[j] = "running", at'[j] = c
                   PROVE  job[j] = "running" /\ at[j] = c /\ c # script[s].name
      BY DEF RunningOn
    <3>2. j \notin RunningOn(script[s].name) /\ job[j] = "running" /\ at'[j] = at[j]
      BY <1>11, <3>1 DEF Destroy
    <3>. QED
      BY <3>1, <3>2 DEF RunningOn
  <2>2. inst'[script[s].name] = 0
    BY <1>1, <1>7, <1>11 DEF Destroy
  <2>3. script[s].pc = "destroy" /\ UNCHANGED slurmVars
    BY <1>11, Zenon DEF Destroy
  <2>4. Shrinks
    BY <2>3, LifeParts, SlurmSame
  <2>. QED
    BY <1>2, <1>4, <1>5, <1>6, <1>7, <1>8, <1>9, <2>1, <2>2, <2>3, <2>4, DestroyKeeps
<1>. QED
  BY <1>10, <1>11

LEMMA RemoveStepLife ==
  ASSUME Base, haunted' = {}, NEW s \in Scripts, UNCHANGED passSees, Remove(s)
  PROVE  LifeInv'
<1>1. TypeOK /\ Listed /\ ScriptShape /\ script[s].name \in Names
  BY LifeParts, ScriptName DEF Base, Remove
<1>2. RemoveUnreachable(script[s].name) /\ RemoveFolder(s, script[s].name)
  BY Zenon DEF Remove
<1>3. Others(s) /\ script'[s] = Idle
  BY <1>1, <1>2, RemoveMove
<1>4. Shrinks
  BY <1>1, <1>2, UnreachableShrinks
<1>5. /\ script[s].pc = "remove" /\ folder' = folder \ {script[s].name}
      /\ destroying' = destroying \ {script[s].name} /\ inst' = inst /\ UNCHANGED jobVars
  BY Zenon DEF Remove, RemoveFolder
<1>. QED
  BY <1>3, <1>4, <1>5, RemoveKeeps

LEMMA ScriptStepLife ==
  ASSUME Base, haunted' = {}, NEW s \in Scripts, ScriptStep(s)
  PROVE  LifeInv'
<1>1. UNCHANGED passSees /\ Does(s)
  BY ScriptStepParts, Zenon DEF passSees
<1>2. CASE \/ CreateStart(s) \/ ApplyLaunch(s) \/ ApplyConfigure(s) \/ ApplyDone(s)
           \/ ApplyFail(s) \/ FailOver(s) \/ CreateRetry(s)
  BY <1>1, <1>2, CreateStepLife
<1>3. CASE GraceOver(s) \/ DestroyGiveUp(s) \/ CreateNoShape(s)
  BY <1>1, <1>3, EndStepLife
<1>4. CASE DeleteStart(s)
  <2>1. CASE End(s)
    BY <1>1, <1>4, <2>1, EndStepLife
  <2>. QED
    BY <1>1, <1>4, <2>1, DeleteStepLife
<1>5. CASE Cleanup(s) \/ Destroy(s)
  BY <1>1, <1>5, DestroyStepLife
<1>6. CASE Remove(s)
  BY <1>1, <1>6, RemoveStepLife
<1>. QED
  BY <1>1, <1>2, <1>3, <1>4, <1>5, <1>6, Zenon DEF Does

-----------------------------------------------------------------------------
(* The steps of the pass *)

LEMMA PassKeeps ==
  ASSUME Base, UNCHANGED scriptVars, UNCHANGED unsafe, ListDone',
         \A c \in Names : ToGo(c)' => ToGo(c) \/ RunningOn(c) = {},
         \A c \in Names : At(c, CreatePCs) =>
             /\ c \in toDestroy' => c \in toDestroy \/ old[c] # 0
             /\ old'[c] # 0 => old[c] # 0
  PROVE  LifeInv'
<1>1. /\ OneCreator /\ OneTaker /\ IdleOnes /\ WorksInFolder /\ Marked /\ NewFolder /\ Rests
      /\ Emptied /\ Listed /\ CleanedUp /\ NotOld /\ ListDone /\ DoomedJobs /\ haunted = {}
  BY LifeParts DEF ScriptShape, NamesClean
<1>2. /\ folder' = folder /\ destroying' = destroying /\ inst' = inst /\ reg' = reg
      /\ stale' = stale /\ dead' = dead /\ uncleaned' = uncleaned /\ haunted' = haunted
      /\ script' = script /\ job' = job /\ at' = at
  BY DEF scriptVars, fileVars, cloudVars, slurmVars, jobVars
<1>3. \A d : RunningOn(d)' = RunningOn(d)
  BY <1>2 DEF RunningOn
<1>4. ScriptShape'
  BY <1>1, <1>2 DEF ScriptShape, OneCreator, OneTaker, IdleOnes
<1>5. Files'
  BY <1>1, <1>2 DEF Files, WorksInFolder, Marked, NewFolder
<1>6. Cloud' /\ NamesClean'
  BY <1>1, <1>2, <1>3 DEF Cloud, Rests, Emptied, Listed, CleanedUp, NamesClean
<1>7. NotOld'
  <2>1. SUFFICES ASSUME NEW r \in Scripts, NEW c \in Names, IsCreate(script[r]), script[r].name = c
                 PROVE  /\ c \notin toDestroy' /\ old'[c] = 0
                        /\ script[r].pc # "c_start" => stale[c] = 0
    BY <1>2 DEF NotOld
  <2>2. c \notin toDestroy /\ old[c] = 0 /\ (script[r].pc # "c_start" => stale[c] = 0)
    BY <1>1, <2>1 DEF NotOld
  <2>3. At(c, CreatePCs)
    BY <2>1 DEF At, IsCreate
  <2>. QED
    BY <2>2, <2>3
<1>8. DoomedJobs'
  <2>1. SUFFICES ASSUME NEW c \in Names, Doomed(c)' PROVE RunningOn(c) \subseteq unsafe
    BY <1>3 DEF DoomedJobs
  <2>2. ToGo(c)' \/ At(c, ScriptPCs \ {"idle", "grace"})
    BY <1>2, <2>1 DEF Doomed, At, ToGo
  <2>3. Doomed(c) \/ RunningOn(c) = {}
    BY <2>2, Zenon DEF Doomed, ToGo
  <2>. QED
    BY <1>1, <2>3 DEF DoomedJobs
<1>. QED
  BY <1>4, <1>5, <1>6, <1>7, <1>8 DEF LifeInv

(* A create script at work when the pass scans has made its folder. *)
LEMMA ScanLooksAtOld ==
  ASSUME Base, ~SlowBuild, AgeOne
  PROVE  /\ UNCHANGED scriptVars /\ UNCHANGED unsafe /\ toDestroy' = toDestroy /\ pass' = "scan"
         /\ \A c \in Names : Considered(c)' => Considered(c)
         /\ \A c \in Names : At(c, CreatePCs) /\ old'[c] # 0 => old[c] # 0
<1>1. PICK c \in toRead :
         /\ toRead' = toRead \ {c}
         /\ \E begun \in 0 .. (IF Aged(c) THEN Begun(c) ELSE 0) :
              old' = IF c \in folder /\ TypeOf(c) \notin Permanent
                     THEN [old EXCEPT ![c] = stale[c] + begun] ELSE old
  BY Zenon DEF AgeOne
<1>2. PICK begun \in 0 .. (IF Aged(c) THEN Begun(c) ELSE 0) :
         old' = IF c \in folder /\ TypeOf(c) \notin Permanent
                THEN [old EXCEPT ![c] = stale[c] + begun] ELSE old
  BY <1>1, Zenon
<1>3. /\ UNCHANGED scriptVars /\ UNCHANGED unsafe /\ toDestroy' = toDestroy /\ pass = "scan"
      /\ pass' = "scan" /\ ranAt' = ranAt
  BY Zenon DEF AgeOne
<1>4. c \in Names /\ old \in [Names -> Nat]
  BY DEF Base, TypeOK, PassTypeOK
<1>5. \A d \in Names : d # c => old'[d] = old[d]
  BY <1>2, <1>4
<1>6. ASSUME NEW d \in Names, Considered(d)' PROVE Considered(d)
  <2>1. ~Ran(d)
    BY <1>3, <1>6 DEF Considered, Ran
  <2>2. d \in toRead' \/ old'[d] > 0
    BY <1>6, Zenon DEF Considered
  <2>3. d \in toRead \/ old[d] > 0
    BY <1>1, <1>4, <1>5, <2>2
  <2>. QED
    BY <2>1, <2>3, Zenon DEF Considered
<1>7. ASSUME NEW d \in Names, At(d, CreatePCs), old'[d] # 0 PROVE old[d] # 0
  <2>1. CASE d # c
    BY <1>5, <1>7, <2>1
  <2>2. CASE d = c
    <3>1. begun = 0
      BY <1>7, <2>2 DEF Aged
    <3>2. PICK s \in Scripts : script[s].name = c /\ script[s].pc \in CreatePCs
      BY <1>7, <2>2 DEF At
    <3>3. script[s].pc # "c_start"
      BY <1>3, <1>4, <3>2 DEF Base, CountInv, StartsInBuildOnly, Starting, At
    <3>4. stale[c] = 0
      BY <1>4, <3>2, <3>3, LifeParts DEF NotOld, IsCreate
    <3>5. stale[c] + begun = 0
      BY <3>1, <3>4
    <3>. QED
      BY <1>2, <1>4, <1>7, <2>2, <3>5
  <2>. QED
    BY <2>1, <2>2
<1>. QED
  BY <1>3, <1>6, <1>7

LEMMA PassOnlyLife ==
  ASSUME Base, ~SlowBuild, PassOnly \/ PassCrash
  PROVE  LifeInv'
<1>1. UNCHANGED scriptVars /\ UNCHANGED unsafe
  BY PassOnlyKeeps, Zenon DEF PassCrash
<1>2. ListDone
  BY LifeParts
<1>3. CASE PassStart \/ ReadJobs \/ NothingToResize \/ SkipOne \/ RefuseOne
  <2>1. toDestroy' = toDestroy /\ toRead' = toRead /\ old' = old /\ ranAt' = ranAt
    BY <1>3, Zenon DEF PassStart, ReadJobs, NothingToResize, SkipOne, RefuseOne, scanVars
  <2>2. pass # "scan" /\ (pass' = "build" => pass = "build" \/ toDestroy = {})
    BY <1>3 DEF PassStart, ReadJobs, NothingToResize, SkipOne, RefuseOne
  <2>3. ListDone'
    BY <1>2, <2>1, <2>2 DEF ListDone
  <2>4. \A c : ToGo(c)' <=> ToGo(c)
    BY <2>1 DEF ToGo, Considered, Ran
  <2>. QED
    BY <1>1, <2>1, <2>3, <2>4, PassKeeps
<1>4. CASE NodeGone \/ ResizeRaises \/ PassEnd \/ PassCrash
  <2>1. toDestroy' = {} /\ toRead' = {} /\ old' = [c \in Names |-> 0]
    BY <1>4, Zenon DEF NodeGone, ResizeRaises, PassEnd, PassCrash, Forget
  <2>2. \A c \in Names : old'[c] = 0
    BY <2>1
  <2>3. ListDone'
    BY <2>1, <2>2 DEF ListDone
  <2>4. \A c \in Names : ~ToGo(c)'
    BY <2>1, <2>2 DEF ToGo, Considered
  <2>. QED
    BY <1>1, <2>1, <2>2, <2>3, <2>4, PassKeeps
<1>5. CASE ReadFolders
  <2>1. /\ toDestroy' = toDestroy /\ toRead' = toRead /\ old' = old /\ toRead = {}
        /\ pass' = "destroy" /\ \A c \in Names : old[c] = 0
    BY <1>5, Zenon DEF ReadFolders
  <2>2. ListDone'
    BY <2>1 DEF ListDone
  <2>3. \A c \in Names : ToGo(c)' => ToGo(c)
    BY <2>1 DEF ToGo, Considered
  <2>. QED
    BY <1>1, <2>1, <2>2, <2>3, PassKeeps
<1>6. CASE ListNodes
  <2>1. toDestroy' = toDestroy /\ old' = old /\ ranAt' = at /\ pass = "nodes" /\ pass' = "scan"
    BY <1>6, Zenon DEF ListNodes
  <2>2. ListDone'
    BY <2>1 DEF ListDone
  <2>3. ASSUME NEW c \in Names, ToGo(c)' PROVE ToGo(c) \/ RunningOn(c) = {}
    <3>1. CASE c \in toDestroy
      BY <3>1 DEF ToGo
    <3>2. CASE c \notin toDestroy
      <4>1. \A j \in Jobs : at[j] # c
        BY <2>1, <2>3, <3>2 DEF ToGo, Considered, Ran
      <4>. QED
        BY <4>1 DEF RunningOn
    <3>. QED
      BY <3>1, <3>2
  <2>. QED
    BY <1>1, <2>1, <2>2, <2>3, PassKeeps
<1>7. CASE AgeOne
  <2>1. /\ toDestroy' = toDestroy /\ pass' = "scan"
        /\ \A c \in Names : Considered(c)' => Considered(c)
        /\ \A c \in Names : At(c, CreatePCs) /\ old'[c] # 0 => old[c] # 0
    BY <1>7, ScanLooksAtOld
  <2>2. ListDone'
    BY <2>1 DEF ListDone
  <2>3. \A c \in Names : ToGo(c)' => ToGo(c)
    BY <2>1, Zenon DEF ToGo
  <2>. QED
    BY <1>1, <2>1, <2>2, <2>3, PassKeeps
<1>8. CASE JudgeOne
  <2>1. PICK c \in Names :
           /\ old[c] > 0
           /\ old' = [old EXCEPT ![c] = 0]
           /\ toDestroy' = IF Whole(c) THEN toDestroy \union {c} ELSE toDestroy
    BY <1>8, Zenon DEF JudgeOne
  <2>2. pass' = "scan" /\ toRead' = toRead /\ ranAt' = ranAt
    BY <1>8, Zenon DEF JudgeOne
  <2>3. old \in [Names -> Nat]
    BY DEF Base, TypeOK, PassTypeOK
  <2>4. \A d \in Names : old'[d] # 0 => old'[d] = old[d]
    BY <2>1, <2>3
  <2>5. ListDone'
    BY <2>2 DEF ListDone
  <2>6. ASSUME NEW d \in Names, d \in toDestroy' PROVE d \in toDestroy \/ (d = c /\ ~Ran(c))
    BY <2>1, <2>6 DEF Whole
  <2>7. ASSUME NEW d \in Names, ToGo(d)' PROVE ToGo(d)
    <3>1. CASE d \in toDestroy'
      BY <2>1, <2>6, <3>1 DEF ToGo, Considered
    <3>2. CASE Considered(d)'
      <4>1. ~Ran(d)
        BY <2>2, <3>2 DEF Considered, Ran
      <4>2. d \in toRead' \/ old'[d] > 0
        BY <3>2, Zenon DEF Considered
      <4>3. d \in toRead \/ old[d] > 0
        BY <2>2, <2>4, <4>2
      <4>. QED
        BY <4>1, <4>3, Zenon DEF ToGo, Considered
    <3>. QED
      BY <2>7, <3>1, <3>2, Zenon DEF ToGo
  <2>8. \A d \in Names : /\ d \in toDestroy' => d \in toDestroy \/ old[d] # 0
                         /\ old'[d] # 0 => old[d] # 0
    BY <2>1, <2>4, <2>6
  <2>. QED
    BY <1>1, <2>5, <2>7, <2>8, PassKeeps
<1>. QED
  BY <1>3, <1>4, <1>5, <1>6, <1>7, <1>8 DEF PassOnly

LEMMA SpawnMove ==
  ASSUME TypeOK, NEW s \in Scripts, NEW pc, NEW c, NEW n, Spawn(s, pc, c, n)
  PROVE  /\ script[s] = Idle /\ Others(s)
         /\ script'[s].pc = pc /\ script'[s].name = c
<1>1. script \in [Scripts -> ScriptRec]
  BY DEF TypeOK, ScriptsTypeOK
<1>. QED
  BY <1>1 DEF Spawn, Others

(* A script is started on a cluster; what runs there does not matter if it *)
(* was already to go.                                                      *)
LEMMA SpawnKeeps ==
  ASSUME Base, NEW s \in Scripts, NEW pc \in {"c_start", "d_start"}, NEW c \in Names, NEW n,
         Spawn(s, pc, c, n), ListDone', toDestroy' \subseteq toDestroy,
         UNCHANGED <<toRead, old, ranAt>>,
         \A r \in Scripts : IsCreate(script[r]) => script[r].name # c,
         pc = "c_start" =>
            /\ \A r \in Scripts : IsDestroy(script[r]) \/ IsDelete(script[r]) => script[r].name # c
            /\ c \notin folder /\ c \notin toDestroy' /\ old[c] = 0,
         RunningOn(c) \subseteq unsafe,
         UNCHANGED <<fileVars, cloudVars, jobVars, unsafe>>
  PROVE  LifeInv'
<1>1. /\ OneCreator /\ OneTaker /\ IdleOnes /\ WorksInFolder /\ Marked /\ NewFolder /\ Rests
      /\ Emptied /\ Listed /\ CleanedUp /\ NotOld /\ ListDone /\ DoomedJobs /\ haunted = {}
  BY LifeParts DEF ScriptShape, NamesClean
<1>2. /\ folder' = folder /\ destroying' = destroying /\ inst' = inst /\ reg' = reg
      /\ stale' = stale /\ dead' = dead /\ uncleaned' = uncleaned /\ haunted' = haunted
      /\ job' = job /\ at' = at /\ unsafe' = unsafe
  BY DEF fileVars, cloudVars, slurmVars, jobVars
<1>3. script[s] = Idle /\ Others(s) /\ script'[s].pc = pc /\ script'[s].name = c
  BY SpawnMove DEF Base
<1>4. /\ ~IsDestroy(script'[s]) /\ ~Works(script'[s])
      /\ script'[s].pc \notin {"idle", "destroy", "remove"}
      /\ IsCreate(script'[s]) <=> pc = "c_start"
      /\ IsDelete(script'[s]) <=> pc = "d_start"
  BY <1>3 DEF IsCreate, IsDestroy, IsDelete, Works, CreatePCs, ApplyPCs, DestroyPCs
<1>5. \A d : RunningOn(d)' = RunningOn(d)
  BY <1>2 DEF RunningOn
<1>6. OneCreator'
  <2>1. SUFFICES ASSUME NEW q \in Scripts, NEW r \in Scripts, IsCreate(script'[q]),
                        IsCreate(script'[r]) \/ IsDestroy(script'[r]) \/ IsDelete(script'[r]),
                        script'[q].name = script'[r].name, q # r
                 PROVE  FALSE
    BY DEF OneCreator
  <2>2. CASE q # s /\ r # s
    BY <1>1, <1>3, <2>1, <2>2, OthersPlaces DEF OneCreator
  <2>3. CASE r = s
    BY <1>3, <2>1, <2>3, OthersPlaces
  <2>4. CASE q = s
    BY <1>3, <1>4, <2>1, <2>4, OthersPlaces
  <2>. QED
    BY <2>2, <2>3, <2>4
<1>7. OneTaker'
  BY <1>1, <1>3, <1>4, OthersPlaces DEF OneTaker
<1>8. IdleOnes'
  BY <1>1, <1>3, <1>4, OthersPlaces DEF IdleOnes
<1>9. WorksInFolder'
  BY <1>1, <1>2, <1>3, <1>4, OthersPlaces DEF WorksInFolder
<1>10. Marked'
  BY <1>1, <1>2, <1>3, <1>4, OthersPlaces DEF Marked
<1>11. NewFolder'
  BY <1>1, <1>2, <1>3, OthersPlaces DEF NewFolder
<1>12. Rests' /\ Listed' /\ NamesClean'
  BY <1>1, <1>2, <1>5 DEF Rests, Listed, NamesClean
<1>13. \A r \in Scripts : script'[r].pc \in {"destroy", "remove"} =>
                            script[r].pc = script'[r].pc /\ script[r].name = script'[r].name
  BY <1>3, <1>4, OthersPlaces
<1>14. Emptied' /\ CleanedUp'
  <2>1. ASSUME NEW r \in Scripts, NEW d \in Names, script'[r].pc = "remove", script'[r].name = d
        PROVE  inst[d] = 0 /\ RunningOn(d) = {}
    <3>1. script[r].pc = "remove" /\ script[r].name = d
      BY <1>13, <2>1
    <3>. QED
      BY <1>1, <3>1 DEF Emptied
  <2>2. ASSUME NEW r \in Scripts, NEW d \in Names, script'[r].pc \in {"destroy", "remove"},
               script'[r].name = d, reg[d] # 0
        PROVE  d \in uncleaned
    BY <1>1, <1>13, <2>2 DEF CleanedUp
  <2>. QED
    BY <1>2, <1>5, <2>1, <2>2 DEF Emptied, CleanedUp
<1>15. NotOld'
  <2>1. SUFFICES ASSUME NEW r \in Scripts, NEW d \in Names, IsCreate(script'[r]),
                        script'[r].name = d
                 PROVE  /\ d \notin toDestroy' /\ old[d] = 0
                        /\ script'[r].pc # "c_start" => stale[d] = 0
    BY <1>2 DEF NotOld
  <2>2. CASE r # s
    BY <1>1, <1>3, <2>1, <2>2, OthersPlaces DEF NotOld
  <2>3. CASE r = s
    BY <1>3, <1>4, <2>1, <2>3
  <2>. QED
    BY <2>2, <2>3
<1>16. DoomedJobs'
  <2>1. SUFFICES ASSUME NEW d \in Names, Doomed(d)' PROVE RunningOn(d) \subseteq unsafe
    BY <1>2, <1>5 DEF DoomedJobs
  <2>2. ToGo(d)' => ToGo(d)
    BY DEF ToGo, Considered, Ran
  <2>3. At(d, ScriptPCs \ {"idle", "grace"})' => At(d, ScriptPCs \ {"idle", "grace"}) \/ d = c
    BY <1>3, OthersPlaces DEF At
  <2>4. Doomed(d) \/ d = c
    BY <2>1, <2>2, <2>3, Zenon DEF Doomed, ToGo
  <2>. QED
    BY <1>1, <2>4 DEF DoomedJobs
<1>. QED
  BY <1>6, <1>7, <1>8, <1>9, <1>10, <1>11, <1>12, <1>14, <1>15, <1>16
  DEF LifeInv, ScriptShape, Files, Cloud

LEMMA DeleteOneLife ==
  ASSUME Base, DeleteOne
  PROVE  LifeInv'
<1>1. PICK c \in toDestroy, s \in Scripts :
         toDestroy' = toDestroy \ {c} /\ Spawn(s, "d_start", c, 0)
  BY Zenon DEF DeleteOne
<1>2. /\ pass = "destroy" /\ pass' = pass /\ UNCHANGED <<fileVars, cloudVars, jobVars, unsafe>>
      /\ UNCHANGED <<toRead, old, ranAt>>
  BY Zenon DEF DeleteOne, scanVars
<1>3. ListDone'
  BY <1>2, LifeParts DEF ListDone
<1>4. c \in Names
  BY DEF Base, TypeOK, PassTypeOK
<1>5. \A r \in Scripts : IsCreate(script[r]) => script[r].name # c
  BY <1>4, LifeParts DEF NotOld
<1>6. RunningOn(c) \subseteq unsafe
  BY <1>4, LifeParts DEF DoomedJobs, Doomed
<1>. QED
  BY <1>1, <1>2, <1>3, <1>4, <1>5, <1>6, SpawnKeeps

(* The name is not among the used ones, which cover whatever is there. *)
LEMMA BuildOneLife ==
  ASSUME Base, BuildOne
  PROVE  LifeInv'
<1>1. PICK j \in toBuild, i \in 1 .. MaxIndex :
         /\ IsNext(JobType[j], i)
         /\ \E s \in Scripts : Spawn(s, "c_start", <<JobType[j], i>>, JobSize[j])
  BY Zenon DEF BuildOne
<1>. DEFINE c == <<JobType[j], i>>
<1>2. PICK s \in Scripts : Spawn(s, "c_start", c, JobSize[j])
  BY <1>1
<1>3. /\ pass = "build" /\ pass' = pass /\ toDestroy' = toDestroy /\ Settled
      /\ UNCHANGED <<fileVars, cloudVars, jobVars, unsafe>> /\ UNCHANGED <<toRead, old, ranAt>>
  BY Zenon DEF BuildOne, scanVars
<1>4. c \in Names
  BY JobsAssumption DEF Names, Base, TypeOK, PassTypeOK
<1>5. ListDone' /\ toDestroy' = {} /\ old[c] = 0
  BY <1>3, <1>4, LifeParts DEF ListDone
<1>6. c \notin folder
  BY <1>1, <1>3 DEF IsNext, Base, CountInv, UsedCoversClaims
<1>. HIDE DEF c
<1>7. RunningOn(c) = {}
  BY <1>4, <1>6, LifeParts DEF Rests
<1>8. \A r \in Scripts : IsCreate(script[r]) \/ IsDestroy(script[r]) \/ IsDelete(script[r])
                           => script[r].name # c
  BY <1>3, <1>6, Places, LifeParts DEF WorksInFolder, Works, Settled, IsDelete
<1>. QED
  BY <1>2, <1>3, <1>4, <1>5, <1>6, <1>7, <1>8, SpawnKeeps

-----------------------------------------------------------------------------
(* Jobs, and time *)

LEMMA JobKeeps ==
  ASSUME Base, UNCHANGED <<fileVars, inst, reg, dead, uncleaned, haunted, script>>,
         UNCHANGED <<pass, toDestroy, toRead, old, ranAt>>,
         \A d \in Names : stale[d] = 0 => stale'[d] = 0,
         \A d \in Names : \A k \in RunningOn(d)' :
            \/ k \in RunningOn(d) /\ (k \in unsafe => k \in unsafe')
            \/ inst[d] # 0 /\ (Doomed(d) => k \in unsafe')
  PROVE  LifeInv'
<1>1. /\ OneCreator /\ OneTaker /\ IdleOnes /\ WorksInFolder /\ Marked /\ NewFolder /\ Rests
      /\ Emptied /\ Listed /\ CleanedUp /\ NotOld /\ ListDone /\ DoomedJobs /\ haunted = {}
  BY LifeParts DEF ScriptShape, NamesClean
<1>2. /\ folder' = folder /\ destroying' = destroying /\ inst' = inst /\ reg' = reg
      /\ dead' = dead /\ uncleaned' = uncleaned /\ haunted' = haunted
      /\ script' = script /\ pass' = pass /\ toDestroy' = toDestroy
      /\ toRead' = toRead /\ old' = old /\ ranAt' = ranAt
  BY DEF fileVars
<1>3. ScriptShape'
  BY <1>1, <1>2 DEF ScriptShape, OneCreator, OneTaker, IdleOnes
<1>4. Files'
  BY <1>1, <1>2 DEF Files, WorksInFolder, Marked, NewFolder
<1>5. Rests'
  <2>1. SUFFICES ASSUME NEW d \in Names, inst'[d] # 0 \/ RunningOn(d)' # {} PROVE d \in folder'
    BY DEF Rests
  <2>2. inst[d] # 0 \/ RunningOn(d) # {}
    BY <1>2, <2>1
  <2>. QED
    BY <1>1, <1>2, <2>2 DEF Rests
<1>6. Emptied'
  <2>1. SUFFICES ASSUME NEW r \in Scripts, NEW d \in Names, script[r].pc = "remove",
                        script[r].name = d
                 PROVE  inst[d] = 0 /\ RunningOn(d)' = {}
    BY <1>2 DEF Emptied
  <2>2. inst[d] = 0 /\ RunningOn(d) = {}
    BY <1>1, <2>1 DEF Emptied
  <2>. QED
    BY <2>2
<1>7. Listed' /\ CleanedUp' /\ NamesClean'
  BY <1>1, <1>2 DEF Listed, CleanedUp, NamesClean
<1>8. NotOld'
  BY <1>1, <1>2 DEF NotOld
<1>9. ListDone'
  BY <1>1, <1>2 DEF ListDone
<1>10. DoomedJobs'
  <2>1. SUFFICES ASSUME NEW d \in Names, Doomed(d)' PROVE RunningOn(d)' \subseteq unsafe'
    BY DEF DoomedJobs
  <2>2. Doomed(d)
    BY <1>2, <2>1 DEF Doomed, At, Considered, Ran
  <2>3. RunningOn(d) \subseteq unsafe
    BY <1>1, <2>2 DEF DoomedJobs
  <2>. QED
    BY <2>2, <2>3
<1>. QED
  BY <1>3, <1>4, <1>5, <1>6, <1>7, <1>8, <1>9, <1>10 DEF LifeInv, Cloud

LEMMA JobStepLife ==
  ASSUME Base, NEW j \in Jobs, JobStep(j)
  PROVE  LifeInv'
<1>1. /\ stale \in [Names -> Nat] /\ at \in [Jobs -> Names \union {NoName}]
      /\ job \in [Jobs -> {"new", "pending", "running", "done", "killed"}]
  BY DEF Base, TypeOK, ScriptsTypeOK
<1>2. CASE JobSubmit(j) \/ JobFinish(j) \/ JobCancel(j)
  <2>1. /\ UNCHANGED <<fileVars, inst, reg, dead, uncleaned, haunted, script>>
        /\ UNCHANGED <<pass, toDestroy, toRead, old, ranAt>> /\ stale' = stale
    BY <1>2, Zenon DEF JobSubmit, JobFinish, JobCancel, cloudVars, slurmVars, passVars, scanVars
  <2>2. \A k \in Jobs : job'[k] = "running" =>
                          /\ job[k] = "running" /\ at'[k] = at[k]
                          /\ k \in unsafe => k \in unsafe'
    BY <1>1, <1>2 DEF JobSubmit, JobFinish, JobCancel
  <2>3. \A d \in Names : \A k \in RunningOn(d)' : k \in RunningOn(d) /\ (k \in unsafe => k \in unsafe')
    BY <2>2 DEF RunningOn
  <2>4. \A d \in Names : stale[d] = 0 => stale'[d] = 0
    BY <2>1
  <2>. QED
    BY <2>1, <2>3, <2>4, JobKeeps
<1>3. CASE JobStart(j)
  <2>1. PICK c \in OfType(Names, JobType[j]) :
          /\ inst[c] > 0
          /\ job' = [job EXCEPT ![j] = "running"]
          /\ at' = [at EXCEPT ![j] = c]
          /\ \E left \in 0 .. stale[c] : stale' = [stale EXCEPT ![c] = left]
          /\ unsafe' = IF Doomed(c) THEN unsafe \union {j} ELSE unsafe
    BY <1>3, Zenon DEF JobStart
  <2>2. c \in Names /\ inst[c] # 0
    BY <2>1 DEF OfType
  <2>3. /\ UNCHANGED <<fileVars, inst, reg, dead, uncleaned, haunted, script>>
        /\ UNCHANGED <<pass, toDestroy, toRead, old, ranAt>>
    BY <1>3, Zenon DEF JobStart, passVars, scanVars
  <2>4. unsafe \subseteq unsafe' /\ (Doomed(c) => j \in unsafe')
    BY <2>1
  <2>5. \A d \in Names : stale[d] = 0 => stale'[d] = 0
    BY <1>1, <2>1, <2>2
  <2>6. ASSUME NEW d \in Names, NEW k \in RunningOn(d)'
        PROVE  \/ k \in RunningOn(d) /\ (k \in unsafe => k \in unsafe')
               \/ inst[d] # 0 /\ (Doomed(d) => k \in unsafe')
    <3>1. k \in Jobs /\ job'[k] = "running" /\ at'[k] = d
      BY <2>6 DEF RunningOn
    <3>2. CASE k = j
      <4>1. d = c
        BY <1>1, <2>1, <3>1, <3>2
      <4>. QED
        BY <2>2, <2>4, <3>2, <4>1
    <3>3. CASE k # j
      <4>1. job[k] = "running" /\ at[k] = d
        BY <1>1, <2>1, <3>1, <3>3
      <4>. QED
        BY <2>4, <3>1, <4>1 DEF RunningOn
    <3>. QED
      BY <3>2, <3>3
  <2>. QED
    BY <2>3, <2>5, <2>6, JobKeeps
<1>. QED
  BY <1>2, <1>3 DEF JobStep

(* Nodes get old: not those of a cluster that is being built. *)
LEMMA AgeLife ==
  ASSUME Base, ~SlowBuild, NEW c \in Names, Age(c)
  PROVE  LifeInv'
<1>1. /\ OneCreator /\ OneTaker /\ IdleOnes /\ WorksInFolder /\ Marked /\ NewFolder /\ Rests
      /\ Emptied /\ Listed /\ CleanedUp /\ NotOld /\ ListDone /\ DoomedJobs /\ haunted = {}
  BY LifeParts DEF ScriptShape, NamesClean
<1>2. /\ folder' = folder /\ destroying' = destroying /\ inst' = inst /\ reg' = reg
      /\ dead' = dead /\ uncleaned' = uncleaned /\ haunted' = haunted
      /\ script' = script /\ pass' = pass /\ toDestroy' = toDestroy /\ job' = job /\ at' = at
      /\ toRead' = toRead /\ old' = old /\ ranAt' = ranAt /\ unsafe' = unsafe
  BY Zenon DEF Age, fileVars, jobVars, passVars, scanVars
<1>3. stale \in [Names -> Nat] /\ reg \in [Names -> Nat]
  BY DEF Base, TypeOK, ScriptsTypeOK
<1>4. /\ \A d \in Names : d # c => stale'[d] = stale[d]
      /\ reg[c] # 0 /\ ~At(c, CreatePCs)
  <2>1. PICK n \in (stale[c] + 1) .. reg[c] :
           (Aged(c) \/ n <= dead[c]) /\ stale' = [stale EXCEPT ![c] = n]
    BY Zenon DEF Age
  <2>2. n \in Nat /\ n # 0 /\ n <= reg[c] /\ dead[c] = 0
    BY <1>1, <1>3, <2>1 DEF Listed
  <2>3. Aged(c)
    BY <2>1, <2>2
  <2>. QED
    BY <1>3, <2>1, <2>2, <2>3 DEF Aged
<1>5. \A d : RunningOn(d)' = RunningOn(d)
  BY <1>2 DEF RunningOn
<1>6. ScriptShape' /\ Files'
  BY <1>1, <1>2 DEF ScriptShape, OneCreator, OneTaker, IdleOnes, Files, WorksInFolder, Marked,
                    NewFolder
<1>7. Rests' /\ Emptied' /\ CleanedUp' /\ NamesClean'
  BY <1>1, <1>2, <1>5 DEF Rests, Emptied, CleanedUp, NamesClean
<1>8. Listed'
  BY <1>1, <1>2, <1>4 DEF Listed
<1>9. NotOld'
  <2>1. SUFFICES ASSUME NEW r \in Scripts, NEW d \in Names, IsCreate(script[r]), script[r].name = d
                 PROVE  /\ d \notin toDestroy /\ old[d] = 0
                        /\ script[r].pc # "c_start" => stale'[d] = 0
    BY <1>2 DEF NotOld
  <2>2. d # c
    BY <1>4, <2>1 DEF At, IsCreate
  <2>. QED
    BY <1>1, <1>4, <2>1, <2>2 DEF NotOld
<1>10. ListDone'
  BY <1>1, <1>2 DEF ListDone
<1>11. DoomedJobs'
  <2>1. SUFFICES ASSUME NEW d \in Names, Doomed(d)' PROVE RunningOn(d) \subseteq unsafe
    BY <1>2, <1>5 DEF DoomedJobs
  <2>2. Doomed(d)
    BY <1>2, <2>1 DEF Doomed, At, Considered, Ran
  <2>. QED
    BY <1>1, <2>2 DEF DoomedJobs
<1>. QED
  BY <1>6, <1>7, <1>8, <1>9, <1>10, <1>11 DEF LifeInv, Cloud

-----------------------------------------------------------------------------
(* The invariant, and what follows from it *)

LEMMA InitLifeInv == Init => LifeInv
<1> SUFFICES ASSUME Init PROVE LifeInv
  OBVIOUS
<1>1. /\ \A s \in Scripts : script[s] = Idle
      /\ \A c \in Names : inst[c] = 0 /\ reg[c] = 0 /\ stale[c] = 0 /\ dead[c] = 0 /\ old[c] = 0
      /\ \A j \in Jobs : job[j] = "new"
      /\ toDestroy = {} /\ toRead = {} /\ haunted = {}
  BY DEF Init, ScriptsInit
<1>2. \A c : RunningOn(c) = {}
  BY <1>1 DEF RunningOn
<1>3. ScriptShape /\ Files
  BY <1>1, IdlePlace DEF ScriptShape, OneCreator, OneTaker, IdleOnes, Files, WorksInFolder, Marked,
                         NewFolder
<1>4. Rests /\ NotOld /\ ListDone /\ DoomedJobs /\ NamesClean
  BY <1>1, <1>2, IdlePlace DEF Rests, NotOld, ListDone, DoomedJobs, NamesClean
<1>5. Idle.pc \notin {"destroy", "remove"}
  BY DEF Idle
<1>6. Emptied /\ Listed /\ CleanedUp
  BY <1>1, <1>2, <1>5 DEF Emptied, Listed, CleanedUp
<1>. QED
  BY <1>3, <1>4, <1>6 DEF LifeInv, Cloud

(* Once a name is haunted, it stays so. *)
LEMMA ScriptStepHaunts ==
  ASSUME NEW s \in Scripts, Does(s)
  PROVE  haunted \subseteq haunted'
<1>1. CASE CreateStart(s)
  <2>1. haunted' = haunted \/ haunted' = haunted \union {script[s].name}
    BY <1>1, Zenon DEF CreateStart
  <2>. QED
    BY <2>1
<1>2. CASE DeleteStart(s)
  <2>1. haunted' = haunted
    BY <1>2, Zenon DEF DeleteStart, slurmVars, RemoveUnreachable
  <2>. QED
    BY <2>1
<1>3. CASE CreateNoShape(s) \/ ApplyLaunch(s) \/ ApplyConfigure(s) \/ ApplyDone(s) \/ ApplyFail(s)
           \/ GraceOver(s) \/ FailOver(s) \/ CreateRetry(s)
  <2>1. haunted' = haunted
    BY <1>3, Zenon DEF CreateNoShape, ApplyLaunch, ApplyConfigure, ApplyDone, ApplyFail, GraceOver,
                       FailOver, CreateRetry, cloudVars, slurmVars
  <2>. QED
    BY <2>1
<1>4. CASE Cleanup(s) \/ Destroy(s) \/ DestroyGiveUp(s) \/ Remove(s)
  <2>1. haunted' = haunted
    BY <1>4, Zenon DEF Cleanup, Destroy, DestroyGiveUp, Remove, RemoveUnreachable, cloudVars,
                       slurmVars
  <2>. QED
    BY <2>1
<1>. QED
  BY <1>1, <1>2, <1>3, <1>4 DEF Does

LEMMA NamesStayHaunted ==
  ASSUME [Next]_vars
  PROVE  haunted \subseteq haunted'
<1>1. CASE PassOnly \/ PassCrash \/ DailyCleanup \/ UNCHANGED vars
  <2>1. UNCHANGED cloudVars
    BY <1>1, PassOnlyKeeps, Zenon DEF PassCrash, DailyCleanup, vars, scriptVars
  <2>. QED
    BY <2>1 DEF cloudVars, slurmVars
<1>2. CASE DeleteOne \/ BuildOne
  <2>1. UNCHANGED cloudVars
    BY <1>2, Zenon DEF DeleteOne, BuildOne
  <2>. QED
    BY <2>1 DEF cloudVars, slurmVars
<1>3. CASE \E s \in Scripts : ScriptStep(s)
  BY <1>3, ScriptStepHaunts, ScriptStepParts
<1>4. CASE (\E j \in Jobs : JobStep(j)) \/ (\E c \in Names : Age(c))
  <2>1. haunted' = haunted
    BY <1>4, Zenon DEF JobStep, JobSubmit, JobStart, JobFinish, JobCancel, Age, cloudVars, slurmVars
  <2>. QED
    BY <2>1
<1>. QED
  BY <1>1, <1>2, <1>3, <1>4, Zenon DEF Next, PassStep, PassOnly

(* LifeInv is inductive relative to TypeOK and CountInv, as long as no     *)
(* name is haunted.                                                        *)
LEMMA NextLifeInv ==
  ASSUME Base, ~SlowBuild, MaxCleanups = 0, haunted' = {}, [Next]_vars
  PROVE  LifeInv'
<1>1. CASE PassOnly \/ PassCrash
  BY <1>1, PassOnlyLife
<1>2. CASE DeleteOne
  BY <1>2, DeleteOneLife
<1>3. CASE BuildOne
  BY <1>3, BuildOneLife
<1>4. CASE \E s \in Scripts : ScriptStep(s)
  BY <1>4, ScriptStepLife
<1>5. CASE \E j \in Jobs : JobStep(j)
  BY <1>5, JobStepLife
<1>6. CASE \E c \in Names : Age(c)
  BY <1>6, AgeLife
<1>7. CASE DailyCleanup
  BY <1>7 DEF DailyCleanup, Base, TypeOK
<1>8. CASE UNCHANGED vars
  <2>1. UNCHANGED <<scriptVars, unsafe>> /\ UNCHANGED passSees
    BY <1>8, Zenon DEF vars, passVars, scanVars, passSees
  <2>2. /\ ListDone' /\ toDestroy' = toDestroy /\ old' = old
        /\ \A c : ToGo(c)' <=> ToGo(c)
    BY <2>1, LifeParts, SameToGo
  <2>. QED
    BY <2>1, <2>2, PassKeeps
<1>. QED
  BY <1>1, <1>2, <1>3, <1>4, <1>5, <1>6, <1>7, <1>8, Zenon DEF Next, PassStep, PassOnly

(* Until a name is haunted. *)
CleanLife == TypeOK /\ CountInv /\ (NamesClean => LifeInv)

LEMMA CleanBase == CleanLife /\ NamesClean => Base
  BY DEF CleanLife, Base

LEMMA NextCleanLife ==
  ASSUME ~SlowBuild, MaxCleanups = 0, CleanLife, [Next]_vars
  PROVE  CleanLife'
<1>1. TypeOK' /\ CountInv'
  BY NextTypeOK, NextCountInv DEF CleanLife
<1>2. ASSUME haunted' = {} PROVE LifeInv'
  <2>1. haunted = {}
    BY <1>2, NamesStayHaunted
  <2>2. Base
    BY <2>1, CleanBase DEF NamesClean
  <2>. QED
    BY <1>2, <2>2, NextLifeInv
<1>. QED
  BY <1>1, <1>2 DEF CleanLife, NamesClean

LEMMA BaseInvariant ==
  ASSUME ~SlowBuild, MaxCleanups = 0
  PROVE  Spec => []CleanLife
<1>1. Init => CleanLife
  BY InitTypeOK, InitCountInv, InitLifeInv DEF CleanLife
<1>2. CleanLife /\ [Next]_vars => CleanLife'
  BY NextCleanLife
<1>. QED
  BY <1>1, <1>2, PTL DEF Spec

(* create_cluster.sh is only ever started on a name no folder, instance or *)
(* script is left of, when builds do not outlast idle_time, nothing cleans *)
(* up behind the scripts' backs and no name has been haunted.              *)
THEOREM NamesAreFresh ==
  ASSUME ~SlowBuild, MaxCleanups = 0
  PROVE  Spec => []FreshName
<1>1. ASSUME CleanLife PROVE FreshName
  <2>1. SUFFICES ASSUME Base, NEW s \in Scripts, script[s].pc = "c_start"
                 PROVE  /\ script[s].name \notin folder
                        /\ inst[script[s].name] = 0
                        /\ \A r \in Scripts \ {s} : script[r].name # script[s].name
    BY <1>1, CleanBase DEF FreshName
  <2>2. script[s].name \notin folder
    BY <2>1, LifeParts DEF NewFolder
  <2>3. script[s].name \in Names
    BY <2>1, ScriptName DEF Base
  <2>4. inst[script[s].name] = 0
    BY <2>1, <2>2, <2>3, LifeParts DEF Rests
  <2>5. ASSUME NEW r \in Scripts \ {s}, script[r].name = script[s].name PROVE FALSE
    <3>1. script[r].pc # "idle"
      BY <2>1, <2>3, <2>5, NoNameIsNone, IdlePlace, LifeParts DEF ScriptShape, IdleOnes
    <3>2. IsCreate(script[r]) \/ IsDestroy(script[r]) \/ IsDelete(script[r])
      <4>1. script[r].pc \in ScriptPCs
        BY <2>1, ScriptFields DEF Base, TypeOK, ScriptsTypeOK
      <4>. QED
        BY <3>1, <4>1 DEF ScriptPCs, IsCreate, IsDestroy, IsDelete
    <3>. QED
      BY <2>1, <2>5, <3>2, Places, LifeParts DEF OneCreator
  <2>. QED
    BY <2>2, <2>4, <2>5
<1>. QED
  BY <1>1, BaseInvariant, PTL

(* Instances always have the folder that it takes to get rid of them, and  *)
(* so have Slurm nodes unless a cleanup of their cluster has failed,       *)
(* whatever else fails, whatever the scripts do not look at and whichever  *)
(* pass is killed.                                                         *)
THEOREM NothingIsOrphaned ==
  ASSUME ~SlowBuild, MaxCleanups = 0
  PROVE  Spec => []NoOrphans
<1>1. ASSUME CleanLife PROVE NoOrphans
  <2>1. SUFFICES ASSUME Base, NEW c \in Names \ folder
                 PROVE  inst[c] = 0 /\ (reg[c] > 0 => c \in uncleaned)
    BY <1>1, CleanBase DEF NoOrphans
  <2>2. inst[c] = 0
    BY <2>1, LifeParts DEF Rests
  <2>3. reg[c] > 0 => c \in uncleaned
    BY <2>1, LifeParts DEF Listed
  <2>. QED
    BY <2>2, <2>3
<1>. QED
  BY <1>1, BaseInvariant, PTL

(* Two scripts never take one cluster down together. *)
THEOREM DestroyersAreAlone ==
  ASSUME ~SlowBuild, MaxCleanups = 0
  PROVE  Spec => []OneDestroyer
<1>1. CleanLife => OneDestroyer
  BY CleanBase, LifeParts DEF OneTaker, OneDestroyer, IsDestroy
<1>. QED
  BY <1>1, BaseInvariant, PTL

(* A job that starts on a cluster nobody has condemned, and no pass is     *)
(* judging by an older listing, runs to its end.                           *)
THEOREM SafeStartsSurvive ==
  ASSUME ~SlowBuild, MaxCleanups = 0
  PROVE  Spec => SafeStartNeverKilled
<1>. DEFINE Mercy ==
       NamesClean => \A j \in Jobs : job[j] = "running" /\ job'[j] = "killed" => j \in unsafe
<1>1. ASSUME CleanLife, [Next]_vars PROVE Mercy
  <2>1. SUFFICES ASSUME Base, NEW j \in Jobs, job[j] = "running", job'[j] = "killed"
                 PROVE  j \in unsafe
    BY <1>1, CleanBase
  <2>2. PICK s \in Scripts : Destroy(s)
    <3>1. job' # job
      BY <2>1
    <3>2. CASE \E k \in Jobs : JobStep(k)
      <4>1. PICK k \in Jobs : JobStep(k)
        BY <3>2
      <4>2. job \in [Jobs -> {"new", "pending", "running", "done", "killed"}]
        BY <2>1 DEF Base, TypeOK, ScriptsTypeOK
      <4>3. PICK w \in {"pending", "running", "done"} : job' = [job EXCEPT ![k] = w]
        BY <4>1, Zenon DEF JobStep, JobSubmit, JobStart, JobFinish, JobCancel
      <4>. QED
        BY <2>1, <4>2, <4>3
    <3>3. CASE UNCHANGED vars
      BY <3>1, <3>3 DEF vars, scriptVars, jobVars
    <3>4. CASE PassOnly
      <4>1. UNCHANGED scriptVars
        BY <3>4, PassOnlyKeeps
      <4>. QED
        BY <3>1, <4>1, Zenon DEF scriptVars, jobVars
    <3>5. CASE DeleteOne \/ BuildOne \/ PassCrash \/ (\E c \in Names : Age(c)) \/ DailyCleanup
      BY <3>1, <3>5, Zenon DEF DeleteOne, BuildOne, PassCrash, Age, DailyCleanup, scriptVars, jobVars
    <3>6. ASSUME NEW s \in Scripts, ScriptStep(s), ~Destroy(s) PROVE FALSE
      <4>1. Does(s)
        BY <3>6, ScriptStepParts
      <4>. QED
        BY <3>1, <3>6, <4>1, Zenon DEF Does, CreateStart, CreateNoShape, ApplyLaunch,
           ApplyConfigure, ApplyDone, ApplyFail, GraceOver, FailOver, CreateRetry, DeleteStart,
           Cleanup, DestroyGiveUp, Remove, jobVars
    <3>. QED
      BY <1>1, <3>2, <3>3, <3>4, <3>5, <3>6, Zenon DEF Next, PassStep, PassOnly
  <2>3. j \in RunningOn(script[s].name)
    BY <2>1, <2>2 DEF Destroy
  <2>4. Doomed(script[s].name)
    BY <2>2 DEF Destroy, Doomed, At, ScriptPCs, DestroyPCs
  <2>5. script[s].name \in Names
    BY <2>1, <2>2, ScriptName DEF Base, Destroy
  <2>. QED
    BY <2>1, <2>3, <2>4, <2>5, LifeParts DEF DoomedJobs
<1>2. CleanLife /\ [Next]_vars => [Mercy]_vars
  BY <1>1
<1>. QED
  BY <1>2, BaseInvariant, PTL DEF Spec, SafeStartNeverKilled

-----------------------------------------------------------------------------
(* The limits of queues.conf on nodes, and no cluster built twice.  With   *)
(* one availability domain to try, every create script that is past its    *)
(* first step has its size written in its cluster's marker, until the last *)
(* sleep, which outlasts a pass between its two reads: so what a pass has  *)
(* read of the nodes and then of the markers covers all that is and will   *)
(* be there, and each job it builds for has no cluster on its way.         *)

(* What a create script counts for, from its start to its last sleep. *)
BuildPCs == ApplyPCs \union {"c_start", "grace"}

(* Where a create script has its cluster's marker to itself. *)
MarkPCs == ApplyPCs \union {"grace", "failed"}
SleepPCs == {"grace", "failed"}

(* Where a pass has counted all it will. *)
ActPlaces == {"destroy", "build"}

OneAD == \A s \in Scripts : script[s].ads <= 1 /\ script[s].pc # "retry"

(* A marker is that of a script at work, and holds what that will bring.   *)
MarkedAtWork == \A c \in Names : building[c] > 0 => At(c, MarkPCs)
Tagged ==
    \A s \in Scripts :
        script[s].pc \in MarkPCs => script[s].here /\ building[script[s].name] = script[s].size
Tags == OneAD /\ MarkedAtWork /\ Tagged

(* f is enough for all that is there, is promised or is about to be. *)
Covers(f) ==
    /\ \A c \in Names : building[c] <= f[c] /\ reg[c] <= f[c]
    /\ \A s \in Scripts : script[s].pc = "c_start" => script[s].size <= f[script[s].name]
Within(f, t) == SumFunctionOnSet(f, OfType(Names, t)) <= MaxNodes[t]
Planned == \E plan \in [Names -> Nat] : Covers(plan) /\ \A t \in Types : Within(plan, t)

(* What a pass has counted is enough: once it has read both, and between   *)
(* its reads together with the markers that it has still to read, also     *)
(* without those that may go before it does.                               *)
SeenSoFar ==
    pass = "scan" =>
        /\ \A c \in Names : reg[c] <= seen[c] + building[c]
        /\ \A s \in asleep : /\ script[s].pc \in SleepPCs
                             /\ reg[script[s].name] <= seen[script[s].name]
SeenAll == pass \in ActPlaces => Covers(seen)
NodesInv == Planned /\ SeenSoFar /\ SeenAll

(* The builds of n nodes of type t under way, and the jobs that want such. *)
Builds(n, t) ==
    {s \in Scripts : /\ script[s].pc \in BuildPCs
                     /\ script[s].size = n
                     /\ TypeOf(script[s].name) = t}
Submitted(n, t) == {k \in Wanting(Jobs, n, t) : job[k] # "new"}
FewBuilds ==
    \A n \in Nat, t \in Types : Cardinality(Builds(n, t)) <= Cardinality(Submitted(n, t))
KnownJobs == \A k \in toBuild : job[k] # "new"
RoomForMore ==
    pass \in ActPlaces =>
        \A n \in Nat, t \in Types :
            Cardinality(Builds(n, t)) + Cardinality(Wanting(toBuild, n, t))
              <= Cardinality(Submitted(n, t))
DemandInv == FewBuilds /\ KnownJobs /\ RoomForMore

LimitInv == Tags /\ NodesInv /\ DemandInv

-----------------------------------------------------------------------------
(* The steps of the scripts *)

LEMMA BaseTypes ==
  ASSUME Base
  PROVE  /\ TypeOK /\ CountInv /\ LifeInv
         /\ folder \subseteq Names /\ building \in [Names -> Nat] /\ reg \in [Names -> Nat]
         /\ script \in [Scripts -> ScriptRec]
         /\ job \in [Jobs -> {"new", "pending", "running", "done", "killed"}]
         /\ toBuild \subseteq Jobs /\ seen \in [Names -> Nat] /\ asleep \subseteq Scripts
         /\ pass \in {"off", "jobs", "nodes", "scan", "destroy", "build"}
         /\ \A s \in Scripts : script[s].size \in Nat /\ script[s].ads \in Nat
         /\ \A s \in Scripts : script[s].pc # "idle" => script[s].name \in Names
  BY ScriptFields DEF Base, TypeOK, ScriptsTypeOK, PassTypeOK

LEMMA BuildPlaces ==
  ASSUME NEW u
  PROVE  /\ u.pc \in MarkPCs => IsCreate(u) /\ Works(u) /\ u.pc # "c_start"
         /\ u.pc \in BuildPCs \union {"failed"} => IsCreate(u)
         /\ u.pc \in BuildPCs => u.pc # "idle"
         /\ Idle.pc \notin BuildPCs \union {"failed"}
         /\ Idle.pc \notin MarkPCs
  BY DEF BuildPCs, MarkPCs, ApplyPCs, CreatePCs, IsCreate, Works, Idle

(* Nobody but the one create script at work marks a cluster. *)
LEMMA NoOtherMark ==
  ASSUME Base, Tags, NEW s \in Scripts, script[s].name \in Names, script[s].pc \notin MarkPCs,
         IsCreate(script[s]) \/ IsDestroy(script[s]) \/ IsDelete(script[s])
  PROVE  building[script[s].name] = 0
<1>1. SUFFICES ASSUME building[script[s].name] # 0 PROVE FALSE
  OBVIOUS
<1>2. building[script[s].name] > 0
  BY <1>1, BaseTypes
<1>3. PICK r \in Scripts : script[r].name = script[s].name /\ script[r].pc \in MarkPCs
  BY <1>2 DEF Tags, MarkedAtWork, At
<1>4. r = s
  BY <1>3, BuildPlaces, LifeParts DEF OneCreator
<1>. QED
  BY <1>3, <1>4

(* What every script but s keeps in a step of s. *)
Keeps(s) ==
    \A r \in Scripts \ {s} :
        /\ script'[r].pc = script[r].pc /\ script'[r].name = script[r].name
        /\ script'[r].size = script[r].size /\ script'[r].ads = script[r].ads
        /\ IsCreate(script[r]) => script'[r] = script[r]

(* The first step of a create script, a step in terraform apply, and one   *)
(* of a script that is out of it.                                          *)
Begins(s) ==
    /\ script[s].pc = "c_start"
    /\ script'[s].pc = "launch" /\ script'[s].name = script[s].name
    /\ script'[s].size = script[s].size /\ script'[s].ads = script[s].ads /\ script'[s].here
    /\ building' = [building EXCEPT ![script[s].name] = script[s].size]
Applies(s) ==
    /\ script[s].pc \in ApplyPCs /\ script'[s].pc \in MarkPCs
    /\ script'[s].name = script[s].name /\ script'[s].size = script[s].size
    /\ script'[s].ads = script[s].ads /\ script'[s].here = script[s].here
    /\ building' = building
Leaves(s) ==
    /\ script[s].pc \notin ApplyPCs
    /\ script'[s].pc \notin BuildPCs \union {"failed", "retry"}
    /\ script'[s].ads <= 1
    /\ building' = IF script[s].pc \in SleepPCs THEN [building EXCEPT ![script[s].name] = 0]
                                                ELSE building

LEMMA ScriptStepKeeps ==
  ASSUME Base, NEW s \in Scripts, Does(s)
  PROVE  Keeps(s)
<1>1. script \in [Scripts -> ScriptRec] /\ OneCreator
  BY BaseTypes, LifeParts
<1>2. CASE Remove(s) \/ CreateNoShape(s)
  <2>1. SUFFICES ASSUME NEW r \in Scripts \ {s}
                 PROVE  /\ script'[r].pc = script[r].pc /\ script'[r].name = script[r].name
                        /\ script'[r].size = script[r].size /\ script'[r].ads = script[r].ads
                        /\ IsCreate(script[r]) => script'[r] = script[r]
    BY DEF Keeps
  <2>2. RemoveFolder(s, script[s].name) /\ script[s].pc \in {"remove", "c_start"}
    BY <1>2, Zenon DEF Remove, CreateNoShape
  <2>3. /\ script'[r] = script[r] \/ script'[r] = [script[r] EXCEPT !.here = FALSE]
        /\ script[r].name # script[s].name => script'[r] = script[r]
    BY <2>2 DEF RemoveFolder
  <2>4. script[r] \in ScriptRec
    BY <1>1
  <2>5. IsCreate(script[r]) => script[r].name # script[s].name
    BY <1>1, <2>2, Places DEF OneCreator
  <2>. QED
    BY <2>3, <2>4, <2>5 DEF ScriptRec
<1>3. CASE ~(Remove(s) \/ CreateNoShape(s))
  <2>1. \A r \in Scripts \ {s} : script'[r] = script[r]
    <3>1. CASE GraceOver(s) \/ DestroyGiveUp(s)
      BY <1>1, <3>1 DEF GraceOver, DestroyGiveUp, End
    <3>2. CASE DeleteStart(s)
      <4>1. End(s) \/ script' = [script EXCEPT ![s].pc = "cleanup", ![s].here = TRUE]
        BY <3>2, Zenon DEF DeleteStart
      <4>. QED
        BY <1>1, <4>1 DEF End
    <3>3. CASE CreateStart(s) \/ FailOver(s)
      BY <1>1, <3>3 DEF CreateStart, FailOver
    <3>4. CASE ApplyLaunch(s) \/ ApplyConfigure(s) \/ ApplyDone(s) \/ ApplyFail(s)
               \/ CreateRetry(s) \/ Cleanup(s) \/ Destroy(s)
      <4>1. \E pc : Goto(s, pc)
        BY <3>4 DEF ApplyLaunch, ApplyConfigure, ApplyDone, ApplyFail, CreateRetry, Cleanup, Destroy
      <4>. QED
        BY <1>1, <4>1 DEF Goto
    <3>. QED
      BY <1>3, <3>1, <3>2, <3>3, <3>4, Zenon DEF Does
  <2>. QED
    BY <2>1, Zenon DEF Keeps
<1>. QED
  BY <1>2, <1>3

LEMMA ScriptStepMoves ==
  ASSUME Base, Tags, NEW s \in Scripts, Does(s)
  PROVE  (CreateStart(s) /\ Begins(s)) \/ Applies(s) \/ Leaves(s)
<1>1. /\ script \in [Scripts -> ScriptRec] /\ script[s] \in ScriptRec
      /\ building \in [Names -> Nat]
      /\ script[s].ads <= 1 /\ script[s].pc # "retry" /\ script[s].ads \in Nat
      /\ script[s].pc # "idle" => script[s].name \in Names
      /\ script[s].pc \in SleepPCs => script[s].here
  BY BaseTypes DEF Tags, OneAD, Tagged, MarkPCs, SleepPCs
<1>2. CASE CreateStart(s)
  <2>1. script[s].pc = "c_start" /\ script[s].name \in Names /\ script[s].pc \notin MarkPCs
    BY <1>1, <1>2 DEF CreateStart, MarkPCs, ApplyPCs
  <2>2. building[script[s].name] = 0
    BY <2>1, NoOtherMark, Places
  <2>3. script'[s] = [script[s] EXCEPT !.pc = "launch", !.here = TRUE]
    BY <1>1, <1>2 DEF CreateStart
  <2>4. building' = [building EXCEPT ![script[s].name] = script[s].size]
    BY <1>2, <2>2 DEF CreateStart, MarkBuilding
  <2>. QED
    BY <1>1, <1>2, <2>1, <2>3, <2>4 DEF Begins, ScriptRec
<1>3. CASE ApplyLaunch(s) \/ ApplyConfigure(s) \/ ApplyDone(s) \/ ApplyFail(s)
  <2>1. /\ building' = building
        /\ script[s].pc \in ApplyPCs
        /\ \E pc \in MarkPCs : Goto(s, pc)
    BY <1>3 DEF ApplyLaunch, ApplyConfigure, ApplyDone, ApplyFail, fileVars, ApplyPCs, MarkPCs
  <2>2. PICK pc \in MarkPCs : Goto(s, pc)
    BY <2>1
  <2>3. script'[s] = [script[s] EXCEPT !.pc = pc]
    BY <1>1, <2>2 DEF Goto
  <2>. QED
    BY <1>1, <2>1, <2>3 DEF Applies, ScriptRec
<1>4. CASE Remove(s) \/ CreateNoShape(s)
  <2>1. RemoveFolder(s, script[s].name) /\ script[s].pc \in {"remove", "c_start"}
    BY <1>4, Zenon DEF Remove, CreateNoShape
  <2>2. script'[s] = Idle /\ building' = [building EXCEPT ![script[s].name] = 0]
    BY <2>1 DEF RemoveFolder
  <2>3. script[s].pc \notin MarkPCs /\ script[s].pc \notin SleepPCs /\ script[s].pc \notin ApplyPCs
    BY <2>1 DEF MarkPCs, ApplyPCs, SleepPCs
  <2>4. building[script[s].name] = 0
    BY <1>1, <2>1, <2>3, NoOtherMark, Places
  <2>5. building' = building
    BY <1>1, <2>2, <2>4
  <2>6. Idle.pc \notin BuildPCs \union {"failed", "retry"} /\ Idle.ads <= 1
    BY DEF Idle, BuildPCs, ApplyPCs
  <2>. QED
    BY <2>2, <2>3, <2>5, <2>6 DEF Leaves
<1>5. CASE GraceOver(s) \/ FailOver(s)
  <2>1. /\ script[s].pc \in SleepPCs /\ script[s].pc \notin ApplyPCs
        /\ building' = [building EXCEPT ![script[s].name] = 0]
    BY <1>1, <1>5 DEF GraceOver, FailOver, UnmarkBuilding, SleepPCs, ApplyPCs
  <2>2. script'[s].pc \notin BuildPCs \union {"failed", "retry"} /\ script'[s].ads <= 1
    <3>1. CASE GraceOver(s)
      BY <1>1, <3>1 DEF GraceOver, End, Idle, BuildPCs, ApplyPCs
    <3>2. CASE FailOver(s)
      <4>1. script[s].ads = 1
        BY <1>1, <3>2, ScriptFields DEF FailOver, CreatePCs
      <4>2. script'[s].pc = "force" /\ script'[s].ads = 0
        BY <1>1, <3>2, <4>1 DEF FailOver, ScriptRec
      <4>. QED
        BY <4>2 DEF BuildPCs, ApplyPCs
    <3>. QED
      BY <1>5, <3>1, <3>2
  <2>. QED
    BY <2>1, <2>2 DEF Leaves
<1>6. CASE DestroyGiveUp(s) \/ DeleteStart(s) \/ Cleanup(s) \/ Destroy(s)
  <2>1. building' = building
    BY <1>6, Zenon DEF DestroyGiveUp, DeleteStart, Cleanup, Destroy, fileVars
  <2>2. script[s].pc \notin SleepPCs /\ script[s].pc \notin ApplyPCs
    BY <1>6 DEF DestroyGiveUp, DeleteStart, Cleanup, Destroy, SleepPCs, ApplyPCs
  <2>3. script'[s] = Idle \/ (script'[s].pc \in DestroyPCs /\ script'[s].ads = script[s].ads)
    <3>1. CASE DestroyGiveUp(s) \/ (DeleteStart(s) /\ End(s))
      BY <1>1, <3>1 DEF DestroyGiveUp, End
    <3>2. CASE DeleteStart(s) /\ ~End(s)
      <4>1. script' = [script EXCEPT ![s].pc = "cleanup", ![s].here = TRUE]
        BY <3>2, Zenon DEF DeleteStart
      <4>. QED
        BY <1>1, <4>1 DEF ScriptRec, DestroyPCs
    <3>3. CASE Cleanup(s) \/ Destroy(s)
      <4>1. \E pc \in DestroyPCs : Goto(s, pc)
        BY <3>3 DEF Cleanup, Destroy, DestroyPCs
      <4>. QED
        BY <1>1, <4>1 DEF Goto, ScriptRec
    <3>. QED
      BY <1>6, <3>1, <3>2, <3>3
  <2>. QED
    BY <1>1, <2>1, <2>2, <2>3 DEF Leaves, DestroyPCs, BuildPCs, ApplyPCs, Idle
<1>7. CASE CreateRetry(s)
  BY <1>1, <1>7 DEF CreateRetry
<1>. QED
  BY <1>2, <1>3, <1>4, <1>5, <1>6, <1>7, Zenon DEF Does

LEMMA ScriptStepTags ==
  ASSUME Base, Tags, NEW s \in Scripts, Does(s)
  PROVE  Tags'
<1>1. /\ building \in [Names -> Nat] /\ script[s].size \in Nat
      /\ OneAD /\ MarkedAtWork /\ Tagged /\ OneCreator
      /\ \A r \in Scripts : script[r].pc # "idle" => script[r].name \in Names
  BY BaseTypes, LifeParts DEF Tags
<1>2. Keeps(s) /\ (Begins(s) \/ Applies(s) \/ Leaves(s))
  BY ScriptStepKeeps, ScriptStepMoves
<1>3. OneAD'
  <2>1. script'[s].ads <= 1 /\ script'[s].pc # "retry"
    BY <1>1, <1>2 DEF OneAD, Begins, Applies, Leaves, ApplyPCs, MarkPCs
  <2>. QED
    BY <1>1, <1>2, <2>1 DEF OneAD, Keeps
<1>4. MarkedAtWork'
  <2>1. SUFFICES ASSUME NEW c \in Names, building'[c] > 0
                 PROVE  \E r \in Scripts : script'[r].name = c /\ script'[r].pc \in MarkPCs
    BY DEF MarkedAtWork, At
  <2>2. CASE Begins(s) /\ script[s].name = c
    BY <2>2 DEF Begins, MarkPCs, ApplyPCs
  <2>3. CASE ~(Begins(s) /\ script[s].name = c)
    <3>1. building[c] > 0 /\ (script[s].pc \in SleepPCs => script[s].name # c \/ Applies(s))
      BY <1>1, <1>2, <2>1, <2>3 DEF Begins, Applies, Leaves, SleepPCs
    <3>2. PICK r \in Scripts : script[r].name = c /\ script[r].pc \in MarkPCs
      BY <1>1, <3>1 DEF MarkedAtWork, At
    <3>3. CASE r # s
      BY <1>2, <3>2, <3>3 DEF Keeps
    <3>4. CASE r = s
      BY <1>2, <2>3, <3>1, <3>2, <3>4 DEF Applies, Leaves, MarkPCs, SleepPCs
    <3>. QED
      BY <3>3, <3>4
  <2>. QED
    BY <2>2, <2>3
<1>5. Tagged'
  <2>1. SUFFICES ASSUME NEW r \in Scripts, script'[r].pc \in MarkPCs
                 PROVE  script'[r].here /\ building'[script'[r].name] = script'[r].size
    BY DEF Tagged
  <2>2. CASE r = s
    <3>1. CASE Begins(s)
      <4>1. script[s].name \in Names
        BY <1>1, <3>1 DEF Begins
      <4>. QED
        BY <1>1, <2>2, <3>1, <4>1 DEF Begins
    <3>2. CASE Applies(s)
      BY <1>1, <2>2, <3>2 DEF Applies, Tagged, MarkPCs
    <3>3. CASE Leaves(s)
      BY <2>1, <2>2, <3>3 DEF Leaves, BuildPCs, MarkPCs
    <3>. QED
      BY <1>2, <3>1, <3>2, <3>3
  <2>3. CASE r # s
    <3>1. /\ script[r].pc \in MarkPCs /\ IsCreate(script[r]) /\ script'[r] = script[r]
          /\ script[r].name \in Names
      BY <1>1, <1>2, <2>1, <2>3, BuildPlaces, Places DEF Keeps
    <3>2. script[r].here /\ building[script[r].name] = script[r].size
      BY <1>1, <3>1 DEF Tagged
    <3>3. building' = building \/ IsCreate(script[s])
      BY <1>2, Places DEF Begins, Applies, Leaves, SleepPCs, IsCreate, CreatePCs
    <3>4. building'[script[r].name] = building[script[r].name]
      <4>1. CASE building' = building
        BY <4>1
      <4>2. CASE IsCreate(script[s])
        <5>1. script[r].name # script[s].name
          BY <1>1, <2>3, <3>1, <4>2 DEF OneCreator
        <5>. QED
          BY <1>1, <1>2, <3>1, <5>1 DEF Begins, Applies, Leaves
      <4>. QED
        BY <3>3, <4>1, <4>2
    <3>. QED
      BY <3>1, <3>2, <3>4
  <2>. QED
    BY <2>2, <2>3
<1>. QED
  BY <1>3, <1>4, <1>5 DEF Tags

(* Only terraform apply adds nodes to Slurm: those its script is to bring. *)
LEMMA NodesOfStep ==
  ASSUME Base, Tags, NEW s \in Scripts, Does(s), NEW c \in Names
  PROVE  \/ reg'[c] <= reg[c]
         \/ /\ ApplyConfigure(s) /\ script[s].name = c /\ building[c] = script[s].size
            /\ reg'[c] = building[c]
<1>1. /\ TypeOK /\ Listed /\ reg \in [Names -> Nat] /\ reg[c] \in Nat
      /\ script[s].pc # "idle" => script[s].name \in Names
      /\ \A d \in Names : dead[d] = 0
  BY BaseTypes, LifeParts DEF Listed
<1>2. CASE ApplyConfigure(s)
  <2>1. /\ script[s].name \in Names /\ script[s].pc \in MarkPCs
        /\ reg' = [reg EXCEPT ![script[s].name] = dead[script[s].name] + script[s].size]
    BY <1>1, <1>2 DEF ApplyConfigure, MarkPCs, ApplyPCs
  <2>2. building[script[s].name] = script[s].size /\ script[s].size \in Nat
    BY <2>1, BaseTypes DEF Tags, Tagged
  <2>. QED
    BY <1>1, <1>2, <2>1, <2>2
<1>3. CASE DeleteStart(s) \/ Cleanup(s) \/ Remove(s)
  <2>1. script[s].name \in Names
    BY <1>1, <1>3 DEF DeleteStart, Cleanup, Remove
  <2>2. reg' = reg \/ \E left \in 0 .. reg[script[s].name] : Unlist(script[s].name, left)
    <3>1. CASE DeleteStart(s) \/ Remove(s)
      BY <3>1, Zenon DEF DeleteStart, Remove, RemoveUnreachable, slurmVars
    <3>2. CASE Cleanup(s)
      <4>1. PICK left \in dead[script[s].name] .. reg[script[s].name] : Unlist(script[s].name, left)
        <5>1. dead[script[s].name] \in dead[script[s].name] .. reg[script[s].name]
          BY <1>1, <2>1
        <5>. QED
          BY <3>2, <5>1, Zenon DEF Cleanup
      <4>2. left \in 0 .. reg[script[s].name]
        BY <1>1, <2>1, <4>1
      <4>. QED
        BY <4>1, <4>2
    <3>. QED
      BY <1>3, <3>1, <3>2
  <2>. QED
    BY <1>1, <2>1, <2>2 DEF Unlist
<1>4. CASE ~(ApplyConfigure(s) \/ DeleteStart(s) \/ Cleanup(s) \/ Remove(s))
  <2>1. reg' = reg
    BY <1>4, Zenon DEF Does, CreateStart, CreateNoShape, ApplyLaunch, ApplyDone, ApplyFail,
       GraceOver, FailOver, CreateRetry, Destroy, DestroyGiveUp, cloudVars, slurmVars
  <2>. QED
    BY <1>1, <2>1
<1>. QED
  BY <1>2, <1>3, <1>4

(* No script makes more nodes than were promised. *)
LEMMA ScriptStepCovers ==
  ASSUME Base, Tags, NEW s \in Scripts, Does(s), NEW f \in [Names -> Nat], Covers(f)
  PROVE  Covers(f)'
<1>1. /\ building \in [Names -> Nat] /\ reg \in [Names -> Nat] /\ reg' \in [Names -> Nat]
      /\ script[s].pc # "idle" => script[s].name \in Names
      /\ script[s].size \in Nat
  BY BaseTypes, ScriptStepTypeOK DEF TypeOK, ScriptsTypeOK
<1>2. Keeps(s) /\ (Begins(s) \/ Applies(s) \/ Leaves(s))
  BY ScriptStepKeeps, ScriptStepMoves
<1>3. ASSUME NEW c \in Names PROVE building'[c] <= f[c]
  <2>1. building[c] <= f[c] /\ f[c] \in Nat
    BY DEF Covers
  <2>2. CASE Begins(s)
    <3>1. script[s].size <= f[script[s].name]
      BY <2>2 DEF Begins, Covers
    <3>. QED
      BY <1>1, <2>1, <2>2, <3>1 DEF Begins
  <2>. QED
    BY <1>1, <1>2, <2>1, <2>2 DEF Applies, Leaves
<1>4. ASSUME NEW c \in Names PROVE reg'[c] <= f[c]
  <2>1. reg[c] <= f[c] /\ building[c] <= f[c]
    BY DEF Covers
  <2>2. reg[c] \in Nat /\ reg'[c] \in Nat /\ building[c] \in Nat /\ f[c] \in Nat
    BY <1>1
  <2>3. reg'[c] <= reg[c] \/ reg'[c] = building[c]
    BY NodesOfStep
  <2>. QED
    BY <2>1, <2>2, <2>3
<1>5. ASSUME NEW r \in Scripts, script'[r].pc = "c_start" PROVE script'[r].size <= f[script'[r].name]
  <2>1. r # s
    BY <1>2, <1>5 DEF Begins, Applies, Leaves, BuildPCs, ApplyPCs, MarkPCs
  <2>. QED
    BY <1>2, <1>5, <2>1 DEF Keeps, Covers
<1>. QED
  BY <1>3, <1>4, <1>5 DEF Covers

(* While a pass is between its reads only a sleep that had begun ends. *)
LEMMA Sleeping ==
  ASSUME ~SlowScan, pass = "scan", NEW s \in Scripts, ScriptStep(s)
  PROVE  /\ asleep' \subseteq asleep
         /\ script[s].pc \in SleepPCs => s \in asleep /\ s \notin asleep'
<1>1. asleep' \subseteq asleep
  BY ScriptStepParts
<1>2. ASSUME script[s].pc \in SleepPCs PROVE SleepOver(s)
  <2>1. ~( \/ CreateStart(s) \/ CreateNoShape(s)
           \/ ApplyLaunch(s) \/ ApplyConfigure(s) \/ ApplyDone(s) \/ ApplyFail(s)
           \/ CreateRetry(s)
           \/ DeleteStart(s) \/ Cleanup(s) \/ Destroy(s) \/ DestroyGiveUp(s) \/ Remove(s))
    BY <1>2 DEF CreateStart, CreateNoShape, ApplyLaunch, ApplyConfigure, ApplyDone, ApplyFail,
                CreateRetry, DeleteStart, Cleanup, Destroy, DestroyGiveUp, Remove, SleepPCs,
                ApplyPCs
  <2>. QED
    BY <2>1, Zenon DEF ScriptStep
<1>3. ASSUME SleepOver(s) PROVE s \in asleep /\ s \notin asleep'
  <2>1. s \in asleep /\ asleep' = asleep \ {s}
    BY <1>3, Zenon DEF SleepOver
  <2>. QED
    BY <2>1
<1>. QED
  BY <1>1, <1>2, <1>3

LEMMA ScriptStepSoFar ==
  ASSUME Base, Tags, SeenSoFar, ~SlowScan, NEW s \in Scripts, ScriptStep(s)
  PROVE  SeenSoFar'
<1>1. Does(s) /\ UNCHANGED <<pass, seen>>
  BY ScriptStepParts
<1>2. SUFFICES ASSUME pass = "scan"
               PROVE  /\ \A c \in Names : reg'[c] <= seen[c] + building'[c]
                      /\ \A r \in asleep' : /\ script'[r].pc \in SleepPCs
                                            /\ reg'[script'[r].name] <= seen[script'[r].name]
  BY <1>1 DEF SeenSoFar
<1>3. /\ building \in [Names -> Nat] /\ reg \in [Names -> Nat] /\ seen \in [Names -> Nat]
      /\ reg' \in [Names -> Nat] /\ OneCreator /\ asleep \subseteq Scripts
      /\ \A r \in Scripts : script[r].pc # "idle" => script[r].name \in Names
  BY <1>1, BaseTypes, LifeParts, ScriptStepTypeOK DEF TypeOK, ScriptsTypeOK
<1>4. Keeps(s) /\ (Applies(s) \/ Leaves(s))
  <2>1. Starting = {}
    BY <1>2, BaseTypes DEF CountInv, StartsInBuildOnly
  <2>2. ~Begins(s)
    BY <1>3, <2>1 DEF Begins, Starting, At
  <2>. QED
    BY <1>1, <2>2, ScriptStepKeeps, ScriptStepMoves
<1>5. asleep' \subseteq asleep /\ (script[s].pc \in SleepPCs => s \in asleep /\ s \notin asleep')
  BY <1>2, Sleeping
<1>6. ASSUME NEW c \in Names PROVE reg'[c] <= seen[c] + building'[c]
  <2>1. reg[c] \in Nat /\ reg'[c] \in Nat /\ seen[c] \in Nat /\ building[c] \in Nat
    BY <1>3
  <2>2. reg[c] <= seen[c] + building[c]
    BY <1>2 DEF SeenSoFar
  <2>3. CASE building' = building
    <3>1. reg'[c] <= reg[c] \/ reg'[c] = building[c]
      BY <1>1, NodesOfStep
    <3>. QED
      BY <2>1, <2>2, <2>3, <3>1
  <2>4. CASE building' # building
    <3>1. script[s].pc \in SleepPCs /\ building' = [building EXCEPT ![script[s].name] = 0]
      BY <1>4, <2>4 DEF Applies, Leaves
    <3>2. reg[script[s].name] <= seen[script[s].name]
      BY <1>2, <1>5, <3>1 DEF SeenSoFar
    <3>3. reg'[c] <= reg[c]
      <4>1. ~ApplyConfigure(s)
        BY <3>1 DEF ApplyConfigure, SleepPCs
      <4>. QED
        BY <1>1, <4>1, NodesOfStep
    <3>4. building'[c] = building[c] \/ (c = script[s].name /\ building'[c] = 0)
      BY <1>3, <3>1
    <3>. QED
      BY <2>1, <2>2, <3>2, <3>3, <3>4
  <2>. QED
    BY <2>3, <2>4
<1>7. ASSUME NEW r \in asleep'
      PROVE  script'[r].pc \in SleepPCs /\ reg'[script'[r].name] <= seen[script'[r].name]
  <2>1. r \in asleep /\ r \in Scripts /\ script[r].pc \in SleepPCs
    BY <1>2, <1>3, <1>5 DEF SeenSoFar
  <2>2. r # s
    BY <1>5, <2>1
  <2>3. script'[r].pc = script[r].pc /\ script'[r].name = script[r].name
    BY <1>4, <2>1, <2>2 DEF Keeps
  <2>4. IsCreate(script[r]) /\ script[r].name \in Names
    BY <1>3, <2>1 DEF SleepPCs, IsCreate, CreatePCs
  <2>5. reg'[script[r].name] <= reg[script[r].name]
    <3>1. ApplyConfigure(s) => script[s].name # script[r].name
      <4>1. ApplyConfigure(s) => IsCreate(script[s])
        BY DEF ApplyConfigure, IsCreate, CreatePCs, ApplyPCs
      <4>. QED
        BY <1>3, <2>1, <2>2, <2>4, <4>1 DEF OneCreator
    <3>. QED
      BY <1>1, <2>4, <3>1, NodesOfStep
  <2>6. reg[script[r].name] <= seen[script[r].name]
    BY <1>2, <2>1 DEF SeenSoFar
  <2>7. /\ reg[script[r].name] \in Nat /\ reg'[script[r].name] \in Nat
        /\ seen[script[r].name] \in Nat
    BY <1>3, <2>4
  <2>. QED
    BY <2>1, <2>3, <2>5, <2>6, <2>7
<1>. QED
  BY <1>6, <1>7

LEMMA ScriptStepNodes ==
  ASSUME Base, Tags, NodesInv, ~SlowScan, NEW s \in Scripts, ScriptStep(s)
  PROVE  NodesInv'
<1>1. Does(s) /\ UNCHANGED <<pass, seen>>
  BY ScriptStepParts
<1>2. Planned'
  <2>1. PICK plan \in [Names -> Nat] : Covers(plan) /\ \A t \in Types : Within(plan, t)
    BY DEF NodesInv, Planned
  <2>2. Covers(plan)'
    BY <1>1, <2>1, ScriptStepCovers
  <2>3. \A t \in Types : Within(plan, t)'
    BY <2>1 DEF Within
  <2>. QED
    BY <2>2, <2>3 DEF Planned
<1>3. SeenAll'
  <2>1. SUFFICES ASSUME pass \in ActPlaces PROVE Covers(seen)'
    BY <1>1 DEF SeenAll
  <2>2. PICK f \in [Names -> Nat] : f = seen
    BY BaseTypes
  <2>3. Covers(f)
    BY <2>1, <2>2 DEF NodesInv, SeenAll
  <2>4. Covers(f)'
    BY <1>1, <2>3, ScriptStepCovers
  <2>. QED
    BY <1>1, <2>2, <2>4 DEF Covers
<1>4. SeenSoFar'
  BY ScriptStepSoFar DEF NodesInv
<1>. QED
  BY <1>2, <1>3, <1>4 DEF NodesInv

-----------------------------------------------------------------------------
(* The demand *)

LEMMA JobSets ==
  ASSUME NEW S \in SUBSET Jobs, NEW n, NEW t
  PROVE  /\ Wanting(S, n, t) \subseteq S
         /\ IsFiniteSet(Wanting(S, n, t)) /\ Cardinality(Wanting(S, n, t)) \in Nat
         /\ IsFiniteSet(Submitted(n, t)) /\ Cardinality(Submitted(n, t)) \in Nat
<1>1. Wanting(S, n, t) \subseteq S /\ Wanting(S, n, t) \subseteq Jobs /\ Submitted(n, t) \subseteq Jobs
  BY DEF Wanting, Submitted
<1>. QED
  BY <1>1, FiniteAssumption, FS_Subset, FS_CardinalityType

LEMMA BuildsFinite ==
  ASSUME NEW n, NEW t
  PROVE  IsFiniteSet(Builds(n, t)) /\ Cardinality(Builds(n, t)) \in Nat
<1>1. Builds(n, t) \subseteq Scripts
  BY DEF Builds
<1>. QED
  BY <1>1, FiniteAssumption, FS_Subset, FS_CardinalityType

LEMMA MoreJobs ==
  ASSUME \A k \in Jobs : job[k] # "new" => job'[k] # "new", NEW n, NEW t
  PROVE  /\ Cardinality(Submitted(n, t)) \in Nat /\ Cardinality(Submitted(n, t)') \in Nat
         /\ Cardinality(Submitted(n, t)) <= Cardinality(Submitted(n, t)')
<1>1. /\ Submitted(n, t) \subseteq Submitted(n, t)'
      /\ Submitted(n, t) \subseteq Jobs /\ Submitted(n, t)' \subseteq Jobs
  BY DEF Submitted, Wanting
<1>2. IsFiniteSet(Submitted(n, t)) /\ IsFiniteSet(Submitted(n, t)')
  BY <1>1, FiniteAssumption, FS_Subset
<1>. QED
  BY <1>1, <1>2, FS_CardinalityType, FS_Subset

LEMMA FewerBuilds ==
  ASSUME \A r \in Scripts : script'[r].pc \in BuildPCs =>
           /\ script[r].pc \in BuildPCs
           /\ script'[r].size = script[r].size /\ script'[r].name = script[r].name,
         NEW n, NEW t
  PROVE  /\ Cardinality(Builds(n, t)) \in Nat /\ Cardinality(Builds(n, t)') \in Nat
         /\ Cardinality(Builds(n, t)') <= Cardinality(Builds(n, t))
<1>1. /\ Builds(n, t)' \subseteq Builds(n, t)
      /\ Builds(n, t) \subseteq Scripts
  BY DEF Builds
<1>2. IsFiniteSet(Builds(n, t)) /\ IsFiniteSet(Builds(n, t)')
  BY <1>1, FiniteAssumption, FS_Subset
<1>. QED
  BY <1>1, <1>2, FS_CardinalityType, FS_Subset

(* Fewer builds and more jobs, and a pass that has no more to build for.   *)
LEMMA DemandKept ==
  ASSUME Base, DemandInv,
         \A k \in Jobs : job[k] # "new" => job'[k] # "new",
         \A r \in Scripts : script'[r].pc \in BuildPCs =>
           /\ script[r].pc \in BuildPCs
           /\ script'[r].size = script[r].size /\ script'[r].name = script[r].name,
         toBuild' \subseteq toBuild,
         pass' \in ActPlaces => pass \in ActPlaces
  PROVE  DemandInv'
<1>1. \A n, t : /\ Cardinality(Submitted(n, t)) \in Nat /\ Cardinality(Submitted(n, t)') \in Nat
                /\ Cardinality(Submitted(n, t)) <= Cardinality(Submitted(n, t)')
  BY MoreJobs
<1>2. \A n, t : /\ Cardinality(Builds(n, t)) \in Nat /\ Cardinality(Builds(n, t)') \in Nat
                /\ Cardinality(Builds(n, t)') <= Cardinality(Builds(n, t))
  BY FewerBuilds
<1>3. FewBuilds'
  <2>1. SUFFICES ASSUME NEW n \in Nat, NEW t \in Types
                 PROVE  Cardinality(Builds(n, t)') <= Cardinality(Submitted(n, t)')
    BY DEF FewBuilds
  <2>2. Cardinality(Builds(n, t)) <= Cardinality(Submitted(n, t))
    BY DEF DemandInv, FewBuilds
  <2>. QED
    BY <1>1, <1>2, <2>2
<1>4. KnownJobs'
  BY BaseTypes DEF DemandInv, KnownJobs
<1>5. RoomForMore'
  <2>1. SUFFICES ASSUME pass' \in ActPlaces, NEW n \in Nat, NEW t \in Types
                 PROVE  Cardinality(Builds(n, t)') + Cardinality(Wanting(toBuild', n, t))
                          <= Cardinality(Submitted(n, t)')
    BY DEF RoomForMore, Wanting
  <2>2. Cardinality(Builds(n, t)) + Cardinality(Wanting(toBuild, n, t))
          <= Cardinality(Submitted(n, t))
    BY <2>1 DEF DemandInv, RoomForMore
  <2>3. toBuild \in SUBSET Jobs /\ toBuild' \in SUBSET Jobs
    BY BaseTypes
  <2>4. /\ Cardinality(Wanting(toBuild, n, t)) \in Nat /\ Cardinality(Wanting(toBuild', n, t)) \in Nat
        /\ IsFiniteSet(Wanting(toBuild, n, t))
    BY <2>3, JobSets
  <2>5. Wanting(toBuild', n, t) \subseteq Wanting(toBuild, n, t)
    BY DEF Wanting
  <2>6. Cardinality(Wanting(toBuild', n, t)) <= Cardinality(Wanting(toBuild, n, t))
    BY <2>4, <2>5, FS_Subset
  <2>. QED
    BY <1>1, <1>2, <2>2, <2>4, <2>6
<1>. QED
  BY <1>3, <1>4, <1>5 DEF DemandInv

LEMMA ScriptStepDemand ==
  ASSUME Base, Tags, DemandInv, NEW s \in Scripts, ScriptStep(s)
  PROVE  DemandInv'
<1>1. Does(s) /\ UNCHANGED <<pass, toBuild>>
  BY ScriptStepParts
<1>2. Keeps(s) /\ (Begins(s) \/ Applies(s) \/ Leaves(s))
  BY <1>1, ScriptStepKeeps, ScriptStepMoves
<1>3. \A k \in Jobs : job[k] # "new" => job'[k] # "new"
  <2>1. CASE Destroy(s)
    BY <2>1 DEF Destroy
  <2>2. CASE ~Destroy(s)
    <3>1. job' = job
      BY <1>1, <2>2, Zenon DEF Does, CreateStart, CreateNoShape, ApplyLaunch, ApplyConfigure,
         ApplyDone, ApplyFail, GraceOver, FailOver, CreateRetry, DeleteStart, Cleanup,
         DestroyGiveUp, Remove, jobVars
    <3>. QED
      BY <3>1
  <2>. QED
    BY <2>1, <2>2
<1>4. ASSUME NEW r \in Scripts, script'[r].pc \in BuildPCs
      PROVE  /\ script[r].pc \in BuildPCs
             /\ script'[r].size = script[r].size /\ script'[r].name = script[r].name
  <2>1. CASE r # s
    BY <1>2, <1>4, <2>1 DEF Keeps
  <2>2. CASE r = s
    BY <1>2, <1>4, <2>2 DEF Begins, Applies, Leaves, BuildPCs
  <2>. QED
    BY <2>1, <2>2
<1>. QED
  BY <1>1, <1>3, <1>4, DemandKept

-----------------------------------------------------------------------------
(* The steps of the pass, of jobs and of time *)

LEMMA StillTagged ==
  ASSUME Tags, UNCHANGED <<building, script>>
  PROVE  Tags'
  BY Zenon DEF Tags, OneAD, MarkedAtWork, At, Tagged

LEMMA StillCovers ==
  ASSUME UNCHANGED <<building, reg, script>>
  PROVE  \A f : Covers(f)' <=> Covers(f)
  BY DEF Covers

LEMMA StillPlanned ==
  ASSUME Planned, UNCHANGED <<building, reg, script>>
  PROVE  Planned'
<1>1. PICK plan \in [Names -> Nat] : Covers(plan) /\ \A t \in Types : Within(plan, t)
  BY DEF Planned
<1>2. Covers(plan)' /\ \A t \in Types : Within(plan, t)'
  BY <1>1 DEF Covers, Within
<1>. QED
  BY <1>2 DEF Planned

(* Nothing that is counted changes, nor what the pass has counted. *)
LEMMA CountedStays ==
  ASSUME Base, NodesInv, UNCHANGED <<building, reg, script, seen>>,
         \/ pass' \in {"off", "jobs", "nodes"}
         \/ pass' = pass /\ asleep' = asleep
         \/ pass \in ActPlaces /\ pass' \in ActPlaces
  PROVE  NodesInv'
<1>1. Planned'
  BY StillPlanned DEF NodesInv
<1>2. SeenSoFar'
  BY DEF NodesInv, SeenSoFar, ActPlaces
<1>3. SeenAll'
  BY DEF NodesInv, SeenAll, Covers, ActPlaces
<1>. QED
  BY <1>1, <1>2, <1>3 DEF NodesInv

LEMMA ListNodesKeeps ==
  ASSUME Base, NodesInv, ListNodes
  PROVE  NodesInv'
<1>1. UNCHANGED scriptVars /\ seen' = reg /\ pass' = "scan"
      /\ asleep' = {s \in Scripts : script[s].pc \in {"grace", "failed"}}
  BY Zenon DEF ListNodes
<1>2. UNCHANGED <<building, reg, script>>
  BY <1>1, Zenon DEF scriptVars, fileVars, cloudVars, slurmVars
<1>3. Planned'
  BY <1>2, StillPlanned DEF NodesInv
<1>4. SeenSoFar'
  <2>1. \A c \in Names : reg[c] \in Nat /\ building[c] \in Nat
    BY BaseTypes
  <2>2. \A c \in Names : reg'[c] <= seen'[c] + building'[c]
    BY <1>1, <1>2, <2>1
  <2>3. ASSUME NEW s \in asleep'
        PROVE  script'[s].pc \in SleepPCs /\ reg'[script'[s].name] <= seen'[script'[s].name]
    <3>1. s \in Scripts /\ script[s].pc \in SleepPCs
      BY <1>1 DEF SleepPCs
    <3>2. script[s].name \in Names
      BY <3>1, BaseTypes DEF SleepPCs
    <3>. QED
      BY <1>1, <1>2, <2>1, <3>1, <3>2
  <2>. QED
    BY <2>2, <2>3 DEF SeenSoFar
<1>5. SeenAll'
  BY <1>1 DEF SeenAll, ActPlaces
<1>. QED
  BY <1>3, <1>4, <1>5 DEF NodesInv

LEMMA ReadFoldersNodes ==
  ASSUME Base, NodesInv, ReadFolders
  PROVE  NodesInv'
<1>1. /\ UNCHANGED <<building, reg, script>> /\ pass = "scan" /\ pass' = "destroy"
      /\ seen' = [c \in Names |-> seen[c] + building[c]]
  BY Zenon DEF ReadFolders, scriptVars, fileVars, cloudVars, slurmVars
<1>2. Planned'
  BY <1>1, StillPlanned DEF NodesInv
<1>3. SeenSoFar'
  BY <1>1 DEF SeenSoFar
<1>4. SeenAll'
  <2>1. /\ building \in [Names -> Nat] /\ reg \in [Names -> Nat] /\ seen \in [Names -> Nat]
        /\ Starting = {}
    BY <1>1, BaseTypes DEF CountInv, StartsInBuildOnly
  <2>2. \A c \in Names : reg[c] <= seen[c] + building[c]
    BY <1>1 DEF NodesInv, SeenSoFar
  <2>3. \A c \in Names : building'[c] <= seen'[c] /\ reg'[c] <= seen'[c]
    BY <1>1, <2>1, <2>2
  <2>4. \A s \in Scripts : script'[s].pc # "c_start"
    BY <1>1, <2>1, BaseTypes DEF Starting, At
  <2>. QED
    BY <2>3, <2>4 DEF SeenAll, Covers
<1>. QED
  BY <1>2, <1>3, <1>4 DEF NodesInv

(* Every build under way shows in the marker of its cluster.               *)
LEMMA BuildsAreMarked ==
  ASSUME Base, Tags, Starting = {}, NEW n, NEW t
  PROVE  /\ IsFiniteSet(BeingBuilt(n, t)) /\ Cardinality(BeingBuilt(n, t)) \in Nat
         /\ Cardinality(Builds(n, t)) <= Cardinality(BeingBuilt(n, t))
<1>1. BeingBuilt(n, t) \subseteq OfType(Names, t) /\ IsFiniteSet(OfType(Names, t))
  BY OfTypeFinite DEF BeingBuilt
<1>2. IsFiniteSet(BeingBuilt(n, t)) /\ Cardinality(BeingBuilt(n, t)) \in Nat
  BY <1>1, FS_Subset, FS_CardinalityType
<1>3. PICK B : B = Builds(n, t)
  OBVIOUS
<1>4. PICK m : m = [s \in B |-> script[s].name]
  OBVIOUS
<1>5. ASSUME NEW s \in B
      PROVE  /\ s \in Scripts /\ IsCreate(script[s])
             /\ m[s] = script[s].name /\ m[s] \in BeingBuilt(n, t)
  <2>1. s \in Scripts /\ script[s].pc \in BuildPCs /\ script[s].size = n /\ TypeOf(script[s].name) = t
    BY <1>3 DEF Builds
  <2>2. script[s].name \in Names /\ IsCreate(script[s])
    BY <2>1, BaseTypes, BuildPlaces
  <2>3. script[s].pc # "c_start"
    BY <2>1, <2>2 DEF Starting, At
  <2>4. building[script[s].name] = n
    BY <2>1, <2>3 DEF Tags, Tagged, BuildPCs, MarkPCs
  <2>. QED
    BY <1>4, <2>1, <2>2, <2>4 DEF BeingBuilt, OfType
<1>6. ASSUME NEW r \in B, NEW s \in B, m[r] = m[s] PROVE r = s
  BY <1>5, <1>6 DEF Base, LifeInv, ScriptShape, OneCreator
<1>7. m \in Injection(B, BeingBuilt(n, t))
  BY <1>4, <1>5, <1>6 DEF Injection, IsInjective
<1>8. Cardinality(B) <= Cardinality(BeingBuilt(n, t))
  BY <1>2, <1>7, FS_Injection
<1>. QED
  BY <1>2, <1>3, <1>8

(* The matching leaves no more jobs than have no cluster on its way.       *)
LEMMA ReadFoldersDemand ==
  ASSUME Base, Tags, DemandInv, ReadFolders
  PROVE  DemandInv'
<1>1. PICK R \in SUBSET toBuild : Unmatched(toBuild, R) /\ toBuild' = R
  BY Zenon DEF ReadFolders
<1>2. UNCHANGED <<script, job>> /\ pass = "scan" /\ Starting = {}
  <2>1. UNCHANGED <<script, job>> /\ pass = "scan"
    BY Zenon DEF ReadFolders, scriptVars, jobVars
  <2>. QED
    BY <2>1 DEF Base, CountInv, StartsInBuildOnly
<1>3. toBuild \in SUBSET Jobs /\ R \in SUBSET Jobs
  BY BaseTypes
<1>2a. \A n, t : Builds(n, t)' = Builds(n, t) /\ Submitted(n, t)' = Submitted(n, t)
  BY <1>2 DEF Builds, Submitted, Wanting
<1>4. FewBuilds'
  BY <1>2a, Zenon DEF DemandInv, FewBuilds
<1>5. KnownJobs'
  BY <1>1, <1>2 DEF DemandInv, KnownJobs
<1>6. RoomForMore'
  <2>1. SUFFICES ASSUME NEW n \in Nat, NEW t \in Types
                 PROVE  Cardinality(Builds(n, t)) + Cardinality(Wanting(R, n, t))
                          <= Cardinality(Submitted(n, t))
    BY <1>1, <1>2a, Zenon DEF RoomForMore, Wanting
  <2>2. PICK b, m, w, r, q :
          /\ b = Cardinality(Builds(n, t)) /\ m = Cardinality(BeingBuilt(n, t))
          /\ w = Cardinality(Wanting(toBuild, n, t)) /\ r = Cardinality(Wanting(R, n, t))
          /\ q = Cardinality(Submitted(n, t))
    OBVIOUS
  <2>3. b \in Nat /\ m \in Nat /\ b <= m
    BY <1>2, <2>2, BuildsAreMarked, BuildsFinite
  <2>4. w \in Nat /\ r \in Nat /\ q \in Nat /\ b <= q
    BY <1>3, <2>2, JobSets DEF DemandInv, FewBuilds
  <2>5. w <= q
    <3>1. Wanting(toBuild, n, t) \subseteq Submitted(n, t)
      BY <1>3 DEF DemandInv, KnownJobs, Wanting, Submitted
    <3>2. IsFiniteSet(Submitted(n, t))
      BY <1>3, JobSets
    <3>. QED
      BY <2>2, <3>1, <3>2, FS_Subset
  <2>6. r = 0 \/ r = IF w > m THEN w - m ELSE 0
    <3>1. CASE Wanting(R, n, t) = {}
      BY <2>2, <3>1, FS_EmptySet
    <3>2. CASE Wanting(R, n, t) # {}
      <4>1. PICK j \in R : JobSize[j] = n /\ JobType[j] = t
        BY <3>2 DEF Wanting
      <4>. QED
        BY <1>1, <2>2, <4>1 DEF Unmatched
    <3>. QED
      BY <3>1, <3>2
  <2>7. b + r <= q
    BY <2>3, <2>4, <2>5, <2>6
  <2>. QED
    BY <2>2, <2>7
<1>. QED
  BY <1>4, <1>5, <1>6 DEF DemandInv

LEMMA PassOnlyLimit ==
  ASSUME Base, LimitInv, PassOnly \/ PassCrash \/ UNCHANGED vars
  PROVE  LimitInv'
<1>1. UNCHANGED scriptVars
  BY PassOnlyKeeps, Zenon DEF PassCrash, vars
<1>2. UNCHANGED <<building, reg, script, job>>
  BY <1>1, Zenon DEF scriptVars, fileVars, cloudVars, slurmVars, jobVars
<1>3. Tags'
  BY <1>2, StillTagged DEF LimitInv
<1>4. NodesInv'
  <2>1. CASE ListNodes \/ ReadFolders
    BY <2>1, ListNodesKeeps, ReadFoldersNodes DEF LimitInv
  <2>2. CASE NodeGone \/ ResizeRaises \/ PassEnd \/ PassCrash
    <3>1. pass' = "off"
      BY <2>2, Zenon DEF NodeGone, ResizeRaises, PassEnd, PassCrash, Forget
    <3>2. Planned'
      BY <1>2, StillPlanned DEF LimitInv, NodesInv
    <3>. QED
      BY <3>1, <3>2 DEF NodesInv, SeenSoFar, SeenAll, ActPlaces
  <2>3. CASE PassStart \/ ReadJobs \/ AgeOne \/ JudgeOne \/ NothingToResize \/ SkipOne \/ RefuseOne
             \/ UNCHANGED vars
    <3>1. UNCHANGED <<seen, asleep>>
      BY <2>3, Zenon DEF PassStart, ReadJobs, AgeOne, JudgeOne, NothingToResize, SkipOne, RefuseOne,
         vars, passVars, scanVars
    <3>2. \/ pass' \in {"off", "jobs", "nodes"}
          \/ pass' = pass
          \/ pass \in ActPlaces /\ pass' \in ActPlaces
      BY <2>3 DEF PassStart, ReadJobs, AgeOne, JudgeOne, NothingToResize, SkipOne, RefuseOne,
         vars, passVars, ActPlaces
    <3>. QED
      BY <1>2, <3>1, <3>2, CountedStays DEF LimitInv
  <2>. QED
    BY <2>1, <2>2, <2>3 DEF PassOnly
<1>5. DemandInv'
  <2>1. CASE ReadFolders
    BY <2>1, ReadFoldersDemand DEF LimitInv
  <2>2. CASE ReadJobs
    <3>1. FewBuilds'
      <4>1. \A n, t : Builds(n, t)' = Builds(n, t) /\ Submitted(n, t)' = Submitted(n, t)
        BY <1>2 DEF Builds, Submitted, Wanting
      <4>. QED
        BY <4>1, Zenon DEF LimitInv, DemandInv, FewBuilds
    <3>2. KnownJobs' /\ RoomForMore'
      BY <1>2, <2>2 DEF ReadJobs, KnownJobs, RoomForMore, ActPlaces
    <3>. QED
      BY <3>1, <3>2 DEF DemandInv
  <2>3. CASE ~(ReadFolders \/ ReadJobs)
    <3>1. /\ toBuild' \subseteq toBuild
          /\ pass' \in ActPlaces => pass \in ActPlaces
      <4>1. CASE PassStart \/ ListNodes \/ AgeOne \/ JudgeOne \/ NothingToResize \/ UNCHANGED vars
        <5>1. toBuild' = toBuild
          BY <4>1, Zenon DEF PassStart, ListNodes, AgeOne, JudgeOne, NothingToResize, vars, passVars
        <5>2. pass' \in ActPlaces => pass \in ActPlaces
          BY <4>1 DEF PassStart, ListNodes, AgeOne, JudgeOne, NothingToResize, vars, passVars,
                      ActPlaces
        <5>. QED
          BY <5>1, <5>2
      <4>2. CASE SkipOne \/ RefuseOne
        BY <4>2 DEF SkipOne, RefuseOne
      <4>3. CASE NodeGone \/ ResizeRaises \/ PassEnd \/ PassCrash
        BY <4>3 DEF NodeGone, ResizeRaises, PassEnd, PassCrash, Forget, ActPlaces
      <4>. QED
        BY <2>3, <4>1, <4>2, <4>3 DEF PassOnly
    <3>. QED
      BY <1>2, <3>1, DemandKept DEF LimitInv
  <2>. QED
    BY <2>1, <2>2, <2>3
<1>. QED
  BY <1>3, <1>4, <1>5 DEF LimitInv

(* A script is started: what it counts for is all that changes.            *)
LEMMA SpawnKeepsTags ==
  ASSUME Base, Tags, NEW s \in Scripts, NEW pc \in {"c_start", "d_start"}, NEW c, NEW n,
         ADs = 1, Spawn(s, pc, c, n), UNCHANGED building
  PROVE  /\ Tags' /\ script'[s].pc = pc /\ script'[s].name = c /\ script'[s].size = n
         /\ script[s].pc = "idle"
         /\ \A r \in Scripts \ {s} : script'[r] = script[r]
<1>1. /\ script'[s] = [pc |-> pc, name |-> c, size |-> n, ads |-> 1, here |-> FALSE]
      /\ \A r \in Scripts \ {s} : script'[r] = script[r]
      /\ script[s] = Idle
  BY BaseTypes DEF Spawn
<1>2. OneAD'
  <2>1. ASSUME NEW r \in Scripts PROVE script'[r].ads <= 1 /\ script'[r].pc # "retry"
    BY <1>1 DEF Tags, OneAD
  <2>. QED
    BY <2>1 DEF OneAD
<1>3. MarkedAtWork'
  <2>1. ASSUME NEW d \in Names, NEW r \in Scripts, script[r].name = d, script[r].pc \in MarkPCs
        PROVE  script'[r] = script[r]
    BY <1>1, <2>1, BuildPlaces
  <2>. QED
    BY <2>1 DEF Tags, MarkedAtWork, At
<1>4. Tagged'
  <2>1. ASSUME NEW r \in Scripts, script'[r].pc \in MarkPCs
        PROVE  script'[r].here /\ building'[script'[r].name] = script'[r].size
    <3>1. script'[r] = script[r]
      BY <1>1, <2>1 DEF ApplyPCs, MarkPCs
    <3>. QED
      BY <2>1, <3>1 DEF Tags, Tagged
  <2>. QED
    BY <2>1 DEF Tagged
<1>. QED
  BY <1>1, <1>2, <1>3, <1>4, IdlePlace DEF Tags

LEMMA DeleteOneLimit ==
  ASSUME Base, LimitInv, ADs = 1, DeleteOne
  PROVE  LimitInv'
<1>1. PICK c \in toDestroy, s \in Scripts : Spawn(s, "d_start", c, 0)
  BY Zenon DEF DeleteOne
<1>2. UNCHANGED <<building, reg, job, pass, seen, toBuild, asleep>>
  BY Zenon DEF DeleteOne, fileVars, cloudVars, slurmVars, jobVars, scanVars
<1>2a. pass = "destroy"
  BY Zenon DEF DeleteOne
<1>3. /\ Tags' /\ script'[s].pc = "d_start"
      /\ \A r \in Scripts \ {s} : script'[r] = script[r]
  BY <1>1, <1>2, SpawnKeepsTags DEF LimitInv
<1>4. \A f : Covers(f) => Covers(f)'
  <2>1. \A r \in Scripts : script'[r].pc = "c_start" => script'[r] = script[r]
    BY <1>3
  <2>. QED
    BY <1>2, <2>1 DEF Covers
<1>5. NodesInv'
  <2>1. Planned'
    <3>1. PICK plan \in [Names -> Nat] : Covers(plan) /\ \A t \in Types : Within(plan, t)
      BY DEF LimitInv, NodesInv, Planned
    <3>2. Covers(plan)' /\ \A t \in Types : Within(plan, t)'
      BY <1>4, <3>1 DEF Within
    <3>. QED
      BY <3>2 DEF Planned
  <2>2. SeenSoFar'
    BY <1>2, <1>2a DEF SeenSoFar
  <2>3. SeenAll'
    <3>1. PICK f : f = seen
      OBVIOUS
    <3>2. Covers(seen) => Covers(f)'
      BY <1>4, <3>1
    <3>3. Covers(f)' => Covers(seen)'
      BY <1>2, <3>1 DEF Covers
    <3>. QED
      BY <1>2, <3>2, <3>3 DEF LimitInv, NodesInv, SeenAll
  <2>. QED
    BY <2>1, <2>2, <2>3 DEF NodesInv
<1>6. DemandInv'
  <2>1. \A r \in Scripts : script'[r].pc \in BuildPCs => script'[r] = script[r]
    BY <1>3 DEF BuildPCs, ApplyPCs
  <2>. QED
    BY <1>2, <2>1, DemandKept DEF LimitInv
<1>. QED
  BY <1>3, <1>5, <1>6 DEF LimitInv

(* The pass builds a cluster: with what it has counted there is room for   *)
(* it, and the job it builds it for had none.                              *)
LEMMA BuildOneNodes ==
  ASSUME Base, NodesInv, NEW j \in toBuild, NEW c \in Names, NEW s \in Scripts,
         pass = "build", pass' = "build", UNCHANGED <<building, reg>>,
         TypeOf(c) = JobType[j], JobType[j] \in Types, JobSize[j] \in Nat, ~TooLarge(j),
         seen' = [seen EXCEPT ![c] = @ + JobSize[j]],
         script'[s].name = c, script'[s].size = JobSize[j], script[s].pc = "idle",
         \A r \in Scripts \ {s} : script'[r] = script[r]
  PROVE  NodesInv'
<1>1. /\ building \in [Names -> Nat] /\ reg \in [Names -> Nat] /\ seen \in [Names -> Nat]
      /\ seen' \in [Names -> Nat]
      /\ \A d \in Names : seen[d] <= seen'[d]
      /\ seen'[c] = seen[c] + JobSize[j] /\ \A d \in Names \ {c} : seen'[d] = seen[d]
      /\ MaxNodes \in [Types -> Nat] /\ Covers(seen)
      /\ \A r \in Scripts : script[r].size \in Nat
      /\ \A r \in Scripts : script[r].pc # "idle" => script[r].name \in Names
  BY BaseTypes, LimitsAssumption DEF NodesInv, SeenAll, ActPlaces
<1>2. PICK t : t = JobType[j]
  OBVIOUS
<1>3. SumFunctionOnSet(seen', OfType(Names, t)) <= MaxNodes[t]
  <2>1. PICK S, f, g, n : S = OfType(Names, t) /\ f = seen /\ g = seen' /\ n = JobSize[j]
    OBVIOUS
  <2>2. IsFiniteSet(S) /\ Natural(f, S)
    <3>1. \A d \in S : f[d] \in Nat
      BY <1>1, <2>1 DEF OfType
    <3>. QED
      BY <2>1, <3>1, OfTypeFinite DEF Natural
  <2>3. SumFunctionOnSet(f, S) \in Nat /\ SumFunctionOnSet(f, S) + n <= MaxNodes[t]
    <3>1. SumFunctionOnSet(f, S) \in Nat
      BY <2>2, SumRecursion
    <3>. QED
      BY <1>1, <1>2, <2>1, <3>1 DEF TooLarge, Counted
  <2>4. c \in S /\ n \in Nat /\ g[c] = f[c] + n /\ \A d \in S \ {c} : g[d] = f[d]
    BY <1>1, <1>2, <2>1 DEF OfType
  <2>5. SumFunctionOnSet(g, S) = SumFunctionOnSet(f, S) + n
    BY <2>2, <2>4, SumIncrease
  <2>. QED
    BY <2>1, <2>3, <2>5
<1>4. SeenAll'
  <2>1. \A d \in Names : building'[d] <= seen'[d] /\ reg'[d] <= seen'[d]
    <3>1. ASSUME NEW d \in Names PROVE building[d] <= seen'[d] /\ reg[d] <= seen'[d]
      <4>1. building[d] <= seen[d] /\ reg[d] <= seen[d] /\ seen[d] <= seen'[d]
        BY <1>1 DEF Covers
      <4>2. building[d] \in Nat /\ reg[d] \in Nat /\ seen[d] \in Nat /\ seen'[d] \in Nat
        BY <1>1
      <4>. QED
        BY <4>1, <4>2
    <3>. QED
      BY <3>1
  <2>2. ASSUME NEW r \in Scripts, script'[r].pc = "c_start"
        PROVE  script'[r].size <= seen'[script'[r].name]
    <3>1. CASE r = s
      BY <1>1, <3>1
    <3>2. CASE r # s
      <4>1. script'[r] = script[r] /\ script[r].pc = "c_start" /\ script[r].name \in Names
        BY <1>1, <2>2, <3>2
      <4>2. script[r].size <= seen[script[r].name]
        BY <1>1, <4>1 DEF Covers
      <4>3. seen[script[r].name] <= seen'[script[r].name]
        BY <1>1, <4>1
      <4>4. seen[script[r].name] \in Nat /\ seen'[script[r].name] \in Nat /\ script[r].size \in Nat
        BY <1>1, <4>1
      <4>. QED
        BY <4>1, <4>2, <4>3, <4>4
    <3>. QED
      BY <3>1, <3>2
  <2>. QED
    BY <2>1, <2>2 DEF SeenAll, Covers
<1>5. Planned'
  <2>1. PICK plan \in [Names -> Nat] : Covers(plan) /\ \A u \in Types : Within(plan, u)
    BY DEF NodesInv, Planned
  <2>2. PICK next : next = [d \in Names |-> IF TypeOf(d) = t THEN seen'[d] ELSE plan[d]]
    OBVIOUS
  <2>3. next \in [Names -> Nat]
    BY <1>1, <2>1, <2>2
  <2>4. Covers(seen)'
    BY <1>4 DEF SeenAll, ActPlaces
  <2>5. Covers(next)'
    <3>1. \A d \in Names : building'[d] <= next[d] /\ reg'[d] <= next[d]
      BY <2>1, <2>2, <2>4 DEF Covers
    <3>2. ASSUME NEW r \in Scripts, script'[r].pc = "c_start"
          PROVE  script'[r].size <= next[script'[r].name]
      <4>1. script'[r].size <= seen'[script'[r].name]
        BY <2>4, <3>2 DEF Covers
      <4>2. CASE r = s
        BY <1>2, <2>2, <4>1, <4>2
      <4>3. CASE r # s
        <5>1. script'[r] = script[r] /\ script[r].name \in Names
          BY <1>1, <3>2, <4>3
        <5>2. script[r].size <= plan[script[r].name]
          BY <2>1, <3>2, <5>1 DEF Covers
        <5>. QED
          BY <2>2, <4>1, <5>1, <5>2
      <4>. QED
        BY <4>2, <4>3
    <3>. QED
      BY <3>1, <3>2 DEF Covers
  <2>6. ASSUME NEW u \in Types PROVE Within(next, u)
    <3>1. IsFiniteSet(OfType(Names, u)) /\ Natural(next, OfType(Names, u))
      BY <2>3, OfTypeFinite DEF Natural, OfType
    <3>2. CASE u = t
      <4>1. \A d \in OfType(Names, u) : next[d] = seen'[d]
        BY <2>2, <3>2 DEF OfType
      <4>2. SumFunctionOnSet(next, OfType(Names, u)) = SumFunctionOnSet(seen', OfType(Names, u))
        BY ONLY <3>1, <4>1, SumSame
      <4>. QED
        BY <1>3, <3>2, <4>2 DEF Within
    <3>3. CASE u # t
      <4>1. \A d \in OfType(Names, u) : next[d] = plan[d]
        BY <2>2, <3>3 DEF OfType
      <4>2. SumFunctionOnSet(next, OfType(Names, u)) = SumFunctionOnSet(plan, OfType(Names, u))
        BY ONLY <3>1, <4>1, SumSame
      <4>. QED
        BY <2>1, <4>2 DEF Within
    <3>. QED
      BY <3>2, <3>3
  <2>. QED
    BY <2>3, <2>5, <2>6 DEF Planned, Within
<1>. QED
  BY <1>4, <1>5 DEF NodesInv, SeenSoFar

LEMMA BuildOneDemand ==
  ASSUME Base, DemandInv, NEW j \in toBuild, NEW s \in Scripts,
         pass = "build", pass' = "build", UNCHANGED job, toBuild' = toBuild \ {j},
         script[s].pc = "idle", script'[s].pc = "c_start",
         script'[s].size = JobSize[j], TypeOf(script'[s].name) = JobType[j],
         \A r \in Scripts \ {s} : script'[r] = script[r]
  PROVE  DemandInv'
<1>1. toBuild \in SUBSET Jobs /\ toBuild' \in SUBSET Jobs /\ j \in Jobs
  BY BaseTypes
<1>2. KnownJobs'
  BY DEF DemandInv, KnownJobs
<1>3. ASSUME NEW n \in Nat, NEW t \in Types
      PROVE  /\ Cardinality(Builds(n, t)') + Cardinality(Wanting(toBuild', n, t))
                  <= Cardinality(Submitted(n, t))
             /\ Cardinality(Builds(n, t)') <= Cardinality(Submitted(n, t))
  <2>1. PICK b, b1, w, w1, q :
          /\ b = Cardinality(Builds(n, t)) /\ b1 = Cardinality(Builds(n, t)')
          /\ w = Cardinality(Wanting(toBuild, n, t)) /\ w1 = Cardinality(Wanting(toBuild', n, t))
          /\ q = Cardinality(Submitted(n, t))
    OBVIOUS
  <2>2. b \in Nat /\ w \in Nat /\ w1 \in Nat /\ q \in Nat /\ b + w <= q
    BY <1>1, <2>1, JobSets, BuildsFinite DEF DemandInv, RoomForMore, ActPlaces
  <2>3. IsFiniteSet(Builds(n, t)) /\ IsFiniteSet(Wanting(toBuild, n, t))
    BY <1>1, JobSets, BuildsFinite
  <2>4. CASE JobSize[j] = n /\ JobType[j] = t
    <3>1. Builds(n, t)' = Builds(n, t) \union {s} /\ s \notin Builds(n, t)
      BY <2>4 DEF Builds, BuildPCs, ApplyPCs
    <3>2. b1 = b + 1
      BY ONLY <2>1, <2>3, <3>1, FS_AddElement
    <3>3. Wanting(toBuild', n, t) = Wanting(toBuild, n, t) \ {j} /\ j \in Wanting(toBuild, n, t)
      BY <2>4 DEF Wanting
    <3>4. w1 = w - 1
      BY ONLY <2>1, <2>3, <3>3, FS_RemoveElement
    <3>. QED
      BY <2>1, <2>2, <3>2, <3>4
  <2>5. CASE ~(JobSize[j] = n /\ JobType[j] = t)
    <3>1. Builds(n, t)' = Builds(n, t)
      BY <2>5 DEF Builds, BuildPCs, ApplyPCs
    <3>2. Wanting(toBuild', n, t) = Wanting(toBuild, n, t)
      BY <2>5 DEF Wanting
    <3>. QED
      BY <2>1, <2>2, <3>1, <3>2
  <2>. QED
    BY <2>4, <2>5
<1>4. \A n, t : Submitted(n, t)' = Submitted(n, t)
  BY DEF Submitted, Wanting
<1>5. FewBuilds'
  BY <1>3, <1>4 DEF FewBuilds
<1>6. RoomForMore'
  <2>1. \A n, t : Wanting(toBuild, n, t)' = Wanting(toBuild', n, t)
    BY DEF Wanting
  <2>. QED
    BY <1>3, <1>4, <2>1 DEF RoomForMore
<1>. QED
  BY <1>2, <1>5, <1>6 DEF DemandInv

LEMMA BuildOneLimit ==
  ASSUME Base, LimitInv, ADs = 1, BuildOne
  PROVE  LimitInv'
<1>1. PICK j \in toBuild, i \in 1 .. MaxIndex :
         /\ ~TooLarge(j)
         /\ seen' = [seen EXCEPT ![<<JobType[j], i>>] = @ + JobSize[j]]
         /\ toBuild' = toBuild \ {j}
         /\ \E s \in Scripts : Spawn(s, "c_start", <<JobType[j], i>>, JobSize[j])
  BY Zenon DEF BuildOne
<1>2. PICK s \in Scripts : Spawn(s, "c_start", <<JobType[j], i>>, JobSize[j])
  BY <1>1
<1>3. pass = "build" /\ pass' = "build" /\ UNCHANGED <<building, reg, job>>
  BY Zenon DEF BuildOne, fileVars, cloudVars, slurmVars, jobVars
<1>4. PICK c : c = <<JobType[j], i>>
  OBVIOUS
<1>5. /\ JobType[j] \in Types /\ JobSize[j] \in Nat /\ c \in Names /\ TypeOf(c) = JobType[j]
  BY <1>4, BaseTypes, JobsAssumption DEF Names, TypeOf
<1>6. /\ Tags' /\ script'[s].pc = "c_start" /\ script'[s].name = c /\ script'[s].size = JobSize[j]
      /\ script[s].pc = "idle"
      /\ \A r \in Scripts \ {s} : script'[r] = script[r]
  BY <1>2, <1>3, <1>4, SpawnKeepsTags DEF LimitInv
<1>7. NodesInv'
  BY <1>1, <1>3, <1>4, <1>5, <1>6, BuildOneNodes DEF LimitInv
<1>8. DemandInv'
  BY <1>1, <1>3, <1>5, <1>6, BuildOneDemand DEF LimitInv
<1>. QED
  BY <1>6, <1>7, <1>8 DEF LimitInv

LEMMA OutsideLimit ==
  ASSUME Base, LimitInv, (\E k \in Jobs : JobStep(k)) \/ (\E c \in Names : Age(c))
  PROVE  LimitInv'
<1>1. UNCHANGED <<building, reg, script, pass, seen, toBuild, asleep>>
  BY Zenon DEF JobStep, JobSubmit, JobStart, JobFinish, JobCancel, Age, fileVars, cloudVars,
               slurmVars, passVars, scanVars
<1>2. \A k \in Jobs : job[k] # "new" => job'[k] # "new"
  <2>1. CASE \E k \in Jobs : JobStep(k)
    <3>1. PICK k \in Jobs : JobStep(k)
      BY <2>1
    <3>2. \E st \in {"pending", "running", "done"} : job' = [job EXCEPT ![k] = st]
      BY <3>1, Zenon DEF JobStep, JobSubmit, JobStart, JobFinish, JobCancel
    <3>. QED
      BY <3>2, BaseTypes
  <2>2. CASE \E c \in Names : Age(c)
    BY <2>2 DEF Age, jobVars
  <2>. QED
    BY <2>1, <2>2
<1>3. Tags'
  BY <1>1, StillTagged DEF LimitInv
<1>4. NodesInv'
  BY <1>1, CountedStays DEF LimitInv
<1>5. DemandInv'
  BY <1>1, <1>2, DemandKept DEF LimitInv
<1>. QED
  BY <1>3, <1>4, <1>5 DEF LimitInv

-----------------------------------------------------------------------------
(* The invariant, and the two limits *)

LEMMA InitLimitInv == Init => LimitInv
<1> SUFFICES ASSUME Init PROVE LimitInv
  OBVIOUS
<1>1. /\ \A s \in Scripts : script[s] = Idle
      /\ \A c \in Names : building[c] = 0 /\ reg[c] = 0
      /\ toBuild = {} /\ pass = "off"
  BY DEF Init, ScriptsInit
<1>2. Tags
  BY <1>1 DEF Tags, OneAD, MarkedAtWork, Tagged, Idle, ApplyPCs, MarkPCs
<1>3. NodesInv
  <2>1. PICK none : none = [c \in Names |-> 0]
    OBVIOUS
  <2>2. none \in [Names -> Nat] /\ Covers(none)
    BY <1>1, <2>1 DEF Covers, Idle
  <2>3. ASSUME NEW t \in Types PROVE Within(none, t)
    <3>1. IsFiniteSet(OfType(Names, t)) /\ Natural(none, OfType(Names, t))
      BY <2>1, OfTypeFinite DEF Natural, OfType
    <3>2. SumFunctionOnSet(none, OfType(Names, t)) = 0
      BY <2>1, <3>1, SumOfZeros DEF OfType
    <3>. QED
      BY <3>2, LimitsAssumption DEF Within
  <2>. QED
    BY <1>1, <2>2, <2>3 DEF NodesInv, Planned, SeenSoFar, SeenAll, ActPlaces
<1>4. DemandInv
  <2>1. \A n, t : Builds(n, t) = {}
    BY <1>1, BuildPlaces DEF Builds
  <2>2. FewBuilds
    <3>1. ASSUME NEW n \in Nat, NEW t \in Types
          PROVE  Cardinality(Builds(n, t)) <= Cardinality(Submitted(n, t))
      <4>1. Cardinality(Builds(n, t)) = 0
        BY <2>1, FS_EmptySet
      <4>2. Cardinality(Submitted(n, t)) \in Nat
        BY JobSets
      <4>. QED
        BY <4>1, <4>2
    <3>. QED
      BY <3>1 DEF FewBuilds
  <2>. QED
    BY <1>1, <2>2 DEF DemandInv, KnownJobs, RoomForMore, ActPlaces
<1>. QED
  BY <1>2, <1>3, <1>4 DEF LimitInv

(* LimitInv is inductive relative to the life of a cluster. *)
LEMMA NextLimitInv ==
  ASSUME Base, LimitInv, ~SlowScan, ADs = 1, MaxCleanups = 0, [Next]_vars
  PROVE  LimitInv'
<1>1. CASE PassOnly \/ PassCrash \/ UNCHANGED vars
  BY <1>1, PassOnlyLimit
<1>2. CASE DeleteOne \/ BuildOne
  BY <1>2, DeleteOneLimit, BuildOneLimit
<1>3. CASE \E s \in Scripts : ScriptStep(s)
  BY <1>3, ScriptStepParts, ScriptStepTags, ScriptStepNodes, ScriptStepDemand DEF LimitInv
<1>4. CASE (\E k \in Jobs : JobStep(k)) \/ (\E c \in Names : Age(c))
  BY <1>4, OutsideLimit
<1>5. CASE DailyCleanup
  BY <1>5 DEF DailyCleanup, Base, TypeOK
<1>. QED
  BY <1>1, <1>2, <1>3, <1>4, <1>5, Zenon DEF Next, PassStep, PassOnly

(* Until a name is haunted. *)
CleanLimit == CleanLife /\ (NamesClean => LimitInv)

LEMMA LimitInvariant ==
  ASSUME ~SlowBuild, ~SlowScan, MaxCleanups = 0, ADs = 1
  PROVE  Spec => []CleanLimit
<1>1. Init => CleanLimit
  BY InitTypeOK, InitCountInv, InitLifeInv, InitLimitInv DEF CleanLife, CleanLimit
<1>2. ASSUME CleanLimit, [Next]_vars PROVE CleanLimit'
  <2>1. CleanLife'
    BY <1>2, NextCleanLife DEF CleanLimit
  <2>2. ASSUME haunted' = {} PROVE LimitInv'
    <3>1. haunted = {}
      BY <1>2, <2>2, NamesStayHaunted
    <3>2. Base /\ LimitInv
      BY <1>2, <3>1, CleanBase DEF CleanLimit, NamesClean
    <3>. QED
      BY <1>2, <3>2, NextLimitInv
  <2>. QED
    BY <2>1, <2>2 DEF CleanLimit, NamesClean
<1>. QED
  BY <1>1, <1>2, PTL DEF Spec

(* The nodes Slurm has or is promised never exceed max_number_nodes, when  *)
(* no sleep of create_cluster.sh begins and ends between a pass's two      *)
(* reads, a build is not tried again elsewhere after its marker is gone,   *)
(* and until a name is haunted.                                            *)
THEOREM NodesStayWithinLimit ==
  ASSUME ~SlowBuild, ~SlowScan, MaxCleanups = 0, ADs = 1
  PROVE  Spec => []NodesWithinLimit
<1>1. ASSUME CleanLimit PROVE NodesWithinLimit
  <2>0. SUFFICES ASSUME Base, LimitInv, NEW t \in Types
                 PROVE  SumFunctionOnSet(Promised, OfType(Names, t)) <= MaxNodes[t]
    BY <1>1, CleanBase DEF CleanLimit, NodesWithinLimit
  <2>1. PICK plan \in [Names -> Nat] : Covers(plan) /\ \A u \in Types : Within(plan, u)
    BY <2>0 DEF LimitInv, NodesInv, Planned
  <2>3. PICK p, S : p = Promised /\ S = OfType(Names, t)
    OBVIOUS
  <2>4. building \in [Names -> Nat] /\ reg \in [Names -> Nat]
    BY <2>0, BaseTypes
  <2>5. IsFiniteSet(S) /\ Natural(p, S) /\ Natural(plan, S) /\ \A c \in S : p[c] <= plan[c]
    BY <2>1, <2>3, <2>4, OfTypeFinite DEF Natural, OfType, Promised, Covers
  <2>6. SumFunctionOnSet(p, S) <= SumFunctionOnSet(plan, S)
    BY <2>5, SumMonotone
  <2>7. SumFunctionOnSet(plan, S) <= MaxNodes[t]
    BY <2>1, <2>3 DEF Within
  <2>8. SumFunctionOnSet(p, S) \in Nat /\ SumFunctionOnSet(plan, S) \in Nat /\ MaxNodes[t] \in Nat
    BY <2>5, SumRecursion, LimitsAssumption
  <2>. QED
    BY <2>3, <2>6, <2>7, <2>8
<1>. QED
  BY <1>1, LimitInvariant, PTL

(* There are never more builds of a size and type under way than jobs of   *)
(* that size and type were submitted: under the same conditions a pass     *)
(* sees every cluster on its way, and matches each with a job.             *)
THEOREM BuildsStayWithinDemand ==
  ASSUME ~SlowBuild, ~SlowScan, MaxCleanups = 0, ADs = 1
  PROVE  Spec => []BuildsMatchDemand
<1>1. ASSUME CleanLimit PROVE BuildsMatchDemand
  <2>1. SUFFICES ASSUME LimitInv, NEW j \in Jobs
                 PROVE  Cardinality({s \in Scripts :
                          /\ script[s].pc \in ApplyPCs \union {"c_start", "grace", "retry"}
                          /\ script[s].size = JobSize[j]
                          /\ TypeOf(script[s].name) = JobType[j]})
                        <= Cardinality({k \in Wanting(Jobs, JobSize[j], JobType[j]) : job[k] # "new"})
    BY <1>1 DEF CleanLimit, BuildsMatchDemand
  <2>2. {s \in Scripts : /\ script[s].pc \in ApplyPCs \union {"c_start", "grace", "retry"}
                         /\ script[s].size = JobSize[j]
                         /\ TypeOf(script[s].name) = JobType[j]}
          = Builds(JobSize[j], JobType[j])
    BY <2>1 DEF Builds, BuildPCs, LimitInv, Tags, OneAD
  <2>3. JobSize[j] \in Nat /\ JobType[j] \in Types
    BY JobsAssumption
  <2>. QED
    BY <2>1, <2>2, <2>3 DEF LimitInv, DemandInv, FewBuilds, Submitted
<1>. QED
  BY <1>1, LimitInvariant, PTL
=============================================================================
