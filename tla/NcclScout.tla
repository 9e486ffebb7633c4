----------------------------- MODULE NcclScout -----------------------------
(***************************************************************************)
(* scripts/ncclscout.py on the nodes of a host file or of sinfo: the nodes *)
(* are tested in pairs, the nodes of bad and failed pairs once more with a *)
(* node of a good pair, and the report tells good nodes from bad ones.     *)
(* A bandwidth is a level: 2 is enough for an H100, 1 for an A100, 0 is    *)
(* not enough; a node on which tests fail or time out can do Failed.       *)
(* A node does the same every time.                                        *)
(* Left out: a test of two hosts given by name, which judges nothing.      *)
(***************************************************************************)
EXTENDS Integers, FiniteSets, Sequences, SequencesExt, FiniteSetsExt

CONSTANTS Hosts,     \* bound: the nodes
          Fleets,    \* bound: the shapes they may have
          Modes      \* with --parallel or without

ASSUME HostsAssumption == IsFiniteSet(Hosts)
ASSUME ScoutBounds ==
    /\ Fleets \subseteq [Hosts -> {"A100", "H100", "unknown"}]
    /\ Modes \subseteq {"serial", "parallel"}

VARIABLES
  mode, shape,
  speed,       \* the bandwidth each node can do, or Failed
  reachable,   \* the nodes that answer, in the order in which they did
  todo,        \* the pairs to test
  results,     \* the results so far: a pair and its bandwidth
  thresholds,  \* the pairs that have a threshold of their own (--parallel)
  threshold,   \* the one threshold (serial)
  timeouts, good, bad,
  cycle,       \* the good nodes, the next one to retest with first
  again,       \* the nodes to retest
  failed,      \* history: the pairs whose first test failed
  cleared, accused,   \* the report
  pc

nodes == <<mode, shape, speed, reachable>>
report == <<cleared, accused>>
vars == <<nodes, todo, results, thresholds, threshold, timeouts, good, bad, cycle, again, failed,
          report, pc>>

Failed == -1
Pair == Hosts \X Hosts
Result == [pair : Pair, bw : 0 .. 2]
PCs == {"reach", "test", "classify", "retest_timeout", "retest_low", "done", "died", "stopped"}

(* determine_gpu_model *)
Threshold(h) == CASE shape[h] = "A100" -> 1 [] shape[h] = "H100" -> 2 [] OTHER -> 0
Known(p) == shape[p[1]] # "unknown" /\ shape[p[2]] # "unknown"
PairThreshold(p) == Min({Threshold(p[1]), Threshold(p[2])})

Init ==
    /\ mode \in Modes /\ shape \in Fleets
    /\ speed \in [Hosts -> Failed .. 2]
    /\ \A h \in Hosts : speed[h] <= (IF shape[h] = "A100" THEN 1 ELSE 2)
    /\ reachable = <<>> /\ todo = <<>> /\ results = <<>> /\ thresholds = {} /\ threshold = 0
    /\ timeouts = {} /\ good = {} /\ bad = {} /\ cycle = <<>> /\ again = {} /\ failed = {}
    /\ cleared = {} /\ accused = {} /\ pc = "reach"

Orders(S) == {f \in [1 .. Cardinality(S) -> S] : \A i, j \in DOMAIN f : i # j => f[i] # f[j]}
HostsOf(pairs) == UNION {{p[1], p[2]} : p \in pairs}

-----------------------------------------------------------------------------
(* zip of every other node with the one behind it. *)
Zipped(order) == [i \in 1 .. Len(order) \div 2 |-> <<order[2 * i - 1], order[2 * i]>>]

(* The pairs that are tested: those of known shapes. *)
KnownPairs(order) ==
    FoldLeft(LAMBDA ps, p : IF Known(p) THEN Append(ps, p) ELSE ps, <<>>, Zipped(order))

(* The shape whose script is used for the last node and for the retests.   *)
Script == shape[reachable[2 * (Len(reachable) \div 2) - 1]]

(* check_hosts_concurrently: the nodes come in the order of their answers. *)
(* Pairs of an unknown shape are left out; an odd node is tested with the  *)
(* first one, whatever that is.                                            *)
Reach ==
    /\ pc = "reach"
    /\ \E S \in SUBSET Hosts : \E order \in Orders(S) :
         LET pairs == KnownPairs(order) IN
         /\ reachable' = order
         /\ IF Len(order) < 2 THEN pc' = "stopped" /\ UNCHANGED <<todo, thresholds>>
            ELSE /\ pc' = "test"
                 /\ todo' = IF Len(order) % 2 = 0 THEN pairs
                            ELSE Append(pairs, <<order[1], Last(order)>>)
                 /\ thresholds' = IF mode = "parallel" THEN Range(pairs) ELSE {}
    /\ UNCHANGED <<mode, shape, speed, results, threshold, timeouts, good, bad, cycle, again,
                   failed, report>>

(* run_nccl_test: the slower node decides. *)
Bandwidth(p) == Min({speed[p[1]], speed[p[2]]})

(* The nodes of a failed pair to retest: both, or without --parallel the   *)
(* second one only.                                                        *)
TimedOut(p) == IF mode = "parallel" THEN {p[1], p[2]} ELSE {p[2]}

(* Mutant of Test: a failed test is a result like any other. *)
TestKeepsFailed(i) ==
    LET p == todo[i] IN
    /\ pc = "test" /\ (mode = "serial" => i = 1)
    /\ todo' = RemoveAt(todo, i)
    /\ results' = Append(results, [pair |-> p, bw |-> Bandwidth(p)])
    /\ UNCHANGED <<nodes, thresholds, threshold, timeouts, good, bad, cycle, again, failed, report, pc>>

(* One result: in order, or with --parallel as they come. *)
Test(i) ==
    LET p == todo[i] IN
    /\ pc = "test" /\ (mode = "serial" => i = 1) /\ (Known(p) \/ Script # "unknown")
    /\ todo' = RemoveAt(todo, i)
    /\ IF Bandwidth(p) = Failed
       THEN /\ timeouts' = timeouts \union TimedOut(p) /\ failed' = failed \union {p}
            /\ UNCHANGED results
       ELSE /\ results' = Append(results, [pair |-> p, bw |-> Bandwidth(p)])
            /\ UNCHANGED <<timeouts, failed>>
    /\ UNCHANGED <<nodes, thresholds, threshold, good, bad, cycle, again, report, pc>>

(* There is no script for the odd node's pair: TypeError, which ends a     *)
(* serial run and is printed by a parallel one.                            *)
TestRaises(i) ==
    /\ pc = "test" /\ (mode = "serial" => i = 1) /\ ~Known(todo[i]) /\ Script = "unknown"
    /\ todo' = RemoveAt(todo, i)
    /\ pc' = IF mode = "serial" THEN "died" ELSE pc
    /\ UNCHANGED <<nodes, results, thresholds, threshold, timeouts, good, bad, cycle, again, failed,
                   report>>

(* What a pair is measured against: 0 for a pair without a threshold. *)
Limit(p) ==
    IF mode = "serial" THEN threshold
    ELSE IF p \in thresholds THEN PairThreshold(p) ELSE 0
Above(rs) == HostsOf({r.pair : r \in {x \in Range(rs) : x.bw >= Limit(x.pair)}})
Below(rs) == HostsOf({r.pair : r \in {x \in Range(rs) : x.bw < Limit(x.pair)}})

(* The results are printed, the best first; each print computes the one    *)
(* threshold anew, so that of the worst and latest is what remains.        *)
LastPrinted ==
    LET worst == Min({r.bw : r \in Range(results)}) IN
    PairThreshold(results[Max({i \in DOMAIN results : results[i].bw = worst})].pair)

PrintResults ==
    /\ pc = "test" /\ todo = <<>>
    /\ IF mode = "serial" /\ \E r \in Range(results) : ~Known(r.pair)
       THEN pc' = "died" /\ UNCHANGED threshold
       ELSE /\ pc' = "classify"
            /\ threshold' = IF mode = "serial" /\ results # <<>> THEN LastPrinted ELSE threshold
    /\ UNCHANGED <<nodes, todo, results, thresholds, timeouts, good, bad, cycle, again, failed,
                   report>>

(* itertools.cycle of a set: any order, if there is anything to retest. *)
Cycles(nodesAgain, S) == IF nodesAgain = {} THEN {<<>>} ELSE Orders(S)

(* Mutant of Classify: the nodes of failed pairs are not tested again. *)
ClassifyForgets ==
    /\ pc = "classify"
    /\ good' = Above(results) /\ bad' = Below(results) /\ again' = {}
    /\ cycle' \in Cycles(again', good')
    /\ pc' = "retest_timeout"
    /\ UNCHANGED <<nodes, todo, results, thresholds, threshold, timeouts, failed, report>>

(* Without a good node nothing is tested again. *)
Classify ==
    /\ pc = "classify"
    /\ good' = Above(results) /\ bad' = Below(results)
    /\ again' = IF good' = {} THEN {} ELSE timeouts
    /\ cycle' \in Cycles(again', good')
    /\ pc' = "retest_timeout"
    /\ UNCHANGED <<nodes, todo, results, thresholds, threshold, timeouts, failed, report>>

(* The next good node is another one than the node to retest. *)
Partner(n) == IF cycle[1] = n THEN cycle[2] ELSE cycle[1]
Turned(n) ==
    IF cycle[1] = n THEN SubSeq(cycle, 3, Len(cycle)) \o <<cycle[1], cycle[2]>>
    ELSE Append(Tail(cycle), cycle[1])

(* results.update: the pair may be there already. *)
Updated(r) ==
    IF \E i \in DOMAIN results : results[i].pair = r.pair
    THEN [i \in DOMAIN results |-> IF results[i].pair = r.pair THEN r ELSE results[i]]
    ELSE Append(results, r)

(* retest_bad_nodes_with_progress: a failure is called bad, and not kept.  *)
(* A result of a serial run has its threshold printed, which remains.      *)
(* Without a script the TypeError ends the run.                            *)
Retest(n) ==
    LET p == <<Partner(n), n>> IN
    /\ pc \in {"retest_timeout", "retest_low"} /\ n \in again
    /\ pc' = IF Script = "unknown" THEN "died" ELSE pc
    /\ again' = again \ {n}
    /\ cycle' = Turned(n)
    /\ IF Bandwidth(p) = Failed THEN UNCHANGED <<results, threshold>>
       ELSE /\ results' = Updated([pair |-> p, bw |-> Bandwidth(p)])
            /\ threshold' = IF mode = "parallel" THEN threshold ELSE PairThreshold(p)
    /\ UNCHANGED <<nodes, todo, thresholds, timeouts, good, bad, failed, report>>

(* The nodes of slow pairs: with --parallel not those of a good pair too.  *)
RetestLow ==
    /\ pc = "retest_timeout" /\ again = {}
    /\ again' = IF good = {} THEN {} ELSE IF mode = "parallel" THEN bad \ good ELSE bad
    /\ cycle' \in Cycles(again', good)
    /\ pc' = "retest_low"
    /\ UNCHANGED <<nodes, todo, results, thresholds, threshold, timeouts, good, bad, failed, report>>

(* Mutant of Report: whoever has been in a bad pair is bad. *)
ReportBelow ==
    /\ pc = "retest_low" /\ again = {}
    /\ pc' = "done"
    /\ cleared' = Above(results) \ Below(results) /\ accused' = Below(results)
    /\ UNCHANGED <<nodes, todo, results, thresholds, threshold, timeouts, good, bad, cycle, again,
                   failed>>

(* Bad is who has been in a bad pair and in no good one.  The report dies  *)
(* on a pair without a model, or with results but not one threshold.       *)
Report ==
    LET dies == IF mode = "serial" THEN \E r \in Range(results) : ~Known(r.pair)
                ELSE results # <<>> /\ thresholds = {} IN
    /\ pc = "retest_low" /\ again = {}
    /\ IF dies THEN pc' = "died" /\ UNCHANGED report
       ELSE /\ pc' = "done"
            /\ cleared' = Above(results)
            /\ accused' = Below(results) \ Above(results)
    /\ UNCHANGED <<nodes, todo, results, thresholds, threshold, timeouts, good, bad, cycle, again,
                   failed>>

Next ==
    \/ Reach \/ PrintResults \/ Classify \/ RetestLow \/ Report
    \/ \E i \in DOMAIN todo : Test(i) \/ TestRaises(i)
    \/ \E n \in Hosts : Retest(n)

Spec == Init /\ [][Next]_vars

-----------------------------------------------------------------------------
(* Properties *)

(* The type of the state. *)
TypeOK ==
    /\ mode \in Modes /\ shape \in Fleets /\ speed \in [Hosts -> Failed .. 2]
    /\ reachable \in Seq(Hosts) /\ todo \in Seq(Pair) /\ results \in Seq(Result)
    /\ thresholds \subseteq Pair /\ threshold \in 0 .. 2
    /\ UNION {timeouts, good, bad, again, cleared, accused} \subseteq Hosts
    /\ cycle \in Seq(Hosts) /\ failed \subseteq Pair
    /\ pc \in PCs

(* The runs a promise can be made for: one known shape.                    *)
Plain ==
    /\ pc = "done"
    /\ \E s \in {"A100", "H100"} : \A h \in Range(reachable) : shape[h] = s
Sound(h) == speed[h] = Threshold(h)
Slow(h) == speed[h] \in 0 .. Threshold(h) - 1

(* Once some pair did well, every node that is sound is called good, bad   *)
(* partners and the order of the answers notwithstanding.  Without         *)
(* --parallel the first node of a failed pair may be in neither list; with *)
(* it the odd node's pair has no threshold, so any bandwidth passes there. *)
GoodNodesCleared ==
    Plain /\ good # {} /\ (mode = "parallel" => Len(reachable) % 2 = 0) =>
        \A h \in Range(reachable) :
            Sound(h) => \/ h \in cleared
                        \/ mode = "serial" /\ h \notin accused /\ \E p \in failed : p[1] = h

(* Without --parallel every node that is slow is called bad, but for those *)
(* that were never measured: the first of a failed pair, or the second     *)
(* when there was no good node to test it with.                            *)
SlowNodeReported ==
    Plain /\ mode = "serial" =>
        \A h \in Range(reachable) :
            Slow(h) => \/ h \in accused
                       \/ \E p \in failed : p[1] = h \/ (p[2] = h /\ good = {})

(* Documented (ncclscout.py): find_bad_nodes_parallel finds and reports    *)
(* the bad nodes.  Where there is a good node, every slow one is measured. *)
SlowNodeReportedInParallel ==
    Plain /\ mode = "parallel" /\ good # {} =>
        \A h \in Range(reachable) : Slow(h) => h \in accused
=============================================================================
