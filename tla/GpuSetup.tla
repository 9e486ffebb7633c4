------------------------------ MODULE GpuSetup ------------------------------
(***************************************************************************)
(* check_gpu_setup.py: what each of its checks finds on a GPU node, and    *)
(* what the summary makes of it.  The node is the set of its symptoms: what*)
(* is wrong, and at which device.  A check is an operator from the node to *)
(* the symptoms it sees; a check that raises an exception sees none.       *)
(* The shapes are those that healthchecks.sh checks: bare metal, NVIDIA.   *)
(***************************************************************************)
EXTENDS Integers, FiniteSets, Sequences, FiniteSetsExt, Folds

CONSTANTS Devices,       \* the GPUs, and the network cards beside them
          FabricShape,   \* an H100, H200 or B200, which have a Fabric Manager
          NONE           \* no action: Python's None

ASSUME DevicesAssumption == Devices \subseteq Nat /\ IsFiniteSet(Devices) /\ Devices # {}
ASSUME ShapeAssumption == FabricShape \in BOOLEAN
ASSUME NoneAssumption == NONE \notin {"FabricManagerRestart", "Reboot", "Terminate"}

Actions == {NONE, "FabricManagerRestart", "Reboot", "Terminate"}
RowSymptoms == {"pending", "failure", "few", "many"}
Wrong ==
    {"oca_first", "oca", "old_agent", "rttcc", "volatile", "aggregate", "missing", "narrow",
     "fallen", "inactive", "bad_signal", "low_ber", "flapping", "link_down", "xid", "xid_warn",
     "unauthenticated", "fabric", "powersave"} \union RowSymptoms
Symptom == Wrong \X Devices

Present(h, W) == {x \in h : x[1] \in W}

-----------------------------------------------------------------------------
(* The checks *)

(* check_oca_status: no state file, or one that is no JSON, is not ready.  *)
OcaStatus(h) == IF Present(h, {"oca"}) = {} THEN "COMPLETED" ELSE "UNKNOWN"

(* Section 1.3 adds its reason at once; the summary looks again at the     *)
(* state that section 3.3 reads, so the agent may be ready by then.        *)
OcaFirst(h) == IF OcaStatus(h) = "COMPLETED" THEN {} ELSE {<<"oca_first", Min(Devices)>>}

(* get_oca_version *)
OcaVersion(h) == Present(h, {"old_agent"})

(* Section 3.3: congestion control is looked at once the agent is ready.   *)
RttccStatus(h) ==
    IF OcaStatus(h) = "COMPLETED" THEN Present(h, {"rttcc"}) ELSE Present(h, {"oca"})

(* check_ecc_errors *)
EccErrors(h) == Present(h, {"volatile", "aggregate"})

(* check_row_remap_errors: what it sees ... *)
RowRemapErrors(h) == Present(h, RowSymptoms)

(* ... and its action, which each GPU's line overwrites: pending, then     *)
(* failure, then the number of uncorrectable rows, above 512 or below.     *)
RowRemapAction(seen) ==
    LET bad == {x[2] : x \in RowRemapErrors(seen)}
        last == {x[1] : x \in {y \in RowRemapErrors(seen) : y[2] = Max(bad)}} IN
    IF bad = {} THEN NONE
    ELSE IF "many" \in last THEN "Terminate"
    ELSE IF "few" \in last THEN "Reboot"
    ELSE IF "failure" \in last THEN "Terminate" ELSE "Reboot"

(* check_gpu_count: nvidia-smi lists the GPUs, or lspci without it. *)
GpuCount(h) == Present(h, {"missing"})

(* check_gpu_pcie: a width other than 16, or no GPU to ask for its width. *)
GpuPcie(h) ==
    IF \A d \in Devices : <<"missing", d>> \in h THEN {<<"narrow", Min(Devices)>>}
    ELSE Present(h, {"narrow"})

(* check_bus *)
CheckBus(h) == Present(h, {"fallen"})

(* check_rdma_link_status: a bad signal counts above an error rate only.   *)
RdmaLinkStatus(h) == Present(h, {"inactive", "bad_signal"})

(* LinkFlappingTest: the last event of an interface, when it is less than  *)
(* six hours old and more than half an hour after the boot.                *)
LinkFlapping(h) == Present(h, {"flapping", "link_down"})

(* XidChecker: one critical error, and the warnings are errors too. *)
GpuXid(h) == IF Present(h, {"xid"}) = {} THEN {} ELSE Present(h, {"xid", "xid_warn"})

(* check_wpa_auth: the interfaces that no try out of five has found        *)
(* authenticated.                                                          *)
WpaAuth(h) == Present(h, {"unauthenticated"})

(* check_fabric_manager, for the shapes that have one. *)
FabricManager(h) == IF FabricShape THEN Present(h, {"fabric"}) ELSE {}

(* get_current_cpu_profile; a CPU that cannot be read is passed over. *)
CpuProfile(h) == Present(h, {"powersave"})

AllSections == <<"oca", "oca_ver", "rttcc", "ecc", "rows", "count", "pcie", "bus", "rdma", "flap",
                 "xid", "wpa", "fabric", "cpu">>

Sees(s, h) ==
    CASE s = "oca" -> OcaFirst(h)
      [] s = "oca_ver" -> OcaVersion(h)
      [] s = "rttcc" -> RttccStatus(h)
      [] s = "ecc" -> EccErrors(h)
      [] s = "rows" -> RowRemapErrors(h)
      [] s = "count" -> GpuCount(h)
      [] s = "pcie" -> GpuPcie(h)
      [] s = "bus" -> CheckBus(h)
      [] s = "rdma" -> RdmaLinkStatus(h)
      [] s = "flap" -> LinkFlapping(h)
      [] s = "xid" -> GpuXid(h)
      [] s = "wpa" -> WpaAuth(h)
      [] s = "fabric" -> FabricManager(h)
      [] s = "cpu" -> CpuProfile(h)

(* What a section that raises an exception leaves behind: nothing found,   *)
(* but for the state of the agent, which is then not ready.                *)
Default(s) == IF s = "rttcc" THEN {{}, {<<"oca", Min(Devices)>>}} ELSE {{}}

(* All that a check finds. *)
Found(h) == UNION {Sees(AllSections[i], h) : i \in DOMAIN AllSections}

-----------------------------------------------------------------------------
(* The summary *)

(* The reasons in the order of section 4: what raises one, and its action. *)
Rule(W, reason, action) == [on |-> W, reason |-> reason, action |-> action]
Rules ==
  << Rule({"oca_first"}, "OCA Not completed", NONE),
     Rule({"oca"}, "OCA Not completed", NONE),
     Rule({"old_agent"}, "OCA version Error", NONE),
     Rule({"rttcc"}, "RTTCC Error", NONE),
     Rule({"volatile"}, "ECC Error", "Reboot"),
     Rule({"pending", "many"}, "Remap Error", NONE),
     Rule({"missing"}, "Missing GPU Error", "Reboot"),
     Rule({"narrow"}, "GPU PCIe Width Error", "Terminate"),
     Rule({"fallen"}, "GPU Bus Error", "Terminate"),
     Rule({"inactive", "bad_signal"}, "RDMA Link Error", "Terminate"),
     Rule({"flapping"}, "RDMA Link Flapping Error", NONE),
     Rule({"link_down"}, "RDMA Link Down Error", NONE),
     Rule({"xid", "xid_warn"}, "XID Error", NONE),
     Rule({"unauthenticated"}, "WPA Auth Error", "Reboot"),
     Rule({"fabric"}, "Fabric Manager Error", "FabricManagerRestart"),
     Rule({"powersave"}, "CPU Profile error", "Terminate") >>

Raised(rule, seen) == Present(seen, rule.on) # {}

(* For the remapped rows it is what check_row_remap_errors came to. *)
Action(rule, seen) == IF rule.reason = "Remap Error" THEN RowRemapAction(seen) ELSE rule.action

(* slurm_reason: the rules that what was seen raises. *)
Reasons(seen) == {i \in DOMAIN Rules : Raised(Rules[i], seen)}

(* Mutant of RecommendedAction: the latest action wins. *)
RecommendedActionLast(current, action) == IF action = NONE THEN current ELSE action

(* Mutant of RecommendedAction: the restart is not in the list of actions. *)
RecommendedActionUnlisted(current, action) ==
    CASE action = "FabricManagerRestart" -> "No action was found"
      [] action = "Reboot" -> IF current = "Terminate" THEN current ELSE action
      [] action = NONE -> current
      [] action = "Terminate" -> action

RecommendedAction(current, action) ==
    CASE action \in {"Reboot", "FabricManagerRestart"} ->
             IF current = "Terminate" THEN current ELSE action
      [] action = NONE -> current
      [] action = "Terminate" -> action

(* The action that the summary ends with, one raised rule after the other. *)
Summary(seen) ==
    MapThenFoldSet(LAMBDA action, current : RecommendedAction(current, action), NONE,
                   LAMBDA i : Action(Rules[i], seen), LAMBDA S : Max(S), Reasons(seen))
=============================================================================
