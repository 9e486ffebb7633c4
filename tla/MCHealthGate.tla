---------------------------- MODULE MCHealthGate ----------------------------
(* One node with two GPUs.  A restart of the node may help with the first  *)
(* symptom; the other two come together and call for different actions.    *)
EXTENDS HealthGate

Together == {{<<"volatile", 1>>}, {<<"narrow", 1>>, <<"fabric", 1>>}}
=============================================================================
