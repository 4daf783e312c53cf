----------------------------- MODULE MCOtFrame -----------------------------
(***************************************************************************)
(* A model-checking instance of OtFrame: two devices, of which the key     *)
(* file knows one only, and two tasks on each side.                        *)
(***************************************************************************)
EXTENDS OtFrame, FiniteSets, TLC

CONSTANTS d1, d2, k1

MCPskFile == d1 :> k1 @@ d2 :> NoKey

\* Bound: histories continue up to two sealed frames or restarts in all.
FewFrames == Cardinality(wire) + ingressLife + egressLife <= 2

TaskSymmetry == Permutations(IngressTasks) \cup Permutations(EgressTasks)
=============================================================================
