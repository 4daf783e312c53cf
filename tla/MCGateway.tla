------------------------------ MODULE MCGateway ------------------------------
(* Model-checking instances of Gateway: one device, no key file. *)
EXTENDS Gateway, TLC

MCPskFile == [d \in Devices |-> NoKey]

Symmetry == Permutations(Keys) \cup Permutations(Conns) \cup Permutations(EgressTasks)
=============================================================================
