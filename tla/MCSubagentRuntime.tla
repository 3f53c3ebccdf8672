------------------------- MODULE MCSubagentRuntime -------------------------
(* Instances of SubagentRuntime for TLC. *)
EXTENDS SubagentRuntime, TLC

\* Runs are told apart by nothing but their rows, agent turns by nothing at all.
Symmetric == Permutations(Runs) \cup Permutations(Agents)
=============================================================================
