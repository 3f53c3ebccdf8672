--------------------------- MODULE MCAgentSession ---------------------------
(* Instances of AgentSession for TLC. *)
EXTENDS AgentSession, TLC

\* Messages and turns of a kind are not told apart.
Symmetric == Permutations(Asks) \cup Permutations(Jobs) \cup Permutations(Chatter)
=============================================================================
