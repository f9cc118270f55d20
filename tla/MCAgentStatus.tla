---------------------------- MODULE MCAgentStatus ----------------------------
(* Two hooks, each of the pane's lead, of a subagent, or of neither.         *)
EXTENDS AgentStatus, TLC

MCSymmetry == Permutations(Hook)
=============================================================================
