-------------------------- MODULE MCTerminalEvents --------------------------
(* TerminalEvents on small sets of jobs, sources and configurations.       *)
EXTENDS TerminalEvents, TLC

SourceSymmetry == Permutations(Sources) \cup Permutations(Configs)
=============================================================================
