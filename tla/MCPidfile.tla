----------------------------- MODULE MCPidfile -----------------------------
(* Instances of Pidfile for TLC. *)
EXTENDS Pidfile, TLC

Names == Permutations(Proc) \cup Permutations(Inode)
=============================================================================
