----------------------------- MODULE MCEnvSched -----------------------------
(* Instances of EnvSched for TLC.                                          *)
EXTENDS EnvSched

MCPriorities == {1, 2}
OnePriority == {1}
=============================================================================
