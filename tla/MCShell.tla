------------------------------- MODULE MCShell -------------------------------
(* The shell and the family of processes that runs one command line.        *)
EXTENDS Shell

\* The two sides of a pipe that was not made keep their descriptors, or are left with what
\* was 0, or with what was 1.
JunkCases == {<<2, 2>>, <<0, 0>>, <<1, 1>>}
==============================================================================
