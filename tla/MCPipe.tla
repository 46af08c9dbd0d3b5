------------------------------- MODULE MCPipe -------------------------------
(* Instances of Pipe for TLC.                                              *)
EXTENDS Pipe

Parent == {0}
FirstChild == {1}
TwoProcs == {0, 1}

\* Programs that use the whole library, and programs that pass bytes.
AllCalls == Op
ByteCalls == {"read", "write", "close", "fork"}
=============================================================================
