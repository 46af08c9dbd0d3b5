------------------------------- MODULE MCFsServ -------------------------------
(***************************************************************************)
(* Two servers, the first with two paths, the second with one.             *)
(***************************************************************************)
EXTENDS FsServ

CONSTANTS f, g, h
Roots == [name \in {f, g, h} |-> IF name = h THEN 1 ELSE 0]
===============================================================================
