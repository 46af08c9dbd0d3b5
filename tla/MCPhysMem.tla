----------------------------- MODULE MCPhysMem -----------------------------
(* Instances of PhysMem for TLC.                                           *)
EXTENDS PhysMem, TLC

CONSTANTS e1, e2, e3, p1, p2, p3, p4, p5, va0, va1, va2, pt1, pt2, dir

\* Address 0 and va1 share a page table, va2 has one of its own.
MCPDX == (va0 :> pt1) @@ (va1 :> pt1) @@ (va2 :> pt2)
         @@ (pt1 :> dir) @@ (pt2 :> dir) @@ (dir :> dir)

MCPDX1 == (va0 :> pt1) @@ (va1 :> pt1) @@ (pt1 :> dir) @@ (dir :> dir)

MCPerms == {"PTE_V", "PTE_D"}

\* Pages and environments are interchangeable.
Interchangeable == Permutations(Page) \cup Permutations(Env)
=============================================================================
