------------------------------- MODULE MCFork -------------------------------
(***************************************************************************)
(* The two ways to make a process.  They share no state, so a behaviour is *)
(* one of fork, with the slots other than the first process's              *)
(* interchangeable, or one of spawn.                                       *)
(***************************************************************************)
EXTENDS Fork, Spawn, TLC

VARIABLE maker

\* Program files of one segment, anywhere and of any size, and of two segments with
\* a header in between that is not to be loaded, as user.lds lays them out.
NBYTE == NIMAGE * BY2PG
Phdr(load, va, offset, filesz, memsz) ==
    [load |-> load, va |-> va, offset |-> offset, filesz |-> filesz, memsz |-> memsz]
Segments == {s \in (0..(2 * BY2PG - 1)) \X (0..NBYTE) \X (0..NBYTE) : s[2] <= s[3] /\ s[1] + s[3] <= NBYTE}
OneSegment == {<<Phdr(TRUE, s[1], 1, s[2], s[3])>> : s \in Segments}
TwoSegments ==
    {<<Phdr(TRUE, 0, 1, text, text), Phdr(FALSE, 0, 0, 0, 0), Phdr(TRUE, BY2PG, 4, data, bss)>> :
        text \in {1, BY2PG}, data \in {0, BY2PG - 1}, bss \in {BY2PG - 1, BY2PG + 1, 2 * BY2PG}}
ProgramFiles == OneSegment \cup TwoSegments

MCInit ==
    \/ maker = "fork" /\ Init /\ SpawnInitWith(<<>>, "open")
    \/ maker = "spawn" /\ Init /\ SpawnInit

MCNext ==
    \/ maker = "fork" /\ Next /\ UNCHANGED <<maker, spawn_vars>>
    \/ maker = "spawn" /\ SpawnNext /\ UNCHANGED <<maker, vars>>

MCSpec == MCInit /\ [][MCNext]_<<maker, vars, spawn_vars>>

\* The variables of fork and of spawn keep their types.
TypesOK == TypeOK /\ SpawnTypeOK

SlotSymmetry == Permutations(Env \ {First})
=============================================================================
