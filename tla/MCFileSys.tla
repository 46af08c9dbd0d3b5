------------------------------ MODULE MCFileSys ------------------------------
(***************************************************************************)
(* The layers of the disks: the driver, the file system of server 0 and    *)
(* the host tool that makes its disk, and the FAT file system of server 1. *)
(* Their modules share no state, so a behaviour is one of one of them,     *)
(* with the variables of the others at rest.                               *)
(***************************************************************************)
EXTENDS FileSys, Ide, TLC

CONSTANTS NCLUS, K, BURST, ESEC, EPAGE, NDIR, MaxPages, MaxRequests,  \* Fat
          NBLOCK, BIT2BLK, Entries, MaxNames, MaxBlocks               \* Format

VARIABLES part, fat, fat_open, fat_told, fat_begun, fat_held, fat_written, requests,
          fmt, image, nextbno, freebits, path, target, given

Fat == INSTANCE Fat WITH open <- fat_open, told <- fat_told, begun <- fat_begun, held <- fat_held,
                         written <- fat_written, ops <- requests
Format == INSTANCE Format WITH FILE2BLK <- Entries

fat_vars == <<fat, fat_open, fat_told, fat_begun, fat_held, fat_written, requests>>
format_vars == <<fmt, image, nextbno, freebits, path, target, given>>
all_vars == <<part, vars, fat_vars, ide_vars, format_vars>>

FsAtRest == InitWith(NoName, 0)
FatAtRest == fat = {} /\ fat_open = {} /\ fat_told = {} /\ fat_begun = {} /\ fat_held = {} /\ fat_written = {} /\ requests = 0
IdeAtRest == IdeInitWith([d \in Disk |-> [s \in 0..(NSECT - 1) |-> Blank]])
FormatAtRest == Format!Init

MCInit ==
    \/ part = "fs" /\ Init /\ FatAtRest /\ IdeAtRest /\ FormatAtRest
    \/ part = "fat" /\ FsAtRest /\ Fat!Init /\ IdeAtRest /\ FormatAtRest
    \/ part = "ide" /\ FsAtRest /\ FatAtRest /\ IdeInit /\ FormatAtRest
    \/ part = "format" /\ FsAtRest /\ FatAtRest /\ IdeAtRest /\ Format!Init

\* Each server makes one call of the driver; the run stops where two turns overlap.
IdeOnce ==
    /\ ~overlapped
    /\ \E s \in Server : IdeStep(s) \/ (job[s].nsecs = 0 /\ IdeCall(s))

MCNext ==
    /\ UNCHANGED part
    /\ \/ part = "fs" /\ Next /\ UNCHANGED <<fat_vars, ide_vars, format_vars>>
       \/ part = "fat" /\ Fat!Next /\ UNCHANGED <<vars, ide_vars, format_vars>>
       \/ part = "ide" /\ IdeOnce /\ UNCHANGED <<vars, fat_vars, format_vars>>
       \/ part = "format" /\ Format!Next /\ UNCHANGED <<vars, fat_vars, ide_vars>>

MCSpec == MCInit /\ [][MCNext]_all_vars

\* The directory of fatfs.c keeps its clusters whatever happens, and so do the files, with
\* the last store made to them, until alloc_cluster begins inside a page of which a file
\* truncated to nothing has kept the first cluster: however far the walks of truncate and
\* remove run past the end of a chain, and whatever map_cluster reads besides the cluster
\* asked for.
FatFilesIntact == part = "fat" => Fat!FatFilesIntact

\* After file_close of a file opened by name, the disk holds its entry and the blocks
\* written through it, as far as they are marked dirty.  After fatfile_close, until a page
\* is split, it holds the entry, the contents of the file's clusters, and the chain where
\* fat_flush, which counts sectors as if they were pages, meets the right sector.
CloseReachesDisk ==
    [][(part = "fs" => CloseWritesBack) /\ (part = "fat" => Fat!CloseWritesBack)]_all_vars

\* Until alloc_cluster has split a page, the server of fatfs.c never loops for ever except
\* in the removal of a file that has no cluster (deleteUpdateFat); closing a file (fat_flush)
\* ends, whatever was truncated or removed before.
HangsOnEmptyOnly == [][part = "fat" => Fat!HangRemoves]_fat_vars

\* When fsformat has finished, fs.c finds in every directory what the tool was given for
\* it and in every file its blocks in their order; no block has two owners, and the
\* bitmap has as free exactly the blocks that nobody owns.
ImageIsAFileSystem == part = "format" => Format!ImageIsAFileSystem

TwoServers == {0, 1}
OwnDisk == [s \in Server |-> s]
NameSymmetry == Permutations(Name)
===============================================================================
