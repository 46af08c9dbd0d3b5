-------------------------------- MODULE Format --------------------------------
(***************************************************************************)
(* tools/fsformat.c, the host program that makes the disk image fs.c       *)
(* starts from.  It hands out blocks one after the other and never returns *)
(* one; files and directories are written as they are met, so that the     *)
(* blocks of a directory, of its files and their index blocks interleave.  *)
(*                                                                         *)
(* The arguments and the contents of the directories are chosen as they    *)
(* are met.  A name is a number, size counts blocks, the block k of file   *)
(* name is <<name, k>>, and a struct File * is the block and the place of  *)
(* the entry, <<0, 0>> for s_root.                                         *)
(***************************************************************************)
EXTENDS Integers, Sequences, FiniteSets

CONSTANTS
    NBLOCK,     \* blocks of the disk
    BIT2BLK,    \* bits of a block
    NDIRECT,    \* links in a struct File
    NINDIRECT,  \* links in an index block
    FILE2BLK,   \* entries of a directory block
    MaxNames,   \* bound on the files and directories
    MaxBlocks   \* bound on the blocks of a file

nbitblock == (NBLOCK + BIT2BLK - 1) \div BIT2BLK
Root == <<0, 0>>

NoFile == [name |-> 0, type |-> "NONE", size |-> 0, direct |-> [n \in 0..(NDIRECT - 1) |-> 0],
           indirect |-> 0]
EmptyBlock == [type |-> "FREE", files |-> [i \in 0..(FILE2BLK - 1) |-> NoFile],
               links |-> [n \in 0..(NINDIRECT - 1) |-> 0], data |-> <<0, 0>>]

VARIABLES
    fmt,        \* "walk", "data", "done", "abort", or "overrun" behind the end of disk[]
    image,      \* disk[], with s_root as the entry of block 0
    nextbno,    \* the next block
    freebits,   \* the bits set in the bitmap blocks
    path,       \* the directories being written, s_root first
    target,     \* the file being written, and its next block
    given       \* history: what the tool was given: name, type, size and directory

format_vars == <<fmt, image, nextbno, freebits, path, target, given>>

dirf == path[Len(path)]
Entry(disk, f) == disk[f[1]].files[f[2]]

-------------------------------------------------------------------------------
\* init_disk: all bits of the bitmap blocks are set, then those from the byte behind
\* NBLOCK on are cleared.
init_bitmap ==
    LET diff == (NBLOCK % BIT2BLK) \div 8
    IN  IF NBLOCK = nbitblock * BIT2BLK THEN 0..(NBLOCK - 1)
        ELSE 0..((nbitblock - 1) * BIT2BLK + diff * 8 - 1)

Init ==
    /\ fmt = "walk"
    /\ image = [b \in 0..(NBLOCK - 1) |->
                  IF b = 0 THEN [EmptyBlock EXCEPT !.type = "BOOT", !.files[0].type = "DIR"]
                  ELSE IF b = 1 THEN [EmptyBlock EXCEPT !.type = "SUPER"]
                  ELSE IF b < 2 + nbitblock THEN [EmptyBlock EXCEPT !.type = "BMAP"]
                  ELSE EmptyBlock]
    /\ nextbno = 2 + nbitblock
    /\ freebits = init_bitmap
    /\ path = <<Root>> /\ target = [file |-> Root, iblk |-> 0] /\ given = {}

\* Mutant: the links of an index block start at its first word.
save_block_link_shifted(disk, f, nblk, bno, index) ==
    IF nblk < NDIRECT THEN [disk EXCEPT ![f[1]].files[f[2]].direct[nblk] = bno]
    ELSE LET at == IF Entry(disk, f).indirect = 0 THEN index ELSE Entry(disk, f).indirect
         IN [disk EXCEPT ![f[1]].files[f[2]].indirect = at,
                         ![at].type = "INDEX", ![at].links[nblk - NDIRECT] = bno]

\* save_block_link: index is the block a new index block gets.
save_block_link(disk, f, nblk, bno, index) ==
    IF nblk < NDIRECT THEN [disk EXCEPT ![f[1]].files[f[2]].direct[nblk] = bno]
    ELSE LET at == IF Entry(disk, f).indirect = 0 THEN index ELSE Entry(disk, f).indirect
         IN [disk EXCEPT ![f[1]].files[f[2]].indirect = at,
                         ![at].type = "INDEX", ![at].links[nblk] = bno]

\* Blocks that a further block of f takes: the block and perhaps an index block.
Taken(f, nblk) == IF nblk >= NDIRECT /\ Entry(image, f).indirect = 0 THEN 2 ELSE 1

\* create_file: the block of a directory, and its first unused entry.
dir_block(f, i) ==
    IF i < NDIRECT THEN Entry(image, f).direct[i] ELSE image[Entry(image, f).indirect].links[i]

Unused(f) ==
    {s \in (0..(Entry(image, f).size - 1)) \X (0..(FILE2BLK - 1)) :
        image[dir_block(f, s[1])].files[s[2]].name = 0}
FirstUnused(f) ==
    LET s == CHOOSE s \in Unused(f) : \A t \in Unused(f) : s[1] * FILE2BLK + s[2] <= t[1] * FILE2BLK + t[2]
    IN  <<dir_block(f, s[1]), s[2]>>

\* The next block of f can be linked: assert(nblk < NINDIRECT), and the blocks are there.
\* next_block does not look, and writes behind the end of disk[].
Linkable(f, nblk) == nblk < NINDIRECT /\ nextbno + Taken(f, nblk) <= NBLOCK

fails(f, nblk) ==
    /\ ~Linkable(f, nblk)
    /\ fmt' = IF nblk >= NINDIRECT THEN "abort" ELSE "overrun"
    /\ UNCHANGED <<image, nextbno, freebits, path, target, given>>

\* create_file takes an unused entry, or the first of a new block (make_link_block).
HasUnused == Unused(dirf) # {}
nblk_dir == Entry(image, dirf).size
NewEntry == IF HasUnused THEN FirstUnused(dirf) ELSE <<nextbno, 0>>

make_link_block ==
    [save_block_link(image, dirf, nblk_dir, nextbno, nextbno + 1)
        EXCEPT ![dirf[1]].files[dirf[2]].size = nblk_dir + 1, ![nextbno].type = "FILE"]

create_file(name, type, size) ==
    /\ fmt = "walk"
    /\ HasUnused \/ Linkable(dirf, nblk_dir)
    /\ LET f == NewEntry IN
       image' = [(IF HasUnused THEN image ELSE make_link_block) EXCEPT
                    ![f[1]].files[f[2]] = [@ EXCEPT !.name = name, !.type = type, !.size = size]]
    /\ nextbno' = nextbno + IF HasUnused THEN 0 ELSE Taken(dirf, nblk_dir)
    /\ given' = given \cup {[name |-> name, type |-> type, size |-> size,
                             dir |-> Entry(image, dirf).name]}
    /\ UNCHANGED freebits

NewName == Cardinality(given) + 1

\* write_file: the entry, then block after block is read into disk[nextbno].
write_file(size) ==
    /\ create_file(NewName, "REG", size)
    /\ target' = [file |-> NewEntry, iblk |-> 0]
    /\ fmt' = "data"
    /\ UNCHANGED path

write_block ==
    LET f == target.file IN
    /\ fmt = "data" /\ target.iblk < Entry(image, f).size
    /\ Linkable(f, target.iblk)
    /\ image' = [save_block_link(image, f, target.iblk, nextbno, nextbno + 1) EXCEPT
                    ![nextbno].type = "DATA", ![nextbno].data = <<Entry(image, f).name, target.iblk>>]
    /\ nextbno' = nextbno + Taken(f, target.iblk)
    /\ target' = [target EXCEPT !.iblk = @ + 1]
    /\ UNCHANGED <<fmt, freebits, path, given>>

end_of_file ==
    /\ fmt = "data" /\ target.iblk = Entry(image, target.file).size
    /\ fmt' = "walk" /\ target' = [file |-> Root, iblk |-> 0]
    /\ UNCHANGED <<image, nextbno, freebits, path, given>>

\* write_directory: the entry, then what is in the directory.
write_directory ==
    /\ create_file(NewName, "DIR", 0)
    /\ path' = Append(path, NewEntry)
    /\ UNCHANGED <<fmt, target>>

closedir ==
    /\ fmt = "walk" /\ Len(path) > 1
    /\ path' = SubSeq(path, 1, Len(path) - 1)
    /\ UNCHANGED <<fmt, image, nextbno, freebits, target, given>>

runs_out ==
    \/ fmt = "walk" /\ NewName <= MaxNames /\ ~HasUnused /\ fails(dirf, nblk_dir)
    \/ fmt = "data" /\ target.iblk < Entry(image, target.file).size /\ fails(target.file, target.iblk)

\* flush_bitmap and finish_fs, when all arguments are done.
flush_bitmap_short == freebits \ (0..(nextbno - 2))   \* mutant: i < nextbno - 1
flush_bitmap == freebits \ (0..(nextbno - 1))

finish_fs ==
    /\ fmt = "walk" /\ Len(path) = 1
    /\ freebits' = flush_bitmap
    /\ fmt' = "done"
    /\ UNCHANGED <<image, nextbno, path, target, given>>

Next ==
    \/ NewName <= MaxNames /\ (write_directory \/ \E size \in 0..MaxBlocks : write_file(size))
    \/ write_block \/ end_of_file \/ closedir \/ runs_out \/ finish_fs

Spec == Init /\ [][Next]_format_vars

-------------------------------------------------------------------------------
\* Blocks of an entry as file_block_walk of fs.c finds them.
BlockOf(f, k) == IF k < NDIRECT THEN f.direct[k] ELSE image[f.indirect].links[k]
Links(f) == {<<f.name, "block", k>> : k \in 0..(f.size - 1)}
            \cup IF f.indirect = 0 THEN {} ELSE {<<f.name, "index", 0>>}
At(f, link) == IF link[2] = "index" THEN f.indirect ELSE BlockOf(f, link[3])

\* The entries in the blocks of directory d.
Children(d) == {image[BlockOf(d, k)].files[i] : k \in 0..(d.size - 1), i \in 0..(FILE2BLK - 1)} \ {NoFile}
AllEntries == {Entry(image, Root)} \cup
    {f \in UNION {{image[b].files[i] : i \in 0..(FILE2BLK - 1)} : b \in {b \in DOMAIN image : image[b].type = "FILE"}} :
        f # NoFile}
AllLinks == UNION {{<<link, At(f, link)>> : link \in Links(f)} : f \in AllEntries}

\* When the tool has finished, fs.c finds in every directory exactly what the tool was
\* given for it, and in every file its blocks in their order; no block has two owners,
\* and the bitmap has as free exactly the blocks that nobody owns.
ImageIsAFileSystem ==
    fmt = "done" =>
        /\ \A d \in AllEntries : d.type = "DIR" =>
              {<<f.name, f.type>> : f \in Children(d)}
                = {<<g.name, g.type>> : g \in {g \in given : g.dir = d.name}}
        /\ \A g \in given : g.type = "REG" => \E f \in AllEntries :
              f.name = g.name /\ f.size = g.size
              /\ \A k \in 0..(f.size - 1) : image[BlockOf(f, k)].data = <<f.name, k>>
        /\ \A x, y \in AllLinks : x[2] = y[2] => x = y
        /\ freebits = (0..(NBLOCK - 1)) \ (0..(1 + nbitblock) \cup {x[2] : x \in AllLinks})
===============================================================================
