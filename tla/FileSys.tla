------------------------------- MODULE FileSys -------------------------------
(***************************************************************************)
(* The file system of fs/fs.c: the block cache, the bitmap, files with     *)
(* direct and indirect blocks, and the root directory.                     *)
(*                                                                         *)
(* The server is one process that handles one request after the other, so  *)
(* a request is one step; clients write into the pages of the cache, which *)
(* they map, between requests.  The whole state is the record fs, and the  *)
(* functions of fs.c are operators from one record to the next.            *)
(*                                                                         *)
(* Sizes are in half blocks, so that a size may lie on a block boundary or *)
(* not.  A page is a function from the places of an indirect block to      *)
(* words: a page of data holds the same word everywhere, and whatever a    *)
(* page holds can be read as block numbers.  The paths are names in the    *)
(* root directory, which has direct blocks only (MaxDir).  The server has  *)
(* memory for the pages of its cache.                                      *)
(***************************************************************************)
EXTENDS Integers, FiniteSets, FiniteSetsExt

CONSTANTS
    NBLK,       \* s_nblocks
    NDIRECT,
    NINDIRECT,
    FILE2BLK,   \* directory entries of a block
    Name,
    NoName,     \* the empty name of an unused entry
    Word,       \* what clients write
    MaxSize,    \* bound on the size of a file
    MaxDir,     \* bound on the blocks of the directory
    MaxOps      \* bound on the number of requests and writes

BY2BLK == 2
Block == 0..(NBLK - 1)
DataBlock == 3..(NBLK - 1)
Root == 0
Entry == 1..(MaxDir * FILE2BLK)
FileNo == {Root} \cup Entry
Bno == 0..(NINDIRECT - 1)
Place == NDIRECT..(NINDIRECT - 1)
Zero == [i \in Place |-> 0]
Full(w) == [i \in Place |-> w]
Unwritten == -1

ASSUME FsAssumption ==
    /\ NBLK \in Nat /\ NBLK > 4 /\ FILE2BLK \in Nat \ {0}
    /\ NDIRECT \in Nat \ {0} /\ NINDIRECT \in Nat /\ NDIRECT < NINDIRECT
    /\ MaxDir \in 1..NDIRECT /\ MaxSize \in 1..(NINDIRECT * BY2BLK) /\ MaxOps \in Nat
    /\ Word \subseteq Nat /\ NoName \notin Name

VARIABLES
    fs,         \* [file, page, free, mapped, dirty, disk, end]
    open,       \* files clients have open: values of o_file
    told,       \* the largest size of an entry a client may have in its Fd page
    held,       \* blocks whose pages in the cache a client may still have mapped
    behind,     \* history: a block behind the end of its file was asked for
    written,    \* history: the word last written to a block of a file
    ops         \* requests and writes so far, for the bound

vars == <<fs, open, told, held, behind, written, ops>>

NewFile == [name |-> NoName, size |-> 0, direct |-> [i \in 0..(NDIRECT - 1) |-> 0], indirect |-> 0, f_dir |-> FALSE]

-------------------------------------------------------------------------------
\* The cache.

\* read_block: panics for a block that is free or does not exist; a block not in
\* memory is read.  (A directory block is never unmapped: its entries are file.)
read_block(st, b) ==
    IF b >= NBLK \/ b \in st.free THEN [st EXCEPT !.end = IF @ = "no" THEN "panic" ELSE @]
    ELSE IF b \in st.mapped THEN st
    ELSE [st EXCEPT !.mapped = @ \cup {b}, !.page[b] = st.disk.page[b]]

\* The blocks of the directory, in memory.
DirBlock(st, k) == st.file[Root].direct[(k - 1) \div FILE2BLK]

\* write_block for a set of blocks; 2 is the bitmap.
write_blocks(st, B) ==
    [st EXCEPT !.disk.page = [b \in Block |-> IF b \in B THEN st.page[b] ELSE @[b]],
               !.disk.file = [k \in FileNo |-> IF k \in Entry /\ DirBlock(st, k) \in B THEN st.file[k] ELSE @[k]],
               !.disk.free = IF 2 \in B THEN st.free ELSE @]

\* Mutant: a block that is not in memory is marked too.
dirty_block_any(st, b) == [st EXCEPT !.dirty = @ \cup {b}]

dirty_block(st, b) == IF b \in st.mapped THEN [st EXCEPT !.dirty = @ \cup {b}] ELSE st

\* Mutant: the bit of one block is found and the block before it returned.
alloc_block_before(st) ==
    IF st.free = {} THEN [st |-> st, r |-> 0]
    ELSE LET b == Min(st.free)
             s == write_blocks([st EXCEPT !.free = @ \ {b}], {2})
         IN  [st |-> [s EXCEPT !.mapped = @ \cup {b - 1}, !.page[b - 1] = IF b - 1 \in st.mapped THEN @ ELSE Zero],
              r |-> b - 1]

\* Mutant: the bitmap is written by a later sync.
alloc_block_unwritten(st) ==
    IF st.free = {} THEN [st |-> st, r |-> 0]
    ELSE LET b == Min(st.free)
         IN  [st |-> [st EXCEPT !.free = @ \ {b}, !.mapped = @ \cup {b},
                                !.page[b] = IF b \in st.mapped THEN @ ELSE Zero], r |-> b]

\* alloc_block: the first free block, the bitmap written at once.  map_block leaves
\* a page that is still mapped as it is.
alloc_block(st) ==
    IF st.free = {} THEN [st |-> st, r |-> 0]
    ELSE LET b == Min(st.free)
             s1 == [st EXCEPT !.free = @ \ {b}]
             s2 == write_blocks(s1, {2})
         IN  [st |-> [s2 EXCEPT !.mapped = @ \cup {b}, !.page[b] = IF b \in st.mapped THEN @ ELSE Zero],
              r |-> b]

\* free_block, for a set of blocks: the bitmap in memory only.
free_blocks(st, B) == [st EXCEPT !.free = @ \cup (B \ {0})]

-------------------------------------------------------------------------------
\* The blocks of a file.

\* Metadata taken from a page with old contents: from here on the blocks of the
\* file are anything, and the model ends.
Garbage(st, b) == IF st.page[b] = Zero THEN st ELSE [st EXCEPT !.end = "garbage"]

\* The indirect block of f is what alloc_block gave.
SetIndirect(a, f) ==
    IF a.r = 0 THEN [st |-> a.st, r |-> "E_NO_DISK"]
    ELSE [st |-> Garbage([a.st EXCEPT !.file[f].indirect = a.r], a.r), r |-> "OK"]

file_block_walk(st, f, bno, alloc) ==
    IF bno < NDIRECT THEN [st |-> st, r |-> "OK"]
    ELSE IF bno >= NINDIRECT THEN [st |-> st, r |-> "E_INVAL"]
    ELSE IF st.file[f].indirect # 0 THEN [st |-> read_block(st, st.file[f].indirect), r |-> "OK"]
    ELSE IF ~alloc THEN [st |-> st, r |-> "E_NOT_FOUND"]
    ELSE SetIndirect(alloc_block(st), f)

\* *ptr of file_block_walk, and an assignment to it.
Ptr(st, f, bno) ==
    IF bno < NDIRECT THEN st.file[f].direct[bno]
    ELSE IF st.file[f].indirect = 0 THEN 0 ELSE st.page[st.file[f].indirect][bno]
SetPtr(st, f, bno, b) ==
    IF bno < NDIRECT THEN [st EXCEPT !.file[f].direct[bno] = b]
    ELSE [st EXCEPT !.page[st.file[f].indirect][bno] = b]

\* file_map_block after the walk w; r is the block, or 0 for any error.
MapAllocated(a, f, bno) == IF a.r = 0 THEN a ELSE [st |-> SetPtr(a.st, f, bno, a.r), r |-> a.r]
MapWalked(w, f, bno, alloc) ==
    IF w.r # "OK" THEN [st |-> w.st, r |-> 0]
    ELSE IF Ptr(w.st, f, bno) # 0 \/ ~alloc THEN [st |-> w.st, r |-> Ptr(w.st, f, bno)]
    ELSE MapAllocated(alloc_block(w.st), f, bno)
file_map_block(st, f, bno, alloc) == MapWalked(file_block_walk(st, f, bno, alloc), f, bno, alloc)

ReadMapped(m) == IF m.r = 0 THEN m ELSE [st |-> read_block(m.st, m.r), r |-> m.r]
file_get_block(st, f, bno) == ReadMapped(file_map_block(st, f, bno, TRUE))

\* The indirect block is in memory once a block behind the direct ones was looked up.
ReadIndirect(st, f, bnos) ==
    IF (\E bno \in bnos : bno \in Place) /\ st.file[f].indirect # 0
    THEN read_block(st, st.file[f].indirect) ELSE st

nblocks(size) == size \div BY2BLK + 1

\* file_clear_block for a set of blocks of a file.
file_clear_blocks(st, f, bnos) ==
    LET s == ReadIndirect(st, f, bnos)
        B == {Ptr(s, f, bno) : bno \in bnos \cap Bno}
        cleared == [s EXCEPT !.file[f].direct = [i \in DOMAIN @ |-> IF i \in bnos THEN 0 ELSE @[i]]]
    IN  free_blocks(IF s.file[f].indirect = 0 THEN cleared
                    ELSE [cleared EXCEPT !.page[s.file[f].indirect] =
                             [i \in Place |-> IF i \in bnos THEN 0 ELSE @[i]]], B)

\* Mutant: the indirect block is freed and still pointed to.
file_truncate_indirect_kept(st, f, newsize) ==
    LET new == IF newsize = 0 THEN 0 ELSE nblocks(newsize)
        s == file_clear_blocks(st, f, new..(nblocks(st.file[f].size) - 1))
        s2 == IF new <= NDIRECT THEN free_blocks(s, {s.file[f].indirect}) ELSE s
    IN  [s2 EXCEPT !.file[f].size = newsize]

file_truncate(st, f, newsize) ==
    LET new == IF newsize = 0 THEN 0 ELSE nblocks(newsize)
        s == file_clear_blocks(st, f, new..(nblocks(st.file[f].size) - 1))
        s2 == IF new <= NDIRECT
              THEN [free_blocks(s, {s.file[f].indirect}) EXCEPT !.file[f].indirect = 0] ELSE s
    IN  [s2 EXCEPT !.file[f].size = newsize]

\* Mutant: the last, partial block is forgotten.
file_flush_short(st, f) ==
    LET bnos == 0..(nblocks(st.file[f].size) - 2)
        s == ReadIndirect(st, f, bnos)
    IN  write_blocks(s, {Ptr(s, f, bno) : bno \in bnos \cap Bno} \cap s.mapped \cap s.dirty \cap DataBlock)

\* file_flush: the blocks of the file that are dirty.  The indirect block is not
\* one of them, and nothing is ever marked clean.
file_flush(st, f) ==
    LET bnos == 0..(nblocks(st.file[f].size) - 1)
        s == ReadIndirect(st, f, bnos)
    IN  write_blocks(s, {Ptr(s, f, bno) : bno \in bnos \cap Bno} \cap s.mapped \cap s.dirty \cap DataBlock)

\* if (f->f_dir) file_flush(f->f_dir): the directory of every file is the root.
flush_dir(st, f) == IF st.file[f].f_dir THEN file_flush(st, Root) ELSE st

-------------------------------------------------------------------------------
\* The directory.

\* The loop of dir_lookup and dir_alloc_file over the blocks of the root: the first
\* entry with the name, or 0; a block that cannot be had ends it.  A block that an earlier
\* request could not get is allocated here, and may have old contents.
EntriesOf(i) == {k \in Entry : (k - 1) \div FILE2BLK = i}
ScanBlock(g, i, name) ==
    LET hits == {k \in EntriesOf(i) : g.st.file[k].name = name}
    IN  IF g.r = 0 THEN [st |-> g.st, k |-> 0, failed |-> TRUE]
        ELSE IF g.st.page[g.r] # Zero THEN [st |-> Garbage(g.st, g.r), k |-> 0, failed |-> TRUE]
        ELSE [st |-> g.st, k |-> IF hits = {} THEN 0 ELSE Min(hits), failed |-> FALSE]
ScanNext(acc, i, name) ==
    IF acc.k # 0 \/ acc.failed THEN acc ELSE ScanBlock(file_get_block(acc.st, Root, i), i, name)
scan(st, name) ==
    LET n == st.file[Root].size \div BY2BLK
        upto[i \in 0..n] == IF i = 0 THEN [st |-> st, k |-> 0, failed |-> FALSE]
                            ELSE ScanNext(upto[i - 1], i - 1, name)
    IN  upto[n]

\* dir_lookup, by way of walk_path: an entry found learns its directory, and its
\* block is dirty from now on.
Found(l) ==
    IF l.k = 0 THEN l
    ELSE [l EXCEPT !.st = dirty_block([@ EXCEPT !.file[l.k].f_dir = TRUE], DirBlock(@, l.k))]
dir_lookup(st, name) == Found(scan(st, name))

\* dir_alloc_file: a full directory grows, its size before the block is there.
GrownBlock(g, n) ==
    IF g.r = 0 THEN [st |-> g.st, k |-> 0, failed |-> TRUE]
    ELSE [st |-> Garbage(g.st, g.r), k |-> n * FILE2BLK + 1, failed |-> FALSE]
GrowFull(l, n) ==
    IF l.k # 0 \/ l.failed THEN l
    ELSE GrownBlock(file_get_block([l.st EXCEPT !.file[Root].size = @ + BY2BLK], Root, n), n)
dir_alloc_file(st) == GrowFull(scan(st, NoName), st.file[Root].size \div BY2BLK)

-------------------------------------------------------------------------------
\* fs_init, for a disk with one file of one block in the directory.
InitWith(name, w) ==
    /\ LET file == [k \in FileNo |->
                      IF k = Root THEN [NewFile EXCEPT !.size = BY2BLK, !.direct[0] = 3]
                      ELSE IF k = 1 THEN [NewFile EXCEPT !.name = name, !.size = 1, !.direct[0] = 4]
                      ELSE NewFile]
           free == 5..(NBLK - 1)
       IN  fs = [file |-> file, page |-> [b \in Block |-> Zero], free |-> free,
                 mapped |-> {0, 1, 2}, dirty |-> {},
                 disk |-> [file |-> file, page |-> [b \in Block |-> IF b = 4 THEN Full(w) ELSE Zero],
                           free |-> free],
                 end |-> "no"]
    /\ written = [k \in FileNo |-> [bno \in Bno |-> IF k = 1 /\ bno = 0 THEN w ELSE Unwritten]]
    /\ open = {} /\ told = [k \in Entry |-> 0] /\ held = {} /\ behind = FALSE
    /\ ops = 0

Init == \E name \in Name, w \in Word : InitWith(name, w)

\* serve_open copies the File into the Fd page, ftruncate of file.c sets its size there:
\* every opener has the size it was told last.
Tell(k, size) == told' = [told EXCEPT ![k] = Max({@, size})]
Opened(st, k) == open' = open \cup {k} /\ Tell(k, st.file[k].size)

\* One request, unless the server has ended.
serving == fs.end = "no" /\ ops < MaxOps /\ ops' = ops + 1

file_open ==
    /\ serving
    /\ \E name \in Name : \E l \in {dir_lookup(fs, name)} :
         fs' = l.st /\ IF l.k = 0 THEN UNCHANGED <<open, told>> ELSE Opened(l.st, l.k)
    /\ UNCHANGED <<held, behind, written>>

\* file_create: the entry keeps whatever it holds but its name.
file_create ==
    /\ serving
    /\ \E name \in Name : \E l \in {dir_lookup(fs, name)} :
         \/ (l.k # 0 \/ l.failed) /\ fs' = l.st /\ UNCHANGED <<open, told>>
         \/ /\ l.k = 0 /\ ~l.failed
            /\ \E a \in {dir_alloc_file(l.st)} :
                 /\ a.st.file[Root].size <= MaxDir * BY2BLK
                 /\ IF a.k = 0 THEN fs' = a.st /\ UNCHANGED <<open, told>>
                    ELSE fs' = [a.st EXCEPT !.file[a.k].name = name] /\ Opened(a.st, a.k)
    /\ UNCHANGED <<held, behind, written>>

\* What points to a block: a place of a file, or -1 for its indirect block.
PtrOf(f, bno) ==
    IF bno = -1 THEN fs.file[f].indirect
    ELSE IF bno < NDIRECT \/ fs.file[f].indirect \in fs.mapped THEN Ptr(fs, f, bno)
    ELSE IF fs.file[f].indirect = 0 THEN 0 ELSE fs.disk.page[fs.file[f].indirect][bno]

\* serve_map: file_get_block for any block the library asks for, which is one below the
\* size it was told, although another opener may have truncated the file since.  The
\* client, and the children it forks, map the page of the cache.
serve_map ==
    /\ serving
    /\ \E f \in open, bno \in Bno : \E g \in {file_get_block(fs, f, bno)} :
         /\ bno * BY2BLK < told[f]
         /\ fs' = g.st
         /\ held' = IF g.st.end = "no" THEN held \cup ({g.r} \ {0}) ELSE held
         /\ behind' = (behind \/ bno * BY2BLK >= fs.file[f].size)
    /\ UNCHANGED <<open, told, written>>

\* The block is an indirect block, or one of the directory.
Metadata(b) == \E f \in FileNo, bno \in Bno \cup {-1} : (f = Root \/ bno = -1) /\ PtrOf(f, bno) = b

\* A client stores into a page it has mapped.  Neither a removal nor somebody else's
\* truncation takes the mapping away, so the block may be free by now, another file's,
\* or metadata: then the words of the store are block numbers or names.
client_write ==
    /\ serving
    /\ \E b \in held, w \in Word :
         IF Metadata(b) THEN fs' = [fs EXCEPT !.end = "garbage"] /\ UNCHANGED written
         ELSE /\ fs' = [fs EXCEPT !.page[b] = Full(w)]
              /\ written' = [f \in FileNo |->
                                [bno \in Bno |-> IF PtrOf(f, bno) = b THEN w ELSE written[f][bno]]]
    /\ UNCHANGED <<open, told, held, behind>>

\* Blocks that a truncation to the size clears are no longer written.
Kept(f, size) ==
    [bno \in Bno |-> IF size = 0 \/ bno >= nblocks(size) THEN Unwritten ELSE written[f][bno]]

file_set_size ==
    /\ serving
    /\ \E f \in open, size \in 0..MaxSize :
         LET shorter == fs.file[f].size > size
             s == IF shorter THEN file_truncate(fs, f, size) ELSE [fs EXCEPT !.file[f].size = size]
         IN  /\ fs' = flush_dir(s, f)
             /\ Tell(f, size)
             /\ written' = IF shorter THEN [written EXCEPT ![f] = Kept(f, size)] ELSE written
    /\ UNCHANGED <<open, held, behind>>

file_dirty ==
    /\ serving
    /\ \E f \in open, bno \in Bno : \E m \in {file_map_block(fs, f, bno, FALSE)} :
         fs' = IF m.r = 0 THEN m.st ELSE dirty_block(m.st, m.r)
    /\ UNCHANGED <<open, told, held, behind, written>>

file_close(f) ==
    /\ serving
    /\ f \in open
    /\ fs' = flush_dir(file_flush(fs, f), f)
    /\ UNCHANGED <<open, told, held, behind, written>>

\* file_remove: whoever has the file open keeps pointing to the entry.
file_remove ==
    /\ serving
    /\ \E name \in Name : \E l \in {dir_lookup(fs, name)} :
         \/ l.k = 0 /\ fs' = l.st /\ UNCHANGED written
         \/ /\ l.k # 0
            /\ \E s \in {[file_truncate(l.st, l.k, 0) EXCEPT !.file[l.k].name = NoName]} :
                 fs' = flush_dir(file_flush(s, l.k), l.k)
            /\ written' = [written EXCEPT ![l.k] = Kept(l.k, 0)]
    /\ UNCHANGED <<open, told, held, behind>>

fs_sync ==
    /\ serving
    /\ fs' = write_blocks(fs, fs.mapped \cap fs.dirty)
    /\ UNCHANGED <<open, told, held, behind, written>>

Next ==
    \/ file_open \/ file_create \/ serve_map \/ client_write \/ file_set_size \/ file_dirty
    \/ \E f \in Entry : file_close(f)
    \/ file_remove \/ fs_sync

Spec == Init /\ [][Next]_vars

-------------------------------------------------------------------------------
\* The type invariant of the record fs and the history.
TypeOK ==
    LET Ptrs == 0..(NBLK - 1)
        Page == [Place -> Ptrs \cup Word]
        File == [name : Name \cup {NoName}, size : 0..(NINDIRECT * BY2BLK), indirect : Ptrs, f_dir : BOOLEAN,
                 direct : [0..(NDIRECT - 1) -> Ptrs]]
    IN  /\ DOMAIN fs = {"file", "page", "free", "mapped", "dirty", "disk", "end"}
        /\ fs.file \in [FileNo -> File] /\ fs.disk.file \in [FileNo -> File]
        /\ fs.page \in [Block -> Page] /\ fs.disk.page \in [Block -> Page]
        /\ fs.free \subseteq DataBlock /\ fs.disk.free \subseteq DataBlock
        /\ fs.dirty \subseteq fs.mapped /\ fs.mapped \subseteq Block
        /\ fs.end \in {"no", "panic", "garbage"}
        /\ open \subseteq Entry /\ held \subseteq Block /\ ops \in 0..MaxOps
        /\ told \in [Entry -> 0..MaxSize] /\ behind \in BOOLEAN
        /\ written \in [FileNo -> [Bno -> Word \cup {Unwritten}]]

\* The places that point to a block.
Refs == {x \in FileNo \X (Bno \cup {-1}) : PtrOf(x[1], x[2]) # 0}

\* Blocks are neither shared nor lost, however files grow, shrink, vanish while
\* open, and run out of blocks half way: every block in use has exactly one place
\* that points to it, and no place points to a free block.  Blocks asked for behind the
\* end of a file, by an opener that has not heard of a truncation, may be lost but are
\* not shared either.  All of it, and that read_block does not panic, up to the step, in
\* reach of an ordinary removal and growth, in which a page with old contents becomes
\* metadata or a client stores into one that has: there the model ends ("garbage").
BlocksAccounted ==
    /\ fs.end # "panic"
    /\ fs.end = "no" =>
        LET pointed == {PtrOf(x[1], x[2]) : x \in Refs} IN
        /\ Cardinality(pointed) = Cardinality(Refs)
        /\ pointed \subseteq DataBlock \ fs.free
        /\ ~behind => DataBlock \ fs.free \subseteq pointed

\* A block of a file holds the last store made to it: through the file, or a late one by
\* a client that mapped the page when the block was another file's.  Requests themselves,
\* however they free, reallocate, write and read blocks, neither lose nor change a store.
ContentsKept ==
    fs.end = "no" =>
        \A f \in Entry, bno \in Bno : written[f][bno] # Unwritten =>
            LET b == PtrOf(f, bno)
            IN  b # 0 /\ (IF b \in fs.mapped THEN fs.page ELSE fs.disk.page)[b] = Full(written[f][bno])

\* After file_close of a file that was opened by name the disk has its entry, and
\* every one of its blocks that was marked dirty.
CloseWritesBack ==
    \A f \in Entry : file_close(f) /\ fs.file[f].f_dir =>
        /\ fs'.disk.file[f] = fs'.file[f]
        /\ \A bno \in Bno : bno * BY2BLK < fs.file[f].size /\ PtrOf(f, bno) \in fs.dirty \ {0} =>
               fs'.disk.page[PtrOf(f, bno)] = fs'.page[PtrOf(f, bno)]

\* A block marked used on disk may be lost by a crash, a block in use is never
\* marked free there: alloc_block writes the bitmap before anything points to it.
BitmapOnDisk == fs.disk.free \subseteq fs.free
===============================================================================
