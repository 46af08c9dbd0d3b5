---------------------------------- MODULE Fat ----------------------------------
(***************************************************************************)
(* The FAT file system of fs/fatfs.c: the allocation table, the cluster    *)
(* cache, and the files of the root directory, on a disk with K clusters   *)
(* to a page, K > 1.  (With clusters of a page or more fatfile_get_block   *)
(* divides by bytsPerSector / BY2PG, which is 0.)                          *)
(*                                                                         *)
(* As in FileSys a request is one step, and the functions of fatfs.c are   *)
(* operators from one record to the next.  Sizes are in pages, to which    *)
(* fatfile_set_size rounds them.  The code goes on past the end of a       *)
(* chain, with FAT32_USED as the next cluster: fats[FAT32_USED] is the     *)
(* word in front of DISKMAP, the last one of the request page.             *)
(***************************************************************************)
EXTENDS Integers, FiniteSets, FiniteSetsExt, SequencesExt

CONSTANTS
    NCLUS,      \* cluster numbers are below this
    K,          \* clusters of a page: BY2PG / bytsPerCluster
    BURST,      \* clusters that map_cluster reads: bytsPerCluster sectors
    ESEC,       \* entries of the table in one sector
    EPAGE,      \* entries of the table in one page
    NDIR,       \* directory entries of a cluster
    Name,
    NoName,     \* the empty name of an unused entry
    Word,       \* what clients write
    MaxPages,   \* bound on the size of a file
    MaxRequests \* bound on the number of requests and writes

FAT32_FREE == 0
FAT32_USED == NCLUS + K
Cluster == 2..(NCLUS - 1)
Index == 0..(NCLUS + K - 2) \cup {FAT32_USED}
PageOf(c) == (c - 2) \div K
Clusters(p) == {c \in Cluster : PageOf(c) = p}
Root == 0
RootCluster == 2
Entry == 1..(K * NDIR - 1)
EntriesOf(B) == {k \in {Root} \cup Entry : RootCluster + k \div NDIR \in B}
Unwritten == -1

VARIABLES
    fat,        \* [fats, entry, data, mapped, dirty, disk, end, split]
    open,       \* files clients have open: values of o_file
    told,       \* the largest size of an entry a client may have in its Fd page
    begun,      \* entries whose first page some client has asked for
    held,       \* pages of the cache a client may still have mapped
    written,    \* history: the word last written to the first page of a file
    ops         \* requests and writes so far, for the bound

vars == <<fat, open, told, begun, held, written, ops>>

\* The server panics, or loops for ever.
Stop(st, how) == [st EXCEPT !.end = IF @ = "no" THEN how ELSE @]

-------------------------------------------------------------------------------
\* Clusters.

\* A cluster whose page is not mapped is read with all that follow it in the next
\* bytsPerCluster sectors, over what the cache holds for them.
map_cluster(st, c) ==
    LET B == c..(c + BURST - 1)
    IN  IF PageOf(c) \in st.mapped THEN st
        ELSE IF ~(B \subseteq Cluster) THEN Stop(st, "panic")
        ELSE [st EXCEPT !.mapped = @ \cup {PageOf(b) : b \in B},
                        !.data = [b \in Cluster |-> IF b \in B THEN st.disk.data[b] ELSE @[b]]]

cluster_is_dirty(st, c) == c \in Cluster /\ PageOf(c) \in st.dirty

\* write_cluster, for those of a set of clusters that are dirty.
write_clusters(st, B) ==
    LET D == {c \in B : cluster_is_dirty(st, c)}
    IN  [st EXCEPT !.disk.data = [c \in Cluster |-> IF c \in D THEN st.data[c] ELSE @[c]],
                   !.disk.entry = [k \in DOMAIN @ |-> IF k \in EntriesOf(D) THEN st.entry[k] ELSE @[k]]]

dirty_cluster(st, c) ==
    IF c \in Cluster /\ PageOf(c) \in st.mapped THEN [st EXCEPT !.dirty = @ \cup {PageOf(c)}] ELSE st

\* alloc_cluster_num for the free cluster c: K clusters are linked from there on,
\* whether the others are free or not.  (split is history: c was not the first cluster
\* of a page.)
alloc_cluster_num(st, c) ==
    [st EXCEPT !.split = @ \/ (c - 2) % K # 0,
               !.fats = [x \in Index |-> IF x \in c..(c + K - 2) THEN x + 1
                                         ELSE IF x = c + K - 1 THEN FAT32_USED ELSE @[x]]]

\* alloc_cluster: the first free cluster.  The search goes on behind the last
\* one, up to BPB_TotSec32, and map_cluster fails there.
alloc_cluster(st) ==
    LET free == {c \in Cluster : st.fats[c] = FAT32_FREE}
    IN  IF free = {} THEN [st |-> Stop(st, "panic"), r |-> FAT32_USED]
        ELSE [st |-> map_cluster(alloc_cluster_num(st, Min(free)), Min(free)), r |-> Min(free)]

\* The body of fatfile_cluster_walk's loop.  A chain that ends too early is
\* extended, a file without a cluster gets its first.
Extend(acc, a, f) ==
    IF acc.st.entry[f].first = 0
    THEN [acc EXCEPT !.st = [a.st EXCEPT !.entry[f].first = a.r], !.cur = a.st.fats[acc.cur]]
    ELSE [acc EXCEPT !.st = [a.st EXCEPT !.fats[acc.cur] = a.r], !.cur = a.r]

fatfile_cluster_walk(st, f, n, alloc) ==
    LET step(acc, i) ==
            IF ~acc.ok \/ acc.st.end # "no" THEN acc
            ELSE IF i < n /\ acc.st.fats[acc.cur] = FAT32_USED
                 THEN IF ~alloc THEN [acc EXCEPT !.ok = FALSE] ELSE Extend(acc, alloc_cluster(acc.st), f)
                 ELSE [acc EXCEPT !.cur = acc.st.fats[acc.cur]]
    IN  FoldLeft(step, [st |-> st, cur |-> st.entry[f].first, ok |-> TRUE], [i \in 1..n |-> i])

\* fatfile_map_cluster after the walk w; r is the cluster, or 0 for an error.  A new
\* cluster is entered in the directory if it is the first, and nowhere else.
MapAllocated(a, f) ==
    [a EXCEPT !.st.entry[f].first = IF @ = 0 THEN a.r ELSE @]
MapWalked(w, f, alloc) ==
    IF ~w.ok THEN [st |-> w.st, r |-> 0]
    ELSE IF w.cur # 0 \/ ~alloc THEN [st |-> w.st, r |-> w.cur]
    ELSE MapAllocated(alloc_cluster(w.st), f)
fatfile_map_cluster(st, f, n, alloc) == MapWalked(fatfile_cluster_walk(st, f, n, alloc), f, alloc)

\* fatread_block: panics for a cluster that does not exist, FAT32_USED included.
fatread_block(m) ==
    IF m.r \notin Cluster THEN Stop(m.st, "panic")
    ELSE dirty_cluster(map_cluster(m.st, m.r), m.r)
fatfile_get_block(st, f, n) == fatread_block(fatfile_map_cluster(st, f, n * K, TRUE))

-------------------------------------------------------------------------------
\* Shrinking and removing.

\* One turn of a loop that follows the chain and overwrites it.
Follow(acc) == [acc EXCEPT !.cur = acc.fats[acc.cur]]
Overwrite(acc, x) == [fats |-> [acc.fats EXCEPT ![acc.cur] = x], cur |-> acc.fats[acc.cur]]
Turns(op(_), n, acc) == FoldLeft(LAMBDA x, i : op(x), acc, [i \in 1..n |-> i])

\* fatfile_truncate.  The cluster counts are two too high, so both loops run past
\* the end of the chain, through the request page and entry 0.
fatfile_truncate(st, f, newsize) ==
    LET old == st.entry[f].size * K + 2
        new == IF newsize = 0 THEN 0 ELSE newsize * K + 2
        last == Turns(Follow, new, [fats |-> st.fats, cur |-> st.entry[f].first])
        cut == Overwrite(last, FAT32_USED)
        freed == Turns(LAMBDA acc : Overwrite(acc, FAT32_FREE), old - new + 1, cut)
    IN  [st EXCEPT !.fats = IF new <= old THEN freed.fats ELSE @, !.entry[f].size = newsize]

\* Mutant: the walk stops at the last cluster, which stays in use.
deleteUpdateFat_early(st, f) ==
    LET turn(acc) == IF acc.fats[acc.cur] = FAT32_USED THEN acc ELSE Overwrite(acc, FAT32_FREE)
        done == Turns(turn, NCLUS + K + 1, [fats |-> st.fats, cur |-> st.entry[f].first])
    IN  [st EXCEPT !.fats = done.fats, !.disk.fats = done.fats, !.entry[f].first = 0]

\* deleteUpdateFat: frees the chain up to FAT32_USED, and writes the table.  A walk
\* that has not ended after one turn per entry never does.
deleteUpdateFat(st, f) ==
    LET turn(acc) == IF acc.cur = FAT32_USED THEN acc ELSE Overwrite(acc, FAT32_FREE)
        done == Turns(turn, NCLUS + K + 1, [fats |-> st.fats, cur |-> st.entry[f].first])
    IN  IF done.cur # FAT32_USED THEN Stop(st, "hang")
        ELSE [st EXCEPT !.fats = done.fats, !.disk.fats = done.fats, !.entry[f].first = 0]

\* fat_flush: one sector of the table for each cluster of the chain, chosen as if a
\* sector were a page, until the next cluster does not exist.
FlushSector(st, c) ==
    [st EXCEPT !.disk.fats = [x \in Index |-> IF x \div ESEC = c \div EPAGE THEN st.fats[x] ELSE @[x]]]
FlushChain(st, f) ==
    LET turn(acc) == IF acc.cur > NCLUS THEN acc
                     ELSE [st |-> FlushSector(acc.st, acc.cur), cur |-> acc.st.fats[acc.cur]]
        done == Turns(turn, NCLUS + K + 1, [st |-> st, cur |-> st.entry[f].first])
    IN  IF done.cur <= NCLUS THEN Stop(st, "hang") ELSE done.st

\* Mutant: a file without a cluster is not told apart.
fat_flush_unchecked(st, f) == FlushChain(st, f)

fat_flush(st, f) == IF st.entry[f].first = FAT32_FREE THEN st ELSE FlushChain(st, f)

\* Mutant: only the first cluster of each page is written.
fatfile_flush_page(st, f) ==
    LET clusters == {fatfile_map_cluster(st, f, n * K, FALSE).r : n \in 0..(st.entry[f].size - 1)}
    IN  fat_flush(write_clusters(st, clusters), f)

\* fatfile_flush: the dirty clusters of the file, and its part of the table.
fatfile_flush(st, f) ==
    LET clusters == {fatfile_map_cluster(st, f, n, FALSE).r : n \in 0..(st.entry[f].size * K - 1)}
    IN  fat_flush(write_clusters(st, clusters), f)

\* if (f->dir) fatfile_flush(f->dir): the directory of every file is the root.
flush_dir(st, f) == IF st.entry[f].dir THEN fatfile_flush(st, Root) ELSE st

-------------------------------------------------------------------------------
\* The directory: one page.

\* The first entry with the name, or 0.
scan(st, name) ==
    LET hits == {k \in Entry : st.entry[k].name = name}
    IN  IF hits = {} THEN 0 ELSE Min(hits)

fatdir_lookup(st, k) ==
    IF k = 0 THEN st ELSE dirty_cluster([st EXCEPT !.entry[k].dir = TRUE], RootCluster)

\* fatdir_alloc_file: a full directory asks for the cluster behind its last.
fatdir_alloc_file(st, k, name) ==
    IF k = 0 THEN fatread_block(fatfile_map_cluster(st, Root, K, TRUE)) ELSE [st EXCEPT !.entry[k].name = name]

-------------------------------------------------------------------------------
\* fatfs_init on an empty disk.

NewEntry == [name |-> NoName, first |-> 0, size |-> 0, dir |-> FALSE]

\* reInitFat, after initRootDir has mapped the root's cluster.
reInitFat ==
    LET fats == [x \in Index |-> IF x < 2 THEN FAT32_USED ELSE FAT32_FREE]
        entry == [k \in {Root} \cup Entry |-> NewEntry]
        data == [c \in Cluster |-> 0]
    IN  map_cluster([fats |-> fats, entry |-> entry, data |-> data, mapped |-> {}, dirty |-> {},
                     disk |-> [fats |-> fats, entry |-> entry, data |-> data], end |-> "no", split |-> FALSE],
                    RootCluster)

\* An entry of one page; reInitRootDir makes the root's so, addTestFile its file's.
WithPage(a, k, name) ==
    [a.st EXCEPT !.entry[k] = [NewEntry EXCEPT !.name = name, !.first = a.r, !.size = 1]]
addTestFile(st, name) == WithPage(alloc_cluster(st), 1, name)

\* The sector of the entries is all that is written.
reInitRootDir(name) ==
    LET st == addTestFile(WithPage(alloc_cluster(reInitFat), Root, NoName), name)
    IN  [st EXCEPT !.disk.entry = st.entry]

Init ==
    /\ \E name \in Name : fat = reInitRootDir(name)
    /\ open = {} /\ told = [k \in Entry |-> 0] /\ begun = {} /\ held = {}
    /\ written = [k \in Entry |-> Unwritten]
    /\ ops = 0

\* fatserve_open copies the entry into the Fd page, ftruncate of file.c sets the size there.
Tell(k, size) == told' = [told EXCEPT ![k] = Max({@, size})]
Opened(k) == open' = open \cup {k} /\ Tell(k, fat.entry[k].size)

\* One request, unless the server has ended.
serving == fat.end = "no" /\ ops < MaxRequests /\ ops' = ops + 1

fatfile_open ==
    /\ serving
    /\ \E name \in Name : \E k \in {scan(fat, name)} :
         /\ fat' = fatdir_lookup(fat, k)
         /\ IF k = 0 THEN UNCHANGED <<open, told>> ELSE Opened(k)
    /\ UNCHANGED <<begun, held, written>>

\* fatfile_create: the entry keeps whatever it holds but its name.
fatfile_create ==
    /\ serving
    /\ \E name \in Name : \E k \in {scan(fat, name)} :
         \/ k # 0 /\ fat' = fatdir_lookup(fat, k) /\ UNCHANGED <<open, told>>
         \/ /\ k = 0
            /\ \E new \in {scan(fat, NoName)} :
                 /\ fat' = fatdir_alloc_file(fat, new, name)
                 /\ IF new = 0 THEN UNCHANGED <<open, told>> ELSE Opened(new)
    /\ UNCHANGED <<begun, held, written>>

\* fatserve_map, for a page below the size the client was told, although another opener
\* may have truncated the file since.  The library asks for the pages in order.  The
\* client, and the children it forks, map the page of the cache.
fatserve_map ==
    /\ serving
    /\ \E f \in open : \E n \in 0..(told[f] - 1) :
         \E m \in {fatfile_map_cluster(fat, f, n * K, TRUE)} :
            /\ n = 0 \/ f \in begun
            /\ begun' = begun \cup {f}
            /\ fat' = fatread_block(m)
            /\ held' = IF fat'.end = "no" THEN held \cup {PageOf(m.r)} ELSE held
    /\ UNCHANGED <<open, told, written>>

\* A client stores into a page it has mapped.  Neither a removal nor a truncation takes
\* the mapping away, so the page may be free by now, or another file's.
client_write ==
    /\ serving
    /\ \E p \in held, w \in Word :
         /\ fat' = [fat EXCEPT !.data = [c \in Cluster |-> IF PageOf(c) = p THEN w ELSE @[c]]]
         /\ written' = [f \in Entry |-> IF fat.entry[f].first # 0 /\ PageOf(fat.entry[f].first) = p THEN w
                                        ELSE written[f]]
    /\ UNCHANGED <<open, told, begun, held>>

fatfile_set_size ==
    /\ serving
    /\ \E f \in open, size \in 0..MaxPages :
         LET s == IF fat.entry[f].size > size THEN fatfile_truncate(fat, f, size)
                  ELSE [fat EXCEPT !.entry[f].size = size]
         IN  /\ fat' = flush_dir(s, f)
             /\ Tell(f, size)
             /\ written' = IF size = 0 THEN [written EXCEPT ![f] = Unwritten] ELSE written
    /\ UNCHANGED <<open, begun, held>>

fatfile_dirty ==
    /\ serving
    /\ \E f \in open : \E n \in 0..(fat.entry[f].size * K - 1) :
         \E m \in {fatfile_map_cluster(fat, f, n, FALSE)} : fat' = dirty_cluster(m.st, m.r)
    /\ UNCHANGED <<open, told, begun, held, written>>

fatfile_close(f) ==
    /\ serving
    /\ f \in open
    /\ UNCHANGED <<open, told, begun, held, written>>
    /\ fat' = flush_dir(fatfile_flush(fat, f), f)

\* fatfile_remove: whoever has the file open keeps pointing to the entry.
fatfile_remove ==
    /\ serving
    /\ \E name \in Name : \E k \in {scan(fat, name)} :
         \/ k = 0 /\ UNCHANGED <<fat, written>>
         \/ /\ k # 0
            /\ \E s \in {[fatfile_truncate(fatdir_lookup(fat, k), k, 0) EXCEPT !.entry[k].name = NoName]} :
                 fat' = flush_dir(deleteUpdateFat(s, k), k)
            /\ written' = [written EXCEPT ![k] = Unwritten]
    /\ UNCHANGED <<open, told, begun, held>>

fatfs_sync ==
    /\ serving
    /\ fat' = write_clusters(fat, Cluster)
    /\ UNCHANGED <<open, told, begun, held, written>>

Next ==
    \/ fatfile_open \/ fatfile_create \/ fatserve_map \/ client_write \/ fatfile_set_size
    \/ fatfile_dirty \/ (\E f \in Entry : fatfile_close(f)) \/ fatfile_remove \/ fatfs_sync

Spec == Init /\ [][Next]_vars

-------------------------------------------------------------------------------
\* The clusters of a file, in the table, and where the walk through them ends.
Chain(f) ==
    Turns(LAMBDA acc : IF acc.cur \notin Cluster THEN acc
                       ELSE [clusters |-> acc.clusters \cup {acc.cur}, cur |-> fat.fats[acc.cur]],
          NCLUS, [clusters |-> {}, cur |-> fat.entry[f].first])
Pages(chain) == {PageOf(c) : c \in chain.clusters}

\* Every chain ends, the clusters in use are those of the chains, and no two files have
\* clusters in one page.
ClustersAccounted(chain, Owners) ==
    /\ {c \in Cluster : fat.fats[c] # FAT32_FREE} = UNION {chain[f].clusters : f \in Owners}
    /\ \A f \in Owners : chain[f].cur = FAT32_USED
    /\ \A f, g \in Owners : Pages(chain[f]) \cap Pages(chain[g]) # {} => f = g

\* However far the walks of truncate and remove run past the end of a chain, they leave no
\* trace in the request page and never touch the directory's chain, no file's chain meets
\* it, and no client has its page.
\* Files do no harm to each other either, alloc_cluster_num, which tests one cluster of K,
\* takes none that is in use, and the first page of a file holds the last store made to it,
\* whatever map_cluster reads besides the cluster asked for: up to the step in which
\* alloc_cluster finds its cluster inside a page (split), as it can once a file truncated
\* to nothing has kept the first cluster of its page.  From there on files share pages
\* and clusters.
FatFilesIntact ==
    fat.end = "no" => \E chain \in {[f \in {Root} \cup Entry |-> Chain(f)]} :
        /\ fat.fats[FAT32_USED] = FAT32_FREE
        /\ PageOf(RootCluster) \notin held
        /\ chain[Root].cur = FAT32_USED /\ Pages(chain[Root]) = {PageOf(RootCluster)}
        /\ \A f \in Entry : Pages(chain[f]) \cap Pages(chain[Root]) = {}
        /\ ~fat.split =>
              /\ ClustersAccounted(chain, {f \in {Root} \cup Entry : fat.entry[f].first # 0})
              /\ \A f \in Entry : written[f] # Unwritten =>
                   /\ fat.entry[f].first # 0
                   /\ \A c \in Clusters(PageOf(fat.entry[f].first)) : fat.data[c] = written[f]

\* What a step of fatfile_close leaves on the disk, unless pages are split: the clusters
\* of the file, which after a truncation to nothing are not all of its page.
CloseWritesBack ==
    \A f \in Entry : ~fat.split /\ fat.entry[f].dir /\ fat'.end = "no" /\ fatfile_close(f) =>
        /\ fat'.disk.entry[f] = fat'.entry[f]
        /\ fat.entry[f].size > 0 /\ cluster_is_dirty(fat, fat.entry[f].first) =>
             \A c \in Chain(f).clusters \cap Clusters(PageOf(fat.entry[f].first)) :
                 /\ fat'.disk.data[c] = fat'.data[c]
                 /\ c \div ESEC = c \div EPAGE => fat'.disk.fats[c] = fat'.fats[c]

\* A step in which the server begins to loop is the removal of a file that has no
\* cluster, or comes after alloc_cluster has split a page: then a chain may run into one
\* that another file has given back, and fat_flush of a close follows it for ever.
HangRemoves ==
    fat'.end = "hang" /\ fat.end = "no" /\ ~fat.split =>
        \E k \in Entry : fat.entry[k].name # NoName /\ fat.entry[k].first = 0 /\ fat'.entry[k].name = NoName
===============================================================================
