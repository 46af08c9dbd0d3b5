--------------------------------- MODULE Spawn ---------------------------------
(***************************************************************************)
(* spawn of the user library and the loading of ELF segments:              *)
(* user/lib/spawn.c, lib/elfloader.c, and load_icode of kern/env.c.        *)
(*                                                                         *)
(* spawn builds a child from outside, one system call after the other, and *)
(* passes every page through its own page UTEMP.  Any of these calls may   *)
(* find no free page: other processes take and return pages all the time.  *)
(* A failure has to undo what has been done so far.                        *)
(*                                                                         *)
(* Memory is bytes: a page has BY2PG of them, the byte at offset o of the  *)
(* program file is o + 1 and 0 is what page_alloc leaves.  Image pages come *)
(* first, then the stack page; library pages are shared and only counted   *)
(* as mapped.  What TAILQ_REMOVE does with the child that env_destroy      *)
(* frees is the subject of EnvSched: here the kernel survives it or not.   *)
(***************************************************************************)
EXTENDS Integers, Sequences, FiniteSets

CONSTANTS
    BY2PG,          \* bytes of a page
    NIMAGE,         \* pages the image may occupy
    SpawnPages,     \* physical pages
    SpawnLibrary,   \* pages of the caller with PTE_LIBRARY, numbers above NIMAGE + 1,
                    \* besides those of the program file
    Programs,       \* program files: sequences of headers [load, va, offset, filesz, memsz]
    None            \* no page, and no data

ImagePage == 0..(NIMAGE - 1)
StackPage == NIMAGE
FilePage == NIMAGE + 1      \* the Fd page of the program file, a library page too
Byte == 0..(BY2PG - 1)

\* The pages a segment reaches into.  user.lds gives every segment pages of its own.
PagesOf(ph) == (ph.va \div BY2PG)..((ph.va + ph.memsz - 1) \div BY2PG)

Headers ==
    {ph \in [load : BOOLEAN, va : Nat, offset : Nat, filesz : Nat, memsz : Nat] :
        ph.filesz <= ph.memsz /\ ph.va + ph.memsz <= NIMAGE * BY2PG}
WellFormed(headers) ==
    /\ headers \in Seq(Headers)
    /\ \A j, k \in DOMAIN headers :
          j # k /\ headers[j].load /\ headers[k].load => PagesOf(headers[j]) \cap PagesOf(headers[k]) = {}

ASSUME SpawnAssumption ==
    /\ BY2PG \in Nat \ {0} /\ NIMAGE \in Nat /\ SpawnPages \in Nat
    /\ SpawnLibrary \subseteq {n \in Nat : n > NIMAGE + 1}
    /\ None \notin Nat /\ None \notin [Byte -> Nat]
    /\ \A headers \in Programs : WellFormed(headers)

VARIABLES
    sp,         \* where the caller is: pc, header, calls of map_page left, pages left to share
    prog,       \* the headers of the program file
    fd,         \* the caller has the program file open
    utemp,      \* the caller has a page of its own at UTEMP
    utable,     \* the caller has the page table of UTEMP
    child,      \* env_status of the slot exofork took, or "NONE"
    mem,        \* contents of the image and the stack page of the child, None if not mapped
    inherited,  \* library pages mapped in the child
    tables,     \* page tables of the child
    free,       \* length of page_free_list
    taken,      \* pages of other processes
    leaked,     \* pages that are neither free nor mapped
    panicked    \* the kernel has panicked

spawn_vars == <<sp, prog, fd, utemp, utable, child, mem, inherited, tables, free, taken, leaked, panicked>>
child_vars == <<child, mem, inherited, tables>>
pool == <<free, taken, leaked>>

Idle == [pc |-> "open", ph |-> 1, calls |-> <<>>, share |-> {}, r |-> "none"]

Table(n) == IF n \in ImagePage THEN "text" ELSE IF n = StackPage THEN "stack" ELSE "library"
Zeroed == [b \in Byte |-> 0]
MinOf(a, b) == IF a < b THEN a ELSE b
DivUp(a, b) == IF a <= 0 THEN 0 ELSE (a + b - 1) \div b

-------------------------------------------------------------------------------
(***************************************************************************)
(* elf_load_seg: the calls of map_page it makes for a header, in order.    *)
(***************************************************************************)
Call(va, at, src, len) == [page |-> va \div BY2PG, at |-> at, src |-> src, len |-> len]

\* Mutant: the loop over the file starts at 0 although the first page is done.
elf_load_seg_restart(ph) ==
    LET off == ph.va % BY2PG
        part == MinOf(ph.filesz, BY2PG - off)
        n1 == DivUp(ph.filesz, BY2PG)
        n2 == DivUp(ph.memsz - n1 * BY2PG, BY2PG)
    IN  (IF off = 0 THEN <<>> ELSE <<Call(ph.va, off, ph.offset, part)>>)
        \o [k \in 1..n1 |-> LET i == (k - 1) * BY2PG
                            IN Call(ph.va + i, 0, ph.offset + i, MinOf(ph.filesz - i, BY2PG))]
        \o [k \in 1..n2 |-> Call(ph.va + (n1 + k - 1) * BY2PG, 0, None, 0)]

elf_load_seg(ph) ==
    LET off == ph.va % BY2PG
        part == MinOf(ph.filesz, BY2PG - off)
        i1 == IF off = 0 THEN 0 ELSE part
        n1 == DivUp(ph.filesz - i1, BY2PG)
        i2 == i1 + n1 * BY2PG
        n2 == DivUp(ph.memsz - i2, BY2PG)
    IN  (IF off = 0 THEN <<>> ELSE <<Call(ph.va, off, ph.offset, part)>>)
        \o [k \in 1..n1 |-> LET i == i1 + (k - 1) * BY2PG
                            IN Call(ph.va + i, 0, ph.offset + i, MinOf(ph.filesz - i, BY2PG))]
        \o [k \in 1..n2 |-> LET i == i2 + (k - 1) * BY2PG IN Call(ph.va + i, 0, None, 0)]

\* The page a call of map_page makes: zeros and, if there are data, their copy.
PageOf(c) ==
    [b \in Byte |-> IF c.src # None /\ c.at <= b /\ b < c.at + c.len
                    THEN c.src + (b - c.at) + 1 ELSE 0]

-------------------------------------------------------------------------------
SpawnInitWith(headers, pc) ==
    /\ sp = [Idle EXCEPT !.pc = pc]
    /\ prog = headers
    /\ fd = FALSE /\ utemp = FALSE /\ utable = FALSE
    /\ child = "NONE" /\ inherited = {} /\ tables = {}
    /\ mem = [n \in ImagePage \cup {StackPage} |-> None]
    /\ free = SpawnPages /\ taken = 0 /\ leaked = 0 /\ panicked = FALSE

\* A process calls spawn, or the kernel calls env_create at boot.
SpawnInit == \E headers \in Programs, pc \in {"open", "boot"} : SpawnInitWith(headers, pc)

At(pc) == ~panicked /\ sp.pc = pc
Goto(pc) == sp' = [sp EXCEPT !.pc = pc]
Returns(r) == sp' = [sp EXCEPT !.pc = "returned", !.r = r, !.calls = <<>>]

\* err1 comes without a value for r, which nobody has initialised.
GiveUp == sp' = [sp EXCEPT !.pc = "err1", !.r = "uninitialised", !.calls = <<>>]

\* Other processes get and return pages, at boot those the kernel has made before.
Preempted == ~panicked /\ sp.pc # "load_icode"

take == Preempted /\ free > 0 /\ free' = free - 1 /\ taken' = taken + 1
        /\ UNCHANGED <<sp, prog, fd, utemp, utable, child_vars, leaked, panicked>>

give == Preempted /\ taken > 0 /\ free' = free + 1 /\ taken' = taken - 1
        /\ UNCHANGED <<sp, prog, fd, utemp, utable, child_vars, leaked, panicked>>

\* page_insert can make page n of the child: its table is there or a page is left for it.
Insertable(n, left) == Table(n) \in tables \/ left > 0
TableCost(n) == IF Table(n) \in tables THEN 0 ELSE 1

\* sys_mem_alloc into the child.  Without a page for the table the new page is lost;
\* a page already mapped at n is freed.
sys_mem_alloc_fails(n) ==
    /\ free = 0 \/ ~Insertable(n, free - 1)
    /\ free' = 0 /\ leaked' = leaked + free
    /\ UNCHANGED <<taken, child_vars>>

sys_mem_alloc(n, data) ==
    /\ free > 0 /\ Insertable(n, free - 1)
    /\ free' = free - 1 - TableCost(n) + IF mem[n] = None THEN 0 ELSE 1
    /\ tables' = tables \cup {Table(n)}
    /\ mem' = [mem EXCEPT ![n] = data]
    /\ UNCHANGED <<taken, leaked, child, inherited>>

-------------------------------------------------------------------------------
\* Steps 1 and 2: open the file, read the ELF header and test it.
open ==
    /\ At("open")
    /\ \/ fd' = TRUE /\ Goto("header")
       \/ Returns("error") /\ UNCHANGED fd
    /\ UNCHANGED <<prog, utemp, utable, child_vars, pool, panicked>>

read_header ==
    /\ At("header")
    /\ \/ Goto("exofork")
       \/ sp' = [sp EXCEPT !.pc = "err", !.r = "error"]
    /\ UNCHANGED <<prog, fd, utemp, utable, child_vars, pool, panicked>>

\* Step 3: the test child < 0 of an unsigned is never true, so without a slot or a
\* page for the page directory spawn goes on with an identifier of nobody.  Without
\* an ASID env_alloc keeps the page directory as well.
exofork ==
    /\ At("exofork")
    /\ Goto("init_stack")
    /\ \/ free > 0 /\ free' = free - 1 /\ child' = "NOT_RUNNABLE" /\ UNCHANGED leaked
       \/ free > 0 /\ free' = free - 1 /\ leaked' = leaked + 1 /\ UNCHANGED child
       \/ UNCHANGED <<free, leaked, child>>
    /\ UNCHANGED <<prog, fd, utemp, utable, mem, inherited, tables, taken, panicked>>

\* Step 4, init_stack: the arguments do not fit, or no page for UTEMP (or its table,
\* then the page is lost).
init_stack_fails ==
    /\ At("init_stack")
    /\ GiveUp
    /\ \/ UNCHANGED pool
       \/ free = 1 /\ ~utable /\ free' = 0 /\ leaked' = leaked + 1 /\ UNCHANGED taken
    /\ UNCHANGED <<prog, fd, utemp, utable, child_vars, panicked>>

init_stack ==
    /\ At("init_stack")
    /\ free > IF utable THEN 0 ELSE 1
    /\ free' = free - IF utable THEN 1 ELSE 2
    /\ utemp' = TRUE /\ utable' = TRUE
    /\ Goto("map_stack")
    /\ UNCHANGED <<prog, fd, child_vars, taken, leaked, panicked>>

CanMapStack == child = "NOT_RUNNABLE" /\ Insertable(StackPage, free)

\* The page goes to the child and leaves UTEMP.
map_stack ==
    /\ At("map_stack") /\ CanMapStack
    /\ mem' = [mem EXCEPT ![StackPage] = Zeroed]
    /\ tables' = tables \cup {Table(StackPage)}
    /\ free' = free - TableCost(StackPage)
    /\ utemp' = FALSE
    /\ Goto("phdr")
    /\ UNCHANGED <<prog, fd, utable, child, inherited, taken, leaked, panicked>>

\* Mutant: init_stack returns the error and leaves its page at UTEMP.
map_stack_fails_mapped ==
    /\ At("map_stack") /\ ~CanMapStack
    /\ GiveUp
    /\ UNCHANGED <<prog, fd, utemp, utable, child_vars, pool, panicked>>

map_stack_fails ==
    /\ At("map_stack") /\ ~CanMapStack
    /\ utemp' = FALSE /\ free' = free + 1
    /\ GiveUp
    /\ UNCHANGED <<prog, fd, utable, child_vars, taken, leaked, panicked>>

\* The calls of map_page for the next header, none if it is not to be loaded.
NextHeader ==
    LET ph == prog[sp.ph]
    IN  sp' = [sp EXCEPT !.ph = @ + 1, !.calls = IF ph.load THEN elf_load_seg(ph) ELSE <<>>]

\* Step 5: the next header is read from the file, and the segment's data mapped.
read_phdr ==
    /\ At("phdr") /\ sp.calls = <<>> /\ sp.ph <= Len(prog)
    /\ NextHeader \/ GiveUp
    /\ UNCHANGED <<prog, fd, utemp, utable, child_vars, pool, panicked>>

\* spawn_mapper: a page in the child and, if there are data for it, the copy through
\* UTEMP, which cannot fail: init_stack has made its table.
spawn_mapper ==
    LET c == Head(sp.calls) IN
    /\ At("phdr") /\ sp.calls # <<>>
    /\ \/ sys_mem_alloc(c.page, PageOf(c)) /\ sp' = [sp EXCEPT !.calls = Tail(@)]
       \/ sys_mem_alloc_fails(c.page) /\ GiveUp
    /\ UNCHANGED <<prog, fd, utemp, utable, panicked>>

-------------------------------------------------------------------------------
\* The pages of the caller with PTE_LIBRARY; those of an open file are among them.
Sharable(is_open) == SpawnLibrary \cup IF is_open THEN {FilePage} ELSE {}

\* All segments are loaded: close the file and set the trap frame.
close ==
    /\ At("phdr") /\ sp.calls = <<>> /\ sp.ph > Len(prog)
    /\ fd' = FALSE
    /\ sp' = [sp EXCEPT !.pc = "share", !.share = Sharable(fd')]
    /\ UNCHANGED <<prog, utemp, utable, child_vars, pool, panicked>>

\* The loop over the caller's page table, in the order of the addresses.
NextShared == CHOOSE n \in sp.share : \A m \in sp.share : n <= m

share ==
    /\ At("share") /\ sp.share # {}
    /\ \/ /\ Insertable(NextShared, free)
          /\ free' = free - TableCost(NextShared)
          /\ tables' = tables \cup {Table(NextShared)}
          /\ inherited' = inherited \cup {NextShared}
          /\ sp' = [sp EXCEPT !.share = @ \ {NextShared}]
       \/ /\ ~Insertable(NextShared, free)
          /\ sp' = [sp EXCEPT !.pc = "err2", !.r = "error", !.share = {}]
          /\ UNCHANGED <<free, tables, inherited>>
    /\ UNCHANGED <<prog, fd, utemp, utable, child, mem, taken, leaked, panicked>>

set_env_status ==
    /\ At("share") /\ sp.share = {}
    /\ child' = "RUNNABLE"
    /\ Returns("child")
    /\ UNCHANGED <<prog, fd, utemp, utable, mem, inherited, tables, pool, panicked>>

-------------------------------------------------------------------------------
\* env_free: the page directory, the tables and the pages nobody else maps.
Held == {n \in DOMAIN mem : mem[n] # None}
Cost == IF child \notin {"NOT_RUNNABLE", "RUNNABLE"} THEN 0 ELSE 1 + Cardinality(tables) + Cardinality(Held)

\* err1 and err2: destroy the child, if the identifier is one.
destroy_child ==
    /\ At("err1") \/ At("err2")
    /\ IF At("err1") THEN Goto("err") ELSE Returns("error")
    /\ \/ /\ free' = free + Cost
          /\ child' = IF child = "NONE" THEN "NONE" ELSE "FREE"
          /\ mem' = [n \in DOMAIN mem |-> None]
          /\ inherited' = {} /\ tables' = {}
          /\ UNCHANGED panicked
       \/ /\ child # "NONE"
          /\ panicked' = TRUE
          /\ UNCHANGED <<free, child_vars>>
    /\ UNCHANGED <<prog, fd, utemp, utable, taken, leaked>>

err_close ==
    /\ At("err")
    /\ fd' = FALSE
    /\ Returns(sp.r)
    /\ UNCHANGED <<prog, utemp, utable, child_vars, pool, panicked>>

-------------------------------------------------------------------------------
(***************************************************************************)
(* env_create at boot: nothing else runs, and a failing load is a panic.   *)
(* Without a page for the page directory e stays uninitialised and what    *)
(* the kernel does next is undefined: panicked stands for that as well.    *)
(***************************************************************************)
env_create ==
    /\ At("boot")
    /\ IF free = 0
       THEN panicked' = TRUE /\ UNCHANGED <<sp, free, child>>
       ELSE /\ free' = free - 1 /\ child' = "RUNNABLE"
            /\ Goto("load_icode")
            /\ UNCHANGED panicked
    /\ UNCHANGED <<prog, fd, utemp, utable, mem, inherited, tables, taken, leaked>>

load_icode ==
    /\ At("load_icode") /\ sp.calls = <<>> /\ sp.ph <= Len(prog)
    /\ NextHeader
    /\ UNCHANGED <<prog, fd, utemp, utable, child_vars, pool, panicked>>

\* A fresh page, the data, page_insert in the place of what was there.
load_icode_mapper ==
    LET c == Head(sp.calls) IN
    /\ At("load_icode") /\ sp.calls # <<>>
    /\ \/ /\ sys_mem_alloc(c.page, PageOf(c))
          /\ sp' = [sp EXCEPT !.calls = Tail(@)]
          /\ UNCHANGED panicked
       \/ sys_mem_alloc_fails(c.page) /\ panicked' = TRUE /\ UNCHANGED sp
    /\ UNCHANGED <<prog, fd, utemp, utable>>

load_icode_done ==
    /\ At("load_icode") /\ sp.calls = <<>> /\ sp.ph > Len(prog)
    /\ Goto("created")
    /\ UNCHANGED <<prog, fd, utemp, utable, child_vars, pool, panicked>>

-------------------------------------------------------------------------------
SpawnNext ==
    \/ take \/ give
    \/ open \/ read_header \/ exofork
    \/ init_stack \/ init_stack_fails \/ map_stack \/ map_stack_fails
    \/ read_phdr \/ spawn_mapper
    \/ close \/ share \/ set_env_status
    \/ destroy_child \/ err_close
    \/ env_create \/ load_icode \/ load_icode_mapper \/ load_icode_done

SpawnSpec == SpawnInit /\ [][SpawnNext]_spawn_vars

-------------------------------------------------------------------------------
\* Locals, mappings and counters.
SpawnTypeOK ==
    /\ sp.pc \in {"boot", "load_icode", "created", "open", "header", "exofork", "init_stack", "map_stack",
                  "phdr", "share", "err1", "err2", "err", "returned"}
    /\ {fd, utemp, utable, panicked} \subseteq BOOLEAN
    /\ child \in {"NONE", "NOT_RUNNABLE", "RUNNABLE", "FREE"}
    /\ \A n \in DOMAIN mem : mem[n] = None \/ mem[n] \in [Byte -> Nat]
    /\ free \in Nat /\ taken \in Nat /\ leaked \in Nat

\* elf_load_seg can place the segment: it starts on a page boundary, as user.lds has
\* it, or its data reach the end of the first page, or it has no tail of zeros.
Placeable(ph) ==
    \/ ph.va % BY2PG = 0
    \/ ph.filesz >= BY2PG - (ph.va % BY2PG)
    \/ ph.filesz = ph.memsz

\* A process that runs has the segments of its file, byte by byte, zeros up to p_memsz,
\* and, unless the kernel made it, a stack and the caller's library pages, without
\* those of the program file: whatever pages elf_load_seg goes through to get there,
\* and whatever other processes do to the supply of pages meanwhile.
RunsTheProgram ==
    child = "RUNNABLE" /\ sp.pc # "load_icode" =>
        /\ \A k \in DOMAIN prog :
              LET ph == prog[k] IN
              ph.load /\ Placeable(ph) =>
                 \A i \in 0..(ph.memsz - 1) :
                    LET n == (ph.va + i) \div BY2PG
                        b == (ph.va + i) % BY2PG
                    IN  /\ mem[n] # None
                        /\ mem[n][b] = IF i < ph.filesz THEN ph.offset + i + 1 ELSE 0
        /\ sp.pc = "returned" => inherited = SpawnLibrary /\ mem[StackPage] # None

\* Every page is free, mapped by somebody or lost in a sys_mem_alloc whose page_insert
\* failed; and when spawn is back the program file is closed, UTEMP is unmapped, and a
\* child it does not return is gone.
NothingLeftBehind ==
    /\ free + taken + leaked + Cost + (IF utable THEN 1 ELSE 0) + (IF utemp THEN 1 ELSE 0) = SpawnPages
    /\ sp.pc = "returned" =>
          /\ ~fd /\ ~utemp
          /\ IF sp.r = "child" THEN panicked \/ child = "RUNNABLE"
             ELSE panicked \/ child \in {"NONE", "FREE"}
===============================================================================
