# A TLA+ model of MOS

MOS is a small teaching operating system for the MIPS R3000: a kernel with
processes ("environments"), virtual memory and IPC, a user library with
`fork`, `spawn`, file descriptors and pipes, and two user-level file servers,
one for MOS's own file system and one for FAT. This directory holds TLA+ modules
that model the parts of it where order matters, the configurations that check
them with TLC, and proofs checked by TLAPS.

## 1. Inventory

| component | source | state | operations | how it interacts |
|---|---|---|---|---|
| environments and scheduler | `kern/env.c`, `kern/sched.c`, `kern/genex.S` | `envs[]`, `env_free_list`, `env_sched_list`, `curenv`, `count`, `asid_bitmap` | create, alloc, free, destroy, `schedule`, `env_run` | called by every trap; the only place where the CPU changes hands |
| system calls, IPC | `kern/syscall_all.c` | `env_ipc_*`, `env_status` | yield, exofork, set status, destroy, recv, try_send, memory calls, device calls | user library calls them; interrupts are off inside |
| physical memory, page tables, TLB | `kern/pmap.c`, `kern/tlbex.c`, `kern/tlb_asm.S` | `pages[].pp_ref`, `page_free_list`, page directories, TLB | alloc, free, decref, walk, insert, lookup, remove, refill | shared by all environments |
| list macros | `include/queue.h` | links inside the elements | insert, remove, foreach | used on `env_sched_list`, `env_free_list`, `page_free_list` |
| fork and copy on write | `user/lib/fork.c`, `do_tlb_mod` in `kern/tlbex.c` | page permissions of parent and child | `fork`, `duppage`, `cow_entry` | runs in user mode, preempted anywhere; a fault may hit it half way |
| file descriptors, pipes | `user/lib/fd.c`, `user/lib/pipe.c`, `user/lib/pageref.c` | shared `Fd` and `Pipe` pages, their reference counts | open, close, dup, read, write | several processes on the same pages without locks |
| file server | `fs/serv.c`, `user/lib/fsipc.c`, `user/lib/file.c` | `opentab`, one shared `Fd` page per open file | open, map, set size, close, dirty, remove, sync | request and answer by IPC, the `Fd` page tells who still has the file open |
| file system | `fs/fs.c` | block cache (mapped, dirty), bitmap, super block, `struct File` trees | block alloc and free, lookup, create, truncate, flush, remove | single thread of the file server |
| FAT server and file system | `fs/fatserv.c`, `fs/fatfs.c` | FAT, clusters, directory entries | as above | as above, on disk 1 |
| disk driver | `fs/ide.c`, `sys_write_dev`, `sys_read_dev` | registers of one disk device | read, write | both servers drive the same registers |
| spawn and ELF loading | `user/lib/spawn.c`, `kern/env.c`, `lib/elfloader.c` | memory of the child, UTEMP and the open file of the caller | `spawn`, `env_create` | a dozen kinds of system calls, each of which may fail |
| shell and programs | `user/sh.c`, `user/lib/wait.c`, `user/cat.c`, `user/echo.c` | the descriptors and the waiting of a family of processes | parse, redirect, pipe, run, wait | `fork`, `spawn`, pipes and `exit` together; who has which pipe end decides whether a line ends |
| image tool | `tools/fsformat.c` | `disk[]`, `nextbno`, `super` | write a file, write a directory, flush the bitmap | runs on the host; `fs.c` reads what it made |
| console, printing, strings | `kern/console.c`, `lib/print.c`, `lib/string.c` | none that outlives a call | | |

What is hard here. The kernel is not preemptible, so each trap is one step; but
user code, the library and both file servers included, can be stopped between
any two instructions, and most of what a Unix kernel keeps under a lock is done
by the library on shared pages. The kernel's own difficulty is that its lists
are intrusive: the macros do not know whether an element is on the list, so a
sequence of successful system calls can corrupt it. Resources run out in the
middle of operations (pages, ASIDs, slots, descriptors), and the callers often
ignore the error. Nothing survives a crash except the disks, and no code
recovers anything, so crash recovery is not a subject.

What makes each part correct:

* scheduler: the run list holds exactly the runnable environments, the kernel
  never stops while one can run, nobody starves;
* memory: a page's count covers its references, a free page is reachable from
  nowhere, a TLB hit never disagrees with the tables, ASIDs are not shared;
* pipes: bytes in order, once; end-of-file only at the end; nobody waits for ever;
* fork: parent and child see the memory as it was, neither sees the other's writes;
* disk driver: the sector named is the sector moved;
* file server: an identifier names the file it was given for as long as it is open;
* file system: a block belongs to one file, or is free;
* image tool: what it writes is what the file system finds;
* spawn: the child runs the program of the file, or there is no child and no trace;
* shell: the programs are connected as the line says, and every line ends.

## 2. Modules

| module | models | proofs |
|---|---|---|
| `Tailq` | the `TAILQ` macros pointer by pointer, an indirect store through NULL included | `EnvSchedProofs` |
| `EnvSched` | environments, scheduler, blocking IPC | `EnvSchedProofs` |
| `SchedQueue` | what the scheduler promises: one queue, its head runs; `EnvSched` refines it | `EnvSchedProofs` |
| `MCEnvSched` | instances | |
| `PhysMem`, `MCPhysMem` | pages, tables, TLB | `PhysMemProofs` |
| `Ide`, `MCFileSys`, `MCIde` | disk driver | `IdeProofs` |
| `Pipe`, `MCPipe` | pipes with the descriptor calls and the part of fork that touches them | `PipeProofs` |
| `Fork`, `MCFork` | `fork`, `duppage` and the copy-on-write handler of several processes | `ForkProofs` |
| `FsServ`, `MCFsServ` | both file servers and their clients: requests, open-file tables, descriptor pages | `FsServProofs` |
| `FileSys`, `MCFileSys` | blocks, cache, files and directory of `fs/fs.c` | `FileSysProofs` |
| `Fat`, `MCFileSys` | table, clusters, cache, files and directory of `fs/fatfs.c` | |
| `Format`, `MCFileSys` | `tools/fsformat.c` | |
| `Spawn`, `MCFork` | `spawn`, `elf_load_seg` and `env_create` | `ForkProofs` |
| `Shell`, `MCShell` | the shell, `wait`, descriptors, `cat` and `echo` | `ShellProofs` |

`MCFork` and `MCFileSys` put models side by side that share no state: the two ways to
make a process, and the layers of the disks. A behaviour is one of one of them.

The file `PROJECT.json` maps each definition to its lines. Definitions keep the
names of the C functions. A definition whose comment starts with "Mutant" is the
code with a plausible bug; it is used by no specification and exists so that each
property can be shown to notice it.

### EnvSched

One action per system call that changes scheduling state, one for the clock
(`handle_int`), one for `ENV_CREATE`. Calls that fail before their first
assignment change nothing and have no action; `env_alloc` failing for want of an
ASID has already changed the slot's id and is `sys_exofork_no_asid`.
`env_sched_list` is a record of pointers because what is interesting is what
`TAILQ_REMOVE` does to an element that is not on the list. `sched.ok` turns
FALSE when the kernel follows a NULL pointer, panics or fails the assertion of
`env_run`. `SchedSeq` is the list as `TAILQ_FOREACH` meets it, cut off after as many
steps as there are environments, so that it is defined for a corrupted list too.
`RefinesSchedQueue` maps it to the queue of `SchedQueue`, and `curenv` to the process
that has the CPU.

`sys_cgetc` is two actions: it enters its loop (`polling`) with interrupts off, and
returns when the user has typed; nothing else happens in between, as the comment at
`kern/syscall_all.c:428` says ("blocking all envs"). `RunnableRuns` therefore says that
every runnable process runs *if* the kernel is not left in such a wait for ever.

The kernel relies on its callers. `CarefulStart` (the target of
`sys_set_env_status` is another environment and not in `ipc_recv`) and
`CarefulDestroy` (the target of `sys_env_destroy` is runnable) are conditions the
kernel does not check; `Spec` assumes them, and they are what `fork` and `exit`
do. `SpawnFailsSpec` has the error exits of `spawn` instead, which break
`CarefulDestroy`. The destruction of a process blocked in `ipc_recv` is in no
specification, so what `ReceivingIsBlocked` would make of the reuse of its slot, whose
`env_ipc_recving` nobody resets, is not answered. `AnyStatusSpec` lets a process set any status it is
permitted to; it breaks the list too (a process that marks itself
`ENV_NOT_RUNNABLE` and then calls `ipc_recv` is unlinked twice, a receiver made
runnable by its parent is linked twice by the next send).

### PhysMem

A page directory maps itself, so directories and page tables have virtual
addresses and count references like other pages; the model treats
`pte[e, x]` uniformly for user pages, tables and the directory. `env_free` is one
step per page so that the order of its loops is visible to the invariants;
nothing runs in between. The TLB never evicts. `sys_mem_map` and
`sys_ipc_try_send` may name any living environment, which is more than
`envid2env` allows. `pp_ref` has `RefMod` values and wraps; nothing bounds the number of
mappings of a page. At a wrap the count of a page that is mapped `RefMod` times is 0
(`over`) and the model ends: the next unmapping would fail `page_decref`'s assertion, or
after another mapping free a page still in use. `RefExact` says that this is the only way
for a count to be wrong.

### Ide

Each system call of `ide_read` and `ide_write` is a step, and the two servers that
`init/init.c` starts interleave. `overlapped` is history: a server began a turn of its
loop while another was inside one. Until then the driver is right, afterwards a write may
reach the other server's disk (run `ide_two`), and nothing in the code keeps the turns
apart.

### Pipe

Each access to shared memory is a step. `env_runs` is abstracted to what
`_pipe_is_closed` asks of it: has it changed since it was read (`same`). A time
slice lasts at least `Slice` accesses; safety is checked with `Slice = 0`, that
is, preemption anywhere. `fork` is there with its page loop because it changes
the counts in the order of addresses.

`ClosedIsTrue` excepts the time in which a fork is under way. Between its maps of the
`Fd` pages and of the `Pipe` pages the counts differ by as much as the child is still to
get, and with a third process that dups or closes they can agree by accident, so that
`_pipe_is_closed` (`user/lib/pipe.c:112`) says closed of an end that is open. Two
processes, the instance of the run, do not reach it.

### Fork

A system call, an access to `vpt` and a store are one step each, and all
processes interleave. `fk[e]` is where a process is in `fork` with the locals of
`fork` and `duppage`, `cow[e]` the same for `cow_entry`. The stack `fork` runs on
is one of the pages it shares, so it may fault, and enter the handler, between any
two steps of the loop. `want` is what a process wrote last, or had when it was
forked: the memory a process should see. Errors the code does not look at are
modelled as they happen: a failed `syscall_mem_map` leaves the child without
the page (`lost`), a failed `syscall_exofork` is used as an envid. `fork` reads `vpt[i]` before
`vpd[i >> 10]`, so where there is no page table the refill maps an empty one, and panics if
it cannot (`fork_no_table`); pages that become tables are not counted. The contents of
a page are one value; a page no one maps has contents 0, because `page_alloc`
zeroes it before anyone can see it.

### FsServ

Two servers, as `init/init.c` starts them, and their clients. A server is at one
request (`srv[s]`), a client at one call (`cl[c]`). `fd[c][n]` is the descriptor
page a client maps, a pair of server and table entry, so that `pageref` is the
number of clients and descriptors with that pair, and one more for the server.
`open_alloc` looks at one entry per step, because clients change the counts
meanwhile by `dup`, `fork`, `close` and by dying. `o_fileid` wraps at `IdRange` and
its upper half is negative for `serve_open`, as the C code has it. `open_lookup`
keeps the missing parentheses of the macro `MAXOPEN_NUM`: the index is
`fileid % MAXFS * MAXOPEN`. `opened` is history: what each descriptor was opened
for. A message without an argument page or with an unknown code is not answered, and its
sender waits for ever (`stray`, `serve_invalid`: `serv.c:223-226`, `257-259`); a path of
neither server makes the client send to itself for ever (`nowhere`); `open_alloc` may find
no page. `Answered` is about the requests of the library that a server has received.
A client that was destroyed before the answer makes the server's `ipc_send`
fail, and the assertion in it ends the server (`serve_panic`); clients that send
to it later panic too (`send_panic`).

### FileSys

The server handles one request at a time, so a request is one action, and the
functions of `fs.c` are operators from a record `fs` to the next. The record
holds what is in memory (`file`, `page`, `free`, `mapped`, `dirty`) and, separately,
`disk`. Sizes are in half blocks so that a size may lie on a block boundary or
not. Pages are functions from places to words: whatever a page holds can be read
as block numbers. That matters for two reasons. `map_block` does not clear a page that is
still mapped, so an indirect or directory block may begin with old data. And a client keeps
the pages it mapped: neither a removal nor another opener's truncation takes them away, and
`free_block` does not unmap. `held` is the set of blocks whose pages some client may have,
and `client_write` stores into any of them, whoever has the block by now. When old data or a
late store becomes metadata, which an ordinary removal and growth of files reaches, the
model stops (`end = "garbage"`): from there on block numbers are anything, and `read_block`
may panic. The properties speak of what holds until then. `written` is history: the word
last stored into each block of a file, by a late store too; that a late store changes a
file its client has nothing to do with is what the code does.

Every opener of a file has a size in its own `Fd` page and asks for the blocks below
it. `told` is the largest size an opener may have, so `serve_map` may ask for blocks
behind the end when somebody else has truncated the file, as `open` of `file.c` does
when it loses the CPU between the answer and its maps. Such a block is allocated, and
if it hangs in the indirect block the next truncation loses it (`behind`).

`CloseReachesDisk` claims what was marked dirty, of files opened by name. What it leaves
out is never written: an indirect block, the superblock with the size of the root, and
the directory block of a file that was only created (its `f_dir` is not set).

### Format

The arguments and the contents of the directories are chosen as they are met. A block
is a record with an interpretation for each of its types. `next_block` does not look
whether there is a next block: the model ends at the store behind `disk[]` (`overrun`), as it does when the
assertion of `save_block_link` fails (`abort`). The entries of a directory fill a block
of `FILE2BLK`, so that `create_file` takes an unused entry of a block or needs a new one,
and an index block, in between those of its files.

### Spawn

One action per system call or file operation of `spawn`, its failure a disjunct or an
action `..._fails`. A segment is a header with `va`, `offset`, `filesz` and `memsz` in
bytes; `elf_load_seg` is the sequence of calls of `map_page` it makes, and the byte at
offset o of the file is the value o + 1, so that every byte of the child can be told
apart. `free` counts the pages of the machine, other processes take and give them at any
time, page tables cost a page, and `leaked` counts what `sys_mem_alloc` and `env_alloc`
lose. `env_create` and `load_icode` are the same loader at boot, a page at a time and
with nobody in between; the environment is `RUNNABLE` from the start there, and
`RunsTheProgram` speaks of it once `load_icode` is done. `SpawnAssumption` asks of a program
file that its segments share no page, which is how `user.lds` lays them out: a page shared
by two segments would be replaced by the second.

What the model showed besides its properties:

- A segment that starts inside a page and whose file part ends inside the same page,
  with zeros behind, loses its data: the second loop of `elf_load_seg` goes on at
  `va + filesz`, which is the same page, and replaces it. `Placeable` excepts the case;
  the linker scripts start every segment on a page boundary.
- `err1` returns `r`, which nobody has set (`spawn.c:144`), and `child < 0` is a test of
  an unsigned (`spawn.c:135`): without an environment `spawn` goes on with a number that
  is no environment and fails in `init_stack`.
- `spawn.c:57` says "Set args[argc] to 0"; the word becomes a pointer to the last NUL.
- `env_alloc` keeps the page directory when it finds no ASID.

### Shell

A process is a record: where it is, its descriptors, what is left of its line, whom it
waits for. The line is chosen token by token while it is parsed; a token is seen by one
process only, as the left side of a `|` stops there and the right side goes on. `streams`
is what 0 and 1 of the program are to be, following the line from left to right. A pipe
is the number of bytes in it, and one read or write is a step; that this is what
`pipe.c` does is the subject of `Pipe`, including that a reader may see the end early
when there is no writer left. The programs read and write up to `MaxBytes` bytes and
end whenever they like.

A read of the console, by the shell's `readline` or by `cat`, is a wait inside the kernel
(`poll`): no other process runs until the user types (`type_line`, `type_byte`).
`LineEnds` assumes that the user answers, and ends the input after `MaxBytes` characters.

Nobody looks at what `pipe` returns (`sh.c:132`). When it fails, `parsecmd` goes on with
the `p[]` it finds on the stack, and both sides `dup` and `close` those numbers; `Junk` are
the pairs considered, and `unpiped` is history. Such a line ends too, but its programs have
other streams than it says, and `StreamsConnected` excepts them.

The right side of a command without words (`| cat`) is left behind (`abandoned`), and
`a > f | b` makes the file the output of `b` as well, since `b` is forked after the
redirection. With 128 words `runcmd` writes `argv[128]`, one behind its array; the
model has the test of `parsecmd` and not that store. When the fork for the right side fails,
`rightpipe` is negative, `wait` finds no such environment, and the left side writes into
a pipe without a reader until it is full: `LineEnds` covers it.

### Fat

`fat` is one record: `fats` (the table at `DISKMAP`), `entry` (the directory entries of
the root's page, with `first` for `DIR_FstClusHI/LO` and `dir` for the pointer that
`fatdir_lookup` fills in), `data`, `mapped` and `dirty` (the cache: contents by cluster,
the other two by page), `disk`, and `end`, which says that the server has panicked or
loops for ever. A request is one step; the functions of `fatfs.c` are operators from
record to record with the names of the code. `Init` is `readInfo` on an empty disk,
`reInitRootDir` and `addTestFile` included.

A page holds `K` > 1 clusters. With clusters of a page or more, `fatfile_get_block`
divides by `bytsPerSector / BY2PG`, which is 0, so no file can be mapped there. Three
things in the code shape the model:

- The walks do not stop at the end of a chain: `fats[FAT32_USED]` is the last word of
  the request page (`REQVA + BY2PG = DISKMAP`), entry 0 follows, and `truncate` frees
  what it meets. Clients never write that word, and `FatFilesIntact` says that it is 0
  between requests, so one such word stands for those of all clients.
- `map_cluster` reads `bytsPerCluster` *sectors* (`BURST` clusters), over whatever the
  cache holds; boot maps the first `BURST` clusters this way, and a read past the end
  of the disk panics.
- A map of any block but the first walks to `FAT32_USED` and panics, and so do a full
  directory and a full disk. `end = "panic"` records it.

The sizes other openers were told (`told`), the pages clients keep (`held`) and their late
stores are as in `FileSys`. `begun` is there because the library asks for the pages of a
file in order.

`split` is history. Once a file with a cluster is truncated to nothing, its first
cluster stays in the table while the other `K - 1` are free, and an allocation may find one
of these, in the middle of a page, and take the neighbours behind it: from that step on
files share pages and clusters, and a chain may run into one that was given back, so that
the `fat_flush` of a close never ends. The actions go on from there; `FatFilesIntact`
(except that nothing ever touches the directory), `CloseWritesBack` and `HangRemoves` speak
of the time before, truncations to nothing included.

## 3. Runs

| run | bounds | what it shows |
|---|---|---|
| `sched` | 4 slots, 3 ASIDs, 2 boot processes, priorities 1 and 2, 4 creations | all invariants of `EnvSched`, refinement of `SchedQueue`, and `RunnableRuns` under fairness of the clock, with waits for the console. Three processes alive are enough for removal at the head, in the middle and at the end; four creations with destruction in between reuse slots and ASIDs; the third ASID can be exhausted |
| `sched_spawn_fails` | 3 slots | violation: `spawn`'s error exit corrupts the run list |
| `mem` | 3 environments, 2 ASIDs, 5 pages, two user pages in one table, counts modulo 4 | counts exact, free list sound, TLB coherent, no assertion fails, with memory and ASIDs running out, up to the wrap of a count; three places hold a page without a wrap, and a fourth wraps it |
| `ide_two` | 2 servers | violation: a write reaches the other server's disk |
| `pipe` | 2 processes, 2 descriptors, buffer of 2, positions modulo 4, 4 bytes, preemption anywhere | bytes in order, nothing overwritten, closed means closed |
| `pipe_live` | the same, time slices of 8 accesses | waiting readers and writers return |
| `pipe_eof` | 2 bytes | violation: end of file with a byte unread |
| `fork` | 3 processes, 3 virtual pages (UCOW, a shared one, the stack), 4 physical pages, 2 forks | isolation of parent and children, every process sees its own memory, children are complete. Two forks give siblings, a grandchild, two forks at once and the reuse of a slot after an exit; 4 pages are enough for all three processes to have copies and too few once two of them are in the handler, so each allocation also fails, and so does the refill of `fork_no_table`. For `Spawn`, 9 pages of 3 bytes, images of 3 pages, every segment that starts in the first two of them and ends in the image, two segments with a header between them that is not loaded: the child runs the program, an attempt that fails leaves nothing behind. A segment can begin inside a page, fill it, cross it and end inside another, and 9 pages are enough for the whole child and so few that each of its pages may be the last |
| `serv` | 2 clients, 2 servers with 2 entries each, 3 descriptors, 3 paths, 3 calls or deaths, identifiers modulo 16 | a descriptor keeps its file, requests reach the server and the file they are for, and every request of the library that was received is answered, with strays and paths of neither server in between. Two entries and two clients make a table full, shared descriptors, and reuse of an entry; the second open of an entry makes its identifier negative (that wraps do no harm is proved, not run) |
| `serv_two` | 1 client | violation: the second open file cannot be used |
| `fs` | 5 data blocks, 2 direct pointers of 4, 2 names, directory of up to 2 blocks, files of up to 2 1/2 blocks, 7 requests or stores; on FAT 5 pages of 2 clusters, 3 entries, files of up to 2 pages, 8 requests or stores | until old or late words become metadata: blocks neither shared nor lost, stores kept; and bitmap on disk safe, close writes. Three blocks are free at the start, and a file of three blocks needs an indirect block too, so each allocation of a request can be the one that fails; seven steps reach a removed file that is still open and whose entry and blocks are used again, and a store into its page afterwards. On FAT, until a page is split: clusters neither shared nor lost, close writes, only the removal of a file without a cluster hangs; four pages can be used, so the table runs full, and eight steps reach a split and a late store. A behaviour is one of either file system, as they share nothing. For `Ide`, two servers, 2 disks of 2 sectors, transfers of 1 or 2 sectors: until their turns overlap, reads and writes touch exactly the sectors named, panic exactly past the end. For `Format`, 16 blocks, 5 names in any nesting, 2 entries to a block, files of up to 5 blocks, so that entries share a block, index blocks of files and directories, a file that is too large and a disk that is full all happen: the finished image is what `fs.c` expects. 710,277 states, the largest run |
| `shell` | 6 environments, 2 pipes, 4 descriptors, lines of up to 5 tokens, commands of 1 word, pipes of 1 byte, 2 bytes per program; `pipe` fails in the last two tokens of a line without a pipe in use, leaving in `p[]` a closed number twice, 0 twice or 1 twice | programs connected as the line says, nothing left at the prompt, and every line ends if the user answers. Five tokens are `a \| b \| c`, redirections on either side of a pipe, and every syntax error; that line needs seven processes, so the forks and the spawns run out of environments too. One line is enough: the shell at its prompt is in its first state again, unless a right side was left behind. 539,424 states |

Deadlock checking is off where the modelled system can really stop: after a
kernel panic (`EnvSched`, `PhysMem`, `Fork`), a panic of the driver or a server
(`Ide`, `FsServ`, `FileSys`, `Fat`), when the tool has finished (`Format`), when `spawn` is
back (`Spawn`), when all processes have exited or the user types no more (`Shell`), or
when the bound on calls is reached.

Fairness. `FairSpec` of `EnvSched` asks for strong fairness of `handle_int` and nothing
else: the RTC interrupts for ever, user mode always runs with it enabled, and an interrupt
that comes while the kernel polls the console stays pending and is taken as soon as
`sys_cgetc` returns, so a process cannot keep it out by calling again and again. Nothing is
assumed of the processes or of the user: `RunnableRuns` has the hypothesis that the kernel
is outside `sys_cgetc` again and again. The other three liveness properties rest on it, and
hold in the same sense, as long as no process of the machine waits for the console for ever.
`FairSpec` of `Pipe` asks that the clock ticks and
that a dispatched process goes on with the library call it is in, and that a
slice is long enough for one pass through `_pipe_is_closed` (8 accesses; the
real slice is thousands of instructions). A process need never make another call.
`FairSpec` of `FsServ` asks that a server, and a client inside a library call, go
on; a client need never make another call and may die at any time. `FairSpec` of `Shell`
asks that every process that can go on does whenever nobody polls the console; the user
need not type anything, and `LineEnds` has the hypothesis that polling ends.

## 4. Proofs

Eight modules hold the proofs. Every theorem is about `Spec` (`IdeSpec`, `SpawnSpec`, and
`MCSpec` for `TypesCorrect`), without fairness, and holds for all values of the constants
that satisfy the assumption named in the component's module. The assumptions are layout
facts of the headers: sizes are numbers, `MAXOPEN` is a multiple of `MAXFS`, the range of a position of a pipe is a
multiple of the buffer, `pp_ref` has at least two values and the tables finitely many
entries (`RefAssumption`; how often a page is mapped is not bounded), a process has at least four descriptors, a disk has data blocks, a
file more blocks than direct pointers and the directory direct blocks only (`FsAssumption`), and the segments of a program have
pages of their own (`SpawnAssumption`).

| module | theorem | property |
|---|---|---|
| `EnvSchedProofs` | `RemoveLinks`, `InsertTailLinks` and the lemmas on sequences | the macros of `Tailq`, for any set of elements |
| | `TypeCorrect`, `SchedListLinked`, `NoEarlyPanic`, `ReceiversBlocked`, `RunningIsHead` | `TypeOK`, `LinkInv`, `PanicOnlyWhenIdle`, `ReceivingIsBlocked`, `CurenvAtHead` |
| | `SlotsAreAccounted` | `SlotsAccounted` |
| | `ListIsRunnable` | `SchedListIffRunnable` |
| | `SchedulerIsAQueue` | `RefinesSchedQueue` |
| `PhysMemProofs` | `TypeCorrect`, `RefsAreExact`, `FreePagesUnreachable`, `TlbAgrees` | `TypeOK`, `RefExact`, `FreeListSound`, `TlbCoherent` |
| `IdeProofs` | `DriverTransfers`, `DriverWritesOnlyTheSector` | `TransfersTheSectors`, `SerialWritesOnlyTheSector`, for any number of servers until two turns overlap |
| `PipeProofs` | `TypeCorrect`, `ClosedAnswersAreTrue` | `TypeOK`, `ClosedIsTrue` |
| | `BytesArriveInOrder` | `BytesInOrder`, for one reader and one writer |
| `ForkProofs` | `TypeCorrect`, `CowIsolates`, `MemoryIsPrivate`, `FaultsAreHandled`, `ChildrenAreComplete` | `TypeOK`, `CowIsolation`, `PrivateMemory`, `FaultsHandled`, `ChildIsComplete` |
| | `SpawnLoads`, `SpawnCleansUp`, `SpawnTypeCorrect` | `RunsTheProgram`, `NothingLeftBehind`, `SpawnTypeOK` |
| | `TypesCorrect` | `TypesOK` |
| `FileSysProofs` | `TypeCorrect`, `BlocksHaveOneOwner`, `FilesKeepTheirContents`, `BitmapIsSafe` | `TypeOK`, `BlocksAccounted`, `ContentsKept`, `BitmapOnDisk` |
| | `ClosingWritesBack` | `CloseWritesBack`, the part of `CloseReachesDisk` that is about `FileSys` |
| `FsServProofs` | `TypeCorrect`, `DescriptorsKeepFiles`, `RequestsReachTheFile` | `TypeOK`, `DescriptorKeepsFile`, `RightFile` |
| `ShellProofs` | `ProgramsConnected`, `PromptsWhenDone` | `StreamsConnected`, `PromptWhenDone` |

Each component has one inductive invariant, `IInv` (`SpInv` for `Spawn`), with one lemma per
action; what it has to add is the interesting part.

**Scheduler.** None of the properties is inductive alone: `LinkInv`
needs `ReceivingIsBlocked` (a send inserts the receiver, which must be off the
list), which needs the free list (a slot just allocated must not be runnable or
receiving while its kernel is running), which needs that a dead slot stays off
the run list; `CurenvAtHead` needs acyclicity, because `Linked` alone admits a
second, detached ring. `SlotInv` adds to it that living slots have distinct ASIDs, all
marked, and that the free list has each free slot once; the two cardinalities of
`SlotsAccounted` follow from the injections.

**Refinement.** `LinkInv` says how neighbours are linked and not what a traversal
returns. `SeqInv` says that there is a sequence `s` of environments with
`Queued(s)`: the links of `env_sched_list` are those of `s`, and its members are the
runnable environments. The lemmas on `Tailq` show for each macro which sequence it makes of
`s` (`AppendList`, `PrependList`, `RemoveList`, `RotateList`), and that the traversal
`TAILQ_SEQ` of such a list returns `s` (`SeqLists`): no environment occurs twice, so
`s` is no longer than their number, and the first place where the traversal and `s`
disagree would have a predecessor where they agree. Each action of `EnvSched` is then
one step of `SchedQueue` or none (`NextImplements`): `ENV_CREATE` is `Boot`, waking is
`Join`, blocking and dying are `Leave`, and `schedule` is `Start`, `Rotate` or nothing.

**Memory.** Counts can be exact only with the tables: `TablesMapped` (an entry lies in a
mapped table of a living environment), `DirPrivate` (nothing else maps a page directory)
and, for the TLB, that living environments have different ASIDs. A page whose only entry
was lost keeps the count 1 (the directory of an `env_alloc` that finds no ASID); `CountExact`
has that case, as `RefExact` does. Both say what a count is in the one state after a wrap, so
nothing is assumed about the number of mappings. The assertions of `pmap.c` are part of it (`m.ok`).

**Driver.** Until two turns overlap at most one server is inside one, and the registers
hold what its calls made so far have put there (`Good`). A turn begins with `write_id`, which
notes an overlap; so the server that makes any later call is alone, and the others are
between turns, where their buffers and disks agree. The hypothesis of the theorems is that
servers have different disks, as `init/init.c` starts them.

**Pipes.** For `ClosedIsTrue` the order of mapping matters: a running process never has
an `Fd` page without its `Pipe` page (`SlotInv`), so equal counts mean that the other end
is gone, and the two counts are of one moment if `env_runs` did not change (`CountInv`).
`BytesInOrder` is about `ByteInv`: the bytes between the positions are those sent and not
yet received, also in the state between the copy of a byte and the step of the position.
It needs `OneOfEach`, as nothing locks the positions.

**Fork.** Two places with the same page are one of: UCOW and the address it is being
moved to, a `PTE_LIBRARY` page, a page copy on write on both sides, or the page `duppage`
has given to the child and not yet taken from the parent (`AliasInv`). The last one is
harmless because the child does not run (`ChildInv`) and the parent cannot write the
stack under `duppage` without a fault (`ForkOK`).

**Spawn.** First, what `elf_load_seg` does for any header: its calls are those of its three
loops in order (`Calls`), all for pages of the segment; for a segment it can place no page
occurs twice (`Aligned`, `CallPages`), and every byte of the segment is in the page of one of
the calls, with the byte of the file or zero (`SegmentBytes`). That is arithmetic with `\div` and `%` and a
variable divisor, done once in `PageDiv` and `PageDivUnique`. `SpInv` then says that the calls
still to be made are the last ones of the header before `ph` (`Queued`), and that every call
made, for this header or an earlier one, has its page as it left it (`LoadedPages`): a later
call goes to another page of the same segment, or to a segment with pages of its own. So when all headers
are done (`Complete`) the image is complete. `Equipped` is the same for the stack and the
library pages. `NothingLeftBehind` needs the count of all pages (`PagesCounted`), where a
page table that a call makes, a page it replaces and a page it loses are the three cases, and
what the caller and the child have at each point (`Progress`): `UTEMP` is mapped in
`map_stack` only, and an error exit never has a child that may run.

**File system.** The requests are compositions of the functions of `fs.c`, so the invariant
`Inv` is one of the record and is shown for each function, with what it may leave open to its
caller, rather than for each action. It is `Linked` (no block has two places that point to
it, and none of them is free; an indirect block is in memory), `DirOK` (an entry that
knows its directory lies in one of its dirty blocks), `Contents` (a block holds the last store
made to it) and `Owned` (every block in use has a place and lies below the end
of its file), the last one until a block behind the end was asked for (`behind`). `Contents`
needs `Linked`, because a store into a page changes one block of one file at most then, through
whosever mapping it is made; the
bitmap needs that a block is marked on disk before it gets a place. The loop of
`file_truncate` is one function from old to new pointers, as its turns do not depend on each
other. Those of the search through the directory do, since each may read a block: `Scan` takes
the first turn after which the invariant did not hold, which has a turn before it after which
it did (a set of numbers has a least one, `Least`).

**File servers.** An identifier tells entry and server modulo `MAXOPEN_NUM` however
often it was advanced and wrapped (`IdInv`). A descriptor keeps its file because nobody
maps the page that an open is about to be given (`SrvOK`), although clients change the
counts between any two steps of `open_alloc`, and because a client that waits keeps its
descriptor (`CallInv`).

**Shell.** `StreamsConnected` holds process by process, until `pipe` fails in it or in an
ancestor, once the ends of a pipe are known
to be descriptors 2 and 3, which needs that 0 and 1 are never closed (`ShapeOK`).
`PromptWhenDone` is about all of them: every process but the shell has one that waits for
it. That alone admits processes that wait for each other, so `Attended` ranks them by
age; a new one gets a rank above its parent's, and the one of least rank that were left at
the prompt would have nobody.

Only model-checked: liveness (`RunnableRuns`, `CallsReturn`, `Answered`, `LineEnds`),
which is out of the prover's reach; and `Fat` and `Format` (`FatFilesIntact`,
`ImageIsAFileSystem`, and the part of `CloseReachesDisk` that is about FAT). Their structures
are a chain of clusters of any length, followed through the table, and a tree of directories
built by recursion: what an operation leaves behind is a statement about all the clusters or entries it has
passed, over a recursive definition.

## 5. Not modelled

Of `fs/fatfs.c`, subdirectories, a boot from a disk in use (where `map_cluster` may read
over a dirty page of a cluster behind the one it maps), and functions nothing calls
are left out. Of `fs/fs.c`, paths of more than one
name, directories so large that they have an indirect block, a server without memory for
another page of its cache (`fs.c:246`) and `unmap_block`, which nothing calls, are left
out, and so is what happens after old words have become metadata. Of `fork` and `dup`, the pages that become page tables are not counted. Of `spawn`, the strings and words of the
argument page are left out; of the shell, the characters of a line and
scripts read from a file.

Console, printing, string functions, panic messages, `ls`, `num`, `init`, the tools
`bintoc` and `readelf`, and the tests: straight-line code or pure I/O
with no state other components depend on. Boot-time memory allocation (`alloc`,
`map_segment`) runs once before anything else. The counters of `mkenvid` and
`env_runs` are not run to their overflow.

## 6. Plan

Done: all components of the inventory but the last are modelled, and the proofs of
section 4. Left, in this order:

1. `Fat` from a disk in use, and with subdirectories.
2. `FileSys` beyond the step in which old words become metadata, and with directories that
   have an indirect block.
