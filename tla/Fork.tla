--------------------------------- MODULE Fork ---------------------------------
(***************************************************************************)
(* fork and copy on write of the user library: user/lib/fork.c with        *)
(* do_tlb_mod of kern/tlbex.c.                                             *)
(*                                                                         *)
(* The kernel knows nothing of copy on write: a store to a page without    *)
(* PTE_D enters the handler the process has registered, and fork is a loop *)
(* of system calls.  A process may be preempted between any two of them,   *)
(* and while it is in fork it goes on storing to its own stack, a page the *)
(* loop is about to share.  Here a system call, an access to vpt and a     *)
(* store are one step each, and the steps of all processes interleave.     *)
(*                                                                         *)
(* A virtual page is a number, in the order of the loop of fork; UCOW is   *)
(* the page of that name.  The contents of a page are one value.           *)
(***************************************************************************)
EXTENDS Integers, FiniteSets

CONSTANTS
    Env,        \* slots for processes
    First,      \* the process that runs at the start
    NVA,        \* virtual pages below USTACKTOP
    UCOW,       \* the page cow_entry copies to
    Stack,      \* the page of the stack fork runs on
    Library,    \* pages mapped with PTE_LIBRARY
    NPAGE,      \* physical pages
    MaxForks,   \* bound on the calls of fork
    Val,        \* contents of a page
    Null

Page == 0..(NPAGE - 1)
Va == 0..(NVA - 1)
Private == Va \ (Library \cup {UCOW})

ASSUME ForkAssumption ==
    /\ First \in Env /\ NVA \in Nat /\ NPAGE \in Nat /\ NVA <= NPAGE /\ MaxForks \in Nat
    /\ {UCOW, Stack} \cup Library \subseteq Va
    /\ UCOW # Stack /\ UCOW \notin Library /\ Stack \notin Library
    /\ 0 \in Val /\ Null \notin Val
    /\ Null \notin Page /\ Null \notin Env

VARIABLES
    pte,       \* pte[e][v]: what e maps at v
    content,   \* contents of the physical pages
    status,    \* "FREE", "NOT_RUNNABLE" or "RUNNABLE"
    entry,     \* processes whose env_user_tlb_mod_entry is cow_entry
    fk,        \* where a process is in fork, and the locals of fork and duppage
    cow,       \* where it is in cow_entry, its locals and the faulting store
    halted,    \* the kernel has panicked
    want,      \* what a process wrote or inherited last, Null if nothing yet
    lost,      \* history: a syscall_mem_map of duppage into a child has failed
    forks      \* calls of fork so far

vars == <<pte, content, status, entry, fk, cow, halted, want, lost, forks>>

Perm == [cow : BOOLEAN, d : BOOLEAN, lib : BOOLEAN]
Pte == [page : Page \cup {Null}, perm : Perm]

Writable == [cow |-> FALSE, d |-> TRUE, lib |-> FALSE]
Shared == [cow |-> FALSE, d |-> TRUE, lib |-> TRUE]
Unmapped == [page |-> Null, perm |-> Writable]

ForkOf(c) == [pc |-> "loop", i |-> 0, child |-> c, perm |-> Writable, remap |-> FALSE]
NoFork == [pc |-> "idle", i |-> 0, child |-> Null, perm |-> Writable, remap |-> FALSE]
NoFault == [pc |-> "idle", va |-> 0, val |-> 0, perm |-> Writable]

Mapped(e, v) == pte[e][v].page # Null
FreePages == Page \ {pte[e][v].page : e \in Env, v \in Va}

\* page_alloc; which page it is does not matter.
Fresh == CHOOSE p \in FreePages : TRUE

\* The process executes: in the program or in fork, but not in the handler.
Runs(e) == ~halted /\ status[e] = "RUNNABLE" /\ cow[e].pc = "idle"

-------------------------------------------------------------------------------
\* One process, all pages mapped but UCOW, no handler yet.
Init ==
    /\ pte = [e \in Env |-> [v \in Va |->
                 IF e # First \/ v = UCOW THEN Unmapped
                 ELSE [page |-> v, perm |-> IF v \in Library THEN Shared ELSE Writable]]]
    /\ content = [p \in Page |-> 0]
    /\ status = [e \in Env |-> IF e = First THEN "RUNNABLE" ELSE "FREE"]
    /\ entry = {}
    /\ fk = [e \in Env |-> NoFork]
    /\ cow = [e \in Env |-> NoFault]
    /\ halted = FALSE
    /\ want = [e \in Env |-> [v \in Private |-> IF e = First THEN 0 ELSE Null]]
    /\ lost = FALSE
    /\ forks = 0

\* page_alloc zeroes the page it hands out; the model does it when the last mapping
\* goes, so that the contents of free pages do not tell states apart.
zero_unmapped(table) ==
    content' = [p \in Page |->
                  IF \E e \in Env, v \in Va : table[e][v].page = p THEN content[p] ELSE 0]

\* syscall_env_destroy(0), from exit or user_panic.
destroy(e) ==
    /\ status' = [status EXCEPT ![e] = "FREE"]
    /\ pte' = [pte EXCEPT ![e] = [v \in Va |-> Unmapped]]
    /\ zero_unmapped(pte')
    /\ entry' = entry \ {e}
    /\ fk' = [fk EXCEPT ![e] = NoFork]
    /\ cow' = [cow EXCEPT ![e] = NoFault]
    /\ want' = [want EXCEPT ![e] = [v \in Private |-> Null]]
    /\ UNCHANGED <<halted, lost>>

exit(e) ==
    /\ Runs(e) /\ fk[e].pc = "idle"
    /\ destroy(e)
    /\ UNCHANGED forks

-------------------------------------------------------------------------------
\* A store to page p at v.  What shared pages contain is left out.
write(e, v, p, x) ==
    IF v \in Private
    THEN content' = [content EXCEPT ![p] = x] /\ want' = [want EXCEPT ![e][v] = x]
    ELSE UNCHANGED <<content, want>>

\* do_tlb_mod: the faulting context is saved on the exception stack, which fork
\* does not share, and the registered handler entered.
do_tlb_mod(e, v, x) ==
    IF e \in entry
    THEN /\ cow' = [cow EXCEPT ![e] = [pc |-> "perm", va |-> v, val |-> x, perm |-> Writable]]
         /\ UNCHANGED halted
    ELSE halted' = TRUE /\ UNCHANGED cow

\* The store instruction: it writes, faults, or finds the page missing, which
\* passive_alloc then maps, zeroed.
store(e, v, x) ==
    \/ /\ Mapped(e, v) /\ pte[e][v].perm.d
       /\ write(e, v, pte[e][v].page, x)
       /\ UNCHANGED <<pte, cow, halted>>
    \/ /\ Mapped(e, v) /\ ~pte[e][v].perm.d
       /\ do_tlb_mod(e, v, x)
       /\ UNCHANGED <<pte, content, want>>
    \/ /\ ~Mapped(e, v) /\ FreePages = {}
       /\ halted' = TRUE
       /\ UNCHANGED <<pte, content, want, cow>>
    \/ /\ ~Mapped(e, v) /\ FreePages # {}
       /\ pte' = [pte EXCEPT ![e][v] = [page |-> Fresh, perm |-> Writable]]
       /\ write(e, v, Fresh, x)
       /\ UNCHANGED <<cow, halted>>

\* The program stores anywhere; fork and what it calls, to the stack.
user_store(e, v, x) ==
    /\ Runs(e)
    /\ v # UCOW
    /\ fk[e].pc = "idle" \/ (v = Stack /\ fk[e].pc # "enter")
    /\ store(e, v, x)
    /\ UNCHANGED <<status, entry, fk, lost, forks>>

-------------------------------------------------------------------------------
\* cow_entry, with the faulting store in cow[e].
InHandler(e, pc) == ~halted /\ status[e] = "RUNNABLE" /\ cow[e].pc = pc
Handle(e, pc) == cow' = [cow EXCEPT ![e].pc = pc]

\* Step 1 and 2: perm from vpt.
Uncowed(perm) == [cow |-> FALSE, d |-> TRUE, lib |-> perm.lib]

cow_perm(e) ==
    LET perm == pte[e][cow[e].va].perm
    IN
    /\ InHandler(e, "perm")
    /\ IF ~perm.cow THEN destroy(e) /\ UNCHANGED forks
       ELSE /\ cow' = [cow EXCEPT ![e].pc = "alloc",
                                  ![e].perm = Uncowed(perm)]
            /\ UNCHANGED <<pte, content, status, entry, fk, halted, want, lost, forks>>

\* Step 3: a zeroed page at UCOW.
cow_alloc(e) ==
    /\ InHandler(e, "alloc")
    /\ IF FreePages = {} THEN destroy(e) /\ UNCHANGED forks
       ELSE /\ pte' = [pte EXCEPT ![e][UCOW] = [page |-> Fresh, perm |-> cow[e].perm]]
            /\ content' = [content EXCEPT ![Fresh] = 0]
            /\ Handle(e, "copy")
            /\ UNCHANGED <<status, entry, fk, halted, want, lost, forks>>

\* Mutant: the address is stored instead of what is there.
cow_copy_address(e) ==
    /\ InHandler(e, "copy")
    /\ content' = [content EXCEPT ![pte[e][UCOW].page] = cow[e].va]
    /\ Handle(e, "map")
    /\ UNCHANGED <<pte, status, entry, fk, halted, want, lost, forks>>

\* Step 4.
cow_copy(e) ==
    /\ InHandler(e, "copy")
    /\ content' = [content EXCEPT ![pte[e][UCOW].page] = content[pte[e][cow[e].va].page]]
    /\ Handle(e, "map")
    /\ UNCHANGED <<pte, status, entry, fk, halted, want, lost, forks>>

\* Mutant: the page is made writable where it is.
cow_map_same(e) ==
    /\ InHandler(e, "map")
    /\ pte' = [pte EXCEPT ![e][cow[e].va].perm = cow[e].perm]
    /\ Handle(e, "unmap")
    /\ UNCHANGED <<content, status, entry, fk, halted, want, lost, forks>>

\* Step 5.
cow_map(e) ==
    /\ InHandler(e, "map")
    /\ pte' = [pte EXCEPT ![e][cow[e].va] = [page |-> pte[e][UCOW].page, perm |-> cow[e].perm]]
    /\ zero_unmapped(pte')
    /\ Handle(e, "unmap")
    /\ UNCHANGED <<status, entry, fk, halted, want, lost, forks>>

\* Step 6 and 7: the context of the store is restored.
cow_unmap(e) ==
    /\ InHandler(e, "unmap")
    /\ pte' = [pte EXCEPT ![e][UCOW] = Unmapped]
    /\ Handle(e, "retry")
    /\ UNCHANGED <<content, status, entry, fk, halted, want, lost, forks>>

\* The store is executed again; it may fault again.
retry(e) ==
    /\ InHandler(e, "retry")
    /\ IF pte[e][cow[e].va].perm.d
       THEN /\ write(e, cow[e].va, pte[e][cow[e].va].page, cow[e].val)
            /\ cow' = [cow EXCEPT ![e] = NoFault]
            /\ UNCHANGED halted
       ELSE do_tlb_mod(e, cow[e].va, cow[e].val) /\ UNCHANGED <<content, want>>
    /\ UNCHANGED <<pte, status, entry, fk, lost, forks>>

cow_entry(e) ==
    cow_perm(e) \/ cow_alloc(e) \/ cow_copy(e) \/ cow_map(e) \/ cow_unmap(e) \/ retry(e)

-------------------------------------------------------------------------------
\* fork, step by step.
InFork(e, pc) == Runs(e) /\ fk[e].pc = pc
ForkTo(e, pc) == fk' = [fk EXCEPT ![e].pc = pc]

\* Step 1: our own handler.  The call of fork has just stored to the stack.
fork_begin(e) ==
    /\ InFork(e, "idle") /\ forks < MaxForks
    /\ Mapped(e, Stack) /\ pte[e][Stack].perm.d
    /\ forks' = forks + 1
    /\ entry' = entry \cup {e}
    /\ ForkTo(e, "exofork")
    /\ UNCHANGED <<pte, content, status, cow, halted, want, lost>>

\* Step 2: syscall_exofork.  It fails without a slot, or a page for the directory.
\* Its error is not checked: fork goes on with it as the envid of the child.
fork_exofork(e) ==
    /\ InFork(e, "exofork")
    /\ \/ \E c \in Env :
             /\ status[c] = "FREE"
             /\ status' = [status EXCEPT ![c] = "NOT_RUNNABLE"]
             /\ fk' = [fk EXCEPT ![e] = ForkOf(c)]
       \/ /\ FreePages = {} \/ \A c \in Env : status[c] # "FREE"
          /\ fk' = [fk EXCEPT ![e] = ForkOf(Null)]
          /\ UNCHANGED status
    /\ UNCHANGED <<pte, content, entry, cow, halted, want, lost, forks>>

\* Mutant: the last page is left out.
fork_loop_short(e) ==
    LET i == fk[e].i
    IN
    /\ InFork(e, "loop")
    /\ fk' = IF i = NVA - 1 THEN [fk EXCEPT ![e].pc = "set_entry"]
             ELSE IF Mapped(e, i) THEN [fk EXCEPT ![e].pc = "enter"]
             ELSE [fk EXCEPT ![e].i = @ + 1]
    /\ UNCHANGED <<pte, content, status, entry, cow, halted, want, lost, forks>>

\* Step 3, head of the loop: the next page, if it is mapped.
fork_loop(e) ==
    LET i == fk[e].i
    IN
    /\ InFork(e, "loop")
    /\ fk' = IF i = NVA THEN [fk EXCEPT ![e].pc = "set_entry"]
             ELSE IF Mapped(e, i) THEN [fk EXCEPT ![e].pc = "enter"]
             ELSE [fk EXCEPT ![e].i = @ + 1]
    /\ UNCHANGED <<pte, content, status, entry, cow, halted, want, lost, forks>>

\* vpt[i] is read before vpd[i >> 10]: where there is no page table the refill maps an
\* empty one (passive_alloc), and panics if there is no page for it.  A page that becomes a
\* table is not counted here.
fork_no_table(e) ==
    /\ InFork(e, "loop") /\ fk[e].i # NVA /\ ~Mapped(e, fk[e].i)
    /\ FreePages = {}
    /\ halted' = TRUE
    /\ UNCHANGED <<pte, content, status, entry, fk, cow, want, lost, forks>>

\* The call of duppage saves the return address on the stack.
duppage_enter(e, x) ==
    /\ InFork(e, "enter")
    /\ store(e, Stack, x)
    /\ ForkTo(e, "perm")
    /\ UNCHANGED <<status, entry, lost, forks>>

\* The page becomes copy on write in both.
Cowed(perm) == perm.d /\ ~perm.lib /\ ~perm.cow
OnWrite(perm) == [cow |-> TRUE, d |-> FALSE, lib |-> perm.lib]

\* Mutant: the parent is mapped copy on write before the child.
duppage_perm_parent_first(e) ==
    LET perm == pte[e][fk[e].i].perm
        new == IF Cowed(perm) THEN OnWrite(perm) ELSE perm
    IN
    /\ InFork(e, "perm")
    /\ pte' = [pte EXCEPT ![e][fk[e].i].perm = new]
    /\ fk' = [fk EXCEPT ![e].pc = "child", ![e].remap = FALSE, ![e].perm = new]
    /\ UNCHANGED <<content, status, entry, cow, halted, want, lost, forks>>

duppage_perm(e) ==
    LET perm == pte[e][fk[e].i].perm
    IN
    /\ InFork(e, "perm")
    /\ fk' = [fk EXCEPT ![e].pc = "child", ![e].remap = Cowed(perm),
                        ![e].perm = IF Cowed(perm) THEN OnWrite(perm) ELSE perm]
    /\ UNCHANGED <<pte, content, status, entry, cow, halted, want, lost, forks>>

\* duppage returns and fork goes on with the next page.
NextPage(e) == fk' = [fk EXCEPT ![e].pc = "loop", ![e].i = @ + 1, ![e].perm = Writable, ![e].remap = FALSE]

\* The last mapping duppage makes completes the child's snapshot of the page.
Inherit(e, c) ==
    IF fk[e].i \in Private THEN [want EXCEPT ![c][fk[e].i] = want[e][fk[e].i]] ELSE want

\* syscall_mem_map into the child.  It may fail when there is no page left for
\* a page table; duppage does not look.
duppage_child(e) ==
    LET i == fk[e].i
        c == fk[e].child
        mapped == [pte EXCEPT ![c][i] = [page |-> pte[e][i].page, perm |-> fk[e].perm]]
    IN
    /\ InFork(e, "child")
    /\ IF fk[e].remap THEN ForkTo(e, "parent") ELSE NextPage(e)
    /\ \/ c = Null /\ UNCHANGED <<pte, want, lost>>
       \/ /\ c # Null /\ FreePages = {}
          /\ lost' = TRUE
          /\ UNCHANGED <<pte, want>>
       \/ /\ c # Null
          /\ pte' = mapped
          /\ want' = IF fk[e].remap THEN want ELSE Inherit(e, c)
          /\ UNCHANGED lost
    /\ UNCHANGED <<content, status, entry, cow, halted, forks>>

\* syscall_mem_map of the page to itself, copy on write.
duppage_parent(e) ==
    LET i == fk[e].i
    IN
    /\ InFork(e, "parent")
    /\ pte' = [pte EXCEPT ![e][i].perm = fk[e].perm]
    /\ want' = IF fk[e].child # Null /\ Mapped(fk[e].child, i) THEN Inherit(e, fk[e].child) ELSE want
    /\ NextPage(e)
    /\ UNCHANGED <<content, status, entry, cow, halted, lost, forks>>

\* Mutant: the child gets no handler.
fork_set_entry_not(e) ==
    /\ InFork(e, "set_entry")
    /\ ForkTo(e, "set_status")
    /\ UNCHANGED <<pte, content, status, entry, cow, halted, want, lost, forks>>

\* Step 4: the handler of the child, then its status.
fork_set_entry(e) ==
    /\ InFork(e, "set_entry")
    /\ entry' = IF fk[e].child = Null THEN entry ELSE entry \cup {fk[e].child}
    /\ ForkTo(e, "set_status")
    /\ UNCHANGED <<pte, content, status, cow, halted, want, lost, forks>>

fork_set_status(e) ==
    /\ InFork(e, "set_status")
    /\ status' = IF fk[e].child = Null THEN status ELSE [status EXCEPT ![fk[e].child] = "RUNNABLE"]
    /\ fk' = [fk EXCEPT ![e] = NoFork]
    /\ UNCHANGED <<pte, content, entry, cow, halted, want, lost, forks>>

in_fork(e) ==
    \/ fork_exofork(e) \/ fork_loop(e) \/ fork_no_table(e)
    \/ (\E x \in Val : duppage_enter(e, x))
    \/ duppage_perm(e) \/ duppage_child(e) \/ duppage_parent(e)
    \/ fork_set_entry(e) \/ fork_set_status(e)

Next ==
    \E e \in Env :
        \/ \E v \in Va, x \in Val : user_store(e, v, x)
        \/ cow_entry(e) \/ fork_begin(e) \/ in_fork(e) \/ exit(e)

Spec == Init /\ [][Next]_vars

-------------------------------------------------------------------------------
\* Where a process is in fork and in cow_entry, with the locals.
ForkRecord ==
    [pc : {"idle", "exofork", "loop", "enter", "perm", "child", "parent", "set_entry", "set_status"},
     i : 0..NVA, child : Env \cup {Null}, perm : Perm, remap : BOOLEAN]
CowRecord ==
    [pc : {"idle", "perm", "alloc", "copy", "map", "unmap", "retry"}, va : Va, val : Val, perm : Perm]

\* Page table entries, processes and the locals of fork and cow_entry.
TypeOK ==
    /\ pte \in [Env -> [Va -> Pte]]
    /\ content \in [Page -> Val]
    /\ status \in [Env -> {"FREE", "NOT_RUNNABLE", "RUNNABLE"}]
    /\ entry \subseteq Env
    /\ fk \in [Env -> ForkRecord]
    /\ cow \in [Env -> CowRecord]
    /\ halted \in BOOLEAN
    /\ want \in [Env -> [Private -> Val \cup {Null}]]
    /\ lost \in BOOLEAN
    /\ forks \in Nat

\* fork.c:55, "isolate the modifications on unshared memory from a parent and its
\* children": a page one process can write, other than a PTE_LIBRARY page, is
\* mapped by no other process.  The exception is the page duppage is working on:
\* the child has it, the parent still writes, and the child does not run yet.
CowIsolation ==
    \A e, f \in Env : \A v, w \in Va :
        /\ e # f
        /\ Mapped(e, v) /\ pte[e][v].page = pte[f][w].page
        /\ pte[e][v].perm.d /\ ~pte[e][v].perm.lib
        => fk[e].pc = "parent" /\ fk[e].i = v /\ v = w /\ fk[e].child = f

\* Private memory works as if every process had its own from the moment fork
\* copied the page: a process reads what it wrote last or else what its parent
\* had there, whoever faults, copies, calls or exits in between.
PrivateMemory ==
    \A e \in Env, v \in Private :
        Mapped(e, v) /\ want[e][v] # Null => content[pte[e][v].page] = want[e][v]

\* A child that runs has all of its parent's memory, private pages as a copy and
\* PTE_LIBRARY pages as the same page for the whole family, unless a
\* syscall_mem_map failed unnoticed.
ChildIsComplete ==
    \/ lost
    \/ \A e, f \in Env : status[e] = "RUNNABLE" =>
          /\ \A v \in Private : want[e][v] # Null
          /\ \A v \in Library : Mapped(f, v) => pte[f][v].page = pte[e][v].page

\* tlbex.c:79, "TLB Mod but no user handler registered": no fork makes a process
\* run with a copy-on-write page before it has a handler; and the handler does its work
\* once: the store it was entered for finds the page writable and does not fault again.
FaultsHandled ==
    \A e \in Env :
        /\ status[e] = "RUNNABLE" => e \in entry \/ \A v \in Va : ~pte[e][v].perm.cow
        /\ cow[e].pc = "retry" => pte[e][cow[e].va].perm.d
===============================================================================
