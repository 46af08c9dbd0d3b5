------------------------------- MODULE PhysMem -------------------------------
(***************************************************************************)
(* Physical pages, page tables and the TLB of the MOS kernel: kern/pmap.c, *)
(* kern/tlbex.c, the memory half of kern/env.c and the system calls of     *)
(* kern/syscall_all.c that map or unmap a page.                            *)
(*                                                                         *)
(* Every page in use is reached through the two-level table of some        *)
(* environment, and the table maps itself at UVPT, so the page directory   *)
(* and the page tables have virtual addresses like any other page.  A      *)
(* virtual page is therefore one of                                        *)
(*    v \in Uva   a page of [0, UTOP)                                      *)
(*    d \in Pt    the page table number d, seen at UVPT + d pages          *)
(*    Dir         the page directory, seen at UVPT + PDX(UVPT) pages       *)
(* and pte[e, x] is the entry that maps x in e: for x \in Uva an entry of  *)
(* a page table, for x \in Pt an entry of the directory.  PDX[x] is the    *)
(* table that holds the entry of x.                                        *)
(*                                                                         *)
(* System calls run with interrupts disabled and are one step; env_free    *)
(* is one step per page it unmaps, with nothing in between.  envid2env     *)
(* belongs to EnvSched: here a process may name any live environment,      *)
(* which only adds behaviours.  The TLB never evicts, its worst case.      *)
(***************************************************************************)
EXTENDS Integers, Sequences, FiniteSets

CONSTANTS
    Env, Page, NASID,
    Uva, Pt, Dir, PDX,   \* virtual pages
    ZeroVa,              \* address 0, where an IPC with dstva = 0 maps its page
    Perms,               \* the permission bits of a valid entry
    Null,                \* no page, no environment
    RefMod               \* pp_ref is an unsigned short: 2^16 values

Asid == 0..(NASID - 1)
Vpn == Uva \cup Pt \cup {Dir}
Slot == Env \X Vpn
PTE_V == "PTE_V"   \* valid, read only
PTE_D == "PTE_D"   \* valid and writable

ASSUME LayoutAssumption ==
    /\ Uva \cap Pt = {} /\ Dir \notin Uva \cup Pt
    /\ PDX \in [Vpn -> Pt \cup {Dir}]
    /\ \A v \in Uva : PDX[v] \in Pt
    /\ \A d \in Pt \cup {Dir} : PDX[d] = Dir
    /\ ZeroVa \in Uva
    /\ {PTE_V, PTE_D} \subseteq Perms
    /\ IsFiniteSet(Page) /\ Null \notin Page /\ Null \notin Env
    /\ NASID \in Nat \ {0}

\* A page may be mapped more often than pp_ref can count.
ASSUME RefAssumption == IsFiniteSet(Slot) /\ RefMod \in Nat /\ RefMod > 1

VARIABLES
    mem,        \* [ref, free, pte, tlb, ok, over], see Memory
    live,       \* environments whose slot is not free
    env_asid,
    freeing,    \* the environment env_free is working on, or Null
    halted      \* the kernel has panicked

vars == <<mem, live, env_asid, freeing, halted>>

Entry == [page : Page \cup {Null}, perm : Perms]
Unmapped == [page |-> Null, perm |-> PTE_V]
TlbEntry == [asid : Asid, vpn : Vpn, page : Page, perm : Perms]

\* ok turns FALSE when an assertion of pmap.c fails, over turns TRUE when a
\* pp_ref wraps.
Memory ==
    [ref : [Page -> 0..(RefMod - 1)], free : Seq(Page), pte : [Slot -> Entry],
     tlb : SUBSET TlbEntry, ok : BOOLEAN, over : BOOLEAN]

-------------------------------------------------------------------------------
\* The allocator.  pp_ref++ is unsigned and nothing checks it.
incref(m, p) ==
    [m EXCEPT !.ref[p] = (@ + 1) % RefMod, !.over = @ \/ m.ref[p] + 1 = RefMod]

page_free(m, p) ==
    IF m.ref[p] # 0 THEN [m EXCEPT !.ok = FALSE] ELSE [m EXCEPT !.free = <<p>> \o @]

\* Mutant: a reference that goes is not counted.
page_decref_lost(m, p) == m

page_decref(m, p) ==
    IF m.ref[p] = 0 THEN [m EXCEPT !.ok = FALSE]
    ELSE LET n == [m EXCEPT !.ref[p] = @ - 1]
         IN  IF n.ref[p] = 0 THEN page_free(n, p) ELSE n

\* page_alloc: the first free page, zeroed, its reference count untouched.
CanAlloc(m) == m.free # <<>>
Fresh(m) == Head(m.free)
page_alloc_kept(m) == m   \* mutant: the page stays on the list
page_alloc(m) == [m EXCEPT !.free = Tail(@)]

\* Mutant: the TLB entry survives the change of the table.
tlb_invalidate_none(m, asid, v) == m

\* Two-level tables.
tlb_invalidate(m, asid, v) == [m EXCEPT !.tlb = {t \in @ : t.asid # asid \/ t.vpn # v}]

\* page_lookup, with pgdir_walk(create = 0).
page_lookup(m, e, v) ==
    IF m.pte[e, PDX[v]].page = Null THEN Null ELSE m.pte[e, v].page

page_remove(m, e, v) ==
    LET p == page_lookup(m, e, v)
    IN  IF p = Null THEN m
        ELSE tlb_invalidate([page_decref(m, p) EXCEPT !.pte[<<e, v>>] = Unmapped], env_asid[e], v)

\* pgdir_walk(create = 1) when there is a page for a missing page table.
pgdir_walk(m, e, v) ==
    IF m.pte[e, PDX[v]].page # Null THEN m
    ELSE [incref(page_alloc(m), Fresh(m)) EXCEPT
             !.pte[<<e, PDX[v]>>] = [page |-> Fresh(m), perm |-> PTE_D]]

CanWalk(m, e, v) == m.pte[e, PDX[v]].page # Null \/ CanAlloc(m)

\* page_insert: first whatever is mapped at v goes; what is left is -E_NO_MEM
\* if the page table then cannot be allocated.
Vacated(m, e, v) == tlb_invalidate(page_remove(m, e, v), env_asid[e], v)

page_insert(m, e, p, v, perm) ==
    IF page_lookup(m, e, v) = p
    THEN [tlb_invalidate(m, env_asid[e], v) EXCEPT !.pte[<<e, v>>] = [page |-> p, perm |-> perm]]
    ELSE LET n == Vacated(m, e, v)
         IN  IF ~CanWalk(n, e, v) THEN n
             ELSE [incref(pgdir_walk(n, e, v), p) EXCEPT
                      !.pte[<<e, v>>] = [page |-> p, perm |-> perm]]

\* Mutant: passive_alloc does not look at what page_insert returns.
Inserts_ignored(m, e, p, v) == TRUE

Inserts(m, e, p, v) == page_lookup(m, e, v) = p \/ CanWalk(Vacated(m, e, v), e, v)

-------------------------------------------------------------------------------
\* After page_init, before the first environment.
Init ==
    /\ \E order \in [1..Cardinality(Page) -> Page] :
          /\ \A i, j \in DOMAIN order : order[i] = order[j] => i = j
          /\ mem = [ref |-> [p \in Page |-> 0], free |-> order,
                    pte |-> [s \in Slot |-> Unmapped], tlb |-> {}, ok |-> TRUE, over |-> FALSE]
    /\ live = {}
    /\ env_asid = [e \in Env |-> 0]
    /\ freeing = Null
    /\ halted = FALSE

\* The kernel has not panicked.  The model also ends when a pp_ref has wrapped:
\* from then on a page can be freed, and become a table, while it is mapped.
Runs == ~halted /\ mem.ok /\ ~mem.over

Idle == Runs /\ freeing = Null

\* The ASIDs whose bit is clear, and the lowest of them.
AsidsFree == Asid \ {env_asid[e] : e \in live}
asid_alloc(a) == a \in AsidsFree /\ \A b \in AsidsFree : a <= b

\* env_setup_vm: the page directory maps itself, read only.
env_setup_vm(m, e) ==
    [incref(page_alloc(m), Fresh(m)) EXCEPT !.pte[<<e, Dir>>] = [page |-> Fresh(m), perm |-> PTE_V]]

env_alloc(e) ==
    /\ Idle /\ e \notin live /\ CanAlloc(mem)
    /\ mem' = env_setup_vm(mem, e)
    /\ live' = live \cup {e}
    /\ \E a \in Asid : asid_alloc(a) /\ env_asid' = [env_asid EXCEPT ![e] = a]
    /\ UNCHANGED <<freeing, halted>>

\* env_alloc without a free ASID: it returns with the directory allocated and
\* the slot still free.
env_alloc_no_asid(e) ==
    /\ Idle /\ e \notin live /\ CanAlloc(mem)
    /\ AsidsFree = {}
    /\ mem' = env_setup_vm(mem, e)
    /\ UNCHANGED <<live, env_asid, freeing, halted>>

\* sys_mem_alloc, and load_icode_mapper.  A page that cannot be mapped for
\* want of a page table is not given back.
sys_mem_alloc(e, v, perm) ==
    /\ Idle /\ e \in live /\ v # ZeroVa
    /\ CanAlloc(mem)
    /\ mem' = page_insert(page_alloc(mem), e, Fresh(mem), v, perm)
    /\ UNCHANGED <<live, env_asid, freeing, halted>>

sys_mem_map(e, v, f, w, perm) ==
    /\ Idle /\ {e, f} \subseteq live /\ v # ZeroVa /\ w # ZeroVa
    /\ page_lookup(mem, e, v) # Null
    /\ mem' = page_insert(mem, f, page_lookup(mem, e, v), w, perm)
    /\ UNCHANGED <<live, env_asid, freeing, halted>>

\* The page of a message, mapped where the receiver asked for it, or at
\* address 0 if it asked for none.
sys_ipc_try_send(e, v, f, w, perm) ==
    /\ Idle /\ {e, f} \subseteq live /\ v # ZeroVa
    /\ page_lookup(mem, e, v) # Null
    /\ mem' = page_insert(mem, f, page_lookup(mem, e, v), w, perm)
    /\ UNCHANGED <<live, env_asid, freeing, halted>>

sys_mem_unmap(e, v) ==
    /\ Idle /\ e \in live /\ v # ZeroVa
    /\ mem' = page_remove(mem, e, v)
    /\ UNCHANGED <<live, env_asid, freeing, halted>>

\* _do_tlb_refill for an access of the process e to v, by user code or, for
\* v \in Pt \cup {Dir}, to vpt and vpd: an unmapped page is allocated first, and
\* passive_alloc panics at an address below UTEMP or without memory.
do_tlb_refill(e, v) ==
    LET missing == page_lookup(mem, e, v) = Null
        m == IF missing THEN page_insert(page_alloc(mem), e, Fresh(mem), v, PTE_D) ELSE mem
        backed == \/ ~missing
                  \/ v # ZeroVa /\ CanAlloc(mem) /\ Inserts(page_alloc(mem), e, Fresh(mem), v)
    IN
    /\ Idle /\ e \in live
    /\ IF backed
       THEN /\ mem' = [m EXCEPT !.tlb = @ \cup {[asid |-> env_asid[e], vpn |-> v,
                                                page |-> m.pte[e, v].page, perm |-> m.pte[e, v].perm]}]
            /\ UNCHANGED halted
       ELSE halted' = TRUE /\ UNCHANGED mem
    /\ UNCHANGED <<live, env_asid, freeing>>

env_destroy(e) ==
    /\ Idle /\ e \in live
    /\ freeing' = e
    /\ UNCHANGED <<mem, live, env_asid, halted>>

\* One turn of the loops of env_free: the pages of a table, then the table,
\* last the directory and with it the environment.
env_free ==
    /\ Runs /\ freeing # Null
    /\ \E v \in Vpn :
          /\ mem.pte[freeing, v].page # Null
          /\ \A w \in Vpn : PDX[w] = v /\ w # v => mem.pte[freeing, w].page = Null
          /\ mem' = tlb_invalidate(
                       [page_decref(mem, mem.pte[freeing, v].page) EXCEPT !.pte[<<freeing, v>>] = Unmapped],
                       env_asid[freeing], v)
          /\ IF v = Dir THEN freeing' = Null /\ live' = live \ {freeing}
             ELSE UNCHANGED <<freeing, live>>
    /\ UNCHANGED <<env_asid, halted>>

Next ==
    \/ \E e \in Env : env_alloc(e) \/ env_alloc_no_asid(e) \/ env_destroy(e)
    \/ \E e \in Env, v \in Uva, perm \in Perms : sys_mem_alloc(e, v, perm)
    \/ \E e, f \in Env, v, w \in Uva, perm \in Perms :
          sys_mem_map(e, v, f, w, perm) \/ sys_ipc_try_send(e, v, f, w, perm)
    \/ \E e \in Env, v \in Uva : sys_mem_unmap(e, v)
    \/ \E e \in Env, v \in Vpn : do_tlb_refill(e, v)
    \/ env_free

Spec == Init /\ [][Next]_vars

-------------------------------------------------------------------------------
\* pp_ref and the lists of pmap.c, the tables, the TLB and the ASIDs.
TypeOK ==
    /\ mem \in Memory
    /\ live \subseteq Env
    /\ env_asid \in [Env -> Asid]
    /\ freeing \in Env \cup {Null}
    /\ halted \in BOOLEAN

\* The places that hold a page: the entries of tables and directories, and the
\* directory pointers.
Refs(m, p) == {s \in Slot : m.pte[s].page = p}

OnFreeList(m) == {m.free[i] : i \in DOMAIN m.free}

\* The free list has no page twice, and none that is still mapped, is a table,
\* or is in the TLB: page_alloc hands out memory nobody else can reach.
FreeListSound ==
    /\ \A i, j \in DOMAIN mem.free : mem.free[i] = mem.free[j] => i = j
    /\ \A p \in OnFreeList(mem) :
          mem.ref[p] = 0 /\ Refs(mem, p) = {} /\ \A t \in mem.tlb : t.page # p

\* pp_ref is exact, whatever fails, so no page is freed while something maps it
\* and the assertions of page_free (pp_ref == 0) and page_decref (pp_ref > 0)
\* hold, until a page is held in RefMod places and its count wraps to 0.  The
\* other exception: a directory that env_alloc allocated before it found no
\* ASID keeps the count 1 when its slot is given away.  (Until then the slot, free
\* as it is, still points to it.)  What maps a page is the entries of tables that are
\* themselves mapped, of environments alive: freed tables are never walked.
RefExact ==
    /\ mem.ok
    /\ \A e \in Env, v \in Vpn : mem.pte[e, v].page # Null =>
          mem.pte[e, PDX[v]].page # Null /\ (v # Dir => e \in live)
    /\ \A p \in Page :
          \/ mem.ref[p] = Cardinality(Refs(mem, p))
          \/ Refs(mem, p) = {} /\ mem.ref[p] = 1
          \/ mem.over /\ Cardinality(Refs(mem, p)) = RefMod /\ mem.ref[p] = 0
    /\ mem.over => \E p \in Page : Cardinality(Refs(mem, p)) = RefMod

\* A TLB hit gives what a walk of the tables would give: each entry agrees, in
\* page and permission, with the table of the one live environment that has its
\* ASID.  Entries of a dead environment must be gone before the ASID is reused.
TlbCoherent ==
    \A t \in mem.tlb :
        /\ \E e \in live : env_asid[e] = t.asid
        /\ \A e \in live : env_asid[e] = t.asid => mem.pte[e, t.vpn] = [page |-> t.page, perm |-> t.perm]
===============================================================================
