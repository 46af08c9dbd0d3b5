---------------------------- MODULE PhysMemProofs ----------------------------
(***************************************************************************)
(* For any number of environments, pages and ASIDs, any layout of the      *)
(* tables and any width of pp_ref: reference counts are exact until one    *)
(* wraps, a free page is reachable from nowhere, and the TLB agrees with   *)
(* the tables.                                                             *)
(*                                                                         *)
(* The operations of pmap.c are functions of the memory, so most lemmas    *)
(* are about a memory m, the set l of live environments and their ASIDs.   *)
(***************************************************************************)
EXTENDS PhysMem, FiniteSetTheorems, TLAPS

-------------------------------------------------------------------------------
\* The free list has no page twice and only pages without references.
FreeOnce(m) ==
    /\ \A i, j \in DOMAIN m.free : m.free[i] = m.free[j] => i = j
    /\ \A p \in OnFreeList(m) : m.ref[p] = 0 /\ Refs(m, p) = {}

\* pp_ref counts the entries, but for a page that lost its only entry unnoticed
\* and one whose count has just wrapped.
CountExact(m, p) ==
    \/ m.ref[p] = Cardinality(Refs(m, p))
    \/ Refs(m, p) = {} /\ m.ref[p] = 1
    \/ m.over /\ Cardinality(Refs(m, p)) = RefMod /\ m.ref[p] = 0

\* A count wraps only when a page is held in RefMod places.
OverHeld(m) == m.over => \E p \in Page : Cardinality(Refs(m, p)) = RefMod

Counted(m) ==
    /\ m \in Memory /\ m.ok
    /\ FreeOnce(m)
    /\ \A p \in Page : CountExact(m, p)
    /\ OverHeld(m)

\* An entry is in a table that is mapped, of an environment alive.
TablesMapped(m, l) ==
    \A e \in Env, v \in Vpn : m.pte[<<e, v>>].page # Null =>
        m.pte[<<e, PDX[v]>>].page # Null /\ (v # Dir => e \in l)

DirMapped(m, l) == \A e \in l : m.pte[<<e, Dir>>].page # Null

\* Nothing else maps a page directory.
DirPrivate(m) ==
    \A e \in Env, s \in Slot :
        m.pte[<<e, Dir>>].page # Null /\ m.pte[s].page = m.pte[<<e, Dir>>].page => s = <<e, Dir>>

Coherent(m, l, asid) ==
    \A t \in m.tlb :
        /\ \E e \in l : asid[e] = t.asid
        /\ \A e \in l : asid[e] = t.asid => m.pte[<<e, t.vpn>>] = [page |-> t.page, perm |-> t.perm]

AsidsDistinct(l, asid) == \A e, f \in l : asid[e] = asid[f] => e = f

MemInv(m, l, asid) ==
    Counted(m) /\ TablesMapped(m, l) /\ DirMapped(m, l) /\ DirPrivate(m) /\ Coherent(m, l, asid)

\* The inductive invariant.
IInv ==
    /\ TypeOK
    /\ MemInv(mem, live, env_asid)
    /\ AsidsDistinct(live, env_asid)
    /\ freeing # Null => freeing \in live

-------------------------------------------------------------------------------
\* The places that hold a page are finitely many.
LEMMA RefsFinite ==
    ASSUME NEW m, NEW p
    PROVE  /\ IsFiniteSet(Refs(m, p))
           /\ Cardinality(Refs(m, p)) \in Nat
           /\ Cardinality(Refs(m, p)) <= Cardinality(Slot)
           /\ Cardinality(Refs(m, p)) = 0 <=> Refs(m, p) = {}
<1>1. Refs(m, p) \in SUBSET Slot
  BY DEF Refs
<1> QED BY <1>1, RefAssumption, FS_Subset, FS_CardinalityType, FS_EmptySet

\* The memory after page_alloc: the first page is off the list, nothing else changes.
LEMMA Take ==
    ASSUME NEW m, Counted(m), CanAlloc(m)
    PROVE  /\ Counted(page_alloc(m))
           /\ page_alloc(m).pte = m.pte /\ page_alloc(m).tlb = m.tlb /\ page_alloc(m).ref = m.ref
           /\ page_alloc(m).over = m.over
           /\ Fresh(m) \in Page /\ Fresh(m) \in OnFreeList(m)
           /\ OnFreeList(page_alloc(m)) = OnFreeList(m) \ {Fresh(m)}
<1> DEFINE n == page_alloc(m)
<1>1. m \in Memory /\ m.free \in Seq(Page) /\ m.free # <<>>
  BY DEF Counted, Memory, CanAlloc
<1>2. /\ n.pte = m.pte /\ n.tlb = m.tlb /\ n.ref = m.ref /\ n.ok = m.ok /\ n.free = Tail(m.free)
      /\ n.over = m.over /\ n \in Memory
  <2>1. Tail(m.free) \in Seq(Page)
    BY <1>1
  <2> QED BY <1>1, <2>1 DEF page_alloc, Memory
<1>3. /\ Len(m.free) \in Nat \ {0} /\ DOMAIN m.free = 1..Len(m.free)
      /\ DOMAIN n.free = 1..(Len(m.free) - 1)
      /\ \A i \in 1..(Len(m.free) - 1) : n.free[i] = m.free[i + 1]
      /\ Fresh(m) = m.free[1]
  BY <1>1, <1>2 DEF Fresh
<1>4. \A i, j \in DOMAIN m.free : m.free[i] = m.free[j] => i = j
  BY DEF Counted, FreeOnce
<1>5. OnFreeList(n) = OnFreeList(m) \ {Fresh(m)}
  <2>1. ASSUME NEW q \in OnFreeList(n) PROVE q \in OnFreeList(m) /\ q # Fresh(m)
    <3>1. PICK i \in 1..(Len(m.free) - 1) : q = n.free[i]
      BY <1>3 DEF OnFreeList
    <3>2. q = m.free[i + 1] /\ i + 1 \in DOMAIN m.free /\ 1 \in DOMAIN m.free /\ i + 1 # 1
      BY <1>3, <3>1
    <3> QED BY <1>3, <1>4, <3>2 DEF OnFreeList
  <2>2. ASSUME NEW q \in OnFreeList(m), q # Fresh(m) PROVE q \in OnFreeList(n)
    <3>1. PICK i \in DOMAIN m.free : q = m.free[i]
      BY DEF OnFreeList
    <3>2. i # 1 /\ i - 1 \in DOMAIN n.free /\ n.free[i - 1] = m.free[i]
      BY <1>3, <2>2, <3>1
    <3> QED BY <3>1, <3>2 DEF OnFreeList
  <2> QED BY <2>1, <2>2
<1>6. FreeOnce(n)
  <2>1. \A i, j \in DOMAIN n.free : n.free[i] = n.free[j] => i = j
    <3> SUFFICES ASSUME NEW i \in DOMAIN n.free, NEW j \in DOMAIN n.free, n.free[i] = n.free[j]
                 PROVE  i = j
      OBVIOUS
    <3>1. i + 1 \in DOMAIN m.free /\ j + 1 \in DOMAIN m.free /\ m.free[i + 1] = m.free[j + 1]
      BY <1>3
    <3>2. i + 1 = j + 1
      BY <1>4, <3>1
    <3> QED BY <1>3, <3>2
  <2>2. \A p : Refs(n, p) = Refs(m, p)
    BY <1>2 DEF Refs
  <2> QED BY <1>2, <1>5, <2>1, <2>2 DEF FreeOnce, Counted
<1>7. (\A p \in Page : CountExact(n, p)) /\ OverHeld(n)
  BY <1>2 DEF CountExact, OverHeld, Refs, Counted
<1>8. Fresh(m) \in Page /\ Fresh(m) \in OnFreeList(m)
  BY <1>1, <1>3 DEF OnFreeList
<1> HIDE DEF n
<1> QED BY <1>2, <1>5, <1>6, <1>7, <1>8 DEF Counted, n

\* A page without entries or on the free list: what the counts say of it.
LEMMA CountFacts ==
    ASSUME NEW m, Counted(m), NEW p \in Page
    PROVE  /\ m.ref[p] \in Nat /\ m.ref[p] < RefMod
           /\ p \in OnFreeList(m) => m.ref[p] = 0 /\ Refs(m, p) = {}
           /\ ~m.over => /\ m.ref[p] = 0 => Refs(m, p) = {}
                         /\ Refs(m, p) # {} => m.ref[p] = Cardinality(Refs(m, p)) /\ m.ref[p] > 0
BY RefsFinite, RefAssumption DEF Counted, FreeOnce, CountExact, Memory

\* The two elementary changes of the tables: what page_insert, pgdir_walk and
\* env_setup_vm do to enter a page, and page_remove and env_free to clear an entry.
entered(m, e, v, p, perm) ==
    [incref(m, p) EXCEPT !.pte[<<e, v>>] = [page |-> p, perm |-> perm]]

cleared(m, e, v) ==
    [page_decref(m, m.pte[<<e, v>>].page) EXCEPT !.pte[<<e, v>>] = Unmapped]

\* What entering p at <<e, v>> in m leaves.
EnteredFrom(n, m, e, v, p, perm) ==
    /\ n.pte = [m.pte EXCEPT ![<<e, v>>] = [page |-> p, perm |-> perm]]
    /\ n.free = m.free
    /\ n.ref = [m.ref EXCEPT ![p] = (m.ref[p] + 1) % RefMod]
    /\ n.over = (m.ref[p] + 1 = RefMod)

\* A new entry: page p, neither free nor forgotten, is entered at <<e, v>>, where
\* nothing was mapped, or a page that has no other entry and keeps its count.
LEMMA Link ==
    ASSUME NEW m, Counted(m), ~m.over, NEW p \in Page, p \notin OnFreeList(m),
           m.ref[p] = 0 \/ Refs(m, p) # {},
           NEW e \in Env, NEW v \in Vpn, NEW perm \in Perms,
           \/ m.pte[<<e, v>>].page = Null
           \/ m.pte[<<e, v>>].page # p /\ Refs(m, m.pte[<<e, v>>].page) = {<<e, v>>},
           NEW n, n = entered(m, e, v, p, perm)
    PROVE  Counted(n) /\ n.tlb = m.tlb /\ EnteredFrom(n, m, e, v, p, perm)
<1> DEFINE s == <<e, v>>
           q == m.pte[s].page
<1>1. /\ m \in Memory /\ s \in Slot /\ m.pte \in [Slot -> Entry] /\ m.ref \in [Page -> 0..(RefMod - 1)]
      /\ q \in Page \cup {Null} /\ p # Null
  BY LayoutAssumption DEF Counted, Memory, Slot, Entry
<1> HIDE DEF s, q
<1>2. q # p
  BY <1>1 DEF q, s
<1>3. m.ref[p] = Cardinality(Refs(m, p)) /\ s \notin Refs(m, p) /\ s \in Slot
  <2>1. m.ref[p] = Cardinality(Refs(m, p))
    <3>1. CASE m.ref[p] = 0
      BY <3>1, CountFacts, FS_EmptySet
    <3>2. CASE Refs(m, p) # {}
      BY <3>2, CountFacts
    <3> QED BY <3>1, <3>2
  <2>2. s \notin Refs(m, p)
    BY <1>2 DEF Refs, q
  <2> QED BY <1>1, <2>1, <2>2
<1>4. /\ m.ref[p] \in Nat /\ m.ref[p] < RefMod /\ RefMod \in Nat
      /\ (m.ref[p] + 1) % RefMod = IF m.ref[p] + 1 = RefMod THEN 0 ELSE m.ref[p] + 1
      /\ (m.ref[p] + 1) % RefMod \in 0..(RefMod - 1)
  <2>1. m.ref[p] \in Nat /\ m.ref[p] < RefMod /\ RefMod \in Nat /\ RefMod > 1
    BY CountFacts, RefAssumption
  <2>2. \A k, d \in Nat : k < d => k % d = k
    OBVIOUS
  <2>3. \A d \in Nat : d > 1 => d % d = 0
    OBVIOUS
  <2>4. CASE m.ref[p] + 1 = RefMod
    BY <2>1, <2>3, <2>4
  <2>5. CASE m.ref[p] + 1 # RefMod
    BY <2>1, <2>2, <2>5
  <2> QED BY <2>4, <2>5
<1>5. /\ n.pte = [m.pte EXCEPT ![s] = [page |-> p, perm |-> perm]]
      /\ n.tlb = m.tlb /\ n.free = m.free /\ n.ok = m.ok
      /\ n.ref = [m.ref EXCEPT ![p] = (m.ref[p] + 1) % RefMod]
      /\ n.over = (m.ref[p] + 1 = RefMod)
  BY <1>1 DEF entered, incref, Memory, s
<1>6. n \in Memory
  <2>1. n = [m EXCEPT !.ref = n.ref, !.pte = n.pte, !.over = n.over]
    BY <1>1 DEF entered, incref, Memory
  <2>2. n.ref \in [Page -> 0..(RefMod - 1)]
    BY <1>1, <1>4, <1>5
  <2>3. n.pte \in [Slot -> Entry] /\ n.over \in BOOLEAN
    BY <1>1, <1>5 DEF Entry
  <2> QED BY <1>1, <2>1, <2>2, <2>3 DEF Memory
<1>7. FreeOnce(n)
  <2>1. OnFreeList(n) = OnFreeList(m) /\ n.free = m.free
    BY <1>5 DEF OnFreeList
  <2>2. ASSUME NEW r \in OnFreeList(n) PROVE n.ref[r] = 0 /\ Refs(n, r) = {}
    <3>1. r \in Page /\ r # p /\ r # Null /\ m.ref[r] = 0 /\ Refs(m, r) = {}
      BY <1>1, <2>1, <2>2, LayoutAssumption DEF Counted, FreeOnce, OnFreeList, Memory
    <3>2. \A x \in Slot : n.pte[x].page # r
      BY <1>1, <1>5, <3>1 DEF Refs
    <3> QED BY <1>1, <1>5, <3>1, <3>2 DEF Refs
  <2> QED BY <2>1, <2>2 DEF FreeOnce, Counted
<1>8. CountExact(n, p)
  <2>1. Refs(n, p) = Refs(m, p) \cup {s}
    BY <1>1, <1>5 DEF Refs
  <2>2. Cardinality(Refs(n, p)) = Cardinality(Refs(m, p)) + 1
    BY <1>3, <2>1, RefsFinite, FS_AddElement
  <2>3. n.ref[p] = IF m.ref[p] + 1 = RefMod THEN 0 ELSE m.ref[p] + 1
    BY <1>1, <1>4, <1>5
  <2> QED BY <1>3, <1>4, <1>5, <2>2, <2>3 DEF CountExact
<1>9. ASSUME NEW r \in Page, r # p PROVE CountExact(n, r)
  <2>1. n.ref[r] = m.ref[r] /\ CountExact(m, r)
    BY <1>1, <1>5, <1>9 DEF Counted
  <2>2. CASE r # q
    <3>1. Refs(n, r) = Refs(m, r)
      BY <1>1, <1>5, <1>9, <2>2 DEF Refs, q
    <3> QED BY <1>5, <2>1, <3>1 DEF CountExact
  <2>3. CASE r = q
    <3>1. Refs(m, r) = {s}
      BY <2>3, LayoutAssumption DEF q, s
    <3>2. Refs(n, r) = {}
      BY <1>1, <1>5, <1>9, <3>1 DEF Refs
    <3>3. m.ref[r] = 1
      BY <2>1, <3>1, FS_Singleton DEF CountExact
    <3> QED BY <2>1, <3>2, <3>3 DEF CountExact
  <2> QED BY <2>2, <2>3
<1>10. OverHeld(n)
  <2>1. Refs(n, p) = Refs(m, p) \cup {s}
    BY <1>1, <1>5 DEF Refs
  <2>2. Cardinality(Refs(n, p)) = Cardinality(Refs(m, p)) + 1
    BY <1>3, <2>1, RefsFinite, FS_AddElement
  <2> QED BY <1>3, <1>5, <2>2 DEF OverHeld
<1>11. Counted(n)
  BY <1>5, <1>6, <1>7, <1>8, <1>9, <1>10 DEF Counted
<1> QED BY <1>5, <1>11 DEF s, EnteredFrom

\* An entry goes: page_decref and the clearing of the entry, wherever page_remove and
\* env_free do it.  A page that becomes free has no entry left.
LEMMA Unlink ==
    ASSUME NEW m, Counted(m), ~m.over, NEW e \in Env, NEW v \in Vpn,
           NEW p \in Page, m.pte[<<e, v>>].page = p,
           NEW n, n = cleared(m, e, v)
    PROVE  /\ Counted(n) /\ ~n.over
           /\ n.pte = [m.pte EXCEPT ![<<e, v>>] = Unmapped]
           /\ n.tlb = m.tlb
           /\ OnFreeList(n) \subseteq OnFreeList(m) \cup {p}
           /\ \A r \in Page \ {p} : n.ref[r] = m.ref[r]
<1> DEFINE s == <<e, v>>
<1>1. /\ m \in Memory /\ s \in Slot /\ m.pte \in [Slot -> Entry] /\ m.ref \in [Page -> 0..(RefMod - 1)]
      /\ m.free \in Seq(Page) /\ p # Null /\ m.ok /\ m.pte[s].page = p
  BY LayoutAssumption DEF Counted, Memory, Slot, Entry
<1> HIDE DEF s
<1>2. s \in Refs(m, p)
  BY <1>1 DEF Refs
<1>3. m.ref[p] = Cardinality(Refs(m, p)) /\ m.ref[p] > 0 /\ p \notin OnFreeList(m)
  BY <1>2, CountFacts
<1>4. /\ n.pte = [m.pte EXCEPT ![s] = Unmapped]
      /\ n.tlb = m.tlb /\ n.ok /\ ~n.over
      /\ n.ref = [m.ref EXCEPT ![p] = m.ref[p] - 1]
      /\ n.free = IF m.ref[p] - 1 = 0 THEN <<p>> \o m.free ELSE m.free
  BY <1>1, <1>3, RefAssumption DEF cleared, page_decref, page_free, Memory, s
<1>5. n \in Memory
  <2> DEFINE k == [m EXCEPT !.ref[p] = @ - 1]
             d == page_decref(m, p)
  <2>1. k \in Memory /\ k.ref[p] = m.ref[p] - 1 /\ k.free = m.free /\ k.pte = m.pte
    <3>1. [m.ref EXCEPT ![p] = @ - 1] \in [Page -> 0..(RefMod - 1)]
      BY <1>1, <1>3, RefAssumption
    <3> QED BY <1>1, <3>1 DEF Memory
  <2>2. d \in Memory /\ d.pte = m.pte
    <3>1. d = IF k.ref[p] = 0 THEN page_free(k, p) ELSE k
      BY <1>1, <1>3 DEF page_decref
    <3> HIDE DEF k, d
    <3>2. CASE k.ref[p] = 0
      <4>1. d = [k EXCEPT !.free = <<p>> \o @]
        BY <3>1, <3>2 DEF page_free
      <4>2. <<p>> \o k.free \in Seq(Page)
        BY <1>1, <2>1
      <4> QED BY <2>1, <4>1, <4>2 DEF Memory
    <3>3. CASE k.ref[p] # 0
      BY <2>1, <3>1, <3>3
    <3> QED BY <3>2, <3>3
  <2>3. n = [d EXCEPT !.pte[s] = Unmapped]
    BY <1>1 DEF cleared, s
  <2> HIDE DEF k, d
  <2>4. [d.pte EXCEPT ![s] = Unmapped] \in [Slot -> Entry]
    BY <1>1, <2>2, LayoutAssumption DEF Entry, Unmapped
  <2> QED BY <2>2, <2>3, <2>4 DEF Memory
<1>6. Refs(n, p) = Refs(m, p) \ {s}
  BY <1>1, <1>4 DEF Refs, Unmapped
<1>7. CountExact(n, p)
  <2>1. Cardinality(Refs(n, p)) = Cardinality(Refs(m, p)) - 1
    <3>1. IsFiniteSet(Refs(m, p))
      BY RefsFinite
    <3>2. Cardinality(Refs(m, p) \ {s}) = Cardinality(Refs(m, p)) - 1
      BY <1>2, <3>1, FS_RemoveElement
    <3> QED BY <1>6, <3>2
  <2> QED BY <1>1, <1>3, <1>4, <2>1 DEF CountExact
<1>8. ASSUME NEW r \in Page, r # p PROVE CountExact(n, r) /\ n.ref[r] = m.ref[r] /\ Refs(n, r) = Refs(m, r)
  <2>1. n.ref[r] = m.ref[r] /\ CountExact(m, r)
    BY <1>1, <1>4, <1>8 DEF Counted
  <2>2. Refs(n, r) = Refs(m, r)
    <3>1. r # Null
      BY LayoutAssumption
    <3>2. \A x \in Slot : n.pte[x].page = r <=> m.pte[x].page = r
      <4>1. Unmapped.page # r
        BY <3>1 DEF Unmapped
      <4> QED BY <1>1, <1>4, <1>8, <4>1
    <3> QED BY <3>2 DEF Refs
  <2> QED BY <1>4, <2>1, <2>2 DEF CountExact
<1>9. FreeOnce(n) /\ OnFreeList(n) \subseteq OnFreeList(m) \cup {p}
  <2>1. CASE m.ref[p] - 1 # 0
    <3>1. n.free = m.free /\ OnFreeList(n) = OnFreeList(m)
      BY <1>4, <2>1 DEF OnFreeList
    <3>2. \A r \in OnFreeList(m) : r \in Page /\ r # p
      BY <1>1, <1>3 DEF OnFreeList
    <3> QED BY <1>8, <3>1, <3>2 DEF FreeOnce, Counted
  <2>2. CASE m.ref[p] - 1 = 0
    <3>1. n.free = <<p>> \o m.free
      BY <1>4, <2>2
    <3>2. /\ Len(m.free) \in Nat /\ DOMAIN m.free = 1..Len(m.free)
          /\ DOMAIN n.free = 1..(Len(m.free) + 1)
          /\ n.free[1] = p
          /\ \A i \in 2..(Len(m.free) + 1) : n.free[i] = m.free[i - 1] /\ i - 1 \in DOMAIN m.free
      BY <1>1, <3>1
    <3>3. OnFreeList(n) \subseteq OnFreeList(m) \cup {p}
      BY <3>2 DEF OnFreeList
    <3>4. ASSUME NEW i \in DOMAIN n.free, NEW j \in DOMAIN n.free, n.free[i] = n.free[j]
          PROVE  i = j
      <4>1. CASE i = 1 \/ j = 1
        <5>1. \A k \in DOMAIN n.free : k # 1 => n.free[k] \in OnFreeList(m)
          <6> SUFFICES ASSUME NEW k \in DOMAIN n.free, k # 1 PROVE n.free[k] \in OnFreeList(m)
            OBVIOUS
          <6>1. k \in 2..(Len(m.free) + 1)
            BY <3>2
          <6> QED BY <3>2, <6>1 DEF OnFreeList
        <5> QED BY <1>3, <3>2, <3>4, <4>1, <5>1
      <4>2. CASE i # 1 /\ j # 1
        <5>1. m.free[i - 1] = m.free[j - 1] /\ i - 1 \in DOMAIN m.free /\ j - 1 \in DOMAIN m.free
          <6>1. i \in 2..(Len(m.free) + 1) /\ j \in 2..(Len(m.free) + 1)
            BY <3>2, <3>4, <4>2
          <6> QED BY <3>2, <3>4, <6>1
        <5>2. i - 1 = j - 1
          BY <5>1 DEF Counted, FreeOnce
        <5> QED BY <3>2, <5>2
      <4> QED BY <4>1, <4>2
    <3>5. ASSUME NEW r \in OnFreeList(n) PROVE n.ref[r] = 0 /\ Refs(n, r) = {}
      <4>1. CASE r = p
        <5>1. n.ref[p] = 0
          BY <1>1, <1>4, <2>2
        <5>2. Cardinality(Refs(n, p)) = 0
          <6>1. IsFiniteSet(Refs(m, p))
            BY RefsFinite
          <6> QED BY <1>2, <1>3, <1>6, <2>2, <6>1, FS_RemoveElement
        <5> QED BY <4>1, <5>1, <5>2, RefsFinite
      <4>2. CASE r # p
        <5>1. r \in OnFreeList(m)
          BY <3>3, <3>5, <4>2
        <5>2. OnFreeList(m) \subseteq Page
          BY <1>1 DEF OnFreeList
        <5> QED BY <1>8, <4>2, <5>1, <5>2 DEF Counted, FreeOnce
      <4> QED BY <4>1, <4>2
    <3> QED BY <3>3, <3>4, <3>5 DEF FreeOnce
  <2> QED BY <2>1, <2>2
<1>10. Counted(n)
  BY <1>4, <1>5, <1>7, <1>8, <1>9 DEF Counted, OverHeld
<1> QED BY <1>4, <1>8, <1>9, <1>10 DEF s

\* tlb_invalidate touches nothing but the TLB.
LEMMA Invalidate ==
    ASSUME NEW m, Counted(m), NEW a, NEW v, NEW n, n = tlb_invalidate(m, a, v)
    PROVE  /\ Counted(n)
           /\ n.pte = m.pte /\ n.ref = m.ref /\ n.free = m.free /\ n.over = m.over
           /\ n.tlb = {t \in m.tlb : t.asid # a \/ t.vpn # v}
<1>1. m \in Memory
  BY DEF Counted
<1>2. /\ n.pte = m.pte /\ n.ref = m.ref /\ n.free = m.free /\ n.ok = m.ok
      /\ n.over = m.over
      /\ n.tlb = {t \in m.tlb : t.asid # a \/ t.vpn # v}
      /\ n = [m EXCEPT !.tlb = n.tlb]
  BY <1>1 DEF tlb_invalidate, Memory
<1>3. n \in Memory
  <2>1. n.tlb \in SUBSET TlbEntry
    BY <1>1, <1>2 DEF Memory
  <2> QED BY <1>1, <1>2, <2>1 DEF Memory
<1>4. FreeOnce(n) /\ OverHeld(n) /\ \A p \in Page : CountExact(n, p)
  BY <1>2 DEF FreeOnce, CountExact, OverHeld, OnFreeList, Refs, Counted
<1> QED BY <1>2, <1>3, <1>4 DEF Counted

\* What the type of a memory says of its entries.
LEMMA EntryTypes ==
    ASSUME NEW m, Counted(m)
    PROVE  /\ m.pte \in [Slot -> Entry]
           /\ \A e \in Env, v \in Vpn : /\ <<e, v>> \in Slot
                                        /\ m.pte[<<e, v>>] \in Entry
                                        /\ m.pte[<<e, v>>].page \in Page \cup {Null}
           /\ \A t \in m.tlb : t.vpn \in Vpn /\ t.page \in Page /\ t.page # Null
           /\ Unmapped \in Entry /\ Unmapped.page = Null
BY LayoutAssumption DEF Counted, Memory, Slot, Entry, TlbEntry, Unmapped

\* What clearing the entry <<e, v>> of m leaves.
ClearedFrom(n, m, e, v) ==
    /\ n.pte = [m.pte EXCEPT ![<<e, v>>] = Unmapped]
    /\ OnFreeList(n) \subseteq OnFreeList(m) \cup {m.pte[<<e, v>>].page}
    /\ \A r \in Page : r # m.pte[<<e, v>>].page => n.ref[r] = m.ref[r]

\* An entry is cleared, and the TLB forgets it: a page of the user, an empty table,
\* or the directory when nothing else is mapped, and then the environment is gone.
LEMMA ClearedInv ==
    ASSUME NEW m, NEW l \in SUBSET Env, NEW asid, MemInv(m, l, asid), AsidsDistinct(l, asid),
           ~m.over, NEW e \in l, NEW v \in Vpn, m.pte[<<e, v>>].page # Null,
           \A w \in Vpn : PDX[w] = v /\ w # v => m.pte[<<e, w>>].page = Null,
           NEW n, n = tlb_invalidate(cleared(m, e, v), asid[e], v)
    PROVE  /\ MemInv(n, IF v = Dir THEN l \ {e} ELSE l, asid) /\ ~n.over
           /\ ClearedFrom(n, m, e, v)
<1> DEFINE c == cleared(m, e, v)
           p == m.pte[<<e, v>>].page
           k == IF v = Dir THEN l \ {e} ELSE l
<1>1. /\ Counted(m) /\ p \in Page /\ e \in Env
      /\ m.pte \in [Slot -> Entry] /\ <<e, v>> \in Slot /\ Unmapped.page = Null
  BY EntryTypes DEF MemInv
<1>2. /\ Counted(c) /\ ~c.over /\ c.tlb = m.tlb
      /\ c.pte = [m.pte EXCEPT ![<<e, v>>] = Unmapped]
      /\ OnFreeList(c) \subseteq OnFreeList(m) \cup {p}
      /\ \A r \in Page \ {p} : c.ref[r] = m.ref[r]
  BY <1>1, Unlink
<1>3. /\ Counted(n) /\ n.ref = c.ref /\ n.free = c.free /\ ~n.over
      /\ n.pte = [m.pte EXCEPT ![<<e, v>>] = Unmapped]
      /\ n.tlb = {t \in m.tlb : t.asid # asid[e] \/ t.vpn # v}
  BY <1>2, Invalidate
<1>4. OnFreeList(n) = OnFreeList(c)
  BY <1>3 DEF OnFreeList
<1> HIDE DEF c, p
<1>5. \A f \in Env, w \in Vpn : /\ <<f, w>> \in Slot
                                /\ n.pte[<<f, w>>] = IF f = e /\ w = v THEN Unmapped ELSE m.pte[<<f, w>>]
  BY <1>1, <1>3 DEF Slot
<1>6. v = Dir => \A w \in Vpn : w # Dir => m.pte[<<e, w>>].page = Null
  <2> SUFFICES ASSUME v = Dir, NEW w \in Vpn, w # Dir PROVE m.pte[<<e, w>>].page = Null
    OBVIOUS
  <2>1. PDX[w] \in Vpn /\ (PDX[w] # Dir => PDX[PDX[w]] = Dir)
    BY LayoutAssumption DEF Vpn
  <2>2. m.pte[<<e, w>>].page # Null => m.pte[<<e, PDX[w]>>].page # Null
    BY <1>1 DEF MemInv, TablesMapped
  <2> QED BY <2>1, <2>2
<1>7. TablesMapped(n, k)
  <2> SUFFICES ASSUME NEW f \in Env, NEW w \in Vpn, n.pte[<<f, w>>].page # Null
               PROVE  n.pte[<<f, PDX[w]>>].page # Null /\ (w # Dir => f \in k)
    BY DEF TablesMapped
  <2>1. m.pte[<<f, w>>].page # Null /\ ~(f = e /\ w = v)
    BY <1>1, <1>5
  <2>2. m.pte[<<f, PDX[w]>>].page # Null /\ (w # Dir => f \in l) /\ PDX[w] \in Vpn
    BY <2>1, LayoutAssumption DEF MemInv, TablesMapped, Vpn
  <2>3. ~(f = e /\ PDX[w] = v)
    BY <2>1
  <2>4. w # Dir => f \in k
    BY <1>6, <2>1, <2>2
  <2> QED BY <1>5, <2>2, <2>3, <2>4
<1>8. DirMapped(n, k)
  <2> SUFFICES ASSUME NEW f \in k PROVE n.pte[<<f, Dir>>].page # Null
    BY DEF DirMapped
  <2>1. f \in l /\ f \in Env /\ Dir \in Vpn /\ ~(f = e /\ Dir = v)
    BY DEF Vpn
  <2> QED BY <1>5, <2>1 DEF MemInv, DirMapped
<1>9. DirPrivate(n)
  <2> SUFFICES ASSUME NEW f \in Env, NEW s \in Slot, n.pte[<<f, Dir>>].page # Null,
                      n.pte[s].page = n.pte[<<f, Dir>>].page
               PROVE  s = <<f, Dir>>
    BY DEF DirPrivate
  <2>1. Dir \in Vpn /\ <<f, Dir>> \in Slot
    BY DEF Vpn, Slot
  <2>2. s # <<e, v>> /\ <<f, Dir>> # <<e, v>>
    BY <1>1, <1>3, <2>1
  <2>3. n.pte[s] = m.pte[s] /\ n.pte[<<f, Dir>>] = m.pte[<<f, Dir>>]
    BY <1>1, <1>3, <2>1, <2>2
  <2> QED BY <2>3 DEF MemInv, DirPrivate
<1>10. Coherent(n, k, asid)
  <2> SUFFICES ASSUME NEW t \in n.tlb
               PROVE  /\ \E f \in k : asid[f] = t.asid
                      /\ \A f \in k : asid[f] = t.asid =>
                            n.pte[<<f, t.vpn>>] = [page |-> t.page, perm |-> t.perm]
    BY DEF Coherent
  <2>1. t \in m.tlb /\ (t.asid # asid[e] \/ t.vpn # v)
    BY <1>3
  <2>2. PICK f \in l : asid[f] = t.asid
    BY <2>1 DEF MemInv, Coherent
  <2>3. \A g \in l : asid[g] = t.asid => m.pte[<<g, t.vpn>>] = [page |-> t.page, perm |-> t.perm]
    BY <2>1 DEF MemInv, Coherent
  <2>4. t.vpn \in Vpn /\ t.page # Null
    BY <1>1, <2>1, EntryTypes
  <2>5. v = Dir => f # e
    <3> SUFFICES ASSUME v = Dir, f = e PROVE FALSE
      OBVIOUS
    <3>1. m.pte[<<e, t.vpn>>].page = t.page
      BY <2>2, <2>3
    <3> QED BY <1>6, <2>1, <2>2, <2>4, <3>1
  <2>6. f \in k
    BY <2>2, <2>5
  <2>7. \A g \in k : asid[g] = t.asid => ~(g = e /\ t.vpn = v)
    BY <2>1
  <2> QED BY <1>5, <2>2, <2>3, <2>4, <2>6, <2>7
<1>11. MemInv(n, k, asid)
  BY <1>3, <1>7, <1>8, <1>9, <1>10 DEF MemInv
<1>12. ClearedFrom(n, m, e, v)
  BY <1>2, <1>3, <1>4 DEF p, ClearedFrom
<1> QED BY <1>3, <1>11, <1>12

\* A page that may get one more entry: it is not free, it is counted, and it is no
\* page directory.
Holdable(m, p) ==
    /\ p \in Page /\ p \notin OnFreeList(m)
    /\ m.ref[p] = 0 \/ Refs(m, p) # {}
    /\ \A f \in Env : m.pte[<<f, Dir>>].page # p

\* A page is entered in a table that is mapped.
LEMMA EnteredInv ==
    ASSUME NEW m, NEW l \in SUBSET Env, NEW asid, MemInv(m, l, asid), ~m.over,
           NEW e \in l, NEW v \in Vpn, v # Dir,
           m.pte[<<e, v>>].page = Null, m.pte[<<e, PDX[v]>>].page # Null,
           NEW p, Holdable(m, p), NEW perm \in Perms,
           NEW n, n = entered(m, e, v, p, perm)
    PROVE  MemInv(n, l, asid) /\ EnteredFrom(n, m, e, v, p, perm)
<1>1. /\ Counted(m) /\ p \in Page /\ p # Null /\ e \in Env
      /\ m.pte \in [Slot -> Entry] /\ <<e, v>> \in Slot
  BY EntryTypes, LayoutAssumption DEF MemInv, Holdable
<1>2. /\ Counted(n) /\ n.tlb = m.tlb /\ EnteredFrom(n, m, e, v, p, perm)
      /\ n.pte = [m.pte EXCEPT ![<<e, v>>] = [page |-> p, perm |-> perm]]
  <2>1. p \notin OnFreeList(m) /\ (m.ref[p] = 0 \/ Refs(m, p) # {})
    BY DEF Holdable
  <2>2. Counted(n) /\ n.tlb = m.tlb /\ EnteredFrom(n, m, e, v, p, perm)
    BY <1>1, <2>1, Link
  <2> QED BY <2>2 DEF EnteredFrom
<1>3. \A f \in Env, w \in Vpn :
         n.pte[<<f, w>>] = IF f = e /\ w = v THEN [page |-> p, perm |-> perm] ELSE m.pte[<<f, w>>]
  BY <1>1, <1>2 DEF Slot
<1>4. Dir \in Vpn /\ \A w \in Vpn : PDX[w] \in Vpn
  BY LayoutAssumption DEF Vpn
<1>5. TablesMapped(n, l)
  <2> SUFFICES ASSUME NEW f \in Env, NEW w \in Vpn, n.pte[<<f, w>>].page # Null
               PROVE  n.pte[<<f, PDX[w]>>].page # Null /\ (w # Dir => f \in l)
    BY DEF TablesMapped
  <2>1. CASE f = e /\ w = v
    BY <1>1, <1>3, <1>4, <2>1
  <2>2. CASE ~(f = e /\ w = v)
    <3>1. m.pte[<<f, PDX[w]>>].page # Null /\ (w # Dir => f \in l)
      BY <1>3, <2>2 DEF MemInv, TablesMapped
    <3> QED BY <1>1, <1>3, <1>4, <3>1
  <2> QED BY <2>1, <2>2
<1>6. DirMapped(n, l)
  <2> SUFFICES ASSUME NEW f \in l PROVE n.pte[<<f, Dir>>].page # Null
    BY DEF DirMapped
  <2>1. n.pte[<<f, Dir>>] = m.pte[<<f, Dir>>]
    BY <1>3, <1>4
  <2> QED BY <2>1 DEF MemInv, DirMapped
<1>7. DirPrivate(n)
  <2> SUFFICES ASSUME NEW f \in Env, NEW s \in Slot, n.pte[<<f, Dir>>].page # Null,
                      n.pte[s].page = n.pte[<<f, Dir>>].page
               PROVE  s = <<f, Dir>>
    BY DEF DirPrivate
  <2>1. n.pte[<<f, Dir>>] = m.pte[<<f, Dir>>] /\ m.pte[<<f, Dir>>].page # p
    BY <1>3, <1>4 DEF Holdable
  <2>2. s # <<e, v>>
    BY <1>1, <1>2, <2>1
  <2>3. n.pte[s] = m.pte[s]
    BY <1>1, <1>2, <2>2
  <2> QED BY <2>1, <2>3 DEF MemInv, DirPrivate
<1>8. Coherent(n, l, asid)
  <2> SUFFICES ASSUME NEW t \in n.tlb
               PROVE  /\ \E f \in l : asid[f] = t.asid
                      /\ \A f \in l : asid[f] = t.asid =>
                            n.pte[<<f, t.vpn>>] = [page |-> t.page, perm |-> t.perm]
    BY DEF Coherent
  <2>1. /\ \E f \in l : asid[f] = t.asid
        /\ \A f \in l : asid[f] = t.asid => m.pte[<<f, t.vpn>>] = [page |-> t.page, perm |-> t.perm]
    BY <1>2 DEF MemInv, Coherent
  <2>2. t.vpn \in Vpn /\ t.page # Null
    BY <1>1, <1>2, EntryTypes
  <2>3. \A f \in l : asid[f] = t.asid => ~(f = e /\ t.vpn = v)
    BY <2>1, <2>2
  <2> QED BY <1>3, <2>1, <2>2, <2>3
<1> QED BY <1>2, <1>5, <1>6, <1>7, <1>8 DEF MemInv

\* page_alloc keeps the invariant, and the page it takes may be entered anywhere.
LEMMA TakeInv ==
    ASSUME NEW m, NEW l, NEW asid, MemInv(m, l, asid), CanAlloc(m)
    PROVE  /\ MemInv(page_alloc(m), l, asid)
           /\ page_alloc(m).pte = m.pte /\ page_alloc(m).over = m.over
           /\ Holdable(page_alloc(m), Fresh(m))
           /\ Refs(m, Fresh(m)) = {} /\ m.ref[Fresh(m)] = 0
<1> DEFINE n == page_alloc(m)
           p == Fresh(m)
<1>1. /\ Counted(n) /\ n.pte = m.pte /\ n.tlb = m.tlb /\ n.ref = m.ref /\ p \in Page
      /\ n.over = m.over
      /\ p \in OnFreeList(m) /\ p \notin OnFreeList(n)
  BY Take DEF MemInv
<1>2. Refs(m, p) = {} /\ m.ref[p] = 0
  BY <1>1, CountFacts DEF MemInv
<1>3. \A f \in Env : m.pte[<<f, Dir>>].page # p
  BY <1>2 DEF Refs, Slot, Vpn
<1> HIDE DEF n, p
<1>4. MemInv(n, l, asid)
  BY <1>1 DEF MemInv, TablesMapped, DirMapped, DirPrivate, Coherent
<1>5. Holdable(n, p)
  BY <1>1, <1>2, <1>3 DEF Holdable
<1> QED BY <1>1, <1>2, <1>4, <1>5 DEF n, p

-------------------------------------------------------------------------------
\* page_remove, of a page of a live environment.
LEMMA Remove ==
    ASSUME NEW m, NEW l \in SUBSET Env, MemInv(m, l, env_asid), AsidsDistinct(l, env_asid), ~m.over,
           NEW e \in l, NEW v \in Vpn, v \in Uva \/ page_lookup(m, e, v) = Null
    PROVE  LET n == page_remove(m, e, v) IN
           /\ MemInv(n, l, env_asid) /\ ~n.over
           /\ n.pte[<<e, v>>].page = Null /\ n.pte[<<e, PDX[v]>>] = m.pte[<<e, PDX[v]>>]
           /\ \A p : Holdable(m, p) /\ p # m.pte[<<e, v>>].page => Holdable(n, p)
<1> DEFINE n == page_remove(m, e, v)
<1> HIDE DEF n
<1>1. /\ e \in Env /\ Counted(m) /\ m.pte \in [Slot -> Entry] /\ <<e, v>> \in Slot
      /\ Unmapped.page = Null
  BY EntryTypes DEF MemInv
<1>2. page_lookup(m, e, v) = m.pte[<<e, v>>].page
  BY <1>1 DEF page_lookup, MemInv, TablesMapped
<1>3. CASE m.pte[<<e, v>>].page = Null
  BY <1>2, <1>3 DEF page_remove, n
<1>4. CASE m.pte[<<e, v>>].page # Null
  <2>1. v \in Uva /\ v # Dir /\ PDX[v] # v /\ PDX[v] \in Vpn /\ \A w \in Vpn : PDX[w] # v
    BY <1>2, <1>4, LayoutAssumption DEF Vpn
  <2>2. n = tlb_invalidate(cleared(m, e, v), env_asid[e], v)
    BY <1>2, <1>4 DEF page_remove, cleared, n
  <2>3. /\ MemInv(n, l, env_asid) /\ ~n.over
        /\ n.pte = [m.pte EXCEPT ![<<e, v>>] = Unmapped]
        /\ OnFreeList(n) \subseteq OnFreeList(m) \cup {m.pte[<<e, v>>].page}
        /\ \A r \in Page : r # m.pte[<<e, v>>].page => n.ref[r] = m.ref[r]
    <3>0. \A w \in Vpn : PDX[w] = v /\ w # v => m.pte[<<e, w>>].page = Null
      BY <2>1
    <3> HIDE <2>1
    <3>1. MemInv(n, IF v = Dir THEN l \ {e} ELSE l, env_asid) /\ ~n.over
      BY <1>4, <3>0, <2>2, ClearedInv
    <3>2. (IF v = Dir THEN l \ {e} ELSE l) = l
      BY <2>1
    <3>3. ClearedFrom(n, m, e, v)
      BY <1>4, <3>0, <2>2, ClearedInv
    <3> QED BY <3>1, <3>2, <3>3, Zenon DEF ClearedFrom
  <2>4. n.pte[<<e, v>>].page = Null /\ n.pte[<<e, PDX[v]>>] = m.pte[<<e, PDX[v]>>]
    BY <1>1, <2>1, <2>3 DEF Slot
  <2>5. ASSUME NEW p, Holdable(m, p), p # m.pte[<<e, v>>].page PROVE Holdable(n, p)
    <3>1. p \in Page /\ p \notin OnFreeList(n) /\ n.ref[p] = m.ref[p] /\ p # Null
      BY <2>3, <2>5, LayoutAssumption DEF Holdable
    <3>2. \A s \in Slot : n.pte[s].page = p <=> m.pte[s].page = p
      BY <1>1, <2>3, <2>5, <3>1
    <3>3. Refs(n, p) = Refs(m, p)
      BY <3>2 DEF Refs
    <3>4. \A f \in Env : n.pte[<<f, Dir>>].page # p
      BY <2>5, <3>2 DEF Holdable, Slot, Vpn
    <3> QED BY <2>5, <3>1, <3>3, <3>4 DEF Holdable
  <2> QED BY <2>3, <2>4, <2>5 DEF n
<1> QED BY <1>3, <1>4

\* pgdir_walk with a table, or a page for one: pages that could be entered still can.
LEMMA Walk ==
    ASSUME NEW m, NEW l \in SUBSET Env, MemInv(m, l, env_asid), ~m.over,
           NEW e \in l, NEW v \in Vpn, v # Dir, CanWalk(m, e, v)
    PROVE  LET n == pgdir_walk(m, e, v) IN
           /\ MemInv(n, l, env_asid) /\ ~n.over
           /\ n.pte[<<e, PDX[v]>>].page # Null /\ n.pte[<<e, v>>] = m.pte[<<e, v>>]
           /\ \A p : Holdable(m, p) => Holdable(n, p)
<1> DEFINE n == pgdir_walk(m, e, v)
           d == PDX[v]
<1>1. e \in Env /\ d \in Vpn /\ d # v /\ PDX[d] = Dir /\ Dir \in Vpn /\ PTE_D \in Perms
  BY LayoutAssumption DEF Vpn
<1>2. CASE m.pte[<<e, d>>].page # Null
  BY <1>2 DEF pgdir_walk
<1>3. CASE m.pte[<<e, d>>].page = Null
  <2> DEFINE c == page_alloc(m)
             q == Fresh(m)
  <2>1. CanAlloc(m)
    BY <1>3 DEF CanWalk
  <2>2. /\ MemInv(c, l, env_asid) /\ c.pte = m.pte /\ Holdable(c, q) /\ ~c.over
        /\ c.ref[q] = 0
    BY <2>1, Take, TakeInv DEF MemInv
  <2>3. n = entered(c, e, d, q, PTE_D)
    BY <1>3 DEF pgdir_walk, entered
  <2>4. d # Dir /\ c.pte[<<e, PDX[d]>>].page # Null
    BY <1>1, <1>3, <2>2 DEF MemInv, DirMapped
  <2>5. Counted(m) /\ Counted(c) /\ q \in OnFreeList(m) /\ OnFreeList(c) = OnFreeList(m) \ {q} /\ c.ref = m.ref
    BY <2>1, <2>2, Take DEF MemInv
  <2> HIDE DEF n, d, c, q
  <2>6. /\ MemInv(n, l, env_asid) /\ n.free = c.free /\ ~n.over
        /\ n.pte = [m.pte EXCEPT ![<<e, d>>] = [page |-> q, perm |-> PTE_D]]
        /\ n.ref = [m.ref EXCEPT ![q] = (m.ref[q] + 1) % RefMod]
    <3>1. c.pte[<<e, d>>].page = Null
      BY <1>3, <2>2
    <3>2. MemInv(n, l, env_asid) /\ EnteredFrom(n, c, e, d, q, PTE_D)
      BY <1>1, <2>2, <2>3, <2>4, <3>1, EnteredInv
    <3>3. c.ref[q] + 1 # RefMod
      BY <2>2, RefAssumption
    <3> QED BY <2>2, <2>5, <3>2, <3>3 DEF EnteredFrom
  <2>7. m.pte \in [Slot -> Entry] /\ <<e, d>> \in Slot /\ <<e, v>> \in Slot /\ <<e, d>> # <<e, v>>
        /\ q # Null /\ q \in Page /\ m.ref \in [Page -> 0..(RefMod - 1)]
    BY <1>1, <2>2, <2>5, EntryTypes, LayoutAssumption DEF Holdable, Slot, Counted, Memory
  <2>8. n.pte[<<e, d>>].page # Null /\ n.pte[<<e, v>>] = m.pte[<<e, v>>]
    BY <2>6, <2>7
  <2>9. ASSUME NEW p, Holdable(m, p) PROVE Holdable(n, p)
    <3>1. p \in Page /\ p # q /\ p \notin OnFreeList(n)
      BY <2>5, <2>6, <2>9 DEF Holdable, OnFreeList
    <3>2. n.ref[p] = m.ref[p]
      BY <2>6, <2>7, <3>1
    <3>3. p # Null
      BY <3>1, LayoutAssumption
    <3>4. \A s \in Slot : n.pte[s].page = p <=> m.pte[s].page = p
      BY <1>3, <2>6, <2>7, <3>1, <3>3
    <3>5. Refs(n, p) = Refs(m, p)
      BY <3>4 DEF Refs
    <3>6. \A f \in Env : n.pte[<<f, Dir>>].page # p
      BY <2>9, <3>4 DEF Holdable, Slot, Vpn
    <3> QED BY <2>9, <3>1, <3>2, <3>5, <3>6 DEF Holdable
  <2> QED BY <2>6, <2>8, <2>9 DEF n, d
<1> QED BY <1>2, <1>3

\* tlb_invalidate alone keeps the invariant.
LEMMA InvalidateInv ==
    ASSUME NEW m, NEW l, NEW asid, MemInv(m, l, asid), NEW a, NEW v
    PROVE  LET n == tlb_invalidate(m, a, v) IN
           /\ MemInv(n, l, asid) /\ n.pte = m.pte /\ n.over = m.over
           /\ \A p : Holdable(m, p) => Holdable(n, p)
<1> DEFINE n == tlb_invalidate(m, a, v)
<1>1. /\ Counted(n) /\ n.pte = m.pte /\ n.ref = m.ref /\ n.free = m.free
      /\ n.over = m.over
      /\ n.tlb = {t \in m.tlb : t.asid # a \/ t.vpn # v}
  BY Invalidate DEF MemInv
<1> HIDE DEF n
<1>2. MemInv(n, l, asid)
  BY <1>1 DEF MemInv, TablesMapped, DirMapped, DirPrivate, Coherent
<1>3. \A p : Holdable(m, p) => Holdable(n, p)
  BY <1>1 DEF Holdable, OnFreeList, Refs
<1> QED BY <1>1, <1>2, <1>3 DEF n

\* page_insert of a page that may be entered, and what it has done when it succeeds.
LEMMA Insert ==
    ASSUME NEW m, NEW l \in SUBSET Env, MemInv(m, l, env_asid), AsidsDistinct(l, env_asid), ~m.over,
           NEW e \in l, NEW v \in Vpn, v # Dir, v \in Uva \/ page_lookup(m, e, v) = Null,
           NEW p, Holdable(m, p), NEW perm \in Perms
    PROVE  LET n == page_insert(m, e, p, v, perm) IN
           /\ MemInv(n, l, env_asid)
           /\ Inserts(m, e, p, v) => n.pte[<<e, v>>] = [page |-> p, perm |-> perm]
<1> DEFINE n == page_insert(m, e, p, v, perm)
<1>1. /\ e \in Env /\ Counted(m) /\ m.pte \in [Slot -> Entry] /\ <<e, v>> \in Slot
      /\ p \in Page /\ p # Null
  BY EntryTypes, LayoutAssumption DEF MemInv, Holdable
<1>2. page_lookup(m, e, v) = m.pte[<<e, v>>].page
  BY <1>1 DEF page_lookup, MemInv, TablesMapped
<1>3. CASE page_lookup(m, e, v) = p
  <2> DEFINE c == tlb_invalidate(m, env_asid[e], v)
  <2>1. /\ Counted(c) /\ c.pte = m.pte /\ c.free = m.free /\ c.ref = m.ref /\ ~c.over
        /\ c.tlb = {t \in m.tlb : t.asid # env_asid[e] \/ t.vpn # v}
    BY Invalidate DEF MemInv
  <2>2. n = [c EXCEPT !.pte[<<e, v>>] = [page |-> p, perm |-> perm]]
    BY <1>3 DEF page_insert
  <2> HIDE DEF c, n
  <2>3. /\ n.pte = [m.pte EXCEPT ![<<e, v>>] = [page |-> p, perm |-> perm]]
        /\ n.tlb = c.tlb /\ n.free = m.free /\ n.ref = m.ref /\ n.ok = c.ok
        /\ n.over = c.over
        /\ n = [c EXCEPT !.pte = n.pte]
    BY <2>1, <2>2 DEF Counted, Memory
  <2>4. n \in Memory
    <3>1. n.pte \in [Slot -> Entry]
      BY <1>1, <2>3 DEF Entry
    <3> QED BY <2>1, <2>3, <3>1 DEF Counted, Memory
  <2>5. \A s \in Slot : n.pte[s].page = m.pte[s].page
    <3>1. m.pte[<<e, v>>].page = p
      BY <1>2, <1>3
    <3>2. n.pte[<<e, v>>].page = p
      BY <1>1, <2>3
    <3>3. \A s \in Slot : s # <<e, v>> => n.pte[s] = m.pte[s]
      BY <1>1, <2>3
    <3> QED BY <3>1, <3>2, <3>3
  <2>6. Counted(n)
    <3>1. \A q : Refs(n, q) = Refs(m, q)
      BY <2>5 DEF Refs
    <3> QED BY <2>1, <2>3, <2>4, <3>1 DEF Counted, FreeOnce, CountExact, OverHeld, OnFreeList, MemInv
  <2>7. \A f \in Env, w \in Vpn : <<f, w>> \in Slot /\ PDX[w] \in Vpn
    BY LayoutAssumption DEF Slot, Vpn
  <2>8. TablesMapped(n, l)
    BY <2>5, <2>7 DEF MemInv, TablesMapped
  <2>9. DirMapped(n, l) /\ DirPrivate(n)
    BY <2>5, <2>7 DEF MemInv, DirMapped, DirPrivate, Vpn
  <2>10. Coherent(n, l, env_asid)
    <3> SUFFICES ASSUME NEW t \in n.tlb
                 PROVE  /\ \E f \in l : env_asid[f] = t.asid
                        /\ \A f \in l : env_asid[f] = t.asid =>
                              n.pte[<<f, t.vpn>>] = [page |-> t.page, perm |-> t.perm]
      BY DEF Coherent
    <3>1. t \in m.tlb /\ (t.asid # env_asid[e] \/ t.vpn # v)
      BY <2>1, <2>3
    <3>2. t.vpn \in Vpn
      BY <1>1, <3>1, EntryTypes
    <3>3. \A f \in l : env_asid[f] = t.asid => n.pte[<<f, t.vpn>>] = m.pte[<<f, t.vpn>>]
      BY <1>1, <2>3, <2>7, <3>1, <3>2
    <3> QED BY <3>1, <3>3 DEF MemInv, Coherent
  <2>11. n.pte[<<e, v>>] = [page |-> p, perm |-> perm]
    BY <1>1, <2>3
  <2> QED BY <2>6, <2>8, <2>9, <2>10, <2>11 DEF MemInv, n
<1>4. CASE page_lookup(m, e, v) # p
  <2> DEFINE r == page_remove(m, e, v)
             c == Vacated(m, e, v)
             w == pgdir_walk(c, e, v)
  <2>1. /\ MemInv(r, l, env_asid) /\ ~r.over /\ r.pte[<<e, v>>].page = Null
        /\ r.pte[<<e, PDX[v]>>] = m.pte[<<e, PDX[v]>>] /\ Holdable(r, p)
    BY <1>2, <1>4, Remove
  <2>2. c = tlb_invalidate(r, env_asid[e], v)
    BY DEF Vacated
  <2> HIDE DEF r, c, w
  <2>3. MemInv(c, l, env_asid) /\ ~c.over /\ c.pte = r.pte /\ Holdable(c, p)
    BY <2>1, <2>2, InvalidateInv
  <2>4. CASE ~CanWalk(c, e, v)
    <3>1. n = c /\ ~Inserts(m, e, p, v)
      BY <1>4, <2>4 DEF page_insert, Inserts, c
    <3> HIDE DEF n
    <3> QED BY <2>3, <3>1 DEF n
  <2>5. CASE CanWalk(c, e, v)
    <3>1. n = entered(w, e, v, p, perm)
      BY <1>4, <2>5 DEF page_insert, entered, w, c
    <3> HIDE DEF n
    <3>2. /\ MemInv(w, l, env_asid) /\ ~w.over /\ w.pte[<<e, PDX[v]>>].page # Null
          /\ w.pte[<<e, v>>] = c.pte[<<e, v>>] /\ Holdable(w, p)
      BY <2>3, <2>5, Walk DEF w
    <3>3. w.pte[<<e, v>>].page = Null
      BY <2>1, <2>3, <3>2
    <3>4. MemInv(n, l, env_asid) /\ n.pte = [w.pte EXCEPT ![<<e, v>>] = [page |-> p, perm |-> perm]]
      <4>1. MemInv(w, l, env_asid) /\ ~w.over /\ w.pte[<<e, PDX[v]>>].page # Null /\ Holdable(w, p)
        BY <3>2
      <4>2. MemInv(n, l, env_asid) /\ EnteredFrom(n, w, e, v, p, perm)
        BY <3>1, <3>3, <4>1, EnteredInv
      <4> QED BY <4>2 DEF EnteredFrom
    <3>5. w.pte \in [Slot -> Entry]
      BY <3>2, EntryTypes DEF MemInv
    <3> QED BY <1>1, <3>4, <3>5 DEF n
  <2> QED BY <2>4, <2>5
<1> QED BY <1>3, <1>4

\* env_setup_vm, in a slot that is not in use.  A directory that an earlier env_alloc
\* left there loses its entry and keeps its count.
LEMMA Setup ==
    ASSUME NEW m, NEW l \in SUBSET Env, NEW asid, MemInv(m, l, asid), ~m.over,
           NEW e \in Env, e \notin l, CanAlloc(m)
    PROVE  LET n == env_setup_vm(m, e) IN
           /\ MemInv(n, l, asid)
           /\ n.pte[<<e, Dir>>].page # Null
           /\ n.tlb = m.tlb
<1> DEFINE n == env_setup_vm(m, e)
           c == page_alloc(m)
           p == Fresh(m)
<1>1. MemInv(c, l, asid) /\ c.pte = m.pte /\ Holdable(c, p)
  BY TakeInv
<1>2. Counted(c) /\ c.tlb = m.tlb /\ ~c.over
  BY Take DEF MemInv
<1>3. n = entered(c, e, Dir, p, PTE_V)
  BY DEF env_setup_vm, entered
<1> HIDE DEF n, c, p
<1>4. /\ c.pte \in [Slot -> Entry] /\ Dir \in Vpn /\ <<e, Dir>> \in Slot /\ PTE_V \in Perms
      /\ p \in Page /\ p # Null /\ p \notin OnFreeList(c) /\ (c.ref[p] = 0 \/ Refs(c, p) # {})
      /\ \A f \in Env : c.pte[<<f, Dir>>].page # p
      /\ \A w \in Vpn : PDX[w] \in Vpn
  BY <1>1, <1>2, EntryTypes, LayoutAssumption DEF Holdable, Slot, Vpn
<1>5. \/ c.pte[<<e, Dir>>].page = Null
      \/ c.pte[<<e, Dir>>].page # p /\ Refs(c, c.pte[<<e, Dir>>].page) = {<<e, Dir>>}
  BY <1>1, <1>4 DEF MemInv, DirPrivate, Refs
<1>6. /\ Counted(n) /\ n.tlb = c.tlb
      /\ n.pte = [c.pte EXCEPT ![<<e, Dir>>] = [page |-> p, perm |-> PTE_V]]
  <2>1. Counted(n) /\ n.tlb = c.tlb /\ EnteredFrom(n, c, e, Dir, p, PTE_V)
    BY <1>2, <1>3, <1>4, <1>5, Link
  <2> QED BY <2>1 DEF EnteredFrom
<1>7. \A f \in Env, w \in Vpn :
         n.pte[<<f, w>>] = IF f = e /\ w = Dir THEN [page |-> p, perm |-> PTE_V] ELSE c.pte[<<f, w>>]
  BY <1>4, <1>6 DEF Slot
<1>8. TablesMapped(n, l)
  <2> SUFFICES ASSUME NEW f \in Env, NEW w \in Vpn, n.pte[<<f, w>>].page # Null
               PROVE  n.pte[<<f, PDX[w]>>].page # Null /\ (w # Dir => f \in l)
    BY DEF TablesMapped
  <2>1. CASE f = e /\ w = Dir
    BY <1>4, <1>7, <2>1, LayoutAssumption
  <2>2. CASE ~(f = e /\ w = Dir)
    <3>1. c.pte[<<f, PDX[w]>>].page # Null /\ (w # Dir => f \in l)
      BY <1>1, <1>7, <2>2 DEF MemInv, TablesMapped
    <3> QED BY <1>4, <1>7, <3>1
  <2> QED BY <2>1, <2>2
<1>9. DirMapped(n, l)
  <2> SUFFICES ASSUME NEW f \in l PROVE n.pte[<<f, Dir>>].page # Null
    BY DEF DirMapped
  <2>1. n.pte[<<f, Dir>>] = c.pte[<<f, Dir>>]
    BY <1>4, <1>7
  <2> QED BY <1>1, <2>1 DEF MemInv, DirMapped
<1>10. DirPrivate(n)
  <2> SUFFICES ASSUME NEW f \in Env, NEW s \in Slot, n.pte[<<f, Dir>>].page # Null,
                      n.pte[s].page = n.pte[<<f, Dir>>].page
               PROVE  s = <<f, Dir>>
    BY DEF DirPrivate
  <2>1. CASE f = e
    <3>1. n.pte[s].page = p
      BY <1>4, <1>7, <2>1
    <3>2. \A x \in Slot : c.pte[x].page # p
      BY <1>1, TakeInv DEF Refs, c, p
    <3> QED BY <1>4, <1>6, <2>1, <3>1, <3>2
  <2>2. CASE f # e
    <3>1. n.pte[<<f, Dir>>] = c.pte[<<f, Dir>>] /\ c.pte[<<f, Dir>>].page # p
      BY <1>4, <1>7, <2>2
    <3>2. s # <<e, Dir>>
      BY <1>4, <1>6, <3>1
    <3>3. n.pte[s] = c.pte[s]
      BY <1>4, <1>6, <3>2
    <3> QED BY <1>1, <3>1, <3>3 DEF MemInv, DirPrivate
  <2> QED BY <2>1, <2>2
<1>11. Coherent(n, l, asid)
  <2> SUFFICES ASSUME NEW t \in n.tlb
               PROVE  /\ \E f \in l : asid[f] = t.asid
                      /\ \A f \in l : asid[f] = t.asid =>
                            n.pte[<<f, t.vpn>>] = [page |-> t.page, perm |-> t.perm]
    BY DEF Coherent
  <2>1. /\ \E f \in l : asid[f] = t.asid
        /\ \A f \in l : asid[f] = t.asid => c.pte[<<f, t.vpn>>] = [page |-> t.page, perm |-> t.perm]
    BY <1>1, <1>6 DEF MemInv, Coherent
  <2>2. t.vpn \in Vpn
    BY <1>2, <1>6, EntryTypes
  <2> QED BY <1>7, <2>1, <2>2
<1>12. n.pte[<<e, Dir>>].page # Null
  BY <1>4, <1>7
<1>13. MemInv(n, l, asid)
  BY <1>6, <1>8, <1>9, <1>10, <1>11 DEF MemInv
<1> QED BY <1>2, <1>6, <1>12, <1>13 DEF n

\* The slot becomes live with an ASID no live environment has, hence none in the TLB.
LEMMA Start ==
    ASSUME NEW m, NEW l \in SUBSET Env, NEW asid \in [Env -> Asid], MemInv(m, l, asid),
           NEW e \in Env, e \notin l, m.pte[<<e, Dir>>].page # Null,
           NEW a, \A f \in l : asid[f] # a,
           NEW b, b = [asid EXCEPT ![e] = a]
    PROVE  MemInv(m, l \cup {e}, b)
<1>1. b[e] = a /\ \A f \in l : b[f] = asid[f]
  OBVIOUS
<1>2. TablesMapped(m, l \cup {e}) /\ DirMapped(m, l \cup {e})
  BY DEF MemInv, TablesMapped, DirMapped
<1>3. Coherent(m, l \cup {e}, b)
  <2> SUFFICES ASSUME NEW t \in m.tlb
               PROVE  /\ \E f \in l \cup {e} : b[f] = t.asid
                      /\ \A f \in l \cup {e} : b[f] = t.asid =>
                            m.pte[<<f, t.vpn>>] = [page |-> t.page, perm |-> t.perm]
    BY DEF Coherent
  <2>1. /\ \E f \in l : asid[f] = t.asid
        /\ \A f \in l : asid[f] = t.asid => m.pte[<<f, t.vpn>>] = [page |-> t.page, perm |-> t.perm]
    BY DEF MemInv, Coherent
  <2>2. t.asid # a
    BY <2>1
  <2> QED BY <1>1, <2>1, <2>2
<1> QED BY <1>2, <1>3 DEF MemInv

-------------------------------------------------------------------------------
\* page_init establishes the invariant.
LEMMA InitIInv == Init => IInv
<1> SUFFICES ASSUME Init PROVE IInv
  OBVIOUS
<1>1. PICK order \in [1..Cardinality(Page) -> Page] :
         /\ \A i, j \in DOMAIN order : order[i] = order[j] => i = j
         /\ mem = [ref |-> [p \in Page |-> 0], free |-> order,
                   pte |-> [s \in Slot |-> Unmapped], tlb |-> {}, ok |-> TRUE, over |-> FALSE]
  BY DEF Init
<1>2. /\ mem.ref = [p \in Page |-> 0] /\ mem.free = order /\ mem.pte = [s \in Slot |-> Unmapped]
      /\ mem.tlb = {} /\ mem.ok = TRUE /\ mem.over = FALSE
  BY <1>1
<1>3. Unmapped \in Entry /\ Unmapped.page = Null
  BY LayoutAssumption DEF Unmapped, Entry
<1>4. mem \in Memory
  <2>1. Cardinality(Page) \in Nat
    BY LayoutAssumption, FS_CardinalityType
  <2>2. order \in Seq(Page)
    BY <2>1
  <2>3. [s \in Slot |-> Unmapped] \in [Slot -> Entry] /\ [p \in Page |-> 0] \in [Page -> 0..(RefMod - 1)]
    BY <1>3, RefAssumption
  <2> QED BY <1>1, <2>2, <2>3 DEF Memory
<1>5. TypeOK
  <2>1. [e \in Env |-> 0] \in [Env -> Asid]
    BY LayoutAssumption DEF Asid
  <2> QED BY <1>4, <2>1 DEF Init, TypeOK
<1>6. \A p \in Page : Refs(mem, p) = {}
  BY <1>2, <1>3, LayoutAssumption DEF Refs
<1>7. \A p \in Page : CountExact(mem, p)
  <2>1. Cardinality({}) = 0
    BY FS_EmptySet
  <2>2. \A p \in Page : mem.ref[p] = 0
    BY <1>2
  <2> QED BY <1>6, <2>1, <2>2 DEF CountExact
<1>8. FreeOnce(mem)
  <2>1. OnFreeList(mem) \subseteq Page
    BY <1>2 DEF OnFreeList
  <2> QED BY <1>1, <1>2, <1>6, <2>1 DEF FreeOnce
<1>9. \A s \in Slot : mem.pte[s].page = Null
  BY <1>2, <1>3
<1>10. Counted(mem)
  BY <1>2, <1>4, <1>7, <1>8 DEF Counted, OverHeld
<1>11. live = {} /\ freeing = Null
  BY DEF Init
<1>12. /\ TablesMapped(mem, live) /\ DirMapped(mem, live)
       /\ Coherent(mem, live, env_asid) /\ AsidsDistinct(live, env_asid)
  BY <1>2, <1>9, <1>11 DEF TablesMapped, DirMapped, Coherent, AsidsDistinct, Slot
<1>13. DirPrivate(mem)
  BY <1>9 DEF DirPrivate, Slot, Vpn
<1> QED BY <1>5, <1>10, <1>11, <1>12, <1>13 DEF IInv, MemInv

\* A step that changes the memory only, and keeps its invariant.
LEMMA MemStep ==
    ASSUME IInv, MemInv(mem', live, env_asid), UNCHANGED <<live, env_asid, freeing>>,
           halted' \in BOOLEAN
    PROVE  IInv'
<1>1. mem' \in Memory
  BY DEF MemInv, Counted
<1>2. TypeOK'
  BY <1>1 DEF IInv, TypeOK
<1>3. MemInv(mem', live', env_asid') /\ AsidsDistinct(live', env_asid')
  BY DEF IInv
<1> QED BY <1>2, <1>3 DEF IInv

\* A page found through the tables of a live environment, below UTOP, may be mapped again.
LEMMA MappedHoldable ==
    ASSUME IInv, NEW e \in live, NEW v \in Uva, page_lookup(mem, e, v) # Null
    PROVE  Holdable(mem, page_lookup(mem, e, v))
<1> DEFINE p == mem.pte[<<e, v>>].page
<1>1. e \in Env /\ v \in Vpn /\ v # Dir /\ Counted(mem) /\ live \subseteq Env
  BY LayoutAssumption DEF IInv, TypeOK, MemInv, Vpn
<1>2. page_lookup(mem, e, v) = p
  BY <1>1 DEF page_lookup, IInv, MemInv, TablesMapped
<1>3. p \in Page /\ <<e, v>> \in Slot
  BY <1>1, <1>2, EntryTypes
<1>4. <<e, v>> \in Refs(mem, p)
  BY <1>3 DEF Refs
<1>5. p \notin OnFreeList(mem)
  BY <1>1, <1>3, <1>4, CountFacts
<1>6. ASSUME NEW f \in Env, mem.pte[<<f, Dir>>].page = p PROVE FALSE
  <2>1. p # Null
    BY <1>3, LayoutAssumption
  <2>2. <<e, v>> = <<f, Dir>>
    BY <1>3, <1>6, <2>1 DEF IInv, MemInv, DirPrivate
  <2> QED BY <1>1, <2>2
<1> HIDE DEF p
<1> QED BY <1>2, <1>3, <1>4, <1>5, <1>6 DEF Holdable

\* _do_tlb_refill writes into the TLB what the table says.
LEMMA Refill ==
    ASSUME NEW m, NEW l \in SUBSET Env, NEW asid \in [Env -> Asid], MemInv(m, l, asid),
           AsidsDistinct(l, asid), NEW e \in l, NEW v \in Vpn, m.pte[<<e, v>>].page # Null,
           NEW n, n = [m EXCEPT !.tlb = @ \cup {[asid |-> asid[e], vpn |-> v,
                                                page |-> m.pte[<<e, v>>].page, perm |-> m.pte[<<e, v>>].perm]}]
    PROVE  MemInv(n, l, asid)
<1> DEFINE x == [asid |-> asid[e], vpn |-> v, page |-> m.pte[<<e, v>>].page, perm |-> m.pte[<<e, v>>].perm]
<1>1. Counted(m) /\ m \in Memory /\ e \in Env
  BY DEF MemInv, Counted
<1>2. /\ n.pte = m.pte /\ n.ref = m.ref /\ n.free = m.free /\ n.ok = m.ok /\ n.tlb = m.tlb \cup {x}
      /\ n.over = m.over
      /\ n = [m EXCEPT !.tlb = n.tlb]
  BY <1>1 DEF Memory
<1>3. m.pte[<<e, v>>] \in Entry /\ m.pte[<<e, v>>].page \in Page
  BY <1>1, EntryTypes
<1>4. x \in TlbEntry
  BY <1>1, <1>3 DEF TlbEntry, Entry
<1>5. n \in Memory
  BY <1>1, <1>2, <1>4 DEF Memory
<1>6. Counted(n)
  BY <1>1, <1>2, <1>5 DEF Counted, FreeOnce, CountExact, OverHeld, OnFreeList, Refs
<1>7. TablesMapped(n, l) /\ DirMapped(n, l) /\ DirPrivate(n)
  BY <1>2 DEF MemInv, TablesMapped, DirMapped, DirPrivate
<1>8. x.asid = asid[e] /\ x.vpn = v /\ m.pte[<<e, v>>] = [page |-> x.page, perm |-> x.perm]
  BY <1>3 DEF Entry
<1>9. Coherent(n, l, asid)
  <2> SUFFICES ASSUME NEW t \in n.tlb
               PROVE  /\ \E f \in l : asid[f] = t.asid
                      /\ \A f \in l : asid[f] = t.asid =>
                            n.pte[<<f, t.vpn>>] = [page |-> t.page, perm |-> t.perm]
    BY DEF Coherent
  <2>1. CASE t \in m.tlb
    BY <1>2, <2>1 DEF MemInv, Coherent
  <2>2. CASE t = x
    <3> HIDE DEF x
    <3>1. \A f \in l : asid[f] = t.asid => f = e
      BY <1>8, <2>2 DEF AsidsDistinct
    <3> QED BY <1>2, <1>8, <2>2, <3>1
  <2> QED BY <1>2, <2>1, <2>2
<1> QED BY <1>6, <1>7, <1>9 DEF MemInv

\* Every system call, TLB refill and turn of env_free keeps the invariant.
LEMMA NextIInv == IInv /\ [Next]_vars => IInv'
<1> SUFFICES ASSUME IInv, [Next]_vars PROVE IInv'
  OBVIOUS
<1> USE DEF Idle, Runs
<1>1. /\ live \in SUBSET Env /\ env_asid \in [Env -> Asid] /\ halted \in BOOLEAN
      /\ MemInv(mem, live, env_asid) /\ AsidsDistinct(live, env_asid)
      /\ Uva \subseteq Vpn /\ Dir \notin Uva /\ PTE_D \in Perms
  BY LayoutAssumption DEF IInv, TypeOK, Vpn
<1>2. ASSUME NEW e \in Env, env_alloc(e) PROVE IInv'
  <2>1. PICK a \in Asid : asid_alloc(a) /\ env_asid' = [env_asid EXCEPT ![e] = a]
    BY <1>2 DEF env_alloc
  <2>2. /\ e \notin live /\ CanAlloc(mem) /\ mem' = env_setup_vm(mem, e) /\ live' = live \cup {e} /\ ~mem.over
        /\ freeing' = freeing /\ freeing = Null /\ halted' = halted
    BY <1>2 DEF env_alloc
  <2>3. MemInv(mem', live, env_asid) /\ mem'.pte[<<e, Dir>>].page # Null
    BY <1>1, <2>2, Setup
  <2>4. \A f \in live : env_asid[f] # a
    BY <2>1 DEF asid_alloc, AsidsFree
  <2>5. MemInv(mem', live', env_asid')
    BY <1>1, <2>1, <2>2, <2>3, <2>4, Start
  <2>6. AsidsDistinct(live', env_asid')
    BY <1>1, <2>1, <2>2, <2>4 DEF AsidsDistinct
  <2>7. TypeOK'
    BY <1>1, <2>1, <2>2, <2>5 DEF TypeOK, IInv, MemInv, Counted
  <2> QED BY <2>2, <2>5, <2>6, <2>7 DEF IInv
<1>3. ASSUME NEW e \in Env, env_alloc_no_asid(e) PROVE IInv'
  <2>1. e \notin live /\ CanAlloc(mem) /\ mem' = env_setup_vm(mem, e) /\ ~mem.over
    BY <1>3 DEF env_alloc_no_asid
  <2>2. MemInv(mem', live, env_asid)
    BY <1>1, <2>1, Setup
  <2> QED BY <1>1, <1>3, <2>2, MemStep DEF env_alloc_no_asid
<1>4. ASSUME NEW e \in Env, env_destroy(e) PROVE IInv'
  BY <1>4 DEF env_destroy, IInv, TypeOK
<1>5. ASSUME NEW e \in Env, NEW v \in Uva, NEW perm \in Perms, sys_mem_alloc(e, v, perm) PROVE IInv'
  <2>1. e \in live /\ CanAlloc(mem) /\ mem' = page_insert(page_alloc(mem), e, Fresh(mem), v, perm) /\ ~mem.over
    BY <1>5 DEF sys_mem_alloc
  <2>2. MemInv(page_alloc(mem), live, env_asid) /\ Holdable(page_alloc(mem), Fresh(mem)) /\ ~page_alloc(mem).over
    BY <1>1, <2>1, TakeInv
  <2>3. MemInv(mem', live, env_asid)
    BY <1>1, <2>1, <2>2, Insert
  <2> QED BY <1>1, <1>5, <2>3, MemStep DEF sys_mem_alloc
<1>6. ASSUME NEW e \in Env, NEW f \in Env, NEW v \in Uva, NEW w \in Uva, NEW perm \in Perms,
             sys_mem_map(e, v, f, w, perm) \/ sys_ipc_try_send(e, v, f, w, perm)
      PROVE  IInv'
  <2>1. /\ e \in live /\ f \in live /\ page_lookup(mem, e, v) # Null /\ ~mem.over
        /\ mem' = page_insert(mem, f, page_lookup(mem, e, v), w, perm)
        /\ UNCHANGED <<live, env_asid, freeing, halted>>
    BY <1>6 DEF sys_mem_map, sys_ipc_try_send
  <2>2. Holdable(mem, page_lookup(mem, e, v))
    BY <2>1, MappedHoldable
  <2>3. MemInv(mem', live, env_asid)
    BY <1>1, <2>1, <2>2, Insert
  <2> QED BY <1>1, <2>1, <2>3, MemStep
<1>7. ASSUME NEW e \in Env, NEW v \in Uva, sys_mem_unmap(e, v) PROVE IInv'
  <2>1. e \in live /\ mem' = page_remove(mem, e, v) /\ ~mem.over
    BY <1>7 DEF sys_mem_unmap
  <2>2. MemInv(mem', live, env_asid)
    BY <1>1, <2>1, Remove
  <2> QED BY <1>1, <1>7, <2>2, MemStep DEF sys_mem_unmap
<1>8. ASSUME NEW e \in Env, NEW v \in Vpn, do_tlb_refill(e, v) PROVE IInv'
  <2> DEFINE missing == page_lookup(mem, e, v) = Null
             m == IF missing THEN page_insert(page_alloc(mem), e, Fresh(mem), v, PTE_D) ELSE mem
             backed == \/ ~missing
                       \/ v # ZeroVa /\ CanAlloc(mem) /\ Inserts(page_alloc(mem), e, Fresh(mem), v)
  <2>1. e \in live /\ UNCHANGED <<live, env_asid, freeing>> /\ ~mem.over
    BY <1>8 DEF do_tlb_refill
  <2>2. page_lookup(mem, e, v) = mem.pte[<<e, v>>].page
    BY <1>1 DEF page_lookup, MemInv, TablesMapped
  <2>3. CASE ~backed
    <3>1. mem' = mem /\ halted' = TRUE
      BY <1>8, <2>3 DEF do_tlb_refill
    <3> QED BY <1>1, <2>1, <3>1, MemStep
  <2>4. CASE backed
    <3>1. /\ mem' = [m EXCEPT !.tlb = @ \cup {[asid |-> env_asid[e], vpn |-> v,
                                page |-> m.pte[<<e, v>>].page, perm |-> m.pte[<<e, v>>].perm]}]
          /\ halted' = halted
      BY <1>8, <2>4 DEF do_tlb_refill
    <3>2. MemInv(m, live, env_asid) /\ m.pte[<<e, v>>].page # Null
      <4>1. CASE ~missing
        BY <1>1, <2>2, <4>1
      <4>2. CASE missing
        <5>1. CanAlloc(mem) /\ Inserts(page_alloc(mem), e, Fresh(mem), v)
          BY <2>4, <4>2
        <5>2. /\ MemInv(page_alloc(mem), live, env_asid) /\ Holdable(page_alloc(mem), Fresh(mem))
              /\ page_alloc(mem).pte = mem.pte /\ ~page_alloc(mem).over
          BY <1>1, <2>1, <5>1, TakeInv
        <5>3. v # Dir
          BY <1>1, <2>1, <2>2, <4>2 DEF MemInv, DirMapped
        <5>4. page_lookup(page_alloc(mem), e, v) = Null
          BY <4>2, <5>2 DEF page_lookup
        <5>5. /\ MemInv(m, live, env_asid)
              /\ m.pte[<<e, v>>] = [page |-> Fresh(mem), perm |-> PTE_D]
          BY <1>1, <2>1, <4>2, <5>1, <5>2, <5>3, <5>4, Insert
        <5> QED BY <5>2, <5>5, LayoutAssumption DEF Holdable
      <4> QED BY <4>1, <4>2
    <3> HIDE DEF m
    <3>3. MemInv(mem', live, env_asid)
      BY <1>1, <2>1, <3>1, <3>2, Refill
    <3> QED BY <1>1, <2>1, <3>1, <3>3, MemStep
  <2> QED BY <2>3, <2>4
<1>9. ASSUME env_free PROVE IInv'
  <2>1. PICK v \in Vpn :
          /\ mem.pte[<<freeing, v>>].page # Null
          /\ \A w \in Vpn : PDX[w] = v /\ w # v => mem.pte[<<freeing, w>>].page = Null
          /\ mem' = tlb_invalidate(cleared(mem, freeing, v), env_asid[freeing], v)
          /\ IF v = Dir THEN freeing' = Null /\ live' = live \ {freeing}
             ELSE UNCHANGED <<freeing, live>>
    BY <1>9 DEF env_free, cleared
  <2>2. freeing \in live /\ env_asid' = env_asid /\ halted' = halted /\ ~mem.over
    BY <1>9 DEF env_free, IInv
  <2>3. MemInv(mem', IF v = Dir THEN live \ {freeing} ELSE live, env_asid)
    BY <1>1, <2>1, <2>2, ClearedInv
  <2>4. live' = IF v = Dir THEN live \ {freeing} ELSE live
    BY <2>1
  <2>5. MemInv(mem', live', env_asid')
    BY <2>2, <2>3, <2>4
  <2>6. live' \subseteq live /\ (freeing' # Null => freeing' \in live') /\ freeing' \in Env \cup {Null}
    BY <1>1, <2>1, <2>2, <2>4
  <2>7. AsidsDistinct(live', env_asid')
    BY <1>1, <2>2, <2>6 DEF AsidsDistinct
  <2>8. TypeOK'
    BY <1>1, <2>2, <2>5, <2>6 DEF TypeOK, MemInv, Counted
  <2> QED BY <2>5, <2>6, <2>7, <2>8 DEF IInv
<1>10. CASE UNCHANGED vars
  BY <1>10 DEF vars, IInv, TypeOK
<1> QED BY <1>2, <1>3, <1>4, <1>5, <1>6, <1>7, <1>8, <1>9, <1>10 DEF Next

-------------------------------------------------------------------------------
\* The invariant holds from the boot of the machine on.
LEMMA Inductive == Spec => []IInv
BY InitIInv, NextIInv, PTL DEF Spec

\* The pages, tables, TLB and ASIDs keep their types: pp_ref never goes below zero.
THEOREM TypeCorrect == Spec => []TypeOK
<1>1. IInv => TypeOK
  BY DEF IInv
<1> QED BY <1>1, Inductive, PTL

\* pp_ref is exact and the assertions of pmap.c hold, whatever system calls fail,
\* until a page is held in as many places as pp_ref has values.
THEOREM RefsAreExact == Spec => []RefExact
<1>1. IInv => RefExact
  BY DEF IInv, MemInv, Counted, CountExact, OverHeld, TablesMapped, RefExact
<1> QED BY <1>1, Inductive, PTL

\* A page on the free list is mapped nowhere and is not in the TLB.
THEOREM FreePagesUnreachable == Spec => []FreeListSound
<1>1. IInv => FreeListSound
  <2> SUFFICES ASSUME IInv PROVE FreeListSound
    OBVIOUS
  <2>1. Counted(mem) /\ \A i, j \in DOMAIN mem.free : mem.free[i] = mem.free[j] => i = j
    BY DEF IInv, MemInv, Counted, FreeOnce
  <2>2. ASSUME NEW p \in OnFreeList(mem)
        PROVE  mem.ref[p] = 0 /\ Refs(mem, p) = {} /\ \A t \in mem.tlb : t.page # p
    <3>1. p \in Page
      BY <2>1 DEF OnFreeList, Counted, Memory
    <3>2. mem.ref[p] = 0 /\ Refs(mem, p) = {}
      BY <2>1, <3>1, CountFacts
    <3>3. ASSUME NEW t \in mem.tlb, t.page = p PROVE FALSE
      <4>1. PICK e \in live : mem.pte[<<e, t.vpn>>] = [page |-> t.page, perm |-> t.perm]
        BY DEF IInv, MemInv, Coherent
      <4>2. e \in Env /\ t.vpn \in Vpn
        BY <2>1, EntryTypes DEF IInv, TypeOK
      <4>3. <<e, t.vpn>> \in Refs(mem, p)
        BY <3>3, <4>1, <4>2 DEF Refs, Slot
      <4> QED BY <3>2, <4>3
    <3> QED BY <3>2, <3>3
  <2> QED BY <2>1, <2>2 DEF FreeListSound
<1> QED BY <1>1, Inductive, PTL

\* A TLB hit gives what a walk of the tables of the one live environment with that
\* ASID gives.
THEOREM TlbAgrees == Spec => []TlbCoherent
<1>1. IInv => TlbCoherent
  BY DEF IInv, MemInv, Coherent, TlbCoherent
<1> QED BY <1>1, Inductive, PTL
=============================================================================
