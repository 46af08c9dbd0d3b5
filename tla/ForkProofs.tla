------------------------------ MODULE ForkProofs ------------------------------
(***************************************************************************)
(* For any number of processes, virtual and physical pages and calls of    *)
(* fork: copy on write isolates the processes, private memory keeps what   *)
(* was written, no fault is left without a handler, and a child is         *)
(* complete unless a mapping was lost.  For any size of pages and any      *)
(* program file: a process that spawn or the kernel makes runs its program *)
(* and a spawn that fails leaves nothing behind.                           *)
(***************************************************************************)
EXTENDS MCFork, FiniteSetTheorems, SequenceTheorems, WellFoundedInduction, TLAPS

Cow == [cow |-> TRUE, d |-> FALSE, lib |-> FALSE]

\* Only three kinds of permissions exist; PTE_LIBRARY stays at its addresses.
PermOK(pt, v) ==
    /\ pt.perm \in {Writable, Shared, Cow}
    /\ pt.perm = Shared => v \in Library
    /\ pt.page = Null => pt = Unmapped

PermInv == \A e \in Env, v \in Va : PermOK(pte[e][v], v)

\* A slot that is not running is not in fork nor in the handler, and a free one is empty.
SlotOK(e) ==
    /\ status[e] # "RUNNABLE" => fk[e].pc = "idle" /\ cow[e].pc = "idle"
    /\ status[e] = "FREE" => /\ \A v \in Va : pte[e][v] = Unmapped
                             /\ \A v \in Private : want[e][v] = Null

SlotInv == \A e \in Env : SlotOK(e)

\* cow_entry: what is mapped at UCOW and at the faulting address in each step.
HandlerOK(e) ==
    /\ cow[e].pc # "idle" => /\ cow[e].va # UCOW /\ Mapped(e, cow[e].va) /\ e \in entry
                             /\ fk[e].pc # "idle" => cow[e].va = Stack
                             /\ fk[e].pc \notin {"enter", "child", "parent"}
    /\ Mapped(e, UCOW) <=> cow[e].pc \in {"copy", "map", "unmap"}
    /\ cow[e].pc \in {"perm", "alloc", "copy", "map"} => pte[e][cow[e].va].perm = Cow
    /\ cow[e].pc \in {"alloc", "copy", "map"} => cow[e].perm = Writable
    /\ cow[e].pc \in {"unmap", "retry"} => pte[e][cow[e].va].perm = Writable
    /\ cow[e].pc = "unmap" => pte[e][UCOW].page = pte[e][cow[e].va].page
    /\ cow[e].pc = "map" => content[pte[e][UCOW].page] = content[pte[e][cow[e].va].page]

HandlerInv == \A e \in Env : HandlerOK(e)

\* fork and duppage: the page in work, and the stack duppage itself runs on.
ForkOK(e) ==
    /\ fk[e].pc # "idle" => e \in entry /\ Mapped(e, Stack)
    /\ fk[e].pc \in {"enter", "perm", "child", "parent"} =>
          fk[e].i \in Va /\ fk[e].i # UCOW /\ Mapped(e, fk[e].i)
    /\ fk[e].pc \in {"perm", "child", "parent"} /\ cow[e].pc = "idle" => pte[e][Stack].perm.d
    /\ fk[e].pc = "child" /\ fk[e].remap => pte[e][fk[e].i].perm = Writable /\ fk[e].perm = Cow
    /\ fk[e].pc = "child" /\ ~fk[e].remap =>
          pte[e][fk[e].i].perm = fk[e].perm /\ fk[e].perm # Writable
    /\ fk[e].pc = "parent" => pte[e][fk[e].i].perm = Writable /\ fk[e].perm = Cow

ForkInv == \A e \in Env : ForkOK(e)

\* A child in the making has one parent, and nothing yet from the page in work on.
ChildOK(e, c) ==
    /\ fk[e].pc \notin {"idle", "exofork"}
    /\ status[c] = "NOT_RUNNABLE"
    /\ \A f \in Env : fk[f].child = c => f = e
    /\ fk[e].pc = "set_status" => c \in entry
    /\ fk[e].pc \notin {"set_entry", "set_status"} =>
          /\ \A v \in Private : v >= fk[e].i => want[c][v] = Null
          /\ \A v \in Va : v > fk[e].i \/ (v = fk[e].i /\ fk[e].pc # "parent") => ~Mapped(c, v)
    /\ fk[e].pc = "parent" /\ Mapped(c, fk[e].i) => pte[c][fk[e].i].page = pte[e][fk[e].i].page

ChildInv == \A e, c \in Env : fk[e].child = c => ChildOK(e, c)

\* Two places with the same page: UCOW and the address it is moved to, a page of
\* PTE_LIBRARY, a page copy on write in both, or the page duppage has in work.
Aliased(e, v, f, w) == Mapped(e, v) /\ pte[e][v].page = pte[f][w].page /\ ~(e = f /\ v = w)

\* duppage of e has given page v to its child f and not yet taken PTE_D from e.
InWork(e, f, v) ==
    /\ pte[e][v].perm = Writable /\ pte[f][v].perm = Cow
    /\ fk[e].pc = "parent" /\ fk[e].i = v /\ fk[e].child = f

AliasCase(e, v, f, w) ==
    \/ e = f /\ cow[e].pc = "unmap" /\ {v, w} = {UCOW, cow[e].va}
    \/ /\ e # f /\ v = w /\ v # UCOW
       /\ \/ pte[e][v].perm = pte[f][v].perm /\ pte[e][v].perm # Writable
          \/ InWork(e, f, v)
          \/ InWork(f, e, v)

AliasInv == \A e, f \in Env, v, w \in Va : Aliased(e, v, f, w) => AliasCase(e, v, f, w)

\* As long as no mapping was lost a running process has all its pages, and every child
\* in the making the ones before the page in work.
Handed(e, v) ==
    \/ fk[e].pc \in {"set_entry", "set_status"}
    \/ v < fk[e].i

\* A running process is complete.
OwnPages(e) ==
    /\ \A v \in Va \ {UCOW} : Mapped(e, v)
    /\ \A v \in Private : want[e][v] # Null

\* The child c of e has what was handed to it.
ChildPages(e, c) ==
    /\ \A v \in Va \ {UCOW} : Handed(e, v) \/ (v = fk[e].i /\ fk[e].pc = "parent") => Mapped(c, v)
    /\ \A v \in Private : Handed(e, v) => want[c][v] # Null

\* The family shares one page at an address with PTE_LIBRARY.
SamePages ==
    \A e, f \in Env : \A v \in Library :
        /\ Mapped(e, v) => pte[e][v].perm = Shared
        /\ Mapped(e, v) /\ Mapped(f, v) => pte[e][v].page = pte[f][v].page

CompleteInv ==
    \/ lost
    \/ /\ SamePages
       /\ \A e \in Env : status[e] = "RUNNABLE" => OwnPages(e)
       /\ \A e, c \in Env : fk[e].child = c => ChildPages(e, c)

\* A running process with a page copy on write has a handler.
EntryInv ==
    \A e \in Env : status[e] = "RUNNABLE" => e \in entry \/ \A v \in Va : pte[e][v].perm # Cow

IInv ==
    /\ TypeOK /\ PermInv /\ SlotInv /\ HandlerInv /\ ForkInv /\ ChildInv /\ AliasInv
    /\ CompleteInv /\ EntryInv /\ PrivateMemory

-------------------------------------------------------------------------------
\* The constants of the records, once.
LEMMA Constants ==
    /\ Writable \in Perm /\ Shared \in Perm /\ Cow \in Perm
    /\ Writable # Shared /\ Writable # Cow /\ Shared # Cow
    /\ Writable.d /\ ~Writable.lib /\ ~Writable.cow
    /\ Shared.d /\ Shared.lib /\ ~Shared.cow
    /\ ~Cow.d /\ ~Cow.lib /\ Cow.cow
    /\ Unmapped \in Pte /\ Unmapped.page = Null /\ Unmapped.perm = Writable
BY DEF Perm, Pte, Writable, Shared, Cow, Unmapped

\* The records of a process that is in neither fork nor the handler.
LEMMA IdleRecords ==
    /\ NoFork.pc = "idle" /\ NoFork.child = Null /\ NoFork.i = 0
    /\ NoFork.perm = Writable /\ NoFork.remap = FALSE
    /\ NoFault.pc = "idle" /\ NoFault.va = 0 /\ NoFault.val = 0 /\ NoFault.perm = Writable
BY DEF NoFork, NoFault

\* The kinds of addresses: UCOW, the private ones and those of library pages.
LEMMA Addresses ==
    /\ UCOW \in Va /\ Stack \in Va /\ Stack # UCOW /\ Stack \in Private
    /\ Private \subseteq Va /\ Library \subseteq Va /\ UCOW \notin Private /\ UCOW \notin Library
    /\ Private \cap Library = {} /\ Va \subseteq Nat /\ 0 \in Va /\ NVA \in Nat
    /\ \A v \in Va : v = UCOW \/ v \in Library \/ v \in Private
    /\ First \in Env /\ 0 \in Val /\ Null \notin Val /\ Null \notin Env /\ Null \notin Page
BY ForkAssumption DEF Va, Private

\* The one process of the start has every page for itself.
LEMMA InitIInv == Init => IInv
<1> SUFFICES ASSUME Init PROVE IInv
  OBVIOUS
<1> USE Constants, IdleRecords, Addresses
<1>1. \A e \in Env, v \in Va : 
         pte[e][v] = IF e # First \/ v = UCOW THEN Unmapped
                     ELSE [page |-> v, perm |-> IF v \in Library THEN Shared ELSE Writable]
  BY DEF Init
<1>2. \A e \in Env : fk[e] = NoFork /\ cow[e] = NoFault
  BY DEF Init
<1>3. \A e \in Env, v \in Private : want[e][v] = IF e = First THEN 0 ELSE Null
  BY DEF Init
<1>4. Va \subseteq Page
  BY ForkAssumption DEF Va, Page
<1>5. \A e \in Env, v \in Va :
         /\ e # First \/ v = UCOW => pte[e][v] = Unmapped /\ ~Mapped(e, v)
         /\ e = First /\ v # UCOW =>
               /\ Mapped(e, v) /\ pte[e][v].page = v
               /\ pte[e][v].perm = IF v \in Library THEN Shared ELSE Writable
  <2> SUFFICES ASSUME NEW e \in Env, NEW v \in Va
               PROVE  /\ e # First \/ v = UCOW => pte[e][v] = Unmapped /\ ~Mapped(e, v)
                      /\ e = First /\ v # UCOW =>
                            /\ Mapped(e, v) /\ pte[e][v].page = v
                            /\ pte[e][v].perm = IF v \in Library THEN Shared ELSE Writable
    OBVIOUS
  <2>1. CASE e # First \/ v = UCOW
    BY <1>1, <2>1 DEF Mapped
  <2>2. CASE e = First /\ v # UCOW
    <3>1. pte[e][v] = [page |-> v, perm |-> IF v \in Library THEN Shared ELSE Writable]
      BY <1>1, <2>2
    <3>2. v # Null
      BY <1>4
    <3> QED BY <2>2, <3>1, <3>2 DEF Mapped
  <2> QED BY <2>1, <2>2
<1>6. TypeOK
  <2>1. pte \in [Env -> [Va -> Pte]]
    BY <1>1, <1>4 DEF Init, Pte
  <2>2. content \in [Page -> Val]
    BY DEF Init
  <2>3. fk \in [Env -> ForkRecord]
    BY DEF Init, NoFork, ForkRecord
  <2>4. cow \in [Env -> CowRecord]
    BY DEF Init, NoFault, CowRecord
  <2>5. want \in [Env -> [Private -> Val \cup {Null}]]
    BY DEF Init
  <2>6. status \in [Env -> {"FREE", "NOT_RUNNABLE", "RUNNABLE"}] /\ entry \subseteq Env
    BY DEF Init
  <2> QED BY <2>1, <2>2, <2>3, <2>4, <2>5, <2>6 DEF Init, TypeOK
<1>7. \A e \in Env : status[e] = IF e = First THEN "RUNNABLE" ELSE "FREE"
  BY DEF Init
<1>8. PermInv
  BY <1>5 DEF PermInv, PermOK, Mapped
<1>9. SlotInv
  BY <1>2, <1>3, <1>5, <1>7 DEF SlotInv, SlotOK
<1>10. HandlerInv
  BY <1>2, <1>5 DEF HandlerInv, HandlerOK
<1>11. ForkInv /\ ChildInv
  BY <1>2 DEF ForkInv, ForkOK, ChildInv
<1>12. AliasInv
  <2> SUFFICES ASSUME NEW e \in Env, NEW f \in Env, NEW v \in Va, NEW w \in Va,
                      Aliased(e, v, f, w)
               PROVE  FALSE
    BY DEF AliasInv
  <2> USE DEF Aliased
  <2>1. e = First /\ pte[e][v].page = v /\ v # Null
    BY <1>4, <1>5
  <2>2. Mapped(f, w)
    BY <2>1 DEF Mapped
  <2>3. f = First /\ pte[f][w].page = w
    BY <1>5, <2>2
  <2> QED BY <2>1, <2>3
<1>13. CompleteInv
  <2>1. \A e \in Env : status[e] = "RUNNABLE" => e = First
    BY <1>7
  <2>2. \A e \in Env : fk[e].child = Null
    BY <1>2
  <2>3. SamePages
    BY <1>5 DEF SamePages
  <2>4. \A e \in Env : status[e] = "RUNNABLE" => OwnPages(e)
    BY <1>3, <1>5, <2>1 DEF OwnPages
  <2> QED BY <2>2, <2>3, <2>4 DEF CompleteInv
<1>14. EntryInv
  BY <1>5 DEF EntryInv
<1>15. PrivateMemory
  BY <1>1, <1>3, <1>4, <1>5 DEF PrivateMemory, Init
<1> QED BY <1>6, <1>8, <1>9, <1>10, <1>11, <1>12, <1>13, <1>14, <1>15 DEF IInv

-------------------------------------------------------------------------------
\* What the type invariant says of single entries and records.
LEMMA Types ==
    ASSUME TypeOK
    PROVE  /\ \A e \in Env, v \in Va : /\ pte[e][v] \in Pte
                                       /\ pte[e][v].page \in Page \cup {Null}
                                       /\ pte[e][v].perm \in Perm
           /\ \A e \in Env : /\ cow[e].va \in Va /\ cow[e].val \in Val
                             /\ fk[e].i \in 0..NVA /\ fk[e].i \in Nat
                             /\ fk[e].child \in Env \cup {Null}
           /\ \A e \in Env, v \in Private : want[e][v] \in Val \cup {Null}
           /\ \A p \in Page : content[p] \in Val
<1>1. \A e \in Env, v \in Va : pte[e][v] \in Pte
  BY DEF TypeOK
<1>2. \A e \in Env : /\ cow[e].va \in Va /\ cow[e].val \in Val
                     /\ fk[e].i \in 0..NVA /\ fk[e].child \in Env \cup {Null}
  BY DEF TypeOK, ForkRecord, CowRecord
<1> QED BY <1>1, <1>2, Addresses DEF TypeOK, Pte

\* The effect of ForkTo, field by field.
ForkMoved(e, pc) ==
    /\ fk' \in [Env -> ForkRecord]
    /\ fk'[e].pc = pc /\ fk'[e].i = fk[e].i /\ fk'[e].child = fk[e].child
    /\ fk'[e].perm = fk[e].perm /\ fk'[e].remap = fk[e].remap
    /\ \A f \in Env : f # e => fk'[f] = fk[f]

\* ForkTo changes nothing but the place in fork.
LEMMA ForkToEffect ==
    ASSUME fk \in [Env -> ForkRecord], NEW e \in Env,
           NEW pc \in {"exofork", "enter", "perm", "child", "parent", "set_entry", "set_status"},
           ForkTo(e, pc)
    PROVE  ForkMoved(e, pc)
<1>1. fk' = [fk EXCEPT ![e].pc = pc] /\ fk[e] \in ForkRecord
  BY DEF ForkTo
<1>2. fk'[e] = [fk[e] EXCEPT !.pc = pc]
  BY <1>1
<1>3. fk'[e] \in ForkRecord
  BY <1>1, <1>2 DEF ForkRecord
<1>4. \A f \in Env : f # e => fk'[f] = fk[f]
  BY <1>1
<1>5. fk' \in [Env -> ForkRecord]
  BY <1>1, <1>3, <1>4
<1> QED BY <1>1, <1>2, <1>4, <1>5 DEF ForkMoved, ForkRecord

\* The effect of Handle, field by field.
Handled(e, pc) ==
    /\ cow' \in [Env -> CowRecord]
    /\ cow'[e].pc = pc /\ cow'[e].va = cow[e].va /\ cow'[e].val = cow[e].val
    /\ cow'[e].perm = cow[e].perm
    /\ \A f \in Env : f # e => cow'[f] = cow[f]

\* Handle changes nothing but the place in cow_entry.
LEMMA HandleEffect ==
    ASSUME cow \in [Env -> CowRecord], NEW e \in Env, NEW pc \in {"copy", "map", "unmap", "retry"},
           Handle(e, pc)
    PROVE  Handled(e, pc)
<1>1. cow' = [cow EXCEPT ![e].pc = pc] /\ cow[e] \in CowRecord
  BY DEF Handle
<1>2. cow'[e] = [cow[e] EXCEPT !.pc = pc]
  BY <1>1
<1>3. cow'[e] \in CowRecord
  BY <1>1, <1>2 DEF CowRecord
<1>4. \A f \in Env : f # e => cow'[f] = cow[f]
  BY <1>1
<1>5. cow' \in [Env -> CowRecord]
  BY <1>1, <1>3, <1>4
<1> QED BY <1>1, <1>2, <1>4, <1>5 DEF Handled, CowRecord

\* Two places a step leaves alone stay in the relation they are in, as long as a page in
\* work stays in work and a moved page moved.
LEMMA AliasPair ==
    ASSUME AliasInv, NEW e \in Env, NEW f \in Env, NEW v \in Va, NEW w \in Va,
           pte'[e][v] = pte[e][v], pte'[f][w] = pte[f][w],
           cow[e].pc = "unmap" => cow'[e].pc = "unmap" /\ cow'[e].va = cow[e].va,
           fk[e].pc = "parent" =>
              fk'[e].pc = "parent" /\ fk'[e].i = fk[e].i /\ fk'[e].child = fk[e].child,
           fk[f].pc = "parent" =>
              fk'[f].pc = "parent" /\ fk'[f].i = fk[f].i /\ fk'[f].child = fk[f].child,
           Aliased(e, v, f, w)'
    PROVE  AliasCase(e, v, f, w)'
<1>1. AliasCase(e, v, f, w)
  BY DEF AliasInv, Aliased, Mapped
<1>2. v = w /\ InWork(e, f, v) => InWork(e, f, v)'
  BY DEF InWork
<1>3. v = w /\ InWork(f, e, v) => InWork(f, e, v)'
  BY DEF InWork
<1> QED BY <1>1, <1>2, <1>3 DEF AliasCase

\* In particular a step that leaves the page tables alone.
LEMMA AliasKept ==
    ASSUME AliasInv, pte' = pte,
           \A f \in Env : cow[f].pc = "unmap" => cow'[f].pc = "unmap" /\ cow'[f].va = cow[f].va,
           \A f \in Env : fk[f].pc = "parent" =>
                             fk'[f].pc = "parent" /\ fk'[f].i = fk[f].i /\ fk'[f].child = fk[f].child
    PROVE  AliasInv'
<1> SUFFICES ASSUME NEW e \in Env, NEW f \in Env, NEW v \in Va, NEW w \in Va,
                    Aliased(e, v, f, w)'
             PROVE  AliasCase(e, v, f, w)'
  BY DEF AliasInv
<1> QED BY AliasPair

\* A step of another process that leaves f and its pages alone.
LEMMA Undisturbed ==
    ASSUME NEW f \in Env, HandlerOK(f), ForkOK(f), pte'[f] = pte[f], cow'[f] = cow[f],
           fk'[f] = fk[f], f \in entry => f \in entry',
           cow[f].pc = "map" =>
              /\ content'[pte[f][UCOW].page] = content[pte[f][UCOW].page]
              /\ content'[pte[f][cow[f].va].page] = content[pte[f][cow[f].va].page]
    PROVE  HandlerOK(f)' /\ ForkOK(f)'
<1>1. HandlerOK(f)'
  BY DEF HandlerOK, Mapped
<1>2. ForkOK(f)'
  BY DEF ForkOK, Mapped
<1> QED BY <1>1, <1>2

-------------------------------------------------------------------------------
\* Step 1 of fork.
LEMMA StepBegin == ASSUME IInv, NEW e \in Env, fork_begin(e) PROVE IInv'
<1> USE Constants, Addresses
<1>1. /\ status[e] = "RUNNABLE" /\ cow[e].pc = "idle" /\ fk[e].pc = "idle"
      /\ Mapped(e, Stack) /\ entry' = entry \cup {e} /\ forks' = forks + 1
      /\ ForkTo(e, "exofork")
      /\ pte' = pte /\ content' = content /\ status' = status /\ cow' = cow
      /\ halted' = halted /\ want' = want /\ lost' = lost
  BY DEF fork_begin, InFork, Runs
<1>2. ForkMoved(e, "exofork")
  BY <1>1, ForkToEffect DEF IInv, TypeOK
<1> USE DEF ForkMoved
<1>3. TypeOK'
  BY <1>1, <1>2 DEF IInv, TypeOK
<1>4. PermInv' /\ PrivateMemory'
  BY <1>1 DEF IInv, PermInv, PrivateMemory, Mapped
<1>5. SlotInv'
  BY <1>1, <1>2 DEF IInv, SlotInv, SlotOK
<1>6. HandlerOK(e)' /\ ForkOK(e)'
  BY <1>1, <1>2 DEF IInv, HandlerInv, ForkInv, HandlerOK, ForkOK, Mapped
<1>7. HandlerInv' /\ ForkInv'
  BY <1>1, <1>2, <1>6, Undisturbed DEF IInv, HandlerInv, ForkInv
<1>8. ChildInv'
  BY <1>1, <1>2 DEF IInv, ChildInv, ChildOK, Mapped
<1>9. AliasInv'
  BY <1>1, <1>2, AliasKept DEF IInv
<1>10. CompleteInv'
  BY <1>1, <1>2 DEF IInv, CompleteInv, ChildInv, ChildOK, SamePages, OwnPages, ChildPages, Handed, Mapped
<1>11. EntryInv'
  BY <1>1 DEF IInv, EntryInv
<1> QED BY <1>3, <1>4, <1>5, <1>7, <1>8, <1>9, <1>10, <1>11 DEF IInv

\* Step 2: the new slot is empty.
LEMMA StepExofork == ASSUME IInv, NEW e \in Env, fork_exofork(e) PROVE IInv'
<1> USE Constants, Addresses, IdleRecords
<1>1. /\ status[e] = "RUNNABLE" /\ cow[e].pc = "idle" /\ fk[e].pc = "exofork"
      /\ pte' = pte /\ content' = content /\ entry' = entry /\ cow' = cow
      /\ halted' = halted /\ want' = want /\ lost' = lost /\ forks' = forks
  BY DEF fork_exofork, InFork, Runs
<1>2. PICK c \in Env \cup {Null} :
         /\ fk' = [fk EXCEPT ![e] = ForkOf(c)]
         /\ c = Null => status' = status
         /\ c # Null => status[c] = "FREE" /\ status' = [status EXCEPT ![c] = "NOT_RUNNABLE"]
  <2>1. CASE \E c \in Env :
                /\ status[c] = "FREE"
                /\ status' = [status EXCEPT ![c] = "NOT_RUNNABLE"]
                /\ fk' = [fk EXCEPT ![e] = ForkOf(c)]
    BY <2>1
  <2>2. CASE fk' = [fk EXCEPT ![e] = ForkOf(Null)] /\ status' = status
    BY <2>2
  <2> QED BY <2>1, <2>2 DEF fork_exofork
<1> DEFINE n == ForkOf(c)
<1>3. n \in ForkRecord /\ n.pc = "loop" /\ n.child = c /\ n.i = 0
  BY DEF ForkOf, ForkRecord
<1> HIDE DEF n
<1>4. fk' = [fk EXCEPT ![e] = n]
  BY <1>2 DEF n
<1>5. /\ fk'[e].pc = "loop" /\ fk'[e].child = c /\ fk'[e].i = 0
      /\ \A f \in Env : f # e => fk'[f] = fk[f]
      /\ fk' \in [Env -> ForkRecord]
  BY <1>3, <1>4 DEF IInv, TypeOK
<1>6. /\ status' \in [Env -> {"FREE", "NOT_RUNNABLE", "RUNNABLE"}]
      /\ \A f \in Env : f # c => status'[f] = status[f]
      /\ c # Null => status'[c] = "NOT_RUNNABLE" /\ status[c] = "FREE" /\ c # e
  BY <1>1, <1>2 DEF IInv, TypeOK
<1>7. TypeOK'
  BY <1>1, <1>5, <1>6 DEF IInv, TypeOK
<1>8. PermInv' /\ PrivateMemory'
  BY <1>1 DEF IInv, PermInv, PrivateMemory, Mapped
<1>9. SlotInv'
  BY <1>1, <1>5, <1>6 DEF IInv, SlotInv, SlotOK
<1>10. HandlerOK(e)' /\ ForkOK(e)'
  BY <1>1, <1>5 DEF IInv, HandlerInv, ForkInv, HandlerOK, ForkOK, Mapped
<1>11. HandlerInv' /\ ForkInv'
  BY <1>1, <1>5, <1>10, Undisturbed DEF IInv, HandlerInv, ForkInv
<1>12. ChildInv'
  <2> SUFFICES ASSUME NEW f \in Env, NEW d \in Env, fk'[f].child = d
               PROVE  ChildOK(f, d)'
    BY DEF ChildInv
  <2>1. CASE f = e
    BY <1>1, <1>5, <1>6, <2>1 DEF IInv, ChildInv, ChildOK, SlotInv, SlotOK, Mapped
  <2>2. CASE f # e
    BY <1>1, <1>5, <1>6, <2>2 DEF IInv, ChildInv, ChildOK, Mapped
  <2> QED BY <2>1, <2>2
<1>13. AliasInv'
  BY <1>1, <1>5, AliasKept DEF IInv
<1>14. CompleteInv'
  BY <1>1, <1>5, <1>6 DEF IInv, CompleteInv, SamePages, OwnPages, ChildPages, Handed, Mapped
<1>15. EntryInv'
  BY <1>1, <1>6 DEF IInv, EntryInv
<1> QED BY <1>7, <1>8, <1>9, <1>11, <1>12, <1>13, <1>14, <1>15 DEF IInv

\* The kernel panics, and changes nothing else.
LEMMA StepNoTable == ASSUME IInv, NEW e \in Env, fork_no_table(e) PROVE IInv'
<1>1. /\ halted' = TRUE /\ pte' = pte /\ content' = content /\ status' = status
      /\ entry' = entry /\ fk' = fk /\ cow' = cow /\ want' = want /\ lost' = lost /\ forks' = forks
  BY DEF fork_no_table
<1>2. TypeOK'
  BY <1>1 DEF IInv, TypeOK
<1>3. PermInv' /\ EntryInv' /\ PrivateMemory' /\ SlotInv'
  BY <1>1 DEF IInv, PermInv, EntryInv, PrivateMemory, SlotInv, SlotOK, Mapped
<1>4. HandlerInv' /\ ForkInv'
  BY <1>1, Undisturbed DEF IInv, HandlerInv, ForkInv
<1>5. ChildInv'
  BY <1>1 DEF IInv, ChildInv, ChildOK, Mapped
<1>6. AliasInv'
  BY <1>1, AliasKept DEF IInv
<1>7. CompleteInv'
  BY <1>1 DEF IInv, CompleteInv, SamePages, OwnPages, ChildPages, Handed, Mapped
<1> QED BY <1>2, <1>3, <1>4, <1>5, <1>6, <1>7 DEF IInv

\* The head of the loop.  A running process without page i has lost a mapping, or i is
\* UCOW, which no child gets.
LEMMA StepLoop == ASSUME IInv, NEW e \in Env, fork_loop(e) PROVE IInv'
<1> USE Constants, Addresses
<1> DEFINE i == fk[e].i
<1>1. /\ status[e] = "RUNNABLE" /\ cow[e].pc = "idle" /\ fk[e].pc = "loop"
      /\ pte' = pte /\ content' = content /\ entry' = entry /\ cow' = cow /\ status' = status
      /\ halted' = halted /\ want' = want /\ lost' = lost /\ forks' = forks
  BY DEF fork_loop, InFork, Runs
<1>2. i \in 0..NVA /\ i \in Nat /\ (i # NVA => i \in Va) /\ (\A v \in Va : v < NVA)
  <2>1. i \in 0..NVA
    BY Types DEF IInv
  <2> QED BY <2>1, ForkAssumption DEF Va
<1>3. /\ fk' \in [Env -> ForkRecord]
      /\ \A f \in Env : f # e => fk'[f] = fk[f]
      /\ fk'[e].child = fk[e].child
      /\ \/ fk'[e].pc = "set_entry" /\ i = NVA /\ fk'[e].i = i
         \/ fk'[e].pc = "enter" /\ i \in Va /\ Mapped(e, i) /\ fk'[e].i = i
         \/ fk'[e].pc = "loop" /\ i \in Va /\ ~Mapped(e, i) /\ fk'[e].i = i + 1
  <2>1. fk \in [Env -> ForkRecord]
    BY DEF IInv, TypeOK
  <2>2. CASE i = NVA
    <3>1. ForkMoved(e, "set_entry")
      BY <2>1, <2>2, ForkToEffect DEF fork_loop, ForkTo
    <3> QED BY <2>2, <3>1 DEF ForkMoved
  <2>3. CASE i # NVA /\ Mapped(e, i)
    <3>1. ForkMoved(e, "enter")
      BY <2>1, <2>3, ForkToEffect DEF fork_loop, ForkTo
    <3> QED BY <1>2, <2>3, <3>1 DEF ForkMoved
  <2>4. CASE i # NVA /\ ~Mapped(e, i)
    <3>1. fk' = [fk EXCEPT ![e].i = @ + 1] /\ fk[e] \in ForkRecord
      BY <2>1, <2>4 DEF fork_loop
    <3>2. fk'[e] = [fk[e] EXCEPT !.i = i + 1]
      BY <2>1, <3>1
    <3>3. i + 1 \in 0..NVA
      BY <1>2, <2>4, ForkAssumption
    <3> HIDE DEF i
    <3>4. fk'[e] \in ForkRecord
      BY <3>1, <3>2, <3>3 DEF ForkRecord
    <3>5. \A f \in Env : f # e => fk'[f] = fk[f]
      BY <2>1, <3>1
    <3>6. fk' \in [Env -> ForkRecord]
      BY <2>1, <3>1, <3>4, <3>5
    <3>7. fk'[e].i = i + 1 /\ fk'[e].pc = fk[e].pc /\ fk'[e].child = fk[e].child
      BY <3>1, <3>2 DEF ForkRecord
    <3> QED BY <1>1, <1>2, <2>4, <3>5, <3>6, <3>7
  <2> QED BY <2>2, <2>3, <2>4
<1>4. TypeOK'
  BY <1>1, <1>3 DEF IInv, TypeOK
<1>5. PermInv' /\ PrivateMemory' /\ EntryInv'
  BY <1>1 DEF IInv, PermInv, PrivateMemory, EntryInv, Mapped
<1>6. SlotInv'
  BY <1>1, <1>3 DEF IInv, SlotInv, SlotOK
<1>7. HandlerOK(e)' /\ ForkOK(e)'
  BY <1>1, <1>3 DEF IInv, HandlerInv, ForkInv, HandlerOK, ForkOK, Mapped
<1>8. HandlerInv' /\ ForkInv'
  BY <1>1, <1>3, <1>7, Undisturbed DEF IInv, HandlerInv, ForkInv
<1>9. ChildInv'
  <2> SUFFICES ASSUME NEW f \in Env, NEW d \in Env, fk'[f].child = d
               PROVE  ChildOK(f, d)'
    BY DEF ChildInv
  <2>1. fk[f].child = d /\ ChildOK(f, d) /\ \A g \in Env : fk'[g].child = fk[g].child
    BY <1>3 DEF IInv, ChildInv
  <2>2. CASE f = e
    BY <1>1, <1>2, <1>3, <2>1, <2>2 DEF ChildOK, Mapped
  <2>3. CASE f # e
    BY <1>1, <1>3, <2>1, <2>3 DEF ChildOK, Mapped
  <2> QED BY <2>2, <2>3
<1>10. AliasInv'
  BY <1>1, <1>3, AliasKept DEF IInv
<1>11. CompleteInv'
  <2> SUFFICES ASSUME ~lost PROVE CompleteInv'
    BY <1>1 DEF CompleteInv
  <2>1. SamePages' /\ \A f \in Env : status'[f] = "RUNNABLE" => OwnPages(f)'
    BY <1>1 DEF IInv, CompleteInv, SamePages, OwnPages, Mapped
  <2>2. ASSUME NEW f \in Env, NEW d \in Env, fk'[f].child = d PROVE ChildPages(f, d)'
    <3>1. fk[f].child = d /\ ChildPages(f, d)
      BY <1>3, <2>2 DEF IInv, CompleteInv
    <3>2. CASE f # e
      BY <1>1, <1>3, <3>1, <3>2 DEF ChildPages, Handed, Mapped
    <3>3. CASE f = e
      <4>1. OwnPages(e)
        BY <1>1 DEF IInv, CompleteInv
      <4>2. \A v \in Va \ {UCOW} : Handed(e, v)' => Handed(e, v)
        BY <1>2, <1>3, <4>1 DEF OwnPages, Handed
      <4> QED BY <1>1, <1>3, <3>1, <3>3, <4>2 DEF ChildPages, Mapped
    <3> QED BY <3>2, <3>3
  <2> QED BY <2>1, <2>2 DEF CompleteInv
<1> QED BY <1>4, <1>5, <1>6, <1>8, <1>9, <1>10, <1>11 DEF IInv

\* duppage reads the permissions of the page it was called for.
LEMMA StepPerm == ASSUME IInv, NEW e \in Env, duppage_perm(e) PROVE IInv'
<1> USE Constants, Addresses
<1> DEFINE perm == pte[e][fk[e].i].perm
           new == IF Cowed(perm) THEN OnWrite(perm) ELSE perm
<1>1. /\ status[e] = "RUNNABLE" /\ cow[e].pc = "idle" /\ fk[e].pc = "perm"
      /\ pte' = pte /\ content' = content /\ entry' = entry /\ cow' = cow /\ status' = status
      /\ halted' = halted /\ want' = want /\ lost' = lost /\ forks' = forks
      /\ fk' = [fk EXCEPT ![e].pc = "child", ![e].remap = Cowed(perm), ![e].perm = new]
  BY DEF duppage_perm, InFork, Runs
<1>2. /\ fk[e].i \in Va /\ perm \in {Writable, Shared, Cow}
      /\ perm = Writable => Cowed(perm) /\ new = Cow
      /\ perm # Writable => ~Cowed(perm) /\ new = perm
      /\ new \in Perm /\ Cowed(perm) \in BOOLEAN
  <2>1. fk[e].i \in Va
    BY <1>1 DEF IInv, ForkInv, ForkOK
  <2>2. perm \in {Writable, Shared, Cow}
    BY <2>1 DEF IInv, PermInv, PermOK
  <2>3. CASE perm = Writable
    <3>1. OnWrite(Writable) = Cow
      BY DEF OnWrite, Writable, Cow
    <3>2. Cowed(perm) = TRUE
      BY <2>3 DEF Cowed, Writable
    <3> QED BY <2>1, <2>3, <3>1, <3>2
  <2>4. CASE perm # Writable
    <3>1. Cowed(perm) = FALSE
      BY <2>2, <2>4 DEF Cowed, Shared, Cow
    <3> QED BY <2>1, <2>2, <2>4, <3>1
  <2> QED BY <2>3, <2>4
<1> HIDE DEF perm, new
<1> DEFINE b == Cowed(perm)
<1>3. b \in BOOLEAN /\ (perm = Writable => b = TRUE) /\ (perm # Writable => b = FALSE)
  BY <1>2
<1>4. fk' = [fk EXCEPT ![e].pc = "child", ![e].remap = b, ![e].perm = new]
  BY <1>1
<1> HIDE DEF b
<1>5. /\ fk' \in [Env -> ForkRecord]
      /\ \A f \in Env : f # e => fk'[f] = fk[f]
      /\ fk'[e].pc = "child" /\ fk'[e].i = fk[e].i /\ fk'[e].child = fk[e].child
      /\ fk'[e].remap = b /\ fk'[e].perm = new
  <2>1. fk \in [Env -> ForkRecord] /\ fk[e] \in ForkRecord
    BY DEF IInv, TypeOK
  <2>2. fk'[e] = [fk[e] EXCEPT !.pc = "child", !.remap = b, !.perm = new]
    BY <1>4, <2>1
  <2>3. fk'[e] \in ForkRecord
    BY <1>2, <1>3, <2>1, <2>2 DEF ForkRecord
  <2>4. \A f \in Env : f # e => fk'[f] = fk[f]
    BY <1>4, <2>1
  <2>5. fk' \in [Env -> ForkRecord]
    BY <1>4, <2>1, <2>3, <2>4
  <2>6. /\ fk'[e].pc = "child" /\ fk'[e].i = fk[e].i /\ fk'[e].child = fk[e].child
        /\ fk'[e].remap = b /\ fk'[e].perm = new
    BY <2>1, <2>2 DEF ForkRecord
  <2> QED BY <2>4, <2>5, <2>6
<1>6. TypeOK'
  BY <1>1, <1>5 DEF IInv, TypeOK
<1>7. PermInv' /\ PrivateMemory' /\ EntryInv'
  BY <1>1 DEF IInv, PermInv, PrivateMemory, EntryInv, Mapped
<1>8. SlotInv'
  BY <1>1, <1>5 DEF IInv, SlotInv, SlotOK
<1>9. HandlerOK(e)'
  BY <1>1, <1>5 DEF IInv, HandlerInv, HandlerOK, Mapped
<1>10. ForkOK(e)'
  <2>1. ForkOK(e)
    BY DEF IInv, ForkInv
  <2>2. b => pte[e][fk[e].i].perm = Writable /\ new = Cow
    BY <1>2, <1>3 DEF perm
  <2>3. ~b => pte[e][fk[e].i].perm = new /\ new # Writable
    BY <1>2, <1>3 DEF perm
  <2> QED BY <1>1, <1>5, <2>1, <2>2, <2>3 DEF ForkOK, Mapped
<1>11. HandlerInv' /\ ForkInv'
  BY <1>1, <1>5, <1>9, <1>10, Undisturbed DEF IInv, HandlerInv, ForkInv
<1>12. ChildInv'
  BY <1>1, <1>5 DEF IInv, ChildInv, ChildOK, Mapped
<1>13. AliasInv'
  BY <1>1, <1>5, AliasKept DEF IInv
<1>14. CompleteInv'
  BY <1>1, <1>5 DEF IInv, CompleteInv, SamePages, OwnPages, ChildPages, Handed, Mapped
<1> QED BY <1>6, <1>7, <1>8, <1>11, <1>12, <1>13, <1>14 DEF IInv

\* Step 4: the handler of the child.
LEMMA StepSetEntry == ASSUME IInv, NEW e \in Env, fork_set_entry(e) PROVE IInv'
<1> USE Constants, Addresses
<1>1. /\ status[e] = "RUNNABLE" /\ cow[e].pc = "idle" /\ fk[e].pc = "set_entry"
      /\ pte' = pte /\ content' = content /\ cow' = cow /\ status' = status
      /\ halted' = halted /\ want' = want /\ lost' = lost /\ forks' = forks
      /\ entry' = IF fk[e].child = Null THEN entry ELSE entry \cup {fk[e].child}
      /\ ForkTo(e, "set_status")
  BY DEF fork_set_entry, InFork, Runs
<1>2. ForkMoved(e, "set_status") /\ fk[e].child \in Env \cup {Null}
  BY <1>1, ForkToEffect, Types DEF IInv, TypeOK
<1>3. entry' \subseteq Env /\ (\A f \in entry : f \in entry') /\ (fk[e].child # Null => fk[e].child \in entry')
  BY <1>1, <1>2 DEF IInv, TypeOK
<1> USE DEF ForkMoved
<1>4. TypeOK'
  BY <1>1, <1>2, <1>3 DEF IInv, TypeOK
<1>5. PermInv' /\ PrivateMemory' /\ EntryInv'
  BY <1>1, <1>3 DEF IInv, PermInv, PrivateMemory, EntryInv, Mapped
<1>6. SlotInv'
  BY <1>1, <1>2 DEF IInv, SlotInv, SlotOK
<1>7. HandlerOK(e)' /\ ForkOK(e)'
  BY <1>1, <1>2, <1>3 DEF IInv, HandlerInv, ForkInv, HandlerOK, ForkOK, Mapped
<1>8. HandlerInv' /\ ForkInv'
  BY <1>1, <1>2, <1>3, <1>7, Undisturbed DEF IInv, HandlerInv, ForkInv
<1>9. ChildInv'
  BY <1>1, <1>2, <1>3 DEF IInv, ChildInv, ChildOK, Mapped
<1>10. AliasInv'
  BY <1>1, <1>2, AliasKept DEF IInv
<1>11. CompleteInv'
  BY <1>1, <1>2 DEF IInv, CompleteInv, SamePages, OwnPages, ChildPages, Handed, Mapped
<1> QED BY <1>4, <1>5, <1>6, <1>8, <1>9, <1>10, <1>11 DEF IInv

\* The child runs: it has its handler and all its pages.
LEMMA StepSetStatus == ASSUME IInv, NEW e \in Env, fork_set_status(e) PROVE IInv'
<1> USE Constants, Addresses, IdleRecords
<1>0. PICK c : c = fk[e].child
  OBVIOUS
<1>1. /\ status[e] = "RUNNABLE" /\ cow[e].pc = "idle" /\ fk[e].pc = "set_status"
      /\ pte' = pte /\ content' = content /\ cow' = cow /\ entry' = entry
      /\ halted' = halted /\ want' = want /\ lost' = lost /\ forks' = forks
      /\ status' = IF c = Null THEN status ELSE [status EXCEPT ![c] = "RUNNABLE"]
      /\ fk' = [fk EXCEPT ![e] = NoFork]
  BY <1>0 DEF fork_set_status, InFork, Runs
<1>2. c \in Env \cup {Null} /\ (c # Null => ChildOK(e, c) /\ c \in entry /\ c # e)
  BY <1>0, <1>1, Types DEF IInv, ChildInv, ChildOK
<1>3. /\ fk' \in [Env -> ForkRecord] /\ fk'[e] = NoFork
      /\ \A f \in Env : f # e => fk'[f] = fk[f]
  <2>1. NoFork \in ForkRecord
    BY DEF NoFork, ForkRecord
  <2> QED BY <1>1, <2>1 DEF IInv, TypeOK
<1>4. /\ status' \in [Env -> {"FREE", "NOT_RUNNABLE", "RUNNABLE"}]
      /\ \A f \in Env : f # c => status'[f] = status[f]
      /\ c # Null => status'[c] = "RUNNABLE"
  BY <1>1, <1>2 DEF IInv, TypeOK
<1>5. TypeOK'
  BY <1>1, <1>3, <1>4 DEF IInv, TypeOK
<1>6. PermInv' /\ PrivateMemory'
  BY <1>1 DEF IInv, PermInv, PrivateMemory, Mapped
<1>7. SlotInv'
  BY <1>1, <1>2, <1>3, <1>4 DEF IInv, SlotInv, SlotOK
<1>8. HandlerOK(e)' /\ ForkOK(e)'
  BY <1>1, <1>3 DEF IInv, HandlerInv, ForkInv, HandlerOK, ForkOK, Mapped
<1>9. HandlerInv' /\ ForkInv'
  BY <1>1, <1>3, <1>8, Undisturbed DEF IInv, HandlerInv, ForkInv
<1>10. ChildInv'
  <2> SUFFICES ASSUME NEW f \in Env, NEW d \in Env, fk'[f].child = d
               PROVE  ChildOK(f, d)'
    BY DEF ChildInv
  <2>1. f # e /\ fk[f].child = d /\ ChildOK(f, d) /\ d # c
    BY <1>0, <1>1, <1>2, <1>3 DEF IInv, ChildInv, ChildOK
  <2> QED BY <1>1, <1>3, <1>4, <2>1 DEF ChildOK, Mapped
<1>11. AliasInv'
  BY <1>1, <1>3, AliasKept DEF IInv
<1>12. CompleteInv'
  <2> SUFFICES ASSUME ~lost PROVE CompleteInv'
    BY <1>1 DEF CompleteInv
  <2>1. SamePages'
    BY <1>1 DEF IInv, CompleteInv, SamePages, Mapped
  <2>2. ASSUME c # Null PROVE OwnPages(c)'
    <3>1. ChildPages(e, c)
      BY <1>0, <1>2, <2>2 DEF IInv, CompleteInv
    <3> QED BY <1>1, <3>1 DEF ChildPages, OwnPages, Handed, Mapped
  <2>3. \A f \in Env : status'[f] = "RUNNABLE" => OwnPages(f)'
    <3> SUFFICES ASSUME NEW f \in Env, status'[f] = "RUNNABLE", f # c PROVE OwnPages(f)'
      BY <1>2, <2>2
    <3>1. OwnPages(f)
      BY <1>4 DEF IInv, CompleteInv
    <3> QED BY <1>1, <3>1 DEF OwnPages, Mapped
  <2>4. \A f, d \in Env : fk'[f].child = d => ChildPages(f, d)'
    BY <1>1, <1>3 DEF IInv, CompleteInv, ChildPages, Handed, Mapped
  <2> QED BY <2>1, <2>3, <2>4 DEF CompleteInv
<1>13. EntryInv'
  BY <1>1, <1>2, <1>4 DEF IInv, EntryInv
<1> QED BY <1>5, <1>6, <1>7, <1>9, <1>10, <1>11, <1>12, <1>13 DEF IInv

-------------------------------------------------------------------------------
\* A page a process can write is mapped elsewhere only by its child in the making, which
\* does not run and for which the page is not complete.
LEMMA WritableAlone ==
    ASSUME IInv, NEW e \in Env, NEW f \in Env, NEW v \in Va, NEW w \in Va,
           pte[e][v].perm = Writable, cow[e].pc # "unmap", Aliased(e, v, f, w)
    PROVE  /\ v = w /\ e # f /\ status[f] = "NOT_RUNNABLE" /\ cow[f].pc = "idle"
           /\ v \in Private => want[f][v] = Null
<1> USE Constants, Addresses
<1>1. AliasCase(e, v, f, w)
  BY DEF IInv, AliasInv
<1>2. v = w /\ e # f /\ InWork(e, f, v)
  BY <1>1 DEF AliasCase, InWork
<1>3. ChildOK(e, f) /\ fk[e].pc = "parent" /\ fk[e].i = v
  BY <1>2 DEF InWork, IInv, ChildInv
<1>4. status[f] = "NOT_RUNNABLE"
  BY <1>3 DEF ChildOK
<1>5. v \in Private => want[f][v] = Null
  BY <1>3 DEF ChildOK
<1>6. cow[f].pc = "idle"
  BY <1>4 DEF IInv, SlotInv, SlotOK
<1> QED BY <1>2, <1>4, <1>5, <1>6

\* Where fork is around a store to v: nowhere, or at work on its stack, or in the call
\* of duppage, which is that store.
StoreFork(e, v) ==
    /\ fk' \in [Env -> ForkRecord]
    /\ \A f \in Env : f # e => fk'[f] = fk[f]
    /\ fk'[e].i = fk[e].i /\ fk'[e].child = fk[e].child
    /\ fk'[e].perm = fk[e].perm /\ fk'[e].remap = fk[e].remap
    /\ \/ fk'[e].pc = fk[e].pc /\ (fk[e].pc = "idle" \/ (v = Stack /\ fk[e].pc # "enter"))
       \/ fk[e].pc = "enter" /\ fk'[e].pc = "perm" /\ v = Stack

\* What a store leaves alone, and the process it is made by.
Storing(e, v) ==
    /\ status[e] = "RUNNABLE" /\ v # UCOW /\ StoreFork(e, v)
    /\ status' = status /\ entry' = entry /\ lost' = lost /\ forks' = forks

\* No store touches the child in the making or what it was handed.
LEMMA StoringChild ==
    ASSUME IInv, NEW e \in Env, NEW v \in Va, Storing(e, v),
           \A f \in Env : f # e => pte'[f] = pte[f] /\ want'[f] = want[f],
           fk[e].pc = "parent" => pte'[e][fk[e].i] = pte[e][fk[e].i]
    PROVE  /\ ChildInv'
           /\ \A f, d \in Env : fk'[f].child = d /\ (fk[f].child = d => ChildPages(f, d)) => ChildPages(f, d)'
<1> USE DEF Storing, StoreFork
<1>1. \A f \in Env : fk'[f].child = fk[f].child
  OBVIOUS
<1>2. ASSUME NEW f \in Env, NEW d \in Env, fk'[f].child = d
      PROVE  ChildOK(f, d)' /\ (ChildPages(f, d) => ChildPages(f, d)')
  <2>1. fk[f].child = d /\ ChildOK(f, d)
    BY <1>1, <1>2 DEF IInv, ChildInv
  <2>2. d # e /\ pte'[d] = pte[d] /\ want'[d] = want[d]
    BY <2>1 DEF ChildOK
  <2>3. /\ fk'[f].i = fk[f].i /\ (fk'[f].pc = "parent" <=> fk[f].pc = "parent")
        /\ fk'[f].pc \in {"idle", "exofork"} <=> fk[f].pc \in {"idle", "exofork"}
        /\ fk'[f].pc \in {"set_entry", "set_status"} <=> fk[f].pc \in {"set_entry", "set_status"}
        /\ fk'[f].pc = "set_status" <=> fk[f].pc = "set_status"
    OBVIOUS
  <2>4. fk[f].pc = "parent" => pte'[f][fk[f].i] = pte[f][fk[f].i]
    OBVIOUS
  <2>5. ChildOK(f, d)'
    BY <1>1, <2>1, <2>2, <2>3, <2>4 DEF ChildOK, Mapped
  <2>6. ChildPages(f, d) => ChildPages(f, d)'
    BY <2>2, <2>3 DEF ChildPages, Handed, Mapped
  <2> QED BY <2>5, <2>6
<1> QED BY <1>1, <1>2 DEF ChildInv

\* A store that writes, at once or after its fault was handled.
LEMMA Written ==
    ASSUME IInv, NEW e \in Env, NEW v \in Va, NEW x \in Val, Storing(e, v),
           Mapped(e, v), pte[e][v].perm.d, cow[e].pc \in {"idle", "retry"},
           cow' \in [Env -> CowRecord], cow'[e].pc = "idle",
           \A f \in Env : f # e => cow'[f] = cow[f],
           write(e, v, pte[e][v].page, x), pte' = pte, halted' = halted
    PROVE  IInv'
<1> USE Constants, Addresses
<1> DEFINE p == pte[e][v].page
<1>1. p \in Page /\ (v \in Private => pte[e][v].perm = Writable)
  <2>1. p \in Page
    BY Types DEF IInv, Mapped
  <2>2. PermOK(pte[e][v], v)
    BY DEF IInv, PermInv
  <2> QED BY <2>1, <2>2 DEF PermOK
<1>2. \A q \in Page : content'[q] = IF v \in Private /\ q = p THEN x ELSE content[q]
  BY DEF write, IInv, TypeOK
<1>3. /\ \A f \in Env : f # e => want'[f] = want[f]
      /\ \A w \in Private : want'[e][w] = IF v = w THEN x ELSE want[e][w]
  <2>1. want \in [Env -> [Private -> Val \cup {Null}]]
    BY DEF IInv, TypeOK
  <2>2. CASE v \in Private
    BY <2>1, <2>2 DEF write
  <2>3. CASE v \notin Private
    BY <2>3 DEF write
  <2> QED BY <2>2, <2>3
<1>4. content' \in [Page -> Val] /\ want' \in [Env -> [Private -> Val \cup {Null}]]
  <2>1. CASE v \in Private
    <3>1. want' = [want EXCEPT ![e][v] = x] /\ content' = [content EXCEPT ![p] = x]
      BY <2>1 DEF write
    <3>2. want \in [Env -> [Private -> Val \cup {Null}]] /\ content \in [Page -> Val]
      BY DEF IInv, TypeOK
    <3> QED BY <1>1, <2>1, <3>1, <3>2
  <2>2. CASE v \notin Private
    BY <2>2 DEF write, IInv, TypeOK
  <2> QED BY <2>1, <2>2
<1>5. TypeOK'
  BY <1>4 DEF IInv, TypeOK, Storing, StoreFork
<1>6. PermInv' /\ EntryInv'
  BY DEF IInv, PermInv, EntryInv, Storing
<1>7. SlotInv'
  BY <1>3 DEF IInv, SlotInv, SlotOK, Storing, StoreFork
<1>8. \A f \in Env, w \in Va :
         Aliased(e, v, f, w) /\ v \in Private => 
            v = w /\ e # f /\ cow[f].pc = "idle" /\ want[f][v] = Null
  BY <1>1, WritableAlone
<1> HIDE DEF p
<1>9. PrivateMemory'
  <2> SUFFICES ASSUME NEW f \in Env, NEW w \in Private, Mapped(f, w), want'[f][w] # Null
               PROVE  content'[pte[f][w].page] = want'[f][w]
    BY DEF PrivateMemory, Mapped
  <2>1. pte[f][w].page \in Page /\ w \in Va
    BY Types DEF IInv, Mapped
  <2>2. CASE f = e /\ w = v
    BY <1>2, <1>3, <2>1, <2>2 DEF p
  <2>3. CASE ~(f = e /\ w = v)
    <3>1. want'[f][w] = want[f][w]
      BY <1>3, <2>3
    <3>2. content[pte[f][w].page] = want[f][w]
      BY <3>1 DEF IInv, PrivateMemory
    <3>3. v \in Private /\ pte[f][w].page = p => want[f][w] = Null
      BY <1>8, <2>1, <2>3 DEF Aliased, p
    <3> QED BY <1>2, <2>1, <3>1, <3>2, <3>3
  <2> QED BY <2>2, <2>3
<1>10. HandlerOK(e)'
  BY DEF IInv, HandlerInv, HandlerOK, Mapped
<1>11. ForkOK(e)'
  BY DEF IInv, ForkInv, ForkOK, Storing, StoreFork, Mapped
<1>12. ASSUME NEW f \in Env, f # e PROVE HandlerOK(f)' /\ ForkOK(f)'
  <2>1. HandlerOK(f) /\ ForkOK(f)
    BY DEF IInv, HandlerInv, ForkInv
  <2>2. cow[f].pc = "map" => /\ pte[f][UCOW].page \in Page /\ pte[f][cow[f].va].page \in Page
                             /\ cow[f].va \in Va
    BY <2>1, Types DEF IInv, HandlerOK, Mapped
  <2>3. cow[f].pc = "map" =>
              /\ content'[pte[f][UCOW].page] = content[pte[f][UCOW].page]
              /\ content'[pte[f][cow[f].va].page] = content[pte[f][cow[f].va].page]
    BY <1>2, <1>8, <1>12, <2>2 DEF Aliased, p
  <2> QED BY <1>12, <2>1, <2>3, Undisturbed DEF Storing, StoreFork
<1>13. HandlerInv' /\ ForkInv'
  BY <1>10, <1>11, <1>12 DEF HandlerInv, ForkInv
<1>14. /\ ChildInv'
       /\ \A f, d \in Env : fk'[f].child = d /\ (fk[f].child = d => ChildPages(f, d)) => ChildPages(f, d)'
  BY <1>3, StoringChild
<1>15. AliasInv'
  BY AliasKept DEF IInv, Storing, StoreFork
<1>16. CompleteInv'
  <2> SUFFICES ASSUME ~lost PROVE CompleteInv'
    BY DEF CompleteInv, Storing
  <2>1. SamePages'
    BY DEF IInv, CompleteInv, SamePages, Mapped
  <2>2. ASSUME NEW f \in Env, status'[f] = "RUNNABLE" PROVE OwnPages(f)'
    <3>1. OwnPages(f)
      BY <2>2 DEF IInv, CompleteInv, Storing
    <3> QED BY <1>3, <3>1 DEF OwnPages, Mapped
  <2> QED BY <1>14, <2>1, <2>2 DEF IInv, CompleteInv
<1> QED BY <1>5, <1>6, <1>7, <1>9, <1>13, <1>14, <1>15, <1>16 DEF IInv

\* A store that faults enters the handler: there is one, and duppage has no page in work
\* that the handler could replace.
LEMMA Faulted ==
    ASSUME IInv, NEW e \in Env, NEW v \in Va, NEW x \in Val, Storing(e, v),
           Mapped(e, v), ~pte[e][v].perm.d, cow[e].pc = "idle",
           do_tlb_mod(e, v, x), pte' = pte, content' = content, want' = want
    PROVE  IInv'
<1> USE Constants, Addresses
<1>1. pte[e][v].perm = Cow
  BY DEF IInv, PermInv, PermOK
<1>2. e \in entry
  BY <1>1 DEF IInv, EntryInv, Storing
<1> DEFINE n == [pc |-> "perm", va |-> v, val |-> x, perm |-> Writable]
<1>3. cow' = [cow EXCEPT ![e] = n] /\ halted' = halted
  BY <1>2 DEF do_tlb_mod
<1>4. n \in CowRecord /\ n.pc = "perm" /\ n.va = v
  BY DEF CowRecord
<1> HIDE DEF n
<1>5. /\ cow' \in [Env -> CowRecord] /\ cow'[e].pc = "perm" /\ cow'[e].va = v
      /\ \A f \in Env : f # e => cow'[f] = cow[f]
  BY <1>3, <1>4 DEF IInv, TypeOK
<1>6. TypeOK'
  BY <1>3, <1>5 DEF IInv, TypeOK, Storing, StoreFork
<1>7. PermInv' /\ EntryInv' /\ PrivateMemory'
  BY DEF IInv, PermInv, EntryInv, PrivateMemory, Storing, Mapped
<1>8. SlotInv'
  BY <1>5 DEF IInv, SlotInv, SlotOK, Storing, StoreFork
<1>9. HandlerOK(e)'
  <2>1. HandlerOK(e) /\ ForkOK(e)
    BY DEF IInv, HandlerInv, ForkInv
  <2>2. fk'[e].pc \notin {"enter", "child", "parent"} /\ (fk'[e].pc # "idle" => v = Stack)
    BY <1>1, <2>1 DEF ForkOK, Storing, StoreFork
  <2> QED BY <1>1, <1>2, <1>5, <2>1, <2>2 DEF HandlerOK, Storing, Mapped
<1>10. ForkOK(e)'
  BY <1>5 DEF IInv, ForkInv, ForkOK, Storing, StoreFork, Mapped
<1>11. HandlerInv' /\ ForkInv'
  BY <1>5, <1>9, <1>10, Undisturbed DEF IInv, HandlerInv, ForkInv, Storing, StoreFork
<1>12. /\ ChildInv'
       /\ \A f, d \in Env : fk'[f].child = d /\ (fk[f].child = d => ChildPages(f, d)) => ChildPages(f, d)'
  BY StoringChild
<1>13. AliasInv'
  BY <1>5, AliasKept DEF IInv, Storing, StoreFork
<1>14. CompleteInv'
  <2> SUFFICES ASSUME ~lost PROVE CompleteInv'
    BY DEF CompleteInv, Storing
  <2>1. SamePages'
    BY DEF IInv, CompleteInv, SamePages, Mapped
  <2>2. ASSUME NEW f \in Env, status'[f] = "RUNNABLE" PROVE OwnPages(f)'
    <3>1. OwnPages(f)
      BY <2>2 DEF IInv, CompleteInv, Storing
    <3> QED BY <3>1 DEF OwnPages, Mapped
  <2> QED BY <1>12, <2>1, <2>2 DEF IInv, CompleteInv
<1> QED BY <1>6, <1>7, <1>8, <1>11, <1>12, <1>13, <1>14 DEF IInv

\* A page is free when no process maps it; Fresh is one of them.
LEMMA FreshPage ==
    ASSUME IInv, FreePages # {}
    PROVE  /\ Fresh \in Page /\ Fresh # Null
           /\ \A f \in Env, w \in Va : pte[f][w].page # Fresh
<1>1. Fresh \in FreePages
  BY DEF Fresh
<1>2. Fresh \in Page /\ Fresh \notin {pte[e][v].page : e \in Env, v \in Va}
  BY <1>1 DEF FreePages
<1>3. \A f \in Env, w \in Va : pte[f][w].page \in {pte[e][v].page : e \in Env, v \in Va}
  OBVIOUS
<1> HIDE DEF Fresh
<1>4. \A f \in Env, w \in Va : pte[f][w].page # Fresh
  BY <1>2, <1>3
<1>5. Fresh \in Page
  BY <1>2
<1>6. Fresh # Null
  BY <1>5, Addresses
<1> QED BY <1>4, <1>5, <1>6

\* A new page has no aliases, and the other pages the ones they had.
LEMMA AliasFresh ==
    ASSUME AliasInv, NEW e \in Env, NEW v \in Va, NEW p, p # Null,
           \A f \in Env, w \in Va : pte[f][w].page # p,
           pte'[e][v].page = p,
           \A f \in Env, w \in Va : ~(f = e /\ w = v) => pte'[f][w] = pte[f][w],
           \A f \in Env : cow[f].pc = "unmap" => cow'[f].pc = "unmap" /\ cow'[f].va = cow[f].va,
           \A f \in Env : fk[f].pc = "parent" =>
                             fk'[f].pc = "parent" /\ fk'[f].i = fk[f].i /\ fk'[f].child = fk[f].child
    PROVE  AliasInv'
<1> SUFFICES ASSUME NEW f \in Env, NEW g \in Env, NEW w \in Va, NEW u \in Va,
                    Aliased(f, w, g, u)'
             PROVE  AliasCase(f, w, g, u)'
  BY DEF AliasInv
<1>1. ~(f = e /\ w = v) /\ ~(g = e /\ u = v)
  BY DEF Aliased, Mapped
<1>2. pte'[f][w] = pte[f][w] /\ pte'[g][u] = pte[g][u]
  BY <1>1
<1> QED BY <1>2, AliasPair

\* A store to a page that is missing, which passive_alloc maps: a mapping was lost.
LEMMA Allocated ==
    ASSUME IInv, NEW e \in Env, NEW v \in Va, NEW x \in Val, Storing(e, v),
           ~Mapped(e, v), FreePages # {}, cow[e].pc = "idle",
           pte' = [pte EXCEPT ![e][v] = [page |-> Fresh, perm |-> Writable]],
           write(e, v, Fresh, x), cow' = cow, halted' = halted
    PROVE  IInv'
<1> USE Constants, Addresses
<1>0. PICK p \in Page : p = Fresh /\ p # Null /\ \A f \in Env, w \in Va : pte[f][w].page # p
  BY FreshPage
<1>1. fk[e].pc = "idle" /\ fk'[e].pc = "idle"
  BY DEF IInv, ForkInv, ForkOK, Storing, StoreFork
<1> DEFINE new == [page |-> p, perm |-> Writable]
<1>2. new \in Pte /\ new.page = p /\ new.perm = Writable
  BY DEF Pte
<1>3. pte' = [pte EXCEPT ![e][v] = new]
  BY <1>0
<1> HIDE DEF new
<1>4. /\ pte' \in [Env -> [Va -> Pte]] /\ pte'[e][v] = new
      /\ \A f \in Env, w \in Va : ~(f = e /\ w = v) => pte'[f][w] = pte[f][w]
      /\ \A f \in Env : f # e => pte'[f] = pte[f]
  BY <1>2, <1>3 DEF IInv, TypeOK
<1>5. \A q \in Page : content'[q] = IF v \in Private /\ q = p THEN x ELSE content[q]
  BY <1>0 DEF write, IInv, TypeOK
<1>6. /\ \A f \in Env : f # e => want'[f] = want[f]
      /\ \A w \in Private : want'[e][w] = IF v = w THEN x ELSE want[e][w]
  <2>1. want \in [Env -> [Private -> Val \cup {Null}]]
    BY DEF IInv, TypeOK
  <2>2. CASE v \in Private
    BY <2>1, <2>2 DEF write
  <2>3. CASE v \notin Private
    BY <2>3 DEF write
  <2> QED BY <2>2, <2>3
<1>7. content' \in [Page -> Val] /\ want' \in [Env -> [Private -> Val \cup {Null}]]
  <2>1. CASE v \in Private
    <3>1. want' = [want EXCEPT ![e][v] = x] /\ content' = [content EXCEPT ![p] = x]
      BY <1>0, <2>1 DEF write
    <3>2. want \in [Env -> [Private -> Val \cup {Null}]] /\ content \in [Page -> Val]
      BY DEF IInv, TypeOK
    <3> QED BY <1>0, <2>1, <3>1, <3>2
  <2>2. CASE v \notin Private
    BY <2>2 DEF write, IInv, TypeOK
  <2> QED BY <2>1, <2>2
<1>8. TypeOK'
  BY <1>4, <1>7 DEF IInv, TypeOK, Storing, StoreFork
<1>9. PermInv'
  BY <1>0, <1>2, <1>4 DEF IInv, PermInv, PermOK
<1>10. EntryInv'
  BY <1>2, <1>4 DEF IInv, EntryInv, Storing
<1>11. SlotInv'
  BY <1>4, <1>6 DEF IInv, SlotInv, SlotOK, Storing, StoreFork
<1>12. PrivateMemory'
  <2> SUFFICES ASSUME NEW f \in Env, NEW w \in Private, Mapped(f, w)', want'[f][w] # Null
               PROVE  content'[pte'[f][w].page] = want'[f][w]
    BY DEF PrivateMemory
  <2>1. CASE f = e /\ w = v
    BY <1>2, <1>4, <1>5, <1>6, <2>1
  <2>2. CASE ~(f = e /\ w = v)
    <3>1. want'[f][w] = want[f][w] /\ pte'[f][w] = pte[f][w] /\ Mapped(f, w)
      BY <1>4, <1>6, <2>2 DEF Mapped
    <3>2. pte[f][w].page \in Page /\ pte[f][w].page # p
      BY <1>0, <3>1, Types DEF IInv, Mapped
    <3> QED BY <1>5, <3>1, <3>2 DEF IInv, PrivateMemory
  <2> QED BY <2>1, <2>2
<1>13. HandlerOK(e)'
  BY <1>1, <1>2, <1>4 DEF IInv, HandlerInv, HandlerOK, Storing, Mapped
<1>14. ForkOK(e)'
  BY <1>1 DEF ForkOK
<1>15. ASSUME NEW f \in Env, f # e PROVE HandlerOK(f)' /\ ForkOK(f)'
  <2>1. HandlerOK(f) /\ ForkOK(f)
    BY DEF IInv, HandlerInv, ForkInv
  <2>2. cow[f].pc = "map" => /\ pte[f][UCOW].page \in Page /\ pte[f][cow[f].va].page \in Page
                             /\ cow[f].va \in Va
    BY <2>1, Types DEF IInv, HandlerOK, Mapped
  <2>3. cow[f].pc = "map" =>
              /\ content'[pte[f][UCOW].page] = content[pte[f][UCOW].page]
              /\ content'[pte[f][cow[f].va].page] = content[pte[f][cow[f].va].page]
    BY <1>0, <1>5, <2>2
  <2> QED BY <1>4, <1>15, <2>1, <2>3, Undisturbed DEF Storing, StoreFork
<1>16. HandlerInv' /\ ForkInv'
  BY <1>13, <1>14, <1>15 DEF HandlerInv, ForkInv
<1>17. ChildInv'
  BY <1>1, <1>4, <1>6, StoringChild
<1>18. AliasInv'
  <2>1. \A f \in Env : fk[f].pc = "parent" =>
                            fk'[f].pc = "parent" /\ fk'[f].i = fk[f].i /\ fk'[f].child = fk[f].child
    BY <1>1 DEF Storing, StoreFork
  <2>2. pte'[e][v].page = p /\ AliasInv
    BY <1>2, <1>4 DEF IInv
  <2> QED BY <1>0, <1>4, <2>1, <2>2, AliasFresh
<1>19. CompleteInv'
  BY DEF IInv, CompleteInv, OwnPages, Storing
<1> QED BY <1>8, <1>9, <1>10, <1>11, <1>12, <1>16, <1>17, <1>18, <1>19 DEF IInv

\* The store instruction, in the program, in fork or in the call of duppage.
LEMMA Stored ==
    ASSUME IInv, NEW e \in Env, NEW v \in Va, NEW x \in Val, Storing(e, v),
           cow[e].pc = "idle", store(e, v, x)
    PROVE  IInv'
<1> USE Constants, Addresses
<1>0. cow \in [Env -> CowRecord]
  BY DEF IInv, TypeOK
<1>1. CASE /\ Mapped(e, v) /\ pte[e][v].perm.d
           /\ write(e, v, pte[e][v].page, x)
           /\ pte' = pte /\ cow' = cow /\ halted' = halted
  BY <1>0, <1>1, Written
<1>2. CASE /\ Mapped(e, v) /\ ~pte[e][v].perm.d
           /\ do_tlb_mod(e, v, x)
           /\ pte' = pte /\ content' = content /\ want' = want
  BY <1>2, Faulted
<1>3. CASE /\ ~Mapped(e, v) /\ halted' = TRUE
           /\ pte' = pte /\ content' = content /\ want' = want /\ cow' = cow
  <2>1. fk[e].pc = "idle" /\ fk'[e].pc = "idle"
    BY <1>3 DEF IInv, ForkInv, ForkOK, Storing, StoreFork
  <2>2. TypeOK'
    BY <1>3 DEF IInv, TypeOK, Storing, StoreFork
  <2>3. PermInv' /\ EntryInv' /\ PrivateMemory'
    BY <1>3 DEF IInv, PermInv, EntryInv, PrivateMemory, Storing, Mapped
  <2>4. SlotInv'
    BY <1>3 DEF IInv, SlotInv, SlotOK, Storing, StoreFork
  <2>5. HandlerOK(e)' /\ ForkOK(e)'
    BY <1>3, <2>1 DEF IInv, HandlerInv, HandlerOK, ForkOK, Mapped
  <2>6. HandlerInv' /\ ForkInv'
    BY <1>3, <2>5, Undisturbed DEF IInv, HandlerInv, ForkInv, Storing, StoreFork
  <2>7. ChildInv'
    BY <1>3, StoringChild
  <2>8. AliasInv'
    BY <1>3, AliasKept DEF IInv, Storing, StoreFork
  <2>9. CompleteInv'
    BY <1>3 DEF IInv, CompleteInv, OwnPages, Storing
  <2> QED BY <2>2, <2>3, <2>4, <2>6, <2>7, <2>8, <2>9 DEF IInv
<1>4. CASE /\ ~Mapped(e, v) /\ FreePages # {}
           /\ pte' = [pte EXCEPT ![e][v] = [page |-> Fresh, perm |-> Writable]]
           /\ write(e, v, Fresh, x) /\ cow' = cow /\ halted' = halted
  BY <1>4, Allocated
<1> QED BY <1>1, <1>2, <1>3, <1>4 DEF store

\* A store of the program, or of fork to its stack.
LEMMA StepStore ==
    ASSUME IInv, NEW e \in Env, NEW v \in Va, NEW x \in Val, user_store(e, v, x)
    PROVE  IInv'
<1>1. cow[e].pc = "idle" /\ store(e, v, x)
  BY DEF user_store, Runs
<1>2. Storing(e, v)
  BY DEF user_store, Runs, Storing, StoreFork, IInv, TypeOK
<1> QED BY <1>1, <1>2, Stored

\* The call of duppage.
LEMMA StepEnter ==
    ASSUME IInv, NEW e \in Env, NEW x \in Val, duppage_enter(e, x)
    PROVE  IInv'
<1> USE Addresses
<1>1. cow[e].pc = "idle" /\ fk[e].pc = "enter" /\ store(e, Stack, x) /\ ForkTo(e, "perm")
  BY DEF duppage_enter, InFork, Runs
<1>2. ForkMoved(e, "perm")
  BY <1>1, ForkToEffect DEF IInv, TypeOK
<1>3. Storing(e, Stack)
  BY <1>1, <1>2 DEF duppage_enter, InFork, Runs, Storing, StoreFork, ForkMoved
<1> QED BY <1>1, <1>3, Stored

-------------------------------------------------------------------------------
\* A process goes: its pages with it, and the contents of the pages nobody maps any
\* more.  A child it had in the making stays as it is and never runs.
LEMMA Destroyed ==
    ASSUME IInv, NEW e \in Env, status[e] = "RUNNABLE", destroy(e), forks' = forks
    PROVE  IInv'
<1> USE Constants, Addresses, IdleRecords
<1>1. /\ status' = [status EXCEPT ![e] = "FREE"]
      /\ pte' = [pte EXCEPT ![e] = [v \in Va |-> Unmapped]]
      /\ content' = [p \in Page |->
                       IF \E f \in Env, v \in Va : pte'[f][v].page = p THEN content[p] ELSE 0]
      /\ entry' = entry \ {e}
      /\ fk' = [fk EXCEPT ![e] = NoFork]
      /\ cow' = [cow EXCEPT ![e] = NoFault]
      /\ want' = [want EXCEPT ![e] = [v \in Private |-> Null]]
      /\ halted' = halted /\ lost' = lost
  BY DEF destroy, zero_unmapped
<1>2. /\ status' \in [Env -> {"FREE", "NOT_RUNNABLE", "RUNNABLE"}] /\ status'[e] = "FREE"
      /\ \A f \in Env : f # e => status'[f] = status[f]
  BY <1>1 DEF IInv, TypeOK
<1>3. /\ pte' \in [Env -> [Va -> Pte]] /\ \A v \in Va : pte'[e][v] = Unmapped
      /\ \A f \in Env : f # e => pte'[f] = pte[f]
  BY <1>1 DEF IInv, TypeOK
<1>4. /\ fk' \in [Env -> ForkRecord] /\ fk'[e] = NoFork
      /\ \A f \in Env : f # e => fk'[f] = fk[f]
  <2>1. NoFork \in ForkRecord
    BY DEF NoFork, ForkRecord
  <2> QED BY <1>1, <2>1 DEF IInv, TypeOK
<1>5. /\ cow' \in [Env -> CowRecord] /\ cow'[e] = NoFault
      /\ \A f \in Env : f # e => cow'[f] = cow[f]
  <2>1. NoFault \in CowRecord
    BY DEF NoFault, CowRecord
  <2> QED BY <1>1, <2>1 DEF IInv, TypeOK
<1>6. /\ want' \in [Env -> [Private -> Val \cup {Null}]] /\ \A v \in Private : want'[e][v] = Null
      /\ \A f \in Env : f # e => want'[f] = want[f]
  BY <1>1 DEF IInv, TypeOK
<1>7. /\ content' \in [Page -> Val]
      /\ \A f \in Env, v \in Va : f # e /\ Mapped(f, v) =>
            /\ pte[f][v].page \in Page
            /\ content'[pte[f][v].page] = content[pte[f][v].page]
  <2>1. content' \in [Page -> Val]
    BY <1>1 DEF IInv, TypeOK
  <2>2. ASSUME NEW f \in Env, NEW v \in Va, f # e, Mapped(f, v)
        PROVE  /\ pte[f][v].page \in Page
               /\ content'[pte[f][v].page] = content[pte[f][v].page]
    <3>1. pte[f][v].page \in Page /\ pte'[f][v] = pte[f][v]
      BY <1>3, <2>2, Types DEF IInv, Mapped
    <3> QED BY <1>1, <3>1
  <2> QED BY <2>1, <2>2
<1>8. TypeOK'
  BY <1>1, <1>2, <1>3, <1>4, <1>5, <1>6, <1>7 DEF IInv, TypeOK
<1>9. PermInv'
  BY <1>3 DEF IInv, PermInv, PermOK
<1>10. SlotInv'
  BY <1>2, <1>3, <1>4, <1>5, <1>6 DEF IInv, SlotInv, SlotOK
<1>11. HandlerOK(e)' /\ ForkOK(e)'
  BY <1>3, <1>4, <1>5 DEF HandlerOK, ForkOK, Mapped
<1>12. ASSUME NEW f \in Env, f # e PROVE HandlerOK(f)' /\ ForkOK(f)'
  <2>1. HandlerOK(f) /\ ForkOK(f)
    BY DEF IInv, HandlerInv, ForkInv
  <2>2. cow[f].pc = "map" => Mapped(f, UCOW) /\ Mapped(f, cow[f].va) /\ cow[f].va \in Va
    BY <2>1, Types DEF IInv, HandlerOK
  <2> QED BY <1>1, <1>3, <1>4, <1>5, <1>7, <1>12, <2>1, <2>2, Undisturbed
<1>13. HandlerInv' /\ ForkInv'
  BY <1>11, <1>12 DEF HandlerInv, ForkInv
<1>14. ChildInv'
  <2> SUFFICES ASSUME NEW f \in Env, NEW d \in Env, fk'[f].child = d
               PROVE  ChildOK(f, d)'
    BY DEF ChildInv
  <2>1. f # e /\ fk[f].child = d /\ ChildOK(f, d)
    BY <1>4 DEF IInv, ChildInv
  <2>2. d # e
    BY <2>1 DEF ChildOK
  <2> QED BY <1>1, <1>2, <1>3, <1>4, <1>6, <2>1, <2>2 DEF ChildOK, Mapped
<1>15. AliasInv'
  <2> SUFFICES ASSUME NEW f \in Env, NEW g \in Env, NEW w \in Va, NEW u \in Va,
                      Aliased(f, w, g, u)'
               PROVE  AliasCase(f, w, g, u)'
    BY DEF AliasInv
  <2>1. f # e /\ g # e
    BY <1>3 DEF Aliased, Mapped
  <2> QED BY <1>3, <1>4, <1>5, <2>1, AliasPair DEF IInv
<1>16. CompleteInv'
  <2> SUFFICES ASSUME ~lost PROVE CompleteInv'
    BY <1>1 DEF CompleteInv
  <2>1. SamePages'
    <3>1. SamePages
      BY DEF IInv, CompleteInv
    <3>2. \A f \in Env, v \in Library : Mapped(f, v)' => Mapped(f, v) /\ pte'[f][v] = pte[f][v]
      BY <1>3 DEF Mapped
    <3> QED BY <3>1, <3>2 DEF SamePages
  <2>2. ASSUME NEW f \in Env, status'[f] = "RUNNABLE" PROVE OwnPages(f)'
    <3>1. OwnPages(f) /\ f # e
      BY <1>2, <2>2 DEF IInv, CompleteInv
    <3> QED BY <1>3, <1>6, <3>1 DEF OwnPages, Mapped
  <2>3. ASSUME NEW f \in Env, NEW d \in Env, fk'[f].child = d PROVE ChildPages(f, d)'
    <3>1. fk[f].child = d /\ ChildPages(f, d) /\ f # e /\ ChildOK(f, d)
      BY <1>4, <2>3 DEF IInv, CompleteInv, ChildInv
    <3>2. d # e
      BY <3>1 DEF ChildOK
    <3>3. pte'[d] = pte[d] /\ want'[d] = want[d] /\ fk'[f] = fk[f]
      BY <1>3, <1>4, <1>6, <3>1, <3>2
    <3> HIDE <1>3, <1>4, <1>6
    <3> QED BY <3>1, <3>3 DEF ChildPages, Handed, Mapped
  <2> QED BY <2>1, <2>2, <2>3 DEF CompleteInv
<1>17. EntryInv'
  BY <1>1, <1>2, <1>3 DEF IInv, EntryInv
<1>18. PrivateMemory'
  <2> SUFFICES ASSUME NEW f \in Env, NEW w \in Private, Mapped(f, w)', want'[f][w] # Null
               PROVE  content'[pte'[f][w].page] = want'[f][w]
    BY DEF PrivateMemory
  <2>1. f # e /\ Mapped(f, w)
    BY <1>3, <1>6 DEF Mapped
  <2>2. pte'[f] = pte[f] /\ want'[f] = want[f] /\ w \in Va
    BY <1>3, <1>6, <2>1
  <2>3. content[pte[f][w].page] = want[f][w]
    BY <2>1, <2>2 DEF IInv, PrivateMemory
  <2> QED BY <1>7, <2>1, <2>2, <2>3
<1> QED BY <1>8, <1>9, <1>10, <1>13, <1>14, <1>15, <1>16, <1>17, <1>18 DEF IInv

\* exit.
LEMMA StepExit == ASSUME IInv, NEW e \in Env, exit(e) PROVE IInv'
<1>1. status[e] = "RUNNABLE" /\ fk[e].pc = "idle" /\ destroy(e) /\ forks' = forks
  BY DEF exit, Runs
<1> QED BY <1>1, Destroyed

-------------------------------------------------------------------------------
\* A step of the handler that leaves fork alone: what the invariants that only depend on
\* the page tables and the places in fork need.
Handling(e) ==
    /\ status' = status /\ entry' = entry /\ fk' = fk /\ want' = want
    /\ halted' = halted /\ lost' = lost /\ forks' = forks
    /\ cow' \in [Env -> CowRecord]
    /\ \A f \in Env : f # e => pte'[f] = pte[f] /\ cow'[f] = cow[f]
    /\ \A v \in Va \ {UCOW} : Mapped(e, v) <=> Mapped(e, v)'

\* A process in the handler is running, is nobody's child and has no page in work.
LEMMA InHandlerFacts ==
    ASSUME IInv, NEW e \in Env, NEW pc \in {"perm", "alloc", "copy", "map", "unmap", "retry"},
           InHandler(e, pc)
    PROVE  /\ status[e] = "RUNNABLE" /\ cow[e].pc = pc /\ HandlerOK(e) /\ ForkOK(e)
           /\ cow[e].va \in Va /\ cow[e].va # UCOW /\ Mapped(e, cow[e].va)
           /\ pte[e][cow[e].va].page \in Page
           /\ fk[e].pc \notin {"enter", "child", "parent"}
           /\ fk[e].pc # "idle" => cow[e].va = Stack
           /\ \A f \in Env : fk[f].child # e
<1>1. status[e] = "RUNNABLE" /\ cow[e].pc = pc
  BY DEF InHandler
<1>2. HandlerOK(e) /\ ForkOK(e)
  BY DEF IInv, HandlerInv, ForkInv
<1>3. cow[e].va \in Va
  BY Types DEF IInv
<1>4. /\ cow[e].va # UCOW /\ Mapped(e, cow[e].va)
      /\ fk[e].pc \notin {"enter", "child", "parent"} /\ (fk[e].pc # "idle" => cow[e].va = Stack)
  BY <1>1, <1>2 DEF HandlerOK
<1>5. pte[e][cow[e].va].page \in Page
  BY <1>3, <1>4, Types DEF IInv, Mapped
<1>6. \A f \in Env : fk[f].child # e
  BY <1>1 DEF IInv, ChildInv, ChildOK
<1> QED BY <1>1, <1>2, <1>3, <1>4, <1>5, <1>6

\* Such a step keeps the slots, the children and the completeness of memory.
LEMMA HandlingKeeps ==
    ASSUME IInv, NEW e \in Env, Handling(e), status[e] = "RUNNABLE",
           fk[e].pc # "parent", \A f \in Env : fk[f].child # e,
           \A v \in Library : (Mapped(e, v) => pte[e][v].perm = Shared) => pte'[e][v] = pte[e][v]
    PROVE  SlotInv' /\ ChildInv' /\ CompleteInv'
<1> USE Constants, Addresses DEF Handling
<1>1. SlotInv'
  BY DEF IInv, SlotInv, SlotOK
<1>2. ASSUME NEW f \in Env, NEW d \in Env, fk'[f].child = d
      PROVE  ChildOK(f, d)' /\ (ChildPages(f, d) => ChildPages(f, d)')
  <2>1. fk[f].child = d /\ ChildOK(f, d) /\ d # e
    BY <1>2 DEF IInv, ChildInv
  <2>2. pte'[d] = pte[d] /\ (fk[f].pc = "parent" => pte'[f] = pte[f])
    BY <2>1
  <2>3. ChildOK(f, d)'
    BY <2>1, <2>2 DEF ChildOK, Mapped
  <2>4. ChildPages(f, d) => ChildPages(f, d)'
    BY <2>1, <2>2 DEF ChildPages, Handed, Mapped
  <2> QED BY <2>3, <2>4
<1>3. ChildInv'
  BY <1>2 DEF ChildInv
<1>4. CompleteInv'
  <2> SUFFICES ASSUME ~lost PROVE CompleteInv'
    BY DEF CompleteInv
  <2>1. \A v \in Library : pte'[e][v] = pte[e][v]
    BY DEF IInv, CompleteInv, SamePages
  <2>2. SamePages'
    BY <2>1 DEF IInv, CompleteInv, SamePages, Mapped
  <2>3. ASSUME NEW f \in Env, status'[f] = "RUNNABLE" PROVE OwnPages(f)'
    <3>1. OwnPages(f)
      BY <2>3 DEF IInv, CompleteInv
    <3>2. CASE f = e
      BY <3>1, <3>2 DEF OwnPages
    <3>3. CASE f # e
      BY <3>1, <3>3 DEF OwnPages, Mapped
    <3> QED BY <3>2, <3>3
  <2>4. \A f, d \in Env : fk'[f].child = d => ChildPages(f, d)'
    BY <1>2 DEF IInv, CompleteInv
  <2> QED BY <2>2, <2>3, <2>4 DEF CompleteInv
<1> QED BY <1>1, <1>3, <1>4

\* Step 1 and 2 of cow_entry: the page is copy on write, so the process lives on.
LEMMA StepCowPerm == ASSUME IInv, NEW e \in Env, cow_perm(e) PROVE IInv'
<1> USE Constants, Addresses
<1>1. InHandler(e, "perm")
  BY DEF cow_perm
<1>2. /\ status[e] = "RUNNABLE" /\ cow[e].pc = "perm" /\ HandlerOK(e) /\ ForkOK(e)
      /\ fk[e].pc # "parent" /\ \A f \in Env : fk[f].child # e
  BY <1>1, InHandlerFacts
<1>3. pte[e][cow[e].va].perm = Cow
  BY <1>2 DEF HandlerOK
<1>4. Uncowed(Cow) = Writable
  BY DEF Uncowed, Cow, Writable
<1>5. /\ cow' = [cow EXCEPT ![e].pc = "alloc", ![e].perm = Writable]
      /\ pte' = pte /\ content' = content /\ status' = status /\ entry' = entry /\ fk' = fk
      /\ halted' = halted /\ want' = want /\ lost' = lost /\ forks' = forks
  BY <1>3, <1>4 DEF cow_perm
<1>6. /\ cow' \in [Env -> CowRecord] /\ cow'[e].pc = "alloc" /\ cow'[e].va = cow[e].va
      /\ cow'[e].perm = Writable
      /\ \A f \in Env : f # e => cow'[f] = cow[f]
  <2>1. cow \in [Env -> CowRecord] /\ cow[e] \in CowRecord
    BY DEF IInv, TypeOK
  <2>2. cow'[e] = [cow[e] EXCEPT !.pc = "alloc", !.perm = Writable]
    BY <1>5, <2>1
  <2>3. cow'[e] \in CowRecord
    BY <2>1, <2>2 DEF CowRecord
  <2>4. \A f \in Env : f # e => cow'[f] = cow[f]
    BY <1>5, <2>1
  <2>5. cow' \in [Env -> CowRecord]
    BY <1>5, <2>1, <2>3, <2>4
  <2>6. cow'[e].pc = "alloc" /\ cow'[e].va = cow[e].va /\ cow'[e].perm = Writable
    BY <2>1, <2>2 DEF CowRecord
  <2> QED BY <2>4, <2>5, <2>6
<1>7. TypeOK'
  BY <1>5, <1>6 DEF IInv, TypeOK
<1>8. PermInv' /\ EntryInv' /\ PrivateMemory'
  BY <1>5 DEF IInv, PermInv, EntryInv, PrivateMemory, Mapped
<1>9. HandlerOK(e)' /\ ForkOK(e)'
  BY <1>2, <1>5, <1>6 DEF HandlerOK, ForkOK, Mapped
<1>10. HandlerInv' /\ ForkInv'
  BY <1>5, <1>6, <1>9, Undisturbed DEF IInv, HandlerInv, ForkInv
<1>11. AliasInv'
  BY <1>2, <1>5, <1>6, AliasKept DEF IInv
<1>12. SlotInv' /\ ChildInv' /\ CompleteInv'
  <2>1. Handling(e)
    BY <1>5, <1>6 DEF Handling, Mapped
  <2>2. \A v \in Library : pte'[e][v] = pte[e][v]
    BY <1>5
  <2> QED BY <1>2, <2>1, <2>2, HandlingKeeps
<1> QED BY <1>7, <1>8, <1>10, <1>11, <1>12 DEF IInv

\* Step 3: the page at UCOW is new; without one the process exits.
LEMMA StepCowAlloc == ASSUME IInv, NEW e \in Env, cow_alloc(e) PROVE IInv'
<1> USE Constants, Addresses
<1>1. InHandler(e, "alloc")
  BY DEF cow_alloc
<1>2. /\ status[e] = "RUNNABLE" /\ cow[e].pc = "alloc" /\ HandlerOK(e) /\ ForkOK(e)
      /\ cow[e].va # UCOW
      /\ fk[e].pc # "parent" /\ \A f \in Env : fk[f].child # e
  BY <1>1, InHandlerFacts
<1>3. CASE FreePages = {}
  BY <1>2, <1>3, Destroyed DEF cow_alloc
<1>4. CASE FreePages # {}
  <2>0. PICK p \in Page : p = Fresh /\ p # Null /\ \A f \in Env, w \in Va : pte[f][w].page # p
    BY <1>4, FreshPage
  <2>1. /\ pte' = [pte EXCEPT ![e][UCOW] = [page |-> p, perm |-> cow[e].perm]]
        /\ content' = [content EXCEPT ![p] = 0]
        /\ Handle(e, "copy")
        /\ status' = status /\ entry' = entry /\ fk' = fk
        /\ halted' = halted /\ want' = want /\ lost' = lost /\ forks' = forks
    BY <1>4, <2>0 DEF cow_alloc
  <2>2. Handled(e, "copy")
    BY <2>1, HandleEffect DEF IInv, TypeOK
  <2> DEFINE new == [page |-> p, perm |-> Writable]
  <2>3. new \in Pte /\ new.page = p /\ new.perm = Writable
    BY DEF Pte
  <2>4. pte' = [pte EXCEPT ![e][UCOW] = new]
    BY <1>2, <2>1 DEF HandlerOK
  <2> HIDE DEF new
  <2>5. /\ pte' \in [Env -> [Va -> Pte]] /\ pte'[e][UCOW] = new
        /\ \A f \in Env, w \in Va : ~(f = e /\ w = UCOW) => pte'[f][w] = pte[f][w]
        /\ \A f \in Env : f # e => pte'[f] = pte[f]
    BY <2>3, <2>4 DEF IInv, TypeOK
  <2>6. /\ content' \in [Page -> Val]
        /\ \A q \in Page : q # p => content'[q] = content[q]
    BY <2>1 DEF IInv, TypeOK
  <2>7. \A f \in Env, w \in Va : Mapped(f, w) => /\ pte[f][w].page \in Page
                                                 /\ content'[pte[f][w].page] = content[pte[f][w].page]
    <3> SUFFICES ASSUME NEW f \in Env, NEW w \in Va, Mapped(f, w)
                 PROVE  /\ pte[f][w].page \in Page
                        /\ content'[pte[f][w].page] = content[pte[f][w].page]
      OBVIOUS
    <3>1. pte[f][w].page \in Page
      BY Types DEF IInv, Mapped
    <3> QED BY <2>0, <2>6, <3>1
  <2>8. TypeOK'
    BY <2>1, <2>2, <2>5, <2>6 DEF IInv, TypeOK, Handled
  <2>9. PermInv'
    BY <2>0, <2>3, <2>5 DEF IInv, PermInv, PermOK
  <2>10. EntryInv'
    BY <2>1, <2>3, <2>5 DEF IInv, EntryInv
  <2>11. PrivateMemory'
    <3> SUFFICES ASSUME NEW f \in Env, NEW w \in Private, Mapped(f, w)', want'[f][w] # Null
                 PROVE  content'[pte'[f][w].page] = want'[f][w]
      BY DEF PrivateMemory
    <3>1. pte'[f][w] = pte[f][w] /\ Mapped(f, w) /\ want'[f][w] = want[f][w]
      BY <2>1, <2>5 DEF Mapped
    <3>2. content[pte[f][w].page] = want[f][w] /\ w \in Va
      BY <3>1 DEF IInv, PrivateMemory
    <3> QED BY <2>7, <3>1, <3>2
  <2>12. HandlerOK(e)'
    BY <1>2, <2>0, <2>1, <2>2, <2>3, <2>5, Types DEF IInv, HandlerOK, Handled, Mapped
  <2>13. ForkOK(e)'
    BY <1>2, <2>1, <2>2, <2>5 DEF ForkOK, Handled, Mapped
  <2>14. ASSUME NEW f \in Env, f # e PROVE HandlerOK(f)' /\ ForkOK(f)'
    <3>1. HandlerOK(f) /\ ForkOK(f)
      BY DEF IInv, HandlerInv, ForkInv
    <3>2. cow[f].pc = "map" => Mapped(f, UCOW) /\ Mapped(f, cow[f].va) /\ cow[f].va \in Va
      BY <3>1, Types DEF IInv, HandlerOK
    <3> QED BY <2>1, <2>2, <2>5, <2>7, <2>14, <3>1, <3>2, Undisturbed DEF Handled
  <2>15. HandlerInv' /\ ForkInv'
    BY <2>12, <2>13, <2>14 DEF HandlerInv, ForkInv
  <2>16. AliasInv'
    BY <1>2, <2>0, <2>1, <2>2, <2>3, <2>5, AliasFresh DEF IInv, Handled
  <2>17. SlotInv' /\ ChildInv' /\ CompleteInv'
    <3>1. Handling(e)
      BY <2>1, <2>2, <2>5 DEF Handling, Handled, Mapped
    <3>2. \A v \in Library : pte'[e][v] = pte[e][v]
      BY <2>5
    <3> QED BY <1>2, <3>1, <3>2, HandlingKeeps
  <2> QED BY <2>8, <2>9, <2>10, <2>11, <2>15, <2>16, <2>17 DEF IInv
<1> QED BY <1>3, <1>4

\* What is at UCOW in step 4 and 5 is mapped nowhere else.
LEMMA UcowAlone ==
    ASSUME IInv, NEW e \in Env, cow[e].pc \in {"copy", "map"}
    PROVE  /\ pte[e][UCOW].page \in Page
           /\ \A f \in Env, w \in Va : ~(f = e /\ w = UCOW) => pte[f][w].page # pte[e][UCOW].page
<1> USE Constants, Addresses
<1>1. Mapped(e, UCOW)
  BY DEF IInv, HandlerInv, HandlerOK
<1>2. pte[e][UCOW].page \in Page
  BY <1>1, Types DEF IInv, Mapped
<1>3. ASSUME NEW f \in Env, NEW w \in Va, ~(f = e /\ w = UCOW), pte[f][w].page = pte[e][UCOW].page
      PROVE  FALSE
  <2>1. AliasCase(e, UCOW, f, w)
    BY <1>1, <1>3 DEF IInv, AliasInv, Aliased
  <2> QED BY <2>1 DEF AliasCase
<1> QED BY <1>2, <1>3

\* Step 4: the copy.
LEMMA StepCowCopy == ASSUME IInv, NEW e \in Env, cow_copy(e) PROVE IInv'
<1> USE Constants, Addresses
<1>1. InHandler(e, "copy")
  BY DEF cow_copy
<1>2. /\ status[e] = "RUNNABLE" /\ cow[e].pc = "copy" /\ HandlerOK(e) /\ ForkOK(e)
      /\ cow[e].va \in Va /\ cow[e].va # UCOW /\ pte[e][cow[e].va].page \in Page
      /\ fk[e].pc # "parent" /\ \A f \in Env : fk[f].child # e
  BY <1>1, InHandlerFacts
<1>3. PICK p \in Page : /\ p = pte[e][UCOW].page
                        /\ \A f \in Env, w \in Va : ~(f = e /\ w = UCOW) => pte[f][w].page # p
  BY <1>2, UcowAlone
<1>4. /\ content' = [content EXCEPT ![p] = content[pte[e][cow[e].va].page]]
      /\ Handle(e, "map") /\ pte' = pte
      /\ status' = status /\ entry' = entry /\ fk' = fk
      /\ halted' = halted /\ want' = want /\ lost' = lost /\ forks' = forks
  BY <1>3 DEF cow_copy
<1>5. Handled(e, "map")
  BY <1>4, HandleEffect DEF IInv, TypeOK
<1>6. /\ content' \in [Page -> Val]
      /\ \A q \in Page : q # p => content'[q] = content[q]
      /\ content'[p] = content[pte[e][cow[e].va].page]
  BY <1>2, <1>4 DEF IInv, TypeOK
<1>7. \A f \in Env, w \in Va : Mapped(f, w) /\ ~(f = e /\ w = UCOW) =>
         /\ pte[f][w].page \in Page
         /\ content'[pte[f][w].page] = content[pte[f][w].page]
  BY <1>3, <1>6, Types DEF IInv, Mapped
<1>8. TypeOK'
  BY <1>4, <1>5, <1>6 DEF IInv, TypeOK, Handled
<1>9. PermInv' /\ EntryInv'
  BY <1>4 DEF IInv, PermInv, EntryInv
<1>10. PrivateMemory'
  BY <1>4, <1>7 DEF IInv, PrivateMemory, Mapped
<1>11. HandlerOK(e)'
  BY <1>2, <1>3, <1>4, <1>5, <1>6 DEF HandlerOK, Handled, Mapped
<1>12. ForkOK(e)'
  BY <1>2, <1>4, <1>5 DEF ForkOK, Handled, Mapped
<1>13. ASSUME NEW f \in Env, f # e PROVE HandlerOK(f)' /\ ForkOK(f)'
  <2>1. HandlerOK(f) /\ ForkOK(f)
    BY DEF IInv, HandlerInv, ForkInv
  <2>2. cow[f].pc = "map" => Mapped(f, UCOW) /\ Mapped(f, cow[f].va) /\ cow[f].va \in Va
    BY <2>1, Types DEF IInv, HandlerOK
  <2> QED BY <1>4, <1>5, <1>7, <1>13, <2>1, <2>2, Undisturbed DEF Handled
<1>14. HandlerInv' /\ ForkInv'
  BY <1>11, <1>12, <1>13 DEF HandlerInv, ForkInv
<1>15. AliasInv'
  BY <1>2, <1>4, <1>5, AliasKept DEF IInv, Handled
<1>16. SlotInv' /\ ChildInv' /\ CompleteInv'
  <2>1. Handling(e)
    BY <1>4, <1>5 DEF Handling, Handled, Mapped
  <2>2. \A v \in Library : pte'[e][v] = pte[e][v]
    BY <1>4
  <2> QED BY <1>2, <2>1, <2>2, HandlingKeeps
<1> QED BY <1>8, <1>9, <1>10, <1>14, <1>15, <1>16 DEF IInv

\* Step 5: the copy takes the place of the page.
LEMMA StepCowMap == ASSUME IInv, NEW e \in Env, cow_map(e) PROVE IInv'
<1> USE Constants, Addresses
<1>1. InHandler(e, "map")
  BY DEF cow_map
<1>2. /\ status[e] = "RUNNABLE" /\ cow[e].pc = "map" /\ HandlerOK(e) /\ ForkOK(e)
      /\ fk[e].pc \notin {"enter", "child", "parent"} /\ \A f \in Env : fk[f].child # e
  BY <1>1, InHandlerFacts
<1>3. PICK va \in Va : /\ va = cow[e].va /\ va # UCOW /\ Mapped(e, va) /\ pte[e][va].perm = Cow
                       /\ pte[e][va].page \in Page
  BY <1>1, <1>2, InHandlerFacts DEF HandlerOK
<1>4. PICK p \in Page : /\ p = pte[e][UCOW].page
                        /\ \A f \in Env, w \in Va : ~(f = e /\ w = UCOW) => pte[f][w].page # p
  BY <1>2, UcowAlone
<1>5. /\ pte' = [pte EXCEPT ![e][va] = [page |-> p, perm |-> cow[e].perm]]
      /\ content' = [q \in Page |->
                       IF \E f \in Env, v \in Va : pte'[f][v].page = q THEN content[q] ELSE 0]
      /\ Handle(e, "unmap")
      /\ status' = status /\ entry' = entry /\ fk' = fk
      /\ halted' = halted /\ want' = want /\ lost' = lost /\ forks' = forks
  BY <1>3, <1>4 DEF cow_map, zero_unmapped
<1>6. Handled(e, "unmap")
  BY <1>5, HandleEffect DEF IInv, TypeOK
<1> DEFINE new == [page |-> p, perm |-> Writable]
<1>7. new \in Pte /\ new.page = p /\ new.perm = Writable
  BY DEF Pte
<1>8. pte' = [pte EXCEPT ![e][va] = new]
  BY <1>2, <1>5 DEF HandlerOK
<1> HIDE DEF new
<1>9. /\ pte' \in [Env -> [Va -> Pte]] /\ pte'[e][va] = new
      /\ \A f \in Env, w \in Va : ~(f = e /\ w = va) => pte'[f][w] = pte[f][w]
      /\ \A f \in Env : f # e => pte'[f] = pte[f]
  BY <1>7, <1>8 DEF IInv, TypeOK
<1>10. /\ content' \in [Page -> Val]
       /\ \A f \in Env, w \in Va : Mapped(f, w)' =>
             content'[pte'[f][w].page] = content[pte'[f][w].page]
  <2>1. content' \in [Page -> Val]
    BY <1>5 DEF IInv, TypeOK
  <2>2. ASSUME NEW f \in Env, NEW w \in Va, Mapped(f, w)'
        PROVE  content'[pte'[f][w].page] = content[pte'[f][w].page]
    <3>1. pte'[f][w].page \in Page
      BY <1>9, <2>2 DEF Mapped, Pte
    <3> QED BY <1>5, <3>1
  <2> QED BY <2>1, <2>2
<1>11. p # Null /\ content[p] = content[pte[e][va].page]
  BY <1>2, <1>3, <1>4 DEF HandlerOK
<1>12. TypeOK'
  BY <1>5, <1>6, <1>9, <1>10 DEF IInv, TypeOK, Handled
<1>13. PermInv'
  <2>1. PermOK(new, va)
    BY <1>7, <1>11 DEF PermOK
  <2> QED BY <1>9, <2>1 DEF IInv, PermInv
<1>14. EntryInv'
  BY <1>5, <1>7, <1>9 DEF IInv, EntryInv
<1>15. PrivateMemory'
  <2> SUFFICES ASSUME NEW f \in Env, NEW w \in Private, Mapped(f, w)', want'[f][w] # Null
               PROVE  content'[pte'[f][w].page] = want'[f][w]
    BY DEF PrivateMemory
  <2>1. want'[f][w] = want[f][w] /\ w \in Va /\ content'[pte'[f][w].page] = content[pte'[f][w].page]
    BY <1>5, <1>10
  <2>2. CASE f = e /\ w = va
    <3>1. content[pte[e][va].page] = want[e][va]
      BY <1>3, <2>1, <2>2 DEF IInv, PrivateMemory
    <3> QED BY <1>7, <1>9, <1>11, <2>1, <2>2, <3>1
  <2>3. CASE ~(f = e /\ w = va)
    <3>1. pte'[f][w] = pte[f][w] /\ Mapped(f, w)
      BY <1>9, <2>1, <2>3 DEF Mapped
    <3>2. content[pte[f][w].page] = want[f][w]
      BY <2>1, <3>1 DEF IInv, PrivateMemory
    <3> QED BY <2>1, <3>1, <3>2
  <2> QED BY <2>2, <2>3
<1>16. HandlerOK(e)'
  BY <1>2, <1>3, <1>4, <1>5, <1>6, <1>7, <1>9, <1>11 DEF HandlerOK, Handled, Mapped
<1>17. ForkOK(e)'
  BY <1>2, <1>5, <1>6, <1>7, <1>9, <1>11 DEF ForkOK, Handled, Mapped
<1>18. ASSUME NEW f \in Env, f # e PROVE HandlerOK(f)' /\ ForkOK(f)'
  <2>1. HandlerOK(f) /\ ForkOK(f)
    BY DEF IInv, HandlerInv, ForkInv
  <2>2. cow[f].pc = "map" => Mapped(f, UCOW) /\ Mapped(f, cow[f].va) /\ cow[f].va \in Va
    BY <2>1, Types DEF IInv, HandlerOK
  <2>3. cow[f].pc = "map" =>
              /\ content'[pte[f][UCOW].page] = content[pte[f][UCOW].page]
              /\ content'[pte[f][cow[f].va].page] = content[pte[f][cow[f].va].page]
    <3>1. \A w \in Va : Mapped(f, w) => content'[pte[f][w].page] = content[pte[f][w].page]
      BY <1>9, <1>10, <1>18 DEF Mapped
    <3> QED BY <2>2, <3>1
  <2> QED BY <1>5, <1>6, <1>9, <1>18, <2>1, <2>3, Undisturbed DEF Handled
<1>19. HandlerInv' /\ ForkInv'
  BY <1>16, <1>17, <1>18 DEF HandlerInv, ForkInv
<1>20. AliasInv'
  <2> SUFFICES ASSUME NEW f \in Env, NEW g \in Env, NEW w \in Va, NEW u \in Va,
                      Aliased(f, w, g, u)'
               PROVE  AliasCase(f, w, g, u)'
    BY DEF AliasInv
  <2>1. CASE ~(f = e /\ w = va) /\ ~(g = e /\ u = va)
    BY <1>2, <1>5, <1>6, <1>9, <2>1, AliasPair DEF IInv, Handled
  <2>2. CASE f = e /\ w = va
    <3>1. g = e /\ u = UCOW
      BY <1>4, <1>7, <1>9, <2>2 DEF Aliased
    <3> QED BY <1>3, <1>6, <2>2, <3>1 DEF AliasCase, Handled
  <2>3. CASE g = e /\ u = va
    <3>1. f = e /\ w = UCOW
      <4>1. Mapped(f, w)' /\ pte'[f][w].page = p
        BY <1>7, <1>9, <2>3 DEF Aliased
      <4>2. ~(f = e /\ w = va)
        BY <2>3 DEF Aliased
      <4>3. pte[f][w].page = p
        BY <1>9, <4>1, <4>2
      <4> QED BY <1>4, <4>2, <4>3
    <3> QED BY <1>3, <1>6, <2>3, <3>1 DEF AliasCase, Handled
  <2> QED BY <2>1, <2>2, <2>3
<1>21. SlotInv' /\ ChildInv' /\ CompleteInv'
  <2>1. Handling(e)
    BY <1>3, <1>5, <1>6, <1>7, <1>9, <1>11 DEF Handling, Handled, Mapped
  <2>2. \A v \in Library : (Mapped(e, v) => pte[e][v].perm = Shared) => pte'[e][v] = pte[e][v]
    BY <1>3, <1>9
  <2> QED BY <1>2, <2>1, <2>2, HandlingKeeps
<1> QED BY <1>12, <1>13, <1>14, <1>15, <1>19, <1>20, <1>21 DEF IInv

\* Step 6: UCOW is free for the next fault.
LEMMA StepCowUnmap == ASSUME IInv, NEW e \in Env, cow_unmap(e) PROVE IInv'
<1> USE Constants, Addresses
<1>1. InHandler(e, "unmap")
  BY DEF cow_unmap
<1>2. /\ status[e] = "RUNNABLE" /\ cow[e].pc = "unmap" /\ HandlerOK(e) /\ ForkOK(e)
      /\ cow[e].va # UCOW /\ fk[e].pc # "parent" /\ \A f \in Env : fk[f].child # e
  BY <1>1, InHandlerFacts
<1>3. /\ pte' = [pte EXCEPT ![e][UCOW] = Unmapped]
      /\ Handle(e, "retry") /\ content' = content
      /\ status' = status /\ entry' = entry /\ fk' = fk
      /\ halted' = halted /\ want' = want /\ lost' = lost /\ forks' = forks
  BY DEF cow_unmap
<1>4. Handled(e, "retry")
  BY <1>3, HandleEffect DEF IInv, TypeOK
<1>5. /\ pte' \in [Env -> [Va -> Pte]] /\ pte'[e][UCOW] = Unmapped
      /\ \A f \in Env, w \in Va : ~(f = e /\ w = UCOW) => pte'[f][w] = pte[f][w]
      /\ \A f \in Env : f # e => pte'[f] = pte[f]
  BY <1>3 DEF IInv, TypeOK
<1>6. TypeOK'
  BY <1>3, <1>4, <1>5 DEF IInv, TypeOK, Handled
<1>7. PermInv'
  BY <1>5 DEF IInv, PermInv, PermOK
<1>8. EntryInv'
  BY <1>3, <1>5 DEF IInv, EntryInv
<1>9. PrivateMemory'
  BY <1>3, <1>5 DEF IInv, PrivateMemory, Mapped
<1>10. HandlerOK(e)'
  BY <1>2, <1>3, <1>4, <1>5, Types DEF IInv, HandlerOK, Handled, Mapped
<1>11. ForkOK(e)'
  BY <1>2, <1>3, <1>4, <1>5 DEF ForkOK, Handled, Mapped
<1>12. HandlerInv' /\ ForkInv'
  BY <1>3, <1>4, <1>5, <1>10, <1>11, Undisturbed DEF IInv, HandlerInv, ForkInv, Handled
<1>13. AliasInv'
  <2> SUFFICES ASSUME NEW f \in Env, NEW g \in Env, NEW w \in Va, NEW u \in Va,
                      Aliased(f, w, g, u)'
               PROVE  AliasCase(f, w, g, u)'
    BY DEF AliasInv
  <2>1. ~(f = e /\ w = UCOW) /\ ~(g = e /\ u = UCOW)
    BY <1>5 DEF Aliased, Mapped
  <2>2. pte'[f][w] = pte[f][w] /\ pte'[g][u] = pte[g][u]
    BY <1>5, <2>1
  <2>3. AliasCase(f, w, g, u)
    BY <2>2 DEF IInv, AliasInv, Aliased, Mapped
  <2>4. CASE f # e
    BY <1>3, <1>4, <2>2, <2>4, AliasPair DEF IInv, Handled
  <2>5. CASE f = e
    <3>1. g # f /\ w = u /\ w # UCOW
      BY <2>1, <2>3, <2>5 DEF AliasCase
    <3>2. (InWork(f, g, w) <=> InWork(f, g, w)') /\ (InWork(g, f, w) <=> InWork(g, f, w)')
      BY <1>3, <2>2, <3>1 DEF InWork
    <3> QED BY <2>2, <2>3, <3>1, <3>2 DEF AliasCase
  <2> QED BY <2>4, <2>5
<1>14. SlotInv' /\ ChildInv' /\ CompleteInv'
  <2>1. Handling(e)
    BY <1>3, <1>4, <1>5 DEF Handling, Handled, Mapped
  <2>2. \A v \in Library : pte'[e][v] = pte[e][v]
    BY <1>5
  <2> QED BY <1>2, <2>1, <2>2, HandlingKeeps
<1> QED BY <1>6, <1>7, <1>8, <1>9, <1>12, <1>13, <1>14 DEF IInv

\* Step 7: the store is executed again, and does not fault.
LEMMA StepRetry == ASSUME IInv, NEW e \in Env, retry(e) PROVE IInv'
<1> USE Constants, Addresses, IdleRecords
<1>1. InHandler(e, "retry")
  BY DEF retry
<1>2. PICK va \in Va : va = cow[e].va /\ va # UCOW /\ Mapped(e, va)
  BY <1>1, InHandlerFacts
<1>3. /\ status[e] = "RUNNABLE" /\ cow[e].pc = "retry" /\ HandlerOK(e)
      /\ fk[e].pc \notin {"enter", "child", "parent"} /\ (fk[e].pc # "idle" => va = Stack)
  BY <1>1, <1>2, InHandlerFacts
<1>4. pte[e][va].perm = Writable
  BY <1>2, <1>3 DEF HandlerOK
<1>5. PICK x \in Val : x = cow[e].val
  BY Types DEF IInv
<1>6. /\ write(e, va, pte[e][va].page, x) /\ cow' = [cow EXCEPT ![e] = NoFault] /\ halted' = halted
      /\ pte' = pte /\ status' = status /\ entry' = entry /\ fk' = fk /\ lost' = lost /\ forks' = forks
  BY <1>2, <1>4, <1>5 DEF retry
<1>7. /\ cow' \in [Env -> CowRecord] /\ cow'[e].pc = "idle"
      /\ \A f \in Env : f # e => cow'[f] = cow[f]
  <2>1. NoFault \in CowRecord
    BY DEF NoFault, CowRecord
  <2> QED BY <1>6, <2>1 DEF IInv, TypeOK
<1>8. Storing(e, va)
  BY <1>2, <1>3, <1>6 DEF Storing, StoreFork, IInv, TypeOK
<1> QED BY <1>2, <1>3, <1>4, <1>6, <1>7, <1>8, Written

-------------------------------------------------------------------------------
\* The effect of NextPage, field by field.
PageDone(e) ==
    /\ fk' \in [Env -> ForkRecord]
    /\ fk'[e].pc = "loop" /\ fk'[e].i = fk[e].i + 1 /\ fk'[e].child = fk[e].child
    /\ \A f \in Env : f # e => fk'[f] = fk[f]

\* duppage returns to the loop.
LEMMA NextPageEffect ==
    ASSUME fk \in [Env -> ForkRecord], NEW e \in Env, fk[e].i \in Va, NextPage(e)
    PROVE  PageDone(e)
<1>1. fk[e] \in ForkRecord /\ fk[e].i + 1 \in 0..NVA
  BY ForkAssumption DEF Va
<1>2. fk'[e] = [fk[e] EXCEPT !.pc = "loop", !.i = fk[e].i + 1, !.perm = Writable, !.remap = FALSE]
  BY DEF NextPage
<1>3. fk'[e] \in ForkRecord
  BY <1>1, <1>2, Constants DEF ForkRecord
<1>4. \A f \in Env : f # e => fk'[f] = fk[f]
  BY DEF NextPage
<1>5. DOMAIN fk' = Env /\ fk' = [f \in Env |-> fk'[f]]
  BY DEF NextPage
<1>6. fk' \in [Env -> ForkRecord]
  BY <1>3, <1>4, <1>5
<1>7. fk'[e].pc = "loop" /\ fk'[e].i = fk[e].i + 1 /\ fk'[e].child = fk[e].child
  BY <1>1, <1>2 DEF ForkRecord
<1> QED BY <1>4, <1>6, <1>7 DEF PageDone

\* What a system call of duppage leaves alone, and the page i it works on.
Duppage(e, i) ==
    /\ status[e] = "RUNNABLE" /\ cow[e].pc = "idle" /\ HandlerOK(e) /\ ForkOK(e)
    /\ fk[e].i = i /\ i \in Va /\ i # UCOW /\ Mapped(e, i) /\ pte[e][i].page \in Page
    /\ content' = content /\ status' = status /\ entry' = entry /\ cow' = cow
    /\ halted' = halted /\ forks' = forks
    /\ \A f \in Env : fk[f].child # e

\* A process in duppage is nobody's child.
LEMMA DuppageFacts ==
    ASSUME IInv, NEW e \in Env, NEW pc \in {"child", "parent"}, InFork(e, pc),
           content' = content, status' = status, entry' = entry, cow' = cow,
           halted' = halted, forks' = forks
    PROVE  Duppage(e, fk[e].i) /\ fk[e].pc = pc
<1> USE Constants, Addresses
<1>1. status[e] = "RUNNABLE" /\ cow[e].pc = "idle" /\ fk[e].pc = pc
  BY DEF InFork, Runs
<1>2. HandlerOK(e) /\ ForkOK(e)
  BY DEF IInv, HandlerInv, ForkInv
<1>3. fk[e].i \in Va /\ fk[e].i # UCOW /\ Mapped(e, fk[e].i)
  BY <1>1, <1>2 DEF ForkOK
<1>4. pte[e][fk[e].i].page \in Page
  BY <1>3, Types DEF IInv, Mapped
<1>5. \A f \in Env : fk[f].child # e
  BY <1>1 DEF IInv, ChildInv, ChildOK
<1> QED BY <1>1, <1>2, <1>3, <1>4, <1>5 DEF Duppage

\* What becomes of fork after the call into the child.
Called(e) ==
    \/ fk[e].remap /\ ForkMoved(e, "parent")
    \/ ~fk[e].remap /\ PageDone(e)

\* The call into the child did nothing: there is no child, or the mapping is lost.
LEMMA NotMapped ==
    ASSUME IInv, NEW e \in Env, NEW i, Duppage(e, i), fk[e].pc = "child", Called(e),
           pte' = pte, want' = want, lost' \in BOOLEAN,
           (fk[e].child = Null /\ lost' = lost) \/ (fk[e].child # Null /\ lost' = TRUE)
    PROVE  IInv'
<1> USE Constants, Addresses DEF Duppage
<1>1. /\ fk' \in [Env -> ForkRecord] /\ \A f \in Env : f # e => fk'[f] = fk[f]
      /\ fk'[e].child = fk[e].child
      /\ \/ fk'[e].pc = "parent" /\ fk'[e].i = i /\ fk'[e].perm = fk[e].perm /\ fk[e].remap
         \/ fk'[e].pc = "loop" /\ fk'[e].i = i + 1
  BY DEF Called, ForkMoved, PageDone
<1>2. TypeOK'
  BY <1>1 DEF IInv, TypeOK
<1>3. PermInv' /\ EntryInv' /\ PrivateMemory'
  BY DEF IInv, PermInv, EntryInv, PrivateMemory, Mapped
<1>4. SlotInv'
  BY <1>1 DEF IInv, SlotInv, SlotOK
<1>5. HandlerOK(e)' /\ ForkOK(e)'
  BY <1>1 DEF HandlerOK, ForkOK, Mapped
<1>6. HandlerInv' /\ ForkInv'
  BY <1>1, <1>5, Undisturbed DEF IInv, HandlerInv, ForkInv
<1>7. ChildInv'
  <2> SUFFICES ASSUME NEW f \in Env, NEW d \in Env, fk'[f].child = d
               PROVE  ChildOK(f, d)'
    BY DEF ChildInv
  <2>1. fk[f].child = d /\ ChildOK(f, d) /\ \A g \in Env : fk'[g].child = fk[g].child
    BY <1>1 DEF IInv, ChildInv
  <2>2. CASE f = e
    BY <1>1, <2>1, <2>2 DEF ChildOK, Mapped
  <2>3. CASE f # e
    BY <1>1, <2>1, <2>3 DEF ChildOK, Mapped
  <2> QED BY <2>2, <2>3
<1>8. AliasInv'
  BY <1>1, AliasKept DEF IInv
<1>9. CompleteInv'
  <2> SUFFICES ASSUME ~lost, fk[e].child = Null, lost' = lost PROVE CompleteInv'
    BY DEF CompleteInv, IInv
  <2>1. SamePages' /\ \A f \in Env : status'[f] = "RUNNABLE" => OwnPages(f)'
    BY DEF IInv, CompleteInv, SamePages, OwnPages, Mapped
  <2>2. \A f, d \in Env : fk'[f].child = d => ChildPages(f, d)'
    BY <1>1 DEF IInv, CompleteInv, ChildPages, Handed, Mapped
  <2> QED BY <2>1, <2>2 DEF CompleteInv
<1> QED BY <1>2, <1>3, <1>4, <1>6, <1>7, <1>8, <1>9 DEF IInv

\* The call into the child maps the page: as the parent has it, or copy on write while
\* the parent, which is next, still has it writable.
LEMMA MappedChild ==
    ASSUME IInv, NEW e \in Env, NEW i, NEW c \in Env, Duppage(e, i), fk[e].pc = "child", Called(e),
           fk[e].child = c, lost' = lost,
           pte' = [pte EXCEPT ![c][i] = [page |-> pte[e][i].page, perm |-> fk[e].perm]],
           want' = IF fk[e].remap THEN want ELSE Inherit(e, c)
    PROVE  IInv'
<1> USE Constants, Addresses
<1>1. /\ fk' \in [Env -> ForkRecord] /\ \A f \in Env : f # e => fk'[f] = fk[f]
      /\ fk'[e].child = c
      /\ \/ fk'[e].pc = "parent" /\ fk'[e].i = i /\ fk'[e].perm = fk[e].perm /\ fk[e].remap
         \/ fk'[e].pc = "loop" /\ fk'[e].i = i + 1 /\ ~fk[e].remap
  BY DEF Called, ForkMoved, PageDone, Duppage
<1>2. /\ i \in Va /\ i # UCOW /\ Mapped(e, i) /\ pte[e][i].page \in Page /\ i \in Nat
      /\ status[e] = "RUNNABLE" /\ cow[e].pc = "idle" /\ fk[e].i = i
      /\ content' = content /\ status' = status /\ entry' = entry /\ cow' = cow
      /\ halted' = halted /\ forks' = forks /\ \A f \in Env : fk[f].child # e
      /\ HandlerOK(e) /\ ForkOK(e)
  BY DEF Duppage
<1>3. /\ fk[e].remap => pte[e][i].perm = Writable /\ fk[e].perm = Cow
      /\ ~fk[e].remap => pte[e][i].perm = fk[e].perm /\ fk[e].perm # Writable
  BY <1>2 DEF ForkOK
<1>4. /\ c # e /\ ChildOK(e, c) /\ status[c] = "NOT_RUNNABLE" /\ cow[c].pc = "idle" /\ fk[c].pc = "idle"
      /\ ~Mapped(c, i) /\ (i \in Private => want[c][i] = Null) /\ fk[c].child = Null
  <2>1. ChildOK(e, c)
    BY DEF IInv, ChildInv
  <2>2. c # e /\ status[c] = "NOT_RUNNABLE" /\ ~Mapped(c, i) /\ (i \in Private => want[c][i] = Null)
    BY <1>2, <2>1 DEF ChildOK
  <2>3. cow[c].pc = "idle" /\ fk[c].pc = "idle"
    BY <2>2 DEF IInv, SlotInv, SlotOK
  <2>4. fk[c].child = Null
    BY <2>3, Types DEF IInv, ChildInv, ChildOK
  <2> QED BY <2>1, <2>2, <2>3, <2>4
<1>5. PICK p \in Page : p = pte[e][i].page
  BY <1>2
<1>6. PICK perm \in Perm : perm = fk[e].perm /\ perm \in {Shared, Cow} /\ (perm = Shared => i \in Library)
  <2>1. PermOK(pte[e][i], i)
    BY <1>2 DEF IInv, PermInv
  <2> QED BY <1>3, <2>1 DEF PermOK
<1> DEFINE new == [page |-> p, perm |-> perm]
<1>7. new \in Pte /\ new.page = p /\ new.perm = perm /\ p # Null
  BY DEF Pte
<1>8. pte' = [pte EXCEPT ![c][i] = new]
  BY <1>5, <1>6
<1> HIDE DEF new
<1>9. /\ pte' \in [Env -> [Va -> Pte]] /\ pte'[c][i] = new
      /\ \A f \in Env, w \in Va : ~(f = c /\ w = i) => pte'[f][w] = pte[f][w]
      /\ \A f \in Env : f # c => pte'[f] = pte[f]
  BY <1>2, <1>7, <1>8 DEF IInv, TypeOK
<1>10. /\ want' \in [Env -> [Private -> Val \cup {Null}]]
       /\ \A f \in Env : f # c => want'[f] = want[f]
       /\ \A w \in Private : w # i => want'[c][w] = want[c][w]
       /\ fk[e].remap => want' = want
       /\ ~fk[e].remap /\ i \in Private => want'[c][i] = want[e][i]
  <2>1. want \in [Env -> [Private -> Val \cup {Null}]]
    BY DEF IInv, TypeOK
  <2>2. CASE fk[e].remap \/ i \notin Private
    BY <1>2, <2>1, <2>2 DEF Inherit
  <2>3. CASE ~fk[e].remap /\ i \in Private
    <3>1. want' = [want EXCEPT ![c][i] = want[e][i]] /\ want[e][i] \in Val \cup {Null}
      BY <1>2, <2>1, <2>3 DEF Inherit
    <3> QED BY <2>1, <2>3, <3>1
  <2> QED BY <2>2, <2>3
<1>11. TypeOK'
  BY <1>1, <1>2, <1>9, <1>10 DEF IInv, TypeOK
<1>12. PermInv'
  <2>1. PermOK(new, i)
    BY <1>6, <1>7 DEF PermOK
  <2> QED BY <1>9, <2>1 DEF IInv, PermInv
<1>13. EntryInv'
  BY <1>2, <1>4, <1>9 DEF IInv, EntryInv
<1>14. PrivateMemory'
  <2> SUFFICES ASSUME NEW f \in Env, NEW w \in Private, Mapped(f, w)', want'[f][w] # Null
               PROVE  content'[pte'[f][w].page] = want'[f][w]
    BY DEF PrivateMemory
  <2>1. CASE f = c /\ w = i
    <3>1. ~fk[e].remap /\ want'[f][w] = want[e][i]
      BY <1>4, <1>10, <2>1
    <3>2. content[p] = want[e][i]
      BY <1>2, <1>5, <2>1, <3>1 DEF IInv, PrivateMemory
    <3> QED BY <1>2, <1>7, <1>9, <2>1, <3>1, <3>2
  <2>2. CASE ~(f = c /\ w = i)
    <3>1. pte'[f][w] = pte[f][w] /\ want'[f][w] = want[f][w] /\ Mapped(f, w)
      BY <1>9, <1>10, <2>2 DEF Mapped
    <3> QED BY <1>2, <3>1 DEF IInv, PrivateMemory
  <2> QED BY <2>1, <2>2
<1>15. SlotInv'
  <2>1. ASSUME NEW f \in Env PROVE SlotOK(f)'
    <3>1. SlotOK(f)
      BY DEF IInv, SlotInv
    <3>2. CASE f = c
      BY <1>1, <1>2, <1>4, <3>2 DEF SlotOK
    <3>3. CASE f # c
      BY <1>1, <1>2, <1>9, <1>10, <3>1, <3>3 DEF SlotOK
    <3> QED BY <3>2, <3>3
  <2> QED BY <2>1 DEF SlotInv
<1>16. HandlerOK(e)' /\ ForkOK(e)'
  BY <1>1, <1>2, <1>3, <1>4, <1>9 DEF HandlerOK, ForkOK, Mapped
<1>17. HandlerOK(c)' /\ ForkOK(c)'
  <2>1. HandlerOK(c)
    BY DEF IInv, HandlerInv
  <2>2. pte'[c][UCOW] = pte[c][UCOW] /\ fk'[c] = fk[c]
    BY <1>1, <1>2, <1>4, <1>9
  <2> QED BY <1>2, <1>4, <2>1, <2>2 DEF HandlerOK, ForkOK, Mapped
<1>18. HandlerInv' /\ ForkInv'
  BY <1>1, <1>2, <1>9, <1>16, <1>17, Undisturbed DEF IInv, HandlerInv, ForkInv
<1>19. ChildInv'
  <2> SUFFICES ASSUME NEW f \in Env, NEW d \in Env, fk'[f].child = d
               PROVE  ChildOK(f, d)'
    BY DEF ChildInv
  <2>1. fk[f].child = d /\ ChildOK(f, d) /\ \A g \in Env : fk'[g].child = fk[g].child
    BY <1>1 DEF IInv, ChildInv
  <2>2. CASE f = e
    <3>1. d = c
      BY <2>1, <2>2
    <3>2. \A v \in Private : v >= fk'[e].i => want'[c][v] = Null
      BY <1>1, <1>2, <1>4, <1>10 DEF ChildOK
    <3>3. \A v \in Va : v > fk'[e].i \/ (v = fk'[e].i /\ fk'[e].pc # "parent") => ~Mapped(c, v)'
      BY <1>1, <1>2, <1>4, <1>9 DEF ChildOK, Mapped
    <3>4. fk'[e].pc = "parent" => pte'[c][fk'[e].i].page = pte'[e][fk'[e].i].page
      BY <1>1, <1>4, <1>5, <1>7, <1>9
    <3> QED BY <1>1, <1>2, <1>4, <2>1, <2>2, <3>1, <3>2, <3>3, <3>4 DEF ChildOK
  <2>3. CASE f # e
    <3>1. d # c /\ f # c
      BY <1>4, <2>1, <2>3 DEF ChildOK
    <3>2. /\ pte'[d] = pte[d] /\ pte'[f] = pte[f] /\ want'[d] = want[d] /\ fk'[f] = fk[f]
          /\ status' = status /\ entry' = entry
      BY <1>1, <1>2, <1>9, <1>10, <2>3, <3>1
    <3> QED BY <2>1, <3>2 DEF ChildOK, Mapped
  <2> QED BY <2>2, <2>3
<1>20. AliasInv'
  <2>1. ASSUME NEW g \in Env, NEW u \in Va, pte'[g][u].page = p, ~(g = c /\ u = i)
        PROVE  /\ g # c /\ u = i
               /\ \/ pte'[g][i].perm = perm /\ perm # Writable
                  \/ InWork(g, c, i)'
    <3>1. pte[g][u].page = p
      BY <1>9, <2>1
    <3>2. CASE g = e /\ u = i
      <4>1. CASE fk[e].remap
        BY <1>1, <1>3, <1>4, <1>6, <1>7, <1>9, <3>2, <4>1 DEF InWork
      <4>2. CASE ~fk[e].remap
        BY <1>3, <1>4, <1>6, <1>9, <3>2, <4>2
      <4> QED BY <4>1, <4>2, <3>2, <1>4
    <3>3. CASE ~(g = e /\ u = i)
      <4>1. AliasCase(e, i, g, u)
        BY <1>2, <1>5, <3>1, <3>3 DEF IInv, AliasInv, Aliased
      <4>2. ~InWork(e, g, i) /\ ~InWork(g, e, i)
        BY <1>2 DEF InWork
      <4>3. e # g /\ u = i /\ pte[e][i].perm = pte[g][i].perm /\ pte[e][i].perm # Writable
        BY <1>2, <4>1, <4>2 DEF AliasCase
      <4>4. g # c
        BY <1>4, <1>7, <3>1, <4>3 DEF Mapped
      <4>5. fk[e].perm = pte[g][i].perm
        BY <1>3, <4>3
      <4> QED BY <1>6, <1>9, <4>3, <4>4, <4>5
    <3> QED BY <3>2, <3>3
  <2> SUFFICES ASSUME NEW f \in Env, NEW g \in Env, NEW w \in Va, NEW u \in Va,
                      Aliased(f, w, g, u)'
               PROVE  AliasCase(f, w, g, u)'
    BY DEF AliasInv
  <2>2. CASE ~(f = c /\ w = i) /\ ~(g = c /\ u = i)
    <3>1. pte'[f][w] = pte[f][w] /\ pte'[g][u] = pte[g][u] /\ AliasInv
      BY <1>9, <2>2 DEF IInv
    <3>2. \A h \in Env : /\ cow[h].pc = "unmap" => cow'[h].pc = "unmap" /\ cow'[h].va = cow[h].va
                         /\ fk[h].pc = "parent" => /\ fk'[h].pc = "parent" /\ fk'[h].i = fk[h].i
                                                   /\ fk'[h].child = fk[h].child
      BY <1>1, <1>2
    <3> QED BY <3>1, <3>2, AliasPair
  <2>3. CASE f = c /\ w = i
    <3>1. pte'[g][u].page = p /\ ~(g = c /\ u = i)
      BY <1>7, <1>9, <2>3 DEF Aliased
    <3> QED BY <1>2, <1>7, <1>9, <2>1, <2>3, <3>1 DEF AliasCase
  <2>4. CASE g = c /\ u = i
    <3>1. pte'[f][w].page = p /\ ~(f = c /\ w = i)
      BY <1>7, <1>9, <2>4 DEF Aliased
    <3> QED BY <1>2, <1>7, <1>9, <2>1, <2>4, <3>1 DEF AliasCase
  <2> QED BY <2>2, <2>3, <2>4
<1>21. CompleteInv'
  <2> SUFFICES ASSUME ~lost PROVE CompleteInv'
    BY DEF CompleteInv
  <2>1. SamePages /\ OwnPages(e)
    BY <1>2 DEF IInv, CompleteInv
  <2>2. i \in Library => perm = Shared
    BY <1>2, <1>3, <1>6, <2>1 DEF SamePages
  <2>3. SamePages'
    <3> SUFFICES ASSUME NEW f \in Env, NEW g \in Env, NEW v \in Library
                 PROVE  /\ Mapped(f, v)' => pte'[f][v].perm = Shared
                        /\ Mapped(f, v)' /\ Mapped(g, v)' => pte'[f][v].page = pte'[g][v].page
      BY DEF SamePages
    <3>1. CASE v # i
      BY <1>9, <2>1, <3>1 DEF SamePages, Mapped
    <3>2. CASE v = i
      <4>1. \A h \in Env : Mapped(h, i)' => pte'[h][i].page = p /\ pte'[h][i].perm = Shared
        BY <1>2, <1>5, <1>7, <1>9, <2>1, <2>2, <3>2 DEF SamePages, Mapped
      <4> QED BY <3>2, <4>1
    <3> QED BY <3>1, <3>2
  <2>4. ASSUME NEW f \in Env, status'[f] = "RUNNABLE" PROVE OwnPages(f)'
    <3>1. OwnPages(f) /\ f # c
      BY <1>2, <1>4, <2>4 DEF IInv, CompleteInv
    <3> QED BY <1>9, <1>10, <3>1 DEF OwnPages, Mapped
  <2>5. ASSUME NEW f \in Env, NEW d \in Env, fk'[f].child = d PROVE ChildPages(f, d)'
    <3>1. fk[f].child = d /\ ChildPages(f, d)
      BY <1>1, <2>5 DEF IInv, CompleteInv
    <3>2. CASE f # e
      <4>1. d # c
        BY <1>4, <3>1, <3>2 DEF ChildOK
      <4>2. pte'[d] = pte[d] /\ want'[d] = want[d] /\ fk'[f] = fk[f]
        BY <1>1, <1>9, <1>10, <3>2, <4>1
      <4> QED BY <3>1, <4>2 DEF ChildPages, Handed, Mapped
    <3>3. CASE f = e
      <4>1. d = c
        BY <3>1, <3>3
      <4>2. Mapped(c, i)' /\ (~fk[e].remap /\ i \in Private => want'[c][i] # Null)
        BY <1>7, <1>9, <1>10, <2>1 DEF Mapped, OwnPages
      <4>3. \A v \in Va : v # i => (Handed(e, v)' => Handed(e, v)) /\ (Mapped(c, v) => Mapped(c, v)')
        <5>1. \A v \in Va : v # i /\ v < i + 1 => v < i
          BY <1>2
        <5>2. \A v \in Va : v # i => (Handed(e, v)' => Handed(e, v))
          BY <1>1, <1>2, <5>1 DEF Handed
        <5>3. \A v \in Va : v # i => (Mapped(c, v) => Mapped(c, v)')
          BY <1>9 DEF Mapped
        <5> QED BY <5>2, <5>3
      <4>4. \A v \in Private : v # i => want'[c][v] = want[c][v]
        BY <1>10
      <4>5. fk[e].remap => ~Handed(e, i)'
        BY <1>1, <1>2 DEF Handed
      <4> QED BY <1>1, <3>1, <3>3, <4>1, <4>2, <4>3, <4>4, <4>5 DEF ChildPages
    <3> QED BY <3>2, <3>3
  <2> QED BY <2>3, <2>4, <2>5 DEF CompleteInv
<1> QED BY <1>11, <1>12, <1>13, <1>14, <1>15, <1>18, <1>19, <1>20, <1>21 DEF IInv

\* syscall_mem_map into the child.
LEMMA StepChild == ASSUME IInv, NEW e \in Env, duppage_child(e) PROVE IInv'
<1>1. /\ InFork(e, "child")
      /\ content' = content /\ status' = status /\ entry' = entry /\ cow' = cow
      /\ halted' = halted /\ forks' = forks
  BY DEF duppage_child
<1>2. PICK i : i = fk[e].i
  OBVIOUS
<1>3. Duppage(e, i) /\ fk[e].pc = "child"
  BY <1>1, <1>2, DuppageFacts
<1>4. Called(e)
  <2>1. fk \in [Env -> ForkRecord] /\ fk[e].i \in Va
    BY <1>3 DEF IInv, TypeOK, Duppage
  <2>2. CASE fk[e].remap
    BY <2>1, <2>2, ForkToEffect DEF duppage_child, Called
  <2>3. CASE ~fk[e].remap
    BY <2>1, <2>3, NextPageEffect DEF duppage_child, Called
  <2> QED BY <2>2, <2>3
<1>5. PICK c \in Env \cup {Null} : c = fk[e].child
  BY Types DEF IInv
<1>6. CASE /\ pte' = pte /\ want' = want
           /\ (c = Null /\ lost' = lost) \/ (c # Null /\ lost' = TRUE)
  <2>1. lost' \in BOOLEAN
    BY <1>6 DEF IInv, TypeOK
  <2> QED BY <1>3, <1>4, <1>5, <1>6, <2>1, NotMapped
<1>7. CASE /\ c # Null /\ lost' = lost
           /\ pte' = [pte EXCEPT ![c][i] = [page |-> pte[e][i].page, perm |-> fk[e].perm]]
           /\ want' = IF fk[e].remap THEN want ELSE Inherit(e, c)
  BY <1>3, <1>4, <1>5, <1>7, MappedChild
<1>8. \/ c = Null /\ pte' = pte /\ want' = want /\ lost' = lost
      \/ c # Null /\ lost' = TRUE /\ pte' = pte /\ want' = want
      \/ /\ c # Null /\ lost' = lost
         /\ pte' = [pte EXCEPT ![c][i] = [page |-> pte[e][i].page, perm |-> fk[e].perm]]
         /\ want' = IF fk[e].remap THEN want ELSE Inherit(e, c)
  BY <1>2, <1>5 DEF duppage_child
<1> QED BY <1>6, <1>7, <1>8

\* syscall_mem_map of the page to itself: parent and child have it copy on write, and the
\* child has all that the parent wrote there so far.
LEMMA StepParent == ASSUME IInv, NEW e \in Env, duppage_parent(e) PROVE IInv'
<1> USE Constants, Addresses
<1>1. /\ InFork(e, "parent") /\ NextPage(e)
      /\ content' = content /\ status' = status /\ entry' = entry /\ cow' = cow
      /\ halted' = halted /\ lost' = lost /\ forks' = forks
  BY DEF duppage_parent
<1>2. PICK i : i = fk[e].i
  OBVIOUS
<1>3. Duppage(e, i) /\ fk[e].pc = "parent"
  BY <1>1, <1>2, DuppageFacts
<1>4. /\ i \in Va /\ i # UCOW /\ Mapped(e, i) /\ pte[e][i].page \in Page /\ i \in Nat
      /\ status[e] = "RUNNABLE" /\ cow[e].pc = "idle" /\ fk[e].i = i
      /\ \A f \in Env : fk[f].child # e
      /\ HandlerOK(e) /\ ForkOK(e)
  BY <1>3 DEF Duppage
<1>5. fk[e].perm = Cow /\ pte[e][i].perm = Writable /\ e \in entry
  BY <1>3, <1>4 DEF ForkOK
<1>6. PageDone(e)
  BY <1>1, <1>4, NextPageEffect DEF IInv, TypeOK
<1>7. PICK c \in Env \cup {Null} : c = fk[e].child
  BY Types DEF IInv
<1>8. /\ fk' \in [Env -> ForkRecord] /\ \A f \in Env : f # e => fk'[f] = fk[f]
      /\ fk'[e].child = c /\ fk'[e].pc = "loop" /\ fk'[e].i = i + 1
  BY <1>2, <1>6, <1>7 DEF PageDone
<1>9. /\ pte' \in [Env -> [Va -> Pte]] /\ pte'[e][i].page = pte[e][i].page /\ pte'[e][i].perm = Cow
      /\ \A f \in Env, w \in Va : ~(f = e /\ w = i) => pte'[f][w] = pte[f][w]
      /\ \A f \in Env : f # e => pte'[f] = pte[f]
  <2>1. pte' = [pte EXCEPT ![e][i].perm = Cow]
    BY <1>2, <1>5 DEF duppage_parent
  <2>2. pte \in [Env -> [Va -> Pte]] /\ pte[e][i] \in Pte
    BY <1>4 DEF IInv, TypeOK
  <2>3. pte'[e][i] = [pte[e][i] EXCEPT !.perm = Cow]
    BY <1>4, <2>1, <2>2
  <2>4. pte'[e][i] \in Pte /\ pte'[e][i].page = pte[e][i].page /\ pte'[e][i].perm = Cow
    BY <2>2, <2>3 DEF Pte
  <2>5. /\ \A f \in Env, w \in Va : ~(f = e /\ w = i) => pte'[f][w] = pte[f][w]
        /\ \A f \in Env : f # e => pte'[f] = pte[f]
    BY <2>1, <2>2
  <2>6. pte' \in [Env -> [Va -> Pte]]
    BY <1>4, <2>1, <2>2, <2>4
  <2> QED BY <2>4, <2>5, <2>6
<1>10. c # Null => /\ c # e /\ ChildOK(e, c) /\ status[c] = "NOT_RUNNABLE" /\ fk[c].child = Null
                   /\ Mapped(c, i) => pte[c][i].page = pte[e][i].page
  <2> SUFFICES ASSUME c # Null
               PROVE  /\ c # e /\ ChildOK(e, c) /\ status[c] = "NOT_RUNNABLE" /\ fk[c].child = Null
                      /\ Mapped(c, i) => pte[c][i].page = pte[e][i].page
    OBVIOUS
  <2>1. ChildOK(e, c)
    BY <1>7 DEF IInv, ChildInv
  <2>2. c # e /\ status[c] = "NOT_RUNNABLE" /\ (Mapped(c, i) => pte[c][i].page = pte[e][i].page)
    BY <1>3, <1>4, <2>1 DEF ChildOK
  <2>3. fk[c].pc = "idle"
    BY <2>2 DEF IInv, SlotInv, SlotOK
  <2>4. fk[c].child = Null
    BY <2>3, Types DEF IInv, ChildInv, ChildOK
  <2> QED BY <2>1, <2>2, <2>4
<1>11. /\ want' \in [Env -> [Private -> Val \cup {Null}]]
       /\ \A f \in Env : f # c => want'[f] = want[f]
       /\ c # Null => \A w \in Private : w # i => want'[c][w] = want[c][w]
       /\ c # Null /\ ~Mapped(c, i) => want' = want
       /\ c # Null /\ Mapped(c, i) /\ i \in Private => want'[c][i] = want[e][i]
  <2>1. want \in [Env -> [Private -> Val \cup {Null}]]
    BY DEF IInv, TypeOK
  <2>2. want' = IF c # Null /\ Mapped(c, i) THEN Inherit(e, c) ELSE want
    BY <1>2, <1>7 DEF duppage_parent
  <2>3. CASE c = Null \/ ~Mapped(c, i) \/ i \notin Private
    BY <1>4, <2>1, <2>2, <2>3 DEF Inherit
  <2>4. CASE c # Null /\ Mapped(c, i) /\ i \in Private
    <3>1. want' = [want EXCEPT ![c][i] = want[e][i]] /\ want[e][i] \in Val \cup {Null} /\ c \in Env
      BY <1>4, <2>1, <2>2, <2>4 DEF Inherit
    <3> QED BY <2>1, <2>4, <3>1
  <2> QED BY <2>3, <2>4
<1>12. TypeOK'
  BY <1>1, <1>8, <1>9, <1>11 DEF IInv, TypeOK
<1>13. PermInv'
  <2>1. PermOK(pte'[e][i], i)
    BY <1>4, <1>9 DEF PermOK
  <2> QED BY <1>9, <2>1 DEF IInv, PermInv
<1>14. EntryInv'
  BY <1>1, <1>5, <1>9 DEF IInv, EntryInv
<1>15. PrivateMemory'
  <2> SUFFICES ASSUME NEW f \in Env, NEW w \in Private, Mapped(f, w)', want'[f][w] # Null
               PROVE  content'[pte'[f][w].page] = want'[f][w]
    BY DEF PrivateMemory
  <2>1. pte'[f][w].page = pte[f][w].page /\ Mapped(f, w) /\ w \in Va
    BY <1>9 DEF Mapped
  <2>2. CASE c # Null /\ f = c /\ w = i
    <3>1. want'[f][w] = want[e][i] /\ pte[f][w].page = pte[e][i].page
      BY <1>10, <1>11, <2>1, <2>2
    <3>2. content[pte[e][i].page] = want[e][i]
      BY <1>4, <2>2, <3>1 DEF IInv, PrivateMemory
    <3> QED BY <1>1, <2>1, <3>1, <3>2
  <2>3. CASE ~(c # Null /\ f = c /\ w = i)
    <3>1. want'[f][w] = want[f][w]
      BY <1>11, <2>3
    <3>2. content[pte[f][w].page] = want[f][w]
      BY <2>1, <3>1 DEF IInv, PrivateMemory
    <3> QED BY <1>1, <2>1, <3>1, <3>2
  <2> QED BY <2>2, <2>3
<1>16. SlotInv'
  <2>1. ASSUME NEW f \in Env PROVE SlotOK(f)'
    <3>1. SlotOK(f)
      BY DEF IInv, SlotInv
    <3>2. CASE f = e
      BY <1>1, <1>4, <3>2 DEF SlotOK
    <3>3. CASE f # e
      BY <1>1, <1>8, <1>9, <1>10, <1>11, <3>1, <3>3 DEF SlotOK
    <3> QED BY <3>2, <3>3
  <2> QED BY <2>1 DEF SlotInv
<1>17. HandlerOK(e)' /\ ForkOK(e)'
  BY <1>1, <1>3, <1>4, <1>8, <1>9 DEF HandlerOK, ForkOK, Mapped
<1>18. HandlerInv' /\ ForkInv'
  BY <1>1, <1>8, <1>9, <1>17, Undisturbed DEF IInv, HandlerInv, ForkInv
<1>19. ChildInv'
  <2> SUFFICES ASSUME NEW f \in Env, NEW d \in Env, fk'[f].child = d
               PROVE  ChildOK(f, d)'
    BY DEF ChildInv
  <2>1. fk[f].child = d /\ ChildOK(f, d) /\ d # e /\ \A g \in Env : fk'[g].child = fk[g].child
    BY <1>4, <1>7, <1>8 DEF IInv, ChildInv
  <2>2. CASE f = e
    <3>1. d = c /\ c # Null /\ pte'[c] = pte[c]
      BY <1>7, <1>9, <2>1, <2>2
    <3>2. \A v \in Private : v >= i + 1 => want'[c][v] = Null
      BY <1>3, <1>4, <1>11, <2>1, <2>2, <3>1 DEF ChildOK
    <3> QED BY <1>1, <1>3, <1>4, <1>8, <2>1, <2>2, <3>1, <3>2 DEF ChildOK, Mapped
  <2>3. CASE f # e
    <3>1. d # c
      BY <1>10, <2>1, <2>3 DEF ChildOK
    <3>2. /\ pte'[d] = pte[d] /\ pte'[f] = pte[f] /\ want'[d] = want[d] /\ fk'[f] = fk[f]
          /\ status' = status /\ entry' = entry
      BY <1>1, <1>8, <1>9, <1>11, <2>1, <2>3, <3>1
    <3> QED BY <2>1, <3>2 DEF ChildOK, Mapped
  <2> QED BY <2>2, <2>3
<1>20. AliasInv'
  <2> SUFFICES ASSUME NEW f \in Env, NEW g \in Env, NEW w \in Va, NEW u \in Va,
                      Aliased(f, w, g, u)'
               PROVE  AliasCase(f, w, g, u)'
    BY DEF AliasInv
  <2>1. /\ pte'[f][w].page = pte[f][w].page /\ pte'[g][u].page = pte[g][u].page
        /\ AliasCase(f, w, g, u)
    <3>1. pte'[f][w].page = pte[f][w].page /\ pte'[g][u].page = pte[g][u].page
      BY <1>9
    <3> QED BY <3>1 DEF IInv, AliasInv, Aliased, Mapped
  <2>2. CASE f = g
    BY <1>1, <2>1, <2>2 DEF AliasCase
  <2>3. CASE f # g
    <3>1. w = u /\ w # UCOW
      BY <2>1, <2>3 DEF AliasCase
    <3>2. CASE w = i /\ (f = e \/ g = e)
      <4>1. InWork(f, g, i) \/ InWork(g, f, i)
        BY <1>5, <2>1, <2>3, <3>1, <3>2 DEF AliasCase
      <4>2. pte'[f][i].perm = Cow /\ pte'[g][i].perm = Cow
        BY <1>5, <1>9, <2>3, <3>2, <4>1 DEF InWork
      <4> QED BY <2>3, <3>1, <3>2, <4>2 DEF AliasCase
    <3>3. CASE ~(w = i /\ (f = e \/ g = e))
      <4>1. pte'[f][w] = pte[f][w] /\ pte'[g][w] = pte[g][w]
        BY <1>9, <3>1, <3>3
      <4>2. InWork(f, g, w) => InWork(f, g, w)'
        BY <1>4, <1>8, <3>3, <4>1 DEF InWork
      <4>3. InWork(g, f, w) => InWork(g, f, w)'
        BY <1>4, <1>8, <3>3, <4>1 DEF InWork
      <4> QED BY <2>1, <2>3, <3>1, <4>1, <4>2, <4>3 DEF AliasCase
    <3> QED BY <3>2, <3>3
  <2> QED BY <2>2, <2>3
<1>21. CompleteInv'
  <2> SUFFICES ASSUME ~lost PROVE CompleteInv'
    BY <1>1 DEF CompleteInv
  <2>1. SamePages /\ OwnPages(e)
    BY <1>4 DEF IInv, CompleteInv
  <2>2. i \notin Library
    BY <1>4, <1>5, <2>1 DEF SamePages
  <2>3. SamePages'
    <3>1. \A f \in Env, v \in Library : pte'[f][v] = pte[f][v]
      BY <1>9, <2>2
    <3> QED BY <2>1, <3>1 DEF SamePages, Mapped
  <2>4. ASSUME NEW f \in Env, status'[f] = "RUNNABLE" PROVE OwnPages(f)'
    <3>1. OwnPages(f) /\ f # c
      BY <1>1, <1>10, <2>4 DEF IInv, CompleteInv
    <3>2. \A v \in Va : pte'[f][v].page = pte[f][v].page
      BY <1>9
    <3> QED BY <1>11, <3>1, <3>2 DEF OwnPages, Mapped
  <2>5. ASSUME NEW f \in Env, NEW d \in Env, fk'[f].child = d PROVE ChildPages(f, d)'
    <3>1. fk[f].child = d /\ ChildPages(f, d)
      BY <1>7, <1>8, <2>5 DEF IInv, CompleteInv
    <3>2. CASE f # e
      <4>1. d # c /\ d # e
        BY <1>4, <1>10, <3>1, <3>2 DEF ChildOK
      <4>2. pte'[d] = pte[d] /\ want'[d] = want[d] /\ fk'[f] = fk[f]
        BY <1>8, <1>9, <1>11, <3>2, <4>1
      <4> QED BY <3>1, <4>2 DEF ChildPages, Handed, Mapped
    <3>3. CASE f = e
      <4>1. d = c /\ c # Null /\ pte'[c] = pte[c]
        BY <1>7, <1>9, <1>10, <3>1, <3>3
      <4>2. Mapped(c, i)
        BY <1>3, <1>4, <3>1, <3>3, <4>1 DEF ChildPages
      <4>3. i \in Private => want'[c][i] # Null
        BY <1>11, <2>1, <4>1, <4>2 DEF OwnPages
      <4>4. \A v \in Va : v # i => (Handed(e, v)' => Handed(e, v))
        <5>1. \A v \in Va : v # i /\ v < i + 1 => v < i
          BY <1>4
        <5> QED BY <1>3, <1>4, <1>8, <5>1 DEF Handed
      <4>5. \A v \in Private : v # i => want'[c][v] = want[c][v]
        BY <1>11, <4>1
      <4> QED BY <1>8, <3>1, <3>3, <4>1, <4>2, <4>3, <4>4, <4>5 DEF ChildPages, Mapped
    <3> QED BY <3>2, <3>3
  <2> QED BY <2>3, <2>4, <2>5 DEF CompleteInv
<1> QED BY <1>12, <1>13, <1>14, <1>15, <1>16, <1>18, <1>19, <1>20, <1>21 DEF IInv

-------------------------------------------------------------------------------
\* Every step keeps the inductive invariant.
LEMMA NextIInv == ASSUME IInv, [Next]_vars PROVE IInv'
<1>1. CASE Next
  <2>1. PICK e \in Env : \/ \E v \in Va, x \in Val : user_store(e, v, x)
                         \/ cow_entry(e) \/ fork_begin(e) \/ in_fork(e) \/ exit(e)
    BY <1>1 DEF Next
  <2>2. CASE \E v \in Va, x \in Val : user_store(e, v, x)
    BY <2>2, StepStore
  <2>3. CASE cow_entry(e)
    BY <2>3, StepCowPerm, StepCowAlloc, StepCowCopy, StepCowMap, StepCowUnmap, StepRetry DEF cow_entry
  <2>4. CASE fork_begin(e)
    BY <2>4, StepBegin
  <2>5. CASE in_fork(e)
    <3>1. CASE \E x \in Val : duppage_enter(e, x)
      BY <3>1, StepEnter
    <3> QED BY <2>5, <3>1, StepExofork, StepLoop, StepNoTable, StepPerm, StepChild, StepParent,
               StepSetEntry, StepSetStatus DEF in_fork
  <2>6. CASE exit(e)
    BY <2>6, StepExit
  <2> QED BY <2>1, <2>2, <2>3, <2>4, <2>5, <2>6
<1>2. CASE UNCHANGED vars
  <2>1. TypeOK' /\ PermInv' /\ EntryInv' /\ PrivateMemory'
    BY <1>2 DEF vars, IInv, TypeOK, PermInv, EntryInv, PrivateMemory, Mapped
  <2>2. SlotInv'
    BY <1>2 DEF vars, IInv, SlotInv, SlotOK
  <2>3. HandlerInv' /\ ForkInv'
    BY <1>2, Undisturbed DEF vars, IInv, HandlerInv, ForkInv
  <2>4. ChildInv'
    BY <1>2 DEF vars, IInv, ChildInv, ChildOK, Mapped
  <2>5. AliasInv'
    BY <1>2, AliasKept DEF vars, IInv
  <2>6. CompleteInv'
    BY <1>2 DEF vars, IInv, CompleteInv, SamePages, OwnPages, ChildPages, Handed, Mapped
  <2> QED BY <2>1, <2>2, <2>3, <2>4, <2>5, <2>6 DEF IInv
<1> QED BY <1>1, <1>2

\* The inductive invariant holds in every reachable state.
LEMMA Inductive == Spec => []IInv
BY InitIInv, NextIInv, PTL DEF Spec

\* Type correctness: page table entries hold pages of memory, and the locals of fork and
\* cow_entry stay in range for any number of processes, pages and calls.
THEOREM TypeCorrect == Spec => []TypeOK
<1>1. IInv => TypeOK
  BY DEF IInv
<1> QED BY <1>1, Inductive, PTL

\* fork.c:55: whatever the processes store, fork and exit, a page that one of them can
\* write is mapped by no other, but for the page duppage has just given to a child that does
\* not run yet.
THEOREM CowIsolates == Spec => []CowIsolation
<1>1. IInv => CowIsolation
  <2> SUFFICES ASSUME IInv, NEW e \in Env, NEW f \in Env, NEW v \in Va, NEW w \in Va,
                      e # f, Mapped(e, v), pte[e][v].page = pte[f][w].page,
                      pte[e][v].perm.d, ~pte[e][v].perm.lib
               PROVE  fk[e].pc = "parent" /\ fk[e].i = v /\ v = w /\ fk[e].child = f
    BY DEF CowIsolation
  <2>1. pte[e][v].perm = Writable
    BY Constants DEF IInv, PermInv, PermOK
  <2>2. AliasCase(e, v, f, w)
    BY DEF IInv, AliasInv, Aliased
  <2> QED BY <2>1, <2>2, Constants DEF AliasCase, InWork
<1> QED BY <1>1, Inductive, PTL

\* Private memory: what a process reads is what it wrote last, or what its parent had
\* when fork copied the page, in every interleaving of stores, faults, forks and exits.
THEOREM MemoryIsPrivate == Spec => []PrivateMemory
<1>1. IInv => PrivateMemory
  BY DEF IInv
<1> QED BY <1>1, Inductive, PTL

\* do_tlb_mod never panics for want of a handler, and cow_entry leaves the page writable
\* for the store that is executed again.
THEOREM FaultsAreHandled == Spec => []FaultsHandled
<1>1. IInv => FaultsHandled
  <2> SUFFICES ASSUME IInv, NEW e \in Env
               PROVE  /\ status[e] = "RUNNABLE" => e \in entry \/ \A v \in Va : ~pte[e][v].perm.cow
                      /\ cow[e].pc = "retry" => pte[e][cow[e].va].perm.d
    BY DEF FaultsHandled
  <2>1. ASSUME status[e] = "RUNNABLE", e \notin entry, NEW v \in Va PROVE ~pte[e][v].perm.cow
    BY <2>1, Constants DEF IInv, EntryInv, PermInv, PermOK
  <2>2. cow[e].pc = "retry" => pte[e][cow[e].va].perm.d
    BY Constants DEF IInv, HandlerInv, HandlerOK
  <2> QED BY <2>1, <2>2
<1> QED BY <1>1, Inductive, PTL

\* A child that runs has its parent's whole memory, unless a syscall_mem_map of duppage
\* failed, which fork does not notice.
THEOREM ChildrenAreComplete == Spec => []ChildIsComplete
<1>1. IInv => ChildIsComplete
  <2> SUFFICES ASSUME IInv, ~lost PROVE ChildIsComplete
    BY DEF ChildIsComplete
  <2>1. SamePages /\ \A e \in Env : status[e] = "RUNNABLE" => OwnPages(e)
    BY DEF IInv, CompleteInv
  <2> QED BY <2>1, Addresses DEF ChildIsComplete, SamePages, OwnPages
<1> QED BY <1>1, Inductive, PTL

-------------------------------------------------------------------------------
(***************************************************************************)
(* spawn and load_icode, for any size of a page, any number of pages and   *)
(* any program files whose segments have pages of their own.               *)
(***************************************************************************)
\* Division by the size of a page.
LEMMA PageDiv ==
    ASSUME NEW a \in Int
    PROVE  \E q \in Int, b \in Byte : q = a \div BY2PG /\ b = a % BY2PG /\ a = BY2PG * q + b
<1>1. BY2PG \in Int /\ BY2PG > 0
  BY SpawnAssumption
<1>2. a % BY2PG = a - BY2PG * (a \div BY2PG)
  BY <1>1
<1>3. a \div BY2PG \in Int /\ a % BY2PG \in Byte
  BY <1>1 DEF Byte
<1>4. PICK q \in Int, b \in Byte : q = a \div BY2PG /\ b = a % BY2PG
  BY <1>3
<1>5. PICK m \in Int : m = BY2PG * q
  BY <1>1
<1>6. b = a - m /\ b \in Int
  BY <1>1, <1>2, <1>4, <1>5 DEF Byte
<1>7. a = BY2PG * q + b
  BY <1>5, <1>6
<1> QED BY <1>4, <1>7, Zenon

\* Quotient and remainder are unique.
LEMMA PageDivUnique ==
    ASSUME NEW q \in Int, NEW b \in Byte, NEW a \in Int, a = BY2PG * q + b
    PROVE  a \div BY2PG = q /\ a % BY2PG = b
<1>1. BY2PG \in Int /\ BY2PG > 0 /\ b \in Int /\ 0 <= b /\ b < BY2PG
  BY SpawnAssumption DEF Byte
<1>2. PICK p \in Int, c \in Int : /\ p = a \div BY2PG /\ c = a % BY2PG /\ a = BY2PG * p + c
                                  /\ 0 <= c /\ c < BY2PG
  BY <1>1, PageDiv DEF Byte
<1>3. BY2PG * q \in Int /\ BY2PG * p \in Int /\ BY2PG * (p - q) \in Int
  BY <1>1, <1>2
<1>4. BY2PG * (p - q) = BY2PG * p - BY2PG * q
  BY <1>1, <1>2
<1>5. BY2PG * (p - q) = b - c
  BY <1>1, <1>2, <1>3, <1>4
<1>6. CASE p = q
  BY <1>1, <1>2, <1>3, <1>6
<1>7. CASE p > q
  <2>1. PICK d \in Nat : p - q = 1 + d
    <3>1. p - q - 1 \in Nat /\ p - q = 1 + (p - q - 1)
      BY <1>2, <1>7
    <3> QED BY <3>1
  <2>2. BY2PG * (1 + d) = BY2PG + BY2PG * d /\ BY2PG * d \in Int /\ BY2PG * d >= 0
    BY <1>1, <2>1
  <2> QED BY <1>1, <1>2, <1>5, <2>1, <2>2
<1>8. CASE p < q
  <2>1. PICK d \in Nat : q - p = 1 + d
    <3>1. q - p - 1 \in Nat /\ q - p = 1 + (q - p - 1)
      BY <1>2, <1>8
    <3> QED BY <3>1
  <2>2. BY2PG * (q - p) = c - b
    <3>1. BY2PG * (q - p) = BY2PG * q - BY2PG * p
      BY <1>1, <1>2
    <3> QED BY <1>1, <1>2, <1>3, <3>1
  <2>3. BY2PG * (1 + d) = BY2PG + BY2PG * d /\ BY2PG * d \in Int /\ BY2PG * d >= 0
    BY <1>1, <2>1
  <2> QED BY <1>1, <1>2, <2>1, <2>2, <2>3
<1> QED BY <1>2, <1>6, <1>7, <1>8

\* A loop that goes through a in steps of a page takes DivUp turns.
LEMMA Turns ==
    ASSUME NEW a \in Int
    PROVE  /\ DivUp(a, BY2PG) \in Nat
           /\ a <= BY2PG * DivUp(a, BY2PG)
           /\ DivUp(a, BY2PG) > 0 => BY2PG * (DivUp(a, BY2PG) - 1) < a
           /\ a <= 0 => DivUp(a, BY2PG) = 0
<1>1. BY2PG \in Int /\ BY2PG > 0
  BY SpawnAssumption
<1>2. CASE a <= 0
  BY <1>1, <1>2 DEF DivUp
<1>3. CASE a > 0
  <2>1. PICK x \in Int : x = a + BY2PG - 1
    BY <1>1
  <2>2. PICK n \in Int, c \in Int : n = x \div BY2PG /\ c = x % BY2PG /\ x = BY2PG * n + c /\ 0 <= c /\ c < BY2PG
    BY <1>1, PageDiv, <2>1 DEF Byte
  <2>3. DivUp(a, BY2PG) = n
    BY <1>3, <2>1, <2>2 DEF DivUp
  <2>4. BY2PG * n \in Int /\ BY2PG * (n - 1) = BY2PG * n - BY2PG
    BY <1>1, <2>2
  <2>5. n \in Nat
    <3>1. SUFFICES ASSUME n < 0 PROVE FALSE
      BY <2>2
    <3>2. PICK d \in Nat : 0 - n = 1 + d
      <4>1. 0 - n - 1 \in Nat /\ 0 - n = 1 + (0 - n - 1)
        BY <2>2, <3>1
      <4> QED BY <4>1
    <3>3. BY2PG * (0 - n) = 0 - BY2PG * n /\ BY2PG * (1 + d) = BY2PG + BY2PG * d /\ BY2PG * d >= 0 /\ BY2PG * d \in Int
      BY <1>1, <2>2, <3>2
    <3> QED BY <1>1, <1>3, <2>1, <2>2, <2>4, <3>2, <3>3
  <2> QED BY <1>1, <1>3, <2>1, <2>2, <2>3, <2>4, <2>5
<1> QED BY <1>2, <1>3

LEMMA PagesMonotonic ==
    ASSUME NEW a \in Int, NEW b \in Int, a <= b
    PROVE  BY2PG * a \in Int /\ BY2PG * b \in Int /\ BY2PG * a <= BY2PG * b
<1>1. BY2PG \in Int /\ BY2PG > 0
  BY SpawnAssumption
<1>2. PICK d \in Nat : b = a + d
  <2>1. b - a \in Nat /\ b = a + (b - a)
    OBVIOUS
  <2> QED BY <2>1
<1>3. BY2PG * b = BY2PG * a + BY2PG * d /\ BY2PG * d \in Int /\ BY2PG * d >= 0
  BY <1>1, <1>2
<1> QED BY <1>1, <1>2, <1>3

-------------------------------------------------------------------------------
(***************************************************************************)
(* The calls of elf_load_seg: at most one for a first page that the segment *)
(* does not start at, N1 with data, N2 without.                             *)
(***************************************************************************)
Off(ph) == ph.va % BY2PG
Part(ph) == MinOf(ph.filesz, BY2PG - Off(ph))
I1(ph) == IF Off(ph) = 0 THEN 0 ELSE Part(ph)
N1(ph) == DivUp(ph.filesz - I1(ph), BY2PG)
I2(ph) == I1(ph) + N1(ph) * BY2PG
N2(ph) == DivUp(ph.memsz - I2(ph), BY2PG)

FirstCall(ph) == Call(ph.va, Off(ph), ph.offset, Part(ph))
FileCall(ph, i) == Call(ph.va + i, 0, ph.offset + i, MinOf(ph.filesz - i, BY2PG))
ZeroCall(ph, i) == Call(ph.va + i, 0, None, 0)

H(ph) == IF Off(ph) = 0 THEN 0 ELSE 1

CallSet == [page : ImagePage, at : Nat, src : Nat \cup {None}, len : Nat]

LEMMA HeaderType ==
    ASSUME NEW ph \in Headers
    PROVE  /\ ph.load \in BOOLEAN /\ ph.va \in Nat /\ ph.offset \in Nat
           /\ ph.filesz \in Nat /\ ph.memsz \in Nat /\ ph.filesz <= ph.memsz
           /\ ph.va + ph.memsz <= NIMAGE * BY2PG
BY DEF Headers

\* Where the loops start, how often they turn and what they reach.
LEMMA Loops ==
    ASSUME NEW ph \in Headers
    PROVE  /\ Off(ph) \in Byte /\ Part(ph) \in Nat /\ Part(ph) <= ph.filesz /\ Part(ph) <= BY2PG - Off(ph)
           /\ I1(ph) \in Nat /\ I1(ph) <= ph.filesz
           /\ N1(ph) \in Nat /\ N2(ph) \in Nat
           /\ I2(ph) \in Nat /\ ph.filesz <= I2(ph) /\ I1(ph) <= I2(ph)
           /\ ph.memsz <= I2(ph) + BY2PG * N2(ph)
           /\ \A k \in 1..N1(ph) : I1(ph) + (k - 1) * BY2PG \in Nat /\ I1(ph) + (k - 1) * BY2PG < ph.filesz
           /\ \A k \in 1..N2(ph) : I2(ph) + (k - 1) * BY2PG \in Nat /\ I2(ph) + (k - 1) * BY2PG < ph.memsz
<1>0. BY2PG \in Int /\ BY2PG > 0
  BY SpawnAssumption
<1>1. Off(ph) \in Byte /\ Part(ph) \in Nat /\ Part(ph) <= ph.filesz /\ Part(ph) <= BY2PG - Off(ph)
  <2>1. ph.va \in Int /\ ph.filesz \in Nat
    BY HeaderType
  <2>2. Off(ph) \in Byte
    BY <2>1, PageDiv DEF Off
  <2> QED BY <1>0, <2>1, <2>2 DEF Part, MinOf, Byte
<1>2. PICK fs \in Nat, ms \in Nat : fs = ph.filesz /\ ms = ph.memsz
  BY HeaderType
<1>3. PICK i1 \in Nat : i1 = I1(ph) /\ i1 <= fs
  BY <1>1, <1>2 DEF I1
<1>4. PICK n1 \in Nat : /\ n1 = N1(ph)
                        /\ fs - i1 <= BY2PG * n1
                        /\ n1 > 0 => BY2PG * (n1 - 1) < fs - i1
  BY <1>2, <1>3, Turns DEF N1
<1>5. PICK m1 \in Nat : m1 = n1 * BY2PG /\ m1 = BY2PG * n1
  BY <1>0
<1>6. PICK i2 \in Nat : i2 = I2(ph) /\ i2 = i1 + m1
  BY <1>3, <1>4, <1>5 DEF I2
<1>7. PICK n2 \in Nat : /\ n2 = N2(ph)
                        /\ ms - i2 <= BY2PG * n2
                        /\ n2 > 0 => BY2PG * (n2 - 1) < ms - i2
  BY <1>2, <1>6, Turns DEF N2
<1>8. ASSUME NEW n \in Nat, NEW x \in Int, n > 0 => BY2PG * (n - 1) < x, NEW k \in 1..n
      PROVE  (k - 1) * BY2PG \in Nat /\ (k - 1) * BY2PG < x
  <2>1. BY2PG * (k - 1) <= BY2PG * (n - 1) /\ BY2PG * (k - 1) \in Int /\ BY2PG * (n - 1) \in Int
    BY PagesMonotonic
  <2>2. (k - 1) * BY2PG = BY2PG * (k - 1) /\ BY2PG * (k - 1) >= 0
    BY <1>0
  <2> QED BY <1>8, <2>1, <2>2
<1>9. \A k \in 1..n1 : i1 + (k - 1) * BY2PG \in Nat /\ i1 + (k - 1) * BY2PG < fs
  <2> TAKE k \in 1..n1
  <2>1. PICK y \in Nat : y = (k - 1) * BY2PG /\ y < fs - i1
    BY <1>4, <1>8
  <2> QED BY <2>1
<1>10. \A k \in 1..n2 : i2 + (k - 1) * BY2PG \in Nat /\ i2 + (k - 1) * BY2PG < ms
  <2> TAKE k \in 1..n2
  <2>1. PICK y \in Nat : y = (k - 1) * BY2PG /\ y < ms - i2
    BY <1>7, <1>8
  <2> QED BY <2>1
<1>11. fs <= i2 /\ i1 <= i2
  BY <1>4, <1>5, <1>6
<1>12. ms <= i2 + BY2PG * n2
  <2>1. PICK m2 \in Int : m2 = BY2PG * n2
    BY <1>0
  <2> QED BY <1>7, <2>1
<1> QED BY <1>1, <1>2, <1>3, <1>4, <1>6, <1>7, <1>9, <1>10, <1>11, <1>12

LEMMA DivMonotonic ==
    ASSUME NEW a \in Int, NEW b \in Int, a <= b
    PROVE  a \div BY2PG \in Int /\ b \div BY2PG \in Int /\ a \div BY2PG <= b \div BY2PG
<1>0. BY2PG \in Int /\ BY2PG > 0
  BY SpawnAssumption
<1>1. PICK q \in Int, c \in Byte : q = a \div BY2PG /\ a = BY2PG * q + c
  BY PageDiv
<1>2. PICK p \in Int, d \in Byte : p = b \div BY2PG /\ b = BY2PG * p + d
  BY PageDiv
<1>3. q <= p
  <2>1. SUFFICES ASSUME p + 1 <= q PROVE FALSE
    BY <1>1, <1>2
  <2>2. BY2PG * (p + 1) <= BY2PG * q /\ BY2PG * (p + 1) \in Int /\ BY2PG * q \in Int
    BY <2>1, PagesMonotonic
  <2>3. BY2PG * (p + 1) = BY2PG * p + BY2PG /\ BY2PG * p \in Int
    BY <1>0
  <2> QED BY <1>0, <1>1, <1>2, <2>2, <2>3 DEF Byte
<1> QED BY <1>1, <1>2, <1>3

\* The pages of a segment are pages of the image, and every call is for one of them.
LEMMA SegmentPages ==
    ASSUME NEW ph \in Headers
    PROVE  /\ PagesOf(ph) \subseteq ImagePage
           /\ \A i \in Nat : i < ph.memsz => (ph.va + i) \div BY2PG \in PagesOf(ph)
           /\ Off(ph) # 0 => ph.va \div BY2PG \in PagesOf(ph)
<1>0. BY2PG \in Int /\ BY2PG > 0 /\ NIMAGE \in Nat
  BY SpawnAssumption
<1>1. PICK va \in Nat, ms \in Nat : va = ph.va /\ ms = ph.memsz /\ va + ms <= NIMAGE * BY2PG
  BY HeaderType
<1>2. PICK w \in Int, off \in Byte : w = va \div BY2PG /\ off = Off(ph) /\ va = BY2PG * w + off
  BY <1>1, PageDiv DEF Off
<1>3. PICK last \in Int : last = (va + ms - 1) \div BY2PG /\ PagesOf(ph) = w..last
  <2>1. (va + ms - 1) \div BY2PG \in Int
    <3>1. va + ms - 1 \in Int
      BY <1>1
    <3> QED BY <3>1, PageDiv
  <2>2. PagesOf(ph) = (va \div BY2PG)..((va + ms - 1) \div BY2PG)
    BY <1>1 DEF PagesOf
  <2> QED BY <1>2, <2>1, <2>2
<1>4. w >= 0
  <2>1. 0 \div BY2PG = 0
    <3>1. 0 \in Byte /\ 0 = BY2PG * 0 + 0
      BY <1>0 DEF Byte
    <3> QED BY <3>1, PageDivUnique
  <2> QED BY <1>1, <1>2, <2>1, DivMonotonic
<1>5. last <= NIMAGE - 1
  <2>1. PICK m \in Int : m = BY2PG * (NIMAGE - 1) /\ NIMAGE * BY2PG = m + BY2PG
    <3>1. BY2PG * (NIMAGE - 1) \in Int /\ NIMAGE * BY2PG = BY2PG * (NIMAGE - 1) + BY2PG
      BY <1>0
    <3> QED BY <3>1
  <2>2. PICK top \in Int : top = m + (BY2PG - 1)
    BY <1>0
  <2>3. top \div BY2PG = NIMAGE - 1
    <3>1. BY2PG - 1 \in Byte /\ top = BY2PG * (NIMAGE - 1) + (BY2PG - 1)
      BY <1>0, <2>1, <2>2 DEF Byte
    <3> QED BY <1>0, <3>1, PageDivUnique
  <2>4. va + ms - 1 <= top
    BY <1>0, <1>1, <2>1, <2>2
  <2>5. PICK x \in Int : x = va + ms - 1
    BY <1>1
  <2>6. x \div BY2PG <= top \div BY2PG
    BY <2>2, <2>4, <2>5, DivMonotonic
  <2> QED BY <1>3, <2>3, <2>5, <2>6
<1>6. PagesOf(ph) \subseteq ImagePage
  BY <1>0, <1>3, <1>4, <1>5 DEF ImagePage
<1>7. ASSUME NEW i \in Nat, i < ph.memsz
      PROVE  (ph.va + i) \div BY2PG \in PagesOf(ph)
  <2>1. va + i \in Int /\ va <= va + i /\ va + i <= va + ms - 1 /\ va + ms - 1 \in Int
    BY <1>1, <1>7
  <2>2. PICK d \in Int : d = (va + i) \div BY2PG /\ w <= d /\ d <= last
    <3>1. PICK x \in Int, y \in Int : x = va + i /\ y = va + ms - 1 /\ va <= x /\ x <= y
      BY <2>1
    <3>2. va \div BY2PG <= x \div BY2PG /\ x \div BY2PG \in Int
      BY <1>1, <3>1, DivMonotonic
    <3>3. x \div BY2PG <= y \div BY2PG
      BY <3>1, DivMonotonic
    <3> QED BY <1>2, <1>3, <3>1, <3>2, <3>3
  <2> QED BY <1>1, <1>3, <2>2
<1>8. ASSUME off # 0
      PROVE  ph.va \div BY2PG \in PagesOf(ph)
  <2>1. off - 1 \in Byte /\ va - 1 \in Int
    BY <1>0, <1>8 DEF Byte
  <2>2. va - 1 = BY2PG * w + (off - 1)
    <3>1. PICK m \in Int : m = BY2PG * w
      BY <1>0
    <3> QED BY <1>0, <1>2, <3>1 DEF Byte
  <2>3. (va - 1) \div BY2PG = w
    BY <2>1, <2>2, PageDivUnique
  <2>4. w <= last
    <3>1. va - 1 <= va + ms - 1 /\ va + ms - 1 \in Int
      BY <1>1
    <3> QED BY <1>3, <2>1, <2>3, <3>1, DivMonotonic
  <2>5. w \in w..last
    BY <2>4
  <2> QED BY <1>1, <1>2, <1>3, <2>5
<1> QED BY <1>2, <1>6, <1>7, <1>8

\* The calls of map_page, one by one.
CallAt(ph, k) ==
    IF k <= H(ph) THEN FirstCall(ph)
    ELSE IF k <= H(ph) + N1(ph) THEN FileCall(ph, I1(ph) + (k - H(ph) - 1) * BY2PG)
    ELSE ZeroCall(ph, I2(ph) + (k - H(ph) - N1(ph) - 1) * BY2PG)

LEMMA FirstCallType ==
    ASSUME NEW ph \in Headers, Off(ph) # 0
    PROVE  FirstCall(ph) \in CallSet /\ FirstCall(ph).page \in PagesOf(ph)
<1>1. ph.va \div BY2PG \in PagesOf(ph) /\ PagesOf(ph) \subseteq ImagePage
  BY SegmentPages
<1>2. Off(ph) \in Nat /\ Part(ph) \in Nat /\ ph.offset \in Nat
  BY Loops, HeaderType, SpawnAssumption DEF Byte
<1> QED BY <1>1, <1>2 DEF FirstCall, Call, CallSet

LEMMA FileCallType ==
    ASSUME NEW ph \in Headers, NEW i \in Nat, i < ph.filesz
    PROVE  FileCall(ph, i) \in CallSet /\ FileCall(ph, i).page \in PagesOf(ph)
<1>1. (ph.va + i) \div BY2PG \in PagesOf(ph) /\ PagesOf(ph) \subseteq ImagePage
  BY SegmentPages, HeaderType
<1>2. ph.offset + i \in Nat /\ MinOf(ph.filesz - i, BY2PG) \in Nat
  BY HeaderType, SpawnAssumption DEF MinOf
<1> QED BY <1>1, <1>2 DEF FileCall, Call, CallSet

LEMMA ZeroCallType ==
    ASSUME NEW ph \in Headers, NEW i \in Nat, i < ph.memsz
    PROVE  ZeroCall(ph, i) \in CallSet /\ ZeroCall(ph, i).page \in PagesOf(ph)
<1>1. (ph.va + i) \div BY2PG \in PagesOf(ph) /\ PagesOf(ph) \subseteq ImagePage
  BY SegmentPages
<1> QED BY <1>1 DEF ZeroCall, Call, CallSet

LEMMA FunctionIsSeq ==
    ASSUME NEW T, NEW n \in Nat, NEW f \in [1..n -> T]
    PROVE  f \in Seq(T) /\ Len(f) = n
<1>1. f \in Seq(T)
  BY SeqDef
<1>2. DOMAIN f = 1..n /\ DOMAIN f = 1..Len(f) /\ Len(f) \in Nat
  BY <1>1, LenProperties
<1> QED BY <1>1, <1>2

LEMMA Calls ==
    ASSUME NEW ph \in Headers, NEW S, S = elf_load_seg(ph)
    PROVE  /\ S \in Seq(CallSet)
           /\ Len(S) = H(ph) + N1(ph) + N2(ph)
           /\ \A k \in 1..Len(S) : S[k] = CallAt(ph, k) /\ S[k].page \in PagesOf(ph)
<1> DEFINE A == IF Off(ph) = 0 THEN <<>> ELSE <<FirstCall(ph)>>
           B == [k \in 1..N1(ph) |-> FileCall(ph, I1(ph) + (k - 1) * BY2PG)]
           C == [k \in 1..N2(ph) |-> ZeroCall(ph, I2(ph) + (k - 1) * BY2PG)]
<1>1. S = A \o B \o C
  BY Zenon DEF elf_load_seg, FirstCall, FileCall, ZeroCall, Off, Part, I1, N1, I2, N2
<1>2. A \in Seq(CallSet) /\ Len(A) = H(ph) /\ \A k \in 1..H(ph) : A[k] = FirstCall(ph) /\ A[k].page \in PagesOf(ph)
  BY FirstCallType DEF H
<1>3. PICK n1 \in Nat, n2 \in Nat, h \in Nat : n1 = N1(ph) /\ n2 = N2(ph) /\ h = H(ph)
  BY Loops DEF H
<1>4. /\ \A k \in 1..n1 : /\ FileCall(ph, I1(ph) + (k - 1) * BY2PG) \in CallSet
                          /\ FileCall(ph, I1(ph) + (k - 1) * BY2PG).page \in PagesOf(ph)
      /\ \A k \in 1..n2 : /\ ZeroCall(ph, I2(ph) + (k - 1) * BY2PG) \in CallSet
                          /\ ZeroCall(ph, I2(ph) + (k - 1) * BY2PG).page \in PagesOf(ph)
  BY <1>3, Loops, FileCallType, ZeroCallType
<1>5. B \in Seq(CallSet) /\ Len(B) = n1 /\ \A k \in 1..n1 : B[k] = FileCall(ph, I1(ph) + (k - 1) * BY2PG) /\ B[k].page \in PagesOf(ph)
  <2>1. B = [k \in 1..n1 |-> FileCall(ph, I1(ph) + (k - 1) * BY2PG)]
    BY <1>3
  <2>2. B \in [1..n1 -> CallSet]
    BY <1>4, <2>1
  <2>3. B \in Seq(CallSet) /\ Len(B) = n1
    BY <2>2, FunctionIsSeq
  <2>4. \A k \in 1..n1 : B[k] = FileCall(ph, I1(ph) + (k - 1) * BY2PG)
    BY <2>1
  <2> QED BY <1>4, <2>3, <2>4
<1>6. C \in Seq(CallSet) /\ Len(C) = n2 /\ \A k \in 1..n2 : C[k] = ZeroCall(ph, I2(ph) + (k - 1) * BY2PG) /\ C[k].page \in PagesOf(ph)
  <2>1. C = [k \in 1..n2 |-> ZeroCall(ph, I2(ph) + (k - 1) * BY2PG)]
    BY <1>3
  <2>2. C \in [1..n2 -> CallSet]
    BY <1>4, <2>1
  <2>3. C \in Seq(CallSet) /\ Len(C) = n2
    BY <2>2, FunctionIsSeq
  <2>4. \A k \in 1..n2 : C[k] = ZeroCall(ph, I2(ph) + (k - 1) * BY2PG)
    BY <2>1
  <2> QED BY <1>4, <2>3, <2>4
<1> HIDE DEF A, B, C
<1>7. A \o B \in Seq(CallSet) /\ Len(A \o B) = h + n1
      /\ \A k \in 1..(h + n1) : (A \o B)[k] = IF k <= h THEN A[k] ELSE B[k - h]
  <2>1. A \in Seq(CallSet) /\ B \in Seq(CallSet) /\ Len(A) = h /\ Len(B) = n1
    BY <1>2, <1>3, <1>5
  <2> QED BY <2>1
<1>8. S \in Seq(CallSet) /\ Len(S) = h + n1 + n2
      /\ \A k \in 1..(h + n1 + n2) : S[k] = IF k <= h + n1 THEN (A \o B)[k] ELSE C[k - (h + n1)]
  <2>1. S = (A \o B) \o C /\ Len(C) = n2 /\ C \in Seq(CallSet)
    BY <1>1, <1>6
  <2>2. h \in Nat /\ n1 \in Nat /\ n2 \in Nat
    BY <1>3
  <2> QED BY ONLY <2>1, <2>2, <1>7
<1>9. ASSUME NEW k \in 1..(h + n1 + n2)
      PROVE  S[k] = CallAt(ph, k) /\ S[k].page \in PagesOf(ph)
  <2>1. CASE k <= h
    <3>1. k \in 1..h /\ k \in 1..(h + n1) /\ k <= h + n1
      BY <1>3, <2>1
    <3>2. S[k] = A[k]
      <4>1. S[k] = (A \o B)[k]
        BY <1>8, <3>1
      <4> QED BY <1>7, <2>1, <3>1, <4>1
    <3>3. A[k] = FirstCall(ph) /\ A[k].page \in PagesOf(ph)
      BY <1>2, <1>3, <3>1
    <3>4. CallAt(ph, k) = FirstCall(ph)
      BY <1>3, <2>1 DEF CallAt
    <3> QED BY <3>2, <3>3, <3>4
  <2>2. CASE h < k /\ k <= h + n1
    <3>1. k - h \in 1..n1 /\ S[k] = B[k - h] /\ ~(k <= h)
      <4>1. k - h \in 1..n1 /\ ~(k <= h) /\ k \in 1..(h + n1)
        BY <1>3, <2>2
      <4>2. S[k] = (A \o B)[k]
        BY <1>8, <2>2
      <4>3. (A \o B)[k] = B[k - h]
        BY <1>7, <4>1
      <4> QED BY <4>1, <4>2, <4>3
    <3> QED BY <1>3, <1>5, <2>2, <3>1 DEF CallAt
  <2>3. CASE h + n1 < k
    <3>1. k - (h + n1) \in 1..n2 /\ S[k] = C[k - (h + n1)] /\ ~(k <= h) /\ ~(k <= h + n1)
      BY <1>3, <1>8, <2>3
    <3>2. k - (h + n1) = k - h - n1
      BY <1>3
    <3> QED BY <1>3, <1>6, <2>3, <3>1, <3>2 DEF CallAt
  <2> QED BY <1>3, <2>1, <2>2, <2>3
<1> QED BY <1>3, <1>8, <1>9

\* A segment that can be placed: both loops run over whole pages, from a boundary on.
LEMMA Aligned ==
    ASSUME NEW ph \in Headers, Placeable(ph)
    PROVE  \/ N1(ph) = 0 /\ N2(ph) = 0
           \/ \E w \in Int : ph.va + I1(ph) = BY2PG * w /\ (Off(ph) # 0 => I1(ph) = BY2PG - Off(ph) /\ w = ph.va \div BY2PG + 1)
<1>0. BY2PG \in Int /\ BY2PG > 0
  BY SpawnAssumption
<1>1. PICK w \in Int, off \in Byte : w = ph.va \div BY2PG /\ off = Off(ph) /\ ph.va = BY2PG * w + off
  BY HeaderType, PageDiv DEF Off
<1>2. PICK m \in Int : m = BY2PG * w /\ BY2PG * (w + 1) = m + BY2PG /\ ph.va = m + off
  <2>1. BY2PG * w \in Int /\ BY2PG * (w + 1) = BY2PG * w + BY2PG
    BY <1>0
  <2> QED BY <1>1, <2>1
<1>3. off \in Int
  BY <1>0 DEF Byte
<1>4. CASE off = 0
  <2>1. I1(ph) = 0
    BY <1>1, <1>4 DEF I1
  <2>2. ph.va + I1(ph) = BY2PG * w
    BY <1>2, <1>4, <2>1
  <2> QED BY <1>1, <1>4, <2>2
<1>5. CASE off # 0 /\ ph.filesz >= BY2PG - off
  <2>1. I1(ph) = BY2PG - off
    BY <1>0, <1>1, <1>3, <1>5, HeaderType DEF I1, Part, MinOf
  <2>2. ph.va + I1(ph) = BY2PG * (w + 1)
    BY <1>0, <1>2, <1>3, <2>1
  <2> QED BY <1>1, <1>5, <2>1, <2>2
<1>6. CASE off # 0 /\ ph.filesz < BY2PG - off /\ ph.filesz = ph.memsz
  <2>1. I1(ph) = ph.filesz
    BY <1>0, <1>1, <1>3, <1>6, HeaderType DEF I1, Part, MinOf
  <2>2. ph.filesz - I1(ph) = 0
    BY <2>1, HeaderType
  <2>3. N1(ph) = 0
    BY <2>2 DEF N1, DivUp
  <2>4. I2(ph) = ph.filesz
    BY <1>0, <2>1, <2>3, HeaderType DEF I2
  <2>5. ph.memsz - I2(ph) = 0
    BY <1>6, <2>4, HeaderType
  <2>6. N2(ph) = 0
    BY <2>5 DEF N2, DivUp
  <2> QED BY <2>3, <2>6
<1>7. Off(ph) = 0 \/ ph.filesz >= BY2PG - Off(ph) \/ ph.filesz = ph.memsz
  BY Zenon DEF Placeable, Off
<1>8. ph.filesz < BY2PG - off \/ ph.filesz >= BY2PG - off
  BY <1>0, <1>3, HeaderType
<1> QED BY <1>1, <1>4, <1>5, <1>6, <1>7, <1>8

\* In such a segment the calls go through the pages in order, one call for each.
LEMMA CallPages ==
    ASSUME NEW ph \in Headers, Placeable(ph), NEW k \in 1..(H(ph) + N1(ph) + N2(ph))
    PROVE  CallAt(ph, k).page = ph.va \div BY2PG + k - 1
<1>0. BY2PG \in Int /\ BY2PG > 0
  BY SpawnAssumption
<1>1. PICK v \in Int : v = ph.va \div BY2PG
  BY HeaderType, PageDiv
<1>2. PICK h \in Nat, n1 \in Nat, n2 \in Nat : h = H(ph) /\ n1 = N1(ph) /\ n2 = N2(ph) /\ k \in Nat /\ k <= h + n1 + n2 /\ k >= 1
  <2>1. H(ph) \in Nat
    BY DEF H
  <2>2. N1(ph) \in Nat /\ N2(ph) \in Nat
    BY Loops
  <2> QED BY <2>1, <2>2
<1>3. CASE k <= h
  <2>1. h = 1 /\ k = 1
    BY <1>2, <1>3 DEF H
  <2>2. CallAt(ph, k).page = v
    BY <1>1, <1>2, <1>3 DEF CallAt, FirstCall, Call
  <2> QED BY <1>1, <2>1, <2>2
<1>4. CASE k > h
  <2>1. PICK w \in Int : ph.va + I1(ph) = BY2PG * w /\ (Off(ph) # 0 => w = v + 1)
    BY <1>1, <1>2, <1>4, Aligned
  <2>2. w = v + h
    <3>1. CASE Off(ph) = 0
      <4>1. h = 0 /\ I1(ph) = 0
        BY <1>2, <3>1 DEF H, I1
      <4>2. ph.va = BY2PG * w /\ ph.va \in Int
        BY <2>1, <4>1, HeaderType
      <4>3. 0 \in Byte /\ ph.va = BY2PG * w + 0
        BY <1>0, <4>2 DEF Byte
      <4>4. ph.va \div BY2PG = w
        BY <4>2, <4>3, PageDivUnique
      <4> QED BY <1>1, <4>1, <4>4
    <3>2. CASE Off(ph) # 0
      <4>1. h = 1
        BY <1>2, <3>2 DEF H
      <4> QED BY <2>1, <3>2, <4>1
    <3> QED BY <3>1, <3>2
  <2>3. ASSUME NEW j \in Nat, NEW i, i = I1(ph) + j * BY2PG
        PROVE  (ph.va + i) \div BY2PG = w + j
    <3>1. PICK va \in Int, i1 \in Int, m \in Int, n \in Int :
              va = ph.va /\ i1 = I1(ph) /\ m = BY2PG * w /\ n = j * BY2PG /\ n = BY2PG * j
      <4>1. j * BY2PG \in Int /\ j * BY2PG = BY2PG * j /\ BY2PG * w \in Int
        BY <1>0
      <4> QED BY <4>1, HeaderType, Loops
    <3>2. BY2PG * (w + j) = m + n
      BY <1>0, <3>1
    <3>3. va + i \in Int /\ va + i = BY2PG * (w + j) + 0
      BY <2>1, <2>3, <3>1, <3>2
    <3>4. 0 \in Byte /\ w + j \in Int
      BY <1>0 DEF Byte
    <3> QED BY <3>1, <3>3, <3>4, PageDivUnique
  <2>4. CASE k <= h + n1
    <3>1. CallAt(ph, k) = FileCall(ph, I1(ph) + (k - h - 1) * BY2PG)
      BY <1>2, <1>4, <2>4 DEF CallAt
    <3>2. k - h - 1 \in Nat
      BY <1>2, <1>4
    <3>3. CallAt(ph, k).page = w + (k - h - 1)
      BY <2>3, <3>1, <3>2 DEF FileCall, Call
    <3> QED BY <1>1, <1>2, <2>2, <3>3
  <2>5. CASE k > h + n1
    <3>1. CallAt(ph, k) = ZeroCall(ph, I2(ph) + (k - h - n1 - 1) * BY2PG)
      BY <1>2, <1>4, <2>5 DEF CallAt
    <3>2. k - h - n1 - 1 \in Nat /\ k - h - 1 \in Nat
      BY <1>2, <1>4, <2>5
    <3>3. I2(ph) + (k - h - n1 - 1) * BY2PG = I1(ph) + (k - h - 1) * BY2PG
      <4>1. PICK i1 \in Int : i1 = I1(ph) /\ I2(ph) = i1 + n1 * BY2PG
        BY <1>2, Loops DEF I2
      <4>2. PICK d \in Nat : d = k - h - n1 - 1 /\ k - h - 1 = n1 + d
        BY <1>2, <3>2
      <4>3. (n1 + d) * BY2PG = n1 * BY2PG + d * BY2PG /\ n1 * BY2PG \in Int /\ d * BY2PG \in Int
        BY <1>0
      <4> QED BY <4>1, <4>2, <4>3
    <3>4. CallAt(ph, k).page = w + (k - h - 1)
      BY <2>3, <3>1, <3>2, <3>3 DEF ZeroCall, Call
    <3> QED BY <1>1, <1>2, <2>2, <3>4
  <2> QED BY <1>2, <2>4, <2>5
<1> QED BY <1>2, <1>3, <1>4

\* Every byte of such a segment is in the page of a call, which has the right value for it.
LEMMA SegmentBytes ==
    ASSUME NEW ph \in Headers, Placeable(ph), NEW i \in 0..(ph.memsz - 1)
    PROVE  \E k \in 1..(H(ph) + N1(ph) + N2(ph)) :
              /\ CallAt(ph, k).page = (ph.va + i) \div BY2PG
              /\ PageOf(CallAt(ph, k))[(ph.va + i) % BY2PG] = IF i < ph.filesz THEN ph.offset + i + 1 ELSE 0
<1>0. BY2PG \in Int /\ BY2PG > 0 /\ None \notin Nat
  BY SpawnAssumption
<1>1. PICK va \in Nat, fs \in Nat, ms \in Nat, o \in Nat :
          va = ph.va /\ fs = ph.filesz /\ ms = ph.memsz /\ o = ph.offset /\ fs <= ms /\ i \in Nat /\ i < ms
  BY HeaderType
<1>2. PICK h \in Nat, n1 \in Nat, n2 \in Nat, i1 \in Nat, i2 \in Nat :
          /\ h = H(ph) /\ n1 = N1(ph) /\ n2 = N2(ph) /\ i1 = I1(ph) /\ i2 = I2(ph)
          /\ i1 <= fs /\ i1 <= i2 /\ fs <= i2 /\ i2 = i1 + n1 * BY2PG /\ ms <= i2 + BY2PG * n2
  <2>1. H(ph) \in Nat
    BY DEF H
  <2>2. I2(ph) = I1(ph) + N1(ph) * BY2PG
    BY DEF I2
  <2> QED BY <1>1, <2>1, <2>2, Loops
<1>3. CASE i < i1
  <2>1. Off(ph) # 0 /\ h = 1 /\ i1 = Part(ph)
    BY <1>1, <1>2, <1>3 DEF H, I1
  <2>2. PICK w \in Int, off \in Byte : w = va \div BY2PG /\ off = Off(ph) /\ va = BY2PG * w + off
    BY <1>1, PageDiv DEF Off
  <2>3. off + i \in Byte
    BY <1>0, <1>1, <1>2, <1>3, <2>1, <2>2, Loops DEF Byte
  <2>4. va + i \in Int /\ va + i = BY2PG * w + (off + i)
    <3>1. PICK m \in Int : m = BY2PG * w
      BY <1>0
    <3> QED BY <1>0, <1>1, <2>2, <3>1 DEF Byte
  <2>5. (va + i) \div BY2PG = w /\ (va + i) % BY2PG = off + i
    BY <2>3, <2>4, PageDivUnique
  <2>6. CallAt(ph, 1) = [page |-> w, at |-> off, src |-> o, len |-> i1]
    BY <1>1, <1>2, <2>1, <2>2 DEF CallAt, FirstCall, Call
  <2>7. PageOf(CallAt(ph, 1))[off + i] = o + i + 1
    <3>1. off <= off + i /\ off + i < off + i1 /\ (off + i) - off = i
      BY <1>0, <1>1, <1>2, <1>3 DEF Byte
    <3> QED BY <1>0, <1>1, <2>3, <2>6, <3>1 DEF PageOf
  <2>8. i < fs
    BY <1>1, <1>2, <1>3
  <2>9. 1 \in 1..(h + n1 + n2)
    BY <1>2, <2>1
  <2> QED BY <1>1, <1>2, <2>5, <2>6, <2>7, <2>8, <2>9
<1>4. CASE ~(i < i1)
  <2>1. PICK j \in Int, b \in Byte : j = (i - i1) \div BY2PG /\ i - i1 = BY2PG * j + b
    <3>1. i - i1 \in Int
      BY <1>1, <1>2
    <3> QED BY <3>1, PageDiv
  <2>2. PICK m \in Int : m = BY2PG * j /\ m = j * BY2PG /\ i = i1 + m + b /\ b \in Nat /\ b < BY2PG
    <3>1. BY2PG * j \in Int /\ BY2PG * j = j * BY2PG
      BY <1>0
    <3> QED BY <1>0, <1>1, <1>2, <2>1, <3>1 DEF Byte
  <2>3. j \in Nat
    <3>1. SUFFICES ASSUME j + 1 <= 0 PROVE FALSE
      BY <2>1
    <3>2. BY2PG * (j + 1) <= BY2PG * 0 /\ BY2PG * (j + 1) = m + BY2PG /\ BY2PG * 0 = 0
      BY <1>0, <2>2, <3>1, PagesMonotonic
    <3> QED BY <1>0, <1>1, <1>2, <1>4, <2>2, <3>2
  <2>4. j < n1 + n2
    <3>1. SUFFICES ASSUME n1 + n2 <= j PROVE FALSE
      BY <1>2, <2>3
    <3>2. BY2PG * (n1 + n2) <= m
      BY <1>2, <2>2, <2>3, <3>1, PagesMonotonic
    <3>3. PICK x \in Int, y \in Int : x = n1 * BY2PG /\ y = BY2PG * n2 /\ BY2PG * (n1 + n2) = x + y
      <4>1. n1 * BY2PG \in Int /\ BY2PG * n2 \in Int /\ BY2PG * (n1 + n2) = n1 * BY2PG + BY2PG * n2
        BY <1>0
      <4> QED BY <4>1
    <3> QED BY <1>1, <1>2, <2>2, <3>2, <3>3
  <2>5. PICK w \in Int : va + i1 = BY2PG * w
    BY <1>1, <1>2, <2>3, <2>4, Aligned
  <2>6. (va + i) \div BY2PG = w + j /\ (va + i) % BY2PG = b
    <3>1. PICK x \in Int : x = BY2PG * w /\ BY2PG * (w + j) = x + m
      <4>1. BY2PG * w \in Int /\ BY2PG * (w + j) = BY2PG * w + BY2PG * j
        BY <1>0
      <4> QED BY <2>2, <4>1
    <3>2. va + i \in Int /\ va + i = BY2PG * (w + j) + b
      BY <1>1, <1>2, <2>2, <2>5, <3>1
    <3>3. w + j \in Int
      OBVIOUS
    <3> QED BY <3>2, <3>3, PageDivUnique
  <2> DEFINE k == h + j + 1
  <2>7. k \in 1..(h + n1 + n2) /\ ~(k <= h) /\ k - h - 1 = j
    BY <1>2, <2>3, <2>4
  <2>8. CallAt(ph, k).page = (va + i) \div BY2PG
    <3>1. (va + (i1 + m)) \div BY2PG = w + j
      <4>1. PICK x \in Int : x = BY2PG * w /\ BY2PG * (w + j) = x + m
        <5>1. BY2PG * w \in Int /\ BY2PG * (w + j) = BY2PG * w + BY2PG * j
          BY <1>0
        <5> QED BY <2>2, <5>1
      <4>2. va + (i1 + m) \in Int /\ va + (i1 + m) = BY2PG * (w + j) + 0
        BY <1>1, <1>2, <2>2, <2>5, <4>1
      <4>3. w + j \in Int /\ 0 \in Byte
        BY <1>0 DEF Byte
      <4> QED BY <4>2, <4>3, PageDivUnique
    <3>2. CASE k <= h + n1
      <4>1. CallAt(ph, k) = FileCall(ph, i1 + m)
        BY <1>2, <2>2, <2>7, <3>2 DEF CallAt
      <4> QED BY <1>1, <2>6, <3>1, <4>1 DEF FileCall, Call
    <3>3. CASE ~(k <= h + n1)
      <4>1. CallAt(ph, k) = ZeroCall(ph, i2 + (k - h - n1 - 1) * BY2PG)
        BY <1>2, <2>7, <3>3 DEF CallAt
      <4>2. i2 + (k - h - n1 - 1) * BY2PG = i1 + m
        <5>1. PICK d \in Nat : d = k - h - n1 - 1 /\ j = n1 + d
          BY <1>2, <2>3, <3>3
        <5>2. (n1 + d) * BY2PG = n1 * BY2PG + d * BY2PG /\ n1 * BY2PG \in Int /\ d * BY2PG \in Int
          BY <1>0
        <5> QED BY <1>2, <2>2, <5>1, <5>2
      <4> QED BY <1>1, <2>6, <3>1, <4>1, <4>2 DEF ZeroCall, Call
    <3> QED BY <3>2, <3>3
  <2>9. PageOf(CallAt(ph, k))[b] = IF i < fs THEN o + i + 1 ELSE 0
    <3>1. CASE k <= h + n1
      <4>1. CallAt(ph, k) = FileCall(ph, i1 + m)
        BY <1>2, <2>2, <2>7, <3>1 DEF CallAt
      <4>2. PICK l \in Int : l = MinOf(fs - (i1 + m), BY2PG) /\ (b < l <=> i < fs)
        BY <1>0, <1>1, <1>2, <2>2 DEF MinOf
      <4>3. CallAt(ph, k) = [page |-> (va + (i1 + m)) \div BY2PG, at |-> 0, src |-> o + (i1 + m), len |-> l]
        BY <1>1, <4>1, <4>2 DEF FileCall, Call
      <4>4. o + (i1 + m) # None
        <5>1. m >= 0
          BY <1>0, <2>2, <2>3
        <5> QED BY <1>0, <1>1, <1>2, <2>2, <5>1
      <4>5. PageOf(CallAt(ph, k))[b] = IF b < l THEN o + (i1 + m) + (b - 0) + 1 ELSE 0
        <5>1. PageOf(CallAt(ph, k))[b] = IF o + (i1 + m) # None /\ 0 <= b /\ b < 0 + l
                                         THEN o + (i1 + m) + (b - 0) + 1 ELSE 0
          BY <4>3 DEF PageOf
        <5> QED BY <2>2, <4>2, <4>4, <5>1
      <4> QED BY <1>1, <1>2, <2>2, <4>2, <4>5
    <3>2. CASE ~(k <= h + n1)
      <4>1. CallAt(ph, k).src = None
        BY <1>2, <2>7, <3>2 DEF CallAt, ZeroCall, Call
      <4>2. ~(i < fs)
        <5>1. n1 <= j
          BY <1>2, <2>3, <3>2
        <5>2. BY2PG * n1 <= m /\ BY2PG * n1 \in Int /\ BY2PG * n1 = n1 * BY2PG
          BY <1>0, <2>2, <2>3, <5>1, PagesMonotonic
        <5> QED BY <1>1, <1>2, <2>2, <5>2
      <4> QED BY <4>1, <4>2 DEF PageOf
    <3> QED BY <3>1, <3>2
  <2> HIDE DEF k
  <2> QED BY <1>1, <1>2, <2>6, <2>7, <2>8, <2>9
<1> QED BY <1>3, <1>4

-------------------------------------------------------------------------------
(***************************************************************************)
(* The inductive invariant.                                                *)
(***************************************************************************)
Contents == [Byte -> Nat]
SpPages == ImagePage \cup {StackPage}
Alive == child \in {"NOT_RUNNABLE", "RUNNABLE"}
MakingPC == {"phdr", "load_icode"}

SpTypes ==
    /\ sp \in [pc : {"boot", "load_icode", "created", "open", "header", "exofork", "init_stack", "map_stack",
                     "phdr", "share", "err1", "err2", "err", "returned"},
               ph : Nat \ {0}, calls : Seq(CallSet), share : SUBSET SpawnLibrary,
               r : {"none", "error", "uninitialised", "child"}]
    /\ WellFormed(prog)
    /\ fd \in BOOLEAN /\ utemp \in BOOLEAN /\ utable \in BOOLEAN /\ panicked \in BOOLEAN
    /\ child \in {"NONE", "NOT_RUNNABLE", "RUNNABLE", "FREE"}
    /\ mem \in [SpPages -> Contents \cup {None}]
    /\ inherited \in SUBSET SpawnLibrary
    /\ tables \in SUBSET {"text", "stack", "library"}
    /\ free \in Nat /\ taken \in Nat /\ leaked \in Nat

\* The pages of the machine.
PagesCounted ==
    free + taken + leaked + Cost + (IF utable THEN 1 ELSE 0) + (IF utemp THEN 1 ELSE 0) = SpawnPages

\* What the caller and the slot of the child have when spawn, or the kernel, is at pc.
Progress ==
    /\ utemp <=> sp.pc = "map_stack"
    /\ fd => sp.pc \in {"header", "exofork", "init_stack", "map_stack", "phdr", "err1", "err"}
    /\ sp.r = "child" => sp.pc = "returned"
    /\ sp.calls # <<>> => sp.pc \in MakingPC
    /\ sp.pc \in {"boot", "open", "header", "exofork"} => child = "NONE" /\ sp.ph = 1
    /\ sp.pc \in {"init_stack", "map_stack"} => child \in {"NONE", "NOT_RUNNABLE"} /\ sp.ph = 1
    /\ sp.pc = "err1" => child \in {"NONE", "NOT_RUNNABLE"}
    /\ sp.pc \in {"phdr", "share", "err2"} => child = "NOT_RUNNABLE"
    /\ sp.pc \in {"load_icode", "created"} => child = "RUNNABLE"
    /\ sp.pc \in {"err", "returned"} /\ sp.r # "child" =>
          /\ child # "RUNNABLE"
          /\ panicked \/ child \in {"NONE", "FREE"}
    /\ sp.pc = "returned" /\ sp.r = "child" => child = "RUNNABLE"
    /\ child = "NONE" \/ sp.pc \in {"init_stack", "map_stack"} => tables = {} /\ mem = [n \in SpPages |-> None]

\* The child has its stack, and the library pages that have been shared so far.
Equipped ==
    /\ sp.pc \in {"phdr", "share"} \/ (sp.pc = "returned" /\ child = "RUNNABLE") => mem[StackPage] # None
    /\ sp.pc \in {"boot", "open", "header", "exofork", "init_stack", "map_stack", "phdr"} => inherited = {}
    /\ sp.pc = "share" => inherited \cup sp.share = SpawnLibrary
    /\ sp.pc = "returned" /\ child = "RUNNABLE" => inherited = SpawnLibrary

\* The calls left are the last ones of the header before sp.ph, and the pages of the calls
\* made, for this header and those before it, are what these calls made them.
Unmade(k) == IF k = sp.ph - 1 THEN Len(sp.calls) ELSE 0
Queued ==
    sp.calls # <<>> =>
        LET k == sp.ph - 1
            S == elf_load_seg(prog[k])
        IN  /\ k \in DOMAIN prog /\ prog[k].load
            /\ Len(sp.calls) <= Len(S)
            /\ \A i \in 1..Len(sp.calls) : sp.calls[i] = S[Len(S) - Len(sp.calls) + i]
LoadedPages ==
    sp.pc \in {"phdr", "load_icode", "share", "created"} \/ child = "RUNNABLE" =>
        \A k \in DOMAIN prog :
            k < sp.ph /\ prog[k].load /\ Placeable(prog[k]) =>
                LET S == elf_load_seg(prog[k])
                IN  \A i \in 1..(Len(S) - Unmade(k)) : mem[S[i].page] = PageOf(S[i])
Complete ==
    sp.pc \in {"share", "created"} \/ (sp.pc = "returned" /\ child = "RUNNABLE") => sp.ph > Len(prog)

SpInv == SpTypes /\ PagesCounted /\ Progress /\ Equipped /\ Queued /\ LoadedPages /\ Complete

LEMMA CallType ==
    ASSUME NEW c \in CallSet
    PROVE  c.page \in ImagePage /\ PageOf(c) \in Contents
<1>1. c.page \in ImagePage /\ c.at \in Nat /\ c.src \in Nat \cup {None} /\ c.len \in Nat
  BY DEF CallSet
<1>2. \A b \in Byte : b \in Int
  BY SpawnAssumption DEF Byte
<1>3. ASSUME NEW b \in Byte
      PROVE  (IF c.src # None /\ c.at <= b /\ b < c.at + c.len THEN c.src + (b - c.at) + 1 ELSE 0) \in Nat
  BY <1>1, <1>2
<1> QED BY <1>1, <1>3 DEF PageOf, Contents

LEMMA NonePage == Zeroed \in Contents /\ None \notin Contents
BY SpawnAssumption DEF Zeroed, Contents

\* Held and tables are finite, and what one more page or table adds.
LEMMA PagesFinite == IsFiniteSet(SpPages)
<1>1. IsFiniteSet(0..NIMAGE)
  BY SpawnAssumption, FS_Interval
<1>2. SpPages \subseteq 0..NIMAGE
  BY SpawnAssumption DEF SpPages, ImagePage, StackPage
<1> QED BY <1>1, <1>2, FS_Subset

LEMMA CostType ==
    ASSUME SpTypes
    PROVE  /\ Cardinality(tables) \in Nat /\ IsFiniteSet(tables)
           /\ Cardinality(Held) \in Nat /\ IsFiniteSet(Held)
           /\ Cost = IF Alive THEN 1 + Cardinality(tables) + Cardinality(Held) ELSE 0
           /\ Cost \in Nat
<1>1. IsFiniteSet({"text", "stack", "library"})
  <2>1. IsFiniteSet({"text"} \cup {"stack"} \cup {"library"})
    BY FS_Singleton, FS_Union
  <2>2. {"text"} \cup {"stack"} \cup {"library"} = {"text", "stack", "library"}
    OBVIOUS
  <2> QED BY <2>1, <2>2
<1>2. IsFiniteSet(tables)
  BY <1>1, FS_Subset DEF SpTypes
<1>3. Held \subseteq SpPages
  BY DEF Held, SpTypes
<1>4. IsFiniteSet(Held)
  BY <1>3, PagesFinite, FS_Subset
<1>5. Cardinality(tables) \in Nat /\ Cardinality(Held) \in Nat
  BY <1>2, <1>4, FS_CardinalityType
<1>6. Cost = IF Alive THEN 1 + Cardinality(tables) + Cardinality(Held) ELSE 0
  BY DEF Cost, Alive
<1> QED BY <1>2, <1>4, <1>5, <1>6

LEMMA HeldAdded ==
    ASSUME SpTypes, NEW n \in SpPages, NEW data \in Contents, mem' = [mem EXCEPT ![n] = data]
    PROVE  Cardinality(Held') = Cardinality(Held) + IF mem[n] = None THEN 1 ELSE 0
<1>1. mem \in [SpPages -> Contents \cup {None}] /\ data # None
  BY NonePage DEF SpTypes
<1>2. Held' = Held \cup {n}
  BY <1>1 DEF Held
<1>3. n \in Held <=> mem[n] # None
  BY <1>1 DEF Held
<1>4. IsFiniteSet(Held) /\ Cardinality(Held) \in Nat
  BY CostType
<1>5. Cardinality(Held \cup {n}) = IF n \in Held THEN Cardinality(Held) ELSE Cardinality(Held) + 1
  BY <1>4, FS_AddElement
<1> QED BY <1>2, <1>3, <1>4, <1>5

LEMMA TableAdded ==
    ASSUME SpTypes, NEW n
    PROVE  /\ Cardinality(tables \cup {Table(n)}) = Cardinality(tables) + TableCost(n)
           /\ TableCost(n) \in {0, 1} /\ tables \cup {Table(n)} \in SUBSET {"text", "stack", "library"}
           /\ (Insertable(n, free) => TableCost(n) <= free)
<1>1. IsFiniteSet(tables) /\ Cardinality(tables) \in Nat
  BY CostType
<1>2. Cardinality(tables \cup {Table(n)}) = IF Table(n) \in tables THEN Cardinality(tables) ELSE Cardinality(tables) + 1
  BY <1>1, FS_AddElement
<1>3. tables \cup {Table(n)} \in SUBSET {"text", "stack", "library"}
  BY DEF SpTypes, Table
<1>4. TableCost(n) = IF Table(n) \in tables THEN 0 ELSE 1
  BY DEF TableCost
<1>5. Insertable(n, free) => Table(n) \in tables \/ free > 0
  BY DEF Insertable
<1>6. free \in Nat
  BY DEF SpTypes
<1> QED BY <1>1, <1>2, <1>3, <1>4, <1>5, <1>6

-------------------------------------------------------------------------------
LEMMA SpawnInitInv ==
    ASSUME NEW headers, WellFormed(headers), NEW pc \in {"open", "boot"}, SpawnInitWith(headers, pc)
    PROVE  SpInv
<1>1. sp = [pc |-> pc, ph |-> 1, calls |-> <<>>, share |-> {}, r |-> "none"]
  BY DEF SpawnInitWith, Idle
<1>2. SpTypes
  <2>1. <<>> \in Seq(CallSet)
    OBVIOUS
  <2>2. free \in Nat /\ taken \in Nat /\ leaked \in Nat
    BY SpawnAssumption DEF SpawnInitWith
  <2>3. mem \in [SpPages -> Contents \cup {None}]
    BY DEF SpawnInitWith, SpPages
  <2>4. sp \in [pc : {"boot", "load_icode", "created", "open", "header", "exofork", "init_stack", "map_stack",
                      "phdr", "share", "err1", "err2", "err", "returned"},
                ph : Nat \ {0}, calls : Seq(CallSet), share : SUBSET SpawnLibrary,
                r : {"none", "error", "uninitialised", "child"}]
    BY <1>1, <2>1
  <2> QED BY <2>2, <2>3, <2>4 DEF SpawnInitWith, SpTypes
<1>3. PagesCounted
  <2>1. Cost = 0
    BY DEF SpawnInitWith, Cost
  <2>2. SpawnPages \in Nat
    BY SpawnAssumption
  <2> QED BY <2>1, <2>2 DEF SpawnInitWith, PagesCounted
<1>4. Progress
  BY <1>1 DEF SpawnInitWith, Progress, SpPages
<1>5. Equipped
  BY <1>1 DEF SpawnInitWith, Equipped
<1>6. Queued
  BY <1>1 DEF Queued
<1>7. LoadedPages /\ Complete
  BY <1>1 DEF SpawnInitWith, LoadedPages, Complete
<1> QED BY <1>2, <1>3, <1>4, <1>5, <1>6, <1>7 DEF SpInv

\* Where the child does not change, its cost does not.
LEMMA CostUnchanged ==
    ASSUME child' = child, mem' = mem, tables' = tables
    PROVE  Cost' = Cost
BY DEF Cost, Held

LEMMA TakeGiveInv == ASSUME SpInv, take \/ give PROVE SpInv'
<1>1. UNCHANGED <<sp, prog, fd, utemp, utable, child_vars, leaked, panicked>>
  BY DEF take, give
<1>2. free' \in Nat /\ taken' \in Nat /\ free' + taken' = free + taken
  BY DEF take, give, SpInv, SpTypes
<1>3. SpTypes'
  BY <1>1, <1>2 DEF SpInv, SpTypes, child_vars
<1>4. PagesCounted'
  <2>1. Cost' = Cost /\ Cost \in Nat
    BY <1>1, CostUnchanged, CostType DEF child_vars, SpInv
  <2> QED BY <1>1, <1>2, <2>1 DEF SpInv, SpTypes, PagesCounted
<1>5. Progress' /\ Equipped' /\ Queued' /\ Complete'
  BY <1>1 DEF SpInv, Progress, Equipped, Queued, Complete, child_vars
<1>6. LoadedPages'
  BY <1>1 DEF SpInv, LoadedPages, Unmade, child_vars
<1> QED BY <1>3, <1>4, <1>5, <1>6 DEF SpInv

\* A step of the caller that leaves the child and the pages alone.
Resting == UNCHANGED <<prog, utemp, utable, child_vars, pool, panicked>>

LEMMA RestingTypes ==
    ASSUME SpInv, Resting
    PROVE  /\ sp' \in [pc : {"boot", "load_icode", "created", "open", "header", "exofork", "init_stack", "map_stack",
                             "phdr", "share", "err1", "err2", "err", "returned"},
                       ph : Nat \ {0}, calls : Seq(CallSet), share : SUBSET SpawnLibrary,
                       r : {"none", "error", "uninitialised", "child"}] /\ fd' \in BOOLEAN
              => SpTypes'
           /\ PagesCounted'
<1>1. UNCHANGED <<prog, utemp, utable, child, mem, inherited, tables, free, taken, leaked, panicked>>
  BY DEF Resting, child_vars, pool
<1>2. Cost' = Cost
  BY <1>1, CostUnchanged
<1>3. PagesCounted'
  BY <1>1, <1>2 DEF SpInv, PagesCounted
<1> QED BY <1>1, <1>3 DEF SpInv, SpTypes

\* A step that leaves the headers, the image and the calls left alone.
LEMMA LoadedUnchanged ==
    ASSUME SpInv, UNCHANGED <<prog, mem>>, sp'.ph = sp.ph, sp'.calls = sp.calls,
           sp'.pc \in {"phdr", "load_icode", "share", "created"} \/ child' = "RUNNABLE" =>
              sp.pc \in {"phdr", "load_icode", "share", "created"} \/ child = "RUNNABLE"
    PROVE  Queued' /\ LoadedPages'
<1>1. Queued'
  BY DEF SpInv, Queued
<1>2. LoadedPages'
  BY DEF SpInv, LoadedPages, Unmade
<1> QED BY <1>1, <1>2

LEMMA NothingQueued == ASSUME sp'.calls = <<>> PROVE Queued'
BY DEF Queued

LEMMA NothingLoaded ==
    ASSUME sp'.pc \notin {"phdr", "load_icode", "share", "created"}, child' # "RUNNABLE"
    PROVE  LoadedPages'
BY DEF LoadedPages

LEMMA OpenInv == ASSUME SpInv, open PROVE SpInv'
<1>1. /\ Resting /\ sp.pc = "open" /\ child = "NONE" /\ sp.calls = <<>>
      /\ \/ sp' = [sp EXCEPT !.pc = "header"] /\ fd' = TRUE
         \/ sp' = [sp EXCEPT !.pc = "returned", !.r = "error", !.calls = <<>>] /\ fd' = fd
  <2>1. sp.pc = "open"
    BY DEF open, At
  <2>2. child = "NONE" /\ sp.calls = <<>>
    BY <2>1 DEF SpInv, Progress, MakingPC
  <2>3. Resting
    BY DEF open, Resting
  <2>4. \/ sp' = [sp EXCEPT !.pc = "header"] /\ fd' = TRUE
        \/ sp' = [sp EXCEPT !.pc = "returned", !.r = "error", !.calls = <<>>] /\ fd' = fd
    BY Zenon DEF open, Goto, Returns
  <2> QED BY <2>1, <2>2, <2>3, <2>4, Zenon
<1>2. UNCHANGED <<prog, utemp, utable, child, mem, inherited, tables, free, taken, leaked, panicked>>
  BY <1>1 DEF Resting, child_vars, pool
<1>3. SpTypes'
  <2>1. <<>> \in Seq(CallSet)
    OBVIOUS
  <2> QED BY <1>1, <2>1, RestingTypes DEF SpInv, SpTypes
<1>4. PagesCounted'
  BY <1>1, RestingTypes
<1>5. /\ sp'.calls = <<>> /\ sp'.pc \in {"header", "returned"} /\ sp'.ph = sp.ph /\ sp'.r # "child"
      /\ sp'.pc = "returned" => fd' = fd
  <2>1. sp.r # "child"
    BY <1>1 DEF SpInv, Progress
  <2> QED BY <1>1, <2>1 DEF SpInv, SpTypes
<1>6. Progress'
  BY <1>1, <1>2, <1>5 DEF SpInv, Progress
<1>7. Equipped' /\ Complete'
  BY <1>1, <1>2, <1>5 DEF SpInv, Equipped, Complete
<1>8. Queued' /\ LoadedPages'
  BY <1>1, <1>2, <1>5, NothingQueued, NothingLoaded
<1> QED BY <1>3, <1>4, <1>6, <1>7, <1>8 DEF SpInv

LEMMA ReadHeaderInv == ASSUME SpInv, read_header PROVE SpInv'
<1>1. /\ Resting /\ sp.pc = "header" /\ child = "NONE" /\ sp.calls = <<>> /\ fd' = fd
      /\ \/ sp' = [sp EXCEPT !.pc = "exofork"]
         \/ sp' = [sp EXCEPT !.pc = "err", !.r = "error"]
  BY DEF read_header, At, Goto, Resting, SpInv, Progress, MakingPC
<1>2. UNCHANGED <<prog, utemp, utable, child, mem, inherited, tables, free, taken, leaked, panicked>>
  BY <1>1 DEF Resting, child_vars, pool
<1>3. SpTypes'
  BY <1>1, RestingTypes DEF SpInv, SpTypes
<1>4. PagesCounted'
  BY <1>1, RestingTypes
<1>5. sp'.calls = <<>> /\ sp'.pc \in {"exofork", "err"} /\ sp'.ph = sp.ph
  BY <1>1 DEF SpInv, SpTypes
<1>6. Progress'
  BY <1>1, <1>2 DEF SpInv, SpTypes, Progress
<1>7. Equipped' /\ Complete'
  BY <1>1, <1>2, <1>5 DEF SpInv, Equipped, Complete
<1>8. Queued' /\ LoadedPages'
  BY <1>1, <1>2, <1>5, NothingQueued, NothingLoaded
<1> QED BY <1>3, <1>4, <1>6, <1>7, <1>8 DEF SpInv

LEMMA ErrCloseInv == ASSUME SpInv, err_close PROVE SpInv'
<1>1. /\ Resting /\ sp.pc = "err" /\ sp.calls = <<>> /\ fd' = FALSE
      /\ sp' = [sp EXCEPT !.pc = "returned", !.r = sp.r, !.calls = <<>>]
  BY DEF err_close, At, Returns, Resting, SpInv, Progress, MakingPC
<1>2. UNCHANGED <<prog, utemp, utable, child, mem, inherited, tables, free, taken, leaked, panicked>>
  BY <1>1 DEF Resting, child_vars, pool
<1>3. SpTypes'
  <2>1. <<>> \in Seq(CallSet)
    OBVIOUS
  <2> QED BY <1>1, <2>1, RestingTypes DEF SpInv, SpTypes
<1>4. PagesCounted'
  BY <1>1, RestingTypes
<1>5. sp'.calls = <<>> /\ sp'.pc = "returned" /\ sp'.ph = sp.ph /\ sp'.r = sp.r
  BY <1>1 DEF SpInv, SpTypes
<1>6. child \in {"NONE", "FREE"}
  BY <1>1 DEF SpInv, Progress, err_close, At
<1>7. Progress'
  BY <1>1, <1>2, <1>5, <1>6 DEF SpInv, SpTypes, Progress
<1>8. Equipped' /\ Complete'
  BY <1>1, <1>2, <1>5, <1>6 DEF SpInv, Equipped, Complete
<1>9. Queued' /\ LoadedPages'
  BY <1>2, <1>5, <1>6, NothingQueued, NothingLoaded
<1> QED BY <1>3, <1>4, <1>7, <1>8, <1>9 DEF SpInv

LEMMA ExoforkInv == ASSUME SpInv, exofork PROVE SpInv'
<1>1. sp.pc = "exofork" /\ sp' = [sp EXCEPT !.pc = "init_stack"]
  BY DEF exofork, At, Goto
<1>2. child = "NONE" /\ sp.calls = <<>> /\ sp.ph = 1 /\ tables = {} /\ mem = [n \in SpPages |-> None] /\ inherited = {}
  BY <1>1 DEF SpInv, Progress, Equipped, MakingPC
<1>3. UNCHANGED <<prog, fd, utemp, utable, mem, inherited, tables, taken, panicked>>
  BY DEF exofork
<1>4. \/ free > 0 /\ free' = free - 1 /\ child' = "NOT_RUNNABLE" /\ leaked' = leaked
      \/ free > 0 /\ free' = free - 1 /\ leaked' = leaked + 1 /\ child' = child
      \/ free' = free /\ leaked' = leaked /\ child' = child
  BY DEF exofork
<1>5. SpTypes'
  BY <1>1, <1>2, <1>3, <1>4 DEF SpInv, SpTypes
<1>6. PagesCounted'
  <2>1. Cost = 0
    BY <1>2 DEF Cost
  <2>2. Cost' = IF child' = "NOT_RUNNABLE" THEN 1 ELSE 0
    <3>1. Held' = {} /\ tables' = {}
      BY <1>2, <1>3 DEF Held, SpTypes
    <3>2. Cardinality(Held') = 0 /\ Cardinality(tables') = 0
      BY <3>1, FS_EmptySet
    <3> QED BY <1>2, <1>4, <3>2 DEF Cost
  <2>3. PICK u \in Nat, t \in Nat : u = (IF utable THEN 1 ELSE 0) /\ t = (IF utemp THEN 1 ELSE 0)
    OBVIOUS
  <2>4. free + taken + leaked + 0 + u + t = SpawnPages
    BY <2>1, <2>3 DEF SpInv, PagesCounted
  <2>5. free \in Nat /\ taken \in Nat /\ leaked \in Nat
    BY DEF SpInv, SpTypes
  <2>6. free' + taken' + leaked' + Cost' + u + t = SpawnPages
    BY <1>2, <1>3, <1>4, <2>2, <2>4, <2>5
  <2> QED BY <1>3, <2>3, <2>6 DEF PagesCounted
<1>7. sp'.calls = <<>> /\ sp'.pc = "init_stack" /\ sp'.ph = 1 /\ sp'.r = sp.r
  BY <1>1, <1>2 DEF SpInv, SpTypes
<1>8. Progress'
  BY <1>1, <1>2, <1>3, <1>4, <1>7 DEF SpInv, Progress
<1>9. Equipped' /\ Complete'
  BY <1>2, <1>3, <1>4, <1>7 DEF Equipped, Complete
<1>10. Queued' /\ LoadedPages'
  BY <1>2, <1>4, <1>7, NothingQueued, NothingLoaded
<1> QED BY <1>5, <1>6, <1>8, <1>9, <1>10 DEF SpInv

LEMMA InitStackInv == ASSUME SpInv, init_stack PROVE SpInv'
<1>1. sp.pc = "init_stack" /\ sp' = [sp EXCEPT !.pc = "map_stack"] /\ utemp' = TRUE /\ utable' = TRUE
  BY DEF init_stack, At, Goto
<1>2. child \in {"NONE", "NOT_RUNNABLE"} /\ sp.calls = <<>> /\ sp.ph = 1 /\ inherited = {} /\ utemp = FALSE
  BY <1>1 DEF SpInv, Progress, Equipped, MakingPC, SpTypes
<1>3. UNCHANGED <<prog, fd, child, mem, inherited, tables, taken, leaked, panicked>>
  BY DEF init_stack, child_vars
<1>4. free > (IF utable THEN 0 ELSE 1) /\ free' = free - IF utable THEN 1 ELSE 2
  BY DEF init_stack
<1>5. SpTypes'
  BY <1>1, <1>2, <1>3, <1>4 DEF SpInv, SpTypes
<1>6. PagesCounted'
  <2>1. Cost' = Cost /\ Cost \in Nat
    BY <1>3, CostUnchanged, CostType DEF SpInv
  <2> QED BY <1>1, <1>2, <1>3, <1>4, <2>1 DEF SpInv, SpTypes, PagesCounted
<1>7. sp'.calls = <<>> /\ sp'.pc = "map_stack" /\ sp'.ph = 1 /\ sp'.r = sp.r
  BY <1>1, <1>2 DEF SpInv, SpTypes
<1>8. Progress'
  BY <1>1, <1>2, <1>3, <1>7 DEF SpInv, Progress
<1>9. Equipped' /\ Complete'
  BY <1>2, <1>3, <1>7 DEF Equipped, Complete
<1>10. Queued' /\ LoadedPages'
  BY <1>2, <1>3, <1>7, NothingQueued, NothingLoaded
<1> QED BY <1>5, <1>6, <1>8, <1>9, <1>10 DEF SpInv

\* GiveUp: the caller goes to err1 with the child as it is.
LEMMA GivenUp ==
    ASSUME SpInv, GiveUp, UNCHANGED <<prog, fd, child_vars, utable, panicked>>, utemp' = FALSE,
           child \in {"NONE", "NOT_RUNNABLE"}, free' \in Nat, leaked' \in Nat, taken' = taken,
           free' + leaked' = free + leaked + IF utemp THEN 1 ELSE 0
    PROVE  SpInv'
<1>1. sp' = [sp EXCEPT !.pc = "err1", !.r = "uninitialised", !.calls = <<>>]
  BY DEF GiveUp
<1>2. UNCHANGED <<prog, fd, child, mem, inherited, tables, utable, panicked>>
  BY DEF child_vars
<1>3. sp'.calls = <<>> /\ sp'.pc = "err1" /\ sp'.ph = sp.ph /\ sp'.r = "uninitialised"
  BY <1>1 DEF SpInv, SpTypes
<1>4. SpTypes'
  <2>1. <<>> \in Seq(CallSet)
    OBVIOUS
  <2> QED BY <1>1, <1>2, <2>1 DEF SpInv, SpTypes
<1>5. PagesCounted'
  <2>1. Cost' = Cost /\ Cost \in Nat
    BY <1>2, CostUnchanged, CostType DEF SpInv
  <2>2. PICK u \in Nat, t \in Nat : u = (IF utable THEN 1 ELSE 0) /\ t = (IF utemp THEN 1 ELSE 0)
    OBVIOUS
  <2>3. free + taken + leaked + Cost + u + t = SpawnPages
    BY <2>2 DEF SpInv, PagesCounted
  <2>4. free \in Nat /\ taken \in Nat /\ leaked \in Nat
    BY DEF SpInv, SpTypes
  <2>5. free' + taken' + leaked' + Cost' + u + 0 = SpawnPages
    <3>1. free' + leaked' = free + leaked + t
      BY <2>2
    <3>2. PICK c \in Nat : c = Cost /\ c = Cost'
      BY <2>1
    <3>3. PICK f2 \in Nat, l2 \in Nat, a \in Nat : f2 = free' /\ l2 = leaked' /\ a = taken /\ a = taken'
      BY <2>4
    <3>4. free + a + leaked + c + u + t = SpawnPages
      BY <2>3, <3>2, <3>3
    <3>5. f2 + l2 = free + leaked + t
      BY <3>1, <3>3
    <3>6. f2 + a + l2 + c + u + 0 = SpawnPages
      BY <2>4, <3>4, <3>5
    <3> QED BY <3>2, <3>3, <3>6
  <2> QED BY <1>2, <2>2, <2>5 DEF PagesCounted
<1>6. Progress'
  BY <1>2, <1>3 DEF SpInv, Progress
<1>7. Equipped' /\ Complete'
  BY <1>2, <1>3 DEF Equipped, Complete
<1>8. Queued' /\ LoadedPages'
  BY <1>2, <1>3, NothingQueued, NothingLoaded
<1> QED BY <1>4, <1>5, <1>6, <1>7, <1>8 DEF SpInv

LEMMA InitStackFailsInv == ASSUME SpInv, init_stack_fails PROVE SpInv'
<1>1. sp.pc = "init_stack" /\ GiveUp /\ UNCHANGED <<prog, fd, utemp, utable, child_vars, panicked>>
  BY DEF init_stack_fails, At
<1>2. \/ free' = free /\ leaked' = leaked /\ taken' = taken
      \/ free = 1 /\ free' = 0 /\ leaked' = leaked + 1 /\ taken' = taken
  BY DEF init_stack_fails, pool
<1>3. utemp = FALSE /\ child \in {"NONE", "NOT_RUNNABLE"} /\ free \in Nat /\ leaked \in Nat
  BY <1>1 DEF SpInv, SpTypes, Progress
<1>4. free' \in Nat /\ leaked' \in Nat /\ free' + leaked' = free + leaked + IF utemp THEN 1 ELSE 0
  BY <1>2, <1>3
<1> QED BY <1>1, <1>2, <1>3, <1>4, GivenUp

LEMMA MapStackFailsInv == ASSUME SpInv, map_stack_fails PROVE SpInv'
<1>1. /\ sp.pc = "map_stack" /\ GiveUp /\ UNCHANGED <<prog, fd, utable, child_vars, panicked>>
      /\ utemp' = FALSE /\ free' = free + 1 /\ leaked' = leaked /\ taken' = taken
  BY DEF map_stack_fails, At
<1>2. utemp = TRUE /\ child \in {"NONE", "NOT_RUNNABLE"} /\ free \in Nat /\ leaked \in Nat
  BY <1>1 DEF SpInv, SpTypes, Progress
<1>3. free' \in Nat /\ leaked' \in Nat /\ free' + leaked' = free + leaked + IF utemp THEN 1 ELSE 0
  BY <1>1, <1>2
<1> QED BY <1>1, <1>2, <1>3, GivenUp

LEMMA MapStackInv == ASSUME SpInv, map_stack PROVE SpInv'
<1>1. /\ sp.pc = "map_stack" /\ sp' = [sp EXCEPT !.pc = "phdr"] /\ utemp' = FALSE
      /\ mem' = [mem EXCEPT ![StackPage] = Zeroed]
      /\ tables' = tables \cup {Table(StackPage)}
      /\ free' = free - TableCost(StackPage)
      /\ child = "NOT_RUNNABLE" /\ Insertable(StackPage, free)
  BY DEF map_stack, At, Goto, CanMapStack
<1>2. UNCHANGED <<prog, fd, utable, child, inherited, taken, leaked, panicked>>
  BY DEF map_stack
<1>3. sp.calls = <<>> /\ sp.ph = 1 /\ inherited = {} /\ utemp = TRUE
  BY <1>1 DEF SpInv, Progress, Equipped, MakingPC, SpTypes
<1>4. StackPage \in SpPages /\ Zeroed \in Contents /\ Zeroed # None
  BY NonePage DEF SpPages
<1>5. mem' \in [SpPages -> Contents \cup {None}] /\ mem'[StackPage] # None
  BY <1>1, <1>4 DEF SpInv, SpTypes
<1>6. /\ TableCost(StackPage) \in {0, 1} /\ TableCost(StackPage) <= free
      /\ tables' \in SUBSET {"text", "stack", "library"}
      /\ Cardinality(tables') = Cardinality(tables) + TableCost(StackPage)
  BY <1>1, TableAdded DEF SpInv
<1>7. free' \in Nat
  BY <1>1, <1>6 DEF SpInv, SpTypes
<1>8. SpTypes'
  BY <1>1, <1>2, <1>5, <1>6, <1>7 DEF SpInv, SpTypes
<1>9. mem[StackPage] = None
  BY <1>1, <1>4 DEF SpInv, Progress
<1>10. PagesCounted'
  <2>1. Cardinality(Held') = Cardinality(Held) + 1
    BY <1>1, <1>4, <1>9, HeldAdded DEF SpInv
  <2>2. PICK t \in Nat, h \in Nat, d \in Nat, u \in Nat :
            t = Cardinality(tables) /\ h = Cardinality(Held) /\ d = TableCost(StackPage) /\ u = (IF utable THEN 1 ELSE 0)
    BY <1>6, CostType DEF SpInv
  <2>3. Cost = 1 + t + h /\ Cost' = 1 + (t + d) + (h + 1)
    BY <1>1, <1>2, <1>6, <2>1, <2>2 DEF Cost
  <2>4. free \in Nat /\ taken \in Nat /\ leaked \in Nat
    BY DEF SpInv, SpTypes
  <2>5. free + taken + leaked + (1 + t + h) + u + 1 = SpawnPages
    BY <1>3, <2>2, <2>3 DEF SpInv, PagesCounted
  <2>6. (free - d) + taken + leaked + (1 + (t + d) + (h + 1)) + u + 0 = SpawnPages
    BY <2>4, <2>5
  <2> QED BY <1>1, <1>2, <2>2, <2>3, <2>6 DEF PagesCounted
<1>11. sp'.calls = <<>> /\ sp'.pc = "phdr" /\ sp'.ph = 1 /\ sp'.r = sp.r
  BY <1>1, <1>3 DEF SpInv, SpTypes
<1>12. Progress'
  BY <1>1, <1>2, <1>11 DEF SpInv, Progress
<1>13. Equipped' /\ Complete'
  BY <1>1, <1>2, <1>3, <1>5, <1>11 DEF Equipped, Complete
<1>14. Queued'
  BY <1>11, NothingQueued
<1>15. LoadedPages'
  <2>1. \A k \in DOMAIN prog' : ~(k < 1)
    BY <1>2 DEF SpInv, SpTypes, WellFormed
  <2> QED BY <1>11, <2>1 DEF LoadedPages
<1> QED BY <1>8, <1>10, <1>12, <1>13, <1>14, <1>15 DEF SpInv

-------------------------------------------------------------------------------
\* The pages of the first n calls for a header are as the calls made them.
Made(m, ph, n) == \A i \in 1..n : m[elf_load_seg(ph)[i].page] = PageOf(elf_load_seg(ph)[i])

LEMMA LoadedMade ==
    LoadedPages <=>
        (sp.pc \in {"phdr", "load_icode", "share", "created"} \/ child = "RUNNABLE" =>
            \A k \in DOMAIN prog :
                k < sp.ph /\ prog[k].load /\ Placeable(prog[k]) =>
                    Made(mem, prog[k], Len(elf_load_seg(prog[k])) - Unmade(k)))
BY DEF LoadedPages, Made

LEMMA ProgType ==
    ASSUME SpInv
    PROVE  /\ prog \in Seq(Headers) /\ Len(prog) \in Nat /\ DOMAIN prog = 1..Len(prog)
           /\ \A k \in DOMAIN prog : prog[k] \in Headers
BY DEF SpInv, SpTypes, WellFormed

\* The next header is taken up, by spawn or by load_icode.
LEMMA NextHeaderInv ==
    ASSUME SpInv, sp.pc \in MakingPC, sp.calls = <<>>, sp.ph <= Len(prog), NextHeader,
           UNCHANGED <<prog, fd, utemp, utable, child_vars, pool, panicked>>
    PROVE  SpInv'
<1>1. Resting /\ UNCHANGED <<prog, fd, utemp, utable, child, mem, inherited, tables, free, taken, leaked, panicked>>
  BY DEF Resting, child_vars, pool
<1>2. PICK k \in Nat : k = sp.ph /\ k \in DOMAIN prog /\ k + 1 \in Nat \ {0} /\ k \in 1..Len(prog)
  BY ProgType DEF SpInv, SpTypes
<1>3. PICK S \in Seq(CallSet) : S = elf_load_seg(prog[k])
  BY <1>2, ProgType, Calls
<1>4. PICK C \in Seq(CallSet) : C = IF prog[k].load THEN S ELSE <<>>
  <2>1. <<>> \in Seq(CallSet)
    OBVIOUS
  <2>2. CASE prog[k].load
    BY <2>2
  <2>3. CASE ~prog[k].load
    BY <2>1, <2>3
  <2> QED BY <2>2, <2>3
<1>5. sp' = [sp EXCEPT !.ph = k + 1, !.calls = C]
  BY <1>2, <1>3, <1>4 DEF NextHeader
<1>6. sp'.ph = k + 1 /\ sp'.calls = C /\ sp'.pc = sp.pc /\ sp'.r = sp.r /\ sp'.share = sp.share
  BY <1>5 DEF SpInv, SpTypes
<1>7. SpTypes'
  BY <1>1, <1>2, <1>5, RestingTypes DEF SpInv, SpTypes
<1>8. PagesCounted'
  BY <1>1, RestingTypes
<1>9. Progress'
  BY <1>1, <1>6 DEF SpInv, Progress, MakingPC
<1>10. Equipped' /\ Complete'
  BY <1>1, <1>6 DEF SpInv, Equipped, Complete, MakingPC
<1>11. Queued'
  <2>1. SUFFICES ASSUME C # <<>>
                 PROVE  /\ k \in DOMAIN prog /\ prog[k].load
                        /\ Len(C) <= Len(S)
                        /\ \A i \in 1..Len(C) : C[i] = S[Len(S) - Len(C) + i]
    <3>1. sp'.ph - 1 = k /\ prog' = prog
      BY <1>1, <1>6
    <3> QED BY <1>3, <1>6, <3>1 DEF Queued
  <2>2. prog[k].load /\ C = S
    BY <1>4, <2>1
  <2>3. Len(S) \in Nat /\ \A i \in 1..Len(S) : Len(S) - Len(S) + i = i
    OBVIOUS
  <2> QED BY <1>2, <2>2, <2>3
<1>12. LoadedPages'
  <2>1. SUFFICES ASSUME NEW j \in DOMAIN prog, j < k + 1, prog[j].load, Placeable(prog[j])
                 PROVE  Made(mem, prog[j], Len(elf_load_seg(prog[j])) - Unmade(j)')
    BY <1>1, <1>6, LoadedMade DEF LoadedPages, Made
  <2>2. Unmade(j)' = IF j = k THEN Len(C) ELSE 0
    <3>1. sp'.ph - 1 = k
      BY <1>2, <1>6
    <3> QED BY <1>6, <3>1 DEF Unmade
  <2>3. CASE j = k
    <3>1. C = S /\ Len(S) - Len(S) = 0
      BY <1>4, <2>1, <2>3
    <3>2. Len(elf_load_seg(prog[j])) - Unmade(j)' = 0
      BY <1>3, <2>2, <2>3, <3>1
    <3> QED BY <3>2 DEF Made
  <2>4. CASE j # k
    <3>1. j < sp.ph /\ Unmade(j) = 0 /\ Unmade(j)' = 0
      BY <1>2, <2>1, <2>2, <2>4, ProgType DEF Unmade
    <3> QED BY <2>1, <3>1, LoadedMade DEF SpInv, MakingPC
  <2> QED BY <2>3, <2>4
<1> QED BY <1>7, <1>8, <1>9, <1>10, <1>11, <1>12 DEF SpInv

\* A page is made for the next call, by spawn_mapper or by load_icode_mapper.
LEMMA MapperInv ==
    ASSUME SpInv, sp.pc \in MakingPC, sp.calls # <<>>, NEW c, c = Head(sp.calls),
           sys_mem_alloc(c.page, PageOf(c)), sp' = [sp EXCEPT !.calls = Tail(@)],
           UNCHANGED <<prog, fd, utemp, utable, panicked>>
    PROVE  SpInv'
<1>1. PICK Q \in Seq(CallSet) : Q = sp.calls /\ Q # <<>>
  BY DEF SpInv, SpTypes
<1>2. /\ c = Q[1] /\ c \in CallSet /\ Tail(Q) \in Seq(CallSet) /\ Len(Q) \in Nat /\ Len(Q) > 0
      /\ Len(Tail(Q)) = Len(Q) - 1 /\ \A i \in 1..(Len(Q) - 1) : Tail(Q)[i] = Q[i + 1]
  BY <1>1
<1>3. sp'.calls = Tail(Q) /\ sp'.pc = sp.pc /\ sp'.ph = sp.ph /\ sp'.r = sp.r /\ sp'.share = sp.share
  BY <1>1 DEF SpInv, SpTypes
<1>4. PICK n \in ImagePage : n = c.page /\ n \in SpPages /\ n # StackPage
  BY <1>2, CallType, SpawnAssumption DEF SpPages, ImagePage, StackPage
<1>5. PageOf(c) \in Contents /\ PageOf(c) # None
  BY <1>2, CallType, NonePage
<1>6. /\ free > 0 /\ Insertable(n, free - 1)
      /\ free' = free - 1 - TableCost(n) + (IF mem[n] = None THEN 0 ELSE 1)
      /\ tables' = tables \cup {Table(n)}
      /\ mem' = [mem EXCEPT ![n] = PageOf(c)]
      /\ UNCHANGED <<taken, leaked, child, inherited>>
  BY <1>4 DEF sys_mem_alloc
<1>7. /\ TableCost(n) \in {0, 1} /\ TableCost(n) <= free - 1
      /\ tables' \in SUBSET {"text", "stack", "library"}
      /\ Cardinality(tables') = Cardinality(tables) + TableCost(n)
  <2>1. TableCost(n) <= free - 1
    BY <1>6 DEF SpInv, SpTypes, TableCost, Insertable
  <2> QED BY <1>6, <2>1, TableAdded DEF SpInv
<1>8. free' \in Nat
  BY <1>6, <1>7 DEF SpInv, SpTypes
<1>9. mem' \in [SpPages -> Contents \cup {None}] /\ mem'[StackPage] = mem[StackPage]
  <2>1. StackPage \in SpPages
    BY DEF SpPages
  <2> QED BY <1>4, <1>5, <1>6, <2>1 DEF SpInv, SpTypes
<1>10. SpTypes'
  BY <1>1, <1>2, <1>6, <1>7, <1>8, <1>9 DEF SpInv, SpTypes
<1>11. child \in {"NOT_RUNNABLE", "RUNNABLE"}
  BY DEF SpInv, Progress, MakingPC
<1>12. PagesCounted'
  <2>1. Cardinality(Held') = Cardinality(Held) + IF mem[n] = None THEN 1 ELSE 0
    BY <1>4, <1>5, <1>6, HeldAdded DEF SpInv
  <2>2. PICK t \in Nat, h \in Nat, d \in Nat, u \in Nat, v \in Nat :
            /\ t = Cardinality(tables) /\ h = Cardinality(Held) /\ d = TableCost(n)
            /\ u = (IF utable THEN 1 ELSE 0) /\ v = (IF utemp THEN 1 ELSE 0)
    BY <1>7, CostType DEF SpInv
  <2>3. PICK z \in Nat : z = IF mem[n] = None THEN 1 ELSE 0
    OBVIOUS
  <2>4. Cost = 1 + t + h /\ Cost' = 1 + (t + d) + (h + z)
    BY <1>6, <1>7, <1>11, <2>1, <2>2, <2>3 DEF Cost
  <2>5. free \in Nat /\ taken \in Nat /\ leaked \in Nat
    BY DEF SpInv, SpTypes
  <2>6. free + taken + leaked + (1 + t + h) + u + v = SpawnPages
    BY <2>2, <2>4 DEF SpInv, PagesCounted
  <2>7. free' = free - 1 - d + (1 - z)
    BY <1>6, <2>2, <2>3
  <2>8. (free - 1 - d + (1 - z)) + taken + leaked + (1 + (t + d) + (h + z)) + u + v = SpawnPages
    <3>1. PICK f \in Nat, a \in Nat, l \in Nat : f = free /\ a = taken /\ l = leaked
      BY <2>5
    <3>2. f + a + l + (1 + t + h) + u + v = SpawnPages
      BY <2>6, <3>1
    <3>3. (f - 1 - d + (1 - z)) + a + l + (1 + (t + d) + (h + z)) + u + v = f + a + l + (1 + t + h) + u + v
      <4>1. /\ f \in Nat /\ a \in Nat /\ l \in Nat /\ t \in Nat /\ h \in Nat
            /\ u \in Nat /\ v \in Nat /\ d \in Nat /\ z \in Nat
        OBVIOUS
      <4> QED BY ONLY <4>1
    <3> QED BY <3>1, <3>2, <3>3
  <2> QED BY <1>6, <2>2, <2>4, <2>7, <2>8 DEF PagesCounted
<1>13. Progress'
  <2>1. sp.pc \notin {"init_stack", "map_stack"} /\ child # "NONE"
    BY <1>11 DEF MakingPC
  <2> QED BY <1>3, <1>6, <2>1 DEF SpInv, Progress, MakingPC
<1>14. Equipped' /\ Complete'
  BY <1>3, <1>6, <1>9 DEF SpInv, Equipped, Complete, MakingPC
<1>Q. /\ sp.ph - 1 \in DOMAIN prog /\ prog[sp.ph - 1].load
      /\ Len(sp.calls) <= Len(elf_load_seg(prog[sp.ph - 1]))
      /\ \A i \in 1..Len(sp.calls) :
            sp.calls[i] = elf_load_seg(prog[sp.ph - 1])[Len(elf_load_seg(prog[sp.ph - 1])) - Len(sp.calls) + i]
  BY DEF SpInv, Queued
<1>15. PICK m \in DOMAIN prog : m = sp.ph - 1 /\ prog[m].load /\ m \in Nat /\ sp.ph = m + 1
  <2>1. sp.ph \in Nat
    BY DEF SpInv, SpTypes
  <2>2. sp.ph - 1 \in Nat /\ sp.ph = (sp.ph - 1) + 1
    BY <1>Q, <2>1, ProgType
  <2> QED BY <1>Q, <2>2
<1>16. PICK S \in Seq(CallSet) : S = elf_load_seg(prog[m])
  BY <1>15, ProgType, Calls
<1>17. PICK l \in Nat, q \in Nat : l = Len(S) /\ q = Len(Q) /\ q > 0 /\ q <= l /\ \A i \in 1..q : Q[i] = S[l - q + i]
  <2>1. Len(S) \in Nat /\ Len(Q) \in Nat /\ Len(Q) > 0
    BY <1>2
  <2>2. Len(Q) <= Len(S) /\ \A i \in 1..Len(Q) : Q[i] = S[Len(S) - Len(Q) + i]
    BY <1>1, <1>15, <1>16, <1>Q
  <2> QED BY <2>1, <2>2
<1>18. Queued'
  <2>1. \A i \in 1..(q - 1) : Tail(Q)[i] = S[l - (q - 1) + i]
    <3> TAKE i \in 1..(q - 1)
    <3>1. Tail(Q)[i] = Q[i + 1] /\ i + 1 \in 1..q
      BY <1>2, <1>17
    <3>2. l - q + (i + 1) = l - (q - 1) + i
      OBVIOUS
    <3> QED BY <1>17, <3>1, <3>2
  <2>2. sp'.ph - 1 = m /\ prog' = prog /\ Len(Tail(Q)) = q - 1
    BY <1>2, <1>3, <1>15, <1>17
  <2>3. /\ m \in DOMAIN prog /\ prog[m].load /\ Len(Tail(Q)) <= Len(S)
        /\ \A i \in 1..Len(Tail(Q)) : Tail(Q)[i] = S[Len(S) - Len(Tail(Q)) + i]
    <3>1. q - 1 <= l
      BY <1>17
    <3> QED BY <1>15, <1>17, <2>1, <2>2, <3>1
  <2> QED BY <1>3, <1>16, <2>2, <2>3 DEF Queued
<1>19. c = S[l - q + 1] /\ l - q + 1 \in 1..l
  BY <1>2, <1>17
<1>20. LoadedPages'
  <2>1. SUFFICES ASSUME NEW j \in DOMAIN prog, j < sp.ph, prog[j].load, Placeable(prog[j])
                 PROVE  Made(mem', prog[j], Len(elf_load_seg(prog[j])) - Unmade(j)')
    BY <1>3 DEF LoadedPages, Made
  <2>2. Made(mem, prog[j], Len(elf_load_seg(prog[j])) - Unmade(j))
    BY <2>1, LoadedMade DEF SpInv, MakingPC
  <2>3. PICK R \in Seq(CallSet) : R = elf_load_seg(prog[j]) /\ \A i \in 1..Len(R) : R[i].page \in PagesOf(prog[j]) /\ R[i].page \in SpPages
    <3>1. prog[j] \in Headers
      BY ProgType
    <3>2. elf_load_seg(prog[j]) \in Seq(CallSet) /\ \A i \in 1..Len(elf_load_seg(prog[j])) : elf_load_seg(prog[j])[i].page \in PagesOf(prog[j])
      BY <3>1, Calls
    <3>3. PagesOf(prog[j]) \subseteq SpPages
      BY <3>1, SegmentPages DEF SpPages
    <3> QED BY <3>2, <3>3
  <2>4. CASE j # m
    <3>1. Unmade(j) = 0 /\ Unmade(j)' = 0
      BY <1>3, <1>15, <2>4 DEF Unmade
    <3>2. \A i \in 1..Len(R) : R[i].page # n
      <4>1. PagesOf(prog[j]) \cap PagesOf(prog[m]) = {}
        BY <1>15, <2>1, <2>4 DEF SpInv, SpTypes, WellFormed
      <4>2. n \in PagesOf(prog[m])
        <5>1. prog[m] \in Headers
          BY ProgType
        <5>2. S[l - q + 1].page \in PagesOf(prog[m])
          BY <1>16, <1>17, <1>19, <5>1, Calls
        <5> QED BY <1>4, <1>19, <5>2
      <4> QED BY <2>3, <4>1, <4>2
    <3>3. \A i \in 1..Len(R) : mem[R[i].page] = PageOf(R[i])
      BY <2>2, <2>3, <3>1 DEF Made
    <3>4. \A i \in 1..Len(R) : mem'[R[i].page] = PageOf(R[i])
      BY <1>6, <2>3, <3>2, <3>3 DEF SpInv, SpTypes
    <3> QED BY <2>3, <3>1, <3>4 DEF Made
  <2>5. CASE j = m
    <3>1. Unmade(j) = q /\ Unmade(j)' = q - 1 /\ R = S
      BY <1>1, <1>2, <1>3, <1>15, <1>16, <1>17, <2>3, <2>5 DEF Unmade
    <3>2. \A i \in 1..(l - q) : mem[S[i].page] = PageOf(S[i])
      BY <1>16, <1>17, <2>2, <2>5, <3>1 DEF Made
    <3>3. \A i \in 1..l : S[i].page = prog[m].va \div BY2PG + i - 1
      <4>1. prog[m] \in Headers
        BY ProgType
      <4>2. l = H(prog[m]) + N1(prog[m]) + N2(prog[m]) /\ \A i \in 1..l : S[i] = CallAt(prog[m], i)
        BY <1>16, <1>17, <4>1, Calls
      <4> QED BY <2>1, <2>5, <4>1, <4>2, CallPages
    <3>4. PICK v \in Int : v = prog[m].va \div BY2PG
      BY ProgType, HeaderType, PageDiv
    <3>5. \A i \in 1..(l - q) : S[i].page # n
      <4> TAKE i \in 1..(l - q)
      <4>1. i \in 1..l /\ l - q + 1 \in 1..l
        BY <1>17
      <4>2. S[i].page = v + i - 1 /\ n = v + (l - q + 1) - 1
        BY <1>4, <1>19, <3>3, <3>4, <4>1
      <4> QED BY <1>17, <4>2
    <3>6. ASSUME NEW i \in 1..(l - (q - 1))
          PROVE  mem'[S[i].page] = PageOf(S[i])
      <4>0. i \in 1..l /\ S[i].page \in SpPages
        BY <1>17, <2>3, <3>1
      <4>1. CASE i = l - q + 1
        BY <1>4, <1>6, <1>19, <4>1 DEF SpInv, SpTypes
      <4>2. CASE i # l - q + 1
        <5>1. i \in 1..(l - q)
          BY <1>17, <4>2
        <5> QED BY <1>6, <3>2, <3>5, <4>0, <5>1 DEF SpInv, SpTypes
      <4> QED BY <4>1, <4>2
    <3> QED BY <1>16, <1>17, <2>5, <3>1, <3>6 DEF Made
  <2> QED BY <2>4, <2>5
<1> QED BY <1>10, <1>12, <1>13, <1>14, <1>18, <1>20 DEF SpInv

LEMMA ReadPhdrInv == ASSUME SpInv, read_phdr PROVE SpInv'
<1>1. /\ sp.pc = "phdr" /\ sp.calls = <<>> /\ sp.ph <= Len(prog)
      /\ NextHeader \/ GiveUp
      /\ UNCHANGED <<prog, fd, utemp, utable, child_vars, pool, panicked>>
  BY DEF read_phdr, At
<1>2. CASE NextHeader
  <2>1. sp.pc = "phdr" /\ sp.pc \in MakingPC /\ sp.calls = <<>> /\ sp.ph <= Len(prog)
    BY DEF read_phdr, At, MakingPC
  <2> QED BY <1>1, <1>2, <2>1, NextHeaderInv
<1>3. CASE GiveUp
  <2>1. utemp = FALSE /\ child = "NOT_RUNNABLE" /\ free \in Nat /\ leaked \in Nat
    BY DEF SpInv, SpTypes, Progress, read_phdr, At
  <2>2. UNCHANGED <<free, leaked, taken, utemp>>
    BY DEF read_phdr, pool
  <2>3. free' + leaked' = free + leaked + IF utemp THEN 1 ELSE 0
    BY <2>1, <2>2
  <2> QED BY <1>1, <1>3, <2>1, <2>2, <2>3, GivenUp
<1> QED BY <1>2, <1>3 DEF read_phdr

LEMMA LoadIcodeInv == ASSUME SpInv, load_icode PROVE SpInv'
<1>1. /\ sp.pc \in MakingPC /\ sp.calls = <<>> /\ sp.ph <= Len(prog) /\ NextHeader
      /\ UNCHANGED <<prog, fd, utemp, utable, child_vars, pool, panicked>>
  BY DEF load_icode, At, MakingPC
<1> QED BY <1>1, NextHeaderInv

\* Without a page, or without one for the table, the pages left are lost.
LEMMA AllocFails ==
    ASSUME SpInv, NEW n, sys_mem_alloc_fails(n)
    PROVE  free' \in Nat /\ leaked' \in Nat /\ taken' = taken /\ free' + leaked' = free + leaked /\ UNCHANGED child_vars
BY DEF sys_mem_alloc_fails, SpInv, SpTypes

LEMMA SpawnMapperInv == ASSUME SpInv, spawn_mapper PROVE SpInv'
<1> DEFINE c == Head(sp.calls)
<1>1. /\ sp.pc = "phdr" /\ sp.pc \in MakingPC /\ sp.calls # <<>>
      /\ UNCHANGED <<prog, fd, utemp, utable, panicked>>
  BY DEF spawn_mapper, At, MakingPC
<1>2. CASE sys_mem_alloc(c.page, PageOf(c)) /\ sp' = [sp EXCEPT !.calls = Tail(@)]
  BY <1>1, <1>2, MapperInv
<1>3. CASE sys_mem_alloc_fails(c.page) /\ GiveUp
  <2>1. utemp = FALSE /\ child = "NOT_RUNNABLE" /\ free \in Nat /\ leaked \in Nat
    BY <1>1 DEF SpInv, SpTypes, Progress
  <2>2. free' \in Nat /\ leaked' \in Nat /\ taken' = taken /\ free' + leaked' = free + leaked /\ UNCHANGED child_vars
    BY <1>3, AllocFails
  <2>3. free' + leaked' = free + leaked + IF utemp THEN 1 ELSE 0
    <3>1. (IF utemp THEN 1 ELSE 0) = 0 /\ free + leaked + 0 = free + leaked
      BY <2>1
    <3> QED BY <2>2, <3>1
  <2>4. utemp' = FALSE
    BY <1>1, <2>1
  <2> QED BY <1>1, <1>3, <2>1, <2>2, <2>3, <2>4, GivenUp
<1> QED BY <1>2, <1>3 DEF spawn_mapper

LEMMA LoadIcodeMapperInv == ASSUME SpInv, load_icode_mapper PROVE SpInv'
<1> DEFINE c == Head(sp.calls)
<1>1. /\ sp.pc = "load_icode" /\ sp.pc \in MakingPC /\ sp.calls # <<>>
      /\ UNCHANGED <<prog, fd, utemp, utable>>
  BY DEF load_icode_mapper, At, MakingPC
<1>2. CASE sys_mem_alloc(c.page, PageOf(c)) /\ sp' = [sp EXCEPT !.calls = Tail(@)] /\ UNCHANGED panicked
  BY <1>1, <1>2, MapperInv
<1>3. CASE sys_mem_alloc_fails(c.page) /\ panicked' = TRUE /\ UNCHANGED sp
  <2>1. free' \in Nat /\ leaked' \in Nat /\ taken' = taken /\ free' + leaked' = free + leaked /\ UNCHANGED child_vars
    BY <1>3, AllocFails
  <2>2. UNCHANGED <<sp, prog, fd, utemp, utable, child, mem, inherited, tables, taken>> /\ panicked' = TRUE
    BY <1>1, <1>3, <2>1 DEF child_vars
  <2>3. SpTypes'
    BY <2>1, <2>2 DEF SpInv, SpTypes
  <2>4. PagesCounted'
    <3>1. Cost' = Cost /\ Cost \in Nat
      BY <2>2, CostUnchanged, CostType DEF SpInv
    <3>2. PICK u \in Nat, t \in Nat, a \in Nat, b \in Nat, d \in Nat, e \in Nat, f \in Nat :
              /\ u = (IF utable THEN 1 ELSE 0) /\ t = (IF utemp THEN 1 ELSE 0) /\ a = Cost /\ a = Cost'
              /\ b = free' /\ d = leaked' /\ e = free /\ f = leaked
      BY <2>1, <3>1 DEF SpInv, SpTypes
    <3>3. PICK g \in Nat : g = taken /\ g = taken'
      BY <2>1 DEF SpInv, SpTypes
    <3>4. e + g + f + a + u + t = SpawnPages /\ b + d = e + f
      BY <2>1, <3>2, <3>3 DEF SpInv, PagesCounted
    <3>5. b + g + d + a + u + t = SpawnPages
      BY <3>4
    <3> QED BY <2>2, <3>2, <3>3, <3>5 DEF PagesCounted
  <2>5. Progress' /\ Equipped' /\ Complete'
    BY <2>2 DEF SpInv, Progress, Equipped, Complete
  <2>6. Queued' /\ LoadedPages'
    BY <2>2, LoadedUnchanged
  <2> QED BY <2>3, <2>4, <2>5, <2>6 DEF SpInv
<1> QED BY <1>2, <1>3 DEF load_icode_mapper

LEMMA LoadIcodeDoneInv == ASSUME SpInv, load_icode_done PROVE SpInv'
<1>1. /\ Resting /\ sp.pc = "load_icode" /\ sp.calls = <<>> /\ fd' = fd /\ sp.ph > Len(prog)
      /\ sp' = [sp EXCEPT !.pc = "created"]
  BY DEF load_icode_done, At, Goto, Resting
<1>2. UNCHANGED <<prog, utemp, utable, child, mem, inherited, tables, free, taken, leaked, panicked>>
  BY <1>1 DEF Resting, child_vars, pool
<1>3. SpTypes'
  BY <1>1, RestingTypes DEF SpInv, SpTypes
<1>4. PagesCounted'
  BY <1>1, RestingTypes
<1>5. sp'.calls = <<>> /\ sp'.pc = "created" /\ sp'.ph = sp.ph /\ sp'.r = sp.r /\ sp'.share = sp.share
  BY <1>1 DEF SpInv, SpTypes
<1>6. Progress'
  BY <1>1, <1>2, <1>5 DEF SpInv, Progress
<1>7. Equipped' /\ Complete'
  BY <1>1, <1>2, <1>5 DEF SpInv, Equipped, Complete
<1>8. Queued' /\ LoadedPages'
  BY <1>1, <1>2, <1>5, LoadedUnchanged
<1> QED BY <1>3, <1>4, <1>6, <1>7, <1>8 DEF SpInv

LEMMA EnvCreateInv == ASSUME SpInv, env_create PROVE SpInv'
<1>1. sp.pc = "boot" /\ UNCHANGED <<prog, fd, utemp, utable, mem, inherited, tables, taken, leaked>>
  BY DEF env_create, At
<1>2. child = "NONE" /\ sp.calls = <<>> /\ sp.ph = 1 /\ tables = {} /\ mem = [n \in SpPages |-> None] /\ inherited = {}
  BY <1>1 DEF SpInv, Progress, Equipped, MakingPC
<1>3. CASE free = 0
  <2>1. panicked' = TRUE /\ UNCHANGED <<sp, free, child>>
    BY <1>3 DEF env_create
  <2>2. SpTypes'
    BY <1>1, <2>1 DEF SpInv, SpTypes
  <2>3. PagesCounted'
    BY <1>1, <2>1, CostUnchanged DEF SpInv, PagesCounted
  <2>4. Progress' /\ Equipped' /\ Complete'
    BY <1>1, <2>1 DEF SpInv, Progress, Equipped, Complete
  <2>5. Queued' /\ LoadedPages'
    BY <1>1, <2>1, LoadedUnchanged
  <2> QED BY <2>2, <2>3, <2>4, <2>5 DEF SpInv
<1>4. CASE free # 0
  <2>1. free' = free - 1 /\ child' = "RUNNABLE" /\ panicked' = panicked /\ sp' = [sp EXCEPT !.pc = "load_icode"]
    BY <1>4 DEF env_create, Goto
  <2>2. sp'.calls = <<>> /\ sp'.pc = "load_icode" /\ sp'.ph = 1 /\ sp'.r = sp.r /\ sp'.share = sp.share
    BY <1>2, <2>1 DEF SpInv, SpTypes
  <2>3. free \in Nat /\ free' \in Nat
    BY <1>4, <2>1 DEF SpInv, SpTypes
  <2>4. SpTypes'
    BY <1>1, <2>1, <2>3 DEF SpInv, SpTypes
  <2>5. PagesCounted'
    <3>1. Cost = 0
      BY <1>2 DEF Cost
    <3>2. Held' = {} /\ tables' = {}
      BY <1>1, <1>2 DEF Held
    <3>3. Cardinality(Held') = 0 /\ Cardinality(tables') = 0
      BY <3>2, FS_EmptySet
    <3>4. Cost' = 1
      BY <2>1, <3>3 DEF Cost
    <3>5. PICK u \in Nat, t \in Nat, g \in Nat, f \in Nat :
              u = (IF utable THEN 1 ELSE 0) /\ t = (IF utemp THEN 1 ELSE 0) /\ g = taken /\ f = leaked
      BY DEF SpInv, SpTypes
    <3>6. free + g + f + 0 + u + t = SpawnPages
      BY <3>1, <3>5 DEF SpInv, PagesCounted
    <3>7. (free - 1) + g + f + 1 + u + t = SpawnPages
      BY <2>3, <3>6
    <3> QED BY <1>1, <2>1, <3>4, <3>5, <3>7 DEF PagesCounted
  <2>6. Progress'
    BY <1>1, <2>1, <2>2 DEF SpInv, Progress, MakingPC
  <2>7. Equipped' /\ Complete'
    BY <1>1, <1>2, <2>1, <2>2 DEF Equipped, Complete
  <2>8. Queued'
    BY <2>2, NothingQueued
  <2>9. LoadedPages'
    <3>1. \A k \in DOMAIN prog' : ~(k < 1)
      BY <1>1, ProgType
    <3> QED BY <2>2, <3>1 DEF LoadedPages
  <2> QED BY <2>4, <2>5, <2>6, <2>7, <2>8, <2>9 DEF SpInv
<1> QED BY <1>3, <1>4

-------------------------------------------------------------------------------
LEMMA CloseInv == ASSUME SpInv, close PROVE SpInv'
<1>1. /\ Resting /\ sp.pc = "phdr" /\ sp.calls = <<>> /\ fd' = FALSE /\ sp.ph > Len(prog)
      /\ sp' = [sp EXCEPT !.pc = "share", !.share = SpawnLibrary]
  <2>1. fd' = FALSE /\ sp' = [sp EXCEPT !.pc = "share", !.share = Sharable(fd')]
    BY DEF close
  <2>2. Sharable(fd') = SpawnLibrary
    BY <2>1 DEF Sharable
  <2> QED BY <2>1, <2>2 DEF close, At, Resting
<1>2. UNCHANGED <<prog, utemp, utable, child, mem, inherited, tables, free, taken, leaked, panicked>>
  BY <1>1 DEF Resting, child_vars, pool
<1>3. SpTypes'
  BY <1>1, RestingTypes DEF SpInv, SpTypes
<1>4. PagesCounted'
  BY <1>1, RestingTypes
<1>5. sp'.calls = <<>> /\ sp'.pc = "share" /\ sp'.ph = sp.ph /\ sp'.r = sp.r /\ sp'.share = SpawnLibrary
  BY <1>1 DEF SpInv, SpTypes
<1>6. Progress'
  BY <1>1, <1>2, <1>5 DEF SpInv, Progress
<1>7. Equipped' /\ Complete'
  BY <1>1, <1>2, <1>5 DEF SpInv, Equipped, Complete
<1>8. Queued' /\ LoadedPages'
  BY <1>1, <1>2, <1>5, LoadedUnchanged
<1> QED BY <1>3, <1>4, <1>6, <1>7, <1>8 DEF SpInv

LEMMA SetStatusInv == ASSUME SpInv, set_env_status PROVE SpInv'
<1>1. /\ sp.pc = "share" /\ sp.share = {} /\ child' = "RUNNABLE"
      /\ sp' = [sp EXCEPT !.pc = "returned", !.r = "child", !.calls = <<>>]
      /\ UNCHANGED <<prog, fd, utemp, utable, mem, inherited, tables, free, taken, leaked, panicked>>
  BY DEF set_env_status, At, Returns, pool
<1>2. child = "NOT_RUNNABLE" /\ sp.calls = <<>> /\ fd = FALSE /\ inherited = SpawnLibrary /\ mem[StackPage] # None
  BY <1>1 DEF SpInv, SpTypes, Progress, Equipped, MakingPC
<1>3. sp'.calls = <<>> /\ sp'.pc = "returned" /\ sp'.ph = sp.ph /\ sp'.r = "child" /\ sp'.share = {}
  BY <1>1 DEF SpInv, SpTypes
<1>4. SpTypes'
  <2>1. <<>> \in Seq(CallSet)
    OBVIOUS
  <2> QED BY <1>1, <2>1 DEF SpInv, SpTypes
<1>5. PagesCounted'
  <2>1. Cost' = Cost
    BY <1>1, <1>2 DEF Cost, Held
  <2> QED BY <1>1, <2>1 DEF SpInv, PagesCounted
<1>6. Progress'
  BY <1>1, <1>2, <1>3 DEF SpInv, Progress
<1>7. Equipped' /\ Complete'
  BY <1>1, <1>2, <1>3 DEF SpInv, Equipped, Complete
<1>8. Queued' /\ LoadedPages'
  BY <1>1, <1>2, <1>3, LoadedUnchanged
<1> QED BY <1>4, <1>5, <1>6, <1>7, <1>8 DEF SpInv

\* Every set of numbers that is not empty has a least one.
LEMMA LeastPage ==
    ASSUME NEW S \in SUBSET Nat, S # {}
    PROVE  \E m \in S : \A y \in S : m <= y
<1> DEFINE Less == {ss \in Nat \X Nat : ss[1] < ss[2]}
<1>1. IsWellFoundedOn(Less, Nat)
  BY NatLessThanWellFounded, Zenon DEF OpToRel
<1> HIDE DEF Less
<1>2. PICK m \in S : \A y \in S : ~(<<y, m>> \in Less)
  BY <1>1, WFMin
<1>3. \A y \in S : ~(y < m)
  BY <1>2 DEF Less
<1> QED BY <1>3

LEMMA ShareInv == ASSUME SpInv, share PROVE SpInv'
<1>1. sp.pc = "share" /\ sp.share # {} /\ UNCHANGED <<prog, fd, utemp, utable, child, mem, taken, leaked, panicked>>
  BY DEF share, At
<1>2. child = "NOT_RUNNABLE" /\ sp.calls = <<>> /\ fd = FALSE /\ inherited \cup sp.share = SpawnLibrary
      /\ sp.r # "child" /\ sp.share \in SUBSET SpawnLibrary
  BY <1>1 DEF SpInv, SpTypes, Progress, Equipped, MakingPC
<1>3. PICK n : n = NextShared /\ n \in sp.share
  <2>1. sp.share \in SUBSET Nat
    BY <1>2, SpawnAssumption
  <2>2. \E m \in sp.share : \A y \in sp.share : m <= y
    BY <1>1, <2>1, LeastPage
  <2> QED BY <2>2 DEF NextShared
<1>4. CASE /\ Insertable(n, free)
           /\ free' = free - TableCost(n)
           /\ tables' = tables \cup {Table(n)}
           /\ inherited' = inherited \cup {n}
           /\ sp' = [sp EXCEPT !.share = @ \ {n}]
  <2>1. sp'.calls = <<>> /\ sp'.pc = "share" /\ sp'.ph = sp.ph /\ sp'.r = sp.r /\ sp'.share = sp.share \ {n}
    BY <1>1, <1>2, <1>4 DEF SpInv, SpTypes
  <2>2. /\ TableCost(n) \in {0, 1} /\ TableCost(n) <= free
        /\ tables' \in SUBSET {"text", "stack", "library"}
        /\ Cardinality(tables') = Cardinality(tables) + TableCost(n)
    BY <1>4, TableAdded DEF SpInv
  <2>3. free' \in Nat
    BY <1>4, <2>2 DEF SpInv, SpTypes
  <2>4. inherited' \in SUBSET SpawnLibrary /\ inherited' \cup sp'.share = SpawnLibrary
    BY <1>2, <1>3, <1>4, <2>1
  <2>5. SpTypes'
    <3>1. sp' \in [pc : {"boot", "load_icode", "created", "open", "header", "exofork", "init_stack", "map_stack",
                      "phdr", "share", "err1", "err2", "err", "returned"},
                ph : Nat \ {0}, calls : Seq(CallSet), share : SUBSET SpawnLibrary,
                r : {"none", "error", "uninitialised", "child"}]
      BY <1>2, <1>4 DEF SpInv, SpTypes
    <3> QED BY <1>1, <2>2, <2>3, <2>4, <3>1 DEF SpInv, SpTypes
  <2>6. PagesCounted'
    <3>1. PICK t \in Nat, h \in Nat, d \in Nat, u \in Nat, v \in Nat :
              /\ t = Cardinality(tables) /\ h = Cardinality(Held) /\ d = TableCost(n)
              /\ u = (IF utable THEN 1 ELSE 0) /\ v = (IF utemp THEN 1 ELSE 0)
      BY <2>2, CostType DEF SpInv
    <3>2. Held' = Held
      BY <1>1 DEF Held
    <3>3. Cost = 1 + t + h /\ Cost' = 1 + (t + d) + h
      BY <1>1, <1>2, <2>2, <3>1, <3>2 DEF Cost
    <3>4. PICK f \in Nat, a \in Nat, l \in Nat : f = free /\ a = taken /\ l = leaked
      BY DEF SpInv, SpTypes
    <3>5. f + a + l + (1 + t + h) + u + v = SpawnPages
      BY <3>1, <3>3, <3>4 DEF SpInv, PagesCounted
    <3>6. (f - d) + a + l + (1 + (t + d) + h) + u + v = SpawnPages
      BY <3>5
    <3> QED BY <1>1, <1>4, <3>1, <3>3, <3>4, <3>6 DEF PagesCounted
  <2>7. Progress'
    BY <1>1, <1>2, <2>1 DEF SpInv, Progress
  <2>8. Equipped' /\ Complete'
    BY <1>1, <1>2, <2>1, <2>4 DEF SpInv, Equipped, Complete
  <2>9. Queued' /\ LoadedPages'
    BY <1>1, <1>2, <2>1, LoadedUnchanged
  <2> QED BY <2>5, <2>6, <2>7, <2>8, <2>9 DEF SpInv
<1>5. CASE /\ sp' = [sp EXCEPT !.pc = "err2", !.r = "error", !.share = {}]
           /\ UNCHANGED <<free, tables, inherited>>
  <2>1. sp'.calls = <<>> /\ sp'.pc = "err2" /\ sp'.ph = sp.ph /\ sp'.r = "error" /\ sp'.share = {}
    BY <1>1, <1>2, <1>5 DEF SpInv, SpTypes
  <2>2. SpTypes'
    BY <1>1, <1>5 DEF SpInv, SpTypes
  <2>3. PagesCounted'
    BY <1>1, <1>5, CostUnchanged DEF SpInv, PagesCounted
  <2>4. Progress'
    BY <1>1, <1>2, <2>1, <1>5 DEF SpInv, Progress
  <2>5. Equipped' /\ Complete'
    BY <1>1, <1>2, <2>1 DEF Equipped, Complete
  <2>6. Queued' /\ LoadedPages'
    BY <1>1, <1>2, <2>1, NothingQueued, NothingLoaded
  <2> QED BY <2>2, <2>3, <2>4, <2>5, <2>6 DEF SpInv
<1> QED BY <1>3, <1>4, <1>5 DEF share

LEMMA DestroyInv == ASSUME SpInv, destroy_child PROVE SpInv'
<1>1. /\ sp.pc \in {"err1", "err2"} /\ ~panicked
      /\ UNCHANGED <<prog, fd, utemp, utable, taken, leaked>>
  BY DEF destroy_child, At
<1>2. child \in {"NONE", "NOT_RUNNABLE"} /\ sp.calls = <<>> /\ sp.r # "child" /\ (sp.pc = "err2" => fd = FALSE)
  BY <1>1 DEF SpInv, SpTypes, Progress, MakingPC
<1>3. \/ sp.pc = "err1" /\ sp' = [sp EXCEPT !.pc = "err"]
      \/ sp.pc = "err2" /\ sp' = [sp EXCEPT !.pc = "returned", !.r = "error", !.calls = <<>>]
  BY <1>1 DEF destroy_child, At, Goto, Returns
<1>4. /\ sp'.calls = <<>> /\ sp'.pc \in {"err", "returned"} /\ sp'.ph = sp.ph /\ sp'.r # "child"
      /\ sp'.pc = "returned" => fd = FALSE
  <2>1. CASE sp.pc = "err1" /\ sp' = [sp EXCEPT !.pc = "err"]
    BY <1>2, <2>1 DEF SpInv, SpTypes
  <2>2. CASE sp.pc = "err2" /\ sp' = [sp EXCEPT !.pc = "returned", !.r = "error", !.calls = <<>>]
    BY <1>2, <2>2 DEF SpInv, SpTypes
  <2> QED BY <1>3, <2>1, <2>2
<1>5. sp' \in [pc : {"boot", "load_icode", "created", "open", "header", "exofork", "init_stack", "map_stack",
                     "phdr", "share", "err1", "err2", "err", "returned"},
               ph : Nat \ {0}, calls : Seq(CallSet), share : SUBSET SpawnLibrary,
               r : {"none", "error", "uninitialised", "child"}]
  <2>1. <<>> \in Seq(CallSet)
    OBVIOUS
  <2> QED BY <1>3, <2>1 DEF SpInv, SpTypes
<1>6. CASE /\ free' = free + Cost
           /\ child' = (IF child = "NONE" THEN "NONE" ELSE "FREE")
           /\ mem' = [n \in DOMAIN mem |-> None]
           /\ inherited' = {} /\ tables' = {} /\ panicked' = panicked
  <2>1. mem' = [n \in SpPages |-> None] /\ child' \in {"NONE", "FREE"} /\ Cost \in Nat /\ free' \in Nat
    BY <1>2, <1>6, CostType DEF SpInv, SpTypes
  <2>2. SpTypes'
    BY <1>1, <1>5, <1>6, <2>1 DEF SpInv, SpTypes
  <2>3. PagesCounted'
    <3>1. Cost' = 0
      BY <2>1 DEF Cost
    <3>2. PICK c \in Nat, u \in Nat, v \in Nat, f \in Nat, a \in Nat, l \in Nat :
              /\ c = Cost /\ u = (IF utable THEN 1 ELSE 0) /\ v = (IF utemp THEN 1 ELSE 0)
              /\ f = free /\ a = taken /\ l = leaked
      BY <2>1 DEF SpInv, SpTypes
    <3>3. f + a + l + c + u + v = SpawnPages
      BY <3>2 DEF SpInv, PagesCounted
    <3>4. (f + c) + a + l + 0 + u + v = SpawnPages
      BY <3>3
    <3> QED BY <1>1, <1>6, <3>1, <3>2, <3>4 DEF PagesCounted
  <2>4. Progress'
    BY <1>1, <1>4, <1>6, <2>1 DEF SpInv, Progress
  <2>5. Equipped' /\ Complete'
    BY <1>4, <1>6, <2>1 DEF Equipped, Complete
  <2>6. Queued' /\ LoadedPages'
    BY <1>4, <2>1, NothingQueued, NothingLoaded
  <2> QED BY <2>2, <2>3, <2>4, <2>5, <2>6 DEF SpInv
<1>7. CASE child # "NONE" /\ panicked' = TRUE /\ UNCHANGED <<free, child_vars>>
  <2>1. UNCHANGED <<free, child, mem, inherited, tables>>
    BY <1>7 DEF child_vars
  <2>2. SpTypes'
    BY <1>1, <1>5, <1>7, <2>1 DEF SpInv, SpTypes
  <2>3. PagesCounted'
    BY <1>1, <2>1, CostUnchanged DEF SpInv, PagesCounted
  <2>4. Progress'
    BY <1>1, <1>2, <1>4, <1>7, <2>1 DEF SpInv, Progress
  <2>5. Equipped' /\ Complete'
    BY <1>2, <1>4, <2>1 DEF Equipped, Complete
  <2>6. Queued' /\ LoadedPages'
    BY <1>2, <1>4, <2>1, NothingQueued, NothingLoaded
  <2> QED BY <2>2, <2>3, <2>4, <2>5, <2>6 DEF SpInv
<1> QED BY <1>6, <1>7 DEF destroy_child

-------------------------------------------------------------------------------
LEMMA SpawnStep == ASSUME SpInv, [SpawnNext]_spawn_vars PROVE SpInv'
<1>1. CASE UNCHANGED spawn_vars
  <2>1. UNCHANGED <<sp, prog, fd, utemp, utable, child, mem, inherited, tables, free, taken, leaked, panicked>>
    BY <1>1 DEF spawn_vars
  <2>2. SpTypes' /\ Progress' /\ Equipped' /\ Complete'
    BY <2>1 DEF SpInv, SpTypes, Progress, Equipped, Complete
  <2>3. PagesCounted'
    BY <2>1, CostUnchanged DEF SpInv, PagesCounted
  <2>4. Queued' /\ LoadedPages'
    BY <2>1, LoadedUnchanged
  <2> QED BY <2>2, <2>3, <2>4 DEF SpInv
<1>2. CASE SpawnNext
  BY <1>2, TakeGiveInv, OpenInv, ReadHeaderInv, ExoforkInv, InitStackInv, InitStackFailsInv, MapStackInv,
     MapStackFailsInv, ReadPhdrInv, SpawnMapperInv, CloseInv, ShareInv, SetStatusInv, DestroyInv,
     ErrCloseInv, EnvCreateInv, LoadIcodeInv, LoadIcodeMapperInv, LoadIcodeDoneInv DEF SpawnNext
<1> QED BY <1>1, <1>2

LEMMA SpawnInductive == SpawnSpec => []SpInv
<1>1. SpawnInit => SpInv
  BY SpawnAssumption, SpawnInitInv DEF SpawnInit
<1>2. SpInv /\ [SpawnNext]_spawn_vars => SpInv'
  BY SpawnStep
<1> QED BY <1>1, <1>2, PTL DEF SpawnSpec

\* The variables of spawn keep their types.
THEOREM SpawnTypeCorrect == SpawnSpec => []SpawnTypeOK
<1>1. SpInv => SpawnTypeOK
  BY DEF SpInv, SpTypes, SpawnTypeOK, Contents
<1> QED BY <1>1, SpawnInductive, PTL

\* spawn.c: every page is accounted for in every step, and whichever exit spawn takes it has
\* closed the program file, unmapped UTEMP and destroyed the child it does not return.
THEOREM SpawnCleansUp == SpawnSpec => []NothingLeftBehind
<1>1. SpInv => NothingLeftBehind
  <2>1. SUFFICES ASSUME SpInv PROVE NothingLeftBehind
    OBVIOUS
  <2>2. sp.pc = "returned" => ~fd /\ ~utemp
    BY <2>1 DEF SpInv, Progress
  <2>3. sp.pc = "returned" => IF sp.r = "child" THEN child = "RUNNABLE" ELSE panicked \/ child \in {"NONE", "FREE"}
    BY <2>1 DEF SpInv, Progress
  <2> QED BY <2>1, <2>2, <2>3 DEF SpInv, PagesCounted, NothingLeftBehind
<1> QED BY <1>1, SpawnInductive, PTL

\* spawn.c and load_icode: a process that runs has the segments of its file byte by byte, zeros
\* behind them and, when spawn made it, its stack and the library pages of the caller.
THEOREM SpawnLoads == SpawnSpec => []RunsTheProgram
<1>1. SpInv => RunsTheProgram
  <2>1. SUFFICES ASSUME SpInv, child = "RUNNABLE", sp.pc # "load_icode" PROVE RunsTheProgram
    BY DEF RunsTheProgram
  <2>2. sp.pc \in {"created", "returned"} /\ sp.calls = <<>> /\ sp.ph > Len(prog)
    <3>1. sp.pc \in {"created", "returned"}
      BY <2>1 DEF SpInv, SpTypes, Progress
    <3>2. sp.calls = <<>>
      BY <2>1, <3>1 DEF SpInv, Progress, MakingPC
    <3>3. sp.ph > Len(prog)
      BY <2>1, <3>1 DEF SpInv, Complete
    <3> QED BY <3>1, <3>2, <3>3
  <2>3. sp.pc = "returned" => inherited = SpawnLibrary /\ mem[StackPage] # None
    BY <2>1 DEF SpInv, Equipped
  <2>4. ASSUME NEW k \in DOMAIN prog, prog[k].load, Placeable(prog[k]), NEW i \in 0..(prog[k].memsz - 1)
        PROVE  /\ mem[(prog[k].va + i) \div BY2PG] # None
               /\ mem[(prog[k].va + i) \div BY2PG][(prog[k].va + i) % BY2PG]
                    = IF i < prog[k].filesz THEN prog[k].offset + i + 1 ELSE 0
    <3>1. prog[k] \in Headers /\ k < sp.ph
      BY <2>1, <2>2, ProgType DEF SpInv, SpTypes
    <3>2. PICK S \in Seq(CallSet) : /\ S = elf_load_seg(prog[k])
                                    /\ Len(S) = H(prog[k]) + N1(prog[k]) + N2(prog[k])
                                    /\ \A j \in 1..Len(S) : S[j] = CallAt(prog[k], j)
      BY <3>1, Calls
    <3>3. \A j \in 1..Len(S) : mem[S[j].page] = PageOf(S[j])
      <4>1. Unmade(k) = 0
        BY <2>2 DEF Unmade
      <4>2. Made(mem, prog[k], Len(S) - 0)
        BY <2>1, <2>4, <3>1, <3>2, <4>1, LoadedMade DEF SpInv
      <4> QED BY <3>2, <4>2 DEF Made
    <3>4. PICK j \in 1..(H(prog[k]) + N1(prog[k]) + N2(prog[k])) :
              /\ CallAt(prog[k], j).page = (prog[k].va + i) \div BY2PG
              /\ PageOf(CallAt(prog[k], j))[(prog[k].va + i) % BY2PG]
                   = IF i < prog[k].filesz THEN prog[k].offset + i + 1 ELSE 0
      BY <2>4, <3>1, SegmentBytes
    <3>5. S[j] = CallAt(prog[k], j) /\ S[j] \in CallSet /\ mem[S[j].page] = PageOf(S[j])
      BY <3>2, <3>3, <3>4
    <3>6. PageOf(S[j]) # None
      BY <3>5, CallType, NonePage
    <3> QED BY <3>4, <3>5, <3>6
  <2> QED BY <2>3, <2>4 DEF RunsTheProgram
<1> QED BY <1>1, SpawnInductive, PTL

\* The variables of fork and of spawn keep their types, whichever of the two makes the process.
THEOREM TypesCorrect == MCSpec => []TypesOK
<1>1. MCInit => IInv /\ SpInv
  <2>1. WellFormed(<<>>)
    BY DEF WellFormed
  <2>2. SpawnInitWith(<<>>, "open") => SpInv
    BY <2>1, SpawnInitInv
  <2>3. SpawnInit => SpInv
    BY SpawnAssumption, SpawnInitInv DEF SpawnInit
  <2> QED BY <2>2, <2>3, InitIInv DEF MCInit
<1>2. (IInv /\ SpInv) /\ [MCNext]_<<maker, vars, spawn_vars>> => (IInv /\ SpInv)'
  BY NextIInv, SpawnStep DEF MCNext
<1>3. IInv /\ SpInv => TypesOK
  BY DEF IInv, SpInv, SpTypes, SpawnTypeOK, Contents, TypesOK
<1> QED BY <1>1, <1>2, <1>3, PTL DEF MCSpec
=============================================================================
