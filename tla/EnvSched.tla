------------------------------- MODULE EnvSched -------------------------------
(***************************************************************************)
(* Environments, the scheduler and the blocking half of IPC of the MOS     *)
(* kernel: kern/env.c, kern/sched.c and the system calls of                *)
(* kern/syscall_all.c that create, start, stop, block or destroy an        *)
(* environment.                                                            *)
(*                                                                         *)
(* The kernel runs with interrupts disabled, so a system call or a timer   *)
(* interrupt is one step; user code between two of them changes nothing    *)
(* here.  The exception is sys_cgetc, which polls the console inside the   *)
(* kernel until the user types: nothing else happens meanwhile.  A handler *)
(* that returns an error before its first assignment is a stuttering step  *)
(* and has no action.  env_sched_list is kept pointer by pointer (module   *)
(* Tailq): what the list macros do to an element that is not on the list   *)
(* is what this module is about.                                           *)
(*                                                                         *)
(* Left to other modules: the memory of an environment (PhysMem).  Left    *)
(* out as data: registers, IPC values and the page carried by a message.   *)
(***************************************************************************)
EXTENDS Tailq, FiniteSets, Sequences

CONSTANTS
    NENV,       \* size of envs[]
    NASID,      \* number of address space identifiers
    NBOOT,      \* environments created by mips_init
    Priorities, \* the priorities mips_init gives them
    MaxGen      \* bound on the counter of mkenvid

ASSUME SizeAssumption ==
    /\ NENV \in Nat \ {0}
    /\ NASID \in Nat \ {0}
    /\ NBOOT \in 1..NENV
    /\ NBOOT <= NASID
    /\ Priorities \subseteq Nat /\ Priorities # {}
    /\ MaxGen \in Nat

Env == 0..(NENV - 1)
Asid == 0..(NASID - 1)

VARIABLES
    env_status,      \* "FREE", "RUNNABLE" or "NOT_RUNNABLE"
    env_id,
    env_parent_id,
    env_asid,
    env_pri,
    env_ran,         \* env_runs # 0: it has been dispatched since it was created
    env_ipc_recving,
    env_free_list,   \* LIST of free slots, first element first
    sched,           \* env_sched_list, a tail queue
    curenv,          \* running environment or NULL
    count,           \* static in schedule: time slices left
    asid_used,       \* asid_bitmap
    gen,             \* static i of mkenvid
    boot,            \* environments mips_init has still to create
    polling          \* curenv is inside the loop of sys_cgetc

vars == <<env_status, env_id, env_parent_id, env_asid, env_pri, env_ran,
          env_ipc_recving, env_free_list, sched, curenv, count, asid_used,
          gen, boot, polling>>

Runnable == {e \in Env : env_status[e] = "RUNNABLE"}

-------------------------------------------------------------------------------
\* env_init, before the first env_create.  envs[] is zeroed memory.
Init ==
    /\ env_status = [e \in Env |-> "FREE"]
    /\ env_id = [e \in Env |-> 0]
    /\ env_parent_id = [e \in Env |-> 0]
    /\ env_asid = [e \in Env |-> 0]
    /\ env_pri = [e \in Env |-> 0]
    /\ env_ran = [e \in Env |-> FALSE]
    /\ env_ipc_recving = [e \in Env |-> FALSE]
    /\ env_free_list = [i \in 1..NENV |-> i - 1]
    /\ sched = TAILQ_INIT(Env)
    /\ curenv = NULL
    /\ count = 0
    /\ asid_used = {}
    /\ gen = 0
    /\ boot = NBOOT
    /\ polling = FALSE

\* A counter shifted left of the slot number: two slots never share an id.
mkenvid(i, e) == i * NENV + e

\* The slot an envid names, NULL for -E_BAD_ENV.
envid2env(envid, checkperm) ==
    LET e == envid % NENV
    IN  IF envid = 0 THEN curenv
        ELSE IF env_status[e] = "FREE" \/ env_id[e] # envid THEN NULL
        ELSE IF checkperm /\ e # curenv /\ env_parent_id[e] # env_id[curenv] THEN NULL
        ELSE e

\* Ids a process can pass: 0 for itself, and any id a slot has or last had.
EnvIds == {0} \cup {env_id[e] : e \in Env}

\* Mutant: the bitmap is not consulted.
asid_alloc_first(a) == a = 0

\* asid_alloc takes the lowest ASID whose bit is clear, if there is one.
asid_alloc(a) == a \notin asid_used /\ \A b \in Asid \ asid_used : a <= b

\* env_alloc up to asid_alloc: the first free slot gets a new id.
env_alloc_id(e) ==
    /\ gen < MaxGen
    /\ env_free_list # <<>>
    /\ e = Head(env_free_list)
    /\ gen' = gen + 1
    /\ env_id' = [env_id EXCEPT ![e] = mkenvid(gen + 1, e)]
    /\ env_ran' = [env_ran EXCEPT ![e] = FALSE]

\* The whole of env_alloc when it succeeds; the slot leaves the free list last.
env_alloc(e, parent_id) ==
    /\ env_alloc_id(e)
    /\ \E a \in Asid :
          /\ asid_alloc(a)
          /\ env_asid' = [env_asid EXCEPT ![e] = a]
          /\ asid_used' = asid_used \cup {a}
    /\ env_parent_id' = [env_parent_id EXCEPT ![e] = parent_id]
    /\ env_free_list' = Tail(env_free_list)

\* Mutant: a switch inherits what is left of the slice.
slices_inherited(n, switched) == count - 1

\* count of schedule when it runs n: a new slice after a switch.
slices(n, switched) == IF switched THEN env_pri[n] ELSE count - 1

\* schedule(yield), entered with curenv = e, the statuses st and the queue q,
\* up to env_run.  A halted kernel keeps curenv: the NULL dereference, or the
\* assertion of env_run, comes before the assignment.
schedule(yield, e, st, q, ran) ==
    LET drop == e = NULL \/ st[e] # "RUNNABLE"
        rotate == ~drop /\ (yield \/ count - 1 <= 0)
        q2 == IF rotate THEN TAILQ_INSERT_TAIL(TAILQ_REMOVE(q, e), e) ELSE q
        n == IF drop \/ rotate THEN q2.first ELSE e
        runs == q2.ok /\ n # NULL /\ st[n] = "RUNNABLE"
    IN  /\ sched' = [q2 EXCEPT !.ok = runs]
        /\ curenv' = IF runs THEN n ELSE e
        /\ count' = IF runs THEN slices(n, drop \/ rotate) ELSE count
        /\ env_ran' = IF runs THEN [ran EXCEPT ![n] = TRUE] ELSE ran

-------------------------------------------------------------------------------
\* The kernel runs and has dispatched a process.
CurenvRuns == sched.ok /\ boot = 0 /\ curenv # NULL

\* That process is in user mode and may trap into the kernel.
InUserMode == CurenvRuns /\ ~polling

\* ENV_CREATE in mips_init, interrupts still off.
env_create(priority) ==
    /\ boot > 0
    /\ \E e \in Env :
          /\ env_alloc(e, 0)
          /\ env_pri' = [env_pri EXCEPT ![e] = priority]
          /\ env_status' = [env_status EXCEPT ![e] = "RUNNABLE"]
          /\ sched' = TAILQ_INSERT_HEAD(sched, e)
    /\ boot' = boot - 1
    /\ UNCHANGED <<env_ipc_recving, curenv, count, polling>>

\* The timer interrupt, the only preemption; also the first dispatch, out of
\* the idle loop of mips_init.
handle_int ==
    /\ sched.ok /\ boot = 0 /\ ~polling
    /\ schedule(FALSE, curenv, env_status, sched, env_ran)
    /\ UNCHANGED <<env_status, env_id, env_parent_id, env_asid, env_pri,
                   env_ipc_recving, env_free_list, asid_used, gen, boot, polling>>

\* sys_cgetc is called: the loop on scancharc runs with interrupts disabled.
sys_cgetc ==
    /\ InUserMode
    /\ polling' = TRUE
    /\ UNCHANGED <<env_status, env_id, env_parent_id, env_asid, env_pri, env_ran,
                   env_ipc_recving, env_free_list, sched, curenv, count, asid_used,
                   gen, boot>>

\* The user has typed a character: the loop ends and the call returns.
sys_cgetc_return ==
    /\ polling
    /\ polling' = FALSE
    /\ UNCHANGED <<env_status, env_id, env_parent_id, env_asid, env_pri, env_ran,
                   env_ipc_recving, env_free_list, sched, curenv, count, asid_used,
                   gen, boot>>

sys_yield ==
    /\ InUserMode
    /\ schedule(TRUE, curenv, env_status, sched, env_ran)
    /\ UNCHANGED <<env_status, env_id, env_parent_id, env_asid, env_pri,
                   env_ipc_recving, env_free_list, asid_used, gen, boot, polling>>

sys_exofork ==
    /\ InUserMode
    /\ \E e \in Env :
          /\ env_alloc(e, env_id[curenv])
          /\ env_status' = [env_status EXCEPT ![e] = "NOT_RUNNABLE"]
          /\ env_pri' = [env_pri EXCEPT ![e] = env_pri[curenv]]
    /\ UNCHANGED <<env_ipc_recving, sched, curenv, count, boot, polling>>

\* sys_exofork when env_alloc fails after mkenvid: no ASID is left.
sys_exofork_no_asid ==
    /\ InUserMode
    /\ asid_used = Asid
    /\ \E e \in Env : env_alloc_id(e)
    /\ UNCHANGED <<env_status, env_parent_id, env_asid, env_pri, env_ipc_recving,
                   env_free_list, sched, curenv, count, asid_used, boot, polling>>

sys_set_env_status(envid, status) ==
    LET e == envid2env(envid, TRUE) IN
    /\ InUserMode
    /\ e # NULL
    /\ sched' = IF env_status[e] = "RUNNABLE" /\ status = "NOT_RUNNABLE"
                THEN TAILQ_REMOVE(sched, e)
                ELSE IF env_status[e] = "NOT_RUNNABLE" /\ status = "RUNNABLE"
                THEN TAILQ_INSERT_TAIL(sched, e)
                ELSE sched
    /\ env_status' = [env_status EXCEPT ![e] = status]
    /\ UNCHANGED <<env_id, env_parent_id, env_asid, env_pri, env_ran, env_ipc_recving,
                   env_free_list, curenv, count, asid_used, gen, boot, polling>>

\* sys_env_destroy: env_free, then a dispatch if the process destroyed itself.
sys_env_destroy(envid) ==
    LET e == envid2env(envid, TRUE)
        st == [env_status EXCEPT ![e] = "FREE"]
        q == TAILQ_REMOVE(sched, e)
    IN
    /\ InUserMode
    /\ e # NULL
    /\ asid_used' = asid_used \ {env_asid[e]}
    /\ env_status' = st
    /\ env_free_list' = <<e>> \o env_free_list
    /\ IF e = curenv
       THEN schedule(TRUE, NULL, st, q, env_ran)
       ELSE sched' = q /\ UNCHANGED <<curenv, count, env_ran>>
    /\ UNCHANGED <<env_id, env_parent_id, env_asid, env_pri, env_ipc_recving, gen, boot, polling>>

sys_ipc_recv ==
    LET st == [env_status EXCEPT ![curenv] = "NOT_RUNNABLE"] IN
    /\ InUserMode
    /\ env_ipc_recving' = [env_ipc_recving EXCEPT ![curenv] = TRUE]
    /\ env_status' = st
    /\ schedule(TRUE, curenv, st, TAILQ_REMOVE(sched, curenv), env_ran)
    /\ UNCHANGED <<env_id, env_parent_id, env_asid, env_pri, env_free_list,
                   asid_used, gen, boot, polling>>

\* Mutant: env_ipc_recving is not cleared.
sys_ipc_try_send_keeps_recving(envid) ==
    LET e == envid2env(envid, FALSE) IN
    /\ InUserMode
    /\ e # NULL
    /\ env_ipc_recving[e]
    /\ env_status' = [env_status EXCEPT ![e] = "RUNNABLE"]
    /\ sched' = TAILQ_INSERT_TAIL(sched, e)
    /\ UNCHANGED <<env_id, env_parent_id, env_asid, env_pri, env_ran, env_ipc_recving,
                   env_free_list, curenv, count, asid_used, gen, boot, polling>>

\* sys_ipc_try_send: the receiver is woken before the page of the message is
\* looked up, so the two outcomes of that lookup are one step here.
sys_ipc_try_send(envid) ==
    LET e == envid2env(envid, FALSE) IN
    /\ InUserMode
    /\ e # NULL
    /\ env_ipc_recving[e]
    /\ env_ipc_recving' = [env_ipc_recving EXCEPT ![e] = FALSE]
    /\ env_status' = [env_status EXCEPT ![e] = "RUNNABLE"]
    /\ sched' = TAILQ_INSERT_TAIL(sched, e)
    /\ UNCHANGED <<env_id, env_parent_id, env_asid, env_pri, env_ran, env_free_list,
                   curenv, count, asid_used, gen, boot, polling>>

-------------------------------------------------------------------------------
(***************************************************************************)
(* The callers.  fork, spawn and exit of user/lib start a child that never *)
(* ran, and destroy the calling process.  CarefulStart and CarefulDestroy  *)
(* are the weakest conditions on the target we found under which the       *)
(* kernel keeps env_sched_list right; nothing in the kernel checks them.   *)
(***************************************************************************)
CarefulStart(envid) ==
    LET e == envid2env(envid, TRUE)
    IN  e # NULL /\ e # curenv /\ ~env_ipc_recving[e]

CarefulDestroy(envid) ==
    LET e == envid2env(envid, TRUE)
    IN  e # NULL /\ env_status[e] = "RUNNABLE"

Statuses == {"RUNNABLE", "NOT_RUNNABLE"}

Always ==
    \/ \E p \in Priorities : env_create(p)
    \/ handle_int
    \/ sys_yield
    \/ sys_exofork
    \/ sys_exofork_no_asid
    \/ sys_cgetc
    \/ sys_cgetc_return
    \/ sys_ipc_recv
    \/ \E id \in EnvIds : sys_ipc_try_send(id)

Next ==
    \/ Always
    \/ \E id \in EnvIds, s \in Statuses :
          InUserMode /\ CarefulStart(id) /\ sys_set_env_status(id, s)
    \/ \E id \in EnvIds : InUserMode /\ CarefulDestroy(id) /\ sys_env_destroy(id)

Spec == Init /\ [][Next]_vars

\* The clock interrupts for ever, whatever the processes do: an interrupt that
\* arrives while the kernel polls the console stays pending and is taken when
\* sys_cgetc returns to user mode, hence strong fairness.  Nothing makes the
\* user type: sys_cgetc_return has no fairness.
FairSpec == Spec /\ SF_vars(handle_int)

\* user/lib alone: fork and spawn start a child, exit destroys the caller, and
\* spawn destroys the child it could not finish, which never ran.
SpawnGivesUp(envid) ==
    LET e == envid2env(envid, TRUE)
    IN  e # NULL /\ env_status[e] = "NOT_RUNNABLE" /\ ~env_ran[e]

SpawnFailsSpec ==
    /\ Init
    /\ [][\/ Always
          \/ \E id \in EnvIds : /\ InUserMode
                                /\ CarefulStart(id)
                                /\ sys_set_env_status(id, "RUNNABLE")
          \/ sys_env_destroy(0)
          \/ \E id \in EnvIds : InUserMode /\ SpawnGivesUp(id) /\ sys_env_destroy(id)]_vars

\* A parent may set the status of a child in any state.
AnyStatusSpec ==
    Init /\ [][Next \/ \E id \in EnvIds, s \in Statuses : sys_set_env_status(id, s)]_vars

-------------------------------------------------------------------------------
\* The fields of struct Env, the lists and the statics of sched.c and env.c.
TypeOK ==
    /\ env_status \in [Env -> {"FREE", "RUNNABLE", "NOT_RUNNABLE"}]
    /\ env_id \in [Env -> Nat]
    /\ env_parent_id \in [Env -> Nat]
    /\ env_asid \in [Env -> Asid]
    /\ env_pri \in [Env -> Nat]
    /\ env_ran \in [Env -> BOOLEAN]
    /\ env_ipc_recving \in [Env -> BOOLEAN]
    /\ env_free_list \in Seq(Env)
    /\ sched \in Tailqs(Env)
    /\ curenv \in Env \cup {NULL}
    /\ count \in Nat
    /\ asid_used \subseteq Asid
    /\ gen \in Nat
    /\ boot \in Nat
    /\ polling \in BOOLEAN

\* The environments a traversal of env_sched_list meets, in order.
SchedSeq == TAILQ_SEQ(sched, NENV)

\* env.c:18 and syscall_all.c:271: while the kernel runs, env_sched_list is a
\* finite list without repetition that contains exactly the RUNNABLE
\* environments, and tqh_last is the address of its last next pointer.
SchedListIffRunnable ==
    sched.ok =>
        LET q == SchedSeq
        IN  /\ {q[i] : i \in DOMAIN q} = Runnable
            /\ Len(q) = Cardinality(Runnable)
            /\ sched.last = IF q = <<>> THEN HEAD ELSE q[Len(q)]

\* The same without a traversal: on the RUNNABLE environments, and only on them,
\* the links of env_sched_list are inverse to each other.  This is what makes
\* TAILQ_REMOVE of a RUNNABLE environment, and TAILQ_INSERT_TAIL of one that is
\* not, correct.
LinkInv == sched.ok => Linked(sched, Runnable)

\* The kernel stops only when there is nothing left to run: it never follows a
\* NULL link of env_sched_list, and env_run never gets a process that is not
\* RUNNABLE.
PanicOnlyWhenIdle == ~sched.ok => Runnable = {}

\* The running process is the head of env_sched_list, so the rotation of
\* schedule never runs past a process that waits.
CurenvAtHead == CurenvRuns => curenv = sched.first

\* A process marked as receiving is blocked, so sys_ipc_try_send never inserts
\* one that is on env_sched_list already.  Nothing is said of a process that is
\* destroyed while it waits, whose mark env_alloc would leave to the next owner
\* of the slot: that destruction is outside CarefulDestroy.
ReceivingIsBlocked ==
    sched.ok => \A e \in Env : env_ipc_recving[e] => env_status[e] = "NOT_RUNNABLE"

\* Every slot is in use or on the free list once, and two processes alive never
\* share an ASID, which would let one hit the TLB entries of the other.
SlotsAccounted ==
    LET Live == {e \in Env : env_status[e] # "FREE"} IN
    /\ {env_free_list[i] : i \in DOMAIN env_free_list} = Env \ Live
    /\ Len(env_free_list) = Cardinality(Env \ Live)
    /\ asid_used = {env_asid[e] : e \in Live}
    /\ Cardinality(asid_used) = Cardinality(Live)

\* Round robin starves nobody: a RUNNABLE process is dispatched, unless its
\* parent stops it first.  The kernel busy-waits for the console and blocks all
\* environments (syscall_all.c:428), so this needs a user who answers every
\* sys_cgetc in the end, and holds however often a process calls it.
RunnableRuns ==
    []<>~polling =>
        \A e \in Env : (boot = 0 /\ e \in Runnable) ~> (curenv = e \/ e \notin Runnable)

\* What SchedQueue calls the running process: a halted kernel runs none.
Running == IF sched.ok THEN curenv ELSE NULL

Abstract == INSTANCE SchedQueue WITH
    Proc <- Env, None <- NULL, queue <- SchedSeq, running <- Running

\* sched.c implements the queue of SchedQueue: whatever the callers do within
\* CarefulStart and CarefulDestroy, each kernel step is a step of the queue or
\* leaves it alone.
RefinesSchedQueue == Abstract!Spec
===============================================================================
