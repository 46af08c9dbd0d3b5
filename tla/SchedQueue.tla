------------------------------ MODULE SchedQueue ------------------------------
(***************************************************************************)
(* What the scheduler of kern/sched.c promises, without list links, time   *)
(* slices or system calls: the processes that can run form one queue, the  *)
(* running one is its head, a process that can run again joins at the end, *)
(* and the CPU passes only to the head of the queue.                       *)
(***************************************************************************)
EXTENDS Sequences, SequencesExt

CONSTANTS Proc, None

VARIABLES
    queue,    \* the processes that can run
    running   \* the one that has the CPU, or None

TypeOK == queue \in Seq(Proc) /\ running \in Proc \cup {None}

Init == queue = <<>> /\ running = None

HeadOf(q) == IF q = <<>> THEN None ELSE Head(q)

\* Before anything runs, the processes of the boot image are put in front.
Boot(p) ==
    /\ running = None /\ ~Contains(queue, p)
    /\ queue' = <<p>> \o queue /\ UNCHANGED running

\* The first dispatch.
Start == running = None /\ queue # <<>> /\ running' = Head(queue) /\ UNCHANGED queue

\* A process can run: it waits behind all others.
Join(p) == ~Contains(queue, p) /\ queue' = Append(queue, p) /\ UNCHANGED running

\* A time slice ends: the running process goes to the end.
Rotate ==
    /\ running # None
    /\ queue' = Append(Tail(queue), running)
    /\ running' = Head(queue')

\* A process blocks or dies.  The CPU moves on only if it was the running one.
Leave(p) ==
    /\ \E i \in 1..Len(queue) : queue[i] = p /\ queue' = RemoveAt(queue, i)
    /\ running' = IF p = running THEN HeadOf(queue') ELSE running

Next ==
    \/ \E p \in Proc : Boot(p) \/ Join(p) \/ Leave(p)
    \/ Start
    \/ Rotate

Spec == Init /\ [][Next]_<<queue, running>>
===============================================================================
