--------------------------------- MODULE Pipe ---------------------------------
(***************************************************************************)
(* Pipes of the user library: user/lib/pipe.c with the descriptor calls    *)
(* close and dup of fd.c, pageref.c and the page loop of fork.             *)
(*                                                                         *)
(* A pipe is three shared pages: one struct Fd for each end and one struct *)
(* Pipe.  A process has an end open if it maps that end's Fd page at the   *)
(* address of a descriptor n and the Pipe page at fd2data(n).  Nobody      *)
(* counts readers and writers: "the other end is closed" is inferred from  *)
(* the reference counts of the pages, which other processes change while   *)
(* they are being read.                                                    *)
(*                                                                         *)
(* User code may be preempted between any two accesses to shared memory,   *)
(* so each action has at most one of them; a system call is one step.      *)
(* Processes are dispatched round robin (module EnvSched).  A byte is the  *)
(* number of bytes written before it plus one, so order and loss show.     *)
(***************************************************************************)
EXTENDS Integers, Sequences, FiniteSets

CONSTANTS
    Proc,       \* processes that share the pipe, in round-robin order
    NFD,        \* descriptors of a process
    Readers,    \* processes that call pipe_read or pipe_is_closed
    Writers,    \* processes that call pipe_write or pipe_is_closed
    Calls,      \* the library calls the programs make, a subset of Op
    BY2PIPE,    \* size of p_buf
    PosMod,     \* p_rpos and p_wpos are unsigned of this modulus: 2^32
    MaxBytes,   \* bound on the bytes written
    MaxCount,   \* bound on the n of one read or write
    Slice       \* accesses a process makes at least before the clock stops it

ASSUME PipeAssumption ==
    /\ BY2PIPE \in Nat \ {0}
    /\ PosMod \in Nat /\ PosMod % BY2PIPE = 0 /\ PosMod > BY2PIPE
    /\ NFD \in Nat /\ NFD >= 2
    /\ Slice \in Nat /\ MaxCount \in Nat /\ MaxBytes \in Nat
    /\ IsFiniteSet(Proc) /\ 0 \in Proc /\ Proc = 0..(Cardinality(Proc) - 1)

Fdnum == 0..(NFD - 1)
None == "none"
End == {"rd", "wr"}
Opposite == [end \in End |-> IF end = "rd" THEN "wr" ELSE "rd"]

VARIABLES
    fd,       \* fd[p][n]: the Fd page p maps at INDEX2FD(n), or None
    data,     \* data[p][n]: p maps the Pipe page at INDEX2DATA(n)
    p_rpos, p_wpos, p_buf,
    status,   \* "FREE", "NOT_RUNNABLE" (a child being made) or "RUNNABLE"
    cur,      \* the running process
    used,     \* accesses cur has made in this time slice, at most Slice
    pc,       \* where each process is
    frame,    \* its locals
    same,     \* env_runs is still what _pipe_is_closed read into runs
    sent,     \* number of bytes written
    got       \* bytes read, in order

vars == <<fd, data, p_rpos, p_wpos, p_buf, status, cur, used, pc, frame, same, sent, got>>
shared == <<fd, data, p_rpos, p_wpos, p_buf, status, sent, got>>

Op == {"read", "write", "is_closed", "close", "dup", "fork"}
Where == {"user", "loop", "copy", "bump", "runs", "fd_ref", "pipe_ref", "recheck",
          "unmap_fd", "unmap_data", "map_data", "map_fd", "duppage"}
Frame == [op : Op, n : Fdnum, to : Fdnum, i : Nat, count : Nat,
          fd_ref : Nat, pipe_ref : Nat, child : Proc, page : 0..(2 * NFD)]

\* The locals of a call that begins, and those of a process outside the library.
NewFrame(op, n, to, count, child) ==
    [op |-> op, n |-> n, to |-> to, i |-> 0, count |-> count,
     fd_ref |-> 0, pipe_ref |-> 0, child |-> child, page |-> 0]
NoFrame == NewFrame("close", 0, 0, 0, 0)

\* pageref of the two pages behind descriptor n of p, 0 if not mapped.
pageref_fd(p, n) ==
    IF fd[p][n] = None THEN 0
    ELSE Cardinality({s \in Proc \X Fdnum : fd[s[1]][s[2]] = fd[p][n]})

pageref_data(p, n) ==
    IF ~data[p][n] THEN 0 ELSE Cardinality({s \in Proc \X Fdnum : data[s[1]][s[2]]})

\* An end is open as long as somebody can still use it.
Open(end) == \E p \in Proc, n \in Fdnum : status[p] # "FREE" /\ fd[p][n] = end /\ data[p][n]

-------------------------------------------------------------------------------
\* Process 0 has just returned from pipe(), with 0 the end to read.
Init ==
    /\ fd = [p \in Proc |-> [n \in Fdnum |->
                IF p # 0 \/ n > 1 THEN None ELSE IF n = 0 THEN "rd" ELSE "wr"]]
    /\ data = [p \in Proc |-> [n \in Fdnum |-> p = 0 /\ n <= 1]]
    /\ p_rpos = 0 /\ p_wpos = 0
    /\ p_buf = [i \in 0..(BY2PIPE - 1) |-> 0]
    /\ status = [p \in Proc |-> IF p = 0 THEN "RUNNABLE" ELSE "FREE"]
    /\ cur = 0 /\ used = 0
    /\ pc = [p \in Proc |-> "user"]
    /\ frame = [p \in Proc |-> NoFrame]
    /\ same = [p \in Proc |-> FALSE]
    /\ sent = 0 /\ got = <<>>

\* The process schedule comes to after k turns of the list, cur itself last.
After(k) == (cur + k) % Cardinality(Proc)

\* schedule takes the first that is runnable.
schedule(q) ==
    \E k \in 1..Cardinality(Proc) :
        /\ q = After(k) /\ status[q] = "RUNNABLE"
        /\ \A j \in 1..(k - 1) : status[After(j)] # "RUNNABLE"

\* schedule and env_run: whoever is dispatched gets a new value of env_runs.
dispatch ==
    \E q \in Proc :
        schedule(q) /\ cur' = q /\ used' = 0 /\ same' = [same EXCEPT ![q] = FALSE]

\* One access of the running process.
runs_on == UNCHANGED cur /\ used' = IF used < Slice THEN used + 1 ELSE used

\* The clock interrupts the running process, wherever it is.
handle_int ==
    /\ used = Slice \/ pc[cur] = "user"
    /\ dispatch
    /\ UNCHANGED shared /\ UNCHANGED <<pc, frame>>

At(p, where) == cur = p /\ pc[p] = where
Goto(p, where) == pc' = [pc EXCEPT ![p] = where]

-------------------------------------------------------------------------------
\* A process calls the library on a descriptor it has open.
call(p, new, where) ==
    /\ At(p, "user") /\ new.op \in Calls
    /\ frame' = [frame EXCEPT ![p] = new]
    /\ Goto(p, where)
    /\ runs_on
    /\ UNCHANGED shared /\ UNCHANGED same

call_read(p, n, count) ==
    /\ p \in Readers /\ fd[p][n] = "rd"
    /\ call(p, NewFrame("read", n, 0, count, 0), "loop")

call_write(p, n, count) ==
    /\ p \in Writers /\ fd[p][n] = "wr" /\ sent + count <= MaxBytes
    /\ call(p, NewFrame("write", n, 0, count, 0), "loop")

call_is_closed(p, n) ==
    /\ p \in Readers \cup Writers /\ fd[p][n] # None
    /\ call(p, NewFrame("is_closed", n, 0, 0, 0), "runs")

call_close(p, n) ==
    /\ fd[p][n] # None
    /\ call(p, NewFrame("close", 0, n, 0, 0), "unmap_fd")

\* dup closes the new descriptor first, if it is open.
call_dup(p, n, to) ==
    /\ fd[p][n] # None /\ n # to
    /\ call(p, NewFrame("dup", n, to, 0, 0),
            IF fd[p][to] # None THEN "unmap_fd" ELSE "map_data")

return(p) == Goto(p, "user") /\ frame' = [frame EXCEPT ![p] = NoFrame]

\* fd_ref and pipe_ref are dead once they have been compared.
forget_refs(p) == frame' = [frame EXCEPT ![p].fd_ref = 0, ![p].pipe_ref = 0]

\* _pipe_is_closed, inlined in its three callers: the answer.
answer(p, closed) ==
    IF frame[p].op = "is_closed" \/ closed
    THEN return(p) /\ runs_on /\ UNCHANGED same
    ELSE Goto(p, "loop") /\ forget_refs(p) /\ dispatch

-------------------------------------------------------------------------------
\* The head of the loops of pipe_read and pipe_write, up to the first branch.
Empty == p_rpos = p_wpos
Full_late == (p_wpos - p_rpos) % PosMod = BY2PIPE + 1   \* mutant: off by one
Full == (p_wpos - p_rpos) % PosMod = BY2PIPE

pipe_loop(p) ==
    LET f == frame[p]
        stuck == IF f.op = "read" THEN Empty ELSE Full
    IN
    /\ At(p, "loop")
    /\ \/ /\ f.i >= f.count \/ (stuck /\ f.op = "read" /\ f.i > 0)
          /\ return(p)
       \/ /\ f.i < f.count /\ ~stuck
          /\ Goto(p, "copy") /\ UNCHANGED frame
       \/ /\ f.i < f.count /\ stuck /\ ~(f.op = "read" /\ f.i > 0)
          /\ Goto(p, "runs") /\ UNCHANGED frame
    /\ runs_on
    /\ UNCHANGED shared /\ UNCHANGED same

\* pipe_read takes the byte, then moves p_rpos.
read_byte(p) ==
    /\ At(p, "copy") /\ frame[p].op = "read"
    /\ got' = Append(got, p_buf[p_rpos % BY2PIPE])
    /\ Goto(p, "bump")
    /\ runs_on
    /\ UNCHANGED <<fd, data, p_rpos, p_wpos, p_buf, status, sent, frame, same>>

\* pipe_write stores the byte, then moves p_wpos.
write_byte(p) ==
    /\ At(p, "copy") /\ frame[p].op = "write"
    /\ p_buf' = [p_buf EXCEPT ![p_wpos % BY2PIPE] = sent + 1]
    /\ sent' = sent + 1
    /\ Goto(p, "bump")
    /\ runs_on
    /\ UNCHANGED <<fd, data, p_rpos, p_wpos, status, got, frame, same>>

advance_wide(pos) == pos + 1   \* mutant: the position does not wrap
advance(pos) == (pos + 1) % PosMod

bump(p) ==
    /\ At(p, "bump")
    /\ IF frame[p].op = "read"
       THEN p_rpos' = advance(p_rpos) /\ UNCHANGED p_wpos
       ELSE p_wpos' = advance(p_wpos) /\ UNCHANGED p_rpos
    /\ frame' = [frame EXCEPT ![p].i = @ + 1]
    /\ Goto(p, "loop")
    /\ runs_on
    /\ UNCHANGED <<fd, data, p_buf, status, sent, got, same>>

\* The loop of _pipe_is_closed: runs = env_runs, fd_ref, pipe_ref, env_runs.
read_runs(p) ==
    /\ At(p, "runs")
    /\ same' = [same EXCEPT ![p] = TRUE]
    /\ Goto(p, "fd_ref")
    /\ runs_on
    /\ UNCHANGED shared /\ UNCHANGED frame

read_fd_ref(p) ==
    /\ At(p, "fd_ref")
    /\ frame' = [frame EXCEPT ![p].fd_ref = pageref_fd(p, frame[p].n)]
    /\ Goto(p, "pipe_ref")
    /\ runs_on
    /\ UNCHANGED shared /\ UNCHANGED same

read_pipe_ref(p) ==
    /\ At(p, "pipe_ref")
    /\ frame' = [frame EXCEPT ![p].pipe_ref = pageref_data(p, frame[p].n)]
    /\ Goto(p, "recheck")
    /\ runs_on
    /\ UNCHANGED shared /\ UNCHANGED same

\* Mutant: the counts are used although the process was dispatched in between.
recheck_never(p) ==
    /\ At(p, "recheck")
    /\ answer(p, frame[p].fd_ref = frame[p].pipe_ref)
    /\ UNCHANGED shared

\* while (runs != env->env_runs): read again, or answer and go on.  The answer
\* "not closed" makes pipe_read and pipe_write yield.
recheck(p) ==
    /\ At(p, "recheck")
    /\ IF same[p] THEN answer(p, frame[p].fd_ref = frame[p].pipe_ref)
       ELSE Goto(p, "runs") /\ forget_refs(p) /\ runs_on /\ UNCHANGED same
    /\ UNCHANGED shared

-------------------------------------------------------------------------------
\* pipe_close: first the Fd page, then the Pipe page.  The fd_close that close
\* adds finds nothing to unmap.
unmap_fd(p) ==
    /\ At(p, "unmap_fd")
    /\ fd' = [fd EXCEPT ![p][frame[p].to] = None]
    /\ Goto(p, "unmap_data")
    /\ runs_on
    /\ UNCHANGED <<data, p_rpos, p_wpos, p_buf, status, sent, got, frame, same>>

\* Mutant: close leaves the Pipe page mapped.
unmap_data_not(p) ==
    /\ At(p, "unmap_data")
    /\ IF frame[p].op = "dup" THEN Goto(p, "map_data") /\ UNCHANGED frame ELSE return(p)
    /\ runs_on
    /\ UNCHANGED <<fd, data, p_rpos, p_wpos, p_buf, status, sent, got, same>>

unmap_data(p) ==
    /\ At(p, "unmap_data")
    /\ data' = [data EXCEPT ![p][frame[p].to] = FALSE]
    /\ IF frame[p].op = "dup" THEN Goto(p, "map_data") /\ UNCHANGED frame ELSE return(p)
    /\ runs_on
    /\ UNCHANGED <<fd, p_rpos, p_wpos, p_buf, status, sent, got, same>>

\* dup: first the Pipe page, then the Fd page.
map_data(p) ==
    /\ At(p, "map_data")
    /\ data' = [data EXCEPT ![p][frame[p].to] = data[p][frame[p].n]]
    /\ Goto(p, "map_fd")
    /\ runs_on
    /\ UNCHANGED <<fd, p_rpos, p_wpos, p_buf, status, sent, got, frame, same>>

map_fd(p) ==
    /\ At(p, "map_fd")
    /\ fd' = [fd EXCEPT ![p][frame[p].to] = fd[p][frame[p].n]]
    /\ return(p)
    /\ runs_on
    /\ UNCHANGED <<data, p_rpos, p_wpos, p_buf, status, sent, got, same>>

\* fork: syscall_exofork, then the mapped pages in the order of their
\* addresses, which puts all Fd pages (FDTABLE) before all Pipe pages
\* (FILEBASE); last the child is made runnable.
call_fork(p, child) ==
    /\ At(p, "user") /\ "fork" \in Calls
    /\ status[child] = "FREE"
    /\ frame' = [frame EXCEPT ![p] = NewFrame("fork", 0, 0, 0, child)]
    /\ status' = [status EXCEPT ![child] = "NOT_RUNNABLE"]
    /\ Goto(p, "duppage")
    /\ runs_on
    /\ UNCHANGED <<fd, data, p_rpos, p_wpos, p_buf, sent, got, same>>

duppage(p) ==
    LET k == frame[p].page
        c == frame[p].child
    IN
    /\ At(p, "duppage")
    /\ k < 2 * NFD
    /\ fd' = IF k < NFD THEN [fd EXCEPT ![c][k] = fd[p][k]] ELSE fd
    /\ data' = IF k >= NFD THEN [data EXCEPT ![c][k - NFD] = data[p][k - NFD]] ELSE data
    /\ frame' = [frame EXCEPT ![p].page = @ + 1]
    /\ runs_on
    /\ UNCHANGED <<p_rpos, p_wpos, p_buf, status, sent, got, pc, same>>

fork_done(p) ==
    /\ At(p, "duppage")
    /\ frame[p].page = 2 * NFD
    /\ status' = [status EXCEPT ![frame[p].child] = "RUNNABLE"]
    /\ return(p)
    /\ runs_on
    /\ UNCHANGED <<fd, data, p_rpos, p_wpos, p_buf, sent, got, same>>

-------------------------------------------------------------------------------
\* The next step of a library call in progress.
step(p) ==
    \/ pipe_loop(p) \/ read_byte(p) \/ write_byte(p) \/ bump(p)
    \/ read_runs(p) \/ read_fd_ref(p) \/ read_pipe_ref(p) \/ recheck(p)
    \/ unmap_fd(p) \/ unmap_data(p) \/ map_data(p) \/ map_fd(p)
    \/ duppage(p) \/ fork_done(p)

calls(p) ==
    \/ \E n \in Fdnum, count \in 1..MaxCount : call_read(p, n, count) \/ call_write(p, n, count)
    \/ \E n \in Fdnum : call_is_closed(p, n) \/ call_close(p, n)
    \/ \E n, to \in Fdnum : call_dup(p, n, to)
    \/ \E child \in Proc : call_fork(p, child)

Next == handle_int \/ \E p \in Proc : step(p) \/ calls(p)

Spec == Init /\ [][Next]_vars

\* The clock ticks for ever and a dispatched process executes; it need not call
\* the library again.  So it is while no process waits in sys_cgetc for the user, which
\* stops the clock: module EnvSched has that wait.
FairSpec == Spec /\ WF_vars(handle_int) /\ \A p \in Proc : WF_vars(step(p))

-------------------------------------------------------------------------------
\* Positions and buffer of struct Pipe, the mappings and locals of each process.
TypeOK ==
    /\ fd \in [Proc -> [Fdnum -> End \cup {None}]]
    /\ data \in [Proc -> [Fdnum -> BOOLEAN]]
    /\ p_rpos \in 0..(PosMod - 1) /\ p_wpos \in 0..(PosMod - 1)
    /\ p_buf \in [0..(BY2PIPE - 1) -> Nat]
    /\ status \in [Proc -> {"FREE", "NOT_RUNNABLE", "RUNNABLE"}]
    /\ cur \in Proc /\ used \in 0..Slice
    /\ pc \in [Proc -> Where] /\ frame \in [Proc -> Frame]
    /\ same \in [Proc -> BOOLEAN]
    /\ sent \in Nat /\ got \in Seq(Nat)

\* pipe_read delivers the bytes of pipe_write in order, none twice, none left
\* out, none invented, through any number of turns of the buffer; the buffer holds the
\* bytes between p_rpos and p_wpos and never more than BY2PIPE of them: pipe_write does
\* not overwrite what is unread.
BytesInOrder ==
    LET unread == (p_wpos - p_rpos) % PosMod
        pending == IF \E p \in Proc : pc[p] = "bump" /\ frame[p].op = "read" THEN 1 ELSE 0
        base == Len(got) - pending
    IN  /\ \A i \in DOMAIN got : got[i] = i
        /\ unread <= BY2PIPE
        /\ \A k \in 0..(unread - 1) : p_buf[(p_rpos + k) % BY2PIPE] = base + k + 1

\* In this step _pipe_is_closed leaves its loop and answers 1.
SaysClosed(p) ==
    /\ pc[p] = "recheck" /\ pc'[p] \notin {"recheck", "runs"}
    /\ frame[p].fd_ref = frame[p].pipe_ref

\* A fork is between two pages.  It maps a child's Fd pages before its Pipe pages,
\* so that until it ends the counts of a third process may agree by accident.
Forking == \E q \in Proc : pc[q] = "duppage"

\* testpiperace.c:39, "RACE: pipe appears closed": _pipe_is_closed answers 1 only
\* if no process has the other end open, whatever close and dup are doing, and
\* whatever fork has done as soon as it is finished.
ClosedIsTrue ==
    [][\A p \in Proc :
          SaysClosed(p) /\ ~Forking => ~Open(Opposite[fd[p][frame[p].n]])]_vars

\* pipe.c:123, "The return value must be greater than 0, unless the pipe is
\* closed and nothing has been written since the last read".
EofMeansDrained ==
    [][\A p \in Proc : SaysClosed(p) /\ frame[p].op = "read" => Empty]_vars

\* p is inside pipe_read or pipe_write.
Blocked(p, op) == pc[p] # "user" /\ frame[p].op = op

\* pipe_read comes back when there is a byte, or nobody left to write one;
\* pipe_write when nobody is left to read.
CallsReturn ==
    \A p \in Proc :
        /\ Blocked(p, "read") /\ (~Empty \/ ~Open("wr")) ~> pc[p] = "user"
        /\ Blocked(p, "write") /\ ~Open("rd") ~> pc[p] = "user"
===============================================================================
