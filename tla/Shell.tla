--------------------------------- MODULE Shell ---------------------------------
(***************************************************************************)
(* The shell: user/sh.c with wait.c, the descriptor calls of fd.c it makes *)
(* and exit of libos.c, and cat.c and echo.c as the programs it runs.      *)
(*                                                                         *)
(* A command line is run by a family of processes: the shell forks one to  *)
(* parse the line, every | forks another for the rest of it, and each of   *)
(* them spawns a program, closes its own descriptors and waits.  Nobody is *)
(* told that a pipeline has ended: it ends because every process closes    *)
(* the pipe ends it does not need, in the right order with its waiting.    *)
(*                                                                         *)
(* A read of the console is syscall_cgetc, which waits for the user inside *)
(* the kernel: no other process runs until a character is typed.           *)
(*                                                                         *)
(* The line is chosen token by token as it is parsed, since each token is  *)
(* seen by one process only.  A pipe is the number of bytes in it; reading *)
(* and writing it is one step, by what module Pipe shows of pipe.c, early  *)
(* end of file included.  An envid is never used again, so a process that  *)
(* is gone is Nobody to those who wait for it.  The shell reads the        *)
(* console.  Environments and memory run out in fork, spawn, open and      *)
(* pipe, but dup and duppage find the page tables they need.               *)
(***************************************************************************)
EXTENDS Integers, FiniteSets

CONSTANTS
    NENV,       \* environments, the shell's among them
    NPIPE,      \* pipes there is memory for
    NFD,        \* descriptors that fd_alloc hands out
    MAXARGS,    \* words a command may have
    BY2PIPE,    \* bytes a pipe holds
    MaxBytes,   \* bound on the bytes a program writes, or reads from console and files
    MaxTokens,  \* bound on the tokens of a line
    MaxLines,   \* bound on the lines
    Junk,       \* what the stack may hold as p[0] and p[1]
    FailTokens, \* bound on the tokens left when pipe() fails,
    FailPipes   \* and on the pipes in use

Main == 0
Nobody == 0                  \* rightpipe and child when there is nobody to wait for
Env == 0..(NENV - 1)
Fdnum == 0..(NFD - 1)

\* sh.c needs four descriptors for a pipe (fd.h has 32), everything else may be missing.
ASSUME SizeAssumption ==
    /\ NENV \in Nat \ {0} /\ NPIPE \in Nat /\ NFD \in Nat /\ NFD >= 4
    /\ Junk \subseteq Fdnum \X Fdnum
    /\ MAXARGS \in Nat /\ BY2PIPE \in Nat /\ MaxBytes \in Nat /\ MaxTokens \in Nat /\ MaxLines \in Nat

Closed == [dev |-> "none", end |-> "none", id |-> 0]
Cons == [dev |-> "cons", end |-> "none", id |-> 0]
File == [dev |-> "file", end |-> "none", id |-> 0]
PipeEnd(end, k) == [dev |-> "pipe", end |-> end, id |-> k]
AllClosed == [n \in Fdnum |-> Closed]

VARIABLES
    proc,       \* proc[e]: the process in slot e
    bytes,      \* bytes[k]: bytes in pipe k
    lines,      \* lines read so far
    abandoned   \* history: a command without words has left its right side behind

shell_vars == <<proc, bytes, lines, abandoned>>

\* A process: where it is, its descriptors, how many tokens are left of the line, argc,
\* p[0] and p[1] of parsecmd, the two it waits for, and as a program the bytes it may
\* still handle.  History: the pipe it made last,
\* streams, what 0 and 1 are to be according to the line, and unpiped, that a pipe() of
\* the line failed in it or before it was forked.
NoProc == [pc |-> "free", fds |-> AllClosed, tokens |-> 0, argc |-> 0, p0 |-> 0, p1 |-> 0,
           pipe |-> 0, rightpipe |-> Nobody, child |-> Nobody, left |-> 0,
           streams |-> <<Closed, Closed>>, unpiped |-> FALSE]

Live(e) == proc[e].pc # "free"
FreeEnvs == {e \in Env \ {Main} : ~Live(e)}
NewEnv == CHOOSE e \in FreeEnvs : \A f \in FreeEnvs : e <= f

HasEnd(end, k) == \E e \in Env, n \in Fdnum : proc[e].fds[n] = PipeEnd(end, k)
UnusedPipes == {k \in 1..NPIPE : ~HasEnd("rd", k) /\ ~HasEnd("wr", k)}

-------------------------------------------------------------------------------
(* The descriptor calls, on the descriptors of one process.                *)
fd_alloc(fds) == CHOOSE n \in Fdnum : fds[n] = Closed /\ \A m \in 0..(n - 1) : fds[m] # Closed
close(fds, n) == [fds EXCEPT ![n] = Closed]
open(fds, obj) == [fds EXCEPT ![fd_alloc(fds)] = obj]

\* Whether fd_alloc finds one.
HasFd(fds) == \E n \in Fdnum : fds[n] = Closed

\* Nothing if old is not open; new is closed before old is mapped there.
dup(fds, old, new) ==
    IF fds[old] = Closed THEN fds
    ELSE [fds EXCEPT ![new] = IF old = new THEN Closed ELSE fds[old]]

\* open, dup onto n, and close what open returned.
redirect(fds, obj, n) == close(dup(open(fds, obj), fd_alloc(fds), n), fd_alloc(fds))

-------------------------------------------------------------------------------
At(e, pc) == proc[e].pc = pc
Set(e, new) == proc' = [proc EXCEPT ![e] = new]
Goto(e, to) == Set(e, [proc[e] EXCEPT !.pc = to])

Init ==
    /\ proc = [e \in Env |-> IF e # Main THEN NoProc
                             ELSE [NoProc EXCEPT !.pc = "prompt", !.streams = <<Cons, Cons>>,
                                                 !.fds = [n \in Fdnum |-> IF n < 2 THEN Cons ELSE Closed]]]
    /\ bytes = [k \in 1..NPIPE |-> 0]
    /\ lines = 0 /\ abandoned = FALSE

\* cons_read, of a program or of the shell's readline: into sys_cgetc.
cons_read(e) ==
    /\ \/ At(e, "read") /\ proc[e].fds[0] = Cons
       \/ e = Main /\ At(e, "prompt")
    /\ Goto(e, "poll")
    /\ UNCHANGED <<bytes, lines, abandoned>>

\* The kernel waits for a character and runs nobody.
Polling == \E e \in Env : At(e, "poll")

\* readline: the user types a character of a line (or a comment), the end of a line, or
\* the end of the input.
type_line ==
    /\ At(Main, "poll")
    /\ \/ Goto(Main, "prompt") /\ UNCHANGED lines
       \/ Goto(Main, "fork") /\ lines < MaxLines /\ lines' = lines + 1
       \/ Goto(Main, "exit") /\ UNCHANGED lines
    /\ UNCHANGED <<bytes, abandoned>>

\* main: fork a process for the line, or panic.
fork_line ==
    /\ At(Main, "fork")
    /\ \/ Goto(Main, "exit")
       \/ /\ FreeEnvs # {}
          /\ proc' = [proc EXCEPT ![Main].pc = "wait", ![Main].child = NewEnv,
                          ![NewEnv] = [proc[Main] EXCEPT !.pc = "parse", !.tokens = MaxTokens]]
    /\ UNCHANGED <<bytes, lines, abandoned>>

\* main: wait(r).  The line is over; strays go on.
wait_line ==
    /\ At(Main, "wait") /\ proc[Main].child = Nobody
    /\ Goto(Main, "prompt")
    /\ UNCHANGED <<bytes, lines, abandoned>>

-------------------------------------------------------------------------------
(* parsecmd                                                                *)
Parsing(e) == At(e, "parse") /\ UNCHANGED <<bytes, lines, abandoned>>
\* The process after k more tokens.
After(e, k) == [proc[e] EXCEPT !.tokens = @ - k]

parse_end(e) == Parsing(e) /\ Set(e, [proc[e] EXCEPT !.pc = "spawn", !.tokens = 0])

\* A word, or too many of them.
parse_word(e) ==
    /\ Parsing(e) /\ proc[e].tokens >= 1
    /\ IF proc[e].argc >= MAXARGS THEN Set(e, [After(e, 1) EXCEPT !.pc = "exit"])
       ELSE Set(e, [After(e, 1) EXCEPT !.argc = @ + 1])

\* & ; ( and ) are tokens without a case.
parse_other(e) == Parsing(e) /\ proc[e].tokens >= 1 /\ Set(e, After(e, 1))

\* < or > and a word; no word, or a file that cannot be opened, ends the process.
parse_redirect(e, n) ==
    /\ Parsing(e)
    /\ \/ proc[e].tokens >= 1 /\ Set(e, [After(e, 1) EXCEPT !.pc = "exit"])
       \/ /\ proc[e].tokens >= 2 /\ HasFd(proc[e].fds)
          /\ Set(e, [After(e, 2) EXCEPT !.fds = redirect(@, File, n), !.streams[n + 1] = File])

\* | makes a pipe.  When it cannot, parsecmd does not notice and goes on with p[] as it
\* finds it on the stack: numbers of open descriptors, or others, such as 2 here.
parse_pipe(e) ==
    /\ At(e, "parse") /\ proc[e].tokens >= 1
    /\ \/ /\ UnusedPipes # {} /\ HasFd(proc[e].fds)
          /\ LET k == CHOOSE k \in UnusedPipes : \A j \in UnusedPipes : k <= j
                 fds == open(proc[e].fds, PipeEnd("rd", k))
             IN  /\ HasFd(fds)
                 /\ Set(e, [After(e, 1) EXCEPT !.pc = "fork_right", !.pipe = k,
                               !.p0 = fd_alloc(proc[e].fds), !.p1 = fd_alloc(fds),
                               !.fds = open(fds, PipeEnd("wr", k))])
                 /\ bytes' = [bytes EXCEPT ![k] = 0]
       \/ /\ proc[e].tokens <= FailTokens /\ Cardinality((1..NPIPE) \ UnusedPipes) <= FailPipes
          /\ \E p \in Junk :
                Set(e, [After(e, 1) EXCEPT !.pc = "fork_right", !.p0 = p[1], !.p1 = p[2],
                                           !.unpiped = TRUE])
          /\ UNCHANGED bytes
    /\ UNCHANGED <<lines, abandoned>>

\* The fork: without an environment or memory rightpipe is negative, which nobody notices.
fork_right(e) ==
    LET k == proc[e].pipe
        right == [proc[e] EXCEPT !.pc = "right", !.argc = 0, !.streams[1] = PipeEnd("rd", k)]
        left == [proc[e] EXCEPT !.pc = "left", !.tokens = 0, !.streams[2] = PipeEnd("wr", k)]
    IN
    /\ At(e, "fork_right")
    /\ \/ Set(e, left)
       \/ /\ FreeEnvs # {}
          /\ proc' = [proc EXCEPT ![e] = [left EXCEPT !.rightpipe = NewEnv], ![NewEnv] = right]
    /\ UNCHANGED <<bytes, lines, abandoned>>

\* One side: dup its end onto n, close it, close the other one.
TakeEnd(fds, mine, other, n) == close(close(dup(fds, mine, n), mine), other)

right_side(e) ==
    /\ At(e, "right")
    /\ Set(e, [proc[e] EXCEPT !.pc = "parse", !.p0 = 0, !.p1 = 0, !.pipe = 0,
                              !.fds = TakeEnd(@, proc[e].p0, proc[e].p1, 0)])
    /\ UNCHANGED <<bytes, lines, abandoned>>

\* Mutant: the left side keeps the read end open.
left_side_keeps(e) ==
    /\ At(e, "left")
    /\ Set(e, [proc[e] EXCEPT !.pc = "spawn", !.fds = close(dup(@, proc[e].p1, 1), proc[e].p1)])
    /\ UNCHANGED <<bytes, lines, abandoned>>

left_side(e) ==
    /\ At(e, "left")
    /\ Set(e, [proc[e] EXCEPT !.pc = "spawn", !.p0 = 0, !.p1 = 0, !.pipe = 0,
                              !.fds = TakeEnd(@, proc[e].p1, proc[e].p0, 1)])
    /\ UNCHANGED <<bytes, lines, abandoned>>

-------------------------------------------------------------------------------
(* runcmd                                                                  *)
\* No words: runcmd returns, and main's code ends the process.
run_nothing(e) ==
    /\ At(e, "spawn") /\ proc[e].argc = 0
    /\ Goto(e, "exit")
    /\ abandoned' = (abandoned \/ proc[e].rightpipe # Nobody)
    /\ UNCHANGED <<bytes, lines>>

\* spawn: the program gets the descriptors, or there is none (no such file, no
\* environment).  What an error after exofork returns is no living process either.
spawn(e) ==
    /\ At(e, "spawn") /\ proc[e].argc > 0
    /\ \/ /\ FreeEnvs # {}
          /\ \E pc \in {"read", "print"} :
                proc' = [proc EXCEPT ![e].pc = "close_all", ![e].child = NewEnv,
                    ![NewEnv] = [NoProc EXCEPT !.pc = pc, !.fds = proc[e].fds, !.left = MaxBytes,
                                               !.streams = proc[e].streams,
                                               !.unpiped = proc[e].unpiped]]
       \/ Goto(e, "close_all")
    /\ UNCHANGED <<bytes, lines, abandoned>>

\* Mutant: the process keeps its descriptors while it waits.
close_all_not(e) ==
    /\ At(e, "close_all")
    /\ Goto(e, "wait_child")
    /\ UNCHANGED <<bytes, lines, abandoned>>

close_all(e) ==
    /\ At(e, "close_all")
    /\ Set(e, [proc[e] EXCEPT !.pc = "wait_child", !.fds = AllClosed])
    /\ UNCHANGED <<bytes, lines, abandoned>>

\* Mutant: the process does not wait for the right side.
wait_both_not(e) ==
    /\ At(e, "wait_child") /\ proc[e].child = Nobody
    /\ Goto(e, "exit")
    /\ UNCHANGED <<bytes, lines, abandoned>>

wait_both(e) ==
    /\ At(e, "wait_child") /\ proc[e].child = Nobody /\ proc[e].rightpipe = Nobody
    /\ Goto(e, "exit")
    /\ UNCHANGED <<bytes, lines, abandoned>>

\* exit: close_all, then syscall_env_destroy(0).
exit_close(e) ==
    /\ At(e, "exit")
    /\ Set(e, [NoProc EXCEPT !.pc = "destroy"])
    /\ UNCHANGED <<bytes, lines, abandoned>>

Forget(p, e) == [p EXCEPT !.child = IF @ = e THEN Nobody ELSE @,
                          !.rightpipe = IF @ = e THEN Nobody ELSE @]

destroy(e) ==
    /\ At(e, "destroy")
    /\ proc' = [f \in Env |-> IF f = e THEN NoProc ELSE Forget(proc[f], e)]
    /\ UNCHANGED <<bytes, lines, abandoned>>

-------------------------------------------------------------------------------
(* The programs: cat copies 0 to 1, echo (or cat of a file) writes to 1.    *)
Used(p) == [p EXCEPT !.left = @ - 1]

\* read(0): a byte, or 0 at the end, or an error.  A pipe without a writer may end early.
read_byte(e) ==
    LET p == proc[e]
        in == p.fds[0]
    IN
    /\ At(e, "read")
    /\ \/ /\ in.dev = "file" /\ p.left > 0
          /\ Set(e, [Used(p) EXCEPT !.pc = "write"]) /\ UNCHANGED bytes
       \/ /\ in.end = "rd" /\ bytes[in.id] > 0
          /\ Set(e, [p EXCEPT !.pc = "write"])
          /\ bytes' = [bytes EXCEPT ![in.id] = @ - 1]
       \/ /\ in # Cons /\ (in.end = "rd" => ~HasEnd("wr", in.id))
          /\ Goto(e, "exit") /\ UNCHANGED bytes
    /\ UNCHANGED <<lines, abandoned>>

\* cat at the console: the user types a byte, or the end of the input.
type_byte(e) ==
    /\ e # Main /\ At(e, "poll")
    /\ \/ proc[e].left > 0 /\ Set(e, [Used(proc[e]) EXCEPT !.pc = "write"])
       \/ Goto(e, "exit")
    /\ UNCHANGED <<bytes, lines, abandoned>>

\* write(1) of one byte: into a pipe if it has room.  An error is a full pipe without a
\* reader, a full disk, no descriptor or one only for reading.
write(e, p, done, error) ==
    LET out == p.fds[1] IN
    /\ \/ /\ out.end = "wr" /\ bytes[out.id] < BY2PIPE
          /\ bytes' = [bytes EXCEPT ![out.id] = @ + 1]
          /\ Set(e, [p EXCEPT !.pc = done])
       \/ /\ out.dev \in {"cons", "file"}
          /\ Set(e, [p EXCEPT !.pc = done]) /\ UNCHANGED bytes
       \/ /\ out # Cons /\ (out.end = "wr" => bytes[out.id] = BY2PIPE /\ ~HasEnd("rd", out.id))
          /\ Set(e, [p EXCEPT !.pc = error]) /\ UNCHANGED bytes
    /\ UNCHANGED <<lines, abandoned>>

\* An error ends cat, while echo does not look.
write_byte(e) == At(e, "write") /\ write(e, proc[e], "read", "exit")

\* echo prints another byte, or ends.
print_byte(e) ==
    /\ At(e, "print")
    /\ \/ proc[e].left > 0 /\ write(e, Used(proc[e]), "print", "print")
       \/ Goto(e, "exit") /\ UNCHANGED <<bytes, lines, abandoned>>

-------------------------------------------------------------------------------
step(e) ==
    \/ parse_end(e) \/ parse_word(e) \/ parse_other(e) \/ parse_pipe(e)
    \/ \E n \in {0, 1} : parse_redirect(e, n)
    \/ fork_right(e) \/ right_side(e) \/ left_side(e)
    \/ run_nothing(e) \/ spawn(e) \/ close_all(e) \/ wait_both(e)
    \/ exit_close(e) \/ destroy(e)
    \/ cons_read(e) \/ read_byte(e) \/ print_byte(e) \/ write_byte(e)
    \/ e = Main /\ (fork_line \/ wait_line)

type == type_line \/ \E e \in Env : type_byte(e)
run == ~Polling /\ \E e \in Env : step(e)

Next == type \/ run

Spec == Init /\ [][Next]_shell_vars

\* Every process that is not blocked runs on (RunnableRuns of EnvSched) whenever the
\* kernel is not in sys_cgetc; the user need not type anything.
Fairness == \A e \in Env : WF_shell_vars(~Polling /\ step(e))
FairSpec == Spec /\ Fairness

-------------------------------------------------------------------------------
IsProgram(e) == e # Main /\ proc[e].pc \in {"read", "poll", "print", "write"}

\* A program has what the line says as 0 and 1 and no other descriptor, unless pipe()
\* failed in its line; in particular it holds no end of a pipe but its own, on which the
\* end of the others depends.
StreamsConnected ==
    \A e \in Env : IsProgram(e) /\ ~proc[e].unpiped =>
        proc[e].fds = [n \in Fdnum |-> IF n < 2 THEN proc[e].streams[n + 1] ELSE Closed]

\* The shell prompts, and waits in the kernel for a line, when no process of an earlier
\* line is left, unless a command without words left its right side behind.
PromptWhenDone ==
    proc[Main].pc \in {"prompt", "poll"} => abandoned \/ \A e \in Env \ {Main} : ~Live(e)

\* The shell comes back from every line, whatever its commands and however pipe, fork and
\* spawn fail: every pipeline ends, provided that the user answers every read of the
\* console by a character, and by the end of the input after at most MaxBytes of them.
LineEnds == []<>~Polling => (At(Main, "wait") ~> At(Main, "prompt"))
===============================================================================
