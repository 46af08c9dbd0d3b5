----------------------------- MODULE ShellProofs -----------------------------
(***************************************************************************)
(* For any number of environments, descriptors, pipes and tokens: a        *)
(* program of a command line has the streams the line asks for and no      *)
(* other descriptor unless pipe() failed in its line, and the shell        *)
(* prompts only when every process of the line is gone.                    *)
(*                                                                         *)
(* The first is a statement about one process at a time (ShapeOK).  The    *)
(* second is about all of them: every process but the shell has another    *)
(* one that waits for it (Attended).  The ranks exclude that they wait for *)
(* each other in a circle.                                                 *)
(***************************************************************************)
EXTENDS Shell, WellFoundedInduction, NaturalsInduction, TLAPS

Fd == [dev : {"none", "cons", "file", "pipe"}, end : {"none", "rd", "wr"}, id : Nat]

Places == {"free", "prompt", "fork", "wait", "exit", "destroy", "parse", "spawn", "fork_right",
           "right", "left", "close_all", "wait_child", "read", "poll", "print", "write"}

Process == [pc : Places, fds : [Fdnum -> Fd], tokens : Nat, argc : Nat, p0 : Fdnum, p1 : Fdnum,
            pipe : Nat, rightpipe : Env, child : Env, left : Nat,
            streams : [1..2 -> Fd], unpiped : BOOLEAN]

\* The descriptors of a process that has none beyond 3.
IsTable(f, a, b, c, d) ==
    /\ f \in [Fdnum -> Fd]
    /\ f[0] = a /\ f[1] = b /\ f[2] = c /\ f[3] = d
    /\ \A n \in Fdnum : n \notin {0, 1, 2, 3} => f[n] = Closed

Standard == {"prompt", "fork", "wait", "parse", "spawn", "close_all", "read", "poll", "print",
             "write"}

\* The descriptors at every place where they matter.  Between the pipe and the dup, 2 and
\* 3 are the ends of the pipe, because 0 and 1 are never free.
Shape(p) ==
    LET rd == PipeEnd("rd", p.pipe)
        wr == PipeEnd("wr", p.pipe)
        in == p.streams[1]
        out == p.streams[2]
    IN
    /\ p.pc \in Standard => in # Closed /\ out # Closed /\ IsTable(p.fds, in, out, Closed, Closed)
    /\ p.pc = "fork_right" => in # Closed /\ out # Closed /\ IsTable(p.fds, in, out, rd, wr)
    /\ p.pc = "right" => in = rd /\ out # Closed /\ \E a \in Fd : IsTable(p.fds, a, out, rd, wr)
    /\ p.pc = "left" => in # Closed /\ out = wr /\ \E b \in Fd : IsTable(p.fds, in, b, rd, wr)
    /\ p.pc \in {"fork_right", "right", "left"} => p.p0 = 2 /\ p.p1 = 3

ShapeOK(p) == p.unpiped \/ Shape(p)

\* Whom a process may be waiting for, by where it is.
RefsOK(p, gone) ==
    /\ p.pc \notin {"wait", "close_all", "wait_child"} => p.child = Nobody
    /\ p.pc \notin {"left", "spawn", "close_all", "wait_child", "exit"} => p.rightpipe = Nobody
    /\ p.pc = "exit" /\ p.rightpipe # Nobody => gone

ProcOK(p, gone) == p \in Process /\ ShapeOK(p) /\ RefsOK(p, gone)

Waits(f, e) == proc[f].child = e \/ proc[f].rightpipe = e

\* Somebody waits for every process but the shell, and nobody for himself.
Attended(d) ==
    \A e \in Env \ {Main} : Live(e) => \E f \in Env : Waits(f, e) /\ d[f] < d[e]

IInv ==
    /\ proc \in [Env -> Process]
    /\ abandoned \in BOOLEAN
    /\ \A e \in Env : ProcOK(proc[e], abandoned)
    /\ abandoned \/ \E d \in [Env -> Nat] : Attended(d)

-------------------------------------------------------------------------------
(* The descriptor calls.                                                   *)

\* A set of numbers has a least one.
LEMMA Least ==
    ASSUME NEW S \in SUBSET Nat, S # {}
    PROVE  \E m \in S : \A y \in S : m <= y
<1> DEFINE Less == {ss \in Nat \X Nat : ss[1] < ss[2]}
<1>1. IsWellFoundedOn(Less, Nat)
  BY NatLessThanWellFounded, Zenon DEF OpToRel
<1> HIDE DEF Less
<1>2. PICK m \in S : \A y \in S : ~(<<y, m>> \in Less)
  BY <1>1, WFMin
<1>3. \A y \in S : ~(y < m)
  BY <1>2 DEF Less
<1>4. \A y \in S : m <= y
  BY <1>3
<1> QED BY <1>4

\* Descriptors of different kinds differ.
LEMMA FdKinds ==
    /\ Closed \in Fd /\ Cons \in Fd /\ File \in Fd /\ Closed # Cons /\ Closed # File
    /\ \A k \in Nat : /\ PipeEnd("rd", k) \in Fd /\ PipeEnd("wr", k) \in Fd
                      /\ PipeEnd("rd", k) # Closed /\ PipeEnd("wr", k) # Closed
                      /\ PipeEnd("rd", k) # PipeEnd("wr", k)
BY DEF Fd, Closed, Cons, File, PipeEnd

\* There are descriptors 0 to 3.
LEMMA FdNumbers == 0 \in Fdnum /\ 1 \in Fdnum /\ 2 \in Fdnum /\ 3 \in Fdnum /\ Fdnum \subseteq Nat
BY SizeAssumption DEF Fdnum

\* Storing into one of the first four descriptors.
LEMMA TableStore ==
    ASSUME NEW a \in Fd, NEW b \in Fd, NEW c \in Fd, NEW d \in Fd, NEW x \in Fd,
           NEW f, IsTable(f, a, b, c, d)
    PROVE  /\ IsTable([f EXCEPT ![0] = x], x, b, c, d)
           /\ IsTable([f EXCEPT ![1] = x], a, x, c, d)
           /\ IsTable([f EXCEPT ![2] = x], a, b, x, d)
           /\ IsTable([f EXCEPT ![3] = x], a, b, c, x)
<1>1. 0 \in Fdnum /\ 1 \in Fdnum /\ 2 \in Fdnum /\ 3 \in Fdnum
  BY FdNumbers
<1> QED BY <1>1 DEF IsTable

\* fd_alloc returns the first closed descriptor.
LEMMA FdAlloc ==
    ASSUME NEW fds \in [Fdnum -> Fd], NEW k \in Fdnum, fds[k] = Closed,
           \A m \in 0..(k - 1) : fds[m] # Closed
    PROVE  fd_alloc(fds) = k
<1>1. \A n \in Fdnum : fds[n] = Closed /\ (\A m \in 0..(n - 1) : fds[m] # Closed) => n = k
  <2>1. SUFFICES ASSUME NEW n \in Fdnum, fds[n] = Closed, \A m \in 0..(n - 1) : fds[m] # Closed
                 PROVE  n = k
    OBVIOUS
  <2>2. n \in Nat /\ k \in Nat
    BY FdNumbers
  <2>3. ~(n < k) /\ ~(k < n)
    BY <2>1, <2>2
  <2> QED BY <2>2, <2>3
<1> QED BY <1>1 DEF fd_alloc

\* With 0 and 1 in use the next is 2, then 3.
LEMMA OpenTable ==
    ASSUME NEW a \in Fd, NEW b \in Fd, NEW c \in Fd, NEW d \in Fd, a # Closed, b # Closed,
           NEW f, IsTable(f, a, b, c, Closed)
    PROVE  /\ c = Closed => fd_alloc(f) = 2 /\ IsTable(open(f, d), a, b, d, Closed)
           /\ c # Closed => fd_alloc(f) = 3 /\ IsTable(open(f, d), a, b, c, d)
<1>1. f \in [Fdnum -> Fd] /\ f[0] = a /\ f[1] = b /\ f[2] = c /\ f[3] = Closed
  BY DEF IsTable
<1>2. /\ \A m \in 0..(2 - 1) : m = 0 \/ m = 1
      /\ \A m \in 0..(3 - 1) : m = 0 \/ m = 1 \/ m = 2
  OBVIOUS
<1>3. Closed \in Fd /\ 2 \in Fdnum /\ 3 \in Fdnum
  BY FdKinds, FdNumbers
<1>4. CASE c = Closed
  <2>1. fd_alloc(f) = 2
    BY <1>1, <1>2, <1>3, <1>4, FdAlloc
  <2>2. IsTable([f EXCEPT ![2] = d], a, b, d, Closed)
    BY <1>3, TableStore, Zenon
  <2> QED BY <1>4, <2>1, <2>2 DEF open
<1>5. CASE c # Closed
  <2>1. fd_alloc(f) = 3
    BY <1>1, <1>2, <1>3, <1>5, FdAlloc
  <2>2. IsTable([f EXCEPT ![3] = d], a, b, c, d)
    BY <1>3, TableStore, Zenon
  <2> QED BY <1>5, <2>1, <2>2 DEF open
<1> QED BY <1>4, <1>5

\* A redirection replaces 0 or 1 and leaves nothing else open.
LEMMA Redirected ==
    ASSUME NEW a \in Fd, NEW b \in Fd, NEW c \in Fd, a # Closed, b # Closed, c # Closed,
           NEW f, IsTable(f, a, b, Closed, Closed)
    PROVE  /\ IsTable(redirect(f, c, 0), c, b, Closed, Closed)
           /\ IsTable(redirect(f, c, 1), a, c, Closed, Closed)
<1>1. Closed \in Fd
  BY FdKinds
<1>2. PICK g : g = open(f, c)
  OBVIOUS
<1>3. fd_alloc(f) = 2 /\ IsTable(g, a, b, c, Closed) /\ g[2] = c
  BY <1>1, <1>2, OpenTable DEF IsTable
<1>4. IsTable([g EXCEPT ![0] = c], c, b, c, Closed) /\ IsTable([g EXCEPT ![1] = c], a, c, c, Closed)
  BY <1>1, <1>3, TableStore, Zenon
<1>5. PICK g0, g1 : g0 = [g EXCEPT ![0] = c] /\ g1 = [g EXCEPT ![1] = c]
  OBVIOUS
<1>6. /\ IsTable([g0 EXCEPT ![2] = Closed], c, b, Closed, Closed)
      /\ IsTable([g1 EXCEPT ![2] = Closed], a, c, Closed, Closed)
  <2>1. IsTable(g0, c, b, c, Closed) /\ IsTable(g1, a, c, c, Closed)
    BY <1>4, <1>5
  <2> QED BY <1>1, <2>1, TableStore, Zenon
<1>7. dup(g, 2, 0) = g0 /\ dup(g, 2, 1) = g1
  BY <1>3, <1>5 DEF dup
<1> QED BY <1>2, <1>3, <1>6, <1>7 DEF redirect, close

\* fd_alloc finds a descriptor where there is one.
LEMMA FdAllocIn ==
    ASSUME NEW fds \in [Fdnum -> Fd], HasFd(fds)
    PROVE  fd_alloc(fds) \in Fdnum
<1>1. PICK S : S = {n \in Fdnum : fds[n] = Closed}
  OBVIOUS
<1>2. S \in SUBSET Nat /\ S # {}
  BY <1>1, FdNumbers DEF HasFd
<1>3. PICK k \in S : \A y \in S : k <= y
  BY <1>2, Least
<1>4. \A m \in 0..(k - 1) : m \in Fdnum /\ m \notin S
  BY <1>1, <1>2, <1>3, SizeAssumption DEF Fdnum
<1>5. k \in Fdnum /\ fds[k] = Closed /\ \A m \in 0..(k - 1) : fds[m] # Closed
  BY <1>1, <1>4
<1> QED BY <1>5, FdAlloc

\* Whatever descriptors are given, the calls return a table.
LEMMA TakeEndType ==
    ASSUME NEW fds \in [Fdnum -> Fd], NEW mine \in Fdnum, NEW other \in Fdnum, NEW n \in {0, 1}
    PROVE  TakeEnd(fds, mine, other, n) \in [Fdnum -> Fd]
<1>1. Closed \in Fd /\ fds[mine] \in Fd
  BY FdKinds
<1>2. PICK g : g = dup(fds, mine, n)
  OBVIOUS
<1>3. g \in [Fdnum -> Fd]
  BY <1>1, <1>2 DEF dup
<1> QED BY <1>1, <1>2, <1>3 DEF TakeEnd, close

LEMMA RedirectType ==
    ASSUME NEW fds \in [Fdnum -> Fd], HasFd(fds), NEW n \in {0, 1}
    PROVE  redirect(fds, File, n) \in [Fdnum -> Fd]
<1>1. Closed \in Fd /\ File \in Fd
  BY FdKinds
<1>2. PICK k \in Fdnum : k = fd_alloc(fds)
  BY FdAllocIn
<1>3. PICK g : g = open(fds, File)
  OBVIOUS
<1>4. g \in [Fdnum -> Fd]
  BY <1>1, <1>3 DEF open
<1>5. PICK h : h = dup(g, k, n)
  OBVIOUS
<1>6. h \in [Fdnum -> Fd]
  BY <1>1, <1>2, <1>4, <1>5 DEF dup
<1>7. close(h, k) \in [Fdnum -> Fd]
  BY <1>1, <1>6 DEF close
<1> QED BY <1>2, <1>3, <1>5, <1>7 DEF redirect

\* Each side of a pipe keeps its end, as 0 or as 1, and nothing else of it.
LEMMA EndsTaken ==
    ASSUME NEW a \in Fd, NEW b \in Fd, NEW k \in Nat, NEW rd, NEW wr, NEW f,
           rd = PipeEnd("rd", k), wr = PipeEnd("wr", k), IsTable(f, a, b, rd, wr)
    PROVE  /\ IsTable(TakeEnd(f, 2, 3, 0), rd, b, Closed, Closed)
           /\ IsTable(TakeEnd(f, 3, 2, 1), a, wr, Closed, Closed)
<1>1. f[2] = rd /\ f[3] = wr
  BY DEF IsTable
<1>2. rd \in Fd /\ wr \in Fd /\ Closed \in Fd /\ rd # Closed /\ wr # Closed
  BY FdKinds
<1>3. PICK f0, f1 : f0 = [f EXCEPT ![0] = rd] /\ f1 = [f EXCEPT ![1] = wr]
  OBVIOUS
<1>4. IsTable(f0, rd, b, rd, wr) /\ IsTable(f1, a, wr, rd, wr)
  BY <1>2, <1>3, TableStore, Zenon
<1>5. PICK g0, g1 : g0 = [f0 EXCEPT ![2] = Closed] /\ g1 = [f1 EXCEPT ![3] = Closed]
  OBVIOUS
<1>6. IsTable(g0, rd, b, Closed, wr) /\ IsTable(g1, a, wr, rd, Closed)
  BY <1>2, <1>4, <1>5, TableStore, Zenon
<1>7. /\ IsTable([g0 EXCEPT ![3] = Closed], rd, b, Closed, Closed)
      /\ IsTable([g1 EXCEPT ![2] = Closed], a, wr, Closed, Closed)
  BY <1>2, <1>6, TableStore, Zenon
<1>8. dup(f, 2, 0) = f0 /\ dup(f, 3, 1) = f1
  BY <1>1, <1>2, <1>3 DEF dup
<1> QED BY <1>5, <1>7, <1>8 DEF TakeEnd, close

-------------------------------------------------------------------------------
(* One process at a time.                                                  *)

\* The environment that exofork takes.
LEMMA NewEnvFree ==
    ASSUME FreeEnvs # {}
    PROVE  NewEnv \in Env /\ NewEnv # Main /\ ~Live(NewEnv)
<1>1. FreeEnvs \in SUBSET Nat
  BY SizeAssumption DEF FreeEnvs, Env
<1>2. \E m \in FreeEnvs : \A y \in FreeEnvs : m <= y
  BY <1>1, Least
<1>3. NewEnv \in FreeEnvs
  BY <1>2 DEF NewEnv
<1> QED BY <1>3 DEF FreeEnvs

\* The empty slot.
LEMMA NoProcOK ==
    /\ NoProc \in Process /\ NoProc.pc = "free" /\ NoProc.child = Nobody
    /\ NoProc.rightpipe = Nobody
    /\ \A gone \in BOOLEAN : ProcOK(NoProc, gone)
<1>1. AllClosed \in [Fdnum -> Fd]
  BY FdKinds DEF AllClosed
<1>2. <<Closed, Closed>> \in [1..2 -> Fd]
  BY FdKinds
<1>3. Nobody \in Env
  BY SizeAssumption DEF Nobody, Env
<1>4. NoProc \in Process
  BY <1>1, <1>2, <1>3, FdNumbers DEF NoProc, Process, Places
<1>5. NoProc.pc = "free" /\ NoProc.child = Nobody /\ NoProc.rightpipe = Nobody
  BY DEF NoProc
<1>6. \A gone \in BOOLEAN : ShapeOK(NoProc) /\ RefsOK(NoProc, gone)
  BY <1>5 DEF ShapeOK, Shape, RefsOK, Standard
<1> QED BY <1>4, <1>5, <1>6 DEF ProcOK

\* q is p as far as ShapeOK and the waiting go.
Alike(q, p) ==
    /\ q \in Process /\ q.fds = p.fds /\ q.streams = p.streams /\ q.pipe = p.pipe
    /\ q.unpiped = p.unpiped /\ q.child = p.child /\ q.rightpipe = p.rightpipe

\* A process that only moves on.
LEMMA GotoAlike ==
    ASSUME NEW p \in Process, NEW to \in Places
    PROVE  Alike([p EXCEPT !.pc = to], p) /\ [p EXCEPT !.pc = to].pc = to
BY DEF Process, Alike

\* Forgetting a process that is gone.
LEMMA ForgetKeeps ==
    ASSUME NEW p \in Process, NEW e \in Env
    PROVE  /\ Forget(p, e) \in Process
           /\ Forget(p, e).pc = p.pc /\ Forget(p, e).fds = p.fds
           /\ Forget(p, e).streams = p.streams /\ Forget(p, e).pipe = p.pipe
           /\ Forget(p, e).p0 = p.p0 /\ Forget(p, e).p1 = p.p1
           /\ Forget(p, e).unpiped = p.unpiped
           /\ Forget(p, e).child = IF p.child = e THEN Nobody ELSE p.child
           /\ Forget(p, e).rightpipe = IF p.rightpipe = e THEN Nobody ELSE p.rightpipe
<1>1. Nobody \in Env
  BY SizeAssumption DEF Nobody, Env
<1> QED BY <1>1 DEF Forget, Process

-------------------------------------------------------------------------------
(* What a step does to the family of processes.                            *)

\* A process moves on and waits for the same ones.
LEMMA QuietStep ==
    ASSUME IInv, NEW e \in Env, NEW q, Live(e), ProcOK(q, abandoned'),
           q.child = proc[e].child, q.rightpipe = proc[e].rightpipe,
           abandoned' \in BOOLEAN, abandoned => abandoned',
           proc' = [proc EXCEPT ![e] = q]
    PROVE  IInv'
<1>1. q \in Process /\ proc \in [Env -> Process] /\ abandoned \in BOOLEAN
  BY DEF ProcOK, IInv
<1>2. proc' \in [Env -> Process] /\ proc'[e] = q /\ \A f \in Env \ {e} : proc'[f] = proc[f]
  BY <1>1
<1>3. \A f \in Env : ProcOK(proc'[f], abandoned')
  BY <1>2 DEF IInv, ProcOK, RefsOK
<1>4. \A f, g \in Env : Waits(f, g) => Waits(f, g)'
  BY <1>2 DEF Waits
<1>5. \A f \in Env : Live(f)' => Live(f)
  BY <1>2 DEF Live
<1>6. \A d \in [Env -> Nat] : Attended(d) => Attended(d)'
  BY <1>4, <1>5 DEF Attended
<1>7. abandoned' \/ \E d \in [Env -> Nat] : Attended(d)'
  BY <1>6 DEF IInv
<1> QED BY <1>2, <1>3, <1>7 DEF IInv

\* A process starts another one and waits for it.
LEMMA NewStep ==
    ASSUME IInv, NEW e \in Env, NEW q, NEW r, Live(e), FreeEnvs # {},
           ProcOK(q, abandoned), ProcOK(r, abandoned),
           q.child = NewEnv \/ q.rightpipe = NewEnv,
           q.child = proc[e].child \/ proc[e].child = Nobody,
           q.rightpipe = proc[e].rightpipe \/ proc[e].rightpipe = Nobody,
           abandoned' = abandoned,
           proc' = [proc EXCEPT ![e] = q, ![NewEnv] = r]
    PROVE  IInv'
<1>1. q \in Process /\ r \in Process /\ proc \in [Env -> Process] /\ abandoned \in BOOLEAN
  BY DEF ProcOK, IInv
<1>2. PICK n : n = NewEnv
  OBVIOUS
<1>3. n \in Env /\ n # Main /\ ~Live(n) /\ n # e
  BY <1>2, NewEnvFree
<1>4. /\ proc' \in [Env -> Process] /\ proc'[e] = q /\ proc'[n] = r
      /\ \A f \in Env \ {e, n} : proc'[f] = proc[f]
  BY <1>1, <1>2, <1>3
<1>5. \A f \in Env : ProcOK(proc'[f], abandoned')
  <2>1. \A f \in Env : ProcOK(proc[f], abandoned)
    BY DEF IInv
  <2> QED BY <1>4, <2>1
<1>6. \A g \in Env \ {Main} : ~Waits(n, g)
  <2>1. proc[n].child = Nobody /\ proc[n].rightpipe = Nobody
    BY <1>3 DEF IInv, ProcOK, RefsOK, Live
  <2> QED BY <2>1 DEF Waits, Main, Nobody
<1>7. \A f \in Env, g \in Env \ {Main} : Waits(f, g) => f # n /\ Waits(f, g)'
  BY <1>4, <1>6 DEF Waits, Main, Nobody
<1>8. Waits(e, n)'
  BY <1>2, <1>4 DEF Waits
<1>9. \A f \in Env : Live(f)' => Live(f) \/ f = n
  BY <1>4 DEF Live
<1>10. ASSUME NEW d \in [Env -> Nat], Attended(d)
       PROVE  \E c \in [Env -> Nat] : Attended(c)'
  <2>1. PICK c : c = [d EXCEPT ![n] = d[e] + 1]
    OBVIOUS
  <2>2. c \in [Env -> Nat] /\ c[n] = d[e] + 1 /\ \A f \in Env \ {n} : c[f] = d[f]
    BY <1>3, <2>1
  <2>3. d[e] < c[n] /\ c[e] = d[e]
    BY <1>3, <2>2
  <2>4. ASSUME NEW g \in Env \ {Main}, Live(g)'
        PROVE  \E f \in Env : Waits(f, g)' /\ c[f] < c[g]
    <3>1. CASE g = n
      BY <1>8, <2>3, <3>1
    <3>2. CASE g # n
      <4>1. Live(g)
        BY <1>9, <2>4, <3>2
      <4>2. PICK f \in Env : Waits(f, g) /\ d[f] < d[g]
        BY <1>10, <4>1 DEF Attended
      <4>3. f # n /\ Waits(f, g)'
        BY <1>7, <4>2
      <4>4. c[f] = d[f] /\ c[g] = d[g]
        BY <2>2, <3>2, <4>3
      <4> QED BY <4>2, <4>3, <4>4
    <3> QED BY <3>1, <3>2
  <2>5. Attended(c)'
    BY <2>4 DEF Attended
  <2> QED BY <2>2, <2>5
<1>11. abandoned' \/ \E d \in [Env -> Nat] : Attended(d)'
  BY <1>10 DEF IInv
<1> QED BY <1>1, <1>4, <1>5, <1>11 DEF IInv

\* Whom a process at the place to may wait for, if it waits for those e waits for.
MayWaitAt(e, to, gone) ==
    /\ to \notin {"wait", "close_all", "wait_child"} => proc[e].child = Nobody
    /\ to \notin {"left", "spawn", "close_all", "wait_child", "exit"} => proc[e].rightpipe = Nobody
    /\ to = "exit" /\ proc[e].rightpipe # Nobody => gone

\* A process moves on with the descriptors it has.
LEMMA AlikeStep ==
    ASSUME IInv, NEW e \in Env, NEW q, Live(e), Alike(q, proc[e]),
           q.pc \in Standard => proc[e].pc \in Standard,
           q.pc \notin {"fork_right", "right", "left"},
           MayWaitAt(e, q.pc, abandoned'),
           abandoned' \in BOOLEAN, abandoned => abandoned',
           proc' = [proc EXCEPT ![e] = q]
    PROVE  IInv'
<1>1. ShapeOK(proc[e])
  BY DEF IInv, ProcOK
<1>2. ShapeOK(q)
  BY <1>1 DEF ShapeOK, Shape, Alike
<1>3. RefsOK(q, abandoned')
  BY DEF RefsOK, Alike, MayWaitAt
<1>4. ProcOK(q, abandoned') /\ q.child = proc[e].child /\ q.rightpipe = proc[e].rightpipe
  BY <1>2, <1>3 DEF ProcOK, Alike
<1> QED BY <1>4, QuietStep

\* The same, for a change of place only.
LEMMA GotoStep ==
    ASSUME IInv, NEW e \in Env, Live(e), NEW to \in Places, Goto(e, to),
           to \in Standard => proc[e].pc \in Standard,
           to \notin {"fork_right", "right", "left"},
           MayWaitAt(e, to, abandoned'),
           abandoned' \in BOOLEAN, abandoned => abandoned'
    PROVE  IInv'
<1>1. proc[e] \in Process
  BY DEF IInv
<1>2. PICK q : q = [proc[e] EXCEPT !.pc = to]
  OBVIOUS
<1>3. Alike(q, proc[e]) /\ q.pc = to
  BY <1>1, <1>2, GotoAlike
<1>4. proc' = [proc EXCEPT ![e] = q]
  BY <1>2 DEF Goto, Set
<1> QED BY <1>3, <1>4, AlikeStep

\* What the invariant says of one process.
LEMMA OneProcess ==
    ASSUME IInv, NEW e \in Env
    PROVE  /\ proc[e] \in Process /\ proc[e].pc \in Places /\ abandoned \in BOOLEAN
           /\ proc[e].streams \in [1..2 -> Fd] /\ proc[e].pipe \in Nat
           /\ ShapeOK(proc[e]) /\ RefsOK(proc[e], abandoned)
<1>1. proc[e] \in Process /\ abandoned \in BOOLEAN /\ ShapeOK(proc[e]) /\ RefsOK(proc[e], abandoned)
  BY DEF IInv, ProcOK
<1> QED BY <1>1 DEF Process

\* A place where the process waits for nobody may lead to any.
LEMMA NobodyAwaited ==
    ASSUME IInv, NEW e \in Env, NEW to, NEW gone,
           proc[e].pc \in {"prompt", "fork", "parse", "fork_right", "right", "read", "poll", "print", "write"}
    PROVE  MayWaitAt(e, to, gone) /\ Live(e)
<1>1. RefsOK(proc[e], abandoned)
  BY OneProcess
<1>2. proc[e].child = Nobody /\ proc[e].rightpipe = Nobody
  BY <1>1 DEF RefsOK
<1> QED BY <1>2 DEF MayWaitAt, Live

-------------------------------------------------------------------------------
(* main                                                                    *)

\* The shell begins with the console and alone.
LEMMA InitIInv == Init => IInv
<1> SUFFICES ASSUME Init PROVE IInv
  OBVIOUS
<1>1. PICK fds : fds = [n \in Fdnum |-> IF n < 2 THEN Cons ELSE Closed]
  OBVIOUS
<1>2. IsTable(fds, Cons, Cons, Closed, Closed)
  BY <1>1, FdKinds, FdNumbers DEF IsTable
<1>3. PICK st : st = <<Cons, Cons>>
  OBVIOUS
<1>4. st \in [1..2 -> Fd] /\ st[1] = Cons /\ st[2] = Cons
  BY <1>3, FdKinds
<1>5. PICK p : p = [NoProc EXCEPT !.pc = "prompt", !.streams = st, !.fds = fds]
  OBVIOUS
<1>6. p \in Process /\ p.pc = "prompt" /\ p.streams = st /\ p.fds = fds
      /\ p.child = NoProc.child /\ p.rightpipe = NoProc.rightpipe
  <2>1. fds \in [Fdnum -> Fd]
    BY <1>2 DEF IsTable
  <2> QED BY <1>4, <1>5, <2>1, NoProcOK DEF Process, Places
<1>7. ProcOK(p, FALSE)
  <2>1. ShapeOK(p)
    BY <1>2, <1>4, <1>6, FdKinds DEF ShapeOK, Shape, Standard
  <2>2. RefsOK(p, FALSE)
    BY <1>6, NoProcOK DEF RefsOK
  <2> QED BY <1>6, <2>1, <2>2 DEF ProcOK
<1>8. proc = [e \in Env |-> IF e # Main THEN NoProc ELSE p] /\ abandoned = FALSE
  BY <1>1, <1>3, <1>5 DEF Init
<1>9. proc \in [Env -> Process] /\ \A e \in Env : ProcOK(proc[e], abandoned)
  BY <1>6, <1>7, <1>8, NoProcOK
<1>10. \A e \in Env \ {Main} : ~Live(e)
  BY <1>8, NoProcOK DEF Live
<1>11. [e \in Env |-> 0] \in [Env -> Nat] /\ Attended([e \in Env |-> 0])
  BY <1>10 DEF Attended
<1> QED BY <1>8, <1>9, <1>11 DEF IInv

\* The shell has a place.
LEMMA MainInEnv == Main \in Env
BY SizeAssumption DEF Main, Env

\* The kernel waits for a character: the process has not moved.
LEMMA ConsReadIInv == ASSUME IInv, NEW e \in Env, cons_read(e) PROVE IInv'
<1>1. /\ proc[e].pc \in {"read", "prompt"} /\ abandoned' = abandoned /\ Goto(e, "poll")
      /\ abandoned \in BOOLEAN
  BY OneProcess DEF cons_read, At
<1>2. MayWaitAt(e, "poll", abandoned') /\ Live(e)
  BY <1>1, NobodyAwaited
<1> QED BY <1>1, <1>2, GotoStep DEF Places, Standard

\* readline and its outcomes.
LEMMA TypeLineIInv == ASSUME IInv, type_line PROVE IInv'
<1>1. proc[Main].pc = "poll" /\ abandoned' = abandoned /\ abandoned \in BOOLEAN
  BY MainInEnv, OneProcess DEF type_line, At
<1>2. \A to : MayWaitAt(Main, to, abandoned') /\ Live(Main)
  BY <1>1, MainInEnv, NobodyAwaited
<1>3. PICK to \in {"prompt", "fork", "exit"} : Goto(Main, to)
  BY DEF type_line
<1> QED BY <1>1, <1>2, <1>3, MainInEnv, GotoStep DEF Places, Standard

\* fork for the line: the new process has the shell's descriptors.
LEMMA ForkLineIInv == ASSUME IInv, fork_line PROVE IInv'
<1>1. proc[Main].pc = "fork" /\ abandoned' = abandoned
  BY DEF fork_line, At
<1>2. \A to : MayWaitAt(Main, to, abandoned') /\ Live(Main)
  BY <1>1, MainInEnv, NobodyAwaited
<1>3. /\ proc[Main] \in Process /\ ShapeOK(proc[Main]) /\ RefsOK(proc[Main], abandoned)
      /\ abandoned \in BOOLEAN
  BY MainInEnv, OneProcess
<1>4. CASE Goto(Main, "exit")
  BY <1>1, <1>2, <1>3, <1>4, MainInEnv, GotoStep DEF Places, Standard
<1>5. CASE /\ FreeEnvs # {}
           /\ proc' = [proc EXCEPT ![Main].pc = "wait", ![Main].child = NewEnv,
                          ![NewEnv] = [proc[Main] EXCEPT !.pc = "parse", !.tokens = MaxTokens]]
  <2>1. NewEnv \in Env /\ NewEnv # Main
    BY <1>5, NewEnvFree
  <2>2. PICK q, r : /\ q = [proc[Main] EXCEPT !.pc = "wait", !.child = NewEnv]
                    /\ r = [proc[Main] EXCEPT !.pc = "parse", !.tokens = MaxTokens]
    OBVIOUS
  <2>3. /\ q \in Process /\ q.pc = "wait" /\ q.child = NewEnv
        /\ q.rightpipe = proc[Main].rightpipe /\ q.fds = proc[Main].fds
        /\ q.streams = proc[Main].streams /\ q.pipe = proc[Main].pipe
        /\ q.unpiped = proc[Main].unpiped
    BY <1>3, <2>1, <2>2 DEF Process, Places
  <2>4. Alike(r, proc[Main]) /\ r.pc = "parse"
    BY <1>3, <2>2, SizeAssumption DEF Alike, Process, Places
  <2>5. proc[Main].child = Nobody /\ proc[Main].rightpipe = Nobody
    BY <1>1, <1>3 DEF RefsOK
  <2>6. ProcOK(q, abandoned)
    BY <1>1, <1>3, <2>3, <2>5 DEF ProcOK, ShapeOK, Shape, RefsOK, Standard
  <2>7. ProcOK(r, abandoned)
    BY <1>1, <1>3, <2>4, <2>5 DEF ProcOK, ShapeOK, Shape, RefsOK, Standard, Alike
  <2>8. proc' = [proc EXCEPT ![Main] = q, ![NewEnv] = r]
    <3>1. proc \in [Env -> Process]
      BY DEF IInv
    <3> QED BY <1>5, <2>1, <2>2, <3>1, MainInEnv
  <2> QED BY <1>1, <1>2, <1>5, <2>3, <2>5, <2>6, <2>7, <2>8, MainInEnv, NewStep
<1> QED BY <1>4, <1>5 DEF fork_line

\* wait returns.
LEMMA WaitLineIInv == ASSUME IInv, wait_line PROVE IInv'
<1>1. /\ proc[Main].pc = "wait" /\ abandoned' = abandoned /\ Goto(Main, "prompt")
      /\ proc[Main].child = Nobody
  BY DEF wait_line, At
<1>2. RefsOK(proc[Main], abandoned) /\ abandoned \in BOOLEAN
  BY MainInEnv, OneProcess
<1>3. MayWaitAt(Main, "prompt", abandoned') /\ Live(Main)
  BY <1>1, <1>2 DEF RefsOK, MayWaitAt, Live
<1> QED BY <1>1, <1>2, <1>3, MainInEnv, GotoStep DEF Places, Standard

-------------------------------------------------------------------------------
(* parsecmd                                                                *)

\* Tokens that leave the descriptors alone.
LEMMA ParseIInv ==
    ASSUME IInv, NEW e \in Env, parse_end(e) \/ parse_word(e) \/ parse_other(e)
    PROVE  IInv'
<1>1. proc[e].pc = "parse" /\ abandoned' = abandoned
  BY DEF parse_end, parse_word, parse_other, Parsing, At
<1>2. \A to : MayWaitAt(e, to, abandoned') /\ Live(e)
  BY <1>1, NobodyAwaited
<1>3. proc[e] \in Process /\ abandoned \in BOOLEAN
  BY OneProcess
<1>4. PICK q : /\ proc' = [proc EXCEPT ![e] = q]
               /\ Alike(q, proc[e]) /\ q.pc \in {"spawn", "exit", "parse"}
  <2>1. CASE parse_end(e)
    <3>1. PICK q : q = [proc[e] EXCEPT !.pc = "spawn", !.tokens = 0]
      OBVIOUS
    <3>2. Alike(q, proc[e]) /\ q.pc = "spawn"
      BY <1>3, <3>1 DEF Alike, Process, Places
    <3> QED BY <2>1, <3>1, <3>2 DEF parse_end, Set
  <2>2. CASE parse_word(e) \/ parse_other(e)
    <3>1. proc[e].tokens - 1 \in Nat /\ proc[e].argc + 1 \in Nat
      BY <1>3, <2>2 DEF parse_word, parse_other, Process
    <3>2. PICK p : p = After(e, 1)
      OBVIOUS
    <3>3. Alike(p, proc[e]) /\ p.pc = proc[e].pc /\ p.argc = proc[e].argc
      BY <1>3, <3>1, <3>2 DEF After, Alike, Process
    <3>4. PICK r, t : r = [p EXCEPT !.pc = "exit"] /\ t = [p EXCEPT !.argc = @ + 1]
      OBVIOUS
    <3>5. Alike(r, proc[e]) /\ r.pc = "exit"
      BY <3>3, <3>4 DEF Alike, Process, Places
    <3>6. Alike(t, proc[e]) /\ t.pc = p.pc
      BY <3>1, <3>3, <3>4 DEF Alike, Process
    <3>7. Set(e, p) \/ Set(e, r) \/ Set(e, t)
      BY <2>2, <3>2, <3>4 DEF parse_word, parse_other
    <3> QED BY <1>1, <3>3, <3>5, <3>6, <3>7 DEF Set
  <2> QED BY <2>1, <2>2
<1> QED BY <1>1, <1>2, <1>3, <1>4, AlikeStep DEF Standard

\* < and >: the file becomes 0 or 1 and nothing else stays open.
LEMMA RedirectIInv ==
    ASSUME IInv, NEW e \in Env, NEW n \in {0, 1}, parse_redirect(e, n)
    PROVE  IInv'
<1>1. proc[e].pc = "parse" /\ abandoned' = abandoned
  BY DEF parse_redirect, Parsing, At
<1>2. \A to : MayWaitAt(e, to, abandoned') /\ Live(e)
  BY <1>1, NobodyAwaited
<1>3. /\ proc[e] \in Process /\ abandoned \in BOOLEAN /\ proc[e].streams \in [1..2 -> Fd]
      /\ ShapeOK(proc[e]) /\ RefsOK(proc[e], abandoned)
  BY OneProcess
<1>4. CASE proc[e].tokens >= 1 /\ Set(e, [After(e, 1) EXCEPT !.pc = "exit"])
  <2>1. PICK q : q = [After(e, 1) EXCEPT !.pc = "exit"]
    OBVIOUS
  <2>2. proc[e].tokens - 1 \in Nat
    BY <1>3, <1>4 DEF Process
  <2>3. Alike(After(e, 1), proc[e])
    BY <1>3, <2>2 DEF After, Alike, Process
  <2>4. Alike(q, proc[e]) /\ q.pc = "exit"
    BY <2>1, <2>3 DEF Alike, Process, Places
  <2>5. proc' = [proc EXCEPT ![e] = q]
    BY <1>4, <2>1 DEF Set
  <2> QED BY <1>1, <1>2, <1>3, <2>4, <2>5, AlikeStep DEF Standard
<1>5. CASE /\ proc[e].tokens >= 2 /\ HasFd(proc[e].fds)
           /\ Set(e, [After(e, 2) EXCEPT !.fds = redirect(@, File, n), !.streams[n + 1] = File])
  <2>1. PICK p, fds, st :
           /\ p = After(e, 2) /\ fds = redirect(p.fds, File, n)
           /\ st = [p.streams EXCEPT ![n + 1] = File]
    OBVIOUS
  <2>2. proc[e].tokens - 2 \in Nat
    BY <1>3, <1>5 DEF Process
  <2>3. Alike(p, proc[e]) /\ p.pc = "parse"
    BY <1>1, <1>3, <2>1, <2>2 DEF After, Alike, Process
  <2>4. fds \in [Fdnum -> Fd] /\ st \in [1..2 -> Fd]
    <3>1. p.fds \in [Fdnum -> Fd] /\ HasFd(p.fds) /\ p.streams \in [1..2 -> Fd]
      BY <1>3, <1>5, <2>3 DEF Alike, Process
    <3>2. fds \in [Fdnum -> Fd]
      BY <2>1, <3>1, RedirectType
    <3> QED BY <2>1, <3>1, <3>2, FdKinds
  <2>5. ~proc[e].unpiped => /\ st[1] # Closed /\ st[2] # Closed
                            /\ IsTable(fds, st[1], st[2], Closed, Closed)
    <3> SUFFICES ASSUME ~proc[e].unpiped
                 PROVE  st[1] # Closed /\ st[2] # Closed /\ IsTable(fds, st[1], st[2], Closed, Closed)
      OBVIOUS
    <3>1. PICK a \in Fd, b \in Fd : a = proc[e].streams[1] /\ b = proc[e].streams[2]
      BY <1>3
    <3>2. a # Closed /\ b # Closed /\ IsTable(p.fds, a, b, Closed, Closed)
      BY <1>1, <1>3, <2>3, <3>1 DEF ShapeOK, Shape, Standard, Alike
    <3>3. File \in Fd /\ File # Closed
      BY FdKinds
    <3>4. /\ IsTable(redirect(p.fds, File, 0), File, b, Closed, Closed)
          /\ IsTable(redirect(p.fds, File, 1), a, File, Closed, Closed)
      BY <3>2, <3>3, Redirected, Zenon
    <3>5. p.streams \in [1..2 -> Fd] /\ p.streams[1] = a /\ p.streams[2] = b
      BY <1>3, <2>3, <3>1 DEF Alike
    <3>6. CASE n = 0
      <4>1. st[1] = File /\ st[2] = b
        BY <2>1, <3>3, <3>5, <3>6
      <4> QED BY <2>1, <3>2, <3>3, <3>4, <3>6, <4>1
    <3>7. CASE n = 1
      <4>1. st[1] = a /\ st[2] = File
        BY <2>1, <3>3, <3>5, <3>7
      <4> QED BY <2>1, <3>2, <3>3, <3>4, <3>7, <4>1
    <3> QED BY <3>6, <3>7
  <2>9. PICK q : q = [p EXCEPT !.fds = fds, !.streams = st]
    OBVIOUS
  <2>10. /\ q \in Process /\ q.pc = "parse" /\ q.fds = fds /\ q.streams = st
         /\ q.unpiped = proc[e].unpiped
         /\ q.child = proc[e].child /\ q.rightpipe = proc[e].rightpipe
    BY <2>3, <2>4, <2>9 DEF Alike, Process
  <2>11. proc' = [proc EXCEPT ![e] = q]
    <3>1. q = [After(e, 2) EXCEPT !.fds = redirect(@, File, n), !.streams[n + 1] = File]
      BY <2>1, <2>3, <2>9 DEF Alike, Process
    <3> QED BY <1>5, <3>1 DEF Set
  <2>12. ProcOK(q, abandoned')
    <3>1. ShapeOK(q)
      BY <2>5, <2>10 DEF ShapeOK, Shape, Standard
    <3>2. RefsOK(q, abandoned')
      BY <1>1, <1>3, <2>10 DEF RefsOK
    <3> QED BY <2>10, <3>1, <3>2 DEF ProcOK
  <2> QED BY <1>1, <1>2, <1>3, <2>10, <2>11, <2>12, QuietStep
<1> QED BY <1>4, <1>5 DEF parse_redirect

\* |: the ends of the new pipe are 2 and 3, unless an earlier one failed.
LEMMA PipeMadeIInv ==
    ASSUME IInv, NEW e \in Env, proc[e].pc = "parse", proc[e].tokens >= 1, abandoned' = abandoned,
           NEW k \in Nat, NEW g, g = open(proc[e].fds, PipeEnd("rd", k)),
           HasFd(proc[e].fds), HasFd(g),
           Set(e, [After(e, 1) EXCEPT !.pc = "fork_right", !.pipe = k,
                      !.p0 = fd_alloc(proc[e].fds), !.p1 = fd_alloc(g),
                      !.fds = open(g, PipeEnd("wr", k))])
    PROVE  IInv'
<1>1. Live(e) /\ \A to : MayWaitAt(e, to, abandoned')
  BY NobodyAwaited
<1>2. /\ proc[e] \in Process /\ abandoned \in BOOLEAN /\ proc[e].streams \in [1..2 -> Fd]
      /\ ShapeOK(proc[e]) /\ RefsOK(proc[e], abandoned)
  BY OneProcess
<1>3. PICK f, rd, wr, h : /\ f = proc[e].fds /\ rd = PipeEnd("rd", k) /\ wr = PipeEnd("wr", k)
                          /\ h = open(g, wr)
  OBVIOUS
<1>4. rd \in Fd /\ wr \in Fd /\ rd # Closed /\ Closed \in Fd /\ f \in [Fdnum -> Fd]
  BY <1>2, <1>3, FdKinds DEF Process
<1>5. g \in [Fdnum -> Fd] /\ h \in [Fdnum -> Fd]
  BY <1>3, <1>4 DEF open
<1>6. PICK p0 \in Fdnum, p1 \in Fdnum : p0 = fd_alloc(f) /\ p1 = fd_alloc(g)
  BY <1>3, <1>4, <1>5, FdAllocIn
<1>7. ~proc[e].unpiped =>
         /\ proc[e].streams[1] # Closed /\ proc[e].streams[2] # Closed /\ p0 = 2 /\ p1 = 3
         /\ IsTable(h, proc[e].streams[1], proc[e].streams[2], rd, wr)
  <2> SUFFICES ASSUME ~proc[e].unpiped
               PROVE  /\ proc[e].streams[1] # Closed /\ proc[e].streams[2] # Closed
                      /\ p0 = 2 /\ p1 = 3
                      /\ IsTable(h, proc[e].streams[1], proc[e].streams[2], rd, wr)
    OBVIOUS
  <2>1. PICK a \in Fd, b \in Fd : a = proc[e].streams[1] /\ b = proc[e].streams[2]
    BY <1>2
  <2>2. a # Closed /\ b # Closed /\ IsTable(f, a, b, Closed, Closed)
    BY <1>2, <1>3, <2>1 DEF ShapeOK, Shape, Standard
  <2>3. fd_alloc(f) = 2 /\ IsTable(g, a, b, rd, Closed)
    BY <1>3, <1>4, <2>2, OpenTable
  <2>4. fd_alloc(g) = 3 /\ IsTable(h, a, b, rd, wr)
    BY <1>3, <1>4, <2>2, <2>3, OpenTable
  <2> QED BY <1>6, <2>1, <2>2, <2>3, <2>4
<1>8. PICK p : p = After(e, 1)
  OBVIOUS
<1>9. Alike(p, proc[e])
  <2>1. proc[e].tokens - 1 \in Nat
    BY <1>2 DEF Process
  <2> QED BY <1>2, <1>8, <2>1 DEF After, Alike, Process
<1>10. PICK q : q = [p EXCEPT !.pc = "fork_right", !.pipe = k, !.p0 = p0, !.p1 = p1, !.fds = h]
  OBVIOUS
<1>11. /\ q \in Process /\ q.pc = "fork_right" /\ q.fds = h /\ q.streams = proc[e].streams
       /\ q.pipe = k /\ q.p0 = p0 /\ q.p1 = p1 /\ q.unpiped = proc[e].unpiped
       /\ q.child = proc[e].child /\ q.rightpipe = proc[e].rightpipe
  BY <1>5, <1>9, <1>10 DEF Alike, Process, Places
<1>12. proc' = [proc EXCEPT ![e] = q]
  BY <1>3, <1>6, <1>8, <1>10 DEF Set
<1>13. ProcOK(q, abandoned')
  <2>1. ShapeOK(q)
    BY <1>3, <1>7, <1>11 DEF ShapeOK, Shape, Standard
  <2>2. RefsOK(q, abandoned')
    BY <1>2, <1>11 DEF RefsOK
  <2> QED BY <1>11, <2>1, <2>2 DEF ProcOK
<1> QED BY <1>1, <1>2, <1>11, <1>12, <1>13, QuietStep

\* A pipe that could not be made: from here on the line says nothing of the descriptors.
LEMMA PipeFailedIInv ==
    ASSUME IInv, NEW e \in Env, proc[e].pc = "parse", proc[e].tokens >= 1, abandoned' = abandoned,
           NEW p0 \in Fdnum, NEW p1 \in Fdnum,
           Set(e, [After(e, 1) EXCEPT !.pc = "fork_right", !.p0 = p0, !.p1 = p1, !.unpiped = TRUE])
    PROVE  IInv'
<1>1. Live(e) /\ \A to : MayWaitAt(e, to, abandoned')
  BY NobodyAwaited
<1>2. proc[e] \in Process /\ abandoned \in BOOLEAN /\ RefsOK(proc[e], abandoned)
  BY OneProcess
<1>3. PICK p : p = After(e, 1)
  OBVIOUS
<1>4. Alike(p, proc[e])
  <2>1. proc[e].tokens - 1 \in Nat
    BY <1>2 DEF Process
  <2> QED BY <1>2, <1>3, <2>1 DEF After, Alike, Process
<1>5. PICK q : q = [p EXCEPT !.pc = "fork_right", !.p0 = p0, !.p1 = p1, !.unpiped = TRUE]
  OBVIOUS
<1>6. /\ q \in Process /\ q.pc = "fork_right" /\ q.unpiped
      /\ q.child = proc[e].child /\ q.rightpipe = proc[e].rightpipe
  BY <1>4, <1>5 DEF Alike, Process, Places
<1>7. ProcOK(q, abandoned')
  BY <1>2, <1>6 DEF ProcOK, ShapeOK, RefsOK
<1>8. proc' = [proc EXCEPT ![e] = q]
  BY <1>3, <1>5 DEF Set
<1> QED BY <1>1, <1>2, <1>6, <1>7, <1>8, QuietStep

LEMMA PipeIInv == ASSUME IInv, NEW e \in Env, parse_pipe(e) PROVE IInv'
<1>1. proc[e].pc = "parse" /\ abandoned' = abandoned /\ proc[e].tokens >= 1
  BY DEF parse_pipe, At
<1>2. CASE UnusedPipes # {}
  <2>1. PICK m : m = CHOOSE k \in UnusedPipes : \A j \in UnusedPipes : k <= j
    OBVIOUS
  <2>2. UnusedPipes \in SUBSET Nat
    BY SizeAssumption DEF UnusedPipes
  <2>3. \E x \in UnusedPipes : \A y \in UnusedPipes : x <= y
    BY <1>2, <2>2, Least
  <2>4. m \in Nat
    BY <2>1, <2>2, <2>3
  <2>5. CASE \E p \in Junk : Set(e, [After(e, 1) EXCEPT !.pc = "fork_right", !.p0 = p[1],
                                                     !.p1 = p[2], !.unpiped = TRUE])
    BY <1>1, <2>5, SizeAssumption, PipeFailedIInv
  <2>6. CASE LET g == open(proc[e].fds, PipeEnd("rd", m)) IN
             /\ HasFd(proc[e].fds) /\ HasFd(g)
             /\ Set(e, [After(e, 1) EXCEPT !.pc = "fork_right", !.pipe = m,
                           !.p0 = fd_alloc(proc[e].fds), !.p1 = fd_alloc(g),
                           !.fds = open(g, PipeEnd("wr", m))])
    BY <1>1, <2>4, <2>6, PipeMadeIInv
  <2> QED BY <2>1, <2>5, <2>6 DEF parse_pipe
<1>3. CASE UnusedPipes = {}
  BY <1>1, <1>3, SizeAssumption, PipeFailedIInv DEF parse_pipe
<1> QED BY <1>2, <1>3

\* The fork of the right side.
LEMMA ForkRightIInv == ASSUME IInv, NEW e \in Env, fork_right(e) PROVE IInv'
<1>1. proc[e].pc = "fork_right" /\ abandoned' = abandoned
  BY DEF fork_right, At
<1>2. Live(e) /\ \A to : MayWaitAt(e, to, abandoned')
  BY <1>1, NobodyAwaited
<1>3. /\ proc[e] \in Process /\ abandoned \in BOOLEAN /\ proc[e].streams \in [1..2 -> Fd]
      /\ proc[e].pipe \in Nat /\ ShapeOK(proc[e]) /\ RefsOK(proc[e], abandoned)
  BY OneProcess
<1>4. PICK rd \in Fd, wr \in Fd :
         rd = PipeEnd("rd", proc[e].pipe) /\ wr = PipeEnd("wr", proc[e].pipe)
  BY <1>3, FdKinds
<1>5. PICK right, left :
         /\ right = [proc[e] EXCEPT !.pc = "right", !.argc = 0, !.streams[1] = rd]
         /\ left = [proc[e] EXCEPT !.pc = "left", !.tokens = 0, !.streams[2] = wr]
  OBVIOUS
<1>6. PICK st1, st2 : /\ st1 = [proc[e].streams EXCEPT ![1] = rd]
                      /\ st2 = [proc[e].streams EXCEPT ![2] = wr]
  OBVIOUS
<1>7. /\ st1 \in [1..2 -> Fd] /\ st1[1] = rd /\ st1[2] = proc[e].streams[2]
      /\ st2 \in [1..2 -> Fd] /\ st2[1] = proc[e].streams[1] /\ st2[2] = wr
  BY <1>3, <1>6
<1>8. /\ right \in Process /\ right.pc = "right" /\ right.streams = st1
      /\ right.fds = proc[e].fds /\ right.pipe = proc[e].pipe /\ right.p0 = proc[e].p0
      /\ right.p1 = proc[e].p1 /\ right.unpiped = proc[e].unpiped
      /\ right.child = proc[e].child /\ right.rightpipe = proc[e].rightpipe
  BY <1>3, <1>5, <1>6, <1>7 DEF Process, Places
<1>9. /\ left \in Process /\ left.pc = "left" /\ left.streams = st2
      /\ left.fds = proc[e].fds /\ left.pipe = proc[e].pipe /\ left.p0 = proc[e].p0
      /\ left.p1 = proc[e].p1 /\ left.unpiped = proc[e].unpiped
      /\ left.child = proc[e].child /\ left.rightpipe = proc[e].rightpipe
  BY <1>3, <1>5, <1>6, <1>7 DEF Process, Places
<1>10. /\ ~proc[e].unpiped =>
             /\ proc[e].streams[1] # Closed /\ proc[e].streams[2] # Closed
             /\ IsTable(proc[e].fds, proc[e].streams[1], proc[e].streams[2], rd, wr)
             /\ proc[e].p0 = 2 /\ proc[e].p1 = 3
       /\ proc[e].streams[1] \in Fd /\ proc[e].streams[2] \in Fd
       /\ proc[e].child = Nobody /\ proc[e].rightpipe = Nobody
  BY <1>1, <1>3, <1>4 DEF ShapeOK, Shape, RefsOK
<1>11. ShapeOK(right) /\ ShapeOK(left)
  BY <1>4, <1>7, <1>8, <1>9, <1>10 DEF ShapeOK, Shape, Standard
<1>12. ProcOK(right, abandoned) /\ ProcOK(left, abandoned)
  BY <1>8, <1>9, <1>10, <1>11 DEF ProcOK, RefsOK
<1>13. CASE Set(e, left)
  <2>1. proc' = [proc EXCEPT ![e] = left]
    BY <1>13 DEF Set
  <2> QED BY <1>1, <1>2, <1>3, <1>9, <1>12, <2>1, QuietStep
<1>14. CASE /\ FreeEnvs # {}
            /\ proc' = [proc EXCEPT ![e] = [left EXCEPT !.rightpipe = NewEnv], ![NewEnv] = right]
  <2>1. PICK l : l = [left EXCEPT !.rightpipe = NewEnv]
    OBVIOUS
  <2>2. NewEnv \in Env
    BY <1>14, NewEnvFree
  <2>3. /\ l \in Process /\ l.pc = "left" /\ l.streams = left.streams /\ l.fds = left.fds
        /\ l.pipe = left.pipe /\ l.p0 = left.p0 /\ l.p1 = left.p1 /\ l.unpiped = left.unpiped
        /\ l.child = left.child /\ l.rightpipe = NewEnv
    BY <1>9, <2>1, <2>2 DEF Process
  <2>4. ProcOK(l, abandoned)
    <3>1. ShapeOK(l)
      BY <1>9, <1>11, <2>3 DEF ShapeOK, Shape, Standard
    <3>2. RefsOK(l, abandoned)
      BY <1>9, <1>10, <2>3 DEF RefsOK
    <3> QED BY <2>3, <3>1, <3>2 DEF ProcOK
  <2>5. proc' = [proc EXCEPT ![e] = l, ![NewEnv] = right]
    BY <1>14, <2>1
  <2> QED BY <1>1, <1>2, <1>9, <1>10, <1>12, <1>14, <2>3, <2>4, <2>5, NewStep
<1> QED BY <1>4, <1>5, <1>13, <1>14 DEF fork_right

\* Each side takes its end.
LEMMA SideIInv ==
    ASSUME IInv, NEW e \in Env, right_side(e) \/ left_side(e)
    PROVE  IInv'
<1>1. proc[e].pc \in {"right", "left"} /\ abandoned' = abandoned /\ Live(e)
  BY DEF right_side, left_side, At, Live
<1>2. /\ proc[e] \in Process /\ abandoned \in BOOLEAN /\ proc[e].streams \in [1..2 -> Fd]
      /\ proc[e].pipe \in Nat /\ ShapeOK(proc[e]) /\ RefsOK(proc[e], abandoned)
  BY OneProcess
<1>3. PICK k \in Nat, rd \in Fd, wr \in Fd :
         /\ k = proc[e].pipe /\ rd = PipeEnd("rd", k) /\ wr = PipeEnd("wr", k)
  BY <1>2, FdKinds
<1>4. PICK in \in Fd, out \in Fd : in = proc[e].streams[1] /\ out = proc[e].streams[2]
  BY <1>2
<1>5. PICK fds, to :
         /\ proc' = [proc EXCEPT ![e] = [proc[e] EXCEPT !.pc = to, !.p0 = 0, !.p1 = 0, !.pipe = 0,
                                                        !.fds = fds]]
         /\ \/ /\ proc[e].pc = "right" /\ to = "parse"
               /\ fds = TakeEnd(proc[e].fds, proc[e].p0, proc[e].p1, 0)
            \/ /\ proc[e].pc = "left" /\ to = "spawn"
               /\ fds = TakeEnd(proc[e].fds, proc[e].p1, proc[e].p0, 1)
  BY DEF right_side, left_side, At, Set
<1>6. fds \in [Fdnum -> Fd]
  <2>1. proc[e].fds \in [Fdnum -> Fd] /\ proc[e].p0 \in Fdnum /\ proc[e].p1 \in Fdnum
    BY <1>2 DEF Process
  <2>2. \A mine, other \in Fdnum : /\ TakeEnd(proc[e].fds, mine, other, 0) \in [Fdnum -> Fd]
                                   /\ TakeEnd(proc[e].fds, mine, other, 1) \in [Fdnum -> Fd]
    BY <2>1, TakeEndType
  <2> QED BY <1>5, <2>1, <2>2
<1>7. ~proc[e].unpiped => in # Closed /\ out # Closed /\ IsTable(fds, in, out, Closed, Closed)
  <2> SUFFICES ASSUME ~proc[e].unpiped
               PROVE  in # Closed /\ out # Closed /\ IsTable(fds, in, out, Closed, Closed)
    OBVIOUS
  <2>1. rd # Closed /\ wr # Closed /\ proc[e].p0 = 2 /\ proc[e].p1 = 3
    BY <1>1, <1>2, <1>3, FdKinds DEF ShapeOK, Shape
  <2>2. CASE proc[e].pc = "right"
    <3>1. PICK a \in Fd : IsTable(proc[e].fds, a, out, rd, wr) /\ in = rd /\ out # Closed
      BY <1>2, <1>3, <1>4, <2>2 DEF ShapeOK, Shape
    <3>2. IsTable(TakeEnd(proc[e].fds, 2, 3, 0), rd, out, Closed, Closed)
      BY <1>3, <3>1, EndsTaken, Zenon
    <3> QED BY <1>5, <2>1, <2>2, <3>1, <3>2
  <2>3. CASE proc[e].pc = "left"
    <3>1. PICK b \in Fd : IsTable(proc[e].fds, in, b, rd, wr) /\ in # Closed /\ out = wr
      BY <1>2, <1>3, <1>4, <2>3 DEF ShapeOK, Shape
    <3>2. IsTable(TakeEnd(proc[e].fds, 3, 2, 1), in, wr, Closed, Closed)
      BY <1>3, <3>1, EndsTaken, Zenon
    <3> QED BY <1>5, <2>1, <2>3, <3>1, <3>2
  <2> QED BY <1>1, <2>2, <2>3
<1>8. PICK q : q = [proc[e] EXCEPT !.pc = to, !.p0 = 0, !.p1 = 0, !.pipe = 0, !.fds = fds]
  OBVIOUS
<1>9. /\ q \in Process /\ q.pc = to /\ q.fds = fds /\ q.streams = proc[e].streams
      /\ q.unpiped = proc[e].unpiped
      /\ q.child = proc[e].child /\ q.rightpipe = proc[e].rightpipe
  BY <1>2, <1>5, <1>6, <1>8, FdNumbers DEF Process, Places
<1>10. ProcOK(q, abandoned')
  <2>1. ShapeOK(q)
    BY <1>4, <1>5, <1>7, <1>9 DEF ShapeOK, Shape, Standard
  <2>2. RefsOK(q, abandoned')
    BY <1>1, <1>2, <1>5, <1>9 DEF RefsOK
  <2> QED BY <1>9, <2>1, <2>2 DEF ProcOK
<1> QED BY <1>1, <1>2, <1>5, <1>8, <1>9, <1>10, QuietStep

-------------------------------------------------------------------------------
(* runcmd and exit                                                         *)

\* A command without words ends and may leave its right side behind.
LEMMA NothingIInv == ASSUME IInv, NEW e \in Env, run_nothing(e) PROVE IInv'
<1>1. /\ proc[e].pc = "spawn" /\ Live(e) /\ Goto(e, "exit")
      /\ abandoned' = (abandoned \/ proc[e].rightpipe # Nobody)
  BY DEF run_nothing, At, Live
<1>2. RefsOK(proc[e], abandoned) /\ abandoned \in BOOLEAN
  BY OneProcess
<1>3. abandoned' \in BOOLEAN /\ (abandoned => abandoned')
  BY <1>1, <1>2
<1>4. MayWaitAt(e, "exit", abandoned')
  BY <1>1, <1>2 DEF RefsOK, MayWaitAt
<1> QED BY <1>1, <1>3, <1>4, GotoStep DEF Places, Standard

\* spawn: the program gets the descriptors and the streams of its parent.
LEMMA SpawnIInv == ASSUME IInv, NEW e \in Env, spawn(e) PROVE IInv'
<1>1. proc[e].pc = "spawn" /\ Live(e) /\ abandoned' = abandoned
  BY DEF spawn, At, Live
<1>2. /\ proc[e] \in Process /\ abandoned \in BOOLEAN /\ proc[e].streams \in [1..2 -> Fd]
      /\ ShapeOK(proc[e]) /\ RefsOK(proc[e], abandoned)
  BY OneProcess
<1>3. CASE Goto(e, "close_all")
  <2>1. MayWaitAt(e, "close_all", abandoned')
    BY DEF MayWaitAt
  <2> QED BY <1>1, <1>2, <1>3, <2>1, GotoStep DEF Places, Standard
<1>4. ASSUME FreeEnvs # {}, NEW pc \in {"read", "print"},
             proc' = [proc EXCEPT ![e].pc = "close_all", ![e].child = NewEnv,
                         ![NewEnv] = [NoProc EXCEPT !.pc = pc, !.fds = proc[e].fds, !.left = MaxBytes,
                                                    !.streams = proc[e].streams,
                                                    !.unpiped = proc[e].unpiped]]
      PROVE  IInv'
  <2>1. NewEnv \in Env /\ NewEnv # e
    BY <1>1, <1>4, NewEnvFree
  <2>2. PICK q, r : /\ q = [proc[e] EXCEPT !.pc = "close_all", !.child = NewEnv]
                    /\ r = [NoProc EXCEPT !.pc = pc, !.fds = proc[e].fds, !.left = MaxBytes,
                                          !.streams = proc[e].streams,
                                          !.unpiped = proc[e].unpiped]
    OBVIOUS
  <2>3. /\ q \in Process /\ q.pc = "close_all" /\ q.child = NewEnv /\ q.fds = proc[e].fds
        /\ q.streams = proc[e].streams /\ q.rightpipe = proc[e].rightpipe
        /\ q.unpiped = proc[e].unpiped
    BY <1>2, <2>1, <2>2 DEF Process, Places
  <2>4. /\ r \in Process /\ r.pc = pc /\ r.fds = proc[e].fds /\ r.streams = proc[e].streams
        /\ r.unpiped = proc[e].unpiped /\ r.child = Nobody /\ r.rightpipe = Nobody
    <3>1. NoProc \in Process /\ NoProc.child = Nobody /\ NoProc.rightpipe = Nobody
      BY NoProcOK
    <3>2. /\ proc[e].fds \in [Fdnum -> Fd] /\ MaxBytes \in Nat /\ pc \in Places
          /\ proc[e].unpiped \in BOOLEAN
      BY <1>2, SizeAssumption DEF Process, Places
    <3> QED BY <1>2, <2>2, <3>1, <3>2 DEF Process
  <2>5. proc[e].child = Nobody
    BY <1>1, <1>2 DEF RefsOK
  <2>6. ProcOK(q, abandoned)
    BY <1>1, <1>2, <2>3 DEF ProcOK, ShapeOK, Shape, RefsOK, Standard
  <2>7. ProcOK(r, abandoned)
    BY <1>1, <1>2, <2>4 DEF ProcOK, ShapeOK, Shape, RefsOK, Standard
  <2>8. proc' = [proc EXCEPT ![e] = q, ![NewEnv] = r]
    <3>1. proc \in [Env -> Process]
      BY DEF IInv
    <3> QED BY <1>4, <2>1, <2>2, <3>1
  <2> QED BY <1>1, <1>4, <2>3, <2>5, <2>6, <2>7, <2>8, NewStep
<1> QED BY <1>3, <1>4 DEF spawn

\* The parent closes its descriptors and waits.
LEMMA CloseAllIInv == ASSUME IInv, NEW e \in Env, close_all(e) PROVE IInv'
<1>1. proc[e].pc = "close_all" /\ Live(e) /\ abandoned' = abandoned
  BY DEF close_all, At, Live
<1>2. proc[e] \in Process /\ abandoned \in BOOLEAN
  BY OneProcess
<1>3. PICK q : q = [proc[e] EXCEPT !.pc = "wait_child", !.fds = AllClosed]
  OBVIOUS
<1>4. AllClosed \in [Fdnum -> Fd]
  BY FdKinds DEF AllClosed
<1>5. /\ q \in Process /\ q.pc = "wait_child"
      /\ q.child = proc[e].child /\ q.rightpipe = proc[e].rightpipe
  BY <1>2, <1>3, <1>4 DEF Process, Places
<1>6. ProcOK(q, abandoned')
  BY <1>5 DEF ProcOK, ShapeOK, Shape, RefsOK, Standard
<1>7. proc' = [proc EXCEPT ![e] = q]
  BY <1>3 DEF close_all, Set
<1> QED BY <1>1, <1>2, <1>5, <1>6, <1>7, QuietStep

\* The waiting is over for both.
LEMMA WaitBothIInv == ASSUME IInv, NEW e \in Env, wait_both(e) PROVE IInv'
<1>1. /\ proc[e].pc = "wait_child" /\ Live(e) /\ abandoned' = abandoned /\ Goto(e, "exit")
      /\ proc[e].child = Nobody /\ proc[e].rightpipe = Nobody
  BY DEF wait_both, At, Live
<1>2. MayWaitAt(e, "exit", abandoned') /\ abandoned \in BOOLEAN
  BY <1>1, OneProcess DEF MayWaitAt
<1> QED BY <1>1, <1>2, GotoStep DEF Places, Standard

\* exit gives up what the process waits for, which is nothing unless abandoned says so.
LEMMA ExitIInv == ASSUME IInv, NEW e \in Env, exit_close(e) PROVE IInv'
<1>1. proc[e].pc = "exit" /\ Live(e) /\ abandoned' = abandoned
  BY DEF exit_close, At, Live
<1>2. /\ proc[e] \in Process /\ abandoned \in BOOLEAN /\ proc \in [Env -> Process]
      /\ RefsOK(proc[e], abandoned)
  BY OneProcess DEF IInv
<1>3. PICK q : q = [NoProc EXCEPT !.pc = "destroy"]
  OBVIOUS
<1>4. q \in Process /\ q.pc = "destroy" /\ q.child = Nobody /\ q.rightpipe = Nobody
  BY <1>3, NoProcOK DEF Process, Places
<1>5. ProcOK(q, abandoned')
  BY <1>4 DEF ProcOK, ShapeOK, Shape, RefsOK, Standard
<1>6. proc' = [proc EXCEPT ![e] = q]
  BY <1>3 DEF exit_close, Set
<1>7. CASE proc[e].rightpipe = Nobody
  <2>1. proc[e].child = Nobody
    BY <1>1, <1>2 DEF RefsOK
  <2> QED BY <1>1, <1>2, <1>4, <1>5, <1>6, <1>7, <2>1, QuietStep
<1>8. CASE proc[e].rightpipe # Nobody
  <2>1. abandoned'
    BY <1>1, <1>2, <1>8 DEF RefsOK
  <2>2. proc' \in [Env -> Process] /\ proc'[e] = q /\ \A f \in Env \ {e} : proc'[f] = proc[f]
    BY <1>2, <1>4, <1>6
  <2>3. \A f \in Env : ProcOK(proc'[f], abandoned')
    BY <1>1, <1>5, <2>2 DEF IInv
  <2> QED BY <1>1, <1>2, <2>1, <2>2, <2>3 DEF IInv
<1> QED BY <1>7, <1>8

\* The slot becomes free, and those who waited for the process no longer do.
LEMMA DestroyIInv == ASSUME IInv, NEW e \in Env, destroy(e) PROVE IInv'
<1>1. /\ proc[e].pc = "destroy" /\ abandoned' = abandoned
      /\ proc' = [f \in Env |-> IF f = e THEN NoProc ELSE Forget(proc[f], e)]
  BY DEF destroy, At
<1>2. /\ proc \in [Env -> Process] /\ abandoned \in BOOLEAN
      /\ proc[e].child = Nobody /\ proc[e].rightpipe = Nobody
  BY <1>1, OneProcess DEF IInv, RefsOK
<1>3. /\ proc'[e] = NoProc
      /\ \A f \in Env \ {e} :
            /\ proc'[f] \in Process
            /\ proc'[f].pc = proc[f].pc /\ proc'[f].fds = proc[f].fds
            /\ proc'[f].streams = proc[f].streams /\ proc'[f].pipe = proc[f].pipe
            /\ proc'[f].p0 = proc[f].p0 /\ proc'[f].p1 = proc[f].p1
            /\ proc'[f].unpiped = proc[f].unpiped
            /\ proc'[f].child = IF proc[f].child = e THEN Nobody ELSE proc[f].child
            /\ proc'[f].rightpipe = IF proc[f].rightpipe = e THEN Nobody ELSE proc[f].rightpipe
  <2>1. \A f \in Env \ {e} : proc'[f] = Forget(proc[f], e) /\ proc[f] \in Process
    BY <1>1, <1>2
  <2> QED BY <1>1, <2>1, ForgetKeeps
<1>4. proc' \in [Env -> Process]
  BY <1>1, <1>2, <1>3, NoProcOK
<1>5. \A f \in Env : ProcOK(proc'[f], abandoned')
  <2>1. SUFFICES ASSUME NEW f \in Env, f # e PROVE ProcOK(proc'[f], abandoned')
    BY <1>1, <1>2, <1>3, NoProcOK
  <2>2. ShapeOK(proc[f]) /\ RefsOK(proc[f], abandoned)
    BY OneProcess
  <2>3. ShapeOK(proc'[f])
    BY <1>3, <2>1, <2>2 DEF ShapeOK, Shape
  <2>4. RefsOK(proc'[f], abandoned')
    BY <1>1, <1>3, <2>1, <2>2 DEF RefsOK
  <2> QED BY <1>3, <2>1, <2>3, <2>4 DEF ProcOK
<1>6. \A f \in Env : Live(f)' => Live(f) /\ f # e
  BY <1>3, NoProcOK DEF Live
<1>7. \A f \in Env, g \in Env \ {Main} : g # e /\ Waits(f, g) => Waits(f, g)'
  <2>1. SUFFICES ASSUME NEW f \in Env, NEW g \in Env \ {Main}, g # e, Waits(f, g)
                 PROVE  Waits(f, g)'
    OBVIOUS
  <2>2. f # e
    BY <1>2, <2>1 DEF Waits, Main, Nobody
  <2> QED BY <1>3, <2>1, <2>2 DEF Waits
<1>8. \A d \in [Env -> Nat] : Attended(d) => Attended(d)'
  BY <1>6, <1>7 DEF Attended
<1>9. abandoned' \/ \E d \in [Env -> Nat] : Attended(d)'
  BY <1>1, <1>8 DEF IInv
<1> QED BY <1>1, <1>2, <1>4, <1>5, <1>9 DEF IInv

\* Programs keep their descriptors.
LEMMA ProgramIInv ==
    ASSUME IInv, NEW e \in Env, read_byte(e) \/ type_byte(e) \/ print_byte(e) \/ write_byte(e)
    PROVE  IInv'
<1>1. proc[e].pc \in {"read", "poll", "print", "write"} /\ abandoned' = abandoned
  BY DEF read_byte, type_byte, print_byte, write_byte, write, At
<1>2. Live(e) /\ \A to : MayWaitAt(e, to, abandoned')
  BY <1>1, NobodyAwaited
<1>3. proc[e] \in Process /\ abandoned \in BOOLEAN
  BY OneProcess
<1>4. PICK u : u = Used(proc[e])
  OBVIOUS
<1>5. proc[e].left > 0 => Alike(u, proc[e])
  <2>1. proc[e].left > 0 => proc[e].left - 1 \in Nat
    BY <1>3 DEF Process
  <2> QED BY <1>3, <1>4, <2>1 DEF Used, Alike, Process
<1>6. Alike(proc[e], proc[e])
  BY <1>3 DEF Alike
<1>7. PICK p, to : /\ to \in {"read", "print", "write", "exit"} /\ Alike(p, proc[e])
                   /\ Set(e, [p EXCEPT !.pc = to])
  <2>1. CASE read_byte(e) \/ type_byte(e)
    <3>1. \/ proc[e].left > 0 /\ Set(e, [u EXCEPT !.pc = "write"])
          \/ Set(e, [proc[e] EXCEPT !.pc = "write"])
          \/ Set(e, [proc[e] EXCEPT !.pc = "exit"])
      BY <1>4, <2>1 DEF read_byte, type_byte, Goto
    <3> QED BY <1>5, <1>6, <3>1, Zenon
  <2>2. CASE print_byte(e)
    <3>1. \/ proc[e].left > 0 /\ Set(e, [u EXCEPT !.pc = "print"])
          \/ Set(e, [proc[e] EXCEPT !.pc = "exit"])
      BY <1>4, <2>2 DEF print_byte, write, Goto
    <3> QED BY <1>5, <1>6, <3>1, Zenon
  <2>3. CASE write_byte(e)
    <3>1. \/ Set(e, [proc[e] EXCEPT !.pc = "read"])
          \/ Set(e, [proc[e] EXCEPT !.pc = "exit"])
      BY <2>3 DEF write_byte, write
    <3> QED BY <1>6, <3>1, Zenon
  <2> QED BY <2>1, <2>2, <2>3
<1>8. PICK q : q = [p EXCEPT !.pc = to]
  OBVIOUS
<1>9. Alike(q, proc[e]) /\ q.pc = to
  BY <1>7, <1>8 DEF Alike, Process, Places
<1>10. proc' = [proc EXCEPT ![e] = q]
  BY <1>7, <1>8 DEF Set
<1> QED BY <1>1, <1>2, <1>3, <1>7, <1>9, <1>10, AlikeStep DEF Standard

-------------------------------------------------------------------------------
\* Every step of every process keeps the invariant.
LEMMA NextIInv == IInv /\ [Next]_shell_vars => IInv'
<1> SUFFICES ASSUME IInv, [Next]_shell_vars PROVE IInv'
  OBVIOUS
<1>1. CASE UNCHANGED shell_vars
  BY <1>1 DEF shell_vars, IInv, ProcOK, Attended, Waits, Live
<1>2. CASE type
  BY <1>2, TypeLineIInv, ProgramIInv DEF type
<1>3. ASSUME NEW e \in Env, step(e)
      PROVE  IInv'
  <2>1. CASE parse_end(e) \/ parse_word(e) \/ parse_other(e)
    BY <2>1, ParseIInv
  <2>2. CASE parse_pipe(e) \/ fork_right(e) \/ right_side(e) \/ left_side(e)
    BY <2>2, PipeIInv, ForkRightIInv, SideIInv
  <2>3. CASE \E n \in {0, 1} : parse_redirect(e, n)
    BY <2>3, RedirectIInv
  <2>4. CASE run_nothing(e) \/ spawn(e) \/ close_all(e) \/ wait_both(e)
    BY <2>4, NothingIInv, SpawnIInv, CloseAllIInv, WaitBothIInv
  <2>5. CASE exit_close(e) \/ destroy(e)
    BY <2>5, ExitIInv, DestroyIInv
  <2>6. CASE cons_read(e) \/ read_byte(e) \/ print_byte(e) \/ write_byte(e)
    BY <2>6, ConsReadIInv, ProgramIInv
  <2>7. CASE fork_line \/ wait_line
    BY <2>7, ForkLineIInv, WaitLineIInv
  <2> QED BY <1>3, <2>1, <2>2, <2>3, <2>4, <2>5, <2>6, <2>7 DEF step
<1> QED BY <1>1, <1>2, <1>3 DEF Next, run

\* The invariant holds always.
THEOREM SpecIInv == Spec => []IInv
BY InitIInv, NextIInv, PTL DEF Spec

\* sh.c: every program of a line in which pipe() has not failed reads and writes what the
\* line says and holds no other descriptor, for any number of processes and tokens.
THEOREM ProgramsConnected == Spec => []StreamsConnected
<1>1. IInv => StreamsConnected
  <2> SUFFICES ASSUME IInv, NEW e \in Env, IsProgram(e), ~proc[e].unpiped
               PROVE  proc[e].fds = [n \in Fdnum |-> IF n < 2 THEN proc[e].streams[n + 1] ELSE Closed]
    BY DEF StreamsConnected
  <2>1. PICK f, a, b : f = proc[e].fds /\ a = proc[e].streams[1] /\ b = proc[e].streams[2]
    OBVIOUS
  <2>2. IsTable(f, a, b, Closed, Closed)
    BY <2>1, OneProcess DEF ShapeOK, Shape, IsProgram, Standard
  <2>3. \A n \in Fdnum : f[n] = IF n < 2 THEN proc[e].streams[n + 1] ELSE Closed
    <3>1. SUFFICES ASSUME NEW n \in Fdnum
                   PROVE  f[n] = IF n < 2 THEN proc[e].streams[n + 1] ELSE Closed
      OBVIOUS
    <3>2. n \in Nat
      BY FdNumbers
    <3>3. CASE n = 0 \/ n = 1
      BY <2>1, <2>2, <3>3 DEF IsTable
    <3>4. CASE n = 2 \/ n = 3 \/ n \notin {0, 1, 2, 3}
      BY <2>2, <3>2, <3>4 DEF IsTable
    <3> QED BY <3>2, <3>3, <3>4
  <2>4. f = [n \in Fdnum |-> f[n]]
    BY <2>2 DEF IsTable
  <2> QED BY <2>1, <2>3, <2>4
<1> QED BY <1>1, SpecIInv, PTL

\* sh.c: when the shell prompts, nothing of an earlier line is left, unless a command
\* without words has abandoned its right side.  Of the processes that were left, the one
\* of the least rank would have nobody to wait for it.
THEOREM PromptsWhenDone == Spec => []PromptWhenDone
<1>1. IInv => PromptWhenDone
  <2> SUFFICES ASSUME IInv, proc[Main].pc \in {"prompt", "poll"}, ~abandoned, NEW g \in Env \ {Main}, Live(g)
               PROVE  FALSE
    BY DEF PromptWhenDone
  <2>1. PICK d \in [Env -> Nat] : Attended(d)
    BY DEF IInv
  <2>2. PICK S : S = {d[e] : e \in {e \in Env \ {Main} : Live(e)}}
    OBVIOUS
  <2>3. S \in SUBSET Nat /\ S # {}
    BY <2>2
  <2>4. PICK m \in S : \A y \in S : m <= y
    BY <2>3, Least
  <2>5. PICK e \in Env \ {Main} : Live(e) /\ m = d[e]
    BY <2>2, <2>4
  <2>6. PICK f \in Env : Waits(f, e) /\ d[f] < d[e]
    BY <2>1, <2>5 DEF Attended
  <2>7. f # Main
    <3>1. proc[Main].child = Nobody /\ proc[Main].rightpipe = Nobody
      BY MainInEnv, OneProcess DEF RefsOK
    <3> QED BY <2>5, <2>6, <3>1 DEF Waits, Main, Nobody
  <2>8. Live(f)
    <3>1. ~Live(f) => proc[f].child = Nobody /\ proc[f].rightpipe = Nobody
      BY OneProcess DEF Live, RefsOK
    <3> QED BY <2>5, <2>6, <3>1 DEF Waits, Main, Nobody
  <2>9. d[f] \in S
    BY <2>2, <2>7, <2>8
  <2>10. m <= d[f] /\ d[f] \in Nat /\ m \in Nat /\ d[f] < m
    BY <2>1, <2>3, <2>4, <2>5, <2>6, <2>9
  <2> QED BY <2>10
<1> QED BY <1>1, SpecIInv, PTL
===============================================================================
