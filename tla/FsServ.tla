-------------------------------- MODULE FsServ --------------------------------
(***************************************************************************)
(* The file servers and their clients: fs/serv.c and fs/fatserv.c (the     *)
(* same code for two file systems), and on the client's side               *)
(* user/lib/fsipc.c, file.c and ipc.c with open and close of fd.c.         *)
(*                                                                         *)
(* A request and its answer are two messages of blocking IPC.  An open     *)
(* file is an entry of opentab and a page, struct Filefd, that the server  *)
(* shares with every client that has the file open; whether an entry is in *)
(* use is inferred from the reference count of that page, which clients    *)
(* change without telling the server.                                      *)
(*                                                                         *)
(* Server and clients are preempted between any two system calls.  What    *)
(* fs.c does with a file is reduced to its directory: an entry holds a     *)
(* name, or None, and the size of the file in blocks.                      *)
(***************************************************************************)
EXTENDS Integers, FiniteSets

CONSTANTS
    Client,
    None,       \* no file, no name, nobody
    MAXFS,      \* file servers
    MAXOPEN,    \* entries of opentab
    MAXFD,      \* descriptors of a client
    NENT,       \* directory entries of a file system
    Name,       \* paths of files
    Root,       \* the server of a path: getFsNumber
    MaxSize,    \* bound on the blocks of a file
    IdRange,    \* file identifiers are unsigned ints modulo IdRange
    MaxCalls    \* bound on the calls clients make, deaths included

Server == 0..(MAXFS - 1)
Slot == 0..(MAXOPEN - 1)
Fdnum == 0..(MAXFD - 1)
Entry == 0..(NENT - 1)

ASSUME ServAssumption ==
    /\ MAXFS \in Nat \ {0} /\ MAXOPEN \in Nat \ {0} /\ MAXOPEN % MAXFS = 0
    /\ \A s \in Server : \E f \in Name : Root[f] = s
    /\ MAXFD \in Nat \ {0} /\ NENT \in Nat \ {0} /\ MaxSize \in Nat
    /\ MaxCalls \in Nat /\ IdRange \in Nat \ {0} /\ IdRange % (2 * MAXFS * MAXOPEN) = 0
    /\ None \notin Name \cup Client \cup (Server \X Slot) /\ Root \in [Name -> Server]
    /\ IsFiniteSet(Client)

VARIABLES
    o_fileid, o_file,   \* opentab of each server
    ff,                 \* the page o_ff of an entry: [here, fileid, size]
    dir,                \* the directory of each server: [name, size] of an entry
    srv,                \* where a server is, with its request and its answer
    fd,                 \* fd[c][n]: the o_ff page mapped there, <<s, i>>, or None
    opened,             \* history: what open got there, [name, entry, fileid, gone]
    cl,                 \* where a client is
    calls               \* the calls made, for the bound

vars == <<o_fileid, o_file, ff, dir, srv, fd, opened, cl, calls>>
tables == <<o_fileid, o_file, ff, dir>>

\* What a server may receive: the requests of the library, a message without an
\* argument page and one whose code is no request's.
Type == {"OPEN", "CREAT", "MAP", "SET_SIZE", "CLOSE", "DIRTY", "REMOVE", "SYNC",
         "NO_PAGE", "UNKNOWN"}
Answer == {"OK", "E_INVAL", "E_NOT_FOUND", "E_MAX_OPEN", "E_NO_DISK", "E_NO_MEM", "NEGATIVE_ID"}
Fileid == 0..(IdRange - 1)
Request == [type : Type, name : Name \cup {None}, fileid : Fileid, block : 0..MaxSize]

\* A request, and a server that has received one or has none.
Req(type, name, id, b) == [type |-> type, name |-> name, fileid |-> id, block |-> b]
NoReq == Req("SYNC", None, 0, 0)
Serving(where, from, req) ==
    [pc |-> where, from |-> from, req |-> req, i |-> 0, answer |-> "OK", file |-> None]

\* A client in a call of the library, between two of them, and a free slot of envs.
Calling(where, op, n, to, req, lim, old) ==
    [pc |-> where, op |-> op, n |-> n, to |-> to, req |-> req, lim |-> lim, old |-> old,
     answer |-> "OK"]
Idle == Calling("idle", "sync", 0, 0, NoReq, 0, 0)
Dead == Calling("dead", "sync", 0, 0, NoReq, 0, 0)

\* pageref of o_ff: the server's own mapping and those of the clients.
Sharers(s, i) == {x \in Client \X Fdnum : fd[x[1]][x[2]] = <<s, i>>}
pageref(s, i) == (IF ff[s][i].here THEN 1 ELSE 0) + Cardinality(Sharers(s, i))

\* The identifiers of server s are those with FILEID2FSNO = s.
MAXOPEN_NUM == MAXFS * MAXOPEN
FILEID2FSNO(fileid) == (fileid % MAXOPEN_NUM) \div MAXOPEN

-------------------------------------------------------------------------------
\* serve_init, a directory with one file, one client.
Init ==
    /\ o_fileid = [s \in Server |-> [i \in Slot |-> i + s * MAXOPEN]]
    /\ o_file = [s \in Server |-> [i \in Slot |-> 0]]
    /\ ff = [s \in Server |-> [i \in Slot |-> [here |-> FALSE, fileid |-> 0, size |-> 0]]]
    /\ dir = [s \in Server |-> [e \in Entry |->
                IF e = 0 THEN [name |-> CHOOSE f \in Name : Root[f] = s, size |-> MaxSize]
                ELSE [name |-> None, size |-> 0]]]
    /\ srv = [s \in Server |-> Serving("recv", None, NoReq)]
    /\ fd = [c \in Client |-> [n \in Fdnum |-> None]]
    /\ opened = [c \in Client |-> [n \in Fdnum |-> None]]
    /\ calls = 0
    /\ cl = [c \in Client |-> IF c = CHOOSE d \in Client : TRUE THEN Idle ELSE Dead]

-------------------------------------------------------------------------------
\* The servers.
At(s, pc) == srv[s].pc = pc
answer(s, r) == srv' = [srv EXCEPT ![s].pc = "reply", ![s].answer = r]

\* Mutant: a page shared with one client counts as unused.
Unused_shared(s, i) == pageref(s, i) <= 2

\* The cases 0 and 1 of open_alloc: no client maps the page.
Unused(s, i) == pageref(s, i) <= 1

\* Mutant: the identifiers are wider than a u_int and skip one.
new_fileid_wide(fileid) == fileid + 2 * MAXOPEN_NUM

\* o_fileid += MAXOPEN_NUM: here the macro means the product it names.
new_fileid(fileid) == (fileid + MAXOPEN_NUM) % IdRange

\* open_alloc: one entry per step, because pageref may change between two.  An
\* entry that was never used needs a page, and there may be none left.  The
\* entry found gets a new identifier and its page is cleared; serve_open takes an
\* identifier that is negative as an int for an error.
open_alloc(s) ==
    LET i == srv[s].i
        id == new_fileid(o_fileid[s][i])
    IN
    /\ At(s, "alloc")
    /\ \/ i = MAXOPEN /\ answer(s, "E_MAX_OPEN") /\ UNCHANGED <<o_fileid, ff>>
       \/ /\ i < MAXOPEN /\ ~Unused(s, i)
          /\ srv' = [srv EXCEPT ![s].i = i + 1]
          /\ UNCHANGED <<o_fileid, ff>>
       \/ i < MAXOPEN /\ pageref(s, i) = 0 /\ answer(s, "E_NO_MEM") /\ UNCHANGED <<o_fileid, ff>>
       \/ /\ i < MAXOPEN /\ Unused(s, i)
          /\ o_fileid' = [o_fileid EXCEPT ![s][i] = id]
          /\ ff' = [ff EXCEPT ![s][i] = [here |-> TRUE, fileid |-> 0, size |-> 0]]
          /\ IF 2 * id >= IdRange THEN answer(s, "NEGATIVE_ID")
             ELSE srv' = [srv EXCEPT ![s].pc = "open"]
    /\ UNCHANGED <<o_file, dir, fd, opened, cl, calls>>

\* file_open: the entry with the name; file_create: an unused entry.
Named(s, name) == {e \in Entry : dir[s][e].name = name}
Free(s) == {e \in Entry : dir[s][e].name = None /\ \A d \in Entry : d < e => dir[s][d].name # None}

\* serve_open once it has an entry of opentab; O_CREAT and O_MKDIR are "CREAT".
serve_open(s) ==
    LET i == srv[s].i
        rq == srv[s].req
        found == IF rq.type = "OPEN" THEN Named(s, rq.name)
                 ELSE IF Named(s, rq.name) = {} THEN Free(s) ELSE {}
    IN
    /\ At(s, "open")
    /\ IF found = {} THEN answer(s, "E_NOT_FOUND") /\ UNCHANGED tables
       ELSE \E e \in found :
              /\ dir' = [dir EXCEPT ![s][e].name = rq.name]
              /\ o_file' = [o_file EXCEPT ![s][i] = e]
              /\ ff' = [ff EXCEPT ![s][i].fileid = o_fileid[s][i], ![s][i].size = dir[s][e].size]
              /\ answer(s, "OK")
              /\ UNCHANGED o_fileid
    /\ UNCHANGED <<fd, opened, cl, calls>>

\* Mutant: any entry with the right place will do.
open_lookup_slot(s, fileid) ==
    LET i == ((fileid % MAXFS) * MAXOPEN) % MAXOPEN
    IN  IF pageref(s, i) # 1 THEN i ELSE None

\* open_lookup.  fileid % MAXOPEN_NUM is, MAXOPEN_NUM being a macro without
\* parentheses, (fileid % MAXFS) * MAXOPEN; behind the table nothing matches.
open_lookup(s, fileid) ==
    LET i == (fileid % MAXFS) * MAXOPEN
    IN  IF i \in Slot /\ pageref(s, i) # 1 /\ o_fileid[s][i] = fileid THEN i ELSE None

\* The four requests about an open file.  When open_lookup finds no entry the
\* answer is -E_INVAL; else the file of the entry is used, with result r.
request(s, type) == At(s, "work") /\ srv[s].req.type = type
Found(s) == open_lookup(s, srv[s].req.fileid)

\* Mutant: the answer to an unknown identifier is forgotten.
refused_silent(s) == Found(s) = None /\ srv' = [srv EXCEPT ![s] = Serving("unmap", None, NoReq)]
refused(s) == Found(s) = None /\ answer(s, "E_INVAL")
carried_out(s, r) ==
    /\ Found(s) # None
    /\ srv' = [srv EXCEPT ![s].pc = "reply", ![s].answer = r, ![s].file = o_file[s][Found(s)]]

\* file_get_block fails when there is no block left.
serve_map(s) ==
    /\ request(s, "MAP")
    /\ refused(s) \/ \E r \in {"OK", "E_NO_DISK"} : carried_out(s, r)
    /\ UNCHANGED tables /\ UNCHANGED <<fd, opened, cl, calls>>

serve_set_size(s) ==
    /\ request(s, "SET_SIZE")
    /\ \/ refused(s) /\ UNCHANGED dir
       \/ carried_out(s, "OK") /\ dir' = [dir EXCEPT ![s][o_file[s][Found(s)]].size = srv[s].req.block]
    /\ UNCHANGED <<o_fileid, o_file, ff, fd, opened, cl, calls>>

\* file_close flushes the file; the entry stays as it is.
serve_close(s) ==
    /\ request(s, "CLOSE")
    /\ refused(s) \/ carried_out(s, "OK")
    /\ UNCHANGED tables /\ UNCHANGED <<fd, opened, cl, calls>>

\* file_dirty fails when it cannot get the block.
serve_dirty(s) ==
    /\ request(s, "DIRTY")
    /\ refused(s) \/ \E r \in {"OK", "E_NO_DISK"} : carried_out(s, r)
    /\ UNCHANGED tables /\ UNCHANGED <<fd, opened, cl, calls>>

\* serve_remove: the entry is cleared, whoever has the file open.
serve_remove(s) ==
    LET gone == Named(s, srv[s].req.name)
    IN
    /\ request(s, "REMOVE")
    /\ dir' = [dir EXCEPT ![s] = [e \in Entry |->
                   IF e \in gone THEN [name |-> None, size |-> 0] ELSE @[e]]]
    /\ opened' = [c \in Client |-> [n \in Fdnum |->
                    IF fd[c][n] # None /\ fd[c][n][1] = s /\ opened[c][n].entry \in gone
                    THEN [opened[c][n] EXCEPT !.gone = TRUE] ELSE opened[c][n]]]
    /\ answer(s, IF gone = {} THEN "E_NOT_FOUND" ELSE "OK")
    /\ UNCHANGED <<o_fileid, o_file, ff, fd, cl, calls>>

serve_sync(s) ==
    /\ request(s, "SYNC")
    /\ answer(s, "OK")
    /\ UNCHANGED <<o_fileid, o_file, ff, dir, fd, opened, cl, calls>>

\* A message without an argument page is left hanging, and so is one whose code no
\* case of the switch has: neither sender gets an answer.
serve_invalid(s) ==
    /\ \/ request(s, "NO_PAGE") /\ srv' = [srv EXCEPT ![s] = Serving("recv", None, NoReq)]
       \/ request(s, "UNKNOWN") /\ srv' = [srv EXCEPT ![s] = Serving("unmap", None, NoReq)]
    /\ UNCHANGED tables /\ UNCHANGED <<fd, opened, cl, calls>>

\* ipc_send of the answer, tried until the client receives; the page of an
\* opened file goes with it.
serve_reply(s) ==
    LET c == srv[s].from
        opens == srv[s].req.type \in {"OPEN", "CREAT"} /\ srv[s].answer = "OK"
        i == srv[s].i
    IN
    /\ At(s, "reply") /\ c # None /\ cl[c].pc = "recv"
    /\ cl' = [cl EXCEPT ![c].pc = "got", ![c].answer = srv[s].answer]
    /\ fd' = IF opens THEN [fd EXCEPT ![c][cl[c].n] = <<s, i>>] ELSE fd
    /\ opened' = IF opens
                 THEN [opened EXCEPT ![c][cl[c].n] =
                          [name |-> srv[s].req.name, entry |-> o_file[s][i],
                           fileid |-> o_fileid[s][i], gone |-> FALSE]]
                 ELSE opened
    /\ srv' = [srv EXCEPT ![s] = Serving("unmap", None, NoReq)]
    /\ UNCHANGED tables /\ UNCHANGED calls

\* The end of the loop of serve: REQVA is unmapped, then the next ipc_recv.
serve_loop(s) ==
    /\ At(s, "unmap")
    /\ srv' = [srv EXCEPT ![s].pc = "recv"]
    /\ UNCHANGED tables /\ UNCHANGED <<fd, opened, cl, calls>>

\* The client was destroyed meanwhile: ipc_send gets -E_BAD_ENV and
\* user_assert(r == 0) ends the server.
serve_panic(s) ==
    /\ At(s, "reply") /\ srv[s].from = None
    /\ srv' = [srv EXCEPT ![s] = Serving("dead", None, NoReq)]
    /\ UNCHANGED tables /\ UNCHANGED <<fd, opened, cl, calls>>

serve(s) ==
    \/ open_alloc(s) \/ serve_open(s) \/ serve_map(s) \/ serve_set_size(s) \/ serve_close(s)
    \/ serve_dirty(s) \/ serve_remove(s) \/ serve_sync(s) \/ serve_invalid(s)
    \/ serve_reply(s) \/ serve_panic(s) \/ serve_loop(s)

-------------------------------------------------------------------------------
\* The clients.  A call of the library is a sequence of requests; ask is one of
\* them, about the open file id; begin and back are the ends of the call.
Page(c, n) == ff[fd[c][n][1]][fd[c][n][2]]
ask(c, op, n, type, id, b, lim, old) ==
    cl' = [cl EXCEPT ![c] =
              Calling("send", op, n, FILEID2FSNO(id), Req(type, None, id, b), lim, old)]
askpath(c, op, n, s, type, name) ==
    cl' = [cl EXCEPT ![c] = Calling("send", op, n, s, Req(type, name, 0, 0), 0, 0)]
begin(c) == cl[c].pc = "idle" /\ calls < MaxCalls /\ calls' = calls + 1
back(c) == cl' = [cl EXCEPT ![c] = Idle]

\* open: fd_alloc finds the first descriptor without a page, leaving the last
\* one out, and the path names the server.
fd_alloc(c) == {n \in 0..(MAXFD - 2) : fd[c][n] = None /\ \A m \in 0..(n - 1) : fd[c][m] # None}
open(c) ==
    /\ begin(c)
    /\ \E n \in fd_alloc(c), type \in {"OPEN", "CREAT"}, name \in Name :
          askpath(c, "open", n, Root[name], type, name)
    /\ UNCHANGED tables /\ UNCHANGED <<srv, fd, opened>>

\* file_close asks to mark every block dirty, then to close.
close_from(c, op, n, id, b, lim, old) ==
    IF b < lim THEN ask(c, op, n, "DIRTY", id, b, lim, old) ELSE ask(c, op, n, "CLOSE", id, 0, lim, old)
close(c) ==
    /\ begin(c)
    /\ \E n \in Fdnum :
          fd[c][n] # None /\ close_from(c, "close", n, Page(c, n).fileid, 0, Page(c, n).size, 0)
    /\ UNCHANGED tables /\ UNCHANGED <<srv, fd, opened>>

\* dup of m onto n closes n first.
dup(c) ==
    /\ begin(c)
    /\ \E m, n \in Fdnum :
          /\ fd[c][m] # None /\ n # m
          /\ \/ /\ fd[c][n] = None
                /\ fd' = [fd EXCEPT ![c][n] = fd[c][m]]
                /\ opened' = [opened EXCEPT ![c][n] = opened[c][m]]
                /\ UNCHANGED cl
             \/ /\ fd[c][n] # None
                /\ close_from(c, "dup", n, Page(c, n).fileid, 0, Page(c, n).size, m)
                /\ UNCHANGED <<fd, opened>>
    /\ UNCHANGED tables /\ UNCHANGED srv

\* ftruncate, which file_write calls too, sets the size in the page first.
ftruncate(c) ==
    /\ begin(c)
    /\ \E n \in Fdnum, size \in 0..MaxSize :
          /\ fd[c][n] # None
          /\ ff' = [ff EXCEPT ![fd[c][n][1]][fd[c][n][2]].size = size]
          /\ ask(c, "ftruncate", n, "SET_SIZE", Page(c, n).fileid, size, size, Page(c, n).size)
    /\ UNCHANGED <<o_fileid, o_file, dir, srv, fd, opened>>

remove(c) ==
    /\ begin(c)
    /\ \E name \in Name : askpath(c, "remove", 0, Root[name], "REMOVE", name)
    /\ UNCHANGED tables /\ UNCHANGED <<srv, fd, opened>>

\* sync asks every server, in order.
sync(c) ==
    /\ begin(c)
    /\ askpath(c, "sync", 0, 0, "SYNC", None)
    /\ UNCHANGED tables /\ UNCHANGED <<srv, fd, opened>>

\* open and remove with a path of neither server: getFsNumber returns -E_NOT_FOUND,
\* and fsipc takes it for an index of envs.  The env_id it reads there is a word of
\* the client's own exception stack: as a rule 0, the client itself, which is not
\* receiving, so ipc_send tries for ever; or the id of no environment, and the
\* client panics (die).
nowhere(c) ==
    /\ begin(c)
    /\ cl' = [cl EXCEPT ![c] = Calling("lost", "open", 0, 0, NoReq, 0, 0)]
    /\ UNCHANGED tables /\ UNCHANGED <<srv, fd, opened>>

\* A program may send to a server without the library, and wait for the answer.
stray(c) ==
    /\ begin(c)
    /\ \E s \in Server, type \in {"NO_PAGE", "UNKNOWN"} : askpath(c, "stray", 0, s, type, None)
    /\ UNCHANGED tables /\ UNCHANGED <<srv, fd, opened>>

\* fsipc: ipc_send, tried until the server receives, then ipc_recv.
ipc_send(c) ==
    LET s == cl[c].to
        opens == cl[c].req.type \in {"OPEN", "CREAT"}
    IN
    /\ cl[c].pc = "send" /\ At(s, "recv")
    /\ srv' = [srv EXCEPT ![s] = Serving(IF opens THEN "alloc" ELSE "work", c, cl[c].req)]
    /\ cl' = [cl EXCEPT ![c].pc = "sent"]
    /\ UNCHANGED tables /\ UNCHANGED <<fd, opened, calls>>
ipc_recv(c) ==
    /\ cl[c].pc = "sent"
    /\ cl' = [cl EXCEPT ![c].pc = "recv"]
    /\ UNCHANGED tables /\ UNCHANGED <<srv, fd, opened, calls>>

\* What open does with an answer: map the blocks of the file; an error ends the
\* call and leaves the descriptor as it is.
open_got(c) ==
    LET me == cl[c]
        mapped == me.req.type = "MAP"
        b == IF mapped THEN me.req.block + 1 ELSE 0
        id == IF mapped THEN me.req.fileid ELSE Page(c, me.n).fileid
        lim == IF mapped THEN me.lim ELSE Page(c, me.n).size
    IN
    /\ me.pc = "got" /\ me.op = "open"
    /\ IF me.answer = "OK" /\ b < lim THEN ask(c, "open", me.n, "MAP", id, b, lim, 0) ELSE back(c)
    /\ UNCHANGED tables /\ UNCHANGED <<srv, fd, opened, calls>>

\* close and dup: whatever the answers are, the page is unmapped in the end.
close_got(c) ==
    LET me == cl[c]
        dups == me.op = "dup"
    IN
    /\ me.pc = "got" /\ me.op \in {"close", "dup"}
    /\ \/ /\ me.req.type = "DIRTY"
          /\ close_from(c, me.op, me.n, me.req.fileid, me.req.block + 1, me.lim, me.old)
          /\ UNCHANGED <<fd, opened>>
       \/ /\ me.req.type = "CLOSE"
          /\ fd' = [fd EXCEPT ![c][me.n] = IF dups THEN fd[c][me.old] ELSE None]
          /\ opened' = [opened EXCEPT ![c][me.n] = IF dups THEN opened[c][me.old] ELSE None]
          /\ back(c)
    /\ UNCHANGED tables /\ UNCHANGED <<srv, calls>>

\* ftruncate maps the new blocks; when that fails it sets the old size again, at
\* the server only.
ftruncate_got(c) ==
    LET me == cl[c]
        mapped == me.req.type = "MAP"
        b == IF mapped THEN me.req.block + 1 ELSE me.old
    IN
    /\ me.pc = "got" /\ me.op = "ftruncate"
    /\ \/ /\ me.answer = "OK" /\ b < me.lim
          /\ ask(c, "ftruncate", me.n, "MAP", me.req.fileid, b, me.lim, me.old)
       \/ me.answer # "OK" /\ mapped /\ ask(c, "undo", me.n, "SET_SIZE", me.req.fileid, me.old, 0, 0)
       \/ (IF me.answer = "OK" THEN b >= me.lim ELSE ~mapped) /\ back(c)
    /\ UNCHANGED tables /\ UNCHANGED <<srv, fd, opened, calls>>

\* The answers that end a call, but for the first ones of sync.
rest_got(c) ==
    /\ cl[c].pc = "got" /\ cl[c].op \in {"undo", "remove", "sync"}
    /\ IF cl[c].op = "sync" /\ cl[c].answer = "OK" /\ cl[c].to < MAXFS - 1
       THEN askpath(c, "sync", 0, cl[c].to + 1, "SYNC", None)
       ELSE back(c)
    /\ UNCHANGED tables /\ UNCHANGED <<srv, fd, opened, calls>>

\* An environment ends: its pages are unmapped and no file is closed.
env_destroy(c) ==
    /\ cl' = [cl EXCEPT ![c] = Dead]
    /\ fd' = [fd EXCEPT ![c] = [n \in Fdnum |-> None]]
    /\ opened' = [opened EXCEPT ![c] = [n \in Fdnum |-> None]]
    /\ srv' = [s \in Server |-> IF srv[s].from = c THEN [srv[s] EXCEPT !.from = None] ELSE srv[s]]
    /\ UNCHANGED tables

\* That may happen at any point of a call, by a panic, a fault or the parent;
\* exit closes every descriptor before it.
die(c) ==
    /\ cl[c].pc # "dead" /\ calls < MaxCalls
    /\ calls' = calls + 1
    /\ env_destroy(c)

\* ipc_send to a server that has ended: -E_BAD_ENV, and the assertion.
send_panic(c) == cl[c].pc = "send" /\ At(cl[c].to, "dead") /\ env_destroy(c) /\ UNCHANGED calls

\* fork and spawn: the pages of descriptors (PTE_LIBRARY) are shared.
fork(c, d) ==
    /\ cl[c].pc = "idle" /\ cl[d].pc = "dead"
    /\ cl' = [cl EXCEPT ![d] = Idle]
    /\ fd' = [fd EXCEPT ![d] = fd[c]]
    /\ opened' = [opened EXCEPT ![d] = opened[c]]
    /\ UNCHANGED tables /\ UNCHANGED <<srv, calls>>

\* The rest of a call that was begun.
proceed(c) ==
    \/ ipc_send(c) \/ ipc_recv(c) \/ open_got(c) \/ close_got(c) \/ ftruncate_got(c) \/ rest_got(c)
    \/ send_panic(c)

Next ==
    \/ \E s \in Server : serve(s)
    \/ \E c \in Client : \/ open(c) \/ close(c) \/ dup(c) \/ ftruncate(c) \/ remove(c) \/ sync(c)
                        \/ nowhere(c) \/ stray(c) \/ proceed(c) \/ die(c)
    \/ \E c, d \in Client : fork(c, d)

Spec == Init /\ [][Next]_vars

\* The scheduler runs every runnable environment again and again, as long as none
\* waits for ever for the console inside the kernel (RunnableRuns of EnvSched); when
\* one does, the servers stand still with everybody else.
FairSpec ==
    /\ Spec
    /\ \A s \in Server : WF_vars(serve(s))
    /\ \A c \in Client : WF_vars(proceed(c))

-------------------------------------------------------------------------------
\* The pages, directory entries, open files, servers and clients.
Filefd == [here : BOOLEAN, fileid : Fileid, size : 0..MaxSize]
DirEntry == [name : Name \cup {None}, size : 0..MaxSize]
Opened == [name : Name, entry : Entry, fileid : Fileid, gone : BOOLEAN]
ServerState ==
    [pc : {"recv", "alloc", "open", "work", "reply", "unmap", "dead"},
     from : Client \cup {None}, req : Request, i : 0..MAXOPEN,
     answer : Answer, file : Entry \cup {None}]
ClientState ==
    [pc : {"idle", "send", "sent", "recv", "got", "lost", "dead"},
     op : {"open", "close", "dup", "ftruncate", "undo", "remove", "sync", "stray"},
     n : Fdnum, to : Server, req : Request, lim : 0..MaxSize,
     old : 0..(MaxSize + MAXFD), answer : Answer]

\* The type invariant of the tables, the servers and the clients.
TypeOK ==
    /\ o_fileid \in [Server -> [Slot -> Fileid]]
    /\ o_file \in [Server -> [Slot -> Entry]]
    /\ ff \in [Server -> [Slot -> Filefd]]
    /\ dir \in [Server -> [Entry -> DirEntry]]
    /\ srv \in [Server -> ServerState]
    /\ fd \in [Client -> [Fdnum -> (Server \X Slot) \cup {None}]]
    /\ opened \in [Client -> [Fdnum -> Opened \cup {None}]]
    /\ cl \in [Client -> ClientState]
    /\ calls \in 0..MaxCalls

\* However clients open, share, close and die while open_alloc counts references,
\* a descriptor keeps the file it was opened with: neither its page nor its entry
\* of opentab is given to another open as long as one client maps the page.
DescriptorKeepsFile ==
    \A c \in Client, n \in Fdnum : fd[c][n] # None =>
        LET s == fd[c][n][1]
            i == fd[c][n][2]
        IN  /\ ff[s][i].fileid = opened[c][n].fileid
            /\ o_fileid[s][i] = opened[c][n].fileid
            /\ o_file[s][i] = opened[c][n].entry

\* A request about an open file, routed by FILEID2FSNO of the identifier in the
\* page, is at work in the server that opened the file, for every file open, and
\* that server carries it out on the file the client opened, which still has its
\* name unless it was removed meanwhile.
RightFile ==
    \A s \in Server : srv[s].from # None =>
        LET c == srv[s].from
            o == opened[c][cl[c].n]
        IN  /\ At(s, "work") /\ srv[s].req.type \in {"MAP", "SET_SIZE", "CLOSE", "DIRTY"} =>
                  fd[c][cl[c].n] # None /\ fd[c][cl[c].n][1] = s
            /\ At(s, "reply") /\ srv[s].file # None =>
                  srv[s].file = o.entry /\ (o.gone \/ dir[s][o.entry].name = o.name)

\* A request of the library that a server has received is answered, whoever else
\* dies and whatever other clients send: no handler forgets the ipc_send of its
\* answer, and a server neither waits for a client that is gone nor stops at a stray
\* message.  The sender of such a message, without an argument page or with an
\* unknown code, gets no answer ("just leave it hanging", serv.c:225), and the claim
\* is not about it.
Answered ==
    \A c \in Client :
        cl[c].pc \in {"sent", "recv"} /\ cl[c].op # "stray" ~> cl[c].pc \in {"got", "dead"}

\* A client can use every file it has open: no request about one is refused with
\* -E_INVAL.
OpenFilesUsable ==
    \A c \in Client : cl[c].pc = "got" => cl[c].answer # "E_INVAL"
===============================================================================
