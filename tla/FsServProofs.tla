----------------------------- MODULE FsServProofs -----------------------------
(***************************************************************************)
(* For any number of servers, clients, descriptors and entries of opentab, *)
(* and any wrap of the identifiers: a descriptor keeps its file, and every *)
(* request about it is carried out by the right server on the right file.  *)
(***************************************************************************)
EXTENDS FsServ, FiniteSetTheorems, TLAPS

Opens == {"OPEN", "CREAT"}
AboutFile == {"MAP", "SET_SIZE", "CLOSE", "DIRTY"}

\* The identifier of an entry tells the entry and its server, however often it was
\* advanced.
IdOK(s, i) == o_fileid[s][i] % MAXOPEN_NUM = i + s * MAXOPEN

IdInv == \A s \in Server, i \in Slot : IdOK(s, i)

\* A descriptor, its page and its entry of opentab are of one file, which has the name
\* it was opened with as long as it was not removed.
FdOK(c, n, s, i) ==
    LET o == opened[c][n]
    IN  /\ o \in Opened
        /\ ff[s][i].here
        /\ ff[s][i].fileid = o.fileid /\ o_fileid[s][i] = o.fileid /\ o_file[s][i] = o.entry
        /\ o.gone \/ dir[s][o.entry].name = o.name

FdInv ==
    \A c \in Client, n \in Fdnum, s \in Server, i \in Slot :
        fd[c][n] = <<s, i>> => FdOK(c, n, s, i)

\* Nobody maps the page that a server is giving to an open.
SrvOK(s) ==
    LET i == srv[s].i
        rq == srv[s].req
    IN  /\ srv[s].pc \in {"alloc", "open"} => rq.type \in Opens /\ rq.name \in Name
        /\ srv[s].pc = "work" => rq.type \notin Opens
        /\ srv[s].pc # "reply" => srv[s].file = None
        /\ srv[s].pc = "open" => /\ i \in Slot /\ ff[s][i].here
                                 /\ \A c \in Client, n \in Fdnum : fd[c][n] # <<s, i>>
        /\ srv[s].pc = "reply" /\ rq.type \in Opens /\ srv[s].answer = "OK" =>
              /\ i \in Slot /\ ff[s][i].here /\ ff[s][i].fileid = o_fileid[s][i]
              /\ rq.name \in Name /\ dir[s][o_file[s][i]].name = rq.name
        /\ srv[s].file # None => rq.type \in AboutFile

SrvInv == \A s \in Server : SrvOK(s)

\* A server works for a client that waits for this server's answer.
FromOK(s, c) ==
    /\ srv[s].pc \in {"alloc", "open", "work", "reply"}
    /\ cl[c].pc \in {"sent", "recv"} /\ cl[c].to = s /\ cl[c].req = srv[s].req
    /\ srv[s].pc = "reply" /\ srv[s].file # None => srv[s].file = opened[c][cl[c].n].entry

FromInv == \A s \in Server, c \in Client : srv[s].from = c => FromOK(s, c)

\* A call in progress holds its descriptor, and the identifier it asks with is still
\* the one of the file.
InCall == {"send", "sent", "recv", "got"}

HoldsFile(c) ==
    /\ fd[c][cl[c].n] # None
    /\ fd[c][cl[c].n][1] = cl[c].to
    /\ cl[c].req.fileid = opened[c][cl[c].n].fileid

CallOK(c) ==
    LET type == cl[c].req.type
        op == cl[c].op
    IN  /\ type \in AboutFile => HoldsFile(c)
        /\ type \in Opens => op = "open" /\ cl[c].req.name \in Name
        /\ type \in Opens /\ cl[c].pc = "got" /\ cl[c].answer = "OK" => fd[c][cl[c].n] # None
        /\ op = "open" => type \in Opens \cup {"MAP"}
        /\ op \in {"close", "dup"} => type \in {"DIRTY", "CLOSE"}
        /\ op = "dup" => cl[c].old \in Fdnum
        /\ op = "ftruncate" => type \in {"SET_SIZE", "MAP"} /\ cl[c].old \in 0..MaxSize
        /\ op \in {"remove", "sync"} => type \notin AboutFile

CallInv == \A c \in Client : cl[c].pc \in InCall => CallOK(c)

IInv == TypeOK /\ IdInv /\ FdInv /\ SrvInv /\ FromInv /\ CallInv

-------------------------------------------------------------------------------
\* The sizes.
LEMMA Sizes ==
    /\ MAXFS \in Nat \ {0} /\ MAXOPEN \in Nat \ {0} /\ MAXOPEN_NUM \in Nat \ {0}
    /\ MAXFD \in Nat \ {0} /\ MaxSize \in Nat /\ MaxCalls \in Nat /\ IdRange \in Nat \ {0}
    /\ NENT \in Nat \ {0}
    /\ 0 \in Server /\ 0 \in Slot /\ 0 \in Fdnum /\ 0 \in Entry /\ 0 \in Fileid /\ 0 \in 0..MaxSize
    /\ \E t \in Int : IdRange = MAXOPEN_NUM * t
<1>1. /\ MAXFS \in Nat \ {0} /\ MAXOPEN \in Nat \ {0}
      /\ MAXFD \in Nat \ {0} /\ MaxSize \in Nat /\ MaxCalls \in Nat /\ IdRange \in Nat \ {0}
      /\ NENT \in Nat \ {0}
  BY ServAssumption
<1>2. MAXOPEN_NUM \in Nat \ {0}  BY <1>1 DEF MAXOPEN_NUM
<1>3. IdRange % (2 * MAXOPEN_NUM) = 0
  <2>1. 2 * MAXFS * MAXOPEN = 2 * MAXOPEN_NUM  BY <1>1 DEF MAXOPEN_NUM
  <2> QED  BY <2>1, ServAssumption
<1>4. PICK m \in Nat \ {0} : m = 2 * MAXOPEN_NUM  BY <1>2
<1>5. IdRange % m = 0  BY <1>3, <1>4
<1>6. PICK d \in Int : IdRange = m * d
  <2>1. IdRange % m = IdRange - m * (IdRange \div m)  BY <1>1
  <2>2. PICK e \in Int : e = IdRange \div m  BY <1>1
  <2>3. IdRange - m * e = 0  BY <1>5, <2>1, <2>2
  <2>4. IdRange = m * e  BY <1>1, <2>3
  <2> QED  BY <2>4
<1>7. IdRange = MAXOPEN_NUM * (2 * d)  BY <1>2, <1>4, <1>6
<1>8. 2 * d \in Int  OBVIOUS
<1> QED  BY <1>1, <1>2, <1>7, <1>8 DEF Server, Slot, Fdnum, Entry, Fileid

\* Division with remainder, and that there is only one.
LEMMA Remainder ==
    ASSUME NEW x \in Int, NEW m \in Nat \ {0}
    PROVE  \E r \in 0..(m - 1), d \in Int : r = x % m /\ d = x \div m /\ x = m * d + r
<1>1. x % m \in 0..(m - 1)  OBVIOUS
<1>2. x % m = x - m * (x \div m)  OBVIOUS
<1>3. PICK d \in Int : d = x \div m  OBVIOUS
<1>4. PICK r \in Int : r = x % m  OBVIOUS
<1>5. r = x - m * d  BY <1>2, <1>3, <1>4
<1>6. x = m * d + r  BY <1>5
<1>7. r \in 0..(m - 1)  BY <1>1, <1>4, Zenon
<1> QED  BY <1>3, <1>4, <1>6, <1>7, Zenon

\* Quotient and remainder are unique.
LEMMA RemainderUnique ==
    ASSUME NEW m \in Nat \ {0}, NEW a \in Int, NEW b \in Int,
           NEW r \in 0..(m - 1), NEW s \in 0..(m - 1), m * a + r = m * b + s
    PROVE  r = s /\ a = b
<1>1. r = s  OBVIOUS
<1>2. m * (a - b) = 0  BY <1>1
<1>3. a - b = 0  BY <1>2
<1> QED  BY <1>1, <1>3

\* Multiples of the modulus do not change the remainder.
LEMMA Congruent ==
    ASSUME NEW m \in Nat \ {0}, NEW x \in Int, NEW y \in Int, NEW k \in Int, x = y + m * k
    PROVE  x % m = y % m
<1>1. PICK r \in 0..(m - 1), c \in Int : r = x % m /\ c = x \div m /\ x = m * c + r
  BY Remainder, Zenon
<1>2. PICK s \in 0..(m - 1), d \in Int : s = y % m /\ d = y \div m /\ y = m * d + s
  BY Remainder, Zenon
<1>3. m * c + r = m * (d + k) + s
  <2>1. m * (d + k) = m * d + m * k  OBVIOUS
  <2>2. x = m * c + r  BY <1>1, Zenon
  <2>3. y = m * d + s  BY <1>2, Zenon
  <2> QED  BY <2>1, <2>2, <2>3
<1>4. d + k \in Int  OBVIOUS
<1>5. r = s  BY <1>3, <1>4, RemainderUnique
<1> QED  BY <1>1, <1>2, <1>5, Zenon

\* Entry and server can be read off the place in a table of all entries.
LEMMA PlaceUnique ==
    ASSUME NEW s \in Server, NEW i \in Slot, NEW t \in Server, NEW j \in Slot,
           i + s * MAXOPEN = j + t * MAXOPEN
    PROVE  s = t /\ i = j
<1>1. s \in Int /\ t \in Int /\ MAXOPEN \in Nat \ {0}
  BY Sizes DEF Server
<1>2. i \in 0..(MAXOPEN - 1) /\ j \in 0..(MAXOPEN - 1)  BY DEF Slot
<1>3. MAXOPEN * s + i = MAXOPEN * t + j  BY <1>1, <1>2
<1> QED  BY <1>1, <1>2, <1>3, RemainderUnique

\* The place is in the table.
LEMMA PlaceInTable ==
    ASSUME NEW s \in Server, NEW i \in Slot
    PROVE  i + s * MAXOPEN \in 0..(MAXOPEN_NUM - 1)
<1>1. MAXFS \in Nat \ {0} /\ MAXOPEN \in Nat \ {0}  BY Sizes
<1>2. PICK d \in Nat : d = MAXFS - 1 - s  BY <1>1 DEF Server
<1>3. s \in Nat /\ i \in Nat /\ i <= MAXOPEN - 1  BY <1>1 DEF Server, Slot
<1>4. MAXFS * MAXOPEN = s * MAXOPEN + MAXOPEN + d * MAXOPEN
  <2>1. MAXFS = s + 1 + d  BY <1>1, <1>2, <1>3
  <2>2. (s + 1 + d) * MAXOPEN = s * MAXOPEN + MAXOPEN + d * MAXOPEN  BY <1>1, <1>2, <1>3
  <2> QED  BY <2>1, <2>2
<1>5. d * MAXOPEN \in Nat /\ s * MAXOPEN \in Nat  BY <1>1, <1>2, <1>3
<1> QED  BY <1>1, <1>3, <1>4, <1>5 DEF MAXOPEN_NUM

\* FILEID2FSNO of the identifier of an entry is its server.
LEMMA RoutedToServer ==
    ASSUME NEW s \in Server, NEW i \in Slot, NEW id \in Fileid, id % MAXOPEN_NUM = i + s * MAXOPEN
    PROVE  FILEID2FSNO(id) = s
<1>1. s \in Int /\ MAXOPEN \in Nat \ {0} /\ i \in 0..(MAXOPEN - 1)
  BY Sizes DEF Server, Slot
<1>2. PICK x \in Int : x = i + s * MAXOPEN  BY <1>1
<1>3. PICK r \in 0..(MAXOPEN - 1), d \in Int : r = x % MAXOPEN /\ d = x \div MAXOPEN /\ x = MAXOPEN * d + r
  BY <1>1, Remainder, Zenon
<1>4. x = MAXOPEN * s + i  BY <1>1, <1>2
<1>5. x = MAXOPEN * d + r  BY <1>3, Zenon
<1>6. d = s  BY <1>1, <1>4, <1>5, RemainderUnique
<1> QED  BY <1>2, <1>3, <1>6 DEF FILEID2FSNO

\* FILEID2FSNO names a server whatever the identifier.
LEMMA RoutedSomewhere ==
    ASSUME NEW id \in Fileid
    PROVE  FILEID2FSNO(id) \in Server
<1>1. /\ MAXFS \in Nat \ {0} /\ MAXOPEN \in Nat \ {0} /\ MAXOPEN_NUM \in Nat \ {0} /\ id \in Int
  BY Sizes DEF Fileid
<1>2. PICK x \in 0..(MAXOPEN_NUM - 1) : x = id % MAXOPEN_NUM  BY <1>1
<1>3. x \in Int /\ 0 <= x /\ x < MAXFS * MAXOPEN  BY <1>1, <1>2 DEF MAXOPEN_NUM
<1>4. PICK r \in 0..(MAXOPEN - 1), d \in Int : r = x % MAXOPEN /\ d = x \div MAXOPEN /\ x = MAXOPEN * d + r
  BY <1>1, <1>3, Remainder, Zenon
<1>5. x = MAXOPEN * d + r  BY <1>4, Zenon
<1>6. d >= 0
  <2>1. SUFFICES ASSUME d <= -1 PROVE FALSE  OBVIOUS
  <2>2. MAXOPEN * d <= -MAXOPEN  BY <1>1, <2>1
  <2> QED  BY <1>1, <1>3, <1>5, <2>2
<1>7. d < MAXFS
  <2>1. SUFFICES ASSUME d >= MAXFS PROVE FALSE  BY <1>1
  <2>2. MAXOPEN * d >= MAXOPEN * MAXFS  BY <1>1, <2>1
  <2>3. MAXOPEN * MAXFS = MAXFS * MAXOPEN  BY <1>1
  <2>4. MAXOPEN * d \in Int /\ MAXOPEN * MAXFS \in Int  BY <1>1
  <2> QED  BY <1>1, <1>3, <1>5, <2>2, <2>3, <2>4
<1>8. d \in Server  BY <1>1, <1>6, <1>7 DEF Server
<1> QED  BY <1>2, <1>4, <1>8 DEF FILEID2FSNO

\* o_fileid += MAXOPEN_NUM keeps the place, through the wrap of a u_int too.
LEMMA NewFileid ==
    ASSUME NEW id \in Fileid
    PROVE  new_fileid(id) \in Fileid /\ new_fileid(id) % MAXOPEN_NUM = id % MAXOPEN_NUM
<1>1. MAXOPEN_NUM \in Nat \ {0} /\ IdRange \in Nat \ {0} /\ id \in Int  BY Sizes DEF Fileid
<1>2. PICK t \in Int : IdRange = MAXOPEN_NUM * t  BY Sizes
<1>3. PICK x \in Int : x = id + MAXOPEN_NUM  BY <1>1
<1>4. PICK r \in 0..(IdRange - 1), d \in Int : r = x % IdRange /\ d = x \div IdRange /\ x = IdRange * d + r
  BY <1>1, Remainder, Zenon
<1>5. x = IdRange * d + r  BY <1>4, Zenon
<1>6. PICK k \in Int : k = 1 - t * d  OBVIOUS
<1>7. r = id + MAXOPEN_NUM * k
  <2>1. IdRange * d = MAXOPEN_NUM * (t * d)  BY <1>1, <1>2
  <2>2. MAXOPEN_NUM * k = MAXOPEN_NUM - MAXOPEN_NUM * (t * d)  BY <1>1, <1>6
  <2>3. PICK z \in Int : z = MAXOPEN_NUM * (t * d)  BY <1>1
  <2> QED  BY <1>1, <1>3, <1>5, <2>1, <2>2, <2>3
<1>8. r \in Int  BY <1>1
<1>9. r % MAXOPEN_NUM = id % MAXOPEN_NUM  BY <1>1, <1>7, <1>8, Congruent, Zenon
<1>10. new_fileid(id) = r  BY <1>3, <1>4 DEF new_fileid
<1> QED  BY <1>9, <1>10 DEF Fileid

-------------------------------------------------------------------------------
\* The records of servers and clients when they are made.
LEMMA ReqFields ==
    ASSUME NEW type \in Type, NEW name \in Name \cup {None}, NEW id \in Fileid, NEW b \in 0..MaxSize
    PROVE  LET r == Req(type, name, id, b)
           IN  r \in Request /\ r.type = type /\ r.name = name /\ r.fileid = id /\ r.block = b
BY DEF Req, Request

\* The request of nobody.
LEMMA NoReqFields == NoReq \in Request /\ NoReq.type = "SYNC"
BY Sizes, ReqFields DEF NoReq, Type

ServerPc == {"recv", "alloc", "open", "work", "reply", "unmap", "dead"}
ClientPc == {"idle", "send", "sent", "recv", "got", "lost", "dead"}
ClientOp == {"open", "close", "dup", "ftruncate", "undo", "remove", "sync", "stray"}

\* A server that has received a request, or has none.
LEMMA ServingFields ==
    ASSUME NEW where \in ServerPc, NEW from \in Client \cup {None}, NEW req \in Request
    PROVE  LET r == Serving(where, from, req)
           IN  /\ r \in ServerState
               /\ r.pc = where /\ r.from = from /\ r.req = req /\ r.i = 0 /\ r.answer = "OK"
               /\ r.file = None
<1>1. 0 \in 0..MAXOPEN  BY Sizes
<1> QED  BY <1>1 DEF Serving, ServerState, Answer, ServerPc

\* A client in a call.
LEMMA CallingFields ==
    ASSUME NEW where \in ClientPc, NEW op \in ClientOp, NEW n \in Fdnum, NEW to \in Server,
           NEW req \in Request, NEW lim \in 0..MaxSize, NEW old \in 0..(MaxSize + MAXFD)
    PROVE  LET r == Calling(where, op, n, to, req, lim, old)
           IN  /\ r \in ClientState
               /\ r.pc = where /\ r.op = op /\ r.n = n /\ r.to = to /\ r.req = req
               /\ r.lim = lim /\ r.old = old /\ r.answer = "OK"
BY DEF Calling, ClientState, Answer, ClientPc, ClientOp

\* A client between two calls, and a free slot.
LEMMA IdleFields ==
    Idle \in ClientState /\ Idle.pc = "idle" /\ Dead \in ClientState /\ Dead.pc = "dead"
<1>1. 0 \in 0..(MaxSize + MAXFD) /\ 0 \in 0..MaxSize /\ 0 \in Fdnum /\ 0 \in Server
  BY Sizes
<1>2. "idle" \in ClientPc /\ "dead" \in ClientPc /\ "sync" \in ClientOp
  BY DEF ClientPc, ClientOp
<1> QED  BY <1>1, <1>2, NoReqFields, CallingFields DEF Idle, Dead

\* The fields, typed.
LEMMA FieldTypes ==
    ASSUME TypeOK
    PROVE  /\ \A s \in Server : /\ srv[s] \in ServerState /\ srv[s].pc \in ServerPc
                                /\ srv[s].req \in Request /\ srv[s].req.type \in Type
                                /\ srv[s].req.name \in Name \cup {None}
                                /\ srv[s].req.fileid \in Fileid /\ srv[s].req.block \in 0..MaxSize
                                /\ srv[s].i \in 0..MAXOPEN /\ srv[s].from \in Client \cup {None}
           /\ \A c \in Client : /\ cl[c] \in ClientState /\ cl[c].pc \in ClientPc
                                /\ cl[c].op \in ClientOp /\ cl[c].n \in Fdnum
                                /\ cl[c].to \in Server /\ cl[c].req \in Request
                                /\ cl[c].req.type \in Type
                                /\ cl[c].req.name \in Name \cup {None}
                                /\ cl[c].req.fileid \in Fileid /\ cl[c].req.block \in 0..MaxSize
                                /\ cl[c].lim \in 0..MaxSize /\ cl[c].old \in 0..(MaxSize + MAXFD)
                                /\ cl[c].answer \in Answer
           /\ \A s \in Server, i \in Slot : /\ ff[s][i] \in Filefd /\ ff[s][i].here \in BOOLEAN
                                            /\ ff[s][i].fileid \in Fileid
                                            /\ ff[s][i].size \in 0..MaxSize
                                            /\ o_fileid[s][i] \in Fileid
                                            /\ o_file[s][i] \in Entry
           /\ \A s \in Server, e \in Entry : /\ dir[s][e] \in DirEntry
                                             /\ dir[s][e].name \in Name \cup {None}
                                             /\ dir[s][e].size \in 0..MaxSize
           /\ \A c \in Client, n \in Fdnum :
                 fd[c][n] # None => \E s \in Server, i \in Slot : fd[c][n] = <<s, i>>
<1>1. \A s \in Server : srv[s] \in ServerState  BY DEF TypeOK
<1>2. \A c \in Client : cl[c] \in ClientState  BY DEF TypeOK
<1>3. \A s \in Server, i \in Slot : ff[s][i] \in Filefd /\ o_fileid[s][i] \in Fileid /\ o_file[s][i] \in Entry
  BY DEF TypeOK
<1>4. \A s \in Server, e \in Entry : dir[s][e] \in DirEntry  BY DEF TypeOK
<1>5. ASSUME NEW c \in Client, NEW n \in Fdnum, fd[c][n] # None
      PROVE  \E s \in Server, i \in Slot : fd[c][n] = <<s, i>>
  <2>1. fd[c][n] \in (Server \X Slot)  BY <1>5 DEF TypeOK
  <2> QED  BY <2>1
<1>6. ASSUME NEW s \in Server
      PROVE  /\ srv[s].pc \in ServerPc
             /\ srv[s].req \in Request /\ srv[s].req.type \in Type
             /\ srv[s].req.name \in Name \cup {None}
             /\ srv[s].req.fileid \in Fileid /\ srv[s].req.block \in 0..MaxSize
             /\ srv[s].i \in 0..MAXOPEN /\ srv[s].from \in Client \cup {None}
  BY <1>1 DEF ServerState, Request, ServerPc
<1>7. ASSUME NEW c \in Client
      PROVE  /\ cl[c].pc \in ClientPc
             /\ cl[c].op \in ClientOp /\ cl[c].n \in Fdnum
             /\ cl[c].to \in Server /\ cl[c].req \in Request
             /\ cl[c].req.type \in Type
             /\ cl[c].req.name \in Name \cup {None}
             /\ cl[c].req.fileid \in Fileid /\ cl[c].req.block \in 0..MaxSize
             /\ cl[c].lim \in 0..MaxSize /\ cl[c].old \in 0..(MaxSize + MAXFD)
             /\ cl[c].answer \in Answer
  BY <1>2 DEF ClientState, Request, ClientPc, ClientOp
<1>8. \A s \in Server, i \in Slot : /\ ff[s][i].here \in BOOLEAN /\ ff[s][i].fileid \in Fileid
                                    /\ ff[s][i].size \in 0..MaxSize
  BY <1>3 DEF Filefd
<1>9. \A s \in Server, e \in Entry : dir[s][e].name \in Name \cup {None} /\ dir[s][e].size \in 0..MaxSize
  BY <1>4 DEF DirEntry
<1> QED  BY <1>1, <1>2, <1>3, <1>4, <1>5, <1>6, <1>7, <1>8, <1>9

-------------------------------------------------------------------------------
\* A step of server s inside a request keeps the request and its sender.
OtherServers(s) == \A t \in Server \ {s} : srv'[t] = srv[t]

SameRequest(s) ==
    /\ srv' \in [Server -> ServerState] /\ OtherServers(s)
    /\ srv'[s].from = srv[s].from /\ srv'[s].req = srv[s].req

\* answer sets the place and the answer.
LEMMA AnswerFields ==
    ASSUME TypeOK, NEW s \in Server, NEW r \in Answer, answer(s, r)
    PROVE  /\ SameRequest(s) /\ srv'[s].pc = "reply" /\ srv'[s].answer = r
           /\ srv'[s].i = srv[s].i /\ srv'[s].file = srv[s].file
<1>1. srv \in [Server -> ServerState] /\ srv[s] \in ServerState  BY DEF TypeOK
<1> QED  BY <1>1 DEF answer, SameRequest, OtherServers, ServerState

\* carried_out sets the file too, from the entry open_lookup found.
LEMMA CarriedOutFields ==
    ASSUME TypeOK, NEW s \in Server, NEW r \in Answer, carried_out(s, r)
    PROVE  /\ SameRequest(s) /\ srv'[s].pc = "reply" /\ srv'[s].answer = r
           /\ srv'[s].i = srv[s].i
           /\ Found(s) \in Slot /\ srv'[s].file = o_file[s][Found(s)]
           /\ o_fileid[s][Found(s)] = srv[s].req.fileid
<1>1. srv \in [Server -> ServerState] /\ srv[s] \in ServerState  BY DEF TypeOK
<1>2. Found(s) \in Slot /\ o_fileid[s][Found(s)] = srv[s].req.fileid
  BY DEF carried_out, Found, open_lookup
<1>3. PICK e \in Entry : e = o_file[s][Found(s)]  BY <1>2, FieldTypes
<1>4. srv' = [srv EXCEPT ![s].pc = "reply", ![s].answer = r, ![s].file = e]
  BY <1>3 DEF carried_out
<1>5. /\ SameRequest(s) /\ srv'[s].pc = "reply" /\ srv'[s].answer = r
      /\ srv'[s].i = srv[s].i /\ srv'[s].file = e
  BY <1>1, <1>4 DEF SameRequest, OtherServers, ServerState
<1> QED  BY <1>2, <1>3, <1>5

\* The other assignments to one field of a server.
LEMMA OneField ==
    ASSUME TypeOK, NEW s \in Server, NEW where \in ServerPc, NEW i \in 0..MAXOPEN
    PROVE  /\ srv' = [srv EXCEPT ![s].pc = where] =>
                 /\ SameRequest(s) /\ srv'[s].pc = where /\ srv'[s].i = srv[s].i
                 /\ srv'[s].file = srv[s].file /\ srv'[s].answer = srv[s].answer
           /\ srv' = [srv EXCEPT ![s].i = i] =>
                 /\ SameRequest(s) /\ srv'[s].i = i /\ srv'[s].pc = srv[s].pc
                 /\ srv'[s].file = srv[s].file /\ srv'[s].answer = srv[s].answer
<1>1. srv \in [Server -> ServerState] /\ srv[s] \in ServerState  BY DEF TypeOK
<1>2. ASSUME srv' = [srv EXCEPT ![s].pc = where]
      PROVE  /\ SameRequest(s) /\ srv'[s].pc = where /\ srv'[s].i = srv[s].i
             /\ srv'[s].file = srv[s].file /\ srv'[s].answer = srv[s].answer
  BY <1>1, <1>2 DEF SameRequest, OtherServers, ServerState, ServerPc
<1>3. ASSUME srv' = [srv EXCEPT ![s].i = i]
      PROVE  /\ SameRequest(s) /\ srv'[s].i = i /\ srv'[s].pc = srv[s].pc
             /\ srv'[s].file = srv[s].file /\ srv'[s].answer = srv[s].answer
  BY <1>1, <1>3 DEF SameRequest, OtherServers, ServerState
<1> QED  BY <1>2, <1>3

\* pageref tells whether a client has the page.
LEMMA UnusedMeansUnmapped ==
    ASSUME TypeOK, FdInv, NEW s \in Server, NEW i \in Slot, Unused(s, i),
           NEW c \in Client, NEW n \in Fdnum
    PROVE  fd[c][n] # <<s, i>>
<1> SUFFICES ASSUME fd[c][n] = <<s, i>> PROVE FALSE
  OBVIOUS
<1>1. ff[s][i].here  BY DEF FdInv, FdOK
<1>2. PICK S : S = Sharers(s, i)  OBVIOUS
<1>3. S \subseteq Client \X Fdnum /\ <<c, n>> \in S  BY <1>2 DEF Sharers
<1>4. IsFiniteSet(S)
  <2>1. MAXFD - 1 \in Int  BY Sizes
  <2>2. IsFiniteSet(Fdnum)  BY <2>1, FS_Interval DEF Fdnum
  <2>3. IsFiniteSet(Client \X Fdnum)  BY <2>2, ServAssumption, FS_Product
  <2> QED  BY <1>3, <2>3, FS_Subset
<1>5. Cardinality(S) \in Nat /\ Cardinality(S) # 0
  BY <1>3, <1>4, FS_CardinalityType, FS_EmptySet
<1>6. pageref(s, i) = 1 + Cardinality(S)  BY <1>1, <1>2 DEF pageref
<1> QED  BY <1>5, <1>6 DEF Unused

-------------------------------------------------------------------------------
\* open_alloc, one entry: refused, passed over or taken.
LEMMA AllocEffect ==
    ASSUME TypeOK, FdInv, NEW s \in Server, open_alloc(s)
    PROVE  LET i == srv[s].i
           IN  /\ srv[s].pc = "alloc" /\ SameRequest(s) /\ srv'[s].file = srv[s].file
               /\ UNCHANGED <<o_file, dir, fd, opened, cl, calls>>
               /\ \/ /\ UNCHANGED <<o_fileid, ff>>
                     /\ \/ srv'[s].pc = "reply" /\ srv'[s].answer # "OK"
                        \/ srv'[s].pc = "alloc"
                  \/ /\ i \in Slot /\ \A c \in Client, n \in Fdnum : fd[c][n] # <<s, i>>
                     /\ o_fileid' = [o_fileid EXCEPT ![s][i] = new_fileid(o_fileid[s][i])]
                     /\ ff' = [ff EXCEPT ![s][i] = [here |-> TRUE, fileid |-> 0, size |-> 0]]
                     /\ \/ srv'[s].pc = "reply" /\ srv'[s].answer # "OK"
                        \/ srv'[s].pc = "open" /\ srv'[s].i = i
<1>1. PICK i \in 0..MAXOPEN : i = srv[s].i  BY FieldTypes
<1>2. /\ "E_MAX_OPEN" \in Answer /\ "NEGATIVE_ID" \in Answer /\ "open" \in ServerPc
      /\ "E_NO_MEM" \in Answer
      /\ srv[s].pc = "alloc" /\ UNCHANGED <<o_file, dir, fd, opened, cl, calls>>
  BY DEF Answer, ServerPc, open_alloc, At
<1>3. CASE answer(s, "E_MAX_OPEN") /\ UNCHANGED <<o_fileid, ff>>
  BY <1>2, <1>3, AnswerFields
<1>6. CASE answer(s, "E_NO_MEM") /\ UNCHANGED <<o_fileid, ff>>
  BY <1>2, <1>6, AnswerFields
<1>4. CASE i < MAXOPEN /\ srv' = [srv EXCEPT ![s].i = i + 1] /\ UNCHANGED <<o_fileid, ff>>
  <2>1. PICK j \in 0..MAXOPEN : j = i + 1  BY <1>4, Sizes
  <2>2. srv' = [srv EXCEPT ![s].i = j]  BY <1>4, <2>1
  <2> QED  BY <1>2, <1>4, <2>2, OneField
<1>5. CASE /\ i < MAXOPEN /\ Unused(s, i)
           /\ o_fileid' = [o_fileid EXCEPT ![s][i] = new_fileid(o_fileid[s][i])]
           /\ ff' = [ff EXCEPT ![s][i] = [here |-> TRUE, fileid |-> 0, size |-> 0]]
           /\ answer(s, "NEGATIVE_ID") \/ srv' = [srv EXCEPT ![s].pc = "open"]
  <2>1. i \in Slot  BY <1>5, Sizes DEF Slot
  <2>2. \A c \in Client, n \in Fdnum : fd[c][n] # <<s, i>>  BY <1>5, <2>1, UnusedMeansUnmapped
  <2>3. CASE answer(s, "NEGATIVE_ID")
    BY <1>1, <1>2, <1>5, <2>1, <2>2, <2>3, AnswerFields
  <2>4. CASE srv' = [srv EXCEPT ![s].pc = "open"]
    BY <1>1, <1>2, <1>5, <2>1, <2>2, <2>4, OneField
  <2> QED  BY <1>5, <2>3, <2>4
<1> QED  BY <1>1, <1>3, <1>4, <1>5, <1>6 DEF open_alloc

\* serve_open: nothing found, or the entry e for the name.
Gets(s, i, name, e) ==
    /\ dir[s][e].name \in {name, None}
    /\ dir' = [dir EXCEPT ![s][e].name = name]
    /\ o_file' = [o_file EXCEPT ![s][i] = e]
    /\ ff' = [ff EXCEPT ![s][i].fileid = o_fileid[s][i], ![s][i].size = dir[s][e].size]

\* Nothing is found and nothing changes, or the entry is given to the open.
LEMMA OpenEffect ==
    ASSUME TypeOK, NEW s \in Server, serve_open(s)
    PROVE  LET i == srv[s].i
               name == srv[s].req.name
           IN  /\ srv[s].pc = "open" /\ SameRequest(s) /\ srv'[s].pc = "reply"
               /\ srv'[s].i = i /\ srv'[s].file = srv[s].file
               /\ UNCHANGED <<o_fileid, fd, opened, cl, calls>>
               /\ \/ srv'[s].answer # "OK" /\ UNCHANGED tables
                  \/ \E e \in Entry : Gets(s, i, name, e)
<1>1. /\ "E_NOT_FOUND" \in Answer /\ "OK" \in Answer /\ srv[s].pc = "open"
      /\ UNCHANGED <<fd, opened, cl, calls>>
  BY DEF Answer, serve_open, At
<1>2. PICK found \in SUBSET Entry :
         /\ \A e \in found : dir[s][e].name \in {srv[s].req.name, None}
         /\ IF found = {} THEN answer(s, "E_NOT_FOUND") /\ UNCHANGED tables
            ELSE \E e \in found :
                    /\ dir' = [dir EXCEPT ![s][e].name = srv[s].req.name]
                    /\ o_file' = [o_file EXCEPT ![s][srv[s].i] = e]
                    /\ ff' = [ff EXCEPT ![s][srv[s].i].fileid = o_fileid[s][srv[s].i],
                                        ![s][srv[s].i].size = dir[s][e].size]
                    /\ answer(s, "OK")
                    /\ UNCHANGED o_fileid
  <2>1. PICK found : found = IF srv[s].req.type = "OPEN" THEN Named(s, srv[s].req.name)
                             ELSE IF Named(s, srv[s].req.name) = {} THEN Free(s) ELSE {}
    OBVIOUS
  <2>2. found \in SUBSET Entry /\ \A e \in found : dir[s][e].name \in {srv[s].req.name, None}
    BY <2>1 DEF Named, Free
  <2> QED  BY <2>1, <2>2 DEF serve_open
<1>3. CASE answer(s, "E_NOT_FOUND") /\ UNCHANGED tables
  BY <1>1, <1>3, AnswerFields DEF tables
<1>4. ASSUME NEW e \in found,
             dir' = [dir EXCEPT ![s][e].name = srv[s].req.name],
             o_file' = [o_file EXCEPT ![s][srv[s].i] = e],
             ff' = [ff EXCEPT ![s][srv[s].i].fileid = o_fileid[s][srv[s].i],
                              ![s][srv[s].i].size = dir[s][e].size],
             answer(s, "OK"), UNCHANGED o_fileid
      PROVE  /\ SameRequest(s) /\ srv'[s].pc = "reply"
             /\ srv'[s].i = srv[s].i /\ srv'[s].file = srv[s].file
             /\ Gets(s, srv[s].i, srv[s].req.name, e)
  <2>1. dir[s][e].name \in {srv[s].req.name, None}  BY <1>2
  <2>2. Gets(s, srv[s].i, srv[s].req.name, e)  BY <1>4, <2>1 DEF Gets
  <2> QED  BY <1>1, <1>4, <2>2, AnswerFields
<1> QED  BY <1>1, <1>2, <1>3, <1>4

-------------------------------------------------------------------------------
\* What the invariants say of the entries of opentab, and of the pages but for the
\* size, is left alone.
SameFiles ==
    /\ o_fileid' = o_fileid /\ o_file' = o_file /\ dir' = dir
    /\ \A s \in Server, i \in Slot : /\ ff'[s][i].here = ff[s][i].here
                                     /\ ff'[s][i].fileid = ff[s][i].fileid

\* A page that a client maps after the step was mapped before, opened by the same open.
Copies ==
    \A c \in Client, n \in Fdnum :
        \/ fd'[c][n] = None
        \/ \E d \in Client, m \in Fdnum : fd'[c][n] = fd[d][m] /\ opened'[c][n] = opened[d][m]

\* Only the client of the request may be another one: it may be gone.
SameServer(s) ==
    /\ srv'[s].pc = srv[s].pc /\ srv'[s].i = srv[s].i /\ srv'[s].req = srv[s].req
    /\ srv'[s].answer = srv[s].answer /\ srv'[s].file = srv[s].file

\* Sharing and dropping pages keeps what is known of the open files.
LEMMA TablesKept ==
    ASSUME TypeOK, IdInv, FdInv, SameFiles, Copies
    PROVE  IdInv' /\ FdInv'
<1>1. IdInv'  BY DEF IdInv, IdOK, SameFiles
<1>2. ASSUME NEW c \in Client, NEW n \in Fdnum, NEW s \in Server, NEW i \in Slot,
             fd'[c][n] = <<s, i>>
      PROVE  FdOK(c, n, s, i)'
  <2>1. <<s, i>> # None  BY ServAssumption
  <2>2. PICK d \in Client, m \in Fdnum : fd'[c][n] = fd[d][m] /\ opened'[c][n] = opened[d][m]
    BY <1>2, <2>1 DEF Copies
  <2>3. FdOK(d, m, s, i)  BY <1>2, <2>2 DEF FdInv
  <2> QED  BY <2>2, <2>3 DEF FdOK, SameFiles
<1>3. FdInv'  BY <1>2 DEF FdInv
<1> QED  BY <1>1, <1>3

\* And what is known of a server in a request.
LEMMA ServerKept ==
    ASSUME TypeOK, NEW s \in Server, SrvOK(s), SameFiles, Copies, SameServer(s)
    PROVE  SrvOK(s)'
<1>1. ASSUME srv[s].pc = "open", NEW c \in Client, NEW n \in Fdnum
      PROVE  fd'[c][n] # <<s, srv[s].i>>
  <2>1. srv[s].i \in Slot /\ \A d \in Client, m \in Fdnum : fd[d][m] # <<s, srv[s].i>>
    BY <1>1 DEF SrvOK
  <2>2. <<s, srv[s].i>> # None  BY <2>1, ServAssumption
  <2>3. PICK x : x = <<s, srv[s].i>>  OBVIOUS
  <2>4. x # None /\ \A d \in Client, m \in Fdnum : fd[d][m] # x  BY <2>1, <2>2, <2>3
  <2>5. fd'[c][n] # x  BY <2>4 DEF Copies
  <2> QED  BY <2>3, <2>5
<1>2. srv[s].pc = "open" => srv[s].i \in Slot /\ ff'[s][srv[s].i].here
  BY DEF SrvOK, SameFiles
<1>3. srv[s].pc = "reply" /\ srv[s].req.type \in Opens /\ srv[s].answer = "OK" =>
        /\ srv[s].i \in Slot /\ ff'[s][srv[s].i].here /\ ff'[s][srv[s].i].fileid = o_fileid'[s][srv[s].i]
        /\ srv[s].req.name \in Name /\ dir'[s][o_file'[s][srv[s].i]].name = srv[s].req.name
  BY DEF SrvOK, SameFiles
<1> QED  BY <1>1, <1>2, <1>3 DEF SrvOK, SameServer

\* A client that does nothing, and whose descriptors stay, is in its call as before.
Untouched(c) ==
    /\ cl'[c] = cl[c] /\ fd'[c] = fd[c]
    /\ \A n \in Fdnum : fd[c][n] # None => /\ opened'[c][n].fileid = opened[c][n].fileid
                                          /\ opened'[c][n].entry = opened[c][n].entry

\* Its call stays in order.
LEMMA CallKept ==
    ASSUME TypeOK, NEW c \in Client, CallOK(c), Untouched(c)
    PROVE  CallOK(c)'
<1>1. cl[c].n \in Fdnum  BY FieldTypes
<1> QED  BY <1>1 DEF CallOK, HoldsFile, Untouched

\* The file of a request is the client's own.
LEMMA RequestIsOwn ==
    ASSUME IInv, NEW s \in Server, NEW c \in Client, srv[s].from = c, srv[s].file # None
    PROVE  fd[c][cl[c].n] # None /\ cl[c].req.type \in AboutFile
<1>1. srv[s].req.type \in AboutFile  BY DEF IInv, SrvInv, SrvOK
<1>2. cl[c].req = srv[s].req /\ cl[c].pc \in InCall  BY DEF IInv, FromInv, FromOK, InCall
<1> QED  BY <1>1, <1>2 DEF IInv, CallInv, CallOK, HoldsFile

\* And the server that works for it goes on doing so.
LEMMA FromKept ==
    ASSUME IInv, NEW s \in Server, NEW c \in Client, srv[s].from = c, Untouched(c), SameServer(s)
    PROVE  FromOK(s, c)'
<1>1. cl[c].n \in Fdnum  BY FieldTypes DEF IInv
<1>2. FromOK(s, c)  BY DEF IInv, FromInv
<1>3. srv[s].file # None => fd[c][cl[c].n] # None  BY RequestIsOwn
<1> QED  BY <1>1, <1>2, <1>3 DEF FromOK, Untouched, SameServer

-------------------------------------------------------------------------------
\* A step of client c between two requests: it goes on with r.
Alone(c) == \A d \in Client \ {c} : fd'[d] = fd[d] /\ opened'[d] = opened[d]

\* Such a step keeps the invariant when what c asks for is in order.
LEMMA ClientStep ==
    ASSUME IInv, NEW c \in Client, NEW r \in ClientState, cl[c].pc \in {"idle", "got"},
           cl' = [cl EXCEPT ![c] = r], r.pc \in {"idle", "lost", "send"}, r.pc = "send" => CallOK(c)',
           SameFiles, Copies, srv' = srv, Alone(c), TypeOK'
    PROVE  IInv'
<1>1. TypeOK /\ IdInv /\ FdInv /\ SrvInv /\ FromInv /\ CallInv  BY DEF IInv
<1>2. IdInv' /\ FdInv'  BY <1>1, TablesKept
<1>3. \A s \in Server : SameServer(s)  BY DEF SameServer
<1>4. SrvInv'  BY <1>1, <1>3, ServerKept DEF SrvInv
<1>5. cl \in [Client -> ClientState]  BY <1>1 DEF TypeOK
<1>6. cl'[c] = r /\ \A d \in Client \ {c} : Untouched(d)
  BY <1>5 DEF Untouched, Alone
<1>7. ASSUME NEW d \in Client, cl'[d].pc \in InCall PROVE CallOK(d)'
  <2>1. CASE d = c  BY <1>6, <1>7, <2>1 DEF InCall
  <2>2. CASE d # c
    <3>1. Untouched(d) /\ cl'[d] = cl[d]  BY <1>6, <2>2 DEF Untouched
    <3>2. CallOK(d)  BY <1>1, <1>7, <3>1 DEF CallInv
    <3> QED  BY <1>1, <3>1, <3>2, CallKept
  <2> QED  BY <2>1, <2>2
<1>8. ASSUME NEW s \in Server, NEW d \in Client, srv'[s].from = d PROVE FromOK(s, d)'
  <2>1. srv[s].from = d  BY <1>8
  <2>2. cl[d].pc \in {"sent", "recv"}  BY <1>1, <2>1 DEF FromInv, FromOK
  <2>3. d # c  BY <2>2
  <2> QED  BY <1>3, <1>6, <2>1, <2>3, FromKept
<1> QED  BY <1>2, <1>4, <1>7, <1>8 DEF IInv, CallInv, FromInv

\* The descriptor of a file that is open, and what its page says.
LEMMA DescriptorFacts ==
    ASSUME IInv, NEW c \in Client, NEW n \in Fdnum, fd[c][n] # None
    PROVE  /\ fd[c][n][1] \in Server /\ fd[c][n][2] \in Slot
           /\ opened[c][n] \in Opened /\ opened[c][n].fileid \in Fileid
           /\ Page(c, n).fileid = opened[c][n].fileid /\ Page(c, n).size \in 0..MaxSize
           /\ FILEID2FSNO(opened[c][n].fileid) = fd[c][n][1]
<1>1. TypeOK /\ IdInv /\ FdInv  BY DEF IInv
<1>2. PICK s \in Server, i \in Slot : fd[c][n] = <<s, i>>  BY <1>1, FieldTypes
<1>3. FdOK(c, n, s, i) /\ IdOK(s, i)  BY <1>1, <1>2 DEF FdInv, IdInv
<1>4. opened[c][n] \in Opened /\ opened[c][n].fileid \in Fileid  BY <1>3 DEF FdOK, Opened
<1>5. fd[c][n][1] = s /\ fd[c][n][2] = i  BY <1>2
<1>6. opened[c][n].fileid = o_fileid[s][i] /\ opened[c][n].fileid % MAXOPEN_NUM = i + s * MAXOPEN
  BY <1>3 DEF FdOK, IdOK
<1>7. FILEID2FSNO(opened[c][n].fileid) = s  BY <1>4, <1>6, RoutedToServer
<1>8. ff[s][i].size \in 0..MaxSize  BY <1>1, FieldTypes
<1>9. ff[s][i].fileid = opened[c][n].fileid  BY <1>3 DEF FdOK
<1> QED  BY <1>4, <1>5, <1>7, <1>8, <1>9 DEF Page

\* A request about an open file goes to the server that opened it.
LEMMA AskStep ==
    ASSUME IInv, NEW c \in Client, NEW op \in {"open", "close", "dup", "ftruncate", "undo"},
           NEW n \in Fdnum, NEW type \in AboutFile, NEW id, NEW b \in 0..MaxSize,
           NEW lim \in 0..MaxSize, NEW old \in 0..(MaxSize + MAXFD),
           fd[c][n] # None, id = opened[c][n].fileid, ask(c, op, n, type, id, b, lim, old),
           fd'[c] = fd[c], opened'[c] = opened[c],
           op = "open" => type = "MAP", op \in {"close", "dup"} => type \in {"DIRTY", "CLOSE"},
           op = "dup" => old \in Fdnum,
           op = "ftruncate" => type \in {"SET_SIZE", "MAP"} /\ old \in 0..MaxSize
    PROVE  \E r \in ClientState : cl' = [cl EXCEPT ![c] = r] /\ r.pc = "send" /\ CallOK(c)'
<1>1. id \in Fileid /\ FILEID2FSNO(id) = fd[c][n][1] /\ fd[c][n][1] \in Server
  BY DescriptorFacts
<1>2. PICK to \in Server : to = FILEID2FSNO(id)  BY <1>1
<1>3. PICK rq \in Request : /\ rq = Req(type, None, id, b)
                            /\ rq.type = type /\ rq.fileid = id
  <2>1. type \in Type /\ None \in Name \cup {None}  BY DEF AboutFile, Type
  <2>2. /\ Req(type, None, id, b) \in Request
        /\ Req(type, None, id, b).type = type /\ Req(type, None, id, b).fileid = id
    <3>1. type \in Type /\ id \in Fileid /\ b \in 0..MaxSize  BY <1>1, <2>1
    <3> QED  BY <3>1 DEF Req, Request
  <2> QED  BY <2>2
<1>4. PICK r \in ClientState :
         /\ r = Calling("send", op, n, to, rq, lim, old)
         /\ r.pc = "send" /\ r.op = op /\ r.n = n /\ r.to = to /\ r.req = rq /\ r.old = old
  <2>1. "send" \in ClientPc /\ op \in ClientOp  BY DEF ClientPc, ClientOp
  <2> QED  BY <2>1, CallingFields
<1>5. cl' = [cl EXCEPT ![c] = r]  BY <1>2, <1>3, <1>4 DEF ask
<1>6. cl \in [Client -> ClientState]  BY DEF IInv, TypeOK
<1>7. cl'[c] = r  BY <1>5, <1>6
<1>8. type \notin Opens  BY DEF AboutFile, Opens
<1>9. (HoldsFile(c))'
  BY <1>1, <1>2, <1>3, <1>4, <1>7 DEF HoldsFile
<1>10. CallOK(c)'
  BY <1>3, <1>4, <1>7, <1>8, <1>9 DEF CallOK
<1> QED  BY <1>4, <1>5, <1>10

\* A request about a path, and the return of a call.
LEMMA AskPathStep ==
    ASSUME IInv, NEW c \in Client, NEW op \in {"open", "remove", "sync", "stray"}, NEW n \in Fdnum,
           NEW s \in Server, NEW type \in Type \ AboutFile, NEW name \in Name \cup {None},
           askpath(c, op, n, s, type, name),
           op = "open" => type \in Opens /\ name \in Name, op # "open" => type \notin Opens
    PROVE  \E r \in ClientState : cl' = [cl EXCEPT ![c] = r] /\ r.pc = "send" /\ CallOK(c)'
<1>1. PICK rq \in Request : /\ rq = Req(type, name, 0, 0)
                            /\ rq.type = type /\ rq.name = name
  <2>1. /\ Req(type, name, 0, 0) \in Request
        /\ Req(type, name, 0, 0).type = type /\ Req(type, name, 0, 0).name = name
    <3>1. type \in Type /\ 0 \in Fileid /\ 0 \in 0..MaxSize  BY Sizes
    <3> QED  BY <3>1 DEF Req, Request
  <2> QED  BY <2>1
<1>2. 0 \in 0..MaxSize /\ 0 \in 0..(MaxSize + MAXFD)  BY Sizes
<1>3. PICK r \in ClientState :
         /\ r = Calling("send", op, n, s, rq, 0, 0)
         /\ r.pc = "send" /\ r.op = op /\ r.req = rq
  <2>1. "send" \in ClientPc /\ op \in ClientOp  BY DEF ClientPc, ClientOp
  <2> QED  BY <1>2, <2>1, CallingFields
<1>4. cl' = [cl EXCEPT ![c] = r]  BY <1>1, <1>3 DEF askpath
<1>5. cl \in [Client -> ClientState]  BY DEF IInv, TypeOK
<1>6. cl'[c] = r  BY <1>4, <1>5
<1>7. CallOK(c)'
  BY <1>1, <1>3, <1>6 DEF CallOK
<1> QED  BY <1>3, <1>4, <1>7

\* A call that returns leaves its client idle.
LEMMA BackStep ==
    ASSUME NEW c \in Client, back(c)
    PROVE  \E r \in ClientState : cl' = [cl EXCEPT ![c] = r] /\ r.pc = "idle"
BY IdleFields DEF back

\* Types, after a step of a client between two requests.
LEMMA TypeAfter ==
    ASSUME IInv, SameFiles, NEW c \in Client, NEW r \in ClientState, cl' = [cl EXCEPT ![c] = r],
           srv' = srv, ff' \in [Server -> [Slot -> Filefd]], calls' \in 0..MaxCalls,
           fd' \in [Client -> [Fdnum -> (Server \X Slot) \cup {None}]],
           opened' \in [Client -> [Fdnum -> Opened \cup {None}]]
    PROVE  TypeOK'
<1>1. TypeOK  BY DEF IInv
<1>2. cl' \in [Client -> ClientState]  BY <1>1 DEF TypeOK
<1> QED  BY <1>1, <1>2 DEF TypeOK, SameFiles

\* A step that only asks or returns.
LEMMA OnlyAsks ==
    ASSUME IInv, NEW c \in Client, NEW r \in ClientState, cl[c].pc \in {"idle", "got"},
           cl' = [cl EXCEPT ![c] = r],
           \/ r.pc \in {"idle", "lost"}
           \/ r.pc = "send" /\ CallOK(c)',
           UNCHANGED tables, UNCHANGED <<srv, fd, opened>>, calls' \in 0..MaxCalls
    PROVE  IInv'
<1>1. TypeOK  BY DEF IInv
<1>2. SameFiles  BY DEF SameFiles, tables
<1>3. Copies  BY DEF Copies
<1>4. Alone(c)  BY DEF Alone
<1>5. ff' \in [Server -> [Slot -> Filefd]]
      /\ fd' \in [Client -> [Fdnum -> (Server \X Slot) \cup {None}]]
      /\ opened' \in [Client -> [Fdnum -> Opened \cup {None}]]
  BY <1>1 DEF TypeOK, tables
<1>6. TypeOK'  BY <1>2, <1>5, TypeAfter
<1> QED  BY <1>2, <1>3, <1>4, <1>6, ClientStep

-------------------------------------------------------------------------------
\* The calls of the library, and what each does with an answer.
LEMMA CallsCounted ==
    ASSUME IInv, NEW c \in Client
    PROVE  /\ begin(c) => cl[c].pc = "idle" /\ calls' \in 0..MaxCalls
           /\ UNCHANGED calls => calls' \in 0..MaxCalls
<1>1. calls \in 0..MaxCalls /\ MaxCalls \in Nat  BY Sizes DEF IInv, TypeOK
<1> QED  BY <1>1 DEF begin

\* open asks the server of the path for a descriptor that is free.
LEMMA OpenStep == ASSUME IInv, NEW c \in Client, open(c) PROVE IInv'
<1>1. cl[c].pc = "idle" /\ calls' \in 0..MaxCalls  BY CallsCounted DEF open
<1>2. PICK n \in fd_alloc(c), type \in Opens, name \in Name :
         askpath(c, "open", n, Root[name], type, name)
  BY DEF open, Opens
<1>3. n \in Fdnum  BY Sizes DEF fd_alloc, Fdnum
<1>4. Root[name] \in Server  BY ServAssumption
<1>5. type \in Type \ AboutFile  BY DEF Opens, Type, AboutFile
<1>6. PICK r \in ClientState : cl' = [cl EXCEPT ![c] = r] /\ r.pc = "send" /\ CallOK(c)'
  BY <1>2, <1>3, <1>4, <1>5, AskPathStep
<1> QED  BY <1>1, <1>6, OnlyAsks DEF open

\* remove, sync and a message without the library are about no descriptor.
LEMMA RemoveStep == ASSUME IInv, NEW c \in Client, remove(c) \/ sync(c) \/ stray(c) PROVE IInv'
<1>1. cl[c].pc = "idle" /\ calls' \in 0..MaxCalls  BY CallsCounted DEF remove, sync, stray
<1>2. 0 \in Fdnum /\ 0 \in Server  BY Sizes
<1>3. /\ {"REMOVE", "SYNC", "NO_PAGE", "UNKNOWN"} \subseteq Type \ AboutFile
      /\ {"REMOVE", "SYNC", "NO_PAGE", "UNKNOWN"} \cap Opens = {}
  BY DEF Opens, Type, AboutFile
<1>4. PICK r \in ClientState : cl' = [cl EXCEPT ![c] = r] /\ r.pc = "send" /\ CallOK(c)'
  <2>1. CASE remove(c)
    <3>1. PICK name \in Name : askpath(c, "remove", 0, Root[name], "REMOVE", name)
      BY <2>1 DEF remove
    <3>2. Root[name] \in Server  BY ServAssumption
    <3> QED  BY <1>2, <1>3, <3>1, <3>2, AskPathStep
  <2>2. CASE sync(c)
    <3>1. askpath(c, "sync", 0, 0, "SYNC", None)  BY <2>2 DEF sync
    <3> QED  BY <1>2, <1>3, <3>1, AskPathStep
  <2>3. CASE stray(c)
    <3>1. PICK s \in Server, type \in {"NO_PAGE", "UNKNOWN"} :
             askpath(c, "stray", 0, s, type, None)
      BY <2>3 DEF stray
    <3>2. type \in Type \ AboutFile /\ type \notin Opens  BY <1>3
    <3> QED  BY <1>2, <3>1, <3>2, AskPathStep
  <2> QED  BY <2>1, <2>2, <2>3
<1>5. UNCHANGED tables /\ UNCHANGED <<srv, fd, opened>>  BY DEF remove, sync, stray
<1> QED  BY <1>1, <1>4, <1>5, OnlyAsks

\* A path of neither server: the client waits for itself.
LEMMA NowhereStep == ASSUME IInv, NEW c \in Client, nowhere(c) PROVE IInv'
<1>1. cl[c].pc = "idle" /\ calls' \in 0..MaxCalls  BY CallsCounted DEF nowhere
<1>2. PICK r \in ClientState : /\ r = Calling("lost", "open", 0, 0, NoReq, 0, 0)
                               /\ r.pc = "lost"
  <2>1. /\ "lost" \in ClientPc /\ "open" \in ClientOp /\ 0 \in Fdnum /\ 0 \in Server
        /\ 0 \in 0..MaxSize /\ 0 \in 0..(MaxSize + MAXFD) /\ NoReq \in Request
    BY Sizes, NoReqFields DEF ClientPc, ClientOp
  <2> QED  BY <2>1, CallingFields
<1>3. cl' = [cl EXCEPT ![c] = r]  BY <1>2 DEF nowhere
<1>4. UNCHANGED tables /\ UNCHANGED <<srv, fd, opened>>  BY DEF nowhere
<1> QED  BY <1>1, <1>2, <1>3, <1>4, OnlyAsks

\* file_close, from block b on.
LEMMA CloseFromStep ==
    ASSUME IInv, NEW c \in Client, NEW op \in {"close", "dup"}, NEW n \in Fdnum, NEW id,
           NEW b \in Nat, NEW lim \in 0..MaxSize, NEW old \in 0..(MaxSize + MAXFD),
           fd[c][n] # None, id = opened[c][n].fileid, close_from(c, op, n, id, b, lim, old),
           fd'[c] = fd[c], opened'[c] = opened[c], op = "dup" => old \in Fdnum
    PROVE  \E r \in ClientState : cl' = [cl EXCEPT ![c] = r] /\ r.pc = "send" /\ CallOK(c)'
<1>1. "DIRTY" \in AboutFile /\ "CLOSE" \in AboutFile  BY DEF AboutFile
<1>2. op \in {"open", "close", "dup", "ftruncate", "undo"} /\ op # "open" /\ op # "ftruncate"  OBVIOUS
<1>3. CASE b < lim
  <2>1. ask(c, op, n, "DIRTY", id, b, lim, old)  BY <1>3 DEF close_from
  <2>2. PICK z \in 0..MaxSize : z = b  BY <1>3, Sizes
  <2>3. ask(c, op, n, "DIRTY", id, z, lim, old)  BY <2>1, <2>2
  <2> QED  BY <1>1, <1>2, <2>3, AskStep
<1>4. CASE ~(b < lim)
  <2>1. ask(c, op, n, "CLOSE", id, 0, lim, old)  BY <1>4 DEF close_from
  <2>2. PICK z \in 0..MaxSize : z = 0  BY Sizes
  <2>3. ask(c, op, n, "CLOSE", id, z, lim, old)  BY <2>1, <2>2
  <2> QED  BY <1>1, <1>2, <2>3, AskStep
<1> QED  BY <1>3, <1>4

\* The local old of dup and of ftruncate.
LEMMA OldIsTyped == 0 \in 0..(MaxSize + MAXFD) /\ Fdnum \subseteq 0..(MaxSize + MAXFD)
                    /\ 0..MaxSize \subseteq 0..(MaxSize + MAXFD)
BY Sizes DEF Fdnum

\* close asks about the file of the descriptor.
LEMMA CloseStep == ASSUME IInv, NEW c \in Client, close(c) PROVE IInv'
<1>1. cl[c].pc = "idle" /\ calls' \in 0..MaxCalls  BY CallsCounted DEF close
<1>2. PICK n \in Fdnum :
         fd[c][n] # None /\ close_from(c, "close", n, Page(c, n).fileid, 0, Page(c, n).size, 0)
  BY DEF close
<1>3. UNCHANGED tables /\ UNCHANGED <<srv, fd, opened>>  BY DEF close
<1>4. PICK r \in ClientState : cl' = [cl EXCEPT ![c] = r] /\ r.pc = "send" /\ CallOK(c)'
  <2>1. PICK id, lim : id = Page(c, n).fileid /\ lim = Page(c, n).size  OBVIOUS
  <2>2. id = opened[c][n].fileid /\ lim \in 0..MaxSize  BY <1>2, <2>1, DescriptorFacts
  <2> QED  BY <1>2, <1>3, <2>1, <2>2, OldIsTyped, CloseFromStep
<1> QED  BY <1>1, <1>3, <1>4, OnlyAsks

\* Descriptor n becomes a copy of m of the same client, or is dropped.
LEMMA CopyStep ==
    ASSUME IInv, NEW c \in Client, NEW n \in Fdnum, NEW r \in ClientState, r.pc = "idle",
           cl[c].pc \in {"idle", "got"}, cl' = [cl EXCEPT ![c] = r],
           NEW x, NEW y,
           \/ x = None /\ y = None
           \/ \E m \in Fdnum : x = fd[c][m] /\ y = opened[c][m],
           fd' = [fd EXCEPT ![c][n] = x], opened' = [opened EXCEPT ![c][n] = y],
           UNCHANGED tables, UNCHANGED srv, calls' \in 0..MaxCalls
    PROVE  IInv'
<1>1. TypeOK  BY DEF IInv
<1>2. /\ fd \in [Client -> [Fdnum -> (Server \X Slot) \cup {None}]]
      /\ opened \in [Client -> [Fdnum -> Opened \cup {None}]]
  BY <1>1 DEF TypeOK
<1>3. x \in (Server \X Slot) \cup {None} /\ y \in Opened \cup {None}
  BY <1>2
<1>4. SameFiles  BY DEF SameFiles, tables
<1>5. /\ fd' \in [Client -> [Fdnum -> (Server \X Slot) \cup {None}]]
      /\ opened' \in [Client -> [Fdnum -> Opened \cup {None}]]
  BY <1>2, <1>3
<1>6. /\ fd'[c][n] = x /\ opened'[c][n] = y
      /\ \A d \in Client, m \in Fdnum : d # c \/ m # n => fd'[d][m] = fd[d][m] /\ opened'[d][m] = opened[d][m]
  BY <1>2
<1>7. Copies
  <2>1. ASSUME NEW d \in Client, NEW m \in Fdnum
        PROVE  \/ fd'[d][m] = None
               \/ \E a \in Client, k \in Fdnum : fd'[d][m] = fd[a][k] /\ opened'[d][m] = opened[a][k]
    <3>1. CASE d = c /\ m = n  BY <1>6, <3>1
    <3>2. CASE d # c \/ m # n  BY <1>6, <3>2
    <3> QED  BY <3>1, <3>2
  <2> QED  BY <2>1 DEF Copies
<1>8. Alone(c)  BY <1>2 DEF Alone
<1>9. ff' \in [Server -> [Slot -> Filefd]]  BY <1>1 DEF TypeOK, tables
<1>10. TypeOK'  BY <1>4, <1>5, <1>9, TypeAfter
<1> QED  BY <1>4, <1>7, <1>8, <1>10, ClientStep

\* dup copies the descriptor, or first closes the one it replaces.
LEMMA DupStep == ASSUME IInv, NEW c \in Client, dup(c) PROVE IInv'
<1>1. cl[c].pc = "idle" /\ calls' \in 0..MaxCalls  BY CallsCounted DEF dup
<1>2. UNCHANGED tables /\ UNCHANGED srv  BY DEF dup
<1>3. PICK m \in Fdnum, n \in Fdnum :
         \/ /\ fd' = [fd EXCEPT ![c][n] = fd[c][m]]
            /\ opened' = [opened EXCEPT ![c][n] = opened[c][m]]
            /\ UNCHANGED cl
         \/ /\ fd[c][n] # None
            /\ close_from(c, "dup", n, Page(c, n).fileid, 0, Page(c, n).size, m)
            /\ UNCHANGED <<fd, opened>>
  BY DEF dup
<1>4. CASE /\ fd' = [fd EXCEPT ![c][n] = fd[c][m]]
           /\ opened' = [opened EXCEPT ![c][n] = opened[c][m]]
           /\ UNCHANGED cl
  <2>1. cl \in [Client -> ClientState]  BY DEF IInv, TypeOK
  <2>2. PICK r \in ClientState : r = cl[c]  BY <2>1
  <2>3. cl' = [cl EXCEPT ![c] = r] /\ r.pc = "idle"  BY <1>1, <1>4, <2>1, <2>2
  <2>4. PICK x, y : x = fd[c][m] /\ y = opened[c][m]  OBVIOUS
  <2>5. fd' = [fd EXCEPT ![c][n] = x] /\ opened' = [opened EXCEPT ![c][n] = y]  BY <1>4, <2>4
  <2> QED  BY <1>1, <1>2, <2>3, <2>4, <2>5, CopyStep
<1>5. CASE /\ fd[c][n] # None
           /\ close_from(c, "dup", n, Page(c, n).fileid, 0, Page(c, n).size, m)
           /\ UNCHANGED <<fd, opened>>
  <2>1. PICK id, lim : id = Page(c, n).fileid /\ lim = Page(c, n).size  OBVIOUS
  <2>2. id = opened[c][n].fileid /\ lim \in 0..MaxSize  BY <1>5, <2>1, DescriptorFacts
  <2>3. m \in 0..(MaxSize + MAXFD)  BY OldIsTyped
  <2>4. PICK r \in ClientState : cl' = [cl EXCEPT ![c] = r] /\ r.pc = "send" /\ CallOK(c)'
    BY <1>5, <2>1, <2>2, <2>3, CloseFromStep
  <2> QED  BY <1>1, <1>2, <1>5, <2>4, OnlyAsks
<1> QED  BY <1>3, <1>4, <1>5

\* ftruncate changes only the size in the shared page.
LEMMA FtruncateStep == ASSUME IInv, NEW c \in Client, ftruncate(c) PROVE IInv'
<1>1. cl[c].pc = "idle" /\ calls' \in 0..MaxCalls  BY CallsCounted DEF ftruncate
<1>2. UNCHANGED <<o_fileid, o_file, dir, srv, fd, opened>>  BY DEF ftruncate
<1>3. PICK n \in Fdnum, size \in 0..MaxSize :
         /\ fd[c][n] # None
         /\ ff' = [ff EXCEPT ![fd[c][n][1]][fd[c][n][2]].size = size]
         /\ ask(c, "ftruncate", n, "SET_SIZE", Page(c, n).fileid, size, size, Page(c, n).size)
  BY DEF ftruncate
<1>4. PICK s \in Server, i \in Slot : s = fd[c][n][1] /\ i = fd[c][n][2]
  BY <1>3, DescriptorFacts
<1>5. PICK id, old : id = Page(c, n).fileid /\ old = Page(c, n).size  OBVIOUS
<1>6. id = opened[c][n].fileid /\ old \in 0..MaxSize  BY <1>3, <1>5, DescriptorFacts
<1>7. PICK r \in ClientState : cl' = [cl EXCEPT ![c] = r] /\ r.pc = "send" /\ CallOK(c)'
  <2>1. "SET_SIZE" \in AboutFile /\ old \in 0..(MaxSize + MAXFD)
    BY <1>6, OldIsTyped DEF AboutFile
  <2> QED  BY <1>2, <1>3, <1>5, <1>6, <2>1, AskStep
<1>8. TypeOK  BY DEF IInv
<1>9. /\ ff \in [Server -> [Slot -> Filefd]]
      /\ fd' \in [Client -> [Fdnum -> (Server \X Slot) \cup {None}]]
      /\ opened' \in [Client -> [Fdnum -> Opened \cup {None}]]
  BY <1>2, <1>8 DEF TypeOK
<1>10. ff' = [ff EXCEPT ![s][i].size = size]  BY <1>3, <1>4
<1>11. PICK f \in Filefd : f = [ff[s][i] EXCEPT !.size = size]
  <2>1. ff[s][i] \in Filefd  BY <1>9
  <2> QED  BY <2>1 DEF Filefd
<1>12. f.here = ff[s][i].here /\ f.fileid = ff[s][i].fileid
  BY <1>9, <1>11 DEF Filefd
<1>13. ff' = [ff EXCEPT ![s][i] = f]  BY <1>10, <1>11
<1>14. ff' \in [Server -> [Slot -> Filefd]]  BY <1>9, <1>13
<1>15. SameFiles  BY <1>2, <1>9, <1>12, <1>13 DEF SameFiles
<1>16. TypeOK'  BY <1>1, <1>2, <1>7, <1>9, <1>14, <1>15, TypeAfter
<1>17. Copies /\ Alone(c)  BY <1>2 DEF Copies, Alone
<1> QED  BY <1>1, <1>2, <1>7, <1>15, <1>16, <1>17, ClientStep

\* A client that has got an answer about its file still holds it.
LEMMA AfterAnswer ==
    ASSUME IInv, NEW c \in Client, cl[c].pc = "got"
    PROVE  /\ CallOK(c) /\ cl[c].n \in Fdnum
           /\ cl[c].lim \in 0..MaxSize /\ cl[c].req.block \in 0..MaxSize
           /\ cl[c].req.type \in AboutFile =>
                 fd[c][cl[c].n] # None /\ cl[c].req.fileid = opened[c][cl[c].n].fileid
<1>1. CallOK(c)  BY DEF IInv, CallInv, InCall
<1>2. /\ cl[c].n \in Fdnum
      /\ cl[c].lim \in 0..MaxSize /\ cl[c].req.block \in 0..MaxSize
  BY FieldTypes DEF IInv
<1> QED  BY <1>1, <1>2 DEF CallOK, HoldsFile

\* open goes on with the identifier in the page it got.
LEMMA OpenGotStep == ASSUME IInv, NEW c \in Client, open_got(c) PROVE IInv'
<1>1. cl[c].pc = "got" /\ cl[c].op = "open" /\ UNCHANGED tables /\ UNCHANGED <<srv, fd, opened, calls>>
  BY DEF open_got
<1>2. PICK n \in Fdnum : n = cl[c].n  BY <1>1, AfterAnswer
<1>3. calls' \in 0..MaxCalls  BY <1>1, CallsCounted
<1>4. CASE back(c)  BY <1>1, <1>3, <1>4, BackStep, OnlyAsks
<1>5. CASE cl[c].answer = "OK" /\ ~back(c)
  <2>1. PICK b, id, lim : /\ b = IF cl[c].req.type = "MAP" THEN cl[c].req.block + 1 ELSE 0
                          /\ id = IF cl[c].req.type = "MAP" THEN cl[c].req.fileid ELSE Page(c, n).fileid
                          /\ lim = IF cl[c].req.type = "MAP" THEN cl[c].lim ELSE Page(c, n).size
    OBVIOUS
  <2>2. b < lim /\ ask(c, "open", n, "MAP", id, b, lim, 0)
    BY <1>2, <1>5, <2>1 DEF open_got
  <2>3. fd[c][n] # None /\ id = opened[c][n].fileid /\ lim \in 0..MaxSize /\ b \in Nat
    <3>1. CASE cl[c].req.type = "MAP"
      <4>1. "MAP" \in AboutFile  BY DEF AboutFile
      <4>2. cl[c].req.block \in Nat  BY <1>1, AfterAnswer, Sizes
      <4> QED  BY <1>1, <1>2, <2>1, <3>1, <4>1, <4>2, AfterAnswer
    <3>2. CASE cl[c].req.type # "MAP"
      <4>1. cl[c].req.type \in Opens  BY <1>1, <3>2, AfterAnswer DEF CallOK
      <4>2. fd[c][n] # None  BY <1>1, <1>2, <1>5, <4>1, AfterAnswer DEF CallOK
      <4> QED  BY <2>1, <3>2, <4>2, DescriptorFacts
    <3> QED  BY <3>1, <3>2
  <2>4. b \in 0..MaxSize  BY <2>2, <2>3, Sizes
  <2>5. PICK z \in 0..(MaxSize + MAXFD) : z = 0  BY OldIsTyped
  <2>6. "MAP" \in AboutFile  BY DEF AboutFile
  <2>7. ask(c, "open", n, "MAP", id, b, lim, z)  BY <2>2, <2>5
  <2>8. PICK r \in ClientState : cl' = [cl EXCEPT ![c] = r] /\ r.pc = "send" /\ CallOK(c)'
    BY <1>1, <2>3, <2>4, <2>6, <2>7, AskStep
  <2> QED  BY <1>1, <1>3, <2>8, OnlyAsks
<1> QED  BY <1>4, <1>5 DEF open_got

\* close and dup end with the page unmapped or replaced.
LEMMA CloseGotStep == ASSUME IInv, NEW c \in Client, close_got(c) PROVE IInv'
<1>1. cl[c].pc = "got" /\ UNCHANGED tables /\ UNCHANGED <<srv, calls>>
  BY DEF close_got
<1>2. PICK n \in Fdnum : n = cl[c].n  BY <1>1, AfterAnswer
<1>3. calls' \in 0..MaxCalls  BY <1>1, CallsCounted
<1>4. PICK op \in {"close", "dup"} : op = cl[c].op  BY DEF close_got
<1>5. PICK old \in 0..(MaxSize + MAXFD) : old = cl[c].old  BY FieldTypes DEF IInv
<1>6. op = "dup" => old \in Fdnum  BY <1>1, <1>4, <1>5, AfterAnswer DEF CallOK
<1>7. CASE /\ cl[c].req.type = "DIRTY"
           /\ close_from(c, cl[c].op, cl[c].n, cl[c].req.fileid, cl[c].req.block + 1, cl[c].lim, cl[c].old)
           /\ UNCHANGED <<fd, opened>>
  <2>1. PICK lim \in 0..MaxSize : lim = cl[c].lim  BY <1>1, AfterAnswer
  <2>2. PICK b \in Nat : b = cl[c].req.block + 1  BY <1>1, AfterAnswer, Sizes
  <2>3. PICK id : id = cl[c].req.fileid  OBVIOUS
  <2>4. fd[c][n] # None /\ id = opened[c][n].fileid
    BY <1>1, <1>2, <1>7, <2>3, AfterAnswer DEF AboutFile
  <2>5. close_from(c, op, n, id, b, lim, old)  BY <1>2, <1>4, <1>5, <1>7, <2>1, <2>2, <2>3
  <2>6. PICK r \in ClientState : cl' = [cl EXCEPT ![c] = r] /\ r.pc = "send" /\ CallOK(c)'
    BY <1>6, <1>7, <2>4, <2>5, CloseFromStep
  <2> QED  BY <1>1, <1>3, <1>7, <2>6, OnlyAsks
<1>8. CASE /\ fd' = [fd EXCEPT ![c][cl[c].n] = IF cl[c].op = "dup" THEN fd[c][cl[c].old] ELSE None]
           /\ opened' = [opened EXCEPT ![c][cl[c].n] =
                            IF cl[c].op = "dup" THEN opened[c][cl[c].old] ELSE None]
           /\ back(c)
  <2>1. PICK x, y : /\ x = IF op = "dup" THEN fd[c][old] ELSE None
                    /\ y = IF op = "dup" THEN opened[c][old] ELSE None
    OBVIOUS
  <2>2. fd' = [fd EXCEPT ![c][n] = x] /\ opened' = [opened EXCEPT ![c][n] = y]
    BY <1>2, <1>4, <1>5, <1>8, <2>1
  <2>3. \/ x = None /\ y = None
        \/ \E m \in Fdnum : x = fd[c][m] /\ y = opened[c][m]
    BY <1>6, <2>1
  <2>4. PICK r \in ClientState : cl' = [cl EXCEPT ![c] = r] /\ r.pc = "idle"
    BY <1>8, BackStep
  <2> QED  BY <1>1, <1>3, <2>2, <2>3, <2>4, CopyStep
<1> QED  BY <1>7, <1>8 DEF close_got

\* ftruncate goes on with the blocks, or sets the old size again.
LEMMA FtruncateGotStep == ASSUME IInv, NEW c \in Client, ftruncate_got(c) PROVE IInv'
<1>1. /\ cl[c].pc = "got" /\ cl[c].op = "ftruncate"
      /\ UNCHANGED tables /\ UNCHANGED <<srv, fd, opened, calls>>
  BY DEF ftruncate_got
<1>2. PICK n \in Fdnum : n = cl[c].n  BY <1>1, AfterAnswer
<1>3. calls' \in 0..MaxCalls  BY <1>1, CallsCounted
<1>4. cl[c].req.type \in {"SET_SIZE", "MAP"} /\ cl[c].old \in 0..MaxSize
  BY <1>1, AfterAnswer DEF CallOK
<1>5. PICK id, old, lim : id = cl[c].req.fileid /\ old = cl[c].old /\ lim = cl[c].lim  OBVIOUS
<1>6. /\ fd[c][n] # None /\ id = opened[c][n].fileid
      /\ lim \in 0..MaxSize /\ old \in 0..MaxSize /\ old \in 0..(MaxSize + MAXFD)
  <2>1. cl[c].req.type \in AboutFile  BY <1>4 DEF AboutFile
  <2>2. fd[c][n] # None /\ id = opened[c][n].fileid  BY <1>1, <1>2, <1>5, <2>1, AfterAnswer
  <2>3. lim \in 0..MaxSize  BY <1>1, <1>5, AfterAnswer
  <2> QED  BY <1>4, <1>5, <2>2, <2>3, OldIsTyped
<1>7. "MAP" \in AboutFile /\ "SET_SIZE" \in AboutFile  BY DEF AboutFile
<1>8. PICK b : b = IF cl[c].req.type = "MAP" THEN cl[c].req.block + 1 ELSE old  OBVIOUS
<1>9. CASE b < lim /\ ask(c, "ftruncate", n, "MAP", id, b, lim, old)
  <2>1. b \in 0..MaxSize
    <3>1. b \in Nat  BY <1>1, <1>6, <1>8, AfterAnswer, Sizes
    <3> QED  BY <1>6, <1>9, <3>1, Sizes
  <2>2. PICK r \in ClientState : cl' = [cl EXCEPT ![c] = r] /\ r.pc = "send" /\ CallOK(c)'
    BY <1>1, <1>6, <1>7, <1>9, <2>1, AskStep
  <2> QED  BY <1>1, <1>3, <2>2, OnlyAsks
<1>10. CASE ask(c, "undo", n, "SET_SIZE", id, old, 0, 0)
  <2>1. PICK z \in 0..MaxSize : z = 0  BY Sizes
  <2>2. z \in 0..(MaxSize + MAXFD) /\ ask(c, "undo", n, "SET_SIZE", id, old, z, z)
    BY <1>10, <2>1, OldIsTyped
  <2>3. PICK r \in ClientState : cl' = [cl EXCEPT ![c] = r] /\ r.pc = "send" /\ CallOK(c)'
    BY <1>1, <1>6, <1>7, <2>2, AskStep
  <2> QED  BY <1>1, <1>3, <2>3, OnlyAsks
<1>11. CASE back(c)  BY <1>1, <1>3, <1>11, BackStep, OnlyAsks
<1> QED  BY <1>2, <1>5, <1>8, <1>9, <1>10, <1>11 DEF ftruncate_got

\* sync goes on with the next server.
LEMMA RestGotStep == ASSUME IInv, NEW c \in Client, rest_got(c) PROVE IInv'
<1>1. cl[c].pc = "got" /\ UNCHANGED tables /\ UNCHANGED <<srv, fd, opened, calls>>
  BY DEF rest_got
<1>2. calls' \in 0..MaxCalls  BY <1>1, CallsCounted
<1>3. CASE back(c)  BY <1>1, <1>2, <1>3, BackStep, OnlyAsks
<1>4. CASE cl[c].to < MAXFS - 1 /\ askpath(c, "sync", 0, cl[c].to + 1, "SYNC", None)
  <2>1. cl[c].to \in Server  BY FieldTypes DEF IInv
  <2>2. PICK s \in Server : s = cl[c].to + 1  BY <1>4, <2>1, Sizes DEF Server
  <2>3. "SYNC" \in Type \ AboutFile /\ "SYNC" \notin Opens /\ 0 \in Fdnum
    BY Sizes DEF Type, AboutFile, Opens
  <2>4. askpath(c, "sync", 0, s, "SYNC", None)  BY <1>4, <2>2
  <2>5. PICK r \in ClientState : cl' = [cl EXCEPT ![c] = r] /\ r.pc = "send" /\ CallOK(c)'
    BY <2>3, <2>4, AskPathStep
  <2> QED  BY <1>1, <1>2, <2>5, OnlyAsks
<1> QED  BY <1>3, <1>4 DEF rest_got

-------------------------------------------------------------------------------
\* The messages of a request.
LEMMA MovesOn ==
    ASSUME TypeOK, NEW c \in Client, NEW where \in {"sent", "recv"}, CallOK(c),
           cl' = [cl EXCEPT ![c].pc = where], fd' = fd, opened' = opened
    PROVE  /\ cl' \in [Client -> ClientState] /\ cl'[c].pc = where
           /\ cl'[c].to = cl[c].to /\ cl'[c].req = cl[c].req /\ cl'[c].n = cl[c].n
           /\ CallOK(c)' /\ \A d \in Client \ {c} : Untouched(d)
<1>1. cl \in [Client -> ClientState]  BY DEF TypeOK
<1>2. PICK r \in ClientState : r = [cl[c] EXCEPT !.pc = where]
  BY <1>1 DEF ClientState
<1>3. /\ r.pc = where /\ r.op = cl[c].op /\ r.n = cl[c].n /\ r.to = cl[c].to /\ r.req = cl[c].req
      /\ r.old = cl[c].old
  BY <1>1, <1>2 DEF ClientState
<1>4. cl' = [cl EXCEPT ![c] = r]  BY <1>2
<1>5. cl' \in [Client -> ClientState] /\ cl'[c] = r  BY <1>1, <1>4
<1>6. CallOK(c)'  BY <1>3, <1>5 DEF CallOK, HoldsFile
<1>7. \A d \in Client \ {c} : Untouched(d)  BY <1>1, <1>4 DEF Untouched
<1> QED  BY <1>3, <1>5, <1>6, <1>7

\* The client waits for the answer.
LEMMA IpcRecvStep == ASSUME IInv, NEW c \in Client, ipc_recv(c) PROVE IInv'
<1>1. TypeOK /\ IdInv /\ FdInv /\ SrvInv /\ FromInv /\ CallInv  BY DEF IInv
<1>2. /\ cl[c].pc = "sent" /\ cl' = [cl EXCEPT ![c].pc = "recv"]
      /\ UNCHANGED tables /\ UNCHANGED <<srv, fd, opened, calls>>
  BY DEF ipc_recv
<1>3. CallOK(c)  BY <1>1, <1>2 DEF CallInv, InCall
<1>4. /\ cl' \in [Client -> ClientState] /\ cl'[c].pc = "recv"
      /\ cl'[c].to = cl[c].to /\ cl'[c].req = cl[c].req /\ cl'[c].n = cl[c].n
      /\ CallOK(c)' /\ \A d \in Client \ {c} : Untouched(d)
  BY <1>1, <1>2, <1>3, MovesOn
<1>5. TypeOK'  BY <1>1, <1>2, <1>4 DEF TypeOK, tables
<1>6. SameFiles /\ Copies /\ \A s \in Server : SameServer(s)
  BY <1>2 DEF SameFiles, Copies, SameServer, tables
<1>7. IdInv' /\ FdInv' /\ SrvInv'  BY <1>1, <1>6, TablesKept, ServerKept DEF SrvInv
<1>8. ASSUME NEW d \in Client, cl'[d].pc \in InCall PROVE CallOK(d)'
  <2>1. CASE d = c  BY <1>4, <2>1
  <2>2. CASE d # c
    <3>1. Untouched(d) /\ cl'[d] = cl[d]  BY <1>4, <2>2 DEF Untouched
    <3>2. CallOK(d)  BY <1>1, <1>8, <3>1 DEF CallInv
    <3> QED  BY <1>1, <3>1, <3>2, CallKept
  <2> QED  BY <2>1, <2>2
<1>9. ASSUME NEW s \in Server, NEW d \in Client, srv'[s].from = d PROVE FromOK(s, d)'
  <2>1. srv[s].from = d  BY <1>2, <1>9
  <2>2. CASE d = c
    <3>1. FromOK(s, c)  BY <1>1, <2>1, <2>2 DEF FromInv
    <3> QED  BY <1>2, <1>4, <2>2, <3>1 DEF FromOK
  <2>3. CASE d # c  BY <1>4, <1>6, <2>1, <2>3, FromKept
  <2> QED  BY <2>2, <2>3
<1> QED  BY <1>5, <1>7, <1>8, <1>9 DEF IInv, CallInv, FromInv

\* The server takes the request of one client, which then waits for that server.
LEMMA IpcSendStep == ASSUME IInv, NEW c \in Client, ipc_send(c) PROVE IInv'
<1>1. TypeOK /\ IdInv /\ FdInv /\ SrvInv /\ FromInv /\ CallInv  BY DEF IInv
<1>2. PICK s \in Server : s = cl[c].to  BY <1>1, FieldTypes
<1>3. PICK where \in {"alloc", "work"} :
         where = IF cl[c].req.type \in {"OPEN", "CREAT"} THEN "alloc" ELSE "work"
  OBVIOUS
<1>4. PICK q \in ServerState :
         /\ q = Serving(where, c, cl[c].req) /\ q.pc = where /\ q.from = c /\ q.req = cl[c].req
         /\ q.file = None
  <2>1. where \in ServerPc /\ c \in Client \cup {None} /\ cl[c].req \in Request
    BY <1>1, FieldTypes DEF ServerPc
  <2> QED  BY <2>1, ServingFields
<1>5. /\ cl[c].pc = "send" /\ cl' = [cl EXCEPT ![c].pc = "sent"]
      /\ UNCHANGED tables /\ UNCHANGED <<fd, opened, calls>>
      /\ srv' = [srv EXCEPT ![s] = q]
  BY <1>2, <1>3, <1>4 DEF ipc_send
<1>6. srv \in [Server -> ServerState]  BY <1>1 DEF TypeOK
<1>7. /\ srv' \in [Server -> ServerState] /\ srv'[s] = q
      /\ \A t \in Server \ {s} : srv'[t] = srv[t] /\ SameServer(t)
  BY <1>5, <1>6 DEF SameServer
<1>8. CallOK(c)  BY <1>1, <1>5 DEF CallInv, InCall
<1>9. /\ cl' \in [Client -> ClientState] /\ cl'[c].pc = "sent"
      /\ cl'[c].to = cl[c].to /\ cl'[c].req = cl[c].req /\ cl'[c].n = cl[c].n
      /\ CallOK(c)' /\ \A d \in Client \ {c} : Untouched(d)
  BY <1>1, <1>5, <1>8, MovesOn
<1>10. TypeOK'  BY <1>1, <1>5, <1>7, <1>9 DEF TypeOK, tables
<1>11. SameFiles /\ Copies  BY <1>5 DEF SameFiles, Copies, tables
<1>12. IdInv' /\ FdInv'  BY <1>1, <1>11, TablesKept
<1>13. ASSUME NEW t \in Server PROVE SrvOK(t)'
  <2>1. CASE t = s
    <3>1. where = "alloc" => cl[c].req.type \in Opens /\ cl[c].req.name \in Name
      BY <1>3, <1>8 DEF CallOK, Opens
    <3>2. where = "work" => cl[c].req.type \notin Opens  BY <1>3 DEF Opens
    <3> QED  BY <1>4, <1>7, <2>1, <3>1, <3>2 DEF SrvOK
  <2>2. CASE t # s  BY <1>1, <1>7, <1>11, <2>2, ServerKept DEF SrvInv
  <2> QED  BY <2>1, <2>2
<1>14. ASSUME NEW d \in Client, cl'[d].pc \in InCall PROVE CallOK(d)'
  <2>1. CASE d = c  BY <1>9, <2>1
  <2>2. CASE d # c
    <3>1. Untouched(d) /\ cl'[d] = cl[d]  BY <1>9, <2>2 DEF Untouched
    <3>2. CallOK(d)  BY <1>1, <1>14, <3>1 DEF CallInv
    <3> QED  BY <1>1, <3>1, <3>2, CallKept
  <2> QED  BY <2>1, <2>2
<1>15. ASSUME NEW t \in Server, NEW d \in Client, srv'[t].from = d PROVE FromOK(t, d)'
  <2>1. CASE t = s
    <3>1. d = c  BY <1>4, <1>7, <1>15, <2>1
    <3> QED  BY <1>2, <1>4, <1>7, <1>9, <2>1, <3>1 DEF FromOK
  <2>2. CASE t # s
    <3>1. srv[t].from = d  BY <1>7, <1>15, <2>2
    <3>2. d # c  BY <1>1, <1>5, <3>1 DEF FromInv, FromOK
    <3> QED  BY <1>7, <1>9, <2>2, <3>1, <3>2, FromKept
  <2> QED  BY <2>1, <2>2
<1> QED  BY <1>10, <1>12, <1>13, <1>14, <1>15 DEF IInv, CallInv, FromInv, SrvInv

-------------------------------------------------------------------------------
\* The end of an environment, and fork.
LEMMA DestroyStep ==
    ASSUME IInv, NEW c \in Client, env_destroy(c), calls' \in 0..MaxCalls
    PROVE  IInv'
<1>1. TypeOK /\ IdInv /\ FdInv /\ SrvInv /\ FromInv /\ CallInv  BY DEF IInv
<1>2. /\ cl' = [cl EXCEPT ![c] = Dead] /\ fd' = [fd EXCEPT ![c] = [n \in Fdnum |-> None]]
      /\ opened' = [opened EXCEPT ![c] = [n \in Fdnum |-> None]]
      /\ srv' = [s \in Server |-> IF srv[s].from = c THEN [srv[s] EXCEPT !.from = None] ELSE srv[s]]
      /\ UNCHANGED tables
  BY DEF env_destroy
<1>3. /\ fd \in [Client -> [Fdnum -> (Server \X Slot) \cup {None}]]
      /\ opened \in [Client -> [Fdnum -> Opened \cup {None}]]
      /\ cl \in [Client -> ClientState] /\ srv \in [Server -> ServerState]
  BY <1>1 DEF TypeOK
<1>4. /\ fd' \in [Client -> [Fdnum -> (Server \X Slot) \cup {None}]]
      /\ opened' \in [Client -> [Fdnum -> Opened \cup {None}]]
      /\ cl' \in [Client -> ClientState]
  BY <1>2, <1>3, IdleFields
<1>5. ASSUME NEW s \in Server
      PROVE  /\ srv'[s] \in ServerState /\ SameServer(s) /\ srv'[s].from # c
             /\ srv'[s].from # None => srv'[s].from = srv[s].from
  <2>1. srv'[s] = IF srv[s].from = c THEN [srv[s] EXCEPT !.from = None] ELSE srv[s]  BY <1>2
  <2>2. srv[s] \in ServerState /\ c # None  BY <1>3, ServAssumption
  <2>3. CASE srv[s].from = c
    <3>1. srv'[s] = [srv[s] EXCEPT !.from = None]  BY <2>1, <2>3
    <3>2. srv'[s] \in ServerState /\ srv'[s].from = None  BY <2>2, <3>1 DEF ServerState
    <3>3. SameServer(s)  BY <2>2, <3>1 DEF ServerState, SameServer
    <3> QED  BY <2>2, <3>2, <3>3
  <2>4. CASE srv[s].from # c  BY <2>1, <2>2, <2>4 DEF SameServer
  <2> QED  BY <2>3, <2>4
<1>6. srv' \in [Server -> ServerState]  BY <1>2, <1>5
<1>7. TypeOK'  BY <1>1, <1>2, <1>4, <1>6 DEF TypeOK, tables
<1>8. cl'[c].pc = "dead" /\ \A d \in Client \ {c} : Untouched(d)
  BY <1>2, <1>3, IdleFields DEF Untouched
<1>9. /\ \A n \in Fdnum : fd'[c][n] = None
      /\ \A d \in Client \ {c} : fd'[d] = fd[d] /\ opened'[d] = opened[d]
  BY <1>2, <1>3
<1>10. SameFiles  BY <1>2 DEF SameFiles, tables
<1>11. Copies
  <2>1. ASSUME NEW d \in Client, NEW m \in Fdnum
        PROVE  \/ fd'[d][m] = None
               \/ \E a \in Client, k \in Fdnum : fd'[d][m] = fd[a][k] /\ opened'[d][m] = opened[a][k]
    BY <1>9
  <2> QED  BY <2>1 DEF Copies
<1>12. IdInv' /\ FdInv' /\ SrvInv'
  BY <1>1, <1>5, <1>10, <1>11, TablesKept, ServerKept DEF SrvInv
<1>13. ASSUME NEW d \in Client, cl'[d].pc \in InCall PROVE CallOK(d)'
  <2>1. d # c  BY <1>8, <1>13 DEF InCall
  <2>2. Untouched(d) /\ cl'[d] = cl[d]  BY <1>8, <2>1 DEF Untouched
  <2>3. CallOK(d)  BY <1>1, <1>13, <2>2 DEF CallInv
  <2> QED  BY <1>1, <2>2, <2>3, CallKept
<1>14. ASSUME NEW s \in Server, NEW d \in Client, srv'[s].from = d PROVE FromOK(s, d)'
  <2>1. d # None  BY ServAssumption
  <2>2. srv[s].from = d /\ d # c  BY <1>5, <1>14, <2>1
  <2> QED  BY <1>5, <1>8, <2>2, FromKept
<1> QED  BY <1>7, <1>12, <1>13, <1>14 DEF IInv, CallInv, FromInv

\* A client may end anywhere.
LEMMA DieStep == ASSUME IInv, NEW c \in Client, die(c) \/ send_panic(c) PROVE IInv'
<1>1. calls \in 0..MaxCalls /\ MaxCalls \in Nat  BY Sizes DEF IInv, TypeOK
<1>2. env_destroy(c) /\ calls' \in 0..MaxCalls  BY <1>1 DEF die, send_panic
<1> QED  BY <1>2, DestroyStep

\* The child has the descriptors of its parent.
LEMMA ForkStep == ASSUME IInv, NEW c \in Client, NEW d \in Client, fork(c, d) PROVE IInv'
<1>1. TypeOK /\ IdInv /\ FdInv /\ SrvInv /\ FromInv /\ CallInv  BY DEF IInv
<1>2. /\ cl[c].pc = "idle" /\ cl[d].pc = "dead" /\ cl' = [cl EXCEPT ![d] = Idle]
      /\ fd' = [fd EXCEPT ![d] = fd[c]] /\ opened' = [opened EXCEPT ![d] = opened[c]]
      /\ UNCHANGED tables /\ UNCHANGED <<srv, calls>>
  BY DEF fork
<1>3. /\ fd \in [Client -> [Fdnum -> (Server \X Slot) \cup {None}]]
      /\ opened \in [Client -> [Fdnum -> Opened \cup {None}]]
      /\ cl \in [Client -> ClientState]
  BY <1>1 DEF TypeOK
<1>4. /\ fd' \in [Client -> [Fdnum -> (Server \X Slot) \cup {None}]]
      /\ opened' \in [Client -> [Fdnum -> Opened \cup {None}]]
      /\ cl' \in [Client -> ClientState]
  BY <1>2, <1>3, IdleFields
<1>5. TypeOK'  BY <1>1, <1>2, <1>4 DEF TypeOK, tables
<1>6. cl'[d].pc = "idle" /\ \A e \in Client \ {d} : Untouched(e)
  BY <1>2, <1>3, IdleFields DEF Untouched
<1>7. /\ \A n \in Fdnum : fd'[d][n] = fd[c][n] /\ opened'[d][n] = opened[c][n]
      /\ \A e \in Client \ {d} : fd'[e] = fd[e] /\ opened'[e] = opened[e]
  BY <1>2, <1>3
<1>8. SameFiles /\ \A s \in Server : SameServer(s)  BY <1>2 DEF SameFiles, SameServer, tables
<1>9. Copies
  <2>1. ASSUME NEW e \in Client, NEW m \in Fdnum
        PROVE  \E a \in Client, k \in Fdnum : fd'[e][m] = fd[a][k] /\ opened'[e][m] = opened[a][k]
    <3>1. CASE e = d  BY <1>7, <3>1
    <3>2. CASE e # d  BY <1>7, <3>2
    <3> QED  BY <3>1, <3>2
  <2> QED  BY <2>1 DEF Copies
<1>10. IdInv' /\ FdInv' /\ SrvInv'
  BY <1>1, <1>8, <1>9, TablesKept, ServerKept DEF SrvInv
<1>11. ASSUME NEW e \in Client, cl'[e].pc \in InCall PROVE CallOK(e)'
  <2>1. e # d  BY <1>6, <1>11 DEF InCall
  <2>2. Untouched(e) /\ cl'[e] = cl[e]  BY <1>6, <2>1 DEF Untouched
  <2>3. CallOK(e)  BY <1>1, <1>11, <2>2 DEF CallInv
  <2> QED  BY <1>1, <2>2, <2>3, CallKept
<1>12. ASSUME NEW s \in Server, NEW e \in Client, srv'[s].from = e PROVE FromOK(s, e)'
  <2>1. srv[s].from = e  BY <1>2, <1>12
  <2>2. e # d  BY <1>1, <1>2, <2>1 DEF FromInv, FromOK
  <2> QED  BY <1>6, <1>8, <2>1, <2>2, FromKept
<1> QED  BY <1>5, <1>10, <1>11, <1>12 DEF IInv, CallInv, FromInv

-------------------------------------------------------------------------------
\* A step of server s in a request, while clients do nothing: what is left to show is
\* that the files stay, and that s is in order.
LEMMA ServerStep ==
    ASSUME IInv, NEW s \in Server, SameRequest(s),
           srv[s].pc \in {"alloc", "open", "work"}, srv'[s].pc \in {"alloc", "open", "reply"},
           fd' = fd, cl' = cl, \A c \in Client : Untouched(c),
           TypeOK', IdInv', FdInv', SrvOK(s)', \A t \in Server \ {s} : SrvOK(t)',
           \/ srv'[s].file = None
           \/ srv[s].from # None => srv'[s].file = opened[srv[s].from][cl[srv[s].from].n].entry
    PROVE  IInv'
<1>1. TypeOK /\ FromInv /\ CallInv  BY DEF IInv
<1>2. SrvInv'
  <2>1. ASSUME NEW t \in Server PROVE SrvOK(t)'
    <3>1. CASE t = s  BY <3>1
    <3>2. CASE t # s  BY <3>2
    <3> QED  BY <3>1, <3>2
  <2> QED  BY <2>1 DEF SrvInv
<1>3. ASSUME NEW d \in Client, cl'[d].pc \in InCall PROVE CallOK(d)'
  <2>1. CallOK(d)  BY <1>1, <1>3 DEF CallInv
  <2> QED  BY <1>1, <2>1, CallKept
<1>4. ASSUME NEW t \in Server, NEW d \in Client, srv'[t].from = d PROVE FromOK(t, d)'
  <2>1. CASE t # s
    <3>1. srv'[t] = srv[t]  BY <2>1 DEF SameRequest, OtherServers
    <3>2. srv[t].from = d /\ SameServer(t)  BY <1>4, <3>1 DEF SameServer
    <3> QED  BY <3>2, FromKept
  <2>2. CASE t = s
    <3>1. srv[s].from = d /\ srv'[s].req = srv[s].req  BY <1>4, <2>2 DEF SameRequest
    <3>2. FromOK(s, d) /\ d # None  BY <1>1, <3>1, ServAssumption DEF FromInv
    <3>3. cl[d].n \in Fdnum  BY <1>1, FieldTypes
    <3>4. srv'[s].file # None => srv'[s].file = opened'[d][cl[d].n].entry
      <4>1. SUFFICES ASSUME srv'[s].file # None PROVE srv'[s].file = opened'[d][cl[d].n].entry
        OBVIOUS
      <4>2. srv'[s].file = opened[d][cl[d].n].entry  BY <3>1, <3>2, <4>1
      <4>3. cl[d].req.type \in AboutFile
        <5>1. srv'[s].req.type \in AboutFile  BY <4>1 DEF SrvOK
        <5> QED  BY <3>1, <3>2, <5>1 DEF FromOK
      <4>4. cl[d].pc \in InCall  BY <3>2 DEF FromOK, InCall
      <4>5. fd[d][cl[d].n] # None  BY <1>1, <4>3, <4>4 DEF CallInv, CallOK, HoldsFile
      <4>6. opened'[d][cl[d].n].entry = opened[d][cl[d].n].entry
        BY <3>3, <4>5 DEF Untouched
      <4> QED  BY <4>2, <4>6
    <3> QED  BY <2>2, <3>1, <3>2, <3>4 DEF FromOK
  <2> QED  BY <2>1, <2>2
<1> QED  BY <1>2, <1>3, <1>4 DEF IInv, CallInv, FromInv

\* Clients that do nothing.
LEMMA AllUntouched ==
    ASSUME UNCHANGED <<fd, opened, cl>>
    PROVE  \A c \in Client : Untouched(c)
BY DEF Untouched

\* open_alloc takes only an entry whose page no client maps.
LEMMA AllocStep == ASSUME IInv, NEW s \in Server, open_alloc(s) PROVE IInv'
<1>1. TypeOK /\ IdInv /\ FdInv /\ SrvInv  BY DEF IInv
<1>2. PICK i : i = srv[s].i  OBVIOUS
<1>3. /\ srv[s].pc = "alloc" /\ SameRequest(s) /\ srv'[s].file = srv[s].file
      /\ UNCHANGED <<o_file, dir, fd, opened, cl, calls>>
  BY <1>1, AllocEffect
<1>4. srv[s].file = None /\ srv[s].req.type \in Opens /\ srv[s].req.name \in Name
  BY <1>1, <1>3 DEF SrvInv, SrvOK
<1>5. srv' \in [Server -> ServerState] /\ srv'[s].req = srv[s].req
      /\ \A t \in Server \ {s} : srv'[t] = srv[t] /\ SameServer(t)
  BY <1>3 DEF SameRequest, OtherServers, SameServer
<1>6. CASE /\ UNCHANGED <<o_fileid, ff>>
           /\ \/ srv'[s].pc = "reply" /\ srv'[s].answer # "OK"
              \/ srv'[s].pc = "alloc"
  <2>1. TypeOK'  BY <1>1, <1>3, <1>5, <1>6 DEF TypeOK
  <2>2. SameFiles /\ Copies  BY <1>3, <1>6 DEF SameFiles, Copies
  <2>3. IdInv' /\ FdInv'  BY <1>1, <2>2, TablesKept
  <2>4. \A t \in Server \ {s} : SrvOK(t)'  BY <1>1, <1>5, <2>2, ServerKept DEF SrvInv
  <2>5. SrvOK(s)'  BY <1>3, <1>4, <1>5, <1>6 DEF SrvOK
  <2> QED  BY <1>3, <1>4, <1>6, <2>1, <2>3, <2>4, <2>5, AllUntouched, ServerStep
<1>7. CASE /\ i \in Slot /\ \A c \in Client, n \in Fdnum : fd[c][n] # <<s, i>>
           /\ o_fileid' = [o_fileid EXCEPT ![s][i] = new_fileid(o_fileid[s][i])]
           /\ ff' = [ff EXCEPT ![s][i] = [here |-> TRUE, fileid |-> 0, size |-> 0]]
           /\ \/ srv'[s].pc = "reply" /\ srv'[s].answer # "OK"
              \/ srv'[s].pc = "open" /\ srv'[s].i = i
  <2>1. PICK f \in Filefd : f = [here |-> TRUE, fileid |-> 0, size |-> 0]
    BY Sizes DEF Filefd
  <2>2. f.here  BY <2>1
  <2>3. PICK id \in Fileid : id = new_fileid(o_fileid[s][i]) /\ id % MAXOPEN_NUM = i + s * MAXOPEN
    <3>1. o_fileid[s][i] \in Fileid /\ IdOK(s, i)  BY <1>1, <1>7, FieldTypes DEF IdInv
    <3> QED  BY <3>1, NewFileid DEF IdOK
  <2>4. /\ o_fileid \in [Server -> [Slot -> Fileid]] /\ ff \in [Server -> [Slot -> Filefd]]
    BY <1>1 DEF TypeOK
  <2>5. o_fileid' = [o_fileid EXCEPT ![s][i] = id] /\ ff' = [ff EXCEPT ![s][i] = f]
    BY <1>7, <2>1, <2>3
  <2>6. /\ o_fileid' \in [Server -> [Slot -> Fileid]] /\ ff' \in [Server -> [Slot -> Filefd]]
        /\ o_fileid'[s][i] = id /\ ff'[s][i] = f
        /\ \A t \in Server, j \in Slot : t # s \/ j # i =>
              o_fileid'[t][j] = o_fileid[t][j] /\ ff'[t][j] = ff[t][j]
    <3>1. i \in Slot  BY <1>7
    <3>2. o_fileid' \in [Server -> [Slot -> Fileid]] /\ ff' \in [Server -> [Slot -> Filefd]]
      BY <2>4, <2>5, <3>1
    <3>3. o_fileid'[s][i] = id /\ ff'[s][i] = f  BY <2>4, <2>5, <3>1
    <3>4. ASSUME NEW t \in Server, NEW j \in Slot, t # s \/ j # i
          PROVE  o_fileid'[t][j] = o_fileid[t][j] /\ ff'[t][j] = ff[t][j]
      BY <2>4, <2>5, <3>1, <3>4
    <3> QED  BY <3>2, <3>3, <3>4
  <2>7. TypeOK'  BY <1>1, <1>3, <1>5, <2>6 DEF TypeOK
  <2>8. ASSUME NEW t \in Server, NEW j \in Slot PROVE IdOK(t, j)'
    <3>1. CASE t = s /\ j = i  BY <2>3, <2>6, <3>1 DEF IdOK
    <3>2. CASE t # s \/ j # i  BY <1>1, <2>6, <3>2 DEF IdInv, IdOK
    <3> QED  BY <3>1, <3>2
  <2>9. IdInv'  BY <2>8 DEF IdInv
  <2>10. ASSUME NEW c \in Client, NEW n \in Fdnum, NEW t \in Server, NEW j \in Slot,
                fd'[c][n] = <<t, j>>
         PROVE  FdOK(c, n, t, j)'
    <3>1. fd[c][n] = <<t, j>>  BY <1>3, <2>10
    <3>2. t # s \/ j # i  BY <1>7, <3>1
    <3>3. o_fileid'[t][j] = o_fileid[t][j] /\ ff'[t][j] = ff[t][j]  BY <2>6, <3>2
    <3>4. FdOK(c, n, t, j)  BY <1>1, <3>1 DEF FdInv
    <3> QED  BY <1>3, <3>3, <3>4 DEF FdOK
  <2>11. FdInv'  BY <2>10 DEF FdInv
  <2>12. ASSUME NEW t \in Server \ {s} PROVE SrvOK(t)'
    <3>1. SrvOK(t) /\ srv'[t] = srv[t]  BY <1>1, <1>5 DEF SrvInv
    <3>2. \A j \in Slot : o_fileid'[t][j] = o_fileid[t][j] /\ ff'[t][j] = ff[t][j]  BY <2>6
    <3> QED  BY <1>3, <3>1, <3>2 DEF SrvOK
  <2>13. SrvOK(s)'
    <3>1. CASE srv'[s].pc = "reply" /\ srv'[s].answer # "OK"  BY <1>3, <1>4, <3>1 DEF SrvOK
    <3>2. CASE srv'[s].pc = "open" /\ srv'[s].i = i
      <4>1. \A c \in Client, n \in Fdnum : fd'[c][n] # <<s, i>>  BY <1>3, <1>7
      <4>2. i \in Slot /\ ff'[s][i].here  BY <1>7, <2>2, <2>6
      <4> QED  BY <1>3, <1>4, <1>5, <3>2, <4>1, <4>2 DEF SrvOK
    <3> QED  BY <1>7, <3>1, <3>2
  <2> QED  BY <1>3, <1>4, <1>7, <2>7, <2>9, <2>11, <2>12, <2>13, AllUntouched, ServerStep
<1> QED  BY <1>1, <1>2, <1>6, <1>7, AllocEffect

\* serve_open gives the entry to a file whose name it may create.
LEMMA ServeOpenStep == ASSUME IInv, NEW s \in Server, serve_open(s) PROVE IInv'
<1>1. TypeOK /\ IdInv /\ FdInv /\ SrvInv  BY DEF IInv
<1>2. PICK i, name : i = srv[s].i /\ name = srv[s].req.name  OBVIOUS
<1>3. /\ srv[s].pc = "open" /\ SameRequest(s) /\ srv'[s].pc = "reply"
      /\ srv'[s].i = i /\ srv'[s].file = srv[s].file
      /\ UNCHANGED <<o_fileid, fd, opened, cl, calls>>
  BY <1>1, <1>2, OpenEffect
<1>4. /\ srv[s].file = None /\ srv[s].req.type \in Opens /\ name \in Name
      /\ i \in Slot /\ ff[s][i].here /\ \A c \in Client, n \in Fdnum : fd[c][n] # <<s, i>>
  BY <1>1, <1>2, <1>3 DEF SrvInv, SrvOK
<1>5. srv' \in [Server -> ServerState] /\ srv'[s].req = srv[s].req
      /\ \A t \in Server \ {s} : srv'[t] = srv[t] /\ SameServer(t)
  BY <1>3 DEF SameRequest, OtherServers, SameServer
<1>6. CASE srv'[s].answer # "OK" /\ UNCHANGED tables
  <2>1. TypeOK'  BY <1>1, <1>3, <1>5, <1>6 DEF TypeOK, tables
  <2>2. SameFiles /\ Copies  BY <1>3, <1>6 DEF SameFiles, Copies, tables
  <2>3. IdInv' /\ FdInv'  BY <1>1, <2>2, TablesKept
  <2>4. \A t \in Server \ {s} : SrvOK(t)'  BY <1>1, <1>5, <2>2, ServerKept DEF SrvInv
  <2>5. SrvOK(s)'  BY <1>3, <1>4, <1>6 DEF SrvOK
  <2> QED  BY <1>3, <1>4, <2>1, <2>3, <2>4, <2>5, AllUntouched, ServerStep
<1>7. ASSUME NEW e \in Entry, Gets(s, i, name, e) PROVE IInv'
  <2>1. /\ o_fileid \in [Server -> [Slot -> Fileid]] /\ ff \in [Server -> [Slot -> Filefd]]
        /\ o_file \in [Server -> [Slot -> Entry]] /\ dir \in [Server -> [Entry -> DirEntry]]
    BY <1>1 DEF TypeOK
  <2>2. PICK f \in Filefd : /\ f = [ff[s][i] EXCEPT !.fileid = o_fileid[s][i], !.size = dir[s][e].size]
                            /\ f.here /\ f.fileid = o_fileid[s][i]
    <3>1. /\ ff[s][i] \in Filefd /\ o_fileid[s][i] \in Fileid /\ dir[s][e].size \in 0..MaxSize
      BY <1>1, <1>4, FieldTypes
    <3>2. PICK a, b, h : a = o_fileid[s][i] /\ b = dir[s][e].size /\ h = ff[s][i]  OBVIOUS
    <3>3. h \in Filefd /\ h.here /\ a \in Fileid /\ b \in 0..MaxSize  BY <1>4, <3>1, <3>2
    <3>4. /\ [h EXCEPT !.fileid = a, !.size = b] \in Filefd
          /\ [h EXCEPT !.fileid = a, !.size = b].here /\ [h EXCEPT !.fileid = a, !.size = b].fileid = a
      BY <3>3 DEF Filefd
    <3> QED  BY <3>2, <3>4
  <2>3. ff' = [ff EXCEPT ![s][i] = f]  BY <1>4, <1>7, <2>1, <2>2 DEF Gets
  <2>4. PICK g \in DirEntry : g = [dir[s][e] EXCEPT !.name = name] /\ g.name = name
    <3>1. dir[s][e] \in DirEntry  BY <2>1
    <3>2. /\ [dir[s][e] EXCEPT !.name = name] \in DirEntry
          /\ [dir[s][e] EXCEPT !.name = name].name = name
      BY <1>4, <3>1 DEF DirEntry
    <3> QED  BY <3>2
  <2>5. dir' = [dir EXCEPT ![s][e] = g]  BY <1>7, <2>4 DEF Gets
  <2>6. /\ ff' \in [Server -> [Slot -> Filefd]] /\ ff'[s][i] = f
    BY <1>4, <2>1, <2>3
  <2>7. /\ o_file' \in [Server -> [Slot -> Entry]] /\ o_file'[s][i] = e
    BY <1>4, <1>7, <2>1 DEF Gets
  <2>8. /\ dir' \in [Server -> [Entry -> DirEntry]] /\ dir'[s][e].name = name
    BY <2>1, <2>4, <2>5
  <2>9. ASSUME NEW t \in Server, NEW j \in Slot, t # s \/ j # i
        PROVE  o_file'[t][j] = o_file[t][j] /\ ff'[t][j] = ff[t][j]
    BY <1>4, <1>7, <2>1, <2>3, <2>9 DEF Gets
  <2>10. ASSUME NEW t \in Server, NEW d \in Entry, t # s \/ d # e
         PROVE  dir'[t][d] = dir[t][d]
    BY <2>1, <2>5, <2>10
  <2>11. TypeOK'  BY <1>1, <1>3, <1>5, <2>6, <2>7, <2>8 DEF TypeOK
  <2>12. IdInv'  BY <1>1, <1>3 DEF IdInv, IdOK
  <2>13. ASSUME NEW c \in Client, NEW n \in Fdnum, NEW t \in Server, NEW j \in Slot,
                fd'[c][n] = <<t, j>>
         PROVE  FdOK(c, n, t, j)'
    <3>1. fd[c][n] = <<t, j>>  BY <1>3, <2>13
    <3>2. t # s \/ j # i  BY <1>4, <3>1
    <3>3. o_file'[t][j] = o_file[t][j] /\ ff'[t][j] = ff[t][j]  BY <2>9, <3>2
    <3>4. FdOK(c, n, t, j)  BY <1>1, <3>1 DEF FdInv
    <3>5. PICK o \in Opened : o = opened[c][n] /\ o = opened'[c][n]  BY <1>3, <3>4 DEF FdOK
    <3>6. o.name \in Name /\ o.entry \in Entry /\ None \notin Name  BY ServAssumption DEF Opened
    <3>7. o.gone \/ dir'[t][o.entry].name = o.name
      <4>1. o.gone \/ dir[t][o.entry].name = o.name  BY <3>4, <3>5 DEF FdOK
      <4>2. CASE t # s \/ o.entry # e  BY <2>10, <3>6, <4>1, <4>2
      <4>3. CASE t = s /\ o.entry = e  BY <1>7, <2>8, <3>6, <4>1, <4>3 DEF Gets
      <4> QED  BY <4>2, <4>3
    <3> QED  BY <1>3, <3>3, <3>4, <3>5, <3>7 DEF FdOK
  <2>14. FdInv'  BY <2>13 DEF FdInv
  <2>15. ASSUME NEW t \in Server \ {s} PROVE SrvOK(t)'
    <3>1. SrvOK(t) /\ srv'[t] = srv[t]  BY <1>1, <1>5 DEF SrvInv
    <3>2. \A j \in Slot : o_file'[t][j] = o_file[t][j] /\ ff'[t][j] = ff[t][j]  BY <2>9
    <3>3. \A d \in Entry : dir'[t][d] = dir[t][d]  BY <2>10
    <3>4. \A j \in Slot : o_file[t][j] \in Entry  BY <2>1
    <3> QED  BY <1>3, <3>1, <3>2, <3>3, <3>4 DEF SrvOK
  <2>16. SrvOK(s)'
    <3>1. /\ ff'[s][i].here /\ ff'[s][i].fileid = o_fileid'[s][i]
          /\ dir'[s][o_file'[s][i]].name = name
      BY <1>3, <2>2, <2>6, <2>7, <2>8
    <3> QED  BY <1>2, <1>3, <1>4, <1>5, <3>1 DEF SrvOK
  <2> QED  BY <1>3, <1>4, <2>11, <2>12, <2>14, <2>15, <2>16, AllUntouched, ServerStep
<1>8. \/ srv'[s].answer # "OK" /\ UNCHANGED tables
      \/ \E e \in Entry : Gets(s, i, name, e)
  BY <1>1, <1>2, OpenEffect
<1> QED  BY <1>6, <1>7, <1>8

\* The entry that open_lookup finds is the one the client holds.
LEMMA FoundIsOwn ==
    ASSUME IInv, NEW s \in Server, NEW c \in Client, srv[s].from = c,
           srv[s].req.type \in AboutFile, Found(s) \in Slot,
           o_fileid[s][Found(s)] = srv[s].req.fileid
    PROVE  o_file[s][Found(s)] = opened[c][cl[c].n].entry
<1>1. TypeOK /\ IdInv /\ FdInv /\ FromInv /\ CallInv  BY DEF IInv
<1>2. FromOK(s, c)  BY <1>1 DEF FromInv
<1>3. CallOK(c) /\ cl[c].req = srv[s].req /\ cl[c].to = s  BY <1>1, <1>2 DEF FromOK, CallInv, InCall
<1>4. PICK n \in Fdnum : n = cl[c].n  BY <1>1, FieldTypes
<1>5. fd[c][n] # None /\ fd[c][n][1] = s /\ srv[s].req.fileid = opened[c][n].fileid
  BY <1>3, <1>4 DEF CallOK, HoldsFile
<1>6. PICK t \in Server, i \in Slot : fd[c][n] = <<t, i>>  BY <1>1, <1>5, FieldTypes
<1>7. t = s  BY <1>5, <1>6
<1>8. FdOK(c, n, s, i)  BY <1>1, <1>6, <1>7 DEF FdInv
<1>9. PICK j \in Slot : j = Found(s)  OBVIOUS
<1>10. o_fileid[s][j] = o_fileid[s][i]  BY <1>5, <1>8, <1>9 DEF FdOK
<1>11. i + s * MAXOPEN = j + s * MAXOPEN  BY <1>1, <1>10 DEF IdInv, IdOK
<1>12. i = j  BY <1>11, PlaceUnique
<1> QED  BY <1>4, <1>8, <1>9, <1>12 DEF FdOK

\* A request that leaves the names, the pages and opentab alone.
LEMMA FileRequestStep ==
    ASSUME IInv, NEW s \in Server, srv[s].pc = "work", srv[s].req.type \notin Opens,
           SameRequest(s), srv'[s].pc = "reply", UNCHANGED <<o_fileid, o_file, ff, fd, opened, cl, calls>>,
           dir' \in [Server -> [Entry -> DirEntry]],
           \A t \in Server, e \in Entry : dir'[t][e].name = dir[t][e].name,
           \/ srv'[s].file = None
           \/ /\ srv[s].req.type \in AboutFile
              /\ Found(s) \in Slot /\ o_fileid[s][Found(s)] = srv[s].req.fileid
              /\ srv'[s].file = o_file[s][Found(s)]
    PROVE  IInv'
<1>1. TypeOK /\ IdInv /\ FdInv /\ SrvInv  BY DEF IInv
<1>2. srv' \in [Server -> ServerState] /\ srv'[s].req = srv[s].req
      /\ \A t \in Server \ {s} : srv'[t] = srv[t]
  BY DEF SameRequest, OtherServers
<1>3. TypeOK'  BY <1>1, <1>2 DEF TypeOK
<1>4. IdInv'  BY <1>1 DEF IdInv, IdOK
<1>5. ASSUME NEW c \in Client, NEW n \in Fdnum, NEW t \in Server, NEW j \in Slot,
             fd'[c][n] = <<t, j>>
      PROVE  FdOK(c, n, t, j)'
  <2>1. FdOK(c, n, t, j)  BY <1>1, <1>5 DEF FdInv
  <2>2. opened[c][n].entry \in Entry  BY <2>1 DEF FdOK, Opened
  <2> QED  BY <2>1, <2>2 DEF FdOK
<1>6. FdInv'  BY <1>5 DEF FdInv
<1>7. ASSUME NEW t \in Server \ {s} PROVE SrvOK(t)'
  <2>1. SrvOK(t) /\ srv'[t] = srv[t]  BY <1>1, <1>2 DEF SrvInv
  <2>2. \A j \in Slot : o_file[t][j] \in Entry  BY <1>1, FieldTypes
  <2> QED  BY <2>1, <2>2 DEF SrvOK
<1>8. SrvOK(s)'  BY <1>2 DEF SrvOK
<1>9. \/ srv'[s].file = None
      \/ srv[s].from # None => srv'[s].file = opened[srv[s].from][cl[srv[s].from].n].entry
  <2>1. srv[s].from \in Client \cup {None}  BY <1>1, FieldTypes
  <2> QED  BY <2>1, FoundIsOwn
<1> QED  BY <1>3, <1>4, <1>6, <1>7, <1>8, <1>9, AllUntouched, ServerStep

\* The requests about an open file, and sync.
LEMMA WorkStep ==
    ASSUME IInv, NEW s \in Server,
           serve_map(s) \/ serve_set_size(s) \/ serve_close(s) \/ serve_dirty(s) \/ serve_sync(s)
    PROVE  IInv'
<1>1. TypeOK /\ SrvInv  BY DEF IInv
<1>2. /\ srv[s].pc = "work" /\ srv[s].req.type \in AboutFile \cup {"SYNC"}
      /\ UNCHANGED <<o_fileid, o_file, ff, fd, opened, cl, calls>>
  BY DEF serve_map, serve_set_size, serve_close, serve_dirty, serve_sync, request, At, AboutFile, tables
<1>3. srv[s].file = None /\ srv[s].req.type \notin Opens
  BY <1>1, <1>2 DEF SrvInv, SrvOK
<1>4. /\ \/ \E r \in Answer : answer(s, r)
         \/ srv[s].req.type \in AboutFile /\ \E r \in Answer : carried_out(s, r)
      /\ \/ UNCHANGED dir
         \/ /\ Found(s) \in Slot
            /\ dir' = [dir EXCEPT ![s][o_file[s][Found(s)]].size = srv[s].req.block]
  <2>1. {"OK", "E_NO_DISK", "E_INVAL"} \subseteq Answer  BY DEF Answer
  <2>2. CASE serve_map(s)  BY <2>1, <2>2 DEF serve_map, request, AboutFile, refused, tables
  <2>3. CASE serve_set_size(s)
    BY <2>1, <2>3, CarriedOutFields, <1>1 DEF serve_set_size, request, AboutFile, refused
  <2>4. CASE serve_close(s)  BY <2>1, <2>4 DEF serve_close, request, AboutFile, refused, tables
  <2>5. CASE serve_dirty(s)  BY <2>1, <2>5 DEF serve_dirty, request, AboutFile, refused, tables
  <2>6. CASE serve_sync(s)  BY <2>1, <2>6 DEF serve_sync
  <2> QED  BY <2>2, <2>3, <2>4, <2>5, <2>6
<1>5. /\ SameRequest(s) /\ srv'[s].pc = "reply"
      /\ \/ srv'[s].file = None
         \/ /\ srv[s].req.type \in AboutFile
            /\ Found(s) \in Slot /\ o_fileid[s][Found(s)] = srv[s].req.fileid
            /\ srv'[s].file = o_file[s][Found(s)]
  BY <1>1, <1>3, <1>4, AnswerFields, CarriedOutFields
<1>6. /\ dir' \in [Server -> [Entry -> DirEntry]]
      /\ \A t \in Server, e \in Entry : dir'[t][e].name = dir[t][e].name
  <2>1. dir \in [Server -> [Entry -> DirEntry]]  BY <1>1 DEF TypeOK
  <2>2. CASE UNCHANGED dir  BY <2>1, <2>2
  <2>3. CASE /\ Found(s) \in Slot
             /\ dir' = [dir EXCEPT ![s][o_file[s][Found(s)]].size = srv[s].req.block]
    <3>1. PICK d \in Entry : d = o_file[s][Found(s)]  BY <1>1, <2>3, FieldTypes
    <3>2. PICK b \in 0..MaxSize : b = srv[s].req.block  BY <1>1, FieldTypes
    <3>3. dir' = [dir EXCEPT ![s][d].size = b]  BY <2>3, <3>1, <3>2
    <3>4. dir[s][d] \in DirEntry  BY <2>1
    <3>5. [dir[s][d] EXCEPT !.size = b] \in DirEntry /\ [dir[s][d] EXCEPT !.size = b].name = dir[s][d].name
      BY <3>4 DEF DirEntry
    <3>6. PICK g \in DirEntry : g = [dir[s][d] EXCEPT !.size = b] /\ g.name = dir[s][d].name
      BY <3>5
    <3>7. dir' = [dir EXCEPT ![s][d] = g]  BY <3>3, <3>6
    <3>8. dir' \in [Server -> [Entry -> DirEntry]] /\ dir'[s][d] = g  BY <2>1, <3>7
    <3>9. ASSUME NEW t \in Server, NEW e \in Entry PROVE dir'[t][e].name = dir[t][e].name
      <4>1. CASE t = s /\ e = d  BY <3>6, <3>8, <4>1
      <4>2. CASE t # s \/ e # d  BY <2>1, <3>7, <4>2
      <4> QED  BY <4>1, <4>2
    <3> QED  BY <3>8, <3>9
  <2> QED  BY <1>4, <2>2, <2>3
<1> QED  BY <1>2, <1>3, <1>5, <1>6, FileRequestStep

\* remove: the descriptors of the file are told that it is gone.
LEMMA ServeRemoveStep == ASSUME IInv, NEW s \in Server, serve_remove(s) PROVE IInv'
<1>1. TypeOK /\ IdInv /\ FdInv /\ SrvInv  BY DEF IInv
<1>2. PICK gone \in SUBSET Entry : gone = Named(s, srv[s].req.name)  BY DEF Named
<1>3. /\ srv[s].pc = "work" /\ srv[s].req.type = "REMOVE"
      /\ UNCHANGED <<o_fileid, o_file, ff, fd, cl, calls>>
  BY DEF serve_remove, request, At
<1>4. dir' = [dir EXCEPT ![s] = [e \in Entry |->
                 IF e \in gone THEN [name |-> None, size |-> 0] ELSE dir[s][e]]]
  BY <1>1, <1>2 DEF serve_remove, TypeOK
<1>5. opened' = [c \in Client |-> [n \in Fdnum |->
                   IF fd[c][n] # None /\ fd[c][n][1] = s /\ opened[c][n].entry \in gone
                   THEN [opened[c][n] EXCEPT !.gone = TRUE] ELSE opened[c][n]]]
  BY <1>2 DEF serve_remove
<1>6. \E r \in Answer : answer(s, r)
  BY DEF serve_remove, Answer
<1>7. srv[s].file = None /\ srv[s].req.type \notin Opens
  BY <1>1, <1>3 DEF SrvInv, SrvOK
<1>8. SameRequest(s) /\ srv'[s].pc = "reply" /\ srv'[s].file = None
  BY <1>1, <1>6, <1>7, AnswerFields
<1>9. srv' \in [Server -> ServerState] /\ srv'[s].req = srv[s].req
      /\ \A t \in Server \ {s} : srv'[t] = srv[t]
  BY <1>8 DEF SameRequest, OtherServers
<1>10. dir \in [Server -> [Entry -> DirEntry]]  BY <1>1 DEF TypeOK
<1>11. [name |-> None, size |-> 0] \in DirEntry  BY Sizes DEF DirEntry
<1>12. /\ dir' \in [Server -> [Entry -> DirEntry]]
       /\ \A t \in Server \ {s} : dir'[t] = dir[t]
       /\ \A e \in Entry : e \notin gone => dir'[s][e] = dir[s][e]
  BY <1>4, <1>10, <1>11
<1>13. ASSUME NEW c \in Client, NEW n \in Fdnum, fd[c][n] # None
       PROVE  /\ opened'[c][n] \in Opened
              /\ opened'[c][n].name = opened[c][n].name
              /\ opened'[c][n].entry = opened[c][n].entry
              /\ opened'[c][n].fileid = opened[c][n].fileid
              /\ opened[c][n].gone => opened'[c][n].gone
              /\ (fd[c][n][1] = s /\ opened[c][n].entry \in gone) => opened'[c][n].gone
  <2>1. opened[c][n] \in Opened  BY <1>13, DescriptorFacts
  <2>2. CASE fd[c][n][1] = s /\ opened[c][n].entry \in gone
    <3>1. opened'[c][n] = [opened[c][n] EXCEPT !.gone = TRUE]  BY <1>5, <1>13, <2>2
    <3> QED  BY <2>1, <3>1 DEF Opened
  <2>3. CASE ~(fd[c][n][1] = s /\ opened[c][n].entry \in gone)
    <3>1. opened'[c][n] = opened[c][n]  BY <1>5, <2>3
    <3> QED  BY <2>1, <2>3, <3>1
  <2> QED  BY <2>2, <2>3
<1>14. opened' \in [Client -> [Fdnum -> Opened \cup {None}]]
  <2>1. opened \in [Client -> [Fdnum -> Opened \cup {None}]]  BY <1>1 DEF TypeOK
  <2>2. ASSUME NEW c \in Client, NEW n \in Fdnum PROVE opened'[c][n] \in Opened \cup {None}
    <3>1. CASE fd[c][n] # None  BY <1>13, <3>1
    <3>2. CASE fd[c][n] = None  BY <1>5, <2>1, <3>2
    <3> QED  BY <3>1, <3>2
  <2> QED  BY <1>5, <2>2
<1>15. TypeOK'  BY <1>1, <1>3, <1>9, <1>12, <1>14 DEF TypeOK
<1>16. IdInv'  BY <1>1, <1>3 DEF IdInv, IdOK
<1>17. ASSUME NEW c \in Client, NEW n \in Fdnum, NEW t \in Server, NEW j \in Slot,
              fd'[c][n] = <<t, j>>
       PROVE  FdOK(c, n, t, j)'
  <2>1. fd[c][n] = <<t, j>> /\ fd[c][n] # None /\ fd[c][n][1] = t
    BY <1>3, <1>17, ServAssumption
  <2>2. FdOK(c, n, t, j)  BY <1>1, <2>1 DEF FdInv
  <2>3. PICK e \in Entry : e = opened[c][n].entry /\ e = opened'[c][n].entry
    BY <1>13, <2>1, <2>2 DEF FdOK, Opened
  <2>4. opened'[c][n].gone \/ dir'[t][e].name = opened'[c][n].name
    <3>1. opened[c][n].gone \/ dir[t][e].name = opened[c][n].name  BY <2>2, <2>3 DEF FdOK
    <3>2. CASE t # s  BY <1>12, <1>13, <2>1, <3>1, <3>2
    <3>3. CASE t = s  BY <1>12, <1>13, <2>1, <2>3, <3>1, <3>3
    <3> QED  BY <3>2, <3>3
  <2> QED  BY <1>3, <1>13, <2>1, <2>2, <2>3, <2>4 DEF FdOK
<1>18. FdInv'  BY <1>17 DEF FdInv
<1>19. ASSUME NEW t \in Server \ {s} PROVE SrvOK(t)'
  <2>1. SrvOK(t) /\ srv'[t] = srv[t] /\ dir'[t] = dir[t]  BY <1>1, <1>9, <1>12 DEF SrvInv
  <2> QED  BY <1>3, <2>1 DEF SrvOK
<1>20. SrvOK(s)'  BY <1>7, <1>8, <1>9 DEF SrvOK
<1>21. \A c \in Client : Untouched(c)  BY <1>3, <1>13 DEF Untouched
<1> QED  BY <1>3, <1>8, <1>15, <1>16, <1>18, <1>19, <1>20, <1>21, ServerStep

\* A server without a request.
LEMMA ServerResting ==
    ASSUME IInv, NEW s \in Server, srv' \in [Server -> ServerState], OtherServers(s),
           srv'[s].pc \in {"unmap", "recv", "dead"}, srv'[s].from = None, srv'[s].file = None,
           UNCHANGED tables, UNCHANGED <<fd, opened, cl, calls>>
    PROVE  IInv'
<1>1. TypeOK /\ IdInv /\ FdInv /\ SrvInv /\ FromInv /\ CallInv  BY DEF IInv
<1>2. TypeOK'  BY <1>1 DEF TypeOK, tables
<1>3. SameFiles /\ Copies /\ \A c \in Client : Untouched(c)
  BY DEF SameFiles, Copies, Untouched, tables
<1>4. IdInv' /\ FdInv'  BY <1>1, <1>3, TablesKept
<1>5. \A t \in Server \ {s} : srv'[t] = srv[t] /\ SameServer(t)
  BY DEF OtherServers, SameServer
<1>6. ASSUME NEW t \in Server PROVE SrvOK(t)'
  <2>1. CASE t = s  BY <2>1 DEF SrvOK
  <2>2. CASE t # s  BY <1>1, <1>3, <1>5, <2>2, ServerKept DEF SrvInv
  <2> QED  BY <2>1, <2>2
<1>7. ASSUME NEW d \in Client, cl'[d].pc \in InCall PROVE CallOK(d)'
  <2>1. CallOK(d)  BY <1>1, <1>7 DEF CallInv
  <2> QED  BY <1>1, <1>3, <2>1, CallKept
<1>8. ASSUME NEW t \in Server, NEW d \in Client, srv'[t].from = d PROVE FromOK(t, d)'
  <2>1. t # s  BY <1>8, ServAssumption
  <2> QED  BY <1>3, <1>5, <1>8, <2>1, FromKept
<1> QED  BY <1>2, <1>4, <1>6, <1>7, <1>8 DEF IInv, CallInv, FromInv, SrvInv

\* The end of the loop, and the assertion that ends the server.
LEMMA RestingStep ==
    ASSUME IInv, NEW s \in Server, serve_panic(s) \/ serve_loop(s) \/ serve_invalid(s)
    PROVE  IInv'
<1>1. TypeOK /\ SrvInv /\ FromInv  BY DEF IInv
<1>2. srv \in [Server -> ServerState] /\ srv[s].from \in Client \cup {None}
  BY <1>1, FieldTypes DEF TypeOK
<1>3. CASE serve_panic(s)
  <2>1. PICK q \in ServerState : /\ q = Serving("dead", None, NoReq)
                                 /\ q.pc = "dead" /\ q.from = None /\ q.file = None
    <3>1. "dead" \in ServerPc /\ None \in Client \cup {None}  BY DEF ServerPc
    <3> QED  BY <3>1, NoReqFields, ServingFields
  <2>2. srv' = [srv EXCEPT ![s] = q] /\ UNCHANGED tables /\ UNCHANGED <<fd, opened, cl, calls>>
    BY <1>3, <2>1 DEF serve_panic
  <2>3. srv' \in [Server -> ServerState] /\ OtherServers(s) /\ srv'[s] = q
    BY <1>2, <2>2 DEF OtherServers
  <2> QED  BY <2>1, <2>2, <2>3, ServerResting
<1>4. CASE serve_loop(s)
  <2>1. /\ srv[s].pc = "unmap" /\ srv' = [srv EXCEPT ![s].pc = "recv"]
        /\ UNCHANGED tables /\ UNCHANGED <<fd, opened, cl, calls>>
    BY <1>4 DEF serve_loop, At
  <2>2. "recv" \in ServerPc /\ 0 \in 0..MAXOPEN  BY Sizes DEF ServerPc
  <2>3. /\ SameRequest(s) /\ srv'[s].pc = "recv" /\ srv'[s].file = srv[s].file
    BY <1>1, <2>1, <2>2, OneField
  <2>4. srv[s].from = None  BY <1>1, <1>2, <2>1 DEF FromInv, FromOK
  <2>5. srv[s].file = None  BY <1>1, <2>1 DEF SrvInv, SrvOK
  <2> QED  BY <2>1, <2>3, <2>4, <2>5, ServerResting DEF SameRequest
<1>5. CASE serve_invalid(s)
  <2>1. PICK where \in {"recv", "unmap"} : srv' = [srv EXCEPT ![s] = Serving(where, None, NoReq)]
    BY <1>5 DEF serve_invalid
  <2>2. PICK q \in ServerState : /\ q = Serving(where, None, NoReq)
                                 /\ q.pc = where /\ q.from = None /\ q.file = None
    <3>1. where \in ServerPc /\ None \in Client \cup {None}  BY DEF ServerPc
    <3> QED  BY <3>1, NoReqFields, ServingFields
  <2>3. srv' = [srv EXCEPT ![s] = q] /\ UNCHANGED tables /\ UNCHANGED <<fd, opened, cl, calls>>
    BY <1>5, <2>1, <2>2 DEF serve_invalid
  <2>4. srv' \in [Server -> ServerState] /\ OtherServers(s) /\ srv'[s] = q
    BY <1>2, <2>3 DEF OtherServers
  <2> QED  BY <2>2, <2>3, <2>4, ServerResting
<1> QED  BY <1>3, <1>4, <1>5

\* The answer: the client gets the page of an opened file.
LEMMA ServeReplyStep == ASSUME IInv, NEW s \in Server, serve_reply(s) PROVE IInv'
<1>1. TypeOK /\ IdInv /\ FdInv /\ SrvInv /\ FromInv /\ CallInv  BY DEF IInv
<1>2. PICK c \in Client : c = srv[s].from  BY <1>1, FieldTypes DEF serve_reply
<1>3. PICK n \in Fdnum : n = cl[c].n  BY <1>1, FieldTypes
<1>4. PICK i, rq, r : i = srv[s].i /\ rq = srv[s].req /\ r = srv[s].answer  OBVIOUS
<1>5. PICK o : o = [name |-> rq.name, entry |-> o_file[s][i], fileid |-> o_fileid[s][i], gone |-> FALSE]
  OBVIOUS
<1>6. PICK opens \in BOOLEAN : opens <=> (rq.type \in Opens /\ r = "OK")  OBVIOUS
<1>7. /\ srv[s].pc = "reply" /\ cl[c].pc = "recv"
      /\ cl' = [cl EXCEPT ![c].pc = "got", ![c].answer = r]
      /\ srv' = [srv EXCEPT ![s] = Serving("unmap", None, NoReq)]
      /\ UNCHANGED tables /\ UNCHANGED calls
  BY <1>2, <1>4 DEF serve_reply, At
<1>8. /\ opens => fd' = [fd EXCEPT ![c][n] = <<s, i>>] /\ opened' = [opened EXCEPT ![c][n] = o]
      /\ ~opens => fd' = fd /\ opened' = opened
  BY <1>2, <1>3, <1>4, <1>5, <1>6 DEF serve_reply, Opens
<1>9. /\ fd \in [Client -> [Fdnum -> (Server \X Slot) \cup {None}]]
      /\ opened \in [Client -> [Fdnum -> Opened \cup {None}]]
      /\ cl \in [Client -> ClientState] /\ srv \in [Server -> ServerState]
  BY <1>1 DEF TypeOK
<1>10. PICK q \in ServerState : /\ q = Serving("unmap", None, NoReq)
                                /\ q.pc = "unmap" /\ q.from = None /\ q.file = None
  <2>1. "unmap" \in ServerPc /\ None \in Client \cup {None}  BY DEF ServerPc
  <2> QED  BY <2>1, NoReqFields, ServingFields
<1>11. /\ srv' \in [Server -> ServerState] /\ srv'[s] = q
       /\ \A t \in Server \ {s} : srv'[t] = srv[t] /\ SameServer(t)
  BY <1>7, <1>9, <1>10 DEF SameServer
<1>12. PICK p \in ClientState :
          /\ cl' = [cl EXCEPT ![c] = p]
          /\ p.pc = "got" /\ p.answer = r /\ p.op = cl[c].op /\ p.n = n /\ p.to = cl[c].to
          /\ p.req = cl[c].req /\ p.old = cl[c].old
  <2>1. cl[c] \in ClientState /\ r \in Answer  BY <1>4, <1>9 DEF ServerState
  <2>2. PICK p : p = [cl[c] EXCEPT !.pc = "got", !.answer = r]  OBVIOUS
  <2>3. cl' = [cl EXCEPT ![c] = p]  BY <1>7, <1>9, <2>2
  <2>4. p \in ClientState  BY <2>1, <2>2 DEF ClientState
  <2>5. /\ p.pc = "got" /\ p.answer = r /\ p.op = cl[c].op /\ p.n = cl[c].n /\ p.to = cl[c].to
        /\ p.req = cl[c].req /\ p.old = cl[c].old
    BY <2>1, <2>2 DEF ClientState
  <2> QED  BY <1>3, <2>3, <2>4, <2>5
<1>13. /\ cl' \in [Client -> ClientState] /\ cl'[c] = p
       /\ \A d \in Client \ {c} : cl'[d] = cl[d]
  BY <1>9, <1>12
<1>14. /\ FromOK(s, c) /\ CallOK(c) /\ cl[c].to = s /\ cl[c].req = rq
  BY <1>1, <1>2, <1>4, <1>7 DEF FromInv, FromOK, CallInv, InCall
<1>15. ASSUME opens
       PROVE  /\ i \in Slot /\ ff[s][i].here /\ ff[s][i].fileid = o_fileid[s][i]
              /\ rq.name \in Name /\ dir[s][o_file[s][i]].name = rq.name
              /\ o \in Opened
              /\ o.name = rq.name /\ o.entry = o_file[s][i] /\ o.fileid = o_fileid[s][i]
  <2>1. rq.type \in Opens /\ r = "OK"  BY <1>6, <1>15
  <2>2. /\ i \in Slot /\ ff[s][i].here /\ ff[s][i].fileid = o_fileid[s][i]
        /\ rq.name \in Name /\ dir[s][o_file[s][i]].name = rq.name
    BY <1>1, <1>4, <1>7, <2>1 DEF SrvInv, SrvOK
  <2>3. o_file[s][i] \in Entry /\ o_fileid[s][i] \in Fileid  BY <1>1, <2>2, FieldTypes
  <2>4. o \in Opened /\ o.name = rq.name /\ o.entry = o_file[s][i] /\ o.fileid = o_fileid[s][i]
    BY <1>5, <2>2, <2>3 DEF Opened
  <2> QED  BY <2>2, <2>4
<1>16. /\ fd' \in [Client -> [Fdnum -> (Server \X Slot) \cup {None}]]
       /\ opened' \in [Client -> [Fdnum -> Opened \cup {None}]]
  <2>1. CASE opens
    <3>1. <<s, i>> \in Server \X Slot /\ o \in Opened  BY <1>15, <2>1
    <3>2. PICK x \in Server \X Slot : x = <<s, i>>  BY <3>1
    <3>3. fd' = [fd EXCEPT ![c][n] = x] /\ opened' = [opened EXCEPT ![c][n] = o]
      BY <1>8, <2>1, <3>2
    <3> QED  BY <1>9, <3>1, <3>3
  <2>2. CASE ~opens  BY <1>8, <1>9, <2>2
  <2> QED  BY <2>1, <2>2
<1>17. ASSUME NEW d \in Client, NEW m \in Fdnum
       PROVE  /\ d # c \/ m # n \/ ~opens => fd'[d][m] = fd[d][m] /\ opened'[d][m] = opened[d][m]
              /\ d = c /\ m = n /\ opens => fd'[d][m] = <<s, i>> /\ opened'[d][m] = o
  BY <1>8, <1>9
<1>18. \A d \in Client \ {c} : Untouched(d)
  <2>1. \A d \in Client \ {c} : fd'[d] = fd[d] /\ opened'[d] = opened[d]  BY <1>8, <1>9
  <2> QED  BY <1>13, <2>1 DEF Untouched
<1>19. TypeOK'  BY <1>1, <1>7, <1>11, <1>13, <1>16 DEF TypeOK, tables
<1>20. IdInv'  BY <1>1, <1>7 DEF IdInv, IdOK, tables
<1>21. ASSUME NEW d \in Client, NEW m \in Fdnum, NEW t \in Server, NEW j \in Slot,
              fd'[d][m] = <<t, j>>
       PROVE  FdOK(d, m, t, j)'
  <2>1. CASE d = c /\ m = n /\ opens
    <3>1. t = s /\ j = i /\ opened'[d][m] = o  BY <1>17, <1>21, <2>1
    <3> QED  BY <1>7, <1>15, <2>1, <3>1 DEF FdOK, tables
  <2>2. CASE d # c \/ m # n \/ ~opens
    <3>1. fd[d][m] = <<t, j>> /\ opened'[d][m] = opened[d][m]  BY <1>17, <1>21, <2>2
    <3>2. FdOK(d, m, t, j)  BY <1>1, <3>1 DEF FdInv
    <3> QED  BY <1>7, <3>1, <3>2 DEF FdOK, tables
  <2> QED  BY <2>1, <2>2
<1>22. FdInv'  BY <1>21 DEF FdInv
<1>23. ASSUME NEW t \in Server PROVE SrvOK(t)'
  <2>1. CASE t = s  BY <1>10, <1>11, <2>1 DEF SrvOK
  <2>2. CASE t # s
    <3>1. SrvOK(t) /\ srv'[t] = srv[t]  BY <1>1, <1>11, <2>2 DEF SrvInv
    <3>2. ASSUME srv[t].pc = "open", NEW d \in Client, NEW m \in Fdnum
          PROVE  fd'[d][m] # <<t, srv[t].i>>
      <4>1. CASE d = c /\ m = n /\ opens  BY <1>17, <2>2, <4>1
      <4>2. CASE d # c \/ m # n \/ ~opens  BY <1>17, <3>1, <3>2, <4>2 DEF SrvOK
      <4> QED  BY <4>1, <4>2
    <3> QED  BY <1>7, <3>1, <3>2 DEF SrvOK, tables
  <2> QED  BY <2>1, <2>2
<1>24. ASSUME NEW d \in Client, cl'[d].pc \in InCall PROVE CallOK(d)'
  <2>1. CASE d # c
    <3>1. CallOK(d)  BY <1>1, <1>13, <1>24, <2>1 DEF CallInv
    <3> QED  BY <1>1, <1>18, <2>1, <3>1, CallKept
  <2>2. CASE d = c
    <3>1. rq.type \in AboutFile => (HoldsFile(c))'
      <4>1. SUFFICES ASSUME rq.type \in AboutFile PROVE (HoldsFile(c))'  OBVIOUS
      <4>2. ~opens  BY <1>6, <4>1 DEF AboutFile, Opens
      <4>3. HoldsFile(c)  BY <1>14, <4>1 DEF CallOK
      <4> QED  BY <1>3, <1>8, <1>12, <1>13, <4>2, <4>3 DEF HoldsFile
    <3>2. rq.type \in Opens /\ r = "OK" => fd'[c][n] # None
      <4>1. SUFFICES ASSUME opens PROVE fd'[c][n] # None  BY <1>6
      <4>2. fd'[c][n] = <<s, i>> /\ i \in Slot  BY <1>15, <1>17, <4>1
      <4> QED  BY <4>2, ServAssumption
    <3> QED  BY <1>12, <1>13, <1>14, <2>2, <3>1, <3>2 DEF CallOK
  <2> QED  BY <2>1, <2>2
<1>25. ASSUME NEW t \in Server, NEW d \in Client, srv'[t].from = d PROVE FromOK(t, d)'
  <2>1. t # s  BY <1>10, <1>11, <1>25, ServAssumption
  <2>2. srv[t].from = d  BY <1>11, <1>25, <2>1
  <2>3. d # c  BY <1>1, <1>14, <2>1, <2>2 DEF FromInv, FromOK
  <2> QED  BY <1>11, <1>18, <2>1, <2>2, <2>3, FromKept
<1> QED  BY <1>19, <1>20, <1>22, <1>23, <1>24, <1>25 DEF IInv, CallInv, FromInv, SrvInv

-------------------------------------------------------------------------------
\* serve_init: the identifiers of each server are those of its own range.
LEMMA InitIInv == Init => IInv
<1> SUFFICES ASSUME Init PROVE IInv
  OBVIOUS
<1>1. ASSUME NEW s \in Server, NEW i \in Slot
      PROVE  i + s * MAXOPEN \in Fileid /\ (i + s * MAXOPEN) % MAXOPEN_NUM = i + s * MAXOPEN
  <2>1. PICK x \in 0..(MAXOPEN_NUM - 1) : x = i + s * MAXOPEN  BY PlaceInTable
  <2>2. MAXOPEN_NUM \in Nat \ {0} /\ IdRange \in Nat \ {0}  BY Sizes
  <2>3. PICK t \in Int : IdRange = MAXOPEN_NUM * t  BY Sizes
  <2>4. MAXOPEN_NUM <= IdRange
    <3>1. t >= 1
      <4>1. SUFFICES ASSUME t <= 0 PROVE FALSE  OBVIOUS
      <4>2. MAXOPEN_NUM * t <= 0  BY <2>2, <4>1
      <4> QED  BY <2>2, <2>3, <4>2
    <3>2. PICK k \in Nat : k = t - 1  BY <3>1
    <3>3. MAXOPEN_NUM * t = MAXOPEN_NUM + MAXOPEN_NUM * k  BY <2>2, <3>2
    <3>4. MAXOPEN_NUM * k \in Nat  BY <2>2
    <3> QED  BY <2>2, <2>3, <3>3, <3>4
  <2>5. x \in Fileid /\ x % MAXOPEN_NUM = x  BY <2>2, <2>4 DEF Fileid
  <2> QED  BY <2>1, <2>5
<1>2. o_fileid \in [Server -> [Slot -> Fileid]] /\ IdInv
  BY <1>1 DEF Init, IdInv, IdOK
<1>3. o_file \in [Server -> [Slot -> Entry]] /\ ff \in [Server -> [Slot -> Filefd]]
  BY Sizes DEF Init, Filefd
<1>4. dir \in [Server -> [Entry -> DirEntry]]
  <2>1. ASSUME NEW s \in Server
        PROVE  [name |-> CHOOSE f \in Name : Root[f] = s, size |-> MaxSize] \in DirEntry
    <3>1. \E f \in Name : Root[f] = s  BY ServAssumption
    <3>2. (CHOOSE f \in Name : Root[f] = s) \in Name  BY <3>1
    <3>3. MaxSize \in 0..MaxSize  BY Sizes
    <3> QED  BY <3>2, <3>3 DEF DirEntry
  <2>2. [name |-> None, size |-> 0] \in DirEntry  BY Sizes DEF DirEntry
  <2> QED  BY <2>1, <2>2 DEF Init
<1>5. PICK q \in ServerState : /\ q = Serving("recv", None, NoReq)
                               /\ q.pc = "recv" /\ q.from = None /\ q.file = None
  <2>1. "recv" \in ServerPc /\ None \in Client \cup {None}  BY DEF ServerPc
  <2> QED  BY <2>1, NoReqFields, ServingFields
<1>6. srv \in [Server -> ServerState] /\ \A s \in Server : srv[s] = q
  BY <1>5 DEF Init
<1>7. /\ fd \in [Client -> [Fdnum -> (Server \X Slot) \cup {None}]]
      /\ opened \in [Client -> [Fdnum -> Opened \cup {None}]]
      /\ \A c \in Client, n \in Fdnum : fd[c][n] = None
  BY DEF Init
<1>8. /\ cl \in [Client -> ClientState] /\ \A c \in Client : cl[c].pc \in {"idle", "dead"}
  BY IdleFields DEF Init
<1>9. calls \in 0..MaxCalls  BY Sizes DEF Init
<1>10. TypeOK  BY <1>2, <1>3, <1>4, <1>6, <1>7, <1>8, <1>9 DEF TypeOK
<1>11. FdInv
  <2>1. \A s \in Server, i \in Slot : <<s, i>> # None  BY ServAssumption
  <2> QED  BY <1>7, <2>1 DEF FdInv
<1>12. SrvInv  BY <1>5, <1>6 DEF SrvInv, SrvOK
<1>13. FromInv  BY <1>5, <1>6, ServAssumption DEF FromInv
<1>14. CallInv  BY <1>8 DEF CallInv, InCall
<1> QED  BY <1>2, <1>10, <1>11, <1>12, <1>13, <1>14 DEF IInv

\* Every step keeps the invariant.
LEMMA NextIInv == IInv /\ [Next]_vars => IInv'
<1> SUFFICES ASSUME IInv, [Next]_vars PROVE IInv'
  OBVIOUS
<1>1. ASSUME NEW s \in Server, serve(s) PROVE IInv'
  BY <1>1, AllocStep, ServeOpenStep, WorkStep, ServeRemoveStep, ServeReplyStep, RestingStep
     DEF serve
<1>2. ASSUME NEW c \in Client,
             \/ open(c) \/ close(c) \/ dup(c) \/ ftruncate(c) \/ remove(c) \/ sync(c)
             \/ nowhere(c) \/ stray(c) \/ proceed(c) \/ die(c)
      PROVE  IInv'
  BY <1>2, OpenStep, CloseStep, DupStep, FtruncateStep, RemoveStep, NowhereStep, IpcSendStep, IpcRecvStep,
     OpenGotStep, CloseGotStep, FtruncateGotStep, RestGotStep, DieStep
     DEF proceed
<1>3. ASSUME NEW c \in Client, NEW d \in Client, fork(c, d) PROVE IInv'
  BY <1>3, ForkStep
<1>4. ASSUME UNCHANGED vars PROVE IInv'
  BY <1>4 DEF vars, IInv, TypeOK, IdInv, IdOK, FdInv, FdOK, SrvInv, SrvOK, FromInv, FromOK,
     CallInv, CallOK, HoldsFile
<1> QED  BY <1>1, <1>2, <1>3, <1>4 DEF Next

\* The invariant holds in every state.
LEMMA Inductive == Spec => []IInv
BY InitIInv, NextIInv, PTL DEF Spec

\* The tables of the servers, their places in the code, the pages and the calls of the
\* clients keep their types, for any number of servers and clients.
THEOREM TypeCorrect == Spec => []TypeOK
<1>1. IInv => TypeOK  BY DEF IInv
<1> QED  BY <1>1, Inductive, PTL

\* However many clients open, share, close and die while open_alloc counts references,
\* no entry of opentab and no page is given to another open while a client maps it.
THEOREM DescriptorsKeepFiles == Spec => []DescriptorKeepsFile
<1>1. ASSUME IInv PROVE DescriptorKeepsFile
  <2>1. TypeOK /\ FdInv  BY <1>1 DEF IInv
  <2>2. ASSUME NEW c \in Client, NEW n \in Fdnum, fd[c][n] # None
        PROVE  LET s == fd[c][n][1]
                   i == fd[c][n][2]
               IN  /\ ff[s][i].fileid = opened[c][n].fileid
                   /\ o_fileid[s][i] = opened[c][n].fileid
                   /\ o_file[s][i] = opened[c][n].entry
    <3>1. PICK s \in Server, i \in Slot : fd[c][n] = <<s, i>>  BY <2>1, <2>2, FieldTypes
    <3>2. FdOK(c, n, s, i)  BY <2>1, <3>1 DEF FdInv
    <3>3. fd[c][n][1] = s /\ fd[c][n][2] = i  BY <3>1
    <3> QED  BY <3>2, <3>3 DEF FdOK
  <2> QED  BY <2>2 DEF DescriptorKeepsFile
<1> QED  BY <1>1, Inductive, PTL

\* Every request about an open file is at work in the server that opened it and is
\* carried out on the file the client opened, which has its name unless it was removed.
THEOREM RequestsReachTheFile == Spec => []RightFile
<1>1. ASSUME IInv PROVE RightFile
  <2>1. TypeOK /\ FdInv /\ FromInv /\ CallInv  BY <1>1 DEF IInv
  <2>2. ASSUME NEW s \in Server, srv[s].from # None
        PROVE  LET c == srv[s].from
                   o == opened[c][cl[c].n]
               IN  /\ At(s, "work") /\ srv[s].req.type \in {"MAP", "SET_SIZE", "CLOSE", "DIRTY"} =>
                         fd[c][cl[c].n] # None /\ fd[c][cl[c].n][1] = s
                   /\ At(s, "reply") /\ srv[s].file # None =>
                         srv[s].file = o.entry /\ (o.gone \/ dir[s][o.entry].name = o.name)
    <3>1. PICK c \in Client : c = srv[s].from  BY <2>1, <2>2, FieldTypes
    <3>2. FromOK(s, c)  BY <2>1, <3>1 DEF FromInv
    <3>3. CallOK(c)  BY <2>1, <3>2 DEF FromOK, CallInv, InCall
    <3>4. srv[s].req.type \in AboutFile => fd[c][cl[c].n] # None /\ fd[c][cl[c].n][1] = s
      BY <3>2, <3>3 DEF FromOK, CallOK, HoldsFile
    <3>5. ASSUME srv[s].file # None
          PROVE  LET o == opened[c][cl[c].n] IN o.gone \/ dir[s][o.entry].name = o.name
      <4>1. cl[c].req.type \in AboutFile /\ cl[c].n \in Fdnum
        BY <1>1, <2>1, <3>1, <3>5, RequestIsOwn, FieldTypes
      <4>2. fd[c][cl[c].n] # None /\ fd[c][cl[c].n][1] = s  BY <3>2, <3>4, <4>1 DEF FromOK
      <4>3. PICK t \in Server, i \in Slot : fd[c][cl[c].n] = <<t, i>>
        BY <2>1, <4>1, <4>2, FieldTypes
      <4>4. t = s  BY <4>2, <4>3
      <4>5. FdOK(c, cl[c].n, s, i)  BY <2>1, <4>1, <4>3, <4>4 DEF FdInv
      <4> QED  BY <4>5 DEF FdOK
    <3> QED  BY <3>1, <3>2, <3>4, <3>5 DEF At, FromOK, AboutFile
  <2> QED  BY <2>2 DEF RightFile
<1> QED  BY <1>1, Inductive, PTL
===============================================================================
