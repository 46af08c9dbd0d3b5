------------------------------ MODULE PipeProofs ------------------------------
(***************************************************************************)
(* For any number of processes, any size of the buffer and any wrap of the *)
(* positions: the descriptors are never in a state in which a page count   *)
(* lies about an end, and the bytes of one writer reach one reader in      *)
(* order.                                                                  *)
(***************************************************************************)
EXTENDS Pipe, FiniteSetTheorems, TLAPS

InLibrary == {"loop", "copy", "bump", "runs", "fd_ref", "pipe_ref", "recheck"}

\* Where a process is says which call it is in, and only a process that was started
\* runs at all.
PlaceOK(p) ==
    /\ pc[p] # "user" => status[p] = "RUNNABLE"
    /\ pc[p] = "user" => frame[p] = NoFrame
    /\ pc[p] \in {"loop", "copy", "bump"} => frame[p].op \in {"read", "write"}
    /\ pc[p] \in {"runs", "fd_ref", "pipe_ref", "recheck"} =>
          frame[p].op \in {"read", "write", "is_closed"}
    /\ pc[p] \in {"unmap_fd", "unmap_data"} => frame[p].op \in {"close", "dup"}
    /\ pc[p] \in {"map_data", "map_fd"} => frame[p].op = "dup"
    /\ frame[p].op = "read" => p \in Readers
    /\ frame[p].op = "write" => p \in Writers

PlaceInv == status[cur] = "RUNNABLE" /\ \A p \in Proc : PlaceOK(p)

\* The descriptors a call in progress has in hand.
HandOK(p) ==
    /\ frame[p].op = "dup" => frame[p].n # frame[p].to /\ fd[p][frame[p].n] # None
    /\ pc[p] \in InLibrary => fd[p][frame[p].n] # None
    /\ pc[p] \in {"unmap_data", "map_data", "map_fd"} => fd[p][frame[p].to] = None
    /\ pc[p] = "map_fd" => data[p][frame[p].to]

HandInv == \A p \in Proc : HandOK(p)

\* The order in which pages are mapped and unmapped: a running process never has an
\* Fd page without the Pipe page that belongs to it.
SlotOK(p, n) ==
    /\ status[p] = "RUNNABLE" /\ fd[p][n] # None => data[p][n]
    /\ status[p] = "FREE" => fd[p][n] = None /\ ~data[p][n]

SlotInv == \A p \in Proc, n \in Fdnum : SlotOK(p, n)

\* A child in the making has one parent and the pages before the one in work.
CopyOK(p, c, n) ==
    LET k == frame[p].page
    IN  /\ fd[c][n] = IF n < k THEN fd[p][n] ELSE None
        /\ n + NFD < k => data[c][n] = data[p][n]

ChildOK(p, c) ==
    /\ status[c] = "NOT_RUNNABLE"
    /\ \A n \in Fdnum : CopyOK(p, c, n)
    /\ \A q \in Proc : pc[q] = "duppage" /\ frame[q].child = c => q = p

ChildInv ==
    /\ \A p \in Proc : pc[p] = "duppage" => ChildOK(p, frame[p].child)
    /\ \A c \in Proc : status[c] = "NOT_RUNNABLE" =>
          \E p \in Proc : pc[p] = "duppage" /\ frame[p].child = c

\* As long as env_runs has not changed the counts read are those of this moment.
CountOK(p) ==
    same[p] /\ cur = p =>
        /\ pc[p] \in {"pipe_ref", "recheck"} => frame[p].fd_ref = pageref_fd(p, frame[p].n)
        /\ pc[p] = "recheck" => frame[p].pipe_ref = pageref_data(p, frame[p].n)

CountInv == \A p \in Proc : CountOK(p)

IInv == TypeOK /\ PlaceInv /\ HandInv /\ SlotInv /\ ChildInv /\ CountInv

-------------------------------------------------------------------------------
\* One process reads and one writes: what the code needs, for nothing locks the
\* positions.
OneOfEach ==
    /\ \A p, q \in Readers : p = q
    /\ \A p, q \in Writers : p = q

unread == (p_wpos - p_rpos) % PosMod
Reading == \E p \in Proc : pc[p] = "bump" /\ frame[p].op = "read"
Writing == \E p \in Proc : pc[p] = "bump" /\ frame[p].op = "write"
base == Len(got) - IF Reading THEN 1 ELSE 0

\* Between the byte and its position: what the writer stored is the last byte sent and
\* lies behind the unread ones; a reader past its test has something to read, a writer
\* past its test has room.
WriterOK ==
    /\ sent = base + unread + IF Writing THEN 1 ELSE 0
    /\ Writing => unread < BY2PIPE /\ p_buf[p_wpos % BY2PIPE] = sent

RoomOK(p) ==
    /\ pc[p] = "copy" /\ frame[p].op = "write" => unread < BY2PIPE
    /\ pc[p] \in {"copy", "bump"} /\ frame[p].op = "read" => unread > 0

BufferOK == \A k \in 0..(unread - 1) : p_buf[(p_rpos + k) % BY2PIPE] = base + k + 1

ByteInv ==
    /\ \A i \in DOMAIN got : got[i] = i
    /\ unread <= BY2PIPE
    /\ BufferOK
    /\ WriterOK
    /\ \A p \in Proc : RoomOK(p)

-------------------------------------------------------------------------------
\* The constants: every count of mappings is a number.
LEMMA Finite ==
    /\ 0 \in Proc /\ Proc \subseteq Nat /\ IsFiniteSet(Proc \X Fdnum)
    /\ \A S \in SUBSET (Proc \X Fdnum) : IsFiniteSet(S) /\ Cardinality(S) \in Nat
<1>1. IsFiniteSet(Proc) /\ 0 \in Proc /\ Cardinality(Proc) \in Nat
  BY PipeAssumption, FS_CardinalityType
<1>2. Proc \subseteq Nat  BY <1>1, PipeAssumption
<1>3. IsFiniteSet(Fdnum)
  <2>1. NFD - 1 \in Int  BY PipeAssumption
  <2> QED  BY <2>1, FS_Interval DEF Fdnum
<1>4. IsFiniteSet(Proc \X Fdnum)  BY <1>1, <1>3, FS_Product
<1>5. ASSUME NEW S \in SUBSET (Proc \X Fdnum)
      PROVE  IsFiniteSet(S) /\ Cardinality(S) \in Nat
  <2>1. IsFiniteSet(S)  BY <1>4, FS_Subset
  <2> QED  BY <2>1, FS_CardinalityType
<1> QED  BY <1>1, <1>2, <1>4, <1>5

\* pageref answers with a number.
LEMMA PagerefType ==
    ASSUME NEW p \in Proc, NEW n \in Fdnum
    PROVE  pageref_fd(p, n) \in Nat /\ pageref_data(p, n) \in Nat
<1>1. PICK S \in SUBSET (Proc \X Fdnum) :
         S = {s \in Proc \X Fdnum : fd[s[1]][s[2]] = fd[p][n]}
  OBVIOUS
<1>2. PICK T \in SUBSET (Proc \X Fdnum) : T = {s \in Proc \X Fdnum : data[s[1]][s[2]]}
  OBVIOUS
<1>3. Cardinality(S) \in Nat /\ Cardinality(T) \in Nat  BY Finite
<1>4. pageref_fd(p, n) \in Nat  BY <1>1, <1>3 DEF pageref_fd
<1>5. pageref_data(p, n) \in Nat  BY <1>2, <1>3 DEF pageref_data
<1> QED  BY <1>4, <1>5

\* Remainders, as the provers need them: what % is, and that it is the only one.
LEMMA Remainder ==
    ASSUME NEW x \in Int, NEW m \in Nat \ {0}
    PROVE  \E r \in 0..(m - 1), d \in Int : r = x % m /\ x = m * d + r
<1>1. x % m \in 0..(m - 1)  OBVIOUS
<1>2. x % m = x - m * (x \div m)  OBVIOUS
<1>3. PICK d \in Int : d = x \div m  OBVIOUS
<1>4. PICK r \in Int : r = x % m  OBVIOUS
<1>5. r = x - m * d  BY <1>2, <1>3, <1>4
<1>6. x = m * d + r  BY <1>5
<1>7. r \in 0..(m - 1)  BY <1>1, <1>4, Zenon
<1> QED  BY <1>4, <1>6, <1>7, Zenon

\* Quotient and remainder are unique.
LEMMA RemainderUnique ==
    ASSUME NEW m \in Nat \ {0}, NEW a \in Int, NEW b \in Int,
           NEW r \in 0..(m - 1), NEW s \in 0..(m - 1), m * a + r = m * b + s
    PROVE  r = s
OBVIOUS

\* Multiples of the modulus do not change the remainder.
LEMMA Congruent ==
    ASSUME NEW m \in Nat \ {0}, NEW x \in Int, NEW y \in Int, NEW k \in Int, x = y + m * k
    PROVE  x % m = y % m
<1>1. PICK r \in 0..(m - 1), c \in Int : r = x % m /\ x = m * c + r  BY Remainder
<1>2. PICK s \in 0..(m - 1), d \in Int : s = y % m /\ y = m * d + s  BY Remainder
<1>3. m * c + r = m * (d + k) + s
  <2>1. m * (d + k) = m * d + m * k  OBVIOUS
  <2>2. x = m * c + r  BY <1>1, Zenon
  <2>3. y = m * d + s  BY <1>2, Zenon
  <2> QED  BY <2>1, <2>2, <2>3
<1>4. d + k \in Int  OBVIOUS
<1>5. r = s  BY <1>3, <1>4, RemainderUnique
<1> QED  BY <1>1, <1>2, <1>5, Zenon

\* A number that is a remainder already.
LEMMA Small ==
    ASSUME NEW m \in Nat \ {0}, NEW x \in 0..(m - 1)
    PROVE  x % m = x
OBVIOUS

\* The difference of two positions, case by case.
LEMMA Difference ==
    ASSUME NEW m \in Nat \ {0}, NEW r \in 0..(m - 1), NEW w \in 0..(m - 1)
    PROVE  (w - r) % m = IF w >= r THEN w - r ELSE w - r + m
<1>1. CASE w >= r
  <2>1. w - r \in 0..(m - 1)  BY <1>1
  <2> QED  BY <2>1, <1>1, Small
<1>2. CASE ~(w >= r)
  <2>1. w - r + m \in 0..(m - 1)  BY <1>2
  <2>2. w - r = (w - r + m) + m * (-1)  OBVIOUS
  <2>3. PICK y \in 0..(m - 1) : y = w - r + m  BY <2>1
  <2>4. PICK x \in Int : x = w - r  OBVIOUS
  <2>5. PICK k \in Int : k = -1  OBVIOUS
  <2>6. x = y + m * k  BY <2>2, <2>3, <2>4, <2>5
  <2>a. x % m = y % m
    <3>1. y \in Int  OBVIOUS
    <3> QED  BY <2>6, <3>1, Congruent, Zenon
  <2>7. y % m = y  BY Small
  <2> QED  BY <1>2, <2>3, <2>4, <2>a, <2>7
<1> QED  BY <1>1, <1>2

\* advance, case by case.
LEMMA Successor ==
    ASSUME NEW m \in Nat \ {0}, NEW w \in 0..(m - 1)
    PROVE  (w + 1) % m = IF w = m - 1 THEN 0 ELSE w + 1
<1>1. CASE w = m - 1
  <2>1. w + 1 = 0 + m * 1  BY <1>1
  <2>2. (w + 1) % m = 0 % m  BY <2>1, Congruent
  <2>3. 0 \in 0..(m - 1)  OBVIOUS
  <2>4. 0 % m = 0  BY <2>3, Small
  <2> QED  BY <1>1, <2>2, <2>4
<1>2. CASE w # m - 1
  <2>1. w + 1 \in 0..(m - 1)  BY <1>2
  <2> QED  BY <1>2, <2>1, Small
<1> QED  BY <1>1, <1>2

\* The positions of a full turn of p_buf: PosMod is a multiple of BY2PIPE.
LEMMA Turns ==
    /\ BY2PIPE \in Nat \ {0} /\ PosMod \in Nat \ {0} /\ PosMod > BY2PIPE
    /\ \E t \in Int : PosMod = BY2PIPE * t
<1>1. BY2PIPE \in Nat \ {0} /\ PosMod \in Nat \ {0} /\ PosMod > BY2PIPE  BY PipeAssumption
<1>2. PICK r \in 0..(BY2PIPE - 1), d \in Int : r = PosMod % BY2PIPE /\ PosMod = BY2PIPE * d + r
  <2>1. PosMod \in Int  BY <1>1
  <2> QED  BY <1>1, <2>1, Remainder, Zenon
<1>3. r = 0  BY <1>2, PipeAssumption
<1>4. PosMod = BY2PIPE * d  BY <1>1, <1>2, <1>3
<1> QED  BY <1>1, <1>4

\* One more byte read or written changes the number of unread bytes by one.
LEMMA UnreadMoves ==
    ASSUME NEW r \in 0..(PosMod - 1), NEW w \in 0..(PosMod - 1)
    PROVE  /\ (w - r) % PosMod \in 0..(PosMod - 1)
           /\ r = w <=> (w - r) % PosMod = 0
           /\ (w - r) % PosMod > 0 => (w - advance(r)) % PosMod = ((w - r) % PosMod) - 1
           /\ (w - r) % PosMod < PosMod - 1 => (advance(w) - r) % PosMod = ((w - r) % PosMod) + 1
           /\ advance(r) \in 0..(PosMod - 1)
<1>1. PosMod \in Nat \ {0}  BY Turns
<1>2. advance(r) = IF r = PosMod - 1 THEN 0 ELSE r + 1  BY <1>1, Successor DEF advance
<1>3. advance(w) = IF w = PosMod - 1 THEN 0 ELSE w + 1  BY <1>1, Successor DEF advance
<1>4. advance(r) \in 0..(PosMod - 1) /\ advance(w) \in 0..(PosMod - 1)  BY <1>1, <1>2, <1>3
<1>5. PICK u \in Int : u = (w - r) % PosMod /\ u = IF w >= r THEN w - r ELSE w - r + PosMod
  BY <1>1, Difference
<1>6. PICK a \in 0..(PosMod - 1) : a = advance(r)  BY <1>4
<1>7. PICK b \in 0..(PosMod - 1) : b = advance(w)  BY <1>4
<1>8. (w - a) % PosMod = IF w >= a THEN w - a ELSE w - a + PosMod  BY <1>1, Difference
<1>9. (b - r) % PosMod = IF b >= r THEN b - r ELSE b - r + PosMod  BY <1>1, Difference
<1>10. u \in 0..(PosMod - 1) /\ (r = w <=> u = 0)  BY <1>1, <1>5
<1>11. u > 0 => (w - a) % PosMod = u - 1  BY <1>1, <1>2, <1>5, <1>6, <1>8
<1>12. u < PosMod - 1 => (b - r) % PosMod = u + 1  BY <1>1, <1>3, <1>5, <1>7, <1>9
<1> QED  BY <1>4, <1>5, <1>6, <1>7, <1>10, <1>11, <1>12

\* Where a byte lies in p_buf depends on its number only, not on the turn of the
\* positions: the three facts about places that the buffer needs.
LEMMA PlaceOfNext ==
    ASSUME NEW r \in 0..(PosMod - 1), NEW k \in Int
    PROVE  (advance(r) + k) % BY2PIPE = (r + (k + 1)) % BY2PIPE
<1>1. PICK t \in Int : PosMod = BY2PIPE * t  BY Turns
<1>2. BY2PIPE \in Nat \ {0} /\ PosMod \in Nat \ {0}  BY Turns
<1>3. advance(r) = IF r = PosMod - 1 THEN 0 ELSE r + 1  BY <1>2, Successor DEF advance
<1>4. CASE r = PosMod - 1
  <2>1. PICK x \in Int : x = r + (k + 1)  OBVIOUS
  <2>2. x = k + BY2PIPE * t  BY <1>1, <1>2, <1>4, <2>1
  <2>3. x % BY2PIPE = k % BY2PIPE  BY <1>2, <2>2, Congruent, Zenon
  <2>4. advance(r) + k = k  BY <1>3, <1>4
  <2> QED  BY <2>1, <2>3, <2>4
<1>5. CASE r # PosMod - 1
  BY <1>3, <1>5
<1> QED  BY <1>4, <1>5

\* Behind the unread bytes comes the place p_wpos names.
LEMMA PlaceOfLast ==
    ASSUME NEW r \in 0..(PosMod - 1), NEW w \in 0..(PosMod - 1)
    PROVE  (r + ((w - r) % PosMod)) % BY2PIPE = w % BY2PIPE
<1>1. PICK t \in Int : PosMod = BY2PIPE * t  BY Turns
<1>2. BY2PIPE \in Nat \ {0} /\ PosMod \in Nat \ {0}  BY Turns
<1>3. PICK u \in Int : u = (w - r) % PosMod /\ u = IF w >= r THEN w - r ELSE w - r + PosMod
  BY <1>2, Difference
<1>a. u = (w - r) % PosMod  BY <1>3
<1> SUFFICES (r + u) % BY2PIPE = w % BY2PIPE  BY <1>a, Zenon
<1>4. CASE w >= r
  <2>1. r + u = w  BY <1>3, <1>4
  <2> QED  BY <2>1
<1>5. CASE ~(w >= r)
  <2>1. PICK x \in Int : x = r + u  OBVIOUS
  <2>2. x = w + BY2PIPE * t  BY <1>1, <1>2, <1>3, <1>5, <2>1
  <2>3. w \in Int  OBVIOUS
  <2>4. x % BY2PIPE = w % BY2PIPE  BY <1>2, <2>2, <2>3, Congruent, Zenon
  <2> QED  BY <2>1, <2>4
<1> QED  BY <1>4, <1>5

\* Two of at most BY2PIPE successive positions never share a place of p_buf.
LEMMA PlacesDiffer ==
    ASSUME NEW r \in Int, NEW j \in Int, NEW u \in Int, 0 <= j, j < u, u < BY2PIPE
    PROVE  (r + j) % BY2PIPE # (r + u) % BY2PIPE
<1>1. BY2PIPE \in Nat \ {0}  BY Turns
<1>2. PICK x \in Int : x = r + j  OBVIOUS
<1>3. PICK y \in Int : y = r + u  OBVIOUS
<1>4. PICK a \in 0..(BY2PIPE - 1), c \in Int : a = x % BY2PIPE /\ x = BY2PIPE * c + a
  BY <1>1, Remainder, Zenon
<1>5. PICK b \in 0..(BY2PIPE - 1), d \in Int : b = y % BY2PIPE /\ y = BY2PIPE * d + b
  BY <1>1, Remainder, Zenon
<1>6. SUFFICES ASSUME a = b PROVE FALSE  BY <1>2, <1>3, <1>4, <1>5
<1>7. PICK v \in 0..(BY2PIPE - 1) : v = u - j  BY <1>1
<1>8. BY2PIPE * c + v = BY2PIPE * d + 0
  <2>1. x = BY2PIPE * c + a  BY <1>4, Zenon
  <2>2. y = BY2PIPE * d + b  BY <1>5, Zenon
  <2>3. x + v = y  BY <1>2, <1>3, <1>7
  <2>4. BY2PIPE * c \in Int /\ BY2PIPE * d \in Int  BY <1>1
  <2> QED  BY <1>1, <1>6, <2>1, <2>2, <2>3, <2>4
<1>9. 0 \in 0..(BY2PIPE - 1)  BY <1>1
<1>10. v = 0  BY <1>1, <1>8, <1>9, RemainderUnique, Zenon
<1> QED  BY <1>7, <1>10

-------------------------------------------------------------------------------
\* The locals of a call that begins.
LEMMA NewFrameFields ==
    ASSUME NEW op \in Op, NEW n \in Fdnum, NEW to \in Fdnum, NEW count \in Nat, NEW child \in Proc
    PROVE  LET f == NewFrame(op, n, to, count, child)
           IN  /\ f \in Frame
               /\ f.op = op /\ f.n = n /\ f.to = to /\ f.child = child /\ f.page = 0
<1>1. 0 \in Nat /\ 0 \in 0..(2 * NFD)  BY PipeAssumption
<1> QED  BY <1>1 DEF NewFrame, Frame

\* The locals of a process outside the library.
LEMMA NoFrameFields ==
    NoFrame \in Frame /\ NoFrame.op = "close" /\ NoFrame.page = 0
<1>1. "close" \in Op /\ 0 \in Fdnum /\ 0 \in Nat /\ 0 \in Proc
  BY PipeAssumption DEF Op, Fdnum
<1> QED  BY <1>1, NewFrameFields DEF NoFrame

\* A step of p leaves the locals of the others alone, and of its own all but the
\* counters.
Others(p) == \A q \in Proc \ {p} : pc'[q] = pc[q] /\ frame'[q] = frame[q]

SameCall(p) ==
    /\ frame'[p].op = frame[p].op /\ frame'[p].n = frame[p].n /\ frame'[p].to = frame[p].to
    /\ frame'[p].child = frame[p].child

LocalStep(p) ==
    /\ frame' \in [Proc -> Frame] /\ SameCall(p)
    /\ \A q \in Proc \ {p} : frame'[q] = frame[q]

\* The assignments to a single local.
LEMMA OneLocal ==
    ASSUME NEW p \in Proc, frame \in [Proc -> Frame], NEW x \in Nat, NEW y \in 0..(2 * NFD)
    PROVE  /\ forget_refs(p) => LocalStep(p) /\ frame'[p].page = frame[p].page
           /\ frame' = [frame EXCEPT ![p].i = x] =>
                 LocalStep(p) /\ frame'[p].page = frame[p].page
           /\ frame' = [frame EXCEPT ![p].fd_ref = x] =>
                 LocalStep(p) /\ frame'[p].page = frame[p].page /\ frame'[p].fd_ref = x
           /\ frame' = [frame EXCEPT ![p].pipe_ref = x] =>
                 /\ LocalStep(p) /\ frame'[p].page = frame[p].page
                 /\ frame'[p].pipe_ref = x /\ frame'[p].fd_ref = frame[p].fd_ref
           /\ frame' = [frame EXCEPT ![p].page = y] => LocalStep(p) /\ frame'[p].page = y
<1>1. frame[p] \in Frame  OBVIOUS
<1>2. ASSUME forget_refs(p) PROVE LocalStep(p) /\ frame'[p].page = frame[p].page
  BY <1>1, <1>2 DEF forget_refs, LocalStep, SameCall, Frame
<1>3. ASSUME frame' = [frame EXCEPT ![p].i = x]
      PROVE  LocalStep(p) /\ frame'[p].page = frame[p].page
  BY <1>1, <1>3 DEF LocalStep, SameCall, Frame
<1>4. ASSUME frame' = [frame EXCEPT ![p].fd_ref = x]
      PROVE  LocalStep(p) /\ frame'[p].page = frame[p].page /\ frame'[p].fd_ref = x
  BY <1>1, <1>4 DEF LocalStep, SameCall, Frame
<1>5. ASSUME frame' = [frame EXCEPT ![p].pipe_ref = x]
      PROVE  /\ LocalStep(p) /\ frame'[p].page = frame[p].page
             /\ frame'[p].pipe_ref = x /\ frame'[p].fd_ref = frame[p].fd_ref
  BY <1>1, <1>5 DEF LocalStep, SameCall, Frame
<1>6. ASSUME frame' = [frame EXCEPT ![p].page = y]
      PROVE  LocalStep(p) /\ frame'[p].page = y
  BY <1>1, <1>6 DEF LocalStep, SameCall, Frame
<1> QED  BY <1>2, <1>3, <1>4, <1>5, <1>6

\* One process goes on, or another is dispatched.
LEMMA ProcessorType ==
    ASSUME cur \in Proc, used \in 0..Slice, same \in [Proc -> BOOLEAN],
           (runs_on /\ UNCHANGED same) \/ dispatch
    PROVE  cur' \in Proc /\ used' \in 0..Slice /\ same' \in [Proc -> BOOLEAN]
<1>1. CASE runs_on /\ UNCHANGED same
  BY <1>1, PipeAssumption DEF runs_on
<1>2. CASE dispatch
  BY <1>2, PipeAssumption DEF dispatch
<1> QED  BY <1>1, <1>2

\* A call other than fork begins: its locals f and its first step.
Begins(p, f, where) ==
    /\ cur = p /\ pc[p] = "user"
    /\ frame' = [frame EXCEPT ![p] = f] /\ pc' = [pc EXCEPT ![p] = where]
    /\ runs_on /\ UNCHANGED shared /\ UNCHANGED same

LegalBegin(p, f, where) ==
    /\ f \in Frame /\ where \in {"loop", "runs", "unmap_fd", "map_data"}
    /\ f.op = "read" => p \in Readers
    /\ f.op = "write" => p \in Writers
    /\ f.op = "dup" => f.n # f.to /\ fd[p][f.n] # None
    /\ where = "loop" => f.op \in {"read", "write"} /\ fd[p][f.n] # None
    /\ where = "runs" => f.op = "is_closed" /\ fd[p][f.n] # None
    /\ where = "unmap_fd" => f.op \in {"close", "dup"}
    /\ where = "map_data" => f.op = "dup" /\ fd[p][f.to] = None

\* Every call but fork begins with a frame of its own, at its first access.
LEMMA CallBegins ==
    ASSUME TypeOK, NEW p \in Proc, calls(p)
    PROVE  \/ \E f \in Frame, where \in Where : Begins(p, f, where) /\ LegalBegin(p, f, where)
           \/ \E child \in Proc : call_fork(p, child)
<1>0. 0 \in Fdnum /\ 0 \in Nat /\ 0 \in Proc /\ 1..MaxCount \subseteq Nat
  BY PipeAssumption DEF Fdnum
<1>1. ASSUME NEW n \in Fdnum, NEW count \in 1..MaxCount, call_read(p, n, count)
      PROVE  \E f \in Frame, where \in Where : Begins(p, f, where) /\ LegalBegin(p, f, where)
  <2>1. PICK f : f = NewFrame("read", n, 0, count, 0)  OBVIOUS
  <2>2. f \in Frame /\ f.op = "read" /\ f.n = n
    BY <1>0, <2>1, NewFrameFields DEF Op
  <2>3. Begins(p, f, "loop")  BY <1>1, <2>1 DEF call_read, call, At, Goto, Begins
  <2>4. LegalBegin(p, f, "loop")  BY <1>1, <2>2 DEF call_read, LegalBegin, None
  <2> QED  BY <2>2, <2>3, <2>4 DEF Where
<1>2. ASSUME NEW n \in Fdnum, NEW count \in 1..MaxCount, call_write(p, n, count)
      PROVE  \E f \in Frame, where \in Where : Begins(p, f, where) /\ LegalBegin(p, f, where)
  <2>1. PICK f : f = NewFrame("write", n, 0, count, 0)  OBVIOUS
  <2>2. f \in Frame /\ f.op = "write" /\ f.n = n
    BY <1>0, <2>1, NewFrameFields DEF Op
  <2>3. Begins(p, f, "loop")  BY <1>2, <2>1 DEF call_write, call, At, Goto, Begins
  <2>4. LegalBegin(p, f, "loop")  BY <1>2, <2>2 DEF call_write, LegalBegin, None
  <2> QED  BY <2>2, <2>3, <2>4 DEF Where
<1>3. ASSUME NEW n \in Fdnum, call_is_closed(p, n)
      PROVE  \E f \in Frame, where \in Where : Begins(p, f, where) /\ LegalBegin(p, f, where)
  <2>1. PICK f : f = NewFrame("is_closed", n, 0, 0, 0)  OBVIOUS
  <2>2. f \in Frame /\ f.op = "is_closed" /\ f.n = n
    BY <1>0, <2>1, NewFrameFields DEF Op
  <2>3. Begins(p, f, "runs")  BY <1>3, <2>1 DEF call_is_closed, call, At, Goto, Begins
  <2>4. LegalBegin(p, f, "runs")  BY <1>3, <2>2 DEF call_is_closed, LegalBegin
  <2> QED  BY <2>2, <2>3, <2>4 DEF Where
<1>4. ASSUME NEW n \in Fdnum, call_close(p, n)
      PROVE  \E f \in Frame, where \in Where : Begins(p, f, where) /\ LegalBegin(p, f, where)
  <2>1. PICK f : f = NewFrame("close", 0, n, 0, 0)  OBVIOUS
  <2>2. f \in Frame /\ f.op = "close"
    BY <1>0, <2>1, NewFrameFields DEF Op
  <2>3. Begins(p, f, "unmap_fd")  BY <1>4, <2>1 DEF call_close, call, At, Goto, Begins
  <2>4. LegalBegin(p, f, "unmap_fd")  BY <1>4, <2>2 DEF call_close, LegalBegin
  <2> QED  BY <2>2, <2>3, <2>4 DEF Where
<1>5. ASSUME NEW n \in Fdnum, NEW to \in Fdnum, call_dup(p, n, to)
      PROVE  \E f \in Frame, where \in Where : Begins(p, f, where) /\ LegalBegin(p, f, where)
  <2>1. PICK f : f = NewFrame("dup", n, to, 0, 0)  OBVIOUS
  <2>2. f \in Frame /\ f.op = "dup" /\ f.n = n /\ f.to = to
    BY <1>0, <2>1, NewFrameFields DEF Op
  <2>3. PICK where : where = IF fd[p][to] # None THEN "unmap_fd" ELSE "map_data"  OBVIOUS
  <2>4. Begins(p, f, where)  BY <1>5, <2>1, <2>3 DEF call_dup, call, At, Goto, Begins
  <2>5. LegalBegin(p, f, where)  BY <1>5, <2>2, <2>3 DEF call_dup, LegalBegin
  <2>6. where \in Where  BY <2>3 DEF Where
  <2> QED  BY <2>2, <2>4, <2>5, <2>6
<1> QED  BY <1>1, <1>2, <1>3, <1>4, <1>5 DEF calls

\* Types of the calls, of what copies bytes, and of what changes mappings.
LEMMA TypeBegin ==
    ASSUME TypeOK, NEW p \in Proc, calls(p)
    PROVE  TypeOK'
<1>1. ASSUME NEW f \in Frame, NEW where \in Where, Begins(p, f, where) PROVE TypeOK'
  <2>1. cur' \in Proc /\ used' \in 0..Slice /\ same' \in [Proc -> BOOLEAN]
    BY <1>1, ProcessorType DEF TypeOK, Begins
  <2> QED  BY <1>1, <2>1 DEF TypeOK, Begins, shared
<1>2. ASSUME NEW child \in Proc, call_fork(p, child) PROVE TypeOK'
  <2>1. cur' \in Proc /\ used' \in 0..Slice /\ same' \in [Proc -> BOOLEAN]
    BY <1>2, ProcessorType DEF TypeOK, call_fork
  <2>2. NewFrame("fork", 0, 0, 0, child) \in Frame
    BY PipeAssumption, NewFrameFields DEF Op, Fdnum
  <2> QED  BY <1>2, <2>1, <2>2 DEF TypeOK, call_fork, Goto, Where
<1> QED  BY <1>1, <1>2, CallBegins

\* Types, in pipe_read and pipe_write.
LEMMA TypeBytes ==
    ASSUME TypeOK, NEW p \in Proc, pipe_loop(p) \/ read_byte(p) \/ write_byte(p) \/ bump(p)
    PROVE  TypeOK'
<1>0. cur' \in Proc /\ used' \in 0..Slice /\ same' \in [Proc -> BOOLEAN]
  BY ProcessorType DEF TypeOK, pipe_loop, read_byte, write_byte, bump
<1>1. frame[p] \in Frame /\ NoFrame \in Frame  BY NoFrameFields DEF TypeOK
<1>2. CASE pipe_loop(p)
  <2>1. pc' \in [Proc -> Where]  BY <1>2 DEF pipe_loop, TypeOK, Goto, return, Where
  <2>2. frame' \in [Proc -> Frame]  BY <1>1, <1>2 DEF pipe_loop, TypeOK, return
  <2> QED  BY <1>0, <1>2, <2>1, <2>2 DEF TypeOK, pipe_loop, shared
<1>3. CASE read_byte(p)
  <2>1. pc' \in [Proc -> Where]  BY <1>3 DEF read_byte, TypeOK, Goto, Where
  <2>2. p_rpos % BY2PIPE \in 0..(BY2PIPE - 1)  BY Turns DEF TypeOK
  <2>3. got' \in Seq(Nat)  BY <1>3, <2>2 DEF read_byte, TypeOK
  <2> QED  BY <1>0, <1>3, <2>1, <2>3 DEF TypeOK, read_byte
<1>4. CASE write_byte(p)
  <2>1. pc' \in [Proc -> Where]  BY <1>4 DEF write_byte, TypeOK, Goto, Where
  <2>2. sent' = sent + 1 /\ sent' \in Nat  BY <1>4 DEF write_byte, TypeOK
  <2>3. p_buf' = [p_buf EXCEPT ![p_wpos % BY2PIPE] = sent']  BY <1>4 DEF write_byte
  <2>4. p_buf' \in [0..(BY2PIPE - 1) -> Nat]
    <3>1. p_buf \in [0..(BY2PIPE - 1) -> Nat]  BY DEF TypeOK
    <3> QED  BY <3>1, <2>2, <2>3, Zenon
  <2> QED  BY <1>0, <1>4, <2>1, <2>2, <2>4 DEF TypeOK, write_byte
<1>5. CASE bump(p)
  <2>1. pc' \in [Proc -> Where]  BY <1>5 DEF bump, TypeOK, Goto, Where
  <2>2. PICK x \in Nat : x = frame[p].i + 1  BY <1>1 DEF Frame
  <2>3. frame' = [frame EXCEPT ![p].i = x]  BY <1>5, <2>2 DEF bump
  <2>4. 0 \in 0..(2 * NFD)  BY PipeAssumption
  <2>5. frame' \in [Proc -> Frame]  BY <2>3, <2>4, OneLocal DEF TypeOK, LocalStep
  <2>6. advance(p_rpos) \in 0..(PosMod - 1) /\ advance(p_wpos) \in 0..(PosMod - 1)
    BY UnreadMoves DEF TypeOK
  <2>7. p_rpos' \in 0..(PosMod - 1) /\ p_wpos' \in 0..(PosMod - 1)  BY <1>5, <2>6 DEF bump, TypeOK
  <2> QED  BY <1>0, <1>5, <2>1, <2>5, <2>7 DEF TypeOK, bump
<1> QED  BY <1>2, <1>3, <1>4, <1>5

\* Types, in _pipe_is_closed.
LEMMA TypeCounts ==
    ASSUME TypeOK, NEW p \in Proc,
           read_runs(p) \/ read_fd_ref(p) \/ read_pipe_ref(p) \/ recheck(p)
    PROVE  TypeOK'
<1>1. frame[p] \in Frame /\ NoFrame \in Frame /\ frame[p].n \in Fdnum
  BY NoFrameFields DEF TypeOK, Frame
<1>2. 0 \in Nat /\ 0 \in 0..(2 * NFD)  BY PipeAssumption
<1>3. pageref_fd(p, frame[p].n) \in Nat /\ pageref_data(p, frame[p].n) \in Nat
  BY <1>1, PagerefType
<1>4. CASE read_runs(p)
  <2>1. cur' \in Proc /\ used' \in 0..Slice
    BY <1>4, PipeAssumption DEF TypeOK, read_runs, runs_on
  <2>2. same' \in [Proc -> BOOLEAN]  BY <1>4 DEF TypeOK, read_runs
  <2> QED  BY <1>4, <2>1, <2>2 DEF TypeOK, read_runs, shared, Goto, Where
<1>5. CASE read_fd_ref(p)
  <2>1. cur' \in Proc /\ used' \in 0..Slice /\ same' \in [Proc -> BOOLEAN]
    BY <1>5, ProcessorType DEF TypeOK, read_fd_ref
  <2>2. frame' \in [Proc -> Frame]
    BY <1>2, <1>3, <1>5, OneLocal DEF read_fd_ref, TypeOK, LocalStep
  <2> QED  BY <1>5, <2>1, <2>2 DEF TypeOK, read_fd_ref, shared, Goto, Where
<1>6. CASE read_pipe_ref(p)
  <2>1. cur' \in Proc /\ used' \in 0..Slice /\ same' \in [Proc -> BOOLEAN]
    BY <1>6, ProcessorType DEF TypeOK, read_pipe_ref
  <2>2. frame' \in [Proc -> Frame]
    BY <1>2, <1>3, <1>6, OneLocal DEF read_pipe_ref, TypeOK, LocalStep
  <2> QED  BY <1>6, <2>1, <2>2 DEF TypeOK, read_pipe_ref, shared, Goto, Where
<1>7. CASE recheck(p)
  <2>1. cur' \in Proc /\ used' \in 0..Slice /\ same' \in [Proc -> BOOLEAN]
    BY <1>7, ProcessorType DEF TypeOK, recheck, answer
  <2>2. forget_refs(p) \/ frame' = [frame EXCEPT ![p] = NoFrame]
    BY <1>7 DEF recheck, answer, return
  <2>3. frame' \in [Proc -> Frame]
    BY <1>1, <1>2, <2>2, OneLocal DEF TypeOK, LocalStep
  <2>4. pc' \in [Proc -> Where]  BY <1>7 DEF TypeOK, recheck, answer, return, Goto, Where
  <2> QED  BY <1>7, <2>1, <2>3, <2>4 DEF TypeOK, recheck, shared
<1> QED  BY <1>4, <1>5, <1>6, <1>7

\* Types, in close and dup.
LEMMA TypeMappings ==
    ASSUME TypeOK, NEW p \in Proc, unmap_fd(p) \/ unmap_data(p) \/ map_data(p) \/ map_fd(p)
    PROVE  TypeOK'
<1>0. cur' \in Proc /\ used' \in 0..Slice /\ same' \in [Proc -> BOOLEAN]
  BY ProcessorType DEF TypeOK, unmap_fd, unmap_data, map_data, map_fd
<1>1. frame[p] \in Frame /\ NoFrame \in Frame /\ frame[p].n \in Fdnum /\ frame[p].to \in Fdnum
  BY NoFrameFields DEF TypeOK, Frame
<1>2. frame' \in [Proc -> Frame]
  BY <1>1 DEF TypeOK, unmap_fd, unmap_data, map_data, map_fd, return
<1>3. pc' \in [Proc -> Where]
  BY DEF TypeOK, unmap_fd, unmap_data, map_data, map_fd, return, Goto, Where
<1>a. fd \in [Proc -> [Fdnum -> End \cup {None}]] /\ data \in [Proc -> [Fdnum -> BOOLEAN]]
  BY DEF TypeOK
<1>b. \/ fd' = fd
      \/ \E x \in End \cup {None} : fd' = [fd EXCEPT ![p][frame[p].to] = x]
  <2>1. fd[p][frame[p].n] \in End \cup {None} /\ None \in End \cup {None}  BY <1>1, <1>a
  <2> QED  BY <2>1 DEF unmap_fd, unmap_data, map_data, map_fd
<1>c. \/ data' = data
      \/ \E x \in BOOLEAN : data' = [data EXCEPT ![p][frame[p].to] = x]
  <2>1. data[p][frame[p].n] \in BOOLEAN  BY <1>1, <1>a
  <2> QED  BY <2>1 DEF unmap_fd, unmap_data, map_data, map_fd
<1>4. fd' \in [Proc -> [Fdnum -> End \cup {None}]]
  <2>1. ASSUME NEW x \in End \cup {None} 
        PROVE  [fd EXCEPT ![p][frame[p].to] = x] \in [Proc -> [Fdnum -> End \cup {None}]]
    BY <1>1, <1>a
  <2> QED  BY <1>a, <1>b, <2>1
<1>5. data' \in [Proc -> [Fdnum -> BOOLEAN]]
  <2>1. ASSUME NEW x \in BOOLEAN 
        PROVE  [data EXCEPT ![p][frame[p].to] = x] \in [Proc -> [Fdnum -> BOOLEAN]]
    BY <1>1, <1>a
  <2> QED  BY <1>a, <1>c, <2>1
<1> QED
  BY <1>0, <1>2, <1>3, <1>4, <1>5 DEF TypeOK, unmap_fd, unmap_data, map_data, map_fd

\* Types, in fork.
LEMMA TypeFork ==
    ASSUME TypeOK, NEW p \in Proc, duppage(p) \/ fork_done(p)
    PROVE  TypeOK'
<1>0. cur' \in Proc /\ used' \in 0..Slice /\ same' \in [Proc -> BOOLEAN]
  BY ProcessorType DEF TypeOK, duppage, fork_done
<1>1. /\ frame[p] \in Frame /\ NoFrame \in Frame /\ frame[p].child \in Proc
      /\ frame[p].page \in 0..(2 * NFD)
  BY NoFrameFields DEF TypeOK, Frame
<1>2. CASE duppage(p)
  <2>1. PICK y \in 0..(2 * NFD) : y = frame[p].page + 1
    BY <1>1, <1>2, PipeAssumption DEF duppage
  <2>2. frame' = [frame EXCEPT ![p].page = y]  BY <1>2, <2>1 DEF duppage
  <2>3. frame' \in [Proc -> Frame]  BY <2>2, OneLocal DEF TypeOK, LocalStep
  <2>4. fd' \in [Proc -> [Fdnum -> End \cup {None}]]
    <3>1. CASE frame[p].page < NFD
      <4>1. frame[p].page \in Fdnum  BY <1>1, <3>1, PipeAssumption DEF Fdnum
      <4> QED  BY <1>1, <1>2, <3>1, <4>1 DEF duppage, TypeOK
    <3>2. CASE ~(frame[p].page < NFD)  BY <1>2, <3>2 DEF duppage, TypeOK
    <3> QED  BY <3>1, <3>2
  <2>5. data' \in [Proc -> [Fdnum -> BOOLEAN]]
    <3>1. CASE frame[p].page >= NFD
      <4>1. frame[p].page - NFD \in Fdnum  BY <1>1, <1>2, <3>1, PipeAssumption DEF Fdnum, duppage
      <4> QED  BY <1>1, <1>2, <3>1, <4>1 DEF duppage, TypeOK
    <3>2. CASE ~(frame[p].page >= NFD)  BY <1>2, <3>2 DEF duppage, TypeOK
    <3> QED  BY <3>1, <3>2
  <2> QED  BY <1>0, <1>2, <2>3, <2>4, <2>5 DEF TypeOK, duppage
<1>3. CASE fork_done(p)
  <2>1. status' \in [Proc -> {"FREE", "NOT_RUNNABLE", "RUNNABLE"}]
    BY <1>1, <1>3 DEF fork_done, TypeOK
  <2>2. frame' \in [Proc -> Frame]  BY <1>1, <1>3 DEF fork_done, return, TypeOK
  <2> QED  BY <1>0, <1>3, <2>1, <2>2 DEF TypeOK, fork_done, return, Goto, Where
<1> QED  BY <1>2, <1>3

\* Types, in every step.
LEMMA TypeStep == TypeOK /\ [Next]_vars => TypeOK'
<1> SUFFICES ASSUME TypeOK, [Next]_vars PROVE TypeOK'
  OBVIOUS
<1>1. CASE UNCHANGED vars  BY <1>1 DEF vars, TypeOK
<1>2. CASE handle_int
  <2>1. cur' \in Proc /\ used' \in 0..Slice /\ same' \in [Proc -> BOOLEAN]
    BY <1>2, ProcessorType DEF TypeOK, handle_int
  <2> QED  BY <1>2, <2>1 DEF TypeOK, handle_int, shared
<1>3. ASSUME NEW p \in Proc, step(p) PROVE TypeOK'
  BY <1>3, TypeBytes, TypeCounts, TypeMappings, TypeFork DEF step
<1>4. ASSUME NEW p \in Proc, calls(p) PROVE TypeOK'
  BY <1>4, TypeBegin
<1> QED  BY <1>1, <1>2, <1>3, <1>4 DEF Next

\* The type invariant: counts, positions and locals stay in range whatever the
\* interleaving, the counts of pages included.
THEOREM TypeCorrect == Spec => []TypeOK
<1>1. Init => TypeOK
  <2>1. 0 \in Proc /\ 0 \in 0..(PosMod - 1) /\ 0 \in 0..Slice /\ NoFrame \in Frame
    BY PipeAssumption, NoFrameFields
  <2> QED  BY <2>1 DEF Init, TypeOK, End, Where
<1> QED  BY <1>1, TypeStep, PTL DEF Spec

-------------------------------------------------------------------------------
\* The control of a call: from where to where one step of p takes it.
Moves(p) ==
    \/ pc'[p] = "user" /\ frame'[p] = NoFrame
    \/ /\ SameCall(p)
       /\ \/ pc[p] = "loop" /\ pc'[p] \in {"copy", "runs"}
          \/ pc[p] = "copy" /\ pc'[p] = "bump"
          \/ pc[p] = "bump" /\ pc'[p] = "loop"
          \/ pc[p] = "runs" /\ pc'[p] = "fd_ref"
          \/ pc[p] = "fd_ref" /\ pc'[p] = "pipe_ref"
          \/ pc[p] = "pipe_ref" /\ pc'[p] = "recheck"
          \/ pc[p] = "recheck" /\ pc'[p] = "runs"
          \/ pc[p] = "recheck" /\ pc'[p] = "loop" /\ frame[p].op # "is_closed"
          \/ pc[p] = "unmap_fd" /\ pc'[p] = "unmap_data"
          \/ pc[p] = "unmap_data" /\ pc'[p] = "map_data" /\ frame[p].op = "dup"
          \/ pc[p] = "map_data" /\ pc'[p] = "map_fd"
          \/ pc[p] = "duppage" /\ pc'[p] = "duppage"

\* A step of p is one of the moves, and moves nobody else.
LEMMA MoveOf ==
    ASSUME TypeOK, NEW p \in Proc, step(p)
    PROVE  cur = p /\ Others(p) /\ Moves(p)
<1>0. /\ pc \in [Proc -> Where] /\ frame \in [Proc -> Frame] /\ frame[p] \in Frame
      /\ frame[p].n \in Fdnum /\ 0 \in 0..(2 * NFD) /\ 0 \in Nat
  BY PipeAssumption DEF TypeOK, Frame
<1>1. CASE pipe_loop(p)
  <2>1. CASE return(p)
    BY <1>0, <1>1, <2>1 DEF pipe_loop, At, Goto, return, Others, Moves
  <2>2. CASE UNCHANGED frame /\ (Goto(p, "copy") \/ Goto(p, "runs"))
    BY <1>0, <1>1, <2>2 DEF pipe_loop, At, Goto, Others, Moves, SameCall
  <2> QED  BY <1>1, <2>1, <2>2 DEF pipe_loop
<1>2. CASE read_byte(p)
  BY <1>0, <1>2 DEF read_byte, At, Goto, Others, Moves, SameCall
<1>3. CASE write_byte(p)
  BY <1>0, <1>3 DEF write_byte, At, Goto, Others, Moves, SameCall
<1>4. CASE bump(p)
  <2>1. PICK x \in Nat : x = frame[p].i + 1  BY <1>0 DEF Frame
  <2>2. LocalStep(p)  BY <1>0, <1>4, <2>1, OneLocal DEF bump
  <2> QED  BY <1>0, <1>4, <2>2 DEF bump, At, Goto, Others, Moves, LocalStep
<1>5. CASE read_runs(p)
  BY <1>0, <1>5 DEF read_runs, At, Goto, Others, Moves, SameCall
<1>6. CASE read_fd_ref(p)
  <2>1. LocalStep(p)  BY <1>0, <1>6, PagerefType, OneLocal DEF read_fd_ref
  <2> QED  BY <1>0, <1>6, <2>1 DEF read_fd_ref, At, Goto, Others, Moves, LocalStep
<1>7. CASE read_pipe_ref(p)
  <2>1. LocalStep(p)  BY <1>0, <1>7, PagerefType, OneLocal DEF read_pipe_ref
  <2> QED  BY <1>0, <1>7, <2>1 DEF read_pipe_ref, At, Goto, Others, Moves, LocalStep
<1>8. CASE recheck(p)
  <2>1. CASE return(p)
    BY <1>0, <1>8, <2>1 DEF recheck, At, Goto, return, Others, Moves
  <2>2. CASE forget_refs(p) /\ Goto(p, "loop") /\ frame[p].op # "is_closed"
    <3>1. LocalStep(p)  BY <1>0, <2>2, OneLocal
    <3> QED  BY <1>0, <1>8, <2>2, <3>1 DEF recheck, At, Goto, Others, Moves, LocalStep
  <2>3. CASE forget_refs(p) /\ Goto(p, "runs")
    <3>1. LocalStep(p)  BY <1>0, <2>3, OneLocal
    <3> QED  BY <1>0, <1>8, <2>3, <3>1 DEF recheck, At, Goto, Others, Moves, LocalStep
  <2> QED  BY <1>8, <2>1, <2>2, <2>3 DEF recheck, answer
<1>9. CASE unmap_fd(p)
  BY <1>0, <1>9 DEF unmap_fd, At, Goto, Others, Moves, SameCall
<1>10. CASE unmap_data(p)
  BY <1>0, <1>10 DEF unmap_data, return, At, Goto, Others, Moves, SameCall
<1>11. CASE map_data(p)
  BY <1>0, <1>11 DEF map_data, At, Goto, Others, Moves, SameCall
<1>12. CASE map_fd(p)
  BY <1>0, <1>12 DEF map_fd, return, At, Goto, Others, Moves
<1>13. CASE duppage(p)
  <2>1. PICK y \in 0..(2 * NFD) : y = frame[p].page + 1
    BY <1>0, <1>13, PipeAssumption DEF duppage, Frame
  <2>2. LocalStep(p)  BY <1>0, <1>13, <2>1, OneLocal DEF duppage
  <2> QED  BY <1>0, <1>13, <2>2 DEF duppage, At, Others, Moves, LocalStep
<1>14. CASE fork_done(p)
  BY <1>0, <1>14 DEF fork_done, return, At, Goto, Others, Moves
<1> QED
  BY <1>1, <1>2, <1>3, <1>4, <1>5, <1>6, <1>7, <1>8, <1>9, <1>10, <1>11, <1>12, <1>13, <1>14
     DEF step

\* Who runs afterwards can run, and a process that runs is never stopped for good.
LEMMA Dispatched ==
    ASSUME TypeOK, PlaceInv, Next
    PROVE  /\ status'[cur'] = "RUNNABLE"
           /\ \A q \in Proc : status[q] = "RUNNABLE" => status'[q] = "RUNNABLE"
<1>1. status[cur] = "RUNNABLE" /\ cur \in Proc  BY DEF PlaceInv, TypeOK
<1>2. \A q \in Proc : status[q] = "RUNNABLE" => status'[q] = "RUNNABLE"
  <2>1. CASE handle_int  BY <2>1 DEF handle_int, shared
  <2>2. ASSUME NEW p \in Proc, step(p)
        PROVE  \A q \in Proc : status[q] = "RUNNABLE" => status'[q] = "RUNNABLE"
    <3>1. CASE UNCHANGED status  BY <3>1
    <3>2. CASE fork_done(p)  BY <3>2 DEF fork_done, TypeOK
    <3> QED
      BY <2>2, <3>1, <3>2
         DEF step, pipe_loop, read_byte, write_byte, bump, read_runs, read_fd_ref, read_pipe_ref,
             recheck, unmap_fd, unmap_data, map_data, map_fd, duppage, shared
  <2>3. ASSUME NEW p \in Proc, calls(p)
        PROVE  \A q \in Proc : status[q] = "RUNNABLE" => status'[q] = "RUNNABLE"
    <3>1. ASSUME NEW f \in Frame, NEW where \in Where, Begins(p, f, where)
          PROVE  UNCHANGED status
      BY <3>1 DEF Begins, shared
    <3>2. ASSUME NEW child \in Proc, call_fork(p, child)
          PROVE  \A q \in Proc : status[q] = "RUNNABLE" => status'[q] = "RUNNABLE"
      BY <3>2 DEF call_fork, TypeOK
    <3> QED  BY <2>3, <3>1, <3>2, CallBegins
  <2> QED  BY <2>1, <2>2, <2>3 DEF Next
<1>3. CASE UNCHANGED cur  BY <1>1, <1>2, <1>3
<1>4. CASE dispatch /\ UNCHANGED status  BY <1>4 DEF dispatch, schedule
<1>5. UNCHANGED cur \/ (dispatch /\ UNCHANGED status)
  <2>1. CASE handle_int  BY <2>1 DEF handle_int, shared
  <2>2. ASSUME NEW p \in Proc, step(p) PROVE UNCHANGED cur \/ (dispatch /\ UNCHANGED status)
    BY <2>2
       DEF step, pipe_loop, read_byte, write_byte, bump, read_runs, read_fd_ref, read_pipe_ref,
           recheck, answer, unmap_fd, unmap_data, map_data, map_fd, duppage, fork_done, runs_on, shared
  <2>3. ASSUME NEW p \in Proc, calls(p) PROVE UNCHANGED cur
    BY <2>3, CallBegins DEF Begins, call_fork, runs_on
  <2> QED  BY <2>1, <2>2, <2>3 DEF Next
<1> QED  BY <1>2, <1>3, <1>4, <1>5

\* Where a process is and which call it is in go together.
LEMMA PlaceStep ==
    ASSUME TypeOK, PlaceInv, Next
    PROVE  PlaceInv'
<1>1. /\ status'[cur'] = "RUNNABLE"
      /\ \A q \in Proc : status[q] = "RUNNABLE" => status'[q] = "RUNNABLE"
  BY Dispatched
<1>2. status[cur] = "RUNNABLE" /\ \A q \in Proc : PlaceOK(q)  BY DEF PlaceInv
<1>3. ASSUME NEW q \in Proc, pc'[q] = pc[q], frame'[q] = frame[q] PROVE PlaceOK(q)'
  BY <1>1, <1>2, <1>3 DEF PlaceOK
<1>4. CASE handle_int
  BY <1>1, <1>3, <1>4 DEF handle_int, PlaceInv
<1>5. ASSUME NEW p \in Proc, step(p) PROVE PlaceInv'
  <2>1. cur = p /\ Others(p) /\ Moves(p)  BY <1>5, MoveOf
  <2>2. PlaceOK(p)'
    <3>1. status'[p] = "RUNNABLE"  BY <1>1, <1>2, <2>1
    <3> QED  BY <1>2, <2>1, <3>1, NoFrameFields DEF PlaceOK, Moves, SameCall
  <2> QED  BY <1>1, <1>3, <2>1, <2>2 DEF PlaceInv, Others
<1>6. ASSUME NEW p \in Proc, NEW f \in Frame, NEW where \in Where,
             Begins(p, f, where), LegalBegin(p, f, where)
      PROVE  PlaceInv'
  <2>1. /\ pc'[p] = where /\ frame'[p] = f /\ status'[p] = "RUNNABLE"
        /\ \A q \in Proc \ {p} : pc'[q] = pc[q] /\ frame'[q] = frame[q]
    BY <1>1, <1>2, <1>6 DEF Begins, TypeOK
  <2>2. PlaceOK(p)'  BY <1>6, <2>1 DEF LegalBegin, PlaceOK
  <2> QED  BY <1>1, <1>3, <2>1, <2>2 DEF PlaceInv
<1>7. ASSUME NEW p \in Proc, NEW child \in Proc, call_fork(p, child) PROVE PlaceInv'
  <2>1. PICK f : f = NewFrame("fork", 0, 0, 0, child)  OBVIOUS
  <2>2. f.op = "fork"  BY <2>1, PipeAssumption, NewFrameFields DEF Op, Fdnum
  <2>3. /\ pc'[p] = "duppage" /\ frame'[p] = f /\ status'[p] = "RUNNABLE"
        /\ \A q \in Proc \ {p} : pc'[q] = pc[q] /\ frame'[q] = frame[q]
    BY <1>1, <1>2, <1>7, <2>1 DEF call_fork, At, Goto, TypeOK
  <2>4. PlaceOK(p)'  BY <2>2, <2>3 DEF PlaceOK
  <2> QED  BY <1>1, <1>3, <2>3, <2>4 DEF PlaceInv
<1> QED  BY <1>4, <1>5, <1>6, <1>7, CallBegins DEF Next

-------------------------------------------------------------------------------
Bytes(p) == pipe_loop(p) \/ read_byte(p) \/ write_byte(p) \/ bump(p)
Counts(p) == read_runs(p) \/ read_fd_ref(p) \/ read_pipe_ref(p) \/ recheck(p)
Remaps(p) == unmap_fd(p) \/ unmap_data(p) \/ map_data(p) \/ map_fd(p)

\* A step that changes no mapping and is not one of fork.
LEMMA QuietStep ==
    ASSUME SlotInv, ChildInv, UNCHANGED <<fd, data, status>>,
           \A q \in Proc : \/ pc'[q] = pc[q] /\ frame'[q] = frame[q]
                           \/ pc[q] # "duppage" /\ pc'[q] # "duppage"
    PROVE  SlotInv' /\ ChildInv'
<1>1. SlotInv'  BY DEF SlotInv, SlotOK
<1>2. ASSUME NEW p \in Proc, pc'[p] = "duppage" PROVE ChildOK(p, frame[p].child)'
  <2>1. pc[p] = "duppage" /\ frame'[p] = frame[p]  BY <1>2
  <2>2. ChildOK(p, frame[p].child)  BY <2>1 DEF ChildInv
  <2>3. \A n \in Fdnum : CopyOK(p, frame[p].child, n)'  BY <2>1, <2>2 DEF ChildOK, CopyOK
  <2> QED  BY <2>1, <2>2, <2>3 DEF ChildOK
<1>3. ASSUME NEW c \in Proc, status'[c] = "NOT_RUNNABLE"
      PROVE  \E p \in Proc : pc'[p] = "duppage" /\ frame'[p].child = c
  BY <1>3 DEF ChildInv
<1> QED  BY <1>1, <1>2, <1>3 DEF ChildInv

\* What every step of the library but those of fork leaves alone.
LEMMA QuietCall ==
    ASSUME TypeOK, PlaceInv, HandInv, NEW p \in Proc, Bytes(p) \/ Counts(p)
    PROVE  /\ UNCHANGED <<fd, data, status>>
           /\ pc[p] # "duppage" /\ pc'[p] # "duppage" /\ Others(p)
           /\ HandInv'
<1>1. step(p)  BY DEF Bytes, Counts, step
<1>2. cur = p /\ Others(p) /\ Moves(p)  BY <1>1, MoveOf
<1>3. UNCHANGED <<fd, data, status>>
  BY DEF Bytes, Counts, pipe_loop, read_byte, write_byte, bump, read_runs, read_fd_ref,
         read_pipe_ref, recheck, shared
<1>4. pc[p] \in InLibrary
  BY DEF Bytes, Counts, pipe_loop, read_byte, write_byte, bump, read_runs, read_fd_ref,
         read_pipe_ref, recheck, At, InLibrary
<1>5. (pc'[p] \in InLibrary /\ SameCall(p)) \/ (pc'[p] = "user" /\ frame'[p] = NoFrame)
  BY <1>2, <1>4 DEF Moves, InLibrary
<1>6. HandOK(p)'
  BY <1>3, <1>4, <1>5, NoFrameFields DEF HandInv, HandOK, SameCall, InLibrary
<1>7. ASSUME NEW q \in Proc \ {p} PROVE HandOK(q)'
  BY <1>2, <1>3 DEF HandInv, HandOK, Others
<1> QED  BY <1>2, <1>3, <1>4, <1>5, <1>6, <1>7 DEF HandInv, InLibrary

\* The counts a process has read stay those of the moment until it is dispatched again.
LEMMA CountStep ==
    ASSUME TypeOK, CountInv, Next
    PROVE  CountInv'
<1>1. CASE dispatch
  BY <1>1 DEF dispatch, CountInv, CountOK, TypeOK
<1>2. ASSUME NEW p \in Proc, cur = p, UNCHANGED cur, pc'[p] \notin {"pipe_ref", "recheck"}
      PROVE  CountInv'
  BY <1>2 DEF CountInv, CountOK
<1>3. ASSUME NEW p \in Proc, step(p), ~dispatch PROVE CountInv'
  <2>0. frame[p] \in Frame /\ frame[p].n \in Fdnum /\ 0 \in 0..(2 * NFD)
    BY PipeAssumption DEF TypeOK, Frame
  <2>1. cur = p /\ Moves(p)  BY <1>3, MoveOf
  <2>2. UNCHANGED cur
    BY <1>3 DEF step, pipe_loop, read_byte, write_byte, bump, read_runs, read_fd_ref,
                read_pipe_ref, recheck, answer, unmap_fd, unmap_data, map_data, map_fd, duppage,
                fork_done, runs_on
  <2>3. CASE read_fd_ref(p)
    <3>1. UNCHANGED <<fd, data>> /\ pc'[p] = "pipe_ref"
      BY <2>3 DEF read_fd_ref, shared, Goto, TypeOK
    <3>2. frame'[p].fd_ref = pageref_fd(p, frame[p].n) /\ frame'[p].n = frame[p].n
      BY <2>0, <2>3, PagerefType, OneLocal DEF read_fd_ref, LocalStep, SameCall, TypeOK
    <3>3. (frame[p].fd_ref = pageref_fd(p, frame[p].n))'  BY <3>1, <3>2 DEF pageref_fd
    <3> QED  BY <2>1, <2>2, <3>1, <3>3 DEF CountInv, CountOK
  <2>4. CASE read_pipe_ref(p)
    <3>1. UNCHANGED <<fd, data, same>> /\ pc'[p] = "recheck" /\ pc[p] = "pipe_ref"
      BY <2>4 DEF read_pipe_ref, shared, At, Goto, TypeOK
    <3>2. /\ frame'[p].pipe_ref = pageref_data(p, frame[p].n) /\ frame'[p].n = frame[p].n
          /\ frame'[p].fd_ref = frame[p].fd_ref
      BY <2>0, <2>4, PagerefType, OneLocal DEF read_pipe_ref, LocalStep, SameCall, TypeOK
    <3>3. same[p] => frame[p].fd_ref = pageref_fd(p, frame[p].n)
      BY <2>1, <3>1 DEF CountInv, CountOK
    <3>4. (frame[p].pipe_ref = pageref_data(p, frame[p].n))'  BY <3>1, <3>2 DEF pageref_data
    <3>5. (same[p] => frame[p].fd_ref = pageref_fd(p, frame[p].n))'
      BY <3>1, <3>2, <3>3 DEF pageref_fd
    <3> QED  BY <2>1, <2>2, <3>1, <3>4, <3>5 DEF CountInv, CountOK
  <2>5. CASE ~read_fd_ref(p) /\ ~read_pipe_ref(p)
    <3>1. pc[p] \notin {"fd_ref", "pipe_ref"}
      BY <1>3, <2>5
         DEF step, pipe_loop, read_byte, write_byte, bump, read_runs, recheck, unmap_fd,
             unmap_data, map_data, map_fd, duppage, fork_done, At
    <3>2. pc'[p] \notin {"pipe_ref", "recheck"}  BY <2>1, <3>1 DEF Moves
    <3> QED  BY <1>2, <2>1, <2>2, <3>2
  <2> QED  BY <2>3, <2>4, <2>5
<1>4. ASSUME NEW p \in Proc, calls(p) PROVE CountInv'
  <2>1. cur = p /\ UNCHANGED cur /\ pc'[p] \notin {"pipe_ref", "recheck"}
    <3>1. ASSUME NEW f \in Frame, NEW where \in Where, Begins(p, f, where), LegalBegin(p, f, where)
          PROVE  cur = p /\ UNCHANGED cur /\ pc'[p] \notin {"pipe_ref", "recheck"}
      BY <3>1 DEF Begins, LegalBegin, runs_on, TypeOK
    <3>2. ASSUME NEW child \in Proc, call_fork(p, child)
          PROVE  cur = p /\ UNCHANGED cur /\ pc'[p] \notin {"pipe_ref", "recheck"}
      BY <3>2 DEF call_fork, runs_on, At, Goto, TypeOK
    <3> QED  BY <1>4, <3>1, <3>2, CallBegins
  <2> QED  BY <1>2, <2>1
<1> QED  BY <1>1, <1>3, <1>4 DEF Next, handle_int

-------------------------------------------------------------------------------
\* close and dup: one page of one descriptor of p.
LEMMA RemapEffect ==
    ASSUME TypeOK, NEW p \in Proc, Remaps(p)
    PROVE  LET to == frame[p].to
           IN  /\ UNCHANGED status /\ cur = p /\ Others(p) /\ Moves(p)
               /\ pc[p] # "duppage" /\ pc'[p] # "duppage"
               /\ \A q \in Proc, n \in Fdnum : q # p \/ n # to =>
                     fd'[q][n] = fd[q][n] /\ data'[q][n] = data[q][n]
               /\ fd'[p][to] = IF pc[p] = "unmap_fd" THEN None
                               ELSE IF pc[p] = "map_fd" THEN fd[p][frame[p].n] ELSE fd[p][to]
               /\ data'[p][to] = IF pc[p] = "unmap_data" THEN FALSE
                                 ELSE IF pc[p] = "map_data" THEN data[p][frame[p].n] ELSE data[p][to]
<1>1. step(p)  BY DEF Remaps, step
<1>2. cur = p /\ Others(p) /\ Moves(p)  BY <1>1, MoveOf
<1>3. /\ fd \in [Proc -> [Fdnum -> End \cup {None}]] /\ data \in [Proc -> [Fdnum -> BOOLEAN]]
      /\ frame[p].to \in Fdnum
  BY DEF TypeOK, Frame
<1>4. CASE unmap_fd(p)
  BY <1>2, <1>3, <1>4 DEF unmap_fd, At, Moves
<1>5. CASE unmap_data(p)
  BY <1>2, <1>3, <1>5 DEF unmap_data, At, Moves
<1>6. CASE map_data(p)
  BY <1>2, <1>3, <1>6 DEF map_data, At, Moves
<1>7. CASE map_fd(p)
  BY <1>2, <1>3, <1>7 DEF map_fd, At, Moves
<1> QED  BY <1>4, <1>5, <1>6, <1>7 DEF Remaps

\* close takes the Fd page first and dup gives it last, so that a running process
\* never has it alone.
LEMMA RemapStep ==
    ASSUME TypeOK, PlaceInv, HandInv, SlotInv, ChildInv, NEW p \in Proc, Remaps(p)
    PROVE  HandInv' /\ SlotInv' /\ ChildInv'
<1>0. /\ frame[p].to \in Fdnum /\ frame[p].n \in Fdnum
      /\ \A q \in Proc : frame[q].n \in Fdnum /\ frame[q].to \in Fdnum /\ frame[q].child \in Proc
  BY DEF TypeOK, Frame
<1>1. PICK to \in Fdnum : to = frame[p].to  BY <1>0
<1>2. /\ UNCHANGED status /\ cur = p /\ Others(p) /\ Moves(p)
      /\ pc[p] # "duppage" /\ pc'[p] # "duppage"
      /\ \A q \in Proc, n \in Fdnum : q # p \/ n # to =>
            fd'[q][n] = fd[q][n] /\ data'[q][n] = data[q][n]
      /\ fd'[p][to] = IF pc[p] = "unmap_fd" THEN None
                      ELSE IF pc[p] = "map_fd" THEN fd[p][frame[p].n] ELSE fd[p][to]
      /\ data'[p][to] = IF pc[p] = "unmap_data" THEN FALSE
                        ELSE IF pc[p] = "map_data" THEN data[p][frame[p].n] ELSE data[p][to]
  BY <1>1, RemapEffect
<1>3. /\ status[p] = "RUNNABLE" /\ PlaceOK(p) /\ HandOK(p)
      /\ pc[p] \in {"unmap_fd", "unmap_data", "map_data", "map_fd"}
  BY <1>2 DEF PlaceInv, HandInv, Remaps, unmap_fd, unmap_data, map_data, map_fd, At
<1>4. \A n \in Fdnum : SlotOK(p, n)  BY DEF SlotInv
<1>5. HandOK(p)'
  <2>1. CASE pc'[p] = "user" /\ frame'[p] = NoFrame
    BY <2>1, NoFrameFields DEF HandOK, InLibrary
  <2>2. CASE SameCall(p) /\ pc[p] = "unmap_fd" /\ pc'[p] = "unmap_data"
    BY <1>0, <1>1, <1>2, <1>3, <2>2 DEF HandOK, SameCall, InLibrary
  <2>3. CASE SameCall(p) /\ pc[p] = "unmap_data" /\ pc'[p] = "map_data"
    BY <1>0, <1>1, <1>2, <1>3, <2>3 DEF HandOK, SameCall, InLibrary
  <2>4. CASE SameCall(p) /\ pc[p] = "map_data" /\ pc'[p] = "map_fd"
    <3>1. frame[p].op = "dup" /\ fd[p][frame[p].n] # None  BY <1>3, <2>4 DEF HandOK, PlaceOK
    <3>2. data[p][frame[p].n]  BY <1>0, <1>3, <1>4, <3>1 DEF SlotOK
    <3>3. data'[p][to] = data[p][frame[p].n]  BY <1>2, <2>4
    <3>4. /\ frame'[p].to = to /\ frame'[p].n = frame[p].n /\ frame'[p].op = "dup"
          /\ pc'[p] = "map_fd"
      BY <1>1, <2>4, <3>1 DEF SameCall
    <3>5. data'[p][frame'[p].to]  BY <3>2, <3>3, <3>4
    <3>6. fd'[p][to] = None /\ frame[p].n # to /\ fd'[p][frame[p].n] # None
      BY <1>0, <1>1, <1>2, <1>3, <2>4, <3>1 DEF HandOK
    <3> QED  BY <3>4, <3>5, <3>6 DEF HandOK, InLibrary
  <2> QED  BY <1>2, <1>3, <2>1, <2>2, <2>3, <2>4 DEF Moves
<1>6. ASSUME NEW q \in Proc, q # p PROVE HandOK(q)'
  <2>1. pc'[q] = pc[q] /\ frame'[q] = frame[q]  BY <1>2, <1>6 DEF Others
  <2>2. \A n \in Fdnum : fd'[q][n] = fd[q][n] /\ data'[q][n] = data[q][n]  BY <1>2, <1>6
  <2>3. HandOK(q)  BY DEF HandInv
  <2> QED  BY <1>0, <2>1, <2>2, <2>3 DEF HandOK
<1>7. HandInv'  BY <1>5, <1>6 DEF HandInv
<1>8. ASSUME NEW q \in Proc, NEW n \in Fdnum PROVE SlotOK(q, n)'
  <2>1. CASE q # p \/ n # to
    BY <1>2, <2>1 DEF SlotInv, SlotOK
  <2>2. CASE q = p /\ n = to
    <3>1. CASE pc[p] = "unmap_fd"
      BY <1>2, <1>3, <2>2, <3>1 DEF SlotOK
    <3>2. CASE pc[p] \in {"unmap_data", "map_data"}
      <4>1. fd'[p][to] = None  BY <1>1, <1>2, <1>3, <3>2 DEF HandOK
      <4> QED  BY <1>2, <1>3, <2>2, <4>1 DEF SlotOK
    <3>3. CASE pc[p] = "map_fd"
      <4>1. data'[p][to] = data[p][to] /\ data[p][to]  BY <1>1, <1>2, <1>3, <3>3 DEF HandOK
      <4> QED  BY <1>2, <1>3, <2>2, <4>1 DEF SlotOK
    <3> QED  BY <1>3, <3>1, <3>2, <3>3
  <2> QED  BY <2>1, <2>2
<1>9. SlotInv'  BY <1>8 DEF SlotInv
<1>10. ASSUME NEW q \in Proc, pc'[q] = "duppage" PROVE ChildOK(q, frame[q].child)'
  <2>1. q # p /\ pc[q] = "duppage" /\ frame'[q] = frame[q]  BY <1>2, <1>10 DEF Others
  <2>2. ChildOK(q, frame[q].child)  BY <2>1 DEF ChildInv
  <2>3. PICK c \in Proc : c = frame[q].child /\ c # p  BY <1>0, <1>3, <2>2 DEF ChildOK
  <2>4. \A n \in Fdnum : /\ fd'[q][n] = fd[q][n] /\ data'[q][n] = data[q][n]
                         /\ fd'[c][n] = fd[c][n] /\ data'[c][n] = data[c][n]
    BY <1>2, <2>1, <2>3
  <2>5. \A n \in Fdnum : CopyOK(q, frame[q].child, n)'
    BY <2>1, <2>2, <2>3, <2>4 DEF ChildOK, CopyOK
  <2>6. \A r \in Proc : pc'[r] = "duppage" => pc[r] = "duppage" /\ frame'[r] = frame[r]
    BY <1>2 DEF Others
  <2> QED  BY <1>2, <2>1, <2>2, <2>5, <2>6 DEF ChildOK
<1>11. ASSUME NEW c \in Proc, status'[c] = "NOT_RUNNABLE"
       PROVE  \E q \in Proc : pc'[q] = "duppage" /\ frame'[q].child = c
  <2>1. PICK q \in Proc : pc[q] = "duppage" /\ frame[q].child = c
    BY <1>2, <1>11 DEF ChildInv
  <2> QED  BY <1>2, <2>1 DEF Others
<1>12. ChildInv'  BY <1>10, <1>11 DEF ChildInv
<1> QED  BY <1>7, <1>9, <1>12

-------------------------------------------------------------------------------
\* syscall_exofork: a free slot becomes a child with nothing mapped.
LEMMA ExoforkStep ==
    ASSUME TypeOK, PlaceInv, HandInv, SlotInv, ChildInv,
           NEW p \in Proc, NEW child \in Proc, call_fork(p, child)
    PROVE  HandInv' /\ SlotInv' /\ ChildInv'
<1>1. PICK f : f = NewFrame("fork", 0, 0, 0, child)  OBVIOUS
<1>2. f.op = "fork" /\ f.child = child /\ f.page = 0
  BY <1>1, PipeAssumption, NewFrameFields DEF Op, Fdnum
<1>3. /\ fd' = fd /\ data' = data /\ cur = p /\ status[child] = "FREE" /\ pc[p] = "user"
      /\ pc'[p] = "duppage" /\ frame'[p] = f /\ Others(p)
      /\ status'[child] = "NOT_RUNNABLE"
      /\ \A q \in Proc \ {child} : status'[q] = status[q]
  BY <1>1 DEF call_fork, At, Goto, TypeOK, Others
<1>4. status[p] = "RUNNABLE" /\ child # p  BY <1>3 DEF PlaceInv
<1>5. HandInv'
  <2>1. HandOK(p)'  BY <1>2, <1>3 DEF HandOK, InLibrary
  <2>2. ASSUME NEW q \in Proc, q # p PROVE HandOK(q)'
    BY <1>3, <2>2 DEF HandInv, HandOK, Others
  <2> QED  BY <2>1, <2>2 DEF HandInv
<1>6. SlotInv'
  <2>1. ASSUME NEW q \in Proc, NEW n \in Fdnum PROVE SlotOK(q, n)'
    BY <1>3 DEF SlotInv, SlotOK
  <2> QED  BY <2>1 DEF SlotInv
<1>7. ASSUME NEW q \in Proc, pc'[q] = "duppage" PROVE ChildOK(q, frame[q].child)'
  <2>1. CASE q = p
    <3>1. \A n \in Fdnum : CopyOK(q, frame[q].child, n)'
      <4>1. ASSUME NEW n \in Fdnum PROVE CopyOK(q, frame[q].child, n)'
        <5>1. fd[child][n] = None  BY <1>3 DEF SlotInv, SlotOK
        <5>2. n \in Nat /\ NFD \in Nat  BY PipeAssumption DEF Fdnum
        <5>3. ~(n < 0) /\ ~(n + NFD < 0)  BY <5>2
        <5> QED  BY <1>2, <1>3, <2>1, <5>1, <5>3 DEF CopyOK
      <4> QED  BY <4>1
    <3>2. ASSUME NEW r \in Proc, pc'[r] = "duppage", frame'[r].child = child PROVE r = q
      <4>1. CASE r # p
        <5>1. pc[r] = "duppage" /\ frame[r].child = child  BY <1>3, <3>2, <4>1 DEF Others
        <5>2. status[child] = "NOT_RUNNABLE"  BY <5>1 DEF ChildInv, ChildOK
        <5> QED  BY <1>3, <5>2
      <4> QED  BY <2>1, <4>1
    <3> QED  BY <1>2, <1>3, <2>1, <3>1, <3>2 DEF ChildOK
  <2>2. CASE q # p
    <3>1. pc[q] = "duppage" /\ frame'[q] = frame[q]  BY <1>3, <1>7, <2>2 DEF Others
    <3>2. ChildOK(q, frame[q].child)  BY <3>1 DEF ChildInv
    <3>3. frame[q].child # child /\ frame[q].child \in Proc
      BY <1>3, <3>2 DEF ChildOK, TypeOK, Frame
    <3>4. \A n \in Fdnum : CopyOK(q, frame[q].child, n)'
      BY <1>3, <3>1, <3>2 DEF ChildOK, CopyOK
    <3>5. ASSUME NEW r \in Proc, pc'[r] = "duppage", frame'[r].child = frame[q].child PROVE r = q
      BY <1>2, <1>3, <3>2, <3>3, <3>5 DEF ChildOK, Others
    <3> QED  BY <1>3, <3>1, <3>2, <3>3, <3>4, <3>5 DEF ChildOK
  <2> QED  BY <2>1, <2>2
<1>8. ASSUME NEW c \in Proc, status'[c] = "NOT_RUNNABLE"
      PROVE  \E q \in Proc : pc'[q] = "duppage" /\ frame'[q].child = c
  <2>1. CASE c = child  BY <1>2, <1>3, <2>1
  <2>2. CASE c # child
    <3>1. PICK q \in Proc : pc[q] = "duppage" /\ frame[q].child = c
      BY <1>3, <1>8, <2>2 DEF ChildInv
    <3> QED  BY <1>3, <3>1 DEF Others
  <2> QED  BY <2>1, <2>2
<1>9. ChildInv'  BY <1>7, <1>8 DEF ChildInv
<1> QED  BY <1>5, <1>6, <1>9

\* duppage gives the child the page in work.
LEMMA DuppageStep ==
    ASSUME TypeOK, PlaceInv, HandInv, SlotInv, ChildInv, NEW p \in Proc, duppage(p)
    PROVE  HandInv' /\ SlotInv' /\ ChildInv'
<1>0. /\ frame[p] \in Frame /\ frame[p].child \in Proc /\ frame[p].page \in 0..(2 * NFD)
      /\ NFD \in Nat /\ Fdnum \subseteq Nat
      /\ fd \in [Proc -> [Fdnum -> End \cup {None}]] /\ data \in [Proc -> [Fdnum -> BOOLEAN]]
  BY PipeAssumption DEF TypeOK, Frame, Fdnum
<1>1. PICK c \in Proc : c = frame[p].child  BY <1>0
<1>2. PICK k \in 0..(2 * NFD) : k = frame[p].page  BY <1>0
<1>3. PICK y \in 0..(2 * NFD) : y = k + 1  BY <1>0, <1>2 DEF duppage
<1>4. LocalStep(p) /\ frame'[p].page = y
  <2>1. frame \in [Proc -> Frame] /\ 0 \in Nat  BY DEF TypeOK
  <2>2. frame' = [frame EXCEPT ![p].page = y]  BY <1>2, <1>3 DEF duppage
  <2> QED  BY <2>1, <2>2, OneLocal
<1>5. /\ pc' = pc /\ status' = status /\ pc[p] = "duppage" /\ frame'[p].child = c
      /\ \A q \in Proc \ {p} : frame'[q] = frame[q]
  BY <1>1, <1>4 DEF duppage, At, LocalStep, SameCall
<1>6. ChildOK(p, c)  BY <1>1, <1>5 DEF ChildInv
<1>7. status[c] = "NOT_RUNNABLE" /\ status[p] = "RUNNABLE" /\ c # p /\ pc[c] = "user"
  BY <1>5, <1>6 DEF ChildOK, PlaceInv, PlaceOK
<1>8. /\ \A q \in Proc \ {c} : fd'[q] = fd[q] /\ data'[q] = data[q]
      /\ \A n \in Fdnum : fd'[c][n] = IF n = k THEN fd[p][n] ELSE fd[c][n]
      /\ \A n \in Fdnum : data'[c][n] = IF n + NFD = k THEN data[p][n] ELSE data[c][n]
  <2>1. CASE k < NFD
    <3>1. k \in Fdnum  BY <1>0, <2>1 DEF Fdnum
    <3>2. fd' = [fd EXCEPT ![c][k] = fd[p][k]] /\ data' = data
      BY <1>0, <1>1, <1>2, <2>1 DEF duppage
    <3>3. ASSUME NEW n \in Fdnum PROVE n + NFD # k
      <4>1. n \in Nat /\ k \in Nat  BY <1>0, <3>1
      <4> QED  BY <1>0, <2>1, <4>1
    <3> QED  BY <1>0, <3>1, <3>2, <3>3
  <2>2. CASE ~(k < NFD)
    <3>1. PICK j \in Fdnum : j = k - NFD
      BY <1>0, <1>2, <2>2 DEF Fdnum, duppage
    <3>2. data' = [data EXCEPT ![c][j] = data[p][j]] /\ fd' = fd
      BY <1>0, <1>1, <1>2, <2>2, <3>1 DEF duppage
    <3>3. \A n \in Fdnum : n # k  BY <1>0, <2>2 DEF Fdnum
    <3>4. \A n \in Fdnum : n + NFD = k <=> n = j  BY <1>0, <3>1
    <3> QED  BY <1>0, <3>2, <3>3, <3>4
  <2> QED  BY <2>1, <2>2
<1>9. HandInv'
  <2>1. HandOK(p)'
    <3>1. frame'[p].op = frame[p].op /\ frame'[p].n = frame[p].n /\ frame'[p].to = frame[p].to
      BY <1>4 DEF LocalStep, SameCall
    <3> QED  BY <1>5, <1>7, <1>8, <3>1 DEF HandInv, HandOK, InLibrary
  <2>2. HandOK(c)'
    <3>1. pc'[c] = "user" /\ frame'[c] = frame[c]  BY <1>5, <1>7
    <3>2. frame[c].n \in Fdnum  BY DEF TypeOK, Frame
    <3>3. frame[c].op # "dup"  BY <1>7, NoFrameFields DEF PlaceInv, PlaceOK
    <3> QED  BY <3>1, <3>3 DEF HandOK, InLibrary
  <2>3. ASSUME NEW q \in Proc, q # p, q # c PROVE HandOK(q)'
    BY <1>5, <1>8, <2>3 DEF HandInv, HandOK
  <2> QED  BY <2>1, <2>2, <2>3 DEF HandInv
<1>10. SlotInv'
  <2>1. ASSUME NEW q \in Proc, NEW n \in Fdnum PROVE SlotOK(q, n)'
    BY <1>5, <1>7, <1>8 DEF SlotInv, SlotOK
  <2> QED  BY <2>1 DEF SlotInv
<1>11. ChildOK(p, c)'
  <2>1. ASSUME NEW n \in Fdnum PROVE CopyOK(p, c, n)'
    <3>1. CopyOK(p, c, n)  BY <1>6 DEF ChildOK
    <3>2. fd'[p] = fd[p] /\ data'[p] = data[p]  BY <1>7, <1>8
    <3>3. n \in Nat  BY <1>0
    <3>4. fd'[c][n] = IF n < y THEN fd'[p][n] ELSE None
      BY <1>0, <1>2, <1>3, <1>8, <3>1, <3>2, <3>3 DEF CopyOK
    <3>5. n + NFD < y => data'[c][n] = data'[p][n]
      BY <1>0, <1>2, <1>3, <1>8, <3>1, <3>2, <3>3 DEF CopyOK
    <3> QED  BY <1>4, <3>4, <3>5 DEF CopyOK
  <2>2. ASSUME NEW r \in Proc, pc'[r] = "duppage", frame'[r].child = c PROVE r = p
    BY <1>5, <1>6, <2>2 DEF ChildOK
  <2> QED  BY <1>5, <1>7, <2>1, <2>2 DEF ChildOK
<1>12. ASSUME NEW q \in Proc, q # p, pc'[q] = "duppage" PROVE ChildOK(q, frame[q].child)'
  <2>1. pc[q] = "duppage" /\ frame'[q] = frame[q]  BY <1>5, <1>12
  <2>2. ChildOK(q, frame[q].child)  BY <2>1 DEF ChildInv
  <2>3. frame[q].child # c /\ frame[q].child \in Proc /\ q # c
    BY <1>6, <1>7, <1>12, <2>1 DEF ChildOK, TypeOK, Frame
  <2>4. \A n \in Fdnum : CopyOK(q, frame[q].child, n)'
    BY <1>8, <2>1, <2>2, <2>3 DEF ChildOK, CopyOK
  <2>5. ASSUME NEW r \in Proc, pc'[r] = "duppage", frame'[r].child = frame[q].child PROVE r = q
    BY <1>5, <2>2, <2>3, <2>5 DEF ChildOK
  <2> QED  BY <1>5, <2>1, <2>2, <2>4, <2>5 DEF ChildOK
<1>13. ASSUME NEW d \in Proc, status'[d] = "NOT_RUNNABLE"
       PROVE  \E q \in Proc : pc'[q] = "duppage" /\ frame'[q].child = d
  <2>1. PICK q \in Proc : pc[q] = "duppage" /\ frame[q].child = d
    BY <1>5, <1>13 DEF ChildInv
  <2> QED  BY <1>1, <1>5, <2>1
<1>14. ChildInv'  BY <1>5, <1>11, <1>12, <1>13 DEF ChildInv
<1> QED  BY <1>9, <1>10, <1>14

\* The end of fork: the child has every page of its parent and starts to run.
LEMMA ForkDoneStep ==
    ASSUME TypeOK, PlaceInv, HandInv, SlotInv, ChildInv, NEW p \in Proc, fork_done(p)
    PROVE  HandInv' /\ SlotInv' /\ ChildInv'
<1>0. /\ frame[p].child \in Proc /\ NFD \in Nat /\ Fdnum \subseteq Nat
      /\ \A n \in Fdnum : n < NFD
  BY PipeAssumption DEF TypeOK, Frame, Fdnum
<1>1. PICK c \in Proc : c = frame[p].child  BY <1>0
<1>2. /\ fd' = fd /\ data' = data /\ pc[p] = "duppage" /\ frame[p].page = 2 * NFD
      /\ pc'[p] = "user" /\ frame'[p] = NoFrame /\ Others(p)
      /\ status'[c] = "RUNNABLE" /\ \A q \in Proc \ {c} : status'[q] = status[q]
  BY <1>1 DEF fork_done, return, At, Goto, TypeOK, Others
<1>3. ChildOK(p, c)  BY <1>1, <1>2 DEF ChildInv
<1>4. status[p] = "RUNNABLE" /\ c # p  BY <1>2, <1>3 DEF ChildOK, PlaceInv, PlaceOK
<1>5. HandInv'
  <2>1. HandOK(p)'  BY <1>2, NoFrameFields DEF HandOK, InLibrary
  <2>2. ASSUME NEW q \in Proc, q # p PROVE HandOK(q)'
    BY <1>2, <2>2 DEF HandInv, HandOK, Others
  <2> QED  BY <2>1, <2>2 DEF HandInv
<1>6. SlotInv'
  <2>1. ASSUME NEW n \in Fdnum PROVE SlotOK(c, n)'
    <3>1. CopyOK(p, c, n)  BY <1>3 DEF ChildOK
    <3>2. n < 2 * NFD /\ n + NFD < 2 * NFD  BY <1>0
    <3>3. fd[c][n] = fd[p][n] /\ data[c][n] = data[p][n]  BY <1>2, <3>1, <3>2 DEF CopyOK
    <3> QED  BY <1>2, <1>4, <3>3 DEF SlotInv, SlotOK
  <2>2. ASSUME NEW q \in Proc, q # c, NEW n \in Fdnum PROVE SlotOK(q, n)'
    BY <1>2, <2>2 DEF SlotInv, SlotOK
  <2> QED  BY <2>1, <2>2 DEF SlotInv
<1>7. ASSUME NEW q \in Proc, pc'[q] = "duppage" PROVE ChildOK(q, frame[q].child)'
  <2>1. q # p /\ pc[q] = "duppage" /\ frame'[q] = frame[q]  BY <1>2, <1>7 DEF Others
  <2>2. ChildOK(q, frame[q].child)  BY <2>1 DEF ChildInv
  <2>3. frame[q].child # c /\ frame[q].child \in Proc
    BY <1>3, <2>1 DEF ChildOK, TypeOK, Frame
  <2>4. \A n \in Fdnum : CopyOK(q, frame[q].child, n)'
    BY <1>2, <2>1, <2>2 DEF ChildOK, CopyOK
  <2>5. ASSUME NEW r \in Proc, pc'[r] = "duppage", frame'[r].child = frame[q].child PROVE r = q
    BY <1>2, <2>2, <2>5 DEF ChildOK, Others
  <2> QED  BY <1>2, <2>1, <2>2, <2>3, <2>4, <2>5 DEF ChildOK
<1>8. ASSUME NEW d \in Proc, status'[d] = "NOT_RUNNABLE"
      PROVE  \E q \in Proc : pc'[q] = "duppage" /\ frame'[q].child = d
  <2>1. d # c /\ status[d] = "NOT_RUNNABLE"  BY <1>2, <1>8
  <2>2. PICK q \in Proc : pc[q] = "duppage" /\ frame[q].child = d  BY <2>1 DEF ChildInv
  <2> QED  BY <1>1, <1>2, <2>1, <2>2 DEF Others
<1>9. ChildInv'  BY <1>7, <1>8 DEF ChildInv
<1> QED  BY <1>5, <1>6, <1>9

-------------------------------------------------------------------------------
\* Every step preserves the inductive invariant.
LEMMA Inductive == IInv /\ [Next]_vars => IInv'
<1> SUFFICES ASSUME IInv, [Next]_vars PROVE IInv'
  OBVIOUS
<1>0. TypeOK /\ PlaceInv /\ HandInv /\ SlotInv /\ ChildInv /\ CountInv  BY DEF IInv
<1>1. CASE UNCHANGED vars
  <2>1. TypeOK'  BY <1>0, <1>1 DEF vars, TypeOK
  <2>2. PlaceInv' /\ HandInv'  BY <1>0, <1>1 DEF vars, PlaceInv, PlaceOK, HandInv, HandOK
  <2>3. SlotInv' /\ ChildInv'  BY <1>0, <1>1, QuietStep DEF vars
  <2>4. CountInv'  BY <1>0, <1>1 DEF vars, CountInv, CountOK, pageref_fd, pageref_data
  <2> QED  BY <2>1, <2>2, <2>3, <2>4 DEF IInv
<1>2. CASE Next
  <2>1. TypeOK' /\ PlaceInv' /\ CountInv'  BY <1>0, <1>2, TypeStep, PlaceStep, CountStep
  <2>2. CASE handle_int
    <3>1. UNCHANGED <<fd, data, status, pc, frame>>  BY <2>2 DEF handle_int, shared
    <3>2. SlotInv' /\ ChildInv'  BY <1>0, <3>1, QuietStep
    <3>3. HandInv'  BY <1>0, <3>1 DEF HandInv, HandOK
    <3> QED  BY <2>1, <3>2, <3>3 DEF IInv
  <2>3. ASSUME NEW p \in Proc, Bytes(p) \/ Counts(p) PROVE IInv'
    <3>1. /\ UNCHANGED <<fd, data, status>> /\ Others(p) /\ HandInv'
          /\ pc[p] # "duppage" /\ pc'[p] # "duppage"
      BY <1>0, <2>3, QuietCall
    <3>2. SlotInv' /\ ChildInv'  BY <1>0, <3>1, QuietStep DEF Others
    <3> QED  BY <2>1, <3>1, <3>2 DEF IInv
  <2>4. ASSUME NEW p \in Proc, Remaps(p) PROVE IInv'
    BY <1>0, <2>1, <2>4, RemapStep DEF IInv
  <2>5. ASSUME NEW p \in Proc, duppage(p) PROVE IInv'
    BY <1>0, <2>1, <2>5, DuppageStep DEF IInv
  <2>6. ASSUME NEW p \in Proc, fork_done(p) PROVE IInv'
    BY <1>0, <2>1, <2>6, ForkDoneStep DEF IInv
  <2>7. ASSUME NEW p \in Proc, calls(p) PROVE IInv'
    <3>1. ASSUME NEW f \in Frame, NEW where \in Where, Begins(p, f, where), LegalBegin(p, f, where)
          PROVE  IInv'
      <4>1. /\ UNCHANGED <<fd, data, status>> /\ pc[p] = "user"
            /\ pc'[p] = where /\ frame'[p] = f
            /\ \A q \in Proc \ {p} : pc'[q] = pc[q] /\ frame'[q] = frame[q]
        BY <1>0, <3>1 DEF Begins, shared, TypeOK
      <4>2. pc'[p] # "duppage"  BY <3>1, <4>1 DEF LegalBegin
      <4>3. SlotInv' /\ ChildInv'  BY <1>0, <4>1, <4>2, QuietStep
      <4>4. HandOK(p)'  BY <3>1, <4>1 DEF LegalBegin, HandOK, InLibrary
      <4>5. ASSUME NEW q \in Proc, q # p PROVE HandOK(q)'
        BY <1>0, <4>1, <4>5 DEF HandInv, HandOK
      <4>6. HandInv'  BY <4>4, <4>5 DEF HandInv
      <4> QED  BY <2>1, <4>3, <4>6 DEF IInv
    <3>2. ASSUME NEW child \in Proc, call_fork(p, child) PROVE IInv'
      BY <1>0, <2>1, <3>2, ExoforkStep DEF IInv
    <3> QED  BY <1>0, <2>7, <3>1, <3>2, CallBegins
  <2> QED
    BY <1>2, <2>2, <2>3, <2>4, <2>5, <2>6, <2>7 DEF Next, step, Bytes, Counts, Remaps
<1> QED  BY <1>1, <1>2

\* pipe() leaves both ends open in the one process there is.
LEMMA InitIInv == Init => IInv
<1> SUFFICES ASSUME Init PROVE IInv
  OBVIOUS
<1>0. 0 \in Proc /\ 0 \in 0..(PosMod - 1) /\ 0 \in 0..Slice /\ NoFrame \in Frame
  BY PipeAssumption, NoFrameFields
<1>1. TypeOK  BY <1>0 DEF Init, TypeOK, End, Where
<1>2. PlaceInv  BY <1>0, NoFrameFields DEF Init, PlaceInv, PlaceOK
<1>3. HandInv  BY NoFrameFields DEF Init, HandInv, HandOK, InLibrary
<1>4. ASSUME NEW p \in Proc, NEW n \in Fdnum PROVE SlotOK(p, n)
  <2>1. n \in Nat  BY PipeAssumption DEF Fdnum
  <2>2. /\ fd[p][n] = IF p # 0 \/ n > 1 THEN None ELSE IF n = 0 THEN "rd" ELSE "wr"
        /\ data[p][n] = (p = 0 /\ n <= 1)
        /\ status[p] = IF p = 0 THEN "RUNNABLE" ELSE "FREE"
    BY DEF Init
  <2>3. CASE p = 0 /\ n <= 1
    BY <2>2, <2>3 DEF SlotOK
  <2>4. CASE ~(p = 0 /\ n <= 1)
    <3>1. fd[p][n] = None  BY <2>1, <2>2, <2>4
    <3>2. ~data[p][n]  BY <2>2, <2>4, Zenon
    <3> QED  BY <3>1, <3>2 DEF SlotOK
  <2> QED  BY <2>3, <2>4
<1>5. SlotInv  BY <1>4 DEF SlotInv
<1>6. ChildInv  BY DEF Init, ChildInv
<1>7. CountInv  BY DEF Init, CountInv, CountOK
<1> QED  BY <1>1, <1>2, <1>3, <1>5, <1>6, <1>7 DEF IInv

\* When no fork is in between, equal counts mean that every Pipe page is mapped
\* next to an Fd page of the same end: nobody has the other one.
LEMMA EqualCounts ==
    ASSUME IInv, NEW p \in Proc, NEW n \in Fdnum, ~Forking, fd[p][n] # None,
           status[p] = "RUNNABLE", pageref_fd(p, n) = pageref_data(p, n)
    PROVE  ~Open(Opposite[fd[p][n]])
<1>0. /\ fd \in [Proc -> [Fdnum -> End \cup {None}]] /\ data \in [Proc -> [Fdnum -> BOOLEAN]]
      /\ status \in [Proc -> {"FREE", "NOT_RUNNABLE", "RUNNABLE"}] /\ SlotInv /\ ChildInv
  BY DEF IInv, TypeOK
<1>1. PICK F : F = {s \in Proc \X Fdnum : fd[s[1]][s[2]] = fd[p][n]}  OBVIOUS
<1>2. PICK D : D = {s \in Proc \X Fdnum : data[s[1]][s[2]]}  OBVIOUS
<1>3. \A q \in Proc : status[q] # "NOT_RUNNABLE"  BY <1>0 DEF ChildInv, Forking
<1>4. \A q \in Proc, m \in Fdnum : fd[q][m] # None => data[q][m]
  <2>1. ASSUME NEW q \in Proc, NEW m \in Fdnum, fd[q][m] # None PROVE data[q][m]
    <3>1. SlotOK(q, m)  BY <1>0 DEF SlotInv
    <3>2. status[q] \in {"FREE", "RUNNABLE"}  BY <1>0, <1>3
    <3> QED  BY <2>1, <3>1, <3>2 DEF SlotOK
  <2> QED  BY <2>1
<1>5. F \subseteq D  BY <1>1, <1>2, <1>4
<1>6. D \in SUBSET (Proc \X Fdnum) /\ IsFiniteSet(D)
  <2>1. D \in SUBSET (Proc \X Fdnum)  BY <1>2
  <2> QED  BY <2>1, Finite
<1>7. Cardinality(F) = Cardinality(D)
  <2>1. pageref_fd(p, n) = Cardinality(F)  BY <1>1 DEF pageref_fd
  <2>2. pageref_data(p, n) = Cardinality(D)  BY <1>2, <1>4 DEF pageref_data
  <2> QED  BY <2>1, <2>2
<1>8. F = D  BY <1>5, <1>6, <1>7, FS_Subset
<1>9. ASSUME NEW q \in Proc, NEW m \in Fdnum, fd[q][m] = Opposite[fd[p][n]], data[q][m]
      PROVE  FALSE
  <2>1. <<q, m>> \in D  BY <1>2, <1>9
  <2>2. fd[q][m] = fd[p][n]  BY <1>1, <1>8, <2>1
  <2>3. fd[p][n] \in End  BY <1>0
  <2> QED  BY <1>9, <2>2, <2>3 DEF Opposite, End
<1> QED  BY <1>9 DEF Open

\* _pipe_is_closed answers 1 only if the other end is closed, for any number of
\* processes that close and dup while it counts: env_runs tells it that the two
\* counts are of one moment, and the order of mapping that they can be compared.
THEOREM ClosedAnswersAreTrue == Spec => ClosedIsTrue
<1>1. Spec => []IInv  BY InitIInv, Inductive, PTL DEF Spec
<1>2. IInv /\ [Next]_vars
        => [\A p \in Proc :
               SaysClosed(p) /\ ~Forking => ~Open(Opposite[fd[p][frame[p].n]])]_vars
  <2> SUFFICES ASSUME IInv, Next, NEW p \in Proc, SaysClosed(p), ~Forking
               PROVE  ~Open(Opposite[fd[p][frame[p].n]])
    OBVIOUS
  <2>0. TypeOK /\ PlaceInv /\ HandInv /\ CountInv  BY DEF IInv
  <2>1. pc[p] = "recheck" /\ pc'[p] # "recheck" /\ pc'[p] # "runs"
    BY DEF SaysClosed
  <2>2. recheck(p)
    <3>1. ~handle_int  BY <2>1 DEF handle_int
    <3>2. ASSUME NEW q \in Proc, calls(q) PROVE FALSE
      <4>1. q # p /\ pc'[p] = pc[p]
        <5>1. ASSUME NEW f \in Frame, NEW where \in Where, Begins(q, f, where) PROVE q # p /\ pc'[p] = pc[p]
          BY <2>0, <2>1, <5>1 DEF Begins, TypeOK
        <5>2. ASSUME NEW child \in Proc, call_fork(q, child) PROVE q # p /\ pc'[p] = pc[p]
          BY <2>0, <2>1, <5>2 DEF call_fork, At, Goto, TypeOK
        <5> QED  BY <2>0, <3>2, <5>1, <5>2, CallBegins
      <4> QED  BY <2>1, <4>1
    <3>3. PICK q \in Proc : step(q)  BY <3>1, <3>2 DEF Next
    <3>4. q = p  BY <2>0, <2>1, <3>3, MoveOf DEF Others
    <3> QED
      BY <2>1, <3>3, <3>4
         DEF step, pipe_loop, read_byte, write_byte, bump, read_runs, read_fd_ref, read_pipe_ref,
             unmap_fd, unmap_data, map_data, map_fd, duppage, fork_done, At
  <2>3. same[p] /\ cur = p
    <3>1. ~Goto(p, "runs")  BY <2>0, <2>1 DEF Goto, TypeOK
    <3> QED  BY <2>2, <3>1 DEF recheck, At
  <2>4. frame[p].n \in Fdnum /\ fd[p][frame[p].n] # None /\ status[p] = "RUNNABLE"
    BY <2>0, <2>1 DEF TypeOK, Frame, HandInv, HandOK, InLibrary, PlaceInv, PlaceOK
  <2>5. pageref_fd(p, frame[p].n) = pageref_data(p, frame[p].n)
    BY <2>0, <2>1, <2>3 DEF CountInv, CountOK, SaysClosed
  <2> QED  BY <2>4, <2>5, EqualCounts
<1> QED  BY <1>1, <1>2, PTL DEF Spec, ClosedIsTrue

-------------------------------------------------------------------------------
\* With one reader and one writer nobody else is in pipe_read or pipe_write.
LEMMA Alone ==
    ASSUME OneOfEach, PlaceInv, NEW p \in Proc, NEW q \in Proc,
           frame[p].op = frame[q].op, frame[p].op \in {"read", "write"}
    PROVE  p = q
BY DEF OneOfEach, PlaceInv, PlaceOK

\* unread, as a number.
LEMMA UnreadType ==
    ASSUME TypeOK
    PROVE  unread \in 0..(PosMod - 1) /\ unread \in Nat /\ (Empty <=> unread = 0)
<1>1. unread \in 0..(PosMod - 1) /\ (Empty <=> unread = 0)
  BY UnreadMoves DEF TypeOK, unread, Empty
<1> QED  BY <1>1, Turns

\* A step that is not at the byte or at the position.
LEMMA QuietBytes ==
    ASSUME ByteInv, UNCHANGED <<p_rpos, p_wpos, p_buf, sent, got>>,
           NEW p \in Proc, Others(p), pc[p] # "bump", pc'[p] # "bump", RoomOK(p)'
    PROVE  ByteInv'
<1>1. (Reading' <=> Reading) /\ (Writing' <=> Writing)  BY DEF Reading, Writing, Others
<1>2. unread' = unread /\ base' = base  BY <1>1 DEF unread, base
<1>3. BufferOK' /\ WriterOK'  BY <1>1, <1>2 DEF ByteInv, BufferOK, WriterOK
<1>4. ASSUME NEW q \in Proc, q # p PROVE RoomOK(q)'
  BY <1>2, <1>4 DEF ByteInv, RoomOK, Others
<1> QED  BY <1>2, <1>3, <1>4 DEF ByteInv

\* pipe_read and pipe_write go on to the byte when there is one, or room for one.
LEMMA LoopBytes ==
    ASSUME TypeOK, PlaceInv, ByteInv, NEW p \in Proc, pipe_loop(p)
    PROVE  ByteInv'
<1>0. step(p)  BY DEF step
<1>1. Others(p) /\ Moves(p) /\ pc[p] = "loop"  BY <1>0, MoveOf DEF pipe_loop, At
<1>2. UNCHANGED <<p_rpos, p_wpos, p_buf, sent, got>>  BY DEF pipe_loop, shared
<1>3. unread \in Nat /\ BY2PIPE \in Nat /\ (Empty <=> unread = 0) /\ unread <= BY2PIPE
  BY UnreadType, Turns DEF ByteInv
<1>4. pc'[p] # "bump"  BY <1>1 DEF Moves
<1>5. RoomOK(p)'
  <2>1. CASE pc'[p] # "copy"  BY <1>4, <2>1 DEF RoomOK
  <2>2. CASE pc'[p] = "copy"
    <3>1. /\ UNCHANGED frame /\ frame[p].op \in {"read", "write"}
          /\ ~(IF frame[p].op = "read" THEN Empty ELSE Full)
      BY <1>1, <2>2 DEF pipe_loop, return, Goto, TypeOK, PlaceInv, PlaceOK
    <3>2. unread' = unread  BY <1>2 DEF unread
    <3>3. CASE frame[p].op = "read"
      <4>1. unread > 0  BY <1>3, <3>1, <3>3
      <4> QED  BY <3>1, <3>2, <3>3, <4>1 DEF RoomOK
    <3>4. CASE frame[p].op = "write"
      <4>1. unread # BY2PIPE  BY <3>1, <3>4 DEF Full, unread
      <4>2. unread < BY2PIPE  BY <1>3, <4>1
      <4> QED  BY <3>1, <3>2, <3>4, <4>2 DEF RoomOK
    <3> QED  BY <3>1, <3>3, <3>4
  <2> QED  BY <2>1, <2>2
<1> QED  BY <1>1, <1>2, <1>4, <1>5, QuietBytes

\* pipe_read takes the oldest unread byte.
LEMMA ReadBytes ==
    ASSUME OneOfEach, TypeOK, PlaceInv, ByteInv, NEW p \in Proc, read_byte(p)
    PROVE  ByteInv'
<1>0. step(p)  BY DEF step
<1>1. Others(p) /\ pc[p] = "copy" /\ pc'[p] = "bump" /\ frame[p].op = "read" /\ frame' = frame
  BY <1>0, MoveOf DEF read_byte, At, Goto, TypeOK
<1>2. UNCHANGED <<p_rpos, p_wpos, p_buf, sent>> /\ unread' = unread
  BY DEF read_byte, unread
<1>3. unread \in Nat /\ unread > 0 /\ got \in Seq(Nat) /\ p_rpos \in Nat
  BY <1>1, UnreadType DEF ByteInv, RoomOK, TypeOK
<1>4. ~Reading  BY <1>1, Alone DEF Reading
<1>5. Reading'  BY <1>1 DEF Reading
<1>6. Writing' <=> Writing  BY <1>1 DEF Writing, Others
<1>7. base = Len(got)  BY <1>3, <1>4 DEF base
<1>8. p_buf[p_rpos % BY2PIPE] = Len(got) + 1
  <2>1. 0 \in 0..(unread - 1)  BY <1>3
  <2>2. p_buf[(p_rpos + 0) % BY2PIPE] = base + 0 + 1  BY <2>1 DEF ByteInv, BufferOK
  <2>3. p_rpos + 0 = p_rpos  BY <1>3
  <2> QED  BY <1>3, <1>7, <2>2, <2>3
<1>9. got' = Append(got, Len(got) + 1)  BY <1>8 DEF read_byte
<1>10. Len(got') = Len(got) + 1 /\ \A i \in DOMAIN got' : got'[i] = i
  BY <1>3, <1>9 DEF ByteInv
<1>11. base' = base
  <2>1. base' = Len(got') - 1  BY <1>5 DEF base
  <2> QED  BY <1>3, <1>7, <1>10, <2>1
<1>12. BufferOK' /\ WriterOK'  BY <1>2, <1>6, <1>11 DEF ByteInv, BufferOK, WriterOK
<1>13. \A q \in Proc : RoomOK(q)'
  <2>1. RoomOK(p)'  BY <1>1, <1>2, <1>3 DEF RoomOK
  <2>2. ASSUME NEW q \in Proc, q # p PROVE RoomOK(q)'
    BY <1>1, <1>2, <2>2 DEF ByteInv, RoomOK, Others
  <2> QED  BY <2>1, <2>2
<1> QED  BY <1>2, <1>10, <1>12, <1>13 DEF ByteInv

\* pipe_write stores behind the unread bytes, and none of them.
LEMMA WriteBytes ==
    ASSUME OneOfEach, TypeOK, PlaceInv, ByteInv, NEW p \in Proc, write_byte(p)
    PROVE  ByteInv'
<1>0. step(p)  BY DEF step
<1>1. Others(p) /\ pc[p] = "copy" /\ pc'[p] = "bump" /\ frame[p].op = "write" /\ frame' = frame
  BY <1>0, MoveOf DEF write_byte, At, Goto, TypeOK
<1>2. UNCHANGED <<p_rpos, p_wpos, got>> /\ unread' = unread
  BY DEF write_byte, unread
<1>3. /\ unread \in Nat /\ unread < BY2PIPE /\ BY2PIPE \in Nat \ {0} /\ sent \in Nat
      /\ p_rpos \in 0..(PosMod - 1) /\ p_wpos \in 0..(PosMod - 1) /\ p_rpos \in Int
      /\ p_buf \in [0..(BY2PIPE - 1) -> Nat]
  BY <1>1, UnreadType, Turns DEF ByteInv, RoomOK, TypeOK
<1>4. ~Writing  BY <1>1, Alone DEF Writing
<1>5. Writing'  BY <1>1 DEF Writing
<1>6. Reading' <=> Reading  BY <1>1 DEF Reading, Others
<1>7. base' = base  BY <1>2, <1>6 DEF base
<1>8. sent = base + unread + 0  BY <1>4 DEF ByteInv, WriterOK
<1>9. PICK w \in 0..(BY2PIPE - 1) : w = p_wpos % BY2PIPE
  BY <1>3
<1>10. sent' = sent + 1 /\ p_buf' = [p_buf EXCEPT ![w] = sent + 1]  BY <1>9 DEF write_byte
<1>11. base \in Int  BY DEF base, TypeOK
<1>12. WriterOK'
  <2>1. p_buf'[w] = sent'  BY <1>3, <1>10
  <2>2. p_wpos' % BY2PIPE = w  BY <1>2, <1>9
  <2>3. sent' = base' + unread' + 1  BY <1>2, <1>3, <1>7, <1>8, <1>10, <1>11
  <2> QED  BY <1>2, <1>3, <1>5, <2>1, <2>2, <2>3 DEF WriterOK
<1>13. BufferOK'
  <2>1. ASSUME NEW k \in 0..(unread - 1) PROVE p_buf'[(p_rpos + k) % BY2PIPE] = base + k + 1
    <3>1. k \in Int /\ 0 <= k /\ k < unread  BY <1>3
    <3>2. (p_rpos + k) % BY2PIPE # (p_rpos + unread) % BY2PIPE
      <4>1. unread \in Int  BY <1>3
      <4> QED  BY <1>3, <3>1, <4>1, PlacesDiffer, Zenon
    <3>3. (p_rpos + unread) % BY2PIPE = w  BY <1>3, <1>9, PlaceOfLast DEF unread
    <3>4. PICK x \in 0..(BY2PIPE - 1) : x = (p_rpos + k) % BY2PIPE  BY <1>3, <3>1
    <3>5. p_buf'[x] = p_buf[x]  BY <1>3, <1>10, <3>2, <3>3, <3>4
    <3>6. p_buf[x] = base + k + 1  BY <3>4 DEF ByteInv, BufferOK
    <3> QED  BY <3>4, <3>5, <3>6
  <2> QED  BY <1>2, <1>7, <2>1 DEF BufferOK
<1>14. \A q \in Proc : RoomOK(q)'
  <2>1. RoomOK(p)'  BY <1>1, <1>2 DEF RoomOK
  <2>2. ASSUME NEW q \in Proc, q # p PROVE RoomOK(q)'
    BY <1>1, <1>2, <2>2 DEF ByteInv, RoomOK, Others
  <2> QED  BY <2>1, <2>2
<1> QED  BY <1>2, <1>12, <1>13, <1>14 DEF ByteInv

\* p_rpos moves on: the byte read is not one of the unread ones any more.
LEMMA BumpRead ==
    ASSUME OneOfEach, TypeOK, PlaceInv, ByteInv, NEW p \in Proc, bump(p), frame[p].op = "read"
    PROVE  ByteInv'
<1>0. step(p)  BY DEF step
<1>1. /\ Others(p) /\ pc[p] = "bump" /\ pc'[p] = "loop" /\ frame'[p].op = "read"
  BY <1>0, MoveOf, NoFrameFields DEF bump, At, Goto, TypeOK, Moves, SameCall
<1>2. UNCHANGED <<p_wpos, p_buf, sent, got>> /\ p_rpos' = advance(p_rpos)
  BY DEF bump
<1>3. /\ unread \in Nat /\ unread > 0 /\ unread <= BY2PIPE /\ BY2PIPE \in Nat \ {0}
      /\ sent \in Nat /\ Len(got) \in Nat
      /\ p_rpos \in 0..(PosMod - 1) /\ p_wpos \in 0..(PosMod - 1)
  BY <1>1, UnreadType, Turns DEF ByteInv, RoomOK, TypeOK
<1>4. unread' = unread - 1  BY <1>2, <1>3, UnreadMoves DEF unread
<1>5. Reading  BY <1>1 DEF Reading
<1>6. ~Reading'
  <2>1. ASSUME NEW q \in Proc, pc'[q] = "bump", frame'[q].op = "read" PROVE FALSE
    <3>1. q # p  BY <1>1, <2>1
    <3>2. frame[q].op = "read"  BY <1>1, <2>1, <3>1 DEF Others
    <3> QED  BY <3>1, <3>2, Alone
  <2> QED  BY <2>1 DEF Reading
<1>7. Writing' <=> Writing  BY <1>1 DEF Writing, Others
<1>8. base = Len(got) - 1 /\ base' = Len(got) /\ base' = base + 1 /\ base \in Int
  BY <1>2, <1>3, <1>5, <1>6 DEF base
<1>9. WriterOK'
  <2>1. sent = base + unread + IF Writing THEN 1 ELSE 0  BY DEF ByteInv, WriterOK
  <2>2. base' + unread' = base + unread  BY <1>3, <1>4, <1>8
  <2>3. sent' = base' + unread' + IF Writing' THEN 1 ELSE 0  BY <1>2, <1>7, <2>1, <2>2
  <2>4. Writing' => unread' < BY2PIPE  BY <1>3, <1>4
  <2>5. Writing' => p_buf'[p_wpos' % BY2PIPE] = sent'  BY <1>2, <1>7 DEF ByteInv, WriterOK
  <2> QED  BY <2>3, <2>4, <2>5 DEF WriterOK
<1>10. BufferOK'
  <2>1. ASSUME NEW k \in 0..(unread - 2)
        PROVE  p_buf[(advance(p_rpos) + k) % BY2PIPE] = base + 1 + k + 1
    <3>1. k \in Int /\ k + 1 \in 0..(unread - 1)  BY <1>3
    <3>2. (advance(p_rpos) + k) % BY2PIPE = (p_rpos + (k + 1)) % BY2PIPE
      BY <1>3, <3>1, PlaceOfNext
    <3>3. p_buf[(p_rpos + (k + 1)) % BY2PIPE] = base + (k + 1) + 1
      BY <3>1 DEF ByteInv, BufferOK
    <3> QED  BY <1>8, <3>1, <3>2, <3>3
  <2>2. unread' - 1 = unread - 2  BY <1>3, <1>4
  <2> QED  BY <1>2, <1>8, <2>1, <2>2 DEF BufferOK
<1>11. \A q \in Proc : RoomOK(q)'
  <2>1. RoomOK(p)'  BY <1>1 DEF RoomOK
  <2>2. ASSUME NEW q \in Proc, q # p PROVE RoomOK(q)'
    <3>1. pc'[q] = pc[q] /\ frame'[q] = frame[q]  BY <1>1, <2>2 DEF Others
    <3>2. frame[q].op # "read"  BY <2>2, Alone
    <3>3. unread < BY2PIPE => unread' < BY2PIPE  BY <1>3, <1>4
    <3> QED  BY <3>1, <3>2, <3>3 DEF ByteInv, RoomOK
  <2> QED  BY <2>1, <2>2
<1>12. unread' <= BY2PIPE  BY <1>3, <1>4
<1>13. \A i \in DOMAIN got' : got'[i] = i  BY <1>2 DEF ByteInv
<1> QED  BY <1>9, <1>10, <1>11, <1>12, <1>13 DEF ByteInv

\* p_wpos moves on: the byte stored is now the last of the unread ones.
LEMMA BumpWrite ==
    ASSUME OneOfEach, TypeOK, PlaceInv, ByteInv, NEW p \in Proc, bump(p), frame[p].op = "write"
    PROVE  ByteInv'
<1>0. step(p)  BY DEF step
<1>1. /\ Others(p) /\ pc[p] = "bump" /\ pc'[p] = "loop" /\ frame'[p].op = "write"
  BY <1>0, MoveOf, NoFrameFields DEF bump, At, Goto, TypeOK, Moves, SameCall
<1>2. UNCHANGED <<p_rpos, p_buf, sent, got>> /\ p_wpos' = advance(p_wpos)
  BY DEF bump
<1>3. Writing  BY <1>1 DEF Writing
<1>4. /\ unread \in Nat /\ unread < BY2PIPE /\ BY2PIPE \in Nat \ {0} /\ PosMod \in Nat
      /\ PosMod > BY2PIPE /\ sent \in Nat /\ Len(got) \in Nat
      /\ p_rpos \in 0..(PosMod - 1) /\ p_wpos \in 0..(PosMod - 1)
      /\ p_buf[p_wpos % BY2PIPE] = sent
  BY <1>3, UnreadType, Turns DEF ByteInv, WriterOK, TypeOK
<1>5. unread < PosMod - 1  BY <1>4
<1>6. unread' = unread + 1  BY <1>2, <1>4, <1>5, UnreadMoves DEF unread
<1>7. ~Writing'
  <2>1. ASSUME NEW q \in Proc, pc'[q] = "bump", frame'[q].op = "write" PROVE FALSE
    <3>1. q # p  BY <1>1, <2>1
    <3>2. frame[q].op = "write"  BY <1>1, <2>1, <3>1 DEF Others
    <3> QED  BY <3>1, <3>2, Alone
  <2> QED  BY <2>1 DEF Writing
<1>8. Reading' <=> Reading  BY <1>1 DEF Reading, Others
<1>9. base' = base /\ base \in Int  BY <1>2, <1>4, <1>8 DEF base
<1>10. sent = base + unread + 1  BY <1>3 DEF ByteInv, WriterOK
<1>11. WriterOK'
  <2>1. sent' = base' + unread' + 0  BY <1>2, <1>4, <1>6, <1>9, <1>10
  <2> QED  BY <1>7, <2>1 DEF WriterOK
<1>12. BufferOK'
  <2>1. ASSUME NEW k \in 0..unread PROVE p_buf[(p_rpos + k) % BY2PIPE] = base + k + 1
    <3>1. CASE k < unread
      <4>1. k \in 0..(unread - 1)  BY <1>4, <3>1
      <4> QED  BY <4>1 DEF ByteInv, BufferOK
    <3>2. CASE k = unread
      <4>1. (p_rpos + unread) % BY2PIPE = p_wpos % BY2PIPE  BY <1>4, PlaceOfLast DEF unread
      <4> QED  BY <1>4, <1>10, <3>2, <4>1
    <3> QED  BY <1>4, <3>1, <3>2
  <2>2. unread' - 1 = unread  BY <1>4, <1>6
  <2> QED  BY <1>2, <1>9, <2>1, <2>2 DEF BufferOK
<1>13. \A q \in Proc : RoomOK(q)'
  <2>1. RoomOK(p)'  BY <1>1 DEF RoomOK
  <2>2. ASSUME NEW q \in Proc, q # p PROVE RoomOK(q)'
    <3>1. pc'[q] = pc[q] /\ frame'[q] = frame[q]  BY <1>1, <2>2 DEF Others
    <3>2. frame[q].op # "write"  BY <2>2, Alone
    <3>3. unread' > 0  BY <1>4, <1>6
    <3> QED  BY <3>1, <3>2, <3>3 DEF RoomOK
  <2> QED  BY <2>1, <2>2
<1>14. unread' <= BY2PIPE  BY <1>4, <1>6
<1>15. \A i \in DOMAIN got' : got'[i] = i  BY <1>2 DEF ByteInv
<1> QED  BY <1>11, <1>12, <1>13, <1>14, <1>15 DEF ByteInv

\* Every other step leaves buffer and positions alone.
LEMMA ByteStep ==
    ASSUME OneOfEach, TypeOK, PlaceInv, ByteInv, [Next]_vars
    PROVE  ByteInv'
<1>1. CASE UNCHANGED vars \/ handle_int
  <2>1. UNCHANGED <<p_rpos, p_wpos, p_buf, sent, got, pc, frame>>
    BY <1>1 DEF vars, handle_int, shared
  <2>2. (Reading' <=> Reading) /\ (Writing' <=> Writing)  BY <2>1 DEF Reading, Writing
  <2>3. unread' = unread /\ base' = base  BY <2>1, <2>2 DEF unread, base
  <2>4. BufferOK' /\ WriterOK'  BY <2>1, <2>2, <2>3 DEF ByteInv, BufferOK, WriterOK
  <2>5. \A q \in Proc : RoomOK(q)'  BY <2>1, <2>3 DEF ByteInv, RoomOK
  <2> QED  BY <2>1, <2>3, <2>4, <2>5 DEF ByteInv
<1>2. ASSUME NEW p \in Proc, Bytes(p) PROVE ByteInv'
  <2>1. CASE bump(p)
    <3>1. frame[p].op \in {"read", "write"}
      BY <2>1 DEF bump, At, PlaceInv, PlaceOK
    <3> QED  BY <2>1, <3>1, BumpRead, BumpWrite
  <2> QED  BY <1>2, <2>1, LoopBytes, ReadBytes, WriteBytes DEF Bytes
<1>3. ASSUME NEW p \in Proc, Counts(p) \/ Remaps(p) \/ duppage(p) \/ fork_done(p) PROVE ByteInv'
  <2>1. step(p)  BY <1>3 DEF Counts, Remaps, step
  <2>2. Others(p) /\ Moves(p)  BY <2>1, MoveOf
  <2>3. UNCHANGED <<p_rpos, p_wpos, p_buf, sent, got>>
    BY <1>3 DEF Counts, Remaps, read_runs, read_fd_ref, read_pipe_ref, recheck, unmap_fd,
                unmap_data, map_data, map_fd, duppage, fork_done, shared
  <2>4. pc[p] \notin {"loop", "copy", "bump"}
    BY <1>3 DEF Counts, Remaps, read_runs, read_fd_ref, read_pipe_ref, recheck, unmap_fd,
                unmap_data, map_data, map_fd, duppage, fork_done, At
  <2>5. pc'[p] \notin {"copy", "bump"}  BY <2>2, <2>4 DEF Moves
  <2>6. RoomOK(p)'  BY <2>5 DEF RoomOK
  <2> QED  BY <2>2, <2>3, <2>4, <2>5, <2>6, QuietBytes
<1>4. ASSUME NEW p \in Proc, calls(p) PROVE ByteInv'
  <2>1. /\ UNCHANGED <<p_rpos, p_wpos, p_buf, sent, got>> /\ Others(p)
        /\ pc[p] = "user" /\ pc'[p] \notin {"copy", "bump"}
    <3>1. ASSUME NEW f \in Frame, NEW where \in Where, Begins(p, f, where), LegalBegin(p, f, where)
          PROVE  /\ UNCHANGED <<p_rpos, p_wpos, p_buf, sent, got>> /\ Others(p)
                 /\ pc[p] = "user" /\ pc'[p] \notin {"copy", "bump"}
      BY <3>1 DEF Begins, LegalBegin, shared, Others, TypeOK
    <3>2. ASSUME NEW child \in Proc, call_fork(p, child)
          PROVE  /\ UNCHANGED <<p_rpos, p_wpos, p_buf, sent, got>> /\ Others(p)
                 /\ pc[p] = "user" /\ pc'[p] \notin {"copy", "bump"}
      BY <3>2 DEF call_fork, At, Goto, Others, TypeOK
    <3> QED  BY <1>4, <3>1, <3>2, CallBegins
  <2>2. RoomOK(p)'  BY <2>1 DEF RoomOK
  <2> QED  BY <2>1, <2>2, QuietBytes
<1> QED
  BY <1>1, <1>2, <1>3, <1>4 DEF Next, step, Bytes, Counts, Remaps

\* What one process writes arrives at the one that reads, every byte once and in
\* order, for any size of the buffer, through any number of turns of the positions
\* and wherever the two are preempted.
THEOREM BytesArriveInOrder == OneOfEach /\ Spec => []BytesInOrder
<1> SUFFICES ASSUME OneOfEach PROVE Spec => []BytesInOrder
  OBVIOUS
<1>1. Spec => []IInv  BY InitIInv, Inductive, PTL DEF Spec
<1>2. Init => ByteInv
  <2> SUFFICES ASSUME Init PROVE ByteInv
    OBVIOUS
  <2>1. p_rpos = 0 /\ p_wpos = 0 /\ sent = 0 /\ got = <<>>  BY DEF Init
  <2>2. 0 \in 0..(PosMod - 1) /\ BY2PIPE \in Nat  BY Turns
  <2>3. unread = 0  BY <2>1, <2>2, UnreadMoves DEF unread
  <2>4. ~Reading /\ ~Writing  BY DEF Init, Reading, Writing
  <2>5. base = 0  BY <2>1, <2>4 DEF base
  <2>6. BufferOK /\ WriterOK  BY <2>1, <2>3, <2>4, <2>5 DEF BufferOK, WriterOK
  <2>7. \A p \in Proc : RoomOK(p)  BY DEF Init, RoomOK
  <2> QED  BY <2>1, <2>2, <2>3, <2>6, <2>7 DEF ByteInv
<1>3. IInv /\ ByteInv /\ [Next]_vars => ByteInv'
  BY ByteStep DEF IInv
<1>4. ByteInv => BytesInOrder
  BY DEF ByteInv, BytesInOrder, BufferOK, base, unread, Reading
<1> QED  BY <1>1, <1>2, <1>3, <1>4, PTL DEF Spec
===============================================================================
