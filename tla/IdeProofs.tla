------------------------------ MODULE IdeProofs ------------------------------
(***************************************************************************)
(* The driver of fs/ide.c with any number of servers, each on its own      *)
(* disk, whatever the size of the disks and of the transfers: it moves the *)
(* sectors asked for and writes no other, up to the first time that a turn *)
(* of one server begins in the middle of a turn of another.  That this     *)
(* happens with the two servers of init/init.c, and what it destroys, is   *)
(* shown by the run on MCIde.                                              *)
(***************************************************************************)
EXTENDS Ide, TLAPS

Sizes ==
    /\ NSECT \in Nat /\ MaxSecs \in Nat /\ DiskOf \in [Server -> Disk] /\ Blank \in Data
    /\ \A s, t \in Server : DiskOf[s] = DiskOf[t] => s = t

Steps == {"DEV_DISK_ID", "DEV_DISK_OFFSET", "DEV_DISK_BUFFER", "DEV_DISK_START_OPERATION",
          "DEV_DISK_STATUS"}

Job == [op : {"READ", "WRITE"}, diskno : Disk, secno : Nat, nsecs : 0..MaxSecs,
        off : 0..MaxSecs, buf : [1..MaxSecs -> Data]]

TypeOK ==
    /\ dev \in [id : Disk \cup {0}, offset : Nat, buffer : Data, status : BOOLEAN]
    /\ disk \in [Disk -> [Sector -> Data]]
    /\ job \in [Server -> Job]
    /\ pc \in [Server -> Steps \cup {"idle", "panic"}]

\* The registers hold what the system calls made so far have put there.
RegistersOK(s) ==
    /\ pc[s] \in Steps => job[s].off < job[s].nsecs
    /\ pc[s] \in Steps \ {"DEV_DISK_ID"} => dev.id = job[s].diskno
    /\ pc[s] \in Steps \ {"DEV_DISK_ID", "DEV_DISK_OFFSET"} => dev.offset = Target(s)
    /\ pc[s] = "DEV_DISK_START_OPERATION" /\ job[s].op = "WRITE" =>
          dev.buffer = job[s].buf[Cell(s)]

\* What the operation has done: the sector of this turn, in memory order.
ResultOK(s) ==
    /\ pc[s] = "DEV_DISK_STATUS" => (dev.status <=> Target(s) \in Sector)
    /\ pc[s] = "DEV_DISK_STATUS" /\ job[s].op = "WRITE" /\ Target(s) \in Sector =>
          disk[job[s].diskno][Target(s)] = job[s].buf[Cell(s)]
    /\ pc[s] = "DEV_DISK_STATUS" /\ job[s].op = "READ" /\ Target(s) \in Sector =>
          dev.buffer = disk[job[s].diskno][Target(s)]
    /\ pc[s] = "DEV_DISK_BUFFER" /\ job[s].op = "READ" =>
          Target(s) \in Sector /\ dev.buffer = disk[job[s].diskno][Target(s)]
    /\ pc[s] = "panic" => Target(s) \notin Sector

\* The turns that are over.
MovedOK(s) ==
    \A i \in 0..(job[s].off - 1) :
        /\ job[s].secno + i \in Sector
        /\ job[s].buf[i + 1] = disk[job[s].diskno][job[s].secno + i]

ServerOK(s) == RegistersOK(s) /\ ResultOK(s) /\ MovedOK(s)

\* While no two turns overlap: each server has its own disk, at most one of them is
\* in the middle of a turn, and the registers are those of its turn.
Good ==
    /\ TypeOK
    /\ \A s \in Server : job[s].diskno = DiskOf[s]
    /\ \A s, t \in Server : MidTurn(s) /\ MidTurn(t) => s = t
    /\ \A s \in Server : ServerOK(s)

IInv == overlapped \in BOOLEAN /\ (~overlapped => Good)

Alone(s) == \A t \in Server : t # s => ~MidTurn(t)

-------------------------------------------------------------------------------
\* A server at rest has moved nothing.
LEMMA InitIInv == ASSUME Sizes PROVE IdeInit => IInv
<1> SUFFICES ASSUME IdeInit PROVE IInv
  OBVIOUS
<1>1. PICK contents \in [Disk -> [Sector -> Data]] : IdeInitWith(contents)
  BY DEF IdeInit
<1>2. TypeOK
  BY <1>1 DEF IdeInitWith, TypeOK, Job, Sizes
<1>3. \A s \in Server : pc[s] = "idle" /\ job[s].off = 0 /\ job[s].diskno = DiskOf[s]
  BY <1>1 DEF IdeInitWith
<1>4. \A s \in Server : RegistersOK(s) /\ ResultOK(s) /\ MovedOK(s)
  <2> SUFFICES ASSUME NEW s \in Server PROVE RegistersOK(s) /\ ResultOK(s) /\ MovedOK(s)
    OBVIOUS
  <2>1. \A i \in 0..(job[s].off - 1) : FALSE
    BY <1>3
  <2> QED BY <1>3, <2>1 DEF RegistersOK, ResultOK, MovedOK, Steps
<1>5. overlapped = FALSE
  BY <1>1 DEF IdeInitWith
<1>6. Good
  BY <1>2, <1>3, <1>4 DEF Good, ServerOK, MidTurn
<1> QED BY <1>5, <1>6 DEF IInv

\* The numbers of one turn.
LEMMA TurnTypes ==
    ASSUME Sizes, TypeOK, NEW s \in Server
    PROVE  /\ job[s] \in Job /\ job[s].diskno \in Disk
           /\ job[s].secno \in Nat /\ job[s].off \in Nat /\ job[s].nsecs \in Nat
           /\ job[s].nsecs <= MaxSecs
           /\ job[s].buf \in [1..MaxSecs -> Data]
           /\ job[s].op \in {"READ", "WRITE"}
           /\ Target(s) \in Nat /\ Cell(s) \in Nat
           /\ job[s].off < job[s].nsecs => Cell(s) \in 1..MaxSecs
<1>1. job[s] \in Job
  BY DEF TypeOK
<1>2. /\ job[s].secno \in Nat /\ job[s].off \in 0..MaxSecs /\ job[s].nsecs \in 0..MaxSecs
      /\ job[s].diskno \in Disk /\ job[s].buf \in [1..MaxSecs -> Data]
      /\ job[s].op \in {"READ", "WRITE"}
  BY <1>1 DEF Job
<1>3. MaxSecs \in Nat
  BY DEF Sizes
<1> QED BY <1>1, <1>2, <1>3 DEF Target, Cell

\* A server that is not in the middle of a turn does not notice the registers, nor
\* what happens on the disk of another.
LEMMA OtherServer ==
    ASSUME NEW t \in Server, ServerOK(t), ~MidTurn(t), pc[t] \in Steps \cup {"idle", "panic"},
           job'[t] = job[t], pc'[t] = pc[t], disk'[job[t].diskno] = disk[job[t].diskno]
    PROVE  ServerOK(t)' /\ ~MidTurn(t)'
<1>1. pc[t] \in {"idle", "panic", "DEV_DISK_ID"} /\ ~MidTurn(t)'
  BY DEF MidTurn
<1>2. Target(t)' = Target(t)
  BY DEF Target
<1>3. RegistersOK(t)' /\ ResultOK(t)'
  BY <1>1, <1>2 DEF ServerOK, RegistersOK, ResultOK, Steps, Sector
<1>4. MovedOK(t)'
  BY DEF ServerOK, MovedOK, Sector
<1> QED BY <1>1, <1>3, <1>4 DEF ServerOK

\* So the step of a server that is alone with the device keeps Good if it keeps its
\* own part of it.
LEMMA AloneGood ==
    ASSUME Sizes, Good, NEW s \in Server, Alone(s), TypeOK', ServerOK(s)',
           job'[s].diskno = job[s].diskno,
           \A t \in Server : t # s => /\ job'[t] = job[t] /\ pc'[t] = pc[t]
                                     /\ disk'[job[t].diskno] = disk[job[t].diskno]
    PROVE  Good'
<1>1. \A t \in Server : t # s => ServerOK(t)' /\ ~MidTurn(t)'
  <2> SUFFICES ASSUME NEW t \in Server, t # s PROVE ServerOK(t)' /\ ~MidTurn(t)'
    OBVIOUS
  <2>1. ServerOK(t) /\ ~MidTurn(t) /\ pc[t] \in Steps \cup {"idle", "panic"}
    BY DEF Good, Alone, TypeOK
  <2> QED BY <2>1, OtherServer
<1>2. \A t \in Server : job'[t].diskno = DiskOf[t]
  BY DEF Good
<1>3. \A t \in Server : ServerOK(t)'
  BY <1>1
<1>4. \A t, u \in Server : MidTurn(t)' /\ MidTurn(u)' => t = u
  BY <1>1
<1> QED BY <1>2, <1>3, <1>4 DEF Good

\* ide_read and ide_write begin at the first sector.
LEMMA CallIInv ==
    ASSUME Sizes, Good, NEW s \in Server, NEW secno \in Sector, NEW n \in 1..MaxSecs,
           \/ ide_read(s, secno, n)
           \/ \E src \in [1..MaxSecs -> Data] : ide_write(s, secno, n, src)
    PROVE  Good'
<1>1. TypeOK /\ ServerOK(s)
  BY DEF Good
<1>2. NSECT \in Nat /\ MaxSecs \in Nat /\ secno \in Nat /\ n \in 0..MaxSecs /\ n > 0
  BY DEF Sizes, Sector
<1>3. PICK op \in {"READ", "WRITE"}, buf \in [1..MaxSecs -> Data] :
         job' = [job EXCEPT ![s] = [op |-> op, diskno |-> job[s].diskno, secno |-> secno,
                                    nsecs |-> n, off |-> 0, buf |-> buf]]
  <2>1. job[s] \in Job /\ job \in [Server -> Job]
    BY <1>1 DEF TypeOK
  <2>2. CASE ide_read(s, secno, n)
    <3>1. job' = [job EXCEPT ![s] = [op |-> "READ", diskno |-> job[s].diskno, secno |-> secno,
                                     nsecs |-> n, off |-> 0, buf |-> job[s].buf]]
      <4>1. PICK r : r = [job[s] EXCEPT !.op = "READ", !.secno = secno, !.nsecs = n, !.off = 0]
        OBVIOUS
      <4>2. job' = [job EXCEPT ![s] = r]
        BY <2>1, <2>2, <4>1 DEF ide_read
      <4>3. r = [op |-> "READ", diskno |-> job[s].diskno, secno |-> secno,
                 nsecs |-> n, off |-> 0, buf |-> job[s].buf]
        BY <2>1, <4>1 DEF Job
      <4> QED BY <4>2, <4>3
    <3>2. job[s].buf \in [1..MaxSecs -> Data]
      BY <2>1 DEF Job
    <3> QED BY <3>1, <3>2
  <2>3. ASSUME NEW src \in [1..MaxSecs -> Data], ide_write(s, secno, n, src)
        PROVE  job' = [job EXCEPT ![s] = [op |-> "WRITE", diskno |-> job[s].diskno, secno |-> secno,
                                          nsecs |-> n, off |-> 0, buf |-> src]]
    <3>1. PICK r : r = [job[s] EXCEPT !.op = "WRITE", !.secno = secno, !.nsecs = n, !.off = 0,
                                      !.buf = src]
      OBVIOUS
    <3>2. job' = [job EXCEPT ![s] = r]
      BY <2>1, <2>3, <3>1 DEF ide_write
    <3>3. r = [op |-> "WRITE", diskno |-> job[s].diskno, secno |-> secno,
               nsecs |-> n, off |-> 0, buf |-> src]
      BY <2>1, <3>1 DEF Job
    <3> QED BY <3>2, <3>3
  <2> QED BY <2>2, <2>3
<1>4. UNCHANGED <<dev, disk>> /\ pc' = [pc EXCEPT ![s] = "DEV_DISK_ID"]
  BY DEF ide_read, ide_write, Goto
<1>5. /\ job[s].diskno \in Disk /\ job' \in [Server -> Job]
      /\ job'[s].off = 0 /\ job'[s].nsecs = n /\ job'[s].diskno = job[s].diskno
  <2>1. job \in [Server -> Job] /\ job[s].diskno \in Disk
    BY <1>1, TurnTypes DEF TypeOK
  <2>2. PICK r : r = [op |-> op, diskno |-> job[s].diskno, secno |-> secno,
                      nsecs |-> n, off |-> 0, buf |-> buf]
    OBVIOUS
  <2>3. r \in Job /\ r.off = 0 /\ r.nsecs = n /\ r.diskno = job[s].diskno
    BY <1>2, <1>3, <2>1, <2>2 DEF Job
  <2>4. job' = [job EXCEPT ![s] = r]
    BY <1>3, <2>2
  <2> QED BY <2>1, <2>3, <2>4
<1>6. TypeOK'
  BY <1>1, <1>4, <1>5 DEF TypeOK, Steps
<1>7. pc'[s] = "DEV_DISK_ID"
  BY <1>1, <1>4 DEF TypeOK
<1>8. RegistersOK(s)' /\ ResultOK(s)' /\ MovedOK(s)'
  BY <1>2, <1>5, <1>7 DEF RegistersOK, ResultOK, MovedOK, Steps
<1>9. \A t \in Server : t # s => job'[t] = job[t] /\ pc'[t] = pc[t]
  BY <1>1, <1>3, <1>4 DEF TypeOK
<1>10. ~MidTurn(s)' /\ \A t \in Server : t # s => MidTurn(t)' = MidTurn(t)
  BY <1>7, <1>9 DEF MidTurn
<1>11. \A t \in Server : t # s => ServerOK(t)'
  <2> SUFFICES ASSUME NEW t \in Server, t # s PROVE ServerOK(t)'
    OBVIOUS
  <2>1. ServerOK(t) /\ job'[t] = job[t] /\ pc'[t] = pc[t] /\ dev' = dev /\ disk' = disk
    BY <1>4, <1>9 DEF Good
  <2> QED BY <2>1 DEF ServerOK, RegistersOK, ResultOK, MovedOK, Target, Cell, Sector
<1>12. \A t \in Server : job'[t].diskno = DiskOf[t]
  BY <1>5, <1>9 DEF Good
<1>13. \A t, u \in Server : MidTurn(t)' /\ MidTurn(u)' => t = u
  BY <1>10 DEF Good
<1>14. \A t \in Server : ServerOK(t)'
  BY <1>8, <1>11 DEF ServerOK
<1> QED BY <1>6, <1>12, <1>13, <1>14 DEF Good

\* A system call that changes only registers and pc keeps the turns that are over.
LEMMA SameMoved ==
    ASSUME NEW s \in Server, MovedOK(s), UNCHANGED <<disk, job>>
    PROVE  MovedOK(s)'
BY DEF MovedOK

\* The registers are set up in order.
LEMMA SetUpIInv ==
    ASSUME Sizes, Good, NEW s \in Server, Alone(s),
           write_id(s) \/ write_offset(s) \/ write_buffer(s)
    PROVE  Good'
<1>1. /\ TypeOK
      /\ RegistersOK(s) /\ ResultOK(s) /\ MovedOK(s)
  BY DEF Good, ServerOK
<1>2. /\ job[s].diskno \in Disk /\ Target(s) \in Nat /\ Cell(s) \in Nat
      /\ job[s].buf \in [1..MaxSecs -> Data]
      /\ job[s].op \in {"READ", "WRITE"}
      /\ job[s].off < job[s].nsecs => Cell(s) \in 1..MaxSecs
  BY <1>1, TurnTypes
<1>3. UNCHANGED <<disk, job>> /\ Target(s)' = Target(s) /\ Cell(s)' = Cell(s)
  BY DEF write_id, write_offset, write_buffer, Target, Cell
<1>4. MovedOK(s)'
  BY <1>1, <1>3, SameMoved
<1>0. /\ job'[s].diskno = job[s].diskno
      /\ \A t \in Server : t # s => /\ job'[t] = job[t] /\ pc'[t] = pc[t]
                                    /\ disk'[job[t].diskno] = disk[job[t].diskno]
  BY <1>1, <1>3 DEF TypeOK, write_id, write_offset, write_buffer, Goto
<1>5. CASE write_id(s)
  <2>1. /\ pc[s] = "DEV_DISK_ID" /\ pc' = [pc EXCEPT ![s] = "DEV_DISK_OFFSET"]
        /\ dev' = [dev EXCEPT !.id = job[s].diskno]
    BY <1>5 DEF write_id, Goto
  <2>2. TypeOK' /\ pc'[s] = "DEV_DISK_OFFSET" /\ dev'.id = job[s].diskno
    BY <1>1, <1>2, <1>3, <2>1 DEF TypeOK, Steps
  <2>3. RegistersOK(s)' /\ ResultOK(s)'
    BY <1>1, <1>3, <2>1, <2>2 DEF RegistersOK, ResultOK, Steps
  <2> QED BY <1>1, <1>4, <2>2, <2>3, <1>0, AloneGood DEF ServerOK
<1>6. CASE write_offset(s)
  <2>1. /\ pc[s] = "DEV_DISK_OFFSET"
        /\ pc' = [pc EXCEPT ![s] = IF job[s].op = "READ" THEN "DEV_DISK_START_OPERATION"
                                   ELSE "DEV_DISK_BUFFER"]
        /\ dev' = [dev EXCEPT !.offset = Target(s)]
    BY <1>6 DEF write_offset, Goto
  <2>2. /\ TypeOK' /\ dev'.id = dev.id /\ dev'.offset = Target(s)
        /\ pc'[s] = IF job[s].op = "READ" THEN "DEV_DISK_START_OPERATION" ELSE "DEV_DISK_BUFFER"
    BY <1>1, <1>2, <1>3, <2>1 DEF TypeOK, Steps
  <2>3. RegistersOK(s)' /\ ResultOK(s)'
    BY <1>1, <1>2, <1>3, <2>1, <2>2 DEF RegistersOK, ResultOK, Steps
  <2> QED BY <1>1, <1>4, <2>2, <2>3, <1>0, AloneGood DEF ServerOK
<1>7. CASE write_buffer(s)
  <2>1. /\ pc[s] = "DEV_DISK_BUFFER" /\ job[s].op = "WRITE"
        /\ pc' = [pc EXCEPT ![s] = "DEV_DISK_START_OPERATION"]
        /\ dev' = [dev EXCEPT !.buffer = job[s].buf[Cell(s)]]
    BY <1>7 DEF write_buffer, Goto
  <2>2. Cell(s) \in 1..MaxSecs /\ job[s].buf[Cell(s)] \in Data
    BY <1>1, <1>2, <2>1 DEF RegistersOK, Steps
  <2>3. /\ TypeOK' /\ dev'.id = dev.id /\ dev'.offset = dev.offset
        /\ dev'.buffer = job[s].buf[Cell(s)]
        /\ pc'[s] = "DEV_DISK_START_OPERATION"
    BY <1>1, <1>3, <2>1, <2>2 DEF TypeOK, Steps
  <2>4. RegistersOK(s)' /\ ResultOK(s)'
    BY <1>1, <1>3, <2>1, <2>3 DEF RegistersOK, ResultOK, Steps
  <2> QED BY <1>1, <1>4, <2>3, <2>4, <1>0, AloneGood DEF ServerOK
<1> QED BY <1>5, <1>6, <1>7

\* The device moves the sector of this turn and leaves the others.
LEMMA OperateIInv ==
    ASSUME Sizes, Good, NEW s \in Server, Alone(s), write_operation(s)
    PROVE  /\ Good'
           /\ disk' # disk =>
                 /\ job[s].op = "WRITE"
                 /\ disk' = [disk EXCEPT ![job[s].diskno][Target(s)] = job[s].buf[Cell(s)]]
<1>1. /\ TypeOK
      /\ RegistersOK(s) /\ MovedOK(s)
  BY DEF Good, ServerOK
<1>2. /\ job[s].diskno \in Disk /\ Target(s) \in Nat /\ Cell(s) \in Nat
      /\ job[s].off \in Nat /\ job[s].secno \in Nat
      /\ job[s].buf \in [1..MaxSecs -> Data]
      /\ job[s].op \in {"READ", "WRITE"}
  BY <1>1, TurnTypes
<1>3. /\ pc[s] = "DEV_DISK_START_OPERATION" /\ operate(job[s].op)
      /\ job' = job /\ pc' = [pc EXCEPT ![s] = "DEV_DISK_STATUS"]
      /\ Target(s)' = Target(s) /\ Cell(s)' = Cell(s)
  BY DEF write_operation, Goto, Target, Cell
<1>4. /\ dev.id = job[s].diskno /\ dev.offset = Target(s) /\ job[s].off < job[s].nsecs
      /\ job[s].op = "WRITE" => dev.buffer = job[s].buf[Cell(s)]
  BY <1>1, <1>3 DEF RegistersOK, Steps
<1>5. pc'[s] = "DEV_DISK_STATUS" /\ pc' \in [Server -> Steps \cup {"idle", "panic"}]
  BY <1>1, <1>3 DEF TypeOK, Steps
<1>9. /\ job'[s].diskno = job[s].diskno
      /\ \A t \in Server : t # s => job'[t] = job[t] /\ pc'[t] = pc[t]
  BY <1>1, <1>3 DEF TypeOK
<1>6. CASE Target(s) \notin Sector
  <2>1. dev' = [dev EXCEPT !.status = FALSE] /\ disk' = disk
    BY <1>3, <1>4, <1>6 DEF operate
  <2>2. TypeOK' /\ dev'.id = dev.id /\ dev'.offset = dev.offset /\ dev'.status = FALSE
    BY <1>1, <1>3, <1>5, <2>1 DEF TypeOK
  <2>3. RegistersOK(s)' /\ ResultOK(s)'
    BY <1>3, <1>4, <1>5, <1>6, <2>1, <2>2 DEF RegistersOK, ResultOK, Sector
  <2>4. MovedOK(s)'
    BY <1>1, <1>3, <2>1, SameMoved
  <2> QED BY <1>1, <1>9, <2>1, <2>2, <2>3, <2>4, AloneGood DEF ServerOK
<1>7. CASE Target(s) \in Sector /\ job[s].op = "READ"
  <2>1. /\ dev' = [dev EXCEPT !.status = TRUE, !.buffer = disk[job[s].diskno][Target(s)]]
        /\ disk' = disk
    BY <1>3, <1>4, <1>7 DEF operate
  <2>2. disk[job[s].diskno][Target(s)] \in Data
    BY <1>1, <1>2, <1>7 DEF TypeOK
  <2>3. /\ TypeOK' /\ dev'.id = dev.id /\ dev'.offset = dev.offset /\ dev'.status = TRUE
        /\ dev'.buffer = disk[job[s].diskno][Target(s)]
    BY <1>1, <1>3, <1>5, <2>1, <2>2 DEF TypeOK
  <2>4. RegistersOK(s)' /\ ResultOK(s)'
    BY <1>3, <1>4, <1>5, <1>7, <2>1, <2>3 DEF RegistersOK, ResultOK, Sector
  <2>5. MovedOK(s)'
    BY <1>1, <1>3, <2>1, SameMoved
  <2> QED BY <1>1, <1>9, <2>1, <2>3, <2>4, <2>5, AloneGood DEF ServerOK
<1>8. CASE Target(s) \in Sector /\ job[s].op = "WRITE"
  <2>1. /\ dev' = [dev EXCEPT !.status = TRUE]
        /\ disk' = [disk EXCEPT ![job[s].diskno][Target(s)] = job[s].buf[Cell(s)]]
    BY <1>3, <1>4, <1>8 DEF operate
  <2>2. job[s].buf[Cell(s)] \in Data
    BY <1>1, <1>4, <1>8 DEF TypeOK
  <2>3. /\ TypeOK' /\ dev'.id = dev.id /\ dev'.offset = dev.offset /\ dev'.status = TRUE
    <3>1. disk' \in [Disk -> [Sector -> Data]]
      BY <1>1, <1>2, <1>8, <2>1, <2>2 DEF TypeOK
    <3> QED BY <1>1, <1>3, <1>5, <2>1, <3>1 DEF TypeOK
  <2>4. /\ disk'[job[s].diskno][Target(s)] = job[s].buf[Cell(s)]
        /\ \A x \in Sector : x # Target(s) => disk'[job[s].diskno][x] = disk[job[s].diskno][x]
    BY <1>1, <1>2, <1>8, <2>1 DEF TypeOK
  <2>5. RegistersOK(s)' /\ ResultOK(s)'
    BY <1>3, <1>4, <1>5, <1>8, <2>3, <2>4 DEF RegistersOK, ResultOK, Sector
  <2>6. MovedOK(s)'
    <3>1. \A i \in 0..(job[s].off - 1) : job[s].secno + i # Target(s)
      BY <1>2 DEF Target
    <3>2. \A i \in 0..(job[s].off - 1) :
             /\ job[s].secno + i \in Sector
             /\ job[s].buf[i + 1] = disk'[job[s].diskno][job[s].secno + i]
      BY <1>1, <2>4, <3>1 DEF MovedOK
    <3> QED BY <1>3, <3>2 DEF MovedOK, Sector
  <2>7. \A t \in Server : t # s => disk'[job[t].diskno] = disk[job[t].diskno]
    <3>1. \A t \in Server : t # s => job[t].diskno # job[s].diskno
      BY DEF Good, Sizes
    <3>2. \A d \in Disk : d # job[s].diskno => disk'[d] = disk[d]
      BY <1>1, <1>2, <2>1 DEF TypeOK
    <3>3. \A t \in Server : job[t].diskno \in Disk
      BY <1>1, TurnTypes
    <3> QED BY <3>1, <3>2, <3>3
  <2>8. Good'
    BY <1>1, <1>9, <2>3, <2>5, <2>6, <2>7, AloneGood DEF ServerOK
  <2> QED BY <1>8, <2>1, <2>8
<1> QED BY <1>2, <1>6, <1>7, <1>8

\* A turn ends with its sector moved.
LEMMA TurnIInv ==
    ASSUME Sizes, Good, NEW s \in Server, Alone(s), NEW buf \in [1..MaxSecs -> Data],
           job[s].off < job[s].nsecs, Target(s) \in Sector,
           \A i \in 0..(job[s].off - 1) : buf[i + 1] = job[s].buf[i + 1],
           buf[Cell(s)] = disk[job[s].diskno][Target(s)],
           NextTurn(s, buf), UNCHANGED <<dev, disk>>
    PROVE  Good'
<1>1. /\ TypeOK
      /\ RegistersOK(s) /\ MovedOK(s)
  BY DEF Good, ServerOK
<1>2. /\ job[s] \in Job /\ job \in [Server -> Job] /\ job[s].diskno \in Disk
      /\ job[s].off \in Nat /\ job[s].secno \in Nat /\ job[s].nsecs \in Nat
      /\ job[s].nsecs <= MaxSecs
  BY <1>1, TurnTypes DEF TypeOK
<1>3. PICK r : r = [job[s] EXCEPT !.off = @ + 1, !.buf = buf]
  OBVIOUS
<1>4. job[s].off + 1 \in 0..MaxSecs
  BY <1>2 DEF Sizes
<1>5. /\ r \in Job /\ r.off = job[s].off + 1 /\ r.buf = buf /\ r.secno = job[s].secno
      /\ r.nsecs = job[s].nsecs /\ r.diskno = job[s].diskno /\ r.op = job[s].op
  BY <1>2, <1>3, <1>4 DEF Job
<1>6. job' = [job EXCEPT ![s] = r]
  BY <1>2, <1>3 DEF NextTurn
<1>7. job' \in [Server -> Job] /\ job'[s] = r
  BY <1>2, <1>5, <1>6
<1>8. /\ pc' \in [Server -> Steps \cup {"idle", "panic"}]
      /\ pc'[s] = IF job[s].off + 1 < job[s].nsecs THEN "DEV_DISK_ID" ELSE "idle"
  BY <1>1 DEF NextTurn, Goto, TypeOK, Steps
<1>0. /\ job'[s].diskno = job[s].diskno
      /\ \A t \in Server : t # s => /\ job'[t] = job[t] /\ pc'[t] = pc[t]
                                    /\ disk'[job[t].diskno] = disk[job[t].diskno]
  BY <1>1, <1>2, <1>5, <1>6, <1>7 DEF TypeOK, NextTurn, Goto
<1>9. TypeOK'
  BY <1>1, <1>7, <1>8 DEF TypeOK
<1>10. RegistersOK(s)' /\ ResultOK(s)'
  BY <1>5, <1>7, <1>8 DEF RegistersOK, ResultOK, Steps
<1>11. MovedOK(s)'
  <2>1. \A i \in 0..job[s].off :
           /\ job[s].secno + i \in Sector
           /\ buf[i + 1] = disk[job[s].diskno][job[s].secno + i]
    <3>1. SUFFICES ASSUME NEW i \in 0..job[s].off
                   PROVE  /\ job[s].secno + i \in Sector
                          /\ buf[i + 1] = disk[job[s].diskno][job[s].secno + i]
      OBVIOUS
    <3>2. CASE i = job[s].off
      BY <3>2 DEF Target, Cell
    <3>3. CASE i \in 0..(job[s].off - 1)
      BY <1>1, <3>3 DEF MovedOK
    <3> QED BY <1>2, <3>2, <3>3
  <2>2. 0..(job'[s].off - 1) = 0..job[s].off
    BY <1>2, <1>5, <1>7
  <2>3. \A i \in 0..(job'[s].off - 1) :
           /\ job'[s].secno + i \in Sector
           /\ job'[s].buf[i + 1] = disk'[job'[s].diskno][job'[s].secno + i]
    BY <1>5, <1>7, <2>1, <2>2
  <2> QED BY <2>3 DEF MovedOK, Sector
<1> QED BY <1>1, <1>9, <1>10, <1>11, <1>0, AloneGood DEF ServerOK

\* The status decides between panic, the rest of a read and the next turn.
LEMMA StatusIInv ==
    ASSUME Sizes, Good, NEW s \in Server, Alone(s), read_status(s)
    PROVE  Good'
<1>1. /\ TypeOK
      /\ RegistersOK(s) /\ ResultOK(s) /\ MovedOK(s)
  BY DEF Good, ServerOK
<1>2. pc[s] = "DEV_DISK_STATUS" /\ UNCHANGED <<dev, disk>> /\ job[s].off < job[s].nsecs
  BY <1>1 DEF read_status, RegistersOK, Steps
<1>3. (dev.status <=> Target(s) \in Sector) /\ dev.status \in BOOLEAN /\ job[s].op \in {"READ", "WRITE"}
  BY <1>1, <1>2, TurnTypes DEF ResultOK, TypeOK
<1>4. CASE dev.status /\ job[s].op = "WRITE"
  <2>1. NextTurn(s, job[s].buf)
    BY <1>4 DEF read_status
  <2>2. job[s].buf \in [1..MaxSecs -> Data]
    BY <1>1, TurnTypes
  <2>3. job[s].buf[Cell(s)] = disk[job[s].diskno][Target(s)]
    BY <1>1, <1>2, <1>3, <1>4 DEF ResultOK
  <2> QED BY <1>2, <1>3, <1>4, <2>1, <2>2, <2>3, TurnIInv
<1>5. CASE ~(dev.status /\ job[s].op = "WRITE")
  <2>1. /\ job' = job
        /\ pc' = [pc EXCEPT ![s] = IF dev.status THEN "DEV_DISK_BUFFER" ELSE "panic"]
    BY <1>3, <1>5 DEF read_status, Goto
  <2>2. TypeOK' /\ pc'[s] = IF dev.status THEN "DEV_DISK_BUFFER" ELSE "panic"
    BY <1>1, <1>2, <2>1 DEF TypeOK, Steps
  <2>3. Target(s)' = Target(s) /\ Cell(s)' = Cell(s)
    BY <2>1 DEF Target, Cell
  <2>4. RegistersOK(s)' /\ ResultOK(s)'
    BY <1>1, <1>2, <1>3, <1>5, <2>1, <2>2, <2>3 DEF RegistersOK, ResultOK, Steps, Sector
  <2>5. MovedOK(s)'
    BY <1>1, <1>2, <2>1, SameMoved
  <2>6. /\ job'[s].diskno = job[s].diskno
        /\ \A t \in Server : t # s => /\ job'[t] = job[t] /\ pc'[t] = pc[t]
                                      /\ disk'[job[t].diskno] = disk[job[t].diskno]
    BY <1>1, <1>2, <2>1 DEF TypeOK
  <2> QED BY <1>1, <2>2, <2>4, <2>5, <2>6, AloneGood DEF ServerOK
<1> QED BY <1>4, <1>5

\* A read puts the buffer of the device into memory.
LEMMA BufferIInv ==
    ASSUME Sizes, Good, NEW s \in Server, Alone(s), read_buffer(s)
    PROVE  Good'
<1>1. TypeOK /\ RegistersOK(s) /\ ResultOK(s)
  BY DEF Good, ServerOK
<1>2. /\ pc[s] = "DEV_DISK_BUFFER" /\ job[s].op = "READ" /\ UNCHANGED <<dev, disk>>
      /\ job[s].off < job[s].nsecs
  BY <1>1 DEF read_buffer, RegistersOK, Steps
<1>3. /\ job[s].buf \in [1..MaxSecs -> Data] /\ Cell(s) \in 1..MaxSecs /\ job[s].off \in Nat
      /\ job[s].nsecs \in Nat /\ job[s].nsecs <= MaxSecs /\ dev.buffer \in Data
  BY <1>1, <1>2, TurnTypes DEF TypeOK
<1>4. PICK buf : buf = [job[s].buf EXCEPT ![Cell(s)] = dev.buffer]
  OBVIOUS
<1>5. buf \in [1..MaxSecs -> Data] /\ buf[Cell(s)] = dev.buffer
  BY <1>3, <1>4
<1>6. \A i \in 0..(job[s].off - 1) : buf[i + 1] = job[s].buf[i + 1]
  <2>1. \A i \in 0..(job[s].off - 1) : i + 1 \in 1..MaxSecs /\ i + 1 # Cell(s)
    BY <1>2, <1>3 DEF Cell, Sizes
  <2> QED BY <1>3, <1>4, <2>1
<1>7. Target(s) \in Sector /\ buf[Cell(s)] = disk[job[s].diskno][Target(s)]
  BY <1>1, <1>2, <1>5 DEF ResultOK
<1>8. NextTurn(s, buf)
  BY <1>4 DEF read_buffer
<1> QED BY <1>2, <1>5, <1>6, <1>7, <1>8, TurnIInv

\* Every system call of a server that is alone with the device, and every call of the
\* driver, keeps Good.
LEMMA StepGood ==
    ASSUME Sizes, Good, NEW s \in Server, IdeCall(s) \/ (Alone(s) /\ IdeStep(s))
    PROVE  Good'
<1>1. CASE IdeCall(s)
  BY <1>1, CallIInv DEF IdeCall
<1>2. CASE Alone(s) /\ (write_id(s) \/ write_offset(s) \/ write_buffer(s))
  BY <1>2, SetUpIInv
<1>3. CASE Alone(s) /\ write_operation(s)
  BY <1>3, OperateIInv
<1>4. CASE Alone(s) /\ (read_status(s) \/ read_buffer(s))
  BY <1>4, StatusIInv, BufferIInv
<1> QED BY <1>1, <1>2, <1>3, <1>4 DEF IdeStep

\* A turn is begun by write_id, which notes an overlap; so without one the server that
\* goes on with a turn is the only one in the middle of one.
LEMMA SerialAlone ==
    ASSUME IInv, NEW s \in Server, IdeStep(s), ~overlapped'
    PROVE  ~overlapped /\ Good /\ Alone(s)
<1>1. CASE write_id(s)
  <2>1. overlapped' = (overlapped \/ \E t \in Server : MidTurn(t))
    BY <1>1 DEF write_id
  <2> QED BY <2>1 DEF IInv, Alone
<1>2. CASE ~write_id(s)
  <2>1. overlapped' = overlapped /\ MidTurn(s)
    BY <1>2 DEF IdeStep, write_offset, write_buffer, write_operation, read_status, read_buffer,
                MidTurn
  <2>2. ~overlapped /\ Good
    BY <2>1 DEF IInv
  <2> QED BY <2>1, <2>2 DEF Good, Alone
<1> QED BY <1>1, <1>2

\* Every system call of the driver keeps the invariant.
LEMMA NextIInv ==
    ASSUME Sizes, IInv, [IdeNext]_ide_vars
    PROVE  IInv'
<1>1. CASE UNCHANGED ide_vars
  <2>1. Good => Good'
    BY <1>1 DEF ide_vars, Good, ServerOK, TypeOK, RegistersOK, ResultOK, MovedOK, MidTurn,
                Target, Cell, Sector
  <2> QED BY <1>1, <2>1 DEF IInv, ide_vars
<1>2. ASSUME NEW s \in Server, IdeCall(s)
      PROVE  IInv'
  <2>1. overlapped' = overlapped
    BY <1>2 DEF IdeCall, ide_read, ide_write
  <2> QED BY <1>2, <2>1, StepGood DEF IInv
<1>3. ASSUME NEW s \in Server, IdeStep(s)
      PROVE  IInv'
  <2>1. overlapped' \in BOOLEAN
    <3>1. CASE write_id(s)
      BY <3>1 DEF write_id
    <3>2. CASE ~write_id(s)
      BY <1>3, <3>2 DEF IInv, IdeStep, write_offset, write_buffer, write_operation, read_status,
                        read_buffer
    <3> QED BY <3>1, <3>2
  <2>2. ASSUME ~overlapped' PROVE Good'
    BY <1>3, <2>2, SerialAlone, StepGood
  <2> QED BY <2>1, <2>2 DEF IInv
<1> QED BY <1>1, <1>2, <1>3 DEF IdeNext

\* The invariant holds always.
THEOREM SpecIInv == ASSUME Sizes PROVE IdeSpec => []IInv
<1>1. IdeInit => IInv
  BY InitIInv
<1>2. IInv /\ [IdeNext]_ide_vars => IInv'
  BY NextIInv
<1> QED BY <1>1, <1>2, PTL DEF IdeSpec

\* ide.c:10 and :49: servers that take turns on the device, in any order, move the
\* sectors they asked for, all of them and in their order, in both directions, and
\* panic only on a sector that does not exist; up to the first overlap of two turns.
THEOREM DriverTransfers == ASSUME Sizes PROVE IdeSpec => []TransfersTheSectors
<1>1. IInv => TransfersTheSectors
  BY DEF IInv, Good, ServerOK, ResultOK, MovedOK, TransfersTheSectors, Target
<1> QED BY <1>1, SpecIInv, PTL

\* ide.c:49: up to the first overlap of two turns a write changes the sector of its
\* turn, with its data, and no sector of any disk besides: the overlap is the only way
\* in which one goes astray.
THEOREM DriverWritesOnlyTheSector == ASSUME Sizes PROVE IdeSpec => SerialWritesOnlyTheSector
<1>1. IInv /\ [IdeNext]_ide_vars => [~overlapped => OnlyTheSector]_ide_vars
  <2> SUFFICES ASSUME IInv, IdeNext, ~overlapped, disk' # disk PROVE OnlyTheSector
    BY DEF OnlyTheSector
  <2>1. PICK s \in Server : write_operation(s)
    <3>1. ASSUME NEW s \in Server
          PROVE  /\ write_id(s) \/ write_offset(s) \/ write_buffer(s) => disk' = disk
                 /\ read_status(s) \/ read_buffer(s) => disk' = disk
      BY DEF write_id, write_offset, write_buffer, read_status, read_buffer
    <3>2. ASSUME NEW s \in Server, NEW secno, NEW n, NEW src
          PROVE  ide_read(s, secno, n) \/ ide_write(s, secno, n, src) => disk' = disk
      BY DEF ide_read, ide_write
    <3> QED BY <3>1, <3>2 DEF IdeNext, IdeCall, IdeStep
  <2>2. ~overlapped' /\ IdeStep(s)
    BY <2>1 DEF write_operation, IdeStep
  <2>3. Good /\ Alone(s)
    BY <2>2, SerialAlone
  <2>4. /\ job[s].op = "WRITE"
        /\ disk' = [disk EXCEPT ![job[s].diskno][Target(s)] = job[s].buf[Cell(s)]]
    BY <2>1, <2>3, OperateIInv
  <2> QED BY <2>4 DEF OnlyTheSector, Target, Cell
<1> QED BY <1>1, SpecIInv, PTL DEF IdeSpec, SerialWritesOnlyTheSector
===============================================================================
