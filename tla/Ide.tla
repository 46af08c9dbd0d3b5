--------------------------------- MODULE Ide ---------------------------------
(***************************************************************************)
(* The disk driver of the file system servers, fs/ide.c, with the system   *)
(* calls sys_write_dev and sys_read_dev it is made of.                     *)
(*                                                                         *)
(* The driver runs in user mode and may be preempted between two system    *)
(* calls; each call copies a register or a whole sector with interrupts    *)
(* off and is one step.  The device has one set of registers and one       *)
(* sector buffer for all disks.  init/init.c starts two servers, fs_serv   *)
(* on disk 0 and fs_fatserv on disk 1, each a single thread.               *)
(*                                                                         *)
(* The contents of a sector are a member of Data.                          *)
(***************************************************************************)
EXTENDS Integers, Sequences

CONSTANTS
    Server,      \* the environments that drive the device
    DiskOf,      \* the diskno each of them passes
    Disk,        \* disks attached
    NSECT,       \* sectors of a disk
    MaxSecs,     \* bound on nsecs
    Data,        \* contents of a sector
    Blank        \* contents of the device buffer at reset

VARIABLES
    dev,      \* [id, offset, buffer, status] registers of the device
    disk,     \* contents of the disks
    job,      \* the call of ide_read or ide_write of a server
    pc,       \* the next system call of that call
    overlapped  \* history: a turn of one server has begun in the middle of another's

ide_vars == <<dev, disk, job, pc, overlapped>>

Sector == 0..(NSECT - 1)

\* A job: diskno, secno, nsecs and the memory at dst or src, a sector per element;
\* off counts the sectors done.
IdeInitWith(contents) ==
    /\ dev = [id |-> 0, offset |-> 0, buffer |-> Blank, status |-> FALSE]
    /\ disk = contents
    /\ job = [s \in Server |-> [op |-> "READ", diskno |-> DiskOf[s], secno |-> 0,
                                nsecs |-> 0, off |-> 0, buf |-> [i \in 1..MaxSecs |-> Blank]]]
    /\ pc = [s \in Server |-> "idle"]
    /\ overlapped = FALSE

IdeInit == \E contents \in [Disk -> [Sector -> Data]] : IdeInitWith(contents)

Goto(s, step) == pc' = [pc EXCEPT ![s] = step]

\* Mutant: every turn takes the first sector.
Target_first(s) == job[s].secno

\* The sector of this turn of the loop, and its place in memory.
Target(s) == job[s].secno + job[s].off
Cell(s) == job[s].off + 1

\* The server has begun to program the registers and is not done with them.
MidTurn(s) == pc[s] \notin {"idle", "panic", "DEV_DISK_ID"}

\* The end of a turn of the loop.
NextTurn(s, buf) ==
    /\ job' = [job EXCEPT ![s].off = @ + 1, ![s].buf = buf]
    /\ Goto(s, IF job[s].off + 1 < job[s].nsecs THEN "DEV_DISK_ID" ELSE "idle")

-------------------------------------------------------------------------------
\* The server calls ide_read; dst holds whatever it held before.
ide_read(s, secno, nsecs) ==
    /\ pc[s] = "idle"
    /\ job' = [job EXCEPT ![s].op = "READ", ![s].secno = secno, ![s].nsecs = nsecs, ![s].off = 0]
    /\ Goto(s, "DEV_DISK_ID")
    /\ UNCHANGED <<dev, disk, overlapped>>

ide_write(s, secno, nsecs, src) ==
    /\ pc[s] = "idle"
    /\ job' = [job EXCEPT ![s].op = "WRITE", ![s].secno = secno, ![s].nsecs = nsecs,
                          ![s].off = 0, ![s].buf = src]
    /\ Goto(s, "DEV_DISK_ID")
    /\ UNCHANGED <<dev, disk, overlapped>>

write_id(s) ==
    /\ pc[s] = "DEV_DISK_ID"
    /\ dev' = [dev EXCEPT !.id = job[s].diskno]
    /\ Goto(s, "DEV_DISK_OFFSET")
    /\ overlapped' = (overlapped \/ \E t \in Server : MidTurn(t))
    /\ UNCHANGED <<disk, job>>

\* Mutant: the operation is started before the buffer is filled.
write_offset_starts(s) ==
    /\ pc[s] = "DEV_DISK_OFFSET"
    /\ dev' = [dev EXCEPT !.offset = Target(s)]
    /\ Goto(s, "DEV_DISK_START_OPERATION")
    /\ UNCHANGED <<disk, job, overlapped>>

\* A write fills the buffer before it starts the operation.
write_offset(s) ==
    /\ pc[s] = "DEV_DISK_OFFSET"
    /\ dev' = [dev EXCEPT !.offset = Target(s)]
    /\ Goto(s, IF job[s].op = "READ" THEN "DEV_DISK_START_OPERATION" ELSE "DEV_DISK_BUFFER")
    /\ UNCHANGED <<disk, job, overlapped>>

write_buffer(s) ==
    /\ pc[s] = "DEV_DISK_BUFFER" /\ job[s].op = "WRITE"
    /\ dev' = [dev EXCEPT !.buffer = job[s].buf[Cell(s)]]
    /\ Goto(s, "DEV_DISK_START_OPERATION")
    /\ UNCHANGED <<disk, job, overlapped>>

\* The device: it transfers the sector its registers name, or reports failure
\* if there is none.
operate(op) ==
    IF dev.offset \notin Sector
    THEN dev' = [dev EXCEPT !.status = FALSE] /\ UNCHANGED disk
    ELSE IF op = "READ"
    THEN dev' = [dev EXCEPT !.status = TRUE, !.buffer = disk[dev.id][dev.offset]] /\ UNCHANGED disk
    ELSE /\ dev' = [dev EXCEPT !.status = TRUE]
         /\ disk' = [disk EXCEPT ![dev.id][dev.offset] = dev.buffer]

write_operation(s) ==
    /\ pc[s] = "DEV_DISK_START_OPERATION"
    /\ operate(job[s].op)
    /\ Goto(s, "DEV_DISK_STATUS")
    /\ UNCHANGED <<job, overlapped>>

read_status(s) ==
    /\ pc[s] = "DEV_DISK_STATUS"
    /\ IF ~dev.status THEN Goto(s, "panic") /\ UNCHANGED job
       ELSE IF job[s].op = "READ" THEN Goto(s, "DEV_DISK_BUFFER") /\ UNCHANGED job
       ELSE NextTurn(s, job[s].buf)
    /\ UNCHANGED <<dev, disk, overlapped>>

read_buffer(s) ==
    /\ pc[s] = "DEV_DISK_BUFFER" /\ job[s].op = "READ"
    /\ NextTurn(s, [job[s].buf EXCEPT ![Cell(s)] = dev.buffer])
    /\ UNCHANGED <<dev, disk, overlapped>>

IdeCall(s) ==
    \E secno \in Sector, n \in 1..MaxSecs :
        \/ ide_read(s, secno, n)
        \/ \E src \in [1..MaxSecs -> Data] : ide_write(s, secno, n, src)

IdeStep(s) ==
    \/ write_id(s) \/ write_offset(s) \/ write_buffer(s) \/ write_operation(s)
    \/ read_status(s) \/ read_buffer(s)

IdeNext == \E s \in Server : IdeCall(s) \/ IdeStep(s)

IdeSpec == IdeInit /\ [][IdeNext]_ide_vars

-------------------------------------------------------------------------------
\* ide.c:10 and :49, "read data from IDE disk", "write data to IDE disk": the
\* sectors asked for, of the disk asked for, and the part of the buffer moved so
\* far are equal, in both directions.  A server only uses its own disk, so nobody
\* may have changed them since.  ide.c:22, "Panic if any error occurs": the driver
\* gives up only on a sector that does not exist.  This holds for any number of
\* servers that take turns in any order, until one of them is preempted in the
\* middle of a turn and another begins one: nothing in the code prevents that, and
\* from then on nothing is promised.
TransfersTheSectors ==
    ~overlapped =>
        \A s \in Server :
            /\ pc[s] = "panic" => job[s].secno + job[s].off \notin Sector
            /\ pc[s] # "panic" => \A i \in 0..(job[s].off - 1) :
                   /\ job[s].secno + i \in Sector
                   /\ job[s].buf[i + 1] = disk[job[s].diskno][job[s].secno + i]

OnlyTheSector ==
    disk' # disk =>
        \E s \in Server :
            /\ job[s].op = "WRITE"
            /\ disk' = [disk EXCEPT ![job[s].diskno][job[s].secno + job[s].off] =
                                       job[s].buf[job[s].off + 1]]

\* ide.c:49, "write data to IDE disk": a write changes the sector it was asked
\* to, with the data it was given, and no sector of any disk besides.  With two
\* servers the code does not keep this.
WritesOnlyTheSector == [][OnlyTheSector]_ide_vars

\* The same, as long as no turn has begun in the middle of another server's: the
\* overlap of two turns is the only way in which a write goes astray.
SerialWritesOnlyTheSector == [][~overlapped => OnlyTheSector]_ide_vars
===============================================================================
