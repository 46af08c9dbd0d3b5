--------------------------- MODULE FileSysProofs ---------------------------
(***************************************************************************)
(* For any number of blocks, files, names and requests: no block has two   *)
(* owners, blocks keep the last store made to them, the bitmap on disk     *)
(* never frees a block in use, and closing a file writes it back.          *)
(***************************************************************************)
EXTENDS FileSys, FiniteSetTheorems, WellFoundedInduction, TLAPS

Page == [Place -> Block \cup Word]
File == [name : Name \cup {NoName}, size : 0..(NINDIRECT * BY2BLK), indirect : Block, f_dir : BOOLEAN,
         direct : [0..(NDIRECT - 1) -> Block]]
Disk == [file : [FileNo -> File], page : [Block -> Page], free : SUBSET DataBlock]
State == [file : [FileNo -> File], page : [Block -> Page], free : SUBSET DataBlock,
          mapped : SUBSET Block, dirty : SUBSET Block, disk : Disk,
          end : {"no", "panic", "garbage"}]

\* The places of a file that hold a block number, -1 for its indirect block.
Slot == FileNo \X (Bno \cup {-1})
At(st, x) == IF x[2] = -1 THEN st.file[x[1]].indirect ELSE Ptr(st, x[1], x[2])

\* What a client reads in a block.
Cur(st, b) == IF b \in st.mapped THEN st.page[b] ELSE st.disk.page[b]

\* No block is pointed to twice, none that is pointed to is free, and the indirect
\* blocks are in memory.
Linked(st) ==
    /\ \A x \in Slot : At(st, x) # 0 => At(st, x) \in DataBlock \ st.free
    /\ \A x, y \in Slot : At(st, x) = At(st, y) /\ At(st, x) # 0 => x = y
    /\ \A f \in FileNo : st.file[f].indirect # 0 => st.file[f].indirect \in st.mapped

\* An entry that knows its directory lies in a dirty block of it.
InDir(st, k) ==
    /\ (k - 1) \div FILE2BLK < nblocks(st.file[Root].size)
    /\ DirBlock(st, k) \in DataBlock /\ DirBlock(st, k) \in st.mapped
DirOK(st) == \A k \in Entry : st.file[k].f_dir => InDir(st, k) /\ DirBlock(st, k) \in st.dirty

\* A block holds what was last written to it.
Contents(st, w) ==
    \A f \in Entry, bno \in Bno : w[f][bno] # Unwritten =>
        Ptr(st, f, bno) # 0 /\ Cur(st, Ptr(st, f, bno)) = Full(w[f][bno])

\* No block is behind the end of its file, and every block in use has an owner.
Owned(st) ==
    /\ \A f \in FileNo, bno \in Bno : Ptr(st, f, bno) # 0 => bno < nblocks(st.file[f].size)
    /\ \A b \in DataBlock \ st.free : \E x \in Slot : At(st, x) = b

Sound(st, w, lost) == Linked(st) /\ DirOK(st) /\ Contents(st, w) /\ (lost \/ Owned(st))

\* What holds of the record before, within and after a request.
Inv(st, w, lost) ==
    /\ st \in State /\ st.dirty \subseteq st.mapped /\ st.disk.free \subseteq st.free
    /\ st.end # "panic"
    /\ st.end = "no" => Sound(st, w, lost)

Written == [FileNo -> [Bno -> Word \cup {Unwritten}]]
Sizes(st) == st.file[Root].size <= MaxDir * BY2BLK /\ \A k \in Entry : st.file[k].size <= MaxSize

IInv ==
    /\ Inv(fs, written, behind) /\ Sizes(fs)
    /\ open \subseteq Entry /\ held \subseteq fs.mapped /\ held \subseteq DataBlock /\ ops \in 0..MaxOps
    /\ told \in [Entry -> 0..MaxSize] /\ behind \in BOOLEAN /\ written \in Written

-------------------------------------------------------------------------------
\* Sizes and numbers.

\* The constants: block 0 is nobody's, 2 is the bitmap, and pages have their type.
LEMMA Numbers ==
    /\ NBLK \in Nat /\ NDIRECT \in Nat /\ NINDIRECT \in Nat /\ FILE2BLK \in Nat /\ MaxDir \in Nat
    /\ FILE2BLK > 0 /\ NDIRECT > 0 /\ NDIRECT < NINDIRECT /\ MaxDir <= NDIRECT
    /\ 0 \in Block /\ 2 \in Block /\ DataBlock \subseteq Block /\ 0 \notin DataBlock /\ 2 \notin DataBlock
    /\ Place \subseteq Bno /\ Bno \subseteq Nat /\ Block \subseteq Nat /\ -1 \notin Bno
    /\ Root \in FileNo /\ Entry \subseteq FileNo /\ Root \notin Entry /\ FileNo \subseteq Nat
BY FsAssumption DEF Block, DataBlock, Place, Bno, Root, FileNo, Entry, BY2BLK

\* Pages of zeros and of words are pages.
LEMMA Pages == Zero \in Page /\ \A w \in Word : Full(w) \in Page
BY Numbers DEF Zero, Full, Page

\* The directory block of an entry is a direct one.
LEMMA EntryBlock ==
    ASSUME NEW k \in Entry
    PROVE  (k - 1) \div FILE2BLK \in 0..(MaxDir - 1) /\ (k - 1) \div FILE2BLK \in 0..(NDIRECT - 1)
<1>1. PICK d \in Int : d = (k - 1) \div FILE2BLK
  BY Numbers DEF Entry
<1>2. PICK m \in Int : m = MaxDir * FILE2BLK /\ k - 1 < m /\ k - 1 >= 0
  BY Numbers DEF Entry
<1>3. FILE2BLK * d <= k - 1 /\ k - 1 < FILE2BLK * (d + 1)
  BY <1>1, <1>2, Numbers
<1>4. d >= 0 /\ d < MaxDir
  <2>1. d < 0 => FILE2BLK * (d + 1) <= 0
    BY Numbers
  <2>2. d >= MaxDir => FILE2BLK * d >= m
    BY <1>2, Numbers
  <2> QED BY <1>2, <1>3, <2>1, <2>2, Numbers
<1> QED BY <1>1, <1>4, Numbers

-------------------------------------------------------------------------------
\* The cache.

\* s is st but for blocks that are in memory now and were not.
Reads(st, s) ==
    /\ s \in State /\ s.file = st.file /\ s.free = st.free /\ s.dirty = st.dirty /\ s.disk = st.disk
    /\ s.end = st.end /\ st.mapped \subseteq s.mapped
    /\ \A b \in Block : Cur(s, b) = Cur(st, b)
    /\ \A b \in st.mapped : s.page[b] = st.page[b]

\* read_block of a block in use.
LEMMA ReadBlock ==
    ASSUME NEW st \in State, NEW b \in Block, b \notin st.free, NEW s, s = read_block(st, b)
    PROVE  Reads(st, s) /\ b \in s.mapped
<1>1. ~(b >= NBLK \/ b \in st.free)
  BY Numbers DEF Block
<1>2. CASE b \in st.mapped
  BY <1>1, <1>2 DEF read_block, Reads
<1>3. CASE b \notin st.mapped
  <2>1. s = [st EXCEPT !.mapped = @ \cup {b}, !.page[b] = st.disk.page[b]]
    BY <1>1, <1>3 DEF read_block
  <2>2. s \in State
    <3>1. st.disk.page[b] \in Page /\ st.page \in [Block -> Page]
      BY DEF State, Disk
    <3>2. PICK p \in [Block -> Page] : p = [st.page EXCEPT ![b] = st.disk.page[b]]
      BY <3>1
    <3>3. s = [st EXCEPT !.mapped = st.mapped \cup {b}, !.page = p]
      BY <2>1, <3>2 DEF State
    <3>4. st.mapped \cup {b} \in SUBSET Block
      BY DEF State
    <3> QED BY <3>2, <3>3, <3>4 DEF State
  <2>3. s.mapped = st.mapped \cup {b} /\ s.page = [st.page EXCEPT ![b] = st.disk.page[b]]
    BY <2>1 DEF State
  <2> QED BY <1>3, <2>1, <2>2, <2>3 DEF Reads, Cur, State
<1> QED BY <1>2, <1>3

\* read_block once the model has ended.
LEMMA ReadEnded ==
    ASSUME NEW st \in State, st.end = "garbage", NEW b \in Nat, NEW s, s = read_block(st, b)
    PROVE  s \in State /\ s.file = st.file /\ s.free = st.free /\ s.dirty = st.dirty /\ s.disk = st.disk
           /\ s.end = st.end /\ st.mapped \subseteq s.mapped
<1>1. CASE b >= NBLK \/ b \in st.free
  BY <1>1 DEF read_block, State
<1>2. CASE ~(b >= NBLK \/ b \in st.free)
  <2>1. b \in Block
    BY <1>2, Numbers DEF Block
  <2> QED BY <1>2, <2>1, ReadBlock DEF Reads
<1> QED BY <1>1, <1>2

\* s is st but for what the disk has.
Writes(st, s) ==
    /\ s \in State /\ s.file = st.file /\ s.free = st.free /\ s.dirty = st.dirty
    /\ s.mapped = st.mapped /\ s.page = st.page /\ s.end = st.end

\* write_block of blocks in memory, or of the bitmap.
LEMMA WriteBlocks ==
    ASSUME NEW st \in State, NEW B \in SUBSET Block, NEW s, s = write_blocks(st, B)
    PROVE  /\ Writes(st, s)
           /\ s.disk.free = IF 2 \in B THEN st.free ELSE st.disk.free
           /\ \A b \in Block : s.disk.page[b] = IF b \in B THEN st.page[b] ELSE st.disk.page[b]
           /\ \A k \in Entry : s.disk.file[k] = IF DirBlock(st, k) \in B THEN st.file[k] ELSE st.disk.file[k]
<1>1. PICK p : p = [b \in Block |-> IF b \in B THEN st.page[b] ELSE st.disk.page[b]]
  OBVIOUS
<1>2. PICK g : g = [k \in FileNo |-> IF k \in Entry /\ DirBlock(st, k) \in B THEN st.file[k] ELSE st.disk.file[k]]
  OBVIOUS
<1>3. PICK r : r = IF 2 \in B THEN st.free ELSE st.disk.free
  OBVIOUS
<1>4. st.disk \in Disk /\ st.page \in [Block -> Page] /\ st.file \in [FileNo -> File] /\ st.free \in SUBSET DataBlock
  BY DEF State
<1>5. p \in [Block -> Page] /\ g \in [FileNo -> File] /\ r \in SUBSET DataBlock
  BY <1>1, <1>2, <1>3, <1>4 DEF Disk
<1>6. PICK d : d = [file |-> g, page |-> p, free |-> r]
  OBVIOUS
<1>7. d \in Disk
  BY <1>5, <1>6 DEF Disk
<1>8. s = [st EXCEPT !.disk = d]
  <2>1. [st.disk EXCEPT !.page = p, !.file = g, !.free = r] = d
    <3>1. PICK e : e = [st.disk EXCEPT !.page = p, !.file = g, !.free = r]
      OBVIOUS
    <3>2. e \in Disk /\ e.page = p /\ e.file = g /\ e.free = r
      BY <1>4, <1>5, <3>1 DEF Disk
    <3> QED BY <1>6, <1>7, <3>1, <3>2 DEF Disk
  <2>2. s = [st EXCEPT !.disk = [[[@ EXCEPT !.page = p] EXCEPT !.file = g] EXCEPT !.free = r]]
    BY <1>1, <1>2, <1>3, <1>4 DEF write_blocks, State, Disk
  <2> QED BY <2>1, <2>2, <1>4 DEF State, Disk
<1>9. s \in State
  BY <1>7, <1>8 DEF State
<1>10. s.disk = d /\ Writes(st, s)
  BY <1>8, <1>9 DEF State, Writes
<1> QED BY <1>1, <1>2, <1>3, <1>6, <1>10, Numbers

\* dirty_block, for a block that is or is not in memory.
LEMMA DirtyBlock ==
    ASSUME NEW st \in State, NEW b, NEW s, s = dirty_block(st, b)
    PROVE  /\ s \in State /\ s.file = st.file /\ s.free = st.free /\ s.disk = st.disk /\ s.end = st.end
           /\ s.mapped = st.mapped /\ s.page = st.page
           /\ st.dirty \subseteq s.dirty /\ (st.dirty \subseteq st.mapped => s.dirty \subseteq s.mapped)
           /\ b \in st.mapped => b \in s.dirty
<1>1. CASE b \in st.mapped
  <2>1. s = [st EXCEPT !.dirty = st.dirty \cup {b}] /\ b \in Block
    BY <1>1 DEF dirty_block, State
  <2>2. st.dirty \cup {b} \in SUBSET Block
    BY <2>1 DEF State
  <2> QED BY <1>1, <2>1, <2>2 DEF State
<1>2. CASE b \notin st.mapped
  BY <1>2 DEF dirty_block
<1> QED BY <1>1, <1>2

\* Every set of numbers that is not empty has a least one.
LEMMA Least ==
    ASSUME NEW S \in SUBSET Nat, S # {}
    PROVE  \E m \in S : \A y \in S : m <= y
<1> DEFINE Less == {ss \in Nat \X Nat : ss[1] < ss[2]}
<1>1. IsWellFoundedOn(Less, Nat)
  BY NatLessThanWellFounded, Zenon DEF OpToRel
<1> HIDE DEF Less
<1>2. PICK m \in S : \A y \in S : ~(<<y, m>> \in Less)
  BY <1>1, WFMin
<1>3. \A y \in S : ~(y < m)
  BY <1>2 DEF Less
<1> QED BY <1>3

\* So the community module's Min is a member.
LEMMA MinMember == ASSUME NEW S \in SUBSET Nat, S # {} PROVE Min(S) \in S
BY Least DEF Min

\* s is st with the block b in use and in memory, and the bitmap written.
Allocates(st, s, b) ==
    /\ b \in st.free /\ s \in State
    /\ s.file = st.file /\ s.free = st.free \ {b} /\ s.dirty = st.dirty /\ s.end = st.end
    /\ s.mapped = st.mapped \cup {b} /\ s.disk.free = s.free
    /\ \A c \in Block : c # b => s.page[c] = st.page[c]
    /\ \A c \in DataBlock : c # b => Cur(s, c) = Cur(st, c)

\* alloc_block, when there is a free block.
LEMMA AllocBlock ==
    ASSUME NEW st \in State, st.free # {}, NEW a, a = alloc_block(st)
    PROVE  Allocates(st, a.st, a.r)
<1>1. PICK b : b = Min(st.free)
  OBVIOUS
<1>2. b \in st.free /\ b \in DataBlock /\ b \in Block /\ b # 2
  <2>1. st.free \in SUBSET DataBlock /\ st.free \in SUBSET Nat
    BY Numbers DEF State
  <2> QED BY <1>1, <2>1, MinMember, Numbers
<1>3. PICK s1 : s1 = [st EXCEPT !.free = @ \ {b}]
  OBVIOUS
<1>4. s1 \in State /\ s1.free = st.free \ {b} /\ s1.file = st.file /\ s1.dirty = st.dirty /\ s1.end = st.end
      /\ s1.mapped = st.mapped /\ s1.page = st.page /\ s1.disk = st.disk
  BY <1>3 DEF State
<1>5. PICK s2 : s2 = write_blocks(s1, {2})
  OBVIOUS
<1>6. Writes(s1, s2) /\ s2.disk.free = s1.free /\ \A c \in Block : c # 2 => s2.disk.page[c] = st.disk.page[c]
  <2>1. {2} \in SUBSET Block
    BY Numbers
  <2> QED BY <1>4, <1>5, <2>1, WriteBlocks
<1>7. PICK p : p = [s2.page EXCEPT ![b] = IF b \in st.mapped THEN s2.page[b] ELSE Zero]
  OBVIOUS
<1>8. p \in [Block -> Page] /\ \A c \in Block : c # b => p[c] = st.page[c]
  <2>1. s2.page = st.page /\ s2.page \in [Block -> Page]
    BY <1>4, <1>6 DEF Writes, State
  <2> QED BY <1>7, <2>1, Pages
<1>9. PICK s3 : s3 = [s2 EXCEPT !.mapped = s2.mapped \cup {b}, !.page = p]
  OBVIOUS
<1>10. a = [st |-> s3, r |-> b]
  <2>1. a = [st |-> [s2 EXCEPT !.mapped = @ \cup {b}, !.page[b] = IF b \in st.mapped THEN @ ELSE Zero], r |-> b]
    BY <1>1, <1>3, <1>5 DEF alloc_block
  <2>2. s2 \in State
    BY <1>6 DEF Writes
  <2>3. [s2 EXCEPT !.mapped = @ \cup {b}, !.page[b] = IF b \in st.mapped THEN @ ELSE Zero] = s3
    BY <1>7, <1>9, <2>2 DEF State
  <2> QED BY <2>1, <2>3
<1>11. s3 \in State /\ s3.page = p /\ s3.mapped = st.mapped \cup {b} /\ s3.file = st.file /\ s3.free = st.free \ {b}
       /\ s3.dirty = st.dirty /\ s3.end = st.end /\ s3.disk = s2.disk
  <2>1. s2 \in State /\ s2.mapped = st.mapped /\ s2.mapped \cup {b} \in SUBSET Block
    BY <1>2, <1>4, <1>6 DEF Writes, State
  <2> QED BY <1>4, <1>6, <1>8, <1>9, <2>1 DEF Writes, State
<1>12. \A c \in DataBlock : c # b => Cur(s3, c) = Cur(st, c)
  BY <1>6, <1>8, <1>11, Numbers DEF Cur
<1>13. s3.disk.free = s3.free
  BY <1>4, <1>6, <1>11
<1>14. a.st = s3 /\ a.r = b
  BY <1>10
<1>15. Allocates(st, s3, b)
  BY <1>2, <1>8, <1>11, <1>12, <1>13 DEF Allocates
<1> QED BY <1>14, <1>15

-------------------------------------------------------------------------------
\* The places of a file.

\* What does not change when a file gets or loses blocks.
SameFiles(st, s) ==
    \A k \in FileNo : /\ s.file[k].name = st.file[k].name /\ s.file[k].size = st.file[k].size
                      /\ s.file[k].f_dir = st.file[k].f_dir

\* A numbered place is a direct one or one of the indirect block.
LEMMA Places ==
    /\ \A bno \in Bno : bno # -1 /\ (bno \in Place \/ bno \in 0..(NDIRECT - 1))
    /\ \A i \in 0..(NDIRECT - 1) : i \in Bno /\ i < NDIRECT
    /\ \A i \in Place : i \in Bno /\ ~(i < NDIRECT)
BY Numbers DEF Bno, Place

\* At, for the indirect place and for a numbered one.
LEMMA AtIndirect ==
    ASSUME NEW st, NEW f \in FileNo
    PROVE  <<f, -1>> \in Slot /\ At(st, <<f, -1>>) = st.file[f].indirect
BY DEF Slot, At

LEMMA AtPtr ==
    ASSUME NEW st, NEW f \in FileNo, NEW bno \in Bno
    PROVE  <<f, bno>> \in Slot /\ At(st, <<f, bno>>) = Ptr(st, f, bno)
BY Places DEF Slot, At

\* Ptr, for a direct and for an indirect place.
LEMMA PtrDirect ==
    ASSUME NEW st, NEW f, NEW i \in 0..(NDIRECT - 1)
    PROVE  Ptr(st, f, i) = st.file[f].direct[i]
BY Places DEF Ptr

LEMMA PtrPlace ==
    ASSUME NEW st, NEW f, NEW i \in Place
    PROVE  Ptr(st, f, i) = IF st.file[f].indirect = 0 THEN 0 ELSE st.page[st.file[f].indirect][i]
BY Places DEF Ptr

\* The fields of a file.
LEMMA FileFields ==
    ASSUME NEW st \in State, NEW f \in FileNo
    PROVE  /\ st.file[f] \in File /\ st.file[f].indirect \in Block
           /\ st.file[f].direct \in [0..(NDIRECT - 1) -> Block]
           /\ st.file[f].size \in 0..(NINDIRECT * BY2BLK)
           /\ st.file[f].name \in Name \cup {NoName} /\ st.file[f].f_dir \in BOOLEAN
<1>1. st.file[f] \in File
  BY DEF State
<1> QED BY <1>1 DEF File

\* A slot is the indirect place or a numbered place of a file.
LEMMA SlotCases ==
    ASSUME NEW x \in Slot
    PROVE  \E f \in FileNo : x = <<f, -1>> \/ \E bno \in Bno : x = <<f, bno>>
BY DEF Slot

\* The block of an entry's directory, as a place of the root.
LEMMA DirSlot ==
    ASSUME NEW st \in State, NEW k \in Entry
    PROVE  \E i \in Bno : <<Root, i>> \in Slot /\ i = (k - 1) \div FILE2BLK
                          /\ At(st, <<Root, i>>) = DirBlock(st, k) /\ i \in 0..(NDIRECT - 1)
<1>1. (k - 1) \div FILE2BLK \in 0..(NDIRECT - 1)
  BY EntryBlock
<1>2. (k - 1) \div FILE2BLK \in Bno
  BY <1>1, Places
<1> QED BY <1>1, <1>2, AtPtr, PtrDirect, Numbers DEF DirBlock

\* Whatever a place holds is a number.
LEMMA PtrNat ==
    ASSUME NEW st \in State, NEW f \in FileNo, NEW bno \in Bno
    PROVE  Ptr(st, f, bno) \in Nat
<1>1. CASE bno \in 0..(NDIRECT - 1)
  <2>1. st.file[f].direct[bno] \in Block
    BY <1>1, FileFields
  <2> QED BY <1>1, <2>1, PtrDirect, Numbers
<1>2. CASE bno \in Place
  <2>1. \A b \in Block : st.page[b] \in Page
    BY DEF State
  <2>2. \A b \in Block : st.page[b][bno] \in Nat
    BY <1>2, <2>1, Numbers, FsAssumption DEF Page
  <2> QED BY <1>2, <2>2, FileFields, PtrPlace
<1> QED BY <1>1, <1>2, Places

\* A slot gets a block: the only way into the structure.
LEMMA Attach ==
    ASSUME NEW st, NEW w, NEW lost, Inv(st, w, lost), st.end = "no",
           NEW s \in State, s.end = "no", NEW x \in Slot, NEW b \in st.free,
           At(st, x) = 0, At(s, x) = b, \A y \in Slot : y # x => At(s, y) = At(st, y),
           s.free = st.free \ {b}, s.disk.free \subseteq s.free,
           s.mapped = st.mapped \cup {b}, s.dirty = st.dirty, SameFiles(st, s),
           \A f \in FileNo, bno \in Bno : Ptr(st, f, bno) # 0 => Cur(s, Ptr(st, f, bno)) = Cur(st, Ptr(st, f, bno)),
           lost \/ x[2] < nblocks(st.file[x[1]].size)
    PROVE  Inv(s, w, lost)
<1>1. st \in State /\ st.dirty \subseteq st.mapped /\ Sound(st, w, lost)
  BY DEF Inv
<1>2. b \in DataBlock /\ b # 0
  BY <1>1, Numbers DEF State
<1>3. Linked(s)
  <2>1. \A y \in Slot : At(s, y) # 0 => At(s, y) \in DataBlock \ s.free
    BY <1>1, <1>2 DEF Sound, Linked
  <2>2. \A y, z \in Slot : At(s, y) = At(s, z) /\ At(s, y) # 0 => y = z
    <3>1. \A y \in Slot : At(st, y) # b
      BY <1>1, <1>2 DEF Sound, Linked
    <3> QED BY <1>1, <3>1 DEF Sound, Linked
  <2>3. ASSUME NEW f \in FileNo, s.file[f].indirect # 0 PROVE s.file[f].indirect \in s.mapped
    <3>1. <<f, -1>> \in Slot /\ At(s, <<f, -1>>) = s.file[f].indirect /\ At(st, <<f, -1>>) = st.file[f].indirect
      BY AtIndirect
    <3> QED BY <1>1, <2>3, <3>1 DEF Sound, Linked
  <2> QED BY <2>1, <2>2, <2>3 DEF Linked
<1>4. DirOK(s)
  <2>1. SUFFICES ASSUME NEW k \in Entry, s.file[k].f_dir PROVE InDir(s, k) /\ DirBlock(s, k) \in s.dirty
    BY DEF DirOK
  <2>2. InDir(st, k) /\ DirBlock(st, k) \in st.dirty
    BY <1>1, <2>1, Numbers DEF Sound, DirOK, SameFiles
  <2>3. PICK i \in Bno : <<Root, i>> \in Slot /\ i = (k - 1) \div FILE2BLK
                          /\ At(st, <<Root, i>>) = DirBlock(st, k) /\ i \in 0..(NDIRECT - 1)
    BY <1>1, DirSlot
  <2>4. At(s, <<Root, i>>) = DirBlock(s, k)
    BY <2>3, AtPtr, PtrDirect, Numbers DEF DirBlock
  <2>5. DirBlock(st, k) # 0
    BY <2>2, Numbers DEF InDir
  <2>6. DirBlock(s, k) = DirBlock(st, k)
    BY <2>3, <2>4, <2>5
  <2> QED BY <2>2, <2>6, Numbers DEF InDir, SameFiles
<1>5. Contents(s, w)
  <2>1. SUFFICES ASSUME NEW f \in Entry, NEW bno \in Bno, w[f][bno] # Unwritten
                 PROVE  Ptr(s, f, bno) # 0 /\ Cur(s, Ptr(s, f, bno)) = Full(w[f][bno])
    BY DEF Contents
  <2>2. f \in FileNo /\ Ptr(st, f, bno) # 0 /\ Cur(st, Ptr(st, f, bno)) = Full(w[f][bno])
    BY <1>1, <2>1, Numbers DEF Sound, Contents
  <2>3. <<f, bno>> \in Slot /\ At(s, <<f, bno>>) = Ptr(s, f, bno) /\ At(st, <<f, bno>>) = Ptr(st, f, bno)
    BY <2>2, AtPtr
  <2>4. Ptr(s, f, bno) = Ptr(st, f, bno)
    BY <2>2, <2>3
  <2> QED BY <2>2, <2>4
<1>6. ASSUME ~lost PROVE Owned(s)
  <2>1. ASSUME NEW f \in FileNo, NEW bno \in Bno, Ptr(s, f, bno) # 0 PROVE bno < nblocks(s.file[f].size)
    <3>1. <<f, bno>> \in Slot /\ At(s, <<f, bno>>) = Ptr(s, f, bno) /\ At(st, <<f, bno>>) = Ptr(st, f, bno)
      BY AtPtr
    <3>2. CASE <<f, bno>> = x
      BY <1>6, <3>2 DEF SameFiles
    <3>3. CASE <<f, bno>> # x
      BY <1>1, <1>6, <2>1, <3>1, <3>3 DEF SameFiles, Sound, Owned
    <3> QED BY <3>2, <3>3
  <2>2. \A c \in DataBlock \ s.free : \E y \in Slot : At(s, y) = c
    <3>1. SUFFICES ASSUME NEW c \in DataBlock, c \notin st.free PROVE \E y \in Slot : At(s, y) = c
      OBVIOUS
    <3>2. PICK y \in Slot : At(st, y) = c
      BY <1>1, <1>6, <3>1 DEF Sound, Owned
    <3>3. y # x
      BY <3>1, <3>2, Numbers
    <3> QED BY <3>2, <3>3
  <2> QED BY <2>1, <2>2 DEF Owned
<1> QED BY <1>1, <1>3, <1>4, <1>5, <1>6 DEF Inv, Sound

\* More size, more blocks.
LEMMA NblocksGrow ==
    ASSUME NEW m \in Nat, NEW n \in Nat, m <= n
    PROVE  nblocks(m) \in Nat /\ nblocks(m) <= nblocks(n)
BY DEF nblocks, BY2BLK

\* The places of st and s hold the same.
SamePlaces(st, s) == \A x \in Slot : At(s, x) = At(st, x)

\* They do if neither the files' pointers nor the indirect blocks have changed.
LEMMA PlacesKept ==
    ASSUME NEW st, NEW s,
           \A f \in FileNo : /\ s.file[f].direct = st.file[f].direct /\ s.file[f].indirect = st.file[f].indirect
                             /\ st.file[f].indirect # 0 => s.page[st.file[f].indirect] = st.page[st.file[f].indirect]
    PROVE  SamePlaces(st, s)
<1>1. SUFFICES ASSUME NEW x \in Slot PROVE At(s, x) = At(st, x)
  BY DEF SamePlaces
<1>2. PICK f \in FileNo : x = <<f, -1>> \/ \E bno \in Bno : x = <<f, bno>>
  BY SlotCases
<1>3. CASE x = <<f, -1>>
  BY <1>3, AtIndirect
<1>4. ASSUME NEW bno \in Bno, x = <<f, bno>> PROVE At(s, x) = At(st, x)
  <2>1. CASE bno \in 0..(NDIRECT - 1)
    BY <1>4, <2>1, AtPtr, PtrDirect
  <2>2. CASE bno \in Place
    <3>1. Ptr(s, f, bno) = IF s.file[f].indirect = 0 THEN 0 ELSE s.page[s.file[f].indirect][bno]
      BY <2>2, PtrPlace
    <3>2. Ptr(st, f, bno) = IF st.file[f].indirect = 0 THEN 0 ELSE st.page[st.file[f].indirect][bno]
      BY <2>2, PtrPlace
    <3> QED BY <1>4, <3>1, <3>2, AtPtr
  <2> QED BY <2>1, <2>2, Places
<1> QED BY <1>2, <1>3, <1>4

\* A step that leaves the places alone, and the contents of the blocks in them.
LEMMA Keep ==
    ASSUME NEW st, NEW w, NEW lost, Inv(st, w, lost), st.end = "no",
           NEW s \in State, s.end = "no", s.dirty \subseteq s.mapped, s.disk.free \subseteq s.free,
           s.free = st.free, st.mapped \subseteq s.mapped, SamePlaces(st, s), DirOK(s),
           \A f \in FileNo : s.file[f].size >= st.file[f].size,
           \A f \in FileNo, bno \in Bno : Ptr(st, f, bno) # 0 => Cur(s, Ptr(st, f, bno)) = Cur(st, Ptr(st, f, bno))
    PROVE  Inv(s, w, lost)
<1>1. st \in State /\ Sound(st, w, lost)
  BY DEF Inv
<1>2. \A f \in FileNo, bno \in Bno : Ptr(s, f, bno) = Ptr(st, f, bno)
  BY AtPtr DEF SamePlaces
<1>3. Linked(s)
  <2>1. \A f \in FileNo : s.file[f].indirect = st.file[f].indirect
    BY AtIndirect DEF SamePlaces
  <2> QED BY <1>1, <2>1 DEF Sound, Linked, SamePlaces
<1>4. Contents(s, w)
  BY <1>1, <1>2, Numbers DEF Sound, Contents
<1>5. ASSUME ~lost PROVE Owned(s)
  <2>1. ASSUME NEW f \in FileNo, NEW bno \in Bno, Ptr(s, f, bno) # 0 PROVE bno < nblocks(s.file[f].size)
    <3>1. bno \in Nat /\ bno < nblocks(st.file[f].size)
      BY <1>1, <1>2, <1>5, <2>1, Numbers DEF Sound, Owned
    <3>2. PICK m \in Nat, n \in Nat : m = st.file[f].size /\ n = s.file[f].size
      BY <1>1, FileFields, Numbers
    <3>3. nblocks(m) \in Nat /\ nblocks(n) \in Nat /\ nblocks(m) <= nblocks(n)
      BY <3>2, NblocksGrow
    <3> QED BY <3>1, <3>2, <3>3
  <2>2. \A c \in DataBlock \ s.free : \E y \in Slot : At(s, y) = c
    BY <1>1, <1>5 DEF Sound, Owned, SamePlaces
  <2> QED BY <2>1, <2>2 DEF Owned
<1> QED BY <1>1, <1>3, <1>4, <1>5 DEF Inv, Sound

\* DirOK carries over when the root, the marks and the dirty blocks stay or grow.
LEMMA DirKept ==
    ASSUME NEW st \in State, NEW s \in State, DirOK(st), SamePlaces(st, s),
           st.mapped \subseteq s.mapped, st.dirty \subseteq s.dirty,
           s.file[Root].size >= st.file[Root].size,
           \A k \in Entry : s.file[k].f_dir => st.file[k].f_dir
    PROVE  DirOK(s)
<1>1. SUFFICES ASSUME NEW k \in Entry, s.file[k].f_dir PROVE InDir(s, k) /\ DirBlock(s, k) \in s.dirty
  BY DEF DirOK
<1>2. InDir(st, k) /\ DirBlock(st, k) \in st.dirty
  BY <1>1 DEF DirOK
<1>3. DirBlock(s, k) = DirBlock(st, k)
  BY DirSlot DEF SamePlaces
<1>4. PICK d \in Nat : d = (k - 1) \div FILE2BLK
  BY EntryBlock
<1>5. d < nblocks(s.file[Root].size)
  <2>1. PICK m \in Nat, n \in Nat : m = st.file[Root].size /\ n = s.file[Root].size
    BY FileFields, Numbers
  <2>2. nblocks(m) \in Nat /\ nblocks(n) \in Nat /\ nblocks(m) <= nblocks(n)
    BY <2>1, NblocksGrow
  <2> QED BY <1>2, <1>4, <2>1, <2>2 DEF InDir
<1> QED BY <1>2, <1>3, <1>4, <1>5 DEF InDir

\* Reading a block changes nothing that matters.
LEMMA ReadsInv ==
    ASSUME NEW st, NEW w, NEW lost, Inv(st, w, lost), st.end = "no", NEW s, Reads(st, s)
    PROVE  Inv(s, w, lost) /\ SamePlaces(st, s) /\ SameFiles(st, s)
<1>1. st \in State /\ Sound(st, w, lost) /\ st.dirty \subseteq st.mapped /\ st.disk.free \subseteq st.free /\ s \in State
  BY DEF Inv, Reads
<1>2. SamePlaces(st, s)
  <2>1. \A f \in FileNo : st.file[f].indirect # 0 => st.file[f].indirect \in st.mapped
    BY <1>1 DEF Sound, Linked
  <2>2. \A f \in FileNo : st.file[f].indirect # 0 => s.page[st.file[f].indirect] = st.page[st.file[f].indirect]
    BY <2>1 DEF Reads
  <2> QED BY <2>2, PlacesKept DEF Reads
<1>3. \A f \in FileNo : s.file[f].size >= st.file[f].size
  BY <1>1, FileFields, Numbers DEF Reads, BY2BLK
<1>4. DirOK(s)
  BY <1>1, <1>2, <1>3, DirKept, Numbers DEF Reads, Sound
<1>5. \A f \in FileNo, bno \in Bno : Ptr(st, f, bno) # 0 => Cur(s, Ptr(st, f, bno)) = Cur(st, Ptr(st, f, bno))
  <2>1. \A f \in FileNo, bno \in Bno : Ptr(st, f, bno) # 0 => Ptr(st, f, bno) \in Block
    BY <1>1, AtPtr, Numbers DEF Sound, Linked
  <2> QED BY <2>1 DEF Reads
<1>6. Inv(s, w, lost)
  BY <1>1, <1>2, <1>3, <1>4, <1>5, Keep DEF Reads
<1> QED BY <1>2, <1>6 DEF SameFiles, Reads

\* Nor does writing one that is in memory, or the bitmap.
LEMMA WritesInv ==
    ASSUME NEW st, NEW w, NEW lost, Inv(st, w, lost), st.end = "no",
           NEW B \in SUBSET Block, B \subseteq st.mapped \cup {2}, NEW s, s = write_blocks(st, B)
    PROVE  Inv(s, w, lost) /\ Writes(st, s) /\ SamePlaces(st, s) /\ SameFiles(st, s)
<1>1. st \in State /\ Sound(st, w, lost) /\ st.dirty \subseteq st.mapped /\ st.disk.free \subseteq st.free
  BY DEF Inv
<1>2. /\ Writes(st, s) /\ s.disk.free = IF 2 \in B THEN st.free ELSE st.disk.free
      /\ \A b \in Block : s.disk.page[b] = IF b \in B THEN st.page[b] ELSE st.disk.page[b]
  BY <1>1, WriteBlocks
<1>3. SamePlaces(st, s) /\ s \in State
  BY <1>2, PlacesKept DEF Writes
<1>4. \A f \in FileNo : s.file[f].size >= st.file[f].size
  BY <1>1, <1>2, FileFields, Numbers DEF Writes, BY2BLK
<1>5. DirOK(s)
  BY <1>1, <1>2, <1>3, <1>4, DirKept, Numbers DEF Writes, Sound
<1>6. \A f \in FileNo, bno \in Bno : Ptr(st, f, bno) # 0 => Cur(s, Ptr(st, f, bno)) = Cur(st, Ptr(st, f, bno))
  <2>1. \A f \in FileNo, bno \in Bno : Ptr(st, f, bno) # 0 => Ptr(st, f, bno) \in DataBlock
    BY <1>1, AtPtr, Numbers DEF Sound, Linked
  <2>2. \A c \in DataBlock : Cur(s, c) = Cur(st, c)
    BY <1>2, Numbers DEF Writes, Cur
  <2> QED BY <2>1, <2>2
<1>7. s.disk.free \subseteq s.free /\ s.dirty \subseteq s.mapped /\ s.end = "no" /\ s.free = st.free /\ st.mapped \subseteq s.mapped
  BY <1>1, <1>2 DEF Writes
<1>8. Inv(s, w, lost)
  BY <1>3, <1>4, <1>5, <1>6, <1>7, Keep
<1> QED BY <1>2, <1>3, <1>8 DEF SameFiles, Writes

-------------------------------------------------------------------------------
\* Assignments to a place.

\* s is st but for the entry of f and for pages.
Rest(st, s) ==
    /\ s \in State /\ s.free = st.free /\ s.dirty = st.dirty /\ s.disk = st.disk /\ s.mapped = st.mapped
    /\ s.end = st.end

LEMMA SetDirect ==
    ASSUME NEW st \in State, NEW f \in FileNo, NEW i \in 0..(NDIRECT - 1), NEW b \in Block,
           NEW s, s = SetPtr(st, f, i, b)
    PROVE  /\ Rest(st, s) /\ s.page = st.page /\ SameFiles(st, s)
           /\ \A k \in FileNo : k # f => s.file[k] = st.file[k]
           /\ s.file[f].indirect = st.file[f].indirect
           /\ s.file[f].direct = [st.file[f].direct EXCEPT ![i] = b]
<1>1. PICK d \in [0..(NDIRECT - 1) -> Block] : d = [st.file[f].direct EXCEPT ![i] = b]
  BY FileFields
<1>2. PICK g : g = [st.file[f] EXCEPT !.direct = d]
  OBVIOUS
<1>3. /\ g \in File /\ g.direct = d /\ g.indirect = st.file[f].indirect /\ g.name = st.file[f].name
      /\ g.size = st.file[f].size /\ g.f_dir = st.file[f].f_dir
  <2>1. st.file[f] \in File
    BY FileFields
  <2> QED BY <1>1, <1>2, <2>1 DEF File
<1>4. PICK h : h = [st.file EXCEPT ![f] = g]
  OBVIOUS
<1>5. h \in [FileNo -> File] /\ h[f] = g /\ \A k \in FileNo : k # f => h[k] = st.file[k]
  <2>1. st.file \in [FileNo -> File]
    BY DEF State
  <2> QED BY <1>3, <1>4, <2>1
<1>6. s = [st EXCEPT !.file = h]
  BY <1>1, <1>2, <1>4, Places DEF State, SetPtr
<1>7. s.file = h /\ Rest(st, s) /\ s.page = st.page
  BY <1>5, <1>6 DEF State, Rest
<1> QED BY <1>1, <1>3, <1>5, <1>7 DEF SameFiles

PutIndirect(st, f, b) == [st EXCEPT !.file[f].indirect = b]

LEMMA SetIndirectPtr ==
    ASSUME NEW st \in State, NEW f \in FileNo, NEW b \in Block,
           NEW s, s = PutIndirect(st, f, b)
    PROVE  /\ Rest(st, s) /\ s.page = st.page /\ SameFiles(st, s)
           /\ \A k \in FileNo : k # f => s.file[k] = st.file[k]
           /\ s.file[f].indirect = b /\ s.file[f].direct = st.file[f].direct
<1>2. PICK g : g = [st.file[f] EXCEPT !.indirect = b]
  OBVIOUS
<1>3. /\ g \in File /\ g.direct = st.file[f].direct /\ g.indirect = b /\ g.name = st.file[f].name
      /\ g.size = st.file[f].size /\ g.f_dir = st.file[f].f_dir
  <2>1. st.file[f] \in File
    BY FileFields
  <2> QED BY <1>2, <2>1 DEF File
<1>4. PICK h : h = [st.file EXCEPT ![f] = g]
  OBVIOUS
<1>5. h \in [FileNo -> File] /\ h[f] = g /\ \A k \in FileNo : k # f => h[k] = st.file[k]
  <2>1. st.file \in [FileNo -> File]
    BY DEF State
  <2> QED BY <1>3, <1>4, <2>1
<1>6. s = [st EXCEPT !.file = h]
  BY <1>2, <1>4 DEF State, PutIndirect
<1>7. s.file = h /\ Rest(st, s) /\ s.page = st.page
  BY <1>5, <1>6 DEF State, Rest
<1> QED BY <1>3, <1>5, <1>7 DEF SameFiles

LEMMA SetPlace ==
    ASSUME NEW st \in State, NEW f, NEW c \in Block, c = st.file[f].indirect, NEW i \in Place, NEW b \in Block,
           NEW s, s = SetPtr(st, f, i, b)
    PROVE  /\ Rest(st, s) /\ s.file = st.file
           /\ \A d \in Block : d # c => s.page[d] = st.page[d]
           /\ s.page[c][i] = b /\ \A j \in Place : j # i => s.page[c][j] = st.page[c][j]
<1>1. st.page \in [Block -> Page] /\ st.page[c] \in Page
  BY DEF State
<1>2. PICK p : p = [st.page[c] EXCEPT ![i] = b]
  OBVIOUS
<1>3. p \in Page /\ p[i] = b /\ \A j \in Place : j # i => p[j] = st.page[c][j]
  BY <1>1, <1>2 DEF Page
<1>4. PICK q : q = [st.page EXCEPT ![c] = p]
  OBVIOUS
<1>5. q \in [Block -> Page] /\ q[c] = p /\ \A d \in Block : d # c => q[d] = st.page[d]
  BY <1>1, <1>3, <1>4
<1>6. s = [st EXCEPT !.page = q]
  BY <1>2, <1>4, Places DEF State, SetPtr
<1>7. s.page = q /\ Rest(st, s) /\ s.file = st.file
  BY <1>5, <1>6 DEF State, Rest
<1> QED BY <1>3, <1>5, <1>7

\* s is st but for blocks that f has got and blocks read.
Fetches(st, s, f) ==
    /\ s \in State /\ SameFiles(st, s) /\ s.dirty = st.dirty /\ st.mapped \subseteq s.mapped
    /\ \A k \in FileNo : k # f => s.file[k] = st.file[k]

\* A block for a numbered place: alloc_block and *ptr = r.
LEMMA AttachPtr ==
    ASSUME NEW st, NEW w, NEW lost, Inv(st, w, lost), st.end = "no", st.free # {},
           NEW f \in FileNo, NEW bno \in Bno, bno \in Place => st.file[f].indirect # 0, Ptr(st, f, bno) = 0,
           lost \/ bno < nblocks(st.file[f].size),
           NEW b, NEW s0, Allocates(st, s0, b), NEW s, s = SetPtr(s0, f, bno, b)
    PROVE  /\ Inv(s, w, lost) /\ s.end = "no" /\ Fetches(st, s, f)
           /\ Ptr(s, f, bno) = b /\ b \in DataBlock /\ b \in s.mapped /\ b \notin s.free
<1>1. /\ st \in State /\ Sound(st, w, lost) /\ st.dirty \subseteq st.mapped /\ st.disk.free \subseteq st.free
      /\ b \in DataBlock /\ b \in Block /\ b # 0 /\ s0 \in State /\ s0.file = st.file
  BY Numbers DEF Inv, Allocates, State
<1>2. \A y \in Slot : At(st, y) # 0 => At(st, y) \in DataBlock /\ At(st, y) # b
  BY <1>1 DEF Sound, Linked, Allocates
<1>3. \A k \in FileNo : st.file[k].indirect # b /\ st.file[k].indirect \in Block
  BY <1>1, <1>2, AtIndirect, FileFields
<1>4. /\ Rest(s0, s) /\ SameFiles(st, s) /\ \A k \in FileNo : k # f => s.file[k] = st.file[k]
      /\ At(s, <<f, bno>>) = b /\ \A y \in Slot : y # <<f, bno>> => At(s, y) = At(st, y)
      /\ \A c \in DataBlock : c # b /\ c # st.file[f].indirect => Cur(s, c) = Cur(s0, c)
  <2>1. CASE bno \in 0..(NDIRECT - 1)
    <3>2. /\ Rest(s0, s) /\ s.page = s0.page /\ SameFiles(s0, s)
          /\ \A k \in FileNo : k # f => s.file[k] = st.file[k]
          /\ s.file[f].indirect = st.file[f].indirect
          /\ s.file[f].direct = [st.file[f].direct EXCEPT ![bno] = b]
      <4>1. /\ Rest(s0, s) /\ s.page = s0.page /\ SameFiles(s0, s)
            /\ \A k \in FileNo : k # f => s.file[k] = s0.file[k]
            /\ s.file[f].indirect = s0.file[f].indirect
            /\ s.file[f].direct = [s0.file[f].direct EXCEPT ![bno] = b]
        BY <1>1, <2>1, SetDirect
      <4> QED BY <1>1, <4>1
    <3>3. At(s, <<f, bno>>) = b
      <4>1. s.file[f].direct[bno] = b
        BY <1>1, <2>1, <3>2, FileFields
      <4> QED BY <2>1, <4>1, AtPtr, PtrDirect
    <3>4. ASSUME NEW y \in Slot, y # <<f, bno>> PROVE At(s, y) = At(st, y)
      <4>1. PICK k \in FileNo : y = <<k, -1>> \/ \E i \in Bno : y = <<k, i>>
        BY SlotCases
      <4>2. s.file[k].indirect = st.file[k].indirect
        BY <3>2
      <4>3. CASE y = <<k, -1>>
        BY <4>2, <4>3, AtIndirect
      <4>4. ASSUME NEW i \in Bno, y = <<k, i>> PROVE At(s, y) = At(st, y)
        <5>1. CASE i \in 0..(NDIRECT - 1)
          <6>1. s.file[k].direct[i] = st.file[k].direct[i]
            <7>1. CASE k # f
              BY <3>2, <7>1
            <7>2. CASE k = f
              <8>1. i # bno
                BY <3>4, <4>4, <7>2
              <8>2. st.file[f].direct \in [0..(NDIRECT - 1) -> Block]
                BY <1>1, FileFields
              <8> QED BY ONLY <3>2, <5>1, <7>2, <8>1, <8>2
            <7> QED BY <7>1, <7>2
          <6> QED BY <4>4, <5>1, <6>1, AtPtr, PtrDirect
        <5>2. CASE i \in Place
          <6>1. st.file[k].indirect # 0 => s.page[st.file[k].indirect] = st.page[st.file[k].indirect]
            BY <1>3, <3>2 DEF Allocates
          <6>2. Ptr(s, k, i) = IF s.file[k].indirect = 0 THEN 0 ELSE s.page[s.file[k].indirect][i]
            BY <5>2, PtrPlace
          <6>3. Ptr(st, k, i) = IF st.file[k].indirect = 0 THEN 0 ELSE st.page[st.file[k].indirect][i]
            BY <5>2, PtrPlace
          <6> QED BY <4>2, <4>4, <6>1, <6>2, <6>3, AtPtr
        <5> QED BY <5>1, <5>2, Places
      <4> QED BY <4>1, <4>3, <4>4
    <3>5. \A c \in DataBlock : Cur(s, c) = Cur(s0, c)
      BY <3>2 DEF Cur, Rest
    <3> QED BY <1>1, <3>2, <3>3, <3>4, <3>5 DEF SameFiles
  <2>2. CASE bno \in Place
    <3>0. PICK c \in Block : c = st.file[f].indirect /\ c # 0 /\ c # b
      BY <1>3, <2>2
    <3>2. /\ Rest(s0, s) /\ s.file = st.file
          /\ \A d \in Block : d # c => s.page[d] = s0.page[d]
          /\ s.page[c][bno] = b /\ \A j \in Place : j # bno => s.page[c][j] = s0.page[c][j]
      <4>1. /\ Rest(s0, s) /\ s.file = s0.file
            /\ \A d \in Block : d # c => s.page[d] = s0.page[d]
            /\ s.page[c][bno] = b /\ \A j \in Place : j # bno => s.page[c][j] = s0.page[c][j]
        BY <1>1, <2>2, <3>0, SetPlace
      <4> QED BY <1>1, <4>1
    <3>3. At(s, <<f, bno>>) = b
      <4>1. Ptr(s, f, bno) = IF s.file[f].indirect = 0 THEN 0 ELSE s.page[s.file[f].indirect][bno]
        BY <2>2, PtrPlace
      <4> QED BY <3>0, <3>2, <4>1, AtPtr
    <3>4. ASSUME NEW y \in Slot, y # <<f, bno>> PROVE At(s, y) = At(st, y)
      <4>1. PICK k \in FileNo : y = <<k, -1>> \/ \E i \in Bno : y = <<k, i>>
        BY SlotCases
      <4>2. CASE y = <<k, -1>>
        BY <3>2, <4>2, AtIndirect
      <4>3. ASSUME NEW i \in Bno, y = <<k, i>> PROVE At(s, y) = At(st, y)
        <5>1. CASE i \in 0..(NDIRECT - 1)
          <6>1. Ptr(s, k, i) = s.file[k].direct[i] /\ Ptr(st, k, i) = st.file[k].direct[i]
            BY <5>1, PtrDirect
          <6> QED BY <3>2, <4>3, <6>1, AtPtr
        <5>2. CASE i \in Place
          <6>1. ASSUME st.file[k].indirect # 0
                PROVE  s.page[st.file[k].indirect][i] = st.page[st.file[k].indirect][i]
            <7>1. st.file[k].indirect = c => k = f
              <8>1. <<k, -1>> \in Slot /\ <<f, -1>> \in Slot /\ At(st, <<k, -1>>) = st.file[k].indirect
                    /\ At(st, <<f, -1>>) = c
                BY <3>0, AtIndirect
              <8>2. <<k, -1>> = <<f, -1>> => k = f
                OBVIOUS
              <8> QED BY <1>1, <6>1, <8>1, <8>2 DEF Sound, Linked
            <7>2. s0.page[st.file[k].indirect] = st.page[st.file[k].indirect]
              BY <1>3 DEF Allocates
            <7>3. CASE k = f
              BY <3>0, <3>2, <3>4, <4>3, <5>2, <7>2, <7>3
            <7>4. CASE k # f
              BY <1>3, <3>2, <7>1, <7>2, <7>4
            <7> QED BY <7>3, <7>4
          <6>2. Ptr(s, k, i) = IF s.file[k].indirect = 0 THEN 0 ELSE s.page[s.file[k].indirect][i]
            BY <5>2, PtrPlace
          <6>3. Ptr(st, k, i) = IF st.file[k].indirect = 0 THEN 0 ELSE st.page[st.file[k].indirect][i]
            BY <5>2, PtrPlace
          <6> QED BY <3>2, <4>3, <6>1, <6>2, <6>3, AtPtr
        <5> QED BY <5>1, <5>2, Places
      <4> QED BY <4>1, <4>2, <4>3
    <3>5. \A d \in DataBlock : d # st.file[f].indirect => Cur(s, d) = Cur(s0, d)
      BY <3>0, <3>2, Numbers DEF Cur, Rest
    <3> QED BY <1>1, <3>2, <3>3, <3>4, <3>5 DEF SameFiles
  <2> QED BY <2>1, <2>2, Places
<1>5. /\ s \in State /\ s.end = "no" /\ s.free = st.free \ {b} /\ s.disk.free \subseteq s.free
      /\ s.mapped = st.mapped \cup {b} /\ s.dirty = st.dirty
  BY <1>4 DEF Allocates, Rest
<1>6. ASSUME NEW k \in FileNo, NEW i \in Bno, Ptr(st, k, i) # 0
      PROVE  Cur(s, Ptr(st, k, i)) = Cur(st, Ptr(st, k, i))
  <2>1. PICK c : c = Ptr(st, k, i)
    OBVIOUS
  <2>2. <<k, i>> \in Slot /\ At(st, <<k, i>>) = c /\ c # 0 /\ c \in DataBlock /\ c # b
    BY <1>2, <1>6, <2>1, AtPtr
  <2>3. c # st.file[f].indirect
    <3>1. <<f, -1>> \in Slot /\ At(st, <<f, -1>>) = st.file[f].indirect /\ <<f, -1>> # <<k, i>>
      BY AtIndirect, Places
    <3> QED BY <1>1, <2>2, <3>1 DEF Sound, Linked
  <2> QED BY <1>4, <2>1, <2>2, <2>3 DEF Allocates
<1>7. PICK x \in Slot : x = <<f, bno>> /\ At(st, x) = 0 /\ x[1] = f /\ x[2] = bno
  BY AtPtr
<1>8. Inv(s, w, lost)
  <2>1. At(s, x) = b /\ \A y \in Slot : y # x => At(s, y) = At(st, y)
    BY <1>4, <1>7
  <2>2. b \in st.free /\ SameFiles(st, s) /\ (lost \/ x[2] < nblocks(st.file[x[1]].size))
    BY <1>4, <1>7 DEF Allocates
  <2> QED BY <1>5, <1>6, <1>7, <2>1, <2>2, Attach
<1>9. Ptr(s, f, bno) = b
  BY <1>4, AtPtr
<1> QED BY <1>1, <1>4, <1>5, <1>8, <1>9 DEF Fetches

\* Two steps for the same file.
LEMMA FetchesTwice ==
    ASSUME NEW st, NEW s, NEW t, NEW f, Fetches(st, s, f), Fetches(s, t, f)
    PROVE  Fetches(st, t, f)
BY DEF Fetches, SameFiles

\* A block for the indirect place.  A page with old contents ends the model.
LEMMA AttachIndirect ==
    ASSUME NEW st, NEW w, NEW lost, Inv(st, w, lost), st.end = "no", NEW f \in FileNo, st.file[f].indirect = 0,
           NEW a, Allocates(st, a.st, a.r), NEW s, s = SetIndirect(a, f).st
    PROVE  /\ Inv(s, w, lost) /\ s.end \in {"no", "garbage"} /\ Fetches(st, s, f)
           /\ s.file[f].indirect # 0
<1>1. PICK b, s0 : b = a.r /\ s0 = a.st
  OBVIOUS
<1>2. /\ st \in State /\ Sound(st, w, lost) /\ st.dirty \subseteq st.mapped /\ Allocates(st, s0, b)
      /\ b \in DataBlock /\ b \in Block /\ b # 0 /\ s0 \in State /\ s0.file = st.file
  BY <1>1, Numbers DEF Inv, Allocates, State
<1>3. PICK s1 : s1 = PutIndirect(s0, f, b)
  OBVIOUS
<1>4. s = Garbage(s1, b)
  BY <1>1, <1>2, <1>3 DEF SetIndirect, PutIndirect
<1>5. /\ Rest(s0, s1) /\ s1.page = s0.page /\ SameFiles(s0, s1)
      /\ \A k \in FileNo : k # f => s1.file[k] = s0.file[k]
      /\ s1.file[f].indirect = b /\ s1.file[f].direct = s0.file[f].direct
  BY <1>2, <1>3, SetIndirectPtr
<1>6. /\ s1 \in State /\ s1.end = "no" /\ s1.free = st.free \ {b} /\ s1.disk.free \subseteq s1.free
      /\ s1.mapped = st.mapped \cup {b} /\ s1.dirty = st.dirty /\ s1.dirty \subseteq s1.mapped
  BY <1>2, <1>5 DEF Allocates, Rest
<1>7. SameFiles(st, s1) /\ Fetches(st, s1, f)
  BY <1>2, <1>5, <1>6 DEF Fetches, SameFiles
<1>8. CASE s1.page[b] # Zero
  <2>1. s = [s1 EXCEPT !.end = "garbage"]
    BY <1>4, <1>8 DEF Garbage
  <2>2. s \in State /\ s.file = s1.file /\ s.free = s1.free /\ s.dirty = s1.dirty /\ s.mapped = s1.mapped
        /\ s.disk = s1.disk /\ s.end = "garbage"
    BY <1>6, <2>1 DEF State
  <2>3. Inv(s, w, lost)
    BY <1>6, <2>2 DEF Inv
  <2>4. Fetches(st, s, f)
    BY <1>7, <2>2 DEF Fetches, SameFiles
  <2> QED BY <1>2, <1>5, <2>2, <2>3, <2>4
<1>9. CASE s1.page[b] = Zero
  <2>1. s = s1
    BY <1>4, <1>9 DEF Garbage
  <2>2. PICK x \in Slot : x = <<f, -1>> /\ At(st, x) = 0 /\ At(s1, x) = b /\ x[1] = f /\ x[2] = -1
    BY <1>5, AtIndirect
  <2>3. \A y \in Slot : At(st, y) # 0 => At(st, y) \in DataBlock /\ At(st, y) # b
    BY <1>2 DEF Sound, Linked, Allocates
  <2>4. \A k \in FileNo : st.file[k].indirect # b /\ st.file[k].indirect \in Block
    BY <1>2, <2>3, AtIndirect, FileFields
  <2>5. ASSUME NEW y \in Slot, y # x PROVE At(s1, y) = At(st, y)
    <3>1. PICK k \in FileNo : y = <<k, -1>> \/ \E i \in Bno : y = <<k, i>>
      BY SlotCases
    <3>2. CASE y = <<k, -1>>
      BY <1>2, <1>5, <2>2, <2>5, <3>2, AtIndirect
    <3>3. ASSUME NEW i \in Bno, y = <<k, i>> PROVE At(s1, y) = At(st, y)
      <4>1. CASE i \in 0..(NDIRECT - 1)
        <5>1. Ptr(s1, k, i) = s1.file[k].direct[i] /\ Ptr(st, k, i) = st.file[k].direct[i]
          BY <4>1, PtrDirect
        <5> QED BY <1>2, <1>5, <3>3, <5>1, AtPtr
      <4>2. CASE i \in Place
        <5>1. Ptr(s1, k, i) = IF s1.file[k].indirect = 0 THEN 0 ELSE s1.page[s1.file[k].indirect][i]
          BY <4>2, PtrPlace
        <5>2. Ptr(st, k, i) = IF st.file[k].indirect = 0 THEN 0 ELSE st.page[st.file[k].indirect][i]
          BY <4>2, PtrPlace
        <5>3. Zero[i] = 0
          BY <4>2 DEF Zero
        <5>4. s0.page[st.file[k].indirect] = st.page[st.file[k].indirect]
          BY <1>2, <2>4 DEF Allocates
        <5>5. CASE k = f
          BY <1>5, <1>9, <3>3, <5>1, <5>2, <5>3, <5>5, AtPtr
        <5>6. CASE k # f
          BY <1>2, <1>5, <3>3, <5>1, <5>2, <5>4, <5>6, AtPtr
        <5> QED BY <5>5, <5>6
      <4> QED BY <4>1, <4>2, Places
    <3> QED BY <3>1, <3>2, <3>3
  <2>6. ASSUME NEW k \in FileNo, NEW i \in Bno, Ptr(st, k, i) # 0
        PROVE  Cur(s1, Ptr(st, k, i)) = Cur(st, Ptr(st, k, i))
    <3>1. PICK c : c = Ptr(st, k, i)
      OBVIOUS
    <3>2. c \in DataBlock /\ c # b
      BY <2>3, <2>6, <3>1, AtPtr
    <3>3. Cur(s1, c) = Cur(s0, c)
      BY <1>5 DEF Cur, Rest
    <3> QED BY <1>2, <3>1, <3>2, <3>3 DEF Allocates
  <2>7. lost \/ x[2] < nblocks(st.file[x[1]].size)
    <3>1. st.file[f].size \in Nat
      BY <1>2, FileFields, Numbers
    <3>2. nblocks(st.file[f].size) \in Nat
      BY <3>1, NblocksGrow
    <3> QED BY <2>2, <3>2
  <2>8. Inv(s1, w, lost)
    <3>1. b \in st.free
      BY <1>2 DEF Allocates
    <3> QED BY <1>6, <1>7, <2>2, <2>5, <2>6, <2>7, <3>1, Attach
  <2> QED BY <1>2, <1>5, <1>6, <1>7, <2>1, <2>8
<1> QED BY <1>8, <1>9

\* What a request may leave when the model has ended.
Ended(st, s, f) ==
    Fetches(st, s, f) /\ s.end = "garbage" /\ s.dirty \subseteq s.mapped /\ s.disk.free \subseteq s.free

\* An ended state satisfies Inv.
LEMMA EndedInv == ASSUME NEW st, NEW s, NEW f, Ended(st, s, f), NEW w, NEW lost PROVE Inv(s, w, lost)
BY DEF Ended, Fetches, Inv

\* file_block_walk.
LEMMA Walk ==
    ASSUME NEW st, NEW w, NEW lost, Inv(st, w, lost), st.end = "no",
           NEW f \in FileNo, NEW bno \in Bno, NEW alloc \in BOOLEAN,
           NEW wk, wk = file_block_walk(st, f, bno, alloc)
    PROVE  /\ Inv(wk.st, w, lost) /\ wk.st.end \in {"no", "garbage"} /\ Fetches(st, wk.st, f)
           /\ wk.r = "OK" /\ bno \in Place => wk.st.file[f].indirect # 0
           /\ ~alloc \/ bno < NDIRECT => wk.st.end = "no"
           /\ bno < NDIRECT => wk.r = "OK"
<1>1. st \in State /\ Fetches(st, st, f) /\ Sound(st, w, lost)
  BY DEF Inv, Fetches, SameFiles
<1>2. ~(bno >= NINDIRECT)
  BY Numbers DEF Bno
<1>3. CASE bno < NDIRECT
  <2>1. wk = [st |-> st, r |-> "OK"]
    BY <1>3 DEF file_block_walk
  <2> QED BY <1>1, <1>3, <2>1, Places
<1>4. CASE ~(bno < NDIRECT) /\ st.file[f].indirect # 0
  <2>1. PICK s : s = read_block(st, st.file[f].indirect)
    OBVIOUS
  <2>2. wk = [st |-> s, r |-> "OK"]
    BY <1>2, <1>4, <2>1 DEF file_block_walk
  <2>3. PICK b \in Block : b = st.file[f].indirect /\ b \notin st.free
    BY <1>1, <1>4, AtIndirect, Numbers DEF Sound, Linked
  <2>4. Reads(st, s)
    BY <1>1, <2>1, <2>3, ReadBlock
  <2>5. Inv(s, w, lost) /\ SameFiles(st, s) /\ s.end = "no" /\ s.file = st.file /\ Fetches(st, s, f)
    BY <1>1, <2>4, ReadsInv DEF Reads, Fetches
  <2> QED BY <1>4, <2>2, <2>5
<1>5. CASE ~(bno < NDIRECT) /\ st.file[f].indirect = 0 /\ ~alloc
  <2>1. wk = [st |-> st, r |-> "E_NOT_FOUND"]
    BY <1>2, <1>5 DEF file_block_walk
  <2> QED BY <1>1, <1>5, <2>1
<1>6. CASE ~(bno < NDIRECT) /\ st.file[f].indirect = 0 /\ alloc
  <2>1. PICK a : a = alloc_block(st)
    OBVIOUS
  <2>2. wk = SetIndirect(a, f)
    BY <1>2, <1>6, <2>1 DEF file_block_walk
  <2>3. CASE st.free = {}
    <3>1. wk = [st |-> st, r |-> "E_NO_DISK"]
      BY <2>1, <2>2, <2>3 DEF alloc_block, SetIndirect
    <3>2. wk.st = st /\ wk.r # "OK"
      BY <3>1
    <3> QED BY <1>1, <1>6, <3>2
  <2>4. CASE st.free # {}
    <3>1. Allocates(st, a.st, a.r)
      BY <1>1, <2>1, <2>4, AllocBlock
    <3> QED BY <1>6, <2>2, <3>1, AttachIndirect
  <2> QED BY <2>3, <2>4
<1> QED BY <1>3, <1>4, <1>5, <1>6

\* file_map_block.
LEMMA MapBlock ==
    ASSUME NEW st, NEW w, NEW lost, Inv(st, w, lost), st.end = "no",
           NEW f \in FileNo, NEW bno \in Bno, NEW alloc \in BOOLEAN,
           alloc => lost \/ bno < nblocks(st.file[f].size),
           NEW m, m = file_map_block(st, f, bno, alloc)
    PROVE  /\ Inv(m.st, w, lost) /\ m.st.end \in {"no", "garbage"} /\ Fetches(st, m.st, f) /\ m.r \in Nat
           /\ m.st.end = "no" /\ m.r # 0 => m.r = Ptr(m.st, f, bno) /\ m.r \in DataBlock /\ m.r \notin m.st.free
           /\ ~alloc \/ bno < NDIRECT => m.st.end = "no"
<1>1. PICK wk : wk = file_block_walk(st, f, bno, alloc)
  OBVIOUS
<1>2. PICK s : s = wk.st
  OBVIOUS
<1>3. /\ Inv(s, w, lost) /\ s.end \in {"no", "garbage"} /\ Fetches(st, s, f)
      /\ wk.r = "OK" /\ bno \in Place => s.file[f].indirect # 0
      /\ ~alloc \/ bno < NDIRECT => s.end = "no"
  BY <1>1, <1>2, Walk
<1>4. m = MapWalked(wk, f, bno, alloc)
  BY <1>1 DEF file_map_block
<1>5. s \in State /\ Ptr(s, f, bno) \in Nat /\ s.dirty \subseteq s.mapped
  BY <1>3, PtrNat DEF Inv
<1>6. CASE wk.r # "OK"
  <2>1. m.st = s /\ m.r = 0
    BY <1>2, <1>4, <1>6 DEF MapWalked
  <2> QED BY <1>3, <2>1
<1>7. CASE wk.r = "OK" /\ (Ptr(s, f, bno) # 0 \/ ~alloc)
  <2>1. m.st = s /\ m.r = Ptr(s, f, bno)
    BY <1>2, <1>4, <1>7 DEF MapWalked
  <2>2. s.end = "no" /\ m.r # 0 => m.r \in DataBlock /\ m.r \notin s.free
    <3>1. <<f, bno>> \in Slot /\ At(s, <<f, bno>>) = m.r
      BY <2>1, AtPtr
    <3>2. s.end = "no" => Linked(s)
      BY <1>3 DEF Inv, Sound
    <3> QED BY <3>1, <3>2 DEF Linked
  <2> QED BY <1>3, <1>5, <2>1, <2>2
<1>8. CASE wk.r = "OK" /\ Ptr(s, f, bno) = 0 /\ alloc
  <2>1. PICK a : a = alloc_block(s)
    OBVIOUS
  <2>2. m = MapAllocated(a, f, bno)
    BY <1>2, <1>4, <1>8, <2>1 DEF MapWalked
  <2>3. CASE s.free = {}
    <3>1. m.st = s /\ m.r = 0
      BY <2>1, <2>2, <2>3 DEF alloc_block, MapAllocated
    <3> QED BY <1>3, <3>1
  <2>4. CASE s.free # {}
    <3>1. PICK s0, b : s0 = a.st /\ b = a.r
      OBVIOUS
    <3>2. Allocates(s, s0, b) /\ b \in Block /\ b \in DataBlock /\ b # 0 /\ s0 \in State
      <4>1. Allocates(s, s0, b)
        BY <1>5, <2>1, <2>4, <3>1, AllocBlock
      <4> QED BY <1>5, <4>1, Numbers DEF Allocates, State
    <3>3. PICK t : t = SetPtr(s0, f, bno, b)
      OBVIOUS
    <3>4. m.st = t /\ m.r = b /\ b \in Nat
      BY <2>2, <3>1, <3>2, <3>3, Numbers DEF MapAllocated
    <3>5. CASE s.end = "no"
      <4>1. lost \/ bno < nblocks(s.file[f].size)
        BY <1>3, <1>8 DEF Fetches, SameFiles
      <4>2. /\ Inv(t, w, lost) /\ t.end = "no" /\ Fetches(s, t, f)
            /\ Ptr(t, f, bno) = b /\ b \in t.mapped /\ b \notin t.free
        BY <1>3, <1>8, <2>4, <3>2, <3>3, <3>5, <4>1, AttachPtr
      <4>3. Fetches(st, t, f)
        BY <1>3, <4>2, FetchesTwice
      <4> QED BY <3>2, <3>4, <4>2, <4>3
    <3>6. CASE s.end = "garbage"
      <4>1. /\ Rest(s0, t) /\ SameFiles(s0, t) /\ \A k \in FileNo : k # f => t.file[k] = s0.file[k]
        <5>1. CASE bno \in 0..(NDIRECT - 1)
          <6>1. /\ Rest(s0, t) /\ t.page = s0.page /\ SameFiles(s0, t)
                /\ \A k \in FileNo : k # f => t.file[k] = s0.file[k]
                /\ t.file[f].indirect = s0.file[f].indirect
                /\ t.file[f].direct = [s0.file[f].direct EXCEPT ![bno] = b]
            BY <3>2, <3>3, <5>1, SetDirect
          <6> QED BY <6>1
        <5>2. CASE bno \in Place
          <6>1. PICK c \in Block : c = s0.file[f].indirect
            BY <3>2, FileFields
          <6>2. Rest(s0, t) /\ t.file = s0.file
            BY <3>2, <3>3, <5>2, <6>1, SetPlace
          <6> QED BY <6>2 DEF SameFiles
        <5> QED BY <5>1, <5>2, Places
      <4>2. Ended(s, t, f)
        BY <1>5, <3>2, <3>6, <4>1 DEF Ended, Fetches, Rest, Allocates, SameFiles
      <4>3. Inv(t, w, lost) /\ t.end = "garbage" /\ Fetches(st, t, f)
        BY <1>3, <4>2, EndedInv, FetchesTwice DEF Ended
      <4> QED BY <1>3, <3>4, <3>6, <4>3
    <3> QED BY <1>3, <3>5, <3>6
  <2> QED BY <2>3, <2>4
<1> QED BY <1>6, <1>7, <1>8

\* file_get_block: the block is there, in memory, and nobody else has it.
LEMMA GetBlock ==
    ASSUME NEW st, NEW w, NEW lost, Inv(st, w, lost), st.end = "no",
           NEW f \in FileNo, NEW bno \in Bno, lost \/ bno < nblocks(st.file[f].size),
           NEW g, g = file_get_block(st, f, bno)
    PROVE  /\ Inv(g.st, w, lost) /\ g.st.end \in {"no", "garbage"} /\ Fetches(st, g.st, f)
           /\ g.st.end = "no" /\ g.r # 0 => g.r = Ptr(g.st, f, bno) /\ g.r \in DataBlock /\ g.r \in g.st.mapped
           /\ bno < NDIRECT => g.st.end = "no"
<1>0. PICK alloc \in BOOLEAN : alloc
  OBVIOUS
<1>1. PICK m : m = file_map_block(st, f, bno, alloc)
  OBVIOUS
<1>2. PICK s, b : s = m.st /\ b = m.r
  OBVIOUS
<1>3. /\ Inv(s, w, lost) /\ s.end \in {"no", "garbage"} /\ Fetches(st, s, f) /\ b \in Nat
      /\ s.end = "no" /\ b # 0 => b = Ptr(s, f, bno) /\ b \in DataBlock /\ b \notin s.free
      /\ bno < NDIRECT => s.end = "no"
  <2>1. /\ Inv(m.st, w, lost) /\ m.st.end \in {"no", "garbage"} /\ Fetches(st, m.st, f) /\ m.r \in Nat
        /\ m.st.end = "no" /\ m.r # 0 => m.r = Ptr(m.st, f, bno) /\ m.r \in DataBlock /\ m.r \notin m.st.free
        /\ ~alloc \/ bno < NDIRECT => m.st.end = "no"
    <3>1. alloc => lost \/ bno < nblocks(st.file[f].size)
      OBVIOUS
    <3> QED BY <1>1, <3>1, MapBlock
  <2> QED BY <1>0, <1>2, <2>1
<1>4. g = ReadMapped(m) /\ s \in State
  <2>1. alloc = TRUE
    BY <1>0
  <2> QED BY <1>1, <1>3, <2>1 DEF file_get_block, Inv
<1>5. CASE b = 0
  <2>1. g.st = s /\ g.r = 0
    BY <1>2, <1>4, <1>5 DEF ReadMapped
  <2> QED BY <1>3, <2>1
<1>6. CASE b # 0
  <2>1. PICK t : t = read_block(s, b)
    OBVIOUS
  <2>2. g.st = t /\ g.r = b
    BY <1>2, <1>4, <1>6, <2>1 DEF ReadMapped
  <2>3. CASE s.end = "no"
    <3>1. b \in Block /\ b \in DataBlock /\ b \notin s.free /\ b = Ptr(s, f, bno)
      BY <1>3, <1>6, <2>3, Numbers
    <3>2. Reads(s, t) /\ b \in t.mapped
      BY <1>4, <2>1, <3>1, ReadBlock
    <3>3. Inv(t, w, lost) /\ SamePlaces(s, t) /\ SameFiles(s, t)
      BY <1>3, <2>3, <3>2, ReadsInv
    <3>4. Fetches(s, t, f) /\ t.end = "no"
      BY <2>3, <3>2, <3>3 DEF Reads, Fetches
    <3>5. Fetches(st, t, f)
      BY <1>3, <3>4, FetchesTwice
    <3>6. Ptr(t, f, bno) = Ptr(s, f, bno)
      BY <3>3, AtPtr DEF SamePlaces
    <3> QED BY <2>2, <3>1, <3>2, <3>3, <3>4, <3>5, <3>6
  <2>4. CASE s.end = "garbage"
    <3>1. t \in State /\ t.file = s.file /\ t.free = s.free /\ t.dirty = s.dirty /\ t.disk = s.disk
          /\ t.end = "garbage" /\ s.mapped \subseteq t.mapped
      BY <1>3, <1>4, <2>1, <2>4, ReadEnded
    <3>2. Ended(s, t, f)
      BY <1>3, <3>1 DEF Ended, Fetches, SameFiles, Inv
    <3>3. Inv(t, w, lost) /\ Fetches(st, t, f)
      BY <1>3, <3>2, EndedInv, FetchesTwice DEF Ended
    <3> QED BY <1>3, <2>2, <2>4, <3>1, <3>3
  <2> QED BY <1>3, <2>3, <2>4
<1> QED BY <1>5, <1>6

-------------------------------------------------------------------------------
\* Blocks are given back.

\* The indirect block is in memory already.
LEMMA IndirectRead ==
    ASSUME NEW st \in State, Linked(st), NEW f \in FileNo, NEW bnos
    PROVE  ReadIndirect(st, f, bnos) = st
<1>1. CASE st.file[f].indirect = 0
  BY <1>1 DEF ReadIndirect
<1>2. CASE st.file[f].indirect # 0
  <2>1. PICK b \in Block : b = st.file[f].indirect /\ b \in st.mapped /\ b \notin st.free
    BY <1>2, AtIndirect, FileFields DEF Linked
  <2>2. ~(b >= NBLK)
    BY <2>1, Numbers DEF Block
  <2>3. read_block(st, b) = st
    BY <2>1, <2>2 DEF read_block
  <2> QED BY <2>1, <2>3 DEF ReadIndirect
<1> QED BY <1>1, <1>2

\* file_clear_block for a set of blocks.
LEMMA ClearBlocks ==
    ASSUME NEW st \in State, Linked(st), NEW f \in FileNo, NEW bnos \in SUBSET Nat,
           NEW s, s = file_clear_blocks(st, f, bnos)
    PROVE  /\ s \in State /\ s.dirty = st.dirty /\ s.mapped = st.mapped /\ s.disk = st.disk /\ s.end = st.end
           /\ SameFiles(st, s) /\ \A k \in FileNo : k # f => s.file[k] = st.file[k]
           /\ s.file[f].indirect = st.file[f].indirect
           /\ \A i \in 0..(NDIRECT - 1) : s.file[f].direct[i] = IF i \in bnos THEN 0 ELSE st.file[f].direct[i]
           /\ \A c \in Block : c # st.file[f].indirect \/ c = 0 => s.page[c] = st.page[c]
           /\ st.file[f].indirect # 0 => \A i \in Place : s.page[st.file[f].indirect][i] =
                     IF i \in bnos THEN 0 ELSE st.page[st.file[f].indirect][i]
           /\ s.free = st.free \cup ({Ptr(st, f, bno) : bno \in bnos \cap Bno} \ {0})
<1>1. PICK B : B = {Ptr(st, f, bno) : bno \in bnos \cap Bno}
  OBVIOUS
<1>2. PICK d : d = [i \in 0..(NDIRECT - 1) |-> IF i \in bnos THEN 0 ELSE st.file[f].direct[i]]
  OBVIOUS
<1>3. d \in [0..(NDIRECT - 1) -> Block] /\ DOMAIN st.file[f].direct = 0..(NDIRECT - 1)
  BY <1>2, FileFields, Numbers
<1>4. PICK g : g = [st.file[f] EXCEPT !.direct = d]
  OBVIOUS
<1>5. /\ g \in File /\ g.direct = d /\ g.indirect = st.file[f].indirect /\ g.name = st.file[f].name
      /\ g.size = st.file[f].size /\ g.f_dir = st.file[f].f_dir
  <2>1. st.file[f] \in File
    BY FileFields
  <2> QED BY <1>3, <1>4, <2>1 DEF File
<1>6. PICK h : h = [st.file EXCEPT ![f] = g]
  OBVIOUS
<1>7. h \in [FileNo -> File] /\ h[f] = g /\ \A k \in FileNo : k # f => h[k] = st.file[k]
  <2>1. st.file \in [FileNo -> File]
    BY DEF State
  <2> QED BY <1>5, <1>6, <2>1
<1>8. PICK s1 : s1 = [st EXCEPT !.file = h]
  OBVIOUS
<1>9. /\ s1 \in State /\ s1.file = h /\ s1.page = st.page /\ s1.free = st.free /\ s1.dirty = st.dirty
      /\ s1.mapped = st.mapped /\ s1.disk = st.disk /\ s1.end = st.end
  BY <1>7, <1>8 DEF State
<1>10. s1 = [st EXCEPT !.file[f].direct = [i \in DOMAIN @ |-> IF i \in bnos THEN 0 ELSE @[i]]]
  BY <1>2, <1>3, <1>4, <1>6, <1>8 DEF State
<1>11. PICK c \in Block : c = st.file[f].indirect
  BY FileFields
<1>12. PICK p : p = [i \in Place |-> IF i \in bnos THEN 0 ELSE st.page[c][i]]
  OBVIOUS
<1>13. p \in Page /\ st.page \in [Block -> Page]
  <2>1. st.page \in [Block -> Page] /\ st.page[c] \in Page
    BY DEF State
  <2> QED BY <1>12, <2>1, Numbers DEF Page
<1>14. PICK q : q = IF c = 0 THEN st.page ELSE [st.page EXCEPT ![c] = p]
  OBVIOUS
<1>15. q \in [Block -> Page] /\ (c # 0 => q[c] = p) /\ \A e \in Block : e # c \/ e = 0 => q[e] = st.page[e]
  BY <1>13, <1>14
<1>16. PICK s2 : s2 = [s1 EXCEPT !.page = q]
  OBVIOUS
<1>17. /\ s2 \in State /\ s2.file = h /\ s2.page = q /\ s2.free = st.free /\ s2.dirty = st.dirty
       /\ s2.mapped = st.mapped /\ s2.disk = st.disk /\ s2.end = st.end
  BY <1>9, <1>15, <1>16 DEF State
<1>18. s = free_blocks(s2, B)
  <2>1. ReadIndirect(st, f, bnos) = st
    BY IndirectRead
  <2>2. CASE c = 0
    <3>1. s2 = s1
      BY <1>9, <1>14, <1>16, <2>2 DEF State
    <3> QED BY <1>1, <1>10, <1>11, <2>1, <2>2, <3>1 DEF file_clear_blocks
  <2>3. CASE c # 0
    <3>1. s2 = [s1 EXCEPT !.page[c] = [i \in Place |-> IF i \in bnos THEN 0 ELSE @[i]]]
      BY <1>9, <1>12, <1>14, <1>16, <2>3 DEF State
    <3> QED BY <1>1, <1>10, <1>11, <2>1, <2>3, <3>1 DEF file_clear_blocks
  <2> QED BY <2>2, <2>3
<1>19. PICK r : r = st.free \cup (B \ {0})
  OBVIOUS
<1>20. r \in SUBSET DataBlock
  <2>1. \A bno \in Bno : Ptr(st, f, bno) # 0 => Ptr(st, f, bno) \in DataBlock
    BY AtPtr DEF Linked
  <2> QED BY <1>1, <1>19, <2>1 DEF State
<1>21. s = [s2 EXCEPT !.free = r]
  BY <1>17, <1>18, <1>19 DEF free_blocks, State
<1>22. /\ s \in State /\ s.file = h /\ s.page = q /\ s.free = r /\ s.dirty = st.dirty
       /\ s.mapped = st.mapped /\ s.disk = st.disk /\ s.end = st.end
  BY <1>17, <1>20, <1>21 DEF State
<1>23. SameFiles(st, s)
  BY <1>5, <1>7, <1>22 DEF SameFiles
<1>24. \A i \in 0..(NDIRECT - 1) : s.file[f].direct[i] = IF i \in bnos THEN 0 ELSE st.file[f].direct[i]
  <2>1. s.file[f].direct = d
    BY <1>5, <1>7, <1>22
  <2> QED BY <1>2, <2>1
<1>25. c # 0 => \A i \in Place : s.page[c][i] = IF i \in bnos THEN 0 ELSE st.page[c][i]
  BY <1>12, <1>15, <1>22
<1> QED BY <1>1, <1>5, <1>7, <1>11, <1>15, <1>19, <1>22, <1>23, <1>24, <1>25

\* s is st without the blocks of the slots in D; those of R are free, and v is what is
\* left of the written blocks w.
Loses(st, s, D, R, w, v, lost) ==
    /\ s \in State /\ s.end = "no" /\ D \in SUBSET Slot /\ R \in SUBSET D
    /\ \A x \in Slot : At(s, x) = IF x \in D THEN 0 ELSE At(st, x)
    /\ st.free \subseteq s.free /\ \A b \in s.free : b \in st.free \/ \E x \in R : b = At(st, x)
    /\ \A x \in R : At(st, x) # 0 => At(st, x) \in s.free
    /\ s.disk.free = st.disk.free /\ s.mapped = st.mapped /\ s.dirty = st.dirty
    /\ \A i \in Bno : <<Root, i>> \notin D
    /\ s.file[Root].size = st.file[Root].size
    /\ \A k \in Entry : s.file[k].f_dir => st.file[k].f_dir
    /\ \A f \in FileNo, bno \in Bno : <<f, bno>> \notin D /\ Ptr(st, f, bno) # 0 =>
          /\ ~lost => bno < nblocks(s.file[f].size)
          /\ Cur(s, Ptr(st, f, bno)) = Cur(st, Ptr(st, f, bno))
    /\ ~lost => \A x \in D \ R : At(st, x) = 0
    /\ \A f \in Entry, bno \in Bno : v[f][bno] # Unwritten => v[f][bno] = w[f][bno] /\ <<f, bno>> \notin D

\* The only way out of the structure.
LEMMA Detach ==
    ASSUME NEW st, NEW w, NEW lost, Inv(st, w, lost), st.end = "no",
           NEW s, NEW D, NEW R, NEW v, Loses(st, s, D, R, w, v, lost)
    PROVE  Inv(s, v, lost)
<1> USE DEF Loses
<1>1. st \in State /\ Sound(st, w, lost) /\ st.dirty \subseteq st.mapped /\ st.disk.free \subseteq st.free
  BY DEF Inv
<1>2. \A f \in FileNo, bno \in Bno : Ptr(s, f, bno) = IF <<f, bno>> \in D THEN 0 ELSE Ptr(st, f, bno)
  <2>1. SUFFICES ASSUME NEW f \in FileNo, NEW bno \in Bno
                 PROVE  Ptr(s, f, bno) = IF <<f, bno>> \in D THEN 0 ELSE Ptr(st, f, bno)
    OBVIOUS
  <2>2. <<f, bno>> \in Slot /\ At(s, <<f, bno>>) = Ptr(s, f, bno) /\ At(st, <<f, bno>>) = Ptr(st, f, bno)
    BY AtPtr
  <2> QED BY <2>2
<1>3. Linked(s)
  <2>1. ASSUME NEW x \in Slot, At(s, x) # 0 PROVE At(s, x) \in DataBlock \ s.free
    <3>1. x \notin D /\ At(s, x) = At(st, x) /\ At(st, x) \in DataBlock \ st.free
      BY <1>1, <2>1 DEF Sound, Linked
    <3>2. \A y \in R : At(st, y) # At(st, x)
      BY <1>1, <2>1, <3>1 DEF Sound, Linked
    <3> QED BY <3>1, <3>2
  <2>2. \A x, y \in Slot : At(s, x) = At(s, y) /\ At(s, x) # 0 => x = y
    BY <1>1 DEF Sound, Linked
  <2>3. ASSUME NEW f \in FileNo, s.file[f].indirect # 0 PROVE s.file[f].indirect \in s.mapped
    <3>1. <<f, -1>> \in Slot /\ At(s, <<f, -1>>) = s.file[f].indirect /\ At(st, <<f, -1>>) = st.file[f].indirect
      BY AtIndirect
    <3> QED BY <1>1, <2>3, <3>1 DEF Sound, Linked
  <2> QED BY <2>1, <2>2, <2>3 DEF Linked
<1>4. DirOK(s)
  <2>1. SUFFICES ASSUME NEW k \in Entry, s.file[k].f_dir PROVE InDir(s, k) /\ DirBlock(s, k) \in s.dirty
    BY DEF DirOK
  <2>2. InDir(st, k) /\ DirBlock(st, k) \in st.dirty
    BY <1>1, <2>1 DEF Sound, DirOK
  <2>3. PICK i \in Bno : <<Root, i>> \in Slot /\ i = (k - 1) \div FILE2BLK
                          /\ At(st, <<Root, i>>) = DirBlock(st, k) /\ i \in 0..(NDIRECT - 1)
    BY <1>1, DirSlot
  <2>4. At(s, <<Root, i>>) = DirBlock(s, k)
    BY <2>3, AtPtr, PtrDirect, Numbers DEF DirBlock
  <2>5. DirBlock(s, k) = DirBlock(st, k)
    BY <2>3, <2>4
  <2> QED BY <2>2, <2>5 DEF InDir
<1>5. Contents(s, v)
  <2>1. SUFFICES ASSUME NEW f \in Entry, NEW bno \in Bno, v[f][bno] # Unwritten
                 PROVE  Ptr(s, f, bno) # 0 /\ Cur(s, Ptr(s, f, bno)) = Full(v[f][bno])
    BY DEF Contents
  <2>2. f \in FileNo /\ <<f, bno>> \notin D /\ Ptr(st, f, bno) # 0 /\ Cur(st, Ptr(st, f, bno)) = Full(v[f][bno])
    BY <1>1, <2>1, Numbers DEF Sound, Contents
  <2> QED BY <1>2, <2>2
<1>6. ASSUME ~lost PROVE Owned(s)
  <2>1. ASSUME NEW f \in FileNo, NEW bno \in Bno, Ptr(s, f, bno) # 0 PROVE bno < nblocks(s.file[f].size)
    BY <1>2, <1>6, <2>1
  <2>2. ASSUME NEW c \in DataBlock \ s.free PROVE \E y \in Slot : At(s, y) = c
    <3>1. PICK y \in Slot : At(st, y) = c
      BY <1>1, <1>6, <2>2 DEF Sound, Owned
    <3>2. c # 0
      BY Numbers
    <3>3. y \notin R
      BY <2>2, <3>1, <3>2
    <3>4. y \notin D
      BY <1>6, <3>1, <3>2, <3>3
    <3> QED BY <3>1, <3>4
  <2> QED BY <2>1, <2>2 DEF Owned
<1> QED BY <1>1, <1>3, <1>4, <1>5, <1>6 DEF Inv, Sound

PutSize(st, f, n) == [st EXCEPT !.file[f].size = n]

\* The size of a file is set.
LEMMA SetSize ==
    ASSUME NEW st \in State, NEW f \in FileNo, NEW n \in 0..(NINDIRECT * BY2BLK), NEW s, s = PutSize(st, f, n)
    PROVE  /\ Rest(st, s) /\ s.page = st.page /\ SamePlaces(st, s)
           /\ \A k \in FileNo : /\ k # f => s.file[k] = st.file[k] 
                                /\ s.file[k].f_dir = st.file[k].f_dir /\ s.file[k].name = st.file[k].name
           /\ s.file[f].size = n
<1>2. PICK g : g = [st.file[f] EXCEPT !.size = n]
  OBVIOUS
<1>3. /\ g \in File /\ g.direct = st.file[f].direct /\ g.indirect = st.file[f].indirect
      /\ g.name = st.file[f].name /\ g.size = n /\ g.f_dir = st.file[f].f_dir
  <2>1. st.file[f] \in File
    BY FileFields
  <2> QED BY <1>2, <2>1 DEF File
<1>4. PICK h : h = [st.file EXCEPT ![f] = g]
  OBVIOUS
<1>5. h \in [FileNo -> File] /\ h[f] = g /\ \A k \in FileNo : k # f => h[k] = st.file[k]
  <2>1. st.file \in [FileNo -> File]
    BY DEF State
  <2> QED BY <1>3, <1>4, <2>1
<1>6. s = [st EXCEPT !.file = h]
  BY <1>2, <1>4 DEF State, PutSize
<1>7. s.file = h /\ Rest(st, s) /\ s.page = st.page
  BY <1>5, <1>6 DEF State, Rest
<1>8. SamePlaces(st, s)
  BY <1>3, <1>5, <1>7, PlacesKept
<1> QED BY <1>3, <1>5, <1>7, <1>8

\* The written blocks that are left after a truncation.
Cut(w, f, size) ==
    [w EXCEPT ![f] = [bno \in Bno |-> IF size = 0 \/ bno >= nblocks(size) THEN Unwritten ELSE w[f][bno]]]

\* The first block to go.
FirstCut(size) == IF size = 0 THEN 0 ELSE nblocks(size)

\* s is st with f truncated.
Truncated(st, s, f, size) ==
    /\ s.end = "no" /\ s.mapped = st.mapped /\ s.dirty = st.dirty /\ s.file[f].size = size
    /\ \A k \in FileNo : k # f => s.file[k] = st.file[k]

\* file_truncate.
LEMMA Truncate ==
    ASSUME NEW st, NEW w \in Written, NEW lost, Inv(st, w, lost), st.end = "no", NEW f \in Entry,
           NEW size \in 0..(NINDIRECT * BY2BLK), size <= st.file[f].size
    PROVE  /\ Inv(file_truncate(st, f, size), Cut(w, f, size), lost)
           /\ Truncated(st, file_truncate(st, f, size), f, size)
<1>0. PICK s : s = file_truncate(st, f, size)
  OBVIOUS
<1>1. /\ st \in State /\ Sound(st, w, lost) /\ Linked(st) /\ st.dirty \subseteq st.mapped /\ st.disk.free \subseteq st.free
      /\ f \in FileNo /\ f # Root
  BY Numbers DEF Inv, Sound
<1>2. PICK new, old : new = FirstCut(size) /\ old = nblocks(st.file[f].size)
  OBVIOUS
<1>3. new \in Nat /\ old \in Nat /\ new <= old
  <2>1. size \in Nat /\ st.file[f].size \in Nat
    BY <1>1, FileFields, Numbers
  <2> QED BY <1>2, <2>1, NblocksGrow DEF FirstCut
<1>4. PICK bnos \in SUBSET Nat : bnos = new..(old - 1)
  BY <1>3
<1>5. PICK s1 : s1 = file_clear_blocks(st, f, bnos)
  OBVIOUS
<1>6. PICK c \in Block : c = st.file[f].indirect
  BY <1>1, FileFields
<1>7. /\ s1 \in State /\ s1.dirty = st.dirty /\ s1.mapped = st.mapped /\ s1.disk = st.disk /\ s1.end = st.end
      /\ SameFiles(st, s1) /\ \A k \in FileNo : k # f => s1.file[k] = st.file[k]
      /\ s1.file[f].indirect = c
      /\ \A i \in 0..(NDIRECT - 1) : s1.file[f].direct[i] = IF i \in bnos THEN 0 ELSE st.file[f].direct[i]
      /\ \A e \in Block : e # c \/ e = 0 => s1.page[e] = st.page[e]
      /\ c # 0 => \A i \in Place : s1.page[c][i] = IF i \in bnos THEN 0 ELSE st.page[c][i]
      /\ s1.free = st.free \cup ({Ptr(st, f, bno) : bno \in bnos \cap Bno} \ {0})
  BY <1>1, <1>5, <1>6, ClearBlocks
<1>8. PICK all \in BOOLEAN : all <=> new <= NDIRECT
  OBVIOUS
<1>9. PICK s2 : s2 = IF all THEN PutIndirect(free_blocks(s1, {c}), f, 0) ELSE s1
  OBVIOUS
<1>10. s = PutSize(s2, f, size)
  BY <1>0, <1>2, <1>4, <1>5, <1>7, <1>8, <1>9 DEF file_truncate, PutSize, PutIndirect, FirstCut
<1>11. /\ s2 \in State /\ s2.dirty = st.dirty /\ s2.mapped = st.mapped /\ s2.disk = st.disk /\ s2.end = st.end
       /\ SameFiles(st, s2) /\ \A k \in FileNo : k # f => s2.file[k] = st.file[k]
       /\ s2.page = s1.page /\ s2.file[f].direct = s1.file[f].direct
       /\ s2.file[f].indirect = IF all THEN 0 ELSE c
       /\ s2.free = IF all THEN s1.free \cup ({c} \ {0}) ELSE s1.free
  <2>1. CASE ~all
    BY <1>7, <1>9, <2>1
  <2>2. CASE all
    <3>1. PICK t : t = free_blocks(s1, {c})
      OBVIOUS
    <3>2. c # 0 => c \in DataBlock
      <4>1. <<f, -1>> \in Slot /\ At(st, <<f, -1>>) = c
        BY <1>1, <1>6, AtIndirect
      <4> QED BY <1>1, <4>1 DEF Linked
    <3>3. /\ t \in State /\ t.file = s1.file /\ t.page = s1.page /\ t.free = s1.free \cup ({c} \ {0})
          /\ t.dirty = s1.dirty /\ t.mapped = s1.mapped /\ t.disk = s1.disk /\ t.end = s1.end
      <4>1. s1.free \cup ({c} \ {0}) \in SUBSET DataBlock
        BY <1>7, <3>2 DEF State
      <4> QED BY <1>7, <3>1, <4>1 DEF free_blocks, State
    <3>4. s2 = PutIndirect(t, f, 0) /\ 0 \in Block
      BY <1>9, <2>2, <3>1, Numbers
    <3>5. /\ Rest(t, s2) /\ s2.page = t.page /\ SameFiles(t, s2)
          /\ \A k \in FileNo : k # f => s2.file[k] = t.file[k]
          /\ s2.file[f].indirect = 0 /\ s2.file[f].direct = t.file[f].direct
      BY <1>1, <3>3, <3>4, SetIndirectPtr
    <3>6. SameFiles(st, s2)
      BY <1>7, <3>3, <3>5 DEF SameFiles
    <3> QED BY <1>7, <2>2, <3>3, <3>5, <3>6 DEF Rest
  <2> QED BY <2>1, <2>2
<1>12. /\ Rest(s2, s) /\ s.page = s2.page /\ SamePlaces(s2, s)
       /\ \A k \in FileNo : /\ k # f => s.file[k] = s2.file[k] 
                            /\ s.file[k].f_dir = s2.file[k].f_dir /\ s.file[k].name = s2.file[k].name
       /\ s.file[f].size = size
  BY <1>1, <1>10, <1>11, SetSize
<1> DEFINE D == {<<f, bno>> : bno \in bnos \cap Bno}
                \cup IF all THEN {<<f, bno>> : bno \in Place} \cup {<<f, -1>>} ELSE {}
           R == {<<f, bno>> : bno \in bnos \cap Bno} \cup IF all THEN {<<f, -1>>} ELSE {}
<1>13. D \in SUBSET Slot /\ R \in SUBSET D
  BY <1>1, Numbers DEF Slot
<1>14. /\ \A k \in FileNo, i \in Bno : <<k, i>> \in D <=> k = f /\ (i \in bnos \/ (all /\ i \in Place))
       /\ \A k \in FileNo : <<k, -1>> \in D <=> k = f /\ all
  BY Places
<1>15. ASSUME NEW k \in FileNo, NEW i \in Bno
       PROVE  Ptr(s2, k, i) = IF <<k, i>> \in D THEN 0 ELSE Ptr(st, k, i)
  <2> HIDE DEF D, R
  <2>1. CASE i \in 0..(NDIRECT - 1)
    <3>1. Ptr(s2, k, i) = s2.file[k].direct[i] /\ Ptr(st, k, i) = st.file[k].direct[i] /\ i \notin Place
      BY <2>1, PtrDirect, Places
    <3>2. CASE k = f
      BY <1>7, <1>11, <1>14, <2>1, <3>1, <3>2
    <3>3. CASE k # f
      BY <1>7, <1>11, <1>14, <3>1, <3>3
    <3> QED BY <3>2, <3>3
  <2>2. CASE i \in Place
    <3>1. Ptr(s2, k, i) = IF s2.file[k].indirect = 0 THEN 0 ELSE s2.page[s2.file[k].indirect][i]
      BY <2>2, PtrPlace
    <3>2. Ptr(st, k, i) = IF st.file[k].indirect = 0 THEN 0 ELSE st.page[st.file[k].indirect][i]
      BY <2>2, PtrPlace
    <3>3. CASE k = f
      <4>1. CASE all
        BY <1>11, <1>14, <2>2, <3>1, <3>3, <4>1
      <4>2. CASE ~all
        BY <1>6, <1>7, <1>11, <1>14, <2>2, <3>1, <3>2, <3>3, <4>2
      <4> QED BY <4>1, <4>2
    <3>4. CASE k # f
      <4>1. s2.file[k].indirect = st.file[k].indirect /\ <<k, i>> \notin D /\ st.file[k].indirect \in Block
        BY <1>1, <1>11, <1>14, <3>4, FileFields
      <4>2. st.file[k].indirect # 0 => st.file[k].indirect # c
        <5>1. /\ <<k, -1>> \in Slot /\ <<f, -1>> \in Slot /\ At(st, <<k, -1>>) = st.file[k].indirect
              /\ At(st, <<f, -1>>) = c /\ <<k, -1>> # <<f, -1>>
          BY <1>1, <1>6, <3>4, AtIndirect
        <5> QED BY <1>1, <5>1 DEF Linked
      <4> QED BY <1>7, <1>11, <3>1, <3>2, <4>1, <4>2
    <3> QED BY <3>3, <3>4
  <2> QED BY <2>1, <2>2, Places
<1>16. ASSUME NEW x \in Slot PROVE At(s, x) = IF x \in D THEN 0 ELSE At(st, x)
  <2> HIDE DEF D, R
  <2>1. At(s, x) = At(s2, x)
    BY <1>12 DEF SamePlaces
  <2>2. PICK k \in FileNo : x = <<k, -1>> \/ \E i \in Bno : x = <<k, i>>
    BY SlotCases
  <2>3. CASE x = <<k, -1>>
    <3>1. At(s2, x) = s2.file[k].indirect /\ At(st, x) = st.file[k].indirect
      BY <2>3, AtIndirect
    <3>2. x \in D <=> k = f /\ all
      BY <1>14, <2>3
    <3> QED BY <1>6, <1>11, <2>1, <3>1, <3>2
  <2>4. ASSUME NEW i \in Bno, x = <<k, i>> PROVE At(s, x) = IF x \in D THEN 0 ELSE At(st, x)
    <3>1. At(s2, x) = Ptr(s2, k, i) /\ At(st, x) = Ptr(st, k, i)
      BY <2>4, AtPtr
    <3> QED BY <1>15, <2>1, <2>4, <3>1
  <2> QED BY <2>2, <2>3, <2>4
<1>17. s.free = st.free \cup ({At(st, x) : x \in R} \ {0})
  <2>1. {At(st, <<f, bno>>) : bno \in bnos \cap Bno} = {Ptr(st, f, bno) : bno \in bnos \cap Bno}
    BY <1>1, AtPtr
  <2>2. At(st, <<f, -1>>) = c
    BY <1>1, <1>6, AtIndirect
  <2>3. s.free = IF all THEN st.free \cup ({Ptr(st, f, bno) : bno \in bnos \cap Bno} \ {0}) \cup ({c} \ {0})
                 ELSE st.free \cup ({Ptr(st, f, bno) : bno \in bnos \cap Bno} \ {0})
    BY <1>7, <1>11, <1>12 DEF Rest
  <2>4. {At(st, x) : x \in R} = {At(st, <<f, bno>>) : bno \in bnos \cap Bno} \cup IF all THEN {c} ELSE {}
    BY <2>2
  <2> HIDE DEF R
  <2> QED BY <2>1, <2>3, <2>4
<1>18. /\ s \in State /\ s.end = "no" /\ s.disk.free = st.disk.free /\ s.mapped = st.mapped /\ s.dirty = st.dirty
       /\ \A k \in FileNo : /\ s.file[k].f_dir = st.file[k].f_dir /\ s.file[k].name = st.file[k].name
                            /\ k # f => s.file[k] = st.file[k]
       /\ s.file[f].size = size
  BY <1>11, <1>12 DEF Rest, SameFiles
<1> HIDE DEF D, R
<1>19. \A i \in Bno : <<Root, i>> \notin D
  BY <1>1, <1>14, Numbers
<1>20. ASSUME NEW k \in FileNo, NEW i \in Bno, <<k, i>> \notin D, Ptr(st, k, i) # 0
       PROVE  /\ ~lost => i < nblocks(s.file[k].size)
              /\ Cur(s, Ptr(st, k, i)) = Cur(st, Ptr(st, k, i))
  <2>1. ASSUME ~lost PROVE i < nblocks(s.file[k].size)
    <3>1. i \in Nat /\ i < nblocks(st.file[k].size)
      BY <1>1, <1>20, <2>1, Numbers DEF Sound, Owned
    <3>2. CASE k # f
      BY <1>18, <3>1, <3>2
    <3>3. CASE k = f
      <4>1. i < new
        BY <1>2, <1>3, <1>4, <1>14, <1>20, <3>1, <3>3
      <4>2. size # 0 /\ new = nblocks(size)
        BY <1>2, <3>1, <4>1 DEF FirstCut
      <4> QED BY <1>18, <3>3, <4>1, <4>2
    <3> QED BY <3>2, <3>3
  <2>2. PICK b : b = Ptr(st, k, i)
    OBVIOUS
  <2>3. /\ <<k, i>> \in Slot /\ At(st, <<k, i>>) = b /\ <<f, -1>> \in Slot /\ At(st, <<f, -1>>) = c
        /\ <<k, i>> # <<f, -1>>
    BY <1>1, <1>6, <2>2, AtPtr, AtIndirect, Places
  <2>4. b # c /\ b \in Block
    BY <1>1, <1>20, <2>2, <2>3, Numbers DEF Linked
  <2>5. s.page[b] = st.page[b] /\ s.mapped = st.mapped /\ s.disk = st.disk
    BY <1>7, <1>11, <1>12, <2>4 DEF Rest
  <2> QED BY <2>1, <2>2, <2>5 DEF Cur
<1>21. ASSUME ~lost, NEW x \in D \ R PROVE At(st, x) = 0
  <2>1. PICK i \in Place : x = <<f, i>> /\ all /\ i \notin bnos
    BY <1>21, Places DEF D, R
  <2>2. i \in Bno /\ i \in Nat /\ ~(i < NDIRECT) /\ i >= NDIRECT
    BY Places, Numbers DEF Place
  <2>3. i >= new
    BY <1>3, <1>8, <2>1, <2>2, Numbers
  <2>4. ~(i < old)
    BY <1>3, <1>4, <2>1, <2>2, <2>3
  <2>5. Ptr(st, f, i) = 0
    BY <1>1, <1>2, <1>21, <2>2, <2>4 DEF Sound, Owned
  <2> QED BY <1>1, <2>1, <2>2, <2>5, AtPtr
<1>22. PICK v : v = Cut(w, f, size)
  OBVIOUS
<1>23. ASSUME NEW k \in Entry, NEW i \in Bno, v[k][i] # Unwritten PROVE v[k][i] = w[k][i] /\ <<k, i>> \notin D
  <2>1. k \in FileNo /\ i \in Nat
    BY Numbers
  <2>2. CASE k # f
    <3>1. v[k] = w[k]
      BY <1>22, <2>1, <2>2 DEF Cut, Written
    <3> QED BY <1>14, <2>1, <2>2, <3>1
  <2>3. CASE k = f
    <3>1. v[f] = [bno \in Bno |-> IF size = 0 \/ bno >= nblocks(size) THEN Unwritten ELSE w[f][bno]]
      BY <1>1, <1>22 DEF Cut, Written
    <3>2. v[f][i] = w[f][i] /\ size # 0 /\ ~(i >= nblocks(size))
      BY <1>23, <2>3, <3>1
    <3>3. new = nblocks(size) /\ i < new
      BY <1>2, <1>3, <2>1, <3>2 DEF FirstCut
    <3>4. i \notin bnos
      BY <1>3, <1>4, <2>1, <3>3
    <3>5. ~(all /\ i \in Place)
      <4>1. i \in Place => i >= NDIRECT
        BY Numbers DEF Place
      <4> QED BY <1>3, <1>8, <2>1, <3>3, <4>1, Numbers
    <3> QED BY <1>14, <2>1, <2>3, <3>2, <3>4, <3>5
  <2> QED BY <2>2, <2>3
<1>24. s.file[Root].size = st.file[Root].size /\ \A k \in Entry : s.file[k].f_dir => st.file[k].f_dir
  BY <1>1, <1>18, Numbers
<1>25. st.free \subseteq s.free /\ \A b \in s.free : b \in st.free \/ \E x \in R : b = At(st, x)
  BY <1>17
<1>26. \A x \in R : At(st, x) # 0 => At(st, x) \in s.free
  BY <1>17
<1>27. Loses(st, s, D, R, w, v, lost)
  BY <1>13, <1>16, <1>18, <1>19, <1>20, <1>21, <1>23, <1>24, <1>25, <1>26 DEF Loses
<1>28. Inv(s, v, lost)
  BY <1>27, Detach
<1> QED BY <1>0, <1>18, <1>22, <1>28 DEF Truncated

-------------------------------------------------------------------------------
\* Writing back.

\* file_flush writes blocks in memory, all dirty ones of the file among them.
LEMMA Flush ==
    ASSUME NEW st, NEW w, NEW lost, Inv(st, w, lost), st.end = "no", NEW f \in FileNo, NEW s, s = file_flush(st, f)
    PROVE  /\ Inv(s, w, lost) /\ Writes(st, s)
           /\ \E B \in SUBSET Block :
                 /\ s = write_blocks(st, B)
                 /\ \A bno \in Bno : /\ bno < nblocks(st.file[f].size)
                                     /\ Ptr(st, f, bno) \in st.dirty /\ Ptr(st, f, bno) \in DataBlock
                                     => Ptr(st, f, bno) \in B
<1>1. st \in State /\ Linked(st) /\ st.dirty \subseteq st.mapped
  BY DEF Inv, Sound
<1>2. PICK bnos : bnos = 0..(nblocks(st.file[f].size) - 1)
  OBVIOUS
<1>3. ReadIndirect(st, f, bnos) = st
  BY <1>1, IndirectRead
<1>4. PICK B : B = {Ptr(st, f, bno) : bno \in bnos \cap Bno} \cap st.mapped \cap st.dirty \cap DataBlock
  OBVIOUS
<1>5. s = write_blocks(st, B)
  BY <1>2, <1>3, <1>4 DEF file_flush
<1>6. B \in SUBSET Block /\ B \subseteq st.mapped
  BY <1>4, Numbers
<1>7. Inv(s, w, lost) /\ Writes(st, s)
  BY <1>5, <1>6, WritesInv
<1>8. ASSUME NEW bno \in Bno, bno < nblocks(st.file[f].size), Ptr(st, f, bno) \in st.dirty, Ptr(st, f, bno) \in DataBlock
      PROVE  Ptr(st, f, bno) \in B
  <2>1. bno \in Nat /\ nblocks(st.file[f].size) \in Nat
    <3>1. st.file[f].size \in Nat
      BY <1>1, FileFields, Numbers
    <3> QED BY <3>1, NblocksGrow, Numbers
  <2>2. bno \in bnos
    BY <1>2, <1>8, <2>1
  <2> QED BY <1>1, <1>4, <1>8, <2>2
<1> QED BY <1>5, <1>6, <1>7, <1>8

\* flush_dir.
LEMMA FlushDir ==
    ASSUME NEW st, NEW w, NEW lost, Inv(st, w, lost), st.end = "no", NEW f \in FileNo, NEW s, s = flush_dir(st, f)
    PROVE  Inv(s, w, lost) /\ Writes(st, s)
<1>1. Writes(st, st)
  BY DEF Inv, Writes
<1>2. Root \in FileNo
  BY Numbers
<1>3. CASE st.file[f].f_dir
  BY <1>2, <1>3, Flush DEF flush_dir
<1>4. CASE ~st.file[f].f_dir
  BY <1>1, <1>4 DEF flush_dir
<1> QED BY <1>3, <1>4

\* dirty_block.
LEMMA DirtyInv ==
    ASSUME NEW st, NEW w, NEW lost, Inv(st, w, lost), st.end = "no", NEW b, NEW s, s = dirty_block(st, b)
    PROVE  Inv(s, w, lost) /\ s.file = st.file /\ s.end = "no" /\ s.mapped = st.mapped
<1>1. st \in State /\ DirOK(st) /\ st.dirty \subseteq st.mapped /\ st.disk.free \subseteq st.free
  BY DEF Inv, Sound
<1>2. /\ s \in State /\ s.file = st.file /\ s.free = st.free /\ s.disk = st.disk /\ s.end = st.end
      /\ s.mapped = st.mapped /\ s.page = st.page
      /\ st.dirty \subseteq s.dirty /\ s.dirty \subseteq s.mapped
  BY <1>1, DirtyBlock
<1>3. SamePlaces(st, s)
  BY <1>2, PlacesKept
<1>4. \A k \in FileNo : s.file[k].size >= st.file[k].size
  BY <1>1, <1>2, FileFields, Numbers DEF BY2BLK
<1>5. DirOK(s)
  BY <1>1, <1>2, <1>3, <1>4, DirKept, Numbers
<1>6. \A k \in FileNo, bno \in Bno : Cur(s, Ptr(st, k, bno)) = Cur(st, Ptr(st, k, bno))
  BY <1>2 DEF Cur
<1>7. Inv(s, w, lost)
  BY <1>1, <1>2, <1>3, <1>4, <1>5, <1>6, Keep
<1> QED BY <1>2, <1>7

-------------------------------------------------------------------------------
\* The directory.

\* What the loop over the directory has after some of its turns.
ScanOK(st, acc, w, lost) ==
    /\ Inv(acc.st, w, lost) /\ acc.st.end \in {"no", "garbage"} /\ Fetches(st, acc.st, Root)
    /\ acc.k # 0 => acc.k \in Entry /\ InDir(acc.st, acc.k)
    /\ acc.k # 0 \/ ~acc.failed => acc.st.end = "no"
    /\ acc = [st |-> acc.st, k |-> acc.k, failed |-> acc.failed]

\* One turn.
LEMMA ScanTurn ==
    ASSUME NEW st \in State, NEW acc, NEW w, NEW lost, ScanOK(st, acc, w, lost), NEW name,
           NEW i \in 0..(NDIRECT - 1), i < nblocks(st.file[Root].size), NEW r, r = ScanNext(acc, i, name)
    PROVE  ScanOK(st, r, w, lost)
<1>1. CASE acc.k # 0 \/ acc.failed
  BY <1>1 DEF ScanNext
<1>2. CASE ~(acc.k # 0 \/ acc.failed)
  <2>1. PICK g : g = file_get_block(acc.st, Root, i)
    OBVIOUS
  <2>2. PICK s : s = g.st
    OBVIOUS
  <2>3. acc.st.end = "no" /\ Inv(acc.st, w, lost) /\ Fetches(st, acc.st, Root) /\ i \in Bno /\ i < NDIRECT /\ Root \in FileNo
    BY <1>2, Places, Numbers DEF ScanOK
  <2>4. i < nblocks(acc.st.file[Root].size)
    BY <2>3 DEF Fetches, SameFiles
  <2>5. /\ Inv(s, w, lost) /\ s.end = "no" /\ Fetches(acc.st, s, Root)
        /\ g.r # 0 => g.r = Ptr(s, Root, i) /\ g.r \in DataBlock /\ g.r \in s.mapped
    <3>1. /\ Inv(g.st, w, lost) /\ g.st.end \in {"no", "garbage"} /\ Fetches(acc.st, g.st, Root)
          /\ g.st.end = "no" /\ g.r # 0 => g.r = Ptr(g.st, Root, i) /\ g.r \in DataBlock /\ g.r \in g.st.mapped
          /\ i < NDIRECT => g.st.end = "no"
      BY <2>1, <2>3, <2>4, GetBlock
    <3> QED BY <2>2, <2>3, <3>1
  <2>6. Fetches(st, s, Root) /\ s \in State
    BY <2>3, <2>5, FetchesTwice DEF Fetches
  <2>7. r = ScanBlock(g, i, name)
    BY <1>2, <2>1 DEF ScanNext
  <2>75. r = [st |-> r.st, k |-> r.k, failed |-> r.failed]
    <3>1. CASE g.r = 0
      <4>1. r = [st |-> g.st, k |-> 0, failed |-> TRUE]
        BY <2>7, <3>1 DEF ScanBlock
      <4> QED BY <4>1
    <3>2. CASE g.r # 0 /\ g.st.page[g.r] # Zero
      <4>1. r = [st |-> Garbage(g.st, g.r), k |-> 0, failed |-> TRUE]
        BY <2>7, <3>2 DEF ScanBlock
      <4> QED BY <4>1
    <3>3. CASE g.r # 0 /\ g.st.page[g.r] = Zero
      <4>1. PICK e : r = [st |-> g.st, k |-> e, failed |-> FALSE]
        BY <2>7, <3>3 DEF ScanBlock
      <4> QED BY <4>1
    <3> QED BY <3>1, <3>2, <3>3
  <2>8. CASE g.r = 0
    <3>1. r.st = s /\ r.k = 0 /\ r.failed
      BY <2>2, <2>7, <2>8 DEF ScanBlock
    <3> QED BY <2>5, <2>6, <2>75, <3>1 DEF ScanOK
  <2>9. CASE g.r # 0 /\ s.page[g.r] # Zero
    <3>1. PICK t : t = [s EXCEPT !.end = "garbage"]
      OBVIOUS
    <3>2. r.st = t /\ r.k = 0 /\ r.failed
      BY <2>2, <2>7, <2>9, <3>1 DEF ScanBlock, Garbage
    <3>3. /\ t \in State /\ t.file = s.file /\ t.free = s.free /\ t.dirty = s.dirty /\ t.mapped = s.mapped
          /\ t.disk = s.disk /\ t.end = "garbage"
      BY <2>6, <3>1 DEF State
    <3>4. Inv(t, w, lost)
      BY <2>5, <3>3 DEF Inv
    <3>5. Fetches(st, t, Root)
      BY <2>6, <3>3 DEF Fetches, SameFiles
    <3> QED BY <2>75, <3>2, <3>3, <3>4, <3>5 DEF ScanOK
  <2>10. CASE g.r # 0 /\ s.page[g.r] = Zero
    <3>1. PICK hits : hits = {k \in EntriesOf(i) : s.file[k].name = name}
      OBVIOUS
    <3>2. r.st = s /\ r.k = IF hits = {} THEN 0 ELSE Min(hits)
      BY <2>2, <2>7, <2>10, <3>1 DEF ScanBlock
    <3>3. CASE hits = {}
      BY <2>5, <2>6, <2>75, <3>2, <3>3 DEF ScanOK
    <3>4. CASE hits # {}
      <4>1. hits \in SUBSET Nat
        BY <3>1, Numbers DEF EntriesOf
      <4>2. r.k \in hits
        BY <3>2, <3>4, <4>1, MinMember
      <4>3. r.k \in Entry /\ (r.k - 1) \div FILE2BLK = i
        BY <3>1, <4>2 DEF EntriesOf
      <4>4. DirBlock(s, r.k) = g.r
        BY <2>5, <2>10, <4>3, PtrDirect DEF DirBlock
      <4>5. i < nblocks(s.file[Root].size)
        BY <2>3, <2>4, <2>5 DEF Fetches, SameFiles
      <4>6. InDir(s, r.k)
        BY <2>5, <2>10, <4>3, <4>4, <4>5 DEF InDir
      <4> QED BY <2>5, <2>6, <2>75, <3>2, <4>3, <4>6 DEF ScanOK
    <3> QED BY <3>3, <3>4
  <2> QED BY <2>8, <2>9, <2>10
<1> QED BY <1>1, <1>2

\* The blocks the loop visits are direct ones of the root.
LEMMA DirBlocks ==
    ASSUME NEW st \in State, st.file[Root].size <= MaxDir * BY2BLK
    PROVE  /\ st.file[Root].size \div BY2BLK \in Nat
           /\ st.file[Root].size \div BY2BLK <= MaxDir
           /\ st.file[Root].size \div BY2BLK < nblocks(st.file[Root].size)
<1>1. PICK m \in Nat : m = st.file[Root].size
  BY FileFields, Numbers
<1> QED BY <1>1, Numbers DEF BY2BLK, nblocks

\* The loop before its first turn, and its turns up to number n.
ScanStart(st) == [st |-> st, k |-> 0, failed |-> FALSE]
Turns(c, n, st, name) ==
    c = [i \in 0..n |-> IF i = 0 THEN ScanStart(st) ELSE ScanNext(c[i - 1], i - 1, name)]

\* Whatever the number of turns, they can be taken.
LEMMA TurnsExist == ASSUME NEW st, NEW name, NEW n \in Nat PROVE \E c : Turns(c, n, st, name)
<1> DEFINE Bad == {m \in Nat : ~\E c : Turns(c, m, st, name)}
<1>1. SUFFICES ASSUME Bad # {} PROVE FALSE
  OBVIOUS
<1>2. PICK m \in Nat : m \in Bad /\ \A y \in Bad : m <= y
  <2>1. Bad \in SUBSET Nat
    OBVIOUS
  <2> HIDE DEF Bad
  <2> QED BY <1>1, <2>1, Least
<1>3. ~\E c : Turns(c, m, st, name)
  BY <1>2
<1>4. CASE m = 0
  <2>1. PICK c : c = [i \in 0..m |-> ScanStart(st)]
    OBVIOUS
  <2>2. \A i \in 0..m : i = 0
    BY <1>4
  <2>3. c = [i \in 0..m |-> IF i = 0 THEN ScanStart(st) ELSE ScanNext(c[i - 1], i - 1, name)]
    BY <2>1, <2>2
  <2> QED BY <1>3, <2>3 DEF Turns
<1>5. CASE m # 0
  <2>1. PICK l \in Nat : l = m - 1 /\ l < m
    BY <1>5
  <2>2. l \notin Bad
    BY <1>2, <2>1
  <2>3. PICK g : Turns(g, l, st, name)
    BY <2>2
  <2>4. \A i \in 0..l : g[i] = IF i = 0 THEN ScanStart(st) ELSE ScanNext(g[i - 1], i - 1, name)
    BY <2>3 DEF Turns
  <2>5. PICK c : c = [i \in 0..m |-> IF i = m THEN ScanNext(g[l], l, name) ELSE g[i]]
    OBVIOUS
  <2>6. ASSUME NEW i \in 0..m
        PROVE  c[i] = IF i = 0 THEN ScanStart(st) ELSE ScanNext(c[i - 1], i - 1, name)
    <3>1. CASE i = m
      <4>1. c[i] = ScanNext(g[l], l, name) /\ c[l] = g[l] /\ i # 0 /\ i - 1 = l
        BY <1>5, <2>1, <2>5, <3>1
      <4> QED BY <4>1
    <3>2. CASE i # m /\ i # 0
      <4>1. i \in 0..l /\ i - 1 \in 0..m /\ i - 1 # m
        BY <2>1, <3>2
      <4>2. c[i] = g[i] /\ c[i - 1] = g[i - 1]
        BY <2>5, <3>2, <4>1
      <4> QED BY <2>4, <3>2, <4>1, <4>2
    <3>3. CASE i # m /\ i = 0
      <4>1. i \in 0..l
        BY <2>1, <3>3
      <4> QED BY <2>4, <2>5, <3>3, <4>1
    <3> QED BY <3>1, <3>2, <3>3
  <2>7. c = [i \in 0..m |-> c[i]]
    BY <2>5
  <2>8. c = [i \in 0..m |-> IF i = 0 THEN ScanStart(st) ELSE ScanNext(c[i - 1], i - 1, name)]
    BY <2>6, <2>7
  <2> QED BY <1>3, <2>8 DEF Turns
<1> QED BY <1>4, <1>5

\* scan is the last of them.
LEMMA ScanTurns ==
    ASSUME NEW st, NEW name, NEW n \in Nat, n = st.file[Root].size \div BY2BLK
    PROVE  \E c : Turns(c, n, st, name) /\ scan(st, name) = c[n]
<1> DEFINE Body(c) == [i \in 0..n |-> IF i = 0 THEN ScanStart(st) ELSE ScanNext(c[i - 1], i - 1, name)]
<1>1. scan(st, name) = (CHOOSE c : c = Body(c))[n]
  BY DEF scan, ScanStart
<1>2. \E c : c = Body(c)
  <2>1. PICK c : Turns(c, n, st, name)
    BY TurnsExist
  <2> QED BY <2>1 DEF Turns
<1>3. PICK c : c = Body(c) /\ scan(st, name) = c[n]
  <2> HIDE DEF Body
  <2> QED BY <1>1, <1>2
<1> QED BY <1>3 DEF Turns

\* The loop of dir_lookup and dir_alloc_file.
LEMMA Scan ==
    ASSUME NEW st, NEW w, NEW lost, Inv(st, w, lost), st.end = "no", st.file[Root].size <= MaxDir * BY2BLK, NEW name
    PROVE  ScanOK(st, scan(st, name), w, lost)
<1>1. st \in State
  BY DEF Inv
<1>2. PICK n \in Nat : n = st.file[Root].size \div BY2BLK /\ n <= MaxDir /\ n < nblocks(st.file[Root].size)
  BY <1>1, DirBlocks
<1>3. PICK c : Turns(c, n, st, name) /\ scan(st, name) = c[n]
  BY <1>2, ScanTurns
<1>4. \A i \in 0..n : c[i] = IF i = 0 THEN ScanStart(st) ELSE ScanNext(c[i - 1], i - 1, name)
  BY <1>3 DEF Turns
<1>5. ScanOK(st, ScanStart(st), w, lost)
  BY <1>1 DEF ScanOK, ScanStart, Fetches, SameFiles
<1> DEFINE Bad == {i \in 0..n : ~ScanOK(st, c[i], w, lost)}
<1>6. Bad = {}
  <2>1. SUFFICES ASSUME Bad # {} PROVE FALSE
    OBVIOUS
  <2>2. PICK m \in 0..n : m \in Bad /\ \A y \in Bad : m <= y
    <3>1. Bad \in SUBSET Nat /\ Bad \subseteq 0..n
      OBVIOUS
    <3> HIDE DEF Bad
    <3> QED BY <2>1, <3>1, Least
  <2>3. m # 0
    BY <1>4, <1>5, <2>2
  <2>4. PICK l \in 0..(NDIRECT - 1) : l = m - 1 /\ l \in 0..n /\ l < m /\ l < n
    BY <1>2, <2>3, Numbers
  <2>5. ScanOK(st, c[l], w, lost)
    BY <2>2, <2>4
  <2>6. c[m] = ScanNext(c[l], l, name)
    BY <1>4, <2>3, <2>4
  <2>7. l < nblocks(st.file[Root].size)
    <3>1. nblocks(st.file[Root].size) \in Nat
      BY <1>1, FileFields, NblocksGrow, Numbers
    <3> QED BY <1>2, <2>4, <3>1
  <2>8. ScanOK(st, c[m], w, lost)
    BY <1>1, <2>4, <2>5, <2>6, <2>7, ScanTurn
  <2> QED BY <2>2, <2>8
<1> QED BY <1>2, <1>3, <1>6

PutEntry(st, f, g) == [st EXCEPT !.file[f] = g]
PutName(st, f, name) == [st EXCEPT !.file[f].name = name]
PutMark(st, f) == [st EXCEPT !.file[f].f_dir = TRUE]

\* An entry is replaced, its blocks kept.
LEMMA PutFile ==
    ASSUME NEW st \in State, NEW f \in FileNo, NEW g \in File,
           g.direct = st.file[f].direct, g.indirect = st.file[f].indirect,
           NEW s, s = PutEntry(st, f, g)
    PROVE  /\ Rest(st, s) /\ s.page = st.page /\ SamePlaces(st, s) /\ s.file[f] = g
           /\ \A k \in FileNo : k # f => s.file[k] = st.file[k]
<1>1. PICK h : h = [st.file EXCEPT ![f] = g]
  OBVIOUS
<1>2. h \in [FileNo -> File] /\ h[f] = g /\ \A k \in FileNo : k # f => h[k] = st.file[k]
  <2>1. st.file \in [FileNo -> File]
    BY DEF State
  <2> QED BY <1>1, <2>1
<1>3. s = [st EXCEPT !.file = h]
  BY <1>1 DEF State, PutEntry
<1>4. s.file = h /\ Rest(st, s) /\ s.page = st.page
  BY <1>2, <1>3 DEF State, Rest
<1>5. \A k \in FileNo : s.file[k].direct = st.file[k].direct /\ s.file[k].indirect = st.file[k].indirect
  BY <1>2, <1>4
<1>6. SamePlaces(st, s)
  BY <1>4, <1>5, PlacesKept
<1> QED BY <1>2, <1>4, <1>6

\* The name of an entry is set.
LEMMA SetName ==
    ASSUME NEW st, NEW w, NEW lost, Inv(st, w, lost), st.end \in {"no", "garbage"},
           NEW f \in FileNo, NEW name \in Name \cup {NoName}, NEW s, s = PutName(st, f, name)
    PROVE  /\ Inv(s, w, lost) /\ Rest(st, s)
           /\ \A k \in FileNo : s.file[k].size = st.file[k].size /\ s.file[k].f_dir = st.file[k].f_dir
<1>1. st \in State /\ st.dirty \subseteq st.mapped /\ st.disk.free \subseteq st.free
  BY DEF Inv
<1>2. PICK g : g = [st.file[f] EXCEPT !.name = name]
  OBVIOUS
<1>3. /\ g \in File /\ g.direct = st.file[f].direct /\ g.indirect = st.file[f].indirect
      /\ g.size = st.file[f].size /\ g.f_dir = st.file[f].f_dir
  <2>1. st.file[f] \in File
    BY <1>1, FileFields
  <2> QED BY <1>2, <2>1 DEF File
<1>4. s = PutEntry(st, f, g)
  BY <1>1, <1>2 DEF State, PutName, PutEntry
<1>5. /\ Rest(st, s) /\ s.page = st.page /\ SamePlaces(st, s) /\ s.file[f] = g
      /\ \A k \in FileNo : k # f => s.file[k] = st.file[k]
  BY <1>1, <1>3, <1>4, PutFile
<1>6. \A k \in FileNo : s.file[k].size = st.file[k].size /\ s.file[k].f_dir = st.file[k].f_dir
  BY <1>3, <1>5
<1>7. CASE st.end = "garbage"
  BY <1>1, <1>5, <1>6, <1>7 DEF Inv, Rest
<1>8. CASE st.end = "no"
  <2>1. \A k \in FileNo : s.file[k].size >= st.file[k].size
    BY <1>1, <1>6, FileFields, Numbers DEF BY2BLK
  <2>2. /\ s \in State /\ s.free = st.free /\ s.dirty = st.dirty /\ s.disk = st.disk /\ s.mapped = st.mapped /\ s.end = "no"
    BY <1>5, <1>8 DEF Rest
  <2>3. DirOK(st)
    BY <1>8 DEF Inv, Sound
  <2>4. DirOK(s)
    BY <1>1, <1>5, <1>6, <2>1, <2>2, <2>3, DirKept, Numbers
  <2>5. \A k \in FileNo, bno \in Bno : Cur(s, Ptr(st, k, bno)) = Cur(st, Ptr(st, k, bno))
    BY <1>5, <2>2 DEF Cur
  <2>6. Inv(s, w, lost)
    BY <1>1, <1>5, <1>8, <2>1, <2>2, <2>4, <2>5, Keep
  <2> QED BY <1>5, <1>6, <2>6
<1> QED BY <1>5, <1>6, <1>7, <1>8

\* What dir_lookup leaves: an entry it has found is marked.
LookOK(st, l, w, lost) ==
    /\ Inv(l.st, w, lost) /\ l.st.end \in {"no", "garbage"}
    /\ st.mapped \subseteq l.st.mapped
    /\ \A k \in FileNo : l.st.file[k].size = st.file[k].size
    /\ l.k # 0 => l.k \in Entry
    /\ l.k # 0 \/ ~l.failed => l.st.end = "no"

LEMMA LookFound ==
    ASSUME NEW st, NEW l, NEW w, NEW lost, ScanOK(st, l, w, lost), NEW r, r = Found(l),
           l.k # 0
    PROVE  LookOK(st, r, w, lost)
<1>0. PICK a, kk : a = l.st /\ kk = l.k
  OBVIOUS
<1>1. /\ a \in State /\ Inv(a, w, lost) /\ a.end = "no" /\ kk \in Entry /\ InDir(a, kk) /\ kk \in FileNo /\ Sound(a, w, lost)
      /\ a.dirty \subseteq a.mapped /\ a.disk.free \subseteq a.free
      /\ st.mapped \subseteq a.mapped
      /\ \A k \in FileNo : a.file[k].size = st.file[k].size
  BY <1>0, Numbers DEF ScanOK, Inv, Fetches, SameFiles
<1>2. PICK t, b, s : t = PutMark(a, kk) /\ b = DirBlock(a, kk) /\ s = dirty_block(t, b)
  OBVIOUS
<1>3. r = [l EXCEPT !.st = s]
  BY <1>0, <1>2 DEF Found, PutMark
<1>4. r.st = s /\ r.k = kk
  BY <1>0, <1>3 DEF ScanOK
<1>5. PICK g : g = [a.file[kk] EXCEPT !.f_dir = TRUE]
  OBVIOUS
<1>6. /\ g \in File /\ g.direct = a.file[kk].direct /\ g.indirect = a.file[kk].indirect
      /\ g.size = a.file[kk].size
  <2>1. a.file[kk] \in File
    BY <1>1, FileFields
  <2> QED BY <1>5, <2>1 DEF File
<1>7. t = PutEntry(a, kk, g)
  BY <1>1, <1>2, <1>5 DEF State, PutMark, PutEntry
<1>8. /\ Rest(a, t) /\ t.page = a.page /\ SamePlaces(a, t) /\ t.file[kk] = g
      /\ \A k \in FileNo : k # kk => t.file[k] = a.file[k]
  BY <1>1, <1>6, <1>7, PutFile
<1>9. t \in State /\ t.mapped = a.mapped /\ t.dirty = a.dirty /\ t.free = a.free /\ t.disk = a.disk /\ t.end = "no"
  BY <1>1, <1>8 DEF Rest
<1>10. /\ s \in State /\ s.file = t.file /\ s.free = a.free /\ s.disk = a.disk /\ s.end = "no"
       /\ s.mapped = a.mapped /\ s.page = a.page
       /\ a.dirty \subseteq s.dirty /\ s.dirty \subseteq s.mapped
       /\ b \in a.mapped => b \in s.dirty
  BY <1>1, <1>2, <1>8, <1>9, DirtyBlock
<1>11. SamePlaces(a, s)
  <2>1. SamePlaces(t, s)
    BY <1>8, <1>10, PlacesKept
  <2> QED BY <1>8, <2>1 DEF SamePlaces
<1>12. \A k \in FileNo : s.file[k].size = a.file[k].size
  BY <1>6, <1>8, <1>10
<1>13. \A k \in FileNo : s.file[k].size >= a.file[k].size
  BY <1>1, <1>12, FileFields, Numbers DEF BY2BLK
<1>14. \A k \in Entry : DirBlock(s, k) = DirBlock(a, k)
  BY <1>1, <1>10, <1>11, DirSlot DEF SamePlaces
<1>15. DirOK(s)
  <2>1. SUFFICES ASSUME NEW k \in Entry, s.file[k].f_dir PROVE InDir(s, k) /\ DirBlock(s, k) \in s.dirty
    BY DEF DirOK
  <2>2. InDir(a, k) /\ DirBlock(a, k) \in s.dirty
    <3>1. CASE k = kk
      BY <1>1, <1>2, <1>10, <3>1 DEF InDir
    <3>2. CASE k # kk
      <4>1. a.file[k].f_dir
        BY <1>8, <1>10, <2>1, <3>2, Numbers
      <4> QED BY <1>1, <1>10, <4>1 DEF Sound, DirOK
    <3> QED BY <3>1, <3>2
  <2> QED BY <1>10, <1>12, <1>14, <2>2, Numbers DEF InDir
<1>16. \A k \in FileNo, bno \in Bno : Cur(s, Ptr(a, k, bno)) = Cur(a, Ptr(a, k, bno))
  BY <1>10 DEF Cur
<1>17. Inv(s, w, lost)
  BY <1>1, <1>10, <1>11, <1>13, <1>15, <1>16, Keep
<1> QED BY <1>1, <1>4, <1>10, <1>12, <1>17 DEF LookOK

\* dir_lookup.
LEMMA Lookup ==
    ASSUME NEW st, NEW w, NEW lost, Inv(st, w, lost), st.end = "no", st.file[Root].size <= MaxDir * BY2BLK, NEW name,
           NEW l, l = dir_lookup(st, name)
    PROVE  LookOK(st, l, w, lost)
<1>1. PICK c : c = scan(st, name)
  OBVIOUS
<1>2. ScanOK(st, c, w, lost) /\ l = Found(c)
  BY <1>1, Scan DEF dir_lookup
<1>3. CASE c.k = 0
  <2>1. l = c
    BY <1>2, <1>3 DEF Found
  <2> QED BY <1>2, <1>3, <2>1 DEF ScanOK, LookOK, Fetches, SameFiles
<1>4. CASE c.k # 0
  BY <1>2, <1>4, LookFound
<1> QED BY <1>3, <1>4

\* A file gets longer, and no block of it is behind its end.
LEMMA Lengthen ==
    ASSUME NEW st, NEW w, NEW lost, Inv(st, w, lost), st.end = "no", NEW f \in FileNo,
           NEW n \in 0..(NINDIRECT * BY2BLK), n >= st.file[f].size, NEW s, s = PutSize(st, f, n)
    PROVE  /\ Inv(s, w, lost) /\ s.end = "no" /\ s.mapped = st.mapped /\ s.file[f].size = n
           /\ \A k \in FileNo : k # f => s.file[k] = st.file[k]
<1>1. st \in State /\ st.dirty \subseteq st.mapped /\ st.disk.free \subseteq st.free /\ DirOK(st)
  BY DEF Inv, Sound
<1>2. /\ Rest(st, s) /\ s.page = st.page /\ SamePlaces(st, s)
      /\ \A k \in FileNo : /\ k # f => s.file[k] = st.file[k] 
                           /\ s.file[k].f_dir = st.file[k].f_dir /\ s.file[k].name = st.file[k].name
      /\ s.file[f].size = n
  BY <1>1, SetSize
<1>3. /\ s \in State /\ s.free = st.free /\ s.dirty = st.dirty /\ s.disk = st.disk /\ s.mapped = st.mapped
      /\ s.end = "no"
  BY <1>2 DEF Rest
<1>4. \A k \in FileNo : s.file[k].size >= st.file[k].size
  <2>1. \A k \in FileNo : st.file[k].size \in Nat
    BY <1>1, FileFields, Numbers
  <2> QED BY <1>2, <2>1
<1>5. DirOK(s)
  BY <1>1, <1>2, <1>3, <1>4, DirKept, Numbers
<1>6. \A k \in FileNo, bno \in Bno : Cur(s, Ptr(st, k, bno)) = Cur(st, Ptr(st, k, bno))
  BY <1>2, <1>3 DEF Cur
<1>7. Inv(s, w, lost)
  BY <1>1, <1>2, <1>3, <1>4, <1>5, <1>6, Keep
<1> QED BY <1>2, <1>3, <1>7

\* What dir_alloc_file leaves, unless the directory is beyond the bound of the model.
AllocOK(st, a, w, lost) ==
    /\ Inv(a.st, w, lost) /\ a.st.end \in {"no", "garbage"} /\ st.mapped \subseteq a.st.mapped
    /\ \A k \in Entry : a.st.file[k].size = st.file[k].size
    /\ a.k # 0 /\ a.st.file[Root].size <= MaxDir * BY2BLK => a.k \in Entry

\* The directory grows by a block.
LEMMA Grown ==
    ASSUME NEW st, NEW w, NEW lost, Inv(st, w, lost), st.end = "no",
           NEW n \in Nat, n <= MaxDir, n = st.file[Root].size \div BY2BLK,
           st.file[Root].size <= MaxDir * BY2BLK, NEW s, s = PutSize(st, Root, st.file[Root].size + BY2BLK),
           NEW a, a = GrownBlock(file_get_block(s, Root, n), n)
    PROVE  AllocOK(st, a, w, lost)
<1>1. st \in State /\ Root \in FileNo
  BY Numbers DEF Inv
<1>2. PICK m \in Nat : m = st.file[Root].size
  BY <1>1, FileFields, Numbers
<1>3. PICK e \in Nat : e = m + BY2BLK /\ e >= m
  BY DEF BY2BLK
<1>4. e \in 0..(NINDIRECT * BY2BLK)
  <2>1. n <= NINDIRECT - 1
    BY Numbers
  <2>2. n = m \div 2
    BY <1>2 DEF BY2BLK
  <2>3. m + 2 <= NINDIRECT * 2
    <3>1. CASE n < MaxDir
      BY <2>2, <3>1, Numbers
    <3>2. CASE n = MaxDir
      BY <1>2, <2>1, <3>2, Numbers DEF BY2BLK
    <3> QED BY <3>1, <3>2, Numbers
  <2> QED BY <1>3, <2>3, Numbers DEF BY2BLK
<1>5. /\ Inv(s, w, lost) /\ s.end = "no" /\ s.mapped = st.mapped /\ s.file[Root].size = e
      /\ \A k \in FileNo : k # Root => s.file[k] = st.file[k]
  BY <1>1, <1>2, <1>3, <1>4, Lengthen
<1>6. n \in Bno /\ n < nblocks(e)
  <2>1. n \in Bno
    BY Numbers DEF Bno
  <2>2. n = m \div 2 /\ e = m + 2
    BY <1>2, <1>3 DEF BY2BLK
  <2>3. n < e \div 2 + 1
    BY <2>2
  <2> QED BY <2>1, <2>3 DEF nblocks, BY2BLK
<1>7. PICK g : g = file_get_block(s, Root, n)
  OBVIOUS
<1>8. /\ Inv(g.st, w, lost) /\ g.st.end \in {"no", "garbage"} /\ Fetches(s, g.st, Root)
      /\ g.st.end = "no" /\ g.r # 0 => g.r = Ptr(g.st, Root, n) /\ g.r \in DataBlock /\ g.r \in g.st.mapped
      /\ n < NDIRECT => g.st.end = "no"
  BY <1>1, <1>5, <1>6, <1>7, GetBlock
<1>9. g.st.file[Root].size = e /\ st.mapped \subseteq g.st.mapped /\ \A k \in Entry : g.st.file[k].size = st.file[k].size
  BY <1>1, <1>5, <1>8, Numbers DEF Fetches, SameFiles
<1>10. CASE g.r = 0
  <2>1. a.st = g.st /\ a.k = 0
    BY <1>7, <1>10 DEF GrownBlock
  <2> QED BY <1>8, <1>9, <2>1 DEF AllocOK
<1>11. CASE g.r # 0
  <2>1. a.st = Garbage(g.st, g.r) /\ a.k = n * FILE2BLK + 1
    BY <1>7, <1>11 DEF GrownBlock
  <2>2. ASSUME e <= MaxDir * BY2BLK PROVE a.k \in Entry
    <3>1. n + 1 <= MaxDir
      BY <1>2, <1>3, <2>2, Numbers DEF BY2BLK
    <3>2. (n + 1) * FILE2BLK <= MaxDir * FILE2BLK
      BY <3>1, Numbers
    <3>3. PICK x \in Nat : x = n * FILE2BLK
      BY Numbers
    <3>4. x + FILE2BLK <= MaxDir * FILE2BLK
      BY <3>2, <3>3, Numbers
    <3>5. PICK y \in Nat : y = MaxDir * FILE2BLK
      BY Numbers
    <3>6. x + 1 \in 1..y
      BY <3>4, <3>5, Numbers
    <3> QED BY <2>1, <3>3, <3>5, <3>6 DEF Entry
  <2>3. CASE g.st.page[g.r] = Zero
    <3>1. a.st = g.st
      BY <2>1, <2>3 DEF Garbage
    <3> QED BY <1>8, <1>9, <2>2, <3>1 DEF AllocOK
  <2>4. CASE g.st.page[g.r] # Zero
    <3>1. PICK t : t = [g.st EXCEPT !.end = "garbage"]
      OBVIOUS
    <3>2. a.st = t
      BY <2>1, <2>4, <3>1 DEF Garbage
    <3>3. g.st \in State
      BY <1>8 DEF Inv
    <3>4. /\ t \in State /\ t.file = g.st.file /\ t.free = g.st.free /\ t.dirty = g.st.dirty
          /\ t.mapped = g.st.mapped /\ t.disk = g.st.disk /\ t.end = "garbage"
      BY <3>1, <3>3 DEF State
    <3>5. Inv(t, w, lost)
      BY <1>8, <3>4 DEF Inv
    <3> QED BY <1>9, <2>2, <3>2, <3>4, <3>5 DEF AllocOK
  <2> QED BY <2>3, <2>4
<1> QED BY <1>10, <1>11

\* dir_alloc_file.
LEMMA AllocFile ==
    ASSUME NEW st, NEW w, NEW lost, Inv(st, w, lost), st.end = "no", st.file[Root].size <= MaxDir * BY2BLK,
           NEW a, a = dir_alloc_file(st)
    PROVE  AllocOK(st, a, w, lost)
<1>1. PICK l : l = scan(st, NoName)
  OBVIOUS
<1>2. PICK n \in Nat : n = st.file[Root].size \div BY2BLK /\ n <= MaxDir
  BY DirBlocks DEF Inv
<1>3. ScanOK(st, l, w, lost) /\ a = GrowFull(l, n)
  BY <1>1, <1>2, Scan DEF dir_alloc_file
<1>4. st.mapped \subseteq l.st.mapped /\ \A k \in FileNo : l.st.file[k].size = st.file[k].size
  BY <1>3 DEF ScanOK, Fetches, SameFiles
<1>5. CASE l.k # 0 \/ l.failed
  <2>1. a = l
    BY <1>3, <1>5 DEF GrowFull
  <2> QED BY <1>3, <1>4, <2>1, Numbers DEF ScanOK, AllocOK
<1>6. CASE ~(l.k # 0 \/ l.failed)
  <2>1. PICK t, s : t = l.st /\ s = PutSize(t, Root, t.file[Root].size + BY2BLK)
    OBVIOUS
  <2>2. Inv(t, w, lost) /\ t.end = "no" /\ t \in State
    BY <1>3, <1>6, <2>1 DEF ScanOK, Inv
  <2>3. s = [t EXCEPT !.file[Root].size = @ + BY2BLK]
    BY <2>1, <2>2, Numbers DEF PutSize, State
  <2>4. a = GrownBlock(file_get_block(s, Root, n), n)
    BY <1>3, <1>6, <2>1, <2>3 DEF GrowFull
  <2>5. t.file[Root].size = st.file[Root].size
    BY <1>4, <2>1, Numbers
  <2>6. AllocOK(t, a, w, lost)
    BY <1>2, <2>1, <2>2, <2>4, <2>5, Grown
  <2> QED BY <1>4, <2>1, <2>6, Numbers DEF AllocOK
<1> QED BY <1>5, <1>6

-------------------------------------------------------------------------------
\* The requests.

\* fs_init.
LEMMA InitInv == Init => IInv
<1>1. SUFFICES ASSUME NEW name \in Name, NEW word \in Word, InitWith(name, word) PROVE IInv
  BY DEF Init
<1> DEFINE file == [k \in FileNo |->
                      IF k = Root THEN [NewFile EXCEPT !.size = BY2BLK, !.direct[0] = 3]
                      ELSE IF k = 1 THEN [NewFile EXCEPT !.name = name, !.size = 1, !.direct[0] = 4]
                      ELSE NewFile]
           free == 5..(NBLK - 1)
           disk == [file |-> file, page |-> [b \in Block |-> IF b = 4 THEN Full(word) ELSE Zero], free |-> free]
<1>2. /\ fs = [file |-> file, page |-> [b \in Block |-> Zero], free |-> free,
               mapped |-> {0, 1, 2}, dirty |-> {}, disk |-> disk, end |-> "no"]
      /\ written = [k \in FileNo |-> [bno \in Bno |-> IF k = 1 /\ bno = 0 THEN word ELSE Unwritten]]
      /\ open = {} /\ told = [k \in Entry |-> 0] /\ held = {} /\ behind = FALSE /\ ops = 0
  BY <1>1 DEF InitWith
<1>3. /\ 1 \in Entry /\ 1 \in FileNo /\ 1 # Root /\ 3 \in DataBlock /\ 4 \in DataBlock /\ 3 \in Block /\ 4 \in Block
      /\ 0 \in 0..(NDIRECT - 1) /\ 0 \in Bno /\ {0, 1, 2} \subseteq Block /\ free \subseteq DataBlock
      /\ BY2BLK \in 0..(NINDIRECT * BY2BLK) /\ 1 \in 0..(NINDIRECT * BY2BLK) /\ 0 \in 0..(NINDIRECT * BY2BLK)
      /\ BY2BLK <= MaxDir * BY2BLK /\ 1 <= MaxSize /\ 0 <= MaxSize /\ MaxSize \in Nat
  <2>1. MaxDir * FILE2BLK >= 1 /\ MaxDir >= 1
    BY FsAssumption
  <2>2. 1 \in Entry
    BY <2>1, FsAssumption DEF Entry
  <2> QED BY <2>1, <2>2, FsAssumption, Numbers DEF Block, DataBlock, Bno, FileNo, Root, BY2BLK
<1>4. PICK none : none = [i \in 0..(NDIRECT - 1) |-> 0]
  OBVIOUS
<1>5. NewFile = [name |-> NoName, size |-> 0, direct |-> none, indirect |-> 0, f_dir |-> FALSE]
  BY <1>4 DEF NewFile
<1>6. PICK droot, done : droot = [none EXCEPT ![0] = 3] /\ done = [none EXCEPT ![0] = 4]
  OBVIOUS
<1>7. /\ none \in [0..(NDIRECT - 1) -> Block] /\ droot \in [0..(NDIRECT - 1) -> Block]
      /\ done \in [0..(NDIRECT - 1) -> Block]
      /\ \A i \in 0..(NDIRECT - 1) : /\ none[i] = 0 /\ droot[i] = (IF i = 0 THEN 3 ELSE 0)
                                     /\ done[i] = (IF i = 0 THEN 4 ELSE 0)
  BY <1>3, <1>4, <1>6, Numbers
<1>8. PICK froot, fone : froot = [NewFile EXCEPT !.size = BY2BLK, !.direct[0] = 3]
                         /\ fone = [NewFile EXCEPT !.name = name, !.size = 1, !.direct[0] = 4]
  OBVIOUS
<1>9. /\ froot = [name |-> NoName, size |-> BY2BLK, direct |-> droot, indirect |-> 0, f_dir |-> FALSE]
      /\ fone = [name |-> name, size |-> 1, direct |-> done, indirect |-> 0, f_dir |-> FALSE]
  BY <1>5, <1>6, <1>8
<1>10. /\ froot \in File /\ froot.size = BY2BLK /\ froot.direct = droot /\ froot.indirect = 0 /\ froot.f_dir = FALSE
       /\ fone \in File /\ fone.size = 1 /\ fone.direct = done /\ fone.indirect = 0 /\ fone.f_dir = FALSE
       /\ NewFile \in File /\ NewFile.size = 0 /\ NewFile.direct = none /\ NewFile.indirect = 0 /\ NewFile.f_dir = FALSE
  BY <1>3, <1>5, <1>7, <1>9, Numbers DEF File
<1>11. /\ file \in [FileNo -> File] /\ file[Root] = froot /\ file[1] = fone
       /\ \A k \in FileNo : k # Root /\ k # 1 => file[k] = NewFile
  BY <1>3, <1>8, <1>10, Numbers
<1> HIDE DEF file
<1>12. disk \in Disk /\ \A b \in Block : disk.page[b] = IF b = 4 THEN Full(word) ELSE Zero
  BY <1>3, <1>11, Pages DEF Disk
<1>13. disk.free = free
  OBVIOUS
<1> HIDE DEF disk
<1>14. /\ fs \in State /\ fs.file = file /\ fs.free = free /\ fs.mapped = {0, 1, 2} /\ fs.dirty = {}
       /\ fs.disk = disk /\ fs.end = "no"
  <2>1. [b \in Block |-> Zero] \in [Block -> Page]
    BY Pages
  <2> QED BY <1>2, <1>3, <1>11, <1>12, <2>1 DEF State
<1>15. \A k \in FileNo : fs.file[k].indirect = 0 /\ ~fs.file[k].f_dir
  BY <1>10, <1>11, <1>14
<1>16. ASSUME NEW k \in FileNo, NEW bno \in Bno
       PROVE  Ptr(fs, k, bno) = IF k = Root /\ bno = 0 THEN 3 ELSE IF k = 1 /\ bno = 0 THEN 4 ELSE 0
  <2>1. CASE bno \in 0..(NDIRECT - 1)
    <3>1. Ptr(fs, k, bno) = file[k].direct[bno]
      BY <1>14, <2>1, PtrDirect
    <3>2. file[k].direct = IF k = Root THEN droot ELSE IF k = 1 THEN done ELSE none
      BY <1>3, <1>10, <1>11
    <3> QED BY <1>3, <1>7, <2>1, <3>1, <3>2
  <2>2. CASE bno \in Place
    <3>1. bno # 0
      BY <2>2, Numbers DEF Place
    <3>2. Ptr(fs, k, bno) = IF fs.file[k].indirect = 0 THEN 0 ELSE fs.page[fs.file[k].indirect][bno]
      BY <2>2, PtrPlace
    <3> QED BY <1>15, <3>1, <3>2
  <2> QED BY <2>1, <2>2, Places
<1>17. ASSUME NEW x \in Slot
       PROVE  At(fs, x) = IF x = <<Root, 0>> THEN 3 ELSE IF x = <<1, 0>> THEN 4 ELSE 0
  <2>1. PICK k \in FileNo : x = <<k, -1>> \/ \E bno \in Bno : x = <<k, bno>>
    BY SlotCases
  <2>2. CASE x = <<k, -1>>
    <3>1. At(fs, x) = 0
      BY <1>15, <2>2, AtIndirect
    <3> QED BY <2>2, <3>1
  <2>3. ASSUME NEW bno \in Bno, x = <<k, bno>>
        PROVE  At(fs, x) = IF x = <<Root, 0>> THEN 3 ELSE IF x = <<1, 0>> THEN 4 ELSE 0
    <3>1. At(fs, x) = Ptr(fs, k, bno)
      BY <2>3, AtPtr
    <3>2. (x = <<Root, 0>> <=> k = Root /\ bno = 0) /\ (x = <<1, 0>> <=> k = 1 /\ bno = 0)
      BY <2>3
    <3> QED BY <1>16, <3>1, <3>2
  <2> QED BY <2>1, <2>2, <2>3
<1>18. <<Root, 0>> \in Slot /\ <<1, 0>> \in Slot /\ <<Root, 0>> # <<1, 0>>
  BY <1>3, AtPtr, Numbers
<1>19. Linked(fs)
  <2>1. 3 \notin free /\ 4 \notin free
    BY FsAssumption
  <2>2. \A x \in Slot : At(fs, x) # 0 => At(fs, x) \in DataBlock \ fs.free
    BY <1>3, <1>14, <1>17, <2>1
  <2>3. \A x, y \in Slot : At(fs, x) = At(fs, y) /\ At(fs, x) # 0 => x = y
    BY <1>17
  <2> QED BY <1>15, <2>2, <2>3 DEF Linked
<1>20. DirOK(fs)
  BY <1>15, Numbers DEF DirOK
<1>21. Contents(fs, written)
  <2>1. SUFFICES ASSUME NEW f \in Entry, NEW bno \in Bno, written[f][bno] # Unwritten
                 PROVE  Ptr(fs, f, bno) # 0 /\ Cur(fs, Ptr(fs, f, bno)) = Full(written[f][bno])
    BY DEF Contents
  <2>2. f \in FileNo /\ f # Root
    BY Numbers
  <2>3. f = 1 /\ bno = 0 /\ written[f][bno] = word
    BY <1>2, <2>1, <2>2
  <2>4. Ptr(fs, f, bno) = 4
    BY <1>16, <2>2, <2>3
  <2>5. Cur(fs, 4) = Full(word)
    BY <1>3, <1>12, <1>14 DEF Cur
  <2> QED BY <2>3, <2>4, <2>5
<1>22. Owned(fs)
  <2>1. ASSUME NEW f \in FileNo, NEW bno \in Bno, Ptr(fs, f, bno) # 0 PROVE bno < nblocks(fs.file[f].size)
    <3>1. bno = 0
      BY <1>16, <2>1
    <3>2. fs.file[f].size \in Nat
      BY <1>14, FileFields, Numbers
    <3> QED BY <3>1, <3>2 DEF nblocks, BY2BLK
  <2>2. ASSUME NEW c \in DataBlock \ fs.free PROVE \E y \in Slot : At(fs, y) = c
    <3>1. c = 3 \/ c = 4
      BY <1>14, <2>2, FsAssumption DEF DataBlock
    <3> QED BY <1>17, <1>18, <3>1
  <2> QED BY <2>1, <2>2 DEF Owned
<1>23. Inv(fs, written, behind)
  BY <1>13, <1>14, <1>19, <1>20, <1>21, <1>22 DEF Inv, Sound
<1>24. Sizes(fs)
  <2>1. fs.file[Root].size = BY2BLK /\ \A k \in Entry : fs.file[k].size = IF k = 1 THEN 1 ELSE 0
    BY <1>3, <1>10, <1>11, <1>14, Numbers
  <2> QED BY <1>3, <2>1 DEF Sizes
<1>25. written \in Written
  BY <1>2 DEF Written
<1>26. told \in [Entry -> 0..MaxSize]
  BY <1>2, <1>3
<1>27. ops \in 0..MaxOps
  BY <1>2, FsAssumption
<1> QED BY <1>2, <1>23, <1>24, <1>25, <1>26, <1>27 DEF IInv

\* The request is counted, and the types of the variables that are not fs stay.
LEMMA Counted == ASSUME IInv, serving PROVE ops' \in 0..MaxOps /\ fs.end = "no" /\ Inv(fs, written, behind) /\ Sizes(fs)
BY FsAssumption DEF IInv, serving

\* The larger of two sizes.
LEMMA MaxSizes == ASSUME NEW m \in 0..MaxSize, NEW n \in 0..MaxSize PROVE Max({m, n}) \in 0..MaxSize
<1>1. \E x \in {m, n} : \A y \in {m, n} : x >= y
  <2>1. MaxSize \in Int
    BY FsAssumption
  <2> QED BY <2>1
<1>2. Max({m, n}) \in {m, n}
  BY <1>1 DEF Max
<1> QED BY <1>2

\* Tell keeps the type of told.
LEMMA TellType ==
    ASSUME told \in [Entry -> 0..MaxSize], NEW k \in Entry, NEW size \in 0..MaxSize, Tell(k, size)
    PROVE  told' \in [Entry -> 0..MaxSize]
<1>1. Max({told[k], size}) \in 0..MaxSize
  BY MaxSizes
<1>2. told' = [told EXCEPT ![k] = Max({told[k], size})]
  BY DEF Tell
<1> QED BY <1>1, <1>2

\* Sizes are those of st.
LEMMA SizesKept ==
    ASSUME NEW st, NEW s, Sizes(st), \A k \in FileNo : s.file[k].size = st.file[k].size
    PROVE  Sizes(s)
BY Numbers DEF Sizes

\* A size within the bound.
LEMMA EntrySize ==
    ASSUME NEW st \in State, Sizes(st), NEW k \in Entry
    PROVE  st.file[k].size \in 0..MaxSize
<1>1. st.file[k].size \in Nat
  BY FileFields, Numbers
<1> QED BY <1>1, FsAssumption DEF Sizes

LEMMA OpenInv == IInv /\ file_open => IInv'
<1>1. SUFFICES ASSUME IInv, file_open PROVE IInv'
  OBVIOUS
<1>2. PICK name \in Name : \E l \in {dir_lookup(fs, name)} :
         fs' = l.st /\ IF l.k = 0 THEN UNCHANGED <<open, told>> ELSE Opened(l.st, l.k)
  BY <1>1 DEF file_open
<1>3. PICK l : l = dir_lookup(fs, name) /\ fs' = l.st
               /\ (l.k = 0 => UNCHANGED <<open, told>>) /\ (l.k # 0 => Opened(l.st, l.k))
  BY <1>2
<1>4. /\ ops' \in 0..MaxOps /\ fs.end = "no" /\ Inv(fs, written, behind) /\ Sizes(fs)
      /\ held' = held /\ behind' = behind /\ written' = written
  BY <1>1, Counted DEF file_open
<1>5. LookOK(fs, l, written, behind)
  BY <1>3, <1>4, Lookup DEF Sizes
<1>6. Inv(fs', written', behind') /\ fs' \in State
  BY <1>3, <1>4, <1>5 DEF LookOK, Inv
<1>7. Sizes(fs')
  BY <1>3, <1>4, <1>5, SizesKept DEF LookOK
<1>8. open' \subseteq Entry /\ told' \in [Entry -> 0..MaxSize]
  <2>1. CASE l.k = 0
    BY <1>1, <1>3, <2>1 DEF IInv
  <2>2. CASE l.k # 0
    <3>1. l.k \in Entry /\ l.st.file[l.k].size \in 0..MaxSize
      BY <1>3, <1>5, <1>6, <1>7, <2>2, EntrySize DEF LookOK
    <3>2. open' = open \cup {l.k} /\ Tell(l.k, l.st.file[l.k].size)
      BY <1>3, <2>2 DEF Opened
    <3>3. told' \in [Entry -> 0..MaxSize]
      BY <1>1, <3>1, <3>2, TellType DEF IInv
    <3> QED BY <1>1, <3>1, <3>2, <3>3 DEF IInv
  <2> QED BY <2>1, <2>2
<1>9. held' \subseteq fs'.mapped /\ held' \subseteq DataBlock
  BY <1>1, <1>3, <1>4, <1>5 DEF IInv, LookOK
<1> QED BY <1>1, <1>4, <1>6, <1>7, <1>8, <1>9 DEF IInv, Inv, Sizes

LEMMA CreateInv == IInv /\ file_create => IInv'
<1>1. SUFFICES ASSUME IInv, file_create PROVE IInv'
  OBVIOUS
<1>2. PICK name \in Name : \E l \in {dir_lookup(fs, name)} :
         \/ (l.k # 0 \/ l.failed) /\ fs' = l.st /\ UNCHANGED <<open, told>>
         \/ /\ l.k = 0 /\ ~l.failed
            /\ \E a \in {dir_alloc_file(l.st)} :
                 /\ a.st.file[Root].size <= MaxDir * BY2BLK
                 /\ IF a.k = 0 THEN fs' = a.st /\ UNCHANGED <<open, told>>
                    ELSE fs' = [a.st EXCEPT !.file[a.k].name = name] /\ Opened(a.st, a.k)
  BY <1>1 DEF file_create
<1>3. PICK l : /\ l = dir_lookup(fs, name)
               /\ \/ fs' = l.st /\ UNCHANGED <<open, told>>
                  \/ /\ l.k = 0 /\ ~l.failed
                     /\ \E a \in {dir_alloc_file(l.st)} :
                          /\ a.st.file[Root].size <= MaxDir * BY2BLK
                          /\ IF a.k = 0 THEN fs' = a.st /\ UNCHANGED <<open, told>>
                             ELSE fs' = PutName(a.st, a.k, name) /\ Opened(a.st, a.k)
  BY <1>2 DEF PutName
<1>4. /\ ops' \in 0..MaxOps /\ fs.end = "no" /\ Inv(fs, written, behind) /\ Sizes(fs)
      /\ held' = held /\ behind' = behind /\ written' = written /\ held \subseteq fs.mapped /\ held \subseteq DataBlock
  BY <1>1, Counted DEF file_create, IInv
<1>5. LookOK(fs, l, written, behind)
  BY <1>3, <1>4, Lookup DEF Sizes
<1>6. Inv(l.st, written, behind) /\ l.st \in State /\ Sizes(l.st) /\ fs.mapped \subseteq l.st.mapped
  BY <1>4, <1>5, SizesKept DEF LookOK, Inv
<1>7. SUFFICES /\ Inv(fs', written', behind') /\ Sizes(fs') /\ open' \subseteq Entry /\ told' \in [Entry -> 0..MaxSize]
                  /\ fs.mapped \subseteq fs'.mapped
  BY <1>1, <1>4 DEF IInv, Inv, Sizes
<1>8. CASE fs' = l.st /\ UNCHANGED <<open, told>>
  BY <1>1, <1>4, <1>6, <1>8 DEF IInv
<1>9. CASE l.k = 0 /\ ~l.failed
           /\ \E a \in {dir_alloc_file(l.st)} :
                /\ a.st.file[Root].size <= MaxDir * BY2BLK
                /\ IF a.k = 0 THEN fs' = a.st /\ UNCHANGED <<open, told>>
                   ELSE fs' = PutName(a.st, a.k, name) /\ Opened(a.st, a.k)
  <2>1. PICK a : /\ a = dir_alloc_file(l.st) /\ a.st.file[Root].size <= MaxDir * BY2BLK
                 /\ a.k = 0 => fs' = a.st /\ UNCHANGED <<open, told>>
                 /\ a.k # 0 => fs' = PutName(a.st, a.k, name) /\ Opened(a.st, a.k)
    BY <1>9
  <2>2. l.st.end = "no"
    BY <1>5, <1>9 DEF LookOK
  <2>3. AllocOK(l.st, a, written, behind)
    BY <1>6, <2>1, <2>2, AllocFile DEF Sizes
  <2>4. Inv(a.st, written, behind) /\ a.st \in State /\ Sizes(a.st) /\ a.st.end \in {"no", "garbage"}
         /\ fs.mapped \subseteq a.st.mapped
    BY <1>6, <2>1, <2>3 DEF AllocOK, Inv, Sizes
  <2>5. CASE a.k = 0
    BY <1>1, <1>4, <2>1, <2>4, <2>5 DEF IInv
  <2>6. CASE a.k # 0
    <3>1. a.k \in Entry /\ a.k \in FileNo
      BY <2>1, <2>3, <2>6, Numbers DEF AllocOK
    <3>2. a.st.file[a.k].size \in 0..MaxSize
      BY <2>4, <3>1, EntrySize
    <3>3. fs' = PutName(a.st, a.k, name) /\ open' = open \cup {a.k} /\ Tell(a.k, a.st.file[a.k].size)
      BY <2>1, <2>6 DEF Opened
    <3>4. told' \in [Entry -> 0..MaxSize]
      BY <1>1, <3>1, <3>2, <3>3, TellType DEF IInv
    <3>5. PICK s : s = fs'
      OBVIOUS
    <3>6. Inv(s, written, behind) /\ Rest(a.st, s) /\ \A k \in FileNo : s.file[k].size = a.st.file[k].size
      BY <2>4, <3>1, <3>3, <3>5, SetName
    <3>7. Sizes(s)
      BY <2>4, <3>6, SizesKept
    <3> QED BY <1>1, <1>4, <2>4, <3>1, <3>3, <3>4, <3>5, <3>6, <3>7 DEF IInv, Rest
  <2> QED BY <2>5, <2>6
<1> QED BY <1>3, <1>8, <1>9

\* Once blocks may be lost, nothing else changes.
LEMMA MayLose == ASSUME NEW st, NEW w, NEW lost, Inv(st, w, lost), NEW more PROVE Inv(st, w, lost \/ more)
BY DEF Inv, Sound

LEMMA MapInv == IInv /\ serve_map => IInv'
<1>1. SUFFICES ASSUME IInv, serve_map PROVE IInv'
  OBVIOUS
<1>2. PICK f \in open, bno \in Bno :
         /\ fs' = file_get_block(fs, f, bno).st
         /\ held' = IF file_get_block(fs, f, bno).st.end = "no" THEN held \cup ({file_get_block(fs, f, bno).r} \ {0})
                    ELSE held
         /\ behind' = (behind \/ bno * BY2BLK >= fs.file[f].size)
  BY <1>1 DEF serve_map
<1>3. /\ ops' \in 0..MaxOps /\ fs.end = "no" /\ Inv(fs, written, behind) /\ Sizes(fs)
      /\ open' = open /\ told' = told /\ written' = written /\ f \in Entry /\ f \in FileNo
  BY <1>1, Counted, Numbers DEF serve_map, IInv
<1>4. PICK lost \in BOOLEAN : lost <=> (behind \/ bno * BY2BLK >= fs.file[f].size)
  OBVIOUS
<1>5. behind' = lost
  BY <1>2, <1>4
<1>6. Inv(fs, written, lost)
  <2>1. Inv(fs, written, behind \/ bno * BY2BLK >= fs.file[f].size)
    BY <1>3, MayLose
  <2> QED BY <1>4, <2>1 DEF Inv, Sound
<1>7. lost \/ bno < nblocks(fs.file[f].size)
  <2>1. PICK n \in Nat : n = fs.file[f].size
    BY <1>3, FileFields, Numbers DEF Inv
  <2>2. bno * 2 < n => bno < n \div 2 + 1
    BY <2>1, Numbers
  <2> QED BY <1>4, <2>1, <2>2, Numbers DEF nblocks, BY2BLK
<1>8. PICK g : g = file_get_block(fs, f, bno)
  OBVIOUS
<1>9. /\ Inv(g.st, written, lost) /\ g.st.end \in {"no", "garbage"} /\ Fetches(fs, g.st, f)
      /\ g.st.end = "no" /\ g.r # 0 => g.r = Ptr(g.st, f, bno) /\ g.r \in DataBlock /\ g.r \in g.st.mapped
      /\ bno < NDIRECT => g.st.end = "no"
  BY <1>3, <1>6, <1>7, <1>8, GetBlock
<1>10. Sizes(g.st)
  BY <1>3, <1>9, SizesKept DEF Fetches, SameFiles
<1>11. Inv(fs', written', behind') /\ Sizes(fs')
  BY <1>2, <1>3, <1>5, <1>8, <1>9, <1>10
<1>12. held' \subseteq fs'.mapped /\ held' \subseteq DataBlock
  <2>1. held \subseteq g.st.mapped /\ held \subseteq DataBlock
    BY <1>1, <1>9 DEF IInv, Fetches
  <2> QED BY <1>2, <1>8, <1>9, <2>1
<1> QED BY <1>1, <1>3, <1>5, <1>11, <1>12 DEF IInv, Inv, Sizes

PutPage(st, b, p) == [st EXCEPT !.page[b] = p]
Wrote(st, w, b, word) == [f \in FileNo |-> [bno \in Bno |-> IF Ptr(st, f, bno) = b THEN word ELSE w[f][bno]]]

\* A client stores into a page of the cache that is not metadata.
LEMMA ClientWrite ==
    ASSUME NEW st, NEW w \in Written, NEW lost, Inv(st, w, lost), st.end = "no",
           NEW word \in Word, NEW b, b \in st.mapped, b \in DataBlock, \A k \in FileNo : st.file[k].indirect # b,
           NEW s, s = PutPage(st, b, Full(word)), NEW v, v = Wrote(st, w, b, word)
    PROVE  Inv(s, v, lost) /\ s.file = st.file /\ s.mapped = st.mapped /\ v \in Written
<1>1. /\ st \in State /\ Sound(st, w, lost) /\ st.dirty \subseteq st.mapped /\ st.disk.free \subseteq st.free
      /\ b \in Block /\ b # 0
  BY Numbers DEF Inv
<1>2. /\ s \in State /\ s.file = st.file /\ s.free = st.free /\ s.dirty = st.dirty /\ s.mapped = st.mapped
      /\ s.disk = st.disk /\ s.end = "no" /\ s.page[b] = Full(word)
      /\ \A c \in Block : c # b => s.page[c] = st.page[c]
  <2>1. PICK q : q = [st.page EXCEPT ![b] = Full(word)]
    OBVIOUS
  <2>2. q \in [Block -> Page] /\ q[b] = Full(word) /\ \A c \in Block : c # b => q[c] = st.page[c]
    <3>1. st.page \in [Block -> Page]
      BY <1>1 DEF State
    <3> QED BY <1>1, <2>1, <3>1, Pages
  <2>3. s = [st EXCEPT !.page = q]
    BY <1>1, <2>1 DEF State, PutPage
  <2> QED BY <1>1, <2>2, <2>3 DEF State
<1>4. \A k \in FileNo : st.file[k].indirect # b /\ st.file[k].indirect \in Block
  BY <1>1, FileFields
<1>5. SamePlaces(st, s)
  BY <1>2, <1>4, PlacesKept
<1>6. \A k \in FileNo, i \in Bno : Ptr(s, k, i) = Ptr(st, k, i)
  BY <1>5, AtPtr DEF SamePlaces
<1>7. Linked(s)
  BY <1>1, <1>2, <1>5 DEF Sound, Linked, SamePlaces
<1>8. DirOK(s)
  <2>1. s.file[Root].size >= st.file[Root].size
    BY <1>1, <1>2, FileFields, Numbers DEF BY2BLK
  <2> QED BY <1>1, <1>2, <1>5, <2>1, DirKept DEF Sound
<1>9. v \in Written /\ \A k \in FileNo, i \in Bno : v[k][i] = IF Ptr(st, k, i) = b THEN word ELSE w[k][i]
  BY DEF Wrote, Written
<1>10. Contents(s, v)
  <2>1. SUFFICES ASSUME NEW k \in Entry, NEW i \in Bno, v[k][i] # Unwritten
                 PROVE  Ptr(s, k, i) # 0 /\ Cur(s, Ptr(s, k, i)) = Full(v[k][i])
    BY DEF Contents
  <2>2. k \in FileNo /\ Ptr(s, k, i) = Ptr(st, k, i)
    BY <1>6, Numbers
  <2>3. CASE Ptr(st, k, i) = b
    BY <1>1, <1>2, <1>9, <2>2, <2>3 DEF Cur
  <2>4. CASE Ptr(st, k, i) # b
    <3>1. v[k][i] = w[k][i] /\ Ptr(st, k, i) # 0 /\ Cur(st, Ptr(st, k, i)) = Full(v[k][i])
      BY <1>1, <1>9, <2>1, <2>2, <2>4 DEF Sound, Contents
    <3>2. <<k, i>> \in Slot /\ At(st, <<k, i>>) = Ptr(st, k, i)
      BY <2>2, AtPtr
    <3>3. Ptr(st, k, i) \in Block
      BY <1>1, <3>1, <3>2, Numbers DEF Sound, Linked
    <3>4. Cur(s, Ptr(st, k, i)) = Cur(st, Ptr(st, k, i))
      BY <1>2, <2>4, <3>3 DEF Cur
    <3> QED BY <2>2, <3>1, <3>4
  <2> QED BY <2>3, <2>4
<1>11. ASSUME ~lost PROVE Owned(s)
  BY <1>1, <1>2, <1>5, <1>6, <1>11 DEF Sound, Owned, SamePlaces
<1> QED BY <1>1, <1>2, <1>7, <1>8, <1>9, <1>10, <1>11 DEF Inv, Sound

\* The places TLC looks at are the slots: indirect blocks are in memory.
LEMMA SlotsAre ==
    ASSUME IInv, fs.end = "no"
    PROVE  \A x \in Slot : PtrOf(x[1], x[2]) = At(fs, x)
<1>1. SUFFICES ASSUME NEW x \in Slot PROVE PtrOf(x[1], x[2]) = At(fs, x)
  OBVIOUS
<1>2. Linked(fs)
  BY DEF IInv, Inv, Sound
<1>3. PICK f \in FileNo : x = <<f, -1>> \/ \E bno \in Bno : x = <<f, bno>>
  BY SlotCases
<1>4. CASE x = <<f, -1>>
  BY <1>4, AtIndirect DEF PtrOf
<1>5. ASSUME NEW bno \in Bno, x = <<f, bno>> PROVE PtrOf(x[1], x[2]) = At(fs, x)
  <2>1. bno # -1 /\ x[1] = f /\ x[2] = bno /\ At(fs, x) = Ptr(fs, f, bno)
    BY <1>5, AtPtr, Places
  <2>2. CASE fs.file[f].indirect # 0 \/ bno < NDIRECT
    BY <1>2, <2>1, <2>2 DEF PtrOf, Linked
  <2>3. CASE fs.file[f].indirect = 0 /\ ~(bno < NDIRECT)
    BY <2>1, <2>3 DEF PtrOf, Ptr
  <2> QED BY <2>2, <2>3
<1> QED BY <1>3, <1>4, <1>5

LEMMA WriteInv == IInv /\ client_write => IInv'
<1>1. SUFFICES ASSUME IInv, client_write PROVE IInv'
  OBVIOUS
<1>2. PICK b \in held, word \in Word :
         IF Metadata(b) THEN fs' = [fs EXCEPT !.end = "garbage"] /\ UNCHANGED written
         ELSE /\ fs' = [fs EXCEPT !.page[b] = Full(word)]
              /\ written' = [f \in FileNo |->
                                [bno \in Bno |-> IF PtrOf(f, bno) = b THEN word ELSE written[f][bno]]]
  BY <1>1 DEF client_write
<1>3. /\ ops' \in 0..MaxOps /\ fs.end = "no" /\ Inv(fs, written, behind) /\ Sizes(fs) /\ fs \in State
      /\ open' = open /\ told' = told /\ held' = held /\ behind' = behind /\ written \in Written
      /\ b \in fs.mapped /\ b \in DataBlock
  BY <1>1, Counted DEF client_write, IInv, Inv
<1>4. SUFFICES Inv(fs', written', behind') /\ Sizes(fs') /\ fs'.mapped = fs.mapped /\ written' \in Written
  BY <1>1, <1>3 DEF IInv, Inv, Sizes
<1>5. CASE Metadata(b)
  <2>1. PICK s : s = [fs EXCEPT !.end = "garbage"] /\ fs' = s /\ written' = written
    BY <1>2, <1>5
  <2>2. /\ s \in State /\ s.end = "garbage" /\ s.file = fs.file /\ s.free = fs.free /\ s.dirty = fs.dirty
        /\ s.mapped = fs.mapped /\ s.disk = fs.disk
    BY <1>3, <2>1 DEF State
  <2> QED BY <1>3, <2>1, <2>2 DEF Inv, Sizes
<1>6. CASE ~Metadata(b)
  <2>1. PICK s, v : s = fs' /\ v = written'
    OBVIOUS
  <2>2. \A k \in FileNo : fs.file[k].indirect # b
    BY <1>6 DEF Metadata, PtrOf
  <2>3. \A f \in FileNo, bno \in Bno : PtrOf(f, bno) = Ptr(fs, f, bno)
    <3>1. SUFFICES ASSUME NEW f \in FileNo, NEW bno \in Bno PROVE PtrOf(f, bno) = Ptr(fs, f, bno)
      OBVIOUS
    <3>2. <<f, bno>> \in Slot /\ At(fs, <<f, bno>>) = Ptr(fs, f, bno)
      BY AtPtr
    <3>3. PtrOf(<<f, bno>>[1], <<f, bno>>[2]) = At(fs, <<f, bno>>)
      BY <1>1, <1>3, <3>2, SlotsAre
    <3> QED BY <3>2, <3>3
  <2>4. s = PutPage(fs, b, Full(word))
    BY <1>2, <1>6, <2>1 DEF PutPage
  <2>5. v = [f \in FileNo |-> [bno \in Bno |-> IF PtrOf(f, bno) = b THEN word ELSE written[f][bno]]]
    BY <1>2, <1>6, <2>1
  <2>6. v = Wrote(fs, written, b, word)
    BY <2>3, <2>5 DEF Wrote
  <2>7. Inv(s, v, behind) /\ s.file = fs.file /\ s.mapped = fs.mapped /\ v \in Written
    BY <1>3, <2>2, <2>4, <2>6, ClientWrite
  <2>8. Sizes(s)
    BY <1>3, <2>7 DEF Sizes
  <2> QED BY <1>3, <2>1, <2>7, <2>8
<1> QED BY <1>5, <1>6

LEMMA DirtyStepInv == IInv /\ file_dirty => IInv'
<1>1. SUFFICES ASSUME IInv, file_dirty PROVE IInv'
  OBVIOUS
<1>2. PICK f \in open, bno \in Bno : \E m \in {file_map_block(fs, f, bno, FALSE)} :
         fs' = IF m.r = 0 THEN m.st ELSE dirty_block(m.st, m.r)
  BY <1>1 DEF file_dirty
<1>3. /\ ops' \in 0..MaxOps /\ fs.end = "no" /\ Inv(fs, written, behind) /\ Sizes(fs)
      /\ open' = open /\ told' = told /\ held' = held /\ behind' = behind /\ written' = written /\ f \in FileNo
  BY <1>1, Counted, Numbers DEF file_dirty, IInv
<1>4. PICK alloc \in BOOLEAN : ~alloc
  OBVIOUS
<1>5. PICK m : m = file_map_block(fs, f, bno, alloc) /\ fs' = IF m.r = 0 THEN m.st ELSE dirty_block(m.st, m.r)
  <2>1. alloc = FALSE
    BY <1>4
  <2> QED BY <1>2, <2>1
<1>6. /\ Inv(m.st, written, behind) /\ m.st.end \in {"no", "garbage"} /\ Fetches(fs, m.st, f) /\ m.r \in Nat
      /\ m.st.end = "no" /\ m.r # 0 => m.r = Ptr(m.st, f, bno) /\ m.r \in DataBlock /\ m.r \notin m.st.free
      /\ ~alloc \/ bno < NDIRECT => m.st.end = "no"
  <2>1. alloc => behind \/ bno < nblocks(fs.file[f].size)
    BY <1>4
  <2> QED BY <1>3, <1>5, <2>1, MapBlock
<1>7. Sizes(m.st)
  BY <1>3, <1>6, SizesKept DEF Fetches, SameFiles
<1>8. Inv(fs', written', behind') /\ Sizes(fs') /\ m.st.mapped \subseteq fs'.mapped
  <2>1. CASE m.r = 0
    BY <1>3, <1>5, <1>6, <1>7, <2>1
  <2>2. CASE m.r # 0
    <3>1. PICK s : s = dirty_block(m.st, m.r)
      OBVIOUS
    <3>2. Inv(s, written, behind) /\ s.file = m.st.file /\ s.mapped = m.st.mapped
      BY <1>4, <1>6, <3>1, DirtyInv
    <3> QED BY <1>3, <1>5, <1>7, <2>2, <3>1, <3>2 DEF Sizes
  <2> QED BY <2>1, <2>2
<1>9. held' \subseteq fs'.mapped /\ held' \subseteq DataBlock
  BY <1>1, <1>3, <1>6, <1>8 DEF IInv, Fetches
<1> QED BY <1>1, <1>3, <1>8, <1>9 DEF IInv, Inv, Sizes

LEMMA SyncInv == IInv /\ fs_sync => IInv'
<1>1. SUFFICES ASSUME IInv, fs_sync PROVE IInv'
  OBVIOUS
<1>2. /\ ops' \in 0..MaxOps /\ fs.end = "no" /\ Inv(fs, written, behind) /\ Sizes(fs)
      /\ open' = open /\ told' = told /\ held' = held /\ behind' = behind /\ written' = written
  BY <1>1, Counted DEF fs_sync
<1>3. PICK B \in SUBSET Block : B = fs.mapped \cap fs.dirty /\ B \subseteq fs.mapped \cup {2}
  BY <1>2 DEF Inv, State
<1>4. PICK s : s = write_blocks(fs, B) /\ fs' = s
  BY <1>1, <1>3 DEF fs_sync
<1>5. Inv(s, written, behind) /\ Writes(fs, s)
  BY <1>2, <1>3, <1>4, WritesInv
<1>6. Inv(fs', written', behind') /\ Sizes(fs') /\ fs'.mapped = fs.mapped
  BY <1>2, <1>4, <1>5 DEF Writes, Sizes
<1> QED BY <1>1, <1>2, <1>6 DEF IInv, Inv, Sizes

LEMMA CloseInv == ASSUME NEW f \in Entry PROVE IInv /\ file_close(f) => IInv'
<1>1. SUFFICES ASSUME IInv, file_close(f) PROVE IInv'
  OBVIOUS
<1>2. /\ ops' \in 0..MaxOps /\ fs.end = "no" /\ Inv(fs, written, behind) /\ Sizes(fs)
      /\ open' = open /\ told' = told /\ held' = held /\ behind' = behind /\ written' = written /\ f \in FileNo
  BY <1>1, Counted, Numbers DEF file_close
<1>3. PICK s, t : s = file_flush(fs, f) /\ t = flush_dir(s, f) /\ fs' = t
  BY <1>1 DEF file_close
<1>4. Inv(s, written, behind) /\ Writes(fs, s)
  BY <1>2, <1>3, Flush
<1>5. Inv(t, written, behind) /\ Writes(s, t)
  BY <1>2, <1>3, <1>4, FlushDir DEF Writes
<1>6. Inv(fs', written', behind') /\ Sizes(fs') /\ fs'.mapped = fs.mapped
  BY <1>2, <1>3, <1>4, <1>5 DEF Writes, Sizes
<1> QED BY <1>1, <1>2, <1>6 DEF IInv, Inv, Sizes

\* What is left of the written blocks has its type.
LEMMA CutType == ASSUME NEW w \in Written, NEW f \in FileNo, NEW size PROVE Cut(w, f, size) \in Written
<1>1. PICK u : u = [bno \in Bno |-> IF size = 0 \/ bno >= nblocks(size) THEN Unwritten ELSE w[f][bno]]
  OBVIOUS
<1>2. u \in [Bno -> Word \cup {Unwritten}]
  BY <1>1 DEF Written
<1> QED BY <1>1, <1>2 DEF Cut, Written

LEMMA SetSizeInv == IInv /\ file_set_size => IInv'
<1>1. SUFFICES ASSUME IInv, file_set_size PROVE IInv'
  OBVIOUS
<1>2. PICK f \in open, size \in 0..MaxSize :
         LET shorter == fs.file[f].size > size
             s == IF shorter THEN file_truncate(fs, f, size) ELSE [fs EXCEPT !.file[f].size = size]
         IN  /\ fs' = flush_dir(s, f)
             /\ Tell(f, size)
             /\ written' = IF shorter THEN [written EXCEPT ![f] = Kept(f, size)] ELSE written
  BY <1>1 DEF file_set_size
<1>3. /\ ops' \in 0..MaxOps /\ fs.end = "no" /\ Inv(fs, written, behind) /\ Sizes(fs) /\ fs \in State
      /\ open' = open /\ held' = held /\ behind' = behind /\ f \in FileNo /\ f \in Entry /\ f # Root /\ written \in Written
  BY <1>1, Counted, Numbers DEF file_set_size, IInv, Inv
<1>4. PICK s, v : /\ fs' = flush_dir(s, f) /\ Tell(f, size) /\ v = written'
                  /\ \/ fs.file[f].size > size /\ s = file_truncate(fs, f, size) /\ v = Cut(written, f, size)
                     \/ ~(fs.file[f].size > size) /\ s = PutSize(fs, f, size) /\ v = written
  BY <1>2 DEF Kept, Cut, PutSize
<1>5. size \in Nat /\ size <= MaxSize /\ size \in 0..(NINDIRECT * BY2BLK) /\ fs.file[f].size \in Nat
  <2>1. fs.file[f].size \in Nat
    BY <1>3, FileFields, Numbers
  <2>2. PICK m \in Nat : m = NINDIRECT * BY2BLK
    BY Numbers DEF BY2BLK
  <2>3. MaxSize \in 1..m
    BY <2>2, FsAssumption
  <2> QED BY <2>1, <2>2, <2>3
<1>6. /\ Inv(s, v, behind) /\ s.end = "no" /\ s.mapped = fs.mapped /\ v \in Written /\ s.file[f].size = size
      /\ \A k \in FileNo : k # f => s.file[k] = fs.file[k]
  <2>1. CASE fs.file[f].size > size /\ s = file_truncate(fs, f, size) /\ v = Cut(written, f, size)
    <3>1. size <= fs.file[f].size
      BY <1>5, <2>1
    <3>2. /\ Inv(file_truncate(fs, f, size), Cut(written, f, size), behind)
          /\ Truncated(fs, file_truncate(fs, f, size), f, size)
      BY <1>3, <1>5, <3>1, Truncate
    <3> QED BY <1>3, <2>1, <3>2, CutType DEF Truncated
  <2>2. CASE ~(fs.file[f].size > size) /\ s = PutSize(fs, f, size) /\ v = written
    <3>1. size >= fs.file[f].size
      BY <1>5, <2>2
    <3>2. /\ Inv(s, written, behind) /\ s.end = "no" /\ s.mapped = fs.mapped /\ s.file[f].size = size
          /\ \A k \in FileNo : k # f => s.file[k] = fs.file[k]
      BY <1>3, <1>5, <2>2, <3>1, Lengthen
    <3> QED BY <1>3, <2>2, <3>2
  <2> QED BY <1>4, <2>1, <2>2
<1>7. PICK t : t = flush_dir(s, f) /\ fs' = t
  BY <1>4
<1>8. Inv(t, v, behind) /\ Writes(s, t)
  BY <1>3, <1>6, <1>7, FlushDir
<1>9. Sizes(s)
  BY <1>3, <1>5, <1>6, Numbers DEF Sizes
<1>10. Inv(fs', written', behind') /\ Sizes(fs') /\ written' \in Written /\ fs'.mapped = fs.mapped
  BY <1>3, <1>4, <1>6, <1>7, <1>8, <1>9 DEF Writes, Sizes
<1>11. told' \in [Entry -> 0..MaxSize]
  BY <1>1, <1>3, <1>4, TellType DEF IInv
<1> QED BY <1>1, <1>3, <1>10, <1>11 DEF IInv, Inv, Sizes, Written

LEMMA RemoveInv == IInv /\ file_remove => IInv'
<1>1. SUFFICES ASSUME IInv, file_remove PROVE IInv'
  OBVIOUS
<1>2. PICK name \in Name : \E l \in {dir_lookup(fs, name)} :
         \/ l.k = 0 /\ fs' = l.st /\ UNCHANGED written
         \/ /\ l.k # 0
            /\ \E s \in {[file_truncate(l.st, l.k, 0) EXCEPT !.file[l.k].name = NoName]} :
                 fs' = flush_dir(file_flush(s, l.k), l.k)
            /\ written' = [written EXCEPT ![l.k] = Kept(l.k, 0)]
  BY <1>1 DEF file_remove
<1>3. PICK l : /\ l = dir_lookup(fs, name)
               /\ l.k = 0 => fs' = l.st /\ written' = written
               /\ l.k # 0 => /\ fs' = flush_dir(file_flush(PutName(file_truncate(l.st, l.k, 0), l.k, NoName), l.k), l.k)
                             /\ written' = Cut(written, l.k, 0)
  BY <1>2 DEF PutName, Cut, Kept
<1>4. /\ ops' \in 0..MaxOps /\ fs.end = "no" /\ Inv(fs, written, behind) /\ Sizes(fs) /\ written \in Written
      /\ open' = open /\ told' = told /\ held' = held /\ behind' = behind
  BY <1>1, Counted DEF file_remove, IInv
<1>5. LookOK(fs, l, written, behind)
  BY <1>3, <1>4, Lookup DEF Sizes
<1>6. Inv(l.st, written, behind) /\ l.st \in State /\ Sizes(l.st) /\ fs.mapped \subseteq l.st.mapped
  BY <1>4, <1>5, SizesKept DEF LookOK, Inv
<1>7. Inv(fs', written', behind') /\ Sizes(fs') /\ written' \in Written /\ fs.mapped \subseteq fs'.mapped
  <2>1. CASE l.k = 0
    BY <1>3, <1>4, <1>6, <2>1
  <2>2. CASE l.k # 0
    <3>1. PICK k, a : k \in Entry /\ k = l.k /\ a = l.st /\ a.end = "no" /\ k \in FileNo
      BY <1>5, <2>2, Numbers DEF LookOK
    <3>2. PICK b, c, d, e, v : /\ b = file_truncate(a, k, 0) /\ c = PutName(b, k, NoName) /\ d = file_flush(c, k)
                               /\ e = flush_dir(d, k) /\ fs' = e /\ v = Cut(written, k, 0) /\ written' = v
      BY <1>3, <2>2, <3>1
    <3>3. PICK zero \in 0..(NINDIRECT * BY2BLK) : zero = 0 /\ zero <= a.file[k].size
      <4>1. a.file[k].size \in Nat
        BY <1>6, <3>1, FileFields, Numbers
      <4>2. 0 \in 0..(NINDIRECT * BY2BLK)
        BY Numbers DEF BY2BLK
      <4> QED BY <4>1, <4>2
    <3>4. /\ Inv(file_truncate(a, k, zero), Cut(written, k, zero), behind)
          /\ Truncated(a, file_truncate(a, k, zero), k, zero)
      BY <1>4, <1>6, <3>1, <3>3, Truncate
    <3>5. Inv(b, v, behind) /\ v \in Written /\ Truncated(a, b, k, 0) /\ b.end = "no"
      BY <1>4, <3>1, <3>2, <3>3, <3>4, CutType DEF Truncated
    <3>6. Sizes(b)
      <4>1. 0 <= MaxSize
        BY FsAssumption
      <4> QED BY <1>6, <3>1, <3>5, <4>1, Numbers DEF Sizes, Truncated
    <3>7. Inv(c, v, behind) /\ c.end = "no" /\ Sizes(c) /\ c.mapped = b.mapped
      <4>1. /\ Inv(c, v, behind) /\ Rest(b, c)
            /\ \A i \in FileNo : c.file[i].size = b.file[i].size /\ c.file[i].f_dir = b.file[i].f_dir
        BY <3>1, <3>2, <3>5, SetName
      <4> QED BY <3>5, <3>6, <4>1, SizesKept DEF Rest
    <3>8. Inv(d, v, behind) /\ Writes(c, d)
      BY <3>1, <3>2, <3>7, Flush
    <3>9. Inv(e, v, behind) /\ Writes(d, e)
      BY <3>1, <3>2, <3>7, <3>8, FlushDir DEF Writes
    <3>10. Sizes(e) /\ fs.mapped \subseteq e.mapped
      BY <1>6, <3>1, <3>5, <3>7, <3>8, <3>9 DEF Writes, Sizes, Truncated
    <3> QED BY <1>4, <3>2, <3>5, <3>9, <3>10
  <2> QED BY <2>1, <2>2
<1> QED BY <1>1, <1>4, <1>7 DEF IInv, Inv, Sizes, Written

\* No step of the server or of a client breaks the invariant.
LEMMA NextInv == IInv /\ [Next]_vars => IInv'
<1>1. SUFFICES ASSUME IInv, [Next]_vars PROVE IInv'
  OBVIOUS
<1>2. CASE UNCHANGED vars
  BY <1>1, <1>2 DEF IInv, Inv, Sizes, vars
<1>3. ASSUME NEW f \in Entry, file_close(f) PROVE IInv'
  BY <1>1, <1>3, CloseInv
<1> QED BY <1>1, <1>2, <1>3, OpenInv, CreateInv, MapInv, WriteInv, SetSizeInv, DirtyStepInv, RemoveInv, SyncInv
        DEF Next

LEMMA Invariant == Spec => []IInv
BY InitInv, NextInv, PTL DEF Spec

-------------------------------------------------------------------------------
\* What follows.

\* The record fs, the open files and the histories keep their types, for every size of
\* the disk, of files and of the directory.
THEOREM TypeCorrect == Spec => []TypeOK
<1>1. IInv => TypeOK
  <2>1. SUFFICES ASSUME IInv PROVE TypeOK
    OBVIOUS
  <2>2. fs \in State /\ fs.dirty \subseteq fs.mapped
    BY <2>1 DEF IInv, Inv
  <2>3. fs.disk \in Disk
    BY <2>2 DEF State
  <2>4. DOMAIN fs = {"file", "page", "free", "mapped", "dirty", "disk", "end"}
    BY <2>2 DEF State
  <2> QED BY <2>1, <2>2, <2>3, <2>4 DEF TypeOK, IInv, State, Disk, File, Page, Block, Written
<1> QED BY <1>1, Invariant, PTL

\* Up to the step in which old or late words become metadata, alloc_block, file_truncate and
\* the requests that use them never share a block between two places, never leave a place
\* pointing to a free block, and lose no block until one behind the end of a file is asked
\* for; nor does read_block meet a free block before that step.
THEOREM BlocksHaveOneOwner == Spec => []BlocksAccounted
<1>1. IInv => BlocksAccounted
  <2>1. SUFFICES ASSUME IInv PROVE BlocksAccounted
    OBVIOUS
  <2>2. fs.end # "panic" /\ (fs.end = "no" => fs \in State /\ Linked(fs) /\ (behind \/ Owned(fs)))
    BY <2>1 DEF IInv, Inv, Sound
  <2>3. SUFFICES ASSUME fs.end = "no"
                 PROVE  LET pointed == {PtrOf(x[1], x[2]) : x \in Refs} IN
                        /\ Cardinality(pointed) = Cardinality(Refs)
                        /\ pointed \subseteq DataBlock \ fs.free
                        /\ ~behind => DataBlock \ fs.free \subseteq pointed
    BY <2>2 DEF BlocksAccounted
  <2>4. PICK R : R = {x \in Slot : At(fs, x) # 0}
    OBVIOUS
  <2>5. Refs = R
    BY <2>1, <2>3, <2>4, SlotsAre DEF Refs, Slot
  <2>6. PICK P : P = {At(fs, x) : x \in R}
    OBVIOUS
  <2>7. {PtrOf(x[1], x[2]) : x \in Refs} = P
    <3>1. \A x \in R : PtrOf(x[1], x[2]) = At(fs, x)
      BY <2>1, <2>3, <2>4, SlotsAre
    <3> QED BY <2>5, <2>6, <3>1
  <2>8. Cardinality(P) = Cardinality(R)
    <3>1. IsFiniteSet(Slot)
      <4>1. IsFiniteSet(FileNo)
        <5>1. MaxDir * FILE2BLK \in Nat
          BY Numbers
        <5>2. IsFiniteSet(Entry)
          BY <5>1, FS_Interval DEF Entry
        <5>3. FileNo = Entry \cup {Root}
          BY DEF FileNo
        <5> QED BY <5>2, <5>3, FS_AddElement
      <4>2. IsFiniteSet(Bno \cup {-1})
        <5>1. IsFiniteSet(Bno)
          <6>1. 0 \in Int /\ NINDIRECT - 1 \in Int
            BY Numbers
          <6> QED BY <6>1, FS_Interval DEF Bno
        <5> QED BY <5>1, FS_AddElement
      <4> QED BY <4>1, <4>2, FS_Product DEF Slot
    <3>2. IsFiniteSet(R)
      <4>1. R \in SUBSET Slot
        BY <2>4
      <4> QED BY <3>1, <4>1, FS_Subset
    <3>3. PICK g : g = [x \in R |-> At(fs, x)]
      OBVIOUS
    <3>4. g \in Bijection(R, P)
      <4>1. g \in [R -> P] /\ \A y \in P : \E x \in R : g[x] = y
        BY <2>6, <3>3
      <4>2. \A x, y \in R : g[x] = g[y] => x = y
        BY <2>2, <2>3, <2>4, <3>3 DEF Linked
      <4> QED BY <4>1, <4>2 DEF Bijection, Injection, Surjection, IsInjective
    <3>5. ExistsBijection(R, P)
      BY <3>4 DEF ExistsBijection
    <3> QED BY <3>2, <3>5, FS_Bijection
  <2>9. P \subseteq DataBlock \ fs.free
    BY <2>2, <2>3, <2>4, <2>6 DEF Linked
  <2>10. ~behind => DataBlock \ fs.free \subseteq P
    BY <2>2, <2>3, <2>4, <2>6, Numbers DEF Owned
  <2> QED BY <2>5, <2>7, <2>8, <2>9, <2>10
<1> QED BY <1>1, Invariant, PTL

\* The page of a block of a file, or the disk when the page is not in memory, holds the last
\* store a client made to the block, be it a late one through a mapping that outlived the
\* removal or truncation of another file; no request loses or changes it.
THEOREM FilesKeepTheirContents == Spec => []ContentsKept
<1>1. IInv => ContentsKept
  <2>1. SUFFICES ASSUME IInv, fs.end = "no", NEW f \in Entry, NEW bno \in Bno, written[f][bno] # Unwritten
                 PROVE  PtrOf(f, bno) # 0
                        /\ (IF PtrOf(f, bno) \in fs.mapped THEN fs.page ELSE fs.disk.page)[PtrOf(f, bno)]
                             = Full(written[f][bno])
    BY DEF ContentsKept
  <2>2. f \in FileNo
    BY Numbers
  <2>3. <<f, bno>> \in Slot /\ At(fs, <<f, bno>>) = Ptr(fs, f, bno)
    BY <2>2, AtPtr
  <2>4. PtrOf(f, bno) = Ptr(fs, f, bno)
    <3>1. PtrOf(<<f, bno>>[1], <<f, bno>>[2]) = At(fs, <<f, bno>>)
      BY <2>1, <2>3, SlotsAre
    <3> QED BY <2>3, <3>1
  <2>5. Contents(fs, written)
    BY <2>1 DEF IInv, Inv, Sound
  <2> QED BY <2>1, <2>4, <2>5 DEF Contents, Cur
<1> QED BY <1>1, Invariant, PTL

\* alloc_block writes the bitmap before the block is used: a block in use is never free on disk.
THEOREM BitmapIsSafe == Spec => []BitmapOnDisk
<1>1. IInv => BitmapOnDisk
  BY DEF IInv, Inv, BitmapOnDisk
<1> QED BY <1>1, Invariant, PTL

\* serve_close writes the entry of a file that was opened by name, and its dirty blocks.
THEOREM ClosingWritesBack == Spec => [][CloseWritesBack]_vars
<1>1. IInv /\ [Next]_vars => [CloseWritesBack]_vars
  <2>1. SUFFICES ASSUME IInv, NEW f \in Entry, file_close(f), fs.file[f].f_dir
                 PROVE  /\ fs'.disk.file[f] = fs'.file[f]
                        /\ \A bno \in Bno : bno * BY2BLK < fs.file[f].size /\ PtrOf(f, bno) \in fs.dirty \ {0} =>
                               fs'.disk.page[PtrOf(f, bno)] = fs'.page[PtrOf(f, bno)]
    BY DEF CloseWritesBack
  <2>2. /\ fs.end = "no" /\ Inv(fs, written, behind) /\ fs \in State /\ Linked(fs) /\ DirOK(fs)
        /\ f \in FileNo /\ Root \in FileNo
    BY <2>1, Numbers DEF IInv, Inv, Sound, file_close, serving
  <2>3. PICK t, u : t = file_flush(fs, f) /\ u = file_flush(t, Root) /\ fs' = flush_dir(t, f)
    BY <2>1 DEF file_close
  <2>4. Inv(t, written, behind) /\ Writes(fs, t)
    BY <2>2, <2>3, Flush
  <2>5. PICK B \in SUBSET Block :
           /\ t = write_blocks(fs, B)
           /\ \A bno \in Bno : /\ bno < nblocks(fs.file[f].size)
                               /\ Ptr(fs, f, bno) \in fs.dirty /\ Ptr(fs, f, bno) \in DataBlock
                               => Ptr(fs, f, bno) \in B
    BY <2>2, <2>3, Flush
  <2>6. t \in State /\ t.end = "no" /\ fs' = u
    BY <2>1, <2>2, <2>3, <2>4 DEF Writes, flush_dir
  <2>7. PICK C \in SUBSET Block :
           /\ u = write_blocks(t, C)
           /\ \A bno \in Bno : /\ bno < nblocks(t.file[Root].size)
                               /\ Ptr(t, Root, bno) \in t.dirty /\ Ptr(t, Root, bno) \in DataBlock
                               => Ptr(t, Root, bno) \in C
    BY <2>2, <2>3, <2>4, <2>6, Flush
  <2>8. /\ Writes(t, u)
        /\ \A b \in Block : u.disk.page[b] = IF b \in C THEN t.page[b] ELSE t.disk.page[b]
        /\ \A k \in Entry : u.disk.file[k] = IF DirBlock(t, k) \in C THEN t.file[k] ELSE t.disk.file[k]
    BY <2>6, <2>7, WriteBlocks
  <2>9. \A b \in Block : t.disk.page[b] = IF b \in B THEN fs.page[b] ELSE fs.disk.page[b]
    BY <2>2, <2>5, WriteBlocks
  <2>10. u.disk.file[f] = u.file[f]
    <3>1. InDir(t, f) /\ DirBlock(t, f) \in t.dirty
      <4>1. t.file[f].f_dir /\ DirOK(t)
        BY <2>1, <2>4, <2>6 DEF Writes, Inv, Sound
      <4> QED BY <4>1 DEF DirOK
    <3>2. PICK i \in Bno : i = (f - 1) \div FILE2BLK /\ i \in 0..(NDIRECT - 1)
      BY <2>6, DirSlot
    <3>3. Ptr(t, Root, i) = DirBlock(t, f)
      BY <3>2, PtrDirect DEF DirBlock
    <3>4. DirBlock(t, f) \in C
      BY <2>7, <3>1, <3>2, <3>3 DEF InDir
    <3> QED BY <2>8, <3>4 DEF Writes
  <2>11. ASSUME NEW bno \in Bno, bno * BY2BLK < fs.file[f].size, PtrOf(f, bno) \in fs.dirty \ {0}
         PROVE  u.disk.page[PtrOf(f, bno)] = u.page[PtrOf(f, bno)]
    <3>1. <<f, bno>> \in Slot /\ At(fs, <<f, bno>>) = Ptr(fs, f, bno)
      BY <2>2, AtPtr
    <3>2. PtrOf(f, bno) = Ptr(fs, f, bno)
      <4>1. PtrOf(<<f, bno>>[1], <<f, bno>>[2]) = At(fs, <<f, bno>>)
        BY <2>1, <2>2, <3>1, SlotsAre
      <4> QED BY <3>1, <4>1
    <3>3. PICK b : b = Ptr(fs, f, bno)
      OBVIOUS
    <3>4. b \in DataBlock /\ b \in fs.dirty /\ b \in Block
      BY <2>2, <2>11, <3>1, <3>2, <3>3, Numbers DEF Linked
    <3>5. bno < nblocks(fs.file[f].size)
      <4>1. PICK n \in Nat : n = fs.file[f].size
        BY <2>2, FileFields, Numbers
      <4>2. bno * 2 < n => bno < n \div 2 + 1
        BY <4>1, Numbers
      <4> QED BY <2>11, <4>1, <4>2, Numbers DEF nblocks, BY2BLK
    <3>6. b \in B
      BY <2>5, <3>3, <3>4, <3>5
    <3> QED BY <2>4, <2>8, <2>9, <3>2, <3>3, <3>4, <3>6 DEF Writes
  <2> QED BY <2>6, <2>10, <2>11
<1> QED BY <1>1, Invariant, PTL DEF Spec
=============================================================================
