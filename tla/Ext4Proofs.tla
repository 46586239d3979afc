------------------------------ MODULE Ext4Proofs ------------------------------
(***************************************************************************)
(* Proofs about Ext4Writes, for every number of groups, every size, every  *)
(* set of requests and every sound filesystem on which no file has an      *)
(* extent that is reserved and not written (AllWritten: on one that has,   *)
(* an overwrite leaves the file and none of this holds): types, no entry   *)
(* ever leads to what is free or another's, the store, the counts.         *)
(***************************************************************************)
EXTENDS Ext4Writes, SequenceTheorems, FiniteSetTheorems, TLAPS

Written(d) == \A n \in Names : Present(d, n) => ~InodeOf(d, n).unwritten
AllWritten == \A d \in Images : Written(d)

(***************************************************************************)
(* Bits and numbers.                                                       *)
(***************************************************************************)
(* A number has one group and one bit.                                     *)
LEMMA OneGroupOneBit ==
    ASSUME NEW per \in Nat \ {0}, NEW off \in Nat,
           NEW g \in Nat, NEW h \in Nat,
           NEW b \in 0..(per - 1), NEW c \in 0..(per - 1),
           g * per + b + off = h * per + c + off
    PROVE  g = h /\ b = c
<1>1. ASSUME NEW x \in Nat, NEW y \in Nat, x < y
      PROVE  x * per + per <= y * per
  <2>1. PICK k \in Nat : y = x + 1 + k
    BY <1>1
  <2>2. y * per = x * per + per + k * per
    BY <2>1
  <2>3. k * per \in Nat /\ x * per \in Nat /\ y * per \in Nat
    OBVIOUS
  <2> QED BY <2>2, <2>3
<1>2. g * per \in Nat /\ h * per \in Nat
  OBVIOUS
<1>3. ~(g < h)
  BY <1>1, <1>2
<1>4. ~(h < g)
  BY <1>1, <1>2
<1>5. g = h
  BY <1>3, <1>4
<1> QED BY <1>5, <1>2

(* A free bit's number is in use by nobody.                                *)
LEMMA FreeInodeIsNew ==
    ASSUME NEW d \in Disk, NEW g \in Groups,
           NEW b \in InodeBits \ d.inode_bitmap[g]
    PROVE  ~InodeTaken(d, InodeNumber(g, b)) /\ InodeNumber(g, b) \in Inos
<1>1. ~InodeTaken(d, InodeNumber(g, b))
  <2>1. SUFFICES ASSUME NEW h \in Groups, NEW c \in d.inode_bitmap[h],
                        InodeNumber(g, b) = InodeNumber(h, c)
                 PROVE  FALSE
    BY DEF InodeTaken
  <2>2. c \in InodeBits
    BY DEF Disk
  <2>3. g = h /\ b = c
    <3>1. g * InodesPerGroup + b + 1 = h * InodesPerGroup + c + 1
      BY <2>1 DEF InodeNumber
    <3> QED BY <3>1, <2>2, OneGroupOneBit, SizesAssumption DEF Groups, InodeBits
  <2> QED BY <2>3
<1>2. InodeNumber(g, b) \in Inos
  <2>1. g \in Nat /\ g + 1 <= NumGroups
    BY SizesAssumption DEF Groups
  <2>2. PICK k \in Nat : NumGroups = g + 1 + k
    BY <2>1, SizesAssumption
  <2>3. NumGroups * InodesPerGroup
           = g * InodesPerGroup + InodesPerGroup + k * InodesPerGroup
    BY <2>1, <2>2, SizesAssumption
  <2>4. /\ g * InodesPerGroup \in Nat /\ k * InodesPerGroup \in Nat
        /\ NumGroups * InodesPerGroup \in Nat
    BY <2>1, SizesAssumption
  <2> QED BY <2>3, <2>4, SizesAssumption DEF InodeNumber, Inos, InodeBits
<1> QED BY <1>1, <1>2

LEMMA FreeBlockIsNew ==
    ASSUME NEW d \in Disk, NEW g \in Groups,
           NEW b \in BlockBits \ d.block_bitmap[g]
    PROVE  ~BlockTaken(d, BlockNumber(g, b))
<1>1. SUFFICES ASSUME NEW h \in Groups, NEW c \in d.block_bitmap[h],
                      BlockNumber(g, b) = BlockNumber(h, c)
               PROVE  FALSE
  BY DEF BlockTaken
<1>2. c \in BlockBits
  BY DEF Disk
<1>3. g = h /\ b = c
  <2>1. FirstDataBlock \in Nat
    BY DEF FirstDataBlock
  <2>2. g * BlocksPerGroup + b + FirstDataBlock = h * BlocksPerGroup + c + FirstDataBlock
    BY <1>1 DEF BlockNumber
  <2> QED BY <2>1, <2>2, <1>2, OneGroupOneBit, SizesAssumption DEF Groups, BlockBits
<1> QED BY <1>3

(***************************************************************************)
(* What a write to the card leaves alone.                                  *)
(***************************************************************************)
(* d and e have the same entries and files, and e at least the marks of d. *)
Keeps(d, e) ==
    /\ d \in Disk /\ e \in Disk
    /\ e.dir = d.dir /\ e.system = d.system /\ e.place = d.place
    /\ \A g \in Groups : /\ d.inode_bitmap[g] \subseteq e.inode_bitmap[g]
                         /\ d.block_bitmap[g] \subseteq e.block_bitmap[g]
    /\ \A n \in Names : Present(d, n) => InodeOf(e, n) = InodeOf(d, n)

LEMMA KeepsMarks ==
    ASSUME NEW d, NEW e, Keeps(d, e)
    PROVE  /\ \A ino : InodeTaken(d, ino) => InodeTaken(e, ino)
           /\ \A blk : BlockTaken(d, blk) => BlockTaken(e, blk)
BY DEF Keeps, InodeTaken, BlockTaken

LEMMA KeepsFiles ==
    ASSUME NEW d, NEW e, Keeps(d, e), NEW n \in Names
    PROVE  /\ Present(e, n) <=> Present(d, n)
           /\ e.dir[n] = d.dir[n]
           /\ Present(d, n) => /\ BlocksOf(e, n) = BlocksOf(d, n)
                               /\ InodeOf(e, n) = InodeOf(d, n)
BY DEF Keeps, Present, BlocksOf

LEMMA KeepsSound ==
    ASSUME NEW d, NEW e, Keeps(d, e), Sound(d)
    PROVE  Sound(e) /\ (Written(d) => Written(e))
<1>1. Whole(e)
  BY KeepsMarks, KeepsFiles DEF Sound, Whole
<1>2. Unshared(e)
  <2>1. e.system = d.system
    BY DEF Keeps
  <2>2. Unshared(d)
    BY DEF Sound
  <2> QED BY <2>1, <2>2, KeepsFiles DEF Unshared
<1>3. \A n \in Names : Present(e, n) =>
          \A i, j \in DOMAIN InodeOf(e, n).blocks :
              InodeOf(e, n).blocks[i] = InodeOf(e, n).blocks[j] => i = j
  BY KeepsFiles DEF Sound
<1>4. \A g \in Groups : \A b \in BlockBits \ e.block_bitmap[g] :
          BlockNumber(g, b) \in Blocks \ e.system
  BY DEF Sound, Keeps
<1>5. Placed(e)
  BY DEF Sound, Keeps, Placed
<1>6. Written(d) => Written(e)
  BY KeepsFiles DEF Written
<1> QED BY <1>1, <1>2, <1>3, <1>4, <1>5, <1>6 DEF Sound

(***************************************************************************)
(* The invariant: what a running create holds, and how far a request is.   *)
(***************************************************************************)
InodeHeld == /\ op.ino \in Inos /\ InodeTaken(disk, op.ino)
             /\ \A n \in Names : disk.dir[n] # op.ino

BlockHeld == /\ BlockTaken(disk, op.blk) /\ op.blk \notin disk.system
             /\ \A n \in Names : Present(disk, n) => op.blk \notin BlocksOf(disk, n)

BlockSteps == {"block_bitmap", "block_desc", "block_sb"}
LastSteps == {"inode", "data", "entry"}
CreateSteps == {"inode_bitmap", "inode_desc", "inode_sb"} \cup BlockSteps \cup LastSteps

Holding ==
    /\ op.step \in CreateSteps \ {"inode_bitmap"} => InodeHeld
    /\ \/ op.step \in {"block_desc", "block_sb"}
       \/ op.step \in LastSteps /\ request.data # <<>>
       => BlockHeld

Creating ==
    /\ op.step \in CreateSteps => /\ request \in Requests
                                  /\ request.kind = "create"
                                  /\ ~Present(disk, request.name)
    /\ op.step \in BlockSteps \cup LastSteps => request.size <= BlockSize
    /\ op.step \in BlockSteps \cup {"data"} => request.data # <<>>
    /\ op.step \in {"data", "entry"} => disk.inodes[op.ino] = InitNewInode
    /\ op.step = "entry" /\ request.data # <<>> => disk.data[op.blk] = request.data[1]

Overwriting ==
    /\ op.step \in {"idle", "lookup"} => op.at = 0
    /\ op.step = "blocks" => /\ request \in Requests
                             /\ request.kind = "overwrite"
                             /\ Present(disk, request.name)
                             /\ op.ino = Entry /\ op.file = File
                             /\ request.size <= Reach(File) * BlockSize
                             /\ op.at <= Reach(File)

Busy == op.step = "idle" <=> request = NoRequest

Inv == /\ TypeOK /\ Sound(disk) /\ Written(disk)
       /\ Holding /\ Creating /\ Overwriting /\ Busy

LEMMA FileHasReach ==
    ASSUME NEW d \in Disk, NEW n \in Names, Present(d, n)
    PROVE  InodeOf(d, n) \in Inode /\ Reach(InodeOf(d, n)) \in Nat
<1>1. InodeOf(d, n) \in Inode
  BY DEF Present, Disk, InodeOf
<1>2. InodeOf(d, n).blocks \in Seq(Blocks) /\ InodeOf(d, n).unwritten \in BOOLEAN
  BY <1>1 DEF Inode
<1>3. Len(InodeOf(d, n).blocks) \in Nat
  BY <1>2
<1>4. Reach(InodeOf(d, n)) \in Nat
  <2> DEFINE extra == IF InodeOf(d, n).unwritten THEN UnwrittenMark ELSE 0
  <2>1. extra \in Nat
    BY DEF UnwrittenMark
  <2>2. Reach(InodeOf(d, n)) = Len(InodeOf(d, n).blocks) + extra
    BY DEF Reach
  <2> HIDE DEF extra
  <2> QED BY <1>3, <2>1, <2>2
<1> QED BY <1>1, <1>4

LEMMA NowhereIsOp == Nowhere \in Op
<1>1. NoInode \in Inode
  <2>1. <<>> \in Seq(Blocks)
    OBVIOUS
  <2> QED BY <2>1 DEF NoInode, Inode
<1> QED BY <1>1, SizesAssumption DEF Nowhere, Op, Steps, Groups, Blocks

(* The images satisfy it.                                                  *)
LEMMA InitInv == ASSUME AllWritten, Init PROVE Inv
<1>1. disk \in Disk /\ Sound(disk) /\ Written(disk)
  BY ImagesAssumption DEF Init, AllWritten
<1>2. TypeOK
  <2>1. fs \in [desc : [Groups -> Counts], sb : Counts]
    BY <1>1 DEF Init, Disk
  <2>2. op \in Op
    BY NowhereIsOp DEF Init
  <2> QED BY <1>1, <2>1, <2>2, SizesAssumption DEF Init, TypeOK
<1>3. Holding /\ Creating /\ Overwriting /\ Busy
  BY DEF Init, Nowhere, Holding, Creating, Overwriting, Busy,
         CreateSteps, BlockSteps, LastSteps
<1> QED BY <1>1, <1>2, <1>3 DEF Inv

(* A request that ends with the disk as it is.                             *)
LEMMA EndInv ==
    ASSUME Inv, op' = Nowhere, request' = NoRequest, answer' \in {"ok", "error"},
           disk' = disk, faults' \in 0..MaxFaults,
           fs' \in [desc : [Groups -> Counts], sb : Counts]
    PROVE  Inv'
<1>1. TypeOK'
  <2>1. op' \in Op
    BY NowhereIsOp
  <2> QED BY <2>1 DEF Inv, TypeOK
<1>2. (Holding /\ Creating /\ Overwriting /\ Busy)'
  BY DEF Nowhere, Holding, Creating, Overwriting, Busy,
         CreateSteps, BlockSteps, LastSteps
<1>3. Written(disk')
  BY DEF Inv
<1> QED BY <1>1, <1>2, <1>3 DEF Inv

(* What a request holds it keeps while the card keeps its files.           *)
LEMMA HeldKept ==
    ASSUME Keeps(disk, disk')
    PROVE  /\ InodeHeld /\ op'.ino = op.ino => InodeHeld'
           /\ BlockHeld /\ op'.blk = op.blk => BlockHeld'
<1>1. disk'.dir = disk.dir /\ disk'.system = disk.system
  BY DEF Keeps
<1>2. ASSUME InodeHeld, op'.ino = op.ino PROVE InodeHeld'
  BY <1>1, <1>2, KeepsMarks DEF InodeHeld
<1>3. ASSUME BlockHeld, op'.blk = op.blk PROVE BlockHeld'
  BY <1>1, <1>3, KeepsMarks, KeepsFiles DEF BlockHeld
<1> QED BY <1>2, <1>3

(***************************************************************************)
(* What the three writes of data and size do while no file is behind the   *)
(* blocks of another: they change one block that only holds data, and the  *)
(* inode behind the request's name.                                        *)
(***************************************************************************)
DataWritten ==
    /\ At("data")
    /\ disk' = [disk EXCEPT !.data[op.blk] = request.data[1]]
    /\ GoTo("entry")
    /\ UNCHANGED <<fs, request, answer, faults>>

BlockWritten ==
    /\ At("blocks") /\ op.at < Reach(File)
    /\ disk' = [disk EXCEPT !.data[File.blocks[op.at + 1]] = Piece(op.at + 1)]
    /\ op' = [op EXCEPT !.at = @ + 1]
    /\ UNCHANGED <<fs, request, answer, faults>>

SizeWritten ==
    /\ At("blocks") /\ op.at = Reach(File)
    /\ disk' = [disk EXCEPT !.inodes[Entry].size = request.size]
    /\ GoTo("answer")
    /\ UNCHANGED <<fs, request, answer, faults>>

LEMMA FileIsNamed ==
    ASSUME Inv, request \in Requests, Present(disk, request.name)
    PROVE  /\ request.name \in Names /\ Entry \in Inos
           /\ File = InodeOf(disk, request.name) /\ File \in Inode
BY RequestsAssumption DEF Inv, TypeOK, Disk, Present, Entry, File, InodeOf

(* Without an unwritten extent an overwrite stays on the file's blocks.    *)
LEMMA ReachIsBlocks ==
    ASSUME NEW inode \in Inode, ~inode.unwritten
    PROVE  /\ Reach(inode) = Len(inode.blocks)
           /\ inode.blocks \in Seq(Blocks)
           /\ Len(inode.blocks) \in Nat
           /\ DOMAIN inode.blocks = 1..Len(inode.blocks)
           /\ \A i \in 1..Len(inode.blocks) : Visited(inode, i) = inode.blocks[i]
<1>1. inode.blocks \in Seq(Blocks)
  BY DEF Inode
<1>2. Len(inode.blocks) \in Nat /\ DOMAIN inode.blocks = 1..Len(inode.blocks)
  BY <1>1
<1> QED BY <1>1, <1>2 DEF Reach, Visited

LEMMA PlainWrite ==
    ASSUME NEW d \in Disk, Placed(d), NEW blk \in Blocks \ d.system, NEW tag
    PROVE  Overwritten(d, blk, tag) = [d EXCEPT !.data[blk] = tag]
<1> DEFINE says == Misread[tag]
<1>1. [g \in Groups |-> IF blk \in d.place.inode_bitmap[g] THEN says.inode_bits
                        ELSE d.inode_bitmap[g]] = d.inode_bitmap
  BY DEF Disk, Placed
<1>2. [g \in Groups |-> IF blk \in d.place.block_bitmap[g] THEN says.block_bits
                        ELSE d.block_bitmap[g]] = d.block_bitmap
  BY DEF Disk, Placed
<1>3. [g \in Groups |-> IF blk = d.place.desc[g] THEN says.counts ELSE d.desc[g]] = d.desc
  BY DEF Disk, Placed
<1>4. [i \in Inos |-> IF blk \in d.place.inode[i] THEN says.inode ELSE d.inodes[i]] = d.inodes
  BY DEF Disk, Placed
<1>5. blk # d.place.dir /\ blk \notin d.place.path /\ d.lost \in BOOLEAN
  BY DEF Disk, Placed
<1>6. Overwritten(d, blk, tag)
         = [d EXCEPT !.data[blk] = tag, !.inode_bitmap = d.inode_bitmap,
                     !.block_bitmap = d.block_bitmap, !.desc = d.desc,
                     !.inodes = d.inodes, !.dir = d.dir, !.room = d.room, !.lost = d.lost]
  BY <1>1, <1>2, <1>3, <1>4, <1>5 DEF Overwritten
<1> QED BY <1>6 DEF Disk

LEMMA WriteDataPlain == ASSUME Inv, WriteData PROVE DataWritten
<1>1. /\ disk \in Disk /\ op \in Op /\ Placed(disk) /\ BlockHeld
  BY DEF Inv, TypeOK, Sound, WriteData, At, Holding, Creating, CreateSteps, BlockSteps, LastSteps
<1>2. op.blk \in Blocks \ disk.system
  BY <1>1 DEF BlockHeld, Op
<1>3. Overwritten(disk, op.blk, request.data[1])
         = [disk EXCEPT !.data[op.blk] = request.data[1]]
  BY <1>1, <1>2, PlainWrite
<1> QED BY <1>2, <1>3 DEF WriteData, DataWritten

(* An overwrite's next block is a block of the file, and of no other.      *)
LEMMA NextBlock ==
    ASSUME Inv, OverwriteBlock
    PROVE  /\ request \in Requests /\ Present(disk, request.name)
           /\ op.at \in Nat /\ op.at + 1 \in DOMAIN File.blocks
           /\ Visited(File, op.at + 1) = File.blocks[op.at + 1]
           /\ File.blocks[op.at + 1] \in Blocks \ disk.system
           /\ op.file = File
<1>1. /\ request \in Requests /\ Present(disk, request.name)
      /\ op.at \in Nat /\ op.at < Reach(File) /\ op.file = File
  BY DEF Inv, TypeOK, Overwriting, OverwriteBlock, At, Op
<1>2. request.name \in Names /\ File = InodeOf(disk, request.name) /\ File \in Inode
  BY <1>1, FileIsNamed
<1>3. ~File.unwritten
  BY <1>1, <1>2 DEF Inv, Written
<1>4. op.at + 1 \in 1..Len(File.blocks)
  BY <1>1, <1>2, <1>3, ReachIsBlocks
<1>5. /\ DOMAIN File.blocks = 1..Len(File.blocks)
      /\ Visited(File, op.at + 1) = File.blocks[op.at + 1]
      /\ File.blocks \in Seq(Blocks)
  BY <1>2, <1>3, <1>4, ReachIsBlocks
<1>6. File.blocks[op.at + 1] \in Blocks
  BY <1>4, <1>5
<1>7. File.blocks[op.at + 1] \notin disk.system
  <2>1. BlocksOf(disk, request.name) \cap disk.system = {}
    BY <1>1, <1>2 DEF Inv, Sound, Unshared
  <2>2. File.blocks[op.at + 1] \in BlocksOf(disk, request.name)
    BY <1>2, <1>4, <1>5 DEF BlocksOf
  <2> QED BY <2>1, <2>2
<1> QED BY <1>1, <1>4, <1>5, <1>6, <1>7

LEMMA OverwriteBlockPlain == ASSUME Inv, OverwriteBlock PROVE BlockWritten
<1>1. /\ op.file = File /\ Visited(File, op.at + 1) = File.blocks[op.at + 1]
      /\ File.blocks[op.at + 1] \in Blocks \ disk.system
  BY NextBlock
<1>2. disk \in Disk /\ Placed(disk)
  BY DEF Inv, TypeOK, Sound
<1>3. Overwritten(disk, File.blocks[op.at + 1], Piece(op.at + 1))
         = [disk EXCEPT !.data[File.blocks[op.at + 1]] = Piece(op.at + 1)]
  BY <1>1, <1>2, PlainWrite
<1>4. /\ At("blocks") /\ op.at < Reach(File) /\ UNCHANGED <<fs, faults>>
  BY <1>1 DEF OverwriteBlock
<1>5. /\ disk' = Overwritten(disk, File.blocks[op.at + 1], Piece(op.at + 1))
      /\ op' = [op EXCEPT !.at = @ + 1] /\ UNCHANGED <<request, answer>>
  BY <1>1 DEF OverwriteBlock
<1> QED BY <1>3, <1>4, <1>5 DEF BlockWritten

LEMMA UpdateInodeSizePlain == ASSUME Inv, UpdateInodeSize PROVE SizeWritten
<1>1. /\ op.ino = Entry /\ op.file = File /\ request \in Requests
      /\ Present(disk, request.name) /\ disk \in Disk
  BY DEF Inv, TypeOK, Overwriting, UpdateInodeSize, At
<1>2. Entry \in Inos /\ File \in Inode /\ File = disk.inodes[Entry]
  BY <1>1, FileIsNamed DEF File
<1>3. [disk EXCEPT !.inodes[Entry].size = IF request.size = File.size THEN @ ELSE request.size]
         = [disk EXCEPT !.inodes[Entry].size = request.size]
  BY <1>1, <1>2
<1> QED BY <1>1, <1>3 DEF UpdateInodeSize, SizeWritten

LEMMA AskInv == ASSUME Inv, Ask PROVE Inv'
<1>1. TypeOK'
  BY DEF Inv, TypeOK, Ask, GoTo, Op, Steps
<1>2. op'.step = "lookup" /\ request' # NoRequest /\ disk' = disk /\ op'.at = 0
  BY RequestsAssumption DEF Inv, TypeOK, Ask, GoTo, Op, Busy, Overwriting
<1> QED BY <1>1, <1>2 DEF Inv, Holding, Creating, Overwriting, Busy,
         CreateSteps, BlockSteps, LastSteps

LEMMA LookupInv == ASSUME Inv, CreateFile \/ OverwriteFile PROVE Inv'
<1>1. fs' \in [desc : [Groups -> Counts], sb : Counts] /\ disk' = disk /\ faults' = faults
  BY DEF Inv, TypeOK, Disk, CreateFile, OverwriteFile
<1>2. CASE Refuse
  BY <1>1, <1>2, EndInv DEF Refuse, Inv, TypeOK
<1>3. ASSUME CreateFile, GoTo("inode_bitmap"), UNCHANGED <<request, answer>>, Entry = 0
      PROVE  Inv'
  <2>1. op'.step = "inode_bitmap" /\ TypeOK'
    BY <1>1, <1>3 DEF GoTo, Inv, TypeOK, Op, Steps
  <2>2. request \in Requests /\ request.kind = "create" /\ request' # NoRequest
    BY <1>3 DEF CreateFile, At, Inv, TypeOK, Busy
  <2>3. ~Present(disk, request.name)
    BY <1>3 DEF Entry, Present
  <2> QED BY <1>1, <1>3, <2>1, <2>2, <2>3
        DEF Inv, Holding, Creating, Overwriting, Busy, CreateSteps, BlockSteps, LastSteps
<1>4. ASSUME OverwriteFile, BeginRewrite, UNCHANGED <<request, answer>>, Entry # 0,
             request.size <= Reach(File) * BlockSize
      PROVE  Inv'
  <2>0. Entry \in Inos /\ File \in Inode
    <3>1. request.name \in Names
      BY <1>4, RequestsAssumption DEF OverwriteFile, At, Inv, TypeOK, Busy
    <3> QED BY <1>4, <3>1 DEF Entry, File, Inv, TypeOK, Disk
  <2>1. /\ op'.step = "blocks" /\ op'.at = op.at /\ op'.ino = Entry /\ op'.file = File
        /\ TypeOK'
    BY <1>1, <1>4, <2>0 DEF BeginRewrite, Inv, TypeOK, Op, Steps
  <2>2. request \in Requests /\ request.kind = "overwrite" /\ request' # NoRequest
    BY <1>4 DEF OverwriteFile, At, Inv, TypeOK, Busy
  <2>3. Present(disk, request.name)
    BY <1>4 DEF Entry, Present
  <2>4. op.at = 0 /\ 0 <= Reach(File)
    <3>1. op.at = 0
      BY <1>4 DEF OverwriteFile, At, Inv, Overwriting
    <3>2. Reach(File) \in Nat
      BY <2>2, <2>3, FileHasReach, RequestsAssumption
         DEF Inv, TypeOK, File, Entry, InodeOf
    <3> QED BY <3>1, <3>2
  <2> QED BY <1>1, <1>4, <2>1, <2>2, <2>3, <2>4
        DEF Inv, Holding, Creating, Overwriting, Busy, CreateSteps, BlockSteps, LastSteps, File, Entry
<1> QED BY <1>1, <1>2, <1>3, <1>4 DEF CreateFile, OverwriteFile

(***************************************************************************)
(* Allocation.                                                             *)
(***************************************************************************)
LEMMA AllocInodeInv == ASSUME Inv, AllocInode PROVE Inv'
<1>1. CASE Refuse /\ UNCHANGED disk
  BY <1>1, EndInv DEF AllocInode, Refuse, Inv, TypeOK
<1>2. ASSUME NEW g \in Groups, NEW b \in InodeBits,
             FirstFree(FreeInodes, "free_inodes", g, b),
             disk' = [disk EXCEPT !.inode_bitmap[g] = @ \cup {b}],
             op' = [op EXCEPT !.step = "inode_desc", !.group = g,
                              !.ino = InodeNumber(g, b)],
             UNCHANGED <<request, answer>>
      PROVE  Inv'
  <2>1. /\ disk \in Disk /\ Sound(disk) /\ op \in Op /\ op.step = "inode_bitmap"
        /\ fs' = fs /\ faults' = faults
    BY DEF Inv, TypeOK, AllocInode, At
  <2>2. b \in InodeBits \ disk.inode_bitmap[g]
    BY <1>2 DEF FirstFree, FreeInodes
  <2>3. ~InodeTaken(disk, InodeNumber(g, b)) /\ InodeNumber(g, b) \in Inos
    BY <2>1, <2>2, FreeInodeIsNew
  <2>4. disk' \in Disk
    BY <1>2, <2>1 DEF Disk
  <2>5. Keeps(disk, disk')
    BY <1>2, <2>1, <2>4 DEF Keeps, Disk, InodeOf
  <2>6. op' \in Op /\ op'.step = "inode_desc" /\ op'.ino = InodeNumber(g, b)
    BY <1>2, <2>1, <2>3 DEF Op, Steps
  <2>7. TypeOK'
    BY <1>2, <2>1, <2>4, <2>6 DEF Inv, TypeOK
  <2>8. InodeHeld'
    <3>1. InodeTaken(disk', op'.ino)
      <4>1. b \in disk'.inode_bitmap[g]
        BY <1>2, <2>1 DEF Disk
      <4> QED BY <4>1, <2>6 DEF InodeTaken
    <3>2. ASSUME NEW n \in Names PROVE disk.dir[n] # op'.ino
      <4>1. 0 \notin Inos
        BY SizesAssumption DEF Inos
      <4> QED BY <4>1, <2>1, <2>3, <2>6 DEF Sound, Whole, Present
    <3> QED BY <3>1, <3>2, <2>3, <2>5, <2>6 DEF InodeHeld, Keeps
  <2>9. Sound(disk') /\ Written(disk')
    BY <2>1, <2>5, KeepsSound DEF Inv
  <2>10. Holding' /\ Overwriting'
    BY <2>6, <2>8 DEF Holding, Overwriting, CreateSteps, BlockSteps, LastSteps
  <2>11. Creating' /\ Busy'
    BY <1>2, <2>1, <2>6, <2>5
       DEF Inv, Creating, Busy, CreateSteps, BlockSteps, LastSteps, Keeps, Present
  <2> QED BY <2>7, <2>9, <2>10, <2>11 DEF Inv
<1> QED BY <1>1, <1>2 DEF AllocInode

LEMMA AllocBlockInv == ASSUME Inv, AllocBlock PROVE Inv'
<1>1. CASE Refuse /\ UNCHANGED disk
  BY <1>1, EndInv DEF AllocBlock, Refuse, Inv, TypeOK
<1>2. ASSUME NEW g \in Groups, NEW b \in BlockBits,
             FirstFree(FreeBlocks, "free_blocks", g, b),
             disk' = [disk EXCEPT !.block_bitmap[g] = @ \cup {b}],
             op' = [op EXCEPT !.step = "block_desc", !.group = g,
                              !.blk = BlockNumber(g, b)],
             UNCHANGED <<request, answer>>
      PROVE  Inv'
  <2>1. /\ disk \in Disk /\ Sound(disk) /\ op \in Op /\ op.step = "block_bitmap"
        /\ fs' = fs /\ faults' = faults
    BY DEF Inv, TypeOK, AllocBlock, At
  <2>2. b \in BlockBits \ disk.block_bitmap[g]
    BY <1>2 DEF FirstFree, FreeBlocks
  <2>3. ~BlockTaken(disk, BlockNumber(g, b)) /\ BlockNumber(g, b) \in Blocks \ disk.system
    BY <2>1, <2>2, FreeBlockIsNew DEF Sound
  <2>4. disk' \in Disk
    BY <1>2, <2>1 DEF Disk
  <2>5. Keeps(disk, disk')
    BY <1>2, <2>1, <2>4 DEF Keeps, Disk, InodeOf
  <2>6. op' \in Op /\ op'.step = "block_desc" /\ op'.blk = BlockNumber(g, b) /\ op'.ino = op.ino
    BY <1>2, <2>1, <2>3 DEF Op, Steps
  <2>7. TypeOK'
    BY <1>2, <2>1, <2>4, <2>6 DEF Inv, TypeOK
  <2>8. BlockHeld'
    <3>1. BlockTaken(disk', op'.blk)
      <4>1. b \in disk'.block_bitmap[g]
        BY <1>2, <2>1 DEF Disk
      <4> QED BY <4>1, <2>6 DEF BlockTaken
    <3>2. ASSUME NEW n \in Names, Present(disk, n) PROVE op'.blk \notin BlocksOf(disk, n)
      BY <3>2, <2>1, <2>3, <2>6 DEF Sound, Whole
    <3>3. op'.blk \notin disk'.system
      BY <2>3, <2>5, <2>6 DEF Keeps
    <3> QED BY <3>1, <3>2, <3>3, <2>5, KeepsFiles DEF BlockHeld
  <2>9. InodeHeld'
    BY <2>1, <2>5, <2>6, HeldKept DEF Inv, Holding, CreateSteps, BlockSteps
  <2>10. Sound(disk') /\ Written(disk')
    BY <2>1, <2>5, KeepsSound DEF Inv
  <2>11. Holding' /\ Overwriting'
    BY <2>6, <2>8, <2>9 DEF Holding, Overwriting
  <2>12. Creating' /\ Busy'
    BY <1>2, <2>1, <2>6, <2>5
       DEF Inv, Creating, Busy, CreateSteps, BlockSteps, LastSteps, Keeps, Present
  <2> QED BY <2>7, <2>10, <2>11, <2>12 DEF Inv
<1> QED BY <1>1, <1>2 DEF AllocBlock

LEMMA LessIsNat == ASSUME NEW n \in Nat PROVE Less(n) \in Nat
BY DEF Less

(* Writes of counts and descriptors keep every file.                       *)
LEMMA DescInv ==
    ASSUME Inv, UpdateGdInodeAlloc \/ UpdateGdBlockAlloc PROVE Inv'
<1>1. /\ disk \in Disk /\ op \in Op /\ op.group \in Groups
      /\ fs \in [desc : [Groups -> Counts], sb : Counts]
  BY DEF Inv, TypeOK, Op
<1>2. fs' \in [desc : [Groups -> Counts], sb : Counts]
  <2>1. CASE UpdateGdInodeAlloc
    BY <1>1, <2>1, LessIsNat DEF UpdateGdInodeAlloc, Counts
  <2>2. CASE UpdateGdBlockAlloc
    BY <1>1, <2>2, LessIsNat DEF UpdateGdBlockAlloc, Counts
  <2> QED BY <2>1, <2>2
<1>3. /\ disk' = [disk EXCEPT !.desc[op.group] = fs'.desc[op.group]]
      /\ UNCHANGED <<request, answer, faults>>
      /\ \/ op.step = "inode_desc" /\ GoTo("inode_sb")
         \/ op.step = "block_desc" /\ GoTo("block_sb")
  BY DEF UpdateGdInodeAlloc, UpdateGdBlockAlloc, At
<1>4. disk' \in Disk
  <2>1. fs'.desc[op.group] \in Counts
    BY <1>1, <1>2
  <2> QED BY <1>1, <1>3, <2>1 DEF Disk
<1>5. Keeps(disk, disk')
  BY <1>1, <1>3, <1>4 DEF Keeps, Disk, InodeOf
<1>6. /\ op' \in Op /\ op'.ino = op.ino /\ op'.blk = op.blk
      /\ \/ op.step = "inode_desc" /\ op'.step = "inode_sb"
         \/ op.step = "block_desc" /\ op'.step = "block_sb"
  BY <1>1, <1>3 DEF GoTo, Op, Steps
<1>7. TypeOK'
  BY <1>2, <1>3, <1>4, <1>6 DEF Inv, TypeOK
<1>8. Holding'
  BY <1>5, <1>6, HeldKept DEF Inv, Holding, CreateSteps, BlockSteps, LastSteps
<1>9. Creating' /\ Busy' /\ Overwriting'
  BY <1>3, <1>5, <1>6 DEF Inv, Creating, Busy, Overwriting,
                          CreateSteps, BlockSteps, LastSteps, Keeps, Present
<1> QED BY <1>5, <1>7, <1>8, <1>9, KeepsSound DEF Inv

LEMMA SuperblockInv == ASSUME Inv, WriteSuperblockFreeCounts PROVE Inv'
<1>1. /\ disk \in Disk /\ op \in Op
      /\ fs \in [desc : [Groups -> Counts], sb : Counts]
      /\ disk' = [disk EXCEPT !.sb = fs.sb] /\ fs' = fs /\ faults' = faults
  BY DEF Inv, TypeOK, WriteSuperblockFreeCounts
<1>2. disk' \in Disk
  BY <1>1 DEF Disk
<1>3. Keeps(disk, disk')
  BY <1>1, <1>2 DEF Keeps, Disk, InodeOf
<1>4. Sound(disk') /\ Written(disk')
  BY <1>3, KeepsSound DEF Inv
<1>5. CASE Refuse
  <2>1. TypeOK'
    <3>1. op' \in Op
      BY <1>5, NowhereIsOp DEF Refuse
    <3> QED BY <1>1, <1>2, <1>5, <3>1 DEF Inv, TypeOK, Refuse
  <2>2. (Holding /\ Creating /\ Overwriting /\ Busy)'
    BY <1>5 DEF Refuse, Nowhere, Holding, Creating, Overwriting, Busy,
                CreateSteps, BlockSteps, LastSteps
  <2> QED BY <1>4, <2>1, <2>2 DEF Inv
<1>6. ASSUME ~(At("inode_sb") /\ request.size > BlockSize),
             GoTo(IF At("inode_sb") /\ request.data # <<>>
                  THEN "block_bitmap" ELSE "inode"),
             UNCHANGED <<request, answer>>
      PROVE  Inv'
  <2>1. /\ op' \in Op /\ op'.ino = op.ino /\ op'.blk = op.blk
        /\ \/ op.step = "inode_sb" /\ request.data # <<>> /\ op'.step = "block_bitmap"
           \/ op.step = "inode_sb" /\ request.data = <<>> /\ op'.step = "inode"
           \/ op.step = "block_sb" /\ op'.step = "inode"
    BY <1>1, <1>6 DEF GoTo, At, Op, Steps, WriteSuperblockFreeCounts
  <2>2. TypeOK'
    BY <1>1, <1>2, <1>6, <2>1 DEF Inv, TypeOK
  <2>3. Holding'
    BY <1>3, <1>6, <2>1, HeldKept DEF Inv, Holding, CreateSteps, BlockSteps, LastSteps
  <2>4. request.size <= BlockSize
    <3>1. CASE op.step = "block_sb"
      BY <3>1 DEF Inv, Creating, BlockSteps
    <3>2. CASE op.step = "inode_sb"
      <4>1. request.size \in Nat
        BY <3>2, RequestsAssumption DEF Inv, Creating, CreateSteps
      <4> QED BY <3>2, <4>1, <1>6, SizesAssumption DEF At
    <3> QED BY <2>1, <3>1, <3>2
  <2>5. Creating' /\ Busy' /\ Overwriting'
    BY <1>3, <1>6, <2>1, <2>4 DEF Inv, Creating, Busy, Overwriting,
                            CreateSteps, BlockSteps, LastSteps, Keeps, Present
  <2> QED BY <1>4, <2>2, <2>3, <2>5 DEF Inv
<1> QED BY <1>5, <1>6 DEF WriteSuperblockFreeCounts

(***************************************************************************)
(* The rest of a create.                                                   *)
(***************************************************************************)
LEMMA WriteInodeInv == ASSUME Inv, WriteInode PROVE Inv'
<1>1. /\ disk \in Disk /\ op \in Op /\ op.step = "inode" /\ InodeHeld
      /\ disk' = [disk EXCEPT !.inodes[op.ino] = InitNewInode]
      /\ UNCHANGED <<fs, request, answer, faults>>
      /\ request \in Requests
  BY DEF Inv, TypeOK, WriteInode, At, Holding, Creating, CreateSteps, BlockSteps, LastSteps
<1>2. InitNewInode \in Inode
  <2>1. request.size \in Nat
    BY <1>1, RequestsAssumption
  <2>2. (IF request.data = <<>> THEN <<>> ELSE <<op.blk>>) \in Seq(Blocks)
    <3>1. op.blk \in Blocks
      BY <1>1 DEF Op
    <3>2. <<op.blk>> \in Seq(Blocks)
      BY <3>1
    <3>3. <<>> \in Seq(Blocks)
      OBVIOUS
    <3> QED BY <3>2, <3>3
  <2> DEFINE mine == IF request.data = <<>> THEN <<>> ELSE <<op.blk>>
  <2>3. InitNewInode = [size |-> request.size, blocks |-> mine,
                        extents |-> TRUE, unwritten |-> FALSE]
    BY DEF InitNewInode
  <2> HIDE DEF mine
  <2>4. mine \in Seq(Blocks)
    BY <2>2 DEF mine
  <2> QED BY <2>1, <2>3, <2>4 DEF Inode
<1>3. disk' \in Disk
  BY <1>1, <1>2 DEF Disk
<1>4. Keeps(disk, disk')
  <2>1. /\ disk'.dir = disk.dir /\ disk'.system = disk.system /\ disk'.place = disk.place
        /\ disk'.inode_bitmap = disk.inode_bitmap
        /\ disk'.block_bitmap = disk.block_bitmap
        /\ \A i \in Inos \ {op.ino} : disk'.inodes[i] = disk.inodes[i]
    BY <1>1 DEF Disk
  <2>2. ASSUME NEW n \in Names, Present(disk, n)
        PROVE  disk.dir[n] \in Inos \ {op.ino}
    BY <1>1, <2>2 DEF Disk, Present, InodeHeld
  <2> QED BY <1>1, <1>3, <2>1, <2>2 DEF Keeps, InodeOf
<1>5. /\ op' \in Op /\ op'.ino = op.ino /\ op'.blk = op.blk
      /\ \/ request.data = <<>> /\ op'.step = "entry"
         \/ request.data # <<>> /\ op'.step = "data"
  BY <1>1 DEF WriteInode, GoTo, Op, Steps
<1>6. TypeOK'
  BY <1>1, <1>3, <1>5 DEF Inv, TypeOK
<1>7. Holding'
  BY <1>1, <1>4, <1>5, HeldKept DEF Inv, Holding, CreateSteps, BlockSteps, LastSteps
<1>8. disk'.inodes[op'.ino] = InitNewInode'
  <2>1. InitNewInode' = InitNewInode
    BY <1>1, <1>5 DEF InitNewInode
  <2> QED BY <1>1, <1>5, <2>1 DEF Disk, InodeHeld
<1>9. Creating' /\ Busy' /\ Overwriting'
  BY <1>1, <1>4, <1>5, <1>8 DEF Inv, Creating, Busy, Overwriting,
                          CreateSteps, BlockSteps, LastSteps, Keeps, Present
<1> QED BY <1>4, <1>6, <1>7, <1>9, KeepsSound DEF Inv

LEMMA WriteDataInv == ASSUME Inv, WriteData PROVE Inv'
<1>1. /\ disk \in Disk /\ op \in Op /\ op.step = "data"
      /\ disk' = [disk EXCEPT !.data[op.blk] = request.data[1]]
      /\ UNCHANGED <<fs, request, answer, faults>>
      /\ request \in Requests /\ request.data # <<>>
  BY WriteDataPlain DEF Inv, TypeOK, DataWritten, At, Creating, CreateSteps, BlockSteps, LastSteps
<1>2. request.data[1] \in Tags
  BY <1>1, RequestsAssumption
<1>3. disk' \in Disk
  BY <1>1, <1>2 DEF Disk
<1>4. Keeps(disk, disk')
  BY <1>1, <1>3 DEF Keeps, Disk, InodeOf
<1>5. op' \in Op /\ op'.ino = op.ino /\ op'.blk = op.blk /\ op'.step = "entry"
  BY <1>1, WriteDataPlain DEF DataWritten, GoTo, Op, Steps
<1>6. TypeOK'
  BY <1>1, <1>3, <1>5 DEF Inv, TypeOK
<1>7. Holding'
  BY <1>1, <1>4, <1>5, HeldKept DEF Inv, Holding, CreateSteps, BlockSteps, LastSteps
<1>8. disk'.inodes[op'.ino] = InitNewInode'
  <2>1. InitNewInode' = InitNewInode
    BY <1>1, <1>5 DEF InitNewInode
  <2>2. disk.inodes[op.ino] = InitNewInode
    BY <1>1 DEF Inv, Creating
  <2> QED BY <1>1, <1>5, <2>1, <2>2 DEF Disk
<1>9. disk'.data[op'.blk] = request.data[1]
  BY <1>1, <1>5 DEF Disk, Op
<1>10. Creating' /\ Busy' /\ Overwriting'
  BY <1>1, <1>4, <1>5, <1>8, <1>9 DEF Inv, Creating, Busy, Overwriting,
                          CreateSteps, BlockSteps, LastSteps, Keeps, Present
<1> QED BY <1>4, <1>6, <1>7, <1>10, KeepsSound DEF Inv

(* The write that makes a file: the entry takes the inode and the block    *)
(* the create holds.                                                       *)
LEMMA AddDirEntryInv == ASSUME Inv, AddDirEntry PROVE Inv'
<1>1. CASE Refuse /\ UNCHANGED disk
  BY <1>1, EndInv DEF AddDirEntry, Refuse, Inv, TypeOK
<1>2. ASSUME disk.room > 0, GoTo("answer"), UNCHANGED <<request, answer>>,
             disk' = [disk EXCEPT !.dir[request.name] = op.ino, !.room = @ - 1]
      PROVE  Inv'
  <2>1. /\ disk \in Disk /\ Sound(disk) /\ op \in Op /\ op.step = "entry"
        /\ fs' = fs /\ faults' = faults /\ InodeHeld
        /\ request \in Requests /\ ~Present(disk, request.name)
        /\ request.size <= BlockSize
        /\ disk.inodes[op.ino] = InitNewInode
    BY DEF Inv, TypeOK, AddDirEntry, At, Holding, Creating, CreateSteps, LastSteps
  <2>2. request.data # <<>> => BlockHeld
    BY <2>1 DEF Inv, Holding, LastSteps
  <2>3. request.name \in Names /\ request.size \in Nat /\ op.ino \in Inos /\ op.ino # 0
    BY <2>1, RequestsAssumption, SizesAssumption DEF InodeHeld, Inos
  <2>4. disk' \in Disk
    <3>1. disk.room \in Nat /\ disk.room - 1 \in Nat
      BY <1>2, <2>1 DEF Disk
    <3> QED BY <1>2, <2>1, <2>3, <3>1 DEF Disk
  <2>5. op' \in Op /\ op'.step = "answer"
    BY <1>2, <2>1 DEF GoTo, Op, Steps
  <2>6. TypeOK'
    BY <1>2, <2>1, <2>4, <2>5 DEF Inv, TypeOK
  <2>7. /\ disk'.inode_bitmap = disk.inode_bitmap
        /\ disk'.block_bitmap = disk.block_bitmap /\ disk'.place = disk.place
        /\ disk'.inodes = disk.inodes /\ disk'.system = disk.system
    BY <1>2, <2>1 DEF Disk
  <2>8. /\ disk'.dir[request.name] = op.ino
        /\ \A n \in Names \ {request.name} : disk'.dir[n] = disk.dir[n]
    BY <1>2, <2>1, <2>3 DEF Disk
  <2>9. /\ Present(disk', request.name) /\ InodeOf(disk', request.name) = InitNewInode
        /\ \A n \in Names \ {request.name} :
              /\ Present(disk', n) <=> Present(disk, n)
              /\ InodeOf(disk', n) = InodeOf(disk, n)
              /\ BlocksOf(disk', n) = BlocksOf(disk, n)
    BY <2>1, <2>3, <2>7, <2>8 DEF Present, InodeOf, BlocksOf
  <2>10. BlocksOf(disk', request.name) = IF request.data = <<>> THEN {} ELSE {op.blk}
    <3>1. CASE request.data = <<>>
      BY <2>9, <3>1 DEF BlocksOf, InitNewInode
    <3>2. CASE request.data # <<>>
      <4>1. InodeOf(disk', request.name).blocks = <<op.blk>>
        BY <2>9, <3>2 DEF InitNewInode
      <4> QED BY <3>2, <4>1 DEF BlocksOf
    <3> QED BY <3>1, <3>2
  <2>11. \A x : (InodeTaken(disk', x) <=> InodeTaken(disk, x))
                /\ (BlockTaken(disk', x) <=> BlockTaken(disk, x))
    BY <2>7 DEF InodeTaken, BlockTaken
  <2>12. Whole(disk')
    <3>1. ASSUME NEW n \in Names \ {request.name}, Present(disk', n)
          PROVE  /\ InodeTaken(disk', disk'.dir[n])
                 /\ \A blk \in BlocksOf(disk', n) : BlockTaken(disk', blk)
                 /\ InodeOf(disk', n).size <= Reach(InodeOf(disk', n)) * BlockSize
      BY <2>1, <2>8, <2>9, <2>11, <3>1 DEF Sound, Whole
    <3>2. /\ InodeTaken(disk', disk'.dir[request.name])
          /\ \A blk \in BlocksOf(disk', request.name) : BlockTaken(disk', blk)
      BY <2>1, <2>2, <2>8, <2>10, <2>11 DEF InodeHeld, BlockHeld
    <3>3. InodeOf(disk', request.name).size
             <= Reach(InodeOf(disk', request.name)) * BlockSize
      <4>1. CASE request.data = <<>>
        <5>1. Reach(InitNewInode) = 0 /\ InitNewInode.size = request.size
          BY <4>1 DEF Reach, InitNewInode
        <5>2. request.size <= 0 * BlockSize
          BY <2>1, <4>1, RequestsAssumption
        <5> QED BY <2>9, <5>1, <5>2
      <4>2. CASE request.data # <<>>
        <5>1. Reach(InitNewInode) = 1 /\ InitNewInode.size = request.size
          BY <4>2 DEF Reach, InitNewInode
        <5>2. request.size <= 1 * BlockSize
          BY <2>1, SizesAssumption
        <5> QED BY <2>9, <5>1, <5>2
      <4> QED BY <4>1, <4>2
    <3> QED BY <3>1, <3>2, <3>3 DEF Whole
  <2>13. Unshared(disk')
    <3>1. BlocksOf(disk', request.name) \cap disk'.system = {}
      BY <2>2, <2>7, <2>10 DEF BlockHeld
    <3>2. ASSUME NEW n \in Names \ {request.name}, Present(disk', n)
          PROVE  /\ BlocksOf(disk', n) \cap disk'.system = {}
                 /\ disk'.dir[n] # disk'.dir[request.name]
                 /\ BlocksOf(disk', n) \cap BlocksOf(disk', request.name) = {}
      <4>1. Present(disk, n) /\ BlocksOf(disk', n) = BlocksOf(disk, n)
        BY <2>9, <3>2
      <4>2. BlocksOf(disk, n) \cap disk.system = {}
        BY <2>1, <4>1 DEF Sound, Unshared
      <4>3. disk'.dir[n] # op.ino
        BY <2>1, <2>8 DEF InodeHeld
      <4>4. request.data # <<>> => op.blk \notin BlocksOf(disk, n)
        BY <2>2, <4>1 DEF BlockHeld
      <4> QED BY <2>7, <2>8, <2>10, <4>1, <4>2, <4>3, <4>4
    <3>3. ASSUME NEW n \in Names \ {request.name}, NEW m \in Names \ {request.name},
                 n # m, Present(disk', n), Present(disk', m)
          PROVE  /\ disk'.dir[m] # disk'.dir[n]
                 /\ BlocksOf(disk', m) \cap BlocksOf(disk', n) = {}
      BY <2>1, <2>8, <2>9, <3>3 DEF Sound, Unshared
    <3> QED BY <3>1, <3>2, <3>3, <2>3 DEF Unshared
  <2>14. Sound(disk') /\ Written(disk')
    <3>1. ASSUME NEW n \in Names, Present(disk', n),
                 NEW i \in DOMAIN InodeOf(disk', n).blocks,
                 NEW j \in DOMAIN InodeOf(disk', n).blocks,
                 InodeOf(disk', n).blocks[i] = InodeOf(disk', n).blocks[j]
          PROVE  i = j
      <4>1. CASE n # request.name
        BY <2>1, <2>9, <3>1, <4>1 DEF Sound
      <4>2. CASE n = request.name
        <5>1. InodeOf(disk', n).blocks = <<>> \/ InodeOf(disk', n).blocks = <<op.blk>>
          BY <2>9, <4>2 DEF InitNewInode
        <5> QED BY <3>1, <5>1
      <4> QED BY <4>1, <4>2
    <3>2. \A g \in Groups : \A b \in BlockBits \ disk'.block_bitmap[g] :
              BlockNumber(g, b) \in Blocks \ disk'.system
      BY <2>1, <2>7 DEF Sound
    <3>3. Placed(disk')
      BY <2>1, <2>7 DEF Sound, Placed
    <3>4. Written(disk')
      BY <2>9 DEF Inv, Written, InitNewInode
    <3> QED BY <2>12, <2>13, <3>1, <3>2, <3>3, <3>4 DEF Sound
  <2>15. (Holding /\ Creating /\ Overwriting /\ Busy)'
    <3>1. request' # NoRequest
      BY <1>2, <2>1, RequestsAssumption
    <3> QED BY <2>5, <3>1 DEF Holding, Creating, Overwriting, Busy, CreateSteps, BlockSteps, LastSteps
  <2> QED BY <2>6, <2>14, <2>15 DEF Inv
<1> QED BY <1>1, <1>2 DEF AddDirEntry

(***************************************************************************)
(* An overwrite.                                                           *)
(***************************************************************************)
LEMMA PieceIsTag ==
    ASSUME request \in Requests, NEW i \in Nat \ {0}
    PROVE  Piece(i) \in Tags
<1>1. request.data \in Seq(Tags) /\ Zero \in Tags
  BY RequestsAssumption
<1> QED BY <1>1 DEF Piece

LEMMA OverwriteBlockInv == ASSUME Inv, OverwriteBlock PROVE Inv'
<1> DEFINE blk == File.blocks[op.at + 1]
<1>1. BlockWritten /\ blk \in Blocks
  BY OverwriteBlockPlain, NextBlock
<1>2. ASSUME blk \in Blocks,
             disk' = [disk EXCEPT !.data[blk] = Piece(op.at + 1)],
             op' = [op EXCEPT !.at = @ + 1],
             UNCHANGED <<request, answer>>
      PROVE  Inv'
  <2> HIDE DEF blk
  <2>1. /\ disk \in Disk /\ op \in Op /\ op.step = "blocks" /\ op.at \in Nat
        /\ fs' = fs /\ faults' = faults /\ request \in Requests
        /\ op.at < Reach(File) /\ Present(disk, request.name)
        /\ op.ino = Entry /\ op.file = File
    BY <1>1 DEF Inv, TypeOK, BlockWritten, At, Overwriting, Op
  <2>2. Piece(op.at + 1) \in Tags
    BY <2>1, PieceIsTag
  <2>3. disk' \in Disk
    BY <1>2, <2>1, <2>2 DEF Disk
  <2>4. Keeps(disk, disk')
    BY <1>2, <2>1, <2>3 DEF Keeps, Disk, InodeOf
  <2>5. /\ op' \in Op /\ op'.step = "blocks" /\ op'.at = op.at + 1
        /\ op'.ino = op.ino /\ op'.file = op.file
    BY <1>2, <2>1 DEF Op
  <2>6. TypeOK'
    BY <1>2, <2>1, <2>3, <2>5 DEF Inv, TypeOK
  <2>7. /\ File = InodeOf(disk, request.name) /\ File' = InodeOf(disk', request.name)
        /\ request.name \in Names
    BY <1>2, <2>1, RequestsAssumption DEF File, Entry, InodeOf
  <2>8. File' = File /\ Entry' = Entry /\ Present(disk', request.name)
    <3>1. Entry' = Entry
      BY <1>2, <2>4 DEF Entry, Keeps
    <3> QED BY <2>1, <2>4, <2>7, <3>1, KeepsFiles
  <2>9. Reach(File) \in Nat
    BY <2>1, <2>7, FileHasReach
  <2>10. Overwriting'
    <3>1. Reach(File)' = Reach(File)
      BY <2>8 DEF Reach
    <3>2. op'.at <= Reach(File)
      BY <2>1, <2>5, <2>9
    <3> QED BY <1>2, <2>1, <2>5, <2>8, <3>1, <3>2 DEF Inv, Overwriting
  <2>11. (Holding /\ Creating /\ Busy)'
    BY <1>2, <2>1, <2>5 DEF Inv, Holding, Creating, Busy,
                            CreateSteps, BlockSteps, LastSteps
  <2> QED BY <2>4, <2>6, <2>10, <2>11, KeepsSound DEF Inv
<1> QED BY <1>1, <1>2 DEF BlockWritten

LEMMA UpdateInodeSizeInv == ASSUME Inv, UpdateInodeSize PROVE Inv'
<1>1. /\ disk \in Disk /\ Sound(disk) /\ op \in Op /\ op.step = "blocks"
      /\ UNCHANGED <<fs, request, answer, faults>> /\ request \in Requests
      /\ Present(disk, request.name)
      /\ request.size <= Reach(File) * BlockSize
      /\ disk' = [disk EXCEPT !.inodes[Entry].size = request.size]
  BY UpdateInodeSizePlain DEF Inv, TypeOK, SizeWritten, At, Overwriting
<1>2. /\ request.name \in Names /\ request.size \in Nat /\ Entry \in Inos
      /\ Entry = disk.dir[request.name] /\ File \in Inode
      /\ File = InodeOf(disk, request.name)
  BY <1>1, RequestsAssumption DEF Disk, Present, Entry, File, InodeOf
<1>3. disk' \in Disk
  BY <1>1, <1>2 DEF Disk, Inode
<1>4. op' \in Op /\ op'.step = "answer"
  BY <1>1, UpdateInodeSizePlain DEF SizeWritten, GoTo, Op, Steps
<1>5. TypeOK'
  BY <1>1, <1>3, <1>4 DEF Inv, TypeOK
<1>6. /\ disk'.dir = disk.dir /\ disk'.system = disk.system /\ disk'.place = disk.place
      /\ disk'.inode_bitmap = disk.inode_bitmap
      /\ disk'.block_bitmap = disk.block_bitmap
      /\ \A i \in Inos : /\ disk'.inodes[i].blocks = disk.inodes[i].blocks
                         /\ disk'.inodes[i].unwritten = disk.inodes[i].unwritten
                         /\ i # Entry => disk'.inodes[i].size = disk.inodes[i].size
      /\ disk'.inodes[Entry].size = request.size
  BY <1>1, <1>2 DEF Disk, Inode
<1>7. \A n \in Names : /\ Present(disk', n) <=> Present(disk, n)
                       /\ disk'.dir[n] = disk.dir[n]
                       /\ Present(disk, n) =>
                             /\ InodeOf(disk', n).blocks = InodeOf(disk, n).blocks
                             /\ InodeOf(disk', n).unwritten = InodeOf(disk, n).unwritten
                             /\ Reach(InodeOf(disk', n)) = Reach(InodeOf(disk, n))
                             /\ BlocksOf(disk', n) = BlocksOf(disk, n)
                             /\ n # request.name =>
                                   InodeOf(disk', n).size = InodeOf(disk, n).size
  <2>1. SUFFICES ASSUME NEW n \in Names, Present(disk, n)
                 PROVE  /\ InodeOf(disk', n).blocks = InodeOf(disk, n).blocks
                        /\ InodeOf(disk', n).unwritten = InodeOf(disk, n).unwritten
                        /\ n # request.name =>
                              InodeOf(disk', n).size = InodeOf(disk, n).size
    BY <1>6 DEF Present, BlocksOf, Reach
  <2>2. disk.dir[n] \in Inos /\ disk'.dir[n] = disk.dir[n]
    BY <1>1, <1>6, <2>1 DEF Disk, Present
  <2>3. n # request.name => disk.dir[n] # Entry
    BY <1>1, <1>2, <2>1 DEF Sound, Unshared
  <2> QED BY <1>6, <2>2, <2>3 DEF InodeOf
<1>8. \A x : (InodeTaken(disk', x) <=> InodeTaken(disk, x))
             /\ (BlockTaken(disk', x) <=> BlockTaken(disk, x))
  BY <1>6 DEF InodeTaken, BlockTaken
<1>9. Sound(disk') /\ Written(disk')
  <2>1. Whole(disk')
    <3>1. SUFFICES ASSUME NEW n \in Names, Present(disk, n)
                   PROVE  InodeOf(disk', n).size <= Reach(InodeOf(disk, n)) * BlockSize
      BY <1>1, <1>7, <1>8 DEF Sound, Whole
    <3>2. CASE n = request.name
      <4>1. InodeOf(disk', n) = disk'.inodes[Entry]
        BY <1>2, <1>6, <3>2 DEF InodeOf
      <4> QED BY <1>1, <1>2, <1>6, <3>2, <4>1
    <3>3. CASE n # request.name
      BY <1>1, <1>7, <3>1, <3>3 DEF Sound, Whole
    <3> QED BY <3>2, <3>3
  <2>2. Unshared(disk')
    BY <1>1, <1>6, <1>7 DEF Sound, Unshared
  <2>3. Placed(disk')
    BY <1>1, <1>6 DEF Sound, Placed
  <2>4. Written(disk')
    BY <1>7 DEF Inv, Written
  <2> QED BY <1>1, <1>6, <1>7, <2>1, <2>2, <2>3, <2>4 DEF Sound
<1>10. (Holding /\ Creating /\ Overwriting /\ Busy)'
  BY <1>1, <1>4, RequestsAssumption
     DEF Holding, Creating, Overwriting, Busy, CreateSteps, BlockSteps, LastSteps
<1> QED BY <1>5, <1>9, <1>10 DEF Inv

(***************************************************************************)
(* The theorems.                                                           *)
(***************************************************************************)
LEMMA EndsInv == ASSUME Inv, Succeed \/ CutOff PROVE Inv'
<1>1. CASE Succeed
  BY <1>1, EndInv DEF Succeed, Inv, TypeOK
<1>2. CASE CutOff
  <2>1. faults' \in 0..MaxFaults
    BY <1>2, SizesAssumption DEF CutOff, Inv, TypeOK
  <2> QED BY <1>2, <2>1, EndInv DEF CutOff, Refuse, Inv, TypeOK
<1> QED BY <1>1, <1>2

LEMMA StutterInv == ASSUME Inv, UNCHANGED vars PROVE Inv'
<1>1. /\ disk' = disk /\ fs' = fs /\ request' = request /\ answer' = answer
      /\ op' = op /\ faults' = faults
  BY DEF vars
<1> QED BY <1>1 DEF Inv, TypeOK, Holding, InodeHeld, BlockHeld, Creating,
                    InitNewInode, Overwriting, File, Entry, Busy

LEMMA NextInv == Inv /\ [Next]_vars => Inv'
BY AskInv, LookupInv, AllocInodeInv, AllocBlockInv, DescInv, SuperblockInv,
   WriteInodeInv, WriteDataInv, AddDirEntryInv, OverwriteBlockInv,
   UpdateInodeSizeInv, EndsInv, StutterInv DEF Next

LEMMA Invariance == ASSUME AllWritten PROVE Spec => []Inv
<1>1. Init => Inv
  BY InitInv
<1>2. Inv /\ [Next]_vars => Inv'
  BY NextInv
<1> QED BY <1>1, <1>2, PTL DEF Spec

(* On a card without unwritten extents every variable keeps its type, and  *)
(* no write of the library leaves the card, whatever is created,           *)
(* overwritten and cut off.                                                *)
THEOREM WritesInType == ASSUME AllWritten PROVE Spec => []TypeOK
<1>1. Inv => TypeOK
  BY DEF Inv
<1> QED BY <1>1, Invariance, PTL

(* On a card without unwritten extents no cut between two writes leaves an *)
(* entry that leads to an inode or a block a later create may be given.    *)
THEOREM EntriesStayWhole == ASSUME AllWritten PROVE Spec => []EntriesWhole
<1>1. Inv => EntriesWhole
  BY DEF Inv, Sound, EntriesWhole
<1> QED BY <1>1, Invariance, PTL

(* On a card without unwritten extents no two files ever share an inode or *)
(* a block, or take a block of the filesystem's own.                       *)
THEOREM FilesStayApart == ASSUME AllWritten PROVE Spec => []NothingShared
<1>1. Inv => NothingShared
  BY DEF Inv, Sound, NothingShared
<1> QED BY <1>1, Invariance, PTL

(* How much of a running overwrite the file already shows, and what is     *)
(* true when only the answer is missing.                                   *)
Filled ==
    op.step = "blocks" =>
        \A i \in 1..op.at : disk.data[File.blocks[i]] = Piece(i)

Done ==
    op.step = "answer" =>
        /\ request \in Requests /\ Present(disk, request.name)
        /\ File.size = request.size
        /\ Len(request.data) <= Len(File.blocks)
        /\ \A i \in 1..Len(File.blocks) : disk.data[File.blocks[i]] = Piece(i)

RInv == Inv /\ Filled /\ Done

(***************************************************************************)
(* Sizes and blocks.                                                       *)
(***************************************************************************)
LEMMA BlocksSuffice ==
    ASSUME NEW a \in Nat, NEW c \in Nat, NEW s \in Nat,
           (a - 1) * BlockSize < s, s <= c * BlockSize
    PROVE  a <= c
<1>1. SUFFICES ASSUME c < a PROVE FALSE
  OBVIOUS
<1>2. PICK k \in Nat : a - 1 = c + k
  BY <1>1
<1>3. (a - 1) * BlockSize = c * BlockSize + k * BlockSize
  BY <1>2, SizesAssumption
<1>4. k * BlockSize \in Nat /\ c * BlockSize \in Nat
  BY SizesAssumption
<1> QED BY <1>3, <1>4

(***************************************************************************)
(* What the store's files are after a write.                               *)
(***************************************************************************)
LEMMA FilesSame ==
    ASSUME NEW d, NEW e, Keeps(d, e),
           \A n \in Names : Present(d, n) =>
               \A blk \in BlocksOf(d, n) : e.data[blk] = d.data[blk]
    PROVE  Files(e) = Files(d)
<1>1. \A n \in Names : Present(e, n) <=> Present(d, n)
  BY KeepsFiles
<1>2. ASSUME NEW n \in Names, Present(d, n) PROVE FileAt(e, n) = FileAt(d, n)
  <2>1. InodeOf(e, n) = InodeOf(d, n)
    BY <1>2, KeepsFiles
  <2>2. \A i \in DOMAIN InodeOf(d, n).blocks :
            e.data[InodeOf(d, n).blocks[i]] = d.data[InodeOf(d, n).blocks[i]]
    BY <1>2 DEF BlocksOf
  <2> QED BY <2>1, <2>2 DEF FileAt
<1> QED BY <1>1, <1>2 DEF Files

(***************************************************************************)
(* The stronger invariant.                                                 *)
(***************************************************************************)
(* Steps that end a request, or write nothing a file shows.                *)
LEMMA QuietR ==
    ASSUME RInv, Inv', Keeps(disk, disk'), op'.step \notin {"blocks", "answer"}
    PROVE  RInv'
BY DEF RInv, Filled, Done

LEMMA RefuseR ==
    ASSUME RInv, Inv', Refuse, UNCHANGED disk PROVE RInv'
BY DEF RInv, Filled, Done, Refuse, Nowhere

LEMMA KeepsItself == ASSUME Inv, disk' = disk PROVE Keeps(disk, disk')
BY DEF Inv, TypeOK, Keeps

LEMMA LookupR == ASSUME RInv, Inv', OverwriteFile PROVE RInv'
<1>1. CASE Refuse
  BY <1>1, RefuseR DEF OverwriteFile
<1>2. CASE BeginRewrite /\ UNCHANGED <<request, answer>>
  <2>1. op'.step = "blocks" /\ op'.at = 0 /\ disk' = disk
    BY <1>2 DEF OverwriteFile, BeginRewrite, At, RInv, Inv, TypeOK, Op, Overwriting
  <2>2. Filled' /\ Done'
    BY <2>1 DEF Filled, Done
  <2> QED BY <2>1, <2>2 DEF RInv
<1> QED BY <1>1, <1>2 DEF OverwriteFile

(* Steps whose writes Keeps describes and that go on to a step of a create.*)
LEMMA CreatingR ==
    ASSUME RInv, Inv', \/ AllocInode \/ AllocBlock
                       \/ UpdateGdInodeAlloc \/ UpdateGdBlockAlloc
                       \/ WriteSuperblockFreeCounts \/ WriteInode \/ WriteData
    PROVE  /\ RInv' /\ Files(disk') = Files(disk)
           /\ UNCHANGED <<request, answer>> \/ Refuse
<1>1. disk \in Disk /\ disk' \in Disk /\ op \in Op
  BY DEF RInv, Inv, TypeOK
<1>2. CASE Refuse /\ UNCHANGED disk
  BY <1>2, RefuseR
<1>3. CASE /\ UNCHANGED <<request, answer>> \/ Refuse
           /\ Keeps(disk, disk') /\ op'.step \notin {"blocks", "answer"}
           /\ \A n \in Names : Present(disk, n) =>
                 \A blk \in BlocksOf(disk, n) : disk'.data[blk] = disk.data[blk]
  BY <1>3, FilesSame, QuietR
<1>4. CASE AllocInode
  <2>1. SUFFICES ASSUME NEW g \in Groups, NEW b \in InodeBits,
                        disk' = [disk EXCEPT !.inode_bitmap[g] = @ \cup {b}],
                        op'.step = "inode_desc", UNCHANGED <<request, answer>>
                 PROVE  /\ RInv' /\ Files(disk') = Files(disk)
                        /\ UNCHANGED <<request, answer>> \/ Refuse
    BY <1>1, <1>2, <1>4 DEF AllocInode, Op
  <2>2. Keeps(disk, disk') /\ disk'.data = disk.data
    BY <1>1, <2>1 DEF Keeps, Disk, InodeOf
  <2> QED BY <1>3, <2>1, <2>2
<1>5. CASE AllocBlock
  <2>1. SUFFICES ASSUME NEW g \in Groups, NEW b \in BlockBits,
                        disk' = [disk EXCEPT !.block_bitmap[g] = @ \cup {b}],
                        op'.step = "block_desc", UNCHANGED <<request, answer>>
                 PROVE  /\ RInv' /\ Files(disk') = Files(disk)
                        /\ UNCHANGED <<request, answer>> \/ Refuse
    BY <1>1, <1>2, <1>5 DEF AllocBlock, Op
  <2>2. Keeps(disk, disk') /\ disk'.data = disk.data
    BY <1>1, <2>1 DEF Keeps, Disk, InodeOf
  <2> QED BY <1>3, <2>1, <2>2
<1>6. CASE UpdateGdInodeAlloc \/ UpdateGdBlockAlloc
  <2>1. /\ disk' = [disk EXCEPT !.desc[op.group] = fs'.desc[op.group]]
        /\ op'.step \in {"inode_sb", "block_sb"} /\ UNCHANGED <<request, answer>>
    BY <1>1, <1>6 DEF UpdateGdInodeAlloc, UpdateGdBlockAlloc, GoTo, Op
  <2>2. Keeps(disk, disk') /\ disk'.data = disk.data
    BY <1>1, <2>1 DEF Keeps, Disk, InodeOf
  <2> QED BY <1>3, <2>1, <2>2
<1>7. CASE WriteSuperblockFreeCounts
  <2>1. /\ disk' = [disk EXCEPT !.sb = fs.sb]
        /\ op'.step \notin {"blocks", "answer"}
        /\ UNCHANGED <<request, answer>> \/ Refuse
    BY <1>1, <1>7 DEF WriteSuperblockFreeCounts, Refuse, Nowhere, GoTo, Op
  <2>2. Keeps(disk, disk') /\ disk'.data = disk.data
    BY <1>1, <2>1 DEF Keeps, Disk, InodeOf
  <2> QED BY <1>3, <2>1, <2>2
<1>8. CASE WriteInode
  <2>1. /\ disk' = [disk EXCEPT !.inodes[op.ino] = InitNewInode]
        /\ op'.step \in {"entry", "data"} /\ UNCHANGED <<request, answer>>
        /\ InodeHeld
    BY <1>1, <1>8 DEF WriteInode, GoTo, Op, At, RInv, Inv, Holding, CreateSteps,
                      BlockSteps, LastSteps
  <2>2. /\ disk'.dir = disk.dir /\ disk'.system = disk.system /\ disk'.place = disk.place
        /\ disk'.inode_bitmap = disk.inode_bitmap
        /\ disk'.block_bitmap = disk.block_bitmap /\ disk'.data = disk.data
        /\ \A i \in Inos \ {op.ino} : disk'.inodes[i] = disk.inodes[i]
    BY <1>1, <2>1 DEF Disk
  <2>3. ASSUME NEW n \in Names, Present(disk, n)
        PROVE  disk.dir[n] \in Inos \ {op.ino}
    BY <1>1, <2>1, <2>3 DEF Disk, Present, InodeHeld
  <2>4. Keeps(disk, disk')
    BY <1>1, <2>2, <2>3 DEF Keeps, InodeOf
  <2> QED BY <1>3, <2>1, <2>2, <2>4
<1>9. CASE WriteData
  <2>1. /\ disk' = [disk EXCEPT !.data[op.blk] = request.data[1]]
        /\ op'.step = "entry" /\ UNCHANGED <<request, answer>>
        /\ BlockHeld /\ op.blk \in Blocks
    BY <1>1, <1>9, WriteDataPlain DEF DataWritten, GoTo, Op, At, RInv, Inv, Holding, Creating,
                      CreateSteps, BlockSteps, LastSteps
  <2>2. Keeps(disk, disk')
    BY <1>1, <2>1 DEF Keeps, Disk, InodeOf
  <2>3. \A blk : blk # op.blk => disk'.data[blk] = disk.data[blk]
    BY <1>1, <2>1 DEF Disk
  <2>4. ASSUME NEW n \in Names, Present(disk, n), NEW blk \in BlocksOf(disk, n)
        PROVE  disk'.data[blk] = disk.data[blk]
    BY <2>1, <2>3, <2>4 DEF BlockHeld
  <2> QED BY <1>3, <2>1, <2>2, <2>4
<1> QED BY <1>4, <1>5, <1>6, <1>7, <1>8, <1>9

(***************************************************************************)
(* The entry's write makes the file.                                       *)
(***************************************************************************)
NewFile == [size |-> request.size, content |-> request.data]

LEMMA EntryMakes ==
    ASSUME RInv, Inv', AddDirEntry, ~Refuse
    PROVE  /\ RInv' /\ UNCHANGED <<request, answer>>
           /\ request \in Requests /\ request.kind = "create"
           /\ ~Present(disk, request.name)
           /\ Files(disk') = [n \in DOMAIN Files(disk) \cup {request.name} |->
                                 IF n = request.name THEN NewFile ELSE Files(disk)[n]]
<1>1. /\ disk \in Disk /\ op \in Op /\ op.step = "entry" /\ InodeHeld
      /\ request \in Requests /\ request.kind = "create"
      /\ ~Present(disk, request.name) /\ request.size <= BlockSize
      /\ disk.inodes[op.ino] = InitNewInode
      /\ request.data # <<>> => disk.data[op.blk] = request.data[1]
  BY DEF RInv, Inv, TypeOK, AddDirEntry, At, Holding, Creating, CreateSteps, LastSteps
<1>2. /\ disk' = [disk EXCEPT !.dir[request.name] = op.ino, !.room = @ - 1]
      /\ op'.step = "answer" /\ UNCHANGED <<request, answer>>
  BY <1>1 DEF AddDirEntry, GoTo, Op
<1>3. /\ request.name \in Names /\ request.size \in Nat /\ request.data \in Seq(Tags)
      /\ op.ino \in Inos /\ op.ino # 0
  BY <1>1, RequestsAssumption, SizesAssumption DEF InodeHeld, Inos
<1>4. Len(request.data) \in Nat /\ DOMAIN request.data = 1..Len(request.data)
  BY <1>3
<1>5. Len(request.data) <= 1
  <2>1. (Len(request.data) - 1) * BlockSize < request.size /\ request.size <= 1 * BlockSize
    BY <1>1, RequestsAssumption, SizesAssumption
  <2> QED BY <2>1, <1>3, <1>4, BlocksSuffice
<1>6. /\ disk'.inodes = disk.inodes /\ disk'.data = disk.data
      /\ disk'.dir[request.name] = op.ino
      /\ \A n \in Names \ {request.name} : disk'.dir[n] = disk.dir[n]
  BY <1>1, <1>2, <1>3 DEF Disk
<1>7. /\ Present(disk', request.name) /\ InodeOf(disk', request.name) = InitNewInode
      /\ \A n \in Names \ {request.name} :
            /\ Present(disk', n) <=> Present(disk, n)
            /\ InodeOf(disk', n) = InodeOf(disk, n)
            /\ FileAt(disk', n) = FileAt(disk, n)
  BY <1>1, <1>3, <1>6 DEF Present, InodeOf, FileAt
<1>8. /\ InitNewInode.size = request.size /\ InitNewInode.unwritten = FALSE
      /\ DOMAIN InitNewInode.blocks = 1..Len(request.data)
      /\ Len(InitNewInode.blocks) = Len(request.data)
      /\ \A i \in 1..Len(request.data) :
            disk'.data[InitNewInode.blocks[i]] = request.data[i]
  <2>1. CASE request.data = <<>>
    BY <2>1 DEF InitNewInode
  <2>2. CASE request.data # <<>>
    <3>1. Len(request.data) = 1
      <4>1. \A seq \in Seq(Tags) : seq # << >> => Len(seq) \in Nat \ {0}
        BY EmptySeq, Zenon
      <4>2. Len(request.data) \in Nat \ {0}
        BY <1>3, <2>2, <4>1, Zenon
      <4>3. ASSUME NEW len \in Nat \ {0}, len <= 1 PROVE len = 1
        BY <4>3
      <4> QED BY <4>2, <4>3, <1>5, Zenon
    <3>2. InitNewInode.blocks = <<op.blk>> /\ disk'.data[op.blk] = request.data[1]
      BY <1>1, <1>6, <2>2 DEF InitNewInode
    <3> QED BY <3>1, <3>2 DEF InitNewInode
  <2> QED BY <2>1, <2>2
<1>9. FileAt(disk', request.name) = NewFile
  <2>1. [i \in 1..Len(request.data) |-> disk'.data[InitNewInode.blocks[i]]] = request.data
    BY <1>3, <1>4, <1>8
  <2> QED BY <1>7, <1>8, <2>1 DEF FileAt, NewFile
<1>10. Files(disk') = [n \in DOMAIN Files(disk) \cup {request.name} |->
                         IF n = request.name THEN NewFile ELSE Files(disk)[n]]
  BY <1>1, <1>3, <1>7, <1>9 DEF Files
<1>11. RInv'
  <2>2. File' = InitNewInode
    BY <1>2, <1>7 DEF File, Entry, InodeOf
  <2>3. Done'
    BY <1>1, <1>2, <1>4, <1>7, <1>8, <2>2 DEF Done, Piece
  <2> QED BY <1>2, <2>3 DEF RInv, Filled
<1> QED BY <1>1, <1>2, <1>10, <1>11

(***************************************************************************)
(* A block written is a block of the named file rewritten.                 *)
(***************************************************************************)
LEMMA BlockRewrites ==
    ASSUME RInv, Inv', OverwriteBlock
    PROVE  /\ RInv' /\ UNCHANGED <<request, answer>>
           /\ request \in Requests /\ request.kind = "overwrite"
           /\ Present(disk, request.name)
           /\ op.at + 1 \in DOMAIN Files(disk)[request.name].content
           /\ Files(disk') = [Files(disk) EXCEPT
                                ![request.name].content[op.at + 1] = Piece(op.at + 1)]
<1> DEFINE k == op.at + 1
           mine == File.blocks[k]
<1>1. /\ request \in Requests /\ Present(disk, request.name)
      /\ op.at \in Nat /\ k \in DOMAIN File.blocks
      /\ mine \in Blocks
  BY NextBlock DEF RInv
<1>2. /\ request.name \in Names /\ File = InodeOf(disk, request.name) /\ File \in Inode
  BY <1>1, FileIsNamed DEF RInv
<1>3. /\ disk' = [disk EXCEPT !.data[mine] = Piece(k)]
      /\ op' = [op EXCEPT !.at = @ + 1] /\ UNCHANGED <<request, answer>>
  BY OverwriteBlockPlain DEF BlockWritten, RInv
<1>4. /\ disk \in Disk /\ disk' \in Disk /\ op \in Op /\ op.step = "blocks"
      /\ Sound(disk) /\ request.kind = "overwrite"
  BY OverwriteBlockPlain DEF RInv, Inv, TypeOK, BlockWritten, At, Overwriting
<1> HIDE DEF k, mine
<1>5. /\ disk'.dir = disk.dir /\ disk'.inodes = disk.inodes
      /\ disk'.data[mine] = Piece(k)
      /\ \A blk : blk # mine => disk'.data[blk] = disk.data[blk]
  BY <1>1, <1>3, <1>4 DEF Disk
<1>6. \A n \in Names : /\ Present(disk', n) <=> Present(disk, n)
                       /\ InodeOf(disk', n) = InodeOf(disk, n)
  BY <1>5 DEF Present, InodeOf
<1>7. \A i \in DOMAIN File.blocks : i # k => File.blocks[i] # mine
  BY <1>1, <1>2, <1>4 DEF Sound, mine
<1>8. ASSUME NEW n \in Names, Present(disk, n), n # request.name
      PROVE  FileAt(disk', n) = FileAt(disk, n)
  <2>1. mine \in BlocksOf(disk, request.name)
    BY <1>1, <1>2 DEF BlocksOf, mine
  <2>2. \A i \in DOMAIN InodeOf(disk, n).blocks : InodeOf(disk, n).blocks[i] # mine
    BY <1>1, <1>2, <1>4, <1>8, <2>1 DEF Sound, Unshared, BlocksOf
  <2> QED BY <1>5, <1>6, <2>2 DEF FileAt
<1>9. FileAt(disk', request.name)
         = [FileAt(disk, request.name) EXCEPT !.content[k] = Piece(k)]
  <2>1. InodeOf(disk', request.name) = File
    BY <1>2, <1>6
  <2>2. [i \in DOMAIN File.blocks |-> disk'.data[File.blocks[i]]]
           = [[i \in DOMAIN File.blocks |-> disk.data[File.blocks[i]]] EXCEPT ![k] = Piece(k)]
    BY <1>1, <1>5, <1>7 DEF mine
  <2> DEFINE old == [i \in DOMAIN File.blocks |-> disk.data[File.blocks[i]]]
             new == [i \in DOMAIN File.blocks |-> disk'.data[File.blocks[i]]]
  <2>3. /\ FileAt(disk, request.name) = [size |-> File.size, content |-> old]
        /\ FileAt(disk', request.name) = [size |-> File.size, content |-> new]
    BY <1>2, <2>1 DEF FileAt
  <2>4. new = [old EXCEPT ![k] = Piece(k)]
    BY <2>2
  <2> HIDE DEF old, new
  <2> QED BY <2>3, <2>4
<1>10. Files(disk') = [Files(disk) EXCEPT ![request.name].content[k] = Piece(k)]
  BY <1>1, <1>2, <1>6, <1>8, <1>9 DEF Files
<1>11. k \in DOMAIN Files(disk)[request.name].content
  BY <1>1, <1>2 DEF Files, FileAt
<1>12. RInv'
  <2>2. /\ op'.step = "blocks" /\ op'.at = k
        /\ File' = File /\ \A i : Piece(i)' = Piece(i)
    BY <1>2, <1>3, <1>4, <1>6 DEF Op, k, File, Entry, InodeOf, Piece
  <2>3. DOMAIN File.blocks = 1..Len(File.blocks) /\ Len(File.blocks) \in Nat
    BY <1>2 DEF Inode
  <2>4. ASSUME NEW i \in 1..k PROVE disk'.data[File.blocks[i]] = Piece(i)
    <3>1. CASE i = k
      BY <1>5, <3>1 DEF mine
    <3>2. CASE i # k
      <4>1. i \in 1..op.at /\ i \in DOMAIN File.blocks
        BY <1>1, <2>3, <3>2 DEF k
      <4> QED BY <1>4, <1>5, <1>7, <3>2, <4>1 DEF RInv, Filled
    <3> QED BY <3>1, <3>2
  <2> QED BY <2>2, <2>4 DEF RInv, Filled, Done
<1> QED BY <1>1, <1>3, <1>4, <1>10, <1>11, <1>12 DEF k

(***************************************************************************)
(* The size's write resizes the named file; by then its blocks hold the    *)
(* data.                                                                   *)
(***************************************************************************)
LEMMA SizeResizes ==
    ASSUME RInv, Inv', UpdateInodeSize
    PROVE  /\ RInv' /\ UNCHANGED <<request, answer>>
           /\ request \in Requests /\ request.kind = "overwrite"
           /\ Present(disk, request.name)
           /\ Files(disk') = [Files(disk) EXCEPT ![request.name].size = request.size]
<1>1. /\ request \in Requests /\ Present(disk, request.name)
      /\ request.kind = "overwrite" /\ request.size <= Reach(File) * BlockSize
      /\ op.step = "blocks" /\ op.at = Reach(File)
      /\ disk \in Disk /\ op \in Op /\ Sound(disk)
  BY UpdateInodeSizePlain DEF RInv, Inv, TypeOK, SizeWritten, At, Overwriting
<1>2. /\ request.name \in Names /\ Entry \in Inos
      /\ File = InodeOf(disk, request.name) /\ File \in Inode
  BY <1>1, FileIsNamed DEF RInv
<1>3. ~File.unwritten
  BY <1>1, <1>2 DEF RInv, Inv, Written
<1>4. /\ Reach(File) = Len(File.blocks) /\ Len(File.blocks) \in Nat
      /\ DOMAIN File.blocks = 1..Len(File.blocks)
  BY <1>2, <1>3, ReachIsBlocks
<1>5. /\ disk' = [disk EXCEPT !.inodes[Entry].size = request.size]
      /\ op'.step = "answer" /\ UNCHANGED <<request, answer>>
  BY <1>1, UpdateInodeSizePlain DEF SizeWritten, GoTo, Op, RInv
<1>6. Len(request.data) <= Len(File.blocks)
  <2>1. /\ Len(request.data) \in Nat /\ request.size \in Nat
        /\ (Len(request.data) - 1) * BlockSize < request.size
    BY <1>1, RequestsAssumption
  <2> QED BY <1>1, <1>4, <2>1, BlocksSuffice
<1>7. /\ disk'.dir = disk.dir /\ disk'.data = disk.data
      /\ disk'.inodes[Entry] = [File EXCEPT !.size = request.size]
      /\ \A i \in Inos \ {Entry} : disk'.inodes[i] = disk.inodes[i]
  BY <1>1, <1>2, <1>5 DEF Disk, File
<1>8. /\ InodeOf(disk', request.name) = [File EXCEPT !.size = request.size]
      /\ \A n \in Names : Present(disk', n) <=> Present(disk, n)
  BY <1>2, <1>7 DEF InodeOf, Present, Entry
<1>9. ASSUME NEW n \in Names, Present(disk, n), n # request.name
      PROVE  InodeOf(disk', n) = InodeOf(disk, n)
  <2>1. disk.dir[n] \in Inos \ {Entry}
    BY <1>1, <1>2, <1>9 DEF Sound, Unshared, Present, Entry, Disk
  <2> QED BY <1>7, <2>1 DEF InodeOf
<1>10. [File EXCEPT !.size = request.size]
         = [size |-> request.size, blocks |-> File.blocks,
            extents |-> File.extents, unwritten |-> File.unwritten]
  BY <1>2 DEF Inode
<1>11. FileAt(disk', request.name)
         = [FileAt(disk, request.name) EXCEPT !.size = request.size]
  <2> DEFINE content == [i \in DOMAIN File.blocks |-> disk.data[File.blocks[i]]]
             new == InodeOf(disk', request.name)
  <2>1. new.size = request.size /\ new.blocks = File.blocks
    BY <1>8, <1>10
  <2>2. FileAt(disk, request.name) = [size |-> File.size, content |-> content]
    BY <1>2 DEF FileAt
  <2>3. FileAt(disk', request.name) = [size |-> request.size, content |-> content]
    BY <1>7, <2>1 DEF FileAt
  <2> HIDE DEF content
  <2> QED BY <2>2, <2>3
<1>12. ASSUME NEW n \in Names, Present(disk, n), n # request.name
       PROVE  FileAt(disk', n) = FileAt(disk, n)
  BY <1>7, <1>9, <1>12 DEF FileAt
<1>13. Files(disk') = [Files(disk) EXCEPT ![request.name].size = request.size]
  BY <1>1, <1>2, <1>8, <1>11, <1>12 DEF Files
<1>14. RInv'
  <2>2. File' = [size |-> request.size, blocks |-> File.blocks,
                 extents |-> File.extents, unwritten |-> File.unwritten]
    BY <1>5, <1>8, <1>10 DEF File, Entry, InodeOf
  <2>3. \A i \in 1..Len(File.blocks) : disk'.data[File.blocks[i]] = Piece(i)
    BY <1>1, <1>4, <1>7 DEF RInv, Filled
  <2>4. \A i : Piece(i)' = Piece(i)
    BY <1>5 DEF Piece
  <2>5. Present(disk', request.name)
    BY <1>1, <1>2, <1>8
  <2>6. Done'
    BY <1>1, <1>5, <1>6, <2>2, <2>3, <2>4, <2>5 DEF Done
  <2> QED BY <1>5, <2>6 DEF RInv, Filled
<1> QED BY <1>1, <1>5, <1>13, <1>14

(***************************************************************************)
(* Every step of the library keeps RInv and is a step of the store.        *)
(***************************************************************************)
LEMMA RInit == ASSUME AllWritten, Init PROVE RInv /\ Store!StoreInit
<1>1. Inv
  BY InitInv
<1>2. RInv
  BY <1>1 DEF Init, RInv, Filled, Done, Nowhere
<1>3. DOMAIN Files(disk) \subseteq Names
  BY DEF Files
<1> QED BY <1>2, <1>3 DEF Init, Store!StoreInit

StoreMoves == [Store!StoreNext]_(Store!storeVars)

(* Steps the store does not see, and the end of a request without success. *)
LEMMA Unseen ==
    ASSUME Files(disk') = Files(disk), UNCHANGED <<request, answer>>
    PROVE  StoreMoves
BY DEF StoreMoves, Store!storeVars

LEMMA Refused ==
    ASSUME Inv, op.step # "idle", Files(disk') = Files(disk), Refuse
    PROVE  StoreMoves
<1>1. request # NoRequest
  BY DEF Inv, Busy
<1> QED BY <1>1 DEF Refuse, StoreMoves, Store!StoreNext, Store!Tell

LEMMA NextSimulates ==
    ASSUME RInv, Inv', Next PROVE RInv' /\ StoreMoves
<1>1. CASE Ask
  <2>1. disk' = disk /\ op'.step = "lookup"
    BY <1>1 DEF Ask, GoTo, RInv, Inv, TypeOK, Op
  <2>2. RInv'
    BY <2>1, KeepsItself, QuietR DEF RInv
  <2>3. Store!Ask
    BY <1>1, <2>1 DEF Ask, Store!Ask
  <2> QED BY <2>2, <2>3 DEF StoreMoves, Store!StoreNext
<1>2. CASE CreateFile
  <2>1. disk' = disk /\ (Refuse \/ UNCHANGED <<request, answer>>)
        /\ op'.step \notin {"blocks", "answer"} /\ op.step # "idle"
    BY <1>2 DEF CreateFile, GoTo, At, Refuse, Nowhere, RInv, Inv, TypeOK, Op
  <2>2. RInv'
    BY <2>1, KeepsItself, QuietR DEF RInv
  <2> QED BY <2>1, <2>2, Unseen, Refused DEF RInv
<1>3. CASE OverwriteFile
  <2>1. disk' = disk /\ (Refuse \/ UNCHANGED <<request, answer>>) /\ op.step # "idle"
    BY <1>3 DEF OverwriteFile, At
  <2> QED BY <1>3, <2>1, LookupR, Unseen, Refused DEF RInv
<1>4. CASE \/ AllocInode \/ AllocBlock \/ UpdateGdInodeAlloc \/ UpdateGdBlockAlloc
           \/ WriteSuperblockFreeCounts \/ WriteInode \/ WriteData
  <2>1. op.step # "idle"
    BY <1>4 DEF AllocInode, AllocBlock, UpdateGdInodeAlloc, UpdateGdBlockAlloc,
                WriteSuperblockFreeCounts, WriteInode, WriteData, At
  <2> QED BY <1>4, <2>1, CreatingR, Unseen, Refused DEF RInv
<1>5. CASE AddDirEntry
  <2>1. CASE Refuse
    <3>1. disk' = disk /\ op.step # "idle"
      BY <1>5, <2>1 DEF AddDirEntry, At, GoTo, Refuse, Nowhere, RInv, Inv, TypeOK, Op
    <3> QED BY <2>1, <3>1, RefuseR, Refused DEF RInv
  <2>2. CASE ~Refuse
    <3>1. Store!Make
      BY <1>5, <2>2, EntryMakes, RequestsAssumption
         DEF Store!Make, Store!Exists, NewFile, Files
    <3> QED BY <1>5, <2>2, <3>1, EntryMakes DEF StoreMoves, Store!StoreNext
  <2> QED BY <2>1, <2>2
<1>6. CASE OverwriteBlock
  <2>1. \A i : Piece(i) = Store!Piece(request, i)
    BY DEF Piece, Store!Piece
  <2>2. request # NoRequest /\ request.name \in DOMAIN Files(disk)
    BY <1>6, BlockRewrites, RequestsAssumption DEF Files
  <2>3. Store!Rewrite
    BY <1>6, <2>1, <2>2, BlockRewrites DEF Store!Rewrite, Store!Exists
  <2> QED BY <1>6, <2>3, BlockRewrites DEF StoreMoves, Store!StoreNext
<1>7. CASE UpdateInodeSize
  <2>1. Store!Resize
    BY <1>7, SizeResizes, RequestsAssumption DEF Store!Resize, Store!Exists, Files
  <2> QED BY <1>7, <2>1, SizeResizes DEF StoreMoves, Store!StoreNext
<1>8. CASE Succeed
  <2>1. /\ disk' = disk /\ answer' = "ok" /\ request' = NoRequest
        /\ op'.step = "idle" /\ op.step = "answer"
    BY <1>8 DEF Succeed, At, Nowhere
  <2>2. RInv'
    BY <2>1, KeepsItself, QuietR DEF RInv
  <2>3. /\ request \in Requests /\ Present(disk, request.name)
        /\ File.size = request.size /\ Len(request.data) <= Len(File.blocks)
        /\ \A i \in 1..Len(File.blocks) : disk.data[File.blocks[i]] = Piece(i)
    BY <2>1 DEF RInv, Done
  <2>4. /\ request.name \in Names /\ File = InodeOf(disk, request.name)
        /\ DOMAIN File.blocks = 1..Len(File.blocks)
    BY <2>3, FileIsNamed DEF RInv, Inode
  <2> DEFINE content == [i \in 1..Len(File.blocks) |-> disk.data[File.blocks[i]]]
  <2>5. Files(disk)[request.name] = [size |-> request.size, content |-> content]
    BY <2>3, <2>4 DEF Files, FileAt
  <2>6. Len(File.blocks) \in Nat /\ Len(content) = Len(File.blocks)
    <3>1. Len(File.blocks) \in Nat
      BY <2>3, FileIsNamed DEF RInv, Inode
    <3> QED BY <3>1
  <2>7. \A i \in 1..Len(File.blocks) : content[i] = Store!Piece(request, i)
    BY <2>3 DEF Piece, Store!Piece
  <2>8. DOMAIN content = 1..Len(File.blocks)
    OBVIOUS
  <2> HIDE DEF content
  <2>9. Store!Holds(Files(disk)[request.name], request)
    BY <2>3, <2>5, <2>6, <2>7, <2>8 DEF Store!Holds
  <2>10. request.name \in DOMAIN Files(disk) /\ request # NoRequest
    BY <2>3, <2>4, RequestsAssumption DEF Files
  <2>11. Store!Tell
    BY <2>1, <2>9, <2>10 DEF Store!Tell, Store!Exists
  <2> QED BY <2>2, <2>11 DEF StoreMoves, Store!StoreNext
<1>9. CASE CutOff
  <2>1. disk' = disk /\ Refuse /\ op.step # "idle"
    BY <1>9 DEF CutOff, At
  <2> QED BY <2>1, RefuseR, Refused DEF RInv
<1> QED BY <1>1, <1>2, <1>3, <1>4, <1>5, <1>6, <1>7, <1>8, <1>9 DEF Next

LEMMA StepSimulates ==
    ASSUME RInv, Inv', [Next]_vars PROVE RInv' /\ StoreMoves
<1>1. CASE Next
  BY <1>1, NextSimulates
<1>2. CASE UNCHANGED vars
  <2>1. /\ disk' = disk /\ request' = request /\ answer' = answer /\ op' = op
    BY <1>2 DEF vars
  <2>2. RInv'
    BY <2>1 DEF RInv, Filled, Done, File, Entry, Piece
  <2> QED BY <2>1, <2>2, Unseen
<1> QED BY <1>1, <1>2

(* On a card without unwritten extents, create_file and overwrite_file_data*)
(* do, with all their bitmaps, descriptors and inodes and wherever they are*)
(* cut off, what the store of named files does.                            *)
THEOREM WritesImplementStore == ASSUME AllWritten PROVE Spec => ImplementsStore
<1>1. Init => RInv /\ Store!StoreInit
  BY RInit
<1>2. RInv /\ Inv' /\ [Next]_vars => RInv' /\ [Store!StoreNext]_(Store!storeVars)
  BY StepSimulates DEF StoreMoves
<1>3. Spec => []Inv
  BY Invariance
<1> QED BY <1>1, <1>2, <1>3, PTL DEF Spec, ImplementsStore, Store!StoreSpec

(* A step of the store touches the file the request names at most, and so  *)
(* does a step that implements it.                                         *)
LEMMA OthersUntouched ==
    ASSUME RInv, StoreMoves, NEW n \in Names, Present(disk, n),
           request = NoRequest \/ request.name # n
    PROVE  Present(disk', n) /\ FileAt(disk', n) = FileAt(disk, n)
<1>1. n \in DOMAIN Files(disk) /\ Files(disk)[n] = FileAt(disk, n)
  BY DEF Files
<1>2. n \in DOMAIN Files(disk') /\ Files(disk')[n] = Files(disk)[n]
  BY <1>1 DEF StoreMoves, Store!StoreNext, Store!Ask, Store!Make, Store!Rewrite,
              Store!Resize, Store!Tell, Store!storeVars
<1> QED
  BY <1>2, <1>1 DEF Files

(* Without unwritten extents no write of a create or an overwrite, finished*)
(* or cut off, changes a file the request does not name.                   *)
THEOREM OthersStayWhole == ASSUME AllWritten PROVE Spec => OnlyNamedFileChanges
<1>1. Init => RInv
  BY RInit
<1>2. RInv /\ Inv' /\ [Next]_vars => RInv'
  BY StepSimulates
<1>3. RInv /\ Inv' /\ [Next]_vars =>
          [\A n \in Names :
              Present(disk, n) /\ (request = NoRequest \/ request.name # n) =>
                  Present(disk', n) /\ FileAt(disk', n) = FileAt(disk, n)]_vars
  BY StepSimulates, OthersUntouched
<1>4. Spec => []Inv
  BY Invariance
<1> QED BY <1>1, <1>2, <1>3, <1>4, PTL DEF Spec, OnlyNamedFileChanges

(***************************************************************************)
(* The counts.  What the code has read into memory is what the card holds, *)
(* and a group it has just taken a bit from counts at least one free too   *)
(* many, until the write of its descriptor.  Assumed: the images' counts   *)
(* are right.                                                              *)
(***************************************************************************)
ImagesCounted ==
    \A d \in Images : \A g \in Groups :
        /\ d.desc[g].free_inodes = Cardinality(InodeBits \ d.inode_bitmap[g])
        /\ d.desc[g].free_blocks = Cardinality(BlockBits \ d.block_bitmap[g])

InMemory == op.step \notin {"idle", "lookup"} => fs.desc = disk.desc
ToLower ==
    /\ op.step = "inode_desc" =>
          disk.desc[op.group].free_inodes > Cardinality(InodeBits \ disk.inode_bitmap[op.group])
    /\ op.step = "block_desc" =>
          disk.desc[op.group].free_blocks > Cardinality(BlockBits \ disk.block_bitmap[op.group])

CountInv == Inv /\ CountsTrue /\ InMemory /\ ToLower

\* A count that is off by what is pending, of a group with the bits B free.
Off(count, B, most) == count - Cardinality(B) \in 0..most

LEMMA BitsFinite ==
    /\ \A S \in SUBSET InodeBits : IsFiniteSet(S) /\ Cardinality(S) \in Nat
    /\ \A S \in SUBSET BlockBits : IsFiniteSet(S) /\ Cardinality(S) \in Nat
<1>1. IsFiniteSet(InodeBits) /\ IsFiniteSet(BlockBits)
  BY FS_Interval, SizesAssumption DEF InodeBits, BlockBits
<1> QED
  BY <1>1, FS_Subset, FS_CardinalityType

\* CountsTrue, a group at a time.
GroupCounts(g) ==
    /\ Off(disk.desc[g].free_inodes, InodeBits \ disk.inode_bitmap[g],
           faults + Pending("inode_desc", g))
    /\ Off(disk.desc[g].free_blocks, BlockBits \ disk.block_bitmap[g],
           faults + Pending("block_desc", g))

LEMMA CountsOff == /\ CountsTrue <=> \A g \in Groups : GroupCounts(g)
                   /\ CountsTrue' <=> \A g \in Groups : GroupCounts(g)'
BY DEF CountsTrue, Off, FreeCounts, FreeBlocks, GroupCounts

LEMMA CountedInit == ASSUME AllWritten, ImagesCounted, Init PROVE CountInv
<1>1. disk \in Disk /\ faults = 0 /\ op.step = "idle" /\ Inv
  BY InitInv, ImagesAssumption DEF Init, Nowhere
<1>2. ASSUME NEW g \in Groups
      PROVE  GroupCounts(g)
  <2>1. /\ disk.desc[g].free_inodes = Cardinality(InodeBits \ disk.inode_bitmap[g])
        /\ disk.desc[g].free_blocks = Cardinality(BlockBits \ disk.block_bitmap[g])
    BY DEF ImagesCounted, Init
  <2>2. /\ Cardinality(InodeBits \ disk.inode_bitmap[g]) \in Nat
        /\ Cardinality(BlockBits \ disk.block_bitmap[g]) \in Nat
    BY BitsFinite
  <2>3. Pending("inode_desc", g) = 0 /\ Pending("block_desc", g) = 0
    BY <1>1 DEF Pending
  <2> QED
    BY <1>1, <2>1, <2>2, <2>3 DEF Off, GroupCounts
<1> QED
  BY <1>1, <1>2, CountsOff DEF CountInv, InMemory, ToLower

\* The counts and bitmaps are left alone, and nothing pending is forgotten
\* but for a fault.
LEMMA CountsKept ==
    ASSUME CountsTrue, faults \in Nat, faults' \in Nat,
           disk'.desc = disk.desc,
           disk'.inode_bitmap = disk.inode_bitmap, disk'.block_bitmap = disk.block_bitmap,
           \A g \in Groups :
               /\ faults + Pending("inode_desc", g) <= faults' + Pending("inode_desc", g)'
               /\ faults + Pending("block_desc", g) <= faults' + Pending("block_desc", g)'
    PROVE  CountsTrue'
<1>1. \A s, g : Pending(s, g) \in 0..1 /\ Pending(s, g)' \in 0..1
  BY DEF Pending
<1>2. ASSUME NEW n \in Nat, NEW m \in Nat, NEW c, NEW B, n <= m, Off(c, B, n)
      PROVE  Off(c, B, m)
  BY <1>2 DEF Off
<1>3. ASSUME NEW g \in Groups
      PROVE  GroupCounts(g)'
  <2>1. /\ faults + Pending("inode_desc", g) \in Nat /\ faults' + Pending("inode_desc", g)' \in Nat
        /\ faults + Pending("block_desc", g) \in Nat /\ faults' + Pending("block_desc", g)' \in Nat
    BY <1>1
  <2>2. /\ Off(disk.desc[g].free_inodes, InodeBits \ disk.inode_bitmap[g],
               faults + Pending("inode_desc", g))
        /\ Off(disk.desc[g].free_blocks, BlockBits \ disk.block_bitmap[g],
               faults + Pending("block_desc", g))
    BY CountsOff DEF GroupCounts
  <2> QED
    BY <1>2, <2>1, <2>2 DEF GroupCounts
<1> QED
  BY <1>3, CountsOff

\* A bit taken of a group: its true count is one less.
LEMMA OneBitLess ==
    ASSUME NEW S, IsFiniteSet(S), NEW M, NEW b \in S \ M, Cardinality(S \ M) \in Nat
    PROVE  Cardinality(S \ (M \cup {b})) = Cardinality(S \ M) - 1
<1>1. S \ (M \cup {b}) = (S \ M) \ {b}
  OBVIOUS
<1>2. IsFiniteSet(S \ M)
  BY FS_Subset
<1> QED
  BY <1>1, <1>2, FS_RemoveElement

\* Off the path of an allocation nothing is pending.
NotPending == op.step \notin {"inode_desc", "block_desc"}
NotPendingNext == op'.step \notin {"inode_desc", "block_desc"}

LEMMA PendingNone ==
    ASSUME faults \in Nat
    PROVE  /\ NotPending => \A g : /\ faults + Pending("inode_desc", g) = faults
                                   /\ faults + Pending("block_desc", g) = faults
           /\ NotPendingNext => \A g : /\ faults + Pending("inode_desc", g)' = faults
                                       /\ faults + Pending("block_desc", g)' = faults
<1>1. /\ NotPending => \A g : Pending("inode_desc", g) = 0 /\ Pending("block_desc", g) = 0
      /\ NotPendingNext =>
            \A g : Pending("inode_desc", g)' = 0 /\ Pending("block_desc", g)' = 0
  BY DEF Pending, NotPending, NotPendingNext
<1> QED
  BY <1>1

\* What a bit taken, and a count lowered, do to a group.
LEMMA OffByOne ==
    ASSUME NEW c \in Nat, NEW f \in Nat, NEW B, NEW C,
           Cardinality(B) \in Nat, Cardinality(C) \in Nat, Cardinality(C) = Cardinality(B) - 1,
           Off(c, B, f)
    PROVE  Off(c, C, f + 1) /\ c > Cardinality(C)
BY DEF Off

LEMMA OnAgain ==
    ASSUME NEW c \in Nat, NEW f \in Nat, NEW B, Cardinality(B) \in Nat,
           Off(c, B, f + 1), c > Cardinality(B)
    PROVE  Off(Less(c), B, f)
BY DEF Off, Less

LEMMA AllocInodeCounted ==
    ASSUME CountInv, faults' = faults, NEW h \in Groups, NEW b \in InodeBits, At("inode_bitmap"),
           FirstFree(FreeInodes, "free_inodes", h, b),
           disk' = [disk EXCEPT !.inode_bitmap[h] = @ \cup {b}],
           op' = [op EXCEPT !.step = "inode_desc", !.group = h, !.ino = InodeNumber(h, b)]
    PROVE  CountsTrue' /\ ToLower'
<1>1. disk \in Disk /\ op \in Op /\ faults \in Nat
  BY DEF CountInv, Inv, TypeOK
<1>2. /\ disk'.desc = disk.desc /\ disk'.block_bitmap = disk.block_bitmap
      /\ disk'.inode_bitmap[h] = disk.inode_bitmap[h] \cup {b}
      /\ \A g \in Groups \ {h} : disk'.inode_bitmap[g] = disk.inode_bitmap[g]
  BY <1>1 DEF Disk
<1>3. op'.step = "inode_desc" /\ op'.group = h /\ NotPending
  BY <1>1 DEF Op, At, NotPending
<1>4. /\ \A g : Pending("block_desc", g)' = 0
      /\ \A g : g # h => Pending("inode_desc", g)' = 0
      /\ Pending("inode_desc", h)' = 1
  BY <1>3 DEF Pending
<1>5. ASSUME NEW g \in Groups
      PROVE  /\ Off(disk.desc[g].free_inodes, InodeBits \ disk.inode_bitmap[g], faults)
             /\ Off(disk.desc[g].free_blocks, BlockBits \ disk.block_bitmap[g], faults)
  <2>1. /\ faults + Pending("inode_desc", g) = faults
        /\ faults + Pending("block_desc", g) = faults
    BY <1>1, <1>3, PendingNone
  <2> QED
    BY <2>1, CountsOff DEF CountInv, GroupCounts
<1>6. /\ Off(disk'.desc[h].free_inodes, InodeBits \ disk'.inode_bitmap[h], faults + 1)
      /\ disk'.desc[h].free_inodes > Cardinality(InodeBits \ disk'.inode_bitmap[h])
  <2>1. b \in InodeBits \ disk.inode_bitmap[h]
    BY DEF FirstFree, FreeInodes
  <2>2. /\ IsFiniteSet(InodeBits) /\ Cardinality(InodeBits \ disk.inode_bitmap[h]) \in Nat
    BY BitsFinite
  <2>3. Cardinality(InodeBits \ disk'.inode_bitmap[h])
           = Cardinality(InodeBits \ disk.inode_bitmap[h]) - 1
    BY <1>2, <2>1, <2>2, OneBitLess
  <2>4. disk.desc[h].free_inodes \in Nat
    BY <1>1 DEF Disk, Counts
  <2>5. Cardinality(InodeBits \ disk'.inode_bitmap[h]) \in Nat
    BY BitsFinite
  <2> QED
    BY <1>1, <1>2, <1>5, <2>2, <2>3, <2>4, <2>5, OffByOne
<1>7. ASSUME NEW g \in Groups PROVE GroupCounts(g)'
  <2>1. Off(disk'.desc[g].free_blocks, BlockBits \ disk'.block_bitmap[g],
            faults' + Pending("block_desc", g)')
    <3>1. faults' + Pending("block_desc", g)' = faults
      BY <1>1, <1>4
    <3> QED
      BY <1>2, <1>5, <3>1
  <2>2. CASE g = h
    <3>1. faults' + Pending("inode_desc", g)' = faults + 1
      BY <1>4, <2>2
    <3> QED
      BY <1>6, <2>1, <2>2, <3>1 DEF GroupCounts
  <2>3. CASE g # h
    <3>1. faults' + Pending("inode_desc", g)' = faults
      BY <1>1, <1>4, <2>3
    <3> QED
      BY <1>2, <1>5, <2>1, <2>3, <3>1 DEF GroupCounts
  <2> QED
    BY <2>2, <2>3
<1> QED
  BY <1>3, <1>6, <1>7, CountsOff DEF ToLower

LEMMA AllocBlockCounted ==
    ASSUME CountInv, faults' = faults, NEW h \in Groups, NEW b \in BlockBits, At("block_bitmap"),
           FirstFree(FreeBlocks, "free_blocks", h, b),
           disk' = [disk EXCEPT !.block_bitmap[h] = @ \cup {b}],
           op' = [op EXCEPT !.step = "block_desc", !.group = h, !.blk = BlockNumber(h, b)]
    PROVE  CountsTrue' /\ ToLower'
<1>1. disk \in Disk /\ op \in Op /\ faults \in Nat
  BY DEF CountInv, Inv, TypeOK
<1>2. /\ disk'.desc = disk.desc /\ disk'.inode_bitmap = disk.inode_bitmap
      /\ disk'.block_bitmap[h] = disk.block_bitmap[h] \cup {b}
      /\ \A g \in Groups \ {h} : disk'.block_bitmap[g] = disk.block_bitmap[g]
  BY <1>1 DEF Disk
<1>3. op'.step = "block_desc" /\ op'.group = h /\ NotPending
  BY <1>1 DEF Op, At, NotPending
<1>4. /\ \A g : Pending("inode_desc", g)' = 0
      /\ \A g : g # h => Pending("block_desc", g)' = 0
      /\ Pending("block_desc", h)' = 1
  BY <1>3 DEF Pending
<1>5. ASSUME NEW g \in Groups
      PROVE  /\ Off(disk.desc[g].free_blocks, BlockBits \ disk.block_bitmap[g], faults)
             /\ Off(disk.desc[g].free_inodes, InodeBits \ disk.inode_bitmap[g], faults)
  <2>1. /\ faults + Pending("block_desc", g) = faults
        /\ faults + Pending("inode_desc", g) = faults
    BY <1>1, <1>3, PendingNone
  <2> QED
    BY <2>1, CountsOff DEF CountInv, GroupCounts
<1>6. /\ Off(disk'.desc[h].free_blocks, BlockBits \ disk'.block_bitmap[h], faults + 1)
      /\ disk'.desc[h].free_blocks > Cardinality(BlockBits \ disk'.block_bitmap[h])
  <2>1. b \in BlockBits \ disk.block_bitmap[h]
    BY DEF FirstFree, FreeBlocks
  <2>2. /\ IsFiniteSet(BlockBits) /\ Cardinality(BlockBits \ disk.block_bitmap[h]) \in Nat
    BY BitsFinite
  <2>3. Cardinality(BlockBits \ disk'.block_bitmap[h])
           = Cardinality(BlockBits \ disk.block_bitmap[h]) - 1
    BY <1>2, <2>1, <2>2, OneBitLess
  <2>4. disk.desc[h].free_blocks \in Nat
    BY <1>1 DEF Disk, Counts
  <2>5. Cardinality(BlockBits \ disk'.block_bitmap[h]) \in Nat
    BY BitsFinite
  <2> QED
    BY <1>1, <1>2, <1>5, <2>2, <2>3, <2>4, <2>5, OffByOne
<1>7. ASSUME NEW g \in Groups PROVE GroupCounts(g)'
  <2>1. Off(disk'.desc[g].free_inodes, InodeBits \ disk'.inode_bitmap[g],
            faults' + Pending("inode_desc", g)')
    <3>1. faults' + Pending("inode_desc", g)' = faults
      BY <1>1, <1>4
    <3> QED
      BY <1>2, <1>5, <3>1
  <2>2. CASE g = h
    <3>1. faults' + Pending("block_desc", g)' = faults + 1
      BY <1>4, <2>2
    <3> QED
      BY <1>6, <2>1, <2>2, <3>1 DEF GroupCounts
  <2>3. CASE g # h
    <3>1. faults' + Pending("block_desc", g)' = faults
      BY <1>1, <1>4, <2>3
    <3> QED
      BY <1>2, <1>5, <2>1, <2>3, <3>1 DEF GroupCounts
  <2> QED
    BY <2>2, <2>3
<1> QED
  BY <1>3, <1>6, <1>7, CountsOff DEF ToLower

LEMMA AllocCounted == ASSUME CountInv, AllocInode \/ AllocBlock PROVE CountsTrue' /\ ToLower'
<1>1. CASE disk' = disk /\ op' = Nowhere /\ faults' = faults
  <2>1. faults \in Nat /\ faults' \in Nat
    BY <1>1 DEF CountInv, Inv, TypeOK
  <2>2. NotPending /\ NotPendingNext
    BY <1>1 DEF NotPending, NotPendingNext, Nowhere, AllocInode, AllocBlock, At
  <2>3. \A g \in Groups :
            /\ faults + Pending("inode_desc", g) <= faults' + Pending("inode_desc", g)'
            /\ faults + Pending("block_desc", g) <= faults' + Pending("block_desc", g)'
    BY <1>1, <2>1, <2>2, PendingNone
  <2> QED
    BY <1>1, <2>1, <2>2, <2>3, CountsKept DEF CountInv, ToLower, NotPendingNext
<1> QED
  BY <1>1, AllocInodeCounted, AllocBlockCounted DEF AllocInode, AllocBlock, Refuse


LEMMA InodeDescCounted == ASSUME CountInv, UpdateGdInodeAlloc PROVE CountsTrue' /\ ToLower'
<1> DEFINE h == op.group
<1>1. /\ disk \in Disk /\ op \in Op /\ faults \in Nat /\ h \in Groups
      /\ fs \in [desc : [Groups -> Counts], sb : Counts]
      /\ op.step = "inode_desc" /\ fs.desc = disk.desc
  BY DEF CountInv, Inv, TypeOK, InMemory, UpdateGdInodeAlloc, At, Op
<1>2. /\ faults' = faults /\ disk'.inode_bitmap = disk.inode_bitmap
      /\ disk'.block_bitmap = disk.block_bitmap
      /\ \A g \in Groups \ {h} : disk'.desc[g] = disk.desc[g]
      /\ disk'.desc[h].free_inodes = Less(disk.desc[h].free_inodes)
      /\ disk'.desc[h].free_blocks = disk.desc[h].free_blocks
  BY <1>1 DEF UpdateGdInodeAlloc, Disk, Counts
<1>3. op'.step = "inode_sb"
  BY <1>1 DEF UpdateGdInodeAlloc, GoTo, Op
<1>4. /\ \A g : Pending("block_desc", g) = 0
      /\ \A g : g # h => Pending("inode_desc", g) = 0
      /\ Pending("inode_desc", h) = 1 /\ NotPendingNext
  BY <1>1, <1>3 DEF Pending, NotPendingNext
<1>5. ASSUME NEW g \in Groups PROVE GroupCounts(g)'
  <2>1. GroupCounts(g)
    BY CountsOff DEF CountInv
  <2>2. /\ faults' + Pending("inode_desc", g)' = faults
        /\ faults' + Pending("block_desc", g)' = faults
    BY <1>1, <1>2, <1>4, PendingNone
  <2>3. faults + Pending("block_desc", g) = faults
    BY <1>1, <1>4
  <2>4. disk'.desc[g].free_blocks = disk.desc[g].free_blocks
    BY <1>2
  <2>5. CASE g = h
    <3>1. faults + Pending("inode_desc", g) = faults + 1
      BY <1>4, <2>5
    <3>2. /\ disk.desc[h].free_inodes \in Nat
          /\ Cardinality(InodeBits \ disk.inode_bitmap[h]) \in Nat
          /\ disk.desc[h].free_inodes > Cardinality(InodeBits \ disk.inode_bitmap[h])
      BY <1>1, BitsFinite DEF Disk, Counts, CountInv, ToLower
    <3>3. Off(Less(disk.desc[h].free_inodes), InodeBits \ disk.inode_bitmap[h], faults)
      BY <1>1, <2>1, <2>5, <3>1, <3>2, OnAgain DEF GroupCounts
    <3> QED
      BY <1>2, <2>1, <2>2, <2>3, <2>4, <2>5, <3>3 DEF GroupCounts
  <2>6. CASE g # h
    <3>1. faults + Pending("inode_desc", g) = faults
      BY <1>1, <1>4, <2>6
    <3> QED
      BY <1>2, <2>1, <2>2, <2>3, <2>4, <2>6, <3>1 DEF GroupCounts
  <2> QED
    BY <2>5, <2>6
<1> QED
  BY <1>3, <1>5, CountsOff DEF ToLower



LEMMA BlockDescCounted == ASSUME CountInv, UpdateGdBlockAlloc PROVE CountsTrue' /\ ToLower'
<1> DEFINE h == op.group
<1>1. /\ disk \in Disk /\ op \in Op /\ faults \in Nat /\ h \in Groups
      /\ fs \in [desc : [Groups -> Counts], sb : Counts]
      /\ op.step = "block_desc" /\ fs.desc = disk.desc
  BY DEF CountInv, Inv, TypeOK, InMemory, UpdateGdBlockAlloc, At, Op
<1>2. /\ faults' = faults /\ disk'.block_bitmap = disk.block_bitmap
      /\ disk'.inode_bitmap = disk.inode_bitmap
      /\ \A g \in Groups \ {h} : disk'.desc[g] = disk.desc[g]
      /\ disk'.desc[h].free_blocks = Less(disk.desc[h].free_blocks)
      /\ disk'.desc[h].free_inodes = disk.desc[h].free_inodes
  BY <1>1 DEF UpdateGdBlockAlloc, Disk, Counts
<1>3. op'.step = "block_sb"
  BY <1>1 DEF UpdateGdBlockAlloc, GoTo, Op
<1>4. /\ \A g : Pending("inode_desc", g) = 0
      /\ \A g : g # h => Pending("block_desc", g) = 0
      /\ Pending("block_desc", h) = 1 /\ NotPendingNext
  BY <1>1, <1>3 DEF Pending, NotPendingNext
<1>5. ASSUME NEW g \in Groups PROVE GroupCounts(g)'
  <2>1. GroupCounts(g)
    BY CountsOff DEF CountInv
  <2>2. /\ faults' + Pending("block_desc", g)' = faults
        /\ faults' + Pending("inode_desc", g)' = faults
    BY <1>1, <1>2, <1>4, PendingNone
  <2>3. faults + Pending("inode_desc", g) = faults
    BY <1>1, <1>4
  <2>4. disk'.desc[g].free_inodes = disk.desc[g].free_inodes
    BY <1>2
  <2>5. CASE g = h
    <3>1. faults + Pending("block_desc", g) = faults + 1
      BY <1>4, <2>5
    <3>2. /\ disk.desc[h].free_blocks \in Nat
          /\ Cardinality(BlockBits \ disk.block_bitmap[h]) \in Nat
          /\ disk.desc[h].free_blocks > Cardinality(BlockBits \ disk.block_bitmap[h])
      BY <1>1, BitsFinite DEF Disk, Counts, CountInv, ToLower
    <3>3. Off(Less(disk.desc[h].free_blocks), BlockBits \ disk.block_bitmap[h], faults)
      BY <1>1, <2>1, <2>5, <3>1, <3>2, OnAgain DEF GroupCounts
    <3> QED
      BY <1>2, <2>1, <2>2, <2>3, <2>4, <2>5, <3>3 DEF GroupCounts
  <2>6. CASE g # h
    <3>1. faults + Pending("block_desc", g) = faults
      BY <1>1, <1>4, <2>6
    <3> QED
      BY <1>2, <2>1, <2>2, <2>3, <2>4, <2>6, <3>1 DEF GroupCounts
  <2> QED
    BY <2>5, <2>6
<1> QED
  BY <1>3, <1>5, CountsOff DEF ToLower

\* Every other step leaves counts and bitmaps alone.
LEMMA OthersCounted ==
    ASSUME CountInv, [Next]_vars, ~AllocInode, ~AllocBlock,
           ~UpdateGdInodeAlloc, ~UpdateGdBlockAlloc
    PROVE  CountsTrue' /\ ToLower'
<1>1. /\ disk \in Disk /\ op \in Op /\ faults \in 0..MaxFaults /\ MaxFaults \in Nat
      /\ faults \in Nat
  BY SizesAssumption DEF CountInv, Inv, TypeOK
<1>0. /\ WriteData => DataWritten
      /\ OverwriteBlock => BlockWritten
      /\ UpdateInodeSize => SizeWritten
  BY WriteDataPlain, OverwriteBlockPlain, UpdateInodeSizePlain DEF CountInv
<1>2. /\ disk'.desc = disk.desc /\ disk'.inode_bitmap = disk.inode_bitmap
      /\ disk'.block_bitmap = disk.block_bitmap
  BY <1>0, <1>1
     DEF Next, vars, Ask, CreateFile, OverwriteFile, WriteSuperblockFreeCounts, WriteInode,
         DataWritten, AddDirEntry, BlockWritten, SizeWritten, Succeed, CutOff, Disk, CountInv
<1>3. \/ faults' = faults /\ NotPending /\ NotPendingNext
      \/ CutOff
      \/ UNCHANGED vars
  <2> USE <1>1 DEF At, GoTo, Refuse, Nowhere, Op, NotPending, NotPendingNext
  <2>1. ASSUME Ask \/ CreateFile \/ OverwriteFile
        PROVE  faults' = faults /\ NotPending /\ NotPendingNext
    <3>1. CASE Ask
      BY <3>1 DEF Ask, CountInv, Inv, Busy
    <3>2. CASE CreateFile
      BY <3>2 DEF CreateFile
    <3>3. CASE OverwriteFile
      <4>1. BeginRewrite => op'.step = "blocks"
        BY DEF BeginRewrite
      <4> QED BY <3>3, <4>1 DEF OverwriteFile
    <3> QED BY <2>1, <3>1, <3>2, <3>3
  <2>2. ASSUME WriteSuperblockFreeCounts \/ WriteInode \/ WriteData
        PROVE  faults' = faults /\ NotPending /\ NotPendingNext
    BY <1>0, <2>2 DEF WriteSuperblockFreeCounts, WriteInode, DataWritten
  <2>3. ASSUME AddDirEntry \/ OverwriteBlock \/ UpdateInodeSize \/ Succeed
        PROVE  faults' = faults /\ NotPending /\ NotPendingNext
    BY <1>0, <2>3 DEF AddDirEntry, BlockWritten, SizeWritten, Succeed
  <2> QED BY <2>1, <2>2, <2>3 DEF Next
<1>4. CASE faults' = faults /\ NotPending /\ NotPendingNext
  <2>1. \A g \in Groups :
            /\ faults + Pending("inode_desc", g) <= faults' + Pending("inode_desc", g)'
            /\ faults + Pending("block_desc", g) <= faults' + Pending("block_desc", g)'
    BY <1>1, <1>4, PendingNone
  <2> QED
    BY <1>1, <1>2, <1>4, <2>1, CountsKept DEF CountInv, ToLower, NotPendingNext
<1>5. CASE CutOff
  <2>1. faults' = faults + 1 /\ NotPendingNext
    BY <1>5 DEF CutOff, Refuse, Nowhere, NotPendingNext
  <2>2. \A g \in Groups :
            /\ faults + Pending("inode_desc", g) <= faults' + Pending("inode_desc", g)'
            /\ faults + Pending("block_desc", g) <= faults' + Pending("block_desc", g)'
    BY <1>1, <2>1 DEF Pending, NotPendingNext
  <2> QED
    BY <1>1, <1>2, <2>1, <2>2, CountsKept DEF CountInv, ToLower, NotPendingNext
<1>6. CASE UNCHANGED vars
  BY <1>6 DEF vars, CountInv, CountsTrue, FreeCounts, FreeBlocks, Pending, ToLower
<1> QED
  BY <1>3, <1>4, <1>5, <1>6

LEMMA InMemoryKept == ASSUME CountInv, [Next]_vars PROVE InMemory'
<1>1. /\ disk \in Disk /\ op \in Op
      /\ fs \in [desc : [Groups -> Counts], sb : Counts]
  BY DEF CountInv, Inv, TypeOK
<1> USE DEF CountInv, InMemory, At, GoTo, Refuse, Nowhere, Op
<1>2. CASE Ask \/ CreateFile \/ OverwriteFile
  BY <1>1, <1>2 DEF Ask, CreateFile, OverwriteFile, BeginRewrite
<1>3. CASE AllocInode \/ AllocBlock
  BY <1>1, <1>3 DEF AllocInode, AllocBlock, Disk
<1>4. CASE UpdateGdInodeAlloc \/ UpdateGdBlockAlloc
  <2>1. /\ fs.desc = disk.desc /\ op.group \in Groups
        /\ disk'.desc = [disk.desc EXCEPT ![op.group] = fs'.desc[op.group]]
    BY <1>1, <1>4 DEF UpdateGdInodeAlloc, UpdateGdBlockAlloc, Disk
  <2>2. PICK x : fs'.desc = [fs.desc EXCEPT ![op.group] = x]
    <3>1. CASE UpdateGdInodeAlloc
      <4>1. fs'.desc = [fs.desc EXCEPT ![op.group] =
                           [fs.desc[op.group] EXCEPT !.free_inodes = Less(@)]]
        BY <1>1, <3>1 DEF UpdateGdInodeAlloc
      <4> QED
        BY <4>1
    <3>2. CASE UpdateGdBlockAlloc
      <4>1. fs'.desc = [fs.desc EXCEPT ![op.group] =
                           [fs.desc[op.group] EXCEPT !.free_blocks = Less(@)]]
        BY <1>1, <3>2 DEF UpdateGdBlockAlloc
      <4> QED
        BY <4>1
    <3> QED
      BY <1>4, <3>1, <3>2
  <2>3. fs'.desc[op.group] = x /\ disk'.desc = [disk.desc EXCEPT ![op.group] = x]
    BY <1>1, <2>1, <2>2
  <2> QED
    BY <2>1, <2>2, <2>3
<1>5. CASE WriteSuperblockFreeCounts \/ WriteInode \/ WriteData \/ AddDirEntry
  BY <1>1, <1>5, WriteDataPlain
     DEF WriteSuperblockFreeCounts, WriteInode, DataWritten, AddDirEntry, Disk
<1>6. CASE OverwriteBlock \/ UpdateInodeSize
  BY <1>1, <1>6, OverwriteBlockPlain, UpdateInodeSizePlain DEF BlockWritten, SizeWritten, Disk
<1>7. CASE Succeed \/ CutOff \/ UNCHANGED vars
  BY <1>7 DEF Succeed, CutOff, vars
<1> QED
  BY <1>2, <1>3, <1>4, <1>5, <1>6, <1>7 DEF Next

LEMMA CountedNext == CountInv /\ [Next]_vars => CountInv'
<1>1. SUFFICES ASSUME CountInv, [Next]_vars PROVE CountInv'
  OBVIOUS
<1>2. CountsTrue' /\ ToLower'
  BY <1>1, AllocCounted, InodeDescCounted, BlockDescCounted, OthersCounted
<1> QED
  BY <1>1, <1>2, NextInv, InMemoryKept DEF CountInv

(* The counts on the card never hide free space and promise too much only  *)
(* by what was cut off or is under way, on images without unwritten extents*)
(* that count right.                                                       *)
THEOREM CountsStayTrue == ASSUME AllWritten, ImagesCounted PROVE Spec => []CountsTrue
<1>1. Init => CountInv
  BY CountedInit
<1>2. CountInv => CountsTrue
  BY DEF CountInv
<1> QED
  BY <1>1, <1>2, CountedNext, PTL DEF Spec

=============================================================================
