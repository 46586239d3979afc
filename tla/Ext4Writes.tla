------------------------------ MODULE Ext4Writes ------------------------------
(***************************************************************************)
(* The two operations of the ext4 library that write: create_file and      *)
(* overwrite_file_data, as ext4_create and ext4_write call them: every     *)
(* request opens the filesystem anew, and each sector write it makes to    *)
(* the card is a step of its own, in the order of the code.  A write that  *)
(* fails, a lost answer, a pulled cable or a closed window ends the        *)
(* request between two steps: nothing is undone and no journal is kept.    *)
(*                                                                         *)
(* Abstracted: one directory; a block's content is a tag; checksums and    *)
(* times; a name takes one slot of a directory; a block written is written *)
(* whole; a file's extents are in its inode and have no holes.  The        *)
(* journal, uninitialised groups and indexed directories are ignored by    *)
(* the code and absent here.                                               *)
(***************************************************************************)
EXTENDS Integers, Sequences, FiniteSets

CONSTANTS Names, Requests, NoRequest, Zero,     \* as in FileStore
          Tags,             \* what a block may hold, Zero included
          Images,           \* the filesystems a card may carry, see Disk
          NumGroups, InodesPerGroup, BlocksPerGroup, BlockSize,
          LastBlock,        \* the card ends here
          Misread,          \* what a block of a file says as the filesystem's own
          MaxFaults         \* bound on requests cut off

ASSUME SizesAssumption ==
    /\ NumGroups \in Nat \ {0} /\ InodesPerGroup \in Nat \ {0}
    /\ BlocksPerGroup \in Nat \ {0} /\ BlockSize \in Nat \ {0}
    /\ LastBlock \in Nat /\ MaxFaults \in Nat

(* A request's data is cut into blocks, of which only the last may be short.*)
ASSUME RequestsAssumption ==
    /\ NoRequest \notin Requests /\ Zero \in Tags
    /\ \A r \in Requests :
          /\ r \in [kind : {"create", "overwrite"}, name : Names,
                    data : Seq(Tags), size : Nat]
          /\ r.size <= Len(r.data) * BlockSize
          /\ (Len(r.data) - 1) * BlockSize < r.size

Groups == 0..(NumGroups - 1)
Blocks == 0..LastBlock

(* A group's bitmaps hold bits; the first bit of the inode bitmap is inode *)
(* 1 and, with blocks of 1024 bytes, the first block bit is block 1.       *)
FirstDataBlock == IF BlockSize = 1024 THEN 1 ELSE 0
InodeNumber(g, b) == g * InodesPerGroup + b + 1
BlockNumber(g, b) == g * BlocksPerGroup + b + FirstDataBlock

InodeBits == 0..(InodesPerGroup - 1)
BlockBits == 0..(BlocksPerGroup - 1)
Inos == 1..(NumGroups * InodesPerGroup)

(* The code takes bit 11 as the first inode of group 0 it may give away.   *)
FirstUsableBit == 11

(* In the length field of an extent 32768 marks blocks reserved and not    *)
(* yet written; the code reads the field as the length.                    *)
UnwrittenMark == 32768

(* extents is the flag of an inode that has them.                          *)
Inode == [size : Nat, blocks : Seq(Blocks), extents : BOOLEAN, unwritten : BOOLEAN]
NoInode == [size |-> 0, blocks |-> <<>>, extents |-> FALSE, unwritten |-> FALSE]
Counts == [free_blocks : Nat, free_inodes : Nat]
NoCounts == [free_blocks |-> 0, free_inodes |-> 0]

(* A block overwritten with what belongs in a file is read as a bitmap, a  *)
(* descriptor, inodes or a directory all the same: zeros say there is      *)
(* nothing, other contents say anything.                                   *)
ASSUME MisreadAssumption ==
    /\ Misread \in [Tags -> [inode_bits : SUBSET InodeBits, block_bits : SUBSET BlockBits,
                             counts : Counts, inode : Inode,
                             dir : [Names -> {0} \cup Inos], room : Nat]]
    /\ Misread[Zero] = [inode_bits |-> {}, block_bits |-> {}, counts |-> NoCounts,
                        inode |-> NoInode, dir |-> [n \in Names |-> 0], room |-> 0]

VARIABLES disk,     \* what the card holds
          fs,       \* Ext4Fs: the counts in memory since open
          request, answer,
          op,       \* where the request is: [step, group, ino, file, blk, at]
          faults    \* requests cut off so far

vars == <<disk, fs, request, answer, op, faults>>

(* dir maps a name to its inode number, 0 for a name that is not there;    *)
(* room is how many more entries fit after the last ones of its blocks;    *)
(* home is the directory's group and system the blocks of no file.  place  *)
(* is where the filesystem keeps what it has, the descriptor counted among *)
(* the blocks of a bitmap or an inode that is found through it; path holds *)
(* the superblock and the blocks through which the directory is found, and *)
(* lost says that one of them has been overwritten.                        *)
Place == [inode_bitmap : [Groups -> SUBSET Blocks],
          block_bitmap : [Groups -> SUBSET Blocks],
          desc : [Groups -> Blocks],
          inode : [Inos -> SUBSET Blocks],
          dir : Blocks,
          path : SUBSET Blocks]
Disk == [inode_bitmap : [Groups -> SUBSET InodeBits],
         block_bitmap : [Groups -> SUBSET BlockBits],
         desc : [Groups -> Counts],
         sb : Counts,
         inodes : [Inos -> Inode],
         dir : [Names -> {0} \cup Inos],
         room : Nat,
         data : [Blocks -> Tags],
         home : Groups,
         system : SUBSET Blocks,
         place : Place,
         lost : BOOLEAN,
         metadata_csum : BOOLEAN]

Steps == {"idle", "lookup", "inode_bitmap", "inode_desc", "inode_sb",
          "block_bitmap", "block_desc", "block_sb", "inode", "data", "entry",
          "blocks", "answer"}

Nowhere == [step |-> "idle", group |-> 0, ino |-> 0, file |-> NoInode, blk |-> 0, at |-> 0]
Op == [step : Steps, group : Groups, ino : {0} \cup Inos, file : Inode,
       blk : Blocks, at : Nat]

Less(n) == IF n = 0 THEN 0 ELSE n - 1       \* saturating_sub(1)
At(step) == op.step = step
GoTo(step) == op' = [op EXCEPT !.step = step]

Refuse == /\ answer' = "error"
          /\ request' = NoRequest
          /\ op' = Nowhere

(* The entry the request names, and the file behind it.                    *)
Entry == disk.dir[request.name]
File == disk.inodes[Entry]

(* The blocks an overwrite goes through: the file's own, and behind a last *)
(* extent that is not written yet the blocks its length field adds.        *)
Reach(inode) == Len(inode.blocks) + (IF inode.unwritten THEN UnwrittenMark ELSE 0)
Visited(inode, i) ==
    IF i <= Len(inode.blocks) THEN inode.blocks[i]
    ELSE inode.blocks[Len(inode.blocks)] + (i - Len(inode.blocks))

Piece(i) == IF i <= Len(request.data) THEN request.data[i] ELSE Zero

(* The card with a tag written to one block, whatever the block was for.   *)
Overwritten(d, blk, tag) ==
    LET says == Misread[tag]
    IN  [d EXCEPT
            !.data[blk] = tag,
            !.inode_bitmap = [g \in Groups |-> IF blk \in d.place.inode_bitmap[g]
                                               THEN says.inode_bits ELSE @[g]],
            !.block_bitmap = [g \in Groups |-> IF blk \in d.place.block_bitmap[g]
                                               THEN says.block_bits ELSE @[g]],
            !.desc = [g \in Groups |-> IF blk = d.place.desc[g] THEN says.counts ELSE @[g]],
            !.inodes = [i \in Inos |-> IF blk \in d.place.inode[i] THEN says.inode ELSE @[i]],
            !.dir = IF blk = d.place.dir THEN says.dir ELSE @,
            !.room = IF blk = d.place.dir THEN says.room ELSE @,
            !.lost = @ \/ blk \in d.place.path]

(***************************************************************************)
(* Opening.                                                                *)
(***************************************************************************)
Init ==
    /\ disk \in Images
    /\ fs = [desc |-> disk.desc, sb |-> disk.sb]
    /\ request = NoRequest /\ answer = "none"
    /\ op = Nowhere
    /\ faults = 0

Ask ==
    /\ request = NoRequest
    /\ request' \in Requests
    /\ answer' = "none"
    /\ GoTo("lookup")
    /\ UNCHANGED <<disk, fs, faults>>

(* The superblock checksum the code computes ends with an inversion that   *)
(* the format does not have: a filesystem with metadata_csum is refused.   *)
(* So is one whose superblock or directory is gone.                        *)
Opens == ~disk.metadata_csum /\ ~disk.lost

CreateFile ==
    /\ At("lookup") /\ request.kind = "create"
    /\ fs' = [desc |-> disk.desc, sb |-> disk.sb]
    /\ IF Opens /\ Entry = 0
       THEN GoTo("inode_bitmap") /\ UNCHANGED <<request, answer>>
       ELSE Refuse
    /\ UNCHANGED <<disk, faults>>

(* From here the request goes by the inode it has read.                    *)
BeginRewrite == op' = [op EXCEPT !.step = "blocks", !.ino = Entry, !.file = File]

\* Variant: no check against the blocks the file has.
OverwriteFileUnmeasured ==
    /\ At("lookup") /\ request.kind = "overwrite"
    /\ fs' = [desc |-> disk.desc, sb |-> disk.sb]
    /\ IF Opens /\ Entry # 0 /\ File.extents
       THEN BeginRewrite /\ UNCHANGED <<request, answer>>
       ELSE Refuse
    /\ UNCHANGED <<disk, faults>>

OverwriteFile ==
    /\ At("lookup") /\ request.kind = "overwrite"
    /\ fs' = [desc |-> disk.desc, sb |-> disk.sb]
    /\ IF Opens /\ Entry # 0 /\ File.extents /\ request.size <= Reach(File) * BlockSize
       THEN BeginRewrite /\ UNCHANGED <<request, answer>>
       ELSE Refuse
    /\ UNCHANGED <<disk, faults>>

(***************************************************************************)
(* Allocation: the directory's group first, then the groups behind it.     *)
(***************************************************************************)
Distance(g) == (g + NumGroups - disk.home) % NumGroups

FreeInodes(g) == {b \in InodeBits \ disk.inode_bitmap[g] :
                      g = 0 => b >= FirstUsableBit}
FreeBlocks(g) == BlockBits \ disk.block_bitmap[g]

(* The first group, of those whose count in memory is not 0, with a free   *)
(* bit, and the first free bit of it.                                      *)
FirstFree(Free(_), count, g, b) ==
    /\ fs.desc[g][count] # 0 /\ b \in Free(g)
    /\ \A c \in Free(g) : b <= c
    /\ \A h \in Groups : Distance(h) < Distance(g) =>
                            fs.desc[h][count] = 0 \/ Free(h) = {}

NoneFree(Free(_), count) ==
    \A g \in Groups : fs.desc[g][count] = 0 \/ Free(g) = {}

AllocInode ==
    /\ At("inode_bitmap")
    /\ \/ \E g \in Groups, b \in InodeBits :
              /\ FirstFree(FreeInodes, "free_inodes", g, b)
              /\ disk' = [disk EXCEPT !.inode_bitmap[g] = @ \cup {b}]
              /\ op' = [op EXCEPT !.step = "inode_desc", !.group = g,
                                  !.ino = InodeNumber(g, b)]
              /\ UNCHANGED <<request, answer>>
       \/ /\ NoneFree(FreeInodes, "free_inodes")
          /\ Refuse
          /\ UNCHANGED disk
    /\ UNCHANGED <<fs, faults>>

\* Variant: the first data block is forgotten.
AllocBlockFromZero ==
    /\ At("block_bitmap")
    /\ \/ \E g \in Groups, b \in BlockBits :
              /\ FirstFree(FreeBlocks, "free_blocks", g, b)
              /\ disk' = [disk EXCEPT !.block_bitmap[g] = @ \cup {b}]
              /\ op' = [op EXCEPT !.step = "block_desc", !.group = g,
                                  !.blk = g * BlocksPerGroup + b]
              /\ UNCHANGED <<request, answer>>
       \/ NoneFree(FreeBlocks, "free_blocks") /\ Refuse /\ UNCHANGED disk
    /\ UNCHANGED <<fs, faults>>

AllocBlock ==
    /\ At("block_bitmap")
    /\ \/ \E g \in Groups, b \in BlockBits :
              /\ FirstFree(FreeBlocks, "free_blocks", g, b)
              /\ disk' = [disk EXCEPT !.block_bitmap[g] = @ \cup {b}]
              /\ op' = [op EXCEPT !.step = "block_desc", !.group = g,
                                  !.blk = BlockNumber(g, b)]
              /\ UNCHANGED <<request, answer>>
       \/ /\ NoneFree(FreeBlocks, "free_blocks")
          /\ Refuse
          /\ UNCHANGED disk
    /\ UNCHANGED <<fs, faults>>

(* The descriptor takes both counts from memory, whichever of them changed.*)
\* Variant: the descriptor is written before the count is lowered.
UpdateGdInodeAllocLate ==
    /\ At("inode_desc")
    /\ fs' = [fs EXCEPT !.desc[op.group].free_inodes = Less(@),
                        !.sb.free_inodes = Less(@)]
    /\ disk' = [disk EXCEPT !.desc[op.group] = fs.desc[op.group]]
    /\ GoTo("inode_sb")
    /\ UNCHANGED <<request, answer, faults>>

UpdateGdInodeAlloc ==
    /\ At("inode_desc")
    /\ fs' = [fs EXCEPT !.desc[op.group].free_inodes = Less(@),
                        !.sb.free_inodes = Less(@)]
    /\ disk' = [disk EXCEPT !.desc[op.group] = fs'.desc[op.group]]
    /\ GoTo("inode_sb")
    /\ UNCHANGED <<request, answer, faults>>

UpdateGdBlockAlloc ==
    /\ At("block_desc")
    /\ fs' = [fs EXCEPT !.desc[op.group].free_blocks = Less(@),
                        !.sb.free_blocks = Less(@)]
    /\ disk' = [disk EXCEPT !.desc[op.group] = fs'.desc[op.group]]
    /\ GoTo("block_sb")
    /\ UNCHANGED <<request, answer, faults>>

(* After the inode's superblock write: data of more than a block is        *)
(* refused here, with the inode already taken.                             *)
WriteSuperblockFreeCounts ==
    /\ op.step \in {"inode_sb", "block_sb"}
    /\ disk' = [disk EXCEPT !.sb = fs.sb]
    /\ IF At("inode_sb") /\ request.size > BlockSize
       THEN Refuse
       ELSE /\ GoTo(IF At("inode_sb") /\ request.data # <<>>
                    THEN "block_bitmap" ELSE "inode")
            /\ UNCHANGED <<request, answer>>
    /\ UNCHANGED <<fs, faults>>

(***************************************************************************)
(* The rest of a create: inode, data, directory entry.                     *)
(***************************************************************************)
InitNewInode ==
    [size |-> request.size,
     blocks |-> IF request.data = <<>> THEN <<>> ELSE <<op.blk>>,
     extents |-> TRUE, unwritten |-> FALSE]

\* Variant: the name is entered before the data is written.
WriteInodeAndName ==
    /\ At("inode")
    /\ disk' = [disk EXCEPT !.inodes[op.ino] = InitNewInode]
    /\ GoTo("entry")
    /\ UNCHANGED <<fs, request, answer, faults>>

WriteInode ==
    /\ At("inode")
    /\ disk' = [disk EXCEPT !.inodes[op.ino] = InitNewInode]
    /\ GoTo(IF request.data = <<>> THEN "entry" ELSE "data")
    /\ UNCHANGED <<fs, request, answer, faults>>

WriteData ==
    /\ At("data")
    /\ IF op.blk \in Blocks
       THEN /\ disk' = Overwritten(disk, op.blk, request.data[1])
            /\ GoTo("entry")
            /\ UNCHANGED <<request, answer>>
       ELSE Refuse /\ UNCHANGED disk
    /\ UNCHANGED <<fs, faults>>

\* Variant: the slack of the last entry is not checked.
AddDirEntryUnmeasured ==
    /\ At("entry")
    /\ disk' = [disk EXCEPT !.dir[request.name] = op.ino, !.room = @ - 1]
    /\ GoTo("answer")
    /\ UNCHANGED <<fs, request, answer, faults>>

(* The directory's own inode, written after its block, only takes a time:  *)
(* that write is the step "answer".                                        *)
AddDirEntry ==
    /\ At("entry")
    /\ IF disk.room > 0
       THEN /\ disk' = [disk EXCEPT !.dir[request.name] = op.ino, !.room = @ - 1]
            /\ GoTo("answer")
            /\ UNCHANGED <<request, answer>>
       ELSE Refuse /\ UNCHANGED disk
    /\ UNCHANGED <<fs, faults>>

(***************************************************************************)
(* An overwrite: every block the extents name, then the size.              *)
(***************************************************************************)
OverwriteBlock ==
    /\ At("blocks") /\ op.at < Reach(op.file)
    /\ LET blk == Visited(op.file, op.at + 1) IN
       IF blk \in Blocks
       THEN /\ disk' = Overwritten(disk, blk, Piece(op.at + 1))
            /\ op' = [op EXCEPT !.at = @ + 1]
            /\ UNCHANGED <<request, answer>>
       ELSE Refuse /\ UNCHANGED disk
    /\ UNCHANGED <<fs, faults>>

UpdateInodeSize ==
    /\ At("blocks") /\ op.at = Reach(op.file)
    /\ disk' = [disk EXCEPT !.inodes[op.ino].size =
                    IF request.size = op.file.size THEN @ ELSE request.size]
    /\ GoTo("answer")
    /\ UNCHANGED <<fs, request, answer, faults>>

(***************************************************************************)
(* The end of a request.                                                   *)
(***************************************************************************)
Succeed ==
    /\ At("answer")
    /\ answer' = "ok" /\ request' = NoRequest
    /\ op' = Nowhere
    /\ UNCHANGED <<disk, fs, faults>>

CutOff ==
    /\ ~At("idle") /\ faults < MaxFaults
    /\ Refuse
    /\ faults' = faults + 1
    /\ UNCHANGED <<disk, fs>>

Next ==
    \/ Ask \/ CreateFile \/ OverwriteFile
    \/ AllocInode \/ AllocBlock
    \/ UpdateGdInodeAlloc \/ UpdateGdBlockAlloc \/ WriteSuperblockFreeCounts
    \/ WriteInode \/ WriteData \/ AddDirEntry
    \/ OverwriteBlock \/ UpdateInodeSize
    \/ Succeed \/ CutOff

Spec == Init /\ [][Next]_vars

(***************************************************************************)
(* Properties.                                                             *)
(***************************************************************************)
(* Every variable has its type: the counters never leave the naturals, no  *)
(* write leaves the card.                                                  *)
TypeOK ==
    /\ disk \in Disk
    /\ fs \in [desc : [Groups -> Counts], sb : Counts]
    /\ request \in Requests \cup {NoRequest}
    /\ answer \in {"none", "ok", "error"}
    /\ op \in Op
    /\ faults \in 0..MaxFaults

Present(d, n) == d.dir[n] # 0
InodeOf(d, n) == d.inodes[d.dir[n]]
BlocksOf(d, n) == {InodeOf(d, n).blocks[i] : i \in DOMAIN InodeOf(d, n).blocks}

InodeTaken(d, ino) ==
    \E g \in Groups : \E b \in d.inode_bitmap[g] : ino = InodeNumber(g, b)
BlockTaken(d, blk) ==
    \E g \in Groups : \E b \in d.block_bitmap[g] : blk = BlockNumber(g, b)

Whole(d) ==
    \A n \in Names : Present(d, n) =>
        /\ InodeTaken(d, d.dir[n])
        /\ \A blk \in BlocksOf(d, n) : BlockTaken(d, blk)
        /\ InodeOf(d, n).size <= Reach(InodeOf(d, n)) * BlockSize

Unshared(d) ==
    \A n \in Names : Present(d, n) =>
        /\ BlocksOf(d, n) \cap d.system = {}
        /\ \A m \in Names \ {n} : Present(d, m) =>
              /\ d.dir[m] # d.dir[n]
              /\ BlocksOf(d, m) \cap BlocksOf(d, n) = {}

(* What the filesystem keeps, it keeps in blocks of its own.               *)
Placed(d) ==
    /\ \A g \in Groups : /\ d.place.inode_bitmap[g] \cup d.place.block_bitmap[g] \subseteq d.system
                         /\ d.place.desc[g] \in d.system
    /\ \A i \in Inos : d.place.inode[i] \subseteq d.system
    /\ d.place.dir \in d.system /\ d.place.path \subseteq d.system

(* A filesystem an image may start from: besides the above, no file has a  *)
(* block twice, and what its bitmap shows free is on the card and of no use*)
(* to the filesystem itself.                                               *)
Sound(d) ==
    /\ Whole(d)
    /\ Unshared(d)
    /\ \A n \in Names : Present(d, n) =>
          \A i, j \in DOMAIN InodeOf(d, n).blocks :
              InodeOf(d, n).blocks[i] = InodeOf(d, n).blocks[j] => i = j
    /\ \A g \in Groups : \A b \in BlockBits \ d.block_bitmap[g] :
          BlockNumber(g, b) \in Blocks \ d.system
    /\ Placed(d)

ASSUME ImagesAssumption == \A d \in Images : d \in Disk /\ Sound(d)

(* At every moment, also after a request was cut off anywhere: an entry    *)
(* names an inode marked as taken, all its blocks are marked as taken, and *)
(* its size fits them.  No entry can lead to what a later create is given. *)
EntriesWhole == Whole(disk)

(* No two entries share an inode or a block, and no file has a block of    *)
(* the filesystem's own, however creates were cut off and repeated.        *)
NothingShared == Unshared(disk)

FreeCounts(g) == [free_inodes |-> Cardinality(InodeBits \ disk.inode_bitmap[g]),
                  free_blocks |-> Cardinality(FreeBlocks(g))]
Pending(step, g) == IF op.step = step /\ op.group = g THEN 1 ELSE 0

(* The counts on the card never hide free space (the allocator skips a     *)
(* group whose count is 0), and promise more than there is only by what    *)
(* requests cut off, or still running, have taken.                         *)
CountsTrue ==
    \A g \in Groups :
        /\ disk.desc[g].free_inodes - FreeCounts(g).free_inodes
               \in 0..(faults + Pending("inode_desc", g))
        /\ disk.desc[g].free_blocks - FreeCounts(g).free_blocks
               \in 0..(faults + Pending("block_desc", g))

FileAt(d, n) ==
    [size |-> InodeOf(d, n).size,
     content |-> [i \in DOMAIN InodeOf(d, n).blocks |->
                     d.data[InodeOf(d, n).blocks[i]]]]

(* An overwrite or a create, finished or not, changes no other file: not   *)
(* its size, not one of its blocks.                                        *)
OnlyNamedFileChanges ==
    [][\A n \in Names :
           Present(disk, n) /\ (request = NoRequest \/ request.name # n) =>
               Present(disk', n) /\ FileAt(disk', n) = FileAt(disk, n)]_vars

Files(d) == [n \in {m \in Names : Present(d, m)} |-> FileAt(d, n)]

(* The requests implement the store: a create appears whole, with the      *)
(* entry's write, or not at all; "ok" is only told of a file that holds    *)
(* what was asked.                                                         *)
Store == INSTANCE FileStore WITH files <- Files(disk)
ImplementsStore == Store!StoreSpec
=============================================================================
