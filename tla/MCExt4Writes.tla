---------------------------- MODULE MCExt4Writes ----------------------------
(***************************************************************************)
(* Small filesystems: two groups of 13 inodes and 8 blocks of 1024 bytes,  *)
(* blocks 1 to 16, the last group cut short by the end of the card.        *)
(***************************************************************************)
EXTENDS Ext4Writes

(* The superblock is block 1 and the descriptors block 2; the bitmaps of   *)
(* group 0 are blocks 3 and 4, those of group 1 blocks 9 and 10; the inodes*)
(* are in blocks 13 and 15, that of the directory among the first; block   *)
(* 16 holds its entries.                                                   *)
Layout == [block_bitmap |-> [g \in Groups |-> {2, 3 + 6 * g}],
           inode_bitmap |-> [g \in Groups |-> {2, 4 + 6 * g}],
           desc |-> [g \in Groups |-> 2],
           inode |-> [i \in Inos |-> {2, IF i <= InodesPerGroup THEN 13 ELSE 15}],
           dir |-> 16,
           path |-> {1, 2, 13}]

(* A filesystem with two files: a has two blocks in group 0, b one block   *)
(* in group 1; inodes and blocks are the free bits of each group.          *)
Filesystem(home, freeInodes, freeBlocks, room, csum, unwritten) ==
    LET ib == [g \in Groups |-> InodeBits \ freeInodes[g + 1]]
        bb == [g \in Groups |-> BlockBits \ freeBlocks[g + 1]]
        counts == [g \in Groups |->
                      [free_blocks |-> Cardinality(freeBlocks[g + 1]),
                       free_inodes |-> Cardinality(freeInodes[g + 1])]]
    IN [inode_bitmap |-> ib, block_bitmap |-> bb, desc |-> counts,
        sb |-> [free_blocks |-> counts[0].free_blocks + counts[1].free_blocks,
                free_inodes |-> counts[0].free_inodes + counts[1].free_inodes],
        inodes |-> [i \in Inos |->
                       IF i = 12 THEN [size |-> 1500, blocks |-> <<5, 6>>,
                                       extents |-> TRUE, unwritten |-> unwritten]
                       ELSE IF i = 14 THEN [size |-> 700, blocks |-> <<11>>,
                                            extents |-> TRUE, unwritten |-> FALSE]
                       ELSE NoInode],
        dir |-> [n \in Names |-> IF n = "a" THEN 12 ELSE IF n = "b" THEN 14 ELSE 0],
        room |-> room,
        data |-> [b \in Blocks |-> IF b \in {5, 6, 11} THEN "old" ELSE "zero"],
        home |-> home,
        system |-> 0..4 \cup {9, 10, 13, 15, 16},
        place |-> Layout,
        lost |-> FALSE,
        metadata_csum |-> csum]

(* Roomy; a group with one inode left; the directory in the second group,  *)
(* without blocks; no blocks at all; a full directory; one with checksums. *)
SoundFilesystems ==
    {Filesystem(0, <<{12}, {4, 6}>>, <<{6}, {3, 5}>>, 2, FALSE, FALSE),
     Filesystem(1, <<{}, {7}>>, <<{6, 7}, {}>>, 2, FALSE, FALSE),
     Filesystem(0, <<{12}, {4}>>, <<{}, {}>>, 2, FALSE, FALSE),
     Filesystem(1, <<{12}, {3}>>, <<{6}, {3}>>, 1, FALSE, FALSE),
     Filesystem(0, <<{12}, {4}>>, <<{6}, {3}>>, 2, TRUE, FALSE)}

(* File a's last extent is reserved and not written, as fallocate leaves it.*)
PreallocatedFilesystem ==
    {Filesystem(0, <<{12}, {4, 6}>>, <<{6}, {3, 5}>>, 2, FALSE, TRUE)}

Create(n, data, size) == [kind |-> "create", name |-> n, data |-> data, size |-> size]
Overwrite(n, data, size) == [kind |-> "overwrite", name |-> n, data |-> data, size |-> size]

AllNames == {"a", "b", "c", "d"}
AllTags == {"zero", "old", "x", "y"}
(* Zeros say that nothing is taken and nothing is there, x that all is     *)
(* taken, the others something in between.                                 *)
Readings ==
    [t \in AllTags |->
        [inode_bits |-> CASE t = "zero" -> {} [] t = "x" -> InodeBits [] OTHER -> {0, 3, 12},
         block_bits |-> CASE t = "zero" -> {} [] t = "x" -> BlockBits [] OTHER -> {0, 6},
         counts |-> IF t = "zero" THEN NoCounts ELSE [free_blocks |-> 3, free_inodes |-> 5],
         inode |-> NoInode,
         dir |-> [n \in AllNames |-> 0],
         room |-> 0]]
AllRequests ==
    {Create("c", <<"x">>, 300), Create("d", <<>>, 0), Create("d", <<"y">>, 1024),
     Create("c", <<"x", "y">>, 1100), Create("a", <<"x">>, 300),
     Overwrite("a", <<"x">>, 300), Overwrite("a", <<"x", "y">>, 1500),
     Overwrite("a", <<"x", "y", "x">>, 3000), Overwrite("b", <<"y">>, 700),
     Overwrite("c", <<"y">>, 200), Overwrite("d", <<>>, 0)}
=============================================================================
