------------------------------ MODULE EmmcCard ------------------------------
(***************************************************************************)
(* The eMMC device on the other side of the CMD and DAT lines.  It is not  *)
(* part of the repository: this is the card the controller is written for, *)
(* reduced to what EmmcController relies on.  The card is a record:        *)
(*   xfer       "off" until initialised, then "tran" (idle), "data" (sends *)
(*              blocks) or "rcv" (waits for blocks)                        *)
(*   open       the transfer is open ended and needs CMD12                 *)
(*   quota      CMD23 announced a block for the next CMD18 or CMD25        *)
(*   base       first address of the current or last transfer              *)
(*   blk        blocks moved in the current or last transfer               *)
(*   stored     the blocks received in the current or last write           *)
(*   idle       clock edges since the last block, up to CardGap            *)
(*   width4     the DAT bus is 4 bits wide                                 *)
(*   partition  the accessed hardware partition                            *)
(*   errPending the next R1 response carries an error bit of the past      *)
(*   stuck      DAT0 stays low past every timeout                          *)
(* Operators map a card to the card after one command or one block.        *)
(***************************************************************************)
EXTENDS Naturals, Sequences

CONSTANT LbaSpace       \* addresses wrap at this value (2^32 in the code)

PoweredCard == [xfer |-> "off", open |-> FALSE, quota |-> FALSE, base |-> 0, blk |-> 0,
                stored |-> <<>>, idle |-> 0, width4 |-> FALSE, partition |-> 0,
                errPending |-> FALSE, stuck |-> FALSE]

\* CMD0 and the identification sequence put the card in its reset state.
InitialisedCard == [PoweredCard EXCEPT !.xfer = "tran"]

\* Commands a card accepts only while no transfer is in progress.
TranOnly == {6, 8, 17, 18, 23, 24, 25, 35, 36, 38}

Legal(card, index) ==
    /\ card.xfer # "off" \/ index = 0
    /\ index = 12 => card.xfer \in {"data", "rcv"}
    /\ index \in TranOnly => card.xfer = "tran"

\* Commands after which the card may hold DAT0 low.
BusyIndexes == {6, 12, 38}

\* ExtCSD bytes whose value the controller depends on.
PARTITION_CONFIG == 179
BUS_WIDTH == 183

\* What a byte of a block holds: the address of its sector, or one of these.
BlankByte == LbaSpace
ExtCsdByte == LbaSpace + 1
SectorByte(card) ==
    IF card.base = ExtCsdByte THEN ExtCsdByte ELSE (card.base + card.blk) % LbaSpace

Transfer(card, direction, first, isOpen) ==
    [card EXCEPT !.xfer = direction, !.base = first, !.open = isOpen, !.blk = 0,
                 !.stored = <<>>, !.idle = 0]

\* A legal command executed: transfers start and stop, SWITCH takes effect.
Executed(card, index, arg) ==
    LET c == [card EXCEPT !.errPending = FALSE, !.stuck = FALSE, !.quota = index = 23]
    IN  CASE index = 0  -> PoweredCard
          [] index = 8  -> Transfer(c, "data", ExtCsdByte, FALSE)
          [] index \in {17, 18} -> Transfer(c, "data", arg.value, index = 18 /\ ~card.quota)
          [] index \in {24, 25} -> Transfer(c, "rcv", arg.value, index = 25 /\ ~card.quota)
          [] index = 12 -> [c EXCEPT !.xfer = "tran", !.blk = 0, !.idle = 0]
          [] index = 6  -> [c EXCEPT
                !.partition = IF arg.index = PARTITION_CONFIG THEN arg.value ELSE @,
                !.width4    = IF arg.index = BUS_WIDTH THEN arg.value = 1 ELSE @]
          [] OTHER -> c

\* An illegal or corrupted command is not answered; the next R1 reports it.
Rejected(card) == IF card.xfer = "off" THEN card
                  ELSE [card EXCEPT !.errPending = TRUE, !.stuck = FALSE]

\* One data block sent or taken; a transfer that is not open ends by itself.
BlockMoved(card) ==
    IF card.open THEN [card EXCEPT !.blk = (@ + 1) % LbaSpace, !.idle = 0]
                 ELSE [card EXCEPT !.xfer = "tran", !.blk = 0, !.idle = 0]

BlockStored(card, block) == [BlockMoved(card) EXCEPT !.stored = Append(@, block)]

\* A card that has a block to send waits only this many edges of the FPGA
\* clock before it sends it, whether somebody listens or not.
CardGap == 4
Waits(card) == IF card.xfer # "data" THEN card
               ELSE IF card.idle < CardGap THEN [card EXCEPT !.idle = @ + 1]
               ELSE BlockMoved(card)
=============================================================================
