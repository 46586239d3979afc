--------------------------- MODULE EmmcController ---------------------------
(***************************************************************************)
(* The eMMC host controller (hw/spinal/emmcreader/EmmcController.scala):   *)
(* the 26-state command FSM, its registers, the read ping-pong buffer and  *)
(* the write FIFO.  One step of CtlEdge is one edge of the 60 MHz clock:   *)
(* every register takes its next value from the values before the edge.    *)
(* The CMD, DAT and init engines are separate processes reduced here to    *)
(* their start/done handshake; how long they take, and how they fail, is   *)
(* nondeterministic.  A definition under the heading "Variant" is not part *)
(* of the model: it is a plausible mistake in the definition that follows, *)
(* kept to show that the properties tell the two apart.                    *)
(***************************************************************************)
EXTENDS EmmcCard, Integers

CONSTANTS
    FifoBanks,      \* banks of the write FIFO, and the largest write (16 in the code)
    SectorBytes,    \* bytes of a sector (512 in the code)
    MaxFaults,      \* bound on the faults of one behaviour
    UartMayStall,   \* the UART side may stop for longer than the 280 ms watchdog
    CmdFaults,      \* what may go wrong with a command, see CmdFault
    DatFaults,      \* TRUE: a block's CRC may fail
    InitFaults      \* TRUE: the card may fail to initialise

ASSUME ControllerAssumption ==
    /\ FifoBanks \in Nat /\ FifoBanks % 2 = 0 /\ FifoBanks > 0
    /\ SectorBytes \in Nat \ {0}
    /\ LbaSpace \in Nat \ {0}
    /\ MaxFaults \in Nat
    /\ UartMayStall \in BOOLEAN
    /\ CmdFaults \subseteq {"lost", "crc", "device", "busy"}
    /\ {DatFaults, InitFaults} \subseteq BOOLEAN

VARIABLES
    ctl,    \* the controller's registers
    cmd,    \* the EmmcCmd engine
    dat,    \* the EmmcDat engine
    ini,    \* the EmmcInit engine
    rdBuf,  \* uSectorBuf: two banks filled by the card, read by the UART side
    wrBuf,  \* uWriteBuf: FifoBanks banks filled by the UART side, sent to the card
    card,   \* the device
    faults, \* how many faults have happened
    port,   \* the UART bridge's command and write registers
    rdSectorAck \* the UART bridge takes the staged read sector

ctlVars == <<ctl, cmd, dat, ini, rdBuf, wrBuf, card, faults>>

-----------------------------------------------------------------------------
(* Registers and their values after reset. *)

\* States in which the FSM waits for the command engine.
CmdStates == {"READ_CMD", "WRITE_CMD", "STOP_CMD", "EXT_CSD_CMD", "SWITCH_CMD",
              "SWITCH_STATUS", "ERASE_START", "ERASE_END", "ERASE_CMD", "STATUS_CMD",
              "RPMB_CMD23", "RAW_CMD", "ERROR_STOP"}
DatStates == {"READ_DAT", "WRITE_DAT", "EXT_CSD_DAT"}
BusyStates == {"STOP_WAIT", "SWITCH_WAIT", "RAW_WAIT"}
McStates == CmdStates \union DatStates \union BusyStates \union
            {"IDLE", "INIT", "READY", "READ_DONE", "WRITE_DONE", "RPMB_FIFO_WAIT", "ERROR"}

\* A command's argument: an address or count, or the byte a SWITCH writes.
Plain(v) == [index |-> 0, value |-> v]
SwitchTo(i, v) == [index |-> i, value |-> v]

ResetRegisters ==
    [mcState |-> "IDLE", isInitMode |-> TRUE, reinitPending |-> FALSE, bootRetryCnt |-> 0,
     sectorsLeft |-> 0, useMultiBlock |-> FALSE, isReadOp |-> FALSE, forceMultiBlock |-> FALSE,
     eraseEndLba |-> 0, eraseSecure |-> FALSE, rawCheckBusy |-> FALSE,
     switchNeedsVerify |-> FALSE, currentPartition |-> 0,
     busWidth4 |-> FALSE, busWidthSwitchPending |-> FALSE, busWidthTarget |-> FALSE,
     useFastClk |-> FALSE, currentClkPreset |-> 0, clkPause |-> FALSE,
     emmcBank |-> 0, uartRdBank |-> 0, uartRdBankNext |-> 0,
     currentLba |-> 0, cmdIndex |-> 0, cmdArg |-> Plain(0), cmdRespExp |-> FALSE,
     cmdStart |-> FALSE,
     initStart |-> FALSE, datRdStart |-> FALSE, datWrStart |-> FALSE,
     cmdReady |-> FALSE, respStatus |-> "OK", respValid |-> FALSE,
     rdSectorReady |-> FALSE, wrSectorAck |-> FALSE,
     cmdValidD |-> FALSE, wrSectorValidD |-> FALSE]

CtlInit ==
    /\ ctl = ResetRegisters
    /\ cmd = [busy |-> FALSE, index |-> 0, arg |-> Plain(0), respExp |-> FALSE,
              done |-> FALSE, error |-> FALSE, device |-> FALSE]
    /\ dat = [st |-> "idle", pos |-> 0, block |-> <<>>, done |-> FALSE, crcErr |-> FALSE]
    /\ ini = [st |-> "idle", startR |-> FALSE, done |-> FALSE, error |-> FALSE,
              useFastClk |-> FALSE]
    /\ rdBuf = [b \in 0..1 |-> [i \in 0..SectorBytes - 1 |-> BlankByte]]
    /\ wrBuf = [b \in 0..FifoBanks - 1 |-> [i \in 0..SectorBytes - 1 |-> BlankByte]]
    /\ card = PoweredCard
    /\ faults = 0

-----------------------------------------------------------------------------
(* What every edge does before the FSM speaks: pulses fall, the read-sector *)
(* handshake advances, the UART side's signals are delayed by one cycle.    *)

Cleared ==
    [ctl EXCEPT !.initStart = FALSE, !.datRdStart = FALSE, !.datWrStart = FALSE,
                !.cmdStart = FALSE, !.respValid = FALSE, !.wrSectorAck = FALSE,
                !.rdSectorReady = @ /\ ~rdSectorAck,
                !.uartRdBank = IF rdSectorAck THEN ctl.uartRdBankNext ELSE @,
                !.cmdValidD = port.cmdValid,
                !.wrSectorValidD = port.wrSectorValid]

Go(s) == ctl' = [Cleared EXCEPT !.mcState = s]

\* Answer the UART side and accept the next command.
Answered(regs, status) ==
    [regs EXCEPT !.respStatus = status, !.respValid = TRUE, !.cmdReady = TRUE,
                 !.mcState = "READY"]

Failed(regs) == [regs EXCEPT !.respStatus = "EMMC_ERR", !.mcState = "ERROR"]

NextCmd(regs, index, arg, s) ==
    [regs EXCEPT !.cmdIndex = index, !.cmdArg = arg, !.cmdRespExp = TRUE, !.mcState = s]

\* R1 error bits count only where the code looks at deviceStatusErr.
deviceStatusErr == cmd.device

-----------------------------------------------------------------------------
(* Initialisation. *)

StartInit ==
    /\ ctl.mcState = "IDLE"
    /\ ctl' = [Cleared EXCEPT !.isInitMode = TRUE, !.initStart = TRUE, !.mcState = "INIT"]

AwaitInit ==
    /\ ctl.mcState = "INIT" /\ ~ini.done /\ ~ini.error
    /\ ctl' = [Cleared EXCEPT !.useFastClk = ini.useFastClk]

FinishInit ==
    /\ ctl.mcState = "INIT" /\ ini.done
    /\ LET c == [Cleared EXCEPT !.useFastClk = ini.useFastClk, !.isInitMode = FALSE,
                                !.cmdReady = TRUE, !.mcState = "READY",
                                !.reinitPending = FALSE]
       IN  ctl' = IF ctl.reinitPending THEN Answered(c, "OK") ELSE c

\* Variant: one retry too few.
bootRetryLeftLess == ctl.bootRetryCnt < 2

bootRetryLeft == ctl.bootRetryCnt < 3

\* A failed REINIT is answered; a failed boot is tried three more times.
FailInit ==
    /\ ctl.mcState = "INIT" /\ ~ini.done /\ ini.error
    /\ LET c == [Cleared EXCEPT !.useFastClk = ini.useFastClk]
       IN  ctl' = IF ctl.reinitPending
                  THEN [Answered(c, "EMMC_ERR") EXCEPT !.reinitPending = FALSE]
                  ELSE IF bootRetryLeft
                       THEN [c EXCEPT !.bootRetryCnt = @ + 1, !.mcState = "IDLE"]
                       ELSE [c EXCEPT !.mcState = "ERROR"]

-----------------------------------------------------------------------------
(* MC_READY: the dispatch of a command. *)

\* preCmdIndex and preCmdArgument: the eMMC command a request translates to.
preCmdIndex ==
    LET multi == port.cmdCount > 1 \/ ctl.forceMultiBlock
    IN  CASE port.cmdId = "READ_SECTOR"  -> IF multi THEN 18 ELSE 17
          [] port.cmdId = "WRITE_SECTOR" -> IF multi THEN 25 ELSE 24
          [] port.cmdId \in {"ERASE", "SECURE_ERASE"} -> 35
          [] port.cmdId = "GET_EXT_CSD"  -> 8
          [] port.cmdId \in {"SET_PARTITION", "WRITE_EXT_CSD", "SET_BUS_WIDTH"} -> 6
          [] port.cmdId = "GET_CARD_STATUS" -> 13
          [] port.cmdId = "SEND_RAW" -> port.cmdCount
          [] OTHER -> 0

\* For SWITCH the request's value travels in the LBA register.
preCmdArgument ==
    CASE port.cmdId = "SET_PARTITION" -> SwitchTo(PARTITION_CONFIG, port.cmdLba)
      [] port.cmdId = "SET_BUS_WIDTH" -> SwitchTo(BUS_WIDTH, port.cmdLba % 2)
      [] port.cmdId = "WRITE_EXT_CSD" -> SwitchTo(port.cmdLba \div 256, port.cmdLba % 256)
      [] port.cmdId \in {"READ_SECTOR", "WRITE_SECTOR", "ERASE", "SECURE_ERASE", "SEND_RAW"} ->
            Plain(port.cmdLba)
      [] OTHER -> Plain(0)

\* The registers as loaded when a command is taken.
Loaded ==
    [Cleared EXCEPT !.cmdReady = FALSE, !.cmdIndex = preCmdIndex, !.cmdArg = preCmdArgument,
                    !.cmdRespExp = IF port.cmdId = "SEND_RAW" THEN port.rawResp
                                                               ELSE preCmdIndex # 0]

Dispatch(ids) == ctl.mcState = "READY" /\ ctl.cmdValidD /\ port.cmdId \in ids

CountedIds == {"READ_SECTOR", "WRITE_SECTOR", "ERASE", "SECURE_ERASE"}
KnownIds == CountedIds \union
    {"GET_EXT_CSD", "SET_PARTITION", "WRITE_EXT_CSD", "GET_CARD_STATUS", "REINIT",
     "SET_CLK_DIV", "SET_RPMB_MODE", "SET_BUS_WIDTH", "SEND_RAW"}

countIsZero == port.cmdId \in CountedIds /\ port.cmdCount = 0

AwaitCommand == ctl.mcState = "READY" /\ ~ctl.cmdValidD /\ Go("READY")

RejectCommand ==
    /\ ctl.mcState = "READY" /\ ctl.cmdValidD
    /\ \/ countIsZero
       \/ port.cmdId = "WRITE_SECTOR" /\ port.cmdCount > FifoBanks
       \/ port.cmdId = "SET_CLK_DIV" /\ port.cmdLba > 6
       \/ port.cmdId \notin KnownIds
    /\ ctl' = Answered(Loaded, "CMD_ERR")

AcceptRead ==
    /\ Dispatch({"READ_SECTOR"}) /\ ~countIsZero
    /\ ctl' = [Loaded EXCEPT !.currentLba = port.cmdLba, !.sectorsLeft = port.cmdCount,
                             !.isReadOp = TRUE,
                             !.useMultiBlock = port.cmdCount > 1 \/ ctl.forceMultiBlock,
                             !.mcState = IF ctl.forceMultiBlock THEN "RPMB_CMD23"
                                                                ELSE "READ_CMD"]

DispatchWrite == Dispatch({"WRITE_SECTOR"}) /\ ~countIsZero /\ port.cmdCount <= FifoBanks
LoadedWrite ==
    [Loaded EXCEPT !.currentLba = port.cmdLba, !.sectorsLeft = port.cmdCount,
                   !.isReadOp = FALSE, !.emmcBank = 0,
                   !.useMultiBlock = port.cmdCount > 1 \/ ctl.forceMultiBlock]

\* Variant: the first sector-valid is left for the second sector to use.
AcceptWriteUnacked ==
    /\ DispatchWrite
    /\ ctl' = [LoadedWrite EXCEPT !.mcState = IF ctl.forceMultiBlock THEN "RPMB_CMD23"
                                              ELSE IF ctl.wrSectorValidD THEN "WRITE_CMD" ELSE @]

\* Variant: RPMB mode without CMD23.
AcceptWriteUncounted == DispatchWrite /\ ctl' = [LoadedWrite EXCEPT !.mcState = "WRITE_CMD"]

\* A write starts in bank 0.  Outside RPMB mode it consumes the sector-valid
\* that came with the command; in RPMB mode it does not.
AcceptWrite ==
    /\ DispatchWrite
    /\ ctl' = IF ctl.forceMultiBlock THEN [LoadedWrite EXCEPT !.mcState = "RPMB_CMD23"]
              ELSE IF ctl.wrSectorValidD
                   THEN [LoadedWrite EXCEPT !.wrSectorAck = TRUE, !.mcState = "WRITE_CMD"]
                   ELSE LoadedWrite

AcceptErase ==
    /\ Dispatch({"ERASE", "SECURE_ERASE"}) /\ ~countIsZero
    /\ ctl' = [Loaded EXCEPT !.currentLba = port.cmdLba, !.sectorsLeft = port.cmdCount,
                             !.eraseSecure = port.cmdId = "SECURE_ERASE",
                             !.eraseEndLba = (port.cmdLba + port.cmdCount - 1) % LbaSpace,
                             !.mcState = "ERASE_START"]

AcceptExtCsd == Dispatch({"GET_EXT_CSD"}) /\ ctl' = [Loaded EXCEPT !.mcState = "EXT_CSD_CMD"]

AcceptStatus == Dispatch({"GET_CARD_STATUS"}) /\ ctl' = [Loaded EXCEPT !.mcState = "STATUS_CMD"]

AcceptSwitch ==
    /\ Dispatch({"SET_PARTITION", "WRITE_EXT_CSD", "SET_BUS_WIDTH"})
    /\ LET c == [Loaded EXCEPT !.mcState = "SWITCH_CMD"]
       IN  ctl' = CASE port.cmdId = "SET_PARTITION" ->
                         [c EXCEPT !.currentPartition = port.cmdLba % 4]
                    [] port.cmdId = "SET_BUS_WIDTH" ->
                         [c EXCEPT !.busWidthSwitchPending = TRUE,
                                   !.busWidthTarget = port.cmdLba % 2 = 1]
                    [] OTHER -> c

\* Variant: the bus width survives the card's reset.
AcceptReinitWide ==
    Dispatch({"REINIT"}) /\ ctl' = [Loaded EXCEPT !.reinitPending = TRUE, !.mcState = "IDLE"]

AcceptReinit ==
    /\ Dispatch({"REINIT"})
    /\ ctl' = [Loaded EXCEPT !.reinitPending = TRUE, !.useFastClk = FALSE,
                             !.busWidth4 = FALSE, !.busWidthSwitchPending = FALSE,
                             !.mcState = "IDLE"]

SetClkDiv ==
    /\ Dispatch({"SET_CLK_DIV"}) /\ port.cmdLba <= 6
    /\ ctl' = [Answered(Loaded, "OK") EXCEPT !.currentClkPreset = port.cmdLba]

SetRpmbMode ==
    /\ Dispatch({"SET_RPMB_MODE"})
    /\ ctl' = [Answered(Loaded, "OK") EXCEPT !.forceMultiBlock = port.cmdLba % 2 = 1]

AcceptRaw ==
    /\ Dispatch({"SEND_RAW"})
    /\ ctl' = [Loaded EXCEPT !.rawCheckBusy = port.rawBusy, !.mcState = "RAW_CMD"]

-----------------------------------------------------------------------------
(* States that drive the command engine. *)

\* Five states take the CMD lines over from the init engine; the others assume it.
TakesCmdLine == {"READ_CMD", "EXT_CSD_CMD", "SWITCH_CMD", "SWITCH_STATUS", "STATUS_CMD"}
Taken(regs) == [regs EXCEPT !.isInitMode = @ /\ ctl.mcState \notin TakesCmdLine]

\* cmdStart is held up until the engine reports done.
IssueCommand ==
    /\ ctl.mcState \in CmdStates /\ ~cmd.done
    /\ LET c == [Taken(Cleared) EXCEPT !.cmdStart = TRUE]
       IN  ctl' = IF ctl.mcState = "RPMB_CMD23"
                  THEN NextCmd(c, 23, Plain(1), "RPMB_CMD23") ELSE c

ChecksDeviceStatus == {"READ_CMD", "WRITE_CMD", "EXT_CSD_CMD", "ERASE_START", "ERASE_END",
                       "ERASE_CMD"}
FailsToError == ChecksDeviceStatus \union {"STOP_CMD", "SWITCH_CMD", "STATUS_CMD", "RPMB_CMD23"}

commandFailed == cmd.error \/ (ctl.mcState \in ChecksDeviceStatus /\ deviceStatusErr)

\* Variant: the failure ends the command but is not answered.
CommandFailsSilently ==
    /\ ctl.mcState \in FailsToError /\ cmd.done /\ commandFailed
    /\ ctl' = [Taken(Cleared) EXCEPT !.cmdReady = TRUE, !.mcState = "READY"]

CommandFails ==
    /\ ctl.mcState \in FailsToError /\ cmd.done /\ commandFailed
    /\ ctl' = [Failed(Taken(Cleared)) EXCEPT
                  !.busWidthSwitchPending = @ /\ ctl.mcState # "SWITCH_CMD"]

CommandDone(s) == ctl.mcState = s /\ cmd.done /\ ~commandFailed

ReadCommandDone ==
    /\ CommandDone("READ_CMD")
    /\ ctl' = [Taken(Cleared) EXCEPT !.datRdStart = TRUE, !.mcState = "READ_DAT"]

ExtCsdCommandDone ==
    /\ CommandDone("EXT_CSD_CMD")
    /\ ctl' = [Taken(Cleared) EXCEPT !.datRdStart = TRUE, !.mcState = "EXT_CSD_DAT"]

WriteCommandDone ==
    /\ CommandDone("WRITE_CMD")
    /\ ctl' = [Cleared EXCEPT !.datWrStart = TRUE, !.mcState = "WRITE_DAT"]

StopCommandDone == CommandDone("STOP_CMD") /\ Go("STOP_WAIT")

SwitchCommandDone ==
    /\ CommandDone("SWITCH_CMD")
    /\ ctl' = [Taken(Cleared) EXCEPT !.switchNeedsVerify = TRUE, !.mcState = "SWITCH_WAIT"]

\* Variant: the CMD13 after a SWITCH is sent but not looked at.
SwitchStatusDoneUnchecked ==
    /\ ctl.mcState = "SWITCH_STATUS" /\ cmd.done
    /\ ctl' = [Answered(Taken(Cleared), "OK") EXCEPT
                  !.busWidthSwitchPending = FALSE,
                  !.busWidth4 = IF ctl.busWidthSwitchPending THEN ctl.busWidthTarget ELSE @]

\* Variant: a new bus width never reaches the data engine.
SwitchStatusDoneNarrow ==
    /\ ctl.mcState = "SWITCH_STATUS" /\ cmd.done
    /\ ctl' = Answered([Taken(Cleared) EXCEPT !.busWidthSwitchPending = FALSE],
                       IF cmd.error \/ deviceStatusErr THEN "EMMC_ERR" ELSE "OK")

SwitchStatusDone ==
    /\ ctl.mcState = "SWITCH_STATUS" /\ cmd.done
    /\ LET c == [Taken(Cleared) EXCEPT !.busWidthSwitchPending = FALSE]
       IN  ctl' = IF cmd.error \/ deviceStatusErr
                  THEN Answered(c, "EMMC_ERR")
                  ELSE [Answered(c, "OK") EXCEPT
                           !.busWidth4 = IF ctl.busWidthSwitchPending
                                         THEN ctl.busWidthTarget ELSE @]

EraseCommandDone ==
    \/ /\ CommandDone("ERASE_START")
       /\ ctl' = NextCmd(Cleared, 36, Plain(ctl.eraseEndLba), "ERASE_END")
    \/ /\ CommandDone("ERASE_END")
       /\ ctl' = NextCmd(Cleared, 38, Plain(IF ctl.eraseSecure THEN 1 ELSE 0), "ERASE_CMD")
    \/ /\ CommandDone("ERASE_CMD")
       /\ ctl' = [Cleared EXCEPT !.switchNeedsVerify = FALSE, !.mcState = "SWITCH_WAIT"]

StatusCommandDone ==
    CommandDone("STATUS_CMD") /\ ctl' = Answered(Taken(Cleared), "OK")

\* Variant: the write does not wait for its data.
BlockCountDoneEager ==
    /\ CommandDone("RPMB_CMD23")
    /\ ctl' = NextCmd(Cleared, preCmdIndex, preCmdArgument,
                      IF ctl.isReadOp THEN "READ_CMD" ELSE "WRITE_CMD")

\* CMD23 accepted: start the read, start the write, or wait for its data.
BlockCountDone ==
    /\ CommandDone("RPMB_CMD23")
    /\ ctl' = IF ctl.isReadOp THEN NextCmd(Cleared, preCmdIndex, preCmdArgument, "READ_CMD")
              ELSE IF ctl.wrSectorValidD
                   THEN NextCmd(Cleared, preCmdIndex, preCmdArgument, "WRITE_CMD")
                   ELSE [Cleared EXCEPT !.mcState = "RPMB_FIFO_WAIT"]

RawCommandDone ==
    /\ ctl.mcState = "RAW_CMD" /\ cmd.done
    /\ ctl' = IF cmd.error THEN Answered(Cleared, "EMMC_ERR")
              ELSE IF ctl.rawCheckBusy THEN [Cleared EXCEPT !.mcState = "RAW_WAIT"]
                   ELSE Answered(Cleared, "OK")

-----------------------------------------------------------------------------
(* Data phases. *)

nextLba == (ctl.currentLba + 1) % LbaSpace

AwaitData == ctl.mcState \in DatStates /\ ~dat.done /\ Go(ctl.mcState)

DataFails == ctl.mcState \in DatStates /\ dat.done /\ dat.crcErr /\ ctl' = Failed(Cleared)

\* Variant: the bank number is not wrapped.
StagedUnwrapped == [Cleared EXCEPT !.rdSectorReady = TRUE, !.uartRdBankNext = ctl.emmcBank % 2,
                                   !.emmcBank = @ + 1]

\* Variant: the UART side's bank changes before it has asked.
StagedAtOnce == [Cleared EXCEPT !.rdSectorReady = TRUE, !.uartRdBankNext = ctl.emmcBank % 2,
                                !.uartRdBank = ctl.emmcBank % 2,
                                !.emmcBank = (@ + 1) % FifoBanks]

\* A block is in the read buffer: stage its bank for the UART side.
Staged == [Cleared EXCEPT !.rdSectorReady = TRUE, !.uartRdBankNext = ctl.emmcBank % 2,
                          !.emmcBank = (@ + 1) % FifoBanks]

ReadBlockDone ==
    /\ ctl.mcState = "READ_DAT" /\ dat.done /\ ~dat.crcErr
    /\ ctl' = [Staged EXCEPT !.sectorsLeft = @ - 1, !.currentLba = nextLba,
                             !.cmdArg = Plain(nextLba), !.mcState = "READ_DONE"]

ExtCsdBlockDone ==
    /\ ctl.mcState = "EXT_CSD_DAT" /\ dat.done /\ ~dat.crcErr
    /\ ctl' = Answered(Staged, "OK")

\* Variant: the clock stays paused.
ContinueReadPaused ==
    /\ ctl.mcState = "READ_DONE" /\ ctl.sectorsLeft # 0
    /\ ctl' = IF ~ctl.useMultiBlock THEN [Cleared EXCEPT !.mcState = "READ_CMD"]
              ELSE IF ~ctl.rdSectorReady \/ rdSectorAck
                   THEN [Cleared EXCEPT !.datRdStart = TRUE, !.mcState = "READ_DAT"]
                   ELSE [Cleared EXCEPT !.clkPause = TRUE]

\* The next block waits until the UART side has taken the last one; meanwhile
\* the card's clock is paused.
ContinueRead ==
    /\ ctl.mcState = "READ_DONE" /\ ctl.sectorsLeft # 0
    /\ ctl' = IF ~ctl.useMultiBlock THEN [Cleared EXCEPT !.mcState = "READ_CMD"]
              ELSE IF ~ctl.rdSectorReady \/ rdSectorAck
                   THEN [Cleared EXCEPT !.clkPause = FALSE, !.datRdStart = TRUE,
                                        !.mcState = "READ_DAT"]
                   ELSE [Cleared EXCEPT !.clkPause = TRUE]

\* The last block: CMD12 unless the length was announced with CMD23.
FinishBlocks ==
    /\ ctl.mcState \in {"READ_DONE", "WRITE_DONE"} /\ ctl.sectorsLeft = 0
    /\ LET c == [Cleared EXCEPT !.clkPause = @ /\ ctl.mcState = "WRITE_DONE"]
       IN  ctl' = IF ctl.useMultiBlock /\ ~ctl.forceMultiBlock
                  THEN NextCmd(c, 12, Plain(0), "STOP_CMD") ELSE Answered(c, "OK")

WriteBlockDone ==
    /\ ctl.mcState = "WRITE_DAT" /\ dat.done /\ ~dat.crcErr
    /\ ctl' = [Cleared EXCEPT !.sectorsLeft = @ - 1, !.currentLba = nextLba,
                              !.cmdArg = Plain(nextLba), !.mcState = "WRITE_DONE"]

moreToWrite == ctl.mcState = "WRITE_DONE" /\ ctl.sectorsLeft # 0

ContinueWrite ==
    /\ moreToWrite
    /\ LET c == [Cleared EXCEPT !.wrSectorAck = TRUE, !.emmcBank = (@ + 1) % FifoBanks]
       IN  ctl' = IF ~port.wrSectorValid THEN Cleared
                  ELSE IF ctl.useMultiBlock
                       THEN [c EXCEPT !.datWrStart = TRUE, !.mcState = "WRITE_DAT"]
                       ELSE [c EXCEPT !.mcState = "WRITE_CMD"]

\* The 24-bit watchdog expires, if only just, before the next sector arrives.
\* It has run for 280 ms, so it needs a UART side that stalls.
WriteWatchdog ==
    /\ moreToWrite /\ UartMayStall /\ ~ctl.wrSectorValidD
    /\ ctl' = IF ctl.useMultiBlock THEN NextCmd(Cleared, 12, Plain(0), "ERROR_STOP")
                                   ELSE Answered(Cleared, "EMMC_ERR")

AwaitRpmbData ==
    /\ ctl.mcState = "RPMB_FIFO_WAIT"
    /\ ctl' = IF ctl.wrSectorValidD
              THEN NextCmd(Cleared, preCmdIndex, preCmdArgument, "WRITE_CMD") ELSE Cleared

RpmbWatchdog ==
    /\ ctl.mcState = "RPMB_FIFO_WAIT" /\ UartMayStall /\ ~ctl.wrSectorValidD
    /\ ctl' = Answered(Cleared, "EMMC_ERR")

-----------------------------------------------------------------------------
(* DAT0 busy polling, with its 20-bit timeout, and the error path. *)

StillBusy == ctl.mcState \in BusyStates /\ Go(ctl.mcState)

BusyReleased ==
    /\ ctl.mcState \in BusyStates /\ ~ctl.clkPause /\ ~card.stuck
    /\ ctl' = IF ctl.mcState = "SWITCH_WAIT" /\ ctl.switchNeedsVerify
              THEN NextCmd(Cleared, 13, Plain(0), "SWITCH_STATUS")
              ELSE Answered(Cleared, "OK")

BusyTimeout ==
    /\ ctl.mcState \in BusyStates /\ ~ctl.clkPause /\ card.stuck
    /\ ctl' = [Failed(Cleared) EXCEPT
                  !.busWidthSwitchPending = @ /\ ctl.mcState # "SWITCH_WAIT"]

\* Variant: the transfer is left open.
ReportErrorOpen == ctl.mcState = "ERROR" /\ ctl' = Answered(Cleared, ctl.respStatus)

\* Variant: answered before the CMD12 and after it.
ReportErrorTwice ==
    /\ ctl.mcState = "ERROR"
    /\ LET c == Answered(Cleared, ctl.respStatus)
       IN  ctl' = IF ctl.useMultiBlock THEN NextCmd(c, 12, Plain(0), "ERROR_STOP") ELSE c

ReportError ==
    /\ ctl.mcState = "ERROR"
    /\ ctl' = IF ctl.useMultiBlock THEN NextCmd(Cleared, 12, Plain(0), "ERROR_STOP")
              ELSE Answered(Cleared, ctl.respStatus)

ErrorStopDone ==
    ctl.mcState = "ERROR_STOP" /\ cmd.done /\ ctl' = Answered(Cleared, ctl.respStatus)

-----------------------------------------------------------------------------
CtlEdge ==
    \/ StartInit \/ AwaitInit \/ FinishInit \/ FailInit
    \/ AwaitCommand \/ RejectCommand \/ AcceptRead \/ AcceptWrite \/ AcceptErase
    \/ AcceptExtCsd \/ AcceptStatus \/ AcceptSwitch \/ AcceptReinit \/ SetClkDiv
    \/ SetRpmbMode \/ AcceptRaw
    \/ IssueCommand \/ CommandFails \/ ReadCommandDone \/ ExtCsdCommandDone
    \/ WriteCommandDone \/ StopCommandDone \/ SwitchCommandDone \/ SwitchStatusDone
    \/ EraseCommandDone \/ StatusCommandDone \/ BlockCountDone \/ RawCommandDone
    \/ AwaitData \/ DataFails \/ ReadBlockDone \/ ExtCsdBlockDone \/ ContinueRead
    \/ FinishBlocks \/ WriteBlockDone \/ ContinueWrite \/ WriteWatchdog
    \/ AwaitRpmbData \/ RpmbWatchdog
    \/ StillBusy \/ BusyReleased \/ BusyTimeout \/ ReportError \/ ErrorStopDone


-----------------------------------------------------------------------------
(* The engines.  Each is idle until the controller starts it, and reports   *)
(* by raising done for one edge.  A quiet edge of an engine leaves the card *)
(* alone.  No engine moves while the card's clock is paused.                *)

Fault == faults < MaxFaults /\ faults' = faults + 1
NoFault == UNCHANGED faults

\* The CMD mux: in init mode the init engine owns the command engine.
cmdStartIn == ~ctl.isInitMode /\ ctl.cmdStart

\* Variant: the start line is looked at in the edge that reports done.
CmdTakeAgain == cmdStartIn

CmdTake == cmdStartIn /\ ~cmd.done
CmdQuiet ==
    cmd' = IF cmd.busy THEN cmd
           ELSE IF CmdTake
                THEN [cmd EXCEPT !.busy = TRUE, !.index = ctl.cmdIndex, !.arg = ctl.cmdArg,
                                 !.respExp = ctl.cmdRespExp, !.done = FALSE, !.error = FALSE]
                ELSE [cmd EXCEPT !.done = FALSE, !.error = FALSE]

CmdReport(isError, isDevice) ==
    cmd' = [cmd EXCEPT !.busy = FALSE, !.done = TRUE, !.error = isError /\ cmd.respExp,
                       !.device = isDevice]

CmdRuns == cmd.busy /\ ~ctl.clkPause

\* The card answers; the R1 error bits are those the card still had pending.
CmdAnswered ==
    /\ CmdRuns /\ Legal(card, cmd.index)
    /\ CmdReport(FALSE, card.errPending)
    /\ card' = Executed(card, cmd.index, cmd.arg) /\ NoFault

\* The card does not know the command in its present state, and is silent.
CmdIllegal ==
    /\ CmdRuns /\ ~Legal(card, cmd.index)
    /\ CmdReport(TRUE, cmd.device)
    /\ card' = Rejected(card) /\ NoFault

\* The command is corrupted on its way, the response on its way back, or the
\* card refuses with an error bit: at once, for a SWITCH in the next response,
\* for a STOP after carrying it out.  Or it obeys and then stays busy too long.
CmdFault ==
    /\ CmdRuns /\ Fault
    /\ \/ /\ "lost" \in CmdFaults /\ CmdReport(TRUE, cmd.device)
          /\ card' \in {card, Rejected(card)}
       \/ /\ "crc" \in CmdFaults /\ Legal(card, cmd.index) /\ CmdReport(TRUE, card.errPending)
          /\ card' = Executed(card, cmd.index, cmd.arg)
       \/ /\ "device" \in CmdFaults /\ Legal(card, cmd.index)
          /\ CmdReport(FALSE, cmd.index # 6 \/ card.errPending)
          /\ card' = CASE cmd.index = 12 -> Executed(card, 12, cmd.arg)
                       [] cmd.index = 6  -> Rejected(card)
                       [] OTHER -> [card EXCEPT !.errPending = FALSE, !.stuck = FALSE]
       \/ /\ "busy" \in CmdFaults /\ Legal(card, cmd.index) /\ cmd.index \in BusyIndexes
          /\ CmdReport(FALSE, card.errPending)
          /\ card' = [Executed(card, cmd.index, cmd.arg) EXCEPT !.stuck = TRUE]

-----------------------------------------------------------------------------
DatIdle == dat.st = "idle"
DatQuiet ==
    dat' = IF ~DatIdle THEN dat
           ELSE [dat EXCEPT !.done = FALSE, !.crcErr = FALSE, !.pos = 0, !.block = <<>>,
                            !.st = IF ctl.datRdStart THEN "rd"
                                   ELSE IF ctl.datWrStart THEN "wr" ELSE "idle"]

DatReport(isError) ==
    dat' = [dat EXCEPT !.st = "idle", !.pos = 0, !.block = <<>>, !.done = TRUE,
                       !.crcErr = isError]

\* Blocks pass only when both ends agree on the direction and the bus width.
DatPasses(direction) == card.xfer = direction /\ card.width4 = ctl.busWidth4

\* One byte: into the bank of the read buffer that emmcBank selects (its bit 0
\* is all SectorBuf decodes), or out of the bank of the write FIFO.
DatByte ==
    /\ ~DatIdle /\ ~ctl.clkPause /\ dat.pos < SectorBytes
    /\ \/ /\ dat.st = "rd" /\ DatPasses("data")
          /\ rdBuf' = [rdBuf EXCEPT ![ctl.emmcBank % 2][dat.pos] = SectorByte(card)]
          /\ dat' = [dat EXCEPT !.pos = @ + 1]
       \/ /\ dat.st = "wr"
          /\ dat' = [dat EXCEPT !.pos = @ + 1,
                                !.block = Append(@, wrBuf[ctl.emmcBank][dat.pos])]
          /\ UNCHANGED rdBuf
    /\ UNCHANGED <<card, faults>>

DatBlock ==
    /\ ~DatIdle /\ ~ctl.clkPause /\ dat.pos = SectorBytes
    /\ \/ /\ dat.st = "rd" /\ DatReport(FALSE) /\ card' = BlockMoved(card) /\ NoFault
       \/ /\ dat.st = "wr" /\ DatPasses("rcv") /\ DatReport(FALSE)
          /\ card' = BlockStored(card, dat.block) /\ NoFault
       \/ /\ dat.st = "rd" /\ DatFaults /\ Fault /\ DatReport(TRUE) /\ card' = BlockMoved(card)
       \/ /\ dat.st = "wr" /\ DatFaults /\ Fault /\ DatReport(TRUE) /\ DatPasses("rcv")
          /\ card' \in {BlockMoved(card), BlockStored(card, dat.block)}
    /\ UNCHANGED rdBuf

\* No start bit, or no CRC status: the 16-bit timeouts report a CRC error.
DatTimeout ==
    /\ ~ctl.clkPause
    /\ \/ dat.st = "rd" /\ ~DatPasses("data")
       \/ dat.st = "wr" /\ dat.pos = SectorBytes /\ ~DatPasses("rcv")
    /\ DatReport(TRUE)
    /\ UNCHANGED <<rdBuf, card, faults>>

-----------------------------------------------------------------------------
\* initStart is registered once before the init engine looks at it.
IniQuiet ==
    ini' = IF ini.st = "run" THEN ini
           ELSE [ini EXCEPT !.startR = ctl.initStart, !.done = FALSE, !.error = FALSE,
                            !.st = IF ini.startR THEN "run" ELSE "idle",
                            !.useFastClk = @ /\ ~ini.startR]

IniEnds ==
    /\ ini.st = "run"
    /\ \/ /\ ini' = [ini EXCEPT !.st = "idle", !.startR = FALSE, !.done = TRUE,
                                !.useFastClk = TRUE]
          /\ card' = InitialisedCard /\ NoFault
       \/ /\ InitFaults /\ Fault
          /\ ini' = [ini EXCEPT !.st = "idle", !.startR = FALSE, !.error = TRUE]
          /\ card' = PoweredCard

\* With its clock running and nobody reading, a sending card sends regardless.
CardWaits ==
    /\ card' = IF DatIdle /\ ~ctl.clkPause THEN Waits(card) ELSE card
    /\ NoFault

EngineEdge ==
    \/ (CmdAnswered \/ CmdIllegal \/ CmdFault) /\ DatQuiet /\ IniQuiet /\ UNCHANGED rdBuf
    \/ (DatByte \/ DatBlock \/ DatTimeout) /\ CmdQuiet /\ IniQuiet
    \/ IniEnds /\ CmdQuiet /\ DatQuiet /\ UNCHANGED rdBuf
    \/ CmdQuiet /\ DatQuiet /\ IniQuiet /\ CardWaits /\ UNCHANGED rdBuf

\* The UART side's port of the write FIFO.
BufferEdge ==
    wrBuf' = IF port.uartWrEn
             THEN [wrBuf EXCEPT ![port.uartWrBank][port.uartWrAddr] = port.uartWrData]
             ELSE wrBuf

ControllerEdge == CtlEdge /\ EngineEdge /\ BufferEdge
=============================================================================
