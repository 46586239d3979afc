--------------------------- MODULE ControllerProofs ---------------------------
(***************************************************************************)
(* Who owns the engines, for every size of the FIFO, every set of requests *)
(* and every number and kind of faults; that every command is answered at  *)
(* most once, as long as power-on initialisation does not fail four times;  *)
(* and that a switch answered OK has taken effect in the card.             *)
(***************************************************************************)
EXTENDS ControllerBench, TLAPS

-----------------------------------------------------------------------------
(* What one edge of the FSM may do with its state, its start lines, its     *)
(* banks and the pause; the registers named are those the argument is about. *)

Fields == {"mcState", "useMultiBlock", "clkPause", "cmdStart", "initStart", "datRdStart",
           "datWrStart", "emmcBank", "uartRdBank", "uartRdBankNext", "respStatus"}

Statuses == {"OK", "CMD_ERR", "EMMC_ERR"}

Typed(c) ==
    /\ Fields \subseteq DOMAIN c
    /\ c.mcState \in McStates
    /\ c.emmcBank \in 0..FifoBanks - 1 /\ {c.uartRdBank, c.uartRdBankNext} \subseteq 0..1
    /\ c.respStatus \in Statuses

ReadStates == {"READ_DAT", "EXT_CSD_DAT"}

StartsCommand ==
    /\ ctl'.cmdStart => ctl.mcState \in CmdStates /\ ~cmd.done
    /\ ctl.mcState \in CmdStates /\ ~cmd.done => ctl'.mcState = ctl.mcState

StartsData ==
    /\ ctl.mcState \in DatStates => ~ctl'.datRdStart /\ ~ctl'.datWrStart
    /\ ctl.mcState \in DatStates /\ ~dat.done => ctl'.mcState = ctl.mcState
    /\ ctl'.datRdStart => ctl'.mcState \in ReadStates
    /\ ctl'.datWrStart => ctl'.mcState = "WRITE_DAT"

StartsInit ==
    /\ ctl'.initStart => ctl.mcState = "IDLE" /\ ctl'.mcState = "INIT"
    /\ ctl.mcState = "INIT" /\ ~ini.done /\ ~ini.error => ctl'.mcState = "INIT"

Pauses ==
    (ctl.clkPause => ctl.mcState = "READ_DONE" /\ ctl.useMultiBlock)
        => (ctl'.clkPause => ctl'.mcState = "READ_DONE" /\ ctl'.useMultiBlock)

Disciplined == Typed(ctl') /\ StartsCommand /\ StartsData /\ StartsInit /\ Pauses

USE DEF Fields, Statuses, CmdStates, DatStates, BusyStates, McStates, ReadStates

LEMMA Banks ==
    /\ 0 \in 0..FifoBanks - 1
    /\ \A b \in 0..FifoBanks - 1 : b % 2 \in 0..1 /\ (b + 1) % FifoBanks \in 0..FifoBanks - 1
BY ControllerAssumption

\* What every edge does first.
LEMMA ClearedFields ==
    ASSUME Typed(ctl)
    PROVE  /\ Typed(Cleared)
           /\ Cleared.cmdStart = FALSE /\ Cleared.initStart = FALSE
           /\ Cleared.datRdStart = FALSE /\ Cleared.datWrStart = FALSE
           /\ Cleared.mcState = ctl.mcState
           /\ Cleared.emmcBank = ctl.emmcBank
           /\ Cleared.useMultiBlock = ctl.useMultiBlock
           /\ Cleared.clkPause = ctl.clkPause
BY DEF Typed, Cleared

\* The next command of a sequence is loaded; its start line rises an edge later.
LEMMA NextCmdEdge ==
    ASSUME Typed(ctl), ctl.mcState \in CmdStates, cmd.done,
           NEW index, NEW arg, NEW s \in McStates, ctl' = NextCmd(Cleared, index, arg, s)
    PROVE  Disciplined
<1>1. "mcState" \in DOMAIN Cleared
  BY ClearedFields DEF Typed
<1>2. DOMAIN ctl' = DOMAIN Cleared /\ ctl'.mcState = s
  BY <1>1 DEF NextCmd
<1>3. /\ ctl'.cmdStart = Cleared.cmdStart /\ ctl'.initStart = Cleared.initStart
      /\ ctl'.datRdStart = Cleared.datRdStart /\ ctl'.datWrStart = Cleared.datWrStart
      /\ ctl'.clkPause = Cleared.clkPause
  BY DEF NextCmd
<1>4. /\ ctl'.emmcBank = Cleared.emmcBank /\ ctl'.respStatus = Cleared.respStatus
      /\ ctl'.uartRdBank = Cleared.uartRdBank /\ ctl'.uartRdBankNext = Cleared.uartRdBankNext
  BY DEF NextCmd
<1>5. Typed(ctl')
  <2>1. Typed(Cleared)
    BY ClearedFields
  <2>2. Fields \subseteq DOMAIN ctl' /\ ctl'.mcState \in McStates
    BY <1>2, <2>1 DEF Typed
  <2>3. /\ ctl'.emmcBank \in 0..FifoBanks - 1 /\ ctl'.respStatus \in Statuses
        /\ {ctl'.uartRdBank, ctl'.uartRdBankNext} \subseteq 0..1
    BY <1>4, <2>1 DEF Typed
  <2> QED
    BY <2>2, <2>3 DEF Typed
<1>6. /\ ctl'.cmdStart = FALSE /\ ctl'.initStart = FALSE
      /\ ctl'.datRdStart = FALSE /\ ctl'.datWrStart = FALSE
      /\ ctl'.clkPause = ctl.clkPause
  BY <1>3, ClearedFields
<1>7. StartsCommand /\ StartsData /\ StartsInit /\ Pauses
  BY <1>6 DEF StartsCommand, StartsData, StartsInit, Pauses
<1> QED
  BY <1>5, <1>7 DEF Disciplined

USE DEF Disciplined, StartsCommand, StartsData, StartsInit, Pauses, Typed

LEMMA InitEdge ==
    ASSUME Typed(ctl), StartInit \/ AwaitInit \/ FinishInit \/ FailInit
    PROVE  Disciplined
<1>1. CASE StartInit
  BY <1>1, ClearedFields DEF StartInit
<1>2. CASE AwaitInit
  BY <1>2, ClearedFields DEF AwaitInit
<1>3. CASE FinishInit
  BY <1>3, ClearedFields DEF FinishInit, Answered
<1>4. CASE FailInit
  BY <1>4, ClearedFields DEF FailInit, Answered
<1> QED
  BY <1>1, <1>2, <1>3, <1>4

LEMMA LoadedFields ==
    ASSUME Typed(ctl)
    PROVE  /\ Typed(Loaded)
           /\ Loaded.cmdStart = FALSE /\ Loaded.initStart = FALSE
           /\ Loaded.datRdStart = FALSE /\ Loaded.datWrStart = FALSE
           /\ Loaded.mcState = ctl.mcState
           /\ Loaded.clkPause = ctl.clkPause
BY ClearedFields DEF Loaded

LEMMA ReadyEdge ==
    ASSUME Typed(ctl),
           \/ AwaitCommand \/ RejectCommand \/ AcceptRead \/ AcceptWrite \/ AcceptErase
           \/ AcceptExtCsd \/ AcceptStatus \/ AcceptSwitch \/ AcceptReinit \/ SetClkDiv
           \/ SetRpmbMode \/ AcceptRaw
    PROVE  Disciplined
<1> USE LoadedFields DEF Dispatch
<1>1. CASE AwaitCommand
  BY <1>1, ClearedFields DEF AwaitCommand, Go
<1>2. CASE RejectCommand
  BY <1>2 DEF RejectCommand, Answered
<1>3. CASE AcceptRead
  BY <1>3 DEF AcceptRead
<1>4. CASE AcceptWrite
  BY <1>4, Banks DEF AcceptWrite, DispatchWrite, LoadedWrite
<1>5. CASE AcceptErase
  BY <1>5 DEF AcceptErase
<1>6. CASE AcceptExtCsd
  BY <1>6 DEF AcceptExtCsd
<1>7. CASE AcceptStatus
  BY <1>7 DEF AcceptStatus
<1>8. CASE AcceptSwitch
  BY <1>8 DEF AcceptSwitch
<1>9. CASE AcceptReinit
  BY <1>9 DEF AcceptReinit
<1>10. CASE SetClkDiv
  BY <1>10 DEF SetClkDiv, Answered
<1>11. CASE SetRpmbMode
  BY <1>11 DEF SetRpmbMode, Answered
<1>12. CASE AcceptRaw
  BY <1>12 DEF AcceptRaw
<1> QED
  BY <1>1, <1>2, <1>3, <1>4, <1>5, <1>6, <1>7, <1>8, <1>9, <1>10, <1>11, <1>12

LEMMA CommandEdge ==
    ASSUME Typed(ctl),
           \/ IssueCommand \/ CommandFails \/ ReadCommandDone \/ ExtCsdCommandDone
           \/ WriteCommandDone \/ StopCommandDone \/ SwitchCommandDone \/ SwitchStatusDone
           \/ EraseCommandDone \/ StatusCommandDone \/ BlockCountDone \/ RawCommandDone
    PROVE  Disciplined
<1> USE ClearedFields DEF CommandDone, Taken
<1>1. CASE IssueCommand
  BY <1>1 DEF IssueCommand, NextCmd
<1>2. CASE CommandFails
  BY <1>2 DEF CommandFails, Failed, FailsToError, ChecksDeviceStatus
<1>3. CASE ReadCommandDone
  BY <1>3 DEF ReadCommandDone
<1>4. CASE ExtCsdCommandDone
  BY <1>4 DEF ExtCsdCommandDone
<1>5. CASE WriteCommandDone
  BY <1>5 DEF WriteCommandDone
<1>6. CASE StopCommandDone
  BY <1>6 DEF StopCommandDone, Go
<1>7. CASE SwitchCommandDone
  BY <1>7 DEF SwitchCommandDone
<1>8. CASE SwitchStatusDone
  BY <1>8 DEF SwitchStatusDone, Answered
<1>9. CASE EraseCommandDone
  <2> HIDE DEF Disciplined, Typed, McStates
  <2>1. cmd.done /\ "ERASE_END" \in McStates /\ "ERASE_CMD" \in McStates
    BY <1>9 DEF EraseCommandDone, McStates
  <2>2. ASSUME ctl.mcState = "ERASE_START" PROVE Disciplined
    <3>1. ctl' = NextCmd(Cleared, 36, Plain(ctl.eraseEndLba), "ERASE_END")
      BY <1>9, <2>2 DEF EraseCommandDone
    <3> QED
      BY <2>1, <2>2, <3>1, NextCmdEdge
  <2>3. ASSUME ctl.mcState = "ERASE_END" PROVE Disciplined
    <3>1. ctl' = NextCmd(Cleared, 38, Plain(IF ctl.eraseSecure THEN 1 ELSE 0), "ERASE_CMD")
      BY <1>9, <2>3 DEF EraseCommandDone
    <3> QED
      BY <2>1, <2>3, <3>1, NextCmdEdge
  <2>4. ASSUME ctl.mcState = "ERASE_CMD" PROVE Disciplined
    <3>1. ctl' = [Cleared EXCEPT !.switchNeedsVerify = FALSE, !.mcState = "SWITCH_WAIT"]
      BY <1>9, <2>4 DEF EraseCommandDone
    <3> QED
      BY <2>1, <2>4, <3>1, ClearedFields DEF Disciplined, Typed, McStates
  <2> QED
    BY <1>9, <2>2, <2>3, <2>4 DEF EraseCommandDone
<1>10. CASE StatusCommandDone
  BY <1>10 DEF StatusCommandDone, Answered
<1>11. CASE BlockCountDone
  BY <1>11 DEF BlockCountDone, NextCmd
<1>12. CASE RawCommandDone
  BY <1>12 DEF RawCommandDone, Answered
<1> QED
  BY <1>1, <1>2, <1>3, <1>4, <1>5, <1>6, <1>7, <1>8, <1>9, <1>10, <1>11, <1>12

\* A block staged for the UART side: the banks move, the FSM's lines do not.
LEMMA StagedFields ==
    ASSUME Typed(ctl)
    PROVE  /\ Typed(Staged)
           /\ Staged.cmdStart = FALSE /\ Staged.initStart = FALSE
           /\ Staged.datRdStart = FALSE /\ Staged.datWrStart = FALSE
           /\ Staged.clkPause = ctl.clkPause
           /\ Staged.useMultiBlock = ctl.useMultiBlock
BY ClearedFields, Banks DEF Staged

LEMMA DataEdge ==
    ASSUME Typed(ctl),
           \/ AwaitData \/ DataFails \/ ReadBlockDone \/ ExtCsdBlockDone \/ ContinueRead
           \/ FinishBlocks \/ WriteBlockDone \/ ContinueWrite \/ WriteWatchdog
           \/ AwaitRpmbData \/ RpmbWatchdog
    PROVE  Disciplined
<1> USE ClearedFields
<1>1. CASE AwaitData
  BY <1>1 DEF AwaitData, Go
<1>2. CASE DataFails
  BY <1>2 DEF DataFails, Failed
<1>3. CASE ReadBlockDone
  BY <1>3, StagedFields DEF ReadBlockDone
<1>4. CASE ExtCsdBlockDone
  BY <1>4, StagedFields DEF ExtCsdBlockDone, Answered
<1>5. CASE ContinueRead
  BY <1>5 DEF ContinueRead
<1>6. CASE FinishBlocks
  BY <1>6 DEF FinishBlocks, NextCmd, Answered
<1>7. CASE WriteBlockDone
  BY <1>7 DEF WriteBlockDone
<1>8. CASE ContinueWrite
  BY <1>8, Banks DEF ContinueWrite, moreToWrite
<1>9. CASE WriteWatchdog
  BY <1>9 DEF WriteWatchdog, moreToWrite, NextCmd, Answered
<1>10. CASE AwaitRpmbData
  BY <1>10 DEF AwaitRpmbData, NextCmd
<1>11. CASE RpmbWatchdog
  BY <1>11 DEF RpmbWatchdog, Answered
<1> QED
  BY <1>1, <1>2, <1>3, <1>4, <1>5, <1>6, <1>7, <1>8, <1>9, <1>10, <1>11

LEMMA BusyEdge ==
    ASSUME Typed(ctl),
           StillBusy \/ BusyReleased \/ BusyTimeout \/ ReportError \/ ErrorStopDone
    PROVE  Disciplined
<1> USE ClearedFields
<1>1. CASE StillBusy
  BY <1>1 DEF StillBusy, Go
<1>2. CASE BusyReleased
  BY <1>2 DEF BusyReleased, NextCmd, Answered
<1>3. CASE BusyTimeout
  BY <1>3 DEF BusyTimeout, Failed
<1>4. CASE ReportError
  BY <1>4 DEF ReportError, NextCmd, Answered
<1>5. CASE ErrorStopDone
  BY <1>5 DEF ErrorStopDone, Answered
<1> QED
  BY <1>1, <1>2, <1>3, <1>4, <1>5

LEMMA FsmEdge == ASSUME Typed(ctl), CtlEdge PROVE Disciplined
BY InitEdge, ReadyEdge, CommandEdge, DataEdge, BusyEdge DEF CtlEdge

-----------------------------------------------------------------------------
(* What one edge of the engines may do.                                     *)

Xfers == {"off", "tran", "data", "rcv"}
CardTyped(c) == "xfer" \in DOMAIN c /\ c.xfer \in Xfers

EnginesTyped ==
    /\ {"busy", "done"} \subseteq DOMAIN cmd
    /\ {"st", "done", "pos"} \subseteq DOMAIN dat
    /\ dat.st \in {"idle", "rd", "wr"} /\ dat.pos \in 0..SectorBytes
    /\ {"st", "startR", "done", "error"} \subseteq DOMAIN ini
    /\ ini.st \in {"idle", "run"}
    /\ CardTyped(card)
    /\ faults \in 0..MaxFaults

CmdMoves ==
    /\ cmd'.busy => cmd.busy \/ (ctl.cmdStart /\ ~cmd.done)
    /\ (cmd.busy => ~cmd.done) => (cmd'.busy => ~cmd'.done)

DatMoves ==
    /\ dat'.st = "rd" => dat.st = "rd" \/ ctl.datRdStart
    /\ dat'.st = "wr" => dat.st = "wr" \/ ctl.datWrStart
    /\ dat'.done => dat.st # "idle"
    /\ (dat.st # "idle" => ~dat.done) => (dat'.st # "idle" => ~dat'.done)

IniMoves ==
    IF ini.st = "run"
    THEN \/ ini' = ini
         \/ ini'.st = "idle" /\ ~ini'.startR
    ELSE /\ ini'.st = "run" <=> ini.startR
         /\ ini'.startR <=> ctl.initStart
         /\ ~ini'.done /\ ~ini'.error

USE DEF Xfers

LEMMA CardSteps ==
    ASSUME NEW c, CardTyped(c), NEW index, NEW arg, NEW block
    PROVE  /\ CardTyped(Executed(c, index, arg)) /\ CardTyped(Rejected(c))
           /\ CardTyped(BlockMoved(c)) /\ CardTyped(BlockStored(c, block))
           /\ CardTyped(Waits(c))
<1>1. CardTyped(BlockMoved(c)) /\ CardTyped(Rejected(c))
  BY DEF CardTyped, BlockMoved, Rejected
<1>2. CardTyped(BlockStored(c, block)) /\ CardTyped(Waits(c))
  BY <1>1 DEF CardTyped, BlockStored, Waits
<1>3. CardTyped(Executed(c, index, arg))
  <2> DEFINE d == [c EXCEPT !.errPending = FALSE, !.stuck = FALSE, !.quota = index = 23]
  <2>1. CardTyped(d)
    BY DEF CardTyped
  <2>2. \A first, isOpen : CardTyped(Transfer(d, "data", first, isOpen))
                           /\ CardTyped(Transfer(d, "rcv", first, isOpen))
    BY <2>1 DEF CardTyped, Transfer
  <2>3. CardTyped(PoweredCard)
    BY DEF CardTyped, PoweredCard
  <2>4. CardTyped([d EXCEPT !.xfer = "tran", !.blk = 0, !.idle = 0])
    BY <2>1 DEF CardTyped
  <2>5. CardTyped([d EXCEPT !.partition = IF arg.index = PARTITION_CONFIG THEN arg.value ELSE @,
                            !.width4 = IF arg.index = BUS_WIDTH THEN arg.value = 1 ELSE @])
    BY <2>1 DEF CardTyped
  <2> QED
    BY <2>1, <2>2, <2>3, <2>4, <2>5 DEF Executed
<1> QED
  BY <1>1, <1>2, <1>3

LEMMA QuietEdges ==
    ASSUME EnginesTyped
    PROVE  /\ CmdQuiet => CmdMoves /\ {"busy", "done"} \subseteq DOMAIN cmd'
           /\ DatQuiet => /\ DatMoves /\ {"st", "done", "pos"} \subseteq DOMAIN dat'
                          /\ dat'.st \in {"idle", "rd", "wr"} /\ dat'.pos \in 0..SectorBytes
           /\ IniQuiet => /\ IniMoves /\ ini'.st \in {"idle", "run"}
                          /\ {"st", "startR", "done", "error"} \subseteq DOMAIN ini'
<1>1. ASSUME CmdQuiet PROVE CmdMoves /\ {"busy", "done"} \subseteq DOMAIN cmd'
  BY <1>1 DEF EnginesTyped, CmdQuiet, CmdTake, cmdStartIn, CmdMoves
<1>2. ASSUME DatQuiet
      PROVE  /\ DatMoves /\ {"st", "done", "pos"} \subseteq DOMAIN dat'
             /\ dat'.st \in {"idle", "rd", "wr"} /\ dat'.pos \in 0..SectorBytes
  BY <1>2, ControllerAssumption DEF EnginesTyped, DatQuiet, DatIdle, DatMoves
<1>3. ASSUME IniQuiet
      PROVE  /\ IniMoves /\ ini'.st \in {"idle", "run"}
             /\ {"st", "startR", "done", "error"} \subseteq DOMAIN ini'
  BY <1>3 DEF EnginesTyped, IniQuiet, IniMoves
<1> QED
  BY <1>1, <1>2, <1>3

LEMMA EnginesEdge ==
    ASSUME EnginesTyped, EngineEdge
    PROVE  EnginesTyped' /\ CmdMoves /\ DatMoves /\ IniMoves
<1> USE QuietEdges
<1> DEFINE OthersTyped == CardTyped(card') /\ faults' \in 0..MaxFaults
<1>0. ASSUME Fault \/ NoFault PROVE faults' \in 0..MaxFaults
  BY <1>0, ControllerAssumption DEF EnginesTyped, Fault, NoFault
<1>1. CASE (CmdAnswered \/ CmdIllegal \/ CmdFault) /\ DatQuiet /\ IniQuiet /\ UNCHANGED rdBuf
  <2>1. CmdMoves /\ {"busy", "done"} \subseteq DOMAIN cmd'
    BY <1>1 DEF EnginesTyped, CmdAnswered, CmdIllegal, CmdFault, CmdReport, CmdMoves
  <2>2. CardTyped(card')
    <3>1. CASE CmdAnswered \/ CmdIllegal
      BY <3>1, CardSteps DEF CmdAnswered, CmdIllegal, EnginesTyped
    <3>2. CASE CmdFault
      <4>1. /\ CardTyped(card) /\ CardTyped(Rejected(card))
            /\ \A arg : CardTyped(Executed(card, cmd.index, arg))
            /\ CardTyped(Executed(card, 12, cmd.arg))
        BY CardSteps DEF EnginesTyped
      <4>2. CardTyped([card EXCEPT !.errPending = FALSE, !.stuck = FALSE])
        BY <4>1 DEF CardTyped
      <4>3. CardTyped([Executed(card, cmd.index, cmd.arg) EXCEPT !.stuck = TRUE])
        BY <4>1 DEF CardTyped
      <4> QED
        BY <3>2, <4>1, <4>2, <4>3 DEF CmdFault
    <3> QED
      BY <1>1, <3>1, <3>2
  <2>3. faults' \in 0..MaxFaults
    BY <1>0, <1>1 DEF CmdAnswered, CmdIllegal, CmdFault
  <2> QED
    BY <1>1, <2>1, <2>2, <2>3 DEF EnginesTyped
<1>2. CASE (DatByte \/ DatBlock \/ DatTimeout) /\ CmdQuiet /\ IniQuiet
  <2>1. /\ DatMoves /\ {"st", "done", "pos"} \subseteq DOMAIN dat'
        /\ dat'.st \in {"idle", "rd", "wr"} /\ dat'.pos \in 0..SectorBytes
    <3>1. CASE DatByte
      <4>1. dat.pos + 1 \in 0..SectorBytes
        BY <3>1, ControllerAssumption DEF EnginesTyped, DatByte
      <4>2. /\ DOMAIN dat' = DOMAIN dat /\ dat'.pos = dat.pos + 1
            /\ dat'.st = dat.st /\ dat'.done = dat.done
        BY <3>1 DEF EnginesTyped, DatByte
      <4> QED
        BY <3>1, <4>1, <4>2 DEF EnginesTyped, DatByte, DatIdle, DatMoves
    <3>2. CASE dat.st # "idle" /\ \E e \in BOOLEAN : DatReport(e)
      BY <3>2, ControllerAssumption DEF EnginesTyped, DatReport, DatMoves
    <3>3. DatBlock \/ DatTimeout => dat.st # "idle" /\ \E e \in BOOLEAN : DatReport(e)
      BY DEF DatBlock, DatTimeout, DatIdle
    <3> QED
      BY <1>2, <3>1, <3>2, <3>3
  <2>2. CardTyped(card')
    BY <1>2, CardSteps DEF EnginesTyped, DatByte, DatBlock, DatTimeout
  <2>3. faults' \in 0..MaxFaults
    BY <1>0, <1>2 DEF DatByte, DatBlock, DatTimeout, NoFault
  <2> QED
    BY <1>2, <2>1, <2>2, <2>3 DEF EnginesTyped
<1>3. CASE IniEnds /\ CmdQuiet /\ DatQuiet /\ UNCHANGED rdBuf
  <2>1. /\ IniMoves /\ ini'.st \in {"idle", "run"}
        /\ {"st", "startR", "done", "error"} \subseteq DOMAIN ini'
    BY <1>3 DEF EnginesTyped, IniEnds, IniMoves
  <2>2. CardTyped(card')
    BY <1>3 DEF IniEnds, CardTyped, InitialisedCard, PoweredCard
  <2>3. faults' \in 0..MaxFaults
    BY <1>0, <1>3 DEF IniEnds
  <2> QED
    BY <1>3, <2>1, <2>2, <2>3 DEF EnginesTyped
<1>4. CASE CmdQuiet /\ DatQuiet /\ IniQuiet /\ CardWaits /\ UNCHANGED rdBuf
  <2>1. CardTyped(card')
    BY <1>4, CardSteps DEF EnginesTyped, CardWaits
  <2>2. faults' \in 0..MaxFaults
    BY <1>0, <1>4 DEF CardWaits
  <2> QED
    BY <1>4, <2>1, <2>2 DEF EnginesTyped
<1> QED
  BY <1>1, <1>2, <1>3, <1>4 DEF EngineEdge

-----------------------------------------------------------------------------
(* The inductive invariant.  EngineOwned speaks of engines at work; a start *)
(* line is high one edge before, and a done that is still high must not meet *)
(* a new start.                                                             *)

CommandOwned ==
    /\ ctl.cmdStart => ctl.mcState \in CmdStates
    /\ cmd.busy => ctl.mcState \in CmdStates /\ ~cmd.done

DataOwned ==
    /\ ctl.datRdStart => ctl.mcState \in ReadStates /\ ~dat.done
    /\ ctl.datWrStart => ctl.mcState = "WRITE_DAT" /\ ~dat.done
    /\ dat.st = "rd" => ctl.mcState \in ReadStates /\ ~dat.done
    /\ dat.st = "wr" => ctl.mcState = "WRITE_DAT" /\ ~dat.done

InitOwned ==
    /\ ctl.initStart => ini.st # "run" /\ ~ini.startR
    /\ ini.st = "run" => ~ini.startR
    /\ ctl.initStart \/ ini.startR \/ ini.st = "run" =>
          ctl.mcState = "INIT" /\ ~ini.done /\ ~ini.error

PauseOwned == ctl.clkPause => ctl.mcState = "READ_DONE" /\ ctl.useMultiBlock

UartTyped == "st" \in DOMAIN uart /\ uart.st \in {"idle", "header", "payload"}

IInv ==
    /\ Typed(ctl) /\ EnginesTyped /\ UartTyped
    /\ CommandOwned /\ DataOwned /\ InitOwned /\ PauseOwned

LEMMA InitEstablishes == ASSUME Init PROVE IInv
<1> USE DEF Init, CtlInit, ResetRegisters
<1>1. Typed(ctl)
  BY ControllerAssumption DEF Typed
<1>2. EnginesTyped
  BY ControllerAssumption DEF EnginesTyped, CardTyped, PoweredCard
<1>3. CommandOwned /\ DataOwned /\ InitOwned /\ PauseOwned /\ UartTyped
  BY DEF CommandOwned, DataOwned, InitOwned, PauseOwned, UartTyped
<1> QED
  BY <1>1, <1>2, <1>3 DEF IInv

LEMMA UartEdge == ASSUME UartTyped, PortEdge PROVE UartTyped'
<1>1. ASSUME NEW r \in Requests, SendRequest(r) PROVE UartTyped'
  BY <1>1 DEF UartTyped, SendRequest
<1>2. CASE Transmit
  BY <1>2 DEF UartTyped, Transmit, TakeSector, SendHeader, SendPayload, SendResponse,
              TransmitIdle
<1> QED
  BY <1>1, <1>2 DEF PortEdge

LEMMA StepPreserves == ASSUME IInv, [Next]_vars PROVE IInv'
<1>1. CASE Next
  <2>1. Disciplined
    BY <1>1, FsmEdge DEF Next, ControllerEdge, IInv
  <2>2. EnginesTyped' /\ CmdMoves /\ DatMoves /\ IniMoves
    BY <1>1, EnginesEdge DEF Next, ControllerEdge, IInv
  <2>3. Typed(ctl)'
    BY <2>1 DEF Disciplined
  <2>4. UartTyped'
    BY <1>1, UartEdge DEF Next, IInv
  <2>5. CommandOwned'
    BY <2>1, <2>2 DEF IInv, CommandOwned, Disciplined, StartsCommand, CmdMoves
  <2>6. DataOwned'
    BY <2>1, <2>2 DEF IInv, EnginesTyped, DataOwned, Disciplined, StartsData, DatMoves
  <2>7. InitOwned'
    BY <2>1, <2>2 DEF IInv, EnginesTyped, InitOwned, Disciplined, StartsInit, IniMoves
  <2>8. PauseOwned'
    BY <2>1 DEF IInv, PauseOwned, Disciplined, Pauses
  <2> QED
    BY <2>2, <2>3, <2>4, <2>5, <2>6, <2>7, <2>8 DEF IInv
<1>2. CASE UNCHANGED vars
  BY <1>2 DEF vars, ctlVars, IInv, EnginesTyped, UartTyped, CardTyped, CommandOwned,
              DataOwned, InitOwned, PauseOwned
<1> QED
  BY <1>1, <1>2

LEMMA Invariance == Spec => []IInv
BY InitEstablishes, StepPreserves, PTL DEF Spec

(* The FSM stays in its states, the banks in their buffers and the counters *)
(* within their bounds.                                                     *)
THEOREM TypeCorrect == Spec => []TypeOK
<1>1. IInv => TypeOK
  BY DEF IInv, Typed, EnginesTyped, CardTyped, UartTyped, TypeOK
<1> QED
  BY <1>1, Invariance, PTL

(* Each engine works only in the FSM's states that wait for it, whatever    *)
(* the card and the UART side do: the start guards of EmmcCmd.scala:87 and  *)
(* the one-edge start pulses of EmmcController.scala never restart one.     *)
THEOREM EnginesOwned == Spec => []EngineOwned
<1>1. IInv => EngineOwned
  BY DEF IInv, CommandOwned, DataOwned, InitOwned, EngineOwned
<1> QED
  BY <1>1, Invariance, PTL

(* The card clock is paused only between two blocks of a multi-block read,  *)
(* while no engine needs it.                                                *)
THEOREM PauseIsSafe == Spec => []PausedBetweenBlocks
<1>1. IInv => PausedBetweenBlocks
  BY DEF IInv, EnginesTyped, PauseOwned, CommandOwned, DataOwned, InitOwned, DatIdle,
         PausedBetweenBlocks
<1> QED
  BY <1>1, Invariance, PTL

-----------------------------------------------------------------------------
\* With four faults a boot can give up, and answers without being asked.
BootSucceeds == InitFaults => MaxFaults <= 3

-----------------------------------------------------------------------------
(* What one edge of the FSM may do with the command it works on.            *)

AnswerFields == {"mcState", "reinitPending", "bootRetryCnt", "cmdReady", "respValid",
                 "respStatus", "cmdValidD"}

Booting(c) == c.mcState \in {"IDLE", "INIT"} /\ ~c.reinitPending
Working(c) == c.mcState # "READY" /\ ~Booting(c)
BootFails == Booting(ctl) /\ ctl.mcState = "INIT" /\ ini.error /\ ~bootRetryLeft

Asked == ctl.mcState = "READY" /\ ctl.cmdValidD

AnswersAtEnd ==
    ctl'.respValid => /\ Working(ctl) \/ Asked
                      /\ ctl'.mcState = "READY" /\ ctl'.respStatus \in Statuses
WorksWhenAsked == Working(ctl') => Working(ctl) \/ Asked \/ BootFails
StaysReady == ctl.mcState = "READY" /\ ~ctl.cmdValidD => ctl'.mcState = "READY"
ReadyIsReady ==
    (ctl.cmdReady => ctl.mcState = "READY") => (ctl'.cmdReady => ctl'.mcState = "READY")
ReinitIsInit ==
    (ctl.reinitPending => ctl.mcState \in {"IDLE", "INIT"})
        => (ctl'.reinitPending => ctl'.mcState \in {"IDLE", "INIT"})
BootsOnce ==
    Booting(ctl') => /\ Booting(ctl)
                     /\ \/ ctl'.bootRetryCnt = ctl.bootRetryCnt
                           /\ ~(ctl.mcState = "INIT" /\ ini.error)
                        \/ ctl.mcState = "INIT" /\ ini.error
                           /\ ctl'.bootRetryCnt = ctl.bootRetryCnt + 1

AnswersOnce ==
    /\ AnswerFields \subseteq DOMAIN ctl' /\ ctl'.cmdValidD = port.cmdValid
    /\ AnswersAtEnd /\ WorksWhenAsked /\ StaysReady /\ ReadyIsReady /\ ReinitIsInit /\ BootsOnce

AnswerTyped ==
    /\ AnswerFields \subseteq DOMAIN ctl
    /\ ctl.mcState \in McStates /\ ctl.respStatus \in Statuses

USE DEF AnswerFields, Statuses, CmdStates, DatStates, BusyStates, McStates

LEMMA ClearedAnswers ==
    ASSUME AnswerTyped
    PROVE  /\ DOMAIN Cleared = DOMAIN ctl
           /\ Cleared.respValid = FALSE /\ Cleared.cmdValidD = port.cmdValid
           /\ Cleared.mcState = ctl.mcState /\ Cleared.cmdReady = ctl.cmdReady
           /\ Cleared.reinitPending = ctl.reinitPending
           /\ Cleared.bootRetryCnt = ctl.bootRetryCnt
           /\ Cleared.respStatus = ctl.respStatus
BY DEF AnswerTyped, Cleared

LEMMA LoadedAnswers ==
    ASSUME AnswerTyped
    PROVE  /\ DOMAIN Loaded = DOMAIN ctl
           /\ Loaded.respValid = FALSE /\ Loaded.cmdValidD = port.cmdValid
           /\ Loaded.mcState = ctl.mcState /\ Loaded.cmdReady = FALSE
           /\ Loaded.reinitPending = ctl.reinitPending
           /\ Loaded.bootRetryCnt = ctl.bootRetryCnt
BY ClearedAnswers DEF AnswerTyped, Loaded

USE DEF AnswersOnce, AnswersAtEnd, WorksWhenAsked, StaysReady, ReadyIsReady, ReinitIsInit,
        BootsOnce, AnswerTyped, Working, Booting, Asked, BootFails

LEMMA InitAnswers ==
    ASSUME AnswerTyped, StartInit \/ AwaitInit \/ FinishInit \/ FailInit
    PROVE  AnswersOnce
<1> USE ClearedAnswers
<1>1. CASE StartInit
  BY <1>1 DEF StartInit
<1>2. CASE AwaitInit
  BY <1>2 DEF AwaitInit
<1>3. CASE FinishInit
  BY <1>3 DEF FinishInit, Answered
<1>4. CASE FailInit
  BY <1>4 DEF FailInit, Answered, bootRetryLeft
<1> QED
  BY <1>1, <1>2, <1>3, <1>4

LEMMA ReadyAnswers ==
    ASSUME AnswerTyped, AwaitCommand \/ RejectCommand \/ AcceptRead \/ AcceptWrite
                        \/ AcceptErase \/ AcceptExtCsd \/ AcceptStatus \/ AcceptSwitch
                        \/ AcceptReinit \/ SetClkDiv \/ SetRpmbMode \/ AcceptRaw
    PROVE  AnswersOnce
<1> USE LoadedAnswers, ClearedAnswers DEF Dispatch
<1>1. CASE AwaitCommand
  BY <1>1 DEF AwaitCommand, Go
<1>2. CASE RejectCommand
  BY <1>2 DEF RejectCommand, Answered
<1>3. CASE AcceptRead
  BY <1>3 DEF AcceptRead
<1>4. CASE AcceptWrite
  BY <1>4 DEF AcceptWrite, DispatchWrite, LoadedWrite
<1>5. CASE AcceptErase
  BY <1>5 DEF AcceptErase
<1>6. CASE AcceptExtCsd
  BY <1>6 DEF AcceptExtCsd
<1>7. CASE AcceptStatus
  BY <1>7 DEF AcceptStatus
<1>8. CASE AcceptSwitch
  BY <1>8 DEF AcceptSwitch
<1>9. CASE AcceptReinit
  BY <1>9 DEF AcceptReinit
<1>10. CASE SetClkDiv
  BY <1>10 DEF SetClkDiv, Answered
<1>11. CASE SetRpmbMode
  BY <1>11 DEF SetRpmbMode, Answered
<1>12. CASE AcceptRaw
  BY <1>12 DEF AcceptRaw
<1> QED
  BY <1>1, <1>2, <1>3, <1>4, <1>5, <1>6, <1>7, <1>8, <1>9, <1>10, <1>11, <1>12

LEMMA CommandAnswers ==
    ASSUME AnswerTyped, IssueCommand \/ CommandFails \/ ReadCommandDone
                        \/ ExtCsdCommandDone \/ WriteCommandDone \/ StopCommandDone
                        \/ SwitchCommandDone \/ SwitchStatusDone \/ EraseCommandDone
                        \/ StatusCommandDone \/ BlockCountDone \/ RawCommandDone
    PROVE  AnswersOnce
<1> USE ClearedAnswers DEF CommandDone, Taken
<1>1. CASE IssueCommand
  BY <1>1 DEF IssueCommand, NextCmd
<1>2. CASE CommandFails
  BY <1>2 DEF CommandFails, Failed, FailsToError, ChecksDeviceStatus
<1>3. CASE ReadCommandDone
  BY <1>3 DEF ReadCommandDone
<1>4. CASE ExtCsdCommandDone
  BY <1>4 DEF ExtCsdCommandDone
<1>5. CASE WriteCommandDone
  BY <1>5 DEF WriteCommandDone
<1>6. CASE StopCommandDone
  BY <1>6 DEF StopCommandDone, Go
<1>7. CASE SwitchCommandDone
  BY <1>7 DEF SwitchCommandDone
<1>8. CASE SwitchStatusDone
  BY <1>8 DEF SwitchStatusDone, Answered
<1>9. CASE EraseCommandDone
  BY <1>9 DEF EraseCommandDone, NextCmd
<1>10. CASE StatusCommandDone
  BY <1>10 DEF StatusCommandDone, Answered
<1>11. CASE BlockCountDone
  BY <1>11 DEF BlockCountDone, NextCmd
<1>12. CASE RawCommandDone
  BY <1>12 DEF RawCommandDone, Answered
<1> QED
  BY <1>1, <1>2, <1>3, <1>4, <1>5, <1>6, <1>7, <1>8, <1>9, <1>10, <1>11, <1>12

LEMMA DataAnswers ==
    ASSUME AnswerTyped, AwaitData \/ DataFails \/ ReadBlockDone \/ ExtCsdBlockDone
                        \/ ContinueRead \/ FinishBlocks \/ WriteBlockDone
                        \/ ContinueWrite \/ WriteWatchdog \/ AwaitRpmbData
                        \/ RpmbWatchdog
    PROVE  AnswersOnce
<1> USE ClearedAnswers
<1>1. CASE AwaitData
  BY <1>1 DEF AwaitData, Go
<1>2. CASE DataFails
  BY <1>2 DEF DataFails, Failed
<1>3. CASE ReadBlockDone
  BY <1>3 DEF ReadBlockDone, Staged
<1>4. CASE ExtCsdBlockDone
  BY <1>4 DEF ExtCsdBlockDone, Staged, Answered
<1>5. CASE ContinueRead
  BY <1>5 DEF ContinueRead
<1>6. CASE FinishBlocks
  BY <1>6 DEF FinishBlocks, NextCmd, Answered
<1>7. CASE WriteBlockDone
  BY <1>7 DEF WriteBlockDone
<1>8. CASE ContinueWrite
  BY <1>8 DEF ContinueWrite, moreToWrite
<1>9. CASE WriteWatchdog
  BY <1>9 DEF WriteWatchdog, moreToWrite, NextCmd, Answered
<1>10. CASE AwaitRpmbData
  BY <1>10 DEF AwaitRpmbData, NextCmd
<1>11. CASE RpmbWatchdog
  BY <1>11 DEF RpmbWatchdog, Answered
<1> QED
  BY <1>1, <1>2, <1>3, <1>4, <1>5, <1>6, <1>7, <1>8, <1>9, <1>10, <1>11

LEMMA BusyAnswers ==
    ASSUME AnswerTyped, StillBusy \/ BusyReleased \/ BusyTimeout \/ ReportError
                        \/ ErrorStopDone
    PROVE  AnswersOnce
<1> USE ClearedAnswers
<1>1. CASE StillBusy
  BY <1>1 DEF StillBusy, Go
<1>2. CASE BusyReleased
  BY <1>2 DEF BusyReleased, NextCmd, Answered
<1>3. CASE BusyTimeout
  BY <1>3 DEF BusyTimeout, Failed
<1>4. CASE ReportError
  BY <1>4 DEF ReportError, NextCmd, Answered
<1>5. CASE ErrorStopDone
  BY <1>5 DEF ErrorStopDone, Answered
<1> QED
  BY <1>1, <1>2, <1>3, <1>4, <1>5

LEMMA AnswerEdge == ASSUME AnswerTyped, CtlEdge PROVE AnswersOnce
BY InitAnswers, ReadyAnswers, CommandAnswers, DataAnswers, BusyAnswers DEF CtlEdge

-----------------------------------------------------------------------------
(* The inductive invariant: a command is in one place at a time, on the     *)
(* port, in the register behind it, in the FSM or in its answer; and while   *)
(* it is anywhere the host waits.                                           *)

BenchTyped ==
    /\ {"open", "answered", "req"} \subseteq DOMAIN job
    /\ "resp" \in DOMAIN uart /\ "cmdValid" \in DOMAIN port

Pending == Working(ctl) \/ ctl.cmdValidD \/ port.cmdValid \/ ctl.respValid

HostWaits ==
    Pending => /\ job.open /\ ~job.answered /\ job.req.id # "BOOT"
               /\ uart.resp = "none"

OnePlace ==
    /\ port.cmdValid => ctl.mcState = "READY" /\ ~ctl.cmdValidD
    /\ ctl.cmdValidD => ctl.mcState = "READY"
    /\ ctl.respValid => ctl.mcState = "READY" /\ ~ctl.cmdValidD /\ ~port.cmdValid

AnswerLatched ==
    /\ uart.resp # "none" => job.answered
    /\ job.answered => job.req.id # "BOOT"
    /\ ~job.open => ctl.mcState = "READY"

BootFirst ==
    /\ job.req.id # "BOOT" => ~Booting(ctl)
    /\ ctl.cmdReady => ctl.mcState = "READY"
    /\ ctl.reinitPending => ctl.mcState \in {"IDLE", "INIT"}

\* Every boot but the current one, and that one too once it is reported, failed.
bootFailures == IF ctl.mcState = "INIT" /\ ini.error THEN ctl.bootRetryCnt + 1
                                                     ELSE ctl.bootRetryCnt
FailuresCounted == Booting(ctl) => ctl.bootRetryCnt \in Nat /\ bootFailures <= faults

FailuresNeedFaults == ~InitFaults => ~ini.error

AInv ==
    /\ IInv /\ AnswerTyped /\ BenchTyped
    /\ HostWaits /\ OnePlace /\ AnswerLatched /\ BootFirst /\ FailuresCounted
    /\ FailuresNeedFaults

LEMMA AnswerInit == ASSUME Init PROVE AInv
<1> USE DEF Init, CtlInit, ResetRegisters
<1>1. AnswerTyped /\ BenchTyped
  BY DEF AnswerTyped, BenchTyped
<1>2. HostWaits /\ OnePlace /\ AnswerLatched
  BY DEF HostWaits, Pending, OnePlace, AnswerLatched, Boot
<1>3. BootFirst /\ FailuresCounted /\ FailuresNeedFaults
  BY DEF BootFirst, FailuresCounted, bootFailures, FailuresNeedFaults, Boot
<1> QED
  BY <1>1, <1>2, <1>3, InitEstablishes DEF AInv

\* What the bridge's side of an edge does with the command.
Asks ==
    /\ ~job.open /\ uart.resp = "none"
    /\ port'.cmdValid /\ job'.open /\ ~job'.answered /\ job'.req.id # "BOOT"
    /\ uart'.resp = "none"

Listens ==
    /\ ~port'.cmdValid /\ job'.req = job.req
    /\ job'.answered <=> (job.answered \/ ctl.respValid)
    /\ \/ uart'.resp = Latched /\ (job'.open <=> job.open)
       \/ uart'.resp = Latched /\ job.req.id = "BOOT" /\ ctl.cmdReady /\ ~ctl.respValid
       \/ /\ uart.resp # "none"
          /\ uart'.resp = IF ctl.respValid THEN ctl.respStatus ELSE "none"

LEMMA BenchEdge == ASSUME BenchTyped, PortEdge PROVE BenchTyped' /\ (Asks \/ Listens)
<1>1. ASSUME NEW r \in Requests, SendRequest(r) PROVE BenchTyped' /\ Asks
  <2>1. ~job.open /\ uart.resp = "none"
    BY <1>1 DEF SendRequest, HostFree
  <2>2. "resp" \in DOMAIN uart' /\ uart'.resp = uart.resp
    BY <1>1 DEF SendRequest, BenchTyped
  <2>3. /\ {"open", "answered", "req"} \subseteq DOMAIN job'
        /\ job'.open /\ ~job'.answered /\ job'.req.id = r.id
    BY <1>1 DEF SendRequest
  <2>4. DOMAIN PortCleared = DOMAIN port
    BY DEF PortCleared
  <2>5. "cmdValid" \in DOMAIN port' /\ port'.cmdValid
    BY <1>1, <2>4 DEF SendRequest, BenchTyped
  <2>6. r.id # "BOOT"
    BY BenchAssumption
  <2> QED
    BY <2>1, <2>2, <2>3, <2>5, <2>6 DEF BenchTyped, Asks
<1>2. ASSUME ReceiveSector \/ port' = PortCleared
      PROVE  "cmdValid" \in DOMAIN port' /\ ~port'.cmdValid
  <2>1. DOMAIN PortCleared = DOMAIN port /\ ~PortCleared.cmdValid
    BY DEF PortCleared, BenchTyped
  <2> QED
    BY <1>2, <2>1 DEF ReceiveSector, BenchTyped
<1>3. ASSUME Transmit
      PROVE  /\ {"open", "answered", "req"} \subseteq DOMAIN job' /\ "resp" \in DOMAIN uart'
             /\ job'.req = job.req
             /\ job'.answered <=> (job.answered \/ ctl.respValid)
             /\ \/ uart'.resp = Latched /\ (job'.open <=> job.open)
                \/ uart'.resp = Latched /\ job.req.id = "BOOT" /\ ctl.cmdReady /\ ~ctl.respValid
                \/ /\ uart.resp # "none"
                   /\ uart'.resp = IF ctl.respValid THEN ctl.respStatus ELSE "none"
  <2>1. /\ DOMAIN JobSeen = DOMAIN job /\ JobSeen.req = job.req /\ JobSeen.open = job.open
        /\ JobSeen.answered <=> (job.answered \/ ctl.respValid)
    BY DEF JobSeen, BenchTyped
  <2> USE <2>1 DEF BenchTyped
  <2>2. CASE TakeSector \/ SendHeader
    BY <2>2 DEF TakeSector, SendHeader
  <2>3. CASE SendPayload
    BY <2>3 DEF SendPayload
  <2>4. CASE SendResponse
    BY <2>4 DEF SendResponse
  <2>5. CASE TransmitIdle
    BY <2>5 DEF TransmitIdle, Booted
  <2> QED
    BY <1>3, <2>2, <2>3, <2>4, <2>5 DEF Transmit
<1> QED
  BY <1>1, <1>2, <1>3 DEF PortEdge, Listens, BenchTyped

\* An initialisation that fails has cost a fault.
LEMMA FailureIsFault ==
    ASSUME EnginesTyped, InitOwned, EngineEdge
    PROVE  /\ faults' \in Nat /\ faults' >= faults
           /\ ini'.error => \/ ini' = ini
                            \/ InitFaults /\ faults' = faults + 1
<1>1. faults \in Nat
  BY ControllerAssumption DEF EnginesTyped
<1>2. ASSUME Fault \/ NoFault PROVE faults' \in Nat /\ faults' >= faults
  BY <1>1, <1>2 DEF Fault, NoFault
<1>3. faults' \in Nat /\ faults' >= faults
  <2>1. CmdAnswered \/ CmdIllegal \/ CmdFault => Fault \/ NoFault
    BY DEF CmdAnswered, CmdIllegal, CmdFault
  <2>2. DatByte \/ DatBlock \/ DatTimeout => Fault \/ NoFault
    BY DEF DatByte, DatBlock, DatTimeout, NoFault
  <2>3. IniEnds \/ CardWaits => Fault \/ NoFault
    BY DEF IniEnds, CardWaits
  <2> QED
    BY <1>2, <2>1, <2>2, <2>3 DEF EngineEdge
<1>4. IniQuiet => ini' = ini \/ ~ini'.error
  BY DEF IniQuiet, EnginesTyped
<1>5. ASSUME IniEnds PROVE ini' = ini \/ ~ini'.error \/ (InitFaults /\ faults' = faults + 1)
  <2>1. CASE ini' = [ini EXCEPT !.st = "idle", !.startR = FALSE, !.done = TRUE,
                                !.useFastClk = TRUE]
    <3>1. ~ini.error
      BY <1>5 DEF IniEnds, InitOwned
    <3>2. ini'.error = ini.error
      BY <2>1 DEF EnginesTyped
    <3> QED
      BY <3>1, <3>2
  <2> QED
    BY <1>5, <2>1 DEF IniEnds, Fault
<1> QED
  BY <1>3, <1>4, <1>5 DEF EngineEdge

LEMMA AnswerStep == ASSUME BootSucceeds, AInv, [Next]_vars PROVE AInv'
<1> USE DEF AInv
<1>1. CASE Next
  <2>1. AnswersOnce
    BY <1>1, AnswerEdge DEF Next, ControllerEdge
  <2>2. BenchTyped' /\ (Asks \/ Listens)
    BY <1>1, BenchEdge DEF Next
  <2>3. IInv'
    BY <1>1, StepPreserves
  <2>4. EngineEdge /\ EnginesTyped
    BY <1>1 DEF Next, ControllerEdge, IInv
  <2>5. ~BootFails
    BY ControllerAssumption, <2>4
       DEF BootSucceeds, BootFails, bootRetryLeft, FailuresCounted, bootFailures,
           FailuresNeedFaults, EnginesTyped
  <2>6. AnswerTyped'
    BY <2>1, <2>3 DEF AnswersOnce, AnswerTyped, IInv, Typed
  <2>7. BootFirst'
    BY <2>1, <2>2 DEF BootFirst, AnswersOnce, Asks, Listens, AnswerLatched
  <2>8. HostWaits'
    <3>1. CASE Asks
      BY <2>1, <3>1 DEF HostWaits, Asks
    <3>2. CASE Listens
      <4>1. ASSUME Pending' PROVE Pending /\ ~ctl.respValid
        BY <2>1, <2>5, <3>2, <4>1 DEF Pending, AnswersOnce, Listens, OnePlace
      <4> QED
        BY <3>2, <4>1 DEF HostWaits, Listens, Latched
    <3> QED
      BY <2>2, <3>1, <3>2
  <2>9. OnePlace'
    <3>1. CASE Asks
      BY <2>1, <3>1 DEF OnePlace, HostWaits, Pending, AnswersOnce, Asks, AnswerLatched
    <3>2. CASE Listens
      BY <2>1, <3>2 DEF OnePlace, AnswersOnce, Listens
    <3> QED
      BY <2>2, <3>1, <3>2
  <2>10. AnswerLatched'
    <3>1. CASE Asks
      BY <3>1 DEF Asks, AnswerLatched
    <3>2. CASE Listens
      <4>1. uart'.resp # "none" => job'.answered
        BY <3>2 DEF Listens, Latched, AnswerLatched
      <4>2. job'.answered => job'.req.id # "BOOT"
        BY <3>2 DEF Listens, AnswerLatched, HostWaits, Pending
      <4>3. ASSUME ~job'.open PROVE ctl.mcState = "READY" /\ ~ctl.cmdValidD
        BY <3>2, <4>3 DEF Listens, AnswerLatched, HostWaits, Pending, BootFirst
      <4>4. ~job'.open => ctl'.mcState = "READY"
        BY <2>1, <4>3 DEF AnswersOnce
      <4> QED
        BY <4>1, <4>2, <4>4 DEF AnswerLatched
    <3> QED
      BY <2>2, <3>1, <3>2
  <2>11. FailuresNeedFaults'
    BY <2>4, FailureIsFault DEF FailuresNeedFaults, IInv
  <2>12. FailuresCounted'
    <3>1. SUFFICES ASSUME Booting(ctl')
                   PROVE  ctl'.bootRetryCnt \in Nat /\ bootFailures' <= faults'
      BY DEF FailuresCounted
    <3>2. /\ Booting(ctl) /\ ctl.bootRetryCnt \in Nat /\ bootFailures <= faults
          /\ faults \in Nat /\ faults' \in Nat /\ faults' >= faults
      BY <2>1, <2>4, <3>1, FailureIsFault, ControllerAssumption
         DEF AnswersOnce, FailuresCounted, IInv, EnginesTyped
    <3>3. CASE ctl.mcState = "INIT" /\ ini.error
      <4>1. ctl'.bootRetryCnt = ctl.bootRetryCnt + 1
        BY <2>1, <3>1, <3>3 DEF AnswersOnce
      <4>2. ~ini'.error
        BY <2>4, <3>3, EnginesEdge DEF IniMoves, IInv, InitOwned
      <4> QED
        BY <3>2, <3>3, <4>1, <4>2 DEF bootFailures
    <3>4. CASE ~(ctl.mcState = "INIT" /\ ini.error)
      <4>1. ctl'.bootRetryCnt = ctl.bootRetryCnt
        BY <2>1, <3>1, <3>4 DEF AnswersOnce
      <4>2. CASE ini' = ini
        <5>1. ~ini'.error
          BY <2>4, <4>2, EnginesEdge DEF IniMoves, IInv, InitOwned
        <5> QED
          BY <3>2, <3>4, <4>1, <5>1 DEF bootFailures
      <4>3. CASE ini' # ini
        BY <2>4, <3>2, <3>4, <4>1, <4>3, FailureIsFault DEF bootFailures, IInv
      <4> QED
        BY <4>2, <4>3
    <3> QED
      BY <3>3, <3>4
  <2> QED
    BY <2>2, <2>3, <2>6, <2>7, <2>8, <2>9, <2>10, <2>11, <2>12
<1>2. CASE UNCHANGED vars
  <2> USE <1>2 DEF vars, ctlVars
  <2>1. IInv'
    BY StepPreserves
  <2>2. AnswerTyped' /\ BenchTyped'
    BY DEF BenchTyped
  <2>3. HostWaits' /\ OnePlace' /\ AnswerLatched'
    BY DEF HostWaits, Pending, OnePlace, AnswerLatched
  <2>4. BootFirst' /\ FailuresCounted' /\ FailuresNeedFaults'
    BY DEF BootFirst, FailuresCounted, bootFailures, FailuresNeedFaults
  <2> QED
    BY <2>1, <2>2, <2>3, <2>4
<1> QED
  BY <1>1, <1>2

LEMMA AnswerInvariance == BootSucceeds => (Spec => []AInv)
<1>1. SUFFICES ASSUME BootSucceeds PROVE Spec => []AInv
  OBVIOUS
<1>2. AInv /\ [Next]_vars => AInv'
  BY <1>1, AnswerStep
<1> QED
  BY <1>2, AnswerInit, PTL DEF Spec

(* No command is answered twice and no answer comes unasked, unless the     *)
(* card fails four initialisations at power-on.                             *)
THEOREM AnsweredAtMostOnce == BootSucceeds => (Spec => []AnsweredOnce)
<1>1. AInv => AnsweredOnce
  BY DEF AInv, HostWaits, Pending, AnsweredOnce, requested
<1> QED
  BY <1>1, AnswerInvariance, PTL

-----------------------------------------------------------------------------
(* A switch answered OK has taken effect: the course of every command        *)
(* through the FSM, the registers a switch plans and commits, and what the   *)
(* card does with the commands of a course.                                  *)

\* The addresses of a transfer are the card's, and its count is not larger
\* (the port has 32 bits for the one, 16 for the other).
TransfersFit ==
    \A r \in Requests : r.id \in Transfers => r.lba \in 0..LbaSpace - 1 /\ r.count \in 0..LbaSpace

-----------------------------------------------------------------------------
(* The course of a command through the FSM: which request a state belongs   *)
(* to, and which command it has loaded.                                     *)

Switches == {"SET_PARTITION", "WRITE_EXT_CSD", "SET_BUS_WIDTH"}
Erases == {"ERASE", "SECURE_ERASE"}
TransferStates == {"RPMB_CMD23", "STOP_CMD", "STOP_WAIT"}

OnPath(c) ==
    /\ c.mcState \in {"READ_CMD", "READ_DAT", "READ_DONE"} => port.cmdId = "READ_SECTOR"
    /\ c.mcState \in {"WRITE_CMD", "WRITE_DAT", "WRITE_DONE", "RPMB_FIFO_WAIT"} =>
          port.cmdId = "WRITE_SECTOR"
    /\ c.mcState \in TransferStates => port.cmdId \in Transfers
    /\ c.mcState = "RPMB_CMD23" => (c.isReadOp <=> port.cmdId = "READ_SECTOR")
    /\ c.mcState \in {"EXT_CSD_CMD", "EXT_CSD_DAT"} => port.cmdId = "GET_EXT_CSD"
    /\ c.mcState \in {"SWITCH_CMD", "SWITCH_STATUS"} => port.cmdId \in Switches
    /\ c.mcState \in {"ERASE_START", "ERASE_END", "ERASE_CMD"} => port.cmdId \in Erases
    /\ c.mcState = "SWITCH_WAIT" =>
          port.cmdId \in IF c.switchNeedsVerify THEN Switches ELSE Erases
    /\ c.mcState = "STATUS_CMD" => port.cmdId = "GET_CARD_STATUS"
    /\ c.mcState \in {"RAW_CMD", "RAW_WAIT"} => port.cmdId = "SEND_RAW"
    /\ c.mcState \in {"IDLE", "INIT"} => port.cmdId \in {"BOOT", "REINIT"}
    /\ c.mcState \in {"ERROR", "ERROR_STOP"} =>
          /\ port.cmdId \notin {"BOOT", "REINIT"}
          /\ port.cmdId # "WRITE_SECTOR" => c.respStatus = "EMMC_ERR"

Loads(c, indexes, arg) == c.cmdIndex \in indexes /\ c.cmdArg = arg /\ c.cmdRespExp

Commanded(c) ==
    /\ c.mcState = "READ_CMD" => Loads(c, {17, 18}, Plain(port.cmdLba))
    /\ c.mcState = "WRITE_CMD" => Loads(c, {24, 25}, Plain(port.cmdLba))
    /\ c.mcState = "RPMB_CMD23" => c.cmdRespExp
    /\ c.mcState = "STOP_CMD" => Loads(c, {12}, Plain(0))
    /\ c.mcState = "EXT_CSD_CMD" => Loads(c, {8}, Plain(0))
    /\ c.mcState = "SWITCH_CMD" => Loads(c, {6}, preCmdArgument)
    /\ c.mcState = "SWITCH_STATUS" => Loads(c, {13}, Plain(0))

CommandGood == cmd.done /\ ~cmd.error /\ ~cmd.device
One(b) == IF b THEN 1 ELSE 0

\* A transfer of one block is not continued.
MoreNeedsMulti ==
    ctl.mcState \in {"READ_DONE", "WRITE_DONE"} /\ ctl.sectorsLeft # 0 => ctl.useMultiBlock

StaysOnPath == OnPath(ctl) /\ ~BootFails /\ MoreNeedsMulti => OnPath(ctl')
StaysCommanded == OnPath(ctl) /\ MoreNeedsMulti /\ Commanded(ctl) => Commanded(ctl')

CountLoaded(c) == Loads(c, {23}, Plain(1))
SameLoaded == /\ ctl'.cmdIndex = ctl.cmdIndex /\ ctl'.cmdArg = ctl.cmdArg
              /\ ctl'.cmdRespExp = ctl.cmdRespExp

CommandKept ==
    /\ ctl.mcState \in CmdStates /\ ~cmd.done =>
          IF ctl.mcState = "RPMB_CMD23" THEN CountLoaded(ctl') ELSE SameLoaded
    /\ ctl'.cmdStart /\ ctl'.mcState = "RPMB_CMD23" => CountLoaded(ctl')

OnCourse == DOMAIN ctl' = DOMAIN ctl /\ StaysOnPath /\ StaysCommanded /\ CommandKept

CourseFields == {"mcState", "isReadOp", "switchNeedsVerify", "respStatus", "cmdIndex",
                 "cmdArg", "cmdRespExp", "cmdStart"}
CourseTyped == CourseFields \subseteq DOMAIN ctl /\ ctl.mcState \in McStates

LEMMA ClearedCourse ==
    ASSUME CourseTyped
    PROVE  /\ DOMAIN Cleared = DOMAIN ctl /\ Cleared.cmdStart = FALSE
           /\ Cleared.mcState = ctl.mcState /\ Cleared.isReadOp = ctl.isReadOp
           /\ Cleared.switchNeedsVerify = ctl.switchNeedsVerify
           /\ Cleared.respStatus = ctl.respStatus
           /\ Cleared.cmdIndex = ctl.cmdIndex /\ Cleared.cmdArg = ctl.cmdArg
           /\ Cleared.cmdRespExp = ctl.cmdRespExp
BY DEF CourseTyped, CourseFields, Cleared

LEMMA LoadedCourse ==
    ASSUME CourseTyped
    PROVE  /\ DOMAIN Loaded = DOMAIN ctl /\ Loaded.cmdStart = FALSE
           /\ Loaded.mcState = ctl.mcState /\ Loaded.respStatus = ctl.respStatus
           /\ Loaded.cmdIndex = preCmdIndex /\ Loaded.cmdArg = preCmdArgument
           /\ port.cmdId # "SEND_RAW" => (Loaded.cmdRespExp <=> preCmdIndex # 0)
BY ClearedCourse DEF CourseTyped, CourseFields, Loaded

\* What a request translates to.
LEMMA Translated ==
    /\ port.cmdId = "READ_SECTOR" => preCmdIndex \in {17, 18}
    /\ port.cmdId = "WRITE_SECTOR" => preCmdIndex \in {24, 25}
    /\ port.cmdId \in Transfers => preCmdArgument = Plain(port.cmdLba)
    /\ port.cmdId = "GET_EXT_CSD" => preCmdIndex = 8 /\ preCmdArgument = Plain(0)
    /\ port.cmdId \in Switches => preCmdIndex = 6
BY DEF preCmdIndex, preCmdArgument, Transfers, Switches

USE DEF OnCourse, StaysOnPath, StaysCommanded, CommandKept, OnPath, Commanded, Loads,
        CountLoaded, SameLoaded, MoreNeedsMulti, CourseTyped, CourseFields,
        Transfers, Switches, Erases, TransferStates,
        CmdStates, DatStates, BusyStates, McStates, Booting, BootFails

LEMMA InitCourse ==
    ASSUME CourseTyped, StartInit \/ AwaitInit \/ FinishInit \/ FailInit
    PROVE  OnCourse
<1> USE ClearedCourse
<1>1. CASE StartInit
  BY <1>1 DEF StartInit
<1>2. CASE AwaitInit
  BY <1>2 DEF AwaitInit
<1>3. CASE FinishInit
  BY <1>3 DEF FinishInit, Answered
<1>4. CASE FailInit
  BY <1>4 DEF FailInit, Answered, bootRetryLeft
<1> QED
  BY <1>1, <1>2, <1>3, <1>4

LEMMA ReadyCourse ==
    ASSUME CourseTyped, AwaitCommand \/ RejectCommand \/ AcceptRead \/ AcceptWrite \/
           AcceptErase \/ AcceptExtCsd \/ AcceptStatus \/ AcceptSwitch \/ AcceptReinit
           \/ SetClkDiv \/ SetRpmbMode \/ AcceptRaw
    PROVE  OnCourse
<1> USE LoadedCourse, ClearedCourse DEF Dispatch
<1>1. CASE AwaitCommand
  BY <1>1 DEF AwaitCommand, Go
<1>2. CASE RejectCommand
  BY <1>2, Translated DEF RejectCommand, Answered
<1>3. CASE AcceptRead
  <2> HIDE DEF Plain
  <2>1. port.cmdId = "READ_SECTOR" /\ ctl.mcState = "READY" /\ DOMAIN ctl' = DOMAIN ctl
    BY <1>3 DEF AcceptRead
  <2>2. /\ ctl'.mcState \in {"READ_CMD", "RPMB_CMD23"}
        /\ ctl'.isReadOp = TRUE /\ ctl'.cmdStart = FALSE
    BY <1>3 DEF AcceptRead
  <2>3. Loads(ctl', {17, 18}, Plain(port.cmdLba))
    <3>1. /\ ctl'.cmdIndex = preCmdIndex /\ ctl'.cmdArg = preCmdArgument
          /\ ctl'.cmdRespExp = Loaded.cmdRespExp
      BY <1>3 DEF AcceptRead
    <3> QED
      BY <2>1, <3>1, Translated
  <2> QED
    BY <2>1, <2>2, <2>3
<1>4. CASE AcceptWrite
  <2>1. port.cmdId = "WRITE_SECTOR" /\ ctl.mcState = "READY" /\ DOMAIN ctl' = DOMAIN ctl
    BY <1>4 DEF AcceptWrite, DispatchWrite, LoadedWrite
  <2>2. /\ ctl'.mcState \in {"READY", "WRITE_CMD", "RPMB_CMD23"}
        /\ ctl'.isReadOp = FALSE /\ ctl'.cmdStart = FALSE
    BY <1>4 DEF AcceptWrite, LoadedWrite, DispatchWrite
  <2>3. Loads(ctl', {24, 25}, Plain(port.cmdLba))
    <3>1. /\ ctl'.cmdIndex = preCmdIndex /\ ctl'.cmdArg = preCmdArgument
          /\ ctl'.cmdRespExp = Loaded.cmdRespExp
      BY <1>4 DEF AcceptWrite, LoadedWrite
    <3> QED
      BY <2>1, <3>1, Translated
  <2> QED
    BY <2>1, <2>2, <2>3
<1>5. CASE AcceptErase
  BY <1>5 DEF AcceptErase
<1>6. CASE AcceptExtCsd
  BY <1>6, Translated DEF AcceptExtCsd
<1>7. CASE AcceptStatus
  BY <1>7 DEF AcceptStatus
<1>8. CASE AcceptSwitch
  BY <1>8, Translated DEF AcceptSwitch
<1>9. CASE AcceptReinit
  BY <1>9 DEF AcceptReinit
<1>10. CASE SetClkDiv
  BY <1>10 DEF SetClkDiv, Answered
<1>11. CASE SetRpmbMode
  BY <1>11 DEF SetRpmbMode, Answered
<1>12. CASE AcceptRaw
  BY <1>12 DEF AcceptRaw
<1> QED
  BY <1>1, <1>2, <1>3, <1>4, <1>5, <1>6, <1>7, <1>8, <1>9, <1>10, <1>11, <1>12

LEMMA CommandCourse ==
    ASSUME CourseTyped, IssueCommand \/ CommandFails \/ ReadCommandDone \/
           ExtCsdCommandDone \/ WriteCommandDone \/ StopCommandDone \/ SwitchCommandDone
           \/ SwitchStatusDone \/ EraseCommandDone \/ StatusCommandDone \/
           BlockCountDone \/ RawCommandDone
    PROVE  OnCourse
<1> USE ClearedCourse DEF CommandDone, Taken
<1>1. CASE IssueCommand
  <2>1. /\ ctl.mcState \in CmdStates /\ ~cmd.done /\ DOMAIN ctl' = DOMAIN ctl
        /\ ctl'.mcState = ctl.mcState /\ ctl'.isReadOp = ctl.isReadOp
        /\ ctl'.respStatus = ctl.respStatus
    BY <1>1 DEF IssueCommand, NextCmd
  <2>2. ctl.mcState # "RPMB_CMD23" => SameLoaded
    BY <1>1 DEF IssueCommand
  <2>3. ctl.mcState = "RPMB_CMD23" => CountLoaded(ctl')
    BY <1>1 DEF IssueCommand, NextCmd
  <2> QED
    BY <2>1, <2>2, <2>3
<1>2. CASE CommandFails
  BY <1>2 DEF CommandFails, Failed, FailsToError, ChecksDeviceStatus
<1>3. CASE ReadCommandDone
  BY <1>3 DEF ReadCommandDone
<1>4. CASE ExtCsdCommandDone
  BY <1>4 DEF ExtCsdCommandDone
<1>5. CASE WriteCommandDone
  BY <1>5 DEF WriteCommandDone
<1>6. CASE StopCommandDone
  BY <1>6 DEF StopCommandDone, Go
<1>7. CASE SwitchCommandDone
  BY <1>7 DEF SwitchCommandDone
<1>8. CASE SwitchStatusDone
  BY <1>8 DEF SwitchStatusDone, Answered
<1>9. CASE EraseCommandDone
  <2>1. /\ ctl.mcState \in {"ERASE_START", "ERASE_END", "ERASE_CMD"} /\ cmd.done
        /\ DOMAIN ctl' = DOMAIN ctl /\ ctl'.cmdStart = FALSE
    BY <1>9 DEF EraseCommandDone, NextCmd
  <2>2. \/ ctl'.mcState \in {"ERASE_END", "ERASE_CMD"}
        \/ ctl'.mcState = "SWITCH_WAIT" /\ ctl'.switchNeedsVerify = FALSE
    BY <1>9 DEF EraseCommandDone, NextCmd
  <2> QED
    BY <2>1, <2>2
<1>10. CASE StatusCommandDone
  BY <1>10 DEF StatusCommandDone, Answered
<1>11. CASE BlockCountDone
  BY <1>11, Translated DEF BlockCountDone, NextCmd
<1>12. CASE RawCommandDone
  BY <1>12 DEF RawCommandDone, Answered
<1> QED
  BY <1>1, <1>2, <1>3, <1>4, <1>5, <1>6, <1>7, <1>8, <1>9, <1>10, <1>11, <1>12

LEMMA DataCourse ==
    ASSUME CourseTyped, AwaitData \/ DataFails \/ ReadBlockDone \/ ExtCsdBlockDone \/
           ContinueRead \/ FinishBlocks \/ WriteBlockDone \/ ContinueWrite \/
           WriteWatchdog \/ AwaitRpmbData \/ RpmbWatchdog
    PROVE  OnCourse
<1> USE ClearedCourse
<1>1. CASE AwaitData
  BY <1>1 DEF AwaitData, Go
<1>2. CASE DataFails
  BY <1>2 DEF DataFails, Failed
<1>3. CASE ReadBlockDone
  BY <1>3 DEF ReadBlockDone, Staged
<1>4. CASE ExtCsdBlockDone
  BY <1>4 DEF ExtCsdBlockDone, Staged, Answered
<1>5. CASE ContinueRead
  BY <1>5 DEF ContinueRead
<1>6. CASE FinishBlocks
  BY <1>6 DEF FinishBlocks, NextCmd, Answered
<1>7. CASE WriteBlockDone
  BY <1>7 DEF WriteBlockDone
<1>8. CASE ContinueWrite
  BY <1>8 DEF ContinueWrite, moreToWrite
<1>9. CASE WriteWatchdog
  BY <1>9 DEF WriteWatchdog, moreToWrite, NextCmd, Answered
<1>10. CASE AwaitRpmbData
  BY <1>10, Translated DEF AwaitRpmbData, NextCmd
<1>11. CASE RpmbWatchdog
  BY <1>11 DEF RpmbWatchdog, Answered
<1> QED
  BY <1>1, <1>2, <1>3, <1>4, <1>5, <1>6, <1>7, <1>8, <1>9, <1>10, <1>11

LEMMA BusyCourse ==
    ASSUME CourseTyped, StillBusy \/ BusyReleased \/ BusyTimeout \/ ReportError \/
           ErrorStopDone
    PROVE  OnCourse
<1> USE ClearedCourse
<1>1. CASE StillBusy
  BY <1>1 DEF StillBusy, Go
<1>2. CASE BusyReleased
  <2>1. /\ ctl.mcState \in BusyStates /\ DOMAIN ctl' = DOMAIN ctl
        /\ ctl'.cmdStart = FALSE
    BY <1>2 DEF BusyReleased, NextCmd, Answered
  <2>2. \/ /\ ctl.mcState = "SWITCH_WAIT" /\ ctl.switchNeedsVerify
           /\ ctl'.mcState = "SWITCH_STATUS" /\ Loads(ctl', {13}, Plain(0))
        \/ ctl'.mcState = "READY"
    BY <1>2 DEF BusyReleased, NextCmd, Answered
  <2> QED
    BY <2>1, <2>2
<1>3. CASE BusyTimeout
  BY <1>3 DEF BusyTimeout, Failed
<1>4. CASE ReportError
  BY <1>4 DEF ReportError, NextCmd, Answered
<1>5. CASE ErrorStopDone
  BY <1>5 DEF ErrorStopDone, Answered
<1> QED
  BY <1>1, <1>2, <1>3, <1>4, <1>5
LEMMA CourseEdge == ASSUME CourseTyped, CtlEdge PROVE OnCourse
BY InitCourse, ReadyCourse, CommandCourse, DataCourse, BusyCourse DEF CtlEdge
-----------------------------------------------------------------------------
(* Registers of a switch, and how many blocks a transfer still has.         *)

BlocksLeft(c) ==
    /\ c.mcState \in {"RPMB_CMD23", "READ_CMD", "READ_DAT", "WRITE_CMD", "WRITE_DAT",
                      "RPMB_FIFO_WAIT"} =>
          c.sectorsLeft \in Nat \ {0} /\ (c.useMultiBlock \/ c.sectorsLeft = 1)
    /\ c.mcState \in {"READ_DONE", "WRITE_DONE"} =>
          c.sectorsLeft \in Nat /\ (c.useMultiBlock \/ c.sectorsLeft = 0)

StaysCounted == (port.cmdId \in Transfers => port.cmdCount \in Nat) /\ BlocksLeft(ctl)
                    => BlocksLeft(ctl')

\* A SWITCH is on its way, from its command to the answer of the CMD13 after it.
SwitchOpen(c) == \/ c.mcState \in {"SWITCH_CMD", "SWITCH_STATUS"}
                 \/ c.mcState = "SWITCH_WAIT" /\ c.switchNeedsVerify

Planned(c) ==
    /\ c.busWidthSwitchPending => SwitchOpen(c) /\ port.cmdId = "SET_BUS_WIDTH"
    /\ SwitchOpen(c) /\ port.cmdId = "SET_BUS_WIDTH" =>
          c.busWidthSwitchPending /\ c.busWidthTarget = (port.cmdLba % 2 = 1)
    /\ SwitchOpen(c) /\ port.cmdId = "SET_PARTITION" => c.currentPartition = port.cmdLba % 4
    /\ c.mcState \in {"IDLE", "INIT"} => c.busWidth4 = FALSE

StaysPlanned == OnPath(ctl) /\ Planned(ctl) => Planned(ctl')

SwitchAnswered ==
    ctl'.respValid /\ ctl'.respStatus = "OK" =>
       /\ port.cmdId \in {"SET_BUS_WIDTH", "SET_PARTITION"} =>
             /\ ctl.mcState = "SWITCH_STATUS" /\ cmd.done /\ ~cmd.error /\ ~cmd.device
             /\ ctl'.currentPartition = ctl.currentPartition
             /\ ctl.busWidthSwitchPending => ctl'.busWidth4 = ctl.busWidthTarget
       /\ port.cmdId = "REINIT" =>
             ctl.mcState = "INIT" /\ ini.done /\ ctl'.busWidth4 = ctl.busWidth4

SwitchMoves ==
    /\ ctl'.mcState = "SWITCH_WAIT" /\ ctl'.switchNeedsVerify =>
          SwitchOpen(ctl) /\ (ctl.mcState = "SWITCH_CMD" => cmd.done /\ ~cmd.error)
                          /\ ctl.mcState # "SWITCH_STATUS"
    /\ ctl'.mcState = "SWITCH_STATUS" =>
          SwitchOpen(ctl) /\ (ctl.mcState = "SWITCH_STATUS" => ~cmd.done)
                          /\ ctl.mcState # "SWITCH_CMD"

Registered == /\ StaysCounted /\ StaysPlanned /\ SwitchMoves
              /\ OnPath(ctl) => SwitchAnswered

RegisterFields == {"mcState", "sectorsLeft", "useMultiBlock", "switchNeedsVerify",
                   "busWidth4", "busWidthSwitchPending", "busWidthTarget",
                   "currentPartition", "respStatus", "respValid", "reinitPending"}
RegisterTyped == RegisterFields \subseteq DOMAIN ctl /\ ctl.mcState \in McStates

LEMMA ClearedRegisters ==
    ASSUME RegisterTyped
    PROVE  /\ DOMAIN Cleared = DOMAIN ctl /\ Cleared.respValid = FALSE
           /\ Cleared.mcState = ctl.mcState /\ Cleared.respStatus = ctl.respStatus
           /\ Cleared.sectorsLeft = ctl.sectorsLeft
           /\ Cleared.useMultiBlock = ctl.useMultiBlock
           /\ Cleared.switchNeedsVerify = ctl.switchNeedsVerify
           /\ Cleared.busWidth4 = ctl.busWidth4
           /\ Cleared.busWidthSwitchPending = ctl.busWidthSwitchPending
           /\ Cleared.busWidthTarget = ctl.busWidthTarget
           /\ Cleared.currentPartition = ctl.currentPartition
           /\ Cleared.reinitPending = ctl.reinitPending
BY DEF RegisterTyped, RegisterFields, Cleared

LEMMA LoadedRegisters ==
    ASSUME RegisterTyped
    PROVE  /\ DOMAIN Loaded = DOMAIN ctl /\ Loaded.respValid = FALSE
           /\ Loaded.mcState = ctl.mcState
           /\ Loaded.sectorsLeft = ctl.sectorsLeft
           /\ Loaded.useMultiBlock = ctl.useMultiBlock
           /\ Loaded.switchNeedsVerify = ctl.switchNeedsVerify
           /\ Loaded.busWidth4 = ctl.busWidth4
           /\ Loaded.busWidthSwitchPending = ctl.busWidthSwitchPending
           /\ Loaded.busWidthTarget = ctl.busWidthTarget
           /\ Loaded.currentPartition = ctl.currentPartition
BY ClearedRegisters DEF RegisterTyped, RegisterFields, Loaded

USE DEF Registered, StaysCounted, StaysPlanned, SwitchMoves, SwitchAnswered, BlocksLeft,
        SwitchOpen, Planned, RegisterTyped, RegisterFields

LEMMA InitRegisters ==
    ASSUME RegisterTyped, StartInit \/ AwaitInit \/ FinishInit \/ FailInit
    PROVE  Registered
<1> USE ClearedRegisters
<1>1. CASE StartInit
  BY <1>1 DEF StartInit
<1>2. CASE AwaitInit
  BY <1>2 DEF AwaitInit
<1>3. CASE FinishInit
  BY <1>3 DEF FinishInit, Answered
<1>4. CASE FailInit
  BY <1>4 DEF FailInit, Answered, bootRetryLeft
<1> QED
  BY <1>1, <1>2, <1>3, <1>4

LEMMA ReadyRegisters ==
    ASSUME RegisterTyped, AwaitCommand \/ RejectCommand \/ AcceptRead \/ AcceptWrite \/
           AcceptErase \/ AcceptExtCsd \/ AcceptStatus \/ AcceptSwitch \/ AcceptReinit
           \/ SetClkDiv \/ SetRpmbMode \/ AcceptRaw
    PROVE  Registered
<1> USE LoadedRegisters, ClearedRegisters DEF Dispatch
<1>1. CASE AwaitCommand
  BY <1>1 DEF AwaitCommand, Go
<1>2. CASE RejectCommand
  BY <1>2 DEF RejectCommand, Answered, KnownIds, countIsZero, CountedIds
<1>3. CASE AcceptRead
  <2>1. /\ port.cmdId = "READ_SECTOR" /\ ctl.mcState = "READY" /\ DOMAIN ctl' = DOMAIN ctl
        /\ ctl'.mcState \in {"RPMB_CMD23", "READ_CMD"} /\ ctl'.respValid = FALSE
        /\ ctl'.busWidthSwitchPending = ctl.busWidthSwitchPending
    BY <1>3 DEF AcceptRead
  <2>2. /\ ctl'.sectorsLeft = port.cmdCount /\ port.cmdCount # 0
        /\ port.cmdCount > 1 => ctl'.useMultiBlock
    BY <1>3 DEF AcceptRead, countIsZero, CountedIds
  <2> QED
    BY <2>1, <2>2
<1>4. CASE AcceptWrite
  <2>1. /\ port.cmdId = "WRITE_SECTOR" /\ ctl.mcState = "READY" /\ DOMAIN ctl' = DOMAIN ctl
        /\ ctl'.mcState \in {"READY", "RPMB_CMD23", "WRITE_CMD"} /\ ctl'.respValid = FALSE
        /\ ctl'.busWidthSwitchPending = ctl.busWidthSwitchPending
    BY <1>4 DEF AcceptWrite, DispatchWrite, LoadedWrite
  <2>2. /\ ctl'.sectorsLeft = port.cmdCount /\ port.cmdCount # 0
        /\ port.cmdCount > 1 => ctl'.useMultiBlock
    BY <1>4 DEF AcceptWrite, DispatchWrite, LoadedWrite, countIsZero, CountedIds
  <2> QED
    BY <2>1, <2>2
<1>5. CASE AcceptErase
  BY <1>5 DEF AcceptErase
<1>6. CASE AcceptExtCsd
  BY <1>6 DEF AcceptExtCsd
<1>7. CASE AcceptStatus
  BY <1>7 DEF AcceptStatus
<1>8. CASE AcceptSwitch
  BY <1>8 DEF AcceptSwitch
<1>9. CASE AcceptReinit
  BY <1>9 DEF AcceptReinit
<1>10. CASE SetClkDiv
  BY <1>10 DEF SetClkDiv, Answered
<1>11. CASE SetRpmbMode
  BY <1>11 DEF SetRpmbMode, Answered
<1>12. CASE AcceptRaw
  BY <1>12 DEF AcceptRaw
<1> QED
  BY <1>1, <1>2, <1>3, <1>4, <1>5, <1>6, <1>7, <1>8, <1>9, <1>10, <1>11, <1>12

LEMMA CommandRegisters ==
    ASSUME RegisterTyped, IssueCommand \/ CommandFails \/ ReadCommandDone \/
           ExtCsdCommandDone \/ WriteCommandDone \/ StopCommandDone \/ SwitchCommandDone
           \/ SwitchStatusDone \/ EraseCommandDone \/ StatusCommandDone \/
           BlockCountDone \/ RawCommandDone
    PROVE  Registered
<1> USE ClearedRegisters DEF CommandDone, Taken
<1>1. CASE IssueCommand
  BY <1>1 DEF IssueCommand, NextCmd
<1>2. CASE CommandFails
  BY <1>2 DEF CommandFails, Failed, FailsToError, ChecksDeviceStatus
<1>3. CASE ReadCommandDone
  BY <1>3 DEF ReadCommandDone
<1>4. CASE ExtCsdCommandDone
  BY <1>4 DEF ExtCsdCommandDone
<1>5. CASE WriteCommandDone
  BY <1>5 DEF WriteCommandDone
<1>6. CASE StopCommandDone
  BY <1>6 DEF StopCommandDone, Go
<1>7. CASE SwitchCommandDone
  BY <1>7 DEF SwitchCommandDone, commandFailed
<1>8. CASE SwitchStatusDone
  <2>1. /\ ctl.mcState = "SWITCH_STATUS" /\ cmd.done /\ DOMAIN ctl' = DOMAIN ctl
        /\ ctl'.mcState = "READY" /\ ctl'.busWidthSwitchPending = FALSE
        /\ ctl'.currentPartition = ctl.currentPartition
    BY <1>8 DEF SwitchStatusDone, Answered
  <2>2. ctl'.respStatus = "OK" =>
           /\ ~cmd.error /\ ~cmd.device
           /\ ctl.busWidthSwitchPending => ctl'.busWidth4 = ctl.busWidthTarget
    BY <1>8 DEF SwitchStatusDone, Answered, deviceStatusErr
  <2> QED
    BY <2>1, <2>2
<1>9. CASE EraseCommandDone
  <2>1. /\ ctl.mcState \in {"ERASE_START", "ERASE_END", "ERASE_CMD"}
        /\ DOMAIN ctl' = DOMAIN ctl /\ ctl'.respValid = FALSE
        /\ ctl'.busWidthSwitchPending = ctl.busWidthSwitchPending
    BY <1>9 DEF EraseCommandDone, NextCmd
  <2>2. \/ ctl'.mcState \in {"ERASE_END", "ERASE_CMD"}
        \/ ctl'.mcState = "SWITCH_WAIT" /\ ctl'.switchNeedsVerify = FALSE
    BY <1>9 DEF EraseCommandDone, NextCmd
  <2> QED
    BY <2>1, <2>2
<1>10. CASE StatusCommandDone
  BY <1>10 DEF StatusCommandDone, Answered
<1>11. CASE BlockCountDone
  BY <1>11 DEF BlockCountDone, NextCmd
<1>12. CASE RawCommandDone
  BY <1>12 DEF RawCommandDone, Answered
<1> QED
  BY <1>1, <1>2, <1>3, <1>4, <1>5, <1>6, <1>7, <1>8, <1>9, <1>10, <1>11, <1>12

LEMMA DataRegisters ==
    ASSUME RegisterTyped, AwaitData \/ DataFails \/ ReadBlockDone \/ ExtCsdBlockDone \/
           ContinueRead \/ FinishBlocks \/ WriteBlockDone \/ ContinueWrite \/
           WriteWatchdog \/ AwaitRpmbData \/ RpmbWatchdog
    PROVE  Registered
<1> USE ClearedRegisters
<1>1. CASE AwaitData
  BY <1>1 DEF AwaitData, Go
<1>2. CASE DataFails
  BY <1>2 DEF DataFails, Failed
<1>3. CASE ReadBlockDone
  BY <1>3 DEF ReadBlockDone, Staged
<1>4. CASE ExtCsdBlockDone
  BY <1>4 DEF ExtCsdBlockDone, Staged, Answered
<1>5. CASE ContinueRead
  BY <1>5 DEF ContinueRead
<1>6. CASE FinishBlocks
  BY <1>6 DEF FinishBlocks, NextCmd, Answered
<1>7. CASE WriteBlockDone
  BY <1>7 DEF WriteBlockDone
<1>8. CASE ContinueWrite
  BY <1>8 DEF ContinueWrite, moreToWrite
<1>9. CASE WriteWatchdog
  BY <1>9 DEF WriteWatchdog, moreToWrite, NextCmd, Answered
<1>10. CASE AwaitRpmbData
  BY <1>10 DEF AwaitRpmbData, NextCmd
<1>11. CASE RpmbWatchdog
  BY <1>11 DEF RpmbWatchdog, Answered
<1> QED
  BY <1>1, <1>2, <1>3, <1>4, <1>5, <1>6, <1>7, <1>8, <1>9, <1>10, <1>11

LEMMA BusyRegisters ==
    ASSUME RegisterTyped, StillBusy \/ BusyReleased \/ BusyTimeout \/ ReportError \/
           ErrorStopDone
    PROVE  Registered
<1> USE ClearedRegisters
<1>1. CASE StillBusy
  BY <1>1 DEF StillBusy, Go
<1>2. CASE BusyReleased
  BY <1>2 DEF BusyReleased, NextCmd, Answered
<1>3. CASE BusyTimeout
  BY <1>3 DEF BusyTimeout, Failed
<1>4. CASE ReportError
  BY <1>4 DEF ReportError, NextCmd, Answered
<1>5. CASE ErrorStopDone
  BY <1>5 DEF ErrorStopDone, Answered
<1> QED
  BY <1>1, <1>2, <1>3, <1>4, <1>5
LEMMA RegistersEdge == ASSUME RegisterTyped, CtlEdge PROVE Registered
BY InitRegisters, ReadyRegisters, CommandRegisters, DataRegisters, BusyRegisters DEF CtlEdge

-----------------------------------------------------------------------------
(* The course as an invariant: the port holds the request until the next    *)
(* one, the FSM is on the request's path, and the command engine works on   *)
(* the command the FSM has loaded.                                          *)

CtlFields == CourseFields \union RegisterFields
CmdFields == {"busy", "done", "index", "arg", "respExp", "error", "device"}
PortFields == {"cmdValid", "cmdId", "cmdLba", "cmdCount"}

CourseFieldsThere == /\ CtlFields \subseteq DOMAIN ctl /\ CmdFields \subseteq DOMAIN cmd
                     /\ PortFields \subseteq DOMAIN port

PortAsks == /\ port.cmdId = requested.id /\ port.cmdCount = requested.count
            /\ port.cmdLba = LbaLines(requested)

RequestFits == requested.id \in Transfers =>
                  requested.lba \in 0..LbaSpace - 1 /\ requested.count \in 0..LbaSpace

CmdIs ==
    /\ cmd.busy \/ cmd.done =>
          /\ ctl.mcState \in CmdStates
          /\ cmd.index = ctl.cmdIndex /\ cmd.arg = ctl.cmdArg
          /\ ctl.cmdRespExp => cmd.respExp
    /\ (ctl.cmdStart \/ cmd.busy \/ cmd.done) /\ ctl.mcState = "RPMB_CMD23" => CountLoaded(ctl)

CInv ==
    /\ AInv /\ CourseFieldsThere
    /\ PortAsks /\ RequestFits /\ CmdIs
    /\ OnPath(ctl) /\ Commanded(ctl) /\ BlocksLeft(ctl) /\ Planned(ctl)

LEMMA CourseInit == ASSUME Init PROVE CInv
<1> USE DEF Init, CtlInit, ResetRegisters
<1>1. CourseFieldsThere
  BY DEF CourseFieldsThere, CtlFields, CmdFields, PortFields
<1>2. PortAsks /\ RequestFits
  BY DEF PortAsks, RequestFits, requested, Boot, LbaLines
<1>3. CmdIs
  BY DEF CmdIs
<1>4. OnPath(ctl) /\ Commanded(ctl) /\ BlocksLeft(ctl) /\ Planned(ctl)
  OBVIOUS
<1> QED
  BY <1>1, <1>2, <1>3, <1>4, AnswerInit DEF CInv

\* The port changes only with a request, and then it carries that request.
Waiting ==
    /\ Transmit
    /\ port'.cmdId = port.cmdId /\ port'.cmdCount = port.cmdCount /\ port'.cmdLba = port.cmdLba
    /\ job'.req = job.req /\ ~port'.cmdValid

LEMMA PortMoves ==
    ASSUME PortFields \subseteq DOMAIN port, BenchTyped, PortEdge
    PROVE  /\ PortFields \subseteq DOMAIN port'
           /\ Waiting \/ \E r \in Requests : SendRequest(r) /\ PortAsks'
<1> USE DEF PortFields
<1>1. /\ DOMAIN PortCleared = DOMAIN port /\ ~PortCleared.cmdValid
      /\ PortCleared.cmdId = port.cmdId /\ PortCleared.cmdCount = port.cmdCount
      /\ PortCleared.cmdLba = port.cmdLba
  BY DEF PortCleared
<1>2. ASSUME NEW r \in Requests, SendRequest(r)
      PROVE  PortFields \subseteq DOMAIN port' /\ PortAsks'
  <2>1. /\ job'.req.id = r.id /\ job'.req.lba = r.lba /\ job'.req.count = r.count
    BY <1>2 DEF SendRequest
  <2>2. /\ DOMAIN port' = DOMAIN port
        /\ port'.cmdId = r.id /\ port'.cmdLba = LbaLines(r) /\ port'.cmdCount = r.count
    BY <1>1, <1>2 DEF SendRequest
  <2>3. LbaLines(r) = LbaLines(requested)'
    BY <2>1 DEF LbaLines, requested
  <2> QED
    BY <2>1, <2>2, <2>3 DEF PortAsks, requested
<1>3. ASSUME ReceiveSector \/ port' = PortCleared
      PROVE  /\ DOMAIN port' = DOMAIN port
             /\ port'.cmdId = port.cmdId /\ port'.cmdCount = port.cmdCount
             /\ port'.cmdLba = port.cmdLba /\ ~port'.cmdValid
  BY <1>1, <1>3 DEF ReceiveSector
<1>4. ASSUME Transmit PROVE job'.req = job.req
  <2>1. DOMAIN JobSeen = DOMAIN job /\ JobSeen.req = job.req
    BY DEF JobSeen, BenchTyped
  <2> QED
    BY <1>4, <2>1 DEF BenchTyped, Transmit, TakeSector, SendHeader, SendPayload, SendResponse,
                      TransmitIdle
<1> QED
  BY <1>2, <1>3, <1>4 DEF PortEdge, Waiting

\* What the command engine works on comes from the FSM's registers.
LEMMA CmdTakes ==
    ASSUME CmdFields \subseteq DOMAIN cmd, EngineEdge
    PROVE  /\ CmdFields \subseteq DOMAIN cmd'
           /\ cmd'.busy \/ cmd'.done =>
                 \/ /\ cmd.busy /\ cmd'.index = cmd.index /\ cmd'.arg = cmd.arg
                    /\ cmd'.respExp = cmd.respExp
                 \/ /\ ctl.cmdStart /\ ~cmd.done /\ cmd'.index = ctl.cmdIndex
                    /\ cmd'.arg = ctl.cmdArg /\ cmd'.respExp = ctl.cmdRespExp
<1> USE DEF CmdFields
<1>1. CASE CmdQuiet
  BY <1>1 DEF CmdQuiet, CmdTake, cmdStartIn
<1>2. CASE cmd.busy /\ \E e, d \in {TRUE, FALSE, cmd.device, card.errPending,
                                    cmd.index # 6 \/ card.errPending} : CmdReport(e, d)
  BY <1>2 DEF CmdReport
<1>3. CmdAnswered \/ CmdIllegal \/ CmdFault =>
         cmd.busy /\ \E e, d \in {TRUE, FALSE, cmd.device, card.errPending,
                                  cmd.index # 6 \/ card.errPending} : CmdReport(e, d)
  BY DEF CmdAnswered, CmdIllegal, CmdFault, CmdRuns
<1> QED
  BY <1>1, <1>2, <1>3 DEF EngineEdge

LEMMA CourseStep == ASSUME BootSucceeds, TransfersFit, CInv, [Next]_vars PROVE CInv'
<1> USE DEF CInv
<1>1. CASE Next
  <2>1. OnCourse /\ Registered
    BY <1>1, CourseEdge, RegistersEdge
       DEF Next, ControllerEdge, CourseFieldsThere, CtlFields, AInv, AnswerTyped
  <2>2. AInv' /\ EngineEdge /\ EnginesTyped /\ BenchTyped /\ CommandOwned
    BY <1>1, AnswerStep DEF Next, ControllerEdge, AInv, IInv
  <2>3. Disciplined
    BY <1>1, FsmEdge DEF Next, ControllerEdge, AInv, IInv
  <2>4. /\ PortFields \subseteq DOMAIN port'
        /\ Waiting \/ \E r \in Requests : SendRequest(r) /\ PortAsks'
    BY <1>1, <2>2, PortMoves DEF Next, CourseFieldsThere
  <2>5. CourseFieldsThere'
    BY <2>1, <2>2, <2>4, CmdTakes DEF CourseFieldsThere
  <2>6. PortAsks'
    BY <2>4 DEF PortAsks, Waiting, LbaLines, requested
  <2>7. RequestFits'
    <3>1. ASSUME NEW r \in Requests, SendRequest(r) PROVE RequestFits'
      <4>1. /\ job'.req.id = r.id /\ job'.req.lba = r.lba /\ job'.req.count = r.count
        BY <3>1 DEF SendRequest
      <4> QED
        BY <4>1 DEF TransfersFit, RequestFits, requested
    <3> QED
      BY <2>4, <3>1 DEF RequestFits, Waiting, requested
  <2>8. CmdIs'
    <3>1. /\ cmd'.busy \/ cmd'.done =>
                \/ /\ cmd.busy /\ cmd'.index = cmd.index /\ cmd'.arg = cmd.arg
                   /\ cmd'.respExp = cmd.respExp
                \/ /\ ctl.cmdStart /\ ~cmd.done /\ cmd'.index = ctl.cmdIndex
                   /\ cmd'.arg = ctl.cmdArg /\ cmd'.respExp = ctl.cmdRespExp
          /\ cmd'.busy \/ cmd'.done => ctl.mcState \in CmdStates /\ ~cmd.done
      BY <2>2, CmdTakes DEF CommandOwned, CourseFieldsThere
    <3>2. cmd'.busy \/ cmd'.done => ctl'.mcState = ctl.mcState
      BY <2>3, <3>1 DEF Disciplined, StartsCommand
    <3>3. ASSUME cmd'.busy \/ cmd'.done, ctl.mcState # "RPMB_CMD23"
          PROVE  /\ cmd'.index = ctl'.cmdIndex /\ cmd'.arg = ctl'.cmdArg
                 /\ ctl'.cmdRespExp => cmd'.respExp
      BY <2>1, <3>1, <3>3 DEF CmdIs
    <3>4. ASSUME cmd'.busy \/ cmd'.done, ctl.mcState = "RPMB_CMD23"
          PROVE  /\ cmd'.index = ctl'.cmdIndex /\ cmd'.arg = ctl'.cmdArg
                 /\ ctl'.cmdRespExp => cmd'.respExp
                 /\ CountLoaded(ctl')
      <4>1. CountLoaded(ctl') /\ CountLoaded(ctl)
        BY <2>1, <3>1, <3>4 DEF CmdIs
      <4>2. ctl'.cmdIndex = ctl.cmdIndex /\ ctl'.cmdArg = ctl.cmdArg /\ ctl.cmdRespExp
        BY <4>1
      <4>3. cmd.busy => /\ cmd.index = ctl.cmdIndex /\ cmd.arg = ctl.cmdArg
                        /\ ctl.cmdRespExp => cmd.respExp
        BY DEF CmdIs
      <4> HIDE DEF CInv
      <4>4. cmd'.index = ctl'.cmdIndex /\ cmd'.arg = ctl'.cmdArg
        BY <3>1, <3>4, <4>2, <4>3
      <4>5. cmd'.respExp
        BY <3>1, <3>4, <4>2, <4>3
      <4> QED
        BY <4>1, <4>4, <4>5
    <3>5. ctl'.cmdStart /\ ctl'.mcState = "RPMB_CMD23" => CountLoaded(ctl')
      BY <2>1
    <3> QED
      BY <3>1, <3>2, <3>3, <3>4, <3>5 DEF CmdIs
  <2>9. ~BootFails
    BY ControllerAssumption, <2>2
       DEF BootSucceeds, BootFails, bootRetryLeft, FailuresCounted, bootFailures,
           FailuresNeedFaults, EnginesTyped, AInv
  <2>10. OnPath(ctl') /\ Commanded(ctl') /\ BlocksLeft(ctl') /\ Planned(ctl')
    <3>1. port.cmdId \in Transfers => port.cmdCount \in Nat
      BY ControllerAssumption DEF PortAsks, RequestFits
    <3> QED
      BY <2>1, <2>9, <3>1
  <2>11. OnPath(ctl)' /\ Commanded(ctl)' /\ BlocksLeft(ctl)' /\ Planned(ctl)'
    <3>1. CASE Waiting
      BY <2>10, <3>1 DEF Waiting, preCmdArgument
    <3>2. ASSUME NEW r \in Requests, SendRequest(r)
          PROVE  OnPath(ctl)' /\ Commanded(ctl)' /\ BlocksLeft(ctl)' /\ Planned(ctl)'
      <4>1. ~job.open
        BY <3>2 DEF SendRequest, HostFree
      <4>2. ctl'.mcState = "READY"
        BY <1>1, <4>1, AnswerEdge
           DEF AInv, AnswerLatched, HostWaits, Pending, AnswersOnce, StaysReady, Next,
               ControllerEdge
      <4> QED
        BY <2>10, <4>2
    <3> QED
      BY <2>4, <3>1, <3>2
  <2> QED
    BY <2>2, <2>5, <2>6, <2>7, <2>8, <2>11
<1>2. CASE UNCHANGED vars
  <2> USE <1>2 DEF vars, ctlVars
  <2>1. AInv'
    BY AnswerStep
  <2>2. CourseFieldsThere' /\ PortAsks' /\ RequestFits' /\ CmdIs'
    BY DEF CourseFieldsThere, PortAsks, RequestFits, CmdIs, requested, LbaLines
  <2>3. OnPath(ctl)' /\ Commanded(ctl)' /\ BlocksLeft(ctl)' /\ Planned(ctl)'
    BY DEF preCmdArgument
  <2> QED
    BY <2>1, <2>2, <2>3
<1> QED
  BY <1>1, <1>2

LEMMA CourseInvariance == BootSucceeds /\ TransfersFit => (Spec => []CInv)
<1>1. SUFFICES ASSUME BootSucceeds, TransfersFit PROVE Spec => []CInv
  OBVIOUS
<1>2. CInv /\ [Next]_vars => CInv'
  BY <1>1, CourseStep
<1> QED
  BY <1>2, CourseInit, PTL DEF Spec

-----------------------------------------------------------------------------
(* A switch answered OK has taken effect.  The card says in the response to *)
(* the CMD13 whether it refused the SWITCH before it.                       *)

CardFields == {"xfer", "open", "quota", "base", "blk", "stored", "idle", "width4",
               "partition", "errPending", "stuck"}
CardThere == CardFields \subseteq DOMAIN card

\* The card is as the request wants it.
AppliedTo(c) ==
    /\ port.cmdId = "SET_BUS_WIDTH" => c.width4 = (port.cmdLba % 2 = 1)
    /\ port.cmdId = "SET_PARTITION" => c.partition = port.cmdLba
AppliedOrTells == AppliedTo(card) \/ card.errPending

Switched ==
    /\ ctl.mcState = "SWITCH_CMD" /\ cmd.done /\ ~cmd.error => AppliedOrTells
    /\ ctl.mcState = "SWITCH_WAIT" /\ ctl.switchNeedsVerify => AppliedOrTells
    /\ ctl.mcState = "SWITCH_STATUS" /\ ~cmd.done => AppliedOrTells
    /\ ctl.mcState = "SWITCH_STATUS" /\ cmd.done /\ ~cmd.error /\ ~cmd.device =>
          AppliedTo(card)
    /\ ctl.mcState = "INIT" /\ ini.done => card.width4 = FALSE

SwitchEnds ==
    ctl.respValid /\ ctl.respStatus = "OK" =>
       /\ requested.id \in {"SET_BUS_WIDTH", "REINIT"} => ctl.busWidth4 = card.width4
       /\ requested.id = "SET_PARTITION" =>
             ctl.currentPartition = port.cmdLba % 4 /\ card.partition = port.cmdLba

SInv == CInv /\ CardThere /\ Switched /\ SwitchEnds

\* What a command does to the card, branch by branch.
Settled(c, index) == [c EXCEPT !.errPending = FALSE, !.stuck = FALSE, !.quota = index = 23]
SwitchedTo(c, arg) ==
    [c EXCEPT !.partition = IF arg.index = PARTITION_CONFIG THEN arg.value ELSE @,
              !.width4    = IF arg.index = BUS_WIDTH THEN arg.value = 1 ELSE @]

LEMMA SettledFields ==
    ASSUME NEW c, NEW index, CardFields \subseteq DOMAIN c
    PROVE  /\ DOMAIN Settled(c, index) = DOMAIN c
           /\ Settled(c, index).width4 = c.width4
           /\ Settled(c, index).partition = c.partition
BY DEF Settled, CardFields

LEMMA SwitchedToFields ==
    ASSUME NEW c, NEW arg, CardFields \subseteq DOMAIN c
    PROVE  /\ arg.index = PARTITION_CONFIG => SwitchedTo(c, arg).partition = arg.value
           /\ arg.index = BUS_WIDTH => SwitchedTo(c, arg).width4 = (arg.value = 1)
BY DEF SwitchedTo, CardFields

LEMMA ExecutedReset ==
    ASSUME NEW c, NEW index, NEW arg, index = 0
    PROVE  Executed(c, index, arg) = PoweredCard
BY DEF Executed

LEMMA ExecutedCsd ==
    ASSUME NEW c, NEW index, NEW arg, index = 8
    PROVE  Executed(c, index, arg) = Transfer(Settled(c, index), "data", ExtCsdByte, FALSE)
<1>1. index # 0
  OBVIOUS
<1> QED
  BY <1>1 DEF Executed, Settled, SwitchedTo

LEMMA ExecutedRead ==
    ASSUME NEW c, NEW index, NEW arg, index \in {17, 18}
    PROVE  Executed(c, index, arg) =
              Transfer(Settled(c, index), "data", arg.value, index = 18 /\ ~c.quota)
<1>1. index # 0 /\ index # 8
  OBVIOUS
<1> QED
  BY <1>1 DEF Executed, Settled, SwitchedTo

LEMMA ExecutedWrite ==
    ASSUME NEW c, NEW index, NEW arg, index \in {24, 25}
    PROVE  Executed(c, index, arg) =
              Transfer(Settled(c, index), "rcv", arg.value, index = 25 /\ ~c.quota)
<1>1. index # 0 /\ index # 8 /\ index \notin {17, 18}
  OBVIOUS
<1> QED
  BY <1>1 DEF Executed, Settled, SwitchedTo

LEMMA ExecutedStop ==
    ASSUME NEW c, NEW index, NEW arg, index = 12
    PROVE  Executed(c, index, arg) =
              [Settled(c, index) EXCEPT !.xfer = "tran", !.blk = 0, !.idle = 0]
<1>1. index # 0 /\ index # 8 /\ index \notin {17, 18} /\ index \notin {24, 25}
  OBVIOUS
<1> QED
  BY <1>1 DEF Executed, Settled, SwitchedTo

LEMMA ExecutedSwitch ==
    ASSUME NEW c, NEW index, NEW arg, index = 6
    PROVE  Executed(c, index, arg) = SwitchedTo(Settled(c, index), arg)
<1>1. /\ index # 0 /\ index # 8 /\ index \notin {17, 18} /\ index \notin {24, 25}
      /\ index # 12
  OBVIOUS
<1> QED
  BY <1>1 DEF Executed, Settled, SwitchedTo

LEMMA ExecutedPlain ==
    ASSUME NEW c, NEW index, NEW arg, index \notin {0, 6, 8, 12, 17, 18, 24, 25}
    PROVE  Executed(c, index, arg) = Settled(c, index)
<1>1. /\ index # 0 /\ index # 8 /\ index \notin {17, 18} /\ index \notin {24, 25}
      /\ index # 12 /\ index # 6
  OBVIOUS
<1> QED
  BY <1>1 DEF Executed, Settled, SwitchedTo

\* With no engine at work the card at most sends what nobody listens to.
AtRest == CmdQuiet /\ DatQuiet /\ IniQuiet /\ CardWaits /\ UNCHANGED rdBuf

LEMMA Rests == ASSUME EngineEdge, ~cmd.busy, DatIdle, ini.st # "run" PROVE AtRest
BY DEF EngineEdge, CmdAnswered, CmdIllegal, CmdFault, CmdRuns, DatByte, DatBlock, DatTimeout,
       DatIdle, IniEnds, AtRest

LEMMA QuietEdge ==
    ASSUME IInv, Next
    PROVE  /\ ctl.mcState \notin CmdStates \union DatStates \union {"INIT"} => AtRest
           /\ ctl.mcState \in CmdStates /\ cmd.done => AtRest
           /\ ctl.mcState \in DatStates /\ DatIdle => AtRest
           /\ dat.st = "rd" => ctl.mcState \in ReadStates
           /\ dat.st = "wr" => ctl.mcState = "WRITE_DAT"
           /\ dat.st # "idle" => ~dat.done /\ ~ctl.clkPause
           /\ ctl.datRdStart \/ ctl.datWrStart => ~dat.done
           /\ ctl.clkPause => ctl.mcState = "READ_DONE"
<1> USE DEF IInv
<1>1. EngineEdge /\ CommandOwned /\ DataOwned /\ InitOwned /\ PauseOwned /\ EnginesTyped
  BY DEF Next, ControllerEdge
<1>2. dat.st \in {"idle", "rd", "wr"} /\ ReadStates = {"READ_DAT", "EXT_CSD_DAT"}
  BY <1>1 DEF EnginesTyped, ReadStates
<1> QED
  BY <1>1, <1>2, Rests DEF CommandOwned, DataOwned, InitOwned, PauseOwned, DatIdle

LEMMA CommandAlone ==
    ASSUME EngineEdge, DatIdle, ini.st # "run"
    PROVE  /\ DatQuiet /\ IniQuiet /\ UNCHANGED rdBuf
           /\ AtRest \/ CmdAnswered \/ CmdIllegal \/ CmdFault
BY DEF EngineEdge, DatByte, DatBlock, DatTimeout, DatIdle, IniEnds, AtRest

LEMMA WaitingCard ==
    ASSUME CardThere, CardWaits
    PROVE  /\ DOMAIN card' = DOMAIN card
           /\ card'.width4 = card.width4 /\ card'.partition = card.partition
           /\ card'.errPending = card.errPending
BY DEF CardThere, CardFields, CardWaits, Waits, BlockMoved

LEMMA CardStaysThere == ASSUME CardThere, EngineEdge PROVE CardThere'
<1> USE DEF CardThere, CardFields
<1>1. \A index, arg : CardFields \subseteq DOMAIN Executed(card, index, arg)
  <2> TAKE index, arg
  <2> DEFINE d == Settled(card, index)
  <2>1. DOMAIN d = DOMAIN card
    BY SettledFields
  <2> HIDE DEF d
  <2>2. ASSUME NEW x, NEW first, NEW isOpen, Executed(card, index, arg) = Transfer(d, x, first, isOpen)
        PROVE  CardFields \subseteq DOMAIN Executed(card, index, arg)
    BY <2>1, <2>2 DEF Transfer
  <2>3. CASE index = 0
    BY <2>3, ExecutedReset DEF PoweredCard
  <2>4. CASE index = 8
    BY <2>2, <2>4, ExecutedCsd DEF d
  <2>5. CASE index \in {17, 18}
    BY <2>2, <2>5, ExecutedRead DEF d
  <2>6. CASE index \in {24, 25}
    BY <2>2, <2>6, ExecutedWrite DEF d
  <2>7. CASE index = 12
    <3>1. Executed(card, index, arg) = [d EXCEPT !.xfer = "tran", !.blk = 0, !.idle = 0]
      BY <2>7, ExecutedStop DEF d
    <3> QED
      BY <2>1, <3>1
  <2>8. CASE index = 6
    <3>1. Executed(card, index, arg) = SwitchedTo(d, arg)
      BY <2>8, ExecutedSwitch DEF d
    <3> QED
      BY <2>1, <3>1 DEF SwitchedTo
  <2>9. CASE index \notin {0, 6, 8, 12, 17, 18, 24, 25}
    BY <2>1, <2>9, ExecutedPlain DEF d
  <2> QED
    BY <2>3, <2>4, <2>5, <2>6, <2>7, <2>8, <2>9
<1>2. /\ CardFields \subseteq DOMAIN BlockMoved(card) /\ CardFields \subseteq DOMAIN Rejected(card)
      /\ \A b : CardFields \subseteq DOMAIN BlockStored(card, b)
      /\ CardFields \subseteq DOMAIN Waits(card)
  BY DEF BlockMoved, Rejected, BlockStored, Waits
<1>3. CardFields \subseteq DOMAIN PoweredCard /\ CardFields \subseteq DOMAIN InitialisedCard
  BY DEF PoweredCard, InitialisedCard
<1> HIDE DEF CardFields
<1>4. CASE CmdAnswered \/ CmdIllegal
  BY <1>1, <1>2, <1>4 DEF CmdAnswered, CmdIllegal
<1>5. CASE CmdFault
  <2>1. /\ CardFields \subseteq DOMAIN [card EXCEPT !.errPending = FALSE, !.stuck = FALSE]
        /\ CardFields \subseteq DOMAIN
              [Executed(card, cmd.index, cmd.arg) EXCEPT !.stuck = TRUE]
    BY <1>1
  <2> QED
    BY <1>1, <1>2, <1>5, <2>1 DEF CmdFault
<1>6. CASE DatByte \/ DatBlock \/ DatTimeout
  BY <1>2, <1>6 DEF DatByte, DatBlock, DatTimeout
<1>7. CASE IniEnds
  BY <1>3, <1>7 DEF IniEnds
<1>8. CASE CardWaits
  BY <1>2, <1>8 DEF CardWaits
<1> QED
  BY <1>4, <1>5, <1>6, <1>7, <1>8 DEF EngineEdge

\* The SWITCH itself: carried out, or remembered as an error, or not acknowledged.
LEMMA SwitchReports ==
    ASSUME CardThere, CmdFields \subseteq DOMAIN cmd, cmd.busy, cmd.index = 6,
           cmd.arg = preCmdArgument, cmd.respExp,
           CmdAnswered \/ CmdIllegal \/ CmdFault, ~cmd'.error
    PROVE  AppliedTo(card') \/ card'.errPending
<1> USE DEF CmdFields, CardThere, CardFields
<1>1. \A e, d : CmdReport(e, d) => (cmd'.error <=> e)
  BY DEF CmdReport
<1>2. AppliedTo(Executed(card, 6, cmd.arg))
  <2>0. Executed(card, 6, cmd.arg) = SwitchedTo(Settled(card, 6), cmd.arg)
    BY ExecutedSwitch
  <2>1. /\ cmd.arg.index = PARTITION_CONFIG =>
              Executed(card, 6, cmd.arg).partition = cmd.arg.value
        /\ cmd.arg.index = BUS_WIDTH =>
              Executed(card, 6, cmd.arg).width4 = (cmd.arg.value = 1)
    BY <2>0, SettledFields, SwitchedToFields
  <2>2. port.cmdId = "SET_BUS_WIDTH" =>
           cmd.arg.index = BUS_WIDTH /\ cmd.arg.value = port.cmdLba % 2
    BY DEF preCmdArgument, SwitchTo
  <2>3. port.cmdId = "SET_PARTITION" =>
           cmd.arg.index = PARTITION_CONFIG /\ cmd.arg.value = port.cmdLba
    BY DEF preCmdArgument, SwitchTo
  <2> QED
    BY <2>1, <2>2, <2>3 DEF AppliedTo
<1>3. AppliedTo([Executed(card, 6, cmd.arg) EXCEPT !.stuck = TRUE])
  BY <1>2 DEF AppliedTo
<1>4. Legal(card, 6) => Rejected(card).errPending
  BY DEF Legal, Rejected
<1>5. CASE CmdAnswered
  BY <1>2, <1>5 DEF CmdAnswered
<1>6. CASE CmdIllegal
  BY <1>1, <1>6 DEF CmdIllegal
<1>7. CASE CmdFault
  BY <1>1, <1>2, <1>3, <1>4, <1>7 DEF CmdFault
<1> QED
  BY <1>5, <1>6, <1>7

\* The CMD13 after it: what the card remembers comes out with the response.
LEMMA StatusReports ==
    ASSUME CardThere, CmdFields \subseteq DOMAIN cmd, cmd.busy, cmd.index = 13, cmd.respExp,
           AppliedOrTells, CmdAnswered \/ CmdIllegal \/ CmdFault, ~cmd'.error, ~cmd'.device
    PROVE  AppliedTo(card')
<1> USE DEF CmdFields, CardThere, CardFields
<1>1. \A e, d : CmdReport(e, d) => (cmd'.error <=> e) /\ (cmd'.device <=> d)
  BY DEF CmdReport
<1>2. /\ Executed(card, 13, cmd.arg).partition = card.partition
      /\ Executed(card, 13, cmd.arg).width4 = card.width4
  <2>1. Executed(card, 13, cmd.arg) = Settled(card, 13)
    BY ExecutedPlain
  <2> QED
    BY <2>1, SettledFields
<1>3. CASE CmdAnswered
  BY <1>1, <1>2, <1>3 DEF CmdAnswered, AppliedOrTells, AppliedTo
<1>4. CASE CmdIllegal
  BY <1>1, <1>4 DEF CmdIllegal
<1>5. CASE CmdFault
  <2>1. CmdReport(TRUE, cmd.device) \/ CmdReport(TRUE, card.errPending) => cmd'.error
    BY DEF CmdReport
  <2>2. CmdReport(FALSE, cmd.index # 6 \/ card.errPending) =>
           cmd'.device = (cmd.index # 6 \/ card.errPending)
    BY DEF CmdReport
  <2>3. cmd.index # 6 /\ cmd.index \notin BusyIndexes
    BY DEF BusyIndexes
  <2> QED
    BY <1>5, <2>1, <2>2, <2>3 DEF CmdFault
<1> QED
  BY <1>3, <1>4, <1>5

LEMMA SwitchInit == ASSUME Init PROVE SInv
<1> USE DEF Init, CtlInit, ResetRegisters
<1>1. CardThere
  BY DEF CardThere, CardFields, PoweredCard
<1>2. Switched /\ SwitchEnds
  BY DEF Switched, SwitchEnds
<1> QED
  BY <1>1, <1>2, CourseInit DEF SInv

LEMMA Reports ==
    ASSUME CmdFields \subseteq DOMAIN cmd, EngineEdge, CommandOwned, cmd'.done
    PROVE  cmd.busy /\ (CmdAnswered \/ CmdIllegal \/ CmdFault)
<1>1. ~CmdQuiet
  BY DEF CmdQuiet, CmdFields, CommandOwned
<1> QED
  BY <1>1 DEF EngineEdge, CmdAnswered, CmdIllegal, CmdFault, CmdRuns

LEMMA SwitchStep == ASSUME BootSucceeds, TransfersFit, SInv, [Next]_vars PROVE SInv'
<1> USE DEF SInv
<1>1. CASE Next
  <2>1. /\ CInv' /\ EngineEdge /\ CommandOwned /\ DataOwned /\ InitOwned /\ EnginesTyped
        /\ CmdFields \subseteq DOMAIN cmd
    BY <1>1, CourseStep DEF Next, ControllerEdge, CInv, AInv, IInv, CourseFieldsThere
  <2>2. CardThere'
    BY <2>1, CardStaysThere
  <2>3. Registered /\ AnswersOnce /\ Disciplined
    BY <1>1, RegistersEdge, AnswerEdge, FsmEdge
       DEF Next, ControllerEdge, CInv, CourseFieldsThere, CtlFields, AInv, IInv, AnswerTyped
  <2>4. ASSUME Waiting PROVE Switched' /\ SwitchEnds'
    <3>1. /\ AppliedTo(card)' <=> AppliedTo(card')
          /\ AppliedOrTells' <=> AppliedTo(card') \/ card'.errPending
      BY <2>4 DEF AppliedTo, AppliedOrTells, Waiting
    <3>2. ASSUME ~cmd.busy, ctl.mcState \notin DatStates, ctl.mcState = "INIT" => ini.done
          PROVE  /\ ~cmd'.done
                 /\ card'.width4 = card.width4 /\ card'.partition = card.partition
                 /\ card'.errPending = card.errPending
      <4>1. DatIdle /\ ini.st # "run"
        BY <2>1, <3>2 DEF DataOwned, InitOwned, EnginesTyped, DatIdle, ReadStates
      <4>2. AtRest
        BY <2>1, <3>2, <4>1, Rests
      <4>3. ~cmd'.done
        BY <2>1, <3>2, <4>2 DEF AtRest, CmdQuiet, CmdFields
      <4> QED
        BY <4>2, <4>3, WaitingCard DEF AtRest
    <3>3. ASSUME cmd'.done
          PROVE  /\ cmd.busy /\ (CmdAnswered \/ CmdIllegal \/ CmdFault)
                 /\ ctl.mcState \in CmdStates /\ ~cmd.done /\ ctl'.mcState = ctl.mcState
      <4>1. cmd.busy /\ (CmdAnswered \/ CmdIllegal \/ CmdFault)
        BY <2>1, <3>3, Reports
      <4>2. ctl.mcState \in CmdStates /\ ~cmd.done
        BY <2>1, <4>1 DEF CommandOwned
      <4> QED
        BY <2>3, <4>1, <4>2 DEF Disciplined, StartsCommand
    <3>4. ASSUME ctl'.mcState = "SWITCH_CMD", cmd'.done, ~cmd'.error PROVE AppliedOrTells'
      <4>1. cmd.index = 6 /\ cmd.arg = preCmdArgument /\ cmd.respExp
        BY <3>3, <3>4 DEF CInv, CmdIs
      <4> QED
        BY <2>1, <3>1, <3>3, <3>4, <4>1, SwitchReports
    <3>5. ASSUME ctl'.mcState = "SWITCH_WAIT", ctl'.switchNeedsVerify PROVE AppliedOrTells'
      <4>1. /\ ctl.mcState \in {"SWITCH_CMD", "SWITCH_WAIT"} /\ AppliedOrTells
            /\ ~cmd.busy
        BY <2>1, <2>3, <3>5 DEF Switched, CommandOwned
      <4> QED
        BY <3>1, <3>2, <4>1 DEF AppliedOrTells, AppliedTo
    <3>6. ASSUME ctl'.mcState = "SWITCH_STATUS", ~cmd'.done PROVE AppliedOrTells'
      <4>1. AppliedOrTells /\ ctl.mcState \in {"SWITCH_WAIT", "SWITCH_STATUS"}
        BY <2>3, <3>6 DEF Switched
      <4>2. DatIdle /\ ini.st # "run"
        BY <2>1, <4>1 DEF DataOwned, InitOwned, EnginesTyped, DatIdle, ReadStates
      <4>3. CardWaits
        BY <2>1, <3>6, <4>2, CommandAlone
           DEF AtRest, CmdAnswered, CmdIllegal, CmdFault, CmdReport, CmdFields
      <4> QED
        BY <3>1, <4>1, <4>3, WaitingCard DEF AppliedOrTells, AppliedTo
    <3>7. ASSUME ctl'.mcState = "SWITCH_STATUS", cmd'.done, ~cmd'.error, ~cmd'.device
          PROVE  AppliedTo(card)'
      <4>1. cmd.index = 13 /\ cmd.respExp /\ AppliedOrTells
        BY <3>3, <3>7 DEF CInv, CmdIs, Switched
      <4> QED
        BY <2>1, <3>1, <3>3, <3>7, <4>1, StatusReports
    <3>8. ASSUME ctl'.mcState = "INIT", ini'.done PROVE card'.width4 = FALSE
      <4>1. ~IniQuiet
        BY <2>1, <3>8 DEF IniQuiet, InitOwned, EnginesTyped
      <4>2. IniEnds
        BY <2>1, <4>1 DEF EngineEdge
      <4>3. ini.st = "run" /\ ~ini.done
        BY <2>1, <4>2 DEF IniEnds, InitOwned
      <4>4. card' = InitialisedCard
        BY <2>1, <3>8, <4>2, <4>3 DEF IniEnds, EnginesTyped
      <4> QED
        BY <4>4 DEF InitialisedCard, PoweredCard
    <3>9. Switched'
      BY <3>4, <3>5, <3>6, <3>7, <3>8 DEF Switched
    <3>10. SwitchEnds'
      <4>1. SUFFICES ASSUME ctl'.respValid, ctl'.respStatus = "OK"
                     PROVE  SwitchEnds'
        BY DEF SwitchEnds
      <4>2. job'.req = job.req /\ port.cmdId = job.req.id /\ port'.cmdLba = port.cmdLba
        BY <2>4 DEF Waiting, CInv, PortAsks, requested
      <4>3. CASE job.req.id \in {"SET_BUS_WIDTH", "SET_PARTITION"}
        <5>1. /\ ctl.mcState = "SWITCH_STATUS" /\ cmd.done /\ AppliedTo(card) /\ ~cmd.busy
              /\ ctl'.currentPartition = ctl.currentPartition
              /\ ctl.busWidthSwitchPending => ctl'.busWidth4 = ctl.busWidthTarget
          BY <2>1, <2>3, <4>1, <4>2, <4>3 DEF CInv, Switched, CommandOwned
        <5>2. card'.width4 = card.width4 /\ card'.partition = card.partition
          BY <3>2, <5>1
        <5>3. CASE job.req.id = "SET_BUS_WIDTH"
          <6>1. ctl'.busWidth4 = (port.cmdLba % 2 = 1)
            BY <4>2, <5>1, <5>3 DEF CInv
          <6>2. card'.width4 = (port.cmdLba % 2 = 1)
            BY <4>2, <5>1, <5>2, <5>3 DEF AppliedTo
          <6> QED
            BY <4>2, <5>3, <6>1, <6>2 DEF SwitchEnds, requested
        <5>4. CASE job.req.id = "SET_PARTITION"
          <6>1. ctl'.currentPartition = port.cmdLba % 4
            BY <4>2, <5>1, <5>4 DEF CInv
          <6>2. card'.partition = port.cmdLba
            BY <4>2, <5>1, <5>2, <5>4 DEF AppliedTo
          <6> QED
            BY <4>2, <5>4, <6>1, <6>2 DEF SwitchEnds, requested
        <5> QED
          BY <4>3, <5>3, <5>4
      <4>4. CASE job.req.id = "REINIT"
        <5>1. /\ ctl.mcState = "INIT" /\ ini.done /\ ~cmd.busy
              /\ ctl'.busWidth4 = ctl.busWidth4 /\ ctl.busWidth4 = FALSE /\ card.width4 = FALSE
          BY <2>1, <2>3, <4>1, <4>2, <4>4 DEF CInv, Switched, CommandOwned
        <5>2. card'.width4 = card.width4
          BY <3>2, <5>1
        <5> QED
          BY <4>2, <4>4, <5>1, <5>2 DEF SwitchEnds, requested
      <4> QED
        BY <4>2, <4>3, <4>4 DEF SwitchEnds, requested
    <3> QED
      BY <3>9, <3>10
  <2>5. ASSUME NEW r \in Requests, SendRequest(r) PROVE Switched' /\ SwitchEnds'
    <3>1. ~job.open
      BY <2>5 DEF SendRequest, HostFree
    <3>2. ctl'.mcState = "READY" /\ ~ctl'.respValid
      BY <2>3, <3>1
         DEF CInv, AInv, AnswerLatched, HostWaits, Pending, AnswersOnce, StaysReady,
             AnswersAtEnd, Working, Asked
    <3> QED
      BY <3>2 DEF Switched, SwitchEnds
  <2>6. Waiting \/ \E r \in Requests : SendRequest(r)
    BY <1>1, PortMoves DEF Next, CInv, AInv, CourseFieldsThere
  <2> QED
    BY <2>1, <2>2, <2>4, <2>5, <2>6
<1>2. CASE UNCHANGED vars
  <2> USE <1>2 DEF vars, ctlVars
  <2>1. CInv'
    BY CourseStep
  <2>2. CardThere' /\ Switched' /\ SwitchEnds'
    BY DEF CardThere, Switched, SwitchEnds, AppliedOrTells, AppliedTo, requested
  <2> QED
    BY <2>1, <2>2
<1> QED
  BY <1>1, <1>2

LEMMA SwitchInvariance == BootSucceeds /\ TransfersFit => (Spec => []SInv)
<1>1. SUFFICES ASSUME BootSucceeds, TransfersFit PROVE Spec => []SInv
  OBVIOUS
<1>2. SInv /\ [Next]_vars => SInv'
  BY <1>1, SwitchStep
<1> QED
  BY <1>2, SwitchInit, PTL DEF Spec

(* After a bus width change or a REINIT answered OK, the data engine and    *)
(* the card use the same width, whatever the card refused or lost before.   *)
THEOREM WidthIsTheCards == BootSucceeds /\ TransfersFit => (Spec => []WidthAgrees)
<1>1. SInv => WidthAgrees
  BY DEF SInv, SwitchEnds, WidthAgrees, Answers
<1> QED
  BY <1>1, SwitchInvariance, PTL

\* The eMMC partitions of docs/protocol.md are the user area, two boot partitions
\* and the RPMB: EmmcController.scala keeps two bits of the number.
PartitionsFit == \A r \in Requests : r.id = "SET_PARTITION" => r.lba \in 0..3
PartitionFits == requested.id = "SET_PARTITION" => requested.lba \in 0..3

LEMMA PartitionStep == ASSUME PartitionsFit, PartitionFits, SInv, [Next]_vars PROVE PartitionFits'
<1>1. CASE Next
  <2>1. Waiting \/ \E r \in Requests : SendRequest(r)
    BY <1>1, PortMoves DEF Next, SInv, CInv, AInv, CourseFieldsThere
  <2>2. ASSUME NEW r \in Requests, SendRequest(r) PROVE PartitionFits'
    <3>1. job'.req.id = r.id /\ job'.req.lba = r.lba
      BY <2>2 DEF SendRequest
    <3> QED
      BY <3>1 DEF PartitionsFit, PartitionFits, requested
  <2> QED
    BY <2>1, <2>2 DEF Waiting, PartitionFits, requested
<1>2. CASE UNCHANGED vars
  BY <1>2 DEF vars, PartitionFits, requested
<1> QED
  BY <1>1, <1>2

(* A partition change answered OK has taken effect in the card, and the     *)
(* partition the controller reports (GET_STATUS byte 5) is the card's.      *)
THEOREM PartitionIsTheCards ==
    BootSucceeds /\ TransfersFit /\ PartitionsFit => (Spec => []PartitionAgrees)
<1>1. SUFFICES ASSUME BootSucceeds, TransfersFit, PartitionsFit
               PROVE  Spec => []PartitionAgrees
  OBVIOUS
<1>2. Init => PartitionFits
  BY DEF Init, PartitionFits, requested, Boot
<1>3. PartitionFits /\ SInv /\ [Next]_vars => PartitionFits'
  BY <1>1, PartitionStep
<1>4. PartitionFits /\ SInv => PartitionAgrees
  <2>1. ASSUME PartitionFits, SInv, Answers({"SET_PARTITION"}), ctl.respStatus = "OK"
        PROVE  ctl.currentPartition = card.partition
    <3>1. /\ requested.id = "SET_PARTITION" /\ requested.lba \in 0..3
          /\ port.cmdLba = LbaLines(requested)
          /\ ctl.currentPartition = port.cmdLba % 4 /\ card.partition = port.cmdLba
      BY <2>1 DEF Answers, SInv, CInv, PortAsks, SwitchEnds, PartitionFits
    <3>2. port.cmdLba = requested.lba % 256
      BY <3>1 DEF LbaLines
    <3> QED
      BY <3>1, <3>2
  <2> QED
    BY <2>1 DEF PartitionAgrees
<1>5. Spec => []SInv
  BY <1>1, SwitchInvariance
<1> QED
  BY <1>2, <1>3, <1>4, <1>5, PTL DEF Spec

=============================================================================
