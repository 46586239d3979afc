---------------------------- MODULE ServiceProofs ----------------------------
(***************************************************************************)
(* The host's view implements the service of CommandService: the sectors   *)
(* of a read through the ping-pong buffer, from the card to the host.  And *)
(* controller and card keep step: a boot is survived, no error is answered *)
(* without a cause, every transfer is closed, in RPMB mode by the block    *)
(* count of CMD23.                                                         *)
(***************************************************************************)
EXTENDS ControllerProofs

USE DEF OnCourse, StaysOnPath, StaysCommanded, CommandKept, OnPath, Commanded, Loads,
        CountLoaded, SameLoaded, MoreNeedsMulti, CourseTyped, CourseFields,
        Transfers, Switches, Erases, TransferStates,
        CmdStates, DatStates, BusyStates, McStates, Booting, BootFails

USE DEF Registered, StaysCounted, StaysPlanned, SwitchMoves, SwitchAnswered, BlocksLeft,
        SwitchOpen, Planned, RegisterTyped, RegisterFields

-----------------------------------------------------------------------------
(* What one edge of the FSM may do with a read: the banks of the read       *)
(* buffer, the count of the blocks to come, and the answer.                 *)

Reading == port.cmdId \in {"READ_SECTOR", "GET_EXT_CSD"}
Stages == ctl.mcState \in ReadStates /\ dat.done /\ ~dat.crcErr

BufferTurns ==
    /\ ctl'.uartRdBank = IF rdSectorAck THEN ctl.uartRdBankNext ELSE ctl.uartRdBank
    /\ Stages => /\ ctl'.rdSectorReady = TRUE /\ ctl'.uartRdBankNext = ctl.emmcBank % 2
                 /\ ctl'.emmcBank = (ctl.emmcBank + 1) % FifoBanks
    /\ ~Stages => /\ ctl'.rdSectorReady <=> ctl.rdSectorReady /\ ~rdSectorAck
                  /\ ctl'.uartRdBankNext = ctl.uartRdBankNext
                  /\ OnPath(ctl) /\ Reading => ctl'.emmcBank = ctl.emmcBank

ReadBegins ==
    /\ ctl'.mcState \in {"RPMB_CMD23", "READ_CMD"} =>
          \/ Asked /\ port.cmdId = "READ_SECTOR" /\ ctl'.sectorsLeft = port.cmdCount
          \/ /\ ctl.mcState \in {"RPMB_CMD23", "READ_CMD"}
             /\ ctl'.sectorsLeft = ctl.sectorsLeft
    /\ ctl'.mcState = "EXT_CSD_CMD" => Asked \/ ctl.mcState = "EXT_CSD_CMD"

ReadProceeds ==
    /\ ctl'.mcState = "READ_DAT" =>
          /\ ctl'.sectorsLeft = ctl.sectorsLeft
          /\ \/ ctl.mcState = "READ_CMD" /\ CommandGood
             \/ ctl.mcState = "READ_DAT" /\ ~dat.done
             \/ ctl.mcState = "READ_DONE" /\ (~ctl.rdSectorReady \/ rdSectorAck)
    /\ ctl'.mcState = "EXT_CSD_DAT" => \/ ctl.mcState = "EXT_CSD_CMD" /\ CommandGood
                                       \/ ctl.mcState = "EXT_CSD_DAT" /\ ~dat.done
    /\ ctl'.mcState = "READ_DONE" =>
          \/ /\ ctl.mcState = "READ_DAT" /\ Stages
             /\ ctl'.sectorsLeft = ctl.sectorsLeft - 1 /\ ctl'.clkPause = ctl.clkPause
          \/ /\ ctl.mcState = "READ_DONE" /\ ctl'.sectorsLeft = ctl.sectorsLeft
             /\ ctl.rdSectorReady /\ ~rdSectorAck /\ ctl'.clkPause = TRUE

LastStaged == ctl.mcState = "READ_DONE" /\ ctl.sectorsLeft = 0

ReadEnds ==
    /\ ctl'.mcState \in {"STOP_CMD", "STOP_WAIT"} =>
          ctl.mcState \in {"STOP_CMD", "STOP_WAIT"} \/ LastStaged
    /\ ctl'.respValid /\ ctl'.respStatus = "OK" =>
          ctl.mcState = "STOP_WAIT" \/ LastStaged \/ (ctl.mcState = "EXT_CSD_DAT" /\ Stages)

Reads == /\ BufferTurns
         /\ OnPath(ctl) /\ MoreNeedsMulti /\ Reading => ReadBegins /\ ReadProceeds /\ ReadEnds

ReadFields == {"mcState", "sectorsLeft", "useMultiBlock", "clkPause", "rdSectorReady",
               "uartRdBank", "uartRdBankNext", "emmcBank", "respStatus", "respValid",
               "cmdValidD"}
ReadTyped == ReadFields \subseteq DOMAIN ctl /\ ctl.mcState \in McStates

LEMMA ClearedRead ==
    ASSUME ReadTyped
    PROVE  /\ DOMAIN Cleared = DOMAIN ctl /\ Cleared.respValid = FALSE
           /\ Cleared.mcState = ctl.mcState /\ Cleared.respStatus = ctl.respStatus
           /\ Cleared.sectorsLeft = ctl.sectorsLeft /\ Cleared.clkPause = ctl.clkPause
           /\ Cleared.useMultiBlock = ctl.useMultiBlock /\ Cleared.emmcBank = ctl.emmcBank
           /\ Cleared.rdSectorReady <=> ctl.rdSectorReady /\ ~rdSectorAck
           /\ Cleared.uartRdBankNext = ctl.uartRdBankNext
           /\ Cleared.uartRdBank = IF rdSectorAck THEN ctl.uartRdBankNext ELSE ctl.uartRdBank
BY DEF ReadTyped, ReadFields, Cleared

LEMMA LoadedRead ==
    ASSUME ReadTyped
    PROVE  /\ DOMAIN Loaded = DOMAIN ctl /\ Loaded.respValid = FALSE
           /\ Loaded.mcState = ctl.mcState /\ Loaded.emmcBank = ctl.emmcBank
           /\ Loaded.rdSectorReady <=> ctl.rdSectorReady /\ ~rdSectorAck
           /\ Loaded.uartRdBankNext = ctl.uartRdBankNext
           /\ Loaded.uartRdBank = IF rdSectorAck THEN ctl.uartRdBankNext ELSE ctl.uartRdBank
BY ClearedRead DEF ReadTyped, ReadFields, Loaded

USE DEF Reads, BufferTurns, ReadBegins, ReadProceeds, ReadEnds, LastStaged, CommandGood,
        Stages, Reading, ReadStates, ReadTyped, ReadFields, Asked

LEMMA InitReads ==
    ASSUME ReadTyped, StartInit \/ AwaitInit \/ FinishInit \/ FailInit
    PROVE  Reads
<1> USE ClearedRead
<1>1. CASE StartInit
  BY <1>1 DEF StartInit
<1>2. CASE AwaitInit
  BY <1>2 DEF AwaitInit
<1>3. CASE FinishInit
  BY <1>3 DEF FinishInit, Answered
<1>4. CASE FailInit
  BY <1>4 DEF FailInit, Answered, bootRetryLeft
<1> QED
  BY <1>1, <1>2, <1>3, <1>4

LEMMA ReadyReads ==
    ASSUME ReadTyped, AwaitCommand \/ RejectCommand \/ AcceptRead \/ AcceptWrite \/
           AcceptErase \/ AcceptExtCsd \/ AcceptStatus \/ AcceptSwitch \/ AcceptReinit
           \/ SetClkDiv \/ SetRpmbMode \/ AcceptRaw
    PROVE  Reads
<1> USE LoadedRead, ClearedRead DEF Dispatch
<1>1. CASE AwaitCommand
  BY <1>1 DEF AwaitCommand, Go
<1>2. CASE RejectCommand
  BY <1>2 DEF RejectCommand, Answered
<1>3. CASE AcceptRead
  BY <1>3 DEF AcceptRead
<1>4. CASE AcceptWrite
  BY <1>4 DEF AcceptWrite, DispatchWrite, LoadedWrite
<1>5. CASE AcceptErase
  BY <1>5 DEF AcceptErase
<1>6. CASE AcceptExtCsd
  BY <1>6 DEF AcceptExtCsd
<1>7. CASE AcceptStatus
  BY <1>7 DEF AcceptStatus
<1>8. CASE AcceptSwitch
  BY <1>8 DEF AcceptSwitch
<1>9. CASE AcceptReinit
  BY <1>9 DEF AcceptReinit
<1>10. CASE SetClkDiv
  BY <1>10 DEF SetClkDiv, Answered
<1>11. CASE SetRpmbMode
  BY <1>11 DEF SetRpmbMode, Answered
<1>12. CASE AcceptRaw
  BY <1>12 DEF AcceptRaw
<1> QED
  BY <1>1, <1>2, <1>3, <1>4, <1>5, <1>6, <1>7, <1>8, <1>9, <1>10, <1>11, <1>12

LEMMA CommandReads ==
    ASSUME ReadTyped, IssueCommand \/ CommandFails \/ ReadCommandDone \/
           ExtCsdCommandDone \/ WriteCommandDone \/ StopCommandDone \/ SwitchCommandDone
           \/ SwitchStatusDone \/ EraseCommandDone \/ StatusCommandDone \/
           BlockCountDone \/ RawCommandDone
    PROVE  Reads
<1> USE ClearedRead DEF CommandDone, Taken
<1>1. CASE IssueCommand
  BY <1>1 DEF IssueCommand, NextCmd
<1>2. CASE CommandFails
  BY <1>2 DEF CommandFails, Failed, FailsToError, ChecksDeviceStatus
<1>3. CASE ReadCommandDone
  BY <1>3 DEF ReadCommandDone, commandFailed, deviceStatusErr, ChecksDeviceStatus
<1>4. CASE ExtCsdCommandDone
  BY <1>4 DEF ExtCsdCommandDone, commandFailed, deviceStatusErr, ChecksDeviceStatus
<1>5. CASE WriteCommandDone
  BY <1>5 DEF WriteCommandDone
<1>6. CASE StopCommandDone
  BY <1>6 DEF StopCommandDone, Go
<1>7. CASE SwitchCommandDone
  BY <1>7 DEF SwitchCommandDone
<1>8. CASE SwitchStatusDone
  BY <1>8 DEF SwitchStatusDone, Answered
<1>9. CASE EraseCommandDone
  <2>1. /\ ctl.mcState \in {"ERASE_START", "ERASE_END", "ERASE_CMD"}
        /\ ctl'.mcState \in {"ERASE_END", "ERASE_CMD", "SWITCH_WAIT"}
    BY <1>9 DEF EraseCommandDone, NextCmd
  <2>2. ctl'.emmcBank = ctl.emmcBank /\ ctl'.respValid = FALSE
    BY <1>9 DEF EraseCommandDone, NextCmd
  <2>3. /\ ctl'.uartRdBankNext = ctl.uartRdBankNext
        /\ ctl'.uartRdBank = Cleared.uartRdBank /\ ctl'.rdSectorReady = Cleared.rdSectorReady
    BY <1>9 DEF EraseCommandDone, NextCmd
  <2> QED
    BY <2>1, <2>2, <2>3
<1>10. CASE StatusCommandDone
  BY <1>10 DEF StatusCommandDone, Answered
<1>11. CASE BlockCountDone
  BY <1>11 DEF BlockCountDone, NextCmd
<1>12. CASE RawCommandDone
  BY <1>12 DEF RawCommandDone, Answered
<1> QED
  BY <1>1, <1>2, <1>3, <1>4, <1>5, <1>6, <1>7, <1>8, <1>9, <1>10, <1>11, <1>12

LEMMA DataReads ==
    ASSUME ReadTyped, AwaitData \/ DataFails \/ ReadBlockDone \/ ExtCsdBlockDone \/
           ContinueRead \/ FinishBlocks \/ WriteBlockDone \/ ContinueWrite \/
           WriteWatchdog \/ AwaitRpmbData \/ RpmbWatchdog
    PROVE  Reads
<1> USE ClearedRead
<1>1. CASE AwaitData
  BY <1>1 DEF AwaitData, Go
<1>2. CASE DataFails
  BY <1>2 DEF DataFails, Failed
<1>3. CASE ReadBlockDone
  BY <1>3 DEF ReadBlockDone, Staged
<1>4. CASE ExtCsdBlockDone
  BY <1>4 DEF ExtCsdBlockDone, Staged, Answered
<1>5. CASE ContinueRead
  BY <1>5 DEF ContinueRead
<1>6. CASE FinishBlocks
  BY <1>6 DEF FinishBlocks, NextCmd, Answered
<1>7. CASE WriteBlockDone
  BY <1>7 DEF WriteBlockDone
<1>8. CASE ContinueWrite
  BY <1>8 DEF ContinueWrite, moreToWrite
<1>9. CASE WriteWatchdog
  BY <1>9 DEF WriteWatchdog, moreToWrite, NextCmd, Answered
<1>10. CASE AwaitRpmbData
  BY <1>10 DEF AwaitRpmbData, NextCmd
<1>11. CASE RpmbWatchdog
  BY <1>11 DEF RpmbWatchdog, Answered
<1> QED
  BY <1>1, <1>2, <1>3, <1>4, <1>5, <1>6, <1>7, <1>8, <1>9, <1>10, <1>11

LEMMA BusyReads ==
    ASSUME ReadTyped, StillBusy \/ BusyReleased \/ BusyTimeout \/ ReportError \/
           ErrorStopDone
    PROVE  Reads
<1> USE ClearedRead
<1>1. CASE StillBusy
  BY <1>1 DEF StillBusy, Go
<1>2. CASE BusyReleased
  BY <1>2 DEF BusyReleased, NextCmd, Answered
<1>3. CASE BusyTimeout
  BY <1>3 DEF BusyTimeout, Failed
<1>4. CASE ReportError
  BY <1>4 DEF ReportError, NextCmd, Answered
<1>5. CASE ErrorStopDone
  BY <1>5 DEF ErrorStopDone, Answered
<1> QED
  BY <1>1, <1>2, <1>3, <1>4, <1>5
LEMMA ReadsEdge == ASSUME ReadTyped, CtlEdge PROVE Reads
BY InitReads, ReadyReads, CommandReads, DataReads, BusyReads DEF CtlEdge

-----------------------------------------------------------------------------
(* A read as an invariant.  Every sector the host waits for is still on the *)
(* card, staged in a bank of the read buffer, or on its way to the host,    *)
(* and each of these places holds the right one.                            *)

isStaged == ctl.rdSectorReady /\ ~rdSectorAck
onItsWay == uart.st # "idle"
toTake == uart.sectorsLeft
toStage == uart.sectorsLeft - One(isStaged)

Bytes == 0..LbaSpace + 1
UartFields == {"st", "sectorsLeft", "resp"}
JobFields == {"open", "answered", "req", "got", "status"}
ReadThere == /\ UartFields \subseteq DOMAIN uart /\ JobFields \subseteq DOMAIN job
             /\ uart.resp \in Statuses \union {"none"} /\ job.got \in Seq(Bytes)
             /\ ReadFields \subseteq DOMAIN ctl /\ "crcErr" \in DOMAIN dat
             /\ DOMAIN rdBuf = 0..1 /\ \A b \in 0..1 : 0 \in DOMAIN rdBuf[b]

Balance ==
    /\ rdSectorAck => ctl.rdSectorReady /\ uart.st = "header"
    /\ Reading => /\ toTake \in Nat
                  /\ Len(job.got) + One(onItsWay) + toTake = asksSectors
                  /\ isStaged => toTake > 0
    /\ ~Reading => ~onItsWay /\ job.got = <<>> /\ ~ctl.rdSectorReady

Closed == /\ ~job.open => ~onItsWay /\ ~ctl.rdSectorReady
          /\ uart.resp # "none" => job.open

Fresh == toTake = asksSectors /\ ~ctl.rdSectorReady

Counts ==
    Reading =>
       /\ port.cmdValid \/ ctl.cmdValidD => Fresh
       /\ ctl.mcState \in {"RPMB_CMD23", "READ_CMD"} =>
             Fresh /\ ctl.sectorsLeft = asksSectors
       /\ ctl.mcState \in {"EXT_CSD_CMD", "EXT_CSD_DAT"} => Fresh
       /\ ctl.mcState = "READ_DAT" => ctl.sectorsLeft = toTake /\ ~ctl.rdSectorReady
       /\ ctl.mcState = "READ_DONE" => ctl.sectorsLeft = toStage
       /\ ctl.mcState \in {"STOP_CMD", "STOP_WAIT"} => toStage = 0

OkMeansAll ==
    Reading /\ ((ctl.respValid /\ ctl.respStatus = "OK") \/ uart.resp = "OK") => toStage = 0

\* The sector after the ones taken, and after the one staged too.
nextTaken == asksSectors - toTake
nextStaged == asksSectors - toStage

SentRight == \A i \in DOMAIN job.got : job.got[i] = rightSector(i)
TakenRight == onItsWay =>
    rdBuf[IF rdSectorAck THEN ctl.uartRdBankNext ELSE ctl.uartRdBank][0] = rightSector(nextTaken)
StagedRight == isStaged => rdBuf[ctl.uartRdBankNext][0] = rightSector(nextStaged)

\* The bank the card fills is not the one the host reads.
BanksDiffer ==
    /\ ctl.mcState = "READ_DAT" /\ onItsWay => ctl.uartRdBank # ctl.emmcBank % 2
    /\ ctl.mcState = "READ_DONE" =>
          /\ ctl.uartRdBankNext # ctl.emmcBank % 2
          /\ ctl.rdSectorReady \/ ctl.uartRdBank # ctl.emmcBank % 2

\* The card sends block k of the transfer next, if it still sends.
At(c, k) ==
    c.xfer = "data" /\ k < asksSectors =>
       IF port.cmdId = "GET_EXT_CSD" THEN c.base = ExtCsdByte
       ELSE c.base = requested.lba /\ c.blk = k
CardAt(k) == At(card, k)
Rested(n) == card.idle \in 0..n

Filled == rdBuf[ctl.emmcBank % 2][0] = rightSector(nextStaged + 1)

Placed ==
    Reading =>
       /\ ctl.mcState \in {"READ_CMD", "EXT_CSD_CMD"} /\ CommandGood => CardAt(0) /\ Rested(0)
       /\ ctl.mcState \in ReadStates /\ ctl.datRdStart => CardAt(nextStaged) /\ Rested(2)
       /\ dat.st = "rd" => CardAt(nextStaged) /\ (dat.pos = 1 => Filled)
       /\ Stages => CardAt(nextStaged + 1) /\ Rested(0) /\ Filled
       /\ ctl.mcState = "READ_DONE" => CardAt(nextStaged)
                                       /\ Rested(IF ctl.clkPause THEN 2 ELSE 1)

Counted == Balance /\ Closed /\ Counts /\ OkMeansAll
Moved == SentRight /\ TakenRight /\ StagedRight /\ BanksDiffer /\ Placed
RInv == SInv /\ ReadThere /\ Counted /\ Moved

-----------------------------------------------------------------------------
(* One edge of the bridge's transmit side, field by field.                  *)

Unanswered == /\ uart'.resp = Latched /\ job'.status = job.status
              /\ job'.open <=> job.open

TakesOne ==
    /\ TakesSector /\ rdSectorAck' = TRUE
    /\ uart'.st = "header" /\ toTake' = toTake - 1 /\ job'.got = job.got /\ Unanswered
SendsHeader ==
    /\ uart.st = "header" /\ ~rdSectorAck /\ rdSectorAck' = FALSE
    /\ uart'.st = "payload" /\ toTake' = toTake /\ job'.got = job.got /\ Unanswered
SendsOne ==
    /\ uart.st = "payload" /\ rdSectorAck' = FALSE /\ uart'.st = "idle" /\ toTake' = toTake
    /\ job'.got = Append(job.got, rdBuf[ctl.uartRdBank % 2][0]) /\ Unanswered
Responds ==
    /\ uart.st = "idle" /\ ~TakesSector /\ uart.resp # "none" /\ rdSectorAck' = FALSE
    /\ uart'.st = "idle" /\ toTake' = toTake /\ job'.got = job.got
    /\ uart'.resp = IF ctl.respValid THEN ctl.respStatus ELSE "none"
    /\ job'.status = uart.resp /\ ~job'.open
Idles ==
    /\ ~TakesSector /\ rdSectorAck' = FALSE
    /\ uart'.st = uart.st /\ toTake' = toTake /\ job'.got = job.got
    /\ uart'.resp = Latched /\ job'.status = job.status
    /\ job'.open <=> job.open /\ ~Booted

LEMMA SendFields ==
    ASSUME ReadThere, Transmit
    PROVE  /\ UartFields \subseteq DOMAIN uart' /\ JobFields \subseteq DOMAIN job'
           /\ TakesOne \/ SendsHeader \/ SendsOne \/ Responds \/ Idles
<1> USE DEF ReadThere, UartFields, JobFields
<1>1. /\ DOMAIN JobSeen = DOMAIN job /\ JobSeen.got = job.got /\ JobSeen.status = job.status
      /\ JobSeen.open = job.open
  BY DEF JobSeen
<1>2. CASE TakeSector
  BY <1>1, <1>2 DEF TakeSector, TakesOne, Unanswered, toTake
<1>3. CASE SendHeader
  BY <1>1, <1>3 DEF SendHeader, SendsHeader, Unanswered, toTake
<1>4. CASE SendPayload
  <2>1. /\ DOMAIN job' = DOMAIN job /\ job'.status = job.status /\ job'.open = job.open
        /\ job'.got = Append(job.got, rdBuf[ctl.uartRdBank % 2][0])
    BY <1>1, <1>4 DEF SendPayload
  <2>2. /\ DOMAIN uart' = DOMAIN uart /\ uart'.st = "idle" /\ uart'.resp = Latched
        /\ uart'.sectorsLeft = uart.sectorsLeft
    BY <1>4 DEF SendPayload
  <2> QED
    BY <1>4, <2>1, <2>2 DEF SendPayload, SendsOne, Unanswered, toTake
<1>5. CASE SendResponse
  <2>1. /\ DOMAIN job' = DOMAIN job /\ job'.status = uart.resp /\ job'.open = FALSE
        /\ job'.got = job.got
    BY <1>1, <1>5 DEF SendResponse
  <2>2. /\ DOMAIN uart' = DOMAIN uart /\ uart'.st = uart.st
        /\ uart'.sectorsLeft = uart.sectorsLeft
        /\ uart'.resp = IF ctl.respValid THEN ctl.respStatus ELSE "none"
    BY <1>5 DEF SendResponse
  <2> QED
    BY <1>5, <2>1, <2>2 DEF SendResponse, Responds, toTake
<1>6. CASE TransmitIdle
  <2>1. /\ DOMAIN job' = DOMAIN job /\ job'.status = job.status /\ job'.got = job.got
        /\ job'.open <=> job.open /\ ~Booted
    BY <1>1, <1>6 DEF TransmitIdle
  <2>2. /\ DOMAIN uart' = DOMAIN uart /\ uart'.st = uart.st
        /\ uart'.sectorsLeft = uart.sectorsLeft /\ uart'.resp = Latched
    BY <1>6 DEF TransmitIdle
  <2> QED
    BY <1>6, <2>1, <2>2 DEF TransmitIdle, Idles, toTake
<1> QED
  BY <1>2, <1>3, <1>4, <1>5, <1>6 DEF Transmit

\* A new command finds the transmitter free and starts with nothing sent.
AsksAnew ==
    /\ ~job.open /\ uart.st = "idle" /\ uart.resp = "none" /\ rdSectorAck' = FALSE
    /\ uart'.st = "idle" /\ uart'.resp = "none" /\ job'.open /\ job'.got = <<>>
    /\ job'.status = "none" /\ port'.cmdId = job'.req.id
    /\ port'.cmdId \in {"READ_SECTOR", "GET_EXT_CSD"} => toTake' = asksSectors'

LEMMA AskFields ==
    ASSUME ReadThere, PortFields \subseteq DOMAIN port, NEW r \in Requests, SendRequest(r), PortAsks'
    PROVE  /\ UartFields \subseteq DOMAIN uart' /\ JobFields \subseteq DOMAIN job'
           /\ AsksAnew
<1> USE DEF ReadThere, UartFields, JobFields
<1>1. ~job.open /\ uart.st = "idle" /\ uart.resp = "none" /\ rdSectorAck' = FALSE
  BY DEF SendRequest, HostFree
<1>2. /\ JobFields \subseteq DOMAIN job' /\ job'.open /\ job'.got = <<>> /\ job'.status = "none"
      /\ job'.req.id = r.id /\ job'.req.count = r.count
  BY DEF SendRequest
<1>3. /\ DOMAIN uart' = DOMAIN uart /\ uart'.st = uart.st /\ uart'.resp = uart.resp
      /\ r.id = "READ_SECTOR" => uart'.sectorsLeft = r.count
      /\ r.id = "GET_EXT_CSD" => uart'.sectorsLeft = 1
  BY DEF SendRequest
<1>4. port'.cmdId = job'.req.id
  BY DEF PortAsks, requested
<1>5. port'.cmdId \in {"READ_SECTOR", "GET_EXT_CSD"} => toTake' = asksSectors'
  BY <1>2, <1>3, <1>4 DEF asksSectors, requested, toTake
<1> QED
  BY <1>1, <1>2, <1>3, <1>4, <1>5 DEF AsksAnew

-----------------------------------------------------------------------------
(* The count of the sectors is kept.  No block is staged while the host has *)
(* not taken the one before.                                                *)

LEMMA StagedFirst ==
    ASSUME SInv, Balance, Counts
    PROVE  /\ ctl.rdSectorReady => ctl.mcState \notin ReadStates
           /\ Reading /\ ctl.mcState \in ReadStates => toStage = toTake /\ toTake > 0
           /\ ctl.mcState \in ReadStates => Reading
<1>1. OnPath(ctl) /\ BlocksLeft(ctl)
  BY DEF SInv, CInv
<1>2. ctl.mcState \in ReadStates => Reading
  BY <1>1 DEF OnPath, ReadStates, Reading
<1>3. ctl.mcState = "EXT_CSD_DAT" => asksSectors = 1
  <2>1. ctl.mcState = "EXT_CSD_DAT" => requested.id = "GET_EXT_CSD"
    BY <1>1 DEF OnPath, SInv, CInv, PortAsks
  <2> QED
    BY <2>1 DEF asksSectors
<1>4. ctl.mcState \in ReadStates => ~ctl.rdSectorReady
  BY <1>2 DEF Counts, Fresh, ReadStates
<1>5. Reading /\ ctl.mcState = "READ_DAT" => toTake > 0
  BY <1>1 DEF BlocksLeft, Counts
<1>6. Reading /\ ctl.mcState = "EXT_CSD_DAT" => toTake > 0
  BY <1>3 DEF Counts, Fresh
<1>7. Reading /\ ctl.mcState \in ReadStates => toStage = toTake
  <2>1. Reading => toTake \in Nat
    BY DEF Balance
  <2>2. ctl.mcState \in ReadStates => ~isStaged
    BY <1>4 DEF isStaged
  <2> QED
    BY <2>1, <2>2 DEF toStage, One, toTake
<1> QED
  BY <1>2, <1>4, <1>5, <1>6, <1>7 DEF ReadStates

\* What an edge without a new command comes to, for the sectors of a read.
Turns ==
    /\ Reads /\ OnPath(ctl) /\ MoreNeedsMulti /\ BlocksLeft(ctl)
    /\ ctl'.cmdValidD = port.cmdValid /\ ~port'.cmdValid
    /\ Reading' <=> Reading
    /\ asksSectors' = asksSectors
    /\ TakesOne \/ SendsHeader \/ SendsOne \/ Responds \/ Idles
    /\ port.cmdValid => ctl.mcState = "READY"
    /\ ctl.cmdValidD => ctl.mcState = "READY"
    /\ ctl.respValid => ctl.mcState = "READY" /\ job.open /\ uart.resp = "none"
    /\ uart.resp # "none" => ctl.mcState \notin ReadStates
    /\ ~job.open => ctl.mcState = "READY"
    /\ Booted => ~Reading /\ uart.resp = "none" /\ ~ctl.respValid
    /\ Reading /\ Asked /\ port.cmdId = "READ_SECTOR" => port.cmdCount = asksSectors

LEMMA TurnFacts ==
    ASSUME BootSucceeds, RInv, Next, Waiting
    PROVE  Turns
<1> USE DEF RInv, SInv, CInv
<1>1. Reads
  BY ReadsEdge DEF Next, ControllerEdge, ReadThere, AInv, IInv, Typed, ReadTyped
<1>2. ctl'.cmdValidD = port.cmdValid
  BY AnswerEdge DEF AnswersOnce, AInv, Next, ControllerEdge
<1>3. TakesOne \/ SendsHeader \/ SendsOne \/ Responds \/ Idles
  BY SendFields DEF Waiting
<1>4. asksSectors' = asksSectors /\ (Reading' <=> Reading) /\ ~port'.cmdValid
  BY DEF Waiting, asksSectors, requested, Reading
<1>5. /\ port.cmdValid => ctl.mcState = "READY"
      /\ ctl.cmdValidD => ctl.mcState = "READY"
      /\ ctl.respValid => ctl.mcState = "READY" /\ job.open /\ uart.resp = "none"
      /\ uart.resp # "none" => ctl.mcState \notin ReadStates
      /\ ~job.open => ctl.mcState = "READY"
  BY DEF AInv, OnePlace, HostWaits, Pending, Working, Booting, ReadStates, AnswerLatched
<1>6. MoreNeedsMulti
  BY DEF MoreNeedsMulti, BlocksLeft
<1>7. Booted => ~Reading /\ uart.resp = "none" /\ ~ctl.respValid
  BY DEF Booted, Reading, PortAsks, requested
<1>8. port.cmdId = "READ_SECTOR" => port.cmdCount = asksSectors
  BY DEF PortAsks, asksSectors
<1> QED
  BY <1>1, <1>2, <1>3, <1>4, <1>5, <1>6, <1>7, <1>8 DEF Turns

LEMMA Balances ==
    ASSUME Turns, SInv, Balance, Counts, job.got \in Seq(Bytes), UartTyped,
           uart.st = "payload" => rdBuf[ctl.uartRdBank % 2][0] \in Bytes
    PROVE  /\ Balance'
           /\ Reading => toStage' = toStage - One(Stages)
           /\ Reading /\ Stages => ~TakesOne
           /\ TakesOne => isStaged
           /\ ~Reading => ~Stages /\ ~TakesOne
<1>1. /\ ctl.rdSectorReady => ~Stages
      /\ Stages => Reading /\ toTake > 0
      /\ TakesOne => ctl.rdSectorReady /\ ~rdSectorAck /\ toTake > 0
      /\ SendsHeader \/ SendsOne \/ Responds => ~rdSectorAck
  BY StagedFirst DEF Stages, TakesOne, TakesSector, SendsHeader, SendsOne, Responds, Balance, toTake
<1>2. /\ Stages => ctl'.rdSectorReady
      /\ ~Stages => (ctl'.rdSectorReady <=> ctl.rdSectorReady /\ ~rdSectorAck)
  BY DEF Turns, Reads, BufferTurns
<1>3. CASE ~Reading
  <2>1. ~onItsWay /\ job.got = <<>> /\ ~ctl.rdSectorReady /\ ~rdSectorAck
    BY <1>3 DEF Balance
  <2>2. ~TakesOne /\ ~SendsHeader /\ ~SendsOne /\ ~Stages
    BY <1>1, <1>3, <2>1 DEF onItsWay, SendsHeader, SendsOne
  <2>3. Balance'
    BY <1>2, <1>3, <2>1, <2>2 DEF Turns, Balance, onItsWay, Responds, Idles
  <2> QED
    BY <1>3, <2>2, <2>3
<1>4. CASE Reading
  <2>1. toTake \in Nat /\ Len(job.got) \in Nat /\ Reading'
        /\ Len(job.got) + One(onItsWay) + toTake = asksSectors
    BY <1>4 DEF Balance, Turns
  <2>2. CASE TakesOne
    <3>1. ~Stages /\ ctl'.rdSectorReady /\ isStaged /\ ~onItsWay /\ onItsWay' /\ ~isStaged'
      BY <1>1, <1>2, <2>2 DEF TakesOne, TakesSector, isStaged, onItsWay
    <3>2. toTake' = toTake - 1 /\ job'.got = job.got /\ uart'.st = "header" /\ toTake > 0
      BY <1>1, <2>2 DEF TakesOne
    <3>3. toStage' = toStage - One(Stages)
      BY <2>1, <3>1, <3>2 DEF toStage, One, toTake
    <3>4. Balance'
      BY <1>4, <2>1, <3>1, <3>2 DEF Balance, One, Turns
    <3> QED
      BY <1>4, <3>1, <3>3, <3>4
  <2>3. CASE ~TakesOne
    <3>1. toTake' = toTake /\ ~rdSectorAck'
      BY <2>3 DEF Turns, SendsHeader, SendsOne, Responds, Idles
    <3>2. (isStaged' <=> isStaged \/ Stages) /\ (isStaged => ~Stages)
      BY <1>1, <1>2, <3>1 DEF isStaged
    <3>3. toStage' = toStage - One(Stages)
      BY <2>1, <3>1, <3>2 DEF toStage, One, toTake
    <3>4. Len(job'.got) + One(onItsWay') = Len(job.got) + One(onItsWay)
      <4>1. CASE SendsOne
        BY <2>1, <4>1 DEF SendsOne, onItsWay, One
      <4>2. CASE ~SendsOne
        <5>1. job'.got = job.got /\ (onItsWay' <=> onItsWay)
          BY <2>3, <4>2 DEF Turns, SendsHeader, Responds, Idles, onItsWay
        <5> QED
          BY <5>1 DEF One
      <4> QED
        BY <4>1, <4>2
    <3>5. Balance'
      BY <1>1, <1>4, <2>1, <3>1, <3>2, <3>4 DEF Balance, Turns
    <3> QED
      BY <1>4, <2>3, <3>3, <3>5
  <2> QED
    BY <2>2, <2>3
<1> QED
  BY <1>3, <1>4

LEMMA Closes ==
    ASSUME Turns, SInv, Balance, Balance', Counts, Closed
    PROVE  Closed'
<1>1. ctl.mcState \notin ReadStates => (ctl'.rdSectorReady <=> ctl.rdSectorReady /\ ~rdSectorAck)
  BY DEF Turns, Reads, BufferTurns, Stages
<1>2. CASE Responds
  <2>1. ~ctl.rdSectorReady
    BY <1>2 DEF Responds, TakesSector, Balance, toTake, isStaged
  <2>2. ~ctl'.rdSectorReady
    BY <1>1, <1>2, <2>1 DEF Turns, Responds
  <2>3. uart'.resp = "none"
    BY <1>2 DEF Turns, Responds
  <2> QED
    BY <1>2, <2>2, <2>3 DEF Closed, Responds, onItsWay
<1>3. CASE Idles /\ Booted
  <2>1. ~onItsWay' /\ ~ctl'.rdSectorReady
    BY <1>3 DEF Balance, Turns
  <2>2. uart'.resp = "none"
    BY <1>3 DEF Turns, Idles, Latched
  <2> QED
    BY <2>1, <2>2 DEF Closed
<1>4. CASE ~Responds /\ ~(Idles /\ Booted)
  <2>1. (job'.open <=> job.open) /\ uart'.resp = Latched
    BY <1>4 DEF Turns, TakesOne, SendsHeader, SendsOne, Idles, Unanswered
  <2>2. uart'.resp # "none" => job'.open
    BY <2>1 DEF Latched, Turns, Closed
  <2>3. ASSUME ~job'.open PROVE ~onItsWay' /\ ~ctl'.rdSectorReady
    <3>1. ~onItsWay /\ ~ctl.rdSectorReady /\ ctl.mcState \notin ReadStates
      BY <2>1, <2>3 DEF Closed, Turns, ReadStates
    <3>2. ~TakesOne /\ ~SendsHeader /\ ~SendsOne
      BY <3>1 DEF TakesOne, TakesSector, SendsHeader, SendsOne, onItsWay
    <3> QED
      BY <1>1, <1>4, <3>1, <3>2 DEF Turns, Idles, onItsWay
  <2> QED
    BY <2>2, <2>3 DEF Closed
<1> QED
  BY <1>2, <1>3, <1>4

LEMMA CountsOn ==
    ASSUME Turns, SInv, Balance, Counts, OkMeansAll,
           Reading => toStage' = toStage - One(Stages),
           TakesOne => isStaged, Reading => toTake \in Nat
    PROVE  Counts' /\ OkMeansAll'
<1>0. SUFFICES ASSUME Reading PROVE Counts' /\ OkMeansAll'
  BY DEF Counts, OkMeansAll, Turns
<1> USE <1>0
<1>1. /\ ~TakesOne => toTake' = toTake /\ ~rdSectorAck'
      /\ asksSectors' = asksSectors /\ Reading'
  BY DEF Turns, SendsHeader, SendsOne, Responds, Idles
<1>2. /\ Stages => ctl'.rdSectorReady
      /\ ~Stages => (ctl'.rdSectorReady <=> ctl.rdSectorReady /\ ~rdSectorAck)
      /\ ReadBegins /\ ReadProceeds /\ ReadEnds
  BY DEF Turns, Reads, BufferTurns
<1>3. /\ ctl.rdSectorReady => ctl.mcState \notin ReadStates
      /\ ctl.mcState \in ReadStates => toStage = toTake
      /\ Stages => ctl.mcState \in ReadStates
  BY StagedFirst DEF Stages
<1>4. toTake \in Nat /\ toStage' = toStage - One(Stages) /\ (TakesOne => ctl.rdSectorReady /\ ~rdSectorAck)
  BY DEF isStaged
<1>5. ASSUME Fresh, ctl.mcState \notin ReadStates PROVE Fresh'
  BY <1>1, <1>2, <1>3, <1>4, <1>5 DEF Fresh
<1>6. Fresh => toTake = asksSectors /\ ~ctl.rdSectorReady /\ ~isStaged
  BY DEF Fresh, isStaged
<1>7. port'.cmdValid \/ ctl'.cmdValidD => Fresh'
  <2>1. ctl'.cmdValidD = port.cmdValid /\ ~port'.cmdValid /\ (port.cmdValid => ctl.mcState = "READY")
    BY DEF Turns
  <2> QED
    BY <1>5, <2>1 DEF Counts, ReadStates
<1>8. ctl'.mcState \in {"RPMB_CMD23", "READ_CMD"} => Fresh' /\ ctl'.sectorsLeft = asksSectors'
  <2>1. CASE ctl'.mcState \in {"RPMB_CMD23", "READ_CMD"} /\ Asked /\ port.cmdId = "READ_SECTOR"
             /\ ctl'.sectorsLeft = port.cmdCount
    BY <1>1, <1>5, <2>1 DEF Turns, Counts, Asked, ReadStates
  <2>2. CASE ctl.mcState \in {"RPMB_CMD23", "READ_CMD"} /\ ctl'.sectorsLeft = ctl.sectorsLeft
    BY <1>1, <1>5, <2>2 DEF Counts, ReadStates
  <2> QED
    BY <1>2, <2>1, <2>2 DEF ReadBegins
<1>9. ctl'.mcState \in {"EXT_CSD_CMD", "EXT_CSD_DAT"} => Fresh'
  <2>1. CASE Asked \/ ctl.mcState = "EXT_CSD_CMD"
    BY <1>5, <2>1 DEF Counts, Asked, ReadStates
  <2>2. CASE ctl.mcState = "EXT_CSD_DAT" /\ ~dat.done
    BY <1>1, <1>2, <1>4, <2>2 DEF Counts, Fresh, Stages
  <2> QED
    BY <1>2, <2>1, <2>2 DEF ReadBegins, ReadProceeds
<1>10. ctl'.mcState = "READ_DAT" => ctl'.sectorsLeft = toTake' /\ ~ctl'.rdSectorReady
  <2>1. CASE ctl.mcState = "READ_CMD" /\ ctl'.sectorsLeft = ctl.sectorsLeft
    BY <1>1, <1>5, <2>1 DEF Counts, ReadStates, Fresh
  <2>2. CASE ctl.mcState = "READ_DAT" /\ ~dat.done /\ ctl'.sectorsLeft = ctl.sectorsLeft
    BY <1>1, <1>2, <1>4, <2>2 DEF Counts, Stages
  <2>3. CASE /\ ctl.mcState = "READ_DONE" /\ (~ctl.rdSectorReady \/ rdSectorAck)
             /\ ctl'.sectorsLeft = ctl.sectorsLeft
    <3>1. ~Stages /\ ~TakesOne /\ ~isStaged /\ ctl.sectorsLeft = toStage
      BY <1>4, <2>3 DEF Counts, Stages, isStaged, ReadStates
    <3>2. toStage = toTake
      BY <1>4, <3>1 DEF toStage, One, toTake
    <3> QED
      BY <1>1, <1>2, <2>3, <3>1, <3>2
  <2> QED
    BY <1>2, <2>1, <2>2, <2>3 DEF ReadProceeds
<1>11. ctl'.mcState = "READ_DONE" => ctl'.sectorsLeft = toStage'
  <2>1. CASE ctl.mcState = "READ_DAT" /\ Stages /\ ctl'.sectorsLeft = ctl.sectorsLeft - 1
    BY <1>3, <1>4, <2>1 DEF Counts, One, ReadStates
  <2>2. CASE ctl.mcState = "READ_DONE" /\ ctl'.sectorsLeft = ctl.sectorsLeft
    <3>1. ~Stages /\ ctl.sectorsLeft = toStage
      BY <2>2 DEF Counts, Stages, ReadStates
    <3>2. toStage' = toStage
      BY <1>4, <3>1 DEF One, toStage, toTake
    <3> QED
      BY <2>2, <3>1, <3>2
  <2> QED
    BY <1>2, <2>1, <2>2 DEF ReadProceeds
<1>12. ctl'.mcState \in {"STOP_CMD", "STOP_WAIT"} => toStage' = 0
  <2>1. CASE ctl.mcState \in {"STOP_CMD", "STOP_WAIT"} \/ LastStaged
    <3>1. ~Stages /\ toStage = 0
      BY <2>1 DEF Counts, Stages, ReadStates, LastStaged
    <3>2. One(Stages) = 0
      BY <3>1 DEF One
    <3> QED
      BY <1>4, <3>1, <3>2
  <2> QED
    BY <1>2, <2>1 DEF ReadEnds
<1>13. Counts'
  BY <1>7, <1>8, <1>9, <1>10, <1>11, <1>12 DEF Counts
<1>14. ctl'.respValid /\ ctl'.respStatus = "OK" => toStage' = 0
  <2>1. CASE ctl.mcState = "STOP_WAIT" \/ LastStaged
    <3>1. ~Stages /\ toStage = 0
      BY <2>1 DEF Counts, Stages, ReadStates, LastStaged
    <3>2. One(Stages) = 0
      BY <3>1 DEF One
    <3> QED
      BY <1>4, <3>1, <3>2
  <2>2. CASE ctl.mcState = "EXT_CSD_DAT" /\ Stages
    <3>1. port.cmdId = "GET_EXT_CSD" /\ requested.id = port.cmdId
      BY <2>2 DEF SInv, CInv, OnPath, PortAsks
    <3>2. toStage = 1
      BY <1>3, <2>2, <3>1 DEF Counts, Fresh, asksSectors
    <3> QED
      BY <1>4, <2>2, <3>2 DEF One
  <2> QED
    BY <1>2, <2>1, <2>2 DEF ReadEnds
<1>15. uart'.resp = "OK" => toStage' = 0
  <2>1. uart'.resp = "OK" => uart.resp = "OK" \/ (ctl.respValid /\ ctl.respStatus = "OK")
    BY DEF Turns, TakesOne, SendsHeader, SendsOne, Responds, Idles, Unanswered, Latched
  <2>2. uart'.resp = "OK" => toStage = 0 /\ ~Stages
    BY <2>1 DEF OkMeansAll, Turns, Stages, ReadStates
  <2> QED
    BY <1>4, <2>2 DEF One
<1> QED
  BY <1>1, <1>13, <1>14, <1>15 DEF OkMeansAll

-----------------------------------------------------------------------------
(* The sectors themselves: what is sent, taken and staged is right.         *)

LEMMA RightIsByte ==
    ASSUME PortAsks, RequestFits, Reading, NEW i \in Int
    PROVE  rightSector(i) \in Bytes
<1>1. requested.id \in {"READ_SECTOR", "GET_EXT_CSD"}
  BY DEF PortAsks, Reading
<1>2. CASE requested.id = "GET_EXT_CSD"
  BY <1>2, ControllerAssumption DEF rightSector, ExtCsdByte, Bytes
<1>3. CASE requested.id = "READ_SECTOR"
  <2>1. requested.lba + i - 1 \in Int
    BY <1>3, ControllerAssumption DEF RequestFits
  <2>2. rightSector(i) = (requested.lba + i - 1) % LbaSpace
    BY <1>3 DEF rightSector
  <2>3. \A n \in Int : n % LbaSpace \in 0..LbaSpace - 1
    BY ControllerAssumption
  <2>4. rightSector(i) \in 0..LbaSpace - 1
    BY <2>1, <2>2, <2>3
  <2> QED
    BY <2>4, ControllerAssumption DEF Bytes
<1> QED
  BY <1>1, <1>2, <1>3

\* The card's byte goes to the bank that emmcBank selects, and nowhere else.
Fills ==
    /\ dat.st = "rd" /\ dat.pos = 0 /\ DatPasses("data")
    /\ rdBuf'[ctl.emmcBank % 2][0] = SectorByte(card)
    /\ \A b \in 0..1 : b # ctl.emmcBank % 2 => rdBuf'[b] = rdBuf[b]

LEMMA BufferFills ==
    ASSUME ReadThere, EngineEdge, Typed(ctl), EnginesTyped
    PROVE  /\ DOMAIN rdBuf' = 0..1 /\ \A b \in 0..1 : 0 \in DOMAIN rdBuf'[b]
           /\ rdBuf' = rdBuf \/ Fills
           /\ DatByte /\ dat.st = "rd" => Fills
<1>1. CASE rdBuf' = rdBuf /\ ~(DatByte /\ dat.st = "rd")
  BY <1>1 DEF ReadThere
<1>2. CASE DatByte /\ dat.st = "rd"
  <2>1. dat.st = "rd" /\ DatPasses("data") /\ dat.pos = 0
    BY <1>2, BenchAssumption DEF DatByte, EnginesTyped
  <2>2. ctl.emmcBank % 2 \in 0..1
    BY Banks DEF Typed
  <2>3. rdBuf' = [rdBuf EXCEPT ![ctl.emmcBank % 2][0] = SectorByte(card)]
    BY <1>2, <2>1 DEF DatByte
  <2> DEFINE b0 == ctl.emmcBank % 2
  <2>4. /\ DOMAIN rdBuf' = 0..1 /\ \A b \in 0..1 : b # b0 => rdBuf'[b] = rdBuf[b]
        /\ rdBuf'[b0] = [rdBuf[b0] EXCEPT ![0] = SectorByte(card)]
    BY <2>2, <2>3 DEF ReadThere
  <2>5. 0 \in DOMAIN rdBuf[b0]
    BY <2>2 DEF ReadThere
  <2>6. 0 \in DOMAIN rdBuf'[b0] /\ rdBuf'[b0][0] = SectorByte(card)
    BY <2>4, <2>5
  <2>7. \A b \in 0..1 : 0 \in DOMAIN rdBuf'[b]
    BY <2>4, <2>6 DEF ReadThere
  <2>8. Fills
    BY <2>1, <2>4, <2>6 DEF Fills
  <2> QED
    BY <2>4, <2>7, <2>8
<1>3. rdBuf' # rdBuf => DatByte /\ dat.st = "rd"
  BY DEF EngineEdge, DatByte, DatBlock, DatTimeout
<1> QED
  BY <1>1, <1>2, <1>3

\* While a block is staged or just complete the read buffer rests.
LEMMA BufferRests ==
    ASSUME RInv, Next
    PROVE  /\ rdBuf' = rdBuf \/ Fills
           /\ ctl.rdSectorReady \/ Stages => rdBuf' = rdBuf
           /\ Fills => ctl.mcState \in ReadStates /\ ~Stages
<1>1. rdBuf' = rdBuf \/ Fills
  BY BufferFills DEF RInv, SInv, CInv, AInv, IInv, Next, ControllerEdge
<1>2. dat.st = "rd" => ctl.mcState \in ReadStates /\ ~dat.done
  BY DEF RInv, SInv, CInv, AInv, IInv, DataOwned
<1>3. ctl.rdSectorReady => ctl.mcState \notin ReadStates
  BY StagedFirst DEF RInv, Counted
<1> QED
  BY <1>1, <1>2, <1>3 DEF Fills, Stages

LEMMA SectorCounts ==
    ASSUME ReadThere, Balance, Reading
    PROVE  /\ toTake \in Nat /\ Len(job.got) \in Nat
           /\ Len(job.got) + One(onItsWay) + toTake = asksSectors
           /\ asksSectors \in Nat /\ toStage \in Int
           /\ nextTaken \in Int /\ nextStaged \in Int
           /\ onItsWay => nextTaken = Len(job.got) + 1
<1>1. One(onItsWay) \in Nat /\ One(isStaged) \in Nat
  BY DEF One
<1>2. toTake \in Nat /\ Len(job.got) + One(onItsWay) + toTake = asksSectors
  BY DEF Balance
<1>3. Len(job.got) \in Nat
  <2>1. job.got \in Seq(Bytes)
    BY DEF ReadThere
  <2> QED
    BY <2>1
<1>4. asksSectors \in Nat
  BY <1>1, <1>2, <1>3
<1>5. toStage \in Int
  BY <1>1, <1>2 DEF toStage, toTake
<1>6. nextTaken \in Int /\ nextStaged \in Int
  BY <1>2, <1>4, <1>5 DEF nextTaken, nextStaged
<1>7. onItsWay => One(onItsWay) = 1
  BY DEF One
<1>8. ASSUME onItsWay PROVE nextTaken = Len(job.got) + 1
  <2>1. Len(job.got) + 1 + toTake = asksSectors
    BY <1>2, <1>7, <1>8
  <2> QED
    BY <1>2, <1>3, <1>4, <2>1 DEF nextTaken
<1> QED
  BY <1>2, <1>3, <1>4, <1>5, <1>6, <1>8

LEMMA Taking ==
    ASSUME RInv
    PROVE  uart.st = "payload" =>
              /\ Reading /\ nextTaken = Len(job.got) + 1
              /\ rdBuf[ctl.uartRdBank % 2][0] = rightSector(nextTaken)
              /\ rdBuf[ctl.uartRdBank % 2][0] \in Bytes
<1> USE DEF RInv, Counted, Moved
<1>1. ASSUME uart.st = "payload"
      PROVE  /\ Reading /\ nextTaken = Len(job.got) + 1
             /\ rdBuf[ctl.uartRdBank % 2][0] = rightSector(nextTaken)
  <2>1. Reading /\ ~rdSectorAck /\ onItsWay
    BY <1>1 DEF Balance, onItsWay
  <2>2. ctl.uartRdBank % 2 = ctl.uartRdBank
    BY DEF SInv, CInv, AInv, IInv, Typed
  <2>3. rdBuf[ctl.uartRdBank][0] = rightSector(nextTaken)
    BY <2>1 DEF TakenRight
  <2>4. nextTaken = Len(job.got) + 1
    BY <2>1, SectorCounts
  <2> QED
    BY <2>1, <2>2, <2>3, <2>4
<1>2. Reading => nextTaken \in Int
  BY SectorCounts
<1> QED
  BY <1>1, <1>2, RightIsByte DEF SInv, CInv

LEMMA SectorsRight ==
    ASSUME RInv, Next, Turns, \A i : rightSector(i)' = rightSector(i)
    PROVE  SentRight' /\ TakenRight' /\ StagedRight' /\ job'.got \in Seq(Bytes)
<1> USE DEF RInv, Counted, Moved
<1>1. /\ Reading => toStage' = toStage - One(Stages)
      /\ Reading /\ Stages => ~TakesOne
      /\ TakesOne => isStaged
      /\ ~Reading => ~Stages /\ ~TakesOne
      /\ Balance'
  BY Balances, Taking DEF ReadThere, SInv, CInv, AInv, IInv
<1>2. /\ rdBuf' = rdBuf \/ Fills
      /\ ctl.rdSectorReady \/ Stages => rdBuf' = rdBuf
      /\ Fills => ctl.mcState \in ReadStates /\ ~Stages
  BY BufferRests
<1>3. BufferTurns /\ asksSectors' = asksSectors
  BY DEF Turns, Reads
<1>4. /\ ~TakesOne => toTake' = toTake /\ ~rdSectorAck'
      /\ TakesOne => toTake' = toTake - 1 /\ rdSectorAck' = TRUE /\ ctl.rdSectorReady
                     /\ uart'.st = "header" /\ ~onItsWay
  BY DEF Turns, SendsHeader, SendsOne, Responds, Idles, TakesOne, TakesSector, onItsWay
<1>5. SentRight' /\ job'.got \in Seq(Bytes)
  <2>1. CASE SendsOne
    <3> DEFINE b == rdBuf[ctl.uartRdBank % 2][0]
    <3>1. /\ job'.got = Append(job.got, b) /\ b \in Bytes
          /\ b = rightSector(Len(job.got) + 1) /\ job.got \in Seq(Bytes)
      BY <2>1, Taking DEF SendsOne, ReadThere
    <3> HIDE DEF b
    <3>2. job'.got \in Seq(Bytes) /\ DOMAIN job'.got = 1..Len(job.got) + 1
      BY <3>1
    <3>3. \A i \in 1..Len(job.got) : job'.got[i] = job.got[i]
      BY <3>1
    <3>4. job'.got[Len(job.got) + 1] = b
      BY <3>1
    <3>5. DOMAIN job.got = 1..Len(job.got) /\ Len(job.got) \in Nat
      BY <3>1
    <3>6. \A i \in DOMAIN job'.got : job'.got[i] = rightSector(i)
      BY <3>1, <3>2, <3>3, <3>4, <3>5 DEF SentRight
    <3> QED
      BY <3>2, <3>6 DEF SentRight
  <2>2. CASE ~SendsOne
    <3>1. job'.got = job.got
      BY <2>2 DEF Turns, TakesOne, SendsHeader, Responds, Idles
    <3> QED
      BY <3>1 DEF SentRight, ReadThere
  <2> QED
    BY <2>1, <2>2
<1>6. TakenRight'
  <2>1. CASE TakesOne
    <3>1. Reading /\ ~Stages /\ isStaged /\ rdBuf' = rdBuf
      BY <1>1, <1>2, <1>4, <2>1
    <3>2. ctl'.uartRdBankNext = ctl.uartRdBankNext
      BY <1>3, <3>1
    <3>3. nextTaken' = nextStaged
      <4>1. toTake \in Nat /\ asksSectors \in Nat
        BY <3>1, SectorCounts
      <4> QED
        BY <1>3, <1>4, <2>1, <3>1, <4>1 DEF nextTaken, nextStaged, toStage, One, toTake
    <3>4. rdBuf[ctl.uartRdBankNext][0] = rightSector(nextStaged)
      BY <3>1 DEF StagedRight
    <3> QED
      BY <1>4, <2>1, <3>1, <3>2, <3>3, <3>4 DEF TakenRight
  <2>2. CASE ~TakesOne
    <3>1. onItsWay' => onItsWay /\ Reading
      BY <2>2 DEF Turns, SendsHeader, SendsOne, Responds, Idles, onItsWay, Balance
    <3>2. nextTaken' = nextTaken /\ ~rdSectorAck'
      BY <1>3, <1>4, <2>2 DEF nextTaken
    <3> SUFFICES ASSUME onItsWay, Reading
                 PROVE  rdBuf'[ctl'.uartRdBank][0] = rightSector(nextTaken)
      BY <3>1, <3>2 DEF TakenRight
    <3>3. CASE rdSectorAck
      <4>1. ctl'.uartRdBank = ctl.uartRdBankNext /\ rdBuf' = rdBuf
        BY <1>2, <1>3, <3>3 DEF Balance
      <4> QED
        BY <3>3, <4>1 DEF TakenRight
    <3>4. CASE ~rdSectorAck
      <4>1. ctl'.uartRdBank = ctl.uartRdBank /\ rdBuf[ctl.uartRdBank][0] = rightSector(nextTaken)
        BY <1>3, <3>4 DEF TakenRight
      <4>2. ASSUME Fills PROVE ctl.uartRdBank # ctl.emmcBank % 2 /\ ctl.uartRdBank \in 0..1
        <5>1. ctl.mcState # "EXT_CSD_DAT"
          <6>1. toTake # asksSectors
            <7>1. /\ toTake \in Nat /\ asksSectors \in Nat /\ Len(job.got) \in Nat
                  /\ nextTaken = Len(job.got) + 1
              BY SectorCounts
            <7> QED
              BY <7>1 DEF nextTaken
          <6> QED
            BY <6>1 DEF Counts, Fresh
        <5>2. ctl.mcState = "READ_DAT"
          BY <1>2, <4>2, <5>1
        <5> QED
          BY <5>2 DEF BanksDiffer, SInv, CInv, AInv, IInv, Typed
      <4>3. rdBuf'[ctl.uartRdBank] = rdBuf[ctl.uartRdBank]
        BY <1>2, <4>2 DEF Fills
      <4> QED
        BY <4>1, <4>3
    <3> QED
      BY <3>3, <3>4
  <2> QED
    BY <2>1, <2>2
<1>7. StagedRight'
  <2>1. SUFFICES ASSUME isStaged'
                 PROVE  rdBuf'[ctl'.uartRdBankNext][0] = rightSector(nextStaged')
    BY DEF StagedRight
  <2>2. ~TakesOne /\ ctl'.rdSectorReady
    BY <1>4, <2>1 DEF isStaged
  <2>3. CASE Stages
    <3>1. Reading /\ rdBuf' = rdBuf /\ ctl'.uartRdBankNext = ctl.emmcBank % 2
      BY <1>1, <1>2, <1>3, <2>3
    <3>2. toStage' = toStage - 1 /\ toStage \in Int /\ asksSectors \in Int
      <4>1. One(Stages) = 1
        BY <2>3 DEF One
      <4>2. toStage \in Int /\ asksSectors \in Int
        BY <3>1, SectorCounts
      <4> QED
        BY <1>1, <3>1, <4>1, <4>2
    <3>3. nextStaged' = nextStaged + 1
      BY <1>3, <3>2 DEF nextStaged
    <3>4. Filled
      BY <2>3, <3>1 DEF Placed
    <3> QED
      BY <3>1, <3>3, <3>4 DEF Filled
  <2>4. CASE ~Stages
    <3>1. isStaged /\ Reading /\ rdBuf' = rdBuf /\ ctl'.uartRdBankNext = ctl.uartRdBankNext
      BY <1>2, <1>3, <2>2, <2>4 DEF isStaged, Balance
    <3>2. nextStaged' = nextStaged
      <4>1. One(Stages) = 0
        BY <2>4 DEF One
      <4>2. toStage \in Int
        BY <3>1, SectorCounts
      <4> QED
        BY <1>1, <1>3, <3>1, <4>1, <4>2 DEF nextStaged
    <3> QED
      BY <3>1, <3>2 DEF StagedRight
  <2> QED
    BY <2>3, <2>4
<1> QED
  BY <1>5, <1>6, <1>7

-----------------------------------------------------------------------------
(* Where a block on its way from the card is put.                           *)

LEMMA NextBankDiffers == \A b \in 0..FifoBanks - 1 : ((b + 1) % FifoBanks) % 2 # b % 2
<1>1. SUFFICES ASSUME NEW b \in 0..FifoBanks - 1 PROVE ((b + 1) % FifoBanks) % 2 # b % 2
  OBVIOUS
<1>2. FifoBanks \in Nat /\ FifoBanks > 0 /\ FifoBanks % 2 = 0
  BY ControllerAssumption
<1>3. CASE b + 1 < FifoBanks
  <2>1. (b + 1) % FifoBanks = b + 1
    BY <1>2, <1>3
  <2> QED
    BY <2>1
<1>4. CASE b + 1 = FifoBanks
  <2>1. (b + 1) % FifoBanks = 0
    BY <1>2, <1>4
  <2>2. b % 2 = 1
    BY <1>2, <1>4
  <2> QED
    BY <2>1, <2>2
<1> QED
  BY <1>2, <1>3, <1>4

LEMMA BanksApart ==
    ASSUME RInv, SInv', Turns, Next
    PROVE  BanksDiffer'
<1> USE DEF RInv, Counted, Moved
<1>1. ctl'.mcState \in {"READ_DAT", "READ_DONE"} => Reading
  BY DEF Turns, SInv, CInv, OnPath, Reading
<1>2. SUFFICES ASSUME Reading PROVE BanksDiffer'
  BY <1>1 DEF BanksDiffer
<1>3. BufferTurns /\ OnPath(ctl) /\ ReadProceeds
  BY <1>2 DEF Turns, Reads
<1>4. /\ ~TakesOne => (onItsWay' => onItsWay)
      /\ TakesOne => ctl.rdSectorReady /\ ~rdSectorAck
      /\ rdSectorAck => ctl.rdSectorReady
  BY DEF Turns, TakesOne, TakesSector, SendsHeader, SendsOne, Responds, Idles, onItsWay, Balance
<1>5. ~Stages => ctl'.emmcBank = ctl.emmcBank /\ ctl'.uartRdBankNext = ctl.uartRdBankNext
  BY <1>2, <1>3
<1>6. ctl'.uartRdBank = IF rdSectorAck THEN ctl.uartRdBankNext ELSE ctl.uartRdBank
  BY <1>3
<1>7. ASSUME ctl'.mcState = "READ_DAT", onItsWay' PROVE ctl'.uartRdBank # ctl'.emmcBank % 2
  <2>1. CASE ctl.mcState = "READ_CMD"
    <3>1. ~onItsWay /\ ~ctl.rdSectorReady
      <4>1. Fresh
        BY <1>2, <2>1 DEF Counts
      <4>2. toTake = asksSectors
        BY <4>1 DEF Fresh
      <4>3. onItsWay => /\ nextTaken = Len(job.got) + 1 /\ Len(job.got) \in Nat
                        /\ toTake \in Nat /\ asksSectors \in Nat
        BY <1>2, SectorCounts
      <4>4. ~onItsWay
        BY <4>2, <4>3 DEF nextTaken
      <4> QED
        BY <4>1, <4>4 DEF Fresh
    <3> QED
      BY <1>4, <1>7, <3>1
  <2>2. CASE ctl.mcState = "READ_DAT" /\ ~dat.done
    <3>1. ~ctl.rdSectorReady /\ ~Stages
      BY <1>2, <2>2 DEF Counts, Stages
    <3>2. onItsWay /\ ctl.uartRdBank # ctl.emmcBank % 2
      BY <1>4, <1>7, <2>2, <3>1 DEF BanksDiffer
    <3> QED
      BY <1>4, <1>5, <1>6, <3>1, <3>2
  <2>3. CASE ctl.mcState = "READ_DONE" /\ (~ctl.rdSectorReady \/ rdSectorAck)
    <3>1. ~Stages
      BY <2>3 DEF Stages, ReadStates
    <3> QED
      BY <1>4, <1>5, <1>6, <2>3, <3>1 DEF BanksDiffer
  <2> QED
    BY <1>3, <1>7, <2>1, <2>2, <2>3 DEF ReadProceeds
<1>8. ASSUME ctl'.mcState = "READ_DONE"
      PROVE  ctl'.uartRdBankNext # ctl'.emmcBank % 2 /\ ctl'.rdSectorReady
  <2>1. CASE Stages
    <3>1. ctl.emmcBank \in 0..FifoBanks - 1
      BY DEF SInv, CInv, AInv, IInv, Typed
    <3> QED
      BY <1>3, <2>1, <3>1, NextBankDiffers DEF BufferTurns
  <2>2. CASE ~Stages
    <3>1. ctl.mcState = "READ_DONE" /\ ctl.rdSectorReady /\ ~rdSectorAck
      BY <1>3, <1>8, <2>2 DEF ReadProceeds
    <3>2. ctl'.rdSectorReady
      BY <1>3, <2>2, <3>1 DEF BufferTurns
    <3> QED
      BY <1>5, <2>2, <3>1, <3>2 DEF BanksDiffer
  <2> QED
    BY <2>1, <2>2
<1> QED
  BY <1>7, <1>8 DEF BanksDiffer

LEMMA TransferFields ==
    ASSUME NEW c, CardFields \subseteq DOMAIN c, NEW x, NEW first, NEW isOpen
    PROVE  /\ Transfer(c, x, first, isOpen).base = first
           /\ Transfer(c, x, first, isOpen).blk = 0 /\ Transfer(c, x, first, isOpen).idle = 0
BY DEF Transfer, CardFields

\* A read command that is answered without an error has started the transfer.
LEMMA ReadReports ==
    ASSUME CardThere, CmdFields \subseteq DOMAIN cmd, cmd.respExp, cmd.index \in {8, 17, 18},
           CmdAnswered \/ CmdIllegal \/ CmdFault, ~cmd'.error, ~cmd'.device
    PROVE  /\ card'.base = IF cmd.index = 8 THEN ExtCsdByte ELSE cmd.arg.value
           /\ card'.blk = 0 /\ card'.idle = 0
<1> USE DEF CmdFields
<1>1. \A e, d : CmdReport(e, d) => (cmd'.error <=> e) /\ (cmd'.device <=> d)
  BY DEF CmdReport
<1>2. ~CmdIllegal
  BY <1>1 DEF CmdIllegal
<1>3. ~CmdFault
  <2>1. CmdReport(TRUE, cmd.device) \/ CmdReport(TRUE, card.errPending) => cmd'.error
    BY DEF CmdReport
  <2>2. CmdReport(FALSE, cmd.index # 6 \/ card.errPending) =>
           cmd'.device = (cmd.index # 6 \/ card.errPending)
    BY DEF CmdReport
  <2>3. cmd.index # 6 /\ cmd.index \notin BusyIndexes
    BY DEF BusyIndexes
  <2> QED
    BY <2>1, <2>2, <2>3 DEF CmdFault
<1>4. card' = Executed(card, cmd.index, cmd.arg)
  BY <1>2, <1>3 DEF CmdAnswered
<1>5. CardFields \subseteq DOMAIN Settled(card, cmd.index)
  BY SettledFields DEF CardThere
<1>6. CASE cmd.index = 8
  <2>1. PICK isOpen : card' = Transfer(Settled(card, cmd.index), "data", ExtCsdByte, isOpen)
    BY <1>4, <1>6, ExecutedCsd
  <2> QED
    BY <1>5, <1>6, <2>1, TransferFields
<1>7. CASE cmd.index \in {17, 18}
  <2>1. card' = Transfer(Settled(card, cmd.index), "data", cmd.arg.value,
                         cmd.index = 18 /\ ~card.quota)
    BY <1>4, <1>7, ExecutedRead
  <2> QED
    BY <1>5, <1>7, <2>1, TransferFields
<1> QED
  BY <1>6, <1>7

\* A card nobody listens to keeps its place for a while.
LEMMA WaitsAt ==
    ASSUME CardThere, CardWaits, NEW k, CardAt(k), NEW n \in 0..CardGap - 1, Rested(n)
    PROVE  /\ At(card', k) /\ card'.idle \in 0..n + 1
           /\ ctl.clkPause => card'.idle \in 0..n
<1> USE DEF CardThere, CardFields
<1>1. card.idle \in 0..n /\ card.idle < CardGap /\ CardGap = 4
  BY DEF Rested, CardGap
<1>2. CASE card' = card
  BY <1>1, <1>2 DEF CardAt
<1>3. CASE ~ctl.clkPause /\ card' = [card EXCEPT !.idle = @ + 1]
  <2>1. /\ card'.xfer = card.xfer /\ card'.base = card.base /\ card'.blk = card.blk
        /\ card'.idle = card.idle + 1
    BY <1>3
  <2>2. At(card, k) => At(card', k)
    BY <2>1 DEF At
  <2>3. At(card', k)
    BY <2>2 DEF CardAt
  <2> QED
    BY <1>1, <1>3, <2>1, <2>3
<1> QED
  BY <1>1, <1>2, <1>3 DEF CardWaits, Waits

LEMMA BlockAt ==
    ASSUME CardThere, NEW k \in Nat, CardAt(k), card' = BlockMoved(card), asksSectors <= LbaSpace,
           asksSectors \in Nat, port.cmdId = "GET_EXT_CSD" => asksSectors = 1
    PROVE  At(card', k + 1) /\ card'.idle = 0
<1> USE DEF CardThere, CardFields
<1>1. CASE card.open
  <2>1. /\ card'.xfer = card.xfer /\ card'.base = card.base
        /\ card'.blk = (card.blk + 1) % LbaSpace /\ card'.idle = 0
    BY <1>1 DEF BlockMoved
  <2>2. ASSUME card'.xfer = "data", k + 1 < asksSectors
        PROVE  /\ port.cmdId # "GET_EXT_CSD"
               /\ card'.base = requested.lba /\ card'.blk = k + 1
    <3>1. port.cmdId # "GET_EXT_CSD" /\ card.base = requested.lba /\ card.blk = k
      BY <2>1, <2>2 DEF CardAt, At
    <3>2. (k + 1) % LbaSpace = k + 1
      BY <2>2, ControllerAssumption
    <3> QED
      BY <2>1, <3>1, <3>2
  <2> QED
    BY <2>1, <2>2 DEF At
<1>2. CASE ~card.open
  <2>1. card'.xfer = "tran" /\ card'.idle = 0
    BY <1>2 DEF BlockMoved
  <2> QED
    BY <2>1 DEF At
<1> QED
  BY <1>1, <1>2

-----------------------------------------------------------------------------
(* The block the card sends next is the one the FSM waits for.              *)

\* What an edge without a new command leaves alone, and how far staging gets.
SameRead ==
    /\ Reading /\ Reading' /\ asksSectors' = asksSectors /\ asksSectors \in Nat
    /\ port'.cmdId = port.cmdId /\ job'.req = job.req
    /\ nextStaged \in Nat /\ nextStaged' = IF Stages THEN nextStaged + 1 ELSE nextStaged
    /\ ~Stages => ctl'.emmcBank = ctl.emmcBank
    /\ ReadProceeds /\ Disciplined
    /\ ctl.mcState \in ReadStates => nextStaged < asksSectors
    /\ asksSectors <= LbaSpace /\ (port.cmdId = "GET_EXT_CSD" => asksSectors = 1)

LEMMA SameReadFacts ==
    ASSUME RInv, Turns, Balance', Next, Waiting, Reading
    PROVE  SameRead
<1> USE DEF RInv, Counted, Moved
<1>1. Reading' /\ asksSectors' = asksSectors /\ BufferTurns /\ ReadProceeds /\ OnPath(ctl)
  BY DEF Turns, Reads
<1>2. port'.cmdId = port.cmdId /\ job'.req = job.req
  BY DEF Waiting
<1>3. Disciplined
  BY FsmEdge DEF SInv, CInv, AInv, IInv, Next, ControllerEdge
<1>4. /\ toTake \in Nat /\ Len(job.got) \in Nat /\ asksSectors \in Nat /\ toStage \in Int
      /\ Len(job.got) + One(onItsWay) + toTake = asksSectors
  BY SectorCounts
<1>5. toStage' = toStage - One(Stages)
  BY Balances, Taking DEF ReadThere, SInv, CInv, AInv, IInv
<1>6. nextStaged' = IF Stages THEN nextStaged + 1 ELSE nextStaged
  <2>1. One(Stages) = IF Stages THEN 1 ELSE 0
    BY DEF One
  <2> QED
    BY <1>1, <1>4, <1>5, <2>1 DEF nextStaged
<1>7. nextStaged \in Nat
  <2>1. One(onItsWay) \in Nat /\ One(isStaged) \in Nat
    BY DEF One
  <2>2. toTake <= asksSectors
    BY <1>4, <2>1
  <2> QED
    BY <1>4, <2>1, <2>2 DEF nextStaged, toStage, toTake
<1>8. ctl.mcState \in ReadStates => nextStaged < asksSectors
  <2>1. ctl.mcState \in ReadStates => toStage = toTake /\ toTake > 0
    BY StagedFirst
  <2> QED
    BY <1>4, <2>1 DEF nextStaged
<1>9. asksSectors <= LbaSpace /\ (port.cmdId = "GET_EXT_CSD" => asksSectors = 1)
  <2>1. requested.id = port.cmdId
    BY DEF SInv, CInv, PortAsks
  <2>2. requested.id = "READ_SECTOR" => asksSectors <= LbaSpace
    BY ControllerAssumption DEF asksSectors, SInv, CInv, RequestFits
  <2>3. requested.id = "GET_EXT_CSD" => asksSectors = 1
    BY DEF asksSectors
  <2> QED
    BY <2>1, <2>2, <2>3, ControllerAssumption DEF Reading
<1> QED
  BY <1>1, <1>2, <1>3, <1>4, <1>6, <1>7, <1>8, <1>9 DEF SameRead, BufferTurns

\* The parts of Placed for the next state, from facts about the next card.
LEMMA PlacedNext ==
    ASSUME SameRead, \A i : rightSector(i)' = rightSector(i)
    PROVE  /\ At(card', nextStaged') => CardAt(nextStaged)'
           /\ At(card', nextStaged' + 1) => CardAt(nextStaged + 1)'
           /\ At(card', 0) => CardAt(0)'
           /\ rdBuf'[ctl'.emmcBank % 2][0] = rightSector(nextStaged' + 1) => Filled'
<1>1. asksSectors' = asksSectors /\ port'.cmdId = port.cmdId /\ requested' = requested
  BY DEF SameRead, requested
<1> QED
  BY <1>1 DEF CardAt, At, Filled

\* The engines at an edge, for a card that is read.
LEMMA Quiet ==
    ASSUME RInv, Next
    PROVE  /\ ctl.mcState \notin CmdStates \union ReadStates \union {"WRITE_DAT", "INIT"} => AtRest
           /\ ctl.mcState \in CmdStates /\ cmd.done => AtRest
           /\ ctl.mcState \in ReadStates /\ dat.st # "rd" => AtRest
           /\ dat.st = "rd" => ctl.mcState \in ReadStates /\ ~dat.done /\ ~ctl.clkPause
           /\ dat.st = "wr" => ctl.mcState = "WRITE_DAT"
           /\ ctl.datRdStart => ~dat.done
           /\ ctl.clkPause => ctl.mcState = "READ_DONE"
<1>1. IInv /\ dat.st \in {"idle", "rd", "wr"}
  BY DEF RInv, SInv, CInv, AInv, IInv, EnginesTyped
<1> QED
  BY <1>1, QuietEdge DEF DatIdle

LEMMA StartPlaced ==
    ASSUME RInv, SInv', SameRead, Next, \A i : rightSector(i)' = rightSector(i),
           ctl'.mcState \in {"READ_CMD", "EXT_CSD_CMD"}, CommandGood'
    PROVE  CardAt(0)' /\ Rested(0)'
<1> USE DEF RInv, SInv, CInv
<1>1. cmd.busy /\ (CmdAnswered \/ CmdIllegal \/ CmdFault) /\ ~cmd.done
  BY Reports DEF AInv, IInv, CommandOwned, CourseFieldsThere, Next, ControllerEdge, CommandGood
<1>2. ctl'.mcState = ctl.mcState
  BY <1>1 DEF AInv, IInv, CommandOwned, SameRead, Disciplined, StartsCommand
<1>3. /\ ctl.mcState = "READ_CMD" => /\ cmd.index \in {17, 18} /\ cmd.arg = Plain(port.cmdLba)
                                     /\ port.cmdId = "READ_SECTOR"
      /\ ctl.mcState = "EXT_CSD_CMD" => cmd.index = 8 /\ port.cmdId = "GET_EXT_CSD"
      /\ cmd.respExp
  BY <1>1, <1>2 DEF CmdIs, Commanded, Loads, OnPath
<1>4. /\ card'.base = IF cmd.index = 8 THEN ExtCsdByte ELSE cmd.arg.value
      /\ card'.blk = 0 /\ card'.idle = 0
  BY <1>1, <1>2, <1>3, ReadReports DEF CourseFieldsThere, CommandGood
<1>5. port.cmdId = "READ_SECTOR" => port.cmdLba = requested.lba
  BY DEF PortAsks, LbaLines
<1>6. Plain(port.cmdLba).value = port.cmdLba
  BY DEF Plain
<1>7. At(card', 0)
  BY <1>2, <1>3, <1>4, <1>5, <1>6 DEF At
<1>8. CardAt(0)'
  BY <1>7, PlacedNext
<1> QED
  BY <1>4, <1>8 DEF Rested

LEMMA ReadPlaced ==
    ASSUME RInv, SInv', SameRead, Next, \A i : rightSector(i)' = rightSector(i),
           ctl'.mcState \in ReadStates, ctl'.datRdStart
    PROVE  CardAt(nextStaged)' /\ Rested(2)'
<1> USE DEF RInv, Counted, Moved
<1>1. ctl.mcState \notin ReadStates
  BY DEF SameRead, ReadStates, Disciplined, StartsData, DatStates
<1>2. ~Stages /\ nextStaged' = nextStaged /\ nextStaged \in Nat
  BY <1>1 DEF Stages, SameRead
<1>3. AtRest /\ CardWaits /\ CardThere
  <2>1. \/ ctl.mcState \in {"READ_CMD", "EXT_CSD_CMD"} /\ CommandGood
        \/ ctl.mcState = "READ_DONE"
    BY <1>1 DEF SameRead, ReadProceeds, ReadStates
  <2>2. AtRest
    BY <2>1, Quiet DEF CommandGood
  <2> QED
    BY <2>2 DEF AtRest, SInv
<1>4. CASE ctl.mcState \in {"READ_CMD", "EXT_CSD_CMD"}
  <2>1. CommandGood
    BY <1>4 DEF SameRead, ReadProceeds, ReadStates
  <2>2. CardAt(0) /\ Rested(0)
    BY <1>4, <2>1 DEF Placed, SameRead
  <2>3. nextStaged = 0
    <3>1. Fresh
      BY <1>4 DEF Counts, SameRead
    <3>2. One(isStaged) = 0 /\ toTake = asksSectors /\ asksSectors \in Nat
      BY <3>1 DEF Fresh, isStaged, One, SameRead
    <3>3. toStage = asksSectors
      BY <3>2 DEF toStage, toTake
    <3> QED
      BY <3>2, <3>3 DEF nextStaged
  <2>4. 0 \in 0..CardGap - 1
    BY DEF CardGap
  <2>5. At(card', 0) /\ card'.idle \in 0..0 + 1
    BY <1>3, <2>2, <2>4, WaitsAt
  <2> QED
    BY <1>2, <2>3, <2>5, PlacedNext DEF Rested
<1>5. CASE ctl.mcState = "READ_DONE"
  <2>1. CardAt(nextStaged) /\ Rested(IF ctl.clkPause THEN 2 ELSE 1)
    BY <1>5 DEF Placed, SameRead
  <2>2. At(card', nextStaged) /\ card'.idle \in 0..2
    <3>1. 1 \in 0..CardGap - 1 /\ 2 \in 0..CardGap - 1
      BY DEF CardGap
    <3>2. CASE ctl.clkPause
      <4>1. CardAt(nextStaged) /\ Rested(2)
        BY <2>1, <3>2
      <4> QED
        BY <1>3, <3>1, <3>2, <4>1, WaitsAt
    <3>3. CASE ~ctl.clkPause
      <4>1. CardAt(nextStaged) /\ Rested(1)
        BY <2>1, <3>3
      <4>2. At(card', nextStaged) /\ card'.idle \in 0..1 + 1
        BY <1>3, <3>1, <4>1, WaitsAt
      <4> QED
        BY <4>2
    <3> QED
      BY <3>2, <3>3
  <2> QED
    BY <1>2, <2>2, PlacedNext DEF Rested
<1> QED
  BY <1>1, <1>4, <1>5 DEF SameRead, ReadProceeds, ReadStates

LEMMA ByteIsRight ==
    ASSUME RInv, SameRead, Fills
    PROVE  rdBuf'[ctl.emmcBank % 2][0] = rightSector(nextStaged + 1)
<1> USE DEF RInv, Counted, Moved
<1>1. CardAt(nextStaged) /\ nextStaged \in Nat
  BY DEF Placed, SameRead, Fills
<1>2. ctl.mcState \in ReadStates /\ nextStaged < asksSectors
  BY DEF SInv, CInv, AInv, IInv, DataOwned, Fills, SameRead
<1>3. card.xfer = "data"
  BY DEF Fills, DatPasses
<1>4. CASE port.cmdId = "GET_EXT_CSD"
  <2>1. requested.id = "GET_EXT_CSD" /\ card.base = ExtCsdByte
    BY <1>1, <1>2, <1>3, <1>4 DEF CardAt, At, SInv, CInv, PortAsks
  <2> QED
    BY <2>1 DEF Fills, SectorByte, rightSector
<1>5. CASE port.cmdId = "READ_SECTOR"
  <2>1. requested.id = "READ_SECTOR" /\ card.base = requested.lba /\ card.blk = nextStaged
    BY <1>1, <1>2, <1>3, <1>5 DEF CardAt, At, SInv, CInv, PortAsks
  <2>2. requested.lba \in 0..LbaSpace - 1
    BY <2>1 DEF SInv, CInv, RequestFits
  <2>3. card.base # ExtCsdByte
    BY <2>1, <2>2, ControllerAssumption DEF ExtCsdByte
  <2>4. requested.lba + (nextStaged + 1) - 1 = requested.lba + nextStaged
    BY <1>1, <2>2, ControllerAssumption
  <2> QED
    BY <2>1, <2>3, <2>4 DEF Fills, SectorByte, rightSector
<1> QED
  BY <1>4, <1>5 DEF SameRead

LEMMA BlockPlaced ==
    ASSUME RInv, SameRead, Next, \A i : rightSector(i)' = rightSector(i), dat'.st = "rd"
    PROVE  CardAt(nextStaged)' /\ (dat'.pos = 1 => Filled')
<1> USE DEF RInv, Counted, Moved
<1>0. EngineEdge /\ CardThere /\ EnginesTyped
  BY DEF Next, ControllerEdge, SInv, CInv, AInv, IInv
<1>1. CASE dat.st # "rd"
  <2>1. ctl.datRdStart /\ dat.st = "idle" /\ ctl.mcState \in ReadStates /\ ~dat.done
    BY <1>0, <1>1, EnginesEdge DEF DatMoves, SInv, CInv, AInv, IInv, DataOwned, EnginesTyped
  <2>2. AtRest
    BY <1>1, <2>1, Quiet
  <2>3. nextStaged' = nextStaged /\ CardAt(nextStaged) /\ Rested(2)
    BY <2>1 DEF SameRead, Stages, Placed
  <2>4. At(card', nextStaged)
    <3>1. 2 \in 0..CardGap - 1
      BY DEF CardGap
    <3> QED
      BY <1>0, <2>2, <2>3, <3>1, WaitsAt DEF AtRest
  <2>5. dat'.pos = 0
    BY <1>0, <2>1, <2>2 DEF AtRest, DatQuiet, DatIdle, EnginesTyped
  <2> QED
    BY <2>3, <2>4, <2>5, PlacedNext
<1>2. CASE dat.st = "rd"
  <2>1. /\ ~Stages /\ ctl.mcState \in ReadStates
        /\ nextStaged' = nextStaged /\ ctl'.emmcBank = ctl.emmcBank
    BY <1>2, Quiet DEF Stages, SameRead
  <2>2. CardAt(nextStaged) /\ (dat.pos = 1 => Filled)
    BY <1>2 DEF Placed, SameRead
  <2>3. card' = card /\ (dat'.pos = 1 => Fills \/ (rdBuf' = rdBuf /\ dat.pos = 1))
    <3>1. ~cmd.busy /\ ini.st # "run" /\ ~ctl.clkPause
      BY <2>1, Quiet, <1>2 DEF SInv, CInv, AInv, IInv, CommandOwned, InitOwned, ReadStates
    <3>2. CASE DatByte
      <4>1. Fills
        BY <1>0, <1>2, <3>2, BufferFills DEF SInv, CInv, AInv, IInv
      <4> QED
        BY <3>2, <4>1 DEF DatByte
    <3>3. ~DatBlock /\ ~DatTimeout
      BY <1>0 DEF DatBlock, DatTimeout, DatReport, EnginesTyped
    <3>4. CASE CmdQuiet /\ DatQuiet /\ IniQuiet /\ CardWaits /\ UNCHANGED rdBuf
      BY <1>2, <3>4 DEF DatQuiet, DatIdle, CardWaits
    <3> QED
      BY <1>0, <3>1, <3>2, <3>3, <3>4 DEF EngineEdge, CmdAnswered, CmdIllegal, CmdFault, CmdRuns,
                                          IniEnds
  <2>4. At(card', nextStaged')
    BY <2>1, <2>2, <2>3 DEF CardAt
  <2>5. dat'.pos = 1 => rdBuf'[ctl'.emmcBank % 2][0] = rightSector(nextStaged' + 1)
    <3>1. CASE Fills
      BY <2>1, <3>1, ByteIsRight
    <3>2. CASE rdBuf' = rdBuf /\ dat.pos = 1
      BY <2>1, <2>2, <3>2 DEF Filled
    <3> QED
      BY <2>3, <3>1, <3>2
  <2> QED
    BY <2>4, <2>5, PlacedNext
<1> QED
  BY <1>1, <1>2

LEMMA DonePlaced ==
    ASSUME RInv, SInv', SameRead, Next, \A i : rightSector(i)' = rightSector(i), Stages'
    PROVE  CardAt(nextStaged + 1)' /\ Rested(0)' /\ Filled'
<1> USE DEF RInv, Counted, Moved
<1>0. EngineEdge /\ CardThere /\ EnginesTyped
  BY DEF Next, ControllerEdge, SInv, CInv, AInv, IInv
<1>1. dat.st # "idle" /\ ctl'.mcState \in ReadStates /\ dat'.done /\ ~dat'.crcErr
  BY <1>0, EnginesEdge DEF DatMoves, Stages, ReadStates
<1>2. dat.st = "rd" /\ ctl.mcState \in ReadStates /\ ~dat.done /\ ~Stages
  <2>1. CASE dat.st = "rd"
    BY <2>1, Quiet DEF Stages
  <2>2. CASE dat.st = "wr"
    <3>1. ctl.mcState = "WRITE_DAT" /\ ~dat.done
      BY <2>2 DEF SInv, CInv, AInv, IInv, DataOwned
    <3>2. ctl'.mcState = "WRITE_DAT"
      BY <3>1 DEF SameRead, Disciplined, StartsData, DatStates
    <3> QED
      BY <1>1, <3>2 DEF ReadStates
  <2> QED
    BY <1>0, <1>1, <2>1, <2>2 DEF EnginesTyped
<1>3. nextStaged' = nextStaged /\ ctl'.emmcBank = ctl.emmcBank /\ nextStaged \in Nat
  BY <1>2 DEF SameRead
<1>4. DatBlock /\ card' = BlockMoved(card) /\ dat.pos = 1 /\ rdBuf' = rdBuf
  <2>1. ~cmd.busy /\ ini.st # "run"
    BY <1>2 DEF SInv, CInv, AInv, IInv, CommandOwned, InitOwned, ReadStates
  <2>2. ~DatQuiet
    BY <1>1, <1>2 DEF DatQuiet, DatIdle
  <2>3. ~DatByte
    BY <1>0, <1>1, <1>2 DEF DatByte, EnginesTyped
  <2>4. ~DatTimeout
    BY <1>0, <1>1 DEF DatTimeout, DatReport, EnginesTyped, ReadThere
  <2>5. DatBlock
    BY <1>0, <2>1, <2>2, <2>3, <2>4 DEF EngineEdge, CmdAnswered, CmdIllegal, CmdFault, CmdRuns,
                                        IniEnds
  <2>6. card' = BlockMoved(card) /\ rdBuf' = rdBuf
    BY <1>2, <2>5 DEF DatBlock
  <2> QED
    BY <2>5, <2>6, BenchAssumption DEF DatBlock
<1>5. CardAt(nextStaged) /\ Filled
  BY <1>2, <1>4 DEF Placed, SameRead
<1>6. At(card', nextStaged + 1) /\ card'.idle = 0
  BY <1>0, <1>3, <1>4, <1>5, BlockAt DEF SameRead
<1>7. CardAt(nextStaged + 1)' /\ Filled'
  BY <1>3, <1>4, <1>5, <1>6, PlacedNext DEF Filled
<1> QED
  BY <1>6, <1>7 DEF Rested

LEMMA StagedPlaced ==
    ASSUME RInv, SInv', SameRead, Next, \A i : rightSector(i)' = rightSector(i),
           ctl'.mcState = "READ_DONE"
    PROVE  CardAt(nextStaged)' /\ (Rested(IF ctl.clkPause THEN 2 ELSE 1))'
<1> USE DEF RInv, Counted, Moved
<1>0. 0 \in 0..CardGap - 1 /\ 1 \in 0..CardGap - 1 /\ 2 \in 0..CardGap - 1
  BY DEF CardGap
<1>1. CASE ctl.mcState = "READ_DAT" /\ Stages /\ ctl'.clkPause = ctl.clkPause
  <2>1. dat.st # "rd" /\ ~ctl.clkPause
    BY <1>1, Quiet DEF Stages
  <2>2. CardWaits /\ CardThere
    BY <1>1, <2>1, Quiet DEF AtRest, SInv, ReadStates
  <2>3. CardAt(nextStaged + 1) /\ Rested(0) /\ nextStaged' = nextStaged + 1
    BY <1>1 DEF Placed, SameRead
  <2>4. At(card', nextStaged + 1) /\ card'.idle \in 0..0 + 1
    BY <1>0, <2>2, <2>3, WaitsAt
  <2>5. CardAt(nextStaged)'
    BY <2>3, <2>4, PlacedNext
  <2> QED
    BY <1>1, <2>1, <2>4, <2>5 DEF Rested
<1>2. CASE ctl.mcState = "READ_DONE" /\ ctl'.clkPause = TRUE
  <2>1. CardWaits /\ CardThere /\ nextStaged' = nextStaged
    BY <1>2, Quiet DEF AtRest, SInv, SameRead, Stages, ReadStates, CmdStates
  <2>2. CardAt(nextStaged) /\ Rested(IF ctl.clkPause THEN 2 ELSE 1)
    BY <1>2 DEF Placed, SameRead
  <2>3. At(card', nextStaged) /\ card'.idle \in 0..2
    <3>2. CASE ctl.clkPause
      <4>1. CardAt(nextStaged) /\ Rested(2)
        BY <2>2, <3>2
      <4> QED
        BY <1>0, <2>1, <3>2, <4>1, WaitsAt
    <3>3. CASE ~ctl.clkPause
      <4>1. CardAt(nextStaged) /\ Rested(1)
        BY <2>2, <3>3
      <4>2. At(card', nextStaged) /\ card'.idle \in 0..1 + 1
        BY <1>0, <2>1, <4>1, WaitsAt
      <4> QED
        BY <4>2
    <3> QED
      BY <3>2, <3>3
  <2>4. CardAt(nextStaged)'
    BY <2>1, <2>3, PlacedNext
  <2> QED
    BY <1>2, <2>3, <2>4 DEF Rested
<1> QED
  BY <1>1, <1>2 DEF SameRead, ReadProceeds

LEMMA PlacedStays ==
    ASSUME RInv, SInv', SameRead, Next, \A i : rightSector(i)' = rightSector(i)
    PROVE  Placed'
<1> USE StartPlaced, ReadPlaced, BlockPlaced, DonePlaced, StagedPlaced
<1>1. /\ ctl'.mcState \in {"READ_CMD", "EXT_CSD_CMD"} /\ CommandGood' => CardAt(0)' /\ Rested(0)'
      /\ ctl'.mcState \in ReadStates /\ ctl'.datRdStart => CardAt(nextStaged)' /\ Rested(2)'
      /\ dat'.st = "rd" => CardAt(nextStaged)' /\ (dat'.pos = 1 => Filled')
  OBVIOUS
<1>2. /\ Stages' => CardAt(nextStaged + 1)' /\ Rested(0)' /\ Filled'
      /\ ctl'.mcState = "READ_DONE" =>
            CardAt(nextStaged)' /\ (Rested(IF ctl.clkPause THEN 2 ELSE 1))'
  OBVIOUS
<1> QED
  BY <1>1, <1>2 DEF Placed

-----------------------------------------------------------------------------
(* The invariant of a read.                                                 *)

LEMMA ReadThereStays ==
    ASSUME ReadThere, EngineEdge, Typed(ctl), EnginesTyped,
           DOMAIN ctl' = DOMAIN ctl, job'.got \in Seq(Bytes),
           UartFields \subseteq DOMAIN uart', JobFields \subseteq DOMAIN job',
           uart'.resp \in {uart.resp, Latched, "none"} \union Statuses
    PROVE  ReadThere'
<1>1. "crcErr" \in DOMAIN dat'
  BY DEF ReadThere, EngineEdge, DatQuiet, DatByte, DatBlock, DatTimeout, DatReport
<1>2. DOMAIN rdBuf' = 0..1 /\ \A b \in 0..1 : 0 \in DOMAIN rdBuf'[b]
  BY BufferFills
<1>3. Latched \in Statuses \union {"none"}
  BY DEF Latched, Typed, ReadThere
<1>4. uart'.resp \in Statuses \union {"none"} /\ ReadFields \subseteq DOMAIN ctl'
  BY <1>3 DEF ReadThere
<1> QED
  BY <1>1, <1>2, <1>4 DEF ReadThere, Bytes

LEMMA ReadInit == ASSUME Init PROVE RInv
<1> USE DEF Init, CtlInit, ResetRegisters
<1>1. SInv
  BY SwitchInit
<1>2. ReadThere
  <2>1. <<>> \in Seq(Bytes)
    OBVIOUS
  <2>2. job.got = <<>>
    OBVIOUS
  <2>3. /\ UartFields \subseteq DOMAIN uart /\ JobFields \subseteq DOMAIN job
        /\ uart.resp = "none" /\ ReadFields \subseteq DOMAIN ctl /\ "crcErr" \in DOMAIN dat
    BY DEF UartFields, JobFields, ReadFields
  <2>4. DOMAIN rdBuf = 0..1 /\ \A b \in 0..1 : 0 \in DOMAIN rdBuf[b]
    BY BenchAssumption
  <2> QED
    BY <2>1, <2>2, <2>3, <2>4 DEF ReadThere
<1>3. ~Reading /\ ~onItsWay /\ ~ctl.rdSectorReady /\ ~rdSectorAck /\ job.got = <<>>
  BY DEF Reading, onItsWay
<1>4. Counted
  BY <1>3 DEF Counted, Balance, Closed, Counts, OkMeansAll
<1>5. Moved
  BY <1>3 DEF Moved, SentRight, TakenRight, StagedRight, isStaged, BanksDiffer, Placed
<1> QED
  BY <1>1, <1>2, <1>4, <1>5 DEF RInv

\* A new command: nothing is sent, staged or on its way.
LEMMA ReadAsked ==
    ASSUME BootSucceeds, RInv, SInv', Next, NEW r \in Requests, SendRequest(r), PortAsks'
    PROVE  RInv'
<1> USE DEF RInv, Counted
<1>1. AsksAnew /\ UartFields \subseteq DOMAIN uart' /\ JobFields \subseteq DOMAIN job'
  BY AskFields DEF SInv, CInv, CourseFieldsThere
<1>2. /\ AInv /\ AnswersOnce /\ EngineEdge /\ Typed(ctl) /\ EnginesTyped
      /\ ctl.mcState = "READY" /\ ~ctl.cmdValidD /\ ~onItsWay /\ ~ctl.rdSectorReady
  BY <1>1, AnswerEdge
     DEF SInv, CInv, AInv, IInv, AnswerLatched, HostWaits, Pending, Closed, AsksAnew, Next,
         ControllerEdge
<1>3. ctl'.mcState = "READY" /\ ~ctl'.respValid
  BY <1>2 DEF AnswersOnce, StaysReady, AnswersAtEnd, Working, Booting, Asked
<1>4. DOMAIN ctl' = DOMAIN ctl
  BY CourseEdge DEF OnCourse, Next, ControllerEdge, CourseTyped, SInv, CInv, CourseFieldsThere,
                    CtlFields, AInv, AnswerTyped
<1>5. ~ctl'.rdSectorReady
  <2>1. BufferTurns /\ ~Stages
    BY <1>2, ReadsEdge
       DEF Next, ControllerEdge, ReadThere, Reads, ReadTyped, Stages, ReadStates, Typed
  <2> QED
    BY <1>2, <2>1 DEF BufferTurns
<1>6. ReadThere'
  <2>1. job'.got \in Seq(Bytes) /\ uart'.resp = "none"
    BY <1>1 DEF AsksAnew
  <2> QED
    BY <1>1, <1>2, <1>4, <2>1, ReadThereStays
<1>7. /\ ~onItsWay' /\ ~isStaged' /\ ~rdSectorAck' /\ job'.got = <<>> /\ job'.open
      /\ uart'.resp = "none"
      /\ Reading' => toTake' = asksSectors'
  BY <1>1, <1>5 DEF AsksAnew, onItsWay, isStaged, Reading
<1>8. Reading' => asksSectors' \in Nat
  BY ControllerAssumption
     DEF Reading, asksSectors, SInv, CInv, PortAsks, RequestFits, requested
<1>9. Balance'
  <2>1. Len(job'.got) = 0 /\ One(onItsWay') = 0
    BY <1>7 DEF One
  <2> QED
    BY <1>5, <1>7, <1>8, <2>1 DEF Balance
<1>10. Closed' /\ Counts' /\ OkMeansAll'
  BY <1>3, <1>5, <1>7 DEF Closed, Counts, Fresh, OkMeansAll
<1>11. Moved'
  <2>1. SentRight' /\ TakenRight' /\ StagedRight' /\ BanksDiffer'
    BY <1>3, <1>7 DEF SentRight, TakenRight, StagedRight, BanksDiffer
  <2>2. dat'.st # "rd"
    BY <1>3 DEF SInv, CInv, AInv, IInv, DataOwned, ReadStates
  <2>3. Placed'
    BY <1>3, <2>2 DEF Placed, Stages, ReadStates
  <2> QED
    BY <2>1, <2>3 DEF Moved
<1> QED
  BY <1>6, <1>9, <1>10, <1>11

LEMMA ReadTurns ==
    ASSUME BootSucceeds, RInv, SInv', Next, Waiting
    PROVE  RInv'
<1> USE DEF RInv, Counted
<1>1. Turns
  BY TurnFacts
<1>2. \A i : rightSector(i)' = rightSector(i)
  BY DEF Waiting, rightSector, requested
<1>3. /\ Balance'
      /\ Reading => toStage' = toStage - One(Stages)
      /\ TakesOne => isStaged
  BY <1>1, Balances, Taking DEF ReadThere, SInv, CInv, AInv, IInv
<1>4. Closed'
  BY <1>1, <1>3, Closes
<1>5. Counts' /\ OkMeansAll'
  BY <1>1, <1>3, CountsOn, SectorCounts
<1>6. SentRight' /\ TakenRight' /\ StagedRight' /\ job'.got \in Seq(Bytes)
  BY <1>1, <1>2, SectorsRight
<1>7. BanksDiffer'
  BY <1>1, BanksApart
<1>8. Placed'
  <2>1. CASE Reading
    <3>1. SameRead
      BY <1>1, <1>3, <2>1, SameReadFacts
    <3> QED
      BY <1>2, <3>1, PlacedStays
  <2>2. CASE ~Reading
    BY <1>1, <2>2 DEF Placed, Turns
  <2> QED
    BY <2>1, <2>2
<1>9. ReadThere'
  <2>1. UartFields \subseteq DOMAIN uart' /\ JobFields \subseteq DOMAIN job'
    BY SendFields DEF Waiting
  <2>2. uart'.resp \in {uart.resp, Latched, "none"} \union Statuses
    BY <1>1 DEF Turns, TakesOne, SendsHeader, SendsOne, Responds, Idles, Unanswered, SInv, CInv,
                AInv, IInv, Typed
  <2>3. DOMAIN ctl' = DOMAIN ctl
    BY CourseEdge DEF OnCourse, Next, ControllerEdge, CourseTyped, SInv, CInv,
                      CourseFieldsThere, CtlFields, AInv, AnswerTyped
  <2> QED
    BY <1>6, <2>1, <2>2, <2>3, ReadThereStays DEF SInv, CInv, AInv, IInv, Next, ControllerEdge
<1> QED
  BY <1>3, <1>4, <1>5, <1>6, <1>7, <1>8, <1>9 DEF Moved

LEMMA ReadStep == ASSUME BootSucceeds, TransfersFit, RInv, [Next]_vars PROVE RInv'
<1>1. SInv'
  BY SwitchStep DEF RInv
<1>2. CASE Next
  <2>1. Waiting \/ \E r \in Requests : SendRequest(r) /\ PortAsks'
    BY <1>2, PortMoves DEF RInv, SInv, CInv, AInv, CourseFieldsThere, Next
  <2> QED
    BY <1>1, <1>2, <2>1, ReadAsked, ReadTurns
<1>3. CASE UNCHANGED vars
  <2> USE <1>3 DEF vars, ctlVars
  <2>1. ReadThere' /\ Counted'
    BY DEF RInv, ReadThere, UartFields, JobFields, ReadFields, Bytes, Counted, Balance, Closed,
           Counts, OkMeansAll, Fresh, toTake, toStage, isStaged, onItsWay, Reading, asksSectors,
           requested
  <2>2. Moved'
    BY DEF RInv, Moved, SentRight, TakenRight, StagedRight, BanksDiffer, Placed, nextTaken,
           nextStaged, toTake, toStage, isStaged, onItsWay, Reading, asksSectors, requested,
           rightSector, CardAt, At, Rested, Filled, CommandGood, Stages
  <2> QED
    BY <1>1, <2>1, <2>2 DEF RInv
<1> QED
  BY <1>2, <1>3

LEMMA ReadInvariance == BootSucceeds /\ TransfersFit => (Spec => []RInv)
<1>1. SUFFICES ASSUME BootSucceeds, TransfersFit PROVE Spec => []RInv
  OBVIOUS
<1>2. RInv /\ [Next]_vars => RInv'
  BY <1>1, ReadStep
<1> QED
  BY <1>2, ReadInit, PTL DEF Spec

-----------------------------------------------------------------------------
(* The refinement: each edge is a step of the service, or none.             *)

phaseNow == IF ~job.open THEN "idle" ELSE IF requested.id = "BOOT" THEN "boot" ELSE "busy"
sentNow == IF \A i \in DOMAIN job.got : job.got[i] = rightSector(i)
           THEN Len(job.got) ELSE LbaSpace + 1
ServiceSame == /\ phaseNow' = phaseNow /\ asksSectors' = asksSectors
               /\ sentNow' = sentNow /\ job'.status = job.status

LEMMA SentIsLength == ASSUME SentRight PROVE sentNow = Len(job.got)
BY DEF SentRight, sentNow

LEMMA AskServes ==
    ASSUME RInv, RInv', AsksAnew, job'.req.id # "BOOT"
    PROVE  Service!Ask
<1>1. /\ phaseNow = "idle" /\ phaseNow' = "busy" /\ job'.status = "none"
  BY DEF AsksAnew, phaseNow, requested
<1>2. sentNow' = 0
  <2>1. SentRight' /\ job'.got = <<>>
    BY DEF RInv, Moved, AsksAnew
  <2>2. sentNow' = Len(job'.got)
    BY <2>1, SentIsLength DEF SentRight, sentNow
  <2> QED
    BY <2>1, <2>2
<1>3. asksSectors' \in 0..LbaSpace
  BY ControllerAssumption DEF RInv, SInv, CInv, RequestFits, asksSectors, requested
<1> QED
  BY <1>1, <1>2, <1>3 DEF Service!Ask, phaseNow, sentNow, requested

LEMMA TurnServes ==
    ASSUME RInv, RInv', Turns, job'.req = job.req
    PROVE  ServiceSame \/ Service!SendSector \/ Service!Complete \/ Service!Booted
<1> USE DEF RInv, Counted, Moved
<1>1. asksSectors' = asksSectors /\ requested' = requested
  BY DEF Turns, requested
<1>2. sentNow = Len(job.got) /\ sentNow' = Len(job'.got)
  BY SentIsLength DEF SentRight, sentNow
<1>3. CASE TakesOne \/ SendsHeader
  <2>1. job'.got = job.got /\ job'.status = job.status /\ (job'.open <=> job.open)
    BY <1>3 DEF TakesOne, SendsHeader, Unanswered
  <2> QED
    BY <1>1, <1>2, <2>1 DEF ServiceSame, phaseNow
<1>4. CASE SendsOne
  <2>1. job'.status = job.status /\ (job'.open <=> job.open) /\ onItsWay /\ Reading
    BY <1>4 DEF SendsOne, Unanswered, onItsWay, Balance
  <2>2. phaseNow = "busy" /\ phaseNow' = "busy"
    BY <1>1, <2>1 DEF phaseNow, Closed, Reading, SInv, CInv, PortAsks
  <2>3. sentNow' = sentNow + 1
    <3>1. job.got \in Seq(Bytes) /\ rdBuf[ctl.uartRdBank % 2][0] \in Bytes
      BY <1>4, Taking DEF SendsOne, ReadThere
    <3>2. Len(job'.got) = Len(job.got) + 1
      BY <1>4, <3>1 DEF SendsOne
    <3> QED
      BY <1>2, <3>2
  <2>4. sentNow < asksSectors
    <3>1. /\ toTake \in Nat /\ Len(job.got) \in Nat /\ asksSectors \in Nat
          /\ Len(job.got) + One(onItsWay) + toTake = asksSectors /\ One(onItsWay) = 1
      BY <2>1, SectorCounts DEF One
    <3> QED
      BY <1>2, <3>1
  <2> QED
    BY <1>1, <2>1, <2>2, <2>3, <2>4 DEF Service!SendSector, phaseNow, sentNow
<1>5. CASE Responds
  <2>1. /\ job'.got = job.got /\ job'.status = uart.resp /\ ~job'.open /\ uart.resp # "none"
        /\ ~onItsWay /\ ~TakesSector /\ uart.st = "idle"
    BY <1>5 DEF Responds, onItsWay
  <2>2. phaseNow = "busy" /\ phaseNow' = "idle"
    BY <1>1, <2>1 DEF phaseNow, Closed, SInv, CInv, AInv, AnswerLatched, requested
  <2>3. uart.resp \in {"OK", "CMD_ERR", "EMMC_ERR"}
    BY <2>1 DEF ReadThere, Statuses
  <2>4. uart.resp = "OK" => sentNow = asksSectors
    <3>1. SUFFICES ASSUME uart.resp = "OK" PROVE Len(job.got) = asksSectors
      BY <1>2
    <3>2. CASE Reading
      <4>1. /\ toTake \in Nat /\ Len(job.got) \in Nat /\ asksSectors \in Nat
            /\ Len(job.got) + One(onItsWay) + toTake = asksSectors /\ One(onItsWay) = 0
        BY <2>1, <3>2, SectorCounts DEF One
      <4>2. toStage = 0
        BY <3>1, <3>2 DEF OkMeansAll
      <4>3. ~isStaged
        BY <2>1, <3>2 DEF TakesSector, isStaged, Balance, toTake
      <4>4. toTake = 0
        BY <4>1, <4>2, <4>3 DEF toStage, One, toTake
      <4> QED
        BY <4>1, <4>4
    <3>3. CASE ~Reading
      <4>1. job.got = <<>>
        BY <3>3 DEF Balance
      <4>2. asksSectors = 0
        BY <3>3 DEF asksSectors, Reading, SInv, CInv, PortAsks
      <4> QED
        BY <4>1, <4>2
    <3> QED
      BY <3>2, <3>3
  <2>5. sentNow' = sentNow
    BY <1>2, <2>1
  <2> QED
    BY <1>1, <2>1, <2>2, <2>3, <2>4, <2>5 DEF Service!Complete, phaseNow, sentNow
<1>6. CASE Idles
  <2>1. job'.got = job.got /\ job'.status = job.status
    BY <1>6 DEF Idles
  <2>2. sentNow' = sentNow
    BY <1>2, <2>1
  <2>3. CASE job.open /\ Booted
    <3>1. phaseNow = "boot" /\ phaseNow' = "idle"
      BY <1>6, <2>3 DEF Idles, phaseNow, Booted, requested
    <3> QED
      BY <1>1, <2>1, <2>2, <3>1 DEF Service!Booted, phaseNow, sentNow
  <2>4. CASE ~(job.open /\ Booted)
    <3>1. job'.open <=> job.open
      BY <1>6, <2>4 DEF Idles
    <3> QED
      BY <1>1, <2>1, <2>2, <3>1 DEF ServiceSame, phaseNow
  <2> QED
    BY <2>3, <2>4
<1> QED
  BY <1>3, <1>4, <1>5, <1>6 DEF Turns

LEMMA EdgeServes ==
    ASSUME BootSucceeds, TransfersFit, RInv, RInv', [Next]_vars
    PROVE  [Service!Next]_(Service!vars)
<1>1. ServiceSame => UNCHANGED Service!vars
  BY DEF ServiceSame, Service!vars, phaseNow, sentNow
<1>2. CASE Next
  <2>1. Waiting \/ \E r \in Requests : SendRequest(r) /\ PortAsks'
    BY <1>2, PortMoves DEF RInv, SInv, CInv, AInv, CourseFieldsThere, Next
  <2>2. CASE Waiting
    <3>1. Turns /\ job'.req = job.req
      BY <1>2, <2>2, TurnFacts DEF Waiting
    <3> QED
      BY <1>1, <3>1, TurnServes DEF Service!Next
  <2>3. ASSUME NEW r \in Requests, SendRequest(r), PortAsks' PROVE Service!Ask
    <3>1. job'.req.id # "BOOT"
      BY <2>3, BenchAssumption DEF SendRequest
    <3>2. AsksAnew
      BY <2>3, AskFields DEF RInv, SInv, CInv, CourseFieldsThere
    <3> QED
      BY <3>1, <3>2, AskServes
  <2> QED
    BY <2>1, <2>2, <2>3 DEF Service!Next
<1>3. CASE UNCHANGED vars
  <2>1. job' = job
    BY <1>3 DEF vars
  <2>2. ServiceSame
    BY <2>1 DEF ServiceSame, phaseNow, sentNow, asksSectors, requested, rightSector
  <2> QED
    BY <1>1, <2>2
<1> QED
  BY <1>2, <1>3

LEMMA InitServes == ASSUME Init PROVE Service!Init
BY DEF Init, Boot, Service!Init, asksSectors, requested, rightSector

(* The host's view implements the service: a command at a time, the sectors *)
(* of a read each from its own address and in order, and one response after *)
(* them, OK only when all of them were sent.  Whatever fails on the card's   *)
(* side or the transmitter's pace: no bank of the read buffer is overwritten *)
(* or sent twice.                                                           *)
THEOREM HostIsServed == BootSucceeds /\ TransfersFit => (Spec => ImplementsService)
<1>1. SUFFICES ASSUME BootSucceeds, TransfersFit PROVE Spec => ImplementsService
  OBVIOUS
<1>2. RInv /\ RInv' /\ [Next]_vars => [Service!Next]_(Service!vars)
  BY <1>1, EdgeServes
<1>3. Spec => []RInv
  BY <1>1, ReadInvariance
<1> QED
  BY <1>2, <1>3, InitServes, PTL DEF Spec, ImplementsService, Service!Spec


-----------------------------------------------------------------------------
(* A transfer is closed, and no error is answered without one: what the FSM *)
(* expects of the card in each of its states.                               *)

HIDE DEF Reads, BufferTurns, ReadBegins, ReadProceeds, ReadEnds, LastStaged, Stages, Reading,
         ReadTyped, ReadFields,
         OnCourse, StaysOnPath, StaysCommanded, CommandKept, Commanded, Loads, CountLoaded,
         SameLoaded, CourseTyped, CourseFields, Registered, StaysCounted, StaysPlanned,
         SwitchMoves, SwitchAnswered, BlocksLeft, Planned, RegisterTyped, RegisterFields

RpmbStates == {"RPMB_CMD23", "RPMB_FIFO_WAIT"}
InitStates == {"IDLE", "INIT"}
DoneStates == {"READ_DONE", "WRITE_DONE"}
StopStates == {"STOP_CMD", "ERROR_STOP"}
OpensTransfer == {"READ_CMD", "WRITE_CMD", "EXT_CSD_CMD"}
Steady == {"READY", "STOP_WAIT", "SWITCH_CMD", "SWITCH_WAIT", "SWITCH_STATUS", "ERASE_START",
           "ERASE_END", "ERASE_CMD", "STATUS_CMD", "RAW_CMD", "RAW_WAIT"}

\* The transfer under way has several blocks.
LongIn(c) == c.useMultiBlock /\ c.mcState \notin {"EXT_CSD_CMD", "EXT_CSD_DAT"}
Long == LongIn(ctl)
LastBlock == dat.done /\ ~Long

\* Where the FSM leaves the card alone, reads, writes, and stops a transfer.
Resting ==
    \/ ctl.mcState \in Steady
    \/ ctl.mcState \in OpensTransfer /\ ~cmd.done
    \/ ctl.mcState \in StopStates /\ cmd.done
    \/ ctl.mcState \in DatStates /\ LastBlock
    \/ ctl.mcState \in DoneStates /\ ~Long
Sending ==
    \/ ctl.mcState \in {"READ_CMD", "EXT_CSD_CMD"} /\ cmd.done
    \/ ctl.mcState \in ReadStates /\ ~LastBlock
    \/ ctl.mcState = "READ_DONE" /\ Long
Receiving ==
    \/ ctl.mcState = "WRITE_CMD" /\ cmd.done
    \/ ctl.mcState = "WRITE_DAT" /\ ~LastBlock
    \/ ctl.mcState = "WRITE_DONE" /\ Long
Stopping == ctl.mcState \in StopStates /\ ~cmd.done

\* What an edge finds wrong.
Failing == \/ cmd.done /\ (cmd.error \/ cmd.device)
           \/ dat.done /\ dat.crcErr
           \/ card.stuck \/ ini.error
Undisturbed == ~Failing /\ ctl.mcState \notin RpmbStates \union {"ERROR"} /\ ~ctl.forceMultiBlock

LeavesAlone(c) == \/ c.mcState \in Steady \union OpensTransfer
                  \/ c.mcState \in DoneStates /\ ~LongIn(c)
ReadsOn(c) == c.mcState \in ReadStates \/ (c.mcState = "READ_DONE" /\ LongIn(c))
WritesOn(c) == c.mcState = "WRITE_DAT" \/ (c.mcState = "WRITE_DONE" /\ LongIn(c))

FlowGoesOn ==
    Undisturbed /\ MoreNeedsMulti =>
       /\ LeavesAlone(ctl') => Resting \/ (ctl.mcState = "INIT" /\ ini.done)
       /\ ReadsOn(ctl') => Sending /\ (LongIn(ctl') <=> Long)
       /\ WritesOn(ctl') => Receiving /\ (LongIn(ctl') <=> Long)
       /\ ctl'.mcState \in StopStates => Stopping \/ ((Sending \/ Receiving) /\ Long)

NoErrorArises ==
    Undisturbed /\ MoreNeedsMulti =>
       /\ ctl'.mcState # "ERROR"
       /\ ctl'.mcState = "ERROR_STOP" => UartMayStall \/ ctl.mcState = "ERROR_STOP"
       /\ ctl'.respStatus = "EMMC_ERR" => ctl.respStatus = "EMMC_ERR"
       /\ ctl'.mcState \notin InitStates /\ ctl'.respStatus = "EMMC_ERR" =>
             ~(ctl.mcState = "INIT" /\ ctl.reinitPending)

InitStays ==
    ctl.mcState \in InitStates /\ ~ini.done /\ ~BootFails /\ ~(ini.error /\ ctl.reinitPending) =>
       ctl'.mcState \in InitStates

InitStarts ==
    ~ini.error =>
       /\ ctl'.mcState \in InitStates /\ ~ctl'.reinitPending =>
             /\ ctl.mcState \in InitStates /\ ~ctl.reinitPending
             /\ ctl'.respStatus = ctl.respStatus
       /\ ctl.mcState \in InitStates =>
             ctl'.mcState \in InitStates \/ (ctl.mcState = "INIT" /\ ini.done /\ ctl'.mcState = "READY")

WidthKept ==
    /\ \/ ctl'.busWidth4 = ctl.busWidth4 \/ ctl'.mcState = "IDLE"
       \/ ctl.mcState = "SWITCH_STATUS" /\ cmd.done
    /\ ctl.mcState = "SWITCH_STATUS" /\ CommandGood =>
          ctl'.busWidth4 = IF ctl.busWidthSwitchPending THEN ctl.busWidthTarget ELSE ctl.busWidth4
    /\ ~Failing /\ SwitchOpen(ctl) =>
          SwitchOpen(ctl') \/ (ctl.mcState = "SWITCH_STATUS" /\ cmd.done)
    /\ ctl.mcState = "SWITCH_STATUS" /\ cmd.done => ctl'.mcState = "READY"

Flows == FlowGoesOn /\ NoErrorArises /\ InitStays /\ InitStarts /\ WidthKept

FlowFields == {"mcState", "useMultiBlock", "forceMultiBlock", "reinitPending", "respStatus",
               "respValid", "cmdIndex", "cmdArg", "busWidth4", "busWidthSwitchPending",
               "busWidthTarget", "switchNeedsVerify", "sectorsLeft", "datRdStart"}
FlowTyped == FlowFields \subseteq DOMAIN ctl /\ ctl.mcState \in McStates

LEMMA ClearedFlow ==
    ASSUME FlowTyped
    PROVE  /\ DOMAIN Cleared = DOMAIN ctl /\ Cleared.respValid = FALSE
           /\ Cleared.mcState = ctl.mcState /\ Cleared.respStatus = ctl.respStatus
           /\ Cleared.useMultiBlock = ctl.useMultiBlock
           /\ Cleared.forceMultiBlock = ctl.forceMultiBlock
           /\ Cleared.reinitPending = ctl.reinitPending
           /\ Cleared.cmdIndex = ctl.cmdIndex /\ Cleared.cmdArg = ctl.cmdArg
           /\ Cleared.busWidth4 = ctl.busWidth4
           /\ Cleared.busWidthSwitchPending = ctl.busWidthSwitchPending
           /\ Cleared.busWidthTarget = ctl.busWidthTarget
           /\ Cleared.switchNeedsVerify = ctl.switchNeedsVerify
           /\ Cleared.sectorsLeft = ctl.sectorsLeft
BY DEF FlowTyped, FlowFields, Cleared

LEMMA LoadedFlow ==
    ASSUME FlowTyped
    PROVE  /\ DOMAIN Loaded = DOMAIN ctl /\ Loaded.respValid = FALSE
           /\ Loaded.mcState = ctl.mcState /\ Loaded.respStatus = ctl.respStatus
           /\ Loaded.useMultiBlock = ctl.useMultiBlock
           /\ Loaded.forceMultiBlock = ctl.forceMultiBlock
           /\ Loaded.reinitPending = ctl.reinitPending
           /\ Loaded.cmdIndex = preCmdIndex /\ Loaded.cmdArg = preCmdArgument
           /\ Loaded.busWidth4 = ctl.busWidth4
           /\ Loaded.busWidthSwitchPending = ctl.busWidthSwitchPending
           /\ Loaded.busWidthTarget = ctl.busWidthTarget
           /\ Loaded.switchNeedsVerify = ctl.switchNeedsVerify
BY ClearedFlow DEF FlowTyped, FlowFields, Loaded


USE DEF Flows, FlowGoesOn, NoErrorArises, InitStays, InitStarts, WidthKept, LeavesAlone,
        ReadsOn, WritesOn, Undisturbed, Failing, Resting, Sending, Receiving, Stopping, LastBlock, Long, LongIn,
        RpmbStates, InitStates, DoneStates, StopStates, OpensTransfer, Steady, FlowTyped, FlowFields


LEMMA InitFlows ==
    ASSUME FlowTyped,
           StartInit \/ AwaitInit \/ FinishInit \/ FailInit
    PROVE  Flows
<1> USE ClearedFlow
<1>1. CASE StartInit
  BY <1>1 DEF StartInit
<1>2. CASE AwaitInit
  BY <1>2 DEF AwaitInit
<1>3. CASE FinishInit
  BY <1>3 DEF FinishInit, Answered
<1>4. CASE FailInit
  BY <1>4 DEF FailInit, Answered, bootRetryLeft
<1> QED
  BY <1>1, <1>2, <1>3, <1>4

LEMMA ReadyFlows ==
    ASSUME FlowTyped,
           AwaitCommand \/ RejectCommand \/ AcceptRead \/
           AcceptWrite \/ AcceptErase \/ AcceptExtCsd \/ AcceptStatus \/
           AcceptSwitch \/ AcceptReinit \/ SetClkDiv \/ SetRpmbMode \/ AcceptRaw
    PROVE  Flows
<1> USE LoadedFlow, ClearedFlow DEF Dispatch
<1>1. CASE AwaitCommand
  BY <1>1 DEF AwaitCommand, Go
<1>2. CASE RejectCommand
  BY <1>2 DEF RejectCommand, Answered
<1>3. CASE AcceptRead
  BY <1>3 DEF AcceptRead
<1>4. CASE AcceptWrite
  BY <1>4 DEF AcceptWrite, DispatchWrite, LoadedWrite
<1>5. CASE AcceptErase
  BY <1>5 DEF AcceptErase
<1>6. CASE AcceptExtCsd
  BY <1>6 DEF AcceptExtCsd
<1>7. CASE AcceptStatus
  BY <1>7 DEF AcceptStatus
<1>8. CASE AcceptSwitch
  BY <1>8 DEF AcceptSwitch
<1>9. CASE AcceptReinit
  BY <1>9 DEF AcceptReinit
<1>10. CASE SetClkDiv
  BY <1>10 DEF SetClkDiv, Answered
<1>11. CASE SetRpmbMode
  BY <1>11 DEF SetRpmbMode, Answered
<1>12. CASE AcceptRaw
  BY <1>12 DEF AcceptRaw
<1> QED
  BY <1>1, <1>2, <1>3, <1>4, <1>5, <1>6, <1>7, <1>8, <1>9, <1>10, <1>11, <1>12

LEMMA CommandFlows ==
    ASSUME FlowTyped,
           IssueCommand \/ CommandFails \/ ReadCommandDone \/
           ExtCsdCommandDone \/ WriteCommandDone \/ StopCommandDone \/
           SwitchCommandDone \/ SwitchStatusDone \/ EraseCommandDone \/
           StatusCommandDone \/ BlockCountDone \/ RawCommandDone
    PROVE  Flows
<1> USE ClearedFlow DEF CommandDone, Taken
<1>1. CASE IssueCommand
  BY <1>1 DEF IssueCommand, NextCmd
<1>2. CASE CommandFails
  BY <1>2 DEF CommandFails, Failed, FailsToError, ChecksDeviceStatus, commandFailed, deviceStatusErr
<1>3. CASE ReadCommandDone
  BY <1>3 DEF ReadCommandDone, commandFailed, deviceStatusErr, ChecksDeviceStatus
<1>4. CASE ExtCsdCommandDone
  BY <1>4 DEF ExtCsdCommandDone, commandFailed, deviceStatusErr, ChecksDeviceStatus
<1>5. CASE WriteCommandDone
  BY <1>5 DEF WriteCommandDone, commandFailed, deviceStatusErr, ChecksDeviceStatus
<1>6. CASE StopCommandDone
  BY <1>6 DEF StopCommandDone, Go, commandFailed
<1>7. CASE SwitchCommandDone
  BY <1>7 DEF SwitchCommandDone, commandFailed
<1>8. CASE SwitchStatusDone
  BY <1>8 DEF SwitchStatusDone, Answered, deviceStatusErr
<1>9. CASE EraseCommandDone
  <2>1. /\ ctl.mcState \in {"ERASE_START", "ERASE_END", "ERASE_CMD"}
        /\ ctl'.mcState \in {"ERASE_END", "ERASE_CMD", "SWITCH_WAIT"}
    BY <1>9 DEF EraseCommandDone, NextCmd
  <2>2. ctl'.respStatus = ctl.respStatus /\ ctl'.busWidth4 = ctl.busWidth4
    BY <1>9 DEF EraseCommandDone, NextCmd
  <2> QED
    BY <2>1, <2>2
<1>10. CASE StatusCommandDone
  BY <1>10 DEF StatusCommandDone, Answered
<1>11. CASE BlockCountDone
  BY <1>11 DEF BlockCountDone, NextCmd, commandFailed
<1>12. CASE RawCommandDone
  BY <1>12 DEF RawCommandDone, Answered
<1> QED
  BY <1>1, <1>2, <1>3, <1>4, <1>5, <1>6, <1>7, <1>8, <1>9, <1>10, <1>11, <1>12

LEMMA DataFlows ==
    ASSUME FlowTyped,
           AwaitData \/ DataFails \/ ReadBlockDone \/
           ExtCsdBlockDone \/ ContinueRead \/ FinishBlocks \/ WriteBlockDone \/
           ContinueWrite \/ WriteWatchdog \/ AwaitRpmbData \/ RpmbWatchdog
    PROVE  Flows
<1> USE ClearedFlow
<1>1. CASE AwaitData
  BY <1>1 DEF AwaitData, Go
<1>2. CASE DataFails
  BY <1>2 DEF DataFails, Failed
<1>3. CASE ReadBlockDone
  BY <1>3 DEF ReadBlockDone, Staged
<1>4. CASE ExtCsdBlockDone
  BY <1>4 DEF ExtCsdBlockDone, Staged, Answered
<1>5. CASE ContinueRead
  BY <1>5 DEF ContinueRead
<1>6. CASE FinishBlocks
  BY <1>6 DEF FinishBlocks, NextCmd, Answered
<1>7. CASE WriteBlockDone
  BY <1>7 DEF WriteBlockDone
<1>8. CASE ContinueWrite
  BY <1>8 DEF ContinueWrite, moreToWrite
<1>9. CASE WriteWatchdog
  BY <1>9 DEF WriteWatchdog, moreToWrite, NextCmd, Answered
<1>10. CASE AwaitRpmbData
  BY <1>10 DEF AwaitRpmbData, NextCmd
<1>11. CASE RpmbWatchdog
  BY <1>11 DEF RpmbWatchdog, Answered
<1> QED
  BY <1>1, <1>2, <1>3, <1>4, <1>5, <1>6, <1>7, <1>8, <1>9, <1>10, <1>11

LEMMA BusyFlows ==
    ASSUME FlowTyped,
           StillBusy \/ BusyReleased \/ BusyTimeout \/
           ReportError \/ ErrorStopDone
    PROVE  Flows
<1> USE ClearedFlow
<1>1. CASE StillBusy
  BY <1>1 DEF StillBusy, Go
<1>2. CASE BusyReleased
  BY <1>2 DEF BusyReleased, NextCmd, Answered
<1>3. CASE BusyTimeout
  BY <1>3 DEF BusyTimeout, Failed
<1>4. CASE ReportError
  BY <1>4 DEF ReportError, NextCmd, Answered
<1>5. CASE ErrorStopDone
  BY <1>5 DEF ErrorStopDone, Answered
<1> QED
  BY <1>1, <1>2, <1>3, <1>4, <1>5

LEMMA FlowsEdge == ASSUME FlowTyped, CtlEdge PROVE Flows
BY InitFlows, ReadyFlows, CommandFlows, DataFlows, BusyFlows DEF CtlEdge

HIDE DEF Flows, FlowGoesOn, NoErrorArises, InitStays, InitStarts, WidthKept

-----------------------------------------------------------------------------
(* The modes of a transfer, and the command each state has loaded.          *)

\* Several blocks, and RPMB mode, go with the multiple block commands.
MultiMeans(c) ==
    port.cmdId \in Transfers /\ c.mcState # "READY" =>
       (c.useMultiBlock <=> port.cmdCount > 1 \/ c.forceMultiBlock)

Named(c) ==
    /\ c.mcState = "READ_CMD" => c.cmdIndex = IF c.useMultiBlock THEN 18 ELSE 17
    /\ c.mcState = "WRITE_CMD" => c.cmdIndex = IF c.useMultiBlock THEN 25 ELSE 24
    /\ c.mcState = "ERROR_STOP" => c.cmdIndex = 12
    /\ c.mcState \in {"ERASE_START", "ERASE_END", "ERASE_CMD", "STATUS_CMD"} =>
          c.cmdIndex \in {13, 35, 36, 38}
    /\ c.mcState = "RAW_CMD" => c.cmdIndex = port.cmdCount /\ c.cmdArg = Plain(port.cmdLba)

ModeKept ==
    /\ \/ ctl'.forceMultiBlock = ctl.forceMultiBlock
       \/ Asked /\ port.cmdId = "SET_RPMB_MODE" /\ ctl'.mcState = "READY"
    /\ ctl'.mcState \in RpmbStates =>
          /\ ctl.mcState \in RpmbStates \/ ctl.forceMultiBlock
          /\ ctl'.forceMultiBlock = ctl.forceMultiBlock
    /\ ctl'.reinitPending => ctl.reinitPending \/ (Asked /\ port.cmdId = "REINIT")
    /\ ctl'.mcState # "READY" => ctl'.forceMultiBlock = ctl.forceMultiBlock
    /\ ctl'.mcState \notin {"READY"} =>
          ctl.mcState = "READY" \/ ctl'.useMultiBlock = ctl.useMultiBlock
    /\ MultiMeans(ctl) => MultiMeans(ctl')

NameKept == OnPath(ctl) /\ MoreNeedsMulti /\ MultiMeans(ctl) /\ Named(ctl) => Named(ctl')

Modes == ModeKept /\ NameKept

USE DEF Modes, ModeKept, NameKept, MultiMeans, Named

LEMMA InitModes ==
    ASSUME FlowTyped,
           StartInit \/ AwaitInit \/ FinishInit \/ FailInit
    PROVE  Modes
<1> USE ClearedFlow
<1>1. CASE StartInit
  BY <1>1 DEF StartInit
<1>2. CASE AwaitInit
  BY <1>2 DEF AwaitInit
<1>3. CASE FinishInit
  BY <1>3 DEF FinishInit, Answered
<1>4. CASE FailInit
  BY <1>4 DEF FailInit, Answered, bootRetryLeft
<1> QED
  BY <1>1, <1>2, <1>3, <1>4

LEMMA ReadyModes ==
    ASSUME FlowTyped,
           AwaitCommand \/ RejectCommand \/ AcceptRead \/
           AcceptWrite \/ AcceptErase \/ AcceptExtCsd \/ AcceptStatus \/
           AcceptSwitch \/ AcceptReinit \/ SetClkDiv \/ SetRpmbMode \/ AcceptRaw
    PROVE  Modes
<1> USE LoadedFlow, ClearedFlow DEF Dispatch, preCmdIndex, preCmdArgument, Erases
<1>1. CASE AwaitCommand
  BY <1>1 DEF AwaitCommand, Go
<1>2. CASE RejectCommand
  BY <1>2 DEF RejectCommand, Answered
<1>3. CASE AcceptRead
  BY <1>3 DEF AcceptRead
<1>4. CASE AcceptWrite
  BY <1>4 DEF AcceptWrite, DispatchWrite, LoadedWrite
<1>5. CASE AcceptErase
  BY <1>5 DEF AcceptErase
<1>6. CASE AcceptExtCsd
  BY <1>6 DEF AcceptExtCsd
<1>7. CASE AcceptStatus
  BY <1>7 DEF AcceptStatus
<1>8. CASE AcceptSwitch
  BY <1>8 DEF AcceptSwitch
<1>9. CASE AcceptReinit
  BY <1>9 DEF AcceptReinit
<1>10. CASE SetClkDiv
  BY <1>10 DEF SetClkDiv, Answered
<1>11. CASE SetRpmbMode
  BY <1>11 DEF SetRpmbMode, Answered
<1>12. CASE AcceptRaw
  BY <1>12 DEF AcceptRaw
<1> QED
  BY <1>1, <1>2, <1>3, <1>4, <1>5, <1>6, <1>7, <1>8, <1>9, <1>10, <1>11, <1>12

LEMMA CommandModes ==
    ASSUME FlowTyped,
           IssueCommand \/ CommandFails \/ ReadCommandDone \/
           ExtCsdCommandDone \/ WriteCommandDone \/ StopCommandDone \/
           SwitchCommandDone \/ SwitchStatusDone \/ EraseCommandDone \/
           StatusCommandDone \/ BlockCountDone \/ RawCommandDone
    PROVE  Modes
<1> USE ClearedFlow DEF CommandDone, Taken
<1>1. CASE IssueCommand
  BY <1>1 DEF IssueCommand, NextCmd
<1>2. CASE CommandFails
  BY <1>2 DEF CommandFails, Failed, FailsToError, ChecksDeviceStatus, commandFailed, deviceStatusErr
<1>3. CASE ReadCommandDone
  BY <1>3 DEF ReadCommandDone, commandFailed, deviceStatusErr, ChecksDeviceStatus
<1>4. CASE ExtCsdCommandDone
  BY <1>4 DEF ExtCsdCommandDone, commandFailed, deviceStatusErr, ChecksDeviceStatus
<1>5. CASE WriteCommandDone
  BY <1>5 DEF WriteCommandDone, commandFailed, deviceStatusErr, ChecksDeviceStatus
<1>6. CASE StopCommandDone
  BY <1>6 DEF StopCommandDone, Go, commandFailed
<1>7. CASE SwitchCommandDone
  BY <1>7 DEF SwitchCommandDone, commandFailed
<1>8. CASE SwitchStatusDone
  BY <1>8 DEF SwitchStatusDone, Answered, deviceStatusErr
<1>9. CASE EraseCommandDone
  <2>1. /\ ctl.mcState \in {"ERASE_START", "ERASE_END", "ERASE_CMD"}
        /\ ctl'.mcState \in {"ERASE_END", "ERASE_CMD", "SWITCH_WAIT"}
    BY <1>9 DEF EraseCommandDone, NextCmd
  <2>2. /\ ctl'.forceMultiBlock = ctl.forceMultiBlock
        /\ ctl'.useMultiBlock = ctl.useMultiBlock /\ ctl'.reinitPending = ctl.reinitPending
    BY <1>9 DEF EraseCommandDone, NextCmd
  <2>3. ctl'.mcState \in {"ERASE_END", "ERASE_CMD"} => ctl'.cmdIndex \in {36, 38}
    BY <1>9 DEF EraseCommandDone, NextCmd
  <2> QED
    BY <2>1, <2>2, <2>3
<1>10. CASE StatusCommandDone
  BY <1>10 DEF StatusCommandDone, Answered
<1>11. CASE BlockCountDone
  <2>1. /\ ctl.mcState = "RPMB_CMD23" /\ ctl'.mcState \in {"READ_CMD", "WRITE_CMD", "RPMB_FIFO_WAIT"}
        /\ ctl'.mcState \in {"READ_CMD", "WRITE_CMD"} => ctl'.cmdIndex = preCmdIndex
        /\ ctl'.mcState = "READ_CMD" <=> ctl.isReadOp
    BY <1>11 DEF BlockCountDone, NextCmd
  <2>2. /\ ctl'.forceMultiBlock = ctl.forceMultiBlock
        /\ ctl'.useMultiBlock = ctl.useMultiBlock /\ ctl'.reinitPending = ctl.reinitPending
    BY <1>11 DEF BlockCountDone, NextCmd
  <2>3. OnPath(ctl) => /\ port.cmdId \in Transfers
                       /\ ctl'.mcState = "READ_CMD" <=> port.cmdId = "READ_SECTOR"
    BY <2>1
  <2>4. /\ port.cmdId = "READ_SECTOR" =>
              preCmdIndex = IF port.cmdCount > 1 \/ ctl.forceMultiBlock THEN 18 ELSE 17
        /\ port.cmdId = "WRITE_SECTOR" =>
              preCmdIndex = IF port.cmdCount > 1 \/ ctl.forceMultiBlock THEN 25 ELSE 24
    BY DEF preCmdIndex
  <2>5. ModeKept
    BY <2>1, <2>2
  <2>6. NameKept
    BY <2>1, <2>2, <2>3, <2>4
  <2> QED
    BY <2>5, <2>6
<1>12. CASE RawCommandDone
  BY <1>12 DEF RawCommandDone, Answered
<1> QED
  BY <1>1, <1>2, <1>3, <1>4, <1>5, <1>6, <1>7, <1>8, <1>9, <1>10, <1>11, <1>12

LEMMA DataModes ==
    ASSUME FlowTyped,
           AwaitData \/ DataFails \/ ReadBlockDone \/
           ExtCsdBlockDone \/ ContinueRead \/ FinishBlocks \/ WriteBlockDone \/
           ContinueWrite \/ WriteWatchdog \/ AwaitRpmbData \/ RpmbWatchdog
    PROVE  Modes
<1> USE ClearedFlow
<1>1. CASE AwaitData
  BY <1>1 DEF AwaitData, Go
<1>2. CASE DataFails
  BY <1>2 DEF DataFails, Failed
<1>3. CASE ReadBlockDone
  BY <1>3 DEF ReadBlockDone, Staged
<1>4. CASE ExtCsdBlockDone
  BY <1>4 DEF ExtCsdBlockDone, Staged, Answered
<1>5. CASE ContinueRead
  BY <1>5 DEF ContinueRead
<1>6. CASE FinishBlocks
  <2>1. /\ ctl.mcState \in DoneStates /\ ctl'.mcState \in {"STOP_CMD", "READY"}
        /\ ctl'.forceMultiBlock = ctl.forceMultiBlock
    BY <1>6 DEF FinishBlocks, NextCmd, Answered
  <2>2. ctl'.useMultiBlock = ctl.useMultiBlock /\ ctl'.reinitPending = ctl.reinitPending
    BY <1>6 DEF FinishBlocks, NextCmd, Answered
  <2> QED
    BY <2>1, <2>2
<1>7. CASE WriteBlockDone
  BY <1>7 DEF WriteBlockDone
<1>8. CASE ContinueWrite
  BY <1>8 DEF ContinueWrite, moreToWrite
<1>9. CASE WriteWatchdog
  BY <1>9 DEF WriteWatchdog, moreToWrite, NextCmd, Answered
<1>10. CASE AwaitRpmbData
  <2>1. /\ ctl.mcState = "RPMB_FIFO_WAIT" /\ ctl'.mcState \in {"WRITE_CMD", "RPMB_FIFO_WAIT"}
        /\ ctl'.mcState = "WRITE_CMD" => ctl'.cmdIndex = preCmdIndex
    BY <1>10 DEF AwaitRpmbData, NextCmd
  <2>2. /\ ctl'.forceMultiBlock = ctl.forceMultiBlock
        /\ ctl'.useMultiBlock = ctl.useMultiBlock /\ ctl'.reinitPending = ctl.reinitPending
    BY <1>10 DEF AwaitRpmbData, NextCmd
  <2>3. port.cmdId = "WRITE_SECTOR" =>
           preCmdIndex = IF port.cmdCount > 1 \/ ctl.forceMultiBlock THEN 25 ELSE 24
    BY DEF preCmdIndex
  <2>4. ModeKept
    BY <2>1, <2>2
  <2>5. NameKept
    BY <2>1, <2>2, <2>3
  <2> QED
    BY <2>4, <2>5
<1>11. CASE RpmbWatchdog
  BY <1>11 DEF RpmbWatchdog, Answered
<1> QED
  BY <1>1, <1>2, <1>3, <1>4, <1>5, <1>6, <1>7, <1>8, <1>9, <1>10, <1>11

LEMMA BusyModes ==
    ASSUME FlowTyped,
           StillBusy \/ BusyReleased \/ BusyTimeout \/
           ReportError \/ ErrorStopDone
    PROVE  Modes
<1> USE ClearedFlow
<1>1. CASE StillBusy
  BY <1>1 DEF StillBusy, Go
<1>2. CASE BusyReleased
  BY <1>2 DEF BusyReleased, NextCmd, Answered
<1>3. CASE BusyTimeout
  BY <1>3 DEF BusyTimeout, Failed
<1>4. CASE ReportError
  BY <1>4 DEF ReportError, NextCmd, Answered
<1>5. CASE ErrorStopDone
  BY <1>5 DEF ErrorStopDone, Answered
<1> QED
  BY <1>1, <1>2, <1>3, <1>4, <1>5

LEMMA ModesEdge == ASSUME FlowTyped, CtlEdge PROVE Modes
BY InitModes, ReadyModes, CommandModes, DataModes, BusyModes DEF CtlEdge

HIDE DEF Modes, ModeKept, NameKept

-----------------------------------------------------------------------------
(* How a transfer ends, and what becomes of the block count of CMD23.       *)

TransferEnds ==
    ctl'.respValid /\ ctl'.respStatus # "CMD_ERR" /\ port.cmdId \in Transfers
      /\ OnPath(ctl) /\ MoreNeedsMulti =>
       \/ ctl.mcState = "STOP_WAIT"
       \/ ctl.mcState = "ERROR_STOP" /\ cmd.done /\ ctl'.respStatus = ctl.respStatus
       \/ ctl.mcState = "ERROR" /\ ~ctl.useMultiBlock /\ ctl'.respStatus = ctl.respStatus
       \/ ctl.mcState \in DoneStates /\ (~ctl.useMultiBlock \/ ctl.forceMultiBlock)
       \/ ctl.mcState = "RPMB_FIFO_WAIT" /\ ctl'.respStatus = "EMMC_ERR"

CountAccepted == ctl.mcState = "RPMB_CMD23" /\ cmd.done /\ ~cmd.error
TransferStarted == ctl.mcState \in {"READ_CMD", "WRITE_CMD"} /\ cmd.done /\ ~cmd.error
BlockThere == ctl.mcState \in {"READ_DAT", "WRITE_DAT"} /\ dat.done /\ ~dat.crcErr

CountGoes ==
    /\ ctl'.mcState = "STOP_WAIT" =>
          ctl.mcState = "STOP_WAIT" \/ (ctl.mcState = "STOP_CMD" /\ cmd.done /\ ~cmd.error)
    /\ ctl'.mcState = "STOP_CMD" =>
          \/ ctl.mcState = "STOP_CMD" /\ ~cmd.done
          \/ ctl.mcState \in DoneStates /\ ~ctl.forceMultiBlock
    /\ ctl'.mcState = "RPMB_FIFO_WAIT" => ctl.mcState = "RPMB_FIFO_WAIT" \/ CountAccepted
    /\ ctl'.mcState \in {"READ_CMD", "WRITE_CMD"} /\ ctl.forceMultiBlock /\ MoreNeedsMulti =>
          \/ CountAccepted \/ ctl.mcState = "RPMB_FIFO_WAIT"
          \/ ctl.mcState \in {"READ_CMD", "WRITE_CMD"} /\ ~cmd.done
    /\ ctl'.mcState \in {"READ_DAT", "WRITE_DAT"} =>
          \/ TransferStarted \/ ctl.mcState \in DoneStates
          \/ ctl.mcState \in {"READ_DAT", "WRITE_DAT"} /\ ~dat.done
    /\ ctl'.mcState \in ReadStates =>
          ctl'.datRdStart \/ (ctl.mcState \in ReadStates /\ ~dat.done)
    /\ ctl'.mcState = "EXT_CSD_DAT" =>
          ctl.mcState = "EXT_CSD_DAT" \/ (ctl.mcState = "EXT_CSD_CMD" /\ cmd.done /\ ~cmd.error)
    /\ ctl'.mcState \in DoneStates => ctl.mcState \in DoneStates \/ BlockThere
    /\ OnPath(ctl) /\ port.cmdId \in Transfers /\ ctl'.respStatus = "OK"
         /\ ctl'.mcState \in {"ERROR", "ERROR_STOP"} =>
          \/ ctl.mcState \in {"ERROR", "ERROR_STOP"} /\ ctl.respStatus = "OK"
          \/ ctl.mcState \in DoneStates

Ends == TransferEnds /\ CountGoes

USE DEF Ends, TransferEnds, CountGoes, CountAccepted, TransferStarted, BlockThere

LEMMA InitEnds ==
    ASSUME FlowTyped,
           StartInit \/ AwaitInit \/ FinishInit \/ FailInit
    PROVE  Ends
<1> USE ClearedFlow
<1>1. CASE StartInit
  BY <1>1 DEF StartInit
<1>2. CASE AwaitInit
  BY <1>2 DEF AwaitInit
<1>3. CASE FinishInit
  BY <1>3 DEF FinishInit, Answered
<1>4. CASE FailInit
  BY <1>4 DEF FailInit, Answered, bootRetryLeft
<1> QED
  BY <1>1, <1>2, <1>3, <1>4

LEMMA ReadyEnds ==
    ASSUME FlowTyped,
           AwaitCommand \/ RejectCommand \/ AcceptRead \/
           AcceptWrite \/ AcceptErase \/ AcceptExtCsd \/ AcceptStatus \/
           AcceptSwitch \/ AcceptReinit \/ SetClkDiv \/ SetRpmbMode \/ AcceptRaw
    PROVE  Ends
<1> USE LoadedFlow, ClearedFlow DEF Dispatch
<1>1. CASE AwaitCommand
  BY <1>1 DEF AwaitCommand, Go
<1>2. CASE RejectCommand
  BY <1>2 DEF RejectCommand, Answered
<1>3. CASE AcceptRead
  BY <1>3 DEF AcceptRead
<1>4. CASE AcceptWrite
  BY <1>4 DEF AcceptWrite, DispatchWrite, LoadedWrite
<1>5. CASE AcceptErase
  BY <1>5 DEF AcceptErase
<1>6. CASE AcceptExtCsd
  BY <1>6 DEF AcceptExtCsd
<1>7. CASE AcceptStatus
  BY <1>7 DEF AcceptStatus
<1>8. CASE AcceptSwitch
  BY <1>8 DEF AcceptSwitch
<1>9. CASE AcceptReinit
  BY <1>9 DEF AcceptReinit
<1>10. CASE SetClkDiv
  BY <1>10 DEF SetClkDiv, Answered
<1>11. CASE SetRpmbMode
  BY <1>11 DEF SetRpmbMode, Answered
<1>12. CASE AcceptRaw
  BY <1>12 DEF AcceptRaw
<1> QED
  BY <1>1, <1>2, <1>3, <1>4, <1>5, <1>6, <1>7, <1>8, <1>9, <1>10, <1>11, <1>12

LEMMA CommandEnds ==
    ASSUME FlowTyped,
           IssueCommand \/ CommandFails \/ ReadCommandDone \/
           ExtCsdCommandDone \/ WriteCommandDone \/ StopCommandDone \/
           SwitchCommandDone \/ SwitchStatusDone \/ EraseCommandDone \/
           StatusCommandDone \/ BlockCountDone \/ RawCommandDone
    PROVE  Ends
<1> USE ClearedFlow DEF CommandDone, Taken
<1>1. CASE IssueCommand
  BY <1>1 DEF IssueCommand, NextCmd
<1>2. CASE CommandFails
  BY <1>2 DEF CommandFails, Failed, FailsToError, ChecksDeviceStatus, commandFailed, deviceStatusErr
<1>3. CASE ReadCommandDone
  BY <1>3 DEF ReadCommandDone, commandFailed, deviceStatusErr, ChecksDeviceStatus
<1>4. CASE ExtCsdCommandDone
  BY <1>4 DEF ExtCsdCommandDone, commandFailed, deviceStatusErr, ChecksDeviceStatus
<1>5. CASE WriteCommandDone
  BY <1>5 DEF WriteCommandDone, commandFailed, deviceStatusErr, ChecksDeviceStatus
<1>6. CASE StopCommandDone
  BY <1>6 DEF StopCommandDone, Go, commandFailed
<1>7. CASE SwitchCommandDone
  BY <1>7 DEF SwitchCommandDone, commandFailed
<1>8. CASE SwitchStatusDone
  BY <1>8 DEF SwitchStatusDone, Answered, deviceStatusErr
<1>9. CASE EraseCommandDone
  BY <1>9 DEF EraseCommandDone, NextCmd
<1>10. CASE StatusCommandDone
  BY <1>10 DEF StatusCommandDone, Answered
<1>11. CASE BlockCountDone
  BY <1>11 DEF BlockCountDone, NextCmd, commandFailed
<1>12. CASE RawCommandDone
  BY <1>12 DEF RawCommandDone, Answered
<1> QED
  BY <1>1, <1>2, <1>3, <1>4, <1>5, <1>6, <1>7, <1>8, <1>9, <1>10, <1>11, <1>12

LEMMA DataEnds ==
    ASSUME FlowTyped,
           AwaitData \/ DataFails \/ ReadBlockDone \/
           ExtCsdBlockDone \/ ContinueRead \/ FinishBlocks \/ WriteBlockDone \/
           ContinueWrite \/ WriteWatchdog \/ AwaitRpmbData \/ RpmbWatchdog
    PROVE  Ends
<1> USE ClearedFlow
<1>1. CASE AwaitData
  BY <1>1 DEF AwaitData, Go
<1>2. CASE DataFails
  BY <1>2 DEF DataFails, Failed
<1>3. CASE ReadBlockDone
  BY <1>3 DEF ReadBlockDone, Staged
<1>4. CASE ExtCsdBlockDone
  BY <1>4 DEF ExtCsdBlockDone, Staged, Answered
<1>5. CASE ContinueRead
  BY <1>5 DEF ContinueRead
<1>6. CASE FinishBlocks
  BY <1>6 DEF FinishBlocks, NextCmd, Answered
<1>7. CASE WriteBlockDone
  BY <1>7 DEF WriteBlockDone
<1>8. CASE ContinueWrite
  BY <1>8 DEF ContinueWrite, moreToWrite
<1>9. CASE WriteWatchdog
  BY <1>9 DEF WriteWatchdog, moreToWrite, NextCmd, Answered
<1>10. CASE AwaitRpmbData
  BY <1>10 DEF AwaitRpmbData, NextCmd
<1>11. CASE RpmbWatchdog
  BY <1>11 DEF RpmbWatchdog, Answered
<1> QED
  BY <1>1, <1>2, <1>3, <1>4, <1>5, <1>6, <1>7, <1>8, <1>9, <1>10, <1>11

LEMMA BusyEnds ==
    ASSUME FlowTyped,
           StillBusy \/ BusyReleased \/ BusyTimeout \/
           ReportError \/ ErrorStopDone
    PROVE  Ends
<1> USE ClearedFlow
<1>1. CASE StillBusy
  BY <1>1 DEF StillBusy, Go
<1>2. CASE BusyReleased
  BY <1>2 DEF BusyReleased, NextCmd, Answered
<1>3. CASE BusyTimeout
  BY <1>3 DEF BusyTimeout, Failed
<1>4. CASE ReportError
  BY <1>4 DEF ReportError, NextCmd, Answered
<1>5. CASE ErrorStopDone
  BY <1>5 DEF ErrorStopDone, Answered
<1> QED
  BY <1>1, <1>2, <1>3, <1>4, <1>5

LEMMA EndsEdge == ASSUME FlowTyped, CtlEdge PROVE Ends
BY InitEnds, ReadyEnds, CommandEnds, DataEnds, BusyEnds DEF CtlEdge

HIDE DEF Ends, TransferEnds, CountGoes

-----------------------------------------------------------------------------
(* The strengthening that needs nothing of the requests.                    *)

HIDE DEF FlowTyped, FlowFields, Named, MultiMeans, CountAccepted, TransferStarted, BlockThere,
         Undisturbed, Failing, Resting, Sending, Receiving, Stopping, Long, LongIn, LastBlock,
         LeavesAlone, ReadsOn, WritesOn

StartsInTime == ctl.mcState \in ReadStates => ctl.datRdStart \/ dat.st = "rd" \/ dat.done
DoneInData == dat.done => ctl.mcState \in DatStates

FInv == /\ RInv /\ "forceMultiBlock" \in DOMAIN ctl
        /\ MultiMeans(ctl) /\ Named(ctl) /\ StartsInTime /\ DoneInData

\* A new request finds the FSM ready, and leaves it so.
NewlyAsked ==
    /\ ctl.mcState = "READY" /\ ctl'.mcState = "READY"
    /\ ~ctl.cmdValidD /\ ~ctl'.respValid
    /\ \E r \in Requests : SendRequest(r) /\ PortAsks'
WaitsOrAsks == Waiting \/ NewlyAsked

StepKnown ==
    /\ RInv' /\ Flows /\ Modes /\ Ends /\ Disciplined /\ EngineEdge /\ DatMoves /\ CmdMoves
    /\ IInv /\ SInv /\ CardThere /\ CmdFields \subseteq DOMAIN cmd /\ EnginesTyped
    /\ CommandOwned /\ DataOwned /\ InitOwned /\ PauseOwned
    /\ MoreNeedsMulti /\ OnPath(ctl) /\ ~BootFails /\ DOMAIN ctl' = DOMAIN ctl
    /\ WaitsOrAsks

LEMMA StepFacts == ASSUME BootSucceeds, TransfersFit, FInv, Next PROVE StepKnown
<1> USE DEF FInv, RInv, SInv, CInv, AInv
<1>1. /\ IInv /\ SInv /\ CardThere /\ OnPath(ctl) /\ EngineEdge /\ CtlEdge
      /\ CommandOwned /\ DataOwned /\ InitOwned /\ PauseOwned /\ EnginesTyped
      /\ CmdFields \subseteq DOMAIN cmd
  BY DEF IInv, Next, ControllerEdge, CourseFieldsThere
<1>2. RInv'
  BY ReadStep
<1>3. FlowTyped
  <2>1. CtlFields \subseteq DOMAIN ctl /\ Fields \subseteq DOMAIN ctl /\ ctl.mcState \in McStates
    BY <1>1 DEF CourseFieldsThere, IInv, Typed
  <2> QED
    BY <2>1 DEF FlowTyped, FlowFields, CtlFields, RegisterFields, CourseFields, Fields, FInv
<1>4. Flows /\ Modes /\ Ends
  BY <1>1, <1>3, FlowsEdge, ModesEdge, EndsEdge
<1>5. Disciplined
  BY <1>1, FsmEdge DEF IInv
<1>6. DatMoves /\ CmdMoves
  BY <1>1, EnginesEdge
<1>7. MoreNeedsMulti
  BY DEF BlocksLeft
<1>8. DOMAIN ctl' = DOMAIN ctl
  BY <1>1, CourseEdge
     DEF CourseFieldsThere, CtlFields, AnswerTyped, OnCourse, CourseTyped, IInv
<1>9. ~BootFails
  BY ControllerAssumption, <1>1
     DEF BootSucceeds, bootRetryLeft, FailuresCounted, bootFailures,
         FailuresNeedFaults, EnginesTyped
<1>10. WaitsOrAsks
  <2>1. Waiting \/ \E r \in Requests : SendRequest(r) /\ PortAsks'
    BY PortMoves DEF Next, CourseFieldsThere
  <2>2. ASSUME NEW r \in Requests, SendRequest(r), PortAsks' PROVE NewlyAsked
    <3>1. ~job.open
      BY <2>2 DEF SendRequest, HostFree
    <3>2. ctl.mcState = "READY" /\ ~ctl.cmdValidD
      BY <3>1 DEF AnswerLatched, HostWaits, Pending
    <3>3. AnswersOnce
      BY <1>1, AnswerEdge
    <3>4. ctl'.mcState = "READY" /\ ~ctl'.respValid
      BY <3>2, <3>3 DEF AnswersOnce, StaysReady, AnswersAtEnd, Working, Asked
    <3> QED
      BY <2>2, <3>2, <3>4 DEF NewlyAsked
  <2> QED
    BY <2>1, <2>2 DEF WaitsOrAsks
<1> QED
  BY <1>1, <1>2, <1>4, <1>5, <1>6, <1>7, <1>8, <1>9, <1>10 DEF StepKnown

LEMMA FlowStep == ASSUME BootSucceeds, TransfersFit, FInv, [Next]_vars PROVE FInv'
<1>1. CASE Next
  <2>1. StepKnown
    BY <1>1, StepFacts
  <2>2. RInv' /\ ("forceMultiBlock" \in DOMAIN ctl)'
    BY <2>1 DEF StepKnown, FInv
  <2>3. MultiMeans(ctl') /\ Named(ctl')
    BY <2>1 DEF StepKnown, FInv, Modes, ModeKept, NameKept
  <2>4. MultiMeans(ctl)' /\ Named(ctl)'
    <3>1. CASE Waiting
      BY <2>3, <3>1 DEF Waiting, MultiMeans, Named
    <3>2. CASE NewlyAsked
      BY <3>2 DEF NewlyAsked, MultiMeans, Named
    <3> QED
      BY <2>1, <3>1, <3>2 DEF StepKnown, WaitsOrAsks
  <2>5. StartsInTime'
    <3>1. SUFFICES ASSUME ctl'.mcState \in ReadStates, ~ctl'.datRdStart
                   PROVE  dat'.st = "rd" \/ dat'.done
      BY DEF StartsInTime
    <3>2. ctl.mcState \in ReadStates /\ ~dat.done
      BY <2>1, <3>1 DEF StepKnown, Ends, CountGoes
    <3>3. ctl.datRdStart \/ dat.st = "rd"
      BY <3>2 DEF FInv, StartsInTime
    <3>4. "done" \in DOMAIN dat /\ "st" \in DOMAIN dat /\ dat.st \in {"idle", "rd", "wr"}
      BY <2>1 DEF StepKnown, EnginesTyped
    <3>5. DatQuiet => dat'.st = "rd"
      BY <2>1, <3>2, <3>3, <3>4 DEF DatQuiet, DatIdle, StepKnown, DataOwned
    <3>6. DatByte \/ DatBlock \/ DatTimeout => dat'.st = "rd" \/ dat'.done
      BY <2>1, <3>2, <3>4 DEF DatByte, DatBlock, DatTimeout, DatReport, StepKnown, DataOwned, DatIdle
    <3> QED
      BY <2>1, <3>5, <3>6 DEF StepKnown, EngineEdge
  <2>6. DoneInData'
    BY <2>1 DEF DoneInData, StepKnown, DatMoves, DataOwned, EnginesTyped, Disciplined, StartsData
  <2> QED
    BY <2>2, <2>4, <2>5, <2>6 DEF FInv
<1>2. CASE UNCHANGED vars
  <2>1. RInv'
    BY <1>2, ReadStep DEF FInv
  <2> QED
    BY <1>2, <2>1 DEF vars, ctlVars, FInv, MultiMeans, Named, StartsInTime, DoneInData
<1> QED
  BY <1>1, <1>2

LEMMA FlowInit == ASSUME Init PROVE FInv
<1>1. RInv
  BY ReadInit
<1> QED
  BY <1>1 DEF Init, CtlInit, ResetRegisters, FInv, MultiMeans, Named, StartsInTime, DoneInData

-----------------------------------------------------------------------------
(* The command the engine works on, state by state; and a boot that succeeds *)
(* leaves a working card.                                                    *)

LEMMA CommandIs ==
    ASSUME FInv, cmd.busy
    PROVE  /\ ctl.mcState \in CmdStates /\ ~cmd.done
           /\ ctl.mcState = "READ_CMD" => cmd.index = IF ctl.useMultiBlock THEN 18 ELSE 17
           /\ ctl.mcState = "WRITE_CMD" => cmd.index = IF ctl.useMultiBlock THEN 25 ELSE 24
           /\ ctl.mcState = "RPMB_CMD23" => cmd.index = 23
           /\ ctl.mcState \in StopStates => cmd.index = 12
           /\ ctl.mcState = "EXT_CSD_CMD" => cmd.index = 8
           /\ ctl.mcState = "SWITCH_CMD" => cmd.index = 6 /\ cmd.arg = preCmdArgument
           /\ ctl.mcState \in {"SWITCH_STATUS", "ERASE_START", "ERASE_END", "ERASE_CMD",
                               "STATUS_CMD"} => cmd.index \in {13, 35, 36, 38}
           /\ ctl.mcState = "RAW_CMD" => /\ requested.id = "SEND_RAW"
                                         /\ cmd.index = requested.count
                                         /\ cmd.arg = Plain(requested.lba)
<1>1. /\ CmdIs /\ OnPath(ctl) /\ Commanded(ctl) /\ PortAsks /\ CommandOwned /\ Named(ctl)
  BY DEF FInv, RInv, SInv, CInv, AInv, IInv
<1>2. ctl.mcState \in CmdStates /\ ~cmd.done
  BY <1>1 DEF CommandOwned
<1>3. cmd.index = ctl.cmdIndex /\ cmd.arg = ctl.cmdArg
  BY <1>1 DEF CmdIs
<1>4. ctl.mcState = "RPMB_CMD23" => ctl.cmdIndex = 23
  BY <1>1 DEF CmdIs, CountLoaded, Loads
<1>5. /\ ctl.mcState = "STOP_CMD" => ctl.cmdIndex = 12
      /\ ctl.mcState = "EXT_CSD_CMD" => ctl.cmdIndex = 8
      /\ ctl.mcState = "SWITCH_CMD" => ctl.cmdIndex = 6 /\ ctl.cmdArg = preCmdArgument
      /\ ctl.mcState = "SWITCH_STATUS" => ctl.cmdIndex = 13
  BY <1>1 DEF Commanded, Loads
<1>6. /\ ctl.mcState = "READ_CMD" => ctl.cmdIndex = IF ctl.useMultiBlock THEN 18 ELSE 17
      /\ ctl.mcState = "WRITE_CMD" => ctl.cmdIndex = IF ctl.useMultiBlock THEN 25 ELSE 24
      /\ ctl.mcState = "ERROR_STOP" => ctl.cmdIndex = 12
      /\ ctl.mcState \in {"ERASE_START", "ERASE_END", "ERASE_CMD", "STATUS_CMD"} =>
            ctl.cmdIndex \in {13, 35, 36, 38}
      /\ ctl.mcState = "RAW_CMD" => ctl.cmdIndex = port.cmdCount /\ ctl.cmdArg = Plain(port.cmdLba)
  BY <1>1 DEF Named
<1>7. ctl.mcState = "RAW_CMD" => /\ requested.id = "SEND_RAW"
                                 /\ port.cmdCount = requested.count
                                 /\ port.cmdLba = requested.lba
  <2>1. ctl.mcState = "RAW_CMD" => port.cmdId = "SEND_RAW"
    BY <1>1
  <2>2. requested.id = "SEND_RAW" => LbaLines(requested) = requested.lba
    BY DEF LbaLines
  <2> QED
    BY <1>1, <2>1, <2>2 DEF PortAsks
<1> QED
  BY <1>2, <1>3, <1>4, <1>5, <1>6, <1>7

\* What one command makes of a card, field by field.
LEMMA ExecutedFields ==
    ASSUME NEW c, CardFields \subseteq DOMAIN c, NEW index, NEW arg, index # 0,
           NEW e, e = Executed(c, index, arg)
    PROVE  /\ ~e.errPending /\ ~e.stuck /\ (e.quota <=> index = 23)
           /\ index = 8 => e.xfer = "data" /\ ~e.open
           /\ index \in {17, 18} => e.xfer = "data" /\ (e.open <=> index = 18 /\ ~c.quota)
           /\ index \in {24, 25} => e.xfer = "rcv" /\ (e.open <=> index = 25 /\ ~c.quota)
           /\ index = 12 => e.xfer = "tran"
           /\ index \notin {8, 12, 17, 18, 24, 25} => e.xfer = c.xfer /\ e.open = c.open
           /\ ~(index = 6 /\ arg.index = BUS_WIDTH) => e.width4 = c.width4
<1>1. PICK s : s = Settled(c, index)
  OBVIOUS
<1>2. /\ CardFields \subseteq DOMAIN s
      /\ ~s.errPending /\ ~s.stuck /\ (s.quota <=> index = 23)
      /\ s.xfer = c.xfer /\ s.open = c.open /\ s.width4 = c.width4
  BY <1>1 DEF Settled, CardFields
<1>3. ASSUME e.errPending = s.errPending, e.stuck = s.stuck, e.quota = s.quota
      PROVE  ~e.errPending /\ ~e.stuck /\ (e.quota <=> index = 23)
  BY <1>2, <1>3
<1>4. CASE index = 8
  <2>1. e = Transfer(s, "data", ExtCsdByte, FALSE)
    BY <1>1, <1>4, ExecutedCsd
  <2>2. /\ e.errPending = s.errPending /\ e.stuck = s.stuck /\ e.quota = s.quota
        /\ e.xfer = "data" /\ e.width4 = s.width4 /\ (e.open <=> index = 0 /\ ~c.quota)
    BY <1>2, <1>4, <2>1 DEF Transfer, CardFields
  <2> QED
    BY <1>2, <1>3, <1>4, <2>2
<1>5. CASE index \in {17, 18}
  <2>1. e = Transfer(s, "data", arg.value, index = 18 /\ ~c.quota)
    BY <1>1, <1>5, ExecutedRead
  <2>2. /\ e.errPending = s.errPending /\ e.stuck = s.stuck /\ e.quota = s.quota
        /\ e.xfer = "data" /\ e.width4 = s.width4 /\ (e.open <=> index = 18 /\ ~c.quota)
    BY <1>2, <2>1 DEF Transfer, CardFields
  <2> QED
    BY <1>2, <1>3, <1>5, <2>2
<1>6. CASE index \in {24, 25}
  <2>1. e = Transfer(s, "rcv", arg.value, index = 25 /\ ~c.quota)
    BY <1>1, <1>6, ExecutedWrite
  <2>2. /\ e.errPending = s.errPending /\ e.stuck = s.stuck /\ e.quota = s.quota
        /\ e.xfer = "rcv" /\ e.width4 = s.width4 /\ (e.open <=> index = 25 /\ ~c.quota)
    BY <1>2, <2>1 DEF Transfer, CardFields
  <2> QED
    BY <1>2, <1>3, <1>6, <2>2
<1>7. CASE index = 12
  <2>1. e = [s EXCEPT !.xfer = "tran", !.blk = 0, !.idle = 0]
    BY <1>1, <1>7, ExecutedStop
  <2>2. /\ e.errPending = s.errPending /\ e.stuck = s.stuck /\ e.quota = s.quota
        /\ e.xfer = "tran" /\ e.width4 = s.width4
    BY <1>2, <2>1 DEF CardFields
  <2> QED
    BY <1>2, <1>3, <1>7, <2>2
<1>8. CASE index = 6
  <2>1. e = SwitchedTo(s, arg)
    BY <1>1, <1>8, ExecutedSwitch
  <2>2. /\ e.errPending = s.errPending /\ e.stuck = s.stuck /\ e.quota = s.quota
        /\ e.xfer = s.xfer /\ e.open = s.open
        /\ arg.index # BUS_WIDTH => e.width4 = s.width4
    BY <1>2, <2>1 DEF SwitchedTo, CardFields
  <2> QED
    BY <1>2, <1>3, <1>8, <2>2
<1>9. CASE index \notin {0, 6, 8, 12, 17, 18, 24, 25}
  <2>1. e = s
    BY <1>1, <1>9, ExecutedPlain
  <2> QED
    BY <1>2, <1>9, <2>1
<1> QED
  BY <1>4, <1>5, <1>6, <1>7, <1>8, <1>9

\* What is held up is neither a reset of the card nor, where initialisation may
\* fail, its repetition.
NoResetOf(r) == /\ r.id = "SEND_RAW" => r.count # 0
                /\ InitFaults => r.id # "REINIT"
NoReset == \A r \in Requests : NoResetOf(r)

OnBus == card.xfer = "off" => ctl.mcState \in InitStates /\ ~ini.done

BInv == /\ FInv /\ NoResetOf(requested) /\ OnBus
        /\ InitFaults => ~ctl.reinitPending

\* Only a reset, or a failing initialisation, takes a card off the bus.
LEMMA StaysOnBus ==
    ASSUME CardThere, EngineEdge, CmdFields \subseteq DOMAIN cmd, cmd.busy => cmd.index # 0,
           card.xfer # "off", ini.st = "run" => ~InitFaults
    PROVE  card'.xfer # "off"
<1> USE DEF CardThere, CardFields
<1>1. ASSUME NEW index, NEW arg, index # 0 PROVE Executed(card, index, arg).xfer # "off"
  BY <1>1, ExecutedFields
<1>2. Rejected(card).xfer # "off"
  BY DEF Rejected
<1>3. BlockMoved(card).xfer # "off" /\ \A b : BlockStored(card, b).xfer # "off"
  BY DEF BlockMoved, BlockStored
<1>4. Waits(card).xfer # "off"
  BY <1>3 DEF Waits
<1>5. CASE CmdAnswered \/ CmdIllegal
  BY <1>1, <1>2, <1>5 DEF CmdAnswered, CmdIllegal, CmdRuns
<1>6. CASE CmdFault
  <2>1. cmd.index # 0
    BY <1>6 DEF CmdFault, CmdRuns
  <2>2. Executed(card, cmd.index, cmd.arg).xfer # "off"
    BY <1>1, <2>1
  <2>3. [Executed(card, cmd.index, cmd.arg) EXCEPT !.stuck = TRUE].xfer
           = Executed(card, cmd.index, cmd.arg).xfer
    OBVIOUS
  <2>4. [card EXCEPT !.errPending = FALSE, !.stuck = FALSE].xfer # "off"
    OBVIOUS
  <2>5. cmd.index = 12 => Executed(card, 12, cmd.arg).xfer # "off"
    BY <1>1
  <2> QED
    BY <1>2, <1>6, <2>2, <2>3, <2>4, <2>5 DEF CmdFault
<1>7. CASE DatByte \/ DatBlock \/ DatTimeout
  BY <1>3, <1>7 DEF DatByte, DatBlock, DatTimeout
<1>8. CASE IniEnds
  BY <1>8 DEF IniEnds, InitialisedCard, PoweredCard
<1>9. CASE CardWaits
  BY <1>4, <1>9 DEF CardWaits
<1> QED
  BY <1>5, <1>6, <1>7, <1>8, <1>9 DEF EngineEdge

LEMMA BootStep == ASSUME BootSucceeds, TransfersFit, NoReset, BInv, [Next]_vars PROVE BInv'
<1>1. CASE Next
  <2>1. FInv' /\ StepKnown
    BY <1>1, FlowStep, StepFacts DEF BInv
  <2>2. NoResetOf(requested)'
    <3>1. CASE Waiting
      BY <3>1 DEF BInv, Waiting, requested, NoResetOf
    <3>2. CASE NewlyAsked
      <4>1. PICK r \in Requests : SendRequest(r)
        BY <3>2 DEF NewlyAsked
      <4>2. requested'.id = r.id /\ requested'.count = r.count
        BY <4>1 DEF SendRequest, requested
      <4> QED
        BY <4>2 DEF NoReset, NoResetOf
    <3> QED
      BY <2>1, <3>1, <3>2 DEF StepKnown, WaitsOrAsks
  <2>3. InitFaults => ~ctl'.reinitPending
    <3>1. Asked => port.cmdId = requested.id
      BY DEF BInv, FInv, RInv, SInv, CInv, PortAsks
    <3> QED
      BY <2>1, <3>1 DEF StepKnown, Modes, ModeKept, BInv, NoResetOf
  <2>4. OnBus'
    <3> SUFFICES ASSUME card'.xfer = "off" PROVE ctl'.mcState \in InitStates /\ ~ini'.done
      BY DEF OnBus
    <3>1. /\ EngineEdge /\ CardThere /\ CmdFields \subseteq DOMAIN cmd /\ InitOwned /\ EnginesTyped
          /\ CommandOwned /\ DataOwned /\ ~BootFails /\ InitStays
      BY <2>1 DEF StepKnown, Flows
    <3>2. cmd.busy => cmd.index # 0
      BY CommandIs DEF BInv, NoResetOf
    <3>3. card.xfer = "off" \/ (ini.st = "run" /\ InitFaults)
      BY <3>1, <3>2, StaysOnBus
    <3>4. ctl.mcState \in InitStates /\ ~ini.done
      BY <3>1, <3>3 DEF BInv, OnBus, InitOwned
    <3>5. ini.error => InitFaults
      BY DEF BInv, FInv, RInv, SInv, CInv, AInv, FailuresNeedFaults
    <3>6. ctl'.mcState \in InitStates
      BY <3>1, <3>4, <3>5 DEF InitStays, BInv
    <3>7. ~ini'.done
      <4>1. CASE IniEnds
        BY <3>1, <3>4, <4>1 DEF IniEnds, InitialisedCard, PoweredCard, EnginesTyped
      <4>2. CASE IniQuiet
        BY <3>1, <3>4, <4>2 DEF IniQuiet, EnginesTyped
      <4> QED
        BY <3>1, <4>1, <4>2 DEF EngineEdge
    <3> QED
      BY <3>6, <3>7
  <2> QED
    BY <2>1, <2>2, <2>3, <2>4 DEF BInv
<1>2. CASE UNCHANGED vars
  <2>1. FInv'
    BY <1>2, FlowStep DEF BInv
  <2> QED
    BY <1>2, <2>1 DEF vars, ctlVars, BInv, NoResetOf, OnBus, requested
<1> QED
  BY <1>1, <1>2

(* Where initialisation fails at most three times, and nobody takes the card *)
(* off the bus again, the first command finds a working card: the four tries *)
(* of a boot are enough.                                                     *)
THEOREM BootIsSurvived ==
    BootSucceeds /\ TransfersFit /\ NoReset => (Spec => []BootSurvives)
<1>1. ASSUME Init PROVE BInv
  BY <1>1, FlowInit DEF Init, CtlInit, ResetRegisters, BInv, NoResetOf, OnBus, requested, Boot,
                        InitStates
<1>2. BInv => BootSurvives
  BY DEF BInv, FInv, RInv, SInv, CInv, AInv, BootFirst, OnBus, BootSurvives, InitStates
<1>3. SUFFICES ASSUME BootSucceeds, TransfersFit, NoReset PROVE Spec => []BootSurvives
  OBVIOUS
<1>4. BInv /\ [Next]_vars => BInv'
  BY <1>3, BootStep
<1> QED
  BY <1>1, <1>2, <1>4, PTL DEF Spec

-----------------------------------------------------------------------------
(* Without a fault: what the FSM expects of the card in each of its states.  *)

\* Commands that move the card between its states behind the FSM's back.
Moves == {8, 12, 17, 18, 23, 24, 25}
QuietRequest(r) ==
    /\ r.id # "SET_RPMB_MODE"
    /\ r.id = "SEND_RAW" => r.count \notin Moves
    /\ r.id = "WRITE_EXT_CSD" => r.lba \div 256 # BUS_WIDTH
QuietRequests == \A r \in Requests : QuietRequest(r)

PlainMode == ~ctl.forceMultiBlock /\ ctl.mcState \notin RpmbStates

Unharmed ==
    /\ ~card.errPending /\ ~card.stuck /\ ~card.quota /\ ~cmd.device /\ ~ini.error
    /\ ctl.mcState = "INIT" /\ ini.done => card.xfer = "tran"
    /\ ctl.mcState \in InitStates /\ ~ctl.reinitPending => ctl.respStatus # "EMMC_ERR"
    /\ dat.st = "rd" /\ dat.pos > 0 => card.xfer # "off"

Well ==
    /\ cmd.done => ~cmd.error
    /\ dat.done => ~dat.crcErr
    /\ ctl.mcState # "ERROR" /\ ctl.respStatus # "EMMC_ERR"
    /\ ctl.mcState = "ERROR_STOP" => UartMayStall

Follows ==
    /\ Resting => card.xfer = "tran"
    /\ Sending => card.xfer = "data" /\ (card.open <=> Long)
    /\ Receiving => card.xfer = "rcv" /\ (card.open <=> Long)
    /\ Stopping => card.xfer \in {"data", "rcv"} /\ card.open

ChangesWidth == SwitchOpen(ctl) /\ port.cmdId = "SET_BUS_WIDTH"
SameWidth == ChangesWidth \/ card.width4 = ctl.busWidth4

Serving == Well /\ Follows /\ SameWidth
Serves == ctl.mcState \notin InitStates /\ card.xfer # "off"

QInv == /\ FInv /\ PlainMode /\ QuietRequest(requested)
        /\ faults = 0 => Unharmed /\ (Serves => Serving)

\* The edges of the engines that are not faults.
BlockPasses ==
    /\ ~DatIdle /\ ~ctl.clkPause /\ dat.pos = SectorBytes /\ DatReport(FALSE)
    /\ \/ dat.st = "rd" /\ card' = BlockMoved(card)
       \/ dat.st = "wr" /\ DatPasses("rcv") /\ card' = BlockStored(card, dat.block)
InitSucceeds ==
    /\ ini.st = "run" /\ card' = InitialisedCard
    /\ ini' = [ini EXCEPT !.st = "idle", !.startR = FALSE, !.done = TRUE, !.useFastClk = TRUE]

CalmEdge ==
    \/ (CmdAnswered \/ CmdIllegal) /\ DatQuiet /\ IniQuiet
    \/ (DatByte \/ BlockPasses \/ DatTimeout) /\ CmdQuiet /\ IniQuiet
    \/ InitSucceeds /\ CmdQuiet /\ DatQuiet
    \/ AtRest

LEMMA CalmEdges ==
    ASSUME EngineEdge, faults \in Nat, faults' = 0
    PROVE  faults = 0 /\ CalmEdge
<1>1. ~Fault
  BY DEF Fault
<1>2. ~CmdFault
  BY <1>1 DEF CmdFault
<1>3. DatBlock => BlockPasses /\ faults = 0
  BY <1>1 DEF DatBlock, BlockPasses, NoFault
<1>4. IniEnds => InitSucceeds /\ faults = 0
  BY <1>1 DEF IniEnds, InitSucceeds, NoFault
<1>5. /\ CmdAnswered \/ CmdIllegal => faults = 0
      /\ DatByte \/ DatTimeout => faults = 0
      /\ CardWaits => faults = 0
  BY DEF CmdAnswered, CmdIllegal, DatByte, DatTimeout, CardWaits, NoFault
<1> QED
  BY <1>2, <1>3, <1>4, <1>5 DEF EngineEdge, CalmEdge, AtRest

\* Where the FSM has a command going, the card takes it.
LEMMA CommandIsLegal ==
    ASSUME FInv, PlainMode, QuietRequest(requested), Follows, cmd.busy, ctl.mcState \notin InitStates,
           card.xfer # "off"
    PROVE  Legal(card, cmd.index)
<1>1. ctl.mcState \in StopStates => card.xfer \in {"data", "rcv"} /\ cmd.index = 12
  BY CommandIs DEF Follows, Stopping
<1>2. ctl.mcState \in CmdStates \ StopStates => card.xfer = "tran" /\ cmd.index # 12
  <2>1. ctl.mcState \in CmdStates \ StopStates =>
           ctl.mcState \in Steady \union OpensTransfer \union {"RPMB_CMD23"}
    BY DEF Steady, OpensTransfer, StopStates
  <2>2. ctl.mcState # "RPMB_CMD23"
    BY DEF PlainMode, RpmbStates
  <2>3. ctl.mcState \in Steady \union OpensTransfer => card.xfer = "tran"
    BY CommandIs DEF Follows, Resting
  <2>4. ctl.mcState \in CmdStates \ StopStates => cmd.index # 12
    <3>1. requested.id = "SEND_RAW" => requested.count # 12
      BY DEF QuietRequest, Moves
    <3>2. ctl.mcState = "READ_CMD" => cmd.index # 12
      BY CommandIs
    <3>3. ctl.mcState = "WRITE_CMD" => cmd.index # 12
      BY CommandIs
    <3>4. ctl.mcState \in {"EXT_CSD_CMD", "SWITCH_CMD", "SWITCH_STATUS", "ERASE_START",
                           "ERASE_END", "ERASE_CMD", "STATUS_CMD"} => cmd.index # 12
      BY CommandIs
    <3>5. ctl.mcState = "RAW_CMD" => cmd.index # 12
      BY CommandIs, <3>1
    <3> QED
      BY <2>2, <3>2, <3>3, <3>4, <3>5 DEF StopStates
  <2> QED
    BY <2>1, <2>2, <2>3, <2>4
<1>3. ctl.mcState \in CmdStates
  BY CommandIs
<1> QED
  BY <1>1, <1>2, <1>3 DEF Legal, TranOnly

LEMMA PlainStays ==
    ASSUME BootSucceeds, TransfersFit, QuietRequests, FInv, PlainMode, QuietRequest(requested), Next
    PROVE  PlainMode' /\ QuietRequest(requested)'
<1>1. StepKnown
  BY StepFacts
<1>2. QuietRequest(requested)'
  <2>1. CASE Waiting
    BY <2>1 DEF Waiting, requested, QuietRequest
  <2>2. CASE NewlyAsked
    <3>1. PICK r \in Requests : SendRequest(r)
      BY <2>2 DEF NewlyAsked
    <3>2. requested'.id = r.id /\ requested'.count = r.count /\ requested'.lba = r.lba
      BY <3>1 DEF SendRequest, requested
    <3> QED
      BY <3>2 DEF QuietRequests, QuietRequest
  <2> QED
    BY <1>1, <2>1, <2>2 DEF StepKnown, WaitsOrAsks
<1>3. port.cmdId # "SET_RPMB_MODE"
  BY DEF QuietRequest, FInv, RInv, SInv, CInv, PortAsks
<1> QED
  BY <1>1, <1>2, <1>3 DEF StepKnown, Modes, ModeKept, PlainMode

\* What is known of an edge at which no fault has happened yet.
CalmKnown ==
    /\ StepKnown /\ FInv /\ FInv' /\ CalmEdge /\ faults = 0
    /\ Unharmed /\ (Serves => Serving) /\ PlainMode /\ QuietRequest(requested)
    /\ CmdIs /\ Planned(ctl) /\ Switched /\ Placed /\ PortAsks

LEMMA CalmFacts ==
    ASSUME BootSucceeds, TransfersFit, QInv, Next, faults' = 0
    PROVE  CalmKnown
<1>1. faults = 0 /\ CalmEdge
  <2>1. EngineEdge /\ faults \in Nat
    BY DEF QInv, FInv, RInv, SInv, CInv, AInv, IInv, EnginesTyped, Next, ControllerEdge
  <2> QED
    BY <2>1, CalmEdges
<1>2. StepKnown /\ FInv'
  BY StepFacts, FlowStep DEF QInv
<1>3. CmdIs /\ Planned(ctl) /\ Switched /\ Placed /\ PortAsks
  BY DEF QInv, FInv, RInv, Moved, SInv, CInv
<1> QED
  BY <1>1, <1>2, <1>3 DEF QInv, CalmKnown

LEMMA CommandTaken ==
    ASSUME CalmKnown, cmd.busy
    PROVE  /\ card.xfer # "off" => Legal(card, cmd.index)
           /\ cmd.index # 23
           /\ ctl.mcState \in CmdStates /\ ~cmd.done /\ ctl.mcState \notin InitStates
<1>1. FInv /\ PlainMode /\ QuietRequest(requested) /\ (Serves => Serving)
  BY DEF CalmKnown
<1>2. ctl.mcState \in CmdStates /\ ~cmd.done
  BY <1>1, CommandIs
<1>3. ctl.mcState \notin InitStates
  BY <1>2 DEF InitStates
<1>4. card.xfer # "off" => Legal(card, cmd.index)
  BY <1>1, <1>3, CommandIsLegal DEF Serves, Serving
<1>5. cmd.index # 23
  <2>1. ctl.mcState # "RPMB_CMD23"
    BY <1>1 DEF PlainMode, RpmbStates
  <2>2. requested.id = "SEND_RAW" => requested.count # 23
    BY <1>1 DEF QuietRequest, Moves
  <2>3. ctl.mcState = "READ_CMD" => cmd.index # 23
    BY <1>1, CommandIs
  <2>4. ctl.mcState = "WRITE_CMD" => cmd.index # 23
    BY <1>1, CommandIs
  <2>5. ctl.mcState = "RAW_CMD" => cmd.index # 23
    BY <1>1, <2>2, CommandIs
  <2>6. ctl.mcState \notin {"READ_CMD", "WRITE_CMD", "RAW_CMD"} => cmd.index # 23
    BY <1>1, <1>2, <2>1, CommandIs DEF StopStates
  <2> QED
    BY <2>3, <2>4, <2>5, <2>6
<1> QED
  BY <1>2, <1>3, <1>4, <1>5

\* How the card comes out of the blocks and pauses of an edge.
LEMMA BlockMovedFields ==
    ASSUME CardThere
    PROVE  /\ \A c \in {BlockMoved(card), Waits(card)} \union {BlockStored(card, b) : b \in {dat.block}} :
                 /\ c.errPending = card.errPending /\ c.stuck = card.stuck
                 /\ c.quota = card.quota /\ c.width4 = card.width4 /\ c.open = card.open
           /\ \A c \in {BlockMoved(card), BlockStored(card, dat.block)} :
                 c.xfer = IF card.open THEN card.xfer ELSE "tran"
           /\ card.xfer # "data" => Waits(card) = card
           /\ card.open \/ card.idle < CardGap => Waits(card).xfer = card.xfer
<1> USE DEF CardThere, CardFields
<1>1. /\ BlockMoved(card).errPending = card.errPending /\ BlockMoved(card).stuck = card.stuck
      /\ BlockMoved(card).quota = card.quota /\ BlockMoved(card).width4 = card.width4
      /\ BlockMoved(card).open = card.open
      /\ BlockMoved(card).xfer = IF card.open THEN card.xfer ELSE "tran"
      /\ CardFields \subseteq DOMAIN BlockMoved(card)
  BY DEF BlockMoved
<1>2. PICK m : m = BlockMoved(card)
  OBVIOUS
<1>3. PICK s : s = BlockStored(card, dat.block)
  OBVIOUS
<1>4. s = [m EXCEPT !.stored = Append(@, dat.block)]
  BY <1>2, <1>3 DEF BlockStored
<1>5. /\ s.errPending = m.errPending /\ s.stuck = m.stuck /\ s.quota = m.quota
      /\ s.width4 = m.width4 /\ s.open = m.open /\ s.xfer = m.xfer
  BY <1>1, <1>2, <1>4
<1>6. CASE card.xfer # "data"
  BY <1>1, <1>2, <1>3, <1>5, <1>6 DEF Waits
<1>7. CASE card.xfer = "data" /\ card.idle < CardGap
  <2>1. PICK w : w = Waits(card)
    OBVIOUS
  <2>2. w = [card EXCEPT !.idle = @ + 1]
    BY <1>7, <2>1 DEF Waits
  <2>3. /\ w.errPending = card.errPending /\ w.stuck = card.stuck /\ w.quota = card.quota
        /\ w.width4 = card.width4 /\ w.open = card.open /\ w.xfer = card.xfer
    BY <2>2
  <2> QED
    BY <1>1, <1>2, <1>3, <1>5, <1>7, <2>1, <2>3
<1>8. CASE card.xfer = "data" /\ ~(card.idle < CardGap)
  BY <1>1, <1>2, <1>3, <1>5, <1>8 DEF Waits
<1> QED
  BY <1>6, <1>7, <1>8

LEMMA CardUnharmed ==
    ASSUME CalmKnown
    PROVE  ~card'.errPending /\ ~card'.stuck /\ ~card'.quota
<1>1. CardThere /\ ~card.errPending /\ ~card.stuck /\ ~card.quota
  BY DEF CalmKnown, StepKnown, Unharmed
<1>2. CASE CmdAnswered
  <2>1. cmd.index # 23 /\ card' = Executed(card, cmd.index, cmd.arg)
    BY <1>2, CommandTaken DEF CmdAnswered, CmdRuns
  <2>2. CASE cmd.index = 0
    BY <2>1, <2>2, ExecutedReset DEF PoweredCard
  <2> QED
    BY <1>1, <2>1, <2>2, ExecutedFields DEF CardThere
<1>3. CASE CmdIllegal
  BY <1>1, <1>3, CommandTaken DEF CmdIllegal, CmdRuns, Rejected
<1>4. CASE DatByte \/ DatTimeout
  BY <1>1, <1>4 DEF DatByte, DatTimeout
<1>5. CASE BlockPasses
  BY <1>1, <1>5, BlockMovedFields DEF BlockPasses
<1>6. CASE InitSucceeds
  BY <1>6 DEF InitSucceeds, InitialisedCard, PoweredCard
<1>7. CASE AtRest
  <2>1. card' = card \/ card' = Waits(card)
    BY <1>7 DEF AtRest, CardWaits
  <2> QED
    BY <1>1, <2>1, BlockMovedFields
<1> QED
  BY <1>2, <1>3, <1>4, <1>5, <1>6, <1>7 DEF CalmKnown, CalmEdge

\* A card that is off stays off, but for an initialisation.
LEMMA StaysOff ==
    ASSUME CalmKnown, card.xfer = "off", ini.st # "run"
    PROVE  card'.xfer = "off"
<1>1. CardThere
  BY DEF CalmKnown, StepKnown
<1>2. CASE CmdAnswered
  <2>1. cmd.index = 0 /\ card' = Executed(card, cmd.index, cmd.arg)
    BY <1>2 DEF CmdAnswered, CmdRuns, Legal
  <2> QED
    BY <2>1, ExecutedReset DEF PoweredCard
<1>3. CASE CmdIllegal
  BY <1>3 DEF CmdIllegal, Rejected
<1>4. CASE DatByte \/ DatTimeout
  BY <1>4 DEF DatByte, DatTimeout
<1>5. ~BlockPasses
  <2>1. SectorBytes > 0
    BY ControllerAssumption
  <2> QED
    BY <2>1 DEF BlockPasses, DatPasses, CalmKnown, Unharmed
<1>6. CASE AtRest
  BY <1>1, <1>6, BlockMovedFields DEF AtRest, CardWaits
<1> QED
  BY <1>2, <1>3, <1>4, <1>5, <1>6 DEF CalmKnown, CalmEdge, InitSucceeds

LEMMA UnharmedStays == ASSUME CalmKnown PROVE Unharmed'
<1>1. /\ Unharmed /\ CmdFields \subseteq DOMAIN cmd /\ EnginesTyped /\ CardThere /\ InitOwned
      /\ DataOwned /\ CommandOwned
  BY DEF CalmKnown, StepKnown
<1>2. ~card'.errPending /\ ~card'.stuck /\ ~card'.quota
  BY CardUnharmed
<1>3. ~cmd'.device
  <2>1. CmdAnswered \/ CmdIllegal => ~cmd'.device
    BY <1>1 DEF CmdAnswered, CmdIllegal, CmdReport, Unharmed, CmdFields
  <2>2. CmdQuiet => ~cmd'.device
    BY <1>1 DEF CmdQuiet, Unharmed, CmdFields
  <2> QED
    BY <2>1, <2>2 DEF CalmKnown, CalmEdge, AtRest
<1>4. ~ini'.error
  <2>1. InitSucceeds => ~ini'.error
    BY <1>1 DEF InitSucceeds, Unharmed, EnginesTyped
  <2>2. IniQuiet => ~ini'.error
    BY <1>1 DEF IniQuiet, Unharmed, EnginesTyped
  <2> QED
    BY <2>1, <2>2 DEF CalmKnown, CalmEdge, AtRest
<1>5. ini'.done => card'.xfer = "tran"
  <2>1. InitSucceeds => card'.xfer = "tran"
    BY DEF InitSucceeds, InitialisedCard, PoweredCard
  <2>2. IniQuiet => ~ini'.done
    BY <1>1 DEF IniQuiet, EnginesTyped, InitOwned
  <2> QED
    BY <2>1, <2>2 DEF CalmKnown, CalmEdge, AtRest
<1>6. ctl'.mcState \in InitStates /\ ~ctl'.reinitPending => ctl'.respStatus # "EMMC_ERR"
  BY <1>1 DEF CalmKnown, StepKnown, Flows, InitStarts, Unharmed
<1>7. dat'.st = "rd" /\ dat'.pos > 0 => card'.xfer # "off"
  <2>1. DatByte => (dat'.st = "rd" /\ dat'.pos > 0 => card'.xfer # "off")
    BY <1>1 DEF DatByte, DatPasses, EnginesTyped
  <2>2. BlockPasses \/ DatTimeout => dat'.st # "rd"
    BY <1>1 DEF BlockPasses, DatTimeout, DatReport, EnginesTyped
  <2>3. CASE DatQuiet /\ dat'.st = "rd" /\ dat'.pos > 0
    <3>1. dat' = dat /\ dat.st = "rd"
      BY <1>1, <2>3 DEF DatQuiet, DatIdle, EnginesTyped
    <3>2. card.xfer # "off"
      BY <1>1, <2>3, <3>1 DEF Unharmed
    <3>3. ~cmd.busy /\ ini.st # "run"
      BY <1>1, <3>1 DEF DataOwned, CommandOwned, InitOwned
    <3>4. ~DatByte
      <4>1. DatByte => dat'.pos = dat.pos + 1
        BY <1>1, <3>1 DEF DatByte, EnginesTyped
      <4> QED
        BY <1>1, <3>1, <4>1, ControllerAssumption DEF EnginesTyped
    <3>5. ~BlockPasses /\ ~DatTimeout
      BY <1>1, <2>3 DEF BlockPasses, DatTimeout, DatReport, EnginesTyped
    <3>6. AtRest
      BY <3>3, <3>4, <3>5 DEF CalmKnown, CalmEdge, CmdAnswered, CmdIllegal, CmdRuns, InitSucceeds
    <3>7. card' = card
      BY <3>1, <3>6 DEF AtRest, CardWaits, DatIdle
    <3> QED
      BY <3>2, <3>7
  <2> QED
    BY <2>1, <2>2, <2>3 DEF CalmKnown, CalmEdge, AtRest
<1> QED
  BY <1>2, <1>3, <1>4, <1>5, <1>6, <1>7 DEF Unharmed

\* The FSM at work on a card that is on: nothing fails, so nothing is disturbed.
AtWork == CalmKnown /\ Serves /\ ctl'.mcState \notin InitStates /\ card'.xfer # "off"

LEMMA NothingFails ==
    ASSUME AtWork
    PROVE  /\ Well /\ Follows /\ SameWidth /\ Undisturbed /\ MoreNeedsMulti
           /\ ini.st # "run" /\ ~(ctl.mcState = "INIT")
<1>1. Well /\ Follows /\ SameWidth /\ Unharmed /\ PlainMode /\ MoreNeedsMulti /\ InitOwned
  BY DEF AtWork, CalmKnown, Serving, StepKnown
<1>2. ctl.mcState \notin InitStates
  BY DEF AtWork, Serves
<1>3. ~(ctl.mcState = "INIT") /\ ini.st # "run"
  BY <1>1, <1>2 DEF InitStates, InitOwned
<1>4. Undisturbed
  BY <1>1 DEF Undisturbed, Failing, Well, Unharmed, PlainMode, RpmbStates
<1> QED
  BY <1>1, <1>3, <1>4

LEMMA WellStays == ASSUME AtWork PROVE Well'
<1>1. /\ Well /\ Follows /\ SameWidth /\ Undisturbed /\ MoreNeedsMulti
      /\ CalmKnown /\ CmdFields \subseteq DOMAIN cmd /\ EnginesTyped /\ EngineEdge /\ CommandOwned
      /\ DataOwned /\ NoErrorArises /\ ctl'.mcState \notin InitStates /\ DatMoves
  BY NothingFails DEF AtWork, CalmKnown, StepKnown, Flows
<1>2. cmd'.done => ~cmd'.error
  <2>1. CmdQuiet => ~cmd'.done
    BY <1>1 DEF CmdQuiet, CommandOwned, CmdFields
  <2>2. CmdAnswered => ~cmd'.error
    BY <1>1 DEF CmdAnswered, CmdReport, CmdFields
  <2>3. ~CmdIllegal
    BY CommandTaken DEF CmdIllegal, CmdRuns, AtWork, Serves
  <2> QED
    BY <1>1, <2>1, <2>2, <2>3 DEF CalmEdge, CalmKnown, AtRest
<1>3. dat'.done => ~dat'.crcErr
  <2>1. dat.st = "rd" => DatPasses("data")
    <3>1. dat.st = "rd" => ctl.mcState \in ReadStates /\ ~dat.done
      BY <1>1 DEF DataOwned
    <3>2. dat.st = "rd" => Sending
      BY <3>1 DEF Sending, LastBlock
    <3>3. dat.st = "rd" => ~ChangesWidth
      BY <3>1 DEF ChangesWidth
    <3> QED
      BY <1>1, <3>2, <3>3 DEF DatPasses, Follows, SameWidth
  <2>2. dat.st = "wr" => DatPasses("rcv")
    <3>1. dat.st = "wr" => ctl.mcState = "WRITE_DAT" /\ ~dat.done
      BY <1>1 DEF DataOwned
    <3>2. dat.st = "wr" => Receiving
      BY <3>1 DEF Receiving, LastBlock
    <3>3. dat.st = "wr" => ~ChangesWidth
      BY <3>1 DEF ChangesWidth
    <3> QED
      BY <1>1, <3>2, <3>3 DEF DatPasses, Follows, SameWidth
  <2>3. ~DatTimeout
    BY <2>1, <2>2 DEF DatTimeout
  <2>4. BlockPasses => ~dat'.crcErr
    BY <1>1 DEF BlockPasses, DatReport, EnginesTyped, CalmKnown, FInv, RInv, ReadThere
  <2>5. DatByte \/ DatQuiet => ~dat'.done
    BY <1>1 DEF DatByte, DatQuiet, DatIdle, DataOwned, EnginesTyped
  <2> QED
    BY <1>1, <2>3, <2>4, <2>5 DEF CalmEdge, CalmKnown, AtRest
<1>4. /\ ctl'.mcState # "ERROR" /\ ctl'.respStatus # "EMMC_ERR"
      /\ ctl'.mcState = "ERROR_STOP" => UartMayStall
  BY <1>1 DEF NoErrorArises, Well
<1> QED
  BY <1>2, <1>3, <1>4 DEF Well

LEMMA WidthStays == ASSUME AtWork PROVE SameWidth'
<1>1. /\ CardThere /\ SameWidth /\ Undisturbed /\ WidthKept /\ Planned(ctl) /\ Switched /\ OnPath(ctl)
      /\ CalmEdge /\ WaitsOrAsks /\ PortAsks /\ QuietRequest(requested) /\ FInv /\ CommandOwned
      /\ CalmKnown /\ ctl'.mcState \notin InitStates /\ card'.xfer # "off" /\ ini.st # "run"
      /\ DataOwned
  BY NothingFails DEF AtWork, CalmKnown, StepKnown, Flows
<1>2. ctl.mcState = "SWITCH_STATUS" /\ cmd.done => CommandGood
  BY <1>1 DEF Undisturbed, Failing, CommandGood
<1>3. SwitchOpen(ctl) => port'.cmdId = port.cmdId
  BY <1>1 DEF WaitsOrAsks, Waiting, NewlyAsked, SwitchOpen
<1>4. ASSUME ~(ctl.mcState = "SWITCH_CMD" /\ cmd.busy), ~(ctl.mcState = "RAW_CMD" /\ cmd.busy)
      PROVE  card'.width4 = card.width4
  <2>1. CASE CmdAnswered
    <3>1. cmd.index # 0 /\ cmd.index # 6
      <4>1. cmd.busy
        BY <2>1 DEF CmdAnswered, CmdRuns
      <4>2. ctl.mcState = "READ_CMD" => cmd.index \notin {0, 6}
        BY <1>1, <4>1, CommandIs
      <4>3. ctl.mcState = "WRITE_CMD" => cmd.index \notin {0, 6}
        BY <1>1, <4>1, CommandIs
      <4> QED
        BY <1>1, <1>4, <4>1, <4>2, <4>3, CommandIs DEF StopStates
    <3>2. card' = Executed(card, cmd.index, cmd.arg)
      BY <2>1 DEF CmdAnswered
    <3> QED
      BY <1>1, <3>1, <3>2, ExecutedFields DEF CardThere
  <2>2. ~CmdIllegal
    BY <1>1, CommandTaken DEF CmdIllegal, CmdRuns, AtWork, Serves
  <2>3. CASE DatByte \/ DatTimeout
    BY <2>3 DEF DatByte, DatTimeout
  <2>4. CASE BlockPasses
    BY <1>1, <2>4, BlockMovedFields DEF BlockPasses
  <2>5. CASE AtRest
    BY <1>1, <2>5, BlockMovedFields DEF AtRest, CardWaits
  <2> QED
    BY <1>1, <2>1, <2>2, <2>3, <2>4, <2>5 DEF CalmEdge, InitSucceeds
<1>5. CASE ChangesWidth
  <2>1. CASE SwitchOpen(ctl')
    <3>1. SwitchOpen(ctl)' <=> SwitchOpen(ctl')
      BY DEF SwitchOpen
    <3> QED
      BY <1>3, <1>5, <2>1, <3>1 DEF ChangesWidth, SameWidth
  <2>2. CASE ctl.mcState = "SWITCH_STATUS" /\ cmd.done
    <3>1. ctl.busWidthSwitchPending /\ ctl.busWidthTarget = (port.cmdLba % 2 = 1)
      BY <1>1, <1>5 DEF Planned, ChangesWidth
    <3>2. ctl'.busWidth4 = ctl.busWidthTarget
      BY <1>1, <1>2, <2>2, <3>1 DEF WidthKept
    <3>3. card.width4 = (port.cmdLba % 2 = 1)
      BY <1>1, <1>2, <1>5, <2>2 DEF Switched, AppliedTo, CommandGood, ChangesWidth
    <3>4. card'.width4 = card.width4
      BY <1>4, <2>2
    <3> QED
      BY <3>1, <3>2, <3>3, <3>4 DEF SameWidth
  <2> QED
    BY <1>1, <1>5, <2>1, <2>2 DEF WidthKept, ChangesWidth, Undisturbed
<1>6. CASE ~ChangesWidth
  <2>1. card.width4 = ctl.busWidth4
    BY <1>1, <1>6 DEF SameWidth
  <2>2. ctl'.busWidth4 = ctl.busWidth4
    <3>1. CASE ctl.mcState = "SWITCH_STATUS" /\ cmd.done
      <4>1. ~ctl.busWidthSwitchPending
        BY <1>1, <1>6 DEF Planned, ChangesWidth
      <4> QED
        BY <1>1, <1>2, <3>1, <4>1 DEF WidthKept
    <3>2. ctl'.mcState # "IDLE"
      BY <1>1 DEF InitStates
    <3> QED
      BY <1>1, <3>1, <3>2 DEF WidthKept
  <2>3. card'.width4 = card.width4
    <3>1. CASE ctl.mcState = "SWITCH_CMD" /\ cmd.busy
      <4>1. cmd.index = 6 /\ cmd.arg = preCmdArgument
        BY <1>1, <3>1, CommandIs
      <4>2. port.cmdId \in {"SET_PARTITION", "WRITE_EXT_CSD"}
        BY <1>1, <1>6, <3>1 DEF ChangesWidth, SwitchOpen
      <4>3. preCmdArgument.index # BUS_WIDTH
        <5>1. CASE port.cmdId = "SET_PARTITION"
          BY <5>1 DEF preCmdArgument, SwitchTo, BUS_WIDTH, PARTITION_CONFIG
        <5>2. CASE port.cmdId = "WRITE_EXT_CSD"
          <6>1. port.cmdLba = requested.lba /\ requested.id = "WRITE_EXT_CSD"
            BY <1>1, <5>2 DEF PortAsks, LbaLines
          <6>2. port.cmdLba \div 256 # BUS_WIDTH
            BY <1>1, <6>1 DEF QuietRequest
          <6> QED
            BY <5>2, <6>2 DEF preCmdArgument, SwitchTo
        <5> QED
          BY <4>2, <5>1, <5>2
      <4>4. CmdAnswered => card'.width4 = card.width4
        BY <1>1, <4>1, <4>3, ExecutedFields DEF CmdAnswered, CardThere
      <4>5. ~CmdIllegal
        BY <1>1, CommandTaken DEF CmdIllegal, CmdRuns, AtWork, Serves
      <4>6. ~DatByte /\ ~BlockPasses /\ ~DatTimeout
        BY <1>1, <3>1 DEF DatByte, BlockPasses, DatTimeout, DatIdle, DataOwned, CalmKnown, StepKnown, EnginesTyped
      <4>7. AtRest => card'.width4 = card.width4
        BY <1>1, BlockMovedFields DEF AtRest, CardWaits
      <4> QED
        BY <1>1, <4>4, <4>5, <4>6, <4>7 DEF CalmEdge, InitSucceeds
    <3>2. CASE ctl.mcState = "RAW_CMD" /\ cmd.busy
      <4>1. cmd.arg = Plain(requested.lba)
        BY <1>1, <3>2, CommandIs
      <4>2. cmd.arg.index # BUS_WIDTH
        BY <4>1 DEF Plain, BUS_WIDTH
      <4>3. CmdAnswered => card'.width4 = card.width4
        <5>1. CmdAnswered => card' = Executed(card, cmd.index, cmd.arg)
          BY DEF CmdAnswered
        <5>2. CmdAnswered => cmd.index # 0
          BY <1>1, <5>1, ExecutedReset DEF PoweredCard
        <5> QED
          BY <1>1, <4>2, <5>1, <5>2, ExecutedFields DEF CardThere
      <4>4. ~CmdIllegal
        BY <1>1, CommandTaken DEF CmdIllegal, CmdRuns, AtWork, Serves
      <4>5. ~DatByte /\ ~BlockPasses /\ ~DatTimeout
        BY <1>1, <3>2 DEF DatByte, BlockPasses, DatTimeout, DatIdle, DataOwned, CalmKnown, StepKnown, EnginesTyped
      <4>6. AtRest => card'.width4 = card.width4
        BY <1>1, BlockMovedFields DEF AtRest, CardWaits
      <4> QED
        BY <1>1, <4>3, <4>4, <4>5, <4>6 DEF CalmEdge, InitSucceeds
    <3> QED
      BY <1>4, <3>1, <3>2
  <2> QED
    BY <2>1, <2>2, <2>3 DEF SameWidth
<1> QED
  BY <1>5, <1>6

\* The classes of Follows before and after an edge at which the FSM moves on.
LEMMA GoesOn ==
    ASSUME AtWork
    PROVE  /\ LeavesAlone(ctl') => Resting
           /\ ReadsOn(ctl') => Sending /\ (LongIn(ctl') <=> Long)
           /\ WritesOn(ctl') => Receiving /\ (LongIn(ctl') <=> Long)
           /\ ctl'.mcState \in StopStates => Stopping \/ ((Sending \/ Receiving) /\ Long)
<1>1. Undisturbed /\ MoreNeedsMulti /\ ctl.mcState # "INIT" /\ FlowGoesOn
  BY NothingFails DEF AtWork, CalmKnown, StepKnown, Flows
<1> QED
  BY <1>1 DEF FlowGoesOn

\* While no engine works, the card keeps its place long enough.
LEMMA WaitsInPlace ==
    ASSUME AtWork, AtRest, Sending, ReadsOn(ctl')
    PROVE  card'.xfer = "data" /\ (card'.open <=> Long)
<1>1. /\ Follows /\ Undisturbed /\ CalmKnown /\ CardThere /\ Placed /\ OnPath(ctl) /\ FInv
      /\ FlowGoesOn /\ DataOwned
  BY NothingFails DEF AtWork, CalmKnown, StepKnown, Flows
<1>2. card.xfer = "data" /\ (card.open <=> Long)
  BY <1>1 DEF Follows
<1>3. CASE card' = card
  BY <1>2, <1>3
<1>4. CASE card' = Waits(card) /\ DatIdle
  <2>1. card'.open = card.open
    BY <1>1, <1>4, BlockMovedFields
  <2>2. card.open \/ card.idle < CardGap
    <3>1. SUFFICES ASSUME ~Long PROVE card.idle < CardGap
      BY <1>2
    <3>2. Reading
      BY <1>1, <3>1 DEF Reading, Sending
    <3>3. CASE ctl.mcState \in {"READ_CMD", "EXT_CSD_CMD"} /\ cmd.done
      <4>1. CommandGood
        BY <1>1, <3>3 DEF CommandGood, Undisturbed, Failing
      <4>2. Rested(0)
        BY <1>1, <3>2, <3>3, <4>1 DEF Placed
      <4> QED
        BY <4>2 DEF Rested, CardGap
    <3>4. CASE ctl.mcState \in ReadStates /\ ~dat.done
      <4>1. ctl.datRdStart
        BY <1>1, <1>4, <3>4 DEF FInv, StartsInTime, DatIdle
      <4>2. Rested(2)
        BY <1>1, <3>2, <3>4, <4>1 DEF Placed
      <4> QED
        BY <4>2 DEF Rested, CardGap
    <3> QED
      BY <3>1, <3>3, <3>4 DEF Sending, LastBlock
  <2>3. card'.xfer = "data"
    BY <1>1, <1>2, <1>4, <2>2, BlockMovedFields
  <2> QED
    BY <1>2, <2>1, <2>3
<1> QED
  BY <1>3, <1>4 DEF AtRest, CardWaits

LEMMA FollowsAtRest == ASSUME AtWork, AtRest PROVE Follows'
<1>1. /\ Follows /\ CardThere /\ CmdFields \subseteq DOMAIN cmd /\ EnginesTyped /\ CommandOwned
      /\ DataOwned /\ CmdMoves /\ DatMoves /\ Undisturbed
  BY NothingFails DEF AtWork, CalmKnown, StepKnown
<1>2. ~cmd'.done
  BY <1>1 DEF AtRest, CmdQuiet, CommandOwned, CmdFields
<1>3. ~dat'.done
  BY <1>1 DEF AtRest, DatQuiet, DatIdle, DataOwned, EnginesTyped
<1>4. card.xfer # "data" => card' = card
  BY <1>1, BlockMovedFields DEF AtRest, CardWaits
<1>5. Resting' => card'.xfer = "tran"
  <2>1. Resting' => LeavesAlone(ctl')
    BY <1>2, <1>3 DEF Resting, LeavesAlone, LastBlock, Long, LongIn
  <2> QED
    BY <1>1, <1>4, <2>1, GoesOn DEF Follows
<1>6. Sending' => card'.xfer = "data" /\ (card'.open <=> Long')
  <2>1. Sending' => ReadsOn(ctl')
    BY <1>2, <1>3 DEF Sending, ReadsOn, LastBlock, Long, LongIn
  <2>2. Long' <=> LongIn(ctl')
    BY DEF Long, LongIn
  <2> QED
    BY <2>1, <2>2, GoesOn, WaitsInPlace
<1>7. Receiving' => card'.xfer = "rcv" /\ (card'.open <=> Long')
  <2>1. Receiving' => WritesOn(ctl')
    BY <1>2, <1>3 DEF Receiving, WritesOn, LastBlock, Long, LongIn
  <2>2. Long' <=> LongIn(ctl')
    BY DEF Long, LongIn
  <2> QED
    BY <1>1, <1>4, <2>1, <2>2, GoesOn DEF Follows
<1>8. Stopping' => card'.xfer \in {"data", "rcv"} /\ card'.open
  <2>1. Stopping' => Stopping \/ ((Sending \/ Receiving) /\ Long)
    BY GoesOn DEF Stopping
  <2>2. Stopping \/ ((Sending \/ Receiving) /\ Long) => card.xfer \in {"data", "rcv"} /\ card.open
    BY <1>1 DEF Follows
  <2>3. card.open => card'.open /\ card'.xfer = card.xfer
    BY <1>1, BlockMovedFields DEF AtRest, CardWaits
  <2> QED
    BY <2>1, <2>2, <2>3
<1> QED
  BY <1>5, <1>6, <1>7, <1>8 DEF Follows

LEMMA FollowsCommand == ASSUME AtWork, CmdAnswered, DatQuiet PROVE Follows'
<1>1. /\ Follows /\ CardThere /\ CmdFields \subseteq DOMAIN cmd /\ EnginesTyped /\ CommandOwned
      /\ DataOwned /\ FInv /\ CalmKnown /\ Unharmed /\ PlainMode /\ Disciplined /\ Modes
      /\ QuietRequest(requested) /\ card'.xfer # "off"
  BY NothingFails DEF AtWork, CalmKnown, StepKnown
<1>2. cmd.busy /\ cmd'.done
  BY <1>1 DEF CmdAnswered, CmdRuns, CmdReport, CmdFields
<1>3. ctl.mcState \in CmdStates /\ ~cmd.done
  BY <1>2, CommandTaken DEF AtWork
<1>4. ctl'.mcState = ctl.mcState /\ (Long' <=> Long)
  <2>1. ctl'.mcState = ctl.mcState
    BY <1>1, <1>3 DEF Disciplined, StartsCommand
  <2>2. ctl'.useMultiBlock = ctl.useMultiBlock
    BY <1>1, <1>3, <2>1 DEF Modes, ModeKept
  <2> QED
    BY <2>1, <2>2 DEF Long, LongIn
<1>5. card' = Executed(card, cmd.index, cmd.arg) /\ cmd.index # 0
  BY <1>1, ExecutedReset DEF CmdAnswered, PoweredCard
<1>6. CASE ctl.mcState \in Steady
  <2>1. cmd.index \notin {8, 12, 17, 18, 24, 25}
    <3>1. requested.id = "SEND_RAW" => requested.count \notin {8, 12, 17, 18, 24, 25}
      BY <1>1 DEF QuietRequest, Moves
    <3>2. ctl.mcState = "RAW_CMD" => cmd.index \notin {8, 12, 17, 18, 24, 25}
      BY <1>1, <1>2, <3>1, CommandIs
    <3>3. ctl.mcState = "SWITCH_CMD" => cmd.index = 6
      BY <1>1, <1>2, CommandIs
    <3>4. ctl.mcState \in {"SWITCH_STATUS", "ERASE_START", "ERASE_END", "ERASE_CMD",
                           "STATUS_CMD"} => cmd.index \in {13, 35, 36, 38}
      BY <1>1, <1>2, CommandIs
    <3> QED
      BY <1>3, <1>6, <3>2, <3>3, <3>4 DEF Steady
  <2>2. card'.xfer = card.xfer
    BY <1>1, <1>5, <2>1, ExecutedFields DEF CardThere
  <2>3. card.xfer = "tran"
    BY <1>1, <1>6 DEF Follows, Resting
  <2>4. ctl'.mcState \in Steady
    BY <1>4, <1>6
  <2> QED
    BY <2>2, <2>3, <2>4 DEF Follows, Sending, Receiving, Stopping, Steady, StopStates, DoneStates
<1>7. CASE ctl.mcState = "READ_CMD"
  <2>1. cmd.index = IF ctl.useMultiBlock THEN 18 ELSE 17
    BY <1>1, <1>2, <1>7, CommandIs
  <2>2. card'.xfer = "data" /\ (card'.open <=> ctl.useMultiBlock)
    BY <1>1, <1>5, <2>1, ExecutedFields DEF CardThere, Unharmed
  <2>3. card'.open <=> Long'
    BY <1>4, <1>7, <2>2 DEF Long, LongIn
  <2> QED
    BY <1>2, <1>4, <1>7, <2>2, <2>3
       DEF Follows, Resting, Receiving, Stopping, Steady, StopStates, DoneStates
<1>8. CASE ctl.mcState = "WRITE_CMD"
  <2>1. cmd.index = IF ctl.useMultiBlock THEN 25 ELSE 24
    BY <1>1, <1>2, <1>8, CommandIs
  <2>2. card'.xfer = "rcv" /\ (card'.open <=> ctl.useMultiBlock)
    BY <1>1, <1>5, <2>1, ExecutedFields DEF CardThere, Unharmed
  <2>3. card'.open <=> Long'
    BY <1>4, <1>8, <2>2 DEF Long, LongIn
  <2> QED
    BY <1>2, <1>4, <1>8, <2>2, <2>3
       DEF Follows, Resting, Sending, Stopping, Steady, StopStates, DoneStates
<1>9. CASE ctl.mcState = "EXT_CSD_CMD"
  <2>1. cmd.index = 8
    BY <1>1, <1>2, <1>9, CommandIs
  <2>2. card'.xfer = "data" /\ ~card'.open
    BY <1>1, <1>5, <2>1, ExecutedFields DEF CardThere
  <2>3. ~Long'
    BY <1>4, <1>9 DEF Long, LongIn
  <2> QED
    BY <1>2, <1>4, <1>9, <2>2, <2>3
       DEF Follows, Resting, Receiving, Stopping, Steady, StopStates, DoneStates
<1>10. CASE ctl.mcState \in StopStates
  <2>1. cmd.index = 12
    BY <1>1, <1>2, <1>10, CommandIs
  <2>2. card'.xfer = "tran"
    BY <1>1, <1>5, <2>1, ExecutedFields DEF CardThere
  <2>3. ctl'.mcState \in StopStates
    BY <1>4, <1>10
  <2> QED
    BY <1>2, <2>2, <2>3 DEF Follows, Sending, Receiving, Stopping, StopStates, DoneStates
<1>11. ctl.mcState # "RPMB_CMD23"
  BY <1>1 DEF PlainMode, RpmbStates
<1> QED
  BY <1>3, <1>6, <1>7, <1>8, <1>9, <1>10, <1>11 DEF Steady, StopStates

LEMMA FollowsData ==
    ASSUME AtWork, DatByte \/ BlockPasses \/ DatTimeout, CmdQuiet PROVE Follows'
<1>1. /\ Follows /\ CardThere /\ CmdFields \subseteq DOMAIN cmd /\ EnginesTyped /\ CommandOwned
      /\ DataOwned /\ Disciplined /\ Modes /\ Well'
  BY NothingFails, WellStays DEF AtWork, CalmKnown, StepKnown
<1>2. ~DatIdle /\ "crcErr" \in DOMAIN dat
  BY DEF DatByte, BlockPasses, DatTimeout, DatIdle, AtWork, CalmKnown, FInv, RInv, ReadThere
<1>3. /\ ctl.mcState \in DatStates /\ ~dat.done
      /\ \/ dat.st = "rd" /\ ctl.mcState \in ReadStates
         \/ dat.st = "wr" /\ ctl.mcState = "WRITE_DAT"
  BY <1>1, <1>2 DEF DataOwned, DatIdle, EnginesTyped
<1>4. ctl'.mcState = ctl.mcState /\ (Long' <=> Long)
  <2>1. ctl'.mcState = ctl.mcState
    BY <1>1, <1>3 DEF Disciplined, StartsData
  <2>2. ctl'.useMultiBlock = ctl.useMultiBlock
    BY <1>1, <1>3, <2>1 DEF Modes, ModeKept
  <2> QED
    BY <2>1, <2>2 DEF Long, LongIn
<1>5. ~DatTimeout
  BY <1>1, <1>2 DEF DatTimeout, DatReport, EnginesTyped, Well
<1>6. CASE DatByte
  <2>1. card' = card /\ ~dat'.done
    BY <1>1, <1>3, <1>6 DEF DatByte, EnginesTyped
  <2>2. Sending \/ Receiving
    BY <1>3 DEF Sending, Receiving, LastBlock
  <2>3. /\ Sending' <=> Sending
        /\ Receiving' <=> Receiving
        /\ ~Resting' /\ ~Stopping'
    BY <1>3, <1>4, <2>1
       DEF Sending, Receiving, Resting, Stopping, LastBlock, Steady, OpensTransfer, StopStates,
           DoneStates
  <2> QED
    BY <1>1, <1>4, <2>1, <2>3 DEF Follows
<1>7. CASE BlockPasses
  <2>1. dat'.done
    BY <1>1, <1>7 DEF BlockPasses, DatReport, EnginesTyped
  <2>2. /\ dat.st = "rd" => Sending
        /\ dat.st = "wr" => Receiving
    BY <1>3 DEF Sending, Receiving, LastBlock
  <2>3. card'.open = card.open /\ card'.xfer = IF card.open THEN card.xfer ELSE "tran"
    BY <1>1, <1>7, BlockMovedFields DEF BlockPasses
  <2>4. /\ dat.st = "rd" => card.xfer = "data" /\ (card.open <=> Long)
        /\ dat.st = "wr" => card.xfer = "rcv" /\ (card.open <=> Long)
    BY <1>1, <2>2 DEF Follows
  <2>5. /\ Resting' <=> ~Long'
        /\ Sending' <=> Long' /\ dat.st = "rd"
        /\ Receiving' <=> Long' /\ dat.st = "wr"
        /\ ~Stopping'
    BY <1>3, <1>4, <2>1
       DEF Sending, Receiving, Resting, Stopping, LastBlock, Steady, OpensTransfer, StopStates,
           DoneStates
  <2> QED
    BY <1>3, <1>4, <2>3, <2>4, <2>5 DEF Follows
<1> QED
  BY <1>5, <1>6, <1>7

\* The first edge after an initialisation.
LEMMA FirstServing ==
    ASSUME CalmKnown, PlainMode', ctl.mcState \in InitStates, Serves'
    PROVE  Serving'
<1>1. /\ Unharmed /\ FInv /\ EnginesTyped /\ CardThere /\ CmdFields \subseteq DOMAIN cmd
      /\ CommandOwned /\ DataOwned /\ InitOwned /\ CmdIs /\ Flows /\ MoreNeedsMulti /\ CalmEdge
      /\ PlainMode /\ Planned(ctl) /\ Switched
  BY DEF CalmKnown, StepKnown
<1>2. ctl.mcState = "INIT" /\ ini.done /\ ctl'.mcState = "READY" /\ card.xfer = "tran"
  BY <1>1 DEF Flows, InitStarts, Unharmed, Serves
<1>3. ~cmd.busy /\ ~cmd.done /\ DatIdle /\ ~dat.done /\ ini.st # "run"
  BY <1>1, <1>2 DEF CommandOwned, DataOwned, InitOwned, CmdIs, FInv, DoneInData, DatIdle, EnginesTyped
<1>4. AtRest
  BY <1>1, <1>3 DEF CalmEdge, CmdAnswered, CmdIllegal, CmdRuns, DatByte, BlockPasses, DatTimeout, DatIdle,
                    InitSucceeds
<1>5. card' = card
  BY <1>1, <1>2, <1>4, BlockMovedFields DEF AtRest, CardWaits
<1>6. ~cmd'.done /\ ~dat'.done
  BY <1>1, <1>3, <1>4 DEF AtRest, CmdQuiet, DatQuiet, CmdFields, EnginesTyped
<1>7. Undisturbed
  BY <1>1, <1>2, <1>3 DEF Undisturbed, Failing, Unharmed, PlainMode, RpmbStates
<1>8. ctl'.respStatus # "EMMC_ERR"
  BY <1>1, <1>2, <1>7 DEF Flows, NoErrorArises, Unharmed, InitStates
<1>9. Well'
  BY <1>2, <1>6, <1>8 DEF Well
<1>10. Follows'
  BY <1>2, <1>5 DEF Follows, Resting, Sending, Receiving, Stopping, Steady, OpensTransfer, StopStates,
                    DoneStates
<1>11. SameWidth'
  <2>1. ctl.busWidth4 = FALSE /\ card.width4 = FALSE
    BY <1>1, <1>2 DEF Planned, Switched
  <2>2. ctl'.busWidth4 = ctl.busWidth4
    BY <1>1, <1>2 DEF Flows, WidthKept
  <2> QED
    BY <1>5, <2>1, <2>2 DEF SameWidth
<1> QED
  BY <1>9, <1>10, <1>11 DEF Serving

LEMMA QuietStep ==
    ASSUME BootSucceeds, TransfersFit, QuietRequests, QInv, [Next]_vars PROVE QInv'
<1>1. CASE Next
  <2>1. FInv'
    BY <1>1, FlowStep DEF QInv
  <2>2. PlainMode' /\ QuietRequest(requested)'
    BY <1>1, PlainStays DEF QInv
  <2>3. ASSUME faults' = 0 PROVE Unharmed' /\ (Serves' => Serving')
    <3>1. CalmKnown
      BY <1>1, <2>3, CalmFacts
    <3>2. Unharmed'
      BY <3>1, UnharmedStays
    <3>3. ASSUME Serves' PROVE Serving'
      <4>1. CASE ctl.mcState \in InitStates
        BY <2>2, <3>1, <3>3, <4>1, FirstServing
      <4>2. CASE ctl.mcState \notin InitStates
        <5>1. ini.st # "run"
          BY <3>1, <4>2 DEF CalmKnown, StepKnown, InitOwned, InitStates
        <5>2. AtWork
          BY <3>1, <3>3, <4>2, <5>1, StaysOff DEF AtWork, Serves
        <5>3. Well' /\ SameWidth'
          BY <5>2, WellStays, WidthStays
        <5>4. Follows'
          <6>1. CASE CmdAnswered /\ DatQuiet
            BY <5>2, <6>1, FollowsCommand
          <6>2. CASE (DatByte \/ BlockPasses \/ DatTimeout) /\ CmdQuiet
            BY <5>2, <6>2, FollowsData
          <6>3. CASE AtRest
            BY <5>2, <6>3, FollowsAtRest
          <6>4. ~CmdIllegal
            BY <5>2, CommandTaken DEF CmdIllegal, CmdRuns, AtWork, Serves
          <6> QED
            BY <3>1, <5>1, <6>1, <6>2, <6>3, <6>4 DEF CalmKnown, CalmEdge, InitSucceeds
        <5> QED
          BY <5>3, <5>4 DEF Serving
      <4> QED
        BY <4>1, <4>2
    <3> QED
      BY <3>2, <3>3
  <2> QED
    BY <2>1, <2>2, <2>3 DEF QInv
<1>2. CASE UNCHANGED vars
  <2>1. FInv'
    BY <1>2, FlowStep DEF QInv
  <2>2. /\ PlainMode' <=> PlainMode
        /\ QuietRequest(requested)' <=> QuietRequest(requested)
        /\ Unharmed' <=> Unharmed
        /\ Serves' <=> Serves
    BY <1>2 DEF vars, ctlVars, PlainMode, requested, QuietRequest, Unharmed, Serves
  <2>3. /\ Resting' <=> Resting
        /\ Sending' <=> Sending
        /\ Receiving' <=> Receiving
        /\ Stopping' <=> Stopping
        /\ Long' <=> Long
    BY <1>2 DEF vars, ctlVars, Resting, Sending, Receiving, Stopping, Long, LongIn, LastBlock
  <2>4. Serving' <=> Serving
    BY <1>2, <2>3 DEF vars, ctlVars, Serving, Well, Follows, SameWidth, ChangesWidth, SwitchOpen
  <2> QED
    BY <1>2, <2>1, <2>2, <2>4 DEF QInv, vars, ctlVars
<1> QED
  BY <1>1, <1>2

LEMMA QuietInit == ASSUME Init PROVE QInv
<1>1. FInv
  BY FlowInit
<1> QED
  BY <1>1 DEF Init, CtlInit, ResetRegisters, QInv, PlainMode, QuietRequest, requested, Boot,
        Unharmed, Serves, PoweredCard, InitStates, RpmbStates

(* Whatever came before, a command is answered with an eMMC error only when  *)
(* something has gone wrong: with requests that leave the card's state to    *)
(* the FSM, the card is always in the state the FSM needs.                   *)
THEOREM NoErrorUnprovoked ==
    BootSucceeds /\ TransfersFit /\ QuietRequests => (Spec => []NoFalseError)
<1>1. ASSUME Init PROVE QInv
  BY <1>1, QuietInit
<1>2. QInv => NoFalseError
  <2>1. SUFFICES ASSUME QInv, ctl.respValid, faults = 0, card.xfer # "off"
                 PROVE  ctl.respStatus # "EMMC_ERR"
    BY DEF NoFalseError
  <2>2. ctl.mcState = "READY"
    BY <2>1 DEF QInv, FInv, RInv, SInv, CInv, AInv, OnePlace
  <2> QED
    BY <2>1, <2>2 DEF QInv, Serves, Serving, Well, InitStates
<1>3. SUFFICES ASSUME BootSucceeds, TransfersFit, QuietRequests PROVE Spec => []NoFalseError
  OBVIOUS
<1>4. QInv /\ [Next]_vars => QInv'
  BY <1>3, QuietStep
<1> QED
  BY <1>1, <1>2, <1>4, PTL DEF Spec

-----------------------------------------------------------------------------
(* RPMB mode: the block count of CMD23, from its acceptance to the answer.   *)

HasCount == card.xfer = "tran" /\ card.quota
AsksForBlocks == ctl.mcState \in {"READ_CMD", "WRITE_CMD"}
MovesBlocks == ctl.mcState \in {"READ_DAT", "WRITE_DAT"}
AfterError == ctl.mcState \in {"ERROR", "ERROR_STOP"}

CountKept ==
    /\ ctl.mcState = "RPMB_CMD23" /\ cmd.done /\ ~cmd.error => HasCount
    /\ ctl.mcState = "RPMB_FIFO_WAIT" => HasCount
    /\ ctl.forceMultiBlock /\ AsksForBlocks /\ ~cmd.done => HasCount

CountUsed ==
    /\ AsksForBlocks /\ cmd.done /\ ~cmd.error => ~card.open
    /\ MovesBlocks => ~card.open
    /\ MovesBlocks /\ dat.done /\ ~dat.crcErr => card.xfer = "tran"
    /\ ctl.mcState \in DoneStates => card.xfer = "tran" /\ ~card.open

CountAnswered ==
    /\ AfterError /\ port.cmdId \in Transfers /\ ctl.respStatus = "OK" => card.xfer = "tran"
    /\ ctl.respValid /\ port.cmdId \in Transfers /\ ctl.respStatus = "OK" => card.xfer = "tran"
    /\ ctl.mcState \notin {"STOP_CMD", "STOP_WAIT"}

Announced == CountKept /\ (ctl.forceMultiBlock => CountUsed /\ CountAnswered)

\* A command reports in the state that gave it.
LEMMA Reported ==
    ASSUME FInv, StepKnown, cmd'.done
    PROVE  /\ cmd.busy /\ ctl.mcState \in CmdStates /\ ~cmd.done /\ ctl'.mcState = ctl.mcState
           /\ CmdAnswered \/ CmdIllegal \/ CmdFault
<1>1. cmd.busy /\ (CmdAnswered \/ CmdIllegal \/ CmdFault)
  BY Reports DEF StepKnown
<1>2. ctl.mcState \in CmdStates /\ ~cmd.done
  BY <1>1 DEF StepKnown, CommandOwned
<1> QED
  BY <1>1, <1>2 DEF StepKnown, Disciplined, StartsCommand

LEMMA ExpectsAnswer ==
    ASSUME FInv, cmd.busy,
           ctl.mcState \in {"RPMB_CMD23", "READ_CMD", "WRITE_CMD", "STOP_CMD"}
    PROVE  cmd.respExp
<1>1. Commanded(ctl) /\ CmdIs
  BY DEF FInv, RInv, SInv, CInv
<1>2. ctl.cmdRespExp
  BY <1>1 DEF Commanded, Loads
<1> QED
  BY <1>1, <1>2 DEF CmdIs

\* Unless the card may refuse it, a command that ends well was carried out.
LEMMA CarriedOut ==
    ASSUME CardThere, CmdFields \subseteq DOMAIN cmd, cmd.respExp, cmd.index \notin BusyIndexes,
           "device" \notin CmdFaults, CmdAnswered \/ CmdIllegal \/ CmdFault, ~cmd'.error
    PROVE  Legal(card, cmd.index) /\ card' = Executed(card, cmd.index, cmd.arg)
<1>1. CmdReport(TRUE, cmd.device) \/ CmdReport(TRUE, card.errPending) => cmd'.error
  BY DEF CmdReport, CmdFields
<1>2. ~CmdIllegal
  BY <1>1 DEF CmdIllegal
<1>3. ~CmdFault
  BY <1>1 DEF CmdFault
<1> QED
  BY <1>2, <1>3 DEF CmdAnswered

\* While the FSM waits for a command, either it reports or the card rests.
LEMMA ReportsOrRests ==
    ASSUME StepKnown, ctl.mcState \in CmdStates
    PROVE  cmd'.done \/ AtRest
<1>1. DatIdle /\ ini.st # "run" /\ EngineEdge /\ CmdFields \subseteq DOMAIN cmd
  BY DEF StepKnown, DataOwned, InitOwned, EnginesTyped, DatIdle
<1>2. CmdAnswered \/ CmdIllegal \/ CmdFault => cmd'.done
  BY <1>1 DEF CmdAnswered, CmdIllegal, CmdFault, CmdReport, CmdFields
<1> QED
  BY <1>1, <1>2, CommandAlone

LEMMA RestKeeps ==
    ASSUME CardThere, AtRest
    PROVE  /\ card'.open = card.open /\ card'.quota = card.quota
           /\ card.xfer # "data" => card' = card
BY BlockMovedFields DEF AtRest, CardWaits

CountStep == StepKnown /\ FInv /\ Announced /\ "device" \notin CmdFaults

LEMMA CountStays ==
    ASSUME CountStep
    PROVE  CountKept'
<1>1. /\ StepKnown /\ FInv /\ CardThere /\ CmdFields \subseteq DOMAIN cmd /\ MoreNeedsMulti
      /\ CountKept /\ CountGoes /\ ModeKept
  BY DEF CountStep, StepKnown, Announced, Ends, Modes
<1>2. ctl.mcState = "RPMB_FIFO_WAIT" \/ CountAccepted => AtRest
  <2>1. ctl.mcState \notin CmdStates \union ReadStates \union {"WRITE_DAT", "INIT"} => AtRest
    BY Rests, <1>1 DEF StepKnown, CommandOwned, DataOwned, InitOwned, EnginesTyped, DatIdle
  <2>2. ctl.mcState \in CmdStates /\ cmd.done => AtRest
    BY Rests, <1>1 DEF StepKnown, CommandOwned, DataOwned, InitOwned, EnginesTyped, DatIdle
  <2> QED
    BY <2>1, <2>2 DEF CountAccepted
<1>3. (ctl.mcState = "RPMB_FIFO_WAIT" \/ CountAccepted) => HasCount'
  BY <1>1, <1>2, RestKeeps DEF CountKept, CountAccepted, HasCount
<1>4. ctl'.mcState = "RPMB_CMD23" /\ cmd'.done /\ ~cmd'.error => HasCount'
  <2>1. SUFFICES ASSUME ctl'.mcState = "RPMB_CMD23", cmd'.done, ~cmd'.error PROVE HasCount'
    OBVIOUS
  <2>2. ctl.mcState = "RPMB_CMD23" /\ cmd.busy /\ (CmdAnswered \/ CmdIllegal \/ CmdFault)
    BY <1>1, <2>1, Reported
  <2>3. cmd.index = 23 /\ cmd.respExp
    BY <1>1, <2>2, CommandIs, ExpectsAnswer
  <2>4. Legal(card, 23) /\ card' = Executed(card, cmd.index, cmd.arg)
    BY <1>1, <2>1, <2>2, <2>3, CarriedOut DEF CountStep, BusyIndexes
  <2>5. card'.xfer = card.xfer /\ card'.quota
    BY <1>1, <2>3, <2>4, ExecutedFields DEF CardThere
  <2> QED
    BY <2>4, <2>5 DEF Legal, TranOnly, HasCount
<1>5. ctl'.mcState = "RPMB_FIFO_WAIT" => HasCount'
  BY <1>1, <1>3 DEF CountGoes
<1>6. ctl'.forceMultiBlock /\ AsksForBlocks' /\ ~cmd'.done => HasCount'
  <2>1. SUFFICES ASSUME ctl'.forceMultiBlock, AsksForBlocks', ~cmd'.done PROVE HasCount'
    OBVIOUS
  <2>2. ctl.forceMultiBlock
    BY <1>1, <2>1 DEF ModeKept, AsksForBlocks
  <2>3. \/ CountAccepted \/ ctl.mcState = "RPMB_FIFO_WAIT"
        \/ AsksForBlocks /\ ~cmd.done
    BY <1>1, <2>1, <2>2 DEF CountGoes, AsksForBlocks
  <2>4. CASE AsksForBlocks /\ ~cmd.done
    <3>1. AtRest
      BY <1>1, <2>1, <2>4, ReportsOrRests DEF AsksForBlocks
    <3> QED
      BY <1>1, <2>2, <2>4, <3>1, RestKeeps DEF CountKept, HasCount
  <2> QED
    BY <1>3, <2>3, <2>4
<1> QED
  BY <1>4, <1>5, <1>6 DEF CountKept

LEMMA CountUses ==
    ASSUME CountStep, ctl.forceMultiBlock
    PROVE  CountUsed'
<1>1. /\ StepKnown /\ FInv /\ CardThere /\ CmdFields \subseteq DOMAIN cmd /\ EnginesTyped
      /\ CountKept /\ CountUsed /\ CountGoes /\ DataOwned /\ InitOwned /\ CommandOwned /\ EngineEdge
      /\ Disciplined
  BY DEF CountStep, StepKnown, Announced, Ends
<1>2. /\ ctl.mcState \in DoneStates => AtRest
      /\ TransferStarted \/ BlockThere => AtRest
  <2>1. ctl.mcState \notin CmdStates \union ReadStates \union {"WRITE_DAT", "INIT"} => AtRest
    BY Rests, <1>1 DEF CommandOwned, DataOwned, InitOwned, EnginesTyped, DatIdle
  <2>2. ctl.mcState \in CmdStates /\ cmd.done => AtRest
    BY Rests, <1>1 DEF CommandOwned, DataOwned, InitOwned, EnginesTyped, DatIdle
  <2>3. ctl.mcState \in DatStates /\ dat.done => AtRest
    BY Rests, <1>1 DEF CommandOwned, DataOwned, InitOwned, EnginesTyped, DatIdle
  <2> QED
    BY <2>1, <2>2, <2>3 DEF DoneStates, TransferStarted, BlockThere
<1>3. AsksForBlocks' /\ cmd'.done /\ ~cmd'.error => ~card'.open
  <2>1. SUFFICES ASSUME AsksForBlocks', cmd'.done, ~cmd'.error PROVE ~card'.open
    OBVIOUS
  <2>2. AsksForBlocks /\ cmd.busy /\ ~cmd.done /\ (CmdAnswered \/ CmdIllegal \/ CmdFault)
    BY <1>1, <2>1, Reported DEF AsksForBlocks
  <2>3. cmd.index \in {17, 18, 24, 25} /\ cmd.respExp
    <3>1. ctl.mcState = "READ_CMD" => cmd.index \in {17, 18}
      BY <1>1, <2>2, CommandIs
    <3>2. ctl.mcState = "WRITE_CMD" => cmd.index \in {24, 25}
      BY <1>1, <2>2, CommandIs
    <3>3. cmd.respExp
      BY <1>1, <2>2, ExpectsAnswer DEF AsksForBlocks
    <3> QED
      BY <2>2, <3>1, <3>2, <3>3 DEF AsksForBlocks
  <2>4. card' = Executed(card, cmd.index, cmd.arg)
    BY <1>1, <2>1, <2>2, <2>3, CarriedOut DEF CountStep, BusyIndexes
  <2>5. card.quota
    BY <1>1, <2>2 DEF CountKept, HasCount
  <2> QED
    BY <1>1, <2>3, <2>4, <2>5, ExecutedFields DEF CardThere
<1>4. MovesBlocks /\ ~dat.done =>
         /\ ~card'.open
         /\ dat'.done /\ ~dat'.crcErr => card'.xfer = "tran"
  <2>1. SUFFICES ASSUME MovesBlocks, ~dat.done
                 PROVE  ~card'.open /\ (dat'.done /\ ~dat'.crcErr => card'.xfer = "tran")
    OBVIOUS
  <2>2. ~card.open /\ ~cmd.busy /\ ini.st # "run"
    BY <1>1, <2>1 DEF CountUsed, CommandOwned, InitOwned, MovesBlocks
  <2>3. CASE DatByte \/ DatTimeout
    BY <1>1, <2>1, <2>2, <2>3
       DEF DatByte, DatTimeout, DatReport, EnginesTyped, FInv, RInv, ReadThere
  <2>4. CASE DatBlock
    BY <1>1, <2>2, <2>4, BlockMovedFields
       DEF DatBlock, DatReport, EnginesTyped, FInv, RInv, ReadThere
  <2>5. CASE AtRest
    <3>1. ~dat'.done
      BY <1>1, <2>1, <2>5 DEF AtRest, DatQuiet, EnginesTyped
    <3> QED
      BY <1>1, <2>2, <2>5, <3>1, RestKeeps
  <2> QED
    BY <1>1, <2>2, <2>3, <2>4, <2>5
       DEF EngineEdge, AtRest, CmdAnswered, CmdIllegal, CmdFault, CmdRuns, IniEnds
<1>5. MovesBlocks' => ~card'.open
  <2>1. MovesBlocks' => TransferStarted \/ ctl.mcState \in DoneStates \/ (MovesBlocks /\ ~dat.done)
    BY <1>1 DEF CountGoes, MovesBlocks
  <2>2. TransferStarted \/ ctl.mcState \in DoneStates => ~card.open
    BY <1>1 DEF CountUsed, TransferStarted, AsksForBlocks
  <2> QED
    BY <1>1, <1>2, <1>4, <2>1, <2>2, RestKeeps
<1>6. MovesBlocks' /\ dat'.done /\ ~dat'.crcErr => card'.xfer = "tran"
  <2>1. dat'.done => dat.st # "idle"
    BY <1>1 DEF StepKnown, DatMoves
  <2>2. dat'.done => ctl.mcState \in DatStates /\ ~dat.done /\ ctl'.mcState = ctl.mcState
    BY <1>1, <2>1 DEF DataOwned, EnginesTyped, Disciplined, StartsData
  <2> QED
    BY <1>4, <2>2 DEF MovesBlocks
<1>7. ctl'.mcState \in DoneStates => card'.xfer = "tran" /\ ~card'.open
  <2>1. ctl'.mcState \in DoneStates => ctl.mcState \in DoneStates \/ BlockThere
    BY <1>1 DEF CountGoes
  <2>2. ctl.mcState \in DoneStates \/ BlockThere => card.xfer = "tran" /\ ~card.open
    BY <1>1 DEF CountUsed, BlockThere, MovesBlocks
  <2> QED
    BY <1>1, <1>2, <2>1, <2>2, RestKeeps
<1> QED
  BY <1>3, <1>5, <1>6, <1>7 DEF CountUsed

\* While a CMD12 is on its way, or the FSM reports an error, nothing opens a transfer.
LEMMA StopKeepsIdle ==
    ASSUME StepKnown, FInv, ctl.mcState \in StopStates, card.xfer = "tran", "device" \notin CmdFaults
    PROVE  card'.xfer = "tran"
<1>1. CardThere /\ CmdFields \subseteq DOMAIN cmd /\ ctl.mcState \in CmdStates
  BY DEF StepKnown, StopStates
<1>2. CASE AtRest
  BY <1>1, <1>2, RestKeeps
<1>3. CASE cmd'.done
  <2>1. cmd.busy /\ (CmdAnswered \/ CmdIllegal \/ CmdFault)
    BY <1>3, Reported
  <2>2. cmd.index = 12
    BY <2>1, CommandIs
  <2>3. ~Legal(card, cmd.index)
    BY <2>2 DEF Legal
  <2>4. card' = card \/ card' = Rejected(card)
    BY <2>1, <2>3 DEF CmdAnswered, CmdIllegal, CmdFault
  <2> QED
    BY <1>1, <2>4 DEF Rejected, CardThere, CardFields
<1> QED
  BY <1>1, <1>2, <1>3, ReportsOrRests

LEMMA CountAnswers ==
    ASSUME CountStep, ctl.forceMultiBlock
    PROVE  CountAnswered'
<1>1. /\ StepKnown /\ FInv /\ CardThere /\ MoreNeedsMulti /\ OnPath(ctl) /\ EngineEdge /\ EnginesTyped
      /\ CountKept /\ CountUsed /\ CountAnswered /\ TransferEnds /\ CountGoes /\ WaitsOrAsks
      /\ DataOwned /\ InitOwned /\ CommandOwned /\ "device" \notin CmdFaults
  BY DEF CountStep, StepKnown, Announced, Ends
<1>2. ctl.mcState \in DoneStates \union {"ERROR", "RPMB_FIFO_WAIT"} => AtRest
  BY Rests, <1>1 DEF CommandOwned, DataOwned, InitOwned, EnginesTyped, DatIdle, DoneStates
<1>3. ctl.mcState = "ERROR_STOP" /\ cmd.done => AtRest
  BY Rests, <1>1 DEF CommandOwned, DataOwned, InitOwned, EnginesTyped, DatIdle
<1>4. ctl.mcState \in DoneStates => card'.xfer = "tran"
  BY <1>1, <1>2, RestKeeps DEF CountUsed
<1>5. AfterError /\ card.xfer = "tran" => card'.xfer = "tran"
  BY <1>1, <1>2, RestKeeps, StopKeepsIdle DEF AfterError, StopStates
<1>6. ASSUME AfterError', port'.cmdId \in Transfers, ctl'.respStatus = "OK"
      PROVE  card'.xfer = "tran"
  <2>1. port.cmdId \in Transfers
    BY <1>1, <1>6 DEF WaitsOrAsks, Waiting, NewlyAsked, AfterError
  <2>2. \/ ctl.mcState \in {"ERROR", "ERROR_STOP"} /\ ctl.respStatus = "OK"
        \/ ctl.mcState \in DoneStates
    BY <1>1, <1>6, <2>1 DEF CountGoes, AfterError
  <2>3. AfterError /\ ctl.respStatus = "OK" => card.xfer = "tran"
    BY <1>1, <2>1 DEF CountAnswered
  <2> QED
    BY <1>4, <1>5, <2>2, <2>3 DEF AfterError
<1>7. ASSUME ctl'.respValid, port'.cmdId \in Transfers, ctl'.respStatus = "OK"
      PROVE  card'.xfer = "tran"
  <2>1. port.cmdId \in Transfers
    BY <1>1, <1>7 DEF WaitsOrAsks, Waiting, NewlyAsked
  <2>2. \/ AfterError /\ ctl.respStatus = "OK"
        \/ ctl.mcState \in DoneStates
    BY <1>1, <1>7, <2>1 DEF TransferEnds, CountAnswered, AfterError
  <2>3. AfterError /\ ctl.respStatus = "OK" => card.xfer = "tran"
    BY <1>1, <2>1 DEF CountAnswered
  <2> QED
    BY <1>4, <1>5, <2>2, <2>3
<1>8. ctl'.mcState \notin {"STOP_CMD", "STOP_WAIT"}
  BY <1>1 DEF CountGoes, CountAnswered
<1> QED
  BY <1>6, <1>7, <1>8 DEF CountAnswered

\* RPMB mode begins with an answered request: no transfer is under way.
LEMMA ModeBegins ==
    ASSUME CountStep, ~ctl.forceMultiBlock, ctl'.forceMultiBlock
    PROVE  CountUsed' /\ CountAnswered'
<1>1. StepKnown /\ WaitsOrAsks /\ ModeKept
  BY DEF CountStep, StepKnown, Modes
<1>2. ctl'.mcState = "READY" /\ port.cmdId = "SET_RPMB_MODE"
  BY <1>1 DEF ModeKept
<1>3. CountUsed'
  BY <1>2 DEF CountUsed, AsksForBlocks, MovesBlocks, DoneStates
<1>4. ctl'.respValid => port'.cmdId \notin Transfers
  BY <1>1, <1>2 DEF WaitsOrAsks, Waiting, NewlyAsked
<1> QED
  BY <1>2, <1>3, <1>4 DEF CountAnswered, AfterError

LEMMA CountMoves == ASSUME CountStep PROVE Announced'
<1>1. CountKept'
  BY CountStays
<1>2. ctl'.forceMultiBlock => CountUsed' /\ CountAnswered'
  BY CountUses, CountAnswers, ModeBegins
<1> QED
  BY <1>1, <1>2 DEF Announced

-----------------------------------------------------------------------------
(* A transfer of several blocks ends closed.                                *)

NoRpmbMode == \A r \in Requests : r.id # "SET_RPMB_MODE"
CountRefusable == "device" \in CmdFaults

\* Either the card always obeys CMD23, or it is never given one.
CountInv ==
    /\ Announced
    /\ CountRefusable => PlainMode /\ requested.id # "SET_RPMB_MODE"

LEMMA CountInvStep ==
    ASSUME StepKnown, FInv, CountInv, CountRefusable => NoRpmbMode
    PROVE  CountInv'
<1>1. WaitsOrAsks /\ ModeKept /\ PortAsks
  BY DEF StepKnown, Modes, SInv, CInv
<1>2. CASE ~CountRefusable
  BY <1>2, CountMoves DEF CountStep, CountInv, CountRefusable
<1>3. CASE CountRefusable
  <2>1. PlainMode /\ port.cmdId # "SET_RPMB_MODE" /\ NoRpmbMode
    BY <1>1, <1>3 DEF CountInv, PortAsks
  <2>2. PlainMode'
    BY <1>1, <2>1 DEF ModeKept, PlainMode
  <2>3. requested'.id # "SET_RPMB_MODE"
    <3>1. CASE Waiting
      BY <1>1, <2>1, <3>1 DEF Waiting, requested, PortAsks
    <3>2. CASE NewlyAsked
      BY <2>1, <3>2 DEF NewlyAsked, NoRpmbMode, SendRequest, requested
    <3> QED
      BY <1>1, <3>1, <3>2 DEF WaitsOrAsks
  <2>4. Announced'
    BY <2>2 DEF Announced, CountKept, PlainMode, RpmbStates
  <2> QED
    BY <1>3, <2>2, <2>3, <2>4 DEF CountInv, CountRefusable
<1> QED
  BY <1>2, <1>3

Several == port.cmdId \in Transfers /\ port.cmdCount > 1
IsOpen == card.xfer \in {"data", "rcv"}

\* A CMD12 that reported well has closed the transfer, and one in the error path
\* that has not is the second thing to go wrong.
Closing ==
    Several /\ IsOpen =>
        /\ ctl.mcState = "STOP_CMD" /\ cmd.done => cmd.error
        /\ ctl.mcState # "STOP_WAIT"
        /\ ctl.mcState = "ERROR_STOP" /\ cmd.done => Troubles > 1
        /\ ctl.respValid /\ ctl.respStatus # "CMD_ERR" => Troubles > 1

\* The error path is taken only when something has gone wrong.
ErrorsHaveCause == faults = 0 /\ Serves /\ ~UartMayStall => Well

CloseStep == StepKnown /\ FInv /\ CountInv /\ Closing /\ ErrorsHaveCause /\ faults' \in Nat

LEMMA StoppingCommand ==
    ASSUME CloseStep, cmd'.done, ctl.mcState \in StopStates, IsOpen'
    PROVE  /\ ctl.mcState = "STOP_CMD" => cmd'.error
           /\ ctl.mcState = "ERROR_STOP" => Troubles' > 1
<1>1. /\ StepKnown /\ FInv /\ CardThere /\ CmdFields \subseteq DOMAIN cmd /\ EnginesTyped
  BY DEF CloseStep, StepKnown
<1>2. cmd.busy /\ (CmdAnswered \/ CmdIllegal \/ CmdFault)
  BY <1>1, Reported
<1>3. cmd.index = 12
  BY <1>1, <1>2, CommandIs
<1>4. ctl.mcState = "STOP_CMD" => cmd.respExp
  BY <1>1, <1>2, ExpectsAnswer
<1>5. Executed(card, cmd.index, cmd.arg).xfer = "tran"
  BY <1>1, <1>3, ExecutedFields DEF CardThere
<1>6. card' # Executed(card, cmd.index, cmd.arg)
  BY <1>5 DEF IsOpen
<1>7. Rejected(card).xfer = card.xfer
  BY <1>1 DEF Rejected, CardThere, CardFields
<1>8. ~CmdAnswered
  BY <1>6 DEF CmdAnswered
<1>9. ~CmdIllegal
  <2>1. CmdIllegal => card'.xfer = card.xfer /\ ~Legal(card, 12)
    BY <1>3, <1>7 DEF CmdIllegal
  <2>2. card.xfer \in {"data", "rcv"} => Legal(card, 12)
    BY DEF Legal, TranOnly
  <2> QED
    BY <2>1, <2>2 DEF IsOpen
<1>10. /\ CmdReport(TRUE, cmd.device)
       /\ card'.xfer = card.xfer /\ Fault
  <2>1. [Executed(card, cmd.index, cmd.arg) EXCEPT !.stuck = TRUE].xfer
          = Executed(card, cmd.index, cmd.arg).xfer
    BY <1>1, <1>3, ExecutedFields DEF CardThere, CardFields
  <2>2. CmdFault
    BY <1>2, <1>8, <1>9
  <2>3. \/ CmdReport(TRUE, cmd.device) /\ card' \in {card, Rejected(card)}
        \/ card' = Executed(card, cmd.index, cmd.arg)
        \/ card' = Executed(card, 12, cmd.arg)
        \/ card' = [Executed(card, cmd.index, cmd.arg) EXCEPT !.stuck = TRUE]
    <3>1. (CASE cmd.index = 12 -> Executed(card, 12, cmd.arg)
             [] cmd.index = 6  -> Rejected(card)
             [] OTHER -> [card EXCEPT !.errPending = FALSE, !.stuck = FALSE])
            = Executed(card, 12, cmd.arg)
      BY <1>3
    <3> QED
      BY <2>2, <3>1, Zenon DEF CmdFault
  <2>4. card' # [Executed(card, cmd.index, cmd.arg) EXCEPT !.stuck = TRUE]
    BY <1>5, <2>1 DEF IsOpen
  <2>5. CmdReport(TRUE, cmd.device) /\ card'.xfer = card.xfer
    BY <1>3, <1>6, <1>7, <2>3, <2>4
  <2> QED
    BY <2>2, <2>5 DEF CmdFault
<1>11. ctl.mcState = "STOP_CMD" => cmd'.error
  BY <1>1, <1>4, <1>10 DEF CmdReport, CmdFields
<1>12. ctl.mcState = "ERROR_STOP" => Troubles' > 1
  <2>1. SUFFICES ASSUME ctl.mcState = "ERROR_STOP" PROVE Troubles' > 1
    OBVIOUS
  <2>2. faults # 0 \/ UartMayStall
    BY <1>10, <2>1 DEF CloseStep, ErrorsHaveCause, Serves, Well, IsOpen, InitStates
  <2>3. faults' = faults + 1 /\ faults \in Nat
    BY <1>1, <1>10 DEF Fault, EnginesTyped
  <2> QED
    BY <2>2, <2>3 DEF Troubles
<1> QED
  BY <1>11, <1>12

LEMMA ClosingStays == ASSUME CloseStep PROVE Closing'
<1>1. /\ StepKnown /\ FInv /\ CardThere /\ MoreNeedsMulti /\ OnPath(ctl) /\ EngineEdge /\ EnginesTyped
      /\ Announced /\ Closing /\ TransferEnds /\ CountGoes /\ WaitsOrAsks
      /\ DataOwned /\ InitOwned /\ CommandOwned /\ MultiMeans(ctl)
  BY DEF CloseStep, CountInv, StepKnown, Ends, FInv
<1>2. SUFFICES ASSUME Several', IsOpen'
               PROVE  /\ ctl'.mcState = "STOP_CMD" /\ cmd'.done => cmd'.error
                      /\ ctl'.mcState # "STOP_WAIT"
                      /\ ctl'.mcState = "ERROR_STOP" /\ cmd'.done => Troubles' > 1
                      /\ ctl'.respValid /\ ctl'.respStatus # "CMD_ERR" => Troubles' > 1
  BY DEF Closing
<1>3. ctl'.mcState # "READY" \/ ctl'.respValid => Several /\ ~NewlyAsked
  BY <1>1, <1>2 DEF WaitsOrAsks, Waiting, NewlyAsked, Several
<1>4. cmd'.done => ctl.mcState = ctl'.mcState
  BY <1>1, Reported
<1>5. AtRest => IsOpen /\ faults' = faults
  BY <1>1, <1>2, RestKeeps DEF AtRest, CardWaits, NoFault, IsOpen
<1>6. ctl'.mcState = "STOP_CMD" /\ cmd'.done => cmd'.error
  BY <1>2, <1>4, StoppingCommand DEF StopStates
<1>7. ctl'.mcState = "ERROR_STOP" /\ cmd'.done => Troubles' > 1
  BY <1>2, <1>4, StoppingCommand DEF StopStates
<1>8. /\ ctl.mcState \notin CmdStates \union ReadStates \union {"WRITE_DAT", "INIT"} => AtRest
      /\ ctl.mcState \in CmdStates /\ cmd.done => AtRest
  BY Rests, <1>1 DEF CommandOwned, DataOwned, InitOwned, EnginesTyped, DatIdle
<1>9. ctl'.mcState # "STOP_WAIT"
  <2>1. SUFFICES ASSUME ctl'.mcState = "STOP_WAIT" PROVE FALSE
    OBVIOUS
  <2>2. ctl.mcState = "STOP_WAIT" \/ (ctl.mcState = "STOP_CMD" /\ cmd.done /\ ~cmd.error)
    BY <1>1, <2>1 DEF CountGoes
  <2>3. Several /\ IsOpen
    BY <1>3, <1>5, <1>8, <2>1, <2>2
  <2> QED
    BY <1>1, <2>2, <2>3 DEF Closing
<1>10. ASSUME ctl'.respValid, ctl'.respStatus # "CMD_ERR" PROVE Troubles' > 1
  <2>1. Several
    BY <1>3, <1>10
  <2>2. ctl.mcState # "READY" => ctl.useMultiBlock
    BY <1>1, <2>1 DEF MultiMeans, Several
  <2>3. \/ ctl.mcState = "STOP_WAIT"
        \/ ctl.mcState = "ERROR_STOP" /\ cmd.done
        \/ ctl.mcState \in DoneStates /\ ctl.forceMultiBlock
        \/ ctl.mcState = "RPMB_FIFO_WAIT"
    BY <1>1, <1>10, <2>1, <2>2 DEF TransferEnds, Several, DoneStates
  <2>4. AtRest
    BY <1>8, <2>3 DEF DoneStates
  <2>5. IsOpen /\ faults' = faults
    BY <1>5, <2>4
  <2>6. ctl.mcState = "ERROR_STOP" /\ cmd.done
    BY <1>1, <2>1, <2>3, <2>5 DEF Closing, Announced, CountKept, CountUsed, HasCount, IsOpen
  <2> QED
    BY <1>1, <2>1, <2>5, <2>6 DEF Closing, Troubles
<1> QED
  BY <1>6, <1>7, <1>9, <1>10

\* A stalling host is itself something that goes wrong; otherwise QInv says what is.
TInv ==
    /\ FInv /\ CountInv /\ Closing
    /\ UartMayStall \/ QInv

\* A card that may refuse CMD23 with an error bit is not asked for RPMB mode.
CardAnswersCount == "device" \in CmdFaults => NoRpmbMode
\* A host that never stalls leaves the card's state to the FSM.
FaultsAreCards == UartMayStall \/ QuietRequests

LEMMA TransferStep ==
    ASSUME BootSucceeds, TransfersFit, CardAnswersCount, FaultsAreCards, TInv, [Next]_vars
    PROVE  TInv'
<1>1. FInv'
  BY FlowStep DEF TInv
<1>2. UartMayStall \/ QInv'
  BY QuietStep DEF TInv, FaultsAreCards
<1>3. CASE Next
  <2>1. StepKnown /\ FInv /\ CountInv /\ Closing
    BY <1>3, StepFacts DEF TInv
  <2>2. ErrorsHaveCause
    BY DEF TInv, ErrorsHaveCause, QInv, Serving, Serves
  <2>3. faults' \in Nat
    BY <1>1 DEF FInv, RInv, SInv, CInv, AInv, IInv, EnginesTyped
  <2>4. CountInv'
    BY <2>1, CountInvStep DEF CardAnswersCount, CountRefusable
  <2>5. Closing'
    BY <2>1, <2>2, <2>3, ClosingStays DEF CloseStep
  <2> QED
    BY <1>1, <1>2, <2>4, <2>5 DEF TInv
<1>4. CASE UNCHANGED vars
  <2>1. CountInv' <=> CountInv
    BY <1>4 DEF vars, ctlVars, CountInv, Announced, CountKept, CountUsed, CountAnswered, HasCount,
                AsksForBlocks, MovesBlocks, AfterError, PlainMode, requested, CountRefusable
  <2>2. Closing' <=> Closing
    BY <1>4 DEF vars, ctlVars, Closing, Several, IsOpen, Troubles
  <2> QED
    BY <1>1, <1>2, <2>1, <2>2 DEF TInv
<1> QED
  BY <1>3, <1>4

(* However a transfer of several blocks ends, with at most one thing going   *)
(* wrong it leaves the card idle; and in RPMB mode so does every transfer    *)
(* that is answered OK, as long as the card does not refuse CMD23 with an    *)
(* error bit.                                                               *)
THEOREM TransfersAreClosed ==
    BootSucceeds /\ TransfersFit /\ CardAnswersCount /\ FaultsAreCards
        => (Spec => []TransferClosed)
<1>1. ASSUME FaultsAreCards, Init PROVE TInv
  <2>1. FInv
    BY <1>1, FlowInit
  <2>2. QuietRequests => QInv
    BY <1>1, <2>1, QuietInit
  <2>3. CountInv /\ Closing
    BY <1>1 DEF Init, CtlInit, ResetRegisters, PoweredCard, CountInv, Announced, CountKept,
                CountUsed, CountAnswered, AsksForBlocks, MovesBlocks, AfterError, PlainMode,
                RpmbStates, DoneStates, requested, Boot, Closing, Several, IsOpen
  <2> QED
    BY <1>1, <2>1, <2>2, <2>3 DEF TInv, FaultsAreCards
<1>2. TInv => TransferClosed
  <2>1. SUFFICES ASSUME TInv, Answers(Transfers), ctl.respStatus # "CMD_ERR",
                        \/ requested.count > 1 /\ Troubles <= 1
                        \/ ctl.forceMultiBlock /\ ctl.respStatus = "OK"
                 PROVE  ~IsOpen
    BY DEF TransferClosed, IsOpen
  <2>2. ctl.respValid /\ port.cmdId \in Transfers /\ port.cmdCount = requested.count
    BY <2>1 DEF Answers, TInv, FInv, RInv, SInv, CInv, PortAsks
  <2>3. faults \in Nat
    BY <2>1 DEF TInv, FInv, RInv, SInv, CInv, AInv, IInv, EnginesTyped
  <2>4. Troubles \in Nat
    BY <2>3 DEF Troubles
  <2>5. CASE requested.count > 1 /\ Troubles <= 1
    BY <2>1, <2>2, <2>4, <2>5 DEF TInv, Closing, Several
  <2>6. CASE ctl.forceMultiBlock /\ ctl.respStatus = "OK"
    BY <2>1, <2>2, <2>6 DEF TInv, CountInv, Announced, CountAnswered, IsOpen
  <2> QED
    BY <2>1, <2>5, <2>6
<1>3. SUFFICES ASSUME BootSucceeds, TransfersFit, CardAnswersCount, FaultsAreCards
               PROVE  Spec => []TransferClosed
  OBVIOUS
<1>4. TInv /\ [Next]_vars => TInv'
  BY <1>3, TransferStep
<1>5. Init => TInv
  BY <1>1, <1>3
<1> QED
  BY <1>2, <1>4, <1>5, PTL DEF Spec

=============================================================================
