----------------------------- MODULE WriteProofs -----------------------------
(***************************************************************************)
(* A write answered OK is on the card: the sectors of a write through the  *)
(* write FIFO, from the bridge to the card, for every size of the FIFO,    *)
(* every set of requests the port can carry and every fault.               *)
(***************************************************************************)
EXTENDS ControllerProofs, SequenceTheorems

USE DEF OnCourse, StaysOnPath, StaysCommanded, CommandKept, OnPath, Commanded, Loads,
        CountLoaded, SameLoaded, MoreNeedsMulti, CourseTyped, CourseFields,
        Transfers, Switches, Erases, TransferStates,
        CmdStates, DatStates, BusyStates, McStates, Booting, BootFails

-----------------------------------------------------------------------------
(* What one edge of the FSM may do with a write: when it takes a sector,    *)
(* where it is in the write FIFO, and how the write ends.                   *)

Writing == port.cmdId = "WRITE_SECTOR"
SameSector == ctl'.sectorsLeft = ctl.sectorsLeft /\ ctl'.emmcBank = ctl.emmcBank
FirstSector == /\ Asked /\ port.cmdCount # 0 /\ port.cmdCount <= FifoBanks
               /\ ctl'.sectorsLeft = port.cmdCount /\ ctl'.emmcBank = 0
WaitsForData == {"RPMB_CMD23", "RPMB_FIFO_WAIT"}

TakesSectors ==
    /\ ctl'.forceMultiBlock <=> ctl.forceMultiBlock
    /\ ctl'.wrSectorAck =>
          \/ Asked /\ ctl.wrSectorValidD /\ ~ctl.forceMultiBlock /\ ctl'.mcState = "WRITE_CMD"
          \/ ctl.mcState = "WRITE_DONE" /\ port.wrSectorValid /\ ctl'.mcState = "WRITE_DAT"

WriteBegins ==
    /\ ctl'.mcState \in WaitsForData =>
          \/ FirstSector /\ ctl.forceMultiBlock
          \/ ctl.mcState \in WaitsForData /\ SameSector
    /\ ctl'.mcState = "WRITE_CMD" =>
          \/ /\ FirstSector /\ ~ctl.forceMultiBlock
             /\ ctl.wrSectorValidD /\ ctl'.wrSectorAck = TRUE
          \/ ctl.mcState \in WaitsForData /\ ctl.wrSectorValidD /\ SameSector
          \/ ctl.mcState = "WRITE_CMD" /\ ~cmd.done /\ SameSector

WriteProceeds ==
    /\ ctl'.mcState = "WRITE_DAT" =>
          \/ ctl.mcState = "WRITE_CMD" /\ CommandGood /\ SameSector
          \/ ctl.mcState = "WRITE_DAT" /\ ~dat.done /\ SameSector
          \/ /\ ctl.mcState = "WRITE_DONE" /\ ctl.sectorsLeft # 0
             /\ port.wrSectorValid /\ ctl'.wrSectorAck = TRUE
             /\ ctl'.sectorsLeft = ctl.sectorsLeft
             /\ ctl'.emmcBank = (ctl.emmcBank + 1) % FifoBanks
    /\ ctl'.mcState = "WRITE_DONE" =>
          \/ /\ ctl.mcState = "WRITE_DAT" /\ dat.done /\ ~dat.crcErr
             /\ ctl'.sectorsLeft = ctl.sectorsLeft - 1 /\ ctl'.emmcBank = ctl.emmcBank
          \/ ctl.mcState = "WRITE_DONE" /\ SameSector

LastWritten == ctl.mcState = "WRITE_DONE" /\ ctl.sectorsLeft = 0
InError == ctl.mcState \in {"ERROR", "ERROR_STOP"}

WriteEnds ==
    /\ ctl'.mcState \in {"STOP_CMD", "STOP_WAIT"} =>
          ctl.mcState \in {"STOP_CMD", "STOP_WAIT"} \/ LastWritten
    /\ ctl'.respValid /\ ctl'.respStatus = "OK" =>
          ctl.mcState = "STOP_WAIT" \/ LastWritten \/ (InError /\ ctl.respStatus = "OK")
    /\ ctl'.mcState \in {"ERROR", "ERROR_STOP"} =>
          \/ ctl'.respStatus = "EMMC_ERR"
          \/ InError /\ ctl'.respStatus = ctl.respStatus
          \/ ctl.mcState = "WRITE_DONE" /\ ctl.sectorsLeft # 0 /\ UartMayStall

Writes ==
    /\ ctl'.wrSectorValidD <=> port.wrSectorValid
    /\ ctl'.wrSectorAck => Asked \/ ctl.mcState = "WRITE_DONE"
    /\ OnPath(ctl) /\ MoreNeedsMulti /\ Writing =>
          TakesSectors /\ WriteBegins /\ WriteProceeds /\ WriteEnds

WriteFields == {"mcState", "sectorsLeft", "useMultiBlock", "emmcBank", "forceMultiBlock",
                "isReadOp", "wrSectorAck", "wrSectorValidD", "respStatus", "respValid",
                "cmdValidD"}
WriteTyped == WriteFields \subseteq DOMAIN ctl /\ ctl.mcState \in McStates

LEMMA ClearedWrite ==
    ASSUME WriteTyped
    PROVE  /\ DOMAIN Cleared = DOMAIN ctl /\ Cleared.respValid = FALSE
           /\ Cleared.mcState = ctl.mcState /\ Cleared.respStatus = ctl.respStatus
           /\ Cleared.sectorsLeft = ctl.sectorsLeft /\ Cleared.emmcBank = ctl.emmcBank
           /\ Cleared.useMultiBlock = ctl.useMultiBlock
           /\ Cleared.forceMultiBlock = ctl.forceMultiBlock
           /\ Cleared.isReadOp = ctl.isReadOp
           /\ Cleared.wrSectorAck = FALSE /\ Cleared.wrSectorValidD = port.wrSectorValid
BY DEF WriteTyped, WriteFields, Cleared

LEMMA LoadedWriteFields ==
    ASSUME WriteTyped
    PROVE  /\ DOMAIN Loaded = DOMAIN ctl /\ Loaded.respValid = FALSE
           /\ Loaded.mcState = ctl.mcState
           /\ Loaded.forceMultiBlock = ctl.forceMultiBlock
           /\ Loaded.wrSectorAck = FALSE /\ Loaded.wrSectorValidD = port.wrSectorValid
BY ClearedWrite DEF WriteTyped, WriteFields, Loaded

USE DEF Writes, TakesSectors, WriteBegins, WriteProceeds, WriteEnds, LastWritten, InError,
        SameSector, FirstSector, WaitsForData, CommandGood, Writing, WriteTyped, WriteFields, Asked

LEMMA InitWrites ==
    ASSUME WriteTyped, StartInit \/ AwaitInit \/ FinishInit \/ FailInit
    PROVE  Writes
<1> USE ClearedWrite
<1>1. CASE StartInit
  BY <1>1 DEF StartInit
<1>2. CASE AwaitInit
  BY <1>2 DEF AwaitInit
<1>3. CASE FinishInit
  BY <1>3 DEF FinishInit, Answered
<1>4. CASE FailInit
  BY <1>4 DEF FailInit, Answered, bootRetryLeft
<1> QED
  BY <1>1, <1>2, <1>3, <1>4

LEMMA ReadyWrites ==
    ASSUME WriteTyped, AwaitCommand \/ RejectCommand \/ AcceptRead \/ AcceptWrite \/
           AcceptErase \/ AcceptExtCsd \/ AcceptStatus \/ AcceptSwitch \/ AcceptReinit
           \/ SetClkDiv \/ SetRpmbMode \/ AcceptRaw
    PROVE  Writes
<1> USE LoadedWriteFields, ClearedWrite DEF Dispatch
<1>1. CASE AwaitCommand
  BY <1>1 DEF AwaitCommand, Go
<1>2. CASE RejectCommand
  BY <1>2 DEF RejectCommand, Answered
<1>3. CASE AcceptRead
  BY <1>3 DEF AcceptRead
<1>4. CASE AcceptWrite
  <2>1. /\ DOMAIN LoadedWrite = DOMAIN ctl /\ LoadedWrite.respValid = FALSE
        /\ LoadedWrite.mcState = "READY" /\ LoadedWrite.emmcBank = 0
        /\ LoadedWrite.sectorsLeft = port.cmdCount
        /\ LoadedWrite.forceMultiBlock = ctl.forceMultiBlock
        /\ LoadedWrite.wrSectorAck = FALSE
        /\ LoadedWrite.wrSectorValidD = port.wrSectorValid
    BY <1>4 DEF LoadedWrite, AcceptWrite, DispatchWrite
  <2>2. Asked /\ port.cmdCount # 0 /\ port.cmdCount <= FifoBanks
    BY <1>4 DEF AcceptWrite, DispatchWrite, countIsZero, CountedIds
  <2>3. CASE ctl.forceMultiBlock
    BY <1>4, <2>1, <2>2, <2>3 DEF AcceptWrite
  <2>4. CASE ~ctl.forceMultiBlock /\ ctl.wrSectorValidD
    BY <1>4, <2>1, <2>2, <2>4 DEF AcceptWrite
  <2>5. CASE ~ctl.forceMultiBlock /\ ~ctl.wrSectorValidD
    BY <1>4, <2>1, <2>2, <2>5 DEF AcceptWrite
  <2> QED
    BY <2>3, <2>4, <2>5
<1>5. CASE AcceptErase
  BY <1>5 DEF AcceptErase
<1>6. CASE AcceptExtCsd
  BY <1>6 DEF AcceptExtCsd
<1>7. CASE AcceptStatus
  BY <1>7 DEF AcceptStatus
<1>8. CASE AcceptSwitch
  BY <1>8 DEF AcceptSwitch
<1>9. CASE AcceptReinit
  BY <1>9 DEF AcceptReinit
<1>10. CASE SetClkDiv
  BY <1>10 DEF SetClkDiv, Answered
<1>11. CASE SetRpmbMode
  BY <1>11 DEF SetRpmbMode, Answered
<1>12. CASE AcceptRaw
  BY <1>12 DEF AcceptRaw
<1> QED
  BY <1>1, <1>2, <1>3, <1>4, <1>5, <1>6, <1>7, <1>8, <1>9, <1>10, <1>11, <1>12

LEMMA CommandWrites ==
    ASSUME WriteTyped, IssueCommand \/ CommandFails \/ ReadCommandDone \/
           ExtCsdCommandDone \/ WriteCommandDone \/ StopCommandDone \/ SwitchCommandDone
           \/ SwitchStatusDone \/ EraseCommandDone \/ StatusCommandDone \/
           BlockCountDone \/ RawCommandDone
    PROVE  Writes
<1> USE ClearedWrite DEF CommandDone, Taken
<1>1. CASE IssueCommand
  BY <1>1 DEF IssueCommand, NextCmd
<1>2. CASE CommandFails
  BY <1>2 DEF CommandFails, Failed, FailsToError, ChecksDeviceStatus
<1>3. CASE ReadCommandDone
  BY <1>3 DEF ReadCommandDone
<1>4. CASE ExtCsdCommandDone
  BY <1>4 DEF ExtCsdCommandDone
<1>5. CASE WriteCommandDone
  BY <1>5 DEF WriteCommandDone, commandFailed, ChecksDeviceStatus, deviceStatusErr
<1>6. CASE StopCommandDone
  BY <1>6 DEF StopCommandDone, Go
<1>7. CASE SwitchCommandDone
  BY <1>7 DEF SwitchCommandDone
<1>8. CASE SwitchStatusDone
  BY <1>8 DEF SwitchStatusDone, Answered
<1>9. CASE EraseCommandDone
  BY <1>9 DEF EraseCommandDone, NextCmd
<1>10. CASE StatusCommandDone
  BY <1>10 DEF StatusCommandDone, Answered
<1>11. CASE BlockCountDone
  BY <1>11 DEF BlockCountDone, NextCmd
<1>12. CASE RawCommandDone
  BY <1>12 DEF RawCommandDone, Answered
<1> QED
  BY <1>1, <1>2, <1>3, <1>4, <1>5, <1>6, <1>7, <1>8, <1>9, <1>10, <1>11, <1>12

LEMMA DataWrites ==
    ASSUME WriteTyped, AwaitData \/ DataFails \/ ReadBlockDone \/ ExtCsdBlockDone \/
           ContinueRead \/ FinishBlocks \/ WriteBlockDone \/ ContinueWrite \/
           WriteWatchdog \/ AwaitRpmbData \/ RpmbWatchdog
    PROVE  Writes
<1> USE ClearedWrite
<1>1. CASE AwaitData
  BY <1>1 DEF AwaitData, Go
<1>2. CASE DataFails
  BY <1>2 DEF DataFails, Failed
<1>3. CASE ReadBlockDone
  BY <1>3 DEF ReadBlockDone, Staged
<1>4. CASE ExtCsdBlockDone
  BY <1>4 DEF ExtCsdBlockDone, Staged, Answered
<1>5. CASE ContinueRead
  BY <1>5 DEF ContinueRead
<1>6. CASE FinishBlocks
  BY <1>6 DEF FinishBlocks, NextCmd, Answered
<1>7. CASE WriteBlockDone
  BY <1>7 DEF WriteBlockDone
<1>8. CASE ContinueWrite
  BY <1>8 DEF ContinueWrite, moreToWrite
<1>9. CASE WriteWatchdog
  BY <1>9 DEF WriteWatchdog, moreToWrite, NextCmd, Answered
<1>10. CASE AwaitRpmbData
  BY <1>10 DEF AwaitRpmbData, NextCmd
<1>11. CASE RpmbWatchdog
  BY <1>11 DEF RpmbWatchdog, Answered
<1> QED
  BY <1>1, <1>2, <1>3, <1>4, <1>5, <1>6, <1>7, <1>8, <1>9, <1>10, <1>11

LEMMA BusyWrites ==
    ASSUME WriteTyped, StillBusy \/ BusyReleased \/ BusyTimeout \/ ReportError \/
           ErrorStopDone
    PROVE  Writes
<1> USE ClearedWrite
<1>1. CASE StillBusy
  BY <1>1 DEF StillBusy, Go
<1>2. CASE BusyReleased
  BY <1>2 DEF BusyReleased, NextCmd, Answered
<1>3. CASE BusyTimeout
  BY <1>3 DEF BusyTimeout, Failed
<1>4. CASE ReportError
  BY <1>4 DEF ReportError, NextCmd, Answered
<1>5. CASE ErrorStopDone
  BY <1>5 DEF ErrorStopDone, Answered
<1> QED
  BY <1>1, <1>2, <1>3, <1>4, <1>5
LEMMA WritesEdge == ASSUME WriteTyped, CtlEdge PROVE Writes
BY InitWrites, ReadyWrites, CommandWrites, DataWrites, BusyWrites DEF CtlEdge

-----------------------------------------------------------------------------
(* A write as an invariant.  Every sector the bridge has received is counted *)
(* once: taken by the FSM, on the sector-valid line, or waiting for it; the *)
(* FSM takes the next one only when it is in its bank of the write FIFO; and *)
(* the card holds the ones before it.                                       *)

\* The writes the controller accepts, and of those the ones whose OK means that
\* the sectors are stored: in RPMB mode CMD23 announces one block, and the CMD12
\* of a watchdog ends in OK.
Accepted == Writing /\ requested.count \in 1..FifoBanks
Clean == requested.count = 1 \/ ~(ctl.forceMultiBlock \/ UartMayStall)

\* How many sectors the bridge has received, and the FSM has seen stored.
received == requested.count - port.wrSectorsLeft
written == requested.count - ctl.sectorsLeft
sector(i) == WriteByte(job.n, i)

BridgeFields == {"wrSectorValid", "wrSectorsReady", "wrSectorsLeft",
                 "uartWrEn", "uartWrBank", "uartWrAddr", "uartWrData"}
WriteThere ==
    /\ WriteFields \subseteq DOMAIN ctl /\ {"crcErr", "block"} \subseteq DOMAIN dat
    /\ BridgeFields \subseteq DOMAIN port /\ {"n", "req", "open"} \subseteq DOMAIN job
    /\ port.wrSectorsReady \in Nat /\ port.wrSectorsLeft \in Nat
    /\ port.uartWrBank \in 0..FifoBanks - 1 /\ port.uartWrAddr = 0
    /\ DOMAIN wrBuf = 0..FifoBanks - 1 /\ \A b \in 0..FifoBanks - 1 : 0 \in DOMAIN wrBuf[b]

\* Sector n is in its bank; the last one received needs one more edge.
Arrived(n) == n < received /\ (port.uartWrEn => n < received - 1)
Buffered ==
    Accepted =>
       /\ received \in 0..requested.count
       /\ port.uartWrBank = IF received = 0 THEN FifoBanks - 1 ELSE received - 1
       /\ port.uartWrEn => received > 0 /\ port.uartWrData = sector(received - 1)
       /\ \A n \in 0..FifoBanks - 1 : Arrived(n) => wrBuf[n][0] = sector(n)

\* The FSM has taken n sectors; the others wait to be taken.
Consumed(n) == n + One(port.wrSectorValid /\ ~ctl.wrSectorAck) + port.wrSectorsReady = received

NotBegun == port.cmdValid \/ ctl.cmdValidD \/ ctl.mcState \in WaitsForData
InSector == ctl.mcState \in {"WRITE_CMD", "WRITE_DAT"}
Announced ==
    Accepted =>
       /\ NotBegun => Consumed(0) /\ ~ctl.wrSectorAck
       /\ NotBegun /\ ~port.cmdValid => (ctl.wrSectorValidD => port.wrSectorValid)
       /\ InSector => /\ ~ctl.forceMultiBlock => Consumed(written + 1)
                      /\ Clean => Arrived(written)
       /\ ctl.mcState = "WRITE_DONE" =>
             ~ctl.wrSectorAck /\ (~ctl.forceMultiBlock => Consumed(written))

\* Where the FSM is in the write.
Stops == ctl.mcState \in {"STOP_CMD", "STOP_WAIT"}
Located ==
    Writing =>
       /\ ctl.mcState \in WaitsForData \/ InSector \/ ctl.mcState = "WRITE_DONE" \/ Stops => Accepted
       /\ ctl.mcState \in WaitsForData => ctl.forceMultiBlock
       /\ ctl.mcState \in WaitsForData \union {"WRITE_CMD"} => written = 0 /\ ctl.emmcBank = 0
       /\ ctl.mcState = "WRITE_DAT" => written \in 0..requested.count - 1 /\ ctl.emmcBank = written
       /\ ctl.mcState = "WRITE_DONE" =>
             written \in 1..requested.count /\ ctl.emmcBank = written - 1
       /\ InError /\ Clean => ctl.respStatus = "EMMC_ERR"

\* The first n sectors are on the card.
Holds(c, n) == c.base = requested.lba /\ c.stored = [i \in 1..n |-> <<sector(i - 1)>>]
Held(n) == Holds(card, n)

\* A block on its way to the card is the sector of its bank.
Sent == dat.st = "wr" => /\ dat.pos = 0 => dat.block = <<>>
                         /\ dat.pos = 1 => dat.block = <<sector(written)>>

Stored ==
    Writing /\ Clean =>
       /\ Sent
       /\ ctl.mcState = "WRITE_CMD" /\ CommandGood => Held(0)
       /\ ctl.mcState = "WRITE_DAT" =>
             IF dat.done THEN dat.crcErr \/ Held(written + 1) ELSE Held(written)
       /\ ctl.mcState = "WRITE_DONE" => Held(written)
       /\ Stops => Held(requested.count)
       /\ ctl.respValid /\ ctl.respStatus = "OK" => Accepted /\ Held(requested.count)

WInv == SInv /\ WriteThere /\ Buffered /\ Announced /\ Located /\ Stored

-----------------------------------------------------------------------------
(* One edge of the bridge's receive side, field by field.                   *)

raises == port.wrSectorsReady > 0 /\ ~port.wrSectorValid
stillReady == port.wrSectorsReady - One(raises)

Receives ==
    /\ port.wrSectorsLeft > 0 /\ port'.wrSectorsLeft = port.wrSectorsLeft - 1
    /\ port'.wrSectorsReady = stillReady + 1
    /\ port'.uartWrEn = TRUE /\ port'.uartWrData = sector(received)
    /\ port'.uartWrBank = (port.uartWrBank + 1) % FifoBanks
ReceivesNothing ==
    /\ port'.wrSectorsLeft = port.wrSectorsLeft /\ port'.wrSectorsReady = stillReady
    /\ port'.uartWrEn = FALSE /\ port'.uartWrBank = port.uartWrBank

Supplies ==
    /\ port'.wrSectorValid <=> raises \/ (port.wrSectorValid /\ ~ctl.wrSectorAck)
    /\ port'.uartWrAddr = port.uartWrAddr
    /\ job'.n = job.n /\ job'.req = job.req
    /\ Receives \/ ReceivesNothing

LEMMA PortSupplies ==
    ASSUME WriteThere, PortFields \subseteq DOMAIN port, PortEdge
    PROVE  \/ /\ Waiting /\ Supplies
              /\ BridgeFields \subseteq DOMAIN port' /\ {"n", "req", "open"} \subseteq DOMAIN job'
           \/ \E r \in Requests : SendRequest(r)
<1> USE DEF WriteThere, PortFields, BridgeFields
<1>1. /\ DOMAIN PortCleared = DOMAIN port /\ ~PortCleared.cmdValid
      /\ PortCleared.cmdId = port.cmdId /\ PortCleared.cmdCount = port.cmdCount
      /\ PortCleared.cmdLba = port.cmdLba
      /\ PortCleared.wrSectorValid <=> raises \/ (port.wrSectorValid /\ ~ctl.wrSectorAck)
      /\ PortCleared.wrSectorsLeft = port.wrSectorsLeft
      /\ PortCleared.uartWrEn = FALSE /\ PortCleared.uartWrBank = port.uartWrBank
      /\ PortCleared.uartWrAddr = port.uartWrAddr
  BY DEF PortCleared, raises
<1>2. PortCleared.wrSectorsReady = stillReady
  BY DEF PortCleared, raises, stillReady, One
<1>3. ASSUME Transmit
      PROVE  /\ {"n", "req", "open"} \subseteq DOMAIN job'
             /\ job'.req = job.req /\ job'.n = job.n
  <2>1. DOMAIN JobSeen = DOMAIN job /\ JobSeen.req = job.req /\ JobSeen.n = job.n
    BY DEF JobSeen
  <2> QED
    BY <1>3, <2>1 DEF Transmit, TakeSector, SendHeader, SendPayload, SendResponse, TransmitIdle
<1>4. ASSUME ReceiveSector
      PROVE  /\ DOMAIN port' = DOMAIN port
             /\ port'.cmdId = port.cmdId /\ port'.cmdCount = port.cmdCount
             /\ port'.cmdLba = port.cmdLba /\ ~port'.cmdValid
             /\ port'.wrSectorValid <=> raises \/ (port.wrSectorValid /\ ~ctl.wrSectorAck)
             /\ port'.uartWrAddr = port.uartWrAddr
             /\ Receives
  <2>1. DOMAIN port' = DOMAIN port /\ port.wrSectorsLeft > 0
    BY <1>1, <1>4 DEF ReceiveSector
  <2>2. /\ port'.cmdId = port.cmdId /\ port'.cmdCount = port.cmdCount
        /\ port'.cmdLba = port.cmdLba /\ ~port'.cmdValid
        /\ port'.wrSectorValid = PortCleared.wrSectorValid
        /\ port'.uartWrAddr = port.uartWrAddr
    BY <1>1, <1>4 DEF ReceiveSector
  <2>3. /\ port'.wrSectorsLeft = port.wrSectorsLeft - 1
        /\ port'.wrSectorsReady = stillReady + 1
        /\ port'.uartWrEn = TRUE
        /\ port'.uartWrBank = (port.uartWrBank + 1) % FifoBanks
    BY <1>1, <1>2, <1>4 DEF ReceiveSector
  <2>4. port'.uartWrData = sector(received)
    BY <1>1, <1>4 DEF ReceiveSector, sector, received, requested
  <2> QED
    BY <1>1, <2>1, <2>2, <2>3, <2>4 DEF Receives
<1>5. ASSUME port' = PortCleared
      PROVE  /\ DOMAIN port' = DOMAIN port
             /\ port'.cmdId = port.cmdId /\ port'.cmdCount = port.cmdCount
             /\ port'.cmdLba = port.cmdLba /\ ~port'.cmdValid
             /\ port'.wrSectorValid <=> raises \/ (port.wrSectorValid /\ ~ctl.wrSectorAck)
             /\ port'.uartWrAddr = port.uartWrAddr
             /\ ReceivesNothing
  BY <1>1, <1>2, <1>5 DEF ReceivesNothing
<1> QED
  BY <1>3, <1>4, <1>5 DEF PortEdge, Waiting, Supplies

\* A new request: of a write the first sector comes with it, or later.
Orders ==
    /\ port'.uartWrAddr = port.uartWrAddr /\ port'.wrSectorsReady \in Nat
    /\ port'.uartWrBank \in 0..FifoBanks - 1
    /\ port'.cmdValid = TRUE /\ port'.cmdId = job'.req.id
    /\ IF port'.cmdId # "WRITE_SECTOR" THEN port'.wrSectorsLeft = port.wrSectorsLeft
       ELSE \/ /\ port'.wrSectorsLeft = job'.req.count /\ port'.wrSectorsReady = 0
               /\ port'.wrSectorValid = FALSE /\ port'.uartWrEn = FALSE
               /\ port'.uartWrBank = FifoBanks - 1
            \/ /\ port'.wrSectorsLeft = (IF job'.req.count = 0 THEN 0 ELSE job'.req.count - 1)
               /\ port'.wrSectorsReady = 0 /\ port'.wrSectorValid = TRUE
               /\ port'.uartWrEn = (job'.req.count > 0) /\ port'.uartWrBank = 0
               /\ port'.uartWrData = WriteByte(job'.n, 0)

LEMMA PortOrders ==
    ASSUME WriteThere, PortFields \subseteq DOMAIN port, NEW r \in Requests, SendRequest(r)
    PROVE  /\ Orders /\ BridgeFields \subseteq DOMAIN port'
           /\ {"n", "req", "open"} \subseteq DOMAIN job'
<1> USE DEF WriteThere, PortFields, BridgeFields
<1>1. /\ DOMAIN job' = {"n", "req", "open", "answered", "got", "status"}
      /\ job'.n = job.n + 1 /\ job'.req.id = r.id /\ job'.req.count = r.count
  BY DEF SendRequest
<1>2. /\ DOMAIN PortCleared = DOMAIN port
      /\ PortCleared.wrSectorsLeft = port.wrSectorsLeft
      /\ PortCleared.wrSectorsReady \in Nat
      /\ PortCleared.uartWrAddr = port.uartWrAddr
      /\ PortCleared.uartWrEn = FALSE /\ PortCleared.uartWrBank = port.uartWrBank
  BY DEF PortCleared
<1> DEFINE p == [PortCleared EXCEPT !.cmdValid = TRUE, !.cmdId = r.id, !.cmdLba = LbaLines(r),
                                    !.cmdCount = r.count, !.rawBusy = r.busy,
                                    !.rawResp = r.resp]
<1>3. /\ DOMAIN p = DOMAIN port /\ p.cmdValid = TRUE /\ p.cmdId = r.id
      /\ p.wrSectorsLeft = port.wrSectorsLeft /\ p.wrSectorsReady \in Nat
      /\ p.uartWrAddr = port.uartWrAddr /\ p.uartWrEn = FALSE
      /\ p.uartWrBank = port.uartWrBank
  BY <1>2
<1>4. port' = IF r.id # "WRITE_SECTOR" THEN p
              ELSE IF r.late
              THEN [p EXCEPT !.wrSectorValid = FALSE, !.wrSectorsReady = 0,
                             !.wrSectorsLeft = r.count, !.uartWrBank = FifoBanks - 1]
              ELSE [p EXCEPT !.wrSectorValid = TRUE, !.wrSectorsReady = 0,
                             !.wrSectorsLeft = IF r.count = 0 THEN 0 ELSE r.count - 1,
                             !.uartWrEn = r.count > 0, !.uartWrBank = 0,
                             !.uartWrData = WriteByte(job.n + 1, 0)]
  BY DEF SendRequest
<1> HIDE DEF p
<1>5. 0 \in 0..FifoBanks - 1 /\ FifoBanks - 1 \in 0..FifoBanks - 1
  BY ControllerAssumption
<1>6. CASE r.id # "WRITE_SECTOR"
  BY <1>1, <1>3, <1>4, <1>6 DEF Orders
<1>7. CASE r.id = "WRITE_SECTOR" /\ r.late
  BY <1>1, <1>3, <1>4, <1>5, <1>7 DEF Orders
<1>8. CASE r.id = "WRITE_SECTOR" /\ ~r.late
  <2>1. /\ DOMAIN port' = DOMAIN port /\ port'.cmdValid = TRUE /\ port'.cmdId = r.id
        /\ port'.wrSectorsReady = 0 /\ port'.wrSectorValid = TRUE
        /\ port'.uartWrBank = 0 /\ port'.uartWrAddr = port.uartWrAddr
        /\ port'.wrSectorsLeft = IF r.count = 0 THEN 0 ELSE r.count - 1
        /\ port'.uartWrEn = (r.count > 0) /\ port'.uartWrData = WriteByte(job.n + 1, 0)
    BY <1>3, <1>4, <1>8
  <2> QED
    BY <1>1, <1>5, <1>8, <2>1 DEF Orders
<1> QED
  BY <1>6, <1>7, <1>8

-----------------------------------------------------------------------------
(* What an edge without a new request comes to for a write.                 *)

Goes ==
    /\ Supplies /\ TakesSectors /\ WriteBegins /\ WriteProceeds /\ WriteEnds
    /\ Writing /\ Writing' /\ requested' = requested /\ (Accepted' <=> Accepted) /\ (Clean' <=> Clean)
    /\ \A i : sector(i)' = sector(i)
    /\ ctl'.wrSectorValidD <=> port.wrSectorValid
    /\ ctl'.cmdValidD <=> port.cmdValid
    /\ ~port'.cmdValid /\ port.cmdCount = requested.count
    /\ port.cmdValid => ctl.mcState = "READY" /\ ~ctl.cmdValidD /\ ctl'.mcState = "READY"
    /\ ctl.cmdValidD => ctl.mcState = "READY"
    /\ requested.count \in Nat /\ received \in Int
    /\ port.wrSectorsReady \in Nat /\ port.wrSectorsLeft \in Nat
    /\ cmd'.done => ctl.mcState \in CmdStates /\ ~cmd.done /\ ctl'.mcState = ctl.mcState
    /\ dat'.done => ctl.mcState \in DatStates /\ ~dat.done /\ ctl'.mcState = ctl.mcState
    /\ InSector \/ ctl.mcState \in WaitsForData => ctl.sectorsLeft \in Nat \ {0}
    /\ ctl.mcState = "WRITE_DONE" => ctl.sectorsLeft \in Nat

LEMMA GoesOn ==
    ASSUME BootSucceeds, WInv, Next, Waiting, Supplies, Writing
    PROVE  Goes
<1> USE DEF WInv, SInv, CInv
<1>1. OnPath(ctl) /\ MoreNeedsMulti
  BY DEF BlocksLeft
<1>2. Writes
  BY WritesEdge DEF Next, ControllerEdge, WriteThere, AInv, IInv, Typed
<1>3. /\ TakesSectors /\ WriteBegins /\ WriteProceeds /\ WriteEnds
      /\ ctl'.wrSectorValidD <=> port.wrSectorValid
  BY <1>1, <1>2
<1>4. Writing' /\ requested' = requested /\ ~port'.cmdValid
  BY DEF Waiting, requested
<1>5. \A i : sector(i)' = sector(i)
  BY DEF Supplies, sector
<1>6. (Accepted' <=> Accepted) /\ (Clean' <=> Clean)
  BY <1>3, <1>4 DEF Accepted, Clean
<1>7. AnswersOnce /\ Disciplined /\ EngineEdge /\ IInv /\ OnePlace
  BY AnswerEdge, FsmEdge DEF Next, ControllerEdge, AInv, IInv
<1>8. /\ ctl'.cmdValidD <=> port.cmdValid
      /\ port.cmdValid => ctl.mcState = "READY" /\ ~ctl.cmdValidD /\ ctl'.mcState = "READY"
      /\ ctl.cmdValidD => ctl.mcState = "READY"
  BY <1>7 DEF AnswersOnce, StaysReady, OnePlace
<1>9. requested.count \in Nat /\ port.cmdCount = requested.count
  BY ControllerAssumption DEF PortAsks, RequestFits
<1>10. received \in Int /\ port.wrSectorsReady \in Nat /\ port.wrSectorsLeft \in Nat
  BY <1>9 DEF WriteThere, received
<1>11. cmd'.done => ctl.mcState \in CmdStates /\ ~cmd.done /\ ctl'.mcState = ctl.mcState
  BY <1>7, Reports DEF IInv, CommandOwned, CourseFieldsThere, Disciplined, StartsCommand
<1>12. dat'.done => ctl.mcState \in DatStates /\ ~dat.done /\ ctl'.mcState = ctl.mcState
  <2>1. dat'.done => dat.st \in {"rd", "wr"}
    BY <1>7, EnginesEdge DEF IInv, DatMoves, EnginesTyped
  <2> QED
    BY <1>7, <2>1 DEF IInv, DataOwned, ReadStates, Disciplined, StartsData
<1>13. /\ InSector \/ ctl.mcState \in WaitsForData => ctl.sectorsLeft \in Nat \ {0}
       /\ ctl.mcState = "WRITE_DONE" => ctl.sectorsLeft \in Nat
  BY DEF BlocksLeft, InSector
<1> QED
  BY <1>3, <1>4, <1>5, <1>6, <1>8, <1>9, <1>10, <1>11, <1>12, <1>13 DEF Goes

LEMMA Ones == /\ \A b \in BOOLEAN : One(b) \in 0..1
              /\ One(TRUE) = 1 /\ One(FALSE) = 0
BY DEF One

\* Tokens are neither lost nor made.
LEMMA Conserved ==
    ASSUME Goes, NEW n \in Int, Consumed(n)
    PROVE  /\ n + One(port'.wrSectorValid) + port'.wrSectorsReady = received'
           /\ received' >= received
           /\ ~ctl'.wrSectorAck => Consumed(n)'
           /\ ctl'.wrSectorAck /\ port'.wrSectorValid => Consumed(n + 1)'
<1> DEFINE kept == port.wrSectorValid /\ ~ctl.wrSectorAck
<1>1. /\ port'.wrSectorValid <=> raises \/ kept
      /\ raises => ~kept
  BY DEF Goes, Supplies, raises
<1>2. One(port'.wrSectorValid) = One(raises) + One(kept)
  <2>1. One(port'.wrSectorValid) = (IF raises \/ kept THEN 1 ELSE 0)
    BY <1>1 DEF One
  <2>2. One(raises) = (IF raises THEN 1 ELSE 0) /\ One(kept) = (IF kept THEN 1 ELSE 0)
    BY DEF One
  <2> QED
    BY <1>1, <2>1, <2>2
<1>3. n + One(kept) + port.wrSectorsReady = received
  BY DEF Consumed
<1>4. /\ One(kept) \in Int /\ One(raises) \in Int /\ port.wrSectorsReady \in Int
      /\ port.wrSectorsLeft \in Int /\ requested.count \in Int
  BY DEF One, Goes
<1>5. received = requested.count - port.wrSectorsLeft
  BY DEF received
<1>6. received' = requested.count - port'.wrSectorsLeft
  BY DEF received, Goes
<1>7. \/ /\ port'.wrSectorsLeft = port.wrSectorsLeft - 1
         /\ port'.wrSectorsReady = port.wrSectorsReady - One(raises) + 1
      \/ /\ port'.wrSectorsLeft = port.wrSectorsLeft
         /\ port'.wrSectorsReady = port.wrSectorsReady - One(raises)
  BY DEF Goes, Supplies, Receives, ReceivesNothing, stillReady
<1> HIDE DEF kept
<1>8. n + One(port'.wrSectorValid) + port'.wrSectorsReady = received'
  <2> DEFINE line == One(port'.wrSectorValid)
             was == One(kept)
             rose == One(raises)
             left == port.wrSectorsLeft
             ready == port.wrSectorsReady
  <2>1. /\ line = rose + was /\ n + was + ready = requested.count - left
        /\ was \in Int /\ rose \in Int /\ ready \in Int /\ left \in Int /\ requested.count \in Int
    BY <1>2, <1>3, <1>4, <1>5
  <2>2. \/ port'.wrSectorsLeft = left - 1 /\ port'.wrSectorsReady = ready - rose + 1
        \/ port'.wrSectorsLeft = left /\ port'.wrSectorsReady = ready - rose
    BY <1>7
  <2> HIDE DEF line, was, rose, left, ready
  <2>3. n + line + port'.wrSectorsReady = requested.count - port'.wrSectorsLeft
    BY <2>1, <2>2
  <2> QED
    BY <1>6, <2>3 DEF line
<1>9. received' >= received
  BY <1>4, <1>5, <1>6, <1>7
<1>10. ASSUME ~ctl'.wrSectorAck PROVE Consumed(n)'
  <2>1. One(port'.wrSectorValid /\ ~ctl'.wrSectorAck) = One(port'.wrSectorValid)
    BY <1>10 DEF One
  <2> QED
    BY <1>8, <2>1 DEF Consumed
<1>11. ASSUME ctl'.wrSectorAck, port'.wrSectorValid PROVE Consumed(n + 1)'
  <2>1. One(port'.wrSectorValid /\ ~ctl'.wrSectorAck) = 0 /\ One(port'.wrSectorValid) = 1
    BY <1>11 DEF One
  <2>2. n + 1 + 0 + port'.wrSectorsReady = received'
    BY <1>4, <1>7, <1>8, <2>1
  <2> QED
    BY <2>1, <2>2 DEF Consumed
<1> QED
  BY <1>8, <1>9, <1>10, <1>11

\* What the bridge has received is in its bank an edge later.
LEMMA ArrivesNext ==
    ASSUME Goes, NEW n \in Int, n < received
    PROVE  Arrived(n)'
<1>1. received' = requested.count - port'.wrSectorsLeft
  BY DEF received, Goes
<1>2. received = requested.count - port.wrSectorsLeft
  BY DEF received
<1>3. requested.count \in Nat /\ port.wrSectorsLeft \in Nat
  BY DEF Goes
<1>4. \/ port'.wrSectorsLeft = port.wrSectorsLeft - 1
      \/ port'.wrSectorsLeft = port.wrSectorsLeft /\ ~port'.uartWrEn
  BY DEF Goes, Supplies, Receives, ReceivesNothing
<1>5. n < received' /\ (port'.uartWrEn => n < received' - 1)
  BY <1>1, <1>2, <1>3, <1>4
<1> QED
  BY <1>5 DEF Arrived

LEMMA BufferedStays ==
    ASSUME WInv, Goes, Next
    PROVE  Buffered'
<1>1. SUFFICES ASSUME Accepted PROVE Buffered'
  BY DEF Buffered, Goes
<1>2. /\ received \in 0..requested.count /\ requested.count \in 1..FifoBanks
      /\ port.uartWrBank = IF received = 0 THEN FifoBanks - 1 ELSE received - 1
      /\ port.uartWrEn => received > 0 /\ port.uartWrData = sector(received - 1)
      /\ \A n \in 0..FifoBanks - 1 : Arrived(n) => wrBuf[n][0] = sector(n)
  BY <1>1 DEF WInv, Buffered, Accepted
<1>3. /\ received' = requested.count - port'.wrSectorsLeft /\ requested' = requested
      /\ received = requested.count - port.wrSectorsLeft
      /\ requested.count \in Nat /\ port.wrSectorsLeft \in Nat
  BY DEF received, Goes
<1>4. \/ /\ port.wrSectorsLeft > 0 /\ received' = received + 1 /\ port'.uartWrEn = TRUE
         /\ port'.uartWrData = sector(received)
         /\ port'.uartWrBank = (port.uartWrBank + 1) % FifoBanks
      \/ /\ received' = received /\ port'.uartWrEn = FALSE
         /\ port'.uartWrBank = port.uartWrBank
  BY <1>3 DEF Goes, Supplies, Receives, ReceivesNothing
<1>5. received' \in 0..requested'.count
  BY <1>2, <1>3, <1>4
<1>6. port'.uartWrBank = IF received' = 0 THEN FifoBanks - 1 ELSE received' - 1
  <2>1. FifoBanks \in Nat /\ FifoBanks > 0
    BY ControllerAssumption
  <2>2. (FifoBanks - 1 + 1) % FifoBanks = 0
    BY <2>1
  <2>3. received < requested.count => received % FifoBanks = received
    BY <1>2, <2>1
  <2>4. port.wrSectorsLeft > 0 => received < requested.count
    BY <1>2, <1>3
  <2>5. CASE received = 0
    BY <1>2, <1>4, <2>1, <2>2, <2>5
  <2>6. CASE received # 0
    <3>1. port.uartWrBank = received - 1 /\ received \in Nat /\ received' # 0
      BY <1>2, <1>4, <2>6
    <3>2. port.uartWrBank + 1 = received
      BY <3>1
    <3> QED
      BY <1>4, <2>3, <2>4, <3>1, <3>2
  <2> QED
    BY <2>5, <2>6
<1>7. port'.uartWrEn => received' > 0 /\ port'.uartWrData = (sector(received - 1))'
  <2>1. \A i : sector(i)' = sector(i)
    BY DEF Goes
  <2>2. port'.uartWrEn => received' > 0 /\ received' - 1 = received
                          /\ port'.uartWrData = sector(received)
    BY <1>2, <1>4
  <2>3. (sector(received - 1))' = WriteByte(job'.n, received' - 1)
    BY DEF sector
  <2>4. job'.n = job.n
    BY DEF Goes, Supplies
  <2> QED
    BY <2>2, <2>3, <2>4 DEF sector
<1>8. ASSUME NEW n \in 0..FifoBanks - 1, Arrived(n)' PROVE wrBuf'[n][0] = sector(n)'
  <2>1. n < received /\ n \in Int
    BY <1>2, <1>4, <1>8, ControllerAssumption DEF Arrived
  <2>2. wrBuf' = IF port.uartWrEn
                 THEN [wrBuf EXCEPT ![port.uartWrBank][0] = port.uartWrData] ELSE wrBuf
    BY DEF Next, ControllerEdge, BufferEdge, WInv, WriteThere
  <2>3. n \in DOMAIN wrBuf /\ 0 \in DOMAIN wrBuf[n]
    BY DEF WInv, WriteThere
  <2>4. wrBuf'[n][0] = sector(n)
    <3>1. CASE ~port.uartWrEn
      BY <1>2, <2>1, <2>2, <3>1 DEF Arrived
    <3>2. CASE port.uartWrEn /\ n = received - 1
      <4>1. port.uartWrBank = n /\ port.uartWrData = sector(n)
        BY <1>2, <2>1, <3>2
      <4> QED
        BY <2>2, <2>3, <3>2, <4>1
    <3>3. CASE port.uartWrEn /\ n # received - 1
      <4>1. n < received - 1 /\ port.uartWrBank # n
        BY <1>2, <2>1, <3>3
      <4>2. Arrived(n)
        BY <2>1, <4>1 DEF Arrived
      <4> QED
        BY <1>2, <2>2, <2>3, <3>3, <4>1, <4>2
    <3> QED
      BY <3>1, <3>2, <3>3
  <2> QED
    BY <2>4 DEF Goes
<1> QED
  BY <1>5, <1>6, <1>7, <1>8 DEF Buffered

\* The FSM takes a sector only when it has come, in the order they came.
LEMMA FirstTaken ==
    ASSUME WInv, Goes, Accepted, NotBegun, ~port.cmdValid, ctl.wrSectorValidD
    PROVE  /\ port.wrSectorValid /\ ~ctl.wrSectorAck /\ received >= 1
           /\ port'.wrSectorValid
<1>1. Consumed(0) /\ ~ctl.wrSectorAck /\ port.wrSectorValid
  BY DEF WInv, Announced
<1>2. received >= 1
  <2>1. 0 + 1 + port.wrSectorsReady = received
    BY <1>1, Ones DEF Consumed
  <2> QED
    BY <2>1 DEF Goes
<1> QED
  BY <1>1, <1>2 DEF Goes, Supplies

LEMMA NextTaken ==
    ASSUME WInv, Goes, Accepted, ctl.mcState = "WRITE_DONE", port.wrSectorValid
    PROVE  /\ ~ctl.wrSectorAck /\ port'.wrSectorValid
           /\ ~ctl.forceMultiBlock => Consumed(written) /\ written < received
<1>1. ~ctl.wrSectorAck /\ (~ctl.forceMultiBlock => Consumed(written))
  BY DEF WInv, Announced
<1>2. ASSUME ~ctl.forceMultiBlock PROVE written < received
  <2>1. written + 1 + port.wrSectorsReady = received
    BY <1>1, <1>2, Ones DEF Consumed
  <2>2. written \in Int
    BY DEF written, Goes
  <2> QED
    BY <2>1, <2>2 DEF Goes
<1> QED
  BY <1>1, <1>2 DEF Goes, Supplies

\* Only a clean write of one sector is in RPMB mode, and it has no second one.
LEMMA OneIsAll ==
    ASSUME WInv, Goes, Clean, Accepted, ctl.mcState = "WRITE_DONE", ctl.sectorsLeft # 0
    PROVE  ~(ctl.forceMultiBlock \/ UartMayStall)
<1>1. written \in 1..requested.count /\ written = requested.count - ctl.sectorsLeft
  BY DEF WInv, Located, Accepted, written
<1>2. requested.count \in Nat /\ ctl.sectorsLeft \in Nat
  BY DEF Goes
<1>3. requested.count # 1
  BY <1>1, <1>2
<1> QED
  BY <1>3 DEF Clean

LEMMA ConsumedStays ==
    ASSUME WInv, Goes, Accepted
    PROVE  /\ NotBegun' => Consumed(0)' /\ ~ctl'.wrSectorAck
           /\ InSector' /\ ~ctl'.forceMultiBlock => Consumed(written + 1)'
           /\ ctl'.mcState = "WRITE_DONE" =>
                 ~ctl'.wrSectorAck /\ (~ctl'.forceMultiBlock => Consumed(written)')
<1> USE DEF WInv
<1>1. ASSUME NotBegun' PROVE Consumed(0)' /\ ~ctl'.wrSectorAck
  <2>1. NotBegun
    BY <1>1 DEF NotBegun, Goes
  <2>2. ~ctl'.wrSectorAck
    BY <1>1 DEF NotBegun, Goes
  <2> QED
    BY <2>1, <2>2, Conserved DEF Announced
<1>2. written' = requested.count - ctl'.sectorsLeft
      /\ written = requested.count - ctl.sectorsLeft
      /\ (ctl'.forceMultiBlock <=> ctl.forceMultiBlock)
  BY DEF written, Goes
<1>3. ASSUME InSector', ~ctl'.forceMultiBlock PROVE Consumed(written + 1)'
  <2>1. CASE /\ Asked /\ ctl.wrSectorValidD /\ FirstSector /\ ctl'.wrSectorAck = TRUE
    <3>1. NotBegun /\ ~port.cmdValid
      BY <2>1 DEF NotBegun, Goes
    <3>2. Consumed(0) /\ port'.wrSectorValid
      BY <2>1, <3>1, FirstTaken DEF Announced
    <3>3. PICK n \in Int : n = 0
      OBVIOUS
    <3>4. Consumed(n + 1)'
      BY <2>1, <3>2, <3>3, Conserved
    <3>5. written' = 0
      BY <1>2, <2>1 DEF Goes
    <3> QED
      BY <3>3, <3>4, <3>5 DEF Consumed
  <2>2. CASE InSector /\ SameSector
    <3>1. Consumed(written + 1) /\ written' = written /\ written \in Int
      BY <1>2, <1>3, <2>2 DEF Announced, Goes
    <3>2. ~ctl'.wrSectorAck
      BY <2>2 DEF InSector, Goes
    <3>3. PICK n \in Int : n = written + 1
      BY <3>1
    <3>4. Consumed(n)'
      <4>1. Consumed(n)
        BY <3>1, <3>3
      <4> QED
        BY <3>2, <4>1, Conserved
    <3> QED
      BY <3>1, <3>3, <3>4 DEF Consumed
  <2>3. CASE /\ ctl.mcState = "WRITE_DONE" /\ port.wrSectorValid /\ ctl'.wrSectorAck = TRUE
             /\ ctl'.sectorsLeft = ctl.sectorsLeft
    <3>1. Consumed(written) /\ port'.wrSectorValid
      BY <1>2, <1>3, <2>3, NextTaken
    <3>2. PICK n \in Int : n = written
      BY <1>2, <2>3 DEF Goes
    <3>3. Consumed(n + 1)'
      <4>1. Consumed(n)
        BY <3>1, <3>2
      <4> QED
        BY <2>3, <3>1, <4>1, Conserved
    <3> QED
      BY <1>2, <2>3, <3>2, <3>3 DEF Consumed
  <2>4. ctl.mcState \notin WaitsForData
    BY <1>2, <1>3 DEF Located, Accepted
  <2> QED
    BY <1>2, <1>3, <2>1, <2>2, <2>3, <2>4 DEF InSector, Goes
<1>4. ASSUME ctl'.mcState = "WRITE_DONE"
      PROVE  ~ctl'.wrSectorAck /\ (~ctl'.forceMultiBlock => Consumed(written)')
  <2>1. ~ctl'.wrSectorAck
    BY <1>4 DEF Goes
  <2>2. ASSUME ~ctl.forceMultiBlock
        PROVE  Consumed(written') /\ written' \in Int
    <3>1. CASE ctl.mcState = "WRITE_DAT" /\ ctl'.sectorsLeft = ctl.sectorsLeft - 1
      <4>1. Consumed(written + 1)
        BY <2>2, <3>1 DEF Announced, InSector
      <4>2. written' = written + 1 /\ written' \in Int
        BY <1>2, <3>1 DEF Goes, InSector
      <4> QED
        BY <4>1, <4>2
    <3>2. CASE ctl.mcState = "WRITE_DONE" /\ SameSector
      BY <1>2, <2>2, <3>2 DEF Announced, Goes
    <3> QED
      BY <1>4, <3>1, <3>2 DEF Goes
  <2>3. ASSUME ~ctl.forceMultiBlock PROVE Consumed(written)'
    <3>1. PICK n \in Int : n = written'
      BY <2>2, <2>3
    <3>2. Consumed(n)
      BY <2>2, <2>3, <3>1
    <3>3. Consumed(n)'
      BY <2>1, <3>2, Conserved
    <3> QED
      BY <3>1, <3>3 DEF Consumed
  <2> QED
    BY <1>2, <2>1, <2>3
<1> QED
  BY <1>1, <1>3, <1>4

LEMMA ArrivedInTime ==
    ASSUME WInv, Goes, Accepted, Clean, InSector'
    PROVE  Arrived(written)'
<1> USE DEF WInv
<1>1. /\ written' = requested.count - ctl'.sectorsLeft
      /\ written = requested.count - ctl.sectorsLeft
  BY DEF written, Goes
<1>2. written' < received /\ written' \in Int
  <2>1. CASE FirstSector /\ ctl.wrSectorValidD
    <3>1. NotBegun /\ ~port.cmdValid
      BY <2>1 DEF NotBegun, Goes
    <3>2. received >= 1
      BY <2>1, <3>1, FirstTaken
    <3> QED
      BY <1>1, <2>1, <3>2 DEF Goes
  <2>2. CASE ctl.mcState \in WaitsForData /\ ctl.wrSectorValidD /\ SameSector
    <3>1. NotBegun /\ ~port.cmdValid
      BY <2>2 DEF NotBegun, Goes
    <3>2. received >= 1 /\ written = 0
      BY <2>2, <3>1, FirstTaken DEF Located, Accepted
    <3> QED
      BY <1>1, <2>2, <3>2 DEF Goes
  <2>3. CASE InSector /\ SameSector
    <3>1. Arrived(written) /\ written' = written
      BY <1>1, <2>3 DEF Announced
    <3>2. written \in Int
      BY <1>1, <2>3 DEF Goes
    <3> QED
      BY <3>1, <3>2 DEF Arrived
  <2>4. CASE /\ ctl.mcState = "WRITE_DONE" /\ port.wrSectorValid /\ ctl.sectorsLeft # 0
             /\ ctl'.sectorsLeft = ctl.sectorsLeft
    <3>1. ~ctl.forceMultiBlock
      BY <2>4, OneIsAll
    <3>2. written < received
      BY <2>4, <3>1, NextTaken
    <3>3. requested.count \in Nat /\ ctl.sectorsLeft \in Nat
      BY <2>4 DEF Goes
    <3> QED
      BY <1>1, <2>4, <3>2, <3>3
  <2> QED
    BY <2>1, <2>2, <2>3, <2>4 DEF InSector, Goes
<1>3. PICK n \in Int : n = written'
  BY <1>2
<1>4. Arrived(n)'
  BY <1>2, <1>3, ArrivesNext
<1> QED
  BY <1>3, <1>4 DEF Arrived

LEMMA AnnouncedStays ==
    ASSUME WInv, Goes
    PROVE  Announced'
<1>1. CASE Accepted
  <2>1. ASSUME NotBegun', ctl'.wrSectorValidD PROVE port'.wrSectorValid
    <3>1. NotBegun /\ port.wrSectorValid
      BY <2>1 DEF NotBegun, Goes
    <3>2. ~ctl.wrSectorAck
      BY <1>1, <3>1 DEF WInv, Announced
    <3> QED
      BY <3>1, <3>2 DEF Goes, Supplies
  <2>2. Clean' /\ InSector' => Arrived(written)'
    BY <1>1, ArrivedInTime DEF Goes
  <2> QED
    BY <1>1, <2>1, <2>2, ConsumedStays DEF Announced
<1>2. CASE ~Accepted
  BY <1>2 DEF Announced, Goes
<1> QED
  BY <1>1, <1>2

LEMMA LocatedStays ==
    ASSUME WInv, Goes
    PROVE  Located'
<1> USE DEF WInv
<1>1. /\ written' = requested.count - ctl'.sectorsLeft
      /\ written = requested.count - ctl.sectorsLeft
      /\ requested'.count = requested.count /\ requested.count \in Nat
  BY DEF written, Goes
<1>2. Writing /\ (ctl'.forceMultiBlock <=> ctl.forceMultiBlock)
  BY DEF Goes
<1>3. FirstSector => Accepted
  BY <1>2 DEF Accepted, Goes
<1>4. ctl'.mcState \in WaitsForData => ctl'.forceMultiBlock
  BY <1>2 DEF Located, Goes
<1>5. ASSUME ctl'.mcState \in WaitsForData \union {"WRITE_CMD"}
      PROVE  Accepted /\ written' = 0 /\ ctl'.emmcBank = 0
  <2>1. CASE FirstSector
    BY <1>1, <1>3, <2>1 DEF Goes
  <2>2. CASE ctl.mcState \in WaitsForData \union {"WRITE_CMD"} /\ SameSector
    BY <1>1, <1>2, <2>2 DEF Located, InSector
  <2> QED
    BY <1>5, <2>1, <2>2 DEF Goes
<1>6. ASSUME ctl'.mcState = "WRITE_DAT"
      PROVE  /\ Accepted
             /\ written' \in 0..requested.count - 1 /\ ctl'.emmcBank = written'
  <2>1. CASE ctl.mcState = "WRITE_CMD" /\ SameSector
    <3>1. Accepted /\ written = 0 /\ ctl.emmcBank = 0
      BY <1>2, <2>1 DEF Located, InSector
    <3>2. requested.count \in 1..FifoBanks
      BY <3>1 DEF Accepted
    <3> QED
      BY <1>1, <2>1, <3>1, <3>2
  <2>2. CASE ctl.mcState = "WRITE_DAT" /\ SameSector
    BY <1>1, <1>2, <2>2 DEF Located, InSector
  <2>3. CASE /\ ctl.mcState = "WRITE_DONE" /\ ctl.sectorsLeft # 0
             /\ ctl'.sectorsLeft = ctl.sectorsLeft
             /\ ctl'.emmcBank = (ctl.emmcBank + 1) % FifoBanks
    <3>1. Accepted /\ written \in 1..requested.count /\ ctl.emmcBank = written - 1
      BY <1>2, <2>3 DEF Located
    <3>2. ctl.sectorsLeft \in Nat \ {0}
      BY <2>3 DEF Goes
    <3>3. written < requested.count /\ written \in Nat /\ written - 1 + 1 = written
      BY <1>1, <3>1, <3>2
    <3>4. written % FifoBanks = written
      <4>1. requested.count <= FifoBanks /\ FifoBanks \in Nat
        BY <3>1, ControllerAssumption DEF Accepted
      <4> QED
        BY <1>1, <3>3, <4>1
    <3> QED
      BY <1>1, <2>3, <3>1, <3>3, <3>4
  <2> QED
    BY <1>6, <2>1, <2>2, <2>3 DEF Goes
<1>7. ASSUME ctl'.mcState = "WRITE_DONE"
      PROVE  /\ Accepted
             /\ written' \in 1..requested.count /\ ctl'.emmcBank = written' - 1
  <2>1. CASE /\ ctl.mcState = "WRITE_DAT" /\ ctl'.sectorsLeft = ctl.sectorsLeft - 1
             /\ ctl'.emmcBank = ctl.emmcBank
    <3>1. /\ Accepted /\ written \in 0..requested.count - 1 /\ ctl.emmcBank = written
          /\ ctl.sectorsLeft \in Nat
      BY <1>2, <2>1 DEF Located, InSector, Goes
    <3>2. written' = written + 1
      BY <1>1, <2>1, <3>1
    <3> QED
      BY <1>1, <2>1, <3>1, <3>2
  <2>2. CASE ctl.mcState = "WRITE_DONE" /\ SameSector
    BY <1>1, <1>2, <2>2 DEF Located
  <2> QED
    BY <1>7, <2>1, <2>2 DEF Goes
<1>8. Stops' => Accepted
  BY <1>2 DEF Stops, Located, Goes
<1>9. ASSUME InError', Clean PROVE ctl'.respStatus = "EMMC_ERR"
  <2>1. ASSUME ctl.mcState = "WRITE_DONE", ctl.sectorsLeft # 0, UartMayStall PROVE FALSE
    <3>1. Accepted
      BY <1>2, <2>1 DEF Located
    <3> QED
      BY <1>9, <2>1, <3>1, OneIsAll
  <2> QED
    BY <1>2, <1>9, <2>1 DEF Located, Goes
<1> QED
  BY <1>1, <1>4, <1>5, <1>6, <1>7, <1>8, <1>9 DEF Located, InSector, Goes

-----------------------------------------------------------------------------
(* What the card keeps of a write, edge by edge.                            *)

SameStored == card'.base = card.base /\ card'.stored = card.stored

LEMMA RestKeeps == ASSUME CardThere, CardWaits PROVE SameStored
BY DEF CardThere, CardFields, CardWaits, Waits, BlockMoved, SameStored

\* CMD12 ends the transfer, and leaves what was stored.
LEMMA StopKeeps ==
    ASSUME CardThere, cmd.index = 12, CmdAnswered \/ CmdIllegal \/ CmdFault
    PROVE  SameStored
<1> USE DEF CardThere, CardFields, SameStored
<1>1. /\ DOMAIN Settled(card, 12) = DOMAIN card
      /\ Settled(card, 12).base = card.base /\ Settled(card, 12).stored = card.stored
  BY DEF Settled
<1>2. /\ DOMAIN Executed(card, 12, cmd.arg) = DOMAIN card
      /\ Executed(card, 12, cmd.arg).base = card.base
      /\ Executed(card, 12, cmd.arg).stored = card.stored
  <2>1. Executed(card, 12, cmd.arg) =
           [Settled(card, 12) EXCEPT !.xfer = "tran", !.blk = 0, !.idle = 0]
    BY ExecutedStop
  <2> QED
    BY <1>1, <2>1
<1>3. Rejected(card).base = card.base /\ Rejected(card).stored = card.stored
  BY DEF Rejected
<1>4. LET c == [Executed(card, 12, cmd.arg) EXCEPT !.stuck = TRUE]
      IN  c.base = card.base /\ c.stored = card.stored
  BY <1>2
<1>5. CASE CmdAnswered \/ CmdIllegal
  BY <1>2, <1>3, <1>5 DEF CmdAnswered, CmdIllegal
<1>6. CASE CmdFault
  BY <1>2, <1>3, <1>4, <1>6 DEF CmdFault
<1> QED
  BY <1>5, <1>6

\* A write command that is answered without an error has started the transfer.
LEMMA WriteReports ==
    ASSUME CardThere, CmdFields \subseteq DOMAIN cmd, cmd.respExp, cmd.index \in {24, 25},
           CmdAnswered \/ CmdIllegal \/ CmdFault, ~cmd'.error, ~cmd'.device
    PROVE  card'.base = cmd.arg.value /\ card'.stored = <<>>
<1> USE DEF CmdFields
<1>1. \A e, d : CmdReport(e, d) => (cmd'.error <=> e) /\ (cmd'.device <=> d)
  BY DEF CmdReport
<1>2. ~CmdIllegal
  BY <1>1 DEF CmdIllegal
<1>3. ~CmdFault
  <2>1. CmdReport(TRUE, cmd.device) \/ CmdReport(TRUE, card.errPending) => cmd'.error
    BY DEF CmdReport
  <2>2. CmdReport(FALSE, cmd.index # 6 \/ card.errPending) =>
           cmd'.device = (cmd.index # 6 \/ card.errPending)
    BY DEF CmdReport
  <2>3. cmd.index # 6 /\ cmd.index \notin BusyIndexes
    BY DEF BusyIndexes
  <2> QED
    BY <2>1, <2>2, <2>3 DEF CmdFault
<1>4. card' = Executed(card, cmd.index, cmd.arg)
  BY <1>2, <1>3 DEF CmdAnswered
<1>5. CardFields \subseteq DOMAIN Settled(card, cmd.index)
  BY SettledFields DEF CardThere
<1>6. card' = Transfer(Settled(card, cmd.index), "rcv", cmd.arg.value,
                       cmd.index = 25 /\ ~card.quota)
  BY <1>4, ExecutedWrite
<1> QED
  BY <1>5, <1>6 DEF Transfer, CardFields

LEMMA BlockIsAppended ==
    ASSUME CardThere, NEW b
    PROVE  /\ BlockStored(card, b).base = card.base
           /\ BlockStored(card, b).stored = Append(card.stored, b)
<1> USE DEF CardThere, CardFields
<1>1. /\ DOMAIN BlockMoved(card) = DOMAIN card
      /\ BlockMoved(card).base = card.base /\ BlockMoved(card).stored = card.stored
  BY DEF BlockMoved
<1> QED
  BY <1>1 DEF BlockStored

\* One sector more of a sequence of sectors.
LEMMA OneMore ==
    ASSUME NEW n \in Nat
    PROVE  Append([i \in 1..n |-> <<sector(i - 1)>>], <<sector(n)>>)
              = [i \in 1..n + 1 |-> <<sector(i - 1)>>]
<1> DEFINE s == [i \in 1..n |-> <<sector(i - 1)>>]
           t == [i \in 1..n + 1 |-> <<sector(i - 1)>>]
           D == {<<sector(i - 1)>> : i \in 1..n + 1}
<1>1. /\ \A i \in 1..n + 1 : <<sector(i - 1)>> \in D
      /\ 1..n \subseteq 1..n + 1
  OBVIOUS
<1>2. /\ n + 1 \in 1..n + 1 /\ n + 1 - 1 = n
      /\ \A i \in 1..n + 1 : i \in 1..n \/ i = n + 1
  OBVIOUS
<1> HIDE DEF D
<1>3. s \in [1..n -> D] /\ t \in [1..n + 1 -> D]
  BY <1>1
<1>4. s \in Seq(D) /\ t \in Seq(D) /\ n + 1 \in Nat
  BY <1>3, SeqDef
<1>5. Len(s) = n /\ Len(t) = n + 1
  BY <1>3, <1>4, LenProperties
<1>6. <<sector(n)>> \in D /\ t[n + 1] = <<sector(n)>>
  BY <1>1, <1>2
<1>7. \A i \in 1..n : s[i] = t[i]
  BY <1>1
<1> HIDE DEF s, t
<1>8. /\ Append(s, <<sector(n)>>) \in Seq(D) /\ Len(Append(s, <<sector(n)>>)) = n + 1
      /\ \A i \in 1..n : Append(s, <<sector(n)>>)[i] = s[i]
      /\ Append(s, <<sector(n)>>)[n + 1] = <<sector(n)>>
  BY <1>4, <1>5, <1>6, AppendProperties
<1>9. Append(s, <<sector(n)>>) = t
  <2>1. \A i \in 1..n + 1 : Append(s, <<sector(n)>>)[i] = t[i]
    BY <1>2, <1>6, <1>7, <1>8
  <2> HIDE DEF s, t
  <2> QED
    BY <1>4, <1>5, <1>8, <2>1, SeqEqual
<1> QED
  BY <1>9 DEF s, t

\* Between the blocks of a write the card keeps what it has.
LEMMA StaysStored ==
    ASSUME WInv, Next,
           \/ ctl.mcState \in {"WRITE_DONE", "STOP_CMD", "STOP_WAIT"}
           \/ ctl.mcState = "WRITE_CMD" /\ cmd.done
           \/ ctl.mcState = "WRITE_DAT" /\ (dat.done \/ ~dat'.done)
    PROVE  SameStored
<1> USE DEF WInv, SInv, CInv, AInv
<1>1. /\ CardThere /\ IInv /\ EngineEdge /\ EnginesTyped
      /\ dat.st = "wr" => ctl.mcState = "WRITE_DAT" /\ ~dat.done
      /\ dat.st = "rd" => ctl.mcState \in {"READ_DAT", "EXT_CSD_DAT"}
      /\ dat.st \in {"idle", "rd", "wr"}
      /\ cmd.busy => ctl.mcState \in CmdStates /\ ~cmd.done
      /\ ini.st = "run" => ctl.mcState = "INIT"
  BY DEF IInv, Next, ControllerEdge, EnginesTyped, CommandOwned, DataOwned, InitOwned, ReadStates
<1>2. AtRest => SameStored
  BY <1>1, RestKeeps DEF AtRest
<1>3. CASE ctl.mcState \in {"WRITE_DONE", "STOP_WAIT"} \/ (ctl.mcState = "WRITE_CMD" /\ cmd.done)
  BY <1>1, <1>2, <1>3, QuietEdge
<1>4. CASE ctl.mcState = "STOP_CMD"
  <2>1. DatIdle /\ ini.st # "run"
    BY <1>1, <1>4 DEF DatIdle
  <2>2. CASE CmdAnswered \/ CmdIllegal \/ CmdFault
    <3>1. cmd.busy
      BY <2>2 DEF CmdAnswered, CmdIllegal, CmdFault, CmdRuns
    <3>2. cmd.index = 12
      BY <1>4, <3>1 DEF CmdIs
    <3> QED
      BY <1>1, <2>2, <3>2, StopKeeps
  <2> QED
    BY <1>1, <1>2, <2>1, <2>2, CommandAlone
<1>5. CASE ctl.mcState = "WRITE_DAT" /\ (dat.done \/ ~dat'.done)
  <2>1. CASE DatIdle
    BY <1>1, <1>2, <1>5, <2>1, QuietEdge
  <2>2. CASE ~DatIdle
    <3>1. dat.st = "wr" /\ ~dat'.done /\ ~cmd.busy /\ ini.st # "run"
      BY <1>1, <1>5, <2>2 DEF DatIdle
    <3>2. ~DatBlock /\ ~DatTimeout
      BY <1>1, <3>1 DEF DatBlock, DatTimeout, DatReport, EnginesTyped
    <3>3. card' = card
      BY <1>1, <2>2, <3>1, <3>2
         DEF EngineEdge, CmdAnswered, CmdIllegal, CmdFault, CmdRuns, DatByte, IniEnds, CardWaits
    <3> QED
      BY <3>3 DEF SameStored
  <2> QED
    BY <2>1, <2>2
<1> QED
  BY <1>3, <1>4, <1>5

LEMMA StartStored ==
    ASSUME WInv, Goes, Next, ctl'.mcState = "WRITE_CMD", CommandGood'
    PROVE  Holds(card', 0)
<1> USE DEF WInv, SInv, CInv
<1>1. cmd.busy /\ (CmdAnswered \/ CmdIllegal \/ CmdFault) /\ ctl.mcState = "WRITE_CMD"
  BY Reports DEF AInv, IInv, CourseFieldsThere, Next, ControllerEdge, Goes
<1>2. cmd.index \in {24, 25} /\ cmd.arg = Plain(port.cmdLba) /\ cmd.respExp
  BY <1>1 DEF CmdIs
<1>3. card'.base = cmd.arg.value /\ card'.stored = <<>>
  BY <1>1, <1>2, WriteReports DEF CourseFieldsThere
<1>4. port.cmdLba = requested.lba
  BY DEF PortAsks, LbaLines, Goes
<1>5. Plain(port.cmdLba).value = port.cmdLba
  BY DEF Plain
<1>6. [i \in 1..0 |-> <<sector(i - 1)>>] = <<>>
  OBVIOUS
<1> QED
  BY <1>2, <1>3, <1>4, <1>5, <1>6 DEF Holds

\* A byte goes to the card from the sector's bank.
LEMMA SentStays ==
    ASSUME WInv, Goes, Next, Clean, dat'.st = "wr", ctl'.mcState = "WRITE_DAT"
    PROVE  /\ dat'.pos = 0 => dat'.block = <<>>
           /\ dat'.pos = 1 => dat'.block = <<sector(written)>> /\ written' = written
<1> USE DEF WInv, SInv, CInv, AInv, WriteThere
<1>1. /\ EngineEdge /\ EnginesTyped
      /\ dat.st = "wr" => ctl.mcState = "WRITE_DAT" /\ ~dat.done
      /\ dat.st \in {"idle", "rd", "wr"} /\ "pos" \in DOMAIN dat /\ "st" \in DOMAIN dat
  BY DEF IInv, Next, ControllerEdge, EnginesTyped, DataOwned
<1>2. CASE dat.st # "wr"
  <2>1. DatQuiet /\ DatIdle
    BY <1>1, <1>2 DEF EngineEdge, DatByte, DatBlock, DatTimeout, DatReport, DatQuiet, DatIdle
  <2> QED
    BY <1>1, <2>1 DEF DatQuiet
<1>3. CASE dat.st = "wr"
  <2>1. ctl.mcState = "WRITE_DAT" /\ ~dat.done /\ written' = written /\ ~DatIdle
    BY <1>1, <1>3 DEF written, Goes, DatIdle
  <2>2. dat.pos = 0 => dat.block = <<>>
    BY <1>3 DEF Stored, Sent, Goes
  <2>3. dat.pos = 1 => dat.block = <<sector(written)>>
    BY <1>3 DEF Stored, Sent, Goes
  <2>4. CASE DatByte
    <3>1. dat.pos = 0
      BY <1>1, <2>4, BenchAssumption DEF DatByte, EnginesTyped
    <3>2. dat'.pos = 1 /\ dat'.block = Append(dat.block, wrBuf[ctl.emmcBank][0])
      <4>1. dat' = [dat EXCEPT !.pos = @ + 1,
                               !.block = Append(@, wrBuf[ctl.emmcBank][dat.pos])]
        BY <1>3, <2>4 DEF DatByte
      <4>2. {"pos", "block"} \subseteq DOMAIN dat
        BY <1>1
      <4> QED
        BY <3>1, <4>1, <4>2
    <3>3. Accepted /\ written \in 0..requested.count - 1 /\ ctl.emmcBank = written
      BY <2>1 DEF Located, InSector, Goes
    <3>4. Arrived(written) /\ written \in 0..FifoBanks - 1
      <4>1. Arrived(written)
        BY <2>1, <3>3 DEF Announced, InSector
      <4>2. requested.count \in Nat /\ requested.count <= FifoBanks /\ FifoBanks \in Nat
        BY <3>3, ControllerAssumption DEF Accepted
      <4> QED
        BY <3>3, <4>1, <4>2
    <3>5. wrBuf[ctl.emmcBank][0] = sector(written)
      BY <3>3, <3>4 DEF Buffered
    <3>6. Append(<<>>, sector(written)) = <<sector(written)>>
      OBVIOUS
    <3>7. dat'.block = <<sector(written)>>
      BY <2>2, <3>1, <3>2, <3>5, <3>6, Zenon
    <3> QED
      BY <2>1, <3>2, <3>7
  <2>5. CASE dat' = dat
    BY <2>1, <2>2, <2>3, <2>5
  <2>6. DatByte \/ dat' = dat
    BY <1>1, <1>3, <2>1 DEF EngineEdge, DatBlock, DatTimeout, DatReport, DatQuiet
  <2> QED
    BY <2>4, <2>5, <2>6
<1> QED
  BY <1>2, <1>3

\* A block the card has taken is the next sector.
LEMMA BlockStays ==
    ASSUME WInv, Goes, Next, Clean, dat'.done, ctl'.mcState = "WRITE_DAT", ~dat'.crcErr
    PROVE  written' = written /\ Holds(card', written + 1)
<1> USE DEF WInv, SInv, CInv, AInv, WriteThere
<1>1. ctl.mcState = "WRITE_DAT" /\ ~dat.done
  BY DEF Goes
<1>2. /\ EngineEdge /\ EnginesTyped /\ CardThere /\ {"pos", "st", "done", "crcErr"} \subseteq DOMAIN dat
      /\ dat.st = "wr"
  <2>1. dat'.done => dat.st # "idle"
    BY EnginesEdge DEF IInv, Next, ControllerEdge, DatMoves
  <2> QED
    BY <1>1, <2>1 DEF IInv, Next, ControllerEdge, EnginesTyped, DataOwned, ReadStates
<1>3. written' = written /\ written \in Nat
  <2>1. written' = written /\ ctl.mcState = "WRITE_DAT"
    BY <1>1 DEF written, Goes
  <2> QED
    BY <2>1 DEF Located, InSector, Goes
<1>4. ~DatByte /\ ~DatTimeout /\ ~(DatQuiet /\ ~DatIdle)
  BY <1>1, <1>2 DEF DatByte, DatTimeout, DatReport, DatQuiet
<1>5. DatBlock
  BY <1>2, <1>4 DEF EngineEdge, DatIdle
<1>6. card' = BlockStored(card, dat.block) /\ dat.pos = 1
  BY <1>2, <1>5, BenchAssumption DEF DatBlock, DatReport
<1>7. dat.block = <<sector(written)>> /\ Held(written)
  BY <1>1, <1>2, <1>6 DEF Stored, Sent, Goes
<1>8. card'.base = card.base /\ card'.stored = Append(card.stored, <<sector(written)>>)
  BY <1>2, <1>6, <1>7, BlockIsAppended
<1>9. card'.stored = [i \in 1..written + 1 |-> <<sector(i - 1)>>]
  <2>1. card.stored = [i \in 1..written |-> <<sector(i - 1)>>]
    BY <1>7 DEF Held, Holds
  <2> QED
    BY <1>3, <1>8, <2>1, OneMore
<1> QED
  BY <1>3, <1>7, <1>8, <1>9 DEF Held, Holds

\* What is stored for the next state, from facts about the next card.
LEMMA HeldNext ==
    ASSUME Goes
    PROVE  /\ Holds(card', 0) => Held(0)'
           /\ Holds(card', written') => Held(written)'
           /\ Holds(card', written' + 1) => Held(written + 1)'
           /\ Holds(card', requested.count) => Held(requested.count)'
<1>1. requested' = requested /\ job'.n = job.n
  BY DEF Goes, Supplies
<1> QED
  BY <1>1 DEF Held, Holds, sector

LEMMA StoredStays ==
    ASSUME WInv, SInv', Goes, Next
    PROVE  Stored'
<1> USE DEF WInv
<1>1. SUFFICES ASSUME Clean PROVE Stored'
  BY DEF Stored, Goes
<1>2. /\ written' = requested.count - ctl'.sectorsLeft
      /\ written = requested.count - ctl.sectorsLeft
      /\ requested' = requested /\ requested.count \in Nat
  BY DEF written, Goes
<1>3. \A n : Held(n) /\ SameStored => Holds(card', n)
  BY DEF Held, Holds, SameStored
<1>4. Sent'
  <2>1. ASSUME dat'.st = "wr" PROVE ctl'.mcState = "WRITE_DAT"
    BY <2>1 DEF SInv, CInv, AInv, IInv, DataOwned
  <2>2. (sector(written))' = WriteByte(job'.n, written') /\ job'.n = job.n
    BY DEF sector, Goes, Supplies
  <2> QED
    BY <1>1, <2>1, <2>2, SentStays DEF Sent, sector
<1>5. ctl'.mcState = "WRITE_CMD" /\ CommandGood' => Held(0)'
  BY StartStored, HeldNext
<1>6. ASSUME ctl'.mcState = "WRITE_DAT", ~dat'.done PROVE Held(written)'
  <2>1. Held(written') /\ SameStored
    <3>1. CASE ctl.mcState = "WRITE_CMD" /\ CommandGood /\ SameSector
      <4>1. Held(0) /\ written = 0 /\ written' = written
        BY <1>1, <1>2, <3>1 DEF Stored, Located, Goes
      <4> QED
        BY <3>1, <4>1, StaysStored
    <3>2. CASE ctl.mcState = "WRITE_DAT" /\ ~dat.done /\ SameSector
      <4>1. Held(written) /\ written' = written
        BY <1>1, <1>2, <3>2 DEF Stored, Goes
      <4> QED
        BY <1>6, <3>2, <4>1, StaysStored
    <3>3. CASE ctl.mcState = "WRITE_DONE" /\ ctl'.sectorsLeft = ctl.sectorsLeft
      <4>1. Held(written) /\ written' = written
        BY <1>1, <1>2, <3>3 DEF Stored, Goes
      <4> QED
        BY <3>3, <4>1, StaysStored
    <3> QED
      BY <1>6, <3>1, <3>2, <3>3 DEF Goes
  <2> QED
    BY <1>3, <2>1, HeldNext
<1>7. ASSUME ctl'.mcState = "WRITE_DAT", dat'.done, ~dat'.crcErr PROVE Held(written + 1)'
  <2>1. written' = written /\ Holds(card', written + 1)
    BY <1>1, <1>7, BlockStays
  <2> QED
    BY <2>1, HeldNext
<1>8. ASSUME ctl'.mcState = "WRITE_DONE" PROVE Held(written)'
  <2>1. Held(written') /\ SameStored
    <3>1. CASE /\ ctl.mcState = "WRITE_DAT" /\ dat.done /\ ~dat.crcErr
               /\ ctl'.sectorsLeft = ctl.sectorsLeft - 1
      <4>1. Held(written + 1) /\ written' = written + 1
        BY <1>1, <1>2, <3>1 DEF Stored, Goes, InSector
      <4> QED
        BY <3>1, <4>1, StaysStored
    <3>2. CASE ctl.mcState = "WRITE_DONE" /\ SameSector
      <4>1. Held(written) /\ written' = written
        BY <1>1, <1>2, <3>2 DEF Stored, Goes
      <4> QED
        BY <3>2, <4>1, StaysStored
    <3> QED
      BY <1>8, <3>1, <3>2 DEF Goes
  <2> QED
    BY <1>3, <2>1, HeldNext
<1>9. ASSUME Stops \/ LastWritten PROVE Accepted /\ Held(requested.count)'
  <2>1. Accepted
    BY <1>9 DEF Located, Stops, Goes
  <2>2. Held(requested.count) /\ SameStored
    <3>1. CASE Stops
      BY <1>1, <3>1, StaysStored DEF Stored, Stops, Goes
    <3>2. CASE LastWritten
      <4>1. Held(written) /\ written = requested.count
        BY <1>1, <1>2, <3>2 DEF Stored, Goes
      <4> QED
        BY <3>2, <4>1, StaysStored
    <3> QED
      BY <1>9, <3>1, <3>2
  <2> QED
    BY <1>3, <2>1, <2>2, HeldNext
<1>10. Stops' => Held(requested.count)'
  BY <1>9 DEF Stops, Goes
<1>11. ASSUME ctl'.respValid, ctl'.respStatus = "OK"
       PROVE  Accepted' /\ Held(requested.count)'
  <2>1. ~(InError /\ ctl.respStatus = "OK")
    BY <1>1 DEF Located, Goes
  <2>2. Stops \/ LastWritten
    BY <1>11, <2>1 DEF Goes, Stops
  <2> QED
    BY <1>9, <2>2 DEF Goes
<1> QED
  BY <1>4, <1>5, <1>6, <1>7, <1>8, <1>10, <1>11 DEF Stored

-----------------------------------------------------------------------------
(* The invariant of a write.                                                *)

LEMMA WriteThereStays ==
    ASSUME WriteThere, EngineEdge, BufferEdge, DOMAIN ctl' = DOMAIN ctl,
           BridgeFields \subseteq DOMAIN port', {"n", "req", "open"} \subseteq DOMAIN job',
           port'.wrSectorsReady \in Nat, port'.wrSectorsLeft \in Nat,
           port'.uartWrBank \in 0..FifoBanks - 1, port'.uartWrAddr = port.uartWrAddr
    PROVE  WriteThere'
<1> USE DEF WriteThere
<1>1. {"crcErr", "block"} \subseteq DOMAIN dat'
  BY DEF EngineEdge, DatQuiet, DatByte, DatBlock, DatTimeout, DatReport
<1>2. DOMAIN wrBuf' = 0..FifoBanks - 1 /\ \A b \in 0..FifoBanks - 1 : 0 \in DOMAIN wrBuf'[b]
  BY DEF BufferEdge
<1> QED
  BY <1>1, <1>2

LEMMA WriteInit == ASSUME Init PROVE WInv
<1> USE DEF Init, CtlInit, ResetRegisters
<1>1. SInv
  BY SwitchInit
<1>2. WriteThere
  <2>1. 0 \in 0..FifoBanks - 1
    BY ControllerAssumption
  <2>2. 0 \in 0..SectorBytes - 1
    BY BenchAssumption
  <2> QED
    BY <2>1, <2>2 DEF WriteThere, BridgeFields
<1>3. ~Writing /\ dat.st = "idle"
  OBVIOUS
<1>4. Buffered /\ Announced /\ Located /\ Stored
  BY <1>3 DEF Buffered, Announced, Located, Stored, Accepted
<1> QED
  BY <1>1, <1>2, <1>4 DEF WInv

\* A new request: nothing is taken, and of a write at most one sector has come.
LEMMA WriteAsked ==
    ASSUME BootSucceeds, WInv, SInv', Next, NEW r \in Requests, SendRequest(r)
    PROVE  WInv'
<1> USE DEF WInv
<1>1. /\ Orders /\ BridgeFields \subseteq DOMAIN port'
      /\ {"n", "req", "open"} \subseteq DOMAIN job'
  BY PortOrders DEF SInv, CInv, CourseFieldsThere
<1>2. /\ AInv /\ AnswersOnce /\ EngineEdge /\ BufferEdge /\ CtlEdge
      /\ ctl.mcState = "READY" /\ ~ctl.cmdValidD
  <2>1. ~job.open
    BY DEF SendRequest, HostFree
  <2> QED
    BY <2>1, AnswerEdge
       DEF SInv, CInv, AInv, AnswerLatched, HostWaits, Pending, Next, ControllerEdge
<1>3. ctl'.mcState = "READY" /\ ~ctl'.respValid /\ ~ctl'.wrSectorAck
  <2>1. ctl'.mcState = "READY" /\ ~ctl'.respValid
    BY <1>2 DEF AnswersOnce, StaysReady, AnswersAtEnd, Working, Booting
  <2>2. ~ctl'.wrSectorAck
    BY <1>2, WritesEdge DEF AInv, IInv, Typed, WriteThere
  <2> QED
    BY <2>1, <2>2
<1>4. /\ port'.cmdId = requested'.id
      /\ port'.cmdId = "WRITE_SECTOR" => requested'.count \in Nat
  BY <1>1, ControllerAssumption DEF SInv, CInv, PortAsks, RequestFits
<1>5. WriteThere'
  <2>1. port'.wrSectorsLeft \in Nat
    BY <1>1, <1>4 DEF Orders, WriteThere, requested
  <2>2. DOMAIN ctl' = DOMAIN ctl
    BY CourseEdge DEF Next, ControllerEdge, SInv, CInv, CourseFieldsThere, CtlFields, AInv,
                      AnswerTyped
  <2> QED
    BY <1>1, <1>2, <2>1, <2>2, WriteThereStays DEF Orders
<1>6. Accepted' =>
             \/ /\ received' = 0 /\ port'.wrSectorValid = FALSE /\ port'.uartWrEn = FALSE
                /\ port'.wrSectorsReady = 0 /\ port'.uartWrBank = FifoBanks - 1
             \/ /\ received' = 1 /\ port'.wrSectorValid = TRUE /\ port'.uartWrEn = TRUE
                /\ port'.wrSectorsReady = 0 /\ port'.uartWrBank = 0
                /\ port'.uartWrData = WriteByte(job'.n, 0)
  <2> HAVE Accepted'
  <2>1. port'.cmdId = "WRITE_SECTOR" /\ requested'.count \in Nat /\ requested'.count > 0
    BY <1>4 DEF Accepted
  <2>2. received' = requested'.count - port'.wrSectorsLeft /\ requested' = job'.req
    BY DEF received, requested
  <2>3. \/ /\ port'.wrSectorsLeft = requested'.count /\ port'.wrSectorsReady = 0
           /\ port'.wrSectorValid = FALSE /\ port'.uartWrEn = FALSE
           /\ port'.uartWrBank = FifoBanks - 1
        \/ /\ port'.wrSectorsLeft = requested'.count - 1
           /\ port'.wrSectorsReady = 0 /\ port'.wrSectorValid = TRUE
           /\ port'.uartWrEn = TRUE /\ port'.uartWrBank = 0
           /\ port'.uartWrData = WriteByte(job'.n, 0)
    <3>1. requested'.count > 0 /\ requested'.count # 0
      BY <2>1
    <3> QED
      BY <1>1, <2>1, <2>2, <3>1 DEF Orders
  <2> DEFINE c == requested'.count
  <2>4. c \in Nat /\ received' = c - port'.wrSectorsLeft /\ c - c = 0 /\ c - (c - 1) = 1
    BY <2>1, <2>2
  <2> HIDE DEF c
  <2> QED
    BY <2>3, <2>4 DEF c
<1>7. Buffered'
  <2>1. SUFFICES ASSUME Accepted' PROVE Buffered'
    BY DEF Buffered
  <2>2. requested'.count \in Nat /\ requested'.count > 0
    BY <1>4, <2>1 DEF Accepted
  <2>3. (sector(received - 1))' = WriteByte(job'.n, received' - 1)
    BY DEF sector
  <2>4. ASSUME NEW n \in 0..FifoBanks - 1 PROVE ~Arrived(n)'
    <3>1. n \in Int /\ n >= 0
      BY ControllerAssumption
    <3>2. ~(n < received' /\ (port'.uartWrEn => n < received' - 1))
      BY <1>6, <2>1, <3>1
    <3> QED
      BY <3>2 DEF Arrived
  <2>5. /\ received' \in 0..requested'.count
        /\ port'.uartWrBank = IF received' = 0 THEN FifoBanks - 1 ELSE received' - 1
        /\ port'.uartWrEn => received' > 0 /\ port'.uartWrData = (sector(received - 1))'
    BY <1>6, <2>1, <2>2, <2>3
  <2> QED
    BY <2>4, <2>5 DEF Buffered
<1>8. Announced'
  <2>1. ASSUME Accepted' PROVE Consumed(0)'
    <3> DEFINE line == One(port'.wrSectorValid /\ ~ctl'.wrSectorAck)
    <3>1. line = received'
      BY <1>3, <1>6, <2>1 DEF One
    <3>2. port'.wrSectorsReady = 0 /\ received' \in Int
      BY <1>6, <2>1
    <3> DEFINE ready == port'.wrSectorsReady
               came == received'
    <3> HIDE DEF line, ready, came
    <3>3. 0 + line + ready = came
      <4>1. line = came /\ ready = 0 /\ came \in Int
        BY <3>1, <3>2 DEF ready, came
      <4> QED
        BY <4>1
    <3> QED
      BY <3>3 DEF Consumed, line, ready, came
  <2> QED
    BY <1>1, <1>3, <2>1 DEF Announced, InSector, Orders
<1>9. Located' /\ Stored'
  <2>1. Located'
    BY <1>3 DEF Located, InSector, Stops
  <2>2. dat'.st # "wr"
    BY <1>3 DEF SInv, CInv, AInv, IInv, DataOwned
  <2>3. Stored'
    BY <1>3, <2>2 DEF Stored, Sent, Stops
  <2> QED
    BY <2>1, <2>3
<1> QED
  BY <1>5, <1>7, <1>8, <1>9

LEMMA WriteTurns ==
    ASSUME BootSucceeds, WInv, SInv', Next, Waiting, Supplies,
           BridgeFields \subseteq DOMAIN port', {"n", "req", "open"} \subseteq DOMAIN job'
    PROVE  WInv'
<1> USE DEF WInv
<1>1. WriteThere'
  <2>1. /\ port'.wrSectorsReady \in Nat /\ port'.wrSectorsLeft \in Nat
        /\ port'.uartWrAddr = port.uartWrAddr
    BY DEF Supplies, Receives, ReceivesNothing, stillReady, raises, One, WriteThere
  <2>2. port'.uartWrBank \in 0..FifoBanks - 1
    BY Banks DEF Supplies, Receives, ReceivesNothing, WriteThere
  <2>3. DOMAIN ctl' = DOMAIN ctl
    BY CourseEdge DEF Next, ControllerEdge, SInv, CInv, CourseFieldsThere, CtlFields, AInv,
                      AnswerTyped
  <2> QED
    BY <2>1, <2>2, <2>3, WriteThereStays DEF Next, ControllerEdge
<1>2. CASE Writing
  <2>1. Goes
    BY <1>2, GoesOn
  <2> QED
    BY <1>1, <2>1, BufferedStays, AnnouncedStays, LocatedStays, StoredStays
<1>3. CASE ~Writing
  <2>1. ~Writing'
    BY <1>3 DEF Waiting
  <2>2. Buffered' /\ Announced' /\ Located' /\ Stored'
    BY <2>1 DEF Buffered, Announced, Located, Stored, Accepted
  <2> QED
    BY <1>1, <2>2
<1> QED
  BY <1>2, <1>3

LEMMA WriteStep == ASSUME BootSucceeds, TransfersFit, WInv, [Next]_vars PROVE WInv'
<1>1. SInv'
  BY SwitchStep DEF WInv
<1>2. CASE Next
  <2>1. \/ /\ Waiting /\ Supplies
           /\ BridgeFields \subseteq DOMAIN port' /\ {"n", "req", "open"} \subseteq DOMAIN job'
        \/ \E r \in Requests : SendRequest(r)
    BY <1>2, PortSupplies DEF WInv, SInv, CInv, CourseFieldsThere, Next
  <2> QED
    BY <1>1, <1>2, <2>1, WriteAsked, WriteTurns
<1>3. CASE UNCHANGED vars
  <2> USE <1>3 DEF vars, ctlVars
  <2>1. WriteThere' /\ Buffered' /\ Announced' /\ Located'
    BY DEF WInv, WriteThere, BridgeFields, Buffered, Announced, Located, Arrived, Consumed,
           NotBegun, InSector, Stops, received, written, sector, Accepted, Clean, requested
  <2>2. Stored'
    BY DEF WInv, Stored, Sent, Held, Holds, Stops, Accepted, Clean, written, sector, requested
  <2> QED
    BY <1>1, <2>1, <2>2 DEF WInv
<1> QED
  BY <1>2, <1>3

(* A write answered OK has stored exactly its own sectors, in order, at its *)
(* own address: whatever the card refuses or loses, no sector is skipped,   *)
(* repeated or sent before it is in the write FIFO.                         *)
THEOREM WritesAreStored == BootSucceeds /\ TransfersFit => (Spec => []WriteStores)
<1>1. SUFFICES ASSUME BootSucceeds, TransfersFit PROVE Spec => []WriteStores
  OBVIOUS
<1>2. WInv /\ [Next]_vars => WInv'
  BY <1>1, WriteStep
<1>3. WInv => WriteStores
  <2>1. ASSUME WInv, Answers({"WRITE_SECTOR"}), ctl.respStatus = "OK", Clean
        PROVE  Held(requested.count)
    <3>1. Writing
      BY <2>1 DEF Answers, WInv, SInv, CInv, PortAsks
    <3> QED
      BY <2>1, <3>1 DEF WInv, Stored, Answers
  <2> QED
    BY <2>1 DEF WriteStores, Held, Holds, sector, Clean
<1> QED
  BY <1>2, <1>3, WriteInit, PTL DEF Spec

=============================================================================
