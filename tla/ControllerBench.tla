--------------------------- MODULE ControllerBench ---------------------------
(***************************************************************************)
(* The controller under the UART bridge it is written for.  The bridge is  *)
(* reduced to what UartBridge.scala shows on its port: one command at a    *)
(* time from a host that waits for each answer, the write FIFO filled      *)
(* sector by sector at the host's pace, a staged read sector taken when    *)
(* the transmitter is free, the response latched and sent after it.        *)
(***************************************************************************)
EXTENDS EmmcController

CONSTANTS
    Requests,   \* what the host may ask, see RequestFields
    MaxJobs     \* bound on the commands of one behaviour

\* busy and resp are the flags of a raw command.  late: the first sector of a
\* write arrives after the command, as in test T33 of sim/tb_emmc_controller.v.
RequestFields == {"id", "lba", "count", "busy", "resp", "late"}

ASSUME BenchAssumption ==
    /\ SectorBytes = 1 /\ MaxJobs \in Nat
    /\ \A r \in Requests : DOMAIN r = RequestFields /\ r.id # "BOOT"

VARIABLES
    uart,   \* the transmit side of the bridge
    job     \* history: the command in progress, the answers and the data it got

vars == <<ctlVars, port, rdSectorAck, uart, job>>

Boot == [id |-> "BOOT", lba |-> 0, count |-> 0]

Init ==
    /\ CtlInit
    /\ port = [cmdValid |-> FALSE, cmdId |-> "BOOT", cmdLba |-> 0, cmdCount |-> 0,
               rawBusy |-> FALSE, rawResp |-> FALSE,
               wrSectorValid |-> FALSE, wrSectorsReady |-> 0, wrSectorsLeft |-> 0,
               uartWrEn |-> FALSE, uartWrBank |-> 0, uartWrAddr |-> 0, uartWrData |-> 0]
    /\ rdSectorAck = FALSE
    /\ uart = [st |-> "idle", sectorsLeft |-> 0, resp |-> "none"]
    /\ job = [n |-> 0, req |-> Boot, open |-> TRUE, answered |-> FALSE, got |-> <<>>,
              status |-> "none"]

-----------------------------------------------------------------------------
(* The receive side: commands and write data. *)

\* Byte 0 of sector k of the n-th command's write data; the others follow.
WriteByte(n, k) == 10 * n + k

\* Pulses fall; a taken sector-valid falls, and rises again for the next sector.
PortCleared ==
    LET raise == port.wrSectorsReady > 0 /\ ~port.wrSectorValid
    IN  [port EXCEPT !.cmdValid = FALSE, !.uartWrEn = FALSE,
                     !.wrSectorValid = raise \/ (@ /\ ~ctl.wrSectorAck),
                     !.wrSectorsReady = IF raise THEN @ - 1 ELSE @]

\* The host has its answer, and has sent all data of its last command.
HostFree == ~job.open /\ uart.st = "idle" /\ uart.resp = "none" /\ port.wrSectorsLeft = 0

\* What the bridge puts on the LBA lines for the request's payload.
LbaLines(r) == CASE r.id \in {"SET_RPMB_MODE", "SET_BUS_WIDTH"} -> r.lba % 2
                 [] r.id = "SET_CLK_DIV"   -> r.lba % 8
                 [] r.id = "SET_PARTITION" -> r.lba % 256
                 [] OTHER -> r.lba

\* A write command reaches the controller with its first sector buffered, except
\* when it comes late: then the bank is set back so that it goes to bank 0.
SendRequest(r) ==
    /\ HostFree /\ job.n < MaxJobs
    /\ LET isWrite == r.id = "WRITE_SECTOR"
           p == [PortCleared EXCEPT !.cmdValid = TRUE, !.cmdId = r.id, !.cmdLba = LbaLines(r),
                                    !.cmdCount = r.count, !.rawBusy = r.busy,
                                    !.rawResp = r.resp]
       IN  port' = IF ~isWrite THEN p
                   ELSE IF r.late
                   THEN [p EXCEPT !.wrSectorValid = FALSE, !.wrSectorsReady = 0,
                                  !.wrSectorsLeft = r.count, !.uartWrBank = FifoBanks - 1]
                   ELSE [p EXCEPT !.wrSectorValid = TRUE, !.wrSectorsReady = 0,
                                  !.wrSectorsLeft = IF r.count = 0 THEN 0 ELSE r.count - 1,
                                  !.uartWrEn = r.count > 0, !.uartWrBank = 0,
                                  !.uartWrData = WriteByte(job.n + 1, 0)]
    /\ job' = [n |-> job.n + 1, req |-> [id |-> r.id, lba |-> r.lba, count |-> r.count],
               open |-> TRUE, answered |-> FALSE, got |-> <<>>, status |-> "none"]
    /\ uart' = [uart EXCEPT !.sectorsLeft = CASE r.id = "READ_SECTOR" -> r.count
                                              [] r.id = "GET_EXT_CSD" -> 1
                                              [] OTHER -> @]
    /\ rdSectorAck' = FALSE

\* Another sector of the write command has been received.
ReceiveSector ==
    /\ port.wrSectorsLeft > 0
    /\ LET bank == (port.uartWrBank + 1) % FifoBanks
       IN  port' = [PortCleared EXCEPT
                       !.wrSectorsReady = @ + 1, !.wrSectorsLeft = @ - 1,
                       !.uartWrEn = TRUE, !.uartWrBank = bank,
                       !.uartWrData = WriteByte(job.n, job.req.count - port.wrSectorsLeft)]

-----------------------------------------------------------------------------
(* The transmit side: staged sectors first, then the response. *)

\* The response pulse is latched until the transmitter sends it.
Latched == IF ctl.respValid THEN ctl.respStatus ELSE uart.resp
JobSeen == [job EXCEPT !.answered = @ \/ ctl.respValid]

TakesSector == uart.st = "idle" /\ ctl.rdSectorReady /\ uart.sectorsLeft > 0

TakeSector ==
    /\ TakesSector
    /\ rdSectorAck' = TRUE
    /\ uart' = [uart EXCEPT !.st = "header", !.sectorsLeft = @ - 1, !.resp = Latched]
    /\ job' = JobSeen

\* The header goes out, then the sector's bytes are read at the UART's pace.
SendHeader ==
    /\ uart.st = "header" /\ ~rdSectorAck
    /\ rdSectorAck' = FALSE
    /\ uart' = [uart EXCEPT !.st = "payload", !.resp = Latched]
    /\ job' = JobSeen

SendPayload ==
    /\ uart.st = "payload"
    /\ rdSectorAck' = FALSE
    /\ uart' = [uart EXCEPT !.st = "idle", !.resp = Latched]
    /\ job' = [JobSeen EXCEPT !.got = Append(@, rdBuf[ctl.uartRdBank % 2][0])]

SendResponse ==
    /\ uart.st = "idle" /\ ~TakesSector /\ uart.resp # "none"
    /\ rdSectorAck' = FALSE
    /\ uart' = [uart EXCEPT !.resp = IF ctl.respValid THEN ctl.respStatus ELSE "none"]
    /\ job' = [JobSeen EXCEPT !.open = FALSE, !.status = uart.resp]

\* The host may start once the controller has booted.
Booted == job.req.id = "BOOT" /\ ctl.cmdReady /\ uart.resp = "none" /\ ~ctl.respValid

TransmitIdle ==
    /\ ~TakesSector /\ (uart.st = "idle" => uart.resp = "none")
    /\ rdSectorAck' = FALSE
    /\ uart' = [uart EXCEPT !.resp = Latched]
    /\ job' = [JobSeen EXCEPT !.open = @ /\ ~Booted]

Transmit == TakeSector \/ SendHeader \/ SendPayload \/ SendResponse \/ TransmitIdle

PortEdge ==
    \/ \E r \in Requests : SendRequest(r)
    \/ ReceiveSector /\ Transmit
    \/ port' = PortCleared /\ Transmit

-----------------------------------------------------------------------------
Next == ControllerEdge /\ PortEdge

(***************************************************************************)
(* The clock ticks forever, and whatever is under way gets done: the CMD   *)
(* engine has a response timeout, the DAT engine two, the init engine a    *)
(* retry limit, the busy polling a 20-bit counter.  The UART side is fair  *)
(* in its sending; it is fair in supplying write data only when it may     *)
(* not stall, and then the watchdogs never fire.                           *)
(***************************************************************************)
Fairness ==
    /\ WF_vars(Next)
    /\ WF_vars(Next /\ cmd.busy /\ ~cmd'.busy)
    /\ WF_vars(Next /\ ~DatIdle /\ dat' # dat)
    /\ WF_vars(Next /\ ini.st = "run" /\ ini'.st # "run")
    /\ WF_vars(Next /\ ctl.mcState \in BusyStates /\ ctl'.mcState # ctl.mcState)
    /\ WF_vars(Next /\ uart.st # "idle" /\ uart'.st # uart.st)
    /\ IF UartMayStall
       THEN WF_vars(Next /\ (WriteWatchdog \/ RpmbWatchdog))
       ELSE WF_vars(Next /\ port'.wrSectorsLeft < port.wrSectorsLeft)

Spec == Init /\ [][Next]_vars
FairSpec == Spec /\ Fairness

-----------------------------------------------------------------------------
(* Properties. *)

TypeOK ==
    /\ ctl.mcState \in McStates
    /\ ctl.emmcBank \in 0..FifoBanks - 1 /\ {ctl.uartRdBank, ctl.uartRdBankNext} \subseteq 0..1
    /\ ctl.respStatus \in {"OK", "CMD_ERR", "EMMC_ERR"}
    /\ dat.st \in {"idle", "rd", "wr"} /\ dat.pos \in 0..SectorBytes
    /\ ini.st \in {"idle", "run"}
    /\ card.xfer \in {"off", "tran", "data", "rcv"}
    /\ faults \in 0..MaxFaults
    /\ uart.st \in {"idle", "header", "payload"}

Transfers == {"READ_SECTOR", "WRITE_SECTOR"}
requested == job.req
Answers(ids) == ctl.respValid /\ requested.id \in ids

(* The command engine works only while the FSM waits for it, and the data   *)
(* engine only in its states: no command is restarted after its end, the    *)
(* spurious restart the start guard (docs/fpga_internals.md:19) prevents.   *)
EngineOwned ==
    /\ cmd.busy => ctl.mcState \in CmdStates
    /\ dat.st = "rd" => ctl.mcState \in {"READ_DAT", "EXT_CSD_DAT"}
    /\ dat.st = "wr" => ctl.mcState = "WRITE_DAT"
    /\ ini.st = "run" => ctl.mcState = "INIT"

(* The clock is paused only between two blocks of a multi-block read, with  *)
(* no engine at work: a pause cannot freeze a command or a block.           *)
PausedBetweenBlocks ==
    ctl.clkPause => /\ ctl.mcState = "READ_DONE" /\ ctl.useMultiBlock
                    /\ DatIdle /\ ~cmd.busy /\ ini.st = "idle"

(* Every command taken by the controller is answered at most once, and      *)
(* nothing is answered that was not asked.                                  *)
AnsweredOnce == ctl.respValid => ~job.answered /\ requested.id # "BOOT"

(* The host's view implements the service: the command in progress, the     *)
(* sectors it was sent as long as they are the right ones, in order and     *)
(* from the bank they were read into, and the response after the last.      *)
asksSectors == CASE requested.id = "READ_SECTOR" -> requested.count
                 [] requested.id = "GET_EXT_CSD" -> 1
                 [] OTHER -> 0
rightSector(i) == IF requested.id = "GET_EXT_CSD" THEN ExtCsdByte
                  ELSE (requested.lba + i - 1) % LbaSpace

Service == INSTANCE CommandService WITH
    MaxSectors <- LbaSpace,
    Statuses   <- {"OK", "CMD_ERR", "EMMC_ERR"},
    phase      <- IF ~job.open THEN "idle" ELSE IF requested.id = "BOOT" THEN "boot" ELSE "busy",
    expected   <- asksSectors,
    sent       <- IF \A i \in DOMAIN job.got : job.got[i] = rightSector(i)
                  THEN Len(job.got) ELSE LbaSpace + 1,
    status     <- job.status

ImplementsService == Service!Spec

(* A write answered OK has stored exactly its own sectors, in order, at its *)
(* own address.  Of several sectors this is not so in RPMB mode, where CMD23*)
(* announces one, nor when the host stops sending: the watchdog's CMD12     *)
(* ends in OK.                                                              *)
WriteStores ==
    /\ Answers({"WRITE_SECTOR"}) /\ ctl.respStatus = "OK"
    /\ requested.count = 1 \/ ~(ctl.forceMultiBlock \/ UartMayStall)
    => /\ card.base = requested.lba
       /\ card.stored = [i \in 1..requested.count |-> <<WriteByte(job.n, i - 1)>>]

\* A host that may stop sending counts as a fault of its own.
Troubles == faults + (IF UartMayStall THEN 1 ELSE 0)

(* A transfer leaves the card idle however it ended: with one thing going   *)
(* wrong, CMD12 has closed one of several blocks; and in RPMB mode, without *)
(* CMD12, the count of CMD23 ends each that is answered OK                  *)
(* (docs/protocol.md:150), unless the card refuses CMD23 with an R1 error   *)
(* bit, which MC_RPMB_CMD23 does not look at.                               *)
TransferClosed ==
    /\ Answers(Transfers) /\ ctl.respStatus # "CMD_ERR"
    /\ \/ requested.count > 1 /\ Troubles <= 1
       \/ ctl.forceMultiBlock /\ ctl.respStatus = "OK"
    => card.xfer \notin {"data", "rcv"}

(* After a bus width change or a REINIT answered OK, controller and card    *)
(* use the same width.                                                      *)
WidthAgrees ==
    Answers({"SET_BUS_WIDTH", "REINIT"}) /\ ctl.respStatus = "OK"
        => ctl.busWidth4 = card.width4

(* A partition change answered OK has taken effect in the card, and the     *)
(* controller reports that partition (byte 5 of GET_STATUS).                *)
PartitionAgrees ==
    Answers({"SET_PARTITION"}) /\ ctl.respStatus = "OK"
        => ctl.currentPartition = card.partition

(* No fault, no error: whatever came before, a command is answered with an  *)
(* eMMC error only when something went wrong on the card's side.            *)
NoFalseError ==
    ctl.respValid /\ faults = 0 /\ card.xfer # "off" => ctl.respStatus # "EMMC_ERR"

(* A boot is tried four times (docs/verification_mechanisms.md:58): three   *)
(* failures are survived, and the first command finds a working card.       *)
BootSurvives == faults <= 3 /\ ctl.cmdReady => card.xfer # "off"

(* Every command is answered, and the host hears the answer, whatever fails *)
(* on the card's side short of an initialisation.                           *)
CommandAnswered == Service!Completes
=============================================================================
