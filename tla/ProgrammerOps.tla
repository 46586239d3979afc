---------------------------- MODULE ProgrammerOps ----------------------------
(***************************************************************************)
(* The worker threads of the programmer application (execute_command and    *)
(* do_connect of programmer-gui/src/app.rs, and the adapter of              *)
(* programmer-fpga).  Unlike the reader application, all threads share one   *)
(* open connection behind a mutex: a thread takes the lock, exchanges       *)
(* commands, sends its messages and ends, which releases the lock.  The      *)
(* steps are those of ReaderOps, plus "lock", "unlock", "reopen" and         *)
(* "replace" (the connection behind the mutex) and "file" (access to a local *)
(* file).  Progress messages only move a bar and are left out.               *)
(***************************************************************************)
EXTENDS ReaderOps

Lock == Step("lock", 0, <<>>)
Unlock == Step("unlock", 0, <<>>)
File == Step("file", 0, Error)
Done(type) == <<Tell([type |-> type])>>

\* The loops of FpgaUartProgrammer::read, write and erase.
Chunked(step) == Repeat(Chunks, <<Step("poll", 0, step.fails), step>>)
read(lba) == Chunked(Ask("read", lba))
write(lba, data) == Chunked(Ask("write", [lba |-> lba, data |-> data]))
\* What is only logged when it fails.
Logged(steps) == [i \in DOMAIN steps |-> [steps[i] EXCEPT !.fails = <<>>]]

-----------------------------------------------------------------------------
Identify == <<Lock, Ask("ping", 0), Ask("get_info", 0), Lax("get_ext_csd", 0)>> \o Done("ChipIdentified")

ReadSectors(lba) == <<Lock>> \o read(lba) \o Done("SectorsRead")
ReadToFile(lba) == <<Lock>> \o read(lba) \o <<File>> \o Done("SectorsRead")

\* The success of the write is reported before the verification.
WriteSectors(lba, data, verify) ==
    <<File, Lock>> \o write(lba, data) \o Done("SectorsWritten")
      \o IF verify THEN read(lba) \o Done("VerifyComplete") ELSE <<>>

EraseSectors(lba) == <<Lock>> \o Chunked(Ask("erase", lba)) \o Done("SectorsErased")

\* send_raw_command drops the status of the answer: a command that the card refuses
\* does not fail here (Exchange of Programmer).
\* Variant: each of the three commands takes the lock for itself.
SecureEraseLoose(lba) ==
    <<Lock, Ask("cmd35", lba), Unlock, Lock, Ask("cmd36", lba), Unlock,
      Lock, Ask("cmd38", lba)>> \o Done("SecureErased")
SecureErase(lba) ==
    <<Lock, Ask("cmd35", lba), Ask("cmd36", lba), Ask("cmd38", lba)>> \o Done("SecureErased")

Verify(lba) == <<File, Lock>> \o read(lba) \o Done("VerifyComplete")
BlankCheck(lba) == <<Lock>> \o read(lba) \o Done("BlankCheckComplete")

\* Without an ExtCSD the capacity is 0, and the dump of nothing succeeds.
DumpFull(lba, verify) ==
    LET Rest(steps) ==
            steps \o <<File>> \o Done("DumpCompleted")
              \o IF verify THEN Logged(steps) \o Done("VerifyComplete") ELSE <<>>
    IN  <<Lock, Ask("ping", 0), Ask("get_info", 0), Step("get_ext_csd", 0, Rest(<<>>))>>
          \o Rest(read(lba))

RestoreFull(lba, data, verify) ==
    <<File, Lock>> \o write(lba, data) \o Done("RestoreCompleted")
      \o IF verify THEN Logged(read(lba)) \o Done("VerifyComplete") ELSE <<>>

-----------------------------------------------------------------------------
\* One command and its message.
Locked(cmd, arg, message) == <<Lock, Ask(cmd, arg), Tell(message)>>

\* Variant: the message is sent when the lock has been released.
SetPartitionLate(part) ==
    <<Lock, Ask("set_partition", part), Unlock, Tell([type |-> "PartitionSet", part |-> part])>>
SetPartition(part) == Locked("set_partition", part, [type |-> "PartitionSet", part |-> part])
SetSpeed(preset) == Locked("set_clk", preset, [type |-> "SpeedSet", preset |-> preset])
SetBusWidth(width) == Locked("set_bus_width", width, [type |-> "BusWidthSet", width |-> width])
Reinit == Locked("reinit", 0, [type |-> "Reinitialized"])
ReadExtCsd == Locked("get_ext_csd", 0, [type |-> "ExtCsdRead"])
ControllerStatus == Locked("get_status", 0, [type |-> "ControllerStatusRead"])
\* CMD13, CMD6 and whatever the user types, named by what it does to the card: a
\* step of its own, for its outcome is not looked at (send_raw_command).
Nothing == [does |-> "nothing", to |-> 0]
SendRawCmd(cmd, type) == Locked("raw", cmd, [type |-> type])

\* Variant: the new connection is not put behind the mutex.
RenewApart(rate) == <<Step("reopen", rate, Error)>>
\* The connection is opened a second time, at the new rate, and then replaces the
\* one behind the mutex.
Renew(rate) == <<Step("reopen", rate, Error), Lock, Step("replace", rate, <<>>), Unlock>>
\* Variant: the lock is not given back before the new connection is opened.
SetBaudHolding(preset) ==
    <<Lock, Ask("set_baud", preset)>> \o Renew(UART_BAUD_RATES[preset])
      \o <<Tell([type |-> "BaudSet", preset |-> preset, baud |-> UART_BAUD_RATES[preset]])>>
SetBaud(preset) ==
    <<Lock, Ask("set_baud", preset), Unlock>> \o Renew(UART_BAUD_RATES[preset])
      \o <<Tell([type |-> "BaudSet", preset |-> preset, baud |-> UART_BAUD_RATES[preset]])>>

\* Ping and speed negotiation of do_connect.  What is shown afterwards is what
\* was wanted.
Negotiate(fifo, profile) ==
    LET baud  == IF fifo THEN 0 ELSE target_baud(profile)
        shown == <<Tell([type |-> "ConnectedWithSpeed", baud |-> baud,
                         preset |-> baud_preset[profile], clk |-> clk_preset[profile]])>>
    IN  <<Lock, Ask("ping", 0), Unlock>>
          \o (IF clk_preset[profile] = 0 THEN <<>>
              ELSE <<Lock, Lax("set_clk", clk_preset[profile])>>
                     \o IF fifo THEN <<Unlock>>
                        ELSE <<Step("set_baud", baud_preset[profile], <<Unlock>> \o shown),
                               Unlock>> \o Renew(target_baud(profile)))
          \o shown

-----------------------------------------------------------------------------
(* ext4.  A file system is named by the sector its partition starts at. *)

Opened(lba) == <<Lock, Ask("read", lba)>>

Ext4Load(lba) ==
    Opened(lba) \o <<Step("read", lba, Done("Ext4Loaded"))>>
      \o Done("Ext4Loaded") \o Done("Ext4DirListing")
Ext4Navigate(lba) == Opened(lba) \o <<Ask("read", lba)>> \o Done("Ext4DirListing")
Ext4ReadFile(lba) == Opened(lba) \o <<Ask("read", lba)>> \o Done("Ext4FileContent")
\* Variant: the file system is always the first one.
Ext4OverwriteFirst(lba, data) ==
    <<File>> \o Opened(lba)
      \o <<Ask("read", lba), Ask("write", [lba |-> 0, data |-> data])>> \o Done("Ext4FileWritten")
Ext4OverwriteFile(lba, data) ==
    <<File>> \o Opened(lba)
      \o <<Ask("read", lba), Ask("write", [lba |-> lba, data |-> data])>> \o Done("Ext4FileWritten")
Ext4CreateFile(lba, data) ==
    Opened(lba) \o <<Ask("read", lba), Ask("write", [lba |-> lba, data |-> data])>>
      \o Done("Ext4FileCreated")
\* A directory that cannot be read is skipped; a cancelled search shows what it has.
Ext4Search(lba) ==
    Opened(lba) \o <<Step("poll", 0, Done("Ext4SearchDone")), Lax("read", lba)>>
      \o Done("Ext4SearchDone")
=============================================================================
