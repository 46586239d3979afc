------------------------------ MODULE ReaderOps ------------------------------
(***************************************************************************)
(* The worker threads of the reader application                            *)
(* (emmc-gui/crates/emmc-app/src/operations.rs).  Every operation runs in   *)
(* a thread of its own: it opens the port, exchanges commands and answers   *)
(* with the reader over it, reports to the GUI by messages and ends, which  *)
(* closes the port.  What such a thread does is a sequence of steps; a step *)
(* that fails replaces the rest of the sequence by its "fails" branch.  The *)
(* module only says what the threads do; ReaderApp runs them.               *)
(***************************************************************************)
EXTENDS Integers, Sequences

CONSTANTS
    Chunks      \* chunks of 64 sectors in a dump, a restore or a verification

ASSUME ChunksAssumption == Chunks \in Nat \ {0}

-----------------------------------------------------------------------------
(* Steps.  "do" is "open", "close", "tell", "poll" (of the cancel flag) or a *)
(* command of the reader; a "lax" step ignores its own failure.              *)

Step(do, arg, fails) ==
    [do |-> do, arg |-> arg, tries |-> 1, lax |-> FALSE, fails |-> fails]

Tell(message) == Step("tell", message, <<>>)
Error == <<Tell([type |-> "Error"])>>

\* Variant: a port that cannot be opened is nobody's business.
OpenSilently(baud) == Step("open", baud, <<>>)
Open(baud) == Step("open", baud, Error)
Close == Step("close", 0, <<>>)
Ask(cmd, arg) == Step(cmd, arg, Error)
Lax(cmd, arg) == [Step(cmd, arg, <<>>) EXCEPT !.lax = TRUE]

\* with_retry(3, ..): four attempts in all.
Persist(step) == [step EXCEPT !.tries = 4]

\* The shape of most operations: one command, one message for its success.
Single(baud, cmd, arg, message) == <<Open(baud), Ask(cmd, arg), Tell(message)>>

Repeat(n, steps) ==
    LET f[i \in 0..n] == IF i = 0 THEN <<>> ELSE f[i - 1] \o steps IN f[n]

-----------------------------------------------------------------------------
(* Speed: the presets a profile stands for, and the bauds they select. *)

Presets == {0, 1, 3}
UART_BAUD_RATES == [p \in Presets |-> CASE p = 0 -> 3 [] p = 1 -> 6 [] p = 3 -> 12]
DefaultBaud == UART_BAUD_RATES[0]

SpeedProfile == {"Fast", "Medium", "Safe"}
baud_preset == [p \in SpeedProfile |-> CASE p = "Fast" -> 3 [] p = "Medium" -> 1 [] p = "Safe" -> 0]
clk_preset == [p \in SpeedProfile |-> CASE p = "Fast" -> 3 [] p = "Medium" -> 2 [] p = "Safe" -> 0]
target_baud(profile) == UART_BAUD_RATES[baud_preset[profile]]

scan_ports == <<Tell([type |-> "PortsScanned"])>>

ConnectedWithSpeed(baud, preset, clk) ==
    <<Tell([type |-> "ConnectedWithSpeed", baud |-> baud, preset |-> preset, clk |-> clk])>>

\* Card information is optional: its failure is logged and forgotten.
read_card_info_and_report(rest) ==
    <<Step("get_info", 0, rest), Tell([type |-> "CardInfo"])>> \o rest

\* Variant: the clock stays as it was.
SetNoClock(profile) == <<>>
SetClock(profile) ==
    IF clk_preset[profile] > 0 THEN <<Lax("set_clk", clk_preset[profile])>> ELSE <<>>

ConnectFifo(profile) ==
    <<Open(0), Ask("ping", 0)>>
      \o read_card_info_and_report(
             SetClock(profile) \o ConnectedWithSpeed(0, 0, clk_preset[profile]))

\* After SET_BAUD: drop the port, open it at the new rate, ping; if that fails,
\* back to the initial rate.
Reconnect(initial, profile) ==
    LET fallback == ConnectedWithSpeed(initial, 0, clk_preset[profile])
    IN  <<Close, Step("open", target_baud(profile), fallback),
          Step("ping", 0, <<Close, Open(initial), Ask("ping", 0)>> \o fallback)>>
        \o ConnectedWithSpeed(target_baud(profile), baud_preset[profile], clk_preset[profile])

SwitchBaud(initial, profile) ==
    IF baud_preset[profile] > 0 /\ target_baud(profile) # initial
    THEN <<Step("set_baud", baud_preset[profile],
                ConnectedWithSpeed(initial, 0, clk_preset[profile]))>>
         \o Reconnect(initial, profile)
    ELSE ConnectedWithSpeed(initial, baud_preset[profile], clk_preset[profile])

\* The reader may still run at the target rate of an earlier session.
AlreadyAtTarget(profile) ==
    <<Close, Open(target_baud(profile)), Ask("ping", 0)>>
      \o read_card_info_and_report(
             ConnectedWithSpeed(target_baud(profile), baud_preset[profile], clk_preset[profile]))

ConnectUart(initial, profile) ==
    LET other == target_baud(profile) # initial
        rest  == <<Step("ping", 0, IF other THEN AlreadyAtTarget(profile) ELSE Error)>>
                 \o read_card_info_and_report(SetClock(profile) \o SwitchBaud(initial, profile))
    IN  <<Step("open", initial,
               IF other THEN <<Open(target_baud(profile))>> \o rest ELSE Error)>> \o rest

connect(fifo, initial, profile) ==
    IF fifo THEN ConnectFifo(profile) ELSE ConnectUart(initial, profile)

\* Variant: a keepalive that fails says nothing.
keepalive_ping_silent(baud) ==
    <<Step("open", baud, <<>>), Step("ping", 0, <<>>), Tell([type |-> "KeepaliveOk"])>>
\* The answer of the ping is not looked at.
keepalive_ping(baud) ==
    LET ok == <<Tell([type |-> "KeepaliveOk"])>>
    IN  <<Step("open", baud, ok), Lax("ping", 0)>> \o ok

set_baud(baud, preset) ==
    LET new == UART_BAUD_RATES[preset]
    IN  <<Open(baud), Ask("set_baud", preset), Close, Open(new), Ask("ping", 0),
          Tell([type |-> "BaudPresetSet", preset |-> preset, baud |-> new])>>

-----------------------------------------------------------------------------
(* Sectors.  A sector is named by its LBA, a write carries what it stores.   *)

read_sectors(baud, lba) ==
    <<Open(baud), Ask("read", lba), Tell([type |-> "SectorsRead", lba |-> lba])>>

\* Reading back retries; a mismatch is a result, not a failure.  "fails" is what
\* the caller does with an error.
verify_readback(lba, n, fails) ==
    Repeat(n, <<[Persist(Ask("read", lba)) EXCEPT !.fails = fails],
                Tell([type |-> "Progress"])>>)

write_sectors(baud, lba, data, verify) ==
    <<Open(baud), Ask("write", [lba |-> lba, data |-> data])>>
      \o IF verify
         THEN verify_readback(lba, 1, Error) \o <<Tell([type |-> "WriteVerified"])>>
         ELSE <<Tell([type |-> "SectorsWritten"])>>

\* The end of the dump is reported before the verification, whose failure is
\* only logged.
dump_to_file(baud, lba, verify) ==
    <<Open(baud)>>
      \o Repeat(Chunks, <<Step("poll", 0, Error), Persist(Ask("read", lba)),
                          Tell([type |-> "Progress"])>>)
      \o <<Tell([type |-> "DumpCompleted"])>>
      \o IF verify
         THEN verify_readback(lba, Chunks, <<>>) \o <<Tell([type |-> "DumpVerified"])>>
         ELSE <<>>

\* enable_cache: nothing of it stops a restore.
EnableCache(rest) ==
    <<Step("get_ext_csd", 0, rest), Lax("write_ext_csd", 33)>> \o rest
FlushThenFail == <<Lax("write_ext_csd", 32)>> \o Error

\* The answer of each chunk is awaited when the next one is due (see HostLink);
\* here the two halves of the exchange are one step.
restore_from_file(baud, lba, data, verify) ==
    <<Open(baud)>>
      \o EnableCache(
           Repeat(Chunks, <<Step("poll", 0, FlushThenFail),
                            Step("write", [lba |-> lba, data |-> data], FlushThenFail),
                            Tell([type |-> "Progress"])>>)
           \o <<Lax("write_ext_csd", 32), Tell([type |-> "RestoreCompleted"])>>
           \o IF verify
              THEN verify_readback(lba, Chunks, <<>>) \o <<Tell([type |-> "WriteVerified"])>>
              ELSE <<>>)

verify_sectors(baud, lba) ==
    <<Open(baud)>>
      \o Repeat(Chunks, <<Step("poll", 0, Error), Persist(Ask("read", lba)),
                          Tell([type |-> "Progress"])>>)
      \o <<Tell([type |-> "SectorsVerified"])>>

erase_sectors(baud, lba) ==
    Single(baud, "erase", lba, [type |-> "SectorsErased"])
secure_erase_sectors(baud, lba) ==
    Single(baud, "secure_erase", lba, [type |-> "SectorsSecureErased"])

-----------------------------------------------------------------------------
(* Partition table and ext4.  Opening a file system reads its superblock and *)
(* group descriptors; Ext4Writes has the details.                            *)

read_partitions(baud) == Single(baud, "read", 0, [type |-> "PartitionsRead"])

OpenFs(baud, lba) == <<Open(baud), Ask("read", lba)>>

\* The listing of the root is optional.
ext4_load(baud, lba) ==
    OpenFs(baud, lba)
      \o <<Step("read", lba, <<Tell([type |-> "Ext4Loaded"])>>),
           Tell([type |-> "Ext4Loaded"]), Tell([type |-> "Ext4DirListing"])>>
ext4_ls(baud, lba) ==
    OpenFs(baud, lba) \o <<Ask("read", lba), Tell([type |-> "Ext4DirListing"])>>
ext4_cat(baud, lba) ==
    OpenFs(baud, lba) \o <<Ask("read", lba), Tell([type |-> "Ext4FileContent"])>>
ext4_write(baud, lba, data) ==
    OpenFs(baud, lba)
      \o <<Ask("read", lba), Ask("write", [lba |-> lba, data |-> data]),
           Tell([type |-> "Ext4Written"])>>
ext4_create(baud, lba, data) ==
    OpenFs(baud, lba)
      \o <<Ask("read", lba), Ask("write", [lba |-> lba, data |-> data]),
           Tell([type |-> "Ext4Created"])>>

-----------------------------------------------------------------------------
(* Card and reader. *)

read_ext_csd(baud) == Single(baud, "get_ext_csd", 0, [type |-> "ExtCsd"])

\* What the card makes of bytes 179 (PARTITION_CONFIG) and 183 (BUS_WIDTH) of its
\* Extended CSD, as far as it has the partitions and the widths of this model.
PartitionOf(value) == IF value = 1 THEN "Boot0" ELSE IF value = 3 THEN "RPMB" ELSE "User"
WidthOf(value) == IF value = 1 THEN 4 ELSE 1

\* Any byte may be written: those two switch the card, and nothing else learns of it.
write_ext_csd(baud, index, value) ==
    LET message == [type |-> "ExtCsdWritten"]
    IN  CASE index = 179 -> Single(baud, "switch_part", PartitionOf(value), message)
          [] index = 183 -> Single(baud, "switch_lines", WidthOf(value), message)
          [] OTHER -> Single(baud, "write_ext_csd", index, message)
cache_flush(baud) ==
    <<Open(baud), Ask("write_ext_csd", 33), Ask("write_ext_csd", 32),
      Tell([type |-> "CacheFlushed"])>>
get_card_status(baud) == Single(baud, "card_status", 0, [type |-> "CardStatus"])
get_controller_status(baud) ==
    Single(baud, "get_status", 0, [type |-> "ControllerStatusReceived"])
reinit(baud) == Single(baud, "reinit", 0, [type |-> "Reinitialized"])
set_clk_speed(baud, preset) ==
    Single(baud, "set_clk", preset, [type |-> "ClkSpeedSet", preset |-> preset])
set_bus_width(baud, width) ==
    Single(baud, "set_bus_width", width, [type |-> "BusWidthSet", width |-> width])
set_partition(baud, part) ==
    Single(baud, "set_partition", part, [type |-> "Completed"])
=============================================================================
