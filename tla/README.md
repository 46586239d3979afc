# TLA+ models of the FPGA eMMC card reader

The repository is an eMMC card reader: an FPGA design (SpinalHDL, `hw/spinal/emmcreader/`)
that drives an eMMC card on one side and a UART or FT245 link on the other, and host programs
in Rust and Python that talk to it. This directory holds TLA+ models of the FPGA's core and of
the two Rust applications, TLC configurations that check them on small instances, and TLAPS
proofs for all values of the constants. Paths below are relative to the repository.

## 1. The system

```
 GUI thread ── messages ── worker threads ── EmmcConnection ── packets ── UartBridge ── port ── EmmcController ── engines ── card
 (emmc-gui,                (emmc-app,          (emmc-core:      UART or    (CRC-8,       │          │ clkPause             │
  programmer-gui)           one per operation)  protocol, rpmb)  FT245      framing)  sector buffers └── clock divider ─────┘
                                  └── ext4 (emmc-core/ext4)
```

Everything inside the FPGA runs on one 60 MHz clock: all registers change together on its
edge, each from the values before it. "Concurrency" there means that six state machines
advance in the same edge and see each other's outputs one edge late. On the host, every
operation runs in a thread of its own beside the GUI thread, which learns of it by messages.
In the reader application each thread opens the port for itself; in the programmer all threads
share one connection behind a mutex. Reader and host have no common clock: a packet names
neither the command it answers nor a sector, and both sides keep the baud rate, the card clock,
the bus width and the partition as state of their own.

### Components, their state and what makes them correct

| Component | State | Operations | Correct when | Here |
|---|---|---|---|---|
| `EmmcController.scala` | 26-state FSM, transfer registers (`sectorsLeft`, `useMultiBlock`, `emmcBank`, …), start lines, the port's outputs | dispatch of 13 commands, multi-block transfers with backpressure, SWITCH with busy wait and CMD13, erase, raw, RPMB, watchdogs, error path, boot and REINIT | each command is answered exactly once, OK means done, a transfer is closed however it ends, engines are started only when idle, card and controller agree on bus width and partition | modelled, partly proved |
| clock divider (same file, 131-158) | counter, reload, clock level, enable | divide, pause | a pause stops the card, no runt pulse, the clock comes back | modelled, proved |
| `SectorBuf`, `SectorBufWr` | two read banks, 16 write banks | a write port and a read port each | no bank is read while it is refilled | in `EmmcController` |
| `EmmcCmd`, `EmmcDat`, `EmmcInit` | shift registers, CRCs, timeouts, the init sequence | run a command, move a block, identify the card | start/done handshake, every wait bounded | their handshake and outcomes |
| `UartBridge.scala` | receive FSM, transmit FSM, response latch, write-FIFO counters, baud switch | parse packets, fill the FIFO, send sectors and responses | one command at a time, sectors before the response | its port and transmit order, in `ControllerBench`; at the other end of the line, packet by packet, in `HostLink` |
| `Crc7`, `Crc8`, `Crc16` | a register | one bit or byte | equal to the polynomial's definition | not modelled |
| `UartRx`, `UartTx`, `Ft245Fifo` | bit counters, FT245 handshake | receive, send | no byte lost or doubled | not modelled |
| `LedStatus`, `GowinPll`, tops; `src/`, `generated/` Verilog | | indicators, clocks, wiring; the same design again | | not modelled |
| `emmc-core/protocol.rs`, `rpmb.rs` | the port and its input buffer | questions, answers of several packets, retries, pipelined writes, RPMB sessions | an answer belongs to its question; what is told as done was done; a session leaves the reader in the user area | modelled (`HostLink`) |
| `emmc-app` (`operations.rs`, `state.rs`) | `AppState`; one thread per operation | 28 operations | every operation ends with a message; the GUI knows the reader's settings | modelled (`ReaderOps`, `ReaderApp`) |
| `emmc-gui` (`app.rs`, `panels/`) | requested action, dialog, file picker, keepalive | buttons, frames, confirmation, keepalive against the bridge's 18 s baud watchdog | the port is opened at the reader's rate; writes go where the panel shows | modelled, safety proved (`ReaderApp`) |
| `emmc-core/ext4` | descriptors and superblock counts in memory | `create_file`, `overwrite_file_data` | no cut between two sector writes makes a file lead to free or foreign blocks | modelled, proved (`Ext4Writes`) |
| `programmer-gui`, `programmer-fpga` | `AppState`, the shared connection | commands, dialogs, cancellation | a lock is let go, an erase is not mixed with another, a file goes to the file system its dialog was opened in | modelled in part, safety proved (`Programmer`) |
| partition tables, CID/CSD/ExtCSD, image manager, editors, file browser | bytes | parse, show | | not modelled: sequential code without state |
| command line tools (`emmc-cli`, `tools/emmc_tool_rs`, Python) | | one command after another | | not modelled |

### Where it is hard

`PROJECT.json` lists the hazards line by line. The families are:

- **One-edge handshakes.** Start lines, `done`, `respValid`, `rdSectorAck` and `wrSectorAck`
  are pulses or registers seen one edge late; a level that is still high can start an engine
  again or be consumed twice.
- **Ping-pong buffers.** The card fills a read bank while the UART drains the other, and three
  bank registers move in three different edges. The card cannot be told to wait except by
  stopping its clock.
- **State that outlives its command.** In the controller `useMultiBlock`, `respStatusR`,
  `isInitMode`, `currentPartition`, `busWidth4`, `forceMultiBlock`; in the reader the baud rate
  and RPMB mode; on the host the settings shown, the hex editor's source, an open dialog.
- **Partial failure.** A transfer fails in CMD18, in a block, in CMD12, in CMD23; an RPMB
  session between two of its switches; a create between two of its ten writes.
- **Pairing by order.** A retry is asked while the rest of the failed answer is on the way.
- **Threads.** The GUI's idea of what runs is changed by messages only; some buttons do not
  look whether an operation runs; the keepalive is a second thread on the same port; a thread
  of the programmer outlives the connection that was dropped in the GUI.
- **Timeouts.** 280 ms watchdogs against a 140 ms packet timeout in the bridge, an 18 s baud
  watchdog against a 10 s keepalive, two seconds of silence on the host.

## 2. The modules

| Module | Models | How |
|---|---|---|
| `EmmcCard` | the card (external) | a record and operators on it: which command is legal in which state, what it does, R1 error bits, DAT0 busy, and that a sending card with a running clock sends whether anybody listens or not |
| `EmmcController` | `EmmcController.scala`, the buffers, and the engines at their handshake | `CtlEdge` has an action for each branch of the FSM's `switch`; `EngineEdge` lets at most one engine report per edge, after any delay; `ControllerEdge` conjoins them with the write port |
| `CommandService` | what the reader promises the host (`docs/protocol.md:54-75`) | four actions: boot, ask, send a sector, complete |
| `ControllerBench` | the bridge's side of the port, and the host | `PortEdge`; the composition; the properties; the refinement mapping to `CommandService` |
| `EmmcClkGen` | the clock divider | one action for an edge; its inputs change arbitrarily |
| `HostLink` | one host thread over `EmmcConnection`, the line, and the reader at its other end | the jobs dump, restore, verified write and RPMB session as steps with an outcome each; one action per packet |
| `ReaderOps` | the operations of `operations.rs` | each a sequence of steps (open, command, message, poll of the cancel flag) with its error branch |
| `ReaderApp` | GUI thread, worker threads, channel, port, reader and its watchdog | an action per button with its guard, one for each part of a frame, one per kind of step of a thread, and time |
| `ProgrammerOps`, `Programmer` | the same of the programmer, with the shared connection | additional steps for the lock and the reconnection |
| `FileStore` | what the ext4 tab promises: a store of named files | ask, make, rewrite, resize, tell |
| `Ext4Writes` | `create_file` and `overwrite_file_data` with every sector write they make | one action per write; a cut between any two; the refinement mapping to `FileStore` |
| `MC…` | | request sets, users and images for TLC |
| `EmmcClkGenProofs`, `ControllerProofs`, `ServiceProofs`, `WriteProofs`, `LinkProofs`, `Ext4Proofs`, `ReaderProofs`, `ProgrammerProofs` | | TLAPS proofs, section 5 |

### The controller

The registers of the controller are one record `ctl`, with the names of the Scala source
(`mcState`, `emmcBank`, `respValid`, …). `Cleared` is what every edge does before the FSM
speaks: pulses fall, `rdSectorAck` moves `uartRdBank`, the delayed copies of the port are
taken. Each action says what else changes, so an action is the whole edge of a branch, defaults
included. `Loaded` is the common part of a dispatch, `Answered` the end of a command, `Failed`
the entry of the error path.

Several registers always move together and are left out: saturating error counters, debug
outputs, response contents, and the 24-bit and 20-bit counters, whose expiry is a
nondeterministic step (`WriteWatchdog`, `RpmbWatchdog`, `BusyTimeout`).

The engines are records with `busy` or `st`, and one-edge `done`. An engine moves only while
`clkPause` is low. `cmdStart` is held until `done`, and is still high in the edge of `done`:
`CmdTake` has the guard of `EmmcCmd.scala:87`. The mux of `isInitMode` is `cmdStartIn`.
`EmmcDat` moves its block byte by byte through the bank `emmcBank` selects, so that two sides
touching the same bank is visible; it reports a CRC error when block and bus width do not fit,
or when the card has nothing to send.

The host of the bench waits for each answer before it asks again. The bridge latches
`respValid`, sends staged sectors first, and the response after them. A write is sent with its
first sector buffered, or late (test T33 of `sim/tb_emmc_controller.v`). `job` is a history
variable: the request, the sectors the host was sent, and whether it has been answered.

### The host over the line

`HostLink` has one thread and two queues of packets. `Question`, `Expected`, `Succeeded` and
`Failed` say for each step of a job what is sent, which packets are awaited, and where the job
goes; retries (`with_retry`), tolerated failures (write cache, flush) and the switching back of
an RPMB session are in them. The line loses or corrupts a command, corrupts any packet of an
answer, or is late; the card refuses. Sectors carry their address, so that pairing an answer
with the wrong question shows. `astray`, `unsure`, `plain` and `fresh` are history: an exchange was
given up with something of it still on the way; a switch of an RPMB session lost its answer; RPMB
was accessed without its protocol; the job began with no question of an earlier one on the line. The
packet that ends an answer carries no data (`Taken`: `protocol.rs:378` and `:386` drop its payload), and a
verification compares what the read has returned (`Compared`), which may be less than was asked for. A corrupted write of several sectors is answered twice, by the
bridge for its CRC and by the controller for what it had already been handed
(`UartBridge.scala:506`).

### The applications

A worker thread is the rest of its sequence of steps, with the port it has open. `Exchange` is a
command and its answer: it passes only when both ends are at the same rate, and a fault loses
the command or the answer of a command that has been obeyed. `receive` is the match of
`process_messages`, branch by branch. A frame has three parts, in their order in `update()`; the
picker of a file blocks all of them, as the native dialog does. Time passes in ticks of six
seconds and only while nothing runs, which is enough to compare 10 s of keepalive with 18 s of
watchdog. `upset` is history: the causes that have come up and may set the GUI and the reader
apart. The properties name the causes they exclude, so each says exactly what the settings shown
can be trusted through.

What a user types changes the card as well. `write_ext_csd` of byte 179 or 183 switches the partition
or the data lines of the card, and neither the panel nor the controller learns of it: `fpga.lines` (the
card's) and `fpga.width` (the controller's) are apart after it, and no block passes (`Garbled`). In the
programmer the raw commands CMD0, CMD6, CMD35, CMD36 and CMD38 have their effect on the card (`Typed`);
those that are typed and not in `TypedCommands` have none the properties could tell. The reader answers
a raw command that the card refuses like any other, and `send_raw_command` drops the status
(`adapter.rs:284`): `Exchange` has a branch in which a raw command is answered, not obeyed and taken for
success, also for the three of a secure erase.

The buttons a user may press are a constant; `ReaderApp` and `Programmer` have every button of
the panels that starts a thread or changes `AppState`, with the guard it is drawn with.

### ext4

The disk is a record: bitmaps, descriptors, superblock counts, inodes, one directory, contents, and
where all of these lie (`place`). `Overwritten` is what a write of data does: where it lands on a
block of the file system itself, the bitmap, the descriptor, the inodes or the directory there are from
then on what the data says as one (`Misread`), and a file system that has lost the way to its root
(`lost`) does not open.
A create is `AllocInode`, its descriptor, the superblock, `AllocBlock`, its descriptor, the
superblock, the inode, the data, the entry, in the order of `file_ops.rs`; every one is one
write, and `CutOff` ends the request before any of them. `fs` is what `Ext4Fs` has in memory,
which is written back as counts. `Opens` refuses a file system with `metadata_csum`, since the
code's superblock checksum never matches one (`superblock.rs:131-142`).

### Definitions headed "Variant"

Next to some definitions stand mutated forms (`ReportErrorOpen`, `FailedOnward`,
`RenewApart`, …). They are not used by any specification. Each is a plausible mistake in the
definition that follows it; substituting it makes the property it belongs to fail
(`PROJECT.json`, `mutants`). They document what each property is sensitive to.

## 3. The runs

| Run | Question | Properties |
|---|---|---|
| `transfers` | Power-on with up to three failed initialisations, then reads, writes and ExtCSD of one to five blocks, three commands in any order, three faults anywhere | `TypeOK` `EngineOwned` `PausedBetweenBlocks` `AnsweredOnce` `WriteStores` `TransferClosed` `BootSurvives` `ImplementsService` |
| `rpmb` | RPMB mode switched on and off between four commands; write data that comes with the command, after it or never | `WriteStores` `TransferClosed` |
| `control` | SWITCH, erase, raw, status, clock and REINIT in any order with transfers between, two faults; safety and liveness | `WidthAgrees` `PartitionAgrees` `NoFalseError` `CommandAnswered` |
| `clkgen` | The divider under arbitrary changes of preset, mode and pause | `PauseStops` `NoRuntPulse` `KeepsRunning` |
| `link` | Two jobs after one another over a line that loses, corrupts and delays: what may the user take "done" to mean, and does every job end? | `InStep` `SteadyDumpIsCopy` `RestoreTrue` `VerifiedTrue` `RpmbLeft` `JobsEnd` |
| `reader` | Three clicks on any buttons of the reader application, a byte of the Extended CSD written by hand among them, four in the ext4 tab, five on a connection dropped while a dialog asks, seven on the round trip through the hex editor; dialogs, threads, keepalive and watchdog interleaved | `BaudKept` `SettingsShown` `HexStaysHome` `WritesWhereShown` `OperationEnds` `KeepaliveAnswered` |
| `programmer` | Four clicks in the programmer, three with a fault, six that erase or connect beside what a dropped connection left at work, three by a user who types raw commands and bytes of the Extended CSD, four over either transport: two threads on one connection, or two connections on one port | `ErasesWhatItNamed` `OverwriteStaysHome` `SettingsShown` `BaudKept` `ConnectedHasProgrammer` `OperationEnds` |
| `ext4` | Creates and overwrites on five small file systems, cut off twice at any write | `TypeOK` `EntriesWhole` `NothingShared` `CountsTrue` `ImplementsStore` |
| `hex_write_back`, `stale_retry`, `dump_wrap`, `ext4_unwritten` | deviations, section 4 | one each, violated |

Four of them carry the rest.

- `ImplementsService`: under the mapping in `ControllerBench` a sector counts as sent only if
  the bytes the UART read out of the buffer are those of the right address, in order; one wrong
  byte maps to a state `CommandService` cannot reach. It states that the ping-pong buffer is
  never overwritten under the reader, that no sector is skipped, repeated or lost to a card that
  went on sending, and that OK follows the last one.
- `RestoreTrue`, `SteadyDumpIsCopy`, `VerifiedTrue` and `RpmbLeft` say which of the host's
  promises survive which losses. The verification of a write is right whatever happens to it, if it
  began over an empty line (`fresh`) and got all the sectors it asked for (section 4: one that
  got none passes for verified); a dump or a restore only as long as no exchange was given
  up half-way (`Steady`). `InStep` is why. Without `fresh`, a read that an earlier attempt left on
  the line can be obeyed after the new batches and be taken for the verification's answer, while
  the verification's own questions are lost and a batch arrives garbled after it: TLC finds that
  with five faults, more than the run allows.
- `SettingsShown` and `BaudKept`, in both applications, compare what the GUI believes with what
  the reader does after any interleaving, and name every cause that sets them apart.
- `ImplementsStore`: a create appears whole with the write of its entry or not at all, an
  overwrite touches only the file it names, "ok" is told of a file that holds what was asked.

### Bounds and why they suffice

Controller:

- `FifoBanks = 4` (16 in the code): writes of 5 are rejected, and reads of 3 and writes of 2
  after one another take `emmcBank` across its wrap. The read buffer has its real two banks.
- `SectorBytes = 1` (512): a bank is written and read whole or not. What matters is the order
  of the first write, of the bank switch and of the read, and these are separate edges. The
  bench requires 1 (`BenchAssumption`), the controller's module does not.
- `LbaSpace = 8` (2^32): addresses wrap within a transfer (6, 7, 0).
- `MaxJobs` is 3 or 4: what a command leaves behind (`useMultiBlock`, `respStatus`, an open
  transfer, a width) is seen by the next; the third follows a recovered error. In `rpmb` the
  fourth is a transfer after the mode was switched on, used and switched off.
- `MaxFaults` is 1 to 3. Properties that hold only up to a number of faults say so:
  `TransferClosed`, outside RPMB, with one (two can take both the transfer and the CMD12 that closes it; a
  host that stops sending counts as one), `BootSurvives` with three (the fourth failed boot ends
  in `ERROR`). `WriteStores` leaves out writes of several sectors in RPMB mode, where CMD23
  announces one, and those a silent host cuts short: the host does not stop sending in `transfers`
  (`UartMayStall = FALSE`), and the OK of a write that is cut short is in section 4.
- `CmdFaults` of `rpmb` has commands that are lost, damaged or met by a busy card, and no error bits of
  R1, which the code does not look at after CMD23; with them TLC finds `TransferClosed` violated (section 4).
- The requests of `control`, the one run of the controller with liveness, read one block at a time: the
  pause of `READ_DONE`, where a read of several waits for its acknowledgement, is in `transfers`, whose
  `PausedBetweenBlocks` and `AnsweredOnce` are about safety only.
- `CardGap = 4`: a card sends its next block this many edges after the last. It is the card's
  shortest gap in the model; the controller has left `READ_DONE` or paused by then.
- `SlowReload = 20` (224) in `clkgen`, larger than every preset's reload, like the real one.

Host:

- `link`: five sectors in chunks of two (64 and 16), so that there are full chunks, a rest of
  one sector (which is read by another command), and a second batch to mistake for the first.
  `Word = 7` (65536) is above everything a job counts. Three faults are enough to use up a retry
  and to lose the answer of the repetition as well; two jobs, so that the second meets what the
  first has left. `dump_wrap` has six sectors and words of 4.
- `reader` (1,027,310 states): two threads at a time (an operation and a keepalive, or two operations, which
  the ungreyed buttons allow), two sectors, two speed profiles, one chunk. Three clicks are: connect, change
  something, use it; or connect and two operations that overlap. The editor's contents take
  five: connect, read, open, edit, write back (a dialog is no click), and two more for another
  read and its opening while the dialog asks; the bytes a user writes by hand are the write
  cache, the partition and the width (`CsdWrites`); overwriting a file takes four; a dialog that outlives its
  connection five: connect, set the rate, RPMB, disconnect, connect again. Ticks of 6 s: the
  keepalive is due after two, the watchdog fires after three, a picker may hold the GUI for one.
- `programmer` (1,190,033 states): two threads, two connections, two sectors, and seven users: anybody with four clicks,
  or with three and a fault; one with three and a fault who types commands and bytes of the Extended CSD;
  one with four who sets rate, clock and width over a UART or an FT245; one with three and two faults who erases twice; one with six clicks who erases, disconnects and connects again, which
  is what two connections with an erase each take; one with six who connects while a confirmed
  command of an earlier connection is at work. `Exclusive` is both, since some systems let a port be opened twice. The buttons left out in the
  cfg (`read`, `verify`, `full`, …) are shorter forms of those that are in it, and are the same
  shape of script.
- `ext4` (771,083 states): two groups of 13 inodes and 8 blocks of 1024 bytes, where block numbers are off by one
  from bits. Five images: roomy; a group with one inode left; no blocks; a directory without
  room; one with checksums. Two cuts: a create that was cut off is repeated and cut off again.

### Fairness

`Fairness` in `ControllerBench` is weak fairness only: the clock ticks; a command engine that
is busy ends (`EmmcCmd` has a response timeout), a block ends (`EmmcDat` has two 16-bit
timeouts), initialisation ends (retry limit of `EmmcInit`), busy polling ends (20-bit counter),
the transmitter goes on sending. The host is fair in supplying write data only when it may not
stall; when it may (`UartMayStall`), the watchdogs are fair instead. `KeepsRunning` assumes a
ticking clock.

`HostLink`: the thread runs, its timeouts fire (a serial port opened with a timeout), and the
reader answers what it receives. `Start` is fair too: the user goes on to the next job.
`ReaderApp`, `Programmer`: the operating system runs every thread, and the GUI draws frames
(egui repaints while a message may come). There is no fairness on faults, clicks, cancellation,
the choice of a file or the passing of time, and a GUI held by a file dialog is excepted where
it matters (`OperationEnds`).

Deadlock is checked in the runs of the controller and of `ext4`: the clock always ticks, the
store can always be asked. In the others the program really stops: all jobs are done, or the
user's clicks are used up and everything has settled.

## 4. Deviations found

Each violation run has one property, taken from a sentence of the documentation or a comment,
and a counterexample. `PROJECT.json` quotes the sentence.

1. `hex_write_back`: "Load" in the hex editor moves the address and keeps the contents; "Write
   Back" stores the old contents at the new address (`hex_editor.rs:40`). The dialog is a second
   way there: it fixes the address when it opens, the contents are taken when the action is
   dispatched (`app.rs:421`), and "Open in Hex Editor" can exchange them between. `moved` records
   either, and `HexStaysHome` is proved of everything else.
2. `stale_retry`: the rest of a failed answer is taken for the answer of the retry; the dump is
   reported complete and is not a copy (`protocol.rs:807`).
3. `dump_wrap`: a dump of 65536 sectors or more never ends: the number of sectors left is cut to
   16 bits (`operations.rs:812`).
4. `ext4_unwritten`: the length of an unwritten extent is read with its marking bit, and an
   overwrite of a preallocated file zeroes the 32768 blocks behind it (`inode.rs:198`), whatever they
   are: other files, bitmaps, descriptors, inode tables. `EntriesWhole`, `NothingShared` and `CountsTrue`
   are therefore checked, and proved, for images without unwritten extents.

The following are visible in the models and restrict the properties there, without a run of
their own.

Controller:

- A multi-block write whose data stop is cut short with CMD12 and answered with the status of
  an earlier command, normally OK (`EmmcController.scala:740`); `docs/verification_mechanisms.md:66`
  says an error is reported. `WriteStores` excepts it.
- R1 error bits of CMD23 are not looked at; the transfer that follows is open-ended and not
  closed (`:963`, `docs/protocol.md:150`). The run `rpmb` has no R1 errors of the card: with
  `"device"` in its `CmdFaults` TLC shows an RPMB read answered OK with the card still sending.
- After a failed REINIT `isInitMode` stays set; a raw command, an erase or the CMD23 of an RPMB
  access then waits forever for a command engine it is not connected to (`:509`,
  `docs/verification_mechanisms.md:255`). The liveness run has no failing initialisation
  for this reason.
- An error in a command without data sends CMD12 if an earlier transfer was multi-block (`:1051`).
- In RPMB mode CMD23 announces one block whatever the count is; a transfer of several moves
  them all (`:984`).
- `SET_BUS_WIDTH` looks at bit 0 of its payload: 4 selects one bit, 1 four (`UartBridge.scala:680`,
  `docs/protocol.md:121`).
- Preset 6 divides by one, and its counter never sees the pause (`:144`); `PresetsDivide`, the
  assumption of the divider's theorems, excludes it.
- After four failed boots the error path answers a command nobody asked, with status OK, since
  `respStatusR` still has its reset value (`:524`); this is why `AnsweredOnce` is proved under
  `BootSucceeds`.
- `currentPartition` is set before CMD6 and not reset by REINIT (`:579`, `:588-594`), so that
  GET_STATUS may report a partition the card is not in; `PartitionAgrees` claims only the case of
  a SET_PARTITION answered OK.
- A WRITE_SECTOR that finds no sector in the FIFO stays in `READY` with `cmdReady` low and is
  never answered if none comes (`:567`).

Host library:

- The switches that end an RPMB session are sent once and their outcome is not looked at; a
  `set_rpmb_mode(true)` whose answer was lost is never undone. The reader then stays in a mode
  that `protocol.rs:335-336` warns of. `RpmbLeft` excludes sessions with `unsure`.
- A multi-sector write is obeyed from its first sector on, before its CRC is known; a corrupted
  one is answered twice, and every later answer is one behind (`astray`).
- The verification of a write compares as many bytes as came back (`operations.rs:515`). A read of one
  sector takes any packet with status OK and no data for the end of its answer
  (`protocol.rs:363-390`), the acknowledgement of the write, late or left over, for one; it then returns
  nothing, nothing is compared, and "Verify OK" is logged, where `docs/gui.md:125` promises a
  comparison byte by byte. `VerifiedTrue` speaks of verifications that got all their sectors
  (`readback = "same"`); if `"short"`, which the user is told the same of, is admitted, TLC finds it
  violated with `Total = 1` and three faults.
- `verify_readback` has the same 16-bit cut as the dump; `verify_readback_file` compares from
  the start of the file only, drops a partial last sector, and indexes what came back with the
  length it asked for, so that a short read panics there (`operations.rs:548-600`).

Reader application (causes of `upset`):

- Every message counts as activity on the port ("Any message means activity on the port",
  `app.rs:41`), also those of a port scan or of an operation that never reached the reader: the
  keepalive comes too late for the watchdog (`silent`). So does one held up by a file dialog
  (`picker`).
- "Race-free: only fires when !is_busy(), so no port collision with workers" (`app.rs:556`):
  true when the keepalive starts; an operation started while it runs meets the open port
  (`overlap`).
- A connect reports the profile's clock also when setting it failed, or when the reader already
  was at the target rate and it was not set; "Safe" never sets it; a reconnection that fails reports the
  old rate although the reader has switched; a `set_baud` whose ping fails leaves the GUI at the
  old rate (`fault`, `reconnect`).
- "Write ExtCSD" takes any byte (`panels/sector.rs:163`, `protocol.rs:573`). Bytes 179 and 183 move the
  card to another partition or width behind panel and controller; the next write goes elsewhere, or no
  block passes any more (`switched`).
- REINIT resets width and partition of the reader, and the GUI keeps showing the old ones
  (`reinit`); Disconnect keeps them as well (`reconnect`).
- Disconnect (`connection.rs:143`) leaves an open dialog. RPMB confirmed after it is shown as the partition at once
  (`app.rs:517`), and asked for at a rate the watchdog may have taken from the reader; a new connection
  then shows RPMB and reads the user area (`unconnected`).
- Browse, Navigate and a file's contents can be started while an operation runs; the dialogs are
  not modal; the cancel flag is one for all. The raw command of the panel is dispatched nowhere.
  Discard in the hex editor clears the mark and keeps the changes.

Programmer:

- Any message that ends an operation, not only an error, ends a connecting for the GUI: the rest of
  what a dropped connection's thread had to say, or the result of a command confirmed before. An
  error drops the new connection, so that "Connected" is shown without one; anything else lets the user
  connect a second time (`stray`).
- The lock belongs to a connection and a thread keeps its connection. With a port that can be opened
  twice, Disconnect and Connect while a thread is at work give two connections to one reader: two
  secure erases can then mix, and settings be reported in another order than they were made
  (`shared`).
- A dialog survives Disconnect and acts on what is connected by then (`moved`).
- Two changes of the rate overlap, since the lock is released between the change and the
  reconnection (`overlap`); a port that cannot be opened twice makes every such reconnection
  fail, since the thread's own connection still has it (`taken`). Nothing keeps the reader from
  falling back to its default rate (`silent`).
- A raw command or a byte of the Extended CSD may switch partition and width, and CMD0 resets the card,
  behind panel and controller (`raw`). `send_raw_command` does not return the status, so whatever
  the card refuses is reported as done (`refused`). A secure erase goes on after a CMD35 or CMD36 the
  card has refused: with the range of an erase that broke off still in the card it erases sectors the dialog
  did not name, otherwise none, and reports either as done ("Secure erased {} sector(s)", `app.rs:165`).
  TLC finds `ErasesWhatItNamed` violated if `refused` is taken from its causes. The model keeps the range until
  it is used or the card is reset; a card that follows JEDEC to the letter forgets it at the next other
  command, so that fewer interleavings lead there.
- A full dump of a card whose ExtCSD cannot be read is reported as completed with 0 bytes.

ext4:

- A file system with `metadata_csum`, the default of `mke2fs` for years, is refused
  (`superblock.rs:131-142`); the code that would write the bitmap checksums, at wrong offsets of
  the descriptor, is therefore never reached.
- A create that is refused or cut off keeps the inode and the block it took: space leaks, and
  nothing else happens (`CountsTrue`, `EntriesWhole`).

## 5. Proofs

`tlapm` checks every proof; nothing is assumed but the named assumptions on the constants.

**`EmmcClkGenProofs`** (assumption `PresetsDivide`: no preset has reload 0; false of preset 6):
`TypeCorrect`, `PauseStopsClock`, `NoRunt`, each for the presets that divide by two or more.
The inductive invariant adds two facts. `PauseHolds`: a pause that has let one edge out has a
counter above 0, which stands still. `LevelKept`: the counter and the time since the last edge
add up to a configured divisor.

**`ControllerProofs`** (from `ControllerAssumption`, for the bench with its one-byte sectors):
`TypeCorrect`, `EnginesOwned`, `PauseIsSafe`, for every FIFO, address space, request set and
number and kind of faults.
`EngineOwned` is not inductive: it speaks of engines at work, but a start line is high one edge
earlier, and a `done` that meets a new start line would start the engine after the FSM has
left. The invariant `IInv` adds who may raise which start line in which state, that no start
line is high with `done`, and for initialisation the extra register of `EmmcInit` between the
two. The proof has one lemma per group of FSM states, each with a step per action, which all
prove the same summary of an edge (`Disciplined`); one lemma says what the engines may do in an
edge (`CmdMoves`, `DatMoves`, `IniMoves`); the step of the invariant uses only the summaries.

Its second half (from `BenchAssumption` and `BootSucceeds`, too: if the card may fail to initialise,
then at most three times) proves `AnsweredAtMostOnce`. The invariant `AInv` follows a command
through the places it
can be in: on the port, in the register behind it, in the FSM, in the answer pulse, in the
bridge's latch. It is in one place at a time, the host waits while it is anywhere, and a latched
answer means the FSM is in `READY`. `FailuresCounted` ties failed boots to faults, so that the
retry limit is not reached.

Its third part (from the same and `TransfersFit`: addresses and counts of transfers are those
the port can carry, `docs/protocol.md:54-75`): `WidthIsTheCards`, and, with `PartitionsFit` (partitions
are 0 to 3, `docs/protocol.md:103`), `PartitionIsTheCards`. Neither is about one state: what the
controller commits when it answers was planned when the command was taken, and what the card
holds then was decided edges earlier. `OnPath` and `Commanded` say of each FSM state which
request it works for and which command it has loaded; `Planned` and `Registered` what a switch will commit
and when; `SwitchEnds` and its companions in `SInv` what the card has by then. The proof reuses the
division of the first part: a lemma per group of FSM states proves the summaries
(`StaysOnPath`, `StaysCommanded`, `StaysPlanned`, `SwitchMoves`), and the invariant's step uses the summaries.

**`ServiceProofs`** (from `BootSucceeds` and `TransfersFit`): `HostIsServed`, the refinement of
`CommandService` by the bench, for every FIFO size, address
space, request set and fault bound. Every edge is a step of the service or a stutter: what must be
shown is that a sector sent is the next one, and that an OK closes a read of which every sector was
sent. `RInv` counts the blocks of a read through the places they can be in, in order: left to the
FSM, staged for the bridge, announced, being sent, sent (`Balance`, `Counted`); says what each bank
holds (`StagedRight`, `TakenRight`, `SentRight`) and that the bank being filled is neither the one
staged nor the one being sent (`BanksDiffer`); and where the card stands (`Placed`, `Filled`,
`Rested`). `Closed`, `Fresh` and `OkMeansAll` tie the answer to the count.

Its second part is about the agreement of controller and card. A lemma per group of FSM states
proves what an edge may do to the course of a transfer (`Flows`, `Modes`, `Ends`), one the loaded
command in every state (`CommandIs`), and three invariants are built on these summaries:

- `BootIsSurvived`, for requests without a raw CMD0 and, where initialisation may fail, without
  REINIT (`NoReset`): a reset, or a REINIT that fails, leaves the card off the bus and the next
  command is answered with an error. `OnBus`: only the states of initialisation have a card that is off.
- `NoErrorUnprovoked`, for requests that leave the state of the card to the FSM (`QuietRequests`):
  no raw command that starts, stops or counts a transfer, no write of the ExtCSD byte of the bus width behind
  the controller's back, no RPMB mode, in which CMD23 announces one block of several. Each of the three can
  provoke an error without a fault. `Follows` divides the states of the FSM into four classes,
  by what the card must be doing: nothing, sending, receiving, waiting for CMD12. With
  the bus width on both sides (`SameWidth`) this makes every command legal where it is given,
  and leaves `Well` (no engine has reported an error, no error is in the answer register) with no edge
  that breaks it. All of it is claimed only for behaviours without a fault, so a
  fault needs no case of its own.
- `TransfersAreClosed`, where the card always obeys CMD23 or is never given it
  (`CardAnswersCount`) and where, unless the host may stall, the requests are quiet (`FaultsAreCards`).
  `Announced` follows the block count of CMD23 through RPMB mode: there when the FSM has its
  answer, still there after the wait for the data, used by the transfer, which then closes by
  itself. `Closing` says of several blocks that a CMD12 which reported well has closed them, and
  that one which has not is the second thing to go wrong: that the first was there, that is, that the FSM is
  not in the error path for nothing, is `Well` again.

**`WriteProofs`** (from the same two): `WritesAreStored`. A sector is received from the host while
earlier ones wait, one is offered to the FSM on the sector-valid line, and the FSM takes it a
register delay later, so what must be shown is that none is taken twice, skipped, or sent to the card
before its last byte is in its bank. `WInv` counts the sectors through these places: those the FSM
has taken, the one on the line that is not yet acknowledged, and those waiting add up to those received
(`Consumed`, `Announced`); the banks hold what was received (`Buffered`, with the byte still in the
write register, `Arrived`); `Located` ties bank and count of the FSM to the sectors on the card, and
`Stored` says the card holds exactly those before the current one. The two exceptions of the property are in
`Clean`: RPMB mode with several sectors, where CMD23 announces one, and a host that stops sending,
where the watchdog's CMD12 ends in OK.

**`Ext4Proofs`** (from `SizesAssumption`, `RequestsAssumption`, `MisreadAssumption` and
`ImagesAssumption`: the file system is sound to begin with; and, as a hypothesis of every theorem,
`AllWritten`: no image has an unwritten extent, since with one the run `ext4_unwritten` shows the
opposite): `WritesInType`, `EntriesStayWhole`, `FilesStayApart`, for every
geometry, every set of requests and every number of cuts. Neither of the last two is inductive
alone: between the first write of a create and its entry, what it took must be known to be
nobody's. `Holding` says that the inode and the block an operation holds are marked as taken,
and named by no entry; `Creating` that the name is still free and the inode written is the one asked for; `Overwriting`
that the file reaches as far as the request needs; and `Sound` that what a bitmap shows free is on the
card and outside the file system's own blocks. `Placed` says that what a write of data could be misread
as lies in those, so that a write to a block of a file changes contents only (`PlainWrite`,
`DataWritten`, `BlockWritten`, `SizeWritten`); for that no file may reach past its own blocks, which is
what an unwritten extent would let it do (`Written`, in `Inv`). The arithmetic is in lemmas of its own (`OneGroupOneBit`:
a number has one group and one bit), and `Keeps` summarises the writes
a file does not show.

Its second part proves `WritesImplementStore`, the refinement of
`FileStore` by `Ext4Writes`. Under the mapping `files <- Files(disk)` (the entries with the
contents of their blocks) `Ask` is the store's `Ask`, `AddDirEntry` its `Make`, `OverwriteBlock`
its `Rewrite`, `UpdateInodeSize` its `Resize`, the end of a request its `Tell`, and every other
write a stutter. `RInv` adds to `Inv` how much of an
overwrite is already in the file (`Filled`), and that a request only missing its answer is done
(`Done`). `OthersStayWhole`, the action property `OnlyNamedFileChanges`, follows from the same
steps.

Its third part (with `ImagesCounted`: the images count their free inodes and blocks right, as
those of the run do, where `CountsTrue` says so of the first state) proves `CountsStayTrue`.
`CountInv` adds that the descriptors in memory are those on the card (`InMemory`), without which a
write of one would undo another's count, and that between a bitmap and its descriptor the group
counts at least one too many (`ToLower`), so that the count written next is no less than what is
free. Each fault may leave one count too high, and nothing ever lowers one below the truth.

**`LinkProofs`** (from `LinkAssumption`): every property of the run `link` but its liveness, for
every size of card, file, chunk and counter and any number of jobs, attempts and faults.

- `AnswersArePaired` and `SessionsLeaveRpmb`. A packet does
  not name its question, so what pairs them is how much is on the line. `LinkInv` says that, while
  no exchange was given up, an exchange under way has on the line either its command or at most
  the packets it expects (`Fits`, `AnswerFits`, `ReadExpects`), unless the first of them is refused;
  whatever makes the host give up either leaves nothing behind or is recorded by `astray`.
  `SessionInv` adds the state of the reader `Before` and `After` each step of a session, which one
  it is in while the command is on the line and once an OK is, and that a session's steps are no
  other job's (`Suits`, `Follows`): outside a session nothing on the line switches the reader.
- `RestoresAreTrue`. A restore is pipelined: the answer of a batch is asked for when the next is
  due. `RestoreInv` says that the card holds the file up to the batch that is not answered yet,
  and past it if its answer is on the line and will be accepted (`BatchAnswered`), and that the
  one command on the line is the batch's own (`OwnQuestion`). `BatchStored` is the step of the
  card; a garbled batch touches nothing before its first sector.
- `SteadyDumpsAreCopies`. `DumpInv`: the file is the card up to the offset, what has come of the
  chunk is its beginning, and the packets on the line are the rest of it (`RestOf`), for chunks of
  one sector, of many, and of the zero sectors that a 16-bit remainder can ask for. A retry begins
  the chunk again.
- `VerificationsAreTrue`. Neither `LinkInv`'s pairing nor `Steady` is used: the connection may have
  lost its way. `OwnInv`: no command ever carries a sector of the file to another's address, so a
  card that reads `New(l)` anywhere reads it at `l`. `VerifyInv`: the questions on the line are
  batches with reads behind them, never a batch behind a read. As long as a batch is left
  (`Early`) no packet carries data, so whatever the host accepts adds nothing to what it compares;
  after the last one (`Past`) the card stays as it is, and every packet, late, repeated or
  mispaired, says what is on it. A comparison that got all its sectors and found no difference has
  therefore seen each of them on the card. One that got fewer may have seen none (section 4).

The proofs have a lemma for each operator of the jobs and one step per action. `VerificationsAreTrue`
corrected its property: over a line that still carries a question of an earlier job `VerifyInv`
does not begin to hold, and TLC then found the counterexample of section 3.

**`ReaderProofs`** (from `ReaderAssumption` and `ChunksAssumption`) has four theorems, for
every set of sectors, threads, transports and users, and any number of clicks and faults. The first
is `HexContentsStayHome`. Contents
pass from the card through a thread of `read_sectors`, the channel, the sector panel, the editor,
the dialog, the requested action and a thread of `write_sectors` back to the card, and `HomeInv`
says of each place that what is there belongs to the address beside it. The other operations must be
shown to leave contents alone, whichever of their steps fails: `Harmless` says that a script has a
set of scripts around it, closed under going on and under failing, in which every write takes its
contents home and nothing reports sectors (`Closed`); it holds of every operation but
`read_sectors`, with their branches and retries, and is kept by every step of a thread. Two
recursive functions are in the way, `Repeat` (the chunks of a transfer) and `after` (the messages of
a frame). What holds of all their values is proved from `LeastNumber`, that a set of naturals has a
least element, which follows from the well-founded order of the naturals; the library's theorems on
induction itself are not needed.

The other three, `RateIsKept`, `ShownSettingsHold` and `WritesGoWhereShown`, take one hypothesis
about constants: `KeepaliveAfter < WatchdogAfter`, the ten seconds of the keepalive in `app.rs`
against the eighteen of the watchdog in `UartBridge.scala`. None of the properties is inductive:
each speaks of moments when nothing runs, and what holds then depends on what the last thread did,
what it still reports, and where a failing step sends it. The invariant `ShownInv` says that, as long as no
cause of `BaudKept` has come up (`Together`), at most one thread is alive, and some
*outlook* `k` is faithful to it and safe for the rest of its script:

- An outlook holds what there is to know: the port of the thread, the rate, clock, width and
  partition of the reader, and those the panel *will* show when all messages on the way have been
  received (`Seen`). `Faithful` ties each field to the state.
- `Safe(k, script)` says that the script, begun in `k`, works out whatever its polls and ports do:
  a command is sent at the reader's rate or fails (`MayWork`, `MayFail`), each step takes `k`
  to `Later(k, step)`, a write comes while the partition shown is the reader's (`Proper`), and at the
  end all is told: panel and reader agree (`Over`). Like `Harmless` it is a set closed under
  going on and under failing (`Lawful`), so that it is proved once for each operation of `ReaderOps`
  and consumed one step at a time (`SafeStep`). Most operations are `Calmly` safe, from any
  sound outlook; those of the connection, the rate, the partition and the keepalive have
  a lemma each, which follows the rate through the switch and through its fall back.
- `kept` is the part that concerns time: the reader has not been silent for longer than the GUI
  thinks (`fpga.quiet <= idle`). While connected over UART at a raised rate `RateShown` demands it,
  so that the keepalive is due before the watchdog bites (`TickFollows`).
- `strict` marks runs without the further causes of `SettingsShown`; clock, width and partition
  are compared in those only. Writing byte 179 or 183 of the Extended CSD by hand is one of them (`switched`).

`WorkerFollows` is the step of the thread, `StartFollows` the start of one, `LookFollows` every
button that starts none, `ProcessMessagesFollows` and `TickFollows` the rest. `Followed` quantifies
over scripts and outlooks, which TLC cannot enumerate: it checked the three properties, not the
invariant. The proof corrected the model: `SettingsShown` and
`WritesWhereShown` used to pass without `unconnected`, and the proof failed at the RPMB dialog
confirmed after a Disconnect, for which three clicks were too few; five show it.

**`ProgrammerProofs`** (from `ProgrammerAssumption`): `ErasesHome`, `FilesGoHome`,
`ConnectedMeansConnection`, `PanelShowsTheReader`, `ConnectionAtTheRate`, which are all the safety
properties of the run `programmer`, for every set of threads, connections, sectors, transports and
users, and any number of clicks and faults. All five speak of several threads, and none is inductive: a
thread is only the rest of its script, and whether the next step is right depends on those before
it. The invariant is therefore `\E ph : Sound(ph)`, where `ph` gives every thread a phase, what it has
behind it: the range it has sent to the card, the setting it has changed and not yet reported, the
rate it has set in the reader and not yet in the connection, whether a step has failed.
`Legal(p, a)` says which step may come in a phase; `Follows(p, script)` that every step of the script is
legal where it comes, whichever steps before it fail, so that a property of whole scripts is
proved once for each operation of `ProgrammerOps` and consumed one step at a time
(`FollowsStep`). The conjuncts of `Sound`:

- `Threads`, `LocksApart`, `OneConnection`: threads are in the phase `ph` says, a lock has one
  holder, and without a second connection all threads have the same lock.
- `Guarded`: a range begun and a setting owed are what the reader has, and their thread has the lock.
  `ErasedAtHome` follows, as long as the card obeys the commands of an erase and nobody types one of them
  (`Unspoilt`: none of `shared`, `refused` and `raw`), and so does the order of the reports: the message for a setting is sent
  before another thread can change it.
- `Dialogs`, `Granted`, `FilesAtHome`: a command under confirmation names what its dialog was opened
  for, and only a user who moved lets a thread write elsewhere.
- `Waiting`: while a connecting runs, or its message is on the way, the GUI waits for it, there is
  only one, and nobody else changes clock or rate.
- `Shown`: what the GUI *will* show, once it has read its messages (`Heard`), is what the reader has,
  but for the setting a thread owes or a connecting that is under way. `SettingsShown` itself says
  nothing while messages are on the way.
- `Rates`: with one thread at a time the connection matches the reader, but for the thread that is
  about to reopen it.

A step of a thread is summarised by `Goes` (its phase is that after the step, or after missing it)
and `Effects` (what it changes), and each conjunct is shown to survive the summary. The two recursive
functions, the chunks of a transfer and the messages of a frame, are treated as in `ReaderProofs`.

TLC checks the same properties in `transfers`, `control`, `rpmb`, `clkgen`, `ext4`, `link`, `reader`
and `programmer`, and found them to hold before they were proved, with two exceptions: the missing `unconnected` of above, and with five clicks in the hex editor
`HexStaysHome` used to pass without `moved` for the dialog; the proof of `HomeInv` failed at the
opening of other contents, and seven clicks show it. `TypeOK` of `HostLink`, `ReaderApp`,
`Programmer` and `EmmcClkGen` is in no configuration; it documents their variables, and for
`EmmcClkGen` it is proved.

**Model-checked only:** liveness (`CommandAnswered`, `KeepsRunning`, `JobsEnd`, `OperationEnds`,
`KeepaliveAnswered`), which is out of the prover's reach. The hypotheses of the theorems hold in
the runs that check the same properties, `BootSurvives` in `transfers`, `NoFalseError` in `control`,
`TransferClosed` in `transfers` and `rpmb`, those of `ReaderApp` in `reader`.

## 6. Not modelled, and why

- Bits on the CMD and DAT lines, their CRCs and sampling edges: the engines' outcomes stand for
  them. `EmmcInit`'s command sequence is one step with two outcomes.
- The inside of the bridge: byte FSMs, FIFO counters, receive timeout, the latch of an answer that meets
  a sector. `HostLink` has the bridge as a reader that ends one answer before it takes the
  next command; what it does for a host that does not wait is outside the claims above.
- The clock divider and the controller are checked apart. The controller's model stops the card
  in the edge after `clkPause`; `PauseStops` says the divider lets one more edge out, fewer than
  a card needs for a start bit after `CardGap`.
- Response contents (CSD, CID, card status), LEDs, PLL, pin timing, FT245 handshake, CRCs.
- The layout of packets, and the MACs, counters and result codes of RPMB frames: a frame is
  valid or too short.
- ext4: a block written in part (the write of a block is one step; it is several sectors on the card), sparse
  files (the logical numbers of extents, which `file_ops.rs:216-229` ignores too), extents outside the inode,
  reading and listing, recovery of damaged extent nodes, legacy block maps (which the code
  refuses to write), checksums and times. The journal, uninitialised groups and indexed
  directories are ignored by the code and so are absent. `rename_entry` has no caller.
  `tools/emmc_tool_rs/src/ext4` is a second copy of the library and was not translated.
- A rate of 2,000,000 baud to begin with (`panels/connection.rs:77-95`): the first rate is the default one.
- Programmer: `HexWriteBack` (nothing sends it), `WriteSectorsData`, the image manager, the hex
  panel, progress, the parsing of tables, poisoning of the mutex by a panicking thread.
- Partition tables and registers of the card are parsed sequentially, without state. The command
  line tools run one command after another over the same protocol.

## 7. Plan

In order:

1. `UartBridge`: receive and transmit FSMs at packet level, with CRC errors, receive timeouts, an
   answer started while a sector is sent, a write handed on before its CRC-8 is known, the ready
   counter; composed with the controller in place of `PortEdge`, and shown to implement the
   reader of `HostLink`.
2. `EmmcInit`, `EmmcCmd`, `EmmcDat`: the engines, shown to implement the handshake used here,
   with the timeouts that justify the fairness; controller and divider together.
3. The command line tools as clients of `HostLink`; `Ft245Fifo`; CRCs as recursive functions
   against their definition by polynomial division.
4. Mount-time reading of ext4: what `open` accepts.

Theorems still worth proving: that the engines of step 2 implement the handshake the controller
relies on, once they are modelled.
