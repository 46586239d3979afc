------------------------------ MODULE ReaderApp ------------------------------
(***************************************************************************)
(* The reader application as a whole: the GUI thread (emmc-gui/src/app.rs,  *)
(* its panels and AppState), the worker threads it starts, the channel they *)
(* report over, the port they compete for, and the reader with its baud     *)
(* watchdog as seen through the port.  The GUI thread keeps its own idea of *)
(* what is running and of how the reader is set; the properties compare     *)
(* both with what is the case.                                              *)
(* Time passes in ticks of six seconds, and only while nothing is running.  *)
(***************************************************************************)
EXTENDS ReaderOps, FiniteSets

CONSTANTS
    Slots,              \* worker threads that can be alive at a time (bound)
    Lbas,               \* sectors the user works on
    Ports,              \* transports that exist: TRUE is FT245, FALSE is UART
    Users,              \* what users may do: buttons and speed profiles they try, clicks
                        \* (bound), and requests, answers and opens that fail (bound)
    CsdWrites,          \* bytes of the Extended CSD that users write by hand
    PickerTicks,        \* how long the user may look for a file
    KeepaliveAfter,     \* ticks after which last_activity is 10 s ago
    WatchdogAfter       \* ticks after which the reader's baud watchdog fires

ASSUME ReaderAssumption ==
    /\ Ports \subseteq BOOLEAN /\ Lbas \subseteq Nat
    /\ Users \subseteq [buttons : SUBSET STRING, profiles : SUBSET SpeedProfile,
                        clicks : Nat, faults : Nat]
    /\ CsdWrites \subseteq [index : 0..255, value : 0..255]
    /\ PickerTicks \in Nat
    /\ {KeepaliveAfter, WatchdogAfter} \subseteq Nat \ {0}

VARIABLES
    ui,         \* AppState, with the keepalive fields of EmmcApp
    workers,    \* the threads
    channel,    \* WorkerMessages sent and not yet received
    fpga,       \* the reader: baud, clock, bus width, silence; and how its card is set:
                \* data lines it drives, partition
    card,       \* whose content each sector of each partition holds
    idle,       \* ticks since last_activity
    user,       \* the user, with the clicks and the faults that are left
    upset       \* history: causes that may set GUI and reader apart

vars == <<ui, workers, channel, fpga, card, idle, user, upset>>

EmmcPartition == {"User", "Boot0", "RPMB"}
Causes == {"fault", "overlap", "reinit", "switched", "reconnect", "unconnected", "silent",
           "picker", "toggle", "moved"}
NoData == <<"none", CHOOSE l \in Lbas : TRUE>>
FileData(l) == <<"file", l>>
Ext4Data == <<"ext4", NoData[2]>>
None == [name |-> "none"]

AppState(fifo) ==
    [use_fifo |-> fifo, status |-> "idle", connected |-> FALSE,
     selected_baud |-> DefaultBaud, baud_preset |-> 0, clk_preset |-> 0,
     bus_width |-> 1, active_partition |-> "User",
     sized |-> FALSE, table |-> FALSE, ext4 |-> FALSE, preview |-> FALSE,
     sector |-> NoData, sector_lba |-> NoData[2], hex |-> NoData, hex_source |-> {},
     hex_modified |-> FALSE, cancel |-> FALSE, dialog |-> None, pending |-> None,
     picker |-> None, waited |-> 0, keepalive_pending |-> FALSE]

NoThread == [rest |-> <<>>, open |-> FALSE, baud |-> 0, got |-> NoData, op |-> FALSE]

Init ==
    /\ \E fifo \in Ports : ui = AppState(fifo)
    /\ workers = [s \in Slots |-> NoThread]
    /\ channel = <<>>
    /\ fpga = [baud |-> DefaultBaud, clk |-> 0, width |-> 1, lines |-> 1, part |-> "User",
               quiet |-> 0]
    /\ card = [p \in EmmcPartition |-> [l \in Lbas |-> <<p, l>>]]
    /\ idle = 0 /\ user \in Users /\ upset = {}

-----------------------------------------------------------------------------
(* The GUI's own idea of what is going on. *)

is_busy == ui.status = "running"
set_running(u) == [u EXCEPT !.status = "running", !.cancel = FALSE]
set_completed(u) == [u EXCEPT !.status = "completed"]
set_failed(u) == [u EXCEPT !.status = "failed"]

\* The GUI thread is not stuck in a file dialog, and the action chosen in the
\* last frame has been dispatched.
Responsive == ui.picker = None /\ ui.pending = None
Alive(s) == workers[s].rest # <<>> \/ workers[s].open
Quiescent == channel = <<>> /\ \A s \in Slots : ~Alive(s)

\* A new thread; "op" tells that of an operation from a keepalive or a scan.
Spawn(script, op, causes) ==
    /\ \E s \in Slots : ~Alive(s)
    /\ LET s == CHOOSE t \in Slots : ~Alive(t)
       IN  workers' = [workers EXCEPT ![s] = [NoThread EXCEPT !.rest = script, !.op = op]]
    /\ upset' = upset \union causes
                      \union (IF Quiescent THEN {} ELSE {"overlap"})

\* A button that starts an operation at once.
Launches(u, script) == Spawn(script, TRUE, {}) /\ ui' = set_running(u)
\* A button that only changes the state of the GUI: a dialog, a picker, a request
\* for the next frame.
Sets(u) == ui' = u /\ UNCHANGED <<workers, upset>>
Asks(action) == Sets([ui EXCEPT !.dialog = action])
Requests(action) == Sets([ui EXCEPT !.pending = action])
Picks(action) == Sets([ui EXCEPT !.picker = action, !.waited = 0])

Click(button) ==
    /\ Responsive /\ button \in user.buttons /\ user.clicks > 0
    /\ user' = [user EXCEPT !.clicks = @ - 1]
    /\ UNCHANGED <<channel, fpga, card, idle>>
Enabled(button) == Click(button) /\ ~is_busy /\ ui.connected
baud == IF ui.use_fifo THEN 0 ELSE ui.selected_baud

-----------------------------------------------------------------------------
(* The connection panel. *)

Refresh ==
    Click("refresh") /\ Spawn(scan_ports, FALSE, {}) /\ UNCHANGED ui

ToggleFifo ==
    /\ Click("toggle") /\ ui' = [ui EXCEPT !.use_fifo = ~ui.use_fifo]
    /\ upset' = upset \union {"toggle"} /\ UNCHANGED workers

Fresh ==
    /\ fpga.baud = DefaultBaud /\ fpga.clk = 0
    /\ fpga.width = 1 /\ fpga.lines = 1 /\ fpga.part = "User"

Connect ==
    /\ Click("connect") /\ ~is_busy /\ ~ui.connected
    /\ \E profile \in user.profiles :
         Spawn(connect(ui.use_fifo, DefaultBaud, profile), TRUE,
               IF Fresh THEN {} ELSE {"reconnect"})
    /\ ui' = set_running(ui)

\* What is known of the card is forgotten, the settings shown are not.
Disconnect ==
    /\ Enabled("disconnect")
    /\ Sets(set_completed([ui EXCEPT !.connected = FALSE, !.sized = FALSE,
                                     !.table = FALSE, !.ext4 = FALSE]))

\* The new partition is shown before the reader is asked for it.
ShowPartition(part) == [ui EXCEPT !.active_partition = part]
\* Variant: RPMB is shown before the user has confirmed it.
SelectPartitionEarly ==
    \/ /\ Enabled("partition")
       /\ \E part \in EmmcPartition \ {"RPMB"} :
            Launches(ShowPartition(part), set_partition(baud, part))
    \/ /\ Enabled("rpmb")
       /\ Sets([ShowPartition("RPMB") EXCEPT !.dialog = [name |-> "set_partition_rpmb"]])
SelectPartition ==
    \/ /\ Enabled("partition")
       /\ \E part \in EmmcPartition \ {"RPMB"} :
            Launches(ShowPartition(part), set_partition(baud, part))
    \/ Enabled("rpmb") /\ Asks([name |-> "set_partition_rpmb"])

SpeedControl ==
    \/ Enabled("clock") /\ \E p \in {0, 3} : Requests([name |-> "set_clock", preset |-> p])
    \/ /\ Enabled("baud") /\ ~ui.use_fifo
       /\ \E p \in Presets : Requests([name |-> "set_baud", preset |-> p])
    \/ Enabled("width") /\ \E w \in {1, 4} : Requests([name |-> "set_bus_width", width |-> w])

\* The Cancel button, and Escape.
Cancel == Click("cancel") /\ is_busy /\ Sets([ui EXCEPT !.cancel = TRUE])

QuickActions ==
    \E name \in {"controller_status", "card_status", "reinit"} :
        Enabled(name) /\ Requests([name |-> name])
\* No branch of dispatch_pending_action takes this one.
RawCommand == Enabled("raw_cmd") /\ Requests([name |-> "raw_cmd"])

-----------------------------------------------------------------------------
(* The sector panel, and the ExtCSD button of the card panel. *)

Read == Enabled("read") /\ \E l \in Lbas : Launches(ui, read_sectors(baud, l))

\* New contents, from the sectors at "source" or, if it is empty, from a file.  A
\* write-back that is being asked about keeps its address and takes the new ones.
OpenInHex(data, source) ==
    /\ ui' = [ui EXCEPT !.hex = data, !.hex_source = source, !.hex_modified = FALSE]
    /\ upset' = upset \union
          IF ui.dialog.name = "hex_write_back" /\ source # {ui.dialog.lba} THEN {"moved"} ELSE {}
    /\ UNCHANGED workers
\* Variant: the source is what the LBA field says now.
OpenSectorsAt ==
    /\ Click("open_hex") /\ ui.connected /\ ui.sector # NoData
    /\ \E l \in Lbas : OpenInHex(ui.sector, {l})
OpenSectors ==
    /\ Click("open_hex") /\ ui.connected /\ ui.sector # NoData
    /\ OpenInHex(ui.sector, {ui.sector_lba})

WriteFromFile ==
    /\ Enabled("write")
    /\ \E l \in Lbas : Picks([name |-> "ask", action |-> [name |-> "write_sectors", lba |-> l]])

Erase ==
    \E name \in {"erase", "secure_erase"}, l \in Lbas :
        Enabled(name) /\ Asks([name |-> name, lba |-> l])
\* Index and value are typed in.
WriteExtCsd ==
    \/ /\ Enabled("write_extcsd")
       /\ \E write \in CsdWrites :
            Asks([name |-> "write_extcsd", index |-> write.index, value |-> write.value])
    \/ Enabled("cache_flush") /\ Asks([name |-> "cache_flush"])

VerifyVsFile == Enabled("verify") /\ \E l \in Lbas : Picks([name |-> "verify", lba |-> l])
DumpToFile == Enabled("dump") /\ Picks([name |-> "dump"])
RestoreFromFile ==
    Enabled("restore") /\ Picks([name |-> "ask", action |-> [name |-> "restore"]])
ReadExtCsd == Enabled("ext_csd") /\ Launches(ui, read_ext_csd(baud))

-----------------------------------------------------------------------------
(* Partitions, ext4 and the hex editor.  Several of these buttons do not look *)
(* whether an operation is running.                                          *)

ReadPartitions == Enabled("partitions") /\ Launches(ui, read_partitions(baud))
DumpPartition ==
    /\ Click("dump_partition") /\ ui.connected /\ ui.table /\ Picks([name |-> "dump_partition"])
Browse ==
    /\ Click("browse") /\ ui.connected /\ ui.table
    /\ \E l \in Lbas : Launches(ui, ext4_load(baud, l))

LoadFs == Enabled("load_fs") /\ \E l \in Lbas : Launches(ui, ext4_load(baud, l))
navigate_ext4 ==
    /\ Click("navigate") /\ ui.connected /\ ui.ext4
    /\ Launches([ui EXCEPT !.preview = FALSE], ext4_ls(baud, NoData[2]))
read_ext4_file ==
    Click("open_file") /\ ui.connected /\ ui.ext4 /\ Launches(ui, ext4_cat(baud, NoData[2]))
OverwriteFile ==
    /\ Enabled("overwrite") /\ ui.ext4 /\ ui.preview
    /\ Picks([name |-> "ask", action |-> [name |-> "ext4_write"]])
CreateFile ==
    \/ Enabled("create") /\ ui.ext4 /\ Picks([name |-> "create"])
    \/ Enabled("create_empty") /\ ui.ext4 /\ Launches(ui, ext4_create(baud, NoData[2], NoData))

OpenFile ==
    Click("open_ext4_hex") /\ ui.connected /\ ui.ext4 /\ ui.preview /\ OpenInHex(Ext4Data, {})

\* The editor takes the new source at once; the data it shows, it keeps.
HexLoad ==
    /\ Enabled("hex_load")
    /\ \E l \in Lbas :
         /\ Spawn(read_sectors(baud, l), TRUE, IF ui.hex_source = {l} THEN {} ELSE {"moved"})
         /\ ui' = set_running([ui EXCEPT !.hex_source = {l}])
HexEdit == Click("hex_edit") /\ ui.hex # NoData /\ Sets([ui EXCEPT !.hex_modified = TRUE])
HexWriteBack ==
    /\ Enabled("hex_write_back") /\ ui.hex # NoData /\ ui.hex_modified
    /\ \E l \in ui.hex_source : Asks([name |-> "hex_write_back", lba |-> l])
HexDiscard ==
    Click("hex_discard") /\ ui.hex_modified /\ Sets([ui EXCEPT !.hex_modified = FALSE])
HexSave == Click("hex_save") /\ ui.hex # NoData /\ Picks([name |-> "save"])

\* The dialog is not modal and knows nothing of what happened since it was opened.
ConfirmDialog ==
    /\ Responsive /\ ui.dialog # None
    /\ \E confirmed \in BOOLEAN :
         ui' = [ui EXCEPT !.dialog = None, !.pending = IF confirmed THEN ui.dialog ELSE None]
    /\ UNCHANGED <<workers, channel, fpga, card, idle, user, upset>>

\* The file dialog blocks the GUI thread; the choice continues its button's handler.
ClosePicker ==
    LET picked == [ui EXCEPT !.picker = None]
        choice == ui.picker
    IN  /\ choice # None
        /\ \/ Sets(picked)
           \/ choice.name = "ask" /\ Sets([picked EXCEPT !.dialog = choice.action])
           \/ choice.name = "verify" /\ Launches(picked, verify_sectors(baud, choice.lba))
           \/ choice.name = "create" /\ Launches(picked, ext4_create(baud, NoData[2], FileData(NoData[2])))
           \/ /\ \/ choice.name = "dump_partition"
                 \/ choice.name = "dump" /\ ui.sized
              /\ \E verify \in BOOLEAN : Launches(picked, dump_to_file(baud, NoData[2], verify))
        /\ UNCHANGED <<channel, fpga, card, idle, user>>

-----------------------------------------------------------------------------
(* One frame of the GUI: the messages, the requested action, the keepalive. *)

\* What an action becomes; its data is taken from the GUI when it is dispatched.
Script(action) ==
    CASE action.name = "write_sectors" ->
             {write_sectors(baud, action.lba, FileData(action.lba), v) : v \in BOOLEAN}
      [] action.name = "restore" ->
             {restore_from_file(baud, NoData[2], FileData(NoData[2]), v) : v \in BOOLEAN}
      [] action.name = "hex_write_back" ->
             {write_sectors(baud, action.lba, ui.hex, v) : v \in BOOLEAN}
      [] action.name = "erase" -> {erase_sectors(baud, action.lba)}
      [] action.name = "secure_erase" -> {secure_erase_sectors(baud, action.lba)}
      [] action.name = "write_extcsd" -> {write_ext_csd(baud, action.index, action.value)}
      [] action.name = "cache_flush" -> {cache_flush(baud)}
      [] action.name = "card_status" -> {get_card_status(baud)}
      [] action.name = "controller_status" -> {get_controller_status(baud)}
      [] action.name = "reinit" -> {reinit(baud)}
      [] action.name = "set_clock" -> {set_clk_speed(baud, action.preset)}
      [] action.name = "set_baud" -> {set_baud(baud, action.preset)}
      [] action.name = "set_bus_width" -> {set_bus_width(baud, action.width)}
      [] action.name = "ext4_write" -> {ext4_write(baud, NoData[2], FileData(NoData[2]))}
      [] action.name = "set_partition_rpmb" -> {set_partition(baud, "RPMB")}
      [] OTHER -> {}

\* A dialog outlives the connection: RPMB, confirmed after a Disconnect, is shown at
\* once, and asked for at a rate the reader's watchdog may have left.
CausesOf(action) ==
    CASE action.name = "reinit" -> {"reinit"}
      [] action.name = "write_extcsd" /\ action.index \in {179, 183} -> {"switched"}
      [] action.name = "set_partition_rpmb" /\ ~ui.connected -> {"unconnected"}
      [] OTHER -> {}

dispatch_pending_action ==
    LET action == ui.pending
        taken  == [ui EXCEPT !.pending = None,
                             !.active_partition = IF action.name = "set_partition_rpmb"
                                                  THEN "RPMB" ELSE @]
    IN  /\ action # None
        /\ \/ /\ \E script \in Script(action) :
                    Spawn(script, TRUE, CausesOf(action))
              /\ ui' = set_running(taken)
           \/ Script(action) = {} /\ Sets(taken)
           \* the file of the action cannot be read
           \/ /\ action.name \in {"write_sectors", "ext4_write"} /\ Sets(set_failed(taken))
        /\ UNCHANGED <<channel, fpga, card, idle, user>>

ShowSpeed(u, m) ==
    [u EXCEPT !.connected = TRUE, !.selected_baud = m.baud, !.baud_preset = m.preset,
              !.clk_preset = m.clk]
ShowReading(u, m) == [u EXCEPT !.sector = m.data, !.sector_lba = m.lba]
\* Variant: the rate the next operation opens the port at is left as it was.
ShowBaudPreset(u, m) == [u EXCEPT !.baud_preset = m.preset]
ShowBaud(u, m) == [u EXCEPT !.baud_preset = m.preset, !.selected_baud = m.baud]
ShowStatus(u, m) == [u EXCEPT !.clk_preset = m.clk, !.baud_preset = m.preset]

receive(u, m) ==
    CASE m.type = "ConnectedWithSpeed" -> set_completed(ShowSpeed(u, m))
      [] m.type = "ExtCsd" -> set_completed([u EXCEPT !.sized = TRUE])
      [] m.type = "SectorsRead" -> set_completed(ShowReading(u, m))
      [] m.type = "BusWidthSet" -> set_completed([u EXCEPT !.bus_width = m.width])
      [] m.type = "ClkSpeedSet" -> set_completed([u EXCEPT !.clk_preset = m.preset])
      [] m.type = "BaudPresetSet" -> set_completed(ShowBaud(u, m))
      [] m.type = "ControllerStatusReceived" -> set_completed(ShowStatus(u, m))
      [] m.type = "PartitionsRead" -> set_completed([u EXCEPT !.table = TRUE])
      [] m.type = "Ext4Loaded" -> set_completed([u EXCEPT !.ext4 = TRUE])
      [] m.type = "Ext4DirListing" -> set_completed([u EXCEPT !.preview = FALSE])
      [] m.type = "Ext4FileContent" -> set_completed([u EXCEPT !.preview = TRUE])
      [] m.type = "Mismatch" -> set_failed(u)
      [] m.type = "Error" -> set_failed(u)
      [] m.type = "KeepaliveOk" -> [u EXCEPT !.keepalive_pending = FALSE]
      [] m.type \in {"PortsScanned", "CardInfo", "Progress"} -> u
      [] OTHER -> set_completed(u)

\* The state after the first n messages of a frame.
after[n \in 0..Len(channel)] == IF n = 0 THEN ui ELSE receive(after[n - 1], channel[n])

\* Every message counts as activity, also one of a thread that never reached the
\* reader: then the two sides no longer count the same silence.
process_messages ==
    /\ ui.picker = None /\ channel # <<>>
    /\ ui' = after[Len(channel)]
    /\ channel' = <<>> /\ idle' = 0
    /\ upset' = upset \union (IF fpga.quiet > 0 THEN {"silent"} ELSE {})
    /\ UNCHANGED <<workers, fpga, card, user>>

KeepaliveDue ==
    /\ ui.connected /\ ~ui.use_fifo /\ ui.baud_preset > 0
    /\ ~is_busy /\ ~ui.keepalive_pending /\ idle >= KeepaliveAfter

update ==
    /\ Responsive /\ KeepaliveDue
    /\ Spawn(keepalive_ping(ui.selected_baud), FALSE, {})
    /\ ui' = [ui EXCEPT !.keepalive_pending = TRUE] /\ idle' = 0
    /\ UNCHANGED <<channel, fpga, card, user>>

-----------------------------------------------------------------------------
(* The worker threads, and the reader at the other end of the port. *)

Preset(rate) == CHOOSE p \in Presets : UART_BAUD_RATES[p] = rate

Runs(s, do) == workers[s].rest # <<>> /\ Head(workers[s].rest).do = do
Continue(s, w, steps) ==
    workers' = [workers EXCEPT ![s] =
                    IF steps = <<>> /\ ~w.open THEN NoThread ELSE [w EXCEPT !.rest = steps]]
Proceed(s, w) == Continue(s, w, Tail(w.rest))
Fail(s, w) ==
    LET step == Head(w.rest)
    IN  Continue(s, w, IF step.tries > 1
                       THEN <<[step EXCEPT !.tries = @ - 1]>> \o Tail(w.rest)
                       ELSE IF step.lax THEN Tail(w.rest) ELSE step.fails)
Faulty ==
    /\ user.faults > 0 /\ user' = [user EXCEPT !.faults = @ - 1]
    /\ upset' = upset \union {"fault"}
NoFault == UNCHANGED <<user, upset>>

\* A port is open in one thread at a time.
OpenPort(s) ==
    LET w     == workers[s]
        rate  == Head(w.rest).arg
        taken == \E t \in Slots : workers[t].open
    IN  /\ Runs(s, "open")
        /\ \/ /\ ~taken /\ (rate = 0) \in Ports
              /\ Proceed(s, [w EXCEPT !.open = TRUE, !.baud = rate]) /\ NoFault
           \/ (taken \/ (rate = 0) \notin Ports) /\ Fail(s, w) /\ NoFault
           \/ Faulty /\ Fail(s, w)
        /\ UNCHANGED <<ui, channel, fpga, card, idle>>

ClosePort(s) ==
    /\ Runs(s, "close") /\ Proceed(s, [workers[s] EXCEPT !.open = FALSE])
    /\ UNCHANGED <<ui, channel, fpga, card, idle, user, upset>>

Local == {"open", "close", "tell", "poll"}
\* What the reader does with a command it has received.
Obey(do, arg) ==
    /\ fpga' = LET heard == [fpga EXCEPT !.quiet = 0]
               IN  CASE do = "set_clk" -> [heard EXCEPT !.clk = arg]
                     [] do = "set_baud" -> [heard EXCEPT !.baud = UART_BAUD_RATES[arg]]
                     [] do = "set_bus_width" -> [heard EXCEPT !.width = arg, !.lines = arg]
                     [] do = "switch_lines" -> [heard EXCEPT !.lines = arg]
                     [] do \in {"set_partition", "switch_part"} -> [heard EXCEPT !.part = arg]
                     [] do = "reinit" ->
                            [heard EXCEPT !.width = 1, !.lines = 1, !.part = "User"]
                     [] OTHER -> heard
    /\ card' = CASE do = "write" -> [card EXCEPT ![fpga.part][arg.lba] = arg.data]
                 [] do \in {"erase", "secure_erase"} ->
                        [card EXCEPT ![fpga.part][arg] = <<"none", arg>>]
                 [] OTHER -> card
Answer(do, arg) ==
    CASE do = "read" -> card[fpga.part][arg]
      [] do = "get_status" -> [clk |-> fpga.clk, preset |-> Preset(fpga.baud)]
      [] OTHER -> NoData

\* No block passes between a reader and a card that use different data lines.
Garbled(do) == do \in {"read", "write", "get_ext_csd"} /\ fpga.lines # fpga.width

\* A command and its answer.  They pass when both ends are at the same rate; a
\* fault loses the command, or the answer of a command that has been obeyed.
Exchange(s) ==
    LET w    == workers[s]
        step == Head(w.rest)
    IN  /\ w.rest # <<>> /\ step.do \notin Local
        /\ IF w.baud # 0 /\ w.baud # fpga.baud
           THEN Fail(s, w) /\ NoFault /\ UNCHANGED <<fpga, card>>
           ELSE \/ /\ Garbled(step.do) /\ Fail(s, w) /\ NoFault
                   /\ fpga' = [fpga EXCEPT !.quiet = 0] /\ UNCHANGED card
                \/ /\ ~Garbled(step.do) /\ Obey(step.do, step.arg) /\ NoFault
                   /\ Proceed(s, [w EXCEPT !.got = Answer(step.do, step.arg)])
                \/ Faulty /\ Fail(s, w) /\ UNCHANGED <<fpga, card>>
                \/ ~Garbled(step.do) /\ Faulty /\ Fail(s, w) /\ Obey(step.do, step.arg)
        /\ UNCHANGED <<ui, channel, idle>>

\* The cancel flag belongs to the GUI, not to an operation.
Poll(s) ==
    LET w == workers[s]
    IN  /\ Runs(s, "poll") /\ IF ui.cancel THEN Fail(s, w) ELSE Proceed(s, w)
        /\ UNCHANGED <<ui, channel, fpga, card, idle, user, upset>>

\* A verification may find that sectors differ.
Message(w) ==
    LET m == Head(w.rest).arg
    IN  CASE m.type = "SectorsRead" -> {[type |-> m.type, lba |-> m.lba, data |-> w.got]}
          [] m.type = "ControllerStatusReceived" ->
                 {[type |-> m.type, clk |-> w.got.clk, preset |-> w.got.preset]}
          [] m.type = "WriteVerified" -> {m, [type |-> "Mismatch"]}
          [] OTHER -> {m}
Report(s) ==
    LET w == workers[s]
    IN  /\ Runs(s, "tell")
        /\ \E m \in Message(w) : channel' = Append(channel, m)
        /\ Proceed(s, w)
        /\ UNCHANGED <<ui, fpga, card, idle, user, upset>>

\* The connection is dropped when the thread ends, after its last message.
End(s) ==
    /\ workers[s].rest = <<>> /\ workers[s].open
    /\ workers' = [workers EXCEPT ![s] = NoThread]
    /\ UNCHANGED <<ui, channel, fpga, card, idle, user, upset>>

Worker(s) == OpenPort(s) \/ ClosePort(s) \/ Exchange(s) \/ Poll(s) \/ Report(s) \/ End(s)

-----------------------------------------------------------------------------
(* Time.  A file dialog keeps the GUI thread from doing anything meanwhile. *)

CapAt(n, bound) == IF n > bound THEN bound ELSE n

\* The reader goes back to its default rate when it has heard nothing for 18 s.
Watchdog ==
    IF fpga.baud = DefaultBaud THEN [fpga EXCEPT !.quiet = 0]
    ELSE IF fpga.quiet + 1 >= WatchdogAfter
         THEN [fpga EXCEPT !.baud = DefaultBaud, !.quiet = 0]
         ELSE [fpga EXCEPT !.quiet = @ + 1]

Tick ==
    /\ Quiescent
    /\ \/ /\ ui.picker = None /\ ui.pending = None /\ ~KeepaliveDue
          /\ UNCHANGED <<ui, upset>>
       \/ /\ ui.picker # None /\ ui.waited < PickerTicks
          /\ ui' = [ui EXCEPT !.waited = @ + 1]
          /\ upset' = upset \union {"picker"}
    /\ idle' = CapAt(idle + 1, KeepaliveAfter)
    /\ fpga' = Watchdog
    /\ UNCHANGED <<workers, channel, card, user>>

-----------------------------------------------------------------------------
Panels ==
    \/ Refresh \/ ToggleFifo \/ Connect \/ Disconnect \/ SelectPartition \/ SpeedControl
    \/ Cancel \/ QuickActions \/ RawCommand
    \/ Read \/ OpenSectors \/ WriteFromFile \/ Erase \/ WriteExtCsd \/ VerifyVsFile
    \/ DumpToFile \/ RestoreFromFile \/ ReadExtCsd
    \/ ReadPartitions \/ DumpPartition \/ Browse \/ LoadFs \/ navigate_ext4
    \/ read_ext4_file \/ OverwriteFile \/ CreateFile
    \/ OpenFile \/ HexLoad \/ HexEdit \/ HexWriteBack \/ HexDiscard \/ HexSave
    \/ ConfirmDialog

Frame == process_messages \/ dispatch_pending_action \/ update

Next == Panels \/ ClosePicker \/ Frame \/ (\E s \in Slots : Worker(s)) \/ Tick

Spec == Init /\ [][Next]_vars

\* The operating system runs every thread, the GUI draws frames.
FairSpec == Spec /\ WF_vars(Frame) /\ \A s \in Slots : WF_vars(Worker(s))

-----------------------------------------------------------------------------
TypeOK ==
    /\ ui.status \in {"idle", "running", "completed", "failed"}
    /\ ui.selected_baud \in {0} \union {UART_BAUD_RATES[p] : p \in Presets}
    /\ ui.baud_preset \in Presets /\ ui.clk_preset \in 0..6 /\ ui.bus_width \in {1, 4}
    /\ ui.active_partition \in EmmcPartition
    /\ \A s \in Slots : workers[s].open \in BOOLEAN
    /\ fpga.baud \in {UART_BAUD_RATES[p] : p \in Presets} /\ fpga.part \in EmmcPartition
    /\ upset \subseteq Causes

\* Every operation ends for the GUI, unless a file dialog blocks it: set_running is
\* undone by messages only, and a thread that ended without one would leave every
\* button grey (AppState::set_running).
OperationEnds == is_busy ~> (~is_busy \/ ui.picker # None)

\* A keepalive that is under way is over some time, or no other will ever follow.
KeepaliveAnswered == ui.keepalive_pending ~> (~ui.keepalive_pending \/ ui.picker # None)

Settled == Quiescent /\ ui.pending = None /\ ui.connected

\* While nothing runs, the port is opened at the rate the reader listens at,
\* as long as no command is lost, the keepalive is not held up by a file dialog
\* or by messages that no exchange stands behind (a port scan, an operation
\* cancelled at once), and operations do not overlap.
\* (UI-driven keepalive of app.rs against the bridge's watchdog.)
BaudKept ==
    Settled /\ ~ui.use_fifo /\ upset \intersect {"fault", "silent", "picker", "overlap", "toggle"} = {}
        => ui.selected_baud = fpga.baud

\* The clock, the bus width and the partition the panel shows are those of the
\* reader and of its card, as long as none of the causes has come up: above all, the
\* reader has not been re-initialised or been found in another state than its first
\* one, and byte 179 or 183 of the Extended CSD has not been written by hand.
SettingsShown ==
    Settled /\ upset \subseteq {"moved"}
        => /\ ui.clk_preset = fpga.clk /\ ui.active_partition = fpga.part
           /\ ui.bus_width = fpga.width /\ ui.bus_width = fpga.lines

\* A write or an erase changes the partition that is shown, under the same
\* conditions (the partition panel's choice against the threads that write).
WritesWhereShown ==
    [][upset' \subseteq {"moved"} => \A p \in EmmcPartition :
           card'[p] # card[p] => ui.active_partition = p]_vars

\* Contents belong to a sector if they were read from that address, or on purpose
\* come from elsewhere; those of an ext4 file belong to no sector.
Home(data, l) == data[1] # "ext4" /\ (data[1] \in EmmcPartition => data[2] = l)

\* What the hex editor writes back goes where it was read, unless contents and
\* address have come apart: by a Load, which brings an address and no contents, or
\* by opening others while the dialog asks ("Write Back to eMMC" of the editor, and
\* dispatch_pending_action, which takes the contents of that moment).
HexStaysHome ==
    "moved" \notin upset => \A p \in EmmcPartition, l \in Lbas : Home(card[p][l], l)

\* The same whatever the user does.
WriteBackStaysHome ==
    \A p \in EmmcPartition, l \in Lbas : Home(card[p][l], l)
=============================================================================
