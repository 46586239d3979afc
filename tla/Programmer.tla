----------------------------- MODULE Programmer -----------------------------
(***************************************************************************)
(* The programmer application (emmc-programmer): the GUI thread with its     *)
(* AppState and its panels, the worker threads, the connection they share    *)
(* behind a mutex, the channel they report over, and the reader.  A thread    *)
(* keeps the connection it was started with, also when the GUI has           *)
(* disconnected meanwhile; and it may go on after the message that ends its   *)
(* operation for the GUI, to verify what it wrote.                           *)
(***************************************************************************)
EXTENDS ProgrammerOps

CONSTANTS
    Slots,          \* worker threads that can be alive at a time (bound)
    Handles,        \* connections that can be alive at a time (bound)
    Lbas,           \* sectors the user works on; those of file systems among them
    Exclusive,      \* may a serial port be opened by one holder at a time only?
    Users           \* what users may do: buttons and speed profiles they try, transports
                    \* they have (TRUE is FT245, FALSE is UART), clicks (bound), and
                    \* requests, answers, files and ports that fail (bound)

ASSUME ProgrammerAssumption ==
    /\ Exclusive \subseteq BOOLEAN
    /\ Handles \subseteq Nat \ {0} /\ Lbas \subseteq Nat
    /\ Users \subseteq [buttons : SUBSET STRING, profiles : SUBSET SpeedProfile,
                        ports : SUBSET BOOLEAN, clicks : Nat, faults : Nat]

VARIABLES
    ui,         \* AppState, and which connection ProgrammerApp::programmer is
    workers,    \* the threads
    channel,    \* WorkerMessages sent and not yet received
    rate,       \* the baud rate each connection is open at
    exclusive,  \* whether the system refuses to open a port twice
    fpga,       \* the reader: baud, clock, bus width; the card: data lines, partition,
                \* erase range, and whether it is idle and hears nothing but REINIT
    card,       \* whose content each sector of each partition holds
    user,       \* the user, with the clicks and the faults that are left
    upset       \* history: causes that may set GUI and reader apart

vars == <<ui, workers, channel, rate, exclusive, fpga, card, user, upset>>

Partitions == {"User", "Boot0", "RPMB"}
Causes == {"fault", "taken", "reinit", "forgotten", "silent", "stray", "moved", "overlap",
           "shared", "refused", "raw"}
None == [name |-> "none"]
NoLba == CHOOSE l \in Lbas : TRUE
NoRange == <<>>

AppState(fifo) ==
    [use_fifo |-> fifo, status |-> "idle", connected |-> FALSE, programmer |-> 0,
     baud |-> DefaultBaud, clk_preset |-> 0, bus_width |-> 1, active_partition |-> "User",
     table |-> FALSE, partition_read_pending |-> FALSE, hex |-> FALSE,
     ext4_lba |-> NoLba, ext4 |-> FALSE, file |-> FALSE, results |-> FALSE,
     cancel |-> FALSE, dialog |-> None, pending |-> None, drawn |-> FALSE]

\* "connects" tells the thread of do_connect from the others.
NoThread == [rest |-> <<>>, handle |-> 0, holds |-> FALSE, connects |-> FALSE]
Thread(h, script) == [NoThread EXCEPT !.rest = script, !.handle = h]

Init ==
    /\ user \in Users /\ \E fifo \in user.ports : ui = AppState(fifo)
    /\ workers = [s \in Slots |-> NoThread]
    /\ channel = <<>> /\ rate = [h \in Handles |-> DefaultBaud] /\ exclusive \in Exclusive
    /\ fpga = [baud |-> DefaultBaud, clk |-> 0, width |-> 1, lines |-> 1, part |-> "User",
               range |-> NoRange, idle |-> FALSE]
    /\ card = [p \in Partitions |-> [l \in Lbas |-> <<p, l>>]]
    /\ upset = {}

-----------------------------------------------------------------------------
(* AppState. *)

is_busy == ui.status = "running"
set_running(u) == [u EXCEPT !.status = "running", !.cancel = FALSE]
set_completed(u) == [u EXCEPT !.status = "completed"]
set_failed(u) == [u EXCEPT !.status = "failed"]

Alive(s) == workers[s] # NoThread
Quiescent == channel = <<>> /\ \A s \in Slots : ~Alive(s)
\* A connection lives, with its port, as long as anyone refers to it.
InUse(h) == ui.programmer = h \/ \E s \in Slots : workers[s].handle = h
\* A second holder of a port; an FT245 never has two.
Refused(fifo) == (exclusive \/ fifo) /\ \E h \in Handles : InUse(h)

Free(threads) == \E s \in Slots : threads[s] = NoThread
Start(threads, thread) ==
    [threads EXCEPT ![CHOOSE s \in Slots : threads[s] = NoThread] = thread]
\* One thread, or the two of a click that gives two commands.
Spawn(threads, causes) ==
    LET one == Start(workers, threads[1])
    IN  /\ Free(workers)
        /\ IF Len(threads) = 1 THEN workers' = one
           ELSE Free(one) /\ workers' = Start(one, threads[2])
        /\ upset' = upset \union causes
                      \union (IF Quiescent /\ Len(threads) = 1 THEN {} ELSE {"overlap"})

FileData == <<"file", ui.ext4_lba>>

\* What execute_command starts for a command; ext4 commands work on the file
\* system chosen at that moment.
Script(cmd) ==
    CASE cmd.name = "Identify" -> Identify
      [] cmd.name = "ReadSectors" -> ReadSectors(cmd.lba)
      [] cmd.name = "ReadToFile" -> ReadToFile(cmd.lba)
      [] cmd.name = "WriteSectors" -> WriteSectors(cmd.lba, <<"file", cmd.lba>>, cmd.verify)
      [] cmd.name = "Erase" -> EraseSectors(cmd.lba)
      [] cmd.name = "SecureErase" -> SecureErase(cmd.lba)
      [] cmd.name = "Verify" -> Verify(cmd.lba)
      [] cmd.name = "BlankCheck" -> BlankCheck(cmd.lba)
      [] cmd.name = "DumpFull" -> DumpFull(NoLba, cmd.verify)
      [] cmd.name = "RestoreFull" -> RestoreFull(NoLba, <<"file", NoLba>>, cmd.verify)
      [] cmd.name = "SetPartition" -> SetPartition(cmd.part)
      [] cmd.name = "SetSpeed" -> SetSpeed(cmd.preset)
      [] cmd.name = "SetBaud" -> SetBaud(cmd.preset)
      [] cmd.name = "SetBusWidth" -> SetBusWidth(cmd.width)
      [] cmd.name = "Reinit" -> Reinit
      [] cmd.name = "ReadExtCsd" -> ReadExtCsd
      [] cmd.name = "ControllerStatus" -> ControllerStatus
      [] cmd.name = "CardStatus" -> SendRawCmd(Nothing, cmd.name)
      [] cmd.name \in {"WriteExtCsd", "SendRawCmd"} -> SendRawCmd(cmd.cmd, cmd.name)
      [] cmd.name = "Ext4Load" -> Ext4Load(cmd.lba)
      [] cmd.name = "Ext4Navigate" -> Ext4Navigate(ui.ext4_lba)
      [] cmd.name = "Ext4ReadFile" -> Ext4ReadFile(ui.ext4_lba)
      [] cmd.name = "Ext4OverwriteFile" -> Ext4OverwriteFile(ui.ext4_lba, cmd.data)
      [] cmd.name = "Ext4CreateFile" -> Ext4CreateFile(ui.ext4_lba, cmd.data)
      [] cmd.name = "Ext4Search" -> Ext4Search(ui.ext4_lba)

is_destructive(cmd) ==
    \/ cmd.name \in {"WriteSectors", "Erase", "SecureErase", "RestoreFull", "WriteExtCsd",
                     "Ext4OverwriteFile", "Ext4CreateFile"}
    \/ cmd.name = "SetPartition" /\ cmd.part = "RPMB"

Sets(u) == ui' = u /\ UNCHANGED <<workers, upset>>

\* A card that is re-initialised, a file system chosen under an open dialog.
CausesOf(cmd) ==
    (IF cmd.name = "Reinit" THEN {"reinit"} ELSE {})
      \union (IF cmd.name = "Ext4Load" /\ ui.dialog # None THEN {"moved"} ELSE {})

\* u is the state of the GUI the commands are executed in, the panel's own
\* changes included.
Execute(u, cmds, causes) ==
    IF u.programmer = 0
    THEN ui' = set_failed(u) /\ upset' = upset \union causes /\ UNCHANGED workers
    ELSE /\ Spawn([i \in DOMAIN cmds |-> Thread(u.programmer, Script(cmds[i]))], causes)
         /\ ui' = set_running(u)

dispatch_command(u, cmd) ==
    IF is_destructive(cmd)
    THEN Sets([u EXCEPT !.dialog = cmd])
    ELSE Execute(u, <<cmd>>, CausesOf(cmd))

-----------------------------------------------------------------------------
(* The panels.  A frame handles the messages, then the confirmed command, and  *)
(* then draws the panels, which handle a click.                                *)

Drawn == [ui EXCEPT !.drawn = FALSE]
Click(button) ==
    /\ ui.drawn /\ button \in user.buttons /\ user.clicks > 0
    /\ user' = [user EXCEPT !.clicks = @ - 1]
    /\ UNCHANGED <<channel, exclusive, fpga, card>>
Enabled(button) == Click(button) /\ ui.connected /\ ~is_busy /\ UNCHANGED rate

\* What a byte of the Extended CSD and a typed command may do: switch the partition
\* (byte 179) or the data lines (183), prepare and start an erase, reset the card.
Switches ==
    {Nothing} \union [does : {"switch_part"}, to : Partitions]
      \union [does : {"switch_lines"}, to : {1, 4}]
TypedCommands ==
    Switches \union [does : {"cmd35", "cmd36", "cmd38"}, to : Lbas] \union [does : {"cmd0"}, to : {0}]

\* The buttons that dispatch one command and do nothing else.
Offers(button) ==
    CASE button = "info" -> {[name |-> n] : n \in {"Identify", "ReadExtCsd"}}
      [] button = "status" -> {[name |-> n] : n \in {"ControllerStatus", "CardStatus"}}
      [] button = "raw" -> {[name |-> "SendRawCmd", cmd |-> c] : c \in TypedCommands}
      [] button = "extcsd" -> {[name |-> "WriteExtCsd", cmd |-> c] : c \in Switches}
      [] button = "reinit" -> {[name |-> "Reinit"]}
      [] button = "read" -> {[name |-> n, lba |-> NoLba] : n \in {"ReadSectors", "ReadToFile"}}
      [] button = "write" ->
             {[name |-> "WriteSectors", lba |-> NoLba, verify |-> v] : v \in BOOLEAN}
      [] button = "erase" -> {[name |-> "Erase", lba |-> l] : l \in Lbas}
      [] button = "secure_erase" -> {[name |-> "SecureErase", lba |-> l] : l \in Lbas}
      [] button = "verify" -> {[name |-> n, lba |-> NoLba] : n \in {"Verify", "BlankCheck"}}
      [] button = "full" ->
             {[name |-> n, verify |-> v] : n \in {"DumpFull", "RestoreFull"}, v \in BOOLEAN}
      [] button = "partition" -> {[name |-> "SetPartition", part |-> p] : p \in Partitions}
      [] button = "clock" -> {[name |-> "SetSpeed", preset |-> p] : p \in {0, 3}}
      [] button = "baud" -> {[name |-> "SetBaud", preset |-> p] : p \in Presets}
      [] button = "width" -> {[name |-> "SetBusWidth", width |-> w] : w \in {1, 4}}
      [] OTHER -> {}
Press == \E b \in user.buttons : Enabled(b) /\ \E cmd \in Offers(b) : dispatch_command(Drawn, cmd)

Refresh ==
    /\ Click("refresh") /\ Spawn(<<Thread(0, Done("PortsScanned"))>>, {})
    /\ ui' = Drawn /\ UNCHANGED rate
ToggleFifo ==
    Click("toggle") /\ Sets([Drawn EXCEPT !.use_fifo = (~@ /\ TRUE \in user.ports)]) /\ UNCHANGED rate
Cancel == Click("cancel") /\ is_busy /\ Sets([Drawn EXCEPT !.cancel = TRUE]) /\ UNCHANGED rate

Fresh == fpga.baud = DefaultBaud /\ fpga.clk = 0 /\ fpga.part = "User" /\ fpga.width = ui.bus_width

\* The reader may be in a state that nobody remembers, and a thread of a connection
\* that was dropped may still be at work: then two connections share the reader.
ConnectCauses ==
    (IF Fresh THEN {} ELSE {"forgotten"})
      \union (IF \E s \in Slots : workers[s].handle # 0 THEN {"shared"} ELSE {})

\* The port is opened by the GUI thread itself, at the default rate.
do_connect ==
    /\ Click("connect") /\ ~ui.connected /\ ~is_busy
    /\ IF Refused(ui.use_fifo)
       THEN Sets(set_failed(Drawn)) /\ UNCHANGED rate
       ELSE \E h \in Handles, profile \in user.profiles :
              /\ ~InUse(h)
              /\ rate' = [rate EXCEPT ![h] = IF ui.use_fifo THEN 0 ELSE DefaultBaud]
              /\ Spawn(<<[Thread(h, Negotiate(ui.use_fifo, profile)) EXCEPT !.connects = TRUE]>>,
                       ConnectCauses)
              /\ ui' = set_running([Drawn EXCEPT !.programmer = h])

\* The partition is forgotten; the reader is not told.  A command that waits for
\* its confirmation goes on waiting.
do_disconnect ==
    /\ Enabled("disconnect")
    /\ ui' = set_completed([Drawn EXCEPT
                 !.programmer = 0, !.connected = FALSE, !.active_partition = "User",
                 !.table = FALSE, !.hex = FALSE, !.ext4 = FALSE, !.ext4_lba = NoLba,
                 !.file = FALSE, !.results = FALSE])
    /\ upset' = upset \union (IF ui.dialog # None THEN {"moved"} ELSE {})
    /\ UNCHANGED workers

ReadTable ==
    /\ Enabled("table")
    /\ dispatch_command([Drawn EXCEPT !.partition_read_pending = TRUE],
                        [name |-> "ReadSectors", lba |-> NoLba])
\* By its button, or because a table was asked for: from whatever is in the editor.
ParseTable ==
    /\ ui.drawn /\ ui.hex /\ ~ui.table /\ ("table" \in user.buttons)
    /\ ui.partition_read_pending => ~is_busy
    /\ Sets([ui EXCEPT !.table = TRUE, !.partition_read_pending = FALSE])
    /\ UNCHANGED <<channel, rate, exclusive, fpga, card, user>>

\* A file system is chosen: Browse in the table of partitions, or Load ext4.
Choose(l) == dispatch_command([Drawn EXCEPT !.ext4_lba = l], [name |-> "Ext4Load", lba |-> l])
Browse == Enabled("browse") /\ ui.table /\ \E l \in Lbas : Choose(l)
LoadFs == Enabled("load_fs") /\ \E l \in Lbas : Choose(l)
Navigate ==
    /\ Enabled("navigate") /\ ui.ext4
    /\ \E name \in {"Ext4Navigate", "Ext4ReadFile", "Ext4Search"} :
         dispatch_command(Drawn, [name |-> name])
\* Two commands in one click: the directory and the file.
OpenResult ==
    /\ Enabled("result") /\ ui.ext4 /\ ui.results
    /\ Execute(Drawn, <<[name |-> "Ext4Navigate"], [name |-> "Ext4ReadFile"]>>, {})
OverwriteFile ==
    /\ Enabled("overwrite") /\ ui.ext4 /\ ui.file
    /\ dispatch_command(Drawn, [name |-> "Ext4OverwriteFile", data |-> FileData])
CreateFile ==
    /\ Enabled("create") /\ ui.ext4
    /\ dispatch_command(Drawn, [name |-> "Ext4CreateFile", data |-> FileData])
OpenInHex ==
    Click("open_hex") /\ ui.file /\ Sets([Drawn EXCEPT !.hex = TRUE]) /\ UNCHANGED rate

\* The dialog is not modal; the other panels go on working under it.
ConfirmDialog ==
    /\ ui.drawn /\ ui.dialog # None
    /\ \E confirmed \in BOOLEAN :
         ui' = [Drawn EXCEPT !.dialog = None, !.pending = IF confirmed THEN ui.dialog ELSE None]
    /\ UNCHANGED <<workers, channel, rate, exclusive, fpga, card, user, upset>>

-----------------------------------------------------------------------------
(* The beginning of a frame. *)

\* Variant: any error ends the connection.
CleanUpAlways(u) == [u EXCEPT !.programmer = 0]
\* "If connection failed before Connected message, clean up".
CleanUp(u) == [u EXCEPT !.programmer = IF u.connected THEN @ ELSE 0]

receive(u, m) ==
    CASE m.type = "ConnectedWithSpeed" ->
             set_completed([u EXCEPT !.connected = TRUE, !.baud = m.baud, !.clk_preset = m.clk])
      [] m.type = "SectorsRead" -> set_completed([u EXCEPT !.hex = TRUE])
      [] m.type = "PartitionSet" -> set_completed([u EXCEPT !.active_partition = m.part])
      [] m.type = "SpeedSet" -> set_completed([u EXCEPT !.clk_preset = m.preset])
      [] m.type = "BusWidthSet" -> set_completed([u EXCEPT !.bus_width = m.width])
      [] m.type = "BaudSet" -> set_completed([u EXCEPT !.baud = m.baud])
      [] m.type = "Ext4Loaded" -> set_completed([u EXCEPT !.ext4 = TRUE])
      [] m.type = "Ext4DirListing" -> set_completed([u EXCEPT !.file = FALSE])
      [] m.type = "Ext4FileContent" -> set_completed([u EXCEPT !.file = TRUE])
      [] m.type = "Ext4SearchDone" -> set_completed([u EXCEPT !.results = TRUE])
      [] m.type = "Mismatch" -> set_failed(u)
      [] m.type = "Error" ->
             set_failed(CleanUp(u))
      [] m.type = "PortsScanned" -> u
      [] OTHER -> set_completed(u)

\* The end of some operation that reaches a GUI which is connecting, but not from its
\* connecting: from a thread of an earlier connection, or of a command confirmed
\* meanwhile.  The GUI takes it for the end of the connecting.
OfConnecting(m) == m.type = "ConnectedWithSpeed" \/ (m.type = "Error" /\ m.connects)
Stray(m) == is_busy /\ ~ui.connected /\ m.type # "PortsScanned" /\ ~OfConnecting(m)

\* The state after the messages of a frame.
process_messages(u, messages) ==
    LET after[n \in 0..Len(messages)] == IF n = 0 THEN u ELSE receive(after[n - 1], messages[n])
    IN  after[Len(messages)]

update ==
    LET told  == [process_messages(ui, channel) EXCEPT !.drawn = TRUE]
        stray == IF \E i \in DOMAIN channel : Stray(channel[i]) THEN {"stray"} ELSE {}
    IN  /\ ~ui.drawn \/ channel # <<>>
        /\ IF ui.pending = None
           THEN ui' = told /\ upset' = upset \union stray /\ UNCHANGED workers
           ELSE IF told.programmer = 0
           THEN /\ ui' = set_failed([told EXCEPT !.pending = None])
                /\ upset' = upset \union stray /\ UNCHANGED workers
           ELSE /\ Spawn(<<Thread(told.programmer, Script(ui.pending))>>, stray)
                /\ ui' = set_running([told EXCEPT !.pending = None])
        /\ channel' = <<>>
        /\ UNCHANGED <<rate, exclusive, fpga, card, user>>

-----------------------------------------------------------------------------
(* The threads. *)

Preset(baud) == CHOOSE p \in Presets : UART_BAUD_RATES[p] = baud

Runs(s, do) == workers[s].rest # <<>> /\ Head(workers[s].rest).do = do
\* A thread that has nothing left to do ends: the lock and the connection go.
Continue(s, w, steps) ==
    workers' = [workers EXCEPT ![s] =
                    IF steps = <<>> THEN NoThread ELSE [w EXCEPT !.rest = steps]]
Proceed(s, w) == Continue(s, w, Tail(w.rest))
Fail(s, w) ==
    LET step == Head(w.rest) IN Continue(s, w, IF step.lax THEN Tail(w.rest) ELSE step.fails)
Spends == user.faults > 0 /\ user' = [user EXCEPT !.faults = @ - 1]
Faulty == Spends /\ upset' = upset \union {"fault"}
NoFault == UNCHANGED <<user, upset>>

TakeLock(s) ==
    LET w == workers[s]
    IN  /\ Runs(s, "lock")
        /\ \A t \in Slots : ~(workers[t].holds /\ workers[t].handle = w.handle)
        /\ Proceed(s, [w EXCEPT !.holds = TRUE])
        /\ UNCHANGED <<ui, channel, rate, exclusive, fpga, card, user, upset>>

Release(s) ==
    /\ Runs(s, "unlock") /\ Proceed(s, [workers[s] EXCEPT !.holds = FALSE])
    /\ UNCHANGED <<ui, channel, rate, exclusive, fpga, card, user, upset>>

\* The thread's own connection still has the port open, or the FT245, whose "rate"
\* is 0.
Reopen(s) ==
    LET w     == workers[s]
        taken == exclusive \/ rate[w.handle] = 0
    IN  /\ Runs(s, "reopen")
        /\ \/ ~taken /\ Proceed(s, w) /\ NoFault
           \/ taken /\ Fail(s, w) /\ upset' = upset \union {"taken"} /\ UNCHANGED user
           \/ Faulty /\ Fail(s, w)
        /\ UNCHANGED <<ui, channel, rate, exclusive, fpga, card>>

Replace(s) ==
    LET w == workers[s]
    IN  /\ Runs(s, "replace") /\ Proceed(s, w)
        /\ rate' = [rate EXCEPT ![w.handle] = IF @ = 0 THEN 0 ELSE Head(w.rest).arg]
        /\ UNCHANGED <<ui, channel, exclusive, fpga, card, user, upset>>

AccessFile(s) ==
    LET w == workers[s]
    IN  /\ Runs(s, "file")
        /\ \/ Proceed(s, w) /\ NoFault
           \/ Faulty /\ Fail(s, w)
        /\ UNCHANGED <<ui, channel, rate, exclusive, fpga, card>>

Local == {"lock", "unlock", "reopen", "replace", "file", "tell", "poll"}

Erased(range) ==
    IF Len(range) < 2 THEN {} ELSE {l \in Lbas : l >= range[1] /\ l <= range[2]}
\* An erase is three commands for the card, whoever sends them; CMD36 and CMD38
\* without a beginning of the range are refused.
EraseStart(l) == [fpga EXCEPT !.range = <<l>>]
EraseEnd(l) == [fpga EXCEPT !.range = IF @ = NoRange THEN @ ELSE <<Head(@), l>>]
EraseRange(name) ==
    [card EXCEPT ![fpga.part] =
        [l \in Lbas |-> IF l \in Erased(fpga.range) THEN <<"none", name>> ELSE @[l]]]
\* A command of the user changes the card behind the reader's back.
Typed(cmd) ==
    CASE cmd.does = "switch_part" -> [fpga EXCEPT !.part = cmd.to]
      [] cmd.does = "switch_lines" -> [fpga EXCEPT !.lines = cmd.to]
      [] cmd.does = "cmd0" ->
             [fpga EXCEPT !.lines = 1, !.part = "User", !.range = NoRange, !.idle = TRUE]
      [] cmd.does = "cmd35" -> EraseStart(cmd.to)
      [] cmd.does = "cmd36" -> EraseEnd(cmd.to)
      [] cmd.does = "cmd38" -> [fpga EXCEPT !.range = NoRange]
      [] OTHER -> fpga

\* What the reader and the card do with a command.
Obey(do, arg) ==
    /\ fpga' = CASE do = "set_clk" -> [fpga EXCEPT !.clk = arg]
                 [] do = "set_baud" -> [fpga EXCEPT !.baud = UART_BAUD_RATES[arg]]
                 [] do = "set_bus_width" -> [fpga EXCEPT !.width = arg, !.lines = arg]
                 [] do = "set_partition" -> [fpga EXCEPT !.part = arg]
                 [] do = "reinit" ->
                        [fpga EXCEPT !.width = 1, !.lines = 1, !.part = "User", !.range = NoRange,
                                     !.idle = FALSE]
                 [] do = "cmd35" -> EraseStart(arg)
                 [] do = "cmd36" -> EraseEnd(arg)
                 [] do \in {"cmd38", "erase"} -> [fpga EXCEPT !.range = NoRange]
                 [] do = "raw" -> Typed(arg)
                 [] OTHER -> fpga
    /\ card' = CASE do = "write" -> [card EXCEPT ![fpga.part][arg.lba] = arg.data]
                 [] do = "erase" -> [card EXCEPT ![fpga.part][arg] = <<"none", arg>>]
                 [] do = "cmd38" -> EraseRange(arg)
                 [] do = "raw" /\ arg.does = "cmd38" -> EraseRange(arg.to)
                 [] OTHER -> card

\* The commands of send_raw_command, which drops the status the reader answers with.
RawCommands == {"raw", "cmd35", "cmd36", "cmd38"}
\* No block passes between a reader and a card that use different data lines, and an
\* idle card does not answer.
Garbled(do) ==
    \/ do \in {"read", "write", "get_ext_csd"} /\ (fpga.lines # fpga.width \/ fpga.idle)
    \/ do \in {"erase", "set_bus_width", "set_partition"} /\ fpga.idle
\* What is answered and not done: raw commands to an idle card; set_baud is not even
\* sent over an FT245.
Unheeded(do, h) == (do \in RawCommands /\ fpga.idle) \/ (do = "set_baud" /\ rate[h] = 0)
\* A card that is changed by hand.
ByHand(step) == IF step.do = "raw" /\ step.arg # Nothing THEN {"raw"} ELSE {}

Exchange(s) ==
    LET w    == workers[s]
        step == Head(w.rest)
        deaf == rate[w.handle] # 0 /\ rate[w.handle] # fpga.baud
        idle == Unheeded(step.do, w.handle)
        able == ~deaf /\ ~idle /\ ~Garbled(step.do)
    IN  /\ w.rest # <<>> /\ step.do \notin Local
        /\ \/ /\ able /\ Obey(step.do, step.arg) /\ Proceed(s, w)
              /\ upset' = upset \union ByHand(step) /\ UNCHANGED user
           \/ (deaf \/ Garbled(step.do)) /\ Fail(s, w) /\ NoFault /\ UNCHANGED <<fpga, card>>
           \/ ~deaf /\ idle /\ Proceed(s, w) /\ NoFault /\ UNCHANGED <<fpga, card>>
           \/ /\ able /\ step.do \in RawCommands /\ Spends /\ Proceed(s, w)
              /\ upset' = upset \union {"refused"} /\ UNCHANGED <<fpga, card>>
           \/ able /\ Faulty /\ Fail(s, w) /\ UNCHANGED <<fpga, card>>
           \/ /\ able /\ Spends /\ Fail(s, w) /\ Obey(step.do, step.arg)
              /\ upset' = upset \union {"fault"} \union ByHand(step)
        /\ UNCHANGED <<ui, channel, rate, exclusive>>

\* One flag for all threads; starting an operation clears it.
Poll(s) ==
    LET w == workers[s]
    IN  /\ Runs(s, "poll") /\ IF ui.cancel THEN Fail(s, w) ELSE Proceed(s, w)
        /\ UNCHANGED <<ui, channel, rate, exclusive, fpga, card, user, upset>>

Message(w) ==
    LET m == Head(w.rest).arg
    IN  CASE m.type = "VerifyComplete" -> {m, [type |-> "Mismatch"]}
          [] m.type = "Error" -> {[type |-> "Error", connects |-> w.connects]}
          [] OTHER -> {m}
Report(s) ==
    LET w == workers[s]
    IN  /\ Runs(s, "tell") /\ Proceed(s, w)
        /\ \E m \in Message(w) : channel' = Append(channel, m)
        /\ UNCHANGED <<ui, rate, exclusive, fpga, card, user, upset>>

Worker(s) ==
    TakeLock(s) \/ Release(s) \/ Reopen(s) \/ Replace(s) \/ AccessFile(s)
      \/ Exchange(s) \/ Poll(s) \/ Report(s)

\* 18 seconds of silence: the reader goes back to its default rate.  Nothing in
\* this application keeps it from doing so.
Watchdog ==
    /\ Quiescent /\ fpga.baud # DefaultBaud
    /\ fpga' = [fpga EXCEPT !.baud = DefaultBaud] /\ upset' = upset \union {"silent"}
    /\ UNCHANGED <<ui, workers, channel, rate, exclusive, card, user>>

-----------------------------------------------------------------------------
Panels ==
    \/ Press \/ Refresh \/ ToggleFifo \/ Cancel \/ do_connect \/ do_disconnect
    \/ ReadTable \/ ParseTable \/ Browse \/ LoadFs \/ Navigate \/ OpenResult
    \/ OverwriteFile \/ CreateFile \/ OpenInHex \/ ConfirmDialog

Next == Panels \/ update \/ (\E s \in Slots : Worker(s)) \/ Watchdog

Spec == Init /\ [][Next]_vars

\* The operating system runs every thread and the GUI draws frames.
FairSpec == Spec /\ WF_vars(update) /\ \A s \in Slots : WF_vars(Worker(s))

-----------------------------------------------------------------------------
TypeOK ==
    /\ ui.status \in {"idle", "running", "completed", "failed"}
    /\ ui.programmer \in Handles \union {0} /\ ui.active_partition \in Partitions
    /\ ui.baud \in {0} \union {UART_BAUD_RATES[p] : p \in Presets} /\ ui.clk_preset \in 0..6
    /\ ui.bus_width \in {1, 4} /\ ui.ext4_lba \in Lbas
    /\ \A s \in Slots : workers[s].handle \in Handles \union {0} /\ workers[s].holds \in BOOLEAN
    /\ \A h \in Handles : rate[h] \in {0} \union {UART_BAUD_RATES[p] : p \in Presets}
    /\ fpga.part \in Partitions /\ fpga.range \in Seq(Lbas) /\ Len(fpga.range) <= 2
    /\ upset \subseteq Causes

\* An operation shown as running ends for the GUI: no path through a worker of
\* execute_command ends without a message, and the threads that want the lock of the connection
\* all get it (the inner block of SetBaud, and the drop(p) of do_connect).
OperationEnds == is_busy ~> ~is_busy

Named == \A p \in Partitions, l \in Lbas : card[p][l][1] = "none" => card[p][l][2] = l

\* A secure erase destroys what it named, whatever runs beside it: its three
\* commands reach the card with no other erase in between, unless two connections
\* share the reader (the lock belongs to the connection), the user sends commands of
\* his own, or the card refuses one of the three.
ErasesWhatItNamed == upset \intersect {"shared", "refused", "raw"} = {} => Named

\* A file goes to the file system its dialog was opened in, unless another one is
\* chosen, or the connection dropped, under the open dialog.
OverwriteStaysHome ==
    "moved" \notin upset =>
        \A p \in Partitions, l \in Lbas : card[p][l][1] = "file" => card[p][l][2] = l

Settled == Quiescent /\ ui.connected

\* The settings the panel shows are those of the reader once all is quiet, also
\* when operations overlapped: messages come in the order of the commands they
\* report.  Not so after a lost answer, a REINIT, a disconnection that leaves the
\* reader as it is, a port that cannot be opened twice, two connections at a time,
\* commands the user types and bytes of the Extended CSD he writes, or a connecting
\* that the GUI took for ended before it was.
SettingsShown ==
    Settled /\ upset \subseteq {"overlap", "silent", "moved"}
        => /\ ui.clk_preset = fpga.clk
           /\ ui.bus_width = fpga.width /\ ui.bus_width = fpga.lines /\ ~fpga.idle
           /\ ui.active_partition = fpga.part

\* The shared connection is at the rate of the reader, unless two changes of the
\* rate overlap: the lock is released between a change and its reconnection.
BaudKept ==
    Settled /\ ui.programmer # 0 /\ upset \intersect {"fault", "taken", "silent", "overlap"} = {}
        => rate[ui.programmer] \in {0, fpga.baud}

\* A GUI that shows "Connected" has a connection, unless it took the end of something
\* else for the end of its connecting.
ConnectedHasProgrammer == ui.connected /\ "stray" \notin upset => ui.programmer # 0
=============================================================================
