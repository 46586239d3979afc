------------------------------ MODULE HostLink ------------------------------
(***************************************************************************)
(* One thread of the host over EmmcConnection (emmc-core/src/protocol.rs,   *)
(* with the jobs of emmc-app/src/operations.rs and rpmb.rs that exchange    *)
(* more than one command), packet by packet over a line that loses and      *)
(* corrupts packets, with the bridge and the card at the other end.         *)
(*                                                                          *)
(* A packet names neither the command it answers nor a sector: the host     *)
(* pairs answers with questions by their order alone.  The model is about   *)
(* what that pairing survives.  The 64 sectors of a read, the 16 of a write *)
(* and the width of the 16-bit counters are constants.  The reader is taken *)
(* to end an answer before the next command comes in.                       *)
(***************************************************************************)
EXTENDS Integers, Sequences

CONSTANTS
    Total,          \* sectors of the card, and of the file that is restored
    Chunk,          \* safe_read_chunk: sectors of a multi-block read
    WriteChunk,     \* MAX_WRITE_CHUNK, CHUNK: sectors of a multi-block write
    Word,           \* values of a u16
    Retries,        \* with_retry(3, ..)
    HasCache,       \* CACHE_SIZE of the card is not zero
    Jobs, MaxJobs,  \* what the user asks for, how often
    MaxFaults,      \* bound on the faults of the line and of the card
    FaultKinds      \* those among Faults that happen

Faults == {"command_lost", "command_corrupt", "answer_corrupt", "late", "card_error"}

ASSUME LinkAssumption ==
    /\ {Total, Chunk, WriteChunk, Word} \subseteq Nat \ {0}
    /\ Chunk < Word /\ WriteChunk < Word
    /\ {Retries, MaxFaults, MaxJobs} \subseteq Nat
    /\ Jobs \subseteq {"dump", "restore", "write", "rpmb"}
    /\ HasCache \in BOOLEAN /\ FaultKinds \subseteq Faults

VARIABLES
    jobs,       \* how many jobs are still to be done
    host,       \* the thread
    toReader,   \* commands on the line
    toHost,     \* packets on the line and in the input buffer
    reader,     \* partition and RPMB mode
    card,       \* contents of the user area
    faults,     \* faults used up
    astray,     \* history: an exchange of this connection was given up before its end
    unsure,     \* history: an RPMB session lost a switch's answer, or went astray
    plain,      \* history: RPMB was accessed without its frames' protocol
    fresh       \* history: the job began over an empty line

vars == <<jobs, host, toReader, toHost, reader, card, faults, astray, unsure, plain, fresh>>

Lba == 0..(Total - 1)
Old(l) == <<"old", l>>
New(l) == <<"new", l>>
Garbled(l) == <<"garbled", l>>
Frame(l) == <<"frame", l>>
Tags(F(_), from, n) == [i \in 1..n |-> F(from + i - 1)]

OK == "ok"
Idle == [job |-> "none", step |-> "none", phase |-> "idle", offset |-> 0, tries |-> 0,
         expect |-> <<>>, got |-> <<>>, out |-> <<>>, readback |-> "same", result |-> "none"]

Init ==
    /\ jobs = MaxJobs /\ host = Idle /\ toReader = <<>> /\ toHost = <<>>
    /\ reader = [part |-> 0, rpmb |-> FALSE]
    /\ card = [l \in Lba |-> Old(l)]
    /\ faults = 0 /\ astray = FALSE /\ unsure = FALSE /\ plain = FALSE /\ fresh = TRUE

-----------------------------------------------------------------------------
(* Commands, and what the host waits for after each: "sector" is a packet    *)
(* of read_sectors_multi, which takes nothing but 512 bytes and OK; "data"   *)
(* and "status" go through recv_response, which skips what is no packet.     *)

Command(cmd, lba, n, data) == [cmd |-> cmd, lba |-> lba, n |-> n, data |-> data, good |-> TRUE]

\* chunk_size.min(remaining as u16)
Count(chunk, offset) ==
    LET remaining == (Total - offset) % Word
    IN  IF remaining < chunk THEN remaining ELSE chunk
\* CHUNK.min(sector_count - written)
Least(chunk, offset) == IF Total - offset < chunk THEN Total - offset ELSE chunk

\* Variant: the completion of a single-block read is not awaited.
ReadSectorsHalf(n) ==
    CASE n = 0 -> <<>>
      [] n = 1 -> <<"data">>
      [] OTHER -> [i \in 1..n |-> "sector"] \o <<"status">>
read_sectors(n) ==
    CASE n = 0 -> <<>>
      [] n = 1 -> <<"data", "status">>
      [] OTHER -> [i \in 1..n |-> "sector"] \o <<"status">>

Reads == {"read", "verify"}
Question(step, offset) ==
    CASE step \in Reads -> Command("read", offset, Count(Chunk, offset), <<>>)
      [] step \in {"write", "send"} ->
             LET n == Least(WriteChunk, offset)
             IN  Command("write", offset, n, Tags(New, offset, n))
      [] step = "rpmb_write" -> Command("write", 0, 1, Tags(Frame, 0, 1))
      [] step = "rpmb_read" -> Command("read", 0, 1, <<>>)
      [] step = "part3" -> Command("set_partition", 3, 0, <<>>)
      [] step = "part0" -> Command("set_partition", 0, 0, <<>>)
      [] step = "mode_on" -> Command("set_rpmb_mode", 1, 0, <<>>)
      [] step = "mode_off" -> Command("set_rpmb_mode", 0, 0, <<>>)
      [] step = "csd" -> Command("get_ext_csd", 0, 0, <<>>)
      [] OTHER -> Command("write_ext_csd", 0, 0, <<>>)       \* "cache", "flush"

Expected(step, offset) ==
    CASE step \in Reads -> read_sectors(Count(Chunk, offset))
      [] step = "rpmb_read" -> read_sectors(1)
      [] step = "csd" -> <<"block", "status">>
      [] step = "send" -> <<>>
      [] OTHER -> <<"status">>

-----------------------------------------------------------------------------
(* The jobs: the step a job begins with, and where it goes from a step that  *)
(* succeeded or failed.  "done" and "error" are what the user is told.       *)

FirstStep(job) ==
    CASE job = "dump" -> "read" [] job = "restore" -> "csd" [] job = "write" -> "write"
      [] job = "rpmb" -> "mode_on"

Ended(h, result) == [h EXCEPT !.phase = "ended", !.result = result]
Ask(h, step) == [h EXCEPT !.phase = "ask", !.step = step,
                          !.tries = IF step \in Reads THEN Retries ELSE 0]

\* What a verification knows after a chunk of n sectors: only as much is compared as
\* came, so that sectors which did not come make no difference.
Compared(h, n) ==
    CASE h.step # "verify" -> h.readback
      [] h.step = "verify" /\ h.got # Tags(New, h.offset, Len(h.got)) -> "different"
      [] OTHER -> IF Len(h.got) # n /\ h.readback = "same" THEN "short" ELSE h.readback
\* A chunk has been read: the file grows by what came, the offset by what was due.
ChunkRead(h) ==
    LET n == Count(Chunk, h.offset)
        g == [h EXCEPT !.out = @ \o h.got, !.offset = @ + n, !.readback = Compared(h, n)]
    IN  IF g.offset < Total THEN Ask(g, h.step) ELSE Ended(g, "done")
\* Variant: the verification compares nothing.
BatchWrittenUnread(h) ==
    LET g == [h EXCEPT !.offset = @ + Least(WriteChunk, h.offset)]
    IN  IF g.offset < Total THEN Ask(g, h.step)
        ELSE IF h.job = "restore" THEN Ask(g, "flush")
        ELSE Ended(g, "done")
\* A batch has been written; the last one is followed by the flush of a restore,
\* and by the verification of a write.
BatchWritten(h) ==
    LET g == [h EXCEPT !.offset = @ + Least(WriteChunk, h.offset)]
    IN  IF g.offset < Total THEN Ask(g, h.step)
        ELSE IF h.job = "restore" THEN Ask(g, "flush")
        ELSE Ask([g EXCEPT !.offset = 0], "verify")

Succeeded(h) ==
    CASE h.step \in Reads -> ChunkRead(h)
      [] h.step = "write" -> BatchWritten(h)
      [] h.step = "recv" -> BatchWritten([h EXCEPT !.step = "send"])
      [] h.step = "csd" -> Ask(h, IF HasCache THEN "cache" ELSE "send")
      [] h.step = "cache" -> Ask(h, "send")
      \* pipelined: the answer is asked for when the next batch is due
      [] h.step = "send" -> [h EXCEPT !.phase = "wait", !.step = "recv", !.expect = <<"status">>]
      [] h.step = "flush" -> Ended(h, IF h.result = "none" THEN "done" ELSE h.result)
      [] h.step = "mode_on" -> Ask(h, "part3")
      [] h.step = "part3" -> Ask(h, "rpmb_write")
      [] h.step = "rpmb_write" -> Ask(h, "rpmb_read")
      \* a frame that is too short is found out after the exchange
      [] h.step = "rpmb_read" ->
             Ask(IF h.got = <<>> THEN [h EXCEPT !.result = "error"] ELSE h, "part0")
      [] h.step = "part0" -> Ask(h, "mode_off")
      [] h.step = "mode_off" -> Ended(h, IF h.result = "none" THEN "done" ELSE h.result)

\* A session switches back what it has switched; how that goes is not looked at.
SwitchedBack(h) ==
    CASE h.step \in {"rpmb_write", "rpmb_read"} -> Ask([h EXCEPT !.result = "error"], "part0")
      [] h.step = "part3" -> Ask([h EXCEPT !.result = "error"], "mode_off")
      [] h.step = "part0" -> Ask(h, "mode_off")
      [] h.step = "mode_off" -> Ended(h, IF h.result = "none" THEN "done" ELSE h.result)
      [] OTHER -> Ended(h, "error")
\* A restore goes on without the write cache, and without the flush; the error of a
\* batch ends it, after the flush.
Tolerated(h) ==
    CASE h.step \in {"csd", "cache"} -> Ask(h, "send")
      [] h.step = "flush" -> Ended(h, IF h.result = "none" THEN "done" ELSE h.result)
Again(h) == [h EXCEPT !.phase = "ask", !.tries = @ - 1]

\* Variant: a failed exchange of a session leaves the reader in RPMB mode.
FailedUncleaned(h) ==
    CASE h.step \in Reads /\ h.tries > 0 -> Again(h)
      [] h.step \in {"csd", "cache", "flush"} -> Tolerated(h)
      [] h.step = "recv" -> Ask([h EXCEPT !.result = "error"], "flush")
      [] OTHER -> Ended(h, "error")
\* Variant: an error of a batch does not end the restore.
FailedOnward(h) ==
    CASE h.step \in Reads /\ h.tries > 0 -> Again(h)
      [] h.step \in {"csd", "cache", "flush"} -> Tolerated(h)
      [] h.step = "recv" -> BatchWritten([h EXCEPT !.step = "send"])
      [] OTHER -> SwitchedBack(h)
\* Variant: an unanswered batch is waited for again.
FailedWaiting(h) ==
    CASE h.step \in Reads /\ h.tries > 0 -> Again(h)
      [] h.step \in {"csd", "cache", "flush"} -> Tolerated(h)
      [] h.step = "recv" -> h
      [] OTHER -> SwitchedBack(h)
Failed(h) ==
    CASE h.step \in Reads /\ h.tries > 0 -> Again(h)
      [] h.step \in {"csd", "cache", "flush"} -> Tolerated(h)
      [] h.step = "recv" -> Ask([h EXCEPT !.result = "error"], "flush")
      [] OTHER -> SwitchedBack(h)

-----------------------------------------------------------------------------
(* The host. *)

Fault(kind) == kind \in FaultKinds /\ faults < MaxFaults /\ faults' = faults + 1

Switch == {"mode_on", "part3", "part0", "mode_off"}
\* The exchange under way has failed, and left this behind on the line.
GiveUp(left) ==
    /\ host' = Failed(host)
    /\ astray' = (astray \/ left # <<>> \/ toReader # <<>>)
    /\ unsure' = (unsure \/ (host.job = "rpmb" /\ (host.step \in Switch \/ astray')))

\* A job opens the port, which empties the input buffer.
Start ==
    /\ host.phase \in {"idle", "ended"} /\ jobs > 0 /\ jobs' = jobs - 1
    /\ \E job \in Jobs :
           /\ host' = Ask([Idle EXCEPT !.job = job], FirstStep(job))
           /\ unsure' = (unsure \/ (job = "rpmb" /\ toReader # <<>>))
    /\ toHost' = <<>> /\ astray' = (toReader # <<>>) /\ fresh' = (toReader = <<>>)
    /\ UNCHANGED <<toReader, reader, card, faults, plain>>

\* Variant: what an earlier attempt has got is kept.
AskedKeeping(h) ==
    LET g == [h EXCEPT !.phase = "wait", !.expect = Expected(h.step, h.offset)]
    IN  IF g.expect = <<>> THEN Succeeded(g) ELSE g
\* No sectors, no command: the low half of the remainder was 0, nothing comes and the
\* loop of the caller goes round.
Asked(h) ==
    LET g == [h EXCEPT !.phase = "wait", !.got = <<>>, !.expect = Expected(h.step, h.offset)]
    IN  IF g.expect = <<>> THEN Succeeded(g) ELSE g

send_command ==
    LET question == Question(host.step, host.offset)
        nothing  == host.step \in Reads /\ question.n = 0
    IN  /\ host.phase = "ask"
        /\ host' = Asked(host)
        /\ \/ toReader' = (IF nothing THEN toReader ELSE Append(toReader, question))
              /\ UNCHANGED faults
           \/ ~nothing /\ Fault("command_lost") /\ UNCHANGED toReader
           \/ /\ ~nothing /\ Fault("command_corrupt")
              /\ toReader' = Append(toReader, [question EXCEPT !.good = FALSE])
        /\ UNCHANGED <<jobs, toHost, reader, card, astray, unsure, plain, fresh>>

\* Cancelled between two batches: a dump stops, a restore awaits the answer under
\* way without looking at it.
Cancel ==
    /\ \/ /\ host.job = "dump" /\ host.phase = "ask" /\ host.tries = Retries
          /\ host' = Ended(host, "error")
       \/ /\ host.phase = "wait" /\ host.step = "recv" /\ host.result = "none"
          /\ host.offset + Least(WriteChunk, host.offset) < Total
          /\ host' = [host EXCEPT !.result = "error"]
    /\ UNCHANGED <<jobs, toReader, toHost, reader, card, faults, astray, unsure, plain, fresh>>

\* Of the packet that ends an answer only the status is looked at.
Taken(h, packet) ==
    [h EXCEPT !.expect = Tail(@),
              !.got = IF Head(h.expect) = "status" THEN @ ELSE @ \o packet.data]
\* recv_response takes any packet whose CRC and status are right.
Accepts(want, packet) ==
    /\ packet.kind = "packet" /\ packet.status = OK /\ packet.good
    /\ want \in {"sector", "block"} => Len(packet.data) = 1

\* read_sectors_multi looks at status and length before it reads the rest of a
\* packet: the CRC of one it does not want stays in the buffer.  What is asked next
\* on this connection is the same read, which takes that byte for a header.
Behind(want, packet) ==
    IF /\ want = "sector" /\ packet.kind = "packet"
       /\ packet.status # OK \/ Len(packet.data) # 1
    THEN <<[packet EXCEPT !.kind = "crc", !.data = <<>>]>> ELSE <<>>

Draining == host.step = "recv" /\ host.result = "error"
Drained(left) ==
    /\ host' = Ask(host, "flush")
    /\ astray' = (astray \/ left # <<>> \/ toReader # <<>>) /\ UNCHANGED unsure

recv_response ==
    LET want   == Head(host.expect)
        packet == Head(toHost)
        taken  == Taken(host, packet)
        left   == Behind(want, packet) \o Tail(toHost)
    IN  /\ host.phase = "wait" /\ toHost # <<>>
        /\ toHost' = left
        /\ \/ Draining /\ Drained(left)
           \/ ~Draining /\ ~Accepts(want, packet) /\ GiveUp(left)
           \/ /\ ~Draining /\ Accepts(want, packet)
              /\ host' = IF taken.expect = <<>> THEN Succeeded(taken) ELSE taken
              /\ UNCHANGED <<astray, unsure>>
        /\ UNCHANGED <<jobs, toReader, reader, card, faults, plain, fresh>>

\* Two seconds without a byte.
Timeout ==
    /\ host.phase = "wait" /\ toHost = <<>>
    /\ \/ toReader = <<>> /\ UNCHANGED faults
       \/ toReader # <<>> /\ Fault("late")
    /\ \/ Draining /\ Drained(<<>>)
       \/ ~Draining /\ GiveUp(<<>>)
    /\ UNCHANGED <<jobs, toReader, toHost, reader, card, plain, fresh>>

-----------------------------------------------------------------------------
(* The reader: each command is obeyed and answered with one packet, a read    *)
(* with one for each sector before it.  A write of several sectors is handed  *)
(* to the card before its CRC is known, and answered by bridge and controller. *)

Packet(status, data) == [kind |-> "packet", status |-> status, data |-> data, good |-> TRUE]
Rpmb == reader.part = 3

Sectors(c) ==
    IF c.cmd = "get_ext_csd" \/ Rpmb THEN <<Packet(OK, <<Frame(0)>>)>>
    ELSE [i \in 1..c.n |-> Packet(OK, <<card[c.lba + i - 1]>>)]
Answer(c) ==
    IF c.cmd \in {"read", "get_ext_csd"} THEN Sectors(c) \o <<Packet(OK, <<>>)>>
    ELSE <<Packet(OK, <<>>)>>
Stored(c) ==
    IF c.cmd = "write" /\ ~Rpmb
    THEN [l \in Lba |-> IF l - c.lba \in 0..(c.n - 1) THEN c.data[l - c.lba + 1] ELSE card[l]]
    ELSE card
\* What a corrupted write leaves behind.
StoredGarbled(c) ==
    IF c.cmd = "write" /\ c.n > 1 /\ ~Rpmb
    THEN [Stored(c) EXCEPT ![c.lba] = Garbled(c.lba)] ELSE card

Damaged(packets) ==
    {[packets EXCEPT ![i].good = FALSE] : i \in 1..Len(packets)}

Reader ==
    LET c == Head(toReader)
    IN  /\ toReader # <<>> /\ toReader' = Tail(toReader)
        /\ \/ /\ c.good
              /\ \/ toHost' = toHost \o Answer(c) /\ UNCHANGED faults
                 \/ /\ Fault("answer_corrupt")
                    /\ \E packets \in Damaged(Answer(c)) : toHost' = toHost \o packets
              /\ card' = Stored(c)
              /\ reader' = CASE c.cmd = "set_partition" -> [reader EXCEPT !.part = c.lba]
                             [] c.cmd = "set_rpmb_mode" -> [reader EXCEPT !.rpmb = c.lba = 1]
                             [] OTHER -> reader
              /\ plain' = (plain \/ (c.cmd \in {"read", "write"} /\ Rpmb /\ ~reader.rpmb))
           \/ /\ c.good /\ Fault("card_error")
              /\ toHost' = Append(toHost, Packet("emmc", <<>>))
              /\ UNCHANGED <<card, reader, plain>>
           \/ /\ ~c.good /\ card' = StoredGarbled(c)
              /\ toHost' = toHost \o <<Packet("crc", <<>>)>>
                                 \o (IF c.cmd = "write" /\ c.n > 1 THEN <<Packet(OK, <<>>)>> ELSE <<>>)
              /\ UNCHANGED <<reader, plain, faults>>
        /\ UNCHANGED <<jobs, host, astray, unsure, fresh>>

-----------------------------------------------------------------------------
Next ==
    \/ Start \/ send_command \/ Cancel \/ recv_response
    \/ Timeout \/ Reader

Spec == Init /\ [][Next]_vars

\* The thread runs, its timeouts fire, and the reader answers.
FairSpec ==
    /\ Spec /\ WF_vars(Start) /\ WF_vars(send_command) /\ WF_vars(recv_response)
    /\ WF_vars(Timeout) /\ WF_vars(Reader)

-----------------------------------------------------------------------------
TypeOK ==
    /\ host.phase \in {"idle", "ask", "wait", "ended"}
    /\ host.tries \in 0..Retries /\ host.result \in {"none", "done", "error"}
    /\ reader.part \in {0, 3} /\ reader.rpmb \in BOOLEAN
    /\ faults \in 0..MaxFaults /\ plain \in BOOLEAN

\* While no exchange was given up, a command is sent over an empty line: each answer
\* is paired with its question, whatever is lost and whatever the card refuses.
InStep ==
    host.phase \in {"ask", "ended"} /\ ~astray => toHost = <<>> /\ toReader = <<>>

\* A dump that is reported complete is a copy of the card
\* (dump_to_file: with_retry around reads whose answers bear no name).
DumpIsCopy ==
    host.job = "dump" /\ host.result = "done"
        => host.out = [i \in 1..Total |-> card[i - 1]]
\* The same, of a dump that never gave up an exchange before its end, on a reader no
\* session has left in RPMB.
Steady == ~astray /\ ~unsure
SteadyDumpIsCopy == Steady => DumpIsCopy

\* A restore that is reported complete has stored the whole file, unless it gave up
\* an exchange: the Extended CSD read before the first batch is one, and its failure
\* is only logged (restore_from_file).
RestoreTrue ==
    host.job = "restore" /\ host.result = "done" /\ Steady => \A l \in Lba : card[l] = New(l)

\* A verification that got all the sectors it asked for, and finds no difference, has
\* read back what was to be written, however answers and questions were paired
\* (write_sectors, verify_readback_impl): of a write that began over an empty line,
\* without questions of a job before it.  One that got fewer may have compared nothing,
\* and is reported to the user all the same (operations.rs:515-533).
VerifiedTrue ==
    fresh /\ host.job = "write" /\ host.result = "done" /\ host.readback = "same"
        => \A l \in Lba : card[l] = New(l)

\* A session whose four switches were answered in step leaves the reader in the user
\* area and out of RPMB mode, whatever became of its frames, and no later job has
\* touched RPMB (read_counter, read_data).
RpmbLeft ==
    /\ host.job = "rpmb" /\ host.phase = "ended" /\ ~unsure
           => reader.part = 0 /\ ~reader.rpmb
    /\ plain => unsure

\* Every job comes to an end.
JobsEnd == <>(jobs = 0 /\ host.phase = "ended")
=============================================================================
