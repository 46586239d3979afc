------------------------------ MODULE LinkProofs ------------------------------
(***************************************************************************)
(* Proofs about HostLink, for every size of card, file, chunk and counter, *)
(* any number of attempts, jobs and faults.                                *)
(*                                                                         *)
(* LinkInv says what may be on the line while no exchange was given up: the*)
(* one command of the exchange under way, or at most the packets it expects*)
(* and no more, unless the first of them is one the host refuses.  That is *)
(* what makes an answer belong to its question without bearing its name    *)
(* (AnswersArePaired).  SessionInv puts beside it what the reader is       *)
(* switched to before, during and after each step of an RPMB session, and  *)
(* that nothing outside one switches it (SessionsLeaveRpmb).  RestoreInv   *)
(* and DumpInv add what a job has done so far: the card holds the file up  *)
(* to the batch that is not answered yet (RestoresAreTrue), the file holds *)
(* the card up to the packet that has not come yet (SteadyDumpsAreCopies). *)
(* VerifyInv needs none of that: it holds on a connection that lost its    *)
(* way, because the questions of a verification come behind its batches    *)
(* (VerificationsAreTrue).                                                 *)
(***************************************************************************)
EXTENDS HostLink, SequenceTheorems, TLAPS

Fields == {"job", "step", "phase", "offset", "tries", "expect", "got", "out", "readback",
           "result"}
StepNames == {"read", "verify", "write", "send", "recv", "rpmb_write", "rpmb_read",
              "part3", "part0", "mode_on", "mode_off", "csd", "cache", "flush"}
Wants == {"sector", "data", "block", "status"}

(* A host at some step of a job, or one that has not begun.                *)
IsHost(h) ==
    /\ DOMAIN h = Fields /\ h.offset \in Int /\ h.expect \in Seq(Wants)
    /\ h.phase \in {"idle", "ask", "wait", "ended"}
    /\ h.phase \in {"ask", "wait"} => h.step \in StepNames

LEMMA CountIsNat ==
    ASSUME NEW k \in Int, NEW chunk \in Nat
    PROVE  Count(chunk, k) \in Nat
BY LinkAssumption DEF Count

LEMMA LeastIsInt ==
    ASSUME NEW k \in Int, NEW chunk \in Nat
    PROVE  Least(chunk, k) \in Int
BY LinkAssumption DEF Least

LEMMA AskIsHost ==
    ASSUME NEW h, IsHost(h), NEW step \in StepNames
    PROVE  IsHost(Ask(h, step)) /\ Ask(h, step).phase = "ask" /\ Ask(h, step).step = step
           /\ Ask(h, step).job = h.job
BY DEF IsHost, Ask, Fields

LEMMA EndedIsHost ==
    ASSUME NEW h, IsHost(h), NEW result
    PROVE  IsHost(Ended(h, result)) /\ Ended(h, result).phase = "ended"
           /\ Ended(h, result).job = h.job /\ Ended(h, result).step = h.step
BY DEF IsHost, Ended, Fields

(* Between two exchanges.                                                  *)
AtRest(h) == IsHost(h) /\ h.phase \in {"ask", "ended"}

LEMMA AskAtRest ==
    ASSUME NEW h, IsHost(h), NEW step \in StepNames
    PROVE  AtRest(Ask(h, step))
BY AskIsHost DEF AtRest

LEMMA EndedAtRest ==
    ASSUME NEW h, IsHost(h), NEW result
    PROVE  AtRest(Ended(h, result))
BY EndedIsHost DEF AtRest

LEMMA ChunkReadAtRest ==
    ASSUME NEW h, IsHost(h), h.step \in StepNames
    PROVE  AtRest(ChunkRead(h))
<1> DEFINE n == Count(Chunk, h.offset)
           b == Compared(h, n)
           g == [h EXCEPT !.out = @ \o h.got, !.offset = @ + n, !.readback = b]
<1>1. n \in Nat
  BY CountIsNat, LinkAssumption DEF IsHost
<1>2. IsHost(g) /\ g.step = h.step
  <2> HIDE DEF n, b
  <2> QED BY <1>1 DEF IsHost, Fields
<1>3. ChunkRead(h) = IF g.offset < Total THEN Ask(g, h.step) ELSE Ended(g, "done")
  BY DEF ChunkRead
<1> HIDE DEF g
<1> QED BY <1>2, <1>3, AskAtRest, EndedAtRest

LEMMA BatchWrittenAtRest ==
    ASSUME NEW h, IsHost(h), h.step \in StepNames
    PROVE  AtRest(BatchWritten(h))
<1> DEFINE n == Least(WriteChunk, h.offset)
           g == [h EXCEPT !.offset = @ + n]
           z == [g EXCEPT !.offset = 0]
<1>1. n \in Int
  BY LeastIsInt, LinkAssumption DEF IsHost
<1>2. IsHost(g)
  <2> HIDE DEF n
  <2> QED BY <1>1 DEF IsHost, Fields
<1>3. BatchWritten(h) = IF g.offset < Total THEN Ask(g, h.step)
                        ELSE IF h.job = "restore" THEN Ask(g, "flush") ELSE Ask(z, "verify")
  BY DEF BatchWritten
<1> HIDE DEF g
<1>4. IsHost(z)
  BY <1>2 DEF IsHost, Fields
<1> HIDE DEF z
<1>5. {"flush", "verify"} \subseteq StepNames
  BY DEF StepNames
<1> QED BY <1>2, <1>3, <1>4, <1>5, AskAtRest

(* The end of an exchange that went well: the next one, or the end.        *)
LEMMA SucceededAtRest ==
    ASSUME NEW h, IsHost(h), h.step \in StepNames \ {"send"}
    PROVE  AtRest(Succeeded(h))
<1> DEFINE s == [h EXCEPT !.step = "send"]
           e == [h EXCEPT !.result = "error"]
<1>1. IsHost(s) /\ IsHost(e) /\ s.step = "send"
  BY DEF IsHost, Fields, StepNames
<1>2. CASE h.step \in Reads
  <2>1. Succeeded(h) = ChunkRead(h)
    BY <1>2 DEF Succeeded, Reads
  <2> QED BY <2>1, ChunkReadAtRest
<1>3. CASE h.step = "write"
  BY <1>3, BatchWrittenAtRest DEF Succeeded, Reads
<1>4. CASE h.step = "recv"
  <2>1. Succeeded(h) = BatchWritten(s)
    BY <1>4 DEF Succeeded, Reads
  <2> HIDE DEF s
  <2> QED BY <2>1, <1>1, BatchWrittenAtRest DEF StepNames
<1>5. CASE h.step = "rpmb_read"
  <2>1. Succeeded(h) = Ask(IF h.got = <<>> THEN e ELSE h, "part0")
    BY <1>5 DEF Succeeded, Reads
  <2> HIDE DEF e
  <2> QED BY <2>1, <1>1, AskAtRest DEF StepNames
<1>6. CASE h.step \notin Reads \cup {"write", "recv", "rpmb_read"}
  <2> USE <1>6 DEF Reads, StepNames
  <2>1. \/ \E step \in StepNames : Succeeded(h) = Ask(h, step)
        \/ \E result : Succeeded(h) = Ended(h, result)
    BY DEF Succeeded
  <2> QED BY <2>1, AskAtRest, EndedAtRest
<1> QED BY <1>2, <1>3, <1>4, <1>5, <1>6

(* A batch of a restore is on its way: its answer is waited for later.     *)
LEMMA SentWaits ==
    ASSUME NEW h, IsHost(h), h.step = "send"
    PROVE  LET g == Succeeded(h)
           IN  IsHost(g) /\ g.phase = "wait" /\ g.step = "recv" /\ g.expect = <<"status">>
<1> DEFINE g == [h EXCEPT !.phase = "wait", !.step = "recv", !.expect = <<"status">>]
<1>1. Succeeded(h) = g
  BY DEF Succeeded, Reads
<1>2. <<"status">> \in Seq(Wants)
  BY DEF Wants
<1>3. DOMAIN g = Fields /\ g.phase = "wait" /\ g.step = "recv"
      /\ g.expect = <<"status">> /\ g.offset = h.offset
  BY DEF IsHost, Fields
<1> HIDE DEF g
<1> QED BY <1>1, <1>2, <1>3 DEF IsHost, StepNames

(* The end of one that failed: another attempt, what is left to be done,   *)
(* or the end.                                                             *)
LEMMA FailedAtRest ==
    ASSUME NEW h, IsHost(h), h.step \in StepNames \ {"send"}
    PROVE  AtRest(Failed(h))
<1> DEFINE e == [h EXCEPT !.result = "error"]
<1>1. IsHost(e)
  BY DEF IsHost, Fields
<1>2. CASE h.step \in Reads /\ h.tries > 0
  <2>1. Failed(h) = Again(h)
    BY <1>2 DEF Failed, Reads
  <2> QED BY <2>1 DEF Again, AtRest, IsHost, Fields
<1>3. CASE ~(h.step \in Reads /\ h.tries > 0)
  <2>1. \/ \E step \in StepNames : Failed(h) = Ask(h, step) \/ Failed(h) = Ask(e, step)
        \/ \E result : Failed(h) = Ended(h, result)
    BY <1>3 DEF Failed, Tolerated, SwitchedBack, Reads, StepNames
  <2> HIDE DEF e
  <2> QED BY <1>1, <2>1, AskAtRest, EndedAtRest
<1> QED BY <1>2, <1>3

-----------------------------------------------------------------------------
(* What is on the line, as long as no exchange was given up: nothing but   *)
(* the command of the exchange under way, or no more packets than it       *)
(* expects, unless the first of them is refused.                           *)

IsSeq(s) == \E S : s \in Seq(S)

(* The answer to c has at most k packets.                                  *)
Fits(c, k) ==
    c.good => /\ 1 <= k
              /\ c.cmd \in {"read", "get_ext_csd"} => 2 <= k
              /\ c.cmd = "read" => c.n \in Nat /\ c.n + 1 <= k

Asking(c) ==
    /\ toReader = <<c>> /\ toHost = <<>>
    /\ Fits(c, Len(host.expect))
Answered ==
    /\ toReader = <<>> /\ IsSeq(toHost)
    /\ toHost # <<>> /\ Head(toHost).status = OK => Len(toHost) <= Len(host.expect)
Quiet == toReader = <<>> /\ toHost = <<>>

Paired ==
    IF host.phase = "wait" THEN Answered \/ \E c : Asking(c) ELSE Quiet

LinkInv ==
    /\ IsHost(host)
    /\ host.phase = "wait" => host.step # "send" /\ host.expect # <<>>
    /\ ~astray => Paired

LEMMA InitLinkInv == Init => LinkInv
BY DEF Init, LinkInv, Idle, IsHost, Fields, Paired, Quiet

(* An exchange that is given up leaves nothing behind, or goes astray.     *)
LEMMA GiveUpLinkInv ==
    ASSUME LinkInv, host.phase = "wait", NEW left, toHost' = left,
           toReader' = toReader,
           GiveUp(left) \/ Drained(left)
    PROVE  LinkInv'
<1>1. AtRest(host')
  <2>1. CASE GiveUp(left)
    BY <2>1, FailedAtRest DEF LinkInv, GiveUp, IsHost
  <2>2. CASE Drained(left)
    BY <2>2, AskAtRest DEF LinkInv, Drained, StepNames
  <2> QED BY <2>1, <2>2
<1>2. ~astray' => left = <<>> /\ toReader = <<>>
  BY DEF GiveUp, Drained
<1> QED BY <1>1, <1>2 DEF LinkInv, AtRest, Paired, Quiet

(* An answer is no longer than what the exchange expects.                  *)
LEMMA AnswerFits ==
    ASSUME NEW c, NEW k \in Nat, Fits(c, k), c.good
    PROVE  IsSeq(Answer(c)) /\ Len(Answer(c)) <= k
<1>1. CASE c.cmd \notin {"read", "get_ext_csd"}
  <2> DEFINE end == Packet(OK, <<>>)
  <2>1. Answer(c) = <<end>>
    BY <1>1 DEF Answer
  <2> HIDE DEF end
  <2>2. <<end>> \in Seq({end}) /\ Len(<<end>>) = 1
    OBVIOUS
  <2> QED BY <2>1, <2>2 DEF IsSeq, Fits
<1>2. CASE c.cmd \in {"read", "get_ext_csd"} /\ (c.cmd = "get_ext_csd" \/ Rpmb)
  <2> DEFINE frame == Packet(OK, <<Frame(0)>>)
             end == Packet(OK, <<>>)
  <2>1. Answer(c) = <<frame>> \o <<end>>
    BY <1>2 DEF Answer, Sectors
  <2> HIDE DEF frame, end
  <2>2. <<frame>> \in Seq({frame, end}) /\ <<end>> \in Seq({frame, end})
        /\ Len(<<frame>>) = 1 /\ Len(<<end>>) = 1
    OBVIOUS
  <2>3. Answer(c) \in Seq({frame, end}) /\ Len(Answer(c)) = 2
    BY <2>1, <2>2, ConcatProperties
  <2> QED BY <1>2, <2>3 DEF IsSeq, Fits
<1>3. CASE c.cmd = "read" /\ ~Rpmb
  <2> DEFINE P(i) == Packet(OK, <<card[c.lba + i - 1]>>)
             end == Packet(OK, <<>>)
             S == {P(i) : i \in 1..c.n} \cup {end}
             sectors == [i \in 1..c.n |-> P(i)]
  <2>1. Answer(c) = sectors \o <<end>>
    BY <1>3 DEF Answer, Sectors
  <2>2. c.n \in Nat /\ c.n + 1 <= k
    BY <1>3 DEF Fits
  <2> HIDE DEF P, end
  <2>3. sectors \in Seq(S) /\ Len(sectors) = c.n
    BY <2>2
  <2>4. <<end>> \in Seq(S) /\ Len(<<end>>) = 1
    OBVIOUS
  <2> HIDE DEF S, sectors
  <2>5. Answer(c) \in Seq(S) /\ Len(Answer(c)) = c.n + 1
    BY <2>1, <2>3, <2>4, ConcatProperties
  <2> QED BY <2>2, <2>5 DEF IsSeq
<1> QED BY <1>1, <1>2, <1>3

LEMMA DamagedFits ==
    ASSUME NEW packets, IsSeq(packets), NEW other \in Damaged(packets)
    PROVE  IsSeq(other) /\ Len(other) = Len(packets)
<1>1. PICK i \in 1..Len(packets) : other = [packets EXCEPT ![i].good = FALSE]
  BY DEF Damaged
<1>2. PICK S : packets \in Seq(S)
  BY DEF IsSeq
<1> DEFINE e == [packets[i] EXCEPT !.good = FALSE]
<1>3. other = [packets EXCEPT ![i] = e]
  BY <1>1
<1> HIDE DEF e
<1>4. packets \in Seq(S \cup {e})
  BY <1>2, SeqMonotonic
<1> QED BY <1>3, <1>4, ExceptSeq DEF IsSeq

(* Which command a step sends, and what it waits for.                       *)
LEMMA ReadQuestion ==
    ASSUME NEW step \in Reads, NEW offset \in Int
    PROVE  LET n == Count(Chunk, offset)
           IN  /\ Question(step, offset) = Command("read", offset, n, <<>>)
               /\ Expected(step, offset) = read_sectors(n)
BY DEF Question, Expected, Reads

LEMMA OtherQuestion ==
    ASSUME NEW step \in StepNames \ Reads, NEW offset \in Int
    PROVE  \E cmd, lba, n, data :
              /\ Question(step, offset) = Command(cmd, lba, n, data)
              /\ \/ /\ cmd \notin {"read", "get_ext_csd"} /\ step # "send"
                    /\ Expected(step, offset) = <<"status">>
                 \/ /\ cmd \notin {"read", "get_ext_csd"} /\ step = "send"
                    /\ Expected(step, offset) = <<>>
                 \/ /\ cmd = "get_ext_csd" /\ step = "csd"
                    /\ Expected(step, offset) = <<"block", "status">>
                 \/ /\ cmd = "read" /\ step = "rpmb_read" /\ n = 1
                    /\ Expected(step, offset) = read_sectors(1)
<1>1. CASE step \in {"write", "send"}
  BY <1>1 DEF Question, Expected, Reads
<1>2. CASE step = "rpmb_write"
  <2> DEFINE frame == Tags(Frame, 0, 1)
  <2>1. Question(step, offset) = Command("write", 0, 1, frame)
    BY <1>2 DEF Question, Reads
  <2>2. Expected(step, offset) = <<"status">>
    BY <1>2 DEF Expected, Reads
  <2> HIDE DEF frame
  <2> QED BY <1>2, <2>1, <2>2
<1>3. CASE step \notin {"write", "send", "rpmb_write"}
  <2>1. CASE step = "rpmb_read"
    BY <2>1 DEF Question, Expected, Reads
  <2>2. CASE step = "csd"
    BY <2>2 DEF Question, Expected, Reads
  <2>3. CASE step \notin {"rpmb_read", "csd"}
    <3>1. \E cmd \in {"set_partition", "set_rpmb_mode", "write_ext_csd"}, lba \in {0, 1, 3} :
             Question(step, offset) = Command(cmd, lba, 0, <<>>)
      BY <1>3, <2>3 DEF Question, Reads, StepNames
    <3>2. Expected(step, offset) = <<"status">>
      BY <1>3, <2>3 DEF Expected, Reads
    <3> QED BY <1>3, <3>1, <3>2
  <2> QED BY <2>1, <2>2, <2>3
<1> QED BY <1>1, <1>2, <1>3

LEMMA CommandParts ==
    ASSUME NEW cmd, NEW lba, NEW n, NEW data
    PROVE  LET c == Command(cmd, lba, n, data)
               d == [c EXCEPT !.good = FALSE]
           IN  c.cmd = cmd /\ c.n = n /\ c.good /\ ~d.good
BY DEF Command

LEMMA ReadExpects ==
    ASSUME NEW n \in Nat
    PROVE  /\ read_sectors(n) \in Seq(Wants)
           /\ n = 0 => read_sectors(n) = <<>>
           /\ n > 0 => Len(read_sectors(n)) >= 2 /\ Len(read_sectors(n)) >= n + 1
<1>1. CASE n = 0
  BY <1>1 DEF read_sectors
<1>2. CASE n = 1
  <2> DEFINE pair == <<"data", "status">>
  <2>1. read_sectors(n) = pair
    BY <1>2 DEF read_sectors
  <2>2. pair \in Seq(Wants) /\ Len(pair) = 2
    BY DEF Wants
  <2> HIDE DEF pair
  <2> QED BY <1>2, <2>1, <2>2
<1>3. CASE n > 1
  <2> DEFINE sectors == [i \in 1..n |-> "sector"]
             end == <<"status">>
  <2>1. read_sectors(n) = sectors \o end
    BY <1>3 DEF read_sectors
  <2>2. sectors \in Seq(Wants) /\ Len(sectors) = n /\ end \in Seq(Wants) /\ Len(end) = 1
    BY DEF Wants
  <2> HIDE DEF sectors, end
  <2>3. sectors \o end \in Seq(Wants) /\ Len(sectors \o end) = Len(sectors) + Len(end)
    BY <2>2, ConcatProperties
  <2>4. read_sectors(n) \in Seq(Wants) /\ Len(read_sectors(n)) = n + 1
    BY <2>1, <2>2, <2>3
  <2> QED BY <1>3, <2>4
<1> QED BY <1>1, <1>2, <1>3

LEMMA ReadLength ==
    ASSUME NEW n \in Nat \ {0}
    PROVE  /\ read_sectors(n) # <<>> /\ Len(read_sectors(n)) = n + 1
           /\ \A i \in 1..n : read_sectors(n)[i] # "status"
<1>1. CASE n = 1
  <2> DEFINE pair == <<"data", "status">>
  <2>1. read_sectors(n) = pair
    BY <1>1 DEF read_sectors
  <2>2. pair # <<>> /\ Len(pair) = 2 /\ pair[1] # "status"
    OBVIOUS
  <2> HIDE DEF pair
  <2> QED BY <1>1, <2>1, <2>2
<1>2. CASE n > 1
  <2> DEFINE sectors == [i \in 1..n |-> "sector"]
             end == <<"status">>
  <2>1. read_sectors(n) = sectors \o end
    BY <1>2 DEF read_sectors
  <2>2. /\ sectors \in Seq(Wants) /\ Len(sectors) = n /\ end \in Seq(Wants) /\ Len(end) = 1
        /\ \A i \in 1..n : sectors[i] # "status"
    BY DEF Wants
  <2> HIDE DEF sectors, end
  <2>3. Len(sectors \o end) = Len(sectors) + Len(end)
    BY <2>2, ConcatProperties
  <2>4. Len(read_sectors(n)) = n + 1
    BY <2>1, <2>2, <2>3
  <2>6. \A i \in 1..n : read_sectors(n)[i] # "status"
    <3> TAKE i \in 1..n
    <3>1. i \in 1..(Len(sectors) + Len(end)) /\ i <= Len(sectors)
      BY <2>2
    <3>2. (sectors \o end)[i] = sectors[i]
      BY <2>2, <3>1, ConcatProperties
    <3> QED BY <2>1, <2>2, <3>2
  <2>5. read_sectors(n) # <<>>
    BY <2>4, EmptySeq
  <2> QED BY <2>4, <2>5, <2>6
<1> QED BY <1>1, <1>2

(* The command that is sent, and what is waited for: an exchange begins,   *)
(* or there was nothing to ask.                                            *)
Begun(c, g) ==
    /\ IsHost(g) /\ g.phase = "wait" /\ g.step # "send" /\ g.expect # <<>>
    /\ Fits(c, Len(g.expect))

LEMMA AskedPairs ==
    ASSUME IsHost(host), host.phase = "ask"
    PROVE  LET c == Question(host.step, host.offset)
               g == Asked(host)
           IN  IF host.step \in Reads /\ c.n = 0 THEN AtRest(g)
               ELSE Begun(c, g) /\ Begun([c EXCEPT !.good = FALSE], g)
<1> DEFINE c == Question(host.step, host.offset)
           d == [c EXCEPT !.good = FALSE]
           expect == Expected(host.step, host.offset)
           n == Count(Chunk, host.offset)
           g == [host EXCEPT !.phase = "wait", !.got = <<>>, !.expect = expect]
           h == Asked(host)
<1>1. n \in Nat /\ host.offset \in Int
  BY CountIsNat, LinkAssumption DEF IsHost
<1>2. host.step \in StepNames
  BY DEF IsHost
<1>3. h = IF expect = <<>> THEN Succeeded(g) ELSE g
  <2>1. g.expect = expect
    BY DEF IsHost, Fields
  <2> QED BY <2>1 DEF Asked
<1>4. /\ g.step = host.step /\ g.phase = "wait" /\ g.expect = expect
      /\ expect \in Seq(Wants) => IsHost(g)
  <2> HIDE DEF expect
  <2> QED BY <1>2 DEF IsHost, Fields
<1>5. CASE host.step \in Reads
  <2>1. c = Command("read", host.offset, n, <<>>) /\ expect = read_sectors(n)
    BY <1>1, <1>5, ReadQuestion
  <2> HIDE DEF c, expect, n, g, h
  <2>2. c.cmd = "read" /\ c.n = n /\ c.good /\ ~d.good
    BY <2>1, CommandParts
  <2>3. expect \in Seq(Wants)
    BY <1>1, <2>1, ReadExpects
  <2>4. IsHost(g) /\ g.step \in StepNames \ {"send"}
    BY <1>2, <1>4, <1>5, <2>3 DEF Reads
  <2>5. CASE n = 0
    <3>1. h = Succeeded(g)
      BY <1>1, <1>3, <2>1, <2>5, ReadExpects
    <3>2. AtRest(h)
      BY <2>4, <3>1, SucceededAtRest
    <3> QED BY <1>5, <2>2, <2>5, <3>2 DEF c, h
  <2>6. CASE n > 0
    <3>1. Len(expect) >= 2 /\ n + 1 <= Len(expect) /\ Len(expect) \in Nat
      BY <1>1, <2>1, <2>3, <2>6, ReadExpects, LenProperties
    <3>2. expect # <<>>
      BY <3>1
    <3>3. Begun(c, h) /\ Begun(d, h)
      BY <1>1, <1>3, <1>4, <2>2, <2>4, <3>1, <3>2 DEF Begun, Fits
    <3> QED BY <1>1, <2>2, <2>6, <3>3 DEF c, h
  <2> QED BY <1>1, <2>5, <2>6
<1>6. CASE host.step \notin Reads
  <2> DEFINE one == <<"status">>
             two == <<"block", "status">>
  <2>1. PICK cmd, lba, m, data :
              /\ c = Command(cmd, lba, m, data)
              /\ \/ /\ cmd \notin {"read", "get_ext_csd"} /\ host.step # "send"
                    /\ expect = one
                 \/ /\ cmd \notin {"read", "get_ext_csd"} /\ host.step = "send"
                    /\ expect = <<>>
                 \/ /\ cmd = "get_ext_csd" /\ host.step = "csd"
                    /\ expect = two
                 \/ /\ cmd = "read" /\ host.step = "rpmb_read" /\ m = 1
                    /\ expect = read_sectors(1)
    BY <1>1, <1>2, <1>6, OtherQuestion
  <2>2. /\ one \in Seq(Wants) /\ Len(one) = 1 /\ two \in Seq(Wants) /\ Len(two) = 2
        /\ one # <<>> /\ two # <<>> /\ <<>> \in Seq(Wants)
    BY DEF Wants
  <2> HIDE DEF c, expect, g, h, one, two
  <2>3. c.cmd = cmd /\ c.n = m /\ c.good /\ ~d.good
    BY <2>1, CommandParts
  <2>4. read_sectors(1) \in Seq(Wants) /\ Len(read_sectors(1)) \in Nat
        /\ Len(read_sectors(1)) >= 2
    BY ReadExpects, LenProperties
  <2>5. IsHost(g)
    BY <1>4, <2>1, <2>2, <2>4
  <2>6. CASE host.step = "send"
    <3>1. h = Succeeded(g)
      BY <1>3, <2>1, <2>6
    <3>2. IsHost(h) /\ h.phase = "wait" /\ h.step = "recv" /\ h.expect = one
      BY <1>4, <2>5, <2>6, <3>1, SentWaits DEF one
    <3>3. Begun(c, h) /\ Begun(d, h)
      BY <2>1, <2>2, <2>3, <2>6, <3>2 DEF Begun, Fits
    <3> QED BY <1>6, <3>3 DEF c, h
  <2>7. CASE host.step # "send"
    <3>1. expect # <<>> /\ h = g
      BY <1>3, <2>1, <2>2, <2>4, <2>7, EmptySeq
    <3>2. Fits(c, Len(expect))
      <4>1. 1 <= Len(expect) /\ (cmd \in {"read", "get_ext_csd"} => 2 <= Len(expect))
        <5>1. CASE expect = read_sectors(1)
          BY <2>4, <5>1
        <5>2. CASE expect = one /\ cmd \notin {"read", "get_ext_csd"}
          BY <2>2, <5>2
        <5>3. CASE expect = two
          BY <2>2, <5>3
        <5> QED BY <2>1, <2>7, <5>1, <5>2, <5>3
      <4>2. cmd = "read" => m = 1
        BY <2>1, <2>7
      <4> QED BY <2>3, <4>1, <4>2 DEF Fits
    <3>3. Fits(d, Len(expect))
      BY <2>3 DEF Fits
    <3>4. Begun(c, h) /\ Begun(d, h)
      BY <1>4, <2>5, <2>7, <3>1, <3>2, <3>3 DEF Begun
    <3> QED BY <1>6, <3>4 DEF c, h
  <2> QED BY <2>6, <2>7
<1> QED BY <1>5, <1>6

(* A command that is refused is answered by a packet that says so first.   *)
Refusal(c) ==
    <<Packet("crc", <<>>)>>
        \o (IF c.cmd = "write" /\ c.n > 1 THEN <<Packet(OK, <<>>)>> ELSE <<>>)

LEMMA RefusedFirst ==
    ASSUME NEW c, NEW s, s = Refusal(c) \/ s = <<Packet("emmc", <<>>)>>
    PROVE  IsSeq(s) /\ s # <<>> /\ Head(s).status # OK
<1>1. CASE s = <<Packet("emmc", <<>>)>>
  <2> DEFINE p == Packet("emmc", <<>>)
  <2>1. s = <<p>> /\ p.status # OK
    BY <1>1 DEF Packet, OK
  <2> HIDE DEF p
  <2>2. <<p>> \in Seq({p}) /\ Head(<<p>>) = p /\ <<p>> # <<>>
    OBVIOUS
  <2> QED BY <2>1, <2>2 DEF IsSeq
<1>2. CASE s = Refusal(c)
  <2> DEFINE p == Packet("crc", <<>>)
             q == Packet(OK, <<>>)
             more == IF c.cmd = "write" /\ c.n > 1 THEN <<q>> ELSE <<>>
  <2>1. s = <<p>> \o more /\ p.status # OK
    BY <1>2 DEF Packet, OK, Refusal
  <2> HIDE DEF p, q
  <2>2. <<p>> \in Seq({p, q}) /\ <<p>>[1] = p /\ Len(<<p>>) = 1
    OBVIOUS
  <2>3. more \in Seq({p, q})
    <3>1. <<q>> \in Seq({p, q}) /\ <<>> \in Seq({p, q})
      OBVIOUS
    <3> QED BY <3>1
  <2> HIDE DEF more
  <2>4. <<p>> \o more \in Seq({p, q}) /\ (<<p>> \o more)[1] = p /\ Len(<<p>> \o more) >= 1
    BY <2>2, <2>3, ConcatProperties, LenProperties
  <2>5. s # <<>>
    BY <2>1, <2>4, EmptySeq
  <2> QED BY <2>1, <2>4, <2>5 DEF IsSeq
<1> QED BY <1>1, <1>2

LEMMA RefusedLine ==
    ASSUME toHost = <<>>, NEW c
    PROVE  /\ toHost \o <<Packet("crc", <<>>)>>
                \o (IF c.cmd = "write" /\ c.n > 1 THEN <<Packet(OK, <<>>)>> ELSE <<>>) = Refusal(c)
           /\ Append(toHost, Packet("emmc", <<>>)) = <<Packet("emmc", <<>>)>>
<1> DEFINE p == Packet("crc", <<>>)
<1>1. <<>> \o <<p>> = <<p>>
  <2> HIDE DEF p
  <2>1. <<p>> \in Seq({p})
    OBVIOUS
  <2> QED BY <2>1, ConcatEmptySeq
<1> QED BY <1>1 DEF Refusal

LEMMA StepLinkInv == LinkInv /\ [Next]_vars => LinkInv'
<1> SUFFICES ASSUME LinkInv, [Next]_vars PROVE LinkInv'
  OBVIOUS
<1>1. CASE Start
  <2>1. PICK job \in Jobs : host' = Ask([Idle EXCEPT !.job = job], FirstStep(job))
    BY <1>1 DEF Start
  <2>2. FirstStep(job) \in StepNames
    BY LinkAssumption DEF FirstStep, StepNames
  <2>3. IsHost([Idle EXCEPT !.job = job])
    BY DEF IsHost, Idle, Fields
  <2>4. AtRest(host')
    BY <2>1, <2>2, <2>3, AskAtRest
  <2> QED BY <1>1, <2>4 DEF Start, LinkInv, AtRest, Paired, Quiet
<1>2. CASE send_command
  <2> DEFINE c == Question(host.step, host.offset)
             d == [c EXCEPT !.good = FALSE]
             g == Asked(host)
             none == host.step \in Reads /\ c.n = 0
  <2>1. /\ IF none THEN AtRest(g) ELSE Begun(c, g) /\ Begun(d, g)
        /\ host' = g /\ toHost' = toHost /\ astray' = astray
        /\ ~astray => Quiet
    BY <1>2, AskedPairs DEF LinkInv, send_command, Paired
  <2>2. toReader' \in {toReader, Append(toReader, c), Append(toReader, d)}
        /\ (none => toReader' = toReader)
    BY <1>2 DEF send_command
  <2> HIDE DEF c, d, g, none
  <2>3. CASE none
    BY <2>1, <2>2, <2>3 DEF LinkInv, AtRest, Paired, Quiet
  <2>4. CASE ~none
    <3>1. IsHost(host') /\ host'.phase = "wait" /\ host'.step # "send" /\ host'.expect # <<>>
      BY <2>1, <2>4 DEF Begun
    <3>2. ASSUME ~astray' PROVE Answered' \/ \E e : Asking(e)'
      <4>1. toHost' = <<>> /\ toReader = <<>>
        BY <2>1, <3>2 DEF Quiet
      <4>2. toReader' \in {<<>>, <<c>>, <<d>>}
        BY <2>2, <4>1
      <4>3. CASE toReader' = <<>>
        BY <4>1, <4>3 DEF Answered, IsSeq
      <4>4. CASE toReader' \in {<<c>>, <<d>>}
        BY <2>1, <2>4, <4>1, <4>4 DEF Asking, Begun
      <4> QED BY <4>2, <4>3, <4>4
    <3> QED BY <3>1, <3>2 DEF LinkInv, Paired
  <2> QED BY <2>3, <2>4
<1>3. CASE Cancel
  <2>1. CASE host' = Ended(host, "error") /\ host.phase = "ask"
    BY <1>3, <2>1, EndedAtRest DEF Cancel, LinkInv, AtRest, Paired, Quiet
  <2>2. CASE host' = [host EXCEPT !.result = "error"] /\ host.phase = "wait"
    <3>1. IsHost(host') /\ host'.phase = "wait" /\ host'.step = host.step
          /\ host'.expect = host.expect
      BY <2>2 DEF LinkInv, IsHost, Fields
    <3> QED BY <1>3, <2>2, <3>1 DEF Cancel, LinkInv, Paired, Answered, Asking
  <2> QED BY <1>3, <2>1, <2>2 DEF Cancel
<1>4. CASE recv_response
  <2> DEFINE want   == Head(host.expect)
             packet == Head(toHost)
             taken  == Taken(host, packet)
             left   == Behind(want, packet) \o Tail(toHost)
  <2>1. /\ host.phase = "wait" /\ toHost # <<>> /\ toHost' = left /\ toReader' = toReader
        /\ IsHost(host) /\ host.step \in StepNames \ {"send"} /\ host.expect # <<>>
        /\ host.expect \in Seq(Wants)
    BY <1>4 DEF recv_response, LinkInv, IsHost
  <2>2. CASE GiveUp(left) \/ Drained(left)
    <3> HIDE DEF left
    <3> QED BY <2>1, <2>2, GiveUpLinkInv
  <2>3. CASE /\ Accepts(want, packet)
             /\ host' = IF taken.expect = <<>> THEN Succeeded(taken) ELSE taken
             /\ UNCHANGED <<astray, unsure>>
    <3>1. /\ Tail(host.expect) \in Seq(Wants) /\ Len(host.expect) \in Nat
          /\ Len(Tail(host.expect)) = Len(host.expect) - 1
      BY <2>1, HeadTailProperties, LenProperties
    <3>2. /\ IsHost(taken) /\ taken.phase = "wait" /\ taken.step = host.step
          /\ taken.expect = Tail(host.expect)
      BY <2>1, <3>1 DEF Taken, IsHost, Fields
    <3>3. packet.status = OK
      BY <2>3 DEF Accepts
    <3>4. ASSUME ~astray
          PROVE  /\ toReader' = <<>> /\ IsSeq(toHost')
                 /\ Len(toHost') <= Len(host.expect) - 1
      <4>1. Answered
        BY <2>1, <3>4 DEF LinkInv, Paired, Asking
      <4>2. PICK S : toHost \in Seq(S)
        BY <4>1 DEF Answered, IsSeq
      <4>3. /\ Tail(toHost) \in Seq(S) /\ Len(toHost) \in Nat
            /\ Len(Tail(toHost)) = Len(toHost) - 1
        BY <2>1, <4>2, HeadTailProperties, LenProperties
      <4>4. Behind(want, packet) = <<>>
        BY <2>3 DEF Accepts, Behind
      <4>5. toHost' = Tail(toHost)
        BY <2>1, <4>3, <4>4, ConcatEmptySeq
      <4>6. Len(toHost) <= Len(host.expect)
        BY <2>1, <3>3, <4>1 DEF Answered
      <4>7. IsSeq(toHost')
        BY <4>3, <4>5 DEF IsSeq
      <4>8. Len(toHost') <= Len(host.expect) - 1
        BY <3>1, <4>3, <4>5, <4>6
      <4> QED BY <2>1, <4>1, <4>7, <4>8 DEF Answered
    <3>5. CASE taken.expect = <<>>
      <4>1. AtRest(host')
        BY <2>1, <2>3, <3>2, <3>5, SucceededAtRest
      <4>2. ~astray' => Quiet'
        <5> SUFFICES ASSUME ~astray' PROVE Quiet'
          OBVIOUS
        <5>1. /\ toReader' = <<>> /\ IsSeq(toHost') /\ Len(toHost') <= Len(host.expect) - 1
          BY <2>3, <3>4
        <5>2. Len(host.expect) = 1
          <6>1. Tail(host.expect) = <<>> /\ Len(<<>>) = 0
            BY <3>2, <3>5, EmptySeq
          <6>2. Len(Tail(host.expect)) = 0
            BY <6>1, Zenon
          <6> DEFINE b == Len(host.expect)
          <6>3. b \in Nat /\ b - 1 = 0
            BY <3>1, <6>2
          <6> HIDE DEF b
          <6>4. b = 1
            BY <6>3
          <6> QED BY <6>4 DEF b
        <5>3. toHost' = <<>>
          <6>1. PICK S : toHost' \in Seq(S)
            BY <5>1 DEF IsSeq
          <6>2. Len(toHost') \in Nat /\ Len(host.expect) \in Nat
            BY <3>1, <6>1, LenProperties
          <6> DEFINE a == Len(toHost')
                     b == Len(host.expect)
          <6>3. a = 0
            <7>1. a \in Nat /\ b = 1 /\ a <= b - 1
              BY <5>1, <5>2, <6>2
            <7> HIDE DEF a, b
            <7> QED BY <7>1
          <6> QED BY <6>1, <6>3, EmptySeq
        <5> QED BY <5>1, <5>3 DEF Quiet
      <4> QED BY <4>1, <4>2 DEF LinkInv, AtRest, Paired
    <3>6. CASE taken.expect # <<>>
      <4>1. host' = taken
        BY <2>3, <3>6
      <4>2. ~astray' => Answered'
        BY <2>3, <3>1, <3>2, <3>4, <4>1 DEF Answered
      <4> QED BY <2>1, <3>2, <3>6, <4>1, <4>2 DEF LinkInv, Paired
    <3> QED BY <3>5, <3>6
  <2> QED BY <1>4, <2>2, <2>3 DEF recv_response
<1>5. CASE Timeout
  <2>1. toHost' = <<>> /\ toReader' = toReader /\ host.phase = "wait"
        /\ (GiveUp(<<>>) \/ Drained(<<>>))
    BY <1>5 DEF Timeout
  <2> QED BY <2>1, GiveUpLinkInv
<1>6. CASE Reader
  <2> DEFINE c == Head(toReader)
  <2>1. toReader # <<>> /\ toReader' = Tail(toReader) /\ host' = host /\ astray' = astray
    BY <1>6 DEF Reader
  <2>2. CASE astray
    BY <2>1, <2>2 DEF LinkInv
  <2>3. CASE ~astray
    <3>1. host.phase = "wait" /\ \E e : Asking(e)
      BY <2>1, <2>3 DEF LinkInv, Paired, Quiet, Answered
    <3>2. PICK e : Asking(e)
      BY <3>1
    <3>3. c = e /\ toReader' = <<>> /\ toHost = <<>> /\ Fits(e, Len(host.expect))
      BY <2>1, <3>2 DEF Asking
    <3>4. Len(host.expect) \in Nat
      BY LenProperties DEF LinkInv, IsHost
    <3> HIDE DEF c
    <3>5. IsSeq(toHost') /\ (toHost' # <<>> /\ Head(toHost').status = OK
                                => Len(toHost') <= Len(host.expect))
      <4>1. CASE /\ c.good
                 /\ \/ toHost' = toHost \o Answer(c)
                    \/ \E packets \in Damaged(Answer(c)) : toHost' = toHost \o packets
        <5>1. IsSeq(Answer(c)) /\ Len(Answer(c)) <= Len(host.expect)
          BY <3>3, <3>4, <4>1, AnswerFits
        <5>2. PICK packets : /\ IsSeq(packets) /\ Len(packets) <= Len(host.expect)
                             /\ toHost' = toHost \o packets
          BY <4>1, <5>1, DamagedFits
        <5>3. toHost' = packets
          BY <3>3, <5>2, ConcatEmptySeq DEF IsSeq
        <5> QED BY <5>2, <5>3
      <4>2. CASE toHost' = Refusal(c) \/ toHost' = <<Packet("emmc", <<>>)>>
        BY <4>2, RefusedFirst
      <4> QED BY <1>6, <3>3, <4>1, <4>2, RefusedLine DEF Reader, c
    <3> QED BY <2>1, <3>1, <3>3, <3>5 DEF LinkInv, Paired, Answered
  <2> QED BY <2>2, <2>3
<1>7. CASE UNCHANGED vars
  BY <1>7 DEF vars, LinkInv, Paired, Answered, Asking, Quiet
<1> QED BY <1>1, <1>2, <1>3, <1>4, <1>5, <1>6, <1>7 DEF Next

THEOREM LinkInvHolds == Spec => []LinkInv
<1>1. Init => LinkInv
  BY InitLinkInv
<1>2. LinkInv /\ [Next]_vars => LinkInv'
  BY StepLinkInv
<1> QED BY <1>1, <1>2, PTL DEF Spec

(* While no exchange was given up, nothing is on the line between two      *)
(* exchanges: each answer is paired with its question (protocol.rs, whose  *)
(* packets name neither command nor sector).                               *)
THEOREM AnswersArePaired == Spec => []InStep
<1>1. LinkInv => InStep
  BY DEF LinkInv, InStep, Paired, Quiet
<1> QED BY <1>1, LinkInvHolds, PTL

-----------------------------------------------------------------------------
(* An RPMB session: the reader before and after each of its steps.         *)

SessionSteps == {"mode_on", "part3", "rpmb_write", "rpmb_read", "part0", "mode_off"}
Frames == {"rpmb_write", "rpmb_read"}
User == [part |-> 0, rpmb |-> FALSE]
Before(step) == [part |-> IF step \in Frames \cup {"part0"} THEN 3 ELSE 0,
                 rpmb |-> step # "mode_on"]
After(step) == [part |-> IF step \in Frames \cup {"part3"} THEN 3 ELSE 0,
                rpmb |-> step # "mode_off"]

Obeyed(c, r) ==
    CASE c.cmd = "set_partition" -> [r EXCEPT !.part = c.lba]
      [] c.cmd = "set_rpmb_mode" -> [r EXCEPT !.rpmb = c.lba = 1]
      [] OTHER -> r

Suits(h) == h.job = "rpmb" <=> h.step \in SessionSteps

(* Commands that do not switch the reader.                                 *)
AllCalm(s) ==
    \E S : s \in Seq(S) /\ \A c \in S : c.cmd \notin {"set_partition", "set_rpmb_mode"}

Answering ==
    IF toReader # <<>>
    THEN /\ reader = Before(host.step)
         /\ LET c == Head(toReader)
            IN  c.good => Obeyed(c, Before(host.step)) = After(host.step)
    ELSE host.step \in Frames \/ (toHost # <<>> /\ Head(toHost).status = OK)
             => reader = After(host.step)

InSession ==
    /\ ~astray
    /\ host.phase \in {"idle", "ended"} => reader = User
    /\ host.phase = "ask" => reader = Before(host.step)
    /\ host.phase = "wait" => Answering

SessionInv ==
    /\ Suits(host)
    /\ ~unsure => IF host.job = "rpmb" THEN InSession ELSE reader = User /\ AllCalm(toReader)
    /\ plain => unsure

(* A session stays one, and nothing else becomes one.                      *)
Follows(g, h) == g.job = h.job /\ (g.step \in SessionSteps <=> h.step \in SessionSteps)

LEMMA AskFollows ==
    ASSUME NEW h, IsHost(h), NEW f, IsHost(f), f.job = h.job,
           NEW step \in StepNames, step \in SessionSteps <=> h.step \in SessionSteps
    PROVE  Follows(Ask(f, step), h)
BY AskIsHost DEF Follows

LEMMA EndedFollows ==
    ASSUME NEW h, IsHost(h), NEW result
    PROVE  Follows(Ended(h, result), h)
BY EndedIsHost DEF Follows

LEMMA ChunkReadFollows ==
    ASSUME NEW h, IsHost(h), h.step \in StepNames
    PROVE  Follows(ChunkRead(h), h)
<1> DEFINE n == Count(Chunk, h.offset)
           b == Compared(h, n)
           g == [h EXCEPT !.out = @ \o h.got, !.offset = @ + n, !.readback = b]
<1>1. n \in Nat
  BY CountIsNat, LinkAssumption DEF IsHost
<1>2. IsHost(g) /\ g.step = h.step /\ g.job = h.job
  <2> HIDE DEF n, b
  <2> QED BY <1>1 DEF IsHost, Fields
<1>3. ChunkRead(h) = IF g.offset < Total THEN Ask(g, h.step) ELSE Ended(g, "done")
  BY DEF ChunkRead
<1> HIDE DEF g
<1> QED BY <1>2, <1>3, AskIsHost, EndedIsHost DEF Follows

LEMMA BatchWrittenFollows ==
    ASSUME NEW h, IsHost(h), h.step \in StepNames \ SessionSteps
    PROVE  Follows(BatchWritten(h), h)
<1> DEFINE n == Least(WriteChunk, h.offset)
           g == [h EXCEPT !.offset = @ + n]
           z == [g EXCEPT !.offset = 0]
<1>1. n \in Int
  BY LeastIsInt, LinkAssumption DEF IsHost
<1>2. IsHost(g) /\ g.job = h.job
  <2> HIDE DEF n
  <2> QED BY <1>1 DEF IsHost, Fields
<1>3. BatchWritten(h) = IF g.offset < Total THEN Ask(g, h.step)
                        ELSE IF h.job = "restore" THEN Ask(g, "flush") ELSE Ask(z, "verify")
  BY DEF BatchWritten
<1> HIDE DEF g
<1>4. IsHost(z) /\ z.job = h.job
  BY <1>2 DEF IsHost, Fields
<1> HIDE DEF z
<1>5. {"flush", "verify"} \subseteq StepNames \ SessionSteps
  BY DEF StepNames, SessionSteps
<1>6. /\ Follows(Ask(g, h.step), h)
      /\ Follows(Ask(g, "flush"), h)
      /\ Follows(Ask(z, "verify"), h)
  BY <1>2, <1>4, <1>5, AskFollows
<1> QED BY <1>3, <1>6

LEMMA SucceededFollows ==
    ASSUME NEW h, IsHost(h), h.step \in StepNames
    PROVE  Follows(Succeeded(h), h)
<1> DEFINE s == [h EXCEPT !.step = "send"]
           e == [h EXCEPT !.result = "error"]
           w == [h EXCEPT !.phase = "wait", !.step = "recv", !.expect = <<"status">>]
<1>1. IsHost(s) /\ IsHost(e) /\ s.step = "send" /\ s.job = h.job /\ e.job = h.job
  BY DEF IsHost, Fields, StepNames
<1>2. CASE h.step \in Reads
  <2>1. Succeeded(h) = ChunkRead(h)
    BY <1>2 DEF Succeeded, Reads
  <2> QED BY <2>1, ChunkReadFollows
<1>3. CASE h.step = "write"
  <2>1. Succeeded(h) = BatchWritten(h)
    BY <1>3 DEF Succeeded, Reads
  <2> QED BY <1>3, <2>1, BatchWrittenFollows DEF SessionSteps
<1>4. CASE h.step = "recv"
  <2>1. Succeeded(h) = BatchWritten(s)
    BY <1>4 DEF Succeeded, Reads
  <2> HIDE DEF s
  <2> QED BY <1>1, <1>4, <2>1, BatchWrittenFollows DEF StepNames, SessionSteps, Follows
<1>5. CASE h.step = "send"
  <2>1. Succeeded(h) = w
    BY <1>5 DEF Succeeded, Reads
  <2>2. w.job = h.job /\ w.step = "recv"
    BY DEF IsHost, Fields
  <2> HIDE DEF w
  <2> QED BY <1>5, <2>1, <2>2 DEF Follows, SessionSteps
<1>6. CASE h.step \in StepNames \ (Reads \cup {"write", "recv", "send"})
  <2>1. \/ \E step \in StepNames : /\ Succeeded(h) = Ask(h, step) \/ Succeeded(h) = Ask(e, step)
                                   /\ step \in SessionSteps <=> h.step \in SessionSteps
        \/ \E result : Succeeded(h) = Ended(h, result)
    BY <1>6 DEF Succeeded, Reads, StepNames, SessionSteps
  <2> HIDE DEF e
  <2> QED BY <1>1, <2>1, AskFollows, EndedFollows
<1> QED BY <1>2, <1>3, <1>4, <1>5, <1>6

LEMMA FailedFollows ==
    ASSUME NEW h, IsHost(h), h.step \in StepNames
    PROVE  Follows(Failed(h), h)
<1> DEFINE e == [h EXCEPT !.result = "error"]
<1>1. IsHost(e) /\ e.job = h.job
  BY DEF IsHost, Fields
<1>2. CASE h.step \in Reads /\ h.tries > 0
  <2>1. Failed(h) = Again(h)
    BY <1>2 DEF Failed, Reads
  <2> QED BY <2>1 DEF Again, IsHost, Fields, Follows
<1>3. CASE ~(h.step \in Reads /\ h.tries > 0)
  <2>1. \/ \E step \in StepNames : /\ Failed(h) = Ask(h, step) \/ Failed(h) = Ask(e, step)
                                   /\ step \in SessionSteps <=> h.step \in SessionSteps
        \/ \E result : Failed(h) = Ended(h, result)
    BY <1>3 DEF Failed, Tolerated, SwitchedBack, Reads, StepNames, SessionSteps
  <2> HIDE DEF e
  <2> QED BY <1>1, <2>1, AskFollows, EndedFollows
<1> QED BY <1>2, <1>3

LEMMA AskedFollows ==
    ASSUME IsHost(host), host.phase = "ask"
    PROVE  /\ Follows(Asked(host), host)
           /\ host.step \in SessionSteps
                 => Asked(host).phase = "wait" /\ Asked(host).step = host.step
<1> DEFINE expect == Expected(host.step, host.offset)
           g == [host EXCEPT !.phase = "wait", !.got = <<>>, !.expect = expect]
<1>1. host.step \in StepNames
  BY DEF IsHost
<1>2. Asked(host) = IF expect = <<>> THEN Succeeded(g) ELSE g
  <2>1. g.expect = expect
    BY DEF IsHost, Fields
  <2> QED BY <2>1 DEF Asked
<1>3. expect \in Seq(Wants) /\ (host.step \in SessionSteps => expect # <<>>)
  <2>1. CASE host.step \in Reads
    <3>1. expect = read_sectors(Count(Chunk, host.offset)) /\ Count(Chunk, host.offset) \in Nat
      BY <2>1, ReadQuestion, CountIsNat, LinkAssumption DEF IsHost
    <3> HIDE DEF expect
    <3> QED BY <2>1, <3>1, ReadExpects DEF Reads, SessionSteps
  <2>2. CASE host.step \notin Reads
    <3> DEFINE one == <<"status">>
               two == <<"block", "status">>
    <3>1. \/ expect = one \/ expect = two
          \/ expect = <<>> /\ host.step = "send"
          \/ expect = read_sectors(1)
      BY <1>1, <2>2, OtherQuestion DEF IsHost
    <3>2. /\ one \in Seq(Wants) /\ two \in Seq(Wants) /\ one # <<>> /\ two # <<>>
          /\ <<>> \in Seq(Wants)
      BY DEF Wants
    <3> HIDE DEF expect, one, two
    <3>3. read_sectors(1) \in Seq(Wants) /\ read_sectors(1) # <<>>
      BY ReadExpects, EmptySeq
    <3> QED BY <3>1, <3>2, <3>3 DEF SessionSteps
  <2> QED BY <2>1, <2>2
<1> HIDE DEF expect
<1>4. IsHost(g) /\ g.step = host.step /\ g.job = host.job /\ g.phase = "wait"
  BY <1>1, <1>3 DEF IsHost, Fields
<1> HIDE DEF g
<1> QED BY <1>1, <1>2, <1>3, <1>4, SucceededFollows DEF Follows

(* A step that succeeds leaves the reader as the next one needs it.        *)
LEMMA SessionGoesOn ==
    ASSUME NEW h, IsHost(h), h.step \in SessionSteps
    PROVE  LET g == Succeeded(h)
           IN  \/ g.phase = "ask" /\ Before(g.step) = After(h.step)
               \/ g.phase = "ended" /\ After(h.step) = User
<1> DEFINE e == [h EXCEPT !.result = "error"]
<1>1. IsHost(e)
  BY DEF IsHost, Fields
<1>2. CASE h.step = "mode_off"
  <2>1. \E result : Succeeded(h) = Ended(h, result)
    BY <1>2 DEF Succeeded, Reads
  <2> QED BY <1>2, <2>1, EndedIsHost DEF After, User, Frames
<1>3. CASE h.step # "mode_off"
  <2>1. \E step \in SessionSteps : /\ Succeeded(h) = Ask(h, step) \/ Succeeded(h) = Ask(e, step)
                                   /\ Before(step) = After(h.step)
    BY <1>3 DEF Succeeded, Reads, SessionSteps, Before, After, Frames
  <2>2. SessionSteps \subseteq StepNames
    BY DEF SessionSteps, StepNames
  <2> HIDE DEF e
  <2> QED BY <1>1, <2>1, <2>2, AskIsHost
<1> QED BY <1>2, <1>3

(* One whose frames failed is switched back.                               *)
LEMMA SessionBack ==
    ASSUME NEW h, IsHost(h), h.step \in Frames
    PROVE  LET g == Failed(h)
           IN  g.phase = "ask" /\ Before(g.step) = After(h.step)
<1> DEFINE e == [h EXCEPT !.result = "error"]
<1>1. IsHost(e)
  BY DEF IsHost, Fields
<1>2. Failed(h) = Ask(e, "part0")
  BY DEF Failed, SwitchedBack, Reads, Frames
<1> HIDE DEF e
<1> QED BY <1>1, <1>2, AskIsHost DEF StepNames, Before, After, Frames

(* What a session asks for, and what every other job does not.             *)
LEMMA SessionQuestion ==
    ASSUME NEW step \in SessionSteps, NEW offset
    PROVE  LET c == Question(step, offset)
           IN  Obeyed(c, Before(step)) = After(step)
<1>1. \/ \E p : step \in {"part3", "part0"} /\ p = (IF step = "part3" THEN 3 ELSE 0)
                /\ Question(step, offset) = Command("set_partition", p, 0, <<>>)
      \/ \E m : step \in {"mode_on", "mode_off"} /\ m = (IF step = "mode_on" THEN 1 ELSE 0)
                /\ Question(step, offset) = Command("set_rpmb_mode", m, 0, <<>>)
      \/ \E cmd, data : step \in Frames /\ cmd \in {"read", "write"}
                /\ Question(step, offset) = Command(cmd, 0, 1, data)
  BY DEF Question, Reads, SessionSteps, Frames
<1> QED BY <1>1 DEF Command, Obeyed, Before, After, Frames

LEMMA CalmQuestion ==
    ASSUME NEW step, step \notin SessionSteps, NEW offset
    PROVE  LET c == Question(step, offset)
           IN  c.cmd \notin {"set_partition", "set_rpmb_mode"}
<1>1. \E cmd, lba, n, data : cmd \notin {"set_partition", "set_rpmb_mode"}
         /\ Question(step, offset) = Command(cmd, lba, n, data)
  BY DEF Question, Reads, SessionSteps
<1> QED BY <1>1, CommandParts

LEMMA EmptyCalm == AllCalm(<<>>)
<1> DEFINE none == <<>>
<1>1. none \in Seq({})
  BY EmptySeq
<1> HIDE DEF none
<1>2. AllCalm(none)
  BY <1>1 DEF AllCalm
<1> QED BY <1>2 DEF none

LEMMA AppendCalm ==
    ASSUME NEW s, AllCalm(s), NEW c, c.cmd \notin {"set_partition", "set_rpmb_mode"}
    PROVE  AllCalm(Append(s, c))
<1>1. PICK S : s \in Seq(S) /\ \A e \in S : e.cmd \notin {"set_partition", "set_rpmb_mode"}
  BY DEF AllCalm
<1>2. s \in Seq(S \cup {c})
  BY <1>1, SeqMonotonic
<1>3. Append(s, c) \in Seq(S \cup {c})
  BY <1>2
<1> QED BY <1>1, <1>3 DEF AllCalm

LEMMA InitSessionInv == Init => SessionInv
BY EmptyCalm DEF Init, SessionInv, Suits, Idle, SessionSteps, User

LEMMA StartSessionInv == LinkInv /\ SessionInv /\ Start => SessionInv'
<1> SUFFICES ASSUME LinkInv, SessionInv, Start PROVE SessionInv'
  OBVIOUS
<1>1. PICK job \in Jobs :
          /\ host' = Ask([Idle EXCEPT !.job = job], FirstStep(job))
          /\ unsure' = (unsure \/ (job = "rpmb" /\ toReader # <<>>))
  BY DEF Start
<1>2. /\ host.phase \in {"idle", "ended"} /\ toHost' = <<>> /\ astray' = (toReader # <<>>)
      /\ toReader' = toReader /\ reader' = reader /\ plain' = plain
  BY DEF Start
<1> DEFINE h == [Idle EXCEPT !.job = job]
<1>3. IsHost(h) /\ h.job = job
  BY DEF IsHost, Idle, Fields
<1>4. FirstStep(job) \in StepNames /\ (FirstStep(job) \in SessionSteps <=> job = "rpmb")
      /\ (job = "rpmb" => FirstStep(job) = "mode_on")
  BY LinkAssumption DEF FirstStep, StepNames, SessionSteps
<1> HIDE DEF h
<1>5. host'.job = job /\ host'.step = FirstStep(job) /\ host'.phase = "ask"
  BY <1>1, <1>3, <1>4, AskIsHost DEF h
<1>6. ASSUME ~unsure' PROVE reader = User /\ AllCalm(toReader)
  <2>1. ~unsure
    BY <1>1, <1>6
  <2>2. CASE host.job # "rpmb"
    BY <2>1, <2>2 DEF SessionInv
  <2>3. CASE host.job = "rpmb"
    <3>1. InSession
      BY <2>1, <2>3 DEF SessionInv
    <3>2. Quiet
      BY <1>2, <3>1 DEF InSession, LinkInv, Paired
    <3> QED BY <1>2, <3>1, <3>2, EmptyCalm DEF InSession, Quiet
  <2> QED BY <2>2, <2>3
<1>7. ASSUME ~unsure', job = "rpmb" PROVE InSession'
  <2>1. ~astray'
    BY <1>1, <1>2, <1>7
  <2>2. reader' = Before("mode_on")
    BY <1>2, <1>6, <1>7 DEF User, Before, Frames
  <2> QED BY <1>4, <1>5, <1>7, <2>1, <2>2 DEF InSession
<1> QED BY <1>1, <1>2, <1>4, <1>5, <1>6, <1>7 DEF SessionInv, Suits

LEMMA SendSessionInv == LinkInv /\ SessionInv /\ send_command => SessionInv'
<1> SUFFICES ASSUME LinkInv, SessionInv, send_command PROVE SessionInv'
  OBVIOUS
<1> DEFINE c == Question(host.step, host.offset)
           d == [c EXCEPT !.good = FALSE]
<1>1. /\ host.phase = "ask" /\ host' = Asked(host) /\ IsHost(host)
      /\ toReader' \in {toReader, Append(toReader, c), Append(toReader, d)}
      /\ toHost' = toHost /\ reader' = reader /\ astray' = astray
      /\ unsure' = unsure /\ plain' = plain
  BY DEF send_command, LinkInv
<1>2. /\ host'.job = host.job
      /\ host'.step \in SessionSteps <=> host.step \in SessionSteps
      /\ host.step \in SessionSteps => host'.phase = "wait" /\ host'.step = host.step
  BY <1>1, AskedFollows DEF Follows
<1>3. Suits(host) /\ Suits(host')
  BY <1>2 DEF SessionInv, Suits
<1>4. ~d.good /\ d.cmd = c.cmd
  <2>1. \E cmd, lba, n, data : c = Command(cmd, lba, n, data)
    <3>1. CASE host.step \in Reads
      BY <1>1, <3>1, ReadQuestion DEF IsHost
    <3>2. CASE host.step \notin Reads
      BY <1>1, <3>2, OtherQuestion DEF IsHost
    <3> QED BY <3>1, <3>2
  <2> HIDE DEF c
  <2> QED BY <2>1 DEF Command
<1>5. ASSUME ~unsure, host.job = "rpmb" PROVE InSession'
  <2>1. /\ host.step \in SessionSteps /\ reader = Before(host.step) /\ ~astray
        /\ toReader = <<>> /\ toHost = <<>>
    BY <1>1, <1>3, <1>5 DEF SessionInv, InSession, Suits, LinkInv, Paired, Quiet
  <2>2. Obeyed(c, Before(host.step)) = After(host.step)
    BY <2>1, SessionQuestion
  <2> HIDE DEF c, d
  <2>3. toReader' \in {<<>>, <<c>>, <<d>>}
    BY <1>1, <2>1
  <2>4. Answering'
    <3>1. CASE toReader' = <<>>
      BY <1>1, <1>2, <2>1, <3>1 DEF Answering, Before, After, Frames
    <3>2. CASE toReader' = <<c>>
      BY <1>1, <1>2, <2>1, <2>2, <3>2 DEF Answering
    <3>3. CASE toReader' = <<d>>
      BY <1>1, <1>2, <1>4, <2>1, <3>3 DEF Answering
    <3> QED BY <2>3, <3>1, <3>2, <3>3
  <2> QED BY <1>1, <1>2, <2>1, <2>4 DEF InSession
<1>6. ASSUME ~unsure, host.job # "rpmb" PROVE reader' = User /\ AllCalm(toReader')
  <2>1. host.step \notin SessionSteps /\ reader = User /\ AllCalm(toReader)
    BY <1>3, <1>6 DEF SessionInv, Suits
  <2>2. c.cmd \notin {"set_partition", "set_rpmb_mode"}
    BY <2>1, CalmQuestion
  <2> HIDE DEF c, d
  <2>3. ASSUME NEW e \in {c, d} PROVE AllCalm(Append(toReader, e))
    BY <1>4, <2>1, <2>2, AppendCalm
  <2> QED BY <1>1, <2>1, <2>3
<1> QED BY <1>1, <1>2, <1>3, <1>5, <1>6 DEF SessionInv

LEMMA CancelSessionInv == LinkInv /\ SessionInv /\ Cancel => SessionInv'
<1> SUFFICES ASSUME LinkInv, SessionInv, Cancel PROVE SessionInv'
  OBVIOUS
<1>1. /\ toReader' = toReader /\ toHost' = toHost /\ reader' = reader /\ astray' = astray
      /\ unsure' = unsure /\ plain' = plain
  BY DEF Cancel
<1>2. host.job # "rpmb"
  BY DEF Cancel, SessionInv, Suits, SessionSteps
<1>3. host'.job = host.job /\ host'.step = host.step
  <2>1. host' = Ended(host, "error") \/ host' = [host EXCEPT !.result = "error"]
    BY DEF Cancel
  <2> QED BY <2>1, EndedIsHost DEF LinkInv, IsHost, Fields
<1> QED BY <1>1, <1>2, <1>3 DEF SessionInv, Suits

(* A session that gives up an exchange in step was moving frames.          *)
LEMMA GiveUpSessionInv ==
    ASSUME LinkInv, SessionInv, host.phase = "wait", NEW left, toReader' = toReader,
           reader' = reader, plain' = plain,
           GiveUp(left) \/ (host.step = "recv" /\ Drained(left))
    PROVE  SessionInv'
<1>1. IsHost(host) /\ host.step \in StepNames
  BY DEF LinkInv, IsHost
<1>2. Follows(host', host)
  <2>1. CASE GiveUp(left)
    BY <1>1, <2>1, FailedFollows DEF GiveUp
  <2>2. CASE host.step = "recv" /\ Drained(left)
    BY <1>1, <2>2, AskFollows DEF Drained, SessionSteps, StepNames
  <2> QED BY <2>1, <2>2
<1>3. unsure => unsure'
  BY DEF GiveUp, Drained
<1>4. ASSUME ~unsure', host.job = "rpmb" PROVE InSession'
  <2>1. GiveUp(left) /\ ~unsure
    BY <1>3, <1>4 DEF SessionInv, Suits, SessionSteps
  <2>2. ~astray' /\ host.step \notin Switch /\ host' = Failed(host) /\ toReader = <<>>
    BY <1>4, <2>1 DEF GiveUp
  <2>3. host.step \in Frames
    BY <1>4, <2>2 DEF SessionInv, Suits, SessionSteps, Switch, Frames
  <2>4. reader = After(host.step)
    BY <1>4, <2>1, <2>2, <2>3 DEF SessionInv, InSession, Answering
  <2>5. host'.phase = "ask" /\ reader' = Before(host'.step)
    BY <1>1, <2>2, <2>3, <2>4, SessionBack
  <2> QED BY <2>2, <2>5 DEF InSession
<1> QED BY <1>2, <1>3, <1>4 DEF SessionInv, Suits, Follows

LEMMA RecvSessionInv == LinkInv /\ SessionInv /\ recv_response => SessionInv'
<1> SUFFICES ASSUME LinkInv, SessionInv, recv_response PROVE SessionInv'
  OBVIOUS
<1> DEFINE want   == Head(host.expect)
           packet == Head(toHost)
           taken  == Taken(host, packet)
           left   == Behind(want, packet) \o Tail(toHost)
<1>1. /\ host.phase = "wait" /\ toHost # <<>> /\ toReader' = toReader
      /\ reader' = reader /\ plain' = plain
      /\ IsHost(host) /\ host.step \in StepNames /\ host.expect # <<>>
      /\ host.expect \in Seq(Wants)
  BY DEF recv_response, LinkInv, IsHost
<1>2. CASE GiveUp(left) \/ (host.step = "recv" /\ Drained(left))
  <2> HIDE DEF left
  <2> QED BY <1>1, <1>2, GiveUpSessionInv
<1>3. CASE /\ Accepts(want, packet)
           /\ host' = IF taken.expect = <<>> THEN Succeeded(taken) ELSE taken
           /\ UNCHANGED <<astray, unsure>>
  <2>1. Tail(host.expect) \in Seq(Wants)
    BY <1>1, HeadTailProperties
  <2>2. IsHost(taken) /\ taken.phase = "wait" /\ taken.step = host.step /\ taken.job = host.job
    BY <1>1, <2>1 DEF Taken, IsHost, Fields
  <2>3. packet.status = OK
    BY <1>3 DEF Accepts
  <2> HIDE DEF want, packet, taken, left
  <2>4. Follows(Succeeded(taken), host) /\ Follows(taken, host)
    BY <1>1, <2>2, SucceededFollows DEF Follows
  <2>5. Follows(host', host)
    BY <1>3, <2>4
  <2>6. ASSUME ~unsure, host.job = "rpmb" PROVE InSession'
    <3>1. ~astray /\ Answering /\ host.step \in SessionSteps
      BY <1>1, <2>6 DEF SessionInv, InSession, Suits
    <3>2. toReader = <<>>
      BY <1>1, <3>1 DEF LinkInv, Paired, Answered, Asking
    <3>3. reader = After(host.step)
      BY <1>1, <2>3, <3>1, <3>2 DEF Answering, packet
    <3>4. CASE host' = Succeeded(taken)
      <4>1. \/ host'.phase = "ask" /\ Before(host'.step) = After(host.step)
            \/ host'.phase = "ended" /\ After(host.step) = User
        BY <2>2, <3>1, <3>4, SessionGoesOn
      <4> QED BY <1>1, <1>3, <3>1, <3>3, <4>1 DEF InSession
    <3>5. CASE host' = taken
      BY <1>1, <1>3, <2>2, <3>1, <3>2, <3>3, <3>5 DEF InSession, Answering
    <3> QED BY <1>3, <3>4, <3>5
  <2> QED BY <1>1, <1>3, <2>5, <2>6 DEF SessionInv, Suits, Follows
<1> QED BY <1>2, <1>3 DEF recv_response, Draining

LEMMA TimeoutSessionInv == LinkInv /\ SessionInv /\ Timeout => SessionInv'
<1> SUFFICES ASSUME LinkInv, SessionInv, Timeout PROVE SessionInv'
  OBVIOUS
<1>1. /\ host.phase = "wait" /\ toReader' = toReader /\ reader' = reader /\ plain' = plain
      /\ GiveUp(<<>>) \/ (host.step = "recv" /\ Drained(<<>>))
  BY DEF Timeout, Draining
<1> QED BY <1>1, GiveUpSessionInv

LEMMA ReaderSessionInv == LinkInv /\ SessionInv /\ Reader => SessionInv'
<1> SUFFICES ASSUME LinkInv, SessionInv, Reader PROVE SessionInv'
  OBVIOUS
<1> DEFINE c == Head(toReader)
<1>1. /\ toReader # <<>> /\ toReader' = Tail(toReader) /\ host' = host
      /\ astray' = astray /\ unsure' = unsure
  BY DEF Reader
<1>2. \/ /\ c.good /\ reader' = Obeyed(c, reader)
         /\ plain' = (plain \/ (c.cmd \in {"read", "write"} /\ Rpmb /\ ~reader.rpmb))
      \/ /\ reader' = reader /\ plain' = plain
         /\ toHost' = Append(toHost, Packet("emmc", <<>>))
      \/ /\ ~c.good /\ reader' = reader /\ plain' = plain
         /\ toHost' = toHost \o <<Packet("crc", <<>>)>>
                        \o (IF c.cmd = "write" /\ c.n > 1 THEN <<Packet(OK, <<>>)>> ELSE <<>>)
  BY DEF Reader, Obeyed
<1>3. ASSUME ~unsure, host.job = "rpmb" PROVE InSession' /\ reader = Before(host.step)
  <2>1. InSession /\ host.phase = "wait"
    BY <1>1, <1>3 DEF SessionInv, InSession, LinkInv, Paired, Quiet
  <2>2. /\ reader = Before(host.step)
        /\ c.good => Obeyed(c, Before(host.step)) = After(host.step)
    BY <1>1, <2>1 DEF InSession, Answering
  <2>3. toReader' = <<>> /\ toHost = <<>>
    <3>1. PICK e : Asking(e)
      BY <1>1, <2>1 DEF InSession, LinkInv, Paired, Answered
    <3> QED BY <1>1, <3>1 DEF Asking
  <2> HIDE DEF c
  <2>4. \/ reader' = After(host.step)
        \/ reader' = Before(host.step) /\ Head(toHost').status # OK
    <3>1. CASE c.good /\ reader' = Obeyed(c, reader)
      BY <2>2, <3>1
    <3>2. CASE /\ reader' = reader
               /\ toHost' = Refusal(c) \/ toHost' = <<Packet("emmc", <<>>)>>
      BY <2>2, <3>2, RefusedFirst
    <3> QED BY <1>2, <2>3, <3>1, <3>2, RefusedLine
  <2>5. Answering'
    BY <1>1, <2>3, <2>4 DEF Answering, Before, After, Frames
  <2> QED BY <1>1, <2>1, <2>2, <2>5 DEF InSession
<1>4. ASSUME ~unsure, host.job # "rpmb" PROVE reader' = User /\ reader = User /\ AllCalm(toReader')
  <2>1. reader = User /\ AllCalm(toReader)
    BY <1>4 DEF SessionInv
  <2>2. PICK S : toReader \in Seq(S)
                 /\ \A e \in S : e.cmd \notin {"set_partition", "set_rpmb_mode"}
    BY <2>1 DEF AllCalm
  <2>3. c \in S /\ Tail(toReader) \in Seq(S)
    BY <1>1, <2>2, HeadTailProperties
  <2>4. reader' = reader
    BY <1>2, <2>2, <2>3 DEF Obeyed
  <2> QED BY <1>1, <2>1, <2>2, <2>3, <2>4 DEF AllCalm
<1>5. ASSUME ~unsure PROVE ~(Rpmb /\ ~reader.rpmb)
  <2>1. User.part = 0
    BY DEF User
  <2>2. ASSUME NEW step, Before(step).part = 3 PROVE Before(step).rpmb
    <3>1. step # "mode_on"
      BY <2>2 DEF Before, Frames
    <3>2. Before(step).rpmb = (step # "mode_on")
      BY DEF Before
    <3> QED BY <3>1, <3>2
  <2>3. reader = User \/ reader = Before(host.step)
    BY <1>3, <1>4, <1>5
  <2> QED BY <2>1, <2>2, <2>3 DEF Rpmb
<1>6. plain' => unsure'
  BY <1>1, <1>2, <1>5 DEF SessionInv
<1> QED BY <1>1, <1>3, <1>4, <1>6 DEF SessionInv, Suits

THEOREM SessionInvHolds == Spec => [](LinkInv /\ SessionInv)
<1>1. Init => LinkInv /\ SessionInv
  BY InitLinkInv, InitSessionInv
<1>2. LinkInv /\ SessionInv /\ [Next]_vars => (LinkInv /\ SessionInv)'
  <2> SUFFICES ASSUME LinkInv, SessionInv, [Next]_vars PROVE LinkInv' /\ SessionInv'
    OBVIOUS
  <2>1. LinkInv'
    BY StepLinkInv
  <2>2. CASE UNCHANGED vars
    BY <2>1, <2>2 DEF vars, SessionInv, Suits, InSession, Answering
  <2>3. CASE Next
    BY <2>1, <2>3, StartSessionInv, SendSessionInv, CancelSessionInv, RecvSessionInv,
       TimeoutSessionInv, ReaderSessionInv DEF Next
  <2> QED BY <2>1, <2>2, <2>3
<1> QED BY <1>1, <1>2, PTL DEF Spec

(* A session whose four switches were answered in step leaves the reader   *)
(* in the user area and out of RPMB mode, and nothing has touched RPMB     *)
(* outside one (read_counter, read_data of rpmb.rs).                       *)
THEOREM SessionsLeaveRpmb == Spec => []RpmbLeft
<1>1. LinkInv /\ SessionInv => RpmbLeft
  BY DEF SessionInv, InSession, User, RpmbLeft
<1> QED BY <1>1, SessionInvHolds, PTL
-----------------------------------------------------------------------------
(* What a job's "done" means.  While no exchange was given up, the command  *)
(* on the line is the question of the step under way.                       *)

UnderWay(h) == Question(IF h.step = "recv" THEN "send" ELSE h.step, h.offset)
OwnQuestion ==
    host.phase = "wait" =>
        \/ toReader = <<>>
        \/ \E good \in BOOLEAN : toReader = <<[UnderWay(host) EXCEPT !.good = good]>>

(* A restore: the card c holds the file up to the offset, and past the      *)
(* batch under way when its answer is one that will be accepted.            *)
RestoreSteps == {"csd", "cache", "send", "recv", "flush"}
FileOn(c, k) == \A l \in 0..(k - 1) : c[l] = New(l)
AfterBatch(h) == h.offset + Least(WriteChunk, h.offset)

Restores(h, c) ==
    /\ h.step \in RestoreSteps
    /\ h.phase = "ended" /\ h.result = "done" => FileOn(c, Total)
    /\ h.phase # "ended" => h.result \in {"none", "error"}
    /\ h.phase = "ask" => h.step # "recv"
    /\ h.step \in {"csd", "cache"} => h.offset = 0
    /\ h.step \in {"send", "recv"} => h.offset \in Lba /\ FileOn(c, h.offset)
    /\ h.step = "flush" /\ h.result = "none" => FileOn(c, Total)

BatchAnswered(h) ==
    h.phase = "wait" /\ h.step = "recv" =>
        /\ h.expect = <<"status">>
        /\ toReader = <<>> /\ toHost # <<>> /\ Accepts("status", Head(toHost))
              => FileOn(card, AfterBatch(h))

(* A dump: the file holds the card up to the offset, and what has come of   *)
(* the chunk under way is its beginning; what is still to come is the rest. *)
Copied(c, from, n) == [i \in 1..n |-> c[from + i - 1]]

Dumps(h, c) ==
    /\ h.step = "read" /\ h.offset \in 0..Total /\ h.out = Copied(c, 0, h.offset)
    /\ h.phase # "ended" => h.offset < Total /\ h.result # "done"
    /\ h.phase = "ended" /\ h.result = "done" => h.offset = Total

(* The packets s are those behind the first k of the answer to a chunk of n.*)
RestOf(s, c, from, n, k) ==
    /\ Len(s) = n + 1 - k
    /\ \A j \in 1..Len(s) : s[j].data = IF k + j <= n THEN <<c[from + k + j - 1]>> ELSE <<>>

ChunkComes(h, c) ==
    h.phase = "wait" =>
        \E n \in Nat, k \in Nat :
            /\ n = Count(Chunk, h.offset) /\ 0 < n /\ k <= n
            /\ h.got = Copied(c, h.offset, k) /\ Len(h.expect) = n + 1 - k
            /\ \A i \in 1..(n - k) : h.expect[i] # "status"
            /\ toReader # <<>> => k = 0
            /\ toReader = <<>> /\ toHost # <<>> /\ Head(toHost).status = OK
                  => RestOf(toHost, c, h.offset, n, k)

RestoreInv ==
    Steady /\ host.job = "restore" => Restores(host, card) /\ BatchAnswered(host) /\ OwnQuestion
DumpInv ==
    Steady /\ host.job = "dump" => Dumps(host, card) /\ ChunkComes(host, card) /\ OwnQuestion

(* The steps of the jobs, field by field.                                   *)
LEMMA AskParts ==
    ASSUME NEW h, IsHost(h), NEW step
    PROVE  LET g == Ask(h, step)
           IN  /\ g.phase = "ask" /\ g.step = step /\ g.job = h.job
               /\ g.offset = h.offset /\ g.result = h.result /\ g.out = h.out
               /\ g.got = h.got /\ g.readback = h.readback
BY DEF IsHost, Ask, Fields

LEMMA EndedParts ==
    ASSUME NEW h, IsHost(h), NEW result
    PROVE  LET g == Ended(h, result)
           IN  /\ g.phase = "ended" /\ g.step = h.step /\ g.job = h.job
               /\ g.offset = h.offset /\ g.result = result /\ g.out = h.out
               /\ g.got = h.got /\ g.readback = h.readback
BY DEF IsHost, Ended, Fields

LEMMA NextBatch ==
    ASSUME NEW k \in Lba
    PROVE  LET m == k + Least(WriteChunk, k)
           IN  m \in 1..Total /\ Least(WriteChunk, k) \in Nat
BY LinkAssumption DEF Least, Lba

(* Where a restore goes when an exchange of it ends.                        *)
LEMMA RestoreBatch ==
    ASSUME NEW h, NEW c, IsHost(h), h.job = "restore", h.step = "send", h.result = "none",
           h.offset \in Lba, FileOn(c, AfterBatch(h))
    PROVE  Restores(BatchWritten(h), c)
<1> DEFINE m == AfterBatch(h)
           g == [h EXCEPT !.offset = @ + Least(WriteChunk, h.offset)]
<1>1. m \in 1..Total /\ FileOn(c, m)
  BY NextBatch DEF AfterBatch
<1>2. /\ IsHost(g) /\ g.offset = m /\ g.step = "send" /\ g.job = "restore"
      /\ g.result = "none"
  BY NextBatch, LinkAssumption DEF IsHost, Fields, AfterBatch, Lba
<1>3. BatchWritten(h) = IF m < Total THEN Ask(g, "send") ELSE Ask(g, "flush")
  BY <1>2 DEF BatchWritten
<1> HIDE DEF m, g
<1>4. CASE m < Total
  <2>1. /\ Ask(g, "send").phase = "ask" /\ Ask(g, "send").step = "send"
        /\ Ask(g, "send").offset = m /\ Ask(g, "send").result = "none"
    BY <1>2, AskParts
  <2> QED
    BY <1>1, <1>3, <1>4, <2>1, LinkAssumption DEF Restores, RestoreSteps, Lba
<1>5. CASE ~(m < Total)
  <2>1. /\ Ask(g, "flush").phase = "ask" /\ Ask(g, "flush").step = "flush"
        /\ Ask(g, "flush").offset = m /\ Ask(g, "flush").result = "none"
    BY <1>2, AskParts
  <2>2. m = Total
    BY <1>1, <1>5, LinkAssumption
  <2> QED
    BY <1>1, <1>3, <1>5, <2>1, <2>2 DEF Restores, RestoreSteps
<1> QED
  BY <1>4, <1>5

LEMMA RestoreAsks ==
    ASSUME NEW h, NEW c, IsHost(h), h.result \in {"none", "error"},
           NEW step \in {"cache", "send", "flush"},
           step \in {"cache", "send"} => h.offset = 0,
           step = "flush" => h.result # "none"
    PROVE  Restores(Ask(h, step), c)
<1>1. FileOn(c, 0) /\ 0 \in Lba
  BY LinkAssumption DEF FileOn, Lba
<1>2. /\ Ask(h, step).phase = "ask" /\ Ask(h, step).step = step
      /\ Ask(h, step).offset = h.offset /\ Ask(h, step).result = h.result
  BY AskParts
<1> QED
  BY <1>1, <1>2 DEF Restores, RestoreSteps

LEMMA RestoreEnds ==
    ASSUME NEW h, NEW c, IsHost(h), h.step = "flush", h.result \in {"none", "error"},
           h.result = "none" => FileOn(c, Total)
    PROVE  Restores(Ended(h, IF h.result = "none" THEN "done" ELSE h.result), c)
<1> DEFINE r == IF h.result = "none" THEN "done" ELSE h.result
<1>1. r = "done" => FileOn(c, Total)
  OBVIOUS
<1>2. r # "none"
  OBVIOUS
<1> HIDE DEF r
<1>3. Ended(h, r).phase = "ended" /\ Ended(h, r).step = "flush" /\ Ended(h, r).result = r
  BY EndedParts
<1>4. Restores(Ended(h, r), c)
  BY <1>1, <1>2, <1>3 DEF Restores, RestoreSteps
<1> QED
  BY <1>4 DEF r

LEMMA RestoreGoesOn ==
    ASSUME NEW h, NEW c, IsHost(h), h.job = "restore", h.phase = "wait", Restores(h, c),
           h.step # "send",
           h.step = "recv" => h.result = "none" /\ FileOn(c, AfterBatch(h))
    PROVE  Restores(Succeeded(h), c)
<1> DEFINE s == [h EXCEPT !.step = "send"]
<1>1. /\ IsHost(s) /\ s.step = "send" /\ s.job = h.job /\ s.offset = h.offset
      /\ s.result = h.result
  BY DEF IsHost, Fields, StepNames
<1>2. CASE h.step = "recv"
  <2>1. Succeeded(h) = BatchWritten(s)
    BY <1>2 DEF Succeeded, Reads
  <2> HIDE DEF s
  <2>2. s.offset \in Lba /\ AfterBatch(s) = AfterBatch(h)
    BY <1>1, <1>2 DEF Restores, AfterBatch
  <2> QED
    BY <1>1, <1>2, <2>1, <2>2, RestoreBatch
<1>3. CASE h.step \in {"csd", "cache"}
  <2>1. Succeeded(h) = Ask(h, "cache") \/ Succeeded(h) = Ask(h, "send")
    BY <1>3 DEF Succeeded, Reads
  <2>2. h.offset = 0 /\ h.result \in {"none", "error"}
    BY <1>3 DEF Restores
  <2> QED
    BY <2>1, <2>2, RestoreAsks
<1>4. CASE h.step = "flush"
  <2>1. Succeeded(h) = Ended(h, IF h.result = "none" THEN "done" ELSE h.result)
    BY <1>4 DEF Succeeded, Reads
  <2>2. h.result \in {"none", "error"} /\ (h.result = "none" => FileOn(c, Total))
    BY <1>4 DEF Restores
  <2> QED
    BY <1>4, <2>1, <2>2, RestoreEnds
<1> QED
  BY <1>2, <1>3, <1>4 DEF Restores, RestoreSteps

LEMMA RestoreFails ==
    ASSUME NEW h, NEW c, IsHost(h), h.job = "restore", h.phase = "wait", Restores(h, c),
           h.step # "send"
    PROVE  Restores(Failed(h), c)
<1> DEFINE e == [h EXCEPT !.result = "error"]
<1>1. IsHost(e) /\ e.result = "error" /\ e.offset = h.offset
  BY DEF IsHost, Fields
<1>2. CASE h.step = "recv"
  <2>1. Failed(h) = Ask(e, "flush")
    BY <1>2 DEF Failed, Reads
  <2> HIDE DEF e
  <2> QED
    BY <1>1, <2>1, RestoreAsks
<1>3. CASE h.step \in {"csd", "cache"}
  <2>1. Failed(h) = Ask(h, "send")
    BY <1>3 DEF Failed, Tolerated, Reads
  <2>2. h.offset = 0 /\ h.result \in {"none", "error"}
    BY <1>3 DEF Restores
  <2> QED
    BY <2>1, <2>2, RestoreAsks
<1>4. CASE h.step = "flush"
  <2>1. Failed(h) = Ended(h, IF h.result = "none" THEN "done" ELSE h.result)
    BY <1>4 DEF Failed, Tolerated, Reads
  <2>2. h.result \in {"none", "error"} /\ (h.result = "none" => FileOn(c, Total))
    BY <1>4 DEF Restores
  <2> QED
    BY <1>4, <2>1, <2>2, RestoreEnds
<1> QED
  BY <1>2, <1>3, <1>4 DEF Restores, RestoreSteps

(* What a restore asks, and what it waits for then.                         *)
LEMMA RestoreAsked ==
    ASSUME IsHost(host), host.phase = "ask", Restores(host, card)
    PROVE  LET g == Asked(host)
           IN  /\ Restores(g, card)
               /\ g.step = "recv" => g.expect = <<"status">>
               /\ g.phase = "wait" /\ UnderWay(g) = Question(host.step, host.offset)
<1> DEFINE expect == Expected(host.step, host.offset)
           g == [host EXCEPT !.phase = "wait", !.got = <<>>, !.expect = expect]
           w == [g EXCEPT !.phase = "wait", !.step = "recv", !.expect = <<"status">>]
<1>1. host.step \in RestoreSteps \ {"recv"}
  BY DEF Restores
<1>2. Asked(host) = IF expect = <<>> THEN Succeeded(g) ELSE g
  <2>1. g.expect = expect
    BY DEF IsHost, Fields
  <2> QED BY <2>1 DEF Asked
<1>3. CASE host.step = "send"
  <2>1. expect = <<>>
    BY <1>3 DEF Expected, Reads
  <2>2. g.step = "send"
    BY <1>3 DEF IsHost, Fields
  <2>3. Asked(host) = w
    <3> HIDE DEF g
    <3>1. Succeeded(g) = w
      BY <2>2 DEF Succeeded, Reads
    <3> HIDE DEF w
    <3> QED
      BY <1>2, <2>1, <3>1
  <2>4. /\ w.phase = "wait" /\ w.step = "recv" /\ w.expect = <<"status">>
        /\ w.offset = host.offset /\ w.result = host.result
    BY DEF IsHost, Fields
  <2> HIDE DEF w, g
  <2> QED
    BY <1>3, <2>3, <2>4 DEF Restores, RestoreSteps, UnderWay
<1>4. CASE host.step # "send"
  <2>1. expect # <<>>
    <3>1. expect = <<"status">> \/ expect = <<"block", "status">>
      BY <1>1, <1>4 DEF Expected, Reads, RestoreSteps
    <3> QED BY <3>1
  <2> HIDE DEF expect
  <2>2. Asked(host) = g
    <3> HIDE DEF g
    <3> QED BY <1>2, <2>1
  <2>3. /\ g.phase = "wait" /\ g.step = host.step
        /\ g.offset = host.offset /\ g.result = host.result
    BY DEF IsHost, Fields
  <2> HIDE DEF g
  <2> QED
    BY <1>1, <1>4, <2>2, <2>3 DEF Restores, RestoreSteps, UnderWay
<1> QED
  BY <1>3, <1>4

LEMMA RestoreQuestion ==
    ASSUME NEW h, h.step \in RestoreSteps, NEW good \in BOOLEAN
    PROVE  LET c == [UnderWay(h) EXCEPT !.good = good]
               n == Least(WriteChunk, h.offset)
           IN  /\ c.good = good
               /\ IF h.step \in {"send", "recv"}
                  THEN c.cmd = "write" /\ c.lba = h.offset /\ c.n = n
                       /\ c.data = Tags(New, h.offset, n)
                  ELSE c.cmd \in {"get_ext_csd", "write_ext_csd"}
<1>1. CASE h.step \in {"send", "recv"}
  <2> DEFINE n == Least(WriteChunk, h.offset)
             data == Tags(New, h.offset, n)
  <2>1. UnderWay(h) = Command("write", h.offset, n, data)
    BY <1>1 DEF UnderWay, Question, Reads
  <2> HIDE DEF n, data
  <2>2. LET c == [Command("write", h.offset, n, data) EXCEPT !.good = good]
        IN  c.good = good /\ c.cmd = "write" /\ c.lba = h.offset /\ c.n = n /\ c.data = data
    BY DEF Command
  <2> QED
    BY <1>1, <2>1, <2>2 DEF n, data
<1>2. CASE h.step \notin {"send", "recv"}
  <2>1. PICK cmd \in {"get_ext_csd", "write_ext_csd"} : UnderWay(h) = Command(cmd, 0, 0, <<>>)
    BY <1>2 DEF UnderWay, Question, Reads, RestoreSteps
  <2>2. LET c == [Command(cmd, 0, 0, <<>>) EXCEPT !.good = good]
        IN  c.good = good /\ c.cmd = cmd
    BY DEF Command
  <2> QED
    BY <1>2, <2>1, <2>2
<1> QED
  BY <1>1, <1>2

(* A batch that is stored takes the file on by its sectors, one that is     *)
(* garbled touches nothing before them.                                     *)
LEMMA BatchStored ==
    ASSUME ~Rpmb, NEW c, NEW k \in Lba, c.cmd = "write", c.lba = k,
           c.n = Least(WriteChunk, k), c.data = Tags(New, k, c.n), FileOn(card, k)
    PROVE  FileOn(Stored(c), k + c.n) /\ FileOn(StoredGarbled(c), k)
<1> DEFINE n == c.n
<1>1. n \in Nat /\ k \in Nat /\ k + n \in 1..Total /\ Total \in Nat
  BY NextBatch, LinkAssumption DEF Lba
<1>2. Stored(c) = [l \in Lba |-> IF l - k \in 0..(n - 1) THEN c.data[l - k + 1] ELSE card[l]]
  BY DEF Stored
<1>3. \A l \in 0..((k + c.n) - 1) : Stored(c)[l] = New(l)
  <2> TAKE l \in 0..((k + c.n) - 1)
  <2>1. l \in Lba /\ l \in Nat
    BY <1>1 DEF Lba
  <2>2. CASE l < k
    <3>1. l \in 0..(k - 1) /\ ~(l - k \in 0..(n - 1))
      BY <1>1, <2>1, <2>2
    <3>2. Stored(c)[l] = card[l]
      BY <1>2, <2>1, <3>1
    <3> QED BY <3>1, <3>2 DEF FileOn
  <2>3. CASE k <= l
    <3> DEFINE i == l - k + 1
    <3>1. i \in 1..n /\ k + i - 1 = l /\ l - k \in 0..(n - 1)
      BY <1>1, <2>1, <2>3
    <3>2. Stored(c)[l] = c.data[i]
      BY <1>2, <2>1, <3>1
    <3>3. c.data[i] = New(k + i - 1)
      <4> HIDE DEF i
      <4> QED BY <3>1 DEF Tags
    <3> QED BY <3>1, <3>2, <3>3
  <2> QED BY <1>1, <2>1, <2>2, <2>3
<1>4. FileOn(Stored(c), k + n)
  BY <1>3 DEF FileOn
<1>5. ASSUME NEW l \in 0..(k - 1)
      PROVE  StoredGarbled(c)[l] = New(l)
  <2>1. l \in Lba /\ l # k /\ l \in 0..((k + c.n) - 1)
    BY <1>1 DEF Lba
  <2>2. card[l] = New(l) /\ Stored(c)[l] = New(l)
    <3>1. Stored(c)[l] = New(l)
      BY <1>3, <2>1
    <3>2. card[l] = New(l)
      BY DEF FileOn
    <3> QED BY <3>1, <3>2
  <2>3. [Stored(c) EXCEPT ![c.lba] = Garbled(c.lba)][l] = Stored(c)[l]
    BY <1>2, <2>1
  <2> QED
    BY <2>2, <2>3 DEF StoredGarbled
<1> QED
  BY <1>4, <1>5 DEF FileOn

(* What every step that begins, ends or answers an exchange does to it.     *)
LEMMA QuestionIsCommand ==
    ASSUME IsHost(host), host.phase = "ask"
    PROVE  LET c == Question(host.step, host.offset)
           IN  c = [c EXCEPT !.good = TRUE]
<1> DEFINE c == Question(host.step, host.offset)
<1>1. PICK cmd, lba, n, data : c = Command(cmd, lba, n, data)
  <2>1. CASE host.step \in Reads
    BY <2>1, ReadQuestion DEF IsHost
  <2>2. CASE host.step \notin Reads
    BY <2>2, OtherQuestion DEF IsHost
  <2> QED BY <2>1, <2>2
<1> HIDE DEF c
<1>2. c = [f \in DOMAIN c |-> c[f]] /\ c["good"] = TRUE
  BY <1>1 DEF Command
<1>3. c = [c EXCEPT !["good"] = TRUE]
  BY <1>2
<1> QED BY <1>3 DEF c

LEMMA StartParts ==
    ASSUME Start
    PROVE  /\ host'.phase = "ask" /\ host'.step = FirstStep(host'.job)
           /\ host'.offset = 0 /\ host'.result = "none" /\ host'.out = <<>>
           /\ host'.got = <<>>
<1>1. PICK job \in Jobs : host' = Ask([Idle EXCEPT !.job = job], FirstStep(job))
  BY DEF Start
<1> DEFINE h == [Idle EXCEPT !.job = job]
<1>2. IsHost(h) /\ h.job = job /\ h.offset = 0 /\ h.result = "none" /\ h.out = <<>>
      /\ h.got = <<>>
  BY DEF IsHost, Idle, Fields
<1> HIDE DEF h
<1>3. host' = Ask(h, FirstStep(job))
  BY <1>1 DEF h
<1> QED BY <1>2, <1>3, AskParts

LEMMA SendParts ==
    ASSUME LinkInv, ~astray, send_command
    PROVE  LET c == Question(host.step, host.offset)
           IN  /\ IsHost(host) /\ host.phase = "ask" /\ host' = Asked(host)
               /\ toHost' = <<>> /\ card' = card /\ astray' = astray /\ unsure' = unsure
               /\ toReader' = <<>> \/ \E good \in BOOLEAN : toReader' = <<[c EXCEPT !.good = good]>>
<1> DEFINE c == Question(host.step, host.offset)
           d == [c EXCEPT !.good = FALSE]
<1>1. /\ IsHost(host) /\ host.phase = "ask" /\ host' = Asked(host)
      /\ toHost' = toHost /\ card' = card /\ astray' = astray /\ unsure' = unsure
      /\ toReader' \in {toReader, Append(toReader, c), Append(toReader, d)}
  BY DEF send_command, LinkInv
<1>2. toHost = <<>> /\ toReader = <<>>
  BY <1>1 DEF LinkInv, Paired, Quiet
<1>3. c = [c EXCEPT !.good = TRUE]
  BY <1>1, QuestionIsCommand
<1>4. toReader' \in {<<>>, <<c>>, <<d>>}
  <2> HIDE DEF c, d
  <2> QED BY <1>1, <1>2
<1>5. CASE toReader' = <<c>>
  <2>1. toReader' = <<[c EXCEPT !.good = TRUE]>>
    <3> DEFINE e == [c EXCEPT !.good = TRUE]
    <3>1. c = e
      BY <1>3
    <3> HIDE DEF c, e
    <3>2. toReader' = <<e>>
      BY <1>5, <3>1
    <3> QED BY <3>2 DEF e
  <2> QED BY <1>1, <1>2, <2>1
<1>6. CASE toReader' = <<d>>
  BY <1>1, <1>2, <1>6
<1> QED BY <1>1, <1>2, <1>4, <1>5, <1>6

(* A connection that is in step after a failed exchange was so before it.   *)
LEMMA GivenUp ==
    ASSUME NEW left, GiveUp(left) \/ Drained(left), Steady'
    PROVE  Steady
<1>1. CASE GiveUp(left)
  <2>1. astray' = (astray \/ left # <<>> \/ toReader # <<>>)
    BY <1>1 DEF GiveUp
  <2>2. unsure' = (unsure \/ (host.job = "rpmb" /\ (host.step \in Switch \/ astray')))
    BY <1>1 DEF GiveUp
  <2> QED BY <2>1, <2>2, Zenon DEF Steady
<1>2. CASE Drained(left)
  <2>1. astray' = (astray \/ left # <<>> \/ toReader # <<>>) /\ unsure' = unsure
    BY <1>2 DEF Drained
  <2> QED BY <2>1, Zenon DEF Steady
<1> QED BY <1>1, <1>2

(* An answer that ends an exchange, or goes on with it, as RecvParts says:  *)
(* the packet taken, with nothing else on the line.                         *)
LEMMA RecvParts ==
    ASSUME LinkInv, ~astray, recv_response
    PROVE  LET packet == Head(toHost)
               taken  == Taken(host, packet)
           IN  \/ \E left : GiveUp(left) \/ (Draining /\ Drained(left))
               \/ /\ ~Draining /\ Accepts(Head(host.expect), packet)
                  /\ host' = IF taken.expect = <<>> THEN Succeeded(taken) ELSE taken
                  /\ astray' = astray /\ unsure' = unsure /\ card' = card
                  /\ toReader = <<>> /\ toReader' = <<>> /\ toHost' = Tail(toHost)
                  /\ IsHost(taken) /\ taken.expect = Tail(host.expect)
                  /\ taken.got = (IF Head(host.expect) = "status" THEN host.got
                                   ELSE host.got \o packet.data)
                  /\ taken.phase = "wait" /\ taken.step = host.step /\ taken.step # "send"
                  /\ taken.job = host.job /\ taken.offset = host.offset
                  /\ taken.result = host.result /\ taken.out = host.out
                  /\ taken.tries = host.tries
<1> DEFINE want   == Head(host.expect)
           packet == Head(toHost)
           taken  == Taken(host, packet)
           left   == Behind(want, packet) \o Tail(toHost)
<1>1. /\ host.phase = "wait" /\ toHost # <<>> /\ toReader' = toReader /\ toHost' = left
      /\ IsHost(host) /\ host.step # "send" /\ host.expect # <<>> /\ card' = card
      /\ host.expect \in Seq(Wants)
  BY DEF recv_response, LinkInv, IsHost
<1>2. Answered
  BY <1>1 DEF LinkInv, Paired, Asking
<1>3. CASE GiveUp(left) \/ (Draining /\ Drained(left))
  BY <1>3
<1>4. CASE /\ ~Draining /\ Accepts(want, packet)
           /\ host' = IF taken.expect = <<>> THEN Succeeded(taken) ELSE taken
           /\ UNCHANGED <<astray, unsure>>
  <2>1. Tail(host.expect) \in Seq(Wants)
    BY <1>1, HeadTailProperties
  <2>2. IsHost(taken) /\ taken.expect = Tail(host.expect) /\ taken.phase = "wait"
        /\ taken.step = host.step
        /\ taken.got = (IF Head(host.expect) = "status" THEN host.got
                        ELSE host.got \o packet.data)
        /\ taken.job = host.job /\ taken.offset = host.offset
        /\ taken.result = host.result /\ taken.out = host.out /\ taken.tries = host.tries
    BY <1>1, <2>1 DEF Taken, IsHost, Fields
  <2>3. Behind(want, packet) = <<>>
    BY <1>4 DEF Accepts, Behind
  <2>4. toHost' = Tail(toHost)
    <3>1. PICK S : toHost \in Seq(S)
      BY <1>2 DEF Answered, IsSeq
    <3>2. Tail(toHost) \in Seq(S)
      BY <1>1, <3>1, HeadTailProperties
    <3> QED BY <1>1, <2>3, <3>2, ConcatEmptySeq
  <2>5. toReader = <<>>
    BY <1>2 DEF Answered
  <2> HIDE DEF want, packet, taken, left
  <2> QED BY <1>1, <1>4, <2>2, <2>4, <2>5 DEF want, packet, taken
<1> QED BY <1>3, <1>4 DEF recv_response

(* A command that is obeyed, or refused, while nothing else is on the line. *)
LEMMA ReaderParts ==
    ASSUME LinkInv, SessionInv, Steady, host.job # "rpmb", OwnQuestion, Reader
    PROVE  \E good \in BOOLEAN : LET c == [UnderWay(host) EXCEPT !.good = good] IN
               /\ host.phase = "wait" /\ host.step # "send" /\ ~Rpmb /\ host' = host
               /\ astray' = astray /\ unsure' = unsure /\ toReader = <<c>> /\ toReader' = <<>>
               /\ \/ /\ c.good /\ card' = Stored(c)
                     /\ \/ toHost' = Answer(c)
                        \/ toHost' \in Damaged(Answer(c))
                  \/ /\ card' \in {card, StoredGarbled(c)}
                     /\ c.good => card' = card
                     /\ toHost' # <<>> /\ Head(toHost').status # OK
<1> DEFINE e == Head(toReader)
<1>1. /\ toReader # <<>> /\ toReader' = Tail(toReader) /\ host' = host
      /\ astray' = astray /\ unsure' = unsure
  BY DEF Reader
<1>2. host.phase = "wait" /\ host.step # "send" /\ toHost = <<>>
  BY <1>1 DEF Steady, LinkInv, Paired, Quiet, Answered, Asking
<1>3. PICK good \in BOOLEAN : toReader = <<[UnderWay(host) EXCEPT !.good = good]>>
  BY <1>1, <1>2 DEF OwnQuestion
<1> DEFINE c == [UnderWay(host) EXCEPT !.good = good]
<1>4. toReader = <<c>>
  BY <1>3
<1>5. ~Rpmb
  BY DEF Steady, SessionInv, User, Rpmb
<1>6. \/ /\ e.good /\ card' = Stored(e)
         /\ \/ toHost' = toHost \o Answer(e)
            \/ \E packets \in Damaged(Answer(e)) : toHost' = toHost \o packets
      \/ /\ e.good /\ card' = card
         /\ toHost' = Append(toHost, Packet("emmc", <<>>))
      \/ /\ ~e.good /\ card' = StoredGarbled(e)
         /\ toHost' = toHost \o <<Packet("crc", <<>>)>>
                        \o (IF e.cmd = "write" /\ e.n > 1 THEN <<Packet(OK, <<>>)>> ELSE <<>>)
  BY DEF Reader
<1> HIDE DEF c
<1>7. e = c /\ toReader' = <<>>
  BY <1>1, <1>4
<1> HIDE DEF e
<1>8. CASE /\ e.good /\ card' = Stored(e)
           /\ \/ toHost' = toHost \o Answer(e)
              \/ \E packets \in Damaged(Answer(e)) : toHost' = toHost \o packets
  <2>1. IsSeq(Answer(c))
    <3>1. \E k \in Nat : Fits(c, k)
      <4>1. PICK f : Asking(f)
        BY <1>1, <1>2 DEF Steady, LinkInv, Paired, Answered
      <4>2. f = c
        BY <1>4, <4>1 DEF Asking
      <4>3. Len(host.expect) \in Nat
        BY LenProperties DEF LinkInv, IsHost
      <4> QED BY <4>1, <4>2, <4>3 DEF Asking
    <3> QED BY <1>7, <1>8, <3>1, AnswerFits
  <2>2. \A s : IsSeq(s) => toHost \o s = s
    BY <1>2, ConcatEmptySeq DEF IsSeq
  <2>3. CASE toHost' = toHost \o Answer(e)
    <3>1. toHost' = Answer(c)
      BY <1>7, <2>1, <2>2, <2>3
    <3> QED BY <1>1, <1>2, <1>4, <1>5, <1>7, <1>8, <3>1 DEF c
  <2>4. CASE \E packets \in Damaged(Answer(e)) : toHost' = toHost \o packets
    <3>1. PICK packets \in Damaged(Answer(c)) : toHost' = toHost \o packets
      BY <1>7, <2>4
    <3>2. toHost' = packets
      BY <2>1, <2>2, <3>1, DamagedFits
    <3> QED BY <1>1, <1>2, <1>4, <1>5, <1>7, <1>8, <3>1, <3>2 DEF c
  <2> QED BY <1>8, <2>3, <2>4
<1>9. CASE /\ card' \in {card, StoredGarbled(e)} /\ (e.good => card' = card)
           /\ toHost' = Refusal(e) \/ toHost' = <<Packet("emmc", <<>>)>>
  <2>1. toHost' # <<>> /\ Head(toHost').status # OK
    BY <1>9, RefusedFirst
  <2> QED BY <1>1, <1>2, <1>4, <1>5, <1>7, <1>9, <2>1 DEF c
<1> QED BY <1>2, <1>6, <1>8, <1>9, RefusedLine

-----------------------------------------------------------------------------
(* A restore that is reported complete has stored the file.                 *)

LEMMA StartRestore == Start => RestoreInv'
<1> SUFFICES ASSUME Start, host'.job = "restore"
    PROVE  Restores(host', card') /\ BatchAnswered(host)' /\ OwnQuestion'
  BY DEF RestoreInv
<1>1. host'.phase = "ask" /\ host'.step = "csd" /\ host'.offset = 0 /\ host'.result = "none"
  BY StartParts DEF FirstStep
<1> QED BY <1>1 DEF Restores, RestoreSteps, BatchAnswered, OwnQuestion

LEMMA SendRestore == LinkInv /\ RestoreInv /\ send_command => RestoreInv'
<1> SUFFICES ASSUME LinkInv, RestoreInv, send_command, Steady', host'.job = "restore"
    PROVE  Restores(host', card') /\ BatchAnswered(host)' /\ OwnQuestion'
  BY DEF RestoreInv
<1> DEFINE c == Question(host.step, host.offset)
<1>1. Steady
  BY DEF send_command, Steady
<1>2. /\ IsHost(host) /\ host.phase = "ask" /\ host' = Asked(host)
      /\ toHost' = <<>> /\ card' = card
      /\ toReader' = <<>> \/ \E good \in BOOLEAN : toReader' = <<[c EXCEPT !.good = good]>>
  BY <1>1, SendParts DEF Steady
<1>3. Restores(host, card)
  BY <1>1, <1>2, AskedFollows DEF RestoreInv, Follows
<1>4. /\ Restores(host', card)
      /\ host'.step = "recv" => host'.expect = <<"status">>
      /\ UnderWay(host') = c
  BY <1>2, <1>3, RestoreAsked
<1> HIDE DEF c
<1>5. BatchAnswered(host)'
  BY <1>2, <1>4 DEF BatchAnswered
<1>6. OwnQuestion'
  <2> SUFFICES ASSUME toReader' # <<>>
      PROVE  \E good \in BOOLEAN : toReader' = <<[UnderWay(host') EXCEPT !.good = good]>>
    BY DEF OwnQuestion
  <2>1. PICK good \in BOOLEAN : toReader' = <<[c EXCEPT !.good = good]>>
    BY <1>2
  <2>2. UnderWay(host') = c
    BY <1>4
  <2>3. toReader' = <<[UnderWay(host') EXCEPT !.good = good]>>
    BY <2>1, <2>2, Zenon
  <2> QED BY <2>3
<1> QED BY <1>2, <1>4, <1>5, <1>6

LEMMA CancelRestore == LinkInv /\ RestoreInv /\ Cancel => RestoreInv'
<1> SUFFICES ASSUME LinkInv, RestoreInv, Cancel, Steady', host'.job = "restore"
    PROVE  Restores(host', card') /\ BatchAnswered(host)' /\ OwnQuestion'
  BY DEF RestoreInv
<1>1. /\ Steady /\ toReader' = toReader /\ toHost' = toHost /\ card' = card
      /\ IsHost(host)
  BY DEF Cancel, Steady, LinkInv
<1>2. CASE host.job = "dump" /\ host' = Ended(host, "error")
  BY <1>1, <1>2, EndedParts
<1>3. CASE host.phase = "wait" /\ host.step = "recv" /\ host' = [host EXCEPT !.result = "error"]
  <2>1. /\ host'.phase = "wait" /\ host'.step = "recv" /\ host'.offset = host.offset
        /\ host'.job = host.job /\ host'.result = "error" /\ host'.expect = host.expect
    BY <1>1, <1>3 DEF IsHost, Fields
  <2>2. Restores(host, card) /\ BatchAnswered(host) /\ OwnQuestion
    BY <1>1, <2>1 DEF RestoreInv
  <2>3. Restores(host', card')
    BY <1>1, <1>3, <2>1, <2>2 DEF Restores
  <2>4. BatchAnswered(host)'
    BY <1>1, <1>3, <2>1, <2>2 DEF BatchAnswered, AfterBatch
  <2>5. UnderWay(host') = UnderWay(host)
    BY <1>3, <2>1 DEF UnderWay
  <2>6. OwnQuestion'
    BY <1>1, <1>3, <2>2, <2>5 DEF OwnQuestion
  <2> QED BY <2>3, <2>4, <2>6
<1> QED BY <1>2, <1>3 DEF Cancel

LEMMA GiveUpRestore ==
    ASSUME LinkInv, RestoreInv, host.phase = "wait", card' = card, NEW left,
           GiveUp(left) \/ (Draining /\ Drained(left))
    PROVE  RestoreInv'
<1> SUFFICES ASSUME Steady', host'.job = "restore"
    PROVE  Restores(host', card') /\ BatchAnswered(host)' /\ OwnQuestion'
  BY DEF RestoreInv
<1>1. IsHost(host) /\ host.step \in StepNames \ {"send"}
  BY DEF LinkInv, IsHost
<1>2. Steady
  BY GivenUp
<1>3. CASE GiveUp(left)
  <2>1. host' = Failed(host)
    BY <1>3 DEF GiveUp
  <2>2. host'.phase # "wait" /\ host'.job = host.job
    BY <1>1, <2>1, FailedAtRest, FailedFollows DEF AtRest, Follows
  <2>3. Restores(host', card')
    BY <1>1, <1>2, <2>1, <2>2, RestoreFails DEF RestoreInv
  <2> QED BY <2>2, <2>3 DEF BatchAnswered, OwnQuestion
<1>4. CASE Draining /\ Drained(left)
  <2>1. host' = Ask(host, "flush") /\ host.result = "error"
    BY <1>4 DEF Drained, Draining
  <2>2. Restores(host', card')
    BY <1>1, <2>1, RestoreAsks
  <2>3. host'.phase = "ask"
    BY <1>1, <2>1, AskParts
  <2> QED BY <2>2, <2>3 DEF BatchAnswered, OwnQuestion
<1> QED BY <1>3, <1>4

LEMMA RecvRestore == LinkInv /\ RestoreInv /\ recv_response => RestoreInv'
<1> SUFFICES ASSUME LinkInv, RestoreInv, recv_response, Steady', host'.job = "restore"
    PROVE  RestoreInv'
  BY DEF RestoreInv
<1> DEFINE packet == Head(toHost)
           taken  == Taken(host, packet)
<1>1. host.phase = "wait" /\ card' = card /\ toHost # <<>>
  BY DEF recv_response
<1>2. Steady
  <2>1. \/ astray' = astray /\ unsure' = unsure
        \/ \E left : GiveUp(left) \/ Drained(left)
    BY DEF recv_response
  <2> QED BY <2>1, GivenUp DEF Steady
<1>3. CASE \E left : GiveUp(left) \/ (Draining /\ Drained(left))
  BY <1>1, <1>2, <1>3, GiveUpRestore
<1>4. CASE /\ ~Draining /\ Accepts(Head(host.expect), packet)
           /\ host' = IF taken.expect = <<>> THEN Succeeded(taken) ELSE taken
           /\ toReader = <<>> /\ toReader' = <<>> /\ toHost' = Tail(toHost)
           /\ IsHost(taken) /\ taken.expect = Tail(host.expect)
           /\ taken.phase = "wait" /\ taken.step = host.step /\ taken.step # "send"
           /\ taken.job = host.job /\ taken.offset = host.offset
           /\ taken.result = host.result
  <2> HIDE DEF taken
  <2>1. taken.step \in StepNames
    BY <1>4 DEF IsHost
  <2>2. host.job = "restore"
    BY <1>4, <2>1, SucceededFollows DEF Follows
  <2>3. Restores(host, card) /\ BatchAnswered(host)
    BY <1>1, <1>2, <2>2 DEF RestoreInv
  <2>4. Restores(taken, card)
    BY <1>1, <1>2, <1>4, <2>3 DEF Restores
  <2>5. ASSUME host.step = "recv"
        PROVE  /\ taken.expect = <<>> /\ host.result = "none"
               /\ FileOn(card, AfterBatch(taken))
    <3>1. host.expect = <<"status">>
      BY <1>1, <1>2, <2>3, <2>5 DEF BatchAnswered
    <3>2. Head(host.expect) = "status" /\ Tail(host.expect) = <<>>
      BY <3>1
    <3>3. FileOn(card, AfterBatch(host))
      BY <1>1, <1>2, <1>4, <2>3, <2>5, <3>2 DEF BatchAnswered
    <3>4. host.result = "none"
      BY <1>1, <1>2, <1>4, <2>3, <2>5 DEF Draining, Restores
    <3> QED BY <1>4, <3>2, <3>3, <3>4 DEF AfterBatch
  <2>6. CASE taken.expect = <<>>
    <3>1. Restores(host', card')
      BY <1>1, <1>2, <1>4, <2>2, <2>4, <2>5, <2>6, RestoreGoesOn
    <3>2. host'.phase # "wait"
      BY <1>4, <2>1, <2>6, SucceededAtRest DEF AtRest
    <3> QED BY <3>1, <3>2 DEF RestoreInv, BatchAnswered, OwnQuestion
  <2>7. CASE taken.expect # <<>>
    <3>1. host' = taken /\ host.step # "recv"
      BY <1>4, <2>5, <2>7
    <3> QED BY <1>1, <1>2, <1>4, <2>4, <3>1 DEF RestoreInv, BatchAnswered, OwnQuestion
  <2> QED BY <2>6, <2>7
<1> QED BY <1>1, <1>2, <1>3, <1>4, RecvParts DEF Steady

LEMMA TimeoutRestore == LinkInv /\ RestoreInv /\ Timeout => RestoreInv'
<1> SUFFICES ASSUME LinkInv, RestoreInv, Timeout PROVE RestoreInv'
  OBVIOUS
<1>1. host.phase = "wait" /\ card' = card /\ (GiveUp(<<>>) \/ (Draining /\ Drained(<<>>)))
  BY DEF Timeout
<1> QED BY <1>1, GiveUpRestore

LEMMA ReaderRestore == LinkInv /\ SessionInv /\ RestoreInv /\ Reader => RestoreInv'
<1> SUFFICES ASSUME LinkInv, SessionInv, RestoreInv, Reader, Steady', host'.job = "restore"
    PROVE  Restores(host', card') /\ BatchAnswered(host)' /\ OwnQuestion'
  BY DEF RestoreInv
<1>1. Steady /\ host.job = "restore"
  BY DEF Reader, Steady
<1>2. Restores(host, card) /\ BatchAnswered(host) /\ OwnQuestion
  BY <1>1 DEF RestoreInv
<1>3. PICK good \in BOOLEAN : LET c == [UnderWay(host) EXCEPT !.good = good] IN
               /\ host.phase = "wait" /\ host.step # "send" /\ ~Rpmb /\ host' = host
               /\ toReader' = <<>>
               /\ \/ c.good /\ card' = Stored(c)
                  \/ /\ card' \in {card, StoredGarbled(c)}
                     /\ toHost' # <<>> /\ Head(toHost').status # OK
  BY <1>1, <1>2, ReaderParts
<1> DEFINE c == [UnderWay(host) EXCEPT !.good = good]
           n == Least(WriteChunk, host.offset)
<1>4. IF host.step \in {"send", "recv"}
      THEN c.cmd = "write" /\ c.lba = host.offset /\ c.n = n
           /\ c.data = Tags(New, host.offset, n)
      ELSE c.cmd \in {"get_ext_csd", "write_ext_csd"}
  BY <1>2, RestoreQuestion DEF Restores
<1> HIDE DEF c
<1>5. /\ host.phase = "wait" /\ host.step # "send" /\ ~Rpmb /\ host' = host
      /\ toReader' = <<>>
      /\ \/ card' = Stored(c)
         \/ /\ card' \in {card, StoredGarbled(c)}
            /\ toHost' # <<>> /\ Head(toHost').status # OK
  BY <1>3 DEF c
<1>6. CASE host.step = "recv"
  <2> DEFINE k == host.offset
  <2>1. k \in Lba /\ FileOn(card, k) /\ host.expect = <<"status">>
        /\ host.result \in {"none", "error"}
    BY <1>2, <1>5, <1>6 DEF Restores, BatchAnswered
  <2>2. c.cmd = "write" /\ c.lba = k /\ c.n = Least(WriteChunk, k) /\ c.data = Tags(New, k, c.n)
    BY <1>4, <1>6
  <2> HIDE DEF n
  <2>3. FileOn(Stored(c), k + c.n) /\ FileOn(StoredGarbled(c), k)
    BY <1>5, <2>1, <2>2, BatchStored
  <2>4. FileOn(Stored(c), k)
    <3>1. k \in Nat /\ c.n \in Nat
      BY <2>1, <2>2, NextBatch, LinkAssumption DEF Lba
    <3>2. 0..(k - 1) \subseteq 0..((k + c.n) - 1)
      BY <3>1
    <3> QED BY <2>3, <3>2 DEF FileOn
  <2>5. FileOn(card', k)
    BY <1>5, <2>1, <2>3, <2>4
  <2>6. Restores(host', card')
    BY <1>5, <1>6, <2>1, <2>5 DEF Restores, RestoreSteps
  <2>7. BatchAnswered(host)'
    <3>1. CASE card' = Stored(c)
      <4>1. AfterBatch(host) = k + c.n
        BY <2>2 DEF AfterBatch
      <4>2. FileOn(card', AfterBatch(host'))
        BY <1>5, <2>3, <3>1, <4>1
      <4> QED BY <1>5, <2>1, <4>2 DEF BatchAnswered
    <3>2. CASE toHost' # <<>> /\ Head(toHost').status # OK
      BY <1>5, <2>1, <3>2 DEF BatchAnswered, Accepts
    <3> QED BY <1>5, <3>1, <3>2
  <2> QED BY <1>5, <2>6, <2>7 DEF OwnQuestion
<1>7. CASE host.step # "recv"
  <2>1. card' = card
    <3>1. c.cmd # "write"
      BY <1>4, <1>5, <1>7
    <3> QED BY <1>5, <3>1 DEF Stored, StoredGarbled
  <2> QED BY <1>2, <1>5, <1>7, <2>1 DEF BatchAnswered, OwnQuestion
<1> QED BY <1>6, <1>7

THEOREM RestoreInvHolds == Spec => []RestoreInv
<1>1. Init => RestoreInv
  BY DEF Init, RestoreInv, Idle
<1>2. LinkInv /\ SessionInv /\ RestoreInv /\ [Next]_vars => RestoreInv'
  <2> SUFFICES ASSUME LinkInv, SessionInv, RestoreInv, [Next]_vars PROVE RestoreInv'
    OBVIOUS
  <2>1. CASE UNCHANGED vars
    BY <2>1 DEF vars, RestoreInv, Restores, BatchAnswered, OwnQuestion, Steady
  <2>2. CASE Next
    BY <2>2, StartRestore, SendRestore, CancelRestore, RecvRestore, TimeoutRestore,
       ReaderRestore DEF Next
  <2> QED BY <2>1, <2>2
<1> QED BY <1>1, <1>2, SessionInvHolds, PTL DEF Spec

(* A restore that is reported complete has stored the whole file, as long   *)
(* as no exchange of its connection was given up before its end             *)
(* (restore_from_file of operations.rs, which pipelines its batches).       *)
THEOREM RestoresAreTrue == Spec => []RestoreTrue
<1>1. LinkInv /\ RestoreInv => RestoreTrue
  <2> SUFFICES ASSUME RestoreInv, host.job = "restore", host.result = "done", Steady
      PROVE  \A l \in Lba : card[l] = New(l)
    BY DEF RestoreTrue
  <2>1. FileOn(card, Total)
    BY DEF RestoreInv, Restores
  <2> QED BY <2>1 DEF FileOn, Lba
<1> QED BY <1>1, RestoreInvHolds, LinkInvHolds, PTL

-----------------------------------------------------------------------------
(* A dump that is reported complete is a copy of the card.                  *)

LEMMA CountIsDue ==
    ASSUME NEW k \in 0..Total
    PROVE  Count(Chunk, k) \in Nat /\ k + Count(Chunk, k) <= Total
<1>1. Total \in Nat /\ Total - k \in Nat /\ Word \in Nat \ {0} /\ Chunk \in Nat
  BY LinkAssumption
<1> DEFINE x == Total - k
<1>2. x % Word <= x /\ x % Word \in Nat
  <2> HIDE DEF x
  <2>1. x \in Nat
    BY <1>1 DEF x
  <2>2. x % Word \in Nat
    BY <1>1, <2>1
  <2>3. CASE x < Word
    BY <1>1, <2>1, <2>3
  <2>4. CASE x >= Word
    BY <1>1, <2>1, <2>4
  <2> QED BY <1>1, <2>1, <2>2, <2>3, <2>4
<1>3. Count(Chunk, k) <= x % Word /\ Count(Chunk, k) \in Nat
  BY <1>1, <1>2 DEF Count
<1> DEFINE n == Count(Chunk, k)
<1>4. n \in Nat /\ n <= Total - k
  <2> DEFINE r == x % Word
  <2>1. n <= r /\ r <= x /\ n \in Nat /\ r \in Nat /\ x \in Nat
    BY <1>1, <1>2, <1>3
  <2> HIDE DEF n, r
  <2> QED BY <1>1, <2>1
<1> HIDE DEF n
<1>5. k \in Nat
  OBVIOUS
<1>6. k + n <= Total
  BY <1>1, <1>4, <1>5
<1> QED BY <1>4, <1>6 DEF n

LEMMA CopiedSeq ==
    ASSUME NEW c, NEW from \in Int, NEW n \in Nat
    PROVE  /\ IsSeq(Copied(c, from, n)) /\ Len(Copied(c, from, n)) = n
           /\ n = 0 => Copied(c, from, n) = <<>>
           /\ \A i \in 1..n : Copied(c, from, n)[i] = c[from + i - 1]
<1> DEFINE e(i) == c[from + i - 1]
           S == {e(i) : i \in 1..n}
           s == [i \in 1..n |-> e(i)]
<1>1. \A i \in 1..n : e(i) \in S
  OBVIOUS
<1>2. \A i \in 1..n : s[i] = e(i)
  OBVIOUS
<1> HIDE DEF e
<1>3. s \in Seq(S) /\ Len(s) = n
  <2> HIDE DEF S
  <2> QED BY <1>1
<1> HIDE DEF S, s
<1>4. Copied(c, from, n) = s
  BY DEF Copied, s, e
<1>5. n = 0 => s = <<>>
  BY <1>3, EmptySeq
<1>6. \A i \in 1..n : s[i] = c[from + i - 1]
  BY <1>2 DEF e
<1> QED BY <1>3, <1>4, <1>5, <1>6 DEF IsSeq

LEMMA JoinCopies ==
    ASSUME NEW c, NEW from \in Int, NEW a \in Nat, NEW b \in Nat
    PROVE  Copied(c, from, a) \o Copied(c, from + a, b) = Copied(c, from, a + b)
<1> DEFINE s == Copied(c, from, a)
           t == Copied(c, from + a, b)
           u == Copied(c, from, a + b)
<1>1. /\ IsSeq(s) /\ Len(s) = a /\ \A i \in 1..a : s[i] = c[from + i - 1]
  BY CopiedSeq
<1>2. /\ IsSeq(t) /\ Len(t) = b /\ \A i \in 1..b : t[i] = c[(from + a) + i - 1]
  <2>1. from + a \in Int
    OBVIOUS
  <2> QED BY <2>1, CopiedSeq
<1>3. /\ IsSeq(u) /\ Len(u) = a + b /\ \A i \in 1..(a + b) : u[i] = c[from + i - 1]
  <2>1. a + b \in Nat
    OBVIOUS
  <2> QED BY <2>1, CopiedSeq
<1> HIDE DEF s, t, u
<1>4. PICK S, T, U : s \in Seq(S) /\ t \in Seq(T) /\ u \in Seq(U)
  BY <1>1, <1>2, <1>3 DEF IsSeq
<1> DEFINE V == S \cup T \cup U
<1>5. s \in Seq(V) /\ t \in Seq(V) /\ u \in Seq(V)
  BY <1>4, SeqMonotonic
<1> HIDE DEF V
<1>6. /\ s \o t \in Seq(V) /\ Len(s \o t) = a + b
      /\ \A i \in 1..(a + b) : (s \o t)[i] = IF i <= a THEN s[i] ELSE t[i - a]
  <2>1. /\ s \o t \in Seq(V) /\ Len(s \o t) = Len(s) + Len(t)
        /\ \A i \in 1..(Len(s) + Len(t)) :
              (s \o t)[i] = IF i <= Len(s) THEN s[i] ELSE t[i - Len(s)]
    BY <1>5, ConcatProperties
  <2>2. Len(s) = a /\ Len(t) = b
    BY <1>1, <1>2
  <2> QED BY <2>1, <2>2, Zenon
<1>7. \A i \in 1..(a + b) : (s \o t)[i] = u[i]
  <2> TAKE i \in 1..(a + b)
  <2>1. CASE i <= a
    <3>1. i \in 1..a
      BY <2>1
    <3> QED BY <1>1, <1>3, <1>6, <2>1, <3>1
  <2>2. CASE ~(i <= a)
    <3>1. i - a \in 1..b /\ (from + a) + (i - a) - 1 = from + i - 1
      BY <2>2
    <3>2. t[i - a] = c[(from + a) + (i - a) - 1]
      BY <1>2, <3>1
    <3>3. t[i - a] = c[from + i - 1]
      BY <3>1, <3>2
    <3> QED BY <1>3, <1>6, <2>2, <3>3
  <2> QED BY <2>1, <2>2
<1>8. s \o t = u
  BY <1>3, <1>5, <1>6, <1>7, SeqEqual
<1> QED BY <1>8 DEF s, t, u

LEMMA OneMoreCopied ==
    ASSUME NEW c, NEW from \in Int, NEW k \in Nat
    PROVE  /\ Copied(c, from, k) \o <<c[from + k]>> = Copied(c, from, k + 1)
           /\ Copied(c, from, k) \o <<>> = Copied(c, from, k)
<1>1. Copied(c, from + k, 1) = <<c[from + k]>>
  <2> DEFINE e == c[from + k]
             t == Copied(c, from + k, 1)
  <2>1. IsSeq(t) /\ Len(t) = 1 /\ t[1] = c[(from + k) + 1 - 1]
    <3> DEFINE p == from + k
    <3>1. p \in Int /\ 1 \in Nat /\ 1 \in 1..1
      OBVIOUS
    <3> HIDE DEF p
    <3>2. IsSeq(Copied(c, p, 1)) /\ Len(Copied(c, p, 1)) = 1
      BY <3>1, CopiedSeq
    <3>3. \A i \in 1..1 : Copied(c, p, 1)[i] = c[p + i - 1]
      BY <3>1, CopiedSeq
    <3>4. Copied(c, p, 1)[1] = c[p + 1 - 1]
      BY <3>1, <3>3
    <3> QED BY <3>2, <3>4 DEF p
  <2>2. (from + k) + 1 - 1 = from + k
    OBVIOUS
  <2>3. t[1] = e
    BY <2>1, <2>2
  <2> HIDE DEF e, t
  <2>4. PICK S : t \in Seq(S)
    BY <2>1 DEF IsSeq
  <2>5. t \in Seq(S \cup {e}) /\ <<e>> \in Seq(S \cup {e}) /\ Len(<<e>>) = 1 /\ <<e>>[1] = e
    BY <2>4, SeqMonotonic
  <2>6. t = <<e>>
    BY <2>1, <2>3, <2>5, SeqEqual
  <2> QED BY <2>6 DEF e, t
<1>2. Copied(c, from, k) \o Copied(c, from + k, 1) = Copied(c, from, k + 1)
  BY JoinCopies
<1>3. Copied(c, from, k) \o <<>> = Copied(c, from, k)
  BY CopiedSeq, ConcatEmptySeq DEF IsSeq
<1> QED BY <1>1, <1>2, <1>3

(* A chunk that has come whole takes the dump on by its sectors, and so     *)
(* does one of none.                                                        *)
LEMMA DumpGoesOn ==
    ASSUME NEW h, NEW c, IsHost(h), h.job = "dump", Dumps(h, c), h.phase # "ended",
           h.got = Copied(c, h.offset, Count(Chunk, h.offset))
    PROVE  Dumps(Succeeded(h), c)
<1> DEFINE n == Count(Chunk, h.offset)
           b == Compared(h, n)
           g == [h EXCEPT !.out = @ \o h.got, !.offset = @ + n, !.readback = b]
<1>1. /\ h.step = "read" /\ h.offset \in 0..Total /\ h.out = Copied(c, 0, h.offset)
      /\ h.offset < Total /\ h.result # "done" /\ h.got = Copied(c, h.offset, n)
  BY DEF Dumps
<1>2. n \in Nat /\ h.offset + n <= Total /\ Total \in Nat
  BY <1>1, CountIsDue, LinkAssumption
<1>3. Succeeded(h) = IF g.offset < Total THEN Ask(g, h.step) ELSE Ended(g, "done")
  BY <1>1 DEF Succeeded, Reads, ChunkRead
<1> HIDE DEF n, b
<1>4. /\ IsHost(g) /\ g.step = "read" /\ g.offset = h.offset + n
      /\ g.out = h.out \o h.got /\ g.result = h.result
  BY <1>1, <1>2 DEF IsHost, Fields
<1> HIDE DEF g
<1>5. IsHost(g) /\ g.step = "read" /\ g.result # "done"
  BY <1>1, <1>4
<1> DEFINE m == h.offset + n
<1>6. m \in 0..Total /\ g.offset = m
  BY <1>1, <1>2, <1>4
<1>7. g.out = Copied(c, 0, m)
  <2> DEFINE k == h.offset
  <2>1. k \in Nat /\ 0 + k = k
    BY <1>1
  <2> HIDE DEF k
  <2>2. Copied(c, 0, k) \o Copied(c, 0 + k, n) = Copied(c, 0, k + n)
    <3>1. 0 \in Int
      OBVIOUS
    <3> QED BY <1>2, <2>1, <3>1, JoinCopies
  <2> QED BY <1>1, <1>4, <2>1, <2>2 DEF k
<1> HIDE DEF m
<1>8. CASE m < Total
  <2>1. /\ Ask(g, "read").phase = "ask" /\ Ask(g, "read").step = "read"
        /\ Ask(g, "read").result # "done" /\ Ask(g, "read").offset = m /\ Ask(g, "read").out = g.out
    <3>1. /\ Ask(g, "read").phase = "ask" /\ Ask(g, "read").step = "read"
          /\ Ask(g, "read").result = g.result /\ Ask(g, "read").offset = g.offset
          /\ Ask(g, "read").out = g.out
      BY <1>5, AskParts
    <3> QED BY <1>5, <1>6, <3>1
  <2>2. Succeeded(h) = Ask(g, "read")
    BY <1>1, <1>3, <1>6, <1>8
  <2> QED BY <1>6, <1>7, <1>8, <2>1, <2>2 DEF Dumps
<1>9. CASE ~(m < Total)
  <2>1. /\ Ended(g, "done").phase = "ended" /\ Ended(g, "done").step = "read"
        /\ Ended(g, "done").offset = m /\ Ended(g, "done").out = g.out
    <3>1. /\ Ended(g, "done").phase = "ended" /\ Ended(g, "done").step = g.step
          /\ Ended(g, "done").offset = g.offset /\ Ended(g, "done").out = g.out
      BY <1>5, EndedParts
    <3> QED BY <1>5, <1>6, <3>1
  <2>2. Succeeded(h) = Ended(g, "done") /\ m = Total
    BY <1>2, <1>3, <1>6, <1>9
  <2> QED BY <1>6, <1>7, <2>1, <2>2 DEF Dumps
<1> QED BY <1>8, <1>9

LEMMA DumpFails ==
    ASSUME NEW h, NEW c, IsHost(h), h.job = "dump", Dumps(h, c), h.phase = "wait"
    PROVE  Dumps(Failed(h), c)
<1>1. h.step = "read" /\ h.offset < Total
  BY DEF Dumps
<1>2. CASE h.tries > 0
  <2> DEFINE g == [h EXCEPT !.phase = "ask", !.tries = @ - 1]
  <2>1. Failed(h) = g
    BY <1>1, <1>2 DEF Failed, Reads, Again
  <2>2. g.phase = "ask" /\ g.step = h.step /\ g.offset = h.offset /\ g.out = h.out
        /\ g.result = h.result
    BY DEF IsHost, Fields
  <2> HIDE DEF g
  <2> QED BY <1>1, <2>1, <2>2 DEF Dumps
<1>3. CASE ~(h.tries > 0)
  <2>1. Failed(h) = Ended(h, "error")
    BY <1>1, <1>3 DEF Failed, Reads, SwitchedBack
  <2> QED BY <1>1, <2>1, EndedParts DEF Dumps
<1> QED BY <1>2, <1>3

(* What a dump asks for, and the answer to it.                              *)
LEMMA DumpAsked ==
    ASSUME IsHost(host), host.phase = "ask", host.job = "dump", Dumps(host, card)
    PROVE  LET g == Asked(host)
               n == Count(Chunk, host.offset)
           IN  /\ Dumps(g, card)
               /\ IF n = 0 THEN g.phase # "wait"
                  ELSE /\ g.phase = "wait" /\ g.got = <<>> /\ Len(g.expect) = n + 1
                       /\ \A i \in 1..n : g.expect[i] # "status"
                       /\ UnderWay(g) = Question(host.step, host.offset)
                       /\ g.offset = host.offset
<1> DEFINE n == Count(Chunk, host.offset)
           expect == Expected(host.step, host.offset)
           g == [host EXCEPT !.phase = "wait", !.got = <<>>, !.expect = expect]
<1>1. host.step = "read" /\ host.offset \in 0..Total /\ host.offset < Total
  BY DEF Dumps
<1>2. n \in Nat
  BY <1>1, CountIsDue
<1>3. Asked(host) = IF expect = <<>> THEN Succeeded(g) ELSE g
  <2>1. g.expect = expect
    BY DEF IsHost, Fields
  <2> QED BY <2>1 DEF Asked
<1>4. expect = read_sectors(n)
  BY <1>1 DEF Expected, Reads
<1> HIDE DEF expect
<1>5. expect \in Seq(Wants)
  BY <1>2, <1>4, ReadExpects
<1>6. /\ g.step = "read" /\ g.phase = "wait" /\ g.expect = expect /\ g.job = "dump"
      /\ g.offset = host.offset /\ g.out = host.out /\ g.got = <<>> /\ IsHost(g)
      /\ g.result = host.result
  <2>1. /\ g.step = host.step /\ g.phase = "wait" /\ g.expect = expect /\ g.job = host.job
        /\ g.offset = host.offset /\ g.out = host.out /\ g.got = <<>> /\ DOMAIN g = Fields
        /\ g.result = host.result
    BY DEF IsHost, Fields
  <2> HIDE DEF g
  <2> QED BY <1>1, <1>5, <2>1 DEF IsHost, StepNames
<1> HIDE DEF g
<1>7. Dumps(g, card)
  BY <1>1, <1>6 DEF Dumps
<1>8. CASE n = 0
  <2>1. Asked(host) = Succeeded(g)
    BY <1>2, <1>3, <1>4, <1>8, ReadExpects
  <2>2. g.got = Copied(card, g.offset, Count(Chunk, g.offset))
    <3>1. Copied(card, host.offset, n) = <<>>
      BY <1>1, <1>2, <1>8, CopiedSeq
    <3> QED BY <1>6, <3>1
  <2>3. Dumps(Succeeded(g), card)
    BY <1>6, <1>7, <2>2, DumpGoesOn
  <2>4. Succeeded(g).phase # "wait"
    BY <1>6, SucceededAtRest DEF AtRest, StepNames
  <2> QED BY <1>8, <2>1, <2>3, <2>4
<1>9. CASE n # 0
  <2>1. expect # <<>> /\ Len(expect) = n + 1 /\ \A i \in 1..n : expect[i] # "status"
    BY <1>2, <1>4, <1>9, ReadLength
  <2>2. Asked(host) = g
    BY <1>3, <2>1
  <2>3. UnderWay(g) = Question(host.step, host.offset)
    BY <1>1, <1>6 DEF UnderWay
  <2> QED BY <1>6, <1>7, <1>9, <2>1, <2>2, <2>3
<1> QED BY <1>8, <1>9

LEMMA AnswerToRead ==
    ASSUME ~Rpmb, NEW c, c.cmd = "read", c.n \in Nat, c.lba \in Int,
           NEW s, s = Answer(c) \/ s \in Damaged(Answer(c))
    PROVE  RestOf(s, card, c.lba, c.n, 0)
<1> DEFINE n == c.n
           P(i) == Packet(OK, <<card[c.lba + i - 1]>>)
           end == Packet(OK, <<>>)
           S == {P(i) : i \in 1..n} \cup {end}
           sectors == [i \in 1..n |-> P(i)]
           a == Answer(c)
           D(j) == IF j <= n THEN <<card[c.lba + j - 1]>> ELSE <<>>
<1>1. a = sectors \o <<end>>
  BY DEF Answer, Sectors
<1>2. (\A j \in 1..n : P(j).data = D(j)) /\ end.data = D(n + 1)
  BY DEF Packet
<1> HIDE DEF P, end, a, D
<1>3. sectors \in Seq(S) /\ Len(sectors) = n /\ \A j \in 1..n : sectors[j] = P(j)
  OBVIOUS
<1>4. <<end>> \in Seq(S) /\ Len(<<end>>) = 1 /\ <<end>>[1] = end
  OBVIOUS
<1> HIDE DEF S, sectors
<1>5. a \in Seq(S) /\ Len(a) = n + 1
      /\ \A j \in 1..(n + 1) : a[j] = IF j <= n THEN sectors[j] ELSE <<end>>[j - n]
  BY <1>1, <1>3, <1>4, ConcatProperties
<1>6. \A j \in 1..(n + 1) : a[j].data = D(j)
  <2> TAKE j \in 1..(n + 1)
  <2>1. CASE j <= n
    BY <1>2, <1>3, <1>5, <2>1
  <2>2. CASE ~(j <= n)
    <3>1. j = n + 1 /\ j - n = 1
      BY <2>2
    <3>2. a[j] = end
      BY <1>4, <1>5, <2>2, <3>1
    <3> QED BY <1>2, <3>1, <3>2
  <2> QED BY <2>1, <2>2
<1>7. Len(s) = n + 1 /\ \A j \in 1..(n + 1) : s[j].data = a[j].data
  <2>1. CASE s = a
    BY <1>5, <2>1
  <2>2. CASE s \in Damaged(a)
    <3>1. PICK i, e : i \in 1..Len(a) /\ s = [a EXCEPT ![i] = e] /\ e.data = a[i].data
      <4>1. PICK i \in 1..Len(a) : s = [a EXCEPT ![i].good = FALSE]
        BY <2>2 DEF Damaged
      <4> DEFINE e == [a[i] EXCEPT !.good = FALSE]
      <4>2. s = [a EXCEPT ![i] = e]
        BY <4>1
      <4>3. e.data = a[i].data
        OBVIOUS
      <4> HIDE DEF e
      <4> QED BY <4>2, <4>3
    <3>2. a \in Seq(S \cup {e})
      BY <1>5, SeqMonotonic
    <3>3. Len(s) = Len(a) /\ \A j \in 1..Len(a) : s[j] = IF j = i THEN e ELSE a[j]
      BY <3>1, <3>2, ExceptSeq
    <3> QED BY <1>5, <3>1, <3>3
  <2> QED BY <2>1, <2>2 DEF a
<1>8. \A j \in 1..Len(s) : s[j].data = IF 0 + j <= c.n THEN <<card[c.lba + 0 + j - 1]>> ELSE <<>>
  <2> TAKE j \in 1..Len(s)
  <2>1. j \in 1..(n + 1) /\ 0 + j = j /\ c.lba + 0 + j - 1 = c.lba + j - 1
    BY <1>7
  <2>2. s[j].data = D(j)
    BY <1>6, <1>7, <2>1
  <2> QED BY <2>1, <2>2 DEF D
<1> QED BY <1>7, <1>8 DEF RestOf

LEMMA StartDump == Start => DumpInv'
<1> SUFFICES ASSUME Start, host'.job = "dump"
    PROVE  Dumps(host', card') /\ ChunkComes(host, card)' /\ OwnQuestion'
  BY DEF DumpInv
<1>1. host'.phase = "ask" /\ host'.step = "read" /\ host'.offset = 0 /\ host'.out = <<>>
      /\ host'.result = "none"
  BY StartParts DEF FirstStep
<1>2. Copied(card', 0, 0) = <<>> /\ Total \in Nat \ {0}
  BY CopiedSeq, LinkAssumption
<1> QED BY <1>1, <1>2 DEF Dumps, ChunkComes, OwnQuestion

LEMMA SendDump == LinkInv /\ DumpInv /\ send_command => DumpInv'
<1> SUFFICES ASSUME LinkInv, DumpInv, send_command, Steady', host'.job = "dump"
    PROVE  Dumps(host', card') /\ ChunkComes(host, card)' /\ OwnQuestion'
  BY DEF DumpInv
<1> DEFINE c == Question(host.step, host.offset)
           n == Count(Chunk, host.offset)
<1>1. Steady
  BY DEF send_command, Steady
<1>2. /\ IsHost(host) /\ host.phase = "ask" /\ host' = Asked(host)
      /\ toHost' = <<>> /\ card' = card
      /\ toReader' = <<>> \/ \E good \in BOOLEAN : toReader' = <<[c EXCEPT !.good = good]>>
  BY <1>1, SendParts DEF Steady
<1>3. host.job = "dump" /\ Dumps(host, card)
  BY <1>1, <1>2, AskedFollows DEF DumpInv, Follows
<1>4. n \in Nat
  BY <1>3, CountIsDue DEF Dumps
<1>5. /\ Dumps(host', card)
      /\ IF n = 0 THEN host'.phase # "wait"
         ELSE /\ host'.phase = "wait" /\ host'.got = <<>> /\ Len(host'.expect) = n + 1
              /\ \A i \in 1..n : host'.expect[i] # "status"
              /\ UnderWay(host') = c /\ host'.offset = host.offset
  BY <1>2, <1>3, DumpAsked
<1>6. CASE n = 0
  BY <1>2, <1>5, <1>6 DEF ChunkComes, OwnQuestion
<1>7. CASE n # 0
  <2> HIDE DEF c
  <2>1. ChunkComes(host, card)'
    <3>1. host'.got = Copied(card', host'.offset, 0)
      <4>1. host.offset \in Int /\ 0 \in Nat
        BY <1>3 DEF Dumps
      <4> QED BY <1>5, <1>7, <4>1, CopiedSeq
    <3>2. /\ n = Count(Chunk, host'.offset) /\ 0 < n /\ Len(host'.expect) = n + 1 - 0
          /\ \A i \in 1..(n - 0) : host'.expect[i] # "status"
      BY <1>4, <1>5, <1>7
    <3> HIDE DEF n
    <3> QED BY <1>2, <1>4, <3>1, <3>2 DEF ChunkComes
  <2>2. OwnQuestion'
    <3> SUFFICES ASSUME toReader' # <<>>
        PROVE  \E good \in BOOLEAN : toReader' = <<[UnderWay(host') EXCEPT !.good = good]>>
      BY DEF OwnQuestion
    <3>1. PICK good \in BOOLEAN : toReader' = <<[c EXCEPT !.good = good]>>
      BY <1>2
    <3>2. UnderWay(host') = c
      BY <1>5, <1>7
    <3>3. toReader' = <<[UnderWay(host') EXCEPT !.good = good]>>
      BY <3>1, <3>2, Zenon
    <3> QED BY <3>3
  <2> QED BY <1>2, <1>5, <2>1, <2>2
<1> QED BY <1>6, <1>7

LEMMA CancelDump == LinkInv /\ DumpInv /\ Cancel => DumpInv'
<1> SUFFICES ASSUME LinkInv, DumpInv, Cancel, Steady', host'.job = "dump"
    PROVE  Dumps(host', card') /\ ChunkComes(host, card)' /\ OwnQuestion'
  BY DEF DumpInv
<1>1. Steady /\ card' = card /\ IsHost(host)
  BY DEF Cancel, Steady, LinkInv
<1>2. CASE host.job = "dump" /\ host' = Ended(host, "error")
  <2>1. /\ host'.phase = "ended" /\ host'.step = host.step /\ host'.offset = host.offset
        /\ host'.result = "error" /\ host'.out = host.out
    BY <1>1, <1>2, EndedParts
  <2>2. Dumps(host, card)
    BY <1>1, <1>2 DEF DumpInv
  <2> QED BY <1>1, <2>1, <2>2 DEF Dumps, ChunkComes, OwnQuestion
<1>3. CASE host.step = "recv" /\ host' = [host EXCEPT !.result = "error"]
  <2>1. host'.job = host.job
    BY <1>1, <1>3 DEF IsHost, Fields
  <2> QED BY <1>1, <1>3, <2>1 DEF DumpInv, Dumps
<1> QED BY <1>2, <1>3 DEF Cancel

LEMMA GiveUpDump ==
    ASSUME LinkInv, DumpInv, host.phase = "wait", card' = card, NEW left,
           GiveUp(left) \/ (Draining /\ Drained(left))
    PROVE  DumpInv'
<1> SUFFICES ASSUME Steady', host'.job = "dump"
    PROVE  Dumps(host', card') /\ ChunkComes(host, card)' /\ OwnQuestion'
  BY DEF DumpInv
<1>1. IsHost(host) /\ host.step \in StepNames \ {"send"}
  BY DEF LinkInv, IsHost
<1>2. Steady
  BY GivenUp
<1>3. CASE GiveUp(left)
  <2>1. host' = Failed(host)
    BY <1>3 DEF GiveUp
  <2>2. host'.phase # "wait" /\ host'.job = host.job
    BY <1>1, <2>1, FailedAtRest, FailedFollows DEF AtRest, Follows
  <2>3. Dumps(host', card')
    BY <1>1, <1>2, <2>1, <2>2, DumpFails DEF DumpInv
  <2> QED BY <2>2, <2>3 DEF ChunkComes, OwnQuestion
<1>4. CASE Draining /\ Drained(left)
  <2>1. host' = Ask(host, "flush") /\ host.step = "recv"
    BY <1>4 DEF Drained, Draining
  <2>2. host.job = "dump"
    BY <1>1, <2>1, AskParts
  <2> QED BY <1>2, <2>1, <2>2 DEF DumpInv, Dumps
<1> QED BY <1>3, <1>4

(* One packet of a chunk: the next sector, or the status behind the last.   *)
LEMMA PacketOfChunk ==
    ASSUME NEW h, NEW g, NEW c, NEW s, NEW n \in Nat, NEW k \in Nat, k <= n,
           IsSeq(s), s # <<>>, RestOf(s, c, h.offset, n, k), h.offset \in Int,
           h.got = Copied(c, h.offset, k), h.expect \in Seq(Wants), h.expect # <<>>,
           Len(h.expect) = n + 1 - k, \A i \in 1..(n - k) : h.expect[i] # "status",
           g.got = IF Head(h.expect) = "status" THEN h.got ELSE h.got \o Head(s).data,
           g.expect = Tail(h.expect)
    PROVE  /\ k = n => g.expect = <<>> /\ g.got = Copied(c, h.offset, n)
           /\ k # n => /\ g.expect # <<>> /\ Len(g.expect) = n + 1 - (k + 1)
                       /\ \A i \in 1..(n - (k + 1)) : g.expect[i] # "status"
                       /\ g.got = Copied(c, h.offset, k + 1)
                       /\ RestOf(Tail(s), c, h.offset, n, k + 1)
<1>1. PICK S : s \in Seq(S)
  BY DEF IsSeq
<1>2. /\ Len(s) \in Nat /\ Tail(s) \in Seq(S) /\ Len(Tail(s)) = Len(s) - 1
      /\ \A i \in 1..Len(Tail(s)) : Tail(s)[i] = s[i + 1]
  BY <1>1, HeadTailProperties, LenProperties
<1>3. Len(s) = n + 1 - k /\ Head(s) = s[1]
  BY DEF RestOf
<1>4. \A j \in 1..Len(s) : s[j].data = IF k + j <= n THEN <<c[h.offset + k + j - 1]>> ELSE <<>>
  BY DEF RestOf
<1>5. /\ Tail(h.expect) \in Seq(Wants) /\ Len(Tail(h.expect)) = n - k
      /\ \A i \in 1..(n - k) : Tail(h.expect)[i] = h.expect[i + 1]
      /\ Head(h.expect) = h.expect[1]
  BY HeadTailProperties
<1>6. 1 \in 1..Len(s)
  BY <1>2, <1>3
<1>7. CASE k = n
  <2>1. Head(s).data = <<>>
    <3>1. ~(k + 1 <= n)
      BY <1>7
    <3>2. s[1].data = <<>>
      BY <1>4, <1>6, <3>1
    <3> QED BY <1>3, <3>2
  <2>2. g.got = Copied(c, h.offset, n)
    <3>1. h.got = Copied(c, h.offset, n) /\ h.got \o <<>> = h.got
      BY <1>7, <2>1, OneMoreCopied
    <3> QED BY <2>1, <3>1
  <2>3. g.expect = <<>>
    <3>1. Len(Tail(h.expect)) = 0
      BY <1>5, <1>7
    <3> QED BY <1>5, <3>1, EmptySeq
  <2> QED BY <1>7, <2>2, <2>3
<1>8. CASE k # n
  <2>1. Head(s).data = <<c[h.offset + k]>>
    <3>1. k + 1 <= n /\ h.offset + k + 1 - 1 = h.offset + k
      BY <1>8
    <3>2. s[1].data = <<c[h.offset + k + 1 - 1]>>
      BY <1>4, <1>6, <3>1
    <3> QED BY <1>3, <3>1, <3>2
  <2>2. g.got = Copied(c, h.offset, k + 1)
    <3>1. 1 \in 1..(n - k)
      BY <1>8
    <3>2. g.got = h.got \o Head(s).data
      BY <1>5, <3>1
    <3> QED BY <2>1, <3>2, OneMoreCopied
  <2>3. g.expect # <<>> /\ Len(g.expect) = n + 1 - (k + 1)
    <3>1. Len(g.expect) = n - k /\ n - k # 0
      BY <1>5, <1>8
    <3>2. g.expect # <<>>
      BY <3>1, EmptySeq
    <3> QED BY <3>1, <3>2
  <2>4. RestOf(Tail(s), c, h.offset, n, k + 1)
    <3>1. Len(Tail(s)) = n + 1 - (k + 1)
      BY <1>2, <1>3
    <3>2. \A j \in 1..Len(Tail(s)) :
             Tail(s)[j].data = IF (k + 1) + j <= n
                               THEN <<c[h.offset + (k + 1) + j - 1]>> ELSE <<>>
      <4> TAKE j \in 1..Len(Tail(s))
      <4>1. j + 1 \in 1..Len(s) /\ Tail(s)[j] = s[j + 1]
        BY <1>2
      <4>2. s[j + 1].data = IF k + (j + 1) <= n THEN <<c[h.offset + k + (j + 1) - 1]>> ELSE <<>>
        BY <1>4, <4>1
      <4>3. k + (j + 1) = (k + 1) + j /\ h.offset + k + (j + 1) - 1 = h.offset + (k + 1) + j - 1
        <5> DEFINE p == h.offset
        <5>1. j \in Int /\ p \in Int
          BY <1>2
        <5> HIDE DEF p
        <5>2. k + (j + 1) = (k + 1) + j /\ p + k + (j + 1) - 1 = p + (k + 1) + j - 1
          BY <5>1
        <5> QED BY <5>2 DEF p
      <4>4. CASE (k + 1) + j <= n
        <5>1. s[j + 1].data = <<c[h.offset + k + (j + 1) - 1]>>
          BY <4>2, <4>3, <4>4
        <5>2. s[j + 1].data = <<c[h.offset + (k + 1) + j - 1]>>
          BY <4>3, <5>1, Zenon
        <5> QED BY <4>1, <4>4, <5>2
      <4>5. CASE ~((k + 1) + j <= n)
        <5>1. s[j + 1].data = <<>>
          BY <4>2, <4>3, <4>5
        <5> QED BY <4>1, <4>5, <5>1
      <4> QED BY <4>4, <4>5
    <3> QED BY <3>1, <3>2 DEF RestOf
  <2>5. \A i \in 1..(n - (k + 1)) : g.expect[i] # "status"
    <3> TAKE i \in 1..(n - (k + 1))
    <3>1. i \in 1..(n - k) /\ i + 1 \in 1..(n - k)
      BY <1>8
    <3> QED BY <1>5, <3>1
  <2> QED BY <1>8, <2>2, <2>3, <2>4, <2>5
<1> QED BY <1>7, <1>8

LEMMA RecvDump == LinkInv /\ DumpInv /\ recv_response => DumpInv'
<1> SUFFICES ASSUME LinkInv, DumpInv, recv_response, Steady', host'.job = "dump"
    PROVE  DumpInv'
  BY DEF DumpInv
<1> DEFINE packet == Head(toHost)
           taken  == Taken(host, packet)
<1>1. /\ host.phase = "wait" /\ card' = card /\ toHost # <<>> /\ host.expect # <<>>
      /\ host.expect \in Seq(Wants)
  BY DEF recv_response, LinkInv, IsHost
<1>2. Steady
  <2>1. \/ astray' = astray /\ unsure' = unsure
        \/ \E left : GiveUp(left) \/ Drained(left)
    BY DEF recv_response
  <2> QED BY <2>1, GivenUp DEF Steady
<1>3. CASE \E left : GiveUp(left) \/ (Draining /\ Drained(left))
  BY <1>1, <1>2, <1>3, GiveUpDump
<1>4. CASE /\ Accepts(Head(host.expect), packet)
           /\ host' = IF taken.expect = <<>> THEN Succeeded(taken) ELSE taken
           /\ toReader = <<>> /\ toReader' = <<>> /\ toHost' = Tail(toHost)
           /\ IsHost(taken) /\ taken.expect = Tail(host.expect)
           /\ taken.got = (IF Head(host.expect) = "status" THEN host.got
                           ELSE host.got \o packet.data)
           /\ taken.phase = "wait" /\ taken.step = host.step /\ taken.step # "send"
           /\ taken.job = host.job /\ taken.offset = host.offset
           /\ taken.out = host.out /\ taken.result = host.result
  <2>1. packet.status = OK
    BY <1>4 DEF Accepts
  <2>2. IsSeq(toHost)
    BY <1>1, <1>2, <1>4 DEF Steady, LinkInv, Paired, Answered, Asking
  <2> HIDE DEF taken
  <2>3. taken.step \in StepNames
    BY <1>4 DEF IsHost
  <2>4. host.job = "dump"
    BY <1>4, <2>3, SucceededFollows DEF Follows
  <2>5. Dumps(host, card) /\ ChunkComes(host, card)
    BY <1>2, <2>4 DEF DumpInv
  <2>6. Dumps(taken, card)
    BY <1>1, <1>4, <2>5 DEF Dumps
  <2>7. PICK n \in Nat, k \in Nat :
            /\ n = Count(Chunk, host.offset) /\ 0 < n /\ k <= n
            /\ host.got = Copied(card, host.offset, k) /\ Len(host.expect) = n + 1 - k
            /\ \A i \in 1..(n - k) : host.expect[i] # "status"
            /\ RestOf(toHost, card, host.offset, n, k)
    BY <1>1, <1>4, <2>1, <2>5 DEF ChunkComes
  <2>8. host.offset \in Int
    BY <2>5 DEF Dumps
  <2>9. /\ k = n => taken.expect = <<>> /\ taken.got = Copied(card, host.offset, n)
        /\ k # n => /\ taken.expect # <<>> /\ Len(taken.expect) = n + 1 - (k + 1)
                    /\ \A i \in 1..(n - (k + 1)) : taken.expect[i] # "status"
                    /\ taken.got = Copied(card, host.offset, k + 1)
                    /\ RestOf(toHost', card, host.offset, n, k + 1)
    <3>1. /\ k <= n /\ IsSeq(toHost) /\ toHost # <<>>
          /\ RestOf(toHost, card, host.offset, n, k) /\ host.offset \in Int
          /\ host.got = Copied(card, host.offset, k) /\ host.expect \in Seq(Wants)
          /\ host.expect # <<>> /\ Len(host.expect) = n + 1 - k
          /\ \A i \in 1..(n - k) : host.expect[i] # "status"
          /\ taken.got = (IF Head(host.expect) = "status" THEN host.got
                          ELSE host.got \o Head(toHost).data)
          /\ taken.expect = Tail(host.expect)
      BY <1>1, <1>4, <2>2, <2>7, <2>8
    <3>2. /\ k = n => taken.expect = <<>> /\ taken.got = Copied(card, host.offset, n)
          /\ k # n => /\ taken.expect # <<>> /\ Len(taken.expect) = n + 1 - (k + 1)
                      /\ \A i \in 1..(n - (k + 1)) : taken.expect[i] # "status"
                      /\ taken.got = Copied(card, host.offset, k + 1)
                      /\ RestOf(Tail(toHost), card, host.offset, n, k + 1)
      BY <3>1, PacketOfChunk
    <3>3. toHost' = Tail(toHost)
      BY <1>4
    <3> QED BY <3>2, <3>3, Zenon
  <2>10. CASE k = n
    <3>1. host' = Succeeded(taken)
      BY <1>4, <2>9, <2>10
    <3>2. taken.got = Copied(card, taken.offset, Count(Chunk, taken.offset))
      BY <1>4, <2>7, <2>9, <2>10
    <3>3. Dumps(host', card')
      BY <1>1, <1>4, <2>4, <2>6, <3>1, <3>2, DumpGoesOn
    <3>4. host'.phase # "wait"
      BY <1>4, <2>3, <3>1, SucceededAtRest DEF AtRest
    <3> QED BY <3>3, <3>4 DEF DumpInv, ChunkComes, OwnQuestion
  <2>11. CASE k # n
    <3>1. host' = taken
      BY <1>4, <2>9, <2>11
    <3> DEFINE j == k + 1
    <3>2. j \in Nat /\ j <= n
      BY <2>7, <2>11
    <3>3. /\ Len(host'.expect) = n + 1 - j /\ host'.got = Copied(card', host'.offset, j)
          /\ \A i \in 1..(n - j) : host'.expect[i] # "status"
          /\ RestOf(toHost', card', host'.offset, n, j)
      BY <1>1, <1>4, <2>9, <2>11, <3>1
    <3>4. n = Count(Chunk, host'.offset)
      BY <1>4, <2>7, <3>1
    <3> HIDE DEF j
    <3>5. ChunkComes(host, card)'
      BY <1>4, <2>7, <3>2, <3>3, <3>4 DEF ChunkComes
    <3>6. Dumps(host', card')
      BY <1>1, <2>6, <3>1
    <3> QED BY <1>4, <3>5, <3>6 DEF DumpInv, OwnQuestion
  <2> QED BY <2>10, <2>11
<1> QED BY <1>1, <1>2, <1>3, <1>4, RecvParts DEF Steady

LEMMA TimeoutDump == LinkInv /\ DumpInv /\ Timeout => DumpInv'
<1> SUFFICES ASSUME LinkInv, DumpInv, Timeout PROVE DumpInv'
  OBVIOUS
<1>1. host.phase = "wait" /\ card' = card /\ (GiveUp(<<>>) \/ (Draining /\ Drained(<<>>)))
  BY DEF Timeout
<1> QED BY <1>1, GiveUpDump

LEMMA ReaderDump == LinkInv /\ SessionInv /\ DumpInv /\ Reader => DumpInv'
<1> SUFFICES ASSUME LinkInv, SessionInv, DumpInv, Reader, Steady', host'.job = "dump"
    PROVE  Dumps(host', card') /\ ChunkComes(host, card)' /\ OwnQuestion'
  BY DEF DumpInv
<1>1. Steady /\ host.job = "dump"
  BY DEF Reader, Steady
<1>2. Dumps(host, card) /\ ChunkComes(host, card) /\ OwnQuestion
  BY <1>1 DEF DumpInv
<1>3. PICK good \in BOOLEAN : LET c == [UnderWay(host) EXCEPT !.good = good] IN
               /\ host.phase = "wait" /\ ~Rpmb /\ host' = host
               /\ toReader = <<c>> /\ toReader' = <<>>
               /\ \/ /\ card' = Stored(c)
                     /\ \/ toHost' = Answer(c)
                        \/ toHost' \in Damaged(Answer(c))
                  \/ /\ card' \in {card, StoredGarbled(c)}
                     /\ toHost' # <<>> /\ Head(toHost').status # OK
  BY <1>1, <1>2, ReaderParts
<1> DEFINE c == [UnderWay(host) EXCEPT !.good = good]
           n == Count(Chunk, host.offset)
<1>4. c.cmd = "read" /\ c.lba = host.offset /\ c.n = n
  <2>1. UnderWay(host) = Question("read", host.offset)
    BY <1>2 DEF Dumps, UnderWay
  <2>2. UnderWay(host) = Command("read", host.offset, n, <<>>)
    BY <2>1 DEF Question, Reads
  <2> HIDE DEF n
  <2>3. LET d == [Command("read", host.offset, n, <<>>) EXCEPT !.good = good]
        IN  d.cmd = "read" /\ d.lba = host.offset /\ d.n = n
    BY DEF Command
  <2> QED BY <2>2, <2>3
<1>5. /\ host.phase = "wait" /\ ~Rpmb /\ host' = host
      /\ toReader # <<>> /\ toReader' = <<>>
      /\ \/ /\ card' = Stored(c)
            /\ \/ toHost' = Answer(c)
               \/ toHost' \in Damaged(Answer(c))
         \/ /\ card' \in {card, StoredGarbled(c)}
            /\ toHost' # <<>> /\ Head(toHost').status # OK
  <2> HIDE DEF c
  <2>1. toReader = <<c>> => toReader # <<>>
    OBVIOUS
  <2> QED BY <1>3, <2>1 DEF c
<1> HIDE DEF c, n
<1>6. card' = card
  BY <1>4, <1>5 DEF Stored, StoredGarbled
<1>7. n \in Nat /\ host.offset \in Int
  <2>1. host.offset \in 0..Total
    BY <1>2 DEF Dumps
  <2> QED BY <2>1, CountIsDue DEF n
<1>8. /\ n = Count(Chunk, host.offset) /\ 0 < n
      /\ host.got = Copied(card, host.offset, 0) /\ Len(host.expect) = n + 1 - 0
      /\ \A i \in 1..(n - 0) : host.expect[i] # "status"
  BY <1>2, <1>5 DEF ChunkComes, n
<1>9. toHost' # <<>> /\ Head(toHost').status = OK => RestOf(toHost', card, host.offset, n, 0)
  BY <1>4, <1>5, <1>7, AnswerToRead
<1>10. ChunkComes(host, card)'
  BY <1>5, <1>6, <1>7, <1>8, <1>9 DEF ChunkComes
<1> QED BY <1>2, <1>5, <1>6, <1>10 DEF OwnQuestion

THEOREM DumpInvHolds == Spec => []DumpInv
<1>1. Init => DumpInv
  BY DEF Init, DumpInv, Idle
<1>2. LinkInv /\ SessionInv /\ DumpInv /\ [Next]_vars => DumpInv'
  <2> SUFFICES ASSUME LinkInv, SessionInv, DumpInv, [Next]_vars PROVE DumpInv'
    OBVIOUS
  <2>1. CASE UNCHANGED vars
    BY <2>1 DEF vars, DumpInv, Dumps, ChunkComes, OwnQuestion, Steady
  <2>2. CASE Next
    BY <2>2, StartDump, SendDump, CancelDump, RecvDump, TimeoutDump, ReaderDump DEF Next
  <2> QED BY <2>1, <2>2
<1> QED BY <1>1, <1>2, SessionInvHolds, PTL DEF Spec

(* A dump that is reported complete is a copy of the card, as long as no    *)
(* exchange of its connection was given up before its end and no session    *)
(* has left the reader in RPMB (dump_to_file of operations.rs, over         *)
(* read_sectors_multi and with_retry).                                      *)
THEOREM SteadyDumpsAreCopies == Spec => []SteadyDumpIsCopy
<1>1. DumpInv => SteadyDumpIsCopy
  <2> SUFFICES ASSUME DumpInv, Steady, host.job = "dump", host.result = "done"
      PROVE  host.out = [i \in 1..Total |-> card[i - 1]]
    BY DEF SteadyDumpIsCopy, DumpIsCopy
  <2>1. host.out = Copied(card, 0, Total)
    BY DEF DumpInv, Dumps
  <2>2. \A i \in 1..Total : 0 + i - 1 = i - 1
    BY LinkAssumption
  <2> QED BY <2>1, <2>2 DEF Copied
<1> QED BY <1>1, DumpInvHolds, PTL

-----------------------------------------------------------------------------
(* What a verification that finds no difference means, of a write that      *)
(* began over an empty line: its questions come behind all its batches, so  *)
(* whatever it takes for an answer was read off the card after them.        *)

(* A datum that does not lie about the card c, and a card on which none of  *)
(* the file's sectors is at another's place.                                *)
IsTrue(d, c) == \A k \in Lba : d = New(k) => c[k] = New(k)
Own(c) == \A l \in Lba, k \in Lba : c[l] = New(k) => k = l

IsRead(x) == x.cmd = "read" /\ x.lba \in Lba /\ x.n \in Nat /\ x.lba + x.n <= Total
IsProper(x) ==
    x.cmd = "write" => /\ x.lba \in Int /\ x.n \in Int
                       /\ x.data = Tags(New, x.lba, x.n) \/ x.data = Tags(Frame, x.lba, x.n)
Bears(x, c) == x.data = <<>> \/ \E d : x.data = <<d>> /\ IsTrue(d, c)

(* Sequences of such things.                                                *)
Is(kind, x, c) ==
    \/ kind = "silent" /\ x.data = <<>> /\ "data" \in DOMAIN x
    \/ kind = "bears" /\ Bears(x, c) /\ "data" \in DOMAIN x
    \/ kind = "true" /\ IsTrue(x, c)
    \/ kind = "write" /\ x.cmd = "write"
    \/ kind = "read" /\ IsRead(x)
    \/ kind = "proper" /\ IsProper(x)
Each(kind, s, c) == \E S : s \in Seq(S) /\ \A x \in S : Is(kind, x, c)

(* The write with host h, questions q, answers s and card c: while it is    *)
(* written, and until the last batch is behind it, no answer carries        *)
(* anything; then every answer was read off the card as it stays.           *)
Silent(h, s, c) == Each("silent", s, c) /\ h.got = <<>> /\ h.out = <<>>
Early(h, q, s, c) ==
    /\ Silent(h, s, c)
    /\ \E w, r : q = w \o r /\ Each("write", w, c) /\ Each("read", r, c)
Past(h, q, s, c) ==
    /\ Each("read", q, c) /\ Each("bears", s, c)
    /\ Each("true", h.got, c) /\ Each("true", h.out, c)
Verifies(h, q, s, c) ==
    /\ h.step \in {"write", "verify"}
    /\ h.phase \in {"ask", "wait"} => h.offset \in Lba
    /\ h.step = "write" => Silent(h, s, c) /\ Each("write", q, c)
    /\ h.step = "verify" => Early(h, q, s, c) \/ Past(h, q, s, c)

OwnInv == Own(card) /\ Each("proper", toReader, card)
VerifyInv == fresh /\ host.job = "write" => Verifies(host, toReader, toHost, card)

LEMMA EachEmpty == ASSUME NEW kind, NEW c PROVE Each(kind, <<>>, c)
<1> DEFINE none == <<>>
<1>1. none \in Seq({})
  BY EmptySeq
<1> HIDE DEF none
<1>2. Each(kind, none, c)
  BY <1>1 DEF Each
<1> QED BY <1>2 DEF none

LEMMA EachOne == ASSUME NEW kind, NEW x, NEW c, Is(kind, x, c) PROVE Each(kind, <<x>>, c)
<1>1. <<x>> \in Seq({x})
  OBVIOUS
<1>2. \A y \in {x} : Is(kind, y, c)
  OBVIOUS
<1> DEFINE s == <<x>>
<1>3. s \in Seq({x})
  BY <1>1
<1> HIDE DEF s
<1>4. Each(kind, s, c)
  BY <1>2, <1>3 DEF Each
<1> QED BY <1>4 DEF s

LEMMA EachConcat ==
    ASSUME NEW kind, NEW s, NEW u, NEW c, Each(kind, s, c), Each(kind, u, c)
    PROVE  Each(kind, s \o u, c)
<1>1. PICK S : s \in Seq(S) /\ \A x \in S : Is(kind, x, c)
  BY DEF Each
<1>2. PICK U : u \in Seq(U) /\ \A x \in U : Is(kind, x, c)
  BY DEF Each
<1>3. s \in Seq(S \cup U) /\ u \in Seq(S \cup U)
  BY <1>1, <1>2, SeqMonotonic
<1>4. s \o u \in Seq(S \cup U)
  BY <1>3, ConcatProperties
<1>5. \A x \in S \cup U : Is(kind, x, c)
  BY <1>1, <1>2
<1> QED BY <1>4, <1>5 DEF Each

LEMMA EachAppend ==
    ASSUME NEW kind, NEW s, NEW x, NEW c, Each(kind, s, c), Is(kind, x, c)
    PROVE  Each(kind, Append(s, x), c)
<1>1. PICK S : s \in Seq(S) /\ \A y \in S : Is(kind, y, c)
  BY DEF Each
<1>2. s \in Seq(S \cup {x})
  BY <1>1, SeqMonotonic
<1>3. Append(s, x) \in Seq(S \cup {x})
  BY <1>2, AppendProperties
<1>4. \A y \in S \cup {x} : Is(kind, y, c)
  BY <1>1
<1> QED BY <1>3, <1>4 DEF Each

LEMMA EachHeadTail ==
    ASSUME NEW kind, NEW s, NEW c, Each(kind, s, c), s # <<>>
    PROVE  Is(kind, Head(s), c) /\ Each(kind, Tail(s), c)
<1>1. PICK S : s \in Seq(S) /\ \A y \in S : Is(kind, y, c)
  BY DEF Each
<1>2. Head(s) \in S /\ Tail(s) \in Seq(S)
  BY <1>1, HeadTailProperties
<1> QED BY <1>1, <1>2 DEF Each

LEMMA EachAt ==
    ASSUME NEW kind, NEW s, NEW c, Each(kind, s, c)
    PROVE  Len(s) \in Nat /\ \A i \in 1..Len(s) : Is(kind, s[i], c)
<1>1. PICK S : s \in Seq(S) /\ \A y \in S : Is(kind, y, c)
  BY DEF Each
<1>2. Len(s) \in Nat /\ s \in [1..Len(s) -> S]
  BY <1>1, LenProperties
<1>3. \A i \in 1..Len(s) : s[i] \in S
  BY <1>2
<1> QED BY <1>1, <1>2, <1>3

LEMMA EachAnyCard ==
    ASSUME NEW kind \in {"silent", "write", "read", "proper"}, NEW s, NEW c, NEW d, Each(kind, s, c)
    PROVE  Each(kind, s, d)
<1>1. PICK S : s \in Seq(S) /\ \A x \in S : Is(kind, x, c)
  BY DEF Each
<1>2. \A x \in S : Is(kind, x, d)
  BY <1>1 DEF Is
<1> QED BY <1>1, <1>2 DEF Each

LEMMA SilentBears ==
    ASSUME NEW s, NEW c, Each("silent", s, c)
    PROVE  Each("bears", s, c)
<1>1. PICK S : s \in Seq(S) /\ \A x \in S : Is("silent", x, c)
  BY DEF Each
<1>2. \A x \in S : Is("bears", x, c)
  BY <1>1 DEF Is, Bears
<1> QED BY <1>1, <1>2 DEF Each

LEMMA DamagedEach ==
    ASSUME NEW kind \in {"silent", "bears"}, NEW packets, NEW c, Each(kind, packets, c),
           NEW other \in Damaged(packets)
    PROVE  Each(kind, other, c)
<1>1. PICK i, e : i \in 1..Len(packets) /\ other = [packets EXCEPT ![i] = e]
                  /\ e.data = packets[i].data /\ DOMAIN e = DOMAIN packets[i]
  <2>1. PICK i \in 1..Len(packets) : other = [packets EXCEPT ![i].good = FALSE]
    BY DEF Damaged
  <2> DEFINE e == [packets[i] EXCEPT !.good = FALSE]
  <2>2. other = [packets EXCEPT ![i] = e]
    BY <2>1
  <2>3. e.data = packets[i].data /\ DOMAIN e = DOMAIN packets[i]
    OBVIOUS
  <2> HIDE DEF e
  <2> QED BY <2>2, <2>3
<1>2. PICK S : packets \in Seq(S) /\ \A x \in S : Is(kind, x, c)
  BY DEF Each
<1>3. Is(kind, packets[i], c)
  BY <1>1, EachAt
<1>4. Is(kind, e, c)
  <2>1. CASE kind = "silent"
    BY <1>1, <1>3, <2>1 DEF Is
  <2>2. CASE kind = "bears"
    BY <1>1, <1>3, <2>2 DEF Is, Bears
  <2> QED BY <2>1, <2>2
<1>5. packets \in Seq(S \cup {e})
  BY <1>2, SeqMonotonic
<1>6. other \in Seq(S \cup {e})
  BY <1>1, <1>5, ExceptSeq
<1>7. \A x \in S \cup {e} : Is(kind, x, c)
  BY <1>2, <1>4
<1> QED BY <1>6, <1>7 DEF Each

(* What the reader answers: nothing to a write, and to a read what is on    *)
(* the card.                                                                *)
LEMMA AnswerToWrite ==
    ASSUME NEW x, x.cmd = "write", NEW c
    PROVE  Each("silent", Answer(x), c)
<1> DEFINE end == Packet(OK, <<>>)
<1>1. Answer(x) = <<end>>
  BY DEF Answer
<1>2. Is("silent", end, c)
  BY DEF Is, Packet
<1> HIDE DEF end
<1> QED BY <1>1, <1>2, EachOne

LEMMA AnswerBears ==
    ASSUME NEW x, IsRead(x), Own(card)
    PROVE  Each("bears", Answer(x), card)
<1> DEFINE end == Packet(OK, <<>>)
<1>1. Is("bears", end, card)
  BY DEF Is, Bears, Packet
<1>2. CASE Rpmb
  <2> DEFINE frame == Packet(OK, <<Frame(0)>>)
  <2>1. Answer(x) = <<frame>> \o <<end>>
    BY <1>2 DEF Answer, Sectors, IsRead
  <2>2. frame.data = <<Frame(0)>> /\ "data" \in DOMAIN frame
    BY DEF Packet
  <2>3. IsTrue(Frame(0), card)
    BY DEF IsTrue, Frame, New
  <2>4. Is("bears", frame, card)
    <3> DEFINE d == Frame(0)
    <3>1. frame.data = <<d>> /\ "data" \in DOMAIN frame /\ IsTrue(d, card)
      BY <2>2, <2>3
    <3> HIDE DEF d, frame
    <3> QED BY <3>1 DEF Is, Bears
  <2> HIDE DEF frame, end
  <2> QED BY <1>1, <2>1, <2>4, EachOne, EachConcat
<1>3. CASE ~Rpmb
  <2> DEFINE P(i) == Packet(OK, <<card[x.lba + i - 1]>>)
             S == {P(i) : i \in 1..x.n}
             sectors == [i \in 1..x.n |-> P(i)]
  <2>1. Answer(x) = sectors \o <<end>>
    BY <1>3 DEF Answer, Sectors, IsRead
  <2>2. \A i \in 1..x.n : Is("bears", P(i), card)
    <3> TAKE i \in 1..x.n
    <3> DEFINE l == x.lba + i - 1
               d == card[l]
    <3>1. l \in Lba
      BY LinkAssumption DEF IsRead, Lba
    <3>2. P(i).data = <<d>> /\ "data" \in DOMAIN P(i)
      BY DEF Packet
    <3> HIDE DEF l
    <3>3. IsTrue(d, card)
      BY <3>1 DEF IsTrue, Own
    <3> HIDE DEF d, P
    <3> QED BY <3>2, <3>3 DEF Is, Bears
  <2> HIDE DEF P, end
  <2>3. sectors \in Seq(S)
    BY DEF IsRead
  <2>4. \A y \in S : Is("bears", y, card)
    BY <2>2
  <2> HIDE DEF S, sectors
  <2>5. Each("bears", sectors, card)
    BY <2>3, <2>4 DEF Each
  <2> QED BY <1>1, <2>1, <2>5, EachOne, EachConcat
<1> QED BY <1>2, <1>3

(* Every command is a proper one, and so the card never holds a sector of   *)
(* the file at another's place.                                             *)
LEMMA QuestionIsProper ==
    ASSUME NEW step \in StepNames, NEW offset \in Int
    PROVE  LET x == Question(step, offset)
           IN  IsProper(x) /\ IsProper([x EXCEPT !.good = FALSE])
<1> DEFINE x == Question(step, offset)
           y == [x EXCEPT !.good = FALSE]
<1>1. CASE step \in {"write", "send"}
  <2> DEFINE n == Least(WriteChunk, offset)
             data == Tags(New, offset, n)
  <2>1. x = Command("write", offset, n, data)
    BY <1>1 DEF Question, Reads
  <2>2. n \in Int
    BY LeastIsInt, LinkAssumption
  <2> HIDE DEF n, data
  <2>3. /\ x.lba = offset /\ x.n = n /\ x.data = data
        /\ y.lba = offset /\ y.n = n /\ y.data = data
    BY <2>1 DEF Command
  <2> HIDE DEF x, y
  <2>4. x.data = Tags(New, x.lba, x.n) /\ y.data = Tags(New, y.lba, y.n)
    BY <2>3 DEF data
  <2>5. IsProper(x) /\ IsProper(y)
    BY <2>2, <2>3, <2>4 DEF IsProper
  <2> QED BY <2>5 DEF x, y
<1>2. CASE step = "rpmb_write"
  <2> DEFINE data == Tags(Frame, 0, 1)
  <2>1. x = Command("write", 0, 1, data)
    BY <1>2 DEF Question, Reads
  <2> HIDE DEF data
  <2>2. /\ x.lba = 0 /\ x.n = 1 /\ x.data = data
        /\ y.lba = 0 /\ y.n = 1 /\ y.data = data
    BY <2>1 DEF Command
  <2> HIDE DEF x, y
  <2>3. x.data = Tags(Frame, x.lba, x.n) /\ y.data = Tags(Frame, y.lba, y.n)
    BY <2>2 DEF data
  <2>4. IsProper(x) /\ IsProper(y)
    BY <2>2, <2>3 DEF IsProper
  <2> QED BY <2>4 DEF x, y
<1>3. CASE step \notin {"write", "send", "rpmb_write"}
  <2>1. x.cmd # "write" /\ y.cmd # "write"
    <3>1. CASE step \in Reads
      <4> DEFINE n == Count(Chunk, offset)
      <4>1. x = Command("read", offset, n, <<>>)
        BY <3>1 DEF Question, Reads
      <4> HIDE DEF n, x
      <4> QED BY <4>1 DEF Command
    <3>2. CASE step \notin Reads
      <4>1. \E cmd \in {"read", "set_partition", "set_rpmb_mode", "get_ext_csd", "write_ext_csd"},
               lba \in {0, 1, 3}, n \in {0, 1} : x = Command(cmd, lba, n, <<>>)
        BY <1>3, <3>2 DEF Question, Reads, StepNames
      <4> HIDE DEF x
      <4> QED BY <4>1 DEF Command
    <3> QED BY <3>1, <3>2
  <2> HIDE DEF x, y
  <2>2. IsProper(x) /\ IsProper(y)
    BY <2>1 DEF IsProper
  <2> QED BY <2>2 DEF x, y
<1> QED BY <1>1, <1>2, <1>3

LEMMA StoredIsOwn ==
    ASSUME NEW x, IsProper(x), Own(card)
    PROVE  Own(Stored(x)) /\ Own(StoredGarbled(x))
<1>1. Own(Stored(x))
  <2>1. CASE x.cmd = "write" /\ ~Rpmb
    <3>1. Stored(x) = [l \in Lba |-> IF l - x.lba \in 0..(x.n - 1)
                                     THEN x.data[l - x.lba + 1] ELSE card[l]]
      BY <2>1 DEF Stored
    <3>2. SUFFICES ASSUME NEW l \in Lba, NEW k \in Lba, Stored(x)[l] = New(k)
          PROVE  k = l
      BY DEF Own
    <3>3. CASE ~(l - x.lba \in 0..(x.n - 1))
      <4>1. card[l] = New(k)
        BY <3>1, <3>2, <3>3
      <4> QED BY <4>1 DEF Own
    <3>4. CASE l - x.lba \in 0..(x.n - 1)
      <4> DEFINE i == l - x.lba + 1
      <4>1. x.lba \in Int /\ x.n \in Int /\ l \in Int
        BY <2>1 DEF IsProper, Lba
      <4>2. i \in 1..x.n /\ x.lba + i - 1 = l
        BY <3>4, <4>1
      <4>3. x.data[i] = New(k)
        BY <3>1, <3>2, <3>4
      <4> HIDE DEF i
      <4>4. x.data[i] = New(l) \/ x.data[i] = Frame(l)
        <5>1. CASE x.data = Tags(New, x.lba, x.n)
          BY <4>2, <5>1 DEF Tags
        <5>2. CASE x.data = Tags(Frame, x.lba, x.n)
          BY <4>2, <5>2 DEF Tags
        <5> QED BY <2>1, <5>1, <5>2 DEF IsProper
      <4> QED BY <4>3, <4>4 DEF New, Frame
    <3> QED BY <3>3, <3>4
  <2>2. CASE ~(x.cmd = "write" /\ ~Rpmb)
    BY <2>2 DEF Stored
  <2> QED BY <2>1, <2>2
<1>2. Own(StoredGarbled(x))
  <2>1. CASE x.cmd = "write" /\ x.n > 1 /\ ~Rpmb
    <3> DEFINE d == Stored(x)
               b == x.lba
               e == [d EXCEPT ![b] = Garbled(b)]
    <3>1. StoredGarbled(x) = e
      BY <2>1 DEF StoredGarbled
    <3>2. DOMAIN d = Lba
      BY <2>1 DEF Stored
    <3> HIDE DEF d, b
    <3>3. \A l \in Lba : e[l] = IF l = b THEN Garbled(b) ELSE d[l]
      BY <3>2
    <3> HIDE DEF e
    <3>4. Own(d)
      BY <1>1 DEF d
    <3>5. Own(e)
      BY <3>3, <3>4 DEF Own, Garbled, New
    <3> QED BY <3>1, <3>5
  <2>2. CASE ~(x.cmd = "write" /\ x.n > 1 /\ ~Rpmb)
    BY <2>2 DEF StoredGarbled
  <2> QED BY <2>1, <2>2
<1> QED BY <1>1, <1>2

LEMMA StepOwnInv == LinkInv /\ OwnInv /\ [Next]_vars => OwnInv'
<1> SUFFICES ASSUME LinkInv, OwnInv, [Next]_vars PROVE OwnInv'
  OBVIOUS
<1>1. CASE send_command
  <2> DEFINE x == Question(host.step, host.offset)
             y == [x EXCEPT !.good = FALSE]
  <2>1. card' = card /\ host.step \in StepNames /\ host.offset \in Int
    BY <1>1 DEF send_command, LinkInv, IsHost
  <2>2. toReader' \in {toReader, Append(toReader, x), Append(toReader, y)}
    BY <1>1 DEF send_command
  <2>3. IsProper(x) /\ IsProper(y)
    BY <2>1, QuestionIsProper
  <2> HIDE DEF x, y
  <2>4. Is("proper", x, card) /\ Is("proper", y, card)
    BY <2>3 DEF Is
  <2>5. Each("proper", toReader', card)
    BY <2>2, <2>4, EachAppend DEF OwnInv
  <2> QED BY <2>1, <2>5 DEF OwnInv
<1>2. CASE Reader
  <2> DEFINE x == Head(toReader)
  <2>1. toReader # <<>> /\ toReader' = Tail(toReader) /\ card' \in {card, Stored(x), StoredGarbled(x)}
    BY <1>2 DEF Reader
  <2> HIDE DEF x
  <2>2. Is("proper", x, card) /\ Each("proper", Tail(toReader), card)
    BY <2>1, EachHeadTail DEF OwnInv, x
  <2>3. IsProper(x)
    BY <2>2 DEF Is
  <2>4. Own(card')
    BY <2>1, <2>3, StoredIsOwn DEF OwnInv
  <2>5. Each("proper", Tail(toReader), card')
    BY <2>2, EachAnyCard
  <2>6. Each("proper", toReader', card')
    BY <2>1, <2>5
  <2> QED BY <2>4, <2>6 DEF OwnInv
<1>3. CASE toReader' = toReader /\ card' = card
  BY <1>3 DEF OwnInv
<1> QED
  BY <1>1, <1>2, <1>3 DEF Next, vars, Start, Cancel, recv_response, Timeout

THEOREM OwnInvHolds == Spec => []OwnInv
<1>1. Init => OwnInv
  <2> SUFFICES ASSUME Init PROVE OwnInv
    OBVIOUS
  <2>1. Own(card)
    BY DEF Init, Own, Old, New
  <2>2. Each("proper", toReader, card)
    BY EachEmpty DEF Init
  <2> QED BY <2>1, <2>2 DEF OwnInv
<1>2. LinkInv /\ OwnInv /\ [Next]_vars => OwnInv'
  BY StepOwnInv
<1> QED BY <1>1, <1>2, LinkInvHolds, PTL DEF Spec

(* Only what the write has got and put out matters, and its place in it.    *)
LEMMA VerifiesSame ==
    ASSUME NEW h, NEW g, NEW q, NEW s, NEW c, Verifies(h, q, s, c),
           g.step = h.step, g.got = h.got, g.out = h.out,
           g.phase \in {"ask", "wait"} => g.offset = h.offset /\ h.phase \in {"ask", "wait"}
    PROVE  Verifies(g, q, s, c)
BY DEF Verifies, Early, Past, Silent

LEMMA VerifyFails ==
    ASSUME NEW h, NEW q, NEW s, NEW c, IsHost(h), h.phase = "wait", Verifies(h, q, s, c)
    PROVE  Verifies(Failed(h), q, s, c)
<1>1. h.step \in {"write", "verify"}
  BY DEF Verifies
<1>2. CASE h.step \in Reads /\ h.tries > 0
  <2> DEFINE g == [h EXCEPT !.phase = "ask", !.tries = @ - 1]
  <2>1. Failed(h) = g
    BY <1>2 DEF Failed, Reads, Again
  <2>2. g.step = h.step /\ g.offset = h.offset /\ g.out = h.out /\ g.got = h.got
    BY DEF IsHost, Fields
  <2> HIDE DEF g
  <2> QED BY <2>1, <2>2, VerifiesSame
<1>3. CASE ~(h.step \in Reads /\ h.tries > 0)
  <2> DEFINE g == Ended(h, "error")
  <2>1. Failed(h) = g
    BY <1>1, <1>3 DEF Failed, Reads, SwitchedBack
  <2>2. g.step = h.step /\ g.offset = h.offset /\ g.out = h.out /\ g.got = h.got
    BY EndedParts
  <2> HIDE DEF g
  <2> QED BY <2>1, <2>2, VerifiesSame
<1> QED BY <1>2, <1>3

LEMMA VerifyGoesOn ==
    ASSUME NEW h, NEW q, NEW s, NEW c, IsHost(h), h.job = "write", h.phase = "wait",
           Verifies(h, q, s, c)
    PROVE  Verifies(Succeeded(h), q, s, c)
<1>1. h.step \in {"write", "verify"} /\ h.offset \in Lba
  BY DEF Verifies
<1>2. h.offset \in Nat /\ h.offset \in Int /\ Total \in Nat /\ Chunk \in Nat
  BY <1>1, LinkAssumption DEF Lba
<1>3. CASE h.step = "write"
  <2> DEFINE n == Least(WriteChunk, h.offset)
             g == [h EXCEPT !.offset = @ + n]
             z == [g EXCEPT !.offset = 0]
  <2>1. h.offset + n \in 1..Total
    BY <1>1, NextBatch
  <2>2. Succeeded(h) = IF g.offset < Total THEN Ask(g, "write") ELSE Ask(z, "verify")
    <3>1. g.step = h.step /\ g.job = h.job
      BY DEF IsHost, Fields
    <3> HIDE DEF g, z
    <3>2. Succeeded(h) = BatchWritten(h)
      BY <1>3 DEF Succeeded, Reads
    <3>3. BatchWritten(h) = IF g.offset < Total THEN Ask(g, g.step)
                            ELSE IF g.job = "restore" THEN Ask(g, "flush") ELSE Ask(z, "verify")
      BY <3>1 DEF BatchWritten, g, z
    <3> QED BY <1>3, <3>1, <3>2, <3>3
  <2> HIDE DEF n
  <2>3. n \in Int
    BY <1>1, NextBatch DEF n
  <2>4. IsHost(g) /\ g.offset = h.offset + n /\ g.got = h.got /\ g.out = h.out
    BY <2>3, <1>2 DEF IsHost, Fields
  <2>5. IsHost(z) /\ z.offset = 0 /\ z.got = h.got /\ z.out = h.out
    BY <2>4 DEF IsHost, Fields
  <2> HIDE DEF g, z
  <2>6. Silent(h, s, c) /\ Each("write", q, c)
    BY <1>3 DEF Verifies
  <2>7. CASE g.offset < Total
    <3> DEFINE a == Ask(g, "write")
    <3>1. a.step = "write" /\ a.offset = g.offset /\ a.got = g.got /\ a.out = g.out
      BY <2>4, AskParts
    <3> HIDE DEF a
    <3>2. Silent(a, s, c)
      BY <2>4, <2>6, <3>1 DEF Silent
    <3>3. a.offset \in Lba
      BY <1>2, <2>1, <2>4, <2>7, <3>1 DEF Lba
    <3>4. Verifies(a, q, s, c)
      BY <2>6, <3>1, <3>2, <3>3 DEF Verifies
    <3> QED BY <2>2, <2>7, <3>4 DEF a
  <2>8. CASE ~(g.offset < Total)
    <3> DEFINE a == Ask(z, "verify")
    <3>1. a.step = "verify" /\ a.offset = 0 /\ a.got = z.got /\ a.out = z.out
      BY <2>5, AskParts
    <3> HIDE DEF a
    <3>2. Silent(a, s, c)
      BY <2>5, <2>6, <3>1 DEF Silent
    <3>3. a.offset \in Lba
      BY <3>1, LinkAssumption DEF Lba
    <3>4. q = q \o <<>>
      <4>1. PICK S : q \in Seq(S)
        BY <2>6 DEF Each
      <4> QED BY <4>1, ConcatEmptySeq
    <3>5. Each("read", <<>>, c)
      BY EachEmpty
    <3>6. Early(a, q, s, c)
      BY <2>6, <3>2, <3>4, <3>5 DEF Early
    <3>7. Verifies(a, q, s, c)
      BY <3>1, <3>3, <3>6 DEF Verifies
    <3> QED BY <2>2, <2>8, <3>7 DEF a
  <2> QED BY <2>7, <2>8
<1>4. CASE h.step = "verify"
  <2> DEFINE n == Count(Chunk, h.offset)
             o == h.out \o h.got
             b == Compared(h, n)
             g == [h EXCEPT !.out = o, !.offset = @ + n, !.readback = b]
  <2>1. n \in Nat
    BY <1>2, CountIsNat
  <2>2. Succeeded(h) = IF g.offset < Total THEN Ask(g, "verify") ELSE Ended(g, "done")
    <3>1. g.step = h.step
      BY DEF IsHost, Fields
    <3> HIDE DEF g
    <3>2. Succeeded(h) = ChunkRead(h)
      BY <1>4 DEF Succeeded, Reads
    <3>3. ChunkRead(h) = IF g.offset < Total THEN Ask(g, h.step) ELSE Ended(g, "done")
      BY DEF ChunkRead, g
    <3> QED BY <1>4, <3>2, <3>3
  <2> HIDE DEF n, o, b
  <2>3. IsHost(g) /\ g.step = "verify" /\ g.offset = h.offset + n /\ g.got = h.got /\ g.out = o
    BY <1>2, <1>4, <2>1 DEF IsHost, Fields
  <2> HIDE DEF g
  <2>4. Early(g, q, s, c) \/ Past(g, q, s, c)
    <3>1. CASE Early(h, q, s, c)
      <4>1. h.out = <<>> /\ h.got = <<>>
        BY <3>1 DEF Early, Silent
      <4>2. <<>> \o <<>> = <<>>
        BY EmptySeq, ConcatEmptySeq
      <4>3. o = <<>>
        BY <4>1, <4>2 DEF o
      <4> QED BY <2>3, <3>1, <4>1, <4>3 DEF Early, Silent
    <3>2. CASE Past(h, q, s, c)
      <4>1. Each("true", h.out, c) /\ Each("true", h.got, c)
        BY <3>2 DEF Past
      <4>2. Each("true", o, c)
        BY <4>1, EachConcat DEF o
      <4> QED BY <2>3, <3>2, <4>2 DEF Past
    <3> QED BY <1>4, <3>1, <3>2 DEF Verifies
  <2>5. CASE g.offset < Total
    <3> DEFINE a == Ask(g, "verify")
    <3>1. a.step = "verify" /\ a.offset = g.offset /\ a.got = g.got /\ a.out = g.out
      BY <2>3, AskParts
    <3> HIDE DEF a
    <3>2. a.offset \in Lba
      BY <1>2, <2>1, <2>3, <2>5, <3>1 DEF Lba
    <3>3. Early(a, q, s, c) \/ Past(a, q, s, c)
      BY <2>4, <3>1 DEF Early, Past, Silent
    <3>4. Verifies(a, q, s, c)
      BY <3>1, <3>2, <3>3 DEF Verifies
    <3> QED BY <2>2, <2>5, <3>4 DEF a
  <2>6. CASE ~(g.offset < Total)
    <3> DEFINE a == Ended(g, "done")
    <3>1. a.step = "verify" /\ a.phase = "ended" /\ a.got = g.got /\ a.out = g.out
      BY <2>3, EndedParts
    <3> HIDE DEF a
    <3>2. Early(a, q, s, c) \/ Past(a, q, s, c)
      BY <2>4, <3>1 DEF Early, Past, Silent
    <3>3. Verifies(a, q, s, c)
      BY <3>1, <3>2 DEF Verifies
    <3> QED BY <2>2, <2>6, <3>3 DEF a
  <2> QED BY <2>5, <2>6
<1> QED BY <1>1, <1>3, <1>4

(* A packet is taken, or given up with what its read left of it.            *)
LEMMA VerifyTakes ==
    ASSUME NEW h, NEW q, NEW s, NEW c, IsHost(h), Verifies(h, q, s, c), s # <<>>
    PROVE  Verifies(Taken(h, Head(s)), q, Tail(s), c)
<1> DEFINE p == Head(s)
           d == IF Head(h.expect) = "status" THEN h.got ELSE h.got \o p.data
           g == [h EXCEPT !.expect = Tail(@), !.got = d]
<1>1. Taken(h, p) = g
  BY DEF Taken
<1> HIDE DEF p, d
<1>2. g.step = h.step /\ g.offset = h.offset /\ g.phase = h.phase /\ g.got = d /\ g.out = h.out
  BY DEF IsHost, Fields
<1> HIDE DEF g
<1>3. ASSUME Silent(h, s, c) PROVE Silent(g, Tail(s), c)
  <2>1. Is("silent", p, c) /\ Each("silent", Tail(s), c)
    BY <1>3, EachHeadTail DEF Silent, p
  <2>2. p.data = <<>> /\ h.got = <<>>
    BY <1>3, <2>1 DEF Is, Silent
  <2>3. <<>> \o <<>> = <<>>
    BY EmptySeq, ConcatEmptySeq
  <2>4. d = <<>>
    BY <2>2, <2>3 DEF d
  <2> QED BY <1>2, <1>3, <2>1, <2>4 DEF Silent
<1>4. ASSUME Past(h, q, s, c) PROVE Past(g, q, Tail(s), c)
  <2>1. Is("bears", p, c) /\ Each("bears", Tail(s), c)
    BY <1>4, EachHeadTail DEF Past, p
  <2>2. Each("true", p.data, c)
    <3>1. CASE p.data = <<>>
      <4>1. Each("true", <<>>, c)
        BY EachEmpty
      <4> QED BY <3>1, <4>1
    <3>2. CASE p.data # <<>>
      <4>1. PICK x : p.data = <<x>> /\ IsTrue(x, c)
        BY <2>1, <3>2 DEF Is, Bears
      <4>2. Is("true", x, c)
        BY <4>1 DEF Is
      <4>3. Each("true", <<x>>, c)
        BY <4>2, EachOne
      <4> QED BY <4>1, <4>3
    <3> QED BY <3>1, <3>2
  <2>3. Each("true", d, c)
    BY <1>4, <2>2, EachConcat DEF Past, d
  <2> QED BY <1>2, <1>4, <2>1, <2>3 DEF Past
<1>5. Verifies(g, q, Tail(s), c)
  BY <1>2, <1>3, <1>4 DEF Verifies, Early
<1> QED BY <1>1, <1>5 DEF p

LEMMA VerifyLeaves ==
    ASSUME NEW h, NEW q, NEW s, NEW c, NEW want, Verifies(h, q, s, c), s # <<>>
    PROVE  Verifies(h, q, Behind(want, Head(s)) \o Tail(s), c)
<1> DEFINE p == Head(s)
           x == [p EXCEPT !.kind = "crc", !.data = <<>>]
           b == Behind(want, p)
<1>1. b = <<x>> \/ b = <<>>
  BY DEF Behind
<1> HIDE DEF b
<1>2. "data" \in DOMAIN p => x.data = <<>> /\ "data" \in DOMAIN x
  BY DEF p
<1> HIDE DEF x, p
<1>3. ASSUME NEW kind \in {"silent", "bears"}, Each(kind, s, c)
      PROVE  Each(kind, b \o Tail(s), c)
  <2>1. Is(kind, p, c) /\ Each(kind, Tail(s), c)
    BY <1>3, EachHeadTail DEF p
  <2>2. Is(kind, x, c)
    BY <1>2, <2>1 DEF Is, Bears
  <2>3. Each(kind, b, c)
    BY <1>1, <2>2, EachOne, EachEmpty
  <2> QED BY <2>1, <2>3, EachConcat
<1>4. /\ Each("silent", s, c) => Each("silent", b \o Tail(s), c)
      /\ Each("bears", s, c) => Each("bears", b \o Tail(s), c)
  BY <1>3
<1> DEFINE u == b \o Tail(s)
<1>5. /\ Each("silent", s, c) => Each("silent", u, c)
      /\ Each("bears", s, c) => Each("bears", u, c)
  BY <1>4
<1> HIDE DEF u
<1>6. Verifies(h, q, u, c)
  BY <1>5 DEF Verifies, Early, Past, Silent
<1> QED BY <1>6 DEF u, b, p

(* What a write asks: its batches, then for what it verifies.               *)
VerifyQuestion(h, x) ==
    IF h.step = "write" THEN x.cmd = "write" ELSE IsRead(x)

LEMMA VerifyAsks ==
    ASSUME NEW h, NEW q, NEW s, NEW c, Verifies(h, q, s, c), NEW x, VerifyQuestion(h, x)
    PROVE  Verifies(h, Append(q, x), s, c)
<1> DEFINE u == Append(q, x)
<1>1. CASE h.step = "write"
  <2>1. Is("write", x, c)
    BY <1>1 DEF VerifyQuestion, Is
  <2>2. Each("write", u, c)
    BY <1>1, <2>1, EachAppend DEF Verifies
  <2> HIDE DEF u
  <2>3. Verifies(h, u, s, c)
    BY <1>1, <2>2 DEF Verifies
  <2> QED BY <2>3 DEF u
<1>2. CASE h.step = "verify"
  <2>1. Is("read", x, c)
    BY <1>2 DEF VerifyQuestion, Is
  <2>2. ASSUME Past(h, q, s, c) PROVE Past(h, u, s, c)
    <3>1. Each("read", u, c)
      BY <2>1, <2>2, EachAppend DEF Past
    <3> HIDE DEF u
    <3> QED BY <2>2, <3>1 DEF Past
  <2>3. ASSUME Early(h, q, s, c) PROVE Early(h, u, s, c)
    <3>1. PICK w, r : q = w \o r /\ Each("write", w, c) /\ Each("read", r, c)
      BY <2>3 DEF Early
    <3> DEFINE v == Append(r, x)
    <3>2. Each("read", v, c)
      BY <2>1, <3>1, EachAppend
    <3>3. u = w \o v
      <4>1. PICK W : w \in Seq(W)
        BY <3>1 DEF Each
      <4>2. PICK R : r \in Seq(R)
        BY <3>1 DEF Each
      <4> DEFINE S == W \cup R \cup {x}
      <4>3. w \in Seq(S) /\ r \in Seq(S) /\ x \in S
        BY <4>1, <4>2, SeqMonotonic
      <4> HIDE DEF S
      <4>4. Append(w \o r, x) = w \o Append(r, x)
        <5>1. Append(w \o r, x) = (w \o r) \o <<x>> /\ Append(r, x) = r \o <<x>>
          BY <4>3, ConcatProperties, AppendIsConcat
        <5>2. <<x>> \in Seq(S)
          BY <4>3
        <5>3. (w \o r) \o <<x>> = w \o (r \o <<x>>)
          BY <4>3, <5>2, ConcatAssociative
        <5> QED BY <5>1, <5>3
      <4> QED BY <3>1, <4>4
    <3> HIDE DEF u, v
    <3> QED BY <2>3, <3>1, <3>2, <3>3 DEF Early
  <2> HIDE DEF u
  <2>4. Verifies(h, u, s, c)
    BY <1>2, <2>2, <2>3 DEF Verifies
  <2> QED BY <2>4 DEF u
<1> QED BY <1>1, <1>2 DEF Verifies

LEMMA VerifyAsked ==
    ASSUME NEW h, NEW q, NEW s, NEW c, IsHost(h), h.job = "write", h.phase = "ask",
           Verifies(h, q, s, c)
    PROVE  LET x == Question(h.step, h.offset)
               y == [x EXCEPT !.good = FALSE]
           IN  /\ Verifies(Asked(h), q, s, c)
               /\ ~(h.step \in Reads /\ x.n = 0) =>
                     /\ Asked(h).step = h.step
                     /\ VerifyQuestion(h, x) /\ VerifyQuestion(h, y)
<1> DEFINE expect == Expected(h.step, h.offset)
           g == [h EXCEPT !.phase = "wait", !.got = <<>>, !.expect = expect]
           x == Question(h.step, h.offset)
           y == [x EXCEPT !.good = FALSE]
<1>1. h.step \in {"write", "verify"} /\ h.offset \in Lba /\ h.offset \in Int
  BY DEF Verifies, IsHost
<1>2. Asked(h) = IF expect = <<>> THEN Succeeded(g) ELSE g
  <2>1. g.expect = expect
    BY DEF IsHost, Fields
  <2> QED BY <2>1 DEF Asked
<1> HIDE DEF expect
<1>3. /\ g.step = h.step /\ g.offset = h.offset /\ g.phase = "wait" /\ g.job = "write"
      /\ g.got = <<>> /\ g.out = h.out /\ g.expect = expect /\ DOMAIN g = Fields
  BY DEF IsHost, Fields
<1> HIDE DEF g
<1>4. Verifies(g, q, s, c)
  <2>1. Each("true", <<>>, c)
    BY EachEmpty
  <2> QED BY <1>3, <2>1 DEF Verifies, Early, Past, Silent
<1>5. CASE h.step = "write"
  <2> DEFINE n == Least(WriteChunk, h.offset)
             data == Tags(New, h.offset, n)
  <2>1. x = Command("write", h.offset, n, data)
    BY <1>5 DEF Question, Reads
  <2>2. expect = <<"status">>
    BY <1>5 DEF Expected, Reads, expect
  <2> HIDE DEF n, data, x
  <2>3. x.cmd = "write" /\ y.cmd = "write"
    BY <2>1 DEF Command
  <2> HIDE DEF y
  <2>4. Asked(h) = g
    BY <1>2, <2>2
  <2> QED BY <1>3, <1>4, <1>5, <2>3, <2>4 DEF VerifyQuestion, x, y
<1>6. CASE h.step = "verify"
  <2> DEFINE n == Count(Chunk, h.offset)
  <2>1. n \in Nat /\ h.offset + n <= Total
    BY <1>1, CountIsDue, LinkAssumption DEF Lba
  <2>2. x = Command("read", h.offset, n, <<>>) /\ expect = read_sectors(n)
    BY <1>1, <1>6, ReadQuestion DEF Reads, expect
  <2> HIDE DEF n, x
  <2>3. /\ x.cmd = "read" /\ x.lba = h.offset /\ x.n = n
        /\ y.cmd = "read" /\ y.lba = h.offset /\ y.n = n
    BY <2>2 DEF Command
  <2> HIDE DEF y
  <2>4. IsRead(x) /\ IsRead(y)
    BY <1>1, <2>1, <2>3 DEF IsRead
  <2>5. CASE n = 0
    <3>1. Asked(h) = Succeeded(g)
      BY <1>2, <2>1, <2>2, <2>5, ReadExpects
    <3>2. IsHost(g)
      <4>1. expect \in Seq(Wants)
        BY <2>1, <2>2, ReadExpects
      <4> QED BY <1>1, <1>3, <4>1 DEF IsHost, StepNames
    <3>3. Verifies(Asked(h), q, s, c)
      BY <1>3, <1>4, <3>1, <3>2, VerifyGoesOn
    <3> QED BY <1>6, <2>3, <2>5, <3>3 DEF x, y, Reads
  <2>6. CASE n # 0
    <3>1. expect # <<>>
      BY <2>1, <2>2, <2>6, ReadLength
    <3>2. Asked(h) = g
      BY <1>2, <3>1
    <3> QED BY <1>3, <1>4, <1>6, <2>4, <3>2 DEF VerifyQuestion, x, y
  <2> QED BY <2>5, <2>6
<1> QED BY <1>1, <1>5, <1>6

(* A command the reader has answered.                                       *)
LEMMA ReaderAnswers ==
    ASSUME Reader
    PROVE  LET x == Head(toReader)
           IN  /\ x.cmd = "write" /\ Each("silent", toHost, card) => Each("silent", toHost', card)
               /\ IsRead(x) /\ Own(card) /\ Each("bears", toHost, card)
                     => card' = card /\ Each("bears", toHost', card)
<1> DEFINE x == Head(toReader)
           p == Packet("emmc", <<>>)
           r == Packet("crc", <<>>)
           o == Packet(OK, <<>>)
<1>1. \/ /\ x.good /\ card' = Stored(x)
         /\ \/ toHost' = toHost \o Answer(x)
            \/ \E packets \in Damaged(Answer(x)) : toHost' = toHost \o packets
      \/ card' = card /\ toHost' = Append(toHost, p)
      \/ /\ card' = StoredGarbled(x)
         /\ \/ toHost' = toHost \o <<r>> \o <<o>>
            \/ toHost' = toHost \o <<r>> \o <<>>
  BY DEF Reader
<1>2. ASSUME NEW kind \in {"silent", "bears"}
      PROVE  Is(kind, p, card) /\ Is(kind, r, card) /\ Is(kind, o, card)
  BY DEF Is, Bears, Packet
<1> HIDE DEF x, p, r, o
<1>3. ASSUME NEW kind \in {"silent", "bears"}, Each(kind, toHost, card),
             Each(kind, Answer(x), card)
      PROVE  Each(kind, toHost', card)
  <2>1. Is(kind, p, card) /\ Is(kind, r, card) /\ Is(kind, o, card)
    BY <1>2
  <2>2. Each(kind, <<r>>, card) /\ Each(kind, <<o>>, card) /\ Each(kind, <<>>, card)
    BY <2>1, EachOne, EachEmpty
  <2>3. CASE toHost' = toHost \o Answer(x)
    BY <1>3, <2>3, EachConcat
  <2>4. CASE \E packets \in Damaged(Answer(x)) : toHost' = toHost \o packets
    <3>1. PICK packets \in Damaged(Answer(x)) : toHost' = toHost \o packets
      BY <2>4
    <3>2. Each(kind, packets, card)
      BY <1>3, DamagedEach
    <3> QED BY <1>3, <3>1, <3>2, EachConcat
  <2>5. CASE toHost' = Append(toHost, p)
    BY <1>3, <2>1, <2>5, EachAppend
  <2>6. CASE toHost' = toHost \o <<r>> \o <<o>> \/ toHost' = toHost \o <<r>> \o <<>>
    <3> DEFINE t == toHost \o <<r>>
    <3>1. Each(kind, t, card)
      BY <1>3, <2>2, EachConcat
    <3>2. toHost' = t \o <<o>> \/ toHost' = t \o <<>>
      BY <2>6
    <3> HIDE DEF t
    <3>3. Each(kind, t \o <<o>>, card) /\ Each(kind, t \o <<>>, card)
      BY <2>2, <3>1, EachConcat
    <3> QED BY <3>2, <3>3
  <2> QED BY <1>1, <2>3, <2>4, <2>5, <2>6
<1>4. ASSUME x.cmd = "write", Each("silent", toHost, card) PROVE Each("silent", toHost', card)
  <2>1. Each("silent", Answer(x), card)
    BY <1>4, AnswerToWrite
  <2> QED BY <1>3, <1>4, <2>1
<1>5. ASSUME IsRead(x), Own(card), Each("bears", toHost, card)
      PROVE  card' = card /\ Each("bears", toHost', card)
  <2>1. Each("bears", Answer(x), card)
    BY <1>5, AnswerBears
  <2>2. x.cmd = "read"
    BY <1>5 DEF IsRead
  <2>3. card' = card
    BY <1>1, <2>2 DEF Stored, StoredGarbled
  <2> QED BY <1>3, <1>5, <2>1, <2>3
<1> QED BY <1>4, <1>5 DEF x

LEMMA StartVerify == Start => VerifyInv'
<1> SUFFICES ASSUME Start, fresh', host'.job = "write"
    PROVE  Verifies(host', toReader', toHost', card')
  BY DEF VerifyInv
<1>1. /\ host'.step = "write" /\ host'.offset = 0 /\ host'.got = <<>> /\ host'.out = <<>>
  BY StartParts DEF FirstStep
<1>2. toHost' = <<>> /\ toReader' = <<>>
  BY DEF Start
<1>3. Each("silent", <<>>, card') /\ Each("write", <<>>, card')
  BY EachEmpty
<1>4. 0 \in Lba
  BY LinkAssumption DEF Lba
<1> QED BY <1>1, <1>2, <1>3, <1>4 DEF Verifies, Silent

LEMMA SendVerify == LinkInv /\ VerifyInv /\ send_command => VerifyInv'
<1> SUFFICES ASSUME LinkInv, VerifyInv, send_command, fresh', host'.job = "write"
    PROVE  Verifies(host', toReader', toHost', card')
  BY DEF VerifyInv
<1> DEFINE x == Question(host.step, host.offset)
           y == [x EXCEPT !.good = FALSE]
           none == host.step \in Reads /\ x.n = 0
<1>1. /\ IsHost(host) /\ host.phase = "ask" /\ host' = Asked(host) /\ fresh' = fresh
      /\ toHost' = toHost /\ card' = card
      /\ toReader' \in {toReader, Append(toReader, x), Append(toReader, y)}
      /\ none => toReader' = toReader
  BY DEF send_command, LinkInv
<1>2. host.job = "write"
  BY <1>1, AskedFollows DEF Follows
<1>3. Verifies(host, toReader, toHost, card)
  BY <1>1, <1>2 DEF VerifyInv
<1>4. /\ Verifies(host', toReader, toHost, card)
      /\ ~none => /\ host'.step = host.step
                  /\ VerifyQuestion(host, x) /\ VerifyQuestion(host, y)
  BY <1>1, <1>2, <1>3, VerifyAsked
<1> HIDE DEF x, y, none
<1>5. CASE toReader' = toReader
  BY <1>1, <1>4, <1>5
<1>6. CASE toReader' # toReader
  <2>1. VerifyQuestion(host', x) /\ VerifyQuestion(host', y)
    BY <1>1, <1>4, <1>6 DEF VerifyQuestion
  <2>2. /\ Verifies(host', Append(toReader, x), toHost, card)
        /\ Verifies(host', Append(toReader, y), toHost, card)
    BY <1>4, <2>1, VerifyAsks
  <2> QED BY <1>1, <1>6, <2>2
<1> QED BY <1>5, <1>6

LEMMA CancelVerify == LinkInv /\ VerifyInv /\ Cancel => VerifyInv'
<1> SUFFICES ASSUME LinkInv, VerifyInv, Cancel, fresh', host'.job = "write" PROVE FALSE
  BY DEF VerifyInv
<1>1. IsHost(host) /\ fresh
  BY DEF LinkInv, Cancel
<1>2. CASE host.job = "dump" /\ host' = Ended(host, "error")
  BY <1>1, <1>2, EndedParts
<1>3. CASE host.step = "recv" /\ host' = [host EXCEPT !.result = "error"]
  <2>1. host'.job = host.job
    BY <1>1, <1>3 DEF IsHost, Fields
  <2> QED BY <1>1, <1>3, <2>1 DEF VerifyInv, Verifies
<1> QED BY <1>2, <1>3 DEF Cancel

(* An exchange that fails ends the write, or is made again.                 *)
LEMMA GiveUpVerify ==
    ASSUME LinkInv, VerifyInv, host.phase = "wait", card' = card, toReader' = toReader,
           fresh' = fresh, NEW left, toHost' = left,
           fresh /\ host.job = "write" => Verifies(host, toReader, left, card),
           GiveUp(left) \/ (Draining /\ Drained(left))
    PROVE  VerifyInv'
<1> SUFFICES ASSUME fresh', host'.job = "write"
    PROVE  Verifies(host', toReader', toHost', card')
  BY DEF VerifyInv
<1>1. IsHost(host) /\ host.step \in StepNames \ {"send"}
  BY DEF LinkInv, IsHost
<1>2. CASE GiveUp(left)
  <2>1. host' = Failed(host)
    BY <1>2 DEF GiveUp
  <2>2. host.job = "write"
    BY <1>1, <2>1, FailedFollows DEF Follows
  <2>3. Verifies(host, toReader, left, card)
    BY <2>2
  <2>4. Verifies(host', toReader, left, card)
    BY <1>1, <2>1, <2>3, VerifyFails
  <2> QED BY <2>4
<1>3. CASE Draining /\ Drained(left)
  <2>1. host' = Ask(host, "flush") /\ host.step = "recv"
    BY <1>3 DEF Drained, Draining
  <2>2. host.job = "write"
    BY <1>1, <2>1, AskParts
  <2> QED BY <2>1, <2>2 DEF Verifies
<1> QED BY <1>2, <1>3

LEMMA RecvVerify == LinkInv /\ VerifyInv /\ recv_response => VerifyInv'
<1> SUFFICES ASSUME LinkInv, VerifyInv, recv_response PROVE VerifyInv'
  OBVIOUS
<1> DEFINE want   == Head(host.expect)
           packet == Head(toHost)
           taken  == Taken(host, packet)
           left   == Behind(want, packet) \o Tail(toHost)
<1>1. /\ host.phase = "wait" /\ toHost # <<>> /\ toReader' = toReader /\ toHost' = left
      /\ IsHost(host) /\ host.step \in StepNames \ {"send"} /\ host.expect # <<>>
      /\ host.expect \in Seq(Wants) /\ card' = card /\ fresh' = fresh
  BY DEF recv_response, LinkInv, IsHost
<1>2. CASE GiveUp(left) \/ (Draining /\ Drained(left))
  <2>1. fresh /\ host.job = "write" => Verifies(host, toReader, left, card)
    BY <1>1, VerifyLeaves DEF VerifyInv
  <2> HIDE DEF left
  <2> QED BY <1>1, <1>2, <2>1, GiveUpVerify
<1>3. CASE /\ ~Draining /\ Accepts(want, packet)
           /\ host' = IF taken.expect = <<>> THEN Succeeded(taken) ELSE taken
  <2> SUFFICES ASSUME fresh', host'.job = "write"
      PROVE  Verifies(host', toReader', toHost', card')
    BY DEF VerifyInv
  <2>1. Tail(host.expect) \in Seq(Wants)
    BY <1>1, HeadTailProperties
  <2>2. IsHost(taken) /\ taken.job = host.job /\ taken.phase = "wait" /\ taken.step = host.step
    BY <1>1, <2>1 DEF Taken, IsHost, Fields
  <2>3. Behind(want, packet) = <<>>
    BY <1>3 DEF Accepts, Behind
  <2> HIDE DEF taken
  <2>4. host.job = "write"
    BY <1>1, <1>3, <2>2, SucceededFollows DEF Follows
  <2>5. Verifies(host, toReader, toHost, card)
    BY <1>1, <2>4 DEF VerifyInv
  <2>6. Verifies(taken, toReader, Tail(toHost), card)
    BY <1>1, <2>5, VerifyTakes DEF taken
  <2>7. toHost' = Tail(toHost)
    <3>1. \E S : toHost \in Seq(S)
      BY <2>5 DEF Verifies, Early, Past, Silent, Each
    <3>2. PICK S : toHost \in Seq(S)
      BY <3>1
    <3>3. Tail(toHost) \in Seq(S)
      BY <1>1, <3>2, HeadTailProperties
    <3> QED BY <1>1, <2>3, <3>3, ConcatEmptySeq
  <2>8. Verifies(Succeeded(taken), toReader, Tail(toHost), card)
    BY <2>2, <2>4, <2>6, VerifyGoesOn
  <2>9. Verifies(host', toReader, Tail(toHost), card)
    BY <1>3, <2>6, <2>8
  <2> QED BY <1>1, <2>7, <2>9
<1> QED BY <1>2, <1>3 DEF recv_response

LEMMA TimeoutVerify == LinkInv /\ VerifyInv /\ Timeout => VerifyInv'
<1> SUFFICES ASSUME LinkInv, VerifyInv, Timeout PROVE VerifyInv'
  OBVIOUS
<1>1. /\ host.phase = "wait" /\ card' = card /\ toReader' = toReader /\ fresh' = fresh
      /\ toHost' = <<>> /\ toHost = <<>>
      /\ GiveUp(<<>>) \/ (Draining /\ Drained(<<>>))
  BY DEF Timeout
<1>2. fresh /\ host.job = "write" => Verifies(host, toReader, <<>>, card)
  BY <1>1 DEF VerifyInv
<1> QED BY <1>1, <1>2, GiveUpVerify

LEMMA ReaderVerify == OwnInv /\ VerifyInv /\ Reader => VerifyInv'
<1> SUFFICES ASSUME OwnInv, VerifyInv, Reader, fresh', host'.job = "write"
    PROVE  Verifies(host', toReader', toHost', card')
  BY DEF VerifyInv
<1> DEFINE x == Head(toReader)
<1>1. toReader # <<>> /\ toReader' = Tail(toReader) /\ host' = host /\ fresh
  BY DEF Reader
<1>2. Verifies(host, toReader, toHost, card)
  BY <1>1 DEF VerifyInv
<1>3. /\ x.cmd = "write" /\ Each("silent", toHost, card) => Each("silent", toHost', card')
      /\ IsRead(x) /\ Each("bears", toHost, card)
            => card' = card /\ Each("bears", toHost', card)
  <2>1. /\ x.cmd = "write" /\ Each("silent", toHost, card) => Each("silent", toHost', card)
        /\ IsRead(x) /\ Own(card) /\ Each("bears", toHost, card)
              => card' = card /\ Each("bears", toHost', card)
    BY ReaderAnswers
  <2>2. Each("silent", toHost', card) => Each("silent", toHost', card')
    BY EachAnyCard
  <2> HIDE DEF x
  <2> QED BY <2>1, <2>2 DEF OwnInv
<1> HIDE DEF x
<1>4. ASSUME Each("read", toReader, card), Each("bears", toHost, card),
             Each("true", host.got, card), Each("true", host.out, card)
      PROVE  Past(host', toReader', toHost', card')
  <2>1. Is("read", x, card) /\ Each("read", Tail(toReader), card)
    BY <1>1, <1>4, EachHeadTail DEF x
  <2>2. IsRead(x)
    BY <2>1 DEF Is
  <2>3. card' = card /\ Each("bears", toHost', card)
    BY <1>3, <1>4, <2>2
  <2> QED BY <1>1, <1>4, <2>1, <2>3 DEF Past
<1>5. CASE host.step = "write"
  <2>1. Silent(host, toHost, card) /\ Each("write", toReader, card)
    BY <1>2, <1>5 DEF Verifies
  <2>2. Is("write", x, card) /\ Each("write", Tail(toReader), card)
    BY <1>1, <2>1, EachHeadTail DEF x
  <2>3. Each("silent", toHost', card')
    BY <1>3, <2>1, <2>2 DEF Is, Silent
  <2>4. Each("write", Tail(toReader), card')
    BY <2>2, EachAnyCard
  <2>5. Silent(host', toHost', card') /\ Each("write", toReader', card')
    BY <1>1, <2>1, <2>3, <2>4 DEF Silent
  <2> QED BY <1>1, <1>2, <1>5, <2>5 DEF Verifies
<1>6. CASE host.step = "verify"
  <2>1. CASE Past(host, toReader, toHost, card)
    <3>1. Past(host', toReader', toHost', card')
      BY <1>4, <2>1 DEF Past
    <3> QED BY <1>1, <1>2, <1>6, <3>1 DEF Verifies
  <2>2. CASE Early(host, toReader, toHost, card)
    <3>1. Silent(host, toHost, card)
      BY <2>2 DEF Early
    <3>2. PICK w, r : toReader = w \o r /\ Each("write", w, card) /\ Each("read", r, card)
      BY <2>2 DEF Early
    <3>3. PICK W, R : w \in Seq(W) /\ r \in Seq(R)
      BY <3>2 DEF Each
    <3> DEFINE S == W \cup R
    <3>4. w \in Seq(S) /\ r \in Seq(S)
      BY <3>3, SeqMonotonic
    <3> HIDE DEF S
    <3>5. CASE w = <<>>
      <4>1. toReader = r
        BY <3>2, <3>4, <3>5, ConcatEmptySeq
      <4>2. Each("bears", toHost, card) /\ Each("true", <<>>, card)
        BY <3>1, SilentBears, EachEmpty DEF Silent
      <4>3. host.got = <<>> /\ host.out = <<>>
        BY <3>1 DEF Silent
      <4>4. Past(host', toReader', toHost', card')
        BY <1>4, <3>2, <4>1, <4>2, <4>3
      <4> QED BY <1>1, <1>2, <1>6, <4>4 DEF Verifies
    <3>6. CASE w # <<>>
      <4>1. Is("write", Head(w), card) /\ Each("write", Tail(w), card)
        BY <3>2, <3>6, EachHeadTail
      <4>2. x = Head(w) /\ toReader' = Tail(w) \o r
        <5>1. Head(w \o r) = Head(w) /\ Tail(w \o r) = Tail(w) \o r
          BY <3>4, <3>6, ConcatProperties
        <5> QED BY <1>1, <3>2, <5>1 DEF x
      <4>3. Each("silent", toHost', card')
        BY <1>3, <3>1, <4>1, <4>2 DEF Is, Silent
      <4> DEFINE u == Tail(w)
      <4>4. Each("write", u, card') /\ Each("read", r, card')
        BY <3>2, <4>1, EachAnyCard
      <4>5. toReader' = u \o r
        BY <4>2
      <4> HIDE DEF u
      <4>6. Early(host', toReader', toHost', card')
        BY <1>1, <3>1, <4>3, <4>4, <4>5 DEF Early, Silent
      <4> QED BY <1>1, <1>2, <1>6, <4>6 DEF Verifies
    <3> QED BY <3>5, <3>6
  <2> QED BY <1>2, <1>6, <2>1, <2>2 DEF Verifies
<1> QED BY <1>2, <1>5, <1>6 DEF Verifies

THEOREM VerifyInvHolds == Spec => []VerifyInv
<1>1. Init => VerifyInv
  BY DEF Init, VerifyInv, Idle
<1>2. LinkInv /\ OwnInv /\ VerifyInv /\ [Next]_vars => VerifyInv'
  <2> SUFFICES ASSUME LinkInv, OwnInv, VerifyInv, [Next]_vars PROVE VerifyInv'
    OBVIOUS
  <2>1. CASE UNCHANGED vars
    BY <2>1 DEF vars, VerifyInv
  <2>2. CASE Next
    BY <2>2, StartVerify, SendVerify, CancelVerify, RecvVerify, TimeoutVerify, ReaderVerify
       DEF Next
  <2> QED BY <2>1, <2>2
<1> QED BY <1>1, <1>2, LinkInvHolds, OwnInvHolds, PTL DEF Spec

(* How far a verification without a difference, and without a sector that   *)
(* did not come, has got: the sectors read back are those to be written.    *)
Compares(h) ==
    /\ h.step \in {"write", "verify"} /\ h.offset \in 0..Total
    /\ h.phase \in {"ask", "wait"} => h.offset \in Lba
    /\ h.step = "write" => h.out = <<>>
    /\ h.step = "verify" /\ h.readback = "same" => h.out = Tags(New, 0, h.offset)
    /\ h.phase # "ended" => h.result # "done"
    /\ h.phase = "ended" /\ h.result = "done" => h.step = "verify" /\ h.offset = Total
CompareInv == host.job = "write" => Compares(host)

LEMMA JoinTags ==
    ASSUME NEW a \in Nat, NEW n \in Nat
    PROVE  /\ Tags(New, 0, a) \o Tags(New, a, n) = Tags(New, 0, a + n)
           /\ Tags(New, 0, 0) = <<>>
<1> DEFINE c == [l \in Int |-> New(l)]
<1>1. ASSUME NEW from \in Int, NEW k \in Nat
      PROVE  Tags(New, from, k) = Copied(c, from, k)
  <2>1. \A i \in 1..k : from + i - 1 \in Int
    OBVIOUS
  <2>2. \A i \in 1..k : c[from + i - 1] = New(from + i - 1)
    BY <2>1
  <2> HIDE DEF c
  <2> QED BY <2>2 DEF Tags, Copied
<1> HIDE DEF c
<1>2. 0 \in Int /\ 0 \in Nat /\ a \in Int /\ 0 + a = a /\ a + n \in Nat
  OBVIOUS
<1>3. Copied(c, 0, a) \o Copied(c, 0 + a, n) = Copied(c, 0, a + n)
  BY <1>2, JoinCopies
<1>4. /\ Tags(New, 0, a) = Copied(c, 0, a) /\ Tags(New, a, n) = Copied(c, a, n)
      /\ Tags(New, 0, a + n) = Copied(c, 0, a + n) /\ Tags(New, 0, 0) = Copied(c, 0, 0)
  BY <1>1, <1>2
<1>5. Copied(c, 0, 0) = <<>>
  BY <1>2, CopiedSeq
<1> QED BY <1>2, <1>3, <1>4, <1>5

LEMMA CompareSame ==
    ASSUME NEW h, NEW g, Compares(h), h.phase # "ended", g.step = h.step, g.offset = h.offset,
           g.out = h.out, g.readback = h.readback,
           h.phase \in {"ask", "wait"} \/ g.phase = "ended",
           IF g.phase = "ended" THEN g.result # "done" ELSE g.result = h.result
    PROVE  Compares(g)
BY DEF Compares

(* A chunk that is compared: what differs, or did not come, is remembered.  *)
LEMMA CompareChunk ==
    ASSUME NEW h, IsHost(h), h.phase = "wait", h.step = "verify", Compares(h)
    PROVE  Compares(Succeeded(h))
<1> DEFINE n == Count(Chunk, h.offset)
           o == h.out \o h.got
           b == Compared(h, n)
           g == [h EXCEPT !.out = o, !.offset = @ + n, !.readback = b]
<1>1. h.offset \in Lba /\ h.offset \in 0..Total /\ h.offset \in Nat /\ h.result # "done"
      /\ Total \in Nat
  BY LinkAssumption DEF Compares, Lba
<1>2. n \in Nat /\ h.offset + n <= Total
  BY <1>1, CountIsDue
<1>3. Succeeded(h) = IF g.offset < Total THEN Ask(g, "verify") ELSE Ended(g, "done")
  <2>1. g.step = h.step
    BY DEF IsHost, Fields
  <2> HIDE DEF g
  <2>2. Succeeded(h) = ChunkRead(h)
    BY DEF Succeeded, Reads
  <2>3. ChunkRead(h) = IF g.offset < Total THEN Ask(g, h.step) ELSE Ended(g, "done")
    BY DEF ChunkRead, g
  <2> QED BY <2>1, <2>2, <2>3
<1>4. b = "same" => h.readback = "same" /\ h.got = Tags(New, h.offset, n)
  <2> HIDE DEF n
  <2> QED BY DEF Compared, b
<1> HIDE DEF n, o, b
<1>5. /\ IsHost(g) /\ g.step = "verify" /\ g.offset = h.offset + n /\ g.out = o
      /\ g.readback = b /\ g.result = h.result
  BY <1>1, <1>2 DEF IsHost, Fields
<1> HIDE DEF g
<1>6. g.readback = "same" => g.out = Tags(New, 0, g.offset)
  <2>1. CASE b = "same"
    <3>1. h.out = Tags(New, 0, h.offset)
      BY <1>4, <2>1 DEF Compares
    <3>2. Tags(New, 0, h.offset) \o Tags(New, h.offset, n) = Tags(New, 0, h.offset + n)
      BY <1>1, <1>2, JoinTags
    <3> QED BY <1>4, <1>5, <2>1, <3>1, <3>2 DEF o
  <2> QED BY <1>5, <2>1
<1>7. CASE g.offset < Total
  <2> DEFINE a == Ask(g, "verify")
  <2>1. /\ a.phase = "ask" /\ a.step = "verify" /\ a.offset = g.offset /\ a.out = g.out
        /\ a.readback = g.readback /\ a.result = g.result
    BY <1>5, AskParts
  <2> HIDE DEF a
  <2>2. a.offset \in Lba /\ a.offset \in 0..Total
    BY <1>1, <1>2, <1>5, <1>7, <2>1 DEF Lba
  <2>3. Compares(a)
    BY <1>1, <1>5, <1>6, <2>1, <2>2 DEF Compares
  <2> QED BY <1>3, <1>7, <2>3 DEF a
<1>8. CASE ~(g.offset < Total)
  <2> DEFINE a == Ended(g, "done")
  <2>1. /\ a.phase = "ended" /\ a.step = "verify" /\ a.offset = g.offset /\ a.out = g.out
        /\ a.readback = g.readback
    BY <1>5, EndedParts
  <2> HIDE DEF a
  <2>2. a.offset = Total /\ a.offset \in 0..Total
    BY <1>1, <1>2, <1>5, <1>8, <2>1
  <2>3. Compares(a)
    BY <1>6, <2>1, <2>2 DEF Compares
  <2> QED BY <1>3, <1>8, <2>3 DEF a
<1> QED BY <1>7, <1>8

(* A batch that is written, and the verification behind the last one.       *)
LEMMA CompareBatch ==
    ASSUME NEW h, IsHost(h), h.job = "write", h.phase = "wait", h.step = "write", Compares(h)
    PROVE  Compares(Succeeded(h))
<1> DEFINE n == Least(WriteChunk, h.offset)
           g == [h EXCEPT !.offset = @ + n]
           z == [g EXCEPT !.offset = 0]
<1>1. h.offset \in Lba /\ h.offset \in Int /\ h.result # "done" /\ h.out = <<>>
      /\ Total \in Nat \ {0}
  BY LinkAssumption DEF Compares, Lba
<1>2. h.offset + n \in 1..Total /\ n \in Int
  BY <1>1, NextBatch
<1>3. Succeeded(h) = IF g.offset < Total THEN Ask(g, "write") ELSE Ask(z, "verify")
  <2>1. g.step = h.step /\ g.job = h.job
    BY DEF IsHost, Fields
  <2> HIDE DEF g, z
  <2>2. Succeeded(h) = BatchWritten(h)
    BY DEF Succeeded, Reads
  <2>3. BatchWritten(h) = IF g.offset < Total THEN Ask(g, g.step)
                          ELSE IF g.job = "restore" THEN Ask(g, "flush") ELSE Ask(z, "verify")
    BY <2>1 DEF BatchWritten, g, z
  <2> QED BY <2>1, <2>2, <2>3
<1> HIDE DEF n
<1>4. IsHost(g) /\ g.offset = h.offset + n /\ g.out = h.out /\ g.result = h.result
  BY <1>1, <1>2 DEF IsHost, Fields
<1>5. IsHost(z) /\ z.offset = 0 /\ z.out = h.out /\ z.result = h.result
  BY <1>4 DEF IsHost, Fields
<1> HIDE DEF g, z
<1>6. CASE g.offset < Total
  <2> DEFINE a == Ask(g, "write")
  <2>1. /\ a.phase = "ask" /\ a.step = "write" /\ a.offset = g.offset /\ a.out = g.out
        /\ a.result = g.result
    BY <1>4, AskParts
  <2> HIDE DEF a
  <2>2. a.offset \in Lba /\ a.offset \in 0..Total
    BY <1>1, <1>2, <1>4, <1>6, <2>1 DEF Lba
  <2>3. Compares(a)
    BY <1>1, <1>4, <2>1, <2>2 DEF Compares
  <2> QED BY <1>3, <1>6, <2>3 DEF a
<1>7. CASE ~(g.offset < Total)
  <2> DEFINE a == Ask(z, "verify")
  <2>1. /\ a.phase = "ask" /\ a.step = "verify" /\ a.offset = 0 /\ a.out = z.out
        /\ a.result = z.result
    BY <1>5, AskParts
  <2> HIDE DEF a
  <2>2. a.offset \in Lba /\ a.offset \in 0..Total
    BY <1>1, <2>1 DEF Lba
  <2>3. a.out = Tags(New, 0, a.offset)
    <3>1. Tags(New, 0, 0) = <<>>
      BY JoinTags
    <3> QED BY <1>1, <1>5, <2>1, <3>1
  <2>4. Compares(a)
    BY <1>1, <1>5, <2>1, <2>2, <2>3 DEF Compares
  <2> QED BY <1>3, <1>7, <2>4 DEF a
<1> QED BY <1>6, <1>7

LEMMA CompareGoesOn ==
    ASSUME NEW h, IsHost(h), h.job = "write", h.phase = "wait", Compares(h)
    PROVE  Compares(Succeeded(h))
BY CompareChunk, CompareBatch DEF Compares

LEMMA CompareFails ==
    ASSUME NEW h, IsHost(h), h.phase = "wait", Compares(h)
    PROVE  Compares(Failed(h))
<1>1. h.step \in {"write", "verify"}
  BY DEF Compares
<1>2. CASE h.step \in Reads /\ h.tries > 0
  <2> DEFINE g == [h EXCEPT !.phase = "ask", !.tries = @ - 1]
  <2>1. Failed(h) = g
    BY <1>2 DEF Failed, Reads, Again
  <2>2. /\ g.step = h.step /\ g.offset = h.offset /\ g.out = h.out /\ g.phase = "ask"
        /\ g.readback = h.readback /\ g.result = h.result
    BY DEF IsHost, Fields
  <2> HIDE DEF g
  <2> QED BY <2>1, <2>2, CompareSame
<1>3. CASE ~(h.step \in Reads /\ h.tries > 0)
  <2> DEFINE g == Ended(h, "error")
  <2>1. Failed(h) = g
    BY <1>1, <1>3 DEF Failed, Reads, SwitchedBack
  <2>2. /\ g.step = h.step /\ g.offset = h.offset /\ g.out = h.out /\ g.phase = "ended"
        /\ g.readback = h.readback /\ g.result = "error"
    BY EndedParts
  <2> HIDE DEF g
  <2> QED BY <2>1, <2>2, CompareSame
<1> QED BY <1>2, <1>3

LEMMA StartCompare == Start => CompareInv'
<1> SUFFICES ASSUME Start, host'.job = "write" PROVE Compares(host')
  BY DEF CompareInv
<1>1. /\ host'.step = "write" /\ host'.offset = 0 /\ host'.out = <<>>
      /\ host'.phase = "ask" /\ host'.result = "none"
  BY StartParts DEF FirstStep
<1> QED BY <1>1, LinkAssumption DEF Compares, Lba

LEMMA SendCompare == LinkInv /\ CompareInv /\ send_command => CompareInv'
<1> SUFFICES ASSUME LinkInv, CompareInv, send_command, host'.job = "write"
    PROVE  Compares(host')
  BY DEF CompareInv
<1> DEFINE expect == Expected(host.step, host.offset)
           g == [host EXCEPT !.phase = "wait", !.got = <<>>, !.expect = expect]
<1>1. IsHost(host) /\ host.phase = "ask" /\ host' = Asked(host)
  BY DEF send_command, LinkInv
<1>2. host.job = "write"
  BY <1>1, AskedFollows DEF Follows
<1>3. Compares(host)
  BY <1>2 DEF CompareInv
<1>4. host' = IF expect = <<>> THEN Succeeded(g) ELSE g
  <2>1. g.expect = expect
    BY <1>1 DEF IsHost, Fields
  <2> QED BY <1>1, <2>1 DEF Asked
<1>5. expect \in Seq(Wants)
  <2>1. CASE host.step = "write"
    <3> DEFINE e == <<"status">>
    <3>1. e \in Seq(Wants)
      BY DEF Wants
    <3>2. expect = e
      BY <2>1 DEF Expected, Reads
    <3> QED BY <3>1, <3>2
  <2>2. CASE host.step = "verify"
    <3>1. expect = read_sectors(Count(Chunk, host.offset))
      BY <2>2 DEF Expected, Reads
    <3>2. Count(Chunk, host.offset) \in Nat
      BY <1>3, CountIsDue DEF Compares
    <3> QED BY <3>1, <3>2, ReadExpects
  <2> QED BY <1>3, <2>1, <2>2 DEF Compares
<1> HIDE DEF expect
<1>6. /\ g.step = host.step /\ g.offset = host.offset /\ g.out = host.out /\ g.phase = "wait"
      /\ g.readback = host.readback /\ g.result = host.result /\ g.job = host.job
      /\ DOMAIN g = Fields /\ g.expect = expect
  BY <1>1 DEF IsHost, Fields
<1> HIDE DEF g
<1>7. IsHost(g)
  BY <1>1, <1>5, <1>6 DEF IsHost
<1>8. Compares(g)
  BY <1>1, <1>3, <1>6, CompareSame
<1>9. Compares(Succeeded(g))
  BY <1>2, <1>6, <1>7, <1>8, CompareGoesOn
<1> QED BY <1>4, <1>8, <1>9

LEMMA CancelCompare == LinkInv /\ CompareInv /\ Cancel => CompareInv'
<1> SUFFICES ASSUME LinkInv, CompareInv, Cancel, host'.job = "write" PROVE FALSE
  BY DEF CompareInv
<1>1. IsHost(host)
  BY DEF LinkInv
<1>2. CASE host.job = "dump" /\ host' = Ended(host, "error")
  BY <1>1, <1>2, EndedParts
<1>3. CASE host.step = "recv" /\ host' = [host EXCEPT !.result = "error"]
  <2>1. host'.job = host.job
    BY <1>1, <1>3 DEF IsHost, Fields
  <2> QED BY <1>1, <1>3, <2>1 DEF CompareInv, Compares
<1> QED BY <1>2, <1>3 DEF Cancel

LEMMA GiveUpCompare ==
    ASSUME LinkInv, CompareInv, host.phase = "wait", NEW left,
           GiveUp(left) \/ (Draining /\ Drained(left))
    PROVE  CompareInv'
<1> SUFFICES ASSUME host'.job = "write" PROVE Compares(host')
  BY DEF CompareInv
<1>1. IsHost(host) /\ host.step \in StepNames \ {"send"}
  BY DEF LinkInv, IsHost
<1>2. CASE GiveUp(left)
  <2>1. host' = Failed(host)
    BY <1>2 DEF GiveUp
  <2>2. host.job = "write"
    BY <1>1, <2>1, FailedFollows DEF Follows
  <2> QED BY <1>1, <2>1, <2>2, CompareFails DEF CompareInv
<1>3. CASE Draining /\ Drained(left)
  <2>1. host' = Ask(host, "flush") /\ host.step = "recv"
    BY <1>3 DEF Drained, Draining
  <2>2. host.job = "write"
    BY <1>1, <2>1, AskParts
  <2> QED BY <2>1, <2>2 DEF CompareInv, Compares
<1> QED BY <1>2, <1>3

LEMMA RecvCompare == LinkInv /\ CompareInv /\ recv_response => CompareInv'
<1> SUFFICES ASSUME LinkInv, CompareInv, recv_response PROVE CompareInv'
  OBVIOUS
<1> DEFINE want   == Head(host.expect)
           packet == Head(toHost)
           taken  == Taken(host, packet)
           left   == Behind(want, packet) \o Tail(toHost)
<1>1. /\ host.phase = "wait" /\ IsHost(host) /\ host.step \in StepNames \ {"send"}
      /\ host.expect # <<>> /\ host.expect \in Seq(Wants)
  BY DEF recv_response, LinkInv, IsHost
<1>2. CASE GiveUp(left) \/ (Draining /\ Drained(left))
  <2> HIDE DEF left
  <2> QED BY <1>1, <1>2, GiveUpCompare
<1>3. CASE host' = IF taken.expect = <<>> THEN Succeeded(taken) ELSE taken
  <2> SUFFICES ASSUME host'.job = "write" PROVE Compares(host')
    BY DEF CompareInv
  <2>1. Tail(host.expect) \in Seq(Wants)
    BY <1>1, HeadTailProperties
  <2>2. /\ IsHost(taken) /\ taken.job = host.job /\ taken.phase = "wait"
        /\ taken.step = host.step /\ taken.offset = host.offset /\ taken.out = host.out
        /\ taken.readback = host.readback /\ taken.result = host.result
    BY <1>1, <2>1 DEF Taken, IsHost, Fields
  <2> HIDE DEF taken
  <2>3. host.job = "write"
    BY <1>1, <1>3, <2>2, SucceededFollows DEF Follows
  <2>4. Compares(taken)
    BY <1>1, <2>2, <2>3, CompareSame DEF CompareInv
  <2>5. Compares(Succeeded(taken))
    BY <2>2, <2>3, <2>4, CompareGoesOn
  <2> QED BY <1>3, <2>4, <2>5
<1> QED BY <1>2, <1>3 DEF recv_response

THEOREM CompareInvHolds == Spec => []CompareInv
<1>1. Init => CompareInv
  BY DEF Init, CompareInv, Idle
<1>2. LinkInv /\ CompareInv /\ [Next]_vars => CompareInv'
  <2> SUFFICES ASSUME LinkInv, CompareInv, [Next]_vars PROVE CompareInv'
    OBVIOUS
  <2>1. CASE UNCHANGED vars
    BY <2>1 DEF vars, CompareInv
  <2>2. CASE Timeout
    <3>1. host.phase = "wait" /\ (GiveUp(<<>>) \/ (Draining /\ Drained(<<>>)))
      BY <2>2 DEF Timeout
    <3> QED BY <3>1, GiveUpCompare
  <2>3. CASE Reader
    BY <2>3 DEF Reader, CompareInv
  <2>4. CASE Start \/ send_command \/ Cancel \/ recv_response
    BY <2>4, StartCompare, SendCompare, CancelCompare, RecvCompare
  <2> QED BY <2>1, <2>2, <2>3, <2>4 DEF Next
<1> QED BY <1>1, <1>2, LinkInvHolds, PTL DEF Spec

(* A write that began over an empty line, and whose verification gets all   *)
(* the sectors it asks for and finds no difference, has stored what it was  *)
(* to write, whatever the line lost, corrupted or delayed and however       *)
(* answers and questions were paired (write_sectors and verify_readback_impl *)
(* of operations.rs).  Of a verification that got less it does not hold.    *)
THEOREM VerificationsAreTrue == Spec => []VerifiedTrue
<1>1. LinkInv /\ VerifyInv /\ CompareInv => VerifiedTrue
  <2> SUFFICES ASSUME LinkInv, VerifyInv, CompareInv, fresh, host.job = "write",
                      host.result = "done", host.readback = "same", NEW l \in Lba
      PROVE  card[l] = New(l)
    BY DEF VerifiedTrue
  <2>0. host.out = Tags(New, 0, Total)
    BY DEF CompareInv, Compares
  <2> DEFINE i == l + 1
  <2>1. Total \in Nat \ {0} /\ i \in 1..Total /\ 0 + i - 1 = l
    BY LinkAssumption DEF Lba
  <2> HIDE DEF i
  <2>2. DOMAIN host.out = 1..Total /\ host.out[i] = New(l)
    BY <2>0, <2>1 DEF Tags
  <2>3. host.out # <<>>
    <3>1. DOMAIN <<>> = {}
      BY EmptySeq
    <3> QED BY <2>1, <2>2, <3>1
  <2>4. Each("true", host.out, card)
    BY <2>3 DEF VerifyInv, Verifies, Early, Past, Silent
  <2>5. Len(host.out) \in Nat /\ \A j \in 1..Len(host.out) : Is("true", host.out[j], card)
    BY <2>4, EachAt
  <2>6. i \in 1..Len(host.out)
    <3>1. PICK S : host.out \in Seq(S)
      BY <2>4 DEF Each
    <3>2. DOMAIN host.out = 1..Len(host.out)
      BY <3>1, LenProperties
    <3> QED BY <2>1, <2>2, <3>2
  <2>7. IsTrue(host.out[i], card)
    BY <2>5, <2>6 DEF Is
  <2> QED BY <2>2, <2>7 DEF IsTrue
<1> QED BY <1>1, LinkInvHolds, VerifyInvHolds, CompareInvHolds, PTL

=============================================================================
