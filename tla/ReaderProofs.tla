---------------------------- MODULE ReaderProofs ----------------------------
(***************************************************************************)
(* The reader application, for every set of sectors, threads, transports    *)
(* and users: what its hex editor writes back goes where it was read, and   *)
(* the rate, the settings and the partition it shows are the reader's.      *)
(***************************************************************************)
EXTENDS ReaderApp, SequenceTheorems, WellFoundedInduction, TLAPS

-----------------------------------------------------------------------------
(* Scripts that do no harm: nothing they write is at home elsewhere, and     *)
(* they report no sectors.  A script branches where a step fails; the set S  *)
(* holds every script that may be left on the way.                           *)

\* A step with the fields of a step that does no harm itself.
MovesHome(step) ==
    /\ DOMAIN step = {"do", "arg", "tries", "lax", "fails"}
    /\ step.do = "write" => Home(step.arg.data, step.arg.lba)
    /\ step.do \in {"set_partition", "switch_part"} => step.arg \in EmmcPartition
    /\ step.do = "tell" => step.arg.type # "SectorsRead"

Closed(S) ==
    \A q \in S : q # <<>> => MovesHome(Head(q)) /\ Tail(q) \in S /\ Head(q).fails \in S

Harmless(script) == \E E, S : S \subseteq Seq(E) /\ Closed(S) /\ script \in S

LEMMA HarmlessEmpty == Harmless(<<>>)
<1>1. {<<>>} \subseteq Seq({}) /\ Closed({<<>>})
  BY DEF Closed
<1> QED BY <1>1 DEF Harmless

LEMMA HarmlessStep ==
    ASSUME NEW q, Harmless(q), q # <<>>
    PROVE  MovesHome(Head(q)) /\ Harmless(Tail(q)) /\ Harmless(Head(q).fails)
BY DEF Harmless, Closed

LEMMA HarmlessOne ==
    ASSUME NEW a, MovesHome(a), Harmless(a.fails)
    PROVE  Harmless(<<a>>)
<1>1. PICK E, S : S \subseteq Seq(E) /\ Closed(S) /\ a.fails \in S
  BY DEF Harmless
<1> DEFINE F == E \union {a}
           T == S \union {<<>>, <<a>>}
<1>2. T \subseteq Seq(F)
  <2>1. Seq(E) \subseteq Seq(F)
    OBVIOUS
  <2>2. <<>> \in Seq(F) /\ <<a>> \in Seq(F)
    OBVIOUS
  <2> QED BY <1>1, <2>1, <2>2
<1>3. Closed(T)
  <2>1. Head(<<a>>) = a /\ Tail(<<a>>) = <<>>
    OBVIOUS
  <2>2. \A r \in S : r # <<>> => MovesHome(Head(r)) /\ Tail(r) \in T /\ Head(r).fails \in T
    BY <1>1 DEF Closed
  <2>3. MovesHome(Head(<<a>>)) /\ Tail(<<a>>) \in T /\ Head(<<a>>).fails \in T
    BY <1>1, <2>1
  <2> HIDE DEF MovesHome
  <2> QED BY <2>2, <2>3 DEF Closed
<1> QED BY <1>2, <1>3 DEF Harmless

LEMMA HeadTailOfConcat ==
    ASSUME NEW E, NEW r \in Seq(E), NEW q \in Seq(E), r # <<>>
    PROVE  Head(r \o q) = Head(r) /\ Tail(r \o q) = Tail(r) \o q
<1>1. Head(r \o q) = Head(r)
  BY ConcatProperties
<1>2. Tail(r \o q) \in Seq(E) /\ Tail(r) \o q \in Seq(E)
  BY ConcatProperties, HeadTailProperties
<1>3. Len(Tail(r \o q)) = Len(Tail(r) \o q)
  BY ConcatProperties, HeadTailProperties
<1>4. \A i \in 1..Len(Tail(r \o q)) : Tail(r \o q)[i] = (Tail(r) \o q)[i]
  BY ConcatProperties, HeadTailProperties
<1> QED BY <1>1, <1>2, <1>3, <1>4, SeqEqual

LEMMA HarmlessConcat ==
    ASSUME NEW p, NEW q, Harmless(p), Harmless(q)
    PROVE  Harmless(p \o q)
<1>1. PICK E, S : S \subseteq Seq(E) /\ Closed(S) /\ p \in S
  BY DEF Harmless
<1>2. PICK F, T : T \subseteq Seq(F) /\ Closed(T) /\ q \in T
  BY DEF Harmless
<1> DEFINE G == E \union F
           U == {r \o q : r \in S} \union S \union T
<1>3. Seq(E) \subseteq Seq(G) /\ Seq(F) \subseteq Seq(G)
  OBVIOUS
<1>4. U \subseteq Seq(G)
  <2>1. \A r \in S : r \o q \in Seq(G)
    BY <1>1, <1>2, <1>3, ConcatProperties
  <2> QED BY <2>1, <1>1, <1>2, <1>3
<1>5. Closed(U)
  <2> SUFFICES ASSUME NEW u \in U, u # <<>>
               PROVE  MovesHome(Head(u)) /\ Tail(u) \in U /\ Head(u).fails \in U
    BY DEF Closed
  <2>1. CASE u \in S \union T
    BY <2>1, <1>1, <1>2 DEF Closed
  <2>2. CASE \E r \in S : u = r \o q
    <3>1. PICK r \in S : u = r \o q
      BY <2>2
    <3>2. CASE r = <<>>
      <4>1. u = q
        BY <3>1, <3>2, <1>2
      <4> QED BY <4>1, <2>1, <1>2
    <3>3. CASE r # <<>>
      <4>0. r \in Seq(G) /\ q \in Seq(G)
        BY <1>1, <1>2, <1>3
      <4>1. Head(u) = Head(r) /\ Tail(u) = Tail(r) \o q
        <5> HIDE DEF G, U
        <5>1. Head(r \o q) = Head(r) /\ Tail(r \o q) = Tail(r) \o q
          BY <3>3, <4>0, HeadTailOfConcat
        <5> QED BY <5>1, <3>1
      <4> QED BY <4>1, <3>3, <1>1 DEF Closed
    <3> QED BY <3>2, <3>3
  <2> QED BY <2>1, <2>2
<1>6. p \o q \in U
  BY <1>1
<1> HIDE DEF U, G
<1> QED BY <1>4, <1>5, <1>6 DEF Harmless

-----------------------------------------------------------------------------
(* Induction: a set of numbers that is not empty has a least one, because    *)
(* the order of the naturals is well-founded.                                *)

LEMMA LeastNumber ==
    ASSUME NEW Wrong \in SUBSET Nat, Wrong # {}
    PROVE  \E k \in Wrong : \A j \in Wrong : k <= j
<1> DEFINE R == OpToRel(<, Nat)
<1>1. IsWellFoundedOn(R, Nat)
  BY NatLessThanWellFounded
<1>2. \A j, k \in Nat : j < k => <<j, k>> \in R
  BY DEF OpToRel
<1>3. PICK k \in Wrong : \A j \in Wrong : <<j, k>> \notin R
  <2> HIDE DEF R
  <2> QED BY <1>1, WFMin
<1>4. \A j \in Wrong : ~ (j < k)
  <2> HIDE DEF R
  <2> QED BY <1>2, <1>3
<1> QED BY <1>4

\* Repeat is a recursive function, which is what its definition says.
LEMMA RepeatExists ==
    ASSUME NEW n \in Nat, NEW steps
    PROVE  \E f : f = [i \in 0..n |-> IF i = 0 THEN <<>> ELSE f[i - 1] \o steps]
<1> DEFINE Is(f, k) == f = [i \in 0..k |-> IF i = 0 THEN <<>> ELSE f[i - 1] \o steps]
           Wrong == {k \in Nat : ~ \E f : Is(f, k)}
<1>1. SUFFICES ASSUME Wrong # {} PROVE FALSE
  OBVIOUS
<1>2. PICK k \in Wrong : \A j \in Wrong : k <= j
  <2> Wrong \in SUBSET Nat
    OBVIOUS
  <2> HIDE DEF Wrong
  <2> QED BY <1>1, LeastNumber
<1>3. k # 0
  <2>1. Is([i \in 0..0 |-> <<>>], 0)
    OBVIOUS
  <2> QED BY <2>1
<1>4. k \in Nat \ {0} /\ k - 1 \in Nat /\ ~(k <= k - 1)
  BY <1>3
<1>5. k - 1 \notin Wrong
  <2> HIDE DEF Wrong
  <2> QED BY <1>2, <1>4
<1>6. PICK f : Is(f, k - 1)
  BY <1>4, <1>5
<1> DEFINE g == [i \in 0..k |-> IF i = k THEN f[k - 1] \o steps ELSE f[i]]
<1>7. Is(g, k)
  <2>1. \A i \in 0..k : g[i] = IF i = 0 THEN <<>> ELSE g[i - 1] \o steps
    <3> SUFFICES ASSUME NEW i \in 0..k
                 PROVE  g[i] = IF i = 0 THEN <<>> ELSE g[i - 1] \o steps
      OBVIOUS
    <3> HIDE DEF Wrong
    <3>1. CASE i = k
      <4>1. i # 0 /\ i - 1 = k - 1 /\ k - 1 \in 0..k /\ k - 1 # k
        BY <1>4, <3>1
      <4>2. g[k] = f[k - 1] \o steps /\ g[k - 1] = f[k - 1]
        BY <1>4, <4>1
      <4> HIDE DEF g
      <4> QED BY <3>1, <4>1, <4>2
    <3>2. CASE i # k
      <4>1. i \in 0..k - 1 /\ (i # 0 => i - 1 \in 0..k - 1 /\ i - 1 # k)
        BY <1>4, <3>2
      <4>2. f[i] = IF i = 0 THEN <<>> ELSE f[i - 1] \o steps
        BY <1>6, <4>1
      <4> QED BY <4>1, <4>2, <3>2, <1>4
    <3> QED BY <3>1, <3>2
  <2> HIDE DEF Wrong
  <2>2. g = [i \in 0..k |-> g[i]]
    OBVIOUS
  <2> HIDE DEF g
  <2> QED BY <2>1, <2>2
<1> QED BY <1>2, <1>7

LEMMA HarmlessRepeat ==
    ASSUME NEW n \in Nat, NEW steps, Harmless(steps)
    PROVE  Harmless(Repeat(n, steps))
<1>1. PICK f : /\ f = [i \in 0..n |-> IF i = 0 THEN <<>> ELSE f[i - 1] \o steps]
               /\ Repeat(n, steps) = f[n]
  BY RepeatExists DEF Repeat
<1>2. ASSUME NEW k \in 0..n, \A j \in 0..n : j < k => Harmless(f[j])
      PROVE  Harmless(f[k])
  <2>1. CASE k = 0
    BY <1>1, <2>1, HarmlessEmpty
  <2>2. CASE k # 0
    <3>1. k - 1 \in 0..n /\ k - 1 < k
      BY <2>2
    <3>2. Harmless(f[k - 1])
      BY <3>1, <1>2
    <3>3. f[k] = f[k - 1] \o steps
      BY <1>1, <2>2
    <3> QED BY <3>2, <3>3, HarmlessConcat
  <2> QED BY <2>1, <2>2
<1> DEFINE Wrong == {k \in 0..n : ~Harmless(f[k])}
<1>3. ASSUME Wrong # {} PROVE FALSE
  <2>1. PICK k \in Wrong : \A j \in Wrong : k <= j
    <3> Wrong \in SUBSET Nat
      OBVIOUS
    <3> HIDE DEF Wrong
    <3> QED BY <1>3, LeastNumber
  <2>2. \A j \in 0..n : j < k => Harmless(f[j])
    BY <2>1
  <2> QED BY <1>2, <2>2
<1>4. n \in 0..n
  OBVIOUS
<1> QED BY <1>1, <1>3, <1>4

-----------------------------------------------------------------------------
(* The operations of ReaderOps, but for read_sectors, do no harm. *)

Gentle(step) == MovesHome(step) /\ Harmless(step.fails)

LEMMA HarmlessSteps ==
    ASSUME NEW a, Gentle(a)
    PROVE  /\ Harmless(<<a>>)
           /\ \A b : Gentle(b) => Harmless(<<a, b>>)
           /\ \A b, c : Gentle(b) /\ Gentle(c) => Harmless(<<a, b, c>>)
           /\ \A b, c, d : Gentle(b) /\ Gentle(c) /\ Gentle(d) => Harmless(<<a, b, c, d>>)
<1>1. \A b : Gentle(b) => Harmless(<<b>>)
  BY HarmlessOne DEF Gentle
<1>2. \A b, c : Gentle(b) /\ Gentle(c) => Harmless(<<b, c>>)
  <2>1. ASSUME NEW b, NEW c PROVE <<b, c>> = <<b>> \o <<c>>
    <3>1. <<b, c>> \in Seq({b, c}) /\ <<b>> \o <<c>> \in Seq({b, c})
      OBVIOUS
    <3>2. Len(<<b, c>>) = 2 /\ Len(<<b>> \o <<c>>) = 2
      OBVIOUS
    <3>3. \A i \in 1..2 : <<b, c>>[i] = (<<b>> \o <<c>>)[i]
      OBVIOUS
    <3> QED BY <3>1, <3>2, <3>3, SeqEqual
  <2> QED BY <2>1, <1>1, HarmlessConcat
<1>3. \A b, c, d : Gentle(b) /\ Gentle(c) /\ Gentle(d) => Harmless(<<b, c, d>>)
  <2>1. \A b, c, d : <<b, c, d>> = <<b, c>> \o <<d>>
    OBVIOUS
  <2> QED BY <2>1, <1>1, <1>2, HarmlessConcat
<1>4. \A b, c, d : Gentle(b) /\ Gentle(c) /\ Gentle(d) => Harmless(<<a, b, c, d>>)
  <2> SUFFICES ASSUME NEW b, NEW c, NEW d, Gentle(b), Gentle(c), Gentle(d)
               PROVE  Harmless(<<a, b, c, d>>)
    OBVIOUS
  <2> DEFINE E == {a, b, c, d}
  <2>1. <<a, b, c, d>> \in Seq(E) /\ <<a, b>> \o <<c, d>> \in Seq(E)
    OBVIOUS
  <2>2. Len(<<a, b, c, d>>) = 4 /\ Len(<<a, b>> \o <<c, d>>) = 4
    OBVIOUS
  <2>3. \A i \in 1..4 : <<a, b, c, d>>[i] = (<<a, b>> \o <<c, d>>)[i]
    OBVIOUS
  <2>4. <<a, b, c, d>> = <<a, b>> \o <<c, d>>
    BY <2>1, <2>2, <2>3, SeqEqual
  <2> QED BY <2>4, <1>2, HarmlessConcat
<1> QED BY <1>1, <1>2, <1>3, <1>4

LEMMA GentleTell ==
    ASSUME NEW m, m.type # "SectorsRead"
    PROVE  Gentle(Tell(m))
BY HarmlessEmpty DEF Gentle, MovesHome, Tell, Step

LEMMA HarmlessError == Harmless(Error)
<1>1. Gentle(Tell([type |-> "Error"]))
  BY GentleTell
<1> QED BY <1>1, HarmlessSteps DEF Error

\* Steps that neither write nor report nor switch the partition.
Plain == {"open", "close", "poll", "ping", "get_info", "get_ext_csd", "get_status", "read",
          "erase", "secure_erase", "write_ext_csd", "switch_lines", "card_status", "reinit", "set_clk",
          "set_baud", "set_bus_width"}

LEMMA GentleStep ==
    ASSUME NEW do \in Plain, NEW arg, NEW fails, Harmless(fails)
    PROVE  Gentle(Step(do, arg, fails))
BY DEF Gentle, MovesHome, Step, Plain

LEMMA GentleExcept ==
    ASSUME NEW step, Gentle(step), NEW x, NEW fails, Harmless(fails)
    PROVE  /\ Gentle([step EXCEPT !.tries = x])
           /\ Gentle([step EXCEPT !.lax = x])
           /\ Gentle([step EXCEPT !.fails = fails])
BY DEF Gentle, MovesHome

LEMMA GentleCommand ==
    ASSUME NEW do \in Plain, NEW arg
    PROVE  /\ Gentle(Ask(do, arg)) /\ Gentle(Lax(do, arg))
           /\ Gentle(Persist(Ask(do, arg))) /\ Gentle(Step(do, arg, Error))
           /\ \A fails : Harmless(fails) => Gentle([Persist(Ask(do, arg)) EXCEPT !.fails = fails])
<1>1. Gentle(Ask(do, arg)) /\ Gentle(Step(do, arg, Error))
  BY HarmlessError, GentleStep DEF Ask
<1>2. Gentle(Lax(do, arg))
  BY HarmlessEmpty, GentleStep, GentleExcept DEF Lax
<1>3. Gentle(Persist(Ask(do, arg)))
  BY <1>1, HarmlessEmpty, GentleExcept DEF Persist
<1>4. \A fails : Harmless(fails) => Gentle([Persist(Ask(do, arg)) EXCEPT !.fails = fails])
  BY <1>3, GentleExcept
<1> QED BY <1>1, <1>2, <1>3, <1>4

LEMMA GentlePort ==
    \A rate : Gentle(Open(rate)) /\ Gentle(Close)
<1>1. ASSUME NEW rate PROVE Gentle(Open(rate)) /\ Gentle(Close)
  BY HarmlessError, HarmlessEmpty, GentleStep DEF Open, Close, Plain
<1> QED BY <1>1

LEMMA GentleWrite ==
    ASSUME NEW lba, NEW data, Home(data, lba), NEW fails, Harmless(fails)
    PROVE  Gentle(Step("write", [lba |-> lba, data |-> data], fails))
BY DEF Gentle, MovesHome, Step

LEMMA HarmlessSpeed ==
    ASSUME NEW rate, NEW preset, NEW clk
    PROVE  Harmless(ConnectedWithSpeed(rate, preset, clk))
<1>1. Gentle(Tell([type |-> "ConnectedWithSpeed", baud |-> rate, preset |-> preset, clk |-> clk]))
  BY GentleTell
<1> QED BY <1>1, HarmlessSteps DEF ConnectedWithSpeed

LEMMA HarmlessCardInfo ==
    ASSUME NEW rest, Harmless(rest)
    PROVE  Harmless(read_card_info_and_report(rest))
<1>1. Gentle(Step("get_info", 0, rest)) /\ Gentle(Tell([type |-> "CardInfo"]))
  BY GentleStep, GentleTell DEF Plain
<1> QED BY <1>1, HarmlessSteps, HarmlessConcat DEF read_card_info_and_report

LEMMA HarmlessClock ==
    ASSUME NEW profile
    PROVE  Harmless(SetClock(profile))
<1>1. Gentle(Lax("set_clk", clk_preset[profile]))
  BY GentleCommand DEF Plain
<1> QED BY <1>1, HarmlessEmpty, HarmlessSteps DEF SetClock

LEMMA HarmlessConnectFifo ==
    ASSUME NEW profile
    PROVE  Harmless(ConnectFifo(profile))
<1>1. Harmless(<<Open(0), Ask("ping", 0)>>)
  BY GentlePort, GentleCommand, HarmlessSteps DEF Plain
<1> QED BY <1>1, HarmlessClock, HarmlessSpeed, HarmlessCardInfo, HarmlessConcat DEF ConnectFifo

LEMMA HarmlessSwitchBaud ==
    ASSUME NEW initial, NEW profile
    PROVE  Harmless(SwitchBaud(initial, profile))
<1> DEFINE fallback == ConnectedWithSpeed(initial, 0, clk_preset[profile])
           retreat  == <<Close, Open(initial), Ask("ping", 0)>> \o fallback
<1>1. Harmless(fallback)
  BY HarmlessSpeed
<1>2. Harmless(retreat)
  <2>1. Harmless(<<Close, Open(initial), Ask("ping", 0)>>)
    BY GentlePort, GentleCommand, HarmlessSteps DEF Plain
  <2> HIDE DEF fallback
  <2> QED BY <2>1, <1>1, HarmlessConcat
<1> HIDE DEF retreat
<1>3. Harmless(<<Close, Step("open", target_baud(profile), fallback), Step("ping", 0, retreat)>>)
  <2> HIDE DEF fallback
  <2>1. /\ Gentle(Step("open", target_baud(profile), fallback)) /\ Gentle(Step("ping", 0, retreat))
    BY <1>1, <1>2, GentleStep DEF Plain
  <2> QED BY <2>1, GentlePort, HarmlessSteps
<1>4. Harmless(Reconnect(initial, profile))
  BY <1>3, HarmlessSpeed, HarmlessConcat DEF Reconnect, retreat
<1>5. Harmless(<<Step("set_baud", baud_preset[profile], fallback)>>)
  BY <1>1, GentleStep, HarmlessSteps DEF Plain
<1> QED BY <1>4, <1>5, HarmlessSpeed, HarmlessConcat DEF SwitchBaud

LEMMA HarmlessConnect ==
    ASSUME NEW fifo, NEW initial, NEW profile
    PROVE  Harmless(connect(fifo, initial, profile))
<1>1. Harmless(AlreadyAtTarget(profile))
  <2>1. Harmless(<<Close, Open(target_baud(profile)), Ask("ping", 0)>>)
    BY GentlePort, GentleCommand, HarmlessSteps DEF Plain
  <2> QED BY <2>1, HarmlessSpeed, HarmlessCardInfo, HarmlessConcat DEF AlreadyAtTarget
<1> DEFINE other == target_baud(profile) # initial
           rest  == <<Step("ping", 0, IF other THEN AlreadyAtTarget(profile) ELSE Error)>>
                      \o read_card_info_and_report(SetClock(profile) \o SwitchBaud(initial, profile))
           late  == IF other THEN <<Open(target_baud(profile))>> \o rest ELSE Error
<1>2. Harmless(rest)
  <2>1. Harmless(<<Step("ping", 0, IF other THEN AlreadyAtTarget(profile) ELSE Error)>>)
    BY <1>1, HarmlessError, GentleStep, HarmlessSteps DEF Plain
  <2>2. Harmless(read_card_info_and_report(SetClock(profile) \o SwitchBaud(initial, profile)))
    BY HarmlessClock, HarmlessSwitchBaud, HarmlessConcat, HarmlessCardInfo
  <2> QED BY <2>1, <2>2, HarmlessConcat
<1>3. Harmless(late)
  <2> HIDE DEF rest
  <2> QED BY <1>2, GentlePort, HarmlessSteps, HarmlessConcat, HarmlessError
<1>4. Harmless(<<Step("open", initial, late)>>)
  <2> HIDE DEF late
  <2> QED BY <1>3, GentleStep, HarmlessSteps DEF Plain
<1>5. Harmless(ConnectUart(initial, profile))
  <2>1. ConnectUart(initial, profile) = <<Step("open", initial, late)>> \o rest
    BY DEF ConnectUart
  <2> HIDE DEF late, rest
  <2> QED BY <2>1, <1>2, <1>4, HarmlessConcat
<1> QED BY <1>5, HarmlessConnectFifo DEF connect

LEMMA HarmlessSingle ==
    ASSUME NEW rate, NEW cmd \in Plain, NEW arg, NEW message, message.type # "SectorsRead"
    PROVE  Harmless(Single(rate, cmd, arg, message))
<1>1. Gentle(Open(rate)) /\ Gentle(Ask(cmd, arg)) /\ Gentle(Tell(message))
  BY GentlePort, GentleCommand, GentleTell
<1> QED BY <1>1, HarmlessSteps DEF Single

LEMMA HarmlessCardOperations ==
    ASSUME NEW rate, NEW arg
    PROVE  /\ Harmless(scan_ports) /\ Harmless(keepalive_ping(rate))
           /\ Harmless(set_baud(rate, arg)) /\ Harmless(set_clk_speed(rate, arg))
           /\ Harmless(set_bus_width(rate, arg)) /\ Harmless(reinit(rate))
           /\ Harmless(erase_sectors(rate, arg)) /\ Harmless(secure_erase_sectors(rate, arg))
           /\ Harmless(cache_flush(rate))
           /\ Harmless(read_ext_csd(rate)) /\ Harmless(read_partitions(rate))
           /\ Harmless(get_card_status(rate)) /\ Harmless(get_controller_status(rate))
<1>1. Harmless(scan_ports)
  BY GentleTell, HarmlessSteps DEF scan_ports
<1>2. Harmless(keepalive_ping(rate))
  <2> DEFINE ok == <<Tell([type |-> "KeepaliveOk"])>>
  <2>1. Harmless(ok)
    BY GentleTell, HarmlessSteps
  <2> HIDE DEF ok
  <2>2. Harmless(<<Step("open", rate, ok), Lax("ping", 0)>>)
    BY <2>1, GentleStep, GentleCommand, HarmlessSteps DEF Plain
  <2> QED BY <2>1, <2>2, HarmlessConcat DEF keepalive_ping, ok
<1>3. Harmless(set_baud(rate, arg))
  <2> DEFINE new == UART_BAUD_RATES[arg]
             told == Tell([type |-> "BaudPresetSet", preset |-> arg, baud |-> new])
             first == <<Open(rate), Ask("set_baud", arg), Close>>
             second == <<Open(new), Ask("ping", 0), told>>
  <2>1. Gentle(told)
    BY GentleTell
  <2>2. Harmless(first) /\ Harmless(second)
    <3> HIDE DEF told, new
    <3> QED BY <2>1, GentlePort, GentleCommand, HarmlessSteps DEF Plain
  <2>3. set_baud(rate, arg) = first \o second
    <3> DEFINE all == set_baud(rate, arg)
               E == {all[i] : i \in 1..6}
    <3>1. all = <<Open(rate), Ask("set_baud", arg), Close, Open(new), Ask("ping", 0), told>>
      BY DEF set_baud
    <3> HIDE DEF told, new, all
    <3>2. all \in Seq(E) /\ first \o second \in Seq(E)
      BY <3>1
    <3>3. Len(all) = 6 /\ Len(first \o second) = 6
      BY <3>1
    <3>4. \A i \in 1..6 : all[i] = (first \o second)[i]
      BY <3>1
    <3>5. all = first \o second
      BY <3>2, <3>3, <3>4, SeqEqual
    <3> QED BY <3>5 DEF all
  <2> QED BY <2>2, <2>3, HarmlessConcat
<1>4. Harmless(set_clk_speed(rate, arg)) /\ Harmless(set_bus_width(rate, arg))
  BY HarmlessSingle DEF set_clk_speed, set_bus_width, Plain
<1>5. Harmless(erase_sectors(rate, arg)) /\ Harmless(secure_erase_sectors(rate, arg))
  BY HarmlessSingle DEF erase_sectors, secure_erase_sectors, Plain
<1>6. Harmless(reinit(rate)) /\ Harmless(read_ext_csd(rate))
  BY HarmlessSingle DEF reinit, read_ext_csd, Plain
<1>7. Harmless(read_partitions(rate)) /\ Harmless(get_card_status(rate))
  BY HarmlessSingle DEF read_partitions, get_card_status, Plain
<1>8. Harmless(get_controller_status(rate))
  BY HarmlessSingle DEF get_controller_status, Plain
<1>9. Harmless(cache_flush(rate))
  <2>1. Gentle(Tell([type |-> "CacheFlushed"]))
    BY GentleTell
  <2> QED BY <2>1, GentlePort, GentleCommand, HarmlessSteps DEF cache_flush, Plain
<1> QED BY <1>1, <1>2, <1>3, <1>4, <1>5, <1>6, <1>7, <1>8, <1>9

LEMMA HarmlessWriteExtCsd ==
    ASSUME NEW rate, NEW index, NEW value
    PROVE  Harmless(write_ext_csd(rate, index, value))
<1> DEFINE m == [type |-> "ExtCsdWritten"]
           c == Ask("switch_part", PartitionOf(value))
<1>1. m.type # "SectorsRead"
  OBVIOUS
<1>2. CASE index = 179
  <2>1. PartitionOf(value) \in EmmcPartition
    BY DEF PartitionOf, EmmcPartition
  <2>2. Gentle(c)
    BY <2>1, HarmlessError DEF Gentle, MovesHome, Ask, Step
  <2>3. Gentle(Open(rate)) /\ Gentle(Tell(m))
    BY <1>1, GentlePort, GentleTell
  <2>4. write_ext_csd(rate, index, value) = <<Open(rate), c, Tell(m)>>
    BY <1>2 DEF write_ext_csd, Single
  <2> HIDE DEF c, m
  <2> QED BY <2>2, <2>3, <2>4, HarmlessSteps
<1>3. CASE index # 179
  <2>1. PICK do, arg : /\ do \in {"switch_lines", "write_ext_csd"}
                       /\ write_ext_csd(rate, index, value) = Single(rate, do, arg, m)
    BY <1>3 DEF write_ext_csd
  <2>2. do \in Plain
    BY <2>1 DEF Plain
  <2> HIDE DEF m
  <2> QED BY <1>1, <2>1, <2>2, HarmlessSingle
<1> QED BY <1>2, <1>3

LEMMA HarmlessSetPartition ==
    ASSUME NEW rate, NEW part \in EmmcPartition
    PROVE  Harmless(set_partition(rate, part))
<1>1. Gentle(Ask("set_partition", part))
  BY HarmlessError DEF Gentle, MovesHome, Ask, Step
<1>2. Gentle(Tell([type |-> "Completed"]))
  BY GentleTell
<1> QED BY <1>1, <1>2, GentlePort, HarmlessSteps DEF set_partition, Single

LEMMA HarmlessReadback ==
    ASSUME NEW lba, NEW n \in Nat, NEW fails, Harmless(fails)
    PROVE  Harmless(verify_readback(lba, n, fails))
<1>1. Gentle(Tell([type |-> "Progress"]))
  BY GentleTell
<1>2. Gentle([Persist(Ask("read", lba)) EXCEPT !.fails = fails])
  BY GentleCommand DEF Plain
<1> QED BY <1>1, <1>2, HarmlessSteps, HarmlessRepeat DEF verify_readback

LEMMA HarmlessWrite ==
    ASSUME NEW rate, NEW lba, NEW data, Home(data, lba), NEW verify
    PROVE  Harmless(write_sectors(rate, lba, data, verify))
<1>1. Gentle(Ask("write", [lba |-> lba, data |-> data]))
  BY GentleWrite, HarmlessError DEF Ask
<1>2. Harmless(<<Open(rate), Ask("write", [lba |-> lba, data |-> data])>>)
  BY <1>1, GentlePort, HarmlessSteps
<1>3. Harmless(<<Tell([type |-> "WriteVerified"])>>) /\ Harmless(<<Tell([type |-> "SectorsWritten"])>>)
  BY GentleTell, HarmlessSteps
<1> QED BY <1>2, <1>3, HarmlessReadback, HarmlessError, HarmlessConcat DEF write_sectors

LEMMA HarmlessChecked ==
    ASSUME NEW lba
    PROVE  Harmless(Repeat(Chunks, <<Step("poll", 0, Error), Persist(Ask("read", lba)),
                                     Tell([type |-> "Progress"])>>))
<1>1. Gentle(Tell([type |-> "Progress"]))
  BY GentleTell
<1>2. Gentle(Step("poll", 0, Error)) /\ Gentle(Persist(Ask("read", lba)))
  BY GentleCommand DEF Plain
<1> QED BY <1>1, <1>2, HarmlessSteps, HarmlessRepeat, ChunksAssumption

LEMMA HarmlessDump ==
    ASSUME NEW rate, NEW lba, NEW verify
    PROVE  /\ Harmless(dump_to_file(rate, lba, verify))
           /\ Harmless(verify_sectors(rate, lba))
<1>1. /\ Harmless(<<Tell([type |-> "DumpCompleted"])>>)
      /\ Harmless(<<Tell([type |-> "DumpVerified"])>>)
      /\ Harmless(<<Tell([type |-> "SectorsVerified"])>>)
  BY GentleTell, HarmlessSteps
<1>2. Harmless(<<Open(rate)>>)
  BY GentlePort, HarmlessSteps
<1>3. Harmless(verify_readback(lba, Chunks, <<>>))
  BY HarmlessReadback, HarmlessEmpty, ChunksAssumption
<1>4. Harmless(dump_to_file(rate, lba, verify))
  BY <1>1, <1>2, <1>3, HarmlessChecked, HarmlessConcat, HarmlessEmpty DEF dump_to_file
<1>5. Harmless(verify_sectors(rate, lba))
  BY <1>1, <1>2, HarmlessChecked, HarmlessConcat DEF verify_sectors
<1> QED BY <1>4, <1>5

LEMMA HarmlessRestore ==
    ASSUME NEW rate, NEW lba, NEW data, Home(data, lba), NEW verify
    PROVE  Harmless(restore_from_file(rate, lba, data, verify))
<1> DEFINE chunk == <<Step("poll", 0, FlushThenFail),
                      Step("write", [lba |-> lba, data |-> data], FlushThenFail),
                      Tell([type |-> "Progress"])>>
           last  == <<Lax("write_ext_csd", 32), Tell([type |-> "RestoreCompleted"])>>
           check == IF verify
                    THEN verify_readback(lba, Chunks, <<>>) \o <<Tell([type |-> "WriteVerified"])>>
                    ELSE <<>>
           rest  == Repeat(Chunks, chunk) \o last \o check
<1>1. Harmless(FlushThenFail)
  BY GentleCommand, HarmlessSteps, HarmlessError, HarmlessConcat DEF FlushThenFail, Plain
<1>2. Harmless(chunk)
  BY <1>1, GentleStep, GentleWrite, GentleTell, HarmlessSteps DEF Plain
<1>3. Harmless(last)
  BY GentleCommand, GentleTell, HarmlessSteps DEF Plain
<1>4. Harmless(check)
  <2>1. Harmless(<<Tell([type |-> "WriteVerified"])>>)
    BY GentleTell, HarmlessSteps
  <2> QED BY <2>1, HarmlessReadback, HarmlessEmpty, HarmlessConcat, ChunksAssumption
<1>5. Harmless(rest)
  <2> HIDE DEF chunk, last, check
  <2> QED BY <1>2, <1>3, <1>4, HarmlessRepeat, HarmlessConcat, ChunksAssumption
<1>6. Harmless(EnableCache(rest))
  <2> HIDE DEF rest
  <2>1. Harmless(<<Step("get_ext_csd", 0, rest), Lax("write_ext_csd", 33)>>)
    BY <1>5, GentleStep, GentleCommand, HarmlessSteps DEF Plain
  <2> QED BY <2>1, <1>5, HarmlessConcat DEF EnableCache
<1>7. restore_from_file(rate, lba, data, verify) = <<Open(rate)>> \o EnableCache(rest)
  BY DEF restore_from_file
<1> HIDE DEF rest
<1> QED BY <1>6, <1>7, GentlePort, HarmlessSteps, HarmlessConcat

LEMMA HarmlessExt4 ==
    ASSUME NEW rate, NEW lba, NEW data, Home(data, lba)
    PROVE  /\ Harmless(ext4_load(rate, lba)) /\ Harmless(ext4_ls(rate, lba))
           /\ Harmless(ext4_cat(rate, lba)) /\ Harmless(ext4_write(rate, lba, data))
           /\ Harmless(ext4_create(rate, lba, data))
<1>1. Harmless(OpenFs(rate, lba))
  BY GentlePort, GentleCommand, HarmlessSteps DEF OpenFs, Plain
<1>2. Gentle(Ask("read", lba)) /\ Gentle(Ask("write", [lba |-> lba, data |-> data]))
  BY GentleCommand, GentleWrite, HarmlessError DEF Plain, Ask
<1>3. /\ Gentle(Tell([type |-> "Ext4Loaded"])) /\ Gentle(Tell([type |-> "Ext4DirListing"]))
      /\ Gentle(Tell([type |-> "Ext4FileContent"])) /\ Gentle(Tell([type |-> "Ext4Written"]))
      /\ Gentle(Tell([type |-> "Ext4Created"]))
  BY GentleTell
<1>4. Harmless(ext4_load(rate, lba))
  <2>1. Gentle(Step("read", lba, <<Tell([type |-> "Ext4Loaded"])>>))
    BY <1>3, HarmlessSteps, GentleStep DEF Plain
  <2> QED BY <1>1, <1>3, <2>1, HarmlessSteps, HarmlessConcat DEF ext4_load
<1>5. Harmless(ext4_ls(rate, lba)) /\ Harmless(ext4_cat(rate, lba))
  BY <1>1, <1>2, <1>3, HarmlessSteps, HarmlessConcat DEF ext4_ls, ext4_cat
<1>6. Harmless(ext4_write(rate, lba, data)) /\ Harmless(ext4_create(rate, lba, data))
  BY <1>1, <1>2, <1>3, HarmlessSteps, HarmlessConcat DEF ext4_write, ext4_create
<1> QED BY <1>4, <1>5, <1>6

-----------------------------------------------------------------------------
(* The inductive invariant.  Contents are followed from the card through the *)
(* thread that reads them, the channel and the sector panel to the editor,   *)
(* and from there through the dialog and the thread that writes them.        *)

ReportOf(lba) == Tell([type |-> "SectorsRead", lba |-> lba])

\* A thread of read_sectors: what it has got is at home where it says it is.
Reads(w) ==
    \E l \in Lbas :
        \/ \E b : w.rest = read_sectors(b, l)
        \/ w.rest = <<Ask("read", l), ReportOf(l)>>
        \/ w.rest = <<ReportOf(l)>> /\ Home(w.got, l)

Fields == {"rest", "open", "baud", "got", "op"}

Threads ==
    /\ DOMAIN workers = Slots
    /\ \A s \in Slots :
          /\ DOMAIN workers[s] = Fields
          /\ Harmless(workers[s].rest) \/ Reads(workers[s])

Truthful(m) == m.type = "SectorsRead" => Home(m.data, m.lba)
Messages ==
    /\ \E E : channel \in Seq(E)
    /\ \A i \in 1..Len(channel) : Truthful(channel[i])

\* The editor's contents are at home at its source, and where a write-back that is
\* being asked about or requested will put them.
Editor(u) ==
    /\ DOMAIN u = DOMAIN AppState(FALSE)
    /\ Home(u.sector, u.sector_lba)
    /\ \A l \in u.hex_source : Home(u.hex, l)
    /\ u.dialog.name = "hex_write_back" => Home(u.hex, u.dialog.lba)
    /\ u.pending.name = "hex_write_back" => Home(u.hex, u.pending.lba)
    /\ u.picker.name = "ask" => u.picker.action.name # "hex_write_back"

Reader ==
    /\ DOMAIN fpga = {"baud", "clk", "width", "lines", "part", "quiet"} /\ fpga.part \in EmmcPartition
Sectors ==
    /\ DOMAIN card = EmmcPartition
    /\ \A p \in EmmcPartition :
          DOMAIN card[p] = Lbas /\ \A l \in Lbas : Home(card[p][l], l)

AllHome == Threads /\ Messages /\ Editor(ui) /\ Reader /\ Sectors
HomeInv == "moved" \notin upset => AllHome

LEMMA InitHome == Init => HomeInv
<1> SUFFICES ASSUME Init PROVE AllHome
  BY DEF HomeInv
<1> USE DEF Init
<1>1. Threads
  BY HarmlessEmpty DEF Threads, NoThread, Fields
<1>2. Messages
  <2>1. channel = <<>> /\ <<>> \in Seq({}) /\ Len(<<>>) = 0
    OBVIOUS
  <2> QED BY <2>1 DEF Messages
<1>3. Editor(ui)
  <2>1. \A fifo : DOMAIN AppState(fifo) = DOMAIN AppState(FALSE)
    BY DEF AppState
  <2>2. PICK fifo \in Ports : ui = AppState(fifo)
    OBVIOUS
  <2>3. /\ ui.sector = NoData /\ ui.hex = NoData /\ ui.hex_source = {}
        /\ ui.dialog = None /\ ui.pending = None /\ ui.picker = None
    BY <2>2 DEF AppState
  <2>4. Home(NoData, ui.sector_lba)
    BY DEF Home, NoData, EmmcPartition
  <2>5. None.name = "none"
    BY DEF None
  <2>6. DOMAIN ui = DOMAIN AppState(FALSE)
    BY <2>1, <2>2
  <2> QED BY <2>3, <2>4, <2>5, <2>6 DEF Editor
<1>4. Reader
  BY DEF Reader, EmmcPartition
<1>5. Sectors
  <2>1. card = [p \in EmmcPartition |-> [l \in Lbas |-> <<p, l>>]]
    OBVIOUS
  <2> QED BY <2>1 DEF Sectors, Home, EmmcPartition
<1> QED BY <1>1, <1>2, <1>3, <1>4, <1>5 DEF AllHome

-----------------------------------------------------------------------------
(* The worker threads. *)

LEMMA ReadOpens ==
    ASSUME NEW l, NEW b
    PROVE  /\ Head(read_sectors(b, l)) = Open(b)
           /\ Tail(read_sectors(b, l)) = <<Ask("read", l), ReportOf(l)>>
           /\ Open(b).do = "open" /\ Open(b).tries = 1 /\ ~Open(b).lax /\ Open(b).fails = Error
BY DEF read_sectors, ReportOf, Open, Step

LEMMA ReadAsks ==
    ASSUME NEW l
    PROVE  /\ Head(<<Ask("read", l), ReportOf(l)>>) = Ask("read", l)
           /\ Tail(<<Ask("read", l), ReportOf(l)>>) = <<ReportOf(l)>>
           /\ Ask("read", l).do = "read" /\ Ask("read", l).arg = l /\ Ask("read", l).tries = 1
           /\ ~Ask("read", l).lax /\ Ask("read", l).fails = Error
BY DEF Ask, Step

LEMMA ReadReports ==
    ASSUME NEW l
    PROVE  /\ Head(<<ReportOf(l)>>) = ReportOf(l) /\ Tail(<<ReportOf(l)>>) = <<>>
           /\ ReportOf(l).do = "tell" /\ ReportOf(l).arg = [type |-> "SectorsRead", lba |-> l]
BY DEF ReportOf, Tell, Step

LEMMA ContinueKeeps ==
    ASSUME Threads, NEW s \in Slots, NEW w, DOMAIN w = Fields, NEW steps,
           Harmless(steps) \/ Reads([w EXCEPT !.rest = steps]),
           Continue(s, w, steps)
    PROVE  Threads'
<1> DEFINE v == IF steps = <<>> /\ ~w.open THEN NoThread ELSE [w EXCEPT !.rest = steps]
<1>1. workers' = [workers EXCEPT ![s] = v]
  BY DEF Continue
<1>2. DOMAIN v = Fields /\ (Harmless(v.rest) \/ Reads(v))
  BY HarmlessEmpty DEF NoThread, Fields
<1> HIDE DEF v
<1>3. DOMAIN workers' = Slots /\ \A t \in Slots : workers'[t] = IF t = s THEN v ELSE workers[t]
  BY <1>1 DEF Threads
<1> QED BY <1>2, <1>3 DEF Threads, Fields, Reads

LEMMA FailKeeps ==
    ASSUME Threads, NEW s \in Slots, workers[s].rest # <<>>, Head(workers[s].rest).do # "tell",
           Fail(s, workers[s])
    PROVE  Threads'
<1> DEFINE w    == workers[s]
           step == Head(w.rest)
           next == IF step.tries > 1 THEN <<[step EXCEPT !.tries = @ - 1]>> \o Tail(w.rest)
                   ELSE IF step.lax THEN Tail(w.rest) ELSE step.fails
<1>1. DOMAIN w = Fields /\ (Harmless(w.rest) \/ Reads(w))
  BY DEF Threads, Fields
<1>2. Harmless(next)
  <2>1. CASE Harmless(w.rest)
    <3>1. Gentle(step) /\ Harmless(Tail(w.rest)) /\ Harmless(step.fails)
      BY <2>1, HarmlessStep DEF Gentle
    <3>2. Gentle([step EXCEPT !.tries = @ - 1])
      <4> HIDE DEF step
      <4> QED BY <3>1, GentleExcept
    <3>3. Harmless(<<[step EXCEPT !.tries = @ - 1]>> \o Tail(w.rest))
      <4> HIDE DEF step
      <4> QED BY <3>1, <3>2, HarmlessSteps, HarmlessConcat
    <3> QED BY <3>1, <3>3
  <2>2. CASE Reads(w)
    <3>1. PICK l \in Lbas :
            \/ \E b : w.rest = read_sectors(b, l)
            \/ w.rest = <<Ask("read", l), ReportOf(l)>>
            \/ w.rest = <<ReportOf(l)>> /\ Home(w.got, l)
      BY <2>2 DEF Reads
    <3>2. step.tries = 1 /\ ~step.lax /\ step.fails = Error
      <4>1. CASE \E b : w.rest = read_sectors(b, l)
        BY <4>1, ReadOpens
      <4>2. CASE w.rest = <<Ask("read", l), ReportOf(l)>>
        <5>1. step = Ask("read", l)
          BY <4>2, ReadAsks
        <5> QED BY <5>1, ReadAsks
      <4>3. CASE w.rest = <<ReportOf(l)>>
        <5>1. step = ReportOf(l) /\ ReportOf(l).do = "tell"
          BY <4>3, ReadReports
        <5> QED BY <5>1
      <4> QED BY <3>1, <4>1, <4>2, <4>3
    <3> HIDE DEF step
    <3> QED BY <3>2, HarmlessError
  <2> QED BY <1>1, <2>1, <2>2
<1>3. Continue(s, w, next)
  BY DEF Fail
<1> HIDE DEF w, next
<1> QED BY <1>1, <1>2, <1>3, ContinueKeeps

\* The next step of a thread that does not exchange anything.
LEMMA ProceedKeeps ==
    ASSUME Threads, NEW s \in Slots, workers[s].rest # <<>>, Head(workers[s].rest).do # "read",
           NEW w, DOMAIN w = Fields, w.rest = workers[s].rest, w.got = workers[s].got,
           Proceed(s, w)
    PROVE  Threads'
<1>1. Harmless(w.rest) \/ Reads(w)
  BY DEF Threads, Reads
<1>2. Continue(s, w, Tail(w.rest))
  BY DEF Proceed
<1>3. CASE Harmless(w.rest)
  <2>1. Harmless(Tail(w.rest))
    BY <1>3, HarmlessStep
  <2> QED BY <2>1, <1>2, ContinueKeeps
<1>4. CASE Reads(w)
  <2>1. PICK l \in Lbas :
            \/ \E b : w.rest = read_sectors(b, l)
            \/ w.rest = <<Ask("read", l), ReportOf(l)>>
            \/ w.rest = <<ReportOf(l)>> /\ Home(w.got, l)
    BY <1>4 DEF Reads
  <2>2. CASE \E b : w.rest = read_sectors(b, l)
    <3> DEFINE v == [w EXCEPT !.rest = Tail(w.rest)]
    <3>1. v.rest = <<Ask("read", l), ReportOf(l)>>
      BY <2>2, ReadOpens DEF Fields
    <3>2. Reads(v)
      <4> HIDE DEF v
      <4> QED BY <3>1 DEF Reads
    <3> QED BY <3>2, <1>2, ContinueKeeps
  <2>3. CASE w.rest = <<Ask("read", l), ReportOf(l)>>
    <3>1. Head(w.rest) = Ask("read", l)
      BY <2>3, ReadAsks
    <3>2. Ask("read", l).do = "read"
      BY ReadAsks
    <3> QED BY <3>1, <3>2
  <2>4. CASE w.rest = <<ReportOf(l)>>
    <3>1. Tail(w.rest) = <<>>
      BY <2>4, ReadReports
    <3> QED BY <3>1, <1>2, HarmlessEmpty, ContinueKeeps
  <2> QED BY <2>1, <2>2, <2>3, <2>4
<1> QED BY <1>1, <1>3, <1>4

\* A command and its answer: a read brings what is at home, a write takes it home.
LEMMA ObeyKeeps ==
    ASSUME Reader, Sectors, NEW do, NEW arg, Obey(do, arg),
           do = "write" => Home(arg.data, arg.lba),
           do \in {"set_partition", "switch_part"} => arg \in EmmcPartition
    PROVE  Reader' /\ Sectors'
<1>1. Reader'
  BY DEF Reader, Obey, EmmcPartition
<1>2. Sectors'
  <2>1. CASE do = "write"
    <3>1. card' = [card EXCEPT ![fpga.part][arg.lba] = arg.data]
      BY <2>1 DEF Obey
    <3> QED BY <2>1, <3>1 DEF Sectors
  <2>2. CASE do \in {"erase", "secure_erase"}
    <3>1. card' = [card EXCEPT ![fpga.part][arg] = <<"none", arg>>]
      BY <2>2 DEF Obey
    <3>2. Home(<<"none", arg>>, arg)
      BY DEF Home, EmmcPartition
    <3> QED BY <3>1, <3>2 DEF Sectors
  <2>3. CASE do \notin {"write", "erase", "secure_erase"}
    BY <2>3 DEF Obey, Sectors
  <2> QED BY <2>1, <2>2, <2>3
<1> QED BY <1>1, <1>2

LEMMA ExchangeKeeps ==
    ASSUME AllHome, NEW s \in Slots, Exchange(s)
    PROVE  AllHome'
<1> DEFINE w    == workers[s]
           step == Head(w.rest)
<1>1. w.rest # <<>> /\ step.do \notin Local /\ UNCHANGED <<ui, channel>>
  BY DEF Exchange
<1>2. Threads /\ Reader /\ Sectors /\ Messages' /\ Editor(ui')
  BY <1>1 DEF AllHome, Messages
<1>3. DOMAIN w = Fields /\ (Harmless(w.rest) \/ Reads(w))
  BY <1>2 DEF Threads
<1>4. CASE Fail(s, w) /\ UNCHANGED <<fpga, card>>
  <2>1. Threads'
    BY <1>1, <1>2, <1>4, FailKeeps DEF Local
  <2> QED BY <1>2, <1>4, <2>1 DEF AllHome, Reader, Sectors
<1>5. /\ step.do = "write" => Home(step.arg.data, step.arg.lba)
      /\ step.do \in {"set_partition", "switch_part"} => step.arg \in EmmcPartition
  <2>1. CASE Harmless(w.rest)
    BY <2>1, <1>1, HarmlessStep DEF MovesHome
  <2>2. CASE Reads(w)
    <3>1. PICK l \in Lbas :
            \/ \E b : w.rest = read_sectors(b, l)
            \/ w.rest = <<Ask("read", l), ReportOf(l)>>
            \/ w.rest = <<ReportOf(l)>> /\ Home(w.got, l)
      BY <2>2 DEF Reads
    <3>2. step \in {Ask("read", l), ReportOf(l)} \/ \E b : step = Open(b)
      BY <3>1, ReadOpens, ReadAsks, ReadReports
    <3>3. step.do \in {"read", "tell", "open"}
      <4>1. /\ Ask("read", l).do = "read" /\ ReportOf(l).do = "tell"
            /\ \A b : Open(b).do = "open"
        BY ReadOpens, ReadAsks, ReadReports
      <4> HIDE DEF step
      <4> QED BY <3>2, <4>1
    <3> QED BY <3>3
  <2> QED BY <1>3, <2>1, <2>2
<1>6. ASSUME Obey(step.do, step.arg) PROVE Reader' /\ Sectors'
  <2> HIDE DEF step
  <2> QED BY <1>2, <1>5, <1>6, ObeyKeeps
<1>7. CASE Fail(s, w) /\ Obey(step.do, step.arg)
  <2>1. Threads'
    BY <1>1, <1>2, <1>7, FailKeeps DEF Local
  <2> QED BY <1>2, <1>6, <1>7, <2>1 DEF AllHome
<1>8. CASE Obey(step.do, step.arg) /\ Proceed(s, [w EXCEPT !.got = Answer(step.do, step.arg)])
  <2> DEFINE v == [w EXCEPT !.got = Answer(step.do, step.arg)]
  <2>1. DOMAIN v = Fields /\ v.rest = w.rest /\ Continue(s, v, Tail(w.rest))
    BY <1>3, <1>8 DEF Proceed, Fields
  <2>2. Harmless(Tail(w.rest)) \/ Reads([v EXCEPT !.rest = Tail(w.rest)])
    <3>1. CASE Harmless(w.rest)
      BY <3>1, <1>1, HarmlessStep
    <3>2. CASE Reads(w)
      <4>1. PICK l \in Lbas :
              \/ \E b : w.rest = read_sectors(b, l)
              \/ w.rest = <<Ask("read", l), ReportOf(l)>>
              \/ w.rest = <<ReportOf(l)>> /\ Home(w.got, l)
        BY <3>2 DEF Reads
      <4>2. ~ \E b : w.rest = read_sectors(b, l)
        BY <1>1, ReadOpens DEF Local
      <4>3. w.rest # <<ReportOf(l)>>
        <5> SUFFICES ASSUME w.rest = <<ReportOf(l)>> PROVE FALSE
          OBVIOUS
        <5>1. step = ReportOf(l) /\ ReportOf(l).do = "tell"
          BY ReadReports
        <5> QED BY <5>1, <1>1 DEF Local
      <4>4. Tail(w.rest) = <<ReportOf(l)>> /\ step = Ask("read", l)
        BY <4>1, <4>2, <4>3, ReadAsks
      <4>5. Answer(step.do, step.arg) = card[fpga.part][l]
        <5>1. step.do = "read" /\ step.arg = l
          <6> HIDE DEF step
          <6> QED BY <4>4, ReadAsks
        <5> QED BY <5>1 DEF Answer
      <4>6. Home(card[fpga.part][l], l)
        BY <1>2 DEF Reader, Sectors
      <4> DEFINE z == [v EXCEPT !.rest = Tail(w.rest)]
      <4>7. z.rest = <<ReportOf(l)>> /\ z.got = card[fpga.part][l]
        BY <1>3, <4>4, <4>5 DEF Fields
      <4> HIDE DEF z
      <4>8. Reads(z)
        BY <4>6, <4>7 DEF Reads
      <4> QED BY <4>8 DEF z
    <3> QED BY <1>3, <3>1, <3>2
  <2>3. Threads'
    <3> HIDE DEF v, w
    <3> QED BY <1>2, <2>1, <2>2, ContinueKeeps
  <2> QED BY <1>2, <1>6, <1>8, <2>3 DEF AllHome
<1>9. CASE /\ Fail(s, w) /\ fpga' = [fpga EXCEPT !.quiet = 0] /\ UNCHANGED card
  <2>1. Threads'
    BY <1>1, <1>2, <1>9, FailKeeps DEF Local
  <2>2. Reader' /\ Sectors'
    BY <1>2, <1>9 DEF Reader, Sectors
  <2> QED BY <1>2, <2>1, <2>2 DEF AllHome
<1> QED BY <1>4, <1>7, <1>8, <1>9 DEF Exchange

LEMMA OpenPortKeeps ==
    ASSUME AllHome, NEW s \in Slots, OpenPort(s)
    PROVE  AllHome'
<1> DEFINE w == workers[s]
           rate == Head(w.rest).arg
<1>1. w.rest # <<>> /\ Head(w.rest).do = "open" /\ UNCHANGED <<ui, channel, fpga, card>>
  BY DEF OpenPort, Runs
<1>2. Threads /\ DOMAIN w = Fields
  BY DEF AllHome, Threads
<1>3. CASE Fail(s, w)
  <2>1. Threads'
    BY <1>1, <1>2, <1>3, FailKeeps
  <2> QED BY <1>1, <2>1 DEF AllHome, Messages, Reader, Sectors
<1>4. CASE Proceed(s, [w EXCEPT !.open = TRUE, !.baud = rate])
  <2> DEFINE v == [w EXCEPT !.open = TRUE, !.baud = rate]
  <2>1. DOMAIN v = Fields /\ v.rest = w.rest /\ v.got = w.got
    BY <1>2 DEF Fields
  <2>2. Threads'
    <3> HIDE DEF v
    <3> QED BY <1>1, <1>2, <1>4, <2>1, ProceedKeeps DEF v
  <2> QED BY <1>1, <2>2 DEF AllHome, Messages, Reader, Sectors
<1> QED BY <1>3, <1>4 DEF OpenPort

LEMMA LocalKeeps ==
    ASSUME AllHome, NEW s \in Slots, ClosePort(s) \/ Poll(s) \/ End(s)
    PROVE  AllHome'
<1> DEFINE w == workers[s]
<1>1. UNCHANGED <<ui, channel, fpga, card>>
  BY DEF ClosePort, Poll, End
<1>2. Threads /\ DOMAIN w = Fields
  BY DEF AllHome, Threads
<1>3. SUFFICES Threads'
  BY <1>1 DEF AllHome, Messages, Reader, Sectors
<1>4. CASE ClosePort(s)
  <2> DEFINE v == [w EXCEPT !.open = FALSE]
  <2>1. DOMAIN v = Fields /\ v.rest = w.rest /\ v.got = w.got
    BY <1>2 DEF Fields
  <2>2. w.rest # <<>> /\ Head(w.rest).do = "close" /\ Proceed(s, v)
    BY <1>4 DEF ClosePort, Runs
  <2> HIDE DEF v
  <2> QED BY <1>2, <2>1, <2>2, ProceedKeeps
<1>5. CASE Poll(s)
  <2>1. w.rest # <<>> /\ Head(w.rest).do = "poll" /\ (Fail(s, w) \/ Proceed(s, w))
    BY <1>5 DEF Poll, Runs
  <2> QED BY <1>2, <2>1, FailKeeps, ProceedKeeps
<1>6. CASE End(s)
  <2>1. workers' = [workers EXCEPT ![s] = NoThread]
    BY <1>6 DEF End
  <2>2. DOMAIN NoThread = Fields /\ Harmless(NoThread.rest)
    BY HarmlessEmpty DEF NoThread, Fields
  <2>3. DOMAIN workers' = Slots /\ \A t \in Slots : workers'[t] = IF t = s THEN NoThread ELSE workers[t]
    BY <1>2, <2>1 DEF Threads
  <2> QED BY <1>2, <2>2, <2>3 DEF Threads, Reads
<1> QED BY <1>4, <1>5, <1>6

LEMMA ReportKeeps ==
    ASSUME AllHome, NEW s \in Slots, Report(s)
    PROVE  AllHome'
<1> DEFINE w == workers[s]
<1>1. w.rest # <<>> /\ Head(w.rest).do = "tell" /\ Proceed(s, w) /\ UNCHANGED <<ui, fpga, card>>
  BY DEF Report, Runs
<1>2. Threads /\ DOMAIN w = Fields /\ (Harmless(w.rest) \/ Reads(w))
  BY DEF AllHome, Threads
<1>3. Threads'
  BY <1>1, <1>2, ProceedKeeps
<1>4. PICK m \in Message(w) : channel' = Append(channel, m)
  BY DEF Report
<1>5. Truthful(m)
  <2> DEFINE told == Head(w.rest).arg
  <2>1. CASE told.type # "SectorsRead"
    BY <1>4, <2>1 DEF Message, Truthful
  <2>2. CASE told.type = "SectorsRead"
    <3>1. m = [type |-> told.type, lba |-> told.lba, data |-> w.got]
      BY <1>4, <2>2 DEF Message
    <3>2. ~Harmless(w.rest)
      BY <1>1, <2>2, HarmlessStep DEF MovesHome
    <3>3. PICK l \in Lbas :
            \/ \E b : w.rest = read_sectors(b, l)
            \/ w.rest = <<Ask("read", l), ReportOf(l)>>
            \/ w.rest = <<ReportOf(l)>> /\ Home(w.got, l)
      BY <1>2, <3>2 DEF Reads
    <3>4. CASE \E b : w.rest = read_sectors(b, l)
      BY <1>1, <3>4, ReadOpens
    <3>5. CASE w.rest = <<Ask("read", l), ReportOf(l)>>
      <4>1. Head(w.rest) = Ask("read", l) /\ Ask("read", l).do = "read"
        BY <3>5, ReadAsks
      <4> QED BY <4>1, <1>1
    <3>6. CASE w.rest = <<ReportOf(l)>> /\ Home(w.got, l)
      <4>1. Head(w.rest) = ReportOf(l) /\ ReportOf(l).arg = [type |-> "SectorsRead", lba |-> l]
        BY <3>6, ReadReports
      <4>2. told.lba = l
        <5> HIDE DEF w
        <5> QED BY <4>1
      <4> QED BY <3>1, <3>6, <4>2 DEF Truthful
    <3> QED BY <3>3, <3>4, <3>5, <3>6
  <2> QED BY <2>1, <2>2
<1>6. Messages'
  <2>1. PICK E : channel \in Seq(E)
    BY DEF AllHome, Messages
  <2>2. Append(channel, m) \in Seq(E \union {m})
    <3>1. channel \in Seq(E \union {m})
      BY <2>1
    <3> QED BY <3>1
  <2>3. \A i \in 1..Len(channel') : Truthful(channel'[i])
    BY <1>4, <1>5, <2>1 DEF AllHome, Messages
  <2> QED BY <1>4, <2>2, <2>3 DEF Messages
<1> QED BY <1>1, <1>3, <1>6 DEF AllHome, Reader, Sectors

LEMMA WorkerKeeps ==
    ASSUME AllHome, NEW s \in Slots, Worker(s)
    PROVE  AllHome'
BY OpenPortKeeps, LocalKeeps, ExchangeKeeps, ReportKeeps DEF Worker

-----------------------------------------------------------------------------
(* The frame: messages come in, a request is dispatched. *)

LEMMA ReceiveKeeps ==
    ASSUME NEW u, Editor(u), NEW m, Truthful(m)
    PROVE  Editor(receive(u, m))
<1>1. CASE m.type = "SectorsRead"
  <2>1. receive(u, m) = set_completed(ShowReading(u, m))
    BY <1>1 DEF receive
  <2>2. Home(m.data, m.lba)
    BY <1>1 DEF Truthful
  <2> QED BY <2>1, <2>2 DEF ShowReading, Editor, AppState, set_completed
<1>2. CASE m.type # "SectorsRead"
  <2> DEFINE Same(v) == /\ DOMAIN v = DOMAIN u
                        /\ v.sector = u.sector /\ v.sector_lba = u.sector_lba
                        /\ v.hex = u.hex /\ v.hex_source = u.hex_source
                        /\ v.dialog = u.dialog /\ v.pending = u.pending /\ v.picker = u.picker
  <2>1. DOMAIN u = DOMAIN AppState(FALSE)
    BY DEF Editor
  <2>2. \A v : Same(v) => Same(set_completed(v)) /\ Same(set_failed(v))
    BY <2>1 DEF AppState, set_completed, set_failed
  <2>3. Same(u) /\ Same(ShowSpeed(u, m)) /\ Same(ShowBaud(u, m)) /\ Same(ShowStatus(u, m))
    BY <2>1 DEF AppState, ShowSpeed, ShowBaud, ShowStatus
  <2>4. /\ Same([u EXCEPT !.sized = TRUE]) /\ Same([u EXCEPT !.bus_width = m.width])
        /\ Same([u EXCEPT !.clk_preset = m.preset]) /\ Same([u EXCEPT !.table = TRUE])
        /\ Same([u EXCEPT !.ext4 = TRUE]) /\ Same([u EXCEPT !.preview = FALSE])
        /\ Same([u EXCEPT !.preview = TRUE]) /\ Same([u EXCEPT !.keepalive_pending = FALSE])
    BY <2>1 DEF AppState
  <2> HIDE DEF Same
  <2>5. Same(receive(u, m))
    <3> QED BY <1>2, <2>2, <2>3, <2>4 DEF receive
  <2> QED BY <2>5 DEF Same, Editor
<1> QED BY <1>1, <1>2

\* The recursive function after is what its definition says.
LEMMA AfterExists ==
    ASSUME NEW n \in Nat
    PROVE  \E f : f = [i \in 0..n |-> IF i = 0 THEN ui ELSE receive(f[i - 1], channel[i])]
<1> DEFINE Is(f, k) == f = [i \in 0..k |-> IF i = 0 THEN ui ELSE receive(f[i - 1], channel[i])]
           Wrong == {k \in Nat : ~ \E f : Is(f, k)}
<1>1. SUFFICES ASSUME Wrong # {} PROVE FALSE
  OBVIOUS
<1>2. PICK k \in Wrong : \A j \in Wrong : k <= j
  <2> Wrong \in SUBSET Nat
    OBVIOUS
  <2> HIDE DEF Wrong
  <2> QED BY <1>1, LeastNumber
<1>3. k # 0
  <2>1. Is([i \in 0..0 |-> ui], 0)
    OBVIOUS
  <2> QED BY <2>1
<1>4. k \in Nat \ {0} /\ k - 1 \in Nat /\ ~(k <= k - 1)
  BY <1>3
<1>5. k - 1 \notin Wrong
  <2> HIDE DEF Wrong
  <2> QED BY <1>2, <1>4
<1>6. PICK f : Is(f, k - 1)
  BY <1>4, <1>5
<1> DEFINE g == [i \in 0..k |-> IF i = k THEN receive(f[k - 1], channel[k]) ELSE f[i]]
<1>7. Is(g, k)
  <2>1. \A i \in 0..k : g[i] = IF i = 0 THEN ui ELSE receive(g[i - 1], channel[i])
    <3> SUFFICES ASSUME NEW i \in 0..k
                 PROVE  g[i] = IF i = 0 THEN ui ELSE receive(g[i - 1], channel[i])
      OBVIOUS
    <3> HIDE DEF Wrong
    <3>1. CASE i = k
      <4>1. i # 0 /\ i - 1 = k - 1 /\ k - 1 \in 0..k /\ k - 1 # k
        BY <1>4, <3>1
      <4>2. g[k] = receive(f[k - 1], channel[k]) /\ g[k - 1] = f[k - 1]
        BY <1>4, <4>1
      <4> HIDE DEF g
      <4> QED BY <3>1, <4>1, <4>2
    <3>2. CASE i # k
      <4>1. i \in 0..k - 1 /\ (i # 0 => i - 1 \in 0..k - 1 /\ i - 1 # k)
        BY <1>4, <3>2
      <4>2. f[i] = IF i = 0 THEN ui ELSE receive(f[i - 1], channel[i])
        BY <1>6, <4>1
      <4> QED BY <4>1, <4>2, <3>2, <1>4
    <3> QED BY <3>1, <3>2
  <2> HIDE DEF Wrong
  <2>2. g = [i \in 0..k |-> g[i]]
    OBVIOUS
  <2> HIDE DEF g
  <2> QED BY <2>1, <2>2
<1> QED BY <1>2, <1>7

LEMMA AfterKeeps ==
    ASSUME Editor(ui), Messages
    PROVE  Editor(after[Len(channel)])
<1> DEFINE n == Len(channel)
<1>1. n \in Nat
  BY DEF Messages
<1>2. after = [i \in 0..n |-> IF i = 0 THEN ui ELSE receive(after[i - 1], channel[i])]
  BY <1>1, AfterExists DEF after
<1>3. ASSUME NEW k \in 0..n, \A j \in 0..n : j < k => Editor(after[j])
      PROVE  Editor(after[k])
  <2>1. CASE k = 0
    <3>1. after[k] = ui
      BY <1>1, <1>2, <2>1
    <3> QED BY <3>1
  <2>2. CASE k # 0
    <3>1. k - 1 \in 0..n /\ k - 1 < k /\ k \in 1..n
      BY <1>1, <2>2
    <3>2. Editor(after[k - 1]) /\ Truthful(channel[k])
      BY <3>1, <1>3 DEF Messages
    <3>3. after[k] = receive(after[k - 1], channel[k])
      BY <1>2, <2>2
    <3> QED BY <3>2, <3>3, ReceiveKeeps
  <2> QED BY <2>1, <2>2
<1> DEFINE Wrong == {k \in 0..n : ~Editor(after[k])}
<1>4. ASSUME Wrong # {} PROVE FALSE
  <2>1. PICK k \in Wrong : \A j \in Wrong : k <= j
    <3> Wrong \in SUBSET Nat
      BY <1>1
    <3> HIDE DEF Wrong
    <3> QED BY <1>4, LeastNumber
  <2>2. \A j \in 0..n : j < k => Editor(after[j])
    BY <2>1
  <2> QED BY <1>3, <2>2
<1>5. n \in 0..n
  BY <1>1
<1> QED BY <1>4, <1>5

LEMMA ProcessMessagesKeeps ==
    ASSUME AllHome, process_messages
    PROVE  AllHome'
<1>1. Editor(ui')
  BY AfterKeeps DEF AllHome, process_messages
<1>2. Messages'
  <2>1. channel' = <<>> /\ <<>> \in Seq({}) /\ Len(<<>>) = 0
    BY DEF process_messages
  <2> QED BY <2>1 DEF Messages
<1> QED BY <1>1, <1>2 DEF AllHome, process_messages, Threads, Reader, Sectors, Reads

-----------------------------------------------------------------------------
(* New threads, and what the GUI thread does to the editor. *)

Started(script) ==
    \E s \in Slots : \E w :
        workers' = [workers EXCEPT ![s] = w] /\ DOMAIN w = Fields /\ w.rest = script

LEMMA SpawnStarts ==
    ASSUME NEW script, NEW op, NEW causes, Spawn(script, op, causes)
    PROVE  Started(script)
<1> DEFINE s == CHOOSE t \in Slots : ~Alive(t)
           w == [NoThread EXCEPT !.rest = script, !.op = op]
<1>1. s \in Slots
  BY DEF Spawn
<1>2. workers' = [workers EXCEPT ![s] = w]
  BY DEF Spawn
<1>3. DOMAIN w = Fields /\ w.rest = script
  BY DEF NoThread, Fields
<1> QED BY <1>1, <1>2, <1>3 DEF Started

LEMMA StartedKeeps ==
    ASSUME Threads, NEW script, Started(script),
           Harmless(script) \/ \E l \in Lbas : \E b : script = read_sectors(b, l)
    PROVE  Threads'
<1>1. PICK s \in Slots :
        \E w : workers' = [workers EXCEPT ![s] = w] /\ DOMAIN w = Fields /\ w.rest = script
  BY DEF Started
<1>2. PICK w : workers' = [workers EXCEPT ![s] = w] /\ DOMAIN w = Fields /\ w.rest = script
  BY <1>1
<1>3. Harmless(w.rest) \/ Reads(w)
  BY <1>2 DEF Reads
<1>4. DOMAIN workers' = Slots /\ \A t \in Slots : workers'[t] = IF t = s THEN w ELSE workers[t]
  BY <1>2 DEF Threads
<1> QED BY <1>2, <1>3, <1>4 DEF Threads, Reads

\* The GUI's state with the same contents, where nothing new asks for a write-back.
Like(u, v) ==
    /\ DOMAIN v = DOMAIN u
    /\ v.sector = u.sector /\ v.sector_lba = u.sector_lba
    /\ v.hex = u.hex /\ v.hex_source \subseteq u.hex_source
    /\ v.dialog = u.dialog \/ v.dialog.name # "hex_write_back"
    /\ v.pending = u.pending \/ v.pending.name # "hex_write_back"
    /\ \/ v.picker = u.picker
       \/ v.picker.name = "ask" => v.picker.action.name # "hex_write_back"

LEMMA LikeKeeps ==
    ASSUME NEW u, NEW v, Editor(u), Like(u, v)
    PROVE  Editor(v)
BY DEF Editor, Like

LEMMA LikeRunning ==
    ASSUME NEW u, NEW v, DOMAIN u = DOMAIN AppState(FALSE), Like(u, v)
    PROVE  /\ Like(u, set_running(v)) /\ Like(u, set_completed(v)) /\ Like(u, set_failed(v))
BY DEF Like, AppState, set_running, set_completed, set_failed

Elsewhere == UNCHANGED <<channel, fpga, card>>

LEMMA LaunchKeeps ==
    ASSUME AllHome, Elsewhere, NEW u, Like(ui, u), NEW script, Launches(u, script),
           Harmless(script) \/ \E l \in Lbas : \E b : script = read_sectors(b, l)
    PROVE  AllHome'
<1>1. Started(script)
  <2>1. \E op, causes : Spawn(script, op, causes)
    BY DEF Launches
  <2> QED BY <2>1, SpawnStarts
<1>2. Threads'
  BY <1>1, StartedKeeps DEF AllHome
<1>3. Editor(ui')
  <2>1. Like(ui, ui')
    BY LikeRunning DEF Launches, AllHome, Editor
  <2> QED BY <2>1, LikeKeeps DEF AllHome
<1> QED BY <1>2, <1>3 DEF AllHome, Elsewhere, Messages, Reader, Sectors

LEMMA SetsKeeps ==
    ASSUME AllHome, Elsewhere, NEW u, Editor(u), Sets(u)
    PROVE  AllHome'
<1>1. Threads' /\ Editor(ui')
  BY DEF AllHome, Sets, Threads, Reads
<1> QED BY <1>1 DEF AllHome, Elsewhere, Messages, Reader, Sectors

LEMMA ChoiceKeeps ==
    ASSUME AllHome, Elsewhere, NEW action, action.name \notin {"hex_write_back", "ask"},
           Asks(action) \/ Requests(action) \/ Picks(action)
    PROVE  AllHome'
<1>1. DOMAIN ui = DOMAIN AppState(FALSE)
  BY DEF AllHome, Editor
<1>2. /\ Like(ui, [ui EXCEPT !.dialog = action])
      /\ Like(ui, [ui EXCEPT !.pending = action])
      /\ Like(ui, [ui EXCEPT !.picker = action, !.waited = 0])
  BY <1>1 DEF Like, AppState
<1> QED BY <1>2, LikeKeeps, SetsKeeps DEF Asks, Requests, Picks, AllHome

LEMMA PickToAskKeeps ==
    ASSUME AllHome, Elsewhere, NEW action, action.name # "hex_write_back",
           Picks([name |-> "ask", action |-> action])
    PROVE  AllHome'
<1> DEFINE choice == [name |-> "ask", action |-> action]
           u      == [ui EXCEPT !.picker = choice, !.waited = 0]
<1>1. DOMAIN ui = DOMAIN AppState(FALSE)
  BY DEF AllHome, Editor
<1>2. Like(ui, u)
  BY <1>1 DEF Like, AppState
<1>3. Sets(u)
  BY DEF Picks
<1> HIDE DEF u
<1> QED BY <1>2, <1>3, LikeKeeps, SetsKeeps DEF AllHome

-----------------------------------------------------------------------------
(* The panels. *)

LEMMA NoDataIsHome == \A l : Home(NoData, l) /\ Home(FileData(l), l)
BY DEF Home, NoData, FileData, EmmcPartition

LEMMA ConnectionKeeps ==
    ASSUME AllHome,
           \/ Refresh \/ ToggleFifo \/ Connect \/ Disconnect \/ SelectPartition
           \/ SpeedControl \/ Cancel \/ QuickActions \/ RawCommand
    PROVE  AllHome'
<1>1. DOMAIN ui = DOMAIN AppState(FALSE) /\ Editor(ui)
  BY DEF AllHome, Editor
<1>2. Elsewhere
  BY DEF Elsewhere, Refresh, ToggleFifo, Connect, Disconnect, SelectPartition, SpeedControl,
         Cancel, QuickActions, RawCommand, Enabled, Click
<1>3. Like(ui, ui)
  BY DEF Like
<1>4. CASE Refresh
  <2>1. Started(scan_ports) /\ UNCHANGED ui
    <3>1. \E op, causes : Spawn(scan_ports, op, causes)
      BY <1>4 DEF Refresh
    <3> QED BY <1>4, <3>1, SpawnStarts DEF Refresh
  <2>2. Threads'
    BY <2>1, HarmlessCardOperations, StartedKeeps DEF AllHome
  <2> QED BY <1>2, <2>1, <2>2 DEF AllHome, Elsewhere, Messages, Reader, Sectors
<1>5. CASE ToggleFifo
  <2>1. Like(ui, ui') /\ UNCHANGED workers
    BY <1>1, <1>5 DEF ToggleFifo, Like, AppState
  <2>2. Editor(ui') /\ Threads'
    BY <1>1, <2>1, LikeKeeps DEF AllHome, Threads, Reads
  <2> QED BY <1>2, <2>2 DEF AllHome, Elsewhere, Messages, Reader, Sectors
<1>6. CASE Connect
  <2>1. PICK profile \in user.profiles :
          \E op, causes : Spawn(connect(ui.use_fifo, DefaultBaud, profile), op, causes)
    BY <1>6 DEF Connect
  <2>2. Threads'
    BY <2>1, SpawnStarts, StartedKeeps, HarmlessConnect DEF AllHome
  <2>3. ui' = set_running(ui)
    BY <1>6 DEF Connect
  <2>4. Editor(ui')
    BY <1>1, <1>3, <2>3, LikeRunning, LikeKeeps
  <2> QED BY <1>2, <2>2, <2>4 DEF AllHome, Elsewhere, Messages, Reader, Sectors
<1>7. CASE Disconnect
  <2> DEFINE u == [ui EXCEPT !.connected = FALSE, !.sized = FALSE, !.table = FALSE, !.ext4 = FALSE]
  <2>1. Like(ui, u)
    BY <1>1 DEF Like, AppState
  <2>2. Sets(set_completed(u))
    BY <1>7 DEF Disconnect
  <2> HIDE DEF u
  <2> QED BY <1>1, <1>2, <2>1, <2>2, LikeRunning, LikeKeeps, SetsKeeps
<1>8. CASE SelectPartition
  <2>1. CASE Asks([name |-> "set_partition_rpmb"])
    BY <1>2, <2>1, ChoiceKeeps
  <2>2. CASE \E part \in EmmcPartition \ {"RPMB"} :
               Launches(ShowPartition(part), set_partition(baud, part))
    <3>1. PICK part \in EmmcPartition : Launches(ShowPartition(part), set_partition(baud, part))
      BY <2>2
    <3>2. Like(ui, ShowPartition(part))
      BY <1>1 DEF Like, AppState, ShowPartition
    <3> QED BY <1>2, <3>1, <3>2, HarmlessSetPartition, LaunchKeeps
  <2> QED BY <1>8, <2>1, <2>2 DEF SelectPartition
<1>9. CASE SpeedControl \/ QuickActions \/ RawCommand
  <2>1. CASE \E p : Requests([name |-> "set_clock", preset |-> p])
    BY <1>2, <2>1, ChoiceKeeps
  <2>2. CASE \E p : Requests([name |-> "set_baud", preset |-> p])
    BY <1>2, <2>2, ChoiceKeeps
  <2>3. CASE \E w : Requests([name |-> "set_bus_width", width |-> w])
    BY <1>2, <2>3, ChoiceKeeps
  <2>4. CASE \E name \in {"controller_status", "card_status", "reinit", "raw_cmd"} :
                Requests([name |-> name])
    BY <1>2, <2>4, ChoiceKeeps
  <2> QED BY <1>9, <2>1, <2>2, <2>3, <2>4 DEF SpeedControl, QuickActions, RawCommand
<1>10. CASE Cancel
  <2>1. Like(ui, [ui EXCEPT !.cancel = TRUE])
    BY <1>1 DEF Like, AppState
  <2> QED BY <1>1, <1>2, <1>10, <2>1, LikeKeeps, SetsKeeps DEF Cancel
<1> QED BY <1>4, <1>5, <1>6, <1>7, <1>8, <1>9, <1>10

LEMMA SectorPanelKeeps ==
    ASSUME AllHome,
           \/ Read \/ WriteFromFile \/ Erase \/ WriteExtCsd \/ VerifyVsFile
           \/ DumpToFile \/ RestoreFromFile \/ ReadExtCsd
    PROVE  AllHome'
<1>1. Elsewhere
  BY DEF Elsewhere, Read, WriteFromFile, Erase, WriteExtCsd, VerifyVsFile, DumpToFile,
         RestoreFromFile, ReadExtCsd, Enabled, Click
<1>2. Like(ui, ui)
  BY DEF Like
<1>3. CASE Read
  <2>1. PICK l \in Lbas : Launches(ui, read_sectors(baud, l))
    BY <1>3 DEF Read
  <2> QED BY <1>1, <1>2, <2>1, LaunchKeeps
<1>4. CASE WriteFromFile \/ RestoreFromFile
  <2>1. CASE \E l : Picks([name |-> "ask", action |-> [name |-> "write_sectors", lba |-> l]])
    BY <1>1, <2>1, PickToAskKeeps
  <2>2. CASE Picks([name |-> "ask", action |-> [name |-> "restore"]])
    BY <1>1, <2>2, PickToAskKeeps
  <2> QED BY <1>4, <2>1, <2>2 DEF WriteFromFile, RestoreFromFile
<1>5. CASE Erase \/ WriteExtCsd
  <2>1. CASE \E name \in {"erase", "secure_erase"}, l \in Lbas :
                Asks([name |-> name, lba |-> l])
    BY <1>1, <2>1, ChoiceKeeps
  <2>2. CASE Asks([name |-> "cache_flush"])
    BY <1>1, <2>2, ChoiceKeeps
  <2>3. CASE \E index, value :
               Asks([name |-> "write_extcsd", index |-> index, value |-> value])
    BY <1>1, <2>3, ChoiceKeeps
  <2> QED BY <1>5, <2>1, <2>2, <2>3 DEF Erase, WriteExtCsd
<1>6. CASE VerifyVsFile \/ DumpToFile
  <2>1. CASE \E l : Picks([name |-> "verify", lba |-> l])
    BY <1>1, <2>1, ChoiceKeeps
  <2>2. CASE Picks([name |-> "dump"])
    BY <1>1, <2>2, ChoiceKeeps
  <2> QED BY <1>6, <2>1, <2>2 DEF VerifyVsFile, DumpToFile
<1>7. CASE ReadExtCsd
  <2>1. Launches(ui, read_ext_csd(baud))
    BY <1>7 DEF ReadExtCsd
  <2> QED BY <1>1, <1>2, <2>1, HarmlessCardOperations, LaunchKeeps
<1> QED BY <1>3, <1>4, <1>5, <1>6, <1>7

LEMMA FilePanelsKeep ==
    ASSUME AllHome,
           \/ ReadPartitions \/ DumpPartition \/ Browse \/ LoadFs \/ navigate_ext4
           \/ read_ext4_file \/ OverwriteFile \/ CreateFile
    PROVE  AllHome'
<1>1. Elsewhere
  BY DEF Elsewhere, ReadPartitions, DumpPartition, Browse, LoadFs, navigate_ext4,
         read_ext4_file, OverwriteFile, CreateFile, Enabled, Click
<1>2. Like(ui, ui) /\ Like(ui, [ui EXCEPT !.preview = FALSE])
  BY DEF Like, AllHome, Editor, AppState
<1>3. CASE ReadPartitions
  <2>1. Launches(ui, read_partitions(baud))
    BY <1>3 DEF ReadPartitions
  <2> QED BY <1>1, <1>2, <2>1, HarmlessCardOperations, LaunchKeeps
<1>4. CASE Browse \/ LoadFs
  <2>1. PICK l \in Lbas : Launches(ui, ext4_load(baud, l))
    BY <1>4 DEF Browse, LoadFs
  <2>2. Harmless(ext4_load(baud, l))
    BY HarmlessExt4, NoDataIsHome
  <2> QED BY <1>1, <1>2, <2>1, <2>2, LaunchKeeps
<1>5. CASE navigate_ext4
  <2> DEFINE u == [ui EXCEPT !.preview = FALSE]
  <2>1. Launches(u, ext4_ls(baud, NoData[2]))
    BY <1>5 DEF navigate_ext4
  <2>2. Harmless(ext4_ls(baud, NoData[2]))
    BY HarmlessExt4, NoDataIsHome
  <2>3. Like(ui, u)
    BY <1>2
  <2> HIDE DEF u
  <2> QED BY <1>1, <2>1, <2>2, <2>3, LaunchKeeps
<1>6. CASE read_ext4_file
  <2>1. Launches(ui, ext4_cat(baud, NoData[2]))
    BY <1>6 DEF read_ext4_file
  <2>2. Harmless(ext4_cat(baud, NoData[2]))
    BY HarmlessExt4, NoDataIsHome
  <2> QED BY <1>1, <1>2, <2>1, <2>2, LaunchKeeps
<1>7. CASE OverwriteFile
  <2>1. Picks([name |-> "ask", action |-> [name |-> "ext4_write"]])
    BY <1>7 DEF OverwriteFile
  <2> QED BY <1>1, <2>1, PickToAskKeeps
<1>8. CASE DumpPartition
  <2>1. Picks([name |-> "dump_partition"])
    BY <1>8 DEF DumpPartition
  <2> QED BY <1>1, <2>1, ChoiceKeeps
<1>9. CASE CreateFile
  <2>1. CASE Picks([name |-> "create"])
    BY <1>1, <2>1, ChoiceKeeps
  <2>2. CASE Launches(ui, ext4_create(baud, NoData[2], NoData))
    <3>1. Harmless(ext4_create(baud, NoData[2], NoData))
      BY HarmlessExt4, NoDataIsHome
    <3> QED BY <1>1, <1>2, <2>2, <3>1, LaunchKeeps
  <2> QED BY <1>9, <2>1, <2>2 DEF CreateFile
<1> QED BY <1>3, <1>4, <1>5, <1>6, <1>7, <1>8, <1>9

LEMMA EditorPanelKeeps ==
    ASSUME AllHome, "moved" \notin upset',
           \/ OpenSectors \/ OpenFile \/ HexLoad \/ HexEdit \/ HexWriteBack \/ HexDiscard
           \/ HexSave \/ ConfirmDialog
    PROVE  AllHome'
<1>1. DOMAIN ui = DOMAIN AppState(FALSE) /\ Editor(ui)
  BY DEF AllHome, Editor
<1>2. Elsewhere
  BY DEF Elsewhere, OpenSectors, OpenFile, HexLoad, HexEdit, HexWriteBack, HexDiscard, HexSave,
         ConfirmDialog, Enabled, Click
<1>3. None.name = "none"
  BY DEF None
<1>4. CASE OpenSectors \/ OpenFile
  <2>1. PICK data, source :
          /\ OpenInHex(data, source)
          /\ \/ data = ui.sector /\ source = {ui.sector_lba}
             \/ source = {}
    BY <1>4 DEF OpenSectors, OpenFile
  <2>2. /\ ui' = [ui EXCEPT !.hex = data, !.hex_source = source, !.hex_modified = FALSE]
        /\ ui.dialog.name = "hex_write_back" => source = {ui.dialog.lba}
        /\ UNCHANGED workers
    BY <2>1 DEF OpenInHex
  <2>3. /\ DOMAIN ui' = DOMAIN ui /\ ui'.hex = data /\ ui'.hex_source = source
        /\ ui'.sector = ui.sector /\ ui'.sector_lba = ui.sector_lba
        /\ ui'.dialog = ui.dialog /\ ui'.pending = ui.pending /\ ui'.picker = ui.picker
    BY <1>1, <2>2 DEF AppState
  <2>4. ui.pending = None
    BY <1>4 DEF OpenSectors, OpenFile, Click, Responsive
  <2>5. \A l \in source : Home(data, l)
    BY <1>1, <2>1 DEF Editor
  <2>6. ui.dialog.name = "hex_write_back" => Home(data, ui.dialog.lba)
    BY <2>2, <2>5
  <2>7. Editor(ui')
    BY <1>1, <1>3, <2>3, <2>4, <2>5, <2>6 DEF Editor
  <2> QED BY <1>2, <2>2, <2>7 DEF AllHome, Elsewhere, Threads, Reads, Messages, Reader, Sectors
<1>5. CASE HexLoad
  <2>1. PICK l \in Lbas :
          /\ Spawn(read_sectors(baud, l), TRUE, IF ui.hex_source = {l} THEN {} ELSE {"moved"})
          /\ ui' = set_running([ui EXCEPT !.hex_source = {l}])
    BY <1>5 DEF HexLoad
  <2>2. ui.hex_source = {l}
    BY <2>1 DEF Spawn
  <2>3. Threads'
    <3>1. \E op, causes : Spawn(read_sectors(baud, l), op, causes)
      BY <2>1
    <3> QED BY <3>1, SpawnStarts, StartedKeeps DEF AllHome
  <2>4. Editor(ui')
    <3> DEFINE u == [ui EXCEPT !.hex_source = {l}]
    <3>1. Like(ui, u)
      BY <1>1, <2>2 DEF Like, AppState
    <3> HIDE DEF u
    <3> QED BY <1>1, <2>1, <3>1, LikeRunning, LikeKeeps DEF u
  <2> QED BY <1>2, <2>3, <2>4 DEF AllHome, Elsewhere, Messages, Reader, Sectors
<1>6. CASE HexEdit \/ HexDiscard
  <2>1. PICK u : Sets(u) /\ Like(ui, u)
    <3>1. Like(ui, [ui EXCEPT !.hex_modified = TRUE]) /\ Like(ui, [ui EXCEPT !.hex_modified = FALSE])
      BY <1>1 DEF Like, AppState
    <3> QED BY <1>6, <3>1 DEF HexEdit, HexDiscard
  <2> QED BY <1>1, <1>2, <2>1, LikeKeeps, SetsKeeps
<1>7. CASE HexWriteBack
  <2>1. PICK l \in ui.hex_source : Asks([name |-> "hex_write_back", lba |-> l])
    BY <1>7 DEF HexWriteBack
  <2> DEFINE action == [name |-> "hex_write_back", lba |-> l]
             u == [ui EXCEPT !.dialog = action]
  <2>2. /\ DOMAIN u = DOMAIN ui /\ u.hex = ui.hex /\ u.hex_source = ui.hex_source
        /\ u.sector = ui.sector /\ u.sector_lba = ui.sector_lba
        /\ u.dialog = action /\ u.pending = ui.pending /\ u.picker = ui.picker
    BY <1>1 DEF AppState
  <2>3. Home(ui.hex, l) /\ action.lba = l
    BY <1>1 DEF Editor
  <2>4. Sets(u)
    BY <2>1 DEF Asks
  <2> HIDE DEF u, action
  <2>5. Editor(u)
    BY <1>1, <2>2, <2>3 DEF Editor
  <2> QED BY <1>2, <2>4, <2>5, SetsKeeps
<1>8. CASE HexSave
  <2>1. Picks([name |-> "save"])
    BY <1>8 DEF HexSave
  <2> QED BY <1>2, <2>1, ChoiceKeeps
<1>9. CASE ConfirmDialog
  <2>1. PICK confirmed \in BOOLEAN :
          ui' = [ui EXCEPT !.dialog = None, !.pending = IF confirmed THEN ui.dialog ELSE None]
    BY <1>9 DEF ConfirmDialog
  <2>2. /\ DOMAIN ui' = DOMAIN ui /\ ui'.hex = ui.hex /\ ui'.hex_source = ui.hex_source
        /\ ui'.sector = ui.sector /\ ui'.sector_lba = ui.sector_lba
        /\ ui'.dialog = None /\ ui'.picker = ui.picker
        /\ ui'.pending = ui.dialog \/ ui'.pending = None
    BY <1>1, <2>1 DEF AppState
  <2>3. Editor(ui')
    BY <1>1, <1>3, <2>2 DEF Editor
  <2>4. UNCHANGED workers
    BY <1>9 DEF ConfirmDialog
  <2> QED BY <1>2, <2>3, <2>4 DEF AllHome, Elsewhere, Threads, Reads, Messages, Reader, Sectors
<1> QED BY <1>4, <1>5, <1>6, <1>7, <1>8, <1>9

LEMMA ClosePickerKeeps ==
    ASSUME AllHome, ClosePicker
    PROVE  AllHome'
<1> DEFINE picked == [ui EXCEPT !.picker = None]
           choice == ui.picker
<1>1. DOMAIN ui = DOMAIN AppState(FALSE) /\ Editor(ui) /\ Elsewhere
  BY DEF AllHome, Editor, ClosePicker, Elsewhere
<1>2. Like(ui, picked)
  BY <1>1 DEF Like, AppState, None
<1>3. CASE Sets(picked)
  <2> HIDE DEF picked
  <2> QED BY <1>1, <1>2, <1>3, LikeKeeps, SetsKeeps
<1>4. CASE choice.name = "ask" /\ Sets([picked EXCEPT !.dialog = choice.action])
  <2> DEFINE u == [picked EXCEPT !.dialog = choice.action]
  <2>1. choice.action.name # "hex_write_back"
    BY <1>1, <1>4 DEF Editor
  <2>2. Like(ui, u)
    BY <1>1, <2>1 DEF Like, AppState, None
  <2>3. Sets(u)
    BY <1>4
  <2> HIDE DEF u
  <2> QED BY <1>1, <2>2, <2>3, LikeKeeps, SetsKeeps
<1>5. CASE Launches(picked, verify_sectors(baud, choice.lba))
  <2> HIDE DEF picked
  <2> QED BY <1>1, <1>2, <1>5, HarmlessDump, LaunchKeeps
<1>6. CASE Launches(picked, ext4_create(baud, NoData[2], FileData(NoData[2])))
  <2>1. Harmless(ext4_create(baud, NoData[2], FileData(NoData[2])))
    BY NoDataIsHome, HarmlessExt4
  <2> HIDE DEF picked
  <2> QED BY <1>1, <1>2, <1>6, <2>1, LaunchKeeps
<1>7. CASE \E verify \in BOOLEAN : Launches(picked, dump_to_file(baud, NoData[2], verify))
  <2>1. PICK verify \in BOOLEAN : Launches(picked, dump_to_file(baud, NoData[2], verify))
    BY <1>7
  <2>2. Harmless(dump_to_file(baud, NoData[2], verify))
    BY HarmlessDump
  <2> HIDE DEF picked
  <2> QED BY <1>1, <1>2, <2>1, <2>2, LaunchKeeps
<1> QED BY <1>3, <1>4, <1>5, <1>6, <1>7 DEF ClosePicker

\* The contents of a write-back are the editor's at this moment.
LEMMA HarmlessAction ==
    ASSUME Editor(ui), NEW script \in Script(ui.pending)
    PROVE  Harmless(script)
<1> DEFINE action == ui.pending
<1>1. CASE action.name \in {"write_sectors", "hex_write_back"}
  <2>1. PICK data, v : /\ script = write_sectors(baud, action.lba, data, v)
                       /\ Home(data, action.lba)
    <3>1. CASE action.name = "write_sectors"
      <4>1. PICK v \in BOOLEAN : script = write_sectors(baud, action.lba, FileData(action.lba), v)
        BY <3>1 DEF Script
      <4> QED BY <4>1, NoDataIsHome
    <3>2. CASE action.name = "hex_write_back"
      <4>1. PICK v \in BOOLEAN : script = write_sectors(baud, action.lba, ui.hex, v)
        BY <3>2 DEF Script
      <4> QED BY <3>2, <4>1 DEF Editor
    <3> QED BY <1>1, <3>1, <3>2
  <2> QED BY <2>1, HarmlessWrite
<1>2. CASE action.name = "restore"
  <2>1. PICK v \in BOOLEAN : script = restore_from_file(baud, NoData[2], FileData(NoData[2]), v)
    BY <1>2 DEF Script
  <2> QED BY <2>1, HarmlessRestore, NoDataIsHome
<1>3. CASE action.name = "ext4_write"
  <2>1. script = ext4_write(baud, NoData[2], FileData(NoData[2]))
    BY <1>3 DEF Script
  <2> QED BY <2>1, HarmlessExt4, NoDataIsHome
<1>4. CASE action.name = "set_partition_rpmb"
  <2>1. script = set_partition(baud, "RPMB")
    BY <1>4 DEF Script
  <2> QED BY <2>1, HarmlessSetPartition DEF EmmcPartition
<1>5. CASE action.name \in {"erase", "secure_erase", "set_clock", "set_baud", "set_bus_width"}
  <2>1. \E arg : script \in {erase_sectors(baud, arg), secure_erase_sectors(baud, arg),
                             set_clk_speed(baud, arg), set_baud(baud, arg),
                             set_bus_width(baud, arg)}
    BY <1>5 DEF Script
  <2> QED BY <2>1, HarmlessCardOperations
<1>6. CASE action.name \in {"cache_flush", "card_status", "controller_status", "reinit"}
  <2>1. script \in {cache_flush(baud), get_card_status(baud), get_controller_status(baud),
                    reinit(baud)}
    BY <1>6 DEF Script
  <2> QED BY <2>1, HarmlessCardOperations
<1>7. CASE action.name = "write_extcsd"
  <2>1. script = write_ext_csd(baud, action.index, action.value)
    BY <1>7 DEF Script
  <2> QED BY <2>1, HarmlessWriteExtCsd
<1>8. action.name \in {"write_sectors", "restore", "hex_write_back", "erase", "secure_erase",
                       "write_extcsd", "cache_flush", "card_status", "controller_status",
                       "reinit", "set_clock", "set_baud", "set_bus_width", "ext4_write",
                       "set_partition_rpmb"}
  BY DEF Script
<1> QED BY <1>1, <1>2, <1>3, <1>4, <1>5, <1>6, <1>7, <1>8

LEMMA DispatchKeeps ==
    ASSUME AllHome, dispatch_pending_action
    PROVE  AllHome'
<1> DEFINE action == ui.pending
           taken  == [ui EXCEPT !.pending = None,
                                !.active_partition = IF action.name = "set_partition_rpmb"
                                                     THEN "RPMB" ELSE @]
<1>1. DOMAIN ui = DOMAIN AppState(FALSE) /\ Editor(ui) /\ Elsewhere
  BY DEF AllHome, Editor, dispatch_pending_action, Elsewhere
<1>2. Like(ui, taken)
  BY <1>1 DEF Like, AppState, None
<1>3. CASE /\ \E script \in Script(action) : \E causes : Spawn(script, TRUE, causes)
           /\ ui' = set_running(taken)
  <2>1. PICK script \in Script(action) : \E op, causes : Spawn(script, op, causes)
    BY <1>3
  <2>2. Harmless(script) /\ Started(script)
    BY <1>1, <2>1, HarmlessAction, SpawnStarts
  <2>3. Threads'
    BY <2>2, StartedKeeps DEF AllHome
  <2>4. Editor(ui')
    <3> HIDE DEF taken
    <3> QED BY <1>1, <1>2, <1>3, LikeRunning, LikeKeeps
  <2> QED BY <1>1, <2>3, <2>4 DEF AllHome, Elsewhere, Messages, Reader, Sectors
<1>4. CASE Sets(taken) \/ Sets(set_failed(taken))
  <2> HIDE DEF taken
  <2> QED BY <1>1, <1>2, <1>4, LikeRunning, LikeKeeps, SetsKeeps
<1> QED BY <1>3, <1>4 DEF dispatch_pending_action

LEMMA UpdateKeeps ==
    ASSUME AllHome, update
    PROVE  AllHome'
<1>1. DOMAIN ui = DOMAIN AppState(FALSE) /\ Editor(ui) /\ Elsewhere
  BY DEF AllHome, Editor, update, Elsewhere
<1>2. Threads'
  <2>1. \E op, causes : Spawn(keepalive_ping(ui.selected_baud), op, causes)
    BY DEF update
  <2> QED BY <2>1, SpawnStarts, StartedKeeps, HarmlessCardOperations DEF AllHome
<1>3. Like(ui, ui')
  BY <1>1 DEF Like, AppState, update
<1> QED BY <1>1, <1>2, <1>3, LikeKeeps DEF AllHome, Elsewhere, Messages, Reader, Sectors

LEMMA TickKeeps ==
    ASSUME AllHome, Tick
    PROVE  AllHome'
<1>1. DOMAIN ui = DOMAIN AppState(FALSE) /\ Editor(ui)
  BY DEF AllHome, Editor
<1>2. Like(ui, ui')
  BY <1>1 DEF Like, AppState, Tick
<1>3. Reader'
  BY DEF AllHome, Reader, Tick, Watchdog
<1> QED BY <1>1, <1>2, <1>3, LikeKeeps DEF AllHome, Tick, Threads, Reads, Messages, Sectors

-----------------------------------------------------------------------------
\* No step takes a cause back.
LEMMA UpsetStays == [Next]_vars => upset \subseteq upset'
<1> SUFFICES ASSUME [Next]_vars PROVE upset \subseteq upset'
  OBVIOUS
<1>1. CASE Panels \/ ClosePicker \/ Frame
  <2>1. ASSUME NEW script, NEW op, NEW causes, Spawn(script, op, causes)
        PROVE  upset \subseteq upset'
    BY <2>1 DEF Spawn
  <2>2. ASSUME NEW u, NEW script, Launches(u, script) PROVE upset \subseteq upset'
    BY <2>2 DEF Launches, Spawn
  <2>3. ASSUME NEW u, Sets(u) PROVE upset \subseteq upset'
    BY <2>3 DEF Sets
  <2>4. ASSUME NEW a, Asks(a) \/ Requests(a) \/ Picks(a) PROVE upset \subseteq upset'
    BY <2>3, <2>4 DEF Asks, Requests, Picks
  <2>5. ASSUME NEW d, NEW s, OpenInHex(d, s) PROVE upset \subseteq upset'
    BY <2>5 DEF OpenInHex
  <2>6. CASE \/ Refresh \/ ToggleFifo \/ Connect \/ Disconnect \/ SelectPartition
            \/ SpeedControl \/ Cancel \/ QuickActions \/ RawCommand
    BY <2>1, <2>2, <2>3, <2>4, <2>6
       DEF Refresh, ToggleFifo, Connect, Disconnect, SelectPartition, SpeedControl, Cancel,
           QuickActions, RawCommand
  <2>7. CASE \/ Read \/ OpenSectors \/ WriteFromFile \/ Erase \/ WriteExtCsd \/ VerifyVsFile
            \/ DumpToFile \/ RestoreFromFile \/ ReadExtCsd
    BY <2>2, <2>4, <2>5, <2>7
       DEF Read, OpenSectors, WriteFromFile, Erase, WriteExtCsd, VerifyVsFile, DumpToFile,
           RestoreFromFile, ReadExtCsd
  <2>8. CASE \/ ReadPartitions \/ DumpPartition \/ Browse \/ LoadFs \/ navigate_ext4
            \/ read_ext4_file \/ OverwriteFile \/ CreateFile
    BY <2>2, <2>4, <2>8
       DEF ReadPartitions, DumpPartition, Browse, LoadFs, navigate_ext4, read_ext4_file,
           OverwriteFile, CreateFile
  <2>9. CASE \/ OpenFile \/ HexLoad \/ HexEdit \/ HexWriteBack \/ HexDiscard \/ HexSave
            \/ ConfirmDialog
    BY <2>1, <2>3, <2>4, <2>5, <2>9
       DEF OpenFile, HexLoad, HexEdit, HexWriteBack, HexDiscard, HexSave, ConfirmDialog
  <2>10. CASE ClosePicker \/ Frame
    BY <2>1, <2>2, <2>3, <2>10
       DEF ClosePicker, Frame, process_messages, dispatch_pending_action, update
  <2> QED BY <1>1, <2>6, <2>7, <2>8, <2>9, <2>10 DEF Panels
<1>2. CASE \E s \in Slots : Worker(s)
  BY <1>2 DEF Worker, OpenPort, ClosePort, Exchange, Poll, Report, End, NoFault, Faulty
<1>3. CASE Tick \/ UNCHANGED vars
  BY <1>3 DEF Tick, vars
<1> QED BY <1>1, <1>2, <1>3 DEF Next

LEMMA NextKeepsHome == HomeInv /\ [Next]_vars => HomeInv'
<1> SUFFICES ASSUME HomeInv, [Next]_vars, "moved" \notin upset' PROVE AllHome'
  BY DEF HomeInv
<1>1. AllHome
  BY UpsetStays DEF HomeInv
<1>2. CASE UNCHANGED vars
  BY <1>1, <1>2 DEF vars, AllHome, Threads, Reads, Messages, Reader, Sectors
<1>3. CASE Panels
  BY <1>1, <1>3, ConnectionKeeps, SectorPanelKeeps, FilePanelsKeep, EditorPanelKeeps DEF Panels
<1>4. CASE Frame
  BY <1>1, <1>4, ProcessMessagesKeeps, DispatchKeeps, UpdateKeeps DEF Frame
<1> QED BY <1>1, <1>2, <1>3, <1>4, ClosePickerKeeps, WorkerKeeps, TickKeeps DEF Next

\* What the hex editor writes back goes to the sector it was read from, in every run
\* of the reader application in which contents and address have not come apart by a
\* Load, or by opening other contents while the write-back is being asked about
\* ("Write Back to eMMC", dispatch_pending_action), however the operations, their
\* messages and the user's clicks interleave and whichever of them fail.
THEOREM HexContentsStayHome == Spec => []HexStaysHome
<1>1. HomeInv => HexStaysHome
  BY DEF HomeInv, AllHome, Sectors, HexStaysHome
<1> QED BY <1>1, InitHome, NextKeepsHome, PTL DEF Spec

-----------------------------------------------------------------------------
(* What is shown.  While one thread is running and nothing fails by itself,  *)
(* an outlook k holds what there is to know of it: the port of the thread,   *)
(* the reader, and the settings the panel will show when all messages on the *)
(* way have been received.  "kept" says that the reader has not been silent  *)
(* for longer than the GUI thinks, "polled" that the thread has got its      *)
(* status, "busy" and "waiting" that the GUI waits for an operation or for a *)
(* keepalive, "strict" that clock, width and partition must be shown right.  *)

OutlookFields ==
    {"open", "baud", "polled", "rate", "clk", "width", "part", "kept",
     "fifo", "conn", "sbaud", "spreset", "sclk", "swidth", "spart",
     "busy", "waiting", "strict"}

UartRates == {UART_BAUD_RATES[p] : p \in Presets}

\* The port would be opened at the right rate, and the reader is kept from leaving it.
RateShown(k) ==
    k.conn /\ ~k.fifo =>
        /\ k.kept /\ k.sbaud = k.rate
        /\ k.spreset \in Presets /\ UART_BAUD_RATES[k.spreset] = k.rate
SettingShown(k) ==
    k.strict => k.sclk = k.clk /\ k.swidth = k.width /\ k.spart = k.part
Outlook(k) == DOMAIN k = OutlookFields /\ k.rate \in UartRates
Sound(k) == Outlook(k) /\ ~k.waiting /\ RateShown(k) /\ SettingShown(k)
Over(k) == Sound(k) /\ ~k.busy

\* A command is answered by a reader that listens at the rate of the port.
Heard(k) == k.baud = 0 \/ k.baud = k.rate
MayWork(k, a) ==
    CASE a.do = "open" -> ~k.open
      [] a.do \in {"close", "tell", "poll"} -> TRUE
      [] OTHER -> Heard(k)
MayFail(k, a) ==
    CASE a.do = "open" -> k.open \/ ~(a.arg = 0 <=> k.fifo)
      [] a.do = "poll" -> TRUE
      [] a.do \in {"close", "tell"} -> FALSE
      [] OTHER -> ~Heard(k) \/ (~k.strict /\ a.do \in {"read", "write", "get_ext_csd"})

Told(k, m) ==
    CASE m.type = "ConnectedWithSpeed" ->
             [k EXCEPT !.conn = TRUE, !.sbaud = m.baud, !.spreset = m.preset, !.sclk = m.clk,
                       !.busy = FALSE]
      [] m.type = "BusWidthSet" -> [k EXCEPT !.swidth = m.width, !.busy = FALSE]
      [] m.type = "ClkSpeedSet" -> [k EXCEPT !.sclk = m.preset, !.busy = FALSE]
      [] m.type = "BaudPresetSet" ->
             [k EXCEPT !.spreset = m.preset, !.sbaud = m.baud, !.busy = FALSE]
      [] m.type = "ControllerStatusReceived" ->
             [k EXCEPT !.sclk = k.clk, !.spreset = Preset(k.rate), !.busy = FALSE]
      [] m.type = "KeepaliveOk" -> [k EXCEPT !.waiting = FALSE]
      [] m.type \in {"PortsScanned", "CardInfo", "Progress"} -> k
      [] OTHER -> [k EXCEPT !.busy = FALSE]

Commanded(k, a) ==
    LET heard == [k EXCEPT !.kept = TRUE, !.polled = a.do = "get_status"]
    IN  CASE a.do = "set_clk" -> [heard EXCEPT !.clk = a.arg]
          [] a.do = "set_baud" -> [heard EXCEPT !.rate = UART_BAUD_RATES[a.arg]]
          [] a.do = "set_bus_width" -> [heard EXCEPT !.width = a.arg]
          [] a.do \in {"set_partition", "switch_part"} -> [heard EXCEPT !.part = a.arg]
          [] a.do = "reinit" -> [heard EXCEPT !.width = 1, !.part = "User"]
          [] OTHER -> heard

Later(k, a) ==
    CASE a.do = "open" -> [k EXCEPT !.open = TRUE, !.baud = a.arg]
      [] a.do = "close" -> [k EXCEPT !.open = FALSE]
      [] a.do = "poll" -> k
      [] a.do = "tell" -> Told(k, a.arg)
      [] OTHER -> Commanded(k, a)

\* A step in its place: a write goes to the partition that is shown.
Proper(k, a) ==
    /\ DOMAIN a = {"do", "arg", "tries", "lax", "fails"}
    /\ a.do \in {"write", "erase", "secure_erase"} => (k.strict => k.spart = k.part)
    /\ a.do \in {"switch_part", "switch_lines"} => ~k.strict
    /\ a.do = "set_baud" => a.arg \in Presets
    /\ a.do = "tell" /\ a.arg.type = "ControllerStatusReceived" => k.polled

Otherwise(q) == IF Head(q).lax THEN Tail(q) ELSE Head(q).fails

\* A script is safe in an outlook if each of its steps is proper when it comes, and all
\* is over at its end, whichever way it takes: C holds outlooks and scripts on the way.
Lawful(C) ==
    \A c \in C :
        /\ Outlook(c[1])
        /\ c[2] = <<>> => Over(c[1])
        /\ c[2] # <<>> =>
              /\ Proper(c[1], Head(c[2]))
              /\ MayWork(c[1], Head(c[2])) => <<Later(c[1], Head(c[2])), Tail(c[2])>> \in C
              /\ MayFail(c[1], Head(c[2])) => <<c[1], Otherwise(c[2])>> \in C
Safe(k, q) ==
    \E E, C : (\A c \in C : c[2] \in Seq(E)) /\ Lawful(C) /\ <<k, q>> \in C

LEMMA SafeStep ==
    ASSUME NEW k, NEW q, Safe(k, q)
    PROVE  /\ Outlook(k)
           /\ \E E : q \in Seq(E)
           /\ q = <<>> => Over(k)
           /\ q # <<>> =>
                 /\ Proper(k, Head(q))
                 /\ MayWork(k, Head(q)) => Safe(Later(k, Head(q)), Tail(q))
                 /\ MayFail(k, Head(q)) => Safe(k, Otherwise(q))
<1>1. PICK E, C : (\A c \in C : c[2] \in Seq(E)) /\ Lawful(C) /\ <<k, q>> \in C
  BY DEF Safe
<1>2. <<k, q>>[1] = k /\ <<k, q>>[2] = q
  OBVIOUS
<1>3. \A h, r : <<h, r>> \in C => Safe(h, r)
  BY <1>1 DEF Safe
<1>4. /\ Outlook(k) /\ q \in Seq(E)
      /\ q = <<>> => Over(k)
      /\ q # <<>> =>
            /\ Proper(k, Head(q))
            /\ MayWork(k, Head(q)) => <<Later(k, Head(q)), Tail(q)>> \in C
            /\ MayFail(k, Head(q)) => <<k, Otherwise(q)>> \in C
  <2> HIDE DEF Safe
  <2> QED BY <1>1, <1>2 DEF Lawful
<1> QED BY <1>3, <1>4

LEMMA SafeEmpty ==
    ASSUME NEW k, Over(k)
    PROVE  Safe(k, <<>>)
<1> DEFINE C == {<<k, <<>>>>}
<1>1. \A c \in C : c[1] = k /\ c[2] = <<>>
  OBVIOUS
<1>2. (\A c \in C : c[2] \in Seq({})) /\ Lawful(C)
  <2> <<>> \in Seq({})
    OBVIOUS
  <2>1. Outlook(k)
    BY DEF Over, Sound
  <2> HIDE DEF C
  <2> QED BY <1>1, <2>1 DEF Lawful
<1> QED BY <1>2 DEF Safe

LEMMA ConsProperties ==
    ASSUME NEW E, NEW q \in Seq(E), NEW a
    PROVE  /\ <<a>> \o q \in Seq(E \union {a}) /\ <<a>> \o q # <<>>
           /\ Head(<<a>> \o q) = a /\ Tail(<<a>> \o q) = q
<1> DEFINE F == E \union {a}
<1>1. <<a>> \in Seq(F) /\ q \in Seq(F) /\ <<a>> # <<>>
  OBVIOUS
<1>2. Head(<<a>>) = a /\ Tail(<<a>>) = <<>>
  OBVIOUS
<1>3. Head(<<a>> \o q) = Head(<<a>>) /\ Tail(<<a>> \o q) = Tail(<<a>>) \o q
  <2> HIDE DEF F
  <2> QED BY <1>1, HeadTailOfConcat
<1>4. <<a>> \o q \in Seq(F) /\ Len(<<a>> \o q) = 1 + Len(q)
  BY <1>1
<1>5. <<a>> \o q # <<>>
  BY <1>4, <1>1
<1> QED BY <1>1, <1>2, <1>3, <1>4, <1>5

IsScript(q) == \E E : q \in Seq(E)

\* A script of one step and a script.
LEMMA SafeCons ==
    ASSUME NEW k, NEW a, NEW q, Outlook(k), Proper(k, a), IsScript(q),
           MayWork(k, a) => Safe(Later(k, a), q),
           MayFail(k, a) => Safe(k, IF a.lax THEN q ELSE a.fails)
    PROVE  Safe(k, <<a>> \o q)
<1> DEFINE other == IF a.lax THEN q ELSE a.fails
           Whole(F, D) == (\A c \in D : c[2] \in Seq(F)) /\ Lawful(D)
<1>0. Whole({}, {})
  BY DEF Lawful
<1>1. PICK E1, C1 : Whole(E1, C1) /\ (MayWork(k, a) => <<Later(k, a), q>> \in C1)
  <2>1. CASE MayWork(k, a)
    BY <2>1 DEF Safe
  <2>2. CASE ~MayWork(k, a)
    BY <2>2, <1>0
  <2> QED BY <2>1, <2>2
<1>2. PICK E2, C2 : Whole(E2, C2) /\ (MayFail(k, a) => <<k, other>> \in C2)
  <2>1. CASE MayFail(k, a)
    BY <2>1 DEF Safe
  <2>2. CASE ~MayFail(k, a)
    BY <2>2, <1>0
  <2> QED BY <2>1, <2>2
<1>3. PICK E3 : q \in Seq(E3)
  BY DEF IsScript
<1> DEFINE script == <<a>> \o q
           G == E1 \union E2 \union E3 \union {a}
           B == C1 \union C2 \union {<<k, script>>}
<1>4. script \in Seq(E3 \union {a}) /\ script # <<>> /\ Head(script) = a /\ Tail(script) = q
  BY <1>3, ConsProperties
<1> HIDE DEF script, other
<1>5. \A c \in B : c[2] \in Seq(G)
  <2>1. Seq(E1) \subseteq Seq(G) /\ Seq(E2) \subseteq Seq(G) /\ Seq(E3 \union {a}) \subseteq Seq(G)
    OBVIOUS
  <2>2. <<k, script>>[2] = script
    OBVIOUS
  <2> HIDE DEF G
  <2> QED BY <1>1, <1>2, <1>4, <2>1, <2>2
<1>6. Lawful(B)
  <2> SUFFICES ASSUME NEW c \in B
               PROVE  /\ Outlook(c[1])
                      /\ c[2] = <<>> => Over(c[1])
                      /\ c[2] # <<>> =>
                            /\ Proper(c[1], Head(c[2]))
                            /\ MayWork(c[1], Head(c[2])) => <<Later(c[1], Head(c[2])), Tail(c[2])>> \in B
                            /\ MayFail(c[1], Head(c[2])) => <<c[1], Otherwise(c[2])>> \in B
    BY DEF Lawful
  <2>1. CASE c \in C1
    BY <2>1, <1>1 DEF Lawful
  <2>2. CASE c \in C2
    BY <2>2, <1>2 DEF Lawful
  <2>3. CASE c = <<k, script>>
    <3>1. c[1] = k /\ c[2] = script
      BY <2>3
    <3>2. Otherwise(script) = other
      BY <1>4 DEF Otherwise, other
    <3> QED BY <3>1, <3>2, <1>1, <1>2, <1>4
  <2> QED BY <2>1, <2>2, <2>3
<1> HIDE DEF B, G
<1>7. <<k, script>> \in B
  BY DEF B
<1> QED BY <1>5, <1>6, <1>7 DEF Safe, script

\* A step that is tried again is as safe as it was.
LEMMA SafeAgain ==
    ASSUME NEW k, NEW q, Safe(k, q), q # <<>>, NEW n
    PROVE  Safe(k, <<[Head(q) EXCEPT !.tries = n]>> \o Tail(q))
<1> DEFINE a == Head(q)
           b == [a EXCEPT !.tries = n]
<1>1. /\ Outlook(k) /\ Proper(k, a)
      /\ MayWork(k, a) => Safe(Later(k, a), Tail(q))
      /\ MayFail(k, a) => Safe(k, Otherwise(q))
  BY SafeStep
<1>2. IsScript(Tail(q))
  <2>1. PICK E : q \in Seq(E)
    BY SafeStep
  <2> QED BY <2>1, HeadTailProperties DEF IsScript
<1>3. Otherwise(q) = IF a.lax THEN Tail(q) ELSE a.fails
  BY DEF Otherwise
<1> HIDE DEF a
<1>4. /\ DOMAIN b = DOMAIN a /\ b.do = a.do /\ b.arg = a.arg /\ b.lax = a.lax /\ b.fails = a.fails
  BY <1>1 DEF Proper
<1> HIDE DEF b
<1>5. /\ Proper(k, b) /\ (MayWork(k, b) <=> MayWork(k, a)) /\ (MayFail(k, b) <=> MayFail(k, a))
      /\ Later(k, b) = Later(k, a)
  BY <1>1, <1>4 DEF Proper, MayWork, MayFail, Later, Commanded
<1>6. Safe(k, <<b>> \o Tail(q))
  BY <1>1, <1>2, <1>3, <1>4, <1>5, SafeCons
<1> QED BY <1>6 DEF a, b

-----------------------------------------------------------------------------
(* Calm scripts leave the settings of the reader and of the panel alone.     *)

CalmCommands == {"open", "close", "poll", "ping", "get_info", "get_ext_csd", "read", "write",
                 "erase", "secure_erase", "write_ext_csd", "card_status"}
Settling == {"ConnectedWithSpeed", "BusWidthSet", "ClkSpeedSet", "BaudPresetSet",
             "ControllerStatusReceived", "KeepaliveOk"}
Passing == {"PortsScanned", "CardInfo", "Progress"}
CalmStep(a) ==
    /\ DOMAIN a = {"do", "arg", "tries", "lax", "fails"}
    /\ a.do \in CalmCommands \/ (a.do = "tell" /\ a.arg.type \notin Settling)
Ends(a) == a.do = "tell" /\ a.arg.type \notin Passing \union Settling

\* A calm script is safe wherever nothing is askew; "busy" promises that it tells the
\* GUI when the operation is over.
Calmly(busy, q) ==
    /\ IsScript(q)
    /\ \A k : Sound(k) /\ (k.busy => busy) => Safe(k, q)

LEMMA CalmLater ==
    ASSUME NEW k, Sound(k), NEW a, CalmStep(a)
    PROVE  /\ Proper(k, a) /\ Sound(Later(k, a))
           /\ Later(k, a).busy => k.busy /\ ~Ends(a)
<1>1. DOMAIN k = OutlookFields
  BY DEF Sound, Outlook
<1>2. Proper(k, a)
  BY DEF Proper, CalmStep, CalmCommands, Settling, Sound, SettingShown
<1>3. CASE a.do = "tell"
  <2>1. Later(k, a) = Told(k, a.arg) /\ a.arg.type \notin Settling
    BY <1>3 DEF Later, CalmStep, CalmCommands
  <2>2. Told(k, a.arg) = IF a.arg.type \in Passing THEN k ELSE [k EXCEPT !.busy = FALSE]
    BY <2>1 DEF Told, Settling, Passing
  <2>3. Sound([k EXCEPT !.busy = FALSE]) /\ ~[k EXCEPT !.busy = FALSE].busy
    BY <1>1 DEF Sound, Outlook, RateShown, SettingShown, OutlookFields
  <2>4. a.arg.type \in Passing => ~Ends(a)
    BY DEF Ends
  <2> QED BY <1>2, <2>1, <2>2, <2>3, <2>4
<1>4. CASE a.do # "tell"
  <2>0. a.do \in CalmCommands
    BY <1>4 DEF CalmStep
  <2>1. PICK polled : polled = (a.do = "get_status")
    OBVIOUS
  <2>2. PICK h : h = Later(k, a)
    OBVIOUS
  <2>3. \/ h = [k EXCEPT !.open = TRUE, !.baud = a.arg]
        \/ h = [k EXCEPT !.open = FALSE]
        \/ h = k
        \/ h = [k EXCEPT !.kept = TRUE, !.polled = polled]
    BY <1>4, <2>0, <2>1, <2>2 DEF Later, Commanded, CalmCommands
  <2>4. Sound(h)
    <3>1. /\ DOMAIN h = OutlookFields /\ h.rate = k.rate /\ h.clk = k.clk /\ h.width = k.width
          /\ h.part = k.part /\ h.fifo = k.fifo /\ h.conn = k.conn /\ h.sbaud = k.sbaud
          /\ h.spreset = k.spreset /\ h.sclk = k.sclk /\ h.swidth = k.swidth
          /\ h.spart = k.spart /\ h.waiting = k.waiting /\ h.strict = k.strict
      BY <1>1, <2>3 DEF OutlookFields
    <3>2. k.kept => h.kept
      BY <1>1, <2>3 DEF OutlookFields
    <3> QED BY <3>1, <3>2 DEF Sound, Outlook, RateShown, SettingShown
  <2>5. h.busy = k.busy
    BY <1>1, <2>3 DEF OutlookFields
  <2>6. ~Ends(a)
    BY <1>4 DEF Ends
  <2> QED BY <1>2, <2>2, <2>4, <2>5, <2>6
<1> QED BY <1>3, <1>4

LEMMA CannotFail ==
    ASSUME NEW k, NEW a, a.do \in {"tell", "close"}
    PROVE  ~MayFail(k, a)
BY DEF MayFail

LEMMA ScriptCons ==
    ASSUME NEW a, NEW q, IsScript(q)
    PROVE  IsScript(<<a>> \o q)
<1>1. PICK E : q \in Seq(E)
  BY DEF IsScript
<1>2. <<a>> \o q \in Seq(E \union {a})
  BY <1>1, ConsProperties
<1> QED BY <1>2 DEF IsScript

Excused(busy, a) == a.lax \/ a.do \in {"tell", "close"} \/ Calmly(busy, a.fails)

LEMMA CalmCons ==
    ASSUME NEW busy \in BOOLEAN, NEW a, CalmStep(a), Excused(busy, a),
           NEW q, Calmly(busy, q)
    PROVE  Calmly(busy, <<a>> \o q)
<1>1. IsScript(q) /\ IsScript(<<a>> \o q)
  BY ScriptCons DEF Calmly
<1>2. ASSUME NEW k, Sound(k), k.busy => busy PROVE Safe(k, <<a>> \o q)
  <2>1. Outlook(k)
    BY <1>2 DEF Sound
  <2>2. Proper(k, a) /\ Safe(Later(k, a), q)
    BY <1>2, CalmLater DEF Calmly
  <2>3. MayFail(k, a) => Safe(k, IF a.lax THEN q ELSE a.fails)
    BY <1>2, CannotFail DEF Calmly, Excused
  <2> QED BY <1>1, <2>1, <2>2, <2>3, SafeCons
<1> QED BY <1>1, <1>2 DEF Calmly

LEMMA CalmEnd ==
    ASSUME NEW a, CalmStep(a), Ends(a), NEW q, Calmly(FALSE, q), NEW busy \in BOOLEAN
    PROVE  Calmly(busy, <<a>> \o q)
<1>1. IsScript(q) /\ IsScript(<<a>> \o q)
  BY ScriptCons DEF Calmly
<1>2. ASSUME NEW k, Sound(k), k.busy => busy PROVE Safe(k, <<a>> \o q)
  <2>1. Outlook(k)
    BY <1>2 DEF Sound
  <2>2. Proper(k, a) /\ Safe(Later(k, a), q)
    BY <1>2, CalmLater DEF Calmly
  <2>3. ~MayFail(k, a)
    BY CannotFail DEF Ends
  <2> QED BY <1>1, <2>1, <2>2, <2>3, SafeCons
<1> QED BY <1>1, <1>2 DEF Calmly

LEMMA CalmEmpty == Calmly(FALSE, <<>>)
<1>1. IsScript(<<>>)
  <2>1. <<>> \in Seq({})
    OBVIOUS
  <2> QED BY <2>1 DEF IsScript
<1>2. ASSUME NEW k, Sound(k), k.busy => FALSE PROVE Safe(k, <<>>)
  <2>1. Over(k)
    BY <1>2 DEF Over
  <2> QED BY <2>1, SafeEmpty
<1> QED BY <1>1, <1>2 DEF Calmly

LEMMA CalmWeaken ==
    ASSUME NEW q, Calmly(TRUE, q), NEW busy \in BOOLEAN
    PROVE  Calmly(busy, q)
BY DEF Calmly

LEMMA OneStep == \A a : <<a>> \o <<>> = <<a>>
<1> SUFFICES ASSUME NEW a PROVE <<a>> \o <<>> = <<a>>
  OBVIOUS
<1>1. <<a>> \in Seq({a})
  OBVIOUS
<1> QED BY <1>1, ConcatEmptySeq

LEMMA CalmTell ==
    ASSUME NEW m, m.type \notin Passing \union Settling, NEW busy \in BOOLEAN
    PROVE  Calmly(busy, <<Tell(m)>>)
<1> DEFINE a == Tell(m)
<1>1. CalmStep(a) /\ Ends(a)
  BY DEF CalmStep, Ends, Tell, Step
<1> HIDE DEF a
<1>2. Calmly(busy, <<a>> \o <<>>)
  BY <1>1, CalmEmpty, CalmEnd
<1> QED BY <1>2, OneStep DEF a

LEMMA CalmError == \A busy \in BOOLEAN : Calmly(busy, Error)
<1>1. [type |-> "Error"].type \notin Passing \union Settling
  BY DEF Passing, Settling
<1> QED BY <1>1, CalmTell DEF Error

\* What can be put in front of every calm script.
Leads(busy, p) ==
    IsScript(p) /\ \A q : Calmly(busy, q) => Calmly(busy, p \o q)

LEMMA ScriptsAssociate ==
    ASSUME NEW x, NEW q, NEW r, IsScript(x), IsScript(q), IsScript(r)
    PROVE  (x \o q) \o r = x \o (q \o r) /\ IsScript(x \o q) /\ IsScript(q \o r)
<1>1. PICK E : x \in Seq(E)
  BY DEF IsScript
<1>2. PICK F : q \in Seq(F)
  BY DEF IsScript
<1>3. PICK G : r \in Seq(G)
  BY DEF IsScript
<1> DEFINE H == E \union F \union G
<1>4. x \in Seq(H) /\ q \in Seq(H) /\ r \in Seq(H)
  BY <1>1, <1>2, <1>3
<1> HIDE DEF H
<1>5. q \o r \in Seq(H) /\ x \o q \in Seq(H)
  BY <1>4, ConcatProperties
<1> QED BY <1>4, <1>5, ConcatAssociative DEF IsScript

LEMMA LeadOne ==
    ASSUME NEW busy \in BOOLEAN, NEW a, CalmStep(a), Excused(busy, a)
    PROVE  Leads(busy, <<a>>)
<1>1. <<a>> \in Seq({a})
  OBVIOUS
<1> QED BY <1>1, CalmCons DEF Leads, IsScript

LEMMA LeadBoth ==
    ASSUME NEW busy, NEW p, NEW q, Leads(busy, p), Leads(busy, q)
    PROVE  Leads(busy, p \o q)
<1>1. IsScript(p) /\ IsScript(q)
  BY DEF Leads
<1>2. ASSUME NEW r, Calmly(busy, r) PROVE Calmly(busy, (p \o q) \o r)
  <2>1. IsScript(r) /\ Calmly(busy, p \o (q \o r))
    BY <1>2 DEF Leads, Calmly
  <2>2. (p \o q) \o r = p \o (q \o r)
    BY <1>1, <2>1, ScriptsAssociate
  <2> QED BY <2>1, <2>2
<1>3. IsScript(p \o q)
  <2>1. IsScript(q)
    BY <1>1
  <2> QED BY <1>1, <2>1, ScriptsAssociate
<1> QED BY <1>2, <1>3 DEF Leads

LEMMA LeadNone == \A busy : Leads(busy, <<>>)
<1>1. \A q : IsScript(q) => <<>> \o q = q
  <2> SUFFICES ASSUME NEW q, IsScript(q) PROVE <<>> \o q = q
    OBVIOUS
  <2>1. PICK E : q \in Seq(E)
    BY DEF IsScript
  <2> QED BY <2>1, ConcatEmptySeq
<1>2. IsScript(<<>>)
  BY CalmEmpty DEF Calmly
<1> QED BY <1>1, <1>2 DEF Leads, Calmly

LEMMA TuplesAreConcats ==
    /\ \A a, b : <<a, b>> = <<a>> \o <<b>>
    /\ \A a, b, c : <<a, b, c>> = <<a>> \o <<b, c>> /\ <<a, b, c>> = <<a, b>> \o <<c>>
<1>1. ASSUME NEW a, NEW b PROVE <<a, b>> = <<a>> \o <<b>>
  <2>1. <<a, b>> \in Seq({a, b}) /\ <<a>> \o <<b>> \in Seq({a, b})
    OBVIOUS
  <2>2. Len(<<a, b>>) = 2 /\ Len(<<a>> \o <<b>>) = 2
    OBVIOUS
  <2>3. \A i \in 1..2 : <<a, b>>[i] = (<<a>> \o <<b>>)[i]
    OBVIOUS
  <2> QED BY <2>1, <2>2, <2>3, SeqEqual
<1>2. ASSUME NEW a, NEW b, NEW c
      PROVE  <<a, b, c>> = <<a>> \o <<b, c>> /\ <<a, b, c>> = <<a, b>> \o <<c>>
  <2>1. /\ <<a, b, c>> \in Seq({a, b, c}) /\ <<a>> \o <<b, c>> \in Seq({a, b, c})
        /\ <<a, b>> \o <<c>> \in Seq({a, b, c})
    OBVIOUS
  <2>2. Len(<<a, b, c>>) = 3 /\ Len(<<a>> \o <<b, c>>) = 3 /\ Len(<<a, b>> \o <<c>>) = 3
    OBVIOUS
  <2>3. \A i \in 1..3 : <<a, b, c>>[i] = (<<a>> \o <<b, c>>)[i]
                        /\ <<a, b, c>>[i] = (<<a, b>> \o <<c>>)[i]
    OBVIOUS
  <2>4. <<a, b, c>> = <<a>> \o <<b, c>>
    BY <2>1, <2>2, <2>3, SeqEqual
  <2>5. <<a, b, c>> = <<a, b>> \o <<c>>
    BY <2>1, <2>2, <2>3, SeqEqual
  <2> QED BY <2>4, <2>5
<1> QED BY <1>1, <1>2

Fine(busy, a) == CalmStep(a) /\ Excused(busy, a)

LEMMA LeadSteps ==
    ASSUME NEW busy \in BOOLEAN, NEW a, Fine(busy, a)
    PROVE  /\ Leads(busy, <<a>>)
           /\ \A b : Fine(busy, b) => Leads(busy, <<a, b>>)
           /\ \A b, c : Fine(busy, b) /\ Fine(busy, c) => Leads(busy, <<a, b, c>>)
<1>1. ASSUME NEW b, Fine(busy, b) PROVE Leads(busy, <<b>>)
  BY <1>1, LeadOne DEF Fine
<1>2. ASSUME NEW b, NEW c, Fine(busy, b), Fine(busy, c) PROVE Leads(busy, <<b, c>>)
  <2>1. Leads(busy, <<b>> \o <<c>>)
    BY <1>1, <1>2, LeadBoth
  <2> QED BY <2>1, TuplesAreConcats
<1>3. ASSUME NEW b, NEW c, Fine(busy, b), Fine(busy, c) PROVE Leads(busy, <<a, b, c>>)
  <2>1. Leads(busy, <<a>> \o <<b, c>>)
    BY <1>1, <1>2, <1>3, LeadBoth
  <2>2. <<a, b, c>> = <<a>> \o <<b, c>>
    BY TuplesAreConcats
  <2> QED BY <2>1, <2>2
<1> QED BY <1>1, <1>2, <1>3

LEMMA LeadRepeat ==
    ASSUME NEW busy, NEW n \in Nat, NEW steps, Leads(busy, steps)
    PROVE  Leads(busy, Repeat(n, steps))
<1>1. PICK f : /\ f = [i \in 0..n |-> IF i = 0 THEN <<>> ELSE f[i - 1] \o steps]
               /\ Repeat(n, steps) = f[n]
  BY RepeatExists DEF Repeat
<1>2. ASSUME NEW k \in 0..n, \A j \in 0..n : j < k => Leads(busy, f[j])
      PROVE  Leads(busy, f[k])
  <2>1. CASE k = 0
    BY <1>1, <2>1, LeadNone
  <2>2. CASE k # 0
    <3>1. k - 1 \in 0..n /\ k - 1 < k
      BY <2>2
    <3>2. Leads(busy, f[k - 1])
      BY <3>1, <1>2
    <3>3. f[k] = f[k - 1] \o steps
      BY <1>1, <2>2
    <3> QED BY <3>2, <3>3, LeadBoth
  <2> QED BY <2>1, <2>2
<1> DEFINE Wrong == {k \in 0..n : ~Leads(busy, f[k])}
<1>3. ASSUME Wrong # {} PROVE FALSE
  <2>1. PICK k \in Wrong : \A j \in Wrong : k <= j
    <3> Wrong \in SUBSET Nat
      OBVIOUS
    <3> HIDE DEF Wrong
    <3> QED BY <1>3, LeastNumber
  <2>2. \A j \in 0..n : j < k => Leads(busy, f[j])
    BY <2>1
  <2> QED BY <1>2, <2>2
<1>4. n \in 0..n
  OBVIOUS
<1> QED BY <1>1, <1>3, <1>4

-----------------------------------------------------------------------------
(* Most operations are calm.                                                 *)

LEMMA FineStep ==
    ASSUME NEW busy \in BOOLEAN, NEW do \in CalmCommands, NEW arg, NEW fails,
           Calmly(busy, fails)
    PROVE  Fine(busy, Step(do, arg, fails))
<1> DEFINE a == Step(do, arg, fails)
<1>1. a.do = do /\ a.fails = fails /\ DOMAIN a = {"do", "arg", "tries", "lax", "fails"}
  BY DEF Step
<1> HIDE DEF a
<1>2. Fine(busy, a)
  BY <1>1 DEF Fine, CalmStep, Excused
<1> QED BY <1>2 DEF a

LEMMA FinePersist ==
    ASSUME NEW busy \in BOOLEAN, NEW do \in CalmCommands, NEW arg, NEW fails,
           Calmly(busy, fails)
    PROVE  Fine(busy, [Persist(Ask(do, arg)) EXCEPT !.fails = fails])
<1> DEFINE a == [Persist(Ask(do, arg)) EXCEPT !.fails = fails]
<1>1. a.do = do /\ a.fails = fails /\ DOMAIN a = {"do", "arg", "tries", "lax", "fails"}
  BY DEF Persist, Ask, Step
<1> HIDE DEF a
<1>2. Fine(busy, a)
  BY <1>1 DEF Fine, CalmStep, Excused
<1> QED BY <1>2 DEF a

LEMMA FineCommand ==
    ASSUME NEW busy \in BOOLEAN, NEW do \in CalmCommands, NEW arg
    PROVE  Fine(busy, Ask(do, arg)) /\ Fine(busy, Lax(do, arg)) /\ Fine(busy, Persist(Ask(do, arg)))
<1>1. Fine(busy, Ask(do, arg))
  BY FineStep, CalmError DEF Ask
<1>2. Fine(busy, Lax(do, arg))
  <2> DEFINE a == Lax(do, arg)
  <2>1. a.do = do /\ a.lax /\ DOMAIN a = {"do", "arg", "tries", "lax", "fails"}
    BY DEF Lax, Step
  <2> HIDE DEF a
  <2>2. Fine(busy, a)
    BY <2>1 DEF Fine, CalmStep, Excused
  <2> QED BY <2>2 DEF a
<1>3. Fine(busy, Persist(Ask(do, arg)))
  <2> DEFINE a == Persist(Ask(do, arg))
  <2>1. a.do = do /\ a.fails = Error /\ DOMAIN a = {"do", "arg", "tries", "lax", "fails"}
    BY DEF Persist, Ask, Step
  <2> HIDE DEF a
  <2>2. Fine(busy, a)
    BY <2>1, CalmError DEF Fine, CalmStep, Excused
  <2> QED BY <2>2 DEF a
<1> QED BY <1>1, <1>2, <1>3

LEMMA FinePort ==
    ASSUME NEW busy \in BOOLEAN
    PROVE  \A rate : Fine(busy, Open(rate))
<1> SUFFICES ASSUME NEW rate PROVE Fine(busy, Open(rate))
  OBVIOUS
<1>1. "open" \in CalmCommands
  BY DEF CalmCommands
<1> QED BY <1>1, FineStep, CalmError DEF Open

LEMMA FineTell ==
    ASSUME NEW busy \in BOOLEAN, NEW m, m.type \in Passing
    PROVE  Fine(busy, Tell(m))
<1> DEFINE a == Tell(m)
<1>1. a.do = "tell" /\ a.arg = m /\ DOMAIN a = {"do", "arg", "tries", "lax", "fails"}
  BY DEF Tell, Step
<1> HIDE DEF a
<1>2. Fine(busy, a)
  BY <1>1 DEF Fine, CalmStep, Excused, Passing, Settling
<1> QED BY <1>2 DEF a

LEMMA FinePassing ==
    \A busy \in BOOLEAN : /\ Fine(busy, Tell([type |-> "Progress"]))
                          /\ Fine(busy, Tell([type |-> "CardInfo"]))
                          /\ Fine(busy, Tell([type |-> "PortsScanned"]))
<1> SUFFICES ASSUME NEW busy \in BOOLEAN, NEW t \in Passing
             PROVE  Fine(busy, Tell([type |-> t]))
  BY DEF Passing
<1> DEFINE m == [type |-> t]
<1>1. m.type \in Passing
  OBVIOUS
<1> HIDE DEF m
<1>2. Fine(busy, Tell(m))
  BY <1>1, FineTell
<1> QED BY <1>2 DEF m

LEMMA FourAreConcats == \A a, b, c, d : <<a, b, c>> \o <<d>> = <<a, b, c, d>>
<1> SUFFICES ASSUME NEW a, NEW b, NEW c, NEW d PROVE <<a, b, c>> \o <<d>> = <<a, b, c, d>>
  OBVIOUS
<1>1. <<a, b, c, d>> \in Seq({a, b, c, d}) /\ <<a, b, c>> \o <<d>> \in Seq({a, b, c, d})
  OBVIOUS
<1>2. Len(<<a, b, c, d>>) = 4 /\ Len(<<a, b, c>> \o <<d>>) = 4
  OBVIOUS
<1>3. \A i \in 1..4 : (<<a, b, c>> \o <<d>>)[i] = <<a, b, c, d>>[i]
  OBVIOUS
<1> QED BY <1>1, <1>2, <1>3, SeqEqual

LEMMA ThreeAreConcats ==
    \A a, b, c : <<a, b>> \o <<c>> = <<a, b, c>> /\ <<a>> \o <<b, c>> = <<a, b, c>>
<1> SUFFICES ASSUME NEW a, NEW b, NEW c
             PROVE  <<a, b>> \o <<c>> = <<a, b, c>> /\ <<a>> \o <<b, c>> = <<a, b, c>>
  OBVIOUS
<1>1. <<a, b, c>> = <<a>> \o <<b, c>>
  BY TuplesAreConcats
<1>2. <<a, b, c>> = <<a, b>> \o <<c>>
  BY TuplesAreConcats
<1> QED BY <1>1, <1>2

LEMMA TwoAreConcats == \A a, b : <<a>> \o <<b>> = <<a, b>>
BY TuplesAreConcats

LEMMA Leading ==
    ASSUME NEW busy, NEW p, NEW q, Leads(busy, p), Calmly(busy, q)
    PROVE  Calmly(busy, p \o q)
BY DEF Leads

LEMMA LeadingSteps ==
    ASSUME NEW busy \in BOOLEAN, NEW q, Calmly(busy, q), NEW a, Fine(busy, a)
    PROVE  /\ Calmly(busy, <<a>> \o q)
           /\ \A b : Fine(busy, b) => Calmly(busy, <<a, b>> \o q)
           /\ \A b, c : Fine(busy, b) /\ Fine(busy, c) => Calmly(busy, <<a, b, c>> \o q)
<1>1. Leads(busy, <<a>>)
  BY LeadSteps
<1>2. \A b : Fine(busy, b) => Leads(busy, <<a, b>>)
  BY LeadSteps
<1>3. \A b, c : Fine(busy, b) /\ Fine(busy, c) => Leads(busy, <<a, b, c>>)
  BY LeadSteps
<1> QED BY <1>1, <1>2, <1>3 DEF Leads

LEMMA CalmScan == Calmly(FALSE, scan_ports)
<1>1. Fine(FALSE, Tell([type |-> "PortsScanned"]))
  BY FinePassing
<1> DEFINE a == Tell([type |-> "PortsScanned"])
<1>2. scan_ports = <<a>>
  BY DEF scan_ports
<1> HIDE DEF a
<1>3. Calmly(FALSE, <<a>> \o <<>>)
  BY <1>1, CalmEmpty, LeadingSteps DEF a
<1> QED BY <1>2, <1>3, OneStep

LEMMA CalmSingle ==
    ASSUME NEW rate, NEW do \in CalmCommands, NEW arg, NEW m, m.type \notin Passing \union Settling
    PROVE  Calmly(TRUE, Single(rate, do, arg, m))
<1> DEFINE a == Open(rate)  b == Ask(do, arg)  c == Tell(m)
<1>1. Fine(TRUE, a) /\ Fine(TRUE, b)
  BY FinePort, FineCommand
<1>2. Calmly(TRUE, <<c>>)
  BY CalmTell
<1>3. Single(rate, do, arg, m) = <<a, b, c>>
  BY DEF Single
<1> HIDE DEF a, b, c
<1>4. Calmly(TRUE, <<a, b>> \o <<c>>)
  BY <1>1, <1>2, LeadingSteps
<1>5. <<a, b>> \o <<c>> = <<a, b, c>>
  BY ThreeAreConcats
<1> QED BY <1>3, <1>4, <1>5

LEMMA CalmCardOperations ==
    ASSUME NEW rate, NEW lba
    PROVE  /\ Calmly(TRUE, read_sectors(rate, lba))
           /\ Calmly(TRUE, erase_sectors(rate, lba))
           /\ Calmly(TRUE, secure_erase_sectors(rate, lba))
           /\ Calmly(TRUE, read_partitions(rate)) /\ Calmly(TRUE, read_ext_csd(rate))
           /\ Calmly(TRUE, get_card_status(rate)) /\ Calmly(TRUE, cache_flush(rate))
           /\ \A index, value : index \notin {179, 183}
                => Calmly(TRUE, write_ext_csd(rate, index, value))
<1>1. /\ "read" \in CalmCommands /\ "erase" \in CalmCommands /\ "secure_erase" \in CalmCommands
      /\ "get_ext_csd" \in CalmCommands /\ "write_ext_csd" \in CalmCommands
      /\ "card_status" \in CalmCommands
  BY DEF CalmCommands
<1>2. \A t \in {"SectorsErased", "SectorsSecureErased", "PartitionsRead", "ExtCsd", "ExtCsdWritten",
                "CardStatus", "CacheFlushed", "SectorsRead"} : t \notin Passing \union Settling
  BY DEF Passing, Settling
<1>3. Calmly(TRUE, erase_sectors(rate, lba))
  BY <1>1, <1>2, CalmSingle DEF erase_sectors
<1>4. Calmly(TRUE, secure_erase_sectors(rate, lba))
  BY <1>1, <1>2, CalmSingle DEF secure_erase_sectors
<1>5. Calmly(TRUE, read_partitions(rate))
  BY <1>1, <1>2, CalmSingle DEF read_partitions
<1>6. Calmly(TRUE, read_ext_csd(rate))
  BY <1>1, <1>2, CalmSingle DEF read_ext_csd
<1>7. ASSUME NEW index, NEW value, index \notin {179, 183}
      PROVE  Calmly(TRUE, write_ext_csd(rate, index, value))
  <2> DEFINE m == [type |-> "ExtCsdWritten"]
  <2>1. write_ext_csd(rate, index, value) = Single(rate, "write_ext_csd", index, m)
    BY <1>7 DEF write_ext_csd
  <2>2. m.type \notin Passing \union Settling
    BY <1>2
  <2> HIDE DEF m
  <2> QED BY <1>1, <2>1, <2>2, CalmSingle
<1>8. Calmly(TRUE, get_card_status(rate))
  BY <1>1, <1>2, CalmSingle DEF get_card_status
<1>9. Calmly(TRUE, read_sectors(rate, lba))
  <2> DEFINE m == [type |-> "SectorsRead", lba |-> lba]
  <2>1. m.type \notin Passing \union Settling
    BY <1>2
  <2>2. read_sectors(rate, lba) = Single(rate, "read", lba, m)
    BY DEF read_sectors, Single
  <2> HIDE DEF m
  <2> QED BY <1>1, <2>1, <2>2, CalmSingle
<1>10. Calmly(TRUE, cache_flush(rate))
  <2> DEFINE a == Open(rate)  b == Ask("write_ext_csd", 33)  c == Ask("write_ext_csd", 32)
             d == Tell([type |-> "CacheFlushed"])
  <2>1. Fine(TRUE, a) /\ Fine(TRUE, b) /\ Fine(TRUE, c)
    BY <1>1, FinePort, FineCommand
  <2>2. Calmly(TRUE, <<d>>)
    BY <1>2, CalmTell
  <2>3. cache_flush(rate) = <<a, b, c, d>>
    BY DEF cache_flush
  <2> HIDE DEF a, b, c, d
  <2>4. Calmly(TRUE, <<a, b, c>> \o <<d>>)
    BY <2>1, <2>2, LeadingSteps
  <2>5. <<a, b, c>> \o <<d>> = <<a, b, c, d>>
    BY FourAreConcats
  <2> QED BY <2>3, <2>4, <2>5
<1> QED BY <1>3, <1>4, <1>5, <1>6, <1>7, <1>8, <1>9, <1>10

LEMMA CalmReadback ==
    ASSUME NEW busy \in BOOLEAN, NEW lba, NEW n \in Nat, NEW fails, Calmly(busy, fails)
    PROVE  Leads(busy, verify_readback(lba, n, fails))
<1> DEFINE a == [Persist(Ask("read", lba)) EXCEPT !.fails = fails]
           b == Tell([type |-> "Progress"])
<1>1. Fine(busy, a)
  BY FinePersist DEF CalmCommands
<1>2. Fine(busy, b)
  BY FinePassing
<1>3. verify_readback(lba, n, fails) = Repeat(n, <<a, b>>)
  BY DEF verify_readback
<1> HIDE DEF a, b
<1> QED BY <1>1, <1>2, <1>3, LeadSteps, LeadRepeat

LEMMA CalmWrite ==
    ASSUME NEW rate, NEW lba, NEW data, NEW verify
    PROVE  Calmly(TRUE, write_sectors(rate, lba, data, verify))
<1> DEFINE a == Open(rate)  b == Ask("write", [lba |-> lba, data |-> data])
           x == verify_readback(lba, 1, Error)
           c == <<Tell([type |-> "WriteVerified"])>>
           d == <<Tell([type |-> "SectorsWritten"])>>
<1>1. Fine(TRUE, a) /\ Fine(TRUE, b)
  BY FinePort, FineCommand DEF CalmCommands
<1>2. Leads(TRUE, x)
  BY CalmReadback, CalmError
<1>3. Calmly(TRUE, c) /\ Calmly(TRUE, d)
  BY CalmTell DEF Passing, Settling
<1>4. write_sectors(rate, lba, data, verify) = <<a, b>> \o IF verify THEN x \o c ELSE d
  BY DEF write_sectors
<1> HIDE DEF a, b, c, d, x
<1>5. Calmly(TRUE, x \o c)
  BY <1>2, <1>3, Leading
<1>6. Calmly(TRUE, <<a, b>> \o (x \o c)) /\ Calmly(TRUE, <<a, b>> \o d)
  BY <1>1, <1>3, <1>5, LeadingSteps
<1> QED BY <1>4, <1>6

LEMMA CalmChecked ==
    ASSUME NEW lba
    PROVE  Leads(TRUE, Repeat(Chunks, <<Step("poll", 0, Error), Persist(Ask("read", lba)),
                                        Tell([type |-> "Progress"])>>))
<1> DEFINE a == Step("poll", 0, Error)  b == Persist(Ask("read", lba))
           c == Tell([type |-> "Progress"])
<1>1. Fine(TRUE, a)
  BY FineStep, CalmError DEF CalmCommands
<1>2. Fine(TRUE, b)
  BY FineCommand DEF CalmCommands
<1>3. Fine(TRUE, c)
  BY FinePassing
<1> HIDE DEF a, b, c
<1>4. Leads(TRUE, Repeat(Chunks, <<a, b, c>>))
  BY <1>1, <1>2, <1>3, LeadSteps, LeadRepeat, ChunksAssumption
<1> QED BY <1>4 DEF a, b, c

\* The GUI is told that a dump is complete before the verification begins.
LEMMA CalmDump ==
    ASSUME NEW rate, NEW lba, NEW verify
    PROVE  /\ Calmly(TRUE, dump_to_file(rate, lba, verify))
           /\ Calmly(TRUE, verify_sectors(rate, lba))
<1> DEFINE a == <<Open(rate)>>
           x == Repeat(Chunks, <<Step("poll", 0, Error), Persist(Ask("read", lba)),
                                 Tell([type |-> "Progress"])>>)
           t == Tell([type |-> "DumpCompleted"])
           y == verify_readback(lba, Chunks, <<>>)
           c == <<Tell([type |-> "DumpVerified"])>>
           d == <<Tell([type |-> "SectorsVerified"])>>
           z == IF verify THEN y \o c ELSE <<>>
<1>1. Leads(TRUE, a) /\ Leads(TRUE, x)
  BY FinePort, LeadSteps, CalmChecked
<1>2. CalmStep(t) /\ Ends(t)
  BY DEF CalmStep, Ends, Tell, Step, Passing, Settling
<1>3. Calmly(FALSE, c) /\ Calmly(TRUE, d)
  BY CalmTell DEF Passing, Settling
<1>4. Leads(FALSE, y)
  BY CalmReadback, CalmEmpty, ChunksAssumption
<1>5. /\ dump_to_file(rate, lba, verify) = ((a \o x) \o <<t>>) \o z
      /\ verify_sectors(rate, lba) = (a \o x) \o d
  BY DEF dump_to_file, verify_sectors
<1> HIDE DEF a, x, t, y, c, d
<1>6. Calmly(FALSE, z)
  BY <1>3, <1>4, Leading, CalmEmpty
<1> HIDE DEF z
<1>7. Calmly(TRUE, <<t>> \o z)
  BY <1>2, <1>6, CalmEnd
<1>8. Leads(TRUE, a \o x)
  BY <1>1, LeadBoth
<1>9. Calmly(TRUE, (a \o x) \o (<<t>> \o z)) /\ Calmly(TRUE, (a \o x) \o d)
  BY <1>3, <1>7, <1>8, Leading
<1>10. ((a \o x) \o <<t>>) \o z = (a \o x) \o (<<t>> \o z)
  <2>1. IsScript(a \o x) /\ IsScript(<<t>>) /\ IsScript(z)
    <3>1. <<t>> \in Seq({t})
      OBVIOUS
    <3> QED BY <3>1, <1>6, <1>8 DEF Leads, Calmly, IsScript
  <2> QED BY <2>1, ScriptsAssociate
<1> QED BY <1>5, <1>9, <1>10

LEMMA CalmRestore ==
    ASSUME NEW rate, NEW lba, NEW data, NEW verify
    PROVE  Calmly(TRUE, restore_from_file(rate, lba, data, verify))
<1> DEFINE p == Step("poll", 0, FlushThenFail)
           w == Step("write", [lba |-> lba, data |-> data], FlushThenFail)
           g == Tell([type |-> "Progress"])
           l == Lax("write_ext_csd", 32)
           t == Tell([type |-> "RestoreCompleted"])
           y == verify_readback(lba, Chunks, <<>>)
           c == <<Tell([type |-> "WriteVerified"])>>
           check == IF verify THEN y \o c ELSE <<>>
           rest  == (Repeat(Chunks, <<p, w, g>>) \o <<l, t>>) \o check
<1>1. Calmly(TRUE, FlushThenFail)
  <2>1. Leads(TRUE, <<l>>)
    BY FineCommand, LeadSteps DEF CalmCommands
  <2> HIDE DEF l
  <2>2. Calmly(TRUE, <<l>> \o Error)
    BY <2>1, CalmError, Leading
  <2> QED BY <2>2 DEF FlushThenFail, l
<1>2. Fine(TRUE, p) /\ Fine(TRUE, w)
  BY <1>1, FineStep DEF CalmCommands
<1>3. Fine(TRUE, g)
  BY FinePassing
<1>4. Fine(TRUE, l)
  BY FineCommand DEF CalmCommands
<1>5. CalmStep(t) /\ Ends(t)
  BY DEF CalmStep, Ends, Tell, Step, Passing, Settling
<1>6. Calmly(FALSE, c)
  BY CalmTell DEF Passing, Settling
<1>7. Leads(FALSE, y)
  BY CalmReadback, CalmEmpty, ChunksAssumption
<1>8. restore_from_file(rate, lba, data, verify) = <<Open(rate)>> \o EnableCache(rest)
  BY DEF restore_from_file
<1> HIDE DEF p, w, g, l, t, y, c
<1>9. Calmly(FALSE, check)
  BY <1>6, <1>7, Leading, CalmEmpty
<1> HIDE DEF check
<1>10. Calmly(TRUE, rest)
  <2>1. Calmly(TRUE, <<t>> \o check)
    BY <1>5, <1>9, CalmEnd
  <2>2. Calmly(TRUE, <<l>> \o (<<t>> \o check))
    BY <2>1, <1>4, LeadingSteps
  <2>3. Leads(TRUE, Repeat(Chunks, <<p, w, g>>))
    BY <1>2, <1>3, LeadSteps, LeadRepeat, ChunksAssumption
  <2> DEFINE x == Repeat(Chunks, <<p, w, g>>)
  <2>4. Calmly(TRUE, x \o (<<l>> \o (<<t>> \o check)))
    BY <2>2, <2>3, Leading
  <2>5. IsScript(x) /\ IsScript(<<l>>) /\ IsScript(<<t>>) /\ IsScript(check)
    <3>1. <<t>> \in Seq({t}) /\ <<l>> \in Seq({l})
      OBVIOUS
    <3> QED BY <3>1, <2>3, <1>9 DEF Leads, Calmly, IsScript
  <2>6. IsScript(<<t>> \o check) /\ IsScript(<<l>> \o <<t>>)
    BY <2>5, ScriptsAssociate
  <2> HIDE DEF x
  <2>7. (x \o (<<l>> \o <<t>>)) \o check = x \o ((<<l>> \o <<t>>) \o check)
    BY <2>5, <2>6, ScriptsAssociate
  <2>8. (<<l>> \o <<t>>) \o check = <<l>> \o (<<t>> \o check)
    BY <2>5, ScriptsAssociate
  <2>9. <<l, t>> = <<l>> \o <<t>>
    BY TuplesAreConcats
  <2> QED BY <2>4, <2>7, <2>8, <2>9 DEF x
<1> HIDE DEF rest
<1>11. Calmly(TRUE, EnableCache(rest))
  <2> DEFINE a == Step("get_ext_csd", 0, rest)  b == Lax("write_ext_csd", 33)
  <2>1. Fine(TRUE, a)
    BY <1>10, FineStep DEF CalmCommands
  <2>2. Fine(TRUE, b)
    BY FineCommand DEF CalmCommands
  <2>3. EnableCache(rest) = <<a, b>> \o rest
    BY DEF EnableCache
  <2> HIDE DEF a, b
  <2>4. Calmly(TRUE, <<a, b>> \o rest)
    BY <2>1, <2>2, <1>10, LeadingSteps
  <2> QED BY <2>3, <2>4
<1>12. Leads(TRUE, <<Open(rate)>>)
  BY FinePort, LeadSteps
<1> QED BY <1>8, <1>11, <1>12, Leading

LEMMA CalmExt4 ==
    ASSUME NEW rate, NEW lba, NEW data
    PROVE  /\ Calmly(TRUE, ext4_load(rate, lba)) /\ Calmly(TRUE, ext4_ls(rate, lba))
           /\ Calmly(TRUE, ext4_cat(rate, lba)) /\ Calmly(TRUE, ext4_write(rate, lba, data))
           /\ Calmly(TRUE, ext4_create(rate, lba, data))
<1> DEFINE a == Ask("read", lba)
           w == Ask("write", [lba |-> lba, data |-> data])
           t0 == Tell([type |-> "Ext4Loaded"])
           t1 == Tell([type |-> "Ext4DirListing"])
           t2 == Tell([type |-> "Ext4FileContent"])
           t3 == Tell([type |-> "Ext4Written"])
           t4 == Tell([type |-> "Ext4Created"])
           s == Step("read", lba, <<t0>>)
           o == OpenFs(rate, lba)
<1>1. Leads(TRUE, o)
  BY FinePort, FineCommand, LeadSteps DEF OpenFs, CalmCommands
<1>2. Fine(TRUE, a) /\ Fine(TRUE, w)
  BY FineCommand DEF CalmCommands
<1>3. /\ Calmly(TRUE, <<t0>>) /\ Calmly(FALSE, <<t1>>) /\ Calmly(TRUE, <<t1>>) /\ Calmly(TRUE, <<t2>>)
      /\ Calmly(TRUE, <<t3>>) /\ Calmly(TRUE, <<t4>>)
  BY CalmTell DEF Passing, Settling
<1>4. CalmStep(t0) /\ Ends(t0)
  BY DEF CalmStep, Ends, Tell, Step, Passing, Settling
<1>5. Fine(TRUE, s)
  <2> HIDE DEF t0
  <2> QED BY <1>3, FineStep DEF CalmCommands
<1>6. /\ ext4_load(rate, lba) = o \o <<s, t0, t1>>
      /\ ext4_ls(rate, lba) = o \o <<a, t1>> /\ ext4_cat(rate, lba) = o \o <<a, t2>>
      /\ ext4_write(rate, lba, data) = o \o <<a, w, t3>>
      /\ ext4_create(rate, lba, data) = o \o <<a, w, t4>>
  BY DEF ext4_load, ext4_ls, ext4_cat, ext4_write, ext4_create
<1> HIDE DEF a, w, s, o, t0, t1, t2, t3, t4
<1>7. Calmly(TRUE, <<s, t0, t1>>)
  <2>1. Calmly(TRUE, <<t0>> \o <<t1>>)
    BY <1>3, <1>4, CalmEnd
  <2>2. Calmly(TRUE, <<t0, t1>>)
    BY <2>1, TuplesAreConcats
  <2>3. Calmly(TRUE, <<s>> \o <<t0, t1>>)
    BY <2>2, <1>5, LeadingSteps
  <2>4. <<s, t0, t1>> = <<s>> \o <<t0, t1>>
    BY TuplesAreConcats
  <2> QED BY <2>3, <2>4
<1>8. ASSUME NEW t, Calmly(TRUE, <<t>>) PROVE Calmly(TRUE, <<a, t>>) /\ Calmly(TRUE, <<a, w, t>>)
  <2>1. Calmly(TRUE, <<a>> \o <<t>>) /\ Calmly(TRUE, <<a, w>> \o <<t>>)
    BY <1>2, <1>8, LeadingSteps
  <2>2. <<a>> \o <<t>> = <<a, t>> /\ <<a, w>> \o <<t>> = <<a, w, t>>
    BY TwoAreConcats, ThreeAreConcats
  <2> QED BY <2>1, <2>2
<1> QED BY <1>1, <1>3, <1>6, <1>7, <1>8, Leading

-----------------------------------------------------------------------------
(* The operations that change a setting: the GUI is told what was done.      *)

LEMMA Rates ==
    /\ DefaultBaud = 3 /\ DefaultBaud \in UartRates /\ 0 \notin UartRates
    /\ \A p \in Presets : UART_BAUD_RATES[p] \in UartRates
                          /\ (UART_BAUD_RATES[p] = DefaultBaud <=> p = 0)
    /\ \A r \in UartRates : Preset(r) \in Presets /\ UART_BAUD_RATES[Preset(r)] = r
<1>1. UART_BAUD_RATES[0] = 3 /\ UART_BAUD_RATES[1] = 6 /\ UART_BAUD_RATES[3] = 12
  BY DEF UART_BAUD_RATES, Presets
<1>2. Presets = {0, 1, 3}
  BY DEF Presets
<1>3. UartRates = {3, 6, 12}
  BY <1>1, <1>2 DEF UartRates
<1>4. ASSUME NEW r \in UartRates PROVE Preset(r) \in Presets /\ UART_BAUD_RATES[Preset(r)] = r
  <2>1. \E p \in Presets : UART_BAUD_RATES[p] = r
    BY <1>4 DEF UartRates
  <2> QED BY <2>1 DEF Preset
<1> QED BY <1>1, <1>2, <1>3, <1>4 DEF DefaultBaud

LEMMA PortOpens ==
    ASSUME NEW k, Sound(k), NEW rate
    PROVE  /\ Sound([k EXCEPT !.open = TRUE, !.baud = rate])
           /\ [k EXCEPT !.open = TRUE, !.baud = rate].strict = k.strict
BY DEF Outlook, OutlookFields, Sound, RateShown, SettingShown

\* A step that fails in peace.
LEMMA SafeTry ==
    ASSUME NEW k, Sound(k), NEW do, NEW arg, NEW q, IsScript(q),
           Proper(k, Ask(do, arg)),
           MayWork(k, Ask(do, arg)) => Safe(Later(k, Ask(do, arg)), q)
    PROVE  Safe(k, <<Ask(do, arg)>> \o q)
<1> DEFINE a == Ask(do, arg)
<1>1. Safe(k, Error)
  BY CalmError DEF Calmly
<1>2. ~a.lax /\ a.fails = Error
  BY DEF Ask, Step
<1>3. Outlook(k)
  BY DEF Sound
<1> HIDE DEF a
<1>4. Proper(k, a) /\ (MayWork(k, a) => Safe(Later(k, a), q))
  BY DEF a
<1>5. Safe(k, <<a>> \o q)
  BY <1>1, <1>2, <1>3, <1>4, SafeCons
<1> QED BY <1>5 DEF a

\* The port is opened; what cannot be opened is told.
LEMMA SafeOpen ==
    ASSUME NEW k, Sound(k), NEW rate, NEW q, IsScript(q),
           ~k.open => Safe([k EXCEPT !.open = TRUE, !.baud = rate], q)
    PROVE  Safe(k, <<Open(rate)>> \o q)
<1> DEFINE a == Ask("open", rate)
<1>1. a.do = "open" /\ a.arg = rate /\ DOMAIN a = {"do", "arg", "tries", "lax", "fails"}
  BY DEF Ask, Step
<1>2. Open(rate) = a
  BY DEF Open, Ask
<1>3. Proper(k, a) /\ (MayWork(k, a) => ~k.open)
  BY <1>1 DEF Proper, MayWork
<1>4. Later(k, a) = [k EXCEPT !.open = TRUE, !.baud = rate]
  BY <1>1 DEF Later
<1>5. Safe(k, <<a>> \o q)
  BY <1>3, <1>4, SafeTry
<1> QED BY <1>2, <1>5

\* The last step of an operation: the GUI is told.
LEMMA SafeTell ==
    ASSUME NEW k, Outlook(k), NEW m, m.type = "ControllerStatusReceived" => k.polled,
           NEW q, IsScript(q), Safe(Told(k, m), q)
    PROVE  Safe(k, <<Tell(m)>> \o q)
<1> DEFINE a == Tell(m)
<1>1. a.do = "tell" /\ a.arg = m /\ DOMAIN a = {"do", "arg", "tries", "lax", "fails"}
  BY DEF Tell, Step
<1> HIDE DEF a
<1>2. Proper(k, a) /\ ~MayFail(k, a) /\ Later(k, a) = Told(k, m)
  BY <1>1 DEF Proper, MayFail, Later
<1>3. Safe(k, <<a>> \o q)
  BY <1>2, SafeCons
<1> QED BY <1>3 DEF a

LEMMA SafeLast ==
    ASSUME NEW k, Outlook(k), NEW m, m.type = "ControllerStatusReceived" => k.polled,
           Over(Told(k, m))
    PROVE  Safe(k, <<Tell(m)>>) /\ IsScript(<<Tell(m)>>)
<1> DEFINE a == Tell(m)
<1>1. IsScript(<<>>)
  BY CalmEmpty DEF Calmly
<1>2. Safe(k, <<a>> \o <<>>)
  BY <1>1, SafeEmpty, SafeTell
<1>3. <<a>> \in Seq({a})
  OBVIOUS
<1> HIDE DEF a
<1>4. IsScript(<<a>>) /\ Safe(k, <<a>>)
  BY <1>2, <1>3, OneStep DEF IsScript
<1> QED BY <1>4 DEF a

LEMMA SafeSingle ==
    ASSUME NEW k, Sound(k), NEW rate, NEW arg, NEW m,
           NEW do \in {"set_clk", "set_bus_width", "set_partition", "get_status", "reinit",
                      "switch_part", "switch_lines"},
           do \in {"switch_part", "switch_lines"} => ~k.strict,
           m.type = "ControllerStatusReceived" => do = "get_status",
           \A h : /\ Sound(h) /\ h.strict = k.strict
                  => Over(Told(Commanded(h, Ask(do, arg)), m))
    PROVE  Safe(k, Single(rate, do, arg, m))
<1> DEFINE a == Ask(do, arg)
           t == Tell(m)
           h == [k EXCEPT !.open = TRUE, !.baud = rate]
<1>1. a.do = do /\ a.arg = arg /\ DOMAIN a = {"do", "arg", "tries", "lax", "fails"}
  BY DEF Ask, Step
<1>2. Sound(h) /\ h.strict = k.strict
  BY PortOpens
<1> HIDE DEF a, h
<1>3. Proper(h, a) /\ Later(h, a) = Commanded(h, a)
  BY <1>1, <1>2 DEF Proper, Later
<1> DEFINE n == Commanded(h, a)
<1>4. Over(Told(n, m)) /\ Outlook(n)
  <2>1. Over(Told(n, m))
    BY <1>2 DEF a
  <2>2. Outlook(n)
    BY <1>1, <1>2 DEF Commanded, Sound, Outlook, OutlookFields
  <2> QED BY <2>1, <2>2
<1>5. m.type = "ControllerStatusReceived" => n.polled
  BY <1>1, <1>2 DEF Commanded, Sound, Outlook, OutlookFields
<1> HIDE DEF n
<1>6. Safe(n, <<t>>) /\ IsScript(<<t>>)
  BY <1>4, <1>5, SafeLast
<1>7. Safe(h, <<a>> \o <<t>>) /\ IsScript(<<a>> \o <<t>>)
  <2>1. IsScript(<<a>> \o <<t>>)
    BY <1>6, ScriptCons
  <2>2. Safe(Later(h, a), <<t>>)
    BY <1>3, <1>6 DEF n
  <2>3. Safe(h, <<Ask(do, arg)>> \o <<t>>)
    <3>1. Proper(h, Ask(do, arg)) /\ Safe(Later(h, Ask(do, arg)), <<t>>)
      BY <1>3, <2>2 DEF a
    <3> HIDE DEF t
    <3> QED BY <1>2, <1>6, <3>1, SafeTry
  <2> QED BY <2>1, <2>3 DEF a
<1>8. Safe(k, <<Open(rate)>> \o (<<a>> \o <<t>>))
  BY <1>7, SafeOpen DEF h
<1>9. Single(rate, do, arg, m) = <<Open(rate)>> \o (<<a>> \o <<t>>)
  <2>1. Single(rate, do, arg, m) = <<Open(rate), a, t>>
    BY DEF Single, a
  <2> DEFINE o == Open(rate)
  <2> HIDE DEF t, o
  <2>2. <<a>> \o <<t>> = <<a, t>>
    BY TwoAreConcats
  <2>3. <<o>> \o <<a, t>> = <<o, a, t>>
    BY ThreeAreConcats
  <2>4. Single(rate, do, arg, m) = <<o, a, t>>
    BY <2>1 DEF o
  <2>5. Single(rate, do, arg, m) = <<o>> \o (<<a>> \o <<t>>)
    BY <2>2, <2>3, <2>4
  <2> QED BY <2>5 DEF o
<1> QED BY <1>8, <1>9

LEMMA SafeSettings ==
    ASSUME NEW k, Sound(k), NEW rate
    PROVE  /\ \A p : Safe(k, set_clk_speed(rate, p))
           /\ \A w : Safe(k, set_bus_width(rate, w))
           /\ Safe(k, get_controller_status(rate))
           /\ ~k.strict => /\ Safe(k, reinit(rate))
                           /\ \A part : Safe(k, set_partition(rate, part))
                           /\ \A index, value : Safe(k, write_ext_csd(rate, index, value))
<1>1. ASSUME NEW p PROVE Safe(k, set_clk_speed(rate, p))
  <2> DEFINE m == [type |-> "ClkSpeedSet", preset |-> p]
             a == Ask("set_clk", p)
  <2>1. a.do = "set_clk" /\ a.arg = p
    BY DEF Ask, Step
  <2>2. m.type = "ClkSpeedSet" /\ m.preset = p
    OBVIOUS
  <2>3. set_clk_speed(rate, p) = Single(rate, "set_clk", p, m)
    BY DEF set_clk_speed
  <2> HIDE DEF m
  <2>4. ASSUME NEW h, Sound(h) PROVE Over(Told(Commanded(h, a), m))
    <3> HIDE DEF a
    <3> DEFINE n == Commanded(h, a)
    <3>1. n = [[h EXCEPT !.kept = TRUE, !.polled = a.do = "get_status"] EXCEPT !.clk = p]
      BY <2>1 DEF Commanded
    <3> HIDE DEF n
    <3>2. Told(n, m) = [n EXCEPT !.sclk = p, !.busy = FALSE]
      BY <2>2 DEF Told
    <3>3. Over([n EXCEPT !.sclk = p, !.busy = FALSE])
      BY <2>4, <3>1 DEF Over, Sound, Outlook, OutlookFields, RateShown, SettingShown
    <3> QED BY <3>2, <3>3 DEF n
  <2> QED BY <2>2, <2>3, <2>4, SafeSingle
<1>2. ASSUME NEW w PROVE Safe(k, set_bus_width(rate, w))
  <2> DEFINE m == [type |-> "BusWidthSet", width |-> w]
             a == Ask("set_bus_width", w)
  <2>1. a.do = "set_bus_width" /\ a.arg = w
    BY DEF Ask, Step
  <2>2. m.type = "BusWidthSet" /\ m.width = w
    OBVIOUS
  <2>3. set_bus_width(rate, w) = Single(rate, "set_bus_width", w, m)
    BY DEF set_bus_width
  <2> HIDE DEF m
  <2>4. ASSUME NEW h, Sound(h) PROVE Over(Told(Commanded(h, a), m))
    <3> HIDE DEF a
    <3> DEFINE n == Commanded(h, a)
    <3>1. n = [[h EXCEPT !.kept = TRUE, !.polled = a.do = "get_status"] EXCEPT !.width = w]
      BY <2>1 DEF Commanded
    <3> HIDE DEF n
    <3>2. Told(n, m) = [n EXCEPT !.swidth = w, !.busy = FALSE]
      BY <2>2 DEF Told
    <3>3. Over([n EXCEPT !.swidth = w, !.busy = FALSE])
      BY <2>4, <3>1 DEF Over, Sound, Outlook, OutlookFields, RateShown, SettingShown
    <3> QED BY <3>2, <3>3 DEF n
  <2> QED BY <2>2, <2>3, <2>4, SafeSingle
<1>3. Safe(k, get_controller_status(rate))
  <2> DEFINE m == [type |-> "ControllerStatusReceived"]
             a == Ask("get_status", 0)
  <2>1. a.do = "get_status"
    BY DEF Ask, Step
  <2>2. m.type = "ControllerStatusReceived"
    OBVIOUS
  <2>3. get_controller_status(rate) = Single(rate, "get_status", 0, m)
    BY DEF get_controller_status
  <2> HIDE DEF m
  <2>4. ASSUME NEW h, Sound(h) PROVE Over(Told(Commanded(h, a), m))
    <3> HIDE DEF a
    <3> DEFINE n == Commanded(h, a)
    <3>1. n = [h EXCEPT !.kept = TRUE, !.polled = a.do = "get_status"]
      BY <2>1 DEF Commanded
    <3> HIDE DEF n
    <3>2. Told(n, m) = [n EXCEPT !.sclk = n.clk, !.spreset = Preset(n.rate), !.busy = FALSE]
      BY <2>2 DEF Told
    <3>3. n.rate \in UartRates
      BY <2>4, <3>1 DEF Sound, Outlook, OutlookFields
    <3>4. Preset(n.rate) \in Presets /\ UART_BAUD_RATES[Preset(n.rate)] = n.rate
      BY <3>3, Rates
    <3>5. Over([n EXCEPT !.sclk = n.clk, !.spreset = Preset(n.rate), !.busy = FALSE])
      BY <2>4, <3>1, <3>4 DEF Over, Sound, Outlook, OutlookFields, RateShown, SettingShown
    <3> QED BY <3>2, <3>5 DEF n
  <2> QED BY <2>2, <2>3, <2>4, SafeSingle
<1>4. ASSUME ~k.strict PROVE Safe(k, reinit(rate))
  <2> DEFINE m == [type |-> "Reinitialized"]
             a == Ask("reinit", 0)
  <2>1. a.do = "reinit"
    BY DEF Ask, Step
  <2>2. m.type = "Reinitialized"
    OBVIOUS
  <2>3. reinit(rate) = Single(rate, "reinit", 0, m)
    BY DEF reinit
  <2> HIDE DEF m
  <2>4. ASSUME NEW h, Sound(h), ~h.strict PROVE Over(Told(Commanded(h, a), m))
    <3> HIDE DEF a
    <3> DEFINE n == Commanded(h, a)
    <3>1. n = [[h EXCEPT !.kept = TRUE, !.polled = a.do = "get_status"] EXCEPT !.width = 1, !.part = "User"]
      BY <2>1 DEF Commanded
    <3> HIDE DEF n
    <3>2. Told(n, m) = [n EXCEPT !.busy = FALSE]
      BY <2>2 DEF Told
    <3>3. Over([n EXCEPT !.busy = FALSE])
      BY <2>4, <3>1 DEF Over, Sound, Outlook, OutlookFields, RateShown, SettingShown
    <3> QED BY <3>2, <3>3 DEF n
  <2> QED BY <1>4, <2>2, <2>3, <2>4, SafeSingle
<1>5. ASSUME ~k.strict, NEW part PROVE Safe(k, set_partition(rate, part))
  <2> DEFINE m == [type |-> "Completed"]
             a == Ask("set_partition", part)
  <2>1. a.do = "set_partition" /\ a.arg = part
    BY DEF Ask, Step
  <2>2. m.type = "Completed"
    OBVIOUS
  <2>3. set_partition(rate, part) = Single(rate, "set_partition", part, m)
    BY DEF set_partition
  <2> HIDE DEF m
  <2>4. ASSUME NEW h, Sound(h), ~h.strict PROVE Over(Told(Commanded(h, a), m))
    <3> HIDE DEF a
    <3> DEFINE n == Commanded(h, a)
    <3>1. n = [[h EXCEPT !.kept = TRUE, !.polled = a.do = "get_status"] EXCEPT !.part = part]
      BY <2>1 DEF Commanded
    <3> HIDE DEF n
    <3>2. Told(n, m) = [n EXCEPT !.busy = FALSE]
      BY <2>2 DEF Told
    <3>3. Over([n EXCEPT !.busy = FALSE])
      BY <2>4, <3>1 DEF Over, Sound, Outlook, OutlookFields, RateShown, SettingShown
    <3> QED BY <3>2, <3>3 DEF n
  <2> QED BY <1>5, <2>2, <2>3, <2>4, SafeSingle
<1>6. ASSUME ~k.strict, NEW index, NEW value PROVE Safe(k, write_ext_csd(rate, index, value))
  <2> DEFINE m == [type |-> "ExtCsdWritten"]
  <2>1. m.type = "ExtCsdWritten"
    OBVIOUS
  <2>2. CASE index \in {179, 183}
    <3>1. PICK do, arg : /\ do \in {"switch_part", "switch_lines"}
                         /\ write_ext_csd(rate, index, value) = Single(rate, do, arg, m)
      BY <2>2 DEF write_ext_csd
    <3> DEFINE a == Ask(do, arg)
    <3>2. a.do = do /\ a.arg = arg
      BY DEF Ask, Step
    <3> HIDE DEF m
    <3>3. ASSUME NEW h, Sound(h), ~h.strict PROVE Over(Told(Commanded(h, a), m))
      <4> HIDE DEF a
      <4> DEFINE n == Commanded(h, a)
      <4>1. n = [h EXCEPT !.kept = TRUE, !.polled = a.do = "get_status"]
              \/ n = [[h EXCEPT !.kept = TRUE, !.polled = a.do = "get_status"] EXCEPT !.part = arg]
        BY <3>1, <3>2 DEF Commanded
      <4> HIDE DEF n
      <4>2. Told(n, m) = [n EXCEPT !.busy = FALSE]
        BY <2>1 DEF Told
      <4> DEFINE z == [n EXCEPT !.busy = FALSE]
      <4>3. Sound(n) /\ ~n.strict
        <5>1. Outlook(n) /\ ~n.waiting /\ ~n.strict
          BY <3>3, <4>1 DEF Sound, Outlook, OutlookFields
        <5>2. RateShown(n)
          BY <3>3, <4>1 DEF Sound, Outlook, OutlookFields, RateShown
        <5> QED BY <5>1, <5>2 DEF Sound, SettingShown
      <4>4. Outlook(z) /\ ~z.waiting /\ ~z.strict /\ ~z.busy
        BY <4>3 DEF Sound, Outlook, OutlookFields
      <4>5. RateShown(z)
        BY <4>3 DEF Sound, Outlook, OutlookFields, RateShown
      <4>6. Over(z)
        BY <4>4, <4>5 DEF Over, Sound, SettingShown
      <4> QED BY <4>2, <4>6 DEF n, z
    <3>4. Safe(k, Single(rate, do, arg, m))
      BY <1>6, <2>1, <3>1, <3>3, SafeSingle
    <3> QED BY <3>1, <3>4
  <2>3. CASE index \notin {179, 183}
    BY <2>3, CalmCardOperations DEF Calmly
  <2> QED BY <2>2, <2>3
<1> QED BY <1>1, <1>2, <1>3, <1>4, <1>5, <1>6

\* A step that cannot fail where it comes.
LEMMA SafeGo ==
    ASSUME NEW k, Outlook(k), NEW do, NEW arg, NEW fails, NEW q, IsScript(q),
           Proper(k, Step(do, arg, fails)), ~MayFail(k, Step(do, arg, fails)),
           Safe(Later(k, Step(do, arg, fails)), q)
    PROVE  Safe(k, <<Step(do, arg, fails)>> \o q)
<1> DEFINE a == Step(do, arg, fails)
<1> HIDE DEF a
<1>1. Safe(k, <<a>> \o q)
  BY SafeCons DEF a
<1> QED BY <1>1 DEF a

LEMMA SafePort ==
    ASSUME NEW k, Outlook(k), NEW rate, NEW fails, NEW q, IsScript(q)
    PROVE  /\ ~k.open /\ (rate = 0 <=> k.fifo)
                /\ Safe([k EXCEPT !.open = TRUE, !.baud = rate], q)
              => Safe(k, <<Step("open", rate, fails)>> \o q)
           /\ Safe([k EXCEPT !.open = FALSE], q) => Safe(k, <<Close>> \o q)
<1> DEFINE a == Step("open", rate, fails)
           c == Step("close", 0, <<>>)
<1>1. a.do = "open" /\ a.arg = rate /\ DOMAIN a = {"do", "arg", "tries", "lax", "fails"}
  BY DEF Step
<1>2. c.do = "close" /\ DOMAIN c = {"do", "arg", "tries", "lax", "fails"}
  BY DEF Step
<1> HIDE DEF a, c
<1>3. /\ Proper(k, a) /\ Proper(k, c) /\ ~MayFail(k, c)
      /\ ~k.open /\ (rate = 0 <=> k.fifo) => ~MayFail(k, a)
      /\ Later(k, a) = [k EXCEPT !.open = TRUE, !.baud = rate]
      /\ Later(k, c) = [k EXCEPT !.open = FALSE]
  BY <1>1, <1>2 DEF Proper, MayFail, Later
<1>4. ASSUME ~k.open, rate = 0 <=> k.fifo, Safe([k EXCEPT !.open = TRUE, !.baud = rate], q)
      PROVE  Safe(k, <<a>> \o q)
  BY <1>3, <1>4, SafeGo DEF a
<1>5. ASSUME Safe([k EXCEPT !.open = FALSE], q)
      PROVE  Safe(k, <<c>> \o q)
  BY <1>3, <1>5, SafeGo DEF c
<1>6. c = Close
  BY DEF c, Close
<1> QED BY <1>4, <1>5, <1>6 DEF a

\* A command the reader hears.
LEMMA SafeHeard ==
    ASSUME NEW k, Outlook(k), Heard(k), NEW arg, NEW fails, NEW q, IsScript(q),
           NEW do \in {"ping", "get_info", "set_clk", "set_baud", "set_partition"},
           do = "set_baud" => arg \in Presets
    PROVE  LET h == [k EXCEPT !.kept = TRUE, !.polled = FALSE]
           IN  Safe(CASE do = "set_clk" -> [h EXCEPT !.clk = arg]
                      [] do = "set_baud" -> [h EXCEPT !.rate = UART_BAUD_RATES[arg]]
                      [] do = "set_partition" -> [h EXCEPT !.part = arg]
                      [] OTHER -> h, q)
               => Safe(k, <<Step(do, arg, fails)>> \o q)
<1> DEFINE a == Step(do, arg, fails)
           h == [k EXCEPT !.kept = TRUE, !.polled = FALSE]
<1>1. a.do = do /\ a.arg = arg /\ DOMAIN a = {"do", "arg", "tries", "lax", "fails"}
  BY DEF Step
<1> HIDE DEF a
<1>2. Proper(k, a) /\ ~MayFail(k, a)
  BY <1>1 DEF Proper, MayFail
<1>3. Later(k, a) = CASE do = "set_clk" -> [h EXCEPT !.clk = arg]
                      [] do = "set_baud" -> [h EXCEPT !.rate = UART_BAUD_RATES[arg]]
                      [] do = "set_partition" -> [h EXCEPT !.part = arg]
                      [] OTHER -> h
  <2>1. Later(k, a) = Commanded(k, a)
    BY <1>1 DEF Later
  <2>2. a.do # "get_status"
    BY <1>1
  <2>3. [k EXCEPT !.kept = TRUE, !.polled = a.do = "get_status"] = h
    BY <2>2
  <2> HIDE DEF h
  <2> QED BY <1>1, <2>1, <2>3 DEF Commanded
<1>4. ASSUME Safe(Later(k, a), q) PROVE Safe(k, <<a>> \o q)
  BY <1>2, <1>4, SafeGo DEF a
<1> QED BY <1>3, <1>4 DEF a

LEMMA SafeHeardEasy ==
    ASSUME NEW k, Outlook(k), Heard(k), NEW fails, NEW q, IsScript(q)
    PROVE  /\ \A arg : \A do \in {"ping", "get_info"} :
                 Safe([k EXCEPT !.kept = TRUE, !.polled = FALSE], q)
                 => Safe(k, <<Step(do, arg, fails)>> \o q)
           /\ \A part : Safe([k EXCEPT !.kept = TRUE, !.polled = FALSE, !.part = part], q)
                        => Safe(k, <<Step("set_partition", part, fails)>> \o q)
           /\ \A p \in Presets :
                 Safe([k EXCEPT !.kept = TRUE, !.polled = FALSE, !.rate = UART_BAUD_RATES[p]], q)
                 => Safe(k, <<Step("set_baud", p, fails)>> \o q)
BY SafeHeard

\* A partition is shown before the reader is asked for it, and it will be there.
LEMMA SafePartition ==
    ASSUME NEW k, Outlook(k), ~k.waiting, RateShown(k), ~k.open, NEW part,
           k.strict => k.conn /\ k.sclk = k.clk /\ k.swidth = k.width /\ k.spart = part,
           NEW rate, rate = IF k.fifo THEN 0 ELSE k.sbaud
    PROVE  Safe(k, set_partition(rate, part))
<1>1. CASE ~k.strict
  BY <1>1, SafeSettings DEF Sound, SettingShown
<1>2. CASE k.strict
  <2> DEFINE m == [type |-> "Completed"]
             h == [k EXCEPT !.open = TRUE, !.baud = rate]
             n == [h EXCEPT !.kept = TRUE, !.polled = FALSE, !.part = part]
             o == Step("open", rate, Error)
             a == Step("set_partition", part, Error)
             t == Tell(m)
  <2>1. rate = 0 <=> k.fifo
    BY <1>2, Rates DEF Outlook, RateShown
  <2>2. Outlook(h) /\ Heard(h)
    BY <1>2 DEF Outlook, OutlookFields, RateShown, Heard
  <2>3. Outlook(n) /\ Over(Told(n, m))
    <3>1. Told(n, m) = [n EXCEPT !.busy = FALSE]
      <4>1. m.type = "Completed"
        OBVIOUS
      <4> HIDE DEF m, n
      <4> QED BY <4>1 DEF Told
    <3>2. Outlook(n) /\ Over([n EXCEPT !.busy = FALSE])
      BY <1>2 DEF Outlook, OutlookFields, Over, Sound, RateShown, SettingShown
    <3> QED BY <3>1, <3>2
  <2>4. m.type # "ControllerStatusReceived"
    OBVIOUS
  <2>5. set_partition(rate, part) = <<o, a, t>>
    BY DEF set_partition, Single, Open, Ask
  <2> HIDE DEF m
  <2>6. Safe(n, <<t>>) /\ IsScript(<<t>>)
    BY <2>3, <2>4, SafeLast
  <2> HIDE DEF t, n, h
  <2>7. Safe(h, <<a>> \o <<t>>) /\ IsScript(<<a>> \o <<t>>)
    BY <2>2, <2>6, SafeHeardEasy, ScriptCons DEF n
  <2>8. Safe(k, <<o>> \o (<<a>> \o <<t>>))
    BY <2>1, <2>7, SafePort DEF h
  <2> HIDE DEF o, a
  <2>9. <<a>> \o <<t>> = <<a, t>>
    BY TwoAreConcats
  <2>10. <<o>> \o <<a, t>> = <<o, a, t>>
    BY ThreeAreConcats
  <2> QED BY <2>5, <2>8, <2>9, <2>10
<1> QED BY <1>1, <1>2

LEMMA MoreAreConcats ==
    /\ \A a, b, c, d : <<a>> \o <<b, c, d>> = <<a, b, c, d>>
    /\ \A a, b, c, d, e : <<a>> \o <<b, c, d, e>> = <<a, b, c, d, e>>
    /\ \A a, b, c, d, e, f : <<a>> \o <<b, c, d, e, f>> = <<a, b, c, d, e, f>>
<1>1. ASSUME NEW a, NEW b, NEW c, NEW d PROVE <<a>> \o <<b, c, d>> = <<a, b, c, d>>
  <2>1. <<a, b, c, d>> \in Seq({a, b, c, d}) /\ <<a>> \o <<b, c, d>> \in Seq({a, b, c, d})
    OBVIOUS
  <2>2. Len(<<a, b, c, d>>) = 4 /\ Len(<<a>> \o <<b, c, d>>) = 4
    OBVIOUS
  <2>3. \A i \in 1..4 : (<<a>> \o <<b, c, d>>)[i] = <<a, b, c, d>>[i]
    OBVIOUS
  <2> QED BY <2>1, <2>2, <2>3, SeqEqual
<1>2. ASSUME NEW a, NEW b, NEW c, NEW d, NEW e
      PROVE  <<a>> \o <<b, c, d, e>> = <<a, b, c, d, e>>
  <2> DEFINE S == {a, b, c, d, e}
  <2>1. <<a, b, c, d, e>> \in Seq(S) /\ <<a>> \o <<b, c, d, e>> \in Seq(S)
    OBVIOUS
  <2>2. Len(<<a, b, c, d, e>>) = 5 /\ Len(<<a>> \o <<b, c, d, e>>) = 5
    OBVIOUS
  <2>3. \A i \in 1..5 : (<<a>> \o <<b, c, d, e>>)[i] = <<a, b, c, d, e>>[i]
    OBVIOUS
  <2> HIDE DEF S
  <2> QED BY <2>1, <2>2, <2>3, SeqEqual
<1>3. ASSUME NEW a, NEW b, NEW c, NEW d, NEW e, NEW f
      PROVE  <<a>> \o <<b, c, d, e, f>> = <<a, b, c, d, e, f>>
  <2> DEFINE S == {a, b, c, d, e, f}
  <2>1. <<a, b, c, d, e, f>> \in Seq(S) /\ <<a>> \o <<b, c, d, e, f>> \in Seq(S)
    OBVIOUS
  <2>2. Len(<<a, b, c, d, e, f>>) = 6 /\ Len(<<a>> \o <<b, c, d, e, f>>) = 6
    OBVIOUS
  <2>3. \A i \in 1..6 : (<<a>> \o <<b, c, d, e, f>>)[i] = <<a, b, c, d, e, f>>[i]
    OBVIOUS
  <2> HIDE DEF S
  <2> QED BY <2>1, <2>2, <2>3, SeqEqual
<1> QED BY <1>1, <1>2, <1>3

\* The rate of the reader, and then that of the port: at the old rate nothing is told
\* any more, at the new one the GUI is.
LEMMA SafeBaud ==
    ASSUME NEW k, Sound(k), NEW p \in Presets, NEW rate
    PROVE  Safe(k, set_baud(rate, p))
<1> DEFINE new == UART_BAUD_RATES[p]
           m == [type |-> "BaudPresetSet", preset |-> p, baud |-> new]
           h == [k EXCEPT !.open = TRUE, !.baud = rate]
           n == [h EXCEPT !.kept = TRUE, !.polled = FALSE, !.rate = new]
           n2 == [n EXCEPT !.open = FALSE]
           n3 == [n2 EXCEPT !.open = TRUE, !.baud = new]
           n4 == [n3 EXCEPT !.kept = TRUE, !.polled = FALSE]
           a1 == Open(rate)
           a2 == Ask("set_baud", p)
           a4 == Open(new)
           a5 == Step("ping", 0, Error)
           t == Tell(m)
<1>1. new \in UartRates /\ new # 0
  BY Rates
<1>2. m.type = "BaudPresetSet" /\ m.preset = p /\ m.baud = new
  OBVIOUS
<1>3. set_baud(rate, p) = <<a1, a2, Close, a4, a5, t>>
  BY DEF set_baud, Ask
<1> HIDE DEF m
<1>4. Outlook(n4) /\ Over(Told(n4, m))
  <2>1. Told(n4, m) = [n4 EXCEPT !.spreset = p, !.sbaud = new, !.busy = FALSE]
    <3> HIDE DEF n4, new
    <3> QED BY <1>2 DEF Told
  <2>2. Outlook(n4) /\ Over([n4 EXCEPT !.spreset = p, !.sbaud = new, !.busy = FALSE])
    <3> HIDE DEF new
    <3> QED BY <1>1 DEF new, Outlook, OutlookFields, Over, Sound, RateShown, SettingShown
  <2> QED BY <2>1, <2>2
<1>5. Safe(n4, <<t>>) /\ IsScript(<<t>>)
  BY <1>2, <1>4, SafeLast
<1> HIDE DEF t
<1>6. Outlook(n3) /\ Heard(n3)
  <2> HIDE DEF new
  <2> QED BY <1>1 DEF Sound, Outlook, OutlookFields, Heard
<1>7. Safe(n3, <<a5>> \o <<t>>) /\ IsScript(<<a5>> \o <<t>>)
  <2> HIDE DEF n3
  <2> QED BY <1>5, <1>6, SafeHeardEasy, ScriptCons
<1>8. /\ Outlook(n2) /\ ~n2.open /\ n2.fifo = k.fifo
      /\ k.fifo => Sound(n2)
  <2> HIDE DEF new
  <2> QED BY <1>1 DEF Sound, Outlook, OutlookFields, RateShown, SettingShown
<1>9. Safe(n2, <<a4>> \o (<<a5>> \o <<t>>)) /\ IsScript(<<a4>> \o (<<a5>> \o <<t>>))
  <2> DEFINE q == <<a5>> \o <<t>>
  <2>0. Safe(n3, q) /\ IsScript(q)
    BY <1>7
  <2> HIDE DEF q, n2, a5, new
  <2>1. ASSUME k.fifo PROVE Safe(n2, <<a4>> \o q)
    BY <1>8, <2>0, <2>1, SafeOpen
  <2>2. ASSUME ~k.fifo PROVE Safe(n2, <<a4>> \o q)
    <3>1. new = 0 <=> n2.fifo
      BY <1>1, <1>8, <2>2
    <3>2. Safe(n2, <<Step("open", new, Error)>> \o q)
      BY <1>8, <2>0, <3>1, SafePort
    <3> QED BY <3>2 DEF Open
  <2>3. Safe(n2, <<a4>> \o q)
    BY <2>1, <2>2
  <2>4. IsScript(<<a4>> \o q)
    BY <2>0, ScriptCons
  <2> QED BY <2>3, <2>4 DEF q
<1> DEFINE r == <<a4>> \o (<<a5>> \o <<t>>)
<1> HIDE DEF a4, a5
<1>10. Outlook(n)
  <2> HIDE DEF new
  <2> QED BY <1>1 DEF Sound, Outlook, OutlookFields
<1>11. Safe(n, <<Close>> \o r) /\ IsScript(<<Close>> \o r)
  <2> HIDE DEF n, r
  <2>1. Safe(n2, r) /\ IsScript(r)
    BY <1>9 DEF r
  <2> QED BY <1>10, <2>1, SafePort, ScriptCons
<1>12. Sound(h)
  BY PortOpens
<1>13. Safe(h, <<a2>> \o (<<Close>> \o r)) /\ IsScript(<<a2>> \o (<<Close>> \o r))
  <2> DEFINE q == <<Close>> \o r
  <2>1. Safe(n, q) /\ IsScript(q)
    BY <1>11
  <2> HIDE DEF q
  <2>2. a2.do = "set_baud" /\ a2.arg = p /\ DOMAIN a2 = {"do", "arg", "tries", "lax", "fails"}
    BY DEF Ask, Step
  <2>3. Proper(h, a2) /\ Later(h, a2) = n
    <3>1. Proper(h, a2) /\ Later(h, a2) = Commanded(h, a2)
      <4> HIDE DEF a2, h
      <4> QED BY <2>2 DEF Proper, Later
    <3>2. a2.do # "get_status"
      BY <2>2
    <3> DEFINE g == [h EXCEPT !.kept = TRUE, !.polled = a2.do = "get_status"]
    <3>3. g = [h EXCEPT !.kept = TRUE, !.polled = FALSE]
      BY <3>2
    <3>4. Commanded(h, a2) = [g EXCEPT !.rate = new]
      <4> HIDE DEF a2, h
      <4> QED BY <2>2 DEF Commanded
    <3>5. [g EXCEPT !.rate = new] = n
      <4> HIDE DEF h, g
      <4> QED BY <3>3
    <3> QED BY <3>1, <3>4, <3>5
  <2> HIDE DEF h, n
  <2>4. Safe(h, <<a2>> \o q)
    BY <1>12, <2>1, <2>3, SafeTry
  <2>5. IsScript(<<a2>> \o q)
    <3> HIDE DEF a2
    <3> QED BY <2>1, ScriptCons
  <2> QED BY <2>4, <2>5 DEF q
<1> DEFINE s == <<a2>> \o (<<Close>> \o r)
<1>14. Safe(k, <<a1>> \o s)
  <2>1. Safe(h, s) /\ IsScript(s)
    BY <1>13
  <2> HIDE DEF s
  <2> QED BY <2>1, SafeOpen
<1>15. <<a1>> \o s = <<a1, a2, Close, a4, a5, t>>
  <2> DEFINE c == Close
  <2> HIDE DEF a1, a2, c
  <2>1. <<a5>> \o <<t>> = <<a5, t>> /\ <<a4>> \o <<a5, t>> = <<a4, a5, t>>
    BY TwoAreConcats, ThreeAreConcats
  <2>2. r = <<a4, a5, t>>
    BY <2>1
  <2>3. <<c>> \o <<a4, a5, t>> = <<c, a4, a5, t>>
    BY MoreAreConcats
  <2>4. <<a2>> \o <<c, a4, a5, t>> = <<a2, c, a4, a5, t>>
    BY MoreAreConcats
  <2>5. <<a1>> \o <<a2, c, a4, a5, t>> = <<a1, a2, c, a4, a5, t>>
    BY MoreAreConcats
  <2>6. <<a1>> \o (<<a2>> \o (<<c>> \o r)) = <<a1, a2, c, a4, a5, t>>
    BY <2>2, <2>3, <2>4, <2>5
  <2> QED BY <2>6 DEF c
<1> QED BY <1>3, <1>14, <1>15

\* A keepalive gets through, whatever the silence before it.
LEMMA SafeKeepalive ==
    ASSUME NEW k, Outlook(k), ~k.fifo, ~k.open, ~k.busy, SettingShown(k),
           k.sbaud = k.rate, k.spreset \in Presets, UART_BAUD_RATES[k.spreset] = k.rate
    PROVE  Safe(k, keepalive_ping(k.sbaud))
<1> DEFINE m == [type |-> "KeepaliveOk"]
           ok == <<Tell(m)>>
           h == [k EXCEPT !.open = TRUE, !.baud = k.sbaud]
           n == [h EXCEPT !.kept = TRUE, !.polled = FALSE]
           o == Step("open", k.sbaud, ok)
           a == Lax("ping", 0)
<1>1. m.type = "KeepaliveOk" /\ k.sbaud # 0
  BY Rates DEF Outlook
<1>2. keepalive_ping(k.sbaud) = <<o, a>> \o ok
  BY DEF keepalive_ping
<1> HIDE DEF m
<1>3. Outlook(n) /\ Over(Told(n, m))
  <2>1. Told(n, m) = [n EXCEPT !.waiting = FALSE]
    <3> HIDE DEF n
    <3> QED BY <1>1 DEF Told
  <2>2. Outlook(n) /\ Over([n EXCEPT !.waiting = FALSE])
    BY DEF Outlook, OutlookFields, Over, Sound, RateShown, SettingShown
  <2> QED BY <2>1, <2>2
<1>4. Safe(n, ok) /\ IsScript(ok)
  BY <1>1, <1>3, SafeLast
<1>5. Outlook(h) /\ Heard(h)
  BY DEF Outlook, OutlookFields, Heard
<1> HIDE DEF ok
<1>6. Safe(h, <<a>> \o ok) /\ IsScript(<<a>> \o ok)
  <2>1. a.do = "ping" /\ DOMAIN a = {"do", "arg", "tries", "lax", "fails"}
    BY DEF Lax, Step
  <2> HIDE DEF a
  <2>2. Proper(h, a) /\ ~MayFail(h, a)
    <3> HIDE DEF h
    <3> QED BY <1>5, <2>1 DEF Proper, MayFail
  <2>3. Later(h, a) = n
    <3>1. Later(h, a) = Commanded(h, a)
      <4> HIDE DEF h
      <4> QED BY <2>1 DEF Later
    <3>2. Commanded(h, a) = [h EXCEPT !.kept = TRUE, !.polled = a.do = "get_status"]
      <4> HIDE DEF h
      <4> QED BY <2>1 DEF Commanded
    <3>3. a.do # "get_status"
      BY <2>1
    <3> HIDE DEF h
    <3> QED BY <3>1, <3>2, <3>3
  <2> HIDE DEF h, n
  <2>4. Safe(h, <<a>> \o ok)
    BY <1>4, <1>5, <2>2, <2>3, SafeCons
  <2> QED BY <1>4, <2>4, ScriptCons
<1>7. Safe(k, <<o>> \o (<<a>> \o ok))
  <2> DEFINE q == <<a>> \o ok
  <2>1. Safe(h, q) /\ IsScript(q)
    BY <1>6
  <2>2. k.sbaud = 0 <=> k.fifo
    BY <1>1
  <2> HIDE DEF q
  <2>3. Safe(k, <<o>> \o q)
    BY <2>1, <2>2, SafePort
  <2> QED BY <2>3 DEF q
<1>8. <<o, a>> \o ok = <<o>> \o (<<a>> \o ok)
  <2> HIDE DEF o, a
  <2>1. IsScript(<<o>>) /\ IsScript(<<a>>) /\ IsScript(ok)
    <3>1. <<o>> \in Seq({o}) /\ <<a>> \in Seq({a})
      OBVIOUS
    <3> QED BY <1>4, <3>1 DEF IsScript
  <2>2. (<<o>> \o <<a>>) \o ok = <<o>> \o (<<a>> \o ok)
    BY <2>1, ScriptsAssociate
  <2>3. <<o>> \o <<a>> = <<o, a>>
    BY TwoAreConcats
  <2> QED BY <2>2, <2>3
<1> QED BY <1>2, <1>7, <1>8

LEMMA EmptyFirst == \A q : IsScript(q) => <<>> \o q = q
<1> SUFFICES ASSUME NEW q, IsScript(q) PROVE <<>> \o q = q
  OBVIOUS
<1>1. PICK E : q \in Seq(E)
  BY DEF IsScript
<1> QED BY <1>1, ConcatEmptySeq

LEMMA PairFirst == \A a, b, q : IsScript(q) => /\ <<a, b>> \o q = <<a>> \o (<<b>> \o q)
                                              /\ IsScript(<<a, b>> \o q)
<1> SUFFICES ASSUME NEW a, NEW b, NEW q, IsScript(q)
             PROVE  <<a, b>> \o q = <<a>> \o (<<b>> \o q) /\ IsScript(<<a, b>> \o q)
  OBVIOUS
<1>1. IsScript(<<a>>) /\ IsScript(<<b>>)
  <2>1. <<a>> \in Seq({a}) /\ <<b>> \in Seq({b})
    OBVIOUS
  <2> QED BY <2>1 DEF IsScript
<1>2. (<<a>> \o <<b>>) \o q = <<a>> \o (<<b>> \o q)
  BY <1>1, ScriptsAssociate
<1>3. <<a>> \o <<b>> = <<a, b>>
  BY TwoAreConcats
<1>4. IsScript(<<a>> \o (<<b>> \o q))
  BY ScriptCons
<1> QED BY <1>2, <1>3, <1>4

LEMMA ProfileSpeeds ==
    ASSUME NEW profile \in SpeedProfile
    PROVE  /\ baud_preset[profile] \in Presets
           /\ clk_preset[profile] \in {0, 2, 3}
           /\ target_baud(profile) = UART_BAUD_RATES[baud_preset[profile]]
<1>1. baud_preset["Fast"] = 3 /\ baud_preset["Medium"] = 1 /\ baud_preset["Safe"] = 0
  BY DEF baud_preset, SpeedProfile
<1>2. clk_preset["Fast"] = 3 /\ clk_preset["Medium"] = 2 /\ clk_preset["Safe"] = 0
  BY DEF clk_preset, SpeedProfile
<1> QED BY <1>1, <1>2 DEF SpeedProfile, Presets, target_baud

\* The message of a connecting, when what it says is the case.
LEMMA SafeConnected ==
    ASSUME NEW k, Outlook(k), ~k.waiting, NEW rate, NEW p, NEW c,
           k.strict => c = k.clk /\ k.swidth = k.width /\ k.spart = k.part,
           ~k.fifo => k.kept /\ rate = k.rate /\ p \in Presets /\ UART_BAUD_RATES[p] = k.rate
    PROVE  Safe(k, ConnectedWithSpeed(rate, p, c)) /\ IsScript(ConnectedWithSpeed(rate, p, c))
<1> DEFINE m == [type |-> "ConnectedWithSpeed", baud |-> rate, preset |-> p, clk |-> c]
<1>1. m.type = "ConnectedWithSpeed" /\ m.baud = rate /\ m.preset = p /\ m.clk = c
  OBVIOUS
<1>2. ConnectedWithSpeed(rate, p, c) = <<Tell(m)>>
  BY DEF ConnectedWithSpeed
<1> HIDE DEF m
<1>3. Told(k, m) = [k EXCEPT !.conn = TRUE, !.sbaud = rate, !.spreset = p, !.sclk = c,
                             !.busy = FALSE]
  BY <1>1 DEF Told
<1>4. Over(Told(k, m))
  <2>1. Over([k EXCEPT !.conn = TRUE, !.sbaud = rate, !.spreset = p, !.sclk = c, !.busy = FALSE])
    BY DEF Outlook, OutlookFields, Over, Sound, RateShown, SettingShown
  <2> QED BY <1>3, <2>1
<1> QED BY <1>1, <1>2, <1>4, SafeLast

LEMMA SafeInfo ==
    ASSUME NEW k, Outlook(k), Heard(k), NEW rest, IsScript(rest),
           Safe([k EXCEPT !.kept = TRUE, !.polled = FALSE], rest)
    PROVE  /\ Safe(k, read_card_info_and_report(rest))
           /\ IsScript(read_card_info_and_report(rest))
<1> DEFINE a == Step("get_info", 0, rest)
           m == [type |-> "CardInfo"]
           t == Tell(m)
           n == [k EXCEPT !.kept = TRUE, !.polled = FALSE]
<1>1. m.type = "CardInfo"
  OBVIOUS
<1>2. read_card_info_and_report(rest) = <<a, t>> \o rest
  BY DEF read_card_info_and_report
<1>3. Outlook(n)
  BY DEF Outlook, OutlookFields
<1> HIDE DEF m
<1>4. Safe(n, <<t>> \o rest)
  <2> HIDE DEF n
  <2>1. Told(n, m) = n
    BY <1>1 DEF Told
  <2>2. Safe(n, rest)
    BY DEF n
  <2> QED BY <1>1, <1>3, <2>1, <2>2, SafeTell
<1> HIDE DEF t
<1>5. IsScript(<<t>> \o rest)
  BY ScriptCons
<1>6. Safe(k, <<a>> \o (<<t>> \o rest))
  BY <1>4, <1>5, SafeHeardEasy
<1> HIDE DEF a
<1>7. <<a, t>> \o rest = <<a>> \o (<<t>> \o rest) /\ IsScript(<<a, t>> \o rest)
  BY PairFirst
<1> QED BY <1>2, <1>6, <1>7

LEMMA SafeClock ==
    ASSUME NEW k, Outlook(k), Heard(k), NEW profile, NEW q, IsScript(q),
           clk_preset[profile] > 0
             => Safe([k EXCEPT !.kept = TRUE, !.polled = FALSE, !.clk = clk_preset[profile]], q),
           ~(clk_preset[profile] > 0) => Safe(k, q)
    PROVE  Safe(k, SetClock(profile) \o q) /\ IsScript(SetClock(profile) \o q)
<1> DEFINE c == clk_preset[profile]
           a == Lax("set_clk", c)
           n == [k EXCEPT !.kept = TRUE, !.polled = FALSE, !.clk = c]
<1>1. CASE c > 0
  <2>1. SetClock(profile) = <<a>>
    BY <1>1 DEF SetClock
  <2>2. a.do = "set_clk" /\ a.arg = c /\ DOMAIN a = {"do", "arg", "tries", "lax", "fails"}
    BY DEF Lax, Step
  <2>3. Safe(n, q)
    BY <1>1
  <2> HIDE DEF a, c
  <2>4. Proper(k, a) /\ ~MayFail(k, a)
    BY <2>2 DEF Proper, MayFail
  <2>5. Later(k, a) = n
    <3>1. a.do # "get_status"
      BY <2>2
    <3> DEFINE g == [k EXCEPT !.kept = TRUE, !.polled = a.do = "get_status"]
    <3>2. g = [k EXCEPT !.kept = TRUE, !.polled = FALSE]
      BY <3>1
    <3>3. Later(k, a) = [g EXCEPT !.clk = c]
      BY <2>2 DEF Later, Commanded
    <3>4. [g EXCEPT !.clk = c] = n
      <4> HIDE DEF g
      <4> QED BY <3>2
    <3> QED BY <3>3, <3>4
  <2> HIDE DEF n
  <2>6. Safe(k, <<a>> \o q)
    BY <2>3, <2>4, <2>5, SafeCons
  <2>7. IsScript(<<a>> \o q)
    BY ScriptCons
  <2> QED BY <2>1, <2>6, <2>7
<1>2. CASE ~(c > 0)
  <2>1. SetClock(profile) = <<>>
    BY <1>2 DEF SetClock
  <2>2. <<>> \o q = q
    BY EmptyFirst
  <2> QED BY <1>2, <2>1, <2>2
<1> QED BY <1>1, <1>2

\* The FT245 needs no rate.
LEMMA SafeConnectFifo ==
    ASSUME NEW k, Sound(k), ~k.open, k.fifo, NEW profile \in SpeedProfile,
           k.strict => k.clk = 0
    PROVE  Safe(k, ConnectFifo(profile))
<1> DEFINE c == clk_preset[profile]
           last == ConnectedWithSpeed(0, 0, c)
           h == [k EXCEPT !.open = TRUE, !.baud = 0]
           n == [h EXCEPT !.kept = TRUE, !.polled = FALSE]
           n1 == [n EXCEPT !.kept = TRUE, !.polled = FALSE]
           n2 == [n1 EXCEPT !.kept = TRUE, !.polled = FALSE, !.clk = c]
           end == SetClock(profile) \o last
           report == read_card_info_and_report(end)
           a == Step("ping", 0, Error)
<1>0. c \in {0, 2, 3}
  BY ProfileSpeeds
<1>1. ConnectFifo(profile) = <<Open(0), a>> \o report
  BY DEF ConnectFifo, Ask
<1> HIDE DEF c
<1>2. /\ Outlook(h) /\ Heard(h) /\ Outlook(n) /\ Heard(n) /\ Outlook(n1) /\ Heard(n1)
  BY DEF Sound, Outlook, OutlookFields, Heard
<1>3. Safe(n2, last) /\ IsScript(last)
  <2>1. /\ Outlook(n2) /\ ~n2.waiting /\ n2.fifo
        /\ n2.strict => c = n2.clk /\ n2.swidth = n2.width /\ n2.spart = n2.part
    BY DEF Sound, SettingShown, Outlook, OutlookFields
  <2> HIDE DEF n2
  <2> QED BY <2>1, SafeConnected
<1>4. ASSUME ~(c > 0) PROVE Safe(n1, last)
  <2>0. c = 0
    BY <1>0, <1>4
  <2>1. /\ Outlook(n1) /\ ~n1.waiting /\ n1.fifo
        /\ n1.strict => c = n1.clk /\ n1.swidth = n1.width /\ n1.spart = n1.part
    BY <2>0 DEF Sound, SettingShown, Outlook, OutlookFields
  <2> HIDE DEF n1
  <2> QED BY <2>1, SafeConnected
<1> HIDE DEF last
<1>5. Safe(n1, end) /\ IsScript(end)
  <2>1. c > 0 => Safe(n2, last)
    BY <1>3
  <2> HIDE DEF n1
  <2> QED BY <1>2, <1>3, <1>4, <2>1, SafeClock DEF c
<1> HIDE DEF end
<1>6. Safe(n, report) /\ IsScript(report)
  <2> HIDE DEF n
  <2> QED BY <1>2, <1>5, SafeInfo
<1> HIDE DEF report
<1>7. Safe(h, <<a>> \o report) /\ IsScript(<<a>> \o report)
  <2> HIDE DEF h
  <2> QED BY <1>2, <1>6, SafeHeardEasy, ScriptCons
<1>8. Safe(k, <<Open(0)>> \o (<<a>> \o report))
  <2> DEFINE q == <<a>> \o report
  <2>1. Safe(h, q) /\ IsScript(q)
    BY <1>7
  <2> HIDE DEF q
  <2>2. Safe(k, <<Open(0)>> \o q)
    BY <2>1, SafeOpen
  <2> QED BY <2>2 DEF q
<1>9. <<Open(0), a>> \o report = <<Open(0)>> \o (<<a>> \o report)
  <2> DEFINE o == Open(0)
  <2> HIDE DEF o, a
  <2>1. <<o, a>> \o report = <<o>> \o (<<a>> \o report)
    BY <1>6, PairFirst
  <2> QED BY <2>1 DEF o
<1> QED BY <1>1, <1>8, <1>9

LEMMA TripleFirst ==
    \A a, b, c, q : IsScript(q) => /\ <<a, b, c>> \o q = <<a>> \o (<<b>> \o (<<c>> \o q))
                                   /\ IsScript(<<a, b, c>> \o q)
<1> SUFFICES ASSUME NEW a, NEW b, NEW c, NEW q, IsScript(q)
             PROVE  /\ <<a, b, c>> \o q = <<a>> \o (<<b>> \o (<<c>> \o q))
                    /\ IsScript(<<a, b, c>> \o q)
  OBVIOUS
<1>1. IsScript(<<a>>) /\ IsScript(<<b, c>>)
  <2>1. <<a>> \in Seq({a}) /\ <<b, c>> \in Seq({b, c})
    OBVIOUS
  <2> QED BY <2>1 DEF IsScript
<1>2. (<<a>> \o <<b, c>>) \o q = <<a>> \o (<<b, c>> \o q)
  BY <1>1, ScriptsAssociate
<1>3. <<a>> \o <<b, c>> = <<a, b, c>>
  BY ThreeAreConcats
<1>4. <<b, c>> \o q = <<b>> \o (<<c>> \o q) /\ IsScript(<<b, c>> \o q)
  BY PairFirst
<1>5. IsScript(<<a>> \o (<<b, c>> \o q))
  BY <1>4, ScriptCons
<1> QED BY <1>2, <1>3, <1>4, <1>5

LEMMA ConnectScripts ==
    ASSUME NEW initial, NEW profile
    PROVE  /\ \A rate, p, c : IsScript(ConnectedWithSpeed(rate, p, c))
           /\ IsScript(SwitchBaud(initial, profile))
           /\ \A q : IsScript(q) => /\ IsScript(SetClock(profile) \o q)
                                    /\ IsScript(read_card_info_and_report(q))
<1>1. \A rate, p, c : IsScript(ConnectedWithSpeed(rate, p, c))
  <2> SUFFICES ASSUME NEW rate, NEW p, NEW c PROVE IsScript(ConnectedWithSpeed(rate, p, c))
    OBVIOUS
  <2> DEFINE t == Tell([type |-> "ConnectedWithSpeed", baud |-> rate, preset |-> p, clk |-> c])
  <2>1. ConnectedWithSpeed(rate, p, c) = <<t>>
    BY DEF ConnectedWithSpeed
  <2>2. <<t>> \in Seq({t})
    OBVIOUS
  <2> HIDE DEF t
  <2> QED BY <2>1, <2>2 DEF IsScript
<1>2. IsScript(SwitchBaud(initial, profile))
  <2> DEFINE new == ConnectedWithSpeed(target_baud(profile), baud_preset[profile], clk_preset[profile])
             old == ConnectedWithSpeed(initial, 0, clk_preset[profile])
             a == Step("set_baud", baud_preset[profile], old)
             o == Step("open", target_baud(profile), old)
             g == Step("ping", 0, <<Close, Open(initial), Ask("ping", 0)>> \o old)
  <2>1. IsScript(<<Close, o, g>> \o new)
    <3>1. IsScript(new)
      BY <1>1
    <3> HIDE DEF new, o, g
    <3> QED BY <3>1, TripleFirst
  <2>2. Reconnect(initial, profile) = <<Close, o, g>> \o new
    BY DEF Reconnect
  <2>3. \/ SwitchBaud(initial, profile) = <<a>> \o Reconnect(initial, profile)
        \/ SwitchBaud(initial, profile)
             = ConnectedWithSpeed(initial, baud_preset[profile], clk_preset[profile])
    BY DEF SwitchBaud
  <2> HIDE DEF a, o, g, new
  <2>4. IsScript(<<a>> \o Reconnect(initial, profile))
    BY <2>1, <2>2, ScriptCons
  <2> QED BY <1>1, <2>3, <2>4
<1>3. ASSUME NEW q, IsScript(q)
      PROVE  IsScript(SetClock(profile) \o q) /\ IsScript(read_card_info_and_report(q))
  <2> DEFINE c == Lax("set_clk", clk_preset[profile])
             a == Step("get_info", 0, q)
             t == Tell([type |-> "CardInfo"])
  <2>1. SetClock(profile) = <<c>> \/ SetClock(profile) = <<>>
    BY DEF SetClock
  <2>2. read_card_info_and_report(q) = <<a, t>> \o q
    BY DEF read_card_info_and_report
  <2> HIDE DEF c, a, t
  <2>3. IsScript(<<c>> \o q) /\ <<>> \o q = q
    BY <1>3, ScriptCons, EmptyFirst
  <2>4. IsScript(<<a, t>> \o q)
    BY <1>3, PairFirst
  <2> QED BY <1>3, <2>1, <2>2, <2>3, <2>4
<1> QED BY <1>1, <1>2, <1>3

\* From the default rate to that of the profile.
LEMMA SafeSwitch ==
    ASSUME NEW k, Outlook(k), ~k.waiting, ~k.fifo, k.kept, k.baud = DefaultBaud,
           k.rate = DefaultBaud, NEW profile \in SpeedProfile,
           k.strict => k.clk = clk_preset[profile] /\ k.swidth = k.width /\ k.spart = k.part
    PROVE  Safe(k, SwitchBaud(DefaultBaud, profile))
<1> DEFINE p == baud_preset[profile]
           c == clk_preset[profile]
           r == target_baud(profile)
<1>0. p \in Presets /\ r = UART_BAUD_RATES[p] /\ r \in UartRates /\ r # 0
  BY ProfileSpeeds, Rates
<1>1. CASE p > 0 /\ r # DefaultBaud
  <2> DEFINE old == ConnectedWithSpeed(DefaultBaud, 0, c)
             new == ConnectedWithSpeed(r, p, c)
             a == Step("set_baud", p, old)
             o == Step("open", r, old)
             g == Step("ping", 0, <<Close, Open(DefaultBaud), Ask("ping", 0)>> \o old)
             n == [k EXCEPT !.kept = TRUE, !.polled = FALSE, !.rate = UART_BAUD_RATES[p]]
             n2 == [n EXCEPT !.open = FALSE]
             n3 == [n2 EXCEPT !.open = TRUE, !.baud = r]
             n4 == [n3 EXCEPT !.kept = TRUE, !.polled = FALSE]
  <2>1. SwitchBaud(DefaultBaud, profile) = <<a>> \o Reconnect(DefaultBaud, profile)
    BY <1>1 DEF SwitchBaud
  <2>2. Reconnect(DefaultBaud, profile) = <<Close, o, g>> \o new
    BY DEF Reconnect
  <2> HIDE DEF p, r, c
  <2>3. /\ Outlook(n) /\ Outlook(n2) /\ ~n2.open /\ ~n2.fifo /\ Outlook(n3) /\ Heard(n3)
        /\ Outlook(n4) /\ ~n4.waiting /\ n4.kept /\ n4.rate = r /\ ~n4.fifo
        /\ n4.strict => c = n4.clk /\ n4.swidth = n4.width /\ n4.spart = n4.part
    BY <1>0 DEF Outlook, OutlookFields, Heard, c
  <2>4. Heard(k)
    BY DEF Heard
  <2>5. Safe(n4, new) /\ IsScript(new)
    <3> HIDE DEF n4
    <3> QED BY <1>0, <2>3, SafeConnected
  <2> HIDE DEF new
  <2>6. Safe(n3, <<g>> \o new) /\ IsScript(<<g>> \o new)
    <3> HIDE DEF n3
    <3>1. Safe(n3, <<g>> \o new)
      BY <2>3, <2>5, SafeHeardEasy
    <3> QED BY <2>5, <3>1, ScriptCons
  <2> HIDE DEF g
  <2> DEFINE q == <<g>> \o new
  <2>7. Safe(n2, <<o>> \o q) /\ IsScript(<<o>> \o q)
    <3>1. Safe(n3, q) /\ IsScript(q)
      BY <2>6
    <3> HIDE DEF n2, q
    <3>2. r = 0 <=> n2.fifo
      BY <1>0, <2>3
    <3>3. Safe(n2, <<o>> \o q)
      BY <2>3, <3>1, <3>2, SafePort
    <3> QED BY <3>1, <3>3, ScriptCons
  <2> HIDE DEF o, q
  <2> DEFINE q2 == <<o>> \o q
  <2>8. Safe(n, <<Close>> \o q2) /\ IsScript(<<Close>> \o q2)
    <3>1. Safe(n2, q2) /\ IsScript(q2)
      BY <2>7
    <3> HIDE DEF n, q2
    <3> QED BY <2>3, <3>1, SafePort, ScriptCons
  <2> DEFINE q3 == <<Close>> \o q2
  <2>9. Safe(k, <<a>> \o q3)
    <3>1. Safe(n, q3) /\ IsScript(q3)
      BY <2>8
    <3> HIDE DEF q3
    <3> QED BY <1>0, <2>4, <3>1, SafeHeardEasy
  <2>10. <<Close, o, g>> \o new = <<Close>> \o (<<o>> \o (<<g>> \o new))
    BY <2>5, TripleFirst
  <2>11. <<Close, o, g>> \o new = q3
    BY <2>10 DEF q
  <2> HIDE DEF a, q3
  <2> QED BY <2>1, <2>2, <2>9, <2>11
<1>2. CASE ~(p > 0 /\ r # DefaultBaud)
  <2>1. SwitchBaud(DefaultBaud, profile) = ConnectedWithSpeed(DefaultBaud, p, c)
    BY <1>2 DEF SwitchBaud
  <2>2. UART_BAUD_RATES[p] = DefaultBaud
    <3>1. CASE r = DefaultBaud
      BY <1>0, <3>1
    <3>2. CASE r # DefaultBaud
      <4>1. ~(p > 0)
        BY <1>2, <3>2
      <4> HIDE DEF p
      <4>2. p = 0
        BY <1>0, <4>1 DEF Presets
      <4> QED BY <4>2, <1>0, Rates
    <3> QED BY <3>1, <3>2
  <2> HIDE DEF p, c
  <2>3. Safe(k, ConnectedWithSpeed(DefaultBaud, p, c))
    BY <1>0, <2>2, SafeConnected DEF c
  <2> QED BY <2>1, <2>3
<1> QED BY <1>1, <1>2

\* The reader may run at the rate of an earlier session, or at none of the two.
LEMMA SafeAlready ==
    ASSUME NEW k, Sound(k), ~k.strict, NEW profile \in SpeedProfile
    PROVE  Safe(k, AlreadyAtTarget(profile))
<1> DEFINE p == baud_preset[profile]
           c == clk_preset[profile]
           r == target_baud(profile)
           last == ConnectedWithSpeed(r, p, c)
           report == read_card_info_and_report(last)
           a == Ask("ping", 0)
           h == [k EXCEPT !.open = FALSE]
           h2 == [h EXCEPT !.open = TRUE, !.baud = r]
           n == [h2 EXCEPT !.kept = TRUE, !.polled = FALSE]
           n1 == [n EXCEPT !.kept = TRUE, !.polled = FALSE]
<1>0. p \in Presets /\ r = UART_BAUD_RATES[p] /\ r \in UartRates /\ r # 0
  BY ProfileSpeeds, Rates
<1>1. AlreadyAtTarget(profile) = <<Close, Open(r), a>> \o report
  BY DEF AlreadyAtTarget
<1> HIDE DEF p, r, c
<1>2. /\ Sound(h) /\ Sound(h2) /\ Outlook(h2) /\ Outlook(k) /\ Outlook(n) /\ Outlook(n1)
      /\ ~n1.waiting /\ n1.kept /\ ~n1.strict /\ n1.rate = k.rate
      /\ Heard(h2) => Heard(n)
      /\ Heard(h2) => n1.rate = r
  BY <1>0 DEF Sound, Outlook, OutlookFields, RateShown, SettingShown, Heard
<1>3. IsScript(report)
  BY ConnectScripts
<1>4. ASSUME Heard(h2) PROVE Safe(n, report)
  <2>1. Safe(n1, last) /\ IsScript(last)
    <3> HIDE DEF n1
    <3> QED BY <1>0, <1>2, <1>4, SafeConnected
  <2> HIDE DEF n, last
  <2> QED BY <1>2, <1>4, <2>1, SafeInfo
<1> HIDE DEF report
<1>5. Safe(h2, <<a>> \o report) /\ IsScript(<<a>> \o report)
  <2>1. a.do = "ping" /\ a.arg = 0 /\ DOMAIN a = {"do", "arg", "tries", "lax", "fails"}
    BY DEF Ask, Step
  <2> HIDE DEF a
  <2>2. Proper(h2, a) /\ (MayWork(h2, a) => Heard(h2)) /\ Later(h2, a) = n
    <3>1. a.do # "get_status"
      BY <2>1
    <3>2. Later(h2, a) = [h2 EXCEPT !.kept = TRUE, !.polled = a.do = "get_status"]
      <4> HIDE DEF h2
      <4> QED BY <2>1 DEF Later, Commanded
    <3> HIDE DEF h2
    <3>3. Later(h2, a) = n
      BY <3>1, <3>2
    <3> QED BY <2>1, <3>3 DEF Proper, MayWork
  <2> HIDE DEF h2, n
  <2>3. Safe(h2, <<a>> \o report)
    BY <1>2, <1>3, <1>4, <2>2, SafeTry DEF a
  <2> QED BY <1>3, <2>3, ScriptCons
<1> HIDE DEF a
<1> DEFINE q == <<a>> \o report
<1>6. Safe(h, <<Open(r)>> \o q) /\ IsScript(<<Open(r)>> \o q)
  <2>1. Safe(h2, q) /\ IsScript(q)
    BY <1>5
  <2> HIDE DEF h, q
  <2>2. Safe(h, <<Open(r)>> \o q)
    BY <1>2, <2>1, SafeOpen
  <2> QED BY <2>1, <2>2, ScriptCons
<1> DEFINE o == Open(r)
           q2 == <<o>> \o q
<1>7. Safe(k, <<Close>> \o q2)
  <2>1. Safe(h, q2) /\ IsScript(q2)
    BY <1>6
  <2> HIDE DEF q2
  <2> QED BY <1>2, <2>1, SafePort
<1> HIDE DEF o
<1>8. <<Close, o, a>> \o report = <<Close>> \o q2
  BY <1>3, TripleFirst
<1>9. AlreadyAtTarget(profile) = <<Close, o, a>> \o report
  BY <1>1 DEF o
<1> QED BY <1>7, <1>8, <1>9

LEMMA SafeConnectUart ==
    ASSUME NEW k, Sound(k), ~k.open, ~k.fifo, NEW profile \in SpeedProfile,
           k.strict => k.clk = 0 /\ k.rate = DefaultBaud
    PROVE  Safe(k, ConnectUart(DefaultBaud, profile))
<1> DEFINE c == clk_preset[profile]
           other == target_baud(profile) # DefaultBaud
           last == SwitchBaud(DefaultBaud, profile)
           end == SetClock(profile) \o last
           report == read_card_info_and_report(end)
           g == Step("ping", 0, IF other THEN AlreadyAtTarget(profile) ELSE Error)
           o == Step("open", DefaultBaud,
                     IF other THEN <<Open(target_baud(profile))>> \o (<<g>> \o report) ELSE Error)
           h == [k EXCEPT !.open = TRUE, !.baud = DefaultBaud]
           n == [h EXCEPT !.kept = TRUE, !.polled = FALSE]
           n1 == [n EXCEPT !.kept = TRUE, !.polled = FALSE]
           n2 == [n1 EXCEPT !.kept = TRUE, !.polled = FALSE, !.clk = c]
<1>0. c \in {0, 2, 3} /\ DefaultBaud # 0
  BY ProfileSpeeds, Rates
<1>1. ConnectUart(DefaultBaud, profile) = <<o>> \o (<<g>> \o report)
  BY DEF ConnectUart
<1>2. /\ IsScript(last) /\ IsScript(end) /\ IsScript(report)
  BY ConnectScripts
<1> HIDE DEF c
<1>3. Sound(h) /\ Outlook(h) /\ Outlook(n) /\ Outlook(n1) /\ h.strict = k.strict /\ h.rate = k.rate
      /\ h.baud = DefaultBaud
  BY DEF Sound, Outlook, OutlookFields, RateShown, SettingShown
<1>4. ASSUME k.rate = DefaultBaud PROVE Safe(h, <<g>> \o report)
  <2>1. /\ Heard(h) /\ Heard(n) /\ Heard(n1)
    BY <1>4 DEF Sound, Outlook, OutlookFields, Heard
  <2>2. Safe(n2, last)
    <3>1. /\ Outlook(n2) /\ ~n2.waiting /\ ~n2.fifo /\ n2.kept /\ n2.baud = DefaultBaud
          /\ n2.rate = DefaultBaud
          /\ n2.strict => n2.clk = c /\ n2.swidth = n2.width /\ n2.spart = n2.part
      BY <1>4 DEF Sound, SettingShown, Outlook, OutlookFields
    <3> HIDE DEF n2
    <3> QED BY <3>1, SafeSwitch DEF c
  <2>3. ASSUME ~(c > 0) PROVE Safe(n1, last)
    <3>0. c = 0
      BY <1>0, <2>3
    <3>1. /\ Outlook(n1) /\ ~n1.waiting /\ ~n1.fifo /\ n1.kept /\ n1.baud = DefaultBaud
          /\ n1.rate = DefaultBaud
          /\ n1.strict => n1.clk = c /\ n1.swidth = n1.width /\ n1.spart = n1.part
      BY <1>4, <3>0 DEF Sound, SettingShown, Outlook, OutlookFields
    <3> HIDE DEF n1
    <3> QED BY <3>1, SafeSwitch DEF c
  <2> HIDE DEF last
  <2>4. Safe(n1, end)
    <3>1. c > 0 => Safe(n2, last)
      BY <2>2
    <3> HIDE DEF n1
    <3> QED BY <1>2, <1>3, <2>1, <2>3, <3>1, SafeClock DEF c
  <2> HIDE DEF end
  <2>5. Safe(n, report)
    <3> HIDE DEF n
    <3> QED BY <1>2, <1>3, <2>1, <2>4, SafeInfo
  <2> HIDE DEF report, h
  <2> QED BY <1>2, <1>3, <2>1, <2>5, SafeHeardEasy
<1>5. ASSUME k.rate # DefaultBaud PROVE Safe(h, <<g>> \o report)
  <2>1. g.do = "ping" /\ DOMAIN g = {"do", "arg", "tries", "lax", "fails"} /\ g.lax = FALSE
        /\ g.fails = IF other THEN AlreadyAtTarget(profile) ELSE Error
    BY DEF Step
  <2>2. ~k.strict
    BY <1>5
  <2>3. Safe(h, AlreadyAtTarget(profile)) /\ Safe(h, Error)
    <3>1. Safe(h, AlreadyAtTarget(profile))
      <4> HIDE DEF h
      <4> QED BY <1>3, <2>2, SafeAlready
    <3>2. Safe(h, Error)
      <4> HIDE DEF h
      <4> QED BY <1>3, CalmError DEF Calmly
    <3> QED BY <3>1, <3>2
  <2> HIDE DEF h, g, report
  <2>4. ~Heard(h)
    BY <1>0, <1>3, <1>5 DEF Heard
  <2>5. Proper(h, g) /\ ~MayWork(h, g)
    BY <2>1, <2>4 DEF Proper, MayWork
  <2> QED BY <1>2, <1>3, <2>1, <2>3, <2>5, SafeCons
<1> HIDE DEF g, report
<1> DEFINE q == <<g>> \o report
<1>6. Safe(h, q) /\ IsScript(q)
  BY <1>2, <1>4, <1>5, ScriptCons
<1>7. Safe(k, <<o>> \o q)
  <2>1. DefaultBaud = 0 <=> k.fifo
    BY <1>0
  <2>2. Outlook(k)
    BY DEF Sound
  <2> HIDE DEF q
  <2> QED BY <1>6, <2>1, <2>2, SafePort
<1> QED BY <1>1, <1>7

-----------------------------------------------------------------------------
(* What the GUI will make of the messages on the way. *)

UiFields == DOMAIN AppState(FALSE)
IsReading(f, n, u, c) == f = [i \in 0..n |-> IF i = 0 THEN u ELSE receive(f[i - 1], c[i])]
Heeded(u, c) == (CHOOSE f : IsReading(f, Len(c), u, c))[Len(c)]
Seen == Heeded(ui, channel)

\* The settings the panel shows, and what it waits for: v has no more of it than u.
Below(v, u) ==
    /\ DOMAIN v = UiFields
    /\ v.use_fifo = u.use_fifo /\ v.selected_baud = u.selected_baud
    /\ v.baud_preset = u.baud_preset /\ v.clk_preset = u.clk_preset
    /\ v.bus_width = u.bus_width /\ v.active_partition = u.active_partition
    /\ v.connected => u.connected
    /\ v.status = "running" => u.status = "running"
    /\ v.keepalive_pending => u.keepalive_pending

\* What one message does to the settings.
Shows(u, m, v) ==
    /\ DOMAIN v = UiFields
    /\ v.dialog = u.dialog /\ v.pending = u.pending /\ v.picker = u.picker
    /\ v.use_fifo = u.use_fifo /\ v.active_partition = u.active_partition
    /\ m.type = "ConnectedWithSpeed" => v.connected = TRUE
    /\ m.type # "ConnectedWithSpeed" => v.connected = u.connected
    /\ v.selected_baud = IF m.type \in {"ConnectedWithSpeed", "BaudPresetSet"}
                         THEN m.baud ELSE u.selected_baud
    /\ v.baud_preset = IF m.type \in {"ConnectedWithSpeed", "BaudPresetSet",
                                      "ControllerStatusReceived"}
                       THEN m.preset ELSE u.baud_preset
    /\ v.clk_preset = IF m.type \in {"ConnectedWithSpeed", "ControllerStatusReceived"} THEN m.clk
                      ELSE IF m.type = "ClkSpeedSet" THEN m.preset ELSE u.clk_preset
    /\ v.bus_width = IF m.type = "BusWidthSet" THEN m.width ELSE u.bus_width
    /\ v.status = "running" <=>
         m.type \in {"KeepaliveOk", "PortsScanned", "CardInfo", "Progress"} /\ u.status = "running"
    /\ m.type = "KeepaliveOk" => v.keepalive_pending = FALSE
    /\ m.type # "KeepaliveOk" => v.keepalive_pending = u.keepalive_pending

LEMMA UiFieldNames ==
    UiFields = {"use_fifo", "status", "connected", "selected_baud", "baud_preset", "clk_preset",
                "bus_width", "active_partition", "sized", "table", "ext4", "preview", "sector",
                "sector_lba", "hex", "hex_source", "hex_modified", "cancel", "dialog", "pending",
                "picker", "waited", "keepalive_pending"}
BY DEF UiFields, AppState

LEMMA ReceiveShows ==
    ASSUME NEW u, DOMAIN u = UiFields, NEW m
    PROVE  Shows(u, m, receive(u, m))
<1>1. CASE m.type = "ConnectedWithSpeed"
  <2>1. receive(u, m) = set_completed(ShowSpeed(u, m))
    BY <1>1 DEF receive
  <2> QED BY <1>1, <2>1, UiFieldNames DEF Shows, set_completed, ShowSpeed
<1>2. CASE m.type = "SectorsRead"
  <2>1. receive(u, m) = set_completed(ShowReading(u, m))
    BY <1>2 DEF receive
  <2> QED BY <1>2, <2>1, UiFieldNames DEF Shows, set_completed, ShowReading
<1>3. CASE m.type \in {"BusWidthSet", "ClkSpeedSet"}
  BY <1>3, UiFieldNames DEF receive, Shows, set_completed
<1>4. CASE m.type = "BaudPresetSet"
  <2>1. receive(u, m) = set_completed(ShowBaud(u, m))
    BY <1>4 DEF receive
  <2> QED BY <1>4, <2>1, UiFieldNames DEF Shows, set_completed, ShowBaud
<1>5. CASE m.type = "ControllerStatusReceived"
  <2>1. receive(u, m) = set_completed(ShowStatus(u, m))
    BY <1>5 DEF receive
  <2> QED BY <1>5, <2>1, UiFieldNames DEF Shows, set_completed, ShowStatus
<1>6. CASE m.type \in {"ExtCsd", "PartitionsRead", "Ext4Loaded", "Ext4DirListing", "Ext4FileContent"}
  BY <1>6, UiFieldNames DEF receive, Shows, set_completed
<1>7. CASE m.type \in {"Mismatch", "Error"}
  BY <1>7, UiFieldNames DEF receive, Shows, set_failed
<1>8. CASE m.type \in {"KeepaliveOk", "PortsScanned", "CardInfo", "Progress"}
  BY <1>8, UiFieldNames DEF receive, Shows
<1>9. CASE m.type \notin {"ConnectedWithSpeed", "SectorsRead", "BusWidthSet", "ClkSpeedSet",
                          "BaudPresetSet", "ControllerStatusReceived", "ExtCsd", "PartitionsRead",
                          "Ext4Loaded", "Ext4DirListing", "Ext4FileContent", "Mismatch", "Error",
                          "KeepaliveOk", "PortsScanned", "CardInfo", "Progress"}
  <2>1. receive(u, m) = set_completed(u)
    BY <1>9 DEF receive
  <2> QED BY <1>9, <2>1, UiFieldNames DEF Shows, set_completed
<1> QED BY <1>1, <1>2, <1>3, <1>4, <1>5, <1>6, <1>7, <1>8, <1>9

LEMMA ReadingExists ==
    ASSUME NEW n \in Nat, NEW u, NEW c
    PROVE  \E f : IsReading(f, n, u, c)
<1> USE DEF IsReading
<1> DEFINE Wrong == {k \in Nat : ~ \E f : IsReading(f, k, u, c)}
<1>1. SUFFICES ASSUME Wrong # {} PROVE FALSE
  OBVIOUS
<1>2. PICK k \in Wrong : \A j \in Wrong : k <= j
  <2> Wrong \in SUBSET Nat
    OBVIOUS
  <2> HIDE DEF Wrong
  <2> QED BY <1>1, LeastNumber
<1>3. k # 0
  <2>1. IsReading([i \in 0..0 |-> u], 0, u, c)
    OBVIOUS
  <2> QED BY <2>1
<1>4. k \in Nat \ {0} /\ k - 1 \in Nat /\ ~(k <= k - 1)
  BY <1>3
<1>5. k - 1 \notin Wrong
  <2> HIDE DEF Wrong
  <2> QED BY <1>2, <1>4
<1>6. PICK f : IsReading(f, k - 1, u, c)
  BY <1>4, <1>5
<1> DEFINE g == [i \in 0..k |-> IF i = k THEN receive(f[k - 1], c[k]) ELSE f[i]]
<1>7. IsReading(g, k, u, c)
  <2>1. \A i \in 0..k : g[i] = IF i = 0 THEN u ELSE receive(g[i - 1], c[i])
    <3> SUFFICES ASSUME NEW i \in 0..k
                 PROVE  g[i] = IF i = 0 THEN u ELSE receive(g[i - 1], c[i])
      OBVIOUS
    <3> HIDE DEF Wrong
    <3>1. CASE i = k
      <4>1. i # 0 /\ i - 1 = k - 1 /\ k - 1 \in 0..k /\ k - 1 # k
        BY <1>4, <3>1
      <4>2. g[k] = receive(f[k - 1], c[k]) /\ g[k - 1] = f[k - 1]
        BY <1>4, <4>1
      <4> HIDE DEF g
      <4> QED BY <3>1, <4>1, <4>2
    <3>2. CASE i # k
      <4>1. i \in 0..k - 1 /\ (i # 0 => i - 1 \in 0..k - 1 /\ i - 1 # k)
        BY <1>4, <3>2
      <4>2. f[i] = IF i = 0 THEN u ELSE receive(f[i - 1], c[i])
        BY <1>6, <4>1
      <4> QED BY <4>1, <4>2, <3>2, <1>4
    <3> QED BY <3>1, <3>2
  <2> HIDE DEF Wrong
  <2>2. g = [i \in 0..k |-> g[i]]
    OBVIOUS
  <2> HIDE DEF g
  <2> QED BY <2>1, <2>2
<1> QED BY <1>2, <1>7

LEMMA Reading ==
    ASSUME NEW u, NEW c, IsScript(c)
    PROVE  /\ Len(c) \in Nat
           /\ \E f : /\ f[0] = u
                     /\ \A k \in 1..Len(c) : f[k] = receive(f[k - 1], c[k])
                     /\ Heeded(u, c) = f[Len(c)]
<1>1. Len(c) \in Nat
  BY DEF IsScript
<1> DEFINE f == CHOOSE g : IsReading(g, Len(c), u, c)
<1>2. f = [i \in 0..Len(c) |-> IF i = 0 THEN u ELSE receive(f[i - 1], c[i])] /\ Heeded(u, c) = f[Len(c)]
  <2>1. Heeded(u, c) = f[Len(c)]
    BY DEF Heeded
  <2>2. \E g : IsReading(g, Len(c), u, c)
    BY <1>1, ReadingExists
  <2>3. IsReading(f, Len(c), u, c)
    BY <2>2
  <2> HIDE DEF f
  <2> QED BY <2>1, <2>3 DEF IsReading
<1> HIDE DEF f
<1>3. 0 \in 0..Len(c)
  BY <1>1
<1>4. f[0] = u
  BY <1>2, <1>3
<1>5. ASSUME NEW k \in 1..Len(c) PROVE f[k] = receive(f[k - 1], c[k])
  <2>1. k \in 0..Len(c) /\ k # 0
    BY <1>1
  <2>2. f[k] = IF k = 0 THEN u ELSE receive(f[k - 1], c[k])
    BY <1>2, <2>1
  <2> QED BY <2>1, <2>2
<1> QED BY <1>1, <1>2, <1>4, <1>5

LEMMA SeenIsAfter == Seen = after[Len(channel)]
BY DEF Seen, Heeded, IsReading, after

LEMMA EmptyIsScript == IsScript(<<>>) /\ Len(<<>>) = 0
<1>1. <<>> \in Seq({}) /\ Len(<<>>) = 0
  OBVIOUS
<1> QED BY <1>1 DEF IsScript

LEMMA HeededNothing ==
    ASSUME NEW u
    PROVE  Heeded(u, <<>>) = u
<1>1. PICK f : f[0] = u /\ Heeded(u, <<>>) = f[Len(<<>>)]
  BY EmptyIsScript, Reading
<1> QED BY <1>1, EmptyIsScript

\* A set of numbers that holds 0, and with each the next up to n.
LEMMA Upwards ==
    ASSUME NEW n \in Nat, NEW G, 0 \in G, \A k \in 1..n : k - 1 \in G => k \in G
    PROVE  \A k \in 0..n : k \in G
<1> DEFINE Wrong == {k \in 0..n : k \notin G}
<1>1. SUFFICES ASSUME Wrong # {} PROVE FALSE
  OBVIOUS
<1>2. PICK k \in Wrong : \A j \in Wrong : k <= j
  <2> Wrong \in SUBSET Nat
    OBVIOUS
  <2> HIDE DEF Wrong
  <2> QED BY <1>1, LeastNumber
<1>3. k \in 1..n /\ k - 1 \in 0..n /\ ~(k <= k - 1)
  BY <1>2
<1>4. k - 1 \in G
  BY <1>2, <1>3
<1> QED BY <1>2, <1>3, <1>4

LEMMA HeededAppend ==
    ASSUME NEW u, NEW c, IsScript(c), NEW m
    PROVE  /\ IsScript(Append(c, m))
           /\ Heeded(u, Append(c, m)) = receive(Heeded(u, c), m)
<1> DEFINE n == Len(c)
           d == Append(c, m)
<1>1. n \in Nat /\ Len(d) = n + 1 /\ IsScript(d) /\ d[n + 1] = m /\ \A k \in 1..n : d[k] = c[k]
  <2>1. PICK E : c \in Seq(E)
    BY DEF IsScript
  <2>2. d \in Seq(E \union {m})
    BY <2>1
  <2> QED BY <2>1, <2>2 DEF IsScript
<1>2. PICK f : f[0] = u /\ (\A k \in 1..n : f[k] = receive(f[k - 1], c[k])) /\ Heeded(u, c) = f[n]
  BY Reading
<1>3. PICK g : g[0] = u /\ (\A k \in 1..n + 1 : g[k] = receive(g[k - 1], d[k])) /\ Heeded(u, d) = g[n + 1]
  <2> HIDE DEF d
  <2>1. IsScript(d)
    BY <1>1
  <2>2. Len(d) = n + 1
    BY <1>1
  <2> HIDE DEF d, n
  <2>3. \E g : g[0] = u /\ (\A k \in 1..Len(d) : g[k] = receive(g[k - 1], d[k])) /\ Heeded(u, d) = g[Len(d)]
    BY <2>1, Reading
  <2> QED BY <2>2, <2>3
<1> HIDE DEF n, d
<1> DEFINE G == {k \in 0..n : f[k] = g[k]}
<1>4. 0 \in G
  BY <1>1, <1>2, <1>3
<1>5. \A k \in 1..n : k - 1 \in G => k \in G
  <2> SUFFICES ASSUME NEW k \in 1..n, k - 1 \in G PROVE k \in G
    OBVIOUS
  <2>1. k \in 1..n + 1 /\ k \in 0..n
    BY <1>1
  <2>2. f[k] = receive(f[k - 1], c[k]) /\ g[k] = receive(g[k - 1], d[k]) /\ f[k - 1] = g[k - 1] /\ d[k] = c[k]
    BY <1>1, <1>2, <1>3, <2>1
  <2> QED BY <2>1, <2>2
<1>6. n \in G
  <2>1. \A k \in 0..n : k \in G
    <3> HIDE DEF G
    <3> QED BY <1>1, <1>4, <1>5, Upwards
  <2> QED BY <1>1, <2>1
<1>7. g[n + 1] = receive(g[n], m)
  <2>1. n + 1 \in 1..n + 1 /\ (n + 1) - 1 = n
    BY <1>1
  <2> QED BY <1>1, <1>3, <2>1
<1> QED BY <1>1, <1>2, <1>3, <1>6, <1>7 DEF n, d

\* What no message changes.
LEMMA HeededKeeps ==
    ASSUME NEW u, DOMAIN u = UiFields, NEW c, IsScript(c)
    PROVE  /\ DOMAIN Heeded(u, c) = UiFields
           /\ Heeded(u, c).dialog = u.dialog /\ Heeded(u, c).pending = u.pending
           /\ Heeded(u, c).picker = u.picker /\ Heeded(u, c).use_fifo = u.use_fifo
           /\ Heeded(u, c).active_partition = u.active_partition
<1> DEFINE n == Len(c)
           Kept(v) ==
               /\ DOMAIN v = UiFields
               /\ v.dialog = u.dialog /\ v.pending = u.pending /\ v.picker = u.picker
               /\ v.use_fifo = u.use_fifo /\ v.active_partition = u.active_partition
<1>1. n \in Nat
  BY Reading
<1>2. PICK f : f[0] = u /\ (\A k \in 1..n : f[k] = receive(f[k - 1], c[k])) /\ Heeded(u, c) = f[n]
  BY Reading
<1> HIDE DEF n
<1> DEFINE G == {k \in 0..n : Kept(f[k])}
<1>3. 0 \in G
  BY <1>1, <1>2
<1>4. \A k \in 1..n : k - 1 \in G => k \in G
  <2> SUFFICES ASSUME NEW k \in 1..n, k - 1 \in G PROVE k \in G
    OBVIOUS
  <2>1. k \in 0..n /\ f[k] = receive(f[k - 1], c[k])
    BY <1>1, <1>2
  <2>2. Kept(f[k - 1])
    OBVIOUS
  <2>3. Shows(f[k - 1], c[k], receive(f[k - 1], c[k]))
    BY <2>2, ReceiveShows
  <2>4. Kept(f[k])
    BY <2>1, <2>2, <2>3 DEF Shows
  <2> QED BY <2>1, <2>4
<1>5. \A k \in 0..n : k \in G
  <2> HIDE DEF G
  <2> QED BY <1>1, <1>3, <1>4, Upwards
<1>6. Kept(f[n])
  BY <1>1, <1>5
<1> QED BY <1>2, <1>6

\* Who shows no more before the messages shows no more after them.
LEMMA HeededBelow ==
    ASSUME NEW u, DOMAIN u = UiFields, NEW v, Below(v, u), NEW c, IsScript(c)
    PROVE  Below(Heeded(v, c), Heeded(u, c))
<1> DEFINE n == Len(c)
<1>1. n \in Nat
  BY Reading
<1>2. PICK f : f[0] = u /\ (\A k \in 1..n : f[k] = receive(f[k - 1], c[k])) /\ Heeded(u, c) = f[n]
  BY Reading
<1>3. PICK g : g[0] = v /\ (\A k \in 1..n : g[k] = receive(g[k - 1], c[k])) /\ Heeded(v, c) = g[n]
  BY Reading
<1> HIDE DEF n
<1> DEFINE G == {k \in 0..n : DOMAIN f[k] = UiFields /\ Below(g[k], f[k])}
<1>4. 0 \in G
  BY <1>1, <1>2, <1>3
<1>5. \A k \in 1..n : k - 1 \in G => k \in G
  <2> SUFFICES ASSUME NEW k \in 1..n, k - 1 \in G PROVE k \in G
    OBVIOUS
  <2> DEFINE a == f[k - 1]
             b == g[k - 1]
             x == f[k]
             y == g[k]
             m == c[k]
  <2>1. k \in 0..n /\ x = receive(a, m) /\ y = receive(b, m)
    BY <1>1, <1>2, <1>3
  <2>2. DOMAIN a = UiFields /\ Below(b, a)
    OBVIOUS
  <2> HIDE DEF a, b, x, y, m, G
  <2>3. Shows(a, m, x) /\ Shows(b, m, y)
    BY <2>1, <2>2, ReceiveShows DEF Below
  <2>4. DOMAIN x = UiFields /\ Below(y, x)
    BY <2>2, <2>3 DEF Shows, Below
  <2> QED BY <2>1, <2>4 DEF x, y, G
<1>6. \A k \in 0..n : k \in G
  <2> HIDE DEF G
  <2> QED BY <1>1, <1>4, <1>5, Upwards
<1>7. Below(g[n], f[n])
  BY <1>1, <1>6
<1> QED BY <1>2, <1>3, <1>7

-----------------------------------------------------------------------------
(* The inductive invariant: as long as nothing has set reader and GUI apart,  *)
(* there is one thread at most, and an outlook in which it is safe.           *)

Apart == {"fault", "silent", "picker", "overlap", "toggle"}
Together == upset \intersect Apart = {}
Strict == upset \subseteq {"moved"}

FpgaFields == {"baud", "clk", "width", "lines", "part", "quiet"}
Shapes ==
    /\ DOMAIN ui = UiFields /\ ui.use_fifo \in Ports
    /\ DOMAIN workers = Slots /\ \A s \in Slots : DOMAIN workers[s] = Fields
    /\ DOMAIN fpga = FpgaFields /\ DOMAIN card = EmmcPartition
    /\ IsScript(channel) /\ idle \in Nat /\ fpga.quiet \in Nat
    /\ DOMAIN user = {"buttons", "profiles", "clicks", "faults"}
    /\ user.profiles \subseteq SpeedProfile

Valid(action) == action.name = "set_baud" => action.preset \in Presets
Requested(u) ==
    /\ Valid(u.dialog) /\ Valid(u.pending)
    /\ u.picker.name = "ask" => Valid(u.picker.action)

Running(w) ==
    \/ w = NoThread /\ \A s \in Slots : ~Alive(s)
    \/ \E s \in Slots : w = workers[s] /\ \A t \in Slots : t # s => ~Alive(t)

\* What the outlook says of the thread, of the reader, and of the panel.
OfThread(k, w) ==
    /\ k.open = w.open /\ k.baud = w.baud
    /\ k.polled => w.got = [clk |-> fpga.clk, preset |-> Preset(fpga.baud)]
OfReader(k) ==
    /\ k.rate = fpga.baud /\ k.clk = fpga.clk /\ k.width = fpga.width /\ k.part = fpga.part
    /\ k.kept => fpga.quiet <= idle
    /\ k.strict => fpga.lines = fpga.width
OfPanel(k, u) ==
    /\ k.fifo = u.use_fifo /\ (u.connected => k.conn)
    /\ k.sbaud = u.selected_baud /\ k.spreset = u.baud_preset
    /\ k.sclk = u.clk_preset /\ k.swidth = u.bus_width /\ k.spart = u.active_partition
    /\ u.status = "running" => k.busy
    /\ u.keepalive_pending => k.waiting

Faithful(k, w) ==
    /\ Safe(k, w.rest) /\ OfThread(k, w) /\ OfReader(k) /\ OfPanel(k, Seen)
    /\ Strict => k.strict
Followed == \E w : Running(w) /\ \E k : Faithful(k, w)

Tracked == Shapes /\ Requested(ui) /\ Followed
ShownInv == Together => Tracked

LEMMA InitShown == Init => ShownInv
<1> SUFFICES ASSUME Init PROVE Tracked
  BY DEF ShownInv
<1>1. PICK fifo \in Ports : ui = AppState(fifo)
  BY DEF Init
<1>2. DOMAIN ui = UiFields /\ ui.use_fifo = fifo /\ ~ui.connected
      /\ ui.selected_baud = DefaultBaud /\ ui.baud_preset = 0 /\ ui.clk_preset = 0
      /\ ui.bus_width = 1 /\ ui.active_partition = "User" /\ ui.status = "idle"
      /\ ui.keepalive_pending = FALSE /\ ui.dialog = None /\ ui.pending = None /\ ui.picker = None
  BY <1>1 DEF AppState, UiFields
<1>3. Seen = ui
  BY HeededNothing DEF Seen, Init
<1>4. Shapes
  <2>1. user \in Users /\ Users \subseteq [buttons : SUBSET STRING, profiles : SUBSET SpeedProfile,
                                           clicks : Nat, faults : Nat]
    BY ReaderAssumption DEF Init
  <2>2. user \in [buttons : SUBSET STRING, profiles : SUBSET SpeedProfile, clicks : Nat, faults : Nat]
    BY <2>1
  <2>3. DOMAIN user = {"buttons", "profiles", "clicks", "faults"} /\ user.profiles \subseteq SpeedProfile
    BY <2>2
  <2>4. /\ DOMAIN workers = Slots /\ \A s \in Slots : DOMAIN workers[s] = Fields
    BY DEF Init, NoThread, Fields
  <2>5. /\ DOMAIN fpga = FpgaFields /\ DOMAIN card = EmmcPartition
        /\ idle \in Nat /\ fpga.quiet \in Nat
    BY DEF Init, FpgaFields
  <2> QED BY <1>2, <2>3, <2>4, <2>5, EmptyIsScript DEF Shapes, Init
<1>5. Requested(ui)
  BY <1>2 DEF Requested, Valid, None
<1>6. Running(NoThread)
  BY DEF Running, Init, Alive, NoThread
<1> DEFINE k == [open |-> FALSE, baud |-> 0, polled |-> FALSE, rate |-> DefaultBaud, clk |-> 0,
                 width |-> 1, part |-> "User", kept |-> TRUE, fifo |-> fifo, conn |-> FALSE,
                 sbaud |-> DefaultBaud, spreset |-> 0, sclk |-> 0, swidth |-> 1, spart |-> "User",
                 busy |-> FALSE, waiting |-> FALSE, strict |-> TRUE]
<1>7. Over(k)
  BY Rates DEF Over, Sound, Outlook, OutlookFields, RateShown, SettingShown
<1>8. OfThread(k, NoThread) /\ OfReader(k) /\ k.strict
  BY DEF OfThread, OfReader, NoThread, Init
<1>9. OfPanel(k, ui)
  BY <1>2 DEF OfPanel
<1> HIDE DEF k
<1>10. Safe(k, NoThread.rest)
  BY <1>7, SafeEmpty DEF NoThread
<1>11. Faithful(k, NoThread)
  BY <1>3, <1>8, <1>9, <1>10 DEF Faithful
<1> QED BY <1>4, <1>5, <1>6, <1>11 DEF Tracked, Followed

-----------------------------------------------------------------------------
(* The thread takes a step. *)

\* Nothing of a thread is left.
Left(k) == [k EXCEPT !.open = FALSE, !.baud = 0, !.polled = FALSE]

LEMMA LeftIsSafe ==
    ASSUME NEW k, Over(k)
    PROVE  /\ Over(Left(k)) /\ Safe(Left(k), <<>>)
           /\ OfThread(Left(k), NoThread)
           /\ OfReader(k) => OfReader(Left(k))
           /\ \A u : OfPanel(k, u) => OfPanel(Left(k), u)
           /\ Left(k).strict = k.strict
<1>1. Over(Left(k))
  BY DEF Left, Over, Sound, Outlook, OutlookFields, RateShown, SettingShown
<1>2. OfThread(Left(k), NoThread)
  BY DEF Left, OfThread, NoThread, Over, Sound, Outlook, OutlookFields
<1>3. OfReader(k) => OfReader(Left(k))
  BY DEF Left, OfReader, Over, Sound, Outlook, OutlookFields
<1>4. \A u : OfPanel(k, u) => OfPanel(Left(k), u)
  BY DEF Left, OfPanel, Over, Sound, Outlook, OutlookFields
<1>5. Left(k).strict = k.strict
  BY DEF Left, Over, Sound, Outlook, OutlookFields
<1> QED BY <1>1, <1>2, <1>3, <1>4, <1>5, SafeEmpty

\* The same after a step.
LEMMA LeftIsSafeLater ==
    ASSUME NEW k, Over(k)
    PROVE  /\ Safe(Left(k), <<>>)
           /\ OfThread(Left(k), NoThread)'
           /\ OfReader(k)' => OfReader(Left(k))'
           /\ OfPanel(k, Seen)' => OfPanel(Left(k), Seen)'
           /\ Left(k).strict = k.strict
<1>1. Over(Left(k))
  BY DEF Left, Over, Sound, Outlook, OutlookFields, RateShown, SettingShown
<1>2. OfThread(Left(k), NoThread)'
  BY DEF Left, OfThread, NoThread, Over, Sound, Outlook, OutlookFields
<1>3. OfReader(k)' => OfReader(Left(k))'
  BY DEF Left, OfReader, Over, Sound, Outlook, OutlookFields
<1>4. OfPanel(k, Seen)' => OfPanel(Left(k), Seen)'
  BY DEF Left, OfPanel, Over, Sound, Outlook, OutlookFields
<1>5. Left(k).strict = k.strict
  BY DEF Left, Over, Sound, Outlook, OutlookFields
<1> QED BY <1>1, <1>2, <1>3, <1>4, <1>5, SafeEmpty

\* Who runs is the one thread there is.
LEMMA TheThread ==
    ASSUME NEW w, Running(w), NEW s \in Slots, Alive(s)
    PROVE  w = workers[s] /\ \A t \in Slots : t # s => ~Alive(t)
BY DEF Running

LEMMA ContinueFollows ==
    ASSUME Shapes, NEW s \in Slots, \A t \in Slots : t # s => ~Alive(t),
           NEW v, DOMAIN v = Fields, NEW steps, Continue(s, v, steps),
           NEW k, Safe(k, steps), k.open = v.open, k.baud = v.baud,
           (k.polled => v.got = [clk |-> fpga.clk, preset |-> Preset(fpga.baud)])',
           OfReader(k)', OfPanel(k, Seen)', (Strict => k.strict)'
    PROVE  Followed' /\ DOMAIN workers' = Slots /\ \A t \in Slots : DOMAIN workers'[t] = Fields
<1> DEFINE ended == steps = <<>> /\ ~v.open
           next == IF ended THEN NoThread ELSE [v EXCEPT !.rest = steps]
<1>1. workers' = [workers EXCEPT ![s] = next]
  BY DEF Continue
<1>2. DOMAIN next = Fields
  BY DEF NoThread, Fields
<1>3. /\ DOMAIN workers' = Slots /\ workers'[s] = next
      /\ \A t \in Slots : t # s => workers'[t] = workers[t]
  BY <1>1 DEF Shapes
<1>4. \A t \in Slots : DOMAIN workers'[t] = Fields
  BY <1>2, <1>3 DEF Shapes
<1>5. Running(next)'
  <2>1. \A t \in Slots : t # s => ~Alive(t)'
    BY <1>3 DEF Alive
  <2> HIDE DEF next
  <2> QED BY <1>3, <2>1 DEF Running
<1>6. CASE ended
  <2>1. Over(k)
    BY <1>6, SafeStep
  <2>2. next = NoThread /\ NoThread.rest = <<>>
    BY <1>6 DEF NoThread
  <2> HIDE DEF next, ended
  <2>3. /\ Safe(Left(k), <<>>) /\ OfThread(Left(k), NoThread)'
        /\ OfReader(Left(k))' /\ OfPanel(Left(k), Seen)' /\ Left(k).strict = k.strict
    BY <2>1, LeftIsSafeLater
  <2>4. Faithful(Left(k), NoThread)'
    BY <2>2, <2>3 DEF Faithful
  <2> QED BY <1>3, <1>4, <1>5, <2>2, <2>4 DEF Followed
<1>7. CASE ~ended
  <2>1. next.rest = steps /\ next.open = v.open /\ next.baud = v.baud /\ next.got = v.got
    BY <1>7 DEF Fields
  <2> HIDE DEF next, ended
  <2>2. OfThread(k, next)'
    BY <2>1 DEF OfThread
  <2>3. Faithful(k, next)'
    BY <2>1, <2>2 DEF Faithful
  <2> QED BY <1>3, <1>4, <1>5, <2>3 DEF Followed
<1> QED BY <1>6, <1>7

\* The outlook of the thread that takes the step.
Acts(k, s) ==
    /\ Faithful(k, workers[s]) /\ workers[s].rest # <<>>
    /\ \A t \in Slots : t # s => ~Alive(t)

LEMMA WhoActs ==
    ASSUME Followed, NEW s \in Slots, workers[s].rest # <<>>
    PROVE  \E k : Acts(k, s)
BY TheThread DEF Followed, Acts, Alive

LEMMA FailFollows ==
    ASSUME Shapes, NEW s \in Slots, NEW k, Acts(k, s), Fail(s, workers[s]),
           MayFail(k, Head(workers[s].rest)),
           UNCHANGED <<ui, channel, idle, upset>>,
           fpga' \in {fpga, [fpga EXCEPT !.quiet = 0]}
    PROVE  Followed' /\ DOMAIN workers' = Slots /\ \A t \in Slots : DOMAIN workers'[t] = Fields
<1> DEFINE w == workers[s]
           step == Head(w.rest)
           steps == IF step.tries > 1
                    THEN <<[step EXCEPT !.tries = @ - 1]>> \o Tail(w.rest)
                    ELSE IF step.lax THEN Tail(w.rest) ELSE step.fails
<1>1. DOMAIN w = Fields /\ Continue(s, w, steps)
  BY DEF Shapes, Fail
<1>2. Safe(k, steps)
  <2>1. Safe(k, w.rest) /\ w.rest # <<>>
    BY DEF Acts, Faithful
  <2>2. Safe(k, Otherwise(w.rest)) /\ Proper(k, step)
    BY <2>1, SafeStep
  <2>3. [step EXCEPT !.tries = @ - 1] = [step EXCEPT !.tries = step.tries - 1]
    OBVIOUS
  <2>4. Safe(k, <<[step EXCEPT !.tries = step.tries - 1]>> \o Tail(w.rest))
    BY <2>1, SafeAgain
  <2>5. Otherwise(w.rest) = IF step.lax THEN Tail(w.rest) ELSE step.fails
    BY DEF Otherwise
  <2> QED BY <2>2, <2>3, <2>4, <2>5
<1> HIDE DEF steps
<1>3. PICK v, rest : v = w /\ rest = steps
  OBVIOUS
<1>4. /\ k.open = v.open /\ k.baud = v.baud
      /\ (k.polled => v.got = [clk |-> fpga.clk, preset |-> Preset(fpga.baud)])
      /\ OfReader(k) /\ OfPanel(k, Seen) /\ (Strict => k.strict)
  BY <1>3 DEF Acts, Faithful, OfThread
<1>5. /\ (k.polled => v.got = [clk |-> fpga.clk, preset |-> Preset(fpga.baud)])'
      /\ OfReader(k)' /\ OfPanel(k, Seen)' /\ (Strict => k.strict)'
  <2>1. Seen' = Seen /\ upset' = upset /\ idle' = idle
    BY DEF Seen
  <2>2. /\ fpga'.baud = fpga.baud /\ fpga'.clk = fpga.clk /\ fpga'.width = fpga.width
        /\ fpga'.lines = fpga.lines /\ fpga'.part = fpga.part
        /\ fpga'.quiet \in {fpga.quiet, 0} /\ idle \in Nat
    BY DEF Shapes, FpgaFields
  <2>3. k.kept => fpga'.quiet <= idle'
    BY <1>4, <2>1, <2>2 DEF OfReader
  <2> QED BY <1>4, <2>1, <2>2, <2>3 DEF OfReader, OfPanel, Strict
<1>6. \A t \in Slots : t # s => ~Alive(t)
  BY DEF Acts
<1>7. DOMAIN v = Fields /\ Continue(s, v, rest) /\ Safe(k, rest)
  BY <1>1, <1>2, <1>3
<1> HIDE DEF w
<1> QED BY <1>4, <1>5, <1>6, <1>7, ContinueFollows

-----------------------------------------------------------------------------
\* What a command leaves of an outlook, and what it changes.
CommandedAs(k, a, g) ==
    /\ g.open = k.open /\ g.baud = k.baud
    /\ g.kept = TRUE
    /\ g.polled => a.do = "get_status"
    /\ g.fifo = k.fifo /\ g.conn = k.conn
    /\ g.sbaud = k.sbaud /\ g.spreset = k.spreset
    /\ g.sclk = k.sclk /\ g.swidth = k.swidth
    /\ g.spart = k.spart /\ g.busy = k.busy
    /\ g.waiting = k.waiting /\ g.strict = k.strict
    /\ g.rate = IF a.do = "set_baud" THEN UART_BAUD_RATES[a.arg] ELSE k.rate
    /\ g.clk = IF a.do = "set_clk" THEN a.arg ELSE k.clk
    /\ g.width = IF a.do = "set_bus_width" THEN a.arg
                 ELSE IF a.do = "reinit" THEN 1 ELSE k.width
    /\ g.part = IF a.do \in {"set_partition", "switch_part"} THEN a.arg
                ELSE IF a.do = "reinit" THEN "User" ELSE k.part

LEMMA CommandedFields ==
    ASSUME NEW k, Outlook(k), NEW a
    PROVE  CommandedAs(k, a, Commanded(k, a))
<1>1. CASE a.do = "set_clk"
  BY <1>1 DEF CommandedAs, Commanded, Outlook, OutlookFields
<1>2. CASE a.do = "set_baud"
  BY <1>2 DEF CommandedAs, Commanded, Outlook, OutlookFields
<1>3. CASE a.do = "set_bus_width"
  BY <1>3 DEF CommandedAs, Commanded, Outlook, OutlookFields
<1>4. CASE a.do \in {"set_partition", "switch_part"}
  BY <1>4 DEF CommandedAs, Commanded, Outlook, OutlookFields
<1>5. CASE a.do = "reinit"
  BY <1>5 DEF CommandedAs, Commanded, Outlook, OutlookFields
<1>6. CASE a.do \notin {"set_clk", "set_baud", "set_bus_width", "set_partition", "switch_part",
                        "reinit"}
  <2>1. Commanded(k, a) = [k EXCEPT !.kept = TRUE, !.polled = (a.do = "get_status")]
    BY <1>6 DEF Commanded
  <2> QED BY <1>6, <2>1 DEF CommandedAs, Outlook, OutlookFields
<1> QED BY <1>1, <1>2, <1>3, <1>4, <1>5, <1>6

\* The reader does the same.
LEMMA ObeyFields ==
    ASSUME DOMAIN fpga = FpgaFields, NEW do, NEW arg, Obey(do, arg)
    PROVE  /\ DOMAIN fpga' = FpgaFields /\ fpga'.quiet = 0
           /\ fpga'.baud = IF do = "set_baud" THEN UART_BAUD_RATES[arg] ELSE fpga.baud
           /\ fpga'.clk = IF do = "set_clk" THEN arg ELSE fpga.clk
           /\ fpga'.width = IF do = "set_bus_width" THEN arg
                            ELSE IF do = "reinit" THEN 1 ELSE fpga.width
           /\ fpga'.part = IF do \in {"set_partition", "switch_part"} THEN arg
                           ELSE IF do = "reinit" THEN "User" ELSE fpga.part
           /\ fpga.lines = fpga.width /\ do # "switch_lines" => fpga'.lines = fpga'.width
<1>1. CASE do = "set_clk"
  BY <1>1 DEF Obey, FpgaFields
<1>2. CASE do = "set_baud"
  BY <1>2 DEF Obey, FpgaFields
<1>3. CASE do = "set_bus_width"
  BY <1>3 DEF Obey, FpgaFields
<1>4. CASE do \in {"set_partition", "switch_part"}
  BY <1>4 DEF Obey, FpgaFields
<1>5. CASE do = "reinit"
  BY <1>5 DEF Obey, FpgaFields
<1>6. CASE do = "switch_lines"
  BY <1>6 DEF Obey, FpgaFields
<1>7. CASE do \notin {"set_clk", "set_baud", "set_bus_width", "set_partition", "switch_part",
                      "switch_lines", "reinit"}
  <2>1. fpga' = [fpga EXCEPT !.quiet = 0]
    BY <1>7 DEF Obey
  <2> QED BY <1>7, <2>1 DEF FpgaFields
<1> QED BY <1>1, <1>2, <1>3, <1>4, <1>5, <1>6, <1>7

LEMMA ObeyCard ==
    ASSUME NEW do, NEW arg, Obey(do, arg), DOMAIN card = EmmcPartition
    PROVE  /\ DOMAIN card' = EmmcPartition
           /\ \A p \in EmmcPartition : p # fpga.part => card'[p] = card[p]
           /\ do \notin {"write", "erase", "secure_erase"} => card' = card
<1>1. CASE do = "write"
  <2>1. card' = [card EXCEPT ![fpga.part][arg.lba] = arg.data]
    BY <1>1 DEF Obey
  <2> QED BY <1>1, <2>1
<1>2. CASE do \in {"erase", "secure_erase"}
  <2>1. card' = [card EXCEPT ![fpga.part][arg] = <<"none", arg>>]
    BY <1>2 DEF Obey
  <2> QED BY <1>2, <2>1
<1>3. CASE do \notin {"write", "erase", "secure_erase"}
  BY <1>3 DEF Obey
<1> QED BY <1>1, <1>2, <1>3

\* The GUI will show what the outlook says: after message m, x is the outlook that was k.
ToldAs(k, m, x) ==
    /\ x.open = k.open /\ x.baud = k.baud
    /\ x.kept = k.kept /\ x.polled = k.polled
    /\ x.rate = k.rate /\ x.clk = k.clk
    /\ x.width = k.width /\ x.part = k.part
    /\ x.fifo = k.fifo /\ x.strict = k.strict
    /\ m.type = "ConnectedWithSpeed" => x.conn = TRUE
    /\ m.type # "ConnectedWithSpeed" => x.conn = k.conn
    /\ x.sbaud = IF m.type \in {"ConnectedWithSpeed", "BaudPresetSet"}
                 THEN m.baud ELSE k.sbaud
    /\ x.spreset = IF m.type \in {"ConnectedWithSpeed", "BaudPresetSet"}
                   THEN m.preset
                   ELSE IF m.type = "ControllerStatusReceived"
                   THEN Preset(k.rate) ELSE k.spreset
    /\ x.sclk = IF m.type = "ConnectedWithSpeed" THEN m.clk
                ELSE IF m.type = "ControllerStatusReceived" THEN k.clk
                ELSE IF m.type = "ClkSpeedSet" THEN m.preset ELSE k.sclk
    /\ x.swidth = IF m.type = "BusWidthSet" THEN m.width ELSE k.swidth
    /\ x.spart = k.spart
    /\ x.busy =>
         m.type \in {"KeepaliveOk", "PortsScanned", "CardInfo", "Progress"}
    /\ m.type \in {"KeepaliveOk", "PortsScanned", "CardInfo", "Progress"} =>
         x.busy = k.busy
    /\ m.type = "KeepaliveOk" => x.waiting = FALSE
    /\ m.type # "KeepaliveOk" => x.waiting = k.waiting

LEMMA ToldFields ==
    ASSUME NEW k, Outlook(k), NEW m
    PROVE  ToldAs(k, m, Told(k, m))
<1>1. CASE m.type = "ConnectedWithSpeed"
  BY <1>1 DEF ToldAs, Told, Outlook, OutlookFields
<1>2. CASE m.type = "BusWidthSet"
  BY <1>2 DEF ToldAs, Told, Outlook, OutlookFields
<1>3. CASE m.type = "ClkSpeedSet"
  BY <1>3 DEF ToldAs, Told, Outlook, OutlookFields
<1>4. CASE m.type = "BaudPresetSet"
  BY <1>4 DEF ToldAs, Told, Outlook, OutlookFields
<1>5. CASE m.type = "ControllerStatusReceived"
  BY <1>5 DEF ToldAs, Told, Outlook, OutlookFields
<1>6. CASE m.type = "KeepaliveOk"
  BY <1>6 DEF ToldAs, Told, Outlook, OutlookFields
<1>7. CASE m.type \in {"PortsScanned", "CardInfo", "Progress"}
  BY <1>7 DEF ToldAs, Told, Outlook, OutlookFields
<1>8. CASE m.type \notin {"ConnectedWithSpeed", "BusWidthSet", "ClkSpeedSet", "BaudPresetSet",
                          "ControllerStatusReceived", "KeepaliveOk", "PortsScanned", "CardInfo",
                          "Progress"}
  <2>1. Told(k, m) = [k EXCEPT !.busy = FALSE]
    BY <1>8 DEF Told
  <2> QED BY <1>8, <2>1 DEF ToldAs, Outlook, OutlookFields
<1> QED BY <1>1, <1>2, <1>3, <1>4, <1>5, <1>6, <1>7, <1>8

\* A message that says what the thread was to tell brings the panel to the outlook.
LEMMA ToldIsShown ==
    ASSUME NEW k, Outlook(k), NEW u, OfPanel(k, u), NEW t, NEW m, NEW v, Shows(u, m, v),
           \/ m = t /\ t.type # "ControllerStatusReceived"
           \/ /\ m.type = "ControllerStatusReceived" /\ t.type = "ControllerStatusReceived"
              /\ m.clk = k.clk /\ m.preset = Preset(k.rate)
           \/ m.type \in {"SectorsRead", "WriteVerified", "Mismatch"}
              /\ t.type \in {"SectorsRead", "WriteVerified"}
    PROVE  OfPanel(Told(k, t), v)
<1> PICK x : x = Told(k, t)
  OBVIOUS
<1>0. ToldAs(k, t, x)
  BY ToldFields
<1>1. x.fifo = v.use_fifo /\ (v.connected => x.conn)
  <2>1. /\ x.fifo = k.fifo
        /\ t.type = "ConnectedWithSpeed" => x.conn = TRUE
        /\ t.type # "ConnectedWithSpeed" => x.conn = k.conn
    BY <1>0 DEF ToldAs
  <2>2. /\ v.use_fifo = u.use_fifo
        /\ m.type # "ConnectedWithSpeed" => v.connected = u.connected
    BY DEF Shows
  <2>3. m.type = "ConnectedWithSpeed" <=> t.type = "ConnectedWithSpeed"
    OBVIOUS
  <2>4. k.fifo = u.use_fifo /\ (u.connected => k.conn)
    BY DEF OfPanel
  <2> QED BY <2>1, <2>2, <2>3, <2>4
<1>2. x.sbaud = v.selected_baud /\ x.spreset = v.baud_preset
  <2>1. /\ x.sbaud = IF t.type \in {"ConnectedWithSpeed", "BaudPresetSet"}
                     THEN t.baud ELSE k.sbaud
        /\ x.spreset = IF t.type \in {"ConnectedWithSpeed", "BaudPresetSet"}
                       THEN t.preset
                       ELSE IF t.type = "ControllerStatusReceived"
                       THEN Preset(k.rate) ELSE k.spreset
    BY <1>0 DEF ToldAs
  <2>2. /\ v.selected_baud = IF m.type \in {"ConnectedWithSpeed", "BaudPresetSet"}
                             THEN m.baud ELSE u.selected_baud
        /\ v.baud_preset = IF m.type \in {"ConnectedWithSpeed", "BaudPresetSet",
                                          "ControllerStatusReceived"}
                           THEN m.preset ELSE u.baud_preset
    BY DEF Shows
  <2>3. k.sbaud = u.selected_baud /\ k.spreset = u.baud_preset
    BY DEF OfPanel
  <2> QED BY <2>1, <2>2, <2>3
<1>3. x.sclk = v.clk_preset /\ x.swidth = v.bus_width /\ x.spart = v.active_partition
  <2>1. /\ x.sclk = IF t.type = "ConnectedWithSpeed" THEN t.clk
                    ELSE IF t.type = "ControllerStatusReceived" THEN k.clk
                    ELSE IF t.type = "ClkSpeedSet" THEN t.preset ELSE k.sclk
        /\ x.swidth = IF t.type = "BusWidthSet" THEN t.width ELSE k.swidth
        /\ x.spart = k.spart
    BY <1>0 DEF ToldAs
  <2>2. /\ v.clk_preset = IF m.type \in {"ConnectedWithSpeed", "ControllerStatusReceived"} THEN m.clk
                          ELSE IF m.type = "ClkSpeedSet" THEN m.preset ELSE u.clk_preset
        /\ v.bus_width = IF m.type = "BusWidthSet" THEN m.width ELSE u.bus_width
        /\ v.active_partition = u.active_partition
    BY DEF Shows
  <2>3. k.sclk = u.clk_preset /\ k.swidth = u.bus_width /\ k.spart = u.active_partition
    BY DEF OfPanel
  <2> QED BY <2>1, <2>2, <2>3
<1>4. (v.status = "running" => x.busy) /\ (v.keepalive_pending => x.waiting)
  <2>1. /\ t.type \in {"KeepaliveOk", "PortsScanned", "CardInfo", "Progress"} => x.busy = k.busy
        /\ t.type # "KeepaliveOk" => x.waiting = k.waiting
    BY <1>0 DEF ToldAs
  <2>2. /\ v.status = "running" <=>
             m.type \in {"KeepaliveOk", "PortsScanned", "CardInfo", "Progress"} /\ u.status = "running"
        /\ m.type = "KeepaliveOk" => v.keepalive_pending = FALSE
        /\ m.type # "KeepaliveOk" => v.keepalive_pending = u.keepalive_pending
    BY DEF Shows
  <2>3. (u.status = "running" => k.busy) /\ (u.keepalive_pending => k.waiting)
    BY DEF OfPanel
  <2> QED BY <2>1, <2>2, <2>3
<1> QED BY <1>1, <1>2, <1>3, <1>4 DEF OfPanel

\* A message may carry what the thread has got; an outlook knows it.
LEMMA ToldOfMessage ==
    ASSUME NEW k, Outlook(k), NEW w, w.rest # <<>>, Proper(k, Head(w.rest)),
           Head(w.rest).do = "tell", OfThread(k, w), OfReader(k), NEW u, OfPanel(k, u),
           NEW m \in Message(w), NEW v, Shows(u, m, v)
    PROVE  OfPanel(Told(k, Head(w.rest).arg), v)
<1>0. PICK t : t = Head(w.rest).arg
  OBVIOUS
<1>1. \/ m = t /\ t.type # "ControllerStatusReceived"
      \/ /\ m.type = "ControllerStatusReceived" /\ t.type = "ControllerStatusReceived"
         /\ m.clk = k.clk /\ m.preset = Preset(k.rate)
      \/ m.type \in {"SectorsRead", "WriteVerified", "Mismatch"}
         /\ t.type \in {"SectorsRead", "WriteVerified"}
  <2>1. CASE t.type = "SectorsRead"
    <3>1. m = [type |-> t.type, lba |-> t.lba, data |-> w.got]
      BY <1>0, <2>1 DEF Message
    <3> QED BY <2>1, <3>1
  <2>2. CASE t.type = "ControllerStatusReceived"
    <3>1. m = [type |-> t.type, clk |-> w.got.clk, preset |-> w.got.preset]
      BY <1>0, <2>2 DEF Message
    <3>2. k.polled
      BY <1>0, <2>2 DEF Proper
    <3>3. w.got.clk = k.clk /\ w.got.preset = Preset(k.rate)
      BY <3>2 DEF OfThread, OfReader
    <3> QED BY <2>2, <3>1, <3>3
  <2>3. CASE t.type = "WriteVerified"
    BY <1>0, <2>3 DEF Message
  <2>4. CASE t.type \notin {"SectorsRead", "ControllerStatusReceived", "WriteVerified"}
    BY <1>0, <2>4 DEF Message
  <2> QED BY <2>1, <2>2, <2>3, <2>4
<1> QED BY <1>0, <1>1, ToldIsShown

-----------------------------------------------------------------------------
(* The worker threads. *)

\* What is left to show of a step of a thread.
LEMMA WorkerShapes ==
    ASSUME Tracked, UNCHANGED ui, DOMAIN workers' = Slots,
           \A t \in Slots : DOMAIN workers'[t] = Fields,
           DOMAIN fpga' = FpgaFields, DOMAIN card' = EmmcPartition, IsScript(channel'),
           UNCHANGED <<idle, user>>, fpga'.quiet \in Nat, Followed'
    PROVE  Tracked'
<1>1. Shapes'
  BY DEF Tracked, Shapes
<1>2. Requested(ui')
  BY DEF Tracked
<1> QED BY <1>1, <1>2 DEF Tracked

LEMMA OpenPortFollows ==
    ASSUME Tracked, Together', NEW s \in Slots, OpenPort(s)
    PROVE  Tracked'
<1> DEFINE a == Head(workers[s].rest)
<1>1. /\ workers[s].rest # <<>> /\ a.do = "open"
      /\ UNCHANGED <<ui, channel, fpga, card, idle>>
  BY DEF OpenPort, Runs
<1>2. Shapes /\ Followed
  BY DEF Tracked
<1>3. PICK k : Acts(k, s)
  BY <1>1, <1>2, WhoActs
<1>4. /\ Safe(k, workers[s].rest) /\ OfThread(k, workers[s]) /\ OfReader(k) /\ OfPanel(k, Seen)
      /\ (Strict => k.strict) /\ \A t \in Slots : t # s => ~Alive(t)
  BY <1>3 DEF Acts, Faithful
<1>5. Outlook(k) /\ Proper(k, a) /\ (MayWork(k, a) => Safe(Later(k, a), Tail(workers[s].rest)))
  BY <1>1, <1>4, SafeStep
<1>6. (\E t \in Slots : workers[t].open) <=> k.open
  BY <1>4 DEF OfThread, Alive
<1>7. k.fifo \in Ports /\ k.fifo \in BOOLEAN
  <2>1. k.fifo = ui.use_fifo
    BY <1>2, <1>4, HeededKeeps DEF OfPanel, Seen, Shapes
  <2> QED BY <1>2, <2>1, ReaderAssumption DEF Shapes
<1>8. ~Faulty
  BY DEF Together, Apart, Faulty
<1>9. UNCHANGED <<user, upset>>
  BY <1>8 DEF OpenPort, NoFault
<1>10. SUFFICES Followed' /\ DOMAIN workers' = Slots /\ \A t \in Slots : DOMAIN workers'[t] = Fields
  BY <1>1, <1>2, <1>9, WorkerShapes DEF Shapes
<1>11. CASE Fail(s, workers[s]) /\ (k.open \/ (a.arg = 0) \notin Ports)
  <2>1. MayFail(k, a)
    BY <1>1, <1>7, <1>11 DEF MayFail
  <2> HIDE DEF a
  <2> QED BY <1>1, <1>2, <1>3, <1>9, <1>11, <2>1, FailFollows DEF a
<1>12. CASE ~k.open /\ Proceed(s, [workers[s] EXCEPT !.open = TRUE, !.baud = a.arg])
  <2> DEFINE h == Later(k, a)
  <2>1. Safe(h, Tail(workers[s].rest)) /\ h = [k EXCEPT !.open = TRUE, !.baud = a.arg]
    BY <1>1, <1>5, <1>12 DEF MayWork, Later
  <2>2. PICK v, g, rest : /\ v = [workers[s] EXCEPT !.open = TRUE, !.baud = a.arg]
                          /\ g = h /\ rest = Tail(workers[s].rest)
    OBVIOUS
  <2>3. /\ DOMAIN v = Fields /\ v.rest = workers[s].rest /\ v.open = TRUE /\ v.baud = a.arg
        /\ v.got = workers[s].got
    BY <1>2, <2>2 DEF Shapes, Fields
  <2>4. /\ g.open = TRUE /\ g.baud = a.arg /\ g.polled = k.polled /\ g.rate = k.rate
        /\ g.clk = k.clk /\ g.width = k.width /\ g.part = k.part /\ g.kept = k.kept
        /\ g.fifo = k.fifo /\ g.conn = k.conn /\ g.sbaud = k.sbaud /\ g.spreset = k.spreset
        /\ g.sclk = k.sclk /\ g.swidth = k.swidth /\ g.spart = k.spart /\ g.busy = k.busy
        /\ g.waiting = k.waiting /\ g.strict = k.strict
    BY <1>5, <2>1, <2>2 DEF Outlook, OutlookFields
  <2>5. Continue(s, v, rest) /\ Safe(g, rest)
    BY <1>12, <2>1, <2>2, <2>3 DEF Proceed
  <2>6. Seen' = Seen /\ fpga' = fpga /\ idle' = idle
    BY <1>1 DEF Seen
  <2>7. /\ (g.polled => v.got = [clk |-> fpga.clk, preset |-> Preset(fpga.baud)])'
        /\ OfReader(g)' /\ OfPanel(g, Seen)' /\ (Strict => g.strict)'
    BY <1>4, <1>9, <2>3, <2>4, <2>6 DEF OfThread, OfReader, OfPanel, Strict
  <2> HIDE DEF h, a
  <2> QED BY <1>2, <1>4, <2>3, <2>4, <2>5, <2>7, ContinueFollows
<1> QED BY <1>6, <1>8, <1>11, <1>12 DEF OpenPort

LEMMA ClosePortFollows ==
    ASSUME Tracked, NEW s \in Slots, ClosePort(s)
    PROVE  Tracked'
<1> DEFINE a == Head(workers[s].rest)
<1>1. /\ workers[s].rest # <<>> /\ a.do = "close"
      /\ UNCHANGED <<ui, channel, fpga, card, idle, user, upset>>
      /\ Proceed(s, [workers[s] EXCEPT !.open = FALSE])
  BY DEF ClosePort, Runs
<1>2. Shapes /\ Followed
  BY DEF Tracked
<1>3. PICK k : Acts(k, s)
  BY <1>1, <1>2, WhoActs
<1>4. /\ Safe(k, workers[s].rest) /\ OfThread(k, workers[s]) /\ OfReader(k) /\ OfPanel(k, Seen)
      /\ (Strict => k.strict) /\ \A t \in Slots : t # s => ~Alive(t)
  BY <1>3 DEF Acts, Faithful
<1>5. Outlook(k) /\ (MayWork(k, a) => Safe(Later(k, a), Tail(workers[s].rest)))
  BY <1>1, <1>4, SafeStep
<1>6. SUFFICES Followed' /\ DOMAIN workers' = Slots /\ \A t \in Slots : DOMAIN workers'[t] = Fields
  BY <1>1, <1>2, WorkerShapes DEF Shapes
<1> DEFINE h == Later(k, a)
<1>7. Safe(h, Tail(workers[s].rest)) /\ h = [k EXCEPT !.open = FALSE]
  BY <1>1, <1>5 DEF MayWork, Later
<1>8. PICK v, g, rest : /\ v = [workers[s] EXCEPT !.open = FALSE]
                        /\ g = h /\ rest = Tail(workers[s].rest)
  OBVIOUS
<1>9. /\ DOMAIN v = Fields /\ v.rest = workers[s].rest /\ v.open = FALSE
      /\ v.baud = workers[s].baud /\ v.got = workers[s].got
  BY <1>2, <1>8 DEF Shapes, Fields
<1>10. /\ g.open = FALSE /\ g.baud = k.baud /\ g.polled = k.polled /\ g.rate = k.rate
      /\ g.clk = k.clk /\ g.width = k.width /\ g.part = k.part /\ g.kept = k.kept
      /\ g.fifo = k.fifo /\ g.conn = k.conn /\ g.sbaud = k.sbaud /\ g.spreset = k.spreset
      /\ g.sclk = k.sclk /\ g.swidth = k.swidth /\ g.spart = k.spart /\ g.busy = k.busy
      /\ g.waiting = k.waiting /\ g.strict = k.strict
  BY <1>5, <1>7, <1>8 DEF Outlook, OutlookFields
<1>11. Continue(s, v, rest) /\ Safe(g, rest)
  BY <1>1, <1>7, <1>8, <1>9 DEF Proceed
<1>12. Seen' = Seen /\ fpga' = fpga /\ idle' = idle /\ upset' = upset
  BY <1>1 DEF Seen
<1>13. /\ (g.polled => v.got = [clk |-> fpga.clk, preset |-> Preset(fpga.baud)])'
       /\ OfReader(g)' /\ OfPanel(g, Seen)' /\ (Strict => g.strict)'
  BY <1>4, <1>9, <1>10, <1>12 DEF OfThread, OfReader, OfPanel, Strict
<1>14. g.baud = v.baud
  BY <1>4, <1>9, <1>10 DEF OfThread
<1> HIDE DEF h, a
<1> QED BY <1>2, <1>4, <1>9, <1>10, <1>11, <1>13, <1>14, ContinueFollows

LEMMA PollFollows ==
    ASSUME Tracked, NEW s \in Slots, Poll(s)
    PROVE  Tracked'
<1> DEFINE a == Head(workers[s].rest)
<1>1. /\ workers[s].rest # <<>> /\ a.do = "poll"
      /\ UNCHANGED <<ui, channel, fpga, card, idle, user, upset>>
      /\ Fail(s, workers[s]) \/ Proceed(s, workers[s])
  BY DEF Poll, Runs
<1>2. Shapes /\ Followed
  BY DEF Tracked
<1>3. PICK k : Acts(k, s)
  BY <1>1, <1>2, WhoActs
<1>4. /\ Safe(k, workers[s].rest) /\ OfThread(k, workers[s]) /\ OfReader(k) /\ OfPanel(k, Seen)
      /\ (Strict => k.strict) /\ \A t \in Slots : t # s => ~Alive(t)
  BY <1>3 DEF Acts, Faithful
<1>5. Outlook(k) /\ (MayWork(k, a) => Safe(Later(k, a), Tail(workers[s].rest)))
  BY <1>1, <1>4, SafeStep
<1>6. SUFFICES Followed' /\ DOMAIN workers' = Slots /\ \A t \in Slots : DOMAIN workers'[t] = Fields
  BY <1>1, <1>2, WorkerShapes DEF Shapes
<1>7. CASE Fail(s, workers[s])
  <2>1. MayFail(k, a)
    BY <1>1 DEF MayFail
  <2> HIDE DEF a
  <2> QED BY <1>1, <1>2, <1>3, <1>7, <2>1, FailFollows DEF a
<1>8. CASE Proceed(s, workers[s])
  <2>1. Safe(k, Tail(workers[s].rest))
    BY <1>1, <1>5 DEF MayWork, Later
  <2>2. PICK v, rest : v = workers[s] /\ rest = Tail(workers[s].rest)
    OBVIOUS
  <2>3. DOMAIN v = Fields /\ Continue(s, v, rest) /\ k.open = v.open /\ k.baud = v.baud
    BY <1>2, <1>4, <1>8, <2>2 DEF Shapes, Proceed, OfThread
  <2>4. Seen' = Seen /\ fpga' = fpga /\ idle' = idle /\ upset' = upset
    BY <1>1 DEF Seen
  <2>5. /\ (k.polled => v.got = [clk |-> fpga.clk, preset |-> Preset(fpga.baud)])'
        /\ OfReader(k)' /\ OfPanel(k, Seen)' /\ (Strict => k.strict)'
    BY <1>4, <2>2, <2>4 DEF OfThread, OfReader, OfPanel, Strict
  <2> QED BY <1>2, <1>4, <2>1, <2>2, <2>3, <2>5, ContinueFollows
<1> QED BY <1>1, <1>7, <1>8

LEMMA ReportFollows ==
    ASSUME Tracked, NEW s \in Slots, Report(s)
    PROVE  Tracked'
<1> DEFINE a == Head(workers[s].rest)
<1>1. /\ workers[s].rest # <<>> /\ a.do = "tell"
      /\ UNCHANGED <<ui, fpga, card, idle, user, upset>> /\ Proceed(s, workers[s])
  BY DEF Report, Runs
<1>2. Shapes /\ Followed
  BY DEF Tracked
<1>3. PICK k : Acts(k, s)
  BY <1>1, <1>2, WhoActs
<1>4. /\ Safe(k, workers[s].rest) /\ OfThread(k, workers[s]) /\ OfReader(k) /\ OfPanel(k, Seen)
      /\ (Strict => k.strict) /\ \A t \in Slots : t # s => ~Alive(t)
  BY <1>3 DEF Acts, Faithful
<1>5. /\ Outlook(k) /\ Proper(k, a) /\ (MayWork(k, a) => Safe(Later(k, a), Tail(workers[s].rest)))
  BY <1>1, <1>4, SafeStep
<1>6. PICK m \in Message(workers[s]) : channel' = Append(channel, m)
  BY DEF Report
<1>7. IsScript(channel') /\ Seen' = receive(Seen, m)
  <2>1. ui' = ui
    BY <1>1
  <2> QED BY <1>2, <1>6, <2>1, HeededAppend DEF Seen, Shapes
<1>8. SUFFICES Followed' /\ DOMAIN workers' = Slots /\ \A t \in Slots : DOMAIN workers'[t] = Fields
  BY <1>1, <1>2, <1>7, WorkerShapes DEF Shapes
<1>9. Shows(Seen, m, Seen')
  <2>1. DOMAIN Seen = UiFields
    BY <1>2, HeededKeeps DEF Seen, Shapes
  <2> QED BY <1>7, <2>1, ReceiveShows
<1>10. PICK v, rest, t, u, x : /\ v = workers[s] /\ rest = Tail(workers[s].rest) /\ t = a.arg
                               /\ u = Seen /\ x = Seen'
  OBVIOUS
<1>11. PICK h : h = Told(k, t)
  OBVIOUS
<1>12. Safe(h, rest)
  BY <1>1, <1>5, <1>10, <1>11 DEF MayWork, Later
<1>13. OfPanel(h, x)
  <2>1. m \in Message(v) /\ Proper(k, Head(v.rest)) /\ v.rest # <<>> /\ Head(v.rest).do = "tell"
        /\ OfThread(k, v) /\ OfReader(k) /\ OfPanel(k, u) /\ Shows(u, m, x) /\ t = Head(v.rest).arg
    BY <1>1, <1>4, <1>5, <1>6, <1>9, <1>10
  <2> QED BY <1>5, <1>11, <2>1, ToldOfMessage
<1>14. DOMAIN v = Fields /\ Continue(s, v, rest)
  BY <1>1, <1>2, <1>10 DEF Shapes, Proceed
<1>15. /\ h.open = k.open /\ h.baud = k.baud /\ h.kept = k.kept /\ h.polled = k.polled
       /\ h.rate = k.rate /\ h.clk = k.clk /\ h.width = k.width /\ h.part = k.part
       /\ h.strict = k.strict
  <2>1. Outlook(k)
    BY <1>5
  <2>2. ToldAs(k, t, h)
    BY <1>11, <2>1, ToldFields
  <2> QED BY <2>2 DEF ToldAs
<1>16. /\ h.open = v.open /\ h.baud = v.baud
       /\ (h.polled => v.got = [clk |-> fpga.clk, preset |-> Preset(fpga.baud)])'
       /\ OfReader(h)' /\ (Strict => h.strict)'
  <2>1. fpga' = fpga /\ idle' = idle /\ upset' = upset
    BY <1>1
  <2> QED BY <1>4, <1>10, <1>15, <2>1 DEF OfThread, OfReader, Strict
<1>17. OfPanel(h, Seen)'
  BY <1>10, <1>13 DEF OfPanel
<1> HIDE DEF a
<1> QED BY <1>2, <1>4, <1>12, <1>14, <1>16, <1>17, ContinueFollows

LEMMA EndFollows ==
    ASSUME Tracked, NEW s \in Slots, End(s)
    PROVE  Tracked'
<1>1. /\ workers[s].rest = <<>> /\ workers[s].open /\ workers' = [workers EXCEPT ![s] = NoThread]
      /\ UNCHANGED <<ui, channel, fpga, card, idle, user, upset>>
  BY DEF End
<1>2. Shapes /\ Followed
  BY DEF Tracked
<1>3. PICK w, k : Running(w) /\ Faithful(k, w)
  BY <1>2 DEF Followed
<1>4. w = workers[s] /\ \A t \in Slots : t # s => ~Alive(t)
  BY <1>1, <1>3, TheThread DEF Alive
<1>5. /\ DOMAIN workers' = Slots /\ workers'[s] = NoThread
      /\ \A t \in Slots : t # s => workers'[t] = workers[t]
  BY <1>1, <1>2 DEF Shapes
<1>6. \A t \in Slots : DOMAIN workers'[t] = Fields
  BY <1>2, <1>5 DEF Shapes, NoThread, Fields
<1>7. Running(NoThread)'
  BY <1>4, <1>5 DEF Running, Alive, NoThread
<1>8. Safe(k, <<>>) /\ OfReader(k) /\ OfPanel(k, Seen) /\ (Strict => k.strict)
  BY <1>1, <1>3, <1>4 DEF Faithful
<1>9. Over(k)
  BY <1>8, SafeStep
<1>10. OfReader(k)' /\ OfPanel(k, Seen)' /\ (Strict => k.strict)'
  <2>1. Seen' = Seen /\ fpga' = fpga /\ idle' = idle /\ upset' = upset
    BY <1>1 DEF Seen
  <2> QED BY <1>8, <2>1 DEF OfReader, OfPanel, Strict
<1>11. Faithful(Left(k), NoThread)'
  BY <1>9, <1>10, LeftIsSafeLater DEF Faithful, NoThread
<1>12. Followed'
  BY <1>7, <1>11 DEF Followed
<1> QED BY <1>1, <1>2, <1>5, <1>6, <1>12, WorkerShapes DEF Shapes

LEMMA ExchangeFollows ==
    ASSUME Tracked, Together', NEW s \in Slots, Exchange(s)
    PROVE  Tracked'
<1> DEFINE a == Head(workers[s].rest)
<1>1. /\ workers[s].rest # <<>> /\ a.do \notin Local /\ UNCHANGED <<ui, channel, idle>>
  BY DEF Exchange
<1>2. Shapes /\ Followed
  BY DEF Tracked
<1>3. PICK k : Acts(k, s)
  BY <1>1, <1>2, WhoActs
<1>4. /\ Safe(k, workers[s].rest) /\ OfThread(k, workers[s]) /\ OfReader(k) /\ OfPanel(k, Seen)
      /\ (Strict => k.strict) /\ \A t \in Slots : t # s => ~Alive(t)
  BY <1>3 DEF Acts, Faithful
<1>5. Outlook(k) /\ (MayWork(k, a) => Safe(Later(k, a), Tail(workers[s].rest)))
  BY <1>1, <1>4, SafeStep
<1>6. ~Faulty
  BY DEF Together, Apart, Faulty
<1>7. CASE /\ workers[s].baud # 0 /\ workers[s].baud # fpga.baud
           /\ Fail(s, workers[s]) /\ NoFault /\ UNCHANGED <<fpga, card>>
  <2>1. ~Heard(k)
    BY <1>4, <1>7 DEF Heard, OfThread, OfReader
  <2>2. MayFail(k, a)
    BY <1>1, <2>1 DEF MayFail, Local
  <2>3. UNCHANGED <<ui, channel, fpga, idle, upset, user, card>>
    BY <1>1, <1>7 DEF NoFault
  <2> HIDE DEF a
  <2>4. Followed' /\ DOMAIN workers' = Slots /\ \A t \in Slots : DOMAIN workers'[t] = Fields
    BY <1>2, <1>3, <1>7, <2>2, <2>3, FailFollows DEF a
  <2> QED BY <1>2, <2>3, <2>4, WorkerShapes DEF Shapes
<1>8. CASE /\ Garbled(a.do) /\ Fail(s, workers[s]) /\ NoFault
           /\ fpga' = [fpga EXCEPT !.quiet = 0] /\ UNCHANGED card
  <2>1. ~k.strict /\ a.do \in {"read", "write", "get_ext_csd"}
    BY <1>4, <1>8 DEF Garbled, OfReader
  <2>2. MayFail(k, a)
    BY <2>1 DEF MayFail
  <2>3. UNCHANGED <<ui, channel, idle, upset, user, card>>
    BY <1>1, <1>8 DEF NoFault
  <2>4. DOMAIN fpga' = FpgaFields /\ fpga'.quiet = 0
    BY <1>2, <1>8 DEF Shapes, FpgaFields
  <2> HIDE DEF a
  <2>5. Followed' /\ DOMAIN workers' = Slots /\ \A t \in Slots : DOMAIN workers'[t] = Fields
    BY <1>2, <1>3, <1>8, <2>2, <2>3, FailFollows DEF a
  <2> QED BY <1>2, <2>3, <2>4, <2>5, WorkerShapes DEF Shapes
<1>9. CASE /\ ~(workers[s].baud # 0 /\ workers[s].baud # fpga.baud)
           /\ Obey(a.do, a.arg) /\ NoFault
           /\ Proceed(s, [workers[s] EXCEPT !.got = Answer(a.do, a.arg)])
  <2>1. Heard(k)
    BY <1>4, <1>9 DEF Heard, OfThread, OfReader
  <2>2. MayWork(k, a) /\ Later(k, a) = Commanded(k, a)
    BY <1>1, <2>1 DEF MayWork, Later, Local
  <2>3. PICK v, g, rest, b : /\ v = [workers[s] EXCEPT !.got = Answer(a.do, a.arg)] /\ b = a
                             /\ g = Commanded(k, b) /\ rest = Tail(workers[s].rest)
    OBVIOUS
  <2>4. Safe(g, rest)
    BY <1>5, <2>2, <2>3
  <2>5. /\ DOMAIN v = Fields /\ v.rest = workers[s].rest /\ v.open = workers[s].open
        /\ v.baud = workers[s].baud /\ v.got = Answer(b.do, b.arg)
    BY <1>2, <2>3 DEF Shapes, Fields
  <2>6. Continue(s, v, rest)
    BY <1>9, <2>3, <2>5 DEF Proceed
  <2>7. /\ DOMAIN fpga' = FpgaFields /\ fpga'.quiet = 0
        /\ fpga'.baud = IF b.do = "set_baud" THEN UART_BAUD_RATES[b.arg] ELSE fpga.baud
        /\ fpga'.clk = IF b.do = "set_clk" THEN b.arg ELSE fpga.clk
        /\ fpga'.width = IF b.do = "set_bus_width" THEN b.arg
                         ELSE IF b.do = "reinit" THEN 1 ELSE fpga.width
        /\ fpga'.part = IF b.do \in {"set_partition", "switch_part"} THEN b.arg
                        ELSE IF b.do = "reinit" THEN "User" ELSE fpga.part
        /\ fpga.lines = fpga.width /\ b.do # "switch_lines" => fpga'.lines = fpga'.width
    <3>1. Obey(b.do, b.arg)
      BY <1>9, <2>3
    <3> QED BY <1>2, <3>1, ObeyFields DEF Shapes
  <2>8. /\ g.open = k.open /\ g.baud = k.baud
        /\ g.kept = TRUE /\ (g.polled => b.do = "get_status")
        /\ g.fifo = k.fifo /\ g.conn = k.conn
        /\ g.sbaud = k.sbaud /\ g.spreset = k.spreset
        /\ g.sclk = k.sclk /\ g.swidth = k.swidth
        /\ g.spart = k.spart /\ g.busy = k.busy
        /\ g.waiting = k.waiting /\ g.strict = k.strict
        /\ g.rate = IF b.do = "set_baud" THEN UART_BAUD_RATES[b.arg] ELSE k.rate
        /\ g.clk = IF b.do = "set_clk" THEN b.arg ELSE k.clk
        /\ g.width = IF b.do = "set_bus_width" THEN b.arg
                                   ELSE IF b.do = "reinit" THEN 1 ELSE k.width
        /\ g.part = IF b.do \in {"set_partition", "switch_part"} THEN b.arg
                                  ELSE IF b.do = "reinit" THEN "User" ELSE k.part
    <3>1. g = Commanded(k, b) /\ Outlook(k)
      BY <1>5, <2>3
    <3> HIDE DEF a
    <3>2. CommandedAs(k, b, g)
      BY <3>1, CommandedFields
    <3> QED BY <3>2 DEF CommandedAs
  <2>9. Seen' = Seen /\ idle' = idle /\ upset' = upset /\ user' = user
    BY <1>1, <1>9 DEF Seen, NoFault
  <2>10. OfReader(g)'
    <3>1. g.rate = fpga'.baud /\ g.clk = fpga'.clk
      BY <1>4, <2>7, <2>8 DEF OfReader
    <3>2. g.width = fpga'.width /\ g.part = fpga'.part
      BY <1>4, <2>7, <2>8 DEF OfReader
    <3>3. fpga'.quiet <= idle'
      BY <1>2, <2>7, <2>9 DEF Shapes
    <3>4. Proper(k, b)
      BY <1>1, <1>4, <2>3, SafeStep
    <3>5. g.strict => fpga'.lines = fpga'.width
      BY <1>4, <2>7, <2>8, <3>4 DEF OfReader, Proper
    <3> QED BY <3>1, <3>2, <3>3, <3>5 DEF OfReader
  <2>11. OfPanel(g, Seen)'
    BY <1>4, <2>8, <2>9 DEF OfPanel
  <2>12. (g.polled => v.got = [clk |-> fpga.clk, preset |-> Preset(fpga.baud)])'
    <3>1. CASE b.do = "get_status"
      <4>1. v.got = [clk |-> fpga.clk, preset |-> Preset(fpga.baud)]
        BY <2>5, <3>1 DEF Answer
      <4>2. fpga'.clk = fpga.clk /\ fpga'.baud = fpga.baud
        BY <2>7, <3>1
      <4> QED BY <4>1, <4>2
    <3>2. CASE b.do # "get_status"
      BY <2>8, <3>2
    <3> QED BY <3>1, <3>2
  <2>13. (Strict => g.strict)' /\ g.open = v.open /\ g.baud = v.baud
    BY <1>4, <2>5, <2>8, <2>9 DEF Strict, OfThread
  <2> HIDE DEF a
  <2>14. Followed' /\ DOMAIN workers' = Slots /\ \A t \in Slots : DOMAIN workers'[t] = Fields
    BY <1>2, <1>4, <2>4, <2>5, <2>6, <2>10, <2>11, <2>12, <2>13, ContinueFollows
  <2>15. DOMAIN card' = EmmcPartition
    <3>1. Obey(a.do, a.arg)
      BY <1>9
    <3> QED BY <1>2, <3>1, ObeyCard DEF Shapes
  <2> QED BY <1>1, <1>2, <2>7, <2>9, <2>14, <2>15, WorkerShapes DEF Shapes
<1> QED BY <1>6, <1>7, <1>8, <1>9 DEF Exchange

LEMMA WorkerFollows ==
    ASSUME Tracked, Together', NEW s \in Slots, Worker(s)
    PROVE  Tracked'
BY OpenPortFollows, ClosePortFollows, ExchangeFollows, PollFollows, ReportFollows, EndFollows
   DEF Worker

\* A command that changes the card is only in place where its partition is shown.
LEMMA WritesAreShown ==
    ASSUME Tracked, Strict', Strict, NEW s \in Slots, Worker(s), NEW p \in EmmcPartition,
           card'[p] # card[p]
    PROVE  ui.active_partition = p
<1> DEFINE a == Head(workers[s].rest)
<1>1. ~Faulty
  BY DEF Strict, Faulty
<1>2. workers[s].rest # <<>> /\ a.do \notin Local /\ Obey(a.do, a.arg)
  BY <1>1 DEF Worker, OpenPort, ClosePort, Poll, Report, End, Exchange
<1>3. Shapes /\ Followed
  BY DEF Tracked
<1>4. PICK k : Acts(k, s)
  BY <1>2, <1>3, WhoActs
<1>5. /\ Safe(k, workers[s].rest) /\ OfReader(k) /\ OfPanel(k, Seen) /\ k.strict
  BY <1>4 DEF Acts, Faithful
<1>6. Proper(k, a)
  BY <1>2, <1>5, SafeStep
<1>7. p = fpga.part /\ a.do \in {"write", "erase", "secure_erase"}
  <2> HIDE DEF a
  <2>1. DOMAIN card = EmmcPartition
    BY <1>3 DEF Shapes
  <2> QED BY <1>2, <2>1, ObeyCard
<1>8. k.spart = k.part
  BY <1>5, <1>6, <1>7 DEF Proper
<1>9. Seen.active_partition = ui.active_partition
  BY <1>3, HeededKeeps DEF Seen, Shapes
<1> QED BY <1>5, <1>7, <1>8, <1>9 DEF OfReader, OfPanel

-----------------------------------------------------------------------------
(* The GUI thread.  Either it looks elsewhere, and shows no more than before, *)
(* or it starts a thread while nothing else is running.                       *)

\* What a button leaves alone.
Aside ==
    /\ UNCHANGED <<channel, fpga, card>>
    /\ DOMAIN user' = DOMAIN user /\ user'.profiles = user.profiles

LEMMA LookFollows ==
    ASSUME Tracked, Aside, UNCHANGED <<workers, idle>>, upset \subseteq upset',
           Below(ui', ui), Requested(ui')
    PROVE  Tracked'
<1>1. Shapes /\ Followed
  BY DEF Tracked
<1>2. Shapes'
  BY <1>1 DEF Shapes, Aside, Below
<1>3. Below(Seen', Seen)
  <2>1. channel' = channel
    BY DEF Aside
  <2> QED BY <1>1, <2>1, HeededBelow DEF Shapes, Seen
<1>4. PICK w, k : Running(w) /\ Faithful(k, w)
  BY <1>1 DEF Followed
<1>5. Running(w)'
  BY <1>4 DEF Running, Alive
<1>6. Faithful(k, w)'
  <2>1. OfThread(k, w)' /\ OfReader(k)'
    BY <1>4 DEF Faithful, OfThread, OfReader, Aside
  <2>2. OfPanel(k, Seen)'
    BY <1>3, <1>4 DEF Faithful, OfPanel, Below
  <2>3. (Strict => k.strict)'
    BY <1>4 DEF Faithful, Strict
  <2>4. Safe(k, w.rest)
    BY <1>4 DEF Faithful
  <2> QED BY <2>1, <2>2, <2>3, <2>4 DEF Faithful
<1> QED BY <1>2, <1>5, <1>6 DEF Tracked, Followed

\* While nothing is running, all is over.
LEMMA QuietOutlook ==
    ASSUME Tracked, Quiescent
    PROVE  /\ Seen = ui
           /\ \E k : /\ Over(k) /\ k.open = FALSE /\ k.baud = 0 /\ ~k.polled
                     /\ OfReader(k) /\ OfPanel(k, ui) /\ (Strict => k.strict)
<1>1. channel = <<>> /\ \A s \in Slots : ~Alive(s)
  BY DEF Quiescent
<1>2. Seen = ui
  BY <1>1, HeededNothing DEF Seen
<1>3. PICK w, k : Running(w) /\ Faithful(k, w)
  BY DEF Tracked, Followed
<1>4. w.rest = <<>>
  BY <1>1, <1>3 DEF Running, NoThread, Alive
<1>5. Over(k)
  BY <1>3, <1>4, SafeStep DEF Faithful
<1>6. OfReader(k) /\ OfPanel(k, ui) /\ (Strict => k.strict)
  BY <1>2, <1>3 DEF Faithful
<1>7. Left(k).open = FALSE /\ Left(k).baud = 0 /\ ~Left(k).polled
  BY <1>5 DEF Left, Over, Sound, Outlook, OutlookFields
<1>8. Over(Left(k)) /\ OfReader(Left(k)) /\ OfPanel(Left(k), ui) /\ (Strict => Left(k).strict)
  BY <1>5, <1>6, LeftIsSafe
<1> QED BY <1>2, <1>7, <1>8

LEMMA StartFollows ==
    ASSUME Tracked, Together', Aside, idle' \in Nat,
           NEW script, NEW op, NEW causes, Spawn(script, op, causes),
           DOMAIN ui' = UiFields, ui'.use_fifo = ui.use_fifo, Requested(ui'),
           NEW k, Safe(k, script), k.open = FALSE, k.baud = 0, ~k.polled,
           OfReader(k)', OfPanel(k, ui)', Strict' => k.strict
    PROVE  Tracked'
<1>1. Quiescent
  BY DEF Spawn, Together, Apart
<1>2. channel = <<>> /\ \A s \in Slots : ~Alive(s)
  BY <1>1 DEF Quiescent
<1> DEFINE s == CHOOSE t \in Slots : ~Alive(t)
           w == [NoThread EXCEPT !.rest = script, !.op = op]
<1>3. s \in Slots /\ workers' = [workers EXCEPT ![s] = w]
  BY DEF Spawn
<1>4. DOMAIN w = Fields /\ w.rest = script /\ w.open = FALSE /\ w.baud = 0
  BY DEF NoThread, Fields
<1> HIDE DEF s, w
<1>5. Shapes
  BY DEF Tracked
<1>6. /\ DOMAIN workers' = Slots /\ workers'[s] = w
      /\ \A t \in Slots : t # s => workers'[t] = workers[t]
  BY <1>3, <1>5 DEF Shapes
<1>7. Shapes'
  <2>1. \A t \in Slots : DOMAIN workers'[t] = Fields
    BY <1>4, <1>5, <1>6 DEF Shapes
  <2> QED BY <1>5, <1>6, <2>1 DEF Shapes, Aside
<1>8. PICK v : v = w
  OBVIOUS
<1>9. Running(v)'
  <2>1. \A t \in Slots : t # s => ~Alive(t)'
    BY <1>2, <1>6 DEF Alive
  <2>2. PICK z \in Slots : z = s
    BY <1>3
  <2> QED BY <1>6, <1>8, <2>1, <2>2 DEF Running
<1>10. Seen' = ui'
  <2>1. channel' = <<>>
    BY <1>2 DEF Aside
  <2> QED BY <2>1, HeededNothing DEF Seen
<1>11. Faithful(k, v)'
  <2>1. OfThread(k, v)'
    BY <1>4, <1>8 DEF OfThread
  <2>2. OfPanel(k, Seen)'
    BY <1>10 DEF OfPanel
  <2>3. Safe(k, v.rest)
    BY <1>4, <1>8
  <2> QED BY <2>1, <2>2, <2>3 DEF Faithful
<1> QED BY <1>7, <1>9, <1>11 DEF Tracked, Followed

\* The outlook of an operation that is started; the panel may show another partition.
Ready(k, u) ==
    /\ Outlook(k) /\ ~k.waiting /\ RateShown(k) /\ ~k.open
    /\ k.strict => k.sclk = k.clk /\ k.swidth = k.width
    /\ k.fifo = ui.use_fifo /\ k.sbaud = ui.selected_baud /\ (ui.connected => k.conn)
    /\ k.spart = u.active_partition
    /\ k.clk = fpga.clk /\ k.rate = fpga.baud
    /\ u.active_partition = ui.active_partition => SettingShown(k)

LEMMA ReadySound ==
    ASSUME NEW k, NEW u, Ready(k, u), u.active_partition = ui.active_partition
    PROVE  Sound(k)
BY DEF Ready, Sound

\* The GUI's state but for what it shows besides the settings.
SameShown(u) ==
    /\ DOMAIN u = UiFields
    /\ u.use_fifo = ui.use_fifo /\ u.selected_baud = ui.selected_baud
    /\ u.baud_preset = ui.baud_preset /\ u.clk_preset = ui.clk_preset
    /\ u.bus_width = ui.bus_width /\ u.connected = ui.connected
    /\ u.keepalive_pending = ui.keepalive_pending

LEMMA LaunchFollows ==
    ASSUME Tracked, Together', Aside, UNCHANGED idle, NEW u, SameShown(u), Requested(u),
           NEW script, NEW causes, Spawn(script, TRUE, causes), ui' = set_running(u),
           \A k : Ready(k, u) /\ (k.strict => Strict') => Safe(k, script)
    PROVE  Tracked'
<1>1. Quiescent /\ upset \subseteq upset'
  BY DEF Spawn, Together, Apart
<1>2. Shapes
  BY DEF Tracked
<1>3. PICK k : /\ Over(k) /\ k.open = FALSE /\ k.baud = 0 /\ ~k.polled
               /\ OfReader(k) /\ OfPanel(k, ui) /\ (Strict => k.strict)
  BY <1>1, QuietOutlook
<1>4. PICK part, strict : part = u.active_partition /\ strict = Strict'
  OBVIOUS
<1> DEFINE g == [k EXCEPT !.open = FALSE, !.polled = FALSE, !.busy = TRUE, !.strict = strict,
                          !.spart = part]
<1>5. DOMAIN k = OutlookFields /\ k.rate \in UartRates
  BY <1>3 DEF Over, Sound, Outlook
<1>6. /\ DOMAIN g = OutlookFields /\ g.open = FALSE /\ g.baud = k.baud /\ g.polled = FALSE
      /\ g.rate = k.rate /\ g.clk = k.clk /\ g.width = k.width /\ g.part = k.part
      /\ g.kept = k.kept /\ g.fifo = k.fifo /\ g.conn = k.conn /\ g.sbaud = k.sbaud
      /\ g.spreset = k.spreset /\ g.sclk = k.sclk /\ g.swidth = k.swidth /\ g.spart = part
      /\ g.busy = TRUE /\ g.waiting = k.waiting /\ g.strict = strict
  BY <1>5 DEF OutlookFields
<1> HIDE DEF g
<1>7. Strict' => Strict
  BY <1>1 DEF Strict
<1>8. Outlook(g) /\ ~g.waiting /\ RateShown(g)
  BY <1>3, <1>5, <1>6 DEF Over, Sound, Outlook, RateShown
<1>9. g.strict => k.strict /\ k.sclk = k.clk /\ k.swidth = k.width /\ k.spart = k.part
  BY <1>3, <1>4, <1>6, <1>7 DEF Over, Sound, SettingShown
<1>10. Ready(g, u)
  <2>1. u.active_partition = ui.active_partition => SettingShown(g)
    BY <1>3, <1>4, <1>6, <1>9 DEF SettingShown, OfPanel
  <2> QED BY <1>3, <1>4, <1>6, <1>8, <1>9, <2>1 DEF Ready, OfPanel, OfReader
<1>11. Safe(g, script)
  BY <1>4, <1>6, <1>10
<1>12. /\ DOMAIN ui' = UiFields /\ ui'.use_fifo = ui.use_fifo
       /\ ui'.selected_baud = ui.selected_baud
       /\ ui'.baud_preset = ui.baud_preset /\ ui'.clk_preset = ui.clk_preset
       /\ ui'.bus_width = ui.bus_width /\ ui'.connected = ui.connected
       /\ ui'.active_partition = part /\ ui'.keepalive_pending = ui.keepalive_pending
       /\ ui'.dialog = u.dialog /\ ui'.pending = u.pending /\ ui'.picker = u.picker
  BY <1>4, UiFieldNames DEF SameShown, set_running
<1>13. Requested(ui')
  BY <1>12 DEF Requested
<1>14. OfReader(g)'
  <2>1. fpga' = fpga /\ idle' = idle
    BY DEF Aside
  <2>2. g.strict => k.strict
    BY <1>9
  <2> QED BY <1>3, <1>6, <2>1, <2>2 DEF OfReader
<1>15. OfPanel(g, ui)'
  BY <1>3, <1>6, <1>12 DEF OfPanel
<1>16. idle' \in Nat
  BY <1>2 DEF Shapes
<1> QED BY <1>3, <1>4, <1>6, <1>11, <1>12, <1>13, <1>14, <1>15, <1>16, StartFollows

\* Most operations do not touch the settings.
LEMMA CalmLaunchFollows ==
    ASSUME Tracked, Together', Aside, UNCHANGED idle, NEW u, SameShown(u), Requested(u),
           u.active_partition = ui.active_partition,
           NEW script, NEW causes, Spawn(script, TRUE, causes), ui' = set_running(u),
           Calmly(TRUE, script)
    PROVE  Tracked'
<1>1. \A k : Ready(k, u) => Safe(k, script)
  BY ReadySound DEF Calmly
<1> QED BY <1>1, LaunchFollows

-----------------------------------------------------------------------------
(* The panels. *)

LEMMA ClickIsAside ==
    ASSUME Tracked, NEW button, Click(button)
    PROVE  Aside /\ UNCHANGED idle /\ ui.picker = None /\ ui.pending = None
<1>1. DOMAIN user = {"buttons", "profiles", "clicks", "faults"}
  BY DEF Tracked, Shapes
<1>2. user' = [user EXCEPT !.clicks = @ - 1] /\ UNCHANGED <<channel, fpga, card, idle>>
  BY DEF Click
<1> QED BY <1>1, <1>2 DEF Aside, Click, Responsive

\* What is asked, requested or picked.
LEMMA ChoiceFollows ==
    ASSUME Tracked, Aside, UNCHANGED idle, NEW action, Valid(action),
           action.name = "ask" => Valid(action.action),
           Asks(action) \/ Requests(action) \/ Picks(action)
    PROVE  Tracked'
<1>1. DOMAIN ui = UiFields /\ Requested(ui)
  BY DEF Tracked, Shapes
<1>2. UNCHANGED <<workers, upset>>
  BY DEF Asks, Requests, Picks, Sets
<1>3. CASE Asks(action)
  <2>1. ui' = [ui EXCEPT !.dialog = action]
    BY <1>3 DEF Asks, Sets
  <2>2. Below(ui', ui) /\ Requested(ui')
    BY <1>1, <2>1, UiFieldNames DEF Below, Requested
  <2> QED BY <1>2, <2>2, LookFollows
<1>4. CASE Requests(action)
  <2>1. ui' = [ui EXCEPT !.pending = action]
    BY <1>4 DEF Requests, Sets
  <2>2. Below(ui', ui) /\ Requested(ui')
    BY <1>1, <2>1, UiFieldNames DEF Below, Requested
  <2> QED BY <1>2, <2>2, LookFollows
<1>5. CASE Picks(action)
  <2>1. ui' = [ui EXCEPT !.picker = action, !.waited = 0]
    BY <1>5 DEF Picks, Sets
  <2>2. Below(ui', ui) /\ Requested(ui')
    BY <1>1, <2>1, UiFieldNames DEF Below, Requested
  <2> QED BY <1>2, <2>2, LookFollows
<1> QED BY <1>3, <1>4, <1>5

LEMMA ShownHere ==
    ASSUME Tracked
    PROVE  SameShown(ui) /\ Requested(ui) /\ DOMAIN ui = UiFields
BY DEF Tracked, Shapes, SameShown

LEMMA RefreshFollows ==
    ASSUME Tracked, Together', Refresh
    PROVE  Tracked'
<1>1. Aside /\ UNCHANGED idle /\ UNCHANGED ui /\ Spawn(scan_ports, FALSE, {})
  BY ClickIsAside DEF Refresh
<1>2. Quiescent /\ upset \subseteq upset'
  BY <1>1 DEF Spawn, Together, Apart
<1>3. PICK k : /\ Over(k) /\ k.open = FALSE /\ k.baud = 0 /\ ~k.polled
               /\ OfReader(k) /\ OfPanel(k, ui) /\ (Strict => k.strict)
  BY <1>2, QuietOutlook
<1>4. Safe(k, scan_ports)
  BY <1>3, CalmScan DEF Calmly, Over
<1>5. OfReader(k)' /\ OfPanel(k, ui)' /\ (Strict' => k.strict)
  BY <1>1, <1>2, <1>3 DEF OfReader, OfPanel, Strict, Aside
<1>6. idle' \in Nat /\ DOMAIN ui' = UiFields /\ ui'.use_fifo = ui.use_fifo /\ Requested(ui')
  BY <1>1 DEF Tracked, Shapes
<1> QED BY <1>1, <1>3, <1>4, <1>5, <1>6, StartFollows

LEMMA ConnectFollows ==
    ASSUME Tracked, Together', Connect
    PROVE  Tracked'
<1>1. PICK profile \in user.profiles :
        Spawn(connect(ui.use_fifo, DefaultBaud, profile), TRUE,
              IF Fresh THEN {} ELSE {"reconnect"})
  BY DEF Connect
<1>2. Aside /\ UNCHANGED idle /\ ui' = set_running(ui)
  BY ClickIsAside DEF Connect
<1>3. profile \in SpeedProfile
  BY DEF Tracked, Shapes
<1>4. Strict' => Fresh
  BY <1>1 DEF Spawn, Strict
<1>5. ASSUME NEW k, Ready(k, ui), k.strict => Strict'
      PROVE  Safe(k, connect(ui.use_fifo, DefaultBaud, profile))
  <2>1. Sound(k) /\ ~k.open /\ k.fifo = ui.use_fifo
    BY <1>5, ReadySound DEF Ready
  <2>2. k.strict => k.clk = 0 /\ k.rate = DefaultBaud
    BY <1>4, <1>5 DEF Fresh, Ready
  <2>3. CASE ui.use_fifo
    <3>1. Safe(k, ConnectFifo(profile))
      BY <1>3, <2>1, <2>2, <2>3, SafeConnectFifo
    <3> QED BY <2>3, <3>1 DEF connect
  <2>4. CASE ~ui.use_fifo
    <3>1. Safe(k, ConnectUart(DefaultBaud, profile))
      BY <1>3, <2>1, <2>2, <2>4, SafeConnectUart
    <3> QED BY <2>4, <3>1 DEF connect
  <2> QED BY <2>3, <2>4
<1> QED BY <1>1, <1>2, <1>5, ShownHere, LaunchFollows

LEMMA PartitionFollows ==
    ASSUME Tracked, Together', Aside, UNCHANGED idle, NEW u, SameShown(u), Requested(u),
           NEW causes, Spawn(set_partition(baud, u.active_partition), TRUE, causes),
           ui' = set_running(u), Strict' => ui.connected
    PROVE  Tracked'
<1>1. ASSUME NEW k, Ready(k, u), k.strict => Strict'
      PROVE  Safe(k, set_partition(baud, u.active_partition))
  <2>1. /\ Outlook(k) /\ ~k.waiting /\ RateShown(k) /\ ~k.open
        /\ k.strict => k.conn /\ k.sclk = k.clk /\ k.swidth = k.width
        /\ k.spart = u.active_partition
    BY <1>1 DEF Ready
  <2>2. baud = IF k.fifo THEN 0 ELSE k.sbaud
    BY <1>1 DEF Ready, baud
  <2> QED BY <2>1, <2>2, SafePartition
<1> QED BY <1>1, LaunchFollows

LEMMA ConnectionFollows ==
    ASSUME Tracked, Together',
           \/ Refresh \/ ToggleFifo \/ Connect \/ Disconnect \/ SelectPartition
           \/ SpeedControl \/ Cancel \/ QuickActions \/ RawCommand
    PROVE  Tracked'
<1>1. DOMAIN ui = UiFields /\ Requested(ui) /\ SameShown(ui)
  BY ShownHere
<1>2. Aside /\ UNCHANGED idle
  BY ClickIsAside
     DEF Refresh, ToggleFifo, Connect, Disconnect, SelectPartition, SpeedControl, Cancel,
         QuickActions, RawCommand, Enabled
<1>3. ~ToggleFifo
  BY DEF ToggleFifo, Together, Apart
<1>4. CASE Disconnect
  <2>1. /\ ui' = set_completed([ui EXCEPT !.connected = FALSE, !.sized = FALSE, !.table = FALSE,
                                          !.ext4 = FALSE])
        /\ UNCHANGED <<workers, upset>>
    BY <1>4 DEF Disconnect, Sets
  <2>2. Below(ui', ui) /\ Requested(ui')
    BY <1>1, <2>1, UiFieldNames DEF Below, Requested, set_completed
  <2> QED BY <1>2, <2>1, <2>2, LookFollows
<1>5. CASE SelectPartition
  <2>1. CASE Asks([name |-> "set_partition_rpmb"])
    <3>1. Valid([name |-> "set_partition_rpmb"])
      BY DEF Valid
    <3> QED BY <1>2, <2>1, <3>1, ChoiceFollows
  <2>2. CASE \E part \in EmmcPartition \ {"RPMB"} :
               Enabled("partition") /\ Launches(ShowPartition(part), set_partition(baud, part))
    <3>1. PICK part : Enabled("partition") /\ Launches(ShowPartition(part), set_partition(baud, part))
      BY <2>2
    <3>2. PICK u : u = ShowPartition(part)
      OBVIOUS
    <3>3. SameShown(u) /\ Requested(u) /\ u.active_partition = part
      BY <1>1, <3>2, UiFieldNames DEF SameShown, Requested, ShowPartition
    <3>4. ui.connected /\ Spawn(set_partition(baud, u.active_partition), TRUE, {})
          /\ ui' = set_running(u)
      BY <3>1, <3>2, <3>3 DEF Enabled, Launches
    <3> QED BY <1>2, <3>3, <3>4, PartitionFollows
  <2> QED BY <1>5, <2>1, <2>2 DEF SelectPartition
<1>6. CASE SpeedControl \/ QuickActions \/ RawCommand
  <2>1. ASSUME NEW action, action.name \in {"set_clock", "set_bus_width", "controller_status",
                                            "card_status", "reinit", "raw_cmd"}
        PROVE  Valid(action) /\ action.name # "ask"
    BY <2>1 DEF Valid
  <2>2. CASE \E p : Requests([name |-> "set_clock", preset |-> p])
    BY <1>2, <2>1, <2>2, ChoiceFollows
  <2>3. CASE \E p \in Presets : Requests([name |-> "set_baud", preset |-> p])
    BY <1>2, <2>3, ChoiceFollows DEF Valid
  <2>4. CASE \E w : Requests([name |-> "set_bus_width", width |-> w])
    BY <1>2, <2>1, <2>4, ChoiceFollows
  <2>5. CASE \E name \in {"controller_status", "card_status", "reinit", "raw_cmd"} :
                Requests([name |-> name])
    BY <1>2, <2>1, <2>5, ChoiceFollows
  <2> QED BY <1>6, <2>2, <2>3, <2>4, <2>5 DEF SpeedControl, QuickActions, RawCommand
<1>7. CASE Cancel
  <2>1. ui' = [ui EXCEPT !.cancel = TRUE] /\ UNCHANGED <<workers, upset>>
    BY <1>7 DEF Cancel, Sets
  <2>2. Below(ui', ui) /\ Requested(ui')
    BY <1>1, <2>1, UiFieldNames DEF Below, Requested
  <2> QED BY <1>2, <2>1, <2>2, LookFollows
<1> QED BY <1>3, <1>4, <1>5, <1>6, <1>7, RefreshFollows, ConnectFollows

-----------------------------------------------------------------------------
LEMMA EasyLaunchFollows ==
    ASSUME Tracked, Together', Aside, UNCHANGED idle, NEW u, SameShown(u), Requested(u),
           u.active_partition = ui.active_partition,
           NEW script, Launches(u, script), Calmly(TRUE, script)
    PROVE  Tracked'
<1>1. Spawn(script, TRUE, {}) /\ ui' = set_running(u)
  BY DEF Launches
<1> QED BY <1>1, CalmLaunchFollows

\* A file that is picked for an action other than a change of the rate.
LEMMA PickToAskFollows ==
    ASSUME Tracked, Aside, UNCHANGED idle, NEW action, action.name # "set_baud",
           Picks([name |-> "ask", action |-> action])
    PROVE  Tracked'
<1> DEFINE choice == [name |-> "ask", action |-> action]
<1>1. choice.name # "set_baud" /\ choice.action = action
  OBVIOUS
<1>2. Picks(choice)
  OBVIOUS
<1> HIDE DEF choice
<1>3. Valid(choice) /\ Valid(choice.action)
  BY <1>1 DEF Valid
<1> QED BY <1>2, <1>3, ChoiceFollows

\* What else is asked, requested or picked.
LEMMA PlainChoiceFollows ==
    ASSUME Tracked, Aside, UNCHANGED idle, NEW action, action.name \notin {"set_baud", "ask"},
           Asks(action) \/ Requests(action) \/ Picks(action)
    PROVE  Tracked'
<1>1. Valid(action)
  BY DEF Valid
<1> QED BY <1>1, ChoiceFollows

LEMMA SectorPanelFollows ==
    ASSUME Tracked, Together',
           \/ Read \/ WriteFromFile \/ Erase \/ WriteExtCsd \/ VerifyVsFile
           \/ DumpToFile \/ RestoreFromFile \/ ReadExtCsd
    PROVE  Tracked'
<1>1. Aside /\ UNCHANGED idle
  BY ClickIsAside
     DEF Read, WriteFromFile, Erase, WriteExtCsd, VerifyVsFile, DumpToFile, RestoreFromFile,
         ReadExtCsd, Enabled
<1>2. SameShown(ui) /\ Requested(ui)
  BY ShownHere
<1>3. CASE Read
  <2>1. PICK l \in Lbas : Launches(ui, read_sectors(baud, l))
    BY <1>3 DEF Read
  <2>2. Calmly(TRUE, read_sectors(baud, l))
    BY CalmCardOperations
  <2> QED BY <1>1, <1>2, <2>1, <2>2, EasyLaunchFollows
<1>4. CASE WriteFromFile \/ RestoreFromFile
  <2>1. CASE \E l : Picks([name |-> "ask", action |-> [name |-> "write_sectors", lba |-> l]])
    BY <1>1, <2>1, PickToAskFollows
  <2>2. CASE Picks([name |-> "ask", action |-> [name |-> "restore"]])
    BY <1>1, <2>2, PickToAskFollows
  <2> QED BY <1>4, <2>1, <2>2 DEF WriteFromFile, RestoreFromFile
<1>5. CASE Erase \/ WriteExtCsd
  <2>1. CASE \E name \in {"erase", "secure_erase"}, l \in Lbas :
                Asks([name |-> name, lba |-> l])
    BY <1>1, <2>1, PlainChoiceFollows
  <2>2. CASE Asks([name |-> "cache_flush"])
    BY <1>1, <2>2, PlainChoiceFollows
  <2>3. CASE \E index, value :
               Asks([name |-> "write_extcsd", index |-> index, value |-> value])
    BY <1>1, <2>3, PlainChoiceFollows
  <2> QED BY <1>5, <2>1, <2>2, <2>3 DEF Erase, WriteExtCsd
<1>6. CASE VerifyVsFile \/ DumpToFile
  <2>1. CASE \E l : Picks([name |-> "verify", lba |-> l])
    BY <1>1, <2>1, PlainChoiceFollows
  <2>2. CASE Picks([name |-> "dump"])
    BY <1>1, <2>2, PlainChoiceFollows
  <2> QED BY <1>6, <2>1, <2>2 DEF VerifyVsFile, DumpToFile
<1>7. CASE ReadExtCsd
  <2>1. Launches(ui, read_ext_csd(baud))
    BY <1>7 DEF ReadExtCsd
  <2>2. Calmly(TRUE, read_ext_csd(baud))
    BY CalmCardOperations
  <2> QED BY <1>1, <1>2, <2>1, <2>2, EasyLaunchFollows
<1> QED BY <1>3, <1>4, <1>5, <1>6, <1>7

LEMMA FilePanelsFollow ==
    ASSUME Tracked, Together',
           \/ ReadPartitions \/ DumpPartition \/ Browse \/ LoadFs \/ navigate_ext4
           \/ read_ext4_file \/ OverwriteFile \/ CreateFile
    PROVE  Tracked'
<1>1. Aside /\ UNCHANGED idle
  BY ClickIsAside
     DEF ReadPartitions, DumpPartition, Browse, LoadFs, navigate_ext4, read_ext4_file,
         OverwriteFile, CreateFile, Enabled
<1>2. SameShown(ui) /\ Requested(ui) /\ DOMAIN ui = UiFields
  BY ShownHere
<1>3. CASE ReadPartitions
  <2>1. Launches(ui, read_partitions(baud))
    BY <1>3 DEF ReadPartitions
  <2>2. Calmly(TRUE, read_partitions(baud))
    BY CalmCardOperations
  <2> QED BY <1>1, <1>2, <2>1, <2>2, EasyLaunchFollows
<1>4. CASE Browse \/ LoadFs
  <2>1. PICK l \in Lbas : Launches(ui, ext4_load(baud, l))
    BY <1>4 DEF Browse, LoadFs
  <2>2. Calmly(TRUE, ext4_load(baud, l))
    BY CalmExt4
  <2> QED BY <1>1, <1>2, <2>1, <2>2, EasyLaunchFollows
<1>5. CASE navigate_ext4
  <2>1. PICK u : u = [ui EXCEPT !.preview = FALSE]
    OBVIOUS
  <2>2. Launches(u, ext4_ls(baud, NoData[2]))
    BY <1>5, <2>1 DEF navigate_ext4
  <2>3. Calmly(TRUE, ext4_ls(baud, NoData[2]))
    BY CalmExt4
  <2>4. SameShown(u) /\ Requested(u) /\ u.active_partition = ui.active_partition
    BY <1>2, <2>1, UiFieldNames DEF SameShown, Requested
  <2> QED BY <1>1, <2>2, <2>3, <2>4, EasyLaunchFollows
<1>6. CASE read_ext4_file
  <2>1. Launches(ui, ext4_cat(baud, NoData[2]))
    BY <1>6 DEF read_ext4_file
  <2>2. Calmly(TRUE, ext4_cat(baud, NoData[2]))
    BY CalmExt4
  <2> QED BY <1>1, <1>2, <2>1, <2>2, EasyLaunchFollows
<1>7. CASE OverwriteFile
  <2>1. Picks([name |-> "ask", action |-> [name |-> "ext4_write"]])
    BY <1>7 DEF OverwriteFile
  <2> QED BY <1>1, <2>1, PickToAskFollows
<1>8. CASE DumpPartition
  <2>1. Picks([name |-> "dump_partition"])
    BY <1>8 DEF DumpPartition
  <2> QED BY <1>1, <2>1, PlainChoiceFollows
<1>9. CASE CreateFile
  <2>1. CASE Picks([name |-> "create"])
    BY <1>1, <2>1, PlainChoiceFollows
  <2>2. CASE Launches(ui, ext4_create(baud, NoData[2], NoData))
    <3>1. Calmly(TRUE, ext4_create(baud, NoData[2], NoData))
      BY CalmExt4
    <3> QED BY <1>1, <1>2, <2>2, <3>1, EasyLaunchFollows
  <2> QED BY <1>9, <2>1, <2>2 DEF CreateFile
<1> QED BY <1>3, <1>4, <1>5, <1>6, <1>7, <1>8, <1>9

LEMMA EditorPanelFollows ==
    ASSUME Tracked, Together',
           \/ OpenSectors \/ OpenFile \/ HexLoad \/ HexEdit \/ HexWriteBack \/ HexDiscard
           \/ HexSave \/ ConfirmDialog
    PROVE  Tracked'
<1>1. Aside /\ UNCHANGED idle
  <2>1. CASE ConfirmDialog
    BY <2>1 DEF ConfirmDialog, Aside
  <2> QED BY <2>1, ClickIsAside
          DEF OpenSectors, OpenFile, HexLoad, HexEdit, HexWriteBack, HexDiscard, HexSave, Enabled
<1>2. SameShown(ui) /\ Requested(ui) /\ DOMAIN ui = UiFields
  BY ShownHere
<1>3. CASE OpenSectors \/ OpenFile
  <2>1. PICK data, source : OpenInHex(data, source)
    BY <1>3 DEF OpenSectors, OpenFile
  <2>2. /\ ui' = [ui EXCEPT !.hex = data, !.hex_source = source, !.hex_modified = FALSE]
        /\ UNCHANGED workers /\ upset \subseteq upset'
    BY <2>1 DEF OpenInHex
  <2>3. Below(ui', ui) /\ Requested(ui')
    BY <1>2, <2>2, UiFieldNames DEF Below, Requested
  <2> QED BY <1>1, <2>2, <2>3, LookFollows
<1>4. CASE HexLoad
  <2>1. PICK l \in Lbas :
          /\ Spawn(read_sectors(baud, l), TRUE, IF ui.hex_source = {l} THEN {} ELSE {"moved"})
          /\ ui' = set_running([ui EXCEPT !.hex_source = {l}])
    BY <1>4 DEF HexLoad
  <2>2. PICK u : u = [ui EXCEPT !.hex_source = {l}]
    OBVIOUS
  <2>3. SameShown(u) /\ Requested(u) /\ u.active_partition = ui.active_partition
    BY <1>2, <2>2, UiFieldNames DEF SameShown, Requested
  <2>4. Calmly(TRUE, read_sectors(baud, l))
    BY CalmCardOperations
  <2>5. ui' = set_running(u)
    BY <2>1, <2>2
  <2> QED BY <1>1, <2>1, <2>3, <2>4, <2>5, CalmLaunchFollows
<1>5. CASE HexEdit \/ HexDiscard
  <2>1. UNCHANGED <<workers, upset>>
        /\ \/ ui' = [ui EXCEPT !.hex_modified = TRUE]
           \/ ui' = [ui EXCEPT !.hex_modified = FALSE]
    BY <1>5 DEF HexEdit, HexDiscard, Sets
  <2>2. Below(ui', ui) /\ Requested(ui')
    BY <1>2, <2>1, UiFieldNames DEF Below, Requested
  <2> QED BY <1>1, <2>1, <2>2, LookFollows
<1>6. CASE HexWriteBack
  <2>1. PICK l \in ui.hex_source : Asks([name |-> "hex_write_back", lba |-> l])
    BY <1>6 DEF HexWriteBack
  <2> QED BY <1>1, <2>1, PlainChoiceFollows
<1>7. CASE HexSave
  <2>1. Picks([name |-> "save"])
    BY <1>7 DEF HexSave
  <2> QED BY <1>1, <2>1, PlainChoiceFollows
<1>8. CASE ConfirmDialog
  <2>1. PICK confirmed \in BOOLEAN :
          ui' = [ui EXCEPT !.dialog = None, !.pending = IF confirmed THEN ui.dialog ELSE None]
    BY <1>8 DEF ConfirmDialog
  <2>2. UNCHANGED <<workers, upset>>
    BY <1>8 DEF ConfirmDialog
  <2>3. ui'.dialog = None /\ ui'.pending \in {ui.dialog, None} /\ ui'.picker = ui.picker
        /\ Below(ui', ui)
    BY <1>2, <2>1, UiFieldNames DEF Below
  <2>4. Valid(None)
    BY DEF Valid, None
  <2>5. Requested(ui')
    BY <1>2, <2>3, <2>4 DEF Requested
  <2> QED BY <1>1, <2>2, <2>3, <2>5, LookFollows
<1> QED BY <1>3, <1>4, <1>5, <1>6, <1>7, <1>8

LEMMA ClosePickerFollows ==
    ASSUME Tracked, Together', ClosePicker
    PROVE  Tracked'
<1>1. PICK picked : picked = [ui EXCEPT !.picker = None]
  OBVIOUS
<1>2. PICK choice : choice = ui.picker
  OBVIOUS
<1>3. Aside /\ UNCHANGED idle
  BY DEF ClosePicker, Aside
<1>4. Requested(ui) /\ DOMAIN ui = UiFields
  BY ShownHere
<1>5. None.name # "ask"
  BY DEF None
<1>6. /\ SameShown(picked) /\ Requested(picked) /\ Below(picked, ui) /\ DOMAIN picked = UiFields
      /\ picked.active_partition = ui.active_partition
  BY <1>1, <1>4, <1>5, UiFieldNames DEF SameShown, Requested, Below
<1>7. CASE Sets(picked)
  <2>1. ui' = picked /\ UNCHANGED <<workers, upset>>
    BY <1>7 DEF Sets
  <2> QED BY <1>3, <1>6, <2>1, LookFollows
<1>8. CASE choice.name = "ask" /\ Sets([picked EXCEPT !.dialog = choice.action])
  <2>1. ui' = [picked EXCEPT !.dialog = choice.action] /\ UNCHANGED <<workers, upset>>
    BY <1>8 DEF Sets
  <2>2. Valid(choice.action)
    BY <1>2, <1>4, <1>8 DEF Requested
  <2>3. Below(ui', ui) /\ Requested(ui')
    BY <1>6, <2>1, <2>2, UiFieldNames DEF Below, Requested
  <2> QED BY <1>3, <2>1, <2>3, LookFollows
<1>9. CASE Launches(picked, verify_sectors(baud, choice.lba))
  <2>1. Calmly(TRUE, verify_sectors(baud, choice.lba))
    BY CalmDump
  <2> QED BY <1>3, <1>6, <1>9, <2>1, EasyLaunchFollows
<1>10. CASE Launches(picked, ext4_create(baud, NoData[2], FileData(NoData[2])))
  <2>1. Calmly(TRUE, ext4_create(baud, NoData[2], FileData(NoData[2])))
    BY CalmExt4
  <2> QED BY <1>3, <1>6, <1>10, <2>1, EasyLaunchFollows
<1>11. CASE \E verify \in BOOLEAN : Launches(picked, dump_to_file(baud, NoData[2], verify))
  <2>1. PICK verify \in BOOLEAN : Launches(picked, dump_to_file(baud, NoData[2], verify))
    BY <1>11
  <2>2. Calmly(TRUE, dump_to_file(baud, NoData[2], verify))
    BY CalmDump
  <2> QED BY <1>3, <1>6, <2>1, <2>2, EasyLaunchFollows
<1> QED BY <1>1, <1>2, <1>7, <1>8, <1>9, <1>10, <1>11 DEF ClosePicker

-----------------------------------------------------------------------------
(* A frame. *)

\* An action whose operation leaves the settings alone.
Calm == {"write_sectors", "restore", "hex_write_back", "erase", "secure_erase", "cache_flush",
         "card_status", "ext4_write"}

LEMMA CalmAction ==
    ASSUME NEW action, action.name \in Calm, NEW script \in Script(action)
    PROVE  Calmly(TRUE, script)
<1>1. CASE action.name = "write_sectors"
  <2>1. \E v \in BOOLEAN : script = write_sectors(baud, action.lba, FileData(action.lba), v)
    BY <1>1 DEF Script
  <2> QED BY <2>1, CalmWrite
<1>2. CASE action.name = "hex_write_back"
  <2>1. \E v \in BOOLEAN : script = write_sectors(baud, action.lba, ui.hex, v)
    BY <1>2 DEF Script
  <2> QED BY <2>1, CalmWrite
<1>3. CASE action.name = "restore"
  <2>1. \E v \in BOOLEAN : script = restore_from_file(baud, NoData[2], FileData(NoData[2]), v)
    BY <1>3 DEF Script
  <2> QED BY <2>1, CalmRestore
<1>4. CASE action.name = "ext4_write"
  <2>1. script = ext4_write(baud, NoData[2], FileData(NoData[2]))
    BY <1>4 DEF Script
  <2> QED BY <2>1, CalmExt4
<1>5. CASE action.name \in {"erase", "secure_erase"}
  <2>1. \E arg : script \in {erase_sectors(baud, arg), secure_erase_sectors(baud, arg)}
    BY <1>5 DEF Script
  <2> QED BY <2>1, CalmCardOperations
<1>6. CASE action.name \in {"cache_flush", "card_status"}
  <2>1. script \in {cache_flush(baud), get_card_status(baud)}
    BY <1>6 DEF Script
  <2> QED BY <2>1, CalmCardOperations
<1> QED BY <1>1, <1>2, <1>3, <1>4, <1>5, <1>6 DEF Calm

\* The change of a setting, other than of the partition.
LEMMA SettingAction ==
    ASSUME NEW action, action.name \notin Calm, action.name # "set_partition_rpmb",
           Valid(action), NEW script \in Script(action), NEW k, Sound(k),
           action.name = "reinit" => ~k.strict,
           action.name = "write_extcsd" /\ action.index \in {179, 183} => ~k.strict
    PROVE  Safe(k, script)
<1>1. CASE action.name = "set_clock"
  <2>1. script = set_clk_speed(baud, action.preset)
    BY <1>1 DEF Script
  <2> QED BY <2>1, SafeSettings
<1>2. CASE action.name = "set_bus_width"
  <2>1. script = set_bus_width(baud, action.width)
    BY <1>2 DEF Script
  <2> QED BY <2>1, SafeSettings
<1>3. CASE action.name = "set_baud"
  <2>1. script = set_baud(baud, action.preset) /\ action.preset \in Presets
    BY <1>3 DEF Script, Valid
  <2> QED BY <2>1, SafeBaud
<1>4. CASE action.name = "controller_status"
  <2>1. script = get_controller_status(baud)
    BY <1>4 DEF Script
  <2> QED BY <2>1, SafeSettings
<1>5. CASE action.name = "reinit"
  <2>1. script = reinit(baud)
    BY <1>5 DEF Script
  <2> QED BY <1>5, <2>1, SafeSettings
<1>6. CASE action.name = "write_extcsd"
  <2>1. script = write_ext_csd(baud, action.index, action.value)
    BY <1>6 DEF Script
  <2>2. CASE action.index \in {179, 183}
    BY <1>6, <2>1, <2>2, SafeSettings
  <2>3. CASE action.index \notin {179, 183}
    BY <2>1, <2>3, CalmCardOperations DEF Calmly
  <2> QED BY <2>2, <2>3
<1>7. action.name \in {"set_clock", "set_bus_width", "set_baud", "controller_status", "reinit",
                       "write_extcsd"}
  BY DEF Script, Calm
<1> QED BY <1>1, <1>2, <1>3, <1>4, <1>5, <1>6, <1>7

LEMMA DispatchFollows ==
    ASSUME Tracked, Together', dispatch_pending_action
    PROVE  Tracked'
<1>1. PICK action : action = ui.pending
  OBVIOUS
<1>2. PICK taken :
        taken = [ui EXCEPT !.pending = None,
                           !.active_partition = IF action.name = "set_partition_rpmb"
                                                THEN "RPMB" ELSE @]
  OBVIOUS
<1>3. Aside /\ UNCHANGED idle
  BY DEF dispatch_pending_action, Aside
<1>4. Requested(ui) /\ DOMAIN ui = UiFields /\ Valid(action)
  BY <1>1, ShownHere DEF Requested
<1>5. Valid(None)
  BY DEF Valid, None
<1>6. /\ DOMAIN taken = UiFields /\ taken.use_fifo = ui.use_fifo /\ taken.status = ui.status
      /\ taken.selected_baud = ui.selected_baud
      /\ taken.baud_preset = ui.baud_preset /\ taken.clk_preset = ui.clk_preset
      /\ taken.bus_width = ui.bus_width /\ taken.connected = ui.connected
      /\ taken.keepalive_pending = ui.keepalive_pending
      /\ taken.pending = None /\ taken.dialog = ui.dialog /\ taken.picker = ui.picker
      /\ action.name = "set_partition_rpmb" => taken.active_partition = "RPMB"
      /\ action.name # "set_partition_rpmb" => taken.active_partition = ui.active_partition
  BY <1>2, <1>4, UiFieldNames
<1>7. SameShown(taken) /\ Requested(taken)
  BY <1>4, <1>5, <1>6 DEF SameShown, Requested
<1>8. CASE /\ \E script \in Script(action) : Spawn(script, TRUE, CausesOf(action))
           /\ ui' = set_running(taken)
  <2>1. PICK script \in Script(action) : Spawn(script, TRUE, CausesOf(action))
    BY <1>8
  <2>2. CASE action.name \in Calm
    <3>1. Calmly(TRUE, script)
      BY <2>2, CalmAction
    <3>2. taken.active_partition = ui.active_partition
      BY <1>6, <2>2 DEF Calm
    <3> QED BY <1>3, <1>7, <1>8, <2>1, <3>1, <3>2, CalmLaunchFollows
  <2>3. CASE action.name = "set_partition_rpmb"
    <3>1. script = set_partition(baud, taken.active_partition)
      BY <1>6, <2>3 DEF Script
    <3>2. Strict' => ui.connected
      BY <2>1, <2>3 DEF Spawn, CausesOf, Strict
    <3> QED BY <1>3, <1>7, <1>8, <2>1, <3>1, <3>2, PartitionFollows
  <2>4. CASE action.name \notin Calm /\ action.name # "set_partition_rpmb"
    <3>1. /\ action.name = "reinit" => ~Strict'
          /\ action.name = "write_extcsd" /\ action.index \in {179, 183} => ~Strict'
      BY <2>1 DEF Spawn, CausesOf, Strict
    <3>2. taken.active_partition = ui.active_partition
      BY <1>6, <2>4
    <3>3. ASSUME NEW k, Ready(k, taken), k.strict => Strict'
          PROVE  Safe(k, script)
      <4>1. Sound(k)
        BY <3>2, <3>3, ReadySound
      <4> QED BY <1>4, <2>4, <3>1, <3>3, <4>1, SettingAction
    <3> QED BY <1>3, <1>7, <1>8, <2>1, <3>3, LaunchFollows
  <2> QED BY <2>2, <2>3, <2>4
<1>9. CASE Script(action) = {} /\ Sets(taken)
  <2>1. ui' = taken /\ UNCHANGED <<workers, upset>>
    BY <1>9 DEF Sets
  <2>2. action.name # "set_partition_rpmb"
    BY <1>9 DEF Script
  <2>3. Below(ui', ui) /\ Requested(ui')
    BY <1>6, <1>7, <2>1, <2>2 DEF Below
  <2> QED BY <1>3, <2>1, <2>3, LookFollows
<1>10. CASE action.name \in {"write_sectors", "ext4_write"} /\ Sets(set_failed(taken))
  <2>1. ui' = set_failed(taken) /\ UNCHANGED <<workers, upset>>
    BY <1>10 DEF Sets
  <2>2. ui' = [taken EXCEPT !.status = "failed"]
    BY <2>1 DEF set_failed
  <2>3. Below(ui', ui) /\ Requested(ui')
    BY <1>6, <1>7, <1>10, <2>2, UiFieldNames DEF Below, Requested
  <2> QED BY <1>3, <2>1, <2>3, LookFollows
<1> QED BY <1>1, <1>2, <1>8, <1>9, <1>10 DEF dispatch_pending_action

LEMMA UpdateFollows ==
    ASSUME Tracked, Together', update
    PROVE  Tracked'
<1>1. /\ KeepaliveDue /\ Spawn(keepalive_ping(ui.selected_baud), FALSE, {})
      /\ ui' = [ui EXCEPT !.keepalive_pending = TRUE] /\ idle' = 0
      /\ UNCHANGED <<channel, fpga, card, user>>
  BY DEF update
<1>2. Quiescent /\ upset \subseteq upset' /\ Aside
  BY <1>1 DEF Spawn, Together, Apart, Aside
<1>3. PICK k : /\ Over(k) /\ k.open = FALSE /\ k.baud = 0 /\ ~k.polled
               /\ OfReader(k) /\ OfPanel(k, ui) /\ (Strict => k.strict)
  BY <1>2, QuietOutlook
<1>4. Requested(ui) /\ DOMAIN ui = UiFields
  BY ShownHere
<1>5. PICK g : g = [k EXCEPT !.waiting = TRUE, !.kept = FALSE]
  OBVIOUS
<1>6. DOMAIN k = OutlookFields /\ k.rate \in UartRates
  BY <1>3 DEF Over, Sound, Outlook
<1>7. /\ DOMAIN g = OutlookFields /\ g.open = FALSE /\ g.baud = 0 /\ ~g.polled
      /\ g.rate = k.rate /\ g.clk = k.clk /\ g.width = k.width /\ g.part = k.part
      /\ g.kept = FALSE /\ g.fifo = k.fifo /\ g.conn = k.conn /\ g.sbaud = k.sbaud
      /\ g.spreset = k.spreset /\ g.sclk = k.sclk /\ g.swidth = k.swidth /\ g.spart = k.spart
      /\ g.busy = k.busy /\ g.waiting = TRUE /\ g.strict = k.strict
  BY <1>3, <1>5, <1>6 DEF OutlookFields
<1>8. k.conn /\ ~k.fifo
  BY <1>1, <1>3 DEF KeepaliveDue, OfPanel
<1>9. Safe(g, keepalive_ping(ui.selected_baud))
  <2>1. Outlook(g) /\ ~g.fifo /\ ~g.busy /\ SettingShown(g)
    BY <1>3, <1>6, <1>7, <1>8 DEF Over, Sound, Outlook, SettingShown
  <2>2. g.sbaud = g.rate /\ g.spreset \in Presets /\ UART_BAUD_RATES[g.spreset] = g.rate
    BY <1>3, <1>7, <1>8 DEF Over, Sound, RateShown
  <2>3. g.sbaud = ui.selected_baud
    BY <1>3, <1>7 DEF OfPanel
  <2> QED BY <1>7, <2>1, <2>2, <2>3, SafeKeepalive
<1>10. OfReader(g)'
  BY <1>1, <1>3, <1>7 DEF OfReader
<1>11. Requested(ui') /\ DOMAIN ui' = UiFields /\ ui'.use_fifo = ui.use_fifo
  BY <1>1, <1>4, UiFieldNames DEF Requested
<1>12. OfPanel(g, ui)'
  <2>1. /\ ui'.use_fifo = ui.use_fifo /\ ui'.connected = ui.connected /\ ui'.status = ui.status
        /\ ui'.selected_baud = ui.selected_baud /\ ui'.baud_preset = ui.baud_preset
        /\ ui'.clk_preset = ui.clk_preset /\ ui'.bus_width = ui.bus_width
        /\ ui'.active_partition = ui.active_partition
    BY <1>1, <1>4, UiFieldNames
  <2> QED BY <1>3, <1>7, <2>1 DEF OfPanel
<1>13. idle' \in Nat /\ (Strict' => g.strict)
  BY <1>1, <1>2, <1>3, <1>7 DEF Strict
<1> QED BY <1>1, <1>2, <1>7, <1>9, <1>10, <1>11, <1>12, <1>13, StartFollows

LEMMA ProcessMessagesFollows ==
    ASSUME Tracked, Together', process_messages
    PROVE  Tracked'
<1>1. /\ ui' = Seen /\ channel' = <<>> /\ idle' = 0 /\ UNCHANGED <<workers, fpga, card, user>>
      /\ upset \subseteq upset'
  BY SeenIsAfter DEF process_messages
<1>2. Shapes /\ Requested(ui)
  BY DEF Tracked
<1>3. fpga.quiet = 0
  <2>1. ~(fpga.quiet > 0)
    BY DEF process_messages, Together, Apart
  <2> QED BY <1>2, <2>1 DEF Shapes
<1>4. /\ DOMAIN ui' = UiFields /\ ui'.use_fifo = ui.use_fifo
      /\ ui'.dialog = ui.dialog /\ ui'.pending = ui.pending /\ ui'.picker = ui.picker
  BY <1>1, <1>2, HeededKeeps DEF Seen, Shapes
<1>5. Shapes' /\ Requested(ui')
  BY <1>1, <1>2, <1>4, EmptyIsScript DEF Shapes, Requested
<1>6. Seen' = Seen
  BY <1>1, HeededNothing DEF Seen
<1>7. PICK w, k : Running(w) /\ Faithful(k, w)
  BY DEF Tracked, Followed
<1>8. Running(w)'
  BY <1>1, <1>7 DEF Running, Alive
<1>9. Faithful(k, w)'
  <2>1. OfThread(k, w)' /\ OfReader(k)' /\ OfPanel(k, Seen)'
    BY <1>1, <1>3, <1>6, <1>7 DEF Faithful, OfThread, OfReader, OfPanel
  <2>2. (Strict => k.strict)'
    BY <1>1, <1>7 DEF Faithful, Strict
  <2>3. Safe(k, w.rest)
    BY <1>7 DEF Faithful
  <2> QED BY <2>1, <2>2, <2>3 DEF Faithful
<1> QED BY <1>5, <1>8, <1>9 DEF Tracked, Followed

-----------------------------------------------------------------------------
\* Time passes.  The rate stays as long as somebody looks at it: the keepalive is
\* due before the reader's watchdog is.
LEMMA TickFollows ==
    ASSUME Tracked, Together', Tick, KeepaliveAfter < WatchdogAfter
    PROVE  Tracked'
<1>1. /\ Quiescent /\ ui.picker = None /\ ui.pending = None /\ ~KeepaliveDue
      /\ UNCHANGED <<ui, workers, channel, card, user, upset>>
      /\ idle' = CapAt(idle + 1, KeepaliveAfter) /\ fpga' = Watchdog
  BY DEF Tick, Together, Apart
<1>2. Shapes /\ Requested(ui)
  BY DEF Tracked
<1>3. KeepaliveAfter \in Nat /\ WatchdogAfter \in Nat
  BY ReaderAssumption
<1>4. idle \in Nat /\ fpga.quiet \in Nat /\ DOMAIN fpga = FpgaFields
  BY <1>2 DEF Shapes
<1>5. idle' \in Nat /\ (idle < KeepaliveAfter => idle' = idle + 1)
  BY <1>1, <1>3, <1>4 DEF CapAt
<1>6. /\ DOMAIN fpga' = FpgaFields /\ fpga'.quiet \in Nat
      /\ fpga'.clk = fpga.clk /\ fpga'.width = fpga.width /\ fpga'.part = fpga.part
      /\ fpga'.lines = fpga.lines
      /\ fpga'.baud \in {fpga.baud, DefaultBaud}
      /\ fpga.baud = DefaultBaud => fpga'.baud = fpga.baud /\ fpga'.quiet = 0
      /\ fpga.quiet + 1 < WatchdogAfter =>
            fpga'.baud = fpga.baud /\ fpga'.quiet \in {0, fpga.quiet + 1}
  <2>1. CASE fpga.baud = DefaultBaud
    BY <1>1, <1>4, <2>1 DEF Watchdog, FpgaFields
  <2>2. CASE fpga.baud # DefaultBaud /\ fpga.quiet + 1 >= WatchdogAfter
    BY <1>1, <1>3, <1>4, <2>2 DEF Watchdog, FpgaFields
  <2>3. CASE fpga.baud # DefaultBaud /\ ~(fpga.quiet + 1 >= WatchdogAfter)
    BY <1>1, <1>3, <1>4, <2>3 DEF Watchdog, FpgaFields
  <2> QED BY <2>1, <2>2, <2>3
<1>7. Shapes'
  BY <1>1, <1>2, <1>5, <1>6 DEF Shapes
<1>8. PICK k : /\ Over(k) /\ k.open = FALSE /\ k.baud = 0 /\ ~k.polled
               /\ OfReader(k) /\ OfPanel(k, ui) /\ (Strict => k.strict)
  BY <1>1, QuietOutlook
<1>9. DOMAIN k = OutlookFields /\ k.rate \in UartRates
  BY <1>8 DEF Over, Sound, Outlook
<1>10. PICK g : /\ Over(g) /\ g.open = FALSE /\ g.baud = 0 /\ ~g.polled
                /\ OfReader(g)' /\ OfPanel(g, ui) /\ (Strict => g.strict)
  <2>1. CASE fpga.baud = DefaultBaud
    <3>1. OfReader(k)'
      BY <1>5, <1>6, <1>8, <2>1 DEF OfReader
    <3> QED BY <1>8, <3>1
  <2>2. CASE fpga.baud # DefaultBaud /\ ui.connected /\ ~ui.use_fifo
    <3>1. k.conn /\ ~k.fifo /\ ~k.busy /\ ~k.waiting
      BY <1>8, <2>2 DEF OfPanel, Over, Sound
    <3>2. k.kept /\ k.spreset \in Presets /\ UART_BAUD_RATES[k.spreset] = fpga.baud
      BY <1>8, <3>1 DEF Over, Sound, RateShown, OfReader
    <3>3. k.spreset # 0
      BY <2>2, <3>2, Rates
    <3>4. ui.baud_preset > 0 /\ ~is_busy /\ ~ui.keepalive_pending
      BY <1>8, <3>1, <3>2, <3>3 DEF OfPanel, is_busy, Presets
    <3>5. ~(idle >= KeepaliveAfter)
      BY <1>1, <2>2, <3>4 DEF KeepaliveDue
    <3>6. fpga.quiet <= idle
      BY <1>8, <3>2 DEF OfReader
    <3>7. fpga.quiet + 1 < WatchdogAfter /\ idle' = idle + 1
      BY <1>3, <1>4, <1>5, <3>5, <3>6
    <3>8. fpga'.baud = fpga.baud /\ fpga'.quiet <= idle'
      BY <1>4, <1>6, <3>6, <3>7
    <3>9. OfReader(k)'
      BY <1>6, <1>8, <3>8 DEF OfReader
    <3> QED BY <1>8, <3>9
  <2>3. CASE ~(ui.connected /\ ~ui.use_fifo)
    <3>1. PICK connected, rate : connected = ui.connected /\ rate = fpga'.baud
      OBVIOUS
    <3>2. PICK h : h = [k EXCEPT !.conn = connected, !.kept = FALSE, !.rate = rate]
      OBVIOUS
    <3>3. /\ DOMAIN h = OutlookFields /\ h.open = k.open /\ h.baud = k.baud /\ h.polled = k.polled
          /\ h.rate = rate /\ h.clk = k.clk /\ h.width = k.width /\ h.part = k.part
          /\ h.kept = FALSE /\ h.fifo = k.fifo /\ h.conn = connected /\ h.sbaud = k.sbaud
          /\ h.spreset = k.spreset /\ h.sclk = k.sclk /\ h.swidth = k.swidth /\ h.spart = k.spart
          /\ h.busy = k.busy /\ h.waiting = k.waiting /\ h.strict = k.strict
      BY <1>9, <3>2 DEF OutlookFields
    <3>4. rate \in UartRates
      BY <1>6, <1>8, <1>9, <3>1, Rates DEF OfReader
    <3>5. OfPanel(h, ui) /\ OfReader(h)'
      BY <1>6, <1>8, <3>1, <3>3 DEF OfPanel, OfReader
    <3>6. ~(h.conn /\ ~h.fifo)
      BY <2>3, <3>1, <3>3, <3>5 DEF OfPanel
    <3>7. Over(h)
      BY <1>8, <3>3, <3>4, <3>6 DEF Over, Sound, Outlook, RateShown, SettingShown
    <3> QED BY <1>8, <3>3, <3>5, <3>7
  <2> QED BY <2>1, <2>2, <2>3
<1>11. Seen' = ui'
  <2>1. channel' = <<>>
    BY <1>1 DEF Quiescent
  <2> QED BY <2>1, HeededNothing DEF Seen
<1>12. Running(NoThread)'
  BY <1>1 DEF Running, Quiescent, Alive
<1>13. Faithful(g, NoThread)'
  <2>1. OfThread(g, NoThread)' /\ OfPanel(g, Seen)' /\ (Strict => g.strict)'
    BY <1>1, <1>10, <1>11 DEF OfThread, OfPanel, NoThread, Strict
  <2>2. Safe(g, NoThread.rest)
    BY <1>10, SafeEmpty DEF NoThread
  <2> QED BY <1>10, <2>1, <2>2 DEF Faithful
<1> QED BY <1>1, <1>2, <1>7, <1>12, <1>13 DEF Tracked, Followed, Requested

LEMMA NextKeepsShown ==
    ASSUME KeepaliveAfter < WatchdogAfter
    PROVE  ShownInv /\ [Next]_vars => ShownInv'
<1> SUFFICES ASSUME ShownInv, [Next]_vars, Together' PROVE Tracked'
  BY DEF ShownInv
<1>1. Tracked
  BY UpsetStays DEF ShownInv, Together
<1>2. CASE UNCHANGED vars
  BY <1>1, <1>2 DEF vars, Tracked, Shapes, Requested, Followed, Running, Alive, Faithful, OfThread,
                    OfReader, OfPanel, Seen, Strict
<1>3. CASE Panels
  BY <1>1, <1>3, ConnectionFollows, SectorPanelFollows, FilePanelsFollow, EditorPanelFollows
     DEF Panels
<1>4. CASE Frame
  BY <1>1, <1>4, ProcessMessagesFollows, DispatchFollows, UpdateFollows DEF Frame
<1>5. CASE \E s \in Slots : Worker(s)
  BY <1>1, <1>5, WorkerFollows
<1> QED BY <1>1, <1>2, <1>3, <1>4, <1>5, ClosePickerFollows, TickFollows DEF Next

\* Once the cause "moved" is the only one, reader and GUI have never been apart.
LEMMA StrictTogether == Strict => Together
BY DEF Strict, Together, Apart

LEMMA ShownThen == ShownInv => BaudKept /\ SettingsShown
<1>1. ASSUME ShownInv, Settled, ~ui.use_fifo, Together
      PROVE  ui.selected_baud = fpga.baud
  <2>1. PICK k : Over(k) /\ OfReader(k) /\ OfPanel(k, ui)
    BY <1>1, QuietOutlook DEF ShownInv, Settled
  <2> QED BY <1>1, <2>1 DEF Settled, Over, Sound, RateShown, OfReader, OfPanel
<1>2. ASSUME ShownInv, Settled, Strict
      PROVE  /\ ui.clk_preset = fpga.clk /\ ui.active_partition = fpga.part
             /\ ui.bus_width = fpga.width /\ ui.bus_width = fpga.lines
  <2>1. PICK k : Over(k) /\ OfReader(k) /\ OfPanel(k, ui) /\ k.strict
    BY <1>2, QuietOutlook, StrictTogether DEF ShownInv, Settled
  <2> QED BY <2>1 DEF Over, Sound, SettingShown, OfReader, OfPanel
<1> QED BY <1>1, <1>2 DEF BaudKept, SettingsShown, Together, Apart, Strict

\* Only the thread changes the card.
LEMMA OnlyThreadsWrite ==
    [Next]_vars => UNCHANGED card \/ \E s \in Slots : Worker(s)
<1> SUFFICES ASSUME [Next]_vars, ~ \E s \in Slots : Worker(s) PROVE UNCHANGED card
  OBVIOUS
<1>1. ASSUME NEW button, Click(button) PROVE UNCHANGED card
  BY <1>1 DEF Click
<1>2. CASE \/ Refresh \/ ToggleFifo \/ Connect \/ Disconnect \/ SelectPartition
           \/ SpeedControl \/ Cancel \/ QuickActions \/ RawCommand
  BY <1>1, <1>2
     DEF Refresh, ToggleFifo, Connect, Disconnect, SelectPartition, SpeedControl, Cancel,
         QuickActions, RawCommand, Enabled
<1>3. CASE \/ Read \/ OpenSectors \/ WriteFromFile \/ Erase \/ WriteExtCsd \/ VerifyVsFile
           \/ DumpToFile \/ RestoreFromFile \/ ReadExtCsd
  BY <1>1, <1>3
     DEF Read, OpenSectors, WriteFromFile, Erase, WriteExtCsd, VerifyVsFile, DumpToFile,
         RestoreFromFile, ReadExtCsd, Enabled
<1>4. CASE \/ ReadPartitions \/ DumpPartition \/ Browse \/ LoadFs \/ navigate_ext4
           \/ read_ext4_file \/ OverwriteFile \/ CreateFile
  BY <1>1, <1>4
     DEF ReadPartitions, DumpPartition, Browse, LoadFs, navigate_ext4, read_ext4_file,
         OverwriteFile, CreateFile, Enabled
<1>5. CASE \/ OpenFile \/ HexLoad \/ HexEdit \/ HexWriteBack \/ HexDiscard \/ HexSave
           \/ ConfirmDialog
  BY <1>1, <1>5
     DEF OpenFile, HexLoad, HexEdit, HexWriteBack, HexDiscard, HexSave, ConfirmDialog, Enabled
<1>6. CASE ClosePicker \/ Frame \/ Tick \/ UNCHANGED vars
  BY <1>6 DEF ClosePicker, Frame, process_messages, dispatch_pending_action, update, Tick, vars
<1> QED BY <1>2, <1>3, <1>4, <1>5, <1>6 DEF Next, Panels

LEMMA WritesThen == ShownInv /\ [Next]_vars =>
    (upset' \subseteq {"moved"} => \A p \in EmmcPartition :
         card'[p] # card[p] => ui.active_partition = p)
<1> SUFFICES ASSUME ShownInv, [Next]_vars, Strict', NEW p \in EmmcPartition, card'[p] # card[p]
             PROVE  ui.active_partition = p
  BY DEF Strict
<1>1. Strict /\ Tracked
  BY UpsetStays, StrictTogether DEF Strict, ShownInv
<1>2. PICK s \in Slots : Worker(s)
  BY OnlyThreadsWrite
<1> QED BY <1>1, <1>2, WritesAreShown

\* While no operation is under way, the application would open the port at the rate
\* the reader listens at: the keepalive that the GUI thread sends ten seconds after
\* the last activity (EmmcApp::update) reaches the reader before its watchdog falls
\* back to the default rate after eighteen, whatever the user has done before, unless
\* one of the causes named in BaudKept has come up.
THEOREM RateIsKept == KeepaliveAfter < WatchdogAfter => (Spec => []BaudKept)
<1> SUFFICES ASSUME KeepaliveAfter < WatchdogAfter PROVE Spec => []BaudKept
  OBVIOUS
<1>1. ShownInv => BaudKept
  BY ShownThen
<1>2. ShownInv /\ [Next]_vars => ShownInv'
  BY NextKeepsShown
<1> QED BY <1>1, <1>2, InitShown, PTL DEF Spec

\* The clock, the bus width and the partition that the panels show are those of the
\* reader whenever all threads have ended and all messages have been received
\* (AppState, process_messages), in every run in which none of the causes has come
\* up that set the two apart.
THEOREM ShownSettingsHold == KeepaliveAfter < WatchdogAfter => (Spec => []SettingsShown)
<1> SUFFICES ASSUME KeepaliveAfter < WatchdogAfter PROVE Spec => []SettingsShown
  OBVIOUS
<1>1. ShownInv => SettingsShown
  BY ShownThen
<1>2. ShownInv /\ [Next]_vars => ShownInv'
  BY NextKeepsShown
<1> QED BY <1>1, <1>2, InitShown, PTL DEF Spec

\* No write and no erase ever reaches another partition of the card than the one the
\* panel shows at that moment, in the runs of SettingsShown: no thread writes between
\* the moment a panel shows another partition and the reader's taking it.
THEOREM WritesGoWhereShown == KeepaliveAfter < WatchdogAfter => (Spec => WritesWhereShown)
<1> SUFFICES ASSUME KeepaliveAfter < WatchdogAfter PROVE Spec => WritesWhereShown
  OBVIOUS
<1>1. ShownInv /\ [Next]_vars => ShownInv'
  BY NextKeepsShown
<1> QED BY <1>1, InitShown, WritesThen, PTL DEF Spec, WritesWhereShown
=============================================================================
