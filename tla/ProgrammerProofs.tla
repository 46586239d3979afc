--------------------------- MODULE ProgrammerProofs ---------------------------
(***************************************************************************)
(* The programmer application, for every number of threads, connections and *)
(* sectors, for every transport and every user: what its threads hold while *)
(* they hold the lock, and what the GUI may believe of the reader.           *)
(***************************************************************************)
EXTENDS Programmer, SequenceTheorems, WellFoundedInduction, TLAPS

-----------------------------------------------------------------------------
(* Where a thread stands.  A thread is the rest of its script; what it has    *)
(* behind it is its phase:                                                    *)
(*   holds, connects   as in the thread;                                      *)
(*   range     the range an erase has sent to the card so far;                *)
(*   owes      the message for the setting it has changed;                    *)
(*   clk, proved  of a connecting: the clock it has set, the ping answered;   *)
(*   wants     the rate it has set in the reader and not yet in the connection; *)
(*   told      of a connecting: its message is sent;                          *)
(*   lost      "shown" if a step of it has failed, "rate" if a reopening has; *)
(*   may       what its command lets it do: tune clock and rate, reset the    *)
(*             card, carry a file elsewhere.                                  *)

PhaseFields == {"holds", "connects", "range", "owes", "clk", "wants", "proved", "told",
                "lost", "may"}
Phase(connects, may) ==
    [holds |-> FALSE, connects |-> connects, range |-> NoRange, owes |-> None, clk |-> 0,
     wants |-> 0, proved |-> FALSE, told |-> FALSE, lost |-> {}, may |-> may]
Idle == Phase(FALSE, {})

Commands == {"ping", "get_info", "get_ext_csd", "get_status", "read", "write", "erase", "raw",
             "reinit", "cmd35", "cmd36", "cmd38", "set_clk", "set_baud", "set_bus_width",
             "set_partition"}
\* The messages that report a setting.
Reports == {"SpeedSet", "BusWidthSet", "PartitionSet"}
ReportOf(step) ==
    CASE step.do = "set_clk" -> [type |-> "SpeedSet", preset |-> step.arg]
      [] step.do = "set_bus_width" -> [type |-> "BusWidthSet", width |-> step.arg]
      [] step.do = "set_partition" -> [type |-> "PartitionSet", part |-> step.arg]

\* What a thread may do next, having come as far as its phase says.
Erasing(p, a) ==
    /\ a.do \notin {"cmd36", "cmd38"} => p.range = NoRange
    /\ a.do \in {"cmd35", "cmd38"} => a.arg \in Nat
    /\ a.do = "cmd36" => p.range = <<a.arg>>
    /\ a.do = "cmd38" => p.range = <<a.arg, a.arg>>
Writing(p, a) ==
    a.do = "write" => a.arg.data[1] = "file" /\ (a.arg.data[2] = a.arg.lba \/ "wander" \in p.may)
Tuning(p, a) ==
    /\ a.do \in {"set_clk", "set_baud", "replace"} => p.connects \/ "tune" \in p.may
    /\ a.do \in {"set_bus_width", "set_partition", "poll"} => ~p.connects
    /\ a.do = "reinit" => "reset" \in p.may
    /\ a.do = "set_baud" => a.arg \in Presets
    /\ a.do = "replace" => p.wants # 0 /\ a.arg = p.wants
    /\ p.wants # 0 => a.do \in {"lock", "unlock", "reopen", "replace", "tell"}
Telling(p, a) ==
    /\ a.do # "tell" => p.owes = None
    /\ p.connects => ~p.told
    /\ a.do = "tell" /\ p.connects =>
          \/ a.arg.type = "Error" /\ "shown" \in p.lost
          \/ /\ a.arg.type = "ConnectedWithSpeed"
             /\ p.proved /\ ("shown" \in p.lost \/ a.arg.clk = p.clk)
    /\ a.do = "tell" /\ ~p.connects =>
          /\ a.arg.type # "ConnectedWithSpeed"
          /\ p.owes # None \/ a.arg.type \in Reports => p.owes # None /\ a.arg = p.owes
    /\ a.do = "tell" => p.wants = 0 \/ "rate" \in p.lost
Legal(p, a) ==
    /\ a.do \in Commands \union Local
    /\ a.do \in Commands \union {"unlock", "replace"} => p.holds
    /\ Erasing(p, a) /\ Writing(p, a) /\ Tuning(p, a) /\ Telling(p, a)

\* The phase after a step, and after one that failed.
Did(p, a) ==
    CASE a.do = "lock" -> [p EXCEPT !.holds = TRUE]
      [] a.do = "unlock" -> [p EXCEPT !.holds = FALSE]
      [] a.do = "replace" -> [p EXCEPT !.wants = 0]
      [] a.do = "ping" /\ p.connects -> [p EXCEPT !.proved = TRUE]
      [] a.do = "set_clk" /\ p.connects -> [p EXCEPT !.clk = a.arg]
      [] a.do \in {"set_clk", "set_bus_width", "set_partition"} /\ ~p.connects ->
             [p EXCEPT !.owes = ReportOf(a)]
      [] a.do = "set_baud" -> [p EXCEPT !.wants = UART_BAUD_RATES[a.arg]]
      [] a.do = "cmd35" -> [p EXCEPT !.range = <<a.arg>>]
      [] a.do = "cmd36" -> [p EXCEPT !.range = <<a.arg, a.arg>>]
      [] a.do = "cmd38" -> [p EXCEPT !.range = NoRange]
      [] a.do = "tell" /\ p.connects -> [p EXCEPT !.told = TRUE]
      [] a.do = "tell" /\ ~p.connects /\ p.owes # None -> [p EXCEPT !.owes = None]
      [] OTHER -> p
Missed(p, a) ==
    IF p.connects \/ p.range # NoRange \/ a.do = "reopen"
    THEN [p EXCEPT !.range = NoRange,
                   !.lost = @ \union {"shown"} \union IF a.do = "reopen" THEN {"rate"} ELSE {}]
    ELSE p
\* A thread that ends has erased, reported and reconnected, unless it failed to.
Ends(p) ==
    /\ p.range = NoRange /\ p.owes = None /\ (p.connects => p.told)
    /\ p.wants = 0 \/ "rate" \in p.lost

MayFail(a) == a.do \in Commands \union {"reopen", "file", "poll"}
Otherwise(q) == IF Head(q).lax THEN Tail(q) ELSE Head(q).fails

\* A script is followed from a phase if every step of it is legal where it comes,
\* whichever steps before it fail: C holds the phases and scripts on the way.
Orderly(C) ==
    \A c \in C :
        /\ DOMAIN c[1] = PhaseFields
        /\ c[2] = <<>> => Ends(c[1])
        /\ c[2] # <<>> =>
              /\ Legal(c[1], Head(c[2]))
              /\ <<Did(c[1], Head(c[2])), Tail(c[2])>> \in C
              /\ MayFail(Head(c[2])) => <<Missed(c[1], Head(c[2])), Otherwise(c[2])>> \in C
Follows(p, q) ==
    \E E, C : (\A c \in C : c[2] \in Seq(E)) /\ Orderly(C) /\ <<p, q>> \in C

-----------------------------------------------------------------------------
(* Sequences and numbers. *)

LEMMA HeadTailOfConcat ==
    ASSUME NEW E, NEW r \in Seq(E), NEW q \in Seq(E), r # <<>>
    PROVE  Head(r \o q) = Head(r) /\ Tail(r \o q) = Tail(r) \o q
<1>1. Head(r \o q) = Head(r)
  BY ConcatProperties
<1>2. Tail(r \o q) \in Seq(E) /\ Tail(r) \o q \in Seq(E)
  BY ConcatProperties, HeadTailProperties
<1>3. Len(Tail(r \o q)) = Len(Tail(r) \o q)
  BY ConcatProperties, HeadTailProperties
<1>4. \A i \in 1..Len(Tail(r \o q)) : Tail(r \o q)[i] = (Tail(r) \o q)[i]
  BY ConcatProperties, HeadTailProperties
<1> QED BY <1>1, <1>2, <1>3, <1>4, SeqEqual

LEMMA LeastNumber ==
    ASSUME NEW Wrong \in SUBSET Nat, Wrong # {}
    PROVE  \E k \in Wrong : \A j \in Wrong : k <= j
<1> DEFINE R == OpToRel(<, Nat)
<1>1. IsWellFoundedOn(R, Nat)
  BY NatLessThanWellFounded
<1>2. \A j, k \in Nat : j < k => <<j, k>> \in R
  BY DEF OpToRel
<1>3. PICK k \in Wrong : \A j \in Wrong : <<j, k>> \notin R
  <2> HIDE DEF R
  <2> QED BY <1>1, WFMin
<1>4. \A j \in Wrong : ~ (j < k)
  <2> HIDE DEF R
  <2> QED BY <1>2, <1>3
<1> QED BY <1>4

LEMMA Upwards ==
    ASSUME NEW n \in Nat, NEW G, 0 \in G, \A k \in 1..n : k - 1 \in G => k \in G
    PROVE  \A k \in 0..n : k \in G
<1> DEFINE Wrong == {k \in 0..n : k \notin G}
<1>1. SUFFICES ASSUME Wrong # {} PROVE FALSE
  OBVIOUS
<1>2. PICK k \in Wrong : \A j \in Wrong : k <= j
  <2> Wrong \in SUBSET Nat
    OBVIOUS
  <2> HIDE DEF Wrong
  <2> QED BY <1>1, LeastNumber
<1>3. k \in 1..n /\ k - 1 \in 0..n /\ ~(k <= k - 1)
  OBVIOUS
<1>4. k - 1 \in G
  BY <1>2, <1>3
<1> QED BY <1>3, <1>4

LEMMA RepeatExists ==
    ASSUME NEW n \in Nat, NEW steps
    PROVE  \E f : f = [i \in 0..n |-> IF i = 0 THEN <<>> ELSE f[i - 1] \o steps]
<1> DEFINE Is(f, k) == f = [i \in 0..k |-> IF i = 0 THEN <<>> ELSE f[i - 1] \o steps]
           Wrong == {k \in Nat : ~ \E f : Is(f, k)}
<1>1. SUFFICES ASSUME Wrong # {} PROVE FALSE
  OBVIOUS
<1>2. PICK k \in Wrong : \A j \in Wrong : k <= j
  <2> Wrong \in SUBSET Nat
    OBVIOUS
  <2> HIDE DEF Wrong
  <2> QED BY <1>1, LeastNumber
<1>3. k # 0
  <2>1. Is([i \in 0..0 |-> <<>>], 0)
    OBVIOUS
  <2> QED BY <2>1
<1>4. k \in Nat \ {0} /\ k - 1 \in Nat /\ ~(k <= k - 1)
  BY <1>3
<1>5. k - 1 \notin Wrong
  <2> HIDE DEF Wrong
  <2> QED BY <1>2, <1>4
<1>6. PICK f : Is(f, k - 1)
  BY <1>4, <1>5
<1> DEFINE g == [i \in 0..k |-> IF i = k THEN f[k - 1] \o steps ELSE f[i]]
<1>7. Is(g, k)
  <2>1. \A i \in 0..k : g[i] = IF i = 0 THEN <<>> ELSE g[i - 1] \o steps
    <3> SUFFICES ASSUME NEW i \in 0..k
                 PROVE  g[i] = IF i = 0 THEN <<>> ELSE g[i - 1] \o steps
      OBVIOUS
    <3> HIDE DEF Wrong
    <3>1. CASE i = k
      <4>1. i # 0 /\ i - 1 = k - 1 /\ k - 1 \in 0..k /\ k - 1 # k
        BY <1>4, <3>1
      <4>2. g[k] = f[k - 1] \o steps /\ g[k - 1] = f[k - 1]
        BY <1>4, <4>1
      <4> HIDE DEF g
      <4> QED BY <3>1, <4>1, <4>2
    <3>2. CASE i # k
      <4>1. i \in 0..k - 1 /\ (i # 0 => i - 1 \in 0..k - 1 /\ i - 1 # k)
        BY <1>4, <3>2
      <4>2. f[i] = IF i = 0 THEN <<>> ELSE f[i - 1] \o steps
        BY <1>6, <4>1
      <4> QED BY <4>1, <4>2, <3>2, <1>4
    <3> QED BY <3>1, <3>2
  <2> HIDE DEF Wrong
  <2>2. g = [i \in 0..k |-> g[i]]
    OBVIOUS
  <2> HIDE DEF g
  <2> QED BY <2>1, <2>2
<1> QED BY <1>2, <1>7

-----------------------------------------------------------------------------
(* How scripts are put together. *)

LEMMA FollowsStep ==
    ASSUME NEW p, NEW q, Follows(p, q)
    PROVE  /\ DOMAIN p = PhaseFields
           /\ q = <<>> => Ends(p)
           /\ q # <<>> =>
                 /\ Legal(p, Head(q)) /\ Follows(Did(p, Head(q)), Tail(q))
                 /\ MayFail(Head(q)) => Follows(Missed(p, Head(q)), Otherwise(q))
<1>1. PICK E, C : (\A c \in C : c[2] \in Seq(E)) /\ Orderly(C) /\ <<p, q>> \in C
  BY DEF Follows
<1>2. <<p, q>>[1] = p /\ <<p, q>>[2] = q
  OBVIOUS
<1>3. \A r, x : <<r, x>> \in C => Follows(r, x)
  BY <1>1 DEF Follows
<1>4. /\ DOMAIN p = PhaseFields
      /\ q = <<>> => Ends(p)
      /\ q # <<>> =>
            /\ Legal(p, Head(q)) /\ <<Did(p, Head(q)), Tail(q)>> \in C
            /\ MayFail(Head(q)) => <<Missed(p, Head(q)), Otherwise(q)>> \in C
  <2> HIDE DEF Follows
  <2> QED BY <1>1, <1>2 DEF Orderly
<1> QED BY <1>3, <1>4

LEMMA FollowsEmpty ==
    ASSUME NEW p, DOMAIN p = PhaseFields, Ends(p)
    PROVE  Follows(p, <<>>)
<1> DEFINE C == {<<p, <<>>>>}
<1>1. \A c \in C : c[1] = p /\ c[2] = <<>>
  OBVIOUS
<1>2. (\A c \in C : c[2] \in Seq({})) /\ Orderly(C)
  <2> <<>> \in Seq({})
    OBVIOUS
  <2> HIDE DEF C
  <2> QED BY <1>1 DEF Orderly
<1> QED BY <1>2 DEF Follows

LEMMA ConsProperties ==
    ASSUME NEW E, NEW q \in Seq(E), NEW a
    PROVE  /\ <<a>> \o q \in Seq(E \union {a}) /\ <<a>> \o q # <<>>
           /\ Head(<<a>> \o q) = a /\ Tail(<<a>> \o q) = q
<1> DEFINE F == E \union {a}
<1>1. <<a>> \in Seq(F) /\ q \in Seq(F) /\ <<a>> # <<>>
  OBVIOUS
<1>2. Head(<<a>>) = a /\ Tail(<<a>>) = <<>>
  OBVIOUS
<1>3. Head(<<a>> \o q) = Head(<<a>>) /\ Tail(<<a>> \o q) = Tail(<<a>>) \o q
  <2> HIDE DEF F
  <2> QED BY <1>1, HeadTailOfConcat
<1>4. <<a>> \o q \in Seq(F) /\ Len(<<a>> \o q) = 1 + Len(q)
  BY <1>1
<1>5. <<a>> \o q # <<>>
  BY <1>4, <1>1
<1> QED BY <1>1, <1>2, <1>3, <1>4, <1>5

\* A script of one step and a script.
LEMMA FollowsCons ==
    ASSUME NEW p, NEW a, NEW q, DOMAIN p = PhaseFields, Legal(p, a), Follows(Did(p, a), q),
           MayFail(a) => Follows(Missed(p, a), IF a.lax THEN q ELSE a.fails)
    PROVE  Follows(p, <<a>> \o q) /\ <<a>> \o q # <<>>
<1>1. PICK E, C : (\A c \in C : c[2] \in Seq(E)) /\ Orderly(C) /\ <<Did(p, a), q>> \in C
  BY DEF Follows
<1> DEFINE other == IF a.lax THEN q ELSE a.fails
<1>2. PICK F, D : /\ (\A c \in D : c[2] \in Seq(F)) /\ Orderly(D)
                  /\ MayFail(a) => <<Missed(p, a), other>> \in D
  <2>1. CASE MayFail(a)
    BY <2>1 DEF Follows
  <2>2. CASE ~MayFail(a)
    <3>1. (\A c \in {} : c[2] \in Seq({})) /\ Orderly({})
      BY DEF Orderly
    <3> QED BY <2>2, <3>1
  <2> QED BY <2>1, <2>2
<1> DEFINE script == <<a>> \o q
           G == E \union F \union {a}
           B == C \union D \union {<<p, script>>}
<1>3. q \in Seq(E)
  <2>1. <<Did(p, a), q>>[2] = q
    OBVIOUS
  <2> QED BY <1>1, <2>1
<1>4. script \in Seq(E \union {a}) /\ script # <<>> /\ Head(script) = a /\ Tail(script) = q
  BY <1>3, ConsProperties
<1> HIDE DEF script, other
<1>5. \A c \in B : c[2] \in Seq(G)
  <2>1. Seq(E) \subseteq Seq(G) /\ Seq(F) \subseteq Seq(G) /\ Seq(E \union {a}) \subseteq Seq(G)
    OBVIOUS
  <2>2. <<p, script>>[2] = script
    OBVIOUS
  <2> HIDE DEF G
  <2> QED BY <1>1, <1>2, <1>4, <2>1, <2>2
<1>6. Orderly(B)
  <2> SUFFICES ASSUME NEW c \in B
               PROVE  /\ DOMAIN c[1] = PhaseFields
                      /\ c[2] = <<>> => Ends(c[1])
                      /\ c[2] # <<>> =>
                            /\ Legal(c[1], Head(c[2]))
                            /\ <<Did(c[1], Head(c[2])), Tail(c[2])>> \in B
                            /\ MayFail(Head(c[2])) => <<Missed(c[1], Head(c[2])), Otherwise(c[2])>> \in B
    BY DEF Orderly
  <2>1. CASE c \in C
    BY <2>1, <1>1 DEF Orderly
  <2>2. CASE c \in D
    BY <2>2, <1>2 DEF Orderly
  <2>3. CASE c = <<p, script>>
    <3>1. c[1] = p /\ c[2] = script
      BY <2>3
    <3>2. Otherwise(script) = other
      BY <1>4 DEF Otherwise, other
    <3> QED BY <3>1, <3>2, <1>1, <1>2, <1>4
  <2> QED BY <2>1, <2>2, <2>3
<1> HIDE DEF B, G
<1>7. <<p, script>> \in B
  BY DEF B
<1> QED BY <1>4, <1>5, <1>6, <1>7 DEF Follows, script

-----------------------------------------------------------------------------
(* Most scripts take the lock and do nothing then that changes their phase.   *)

PlainSteps == {"ping", "get_info", "get_ext_csd", "get_status", "read", "write", "erase", "raw",
               "reinit", "poll", "file", "tell"}
Plain(may, a) ==
    /\ DOMAIN a = {"do", "arg", "tries", "lax", "fails"} /\ a.do \in PlainSteps
    /\ a.do = "write" => a.arg.data[1] = "file" /\ (a.arg.data[2] = a.arg.lba \/ "wander" \in may)
    /\ a.do = "reinit" => "reset" \in may
    /\ a.do = "tell" => a.arg.type \notin Reports \union {"ConnectedWithSpeed"}

Closed(may, S) ==
    \A q \in S : q # <<>> => Plain(may, Head(q)) /\ Tail(q) \in S /\ Head(q).fails \in S
Calm(may, script) == \E E, S : S \subseteq Seq(E) /\ Closed(may, S) /\ script \in S

LEMMA CalmEmpty ==
    ASSUME NEW may
    PROVE  Calm(may, <<>>)
<1>1. {<<>>} \subseteq Seq({}) /\ Closed(may, {<<>>})
  BY DEF Closed
<1> QED BY <1>1 DEF Calm

LEMMA CalmIsSeq ==
    ASSUME NEW may, NEW q, Calm(may, q)
    PROVE  \E E : q \in Seq(E)
BY DEF Calm

LEMMA CalmOne ==
    ASSUME NEW may, NEW a, Plain(may, a), Calm(may, a.fails)
    PROVE  Calm(may, <<a>>)
<1>1. PICK E, S : S \subseteq Seq(E) /\ Closed(may, S) /\ a.fails \in S
  BY DEF Calm
<1> DEFINE F == E \union {a}
           T == S \union {<<>>, <<a>>}
<1>2. T \subseteq Seq(F)
  <2>1. Seq(E) \subseteq Seq(F)
    OBVIOUS
  <2>2. <<>> \in Seq(F) /\ <<a>> \in Seq(F)
    OBVIOUS
  <2> QED BY <1>1, <2>1, <2>2
<1>3. Closed(may, T)
  <2>1. Head(<<a>>) = a /\ Tail(<<a>>) = <<>>
    OBVIOUS
  <2>2. \A r \in S : r # <<>> => Plain(may, Head(r)) /\ Tail(r) \in T /\ Head(r).fails \in T
    BY <1>1 DEF Closed
  <2>3. Plain(may, Head(<<a>>)) /\ Tail(<<a>>) \in T /\ Head(<<a>>).fails \in T
    BY <1>1, <2>1
  <2> HIDE DEF Plain
  <2> QED BY <2>2, <2>3 DEF Closed
<1> QED BY <1>2, <1>3 DEF Calm

LEMMA CalmConcat ==
    ASSUME NEW may, NEW p, NEW q, Calm(may, p), Calm(may, q)
    PROVE  Calm(may, p \o q)
<1>1. PICK E, S : S \subseteq Seq(E) /\ Closed(may, S) /\ p \in S
  BY DEF Calm
<1>2. PICK F, T : T \subseteq Seq(F) /\ Closed(may, T) /\ q \in T
  BY DEF Calm
<1> DEFINE G == E \union F
           U == {r \o q : r \in S} \union S \union T
<1>3. Seq(E) \subseteq Seq(G) /\ Seq(F) \subseteq Seq(G)
  OBVIOUS
<1>4. U \subseteq Seq(G)
  <2>1. \A r \in S : r \o q \in Seq(G)
    BY <1>1, <1>2, <1>3, ConcatProperties
  <2> QED BY <2>1, <1>1, <1>2, <1>3
<1>5. Closed(may, U)
  <2> SUFFICES ASSUME NEW u \in U, u # <<>>
               PROVE  Plain(may, Head(u)) /\ Tail(u) \in U /\ Head(u).fails \in U
    BY DEF Closed
  <2>1. CASE u \in S \union T
    BY <2>1, <1>1, <1>2 DEF Closed
  <2>2. CASE \E r \in S : u = r \o q
    <3>1. PICK r \in S : u = r \o q
      BY <2>2
    <3>2. CASE r = <<>>
      <4>1. u = q
        BY <3>1, <3>2, <1>2
      <4> QED BY <4>1, <2>1, <1>2
    <3>3. CASE r # <<>>
      <4>0. r \in Seq(G) /\ q \in Seq(G)
        BY <1>1, <1>2, <1>3
      <4>1. Head(u) = Head(r) /\ Tail(u) = Tail(r) \o q
        <5> HIDE DEF G, U
        <5>1. Head(r \o q) = Head(r) /\ Tail(r \o q) = Tail(r) \o q
          BY <3>3, <4>0, HeadTailOfConcat
        <5> QED BY <5>1, <3>1
      <4> QED BY <4>1, <3>3, <1>1 DEF Closed
    <3> QED BY <3>2, <3>3
  <2> QED BY <2>1, <2>2
<1>6. p \o q \in U
  BY <1>1
<1> HIDE DEF U, G
<1> QED BY <1>4, <1>5, <1>6 DEF Calm

LEMMA CalmRepeat ==
    ASSUME NEW may, NEW n \in Nat, NEW steps, Calm(may, steps)
    PROVE  Calm(may, Repeat(n, steps))
<1>1. PICK f : /\ f = [i \in 0..n |-> IF i = 0 THEN <<>> ELSE f[i - 1] \o steps]
               /\ Repeat(n, steps) = f[n]
  BY RepeatExists DEF Repeat
<1> DEFINE G == {k \in 0..n : Calm(may, f[k])}
<1>2. 0 \in G
  <2>1. 0 \in 0..n /\ f[0] = <<>>
    BY <1>1
  <2> QED BY <2>1, CalmEmpty
<1>3. ASSUME NEW k \in 1..n, k - 1 \in G PROVE k \in G
  <2>1. f[k] = f[k - 1] \o steps /\ k \in 0..n
    <3>1. k \in 0..n /\ k # 0
      OBVIOUS
    <3>2. f[k] = IF k = 0 THEN <<>> ELSE f[k - 1] \o steps
      BY <1>1, <3>1
    <3> QED BY <3>1, <3>2
  <2>2. Calm(may, f[k - 1])
    BY <1>3
  <2>3. Calm(may, f[k])
    BY <2>1, <2>2, CalmConcat
  <2> QED BY <2>1, <2>3
<1>4. n \in 0..n
  OBVIOUS
<1>5. n \in G
  <2> HIDE DEF G
  <2> QED BY <1>2, <1>3, <1>4, Upwards
<1> QED BY <1>1, <1>5

\* Tuples are put together of their elements.
LEMMA TuplesAreConcats ==
    /\ \A a, b : <<a, b>> = <<a>> \o <<b>>
    /\ \A a, b, c : <<a, b, c>> = <<a>> \o <<b, c>> /\ <<a, b, c>> = <<a, b>> \o <<c>>
    /\ \A a, b, c, d : <<a, b, c, d>> = <<a>> \o <<b, c, d>>
<1>1. ASSUME NEW a, NEW b PROVE <<a, b>> = <<a>> \o <<b>>
  <2>1. <<a, b>> \in Seq({a, b}) /\ <<a>> \o <<b>> \in Seq({a, b})
    OBVIOUS
  <2>2. Len(<<a, b>>) = 2 /\ Len(<<a>> \o <<b>>) = 2
    OBVIOUS
  <2>3. \A i \in 1..2 : <<a, b>>[i] = (<<a>> \o <<b>>)[i]
    OBVIOUS
  <2> QED BY <2>1, <2>2, <2>3, SeqEqual
<1>2. ASSUME NEW a, NEW b, NEW c PROVE <<a, b, c>> = <<a>> \o <<b, c>> /\ <<a, b, c>> = <<a, b>> \o <<c>>
  <2>1. /\ <<a, b, c>> \in Seq({a, b, c}) /\ <<a>> \o <<b, c>> \in Seq({a, b, c})
        /\ <<a, b>> \o <<c>> \in Seq({a, b, c})
    OBVIOUS
  <2>2. Len(<<a, b, c>>) = 3 /\ Len(<<a>> \o <<b, c>>) = 3 /\ Len(<<a, b>> \o <<c>>) = 3
    OBVIOUS
  <2>3. \A i \in 1..3 : <<a, b, c>>[i] = (<<a>> \o <<b, c>>)[i] /\ <<a, b, c>>[i] = (<<a, b>> \o <<c>>)[i]
    OBVIOUS
  <2>4. <<a, b, c>> = <<a>> \o <<b, c>>
    BY <2>1, <2>2, <2>3, SeqEqual
  <2>5. <<a, b, c>> = <<a, b>> \o <<c>>
    BY <2>1, <2>2, <2>3, SeqEqual
  <2> QED BY <2>4, <2>5
<1>3. ASSUME NEW a, NEW b, NEW c, NEW d PROVE <<a, b, c, d>> = <<a>> \o <<b, c, d>>
  <2>1. <<a, b, c, d>> \in Seq({a, b, c, d}) /\ <<a>> \o <<b, c, d>> \in Seq({a, b, c, d})
    OBVIOUS
  <2>2. Len(<<a, b, c, d>>) = 4 /\ Len(<<a>> \o <<b, c, d>>) = 4
    OBVIOUS
  <2>3. \A i \in 1..4 : <<a, b, c, d>>[i] = (<<a>> \o <<b, c, d>>)[i]
    OBVIOUS
  <2> QED BY <2>1, <2>2, <2>3, SeqEqual
<1> QED BY <1>1, <1>2, <1>3

LEMMA ConcatIsAssociative ==
    ASSUME NEW x, NEW q, NEW r, \E E : x \in Seq(E), \E E : q \in Seq(E), \E E : r \in Seq(E)
    PROVE  (x \o q) \o r = x \o (q \o r) /\ \E E : q \o r \in Seq(E)
<1>1. PICK E : x \in Seq(E)
  OBVIOUS
<1>2. PICK F : q \in Seq(F)
  OBVIOUS
<1>3. PICK G : r \in Seq(G)
  OBVIOUS
<1> DEFINE H == E \union F \union G
<1>4. x \in Seq(H) /\ q \in Seq(H) /\ r \in Seq(H)
  BY <1>1, <1>2, <1>3
<1> HIDE DEF H
<1>5. q \o r \in Seq(H)
  BY <1>4
<1> QED BY <1>4, <1>5, ConcatAssociative

\* A thread that has its lock, or needs it only to report, and has nothing begun.
Ready(p) ==
    /\ DOMAIN p = PhaseFields /\ ~p.connects /\ p.range = NoRange /\ p.owes = None /\ p.wants = 0

LEMMA PlainMoves ==
    ASSUME NEW p, Ready(p), NEW a, Plain(p.may, a)
    PROVE  /\ Did(p, a) = p /\ Missed(p, a) = p
           /\ p.holds \/ a.do \in {"poll", "file", "tell"} => Legal(p, a)
<1>1. Did(p, a) = p
  BY DEF Did, Ready, Plain, PlainSteps
<1>2. Missed(p, a) = p
  BY DEF Missed, Ready, Plain, PlainSteps
<1>3. ASSUME p.holds \/ a.do \in {"poll", "file", "tell"} PROVE Legal(p, a)
  <2>1. /\ a.do \in Commands \union Local /\ a.do \notin {"unlock", "replace"}
        /\ a.do \in Commands => p.holds
    BY <1>3 DEF Plain, PlainSteps, Commands, Local
  <2>2. Erasing(p, a) /\ Writing(p, a)
    BY DEF Erasing, Writing, Ready, Plain, PlainSteps
  <2>3. Tuning(p, a)
    BY DEF Tuning, Ready, Plain, PlainSteps
  <2>4. Telling(p, a)
    BY DEF Telling, Ready, Plain, PlainSteps, Reports
  <2> QED BY <2>1, <2>2, <2>3, <2>4 DEF Legal
<1> QED BY <1>1, <1>2, <1>3

LEMMA CalmFollows ==
    ASSUME NEW p, Ready(p), p.holds, NEW q, Calm(p.may, q)
    PROVE  Follows(p, q)
<1>1. PICK E, S : S \subseteq Seq(E) /\ Closed(p.may, S) /\ q \in S
  BY DEF Calm
<1> DEFINE C == {<<p, r>> : r \in S}
<1>2. \A c \in C : c[1] = p /\ c[2] \in S
  OBVIOUS
<1>3. \A r \in S : <<p, r>> \in C
  OBVIOUS
<1> HIDE DEF C
<1>4. Orderly(C)
  <2> SUFFICES ASSUME NEW c \in C
               PROVE  /\ DOMAIN c[1] = PhaseFields
                      /\ c[2] = <<>> => Ends(c[1])
                      /\ c[2] # <<>> =>
                            /\ Legal(c[1], Head(c[2]))
                            /\ <<Did(c[1], Head(c[2])), Tail(c[2])>> \in C
                            /\ MayFail(Head(c[2])) => <<Missed(c[1], Head(c[2])), Otherwise(c[2])>> \in C
    BY DEF Orderly
  <2>1. c[1] = p /\ c[2] \in S
    BY <1>2
  <2>2. DOMAIN p = PhaseFields /\ Ends(p)
    BY DEF Ready, Ends
  <2>3. ASSUME c[2] # <<>>
        PROVE  /\ Legal(p, Head(c[2])) /\ Did(p, Head(c[2])) = p /\ Missed(p, Head(c[2])) = p
               /\ Tail(c[2]) \in S /\ Otherwise(c[2]) \in S
    <3>1. Plain(p.may, Head(c[2])) /\ Tail(c[2]) \in S /\ Head(c[2]).fails \in S
      BY <2>1, <2>3, <1>1 DEF Closed
    <3>2. Otherwise(c[2]) \in S
      BY <3>1 DEF Otherwise
    <3>3. Legal(p, Head(c[2])) /\ Did(p, Head(c[2])) = p /\ Missed(p, Head(c[2])) = p
      BY <3>1, PlainMoves
    <3> QED BY <3>1, <3>2, <3>3
  <2> QED BY <2>1, <2>2, <2>3, <1>3
<1>5. \A c \in C : c[2] \in Seq(E)
  BY <1>1, <1>2
<1>6. <<p, q>> \in C
  BY <1>1, <1>3
<1> QED BY <1>4, <1>5, <1>6 DEF Follows

\* An error is reported from anywhere between two operations of a thread.
LEMMA ErrorFollows ==
    ASSUME NEW p, DOMAIN p = PhaseFields, p.range = NoRange, p.owes = None,
           p.wants = 0 \/ "rate" \in p.lost, p.connects => ~p.told /\ "shown" \in p.lost,
           p.connects \in BOOLEAN
    PROVE  Follows(p, Error)
<1> DEFINE a == Tell([type |-> "Error"])
<1>1. a.do = "tell" /\ a.arg.type = "Error"
  BY DEF Tell, Step
<1> HIDE DEF a
<1>2. Legal(p, a)
  BY <1>1 DEF Legal, Commands, Local, Erasing, Writing, Tuning, Telling, Reports
<1>3. DOMAIN Did(p, a) = PhaseFields /\ Ends(Did(p, a))
  <2>1. CASE p.connects
    <3>1. Did(p, a) = [p EXCEPT !.told = TRUE]
      BY <1>1, <2>1 DEF Did
    <3> QED BY <3>1 DEF Ends, PhaseFields
  <2>2. CASE ~p.connects
    <3>1. Did(p, a) = p
      BY <1>1, <2>2 DEF Did
    <3> QED BY <3>1, <2>2 DEF Ends
  <2> QED BY <2>1, <2>2
<1>4. Follows(Did(p, a), <<>>)
  BY <1>3, FollowsEmpty
<1>5. ~MayFail(a)
  BY <1>1 DEF MayFail, Commands
<1>6. Follows(p, <<a>> \o <<>>)
  BY <1>2, <1>4, <1>5, FollowsCons
<1>7. <<a>> \o <<>> = <<a>>
  OBVIOUS
<1> QED BY <1>6, <1>7 DEF Error, a

LEMMA LockFollows ==
    ASSUME NEW p, Ready(p), ~p.holds, NEW q, Calm(p.may, q)
    PROVE  Follows(p, <<Lock>> \o q) /\ <<Lock>> \o q # <<>>
<1>1. Lock.do = "lock"
  BY DEF Lock, Step
<1>2. Did(p, Lock) = [p EXCEPT !.holds = TRUE] /\ ~MayFail(Lock)
  BY <1>1 DEF Did, MayFail, Commands
<1>3. Legal(p, Lock)
  BY <1>1 DEF Legal, Commands, Local, Erasing, Writing, Tuning, Telling, Ready
<1> DEFINE r == Did(p, Lock)
<1>4. Ready(r) /\ r.holds /\ r.may = p.may
  BY <1>2 DEF Ready, PhaseFields
<1>5. Follows(r, q)
  <2> HIDE DEF r
  <2> QED BY <1>4, CalmFollows
<1> QED BY <1>2, <1>3, <1>5, FollowsCons DEF Ready

LEMMA FileFollows ==
    ASSUME NEW p, Ready(p), p.connects \in BOOLEAN, NEW q, Follows(p, q)
    PROVE  Follows(p, <<File>> \o q) /\ <<File>> \o q # <<>>
<1>1. File.do = "file" /\ File.fails = Error /\ ~File.lax
  BY DEF File, Step
<1>2. Did(p, File) = p /\ Missed(p, File) = p
  BY <1>1 DEF Did, Missed, Ready
<1>3. Legal(p, File)
  BY <1>1 DEF Legal, Commands, Local, Erasing, Writing, Tuning, Telling, Ready
<1>4. Follows(p, Error)
  BY ErrorFollows DEF Ready
<1> QED BY <1>1, <1>2, <1>3, <1>4, FollowsCons DEF Ready

-----------------------------------------------------------------------------
(* The parts of the scripts. *)

Gentle(may, a) == Plain(may, a) /\ Calm(may, a.fails)

LEMMA CalmSteps ==
    ASSUME NEW may, NEW a, Gentle(may, a)
    PROVE  /\ Calm(may, <<a>>)
           /\ \A b : Gentle(may, b) => Calm(may, <<a, b>>)
           /\ \A b, c : Gentle(may, b) /\ Gentle(may, c) => Calm(may, <<a, b, c>>)
<1>1. \A b : Gentle(may, b) => Calm(may, <<b>>)
  BY CalmOne DEF Gentle
<1>2. \A b, c : Gentle(may, b) /\ Gentle(may, c) => Calm(may, <<b, c>>)
  <2>1. \A b, c : <<b, c>> = <<b>> \o <<c>>
    BY TuplesAreConcats
  <2> QED BY <2>1, <1>1, CalmConcat
<1>3. \A b, c : Gentle(may, b) /\ Gentle(may, c) => Calm(may, <<a, b, c>>)
  <2>1. \A b, c : <<a, b, c>> = <<a>> \o <<b, c>>
    BY TuplesAreConcats
  <2> QED BY <2>1, <1>1, <1>2, CalmConcat
<1> QED BY <1>1, <1>2, <1>3

LEMMA GentleTell ==
    ASSUME NEW may, NEW m, m.type \notin Reports \union {"ConnectedWithSpeed"}
    PROVE  Gentle(may, Tell(m))
<1>1. Plain(may, Tell(m)) /\ Tell(m).fails = <<>>
  BY DEF Plain, PlainSteps, Tell, Step
<1> QED BY <1>1, CalmEmpty DEF Gentle

LEMMA CalmError ==
    ASSUME NEW may
    PROVE  Calm(may, Error)
<1>1. Gentle(may, Tell([type |-> "Error"]))
  BY GentleTell DEF Reports
<1> QED BY <1>1, CalmSteps DEF Error

LEMMA CalmDone ==
    ASSUME NEW may, NEW type, type \notin Reports \union {"ConnectedWithSpeed"}
    PROVE  Calm(may, Done(type)) /\ \A q : Calm(may, q) => Calm(may, Done(type) \o q)
<1>1. Gentle(may, Tell([type |-> type]))
  BY GentleTell
<1>2. Calm(may, Done(type))
  BY <1>1, CalmSteps DEF Done
<1> QED BY <1>2, CalmConcat

Harmless == PlainSteps \ {"write", "reinit", "tell"}

LEMMA GentleStep ==
    ASSUME NEW may, NEW do \in Harmless, NEW arg, NEW fails, Calm(may, fails)
    PROVE  Gentle(may, Step(do, arg, fails))
<1>1. Plain(may, Step(do, arg, fails)) /\ Step(do, arg, fails).fails = fails
  BY DEF Plain, PlainSteps, Harmless, Step
<1> QED BY <1>1 DEF Gentle

LEMMA GentleCommand ==
    ASSUME NEW may, NEW do \in Harmless, NEW arg
    PROVE  Gentle(may, Ask(do, arg)) /\ Gentle(may, Lax(do, arg)) /\ Ask(do, arg).fails = Error
<1>1. Gentle(may, Ask(do, arg)) /\ Ask(do, arg).fails = Error
  <2>1. Gentle(may, Step(do, arg, Error))
    BY CalmError, GentleStep
  <2> QED BY <2>1 DEF Ask, Step
<1>2. Gentle(may, Lax(do, arg))
  <2>1. Plain(may, Lax(do, arg)) /\ Lax(do, arg).fails = <<>>
    BY DEF Plain, PlainSteps, Harmless, Step, Lax
  <2> QED BY <2>1, CalmEmpty DEF Gentle
<1> QED BY <1>1, <1>2

LEMMA GentleFile ==
    ASSUME NEW may
    PROVE  Gentle(may, File)
BY CalmError, GentleStep DEF File, Harmless, PlainSteps

LEMMA GentleWrite ==
    ASSUME NEW may, NEW lba, NEW data, data[1] = "file", data[2] = lba \/ "wander" \in may
    PROVE  /\ Gentle(may, Ask("write", [lba |-> lba, data |-> data]))
           /\ Ask("write", [lba |-> lba, data |-> data]).fails = Error
<1> DEFINE a == Ask("write", [lba |-> lba, data |-> data])
<1>1. Plain(may, a) /\ a.fails = Error
  BY DEF Plain, PlainSteps, Ask, Step
<1> QED BY <1>1, CalmError DEF Gentle

LEMMA CalmChunked ==
    ASSUME NEW may, NEW step, Gentle(may, step)
    PROVE  Calm(may, Chunked(step))
<1>1. Gentle(may, Step("poll", 0, step.fails))
  BY GentleStep DEF Gentle, Harmless, PlainSteps
<1>2. Calm(may, <<Step("poll", 0, step.fails), step>>)
  BY <1>1, CalmSteps
<1> QED BY <1>2, CalmRepeat, ChunksAssumption DEF Chunked

LEMMA CalmTransfers ==
    ASSUME NEW may, NEW lba
    PROVE  /\ Calm(may, read(lba)) /\ Calm(may, Chunked(Ask("erase", lba)))
           /\ \A data : data[1] = "file" /\ data[2] = lba => Calm(may, write(lba, data))
<1>1. Gentle(may, Ask("read", lba)) /\ Gentle(may, Ask("erase", lba))
  BY GentleCommand DEF Harmless, PlainSteps
<1>2. ASSUME NEW data, data[1] = "file", data[2] = lba
      PROVE  Calm(may, write(lba, data))
  <2>1. Gentle(may, Ask("write", [lba |-> lba, data |-> data]))
    BY <1>2, GentleWrite
  <2> QED BY <2>1, CalmChunked DEF write
<1>3. Calm(may, read(lba)) /\ Calm(may, Chunked(Ask("erase", lba)))
  BY <1>1, CalmChunked DEF read
<1> QED BY <1>2, <1>3

LEMMA CalmLogged ==
    ASSUME NEW may, NEW q, Calm(may, q)
    PROVE  Calm(may, Logged(q))
<1>1. PICK E, S : S \subseteq Seq(E) /\ Closed(may, S) /\ q \in S
  BY DEF Calm
<1> DEFINE F == {[e EXCEPT !.fails = <<>>] : e \in E}
           T == {Logged(r) : r \in S} \union {<<>>}
<1>2. ASSUME NEW r \in S
      PROVE  /\ Logged(r) \in Seq(F) /\ Len(Logged(r)) = Len(r)
             /\ \A i \in 1..Len(r) : Logged(r)[i] = [r[i] EXCEPT !.fails = <<>>]
  <2>1. r \in Seq(E) /\ DOMAIN r = 1..Len(r) /\ \A i \in 1..Len(r) : r[i] \in E
    BY <1>1
  <2>2. Logged(r) = [i \in 1..Len(r) |-> [r[i] EXCEPT !.fails = <<>>]]
    BY <2>1 DEF Logged
  <2>3. \A i \in 1..Len(r) : [r[i] EXCEPT !.fails = <<>>] \in F
    BY <2>1
  <2>4. Len(r) \in Nat
    BY <2>1
  <2> HIDE DEF F
  <2> QED BY <2>2, <2>3, <2>4
<1>3. T \subseteq Seq(F)
  <2> HIDE DEF F
  <2>1. <<>> \in Seq(F)
    OBVIOUS
  <2> QED BY <1>2, <2>1
<1>4. ASSUME NEW r \in S, r # <<>>
      PROVE  /\ Head(Logged(r)) = [Head(r) EXCEPT !.fails = <<>>]
             /\ Tail(Logged(r)) = Logged(Tail(r)) /\ Tail(r) \in S
  <2> HIDE DEF F
  <2>1. r \in Seq(E) /\ Tail(r) \in S /\ Tail(r) \in Seq(E) /\ Len(r) \in Nat \ {0}
        /\ Len(Tail(r)) = Len(r) - 1
    BY <1>1, <1>4 DEF Closed
  <2>2. Logged(r) \in Seq(F) /\ Len(Logged(r)) = Len(r) /\ Logged(r) # <<>>
    BY <1>2, <2>1
  <2>3. Head(Logged(r)) = [Head(r) EXCEPT !.fails = <<>>]
    <3>1. 1 \in 1..Len(r) /\ Head(r) = r[1] /\ Head(Logged(r)) = Logged(r)[1]
      BY <2>1, <2>2
    <3> QED BY <3>1, <1>2
  <2>4. Tail(Logged(r)) \in Seq(F) /\ Len(Tail(Logged(r))) = Len(r) - 1
    BY <2>1, <2>2
  <2>5. Logged(Tail(r)) \in Seq(F) /\ Len(Logged(Tail(r))) = Len(r) - 1
    BY <1>2, <2>1
  <2>6. ASSUME NEW i \in 1..Len(r) - 1
        PROVE  Tail(Logged(r))[i] = Logged(Tail(r))[i]
    <3>1. i + 1 \in 1..Len(r) /\ i \in 1..Len(Tail(r)) /\ i \in 1..Len(Tail(Logged(r)))
      BY <2>1, <2>4
    <3>2. Tail(Logged(r))[i] = Logged(r)[i + 1] /\ Tail(r)[i] = r[i + 1]
      BY <2>1, <2>2, <3>1
    <3>3. Logged(r)[i + 1] = [r[i + 1] EXCEPT !.fails = <<>>]
      BY <3>1, <1>2
    <3>4. Logged(Tail(r))[i] = [Tail(r)[i] EXCEPT !.fails = <<>>]
      BY <2>1, <3>1, <1>2
    <3> QED BY <3>2, <3>3, <3>4
  <2>7. Tail(Logged(r)) = Logged(Tail(r))
    BY <2>4, <2>5, <2>6, SeqEqual
  <2> QED BY <2>1, <2>3, <2>7
<1>5. Closed(may, T)
  <2> SUFFICES ASSUME NEW u \in T, u # <<>>
               PROVE  Plain(may, Head(u)) /\ Tail(u) \in T /\ Head(u).fails \in T
    BY DEF Closed
  <2>1. PICK r \in S : u = Logged(r)
    OBVIOUS
  <2>2. r # <<>>
    <3>1. Logged(<<>>) = <<>>
      BY DEF Logged
    <3> QED BY <3>1, <2>1
  <2>3. Plain(may, Head(r))
    BY <2>2, <1>1 DEF Closed
  <2>4. Plain(may, [Head(r) EXCEPT !.fails = <<>>]) /\ [Head(r) EXCEPT !.fails = <<>>].fails = <<>>
    BY <2>3 DEF Plain
  <2> QED BY <2>1, <2>2, <2>4, <1>4
<1>6. Logged(q) \in T
  BY <1>1
<1> HIDE DEF F, T
<1> QED BY <1>3, <1>5, <1>6 DEF Calm

-----------------------------------------------------------------------------
(* The scripts of the commands that change no setting. *)

Takes(may, script) ==
    \E q : Calm(may, q) /\ script \in {<<Lock>> \o q, <<File>> \o (<<Lock>> \o q)}

LEMMA FirstPhase ==
    ASSUME NEW connects \in BOOLEAN, NEW may
    PROVE  /\ DOMAIN Phase(connects, may) = PhaseFields /\ Phase(connects, may).may = may
           /\ ~Phase(connects, may).holds /\ Phase(connects, may).connects = connects
           /\ ~connects => Ready(Phase(connects, may))
BY DEF Phase, PhaseFields, Ready

LEMMA TakesFollows ==
    ASSUME NEW may, NEW script, Takes(may, script)
    PROVE  Follows(Phase(FALSE, may), script) /\ script # <<>>
<1>1. PICK q : Calm(may, q) /\ script \in {<<Lock>> \o q, <<File>> \o (<<Lock>> \o q)}
  BY DEF Takes
<1> DEFINE p == Phase(FALSE, may)
<1>2. Ready(p) /\ ~p.holds /\ p.may = may /\ p.connects \in BOOLEAN
  BY FirstPhase
<1> HIDE DEF p
<1>3. Follows(p, <<Lock>> \o q) /\ <<Lock>> \o q # <<>>
  BY <1>1, <1>2, LockFollows
<1>4. Follows(p, <<File>> \o (<<Lock>> \o q)) /\ <<File>> \o (<<Lock>> \o q) # <<>>
  BY <1>2, <1>3, FileFollows
<1> QED BY <1>1, <1>3, <1>4 DEF p

LEMMA TakesConcat ==
    ASSUME NEW may, NEW script, Takes(may, script), NEW r, Calm(may, r)
    PROVE  Takes(may, script \o r)
<1>1. PICK q : Calm(may, q) /\ script \in {<<Lock>> \o q, <<File>> \o (<<Lock>> \o q)}
  BY DEF Takes
<1>2. Calm(may, q \o r)
  BY <1>1, CalmConcat
<1>3. (\E E : q \in Seq(E)) /\ (\E E : r \in Seq(E))
  BY <1>1, CalmIsSeq
<1>4. (\E E : <<Lock>> \in Seq(E)) /\ (\E E : <<File>> \in Seq(E))
  <2>1. <<Lock>> \in Seq({Lock}) /\ <<File>> \in Seq({File})
    OBVIOUS
  <2> QED BY <2>1
<1>5. (<<Lock>> \o q) \o r = <<Lock>> \o (q \o r)
  BY <1>3, <1>4, ConcatIsAssociative
<1>6. (<<File>> \o (<<Lock>> \o q)) \o r = <<File>> \o (<<Lock>> \o (q \o r))
  <2>1. \E E : <<Lock>> \o q \in Seq(E)
    BY <1>3, <1>4, ConcatIsAssociative
  <2>2. (<<File>> \o (<<Lock>> \o q)) \o r = <<File>> \o ((<<Lock>> \o q) \o r)
    BY <1>3, <1>4, <2>1, ConcatIsAssociative
  <2> QED BY <2>2, <1>5
<1> QED BY <1>1, <1>2, <1>5, <1>6 DEF Takes

LEMMA TakesLock ==
    ASSUME NEW may
    PROVE  /\ Takes(may, <<Lock>>) /\ Takes(may, <<File, Lock>>)
           /\ \A a : Gentle(may, a) => Takes(may, <<Lock, a>>) /\ Takes(may, <<File>> \o <<Lock, a>>)
           /\ \A a, b : Gentle(may, a) /\ Gentle(may, b) => Takes(may, <<Lock, a, b>>)
           /\ \A a, b, c : Gentle(may, a) /\ Gentle(may, b) /\ Gentle(may, c) =>
                  Takes(may, <<Lock, a, b, c>>)
<1>1. \A q : Calm(may, q) => Takes(may, <<Lock>> \o q) /\ Takes(may, <<File>> \o (<<Lock>> \o q))
  BY DEF Takes
<1>2. <<Lock>> = <<Lock>> \o <<>>
  OBVIOUS
<1>3. Takes(may, <<Lock>>) /\ Takes(may, <<File>> \o <<Lock>>)
  BY <1>1, <1>2, CalmEmpty
<1>4. <<File, Lock>> = <<File>> \o <<Lock>>
  BY TuplesAreConcats
<1>5. \A a : <<Lock, a>> = <<Lock>> \o <<a>>
  BY TuplesAreConcats
<1>6. \A a, b : <<Lock, a, b>> = <<Lock>> \o <<a, b>>
  BY TuplesAreConcats
<1>7. \A a, b, c : <<Lock, a, b, c>> = <<Lock>> \o <<a, b, c>>
  BY TuplesAreConcats
<1>8. \A a : Gentle(may, a) => Takes(may, <<Lock, a>>) /\ Takes(may, <<File>> \o <<Lock, a>>)
  BY <1>1, <1>5, CalmSteps
<1>9. \A a, b : Gentle(may, a) /\ Gentle(may, b) => Takes(may, <<Lock, a, b>>)
  BY <1>1, <1>6, CalmSteps
<1>10. \A a, b, c : Gentle(may, a) /\ Gentle(may, b) /\ Gentle(may, c) => Takes(may, <<Lock, a, b, c>>)
  BY <1>1, <1>7, CalmSteps
<1> QED BY <1>3, <1>4, <1>8, <1>9, <1>10

LEMMA SectorScripts ==
    ASSUME NEW may, NEW lba
    PROVE  /\ Takes(may, Identify) /\ Takes(may, ReadSectors(lba)) /\ Takes(may, ReadToFile(lba))
           /\ Takes(may, EraseSectors(lba)) /\ Takes(may, Verify(lba)) /\ Takes(may, BlankCheck(lba))
           /\ \A verify : Takes(may, WriteSectors(lba, <<"file", lba>>, verify))
           /\ \A verify : Takes(may, RestoreFull(lba, <<"file", lba>>, verify))
<1>1. Gentle(may, Ask("ping", 0)) /\ Gentle(may, Ask("get_info", 0)) /\ Gentle(may, Lax("get_ext_csd", 0))
  BY GentleCommand DEF Harmless, PlainSteps
<1>2. Takes(may, <<Lock>>) /\ Takes(may, <<File, Lock>>)
  BY TakesLock
<1>3. Calm(may, read(lba)) /\ Calm(may, Chunked(Ask("erase", lba))) /\ Calm(may, write(lba, <<"file", lba>>))
  BY CalmTransfers
<1>4. Calm(may, <<File>>)
  BY GentleFile, CalmSteps
<1>5. \A type \in {"ChipIdentified", "SectorsRead", "SectorsErased", "SectorsWritten", "RestoreCompleted",
                   "VerifyComplete", "BlankCheckComplete"} : Calm(may, Done(type))
  BY CalmDone DEF Reports
<1>6. Takes(may, Identify)
  <2>1. Takes(may, <<Lock, Ask("ping", 0), Ask("get_info", 0), Lax("get_ext_csd", 0)>>)
    BY <1>1, TakesLock
  <2> QED BY <2>1, <1>5, TakesConcat DEF Identify
<1>7. Takes(may, <<Lock>> \o read(lba)) /\ Takes(may, <<File, Lock>> \o read(lba))
  BY <1>2, <1>3, TakesConcat
<1>8. Takes(may, ReadSectors(lba)) /\ Takes(may, Verify(lba)) /\ Takes(may, BlankCheck(lba))
  BY <1>5, <1>7, TakesConcat DEF ReadSectors, Verify, BlankCheck
<1>9. Takes(may, ReadToFile(lba))
  <2>1. Takes(may, <<Lock>> \o read(lba) \o <<File>>)
    BY <1>4, <1>7, TakesConcat
  <2> QED BY <2>1, <1>5, TakesConcat DEF ReadToFile
<1>10. Takes(may, EraseSectors(lba))
  <2>1. Takes(may, <<Lock>> \o Chunked(Ask("erase", lba)))
    BY <1>2, <1>3, TakesConcat
  <2> QED BY <2>1, <1>5, TakesConcat DEF EraseSectors
<1>11. Takes(may, <<File, Lock>> \o write(lba, <<"file", lba>>))
  BY <1>2, <1>3, TakesConcat
<1>12. ASSUME NEW verify PROVE Takes(may, WriteSectors(lba, <<"file", lba>>, verify))
  <2> DEFINE rest == IF verify THEN read(lba) \o Done("VerifyComplete") ELSE <<>>
  <2>1. Calm(may, rest)
    BY <1>3, <1>5, CalmConcat, CalmEmpty
  <2>2. Takes(may, <<File, Lock>> \o write(lba, <<"file", lba>>) \o Done("SectorsWritten"))
    BY <1>11, <1>5, TakesConcat
  <2> QED BY <2>1, <2>2, TakesConcat DEF WriteSectors
<1>13. ASSUME NEW verify PROVE Takes(may, RestoreFull(lba, <<"file", lba>>, verify))
  <2> DEFINE rest == IF verify THEN Logged(read(lba)) \o Done("VerifyComplete") ELSE <<>>
  <2>1. Calm(may, rest)
    BY <1>3, <1>5, CalmLogged, CalmConcat, CalmEmpty
  <2>2. Takes(may, <<File, Lock>> \o write(lba, <<"file", lba>>) \o Done("RestoreCompleted"))
    BY <1>11, <1>5, TakesConcat
  <2> QED BY <2>1, <2>2, TakesConcat DEF RestoreFull
<1> QED BY <1>6, <1>8, <1>9, <1>10, <1>12, <1>13

LEMMA DumpScript ==
    ASSUME NEW may, NEW lba, NEW verify
    PROVE  Takes(may, DumpFull(lba, verify))
<1> DEFINE Rest(steps) ==
               steps \o <<File>> \o Done("DumpCompleted")
                 \o IF verify THEN Logged(steps) \o Done("VerifyComplete") ELSE <<>>
<1>1. Calm(may, <<File>>) /\ Calm(may, Done("DumpCompleted")) /\ Calm(may, Done("VerifyComplete"))
  BY GentleFile, CalmSteps, CalmDone DEF Reports
<1>2. ASSUME NEW steps, Calm(may, steps) PROVE Calm(may, Rest(steps))
  <2> DEFINE tail == IF verify THEN Logged(steps) \o Done("VerifyComplete") ELSE <<>>
  <2>1. Calm(may, tail)
    BY <1>1, <1>2, CalmLogged, CalmConcat, CalmEmpty
  <2>2. Calm(may, steps \o <<File>>)
    BY <1>1, <1>2, CalmConcat
  <2>3. Calm(may, steps \o <<File>> \o Done("DumpCompleted"))
    BY <1>1, <2>2, CalmConcat
  <2> QED BY <2>1, <2>3, CalmConcat
<1>3. Calm(may, Rest(<<>>)) /\ Calm(may, Rest(read(lba)))
  <2> HIDE DEF Rest
  <2> QED BY <1>2, CalmEmpty, CalmTransfers
<1> HIDE DEF Rest
<1>4. Gentle(may, Ask("ping", 0)) /\ Gentle(may, Ask("get_info", 0)) /\ Gentle(may, Step("get_ext_csd", 0, Rest(<<>>)))
  BY <1>3, GentleCommand, GentleStep DEF Harmless, PlainSteps
<1>5. Takes(may, <<Lock, Ask("ping", 0), Ask("get_info", 0), Step("get_ext_csd", 0, Rest(<<>>))>>)
  BY <1>4, TakesLock
<1>6. Takes(may, <<Lock, Ask("ping", 0), Ask("get_info", 0), Step("get_ext_csd", 0, Rest(<<>>))>> \o Rest(read(lba)))
  BY <1>3, <1>5, TakesConcat
<1> QED BY <1>6 DEF DumpFull, Rest

LEMMA CardScripts ==
    ASSUME NEW may
    PROVE  /\ Takes(may, ReadExtCsd) /\ Takes(may, ControllerStatus)
           /\ \A cmd : \A type \in {"CardStatus", "WriteExtCsd", "SendRawCmd"} :
                 Takes(may, SendRawCmd(cmd, type))
           /\ "reset" \in may => Takes(may, Reinit)
<1>1. /\ Gentle(may, Ask("get_ext_csd", 0)) /\ Gentle(may, Ask("get_status", 0))
      /\ \A cmd : Gentle(may, Ask("raw", cmd))
  BY GentleCommand DEF Harmless, PlainSteps
<1>2. \A type \in {"ExtCsdRead", "ControllerStatusRead", "CardStatus", "WriteExtCsd", "SendRawCmd",
                   "Reinitialized"} : Gentle(may, Tell([type |-> type]))
  BY GentleTell DEF Reports
<1>3. Takes(may, ReadExtCsd) /\ Takes(may, ControllerStatus)
  BY <1>1, <1>2, TakesLock DEF ReadExtCsd, ControllerStatus, Locked
<1>4. \A cmd : \A type \in {"CardStatus", "WriteExtCsd", "SendRawCmd"} : Takes(may, SendRawCmd(cmd, type))
  BY <1>1, <1>2, TakesLock DEF SendRawCmd, Locked
<1>5. ASSUME "reset" \in may PROVE Takes(may, Reinit)
  <2>1. Plain(may, Ask("reinit", 0)) /\ Ask("reinit", 0).fails = Error
    BY <1>5 DEF Plain, PlainSteps, Ask, Step
  <2>2. Gentle(may, Ask("reinit", 0))
    BY <2>1, CalmError DEF Gentle
  <2> QED BY <2>2, <1>2, TakesLock DEF Reinit, Locked
<1> QED BY <1>3, <1>4, <1>5

LEMMA Ext4Scripts ==
    ASSUME NEW may, NEW lba
    PROVE  /\ Takes(may, Ext4Load(lba)) /\ Takes(may, Ext4Navigate(lba)) /\ Takes(may, Ext4ReadFile(lba))
           /\ Takes(may, Ext4Search(lba))
           /\ \A data : data[1] = "file" /\ (data[2] = lba \/ "wander" \in may) =>
                  Takes(may, Ext4OverwriteFile(lba, data)) /\ Takes(may, Ext4CreateFile(lba, data))
<1>1. Gentle(may, Ask("read", lba)) /\ Gentle(may, Lax("read", lba))
  BY GentleCommand DEF Harmless, PlainSteps
<1>2. Takes(may, Opened(lba)) /\ Takes(may, <<File>> \o Opened(lba)) /\ Calm(may, <<Ask("read", lba)>>)
  BY <1>1, TakesLock, CalmSteps DEF Opened
<1>3. \A type \in {"Ext4Loaded", "Ext4DirListing", "Ext4FileContent", "Ext4FileWritten", "Ext4FileCreated",
                   "Ext4SearchDone"} : Calm(may, Done(type))
  BY CalmDone DEF Reports
<1>4. Takes(may, Ext4Load(lba))
  <2>1. Gentle(may, Step("read", lba, Done("Ext4Loaded")))
    BY <1>3, GentleStep DEF Harmless, PlainSteps
  <2>2. Takes(may, Opened(lba) \o <<Step("read", lba, Done("Ext4Loaded"))>>)
    BY <2>1, <1>2, CalmSteps, TakesConcat
  <2>3. Takes(may, Opened(lba) \o <<Step("read", lba, Done("Ext4Loaded"))>> \o Done("Ext4Loaded"))
    BY <2>2, <1>3, TakesConcat
  <2> QED BY <2>3, <1>3, TakesConcat DEF Ext4Load
<1>5. Takes(may, Ext4Navigate(lba)) /\ Takes(may, Ext4ReadFile(lba))
  <2>1. Takes(may, Opened(lba) \o <<Ask("read", lba)>>)
    BY <1>2, TakesConcat
  <2> QED BY <2>1, <1>3, TakesConcat DEF Ext4Navigate, Ext4ReadFile
<1>6. Takes(may, Ext4Search(lba))
  <2>1. Gentle(may, Step("poll", 0, Done("Ext4SearchDone")))
    BY <1>3, GentleStep DEF Harmless, PlainSteps
  <2>2. Calm(may, <<Step("poll", 0, Done("Ext4SearchDone")), Lax("read", lba)>>)
    BY <2>1, <1>1, CalmSteps
  <2>3. Takes(may, Opened(lba) \o <<Step("poll", 0, Done("Ext4SearchDone")), Lax("read", lba)>>)
    BY <2>2, <1>2, TakesConcat
  <2> QED BY <2>3, <1>3, TakesConcat DEF Ext4Search
<1>7. ASSUME NEW data, data[1] = "file", data[2] = lba \/ "wander" \in may
      PROVE  Takes(may, Ext4OverwriteFile(lba, data)) /\ Takes(may, Ext4CreateFile(lba, data))
  <2> DEFINE steps == <<Ask("read", lba), Ask("write", [lba |-> lba, data |-> data])>>
  <2>1. Calm(may, steps)
    BY <1>1, <1>7, GentleWrite, CalmSteps
  <2> HIDE DEF steps
  <2>2. Takes(may, Opened(lba) \o steps) /\ Takes(may, <<File>> \o Opened(lba) \o steps)
    BY <2>1, <1>2, TakesConcat
  <2>3. /\ Takes(may, Opened(lba) \o steps \o Done("Ext4FileCreated"))
        /\ Takes(may, <<File>> \o Opened(lba) \o steps \o Done("Ext4FileWritten"))
    BY <2>2, <1>3, TakesConcat
  <2> QED BY <2>3 DEF Ext4OverwriteFile, Ext4CreateFile, steps
<1> QED BY <1>4, <1>5, <1>6, <1>7

-----------------------------------------------------------------------------
(* The scripts that change a setting, erase in three commands, or connect. *)

IsSeq(q) == \E E : q \in Seq(E)

LEMMA Regroup ==
    ASSUME NEW q, IsSeq(q)
    PROVE  /\ \A a : IsSeq(<<a>> \o q)
           /\ \A a, b : <<a, b>> \o q = <<a>> \o (<<b>> \o q)
           /\ \A a, b, c : <<a, b, c>> \o q = <<a>> \o (<<b>> \o (<<c>> \o q))
           /\ \A a, b, c, d : <<a, b, c, d>> \o q = <<a>> \o (<<b>> \o (<<c>> \o (<<d>> \o q)))
<1>1. ASSUME NEW r, IsSeq(r), NEW a PROVE IsSeq(<<a>> \o r)
  <2>1. PICK E : r \in Seq(E)
    BY <1>1 DEF IsSeq
  <2>2. <<a>> \o r \in Seq(E \union {a})
    BY <2>1, ConsProperties
  <2> QED BY <2>2 DEF IsSeq
<1>2. ASSUME NEW x, IsSeq(x), NEW r, IsSeq(r), NEW a
      PROVE  (<<a>> \o x) \o r = <<a>> \o (x \o r)
  <2>1. <<a>> \in Seq({a})
    OBVIOUS
  <2> QED BY <1>2, <2>1, ConcatIsAssociative DEF IsSeq
<1>3. \A a : IsSeq(<<a>>)
  <2>1. \A a : <<a>> \in Seq({a})
    OBVIOUS
  <2> QED BY <2>1 DEF IsSeq
<1>4. \A a, b : IsSeq(<<a, b>>)
  <2>1. \A a, b : <<a, b>> \in Seq({a, b})
    OBVIOUS
  <2> QED BY <2>1 DEF IsSeq
<1>5. \A a, b, c : IsSeq(<<a, b, c>>)
  <2>1. \A a, b, c : <<a, b, c>> \in Seq({a, b, c})
    OBVIOUS
  <2> QED BY <2>1 DEF IsSeq
<1>6. ASSUME NEW a, NEW b PROVE <<a, b>> \o q = <<a>> \o (<<b>> \o q)
  <2>1. <<a, b>> = <<a>> \o <<b>>
    BY TuplesAreConcats
  <2>2. (<<a>> \o <<b>>) \o q = <<a>> \o (<<b>> \o q)
    BY <1>2, <1>3
  <2> QED BY <2>1, <2>2
<1>7. ASSUME NEW a, NEW b, NEW c
      PROVE  <<a, b, c>> \o q = <<a>> \o (<<b>> \o (<<c>> \o q))
  <2>1. <<a, b, c>> = <<a>> \o <<b, c>>
    BY TuplesAreConcats
  <2>2. (<<a>> \o <<b, c>>) \o q = <<a>> \o (<<b, c>> \o q)
    BY <1>2, <1>4
  <2>3. <<b, c>> \o q = <<b>> \o (<<c>> \o q)
    BY <1>6
  <2> QED BY <2>1, <2>2, <2>3
<1>8. ASSUME NEW a, NEW b, NEW c, NEW d
      PROVE  <<a, b, c, d>> \o q = <<a>> \o (<<b>> \o (<<c>> \o (<<d>> \o q)))
  <2>1. <<a, b, c, d>> = <<a>> \o <<b, c, d>>
    BY TuplesAreConcats
  <2>2. (<<a>> \o <<b, c, d>>) \o q = <<a>> \o (<<b, c, d>> \o q)
    BY <1>2, <1>5
  <2>3. <<b, c, d>> \o q = <<b>> \o (<<c>> \o (<<d>> \o q))
    BY <1>7
  <2> QED BY <2>1, <2>2, <2>3
<1> QED BY <1>1, <1>6, <1>7, <1>8

\* Nothing begun, and something left to report.
Unbegun(p) ==
    /\ DOMAIN p = PhaseFields /\ p.connects \in BOOLEAN /\ p.range = NoRange /\ p.owes = None
    /\ p.connects => ~p.told

LEMMA LockStep ==
    ASSUME NEW p, Unbegun(p), NEW q, Follows([p EXCEPT !.holds = TRUE], q)
    PROVE  Follows(p, <<Lock>> \o q) /\ <<Lock>> \o q # <<>>
<1>1. Lock.do = "lock"
  BY DEF Lock, Step
<1>2. Did(p, Lock) = [p EXCEPT !.holds = TRUE] /\ ~MayFail(Lock)
  BY <1>1 DEF Did, MayFail, Commands
<1>3. Legal(p, Lock)
  BY <1>1 DEF Legal, Commands, Local, Erasing, Writing, Tuning, Telling, Unbegun
<1> QED BY <1>2, <1>3, FollowsCons DEF Unbegun

LEMMA UnlockStep ==
    ASSUME NEW p, Unbegun(p), p.holds, NEW q, Follows([p EXCEPT !.holds = FALSE], q)
    PROVE  Follows(p, <<Unlock>> \o q) /\ <<Unlock>> \o q # <<>>
<1>1. Unlock.do = "unlock"
  BY DEF Unlock, Step
<1>2. Did(p, Unlock) = [p EXCEPT !.holds = FALSE] /\ ~MayFail(Unlock)
  BY <1>1 DEF Did, MayFail, Commands
<1>3. Legal(p, Unlock)
  BY <1>1 DEF Legal, Commands, Local, Erasing, Writing, Tuning, Telling, Unbegun
<1> QED BY <1>2, <1>3, FollowsCons DEF Unbegun

LEMMA AskParts ==
    ASSUME NEW do, NEW arg
    PROVE  /\ Ask(do, arg).do = do /\ Ask(do, arg).arg = arg /\ Ask(do, arg).fails = Error
           /\ ~Ask(do, arg).lax
           /\ Lax(do, arg).do = do /\ Lax(do, arg).arg = arg /\ Lax(do, arg).lax
           /\ \A fails : /\ Step(do, arg, fails).do = do /\ Step(do, arg, fails).arg = arg
                         /\ Step(do, arg, fails).fails = fails /\ ~Step(do, arg, fails).lax
BY DEF Ask, Lax, Step

LEMMA TellParts ==
    ASSUME NEW m
    PROVE  Tell(m).do = "tell" /\ Tell(m).arg = m /\ ~MayFail(Tell(m))
BY DEF Tell, Step, MayFail, Commands

\* A command of the three that gets no answer ends the erase.
Alone(p) == DOMAIN p = PhaseFields /\ p.connects = FALSE /\ p.owes = None /\ p.wants = 0
LEMMA EraseMissed ==
    ASSUME NEW p, Alone(p), NEW a, a.do # "reopen"
    PROVE  Follows(Missed(p, a), Error)
<1> DEFINE z == Missed(p, a)
<1>1. /\ DOMAIN z = PhaseFields /\ z.range = NoRange /\ z.owes = None /\ z.wants = 0
      /\ z.connects = FALSE
  BY DEF Missed, PhaseFields, Alone
<1> HIDE DEF z
<1>2. Follows(z, Error)
  BY <1>1, ErrorFollows
<1> QED BY <1>2 DEF z

\* CMD35, CMD36 and CMD38 under the lock.
LEMMA EraseFollows ==
    ASSUME NEW may, NEW lba \in Nat
    PROVE  Follows(Phase(FALSE, may), SecureErase(lba)) /\ SecureErase(lba) # <<>>
<1> DEFINE a == Ask("cmd35", lba)
           b == Ask("cmd36", lba)
           c == Ask("cmd38", lba)
           done == Done("SecureErased")
<1>1. Calm(may, done) /\ IsSeq(done)
  <2>1. Calm(may, done)
    BY CalmDone DEF Reports
  <2> QED BY <2>1, CalmIsSeq DEF IsSeq
<1>2. SecureErase(lba) = <<Lock>> \o (<<a>> \o (<<b>> \o (<<c>> \o done)))
  <2> HIDE DEF a, b, c, done
  <2>1. \A x1, x2, x3, x4 :
            <<x1, x2, x3, x4>> \o done = <<x1>> \o (<<x2>> \o (<<x3>> \o (<<x4>> \o done)))
    BY <1>1, Regroup
  <2>2. <<Lock, a, b, c>> \o done = <<Lock>> \o (<<a>> \o (<<b>> \o (<<c>> \o done)))
    BY <2>1
  <2> QED BY <2>2 DEF SecureErase, a, b, c, done
<1>3. /\ a.do = "cmd35" /\ a.arg = lba /\ a.fails = Error /\ ~a.lax
      /\ b.do = "cmd36" /\ b.arg = lba /\ b.fails = Error /\ ~b.lax
      /\ c.do = "cmd38" /\ c.arg = lba /\ c.fails = Error /\ ~c.lax
  BY AskParts
<1> DEFINE p == Phase(FALSE, may)
           p0 == [p EXCEPT !.holds = TRUE]
           p1 == [p0 EXCEPT !.range = <<lba>>]
           p2 == [p1 EXCEPT !.range = <<lba, lba>>]
           p3 == [p2 EXCEPT !.range = NoRange]
<1>4. Unbegun(p) /\ Ready(p) /\ p.may = may
  BY DEF Unbegun, Ready, Phase, PhaseFields
<1> HIDE DEF a, b, c, done, p
<1>5. Ready(p0) /\ p0.holds /\ p0.may = may /\ p0.connects = FALSE
  BY <1>4 DEF Ready, Unbegun, PhaseFields
<1>6. /\ DOMAIN p1 = PhaseFields /\ p1.range = <<lba>> /\ p1.holds /\ p1.connects = FALSE /\ p1.owes = None
      /\ p1.wants = 0 /\ p1.may = may
  BY <1>5 DEF Ready, PhaseFields
<1>7. /\ DOMAIN p2 = PhaseFields /\ p2.range = <<lba, lba>> /\ p2.holds /\ p2.connects = FALSE /\ p2.owes = None
      /\ p2.wants = 0 /\ p2.may = may
  BY <1>6 DEF PhaseFields
<1>8. Ready(p3) /\ p3.holds /\ p3.may = may
  BY <1>7 DEF Ready, PhaseFields
<1> DEFINE r0 == p0  r1 == p1  r2 == p2  r3 == p3
<1> HIDE DEF r0, r1, r2, r3
<1>9. Follows(r3, done)
  <2>1. Ready(r3) /\ r3.holds /\ r3.may = may
    BY <1>8 DEF r3
  <2> QED BY <2>1, <1>1, CalmFollows
<1>11. Follows(r2, <<c>> \o done)
  <2>1. Did(r2, c) = r3
    BY <1>3 DEF Did, r2, r3
  <2>2. Legal(r2, c)
    <3>1. Erasing(r2, c) /\ Writing(r2, c)
      BY <1>3, <1>7 DEF Erasing, Writing, r2, NoRange
    <3>2. Tuning(r2, c) /\ Telling(r2, c)
      BY <1>3, <1>7 DEF Tuning, Telling, r2
    <3>3. c.do \in Commands /\ c.do # "unlock" /\ r2.holds
      BY <1>3, <1>7 DEF Commands, r2
    <3> QED BY <3>1, <3>2, <3>3 DEF Legal
  <2>3. Alone(r2) /\ DOMAIN r2 = PhaseFields
    BY <1>7 DEF Alone, r2
  <2>4. Follows(Missed(r2, c), Error)
    <3>1. c.do # "reopen"
      BY <1>3
    <3> QED BY <3>1, <2>3, EraseMissed
  <2> QED BY <2>1, <2>2, <2>3, <2>4, <1>3, <1>9, FollowsCons
<1>12. Follows(r1, <<b>> \o (<<c>> \o done))
  <2>1. Did(r1, b) = r2
    BY <1>3 DEF Did, r1, r2
  <2>2. Legal(r1, b)
    <3>1. Erasing(r1, b) /\ Writing(r1, b)
      BY <1>3, <1>6 DEF Erasing, Writing, r1, NoRange
    <3>2. Tuning(r1, b) /\ Telling(r1, b)
      BY <1>3, <1>6 DEF Tuning, Telling, r1
    <3>3. b.do \in Commands /\ b.do # "unlock" /\ r1.holds
      BY <1>3, <1>6 DEF Commands, r1
    <3> QED BY <3>1, <3>2, <3>3 DEF Legal
  <2>3. Alone(r1) /\ DOMAIN r1 = PhaseFields
    BY <1>6 DEF Alone, r1
  <2>4. Follows(Missed(r1, b), Error)
    <3>1. b.do # "reopen"
      BY <1>3
    <3> QED BY <3>1, <2>3, EraseMissed
  <2> QED BY <2>1, <2>2, <2>3, <2>4, <1>3, <1>11, FollowsCons
<1>13. Follows(r0, <<a>> \o (<<b>> \o (<<c>> \o done)))
  <2>1. Did(r0, a) = r1
    BY <1>3 DEF Did, r1, r0
  <2>2. Legal(r0, a)
    <3>1. Erasing(r0, a) /\ Writing(r0, a)
      BY <1>3, <1>5 DEF Erasing, Writing, r0, NoRange, Ready
    <3>2. Tuning(r0, a) /\ Telling(r0, a)
      BY <1>3, <1>5 DEF Tuning, Telling, r0, Ready
    <3>3. a.do \in Commands /\ a.do # "unlock" /\ r0.holds
      BY <1>3, <1>5 DEF Commands, r0
    <3> QED BY <3>1, <3>2, <3>3 DEF Legal
  <2>3. Alone(r0) /\ DOMAIN r0 = PhaseFields
    BY <1>5 DEF Alone, r0, Ready
  <2>4. Follows(Missed(r0, a), Error)
    <3>1. a.do # "reopen"
      BY <1>3
    <3> QED BY <3>1, <2>3, EraseMissed
  <2> QED BY <2>1, <2>2, <2>3, <2>4, <1>3, <1>12, FollowsCons
<1>14. Follows(p, <<Lock>> \o (<<a>> \o (<<b>> \o (<<c>> \o done)))) /\ <<Lock>> \o (<<a>> \o (<<b>> \o (<<c>> \o done))) # <<>>
  BY <1>4, <1>13, LockStep DEF r0
<1> QED BY <1>2, <1>14 DEF p

\* One command that changes a setting, and the message that says so.
LEMMA SettingFollows ==
    ASSUME NEW may, NEW cmd \in {"set_clk", "set_bus_width", "set_partition"}, NEW arg,
           cmd = "set_clk" => "tune" \in may
    PROVE  LET script == Locked(cmd, arg, ReportOf(Ask(cmd, arg)))
           IN  Follows(Phase(FALSE, may), script) /\ script # <<>>
<1> DEFINE a == Ask(cmd, arg)
           m == ReportOf(a)
           b == Tell(m)
           p == Phase(FALSE, may)
           p0 == [p EXCEPT !.holds = TRUE]
           p1 == [p0 EXCEPT !.owes = m]
           p2 == [p1 EXCEPT !.owes = None]
<1>1. a.do = cmd /\ a.arg = arg /\ a.fails = Error /\ ~a.lax
  BY AskParts
<1>2. b.do = "tell" /\ b.arg = m /\ ~MayFail(b)
  BY TellParts
<1>3. m # None /\ m.type # "ConnectedWithSpeed"
  <2>1. "type" \in DOMAIN m /\ m.type # "ConnectedWithSpeed"
    BY <1>1 DEF ReportOf
  <2>2. "type" \notin DOMAIN None
    BY DEF None
  <2> QED BY <2>1, <2>2
<1>4. Unbegun(p) /\ Ready(p) /\ p.may = may
  BY DEF Unbegun, Ready, Phase, PhaseFields
<1> HIDE DEF a, b, m, p
<1>5. Ready(p0) /\ p0.holds /\ p0.may = may /\ p0.connects = FALSE
  BY <1>4 DEF Ready, Unbegun, PhaseFields
<1>6. /\ DOMAIN p1 = PhaseFields /\ p1.owes = m /\ p1.range = NoRange /\ p1.wants = 0 /\ ~p1.connects
      /\ p1.may = may
  BY <1>5 DEF Ready, PhaseFields
<1>7. DOMAIN p2 = PhaseFields /\ Ends(p2)
  BY <1>6 DEF Ends, PhaseFields
<1> DEFINE r0 == p0  r1 == p1  r2 == p2
<1> HIDE DEF r0, r1, r2
<1>8. Follows(r1, <<b>> \o <<>>)
  <2>1. Did(r1, b) = r2
    BY <1>2, <1>3, <1>6 DEF Did, r1, r2
  <2>2. Legal(r1, b)
    BY <1>2, <1>3, <1>6 DEF Legal, Commands, Local, Erasing, Writing, Tuning, Telling, r1
  <2>3. Follows(r2, <<>>)
    BY <1>7, FollowsEmpty DEF r2
  <2>4. DOMAIN r1 = PhaseFields
    BY <1>6 DEF r1
  <2> QED BY <2>1, <2>2, <2>3, <2>4, <1>2, FollowsCons
<1>9. Follows(r0, <<a>> \o (<<b>> \o <<>>))
  <2>1. Did(r0, a) = r1
    BY <1>1, <1>5 DEF Did, r0, r1, Ready, m
  <2>2. Legal(r0, a)
    BY <1>1, <1>5 DEF Legal, Commands, Local, Erasing, Writing, Tuning, Telling, r0, Ready
  <2>3. Missed(r0, a) = r0
    BY <1>1, <1>5 DEF Missed, Ready, r0
  <2>4. Follows(r0, Error)
    BY <1>5, ErrorFollows DEF r0, Ready
  <2>5. DOMAIN r0 = PhaseFields
    BY <1>5 DEF r0, Ready
  <2> QED BY <2>1, <2>2, <2>3, <2>4, <2>5, <1>1, <1>8, FollowsCons
<1>10. Follows(p, <<Lock>> \o (<<a>> \o (<<b>> \o <<>>))) /\ <<Lock>> \o (<<a>> \o (<<b>> \o <<>>)) # <<>>
  BY <1>4, <1>9, LockStep DEF r0
<1>11. <<Lock, a, b>> = <<Lock>> \o (<<a>> \o (<<b>> \o <<>>))
  <2>1. <<b>> \o <<>> = <<b>>
    OBVIOUS
  <2>2. <<a, b>> = <<a>> \o <<b>>
    BY TuplesAreConcats
  <2>3. \A x : <<x, a, b>> = <<x>> \o <<a, b>>
    BY TuplesAreConcats
  <2> QED BY <2>1, <2>2, <2>3
<1> QED BY <1>10, <1>11 DEF Locked, p, a, b, m

LEMMA StepParts ==
    ASSUME NEW do, NEW arg, NEW fails
    PROVE  /\ Step(do, arg, fails).do = do /\ Step(do, arg, fails).arg = arg
           /\ Step(do, arg, fails).fails = fails /\ ~Step(do, arg, fails).lax
BY DEF Step

MayTune(p) == p.connects \/ "tune" \in p.may

\* The step that changes the rate of the reader, with permission.
LEMMA RateStep ==
    ASSUME NEW p, Unbegun(p), MayTune(p), p.holds, p.wants = 0,
           NEW preset \in Presets, NEW fails, NEW q,
           Follows([p EXCEPT !.wants = UART_BAUD_RATES[preset]], q),
           Follows(Missed(p, Step("set_baud", preset, fails)), fails)
    PROVE  Follows(p, <<Step("set_baud", preset, fails)>> \o q)
<1> DEFINE a == Step("set_baud", preset, fails)
<1>1. a.do = "set_baud" /\ a.arg = preset /\ a.fails = fails /\ ~a.lax
  BY StepParts
<1>2. Follows(Missed(p, a), fails)
  OBVIOUS
<1> HIDE DEF a
<1>3. Did(p, a) = [p EXCEPT !.wants = UART_BAUD_RATES[preset]]
  BY <1>1 DEF Did
<1>4. Legal(p, a)
  <2>1. Erasing(p, a) /\ Writing(p, a) /\ Telling(p, a)
    BY <1>1 DEF Erasing, Writing, Telling, Unbegun
  <2>2. Tuning(p, a)
    BY <1>1 DEF Tuning, MayTune
  <2> QED BY <1>1, <2>1, <2>2 DEF Legal, Commands
<1>5. Follows(p, <<a>> \o q)
  BY <1>1, <1>2, <1>3, <1>4, FollowsCons DEF Unbegun
<1> QED BY <1>5 DEF a

\* The connection follows the rate of the reader.
Renewed(p) == [[[p EXCEPT !.holds = TRUE] EXCEPT !.wants = 0] EXCEPT !.holds = FALSE]

LEMMA RenewFollows ==
    ASSUME NEW p, Unbegun(p), MayTune(p), NEW r, r # 0, p.wants = r, NEW q, IsSeq(q),
           Follows(Renewed(p), q)
    PROVE  Follows(p, Renew(r) \o q)
<1> DEFINE a == Step("reopen", r, Error)
           b == Step("replace", r, <<>>)
<1>1. Renew(r) \o q = <<a>> \o (<<Lock>> \o (<<b>> \o (<<Unlock>> \o q)))
  <2> HIDE DEF a, b
  <2>1. \A x1, x2, x3, x4 :
            <<x1, x2, x3, x4>> \o q = <<x1>> \o (<<x2>> \o (<<x3>> \o (<<x4>> \o q)))
    BY Regroup
  <2>2. <<a, Lock, b, Unlock>> \o q = <<a>> \o (<<Lock>> \o (<<b>> \o (<<Unlock>> \o q)))
    BY <2>1
  <2> QED BY <2>2 DEF Renew, a, b
<1>2. /\ a.do = "reopen" /\ a.fails = Error /\ ~a.lax
      /\ b.do = "replace" /\ b.arg = r
  BY StepParts
<1> HIDE DEF a, b
<1> DEFINE p1 == [p EXCEPT !.holds = TRUE]
           p2 == [p1 EXCEPT !.wants = 0]
<1>3. Unbegun(p1) /\ MayTune(p1) /\ p1.holds /\ p1.wants = r
  BY DEF Unbegun, MayTune, PhaseFields
<1> HIDE DEF p1
<1>4. Unbegun(p2) /\ p2.holds
  BY <1>3 DEF Unbegun, PhaseFields
<1> HIDE DEF p2
<1>5. Follows(p2, <<Unlock>> \o q)
  <2>1. Follows([p2 EXCEPT !.holds = FALSE], q)
    BY DEF Renewed, p1, p2
  <2> QED BY <2>1, <1>4, UnlockStep
<1>6. Follows(p1, <<b>> \o (<<Unlock>> \o q))
  <2>1. Did(p1, b) = p2 /\ ~MayFail(b)
    BY <1>2 DEF Did, p2, MayFail, Commands
  <2>2. Erasing(p1, b) /\ Writing(p1, b) /\ Telling(p1, b)
    BY <1>2, <1>3 DEF Erasing, Writing, Telling, Unbegun
  <2>3. Tuning(p1, b)
    BY <1>2, <1>3 DEF Tuning, MayTune
  <2>4. Legal(p1, b)
    BY <1>2, <1>3, <2>2, <2>3 DEF Legal, Local, Commands
  <2> QED BY <2>1, <2>4, <1>3, <1>5, FollowsCons DEF Unbegun
<1>7. Follows(p, <<Lock>> \o (<<b>> \o (<<Unlock>> \o q)))
  BY <1>6, LockStep DEF p1
<1>8. Follows(Missed(p, a), Error)
  <2> DEFINE z == Missed(p, a)
  <2>1. /\ DOMAIN z = PhaseFields /\ z.range = NoRange /\ z.owes = None /\ z.connects = p.connects
        /\ z.told = p.told /\ z.lost = p.lost \union {"shown"} \union {"rate"}
    BY <1>2 DEF Missed, PhaseFields, Unbegun
  <2>2. /\ DOMAIN z = PhaseFields /\ z.range = NoRange /\ z.owes = None /\ "rate" \in z.lost
        /\ (z.connects => ~z.told /\ "shown" \in z.lost) /\ z.connects \in BOOLEAN
    BY <2>1 DEF Unbegun
  <2> HIDE DEF z
  <2>3. Follows(z, Error)
    BY <2>2, ErrorFollows
  <2> QED BY <2>3 DEF z
<1>9. Legal(p, a)
  <2>1. Erasing(p, a) /\ Writing(p, a) /\ Telling(p, a)
    BY <1>2 DEF Erasing, Writing, Telling, Unbegun
  <2>2. Tuning(p, a)
    BY <1>2 DEF Tuning
  <2> QED BY <1>2, <2>1, <2>2 DEF Legal, Local, Commands
<1>10. Follows(p, <<a>> \o (<<Lock>> \o (<<b>> \o (<<Unlock>> \o q))))
  <2>1. Did(p, a) = p
    BY <1>2 DEF Did
  <2> QED BY <1>2, <1>7, <1>8, <1>9, <2>1, FollowsCons DEF Unbegun
<1> QED BY <1>1, <1>10

LEMMA RatesAreNotZero == \A preset \in Presets : UART_BAUD_RATES[preset] # 0
BY DEF Presets, UART_BAUD_RATES

\* A message of a thread that has nothing begun and is not a connecting.
LEMMA ReportFollows ==
    ASSUME NEW p, DOMAIN p = PhaseFields, Ready(p),
           NEW m, m.type \notin Reports \union {"ConnectedWithSpeed"}
    PROVE  Follows(p, <<Tell(m)>>) /\ IsSeq(<<Tell(m)>>)
<1> DEFINE a == Tell(m)
<1>1. a.do = "tell" /\ a.arg = m /\ ~MayFail(a)
  BY TellParts
<1> HIDE DEF a
<1>2. Did(p, a) = p
  BY <1>1 DEF Did, Ready
<1>3. Erasing(p, a) /\ Writing(p, a) /\ Tuning(p, a) /\ Telling(p, a)
  BY <1>1 DEF Erasing, Writing, Tuning, Telling, Ready, Reports
<1>4. Legal(p, a)
  BY <1>1, <1>3 DEF Legal, Local, Commands
<1>5. Follows(p, <<>>)
  BY FollowsEmpty DEF Ready, Ends
<1>6. Follows(p, <<a>> \o <<>>)
  BY <1>1, <1>2, <1>4, <1>5, FollowsCons
<1>7. <<a>> \o <<>> = <<a>> /\ <<a>> \in Seq({a})
  OBVIOUS
<1>8. IsSeq(<<a>>)
  BY <1>7 DEF IsSeq
<1> QED BY <1>6, <1>7, <1>8 DEF a

LEMMA SetBaudFollows ==
    ASSUME NEW may, "tune" \in may, NEW preset \in Presets
    PROVE  Follows(Phase(FALSE, may), SetBaud(preset)) /\ SetBaud(preset) # <<>>
<1> DEFINE r == UART_BAUD_RATES[preset]
           m == [type |-> "BaudSet", preset |-> preset, baud |-> r]
           last == <<Tell(m)>>
           a == Step("set_baud", preset, Error)
           p == Phase(FALSE, may)
           p1 == [p EXCEPT !.holds = TRUE]
           p2 == [p1 EXCEPT !.wants = r]
           p3 == [p2 EXCEPT !.holds = FALSE]
<1>1. r # 0
  BY RatesAreNotZero
<1> HIDE DEF r
<1>2. DOMAIN p = PhaseFields /\ Ready(p) /\ Unbegun(p) /\ MayTune(p)
  BY DEF Ready, Unbegun, Phase, PhaseFields, MayTune
<1> HIDE DEF p
<1>3. Ready(p1) /\ Unbegun(p1) /\ MayTune(p1) /\ p1.holds /\ p1.wants = 0 /\ p1.connects = FALSE
  BY <1>2 DEF Ready, Unbegun, MayTune, PhaseFields
<1> HIDE DEF p1
<1>4. Unbegun(p2) /\ MayTune(p2) /\ p2.holds /\ p2.wants = r /\ p2.connects = FALSE
  BY <1>3 DEF Unbegun, MayTune, PhaseFields
<1> HIDE DEF p2
<1>5. Unbegun(p3) /\ MayTune(p3) /\ p3.wants = r /\ p3.connects = FALSE
  BY <1>4 DEF Unbegun, MayTune, PhaseFields
<1>6. Ready(Renewed(p3))
  <2> HIDE DEF p3
  <2> QED BY <1>5 DEF Renewed, Ready, Unbegun, PhaseFields
<1>7. Follows(Renewed(p3), last) /\ IsSeq(last)
  <2>1. m.type \notin Reports \union {"ConnectedWithSpeed"}
    BY DEF Reports
  <2> HIDE DEF m, p3
  <2> QED BY <2>1, <1>6, ReportFollows DEF Ready
<1> HIDE DEF last
<1>8. Follows(p3, Renew(r) \o last)
  <2> HIDE DEF p3
  <2> QED BY <1>1, <1>5, <1>7, RenewFollows
<1>9. Follows(p2, <<Unlock>> \o (Renew(r) \o last))
  BY <1>4, <1>8, UnlockStep
<1>10. Follows(p1, <<a>> \o (<<Unlock>> \o (Renew(r) \o last)))
  <2>1. Missed(p1, a) = p1
    BY <1>3, StepParts DEF Missed, Ready
  <2>2. Follows(p1, Error)
    BY <1>3, ErrorFollows DEF Ready
  <2>3. Follows([p1 EXCEPT !.wants = UART_BAUD_RATES[preset]], <<Unlock>> \o (Renew(r) \o last))
    BY <1>9 DEF p2, r
  <2> QED BY <1>3, <2>1, <2>2, <2>3, RateStep
<1>11. /\ Follows(p, <<Lock>> \o (<<a>> \o (<<Unlock>> \o (Renew(r) \o last))))
       /\ <<Lock>> \o (<<a>> \o (<<Unlock>> \o (Renew(r) \o last))) # <<>>
  BY <1>2, <1>10, LockStep DEF p1
<1>12. SetBaud(preset) = <<Lock>> \o (<<a>> \o (<<Unlock>> \o (Renew(r) \o last)))
  <2>1. IsSeq(Renew(r))
    <3>1. Renew(r) \in Seq({Step("reopen", r, Error), Lock, Step("replace", r, <<>>), Unlock})
      BY DEF Renew
    <3> QED BY <3>1 DEF IsSeq
  <2>2. IsSeq(Renew(r) \o last)
    BY <2>1, <1>7, ConcatIsAssociative DEF IsSeq
  <2>3. <<Lock, a, Unlock>> \in Seq({Lock, a, Unlock})
    OBVIOUS
  <2>4. (<<Lock, a, Unlock>> \o Renew(r)) \o last = <<Lock, a, Unlock>> \o (Renew(r) \o last)
    BY <2>1, <2>3, <1>7, ConcatIsAssociative DEF IsSeq
  <2>5. \A x1, x2, x3 : <<x1, x2, x3>> \o (Renew(r) \o last)
                            = <<x1>> \o (<<x2>> \o (<<x3>> \o (Renew(r) \o last)))
    BY <2>2, Regroup
  <2>6. <<Lock, a, Unlock>> \o (Renew(r) \o last)
            = <<Lock>> \o (<<a>> \o (<<Unlock>> \o (Renew(r) \o last)))
    BY <2>5
  <2>7. SetBaud(preset) = (<<Lock, a, Unlock>> \o Renew(r)) \o last
    BY DEF SetBaud, Ask, last, m, r
  <2> QED BY <2>4, <2>6, <2>7
<1> QED BY <1>11, <1>12 DEF p

\* The end of a connecting: its message.
Bound(p, clk) ==
    /\ DOMAIN p = PhaseFields /\ p.connects = TRUE /\ p.told = FALSE /\ p.range = NoRange
    /\ p.owes = None /\ p.proved = TRUE /\ (p.clk = clk \/ "shown" \in p.lost)

LEMMA ShownFollows ==
    ASSUME NEW p, NEW clk, Bound(p, clk), p.wants = 0,
           NEW m, m.type = "ConnectedWithSpeed", m.clk = clk
    PROVE  Follows(p, <<Tell(m)>>) /\ IsSeq(<<Tell(m)>>)
<1> DEFINE a == Tell(m)
<1>1. a.do = "tell" /\ a.arg = m /\ ~MayFail(a)
  BY TellParts
<1> HIDE DEF a
<1>2. Legal(p, a)
  <2>1. Erasing(p, a) /\ Writing(p, a)
    BY <1>1 DEF Erasing, Writing, Bound
  <2>2. Tuning(p, a)
    BY <1>1 DEF Tuning
  <2>3. Telling(p, a)
    BY <1>1 DEF Telling, Bound
  <2> QED BY <1>1, <2>1, <2>2, <2>3 DEF Legal, Local, Commands
<1>3. Did(p, a) = [p EXCEPT !.told = TRUE]
  BY <1>1 DEF Did, Bound
<1>4. DOMAIN Did(p, a) = PhaseFields /\ Ends(Did(p, a))
  BY <1>3 DEF Ends, Bound, PhaseFields
<1>5. Follows(Did(p, a), <<>>)
  BY <1>4, FollowsEmpty
<1>6. Follows(p, <<a>> \o <<>>)
  BY <1>1, <1>2, <1>5, FollowsCons DEF Bound
<1>7. <<a>> \o <<>> = <<a>> /\ <<a>> \in Seq({a})
  OBVIOUS
<1>8. IsSeq(<<a>>)
  BY <1>7 DEF IsSeq
<1> QED BY <1>6, <1>7, <1>8 DEF a

LEMMA BoundIsUnbegun ==
    ASSUME NEW p, NEW clk, Bound(p, clk)
    PROVE  /\ DOMAIN p = PhaseFields /\ Unbegun(p) /\ MayTune(p)
           /\ Bound([p EXCEPT !.holds = TRUE], clk) /\ Bound([p EXCEPT !.holds = FALSE], clk)
           /\ \A r : Bound([p EXCEPT !.wants = r], clk) /\ [p EXCEPT !.wants = r].holds = p.holds
           /\ [p EXCEPT !.holds = TRUE].wants = p.wants /\ [p EXCEPT !.holds = FALSE].wants = p.wants
           /\ [p EXCEPT !.holds = TRUE].holds
<1>1. DOMAIN p = PhaseFields /\ Unbegun(p) /\ MayTune(p)
  BY DEF Bound, Unbegun, MayTune
<1>2. Bound([p EXCEPT !.holds = TRUE], clk) /\ Bound([p EXCEPT !.holds = FALSE], clk)
  BY DEF Bound, PhaseFields
<1>3. \A r : Bound([p EXCEPT !.wants = r], clk) /\ [p EXCEPT !.wants = r].holds = p.holds
  BY DEF Bound, PhaseFields
<1>4. /\ [p EXCEPT !.holds = TRUE].wants = p.wants /\ [p EXCEPT !.holds = FALSE].wants = p.wants
      /\ [p EXCEPT !.holds = TRUE].holds
  BY DEF Bound, PhaseFields
<1> QED BY <1>1, <1>2, <1>3, <1>4

\* The rate and then the message; the lock is held at first.
LEMMA TuneFollows ==
    ASSUME NEW p, NEW clk, Bound(p, clk), p.holds, p.wants = 0, NEW preset \in Presets,
           NEW m, m.type = "ConnectedWithSpeed", m.clk = clk
    PROVE  LET shown == <<Tell(m)>>
           IN  /\ Follows(p, <<Unlock>> \o shown)
               /\ Follows(p, <<Step("set_baud", preset, <<Unlock>> \o shown)>>
                               \o (<<Unlock>> \o (Renew(UART_BAUD_RATES[preset]) \o shown)))
<1> DEFINE shown == <<Tell(m)>>
           r == UART_BAUD_RATES[preset]
           a == Step("set_baud", preset, <<Unlock>> \o shown)
<1>1. \A q : Bound(q, clk) /\ q.wants = 0 => Follows(q, shown)
  BY ShownFollows
<1>2. IsSeq(shown)
  BY ShownFollows
<1>3. r # 0
  BY RatesAreNotZero
<1> HIDE DEF shown, r
<1>4. ASSUME NEW q, Bound(q, clk), q.holds, q.wants = 0 PROVE Follows(q, <<Unlock>> \o shown)
  <2>1. Bound([q EXCEPT !.holds = FALSE], clk) /\ [q EXCEPT !.holds = FALSE].wants = 0 /\ Unbegun(q)
    BY <1>4, BoundIsUnbegun
  <2>2. Follows([q EXCEPT !.holds = FALSE], shown)
    BY <2>1, <1>1
  <2> QED BY <1>4, <2>1, <2>2, UnlockStep
<1> DEFINE p1 == [p EXCEPT !.wants = r]
           p2 == [p1 EXCEPT !.holds = FALSE]
           p3 == Renewed(p2)
<1>5. Bound(p1, clk) /\ p1.holds /\ p1.wants = r
  BY BoundIsUnbegun DEF Bound, PhaseFields
<1> HIDE DEF p1
<1>6. Bound(p2, clk) /\ p2.wants = r
  BY <1>5, BoundIsUnbegun
<1> HIDE DEF p2
<1>7. Bound(p3, clk) /\ p3.wants = 0
  BY <1>6 DEF Renewed, Bound, PhaseFields
<1> HIDE DEF p3
<1>8. Follows(p2, Renew(r) \o shown)
  <2>1. Follows(Renewed(p2), shown)
    BY <1>1, <1>7 DEF p3
  <2>2. Unbegun(p2) /\ MayTune(p2)
    BY <1>6, BoundIsUnbegun
  <2> QED BY <1>2, <1>3, <1>6, <2>1, <2>2, RenewFollows
<1>9. Follows(p1, <<Unlock>> \o (Renew(r) \o shown))
  <2>1. Unbegun(p1)
    BY <1>5, BoundIsUnbegun
  <2> QED BY <2>1, <1>5, <1>8, UnlockStep DEF p2
<1>10. Follows(Missed(p, a), <<Unlock>> \o shown)
  <2> DEFINE z == Missed(p, a)
  <2>1. a.do = "set_baud"
    BY StepParts
  <2>2. Bound(z, clk) /\ z.holds /\ z.wants = 0
    BY <2>1 DEF Missed, Bound, PhaseFields
  <2> HIDE DEF z
  <2>3. Follows(z, <<Unlock>> \o shown)
    BY <2>2, <1>4
  <2> QED BY <2>3 DEF z
<1>11. Follows(p, <<a>> \o (<<Unlock>> \o (Renew(r) \o shown)))
  <2>1. Unbegun(p) /\ MayTune(p)
    BY BoundIsUnbegun
  <2>2. Follows([p EXCEPT !.wants = UART_BAUD_RATES[preset]], <<Unlock>> \o (Renew(r) \o shown))
    BY <1>9 DEF p1, r
  <2> QED BY <1>10, <2>1, <2>2, RateStep
<1>12. Follows(p, <<Unlock>> \o shown)
  BY <1>4
<1> QED BY <1>11, <1>12 DEF shown, r

LEMMA LaxParts ==
    ASSUME NEW do, NEW arg
    PROVE  Lax(do, arg).do = do /\ Lax(do, arg).arg = arg /\ Lax(do, arg).lax
BY DEF Lax, Step

LEMMA ProfileValues ==
    ASSUME NEW profile \in SpeedProfile
    PROVE  baud_preset[profile] \in Presets /\ target_baud(profile) = UART_BAUD_RATES[baud_preset[profile]]
BY DEF baud_preset, Presets, SpeedProfile, target_baud

\* The clock, whether the reader accepts it or not, and then the rest.
LEMMA ClockFollows ==
    ASSUME NEW p, NEW old, Bound(p, old), p.holds, p.wants = 0, NEW clk, NEW q,
           \A z : Bound(z, clk) /\ z.holds /\ z.wants = 0 => Follows(z, q)
    PROVE  Follows(p, <<Lax("set_clk", clk)>> \o q)
<1> DEFINE a == Lax("set_clk", clk)
<1>1. a.do = "set_clk" /\ a.arg = clk /\ a.lax
  BY LaxParts
<1> HIDE DEF a
<1> DEFINE y == Did(p, a)
           z == Missed(p, a)
<1>2. Bound(y, clk) /\ y.holds /\ y.wants = 0
  <2>1. y = [p EXCEPT !.clk = clk]
    BY <1>1 DEF Did, Bound
  <2> HIDE DEF y
  <2> QED BY <2>1 DEF Bound, PhaseFields
<1>3. Bound(z, clk) /\ z.holds /\ z.wants = 0
  BY <1>1 DEF Missed, Bound, PhaseFields
<1> HIDE DEF y, z
<1>4. Follows(y, q) /\ Follows(z, q)
  BY <1>2, <1>3
<1>5. Legal(p, a)
  <2>1. Erasing(p, a) /\ Writing(p, a) /\ Telling(p, a)
    BY <1>1 DEF Erasing, Writing, Telling, Bound
  <2>2. Tuning(p, a)
    BY <1>1 DEF Tuning, Bound
  <2> QED BY <1>1, <2>1, <2>2 DEF Legal, Local, Commands
<1>6. Follows(p, <<a>> \o q)
  BY <1>1, <1>4, <1>5, FollowsCons DEF Bound, y, z
<1> QED BY <1>6 DEF a

\* The ping, without which nothing else happens.
LEMMA PingFollows ==
    ASSUME NEW q, IsSeq(q), \A z : Bound(z, 0) /\ z.wants = 0 => Follows(z, q)
    PROVE  LET script == <<Lock, Ask("ping", 0), Unlock>> \o q
           IN  Follows(Phase(TRUE, {}), script) /\ script # <<>>
<1> DEFINE a == Ask("ping", 0)
           p == Phase(TRUE, {})
           p1 == [p EXCEPT !.holds = TRUE]
           p2 == [p1 EXCEPT !.proved = TRUE]
           p3 == [p2 EXCEPT !.holds = FALSE]
<1>1. a.do = "ping" /\ a.fails = Error /\ ~a.lax
  BY AskParts
<1>2. /\ DOMAIN p = PhaseFields /\ p.connects = TRUE /\ p.told = FALSE /\ p.range = NoRange
      /\ p.owes = None /\ p.wants = 0 /\ p.clk = 0
  BY DEF Phase, PhaseFields
<1> HIDE DEF a, p
<1>3. /\ DOMAIN p1 = PhaseFields /\ p1.connects = TRUE /\ p1.told = FALSE /\ p1.range = NoRange
      /\ p1.owes = None /\ p1.wants = 0 /\ p1.clk = 0 /\ p1.holds
  BY <1>2 DEF PhaseFields
<1> HIDE DEF p1
<1>4. Bound(p2, 0) /\ p2.holds /\ p2.wants = 0
  BY <1>3 DEF Bound, PhaseFields
<1> HIDE DEF p2
<1>5. Bound(p3, 0) /\ p3.wants = 0
  BY <1>4, BoundIsUnbegun
<1>6. Follows(p3, q)
  <2> HIDE DEF p3
  <2> QED BY <1>5
<1>7. Follows(p2, <<Unlock>> \o q)
  <2>1. Unbegun(p2)
    BY <1>4, BoundIsUnbegun
  <2> QED BY <2>1, <1>4, <1>6, UnlockStep
<1>8. Follows(p1, <<a>> \o (<<Unlock>> \o q))
  <2>1. Did(p1, a) = p2
    BY <1>1, <1>3 DEF Did, p2
  <2>2. Legal(p1, a)
    <3>1. Erasing(p1, a) /\ Writing(p1, a) /\ Telling(p1, a)
      BY <1>1, <1>3 DEF Erasing, Writing, Telling
    <3>2. Tuning(p1, a)
      BY <1>1, <1>3 DEF Tuning
    <3> QED BY <1>1, <1>3, <3>1, <3>2 DEF Legal, Local, Commands
  <2>3. Follows(Missed(p1, a), Error)
    <3> DEFINE z == Missed(p1, a)
    <3>1. /\ DOMAIN z = PhaseFields /\ z.connects = TRUE /\ z.told = FALSE /\ z.range = NoRange
          /\ z.owes = None /\ z.wants = 0 /\ "shown" \in z.lost
      BY <1>1, <1>3 DEF Missed, PhaseFields
    <3> HIDE DEF z
    <3>2. Follows(z, Error)
      BY <3>1, ErrorFollows
    <3> QED BY <3>2 DEF z
  <2> QED BY <1>1, <1>3, <1>7, <2>1, <2>2, <2>3, FollowsCons
<1>9. /\ Follows(p, <<Lock>> \o (<<a>> \o (<<Unlock>> \o q)))
      /\ <<Lock>> \o (<<a>> \o (<<Unlock>> \o q)) # <<>>
  <2>1. Unbegun(p)
    BY <1>2 DEF Unbegun
  <2> QED BY <2>1, <1>8, LockStep DEF p1
<1>10. <<Lock, a, Unlock>> \o q = <<Lock>> \o (<<a>> \o (<<Unlock>> \o q))
  <2>1. \A x1, x2, x3 : <<x1, x2, x3>> \o q = <<x1>> \o (<<x2>> \o (<<x3>> \o q))
    BY Regroup
  <2> QED BY <2>1
<1> QED BY <1>9, <1>10 DEF a, p

LEMMA SeqsAssociate ==
    ASSUME NEW x, NEW q, NEW r, IsSeq(x), IsSeq(q), IsSeq(r)
    PROVE  (x \o q) \o r = x \o (q \o r) /\ IsSeq(q \o r)
BY ConcatIsAssociative DEF IsSeq

LEMMA TuplesAreSeqs == (\A a : IsSeq(<<a>>)) /\ (\A a, b : IsSeq(<<a, b>>))
<1>1. \A a : <<a>> \in Seq({a})
  OBVIOUS
<1>2. \A a, b : <<a, b>> \in Seq({a, b})
  OBVIOUS
<1> QED BY <1>1, <1>2 DEF IsSeq

LEMMA NegotiateFollows ==
    ASSUME NEW fifo \in BOOLEAN, NEW profile \in SpeedProfile
    PROVE  Follows(Phase(TRUE, {}), Negotiate(fifo, profile)) /\ Negotiate(fifo, profile) # <<>>
<1> DEFINE baud == IF fifo THEN 0 ELSE target_baud(profile)
           clk == clk_preset[profile]
           m == [type |-> "ConnectedWithSpeed", baud |-> baud, preset |-> baud_preset[profile], clk |-> clk]
           shown == <<Tell(m)>>
           preset == baud_preset[profile]
           r == UART_BAUD_RATES[preset]
           lock == <<Lock, Ask("ping", 0), Unlock>>
           a == Lax("set_clk", clk)
           b == Step("set_baud", preset, <<Unlock>> \o shown)
           quick == <<b, Unlock>> \o Renew(r)
           speed == IF clk = 0 THEN <<>> ELSE <<Lock, a>> \o (IF fifo THEN <<Unlock>> ELSE quick)
<1>1. m.type = "ConnectedWithSpeed" /\ m.clk = clk
  OBVIOUS
<1>2. preset \in Presets /\ target_baud(profile) = r
  BY ProfileValues
<1>3. Negotiate(fifo, profile) = (lock \o speed) \o shown
  BY <1>2 DEF Negotiate
<1> HIDE DEF m
<1>4. IsSeq(shown) /\ \A z : Bound(z, clk) /\ z.wants = 0 => Follows(z, shown)
  BY <1>1, ShownFollows, TuplesAreSeqs
<1>5. ASSUME NEW z, Bound(z, clk), z.holds, z.wants = 0
      PROVE  Follows(z, <<Unlock>> \o shown) /\ Follows(z, <<b>> \o (<<Unlock>> \o (Renew(r) \o shown)))
  BY <1>1, <1>2, <1>5, TuneFollows
<1> HIDE DEF shown, preset, r, clk, a, b
<1>6. IsSeq(lock) /\ IsSeq(speed) /\ IsSeq(Renew(r)) /\ IsSeq(quick)
  <2>1. lock \in Seq({Lock, Ask("ping", 0), Unlock})
    OBVIOUS
  <2>2. Renew(r) \in Seq({Step("reopen", r, Error), Lock, Step("replace", r, <<>>), Unlock})
    BY DEF Renew
  <2>3. <<b, Unlock>> \in Seq({b, Unlock}) /\ <<Lock, a>> \in Seq({Lock, a}) /\ <<Unlock>> \in Seq({Unlock})
        /\ <<>> \in Seq({})
    OBVIOUS
  <2>4. IsSeq(quick)
    BY <2>2, <2>3, ConcatIsAssociative DEF IsSeq
  <2> HIDE DEF quick
  <2>5. IsSeq(speed)
    BY <2>3, <2>4, ConcatIsAssociative DEF IsSeq
  <2> QED BY <2>1, <2>2, <2>4, <2>5 DEF IsSeq
<1>7. (lock \o speed) \o shown = lock \o (speed \o shown) /\ IsSeq(speed \o shown)
  <2> HIDE DEF lock, speed, shown
  <2>1. IsSeq(lock) /\ IsSeq(speed) /\ IsSeq(shown)
    BY <1>4, <1>6
  <2> QED BY <2>1, SeqsAssociate
<1>8. ASSUME NEW z, Bound(z, 0), z.wants = 0 PROVE Follows(z, speed \o shown)
  <2>1. CASE clk = 0
    <3>1. speed \o shown = shown
      <4>1. <<>> \o shown = shown
        BY <1>4 DEF IsSeq
      <4> QED BY <4>1, <2>1
    <3> QED BY <3>1, <2>1, <1>4, <1>8
  <2>2. CASE clk # 0
    <3> DEFINE rest == IF fifo THEN <<Unlock>> \o shown ELSE <<b>> \o (<<Unlock>> \o (Renew(r) \o shown))
    <3>1. speed \o shown = <<Lock>> \o (<<a>> \o rest)
      <4> DEFINE last == IF fifo THEN <<Unlock>> ELSE quick
      <4>1. IsSeq(last) /\ IsSeq(last \o shown) /\ last \o shown = rest
        <5>1. IsSeq(<<Unlock>>)
          <6>1. <<Unlock>> \in Seq({Unlock})
            OBVIOUS
          <6> QED BY <6>1 DEF IsSeq
        <5>2. quick \o shown = <<b>> \o (<<Unlock>> \o (Renew(r) \o shown))
          <6>1. IsSeq(<<b, Unlock>>)
            BY TuplesAreSeqs
          <6>2. (<<b, Unlock>> \o Renew(r)) \o shown = <<b, Unlock>> \o (Renew(r) \o shown)
                /\ IsSeq(Renew(r) \o shown)
            BY <6>1, <1>4, <1>6, SeqsAssociate
          <6>3. \A x1, x2 : <<x1, x2>> \o (Renew(r) \o shown) = <<x1>> \o (<<x2>> \o (Renew(r) \o shown))
            BY <6>2, Regroup
          <6> QED BY <6>2, <6>3
        <5>3. IsSeq(last)
          BY <5>1, <1>6
        <5>4. IsSeq(last \o shown)
          <6> HIDE DEF last
          <6> QED BY <5>3, <1>4, ConcatIsAssociative DEF IsSeq
        <5> HIDE DEF quick
        <5> QED BY <5>2, <5>3, <5>4
      <4>2. speed = <<Lock, a>> \o last
        BY <2>2
      <4>3. (<<Lock, a>> \o last) \o shown = <<Lock, a>> \o (last \o shown)
        <5> DEFINE zs == <<Lock, a>>
        <5>1. IsSeq(zs)
          BY TuplesAreSeqs
        <5>2. IsSeq(last) /\ IsSeq(shown)
          BY <4>1, <1>4
        <5> HIDE DEF last, zs, shown
        <5> QED BY <5>1, <5>2, SeqsAssociate
      <4>4. \A x1, x2 : <<x1, x2>> \o (last \o shown) = <<x1>> \o (<<x2>> \o (last \o shown))
        <5> HIDE DEF last
        <5> QED BY <4>1, Regroup
      <4> HIDE DEF last, rest, speed
      <4> QED BY <4>1, <4>2, <4>3, <4>4
    <3>2. \A y : Bound(y, clk) /\ y.holds /\ y.wants = 0 => Follows(y, rest)
      BY <1>5
    <3> HIDE DEF rest, speed
    <3> DEFINE y == [z EXCEPT !.holds = TRUE]
    <3>3. Bound(y, 0) /\ y.holds /\ y.wants = 0 /\ Unbegun(z)
      BY <1>8, BoundIsUnbegun
    <3>4. Follows(y, <<a>> \o rest)
      <4> HIDE DEF y
      <4> QED BY <3>2, <3>3, ClockFollows DEF a
    <3>5. Follows(z, <<Lock>> \o (<<a>> \o rest))
      BY <3>3, <3>4, LockStep
    <3> QED BY <3>1, <3>5
  <2> QED BY <2>1, <2>2
<1>9. Follows(Phase(TRUE, {}), lock \o (speed \o shown)) /\ lock \o (speed \o shown) # <<>>
  <2> HIDE DEF speed
  <2> QED BY <1>7, <1>8, PingFollows
<1> QED BY <1>3, <1>7, <1>9
-----------------------------------------------------------------------------
(* The script of every command. *)

CommandNames ==
    {"Identify", "ReadSectors", "ReadToFile", "WriteSectors", "Erase", "SecureErase", "Verify",
     "BlankCheck", "DumpFull", "RestoreFull", "SetPartition", "SetSpeed", "SetBaud", "SetBusWidth",
     "Reinit", "ReadExtCsd", "ControllerStatus", "CardStatus", "WriteExtCsd", "SendRawCmd",
     "Ext4Load", "Ext4Navigate", "Ext4ReadFile", "Ext4OverwriteFile", "Ext4CreateFile", "Ext4Search"}
Ext4Writers == {"Ext4OverwriteFile", "Ext4CreateFile"}
\* A command with the data it needs, and what it lets its thread do.
Proper(cmd) ==
    /\ cmd.name \in CommandNames
    /\ cmd.name = "SecureErase" => cmd.lba \in Lbas
    /\ cmd.name = "SetBaud" => cmd.preset \in Presets
    /\ cmd.name \in Ext4Writers => cmd.data[1] = "file"
Grants(cmd) ==
    (IF cmd.name \in {"SetSpeed", "SetBaud"} THEN {"tune"} ELSE {})
      \union (IF cmd.name = "Reinit" THEN {"reset"} ELSE {})
      \union (IF cmd.name \in Ext4Writers /\ cmd.data[2] # ui.ext4_lba THEN {"wander"} ELSE {})

LEMMA SettingScripts ==
    ASSUME NEW may
    PROVE  /\ \A part : Follows(Phase(FALSE, may), SetPartition(part)) /\ SetPartition(part) # <<>>
           /\ \A width : Follows(Phase(FALSE, may), SetBusWidth(width)) /\ SetBusWidth(width) # <<>>
           /\ "tune" \in may =>
                 \A preset : Follows(Phase(FALSE, may), SetSpeed(preset)) /\ SetSpeed(preset) # <<>>
<1>1. ASSUME NEW part PROVE Follows(Phase(FALSE, may), SetPartition(part)) /\ SetPartition(part) # <<>>
  <2>1. ReportOf(Ask("set_partition", part)) = [type |-> "PartitionSet", part |-> part]
    BY AskParts DEF ReportOf
  <2>2. SetPartition(part) = Locked("set_partition", part, ReportOf(Ask("set_partition", part)))
    BY <2>1 DEF SetPartition
  <2> QED BY <2>2, SettingFollows
<1>2. ASSUME NEW width PROVE Follows(Phase(FALSE, may), SetBusWidth(width)) /\ SetBusWidth(width) # <<>>
  <2>1. ReportOf(Ask("set_bus_width", width)) = [type |-> "BusWidthSet", width |-> width]
    BY AskParts DEF ReportOf
  <2>2. SetBusWidth(width) = Locked("set_bus_width", width, ReportOf(Ask("set_bus_width", width)))
    BY <2>1 DEF SetBusWidth
  <2> QED BY <2>2, SettingFollows
<1>3. ASSUME "tune" \in may, NEW preset
      PROVE  Follows(Phase(FALSE, may), SetSpeed(preset)) /\ SetSpeed(preset) # <<>>
  <2>1. ReportOf(Ask("set_clk", preset)) = [type |-> "SpeedSet", preset |-> preset]
    BY AskParts DEF ReportOf
  <2>2. SetSpeed(preset) = Locked("set_clk", preset, ReportOf(Ask("set_clk", preset)))
    BY <2>1 DEF SetSpeed
  <2> QED BY <1>3, <2>2, SettingFollows
<1> QED BY <1>1, <1>2, <1>3

LEMMA ScriptFollows ==
    ASSUME NEW cmd, Proper(cmd)
    PROVE  Follows(Phase(FALSE, Grants(cmd)), Script(cmd)) /\ Script(cmd) # <<>>
<1> DEFINE may == Grants(cmd)
           Fine(script) == Follows(Phase(FALSE, may), script) /\ script # <<>>
<1>1. \A script : Takes(may, script) => Fine(script)
  BY TakesFollows
<1>2. /\ cmd.name \in {"SetSpeed", "SetBaud"} => "tune" \in may
      /\ cmd.name = "Reinit" => "reset" \in may
      /\ cmd.name \in Ext4Writers => cmd.data[1] = "file" /\ (cmd.data[2] = ui.ext4_lba \/ "wander" \in may)
  BY DEF Grants, Proper
<1> HIDE DEF may
<1>3. CASE cmd.name = "Identify"
  <2>1. Script(cmd) = Identify
    BY <1>3 DEF Script
  <2>2. Takes(may, Identify)
    BY <1>3, <1>2, SectorScripts DEF Ext4Writers
  <2> QED BY <2>1, <2>2, <1>1 DEF may
<1>4. CASE cmd.name = "ReadSectors"
  <2>1. Script(cmd) = ReadSectors(cmd.lba)
    BY <1>4 DEF Script
  <2>2. Takes(may, ReadSectors(cmd.lba))
    BY <1>4, <1>2, SectorScripts DEF Ext4Writers
  <2> QED BY <2>1, <2>2, <1>1 DEF may
<1>5. CASE cmd.name = "ReadToFile"
  <2>1. Script(cmd) = ReadToFile(cmd.lba)
    BY <1>5 DEF Script
  <2>2. Takes(may, ReadToFile(cmd.lba))
    BY <1>5, <1>2, SectorScripts DEF Ext4Writers
  <2> QED BY <2>1, <2>2, <1>1 DEF may
<1>6. CASE cmd.name = "WriteSectors"
  <2>1. Script(cmd) = WriteSectors(cmd.lba, <<"file", cmd.lba>>, cmd.verify)
    BY <1>6 DEF Script
  <2>2. Takes(may, WriteSectors(cmd.lba, <<"file", cmd.lba>>, cmd.verify))
    BY <1>6, <1>2, SectorScripts DEF Ext4Writers
  <2> QED BY <2>1, <2>2, <1>1 DEF may
<1>7. CASE cmd.name = "Erase"
  <2>1. Script(cmd) = EraseSectors(cmd.lba)
    BY <1>7 DEF Script
  <2>2. Takes(may, EraseSectors(cmd.lba))
    BY <1>7, <1>2, SectorScripts DEF Ext4Writers
  <2> QED BY <2>1, <2>2, <1>1 DEF may
<1>8. CASE cmd.name = "SecureErase"
  <2>1. Script(cmd) = SecureErase(cmd.lba)
    BY <1>8 DEF Script
  <2>2. cmd.lba \in Nat
    BY <1>8, ProgrammerAssumption DEF Proper
  <2> QED BY <2>1, <2>2, EraseFollows DEF may
<1>9. CASE cmd.name = "Verify"
  <2>1. Script(cmd) = Verify(cmd.lba)
    BY <1>9 DEF Script
  <2>2. Takes(may, Verify(cmd.lba))
    BY <1>9, <1>2, SectorScripts DEF Ext4Writers
  <2> QED BY <2>1, <2>2, <1>1 DEF may
<1>10. CASE cmd.name = "BlankCheck"
  <2>1. Script(cmd) = BlankCheck(cmd.lba)
    BY <1>10 DEF Script
  <2>2. Takes(may, BlankCheck(cmd.lba))
    BY <1>10, <1>2, SectorScripts DEF Ext4Writers
  <2> QED BY <2>1, <2>2, <1>1 DEF may
<1>11. CASE cmd.name = "DumpFull"
  <2>1. Script(cmd) = DumpFull(NoLba, cmd.verify)
    BY <1>11 DEF Script
  <2>2. Takes(may, DumpFull(NoLba, cmd.verify))
    BY <1>11, <1>2, DumpScript DEF Ext4Writers
  <2> QED BY <2>1, <2>2, <1>1 DEF may
<1>12. CASE cmd.name = "RestoreFull"
  <2>1. Script(cmd) = RestoreFull(NoLba, <<"file", NoLba>>, cmd.verify)
    BY <1>12 DEF Script
  <2>2. Takes(may, RestoreFull(NoLba, <<"file", NoLba>>, cmd.verify))
    BY <1>12, <1>2, SectorScripts DEF Ext4Writers
  <2> QED BY <2>1, <2>2, <1>1 DEF may
<1>13. CASE cmd.name = "SetPartition"
  <2>1. Script(cmd) = SetPartition(cmd.part)
    BY <1>13 DEF Script
  <2> QED BY <1>13, <1>2, <2>1, SettingScripts DEF may
<1>14. CASE cmd.name = "SetSpeed"
  <2>1. Script(cmd) = SetSpeed(cmd.preset)
    BY <1>14 DEF Script
  <2> QED BY <1>14, <1>2, <2>1, SettingScripts DEF may
<1>15. CASE cmd.name = "SetBaud"
  <2>1. Script(cmd) = SetBaud(cmd.preset)
    BY <1>15 DEF Script
  <2>2. cmd.preset \in Presets
    BY <1>15 DEF Proper
  <2> QED BY <1>15, <1>2, <2>1, <2>2, SetBaudFollows DEF may
<1>16. CASE cmd.name = "SetBusWidth"
  <2>1. Script(cmd) = SetBusWidth(cmd.width)
    BY <1>16 DEF Script
  <2> QED BY <1>16, <1>2, <2>1, SettingScripts DEF may
<1>17. CASE cmd.name = "Reinit"
  <2>1. Script(cmd) = Reinit
    BY <1>17 DEF Script
  <2>2. Takes(may, Reinit)
    BY <1>17, <1>2, CardScripts DEF Ext4Writers
  <2> QED BY <2>1, <2>2, <1>1 DEF may
<1>18. CASE cmd.name = "ReadExtCsd"
  <2>1. Script(cmd) = ReadExtCsd
    BY <1>18 DEF Script
  <2>2. Takes(may, ReadExtCsd)
    BY <1>18, <1>2, CardScripts DEF Ext4Writers
  <2> QED BY <2>1, <2>2, <1>1 DEF may
<1>19. CASE cmd.name = "ControllerStatus"
  <2>1. Script(cmd) = ControllerStatus
    BY <1>19 DEF Script
  <2>2. Takes(may, ControllerStatus)
    BY <1>19, <1>2, CardScripts DEF Ext4Writers
  <2> QED BY <2>1, <2>2, <1>1 DEF may
<1>20. CASE cmd.name = "CardStatus"
  <2>1. Script(cmd) = SendRawCmd(Nothing, cmd.name)
    BY <1>20 DEF Script
  <2>2. Takes(may, SendRawCmd(Nothing, cmd.name))
    BY <1>20, <1>2, CardScripts DEF Ext4Writers
  <2> QED BY <2>1, <2>2, <1>1 DEF may
<1>21. CASE cmd.name = "WriteExtCsd"
  <2>1. Script(cmd) = SendRawCmd(cmd.cmd, cmd.name)
    BY <1>21 DEF Script
  <2>2. Takes(may, SendRawCmd(cmd.cmd, cmd.name))
    BY <1>21, <1>2, CardScripts DEF Ext4Writers
  <2> QED BY <2>1, <2>2, <1>1 DEF may
<1>22. CASE cmd.name = "SendRawCmd"
  <2>1. Script(cmd) = SendRawCmd(cmd.cmd, cmd.name)
    BY <1>22 DEF Script
  <2>2. Takes(may, SendRawCmd(cmd.cmd, cmd.name))
    BY <1>22, <1>2, CardScripts DEF Ext4Writers
  <2> QED BY <2>1, <2>2, <1>1 DEF may
<1>23. CASE cmd.name = "Ext4Load"
  <2>1. Script(cmd) = Ext4Load(cmd.lba)
    BY <1>23 DEF Script
  <2>2. Takes(may, Ext4Load(cmd.lba))
    BY <1>23, <1>2, Ext4Scripts DEF Ext4Writers
  <2> QED BY <2>1, <2>2, <1>1 DEF may
<1>24. CASE cmd.name = "Ext4Navigate"
  <2>1. Script(cmd) = Ext4Navigate(ui.ext4_lba)
    BY <1>24 DEF Script
  <2>2. Takes(may, Ext4Navigate(ui.ext4_lba))
    BY <1>24, <1>2, Ext4Scripts DEF Ext4Writers
  <2> QED BY <2>1, <2>2, <1>1 DEF may
<1>25. CASE cmd.name = "Ext4ReadFile"
  <2>1. Script(cmd) = Ext4ReadFile(ui.ext4_lba)
    BY <1>25 DEF Script
  <2>2. Takes(may, Ext4ReadFile(ui.ext4_lba))
    BY <1>25, <1>2, Ext4Scripts DEF Ext4Writers
  <2> QED BY <2>1, <2>2, <1>1 DEF may
<1>26. CASE cmd.name = "Ext4OverwriteFile"
  <2>1. Script(cmd) = Ext4OverwriteFile(ui.ext4_lba, cmd.data)
    BY <1>26 DEF Script
  <2>2. Takes(may, Ext4OverwriteFile(ui.ext4_lba, cmd.data))
    BY <1>26, <1>2, Ext4Scripts DEF Ext4Writers
  <2> QED BY <2>1, <2>2, <1>1 DEF may
<1>27. CASE cmd.name = "Ext4CreateFile"
  <2>1. Script(cmd) = Ext4CreateFile(ui.ext4_lba, cmd.data)
    BY <1>27 DEF Script
  <2>2. Takes(may, Ext4CreateFile(ui.ext4_lba, cmd.data))
    BY <1>27, <1>2, Ext4Scripts DEF Ext4Writers
  <2> QED BY <2>1, <2>2, <1>1 DEF may
<1>28. CASE cmd.name = "Ext4Search"
  <2>1. Script(cmd) = Ext4Search(ui.ext4_lba)
    BY <1>28 DEF Script
  <2>2. Takes(may, Ext4Search(ui.ext4_lba))
    BY <1>28, <1>2, Ext4Scripts DEF Ext4Writers
  <2> QED BY <2>1, <2>2, <1>1 DEF may
<1> QED BY <1>3, <1>4, <1>5, <1>6, <1>7, <1>8, <1>9, <1>10, <1>11, <1>12, <1>13, <1>14, <1>15,
            <1>16, <1>17, <1>18, <1>19, <1>20, <1>21, <1>22, <1>23, <1>24, <1>25, <1>26, <1>27, <1>28 DEF Proper, CommandNames

-----------------------------------------------------------------------------
(* What the GUI makes of the messages of a frame. *)

UiFields == DOMAIN AppState(FALSE)

LEMMA ReceiveProperties ==
    ASSUME NEW u, DOMAIN u = UiFields, NEW m
    PROVE  LET v == receive(u, m)
           IN  /\ DOMAIN v = UiFields
               /\ v.ext4_lba = u.ext4_lba /\ v.dialog = u.dialog /\ v.pending = u.pending
               /\ v.drawn = u.drawn /\ v.use_fifo = u.use_fifo
               /\ v.programmer \in {u.programmer, 0} /\ (u.connected => v.programmer = u.programmer)
               /\ v.connected <=> (u.connected \/ m.type = "ConnectedWithSpeed")
               /\ v.clk_preset = CASE m.type = "ConnectedWithSpeed" -> m.clk
                                   [] m.type = "SpeedSet" -> m.preset
                                   [] OTHER -> u.clk_preset
               /\ v.bus_width = IF m.type = "BusWidthSet" THEN m.width ELSE u.bus_width
               /\ v.active_partition = IF m.type = "PartitionSet" THEN m.part ELSE u.active_partition
               /\ m.type = "PortsScanned" => v = u
               /\ m.type = "ConnectedWithSpeed" => v.programmer = u.programmer
<1> UiFields = {"use_fifo", "status", "connected", "programmer", "baud", "clk_preset", "bus_width",
                "active_partition", "table", "partition_read_pending", "hex", "ext4_lba", "ext4",
                "file", "results", "cancel", "dialog", "pending", "drawn"}
  BY DEF UiFields, AppState
<1>1. CASE m.type = "ConnectedWithSpeed"
  BY <1>1 DEF receive, set_completed
<1>2. CASE m.type = "SpeedSet"
  BY <1>2 DEF receive, set_completed
<1>3. CASE m.type = "BusWidthSet"
  BY <1>3 DEF receive, set_completed
<1>4. CASE m.type = "PartitionSet"
  BY <1>4 DEF receive, set_completed
<1>5. CASE m.type = "PortsScanned"
  BY <1>5 DEF receive
<1>6. CASE m.type = "Error"
  BY <1>6 DEF receive, set_failed, CleanUp
<1>7. CASE m.type \in {"SectorsRead", "BaudSet", "Ext4Loaded", "Ext4DirListing", "Ext4FileContent",
                       "Ext4SearchDone", "Mismatch"}
  BY <1>7 DEF receive, set_failed, set_completed
<1>8. CASE m.type \notin {"ConnectedWithSpeed", "SpeedSet", "BusWidthSet", "PartitionSet", "PortsScanned",
                          "Error", "SectorsRead", "BaudSet", "Ext4Loaded", "Ext4DirListing",
                          "Ext4FileContent", "Ext4SearchDone", "Mismatch"}
  <2>1. receive(u, m) = set_completed(u)
    BY <1>8 DEF receive
  <2> QED BY <1>8, <2>1 DEF set_completed
<1> QED BY <1>1, <1>2, <1>3, <1>4, <1>5, <1>6, <1>7, <1>8

IsReading(f, n, u, c) == f = [i \in 0..n |-> IF i = 0 THEN u ELSE receive(f[i - 1], c[i])]

LEMMA ReadingExists ==
    ASSUME NEW n \in Nat, NEW u, NEW c
    PROVE  \E f : IsReading(f, n, u, c)
<1> USE DEF IsReading
<1> DEFINE Is(f, k) == f = [i \in 0..k |-> IF i = 0 THEN u ELSE receive(f[i - 1], c[i])]
           Wrong == {k \in Nat : ~ \E f : Is(f, k)}
<1>1. SUFFICES ASSUME Wrong # {} PROVE FALSE
  OBVIOUS
<1>2. PICK k \in Wrong : \A j \in Wrong : k <= j
  <2> Wrong \in SUBSET Nat
    OBVIOUS
  <2> HIDE DEF Wrong
  <2> QED BY <1>1, LeastNumber
<1>3. k # 0
  <2>1. Is([i \in 0..0 |-> u], 0)
    OBVIOUS
  <2> QED BY <2>1
<1>4. k \in Nat \ {0} /\ k - 1 \in Nat /\ ~(k <= k - 1)
  BY <1>3
<1>5. k - 1 \notin Wrong
  <2> HIDE DEF Wrong
  <2> QED BY <1>2, <1>4
<1>6. PICK f : Is(f, k - 1)
  BY <1>4, <1>5
<1> DEFINE g == [i \in 0..k |-> IF i = k THEN receive(f[k - 1], c[k]) ELSE f[i]]
<1>7. Is(g, k)
  <2>1. \A i \in 0..k : g[i] = IF i = 0 THEN u ELSE receive(g[i - 1], c[i])
    <3> SUFFICES ASSUME NEW i \in 0..k
                 PROVE  g[i] = IF i = 0 THEN u ELSE receive(g[i - 1], c[i])
      OBVIOUS
    <3> HIDE DEF Wrong
    <3>1. CASE i = k
      <4>1. i # 0 /\ i - 1 = k - 1 /\ k - 1 \in 0..k /\ k - 1 # k
        BY <1>4, <3>1
      <4>2. g[k] = receive(f[k - 1], c[k]) /\ g[k - 1] = f[k - 1]
        BY <1>4, <4>1
      <4> HIDE DEF g
      <4> QED BY <3>1, <4>1, <4>2
    <3>2. CASE i # k
      <4>1. i \in 0..k - 1 /\ (i # 0 => i - 1 \in 0..k - 1 /\ i - 1 # k)
        BY <1>4, <3>2
      <4>2. f[i] = IF i = 0 THEN u ELSE receive(f[i - 1], c[i])
        BY <1>6, <4>1
      <4> QED BY <4>1, <4>2, <3>2, <1>4
    <3> QED BY <3>1, <3>2
  <2> HIDE DEF Wrong
  <2>2. g = [i \in 0..k |-> g[i]]
    OBVIOUS
  <2> HIDE DEF g
  <2> QED BY <2>1, <2>2
<1> QED BY <1>2, <1>7

LEMMA Reading ==
    ASSUME NEW u, NEW c, IsSeq(c)
    PROVE  \E f : /\ f[0] = u
                  /\ \A k \in 1..Len(c) : f[k] = receive(f[k - 1], c[k])
                  /\ process_messages(u, c) = f[Len(c)]
<1>1. Len(c) \in Nat
  BY DEF IsSeq
<1> DEFINE f == CHOOSE g : IsReading(g, Len(c), u, c)
<1>2. f = [i \in 0..Len(c) |-> IF i = 0 THEN u ELSE receive(f[i - 1], c[i])] /\ process_messages(u, c) = f[Len(c)]
  <2>1. process_messages(u, c) = f[Len(c)]
    BY DEF process_messages, IsReading
  <2>2. \E g : IsReading(g, Len(c), u, c)
    BY <1>1, ReadingExists
  <2>3. IsReading(f, Len(c), u, c)
    BY <2>2
  <2> HIDE DEF f
  <2> QED BY <2>1, <2>3 DEF IsReading
<1> HIDE DEF f
<1>3. 0 \in 0..Len(c)
  BY <1>1
<1>4. f[0] = u
  BY <1>2, <1>3
<1>5. ASSUME NEW k \in 1..Len(c) PROVE f[k] = receive(f[k - 1], c[k])
  <2>1. k \in 0..Len(c) /\ k # 0
    BY <1>1
  <2>2. f[k] = IF k = 0 THEN u ELSE receive(f[k - 1], c[k])
    BY <1>2, <2>1
  <2> QED BY <2>1, <2>2
<1> QED BY <1>2, <1>4, <1>5

LEMMA HeardNothing ==
    ASSUME NEW u
    PROVE  process_messages(u, <<>>) = u
<1>1. IsSeq(<<>>) /\ Len(<<>>) = 0
  <2>1. <<>> \in Seq({}) /\ Len(<<>>) = 0
    OBVIOUS
  <2> QED BY <2>1 DEF IsSeq
<1>2. PICK f : f[0] = u /\ process_messages(u, <<>>) = f[Len(<<>>)]
  BY <1>1, Reading
<1> QED BY <1>1, <1>2

LEMMA HeardAppend ==
    ASSUME NEW u, NEW c, IsSeq(c), NEW m
    PROVE  process_messages(u, Append(c, m)) = receive(process_messages(u, c), m)
<1> DEFINE n == Len(c)
           d == Append(c, m)
<1>1. n \in Nat /\ Len(d) = n + 1 /\ IsSeq(d) /\ d[n + 1] = m /\ \A k \in 1..n : d[k] = c[k]
  <2>1. PICK E : c \in Seq(E)
    BY DEF IsSeq
  <2>2. d \in Seq(E \union {m})
    BY <2>1
  <2> QED BY <2>1, <2>2 DEF IsSeq
<1>2. PICK f : f[0] = u /\ (\A k \in 1..n : f[k] = receive(f[k - 1], c[k])) /\ process_messages(u, c) = f[n]
  BY Reading
<1>3. PICK g : g[0] = u /\ (\A k \in 1..n + 1 : g[k] = receive(g[k - 1], d[k])) /\ process_messages(u, d) = g[n + 1]
  <2> HIDE DEF d, n
  <2> QED BY <1>1, Reading
<1> HIDE DEF n, d
<1> DEFINE G == {k \in 0..n : f[k] = g[k]}
<1>4. 0 \in G
  BY <1>1, <1>2, <1>3
<1>5. \A k \in 1..n : k - 1 \in G => k \in G
  <2> SUFFICES ASSUME NEW k \in 1..n, k - 1 \in G PROVE k \in G
    OBVIOUS
  <2>1. k \in 1..n + 1 /\ k \in 0..n
    BY <1>1
  <2>2. f[k] = receive(f[k - 1], c[k]) /\ g[k] = receive(g[k - 1], d[k]) /\ f[k - 1] = g[k - 1] /\ d[k] = c[k]
    BY <1>1, <1>2, <1>3, <2>1
  <2> QED BY <2>1, <2>2
<1>6. n \in G
  <2>1. \A k \in 0..n : k \in G
    <3> HIDE DEF G
    <3> QED BY <1>1, <1>4, <1>5, Upwards
  <2> QED BY <1>1, <2>1
<1>7. g[n + 1] = receive(g[n], m)
  <2>1. n + 1 \in 1..n + 1 /\ (n + 1) - 1 = n
    BY <1>1
  <2> QED BY <1>1, <1>3, <2>1
<1> QED BY <1>2, <1>3, <1>6, <1>7 DEF n, d

\* What no message changes, and what only a connecting's message does.
LEMMA HeardKeeps ==
    ASSUME NEW u, DOMAIN u = UiFields, NEW c, IsSeq(c)
    PROVE  LET v == process_messages(u, c)
           IN  /\ DOMAIN v = UiFields
               /\ v.ext4_lba = u.ext4_lba /\ v.dialog = u.dialog /\ v.pending = u.pending
               /\ v.drawn = u.drawn /\ v.use_fifo = u.use_fifo
               /\ v.programmer \in {u.programmer, 0} /\ (u.connected => v.programmer = u.programmer)
               /\ u.connected => v.connected
               /\ v.connected => u.connected \/ \E i \in DOMAIN c : c[i].type = "ConnectedWithSpeed"
<1> DEFINE n == Len(c)
           Kept(v) ==
               /\ DOMAIN v = UiFields
               /\ v.ext4_lba = u.ext4_lba /\ v.dialog = u.dialog /\ v.pending = u.pending
               /\ v.drawn = u.drawn /\ v.use_fifo = u.use_fifo
               /\ v.programmer \in {u.programmer, 0} /\ (u.connected => v.programmer = u.programmer)
               /\ u.connected => v.connected
               /\ v.connected => u.connected \/ \E i \in DOMAIN c : c[i].type = "ConnectedWithSpeed"
<1>1. n \in Nat /\ DOMAIN c = 1..n
  BY DEF IsSeq
<1>2. PICK f : f[0] = u /\ (\A k \in 1..n : f[k] = receive(f[k - 1], c[k])) /\ process_messages(u, c) = f[n]
  BY Reading
<1> HIDE DEF n
<1> DEFINE G == {k \in 0..n : Kept(f[k])}
<1>3. 0 \in G
  BY <1>1, <1>2
<1>4. \A k \in 1..n : k - 1 \in G => k \in G
  <2> SUFFICES ASSUME NEW k \in 1..n, k - 1 \in G PROVE k \in G
    OBVIOUS
  <2>1. k \in 0..n /\ f[k] = receive(f[k - 1], c[k]) /\ k \in DOMAIN c
    BY <1>1, <1>2
  <2>2. Kept(f[k - 1])
    OBVIOUS
  <2> DEFINE v == f[k - 1]
             w == receive(v, c[k])
             m == c[k]
  <2>3. /\ DOMAIN w = UiFields
        /\ w.ext4_lba = v.ext4_lba /\ w.dialog = v.dialog /\ w.pending = v.pending
        /\ w.drawn = v.drawn /\ w.use_fifo = v.use_fifo
        /\ w.programmer \in {v.programmer, 0} /\ (v.connected => w.programmer = v.programmer)
        /\ w.connected <=> (v.connected \/ m.type = "ConnectedWithSpeed")
    <3> HIDE DEF v, m, G
    <3> DOMAIN v = UiFields
      BY <2>2 DEF v
    <3> QED BY ReceiveProperties DEF w, m
  <2>4. Kept(v)
    BY <2>2
  <2> HIDE DEF v, w, G
  <2>5. Kept(w)
    BY <2>1, <2>3, <2>4
  <2> QED BY <2>1, <2>5 DEF v, w, G
<1>5. \A k \in 0..n : k \in G
  <2> HIDE DEF G
  <2> QED BY <1>1, <1>3, <1>4, Upwards
<1>6. Kept(f[n])
  BY <1>1, <1>5
<1> QED BY <1>2, <1>6

\* The settings depend on the settings only.
LEMMA HeardSettings ==
    ASSUME NEW u, DOMAIN u = UiFields, NEW v, DOMAIN v = UiFields, NEW c, IsSeq(c),
           u.clk_preset = v.clk_preset, u.bus_width = v.bus_width
    PROVE  LET x == process_messages(u, c)
               y == process_messages(v, c)
           IN  /\ x.clk_preset = y.clk_preset /\ x.bus_width = y.bus_width
               /\ \/ x.active_partition = y.active_partition
                  \/ x.active_partition = u.active_partition /\ y.active_partition = v.active_partition
<1> DEFINE n == Len(c)
           Alike(x, y) ==
               /\ DOMAIN x = UiFields /\ DOMAIN y = UiFields
               /\ x.clk_preset = y.clk_preset /\ x.bus_width = y.bus_width
               /\ \/ x.active_partition = y.active_partition
                  \/ x.active_partition = u.active_partition /\ y.active_partition = v.active_partition
<1>1. n \in Nat
  BY DEF IsSeq
<1>2. PICK f : f[0] = u /\ (\A k \in 1..n : f[k] = receive(f[k - 1], c[k])) /\ process_messages(u, c) = f[n]
  BY Reading
<1>3. PICK g : g[0] = v /\ (\A k \in 1..n : g[k] = receive(g[k - 1], c[k])) /\ process_messages(v, c) = g[n]
  BY Reading
<1> HIDE DEF n
<1> DEFINE G == {k \in 0..n : Alike(f[k], g[k])}
<1>4. 0 \in G
  BY <1>1, <1>2, <1>3
<1>5. \A k \in 1..n : k - 1 \in G => k \in G
  <2> SUFFICES ASSUME NEW k \in 1..n, k - 1 \in G PROVE k \in G
    OBVIOUS
  <2> DEFINE a == f[k - 1]
             b == g[k - 1]
             m == c[k]
  <2>1. k \in 0..n /\ f[k] = receive(a, m) /\ g[k] = receive(b, m)
    BY <1>1, <1>2, <1>3
  <2>2. Alike(a, b)
    OBVIOUS
  <2> HIDE DEF a, b, m, G
  <2> DEFINE x == receive(a, m)
             y == receive(b, m)
  <2>3. \A z \in {a, b} :
            /\ DOMAIN receive(z, m) = UiFields
            /\ receive(z, m).clk_preset = CASE m.type = "ConnectedWithSpeed" -> m.clk
                                            [] m.type = "SpeedSet" -> m.preset
                                            [] OTHER -> z.clk_preset
            /\ receive(z, m).bus_width = IF m.type = "BusWidthSet" THEN m.width ELSE z.bus_width
            /\ receive(z, m).active_partition = IF m.type = "PartitionSet" THEN m.part ELSE z.active_partition
    BY <2>2, ReceiveProperties
  <2>4. DOMAIN x = UiFields /\ DOMAIN y = UiFields
    BY <2>3
  <2>5. x.clk_preset = y.clk_preset /\ x.bus_width = y.bus_width
    BY <2>2, <2>3
  <2>6. \/ x.active_partition = y.active_partition
        \/ x.active_partition = u.active_partition /\ y.active_partition = v.active_partition
    BY <2>2, <2>3
  <2> HIDE DEF x, y
  <2>7. Alike(x, y)
    BY <2>4, <2>5, <2>6
  <2> QED BY <2>1, <2>7 DEF x, y, G
<1>6. \A k \in 0..n : k \in G
  <2> HIDE DEF G
  <2> QED BY <1>1, <1>4, <1>5, Upwards
<1>7. Alike(f[n], g[n])
  BY <1>1, <1>6
<1> QED BY <1>2, <1>3, <1>7

\* Lists of ports say nothing; beside them, a single message is all there is.
LEMMA HeardOne ==
    ASSUME NEW u, DOMAIN u = UiFields, NEW c, IsSeq(c), NEW i \in DOMAIN c,
           \A j \in DOMAIN c : j # i => c[j].type = "PortsScanned"
    PROVE  process_messages(u, c) = receive(u, c[i])
<1> DEFINE n == Len(c)
<1>1. n \in Nat /\ DOMAIN c = 1..n
  BY DEF IsSeq
<1>2. PICK f : f[0] = u /\ (\A k \in 1..n : f[k] = receive(f[k - 1], c[k])) /\ process_messages(u, c) = f[n]
  BY Reading
<1> HIDE DEF n
<1> DEFINE v == receive(u, c[i])
           G == {k \in 0..n : f[k] = IF k < i THEN u ELSE v}
<1>0. DOMAIN v = UiFields
  BY ReceiveProperties
<1> HIDE DEF v
<1>3. 0 \in G
  BY <1>1, <1>2
<1>4. \A k \in 1..n : k - 1 \in G => k \in G
  <2> SUFFICES ASSUME NEW k \in 1..n, k - 1 \in G PROVE k \in G
    OBVIOUS
  <2>1. k \in 0..n /\ k \in DOMAIN c /\ f[k] = receive(f[k - 1], c[k]) /\ i \in 1..n
    BY <1>1, <1>2
  <2>2. f[k - 1] = IF k - 1 < i THEN u ELSE v
    OBVIOUS
  <2>3. CASE k = i
    BY <2>1, <2>2, <2>3, <1>1 DEF v
  <2>4. CASE k # i
    <3>1. \A z : DOMAIN z = UiFields => receive(z, c[k]) = z
      BY <2>1, <2>4, ReceiveProperties
    <3>2. f[k] = f[k - 1]
      BY <2>1, <2>2, <3>1, <1>0
    <3>3. k < i <=> k - 1 < i
      BY <2>1, <2>4, <1>1
    <3> QED BY <2>1, <2>2, <3>2, <3>3
  <2> QED BY <2>3, <2>4
<1>5. \A k \in 0..n : k \in G
  <2> HIDE DEF G
  <2> QED BY <1>1, <1>3, <1>4, Upwards
<1>6. f[n] = v
  <2>1. n \in G /\ ~(n < i)
    BY <1>1, <1>5
  <2> QED BY <2>1
<1> QED BY <1>2, <1>6 DEF v

LEMMA HeardPorts ==
    ASSUME NEW u, DOMAIN u = UiFields, NEW c, IsSeq(c),
           \A j \in DOMAIN c : c[j].type = "PortsScanned"
    PROVE  process_messages(u, c) = u
<1>1. CASE Len(c) = 0
  <2>1. c = <<>>
    BY <1>1 DEF IsSeq
  <2> QED BY <2>1, HeardNothing
<1>2. CASE Len(c) # 0
  <2>1. 1 \in DOMAIN c
    BY <1>2 DEF IsSeq
  <2>2. process_messages(u, c) = receive(u, c[1])
    BY <2>1, HeardOne
  <2>3. receive(u, c[1]) = u
    BY <2>1, ReceiveProperties
  <2> QED BY <2>2, <2>3
<1> QED BY <1>1, <1>2

-----------------------------------------------------------------------------
(* The invariant.  ph gives every thread its phase. *)

ThreadFields == {"rest", "handle", "holds", "connects"}

Shapes ==
    /\ DOMAIN ui = UiFields /\ ui.use_fifo \in BOOLEAN /\ ui.programmer \in Handles \union {0}
    /\ DOMAIN workers = Slots /\ \A s \in Slots : DOMAIN workers[s] = ThreadFields
    /\ DOMAIN rate = Handles
    /\ DOMAIN fpga = {"baud", "clk", "width", "lines", "part", "range", "idle"}
    /\ "raw" \notin upset => fpga.lines = fpga.width /\ ~fpga.idle
    /\ DOMAIN card = Partitions /\ \A p \in Partitions : DOMAIN card[p] = Lbas
    /\ DOMAIN user = {"buttons", "profiles", "ports", "clicks", "faults"}
    /\ user.profiles \subseteq SpeedProfile /\ user.ports \subseteq BOOLEAN
    /\ \E E : channel \in Seq(E)

Scan == Thread(0, Done("PortsScanned"))
Threads(ph) ==
    \A s \in Slots :
        /\ DOMAIN ph[s] = PhaseFields
        /\ \/ workers[s] = NoThread /\ ph[s] = Idle
           \/ /\ workers[s].rest # <<>> /\ Follows(ph[s], workers[s].rest)
              /\ workers[s].holds = ph[s].holds /\ workers[s].connects = ph[s].connects
              /\ \/ workers[s].handle \in Handles
                 \/ workers[s] = Scan /\ ph[s] = Idle

\* A lock has one holder; and without a second connection one lock is enough.
LocksApart ==
    \A s, t \in Slots :
        s # t /\ workers[s].holds /\ workers[t].holds => workers[s].handle # workers[t].handle
OneConnection ==
    "shared" \notin upset =>
        \A s \in Slots : workers[s].handle # 0 =>
            /\ ui.programmer \in {0, workers[s].handle}
            /\ \A t \in Slots : workers[t].handle \in {0, workers[s].handle}

\* What a thread has begun under the lock nobody touches.
Settings == {[type |-> "SpeedSet", preset |-> fpga.clk], [type |-> "BusWidthSet", width |-> fpga.width],
             [type |-> "PartitionSet", part |-> fpga.part]}
\* Neither a second connection, nor a card that refuses a command of an erase, nor
\* commands the user sends himself.
Unspoilt(u) == u \intersect {"shared", "refused", "raw"} = {}
Guarded(ph) ==
    Unspoilt(upset) =>
        \A s \in Slots :
            /\ ph[s].range # NoRange => workers[s].holds /\ fpga.range = ph[s].range
            /\ ph[s].owes # None => workers[s].holds /\ ph[s].owes \in Settings

Granted(ph) ==
    \A s \in Slots : /\ "reset" \in ph[s].may => "reinit" \in upset
                     /\ "wander" \in ph[s].may => "moved" \in upset

\* A command with the data it needs.
Sensible(cmd) ==
    /\ is_destructive(cmd)
    /\ cmd.name = "SecureErase" => cmd.lba \in Lbas
    /\ cmd.name \in Ext4Writers =>
           cmd.data[1] = "file" /\ ("moved" \in upset \/ cmd.data[2] = ui.ext4_lba)
Dialogs ==
    /\ ui.dialog # None => Sensible(ui.dialog)
    /\ ui.pending # None => Sensible(ui.pending) /\ ~ui.drawn

ErasedAtHome == Unspoilt(upset) => Named
FilesAtHome ==
    "moved" \notin upset =>
        \A p \in Partitions, l \in Lbas : card[p][l][1] = "file" => card[p][l][2] = l

\* While a connecting runs, or its message is on the way, the GUI waits for it.
Connects(s) == workers[s].connects
Coming(i) == i \in DOMAIN channel /\ OfConnecting(channel[i])
Awaited == is_busy /\ ~ui.connected /\ ui.programmer # 0
Waiting(ph) ==
    "stray" \notin upset =>
        /\ ui.connected => ui.programmer # 0
        /\ \A s \in Slots : Connects(s) =>
              /\ Awaited /\ \A i \in Nat : ~Coming(i)
              /\ \A t \in Slots \ {s} : ~Connects(t) /\ ("shared" \notin upset => "tune" \notin ph[t].may)
        /\ \A i \in Nat : Coming(i) =>
              /\ Awaited /\ \A s \in Slots : ~Connects(s)
              /\ \A j \in Nat : Coming(j) => j = i

\* What the GUI will show when it has read its messages.
Heard == process_messages(ui, channel)
Matches(h) == rate[h] \in {0, fpga.baud}
\* A rate that is set in the reader and not yet in the connection; an FT245 has none.
Ahead(wants, h) == fpga.baud = wants \/ rate[h] = 0
Offline ==
    /\ ~ui.connected /\ \A s \in Slots : ~Connects(s)
    /\ \A i \in Nat : ~Coming(i)
Shown(ph) ==
    upset \subseteq {"overlap", "silent", "moved"} =>
        /\ \A s \in Slots : Connects(s) =>
              /\ "shown" \notin ph[s].lost /\ ph[s].clk = fpga.clk
              /\ IF ph[s].wants = 0 THEN Matches(workers[s].handle)
                 ELSE Ahead(ph[s].wants, workers[s].handle)
        /\ \/ Heard.clk_preset = fpga.clk
           \/ \E s \in Slots : Connects(s) \/ ph[s].owes = [type |-> "SpeedSet", preset |-> fpga.clk]
        /\ \/ Heard.bus_width = fpga.width
           \/ \E s \in Slots : ph[s].owes = [type |-> "BusWidthSet", width |-> fpga.width]
        /\ \/ Heard.active_partition = fpga.part
           \/ \E s \in Slots : ph[s].owes = [type |-> "PartitionSet", part |-> fpga.part]
           \/ Offline /\ Heard.active_partition = "User"

\* One thread at a time, the connection is at the reader's rate but for the thread
\* that is about to change it.
Rates(ph) ==
    upset \intersect {"fault", "taken", "silent", "overlap"} = {} =>
        /\ "shared" \notin upset
        /\ \A s, t \in Slots : workers[s] # NoThread /\ workers[t] # NoThread => s = t
        /\ \A s \in Slots :
              /\ "rate" \notin ph[s].lost
              /\ ph[s].wants # 0 => Ahead(ph[s].wants, workers[s].handle)
              /\ Connects(s) => /\ channel = <<>> /\ ~ui.connected
                                /\ ph[s].proved /\ ph[s].wants = 0 => Matches(workers[s].handle)
        /\ \A i \in Nat : Coming(i) =>
              /\ Len(channel) = 1 /\ ~ui.connected /\ \A s \in Slots : workers[s] = NoThread
              /\ channel[i].type = "ConnectedWithSpeed" /\ ui.programmer # 0 => Matches(ui.programmer)
        /\ ui.connected /\ ui.programmer # 0 =>
              \/ Matches(ui.programmer)
              \/ \E s \in Slots : workers[s].handle = ui.programmer /\ ph[s].wants # 0

Sound(ph) ==
    /\ Shapes /\ Threads(ph) /\ LocksApart /\ OneConnection /\ Guarded(ph) /\ Granted(ph) /\ Dialogs
    /\ ErasedAtHome /\ FilesAtHome /\ Waiting(ph) /\ Shown(ph) /\ Rates(ph)
Inv == \E ph : Sound(ph)

-----------------------------------------------------------------------------
(* What a step of a thread is, whichever it is: it did what it had to do, or it   *)
(* missed it, and the thread goes on or ends.                                     *)

Outcomes == {"did", "missed"}
After(p, a, out) == IF out = "did" THEN Did(p, a) ELSE Missed(p, a)
Goes(s, p) ==
    /\ DOMAIN workers' = Slots /\ \A t \in Slots \ {s} : workers'[t] = workers[t]
    /\ \/ workers'[s] = NoThread /\ Ends(p)
       \/ /\ DOMAIN workers'[s] = ThreadFields
          /\ workers'[s].rest # <<>> /\ Follows(p, workers'[s].rest)
          /\ workers'[s].holds = p.holds /\ workers'[s].connects = workers[s].connects
          /\ workers'[s].handle = workers[s].handle /\ workers[s].handle \in Handles
\* A command that is answered and not done.
Ignored(s) ==
    LET a == Head(workers[s].rest)
    IN  \/ a.do \in RawCommands /\ upset' \intersect {"refused", "raw"} # {}
        \/ a.do = "set_baud" /\ rate[workers[s].handle] = 0
Effects(s, out) ==
    LET w == workers[s]
        a == Head(w.rest)
    IN  /\ ui' = ui /\ upset \subseteq upset'
        /\ \A c \in upset' : c \in upset \union {"fault", "taken", "refused", "raw"}
        /\ DOMAIN user' = DOMAIN user /\ user'.profiles = user.profiles /\ user'.ports = user.ports
        /\ IF a.do = "replace" THEN rate' = [rate EXCEPT ![w.handle] = IF @ = 0 THEN 0 ELSE a.arg]
           ELSE rate' = rate
        /\ IF a.do = "tell" THEN \E m \in Message(w) : channel' = Append(channel, m)
           ELSE channel' = channel
        /\ a.do = "lock" => \A t \in Slots : ~(workers[t].holds /\ workers[t].handle = w.handle)
        /\ \/ fpga' = fpga /\ card' = card /\ (out = "did" => a.do \notin Commands \/ Ignored(s))
           \/ /\ a.do \in Commands /\ Obey(a.do, a.arg)
              /\ a.do = "raw" => a.arg = Nothing \/ "raw" \in upset'
              /\ (out = "did" /\ Matches(w.handle)) \/ "fault" \in upset'
        /\ out = "missed" =>
              /\ MayFail(a)
              /\ \/ "fault" \in upset' \/ "taken" \in upset' \/ a.do = "poll"
                 \/ a.do \in Commands /\ (~Matches(w.handle) \/ "raw" \in upset) /\ fpga' = fpga

LEMMA ProceedGoes ==
    ASSUME NEW s \in Slots, NEW p, NEW w, DOMAIN workers = Slots,
           DOMAIN w = ThreadFields, w.rest # <<>>, Follows(p, w.rest),
           w.connects = workers[s].connects, w.handle = workers[s].handle,
           Did(p, Head(w.rest)).holds = w.holds,
           w.handle \in Handles \/ Tail(w.rest) = <<>>,
           Proceed(s, w)
    PROVE  Goes(s, Did(p, Head(w.rest)))
<1> DEFINE p2 == Did(p, Head(w.rest))
<1>1. Follows(p2, Tail(w.rest))
  BY FollowsStep
<1> HIDE DEF p2
<1>2. /\ DOMAIN workers' = Slots /\ \A t \in Slots \ {s} : workers'[t] = workers[t]
      /\ workers'[s] = IF Tail(w.rest) = <<>> THEN NoThread ELSE [w EXCEPT !.rest = Tail(w.rest)]
  BY DEF Proceed, Continue
<1>3. CASE Tail(w.rest) = <<>>
  <2>1. Ends(p2)
    BY <1>1, <1>3, FollowsStep
  <2> QED BY <1>2, <1>3, <2>1 DEF Goes, p2
<1>4. CASE Tail(w.rest) # <<>>
  <2>1. workers'[s] = [w EXCEPT !.rest = Tail(w.rest)]
    BY <1>2, <1>4
  <2>2. /\ DOMAIN workers'[s] = ThreadFields /\ workers'[s].rest = Tail(w.rest)
        /\ workers'[s].holds = w.holds /\ workers'[s].connects = w.connects /\ workers'[s].handle = w.handle
    BY <2>1 DEF ThreadFields
  <2> QED BY <1>1, <1>2, <1>4, <2>2 DEF Goes, p2
<1> QED BY <1>3, <1>4

LEMMA FailGoes ==
    ASSUME NEW s \in Slots, NEW p, DOMAIN workers = Slots,
           DOMAIN workers[s] = ThreadFields, workers[s].rest # <<>>, Follows(p, workers[s].rest),
           p.holds = workers[s].holds, workers[s].handle \in Handles,
           MayFail(Head(workers[s].rest)), Fail(s, workers[s])
    PROVE  Goes(s, Missed(p, Head(workers[s].rest)))
<1> DEFINE w == workers[s]
           p2 == Missed(p, Head(w.rest))
           q == Otherwise(w.rest)
<1>1. Follows(p2, q) /\ DOMAIN p = PhaseFields
  BY FollowsStep
<1>2. p2.holds = w.holds
  BY <1>1 DEF Missed, PhaseFields
<1>3. /\ DOMAIN workers' = Slots /\ \A t \in Slots \ {s} : workers'[t] = workers[t]
      /\ workers'[s] = IF q = <<>> THEN NoThread ELSE [w EXCEPT !.rest = q]
  BY DEF Fail, Continue, Otherwise
<1> HIDE DEF p2, q
<1>4. CASE q = <<>>
  <2>1. Ends(p2)
    BY <1>1, <1>4, FollowsStep
  <2> QED BY <1>3, <1>4, <2>1 DEF Goes, p2
<1>5. CASE q # <<>>
  <2>1. workers'[s] = [w EXCEPT !.rest = q]
    BY <1>3, <1>5
  <2>2. /\ DOMAIN workers'[s] = ThreadFields /\ workers'[s].rest = q
        /\ workers'[s].holds = w.holds /\ workers'[s].connects = w.connects /\ workers'[s].handle = w.handle
    BY <2>1 DEF ThreadFields
  <2> QED BY <1>1, <1>2, <1>3, <1>5, <2>2 DEF Goes, p2
<1> QED BY <1>4, <1>5

\* A thread that has something to do, and its next step.
LEMMA AtWork ==
    ASSUME NEW ph, Shapes, Threads(ph), NEW s \in Slots, workers[s].rest # <<>>
    PROVE  LET w == workers[s]
               a == Head(w.rest)
           IN  /\ DOMAIN workers = Slots /\ DOMAIN w = ThreadFields /\ w # NoThread
               /\ DOMAIN ph[s] = PhaseFields
               /\ Follows(ph[s], w.rest) /\ Legal(ph[s], a)
               /\ w.holds = ph[s].holds /\ w.connects = ph[s].connects
               /\ w.handle \in Handles \/ Tail(w.rest) = <<>>
               /\ w.handle \in Handles \/ a = Tell([type |-> "PortsScanned"])
<1> DEFINE w == workers[s]
           a == Head(w.rest)
<1>1. w # NoThread
  BY DEF NoThread
<1>2. /\ Follows(ph[s], w.rest) /\ DOMAIN ph[s] = PhaseFields
      /\ w.holds = ph[s].holds /\ w.connects = ph[s].connects
      /\ w.handle \in Handles \/ w = Scan
  BY <1>1 DEF Threads
<1>3. Legal(ph[s], a)
  BY <1>2, FollowsStep
<1>4. w = Scan => Tail(w.rest) = <<>> /\ a = Tell([type |-> "PortsScanned"])
  <2>1. Scan.rest = <<Tell([type |-> "PortsScanned"])>>
    BY DEF Scan, Thread, NoThread, Done
  <2>2. \A m : Tail(<<m>>) = <<>> /\ Head(<<m>>) = m
    OBVIOUS
  <2>3. Tail(Scan.rest) = <<>> /\ Head(Scan.rest) = Tell([type |-> "PortsScanned"])
    BY <2>1, <2>2
  <2> QED BY <2>3
<1> QED BY <1>1, <1>2, <1>3, <1>4 DEF Shapes

LEMMA DidHolds ==
    ASSUME NEW p, DOMAIN p = PhaseFields, NEW a
    PROVE  /\ DOMAIN Did(p, a) = PhaseFields /\ DOMAIN Missed(p, a) = PhaseFields
           /\ Missed(p, a).holds = p.holds
           /\ a.do = "lock" => Did(p, a).holds = TRUE
           /\ a.do = "unlock" => Did(p, a).holds = FALSE
           /\ a.do \notin {"lock", "unlock"} => Did(p, a).holds = p.holds
<1>1. DOMAIN Missed(p, a) = PhaseFields /\ Missed(p, a).holds = p.holds
  BY DEF Missed, PhaseFields
<1>2. CASE a.do = "lock"
  BY <1>1, <1>2 DEF Did, PhaseFields
<1>3. CASE a.do = "unlock"
  BY <1>1, <1>3 DEF Did, PhaseFields
<1>4. CASE a.do \notin {"lock", "unlock"}
  <2>1. \/ Did(p, a) = p
        \/ \E x : \/ Did(p, a) = [p EXCEPT !.wants = x] \/ Did(p, a) = [p EXCEPT !.proved = x]
                  \/ Did(p, a) = [p EXCEPT !.clk = x] \/ Did(p, a) = [p EXCEPT !.owes = x]
                  \/ Did(p, a) = [p EXCEPT !.range = x] \/ Did(p, a) = [p EXCEPT !.told = x]
    <3>1. CASE a.do \in {"cmd35", "cmd36", "cmd38"}
      BY <3>1 DEF Did
    <3>2. CASE a.do = "tell"
      BY <3>2 DEF Did
    <3>3. CASE a.do \in {"set_clk", "set_bus_width", "set_partition", "set_baud"}
      BY <3>3 DEF Did
    <3>4. CASE a.do \in {"replace", "ping"}
      BY <3>4 DEF Did
    <3>5. CASE a.do \notin {"cmd35", "cmd36", "cmd38", "tell", "set_clk", "set_bus_width",
                            "set_partition", "set_baud", "replace", "ping"}
      BY <1>4, <3>5 DEF Did
    <3> QED BY <3>1, <3>2, <3>3, <3>4, <3>5
  <2>2. DOMAIN Did(p, a) = PhaseFields /\ Did(p, a).holds = p.holds
    <3>1. \A x : /\ DOMAIN [p EXCEPT !.wants = x] = PhaseFields /\ [p EXCEPT !.wants = x].holds = p.holds
                 /\ DOMAIN [p EXCEPT !.proved = x] = PhaseFields /\ [p EXCEPT !.proved = x].holds = p.holds
                 /\ DOMAIN [p EXCEPT !.clk = x] = PhaseFields /\ [p EXCEPT !.clk = x].holds = p.holds
                 /\ DOMAIN [p EXCEPT !.owes = x] = PhaseFields /\ [p EXCEPT !.owes = x].holds = p.holds
                 /\ DOMAIN [p EXCEPT !.range = x] = PhaseFields /\ [p EXCEPT !.range = x].holds = p.holds
                 /\ DOMAIN [p EXCEPT !.told = x] = PhaseFields /\ [p EXCEPT !.told = x].holds = p.holds
      BY DEF PhaseFields
    <3> QED BY <2>1, <3>1
  <2> QED BY <1>1, <1>4, <2>2
<1> QED BY <1>2, <1>3, <1>4

\* Every action of a thread is such a step.
LEMMA WorkerSteps ==
    ASSUME NEW ph, Shapes, Threads(ph), NEW s \in Slots, Worker(s)
    PROVE  /\ workers[s].rest # <<>>
           /\ \E out \in Outcomes :
                 Goes(s, After(ph[s], Head(workers[s].rest), out)) /\ Effects(s, out)
<1> DEFINE w == workers[s]
           a == Head(w.rest)
           p == ph[s]
<1>0. w.rest # <<>>
  BY DEF Worker, TakeLock, Release, Reopen, Replace, AccessFile, Exchange, Poll, Report, Runs
<1>1. /\ DOMAIN workers = Slots /\ DOMAIN w = ThreadFields /\ w # NoThread /\ DOMAIN p = PhaseFields
      /\ Follows(p, w.rest) /\ Legal(p, a) /\ w.holds = p.holds /\ w.connects = p.connects
      /\ w.handle \in Handles \/ Tail(w.rest) = <<>>
      /\ w.handle \in Handles \/ a = Tell([type |-> "PortsScanned"])
  BY <1>0, AtWork
<1>2. a.do # "tell" => w.handle \in Handles
  BY <1>1, TellParts
<1>3. DOMAIN user' = DOMAIN user /\ user'.profiles = user.profiles /\ user'.ports = user.ports
  <2>1. user' = user \/ user' = [user EXCEPT !.faults = @ - 1]
    BY DEF Worker, TakeLock, Release, Reopen, Replace, AccessFile, Exchange, Poll, Report, Faulty, Spends,
           NoFault
  <2>2. CASE user' = user
    BY <2>2
  <2>3. CASE user' = [user EXCEPT !.faults = @ - 1]
    BY <2>3 DEF Shapes
  <2> QED BY <2>1, <2>2, <2>3
<1>4. ASSUME Proceed(s, w), a.do \notin {"lock", "unlock"} PROVE Goes(s, Did(p, a))
  <2>1. Did(p, a).holds = w.holds
    BY <1>1, <1>4, DidHolds
  <2> QED BY <1>0, <1>1, <1>4, <2>1, ProceedGoes
<1>5. ASSUME Fail(s, w), MayFail(a) PROVE Goes(s, Missed(p, a))
  <2>1. a.do # "tell"
    BY <1>5 DEF MayFail, Commands
  <2>2. w.handle \in Handles
    BY <2>1, <1>2
  <2>3. p.holds = workers[s].holds
    BY <1>1
  <2> QED BY <1>0, <1>1, <1>5, <2>2, <2>3, FailGoes
<1>6. ASSUME NEW b, Proceed(s, [w EXCEPT !.holds = b]), Did(p, a).holds = b PROVE Goes(s, Did(p, a))
  <2> DEFINE x == [w EXCEPT !.holds = b]
  <2>1. /\ DOMAIN x = ThreadFields /\ x.rest = w.rest /\ x.connects = w.connects /\ x.handle = w.handle
        /\ x.holds = b
    BY <1>1 DEF ThreadFields
  <2>2. Proceed(s, x)
    BY <1>6
  <2> HIDE DEF x
  <2> QED BY <1>0, <1>1, <1>6, <2>1, <2>2, ProceedGoes
<1> HIDE DEF p
<1>7. CASE TakeLock(s)
  <2>1. a.do = "lock"
    BY <1>7 DEF TakeLock, Runs
  <2>2. Goes(s, Did(p, a))
    <3>1. Proceed(s, [w EXCEPT !.holds = TRUE])
      BY <1>7 DEF TakeLock
    <3> QED BY <1>1, <1>6, <2>1, <3>1, DidHolds
  <2>3. Effects(s, "did")
    BY <1>3, <1>7, <2>1 DEF Effects, TakeLock, Commands
  <2> QED BY <1>0, <2>2, <2>3 DEF After, Outcomes, p
<1>8. CASE Release(s)
  <2>1. a.do = "unlock"
    BY <1>8 DEF Release, Runs
  <2>2. Goes(s, Did(p, a))
    <3>1. Proceed(s, [w EXCEPT !.holds = FALSE])
      BY <1>8 DEF Release
    <3> QED BY <1>1, <1>6, <2>1, <3>1, DidHolds
  <2>3. Effects(s, "did")
    BY <1>3, <1>8, <2>1 DEF Effects, Release, Commands
  <2> QED BY <1>0, <2>2, <2>3 DEF After, Outcomes, p
<1>9. CASE Reopen(s)
  <2>1. a.do = "reopen"
    BY <1>9 DEF Reopen, Runs
  <2>2. CASE Proceed(s, w) /\ NoFault
    <3>1. Goes(s, Did(p, a))
      BY <1>4, <2>1, <2>2
    <3>2. Effects(s, "did")
      BY <1>3, <1>9, <2>1, <2>2 DEF Effects, Reopen, NoFault, Commands
    <3> QED BY <1>0, <3>1, <3>2 DEF After, Outcomes, p
  <2>3. CASE Fail(s, w) /\ upset' = upset \union {"taken"}
    <3>1. MayFail(a)
      BY <2>1 DEF MayFail
    <3>2. Goes(s, Missed(p, a))
      BY <1>5, <2>3, <3>1
    <3>3. Effects(s, "missed")
      BY <1>3, <1>9, <2>1, <2>3, <3>1 DEF Effects, Reopen, Commands
    <3> QED BY <1>0, <3>2, <3>3 DEF After, Outcomes, p
  <2>4. CASE Faulty /\ Fail(s, w)
    <3>1. MayFail(a)
      BY <2>1 DEF MayFail
    <3>2. Goes(s, Missed(p, a))
      BY <1>5, <2>4, <3>1
    <3>3. Effects(s, "missed")
      BY <1>3, <1>9, <2>1, <2>4, <3>1 DEF Effects, Reopen, Faulty, Spends, Commands
    <3> QED BY <1>0, <3>2, <3>3 DEF After, Outcomes, p
  <2> QED BY <1>9, <2>2, <2>3, <2>4 DEF Reopen
<1>10. CASE Replace(s)
  <2>1. a.do = "replace"
    BY <1>10 DEF Replace, Runs
  <2>2. Goes(s, Did(p, a))
    BY <1>4, <1>10, <2>1 DEF Replace
  <2>3. Effects(s, "did")
    BY <1>3, <1>10, <2>1 DEF Effects, Replace, Commands
  <2> QED BY <1>0, <2>2, <2>3 DEF After, Outcomes, p
<1>11. CASE AccessFile(s)
  <2>1. a.do = "file"
    BY <1>11 DEF AccessFile, Runs
  <2>2. CASE Proceed(s, w) /\ NoFault
    <3>1. Goes(s, Did(p, a))
      BY <1>4, <2>1, <2>2
    <3>2. Effects(s, "did")
      BY <1>3, <1>11, <2>1, <2>2 DEF Effects, AccessFile, NoFault, Commands
    <3> QED BY <1>0, <3>1, <3>2 DEF After, Outcomes, p
  <2>3. CASE Faulty /\ Fail(s, w)
    <3>1. MayFail(a)
      BY <2>1 DEF MayFail
    <3>2. Goes(s, Missed(p, a))
      BY <1>5, <2>3, <3>1
    <3>3. Effects(s, "missed")
      BY <1>3, <1>11, <2>1, <2>3, <3>1 DEF Effects, AccessFile, Faulty, Spends, Commands
    <3> QED BY <1>0, <3>2, <3>3 DEF After, Outcomes, p
  <2> QED BY <1>11, <2>2, <2>3 DEF AccessFile
<1>12. CASE Exchange(s)
  <2> DEFINE deaf == rate[w.handle] # 0 /\ rate[w.handle] # fpga.baud
             idle == Unheeded(a.do, w.handle)
             able == ~deaf /\ ~idle /\ ~Garbled(a.do)
             spoken == upset \union ByHand(a)
  <2>1. a.do \in Commands
    BY <1>1, <1>12 DEF Exchange, Legal
  <2>2. deaf <=> ~Matches(w.handle)
    BY DEF Matches
  <2>3. MayFail(a) /\ a.do \notin {"lock", "unlock", "replace", "tell"}
    BY <2>1 DEF MayFail, Commands
  <2>4. UNCHANGED <<ui, channel, rate, exclusive>>
    BY <1>12 DEF Exchange
  <2>5. spoken \in {upset, upset \union {"raw"}} /\ (a.do = "raw" => a.arg = Nothing \/ "raw" \in spoken)
    BY DEF ByHand
  <2>6. /\ Garbled(a.do) => "raw" \in upset
        /\ idle => \/ a.do \in RawCommands /\ "raw" \in upset
                   \/ a.do = "set_baud" /\ rate[w.handle] = 0
    BY DEF Garbled, Unheeded, Shapes
  <2>7. \/ able /\ Obey(a.do, a.arg) /\ Proceed(s, w) /\ upset' = spoken
        \/ (deaf \/ Garbled(a.do)) /\ Fail(s, w) /\ upset' = upset /\ UNCHANGED <<fpga, card>>
        \/ ~deaf /\ idle /\ Proceed(s, w) /\ upset' = upset /\ UNCHANGED <<fpga, card>>
        \/ /\ able /\ a.do \in RawCommands /\ Proceed(s, w) /\ upset' = upset \union {"refused"}
           /\ UNCHANGED <<fpga, card>>
        \/ able /\ Fail(s, w) /\ upset' = upset \union {"fault"} /\ UNCHANGED <<fpga, card>>
        \/ /\ able /\ Fail(s, w) /\ Obey(a.do, a.arg)
           /\ upset' = upset \union {"fault"} \union ByHand(a)
    BY <1>12 DEF Exchange, Faulty, NoFault
  <2> HIDE DEF deaf, idle, spoken
  <2>8. CASE able /\ Obey(a.do, a.arg) /\ Proceed(s, w) /\ upset' = spoken
    <3>1. Goes(s, Did(p, a))
      BY <1>4, <2>3, <2>8
    <3>2. Effects(s, "did")
      BY <1>3, <2>1, <2>2, <2>3, <2>4, <2>5, <2>8 DEF Effects
    <3> QED BY <1>0, <3>1, <3>2 DEF After, Outcomes, p
  <2>9. CASE (deaf \/ Garbled(a.do)) /\ Fail(s, w) /\ upset' = upset /\ UNCHANGED <<fpga, card>>
    <3>1. Goes(s, Missed(p, a))
      BY <1>5, <2>3, <2>9
    <3>2. Effects(s, "missed")
      BY <1>3, <2>1, <2>2, <2>3, <2>4, <2>6, <2>9 DEF Effects
    <3> QED BY <1>0, <3>1, <3>2 DEF After, Outcomes, p
  <2>10. CASE Proceed(s, w) /\ UNCHANGED <<fpga, card>>
              /\ \/ idle /\ upset' = upset
                 \/ a.do \in RawCommands /\ upset' = upset \union {"refused"}
    <3>1. Goes(s, Did(p, a))
      BY <1>4, <2>3, <2>10
    <3>2. Ignored(s)
      BY <2>6, <2>10 DEF Ignored
    <3>3. Effects(s, "did")
      BY <1>3, <2>1, <2>3, <2>4, <2>10, <3>2 DEF Effects
    <3> QED BY <1>0, <3>1, <3>3 DEF After, Outcomes, p
  <2>11. CASE /\ Fail(s, w)
              /\ \/ upset' = upset \union {"fault"} /\ UNCHANGED <<fpga, card>>
                 \/ upset' = (upset \union {"fault"} \union ByHand(a)) /\ Obey(a.do, a.arg)
    <3>1. Goes(s, Missed(p, a))
      BY <1>5, <2>3, <2>11
    <3>2. \/ upset' = spoken \union {"fault"} /\ Obey(a.do, a.arg)
          \/ upset' = upset \union {"fault"} /\ UNCHANGED <<fpga, card>>
      BY <2>11 DEF spoken
    <3>3. Effects(s, "missed")
      BY <1>3, <2>1, <2>3, <2>4, <2>5, <3>2 DEF Effects
    <3> QED BY <1>0, <3>1, <3>3 DEF After, Outcomes, p
  <2> QED BY <2>7, <2>8, <2>9, <2>10, <2>11
<1>13. CASE Poll(s)
  <2>1. a.do = "poll"
    BY <1>13 DEF Poll, Runs
  <2>2. CASE Proceed(s, w)
    <3>1. Goes(s, Did(p, a))
      BY <1>4, <2>1, <2>2
    <3>2. Effects(s, "did")
      BY <1>3, <1>13, <2>1, <2>2 DEF Effects, Poll, Commands
    <3> QED BY <1>0, <3>1, <3>2 DEF After, Outcomes, p
  <2>3. CASE Fail(s, w)
    <3>1. MayFail(a)
      BY <2>1 DEF MayFail
    <3>2. Goes(s, Missed(p, a))
      BY <1>5, <2>3, <3>1
    <3>3. Effects(s, "missed")
      BY <1>3, <1>13, <2>1, <2>3, <3>1 DEF Effects, Poll, Commands
    <3> QED BY <1>0, <3>2, <3>3 DEF After, Outcomes, p
  <2> QED BY <1>13, <2>2, <2>3 DEF Poll
<1>14. CASE Report(s)
  <2>1. a.do = "tell"
    BY <1>14 DEF Report, Runs
  <2>2. Goes(s, Did(p, a))
    BY <1>4, <1>14, <2>1 DEF Report
  <2>3. Effects(s, "did")
    BY <1>3, <1>14, <2>1 DEF Effects, Report, Commands
  <2> QED BY <1>0, <2>2, <2>3 DEF After, Outcomes, p
<1> QED BY <1>7, <1>8, <1>9, <1>10, <1>11, <1>12, <1>13, <1>14 DEF Worker

\* Field by field.
LEMMA DidFields ==
    ASSUME NEW p, DOMAIN p = PhaseFields, NEW a
    PROVE  LET q == Did(p, a)
           IN  /\ q.connects = p.connects /\ q.may = p.may /\ q.lost = p.lost
               /\ q.range = CASE a.do = "cmd35" -> <<a.arg>>
                              [] a.do = "cmd36" -> <<a.arg, a.arg>>
                              [] a.do = "cmd38" -> NoRange
                              [] OTHER -> p.range
               /\ q.owes = CASE a.do \in {"set_clk", "set_bus_width", "set_partition"} /\ ~p.connects -> ReportOf(a)
                             [] a.do = "tell" /\ ~p.connects -> None
                             [] OTHER -> p.owes
               /\ q.wants = CASE a.do = "set_baud" -> UART_BAUD_RATES[a.arg]
                              [] a.do = "replace" -> 0
                              [] OTHER -> p.wants
               /\ q.clk = IF a.do = "set_clk" /\ p.connects THEN a.arg ELSE p.clk
               /\ q.proved = IF a.do = "ping" /\ p.connects THEN TRUE ELSE p.proved
               /\ q.told = IF a.do = "tell" /\ p.connects THEN TRUE ELSE p.told
<1> USE DEF PhaseFields
<1>1. CASE a.do = "lock"
  BY <1>1 DEF Did
<1>2. CASE a.do = "unlock"
  BY <1>2 DEF Did
<1>3. CASE a.do = "replace"
  BY <1>3 DEF Did
<1>4. CASE a.do = "ping"
  BY <1>4 DEF Did
<1>5. CASE a.do \in {"set_clk", "set_bus_width", "set_partition"}
  <2>1. CASE p.connects
    BY <1>5, <2>1 DEF Did
  <2>2. CASE ~p.connects
    <3>1. Did(p, a) = [p EXCEPT !.owes = ReportOf(a)]
      BY <1>5, <2>2 DEF Did
    <3> QED BY <1>5, <2>2, <3>1
  <2> QED BY <2>1, <2>2
<1>6. CASE a.do = "set_baud"
  BY <1>6 DEF Did
<1>7. CASE a.do \in {"cmd35", "cmd36", "cmd38"}
  BY <1>7 DEF Did
<1>8. CASE a.do = "tell"
  BY <1>8 DEF Did
<1>9. CASE a.do \notin {"lock", "unlock", "replace", "ping", "set_clk", "set_bus_width", "set_partition",
                        "set_baud", "cmd35", "cmd36", "cmd38", "tell"}
  <2>1. Did(p, a) = p
    BY <1>9 DEF Did
  <2> QED BY <1>9, <2>1
<1> QED BY <1>1, <1>2, <1>3, <1>4, <1>5, <1>6, <1>7, <1>8, <1>9

LEMMA DidClk ==
    ASSUME NEW p, DOMAIN p = PhaseFields, NEW a
    PROVE  /\ a.do = "set_clk" /\ p.connects => Did(p, a).clk = a.arg
           /\ a.do # "set_clk" => Did(p, a).clk = p.clk
<1> DEFINE c == a.do = "set_clk" /\ p.connects
<1>1. Did(p, a).clk = IF a.do = "set_clk" /\ p.connects THEN a.arg ELSE p.clk
  BY DidFields
<1>2. c => Did(p, a).clk = a.arg
  BY <1>1
<1>3. ~c => Did(p, a).clk = p.clk
  BY <1>1
<1> QED BY <1>2, <1>3

LEMMA MissedFields ==
    ASSUME NEW p, DOMAIN p = PhaseFields, NEW a
    PROVE  LET q == Missed(p, a)
           IN  /\ q.connects = p.connects /\ q.may = p.may /\ q.holds = p.holds
               /\ q.range = NoRange /\ q.owes = p.owes /\ q.wants = p.wants /\ q.clk = p.clk
               /\ q.proved = p.proved /\ q.told = p.told
               /\ a.do # "reopen" => ("rate" \in q.lost => "rate" \in p.lost)
BY DEF Missed, PhaseFields

LEMMA AfterFields ==
    ASSUME NEW p, DOMAIN p = PhaseFields, NEW a, NEW out
    PROVE  After(p, a, out).connects = p.connects /\ After(p, a, out).may = p.may
<1>1. Did(p, a).connects = p.connects /\ Did(p, a).may = p.may
  BY DidFields
<1>2. Missed(p, a).connects = p.connects /\ Missed(p, a).may = p.may
  BY MissedFields
<1> QED BY <1>1, <1>2 DEF After

-----------------------------------------------------------------------------
(* A step of a thread keeps every part of the invariant. *)

WorkerStep(ph, s, out, pn) ==
    LET w == workers[s]
        a == Head(w.rest)
        p == ph[s]
    IN  /\ s \in Slots /\ out \in Outcomes /\ w.rest # <<>>
        /\ Goes(s, After(p, a, out)) /\ Effects(s, out)
        /\ pn = [t \in Slots |-> IF t # s THEN ph[t]
                                 ELSE IF workers'[s] = NoThread THEN Idle ELSE After(p, a, out)]

\* The thread that makes the step and the others.
LEMMA StepFacts ==
    ASSUME NEW ph, Shapes, Threads(ph), NEW s, NEW out, NEW pn, WorkerStep(ph, s, out, pn)
    PROVE  LET w == workers[s]
               a == Head(w.rest)
               p == ph[s]
               q == After(p, a, out)
           IN  /\ s \in Slots /\ w # NoThread /\ Legal(p, a) /\ w.holds = p.holds /\ w.connects = p.connects
               /\ DOMAIN p = PhaseFields /\ DOMAIN q = PhaseFields
               /\ w.handle \in Handles \/ a = Tell([type |-> "PortsScanned"])
               /\ \A t \in Slots : t # s => workers'[t] = workers[t] /\ pn[t] = ph[t]
               /\ \/ workers'[s] = NoThread /\ pn[s] = Idle /\ Ends(q)
                  \/ /\ workers'[s] # NoThread /\ pn[s] = q /\ DOMAIN workers'[s] = ThreadFields
                     /\ workers'[s].rest # <<>> /\ Follows(q, workers'[s].rest)
                     /\ workers'[s].holds = q.holds /\ workers'[s].connects = p.connects
                     /\ workers'[s].handle = w.handle /\ w.handle \in Handles
<1> DEFINE w == workers[s]
           a == Head(w.rest)
           p == ph[s]
           q == After(p, a, out)
<1>1. s \in Slots /\ w.rest # <<>> /\ Goes(s, q)
  BY DEF WorkerStep
<1>2. /\ w # NoThread /\ DOMAIN p = PhaseFields /\ Legal(p, a) /\ w.holds = p.holds /\ w.connects = p.connects
      /\ w.handle \in Handles \/ a = Tell([type |-> "PortsScanned"])
  BY <1>1, AtWork
<1>3. pn = [t \in Slots |-> IF t # s THEN ph[t] ELSE IF workers'[s] = NoThread THEN Idle ELSE q]
  BY DEF WorkerStep
<1>4. DOMAIN q = PhaseFields
  BY <1>2, DidHolds DEF After
<1> HIDE DEF q
<1>5. \A t \in Slots : t # s => workers'[t] = workers[t] /\ pn[t] = ph[t]
  BY <1>1, <1>3 DEF Goes
<1>6. CASE workers'[s] = NoThread
  <2>1. NoThread.rest = <<>>
    BY DEF NoThread
  <2>2. Ends(q)
    BY <1>1, <1>6, <2>1 DEF Goes
  <2>3. pn[s] = Idle
    BY <1>1, <1>3, <1>6
  <2> QED BY <1>1, <1>2, <1>4, <1>5, <1>6, <2>2, <2>3 DEF q
<1>7. CASE workers'[s] # NoThread
  <2>1. pn[s] = q
    BY <1>1, <1>3, <1>7
  <2>2. /\ DOMAIN workers'[s] = ThreadFields
        /\ workers'[s].rest # <<>> /\ Follows(q, workers'[s].rest)
        /\ workers'[s].holds = q.holds /\ workers'[s].connects = p.connects
        /\ workers'[s].handle = w.handle /\ w.handle \in Handles
    BY <1>1, <1>2, <1>7 DEF Goes
  <2> QED BY <1>1, <1>2, <1>4, <1>5, <1>7, <2>1, <2>2 DEF q
<1> QED BY <1>6, <1>7

LEMMA IdleFields ==
    /\ DOMAIN Idle = PhaseFields /\ Idle.holds = FALSE /\ Idle.connects = FALSE /\ Idle.range = NoRange
    /\ Idle.owes = None /\ Idle.clk = 0 /\ Idle.wants = 0 /\ Idle.proved = FALSE /\ Idle.told = FALSE
    /\ Idle.lost = {} /\ Idle.may = {}
    /\ NoThread.rest = <<>> /\ NoThread.handle = 0 /\ NoThread.holds = FALSE /\ NoThread.connects = FALSE
    /\ DOMAIN NoThread = ThreadFields
    /\ DOMAIN Scan = ThreadFields /\ Scan.handle = 0 /\ Scan.holds = FALSE /\ Scan.connects = FALSE
    /\ Scan # NoThread
<1>1. /\ DOMAIN Idle = PhaseFields /\ Idle.holds = FALSE /\ Idle.connects = FALSE /\ Idle.range = NoRange
      /\ Idle.owes = None /\ Idle.clk = 0 /\ Idle.wants = 0 /\ Idle.proved = FALSE /\ Idle.told = FALSE
      /\ Idle.lost = {} /\ Idle.may = {}
  BY DEF Idle, Phase, PhaseFields
<1>2. /\ NoThread.rest = <<>> /\ NoThread.handle = 0 /\ NoThread.holds = FALSE /\ NoThread.connects = FALSE
      /\ DOMAIN NoThread = ThreadFields
  BY DEF NoThread, ThreadFields
<1>3. /\ DOMAIN Scan = ThreadFields /\ Scan.handle = 0 /\ Scan.holds = FALSE /\ Scan.connects = FALSE
      /\ Scan.rest = <<Tell([type |-> "PortsScanned"])>>
  BY DEF Scan, Thread, NoThread, Done, ThreadFields
<1>4. Scan # NoThread
  <2>1. \A m : <<m>> # <<>>
    OBVIOUS
  <2> QED BY <1>2, <1>3, <2>1
<1> QED BY <1>1, <1>2, <1>3, <1>4

\* A thread, alive or not, and its phase.
LEMMA ThreadFacts ==
    ASSUME NEW ph, Shapes, Threads(ph), NEW s \in Slots
    PROVE  /\ workers[s].holds = ph[s].holds /\ workers[s].connects = ph[s].connects
           /\ DOMAIN ph[s] = PhaseFields
           /\ workers[s].handle \in Handles \union {0} /\ 0 \notin Handles
           /\ workers[s].handle = 0 => ph[s] = Idle /\ ~workers[s].holds /\ ~workers[s].connects
           /\ workers[s] = NoThread => ph[s] = Idle
           /\ workers[s] # NoThread /\ workers[s].handle = 0 => workers[s] = Scan
<1>1. 0 \notin Handles
  BY ProgrammerAssumption
<1>2. CASE workers[s] = NoThread
  BY <1>1, <1>2, IdleFields DEF Threads
<1>3. CASE workers[s] # NoThread
  BY <1>1, <1>3, IdleFields DEF Threads
<1> QED BY <1>2, <1>3

LEMMA ObeyFields ==
    ASSUME Shapes, NEW do, NEW arg, Obey(do, arg)
    PROVE  /\ DOMAIN fpga' = DOMAIN fpga
           /\ fpga'.clk = IF do = "set_clk" THEN arg ELSE fpga.clk
           /\ fpga'.baud = IF do = "set_baud" THEN UART_BAUD_RATES[arg] ELSE fpga.baud
           /\ fpga'.width = CASE do = "set_bus_width" -> arg [] do = "reinit" -> 1 [] OTHER -> fpga.width
           /\ do # "raw" \/ arg = Nothing =>
                 /\ fpga'.part = CASE do = "set_partition" -> arg [] do = "reinit" -> "User" [] OTHER -> fpga.part
                 /\ fpga'.lines = CASE do = "set_bus_width" -> arg [] do = "reinit" -> 1 [] OTHER -> fpga.lines
                 /\ fpga'.idle = IF do = "reinit" THEN FALSE ELSE fpga.idle
           /\ do = "cmd35" => fpga'.range = <<arg>>
           /\ do = "cmd36" /\ fpga.range # NoRange => fpga'.range = <<Head(fpga.range), arg>>
<1> DOMAIN fpga = {"baud", "clk", "width", "lines", "part", "range", "idle"}
  BY DEF Shapes
<1>1. CASE do \in {"set_clk", "set_baud"}
  BY <1>1 DEF Obey
<1>2. CASE do \in {"set_bus_width", "set_partition"}
  BY <1>2 DEF Obey
<1>3. CASE do = "reinit"
  BY <1>3 DEF Obey
<1>4. CASE do \in {"cmd35", "cmd36"}
  BY <1>4 DEF Obey, EraseStart, EraseEnd
<1>5. CASE do \in {"cmd38", "erase"}
  BY <1>5 DEF Obey
<1>6. CASE do \notin {"set_clk", "set_baud", "set_bus_width", "set_partition", "reinit", "cmd35",
                      "cmd36", "cmd38", "erase", "raw"}
  <2>1. fpga' = fpga
    BY <1>6 DEF Obey
  <2> QED BY <1>6, <2>1
<1>7. CASE do = "raw"
  <2>1. fpga' = Typed(arg)
    BY <1>7 DEF Obey
  <2>2. DOMAIN fpga' = DOMAIN fpga /\ fpga'.clk = fpga.clk /\ fpga'.baud = fpga.baud /\ fpga'.width = fpga.width
    BY <2>1 DEF Typed, EraseStart, EraseEnd
  <2>3. arg = Nothing => fpga' = fpga
    BY <2>1 DEF Typed, Nothing
  <2> QED BY <1>7, <2>2, <2>3
<1> QED BY <1>1, <1>2, <1>3, <1>4, <1>5, <1>6, <1>7

LEMMA ObeyCard ==
    ASSUME Shapes, NEW do, NEW arg, Obey(do, arg)
    PROVE  /\ DOMAIN card' = Partitions /\ \A p \in Partitions : DOMAIN card'[p] = Lbas
           /\ \A p \in Partitions, l \in Lbas :
                 \/ card'[p][l] = card[p][l]
                 \/ do = "write" /\ l = arg.lba /\ card'[p][l] = arg.data
                 \/ do = "erase" /\ l = arg /\ card'[p][l] = <<"none", arg>>
                 \/ do = "cmd38" /\ l \in Erased(fpga.range) /\ card'[p][l] = <<"none", arg>>
                 \/ do = "raw" /\ arg # Nothing /\ card'[p][l] = <<"none", arg.to>>
<1> DOMAIN card = Partitions /\ \A p \in Partitions : DOMAIN card[p] = Lbas
  BY DEF Shapes
<1>1. CASE do = "write"
  <2>1. card' = [card EXCEPT ![fpga.part][arg.lba] = arg.data]
    BY <1>1 DEF Obey
  <2> QED BY <1>1, <2>1
<1>2. CASE do = "erase"
  <2>1. card' = [card EXCEPT ![fpga.part][arg] = <<"none", arg>>]
    BY <1>2 DEF Obey
  <2> QED BY <1>2, <2>1
<1>3. \A name : LET c == EraseRange(name)
                 IN  /\ DOMAIN c = Partitions /\ \A p \in Partitions : DOMAIN c[p] = Lbas
                     /\ \A p \in Partitions, l \in Lbas :
                           c[p][l] = card[p][l] \/ (l \in Erased(fpga.range) /\ c[p][l] = <<"none", name>>)
  <2> HIDE DEF Erased
  <2> QED BY DEF EraseRange
<1>4. CASE do = "cmd38"
  <2>1. card' = EraseRange(arg)
    BY <1>4 DEF Obey
  <2> QED BY <1>3, <1>4, <2>1
<1>5. CASE do = "raw" /\ arg.does = "cmd38"
  <2>1. card' = EraseRange(arg.to) /\ arg # Nothing
    BY <1>5 DEF Obey, Nothing
  <2> QED BY <1>3, <1>5, <2>1
<1>6. CASE do \notin {"write", "erase", "cmd38"} /\ ~(do = "raw" /\ arg.does = "cmd38")
  <2>1. card' = card
    BY <1>6 DEF Obey
  <2> QED BY <2>1
<1> QED BY <1>1, <1>2, <1>4, <1>5, <1>6

LEMMA StepShapes ==
    ASSUME NEW ph, Shapes, Threads(ph), NEW s, NEW out, NEW pn, WorkerStep(ph, s, out, pn)
    PROVE  Shapes'
<1> DEFINE a == Head(workers[s].rest)
<1>1. Effects(s, out) /\ Goes(s, After(ph[s], a, out))
  BY DEF WorkerStep
<1>2. DOMAIN workers' = Slots /\ \A t \in Slots : DOMAIN workers'[t] = ThreadFields
  BY <1>1, IdleFields DEF Goes, Shapes
<1>3. ui' = ui /\ DOMAIN user' = DOMAIN user /\ user'.profiles = user.profiles /\ user'.ports = user.ports
  BY <1>1 DEF Effects
<1>4. DOMAIN rate' = Handles
  BY <1>1 DEF Effects, Shapes
<1>5. DOMAIN fpga' = DOMAIN fpga /\ DOMAIN card' = Partitions /\ \A p \in Partitions : DOMAIN card'[p] = Lbas
  <2>1. (fpga' = fpga /\ card' = card) \/ Obey(a.do, a.arg)
    BY <1>1 DEF Effects
  <2>2. CASE fpga' = fpga /\ card' = card
    BY <2>2 DEF Shapes
  <2>3. CASE Obey(a.do, a.arg)
    BY <2>3, ObeyFields, ObeyCard
  <2> QED BY <2>1, <2>2, <2>3
<1>6. \E E : channel' \in Seq(E)
  <2>1. PICK E : channel \in Seq(E)
    BY DEF Shapes
  <2>2. CASE channel' = channel
    BY <2>1, <2>2
  <2>3. CASE \E m : channel' = Append(channel, m)
    <3>1. PICK m : channel' = Append(channel, m)
      BY <2>3
    <3>2. channel' \in Seq(E \union {m})
      BY <2>1, <3>1
    <3> QED BY <3>2
  <2> QED BY <1>1, <2>2, <2>3 DEF Effects
<1>7. ASSUME "raw" \notin upset' PROVE fpga'.lines = fpga'.width /\ ~fpga'.idle
  <2>1. "raw" \notin upset /\ fpga.lines = fpga.width /\ ~fpga.idle
    BY <1>1, <1>7 DEF Effects, Shapes
  <2>2. CASE fpga' = fpga
    BY <2>1, <2>2
  <2>3. CASE Obey(a.do, a.arg) /\ (a.do = "raw" => a.arg = Nothing)
    BY <2>1, <2>3, ObeyFields
  <2> QED BY <1>1, <1>7, <2>2, <2>3 DEF Effects
<1> QED BY <1>2, <1>3, <1>4, <1>5, <1>6, <1>7 DEF Shapes, UiFields, AppState, ThreadFields

LEMMA StepThreads ==
    ASSUME NEW ph, Shapes, Threads(ph), NEW s, NEW out, NEW pn, WorkerStep(ph, s, out, pn)
    PROVE  Threads(pn)'
<1> DEFINE q == After(ph[s], Head(workers[s].rest), out)
<1>0. DOMAIN ph[s] = PhaseFields
  BY StepFacts
<1>1. /\ s \in Slots /\ DOMAIN q = PhaseFields
      /\ \A t \in Slots : t # s => workers'[t] = workers[t] /\ pn[t] = ph[t]
      /\ \/ workers'[s] = NoThread /\ pn[s] = Idle
         \/ /\ pn[s] = q
            /\ workers'[s].rest # <<>> /\ Follows(q, workers'[s].rest)
            /\ workers'[s].holds = q.holds /\ workers'[s].connects = ph[s].connects
            /\ workers'[s].handle \in Handles
  BY StepFacts
<1>4. q.connects = ph[s].connects
  BY <1>0, AfterFields
<1> HIDE DEF q
<1> SUFFICES ASSUME NEW t \in Slots
             PROVE  /\ DOMAIN pn[t] = PhaseFields
                    /\ \/ workers'[t] = NoThread /\ pn[t] = Idle
                       \/ /\ workers'[t].rest # <<>> /\ Follows(pn[t], workers'[t].rest)
                          /\ workers'[t].holds = pn[t].holds /\ workers'[t].connects = pn[t].connects
                          /\ \/ workers'[t].handle \in Handles
                             \/ workers'[t] = Scan /\ pn[t] = Idle
  BY DEF Threads
<1>2. CASE t = s
  BY <1>1, <1>2, <1>4, IdleFields
<1>3. CASE t # s
  BY <1>1, <1>3 DEF Threads
<1> QED BY <1>2, <1>3

\* A holder has a connection, and before it holds it nobody else does.
LEMMA StepLocks ==
    ASSUME NEW ph, Shapes, Threads(ph), LocksApart,
           NEW s, NEW out, NEW pn, WorkerStep(ph, s, out, pn)
    PROVE  LocksApart'
<1> DEFINE w == workers[s]
           a == Head(w.rest)
           q == After(ph[s], a, out)
<1>1. /\ s \in Slots /\ DOMAIN ph[s] = PhaseFields /\ w.holds = ph[s].holds
      /\ \A t \in Slots : t # s => workers'[t] = workers[t]
      /\ \/ workers'[s] = NoThread
         \/ workers'[s].holds = q.holds /\ workers'[s].handle = w.handle
  BY StepFacts
<1>2. workers'[s].holds => workers'[s].handle = w.handle /\ (w.holds \/ a.do = "lock")
  <2>1. q.holds => ph[s].holds \/ a.do = "lock"
    BY <1>1, DidHolds DEF After
  <2> HIDE DEF q
  <2> QED BY <1>1, <2>1, IdleFields
<1>3. a.do = "lock" => \A t \in Slots : ~(workers[t].holds /\ workers[t].handle = w.handle)
  BY DEF WorkerStep, Effects
<1> HIDE DEF a, q
<1> SUFFICES ASSUME NEW t \in Slots, NEW r \in Slots, t # r, workers'[t].holds, workers'[r].holds
             PROVE  workers'[t].handle # workers'[r].handle
  BY DEF LocksApart
<1>4. CASE t = s
  BY <1>1, <1>2, <1>3, <1>4 DEF LocksApart
<1>5. CASE r = s
  BY <1>1, <1>2, <1>3, <1>5 DEF LocksApart
<1>6. CASE t # s /\ r # s
  BY <1>1, <1>6 DEF LocksApart
<1> QED BY <1>4, <1>5, <1>6

LEMMA StepOneConnection ==
    ASSUME NEW ph, Shapes, Threads(ph), OneConnection,
           NEW s, NEW out, NEW pn, WorkerStep(ph, s, out, pn)
    PROVE  OneConnection'
<1>1. ui' = ui /\ upset \subseteq upset'
  BY DEF WorkerStep, Effects
<1>2. \A t \in Slots : workers'[t].handle \in {0, workers[t].handle}
  BY StepFacts, IdleFields
<1>3. 0 \notin Handles
  BY ProgrammerAssumption
<1> QED BY <1>1, <1>2, <1>3 DEF OneConnection

\* Who executes a command under a lock is alone in holding one.
LEMMA Alone1 ==
    ASSUME NEW ph, Shapes, Threads(ph), LocksApart, OneConnection, "shared" \notin upset,
           NEW s \in Slots, NEW t \in Slots, s # t, workers[s].holds
    PROVE  ~workers[t].holds
<1>1. SUFFICES ASSUME workers[t].holds PROVE FALSE
  OBVIOUS
<1>2. workers[s].handle # 0 /\ workers[t].handle # 0
  BY <1>1, ThreadFacts
<1>3. workers[s].handle = workers[t].handle
  BY <1>2 DEF OneConnection
<1> QED BY <1>1, <1>3 DEF LocksApart

LEMMA StepGranted ==
    ASSUME NEW ph, Shapes, Threads(ph), Granted(ph), NEW s, NEW out, NEW pn, WorkerStep(ph, s, out, pn)
    PROVE  Granted(pn)'
<1> DEFINE q == After(ph[s], Head(workers[s].rest), out)
<1>1. upset \subseteq upset'
  BY DEF WorkerStep, Effects
<1>2. /\ s \in Slots /\ DOMAIN ph[s] = PhaseFields
      /\ \A t \in Slots : t # s => pn[t] = ph[t]
      /\ pn[s] \in {Idle, q}
  BY StepFacts
<1>3. q.may = ph[s].may
  BY <1>2, AfterFields
<1> HIDE DEF q
<1>4. \A t \in Slots : pn[t].may \subseteq ph[t].may
  BY <1>2, <1>3, IdleFields
<1> QED BY <1>1, <1>4 DEF Granted

LEMMA StepDialogs ==
    ASSUME Dialogs, NEW ph, NEW s, NEW out, NEW pn, WorkerStep(ph, s, out, pn)
    PROVE  Dialogs'
<1>1. upset \subseteq upset' /\ ui' = ui
  BY DEF WorkerStep, Effects
<1> QED BY <1>1 DEF Dialogs, Sensible, is_destructive

LEMMA StepGuarded ==
    ASSUME NEW ph, Shapes, Threads(ph), LocksApart, OneConnection, Guarded(ph),
           NEW s, NEW out, NEW pn, WorkerStep(ph, s, out, pn)
    PROVE  Guarded(pn)'
<1> DEFINE w == workers[s]
           a == Head(w.rest)
           p == ph[s]
           q == After(p, a, out)
<1>1. /\ s \in Slots /\ Legal(p, a) /\ w.holds = p.holds /\ DOMAIN p = PhaseFields
      /\ \A t \in Slots : t # s => workers'[t] = workers[t] /\ pn[t] = ph[t]
      /\ \/ workers'[s] = NoThread /\ pn[s] = Idle
         \/ pn[s] = q /\ workers'[s].holds = q.holds
  BY StepFacts
<1>2. /\ upset \subseteq upset' /\ out \in Outcomes
      /\ \/ fpga' = fpga /\ (out = "did" => a.do \notin Commands \/ Ignored(s))
         \/ a.do \in Commands /\ Obey(a.do, a.arg)
      /\ out = "missed" => MayFail(a)
  BY DEF WorkerStep, Effects
<1>3. a.do \in Commands => w.holds
  BY <1>1 DEF Legal
<1> SUFFICES ASSUME Unspoilt(upset')
             PROVE  \A t \in Slots :
                       /\ pn[t].range # NoRange => workers'[t].holds /\ fpga'.range = pn[t].range
                       /\ pn[t].owes # None => workers'[t].holds /\ pn[t].owes \in Settings'
  BY DEF Guarded
<1>0. Unspoilt(upset) /\ "shared" \notin upset /\ (Ignored(s) => a.do = "set_baud")
  BY <1>2 DEF Unspoilt, Ignored
<1>4. \A t \in Slots : /\ ph[t].range # NoRange => workers[t].holds /\ fpga.range = ph[t].range
                       /\ ph[t].owes # None => workers[t].holds /\ ph[t].owes \in Settings
  BY <1>0 DEF Guarded
<1>5. \A t \in Slots : t # s /\ w.holds => ~workers[t].holds
  BY <1>0, <1>1, Alone1
<1>6. fpga' = fpga => Settings' = Settings
  BY DEF Settings
<1>7. a.do \notin {"cmd36", "cmd38"} => p.range = NoRange
  BY <1>1 DEF Legal, Erasing
<1>8. a.do # "tell" => p.owes = None
  BY <1>1 DEF Legal, Telling
<1>9. ASSUME NEW t \in Slots, t # s
      PROVE  /\ pn[t].range # NoRange => workers'[t].holds /\ fpga'.range = pn[t].range
             /\ pn[t].owes # None => workers'[t].holds /\ pn[t].owes \in Settings'
  <2>1. workers'[t] = workers[t] /\ pn[t] = ph[t]
    BY <1>1, <1>9
  <2>2. CASE fpga' = fpga
    BY <2>1, <2>2, <1>4, <1>6
  <2>3. CASE a.do \in Commands
    BY <2>1, <2>3, <1>3, <1>4, <1>5, <1>9
  <2> QED BY <1>2, <2>2, <2>3
<1>10. CASE workers'[s] = NoThread /\ pn[s] = Idle
  BY <1>9, <1>10, IdleFields
<1>11. ASSUME pn[s] = q, workers'[s].holds = q.holds, out = "missed"
       PROVE  pn[s].range = NoRange /\ pn[s].owes = None
  <2>1. q = Missed(p, a)
    BY <1>11 DEF After
  <2>2. Missed(p, a).range = NoRange /\ Missed(p, a).owes = p.owes
    BY <1>1, MissedFields
  <2>3. a.do # "tell"
    BY <1>2, <1>11 DEF MayFail, Commands
  <2> QED BY <1>8, <1>11, <2>1, <2>2, <2>3
<1>12. ASSUME pn[s] = q, workers'[s].holds = q.holds, out = "did"
       PROVE  /\ pn[s].range # NoRange => workers'[s].holds /\ fpga'.range = pn[s].range
              /\ pn[s].owes # None => workers'[s].holds /\ pn[s].owes \in Settings'
  <2> DEFINE z == Did(p, a)
  <2>1. q = z
    BY <1>12 DEF After
  <2>2. /\ z.range = CASE a.do = "cmd35" -> <<a.arg>>
                       [] a.do = "cmd36" -> <<a.arg, a.arg>>
                       [] a.do = "cmd38" -> NoRange
                       [] OTHER -> p.range
        /\ z.owes = CASE a.do \in {"set_clk", "set_bus_width", "set_partition"} /\ ~p.connects -> ReportOf(a)
                      [] a.do = "tell" /\ ~p.connects -> None
                      [] OTHER -> p.owes
    BY <1>1, DidFields
  <2>3. a.do \notin {"lock", "unlock"} => z.holds = p.holds
    BY <1>1, DidHolds
  <2> HIDE DEF z, q
  <2>4. CASE a.do \in Commands /\ Obey(a.do, a.arg)
    <3>1. Obey(a.do, a.arg) /\ a.do \notin {"lock", "unlock", "tell"}
      BY <2>4 DEF Commands
    <3>2. workers'[s].holds
      BY <1>1, <1>3, <1>12, <2>1, <2>3, <2>4, <3>1
    <3>3. ASSUME z.range # NoRange PROVE fpga'.range = z.range
      <4>1. CASE a.do = "cmd35"
        BY <2>2, <3>1, <4>1, ObeyFields
      <4>2. CASE a.do = "cmd36"
        <5>1. p.range = <<a.arg>>
          BY <1>1, <4>2 DEF Legal, Erasing
        <5>2. p.range # NoRange
          BY <5>1 DEF NoRange
        <5>3. fpga.range = <<a.arg>>
          BY <1>1, <1>4, <5>1, <5>2
        <5>4. fpga'.range = <<Head(fpga.range), a.arg>>
          BY <3>1, <4>2, <5>1, <5>2, <5>3, ObeyFields
        <5> QED BY <2>2, <4>2, <5>3, <5>4
      <4> QED BY <1>7, <2>2, <3>3, <4>1, <4>2
    <3>4. ASSUME z.owes # None PROVE z.owes \in Settings'
      <4>1. a.do \in {"set_clk", "set_bus_width", "set_partition"} /\ z.owes = ReportOf(a)
        BY <1>8, <2>2, <3>1, <3>4
      <4>2. CASE a.do = "set_clk"
        BY <3>1, <4>1, <4>2, ObeyFields DEF ReportOf, Settings
      <4>3. CASE a.do = "set_bus_width"
        <5>1. z.owes = [type |-> "BusWidthSet", width |-> a.arg]
          BY <4>1, <4>3 DEF ReportOf
        <5>2. fpga'.width = a.arg
          <6> HIDE DEF a
          <6> QED BY <3>1, <4>3, ObeyFields
        <5> HIDE DEF a
        <5> QED BY <5>1, <5>2 DEF Settings
      <4>4. CASE a.do = "set_partition"
        <5>1. z.owes = [type |-> "PartitionSet", part |-> a.arg]
          BY <4>1, <4>4 DEF ReportOf
        <5>2. fpga'.part = a.arg
          <6> HIDE DEF a
          <6>1. a.do # "raw"
            BY <4>4
          <6> QED BY <3>1, <4>4, <6>1, ObeyFields
        <5> HIDE DEF a
        <5> QED BY <5>1, <5>2 DEF Settings
      <4> QED BY <4>1, <4>2, <4>3, <4>4
    <3> QED BY <1>12, <2>1, <3>2, <3>3, <3>4
  <2>5. CASE fpga' = fpga /\ (a.do \notin Commands \/ a.do = "set_baud")
    <3>1. fpga' = fpga /\ z.range = NoRange
      BY <1>7, <2>2, <2>5 DEF Commands
    <3>2. z.owes # None => z.owes = p.owes /\ a.do = "tell"
      BY <1>8, <2>2, <2>5 DEF Commands
    <3>3. z.owes # None => workers'[s].holds /\ z.owes \in Settings'
      BY <1>1, <1>4, <1>6, <1>12, <2>1, <2>3, <3>1, <3>2
    <3> QED BY <1>12, <2>1, <3>1, <3>3
  <2> QED BY <1>0, <1>2, <1>12, <2>4, <2>5
<1> HIDE DEF q
<1>13. CASE pn[s] = q /\ workers'[s].holds = q.holds
  BY <1>2, <1>9, <1>11, <1>12, <1>13 DEF Outcomes
<1> QED BY <1>1, <1>10, <1>13

LEMMA StepErased ==
    ASSUME NEW ph, Shapes, Threads(ph), Guarded(ph), ErasedAtHome,
           NEW s, NEW out, NEW pn, WorkerStep(ph, s, out, pn)
    PROVE  ErasedAtHome'
<1> DEFINE a == Head(workers[s].rest)
           p == ph[s]
<1>1. /\ upset \subseteq upset'
      /\ card' = card \/ (Obey(a.do, a.arg) /\ (a.do = "raw" => a.arg = Nothing \/ "raw" \in upset'))
  BY DEF WorkerStep, Effects
<1>2. s \in Slots /\ Legal(p, a)
  BY StepFacts
<1> SUFFICES ASSUME Unspoilt(upset'), NEW c \in Partitions, NEW l \in Lbas, card'[c][l][1] = "none"
             PROVE  card'[c][l][2] = l
  BY DEF ErasedAtHome, Named
<1>0. Unspoilt(upset) /\ "raw" \notin upset'
  BY <1>1 DEF Unspoilt
<1>3. card[c][l][1] = "none" => card[c][l][2] = l
  BY <1>0 DEF ErasedAtHome, Named
<1>4. CASE Obey(a.do, a.arg) /\ (a.do = "raw" => a.arg = Nothing)
  <2>1. \/ card'[c][l] = card[c][l]
        \/ a.do = "write" /\ l = a.arg.lba /\ card'[c][l] = a.arg.data
        \/ a.do = "erase" /\ l = a.arg /\ card'[c][l] = <<"none", a.arg>>
        \/ a.do = "cmd38" /\ l \in Erased(fpga.range) /\ card'[c][l] = <<"none", a.arg>>
        \/ a.do = "raw" /\ a.arg # Nothing
    BY <1>4, ObeyCard
  <2>2. (a.do = "write" => a.arg.data[1] = "file") /\ ~(a.do = "raw" /\ a.arg # Nothing)
    BY <1>2, <1>4 DEF Legal, Writing
  <2>3. ASSUME a.do = "cmd38", l \in Erased(fpga.range) PROVE l = a.arg
    <3>1. a.arg \in Nat /\ p.range = <<a.arg, a.arg>>
      BY <1>2, <2>3 DEF Legal, Erasing
    <3>2. p.range # NoRange
      BY <3>1 DEF NoRange
    <3>3. fpga.range = <<a.arg, a.arg>>
      BY <1>0, <1>2, <3>1, <3>2 DEF Guarded
    <3>4. l >= a.arg /\ l <= a.arg
      BY <2>3, <3>3 DEF Erased
    <3>5. l \in Nat
      BY ProgrammerAssumption
    <3> QED BY <3>1, <3>4, <3>5
  <2> QED BY <1>3, <2>1, <2>2, <2>3
<1> QED BY <1>0, <1>1, <1>3, <1>4

LEMMA StepFiles ==
    ASSUME NEW ph, Shapes, Threads(ph), Granted(ph), FilesAtHome,
           NEW s, NEW out, NEW pn, WorkerStep(ph, s, out, pn)
    PROVE  FilesAtHome'
<1> DEFINE a == Head(workers[s].rest)
           p == ph[s]
<1>1. /\ upset \subseteq upset' /\ (card' = card \/ Obey(a.do, a.arg))
  BY DEF WorkerStep, Effects
<1>2. s \in Slots /\ Legal(p, a)
  BY StepFacts
<1> SUFFICES ASSUME "moved" \notin upset', NEW c \in Partitions, NEW l \in Lbas, card'[c][l][1] = "file"
             PROVE  card'[c][l][2] = l
  BY DEF FilesAtHome
<1>3. card[c][l][1] = "file" => card[c][l][2] = l
  BY <1>1 DEF FilesAtHome
<1>4. CASE Obey(a.do, a.arg)
  <2>1. \/ card'[c][l] = card[c][l]
        \/ a.do = "write" /\ l = a.arg.lba /\ card'[c][l] = a.arg.data
        \/ \E name : card'[c][l] = <<"none", name>>
    BY <1>4, ObeyCard
  <2>2. a.do = "write" => a.arg.data[2] = a.arg.lba
    <3>1. "wander" \notin p.may
      BY <1>1, <1>2 DEF Granted
    <3> QED BY <1>2, <3>1 DEF Legal, Writing
  <2> QED BY <1>3, <2>1, <2>2
<1> QED BY <1>1, <1>3, <1>4


\* What a thread says, it says as its script has it; only a thread that is about
\* to end speaks for a connecting.
LEMMA MessageFacts ==
    ASSUME NEW p, NEW a, Legal(p, a), a.do = "tell", NEW w, Head(w.rest) = a, w.connects = p.connects,
           NEW m \in Message(w)
    PROVE  /\ OfConnecting(m) => p.connects
           /\ m.type \in Reports \union {"ConnectedWithSpeed"} => m = a.arg
           /\ p.connects => m.type \in {"Error", "ConnectedWithSpeed"}
           /\ p.connects /\ m.type = "Error" => "shown" \in p.lost
<1>1. /\ p.connects =>
            \/ a.arg.type = "Error" /\ "shown" \in p.lost
            \/ a.arg.type = "ConnectedWithSpeed"
      /\ ~p.connects => a.arg.type # "ConnectedWithSpeed"
  BY DEF Legal, Telling
<1>2. Message(w) = CASE a.arg.type = "VerifyComplete" -> {a.arg, [type |-> "Mismatch"]}
                     [] a.arg.type = "Error" -> {[type |-> "Error", connects |-> w.connects]}
                     [] OTHER -> {a.arg}
  BY DEF Message
<1>3. CASE a.arg.type = "VerifyComplete"
  <2>1. m = a.arg \/ m = [type |-> "Mismatch"]
    BY <1>2, <1>3
  <2>2. m.type \in {"VerifyComplete", "Mismatch"}
    BY <1>3, <2>1
  <2> QED BY <1>1, <1>3, <2>2 DEF OfConnecting, Reports
<1>4. CASE a.arg.type = "Error"
  <2>1. m = [type |-> "Error", connects |-> w.connects]
    BY <1>2, <1>4
  <2>2. m.type = "Error" /\ m.connects = p.connects
    BY <2>1
  <2> QED BY <1>1, <1>4, <2>2 DEF OfConnecting, Reports
<1>5. CASE a.arg.type \notin {"VerifyComplete", "Error"}
  <2>1. m = a.arg
    BY <1>2, <1>5
  <2> QED BY <1>1, <1>5, <2>1 DEF OfConnecting, Reports
<1> QED BY <1>3, <1>4, <1>5

\* A connecting says one thing and ends.
LEMMA ToldEnds ==
    ASSUME NEW ph, Shapes, Threads(ph), NEW s, NEW out, NEW pn, WorkerStep(ph, s, out, pn),
           Head(workers[s].rest).do = "tell", workers[s].connects
    PROVE  workers'[s] = NoThread /\ out = "did"
<1> DEFINE a == Head(workers[s].rest)
           p == ph[s]
           q == After(p, a, out)
<1>1. /\ s \in Slots /\ DOMAIN p = PhaseFields /\ workers[s].connects = p.connects
      /\ \/ workers'[s] = NoThread
         \/ workers'[s].rest # <<>> /\ Follows(q, workers'[s].rest)
  BY StepFacts
<1>2. out = "did"
  <2>1. out \in Outcomes /\ (out = "missed" => MayFail(a))
    BY DEF WorkerStep, Effects
  <2> QED BY <2>1 DEF Outcomes, MayFail, Commands
<1>3. q = Did(p, a)
  BY <1>2 DEF After
<1>4. Did(p, a).told = TRUE /\ Did(p, a).connects = p.connects /\ p.connects
  <2>1. a.do = "tell" /\ p.connects
    BY <1>1
  <2> HIDE DEF a
  <2>2. Did(p, a).told = (IF a.do = "tell" /\ p.connects THEN TRUE ELSE p.told)
    BY <1>1, DidFields
  <2>3. Did(p, a).connects = p.connects
    BY <1>1, DidFields
  <2> QED BY <2>1, <2>2, <2>3
<1> HIDE DEF q
<1>5. ~(workers'[s].rest # <<>> /\ Follows(q, workers'[s].rest))
  <2> SUFFICES ASSUME workers'[s].rest # <<>>, Follows(q, workers'[s].rest) PROVE FALSE
    OBVIOUS
  <2>1. Legal(q, Head(workers'[s].rest))
    BY FollowsStep
  <2> QED BY <1>1, <1>3, <1>4, <2>1 DEF Legal, Telling
<1> QED BY <1>1, <1>2, <1>5

\* The channel after a step.
LEMMA ChannelStep ==
    ASSUME NEW ph, Shapes, Threads(ph), NEW s, NEW out, NEW pn, WorkerStep(ph, s, out, pn)
    PROVE  LET w == workers[s]
               n == Len(channel)
           IN  \/ channel' = channel /\ Head(w.rest).do # "tell"
               \/ /\ Head(w.rest).do = "tell"
                  /\ n \in Nat /\ IsSeq(channel) /\ DOMAIN channel' = 1..(n + 1)
                  /\ \A i \in 1..n : channel'[i] = channel[i]
                  /\ DOMAIN channel = 1..n /\ Len(channel') = n + 1
                  /\ \E m \in Message(w) : channel' = Append(channel, m) /\ channel'[n + 1] = m
<1>1. IF Head(workers[s].rest).do = "tell" THEN \E m \in Message(workers[s]) : channel' = Append(channel, m)
      ELSE channel' = channel
  BY DEF WorkerStep, Effects
<1>2. PICK E : channel \in Seq(E)
  BY DEF Shapes
<1>3. CASE Head(workers[s].rest).do = "tell"
  <2>1. PICK m \in Message(workers[s]) : channel' = Append(channel, m)
    BY <1>1, <1>3
  <2>2. channel \in Seq(E \union {m})
    BY <1>2
  <2> QED BY <1>2, <1>3, <2>1, <2>2 DEF IsSeq
<1> QED BY <1>1, <1>3

LEMMA ComingStep ==
    ASSUME NEW ph, Shapes, Threads(ph), NEW s, NEW out, NEW pn, WorkerStep(ph, s, out, pn),
           NEW i \in Nat, Coming(i)'
    PROVE  \/ Coming(i)
           \/ Head(workers[s].rest).do = "tell" /\ workers[s].connects /\ i = Len(channel) + 1
<1> DEFINE w == workers[s]
           n == Len(channel)
<1>0. Legal(ph[s], Head(w.rest)) /\ w.connects = ph[s].connects
  BY StepFacts
<1>1. CASE channel' = channel
  BY <1>1 DEF Coming
<1>2. CASE Head(w.rest).do = "tell"
  <2>1. PICK m \in Message(w) :
            /\ n \in Nat /\ DOMAIN channel' = 1..(n + 1) /\ DOMAIN channel = 1..n
            /\ \A j \in 1..n : channel'[j] = channel[j]
            /\ channel'[n + 1] = m
    BY <1>2, ChannelStep
  <2>2. OfConnecting(m) => w.connects
    BY <1>0, <1>2, MessageFacts
  <2> QED BY <1>2, <2>1, <2>2 DEF Coming
<1> QED BY <1>1, <1>2, ChannelStep

LEMMA StepWaiting ==
    ASSUME NEW ph, Shapes, Threads(ph), Waiting(ph),
           NEW s, NEW out, NEW pn, WorkerStep(ph, s, out, pn)
    PROVE  Waiting(pn)'
<1> DEFINE q == After(ph[s], Head(workers[s].rest), out)
<1>1. upset \subseteq upset' /\ ui' = ui
  BY DEF WorkerStep, Effects
<1>2. /\ s \in Slots /\ DOMAIN ph[s] = PhaseFields /\ workers[s].connects = ph[s].connects
      /\ \A t \in Slots : t # s => workers'[t] = workers[t] /\ pn[t] = ph[t]
      /\ \/ workers'[s] = NoThread /\ pn[s] = Idle
         \/ pn[s] = q /\ workers'[s].connects = ph[s].connects
  BY StepFacts
<1>3. q.may = ph[s].may
  BY <1>2, AfterFields
<1> HIDE DEF q
<1>4. \A t \in Slots : pn[t].may \subseteq ph[t].may
  BY <1>2, <1>3, IdleFields
<1>5. \A t \in Slots : Connects(t)' => Connects(t)
  BY <1>2, IdleFields DEF Connects
<1>6. Awaited' <=> Awaited
  BY <1>1 DEF Awaited, is_busy
<1>7. \A i \in Nat : Coming(i)' =>
          \/ Coming(i)
          \/ Connects(s) /\ ~Connects(s)' /\ i = Len(channel) + 1
  <2> SUFFICES ASSUME NEW i \in Nat, Coming(i)', ~Coming(i)
               PROVE  Connects(s) /\ ~Connects(s)' /\ i = Len(channel) + 1
    OBVIOUS
  <2>1. Head(workers[s].rest).do = "tell" /\ workers[s].connects /\ i = Len(channel) + 1
    BY ComingStep
  <2>2. workers'[s] = NoThread
    BY <2>1, ToldEnds
  <2> QED BY <2>1, <2>2, IdleFields DEF Connects
<1> SUFFICES ASSUME "stray" \notin upset'
             PROVE  /\ ui'.connected => ui'.programmer # 0
                    /\ \A t \in Slots : Connects(t)' =>
                          /\ Awaited' /\ \A i \in Nat : ~Coming(i)'
                          /\ \A r \in Slots \ {t} : ~Connects(r)' /\ ("shared" \notin upset' => "tune" \notin pn[r].may)
                    /\ \A i \in Nat : Coming(i)' =>
                          /\ Awaited' /\ \A t \in Slots : ~Connects(t)'
                          /\ \A j \in Nat : Coming(j)' => j = i
  BY DEF Waiting
<1>8. /\ ui.connected => ui.programmer # 0
      /\ \A t \in Slots : Connects(t) =>
            /\ Awaited /\ \A i \in Nat : ~Coming(i)
            /\ \A r \in Slots \ {t} : ~Connects(r) /\ ("shared" \notin upset => "tune" \notin ph[r].may)
      /\ \A i \in Nat : Coming(i) =>
            /\ Awaited /\ \A t \in Slots : ~Connects(t)
            /\ \A j \in Nat : Coming(j) => j = i
  BY <1>1 DEF Waiting
<1> HIDE DEF Connects, Coming, Awaited
<1>9. ASSUME NEW t \in Slots, Connects(t)'
      PROVE  /\ Awaited' /\ \A i \in Nat : ~Coming(i)'
             /\ \A r \in Slots \ {t} : ~Connects(r)' /\ ("shared" \notin upset' => "tune" \notin pn[r].may)
  BY <1>1, <1>2, <1>4, <1>5, <1>6, <1>7, <1>8, <1>9
<1>10. ASSUME NEW i \in Nat, Coming(i)'
       PROVE  /\ Awaited' /\ \A t \in Slots : ~Connects(t)'
              /\ \A j \in Nat : Coming(j)' => j = i
  BY <1>2, <1>5, <1>6, <1>7, <1>8, <1>10
<1> QED BY <1>1, <1>8, <1>9, <1>10

-----------------------------------------------------------------------------
(* What the panel shows, after a step of a thread that nothing disturbs. *)

QuietStep(ph, s, out, pn) ==
    /\ Shapes /\ Threads(ph) /\ LocksApart /\ OneConnection /\ Guarded(ph) /\ Granted(ph)
    /\ Waiting(ph) /\ Shown(ph)
    /\ WorkerStep(ph, s, out, pn) /\ upset' \subseteq {"overlap", "silent", "moved"}

\* What the settings of the reader and the connection of a connecting are.
Linked(ph, t) ==
    /\ "shown" \notin ph[t].lost /\ ph[t].clk = fpga.clk
    /\ IF ph[t].wants = 0 THEN Matches(workers[t].handle) ELSE Ahead(ph[t].wants, workers[t].handle)

LEMMA QuietCauses ==
    ASSUME NEW ph, NEW s, NEW out, NEW pn, QuietStep(ph, s, out, pn)
    PROVE  /\ upset \subseteq {"overlap", "silent", "moved"}
           /\ \A c \in {"fault", "taken", "shared", "reinit", "stray", "forgotten", "refused", "raw"} : c \notin upset /\ c \notin upset'
           /\ \A t \in Slots : Connects(t) => Linked(ph, t)
<1>1. upset \subseteq upset' /\ upset' \subseteq {"overlap", "silent", "moved"} /\ Shown(ph)
  BY DEF QuietStep, WorkerStep, Effects
<1> QED BY <1>1 DEF Shown, Linked

LEMMA QuietFacts ==
    ASSUME NEW ph, NEW s, NEW out, NEW pn, QuietStep(ph, s, out, pn)
    PROVE  LET w == workers[s]
               a == Head(w.rest)
               p == ph[s]
           IN  /\ s \in Slots /\ ui' = ui /\ DOMAIN ui = UiFields /\ IsSeq(channel)
               /\ out \in Outcomes /\ a.do # "reinit"
               /\ Connects(s) => out = "did"
               /\ \/ /\ fpga' = fpga
                     /\ out = "did" => a.do \notin Commands \/ (a.do = "set_baud" /\ rate[w.handle] = 0)
                  \/ /\ a.do \in Commands /\ Obey(a.do, a.arg) /\ out = "did" /\ Matches(w.handle)
                     /\ a.do = "raw" => a.arg = Nothing
               /\ IF a.do = "replace" THEN rate' = [rate EXCEPT ![w.handle] = IF @ = 0 THEN 0 ELSE a.arg]
                  ELSE rate' = rate
<1> DEFINE w == workers[s]
           a == Head(w.rest)
           p == ph[s]
<1>1. /\ "fault" \notin upset' /\ "taken" \notin upset' /\ "reinit" \notin upset
      /\ "refused" \notin upset' /\ "raw" \notin upset' /\ "raw" \notin upset
      /\ Connects(s) => Linked(ph, s) \/ s \notin Slots
  BY QuietCauses
<1>2. /\ s \in Slots /\ Legal(p, a) /\ w.connects = p.connects
  BY StepFacts DEF QuietStep
<1>3. /\ ui' = ui /\ out \in Outcomes
      /\ IF a.do = "replace" THEN rate' = [rate EXCEPT ![w.handle] = IF @ = 0 THEN 0 ELSE a.arg]
         ELSE rate' = rate
      /\ \/ fpga' = fpga /\ (out = "did" => a.do \notin Commands \/ Ignored(s))
         \/ /\ a.do \in Commands /\ Obey(a.do, a.arg) /\ out = "did" /\ Matches(w.handle)
            /\ a.do = "raw" => a.arg = Nothing
      /\ out = "missed" => a.do = "poll" \/ (a.do \in Commands /\ ~Matches(w.handle))
  BY <1>1 DEF QuietStep, WorkerStep, Effects
<1>7. Ignored(s) => a.do = "set_baud" /\ rate[w.handle] = 0
  BY <1>1 DEF Ignored
<1>4. a.do # "reinit"
  BY <1>1, <1>2 DEF Legal, Tuning, Granted, QuietStep
<1>5. ASSUME Connects(s) PROVE out = "did"
  <2>1. p.connects
    BY <1>2, <1>5 DEF Connects
  <2>2. a.do # "poll" /\ (p.wants # 0 => a.do \notin Commands)
    BY <1>2, <2>1 DEF Legal, Tuning, Commands
  <2>3. p.wants = 0 => Matches(w.handle)
    BY <1>1, <1>2, <1>5 DEF Linked
  <2> QED BY <1>3, <2>2, <2>3 DEF Outcomes
<1>6. DOMAIN ui = UiFields /\ IsSeq(channel)
  BY DEF QuietStep, Shapes, IsSeq
<1> QED BY <1>2, <1>3, <1>4, <1>5, <1>6, <1>7

\* What the GUI will have heard.
LEMMA QuietHeard ==
    ASSUME NEW ph, NEW s, NEW out, NEW pn, QuietStep(ph, s, out, pn)
    PROVE  /\ DOMAIN Heard = UiFields
           /\ Head(workers[s].rest).do # "tell" => Heard' = Heard
           /\ Head(workers[s].rest).do = "tell" =>
                 \E m \in Message(workers[s]) : channel' = Append(channel, m) /\ Heard' = receive(Heard, m)
<1>1. ui' = ui /\ DOMAIN ui = UiFields /\ IsSeq(channel)
  BY QuietFacts
<1>2. DOMAIN Heard = UiFields
  BY <1>1, HeardKeeps DEF Heard
<1>3. IF Head(workers[s].rest).do = "tell" THEN \E m \in Message(workers[s]) : channel' = Append(channel, m)
      ELSE channel' = channel
  BY DEF QuietStep, WorkerStep, Effects
<1>4. ASSUME NEW m, channel' = Append(channel, m) PROVE Heard' = receive(Heard, m)
  <2>1. Heard' = process_messages(ui, Append(channel, m))
    BY <1>1, <1>4 DEF Heard
  <2> QED BY <1>1, <2>1, HeardAppend DEF Heard
<1> QED BY <1>1, <1>2, <1>3, <1>4 DEF Heard

\* A thread that has something to say goes on.
LEMMA GoesOn ==
    ASSUME NEW ph, Shapes, Threads(ph), NEW s, NEW out, NEW pn, WorkerStep(ph, s, out, pn),
           LET q == After(ph[s], Head(workers[s].rest), out)
           IN  q.owes # None \/ (q.connects /\ ~q.told)
    PROVE  workers'[s] # NoThread /\ pn[s] = After(ph[s], Head(workers[s].rest), out)
BY StepFacts DEF Ends

\* A connecting that has said nothing goes on.
LEMMA ConnectingGoesOn ==
    ASSUME NEW ph, Shapes, Threads(ph), NEW s, NEW out, NEW pn, WorkerStep(ph, s, out, pn),
           workers[s].connects, Head(workers[s].rest).do # "tell"
    PROVE  /\ workers'[s] # NoThread /\ pn[s] = After(ph[s], Head(workers[s].rest), out)
           /\ workers'[s].connects
<1> DEFINE a == Head(workers[s].rest)
           p == ph[s]
           q == After(p, a, out)
<1>1. DOMAIN p = PhaseFields /\ Legal(p, a) /\ workers[s].connects = p.connects
  BY StepFacts
<1>2. ~p.told
  BY <1>1 DEF Legal, Telling
<1>3. q.connects = p.connects
  BY <1>1, AfterFields
<1>4. Did(p, a).told = p.told /\ Missed(p, a).told = p.told
  <2>1. a.do # "tell"
    OBVIOUS
  <2> HIDE DEF a
  <2>2. Did(p, a).told = IF a.do = "tell" /\ p.connects THEN TRUE ELSE p.told
    BY <1>1, DidFields
  <2>3. Missed(p, a).told = p.told
    BY <1>1, MissedFields
  <2> QED BY <2>1, <2>2, <2>3
<1>5. q.told = p.told
  BY <1>4 DEF After
<1>6. workers'[s] # NoThread /\ pn[s] = q
  <2> HIDE DEF p, a
  <2>1. q.connects /\ ~q.told
    BY <1>1, <1>2, <1>3, <1>5 DEF p, a
  <2> QED BY <2>1, GoesOn DEF p, a
<1>7. workers'[s].connects = p.connects
  BY <1>6, StepFacts
<1> QED BY <1>1, <1>6, <1>7

LEMMA RatesAreRates == \A r \in Presets : UART_BAUD_RATES[r] \in Nat \ {0}
BY DEF UART_BAUD_RATES, Presets

\* A connecting knows what it has set, and nobody else sets it meanwhile.
LEMMA StepLinked ==
    ASSUME NEW ph, NEW s, NEW out, NEW pn, QuietStep(ph, s, out, pn), NEW t \in Slots, workers'[t].connects
    PROVE  Linked(pn, t)'
<1> DEFINE w == workers[s]
           a == Head(w.rest)
           p == ph[s]
           q == Did(p, a)
<1>0. Shapes /\ Threads(ph) /\ WorkerStep(ph, s, out, pn)
  BY DEF QuietStep
<1>1. /\ s \in Slots /\ Legal(p, a) /\ w.connects = p.connects /\ DOMAIN p = PhaseFields
      /\ \A r \in Slots : r # s => workers'[r] = workers[r] /\ pn[r] = ph[r]
  BY <1>0, StepFacts
<1>2. /\ Connects(s) => out = "did"
      /\ \/ /\ fpga' = fpga
            /\ out = "did" => a.do \notin Commands \/ (a.do = "set_baud" /\ rate[w.handle] = 0)
         \/ a.do \in Commands /\ Obey(a.do, a.arg) /\ out = "did" /\ Matches(w.handle)
      /\ IF a.do = "replace" THEN rate' = [rate EXCEPT ![w.handle] = IF @ = 0 THEN 0 ELSE a.arg]
         ELSE rate' = rate
  BY QuietFacts
<1>3. "shared" \notin upset /\ "stray" \notin upset /\ \A r \in Slots : Connects(r) => Linked(ph, r)
  BY QuietCauses
<1>4. /\ fpga'.clk = fpga.clk \/ (a.do = "set_clk" /\ out = "did" /\ fpga'.clk = a.arg)
      /\ fpga'.baud = fpga.baud \/ (a.do = "set_baud" /\ out = "did" /\ fpga'.baud = UART_BAUD_RATES[a.arg])
      /\ out = "did" => /\ a.do = "set_clk" => fpga'.clk = a.arg
                        /\ a.do = "set_baud" => fpga'.baud = UART_BAUD_RATES[a.arg] \/ rate[w.handle] = 0
      /\ out = "did" /\ a.do # "set_clk" => fpga'.clk = fpga.clk
      /\ out = "did" /\ a.do # "set_baud" => fpga'.baud = fpga.baud
  <2>1. CASE /\ fpga' = fpga
             /\ out = "did" => a.do \notin Commands \/ (a.do = "set_baud" /\ rate[w.handle] = 0)
    BY <2>1 DEF Commands
  <2>2. CASE a.do \in Commands /\ Obey(a.do, a.arg) /\ out = "did"
    <3> HIDE DEF a
    <3> QED BY <1>0, <2>2, ObeyFields
  <2> QED BY <1>2, <2>1, <2>2
<1>5. CASE t = s
  <2>1. workers'[s] # NoThread /\ pn[s] = After(p, a, out) /\ workers'[s].handle = w.handle /\ w.handle \in Handles
        /\ w.connects
    <3>1. workers'[s] # NoThread
      BY <1>5, IdleFields
    <3>2. workers'[s].connects = p.connects
      BY <1>0, <3>1, StepFacts
    <3> QED BY <1>0, <1>1, <1>5, <3>1, <3>2, StepFacts
  <2>2. out = "did" /\ pn[s] = q
    BY <1>2, <2>1 DEF Connects, After
  <2>3. a.do # "tell"
    BY <1>0, <2>1, ToldEnds
  <2>4. Linked(ph, s)
    BY <1>1, <1>3, <2>1 DEF Connects
  <2>5. /\ q.lost = p.lost
        /\ q.wants = CASE a.do = "set_baud" -> UART_BAUD_RATES[a.arg]
                       [] a.do = "replace" -> 0
                       [] OTHER -> p.wants
        /\ a.do = "set_clk" /\ p.connects => q.clk = a.arg
        /\ a.do # "set_clk" => q.clk = p.clk
    <3>0. DOMAIN p = PhaseFields
      BY <1>1
    <3> HIDE DEF p, a
    <3>1. q.lost = p.lost
      BY <3>0, DidFields
    <3>2. q.wants = CASE a.do = "set_baud" -> UART_BAUD_RATES[a.arg]
                      [] a.do = "replace" -> 0
                      [] OTHER -> p.wants
      BY <3>0, DidFields
    <3>3. /\ a.do = "set_clk" /\ p.connects => q.clk = a.arg
          /\ a.do # "set_clk" => q.clk = p.clk
      BY <3>0, DidClk
    <3> HIDE DEF q
    <3> QED BY <3>1, <3>2, <3>3
  <2>6. p.connects /\ (a.do = "set_baud" => a.arg \in Presets) /\ (a.do = "replace" => p.wants # 0 /\ a.arg = p.wants)
    BY <1>1, <2>1 DEF Legal, Tuning
  <2> HIDE DEF q, p, a
  <2>7. "shown" \notin q.lost /\ q.clk = fpga'.clk
    BY <1>4, <2>2, <2>4, <2>5, <2>6 DEF Linked, p
  <2>8. IF q.wants = 0 THEN rate'[w.handle] \in {0, fpga'.baud}
        ELSE fpga'.baud = q.wants \/ rate'[w.handle] = 0
    <3>1. CASE a.do = "set_baud"
      <4>1. q.wants # 0
        BY <2>5, <2>6, <3>1, RatesAreRates
      <4>2. rate' = rate
        BY <1>2, <3>1
      <4> QED BY <1>4, <2>2, <2>5, <3>1, <4>1, <4>2
    <3>2. CASE a.do = "replace"
      <4>1. (fpga'.baud = p.wants \/ rate[w.handle] = 0) /\ q.wants = 0
        BY <1>4, <2>2, <2>4, <2>5, <2>6, <3>2 DEF Linked, Ahead, p
      <4>2. rate'[w.handle] = IF rate[w.handle] = 0 THEN 0 ELSE a.arg
        BY <1>0, <1>2, <2>1, <3>2 DEF Shapes
      <4> QED BY <2>6, <3>2, <4>1, <4>2
    <3>3. CASE a.do \notin {"set_baud", "replace"}
      <4>1. fpga'.baud = fpga.baud /\ rate' = rate /\ q.wants = p.wants
        BY <1>2, <1>4, <2>2, <2>5, <3>3
      <4> QED BY <2>4, <4>1 DEF Linked, Matches, Ahead, p
    <3> QED BY <3>1, <3>2, <3>3
  <2> QED BY <1>5, <2>1, <2>2, <2>7, <2>8 DEF Linked, Matches, Ahead
<1>6. CASE t # s
  <2>1. workers'[t] = workers[t] /\ pn[t] = ph[t] /\ Connects(t)
    BY <1>1, <1>6 DEF Connects
  <2>2. ~Connects(s) /\ "tune" \notin p.may
    BY <1>1, <1>3, <1>6, <2>1 DEF Waiting, QuietStep
  <2>3. a.do \notin {"set_clk", "set_baud", "replace"}
    BY <1>1, <2>2 DEF Legal, Tuning, Connects
  <2>4. fpga'.clk = fpga.clk /\ fpga'.baud = fpga.baud /\ rate' = rate
    BY <1>2, <1>4, <2>3
  <2> QED BY <1>3, <2>1, <2>4 DEF Linked, Matches, Ahead
<1> QED BY <1>5, <1>6

LEMMA ReportsDiffer ==
    /\ \A x : [type |-> "SpeedSet", preset |-> x] # None /\ [type |-> "BusWidthSet", width |-> x] # None
              /\ [type |-> "PartitionSet", part |-> x] # None
    /\ \A x, y : /\ [type |-> "SpeedSet", preset |-> x] # [type |-> "BusWidthSet", width |-> y]
                 /\ [type |-> "SpeedSet", preset |-> x] # [type |-> "PartitionSet", part |-> y]
                 /\ [type |-> "BusWidthSet", width |-> x] # [type |-> "PartitionSet", part |-> y]
<1>1. DOMAIN None = {"name"}
  BY DEF None
<1>2. \A x : /\ DOMAIN [type |-> "SpeedSet", preset |-> x] = {"type", "preset"}
             /\ DOMAIN [type |-> "BusWidthSet", width |-> x] = {"type", "width"}
             /\ DOMAIN [type |-> "PartitionSet", part |-> x] = {"type", "part"}
  OBVIOUS
<1> QED BY <1>1, <1>2

\* A setting that a thread reports is the reader's.
LEMMA ToldSetting ==
    ASSUME NEW ph, NEW s, NEW out, NEW pn, QuietStep(ph, s, out, pn),
           Head(workers[s].rest).do = "tell", NEW m \in Message(workers[s])
    PROVE  /\ m.type = "SpeedSet" => m.preset = fpga.clk
           /\ m.type = "BusWidthSet" => m.width = fpga.width
           /\ m.type = "PartitionSet" => m.part = fpga.part
           /\ m.type = "ConnectedWithSpeed" => m.clk = fpga.clk
           /\ ph[s].connects => m.type = "ConnectedWithSpeed"
           /\ ~ph[s].connects => m.type # "ConnectedWithSpeed"
           /\ ph[s].owes # None => m = ph[s].owes
<1> DEFINE w == workers[s]
           a == Head(w.rest)
           p == ph[s]
<1>1. s \in Slots /\ Legal(p, a) /\ w.connects = p.connects
  BY StepFacts DEF QuietStep
<1>2. "shared" \notin upset /\ (Connects(s) => Linked(ph, s))
  BY <1>1, QuietCauses
<1>3. /\ OfConnecting(m) => p.connects
      /\ m.type \in Reports \union {"ConnectedWithSpeed"} => m = a.arg
      /\ p.connects => m.type \in {"Error", "ConnectedWithSpeed"}
      /\ p.connects /\ m.type = "Error" => "shown" \in p.lost
  BY <1>1, MessageFacts
<1>4. /\ p.connects =>
            \/ a.arg.type = "Error" /\ "shown" \in p.lost
            \/ a.arg.type = "ConnectedWithSpeed" /\ ("shown" \in p.lost \/ a.arg.clk = p.clk)
      /\ ~p.connects /\ (p.owes # None \/ a.arg.type \in Reports) => p.owes # None /\ a.arg = p.owes
  BY <1>1 DEF Legal, Telling
<1>5. p.connects => "shown" \notin p.lost /\ p.clk = fpga.clk
  BY <1>1, <1>2 DEF Linked, Connects
<1>6. CASE p.connects
  <2>1. m.type = "ConnectedWithSpeed" /\ m = a.arg /\ a.arg.clk = fpga.clk
    BY <1>3, <1>4, <1>5, <1>6
  <2>2. p.owes = None
    <3>1. workers'[s] = NoThread /\ out = "did"
      BY <1>1, <1>6, ToldEnds DEF QuietStep
    <3>2. Ends(After(p, a, out)) /\ DOMAIN p = PhaseFields
      BY <3>1, StepFacts DEF QuietStep
    <3>3. Did(p, a).owes = None
      BY <3>1, <3>2 DEF Ends, After
    <3>4. a.do = "tell"
      OBVIOUS
    <3> HIDE DEF a
    <3>5. Did(p, a).owes = CASE a.do \in {"set_clk", "set_bus_width", "set_partition"} /\ ~p.connects -> ReportOf(a)
                             [] a.do = "tell" /\ ~p.connects -> None
                             [] OTHER -> p.owes
      BY <3>2, DidFields
    <3> QED BY <1>6, <3>3, <3>4, <3>5
  <2> QED BY <1>6, <2>1, <2>2
<1>7. CASE ~p.connects
  <2>1. m.type # "ConnectedWithSpeed"
    BY <1>3, <1>7 DEF OfConnecting
  <2>2. p.owes # None => p.owes \in Settings
    <3>1. Unspoilt(upset)
      BY QuietCauses DEF Unspoilt
    <3> QED BY <1>1, <3>1 DEF Guarded, QuietStep
  <2>3. m.type \in Reports => m \in Settings
    BY <1>3, <1>4, <1>7, <2>2
  <2>4. m \in Settings => /\ m.type = "SpeedSet" => m.preset = fpga.clk
                          /\ m.type = "BusWidthSet" => m.width = fpga.width
                          /\ m.type = "PartitionSet" => m.part = fpga.part
    BY DEF Settings
  <2>5. ASSUME p.owes # None PROVE m = p.owes
    <3>1. a.arg = p.owes /\ a.arg \in Settings
      BY <1>4, <1>7, <2>2, <2>5
    <3>2. a.arg.type \in Reports
      BY <3>1 DEF Settings, Reports
    <3>3. Message(w) = {a.arg}
      BY <3>2 DEF Message, Reports
    <3> QED BY <3>1, <3>3
  <2> QED BY <1>7, <2>1, <2>3, <2>4, <2>5 DEF Reports
<1> QED BY <1>6, <1>7

\* A setting that has been changed is owed a report.
LEMMA StepOwing ==
    ASSUME NEW ph, NEW s, NEW out, NEW pn, QuietStep(ph, s, out, pn),
           Head(workers[s].rest).do \in {"set_clk", "set_bus_width", "set_partition"},
           ~ph[s].connects, out = "did"
    PROVE  pn[s].owes = ReportOf(Head(workers[s].rest))
<1> DEFINE a == Head(workers[s].rest)
           p == ph[s]
           q == After(p, a, out)
<1>1. DOMAIN p = PhaseFields
  BY StepFacts DEF QuietStep
<1>2. q = Did(p, a)
  BY DEF After
<1>3. Did(p, a).owes = ReportOf(a)
  <2>1. a.do \in {"set_clk", "set_bus_width", "set_partition"} /\ ~p.connects
    OBVIOUS
  <2> HIDE DEF a, p
  <2>2. Did(p, a).owes = CASE a.do \in {"set_clk", "set_bus_width", "set_partition"} /\ ~p.connects -> ReportOf(a)
                           [] a.do = "tell" /\ ~p.connects -> None
                           [] OTHER -> p.owes
    BY <1>1, DidFields
  <2> QED BY <2>1, <2>2
<1>4. ReportOf(a) # None
  <2>1. a.do \in {"set_clk", "set_bus_width", "set_partition"}
    OBVIOUS
  <2> HIDE DEF a
  <2> QED BY <2>1, ReportsDiffer DEF ReportOf
<1>5. q.owes # None
  <2> HIDE DEF q
  <2> QED BY <1>2, <1>3, <1>4
<1>6. pn[s] = q
  <2> HIDE DEF q, p, a
  <2> QED BY <1>5, GoesOn DEF QuietStep, q, p, a
<1> QED BY <1>2, <1>3, <1>6

\* What is owed or being connected by another thread stays so; by this one, unless
\* it is told.
LEMMA StepClaims ==
    ASSUME NEW ph, NEW s, NEW out, NEW pn, QuietStep(ph, s, out, pn), NEW t \in Slots
    PROVE  LET a == Head(workers[s].rest)
           IN  /\ t # s \/ a.do # "tell" => (Connects(t) => workers'[t].connects)
               /\ t # s => pn[t].owes = ph[t].owes
               /\ t = s /\ a.do # "tell" => ph[t].owes = None
<1> DEFINE a == Head(workers[s].rest)
<1>1. s \in Slots /\ (t # s => workers'[t] = workers[t] /\ pn[t] = ph[t]) /\ Legal(ph[s], a)
  BY StepFacts DEF QuietStep
<1>2. Connects(s) /\ a.do # "tell" => workers'[s].connects
  BY ConnectingGoesOn DEF QuietStep, Connects
<1>3. a.do # "tell" => ph[s].owes = None
  BY <1>1 DEF Legal, Telling
<1> HIDE DEF a
<1> QED BY <1>1, <1>2, <1>3 DEF Connects, a

LEMMA QuietFpga ==
    ASSUME NEW ph, NEW s, NEW out, NEW pn, QuietStep(ph, s, out, pn)
    PROVE  LET a == Head(workers[s].rest)
           IN  /\ fpga'.clk = fpga.clk \/ (a.do = "set_clk" /\ out = "did" /\ fpga'.clk = a.arg)
               /\ fpga'.width = fpga.width \/ (a.do = "set_bus_width" /\ out = "did" /\ fpga'.width = a.arg)
               /\ fpga'.part = fpga.part \/ (a.do = "set_partition" /\ out = "did" /\ fpga'.part = a.arg)
               /\ a.do = "tell" => fpga' = fpga
<1> DEFINE a == Head(workers[s].rest)
<1>1. /\ a.do # "reinit"
      /\ \/ fpga' = fpga
         \/ /\ a.do \in Commands /\ Obey(a.do, a.arg) /\ out = "did"
            /\ a.do = "raw" => a.arg = Nothing
  BY QuietFacts
<1> HIDE DEF a
<1>2. CASE fpga' = fpga
  BY <1>2
<1>3. CASE a.do \in Commands /\ Obey(a.do, a.arg) /\ out = "did" /\ (a.do = "raw" => a.arg = Nothing)
  <2>1. a.do # "tell"
    BY <1>3 DEF Commands
  <2>2. Shapes
    BY DEF QuietStep
  <2> QED BY <1>1, <1>3, <2>1, <2>2, ObeyFields DEF a
<1> QED BY <1>1, <1>2, <1>3 DEF a

LEMMA StepClock ==
    ASSUME NEW ph, NEW s, NEW out, NEW pn, QuietStep(ph, s, out, pn)
    PROVE  \/ Heard'.clk_preset = fpga'.clk
           \/ \E t \in Slots : workers'[t].connects \/ pn[t].owes = [type |-> "SpeedSet", preset |-> fpga'.clk]
<1> DEFINE a == Head(workers[s].rest)
<1>0. s \in Slots /\ workers[s].connects = ph[s].connects
  BY StepFacts DEF QuietStep
<1>1. \/ Heard.clk_preset = fpga.clk
      \/ \E t \in Slots : Connects(t) \/ ph[t].owes = [type |-> "SpeedSet", preset |-> fpga.clk]
  BY QuietCauses DEF QuietStep, Shown
<1>2. CASE a.do = "tell"
  <2>1. fpga' = fpga
    BY <1>2, QuietFpga
  <2>2. PICK m \in Message(workers[s]) : Heard' = receive(Heard, m)
    BY <1>2, QuietHeard
  <2>3. Heard'.clk_preset = CASE m.type = "ConnectedWithSpeed" -> m.clk
                              [] m.type = "SpeedSet" -> m.preset
                              [] OTHER -> Heard.clk_preset
    BY <2>2, QuietHeard, ReceiveProperties
  <2>4. /\ m.type = "SpeedSet" => m.preset = fpga.clk
        /\ m.type = "ConnectedWithSpeed" => m.clk = fpga.clk
        /\ ph[s].connects => m.type = "ConnectedWithSpeed"
        /\ ph[s].owes # None => m = ph[s].owes
    BY <1>2, ToldSetting
  <2>5. CASE m.type \in {"SpeedSet", "ConnectedWithSpeed"}
    BY <2>1, <2>3, <2>4, <2>5
  <2>6. CASE m.type \notin {"SpeedSet", "ConnectedWithSpeed"}
    <3>1. Heard'.clk_preset = Heard.clk_preset
      BY <2>3, <2>6
    <3>2. ASSUME NEW t \in Slots, Connects(t) \/ ph[t].owes = [type |-> "SpeedSet", preset |-> fpga.clk]
          PROVE  workers'[t].connects \/ pn[t].owes = [type |-> "SpeedSet", preset |-> fpga.clk]
      <4>1. t # s
        <5>1. ~Connects(s)
          BY <1>0, <2>4, <2>6 DEF Connects
        <5>2. ph[s].owes # [type |-> "SpeedSet", preset |-> fpga.clk]
          BY <2>4, <2>6, ReportsDiffer
        <5> QED BY <3>2, <5>1, <5>2
      <4> QED BY <3>2, <4>1, StepClaims
    <3> QED BY <1>1, <2>1, <3>1, <3>2
  <2> QED BY <2>5, <2>6
<1>3. CASE a.do = "set_clk" /\ out = "did"
  <2>1. CASE ph[s].connects
    BY <1>0, <1>3, <2>1, StepClaims DEF Connects
  <2>2. CASE ~ph[s].connects
    <3>1. pn[s].owes = ReportOf(a)
      BY <1>3, <2>2, StepOwing
    <3>2. CASE fpga'.clk = a.arg
      BY <1>0, <1>3, <3>1, <3>2 DEF ReportOf
    <3>3. fpga'.clk = a.arg
      <4>1. Shapes /\ (Obey(a.do, a.arg) \/ a.do \notin Commands)
        BY <1>3, QuietFacts DEF QuietStep
      <4>2. Obey(a.do, a.arg)
        BY <1>3, <4>1 DEF Commands
      <4> HIDE DEF a
      <4> QED BY <1>3, <4>1, <4>2, ObeyFields
    <3> QED BY <3>2, <3>3
  <2> QED BY <2>1, <2>2
<1>4. CASE a.do # "tell" /\ ~(a.do = "set_clk" /\ out = "did")
  <2>1. fpga'.clk = fpga.clk /\ Heard' = Heard
    BY <1>4, QuietFpga, QuietHeard
  <2>2. ASSUME NEW t \in Slots, Connects(t) \/ ph[t].owes = [type |-> "SpeedSet", preset |-> fpga.clk]
        PROVE  workers'[t].connects \/ pn[t].owes = [type |-> "SpeedSet", preset |-> fpga.clk]
    BY <1>4, <2>2, StepClaims, ReportsDiffer
  <2> QED BY <1>1, <2>1, <2>2
<1> QED BY <1>2, <1>3, <1>4

LEMMA StepWidth ==
    ASSUME NEW ph, NEW s, NEW out, NEW pn, QuietStep(ph, s, out, pn)
    PROVE  \/ Heard'.bus_width = fpga'.width
           \/ \E t \in Slots : pn[t].owes = [type |-> "BusWidthSet", width |-> fpga'.width]
<1> DEFINE a == Head(workers[s].rest)
<1>0. s \in Slots /\ workers[s].connects = ph[s].connects /\ Legal(ph[s], a)
  BY StepFacts DEF QuietStep
<1>1. \/ Heard.bus_width = fpga.width
      \/ \E t \in Slots : ph[t].owes = [type |-> "BusWidthSet", width |-> fpga.width]
  BY QuietCauses DEF QuietStep, Shown
<1>2. CASE a.do = "tell"
  <2>1. fpga' = fpga
    BY <1>2, QuietFpga
  <2>2. PICK m \in Message(workers[s]) : Heard' = receive(Heard, m)
    BY <1>2, QuietHeard
  <2>3. Heard'.bus_width = IF m.type = "BusWidthSet" THEN m.width ELSE Heard.bus_width
    BY <2>2, QuietHeard, ReceiveProperties
  <2>4. /\ m.type = "BusWidthSet" => m.width = fpga.width
        /\ ph[s].owes # None => m = ph[s].owes
    BY <1>2, ToldSetting
  <2>5. CASE m.type = "BusWidthSet"
    BY <2>1, <2>3, <2>4, <2>5
  <2>6. CASE m.type # "BusWidthSet"
    <3>1. Heard'.bus_width = Heard.bus_width
      BY <2>3, <2>6
    <3>2. ASSUME NEW t \in Slots, ph[t].owes = [type |-> "BusWidthSet", width |-> fpga.width]
          PROVE  pn[t].owes = [type |-> "BusWidthSet", width |-> fpga.width]
      <4>1. t # s
        BY <2>4, <2>6, <3>2, ReportsDiffer
      <4> QED BY <3>2, <4>1, StepClaims
    <3> QED BY <1>1, <2>1, <3>1, <3>2
  <2> QED BY <2>5, <2>6
<1>3. CASE a.do = "set_bus_width" /\ out = "did"
  <2>1. ~ph[s].connects
    BY <1>0, <1>3 DEF Legal, Tuning
  <2>2. pn[s].owes = ReportOf(a)
    BY <1>3, <2>1, StepOwing
  <2>3. fpga'.width = a.arg
    <3>1. Shapes /\ (Obey(a.do, a.arg) \/ a.do \notin Commands)
      BY <1>3, QuietFacts DEF QuietStep
    <3>2. Obey(a.do, a.arg)
      BY <1>3, <3>1 DEF Commands
    <3> HIDE DEF a
    <3> QED BY <1>3, <3>1, <3>2, ObeyFields
  <2> QED BY <1>0, <1>3, <2>2, <2>3 DEF ReportOf
<1>4. CASE a.do # "tell" /\ ~(a.do = "set_bus_width" /\ out = "did")
  <2>1. fpga'.width = fpga.width /\ Heard' = Heard
    BY <1>4, QuietFpga, QuietHeard
  <2>2. ASSUME NEW t \in Slots, ph[t].owes = [type |-> "BusWidthSet", width |-> fpga.width]
        PROVE  pn[t].owes = [type |-> "BusWidthSet", width |-> fpga.width]
    BY <1>4, <2>2, StepClaims, ReportsDiffer
  <2> QED BY <1>1, <2>1, <2>2
<1> QED BY <1>2, <1>3, <1>4

LEMMA StepPart ==
    ASSUME NEW ph, NEW s, NEW out, NEW pn, QuietStep(ph, s, out, pn)
    PROVE  \/ Heard'.active_partition = fpga'.part
           \/ \E t \in Slots : pn[t].owes = [type |-> "PartitionSet", part |-> fpga'.part]
           \/ Offline' /\ Heard'.active_partition = "User"
<1> DEFINE a == Head(workers[s].rest)
<1>0. s \in Slots /\ workers[s].connects = ph[s].connects /\ Legal(ph[s], a)
      /\ Shapes /\ Threads(ph) /\ WorkerStep(ph, s, out, pn)
  BY StepFacts DEF QuietStep
<1>1. \/ Heard.active_partition = fpga.part
      \/ \E t \in Slots : ph[t].owes = [type |-> "PartitionSet", part |-> fpga.part]
      \/ Offline /\ Heard.active_partition = "User"
  BY QuietCauses DEF QuietStep, Shown
<1>2. ASSUME Offline PROVE Offline'
  <2>1. ui' = ui
    BY QuietFacts
  <2>2. \A t \in Slots : ~workers'[t].connects
    <3>1. \A t \in Slots : workers'[t] = workers[t] \/ t = s
      BY <1>0, StepFacts
    <3>2. workers'[s].connects => workers[s].connects
      BY <1>0, StepFacts, IdleFields
    <3> QED BY <1>0, <1>2, <3>1, <3>2 DEF Offline, Connects
  <2>3. \A i \in Nat : ~Coming(i)'
    <3> SUFFICES ASSUME NEW i \in Nat, Coming(i)' PROVE FALSE
      OBVIOUS
    <3>1. Coming(i) \/ workers[s].connects
      BY <1>0, ComingStep
    <3> QED BY <1>0, <1>2, <3>1 DEF Offline, Connects
  <2> QED BY <1>2, <2>1, <2>2, <2>3 DEF Offline, Connects
<1>3. CASE a.do = "tell"
  <2>1. fpga' = fpga
    BY <1>3, QuietFpga
  <2>2. PICK m \in Message(workers[s]) : Heard' = receive(Heard, m)
    BY <1>3, QuietHeard
  <2>3. Heard'.active_partition = IF m.type = "PartitionSet" THEN m.part ELSE Heard.active_partition
    BY <2>2, QuietHeard, ReceiveProperties
  <2>4. /\ m.type = "PartitionSet" => m.part = fpga.part
        /\ ph[s].owes # None => m = ph[s].owes
    BY <1>3, ToldSetting
  <2>5. CASE m.type = "PartitionSet"
    BY <2>1, <2>3, <2>4, <2>5
  <2>6. CASE m.type # "PartitionSet"
    <3>1. Heard'.active_partition = Heard.active_partition
      BY <2>3, <2>6
    <3>2. ASSUME NEW t \in Slots, ph[t].owes = [type |-> "PartitionSet", part |-> fpga.part]
          PROVE  pn[t].owes = [type |-> "PartitionSet", part |-> fpga.part]
      <4>1. t # s
        BY <2>4, <2>6, <3>2, ReportsDiffer
      <4> QED BY <3>2, <4>1, StepClaims
    <3> QED BY <1>1, <1>2, <2>1, <3>1, <3>2
  <2> QED BY <2>5, <2>6
<1>4. CASE a.do = "set_partition" /\ out = "did"
  <2>1. ~ph[s].connects
    BY <1>0, <1>4 DEF Legal, Tuning
  <2>2. pn[s].owes = ReportOf(a)
    BY <1>4, <2>1, StepOwing
  <2>3. fpga'.part = a.arg
    <3>1. Shapes /\ (Obey(a.do, a.arg) \/ a.do \notin Commands)
      BY <1>4, QuietFacts DEF QuietStep
    <3>2. Obey(a.do, a.arg)
      BY <1>4, <3>1 DEF Commands
    <3> HIDE DEF a
    <3> QED BY <1>4, <3>1, <3>2, ObeyFields
  <2> QED BY <1>0, <1>4, <2>2, <2>3 DEF ReportOf
<1>5. CASE a.do # "tell" /\ ~(a.do = "set_partition" /\ out = "did")
  <2>1. fpga'.part = fpga.part /\ Heard' = Heard
    BY <1>5, QuietFpga, QuietHeard
  <2>2. ASSUME NEW t \in Slots, ph[t].owes = [type |-> "PartitionSet", part |-> fpga.part]
        PROVE  pn[t].owes = [type |-> "PartitionSet", part |-> fpga.part]
    BY <1>5, <2>2, StepClaims, ReportsDiffer
  <2> QED BY <1>1, <1>2, <2>1, <2>2
<1> QED BY <1>3, <1>4, <1>5

LEMMA StepShown ==
    ASSUME NEW ph, Shapes, Threads(ph), LocksApart, OneConnection, Guarded(ph), Granted(ph),
           Waiting(ph), Shown(ph), NEW s, NEW out, NEW pn, WorkerStep(ph, s, out, pn)
    PROVE  Shown(pn)'
<1> SUFFICES ASSUME upset' \subseteq {"overlap", "silent", "moved"}
             PROVE  /\ \A t \in Slots : workers'[t].connects => Linked(pn, t)'
                    /\ \/ Heard'.clk_preset = fpga'.clk
                       \/ \E t \in Slots : \/ workers'[t].connects
                                           \/ pn[t].owes = [type |-> "SpeedSet", preset |-> fpga'.clk]
                    /\ \/ Heard'.bus_width = fpga'.width
                       \/ \E t \in Slots : pn[t].owes = [type |-> "BusWidthSet", width |-> fpga'.width]
                    /\ \/ Heard'.active_partition = fpga'.part
                       \/ \E t \in Slots : pn[t].owes = [type |-> "PartitionSet", part |-> fpga'.part]
                       \/ Offline' /\ Heard'.active_partition = "User"
  BY DEF Shown, Linked, Connects
<1>1. QuietStep(ph, s, out, pn)
  BY DEF QuietStep
<1> QED BY <1>1, StepLinked, StepClock, StepWidth, StepPart

-----------------------------------------------------------------------------
(* The rate, after a step of a thread that is alone and undisturbed. *)

SoloStep(ph, s, out, pn) ==
    /\ Shapes /\ Threads(ph) /\ OneConnection /\ Rates(ph)
    /\ WorkerStep(ph, s, out, pn) /\ upset' \intersect {"fault", "taken", "silent", "overlap"} = {}

LEMMA SoloFacts ==
    ASSUME NEW ph, NEW s, NEW out, NEW pn, SoloStep(ph, s, out, pn)
    PROVE  LET w == workers[s]
               a == Head(w.rest)
               p == ph[s]
           IN  /\ upset \subseteq upset' /\ "shared" \notin upset' /\ ui' = ui
               /\ s \in Slots /\ w # NoThread /\ Legal(p, a) /\ DOMAIN p = PhaseFields /\ w.connects = p.connects
               /\ w.handle \in Handles \/ a.do = "tell"
               /\ \A t \in Slots : t # s =>
                     /\ workers[t] = NoThread /\ ph[t] = Idle
                     /\ workers'[t] = NoThread /\ pn[t] = Idle
               /\ "rate" \notin p.lost /\ (p.wants # 0 => Ahead(p.wants, w.handle))
               /\ p.connects => /\ channel = <<>> /\ ~ui.connected
                                /\ p.proved /\ p.wants = 0 => Matches(w.handle)
               /\ ui.programmer = 0 \/ w.handle = 0 \/ ui.programmer = w.handle
<1> DEFINE w == workers[s]
           a == Head(w.rest)
           p == ph[s]
<1>0. Shapes /\ Threads(ph) /\ WorkerStep(ph, s, out, pn)
  BY DEF SoloStep
<1>1. /\ upset \subseteq upset' /\ ui' = ui /\ ("shared" \in upset' => "shared" \in upset)
      /\ upset \intersect {"fault", "taken", "silent", "overlap"} = {}
  BY DEF SoloStep, WorkerStep, Effects
<1>2. /\ s \in Slots /\ w # NoThread /\ Legal(p, a) /\ DOMAIN p = PhaseFields /\ w.connects = p.connects
      /\ w.handle \in Handles \/ a = Tell([type |-> "PortsScanned"])
      /\ \A t \in Slots : t # s => workers'[t] = workers[t] /\ pn[t] = ph[t]
  BY <1>0, StepFacts
<1>3. a = Tell([type |-> "PortsScanned"]) => a.do = "tell"
  BY TellParts
<1>4. /\ "shared" \notin upset
      /\ \A r, t \in Slots : workers[r] # NoThread /\ workers[t] # NoThread => r = t
      /\ "rate" \notin p.lost /\ (p.wants # 0 => Ahead(p.wants, w.handle))
      /\ Connects(s) => /\ channel = <<>> /\ ~ui.connected
                        /\ p.proved /\ p.wants = 0 => Matches(w.handle)
  BY <1>1, <1>2 DEF SoloStep, Rates
<1>5. \A t \in Slots : t # s => workers[t] = NoThread /\ ph[t] = Idle
  BY <1>0, <1>2, <1>4, ThreadFacts
<1>6. ui.programmer = 0 \/ w.handle = 0 \/ ui.programmer = w.handle
  BY <1>2, <1>4 DEF SoloStep, OneConnection
<1> HIDE DEF a
<1> QED BY <1>1, <1>2, <1>3, <1>4, <1>5, <1>6 DEF Connects, a

\* What it does to the reader and to the connections.
LEMMA SoloEffects ==
    ASSUME NEW ph, NEW s, NEW out, NEW pn, SoloStep(ph, s, out, pn)
    PROVE  LET w == workers[s]
               a == Head(w.rest)
               p == ph[s]
           IN  /\ out = "did" \/ (out = "missed" /\ a.do \in Commands \union {"poll"} /\ fpga' = fpga)
               /\ IF out = "did" /\ a.do = "set_baud"
                  THEN /\ UART_BAUD_RATES[a.arg] # 0
                       /\ fpga'.baud = UART_BAUD_RATES[a.arg] \/ rate[w.handle] = 0
                  ELSE fpga'.baud = fpga.baud
               /\ out = "did" /\ a.do = "ping" => Matches(w.handle)
               /\ IF a.do = "replace" THEN rate'[w.handle] \in {0, fpga'.baud} ELSE rate' = rate
<1> DEFINE w == workers[s]
           a == Head(w.rest)
           p == ph[s]
<1>0. Shapes /\ Threads(ph) /\ WorkerStep(ph, s, out, pn)
  BY DEF SoloStep
<1>1. /\ Legal(p, a) /\ (w.handle \in Handles \/ a.do = "tell")
      /\ p.wants # 0 => Ahead(p.wants, w.handle)
  BY SoloFacts
<1>2. "fault" \notin upset' /\ "taken" \notin upset'
  BY DEF SoloStep
<1>3. /\ out \in Outcomes
      /\ IF a.do = "replace" THEN rate' = [rate EXCEPT ![w.handle] = IF @ = 0 THEN 0 ELSE a.arg]
         ELSE rate' = rate
      /\ \/ /\ fpga' = fpga
            /\ out = "did" => \/ a.do \notin Commands \/ a.do \in RawCommands
                              \/ a.do = "set_baud" /\ rate[w.handle] = 0
         \/ a.do \in Commands /\ Obey(a.do, a.arg) /\ out = "did" /\ Matches(w.handle)
      /\ out = "missed" => a.do = "poll" \/ (a.do \in Commands /\ fpga' = fpga)
  BY <1>2 DEF SoloStep, WorkerStep, Effects, Ignored
<1>4. (a.do = "set_baud" => a.arg \in Presets) /\ (a.do = "replace" => p.wants # 0 /\ a.arg = p.wants)
  BY <1>1 DEF Legal, Tuning
<1> HIDE DEF a
<1>5. out = "did" \/ (out = "missed" /\ a.do \in Commands \union {"poll"} /\ fpga' = fpga)
  BY <1>3 DEF Outcomes, Commands
<1>6. IF out = "did" /\ a.do = "set_baud"
      THEN /\ UART_BAUD_RATES[a.arg] # 0
           /\ fpga'.baud = UART_BAUD_RATES[a.arg] \/ rate[w.handle] = 0
      ELSE fpga'.baud = fpga.baud
  <2>1. CASE /\ fpga' = fpga
             /\ out = "did" => \/ a.do \notin Commands \/ a.do \in RawCommands
                               \/ a.do = "set_baud" /\ rate[w.handle] = 0
    BY <1>4, <2>1, RatesAreRates DEF Commands, RawCommands
  <2>2. CASE a.do \in Commands /\ Obey(a.do, a.arg) /\ out = "did"
    BY <1>0, <1>4, <2>2, ObeyFields, RatesAreRates
  <2> QED BY <1>3, <2>1, <2>2
<1>7. out = "did" /\ a.do = "ping" => Matches(w.handle)
  BY <1>3 DEF Commands, RawCommands
<1>8. IF a.do = "replace" THEN rate'[w.handle] \in {0, fpga'.baud} ELSE rate' = rate
  <2>1. CASE a.do = "replace"
    <3>1. rate'[w.handle] = (IF rate[w.handle] = 0 THEN 0 ELSE a.arg) /\ a.arg = p.wants
      BY <1>0, <1>1, <1>3, <1>4, <2>1 DEF Shapes
    <3>2. fpga'.baud = fpga.baud /\ (fpga.baud = p.wants \/ rate[w.handle] = 0)
      BY <1>1, <1>4, <1>6, <2>1 DEF Ahead
    <3> QED BY <2>1, <3>1, <3>2
  <2> QED BY <1>3, <2>1
<1> QED BY <1>5, <1>6, <1>7, <1>8 DEF a

\* The phase after it.
LEMMA SoloPhase ==
    ASSUME NEW ph, NEW s, NEW out, NEW pn, SoloStep(ph, s, out, pn)
    PROVE  LET a == Head(workers[s].rest)
               p == ph[s]
               q == After(p, a, out)
           IN  /\ "rate" \notin q.lost
               /\ q.wants = CASE out = "did" /\ a.do = "set_baud" -> UART_BAUD_RATES[a.arg]
                              [] a.do = "replace" -> 0
                              [] OTHER -> p.wants
               /\ q.proved => p.proved \/ (out = "did" /\ a.do = "ping")
               /\ q.wants # 0 => workers'[s] # NoThread
               /\ workers'[s] # NoThread => pn[s] = q /\ workers'[s].handle = workers[s].handle
<1> DEFINE a == Head(workers[s].rest)
           p == ph[s]
           q == After(p, a, out)
<1>0. Shapes /\ Threads(ph) /\ WorkerStep(ph, s, out, pn)
  BY DEF SoloStep
<1>1. DOMAIN p = PhaseFields /\ "rate" \notin p.lost
  BY SoloFacts
<1>2. out = "did" \/ (out = "missed" /\ a.do \in Commands \union {"poll"})
  BY SoloEffects
<1>3. /\ "rate" \notin q.lost
      /\ q.wants = CASE out = "did" /\ a.do = "set_baud" -> UART_BAUD_RATES[a.arg]
                     [] a.do = "replace" -> 0
                     [] OTHER -> p.wants
      /\ q.proved => p.proved \/ (out = "did" /\ a.do = "ping")
  <2> HIDE DEF a, p
  <2>1. CASE out = "did"
    <3>1. q = Did(p, a)
      BY <2>1 DEF After
    <3>2. Did(p, a).lost = p.lost
      BY <1>1, DidFields
    <3>3. Did(p, a).wants = CASE a.do = "set_baud" -> UART_BAUD_RATES[a.arg]
                              [] a.do = "replace" -> 0
                              [] OTHER -> p.wants
      BY <1>1, DidFields
    <3>4. Did(p, a).proved = IF a.do = "ping" /\ p.connects THEN TRUE ELSE p.proved
      BY <1>1, DidFields
    <3> HIDE DEF q
    <3> QED BY <1>1, <2>1, <3>1, <3>2, <3>3, <3>4
  <2>2. CASE out = "missed"
    <3>1. q = Missed(p, a)
      BY <2>2 DEF After
    <3>2. a.do # "reopen" /\ a.do # "replace"
      BY <1>2, <2>2 DEF Commands
    <3>3. "rate" \notin Missed(p, a).lost /\ Missed(p, a).wants = p.wants /\ Missed(p, a).proved = p.proved
      BY <1>1, <3>2, MissedFields
    <3> HIDE DEF q
    <3> QED BY <2>2, <3>1, <3>2, <3>3
  <2> QED BY <1>2, <2>1, <2>2
<1>4. /\ workers'[s] = NoThread => Ends(q)
      /\ workers'[s] # NoThread => pn[s] = q /\ workers'[s].handle = workers[s].handle
  BY <1>0, StepFacts
<1>5. Ends(q) => q.wants = 0 \/ "rate" \in q.lost
  BY DEF Ends
<1> HIDE DEF q, a, p
<1> QED BY <1>3, <1>4, <1>5 DEF q, a, p

LEMMA StepRates ==
    ASSUME NEW ph, Shapes, Threads(ph), OneConnection, Rates(ph),
           NEW s, NEW out, NEW pn, WorkerStep(ph, s, out, pn)
    PROVE  Rates(pn)'
<1> DEFINE w == workers[s]
           a == Head(w.rest)
           p == ph[s]
           q == After(p, a, out)
<1> SUFFICES ASSUME upset' \intersect {"fault", "taken", "silent", "overlap"} = {} PROVE Rates(pn)'
  BY DEF Rates
<1>1. SoloStep(ph, s, out, pn)
  BY DEF SoloStep
<1>2. /\ upset \subseteq upset' /\ "shared" \notin upset' /\ ui' = ui
      /\ s \in Slots /\ w # NoThread /\ Legal(p, a) /\ DOMAIN p = PhaseFields /\ w.connects = p.connects
      /\ w.handle \in Handles \/ a.do = "tell"
      /\ \A t \in Slots : t # s =>
            /\ workers[t] = NoThread /\ ph[t] = Idle
            /\ workers'[t] = NoThread /\ pn[t] = Idle
      /\ "rate" \notin p.lost /\ (p.wants # 0 => Ahead(p.wants, w.handle))
      /\ p.connects => /\ channel = <<>> /\ ~ui.connected
                       /\ p.proved /\ p.wants = 0 => Matches(w.handle)
      /\ ui.programmer = 0 \/ w.handle = 0 \/ ui.programmer = w.handle
  BY <1>1, SoloFacts
<1>3. /\ out = "did" \/ (out = "missed" /\ a.do \in Commands \union {"poll"} /\ fpga' = fpga)
      /\ IF out = "did" /\ a.do = "set_baud"
         THEN /\ UART_BAUD_RATES[a.arg] # 0
              /\ fpga'.baud = UART_BAUD_RATES[a.arg] \/ rate[w.handle] = 0
         ELSE fpga'.baud = fpga.baud
      /\ out = "did" /\ a.do = "ping" => Matches(w.handle)
      /\ IF a.do = "replace" THEN rate'[w.handle] \in {0, fpga'.baud} ELSE rate' = rate
  BY <1>1, SoloEffects
<1>4. /\ "rate" \notin q.lost
      /\ q.wants = CASE out = "did" /\ a.do = "set_baud" -> UART_BAUD_RATES[a.arg]
                     [] a.do = "replace" -> 0
                     [] OTHER -> p.wants
      /\ q.proved => p.proved \/ (out = "did" /\ a.do = "ping")
      /\ q.wants # 0 => workers'[s] # NoThread
      /\ workers'[s] # NoThread => pn[s] = q /\ workers'[s].handle = workers[s].handle
  BY <1>1, SoloPhase
<1>5. workers'[s] = NoThread => pn[s] = Idle
  BY StepFacts
<1>6. /\ a.do = "tell" => p.wants = 0
      /\ p.wants # 0 => a.do \in {"lock", "unlock", "reopen", "replace", "tell"}
      /\ a.do = "replace" => p.wants # 0
  BY <1>2 DEF Legal, Telling, Tuning
<1>7. \A i \in Nat : Coming(i)' =>
          \/ Coming(i)
          \/ a.do = "tell" /\ w.connects /\ i = Len(channel) + 1
  BY ComingStep
<1>8. /\ a.do # "tell" => channel' = channel
      /\ a.do = "tell" /\ w.connects => workers'[s] = NoThread
      /\ a.do = "tell" => /\ Len(channel) \in Nat /\ Len(channel') = Len(channel) + 1
                          /\ \E m \in Message(w) : channel'[Len(channel) + 1] = m
  BY ChannelStep, ToldEnds
<1>9. \A i \in Nat : ~Coming(i)
  <2>1. /\ w # NoThread /\ s \in Slots
        /\ upset \intersect {"fault", "taken", "silent", "overlap"} = {}
    BY <1>2
  <2> HIDE DEF w
  <2> QED BY <1>1, <2>1 DEF Rates, SoloStep, w
<1>10. workers'[s] # NoThread => workers'[s].connects = p.connects
  BY StepFacts
\* The conjuncts, one by one.
<1>11. \A r, t \in Slots : workers'[r] # NoThread /\ workers'[t] # NoThread => r = t
  BY <1>2
<1>12. /\ "rate" \notin pn[s].lost
       /\ pn[s].wants # 0 => fpga'.baud = pn[s].wants \/ rate'[workers'[s].handle] = 0
  <2>1. CASE workers'[s] = NoThread
    BY <1>5, <2>1, IdleFields
  <2>2. CASE workers'[s] # NoThread
    <3>1. pn[s] = q /\ workers'[s].handle = w.handle
      BY <1>4, <2>2
    <3> HIDE DEF q, p, a, w
    <3>2. q.wants # 0 => a.do # "replace" /\ rate' = rate
      BY <1>3, <1>4
    <3>3. CASE out = "did" /\ a.do = "set_baud"
      BY <1>3, <1>4, <3>1, <3>2, <3>3
    <3>4. CASE ~(out = "did" /\ a.do = "set_baud")
      BY <1>2, <1>3, <1>4, <3>1, <3>2, <3>4 DEF Ahead
    <3> QED BY <3>3, <3>4
  <2> QED BY <2>1, <2>2
<1>13. ASSUME workers'[s].connects
       PROVE  /\ channel' = <<>> /\ ~ui'.connected
              /\ pn[s].proved /\ pn[s].wants = 0 => rate'[workers'[s].handle] \in {0, fpga'.baud}
  <2>1. workers'[s] # NoThread /\ p.connects
    BY <1>10, <1>13, IdleFields
  <2>2. pn[s] = q /\ workers'[s].handle = w.handle
    BY <1>4, <2>1
  <2>3. a.do # "tell" /\ channel' = channel
    BY <1>2, <1>8, <2>1
  <2> HIDE DEF q, p, a, w
  <2>4. ASSUME q.proved, q.wants = 0 PROVE rate'[w.handle] \in {0, fpga'.baud}
    <3>1. CASE a.do = "replace"
      BY <1>3, <3>1
    <3>2. CASE a.do # "replace"
      <4>1. rate' = rate /\ fpga'.baud = fpga.baud /\ p.wants = 0
        BY <1>3, <1>4, <2>4, <3>2
      <4>2. Matches(w.handle)
        BY <1>2, <1>3, <1>4, <2>1, <2>4, <4>1
      <4> QED BY <4>1, <4>2 DEF Matches
    <3> QED BY <3>1, <3>2
  <2> QED BY <1>2, <2>1, <2>2, <2>3, <2>4
<1>14. ASSUME NEW i \in Nat, Coming(i)'
       PROVE  /\ Len(channel') = 1 /\ ~ui'.connected /\ \A t \in Slots : workers'[t] = NoThread
              /\ channel'[i].type = "ConnectedWithSpeed" /\ ui'.programmer # 0 => rate'[ui'.programmer] \in {0, fpga'.baud}
  <2>1. a.do = "tell" /\ w.connects /\ i = Len(channel) + 1
    BY <1>7, <1>9, <1>14
  <2>2. channel = <<>> /\ ~ui.connected /\ p.connects
    BY <1>2, <2>1
  <2>3. Len(channel) = 0 /\ Len(channel') = 1 /\ i = 1
    BY <1>8, <2>1, <2>2
  <2>4. \A t \in Slots : workers'[t] = NoThread
    BY <1>2, <1>8, <2>1
  <2>5. ASSUME channel'[i].type = "ConnectedWithSpeed", ui'.programmer # 0
        PROVE  rate'[ui'.programmer] \in {0, fpga'.baud}
    <3>1. PICK m \in Message(w) : channel'[i] = m
      BY <1>8, <2>1, <2>3
    <3>2. m = a.arg /\ a.arg.type = "ConnectedWithSpeed"
      BY <1>2, <2>1, <2>5, <3>1, MessageFacts
    <3>3. p.proved /\ p.wants = 0
      BY <1>2, <1>6, <2>1, <2>2, <3>2 DEF Legal, Telling
    <3>4. Matches(w.handle)
      BY <1>2, <2>2, <3>3
    <3>5. w.handle # 0
      BY <1>2, <2>1, ThreadFacts
    <3>6. ui'.programmer = w.handle
      BY <1>2, <2>5, <3>5
    <3>7. rate' = rate /\ fpga'.baud = fpga.baud
      BY <1>3, <2>1
    <3> QED BY <3>4, <3>6, <3>7 DEF Matches
  <2> QED BY <1>2, <2>2, <2>3, <2>4, <2>5
<1>15. ASSUME ui'.connected, ui'.programmer # 0
       PROVE  \/ rate'[ui'.programmer] \in {0, fpga'.baud}
              \/ \E t \in Slots : workers'[t].handle = ui'.programmer /\ pn[t].wants # 0
  <2>1. \/ Matches(ui.programmer)
        \/ \E t \in Slots : workers[t].handle = ui.programmer /\ ph[t].wants # 0
    BY <1>1, <1>2, <1>15 DEF Rates, SoloStep
  <2>3. w.handle \in Handles => w.handle # 0
    BY ProgrammerAssumption
  <2>4. q.wants # 0 => pn[s].wants # 0 /\ workers'[s].handle = w.handle
    BY <1>4
  <2>5. ui.programmer # 0 /\ (w.handle \in Handles => ui.programmer = w.handle)
    BY <1>2, <1>15, <2>3
  <2>6. (\E t \in Slots : workers[t].handle = ui.programmer /\ ph[t].wants # 0) => p.wants # 0
    BY <1>2, IdleFields
  <2> HIDE DEF q, p, a, w
  <2>7. CASE a.do = "replace"
    <3>1. ui.programmer = w.handle
      BY <1>2, <2>5, <2>7
    <3> QED BY <1>2, <1>3, <2>7, <3>1
  <2>8. CASE out = "did" /\ a.do = "set_baud"
    <3>1. ui.programmer = w.handle
      BY <1>2, <2>5, <2>8
    <3>2. q.wants # 0
      BY <1>3, <1>4, <2>8
    <3> QED BY <1>2, <2>4, <3>1, <3>2
  <2>9. CASE a.do # "replace" /\ ~(out = "did" /\ a.do = "set_baud")
    <3>1. rate' = rate /\ fpga'.baud = fpga.baud /\ q.wants = p.wants
      BY <1>3, <1>4, <2>9
    <3>2. CASE Matches(ui.programmer)
      BY <1>2, <3>1, <3>2 DEF Matches
    <3>3. CASE p.wants # 0
      <4>1. ui.programmer = w.handle
        BY <1>2, <1>6, <2>5, <3>3
      <4> QED BY <1>2, <2>4, <3>1, <3>3, <4>1
    <3> QED BY <2>1, <2>6, <3>2, <3>3
  <2> QED BY <2>7, <2>8, <2>9
<1>16. \A t \in Slots : t # s => /\ "rate" \notin pn[t].lost /\ pn[t].wants = 0 /\ ~workers'[t].connects
  BY <1>2, IdleFields
<1> HIDE DEF q, p, a, w
<1>17. \A t \in Slots :
          /\ "rate" \notin pn[t].lost
          /\ pn[t].wants # 0 => fpga'.baud = pn[t].wants \/ rate'[workers'[t].handle] = 0
          /\ workers'[t].connects =>
                /\ channel' = <<>> /\ ~ui'.connected
                /\ pn[t].proved /\ pn[t].wants = 0 => rate'[workers'[t].handle] \in {0, fpga'.baud}
  BY <1>12, <1>13, <1>16
<1>18. "shared" \notin upset'
  BY <1>2
<1> QED BY <1>11, <1>14, <1>15, <1>17, <1>18 DEF Rates, Connects, Matches, Ahead

\* A step of a thread keeps the invariant.
LEMMA WorkerSound ==
    ASSUME NEW ph, Sound(ph), NEW s \in Slots, Worker(s)
    PROVE  Inv'
<1>1. PICK out \in Outcomes : /\ workers[s].rest # <<>>
                              /\ Goes(s, After(ph[s], Head(workers[s].rest), out)) /\ Effects(s, out)
  BY WorkerSteps DEF Sound
<1>2. PICK pn : WorkerStep(ph, s, out, pn)
  BY <1>1 DEF WorkerStep
<1>3. /\ Shapes /\ Threads(ph) /\ LocksApart /\ OneConnection /\ Guarded(ph) /\ Granted(ph) /\ Dialogs
      /\ ErasedAtHome /\ FilesAtHome /\ Waiting(ph) /\ Shown(ph) /\ Rates(ph)
  BY DEF Sound
<1>4. /\ Shapes' /\ Threads(pn)' /\ LocksApart' /\ OneConnection' /\ Guarded(pn)' /\ Granted(pn)'
  BY <1>2, <1>3, StepShapes, StepThreads, StepLocks, StepOneConnection, StepGuarded, StepGranted
<1>5. /\ Dialogs' /\ ErasedAtHome' /\ FilesAtHome' /\ Waiting(pn)'
  BY <1>2, <1>3, StepDialogs, StepErased, StepFiles, StepWaiting
<1>6. Shown(pn)' /\ Rates(pn)'
  BY <1>2, <1>3, StepShown, StepRates
<1>7. Sound(pn)'
  BY <1>4, <1>5, <1>6 DEF Sound
<1> QED BY <1>7 DEF Inv

-----------------------------------------------------------------------------
(* What the GUI does to the threads: it starts some. *)

LEMMA PairsAreTuples ==
    /\ \A f : DOMAIN f = 1..1 /\ f = [i \in 1..1 |-> f[i]] => f = <<f[1]>>
    /\ \A f : DOMAIN f = 1..2 /\ f = [i \in 1..2 |-> f[i]] => f = <<f[1], f[2]>>
OBVIOUS

LEMMA SpawnOne ==
    ASSUME DOMAIN workers = Slots, NEW thread, NEW causes, Spawn(<<thread>>, causes)
    PROVE  /\ \E s \in Slots : workers[s] = NoThread /\ workers' = [workers EXCEPT ![s] = thread]
           /\ upset' = upset \union causes \union (IF Quiescent THEN {} ELSE {"overlap"})
<1>1. Len(<<thread>>) = 1 /\ <<thread>>[1] = thread
  OBVIOUS
<1> DEFINE s == CHOOSE s \in Slots : workers[s] = NoThread
<1>2. \E t \in Slots : workers[t] = NoThread
  BY DEF Spawn, Free
<1>3. s \in Slots /\ workers[s] = NoThread
  BY <1>2
<1>4. workers' = [workers EXCEPT ![s] = thread]
  BY <1>1 DEF Spawn, Start
<1>5. upset' = upset \union causes \union (IF Quiescent THEN {} ELSE {"overlap"})
  <2>1. Quiescent /\ Len(<<thread>>) = 1 <=> Quiescent
    BY <1>1
  <2> QED BY <2>1 DEF Spawn
<1> HIDE DEF s
<1> QED BY <1>3, <1>4, <1>5

LEMMA SpawnTwo ==
    ASSUME DOMAIN workers = Slots, NEW one, NEW two, one # NoThread, NEW causes, Spawn(<<one, two>>, causes)
    PROVE  /\ \E s \in Slots : \E t \in Slots \ {s} :
                 /\ workers[s] = NoThread /\ workers[t] = NoThread
                 /\ workers' = [workers EXCEPT ![s] = one, ![t] = two]
           /\ upset' = upset \union causes \union {"overlap"}
<1> DEFINE threads == <<one, two>>
<1>1. Len(threads) = 2 /\ threads[1] = one /\ threads[2] = two
  OBVIOUS
<1> HIDE DEF threads
<1> DEFINE s == CHOOSE r \in Slots : workers[r] = NoThread
           w == [workers EXCEPT ![s] = one]
           t == CHOOSE r \in Slots : w[r] = NoThread
<1>2. \E r \in Slots : workers[r] = NoThread
  BY DEF Spawn, Free
<1>3. s \in Slots /\ workers[s] = NoThread
  BY <1>2
<1>4. Start(workers, threads[1]) = w
  BY <1>1 DEF Start
<1>5. Free(w) /\ workers' = Start(w, two) /\ upset' = upset \union causes \union {"overlap"}
  <2>1. Spawn(threads, causes)
    BY DEF threads
  <2> HIDE DEF w
  <2> QED BY <1>1, <1>4, <2>1 DEF Spawn
<1>6. t \in Slots /\ w[t] = NoThread
  BY <1>5 DEF Free
<1>7. workers' = [w EXCEPT ![t] = two]
  BY <1>5 DEF Start
<1> HIDE DEF s, t
<1>8. t # s
  BY <1>3, <1>6
<1>9. workers[t] = NoThread
  BY <1>3, <1>6, <1>8
<1>10. workers' = [workers EXCEPT ![s] = one, ![t] = two]
  BY <1>7
<1> QED BY <1>3, <1>5, <1>6, <1>8, <1>9, <1>10

\* A phase to begin with; threads that begin, all in the same phase and with the same
\* connection.
Begins(new) ==
    /\ DOMAIN new = PhaseFields /\ ~new.holds /\ new.range = NoRange /\ new.owes = None /\ new.clk = 0
    /\ new.wants = 0 /\ ~new.proved /\ new.lost = {}
Joins(ph, pn, new, h) ==
    /\ DOMAIN workers' = Slots
    /\ \A s \in Slots :
          \/ workers'[s] = workers[s] /\ pn[s] = ph[s]
          \/ /\ workers[s] = NoThread /\ ph[s] = Idle /\ pn[s] = new
             /\ DOMAIN workers'[s] = ThreadFields /\ workers'[s].rest # <<>> /\ Follows(new, workers'[s].rest)
             /\ workers'[s].holds = new.holds /\ workers'[s].connects = new.connects /\ workers'[s].handle = h
             /\ h \in Handles \/ (workers'[s] = Scan /\ new = Idle)
\* What every step of the GUI leaves to the threads.
Frame(ph, pn, new, h) ==
    /\ Begins(new) /\ Joins(ph, pn, new, h)
    /\ fpga' = fpga /\ card' = card /\ upset \subseteq upset'
    /\ "reset" \in new.may => "reinit" \in upset'
    /\ "wander" \in new.may => "moved" \in upset'

\* A thread after a step of the GUI: as it was, or begun.
LEMMA NewFacts ==
    ASSUME NEW ph, NEW pn, NEW new, NEW h, Frame(ph, pn, new, h), NEW s \in Slots
    PROVE  \/ workers'[s] = workers[s] /\ pn[s] = ph[s]
           \/ /\ workers[s] = NoThread /\ ph[s] = Idle /\ workers'[s] # NoThread /\ pn[s] = new
              /\ workers'[s].connects = new.connects /\ ~workers'[s].holds /\ workers'[s].handle = h
<1>1. \/ workers'[s] = workers[s] /\ pn[s] = ph[s]
      \/ /\ workers[s] = NoThread /\ ph[s] = Idle /\ pn[s] = new
         /\ workers'[s].rest # <<>>
         /\ workers'[s].holds = new.holds /\ workers'[s].connects = new.connects /\ workers'[s].handle = h
  BY DEF Frame, Joins
<1>2. ~new.holds
  BY DEF Frame, Begins
<1> QED BY <1>1, <1>2, IdleFields

LEMMA FrameThreads ==
    ASSUME NEW ph, Shapes, Threads(ph), LocksApart, NEW pn, NEW new, NEW h, Frame(ph, pn, new, h)
    PROVE  Threads(pn)' /\ LocksApart'
<1>1. Joins(ph, pn, new, h) /\ DOMAIN new = PhaseFields
  BY DEF Frame, Begins
<1>2. Threads(pn)'
  <2> SUFFICES ASSUME NEW s \in Slots
               PROVE  /\ DOMAIN pn[s] = PhaseFields
                      /\ \/ workers'[s] = NoThread /\ pn[s] = Idle
                         \/ /\ workers'[s].rest # <<>> /\ Follows(pn[s], workers'[s].rest)
                            /\ workers'[s].holds = pn[s].holds /\ workers'[s].connects = pn[s].connects
                            /\ \/ workers'[s].handle \in Handles
                               \/ workers'[s] = Scan /\ pn[s] = Idle
    BY DEF Threads
  <2>1. CASE workers'[s] = workers[s] /\ pn[s] = ph[s]
    BY <2>1 DEF Threads
  <2>2. CASE ~(workers'[s] = workers[s] /\ pn[s] = ph[s])
    BY <1>1, <2>2 DEF Joins
  <2> QED BY <2>1, <2>2
<1>3. LocksApart'
  <2>1. \A s \in Slots : workers'[s].holds => workers'[s] = workers[s]
    BY NewFacts
  <2> QED BY <2>1 DEF LocksApart
<1> QED BY <1>2, <1>3

LEMMA FrameGuards ==
    ASSUME NEW ph, Shapes, Threads(ph), Guarded(ph), Granted(ph), ErasedAtHome, FilesAtHome,
           NEW pn, NEW new, NEW h, Frame(ph, pn, new, h)
    PROVE  Guarded(pn)' /\ Granted(pn)' /\ ErasedAtHome' /\ FilesAtHome'
<1>1. /\ fpga' = fpga /\ card' = card /\ upset \subseteq upset'
      /\ "reset" \in new.may => "reinit" \in upset'
      /\ "wander" \in new.may => "moved" \in upset'
      /\ new.range = NoRange /\ new.owes = None
  BY DEF Frame, Begins
<1>2. \A s \in Slots : (workers'[s] = workers[s] /\ pn[s] = ph[s]) \/ pn[s] = new
  BY NewFacts
<1>3. Settings' = Settings
  BY <1>1 DEF Settings
<1>4. Guarded(pn)'
  BY <1>1, <1>2, <1>3 DEF Guarded, Unspoilt
<1>5. Granted(pn)'
  BY <1>1, <1>2 DEF Granted
<1>6. ErasedAtHome' /\ FilesAtHome'
  BY <1>1 DEF ErasedAtHome, FilesAtHome, Named, Unspoilt
<1> QED BY <1>4, <1>5, <1>6

\* A click that gives a command, or none, and leaves alone what the GUI knows of
\* the reader.
SameView(u, v) ==
    /\ u.connected <=> v.connected
    /\ u.programmer = v.programmer /\ u.clk_preset = v.clk_preset
    /\ u.bus_width = v.bus_width /\ u.active_partition = v.active_partition
Command(ph, pn, new, h) ==
    /\ Frame(ph, pn, new, h) /\ ~new.connects
    /\ UNCHANGED <<channel, rate>> /\ DOMAIN user' = DOMAIN user /\ user'.profiles = user.profiles
    /\ user'.ports = user.ports
    /\ DOMAIN ui' = UiFields /\ ui'.use_fifo \in BOOLEAN /\ SameView(ui', ui)
    /\ h \in {0, ui.programmer}
    /\ ~is_busy \/ (ui'.status = ui.status /\ "tune" \notin new.may)
    /\ "shared" \in upset' => "shared" \in upset
    /\ \/ "overlap" \in upset' \/ workers' = workers
       \/ Quiescent /\ \E s \in Slots : \A t \in Slots \ {s} : workers'[t] = workers[t]

LEMMA CommandShapes ==
    ASSUME NEW ph, Shapes, OneConnection, NEW pn, NEW new, NEW h, Command(ph, pn, new, h)
    PROVE  Shapes' /\ OneConnection'
<1>1. \A s \in Slots : \/ workers'[s] = workers[s]
                       \/ DOMAIN workers'[s] = ThreadFields /\ workers'[s].handle \in {0, ui.programmer}
                          /\ workers[s] = NoThread
  BY DEF Command, Frame, Joins
<1>2. /\ DOMAIN workers' = Slots /\ DOMAIN ui' = UiFields /\ ui'.programmer = ui.programmer /\ ui'.use_fifo \in BOOLEAN
      /\ channel' = channel /\ rate' = rate /\ fpga' = fpga /\ card' = card /\ upset \subseteq upset'
      /\ DOMAIN user' = DOMAIN user /\ user'.profiles = user.profiles
      /\ user'.ports = user.ports
  BY DEF Command, Frame, Joins, SameView
<1>3. Shapes'
  BY <1>1, <1>2 DEF Shapes
<1>4. "shared" \notin upset' => "shared" \notin upset
  BY DEF Command, Frame
<1>5. 0 \notin Handles
  BY ProgrammerAssumption
<1>6. OneConnection'
  BY <1>1, <1>2, <1>4, <1>5, IdleFields DEF OneConnection
<1> QED BY <1>3, <1>6

LEMMA CommandWaiting ==
    ASSUME NEW ph, Shapes, Threads(ph), Waiting(ph), NEW pn, NEW new, NEW h, Command(ph, pn, new, h)
    PROVE  Waiting(pn)'
<1>1. /\ upset \subseteq upset' /\ channel' = channel /\ SameView(ui', ui)
      /\ ~is_busy \/ (ui'.status = ui.status /\ "tune" \notin new.may)
      /\ "shared" \notin upset' => "shared" \notin upset
  BY DEF Command, Frame
<1>2. \A s \in Slots :
         \/ workers'[s] = workers[s] /\ pn[s] = ph[s]
         \/ ~workers'[s].connects /\ pn[s].may = new.may
  BY NewFacts DEF Command
<1>3. \A s \in Slots : Connects(s)' => Connects(s)
  BY <1>2 DEF Connects
<1>4. \A i \in Nat : Coming(i)' <=> Coming(i)
  BY <1>1 DEF Coming
<1>5. is_busy => (Awaited' <=> Awaited) /\ "tune" \notin new.may
  BY <1>1 DEF Awaited, is_busy, SameView
<1>6. ~is_busy => ~Awaited
  BY DEF Awaited
<1> SUFFICES ASSUME "stray" \notin upset'
             PROVE  /\ ui'.connected => ui'.programmer # 0
                    /\ \A t \in Slots : Connects(t)' =>
                          /\ Awaited' /\ \A i \in Nat : ~Coming(i)'
                          /\ \A r \in Slots \ {t} : ~Connects(r)' /\ ("shared" \notin upset' => "tune" \notin pn[r].may)
                    /\ \A i \in Nat : Coming(i)' =>
                          /\ Awaited' /\ \A t \in Slots : ~Connects(t)'
                          /\ \A j \in Nat : Coming(j)' => j = i
  BY DEF Waiting
<1>7. /\ ui.connected => ui.programmer # 0
      /\ \A t \in Slots : Connects(t) =>
            /\ Awaited /\ \A i \in Nat : ~Coming(i)
            /\ \A r \in Slots \ {t} : ~Connects(r) /\ ("shared" \notin upset => "tune" \notin ph[r].may)
      /\ \A i \in Nat : Coming(i) =>
            /\ Awaited /\ \A t \in Slots : ~Connects(t)
            /\ \A j \in Nat : Coming(j) => j = i
  BY <1>1 DEF Waiting
<1>8. ui'.connected => ui'.programmer # 0
  BY <1>1, <1>7 DEF SameView
<1> HIDE DEF Connects, Coming, Awaited, is_busy
<1>9. ASSUME NEW t \in Slots, Connects(t)'
      PROVE  /\ Awaited' /\ \A i \in Nat : ~Coming(i)'
             /\ \A r \in Slots \ {t} : ~Connects(r)' /\ ("shared" \notin upset' => "tune" \notin pn[r].may)
  BY <1>1, <1>2, <1>3, <1>4, <1>5, <1>6, <1>7, <1>9
<1>10. ASSUME NEW i \in Nat, Coming(i)'
       PROVE  /\ Awaited' /\ \A t \in Slots : ~Connects(t)'
              /\ \A j \in Nat : Coming(j)' => j = i
  BY <1>3, <1>4, <1>5, <1>6, <1>7, <1>10
<1> QED BY <1>8, <1>9, <1>10

\* What was claimed is claimed still, and what will be heard is the same.
LEMMA CommandShown ==
    ASSUME NEW ph, Shapes, Threads(ph), Shown(ph), NEW pn, NEW new, NEW h, Command(ph, pn, new, h)
    PROVE  Shown(pn)'
<1>1. /\ upset \subseteq upset' /\ channel' = channel /\ SameView(ui', ui) /\ rate' = rate /\ fpga' = fpga
      /\ DOMAIN ui' = UiFields
  BY DEF Command, Frame
<1>2. \A s \in Slots :
         \/ workers'[s] = workers[s] /\ pn[s] = ph[s]
         \/ ~workers[s].connects /\ ~workers'[s].connects /\ ph[s].owes = None
  BY NewFacts, IdleFields DEF Command
<1>3. DOMAIN ui = UiFields /\ IsSeq(channel)
  BY DEF Shapes, IsSeq
<1>4. Heard'.clk_preset = Heard.clk_preset /\ Heard'.bus_width = Heard.bus_width
      /\ Heard'.active_partition = Heard.active_partition
  <2> DEFINE v == ui'
  <2>1. /\ DOMAIN v = UiFields /\ v.clk_preset = ui.clk_preset /\ v.bus_width = ui.bus_width
        /\ v.active_partition = ui.active_partition
    BY <1>1 DEF SameView
  <2>2. Heard' = process_messages(v, channel)
    BY <1>1 DEF Heard
  <2> HIDE DEF v
  <2> QED BY <1>3, <2>1, <2>2, HeardSettings DEF Heard
<1>5. Offline => Offline'
  BY <1>1, <1>2 DEF Offline, Connects, Coming, SameView
<1> SUFFICES ASSUME upset' \subseteq {"overlap", "silent", "moved"}
             PROVE  /\ \A t \in Slots : workers'[t].connects => Linked(pn, t)'
                    /\ \/ Heard'.clk_preset = fpga'.clk
                       \/ \E t \in Slots : \/ workers'[t].connects
                                           \/ pn[t].owes = [type |-> "SpeedSet", preset |-> fpga'.clk]
                    /\ \/ Heard'.bus_width = fpga'.width
                       \/ \E t \in Slots : pn[t].owes = [type |-> "BusWidthSet", width |-> fpga'.width]
                    /\ \/ Heard'.active_partition = fpga'.part
                       \/ \E t \in Slots : pn[t].owes = [type |-> "PartitionSet", part |-> fpga'.part]
                       \/ Offline' /\ Heard'.active_partition = "User"
  BY DEF Shown, Linked, Connects
<1>6. /\ \A t \in Slots : workers[t].connects => Linked(ph, t)
      /\ \/ Heard.clk_preset = fpga.clk
         \/ \E t \in Slots : \/ workers[t].connects
                             \/ ph[t].owes = [type |-> "SpeedSet", preset |-> fpga.clk]
      /\ \/ Heard.bus_width = fpga.width
         \/ \E t \in Slots : ph[t].owes = [type |-> "BusWidthSet", width |-> fpga.width]
      /\ \/ Heard.active_partition = fpga.part
         \/ \E t \in Slots : ph[t].owes = [type |-> "PartitionSet", part |-> fpga.part]
         \/ Offline /\ Heard.active_partition = "User"
  BY <1>1 DEF Shown, Linked, Connects
<1>7. \A t \in Slots : workers'[t].connects => Linked(pn, t)'
  BY <1>1, <1>2, <1>6 DEF Linked, Matches, Ahead
<1> HIDE DEF Heard
<1>8. \A t \in Slots : ph[t].owes # None => pn[t].owes = ph[t].owes
  BY <1>2
<1>9. \A t \in Slots : workers[t].connects => workers'[t].connects
  BY <1>2
<1>10. \/ Heard'.clk_preset = fpga'.clk
       \/ \E t \in Slots : \/ workers'[t].connects
                           \/ pn[t].owes = [type |-> "SpeedSet", preset |-> fpga'.clk]
  BY <1>1, <1>4, <1>6, <1>8, <1>9, ReportsDiffer
<1>11. \/ Heard'.bus_width = fpga'.width
       \/ \E t \in Slots : pn[t].owes = [type |-> "BusWidthSet", width |-> fpga'.width]
  BY <1>1, <1>4, <1>6, <1>8, ReportsDiffer
<1>12. \/ Heard'.active_partition = fpga'.part
       \/ \E t \in Slots : pn[t].owes = [type |-> "PartitionSet", part |-> fpga'.part]
       \/ Offline' /\ Heard'.active_partition = "User"
  BY <1>1, <1>4, <1>5, <1>6, <1>8, ReportsDiffer
<1> QED BY <1>7, <1>10, <1>11, <1>12

LEMMA CommandRates ==
    ASSUME NEW ph, Shapes, Threads(ph), Rates(ph), NEW pn, NEW new, NEW h, Command(ph, pn, new, h)
    PROVE  Rates(pn)'
<1> SUFFICES ASSUME upset' \intersect {"fault", "taken", "silent", "overlap"} = {} PROVE Rates(pn)'
  BY DEF Rates
<1>1. /\ upset \subseteq upset' /\ channel' = channel /\ SameView(ui', ui) /\ rate' = rate /\ fpga' = fpga
      /\ "shared" \in upset' => "shared" \in upset
      /\ \/ workers' = workers
         \/ Quiescent /\ \E s \in Slots : \A t \in Slots \ {s} : workers'[t] = workers[t]
  BY DEF Command, Frame
<1>2. \A s \in Slots :
         \/ workers'[s] = workers[s] /\ pn[s] = ph[s]
         \/ /\ workers[s] = NoThread /\ ph[s] = Idle /\ workers'[s] # NoThread /\ ~workers'[s].connects
            /\ pn[s].wants = 0 /\ pn[s].lost = {}
  BY NewFacts DEF Command, Frame, Begins
<1>3. Rates(ph) /\ upset \intersect {"fault", "taken", "silent", "overlap"} = {}
  BY <1>1
<1>4. CASE workers' = workers
  <2>1. \A s \in Slots : pn[s] = ph[s]
    BY <1>2, <1>4
  <2> QED BY <1>1, <1>3, <1>4, <2>1 DEF Rates, SameView, Connects, Coming, Matches, Ahead
<1>5. CASE Quiescent /\ \E s \in Slots : \A t \in Slots \ {s} : workers'[t] = workers[t]
  <2>1. channel = <<>> /\ \A s \in Slots : workers[s] = NoThread /\ ph[s] = Idle
    BY <1>5, ThreadFacts DEF Quiescent, Alive
  <2>2. \A r, t \in Slots : workers'[r] # NoThread /\ workers'[t] # NoThread => r = t
    BY <1>5, <2>1
  <2>3. \A s \in Slots : ~workers'[s].connects /\ pn[s].wants = 0 /\ "rate" \notin pn[s].lost
    BY <1>2, <2>1, IdleFields
  <2>4. \A i \in Nat : ~Coming(i)'
    BY <1>1, <2>1 DEF Coming
  <2>5. ui'.connected /\ ui'.programmer # 0 => Matches(ui.programmer)
    BY <1>1, <1>3, <2>1, IdleFields DEF Rates, SameView
  <2>6. "shared" \notin upset'
    BY <1>1, <1>3 DEF Rates
  <2> QED BY <1>1, <2>2, <2>3, <2>4, <2>5, <2>6 DEF Rates, SameView, Connects, Matches
<1> QED BY <1>1, <1>4, <1>5

-----------------------------------------------------------------------------
(* Connecting and disconnecting. *)

\* What a click changes of the settings, and of nothing else, is what will be heard.
LEMMA HeardSame ==
    ASSUME Shapes, channel' = channel, DOMAIN ui' = UiFields,
           ui'.clk_preset = ui.clk_preset, ui'.bus_width = ui.bus_width
    PROVE  /\ Heard'.clk_preset = Heard.clk_preset /\ Heard'.bus_width = Heard.bus_width
           /\ \/ Heard'.active_partition = Heard.active_partition
              \/ Heard'.active_partition = ui'.active_partition /\ Heard.active_partition = ui.active_partition
<1> DEFINE v == ui'
<1>1. DOMAIN v = UiFields /\ v.clk_preset = ui.clk_preset /\ v.bus_width = ui.bus_width
  OBVIOUS
<1>2. Heard' = process_messages(v, channel)
  BY DEF Heard
<1>3. DOMAIN ui = UiFields /\ IsSeq(channel)
  BY DEF Shapes, IsSeq
<1> HIDE DEF v
<1>4. /\ process_messages(v, channel).clk_preset = Heard.clk_preset
      /\ process_messages(v, channel).bus_width = Heard.bus_width
      /\ \/ process_messages(v, channel).active_partition = Heard.active_partition
         \/ process_messages(v, channel).active_partition = v.active_partition
            /\ Heard.active_partition = ui.active_partition
  BY <1>1, <1>3, HeardSettings DEF Heard
<1> QED BY <1>2, <1>4 DEF v

Connect(ph, pn, new, h, s) ==
    /\ Frame(ph, pn, new, h) /\ new.connects /\ new.may = {}
    /\ ~ui.connected /\ ~is_busy /\ h \in Handles /\ ~InUse(h)
    /\ s \in Slots /\ workers[s] = NoThread /\ workers'[s].handle = h /\ workers'[s].connects /\ pn[s] = new
    /\ \A t \in Slots \ {s} : workers'[t] = workers[t] /\ pn[t] = ph[t]
    /\ \E r \in {0, DefaultBaud} : rate' = [rate EXCEPT ![h] = r]
    /\ channel' = channel /\ DOMAIN user' = DOMAIN user /\ user'.profiles = user.profiles
    /\ user'.ports = user.ports
    /\ DOMAIN ui' = UiFields /\ ui'.use_fifo \in BOOLEAN
    /\ ~ui'.connected /\ ui'.programmer = h /\ ui'.status = "running"
    /\ ui'.clk_preset = ui.clk_preset /\ ui'.bus_width = ui.bus_width
    /\ ui'.active_partition = ui.active_partition
    /\ upset' = upset \union ConnectCauses \union (IF Quiescent THEN {} ELSE {"overlap"})

\* Without a second connection there is no thread that has one.
LEMMA ConnectAlone ==
    ASSUME NEW ph, Shapes, Threads(ph), NEW pn, NEW new, NEW h, NEW s, Connect(ph, pn, new, h, s),
           "shared" \notin upset'
    PROVE  /\ "shared" \notin upset
           /\ \A t \in Slots : workers[t].handle = 0 /\ ph[t] = Idle /\ ~workers[t].connects
<1>1. "shared" \notin upset /\ "shared" \notin ConnectCauses
  BY DEF Connect
<1>2. \A t \in Slots : workers[t].handle = 0
  BY <1>1 DEF ConnectCauses
<1> QED BY <1>1, <1>2, ThreadFacts

LEMMA ConnectShapes ==
    ASSUME NEW ph, Shapes, Threads(ph), OneConnection, NEW pn, NEW new, NEW h, NEW s, Connect(ph, pn, new, h, s)
    PROVE  Shapes' /\ OneConnection'
<1>1. /\ DOMAIN workers' = Slots /\ \A t \in Slots : workers'[t] = workers[t] \/ DOMAIN workers'[t] = ThreadFields
  BY DEF Connect, Frame, Joins
<1>2. /\ DOMAIN ui' = UiFields /\ ui'.programmer = h /\ ui'.use_fifo \in BOOLEAN /\ h \in Handles
      /\ channel' = channel /\ fpga' = fpga /\ card' = card /\ upset \subseteq upset'
      /\ DOMAIN user' = DOMAIN user /\ user'.profiles = user.profiles
      /\ user'.ports = user.ports
      /\ \E r : rate' = [rate EXCEPT ![h] = r]
      /\ \A t \in Slots \ {s} : workers'[t] = workers[t]
      /\ workers'[s].handle = h
  BY DEF Connect, Frame
<1>3. DOMAIN rate' = Handles
  BY <1>2 DEF Shapes
<1>4. Shapes'
  BY <1>1, <1>2, <1>3 DEF Shapes
<1>5. OneConnection'
  BY <1>2, ConnectAlone DEF OneConnection
<1> QED BY <1>4, <1>5

LEMMA ConnectWaiting ==
    ASSUME NEW ph, Shapes, Threads(ph), Waiting(ph), NEW pn, NEW new, NEW h, NEW s, Connect(ph, pn, new, h, s)
    PROVE  Waiting(pn)'
<1>1. /\ upset \subseteq upset' /\ channel' = channel /\ ~is_busy /\ ~ui'.connected
      /\ ui'.status = "running" /\ ui'.programmer = h /\ h \in Handles
      /\ s \in Slots /\ \A t \in Slots \ {s} : workers'[t] = workers[t] /\ pn[t] = ph[t]
  BY DEF Connect, Frame
<1>2. Awaited'
  <2>1. 0 \notin Handles
    BY ProgrammerAssumption
  <2> QED BY <1>1, <2>1 DEF Awaited, is_busy
<1> SUFFICES ASSUME "stray" \notin upset'
             PROVE  /\ ui'.connected => ui'.programmer # 0
                    /\ \A t \in Slots : Connects(t)' =>
                          /\ Awaited' /\ \A i \in Nat : ~Coming(i)'
                          /\ \A r \in Slots \ {t} : ~Connects(r)' /\ ("shared" \notin upset' => "tune" \notin pn[r].may)
                    /\ \A i \in Nat : Coming(i)' =>
                          /\ Awaited' /\ \A t \in Slots : ~Connects(t)'
                          /\ \A j \in Nat : Coming(j)' => j = i
  BY DEF Waiting
<1>3. (\A t \in Slots : ~Connects(t)) /\ \A i \in Nat : ~Coming(i)
  BY <1>1 DEF Waiting, Awaited
<1>4. \A i \in Nat : ~Coming(i)'
  BY <1>1, <1>3 DEF Coming
<1>5. \A r \in Slots \ {s} : ~Connects(r)' /\ ("shared" \notin upset' => "tune" \notin pn[r].may)
  <2>1. \A r \in Slots \ {s} : ~Connects(r)'
    BY <1>1, <1>3 DEF Connects
  <2>2. "shared" \notin upset' => \A r \in Slots \ {s} : pn[r] = Idle
    BY <1>1, ConnectAlone
  <2> QED BY <2>1, <2>2, IdleFields
<1> HIDE DEF Connects, Coming, Awaited
<1> QED BY <1>1, <1>2, <1>4, <1>5

LEMMA ConnectShown ==
    ASSUME NEW ph, Shapes, Threads(ph), Shown(ph), NEW pn, NEW new, NEW h, NEW s, Connect(ph, pn, new, h, s)
    PROVE  Shown(pn)'
<1> SUFFICES ASSUME upset' \subseteq {"overlap", "silent", "moved"}
             PROVE  /\ \A t \in Slots : workers'[t].connects => Linked(pn, t)'
                    /\ \/ Heard'.clk_preset = fpga'.clk
                       \/ \E t \in Slots : \/ workers'[t].connects
                                           \/ pn[t].owes = [type |-> "SpeedSet", preset |-> fpga'.clk]
                    /\ \/ Heard'.bus_width = fpga'.width
                       \/ \E t \in Slots : pn[t].owes = [type |-> "BusWidthSet", width |-> fpga'.width]
                    /\ \/ Heard'.active_partition = fpga'.part
                       \/ \E t \in Slots : pn[t].owes = [type |-> "PartitionSet", part |-> fpga'.part]
                       \/ Offline' /\ Heard'.active_partition = "User"
  BY DEF Shown, Linked, Connects
<1>1. /\ upset \subseteq upset' /\ channel' = channel /\ DOMAIN ui' = UiFields /\ fpga' = fpga
      /\ ui'.clk_preset = ui.clk_preset /\ ui'.bus_width = ui.bus_width
      /\ ui'.active_partition = ui.active_partition
      /\ s \in Slots /\ workers'[s].handle = h /\ workers'[s].connects /\ pn[s] = new
      /\ \A t \in Slots \ {s} : workers'[t] = workers[t] /\ pn[t] = ph[t]
      /\ h \in Handles /\ "lost" \in PhaseFields
  BY DEF Connect, Frame, PhaseFields
<1>2. new.lost = {} /\ new.clk = 0 /\ new.wants = 0
  BY DEF Connect, Frame, Begins
<1>3. "shared" \notin upset' /\ "forgotten" \notin upset'
  OBVIOUS
<1>4. Fresh
  BY <1>3 DEF Connect, ConnectCauses
<1>5. /\ Heard'.bus_width = Heard.bus_width /\ Heard'.active_partition = Heard.active_partition
  BY <1>1, HeardSame
<1>6. \A t \in Slots : ph[t].owes = None /\ ~workers[t].connects
  BY <1>3, ConnectAlone, IdleFields
<1>7. /\ Heard.bus_width = fpga.width
      /\ Heard.active_partition = fpga.part \/ Heard.active_partition = "User"
  BY <1>1, <1>6, ReportsDiffer DEF Shown
<1>8. Heard.active_partition = fpga.part
  BY <1>4, <1>7 DEF Fresh
<1>9. Linked(pn, s)'
  <2>1. PICK r \in {0, DefaultBaud} : rate' = [rate EXCEPT ![h] = r]
    BY DEF Connect
  <2>2. rate'[h] = r
    BY <1>1, <2>1 DEF Shapes
  <2> QED BY <1>1, <1>2, <1>4, <2>2 DEF Linked, Matches, Fresh
<1>10. \A t \in Slots : workers'[t].connects => t = s
  BY <1>1, <1>6
<1> QED BY <1>1, <1>5, <1>7, <1>8, <1>9, <1>10

LEMMA ConnectRates ==
    ASSUME NEW ph, Shapes, Threads(ph), Rates(ph), NEW pn, NEW new, NEW h, NEW s, Connect(ph, pn, new, h, s)
    PROVE  Rates(pn)'
<1> SUFFICES ASSUME upset' \intersect {"fault", "taken", "silent", "overlap"} = {} PROVE Rates(pn)'
  BY DEF Rates
<1>1. /\ upset' = upset \union ConnectCauses \union (IF Quiescent THEN {} ELSE {"overlap"})
      /\ channel' = channel /\ fpga' = fpga /\ ~ui'.connected
      /\ s \in Slots /\ pn[s] = new
      /\ \A t \in Slots \ {s} : workers'[t] = workers[t] /\ pn[t] = ph[t]
      /\ new.lost = {} /\ new.wants = 0 /\ ~new.proved
  BY DEF Connect, Frame, Begins
<1>2. Quiescent
  BY <1>1
<1>3. channel = <<>> /\ \A t \in Slots : workers[t] = NoThread /\ ph[t] = Idle
  BY <1>2, ThreadFacts DEF Quiescent, Alive
<1>4. "shared" \notin upset'
  <2>1. "shared" \notin ConnectCauses
    BY <1>3, IdleFields DEF ConnectCauses
  <2>2. "shared" \notin upset
    BY <1>1 DEF Rates
  <2> QED BY <1>1, <1>2, <2>1, <2>2
<1>5. \A i \in Nat : ~Coming(i)'
  BY <1>1, <1>3 DEF Coming
<1>6. \A t \in Slots : "rate" \notin pn[t].lost /\ pn[t].wants = 0 /\ ~pn[t].proved
  BY <1>1, <1>3, IdleFields
<1>7. \A r, t \in Slots : workers'[r] # NoThread /\ workers'[t] # NoThread => r = t
  BY <1>1, <1>3
<1> QED BY <1>1, <1>3, <1>4, <1>5, <1>6, <1>7 DEF Rates, Connects

Disconnect(ph) ==
    /\ ui.connected /\ ~is_busy /\ UNCHANGED <<workers, channel, rate, fpga, card>>
    /\ DOMAIN user' = DOMAIN user /\ user'.profiles = user.profiles
    /\ user'.ports = user.ports
    /\ DOMAIN ui' = UiFields /\ ui'.use_fifo \in BOOLEAN
    /\ ~ui'.connected /\ ui'.programmer = 0 /\ ui'.active_partition = "User"
    /\ ui'.clk_preset = ui.clk_preset /\ ui'.bus_width = ui.bus_width
    /\ upset' \in {upset, upset \union {"moved"}}

LEMMA DisconnectKeeps ==
    ASSUME NEW ph, Shapes, Threads(ph), OneConnection, Waiting(ph), Shown(ph), Rates(ph), Disconnect(ph)
    PROVE  Shapes' /\ OneConnection' /\ Waiting(ph)' /\ Shown(ph)' /\ Rates(ph)'
<1>1. /\ ui.connected /\ ~is_busy /\ UNCHANGED <<workers, channel, rate, fpga, card>>
      /\ DOMAIN user' = DOMAIN user /\ user'.profiles = user.profiles
      /\ user'.ports = user.ports
      /\ DOMAIN ui' = UiFields /\ ui'.use_fifo \in BOOLEAN
      /\ ~ui'.connected /\ ui'.programmer = 0 /\ ui'.active_partition = "User"
      /\ ui'.clk_preset = ui.clk_preset /\ ui'.bus_width = ui.bus_width
      /\ upset \subseteq upset'
      /\ \A c \in {"shared", "fault", "taken", "silent", "overlap", "stray"} : c \in upset' => c \in upset
  BY DEF Disconnect
<1>2. Shapes' /\ OneConnection'
  BY <1>1 DEF Shapes, OneConnection
<1>3. "stray" \notin upset => (\A t \in Slots : ~Connects(t)) /\ \A i \in Nat : ~Coming(i)
  BY <1>1 DEF Waiting, Awaited
<1>4. (\A t \in Slots : Connects(t)' <=> Connects(t)) /\ \A i \in Nat : Coming(i)' <=> Coming(i)
  BY <1>1 DEF Connects, Coming
<1>5. Waiting(ph)'
  <2> HIDE DEF Connects, Coming
  <2> QED BY <1>1, <1>3, <1>4 DEF Waiting
<1>6. Shown(ph)'
  <2>0. ~(upset' \subseteq {"overlap", "silent", "moved"}) => Shown(ph)'
    BY DEF Shown
  <2> SUFFICES ASSUME upset' \subseteq {"overlap", "silent", "moved"} PROVE Shown(ph)'
    BY <2>0
  <2>1. /\ Heard'.clk_preset = Heard.clk_preset /\ Heard'.bus_width = Heard.bus_width
        /\ \/ Heard'.active_partition = Heard.active_partition
           \/ Heard'.active_partition = "User"
    BY <1>1, HeardSame
  <2>2. \A t \in Slots : ~Connects(t)
    BY <1>1, <1>3
  <2>3. Offline' /\ ~Offline
    BY <1>1, <1>3, <1>4 DEF Offline
  <2>4. /\ \/ Heard.clk_preset = fpga.clk
           \/ \E t \in Slots : ph[t].owes = [type |-> "SpeedSet", preset |-> fpga.clk]
        /\ \/ Heard.bus_width = fpga.width
           \/ \E t \in Slots : ph[t].owes = [type |-> "BusWidthSet", width |-> fpga.width]
        /\ \/ Heard.active_partition = fpga.part
           \/ \E t \in Slots : ph[t].owes = [type |-> "PartitionSet", part |-> fpga.part]
    <3> HIDE DEF Connects
    <3> QED BY <1>1, <2>2, <2>3 DEF Shown
  <2>5. \A t \in Slots : ~Connects(t)'
    BY <1>4, <2>2
  <2> HIDE DEF Heard, Connects, Offline
  <2> QED BY <1>1, <2>1, <2>3, <2>4, <2>5 DEF Shown
<1>7. Rates(ph)'
  <2> SUFFICES ASSUME upset' \intersect {"fault", "taken", "silent", "overlap"} = {} PROVE Rates(ph)'
    BY DEF Rates
  <2>1. Rates(ph) /\ upset \intersect {"fault", "taken", "silent", "overlap"} = {}
    BY <1>1
  <2>2. (\A t \in Slots : ~Connects(t)) /\ \A i \in Nat : ~Coming(i)
    <3> HIDE DEF Connects, Coming
    <3> QED BY <1>1, <2>1 DEF Rates
  <2>3. /\ \A t \in Slots : ~Connects(t)'
        /\ \A i \in Nat : ~Coming(i)'
    BY <1>4, <2>2
  <2>4. /\ "shared" \notin upset'
        /\ \A s, t \in Slots : workers[s] # NoThread /\ workers[t] # NoThread => s = t
        /\ \A s \in Slots :
              /\ "rate" \notin ph[s].lost
              /\ ph[s].wants # 0 => Ahead(ph[s].wants, workers[s].handle)
    <3> HIDE DEF Connects, Coming
    <3> QED BY <1>1, <2>1 DEF Rates
  <2>5. \A s \in Slots : ph[s].wants # 0 => Ahead(ph[s].wants, workers[s].handle)'
    BY <1>1, <2>4 DEF Ahead
  <2> HIDE DEF Connects, Coming, Ahead
  <2> QED BY <1>1, <2>3, <2>4, <2>5 DEF Rates
<1> QED BY <1>2, <1>5, <1>6, <1>7

LEMMA WatchdogSound ==
    ASSUME NEW ph, Sound(ph), Watchdog
    PROVE  Sound(ph)'
<1>1. /\ Shapes /\ Threads(ph) /\ LocksApart /\ OneConnection /\ Guarded(ph) /\ Granted(ph) /\ Dialogs
      /\ ErasedAtHome /\ FilesAtHome /\ Waiting(ph) /\ Shown(ph) /\ Rates(ph)
  BY DEF Sound
<1>2. /\ UNCHANGED <<ui, workers, channel, rate, exclusive, card, user>>
      /\ fpga' = [fpga EXCEPT !.baud = DefaultBaud] /\ upset' = upset \union {"silent"}
      /\ Quiescent
  BY DEF Watchdog
<1>3. /\ DOMAIN fpga' = DOMAIN fpga /\ fpga'.clk = fpga.clk /\ fpga'.width = fpga.width /\ fpga'.part = fpga.part
      /\ fpga'.range = fpga.range /\ fpga'.lines = fpga.lines /\ fpga'.idle = fpga.idle
  BY <1>1, <1>2 DEF Shapes
<1>4. channel = <<>> /\ \A s \in Slots : workers[s] = NoThread /\ ph[s] = Idle
  BY <1>1, <1>2, ThreadFacts DEF Quiescent, Alive
<1>5. Shapes' /\ Threads(ph)' /\ LocksApart' /\ OneConnection'
  BY <1>1, <1>2, <1>3 DEF Shapes, Threads, LocksApart, OneConnection
<1>6. Guarded(ph)' /\ Granted(ph)' /\ ErasedAtHome' /\ FilesAtHome'
  <2>1. \A s \in Slots : ph[s].range = NoRange /\ ph[s].owes = None
    BY <1>4, IdleFields
  <2> QED BY <1>1, <1>2, <2>1 DEF Guarded, Granted, ErasedAtHome, FilesAtHome, Named, Unspoilt
<1>7. Dialogs'
  BY <1>1, <1>2 DEF Dialogs, Sensible, is_destructive
<1>8. Waiting(ph)'
  BY <1>1, <1>2 DEF Waiting, Connects, Coming, Awaited, is_busy
<1>9. Shown(ph)'
  <2> SUFFICES ASSUME upset' \subseteq {"overlap", "silent", "moved"} PROVE Shown(ph)'
    BY DEF Shown
  <2>1. \A s \in Slots : ~Connects(s) /\ ~Connects(s)' /\ ph[s].owes = None
    BY <1>2, <1>4, IdleFields DEF Connects
  <2>2. Heard' = Heard
    BY <1>2 DEF Heard
  <2>3. Offline => Offline'
    BY <1>2 DEF Offline, Connects, Coming
  <2> HIDE DEF Heard, Connects, Offline
  <2>4. /\ Heard.clk_preset = fpga.clk /\ Heard.bus_width = fpga.width
        /\ Heard.active_partition = fpga.part \/ (Offline /\ Heard.active_partition = "User")
    BY <1>1, <1>2, <2>1, ReportsDiffer DEF Shown
  <2> QED BY <1>3, <2>1, <2>2, <2>3, <2>4 DEF Shown
<1>10. Rates(ph)'
  BY <1>2 DEF Rates
<1> QED BY <1>5, <1>6, <1>7, <1>8, <1>9, <1>10 DEF Sound

-----------------------------------------------------------------------------
(* The beginning of a frame. *)

Update(ph, pn, new, h) ==
    /\ Frame(ph, pn, new, h) /\ ~new.connects /\ "tune" \notin new.may
    /\ channel' = <<>> /\ UNCHANGED <<rate, user>>
    /\ DOMAIN ui' = UiFields /\ ui'.use_fifo \in BOOLEAN /\ SameView(ui', Heard)
    /\ h \in {0, Heard.programmer}
    /\ ui'.status \in {Heard.status, "running"} \/ Heard.programmer = 0
    /\ "shared" \in upset' => "shared" \in upset
    /\ "stray" \in upset' \/ \A i \in DOMAIN channel : ~Stray(channel[i])
    /\ \/ "overlap" \in upset' \/ workers' = workers
       \/ Quiescent /\ \E s \in Slots : \A t \in Slots \ {s} : workers'[t] = workers[t]

LEMMA HeardFacts ==
    ASSUME Shapes
    PROVE  /\ DOMAIN ui = UiFields /\ DOMAIN Heard = UiFields /\ IsSeq(channel) /\ DOMAIN channel \subseteq Nat
           /\ Heard.programmer \in {ui.programmer, 0} /\ (ui.connected => Heard.programmer = ui.programmer)
           /\ Heard.use_fifo = ui.use_fifo /\ Heard.ext4_lba = ui.ext4_lba
           /\ Heard.dialog = ui.dialog /\ Heard.pending = ui.pending
           /\ ui.connected => Heard.connected
           /\ Heard.connected => ui.connected \/ \E i \in Nat : Coming(i) /\ channel[i].type = "ConnectedWithSpeed"
<1>1. DOMAIN ui = UiFields /\ IsSeq(channel)
  BY DEF Shapes, IsSeq
<1>2. DOMAIN channel \subseteq Nat
  BY <1>1 DEF IsSeq
<1>3. /\ DOMAIN Heard = UiFields
      /\ Heard.programmer \in {ui.programmer, 0} /\ (ui.connected => Heard.programmer = ui.programmer)
      /\ Heard.use_fifo = ui.use_fifo /\ Heard.ext4_lba = ui.ext4_lba
      /\ Heard.dialog = ui.dialog /\ Heard.pending = ui.pending
      /\ ui.connected => Heard.connected
      /\ Heard.connected => ui.connected \/ \E i \in DOMAIN channel : channel[i].type = "ConnectedWithSpeed"
  BY <1>1, HeardKeeps DEF Heard
<1>4. \A i \in DOMAIN channel : channel[i].type = "ConnectedWithSpeed" => Coming(i)
  BY DEF Coming, OfConnecting
<1> HIDE DEF Heard, Coming
<1> QED BY <1>1, <1>2, <1>3, <1>4

LEMMA UpdateShapes ==
    ASSUME NEW ph, Shapes, OneConnection, NEW pn, NEW new, NEW h, Update(ph, pn, new, h)
    PROVE  Shapes' /\ OneConnection'
<1>1. \A s \in Slots : \/ workers'[s] = workers[s]
                       \/ DOMAIN workers'[s] = ThreadFields /\ workers'[s].handle \in {0, Heard.programmer}
                          /\ workers[s] = NoThread
  BY DEF Update, Frame, Joins
<1>2. /\ DOMAIN workers' = Slots /\ DOMAIN ui' = UiFields /\ ui'.programmer = Heard.programmer /\ ui'.use_fifo \in BOOLEAN
      /\ rate' = rate /\ fpga' = fpga /\ card' = card /\ user' = user /\ upset \subseteq upset'
      /\ "shared" \notin upset' => "shared" \notin upset
  BY DEF Update, Frame, Joins, SameView
<1>3. Heard.programmer \in {ui.programmer, 0}
  BY HeardFacts
<1>4. \E E : channel' \in Seq(E)
  <2>1. channel' \in Seq({})
    BY DEF Update
  <2> QED BY <2>1
<1> HIDE DEF Heard
<1>5. Shapes'
  BY <1>1, <1>2, <1>3, <1>4 DEF Shapes
<1>6. 0 \notin Handles
  BY ProgrammerAssumption
<1>7. OneConnection'
  BY <1>1, <1>2, <1>3, <1>6, IdleFields DEF OneConnection
<1> QED BY <1>5, <1>7

\* A GUI that waits for its connecting hears nothing else.
LEMMA WaitingHears ==
    ASSUME NEW ph, Shapes, Waiting(ph), NEW pn, NEW new, NEW h, Update(ph, pn, new, h), "stray" \notin upset'
    PROVE  /\ \A t \in Slots : Connects(t) => Heard = ui
           /\ \A i \in Nat : Coming(i) => Heard = receive(ui, channel[i])
<1>1. /\ "stray" \notin upset /\ \A i \in DOMAIN channel : ~Stray(channel[i])
  BY DEF Update, Frame
<1>2. DOMAIN ui = UiFields /\ IsSeq(channel) /\ DOMAIN channel \subseteq Nat
  BY HeardFacts
<1>3. Awaited => \A i \in DOMAIN channel : Coming(i) \/ channel[i].type = "PortsScanned"
  BY <1>1 DEF Awaited, Stray, Coming
<1>4. ASSUME NEW t \in Slots, Connects(t) PROVE Heard = ui
  <2>1. Awaited /\ \A i \in Nat : ~Coming(i)
    BY <1>1, <1>4 DEF Waiting
  <2>2. \A i \in DOMAIN channel : channel[i].type = "PortsScanned"
    BY <1>2, <1>3, <2>1
  <2> QED BY <1>2, <2>2, HeardPorts DEF Heard
<1>5. ASSUME NEW i \in Nat, Coming(i) PROVE Heard = receive(ui, channel[i])
  <2>1. Awaited /\ \A j \in Nat : Coming(j) => j = i
    BY <1>1, <1>5 DEF Waiting
  <2>2. i \in DOMAIN channel /\ \A j \in DOMAIN channel : j # i => channel[j].type = "PortsScanned"
    <3>1. i \in DOMAIN channel
      BY <1>5 DEF Coming
    <3> HIDE DEF Coming
    <3> QED BY <1>2, <1>3, <2>1, <3>1
  <2> QED BY <1>2, <2>2, HeardOne DEF Heard
<1> QED BY <1>4, <1>5

LEMMA UpdateWaiting ==
    ASSUME NEW ph, Shapes, Threads(ph), Waiting(ph), NEW pn, NEW new, NEW h, Update(ph, pn, new, h)
    PROVE  Waiting(pn)'
<1>1. /\ upset \subseteq upset' /\ channel' = <<>> /\ SameView(ui', Heard)
      /\ ui'.status \in {Heard.status, "running"} \/ Heard.programmer = 0
      /\ "tune" \notin new.may
      /\ "shared" \notin upset' => "shared" \notin upset
  BY DEF Update, Frame
<1>2. \A s \in Slots :
         \/ workers'[s] = workers[s] /\ pn[s] = ph[s]
         \/ ~workers'[s].connects /\ pn[s].may = new.may
  BY NewFacts DEF Update
<1>3. \A s \in Slots : Connects(s)' => Connects(s)
  BY <1>2 DEF Connects
<1>4. \A i \in Nat : ~Coming(i)'
  BY <1>1 DEF Coming
<1> SUFFICES ASSUME "stray" \notin upset'
             PROVE  /\ ui'.connected => ui'.programmer # 0
                    /\ \A t \in Slots : Connects(t)' =>
                          /\ Awaited'
                          /\ \A r \in Slots \ {t} : ~Connects(r)' /\ ("shared" \notin upset' => "tune" \notin pn[r].may)
  <2> HIDE DEF Connects, Coming, Awaited
  <2> QED BY <1>4 DEF Waiting
<1>5. /\ ui.connected => ui.programmer # 0
      /\ \A t \in Slots : Connects(t) =>
            /\ Awaited
            /\ \A r \in Slots \ {t} : ~Connects(r) /\ ("shared" \notin upset => "tune" \notin ph[r].may)
      /\ \A i \in Nat : Coming(i) => Awaited
  BY <1>1 DEF Waiting
<1>6. /\ \A t \in Slots : Connects(t) => Heard = ui
      /\ \A i \in Nat : Coming(i) => Heard = receive(ui, channel[i])
  BY WaitingHears
<1>7. Heard.connected => Heard.programmer # 0
  <2>1. CASE ui.connected
    BY <1>5, <2>1, HeardFacts
  <2>2. CASE ~ui.connected
    <3> SUFFICES ASSUME Heard.connected PROVE Heard.programmer # 0
      OBVIOUS
    <3>1. PICK i \in Nat : Coming(i) /\ channel[i].type = "ConnectedWithSpeed"
      BY <2>2, HeardFacts
    <3>2. ui.programmer # 0 /\ Heard = receive(ui, channel[i])
      BY <1>5, <1>6, <3>1 DEF Awaited
    <3>3. receive(ui, channel[i]).programmer = ui.programmer
      BY <3>1, HeardFacts, ReceiveProperties
    <3> QED BY <3>2, <3>3
  <2> QED BY <2>1, <2>2
<1>8. ui'.connected => ui'.programmer # 0
  BY <1>1, <1>7 DEF SameView
<1>9. ASSUME NEW t \in Slots, Connects(t)'
      PROVE  /\ Awaited'
             /\ \A r \in Slots \ {t} : ~Connects(r)' /\ ("shared" \notin upset' => "tune" \notin pn[r].may)
  <2>1. Connects(t) /\ Awaited /\ Heard = ui
    BY <1>3, <1>5, <1>6, <1>9
  <2>2. Awaited'
    BY <1>1, <2>1 DEF Awaited, is_busy, SameView
  <2> HIDE DEF Connects, Awaited
  <2> QED BY <1>1, <1>2, <1>3, <1>5, <2>1, <2>2
<1> QED BY <1>8, <1>9

LEMMA UpdateShown ==
    ASSUME NEW ph, Shapes, Threads(ph), Shown(ph), NEW pn, NEW new, NEW h, Update(ph, pn, new, h)
    PROVE  Shown(pn)'
<1>1. /\ upset \subseteq upset' /\ channel' = <<>> /\ SameView(ui', Heard) /\ rate' = rate /\ fpga' = fpga
  BY DEF Update, Frame
<1>2. \A s \in Slots :
         \/ workers'[s] = workers[s] /\ pn[s] = ph[s]
         \/ ~workers[s].connects /\ ~workers'[s].connects /\ ph[s].owes = None
  BY NewFacts, IdleFields DEF Update
<1>3. Heard'.clk_preset = Heard.clk_preset /\ Heard'.bus_width = Heard.bus_width
      /\ Heard'.active_partition = Heard.active_partition
  <2>1. Heard' = ui'
    <3> DEFINE v == ui'
    <3>1. Heard' = process_messages(v, <<>>)
      BY <1>1 DEF Heard
    <3> HIDE DEF v
    <3>2. Heard' = v
      BY <3>1, HeardNothing
    <3> QED BY <3>2 DEF v
  <2> QED BY <1>1, <2>1 DEF SameView
<1>4. Offline => Offline'
  <2>1. Offline => ~ui'.connected
    <3> HIDE DEF Heard, Coming
    <3> QED BY <1>1, HeardFacts DEF Offline, SameView
  <2>2. (\A i \in Nat : ~Coming(i)') /\ ((\A s \in Slots : ~Connects(s)) => \A s \in Slots : ~Connects(s)')
    BY <1>1, <1>2 DEF Coming, Connects
  <2> HIDE DEF Coming, Connects
  <2> QED BY <2>1, <2>2 DEF Offline
<1> SUFFICES ASSUME upset' \subseteq {"overlap", "silent", "moved"}
             PROVE  /\ \A t \in Slots : workers'[t].connects => Linked(pn, t)'
                    /\ \/ Heard'.clk_preset = fpga'.clk
                       \/ \E t \in Slots : \/ workers'[t].connects
                                           \/ pn[t].owes = [type |-> "SpeedSet", preset |-> fpga'.clk]
                    /\ \/ Heard'.bus_width = fpga'.width
                       \/ \E t \in Slots : pn[t].owes = [type |-> "BusWidthSet", width |-> fpga'.width]
                    /\ \/ Heard'.active_partition = fpga'.part
                       \/ \E t \in Slots : pn[t].owes = [type |-> "PartitionSet", part |-> fpga'.part]
                       \/ Offline' /\ Heard'.active_partition = "User"
  BY DEF Shown, Linked, Connects
<1>6. /\ \A t \in Slots : workers[t].connects => Linked(ph, t)
      /\ \/ Heard.clk_preset = fpga.clk
         \/ \E t \in Slots : \/ workers[t].connects
                             \/ ph[t].owes = [type |-> "SpeedSet", preset |-> fpga.clk]
      /\ \/ Heard.bus_width = fpga.width
         \/ \E t \in Slots : ph[t].owes = [type |-> "BusWidthSet", width |-> fpga.width]
      /\ \/ Heard.active_partition = fpga.part
         \/ \E t \in Slots : ph[t].owes = [type |-> "PartitionSet", part |-> fpga.part]
         \/ Offline /\ Heard.active_partition = "User"
  BY <1>1 DEF Shown, Linked, Connects
<1>7. \A t \in Slots : workers'[t].connects => Linked(pn, t)'
  BY <1>1, <1>2, <1>6 DEF Linked, Matches, Ahead
<1> HIDE DEF Heard
<1>8. \A t \in Slots : ph[t].owes # None => pn[t].owes = ph[t].owes
  BY <1>2
<1>9. \A t \in Slots : workers[t].connects => workers'[t].connects
  BY <1>2
<1>10. \/ Heard'.clk_preset = fpga'.clk
       \/ \E t \in Slots : \/ workers'[t].connects
                           \/ pn[t].owes = [type |-> "SpeedSet", preset |-> fpga'.clk]
  BY <1>1, <1>3, <1>6, <1>8, <1>9, ReportsDiffer
<1>11. \/ Heard'.bus_width = fpga'.width
       \/ \E t \in Slots : pn[t].owes = [type |-> "BusWidthSet", width |-> fpga'.width]
  BY <1>1, <1>3, <1>6, <1>8, ReportsDiffer
<1>12. \/ Heard'.active_partition = fpga'.part
       \/ \E t \in Slots : pn[t].owes = [type |-> "PartitionSet", part |-> fpga'.part]
       \/ Offline' /\ Heard'.active_partition = "User"
  BY <1>1, <1>3, <1>4, <1>6, <1>8, ReportsDiffer
<1> QED BY <1>7, <1>10, <1>11, <1>12

\* Of threads that are alone: what the connection is at when the messages are read.
LEMMA UpdateMatches ==
    ASSUME NEW ph, Shapes, Rates(ph), upset \intersect {"fault", "taken", "silent", "overlap"} = {}
    PROVE  /\ Heard.connected /\ Heard.programmer # 0 =>
                 \/ Matches(Heard.programmer)
                 \/ \E s \in Slots : workers[s].handle = Heard.programmer /\ ph[s].wants # 0
           /\ \A s \in Slots : Connects(s) => ~Heard.connected
<1>1. /\ \A s \in Slots : Connects(s) => channel = <<>> /\ ~ui.connected
      /\ \A i \in Nat : Coming(i) =>
            /\ Len(channel) = 1
            /\ channel[i].type = "ConnectedWithSpeed" /\ ui.programmer # 0 => Matches(ui.programmer)
      /\ ui.connected /\ ui.programmer # 0 =>
            \/ Matches(ui.programmer)
            \/ \E s \in Slots : workers[s].handle = ui.programmer /\ ph[s].wants # 0
  BY DEF Rates
<1>2. \A s \in Slots : Connects(s) => ~Heard.connected
  <2>1. \A s \in Slots : Connects(s) => Heard = ui
    BY <1>1, HeardNothing DEF Heard
  <2> HIDE DEF Heard
  <2> QED BY <1>1, <2>1
<1>3. CASE ui.connected
  BY <1>1, <1>2, <1>3, HeardFacts
<1>4. CASE ~ui.connected
  <2> SUFFICES ASSUME Heard.connected, Heard.programmer # 0 PROVE Matches(Heard.programmer)
    BY <1>2
  <2>1. PICK i \in Nat : Coming(i) /\ channel[i].type = "ConnectedWithSpeed"
    BY <1>4, HeardFacts
  <2>2. i \in DOMAIN channel /\ Len(channel) = 1
    BY <1>1, <2>1 DEF Coming
  <2>3. DOMAIN channel = {1}
    BY <2>2, HeardFacts DEF IsSeq
  <2>4. Heard = receive(ui, channel[i])
    <3>1. \A j \in DOMAIN channel : j = i
      BY <2>2, <2>3
    <3> QED BY <2>2, <3>1, HeardFacts, HeardOne DEF Heard
  <2>5. Heard.programmer = ui.programmer
    <3>1. receive(ui, channel[i]).programmer = ui.programmer
      BY <2>1, HeardFacts, ReceiveProperties
    <3> QED BY <2>4, <3>1
  <2> QED BY <1>1, <2>1, <2>5
<1> QED BY <1>3, <1>4

LEMMA UpdateRates ==
    ASSUME NEW ph, Shapes, Threads(ph), Rates(ph), NEW pn, NEW new, NEW h, Update(ph, pn, new, h)
    PROVE  Rates(pn)'
<1> SUFFICES ASSUME upset' \intersect {"fault", "taken", "silent", "overlap"} = {} PROVE Rates(pn)'
  BY DEF Rates
<1>1. /\ upset \subseteq upset' /\ channel' = <<>> /\ SameView(ui', Heard) /\ rate' = rate /\ fpga' = fpga
      /\ "shared" \in upset' => "shared" \in upset
      /\ \/ workers' = workers
         \/ Quiescent /\ \E s \in Slots : \A t \in Slots \ {s} : workers'[t] = workers[t]
  BY DEF Update, Frame
<1>2. \A s \in Slots :
         \/ workers'[s] = workers[s] /\ pn[s] = ph[s]
         \/ /\ workers[s] = NoThread /\ ph[s] = Idle /\ workers'[s] # NoThread /\ ~workers'[s].connects
            /\ pn[s].wants = 0 /\ pn[s].lost = {}
  BY NewFacts DEF Update, Frame, Begins
<1>3. Rates(ph) /\ upset \intersect {"fault", "taken", "silent", "overlap"} = {}
  BY <1>1
<1>4. /\ ui'.connected /\ ui'.programmer # 0 =>
            \/ Matches(ui'.programmer)
            \/ \E s \in Slots : workers[s].handle = ui'.programmer /\ ph[s].wants # 0
      /\ \A s \in Slots : Connects(s) => ~ui'.connected
  BY <1>1, <1>3, UpdateMatches DEF SameView
<1>5. \A i \in Nat : ~Coming(i)'
  BY <1>1 DEF Coming
<1>6. "shared" \notin upset'
  BY <1>1, <1>3 DEF Rates
<1>7. \A r \in {rate'}, f \in {fpga'} : r = rate /\ f = fpga
  BY <1>1
<1>8. CASE workers' = workers
  <2>1. \A s \in Slots : pn[s] = ph[s]
    BY <1>2, <1>8
  <2>2. ui'.connected /\ ui'.programmer # 0 =>
            \/ rate'[ui'.programmer] \in {0, fpga'.baud}
            \/ \E s \in Slots : workers'[s].handle = ui'.programmer /\ pn[s].wants # 0
    BY <1>1, <1>4, <1>8, <2>1 DEF Matches
  <2>3. /\ \A s, t \in Slots : workers'[s] # NoThread /\ workers'[t] # NoThread => s = t
        /\ \A s \in Slots :
              /\ "rate" \notin pn[s].lost
              /\ pn[s].wants # 0 => fpga'.baud = pn[s].wants \/ rate'[workers'[s].handle] = 0
              /\ Connects(s)' => /\ channel' = <<>> /\ ~ui'.connected
                                 /\ pn[s].proved /\ pn[s].wants = 0 => rate'[workers'[s].handle] \in {0, fpga'.baud}
    BY <1>1, <1>3, <1>4, <1>8, <2>1 DEF Rates, Connects, Matches, Ahead
  <2> HIDE DEF Connects, Coming
  <2> QED BY <1>5, <1>6, <2>2, <2>3 DEF Rates, Matches, Ahead
<1>9. CASE Quiescent /\ \E s \in Slots : \A t \in Slots \ {s} : workers'[t] = workers[t]
  <2>1. channel = <<>> /\ \A s \in Slots : workers[s] = NoThread /\ ph[s] = Idle
    BY <1>9, ThreadFacts DEF Quiescent, Alive
  <2>2. \A r, t \in Slots : workers'[r] # NoThread /\ workers'[t] # NoThread => r = t
    BY <1>9, <2>1
  <2>3. \A s \in Slots : ~Connects(s)' /\ pn[s].wants = 0 /\ "rate" \notin pn[s].lost
    BY <1>2, <2>1, IdleFields DEF Connects
  <2>4. ui'.connected /\ ui'.programmer # 0 => rate'[ui'.programmer] \in {0, fpga'.baud}
    BY <1>1, <1>4, <2>1, IdleFields DEF Matches
  <2> HIDE DEF Connects, Coming
  <2> QED BY <1>5, <1>6, <2>2, <2>3, <2>4 DEF Rates, Matches
<1> QED BY <1>1, <1>8, <1>9

-----------------------------------------------------------------------------
(* The actions of the GUI, in those terms. *)

LEMMA CommandSound ==
    ASSUME NEW ph, Sound(ph), NEW pn, NEW new, NEW h, Command(ph, pn, new, h), Dialogs'
    PROVE  Inv'
<1>1. /\ Shapes /\ Threads(ph) /\ LocksApart /\ OneConnection /\ Guarded(ph) /\ Granted(ph)
      /\ ErasedAtHome /\ FilesAtHome /\ Waiting(ph) /\ Shown(ph) /\ Rates(ph) /\ Frame(ph, pn, new, h)
  BY DEF Sound, Command
<1>2. Threads(pn)' /\ LocksApart' /\ Guarded(pn)' /\ Granted(pn)' /\ ErasedAtHome' /\ FilesAtHome'
  BY <1>1, FrameThreads, FrameGuards
<1>3. Shapes' /\ OneConnection' /\ Waiting(pn)' /\ Shown(pn)' /\ Rates(pn)'
  BY <1>1, CommandShapes, CommandWaiting, CommandShown, CommandRates
<1>4. Sound(pn)'
  BY <1>2, <1>3 DEF Sound
<1> QED BY <1>4 DEF Inv

LEMMA UpdateSound ==
    ASSUME NEW ph, Sound(ph), NEW pn, NEW new, NEW h, Update(ph, pn, new, h), Dialogs'
    PROVE  Inv'
<1>1. /\ Shapes /\ Threads(ph) /\ LocksApart /\ OneConnection /\ Guarded(ph) /\ Granted(ph)
      /\ ErasedAtHome /\ FilesAtHome /\ Waiting(ph) /\ Shown(ph) /\ Rates(ph) /\ Frame(ph, pn, new, h)
  BY DEF Sound, Update
<1>2. Threads(pn)' /\ LocksApart' /\ Guarded(pn)' /\ Granted(pn)' /\ ErasedAtHome' /\ FilesAtHome'
  BY <1>1, FrameThreads, FrameGuards
<1>3. Shapes' /\ OneConnection' /\ Waiting(pn)' /\ Shown(pn)' /\ Rates(pn)'
  BY <1>1, UpdateShapes, UpdateWaiting, UpdateShown, UpdateRates
<1>4. Sound(pn)'
  BY <1>2, <1>3 DEF Sound
<1> QED BY <1>4 DEF Inv

LEMMA ConnectSound ==
    ASSUME NEW ph, Sound(ph), NEW pn, NEW new, NEW h, NEW s, Connect(ph, pn, new, h, s), Dialogs'
    PROVE  Inv'
<1>1. /\ Shapes /\ Threads(ph) /\ LocksApart /\ OneConnection /\ Guarded(ph) /\ Granted(ph)
      /\ ErasedAtHome /\ FilesAtHome /\ Waiting(ph) /\ Shown(ph) /\ Rates(ph) /\ Frame(ph, pn, new, h)
  BY DEF Sound, Connect
<1>2. Threads(pn)' /\ LocksApart' /\ Guarded(pn)' /\ Granted(pn)' /\ ErasedAtHome' /\ FilesAtHome'
  BY <1>1, FrameThreads, FrameGuards
<1>3. Shapes' /\ OneConnection' /\ Waiting(pn)' /\ Shown(pn)' /\ Rates(pn)'
  BY <1>1, ConnectShapes, ConnectWaiting, ConnectShown, ConnectRates
<1>4. Sound(pn)'
  BY <1>2, <1>3 DEF Sound
<1> QED BY <1>4 DEF Inv

LEMMA DisconnectSound ==
    ASSUME NEW ph, Sound(ph), Disconnect(ph), Dialogs'
    PROVE  Inv'
<1>1. /\ Shapes /\ Threads(ph) /\ LocksApart /\ OneConnection /\ Guarded(ph) /\ Granted(ph)
      /\ ErasedAtHome /\ FilesAtHome /\ Waiting(ph) /\ Shown(ph) /\ Rates(ph)
  BY DEF Sound
<1>2. workers' = workers /\ fpga' = fpga /\ card' = card /\ upset \subseteq upset'
      /\ \A c \in {"shared"} : c \in upset' => c \in upset
  BY DEF Disconnect
<1>3. Threads(ph)' /\ LocksApart' /\ Guarded(ph)' /\ Granted(ph)' /\ ErasedAtHome' /\ FilesAtHome'
  <2>1. Settings' = Settings
    BY <1>2 DEF Settings
  <2> QED BY <1>1, <1>2, <2>1 DEF Threads, LocksApart, Guarded, Granted, ErasedAtHome, FilesAtHome, Named, Unspoilt
<1>4. Shapes' /\ OneConnection' /\ Waiting(ph)' /\ Shown(ph)' /\ Rates(ph)'
  BY <1>1, DisconnectKeeps
<1>5. Sound(ph)'
  BY <1>3, <1>4 DEF Sound
<1> QED BY <1>5 DEF Inv

\* The first phase of a thread.
LEMMA FirstBegins ==
    ASSUME NEW connects \in BOOLEAN, NEW may
    PROVE  Begins(Phase(connects, may)) /\ Phase(connects, may).may = may /\ Phase(connects, may).connects = connects
<1> DEFINE p == Phase(connects, may)
<1>1. DOMAIN p = PhaseFields /\ p.may = may /\ ~p.holds /\ p.connects = connects
  BY FirstPhase
<1>2. p.range = NoRange /\ p.owes = None /\ p.clk = 0 /\ p.wants = 0 /\ p.lost = {}
  BY DEF Phase
<1>3. ~p.proved
  BY DEF Phase
<1> HIDE DEF p
<1>4. Begins(p)
  BY <1>1, <1>2, <1>3 DEF Begins
<1> QED BY <1>1, <1>4 DEF p

\* Nothing starts.
LEMMA NothingJoins ==
    ASSUME NEW ph, Shapes, workers' = workers, fpga' = fpga, card' = card, upset \subseteq upset'
    PROVE  Frame(ph, ph, Idle, 0)
<1>1. Begins(Idle)
  BY IdleFields DEF Begins
<1>2. Joins(ph, ph, Idle, 0)
  BY DEF Joins, Shapes
<1> QED BY <1>1, <1>2, IdleFields DEF Frame

\* One thread starts.
Started(ph, new, s, w) ==
    \E pn : /\ Frame(ph, pn, new, w.handle) /\ pn[s] = new
            /\ \A t \in Slots \ {s} : workers'[t] = workers[t] /\ pn[t] = ph[t]
            /\ workers'[s] = w
LEMMA OneJoins ==
    ASSUME NEW ph, Shapes, Threads(ph), NEW new, Begins(new), NEW s \in Slots, workers[s] = NoThread, NEW w,
           DOMAIN w = ThreadFields, w.rest # <<>>, Follows(new, w.rest),
           w.holds = new.holds, w.connects = new.connects,
           w.handle \in Handles \/ (w = Scan /\ new = Idle),
           workers' = [workers EXCEPT ![s] = w], fpga' = fpga, card' = card, upset \subseteq upset',
           "reset" \in new.may => "reinit" \in upset',
           "wander" \in new.may => "moved" \in upset'
    PROVE  Started(ph, new, s, w)
<1> DEFINE pn == [t \in Slots |-> IF t = s THEN new ELSE ph[t]]
<1>1. DOMAIN workers' = Slots /\ workers'[s] = w /\ \A t \in Slots \ {s} : workers'[t] = workers[t]
  BY DEF Shapes
<1>2. pn[s] = new /\ \A t \in Slots \ {s} : pn[t] = ph[t]
  OBVIOUS
<1>3. ph[s] = Idle
  BY ThreadFacts
<1> HIDE DEF pn
<1>4. Joins(ph, pn, new, w.handle)
  BY <1>1, <1>2, <1>3 DEF Joins
<1>5. Frame(ph, pn, new, w.handle)
  BY <1>4 DEF Frame
<1> QED BY <1>1, <1>2, <1>5 DEF Started

\* Two threads of one connection start.
LEMMA TwoJoin ==
    ASSUME NEW ph, Shapes, Threads(ph), NEW s \in Slots, NEW t \in Slots \ {s},
           workers[s] = NoThread, workers[t] = NoThread, NEW one, NEW two, NEW h \in Handles,
           \A w \in {one, two} :
               /\ DOMAIN w = ThreadFields /\ w.rest # <<>> /\ Follows(Idle, w.rest)
               /\ w.holds = FALSE /\ w.connects = FALSE /\ w.handle = h,
           workers' = [workers EXCEPT ![s] = one, ![t] = two],
           fpga' = fpga, card' = card, upset \subseteq upset'
    PROVE  \E pn : Frame(ph, pn, Idle, h)
<1> DEFINE pn == [r \in Slots |-> IF r \in {s, t} THEN Idle ELSE ph[r]]
<1>1. DOMAIN workers' = Slots /\ workers'[s] = one /\ workers'[t] = two
      /\ \A r \in Slots \ {s, t} : workers'[r] = workers[r]
  BY DEF Shapes
<1>2. pn[s] = Idle /\ pn[t] = Idle /\ \A r \in Slots \ {s, t} : pn[r] = ph[r]
  OBVIOUS
<1>3. ph[s] = Idle /\ ph[t] = Idle
  BY ThreadFacts
<1> HIDE DEF pn
<1>4. \A r \in {s, t} :
          /\ workers[r] = NoThread /\ ph[r] = Idle /\ pn[r] = Idle
          /\ DOMAIN workers'[r] = ThreadFields /\ workers'[r].rest # <<>> /\ Follows(Idle, workers'[r].rest)
          /\ workers'[r].holds = Idle.holds /\ workers'[r].connects = Idle.connects /\ workers'[r].handle = h
  BY <1>1, <1>2, <1>3, IdleFields
<1>5. Joins(ph, pn, Idle, h)
  BY <1>1, <1>2, <1>4 DEF Joins
<1>6. Begins(Idle)
  BY IdleFields DEF Begins
<1>7. Frame(ph, pn, Idle, h)
  BY <1>5, <1>6, IdleFields DEF Frame
<1> QED BY <1>7

\* A click that starts nothing.
LEMMA StandStill ==
    ASSUME NEW ph, Sound(ph), UNCHANGED <<workers, channel, rate, fpga, card>>, upset \subseteq upset',
           "shared" \in upset' => "shared" \in upset,
           DOMAIN user' = DOMAIN user, user'.profiles = user.profiles, user'.ports = user.ports,
           DOMAIN ui' = UiFields, ui'.use_fifo \in BOOLEAN, SameView(ui', ui),
           ~is_busy \/ ui'.status = ui.status
    PROVE  \E pn, new, h : Command(ph, pn, new, h)
<1>1. Shapes
  BY DEF Sound
<1>2. Frame(ph, ph, Idle, 0)
  BY <1>1, NothingJoins
<1>3. Command(ph, ph, Idle, 0)
  BY <1>2, IdleFields DEF Command
<1> QED BY <1>3

\* The AppState that a panel changes: what it knows of the reader stays.
Panel(u) == DOMAIN u = UiFields /\ u.use_fifo \in BOOLEAN /\ SameView(u, ui) /\ u.pending = ui.pending

LEMMA FieldsAre ==
    UiFields = {"use_fifo", "status", "connected", "programmer", "baud", "clk_preset", "bus_width",
                "active_partition", "table", "partition_read_pending", "hex", "ext4_lba", "ext4",
                "file", "results", "cancel", "dialog", "pending", "drawn"}
BY DEF UiFields, AppState

LEMMA RunningFields ==
    ASSUME NEW u, DOMAIN u = UiFields
    PROVE  /\ \A v \in {set_running(u), set_failed(u), set_completed(u)} :
                 /\ DOMAIN v = UiFields /\ v.use_fifo = u.use_fifo /\ SameView(v, u)
                 /\ v.ext4_lba = u.ext4_lba /\ v.dialog = u.dialog /\ v.pending = u.pending /\ v.drawn = u.drawn
           /\ set_running(u).status = "running"
BY FieldsAre DEF set_running, set_failed, set_completed, SameView

LEMMA DrawnPanel ==
    ASSUME NEW ph, Sound(ph)
    PROVE  /\ Panel(Drawn) /\ Drawn.ext4_lba = ui.ext4_lba /\ Drawn.dialog = ui.dialog
           /\ Drawn.status = ui.status /\ Drawn.use_fifo = ui.use_fifo
<1>1. DOMAIN ui = UiFields /\ ui.use_fifo \in BOOLEAN
  BY DEF Sound, Shapes
<1> QED BY <1>1, FieldsAre DEF Drawn, Panel, SameView

LEMMA DialogsStay ==
    ASSUME Dialogs, upset \subseteq upset', "moved" \in upset' \/ ui.dialog = None \/ ui'.ext4_lba = ui.ext4_lba,
           ui'.dialog = ui.dialog, ui'.pending = None
    PROVE  Dialogs'
BY DEF Dialogs, Sensible, is_destructive

\* One command is executed.
LEMMA ExecuteOne ==
    ASSUME NEW ph, Sound(ph), ~is_busy, NEW u, Panel(u), NEW cmd, Proper(cmd), "wander" \notin Grants(cmd),
           NEW causes, causes \subseteq {"reinit", "moved"}, cmd.name = "Reinit" => "reinit" \in causes,
           Execute(u, <<cmd>>, causes), UNCHANGED <<channel, rate, fpga, card>>,
           DOMAIN user' = DOMAIN user, user'.profiles = user.profiles, user'.ports = user.ports
    PROVE  /\ \E pn, new, h : Command(ph, pn, new, h)
           /\ ui'.ext4_lba = u.ext4_lba /\ ui'.dialog = u.dialog /\ ui'.pending = u.pending
           /\ upset \union causes \subseteq upset'
<1>1. Shapes /\ Threads(ph) /\ DOMAIN u = UiFields /\ SameView(u, ui) /\ u.use_fifo \in BOOLEAN
  BY DEF Sound, Panel
<1>2. CASE u.programmer = 0
  <2>1. ui' = set_failed(u) /\ upset' = upset \union causes /\ workers' = workers
    BY <1>2 DEF Execute
  <2>2. /\ DOMAIN ui' = UiFields /\ ui'.use_fifo = u.use_fifo /\ SameView(ui', u)
        /\ ui'.ext4_lba = u.ext4_lba /\ ui'.dialog = u.dialog /\ ui'.pending = u.pending
    BY <1>1, <2>1, RunningFields
  <2>3. SameView(ui', ui)
    BY <1>1, <2>2 DEF SameView
  <2> QED BY <1>1, <2>1, <2>2, <2>3, StandStill
<1>3. CASE u.programmer # 0
  <2> DEFINE w == Thread(u.programmer, Script(cmd))
             threads == [i \in DOMAIN <<cmd>> |-> Thread(u.programmer, Script(<<cmd>>[i]))]
  <2>1. threads = <<w>>
    <3>1. DOMAIN <<cmd>> = 1..1 /\ <<cmd>>[1] = cmd
      OBVIOUS
    <3>2. DOMAIN threads = 1..1 /\ threads[1] = w
      BY <3>1
    <3>3. threads = [i \in 1..1 |-> threads[i]]
      BY <3>1
    <3> HIDE DEF threads, w
    <3> QED BY <3>2, <3>3, PairsAreTuples
  <2>2. Spawn(<<w>>, causes) /\ ui' = set_running(u)
    <3>1. Spawn(threads, causes) /\ ui' = set_running(u)
      BY <1>3 DEF Execute
    <3> HIDE DEF threads
    <3> QED BY <2>1, <3>1
  <2>3. /\ DOMAIN w = ThreadFields /\ w.rest = Script(cmd) /\ w.handle = u.programmer
        /\ w.holds = FALSE /\ w.connects = FALSE
    BY DEF Thread, NoThread, ThreadFields
  <2>4. Follows(Phase(FALSE, Grants(cmd)), Script(cmd)) /\ Script(cmd) # <<>>
    BY ScriptFollows
  <2> HIDE DEF w
  <2>5. /\ \E s \in Slots : workers[s] = NoThread /\ workers' = [workers EXCEPT ![s] = w]
        /\ upset' = upset \union causes \union (IF Quiescent THEN {} ELSE {"overlap"})
    BY <1>1, <2>2, SpawnOne DEF Shapes
  <2>6. PICK s \in Slots : workers[s] = NoThread /\ workers' = [workers EXCEPT ![s] = w]
    BY <2>5
  <2>7. PICK new : new = Phase(FALSE, Grants(cmd))
    OBVIOUS
  <2>8. Begins(new) /\ new.may = Grants(cmd) /\ new.connects = FALSE
    BY <2>7, FirstBegins
  <2>9. u.programmer = ui.programmer /\ u.programmer \in Handles
    BY <1>1, <1>3 DEF Shapes, SameView
  <2>10. PICK h : h = w.handle
    OBVIOUS
  <2>11. "reset" \in new.may => "reinit" \in upset'
    BY <2>5, <2>8 DEF Grants
  <2>12. new.holds = FALSE
    BY <2>8 DEF Begins
  <2>13. \E pn : /\ Frame(ph, pn, new, w.handle)
                 /\ \A t \in Slots \ {s} : workers'[t] = workers[t] /\ pn[t] = ph[t]
    <3>1. Follows(new, w.rest) /\ w.rest # <<>>
      BY <2>3, <2>4, <2>7
    <3>2. fpga' = fpga /\ card' = card /\ upset \subseteq upset' /\ "wander" \notin new.may
      BY <2>5, <2>8
    <3>3. w.holds = new.holds /\ w.connects = new.connects /\ w.handle \in Handles
      BY <2>3, <2>8, <2>9, <2>12
    <3>4. Started(ph, new, s, w)
      BY <1>1, <2>3, <2>6, <2>8, <2>11, <3>1, <3>2, <3>3, OneJoins
    <3> QED BY <3>4 DEF Started
  <2>14. PICK pn : Frame(ph, pn, new, h) /\ \A t \in Slots \ {s} : workers'[t] = workers[t]
    BY <2>10, <2>13
  <2>15. /\ DOMAIN ui' = UiFields /\ ui'.use_fifo = u.use_fifo /\ SameView(ui', u)
         /\ ui'.ext4_lba = u.ext4_lba /\ ui'.dialog = u.dialog /\ ui'.pending = u.pending
    BY <1>1, <2>2, RunningFields
  <2>16. SameView(ui', ui)
    BY <1>1, <2>15 DEF SameView
  <2>17. h \in {0, ui.programmer}
    BY <2>3, <2>9, <2>10
  <2>18. /\ "shared" \in upset' => "shared" \in upset
         /\ "overlap" \in upset' \/ Quiescent
    BY <2>5
  <2>19. Command(ph, pn, new, h)
    BY <1>1, <2>8, <2>14, <2>15, <2>16, <2>17, <2>18 DEF Command
  <2> QED BY <2>5, <2>15, <2>19
<1> QED BY <1>2, <1>3

\* A command is dispatched by a panel that has changed the AppState to u.
LEMMA DispatchSound ==
    ASSUME NEW ph, Sound(ph), ui.drawn, ~is_busy, NEW u, Panel(u), u.dialog = ui.dialog, NEW cmd, Proper(cmd),
           is_destructive(cmd) => Sensible(cmd) /\ u.ext4_lba = ui.ext4_lba,
           u.ext4_lba = ui.ext4_lba \/ cmd.name = "Ext4Load",
           dispatch_command(u, cmd), UNCHANGED <<channel, rate, fpga, card>>,
           DOMAIN user' = DOMAIN user, user'.profiles = user.profiles, user'.ports = user.ports
    PROVE  Inv'
<1>1. Dialogs /\ ui.pending = None
  BY DEF Sound, Dialogs
<1>2. DOMAIN u = UiFields /\ SameView(u, ui) /\ u.use_fifo \in BOOLEAN /\ u.pending = ui.pending
  BY DEF Panel
<1>3. CASE is_destructive(cmd)
  <2>1. ui' = [u EXCEPT !.dialog = cmd] /\ workers' = workers /\ upset' = upset
    BY <1>3 DEF dispatch_command, Sets
  <2>2. /\ DOMAIN ui' = UiFields /\ SameView(ui', u) /\ ui'.use_fifo \in BOOLEAN /\ ui'.pending = None
        /\ ui'.dialog = cmd /\ ui'.ext4_lba = ui.ext4_lba
    BY <1>1, <1>2, <1>3, <2>1, FieldsAre DEF SameView
  <2>3. SameView(ui', ui)
    BY <1>2, <2>2 DEF SameView
  <2>4. \E pn, new, h : Command(ph, pn, new, h)
    BY <2>1, <2>2, <2>3, StandStill
  <2>5. Dialogs'
    BY <1>3, <2>1, <2>2 DEF Dialogs, Sensible, is_destructive
  <2> QED BY <2>4, <2>5, CommandSound
<1>4. CASE ~is_destructive(cmd)
  <2> DEFINE causes == CausesOf(cmd)
  <2>1. Execute(u, <<cmd>>, causes)
    BY <1>4 DEF dispatch_command
  <2>2. "wander" \notin Grants(cmd)
    BY <1>4 DEF Grants, is_destructive, Ext4Writers
  <2>3. causes \subseteq {"reinit", "moved"} /\ (cmd.name = "Reinit" => "reinit" \in causes)
        /\ (cmd.name = "Ext4Load" /\ ui.dialog # None => "moved" \in causes)
    BY DEF CausesOf
  <2> HIDE DEF causes
  <2>4. /\ \E pn, new, h : Command(ph, pn, new, h)
        /\ ui'.ext4_lba = u.ext4_lba /\ ui'.dialog = u.dialog /\ ui'.pending = u.pending
        /\ upset \union causes \subseteq upset'
    BY <2>1, <2>2, <2>3, ExecuteOne
  <2>5. Dialogs'
    BY <1>1, <1>2, <2>3, <2>4, DialogsStay
  <2> QED BY <2>4, <2>5, CommandSound
<1> QED BY <1>3, <1>4

-----------------------------------------------------------------------------
(* The panels. *)

LEMMA ClickFacts ==
    ASSUME NEW ph, Sound(ph), NEW button, Click(button)
    PROVE  /\ ui.drawn /\ UNCHANGED <<channel, fpga, card>>
           /\ DOMAIN user' = DOMAIN user /\ user'.profiles = user.profiles
           /\ user'.ports = user.ports
<1>1. DOMAIN user = {"buttons", "profiles", "ports", "clicks", "faults"}
  BY DEF Sound, Shapes
<1> QED BY <1>1 DEF Click

\* What a button offers is a command with the data it needs.
LEMMA OffersProper ==
    ASSUME NEW b, NEW cmd \in Offers(b)
    PROVE  Proper(cmd) /\ (is_destructive(cmd) => Sensible(cmd))
<1> USE DEF Proper, CommandNames, Ext4Writers, Sensible
<1>1. CASE b \in {"info", "status", "extcsd", "reinit"}
  <2>1. cmd.name \in {"Identify", "ReadExtCsd", "ControllerStatus", "CardStatus", "SendRawCmd",
                      "WriteExtCsd", "Reinit"}
    BY <1>1 DEF Offers
  <2> QED BY <2>1
<1>2. CASE b \in {"read", "write", "verify", "full"}
  <2>1. cmd.name \in {"ReadSectors", "ReadToFile", "WriteSectors", "Verify", "BlankCheck", "DumpFull", "RestoreFull"}
    BY <1>2 DEF Offers
  <2> QED BY <2>1
<1>3. CASE b \in {"erase", "secure_erase"}
  <2>1. cmd.name \in {"Erase", "SecureErase"} /\ cmd.lba \in Lbas
    BY <1>3 DEF Offers
  <2> QED BY <2>1
<1>4. CASE b \in {"partition", "clock", "width"}
  <2>1. cmd.name \in {"SetPartition", "SetSpeed", "SetBusWidth"}
    BY <1>4 DEF Offers
  <2> QED BY <2>1
<1>5. CASE b = "baud"
  <2>1. cmd.name = "SetBaud" /\ cmd.preset \in Presets
    BY <1>5 DEF Offers
  <2> QED BY <2>1
<1>6. CASE b \notin {"info", "status", "extcsd", "reinit", "read", "write", "erase", "secure_erase",
                     "verify", "full", "partition", "clock", "baud", "width"}
  BY <1>6 DEF Offers
<1> QED BY <1>1, <1>2, <1>3, <1>4, <1>5, <1>6

LEMMA PressSound ==
    ASSUME NEW ph, Sound(ph), Press
    PROVE  Inv'
<1>1. PICK b \in user.buttons : Enabled(b) /\ \E cmd \in Offers(b) : dispatch_command(Drawn, cmd)
  BY DEF Press
<1>2. PICK cmd \in Offers(b) : dispatch_command(Drawn, cmd)
  BY <1>1
<1>3. /\ ui.drawn /\ ~is_busy /\ UNCHANGED <<channel, rate, fpga, card>>
      /\ DOMAIN user' = DOMAIN user /\ user'.profiles = user.profiles
      /\ user'.ports = user.ports
  BY <1>1, ClickFacts DEF Enabled
<1>4. Proper(cmd) /\ (is_destructive(cmd) => Sensible(cmd))
  BY OffersProper
<1>5. Panel(Drawn) /\ Drawn.ext4_lba = ui.ext4_lba /\ Drawn.dialog = ui.dialog
  BY DrawnPanel
<1> HIDE DEF Drawn
<1> QED BY <1>2, <1>3, <1>4, <1>5, DispatchSound

\* The panels that change a field of their own first.
LEMMA OwnField ==
    ASSUME NEW ph, Sound(ph)
    PROVE  /\ LET u == [Drawn EXCEPT !.partition_read_pending = TRUE]
              IN  Panel(u) /\ u.ext4_lba = ui.ext4_lba /\ u.dialog = ui.dialog /\ u.status = ui.status
           /\ LET u == [Drawn EXCEPT !.cancel = TRUE]
              IN  Panel(u) /\ u.ext4_lba = ui.ext4_lba /\ u.dialog = ui.dialog /\ u.status = ui.status
           /\ LET u == [Drawn EXCEPT !.hex = TRUE]
              IN  Panel(u) /\ u.ext4_lba = ui.ext4_lba /\ u.dialog = ui.dialog /\ u.status = ui.status
           /\ LET u == [ui EXCEPT !.table = TRUE, !.partition_read_pending = FALSE]
              IN  Panel(u) /\ u.ext4_lba = ui.ext4_lba /\ u.dialog = ui.dialog /\ u.status = ui.status
           /\ LET u == [Drawn EXCEPT !.use_fifo = (~@ /\ TRUE \in user.ports)]
              IN  Panel(u) /\ u.ext4_lba = ui.ext4_lba /\ u.dialog = ui.dialog /\ u.status = ui.status
           /\ \A l : LET u == [Drawn EXCEPT !.ext4_lba = l]
                     IN  Panel(u) /\ u.dialog = ui.dialog
<1>1. DOMAIN ui = UiFields /\ ui.use_fifo \in BOOLEAN
  BY DEF Sound, Shapes
<1>2. /\ DOMAIN Drawn = UiFields /\ Drawn.use_fifo \in BOOLEAN /\ SameView(Drawn, ui) /\ Drawn.pending = ui.pending
      /\ Drawn.ext4_lba = ui.ext4_lba /\ Drawn.dialog = ui.dialog /\ Drawn.status = ui.status
  BY DrawnPanel DEF Panel
<1> DEFINE d == Drawn
<1>3. /\ DOMAIN d = UiFields /\ d.use_fifo \in BOOLEAN /\ SameView(d, ui) /\ d.pending = ui.pending
      /\ d.ext4_lba = ui.ext4_lba /\ d.dialog = ui.dialog /\ d.status = ui.status
  BY <1>2
<1> HIDE DEF d
<1>4. LET u == [d EXCEPT !.partition_read_pending = TRUE]
      IN  Panel(u) /\ u.ext4_lba = ui.ext4_lba /\ u.dialog = ui.dialog /\ u.status = ui.status
  BY <1>3, FieldsAre DEF Panel, SameView
<1>5. LET u == [d EXCEPT !.cancel = TRUE]
      IN  Panel(u) /\ u.ext4_lba = ui.ext4_lba /\ u.dialog = ui.dialog /\ u.status = ui.status
  BY <1>3, FieldsAre DEF Panel, SameView
<1>6. LET u == [d EXCEPT !.hex = TRUE]
      IN  Panel(u) /\ u.ext4_lba = ui.ext4_lba /\ u.dialog = ui.dialog /\ u.status = ui.status
  BY <1>3, FieldsAre DEF Panel, SameView
<1>7. LET u == [ui EXCEPT !.table = TRUE, !.partition_read_pending = FALSE]
      IN  Panel(u) /\ u.ext4_lba = ui.ext4_lba /\ u.dialog = ui.dialog /\ u.status = ui.status
  BY <1>1, FieldsAre DEF Panel, SameView
<1>8. LET u == [d EXCEPT !.use_fifo = (~@ /\ TRUE \in user.ports)]
      IN  Panel(u) /\ u.ext4_lba = ui.ext4_lba /\ u.dialog = ui.dialog /\ u.status = ui.status
  BY <1>3, FieldsAre DEF Panel, SameView
<1>9. \A l : LET u == [d EXCEPT !.ext4_lba = l] IN Panel(u) /\ u.dialog = ui.dialog
  BY <1>3, FieldsAre DEF Panel, SameView
<1> QED BY <1>4, <1>5, <1>6, <1>7, <1>8, <1>9 DEF d

\* A panel that only changes its own fields, or fails to connect.
LEMMA SetsSound ==
    ASSUME NEW ph, Sound(ph), ui.drawn, NEW u, Panel(u), u.ext4_lba = ui.ext4_lba, u.dialog = ui.dialog,
           ~is_busy \/ u.status = ui.status, Sets(u), UNCHANGED <<channel, rate, fpga, card>>,
           DOMAIN user' = DOMAIN user, user'.profiles = user.profiles, user'.ports = user.ports
    PROVE  Inv'
<1>1. ui' = u /\ workers' = workers /\ upset' = upset
  BY DEF Sets
<1>2. Dialogs /\ ui.pending = None
  BY DEF Sound, Dialogs
<1>3. Dialogs'
  BY <1>1, <1>2, DialogsStay DEF Panel
<1>4. \E pn, new, h : Command(ph, pn, new, h)
  BY <1>1, StandStill DEF Panel
<1> QED BY <1>3, <1>4, CommandSound

LEMMA SettersSound ==
    ASSUME NEW ph, Sound(ph), ToggleFifo \/ Cancel \/ ParseTable \/ OpenInHex
    PROVE  Inv'
<1>1. CASE ToggleFifo
  <2> DEFINE u == [Drawn EXCEPT !.use_fifo = (~@ /\ TRUE \in user.ports)]
  <2>1. Panel(u) /\ u.ext4_lba = ui.ext4_lba /\ u.dialog = ui.dialog /\ u.status = ui.status
    BY OwnField
  <2>2. Click("toggle") /\ Sets(u) /\ rate' = rate
    BY <1>1 DEF ToggleFifo
  <2> HIDE DEF u
  <2> QED BY <2>1, <2>2, ClickFacts, SetsSound
<1>2. CASE Cancel
  <2> DEFINE u == [Drawn EXCEPT !.cancel = TRUE]
  <2>1. Panel(u) /\ u.ext4_lba = ui.ext4_lba /\ u.dialog = ui.dialog /\ u.status = ui.status
    BY OwnField
  <2>2. Click("cancel") /\ Sets(u) /\ rate' = rate
    BY <1>2 DEF Cancel
  <2> HIDE DEF u
  <2> QED BY <2>1, <2>2, ClickFacts, SetsSound
<1>3. CASE ParseTable
  <2> DEFINE u == [ui EXCEPT !.table = TRUE, !.partition_read_pending = FALSE]
  <2>1. Panel(u) /\ u.ext4_lba = ui.ext4_lba /\ u.dialog = ui.dialog /\ u.status = ui.status
    BY OwnField
  <2>2. ui.drawn /\ Sets(u) /\ UNCHANGED <<channel, rate, fpga, card, user>>
    BY <1>3 DEF ParseTable
  <2> HIDE DEF u
  <2> QED BY <2>1, <2>2, SetsSound
<1>4. CASE OpenInHex
  <2> DEFINE u == [Drawn EXCEPT !.hex = TRUE]
  <2>1. Panel(u) /\ u.ext4_lba = ui.ext4_lba /\ u.dialog = ui.dialog /\ u.status = ui.status
    BY OwnField
  <2>2. Click("open_hex") /\ Sets(u) /\ rate' = rate
    BY <1>4 DEF OpenInHex
  <2> HIDE DEF u
  <2> QED BY <2>1, <2>2, ClickFacts, SetsSound
<1> QED BY <1>1, <1>2, <1>3, <1>4

LEMMA ReadTableSound ==
    ASSUME NEW ph, Sound(ph), ReadTable
    PROVE  Inv'
<1> DEFINE u == [Drawn EXCEPT !.partition_read_pending = TRUE]
           cmd == [name |-> "ReadSectors", lba |-> NoLba]
<1>1. Panel(u) /\ u.ext4_lba = ui.ext4_lba /\ u.dialog = ui.dialog
  BY OwnField
<1>2. /\ ui.drawn /\ ~is_busy /\ UNCHANGED <<channel, rate, fpga, card>> /\ dispatch_command(u, cmd)
      /\ DOMAIN user' = DOMAIN user /\ user'.profiles = user.profiles
      /\ user'.ports = user.ports
  BY ClickFacts DEF Enabled, ReadTable
<1>3. Proper(cmd) /\ ~is_destructive(cmd)
  BY DEF Proper, CommandNames, Ext4Writers, is_destructive
<1> HIDE DEF u, cmd
<1> QED BY <1>1, <1>2, <1>3, DispatchSound

LEMMA ChooseSound ==
    ASSUME NEW ph, Sound(ph), Browse \/ LoadFs
    PROVE  Inv'
<1>1. PICK l \in Lbas : Choose(l)
  BY DEF Browse, LoadFs
<1> DEFINE u == [Drawn EXCEPT !.ext4_lba = l]
           cmd == [name |-> "Ext4Load", lba |-> l]
<1>2. Panel(u) /\ u.dialog = ui.dialog
  BY OwnField
<1>3. /\ ui.drawn /\ ~is_busy /\ UNCHANGED <<channel, rate, fpga, card>>
      /\ DOMAIN user' = DOMAIN user /\ user'.profiles = user.profiles
      /\ user'.ports = user.ports
  BY ClickFacts DEF Enabled, Browse, LoadFs
<1>4. dispatch_command(u, cmd)
  BY <1>1 DEF Choose
<1>5. Proper(cmd) /\ ~is_destructive(cmd) /\ cmd.name = "Ext4Load"
  BY DEF Proper, CommandNames, Ext4Writers, is_destructive
<1> HIDE DEF u, cmd
<1> QED BY <1>2, <1>3, <1>4, <1>5, DispatchSound

LEMMA FilesSound ==
    ASSUME NEW ph, Sound(ph), Navigate \/ OverwriteFile \/ CreateFile
    PROVE  Inv'
<1>1. PICK cmd : /\ dispatch_command(Drawn, cmd)
                 /\ \/ cmd \in {[name |-> "Ext4Navigate"], [name |-> "Ext4ReadFile"], [name |-> "Ext4Search"]}
                    \/ cmd = [name |-> "Ext4OverwriteFile", data |-> FileData]
                    \/ cmd = [name |-> "Ext4CreateFile", data |-> FileData]
  <2>1. CASE Navigate
    <3>1. PICK name \in {"Ext4Navigate", "Ext4ReadFile", "Ext4Search"} : dispatch_command(Drawn, [name |-> name])
      BY <2>1 DEF Navigate
    <3>2. [name |-> name] \in {[name |-> "Ext4Navigate"], [name |-> "Ext4ReadFile"], [name |-> "Ext4Search"]}
      BY <3>1
    <3> QED BY <3>1, <3>2
  <2>2. CASE OverwriteFile
    BY <2>2 DEF OverwriteFile
  <2>3. CASE CreateFile
    BY <2>3 DEF CreateFile
  <2> QED BY <2>1, <2>2, <2>3
<1>2. /\ ui.drawn /\ ~is_busy /\ UNCHANGED <<channel, rate, fpga, card>>
      /\ DOMAIN user' = DOMAIN user /\ user'.profiles = user.profiles
      /\ user'.ports = user.ports
  BY ClickFacts DEF Enabled, Navigate, OverwriteFile, CreateFile
<1>3. Panel(Drawn) /\ Drawn.ext4_lba = ui.ext4_lba /\ Drawn.dialog = ui.dialog
  BY DrawnPanel
<1>4. FileData[1] = "file" /\ FileData[2] = ui.ext4_lba
  BY DEF FileData
<1>5. Proper(cmd) /\ (is_destructive(cmd) => Sensible(cmd))
  <2> USE DEF Proper, CommandNames, Ext4Writers, Sensible
  <2>1. CASE cmd \in {[name |-> "Ext4Navigate"], [name |-> "Ext4ReadFile"], [name |-> "Ext4Search"]}
    BY <2>1 DEF is_destructive
  <2>2. CASE cmd.name \in Ext4Writers /\ cmd.data = FileData
    BY <1>4, <2>2
  <2> QED BY <1>1, <2>1, <2>2
<1> HIDE DEF Drawn, FileData
<1> QED BY <1>1, <1>2, <1>3, <1>5, DispatchSound

LEMMA ConfirmSound ==
    ASSUME NEW ph, Sound(ph), ConfirmDialog
    PROVE  Inv'
<1>1. Dialogs /\ ui.pending = None /\ DOMAIN ui = UiFields /\ ui.dialog # None
  BY DEF Sound, Dialogs, Shapes, ConfirmDialog
<1>2. PICK d \in {ui.dialog, None} : ui' = [Drawn EXCEPT !.dialog = None, !.pending = d]
  BY DEF ConfirmDialog
<1>3. UNCHANGED <<workers, channel, rate, exclusive, fpga, card, user, upset>>
  BY DEF ConfirmDialog
<1>4. /\ DOMAIN ui' = UiFields /\ ui'.use_fifo = ui.use_fifo /\ SameView(ui', ui) /\ ui'.status = ui.status
      /\ ui'.dialog = None /\ ui'.pending = d /\ ui'.ext4_lba = ui.ext4_lba /\ ~ui'.drawn
  BY <1>1, <1>2, FieldsAre DEF Drawn, SameView
<1>5. Dialogs'
  BY <1>1, <1>2, <1>3, <1>4 DEF Dialogs, Sensible, is_destructive
<1>6. \E pn, new, h : Command(ph, pn, new, h)
  <2>1. ui'.use_fifo \in BOOLEAN
    BY <1>4 DEF Sound, Shapes
  <2> QED BY <1>3, <1>4, <2>1, StandStill
<1> QED BY <1>5, <1>6, CommandSound

\* A search result opens a directory and a file: two threads.
LEMMA OpenResultSound ==
    ASSUME NEW ph, Sound(ph), OpenResult
    PROVE  Inv'
<1> DEFINE a == [name |-> "Ext4Navigate"]
           b == [name |-> "Ext4ReadFile"]
<1>1. /\ ui.drawn /\ ~is_busy /\ UNCHANGED <<channel, rate, fpga, card>> /\ Execute(Drawn, <<a, b>>, {})
      /\ DOMAIN user' = DOMAIN user /\ user'.profiles = user.profiles
      /\ user'.ports = user.ports
  BY ClickFacts DEF Enabled, OpenResult
<1>2. /\ Panel(Drawn) /\ Drawn.ext4_lba = ui.ext4_lba /\ Drawn.dialog = ui.dialog
      /\ DOMAIN Drawn = UiFields /\ SameView(Drawn, ui) /\ Drawn.use_fifo \in BOOLEAN /\ Drawn.pending = ui.pending
  BY DrawnPanel DEF Panel
<1>3. Dialogs /\ ui.pending = None /\ Shapes /\ Threads(ph)
  BY <1>1 DEF Sound, Dialogs
<1>4. \A cmd \in {a, b} : Proper(cmd) /\ Grants(cmd) = {}
  <2>1. \A cmd \in {a, b} : cmd.name \in {"Ext4Navigate", "Ext4ReadFile"}
    OBVIOUS
  <2> HIDE DEF a, b
  <2>2. \A cmd \in {a, b} : Proper(cmd)
    BY <2>1 DEF Proper, CommandNames, Ext4Writers
  <2>3. \A cmd \in {a, b} : \A x : x \notin Grants(cmd)
    BY <2>1 DEF Grants, Ext4Writers
  <2> QED BY <2>2, <2>3
<1> HIDE DEF a, b
<1>5. CASE Drawn.programmer = 0
  <2>1. ui' = set_failed(Drawn) /\ workers' = workers /\ upset' = upset
    BY <1>1, <1>5 DEF Execute
  <2>2. /\ DOMAIN ui' = UiFields /\ ui'.use_fifo = Drawn.use_fifo /\ SameView(ui', Drawn)
        /\ ui'.ext4_lba = ui.ext4_lba /\ ui'.dialog = ui.dialog /\ ui'.pending = ui.pending
    BY <1>2, <2>1, RunningFields
  <2>3. SameView(ui', ui)
    BY <1>2, <2>2 DEF SameView
  <2>4. \E pn, new, h : Command(ph, pn, new, h)
    BY <1>1, <1>2, <2>1, <2>2, <2>3, StandStill
  <2>5. Dialogs'
    BY <1>3, <2>1, <2>2, DialogsStay
  <2> QED BY <2>4, <2>5, CommandSound
<1>6. CASE Drawn.programmer # 0
  <2> DEFINE h == Drawn.programmer
             cmds == <<a, b>>
             one == Thread(h, Script(a))
             two == Thread(h, Script(b))
             threads == [i \in DOMAIN cmds |-> Thread(h, Script(cmds[i]))]
  <2>1. threads = <<one, two>>
    <3>1. DOMAIN cmds = 1..2 /\ cmds[1] = a /\ cmds[2] = b
      OBVIOUS
    <3> HIDE DEF cmds
    <3>2. DOMAIN threads = 1..2 /\ threads[1] = one /\ threads[2] = two
      BY <3>1
    <3>3. threads = [i \in 1..2 |-> threads[i]]
      BY <3>1
    <3> HIDE DEF threads, one, two
    <3> QED BY <3>2, <3>3, PairsAreTuples
  <2>2. Spawn(<<one, two>>, {}) /\ ui' = set_running(Drawn)
    <3>1. Spawn(threads, {}) /\ ui' = set_running(Drawn)
      BY <1>1, <1>6 DEF Execute
    <3> HIDE DEF threads
    <3> QED BY <2>1, <3>1
  <2>3. /\ DOMAIN one = ThreadFields /\ one.rest = Script(a) /\ one.handle = h
        /\ one.holds = FALSE /\ one.connects = FALSE
    BY DEF Thread, NoThread, ThreadFields
  <2>4. /\ DOMAIN two = ThreadFields /\ two.rest = Script(b) /\ two.handle = h
        /\ two.holds = FALSE /\ two.connects = FALSE
    BY DEF Thread, NoThread, ThreadFields
  <2>5. \A cmd \in {a, b} : Follows(Idle, Script(cmd)) /\ Script(cmd) # <<>>
    <3>1. \A cmd \in {a, b} : Follows(Phase(FALSE, Grants(cmd)), Script(cmd)) /\ Script(cmd) # <<>>
      BY <1>4, ScriptFollows
    <3> QED BY <1>4, <3>1 DEF Idle
  <2>6. h = ui.programmer /\ h \in Handles
    BY <1>2, <1>3, <1>6 DEF Shapes, SameView
  <2> HIDE DEF one, two
  <2>7. one # NoThread
    BY <2>3, <2>5, IdleFields
  <2>8. /\ \E s \in Slots : \E t \in Slots \ {s} :
              /\ workers[s] = NoThread /\ workers[t] = NoThread
              /\ workers' = [workers EXCEPT ![s] = one, ![t] = two]
        /\ upset' = upset \union {} \union {"overlap"}
    BY <1>3, <2>2, <2>7, SpawnTwo DEF Shapes
  <2>9. PICK s \in Slots : \E t \in Slots \ {s} :
              /\ workers[s] = NoThread /\ workers[t] = NoThread
              /\ workers' = [workers EXCEPT ![s] = one, ![t] = two]
    BY <2>8
  <2>10. PICK t \in Slots \ {s} :
              /\ workers[s] = NoThread /\ workers[t] = NoThread
              /\ workers' = [workers EXCEPT ![s] = one, ![t] = two]
    BY <2>9
  <2>11. PICK hh : hh = h
    OBVIOUS
  <2>12. \E pn : Frame(ph, pn, Idle, hh)
    <3>1. \A w \in {one, two} :
               /\ DOMAIN w = ThreadFields /\ w.rest # <<>> /\ Follows(Idle, w.rest)
               /\ w.holds = FALSE /\ w.connects = FALSE /\ w.handle = hh
      BY <2>3, <2>4, <2>5, <2>11
    <3>2. hh \in Handles /\ fpga' = fpga /\ card' = card /\ upset \subseteq upset'
      BY <1>1, <2>6, <2>8, <2>11
    <3> HIDE DEF h
    <3> QED BY <1>3, <2>10, <3>1, <3>2, TwoJoin
  <2>13. PICK pn : Frame(ph, pn, Idle, hh)
    BY <2>12
  <2>14. /\ DOMAIN ui' = UiFields /\ ui'.use_fifo = Drawn.use_fifo /\ SameView(ui', Drawn)
         /\ ui'.ext4_lba = ui.ext4_lba /\ ui'.dialog = ui.dialog /\ ui'.pending = ui.pending
    BY <1>2, <2>2, RunningFields
  <2>15. SameView(ui', ui)
    BY <1>2, <2>14 DEF SameView
  <2>16. Command(ph, pn, Idle, hh)
    BY <1>1, <1>2, <2>6, <2>8, <2>11, <2>13, <2>14, <2>15, IdleFields DEF Command
  <2>17. Dialogs'
    BY <1>3, <2>8, <2>14, DialogsStay
  <2> QED BY <2>16, <2>17, CommandSound
<1> QED BY <1>5, <1>6

LEMMA ScanFollows == Follows(Idle, Scan.rest) /\ Scan.rest # <<>>
<1> DEFINE a == Tell([type |-> "PortsScanned"])
<1>1. a.do = "tell" /\ a.arg.type = "PortsScanned"
  BY DEF Tell, Step
<1>2. Scan.rest = <<a>> /\ <<a>> # <<>> /\ <<a>> \o <<>> = <<a>>
  BY DEF Scan, Thread, NoThread, Done
<1> HIDE DEF a
<1>3. Legal(Idle, a)
  BY <1>1, IdleFields DEF Legal, Commands, Local, Erasing, Writing, Tuning, Telling, Reports
<1>4. Did(Idle, a) = Idle /\ ~MayFail(a)
  BY <1>1, IdleFields DEF Did, MayFail, Commands
<1>5. Follows(Did(Idle, a), <<>>)
  <2>1. Ends(Idle)
    BY IdleFields DEF Ends
  <2> QED BY <1>4, <2>1, IdleFields, FollowsEmpty
<1>6. Follows(Idle, <<a>> \o <<>>)
  BY <1>3, <1>4, <1>5, IdleFields, FollowsCons
<1> QED BY <1>2, <1>6

LEMMA RefreshSound ==
    ASSUME NEW ph, Sound(ph), Refresh
    PROVE  Inv'
<1>1. /\ ui.drawn /\ UNCHANGED <<channel, rate, fpga, card>> /\ Spawn(<<Scan>>, {}) /\ ui' = Drawn
      /\ DOMAIN user' = DOMAIN user /\ user'.profiles = user.profiles
      /\ user'.ports = user.ports
  BY ClickFacts DEF Refresh, Scan
<1>2. /\ Drawn.ext4_lba = ui.ext4_lba /\ Drawn.dialog = ui.dialog /\ Drawn.status = ui.status
      /\ DOMAIN Drawn = UiFields /\ SameView(Drawn, ui) /\ Drawn.use_fifo \in BOOLEAN /\ Drawn.pending = ui.pending
  BY DrawnPanel DEF Panel
<1>3. Dialogs /\ ui.pending = None /\ Shapes /\ Threads(ph)
  BY <1>1 DEF Sound, Dialogs
<1>4. /\ \E s \in Slots : workers[s] = NoThread /\ workers' = [workers EXCEPT ![s] = Scan]
      /\ upset' = upset \union {} \union (IF Quiescent THEN {} ELSE {"overlap"})
  BY <1>1, <1>3, SpawnOne DEF Shapes
<1>5. PICK s \in Slots : workers[s] = NoThread /\ workers' = [workers EXCEPT ![s] = Scan]
  BY <1>4
<1>6. Begins(Idle)
  BY IdleFields DEF Begins
<1>7. Started(ph, Idle, s, Scan)
  <2>1. Scan.holds = Idle.holds /\ Scan.connects = Idle.connects /\ DOMAIN Scan = ThreadFields
        /\ Scan = Scan /\ Idle = Idle /\ "reset" \notin Idle.may /\ "wander" \notin Idle.may
    BY IdleFields
  <2>2. fpga' = fpga /\ card' = card /\ upset \subseteq upset'
    BY <1>1, <1>4
  <2> HIDE DEF Scan, Idle
  <2> QED BY <1>3, <1>5, <1>6, <2>1, <2>2, ScanFollows, OneJoins
<1>8. PICK pn : Frame(ph, pn, Idle, 0) /\ \A t \in Slots \ {s} : workers'[t] = workers[t]
  BY <1>7, IdleFields DEF Started
<1>9. Command(ph, pn, Idle, 0)
  BY <1>1, <1>2, <1>4, <1>8, IdleFields DEF Command
<1>10. Dialogs'
  BY <1>1, <1>2, <1>3, <1>4, DialogsStay
<1> QED BY <1>9, <1>10, CommandSound

LEMMA ConnectingSound ==
    ASSUME NEW ph, Sound(ph), do_connect
    PROVE  Inv'
<1>1. /\ Click("connect") /\ ~ui.connected /\ ~is_busy
      /\ ui.drawn /\ UNCHANGED <<channel, fpga, card>>
      /\ DOMAIN user' = DOMAIN user /\ user'.profiles = user.profiles
      /\ user'.ports = user.ports
  BY ClickFacts DEF do_connect
<1>2. /\ Panel(Drawn) /\ Drawn.ext4_lba = ui.ext4_lba /\ Drawn.dialog = ui.dialog
      /\ DOMAIN Drawn = UiFields /\ SameView(Drawn, ui) /\ Drawn.use_fifo = ui.use_fifo /\ Drawn.pending = ui.pending
  BY DrawnPanel DEF Panel
<1>3. /\ Dialogs /\ ui.pending = None /\ Shapes /\ Threads(ph)
      /\ DOMAIN ui = UiFields /\ ui.use_fifo \in BOOLEAN /\ user.profiles \subseteq SpeedProfile
  BY <1>1 DEF Sound, Dialogs, Shapes
<1>4. CASE Refused(ui.use_fifo)
  <2> DEFINE u == set_failed(Drawn)
  <2>1. Sets(u) /\ rate' = rate
    BY <1>4 DEF do_connect
  <2>2. /\ DOMAIN u = UiFields /\ u.use_fifo = ui.use_fifo /\ SameView(u, Drawn)
        /\ u.ext4_lba = ui.ext4_lba /\ u.dialog = ui.dialog /\ u.pending = ui.pending
    BY <1>2, RunningFields
  <2> HIDE DEF u
  <2>3. Panel(u)
    BY <1>2, <1>3, <2>2 DEF Panel, SameView
  <2> QED BY <1>1, <2>1, <2>2, <2>3, SetsSound
<1>5. CASE ~Refused(ui.use_fifo)
  <2>1. PICK h \in Handles, profile \in user.profiles :
              /\ ~InUse(h)
              /\ rate' = [rate EXCEPT ![h] = IF ui.use_fifo THEN 0 ELSE DefaultBaud]
              /\ Spawn(<<[Thread(h, Negotiate(ui.use_fifo, profile)) EXCEPT !.connects = TRUE]>>,
                       ConnectCauses)
              /\ ui' = set_running([Drawn EXCEPT !.programmer = h])
    BY <1>5 DEF do_connect
  <2> DEFINE script == Negotiate(ui.use_fifo, profile)
             w == [Thread(h, script) EXCEPT !.connects = TRUE]
  <2>2. Follows(Phase(TRUE, {}), script) /\ script # <<>>
    BY <1>3, NegotiateFollows
  <2>3. Spawn(<<w>>, ConnectCauses)
    BY <2>1
  <2> HIDE DEF script
  <2>4. /\ DOMAIN w = ThreadFields /\ w.rest = script /\ w.handle = h /\ w.holds = FALSE /\ w.connects = TRUE
    BY DEF Thread, NoThread, ThreadFields
  <2> HIDE DEF w
  <2>5. /\ \E s \in Slots : workers[s] = NoThread /\ workers' = [workers EXCEPT ![s] = w]
        /\ upset' = upset \union ConnectCauses \union (IF Quiescent THEN {} ELSE {"overlap"})
    BY <1>3, <2>3, SpawnOne DEF Shapes
  <2>6. PICK s \in Slots : workers[s] = NoThread /\ workers' = [workers EXCEPT ![s] = w]
    BY <2>5
  <2>7. PICK new : new = Phase(TRUE, {})
    OBVIOUS
  <2>8. Begins(new) /\ new.may = {} /\ new.connects = TRUE
    BY <2>7, FirstBegins
  <2>9. Started(ph, new, s, w)
    <3>1. Follows(new, w.rest) /\ w.rest # <<>>
      BY <2>2, <2>4, <2>7
    <3>2. fpga' = fpga /\ card' = card /\ upset \subseteq upset' /\ "wander" \notin new.may /\ "reset" \notin new.may
      BY <1>1, <2>5, <2>8
    <3>3. w.holds = new.holds /\ w.connects = new.connects
      BY <2>7 DEF w, Thread, NoThread, Phase
    <3>4. w.handle \in Handles
      BY <2>1, <2>4
    <3> QED BY <1>3, <2>4, <2>6, <2>8, <3>1, <3>2, <3>3, <3>4, OneJoins
  <2>10. PICK pn : /\ Frame(ph, pn, new, w.handle) /\ pn[s] = new
                   /\ \A t \in Slots \ {s} : workers'[t] = workers[t] /\ pn[t] = ph[t]
                   /\ workers'[s] = w
    BY <2>9 DEF Started
  <2>11. Frame(ph, pn, new, h)
    BY <2>4, <2>10
  <2>12. /\ DOMAIN ui' = UiFields /\ ui'.use_fifo = ui.use_fifo /\ ~ui'.connected /\ ui'.programmer = h
         /\ ui'.status = "running" /\ ui'.clk_preset = ui.clk_preset /\ ui'.bus_width = ui.bus_width
         /\ ui'.active_partition = ui.active_partition
         /\ ui'.ext4_lba = ui.ext4_lba /\ ui'.dialog = ui.dialog /\ ui'.pending = ui.pending
    <3> DEFINE u == [Drawn EXCEPT !.programmer = h]
    <3>1. /\ DOMAIN u = UiFields /\ u.use_fifo = ui.use_fifo /\ ~u.connected /\ u.programmer = h
          /\ u.clk_preset = ui.clk_preset /\ u.bus_width = ui.bus_width
          /\ u.active_partition = ui.active_partition
          /\ u.ext4_lba = ui.ext4_lba /\ u.dialog = ui.dialog /\ u.pending = ui.pending
      BY <1>1, <1>3, FieldsAre DEF Drawn
    <3>2. ui' = set_running(u)
      BY <2>1
    <3> HIDE DEF u
    <3> QED BY <3>1, <3>2, RunningFields DEF SameView
  <2>13. \E r \in {0, DefaultBaud} : rate' = [rate EXCEPT ![h] = r]
    <3>1. CASE ui.use_fifo
      BY <2>1, <3>1
    <3>2. CASE ~ui.use_fifo
      BY <2>1, <3>2
    <3> QED BY <3>1, <3>2
  <2>14. workers'[s].handle = h /\ workers'[s].connects
    BY <2>4, <2>10
  <2>15. Connect(ph, pn, new, h, s)
    BY <1>1, <1>3, <2>1, <2>5, <2>6, <2>8, <2>10, <2>11, <2>12, <2>13, <2>14 DEF Connect
  <2>16. Dialogs'
    BY <1>3, <2>5, <2>12, DialogsStay
  <2> QED BY <2>15, <2>16, ConnectSound
<1> QED BY <1>4, <1>5

LEMMA DisconnectingSound ==
    ASSUME NEW ph, Sound(ph), do_disconnect
    PROVE  Inv'
<1>1. /\ ui.drawn /\ ui.connected /\ ~is_busy /\ UNCHANGED <<channel, rate, fpga, card>>
      /\ DOMAIN user' = DOMAIN user /\ user'.profiles = user.profiles
      /\ user'.ports = user.ports
  BY ClickFacts DEF Enabled, do_disconnect
<1>2. Dialogs /\ ui.pending = None /\ Shapes /\ DOMAIN ui = UiFields /\ ui.use_fifo \in BOOLEAN
  BY <1>1 DEF Sound, Dialogs, Shapes
<1> DEFINE u == [Drawn EXCEPT
                 !.programmer = 0, !.connected = FALSE, !.active_partition = "User",
                 !.table = FALSE, !.hex = FALSE, !.ext4 = FALSE, !.ext4_lba = NoLba,
                 !.file = FALSE, !.results = FALSE]
<1>3. ui' = set_completed(u) /\ workers' = workers
      /\ upset' = upset \union (IF ui.dialog # None THEN {"moved"} ELSE {})
  BY DEF do_disconnect
<1>4. /\ DOMAIN u = UiFields /\ u.use_fifo = ui.use_fifo /\ ~u.connected /\ u.programmer = 0
      /\ u.active_partition = "User" /\ u.clk_preset = ui.clk_preset /\ u.bus_width = ui.bus_width
      /\ u.dialog = ui.dialog /\ u.pending = ui.pending
  BY <1>2, FieldsAre DEF Drawn
<1> HIDE DEF u
<1>5. /\ DOMAIN ui' = UiFields /\ ui'.use_fifo = ui.use_fifo /\ ~ui'.connected /\ ui'.programmer = 0
      /\ ui'.active_partition = "User" /\ ui'.clk_preset = ui.clk_preset /\ ui'.bus_width = ui.bus_width
      /\ ui'.dialog = ui.dialog /\ ui'.pending = ui.pending
  BY <1>3, <1>4, RunningFields DEF SameView
<1>6. Disconnect(ph)
  BY <1>1, <1>2, <1>3, <1>5 DEF Disconnect
<1>7. Dialogs'
  BY <1>2, <1>3, <1>5, DialogsStay
<1> QED BY <1>6, <1>7, DisconnectSound

\* A step of the panels keeps the invariant.
LEMMA PanelsSound ==
    ASSUME NEW ph, Sound(ph), Panels
    PROVE  Inv'
BY PressSound, RefreshSound, SettersSound, ConnectingSound, DisconnectingSound, ReadTableSound, ChooseSound,
   FilesSound, OpenResultSound, ConfirmSound DEF Panels

-----------------------------------------------------------------------------
(* The messages and the confirmed command. *)

\* The AppState after the messages, and with the confirmed command taken.
LEMMA ToldFields ==
    ASSUME NEW ph, Sound(ph)
    PROVE  LET told == [Heard EXCEPT !.drawn = TRUE]
               v == [told EXCEPT !.pending = None]
           IN  \A u \in {told, v} :
                  /\ DOMAIN u = UiFields /\ u.use_fifo = ui.use_fifo /\ SameView(u, Heard) /\ u.status = Heard.status
                  /\ u.ext4_lba = ui.ext4_lba /\ u.dialog = ui.dialog
                  /\ u.pending \in {ui.pending, None} /\ (u = v => u.pending = None)
<1>1. /\ DOMAIN Heard = UiFields /\ Heard.use_fifo = ui.use_fifo /\ Heard.ext4_lba = ui.ext4_lba
      /\ Heard.dialog = ui.dialog /\ Heard.pending = ui.pending
  BY HeardFacts DEF Sound
<1> HIDE DEF Heard
<1> QED BY <1>1, FieldsAre DEF SameView

\* A confirmed command has the data it needs; what it may do is on record.
LEMMA PendingProper ==
    ASSUME NEW cmd, Sensible(cmd)
    PROVE  /\ Proper(cmd) /\ "tune" \notin Grants(cmd) /\ "reset" \notin Grants(cmd)
           /\ "wander" \in Grants(cmd) => "moved" \in upset
BY DEF Sensible, is_destructive, Proper, CommandNames, Ext4Writers, Grants

LEMMA FrameSound ==
    ASSUME NEW ph, Sound(ph), update
    PROVE  Inv'
<1> DEFINE told == [Heard EXCEPT !.drawn = TRUE]
           stray == IF \E i \in DOMAIN channel : Stray(channel[i]) THEN {"stray"} ELSE {}
           v == [told EXCEPT !.pending = None]
<1>1. /\ channel' = <<>> /\ UNCHANGED <<rate, fpga, card, user>>
      /\ \/ ui.pending = None /\ ui' = told /\ upset' = upset \union stray /\ workers' = workers
         \/ ui' = set_failed(v) /\ upset' = upset \union stray /\ workers' = workers /\ told.programmer = 0
         \/ /\ ui.pending # None /\ told.programmer # 0
            /\ Spawn(<<Thread(told.programmer, Script(ui.pending))>>, stray) /\ ui' = set_running(v)
  BY DEF update, Heard
<1>2. \A u \in {told, v} :
          /\ DOMAIN u = UiFields /\ u.use_fifo = ui.use_fifo /\ SameView(u, Heard) /\ u.status = Heard.status
          /\ u.ext4_lba = ui.ext4_lba /\ u.dialog = ui.dialog
          /\ u.pending \in {ui.pending, None} /\ (u = v => u.pending = None)
  BY ToldFields
<1>3. /\ stray \subseteq {"stray"}
      /\ "stray" \in stray \/ \A i \in DOMAIN channel : ~Stray(channel[i])
  OBVIOUS
<1>4. Dialogs /\ Shapes /\ Threads(ph) /\ ui.use_fifo \in BOOLEAN /\ Heard.programmer \in {ui.programmer, 0}
  BY HeardFacts DEF Sound, Shapes
<1> HIDE DEF told, v, stray, Heard
<1>5. CASE workers' = workers /\ upset' = upset \union stray
           /\ \/ ui.pending = None /\ ui' = told
              \/ ui' = set_failed(v) /\ told.programmer = 0
  <2>1. Frame(ph, ph, Idle, 0)
    BY <1>1, <1>4, <1>5, NothingJoins
  <2>2. /\ DOMAIN ui' = UiFields /\ ui'.use_fifo = ui.use_fifo /\ SameView(ui', Heard)
        /\ ui'.ext4_lba = ui.ext4_lba /\ ui'.dialog = ui.dialog /\ ui'.pending = None
        /\ ui'.status = Heard.status \/ Heard.programmer = 0
    <3>1. CASE ui.pending = None /\ ui' = told
      BY <1>2, <3>1
    <3>2. CASE ui' = set_failed(v) /\ told.programmer = 0
      <4>1. /\ DOMAIN ui' = UiFields /\ ui'.use_fifo = v.use_fifo /\ SameView(ui', v)
            /\ ui'.ext4_lba = v.ext4_lba /\ ui'.dialog = v.dialog /\ ui'.pending = v.pending
        BY <1>2, <3>2, RunningFields
      <4> QED BY <1>2, <3>2, <4>1 DEF SameView
    <3> QED BY <1>5, <3>1, <3>2
  <2>3. Update(ph, ph, Idle, 0)
    BY <1>1, <1>3, <1>4, <1>5, <2>1, <2>2, IdleFields DEF Update
  <2>4. Dialogs'
    BY <1>4, <1>5, <2>2, DialogsStay
  <2> QED BY <2>3, <2>4, UpdateSound
<1>6. CASE /\ ui.pending # None /\ told.programmer # 0
           /\ Spawn(<<Thread(told.programmer, Script(ui.pending))>>, stray) /\ ui' = set_running(v)
  <2> DEFINE cmd == ui.pending
             w == Thread(told.programmer, Script(cmd))
  <2>1. Sensible(cmd)
    BY <1>4, <1>6 DEF Dialogs
  <2>2. /\ Proper(cmd) /\ "tune" \notin Grants(cmd) /\ "reset" \notin Grants(cmd)
        /\ "wander" \in Grants(cmd) => "moved" \in upset
    <3> HIDE DEF cmd
    <3> QED BY <2>1, PendingProper
  <2>3. Follows(Phase(FALSE, Grants(cmd)), Script(cmd)) /\ Script(cmd) # <<>>
    <3> HIDE DEF cmd
    <3> QED BY <2>2, ScriptFollows
  <2>4. /\ DOMAIN w = ThreadFields /\ w.rest = Script(cmd) /\ w.handle = told.programmer
        /\ w.holds = FALSE /\ w.connects = FALSE
    BY DEF Thread, NoThread, ThreadFields
  <2>5. Spawn(<<w>>, stray)
    BY <1>6
  <2> HIDE DEF w, cmd
  <2>6. /\ \E s \in Slots : workers[s] = NoThread /\ workers' = [workers EXCEPT ![s] = w]
        /\ upset' = upset \union stray \union (IF Quiescent THEN {} ELSE {"overlap"})
    BY <1>4, <2>5, SpawnOne DEF Shapes
  <2>7. PICK s \in Slots : workers[s] = NoThread /\ workers' = [workers EXCEPT ![s] = w]
    BY <2>6
  <2>8. PICK new : new = Phase(FALSE, Grants(cmd))
    OBVIOUS
  <2>9. Begins(new) /\ new.may = Grants(cmd) /\ new.connects = FALSE
    BY <2>8, FirstBegins
  <2>10. told.programmer = Heard.programmer /\ told.programmer \in Handles
    <3>1. told.programmer = Heard.programmer
      BY <1>2 DEF SameView
    <3> QED BY <1>4, <1>6, <3>1 DEF Shapes
  <2>11. PICK h : h = w.handle
    OBVIOUS
  <2>12. Started(ph, new, s, w)
    <3>1. Follows(new, w.rest) /\ w.rest # <<>>
      BY <2>3, <2>4, <2>8
    <3>2. /\ fpga' = fpga /\ card' = card /\ upset \subseteq upset' /\ "reset" \notin new.may
          /\ "wander" \in new.may => "moved" \in upset'
      BY <1>1, <2>2, <2>6, <2>9
    <3>3. w.holds = new.holds /\ w.connects = new.connects
      BY <2>8 DEF w, Thread, NoThread, Phase
    <3>4. w.handle \in Handles
      BY <2>4, <2>10
    <3> QED BY <1>4, <2>4, <2>7, <2>9, <3>1, <3>2, <3>3, <3>4, OneJoins
  <2>13. PICK pn : /\ Frame(ph, pn, new, w.handle)
                   /\ \A t \in Slots \ {s} : workers'[t] = workers[t]
    BY <2>12 DEF Started
  <2>14. /\ DOMAIN ui' = UiFields /\ ui'.use_fifo = ui.use_fifo /\ SameView(ui', Heard)
         /\ ui'.ext4_lba = ui.ext4_lba /\ ui'.dialog = ui.dialog /\ ui'.pending = None
         /\ ui'.status = "running"
    <3>1. /\ DOMAIN ui' = UiFields /\ ui'.use_fifo = v.use_fifo /\ SameView(ui', v)
          /\ ui'.ext4_lba = v.ext4_lba /\ ui'.dialog = v.dialog /\ ui'.pending = v.pending
          /\ ui'.status = "running"
      BY <1>2, <1>6, RunningFields
    <3> QED BY <1>2, <3>1 DEF SameView
  <2>15. Frame(ph, pn, new, h) /\ h \in {0, Heard.programmer}
    BY <2>4, <2>10, <2>11, <2>13
  <2>16. /\ "shared" \in upset' => "shared" \in upset
         /\ "stray" \in upset' \/ \A i \in DOMAIN channel : ~Stray(channel[i])
         /\ "overlap" \in upset' \/ Quiescent
    BY <1>3, <2>6
  <2>17. Update(ph, pn, new, h)
    BY <1>1, <1>4, <2>2, <2>9, <2>13, <2>14, <2>15, <2>16 DEF Update
  <2>18. Dialogs'
    BY <1>4, <2>6, <2>14, DialogsStay
  <2> QED BY <2>17, <2>18, UpdateSound
<1> QED BY <1>1, <1>5, <1>6

-----------------------------------------------------------------------------
(* The theorems. *)

LEMMA InitSound ==
    ASSUME Init
    PROVE  Inv
<1>1. PICK ph : ph = [s \in Slots |-> Idle]
  OBVIOUS
<1>2. \A s \in Slots : ph[s] = Idle /\ workers[s] = NoThread
  BY <1>1 DEF Init
<1>0. /\ DOMAIN user = {"buttons", "profiles", "ports", "clicks", "faults"}
      /\ user.profiles \subseteq SpeedProfile /\ user.ports \subseteq BOOLEAN
  BY ProgrammerAssumption DEF Init
<1>3. PICK fifo \in user.ports : ui = AppState(fifo)
  BY DEF Init
<1>4. /\ DOMAIN ui = UiFields /\ ui.use_fifo \in BOOLEAN /\ ui.programmer = 0 /\ ui.status = "idle"
      /\ ui.clk_preset = 0 /\ ui.bus_width = 1 /\ ui.active_partition = "User"
      /\ ui.dialog = None /\ ui.pending = None
  BY <1>0, <1>3, FieldsAre DEF AppState
<1>5. ~ui.connected
  BY <1>3 DEF AppState
<1>6. Shapes
  <2>1. DOMAIN workers = Slots /\ \A s \in Slots : DOMAIN workers[s] = ThreadFields
    BY <1>2, IdleFields DEF Init
  <2>2. /\ DOMAIN rate = Handles
        /\ DOMAIN fpga = {"baud", "clk", "width", "lines", "part", "range", "idle"}
        /\ fpga.lines = fpga.width /\ ~fpga.idle
    BY DEF Init
  <2>3. DOMAIN card = Partitions /\ \A p \in Partitions : DOMAIN card[p] = Lbas
    BY DEF Init
  <2>5. \E E : channel \in Seq(E)
    <3>1. channel \in Seq({})
      BY DEF Init
    <3> QED BY <3>1
  <2> QED BY <1>0, <1>4, <2>1, <2>2, <2>3, <2>5 DEF Shapes
<1>7. Threads(ph) /\ LocksApart /\ OneConnection
  BY <1>2, IdleFields DEF Threads, LocksApart, OneConnection
<1>8. Guarded(ph) /\ Granted(ph)
  BY <1>2, IdleFields DEF Guarded, Granted
<1>9. Dialogs
  BY <1>4 DEF Dialogs
<1>10. ErasedAtHome /\ FilesAtHome
  <2>1. \A p \in Partitions, l \in Lbas : card[p][l] = <<p, l>>
    BY DEF Init
  <2> QED BY <2>1 DEF ErasedAtHome, FilesAtHome, Named, Partitions
<1>11. (\A s \in Slots : ~Connects(s)) /\ \A i \in Nat : ~Coming(i)
  BY <1>2, IdleFields DEF Connects, Coming, Init
<1>12. Waiting(ph)
  <2> HIDE DEF Connects, Coming
  <2> QED BY <1>5, <1>11 DEF Waiting
<1>13. Heard = ui
  BY HeardNothing DEF Heard, Init
<1>14. fpga.clk = 0 /\ fpga.width = 1 /\ fpga.part = "User"
  BY DEF Init
<1>15. Shown(ph)
  <2> HIDE DEF Connects, Coming, Heard
  <2> QED BY <1>4, <1>11, <1>13, <1>14 DEF Shown
<1>16. Rates(ph)
  <2>1. "shared" \notin upset
    BY DEF Init
  <2> HIDE DEF Connects, Coming
  <2> QED BY <1>2, <1>5, <1>11, <2>1, IdleFields DEF Rates
<1>17. Sound(ph)
  BY <1>6, <1>7, <1>8, <1>9, <1>10, <1>12, <1>15, <1>16 DEF Sound
<1> QED BY <1>17 DEF Inv

LEMMA NextSound ==
    ASSUME Inv, [Next]_vars
    PROVE  Inv'
<1>1. PICK ph : Sound(ph)
  BY DEF Inv
<1>2. CASE Panels
  BY <1>1, <1>2, PanelsSound
<1>3. CASE update
  BY <1>1, <1>3, FrameSound
<1>4. CASE \E s \in Slots : Worker(s)
  BY <1>1, <1>4, WorkerSound
<1>5. CASE Watchdog
  <2>1. Sound(ph)'
    BY <1>1, <1>5, WatchdogSound
  <2> QED BY <2>1 DEF Inv
<1>6. CASE UNCHANGED vars
  <2>1. UNCHANGED <<ui, workers, channel, rate, exclusive, fpga, card, user, upset>>
    BY <1>6 DEF vars
  <2>2. Sound(ph)'
    BY <1>1, <2>1 DEF Sound, Shapes, Threads, LocksApart, OneConnection, Guarded, Granted, Dialogs, Sensible,
                      is_destructive, ErasedAtHome, FilesAtHome, Waiting, Shown, Rates, Connects, Coming, Awaited,
                      is_busy, Heard, Offline, Matches, Ahead, Named, Unspoilt, Settings
  <2> QED BY <2>2 DEF Inv
<1> QED BY <1>2, <1>3, <1>4, <1>5, <1>6 DEF Next

LEMMA Invariance == Spec => []Inv
<1>1. Init => Inv
  BY InitSound
<1>2. Inv /\ [Next]_vars => Inv'
  BY NextSound
<1> QED BY <1>1, <1>2, PTL DEF Spec

\* Whatever runs beside a secure erase, over one connection it destroys what it named,
\* unless the card refuses one of its three commands, or the user types commands of his
\* own (execute_command: the lock is held over the three commands, and what the card
\* says to them is dropped).
THEOREM ErasesHome == Spec => []ErasesWhatItNamed
<1>1. Inv => ErasesWhatItNamed
  BY DEF Inv, Sound, ErasedAtHome, ErasesWhatItNamed, Named, Unspoilt
<1> QED BY <1>1, Invariance, PTL

\* A file goes to the file system its dialog was opened in, unless the user chooses
\* another one, or disconnects, under the dialog (dispatch_command, update,
\* execute_command).
THEOREM FilesGoHome == Spec => []OverwriteStaysHome
<1>1. Inv => OverwriteStaysHome
  BY DEF Inv, Sound, FilesAtHome, OverwriteStaysHome
<1> QED BY <1>1, Invariance, PTL

\* A GUI that shows "Connected" has a connection, unless the end of something else
\* was taken for the end of its connecting (do_connect, process_messages).
THEOREM ConnectedMeansConnection == Spec => []ConnectedHasProgrammer
<1>1. Inv => ConnectedHasProgrammer
  BY DEF Inv, Sound, Waiting, ConnectedHasProgrammer
<1> QED BY <1>1, Invariance, PTL

LEMMA QuietThreads ==
    ASSUME NEW ph, Sound(ph), Quiescent
    PROVE  Heard = ui /\ \A s \in Slots : ph[s] = Idle /\ ~Connects(s)
<1>1. Heard = ui
  BY HeardNothing DEF Quiescent, Heard
<1>2. \A s \in Slots : ph[s] = Idle /\ ~workers[s].connects
  BY ThreadFacts, IdleFields DEF Sound, Quiescent, Alive
<1> QED BY <1>1, <1>2 DEF Connects

\* Once all is quiet, the clock, the bus width and the partition that the panel shows
\* are those of the reader, whatever operations overlapped: each was changed and
\* reported under the lock, and the messages come in that order (execute_command,
\* process_messages).  A user who types commands, or writes a byte of the Extended CSD,
\* changes them behind the panel: the property excludes him by name.
THEOREM PanelShowsTheReader == Spec => []SettingsShown
<1>1. Inv => SettingsShown
  <2> SUFFICES ASSUME Inv, Settled, upset \subseteq {"overlap", "silent", "moved"}
               PROVE  /\ ui.clk_preset = fpga.clk /\ ui.bus_width = fpga.width
                      /\ ui.bus_width = fpga.lines /\ ~fpga.idle
                      /\ ui.active_partition = fpga.part
    BY DEF SettingsShown
  <2>1. PICK ph : Sound(ph)
    BY DEF Inv
  <2>2. Heard = ui /\ \A s \in Slots : ph[s] = Idle /\ ~Connects(s)
    BY <2>1, QuietThreads DEF Settled
  <2>3. ~Offline
    BY DEF Settled, Offline
  <2>4. fpga.lines = fpga.width /\ ~fpga.idle
    BY <2>1 DEF Sound, Shapes
  <2> HIDE DEF Heard, Connects, Offline
  <2> QED BY <2>1, <2>2, <2>3, <2>4, IdleFields, ReportsDiffer DEF Sound, Shown
<1> QED BY <1>1, Invariance, PTL

\* Once all is quiet, the shared connection is at the rate of the reader, unless two
\* operations overlapped, a request failed, the port was taken or the watchdog reset
\* the reader (SetBaud, do_connect).
THEOREM ConnectionAtTheRate == Spec => []BaudKept
<1>1. Inv => BaudKept
  <2> SUFFICES ASSUME Inv, Settled, ui.programmer # 0,
                      upset \intersect {"fault", "taken", "silent", "overlap"} = {}
               PROVE  rate[ui.programmer] \in {0, fpga.baud}
    BY DEF BaudKept
  <2>1. PICK ph : Sound(ph)
    BY DEF Inv
  <2>2. \A s \in Slots : ph[s] = Idle
    BY <2>1, QuietThreads DEF Settled
  <2>3. /\ ui.connected
        /\ ui.connected /\ ui.programmer # 0 =>
              \/ Matches(ui.programmer)
              \/ \E s \in Slots : workers[s].handle = ui.programmer /\ ph[s].wants # 0
    BY <2>1 DEF Sound, Rates, Settled
  <2> QED BY <2>2, <2>3, IdleFields DEF Matches
<1> QED BY <1>1, Invariance, PTL
=============================================================================
