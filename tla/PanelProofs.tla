---------------------------- MODULE PanelProofs ----------------------------
(* What holds of the panel for every scene, text, size of the LCD, number of *)
(* pins of the port and sequence of accesses: what passes between the port   *)
(* and the panel, the levels the server works out and what the displays show *)
(* of them, whom a fight over a pin costs its connection, and what the LCD   *)
(* shows of a text, whoever comes or goes and whatever the server's end.     *)
EXTENDS PanelClients, FiniteSetTheorems, SequenceTheorems, TLAPS

-----------------------------------------------------------------------------
(* The invariant *)

\* The port writes pins and asks for levels; it subscribes to nothing.
PortCommand == [cmd : {"W"}, pin : Nat, val : Drive] \cup {R}

\* f is a function of the programs.
OfClients(f) == f = [c \in Client |-> f[c]]

Shapes ==
  /\ OfClients(fd) /\ OfClients(pins) /\ OfClients(notify)
  /\ OfClients(toServer) /\ OfClients(toClient) /\ OfClients(life)
  /\ pins["port"] = [p \in Pin |-> pins["port"][p]]
  /\ last = [p \in PortPins |-> last[p]]
  /\ port \in {"idle", "reading", "stuck"}
  /\ toServer["port"] \in Seq(PortCommand)

\* Before it is started the port has no connection and nobody reads it.
Fresh ==
  life["port"] = "new" => fd["port"] = 0 /\ port = "idle" /\ \A p \in PortPins : last[p] = "P"

\* No question, or the one at place i, is among the commands q.
NoQuestion(q) == \A i \in DOMAIN q : q[i] # R
OneQuestion(q) == \E i \in DOMAIN q : q[i] = R /\ \A j \in DOMAIN q : q[j] = R => j = i

\* While the guest reads, either the question is under way or its answer.
Conversation(q, a, reading) ==
  \/ ~reading /\ a = <<>> /\ NoQuestion(q)
  \/ reading /\ a = <<>> /\ OneQuestion(q)
  \/ reading /\ NoQuestion(q) /\ \E out : a = <<out>>

\* Command m is a write of pin p.
Writes(m, p) == m.cmd = "W" /\ m.pin = p

\* When the commands q are done, pin p, which is now at v, is at w.
Leads(q, p, v, w) ==
  \/ v = w /\ \A i \in DOMAIN q : ~Writes(q[i], p)
  \/ \E i \in DOMAIN q :
       /\ Writes(q[i], p) /\ q[i].val = w
       /\ \A j \in DOMAIN q : j > i /\ Writes(q[j], p) => q[j].val = w

Inv ==
  /\ Shapes /\ Fresh /\ notify["port"] = {}
  /\ fd["port"] # 0 =>
       /\ port # "stuck"
       /\ Conversation(toServer["port"], toClient["port"], port = "reading")
       /\ \A p \in PortPins : Leads(toServer["port"], p, pins["port"][p], last[p])

-----------------------------------------------------------------------------
(* Commands under way *)

\* Doing the first of some commands.
LEMMA FirstDone ==
  ASSUME NEW S, NEW q \in Seq(S), q # <<>>
  PROVE  /\ Tail(q) \in Seq(S) /\ Head(q) = q[1] /\ Head(q) \in S /\ 1 \in DOMAIN q
         /\ \A i \in DOMAIN Tail(q) : i \in Nat /\ i + 1 \in DOMAIN q /\ Tail(q)[i] = q[i + 1] /\ i + 1 # 1
         /\ \A i \in DOMAIN q : i # 1 => i \in Nat /\ i - 1 \in DOMAIN Tail(q) /\ Tail(q)[i - 1] = q[i]
  <1>1. Len(q) \in Nat /\ Len(q) > 0 /\ DOMAIN q = 1 .. Len(q) BY EmptySeq, LenProperties
  <1>2. Tail(q) \in Seq(S) /\ Len(Tail(q)) = Len(q) - 1 BY <1>1, HeadTailProperties
  <1>3. DOMAIN Tail(q) = 1 .. Len(q) - 1 BY <1>1, <1>2, LenProperties
  <1>4. \A i \in 1 .. Len(q) - 1 : Tail(q)[i] = q[i + 1] BY <1>1, HeadTailProperties
  <1>5. Head(q) = q[1] /\ Head(q) \in S BY HeadTailProperties
  <1>6. ASSUME NEW i \in DOMAIN q, i # 1
        PROVE  i \in Nat /\ i - 1 \in DOMAIN Tail(q) /\ Tail(q)[i - 1] = q[i]
    <2>1. i - 1 \in 1 .. Len(q) - 1 /\ i - 1 + 1 = i BY <1>1, <1>6
    <2> QED BY <1>1, <1>3, <1>4, <2>1
  <1> QED BY <1>1, <1>2, <1>3, <1>4, <1>5, <1>6

\* Adding commands s to q makes r.
LEMMA Joined ==
  ASSUME NEW S, NEW q \in Seq(S), NEW s \in Seq(S), NEW r, r = q \o s
  PROVE  /\ r \in Seq(S) /\ Len(q) \in Nat
         /\ \A i \in DOMAIN q : i \in Nat /\ i \in DOMAIN r /\ r[i] = q[i] /\ i <= Len(q)
         /\ \A i \in DOMAIN s : i \in Nat /\ Len(q) + i \in DOMAIN r /\ r[Len(q) + i] = s[i] /\ i > 0
         /\ \A i \in DOMAIN r : \/ i \in DOMAIN q /\ r[i] = q[i]
                                \/ i > Len(q) /\ \E k \in DOMAIN s : i = Len(q) + k /\ r[i] = s[k]
  <1>1. /\ Len(q) \in Nat /\ Len(s) \in Nat /\ DOMAIN q = 1 .. Len(q) /\ DOMAIN s = 1 .. Len(s)
    BY LenProperties
  <1>2. /\ q \o s \in Seq(S) /\ Len(q \o s) = Len(q) + Len(s)
        /\ \A i \in 1 .. Len(q) + Len(s) : (q \o s)[i] = IF i <= Len(q) THEN q[i] ELSE s[i - Len(q)]
    BY ConcatProperties
  <1>3. r \in Seq(S) /\ DOMAIN r = 1 .. Len(q) + Len(s)
    <2>1. r \in Seq(S) /\ Len(r) = Len(q) + Len(s) BY <1>2, Zenon
    <2> QED BY <2>1, LenProperties
  <1>4. \A i \in 1 .. Len(q) + Len(s) : r[i] = IF i <= Len(q) THEN q[i] ELSE s[i - Len(q)]
    BY <1>2, Zenon
  <1>5. \A i \in DOMAIN q : i \in Nat /\ i \in DOMAIN r /\ r[i] = q[i] /\ i <= Len(q) BY <1>1, <1>3, <1>4
  <1>6. ASSUME NEW i \in DOMAIN s
        PROVE  i \in Nat /\ Len(q) + i \in DOMAIN r /\ r[Len(q) + i] = s[i] /\ i > 0
    <2>1. i \in Nat /\ i > 0 /\ Len(q) + i \in 1 .. Len(q) + Len(s) /\ ~(Len(q) + i <= Len(q))
          /\ Len(q) + i - Len(q) = i
      BY <1>1, <1>6
    <2> QED BY <1>3, <1>4, <2>1
  <1>7. ASSUME NEW i \in DOMAIN r, i \notin DOMAIN q
        PROVE  i > Len(q) /\ \E k \in DOMAIN s : i = Len(q) + k /\ r[i] = s[k]
    <2>1. i \in Nat /\ i > Len(q) /\ i - Len(q) \in DOMAIN s /\ i = Len(q) + (i - Len(q)) BY <1>1, <1>3, <1>7
    <2> QED BY <1>3, <1>4, <2>1
  <1> QED BY <1>1, <1>3, <1>5, <1>6, <1>7

\* The question is answered when it is the first command.
LEMMA TalkFirst ==
  ASSUME NEW q \in Seq(PortCommand), q # <<>>, NEW a, NEW reading \in BOOLEAN, Conversation(q, a, reading)
  PROVE  /\ Head(q) # R => Conversation(Tail(q), a, reading)
         /\ Head(q) = R => reading /\ a = <<>> /\ NoQuestion(Tail(q))
  <1>1. NoQuestion(q) => NoQuestion(Tail(q)) /\ Head(q) # R BY FirstDone DEF NoQuestion
  <1>2. ASSUME OneQuestion(q), Head(q) # R PROVE OneQuestion(Tail(q))
    <2>1. PICK i \in DOMAIN q : q[i] = R /\ \A j \in DOMAIN q : q[j] = R => j = i BY <1>2 DEF OneQuestion
    <2>2. i # 1 BY <1>2, <2>1, FirstDone
    <2>3. i \in Nat /\ i - 1 \in DOMAIN Tail(q) /\ Tail(q)[i - 1] = R BY <2>1, <2>2, FirstDone
    <2>4. ASSUME NEW j \in DOMAIN Tail(q), Tail(q)[j] = R PROVE j = i - 1
      <3>1. j \in Nat /\ j + 1 = i BY <2>1, <2>4, FirstDone
      <3> QED BY <2>3, <3>1
    <2> QED BY <2>3, <2>4 DEF OneQuestion
  <1>3. ASSUME OneQuestion(q), Head(q) = R PROVE NoQuestion(Tail(q))
    <2>1. PICK i \in DOMAIN q : q[i] = R /\ \A j \in DOMAIN q : q[j] = R => j = i BY <1>3 DEF OneQuestion
    <2>2. i = 1 BY <1>3, <2>1, FirstDone
    <2> QED BY <2>1, <2>2, FirstDone DEF NoQuestion
  <1> QED BY <1>1, <1>2, <1>3 DEF Conversation

\* Commands that ask nothing, and the question.
LEMMA TalkMore ==
  ASSUME NEW q \in Seq(PortCommand), NEW s \in Seq(PortCommand), NEW a, NEW reading \in BOOLEAN,
         Conversation(q, a, reading)
  PROVE  /\ NoQuestion(s) => Conversation(q \o s, a, reading)
         /\ ~reading /\ s = <<R>> => Conversation(q \o s, a, TRUE)
  <1> DEFINE r == q \o s
  <1> HIDE DEF r
  <1>0. r = q \o s BY DEF r
  <1>1. NoQuestion(q) /\ NoQuestion(s) => NoQuestion(r) BY <1>0, Joined DEF NoQuestion
  <1>2. ASSUME OneQuestion(q), NoQuestion(s) PROVE OneQuestion(r)
    <2>1. PICK i \in DOMAIN q : q[i] = R /\ \A j \in DOMAIN q : q[j] = R => j = i BY <1>2 DEF OneQuestion
    <2>2. i \in DOMAIN r /\ r[i] = R BY <1>0, <2>1, Joined
    <2>3. \A j \in DOMAIN r : r[j] = R => j = i BY <1>0, <1>2, <2>1, Joined DEF NoQuestion
    <2> QED BY <2>2, <2>3 DEF OneQuestion
  <1>3. ASSUME NoQuestion(q), s = <<R>> PROVE OneQuestion(r)
    <2>1. DOMAIN s = {1} /\ s[1] = R
      <3>0. Len(<<R>>) = 1 /\ <<R>>[1] = R OBVIOUS
      <3>1. Len(s) = 1 /\ s[1] = R BY <1>3, <3>0, Zenon
      <3>2. DOMAIN s = 1 .. 1 BY <3>1, LenProperties
      <3> QED BY <3>1, <3>2
    <2>2. Len(q) + 1 \in DOMAIN r /\ r[Len(q) + 1] = R
      <3>1. \A i \in DOMAIN s : Len(q) + i \in DOMAIN r /\ r[Len(q) + i] = s[i] BY <1>0, Joined
      <3> QED BY <2>1, <3>1
    <2>3. \A j \in DOMAIN r : r[j] = R => j = Len(q) + 1 BY <1>0, <1>3, <2>1, Joined DEF NoQuestion
    <2> QED BY <2>2, <2>3 DEF OneQuestion
  <1> QED BY <1>1, <1>2, <1>3 DEF Conversation, r

\* A pin after the first command.
LEMMA LeadsFirst ==
  ASSUME NEW q \in Seq(PortCommand), q # <<>>, NEW p, NEW v, NEW w, Leads(q, p, v, w)
  PROVE  Leads(Tail(q), p, IF Writes(Head(q), p) THEN Head(q).val ELSE v, w)
  <1>1. CASE v = w /\ \A i \in DOMAIN q : ~Writes(q[i], p) BY <1>1, FirstDone DEF Leads
  <1>2. ASSUME NEW i \in DOMAIN q, Writes(q[i], p), q[i].val = w,
               \A j \in DOMAIN q : j > i /\ Writes(q[j], p) => q[j].val = w
        PROVE  Leads(Tail(q), p, IF Writes(Head(q), p) THEN Head(q).val ELSE v, w)
    <2>1. CASE i # 1
      <3>1. i \in Nat /\ i - 1 \in DOMAIN Tail(q) /\ Tail(q)[i - 1] = q[i] BY <2>1, FirstDone
      <3>2. ASSUME NEW j \in DOMAIN Tail(q), j > i - 1, Writes(Tail(q)[j], p) PROVE Tail(q)[j].val = w
        <4>1. j \in Nat /\ j + 1 \in DOMAIN q /\ Tail(q)[j] = q[j + 1] BY FirstDone
        <4>2. j + 1 > i BY <3>1, <3>2, <4>1
        <4> QED BY <1>2, <3>2, <4>1, <4>2
      <3> QED BY <1>2, <3>1, <3>2 DEF Leads
    <2>2. CASE i = 1
      <3>1. Writes(Head(q), p) /\ Head(q).val = w BY <1>2, <2>2, FirstDone
      <3>2. ASSUME NEW j \in DOMAIN Tail(q), Writes(Tail(q)[j], p) PROVE Tail(q)[j].val = w
        <4>1. j \in Nat /\ j + 1 \in DOMAIN q /\ Tail(q)[j] = q[j + 1] /\ j + 1 # 1 BY FirstDone
        <4>2. j \in DOMAIN Tail(q) /\ DOMAIN q = 1 .. Len(q) /\ Len(q) \in Nat BY LenProperties
        <4>3. j + 1 > i BY <2>2, <4>1, <4>2
        <4> QED BY <1>2, <3>2, <4>1, <4>3
      <3>3. CASE \A j \in DOMAIN Tail(q) : ~Writes(Tail(q)[j], p) BY <3>1, <3>3 DEF Leads
      <3>4. ASSUME NEW k \in DOMAIN Tail(q), Writes(Tail(q)[k], p)
            PROVE  Leads(Tail(q), p, IF Writes(Head(q), p) THEN Head(q).val ELSE v, w)
        BY <3>2, <3>4 DEF Leads
      <3> QED BY <3>3, <3>4
    <2> QED BY <2>1, <2>2
  <1> QED BY <1>1, <1>2 DEF Leads

\* And after more of them: those that do not write it, and those that write u.
LEMMA LeadsMore ==
  ASSUME NEW q \in Seq(PortCommand), NEW s \in Seq(PortCommand), NEW p, NEW v, NEW w
  PROVE  /\ Leads(q, p, v, w) /\ (\A k \in DOMAIN s : ~Writes(s[k], p)) => Leads(q \o s, p, v, w)
         /\ \A u : /\ \E k \in DOMAIN s : Writes(s[k], p)
                   /\ \A k \in DOMAIN s : Writes(s[k], p) => s[k].val = u
                   => Leads(q \o s, p, v, u)
  <1> DEFINE r == q \o s
  <1> HIDE DEF r
  <1>0. r = q \o s BY DEF r
  <1>1. ASSUME Leads(q, p, v, w), \A k \in DOMAIN s : ~Writes(s[k], p) PROVE Leads(r, p, v, w)
    <2>1. CASE v = w /\ \A i \in DOMAIN q : ~Writes(q[i], p) BY <1>0, <1>1, <2>1, Joined DEF Leads
    <2>2. ASSUME NEW i \in DOMAIN q, Writes(q[i], p), q[i].val = w,
                 \A j \in DOMAIN q : j > i /\ Writes(q[j], p) => q[j].val = w
          PROVE  Leads(r, p, v, w)
      <3>1. i \in DOMAIN r /\ r[i] = q[i] BY <1>0, Joined
      <3>2. \A j \in DOMAIN r : j > i /\ Writes(r[j], p) => r[j].val = w BY <1>0, <1>1, <2>2, Joined
      <3> QED BY <2>2, <3>1, <3>2 DEF Leads
    <2> QED BY <1>1, <2>1, <2>2 DEF Leads
  <1>2. ASSUME NEW u, NEW k \in DOMAIN s, Writes(s[k], p),
               \A j \in DOMAIN s : Writes(s[j], p) => s[j].val = u
        PROVE  Leads(r, p, v, u)
    <2>1. Len(q) + k \in DOMAIN r /\ r[Len(q) + k] = s[k] /\ k \in Nat /\ k > 0 /\ Len(q) \in Nat BY <1>0, Joined
    <2>2. ASSUME NEW j \in DOMAIN r, j > Len(q) + k, Writes(r[j], p) PROVE r[j].val = u
      <3>1. j \notin DOMAIN q
        <4>1. j \in DOMAIN q => j \in Nat /\ j <= Len(q) BY <1>0, Joined
        <4> QED BY <2>1, <2>2, <4>1
      <3> QED BY <1>0, <1>2, <2>2, <3>1, Joined
    <2> QED BY <1>2, <2>1, <2>2 DEF Leads
  <1> QED BY <1>1, <1>2 DEF r

-----------------------------------------------------------------------------
(* What the port sends *)

\* The programs and the pins.
LEMMA Given ==
  /\ "port" \in Client /\ "button" \in Client /\ "led" \in Client /\ "lcdwrite" \in Client /\ "lcd" \in Client
  /\ PortPins \subseteq Pin /\ Pin = 0 .. 5 /\ PortPins \subseteq Nat /\ IsFiniteSet(PortPins)
  /\ \A p \in PortPins : 0 .. p \subseteq PortPins
  <1>1. /\ Client = Programs /\ Pin = 0 .. 5 /\ PortPins \subseteq Pin
        /\ \A p \in PortPins : 0 .. p \subseteq PortPins
    BY ClientsAssumption
  <1>2. IsFiniteSet(0 .. 5)
    <2>1. 0 \in Int /\ 5 \in Int OBVIOUS
    <2> QED BY <2>1, FS_Interval
  <1>3. IsFiniteSet(PortPins) BY <1>1, <1>2, FS_Subset
  <1> QED BY <1>1, <1>3 DEF Programs

\* How many pins of ps are below p.
Rank(ps, p) == Cardinality({q \in ps : q < p})

\* No two pins have the same rank, and the ranks are 0 to the number of pins
\* less one.
LEMMA Ranks ==
  ASSUME NEW ps \in SUBSET Nat, IsFiniteSet(ps)
  PROVE  /\ Cardinality(ps) \in Nat
         /\ \A p \in ps : Rank(ps, p) \in 0 .. Cardinality(ps) - 1
         /\ \A p, q \in ps : Rank(ps, p) = Rank(ps, q) => p = q
         /\ \A n \in 0 .. Cardinality(ps) - 1 : \E p \in ps : Rank(ps, p) = n
  <1>1. Cardinality(ps) \in Nat BY FS_CardinalityType
  <1>2. ASSUME NEW p \in ps
        PROVE  IsFiniteSet({q \in ps : q < p}) /\ Rank(ps, p) \in 0 .. Cardinality(ps) - 1
    <2> DEFINE below == {q \in ps : q < p}
    <2>1. below \in SUBSET ps /\ p \notin below OBVIOUS
    <2> HIDE DEF below
    <2>2. IsFiniteSet(below) /\ Cardinality(below) <= Cardinality(ps) /\ Cardinality(below) # Cardinality(ps)
      BY <2>1, FS_Subset
    <2>3. Cardinality(below) \in Nat BY <2>2, FS_CardinalityType
    <2>4. Cardinality(below) \in 0 .. Cardinality(ps) - 1 BY <1>1, <2>2, <2>3
    <2> QED BY <2>2, <2>4 DEF below, Rank
  <1>3. ASSUME NEW p \in ps, NEW q \in ps, p < q PROVE Rank(ps, p) # Rank(ps, q)
    <2> DEFINE low == {x \in ps : x < p}
               high == {x \in ps : x < q}
    <2>0. (\A x \in ps : x < p => x < q) /\ ~(p < p) BY <1>3
    <2>1. low \in SUBSET high /\ p \in high /\ p \notin low BY <1>3, <2>0
    <2>2. IsFiniteSet(high) BY <1>2
    <2> HIDE DEF low, high
    <2>3. Cardinality(low) # Cardinality(high) BY <2>1, <2>2, FS_Subset
    <2> QED BY <2>3 DEF low, high, Rank
  <1>4. \A p, q \in ps : Rank(ps, p) = Rank(ps, q) => p = q
    <2> SUFFICES ASSUME NEW p \in ps, NEW q \in ps, p # q PROVE Rank(ps, p) # Rank(ps, q) OBVIOUS
    <2>1. p < q \/ q < p OBVIOUS
    <2> QED BY <1>3, <2>1
  <1>5. \A n \in 0 .. Cardinality(ps) - 1 : \E p \in ps : Rank(ps, p) = n
    <2> DEFINE f == [p \in ps |-> Rank(ps, p)]
               ranks == {f[p] : p \in ps}
               all == 0 .. Cardinality(ps) - 1
    <2>1. ranks \in SUBSET all BY <1>2
    <2>2. f \in Bijection(ps, ranks)
      <3>1. f \in [ps -> ranks] /\ \A r \in ranks : \E p \in ps : f[p] = r OBVIOUS
      <3>2. \A p, q \in ps : f[p] = f[q] => p = q BY <1>4
      <3> QED BY <3>1, <3>2 DEF Bijection, Injection, Surjection, IsInjective
    <2>3. IsFiniteSet(all) /\ Cardinality(all) = Cardinality(ps)
      <3>0. 0 \in Int /\ Cardinality(ps) - 1 \in Int BY <1>1
      <3>1. IsFiniteSet(all) /\ Cardinality(all) = IF 0 > Cardinality(ps) - 1 THEN 0 ELSE Cardinality(ps) - 1 - 0 + 1
        BY <3>0, FS_Interval
      <3> QED BY <1>1, <3>1
    <2> HIDE DEF ranks, all, f
    <2>4. Cardinality(ranks) = Cardinality(ps)
      BY <2>2, FS_Bijection DEF ExistsBijection
    <2>5. ranks = all BY <2>1, <2>3, <2>4, FS_Subset
    <2> QED BY <2>5 DEF ranks, all, f
  <1> QED BY <1>1, <1>2, <1>4, <1>5

\* A write is a command of the port and no question.
LEMMA AWrite ==
  ASSUME NEW p \in Nat, NEW v \in {"0", "P"}
  PROVE  /\ W(p, v) \in PortCommand /\ W(p, v) # R /\ W(p, v).val = v
         /\ \A q : Writes(W(p, v), q) <=> q = p
  <1>1. v \in Drive BY DEF Drive
  <1>2. W(p, v) \in PortCommand BY <1>1 DEF W, PortCommand
  <1>3. W(p, v).cmd = "W" /\ W(p, v).pin = p /\ W(p, v).val = v BY DEF W
  <1>4. R.cmd = "R" BY DEF R
  <1> QED BY <1>2, <1>3, <1>4 DEF Writes

\* The commands for the pins in ps: each of them is written, with what low says.
LEMMA PinWritesFacts ==
  ASSUME NEW low, NEW ps \in SUBSET PortPins
  PROVE  /\ PinWrites(low, ps) \in Seq(PortCommand) /\ NoQuestion(PinWrites(low, ps))
         /\ \A k \in DOMAIN PinWrites(low, ps) : \A p \in PortPins :
              Writes(PinWrites(low, ps)[k], p) => p \in ps /\ PinWrites(low, ps)[k].val = PinVal(low, p)
         /\ \A p \in ps : \E k \in DOMAIN PinWrites(low, ps) : Writes(PinWrites(low, ps)[k], p)
  <1> DEFINE nth(i) == CHOOSE p \in ps : Cardinality({q \in ps : q < p}) = i - 1
             s == [i \in 1 .. Cardinality(ps) |-> W(nth(i), PinVal(low, nth(i)))]
  <1>1. ps \in SUBSET Nat /\ IsFiniteSet(ps) BY Given, FS_Subset
  <1>2. Cardinality(ps) \in Nat BY <1>1, Ranks
  <1>3. PinWrites(low, ps) = s BY DEF PinWrites
  <1>4. ASSUME NEW i \in 1 .. Cardinality(ps)
        PROVE  nth(i) \in ps /\ Rank(ps, nth(i)) = i - 1
    <2>1. i - 1 \in 0 .. Cardinality(ps) - 1 BY <1>2, <1>4
    <2>2. \E p \in ps : Rank(ps, p) = i - 1 BY <1>1, <2>1, Ranks
    <2> QED BY <2>2 DEF Rank
  <1>5. \A p \in PortPins : PinVal(low, p) \in {"0", "P"} BY DEF PinVal
  <1> HIDE DEF nth
  <1>6. ASSUME NEW p \in ps PROVE \E i \in 1 .. Cardinality(ps) : nth(i) = p
    <2>1. Rank(ps, p) \in 0 .. Cardinality(ps) - 1 BY <1>1, Ranks
    <2>2. Rank(ps, p) + 1 \in 1 .. Cardinality(ps) /\ Rank(ps, p) + 1 - 1 = Rank(ps, p) BY <1>2, <2>1
    <2>3. PICK k \in 1 .. Cardinality(ps) : k - 1 = Rank(ps, p)
      <3> DEFINE h == Rank(ps, p)
      <3>1. h \in Nat /\ Cardinality(ps) \in Nat /\ h + 1 \in 1 .. Cardinality(ps) BY <1>2, <2>1, <2>2
      <3> HIDE DEF h
      <3>2. \E k \in 1 .. Cardinality(ps) : k - 1 = h BY <3>1
      <3> QED BY <3>2 DEF h
    <2>4. nth(k) \in ps /\ Rank(ps, nth(k)) = Rank(ps, p) BY <1>4, <2>3
    <2>5. \A x, y \in ps : Rank(ps, x) = Rank(ps, y) => x = y BY <1>1, Ranks
    <2>6. nth(k) = p BY <2>4, <2>5
    <2> QED BY <2>6
  <1>7. \A i \in 1 .. Cardinality(ps) :
          /\ s[i] \in PortCommand /\ s[i] # R
          /\ \A p \in PortPins : Writes(s[i], p) <=> p = nth(i)
          /\ s[i].val = PinVal(low, nth(i))
    <2> SUFFICES ASSUME NEW i \in 1 .. Cardinality(ps)
                 PROVE  /\ s[i] \in PortCommand /\ s[i] # R
                        /\ \A p \in PortPins : Writes(s[i], p) <=> p = nth(i)
                        /\ s[i].val = PinVal(low, nth(i))
      OBVIOUS
    <2>1. nth(i) \in Nat /\ PinVal(low, nth(i)) \in {"0", "P"} BY <1>1, <1>4, <1>5
    <2>2. s[i] = W(nth(i), PinVal(low, nth(i))) OBVIOUS
    <2> HIDE DEF s
    <2> QED BY <2>1, <2>2, AWrite
  <1>8. s \in Seq(PortCommand) /\ DOMAIN s = 1 .. Cardinality(ps) BY <1>2, <1>7
  <1> HIDE DEF s
  <1>9. NoQuestion(s) BY <1>7, <1>8 DEF NoQuestion
  <1>10. \A k \in DOMAIN s : \A p \in PortPins : Writes(s[k], p) => p \in ps /\ s[k].val = PinVal(low, p)
    BY <1>4, <1>7, <1>8
  <1>11. \A p \in ps : \E k \in DOMAIN s : Writes(s[k], p) BY <1>6, <1>7, <1>8
  <1> QED BY <1>3, <1>8, <1>9, <1>10, <1>11

\* The first commands pull all pins up.
FirstCommands == [i \in 1 .. Cardinality(PortPins) |-> W(i - 1, "P")]

\* Each pin is among them.
LEMMA FirstFacts ==
  /\ FirstCommands \in Seq(PortCommand) /\ NoQuestion(FirstCommands)
  /\ \A k \in DOMAIN FirstCommands : FirstCommands[k].val = "P"
  /\ \A p \in PortPins : \E k \in DOMAIN FirstCommands : Writes(FirstCommands[k], p)
  <1>1. Cardinality(PortPins) \in Nat BY Given, FS_CardinalityType
  <1>2. \A i \in 1 .. Cardinality(PortPins) : i - 1 \in Nat /\ FirstCommands[i] = W(i - 1, "P")
    BY <1>1 DEF FirstCommands
  <1>3. \A i \in 1 .. Cardinality(PortPins) :
          /\ FirstCommands[i] \in PortCommand /\ FirstCommands[i] # R /\ FirstCommands[i].val = "P"
          /\ Writes(FirstCommands[i], i - 1)
    BY <1>2, AWrite
  <1>4. FirstCommands \in Seq(PortCommand) /\ DOMAIN FirstCommands = 1 .. Cardinality(PortPins)
    <2>1. FirstCommands = [i \in 1 .. Cardinality(PortPins) |-> FirstCommands[i]] BY DEF FirstCommands
    <2> QED BY <1>1, <1>3, <2>1
  <1>5. ASSUME NEW p \in PortPins PROVE \E k \in DOMAIN FirstCommands : Writes(FirstCommands[k], p)
    <2>1. p \in Nat /\ 0 .. p \in SUBSET PortPins /\ IsFiniteSet(PortPins) BY Given
    <2>2. Cardinality(0 .. p) = p + 1
      <3>1. 0 \in Int /\ p \in Int BY <2>1
      <3>2. Cardinality(0 .. p) = IF 0 > p THEN 0 ELSE p - 0 + 1 BY <3>1, FS_Interval
      <3> QED BY <2>1, <3>2
    <2>3. p + 1 <= Cardinality(PortPins)
      <3> DEFINE T == 0 .. p
      <3>1. T \in SUBSET PortPins /\ Cardinality(T) = p + 1 BY <2>1, <2>2
      <3> HIDE DEF T
      <3>2. Cardinality(T) <= Cardinality(PortPins) BY <2>1, <3>1, FS_Subset
      <3> QED BY <3>1, <3>2
    <2>4. p + 1 \in 1 .. Cardinality(PortPins) /\ p + 1 - 1 = p BY <1>1, <2>1, <2>3
    <2>5. PICK k \in 1 .. Cardinality(PortPins) : k - 1 = p BY <1>1, <2>1, <2>4
    <2>6. Writes(FirstCommands[k], p) BY <1>3, <2>5
    <2> QED BY <1>4, <2>6
  <1> QED BY <1>3, <1>4, <1>5 DEF NoQuestion

-----------------------------------------------------------------------------
(* The server *)

\* A step that leaves the port's connection alone, or closes it.
LEMMA Untouched ==
  ASSUME Inv, Shapes', UNCHANGED <<port, last>>, notify'["port"] = {},
         life'["port"] = "new" => life["port"] = "new",
         fd'["port"] \in {fd["port"], 0},
         fd'["port"] # 0 => /\ toServer'["port"] = toServer["port"]
                            /\ toClient'["port"] = toClient["port"]
                            /\ pins'["port"] = pins["port"]
  PROVE  Inv'
  <1>1. Fresh' BY DEF Inv, Fresh
  <1>2. ASSUME fd'["port"] # 0
        PROVE  /\ port' # "stuck"
               /\ Conversation(toServer'["port"], toClient'["port"], port' = "reading")
               /\ \A p \in PortPins : Leads(toServer'["port"], p, pins'["port"][p], last'[p])
    <2>1. fd["port"] # 0 BY <1>2
    <2> QED BY <1>2, <2>1 DEF Inv
  <1> QED BY <1>1, <1>2 DEF Inv

\* Nobody tells the port what it has not asked for.
LEMMA NotTold ==
  ASSUME Inv, fd["port"] # 0, NEW f, NEW out, NEW asked, Resolve(f, out, asked)
  PROVE  /\ "port" \notin asked => toClient'["port"] = toClient["port"]
         /\ "port" \in asked /\ toClient["port"] = <<>> => toClient'["port"] = <<out>>
  <1> DEFINE a == toClient["port"]
  <1>1. ~Told("port", f, out) BY DEF Inv, Told
  <1>2. toClient'["port"] = a \o <<>> \o (IF "port" \in asked THEN <<out>> ELSE <<>>)
    BY <1>1, Given DEF Resolve
  <1>3. a = <<>> \/ \E o : a = <<o>> BY DEF Inv, Conversation
  <1>4. a \o <<>> = a /\ a \o <<>> \o <<>> = a
    <2>1. CASE a = <<>> BY <2>1
    <2>2. ASSUME NEW o, a = <<o>> PROVE a \o <<>> = a
      <3>1. a \in Seq({o}) BY <2>2
      <3> QED BY <3>1, ConcatEmptySeq
    <2> QED BY <1>3, <2>1, <2>2
  <1>5. <<>> \o <<out>> = <<out>>
    <2>1. <<out>> \in Seq({out}) OBVIOUS
    <2> QED BY <2>1, ConcatEmptySeq
  <1>6. "port" \notin asked => toClient'["port"] = a BY <1>2, <1>4
  <1>7. ASSUME "port" \in asked, a = <<>> PROVE toClient'["port"] = <<out>>
    <2>1. toClient'["port"] = a \o <<>> \o <<out>> BY <1>2, <1>7
    <2> QED BY <1>4, <1>5, <1>7, <2>1
  <1> QED BY <1>6, <1>7

\* The pins after a step are a function for each program.
PinsShape(ps) == OfClients(ps) /\ ps["port"] = [p \in Pin |-> ps["port"][p]]

\* The server ends.
LEMMA DownKeeps ==
  ASSUME Inv, NEW how, Down(how), UNCHANGED <<life, port, last>>
  PROVE  Inv'
  <1>1. /\ fd' = [c \in Client |-> 0] /\ toServer' = [c \in Client |-> <<>>]
        /\ UNCHANGED <<pins, notify, toClient>>
    BY DEF Down
  <1>2. fd'["port"] = 0 /\ toServer'["port"] = <<>> BY <1>1, Given
  <1>3. OfClients(fd)' /\ OfClients(toServer)' BY <1>1 DEF OfClients
  <1>4. Shapes'
    <2>1. toServer'["port"] \in Seq(PortCommand)
      <3>1. <<>> \in Seq(PortCommand) OBVIOUS
      <3> QED BY <1>2, <3>1
    <2>2. /\ OfClients(pins)' /\ OfClients(notify)' /\ OfClients(toClient)' /\ OfClients(life)'
          /\ (pins["port"] = [p \in Pin |-> pins["port"][p]])' /\ (last = [p \in PortPins |-> last[p]])'
          /\ port' \in {"idle", "reading", "stuck"}
      BY <1>1 DEF Inv, Shapes, OfClients
    <2> QED BY <1>3, <2>1, <2>2 DEF Shapes
  <1>5. notify'["port"] = {} /\ fd'["port"] \in {fd["port"], 0} BY <1>1, <1>2 DEF Inv
  <1> QED BY <1>2, <1>4, <1>5, Untouched

\* A connection is closed.
LEMMA CloseKeeps ==
  ASSUME Inv, NEW c \in Client, NEW ps, PinsShape(ps), c # "port" => ps["port"] = pins["port"],
         handle_close(c, ps), UNCHANGED <<life, port, last>>
  PROVE  Inv'
  <1> DEFINE left == [fd EXCEPT ![c] = 0]
  <1>1. CASE Down("crashed") BY <1>1, DownKeeps
  <1>2. CASE ~Down("crashed")
    <2>1. PICK out \in {Levels(left, ps)} :
            /\ fd' = left /\ toServer' = [toServer EXCEPT ![c] = <<>>] /\ pins' = ps
            /\ Resolve(left, out, {}) /\ UNCHANGED <<state, notify>>
      BY <1>2 DEF handle_close
    <2>2. OfClients(fd) /\ OfClients(toServer) /\ toServer["port"] \in Seq(PortCommand) BY DEF Inv, Shapes
    <2>3. /\ OfClients(fd)' /\ OfClients(toServer)' /\ toServer'["port"] \in Seq(PortCommand)
          /\ c = "port" => fd'["port"] = 0
          /\ c # "port" => fd'["port"] = fd["port"] /\ toServer'["port"] = toServer["port"]
      <3>1. OfClients(fd)' /\ OfClients(toServer)' BY <2>1, <2>2 DEF OfClients
      <3>2. CASE c = "port"
        <4>1. fd'["port"] = 0 /\ toServer'["port"] = <<>> BY <2>1, <2>2, <3>2, Given DEF OfClients
        <4> QED BY <3>1, <3>2, <4>1
      <3>3. CASE c # "port" BY <2>1, <2>2, <3>1, <3>3, Given DEF OfClients
      <3> QED BY <3>2, <3>3
    <2>4. OfClients(toClient)' BY <2>1 DEF Resolve, OfClients
    <2>5. Shapes' BY <2>1, <2>3, <2>4 DEF Inv, Shapes, OfClients, PinsShape
    <2>6. ASSUME fd'["port"] # 0
          PROVE  /\ toServer'["port"] = toServer["port"]
                 /\ toClient'["port"] = toClient["port"]
                 /\ pins'["port"] = pins["port"]
      <3>1. c # "port" /\ fd["port"] # 0 BY <2>3, <2>6
      <3> QED BY <2>1, <2>3, <3>1, NotTold
    <2>7. notify'["port"] = {} /\ fd'["port"] \in {fd["port"], 0} BY <2>1, <2>3 DEF Inv
    <2> QED BY <2>5, <2>6, <2>7, Untouched
  <1> QED BY <1>1, <1>2

\* A command of another program.
LEMMA OthersKeep ==
  ASSUME Inv, NEW c \in Client, c # "port", NEW ps, PinsShape(ps), ps["port"] = pins["port"],
         NEW asked \in {{}, {c}}, Resolved(c, ps, asked), UNCHANGED <<life, port, last>>
  PROVE  Inv'
  <1>1. CASE handle_close(c, ps) BY <1>1, CloseKeeps
  <1>2. CASE ~handle_close(c, ps)
    <2>1. PICK out \in {Levels(fd, ps)} :
            /\ toServer' = [toServer EXCEPT ![c] = Tail(@)] /\ pins' = ps
            /\ Resolve(fd, out, asked) /\ UNCHANGED <<state, fd, notify>>
      BY <1>2 DEF Resolved
    <2>2. OfClients(toServer)' /\ toServer'["port"] = toServer["port"]
      BY <2>1, Given DEF Inv, Shapes, OfClients
    <2>3. OfClients(toClient)' BY <2>1 DEF Resolve, OfClients
    <2>4. Shapes' BY <2>1, <2>2, <2>3 DEF Inv, Shapes, OfClients, PinsShape
    <2>5. fd'["port"] # 0 => toClient'["port"] = toClient["port"] BY <2>1, NotTold
    <2>6. notify'["port"] = {} /\ fd'["port"] = fd["port"] /\ pins'["port"] = pins["port"] BY <2>1 DEF Inv
    <2> QED BY <2>2, <2>4, <2>5, <2>6, Untouched
  <1> QED BY <1>1, <1>2

\* A command of the port.
LEMMA PortServed ==
  ASSUME Inv, toServer["port"] # <<>>, NEW ps, PinsShape(ps), NEW asked \in {{}, {"port"}},
         LET m == Head(toServer["port"])
         IN /\ m = R <=> asked = {"port"}
            /\ \A p \in PortPins : ps["port"][p] = IF Writes(m, p) THEN m.val ELSE pins["port"][p],
         Resolved("port", ps, asked), UNCHANGED <<life, port, last>>
  PROVE  Inv'
  <1> DEFINE q == toServer["port"]
             m == Head(q)
  <1>1. CASE handle_close("port", ps) BY <1>1, CloseKeeps, Given
  <1>2. CASE ~handle_close("port", ps)
    <2>1. PICK out \in {Levels(fd, ps)} :
            /\ toServer' = [toServer EXCEPT !["port"] = Tail(@)] /\ pins' = ps
            /\ Resolve(fd, out, asked) /\ UNCHANGED <<state, fd, notify>>
      BY <1>2 DEF Resolved
    <2>2. q \in Seq(PortCommand) /\ q # <<>> BY DEF Inv, Shapes
    <2>3. OfClients(toServer)' /\ toServer'["port"] = Tail(q) BY <2>1, Given DEF Inv, Shapes, OfClients
    <2>4. OfClients(toClient)' BY <2>1 DEF Resolve, OfClients
    <2>5. Tail(q) \in Seq(PortCommand) BY <2>2, FirstDone
    <2>6. Shapes'
      <3>1. /\ OfClients(fd)' /\ OfClients(notify)' /\ OfClients(life)' /\ (last = [p \in PortPins |-> last[p]])'
            /\ port' \in {"idle", "reading", "stuck"}
        BY <2>1 DEF Inv, Shapes, OfClients
      <3>2. OfClients(pins)' /\ (pins["port"] = [p \in Pin |-> pins["port"][p]])'
        BY <2>1 DEF OfClients, PinsShape
      <3> QED BY <2>3, <2>4, <2>5, <3>1, <3>2 DEF Shapes
    <2>7. Fresh' BY <2>1 DEF Inv, Fresh
    <2>8. ASSUME fd'["port"] # 0
          PROVE  /\ port' # "stuck"
                 /\ Conversation(toServer'["port"], toClient'["port"], port' = "reading")
                 /\ \A p \in PortPins : Leads(toServer'["port"], p, pins'["port"][p], last'[p])
      <3>1. /\ fd["port"] # 0 /\ port # "stuck" /\ Conversation(q, toClient["port"], port = "reading")
            /\ \A p \in PortPins : Leads(q, p, pins["port"][p], last[p])
        BY <2>1, <2>8 DEF Inv
      <3>2. Conversation(Tail(q), toClient'["port"], port = "reading")
        <4>0. (port = "reading") \in BOOLEAN OBVIOUS
        <4>1. CASE m # R
          <5>1. "port" \notin asked BY <4>1
          <5>2. toClient'["port"] = toClient["port"] BY <2>1, <3>1, <5>1, NotTold
          <5>3. Conversation(Tail(q), toClient["port"], port = "reading") BY <2>2, <3>1, <4>0, <4>1, TalkFirst
          <5> QED BY <5>2, <5>3
        <4>2. CASE m = R
          <5>1. port = "reading" /\ toClient["port"] = <<>> /\ NoQuestion(Tail(q)) BY <2>2, <3>1, <4>0, <4>2, TalkFirst
          <5>2. "port" \in asked BY <4>2
          <5>3. toClient'["port"] = <<out>> BY <2>1, <3>1, <5>1, <5>2, NotTold
          <5> QED BY <5>1, <5>3 DEF Conversation
        <4> QED BY <4>1, <4>2
      <3>3. ASSUME NEW p \in PortPins PROVE Leads(Tail(q), p, ps["port"][p], last[p])
        <4>1. Leads(Tail(q), p, IF Writes(m, p) THEN m.val ELSE pins["port"][p], last[p])
          BY <2>2, <3>1, <3>3, LeadsFirst
        <4> QED BY <4>1
      <3> QED BY <2>1, <2>3, <3>1, <3>2, <3>3
    <2>9. notify'["port"] = {} BY <2>1 DEF Inv
    <2> QED BY <2>6, <2>7, <2>8, <2>9 DEF Inv
  <1> QED BY <1>1, <1>2

\* The server does a command of the port, which it has from the port only.
LEMMA PortTerminator ==
  ASSUME Inv, found_terminator("port"), UNCHANGED <<life, port, last>>
  PROVE  Inv'
  <1> DEFINE m == Head(toServer["port"])
  <1>1. toServer["port"] # <<>> /\ toServer["port"] \in Seq(PortCommand) BY DEF found_terminator, Inv, Shapes
  <1>2. m \in PortCommand BY <1>1, FirstDone
  <1> HIDE DEF m
  <1>3. R.cmd = "R" /\ PinsShape(pins) BY DEF R, Inv, Shapes, PinsShape
  <1>4. CASE m = R
    <2>1. Resolved("port", pins, {"port"}) BY <1>3, <1>4 DEF found_terminator, m
    <2>2. \A p \in PortPins : ~Writes(m, p) BY <1>3, <1>4 DEF Writes
    <2>3. LET n == Head(toServer["port"])
          IN /\ n = R <=> {"port"} = {"port"}
             /\ \A p \in PortPins : pins["port"][p] = IF Writes(n, p) THEN n.val ELSE pins["port"][p]
      BY <1>4, <2>2 DEF m
    <2> QED BY <1>1, <1>3, <2>1, <2>3, PortServed
  <1>5. CASE m # R
    <2> DEFINE ps == [pins EXCEPT !["port"][m.pin] = m.val]
    <2>1. m.cmd = "W" BY <1>2, <1>5 DEF PortCommand
    <2>2. Resolved("port", ps, {}) BY <2>1 DEF found_terminator, m
    <2>3. PinsShape(ps) BY <1>3, Given DEF PinsShape, OfClients
    <2>4. \A p \in PortPins : ps["port"][p] = IF Writes(m, p) THEN m.val ELSE pins["port"][p]
      BY <1>3, <2>1, Given DEF PinsShape, OfClients, Writes
    <2> HIDE DEF ps
    <2>5. LET n == Head(toServer["port"])
          IN /\ n = R <=> {} = {"port"}
             /\ \A p \in PortPins : ps["port"][p] = IF Writes(n, p) THEN n.val ELSE pins["port"][p]
      BY <1>5, <2>4 DEF m
    <2> QED BY <1>1, <2>2, <2>3, <2>5, PortServed
  <1> QED BY <1>4, <1>5

\* The server does a command of another program.
LEMMA OtherTerminator ==
  ASSUME Inv, NEW c \in Client, c # "port", found_terminator(c), UNCHANGED <<life, port, last>>
  PROVE  Inv'
  <1> DEFINE m == Head(toServer[c])
             ps == [pins EXCEPT ![c][m.pin] = m.val]
  <1>1. PinsShape(pins) BY DEF Inv, Shapes, PinsShape
  <1>2. PinsShape(ps) /\ ps["port"] = pins["port"] BY <1>1, Given DEF PinsShape, OfClients
  <1>3. CASE Resolved(c, ps, {})
    <2> HIDE DEF ps
    <2> QED BY <1>2, <1>3, OthersKeep
  <1>4. CASE Resolved(c, pins, {c}) BY <1>1, <1>4, OthersKeep
  <1>5. CASE /\ notify' = [notify EXCEPT ![c] = @ \cup {m.pin}]
             /\ toServer' = [toServer EXCEPT ![c] = Tail(@)]
             /\ UNCHANGED <<fd, pins, toClient>>
    <2>1. OfClients(notify)' /\ notify'["port"] = {} BY <1>5, Given DEF Inv, Shapes, OfClients
    <2>2. OfClients(toServer)' /\ toServer'["port"] = toServer["port"] BY <1>5, Given DEF Inv, Shapes, OfClients
    <2>3. Shapes' BY <1>5, <2>1, <2>2 DEF Inv, Shapes, OfClients
    <2> QED BY <1>5, <2>1, <2>2, <2>3, Untouched
  <1>6. CASE handle_close(c, pins) BY <1>1, <1>6, CloseKeeps
  <1> QED BY <1>3, <1>4, <1>5, <1>6 DEF found_terminator

-----------------------------------------------------------------------------
(* The programs *)

\* A connection is accepted: one program's part of the state is set anew.
LEMMA Accepted ==
  ASSUME Shapes, NEW c \in Client, NEW commands, Accept(c, commands)
  PROVE  /\ OfClients(fd)' /\ OfClients(pins)' /\ OfClients(notify)' /\ OfClients(toServer)' /\ OfClients(toClient)'
         /\ pins'[c] = AllX /\ notify'[c] = {} /\ toServer'[c] = commands /\ toClient'[c] = <<>>
         /\ \A d \in Client \ {c} :
              /\ fd'[d] = fd[d] /\ pins'[d] = pins[d] /\ notify'[d] = notify[d]
              /\ toServer'[d] = toServer[d] /\ toClient'[d] = toClient[d]
  <1>1. PICK n : fd' = [fd EXCEPT ![c] = n] BY DEF Accept
  <1>2. OfClients(fd)' /\ \A d \in Client \ {c} : fd'[d] = fd[d] BY <1>1 DEF Shapes, OfClients
  <1>3. /\ pins' = [pins EXCEPT ![c] = AllX] /\ notify' = [notify EXCEPT ![c] = {}]
        /\ toServer' = [toServer EXCEPT ![c] = commands] /\ toClient' = [toClient EXCEPT ![c] = <<>>]
    BY DEF Accept
  <1>4. OfClients(pins)' /\ pins'[c] = AllX /\ \A d \in Client \ {c} : pins'[d] = pins[d]
    BY <1>3 DEF Shapes, OfClients
  <1>5. OfClients(notify)' /\ notify'[c] = {} /\ \A d \in Client \ {c} : notify'[d] = notify[d]
    BY <1>3 DEF Shapes, OfClients
  <1>6. OfClients(toServer)' /\ toServer'[c] = commands /\ \A d \in Client \ {c} : toServer'[d] = toServer[d]
    BY <1>3 DEF Shapes, OfClients
  <1>7. OfClients(toClient)' /\ toClient'[c] = <<>> /\ \A d \in Client \ {c} : toClient'[d] = toClient[d]
    BY <1>3 DEF Shapes, OfClients
  <1> QED BY <1>2, <1>4, <1>5, <1>6, <1>7

\* Another program starts.
LEMMA OtherStarts ==
  ASSUME Inv, NEW c \in Client, c # "port", NEW commands, Starts(c, commands), UNCHANGED <<port, last>>
  PROVE  Inv'
  <1>1. Shapes BY DEF Inv
  <1>2. OfClients(life)' /\ life'["port"] = life["port"] BY <1>1, Given DEF Starts, Shapes, OfClients
  <1>3. CASE Accept(c, commands)
    <2>1. /\ OfClients(fd)' /\ fd'["port"] = fd["port"]
          /\ OfClients(pins)' /\ pins'["port"] = pins["port"]
          /\ OfClients(notify)' /\ notify'["port"] = notify["port"]
          /\ OfClients(toServer)' /\ toServer'["port"] = toServer["port"]
          /\ OfClients(toClient)' /\ toClient'["port"] = toClient["port"]
      BY <1>1, <1>3, Given, Accepted
    <2>2. Shapes' BY <1>1, <1>2, <2>1 DEF Shapes
    <2>3. notify'["port"] = {} BY <2>1 DEF Inv
    <2> QED BY <1>2, <2>1, <2>2, <2>3, Untouched
  <1>4. CASE UNCHANGED panel
    <2>1. UNCHANGED <<fd, pins, notify, toServer, toClient>> BY <1>4 DEF panel, server
    <2>2. Shapes' BY <1>1, <1>2, <2>1 DEF Shapes, OfClients
    <2>3. notify'["port"] = {} BY <2>1 DEF Inv
    <2> QED BY <1>2, <2>1, <2>2, <2>3, Untouched
  <1> QED BY <1>3, <1>4 DEF Starts

\* It sends, or ends.
LEMMA OtherSends ==
  ASSUME Inv, NEW c \in Client, c # "port", NEW commands, Sends(c, commands),
         life' = life \/ life' = [life EXCEPT ![c] = "over"], UNCHANGED <<port, last>>
  PROVE  Inv'
  <1>1. Shapes BY DEF Inv
  <1>2. OfClients(life)' /\ life'["port"] = life["port"] BY <1>1, Given DEF Shapes, OfClients
  <1>3. /\ OfClients(toServer)' /\ toServer'["port"] = toServer["port"]
        /\ UNCHANGED <<fd, pins, notify, toClient>>
    BY <1>1, Given DEF Sends, Send, Shapes, OfClients, panel, server
  <1>4. Shapes' BY <1>1, <1>2, <1>3 DEF Shapes, OfClients
  <1>5. notify'["port"] = {} BY <1>3 DEF Inv
  <1> QED BY <1>2, <1>3, <1>4, <1>5, Untouched

\* It takes what it was sent.
LEMMA OtherTakes ==
  ASSUME Inv, NEW c \in Client, c # "port", Taken(c), UNCHANGED <<life, port, last>>
  PROVE  Inv'
  <1>1. Shapes BY DEF Inv
  <1>2. /\ OfClients(toClient)' /\ toClient'["port"] = toClient["port"]
        /\ UNCHANGED <<fd, pins, notify, toServer>>
    BY <1>1, Given DEF Taken, Shapes, OfClients, server
  <1>3. Shapes' BY <1>1, <1>2 DEF Shapes, OfClients
  <1>4. notify'["port"] = {} BY <1>2 DEF Inv
  <1> QED BY <1>2, <1>3, <1>4, Untouched

\* The port starts: all its pins are P, or will be.
LEMMA PortInitKeeps ==
  ASSUME Inv, PortInit
  PROVE  Inv'
  <1>1. Shapes /\ Fresh BY DEF Inv
  <1>2. Starts("port", FirstCommands) /\ UNCHANGED <<port, last>> BY DEF PortInit, FirstCommands, gpio
  <1>3. life["port"] = "new" /\ port = "idle" /\ \A p \in PortPins : last[p] = "P" BY <1>1, <1>2 DEF Starts, Fresh
  <1>4. OfClients(life)' /\ life'["port"] # "new" BY <1>1, <1>2, Given DEF Starts, Shapes, OfClients
  <1>5. CASE Accept("port", FirstCommands)
    <2>1. /\ OfClients(fd)' /\ OfClients(pins)' /\ OfClients(notify)' /\ OfClients(toServer)' /\ OfClients(toClient)'
          /\ pins'["port"] = AllX /\ notify'["port"] = {} /\ toServer'["port"] = FirstCommands
          /\ toClient'["port"] = <<>>
      BY <1>1, <1>5, Given, Accepted
    <2>2. (pins["port"] = [p \in Pin |-> pins["port"][p]])' BY <2>1 DEF AllX
    <2>3. Shapes' BY <1>1, <1>2, <1>4, <2>1, <2>2, FirstFacts DEF Shapes
    <2>4. Fresh' BY <1>4 DEF Fresh
    <2>5. Conversation(toServer'["port"], toClient'["port"], port' = "reading")
      BY <1>2, <1>3, <2>1, FirstFacts DEF Conversation
    <2>6. \A p \in PortPins : Leads(toServer'["port"], p, pins'["port"][p], last'[p])
      BY <1>2, <1>3, <2>1, FirstFacts DEF Leads
    <2>7. port' # "stuck" BY <1>2, <1>3
    <2> QED BY <2>1, <2>3, <2>4, <2>5, <2>6, <2>7 DEF Inv
  <1>6. CASE UNCHANGED panel
    <2>1. UNCHANGED <<fd, pins, notify, toServer, toClient>> BY <1>6 DEF panel, server
    <2>2. Shapes' BY <1>1, <1>2, <1>4, <2>1 DEF Shapes, OfClients
    <2>3. notify'["port"] = {} BY <2>1 DEF Inv
    <2> QED BY <1>2, <1>4, <2>1, <2>2, <2>3, Untouched
  <1> QED BY <1>2, <1>5, <1>6 DEF Starts

\* The port without a connection: it never gets another.
LEMMA PortAlone ==
  ASSUME Inv, fd["port"] = 0, UNCHANGED <<fd, pins, notify, toServer>>, OfClients(toClient)',
         OfClients(life)', life'["port"] # "new",
         last' = [p \in PortPins |-> last'[p]], port' \in {"idle", "reading", "stuck"}
  PROVE  Inv'
  <1>1. Shapes' BY DEF Inv, Shapes, OfClients
  <1>2. Fresh' BY DEF Fresh
  <1>3. notify'["port"] = {} /\ fd'["port"] = 0 BY DEF Inv
  <1> QED BY <1>1, <1>2, <1>3 DEF Inv

\* The guest writes to the port: what has changed is sent, and remembered.
LEMMA GuestWritesKeeps ==
  ASSUME Inv, NEW low, GuestWrites(low)
  PROVE  Inv'
  <1> DEFINE changed == {p \in PortPins : PinVal(low, p) # last[p]}
             s == PinWrites(low, changed)
             q == toServer["port"]
  <1>1. Shapes /\ Fresh BY DEF Inv
  <1>2. port = "idle" /\ life["port"] # "new" /\ UNCHANGED port BY DEF GuestWrites
  <1>3. OfClients(life)' /\ life'["port"] # "new" /\ (fd["port"] # 0 => UNCHANGED life)
    BY <1>1, <1>2, Given DEF GuestWrites, Shapes, OfClients
  <1>4. CASE ~Open("port")
    <2>1. UNCHANGED <<fd, pins, notify, toServer, toClient, life, last>> BY <1>4 DEF GuestWrites, panel, server
    <2>2. Shapes' BY <1>1, <1>2, <2>1 DEF Shapes, OfClients
    <2>3. notify'["port"] = {} BY <2>1 DEF Inv
    <2> QED BY <1>2, <2>1, <2>2, <2>3, Untouched
  <1>5. CASE Open("port")
    <2>1. Sends("port", s) /\ last' = Remembered(low) BY <1>5 DEF GuestWrites
    <2>2. last' = [p \in PortPins |-> PinVal(low, p)] BY <2>1 DEF Remembered
    <2>3. last' = [p \in PortPins |-> last'[p]] BY <2>2
    <2>4. CASE fd["port"] = 0
      <3>1. UNCHANGED <<fd, pins, notify, toServer, toClient>> BY <2>1, <2>4 DEF Sends, panel, server
      <3>2. OfClients(toClient)' /\ port' \in {"idle", "reading", "stuck"} BY <1>1, <1>2, <3>1 DEF Shapes, OfClients
      <3> QED BY <1>3, <2>3, <2>4, <3>1, <3>2, PortAlone
    <2>5. CASE fd["port"] # 0
      <3>1. toServer' = [toServer EXCEPT !["port"] = @ \o s] /\ UNCHANGED <<fd, pins, notify, toClient, life>>
        BY <1>3, <2>1, <2>5 DEF Sends, Send, server
      <3>2. /\ q \in Seq(PortCommand) /\ port # "stuck" /\ Conversation(q, toClient["port"], port = "reading")
            /\ \A p \in PortPins : Leads(q, p, pins["port"][p], last[p])
        BY <1>1, <2>5 DEF Inv, Shapes
      <3>3. /\ s \in Seq(PortCommand) /\ NoQuestion(s)
            /\ \A k \in DOMAIN s : \A p \in PortPins : Writes(s[k], p) => p \in changed /\ s[k].val = PinVal(low, p)
            /\ \A p \in changed : \E k \in DOMAIN s : Writes(s[k], p)
        <4>1. changed \in SUBSET PortPins OBVIOUS
        <4> HIDE DEF changed
        <4> QED BY <4>1, PinWritesFacts
      <3>4. OfClients(toServer)' /\ toServer'["port"] = q \o s BY <1>1, <3>1, Given DEF Shapes, OfClients
      <3> HIDE DEF s
      <3>5. q \o s \in Seq(PortCommand) BY <3>2, <3>3, Joined
      <3>6. Conversation(q \o s, toClient["port"], port = "reading")
        <4>1. (port = "reading") \in BOOLEAN OBVIOUS
        <4> QED BY <3>2, <3>3, <4>1, TalkMore
      <3>7. ASSUME NEW p \in PortPins PROVE Leads(q \o s, p, pins["port"][p], last'[p])
        <4>1. last'[p] = PinVal(low, p) BY <2>2
        <4>2. CASE p \in changed
          <5>1. (\E k \in DOMAIN s : Writes(s[k], p)) /\ (\A k \in DOMAIN s : Writes(s[k], p) => s[k].val = last'[p])
            BY <3>3, <4>1, <4>2
          <5> QED BY <3>2, <3>3, <5>1, LeadsMore
        <4>3. CASE p \notin changed
          <5>1. last'[p] = last[p] BY <4>1, <4>3
          <5>2. \A k \in DOMAIN s : ~Writes(s[k], p) BY <3>3, <4>3
          <5>3. Leads(q, p, pins["port"][p], last[p]) BY <3>2
          <5>4. Leads(q \o s, p, pins["port"][p], last[p]) BY <3>2, <3>3, <5>2, <5>3, LeadsMore
          <5> QED BY <5>1, <5>4
        <4> QED BY <4>2, <4>3
      <3>8. Shapes' BY <1>1, <1>2, <2>3, <3>1, <3>4, <3>5 DEF Shapes, OfClients
      <3>9. Fresh' /\ notify'["port"] = {} BY <1>3, <3>1 DEF Fresh, Inv
      <3> QED BY <1>2, <3>1, <3>2, <3>4, <3>6, <3>7, <3>8, <3>9 DEF Inv
    <2> QED BY <2>4, <2>5
  <1> QED BY <1>4, <1>5

\* The guest reads: the question is added to what is under way.
LEMMA GuestReadsKeeps ==
  ASSUME Inv, GuestReads
  PROVE  Inv'
  <1> DEFINE q == toServer["port"]
             s == <<R>>
  <1>1. Shapes /\ Fresh BY DEF Inv
  <1>2. port = "idle" /\ life["port"] # "new" /\ UNCHANGED last BY DEF GuestReads
  <1>3. port' \in {"idle", "reading", "stuck"} /\ last' = [p \in PortPins |-> last'[p]]
    BY <1>1, <1>2 DEF GuestReads, Shapes
  <1>4. OfClients(life)' /\ life'["port"] # "new"
    BY <1>1, <1>2, Given DEF GuestReads, Shapes, OfClients
  <1>5. CASE ~Open("port")
    <2>1. UNCHANGED <<fd, pins, notify, toServer, toClient, life, port>> BY <1>5 DEF GuestReads, panel, server
    <2>2. Shapes' BY <1>1, <1>2, <2>1 DEF Shapes, OfClients
    <2>3. notify'["port"] = {} BY <2>1 DEF Inv
    <2> QED BY <1>2, <2>1, <2>2, <2>3, Untouched
  <1>6. CASE Open("port") /\ fd["port"] = 0
    <2>1. UNCHANGED <<fd, pins, notify, toServer, toClient>> BY <1>6 DEF GuestReads, Sends, panel, server
    <2>2. OfClients(toClient)' BY <1>1, <2>1 DEF Shapes, OfClients
    <2> QED BY <1>3, <1>4, <1>6, <2>1, <2>2, PortAlone
  <1>7. CASE Open("port") /\ fd["port"] # 0
    <2>1. Sends("port", s) /\ port' = "reading" /\ UNCHANGED life BY <1>7 DEF GuestReads
    <2>2. toServer' = [toServer EXCEPT !["port"] = @ \o s] /\ UNCHANGED <<fd, pins, notify, toClient>>
      BY <1>7, <2>1 DEF Sends, Send, server
    <2>3. /\ q \in Seq(PortCommand) /\ Conversation(q, toClient["port"], FALSE)
          /\ \A p \in PortPins : Leads(q, p, pins["port"][p], last[p])
      BY <1>1, <1>2, <1>7 DEF Inv, Shapes
    <2>4. s \in Seq(PortCommand) BY DEF PortCommand
    <2>5. \A k \in DOMAIN s : \A p \in PortPins : ~Writes(s[k], p)
      <3>1. R.cmd = "R" BY DEF R
      <3>2. DOMAIN s = {1} /\ s[1] = R OBVIOUS
      <3> QED BY <3>1, <3>2 DEF Writes
    <2>6. OfClients(toServer)' /\ toServer'["port"] = q \o s BY <1>1, <2>2, Given DEF Shapes, OfClients
    <2>7. s = <<R>> OBVIOUS
    <2> HIDE DEF s
    <2>8. q \o s \in Seq(PortCommand) BY <2>3, <2>4, Joined
    <2>9. Conversation(q \o s, toClient["port"], TRUE) BY <2>3, <2>4, <2>7, TalkMore
    <2>10. ASSUME NEW p \in PortPins PROVE Leads(q \o s, p, pins["port"][p], last[p])
      <3>1. Leads(q, p, pins["port"][p], last[p]) /\ \A k \in DOMAIN s : ~Writes(s[k], p) BY <2>3, <2>5
      <3> QED BY <2>3, <2>4, <3>1, LeadsMore
    <2>11. Shapes' BY <1>1, <1>3, <2>1, <2>2, <2>6, <2>8 DEF Shapes, OfClients
    <2>12. Fresh' /\ notify'["port"] = {} BY <1>4, <2>2 DEF Fresh, Inv
    <2>13. Conversation(toServer'["port"], toClient'["port"], port' = "reading") BY <2>1, <2>2, <2>6, <2>9
    <2>14. \A p \in PortPins : Leads(toServer'["port"], p, pins'["port"][p], last'[p])
      BY <1>2, <2>2, <2>6, <2>10
    <2> QED BY <2>1, <2>11, <2>12, <2>13, <2>14 DEF Inv
  <1> QED BY <1>5, <1>6, <1>7

\* The guest gets its answer, or the end of the connection.
LEMMA PortGetsKeeps ==
  ASSUME Inv, PortGets
  PROVE  Inv'
  <1>1. Shapes /\ Fresh BY DEF Inv
  <1>2. port = "reading" /\ UNCHANGED last BY DEF PortGets
  <1>3. life["port"] # "new" BY <1>1, <1>2 DEF Fresh
  <1>4. last' = [p \in PortPins |-> last'[p]] BY <1>1, <1>2 DEF Shapes
  <1>5. CASE Taken("port") /\ port' = "idle" /\ UNCHANGED life
    <2>1. /\ toClient' = [toClient EXCEPT !["port"] = Tail(@)] /\ toClient["port"] # <<>>
          /\ UNCHANGED <<fd, pins, notify, toServer>>
      BY <1>5 DEF Taken, server
    <2>2. OfClients(toClient)' /\ toClient'["port"] = Tail(toClient["port"])
      BY <1>1, <2>1, Given DEF Shapes, OfClients
    <2>3. OfClients(life)' BY <1>1, <1>5 DEF Shapes, OfClients
    <2>4. CASE fd["port"] = 0
      <3>1. port' \in {"idle", "reading", "stuck"} /\ life'["port"] # "new" BY <1>3, <1>5
      <3> QED BY <1>4, <2>1, <2>2, <2>3, <2>4, <3>1, PortAlone
    <2>5. CASE fd["port"] # 0
      <3>1. /\ Conversation(toServer["port"], toClient["port"], TRUE)
            /\ \A p \in PortPins : Leads(toServer["port"], p, pins["port"][p], last[p])
        BY <1>2, <2>5 DEF Inv
      <3>2. PICK out : toClient["port"] = <<out>> BY <2>1, <3>1 DEF Conversation
      <3>3. NoQuestion(toServer["port"]) BY <2>1, <3>1 DEF Conversation
      <3>4. toClient'["port"] = <<>>
        <4>1. Tail(<<out>>) = <<>> OBVIOUS
        <4> QED BY <2>2, <3>2, <4>1
      <3>5. Conversation(toServer'["port"], toClient'["port"], port' = "reading")
        BY <1>5, <2>1, <3>3, <3>4 DEF Conversation
      <3>6. Shapes' BY <1>1, <1>4, <1>5, <2>1, <2>2, <2>3 DEF Shapes, OfClients
      <3>7. Fresh' /\ notify'["port"] = {} BY <1>3, <1>5, <2>1 DEF Fresh, Inv
      <3>8. \A p \in PortPins : Leads(toServer'["port"], p, pins'["port"][p], last'[p]) BY <1>2, <2>1, <3>1
      <3> QED BY <1>5, <3>5, <3>6, <3>7, <3>8 DEF Inv
    <2> QED BY <2>4, <2>5
  <1>6. CASE Hungup("port") /\ port' = "stuck" /\ life' = [life EXCEPT !["port"] = "over"] /\ UNCHANGED panel
    <2>1. fd["port"] = 0 /\ UNCHANGED <<fd, pins, notify, toServer, toClient>> BY <1>6 DEF Hungup, panel, server
    <2>2. OfClients(toClient)' /\ OfClients(life)' /\ life'["port"] # "new"
      BY <1>1, <1>6, <2>1, Given DEF Shapes, OfClients
    <2> QED BY <1>4, <1>6, <2>1, <2>2, PortAlone
  <1> QED BY <1>5, <1>6 DEF PortGets

-----------------------------------------------------------------------------
(* The theorems *)

\* At the start nothing is connected.
LEMMA InitInv == Init => Inv
  <1> SUFFICES ASSUME Init PROVE Inv OBVIOUS
  <1>1. /\ fd = [c \in Client |-> 0] /\ pins = [c \in Client |-> AllX] /\ notify = [c \in Client |-> {}]
        /\ toServer = [c \in Client |-> <<>>] /\ toClient = [c \in Client |-> <<>>]
        /\ life = [c \in Client |-> "new"] /\ last = [p \in PortPins |-> "P"] /\ port = "idle"
    BY DEF Init, PanelInit
  <1>2. /\ OfClients(fd) /\ OfClients(pins) /\ OfClients(notify)
        /\ OfClients(toServer) /\ OfClients(toClient) /\ OfClients(life)
    BY <1>1 DEF OfClients
  <1>3. fd["port"] = 0 /\ pins["port"] = AllX /\ notify["port"] = {} /\ toServer["port"] = <<>>
    BY <1>1, Given
  <1>4. <<>> \in Seq(PortCommand) OBVIOUS
  <1>5. pins["port"] = [p \in Pin |-> pins["port"][p]] BY <1>3 DEF AllX
  <1>6. last = [p \in PortPins |-> last[p]] /\ \A p \in PortPins : last[p] = "P" BY <1>1
  <1>7. Shapes BY <1>1, <1>2, <1>3, <1>4, <1>5, <1>6 DEF Shapes
  <1>8. Fresh BY <1>1, <1>3, <1>6 DEF Fresh
  <1> QED BY <1>3, <1>7, <1>8 DEF Inv

\* Every step keeps the invariant.
LEMMA NextInv == Inv /\ [Next]_vars => Inv'
  <1> SUFFICES ASSUME Inv, [Next]_vars PROVE Inv' OBVIOUS
  <1>1. CASE PortInit BY <1>1, PortInitKeeps
  <1>2. ASSUME NEW low \in GuestRegs, GuestWrites(low) PROVE Inv' BY <1>2, GuestWritesKeeps
  <1>3. CASE GuestReads BY <1>3, GuestReadsKeeps
  <1>4. CASE PortGets BY <1>4, PortGetsKeeps
  <1>5. CASE ButtonStarts
    <2>1. Starts("button", <<W(BUTTON_PIN, "P")>>) /\ UNCHANGED <<port, last>> BY <1>5 DEF ButtonStarts, gpio
    <2> QED BY <2>1, Given, OtherStarts
  <1>6. CASE say_cb
    <2>1. PICK commands : Sends("button", commands) BY <1>6 DEF say_cb
    <2>2. UNCHANGED <<life, port, last>> BY <1>6 DEF say_cb, gpio
    <2> QED BY <2>1, <2>2, Given, OtherSends
  <1>7. CASE ButtonQuits
    <2>1. Sends("button", <<Bye>>) /\ life' = [life EXCEPT !["button"] = "over"] /\ UNCHANGED <<port, last>>
      BY <1>7 DEF ButtonQuits, gpio
    <2> QED BY <2>1, Given, OtherSends
  <1>8. CASE LedStarts
    <2>1. Starts("led", Subscription(1)) /\ UNCHANGED <<port, last>> BY <1>8 DEF LedStarts, gpio
    <2> QED BY <2>1, Given, OtherStarts
  <1>9. CASE LedUpdated
    <2>1. Taken("led") /\ UNCHANGED <<life, port, last>> BY <1>9 DEF LedUpdated, gpio
    <2> QED BY <2>1, Given, OtherTakes
  <1>10. CASE WriterStarts
    <2>1. Starts("lcdwrite", <<>>) /\ UNCHANGED <<port, last>> BY <1>10 DEF WriterStarts, gpio
    <2> QED BY <2>1, Given, OtherStarts
  <1>11. CASE WriterSends
    <2>1. PICK commands : Sends("lcdwrite", commands) BY <1>11 DEF WriterSends
    <2>2. UNCHANGED <<life, port, last>> BY <1>11 DEF WriterSends, gpio
    <2> QED BY <2>1, <2>2, Given, OtherSends
  <1>12. CASE WriterEnds
    <2>1. Sends("lcdwrite", <<Bye>>) /\ life' = [life EXCEPT !["lcdwrite"] = "over"] /\ UNCHANGED <<port, last>>
      BY <1>12 DEF WriterEnds, gpio
    <2> QED BY <2>1, Given, OtherSends
  <1>13. CASE LcdStarts
    <2>1. Starts("lcd", Subscription(6)) /\ UNCHANGED <<port, last>> BY <1>13 DEF LcdStarts, gpio
    <2> QED BY <2>1, Given, OtherStarts
  <1>14. CASE pins_updated
    <2>1. Taken("lcd") /\ UNCHANGED <<life, port, last>> BY <1>14 DEF pins_updated, gpio
    <2> QED BY <2>1, Given, OtherTakes
  <1>15. ASSUME NEW c \in Client, Serves(c) PROVE Inv'
    <2>1. found_terminator(c) /\ UNCHANGED <<life, port, last>> BY <1>15 DEF Serves, gpio
    <2> QED BY <2>1, PortTerminator, OtherTerminator
  <1>16. CASE Stopped
    <2>1. Down("stopped") /\ UNCHANGED <<life, port, last>> BY <1>16 DEF Stopped, Stop, gpio
    <2> QED BY <2>1, DownKeeps
  <1>17. CASE UNCHANGED vars
    <2>1. UNCHANGED <<fd, pins, notify, toServer, toClient, life, port, last>>
      BY <1>17 DEF vars, panel, server, gpio
    <2>2. Shapes' BY <2>1 DEF Inv, Shapes, OfClients
    <2>3. notify'["port"] = {} BY <2>1 DEF Inv
    <2> QED BY <2>1, <2>2, <2>3, Untouched
  <1> QED BY <1>1, <1>2, <1>3, <1>4, <1>5, <1>6, <1>7, <1>8, <1>9, <1>10, <1>11, <1>12, <1>13, <1>14,
             <1>15, <1>16, <1>17 DEF Next

\* The invariant holds throughout.
LEMMA Invariant == Spec => []Inv
  BY InitInv, NextInv, PTL DEF Spec

\* The questions among the commands q, as OneAnswer counts them.
LEMMA Questions ==
  ASSUME NEW q \in Seq(PortCommand)
  PROVE  /\ NoQuestion(q) => Cardinality({i \in DOMAIN q : q[i].cmd = "R"}) = 0
         /\ OneQuestion(q) => Cardinality({i \in DOMAIN q : q[i].cmd = "R"}) = 1
  <1> DEFINE asked == {i \in DOMAIN q : q[i].cmd = "R"}
  <1>1. \A m \in PortCommand : m.cmd = "R" <=> m = R BY DEF PortCommand, R
  <1>2. \A i \in DOMAIN q : q[i] \in PortCommand BY ElementOfSeq, LenProperties
  <1>3. \A i \in DOMAIN q : q[i].cmd = "R" <=> q[i] = R BY <1>1, <1>2
  <1>4. ASSUME NoQuestion(q) PROVE Cardinality(asked) = 0
    <2>1. asked = {} BY <1>3, <1>4 DEF NoQuestion
    <2> QED BY <2>1, FS_EmptySet
  <1>5. ASSUME OneQuestion(q) PROVE Cardinality(asked) = 1
    <2>1. PICK i \in DOMAIN q : q[i] = R /\ \A j \in DOMAIN q : q[j] = R => j = i BY <1>5 DEF OneQuestion
    <2>2. asked = {i} BY <1>3, <2>1
    <2> QED BY <2>2, FS_Singleton
  <1> QED BY <1>4, <1>5

\* What is under way between guest and panel is the one answer it waits for.
LEMMA InvOneAnswer == Inv => OneAnswer
  <1> SUFFICES ASSUME Inv, fd["port"] # 0 PROVE OneAnswer BY DEF OneAnswer
  <1> DEFINE q == toServer["port"]
             a == toClient["port"]
             n == Cardinality({i \in DOMAIN q : q[i].cmd = "R"})
  <1>1. q \in Seq(PortCommand) /\ Conversation(q, a, port = "reading") BY DEF Inv, Shapes
  <1>2. (NoQuestion(q) => n = 0) /\ (OneQuestion(q) => n = 1) BY <1>1, Questions
  <1>3. Len(<<>>) = 0 /\ \A out : Len(<<out>>) = 1 OBVIOUS
  <1> HIDE DEF q, a, n
  <1>4. Len(a) + n = IF port = "reading" THEN 1 ELSE 0
    <2>1. CASE port # "reading" /\ a = <<>> /\ NoQuestion(q)
      <3>1. Len(a) = 0 /\ n = 0 BY <1>2, <1>3, <2>1
      <3> QED BY <2>1, <3>1
    <2>2. CASE port = "reading" /\ a = <<>> /\ OneQuestion(q)
      <3>1. Len(a) = 0 /\ n = 1 BY <1>2, <1>3, <2>2
      <3> QED BY <2>2, <3>1
    <2>3. CASE port = "reading" /\ NoQuestion(q) /\ \E out : a = <<out>>
      <3>1. Len(a) = 1 /\ n = 0 BY <1>2, <1>3, <2>3
      <3> QED BY <2>3, <3>1
    <2> QED BY <1>1, <2>1, <2>2, <2>3 DEF Conversation
  <1> QED BY <1>4 DEF OneAnswer, q, a, n

\* Of the writes of a pin under way there is a last one.
LEMMA LastWrite ==
  ASSUME NEW S, NEW q \in Seq(S), NEW T \in SUBSET DOMAIN q, T # {}
  PROVE  \E i \in T : \A j \in T : j <= i
  <1>1. DOMAIN q = 1 .. Len(q) /\ Len(q) \in Nat BY LenProperties
  <1>2. T \in SUBSET Nat /\ IsFiniteSet(T)
    <2>1. IsFiniteSet(1 .. Len(q))
      <3>1. 1 \in Int /\ Len(q) \in Int BY <1>1
      <3> QED BY <3>1, FS_Interval
    <2>2. IsFiniteSet(DOMAIN q) BY <1>1, <2>1
    <2> QED BY <1>1, <2>2, FS_Subset
  <1>3. Cardinality(T) \in Nat /\ Cardinality(T) # 0 BY <1>2, FS_CardinalityType, FS_EmptySet
  <1>4. Cardinality(T) - 1 \in 0 .. Cardinality(T) - 1 BY <1>3
  <1>5. PICK i \in T : Rank(T, i) = Cardinality(T) - 1 BY <1>2, <1>4, Ranks
  <1> DEFINE below == {j \in T : j < i}
             rest == T \ {i}
  <1>6. IsFiniteSet(rest) /\ Cardinality(rest) = Cardinality(T) - 1 BY <1>2, FS_RemoveElement
  <1>7. Cardinality(below) = Cardinality(rest) BY <1>5, <1>6 DEF Rank
  <1>8. below \in SUBSET rest BY <1>2
  <1> HIDE DEF below, rest
  <1>9. rest = below BY <1>6, <1>7, <1>8, FS_Subset
  <1>10. ASSUME NEW j \in T PROVE j <= i
    <2>1. i \in Nat /\ j \in Nat BY <1>2
    <2>2. j = i \/ j < i BY <1>9 DEF below, rest
    <2> QED BY <2>1, <2>2
  <1> QED BY <1>10

\* Where the commands under way lead is what the port remembers.
LEMMA InvMirrored == Inv => PortMirrored
  <1> SUFFICES ASSUME Inv, fd["port"] # 0, NEW p \in PortPins
               PROVE  LET writes == {i \in DOMAIN toServer["port"] :
                                       toServer["port"][i].cmd = "W" /\ toServer["port"][i].pin = p}
                      IN last[p] = IF writes = {} THEN pins["port"][p]
                                   ELSE toServer["port"][CHOOSE i \in writes : \A j \in writes : j <= i].val
    BY DEF PortMirrored
  <1> DEFINE q == toServer["port"]
             writes == {i \in DOMAIN q : q[i].cmd = "W" /\ q[i].pin = p}
  <1>1. q \in Seq(PortCommand) /\ Leads(q, p, pins["port"][p], last[p]) BY DEF Inv, Shapes
  <1>2. \A i : i \in writes <=> i \in DOMAIN q /\ Writes(q[i], p) BY DEF Writes
  <1>3. ASSUME writes # {} PROVE last[p] = q[CHOOSE i \in writes : \A j \in writes : j <= i].val
    <2> DEFINE i == CHOOSE k \in writes : \A j \in writes : j <= k
    <2>1. writes \in SUBSET DOMAIN q OBVIOUS
    <2> HIDE DEF writes, q
    <2>2. \E k \in writes : \A j \in writes : j <= k BY <1>1, <1>3, <2>1, LastWrite
    <2>3. i \in writes /\ \A j \in writes : j <= i BY <2>2
    <2> HIDE DEF i
    <2>4. PICK k \in DOMAIN q : /\ Writes(q[k], p) /\ q[k].val = last[p]
                                /\ \A j \in DOMAIN q : j > k /\ Writes(q[j], p) => q[j].val = last[p]
      BY <1>1, <1>2, <2>3 DEF Leads
    <2>5. k <= i /\ i \in DOMAIN q /\ Writes(q[i], p) BY <1>2, <2>3, <2>4
    <2>6. k \in Nat /\ i \in Nat BY <1>1, <2>4, <2>5, LenProperties
    <2>7. i = k \/ i > k BY <2>5, <2>6
    <2>8. last[p] = q[i].val BY <2>4, <2>5, <2>7
    <2> QED BY <2>8 DEF i
  <1>4. ASSUME writes = {} PROVE last[p] = pins["port"][p] BY <1>1, <1>2, <1>4 DEF Leads
  <1> QED BY <1>3, <1>4

\* The guest never waits for two answers, or gets one it did not ask for:
\* panel_getpins of rdc-gpio.c takes the one line that answers its query,
\* whatever the other programs do and wherever the connection breaks.
THEOREM Answers == Spec => []OneAnswer
  BY Invariant, InvOneAnswer, PTL

\* The panel comes to drive each pin as the port remembers, bb_pin_write's
\* last, so that a write which it leaves out changes nothing.
THEOREM Mirrored == Spec => []PortMirrored
  BY Invariant, InvMirrored, PTL

-----------------------------------------------------------------------------
(* Arbitration *)

\* A finite set of numbers has a least one.
LEMMA Least ==
  ASSUME NEW T \in SUBSET Nat, IsFiniteSet(T), T # {}
  PROVE  \E i \in T : \A j \in T : i <= j
  <1>1. Cardinality(T) \in Nat /\ Cardinality(T) # 0 BY FS_CardinalityType, FS_EmptySet
  <1>2. 0 \in 0 .. Cardinality(T) - 1 BY <1>1
  <1>3. PICK i \in T : Rank(T, i) = 0 BY <1>2, Ranks
  <1> DEFINE below == {j \in T : j < i}
  <1>4. below \in SUBSET T /\ Cardinality(below) = 0 BY <1>3 DEF Rank
  <1> HIDE DEF below
  <1>5. below = {} BY <1>4, FS_Subset, FS_EmptySet
  <1>6. \A j \in T : ~(j < i) BY <1>5 DEF below
  <1> QED BY <1>6

\* A set that has 1, and with each number below n the next, has all up to n.
LEMMA Ladder ==
  ASSUME NEW n \in Nat, NEW G,
         1 \in G, \A k \in 1 .. n - 1 : k \in G => k + 1 \in G
  PROVE  \A k \in 1 .. n : k \in G
  <1> DEFINE T == {k \in 1 .. n : k \notin G}
  <1> SUFFICES ASSUME T # {} PROVE FALSE OBVIOUS
  <1>1. IsFiniteSet(1 .. n)
    <2>1. 1 \in Int /\ n \in Int OBVIOUS
    <2> QED BY <2>1, FS_Interval
  <1>2. T \in SUBSET Nat /\ T \in SUBSET (1 .. n) OBVIOUS
  <1>3. IsFiniteSet(T) BY <1>1, <1>2, FS_Subset
  <1>4. PICK i \in T : \A j \in T : i <= j
    <2> HIDE DEF T
    <2> QED BY <1>2, <1>3, Least
  <1>5. i \in 1 .. n /\ i \notin G /\ i # 1 OBVIOUS
  <1>6. i - 1 \in 1 .. n - 1 /\ i - 1 \in 1 .. n /\ ~(i <= i - 1) /\ i - 1 + 1 = i BY <1>5
  <1>7. i - 1 \in G BY <1>4, <1>6
  <1> QED BY <1>5, <1>6, <1>7

\* h is what ResolvePin has after each of the first m programs.
Resolving(h, order, ps, p, m) ==
  h = [n \in 1 .. m |->
         IF n = 1 THEN ps[order[1]][p] ELSE ResolveTwo(h[n - 1], ps[order[n]][p])]

\* There is such an h, and ResolvePin returns its last value.
LEMMA Resolution ==
  ASSUME NEW order, NEW ps, NEW p, Len(order) \in Nat \ {0}, order # <<>>
  PROVE  \E h : Resolving(h, order, ps, p, Len(order)) /\ ResolvePin(order, ps, p) = h[Len(order)]
  <1> DEFINE G == {m \in Nat : \E h : Resolving(h, order, ps, p, m)}
  <1>1. 1 \in G
    <2> DEFINE h == [n \in 1 .. 1 |-> ps[order[1]][p]]
    <2>1. Resolving(h, order, ps, p, 1) BY DEF Resolving
    <2> QED BY <2>1
  <1>2. ASSUME NEW m \in 1 .. Len(order) - 1, m \in G PROVE m + 1 \in G
    <2>1. PICK h : Resolving(h, order, ps, p, m) BY <1>2
    <2> DEFINE g == [n \in 1 .. m + 1 |-> IF n = 1 THEN ps[order[1]][p] ELSE ResolveTwo(h[n - 1], ps[order[n]][p])]
    <2>2. m \in Nat /\ m >= 1 /\ h = [n \in 1 .. m |->
            IF n = 1 THEN ps[order[1]][p] ELSE ResolveTwo(h[n - 1], ps[order[n]][p])]
      BY <1>2, <2>1 DEF Resolving
    <2>3. \A n \in 1 .. m : g[n] = h[n] BY <2>2
    <2>4. \A n \in 1 .. m + 1 : n # 1 => n - 1 \in 1 .. m BY <2>2
    <2>5. \A n \in 1 .. m + 1 : n # 1 => h[n - 1] = g[n - 1] BY <2>3, <2>4
    <2>6. g = [n \in 1 .. m + 1 |-> IF n = 1 THEN ps[order[1]][p] ELSE ResolveTwo(g[n - 1], ps[order[n]][p])]
      <3> DEFINE e(n) == IF n = 1 THEN ps[order[1]][p] ELSE ResolveTwo(h[n - 1], ps[order[n]][p])
                 d(n) == IF n = 1 THEN ps[order[1]][p] ELSE ResolveTwo(g[n - 1], ps[order[n]][p])
      <3>1. \A n \in 1 .. m + 1 : e(n) = d(n) BY <2>5
      <3>2. g = [n \in 1 .. m + 1 |-> e(n)] OBVIOUS
      <3> HIDE DEF e, d, g
      <3>3. [n \in 1 .. m + 1 |-> e(n)] = [n \in 1 .. m + 1 |-> d(n)] BY <3>1
      <3>4. g = [n \in 1 .. m + 1 |-> d(n)] BY <3>2, <3>3
      <3> QED BY <3>4 DEF d
    <2> HIDE DEF g
    <2>7. Resolving(g, order, ps, p, m + 1) BY <2>6 DEF Resolving
    <2> QED BY <2>2, <2>7
  <1> HIDE DEF G
  <1>3. \A m \in 1 .. Len(order) : m \in G BY <1>1, <1>2, Ladder
  <1>4. Len(order) \in G BY <1>3
  <1> DEFINE level[n \in 1 .. Len(order)] ==
               IF n = 1 THEN ps[order[1]][p] ELSE ResolveTwo(level[n - 1], ps[order[n]][p])
  <1>5. ResolvePin(order, ps, p) = level[Len(order)] BY DEF ResolvePin
  <1>6. Resolving(level, order, ps, p, Len(order))
    <2>1. PICK h : h = [n \in 1 .. Len(order) |->
                          IF n = 1 THEN ps[order[1]][p] ELSE ResolveTwo(h[n - 1], ps[order[n]][p])]
      BY <1>4 DEF G, Resolving
    <2>2. level = [n \in 1 .. Len(order) |->
                     IF n = 1 THEN ps[order[1]][p] ELSE ResolveTwo(level[n - 1], ps[order[n]][p])]
      BY <2>1, Zenon
    <2> QED BY <2>2 DEF Resolving
  <1> HIDE DEF level
  <1> QED BY <1>5, <1>6

Lv == Drive \cup {"E", "raise"}

\* The table, row by row.
LEMMA Table ==
  ASSUME NEW b \in Drive
  PROVE  /\ ResolveTwo("1", b) = IF b = "0" THEN "E" ELSE "1"
         /\ ResolveTwo("0", b) = IF b = "1" THEN "E" ELSE "0"
         /\ ResolveTwo("P", b) = IF b = "X" THEN "P" ELSE b
         /\ ResolveTwo("X", b) = b
         /\ ResolveTwo("E", b) = "raise" /\ ResolveTwo("raise", b) = "raise"
  <1>1. /\ "1" \in Drive /\ "0" \in Drive /\ "P" \in Drive /\ "X" \in Drive
        /\ "E" \notin Drive /\ "raise" \notin Drive
    BY DEF Drive
  <1>2. PinArbitration["1"] = [x \in Drive |-> IF x = "0" THEN "E" ELSE "1"] BY <1>1 DEF PinArbitration
  <1>3. PinArbitration["0"] = [x \in Drive |-> IF x = "1" THEN "E" ELSE "0"] BY <1>1 DEF PinArbitration
  <1>4. PinArbitration["P"] = [x \in Drive |-> IF x = "X" THEN "P" ELSE x] BY <1>1 DEF PinArbitration
  <1>5. PinArbitration["X"] = [x \in Drive |-> x] BY <1>1 DEF PinArbitration
  <1> QED BY <1>1, <1>2, <1>3, <1>4, <1>5 DEF ResolveTwo

\* One of the first k programs drives pin p with v.
DrivenTo(order, ps, p, k, v) == \E i \in 1 .. k : ps[order[i]][p] = v

\* The level l that follows from the first k of the drives, two of which may
\* fight; and how many it takes to make the table fail.
Means(l, k, one, zero, pull) ==
  /\ l \in Lv
  /\ l \in {"E", "raise"} <=> one /\ zero
  /\ l = "1" <=> one /\ ~zero
  /\ l = "0" <=> zero /\ ~one
  /\ l = "P" <=> ~one /\ ~zero /\ pull
  /\ l = "E" => k >= 2
  /\ l = "raise" => k >= 3

\* What ResolvePin has after k programs.
LEMMA Arbitrated ==
  ASSUME NEW order, NEW ps, NEW p, NEW n \in Nat, NEW h, Resolving(h, order, ps, p, n),
         \A k \in 1 .. n : ps[order[k]][p] \in Drive, NEW k \in 1 .. n
  PROVE  Means(h[k], k, DrivenTo(order, ps, p, k, "1"), DrivenTo(order, ps, p, k, "0"),
               DrivenTo(order, ps, p, k, "P"))
  <1> DEFINE x(i) == ps[order[i]][p]
             D(i, v) == DrivenTo(order, ps, p, i, v)
             Good(i) == Means(h[i], i, D(i, "1"), D(i, "0"), D(i, "P"))
             G == {i \in Nat : Good(i)}
  <1>1. \A i \in 1 .. n : h[i] = IF i = 1 THEN x(1) ELSE ResolveTwo(h[i - 1], x(i)) BY DEF Resolving
  <1>2. 1 \in 1 .. n /\ x(1) \in Drive OBVIOUS
  <1>3. 1 \in G
    <2>1. h[1] = x(1) BY <1>1, <1>2
    <2>2. \A v : D(1, v) <=> x(1) = v BY DEF DrivenTo
    <2> HIDE DEF x, D
    <2>3. Means(h[1], 1, D(1, "1"), D(1, "0"), D(1, "P")) BY <1>2, <2>1, <2>2 DEF Means, Lv, Drive
    <2> QED BY <2>3
  <1>4. ASSUME NEW i \in 1 .. n - 1, i \in G PROVE i + 1 \in G
    <2>1. i \in Nat /\ i >= 1 /\ i + 1 \in 1 .. n /\ i + 1 # 1 /\ i + 1 - 1 = i BY <1>4
    <2>2. h[i + 1] = ResolveTwo(h[i], x(i + 1)) BY <1>1, <2>1
    <2>3. x(i + 1) \in Drive BY <2>1
    <2>4. \A v : D(i + 1, v) <=> D(i, v) \/ x(i + 1) = v
      <3>1. \A j : j \in 1 .. i + 1 <=> j \in 1 .. i \/ j = i + 1 BY <2>1
      <3> QED BY <3>1 DEF DrivenTo
    <2>5. Good(i) BY <1>4
    <2> DEFINE l == h[i]
               b == x(i + 1)
               m == h[i + 1]
    <2>6. l \in Lv /\ b \in Drive /\ m = ResolveTwo(l, b) BY <2>2, <2>3, <2>5 DEF Means
    <2>7. Means(m, i + 1, D(i, "1") \/ b = "1", D(i, "0") \/ b = "0", D(i, "P") \/ b = "P")
      <3>1. Means(l, i, D(i, "1"), D(i, "0"), D(i, "P")) BY <2>5
      <3> HIDE DEF l, b, m, D
      <3>2. CASE l = "1" BY <2>1, <2>6, <3>1, <3>2, Table DEF Means, Lv, Drive
      <3>3. CASE l = "0" BY <2>1, <2>6, <3>1, <3>3, Table DEF Means, Lv, Drive
      <3>4. CASE l = "P" BY <2>1, <2>6, <3>1, <3>4, Table DEF Means, Lv, Drive
      <3>5. CASE l = "X" BY <2>1, <2>6, <3>1, <3>5, Table DEF Means, Lv, Drive
      <3>6. CASE l \in {"E", "raise"}
        <4>1. m = "raise" BY <2>6, <3>6, Table
        <4> QED BY <2>1, <3>1, <3>6, <4>1 DEF Means, Lv, Drive
      <3> QED BY <2>6, <3>2, <3>3, <3>4, <3>5, <3>6 DEF Lv, Drive
    <2>8. Good(i + 1)
      <3> HIDE DEF x, D
      <3> QED BY <2>4, <2>7 DEF Means
    <2> QED BY <2>1, <2>8
  <1> HIDE DEF G
  <1>5. \A i \in 1 .. n : i \in G BY <1>3, <1>4, Ladder
  <1> QED BY <1>5 DEF G

\* Descriptors: no two connections have the same.
Descriptors(f) ==
  /\ f \in [Client -> 0 .. Cardinality(Client)]
  /\ \A c, d \in Client : f[c] # 0 /\ f[c] = f[d] => c = d

\* The programs are finitely many, and so are those connected.
LEMMA Few ==
  ASSUME NEW f
  PROVE  /\ Cardinality(Client) \in Nat /\ IsFiniteSet(Connected(f)) /\ Cardinality(Connected(f)) \in Nat
         /\ Connected(f) \in SUBSET Client
  <1>1. IsFiniteSet(Client) /\ Connected(f) \in SUBSET Client BY PanelAssumption DEF Connected
  <1>2. IsFiniteSet(Connected(f)) BY <1>1, FS_Subset
  <1> QED BY <1>1, <1>2, FS_CardinalityType

\* Every connected program has one place in the order.
LEMMA InOrder ==
  ASSUME NEW f, Descriptors(f)
  PROVE  LET n == Cardinality(Connected(f))
         IN /\ Len(Order(f)) = n /\ (Order(f) = <<>> <=> n = 0)
            /\ \A k \in 1 .. n : Order(f)[k] \in Connected(f)
            /\ \A c \in Connected(f) : \E k \in 1 .. n : Order(f)[k] = c
  <1> DEFINE cs == Connected(f)
             n == Cardinality(cs)
             upTo(c) == {d \in cs : f[d] <= f[c]}
             place(c) == Cardinality(upTo(c))
             g == [c \in cs |-> place(c)]
             all == 1 .. n
             places == {g[c] : c \in cs}
  <1>1. n \in Nat /\ IsFiniteSet(cs) /\ cs \in SUBSET Client BY Few
  <1>2. (\A c \in cs : f[c] \in Nat) /\ \A c, d \in cs : f[c] = f[d] => c = d
    BY <1>1, Few DEF Descriptors, Connected
  <1> HIDE DEF cs
  <1>3. ASSUME NEW c \in cs PROVE IsFiniteSet(upTo(c)) /\ place(c) \in all
    <2>1. upTo(c) \in SUBSET cs /\ c \in upTo(c) BY <1>2
    <2> HIDE DEF upTo
    <2>2. IsFiniteSet(upTo(c)) /\ Cardinality(upTo(c)) <= n BY <1>1, <2>1, FS_Subset
    <2>3. Cardinality(upTo(c)) \in Nat BY <2>2, FS_CardinalityType
    <2>4. Cardinality(upTo(c)) # 0 BY <2>1, <2>2, FS_EmptySet
    <2> QED BY <1>1, <2>2, <2>3, <2>4
  <1>4. ASSUME NEW c \in cs, NEW d \in cs, f[c] < f[d] PROVE place(c) # place(d)
    <2>1. upTo(c) \in SUBSET upTo(d) /\ d \in upTo(d) /\ d \notin upTo(c)
      <3>1. f[c] \in Nat /\ f[d] \in Nat /\ \A x \in cs : f[x] \in Nat BY <1>2
      <3> QED BY <1>4, <3>1
    <2>2. IsFiniteSet(upTo(d)) BY <1>3
    <2> HIDE DEF upTo
    <2> QED BY <2>1, <2>2, FS_Subset
  <1>5. \A c, d \in cs : place(c) = place(d) => c = d
    <2> SUFFICES ASSUME NEW c \in cs, NEW d \in cs, c # d PROVE place(c) # place(d) OBVIOUS
    <2>1. f[c] < f[d] \/ f[d] < f[c] BY <1>2
    <2> HIDE DEF place
    <2> QED BY <1>4, <2>1
  <1>6. \A k \in all : \E c \in cs : place(c) = k
    <2>1. places \in SUBSET all BY <1>3
    <2>2. g \in Bijection(cs, places)
      <3> HIDE DEF place
      <3>1. g \in [cs -> places] /\ \A r \in places : \E c \in cs : g[c] = r OBVIOUS
      <3>2. \A c, d \in cs : g[c] = g[d] => c = d BY <1>5
      <3> QED BY <3>1, <3>2 DEF Bijection, Injection, Surjection, IsInjective
    <2>3. IsFiniteSet(all) /\ Cardinality(all) = n
      <3>0. 1 \in Int /\ n \in Int BY <1>1
      <3>1. IsFiniteSet(all) /\ Cardinality(all) = IF 1 > n THEN 0 ELSE n - 1 + 1 BY <3>0, FS_Interval
      <3> QED BY <1>1, <3>1
    <2> HIDE DEF places, all, g
    <2>4. Cardinality(places) = n BY <1>1, <2>2, FS_Bijection DEF ExistsBijection
    <2>5. places = all BY <2>1, <2>3, <2>4, FS_Subset
    <2> QED BY <2>5 DEF places, g
  <1> DEFINE o == [k \in 1 .. n |-> CHOOSE c \in cs : place(c) = k]
  <1>7. Order(f) = o BY DEF Order, cs
  <1> HIDE DEF place
  <1>8. \A k \in 1 .. n : o[k] \in cs /\ place(o[k]) = k BY <1>6
  <1>9. ASSUME NEW c \in cs PROVE \E k \in 1 .. n : o[k] = c
    <2>1. PICK k \in 1 .. n : k = place(c) BY <1>3
    <2>2. o[k] \in cs /\ place(o[k]) = place(c) BY <1>8, <2>1
    <2>3. o[k] = c BY <1>5, <2>2
    <2> QED BY <2>3
  <1>10. o \in Seq(cs) /\ Len(o) = n
    <2>1. o \in [1 .. n -> cs] BY <1>8
    <2> HIDE DEF o
    <2> QED BY <1>1, <2>1
  <1> HIDE DEF o
  <1>11. o = <<>> <=> n = 0 BY <1>10, EmptySeq
  <1> QED BY <1>7, <1>8, <1>9, <1>10, <1>11 DEF cs

\* One of the programs with descriptors f drives pin p with v.
DrivenIn(f, ps, p, v) == \E c \in Connected(f) : ps[c][p] = v

\* The levels the server works out are those of the drives of all that are
\* connected; the table fails only if three are and two of them fight.
LEMMA LevelsMean ==
  ASSUME NEW f, Descriptors(f), NEW ps \in [Client -> [Pin -> Drive]]
  PROVE  /\ Levels(f, ps) \in [Pin -> Lv]
         /\ \A p \in Pin : Means(Levels(f, ps)[p], Cardinality(Connected(f)), DrivenIn(f, ps, p, "1"),
                                 DrivenIn(f, ps, p, "0"), DrivenIn(f, ps, p, "P"))
  <1> DEFINE order == Order(f)
             n == Cardinality(Connected(f))
             out(p) == ResolvePin(order, ps, p)
  <1>1. n \in Nat /\ Connected(f) \in SUBSET Client BY Few
  <1>2. /\ Len(order) = n /\ (order = <<>> <=> n = 0)
        /\ \A k \in 1 .. n : order[k] \in Connected(f)
        /\ \A c \in Connected(f) : \E k \in 1 .. n : order[k] = c
    BY InOrder
  <1> HIDE DEF order
  <1>3. ASSUME NEW p \in Pin
        PROVE  Means(out(p), n, DrivenIn(f, ps, p, "1"), DrivenIn(f, ps, p, "0"), DrivenIn(f, ps, p, "P"))
    <2>1. CASE order = <<>>
      <3>1. out(p) = "X" BY <2>1 DEF ResolvePin
      <3>2. Connected(f) = {}
        <4>1. 1 .. n = {} BY <1>1, <1>2, <2>1
        <4> QED BY <1>2, <4>1
      <3>3. \A v : ~DrivenIn(f, ps, p, v) BY <3>2 DEF DrivenIn
      <3> HIDE DEF out
      <3> QED BY <3>1, <3>3 DEF Means, Lv, Drive
    <2>2. CASE order # <<>>
      <3>1. Len(order) \in Nat \ {0} BY <1>1, <1>2, <2>2
      <3>2. PICK h : Resolving(h, order, ps, p, Len(order)) /\ ResolvePin(order, ps, p) = h[Len(order)]
        BY <2>2, <3>1, Resolution
      <3>3. Resolving(h, order, ps, p, n) /\ out(p) = h[n] BY <1>2, <3>2
      <3>4. \A k \in 1 .. n : ps[order[k]][p] \in Drive BY <1>1, <1>2
      <3>5. n \in 1 .. n BY <1>1, <1>2, <2>2
      <3> HIDE DEF n, out
      <3>6. Means(h[n], n, DrivenTo(order, ps, p, n, "1"), DrivenTo(order, ps, p, n, "0"),
                  DrivenTo(order, ps, p, n, "P"))
        BY <1>1, <3>3, <3>4, <3>5, Arbitrated
      <3>7. \A v : DrivenTo(order, ps, p, n, v) <=> DrivenIn(f, ps, p, v) BY <1>2 DEF DrivenTo, DrivenIn
      <3> QED BY <3>3, <3>6, <3>7 DEF Means
    <2> QED BY <2>1, <2>2
  <1>4. Levels(f, ps) = [p \in Pin |-> out(p)] BY DEF Levels, order
  <1> HIDE DEF out
  <1>5. \A p \in Pin : out(p) \in Lv BY <1>3 DEF Means
  <1> QED BY <1>3, <1>4, <1>5

-----------------------------------------------------------------------------
(* The table of the server *)

PanelCommand == [cmd : {"W"}, pin : Pin, val : Drive] \cup [cmd : {"NOTIFY"}, pin : Pin] \cup {R, Bye}

Levs == [Pin -> Lv]

Types ==
  /\ Descriptors(fd)
  /\ pins \in [Client -> [Pin -> Drive]] /\ notify \in [Client -> SUBSET Pin]
  /\ toServer \in [Client -> Seq(PanelCommand)] /\ toClient \in [Client -> Seq(Levs)]
  /\ LastResolve \in Levs /\ shown \in [Client -> Levs]
  /\ life \in [Client -> {"new", "on", "over"}] /\ scene \in Scenes /\ sent \in Nat

\* Commands are under way on open connections to a server that runs, and a
\* program whose connection ends is over.
Lines ==
  \A c \in Client :
    /\ toServer[c] # <<>> => fd[c] # 0
    /\ fd[c] # 0 => state = "up"
    /\ \A i \in DOMAIN toServer[c] : toServer[c][i] = Bye => life[c] = "over"

\* The level of pin p, of programs with descriptors f that drive it with ps.
LevelIn(f, ps, p) ==
  CASE DrivenIn(f, ps, p, "1") /\ DrivenIn(f, ps, p, "0") -> "E"
    [] DrivenIn(f, ps, p, "1") /\ ~DrivenIn(f, ps, p, "0") -> "1"
    [] DrivenIn(f, ps, p, "0") /\ ~DrivenIn(f, ps, p, "1") -> "0"
    [] ~DrivenIn(f, ps, p, "1") /\ ~DrivenIn(f, ps, p, "0") /\ DrivenIn(f, ps, p, "P") -> "P"
    [] OTHER -> "X"

\* The levels last worked out are those of now: who joins drives nothing.
Resolves == state = "up" => \A p \in Pin : LastResolve[p] = LevelIn(fd, pins, p)

\* What a display that shows s, with q on its way to it, will have seen.
SeenIn(q, s) == IF q = <<>> THEN s ELSE q[Len(q)]

\* The end of a subscription.
Subscribing(q) == \A i \in DOMAIN q : q[i] = IF i = Len(q) THEN R ELSE N(q[i].pin)

\* Display c is subscribed to its pins or about to be, and once its query is
\* answered it has seen the levels last worked out.
Following(q, ns, w, seen, out) ==
  /\ Subscribing(q)
  /\ \A p \in w : p \in ns \/ \E i \in DOMAIN q : q[i] = N(p)
  /\ q = <<>> => \A p \in w : seen[p] = out[p]

Follows(c) ==
  fd[c] # 0 => Following(toServer[c], notify[c], Watched(c), SeenIn(toClient[c], shown[c]), LastResolve)

TableInv == Types /\ Lines /\ Resolves /\ Follows("led") /\ Follows("lcd")

\* Seeing one more, and taking one.
LEMMA SeenMore ==
  ASSUME NEW S, NEW q \in Seq(S), NEW out \in S, NEW s
  PROVE  q \o <<out>> \in Seq(S) /\ SeenIn(q \o <<out>>, s) = out
  <1> DEFINE r == q \o <<out>>
  <1>1. <<out>> \in Seq(S) /\ Len(<<out>>) = 1 /\ <<out>>[1] = out OBVIOUS
  <1>2. r \in Seq(S) /\ Len(r) = Len(q) + 1 BY <1>1, ConcatProperties
  <1>3. Len(q) \in Nat BY LenProperties
  <1>4. Len(q) + 1 \in 1 .. Len(q) + 1 /\ ~(Len(q) + 1 <= Len(q)) /\ Len(q) + 1 - Len(q) = 1 BY <1>3
  <1>5. r[Len(q) + 1] = out
    <2>1. \A i \in 1 .. Len(q) + Len(<<out>>) : r[i] = IF i <= Len(q) THEN q[i] ELSE <<out>>[i - Len(q)]
      BY <1>1, ConcatProperties
    <2> QED BY <1>1, <1>4, <2>1
  <1> HIDE DEF r
  <1>6. r # <<>>
    <2>1. Len(<<>>) = 0 OBVIOUS
    <2>2. Len(r) # 0 BY <1>2, <1>3
    <2> QED BY <2>1, <2>2
  <1>7. SeenIn(r, s) = out BY <1>2, <1>5, <1>6 DEF SeenIn
  <1> QED BY <1>2, <1>7 DEF r

\* The one taken is shown.
LEMMA SeenTaken ==
  ASSUME NEW S, NEW q \in Seq(S), q # <<>>, NEW s
  PROVE  Tail(q) \in Seq(S) /\ Head(q) \in S /\ SeenIn(Tail(q), Head(q)) = SeenIn(q, s)
  <1>1. Tail(q) \in Seq(S) /\ Head(q) = q[1] /\ Head(q) \in S BY FirstDone
  <1>2. Len(q) \in Nat \ {0} BY EmptySeq
  <1>3. Len(Tail(q)) = Len(q) - 1 /\ \A i \in 1 .. Len(q) - 1 : Tail(q)[i] = q[i + 1]
    BY <1>2, HeadTailProperties
  <1>4. CASE Tail(q) = <<>>
    <2>1. Len(q) = 1
      <3>0. Len(<<>>) = 0 OBVIOUS
      <3>1. Len(Tail(q)) = 0 BY <1>4, <3>0, Zenon
      <3>2. Len(q) - 1 = 0 BY <1>3, <3>1, Zenon
      <3> QED BY <1>2, <3>2
    <2>2. SeenIn(Tail(q), Head(q)) = q[1] BY <1>1, <1>4, Zenon DEF SeenIn
    <2>3. SeenIn(q, s) = q[1] BY <2>1 DEF SeenIn
    <2> QED BY <1>1, <2>2, <2>3
  <1>5. CASE Tail(q) # <<>>
    <2>1. Len(Tail(q)) \in Nat \ {0} BY <1>1, <1>5, EmptySeq
    <2>2. Len(q) - 1 \in 1 .. Len(q) - 1 /\ Len(q) - 1 + 1 = Len(q) BY <1>2, <1>3, <2>1
    <2>3. Tail(q)[Len(Tail(q))] = q[Len(q)] BY <1>3, <2>2
    <2> QED BY <1>1, <1>5, <2>3 DEF SeenIn
  <1> QED BY <1>4, <1>5

\* Who had seen the levels of pins it is subscribed to, still has.
Kept(f, out) ==
  \A c \in Client, w \in SUBSET Pin :
    /\ f[c] # 0 /\ w \subseteq notify[c]
    /\ \A p \in w : SeenIn(toClient[c], shown[c])[p] = LastResolve[p]
    => \A p \in w : SeenIn(toClient'[c], shown[c])[p] = out[p]

\* What a display follows after the levels out were worked out for it.
LEMMA Informed ==
  ASSUME TableInv, NEW f, NEW out \in Levs, NEW asked, Resolve(f, out, asked)
  PROVE  /\ toClient' \in [Client -> Seq(Levs)] /\ LastResolve' = out
         /\ \A c \in Client : c \in asked => SeenIn(toClient'[c], shown[c]) = out
         /\ Kept(f, out)
  <1> DEFINE one(c) == toClient[c] \o (IF Told(c, f, out) THEN <<out>> ELSE <<>>)
             two(c) == one(c) \o (IF c \in asked THEN <<out>> ELSE <<>>)
  <1>1. toClient' = [c \in Client |-> two(c)] /\ LastResolve' = out BY DEF Resolve
  <1>2. \A c \in Client : toClient[c] \in Seq(Levs) BY DEF TableInv, Types
  <1>3. \A q \in Seq(Levs) : q \o <<>> = q BY ConcatEmptySeq
  <1>4. \A q \in Seq(Levs) : \A s : q \o <<out>> \in Seq(Levs) /\ SeenIn(q \o <<out>>, s) = out BY SeenMore
  <1>5. ASSUME NEW c \in Client
        PROVE  /\ one(c) \in Seq(Levs) /\ (Told(c, f, out) => SeenIn(one(c), shown[c]) = out)
               /\ ~Told(c, f, out) => one(c) = toClient[c]
    BY <1>2, <1>3, <1>4
  <1> HIDE DEF one
  <1>6. ASSUME NEW c \in Client
        PROVE  /\ two(c) \in Seq(Levs) /\ (c \in asked => SeenIn(two(c), shown[c]) = out)
               /\ c \notin asked => two(c) = one(c)
    BY <1>3, <1>4, <1>5
  <1> HIDE DEF two
  <1>7. \A c \in Client : toClient'[c] = two(c) BY <1>1
  <1>8. ASSUME NEW c \in Client, NEW w \in SUBSET Pin, f[c] # 0, w \subseteq notify[c],
               \A p \in w : SeenIn(toClient[c], shown[c])[p] = LastResolve[p], NEW p \in w
        PROVE  SeenIn(toClient'[c], shown[c])[p] = out[p]
    <2>1. CASE c \in asked BY <1>6, <1>7, <2>1
    <2>2. CASE c \notin asked /\ Told(c, f, out)
      <3>1. SeenIn(toClient'[c], shown[c]) = out BY <1>5, <1>6, <1>7, <2>2
      <3> QED BY <3>1
    <2>3. CASE c \notin asked /\ ~Told(c, f, out)
      <3>1. toClient'[c] = toClient[c] BY <1>5, <1>6, <1>7, <2>3
      <3>2. out[p] = LastResolve[p] BY <1>8, <2>3 DEF Told
      <3> QED BY <1>8, <3>1, <3>2
    <2> QED BY <2>1, <2>2, <2>3
  <1>9. Kept(f, out) BY <1>8 DEF Kept
  <1> QED BY <1>1, <1>6, <1>7, <1>9

\* Levels that the table does not fail on are the levels of the pins.
LEMMA LevelsFound ==
  ASSUME NEW f, Descriptors(f), NEW ps \in [Client -> [Pin -> Drive]], ~Raises(Levels(f, ps))
  PROVE  Levels(f, ps) \in Levs /\ \A p \in Pin : Levels(f, ps)[p] = LevelIn(f, ps, p)
  <1> DEFINE out == Levels(f, ps)
  <1>1. out \in Levs BY LevelsMean DEF Levs
  <1>2. ASSUME NEW p \in Pin PROVE out[p] = LevelIn(f, ps, p)
    <2>1. Means(out[p], Cardinality(Connected(f)), DrivenIn(f, ps, p, "1"), DrivenIn(f, ps, p, "0"),
                DrivenIn(f, ps, p, "P"))
      BY LevelsMean
    <2>2. out[p] # "raise" BY DEF Raises
    <2> HIDE DEF out
    <2> QED BY <2>1, <2>2 DEF Means, LevelIn, Lv, Drive
  <1> QED BY <1>1, <1>2

\* What a command can be.
LEMMA Kinds ==
  ASSUME NEW m \in PanelCommand
  PROVE  /\ m.cmd \in {"W", "NOTIFY", "R", "close"}
         /\ m.cmd = "W" => m.pin \in Pin /\ m.val \in Drive
         /\ m.cmd = "NOTIFY" => m = N(m.pin) /\ m.pin \in Pin
         /\ (m.cmd = "R" <=> m = R) /\ (m.cmd = "close" <=> m = Bye)
  BY DEF PanelCommand, N, R, Bye

\* And the commands are not the same.
LEMMA Distinct ==
  /\ \A p, v : W(p, v) # R /\ W(p, v) # Bye
  /\ \A p : N(p) # R /\ N(p) # Bye /\ N(p).pin = p
  /\ R # Bye
  /\ \A p, r : N(p) = N(r) => p = r
  <1>1. (\A p, v : W(p, v).cmd = "W") /\ (\A p : N(p).cmd = "NOTIFY" /\ N(p).pin = p)
        /\ R.cmd = "R" /\ Bye.cmd = "close"
    BY DEF W, N, R, Bye
  <1> QED BY <1>1

\* The first command of a subscription: the query at its end, or a pin.
LEMMA SubscriptionFirst ==
  ASSUME NEW S, NEW q \in Seq(S), q # <<>>, Subscribing(q)
  PROVE  \/ Head(q) = R /\ Tail(q) = <<>> /\ \A i \in DOMAIN q : q[i] = R
         \/ /\ Head(q) = N(Head(q).pin) /\ Tail(q) # <<>> /\ Subscribing(Tail(q))
  <1>1. Len(q) \in Nat \ {0} /\ DOMAIN q = 1 .. Len(q) BY EmptySeq, LenProperties
  <1>2. Tail(q) \in Seq(S) /\ Len(Tail(q)) = Len(q) - 1 BY <1>1, HeadTailProperties
  <1>3. Head(q) = q[1] /\ 1 \in DOMAIN q BY FirstDone
  <1>4. CASE Len(q) = 1
    <2>1. Tail(q) = <<>>
      <3>1. Len(Tail(q)) = 0 BY <1>2, <1>4
      <3> QED BY <1>2, <3>1, EmptySeq
    <2>2. \A i \in DOMAIN q : i = 1 BY <1>1, <1>4
    <2>3. q[1] = R BY <1>3, <1>4 DEF Subscribing
    <2> QED BY <1>3, <2>1, <2>2, <2>3
  <1>5. CASE Len(q) # 1
    <2>1. Tail(q) # <<>>
      <3>0. Len(<<>>) = 0 OBVIOUS
      <3>1. Len(Tail(q)) # 0 BY <1>1, <1>2, <1>5
      <3> QED BY <3>0, <3>1, Zenon
    <2>2. q[1] = N(q[1].pin) BY <1>3, <1>5 DEF Subscribing
    <2>3. ASSUME NEW i \in DOMAIN Tail(q)
          PROVE  Tail(q)[i] = IF i = Len(Tail(q)) THEN R ELSE N(Tail(q)[i].pin)
      <3>1. i \in Nat /\ i + 1 \in DOMAIN q /\ Tail(q)[i] = q[i + 1] BY FirstDone
      <3>2. i + 1 = Len(q) <=> i = Len(Tail(q)) BY <1>1, <1>2, <3>1
      <3>3. q[i + 1] = IF i + 1 = Len(q) THEN R ELSE N(q[i + 1].pin) BY <3>1 DEF Subscribing
      <3> QED BY <3>1, <3>2, <3>3
    <2> QED BY <1>3, <2>1, <2>2, <2>3 DEF Subscribing
  <1> QED BY <1>4, <1>5

Displays == {"led", "lcd"}

\* What the other programs do not change.
Apart == UNCHANGED <<shown, life, scene, sent>>

\* The server comes down.
LEMMA TableDown ==
  ASSUME TableInv, NEW how, how # "up", Down(how), Apart
  PROVE  TableInv'
  <1>1. /\ state' = how /\ fd' = [c \in Client |-> 0] /\ toServer' = [c \in Client |-> <<>>]
        /\ UNCHANGED <<pins, notify, LastResolve, toClient, shown, life, scene, sent>>
    BY DEF Down, Apart
  <1>2. \A c \in Client : fd'[c] = 0 /\ toServer'[c] = <<>> BY <1>1
  <1>3. Types'
    <2>1. Descriptors(fd')
      <3>1. 0 \in 0 .. Cardinality(Client) BY Few
      <3> QED BY <1>1, <1>2, <3>1 DEF Descriptors
    <2>2. toServer' \in [Client -> Seq(PanelCommand)]
      <3>1. <<>> \in Seq(PanelCommand) OBVIOUS
      <3> QED BY <1>1, <3>1
    <2> QED BY <1>1, <2>1, <2>2 DEF TableInv, Types
  <1>4. Lines' BY <1>2 DEF Lines
  <1>5. Resolves' BY <1>1 DEF Resolves
  <1>6. Follows("led")' /\ Follows("lcd")' BY <1>2, Given DEF Follows
  <1> QED BY <1>3, <1>4, <1>5, <1>6 DEF TableInv

\* The levels out are worked out for programs f, one of them display c.
LEMMA StillFollows ==
  ASSUME TableInv, NEW c \in Displays, fd[c] # 0, NEW f, f[c] # 0, NEW out \in Levs, NEW asked,
         Resolve(f, out, asked)
  PROVE  Following(toServer[c], notify[c], Watched(c), SeenIn(toClient'[c], shown[c]), out)
  <1> DEFINE q == toServer[c]
             w == Watched(c)
  <1>1. c \in Client /\ w \in SUBSET Pin BY Given DEF Displays, Watched, LED_PIN
  <1>2. Following(q, notify[c], w, SeenIn(toClient[c], shown[c]), LastResolve)
    BY DEF TableInv, Follows, Displays
  <1>3. ASSUME q = <<>>, NEW p \in w PROVE SeenIn(toClient'[c], shown[c])[p] = out[p]
    <2>1. DOMAIN q = {}
      <3>1. DOMAIN <<>> = {} OBVIOUS
      <3> QED BY <1>3, <3>1, Zenon
    <2>2. w \subseteq notify[c] BY <1>2, <2>1 DEF Following
    <2>3. \A r \in w : SeenIn(toClient[c], shown[c])[r] = LastResolve[r] BY <1>2, <1>3 DEF Following
    <2> HIDE DEF w
    <2>4. Kept(f, out) BY Informed
    <2> QED BY <1>1, <1>3, <2>2, <2>3, <2>4 DEF Kept
  <1> QED BY <1>2, <1>3 DEF Following

\* The table after the levels out were worked out.
LEMMA TableFound ==
  ASSUME TableInv, NEW f, Descriptors(f), NEW ps \in [Client -> [Pin -> Drive]], NEW out, NEW asked,
         out = Levels(f, ps), ~Raises(out), Resolve(f, out, asked), fd' = f, pins' = ps
  PROVE  out \in Levs /\ Resolves' /\ LastResolve' \in Levs /\ toClient' \in [Client -> Seq(Levs)]
  <1>1. out \in Levs /\ \A p \in Pin : out[p] = LevelIn(f, ps, p) BY LevelsFound
  <1>2. toClient' \in [Client -> Seq(Levs)] /\ LastResolve' = out BY <1>1, Informed
  <1>3. Resolves' BY <1>1, <1>2 DEF Resolves
  <1> QED BY <1>1, <1>2, <1>3

\* A connection is closed.
LEMMA TableClose ==
  ASSUME TableInv, NEW c \in Client, NEW ps \in [Client -> [Pin -> Drive]], handle_close(c, ps), Apart
  PROVE  TableInv'
  <1> DEFINE left == [fd EXCEPT ![c] = 0]
  <1>1. CASE Down("crashed") BY <1>1, TableDown
  <1>2. CASE ~Down("crashed")
    <2>1. PICK out \in {Levels(left, ps)} :
            /\ ~Raises(out) /\ fd' = left /\ toServer' = [toServer EXCEPT ![c] = <<>>] /\ pins' = ps
            /\ Resolve(left, out, {}) /\ UNCHANGED <<state, notify>>
      BY <1>2 DEF handle_close
    <2>2. fd \in [Client -> 0 .. Cardinality(Client)] /\ toServer \in [Client -> Seq(PanelCommand)]
      BY DEF TableInv, Types, Descriptors
    <2>3. /\ left[c] = 0 /\ toServer'[c] = <<>>
          /\ \A d \in Client : d # c => left[d] = fd[d] /\ toServer'[d] = toServer[d]
      BY <2>1, <2>2
    <2>4. Descriptors(left)
      <3>1. 0 \in 0 .. Cardinality(Client) BY Few
      <3>2. left \in [Client -> 0 .. Cardinality(Client)] BY <2>2, <3>1
      <3> HIDE DEF left
      <3> QED BY <2>3, <3>2 DEF TableInv, Types, Descriptors
    <2>5. out \in Levs /\ Resolves' /\ LastResolve' \in Levs /\ toClient' \in [Client -> Seq(Levs)]
      <3> HIDE DEF left
      <3> QED BY <2>1, <2>4, TableFound
    <2>6. Types'
      <3>1. toServer' \in [Client -> Seq(PanelCommand)]
        <4>1. <<>> \in Seq(PanelCommand) OBVIOUS
        <4> QED BY <2>1, <2>2, <4>1
      <3>2. Descriptors(fd') BY <2>1, <2>4
      <3>3. pins' \in [Client -> [Pin -> Drive]] BY <2>1
      <3> QED BY <2>1, <2>5, <3>1, <3>2, <3>3 DEF TableInv, Types, Apart
    <2> HIDE DEF left
    <2>7. Lines'
      <3> SUFFICES ASSUME NEW d \in Client
                   PROVE  /\ toServer'[d] # <<>> => fd'[d] # 0
                          /\ fd'[d] # 0 => state' = "up"
                          /\ \A i \in DOMAIN toServer'[d] : toServer'[d][i] = Bye => life'[d] = "over"
        BY DEF Lines
      <3>1. CASE d = c
        <4>1. DOMAIN <<>> = {} OBVIOUS
        <4>2. fd'[d] = 0 /\ toServer'[d] = <<>> BY <2>1, <2>3, <3>1
        <4> QED BY <4>1, <4>2
      <3>2. CASE d # c
        <4>1. fd'[d] = fd[d] /\ toServer'[d] = toServer[d] /\ state' = state /\ life' = life
          BY <2>1, <2>3, <3>2 DEF Apart
        <4> QED BY <4>1 DEF TableInv, Lines
      <3> QED BY <3>1, <3>2
    <2>8. ASSUME NEW d \in Displays, d \in Client PROVE Follows(d)'
      <3> SUFFICES ASSUME fd'[d] # 0
                   PROVE  Following(toServer'[d], notify'[d], Watched(d), SeenIn(toClient'[d], shown'[d]), LastResolve')
        BY DEF Follows
      <3>0. fd' = left BY <2>1
      <3>1. d # c /\ left[d] = fd[d] /\ fd[d] # 0 BY <2>3, <2>8, <3>0
      <3>2. Following(toServer[d], notify[d], Watched(d), SeenIn(toClient'[d], shown[d]), out)
        BY <2>1, <2>5, <3>1, StillFollows
      <3>3. toServer'[d] = toServer[d] /\ notify' = notify /\ shown' = shown /\ LastResolve' = out
        BY <2>1, <2>3, <3>1 DEF Resolve, Apart
      <3> QED BY <3>2, <3>3
    <2> QED BY <2>5, <2>6, <2>7, <2>8, Given DEF TableInv, Displays
  <1> QED BY <1>1, <1>2

\* The command that is done is gone.
LEMMA LinesFirst ==
  ASSUME TableInv, NEW c \in Client, toServer[c] # <<>>, toServer' = [toServer EXCEPT ![c] = Tail(@)],
         UNCHANGED <<state, fd, life>>
  PROVE  /\ Lines' /\ toServer' \in [Client -> Seq(PanelCommand)]
         /\ toServer'[c] = Tail(toServer[c]) /\ \A d \in Client : d # c => toServer'[d] = toServer[d]
  <1> DEFINE q == toServer[c]
  <1>1. toServer \in [Client -> Seq(PanelCommand)] /\ q \in Seq(PanelCommand) BY DEF TableInv, Types
  <1>2. /\ Tail(q) \in Seq(PanelCommand)
        /\ \A i \in DOMAIN Tail(q) : i + 1 \in DOMAIN q /\ Tail(q)[i] = q[i + 1]
    BY <1>1, FirstDone
  <1>3. /\ toServer' \in [Client -> Seq(PanelCommand)]
        /\ toServer'[c] = Tail(q) /\ \A d \in Client : d # c => toServer'[d] = toServer[d]
    BY <1>1, <1>2
  <1>4. ASSUME NEW d \in Client
        PROVE  /\ toServer'[d] # <<>> => fd'[d] # 0
               /\ fd'[d] # 0 => state' = "up"
               /\ \A i \in DOMAIN toServer'[d] : toServer'[d][i] = Bye => life'[d] = "over"
    <2>1. CASE d = c
      <3>1. fd[c] # 0 /\ state = "up" BY DEF TableInv, Lines
      <3>2. \A i \in DOMAIN q : q[i] = Bye => life[c] = "over" BY DEF TableInv, Lines
      <3>3. \A i \in DOMAIN Tail(q) : Tail(q)[i] = Bye => life[c] = "over" BY <1>2, <3>2
      <3> QED BY <1>3, <2>1, <3>1, <3>3
    <2>2. CASE d # c
      <3>1. toServer'[d] = toServer[d] BY <1>3, <2>2
      <3> QED BY <3>1 DEF TableInv, Lines
    <2> QED BY <2>1, <2>2
  <1> QED BY <1>3, <1>4 DEF Lines

\* A command that works out the levels: the query, or a write, which no
\* display sends.
LEMMA TableResolved ==
  ASSUME TableInv, NEW c \in Client, toServer[c] # <<>>, NEW ps \in [Client -> [Pin -> Drive]], NEW asked,
         \/ Head(toServer[c]) = R /\ c \in asked
         \/ Head(toServer[c]).cmd = "W",
         Resolved(c, ps, asked), Apart
  PROVE  TableInv'
  <1> DEFINE q == toServer[c]
  <1>1. CASE handle_close(c, ps) BY <1>1, TableClose
  <1>2. CASE ~handle_close(c, ps)
    <2>1. PICK out \in {Levels(fd, ps)} :
            /\ ~Raises(out) /\ toServer' = [toServer EXCEPT ![c] = Tail(@)] /\ pins' = ps
            /\ Resolve(fd, out, asked) /\ UNCHANGED <<state, fd, notify>>
      BY <1>2 DEF Resolved
    <2>2. Descriptors(fd) /\ q \in Seq(PanelCommand) BY DEF TableInv, Types
    <2>3. out \in Levs /\ Resolves' /\ LastResolve' \in Levs /\ toClient' \in [Client -> Seq(Levs)]
      BY <2>1, <2>2, TableFound
    <2>4. /\ Lines' /\ toServer' \in [Client -> Seq(PanelCommand)]
          /\ toServer'[c] = Tail(q) /\ \A d \in Client : d # c => toServer'[d] = toServer[d]
      BY <2>1, LinesFirst DEF Apart
    <2>5. Types'
      <3>1. Descriptors(fd') BY <2>1, <2>2
      <3>2. pins' \in [Client -> [Pin -> Drive]] BY <2>1
      <3> QED BY <2>1, <2>3, <2>4, <3>1, <3>2 DEF TableInv, Types, Apart
    <2>6. ASSUME NEW d \in Displays, d \in Client PROVE Follows(d)'
      <3> SUFFICES ASSUME fd[d] # 0
                   PROVE  Following(toServer'[d], notify[d], Watched(d), SeenIn(toClient'[d], shown[d]), out)
        <4>1. fd' = fd /\ notify' = notify /\ shown' = shown /\ LastResolve' = out BY <2>1 DEF Resolve, Apart
        <4> QED BY <4>1 DEF Follows
      <3>1. Following(toServer[d], notify[d], Watched(d), SeenIn(toClient'[d], shown[d]), out)
        BY <2>1, <2>3, <2>6, StillFollows
      <3>2. CASE d # c
        <4>1. toServer'[d] = toServer[d] BY <2>4, <2>6, <3>2
        <4> QED BY <3>1, <4>1
      <3>3. CASE d = c
        <4>1. Subscribing(q) /\ \A p \in Watched(c) : p \in notify[c] \/ \E i \in DOMAIN q : q[i] = N(p)
          BY <3>1, <3>3 DEF Following
        <4>2. Head(q) # N(Head(q).pin)
          <5>1. Head(q) = R \/ Head(q).cmd = "W" OBVIOUS
          <5>2. N(Head(q).pin).cmd = "NOTIFY" BY DEF N
          <5>3. R.cmd = "R" BY DEF R
          <5> QED BY <5>1, <5>2, <5>3
        <4>3. Head(q) = R /\ Tail(q) = <<>> /\ \A i \in DOMAIN q : q[i] = R
          BY <2>2, <4>1, <4>2, SubscriptionFirst
        <4>4. c \in asked
          <5>1. R.cmd = "R" BY DEF R
          <5> QED BY <4>3, <5>1
        <4>5. SeenIn(toClient'[c], shown[c]) = out
          <5>1. \A e \in Client : e \in asked => SeenIn(toClient'[e], shown[e]) = out BY <2>1, <2>3, Informed
          <5> QED BY <4>4, <5>1
        <4>6. \A p \in Watched(c) : p \in notify[c] BY <4>1, <4>3, Distinct
        <4>7. toServer'[c] = <<>> BY <2>4, <4>3
        <4>8. Subscribing(<<>>)
          <5>1. DOMAIN <<>> = {} OBVIOUS
          <5> QED BY <5>1 DEF Subscribing
        <4> QED BY <3>3, <4>5, <4>6, <4>7, <4>8 DEF Following
      <3> QED BY <3>2, <3>3
    <2> QED BY <2>3, <2>4, <2>5, <2>6, Given DEF TableInv, Displays
  <1> QED BY <1>1, <1>2

\* A subscription to one more pin.
LEMMA TableNotify ==
  ASSUME TableInv, NEW c \in Client, toServer[c] # <<>>, NEW x \in Pin, Head(toServer[c]) = N(x),
         notify' = [notify EXCEPT ![c] = @ \cup {x}], toServer' = [toServer EXCEPT ![c] = Tail(@)],
         UNCHANGED <<state, fd, pins, LastResolve, toClient>>, Apart
  PROVE  TableInv'
  <1> DEFINE q == toServer[c]
  <1>1. q \in Seq(PanelCommand) /\ notify \in [Client -> SUBSET Pin] BY DEF TableInv, Types
  <1>2. /\ Lines' /\ toServer' \in [Client -> Seq(PanelCommand)]
        /\ toServer'[c] = Tail(q) /\ \A d \in Client : d # c => toServer'[d] = toServer[d]
    BY LinesFirst DEF Apart
  <1>3. /\ notify' \in [Client -> SUBSET Pin] /\ notify'[c] = notify[c] \cup {x}
        /\ \A d \in Client : d # c => notify'[d] = notify[d]
    BY <1>1
  <1>4. Types' BY <1>2, <1>3 DEF TableInv, Types, Apart
  <1>5. Resolves' BY DEF TableInv, Resolves
  <1>6. ASSUME NEW d \in Displays, d \in Client PROVE Follows(d)'
    <2> SUFFICES ASSUME fd[d] # 0
                 PROVE  Following(toServer'[d], notify'[d], Watched(d), SeenIn(toClient[d], shown[d]), LastResolve)
      BY DEF Follows, Apart
    <2>1. Following(toServer[d], notify[d], Watched(d), SeenIn(toClient[d], shown[d]), LastResolve)
      BY <1>6 DEF TableInv, Follows, Displays
    <2>2. CASE d # c BY <1>2, <1>3, <2>1, <2>2
    <2>3. CASE d = c
      <3>1. Subscribing(q) /\ \A p \in Watched(c) : p \in notify[c] \/ \E i \in DOMAIN q : q[i] = N(p)
        BY <2>1, <2>3 DEF Following
      <3>2. Tail(q) # <<>> /\ Subscribing(Tail(q)) BY <1>1, <3>1, SubscriptionFirst, Distinct
      <3>3. ASSUME NEW p \in Watched(c), p \notin notify[c], p # x PROVE \E i \in DOMAIN Tail(q) : Tail(q)[i] = N(p)
        <4>1. PICK i \in DOMAIN q : q[i] = N(p) BY <3>1, <3>3
        <4>2. i # 1 BY <1>1, <3>3, <4>1, FirstDone, Distinct
        <4>3. i - 1 \in DOMAIN Tail(q) /\ Tail(q)[i - 1] = q[i] BY <1>1, <4>1, <4>2, FirstDone
        <4> QED BY <4>1, <4>3
      <3> QED BY <1>2, <1>3, <2>3, <3>2, <3>3 DEF Following
    <2> QED BY <2>2, <2>3
  <1> QED BY <1>2, <1>4, <1>5, <1>6, Given DEF TableInv, Displays

\* The server does a command.
LEMMA TableServed ==
  ASSUME TableInv, NEW c \in Client, found_terminator(c), Apart
  PROVE  TableInv'
  <1> DEFINE m == Head(toServer[c])
  <1>1. toServer[c] # <<>> /\ toServer[c] \in Seq(PanelCommand) BY DEF TableInv, Types, found_terminator
  <1>2. m \in PanelCommand BY <1>1, FirstDone
  <1>3. pins \in [Client -> [Pin -> Drive]] BY DEF TableInv, Types
  <1>4. CASE m.cmd = "W" /\ Resolved(c, [pins EXCEPT ![c][m.pin] = m.val], {})
    <2> DEFINE ps == [pins EXCEPT ![c][m.pin] = m.val]
    <2>1. m.pin \in Pin /\ m.val \in Drive BY <1>2, <1>4, Kinds
    <2>2. ps \in [Client -> [Pin -> Drive]] BY <1>3, <2>1
    <2> HIDE DEF ps
    <2>3. Resolved(c, ps, {}) BY <1>4 DEF ps
    <2> QED BY <1>1, <1>4, <2>2, <2>3, TableResolved
  <1>5. CASE m.cmd = "R" /\ Resolved(c, pins, {c})
    <2>1. m = R BY <1>2, <1>5, Kinds
    <2> QED BY <1>1, <1>3, <1>5, <2>1, TableResolved
  <1>6. CASE /\ m.cmd = "NOTIFY"
             /\ notify' = [notify EXCEPT ![c] = @ \cup {m.pin}]
             /\ toServer' = [toServer EXCEPT ![c] = Tail(@)]
             /\ UNCHANGED <<state, fd, pins, LastResolve, toClient>>
    <2>1. PICK x \in Pin : x = m.pin /\ m = N(x) BY <1>2, <1>6, Kinds
    <2>2. notify' = [notify EXCEPT ![c] = @ \cup {x}] BY <1>6, <2>1
    <2> QED BY <1>1, <1>6, <2>1, <2>2, TableNotify
  <1>7. CASE m.cmd = "close" /\ handle_close(c, pins) BY <1>3, <1>7, TableClose
  <1> QED BY <1>4, <1>5, <1>6, <1>7 DEF found_terminator

-----------------------------------------------------------------------------
(* The programs on the panel *)

\* There is a free descriptor for a program that has none, and a lowest one.
LEMMA FreeDescriptor ==
  ASSUME Descriptors(fd), NEW c \in Client, fd[c] = 0
  PROVE  \E n \in 1 .. Cardinality(Client) :
           /\ \A d \in Client : fd[d] # n
           /\ \A k \in 1 .. n - 1 : \E d \in Client : fd[d] = k
  <1> DEFINE all == 1 .. Cardinality(Client)
             rest == Client \ {c}
             g == [d \in rest |-> fd[d]]
             used == {g[d] : d \in rest}
             free == all \ used
  <1>1. Cardinality(Client) \in Nat /\ IsFiniteSet(Client) BY Few, PanelAssumption
  <1>2. IsFiniteSet(rest) /\ Cardinality(rest) = Cardinality(Client) - 1 BY <1>1, FS_RemoveElement
  <1>3. IsFiniteSet(all) /\ Cardinality(all) = Cardinality(Client)
    <2>0. 1 \in Int /\ Cardinality(Client) \in Int BY <1>1
    <2>1. IsFiniteSet(all) /\ Cardinality(all) = IF 1 > Cardinality(Client) THEN 0 ELSE Cardinality(Client) - 1 + 1
      BY <2>0, FS_Interval
    <2> QED BY <1>1, <2>1
  <1>4. IsFiniteSet(used) /\ Cardinality(used) <= Cardinality(rest) /\ Cardinality(used) \in Nat
    <2>1. g \in Surjection(rest, used) BY DEF Surjection
    <2> HIDE DEF g, used, rest
    <2>2. IsFiniteSet(used) /\ Cardinality(used) <= Cardinality(rest) BY <1>2, <2>1, FS_Surjection
    <2> QED BY <2>2, FS_CardinalityType
  <1>5. free # {}
    <2> HIDE DEF all, used, rest
    <2> SUFFICES ASSUME free = {} PROVE FALSE OBVIOUS
    <2>1. all \in SUBSET used OBVIOUS
    <2>2. Cardinality(all) <= Cardinality(used) BY <1>4, <2>1, FS_Subset
    <2> QED BY <1>1, <1>2, <1>3, <1>4, <2>2
  <1>6. free \in SUBSET all /\ free \in SUBSET Nat BY <1>1
  <1>7. IsFiniteSet(free)
    <2> HIDE DEF free, all
    <2> QED BY <1>3, <1>6, FS_Subset
  <1>8. PICK n \in free : \A k \in free : n <= k
    <2> HIDE DEF free
    <2> QED BY <1>5, <1>6, <1>7, Least
  <1>9. n \in all /\ n \in Nat /\ n # 0 BY <1>1, <1>6
  <1>10. ASSUME NEW d \in Client PROVE fd[d] # n
    <2>1. CASE d = c BY <1>9, <2>1
    <2>2. CASE d # c
      <3>1. d \in rest /\ g[d] \in used /\ g[d] = fd[d] BY <2>2
      <3> QED BY <1>8, <3>1
    <2> QED BY <2>1, <2>2
  <1>11. ASSUME NEW k \in 1 .. n - 1 PROVE \E d \in Client : fd[d] = k
    <2>1. k \in all /\ ~(n <= k) BY <1>1, <1>9, <1>11
    <2>2. k \in used BY <1>8, <2>1
    <2> QED BY <2>2
  <1> QED BY <1>9, <1>10, <1>11

\* A new connection: no two have the same descriptor.
LEMMA Joins ==
  ASSUME TableInv, NEW c \in Client, NEW commands, Accept(c, commands)
  PROVE  /\ Descriptors(fd') /\ fd'[c] # 0 /\ fd[c] = 0 /\ \A d \in Client : d # c => fd'[d] = fd[d]
  <1> DEFINE Free(n) == /\ \A d \in Client : fd[d] # n
                        /\ \A k \in 1 .. n - 1 : \E d \in Client : fd[d] = k
             new == CHOOSE n \in 1 .. Cardinality(Client) : Free(n)
  <1>1. Descriptors(fd) /\ fd[c] = 0 /\ fd' = [fd EXCEPT ![c] = new] BY DEF TableInv, Types, Accept
  <1>2. \E n \in 1 .. Cardinality(Client) : Free(n) BY <1>1, FreeDescriptor
  <1> HIDE DEF Free
  <1>3. new \in 1 .. Cardinality(Client) /\ Free(new) BY <1>2
  <1> HIDE DEF new
  <1>4. new # 0 /\ new \in 0 .. Cardinality(Client) /\ \A d \in Client : fd[d] # new BY <1>3, Few DEF Free
  <1>5. fd \in [Client -> 0 .. Cardinality(Client)] BY <1>1 DEF Descriptors
  <1>6. /\ fd' \in [Client -> 0 .. Cardinality(Client)] /\ fd'[c] = new
        /\ \A d \in Client : d # c => fd'[d] = fd[d]
    BY <1>1, <1>4, <1>5
  <1>7. ASSUME NEW d \in Client, NEW e \in Client, fd'[d] # 0, fd'[d] = fd'[e] PROVE d = e
    BY <1>1, <1>4, <1>6, <1>7 DEF Descriptors
  <1> QED BY <1>1, <1>4, <1>6, <1>7 DEF Descriptors

\* Who joins changes no level, and a display that subscribes will follow.
LEMMA TableJoins ==
  ASSUME TableInv, NEW c \in Client, NEW commands \in Seq(PanelCommand), Accept(c, commands),
         \A i \in DOMAIN commands : commands[i] # Bye,
         c \in Displays =>
           commands # <<>> /\ Subscribing(commands) /\ \A p \in Watched(c) : \E i \in DOMAIN commands : commands[i] = N(p),
         life' \in [Client -> {"new", "on", "over"}], \A d \in Client : d # c => life'[d] = life[d],
         UNCHANGED <<shown, scene, sent>>
  PROVE  TableInv'
  <1>1. /\ Descriptors(fd') /\ fd'[c] # 0 /\ fd[c] = 0 /\ \A d \in Client : d # c => fd'[d] = fd[d]
    BY Joins
  <1>2. /\ state = "up" /\ pins' = [pins EXCEPT ![c] = AllX] /\ notify' = [notify EXCEPT ![c] = {}]
        /\ toServer' = [toServer EXCEPT ![c] = commands] /\ toClient' = [toClient EXCEPT ![c] = <<>>]
        /\ UNCHANGED <<state, LastResolve>>
    BY DEF Accept
  <1>3. /\ pins \in [Client -> [Pin -> Drive]] /\ notify \in [Client -> SUBSET Pin]
        /\ toServer \in [Client -> Seq(PanelCommand)] /\ toClient \in [Client -> Seq(Levs)]
    BY DEF TableInv, Types
  <1>4. /\ pins' \in [Client -> [Pin -> Drive]] /\ notify' \in [Client -> SUBSET Pin]
        /\ toServer' \in [Client -> Seq(PanelCommand)] /\ toClient' \in [Client -> Seq(Levs)]
    <2>1. AllX \in [Pin -> Drive] BY DEF AllX, Drive
    <2>2. <<>> \in Seq(Levs) OBVIOUS
    <2>3. pins' \in [Client -> [Pin -> Drive]] BY <1>2, <1>3, <2>1
    <2>4. notify' \in [Client -> SUBSET Pin] BY <1>2, <1>3
    <2>5. toServer' \in [Client -> Seq(PanelCommand)] BY <1>2, <1>3
    <2>6. toClient' \in [Client -> Seq(Levs)] BY <1>2, <1>3, <2>2
    <2> QED BY <2>3, <2>4, <2>5, <2>6
  <1>5. pins'[c] = AllX /\ toServer'[c] = commands BY <1>2, <1>3
  <1>6. \A d \in Client : d # c => /\ pins'[d] = pins[d] /\ notify'[d] = notify[d]
                                   /\ toServer'[d] = toServer[d] /\ toClient'[d] = toClient[d]
    BY <1>2, <1>3
  <1>7. Types' BY <1>1, <1>2, <1>4 DEF TableInv, Types
  <1>8. Lines'
    <2> SUFFICES ASSUME NEW d \in Client
                 PROVE  /\ toServer'[d] # <<>> => fd'[d] # 0
                        /\ fd'[d] # 0 => state' = "up"
                        /\ \A i \in DOMAIN toServer'[d] : toServer'[d][i] = Bye => life'[d] = "over"
      BY DEF Lines
    <2>1. CASE d = c BY <1>1, <1>2, <1>5, <2>1
    <2>2. CASE d # c
      <3>1. fd'[d] = fd[d] /\ toServer'[d] = toServer[d] /\ life'[d] = life[d] BY <1>1, <1>6, <2>2
      <3> QED BY <1>2, <3>1 DEF TableInv, Lines
    <2> QED BY <2>1, <2>2
  <1>9. Resolves'
    <2>1. ASSUME NEW p \in Pin, NEW v \in {"1", "0", "P"}
          PROVE  DrivenIn(fd', pins', p, v) <=> DrivenIn(fd, pins, p, v)
      <3>1. pins'[c][p] = "X" BY <1>5 DEF AllX
      <3>2. v # "X" BY <2>1
      <3> QED BY <1>1, <1>6, <3>1, <3>2 DEF DrivenIn, Connected
    <2>2. \A p \in Pin : LevelIn(fd', pins', p) = LevelIn(fd, pins, p) BY <2>1 DEF LevelIn
    <2> QED BY <1>2, <2>2 DEF TableInv, Resolves
  <1>10. ASSUME NEW d \in Displays, d \in Client PROVE Follows(d)'
    <2>1. CASE d = c
      <3>1. Following(commands, notify'[c], Watched(c), SeenIn(toClient'[c], shown'[c]), LastResolve')
        BY <1>10, <2>1 DEF Following
      <3> QED BY <1>5, <2>1, <3>1 DEF Follows
    <2>2. CASE d # c
      <3>1. /\ fd'[d] = fd[d] /\ notify'[d] = notify[d] /\ toServer'[d] = toServer[d] /\ toClient'[d] = toClient[d]
        BY <1>1, <1>6, <1>10, <2>2
      <3>2. Follows(d) BY <1>10 DEF TableInv, Displays
      <3>3. LastResolve' = LastResolve /\ shown' = shown BY <1>2
      <3> QED BY <3>1, <3>2, <3>3 DEF Follows
    <2> QED BY <2>1, <2>2
  <1> QED BY <1>7, <1>8, <1>9, <1>10, Given DEF TableInv, Displays

\* Programs do not come back.
LifeGoes ==
  /\ life' \in [Client -> {"new", "on", "over"}]
  /\ \A d \in Client : life[d] = "over" => life'[d] = "over"

\* A program that starts or ends.
LEMMA Lives ==
  ASSUME TableInv, NEW c \in Client, NEW l \in {"on", "over"}, l = "on" => life[c] # "over",
         life' = [life EXCEPT ![c] = l]
  PROVE  LifeGoes /\ life'[c] = l /\ \A d \in Client : d # c => life'[d] = life[d]
  <1>1. life \in [Client -> {"new", "on", "over"}] BY DEF TableInv, Types
  <1>2. life' \in [Client -> {"new", "on", "over"}] BY <1>1
  <1>3. life'[c] = l /\ \A d \in Client : d # c => life'[d] = life[d] BY <1>1
  <1>4. \A d \in Client : life[d] = "over" => life'[d] = "over" BY <1>3
  <1> QED BY <1>2, <1>3, <1>4 DEF LifeGoes

\* And one that goes on.
LEMMA LivesOn ==
  ASSUME TableInv, UNCHANGED life
  PROVE  LifeGoes
  BY DEF TableInv, Types, LifeGoes

\* Steps that are none of the panel's.
LEMMA TableQuiet ==
  ASSUME TableInv, UNCHANGED <<panel, shown, scene>>, LifeGoes, sent' \in Nat
  PROVE  TableInv'
  <1>1. UNCHANGED <<state, fd, pins, notify, LastResolve, toServer, toClient, shown, scene>> BY DEF panel, server
  <1>2. Types' BY <1>1 DEF TableInv, Types, LifeGoes
  <1>3. Lines' BY <1>1 DEF TableInv, Lines, LifeGoes
  <1>4. Resolves' BY <1>1 DEF TableInv, Resolves
  <1>5. Follows("led")' /\ Follows("lcd")' BY <1>1 DEF TableInv, Follows
  <1> QED BY <1>2, <1>3, <1>4, <1>5 DEF TableInv

\* What displays send when they start.
FirstOf(c, commands) ==
  /\ commands \in Seq(PanelCommand) /\ \A i \in DOMAIN commands : commands[i] # Bye
  /\ c \in Displays =>
       /\ commands # <<>> /\ Subscribing(commands)
       /\ \A p \in Watched(c) : \E i \in DOMAIN commands : commands[i] = N(p)

\* A program starts.
LEMMA TableStarts ==
  ASSUME TableInv, NEW c \in Client, NEW commands, FirstOf(c, commands), Starts(c, commands),
         UNCHANGED <<scene, shown, sent>>
  PROVE  TableInv'
  <1>1. life[c] = "new" BY DEF Starts
  <1>2. CASE Accept(c, commands) /\ life' = [life EXCEPT ![c] = "on"]
    <2>1. LifeGoes /\ \A d \in Client : d # c => life'[d] = life[d] BY <1>1, <1>2, Lives
    <2> QED BY <1>2, <2>1, TableJoins DEF FirstOf, LifeGoes
  <1>3. CASE life' = [life EXCEPT ![c] = "over"] /\ UNCHANGED panel
    <2>1. LifeGoes BY <1>3, Lives
    <2>2. sent' \in Nat BY DEF TableInv, Types
    <2> QED BY <1>3, <2>1, <2>2, TableQuiet
  <1> QED BY <1>2, <1>3 DEF Starts

\* A program that is no display sends.
LEMMA TableSends ==
  ASSUME TableInv, NEW c \in Client, c \notin Displays, NEW commands \in Seq(PanelCommand), Sends(c, commands),
         LifeGoes, \A i \in DOMAIN commands : commands[i] = Bye => life'[c] = "over",
         UNCHANGED <<scene, shown>>, sent' \in Nat
  PROVE  TableInv'
  <1>1. CASE UNCHANGED panel BY <1>1, TableQuiet
  <1>2. CASE fd[c] # 0 /\ Send(c, commands)
    <2> DEFINE q == toServer[c]
               r == q \o commands
    <2>1. toServer' = [toServer EXCEPT ![c] = r] /\ UNCHANGED <<state, fd, pins, notify, LastResolve, toClient>>
      BY <1>2 DEF Send, server
    <2>2. toServer \in [Client -> Seq(PanelCommand)] /\ q \in Seq(PanelCommand) BY DEF TableInv, Types
    <2> HIDE DEF r
    <2>3. r = q \o commands BY DEF r
    <2>4. r \in Seq(PanelCommand) BY <2>2, <2>3, Joined
    <2>5. \A i \in DOMAIN r : (i \in DOMAIN q /\ r[i] = q[i]) \/ \E k \in DOMAIN commands : r[i] = commands[k]
      BY <2>2, <2>3, Joined
    <2>6. /\ toServer' \in [Client -> Seq(PanelCommand)] /\ toServer'[c] = r
          /\ \A d \in Client : d # c => toServer'[d] = toServer[d]
      BY <2>1, <2>2, <2>4
    <2>7. Types' BY <2>1, <2>6 DEF TableInv, Types, LifeGoes
    <2>8. Lines'
      <3> SUFFICES ASSUME NEW d \in Client
                   PROVE  /\ toServer'[d] # <<>> => fd[d] # 0
                          /\ fd[d] # 0 => state = "up"
                          /\ \A i \in DOMAIN toServer'[d] : toServer'[d][i] = Bye => life'[d] = "over"
        BY <2>1 DEF Lines
      <3>0. fd[d] # 0 => state = "up" BY DEF TableInv, Lines
      <3>1. CASE d = c
        <4>1. \A i \in DOMAIN q : q[i] = Bye => life'[c] = "over" BY DEF TableInv, Lines, LifeGoes
        <4>2. \A i \in DOMAIN r : r[i] = Bye => life'[c] = "over" BY <2>5, <4>1
        <4> QED BY <1>2, <2>6, <3>0, <3>1, <4>2
      <3>2. CASE d # c
        <4>1. toServer'[d] = toServer[d] BY <2>6, <3>2
        <4> QED BY <3>0, <4>1 DEF TableInv, Lines, LifeGoes
      <3> QED BY <3>1, <3>2
    <2>9. Resolves' BY <2>1 DEF TableInv, Resolves
    <2>10. Follows("led")' /\ Follows("lcd")'
      <3>1. toServer'["led"] = toServer["led"] /\ toServer'["lcd"] = toServer["lcd"] BY <2>6, Given DEF Displays
      <3> QED BY <2>1, <3>1 DEF TableInv, Follows
    <2> QED BY <2>7, <2>8, <2>9, <2>10 DEF TableInv
  <1> QED BY <1>1, <1>2 DEF Sends

\* A program takes levels, and a display shows them.
LEMMA TableTakes ==
  ASSUME TableInv, NEW c \in Client, Taken(c),
         \/ c \in Displays /\ shown' = [shown EXCEPT ![c] = Head(toClient[c])]
         \/ c \notin Displays /\ shown' = shown,
         UNCHANGED <<life, scene, sent>>
  PROVE  TableInv'
  <1> DEFINE a == toClient[c]
  <1>1. /\ a # <<>> /\ toClient' = [toClient EXCEPT ![c] = Tail(a)]
        /\ UNCHANGED <<state, fd, pins, notify, LastResolve, toServer>>
    BY DEF Taken, server
  <1>2. toClient \in [Client -> Seq(Levs)] /\ a \in Seq(Levs) /\ shown \in [Client -> Levs] BY DEF TableInv, Types
  <1>3. Tail(a) \in Seq(Levs) /\ Head(a) \in Levs /\ \A s : SeenIn(Tail(a), Head(a)) = SeenIn(a, s)
    BY <1>1, <1>2, SeenTaken
  <1>4. /\ toClient' \in [Client -> Seq(Levs)] /\ toClient'[c] = Tail(a)
        /\ \A d \in Client : d # c => toClient'[d] = toClient[d]
    BY <1>1, <1>2, <1>3
  <1>5. /\ shown' \in [Client -> Levs] /\ \A d \in Client : d # c => shown'[d] = shown[d]
        /\ c \in Displays => shown'[c] = Head(a)
    BY <1>2, <1>3
  <1>6. Types' BY <1>1, <1>4, <1>5 DEF TableInv, Types
  <1>7. Lines' BY <1>1 DEF TableInv, Lines
  <1>8. Resolves' BY <1>1 DEF TableInv, Resolves
  <1>9. ASSUME NEW d \in Displays, d \in Client PROVE Follows(d)'
    <2>1. SeenIn(toClient'[d], shown'[d]) = SeenIn(toClient[d], shown[d])
      <3>1. CASE d = c
        <4>1. toClient'[d] = Tail(a) /\ shown'[d] = Head(a) BY <1>4, <1>5, <1>9, <3>1
        <4> QED BY <1>3, <3>1, <4>1
      <3>2. CASE d # c
        <4>1. toClient'[d] = toClient[d] /\ shown'[d] = shown[d] BY <1>4, <1>5, <1>9, <3>2
        <4> QED BY <4>1
      <3> QED BY <3>1, <3>2
    <2>2. Follows(d) BY <1>9 DEF TableInv, Displays
    <2>3. fd' = fd /\ toServer' = toServer /\ notify' = notify /\ LastResolve' = LastResolve BY <1>1
    <2> QED BY <2>1, <2>2, <2>3 DEF Follows
  <1> QED BY <1>6, <1>7, <1>8, <1>9, Given DEF TableInv, Displays

-----------------------------------------------------------------------------
(* What the programs send *)

PanelWrite == [cmd : {"W"}, pin : Pin, val : Drive]

\* A write.
LEMMA WriteOf ==
  ASSUME NEW p \in Pin, NEW v \in Drive
  PROVE  W(p, v) \in PanelWrite
  BY DEF W, PanelWrite

\* Writes are commands that end nothing.
LEMMA OnlyWrites ==
  ASSUME NEW s \in Seq(PanelWrite)
  PROVE  s \in Seq(PanelCommand) /\ \A i \in DOMAIN s : s[i] # Bye
  <1>1. \A m \in PanelWrite : m \in PanelCommand /\ m # Bye BY DEF PanelWrite, PanelCommand, Bye
  <1>2. Len(s) \in Nat /\ DOMAIN s = 1 .. Len(s) /\ s = [i \in 1 .. Len(s) |-> s[i]] BY LenProperties
  <1>3. \A i \in 1 .. Len(s) : s[i] \in PanelWrite BY ElementOfSeq
  <1>4. s \in [1 .. Len(s) -> PanelCommand]
    <2>1. \A i \in 1 .. Len(s) : s[i] \in PanelCommand BY <1>1, <1>3
    <2> QED BY <1>2, <2>1
  <1> QED BY <1>1, <1>2, <1>3, <1>4

\* The pins of the port are those below their number.
LEMMA PinsOfPort ==
  \A i \in 1 .. Cardinality(PortPins) : i - 1 \in Pin
  <1> SUFFICES ASSUME NEW i \in 1 .. Cardinality(PortPins), i - 1 \notin PortPins PROVE FALSE BY Given
  <1>1. PortPins \in SUBSET Nat /\ IsFiniteSet(PortPins) /\ \A p \in PortPins : 0 .. p \subseteq PortPins BY Given
  <1>2. Cardinality(PortPins) \in Nat BY <1>1, FS_CardinalityType
  <1>3. PICK n \in Nat : n = i - 1 /\ n < Cardinality(PortPins) BY <1>2
  <1> DEFINE T == 0 .. n - 1
  <1>4. ASSUME NEW p \in PortPins PROVE p \in T
    <2>1. p \in Nat /\ n \notin 0 .. p BY <1>1, <1>3
    <2> QED BY <1>3, <2>1
  <1>5. IsFiniteSet(T) /\ Cardinality(T) = n
    <2>0. 0 \in Int /\ n - 1 \in Int BY <1>3
    <2>1. IsFiniteSet(T) /\ Cardinality(T) = IF 0 > n - 1 THEN 0 ELSE n - 1 - 0 + 1 BY <2>0, FS_Interval
    <2> QED BY <1>3, <2>1
  <1>6. PortPins \in SUBSET T BY <1>4
  <1> HIDE DEF T
  <1>7. Cardinality(PortPins) <= Cardinality(T) BY <1>5, <1>6, FS_Subset
  <1> QED BY <1>2, <1>3, <1>5, <1>7

\* The port pulls its pins up,
LEMMA FirstSent == FirstOf("port", FirstCommands)
  <1>1. Cardinality(PortPins) \in Nat BY Given, FS_CardinalityType
  <1>2. "P" \in Drive BY DEF Drive
  <1>3. \A i \in 1 .. Cardinality(PortPins) : W(i - 1, "P") \in PanelWrite BY <1>2, PinsOfPort, WriteOf
  <1>4. FirstCommands \in Seq(PanelWrite) BY <1>1, <1>3 DEF FirstCommands
  <1>5. FirstCommands \in Seq(PanelCommand) /\ \A i \in DOMAIN FirstCommands : FirstCommands[i] # Bye
    BY <1>4, OnlyWrites
  <1> QED BY <1>5 DEF FirstOf, Displays

\* and writes those that change.
LEMMA ChangesSent ==
  ASSUME NEW low, NEW ps \in SUBSET PortPins
  PROVE  PinWrites(low, ps) \in Seq(PanelWrite)
  <1> DEFINE nth(i) == CHOOSE p \in ps : Cardinality({q \in ps : q < p}) = i - 1
  <1>1. ps \in SUBSET Nat /\ IsFiniteSet(ps) BY Given, FS_Subset
  <1>2. Cardinality(ps) \in Nat BY <1>1, Ranks
  <1>3. ASSUME NEW i \in 1 .. Cardinality(ps) PROVE nth(i) \in Pin
    <2>1. i - 1 \in 0 .. Cardinality(ps) - 1 BY <1>2, <1>3
    <2>2. \E p \in ps : Rank(ps, p) = i - 1 BY <1>1, <2>1, Ranks
    <2>3. nth(i) \in ps BY <2>2 DEF Rank
    <2> QED BY <2>3, Given
  <1>4. PinWrites(low, ps) = [i \in 1 .. Cardinality(ps) |-> W(nth(i), PinVal(low, nth(i)))] BY DEF PinWrites
  <1> HIDE DEF nth
  <1>5. \A i \in 1 .. Cardinality(ps) : W(nth(i), PinVal(low, nth(i))) \in PanelWrite
    <2>1. \A p : PinVal(low, p) \in Drive BY DEF PinVal, Drive
    <2> QED BY <1>3, <2>1, WriteOf
  <1> QED BY <1>2, <1>4, <1>5

\* Sequences of writes put together.
LEMMA WritesJoined ==
  ASSUME NEW s \in Seq(PanelWrite), NEW t \in Seq(PanelWrite)
  PROVE  s \o t \in Seq(PanelWrite) /\ Len(s \o t) = Len(s) + Len(t)
  BY ConcatProperties

\* The writer of the LCD drives its pins: a nibble and a byte.
LEMMA NibbleSent ==
  ASSUME NEW v
  PROVE  WriteNibble(v) \in Seq(PanelWrite) /\ Len(WriteNibble(v)) = 6
  <1> DEFINE data == [i \in 1 .. 4 |-> W(HD_DB + i - 1, Bit(v, i - 1))]
             clock == <<W(HD_E, "0"), W(HD_E, "1")>>
  <1>1. "0" \in Drive /\ "1" \in Drive /\ \A k : Bit(v, k) \in Drive BY DEF Bit, Drive
  <1>2. \A i \in 1 .. 4 : HD_DB + i - 1 \in Pin BY Given DEF HD_DB
  <1>3. \A i \in 1 .. 4 : W(HD_DB + i - 1, Bit(v, i - 1)) \in PanelWrite BY <1>1, <1>2, WriteOf
  <1>4. data \in Seq(PanelWrite) /\ Len(data) = 4 BY <1>3
  <1>5. clock \in Seq(PanelWrite) /\ Len(clock) = 2
    <2>1. HD_E \in Pin BY Given DEF HD_E
    <2>2. W(HD_E, "0") \in PanelWrite /\ W(HD_E, "1") \in PanelWrite BY <1>1, <2>1, WriteOf
    <2> QED BY <2>2
  <1> HIDE DEF data, clock
  <1>6. data \o clock \in Seq(PanelWrite) /\ Len(data \o clock) = 6
    <2>1. data \o clock \in Seq(PanelWrite) /\ Len(data \o clock) = Len(data) + Len(clock)
      BY <1>4, <1>5, WritesJoined
    <2> QED BY <1>4, <1>5, <2>1
  <1> QED BY <1>6 DEF WriteNibble, data, clock

LEMMA ByteSent ==
  ASSUME NEW rs \in {"0", "1"}, NEW b
  PROVE  WriteByte(rs, b) \in Seq(PanelWrite) /\ Len(WriteByte(rs, b)) = 13
  <1> DEFINE select == <<W(HD_RS, rs)>>
             high == WriteNibble(b[1])
             low == WriteNibble(b[2])
  <1>1. select \in Seq(PanelWrite) /\ Len(select) = 1
    <2>1. HD_RS \in Pin /\ rs \in Drive BY Given DEF HD_RS, Drive
    <2>2. W(HD_RS, rs) \in PanelWrite BY <2>1, WriteOf
    <2> QED BY <2>2
  <1>2. high \in Seq(PanelWrite) /\ Len(high) = 6 /\ low \in Seq(PanelWrite) /\ Len(low) = 6 BY NibbleSent
  <1> HIDE DEF select, high, low
  <1> DEFINE first == select \o high
             both == first \o low
  <1>3. first \in Seq(PanelWrite) /\ Len(first) = 7
    <2>1. first \in Seq(PanelWrite) /\ Len(first) = Len(select) + Len(high) BY <1>1, <1>2, WritesJoined
    <2> QED BY <1>1, <1>2, <2>1
  <1>4. both \in Seq(PanelWrite) /\ Len(both) = 13
    <2> HIDE DEF first
    <2>1. both \in Seq(PanelWrite) /\ Len(both) = Len(first) + Len(low) BY <1>2, <1>3, WritesJoined
    <2> QED BY <1>2, <1>3, <2>1
  <1> QED BY <1>4 DEF WriteByte, select, high, low

\* All that the writer sends are writes.
LEMMA ScriptSent == Script \in Seq(PanelWrite)
  <1> DEFINE at(i) == WriteByte("1", Chars[(i - 1) \div 13 + 1])[((i - 1) % 13) + 1]
             text == [i \in 1 .. 13 * Len(Chars) |-> at(i)]
  <1>1. text \in Seq(PanelWrite)
    <2>1. Len(Chars) \in Nat BY ClientsAssumption, LenProperties
    <2>2. ASSUME NEW i \in 1 .. 13 * Len(Chars) PROVE at(i) \in PanelWrite
      <3> DEFINE s == WriteByte("1", Chars[(i - 1) \div 13 + 1])
      <3>1. s \in Seq(PanelWrite) /\ Len(s) = 13 BY ByteSent
      <3>2. ((i - 1) % 13) + 1 \in 1 .. 13 BY <2>1, <2>2
      <3> HIDE DEF s
      <3>3. s[((i - 1) % 13) + 1] \in PanelWrite BY <3>1, <3>2, ElementOfSeq
      <3> QED BY <3>3 DEF s
    <2>3. 13 * Len(Chars) \in Nat BY <2>1
    <2> HIDE DEF at
    <2> QED BY <2>2, <2>3
  <1> DEFINE a == WriteNibble(3)
             b == WriteNibble(2)
             c == WriteByte("0", <<2, 8>>)
             d == WriteByte("0", <<0, 12>>)
             e == WriteByte("0", <<0, 1>>)
             f == WriteByte("0", <<0, 6>>)
  <1>2. a \in Seq(PanelWrite) /\ b \in Seq(PanelWrite) BY NibbleSent
  <1>3. c \in Seq(PanelWrite) /\ d \in Seq(PanelWrite) /\ e \in Seq(PanelWrite) /\ f \in Seq(PanelWrite) BY ByteSent
  <1>4. Script = a \o a \o a \o b \o c \o d \o e \o f \o text BY DEF Script
  <1> HIDE DEF a, b, c, d, e, f, text
  <1>5. a \o a \o a \o b \in Seq(PanelWrite) BY <1>2, WritesJoined
  <1>6. a \o a \o a \o b \o c \o d \in Seq(PanelWrite) BY <1>3, <1>5, WritesJoined
  <1>7. a \o a \o a \o b \o c \o d \o e \o f \in Seq(PanelWrite) BY <1>3, <1>6, WritesJoined
  <1>8. a \o a \o a \o b \o c \o d \o e \o f \o text \in Seq(PanelWrite) BY <1>1, <1>7, WritesJoined
  <1> QED BY <1>4, <1>8

\* A display on the first n pins subscribes to each of them.
LEMMA Subscribes ==
  ASSUME NEW n \in {1, 6}, NEW c, c \in Displays => Watched(c) \subseteq 0 .. n - 1
  PROVE  FirstOf(c, Subscription(n))
  <1> DEFINE s == Subscription(n)
  <1>1. n \in Nat /\ n + 1 \in Nat /\ n <= 6 /\ n >= 1 OBVIOUS
  <1>2. s = [i \in 1 .. n + 1 |-> IF i <= n THEN N(i - 1) ELSE R] BY DEF Subscription
  <1>3. \A i \in 1 .. n + 1 : s[i] \in PanelCommand
    <2> SUFFICES ASSUME NEW i \in 1 .. n + 1 PROVE s[i] \in PanelCommand OBVIOUS
    <2>1. CASE i <= n
      <3>1. i - 1 \in Pin BY <1>1, <2>1, Given
      <3>2. N(i - 1) \in PanelCommand BY <3>1 DEF N, PanelCommand
      <3> QED BY <1>2, <2>1, <3>2
    <2>2. CASE ~(i <= n) BY <1>2, <2>2 DEF PanelCommand
    <2> QED BY <2>1, <2>2
  <1>4. s \in Seq(PanelCommand) /\ Len(s) = n + 1 /\ DOMAIN s = 1 .. n + 1
    <2>1. s \in [1 .. n + 1 -> PanelCommand] BY <1>2, <1>3
    <2> HIDE DEF s
    <2> QED BY <1>1, <2>1
  <1>5. s # <<>>
    <2>1. Len(s) # 0 BY <1>1, <1>4
    <2>2. Len(<<>>) = 0 OBVIOUS
    <2> QED BY <2>1, <2>2, Zenon
  <1> HIDE DEF s
  <1>6. \A i \in DOMAIN s : s[i] # Bye BY <1>2, <1>4, Distinct
  <1>7. Subscribing(s)
    <2> SUFFICES ASSUME NEW i \in DOMAIN s PROVE s[i] = IF i = Len(s) THEN R ELSE N(s[i].pin) BY DEF Subscribing
    <2>1. CASE i <= n
      <3>1. s[i] = N(i - 1) /\ i # Len(s) BY <1>1, <1>2, <1>4, <2>1
      <3> QED BY <3>1, Distinct
    <2>2. CASE ~(i <= n)
      <3>1. s[i] = R /\ i = Len(s) BY <1>1, <1>2, <1>4, <2>2
      <3> QED BY <3>1
    <2> QED BY <2>1, <2>2
  <1>8. ASSUME c \in Displays, NEW p \in Watched(c) PROVE \E i \in DOMAIN s : s[i] = N(p)
    <2>1. p \in 0 .. n - 1 BY <1>8
    <2>2. PICK i \in 1 .. n : i - 1 = p
      <3>1. p + 1 \in 1 .. n /\ (p + 1) - 1 = p BY <1>1, <2>1
      <3>2. \E i \in 1 .. n : i - 1 = p BY <3>1
      <3> QED BY <3>2
    <2>3. i \in 1 .. n + 1 /\ i <= n BY <1>1, <2>2
    <2> QED BY <1>2, <1>4, <2>2, <2>3
  <1> QED BY <1>4, <1>5, <1>6, <1>7, <1>8 DEF FirstOf, s

-----------------------------------------------------------------------------
(* The table stays right *)

\* In the beginning nobody is there and nothing is driven.
LEMMA InitTable == ASSUME Init PROVE TableInv
  <1>1. /\ state = "up" /\ fd = [c \in Client |-> 0] /\ pins = [c \in Client |-> AllX]
        /\ notify = [c \in Client |-> {}] /\ LastResolve = AllX
        /\ toServer = [c \in Client |-> <<>>] /\ toClient = [c \in Client |-> <<>>]
        /\ scene \in Scenes /\ life = [c \in Client |-> "new"] /\ sent = 0 /\ shown = [c \in Client |-> AllX]
    BY DEF Init, PanelInit
  <1>2. \A c \in Client : fd[c] = 0 /\ toServer[c] = <<>> BY <1>1
  <1>3. Types
    <2>1. Descriptors(fd)
      <3>1. 0 \in 0 .. Cardinality(Client) BY Few
      <3> QED BY <1>1, <1>2, <3>1 DEF Descriptors
    <2>2. AllX \in [Pin -> Drive] /\ AllX \in Levs BY DEF AllX, Drive, Levs, Lv
    <2>3. <<>> \in Seq(PanelCommand) /\ <<>> \in Seq(Levs) OBVIOUS
    <2>4. pins \in [Client -> [Pin -> Drive]] /\ shown \in [Client -> Levs] /\ LastResolve \in Levs BY <1>1, <2>2
    <2>5. toServer \in [Client -> Seq(PanelCommand)] /\ toClient \in [Client -> Seq(Levs)] BY <1>1, <2>3
    <2>6. notify \in [Client -> SUBSET Pin] /\ life \in [Client -> {"new", "on", "over"}] BY <1>1
    <2> QED BY <1>1, <2>1, <2>4, <2>5, <2>6 DEF Types
  <1>4. Lines
    <2>1. DOMAIN <<>> = {} OBVIOUS
    <2> QED BY <1>2, <2>1 DEF Lines
  <1>5. Resolves
    <2>1. \A p, v : ~DrivenIn(fd, pins, p, v) BY <1>2 DEF DrivenIn, Connected
    <2>2. \A p : LevelIn(fd, pins, p) = "X" BY <2>1 DEF LevelIn
    <2>3. \A p \in Pin : LastResolve[p] = "X" BY <1>1 DEF AllX
    <2> QED BY <2>2, <2>3 DEF Resolves
  <1>6. Follows("led") /\ Follows("lcd") BY <1>2, Given DEF Follows
  <1> QED BY <1>3, <1>4, <1>5, <1>6 DEF TableInv

\* What the writer sends next.
LEMMA NextSent ==
  ASSUME TableInv, sent < scene.script
  PROVE  <<Script[sent + 1]>> \in Seq(PanelWrite)
  <1>1. scene \in Scenes /\ sent \in Nat BY DEF TableInv, Types
  <1>2. scene.script \in Nat /\ scene.script <= Len(Script) BY <1>1, ClientsAssumption, ScriptAssumption
  <1>3. Script \in Seq(PanelWrite) /\ Len(Script) \in Nat BY ScriptSent, LenProperties
  <1>4. sent + 1 \in 1 .. Len(Script) BY <1>1, <1>2, <1>3
  <1>5. Script[sent + 1] \in PanelWrite BY <1>3, <1>4, ElementOfSeq
  <1> QED BY <1>5

\* Every step keeps it.
LEMMA NextTable ==
  ASSUME TableInv, [Next]_vars
  PROVE  TableInv'
  <1>0. sent \in Nat /\ (UNCHANGED life => LifeGoes) BY LivesOn DEF TableInv, Types
  <1>1. CASE PortInit
    <2>1. Starts("port", FirstCommands) /\ UNCHANGED <<scene, shown, sent>> BY <1>1 DEF PortInit, FirstCommands
    <2> QED BY <2>1, FirstSent, TableStarts, Given
  <1>2. ASSUME NEW low \in GuestRegs, GuestWrites(low) PROVE TableInv'
    <2>1. UNCHANGED <<scene, shown, sent>> BY <1>2 DEF GuestWrites
    <2>2. CASE UNCHANGED <<panel, last, life>> BY <1>0, <2>1, <2>2, TableQuiet
    <2>3. CASE ~UNCHANGED <<panel, last, life>>
      <3> DEFINE changed == {p \in PortPins : PinVal(low, p) # last[p]}
                 s == PinWrites(low, changed)
      <3>1. Sends("port", s) /\ (UNCHANGED life \/ life' = [life EXCEPT !["port"] = "over"])
        BY <1>2, <2>3 DEF GuestWrites
      <3>2. s \in Seq(PanelWrite) BY ChangesSent
      <3> HIDE DEF s
      <3>3. s \in Seq(PanelCommand) /\ \A i \in DOMAIN s : s[i] # Bye BY <3>2, OnlyWrites
      <3>4. LifeGoes BY <1>0, <3>1, Lives, Given
      <3> QED BY <1>0, <2>1, <3>1, <3>3, <3>4, TableSends, Given DEF Displays
    <2> QED BY <2>2, <2>3
  <1>3. CASE GuestReads
    <2>1. UNCHANGED <<scene, shown, sent>> BY <1>3 DEF GuestReads
    <2>2. CASE UNCHANGED <<panel, port, life>> BY <1>0, <2>1, <2>2, TableQuiet
    <2>3. CASE ~UNCHANGED <<panel, port, life>>
      <3>1. Sends("port", <<R>>) /\ (UNCHANGED life \/ life' = [life EXCEPT !["port"] = "over"])
        BY <1>3, <2>3 DEF GuestReads
      <3>2. <<R>> \in Seq(PanelCommand) /\ \A i \in DOMAIN <<R>> : <<R>>[i] # Bye BY Distinct DEF PanelCommand
      <3>3. LifeGoes BY <1>0, <3>1, Lives, Given
      <3> QED BY <1>0, <2>1, <3>1, <3>2, <3>3, TableSends, Given DEF Displays
    <2> QED BY <2>2, <2>3
  <1>4. CASE PortGets
    <2>1. UNCHANGED <<scene, shown, sent>> BY <1>4 DEF PortGets
    <2>2. CASE Taken("port") /\ UNCHANGED life BY <2>1, <2>2, TableTakes, Given DEF Displays
    <2>3. CASE life' = [life EXCEPT !["port"] = "over"] /\ UNCHANGED panel
      <3>1. LifeGoes BY <2>3, Lives, Given
      <3> QED BY <1>0, <2>1, <2>3, <3>1, TableQuiet
    <2> QED BY <1>4, <2>2, <2>3 DEF PortGets
  <1>5. CASE ButtonStarts
    <2>1. Starts("button", <<W(BUTTON_PIN, "P")>>) /\ UNCHANGED <<scene, shown, sent>> BY <1>5 DEF ButtonStarts
    <2>2. BUTTON_PIN \in Pin /\ "P" \in Drive BY Given DEF BUTTON_PIN, Drive
    <2>3. <<W(BUTTON_PIN, "P")>> \in Seq(PanelWrite) BY <2>2, WriteOf
    <2>4. FirstOf("button", <<W(BUTTON_PIN, "P")>>) BY <2>3, OnlyWrites DEF FirstOf, Displays
    <2> QED BY <2>1, <2>4, TableStarts, Given
  <1>6. CASE say_cb
    <2> DEFINE v == IF presses % 2 = 0 THEN "0" ELSE "P"
               s == <<W(BUTTON_PIN, v)>>
    <2>1. Sends("button", s) /\ UNCHANGED <<life, scene, shown, sent>> BY <1>6 DEF say_cb
    <2>2. BUTTON_PIN \in Pin /\ v \in Drive BY Given DEF BUTTON_PIN, Drive
    <2> HIDE DEF v
    <2>3. s \in Seq(PanelWrite) BY <2>2, WriteOf
    <2> HIDE DEF s
    <2>4. s \in Seq(PanelCommand) /\ \A i \in DOMAIN s : s[i] # Bye BY <2>3, OnlyWrites
    <2> QED BY <1>0, <2>1, <2>4, TableSends, Given DEF Displays
  <1>7. CASE ButtonQuits
    <2>1. Sends("button", <<Bye>>) /\ life' = [life EXCEPT !["button"] = "over"] /\ UNCHANGED <<scene, shown, sent>>
      BY <1>7 DEF ButtonQuits
    <2>2. <<Bye>> \in Seq(PanelCommand) BY DEF PanelCommand
    <2>3. LifeGoes /\ life'["button"] = "over" BY <2>1, Lives, Given
    <2> QED BY <1>0, <2>1, <2>2, <2>3, TableSends, Given DEF Displays
  <1>8. CASE LedStarts
    <2>1. Starts("led", Subscription(1)) /\ UNCHANGED <<scene, shown, sent>> BY <1>8 DEF LedStarts
    <2>2. Watched("led") \subseteq 0 .. 1 - 1 BY DEF Watched, LED_PIN
    <2>3. FirstOf("led", Subscription(1)) BY <2>2, Subscribes
    <2> QED BY <2>1, <2>3, TableStarts, Given
  <1>9. CASE LedUpdated
    <2>1. /\ Taken("led") /\ shown' = [shown EXCEPT !["led"] = Head(toClient["led"])]
          /\ UNCHANGED <<life, scene, sent>>
      BY <1>9 DEF LedUpdated
    <2> QED BY <2>1, TableTakes, Given DEF Displays
  <1>10. CASE WriterStarts
    <2>1. Starts("lcdwrite", <<>>) /\ UNCHANGED <<scene, shown, sent>> BY <1>10 DEF WriterStarts
    <2>2. <<>> \in Seq(PanelCommand) /\ DOMAIN <<>> = {} OBVIOUS
    <2>3. FirstOf("lcdwrite", <<>>) BY <2>2 DEF FirstOf, Displays
    <2> QED BY <2>1, <2>3, TableStarts, Given
  <1>11. CASE WriterSends
    <2> DEFINE s == <<Script[sent + 1]>>
    <2>1. /\ sent < scene.script /\ Sends("lcdwrite", s) /\ sent' = sent + 1 /\ UNCHANGED <<life, scene, shown>>
      BY <1>11 DEF WriterSends
    <2>2. s \in Seq(PanelWrite) BY <2>1, NextSent
    <2> HIDE DEF s
    <2>3. s \in Seq(PanelCommand) /\ \A i \in DOMAIN s : s[i] # Bye BY <2>2, OnlyWrites
    <2>4. sent' \in Nat BY <1>0, <2>1
    <2> QED BY <1>0, <2>1, <2>3, <2>4, TableSends, Given DEF Displays
  <1>12. CASE WriterEnds
    <2>1. Sends("lcdwrite", <<Bye>>) /\ life' = [life EXCEPT !["lcdwrite"] = "over"] /\ UNCHANGED <<scene, shown, sent>>
      BY <1>12 DEF WriterEnds
    <2>2. <<Bye>> \in Seq(PanelCommand) BY DEF PanelCommand
    <2>3. LifeGoes /\ life'["lcdwrite"] = "over" BY <2>1, Lives, Given
    <2> QED BY <1>0, <2>1, <2>2, <2>3, TableSends, Given DEF Displays
  <1>13. CASE LcdStarts
    <2>1. Starts("lcd", Subscription(6)) /\ UNCHANGED <<scene, shown, sent>> BY <1>13 DEF LcdStarts
    <2>2. Watched("lcd") \subseteq 0 .. 6 - 1 BY Given DEF Watched
    <2>3. FirstOf("lcd", Subscription(6)) BY <2>2, Subscribes
    <2> QED BY <2>1, <2>3, TableStarts, Given
  <1>14. CASE pins_updated
    <2>1. /\ Taken("lcd") /\ shown' = [shown EXCEPT !["lcd"] = Head(toClient["lcd"])]
          /\ UNCHANGED <<life, scene, sent>>
      BY <1>14 DEF pins_updated
    <2> QED BY <2>1, TableTakes, Given DEF Displays
  <1>15. ASSUME NEW c \in Client, Serves(c) PROVE TableInv'
    BY <1>15, TableServed DEF Serves, Apart
  <1>16. CASE Stopped
    <2>1. Down("stopped") /\ Apart BY <1>16 DEF Stopped, Stop, Apart
    <2> QED BY <2>1, TableDown
  <1>17. CASE UNCHANGED vars
    <2>1. UNCHANGED <<panel, shown, scene, life, sent>> BY <1>17 DEF vars
    <2> QED BY <1>0, <2>1, TableQuiet
  <1> QED BY <1>1, <1>2, <1>3, <1>4, <1>5, <1>6, <1>7, <1>8, <1>9, <1>10, <1>11, <1>12, <1>13, <1>14,
             <1>15, <1>16, <1>17 DEF Next

\* The table is right throughout.
LEMMA TableInvariant == Spec => []TableInv
  BY InitTable, NextTable, PTL DEF Spec

-----------------------------------------------------------------------------
(* What the panel promises *)

\* Once its query is answered a display has no commands under way, and what it
\* has seen are the levels of the table.
LEMMA TableFollowed == TableInv => DisplaysFollow
  <1> SUFFICES ASSUME TableInv, NEW c \in {"led", "lcd"}, fd[c] # 0,
                      \A i \in DOMAIN toServer[c] : toServer[c][i].cmd \notin {"R", "NOTIFY"},
                      NEW p \in Watched(c)
               PROVE  SeenIn(toClient[c], shown[c])[p] = Level(p)
    BY DEF DisplaysFollow, SeenIn
  <1> DEFINE q == toServer[c]
  <1>1. c \in Client /\ p \in Pin BY Given DEF Watched, LED_PIN
  <1>2. Following(q, notify[c], Watched(c), SeenIn(toClient[c], shown[c]), LastResolve)
    BY DEF TableInv, Follows
  <1>3. q = <<>>
    <2> SUFFICES ASSUME q # <<>> PROVE FALSE OBVIOUS
    <2>1. q \in Seq(PanelCommand) BY <1>1 DEF TableInv, Types
    <2>2. Head(q) = q[1] /\ 1 \in DOMAIN q BY <2>1, FirstDone
    <2>3. Head(q) = R \/ Head(q) = N(Head(q).pin) BY <1>2, <2>1, SubscriptionFirst DEF Following
    <2>4. Head(q).cmd \in {"R", "NOTIFY"} BY <2>3 DEF R, N
    <2> QED BY <2>2, <2>4
  <1>4. SeenIn(toClient[c], shown[c])[p] = LastResolve[p] BY <1>2, <1>3 DEF Following
  <1>5. LastResolve[p] = LevelIn(fd, pins, p) BY <1>1 DEF TableInv, Lines, Resolves
  <1>6. LevelIn(fd, pins, p) = Level(p)
    <2>1. \A v : DrivenIn(fd, pins, p, v) <=> Driven(p, v) BY DEF DrivenIn, Driven
    <2> QED BY <2>1 DEF LevelIn, Level, Fight
  <1> QED BY <1>4, <1>5, <1>6

\* The LED and the LCD show the present levels of their pins, or will with
\* what is on its way to them, whoever drives the pins, joins, ends or is
\* dropped, and in whatever order the server gets to the commands.
THEOREM Displayed == Spec => []DisplaysFollow
  BY TableInvariant, TableFollowed, PTL

\* The table fails on a fight beside which there is a third.
LEMMA Fighting ==
  ASSUME NEW f, Descriptors(f), NEW ps \in [Client -> [Pin -> Drive]], Raises(Levels(f, ps))
  PROVE  /\ Cardinality(Connected(f)) >= 3
         /\ \E p \in Pin, d, e \in Connected(f) : ps[d][p] = "1" /\ ps[e][p] = "0"
  <1> DEFINE out == Levels(f, ps)
  <1>1. PICK p \in Pin : out[p] = "raise" BY DEF Raises
  <1>2. Means(out[p], Cardinality(Connected(f)), DrivenIn(f, ps, p, "1"), DrivenIn(f, ps, p, "0"),
              DrivenIn(f, ps, p, "P"))
    BY LevelsMean
  <1> HIDE DEF out
  <1>3. Cardinality(Connected(f)) >= 3 /\ DrivenIn(f, ps, p, "1") /\ DrivenIn(f, ps, p, "0")
    BY <1>1, <1>2 DEF Means
  <1> QED BY <1>3 DEF DrivenIn

\* A closed connection brings the server down only if three are left and two
\* of those fight.
LEMMA Closing ==
  ASSUME TableInv, NEW c \in Client, fd[c] # 0, NEW ps \in [Client -> [Pin -> Drive]],
         \A d \in Client : d # c => ps[d] = pins[d], handle_close(c, ps)
  PROVE  /\ state' = "crashed" => Cardinality(Connected(fd)) >= 4 /\ \E p \in Pin : Fight(p)
         /\ state' = "up" => pins' = ps /\ \A d \in Connected(fd) \ Connected(fd') : d = c
  <1> DEFINE left == [fd EXCEPT ![c] = 0]
             cs == Connected(fd)
             ds == Connected(left)
  <1>1. fd \in [Client -> 0 .. Cardinality(Client)] /\ Descriptors(fd) BY DEF TableInv, Types, Descriptors
  <1>2. left[c] = 0 /\ \A d \in Client : d # c => left[d] = fd[d] BY <1>1
  <1>3. Descriptors(left)
    <2>1. 0 \in 0 .. Cardinality(Client) BY Few
    <2>2. left \in [Client -> 0 .. Cardinality(Client)] BY <1>1, <2>1
    <2> HIDE DEF left
    <2> QED BY <1>1, <1>2, <2>2 DEF Descriptors
  <1>4. CASE Raises(Levels(left, ps)) /\ Down("crashed")
    <2> HIDE DEF left
    <2>1. Cardinality(ds) >= 3 /\ \E p \in Pin, d, e \in ds : ps[d][p] = "1" /\ ps[e][p] = "0"
      BY <1>3, <1>4, Fighting
    <2>2. ds = cs \ {c} /\ c \in cs BY <1>2 DEF Connected
    <2>3. IsFiniteSet(cs) /\ Cardinality(cs) \in Nat BY Few
    <2>4. Cardinality(cs) >= 4
      <3> HIDE DEF cs, ds
      <3>1. Cardinality(cs \ {c}) = Cardinality(cs) - 1 BY <2>2, <2>3, FS_RemoveElement
      <3>2. Cardinality(ds) = Cardinality(cs) - 1 BY <2>2, <3>1
      <3> QED BY <2>1, <2>3, <3>2
    <2>5. PICK p \in Pin, d \in ds, e \in ds : ps[d][p] = "1" /\ ps[e][p] = "0" BY <2>1
    <2>6. d \in cs /\ e \in cs /\ ps[d] = pins[d] /\ ps[e] = pins[e]
      <3>1. cs \subseteq Client BY DEF Connected
      <3> HIDE DEF cs, ds
      <3> QED BY <2>2, <2>5, <3>1
    <2>7. Fight(p) BY <2>5, <2>6 DEF Fight, Driven
    <2>8. state' = "crashed" BY <1>4 DEF Down
    <2> QED BY <2>4, <2>7, <2>8
  <1>5. CASE fd' = left /\ pins' = ps /\ UNCHANGED state
    <2>1. \A d \in Connected(fd) \ Connected(fd') : d = c BY <1>2, <1>5 DEF Connected
    <2>2. state = "up" BY DEF TableInv, Lines
    <2> QED BY <1>5, <2>1, <2>2
  <1> QED BY <1>4, <1>5 DEF handle_close

\* What ServerEndures says of who is dropped in a step.
EnduresStep ==
  /\ state = "up" /\ state' = "crashed" =>
       Cardinality(Connected(fd)) >= 4 /\ \E p \in Pin : Fight(p)
  /\ state' = "up" => \A c \in Connected(fd) \ Connected(fd') :
       \/ life[c] = "over"
       \/ /\ Cardinality(Connected(fd)) >= 3
          /\ \E p \in Pin, d, e \in Connected(fd) : pins'[d][p] = "1" /\ pins'[e][p] = "0"

\* A command that works out the levels.
LEMMA ResolvedEndures ==
  ASSUME TableInv, NEW c \in Client, fd[c] # 0, NEW ps \in [Client -> [Pin -> Drive]], NEW asked,
         \A d \in Client : d # c => ps[d] = pins[d], Resolved(c, ps, asked)
  PROVE  EnduresStep
  <1>0. Descriptors(fd) BY DEF TableInv, Types
  <1>1. CASE Raises(Levels(fd, ps)) /\ handle_close(c, ps)
    <2>1. /\ Cardinality(Connected(fd)) >= 3
          /\ \E p \in Pin, d, e \in Connected(fd) : ps[d][p] = "1" /\ ps[e][p] = "0"
      BY <1>0, <1>1, Fighting
    <2>2. /\ state' = "crashed" => Cardinality(Connected(fd)) >= 4 /\ \E p \in Pin : Fight(p)
          /\ state' = "up" => pins' = ps /\ \A d \in Connected(fd) \ Connected(fd') : d = c
      BY <1>1, Closing
    <2>3. ASSUME state' = "up"
          PROVE  \E p \in Pin, d, e \in Connected(fd) : pins'[d][p] = "1" /\ pins'[e][p] = "0"
      BY <2>1, <2>2, <2>3
    <2> QED BY <2>1, <2>2, <2>3 DEF EnduresStep
  <1>2. CASE UNCHANGED <<state, fd, notify>> BY <1>2 DEF EnduresStep
  <1> QED BY <1>1, <1>2 DEF Resolved

\* A command of any kind.
LEMMA ServedEndures ==
  ASSUME TableInv, NEW c \in Client, found_terminator(c)
  PROVE  EnduresStep
  <1> DEFINE q == toServer[c]
             m == Head(q)
  <1>1. q # <<>> /\ q \in Seq(PanelCommand) BY DEF TableInv, Types, found_terminator
  <1>2. m \in PanelCommand /\ m = q[1] /\ 1 \in DOMAIN q BY <1>1, FirstDone
  <1>3. pins \in [Client -> [Pin -> Drive]] /\ fd[c] # 0 BY <1>1 DEF TableInv, Types, Lines
  <1>4. CASE m.cmd = "W" /\ Resolved(c, [pins EXCEPT ![c][m.pin] = m.val], {})
    <2> DEFINE ps == [pins EXCEPT ![c][m.pin] = m.val]
    <2>1. m.pin \in Pin /\ m.val \in Drive BY <1>2, <1>4, Kinds
    <2>2. ps \in [Client -> [Pin -> Drive]] /\ \A d \in Client : d # c => ps[d] = pins[d] BY <1>3, <2>1
    <2>3. Resolved(c, ps, {}) BY <1>4
    <2> HIDE DEF ps
    <2> QED BY <1>3, <2>2, <2>3, ResolvedEndures
  <1>5. CASE m.cmd = "R" /\ Resolved(c, pins, {c}) BY <1>3, <1>5, ResolvedEndures
  <1>6. CASE m.cmd = "NOTIFY" /\ UNCHANGED <<state, fd, pins, LastResolve, toClient>> BY <1>6 DEF EnduresStep
  <1>7. CASE m.cmd = "close" /\ handle_close(c, pins)
    <2>1. m = Bye BY <1>2, <1>7, Kinds
    <2>2. life[c] = "over" BY <1>2, <2>1 DEF TableInv, Lines
    <2>3. /\ state' = "crashed" => Cardinality(Connected(fd)) >= 4 /\ \E p \in Pin : Fight(p)
          /\ state' = "up" => \A d \in Connected(fd) \ Connected(fd') : d = c
      BY <1>3, <1>7, Closing
    <2> QED BY <2>2, <2>3 DEF EnduresStep
  <1> QED BY <1>4, <1>5, <1>6, <1>7 DEF found_terminator

\* The server does not drop a program or come down over what the programs do.
LEMMA StartsEndures ==
  ASSUME TableInv, NEW c \in Client, NEW commands, Starts(c, commands)
  PROVE  EnduresStep
  <1>1. CASE Accept(c, commands)
    <2>1. state' = state BY <1>1 DEF Accept
    <2>2. fd'[c] # 0 /\ \A d \in Client : d # c => fd'[d] = fd[d] BY <1>1, Joins
    <2>3. Connected(fd) \ Connected(fd') = {} BY <2>2 DEF Connected
    <2> QED BY <2>1, <2>3 DEF EnduresStep
  <1>2. CASE UNCHANGED panel BY <1>2 DEF panel, server, EnduresStep
  <1> QED BY <1>1, <1>2 DEF Starts

LEMMA EnduresKept ==
  ASSUME TableInv, [Next]_vars
  PROVE  EnduresStep
  <1>1. CASE UNCHANGED <<state, fd>> BY <1>1 DEF EnduresStep
  <1>2. \A c, s : Sends(c, s) => UNCHANGED <<state, fd>> BY DEF Sends, Send, panel, server
  <1>3. \A c : Taken(c) => UNCHANGED <<state, fd>> BY DEF Taken, server
  <1>4. UNCHANGED panel => UNCHANGED <<state, fd>> BY DEF panel, server
  <1>5. CASE PortInit \/ ButtonStarts \/ LedStarts \/ WriterStarts \/ LcdStarts
    BY <1>5, StartsEndures, Given DEF PortInit, ButtonStarts, LedStarts, WriterStarts, LcdStarts
  <1>6. ASSUME NEW low \in GuestRegs, GuestWrites(low) PROVE UNCHANGED <<state, fd>>
    BY <1>2, <1>4, <1>6 DEF GuestWrites
  <1>7. CASE GuestReads \/ PortGets BY <1>1, <1>2, <1>3, <1>4, <1>7 DEF GuestReads, PortGets
  <1>8. CASE say_cb \/ ButtonQuits \/ WriterSends \/ WriterEnds
    BY <1>1, <1>2, <1>8 DEF say_cb, ButtonQuits, WriterSends, WriterEnds
  <1>9. CASE LedUpdated \/ pins_updated BY <1>1, <1>3, <1>9 DEF LedUpdated, pins_updated
  <1>10. ASSUME NEW c \in Client, Serves(c) PROVE EnduresStep BY <1>10, ServedEndures DEF Serves
  <1>11. CASE Stopped
    <2>1. state' = "stopped" BY <1>11 DEF Stopped, Stop, Down
    <2> QED BY <2>1 DEF EnduresStep
  <1>12. CASE UNCHANGED vars BY <1>1, <1>4, <1>12 DEF vars
  <1> QED BY <1>1, <1>5, <1>6, <1>7, <1>8, <1>9, <1>10, <1>11, <1>12 DEF Next

\* What ServerEndures says of what is told in a step.
TellsStep ==
  \A c \in Client : \A i \in Len(toClient[c]) + 1 .. Len(toClient'[c]) :
    \A p \in Pin : toClient'[c][i][p] = "E" <=> Fight(p)'

\* Of two sequences that one is the other, or the other with out at its end.
Adds(q, r, out) ==
  /\ Len(q) \in Nat /\ Len(r) \in Nat
  /\ \A i \in Len(q) + 1 .. Len(r) : r[i] = out

\* Told once.
LEMMA AddsOne ==
  ASSUME NEW q \in Seq(Levs), NEW r \in Seq(Levs), NEW out \in Levs, Adds(q, r, out), NEW b \in BOOLEAN,
         Len(q) <= Len(r)
  PROVE  LET t == r \o (IF b THEN <<out>> ELSE <<>>)
         IN t \in Seq(Levs) /\ Adds(q, t, out) /\ Len(q) <= Len(t)
  <1>1. r \o <<>> = r BY ConcatEmptySeq
  <1>2. DEFINE t == r \o <<out>>
  <1>3. <<out>> \in Seq(Levs) /\ Len(<<out>>) = 1 /\ <<out>>[1] = out OBVIOUS
  <1>4. t \in Seq(Levs) /\ Len(t) = Len(r) + 1
        /\ \A i \in 1 .. Len(r) + 1 : t[i] = IF i <= Len(r) THEN r[i] ELSE <<out>>[i - Len(r)]
    BY <1>3, ConcatProperties
  <1> HIDE DEF t
  <1>5. ASSUME NEW i \in Len(q) + 1 .. Len(t) PROVE t[i] = out
    <2>1. Len(q) \in Nat /\ Len(r) \in Nat BY DEF Adds
    <2>2. i \in 1 .. Len(r) + 1 BY <1>4, <2>1
    <2>3. CASE i <= Len(r)
      <3>1. i \in Len(q) + 1 .. Len(r) BY <2>1, <2>3
      <3> QED BY <1>4, <2>2, <2>3, <3>1 DEF Adds
    <2>4. CASE ~(i <= Len(r))
      <3>1. i - Len(r) = 1 BY <2>1, <2>2, <2>4
      <3> QED BY <1>3, <1>4, <2>2, <2>4, <3>1
    <2> QED BY <2>3, <2>4
  <1>6. Adds(q, t, out) /\ Len(q) <= Len(t) BY <1>4, <1>5 DEF Adds
  <1> QED BY <1>1, <1>4, <1>6 DEF t

\* Levels that are worked out are all that is told.
LEMMA ResolveTells ==
  ASSUME TableInv, NEW f, Descriptors(f), NEW ps \in [Client -> [Pin -> Drive]], NEW asked,
         ~Raises(Levels(f, ps)), Resolve(f, Levels(f, ps), asked), fd' = f, pins' = ps
  PROVE  TellsStep
  <1> DEFINE out == Levels(f, ps)
  <1>1. out \in Levs /\ \A p \in Pin : out[p] = LevelIn(f, ps, p) BY LevelsFound
  <1>2. \A p \in Pin : out[p] = "E" <=> Fight(p)'
    BY <1>1 DEF LevelIn, DrivenIn, Fight, Driven
  <1>3. ASSUME NEW c \in Client PROVE Adds(toClient[c], toClient'[c], out)
    <2> HIDE DEF out
    <2> DEFINE q == toClient[c]
               one == q \o (IF Told(c, f, out) THEN <<out>> ELSE <<>>)
               two == one \o (IF c \in asked THEN <<out>> ELSE <<>>)
    <2>1. q \in Seq(Levs) BY DEF TableInv, Types
    <2>2. Adds(q, q, out) /\ Len(q) <= Len(q) BY <2>1, LenProperties DEF Adds
    <2>3. toClient'[c] = two BY DEF Resolve, out
    <2>4. Told(c, f, out) \in BOOLEAN BY DEF Told
    <2> HIDE DEF q
    <2>5. one \in Seq(Levs) /\ Adds(q, one, out) /\ Len(q) <= Len(one) BY <1>1, <2>1, <2>2, <2>4, AddsOne
    <2> HIDE DEF one
    <2>6. Adds(q, two, out) BY <1>1, <2>1, <2>5, AddsOne
    <2> QED BY <2>3, <2>6 DEF q
  <1> HIDE DEF out
  <1> QED BY <1>2, <1>3 DEF TellsStep, Adds

\* Where nothing is told.
LEMMA Silent ==
  ASSUME TableInv, \A c \in Client : toClient'[c] = toClient[c] \/ toClient'[c] = <<>>
                                    \/ (toClient[c] # <<>> /\ toClient'[c] = Tail(toClient[c]))
  PROVE  TellsStep
  <1>1. ASSUME NEW c \in Client PROVE Len(toClient[c]) + 1 .. Len(toClient'[c]) = {}
    <2> DEFINE q == toClient[c]
               r == toClient'[c]
    <2>1. q \in Seq(Levs) BY DEF TableInv, Types
    <2>2. Len(q) \in Nat BY <2>1, LenProperties
    <2>3. Len(<<>>) = 0 OBVIOUS
    <2>4. q # <<>> => Len(Tail(q)) = Len(q) - 1 BY <2>1, HeadTailProperties
    <2>5. Len(r) \in Int /\ Len(r) <= Len(q)
      <3>1. CASE r = q BY <2>2, <3>1
      <3>2. CASE r = <<>> BY <2>2, <2>3, <3>2
      <3>3. CASE q # <<>> /\ r = Tail(q) BY <2>2, <2>4, <3>3
      <3> QED BY <3>1, <3>2, <3>3
    <2> HIDE DEF q, r
    <2>6. Len(q) + 1 .. Len(r) = {} BY <2>2, <2>5
    <2> QED BY <2>6 DEF q, r
  <1> QED BY <1>1 DEF TellsStep

\* A closed connection.
LEMMA ClosingTells ==
  ASSUME TableInv, NEW c \in Client, NEW ps \in [Client -> [Pin -> Drive]], handle_close(c, ps)
  PROVE  TellsStep
  <1> DEFINE left == [fd EXCEPT ![c] = 0]
  <1>1. fd \in [Client -> 0 .. Cardinality(Client)] /\ Descriptors(fd) BY DEF TableInv, Types, Descriptors
  <1>2. left[c] = 0 /\ \A d \in Client : d # c => left[d] = fd[d] BY <1>1
  <1>3. Descriptors(left)
    <2>1. 0 \in 0 .. Cardinality(Client) BY Few
    <2>2. left \in [Client -> 0 .. Cardinality(Client)] BY <1>1, <2>1
    <2> HIDE DEF left
    <2> QED BY <1>1, <1>2, <2>2 DEF Descriptors
  <1>4. CASE Down("crashed") BY <1>4, Silent DEF Down
  <1>5. CASE /\ ~Raises(Levels(left, ps)) /\ fd' = left /\ pins' = ps
             /\ Resolve(left, Levels(left, ps), {})
    <2> HIDE DEF left
    <2> QED BY <1>3, <1>5, ResolveTells
  <1> QED BY <1>4, <1>5 DEF handle_close

\* A command that works out the levels.
LEMMA ResolvedTells ==
  ASSUME TableInv, NEW c \in Client, NEW ps \in [Client -> [Pin -> Drive]], NEW asked,
         Resolved(c, ps, asked)
  PROVE  TellsStep
  <1>1. Descriptors(fd) BY DEF TableInv, Types
  <1>2. CASE handle_close(c, ps) BY <1>2, ClosingTells
  <1>3. CASE /\ ~Raises(Levels(fd, ps)) /\ pins' = ps /\ fd' = fd
             /\ Resolve(fd, Levels(fd, ps), asked)
    BY <1>1, <1>3, ResolveTells
  <1> QED BY <1>2, <1>3 DEF Resolved

\* A command of any kind.
LEMMA ServedTells ==
  ASSUME TableInv, NEW c \in Client, found_terminator(c)
  PROVE  TellsStep
  <1> DEFINE q == toServer[c]
             m == Head(q)
  <1>1. q # <<>> /\ q \in Seq(PanelCommand) BY DEF TableInv, Types, found_terminator
  <1>2. m \in PanelCommand BY <1>1, FirstDone
  <1>3. pins \in [Client -> [Pin -> Drive]] BY DEF TableInv, Types
  <1>4. CASE m.cmd = "W" /\ Resolved(c, [pins EXCEPT ![c][m.pin] = m.val], {})
    <2> DEFINE ps == [pins EXCEPT ![c][m.pin] = m.val]
    <2>1. m.pin \in Pin /\ m.val \in Drive BY <1>2, <1>4, Kinds
    <2>2. ps \in [Client -> [Pin -> Drive]] BY <1>3, <2>1
    <2>3. Resolved(c, ps, {}) BY <1>4
    <2> HIDE DEF ps
    <2> QED BY <2>2, <2>3, ResolvedTells
  <1>5. CASE m.cmd = "R" /\ Resolved(c, pins, {c}) BY <1>3, <1>5, ResolvedTells
  <1>6. CASE UNCHANGED toClient BY <1>6, Silent
  <1>7. CASE m.cmd = "close" /\ handle_close(c, pins) BY <1>3, <1>7, ClosingTells
  <1> QED BY <1>4, <1>5, <1>6, <1>7 DEF found_terminator

LEMMA TellsKept ==
  ASSUME TableInv, [Next]_vars
  PROVE  TellsStep
  <1>1. CASE UNCHANGED toClient BY <1>1, Silent
  <1>2. \A c, s : Sends(c, s) => UNCHANGED toClient BY DEF Sends, Send, panel
  <1>3. ASSUME NEW c \in Client, Taken(c) PROVE TellsStep
    <2>1. \A d \in Client : toClient'[d] = toClient[d] \/ (toClient[d] # <<>> /\ toClient'[d] = Tail(toClient[d]))
      BY <1>3 DEF Taken, TableInv, Types
    <2> QED BY <2>1, Silent
  <1>4. UNCHANGED panel => UNCHANGED toClient BY DEF panel
  <1>5. ASSUME NEW c \in Client, NEW s, Starts(c, s) PROVE TellsStep
    <2>1. CASE Accept(c, s)
      <3>1. \A d \in Client : toClient'[d] = toClient[d] \/ toClient'[d] = <<>>
        BY <2>1 DEF Accept, TableInv, Types
      <3> QED BY <3>1, Silent
    <2>2. CASE UNCHANGED panel BY <1>1, <1>4, <2>2
    <2> QED BY <1>5, <2>1, <2>2 DEF Starts
  <1>6. CASE PortInit \/ ButtonStarts \/ LedStarts \/ WriterStarts \/ LcdStarts
    BY <1>5, <1>6, Given DEF PortInit, ButtonStarts, LedStarts, WriterStarts, LcdStarts
  <1>7. ASSUME NEW low \in GuestRegs, GuestWrites(low) PROVE UNCHANGED toClient
    BY <1>2, <1>4, <1>7 DEF GuestWrites
  <1>8. CASE GuestReads \/ PortGets BY <1>1, <1>2, <1>3, <1>4, <1>8, Given DEF GuestReads, PortGets
  <1>9. CASE say_cb \/ ButtonQuits \/ WriterSends \/ WriterEnds
    BY <1>1, <1>2, <1>9 DEF say_cb, ButtonQuits, WriterSends, WriterEnds
  <1>10. CASE LedUpdated \/ pins_updated BY <1>3, <1>10, Given DEF LedUpdated, pins_updated
  <1>11. ASSUME NEW c \in Client, Serves(c) PROVE TellsStep BY <1>11, ServedTells DEF Serves
  <1>12. CASE Stopped BY <1>1, <1>12 DEF Stopped, Stop, Down
  <1>13. CASE UNCHANGED vars BY <1>1, <1>4, <1>13 DEF vars
  <1> QED BY <1>1, <1>6, <1>7, <1>8, <1>9, <1>10, <1>11, <1>12, <1>13 DEF Next

\* What ServerEndures says of a step, in one.
ServerStep ==
  /\ state = "up" /\ state' = "crashed" =>
       Cardinality(Connected(fd)) >= 4 /\ \E p \in Pin : Fight(p)
  /\ state' = "up" => \A c \in Connected(fd) \ Connected(fd') :
       \/ life[c] = "over"
       \/ /\ Cardinality(Connected(fd)) >= 3
          /\ \E p \in Pin, d, e \in Connected(fd) : pins'[d][p] = "1" /\ pins'[e][p] = "0"
  /\ \A c \in Client : \A i \in Len(toClient[c]) + 1 .. Len(toClient'[c]) :
       \A p \in Pin : toClient'[c][i][p] = "E" <=> Fight(p)'

\* What the server tells has "E" at the pins that are fought over and at no
\* other.  A fight that the table of panel.py has no row for costs a program its
\* connection only with a third connected, and the server, by handle_error's
\* second handle_close, only with a fourth; else who is closed has ended.
THEOREM Endures == Spec => ServerEndures
  <1>1. TableInv /\ [Next]_vars => [ServerStep]_vars
    BY EnduresKept, TellsKept DEF ServerStep, EnduresStep, TellsStep
  <1>2. ServerEndures <=> [][ServerStep]_vars BY DEF ServerEndures, ServerStep
  <1> QED BY <1>1, <1>2, TableInvariant, PTL DEF Spec

-----------------------------------------------------------------------------
(* The script of the LCD writer, place by place *)

\* r is t after s.
Placing(s, t, r) ==
  /\ Len(r) = Len(s) + Len(t)
  /\ \A i \in 1 .. Len(s) : r[i] = s[i]
  /\ \A i \in 1 .. Len(t) : r[Len(s) + i] = t[i]

\* One sequence of writes after another.
LEMMA Placed ==
  ASSUME NEW s \in Seq(PanelWrite), NEW t \in Seq(PanelWrite)
  PROVE  s \o t \in Seq(PanelWrite) /\ Placing(s, t, s \o t)
  <1> DEFINE r == s \o t
  <1>1. Len(s) \in Nat /\ Len(t) \in Nat BY LenProperties
  <1>2. /\ s \o t \in Seq(PanelWrite) /\ Len(s \o t) = Len(s) + Len(t)
        /\ \A i \in 1 .. Len(s) + Len(t) : (s \o t)[i] = IF i <= Len(s) THEN s[i] ELSE t[i - Len(s)]
    BY ConcatProperties
  <1>3. /\ r \in Seq(PanelWrite) /\ Len(r) = Len(s) + Len(t)
        /\ \A i \in 1 .. Len(s) + Len(t) : r[i] = IF i <= Len(s) THEN s[i] ELSE t[i - Len(s)]
    BY <1>2, Zenon
  <1> HIDE DEF r
  <1>4. \A i \in 1 .. Len(s) : r[i] = s[i] BY <1>1, <1>3
  <1>5. ASSUME NEW i \in 1 .. Len(t) PROVE r[Len(s) + i] = t[i]
    <2>1. Len(s) + i \in 1 .. Len(s) + Len(t) /\ ~(Len(s) + i <= Len(s)) /\ Len(s) + i - Len(s) = i BY <1>1
    <2> QED BY <1>3, <2>1
  <1>6. Placing(s, t, r) BY <1>3, <1>4, <1>5 DEF Placing
  <1> QED BY <1>3, <1>6 DEF r

\* The six writes of a nibble,
LEMMA NibbleWrites ==
  ASSUME NEW v
  PROVE  /\ \A i \in 1 .. 4 : WriteNibble(v)[i] = W(HD_DB + i - 1, Bit(v, i - 1))
         /\ WriteNibble(v)[5] = W(HD_E, "0") /\ WriteNibble(v)[6] = W(HD_E, "1")
  <1> DEFINE data == [i \in 1 .. 4 |-> W(HD_DB + i - 1, Bit(v, i - 1))]
             clock == <<W(HD_E, "0"), W(HD_E, "1")>>
             r == WriteNibble(v)
  <1>1. "0" \in Drive /\ "1" \in Drive /\ \A k : Bit(v, k) \in Drive BY DEF Bit, Drive
  <1>2. \A i \in 1 .. 4 : W(HD_DB + i - 1, Bit(v, i - 1)) \in PanelWrite
    <2>1. \A i \in 1 .. 4 : HD_DB + i - 1 \in Pin BY Given DEF HD_DB
    <2> QED BY <1>1, <2>1, WriteOf
  <1>3. data \in Seq(PanelWrite) /\ Len(data) = 4 BY <1>2
  <1>4. clock \in Seq(PanelWrite) /\ Len(clock) = 2 /\ clock[1] = W(HD_E, "0") /\ clock[2] = W(HD_E, "1")
    <2>1. HD_E \in Pin BY Given DEF HD_E
    <2>2. W(HD_E, "0") \in PanelWrite /\ W(HD_E, "1") \in PanelWrite BY <1>1, <2>1, WriteOf
    <2> QED BY <2>2
  <1>5. r = data \o clock BY DEF WriteNibble
  <1>6. \A i \in 1 .. 4 : data[i] = W(HD_DB + i - 1, Bit(v, i - 1)) OBVIOUS
  <1> HIDE DEF data, clock, r
  <1>7. Placing(data, clock, r) BY <1>3, <1>4, <1>5, Placed
  <1>8. \A i \in 1 .. 4 : r[i] = data[i] BY <1>3, <1>7 DEF Placing
  <1>9. r[5] = clock[1] /\ r[6] = clock[2]
    <2>1. 1 \in 1 .. 2 /\ 2 \in 1 .. 2 /\ 4 + 1 = 5 /\ 4 + 2 = 6 OBVIOUS
    <2>2. \A i \in 1 .. 2 : r[4 + i] = clock[i] BY <1>3, <1>4, <1>7 DEF Placing
    <2> QED BY <2>1, <2>2
  <1> QED BY <1>4, <1>6, <1>8, <1>9 DEF r

\* and the thirteen of a byte.
LEMMA ByteWrites ==
  ASSUME NEW rs \in {"0", "1"}, NEW b
  PROVE  /\ WriteByte(rs, b)[1] = W(HD_RS, rs)
         /\ \A i \in 1 .. 6 : WriteByte(rs, b)[1 + i] = WriteNibble(b[1])[i]
         /\ \A i \in 1 .. 6 : WriteByte(rs, b)[7 + i] = WriteNibble(b[2])[i]
  <1> DEFINE select == <<W(HD_RS, rs)>>
             high == WriteNibble(b[1])
             low == WriteNibble(b[2])
             first == select \o high
             r == first \o low
  <1>1. select \in Seq(PanelWrite) /\ Len(select) = 1 /\ select[1] = W(HD_RS, rs)
    <2>1. HD_RS \in Pin /\ rs \in Drive BY Given DEF HD_RS, Drive
    <2>2. W(HD_RS, rs) \in PanelWrite BY <2>1, WriteOf
    <2> QED BY <2>2
  <1>2. high \in Seq(PanelWrite) /\ Len(high) = 6 /\ low \in Seq(PanelWrite) /\ Len(low) = 6 BY NibbleSent
  <1>3. WriteByte(rs, b) = r BY DEF WriteByte
  <1> HIDE DEF select, high, low
  <1>4. first \in Seq(PanelWrite) /\ Placing(select, high, first) BY <1>1, <1>2, Placed
  <1> HIDE DEF first
  <1>5. Len(first) = 7 BY <1>1, <1>2, <1>4 DEF Placing
  <1>6. first[1] = select[1] /\ \A i \in 1 .. 6 : first[1 + i] = high[i] BY <1>1, <1>2, <1>4 DEF Placing
  <1>7. Placing(first, low, r) BY <1>2, <1>4, Placed
  <1> HIDE DEF r
  <1>8. (\A i \in 1 .. 7 : r[i] = first[i]) /\ \A i \in 1 .. 6 : r[7 + i] = low[i] BY <1>2, <1>5, <1>7 DEF Placing
  <1>9. \A i \in 1 .. 6 : r[1 + i] = high[i]
    <2>1. \A i \in 1 .. 6 : 1 + i \in 1 .. 7 OBVIOUS
    <2> QED BY <1>6, <1>8, <2>1
  <1>10. r[1] = W(HD_RS, rs) BY <1>1, <1>6, <1>8
  <1> QED BY <1>3, <1>8, <1>9, <1>10 DEF high, low

\* The bytes after the first four nibbles: commands, and the text.
ByteAt(j) ==
  CASE j = 0 -> <<2, 8>> [] j = 1 -> <<0, 12>> [] j = 2 -> <<0, 1>> [] j = 3 -> <<0, 6>>
    [] OTHER -> Chars[j - 3]
SelectAt(j) == IF j < 4 THEN "0" ELSE "1"

\* u begins like r, and has t after its first n.
Agrees(u, r, n) == \A i \in 1 .. n : u[i] = r[i]
Sits(u, n, t, k) == \A i \in 1 .. k : u[n + i] = t[i]

\* A sequence that begins like r begins like q, if r is t after q.
LEMMA Within ==
  ASSUME NEW q, NEW t, NEW r, NEW u, Len(q) \in Nat, Len(t) \in Nat, Placing(q, t, r), Agrees(u, r, Len(r))
  PROVE  Agrees(u, q, Len(q)) /\ Sits(u, Len(q), t, Len(t))
  <1> DEFINE n == Len(q)
             k == Len(t)
  <1>0. n \in Nat /\ k \in Nat OBVIOUS
  <1>1. \A i \in 1 .. n + k : u[i] = r[i] BY DEF Agrees, Placing
  <1>2. (\A i \in 1 .. n : r[i] = q[i]) /\ \A i \in 1 .. k : r[n + i] = t[i] BY DEF Placing
  <1> HIDE DEF n, k
  <1>3. (\A i \in 1 .. n : i \in 1 .. n + k) /\ \A i \in 1 .. k : n + i \in 1 .. n + k BY <1>0
  <1>4. Agrees(u, q, n) BY <1>1, <1>2, <1>3 DEF Agrees
  <1>5. Sits(u, n, t, k) BY <1>1, <1>2, <1>3 DEF Sits
  <1> QED BY <1>4, <1>5 DEF n, k

\* Where each command of the script is.
LEMMA ScriptPlaces ==
  /\ Len(Chars) \in Nat /\ Len(Script) = 76 + 13 * Len(Chars)
  /\ \A m \in 0 .. 3, s \in 1 .. 6 : \E v : Script[6 * m + s] = WriteNibble(v)[s]
  /\ \A j \in 0 .. Len(Chars) + 3, o \in 1 .. 13 : Script[24 + 13 * j + o] = WriteByte(SelectAt(j), ByteAt(j))[o]
  <1> DEFINE at(i) == WriteByte("1", Chars[(i - 1) \div 13 + 1])[((i - 1) % 13) + 1]
             text == [i \in 1 .. 13 * Len(Chars) |-> at(i)]
             a == WriteNibble(3)
             b == WriteNibble(2)
             c == WriteByte("0", <<2, 8>>)
             d == WriteByte("0", <<0, 12>>)
             e == WriteByte("0", <<0, 1>>)
             f == WriteByte("0", <<0, 6>>)
             s2 == a \o a
             s3 == s2 \o a
             s4 == s3 \o b
             s5 == s4 \o c
             s6 == s5 \o d
             s7 == s6 \o e
             s8 == s7 \o f
             s9 == s8 \o text
  <1>0. Len(Chars) \in Nat BY ClientsAssumption, LenProperties
  <1>1. text \in Seq(PanelWrite) /\ Len(text) = 13 * Len(Chars)
    <2>1. ASSUME NEW i \in 1 .. 13 * Len(Chars) PROVE at(i) \in PanelWrite
      <3> DEFINE s == WriteByte("1", Chars[(i - 1) \div 13 + 1])
      <3>1. s \in Seq(PanelWrite) /\ Len(s) = 13 BY ByteSent
      <3>2. ((i - 1) % 13) + 1 \in 1 .. 13 BY <1>0, <2>1
      <3> HIDE DEF s
      <3>3. s[((i - 1) % 13) + 1] \in PanelWrite BY <3>1, <3>2, ElementOfSeq
      <3> QED BY <3>3 DEF s
    <2>2. 13 * Len(Chars) \in Nat BY <1>0
    <2> HIDE DEF at
    <2> QED BY <2>1, <2>2
  <1>2. a \in Seq(PanelWrite) /\ Len(a) = 6 /\ b \in Seq(PanelWrite) /\ Len(b) = 6 BY NibbleSent
  <1>3. /\ c \in Seq(PanelWrite) /\ d \in Seq(PanelWrite) /\ e \in Seq(PanelWrite) /\ f \in Seq(PanelWrite)
        /\ Len(c) = 13 /\ Len(d) = 13 /\ Len(e) = 13 /\ Len(f) = 13
    BY ByteSent
  <1>4. Script = s9 BY DEF Script
  <1>5. ASSUME NEW j \in 4 .. Len(Chars) + 3, NEW o \in 1 .. 13
        PROVE  13 * (j - 4) + o \in 1 .. 13 * Len(Chars) /\ text[13 * (j - 4) + o] = WriteByte("1", Chars[j - 3])[o]
    <2> DEFINE i == 13 * (j - 4) + o
    <2>1. i \in 1 .. 13 * Len(Chars) /\ (i - 1) \div 13 + 1 = j - 3 /\ ((i - 1) % 13) + 1 = o BY <1>0, <1>5
    <2>2. text[i] = at(i) BY <2>1
    <2> HIDE DEF i, text
    <2> QED BY <2>1, <2>2 DEF i
  <1> HIDE DEF a, b, c, d, e, f, text
  <1>12. s2 \in Seq(PanelWrite) /\ Placing(a, a, s2) BY <1>2, Placed
  <1> HIDE DEF s2
  <1>13. s3 \in Seq(PanelWrite) /\ Placing(s2, a, s3) BY <1>2, <1>12, Placed
  <1> HIDE DEF s3
  <1>14. s4 \in Seq(PanelWrite) /\ Placing(s3, b, s4) BY <1>2, <1>13, Placed
  <1> HIDE DEF s4
  <1>15. s5 \in Seq(PanelWrite) /\ Placing(s4, c, s5) BY <1>3, <1>14, Placed
  <1> HIDE DEF s5
  <1>16. s6 \in Seq(PanelWrite) /\ Placing(s5, d, s6) BY <1>3, <1>15, Placed
  <1> HIDE DEF s6
  <1>17. s7 \in Seq(PanelWrite) /\ Placing(s6, e, s7) BY <1>3, <1>16, Placed
  <1> HIDE DEF s7
  <1>18. s8 \in Seq(PanelWrite) /\ Placing(s7, f, s8) BY <1>3, <1>17, Placed
  <1> HIDE DEF s8
  <1>19. Placing(s8, text, s9) BY <1>1, <1>18, Placed
  <1> HIDE DEF s9
  <1>20. Len(s2) = 12 BY <1>2, <1>12 DEF Placing
  <1>21. Len(s3) = 18 BY <1>2, <1>13, <1>20 DEF Placing
  <1>22. Len(s4) = 24 BY <1>2, <1>14, <1>21 DEF Placing
  <1>23. Len(s5) = 37 BY <1>3, <1>15, <1>22 DEF Placing
  <1>24. Len(s6) = 50 BY <1>3, <1>16, <1>23 DEF Placing
  <1>25. Len(s7) = 63 BY <1>3, <1>17, <1>24 DEF Placing
  <1>26. Len(s8) = 76 BY <1>3, <1>18, <1>25 DEF Placing
  <1>27. Len(s9) = 76 + 13 * Len(Chars) BY <1>1, <1>19, <1>26 DEF Placing
  <1>30. Agrees(s9, s9, Len(s9)) BY DEF Agrees
  <1>28. /\ Len(a) \in Nat /\ Len(b) \in Nat /\ Len(c) \in Nat /\ Len(d) \in Nat /\ Len(e) \in Nat /\ Len(f) \in Nat
         /\ Len(text) \in Nat /\ Len(s2) \in Nat /\ Len(s3) \in Nat /\ Len(s4) \in Nat /\ Len(s5) \in Nat
         /\ Len(s6) \in Nat /\ Len(s7) \in Nat /\ Len(s8) \in Nat
    BY <1>0, <1>1, <1>2, <1>3, <1>20, <1>21, <1>22, <1>23, <1>24, <1>25, <1>26
  <1>31. Agrees(s9, s8, Len(s8)) /\ Sits(s9, Len(s8), text, Len(text)) BY <1>28, <1>19, <1>30, Within
  <1>32. Agrees(s9, s7, Len(s7)) /\ Sits(s9, Len(s7), f, Len(f)) BY <1>28, <1>18, <1>31, Within
  <1>33. Agrees(s9, s6, Len(s6)) /\ Sits(s9, Len(s6), e, Len(e)) BY <1>28, <1>17, <1>32, Within
  <1>34. Agrees(s9, s5, Len(s5)) /\ Sits(s9, Len(s5), d, Len(d)) BY <1>28, <1>16, <1>33, Within
  <1>35. Agrees(s9, s4, Len(s4)) /\ Sits(s9, Len(s4), c, Len(c)) BY <1>28, <1>15, <1>34, Within
  <1>36. Agrees(s9, s3, Len(s3)) /\ Sits(s9, Len(s3), b, Len(b)) BY <1>28, <1>14, <1>35, Within
  <1>37. Agrees(s9, s2, Len(s2)) /\ Sits(s9, Len(s2), a, Len(a)) BY <1>28, <1>13, <1>36, Within
  <1>38. Agrees(s9, a, Len(a)) /\ Sits(s9, Len(a), a, Len(a)) BY <1>28, <1>12, <1>37, Within
  <1>41. Sits(s9, 76, text, 13 * Len(Chars)) BY <1>26, <1>1, <1>31, Zenon
  <1>42. Sits(s9, 63, f, 13) BY <1>25, <1>3, <1>32, Zenon
  <1>43. Sits(s9, 50, e, 13) BY <1>24, <1>3, <1>33, Zenon
  <1>44. Sits(s9, 37, d, 13) BY <1>23, <1>3, <1>34, Zenon
  <1>45. Sits(s9, 24, c, 13) BY <1>22, <1>3, <1>35, Zenon
  <1>46. Sits(s9, 18, b, 6) BY <1>21, <1>2, <1>36, Zenon
  <1>47. Sits(s9, 12, a, 6) BY <1>20, <1>2, <1>37, Zenon
  <1>48. Agrees(s9, a, 6) /\ Sits(s9, 6, a, 6) BY <1>2, <1>38, Zenon
  <1>50. ASSUME NEW m \in 0 .. 3, NEW s \in 1 .. 6 PROVE \E v : Script[6 * m + s] = WriteNibble(v)[s]
    <2>1. CASE m = 0
      <3>1. 6 * m + s = s BY <2>1
      <3>2. s9[s] = a[s] BY <1>48 DEF Agrees
      <3> QED BY <1>4, <3>1, <3>2 DEF a
    <2>2. CASE m = 1
      <3>1. 6 * m + s = 6 + s BY <2>2
      <3>2. s9[6 + s] = a[s] BY <1>48 DEF Sits
      <3> QED BY <1>4, <3>1, <3>2 DEF a
    <2>3. CASE m = 2
      <3>1. 6 * m + s = 12 + s BY <2>3
      <3>2. s9[12 + s] = a[s] BY <1>47 DEF Sits
      <3> QED BY <1>4, <3>1, <3>2 DEF a
    <2>4. CASE m = 3
      <3>1. 6 * m + s = 18 + s BY <2>4
      <3>2. s9[18 + s] = b[s] BY <1>46 DEF Sits
      <3> QED BY <1>4, <3>1, <3>2 DEF b
    <2> QED BY <2>1, <2>2, <2>3, <2>4
  <1>51. ASSUME NEW j \in 0 .. Len(Chars) + 3, NEW o \in 1 .. 13
         PROVE  Script[24 + 13 * j + o] = WriteByte(SelectAt(j), ByteAt(j))[o]
    <2>1. CASE j = 0
      <3>1. 24 + 13 * j + o = 24 + o BY <2>1
      <3>2. s9[24 + o] = c[o] BY <1>45 DEF Sits
      <3>3. SelectAt(j) = "0" /\ ByteAt(j) = <<2, 8>> BY <2>1 DEF SelectAt, ByteAt
      <3>4. WriteByte(SelectAt(j), ByteAt(j)) = c BY <3>3, Zenon DEF c
      <3> QED BY <1>4, <3>1, <3>2, <3>4
    <2>2. CASE j = 1
      <3>1. 24 + 13 * j + o = 37 + o BY <2>2
      <3>2. s9[37 + o] = d[o] BY <1>44 DEF Sits
      <3>3. SelectAt(j) = "0" /\ ByteAt(j) = <<0, 12>> BY <2>2 DEF SelectAt, ByteAt
      <3>4. WriteByte(SelectAt(j), ByteAt(j)) = d BY <3>3, Zenon DEF d
      <3> QED BY <1>4, <3>1, <3>2, <3>4
    <2>3. CASE j = 2
      <3>1. 24 + 13 * j + o = 50 + o BY <2>3
      <3>2. s9[50 + o] = e[o] BY <1>43 DEF Sits
      <3>3. SelectAt(j) = "0" /\ ByteAt(j) = <<0, 1>> BY <2>3 DEF SelectAt, ByteAt
      <3>4. WriteByte(SelectAt(j), ByteAt(j)) = e BY <3>3, Zenon DEF e
      <3> QED BY <1>4, <3>1, <3>2, <3>4
    <2>4. CASE j = 3
      <3>1. 24 + 13 * j + o = 63 + o BY <2>4
      <3>2. s9[63 + o] = f[o] BY <1>42 DEF Sits
      <3>3. SelectAt(j) = "0" /\ ByteAt(j) = <<0, 6>> BY <2>4 DEF SelectAt, ByteAt
      <3>4. WriteByte(SelectAt(j), ByteAt(j)) = f BY <3>3, Zenon DEF f
      <3> QED BY <1>4, <3>1, <3>2, <3>4
    <2>5. CASE j >= 4
      <3>1. j \in 4 .. Len(Chars) + 3 /\ 24 + 13 * j + o = 76 + (13 * (j - 4) + o) BY <1>0, <1>51, <2>5
      <3>2. 13 * (j - 4) + o \in 1 .. 13 * Len(Chars) /\ text[13 * (j - 4) + o] = WriteByte("1", Chars[j - 3])[o]
        BY <1>5, <1>51, <3>1
      <3>3. s9[76 + (13 * (j - 4) + o)] = text[13 * (j - 4) + o] BY <1>41, <3>2 DEF Sits
      <3>4. SelectAt(j) = "1" /\ ByteAt(j) = Chars[j - 3] BY <3>1 DEF SelectAt, ByteAt
      <3> QED BY <1>4, <3>1, <3>2, <3>3, <3>4
    <2> QED BY <1>0, <2>1, <2>2, <2>3, <2>4, <2>5
  <1>52. Len(Script) = 76 + 13 * Len(Chars) BY <1>4, <1>27
  <1> QED BY <1>0, <1>50, <1>51, <1>52

-----------------------------------------------------------------------------
(* The lines the LCD writer drives, after each command of its script *)

\* The first n data lines have the bits of nibble v.
Data(l, v, n) == \A i \in 0 .. 3 : i < n => l[HD_DB + i] = Bit(v, i)

\* The lines after s commands of one of the first four nibbles,
AtStart(s, l) == (l[HD_E] = "0" <=> s = 5) /\ l[HD_RS] # "0"

\* and after o commands of byte j.
AtByte(j, o, l) ==
  /\ l[HD_E] = "0" <=> o \in {6, 12}
  /\ l[HD_RS] = "0" <=> IF o = 0 THEN j \in 1 .. 4 ELSE j \in 0 .. 3
  /\ o \in 1 .. 7 => Data(l, ByteAt(j)[1], o - 1)
  /\ o \in 7 .. 12 => Data(l, ByteAt(j)[2], o - 7)

\* How often E has changed by then in the byte.
Edges(o) == IF o < 6 THEN 0 ELSE IF o = 6 THEN 1 ELSE IF o < 12 THEN 2 ELSE 3

\* After k commands E has changed g times, and the lines are l.
WriterAt(k, g, l) ==
  \/ \E m \in 0 .. 3, s \in 0 .. 5 :
       k = 6 * m + s /\ g = 2 * m + (IF s = 5 THEN 1 ELSE 0) /\ AtStart(s, l)
  \/ \E j \in 0 .. Len(Chars) + 4, o \in 0 .. 12 :
       k = 24 + 13 * j + o /\ g = 8 + 4 * j + Edges(o) /\ AtByte(j, o, l)

\* What the lines are when E has just changed for the g-th time: at a rising
\* edge they hold a nibble of the script.
AtEdge(g, l) ==
  \/ g % 2 = 1
  \/ g <= 8 /\ l[HD_RS] # "0"
  \/ \E j \in 0 .. Len(Chars) + 3, h \in 1 .. 2 :
       g = 8 + 4 * j + 2 * h /\ (l[HD_RS] = "0" <=> j < 4) /\ Nibble(l) = ByteAt(j)[h]

\* The lines after command w.
After(l, w) == [l EXCEPT ![w.pin] = w.val]

Moves(k, g, r) == \E h \in {g, g + 1} : WriterAt(k + 1, h, r) /\ (h = g + 1 => AtEdge(h, r))

Lined == [Pin -> Drive]

LEMMA OneLine ==
  ASSUME NEW l \in Lined, NEW p \in Pin, NEW v \in Drive
  PROVE  /\ After(l, W(p, v)) \in Lined /\ After(l, W(p, v))[p] = v
         /\ \A q \in Pin : q # p => After(l, W(p, v))[q] = l[q]
  <1>1. W(p, v).pin = p /\ W(p, v).val = v BY DEF W
  <1> QED BY <1>1 DEF After, Lined

LEMMA Bits == \A v, i : Bit(v, i) \in {"0", "1"}
  BY DEF Bit

\* One more bit of a nibble.
Extended(l, v, n, r) ==
  /\ r \in Lined /\ r[HD_E] = l[HD_E] /\ r[HD_RS] = l[HD_RS]
  /\ Data(l, v, n) => Data(r, v, n + 1)

LEMMA DataMore ==
  ASSUME NEW l \in Lined, NEW v, NEW n \in 0 .. 3
  PROVE  Extended(l, v, n, After(l, W(HD_DB + n, Bit(v, n))))
  <1> DEFINE r == After(l, W(HD_DB + n, Bit(v, n)))
  <1> SUFFICES Extended(l, v, n, r) OBVIOUS
  <1>1. HD_DB + n \in Pin /\ HD_E \in Pin /\ HD_RS \in Pin /\ HD_E # HD_DB + n /\ HD_RS # HD_DB + n
    BY Given DEF HD_DB, HD_E, HD_RS
  <1>2. Bit(v, n) \in Drive BY Bits DEF Drive
  <1>3. r \in Lined /\ r[HD_DB + n] = Bit(v, n) /\ \A q \in Pin : q # HD_DB + n => r[q] = l[q] BY <1>1, <1>2, OneLine
  <1> HIDE DEF r
  <1>4. ASSUME Data(l, v, n), NEW i \in 0 .. 3, i < n + 1 PROVE r[HD_DB + i] = Bit(v, i)
    <2>1. CASE i = n BY <1>3, <2>1
    <2>2. CASE i # n
      <3>1. i < n /\ HD_DB + i \in Pin /\ HD_DB + i # HD_DB + n BY <1>4, <2>2, Given DEF HD_DB
      <3>2. l[HD_DB + i] = Bit(v, i) BY <1>4, <3>1 DEF Data
      <3> QED BY <1>3, <3>1, <3>2
    <2> QED BY <2>1, <2>2
  <1> QED BY <1>1, <1>3, <1>4 DEF Data, Extended

\* A line that is no data line.
LEMMA DataSame ==
  ASSUME NEW l \in Lined, NEW p \in {HD_E, HD_RS}, NEW x \in {"0", "1"}, NEW r, r = After(l, W(p, x))
  PROVE  /\ r \in Lined /\ r[p] = x /\ \A q \in {HD_E, HD_RS} : q # p => r[q] = l[q]
         /\ \A v, n : Data(l, v, n) => Data(r, v, n)
  <1>1. p \in Pin /\ HD_E \in Pin /\ HD_RS \in Pin /\ \A i \in 0 .. 3 : HD_DB + i \in Pin /\ HD_DB + i # p
    BY Given DEF HD_DB, HD_E, HD_RS
  <1>2. x \in Drive BY DEF Drive
  <1>3. r \in Lined /\ r[p] = x /\ \A q \in Pin : q # p => r[q] = l[q]
    <2>1. p \in Pin BY <1>1
    <2> QED BY <1>2, <2>1, OneLine, Zenon
  <1> QED BY <1>1, <1>3 DEF Data

\* Four bits make the nibble.
LEMMA DataNibbled ==
  ASSUME NEW l, NEW v \in 0 .. 15, NEW n \in 4 .. 6, Data(l, v, n)
  PROVE  Nibble(l) = v
  <1>1. l[HD_DB] = Bit(v, 0) /\ l[HD_DB + 1] = Bit(v, 1) /\ l[HD_DB + 2] = Bit(v, 2) /\ l[HD_DB + 3] = Bit(v, 3)
    <2>1. \A i \in 0 .. 3 : l[HD_DB + i] = Bit(v, i) BY DEF Data
    <2>2. HD_DB + 0 = HD_DB BY DEF HD_DB
    <2> QED BY <2>1, <2>2
  <1>2. \A i \in Nat : High(Bit(v, i)) = IF (v \div 2^i) % 2 = 1 THEN 1 ELSE 0 BY DEF High, Bit
  <1>3. /\ High(Bit(v, 0)) = IF v % 2 = 1 THEN 1 ELSE 0
        /\ High(Bit(v, 1)) = IF (v \div 2) % 2 = 1 THEN 1 ELSE 0
        /\ High(Bit(v, 2)) = IF (v \div 4) % 2 = 1 THEN 1 ELSE 0
        /\ High(Bit(v, 3)) = IF (v \div 8) % 2 = 1 THEN 1 ELSE 0
    <2>1. 2^0 = 1 /\ 2^1 = 2 /\ 2^2 = 4 /\ 2^3 = 8 OBVIOUS
    <2>2. v \div 1 = v OBVIOUS
    <2> QED BY <1>2, <2>1, <2>2
  <1>4. High(Bit(v, 0)) + 2 * High(Bit(v, 1)) + 4 * High(Bit(v, 2)) + 8 * High(Bit(v, 3)) = v
    <2>1. v \in {0, 1, 2, 3, 4, 5, 6, 7, 8, 9, 10, 11, 12, 13, 14, 15} OBVIOUS
    <2> QED BY <1>3, <2>1
  <1> QED BY <1>1, <1>4 DEF Nibble

LEMMA Nibbles ==
  ASSUME NEW j \in 0 .. Len(Chars) + 3
  PROVE  ByteAt(j)[1] \in 0 .. 15 /\ ByteAt(j)[2] \in 0 .. 15
  <1>1. CASE j \in 0 .. 3
    <2>1. ByteAt(j) \in {<<2, 8>>, <<0, 12>>, <<0, 1>>, <<0, 6>>} BY <1>1 DEF ByteAt
    <2> QED BY <2>1
  <1>2. CASE j \notin 0 .. 3
    <2>1. ByteAt(j) = Chars[j - 3] BY <1>2 DEF ByteAt
    <2>2. Len(Chars) \in Nat /\ Chars \in Seq((0 .. 15) \X (0 .. 15)) BY ClientsAssumption, LenProperties
    <2>3. j - 3 \in 1 .. Len(Chars) BY <1>2, <2>2
    <2>4. Chars[j - 3] \in (0 .. 15) \X (0 .. 15) BY <2>2, <2>3, ElementOfSeq
    <2> QED BY <2>1, <2>4
  <1> QED BY <1>1, <1>2

\* A command of a nibble v: a bit, or a change of E.
Commanded(l, v, t, r) ==
  /\ r \in Lined /\ r[HD_RS] = l[HD_RS]
  /\ t <= 4 => r[HD_E] = l[HD_E] /\ (Data(l, v, t - 1) => Data(r, v, t))
  /\ t = 5 => r[HD_E] = "0" /\ \A u, n : Data(l, u, n) => Data(r, u, n)
  /\ t = 6 => r[HD_E] = "1" /\ \A u, n : Data(l, u, n) => Data(r, u, n)

LEMMA NibbleCommand ==
  ASSUME NEW v, NEW l \in Lined, NEW t \in 1 .. 6
  PROVE  Commanded(l, v, t, After(l, WriteNibble(v)[t]))
  <1> DEFINE r == After(l, WriteNibble(v)[t])
  <1>0. r = After(l, WriteNibble(v)[t]) OBVIOUS
  <1> SUFFICES Commanded(l, v, t, r) OBVIOUS
  <1> HIDE DEF r
  <1>1. CASE t <= 4
    <2>1. WriteNibble(v)[t] = W(HD_DB + t - 1, Bit(v, t - 1)) BY <1>1, NibbleWrites
    <2> DEFINE n == t - 1
    <2>2. HD_DB + t - 1 = HD_DB + n /\ n \in 0 .. 3 /\ n + 1 = t BY <1>1 DEF HD_DB
    <2>3. r = After(l, W(HD_DB + n, Bit(v, n))) BY <1>0, <2>1, <2>2
    <2> HIDE DEF n
    <2>4. r \in Lined /\ r[HD_E] = l[HD_E] /\ r[HD_RS] = l[HD_RS] /\ (Data(l, v, n) => Data(r, v, n + 1))
      <3>1. Extended(l, v, n, r) BY <2>2, <2>3, DataMore
      <3> QED BY <3>1 DEF Extended
    <2>5. Data(l, v, t - 1) => Data(r, v, t) BY <2>2, <2>4 DEF n
    <2> QED BY <1>1, <2>4, <2>5 DEF Commanded
  <1>2. HD_E # HD_RS BY DEF HD_E, HD_RS
  <1>3. CASE t = 5
    <2>1. r = After(l, W(HD_E, "0")) BY <1>0, <1>3, NibbleWrites
    <2>2. /\ r \in Lined /\ r[HD_E] = "0" /\ \A q \in {HD_E, HD_RS} : q # HD_E => r[q] = l[q]
          /\ \A u, n : Data(l, u, n) => Data(r, u, n)
      BY <2>1, DataSame
    <2> QED BY <1>2, <1>3, <2>2 DEF Commanded
  <1>4. CASE t = 6
    <2>1. r = After(l, W(HD_E, "1")) BY <1>0, <1>4, NibbleWrites
    <2>2. /\ r \in Lined /\ r[HD_E] = "1" /\ \A q \in {HD_E, HD_RS} : q # HD_E => r[q] = l[q]
          /\ \A u, n : Data(l, u, n) => Data(r, u, n)
      BY <2>1, DataSame
    <2> QED BY <1>2, <1>4, <2>2 DEF Commanded
  <1> QED BY <1>1, <1>3, <1>4

\* The next command of the first four nibbles,
LEMMA StartMoves ==
  ASSUME NEW l \in Lined, NEW m \in 0 .. 3, NEW s \in 0 .. 5, AtStart(s, l), NEW v, NEW r,
         r = After(l, WriteNibble(v)[s + 1])
  PROVE  Moves(6 * m + s, 2 * m + (IF s = 5 THEN 1 ELSE 0), r)
  <1> DEFINE k == 6 * m + s
             g == 2 * m + (IF s = 5 THEN 1 ELSE 0)
  <1>1. s + 1 \in 1 .. 6 OBVIOUS
  <1>2. /\ r[HD_RS] = l[HD_RS]
        /\ s + 1 <= 4 => r[HD_E] = l[HD_E]
        /\ s + 1 = 5 => r[HD_E] = "0"
        /\ s + 1 = 6 => r[HD_E] = "1"
    <2>1. Commanded(l, v, s + 1, r) BY <1>1, NibbleCommand
    <2> QED BY <2>1 DEF Commanded
  <1>3. CASE s < 5
    <2>1. AtStart(s + 1, r) BY <1>2, <1>3 DEF AtStart
    <2> DEFINE h == 2 * m + (IF s + 1 = 5 THEN 1 ELSE 0)
    <2>2. k + 1 = 6 * m + (s + 1) /\ s + 1 \in 0 .. 5 BY <1>3
    <2>3. WriterAt(k + 1, h, r) BY <2>1, <2>2 DEF WriterAt
    <2>4. h \in {g, g + 1} /\ (h = g + 1 => h % 2 = 1) BY <1>3
    <2> QED BY <2>3, <2>4 DEF Moves, AtEdge
  <1>4. CASE s = 5 /\ m < 3
    <2>1. AtStart(0, r) BY <1>2, <1>4 DEF AtStart
    <2> DEFINE h == 2 * (m + 1) + (IF 0 = 5 THEN 1 ELSE 0)
    <2>2. k + 1 = 6 * (m + 1) + 0 /\ m + 1 \in 0 .. 3 /\ 0 \in 0 .. 5 BY <1>4
    <2>3. WriterAt(k + 1, h, r) BY <2>1, <2>2 DEF WriterAt
    <2>4. h = g + 1 /\ h <= 8 /\ r[HD_RS] # "0" BY <1>2, <1>4 DEF AtStart
    <2> QED BY <2>3, <2>4 DEF Moves, AtEdge
  <1>5. CASE s = 5 /\ m = 3
    <2>0. Len(Chars) \in Nat BY ScriptPlaces
    <2>1. AtByte(0, 0, r) BY <1>2, <1>5 DEF AtStart, AtByte
    <2> DEFINE h == 8 + 4 * 0 + Edges(0)
    <2>2. k + 1 = 24 + 13 * 0 + 0 /\ 0 \in 0 .. Len(Chars) + 4 /\ 0 \in 0 .. 12 BY <1>5, <2>0
    <2>3. WriterAt(k + 1, h, r) BY <2>1, <2>2 DEF WriterAt
    <2>4. h = g + 1 /\ h <= 8 /\ r[HD_RS] # "0" BY <1>2, <1>5 DEF AtStart, Edges
    <2> QED BY <2>3, <2>4 DEF Moves, AtEdge
  <1> QED BY <1>3, <1>4, <1>5

\* and of a byte.
LEMMA ByteMoves ==
  ASSUME NEW l \in Lined, NEW j \in 0 .. Len(Chars) + 3, NEW o \in 0 .. 12, AtByte(j, o, l), NEW r,
         r = After(l, WriteByte(SelectAt(j), ByteAt(j))[o + 1])
  PROVE  Moves(24 + 13 * j + o, 8 + 4 * j + Edges(o), r)
  <1> DEFINE k == 24 + 13 * j + o
             g == 8 + 4 * j + Edges(o)
             b == ByteAt(j)
             w == WriteByte(SelectAt(j), ByteAt(j))
  <1>0. Len(Chars) \in Nat BY ScriptPlaces
  <1>1. SelectAt(j) \in {"0", "1"} /\ (SelectAt(j) = "0" <=> j < 4) BY DEF SelectAt
  <1>2. /\ w[1] = W(HD_RS, SelectAt(j))
        /\ \A i \in 1 .. 6 : w[1 + i] = WriteNibble(b[1])[i]
        /\ \A i \in 1 .. 6 : w[7 + i] = WriteNibble(b[2])[i]
    BY <1>1, ByteWrites
  <1>3. b[1] \in 0 .. 15 /\ b[2] \in 0 .. 15 BY Nibbles
  <1>4. r = After(l, w[o + 1]) OBVIOUS
  <1> HIDE DEF w
  <1>5. CASE o < 12
    <2> SUFFICES ASSUME TRUE PROVE AtByte(j, o + 1, r) /\ (o = 6 => Nibble(r) = b[1])
      <3>1. k + 1 = 24 + 13 * j + (o + 1) /\ o + 1 \in 0 .. 12 /\ j \in 0 .. Len(Chars) + 4 BY <1>0, <1>5
      <3> DEFINE h == 8 + 4 * j + Edges(o + 1)
      <3>2. WriterAt(k + 1, h, r) BY <3>1 DEF WriterAt
      <3>3. h \in {g, g + 1} /\ (h = g + 1 /\ o # 6 => h % 2 = 1) /\ (o = 6 => h = 8 + 4 * j + 2 * 1)
        BY <1>5 DEF Edges
      <3>4. ASSUME o = 6 PROVE AtEdge(h, r)
        <4>1. r[HD_RS] = "0" <=> j < 4 BY <3>4 DEF AtByte
        <4>2. Nibble(r) = ByteAt(j)[1] /\ 1 \in 1 .. 2 BY <3>4
        <4> QED BY <3>3, <3>4, <4>1, <4>2 DEF AtEdge
      <3>5. h = g + 1 => AtEdge(h, r) BY <3>3, <3>4 DEF AtEdge
      <3> HIDE DEF h, k, g
      <3>6. Moves(k, g, r) BY <3>2, <3>3, <3>5 DEF Moves
      <3> QED BY <3>6 DEF k, g
    <2>1. CASE o = 0
      <3>1. r = After(l, W(HD_RS, SelectAt(j))) BY <1>2, <1>4, <2>1
      <3>2. r[HD_RS] = SelectAt(j) /\ \A q \in {HD_E, HD_RS} : q # HD_RS => r[q] = l[q] BY <1>1, <3>1, DataSame
      <3>3. r[HD_E] = l[HD_E] BY <3>2 DEF HD_E, HD_RS
      <3>4. Data(r, b[1], 0) BY DEF Data
      <3>5. l[HD_E] # "0" BY <2>1 DEF AtByte
      <3>6. AtByte(j, 1, r)
        <4>1. r[HD_E] # "0" /\ 1 \notin {6, 12} BY <3>3, <3>5
        <4>2. r[HD_RS] = "0" <=> j \in 0 .. 3 BY <1>1, <3>2
        <4> QED BY <3>4, <4>1, <4>2 DEF AtByte
      <3> QED BY <2>1, <3>6
    <2>2. CASE o \in 1 .. 6
      <3>1. r = After(l, WriteNibble(b[1])[o]) BY <1>2, <1>4, <2>2
      <3>2. Commanded(l, b[1], o, r) BY <2>2, <3>1, NibbleCommand
      <3>3. Data(l, b[1], o - 1) /\ (l[HD_RS] = "0" <=> j \in 0 .. 3) /\ (l[HD_E] = "0" <=> o = 6) BY <2>2 DEF AtByte
      <3>4. Data(r, b[1], o)
        <4>1. CASE o <= 4 BY <3>2, <3>3, <4>1 DEF Commanded
        <4>2. CASE o > 4
          <5>1. Data(r, b[1], o - 1) BY <2>2, <3>2, <3>3, <4>2 DEF Commanded
          <5> QED BY <2>2, <4>2, <5>1 DEF Data
        <4> QED BY <2>2, <4>1, <4>2
      <3>5. r[HD_RS] = "0" <=> j \in 0 .. 3 BY <3>2, <3>3 DEF Commanded
      <3>6. r[HD_E] = "0" <=> o + 1 \in {6, 12}
        <4>1. CASE o <= 4 BY <2>2, <3>2, <3>3, <4>1 DEF Commanded
        <4>2. CASE o = 5 BY <3>2, <4>2 DEF Commanded
        <4>3. CASE o = 6 BY <3>2, <4>3 DEF Commanded
        <4> QED BY <2>2, <4>1, <4>2, <4>3
      <3>7. o + 1 \in 7 .. 12 => Data(r, b[2], (o + 1) - 7) BY <2>2 DEF Data
      <3>8. AtByte(j, o + 1, r) BY <2>2, <3>4, <3>5, <3>6, <3>7 DEF AtByte
      <3>9. ASSUME o = 6 PROVE Nibble(r) = b[1]
        <4>1. Data(r, b[1], 6) /\ 6 \in 4 .. 6 BY <3>4, <3>9
        <4> HIDE DEF b
        <4> QED BY <1>3, <4>1, DataNibbled
      <3> QED BY <3>8, <3>9
    <2>3. CASE o \in 7 .. 11
      <3> DEFINE t == o - 6
      <3>0. t \in 1 .. 5 /\ 7 + t = o + 1 /\ t - 1 = o - 7 BY <2>3
      <3>1. r = After(l, WriteNibble(b[2])[t]) BY <1>2, <1>4, <3>0
      <3>2. Commanded(l, b[2], t, r) BY <3>0, <3>1, NibbleCommand
      <3>3. Data(l, b[2], t - 1) /\ (l[HD_RS] = "0" <=> j \in 0 .. 3) /\ l[HD_E] # "0" BY <2>3, <3>0 DEF AtByte
      <3> HIDE DEF t
      <3>4. Data(r, b[2], t)
        <4>1. CASE t <= 4 BY <3>2, <3>3, <4>1 DEF Commanded
        <4>2. CASE t = 5
          <5>1. Data(r, b[2], t - 1) BY <3>2, <3>3, <4>2 DEF Commanded
          <5> QED BY <4>2, <5>1 DEF Data
        <4> QED BY <3>0, <4>1, <4>2
      <3>5. r[HD_RS] = "0" <=> j \in 0 .. 3 BY <3>2, <3>3 DEF Commanded
      <3>6. r[HD_E] = "0" <=> o + 1 \in {6, 12}
        <4>1. CASE t <= 4 BY <2>3, <3>0, <3>2, <3>3, <4>1 DEF Commanded
        <4>2. CASE t = 5 BY <3>0, <3>2, <4>2 DEF Commanded
        <4> QED BY <3>0, <4>1, <4>2
      <3>7. Data(r, b[2], (o + 1) - 7) BY <3>0, <3>4
      <3>8. AtByte(j, o + 1, r) BY <2>3, <3>5, <3>6, <3>7 DEF AtByte
      <3> QED BY <2>3, <3>8
    <2> QED BY <1>5, <2>1, <2>2, <2>3
  <1>6. CASE o = 12
    <2>1. r = After(l, WriteNibble(b[2])[6]) BY <1>2, <1>4, <1>6
    <2>2. Commanded(l, b[2], 6, r) BY <2>1, NibbleCommand
    <2>3. Data(l, b[2], 5) /\ (l[HD_RS] = "0" <=> j \in 0 .. 3) BY <1>6 DEF AtByte
    <2>4. r[HD_E] = "1" /\ Data(r, b[2], 5) /\ (r[HD_RS] = "0" <=> j < 4) BY <2>2, <2>3 DEF Commanded
    <2>5. Nibble(r) = b[2]
      <3>1. Data(r, b[2], 5) /\ 5 \in 4 .. 6 BY <2>4
      <3> HIDE DEF b
      <3> QED BY <1>3, <3>1, DataNibbled
    <2>6. AtByte(j + 1, 0, r) BY <2>4 DEF AtByte
    <2> DEFINE h == 8 + 4 * (j + 1) + Edges(0)
    <2>7. k + 1 = 24 + 13 * (j + 1) + 0 /\ 0 \in 0 .. 12 /\ j + 1 \in 0 .. Len(Chars) + 4 BY <1>0, <1>6
    <2>8. WriterAt(k + 1, h, r) BY <2>6, <2>7 DEF WriterAt
    <2>9. h = g + 1 /\ h = 8 + 4 * j + 2 * 2 /\ 2 \in 1 .. 2 BY <1>6 DEF Edges
    <2>10. AtEdge(h, r) BY <2>4, <2>5, <2>9 DEF AtEdge
    <2> HIDE DEF h, k, g
    <2>11. Moves(k, g, r) BY <2>8, <2>9, <2>10 DEF Moves
    <2> QED BY <2>11 DEF k, g
  <1> QED BY <1>5, <1>6

\* Every command of the script moves the lines on, and the level of E changes
\* exactly with its count.
LEMMA ScriptMoves ==
  ASSUME NEW k \in Nat, k < Len(Script), NEW g, NEW l \in Lined, WriterAt(k, g, l)
  PROVE  Moves(k, g, After(l, Script[k + 1]))
  <1> DEFINE r == After(l, Script[k + 1])
  <1>1. CASE \E m \in 0 .. 3, s \in 0 .. 5 :
               k = 6 * m + s /\ g = 2 * m + (IF s = 5 THEN 1 ELSE 0) /\ AtStart(s, l)
    <2>1. PICK m \in 0 .. 3, s \in 0 .. 5 : k = 6 * m + s /\ g = 2 * m + (IF s = 5 THEN 1 ELSE 0) /\ AtStart(s, l)
      BY <1>1
    <2>2. s + 1 \in 1 .. 6 /\ k + 1 = 6 * m + (s + 1) BY <2>1
    <2>3. PICK v : Script[k + 1] = WriteNibble(v)[s + 1]
      <3> DEFINE t == s + 1
      <3>1. t \in 1 .. 6 /\ k + 1 = 6 * m + t BY <2>2
      <3> HIDE DEF t
      <3>2. \E v : Script[6 * m + t] = WriteNibble(v)[t] BY <3>1, ScriptPlaces
      <3> QED BY <3>1, <3>2 DEF t
    <2>4. r = After(l, WriteNibble(v)[s + 1]) BY <2>3
    <2> HIDE DEF r
    <2>5. Moves(6 * m + s, 2 * m + (IF s = 5 THEN 1 ELSE 0), r) BY <2>1, <2>4, StartMoves
    <2> QED BY <2>1, <2>5 DEF r
  <1>2. CASE \E j \in 0 .. Len(Chars) + 4, o \in 0 .. 12 :
               k = 24 + 13 * j + o /\ g = 8 + 4 * j + Edges(o) /\ AtByte(j, o, l)
    <2>1. PICK j \in 0 .. Len(Chars) + 4, o \in 0 .. 12 : k = 24 + 13 * j + o /\ g = 8 + 4 * j + Edges(o) /\ AtByte(j, o, l)
      BY <1>2
    <2>2. Len(Chars) \in Nat /\ Len(Script) = 76 + 13 * Len(Chars) BY ScriptPlaces
    <2>3. j \in 0 .. Len(Chars) + 3 /\ o + 1 \in 1 .. 13 /\ k + 1 = 24 + 13 * j + (o + 1) BY <2>1, <2>2
    <2>4. Script[k + 1] = WriteByte(SelectAt(j), ByteAt(j))[o + 1]
      <3> DEFINE t == o + 1
      <3>1. t \in 1 .. 13 /\ k + 1 = 24 + 13 * j + t BY <2>3
      <3> HIDE DEF t
      <3>2. Script[24 + 13 * j + t] = WriteByte(SelectAt(j), ByteAt(j))[t] BY <2>3, <3>1, ScriptPlaces
      <3> QED BY <3>1, <3>2 DEF t
    <2>5. r = After(l, WriteByte(SelectAt(j), ByteAt(j))[o + 1]) BY <2>4
    <2> HIDE DEF r
    <2>6. Moves(24 + 13 * j + o, 8 + 4 * j + Edges(o), r) BY <2>1, <2>3, <2>5, ByteMoves
    <2> QED BY <2>1, <2>6 DEF r
  <1> QED BY <1>1, <1>2 DEF WriterAt

-----------------------------------------------------------------------------
(* What the LCD shows *)

\* Division, by climbing to the number divided.
LEMMA Division ==
  ASSUME NEW d \in Nat \ {0}, NEW n \in Nat
  PROVE  \E q \in Nat, r \in 0 .. d - 1 : n = d * q + r
  <1> DEFINE G == {i \in Nat : \E q \in Nat, r \in 0 .. d - 1 : i = d * q + r + 1}
  <1>1. 1 \in G
    <2>1. 0 \in Nat /\ 0 \in 0 .. d - 1 /\ 1 = d * 0 + 0 + 1 OBVIOUS
    <2> QED BY <2>1
  <1>2. ASSUME NEW k \in 1 .. n, k \in G PROVE k + 1 \in G
    <2>1. PICK q \in Nat, r \in 0 .. d - 1 : k = d * q + r + 1 BY <1>2
    <2>2. CASE r < d - 1
      <3>1. r + 1 \in 0 .. d - 1 /\ k + 1 = d * q + (r + 1) + 1 BY <2>1, <2>2
      <3> QED BY <3>1
    <2>3. CASE r = d - 1
      <3> DEFINE p == q + 1
      <3>1. p \in Nat /\ 0 \in 0 .. d - 1 /\ d * p = d * q + d /\ d * q \in Nat OBVIOUS
      <3> HIDE DEF p
      <3>2. k + 1 = d * p + 0 + 1 /\ k + 1 \in Nat BY <2>1, <2>3, <3>1
      <3> QED BY <3>1, <3>2
    <2> QED BY <2>2, <2>3
  <1> HIDE DEF G
  <1>3. n + 1 \in Nat /\ n + 1 \in 1 .. n + 1 /\ \A k \in 1 .. (n + 1) - 1 : k \in 1 .. n OBVIOUS
  <1>4. \A k \in 1 .. n + 1 : k \in G BY <1>1, <1>2, <1>3, Ladder
  <1>5. n + 1 \in G BY <1>3, <1>4
  <1>6. PICK q \in Nat, r \in 0 .. d - 1 : n + 1 = d * q + r + 1 BY <1>5 DEF G
  <1>7. d * q \in Nat OBVIOUS
  <1>8. n = d * q + r BY <1>6, <1>7
  <1> QED BY <1>8

LEMMA Remainder ==
  ASSUME NEW d \in Nat \ {0}, NEW q \in Nat, NEW r \in 0 .. d - 1
  PROVE  (d * q + r) % d = r
  BY Z3

\* A cursor that is moved on comes to the next place, or to the first.
LEMMA NextPlace ==
  ASSUME NEW n \in Nat
  PROVE  /\ n % LcdSize \in 0 .. LcdSize - 1
         /\ NextCursor(n % LcdSize) = (n + 1) % LcdSize
  <1> DEFINE d == LcdSize
  <1>0. d \in Nat \ {0} BY ClientsAssumption
  <1> HIDE DEF d
  <1>1. PICK q \in Nat, r \in 0 .. d - 1 : n = d * q + r BY <1>0, Division
  <1>2. n % d = r BY <1>0, <1>1, Remainder
  <1>3. CASE r < d - 1
    <2>0. d * q \in Nat BY <1>0
    <2>1. r + 1 \in 0 .. d - 1 /\ n + 1 = d * q + (r + 1) BY <1>0, <1>1, <1>3, <2>0
    <2>2. (d * q + (r + 1)) % d = r + 1 BY <1>0, <2>1, Remainder
    <2>3. (n + 1) % d = r + 1 BY <2>1, <2>2
    <2>4. NextCursor(r) = r + 1 BY <1>0, <1>3 DEF NextCursor, d
    <2> QED BY <1>2, <2>3, <2>4 DEF d
  <1>4. CASE r = d - 1
    <2>0. d * q \in Nat /\ d * (q + 1) = d * q + d BY <1>0
    <2>1. q + 1 \in Nat /\ 0 \in 0 .. d - 1 /\ n + 1 = d * (q + 1) + 0 BY <1>0, <1>1, <1>4, <2>0
    <2>2. (d * (q + 1) + 0) % d = 0 BY <1>0, <2>1, Remainder
    <2>3. (n + 1) % d = 0 BY <2>1, <2>2
    <2>4. NextCursor(r) = 0 BY <1>0, <1>4 DEF NextCursor, d
    <2> QED BY <1>2, <2>3, <2>4 DEF d
  <1> QED BY <1>0, <1>3, <1>4

\* The characters, of the first k, that go to place i.
Places(k, i) == {j \in 1 .. k : (j - 1) % LcdSize = i}

Blank == [i \in 0 .. LcdSize - 1 |-> <<>>]

LEMMA DisplayedAt ==
  ASSUME NEW k
  PROVE  Display(k) = [i \in 0 .. LcdSize - 1 |->
           IF Places(k, i) = {} THEN <<>>
           ELSE Chars[CHOOSE j \in Places(k, i) : \A h \in Places(k, i) : h <= j]]
  BY DEF Display, Places

LEMMA DisplayNone == Display(0) = Blank
  <1>1. \A i : Places(0, i) = {} BY DEF Places
  <1> QED BY <1>1, DisplayedAt DEF Blank

\* One more character takes the next place.
LEMMA DisplayMore ==
  ASSUME NEW n \in Nat
  PROVE  Display(n + 1) = [Display(n) EXCEPT ![n % LcdSize] = Chars[n + 1]]
  <1> DEFINE newest(S) == IF S = {} THEN <<>> ELSE Chars[CHOOSE j \in S : \A h \in S : h <= j]
             at(k, i) == newest(Places(k, i))
             c == n % LcdSize
  <1>1. Display(n) = [i \in 0 .. LcdSize - 1 |-> at(n, i)] BY DisplayedAt
  <1>2. Display(n + 1) = [i \in 0 .. LcdSize - 1 |-> at(n + 1, i)] BY DisplayedAt
  <1>3. c \in 0 .. LcdSize - 1 BY NextPlace
  <1>4. ASSUME NEW i \in 0 .. LcdSize - 1, i # c PROVE at(n + 1, i) = at(n, i)
    <2>1. Places(n + 1, i) = Places(n, i)
      <3>1. (n + 1) - 1 = n OBVIOUS
      <3>2. \A j : j \in 1 .. n + 1 <=> j \in 1 .. n \/ j = n + 1 OBVIOUS
      <3>3. \A j : j \in Places(n + 1, i) <=> j \in 1 .. n + 1 /\ (j - 1) % LcdSize = i BY DEF Places
      <3>4. \A j : j \in Places(n, i) <=> j \in 1 .. n /\ (j - 1) % LcdSize = i BY DEF Places
      <3>5. ((n + 1) - 1) % LcdSize # i BY <1>4, <3>1
      <3>6. \A j : j \in Places(n + 1, i) <=> j \in Places(n, i) BY <3>2, <3>3, <3>4, <3>5, Zenon
      <3> QED BY <3>6
    <2> HIDE DEF newest
    <2> QED BY <2>1
  <1>5. at(n + 1, c) = Chars[n + 1]
    <2>1. n + 1 \in Places(n + 1, c) BY DEF Places
    <2>2. \A h \in Places(n + 1, c) : h \in Nat /\ h <= n + 1 BY DEF Places
    <2>3. (CHOOSE j \in Places(n + 1, c) : \A h \in Places(n + 1, c) : h <= j) = n + 1
      <3> DEFINE top(j) == \A h \in Places(n + 1, c) : h <= j
                 m == CHOOSE j \in Places(n + 1, c) : top(j)
      <3>1. \E j \in Places(n + 1, c) : top(j) BY <2>1, <2>2
      <3>2. m \in Places(n + 1, c) /\ top(m) BY <3>1
      <3> HIDE DEF m
      <3>3. m \in Nat /\ m <= n + 1 /\ n + 1 <= m BY <2>1, <2>2, <3>2
      <3>4. m = n + 1 BY <3>3
      <3> QED BY <3>4 DEF m
    <2> QED BY <2>1, <2>3
  <1> HIDE DEF at, c
  <1>6. [Display(n) EXCEPT ![c] = Chars[n + 1]] = [i \in 0 .. LcdSize - 1 |-> IF i = c THEN Chars[n + 1] ELSE at(n, i)]
    BY <1>1, <1>3
  <1>7. [Display(n) EXCEPT ![c] = Chars[n + 1]] = [i \in 0 .. LcdSize - 1 |-> at(n + 1, i)] BY <1>4, <1>5, <1>6
  <1> QED BY <1>2, <1>7 DEF c

\* What a message tells of E, when E has changed g times; -2 stands for a
\* writer that is gone.
Message(g, l) ==
  \/ g = -2 /\ \A p \in Pin : l[p] = "X"
  \/ g >= 0 /\ (l[HD_E] = "0" <=> g % 2 = 1)

\* Levels l at the g-th change of E come after those at the k-th; -1 stands
\* for an LCD that has heard nothing.
Link(k, g, l) ==
  \/ k = -1 \/ g = -2
  \/ k >= 0 /\ (g = k \/ (g = k + 1 /\ AtEdge(g, l)))

\* n characters are written, and of the next a half if h is over 1.
Filled(n, h) ==
  /\ lcd_text = Display(n) /\ lcd_cursor = n % LcdSize
  /\ prev_data = IF h >= 2 THEN <<Chars[n + 1][1]>> ELSE <<>>

\* The LCD has come too late to start, or shows what has been clocked in by
\* the k-th change of E.
Reading(k) ==
  \/ ~lcd_init /\ lcd_text = Blank
  \/ lcd_init /\ \E n \in 0 .. Len(Chars), h \in 0 .. 3 :
       k = 24 + 4 * n + h /\ (h >= 2 => n < Len(Chars)) /\ Filled(n, h)

\* What is left when the writer is gone.
Marred ==
  \E n \in 0 .. Len(Chars) :
    \/ lcd_text = Display(n)
    \/ \E v \in 0 .. 15 : lcd_text = [Display(n) EXCEPT ![n % LcdSize] = <<v, 15>>]

\* The LCD when it last heard of the k-th change of E.
LcdAt(k) ==
  \/ k = -1 /\ prev_E # "0" /\ ~lcd_init /\ lcd_text = Blank
  \/ k = -2 /\ prev_E # "0" /\ Marred
  \/ k >= 0 /\ (prev_E = "0" <=> k % 2 = 1) /\ Reading(k)

\* pins_updated with levels l.
Hears(l) ==
  /\ prev_E' = l[HD_E]
  /\ \/ ~Latched(l) /\ UNCHANGED <<prev_cmnd, prev_data, lcd_init, lcd_cursor, lcd_text>>
     \/ Latched(l) /\ l[HD_RS] = "0" /\ CommandNibble(Nibble(l))
     \/ Latched(l) /\ l[HD_RS] # "0" /\ DataNibble(Nibble(l))

LEMMA BlankMarred ==
  ASSUME lcd_text = Blank
  PROVE  Marred
  <1>1. Len(Chars) \in Nat BY ScriptPlaces
  <1>2. 0 \in 0 .. Len(Chars) BY <1>1
  <1> QED BY <1>2, DisplayNone DEF Marred

LEMMA ReadingMarred ==
  ASSUME NEW k, Reading(k)
  PROVE  Marred
  BY BlankMarred DEF Reading, Filled, Marred

\* Levels that are not latched.
LEMMA NotLatched ==
  ASSUME NEW k \in Int, NEW g \in Int, NEW l, Message(g, l), Link(k, g, l), LcdAt(k), Hears(l), ~Latched(l)
  PROVE  LcdAt(g)'
  <1>1. prev_E' = l[HD_E] /\ UNCHANGED <<prev_data, lcd_init, lcd_cursor, lcd_text>> BY DEF Hears
  <1>2. HD_E \in Pin BY Given DEF HD_E
  <1>3. CASE g = -2
    <2>1. prev_E' # "0" BY <1>1, <1>2, <1>3 DEF Message
    <2>2. Marred
      <3>1. CASE k = -1 BY <3>1, BlankMarred DEF LcdAt
      <3>2. CASE k = -2 BY <3>2 DEF LcdAt
      <3>3. CASE k >= 0 BY <3>3, ReadingMarred DEF LcdAt
      <3> QED BY <3>1, <3>2, <3>3 DEF LcdAt
    <2>3. Marred' BY <1>1, <2>2 DEF Marred
    <2> QED BY <1>3, <2>1, <2>3 DEF LcdAt
  <1>4. CASE g # -2
    <2>1. g >= 0 /\ (prev_E' = "0" <=> g % 2 = 1) BY <1>1, <1>4 DEF Message
    <2> SUFFICES Reading(g)' BY <2>1 DEF LcdAt
    <2>2. CASE ~lcd_init
      <3>1. lcd_text = Blank BY <1>4, <2>2 DEF LcdAt, Link, Reading
      <3> QED BY <1>1, <2>2, <3>1 DEF Reading
    <2>3. CASE lcd_init
      <3>1. k >= 0 /\ (prev_E = "0" <=> k % 2 = 1) /\ Reading(k) BY <1>4, <2>3 DEF LcdAt, Link
      <3>2. PICK n \in 0 .. Len(Chars), h \in 0 .. 3 : k = 24 + 4 * n + h /\ (h >= 2 => n < Len(Chars)) /\ Filled(n, h)
        BY <2>3, <3>1 DEF Reading
      <3>3. \A i : Filled(n, i) => Filled(n, i)' BY <1>1 DEF Filled
      <3>4. CASE g = k BY <1>1, <2>3, <3>2, <3>3, <3>4 DEF Reading
      <3>5. CASE g = k + 1
        <4>0. Len(Chars) \in Nat BY ScriptPlaces
        <4>1. prev_E # "0" \/ l[HD_E] = "0" BY DEF Latched
        <4>2. k % 2 # 1 BY <1>1, <2>1, <3>1, <3>5, <4>1
        <4>3. h \in {0, 2} BY <3>2, <4>0, <4>2
        <4>4. h + 1 \in 0 .. 3 /\ g = 24 + 4 * n + (h + 1) /\ (h + 1 >= 2 <=> h >= 2) BY <3>2, <3>5, <4>0, <4>3
        <4>5. Filled(n, h + 1) BY <3>2, <4>4 DEF Filled
        <4>6. Filled(n, h + 1)' BY <3>3, <4>5
        <4> QED BY <1>1, <2>3, <3>2, <4>4, <4>6 DEF Reading
      <3> QED BY <1>4, <3>1, <3>4, <3>5 DEF Link
    <2> QED BY <2>2, <2>3
  <1> QED BY <1>3, <1>4

\* Levels that are latched: the writer is gone,
LEMMA LatchedGone ==
  ASSUME NEW k \in Int, NEW l, Message(-2, l), LcdAt(k), Hears(l), Latched(l)
  PROVE  LcdAt(-2)'
  <1>0. Len(Chars) \in Nat /\ Chars \in Seq((0 .. 15) \X (0 .. 15)) BY ScriptPlaces, ClientsAssumption
  <1>1. \A p \in Pin : l[p] = "X" BY DEF Message
  <1>2. /\ HD_E \in Pin /\ HD_RS \in Pin /\ HD_DB \in Pin /\ HD_DB + 1 \in Pin /\ HD_DB + 2 \in Pin
        /\ HD_DB + 3 \in Pin
    BY Given DEF HD_E, HD_RS, HD_DB
  <1>3. Nibble(l) = 15
    <2>1. High("X") = 1 BY DEF High
    <2> QED BY <1>1, <1>2, <2>1 DEF Nibble
  <1>4. prev_E' = "X" /\ DataNibble(15) BY <1>1, <1>2, <1>3 DEF Hears
  <1>5. k >= 0 /\ Reading(k) BY DEF LcdAt, Latched
  <1>6. CASE lcd_text' = lcd_text
    <2>1. Marred BY <1>5, ReadingMarred
    <2>2. Marred' BY <1>6, <2>1 DEF Marred
    <2> QED BY <1>4, <2>2 DEF LcdAt
  <1>7. CASE lcd_init /\ prev_data # <<>> /\ lcd_text' = [lcd_text EXCEPT ![lcd_cursor] = <<prev_data[1], 15>>]
    <2>1. PICK n \in 0 .. Len(Chars), h \in 0 .. 3 : k = 24 + 4 * n + h /\ (h >= 2 => n < Len(Chars)) /\ Filled(n, h)
      BY <1>5, <1>7 DEF Reading
    <2>2. h >= 2 /\ n < Len(Chars) /\ prev_data = <<Chars[n + 1][1]>> BY <1>7, <2>1 DEF Filled
    <2>3. n + 1 \in 1 .. Len(Chars) BY <1>0, <2>2
    <2>4. Chars[n + 1] \in (0 .. 15) \X (0 .. 15) BY <1>0, <2>3, ElementOfSeq
    <2>5. Chars[n + 1][1] \in 0 .. 15 BY <2>4
    <2>6. lcd_text' = [Display(n) EXCEPT ![n % LcdSize] = <<Chars[n + 1][1], 15>>] BY <1>7, <2>1, <2>2 DEF Filled
    <2>7. Marred' BY <2>5, <2>6 DEF Marred
    <2> QED BY <1>4, <2>7 DEF LcdAt
  <1> QED BY <1>4, <1>6, <1>7 DEF DataNibble

\* or a nibble of the script is clocked in.
LEMMA LatchedFresh ==
  ASSUME NEW k \in Int, k >= 0, NEW l, Message(k + 1, l), AtEdge(k + 1, l), LcdAt(k), Hears(l), Latched(l)
  PROVE  LcdAt(k + 1)'
  <1> DEFINE g == k + 1
  <1>0. Len(Chars) \in Nat /\ Chars \in Seq((0 .. 15) \X (0 .. 15)) /\ LcdSize \in Nat \ {0}
    BY ScriptPlaces, ClientsAssumption
  <1>1. prev_E' = l[HD_E] /\ l[HD_E] # "0" /\ prev_E = "0" BY DEF Hears, Latched
  <1>2. g >= 0 /\ g % 2 # 1 /\ Reading(k) BY <1>1 DEF Message, LcdAt
  <1>3. k % 2 = 1 BY <1>2
  <1> SUFFICES Reading(g)' BY <1>1, <1>2 DEF LcdAt
  <1>4. ASSUME lcd_init
        PROVE  \E n \in 0 .. Len(Chars), h \in {1, 3} :
                 k = 24 + 4 * n + h /\ (h >= 2 => n < Len(Chars)) /\ Filled(n, h)
    <2>1. PICK n \in 0 .. Len(Chars), h \in 0 .. 3 : k = 24 + 4 * n + h /\ (h >= 2 => n < Len(Chars)) /\ Filled(n, h)
      BY <1>2, <1>4 DEF Reading
    <2>2. h \in {1, 3}
      <3>1. k = 24 + 4 * n + h /\ n \in Nat /\ h \in {0, 1, 2, 3} BY <1>0, <2>1
      <3>2. h = 0 => k = 2 * (12 + 2 * n) BY <3>1
      <3>3. h = 2 => k = 2 * (13 + 2 * n) BY <3>1
      <3>4. \A x \in Nat : (2 * x) % 2 = 0 OBVIOUS
      <3> QED BY <1>3, <3>1, <3>2, <3>3, <3>4
    <2> QED BY <2>1, <2>2
  <1>5. ASSUME ~lcd_init PROVE lcd_text = Blank BY <1>2, <1>5 DEF Reading
  <1>6. CASE ~lcd_init /\ ~lcd_init' /\ lcd_text' = lcd_text BY <1>5, <1>6 DEF Reading
  <1>7. CASE g <= 8 /\ l[HD_RS] # "0"
    <2>1. ~lcd_init BY <1>0, <1>4, <1>7
    <2>2. DataNibble(Nibble(l)) BY <1>7 DEF Hears
    <2>3. ~lcd_init' /\ lcd_text' = lcd_text BY <2>1, <2>2 DEF DataNibble
    <2> QED BY <1>6, <2>1, <2>3
  <1>8. CASE \E j \in 0 .. Len(Chars) + 3, i \in 1 .. 2 :
               g = 8 + 4 * j + 2 * i /\ (l[HD_RS] = "0" <=> j < 4) /\ Nibble(l) = ByteAt(j)[i]
    <2>1. PICK j \in 0 .. Len(Chars) + 3, i \in 1 .. 2 :
               g = 8 + 4 * j + 2 * i /\ (l[HD_RS] = "0" <=> j < 4) /\ Nibble(l) = ByteAt(j)[i]
      BY <1>8
    <2>2. CASE j < 4
      <3>1. CommandNibble(Nibble(l)) BY <2>1, <2>2 DEF Hears
      <3>2. ~lcd_init BY <1>0, <1>4, <2>1, <2>2
      <3>3. CASE UNCHANGED <<lcd_init, lcd_cursor, lcd_text>> BY <1>6, <3>2, <3>3
      <3>4. CASE Nibble(l) = 6 /\ lcd_init' = TRUE /\ lcd_cursor' = 0 /\ lcd_text' = Blank /\ prev_data' = <<>>
        <4>1. ByteAt(j)[i] = 6 BY <2>1, <3>4
        <4>2. j = 3 /\ i = 2
          <5>1. j \in {0, 1, 2, 3} /\ i \in {1, 2} BY <2>1, <2>2
          <5>2. j = 0 => ByteAt(j) = <<2, 8>> BY DEF ByteAt
          <5>3. j = 1 => ByteAt(j) = <<0, 12>> BY DEF ByteAt
          <5>4. j = 2 => ByteAt(j) = <<0, 1>> BY DEF ByteAt
          <5>5. j = 3 => ByteAt(j) = <<0, 6>> BY DEF ByteAt
          <5> QED BY <4>1, <5>1, <5>2, <5>3, <5>4, <5>5
        <4>3. g = 24 + 4 * 0 + 0 /\ 0 \in 0 .. Len(Chars) /\ 0 \in 0 .. 3 BY <1>0, <2>1, <4>2
        <4>4. 0 % LcdSize = 0 BY <1>0
        <4>5. Filled(0, 0)' BY <3>4, <4>4, DisplayNone DEF Filled
        <4> QED BY <3>4, <4>3, <4>5 DEF Reading
      <3> QED BY <3>1, <3>3, <3>4 DEF CommandNibble, Blank
    <2>3. CASE j >= 4
      <3>1. DataNibble(Nibble(l)) /\ ByteAt(j) = Chars[j - 3] BY <2>1, <2>3 DEF Hears, ByteAt
      <3>2. CASE ~lcd_init
        <4>1. ~lcd_init' /\ lcd_text' = lcd_text BY <3>1, <3>2 DEF DataNibble
        <4> QED BY <1>6, <3>2, <4>1
      <3>3. CASE lcd_init
        <4>1. PICK n \in 0 .. Len(Chars), h \in {1, 3} :
                 k = 24 + 4 * n + h /\ (h >= 2 => n < Len(Chars)) /\ Filled(n, h)
          BY <1>4, <3>3
        <4>2. ((h = 1 /\ i = 1) \/ (h = 3 /\ i = 2)) /\ j = n + 4
          <5>1. 24 + 4 * n + h + 1 = 8 + 4 * j + 2 * i /\ n \in Nat /\ j \in Nat /\ h \in {1, 3} /\ i \in {1, 2}
            BY <1>0, <2>1, <4>1
          <5>2. CASE h = 1 /\ i = 1
            <6>1. 26 + 4 * n = 10 + 4 * j BY <5>1, <5>2
            <6>2. j = n + 4 BY <5>1, <6>1
            <6> QED BY <5>2, <6>2
          <5>3. CASE h = 1 /\ i = 2
            <6>1. 4 * (n + 4 - j) = 2 /\ n + 4 - j \in Int BY <5>1, <5>3
            <6> QED BY <6>1
          <5>4. CASE h = 3 /\ i = 1
            <6>1. 4 * (j - n - 4) = 2 /\ j - n - 4 \in Int BY <5>1, <5>4
            <6> QED BY <6>1
          <5>5. CASE h = 3 /\ i = 2 BY <5>1, <5>5
          <5> QED BY <5>1, <5>2, <5>3, <5>4, <5>5
        <4>3. j - 3 = n + 1 /\ n < Len(Chars) /\ n + 1 \in 1 .. Len(Chars) BY <1>0, <4>2
        <4>4. Nibble(l) = Chars[n + 1][i] BY <2>1, <3>1, <4>3
        <4>5. lcd_init' BY <3>1, <3>3 DEF DataNibble
        <4>6. CASE h = 1
          <5>1. prev_data = <<>> /\ lcd_text = Display(n) /\ lcd_cursor = n % LcdSize BY <4>1, <4>6 DEF Filled
          <5>2. prev_data' = <<Chars[n + 1][1]>> /\ UNCHANGED <<lcd_cursor, lcd_text>>
            BY <3>1, <3>3, <4>2, <4>4, <4>6, <5>1 DEF DataNibble
          <5>3. Filled(n, 2)' BY <5>1, <5>2 DEF Filled
          <5>4. g = 24 + 4 * n + 2 /\ 2 \in 0 .. 3 BY <1>0, <4>1, <4>6
          <5> QED BY <4>3, <4>5, <5>3, <5>4 DEF Reading
        <4>7. CASE h = 3
          <5>1. prev_data = <<Chars[n + 1][1]>> /\ lcd_text = Display(n) /\ lcd_cursor = n % LcdSize BY <4>1, <4>7 DEF Filled
          <5>2. /\ prev_data' = <<>> /\ lcd_cursor' = NextCursor(lcd_cursor)
                /\ lcd_text' = [lcd_text EXCEPT ![lcd_cursor] = <<prev_data[1], Nibble(l)>>]
            BY <3>1, <3>3, <5>1 DEF DataNibble
          <5>3. <<prev_data[1], Nibble(l)>> = Chars[n + 1]
            <6>1. Chars[n + 1] \in (0 .. 15) \X (0 .. 15) BY <1>0, <4>3, ElementOfSeq
            <6>2. Chars[n + 1] = <<Chars[n + 1][1], Chars[n + 1][2]>> BY <6>1
            <6>3. prev_data[1] = Chars[n + 1][1] /\ Nibble(l) = Chars[n + 1][2] BY <4>2, <4>4, <4>7, <5>1
            <6> QED BY <6>2, <6>3
          <5>4. lcd_text' = Display(n + 1)
            <6>1. lcd_text' = [Display(n) EXCEPT ![n % LcdSize] = Chars[n + 1]] BY <5>1, <5>2, <5>3
            <6>2. n \in Nat BY <1>0
            <6> QED BY <6>1, <6>2, DisplayMore
          <5>5. lcd_cursor' = (n + 1) % LcdSize BY <5>1, <5>2, NextPlace
          <5>6. Filled(n + 1, 0)'
            <6>1. ~(0 >= 2) OBVIOUS
            <6> QED BY <5>2, <5>4, <5>5, <6>1 DEF Filled
          <5>7. g = 24 + 4 * (n + 1) + 0 /\ 0 \in 0 .. 3 /\ n + 1 \in 0 .. Len(Chars) BY <1>0, <4>1, <4>3, <4>7
          <5> QED BY <4>5, <5>6, <5>7 DEF Reading
        <4> QED BY <4>6, <4>7
      <3> QED BY <3>2, <3>3
    <2> QED BY <1>0, <2>1, <2>2, <2>3
  <1> QED BY <1>2, <1>7, <1>8 DEF AtEdge

\* Each message takes the LCD from one change of E to the next.
LEMMA LcdHears ==
  ASSUME NEW k \in Int, NEW g \in Int, NEW l, Message(g, l), Link(k, g, l), LcdAt(k), Hears(l)
  PROVE  LcdAt(g)'
  <1>1. CASE ~Latched(l) BY <1>1, NotLatched
  <1>2. CASE Latched(l) /\ g = -2
    <2>1. Message(-2, l) BY <1>2
    <2>2. LcdAt(-2)' BY <1>2, <2>1, LatchedGone
    <2> QED BY <1>2, <2>2
  <1>3. CASE Latched(l) /\ g # -2
    <2>1. prev_E = "0" /\ l[HD_E] # "0" BY <1>3 DEF Latched
    <2>2. k >= 0 /\ k % 2 = 1 /\ g % 2 # 1 BY <1>3, <2>1 DEF LcdAt, Message
    <2>3. g = k + 1 /\ AtEdge(g, l) BY <1>3, <2>2 DEF Link
    <2>4. Message(k + 1, l) /\ AtEdge(k + 1, l) BY <2>3
    <2>5. LcdAt(k + 1)' BY <1>3, <2>2, <2>4, LatchedFresh
    <2> QED BY <2>3, <2>5
  <1> QED BY <1>1, <1>2, <1>3

-----------------------------------------------------------------------------
(* The writer and the LCD, alone on the panel *)

\* The messages q on their way to the LCD are from changes f[1], f[2]... of
\* E, and it last heard of f[0]; E has changed g times by now.
Chain(f, q, g) ==
  /\ f \in [0 .. Len(q) -> Int]
  /\ \A i \in 1 .. Len(q) : Message(f[i], q[i]) /\ Link(f[i - 1], f[i], q[i])
  /\ \A i \in 0 .. Len(q) : f[i] = -2 => g = -2

\* The LCD has been told of the present level of E, or of nothing yet.
Heard(k, g) == k = -1 \/ g = -2 \/ (k = g /\ fd["lcd"] # 0 /\ HD_E \in notify["lcd"])

LcdStory(g) ==
  \E f :
    /\ Chain(f, toClient["lcd"], g) /\ Heard(f[Len(toClient["lcd"])], g) /\ LcdAt(f[0])
    /\ life["lcd"] = "new" => toClient["lcd"] = <<>> /\ f[0] = -1

\* What the writer, n commands of which are done, has under way.
Pending(n, q) == \A i \in DOMAIN q : q[i] = Bye \/ (n + i <= Len(Script) /\ q[i] = Script[n + i])

\* The writer has not come, is at work, or is gone.
Writer(n, g) ==
  \/ life["lcdwrite"] = "new" /\ state = "up" /\ fd["lcdwrite"] = 0 /\ n = 0 /\ g = 0 /\ sent = 0
  \/ /\ life["lcdwrite"] # "new" /\ fd["lcdwrite"] # 0
     /\ n <= Len(Script) /\ WriterAt(n, g, pins["lcdwrite"]) /\ Pending(n, toServer["lcdwrite"])
     /\ life["lcdwrite"] = "on" => sent = n + Len(toServer["lcdwrite"])
  \/ (life["lcdwrite"] # "new" \/ state # "up") /\ fd["lcdwrite"] = 0 /\ g = -2

\* The LCD drives nothing and subscribes to E first; no other connects.
Pair ==
  /\ fd["lcd"] # 0 =>
       /\ life["lcd"] # "new" /\ pins["lcd"] = AllX
       /\ HD_E \in notify["lcd"] \/ (notify["lcd"] = {} /\ toServer["lcd"][1] = N(HD_E))
  /\ \A c \in Client : c \notin {"lcd", "lcdwrite"} => fd[c] = 0

Story == Pair /\ \E n \in Nat, g \in Int : Writer(n, g) /\ LcdStory(g)

TextInv == scene.clients = {"lcdwrite", "lcd"} => Story

\* One more message.
LEMMA ChainMore ==
  ASSUME NEW q \in Seq(Levs), NEW f, NEW g \in Int, NEW h \in Int, NEW l \in Levs, Chain(f, q, g),
         Message(h, l), Link(f[Len(q)], h, l), g = -2 => h = -2
  PROVE  \E e : Chain(e, q \o <<l>>, h) /\ e[0] = f[0] /\ e[Len(q \o <<l>>)] = h
  <1> DEFINE r == q \o <<l>>
             n == Len(q)
             e == [i \in 0 .. n + 1 |-> IF i <= n THEN f[i] ELSE h]
  <1>1. n \in Nat BY LenProperties
  <1>2. Len(r) = n + 1 /\ r[n + 1] = l /\ \A i \in 1 .. n : r[i] = q[i] BY <1>1, AppendProperties, AppendIsConcat
  <1>3. /\ f \in [0 .. n -> Int] /\ \A i \in 0 .. n : f[i] = -2 => g = -2
        /\ \A i \in 1 .. n : Message(f[i], q[i]) /\ Link(f[i - 1], f[i], q[i])
    BY DEF Chain
  <1>4. Link(f[n], h, l) OBVIOUS
  <1>5. e \in [0 .. n + 1 -> Int] /\ (\A i \in 0 .. n : e[i] = f[i]) /\ e[n + 1] = h BY <1>1, <1>3
  <1> HIDE DEF r, n, e
  <1>6. ASSUME NEW i \in 1 .. n + 1 PROVE Message(e[i], r[i]) /\ Link(e[i - 1], e[i], r[i])
    <2>1. CASE i <= n
      <3>1. i \in 1 .. n /\ i \in 0 .. n /\ i - 1 \in 0 .. n BY <1>1, <2>1
      <3>2. e[i] = f[i] /\ e[i - 1] = f[i - 1] /\ r[i] = q[i] BY <1>2, <1>5, <3>1
      <3> QED BY <1>3, <3>1, <3>2
    <2>2. CASE i = n + 1
      <3>1. i - 1 = n /\ n \in 0 .. n BY <1>1, <2>2
      <3>2. e[i] = h /\ e[i - 1] = f[n] /\ r[i] = l BY <1>2, <1>5, <2>2, <3>1
      <3> QED BY <1>4, <3>2
    <2> QED BY <1>1, <2>1, <2>2
  <1>7. ASSUME NEW i \in 0 .. n + 1, e[i] = -2 PROVE h = -2
    <2>1. i \in 0 .. n \/ i = n + 1 BY <1>1
    <2> QED BY <1>3, <1>5, <1>7, <2>1
  <1>8. Chain(e, r, h) BY <1>2, <1>5, <1>6, <1>7 DEF Chain
  <1>9. e[0] = f[0] BY <1>1, <1>5
  <1> QED BY <1>2, <1>5, <1>8, <1>9 DEF r

\* One less.
LEMMA ChainLess ==
  ASSUME NEW q \in Seq(Levs), q # <<>>, NEW f, NEW g \in Int, Chain(f, q, g)
  PROVE  /\ f[0] \in Int /\ f[1] \in Int /\ Message(f[1], Head(q)) /\ Link(f[0], f[1], Head(q))
         /\ \E e : Chain(e, Tail(q), g) /\ e[0] = f[1] /\ e[Len(Tail(q))] = f[Len(q)]
  <1> DEFINE t == Tail(q)
             n == Len(q)
             e == [i \in 0 .. n - 1 |-> f[i + 1]]
  <1>1. n \in Nat \ {0} /\ Len(t) = n - 1 /\ Head(q) = q[1] /\ \A i \in 1 .. n - 1 : t[i] = q[i + 1]
    BY LenProperties, EmptySeq, HeadTailProperties
  <1>2. /\ f \in [0 .. n -> Int] /\ \A i \in 0 .. n : f[i] = -2 => g = -2
        /\ \A i \in 1 .. n : Message(f[i], q[i]) /\ Link(f[i - 1], f[i], q[i])
    BY DEF Chain
  <1> HIDE DEF n, t
  <1>3. f[0] \in Int /\ f[1] \in Int /\ Message(f[1], q[1]) /\ Link(f[0], f[1], q[1])
    <2>1. 1 \in 1 .. n /\ 0 \in 0 .. n /\ 1 \in 0 .. n /\ 1 - 1 = 0 BY <1>1
    <2> QED BY <1>2, <2>1
  <1>4. e \in [0 .. n - 1 -> Int] /\ \A i \in 0 .. n - 1 : e[i] = f[i + 1] BY <1>1, <1>2
  <1> HIDE DEF e
  <1>5. ASSUME NEW i \in 1 .. n - 1 PROVE Message(e[i], t[i]) /\ Link(e[i - 1], e[i], t[i])
    <2>1. i \in 0 .. n - 1 /\ i - 1 \in 0 .. n - 1 /\ (i - 1) + 1 = i /\ i + 1 \in 1 .. n /\ (i + 1) - 1 = i BY <1>1
    <2>2. e[i] = f[i + 1] /\ e[i - 1] = f[i] /\ t[i] = q[i + 1] BY <1>1, <1>4, <2>1
    <2>3. Message(f[i + 1], q[i + 1]) /\ Link(f[(i + 1) - 1], f[i + 1], q[i + 1]) BY <1>2, <2>1
    <2> QED BY <2>1, <2>2, <2>3
  <1>6. ASSUME NEW i \in 0 .. n - 1, e[i] = -2 PROVE g = -2
    <2>1. i + 1 \in 0 .. n BY <1>1
    <2> QED BY <1>2, <1>4, <1>6, <2>1
  <1>7. Chain(e, t, g) BY <1>1, <1>4, <1>5, <1>6 DEF Chain
  <1>8. e[0] = f[1] /\ e[n - 1] = f[n]
    <2>1. 0 \in 0 .. n - 1 /\ n - 1 \in 0 .. n - 1 /\ 0 + 1 = 1 /\ (n - 1) + 1 = n BY <1>1
    <2> QED BY <1>4, <2>1
  <1> QED BY <1>1, <1>3, <1>7, <1>8 DEF t, n

LEMMA LcdSame ==
  ASSUME UNCHANGED display, NEW k, LcdAt(k)
  PROVE  LcdAt(k)'
  <1>1. UNCHANGED <<prev_E, prev_data, lcd_init, lcd_cursor, lcd_text>> BY DEF display
  <1> QED BY <1>1 DEF LcdAt, Reading, Filled, Marred

\* The LCD is told,
LEMMA StoryTold ==
  ASSUME TableInv, NEW g \in Int, NEW h \in Int, NEW l \in Levs, LcdStory(g), life["lcd"] # "new",
         UNCHANGED <<life, display>>, toClient'["lcd"] = toClient["lcd"] \o <<l>>, Message(h, l),
         \A k \in Int : Heard(k, g) => Link(k, h, l), g = -2 => h = -2,
         h = -2 \/ (fd'["lcd"] # 0 /\ HD_E \in notify'["lcd"])
  PROVE  LcdStory(h)'
  <1>0. PICK q : q = toClient["lcd"] OBVIOUS
  <1> DEFINE r == q \o <<l>>
  <1>1. q \in Seq(Levs) BY <1>0, Given DEF TableInv, Types
  <1>2. PICK f : Chain(f, q, g) /\ Heard(f[Len(q)], g) /\ LcdAt(f[0]) BY <1>0 DEF LcdStory
  <1>3. Len(q) \in Nat BY <1>1, LenProperties
  <1>4. f[Len(q)] \in Int BY <1>2, <1>3 DEF Chain
  <1>5. Link(f[Len(q)], h, l) BY <1>2, <1>4
  <1>6. PICK e : Chain(e, r, h) /\ e[0] = f[0] /\ e[Len(r)] = h BY <1>1, <1>2, <1>5, ChainMore
  <1>7. LcdAt(e[0])' BY <1>2, <1>6, LcdSame
  <1>8. Heard(e[Len(r)], h)' BY <1>6 DEF Heard
  <1>9. toClient'["lcd"] = r BY <1>0
  <1>10. life'["lcd"] # "new" OBVIOUS
  <1> HIDE DEF r
  <1> QED BY <1>6, <1>7, <1>8, <1>9, <1>10 DEF LcdStory

\* or it is not.
LEMMA StoryKept ==
  ASSUME TableInv, NEW g \in Int, NEW h \in Int, LcdStory(g), life'["lcd"] = "new" => life["lcd"] = "new",
         UNCHANGED display, toClient'["lcd"] = toClient["lcd"],
         \A k \in Int : Heard(k, g) => Heard(k, h)', g = -2 => h = -2
  PROVE  LcdStory(h)'
  <1>0. PICK q : q = toClient["lcd"] OBVIOUS
  <1>1. q \in Seq(Levs) BY <1>0, Given DEF TableInv, Types
  <1>2. PICK f : Chain(f, q, g) /\ Heard(f[Len(q)], g) /\ LcdAt(f[0]) /\ (life["lcd"] = "new" => q = <<>> /\ f[0] = -1)
    BY <1>0 DEF LcdStory
  <1>3. Len(q) \in Nat BY <1>1, LenProperties
  <1>4. f[Len(q)] \in Int BY <1>2, <1>3 DEF Chain
  <1>5. Heard(f[Len(q)], h)' BY <1>2, <1>4
  <1>6. LcdAt(f[0])' BY <1>2, LcdSame
  <1>7. Chain(f, q, h) BY <1>2 DEF Chain
  <1>8. toClient'["lcd"] = q BY <1>0
  <1> QED BY <1>2, <1>5, <1>6, <1>7, <1>8 DEF LcdStory

\* The levels are what the writer drives.
LEMMA PairLevel ==
  ASSUME NEW f, NEW ps \in [Client -> Lined], \A c \in Client : c \notin {"lcd", "lcdwrite"} => f[c] = 0,
         f["lcd"] # 0 => ps["lcd"] = AllX, NEW p \in Pin
  PROVE  LevelIn(f, ps, p) = IF f["lcdwrite"] # 0 THEN ps["lcdwrite"][p] ELSE "X"
  <1>1. "lcd" \in Client /\ "lcdwrite" \in Client BY Given
  <1>2. f["lcd"] # 0 => ps["lcd"][p] = "X" BY DEF AllX
  <1>3. ASSUME NEW v \in {"1", "0", "P"}
        PROVE  DrivenIn(f, ps, p, v) <=> f["lcdwrite"] # 0 /\ ps["lcdwrite"][p] = v
    <2>1. Connected(f) \subseteq {"lcd", "lcdwrite"} BY DEF Connected
    <2>2. "lcdwrite" \in Connected(f) <=> f["lcdwrite"] # 0 BY <1>1 DEF Connected
    <2>3. "lcd" \in Connected(f) => ps["lcd"][p] # v BY <1>2, <1>3 DEF Connected
    <2> QED BY <2>1, <2>2, <2>3 DEF DrivenIn
  <1>4. ps["lcdwrite"][p] \in {"1", "0", "P", "X"} BY <1>1 DEF Lined, Drive
  <1>5. /\ DrivenIn(f, ps, p, "1") <=> f["lcdwrite"] # 0 /\ ps["lcdwrite"][p] = "1"
        /\ DrivenIn(f, ps, p, "0") <=> f["lcdwrite"] # 0 /\ ps["lcdwrite"][p] = "0"
        /\ DrivenIn(f, ps, p, "P") <=> f["lcdwrite"] # 0 /\ ps["lcdwrite"][p] = "P"
    BY <1>3
  <1> QED BY <1>4, <1>5 DEF LevelIn

LEMMA PairLevels ==
  ASSUME NEW f, Descriptors(f), NEW ps \in [Client -> Lined],
         \A c \in Client : c \notin {"lcd", "lcdwrite"} => f[c] = 0, f["lcd"] # 0 => ps["lcd"] = AllX
  PROVE  /\ ~Raises(Levels(f, ps)) /\ Levels(f, ps) \in Levs
         /\ \A p \in Pin : Levels(f, ps)[p] = IF f["lcdwrite"] # 0 THEN ps["lcdwrite"][p] ELSE "X"
  <1>1. ps \in [Client -> [Pin -> Drive]] BY DEF Lined
  <1>2. ~Raises(Levels(f, ps))
    <2>1. Connected(f) \subseteq {"lcd", "lcdwrite"} BY DEF Connected
    <2>2. IsFiniteSet({"lcd", "lcdwrite"}) /\ Cardinality({"lcd", "lcdwrite"}) <= 2
      <3>1. IsFiniteSet({"lcdwrite"}) /\ Cardinality({"lcdwrite"}) = 1 BY FS_Singleton
      <3>2. {"lcd", "lcdwrite"} = {"lcdwrite"} \cup {"lcd"} OBVIOUS
      <3>3. /\ IsFiniteSet({"lcdwrite"} \cup {"lcd"})
            /\ Cardinality({"lcdwrite"} \cup {"lcd"}) = IF "lcd" \in {"lcdwrite"} THEN 1 ELSE 1 + 1
        BY <3>1, FS_AddElement
      <3> QED BY <3>2, <3>3
    <2>3. Cardinality(Connected(f)) <= Cardinality({"lcd", "lcdwrite"}) BY <2>1, <2>2, FS_Subset
    <2>4. Cardinality(Connected(f)) \in Nat /\ Cardinality({"lcd", "lcdwrite"}) \in Nat BY <2>2, Few, FS_CardinalityType
    <2>5. ~(Cardinality(Connected(f)) >= 3) BY <2>2, <2>3, <2>4
    <2> QED BY <1>1, <2>5, Fighting
  <1>3. Levels(f, ps) \in Levs /\ \A p \in Pin : Levels(f, ps)[p] = LevelIn(f, ps, p) BY <1>1, <1>2, LevelsFound
  <1>4. \A p \in Pin : LevelIn(f, ps, p) = IF f["lcdwrite"] # 0 THEN ps["lcdwrite"][p] ELSE "X" BY PairLevel
  <1> QED BY <1>2, <1>3, <1>4

\* The count of changes has the parity of E.
LEMMA WriterLevel ==
  ASSUME NEW n, NEW g, NEW l, WriterAt(n, g, l)
  PROVE  g \in Nat /\ (l[HD_E] = "0" <=> g % 2 = 1)
  <1>0. Len(Chars) \in Nat BY ScriptPlaces
  <1>1. CASE \E m \in 0 .. 3, s \in 0 .. 5 :
               n = 6 * m + s /\ g = 2 * m + (IF s = 5 THEN 1 ELSE 0) /\ AtStart(s, l)
    <2>1. PICK m \in 0 .. 3, s \in 0 .. 5 : g = 2 * m + (IF s = 5 THEN 1 ELSE 0) /\ (l[HD_E] = "0" <=> s = 5)
      BY <1>1 DEF AtStart
    <2> QED BY <2>1
  <1>2. CASE \E j \in 0 .. Len(Chars) + 4, o \in 0 .. 12 :
               n = 24 + 13 * j + o /\ g = 8 + 4 * j + Edges(o) /\ AtByte(j, o, l)
    <2>1. PICK j \in 0 .. Len(Chars) + 4, o \in 0 .. 12 : g = 8 + 4 * j + Edges(o) /\ (l[HD_E] = "0" <=> o \in {6, 12})
      BY <1>2 DEF AtByte
    <2>2. j \in Nat BY <1>0
    <2>3. (Edges(o) \in {0, 2} /\ o \notin {6, 12}) \/ (Edges(o) \in {1, 3} /\ o \in {6, 12}) BY DEF Edges
    <2>4. g \in Nat /\ (g % 2 = 1 <=> Edges(o) \in {1, 3})
      <3>1. CASE Edges(o) \in {0, 2} BY <2>1, <2>2, <3>1
      <3>2. CASE Edges(o) \in {1, 3} BY <2>1, <2>2, <3>2
      <3> QED BY <2>3, <3>1, <3>2
    <2> QED BY <2>1, <2>3, <2>4
  <1> QED BY <1>1, <1>2 DEF WriterAt

\* The LCD takes a message.
LEMMA StoryTaken ==
  ASSUME TableInv, NEW g \in Int, LcdStory(g), pins_updated
  PROVE  LcdStory(g)'
  <1>0. PICK q : q = toClient["lcd"] OBVIOUS
  <1>1. q \in Seq(Levs) /\ toClient \in [Client -> Seq(Levs)] BY <1>0, Given DEF TableInv, Types
  <1>2. PICK f : Chain(f, q, g) /\ Heard(f[Len(q)], g) /\ LcdAt(f[0]) BY <1>0 DEF LcdStory
  <1>3. q # <<>> /\ life["lcd"] = "on" /\ UNCHANGED <<life, fd, notify>> /\ toClient'["lcd"] = Tail(q)
    <2>1. /\ toClient["lcd"] # <<>> /\ life["lcd"] = "on" /\ UNCHANGED <<life, fd, notify>>
          /\ toClient' = [toClient EXCEPT !["lcd"] = Tail(@)]
      BY DEF pins_updated, Open, Taken, server
    <2> QED BY <1>0, <1>1, <2>1, Given
  <1>4. Hears(Head(q)) BY <1>0 DEF pins_updated, Hears
  <1>5. f[0] \in Int /\ f[1] \in Int /\ Message(f[1], Head(q)) /\ Link(f[0], f[1], Head(q)) BY <1>1, <1>2, <1>3, ChainLess
  <1>6. PICK e : Chain(e, Tail(q), g) /\ e[0] = f[1] /\ e[Len(Tail(q))] = f[Len(q)] BY <1>1, <1>2, <1>3, ChainLess
  <1>7. LcdAt(f[1])' BY <1>2, <1>4, <1>5, LcdHears
  <1>8. Heard(e[Len(Tail(q))], g)' BY <1>2, <1>3, <1>6 DEF Heard
  <1>9. LcdAt(e[0])' BY <1>6, <1>7
  <1>10. PICK t : t = Tail(q) OBVIOUS
  <1> QED BY <1>3, <1>6, <1>8, <1>9, <1>10 DEF LcdStory

\* The levels have been worked out.
LEMMA StoryResolved ==
  ASSUME TableInv, Pair, NEW g \in Int, NEW h \in Int, LcdStory(g), NEW f, NEW out \in Levs,
         NEW asked \in {{}, {"lcd"}}, Resolve(f, out, asked), f["lcd"] = fd["lcd"], fd' = f,
         UNCHANGED <<life, display, notify>>, Message(h, out), \A k \in Int : Heard(k, g) => Link(k, h, out),
         g = -2 => h = -2,
         asked = {"lcd"} => fd["lcd"] # 0 /\ HD_E \in notify["lcd"] /\ ~Told("lcd", f, out),
         fd["lcd"] # 0 /\ HD_E \in notify["lcd"] /\ ~Told("lcd", f, out) => h = -2 \/ h = g
  PROVE  LcdStory(h)'
  <1> DEFINE q == toClient["lcd"]
  <1>1. "lcd" \in Client /\ q \in Seq(Levs) BY Given DEF TableInv, Types
  <1>2. <<out>> \in Seq(Levs) OBVIOUS
  <1>3. toClient'["lcd"] = q \o (IF Told("lcd", f, out) THEN <<out>> ELSE <<>>)
                             \o (IF "lcd" \in asked THEN <<out>> ELSE <<>>)
    BY <1>1 DEF Resolve
  <1>4. q \o <<>> = q BY <1>1, ConcatEmptySeq
  <1>5. (q \o <<out>>) \o <<>> = q \o <<out>>
    <2>1. q \o <<out>> \in Seq(Levs) BY <1>1, <1>2, ConcatProperties
    <2> QED BY <2>1, ConcatEmptySeq
  <1> HIDE DEF q
  <1>6. CASE Told("lcd", f, out)
    <2>1. "lcd" \notin asked BY <1>6
    <2>2. toClient'["lcd"] = q \o <<out>> BY <1>3, <1>5, <1>6, <2>1
    <2>3. fd["lcd"] # 0 /\ notify["lcd"] # {} BY <1>6 DEF Told
    <2>4. life["lcd"] # "new" /\ HD_E \in notify["lcd"] BY <2>3 DEF Pair
    <2> QED BY <2>2, <2>3, <2>4, StoryTold DEF q
  <1>7. CASE ~Told("lcd", f, out) /\ "lcd" \in asked
    <2>1. toClient'["lcd"] = q \o <<out>> BY <1>3, <1>4, <1>7
    <2>2. fd["lcd"] # 0 /\ HD_E \in notify["lcd"] BY <1>7
    <2>3. life["lcd"] # "new" BY <2>2 DEF Pair
    <2> QED BY <2>1, <2>2, <2>3, StoryTold DEF q
  <1>8. CASE ~Told("lcd", f, out) /\ "lcd" \notin asked
    <2>1. toClient'["lcd"] = q BY <1>3, <1>4, <1>8
    <2>2. \A k \in Int : Heard(k, g) => Heard(k, h)' BY <1>8 DEF Heard
    <2>3. life'["lcd"] = "new" => life["lcd"] = "new" OBVIOUS
    <2> QED BY <2>1, <2>2, <2>3, StoryKept DEF q
  <1> QED BY <1>6, <1>7, <1>8

\* The levels last worked out are what the writer drives.
LEMMA PairResolved ==
  ASSUME TableInv, Pair, state = "up", NEW p \in Pin
  PROVE  LastResolve[p] = IF fd["lcdwrite"] # 0 THEN pins["lcdwrite"][p] ELSE "X"
  <1>1. pins \in [Client -> Lined] BY DEF TableInv, Types, Lined
  <1>2. LastResolve[p] = LevelIn(fd, pins, p) BY DEF TableInv, Resolves
  <1>3. LevelIn(fd, pins, p) = IF fd["lcdwrite"] # 0 THEN pins["lcdwrite"][p] ELSE "X" BY <1>1, PairLevel DEF Pair
  <1> QED BY <1>2, <1>3

\* The server ends.
LEMMA StoryDown ==
  ASSUME TableInv, Story, NEW how, how # "up", Down(how), UNCHANGED <<life, display>>
  PROVE  Story'
  <1>1. PICK n \in Nat, g \in Int : LcdStory(g) BY DEF Story
  <1>2. state' # "up" /\ fd' = [c \in Client |-> 0] /\ toClient' = toClient BY DEF Down
  <1>3. fd'["lcd"] = 0 /\ fd'["lcdwrite"] = 0 BY <1>2, Given
  <1>4. Pair' BY <1>2, <1>3 DEF Pair
  <1>5. Writer(0, -2)' BY <1>2, <1>3 DEF Writer
  <1>6. LcdStory(-2)'
    <2>1. \A k \in Int : Heard(k, g) => Heard(k, -2)' BY DEF Heard
    <2>2. -2 \in Int OBVIOUS
    <2>3. toClient'["lcd"] = toClient["lcd"] /\ (life'["lcd"] = "new" => life["lcd"] = "new") BY <1>2
    <2> QED BY <1>1, <2>1, <2>2, <2>3, StoryKept
  <1>7. 0 \in Nat /\ -2 \in Int OBVIOUS
  <1> QED BY <1>4, <1>5, <1>6, <1>7 DEF Story

\* The server closes the writer's connection.
LEMMA WriterClosed ==
  ASSUME TableInv, Story, fd["lcdwrite"] # 0, handle_close("lcdwrite", pins), UNCHANGED <<life, display>>
  PROVE  Story'
  <1> DEFINE left == [fd EXCEPT !["lcdwrite"] = 0]
             out == Levels(left, pins)
  <1>1. CASE Raises(out)
    <2>1. CASE Down("crashed") BY <2>1, StoryDown
    <2> QED BY <1>1, <2>1 DEF handle_close
  <1>2. CASE ~Raises(out)
    <2>1. PICK n \in Nat, g \in Int : Writer(n, g) /\ LcdStory(g) BY DEF Story
    <2>2. Pair /\ life["lcdwrite"] # "new" BY <2>1 DEF Story, Writer
    <2>3. Descriptors(fd) /\ pins \in [Client -> Lined] /\ toServer \in [Client -> Seq(PanelCommand)]
      BY DEF TableInv, Types, Lined
    <2>4. left["lcdwrite"] = 0 /\ \A c \in Client : c # "lcdwrite" => left[c] = fd[c]
      BY <2>3, Given DEF Descriptors
    <2>5. Descriptors(left)
      <3>1. 0 \in 0 .. Cardinality(Client) BY Few
      <3>2. left \in [Client -> 0 .. Cardinality(Client)] BY <2>3, <3>1 DEF Descriptors
      <3> HIDE DEF left
      <3> QED BY <2>3, <2>4, <3>2 DEF Descriptors
    <2>6. left["lcd"] = fd["lcd"] BY <2>4, Given
    <2>7. /\ fd' = left /\ toServer' = [toServer EXCEPT !["lcdwrite"] = <<>>] /\ pins' = pins
          /\ Resolve(left, out, {}) /\ UNCHANGED <<state, notify>>
      BY <1>2 DEF handle_close
    <2> HIDE DEF left
    <2>8. out \in Levs /\ \A p \in Pin : out[p] = IF left["lcdwrite"] # 0 THEN pins["lcdwrite"][p] ELSE "X"
      <3>1. \A c \in Client : c \notin {"lcd", "lcdwrite"} => left[c] = 0 BY <2>2, <2>4 DEF Pair
      <3>2. left["lcd"] # 0 => pins["lcd"] = AllX BY <2>2, <2>6 DEF Pair
      <3> QED BY <2>3, <2>5, <3>1, <3>2, PairLevels
    <2>9. Message(-2, out) BY <2>4, <2>8 DEF Message
    <2> HIDE DEF out
    <2>10. LcdStory(-2)'
      <3>1. -2 \in Int /\ {} \in {{}, {"lcd"}} /\ {} # {"lcd"} OBVIOUS
      <3>2. \A k \in Int : Heard(k, g) => Link(k, -2, out) BY DEF Link
      <3> QED BY <2>1, <2>2, <2>6, <2>7, <2>8, <2>9, <3>1, <3>2, StoryResolved
    <2>11. Writer(0, -2)' BY <2>2, <2>4, <2>7 DEF Writer
    <2>12. toServer'["lcd"] = toServer["lcd"] BY <2>3, <2>7, Given
    <2>13. Pair' BY <2>2, <2>4, <2>6, <2>7, <2>12 DEF Pair
    <2>14. 0 \in Nat /\ -2 \in Int OBVIOUS
    <2> QED BY <2>10, <2>11, <2>13, <2>14 DEF Story
  <1> QED BY <1>1, <1>2

\* The server does a command of the writer.
LEMMA WriterDone ==
  ASSUME TableInv, Story, NEW n \in Nat, NEW g \in Int, LcdStory(g), fd["lcdwrite"] # 0, state = "up",
         life["lcdwrite"] # "new", WriterAt(n, g, pins["lcdwrite"]), Pending(n, toServer["lcdwrite"]),
         life["lcdwrite"] = "on" => sent = n + Len(toServer["lcdwrite"]),
         toServer["lcdwrite"] # <<>>, Head(toServer["lcdwrite"]) # Bye,
         NEW m, m = Head(toServer["lcdwrite"]), Resolved("lcdwrite", [pins EXCEPT !["lcdwrite"][m.pin] = m.val], {}),
         UNCHANGED <<life, sent, display>>
  PROVE  Story'
  <1> DEFINE q == toServer["lcdwrite"]
             ps == [pins EXCEPT !["lcdwrite"][m.pin] = m.val]
             l == After(pins["lcdwrite"], m)
             out == Levels(fd, ps)
  <1>1. /\ Descriptors(fd) /\ pins \in [Client -> Lined] /\ toServer \in [Client -> Seq(PanelCommand)]
        /\ q \in Seq(PanelCommand) /\ sent \in Nat
    BY Given DEF TableInv, Types, Lined
  <1>2. /\ Tail(q) \in Seq(PanelCommand) /\ Head(q) = q[1] /\ 1 \in DOMAIN q
        /\ \A i \in DOMAIN Tail(q) : i \in Nat /\ i + 1 \in DOMAIN q /\ Tail(q)[i] = q[i + 1] /\ i + 1 # 1
    BY <1>1, FirstDone
  <1>3. n + 1 <= Len(Script) /\ m = Script[n + 1] BY <1>2 DEF Pending
  <1>4. Len(Script) \in Nat /\ n < Len(Script) /\ m \in PanelWrite
    <2>1. Len(Script) \in Nat BY ScriptSent, LenProperties
    <2>2. n + 1 \in 1 .. Len(Script) BY <1>3, <2>1
    <2>3. Script[n + 1] \in PanelWrite BY <2>2, ScriptSent, ElementOfSeq
    <2> QED BY <1>3, <2>1, <2>3
  <1>5. m.pin \in Pin /\ m.val \in Drive BY <1>4 DEF PanelWrite
  <1>6. pins["lcdwrite"] \in Lined BY <1>1, Given
  <1>7. ps \in [Client -> Lined] /\ ps["lcdwrite"] = l /\ \A c \in Client : c # "lcdwrite" => ps[c] = pins[c]
    <2>1. l \in Lined BY <1>5, <1>6 DEF After, Lined
    <2>2. ps = [pins EXCEPT !["lcdwrite"] = l] BY DEF After
    <2> HIDE DEF ps, l
    <2> QED BY <1>1, <2>1, <2>2, Given
  <1>8. Moves(n, g, l) BY <1>3, <1>4, <1>6, ScriptMoves
  <1>9. PICK h \in {g, g + 1} : WriterAt(n + 1, h, l) /\ (h = g + 1 => AtEdge(h, l)) BY <1>8 DEF Moves
  <1>10. Pair BY DEF Story
  <1>11. /\ ~Raises(out) /\ out \in Levs
         /\ \A p \in Pin : out[p] = IF fd["lcdwrite"] # 0 THEN ps["lcdwrite"][p] ELSE "X"
    <2>1. fd["lcd"] # 0 => ps["lcd"] = AllX BY <1>7, <1>10, Given DEF Pair
    <2>2. \A c \in Client : c \notin {"lcd", "lcdwrite"} => fd[c] = 0 BY <1>10 DEF Pair
    <2> HIDE DEF ps
    <2> QED BY <1>1, <1>7, <2>1, <2>2, PairLevels
  <1>12. /\ toServer' = [toServer EXCEPT !["lcdwrite"] = Tail(@)] /\ pins' = ps
         /\ Resolve(fd, out, {}) /\ UNCHANGED <<state, fd, notify>>
    BY <1>11 DEF Resolved
  <1>13. out = l
    <2>1. \A p \in Pin : out[p] = l[p] BY <1>7, <1>11
    <2>2. l \in Lined BY <1>5, <1>6 DEF After, Lined
    <2> HIDE DEF out, l
    <2>3. out = [p \in Pin |-> out[p]] /\ l = [p \in Pin |-> l[p]] BY <1>11, <2>2 DEF Levs, Lined
    <2> QED BY <2>1, <2>3
  <1>14. g \in Nat /\ (pins["lcdwrite"][HD_E] = "0" <=> g % 2 = 1) BY WriterLevel
  <1>15. h \in Nat /\ (l[HD_E] = "0" <=> h % 2 = 1) BY <1>9, WriterLevel
  <1> HIDE DEF out, l, ps
  <1>16. LcdStory(h)'
    <2>1. h \in Int /\ {} \in {{}, {"lcd"}} /\ {} # {"lcd"} BY <1>15
    <2>2. Message(h, out) BY <1>13, <1>15 DEF Message
    <2>3. \A k \in Int : Heard(k, g) => Link(k, h, out) BY <1>9, <1>13, <1>14 DEF Heard, Link
    <2>4. g = -2 => h = -2 BY <1>14
    <2>5. ASSUME fd["lcd"] # 0, HD_E \in notify["lcd"], ~Told("lcd", fd, out) PROVE h = g
      <3>1. HD_E \in Pin BY Given DEF HD_E
      <3>2. out[HD_E] = LastResolve[HD_E] BY <2>5 DEF Told
      <3>3. LastResolve[HD_E] = pins["lcdwrite"][HD_E] BY <1>10, <3>1, PairResolved
      <3>4. h % 2 = 1 <=> g % 2 = 1 BY <1>13, <1>14, <1>15, <3>2, <3>3
      <3> QED BY <1>9, <1>14, <3>4
    <2>6. fd' = fd /\ UNCHANGED <<life, display, notify>> BY <1>12
    <2> QED BY <1>10, <1>11, <1>12, <2>1, <2>2, <2>3, <2>4, <2>5, <2>6, StoryResolved
  <1>17. toServer'["lcdwrite"] = Tail(q) /\ toServer'["lcd"] = toServer["lcd"] BY <1>1, <1>12, Given
  <1>18. pins'["lcd"] = pins["lcd"] /\ pins'["lcdwrite"] = l BY <1>7, <1>12, Given
  <1>19. Pair' BY <1>10, <1>12, <1>17, <1>18 DEF Pair
  <1>20. Writer(n + 1, h)'
    <2>1. Pending(n + 1, Tail(q))
      <3> SUFFICES ASSUME NEW i \in DOMAIN Tail(q)
                   PROVE  Tail(q)[i] = Bye \/ ((n + 1) + i <= Len(Script) /\ Tail(q)[i] = Script[(n + 1) + i])
        BY DEF Pending
      <3>1. i \in Nat /\ i + 1 \in DOMAIN q /\ Tail(q)[i] = q[i + 1] BY <1>2
      <3>2. (n + 1) + i = n + (i + 1) BY <3>1
      <3>3. q[i + 1] = Bye \/ (n + (i + 1) <= Len(Script) /\ q[i + 1] = Script[n + (i + 1)]) BY <3>1 DEF Pending
      <3> QED BY <3>1, <3>2, <3>3
    <2>2. life["lcdwrite"] = "on" => sent = (n + 1) + Len(Tail(q))
      <3>1. Len(q) \in Nat /\ Len(Tail(q)) = Len(q) - 1 BY <1>1, LenProperties, HeadTailProperties
      <3> QED BY <3>1
    <2>3. PICK t : t = Tail(q) OBVIOUS
    <2>4. toServer'["lcdwrite"] = t /\ Pending(n + 1, t) /\ (life["lcdwrite"] = "on" => sent = (n + 1) + Len(t))
      BY <1>17, <2>1, <2>2, <2>3
    <2>5. fd'["lcdwrite"] # 0 /\ WriterAt(n + 1, h, pins'["lcdwrite"]) BY <1>9, <1>12, <1>18
    <2> QED BY <1>3, <2>4, <2>5 DEF Writer
  <1>21. n + 1 \in Nat /\ h \in Int BY <1>15
  <1> QED BY <1>16, <1>19, <1>20, <1>21 DEF Story

\* The server answers the LCD.
LEMMA LcdAnswered ==
  ASSUME TableInv, Story, fd["lcd"] # 0, state = "up", toServer["lcd"] # <<>>, Head(toServer["lcd"]) = R,
         Resolved("lcd", pins, {"lcd"}), UNCHANGED <<life, sent, display>>
  PROVE  Story'
  <1> DEFINE out == Levels(fd, pins)
  <1>1. Descriptors(fd) /\ pins \in [Client -> Lined] /\ toServer \in [Client -> Seq(PanelCommand)] /\ notify \in [Client -> SUBSET Pin]
    BY DEF TableInv, Types, Lined
  <1>2. PICK n \in Nat, g \in Int : Writer(n, g) /\ LcdStory(g) BY DEF Story
  <1>3. Pair BY DEF Story
  <1>4. /\ ~Raises(out) /\ out \in Levs
        /\ \A p \in Pin : out[p] = IF fd["lcdwrite"] # 0 THEN pins["lcdwrite"][p] ELSE "X"
    <2>1. fd["lcd"] # 0 => pins["lcd"] = AllX BY <1>3 DEF Pair
    <2>2. \A c \in Client : c \notin {"lcd", "lcdwrite"} => fd[c] = 0 BY <1>3 DEF Pair
    <2> QED BY <1>1, <2>1, <2>2, PairLevels
  <1>5. /\ toServer' = [toServer EXCEPT !["lcd"] = Tail(@)] /\ pins' = pins
        /\ Resolve(fd, out, {"lcd"}) /\ UNCHANGED <<state, fd, notify>>
    BY <1>4 DEF Resolved
  <1> HIDE DEF out
  <1>6. HD_E \in notify["lcd"]
    <2>1. toServer["lcd"] \in Seq(PanelCommand) BY <1>1, Given
    <2>2. toServer["lcd"][1] = R BY <2>1, FirstDone
    <2>3. R # N(HD_E) BY Distinct
    <2> QED BY <1>3, <2>2, <2>3 DEF Pair
  <1>7. ~Told("lcd", fd, out)
    <2>1. \A p \in Pin : out[p] = LastResolve[p] BY <1>3, <1>4, PairResolved
    <2>2. notify["lcd"] \subseteq Pin BY <1>1, Given
    <2> QED BY <2>1, <2>2 DEF Told
  <1>8. Message(g, out)
    <2>1. HD_E \in Pin BY Given DEF HD_E
    <2>2. CASE fd["lcdwrite"] # 0
      <3>1. WriterAt(n, g, pins["lcdwrite"]) BY <1>2, <2>2 DEF Writer
      <3>2. g \in Nat /\ (pins["lcdwrite"][HD_E] = "0" <=> g % 2 = 1) BY <3>1, WriterLevel
      <3> QED BY <1>4, <2>1, <2>2, <3>2 DEF Message
    <2>3. CASE fd["lcdwrite"] = 0
      <3>1. g = 0 \/ g = -2 BY <1>2, <2>3 DEF Writer
      <3>2. \A p \in Pin : out[p] = "X" BY <1>4, <2>3
      <3>3. 0 % 2 # 1 OBVIOUS
      <3> QED BY <2>1, <3>1, <3>2, <3>3 DEF Message
    <2> QED BY <2>2, <2>3
  <1>9. g = -2 \/ g >= 0 BY <1>8 DEF Message
  <1>10. LcdStory(g)'
    <2>1. {"lcd"} \in {{}, {"lcd"}} OBVIOUS
    <2>2. \A k \in Int : Heard(k, g) => Link(k, g, out) BY <1>9 DEF Heard, Link
    <2>3. fd' = fd /\ UNCHANGED <<life, display, notify>> BY <1>5
    <2> QED BY <1>2, <1>3, <1>4, <1>5, <1>6, <1>7, <1>8, <2>1, <2>2, <2>3, StoryResolved
  <1>11. toServer'["lcdwrite"] = toServer["lcdwrite"] BY <1>1, <1>5, Given
  <1>12. Writer(n, g)' BY <1>2, <1>5, <1>11 DEF Writer
  <1>13. Pair' BY <1>3, <1>5, <1>6 DEF Pair
  <1> QED BY <1>10, <1>12, <1>13 DEF Story

\* The LCD subscribes to a pin.
LEMMA LcdNotified ==
  ASSUME TableInv, Story, fd["lcd"] # 0, toServer["lcd"] # <<>>, NEW x, Head(toServer["lcd"]) = N(x),
         notify' = [notify EXCEPT !["lcd"] = @ \cup {x}], toServer' = [toServer EXCEPT !["lcd"] = Tail(@)],
         UNCHANGED <<state, fd, pins, toClient, life, sent, display>>
  PROVE  Story'
  <1>1. toServer \in [Client -> Seq(PanelCommand)] /\ notify \in [Client -> SUBSET Pin] BY DEF TableInv, Types
  <1>2. PICK n \in Nat, g \in Int : Writer(n, g) /\ LcdStory(g) BY DEF Story
  <1>3. Pair BY DEF Story
  <1>4. toServer'["lcdwrite"] = toServer["lcdwrite"] /\ notify'["lcd"] = notify["lcd"] \cup {x} BY <1>1, Given
  <1>5. HD_E \in notify'["lcd"]
    <2>1. toServer["lcd"] \in Seq(PanelCommand) BY <1>1, Given
    <2>2. toServer["lcd"][1] = N(x) BY <2>1, FirstDone
    <2>3. N(x) = N(HD_E) => x = HD_E BY Distinct
    <2> QED BY <1>3, <1>4, <2>2, <2>3 DEF Pair
  <1>6. LcdStory(g)'
    <2>1. \A k \in Int : Heard(k, g) => Heard(k, g)' BY <1>5 DEF Heard
    <2>2. toClient'["lcd"] = toClient["lcd"] /\ (life'["lcd"] = "new" => life["lcd"] = "new") OBVIOUS
    <2> QED BY <1>2, <2>1, <2>2, StoryKept
  <1>7. Writer(n, g)' BY <1>2, <1>4 DEF Writer
  <1>8. Pair' BY <1>3, <1>5 DEF Pair
  <1> QED BY <1>6, <1>7, <1>8 DEF Story

\* The server serves one of the two.
LEMMA StoryServed ==
  ASSUME TableInv, Story, NEW c \in Client, found_terminator(c), UNCHANGED <<life, sent, display>>
  PROVE  Story'
  <1>1. state = "up" /\ toServer[c] # <<>> /\ fd[c] # 0 BY DEF found_terminator, TableInv, Lines
  <1>2. c \in {"lcd", "lcdwrite"} BY <1>1 DEF Story, Pair
  <1>3. toServer[c] \in Seq(PanelCommand) BY DEF TableInv, Types
  <1>4. PICK m : m = Head(toServer[c]) OBVIOUS
  <1>5. m \in PanelCommand /\ m = toServer[c][1] /\ 1 \in DOMAIN toServer[c] BY <1>1, <1>3, <1>4, FirstDone
  <1>6. /\ m.cmd \in {"W", "NOTIFY", "R", "close"}
        /\ m.cmd = "NOTIFY" => m = N(m.pin)
        /\ (m.cmd = "R" <=> m = R) /\ (m.cmd = "close" <=> m = Bye)
    BY <1>5, Kinds
  <1>7. /\ m.cmd = "W" => Resolved(c, [pins EXCEPT ![c][m.pin] = m.val], {})
        /\ m.cmd = "R" => Resolved(c, pins, {c})
        /\ m.cmd = "NOTIFY" => /\ notify' = [notify EXCEPT ![c] = @ \cup {m.pin}]
                               /\ toServer' = [toServer EXCEPT ![c] = Tail(@)]
                               /\ UNCHANGED <<state, fd, pins, LastResolve, toClient>>
        /\ m.cmd = "close" => handle_close(c, pins)
    BY <1>4 DEF found_terminator
  <1>8. CASE c = "lcdwrite"
    <2>1. PICK n \in Nat, g \in Int : Writer(n, g) /\ LcdStory(g) BY DEF Story
    <2>2. /\ life["lcdwrite"] # "new" /\ WriterAt(n, g, pins["lcdwrite"]) /\ Pending(n, toServer["lcdwrite"])
          /\ life["lcdwrite"] = "on" => sent = n + Len(toServer["lcdwrite"])
      BY <1>1, <1>8, <2>1 DEF Writer
    <2>3. CASE m = Bye
      <3>1. handle_close("lcdwrite", pins) BY <1>6, <1>7, <1>8, <2>3
      <3> QED BY <1>1, <1>8, <3>1, WriterClosed
    <2>4. CASE m # Bye
      <3>1. n + 1 <= Len(Script) /\ m = Script[n + 1] BY <1>5, <1>8, <2>2, <2>4 DEF Pending
      <3>2. m.cmd = "W"
        <4>1. Len(Script) \in Nat BY ScriptSent, LenProperties
        <4>2. n + 1 \in 1 .. Len(Script) BY <3>1, <4>1
        <4>3. Script[n + 1] \in PanelWrite BY <4>2, ScriptSent, ElementOfSeq
        <4> QED BY <3>1, <4>3 DEF PanelWrite
      <3>3. Resolved("lcdwrite", [pins EXCEPT !["lcdwrite"][m.pin] = m.val], {}) BY <1>7, <1>8, <3>2
      <3> QED BY <1>1, <1>4, <1>8, <2>1, <2>2, <2>4, <3>3, WriterDone
    <2> QED BY <2>3, <2>4
  <1>9. CASE c = "lcd"
    <2>1. Subscribing(toServer["lcd"]) BY <1>1, <1>9 DEF TableInv, Follows, Following
    <2>2. m = R \/ m = N(m.pin) BY <1>1, <1>3, <1>4, <1>9, <2>1, SubscriptionFirst
    <2>3. CASE m = R
      <3>1. Resolved("lcd", pins, {"lcd"}) BY <1>6, <1>7, <1>9, <2>3
      <3> QED BY <1>1, <1>4, <1>9, <2>3, <3>1, LcdAnswered
    <2>4. CASE m = N(m.pin)
      <3>1. m.cmd = "NOTIFY" BY <2>4 DEF N
      <3>2. /\ notify' = [notify EXCEPT !["lcd"] = @ \cup {m.pin}]
            /\ toServer' = [toServer EXCEPT !["lcd"] = Tail(@)]
            /\ UNCHANGED <<state, fd, pins, toClient, life, sent, display>>
        BY <1>7, <1>9, <3>1
      <3>3. PICK x : x = m.pin OBVIOUS
      <3>4. Head(toServer["lcd"]) = N(x) /\ notify' = [notify EXCEPT !["lcd"] = @ \cup {x}] BY <1>4, <1>9, <2>4, <3>2, <3>3
      <3> QED BY <1>1, <1>9, <3>2, <3>4, LcdNotified
    <2> QED BY <2>2, <2>3, <2>4
  <1> QED BY <1>2, <1>8, <1>9

\* A step that does nothing to the LCD.
LEMMA StoryAside ==
  ASSUME TableInv, Story, UNCHANGED display, fd'["lcd"] = fd["lcd"], pins'["lcd"] = pins["lcd"],
         notify'["lcd"] = notify["lcd"], toServer'["lcd"] = toServer["lcd"], toClient'["lcd"] = toClient["lcd"],
         life'["lcd"] = "new" => life["lcd"] = "new",
         \A c \in Client : c \notin {"lcd", "lcdwrite"} => fd'[c] = fd[c],
         \A n \in Nat, g \in Int : Writer(n, g) => Writer(n, g)'
  PROVE  Story'
  <1>1. PICK n \in Nat, g \in Int : Writer(n, g) /\ LcdStory(g) BY DEF Story
  <1>2. Writer(n, g)' BY <1>1
  <1>3. Pair' BY DEF Story, Pair
  <1>4. \A k \in Int : Heard(k, g) => Heard(k, g)' BY DEF Heard
  <1>5. LcdStory(g)' BY <1>1, <1>4, StoryKept
  <1> QED BY <1>2, <1>3, <1>5 DEF Story

\* Another program cannot touch the panel.
LEMMA StoryElse ==
  ASSUME TableInv, Story, UNCHANGED <<server, toServer, sent, display>>, toClient'["lcd"] = toClient["lcd"],
         life'["lcd"] = life["lcd"], life'["lcdwrite"] = life["lcdwrite"]
  PROVE  Story'
  <1>1. UNCHANGED <<state, fd, pins, notify>> BY DEF server
  <1>2. \A n \in Nat, g \in Int : Writer(n, g) => Writer(n, g)' BY <1>1 DEF Writer
  <1> QED BY <1>1, <1>2, StoryAside

LEMMA OthersAside ==
  ASSUME TableInv, Story, NEW c \in {"port", "button", "led"}, UNCHANGED <<sent, display>>,
         life' = life \/ life' = [life EXCEPT ![c] = "over"],
         UNCHANGED panel \/ Taken(c) \/ \E commands : Sends(c, commands)
  PROVE  Story'
  <1>1. c \in Client /\ c # "lcd" /\ c # "lcdwrite" BY Given
  <1>2. life'["lcd"] = life["lcd"] /\ life'["lcdwrite"] = life["lcdwrite"] BY <1>1, Given DEF TableInv, Types
  <1>3. CASE UNCHANGED panel
    <2>1. UNCHANGED <<server, toServer>> /\ toClient'["lcd"] = toClient["lcd"] BY <1>3 DEF panel
    <2> QED BY <1>2, <2>1, StoryElse
  <1>4. CASE Taken(c)
    <2>1. UNCHANGED <<server, toServer>> BY <1>4 DEF Taken
    <2>2. toClient'["lcd"] = toClient["lcd"] BY <1>1, <1>4, Given DEF Taken, TableInv, Types
    <2> QED BY <1>2, <2>1, <2>2, StoryElse
  <1>5. CASE \E commands : Sends(c, commands)
    <2>1. fd[c] = 0 BY <1>1 DEF Story, Pair
    <2>2. UNCHANGED panel BY <1>5, <2>1 DEF Sends
    <2> QED BY <1>3, <2>2
  <1> QED BY <1>3, <1>4, <1>5

\* The writer comes,
LEMMA WriterComes ==
  ASSUME TableInv, Story, Starts("lcdwrite", <<>>), UNCHANGED <<sent, display>>
  PROVE  Story'
  <1>1. "lcdwrite" \in Client /\ "lcd" \in Client /\ "lcdwrite" # "lcd" BY Given
  <1>2. /\ pins \in [Client -> [Pin -> Drive]] /\ notify \in [Client -> SUBSET Pin]
        /\ toServer \in [Client -> Seq(PanelCommand)] /\ toClient \in [Client -> Seq(Levs)]
        /\ life \in [Client -> {"new", "on", "over"}]
    BY DEF TableInv, Types
  <1>3. life["lcdwrite"] = "new" BY DEF Starts
  <1>4. CASE Accept("lcdwrite", <<>>) /\ life' = [life EXCEPT !["lcdwrite"] = "on"]
    <2>1. fd'["lcdwrite"] # 0 /\ \A d \in Client : d # "lcdwrite" => fd'[d] = fd[d] BY <1>1, <1>4, Joins
    <2>2. /\ state = "up" /\ pins' = [pins EXCEPT !["lcdwrite"] = AllX] /\ notify' = [notify EXCEPT !["lcdwrite"] = {}]
          /\ toServer' = [toServer EXCEPT !["lcdwrite"] = <<>>] /\ toClient' = [toClient EXCEPT !["lcdwrite"] = <<>>]
      BY <1>4 DEF Accept
    <2>3. /\ pins'["lcd"] = pins["lcd"] /\ notify'["lcd"] = notify["lcd"] /\ toServer'["lcd"] = toServer["lcd"]
          /\ toClient'["lcd"] = toClient["lcd"] /\ pins'["lcdwrite"] = AllX /\ toServer'["lcdwrite"] = <<>>
          /\ life'["lcd"] = life["lcd"] /\ life'["lcdwrite"] = "on"
      BY <1>1, <1>2, <1>4, <2>2
    <2>4. ASSUME NEW n \in Nat, NEW g \in Int, Writer(n, g) PROVE Writer(n, g)'
      <3>1. n = 0 /\ g = 0 /\ sent = 0 BY <1>3, <2>2, <2>4 DEF Writer
      <3>2. WriterAt(0, 0, AllX)
        <4>1. AllX[HD_E] = "X" /\ AllX[HD_RS] = "X" BY Given DEF AllX, HD_E, HD_RS
        <4>2. AtStart(0, AllX) BY <4>1 DEF AtStart
        <4>3. 0 \in 0 .. 3 /\ 0 \in 0 .. 5 /\ 0 = 6 * 0 + 0 /\ 0 = 2 * 0 + (IF 0 = 5 THEN 1 ELSE 0) OBVIOUS
        <4> QED BY <4>2, <4>3 DEF WriterAt
      <3>3. Len(<<>>) = 0 /\ DOMAIN <<>> = {} OBVIOUS
      <3>4. Pending(0, <<>>) BY <3>3 DEF Pending
      <3>5. 0 <= Len(Script) BY ScriptSent, LenProperties
      <3>6. sent' = 0 + Len(<<>>) BY <3>1, <3>3
      <3> QED BY <2>1, <2>3, <3>1, <3>2, <3>4, <3>5, <3>6 DEF Writer
    <2> QED BY <1>1, <2>1, <2>3, <2>4, StoryAside
  <1>5. CASE state # "up" /\ life' = [life EXCEPT !["lcdwrite"] = "over"] /\ UNCHANGED panel
    <2>1. UNCHANGED <<state, fd, pins, notify, toServer, toClient>> BY <1>5 DEF panel, server
    <2>2. life'["lcd"] = life["lcd"] /\ life'["lcdwrite"] = "over" BY <1>1, <1>2, <1>5
    <2>3. \A n \in Nat, g \in Int : Writer(n, g) => Writer(n, g)' BY <1>3, <1>5, <2>1, <2>2 DEF Writer
    <2> QED BY <2>1, <2>2, <2>3, StoryAside
  <1> QED BY <1>4, <1>5 DEF Starts

\* sends the next command of the script, or that it ends,
LEMMA WriterSpeaks ==
  ASSUME TableInv, Story, life["lcdwrite"] = "on", NEW m, Sends("lcdwrite", <<m>>), UNCHANGED display,
         life'["lcd"] = life["lcd"],
         \/ /\ m = Script[sent + 1] /\ sent + 1 <= Len(Script) /\ m \in PanelCommand
            /\ life'["lcdwrite"] = "on" /\ sent' = sent + 1
         \/ m = Bye /\ life'["lcdwrite"] = "over"
  PROVE  Story'
  <1>1. toServer \in [Client -> Seq(PanelCommand)] /\ sent \in Nat BY DEF TableInv, Types
  <1>2. CASE fd["lcdwrite"] = 0
    <2>1. UNCHANGED <<state, fd, pins, notify, toServer, toClient>> BY <1>2 DEF Sends, panel, server
    <2>2. \A n \in Nat, g \in Int : Writer(n, g) => Writer(n, g)' BY <1>2, <2>1 DEF Writer
    <2> QED BY <2>1, <2>2, StoryAside
  <1>3. CASE fd["lcdwrite"] # 0
    <2> DEFINE q == toServer["lcdwrite"]
    <2>1. /\ UNCHANGED <<state, fd, pins, notify, toClient>>
          /\ toServer' = [toServer EXCEPT !["lcdwrite"] = @ \o <<m>>]
      BY <1>3 DEF Sends, Send, server
    <2>2. toServer'["lcd"] = toServer["lcd"] /\ toServer'["lcdwrite"] = q \o <<m>> BY <1>1, <2>1, Given
    <2>3. q \in Seq(PanelCommand) /\ m \in PanelCommand BY <1>1, Given DEF PanelCommand
    <2>4. Len(q) \in Nat /\ DOMAIN q = 1 .. Len(q) BY <2>3, LenProperties
    <2>5. /\ Len(q \o <<m>>) = Len(q) + 1 /\ (q \o <<m>>)[Len(q) + 1] = m
          /\ DOMAIN (q \o <<m>>) = 1 .. Len(q) + 1 /\ \A i \in 1 .. Len(q) : (q \o <<m>>)[i] = q[i]
      BY <2>3, <2>4, AppendProperties, AppendIsConcat, LenProperties
    <2>6. ASSUME NEW n \in Nat, NEW g \in Int, Writer(n, g) PROVE Writer(n, g)'
      <3>1. /\ n <= Len(Script) /\ WriterAt(n, g, pins["lcdwrite"]) /\ Pending(n, q) /\ sent = n + Len(q)
        BY <1>3, <2>6 DEF Writer
      <3>2. Pending(n, q \o <<m>>)
        <4> SUFFICES ASSUME NEW i \in 1 .. Len(q) + 1
                     PROVE  \/ (q \o <<m>>)[i] = Bye
                            \/ n + i <= Len(Script) /\ (q \o <<m>>)[i] = Script[n + i]
          BY <2>5 DEF Pending
        <4>1. CASE i <= Len(q)
          <5>1. i \in 1 .. Len(q) BY <2>4, <4>1
          <5>2. q[i] = Bye \/ (n + i <= Len(Script) /\ q[i] = Script[n + i]) BY <2>4, <3>1, <5>1 DEF Pending
          <5> QED BY <2>5, <5>1, <5>2
        <4>2. CASE i = Len(q) + 1
          <5>1. n + i = sent + 1 BY <2>4, <3>1, <4>2
          <5>2. (q \o <<m>>)[i] = m BY <2>5, <4>2
          <5>3. m = Bye \/ (n + i <= Len(Script) /\ m = Script[n + i]) BY <5>1
          <5> QED BY <5>2, <5>3
        <4> QED BY <2>4, <4>1, <4>2
      <3>3. life'["lcdwrite"] = "on" => sent' = n + Len(q \o <<m>>) BY <2>4, <2>5, <3>1
      <3>4. PICK r : r = q \o <<m>> OBVIOUS
      <3>5. toServer'["lcdwrite"] = r /\ Pending(n, r) /\ (life'["lcdwrite"] = "on" => sent' = n + Len(r))
        BY <2>2, <3>2, <3>3, <3>4
      <3>6. life'["lcdwrite"] # "new" OBVIOUS
      <3> QED BY <1>3, <2>1, <3>1, <3>5, <3>6 DEF Writer
    <2> QED BY <2>1, <2>2, <2>6, StoryAside
  <1> QED BY <1>2, <1>3

\* and the LCD comes.
LEMMA LcdComes ==
  ASSUME TableInv, Story, Starts("lcd", Subscription(6)), UNCHANGED <<sent, display>>
  PROVE  Story'
  <1>1. "lcdwrite" \in Client /\ "lcd" \in Client /\ "lcdwrite" # "lcd" BY Given
  <1>2. /\ pins \in [Client -> [Pin -> Drive]] /\ notify \in [Client -> SUBSET Pin]
        /\ toServer \in [Client -> Seq(PanelCommand)] /\ toClient \in [Client -> Seq(Levs)]
        /\ life \in [Client -> {"new", "on", "over"}]
    BY DEF TableInv, Types
  <1>3. life["lcd"] = "new" BY DEF Starts
  <1>4. CASE Accept("lcd", Subscription(6)) /\ life' = [life EXCEPT !["lcd"] = "on"]
    <2>1. fd'["lcd"] # 0 /\ fd["lcd"] = 0 /\ \A d \in Client : d # "lcd" => fd'[d] = fd[d] BY <1>1, <1>4, Joins
    <2>2. /\ pins' = [pins EXCEPT !["lcd"] = AllX] /\ notify' = [notify EXCEPT !["lcd"] = {}]
          /\ toServer' = [toServer EXCEPT !["lcd"] = Subscription(6)] /\ toClient' = [toClient EXCEPT !["lcd"] = <<>>]
          /\ state' = state
      BY <1>4 DEF Accept
    <2>3. /\ pins'["lcdwrite"] = pins["lcdwrite"] /\ toServer'["lcdwrite"] = toServer["lcdwrite"]
          /\ toClient'["lcd"] = <<>> /\ pins'["lcd"] = AllX /\ toServer'["lcd"] = Subscription(6) /\ notify'["lcd"] = {}
          /\ life'["lcd"] = "on" /\ life'["lcdwrite"] = life["lcdwrite"] /\ fd'["lcdwrite"] = fd["lcdwrite"]
      BY <1>1, <1>2, <1>4, <2>1, <2>2
    <2>4. PICK n \in Nat, g \in Int : Writer(n, g) /\ LcdStory(g) BY DEF Story
    <2>5. Writer(n, g)' BY <2>2, <2>3, <2>4 DEF Writer
    <2>6. Subscription(6)[1] = N(HD_E) BY DEF Subscription, HD_E
    <2>7. Pair' BY <2>1, <2>3, <2>6 DEF Story, Pair
    <2>8. LcdStory(g)'
      <3>1. toClient["lcd"] = <<>> BY <1>3, <2>4 DEF LcdStory
      <3>2. \A k \in Int : Heard(k, g) => Heard(k, g)' BY <2>1 DEF Heard
      <3>3. toClient'["lcd"] = toClient["lcd"] /\ (life'["lcd"] = "new" => life["lcd"] = "new") BY <2>3, <3>1
      <3> QED BY <2>4, <3>2, <3>3, StoryKept
    <2> QED BY <2>5, <2>7, <2>8 DEF Story
  <1>5. CASE state # "up" /\ life' = [life EXCEPT !["lcd"] = "over"] /\ UNCHANGED panel
    <2>1. UNCHANGED <<state, fd, pins, notify, toServer, toClient>> BY <1>5 DEF panel, server
    <2>2. life'["lcdwrite"] = life["lcdwrite"] /\ life'["lcd"] = "over" BY <1>1, <1>2, <1>5
    <2>3. \A n \in Nat, g \in Int : Writer(n, g) => Writer(n, g)' BY <2>1, <2>2 DEF Writer
    <2> QED BY <1>3, <2>1, <2>2, <2>3, StoryAside
  <1> QED BY <1>4, <1>5 DEF Starts

\* The LCD takes what it has been told.
LEMMA LcdUpdated ==
  ASSUME TableInv, Story, pins_updated
  PROVE  Story'
  <1>1. UNCHANGED <<state, fd, pins, notify, toServer, life, sent>> BY DEF pins_updated, Taken, server
  <1>2. PICK n \in Nat, g \in Int : Writer(n, g) /\ LcdStory(g) BY DEF Story
  <1>3. Writer(n, g)' BY <1>1, <1>2 DEF Writer
  <1>4. Pair' BY <1>1 DEF Story, Pair
  <1>5. LcdStory(g)' BY <1>2, StoryTaken
  <1> QED BY <1>3, <1>4, <1>5 DEF Story

LEMMA InitText == Init => TextInv
  <1> SUFFICES ASSUME Init PROVE Story BY DEF TextInv
  <1>1. /\ state = "up" /\ fd = [c \in Client |-> 0] /\ toClient = [c \in Client |-> <<>>]
        /\ life = [c \in Client |-> "new"] /\ sent = 0
        /\ prev_E = "1" /\ lcd_init = FALSE /\ lcd_text = [i \in 0 .. LcdSize - 1 |-> <<>>]
    BY DEF Init, PanelInit
  <1>2. \A c \in Client : fd[c] = 0 /\ toClient[c] = <<>> /\ life[c] = "new" BY <1>1
  <1>3. Pair BY <1>2, Given DEF Pair
  <1>4. Writer(0, 0) BY <1>1, <1>2, Given DEF Writer
  <1>5. LcdStory(0)
    <2> DEFINE f == [i \in 0 .. 0 |-> -1]
    <2>1. Len(<<>>) = 0 /\ 1 .. 0 = {} OBVIOUS
    <2>2. f \in [0 .. 0 -> Int] /\ f[0] = -1 /\ \A i \in 0 .. 0 : f[i] # -2 OBVIOUS
    <2> HIDE DEF f
    <2>3. Chain(f, <<>>, 0) BY <2>1, <2>2 DEF Chain
    <2>4. Heard(f[Len(<<>>)], 0) BY <2>1, <2>2 DEF Heard
    <2>5. LcdAt(f[0]) BY <1>1, <2>2 DEF LcdAt, Blank
    <2> QED BY <1>2, <2>2, <2>3, <2>4, <2>5, Given DEF LcdStory
  <1>6. 0 \in Nat /\ 0 \in Int OBVIOUS
  <1> QED BY <1>3, <1>4, <1>5, <1>6 DEF Story

\* What a step leaves of it.
LEMMA NextText ==
  ASSUME TableInv, TextInv, [Next]_vars
  PROVE  TextInv'
  <1>0. scene' = scene
    BY DEF Next, vars, PortInit, GuestWrites, GuestReads, PortGets, ButtonStarts, say_cb, ButtonQuits, LedStarts,
           LedUpdated, WriterStarts, WriterSends, WriterEnds, LcdStarts, pins_updated, Serves, Stopped
  <1> SUFFICES ASSUME scene.clients = {"lcdwrite", "lcd"} PROVE Story' BY <1>0 DEF TextInv
  <1>1. Story BY DEF TextInv
  <1>2. \A c \in {"port", "button", "led"} : \A s : ~Starts(c, s) BY DEF Starts
  <1>3. CASE PortInit \/ ButtonStarts \/ LedStarts BY <1>2, <1>3 DEF PortInit, ButtonStarts, LedStarts
  <1>4. ASSUME NEW low \in GuestRegs, GuestWrites(low) PROVE Story'
    <2>1. /\ UNCHANGED <<sent, display>> /\ (life' = life \/ life' = [life EXCEPT !["port"] = "over"])
          /\ UNCHANGED panel \/ \E commands : Sends("port", commands)
      BY <1>4 DEF GuestWrites
    <2> QED BY <1>1, <2>1, OthersAside
  <1>5. CASE GuestReads
    <2>1. /\ UNCHANGED <<sent, display>> /\ (life' = life \/ life' = [life EXCEPT !["port"] = "over"])
          /\ UNCHANGED panel \/ \E commands : Sends("port", commands)
      BY <1>5 DEF GuestReads
    <2> QED BY <1>1, <2>1, OthersAside
  <1>6. CASE PortGets
    <2>1. /\ UNCHANGED <<sent, display>> /\ (life' = life \/ life' = [life EXCEPT !["port"] = "over"])
          /\ UNCHANGED panel \/ Taken("port")
      BY <1>6 DEF PortGets
    <2> QED BY <1>1, <2>1, OthersAside
  <1>7. CASE say_cb \/ ButtonQuits
    <2>1. /\ UNCHANGED <<sent, display>> /\ (life' = life \/ life' = [life EXCEPT !["button"] = "over"])
          /\ \E commands : Sends("button", commands)
      BY <1>7 DEF say_cb, ButtonQuits
    <2> QED BY <1>1, <2>1, OthersAside
  <1>8. CASE LedUpdated
    <2>1. UNCHANGED <<sent, display>> /\ life' = life /\ Taken("led") BY <1>8 DEF LedUpdated
    <2> QED BY <1>1, <2>1, OthersAside
  <1>9. CASE WriterStarts BY <1>1, <1>9, WriterComes DEF WriterStarts
  <1>10. CASE WriterSends
    <2>1. /\ life["lcdwrite"] = "on" /\ sent < scene.script /\ sent' = sent + 1 /\ UNCHANGED <<life, display>>
          /\ Sends("lcdwrite", <<Script[sent + 1]>>)
      BY <1>10 DEF WriterSends, Open
    <2>2. sent + 1 \in 1 .. Len(Script)
      <3>1. scene \in Scenes /\ sent \in Nat BY DEF TableInv, Types
      <3>2. scene.script \in Nat /\ scene.script <= Len(Script) BY <3>1, ClientsAssumption, ScriptAssumption
      <3>3. Len(Script) \in Nat BY ScriptSent, LenProperties
      <3> QED BY <2>1, <3>1, <3>2, <3>3
    <2>3. Script[sent + 1] \in PanelCommand
      <3>1. Script[sent + 1] \in PanelWrite BY <2>2, ScriptSent, ElementOfSeq
      <3> QED BY <3>1 DEF PanelCommand, PanelWrite
    <2>4. PICK m : m = Script[sent + 1] OBVIOUS
    <2>5. Sends("lcdwrite", <<m>>) /\ m \in PanelCommand BY <2>1, <2>3, <2>4
    <2>6. sent + 1 <= Len(Script) BY <2>2, ScriptSent, LenProperties
    <2> QED BY <1>1, <2>1, <2>4, <2>5, <2>6, WriterSpeaks
  <1>11. CASE WriterEnds
    <2>1. /\ life["lcdwrite"] = "on" /\ life' = [life EXCEPT !["lcdwrite"] = "over"] /\ UNCHANGED display
          /\ Sends("lcdwrite", <<Bye>>)
      BY <1>11 DEF WriterEnds, Open
    <2>2. life'["lcdwrite"] = "over" /\ life'["lcd"] = life["lcd"] BY <2>1, Given DEF TableInv, Types
    <2> QED BY <1>1, <2>1, <2>2, WriterSpeaks
  <1>12. CASE LcdStarts BY <1>1, <1>12, LcdComes DEF LcdStarts
  <1>13. CASE pins_updated BY <1>1, <1>13, LcdUpdated
  <1>14. ASSUME NEW c \in Client, Serves(c) PROVE Story' BY <1>1, <1>14, StoryServed DEF Serves
  <1>15. CASE Stopped
    <2>1. Down("stopped") /\ UNCHANGED <<life, display>> BY <1>15 DEF Stopped, Stop
    <2> QED BY <1>1, <2>1, StoryDown
  <1>16. CASE UNCHANGED vars
    <2>1. UNCHANGED <<server, toServer, toClient, life, sent, display>> BY <1>16 DEF vars, panel
    <2> QED BY <1>1, <2>1, StoryElse
  <1> QED BY <1>3, <1>4, <1>5, <1>6, <1>7, <1>8, <1>9, <1>10, <1>11, <1>12, <1>13, <1>14, <1>15, <1>16 DEF Next

\* A place that has gone bad is one of a writer that is gone.
LEMMA TextShown == TableInv /\ TextInv => LcdShowsText
  <1> SUFFICES ASSUME TableInv, Story
               PROVE  \E k \in 0 .. Len(Chars) :
                        \/ lcd_text = Display(k)
                        \/ /\ life["lcdwrite"] = "over" \/ fd["lcdwrite"] = 0
                           /\ \E v \in 0 .. 15 : lcd_text = [Display(k) EXCEPT ![k % LcdSize] = <<v, 15>>]
    BY DEF TextInv, LcdShowsText
  <1>1. PICK n \in Nat, g \in Int : Writer(n, g) /\ LcdStory(g) BY DEF Story
  <1>2. PICK q : q = toClient["lcd"] OBVIOUS
  <1>3. PICK f : Chain(f, q, g) /\ LcdAt(f[0]) /\ Heard(f[Len(q)], g) BY <1>1, <1>2 DEF LcdStory
  <1>4. CASE f[0] = -2
    <2>1. Marred BY <1>3, <1>4 DEF LcdAt, Reading
    <2>2. fd["lcdwrite"] = 0
      <3> SUFFICES ASSUME fd["lcdwrite"] # 0 PROVE FALSE OBVIOUS
      <3>1. g \in Nat BY <1>1, WriterLevel DEF Writer
      <3>2. g # -2 BY <3>1
      <3>3. q \in Seq(Levs) BY <1>2, Given DEF TableInv, Types
      <3>4. 0 \in 0 .. Len(q) BY <3>3, LenProperties
      <3> QED BY <1>3, <1>4, <3>2, <3>4 DEF Chain
    <2> QED BY <2>1, <2>2 DEF Marred
  <1>5. CASE f[0] # -2
    <2>1. lcd_text = Blank \/ \E k \in 0 .. Len(Chars) : lcd_text = Display(k) BY <1>3, <1>5 DEF LcdAt, Reading, Filled
    <2>2. 0 \in 0 .. Len(Chars) BY ScriptPlaces
    <2> QED BY <2>1, <2>2, DisplayNone
  <1> QED BY <1>4, <1>5

LEMMA TextInvariant == Spec => []TextInv
  BY InitText, NextText, TableInvariant, PTL DEF Spec

\* With lcdwrite.py and hd44780.py alone on the panel the LCD shows the first
\* characters of the text or nothing, wherever in the text it joins, whatever
\* of the levels it is told of the server leaves out, and when either or the
\* server ends; a writer killed with E low leaves at most one wrong character.
THEOREM TextDisplayed == Spec => []LcdShowsText
  BY TableInvariant, TextInvariant, TextShown, PTL

=============================================================================
