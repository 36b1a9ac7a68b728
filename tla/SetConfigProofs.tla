-------------------------- MODULE SetConfigProofs --------------------------
(* What holds of the configuration tool for any number of boards, clicks,    *)
(* poll threads and frames in a socket's queue.                              *)
EXTENDS SetConfig, FiniteSetTheorems, SequenceTheorems, TLAPS

-----------------------------------------------------------------------------
(* The invariant of the workers and their sockets *)

ThreadPc == {"unused", "new", "dest", "made", "loop", "attn", "ok", "ending", "done"}
BusyPc == {"transfer", "ask", "digest", "store", "write"}
GuiPc == BusyPc \cup {"idle", "check", "quit"}

Content == {Part} \cup {Whole(n) : n \in Nat}
AnyFrame == [src : Board, type : {"attn", "digest", "write"}, val : Content \cup {"", "ok", "err"}]

Typed ==
  /\ user.careful \in BOOLEAN /\ user.writes \in Nat /\ writes \in Nat
  /\ mac \in Mac /\ soc \in Thread \cup {0}
  /\ pc \in [Worker -> ThreadPc \cup GuiPc]
  /\ pc[Gui] \in GuiPc /\ \A t \in Thread : pc[t] \in ThreadPc
  /\ using \in [Worker -> Thread \cup {0}]
  /\ held \in [Worker -> AnyFrame \cup {NoFrame}]
  /\ dest \in [Thread -> Mac] /\ queue \in [Thread -> Seq(AnyFrame)]
  /\ late \subseteq AnyFrame /\ attn \in [Board -> BOOLEAN]
  /\ buffer \in [Board -> Content] /\ stored \in [Board -> Content \cup {Old}]
  /\ chunk \in Nat

Busy == pc[Gui] \in BusyPc

\* Who has a socket, and that it was made before; the window never finds its
\* socket on the broadcast address.
Sockets ==
  /\ soc # 0 => pc[soc] \notin {"unused", "new", "dest"}
  /\ \A w \in Worker : using[w] # 0 => pc[using[w]] \notin {"unused", "new", "dest"}
  /\ \A t \in Thread : using[t] # 0 <=> pc[t] = "attn"
  /\ using[Gui] # 0 <=> Busy
  /\ \A t \in Thread : held[t] # NoFrame => pc[t] = "attn" /\ Bcast \in user.macs
  /\ held[Gui] = NoFrame
  /\ Bcast \notin user.macs => mac # Bcast /\ \A s \in Thread : dest[s] # Bcast

\* A frame comes from a board that is at attention.
Heard ==
  /\ \A f \in late : attn[f.src]
  /\ \A s \in Thread : \A i \in DOMAIN queue[s] : attn[queue[s][i].src]
  /\ \A t \in Thread : held[t] # NoFrame => attn[held[t].src]

\* The peer of the socket is a board that has answered.
Good(s) == dest[s] \in Board /\ attn[dest[s]]

\* No thread has made a socket that it polls on.
Resting == \A t \in Thread : pc[t] \in {"unused", "new", "dest", "done"}

\* A careful user has one thread at a time and none while the window writes.
CarefulInv ==
  /\ \A t, u \in Thread : Alive(t) /\ Alive(u) => t = u
  /\ Busy => ~Polls /\ soc = using[Gui] /\ Good(soc)
  /\ \A t \in Thread : pc[t] \in {"made", "loop", "attn", "ok"} => soc = t
  /\ \A t \in Thread : pc[t] = "attn" => using[t] = t
  /\ \A t \in Thread : pc[t] = "ok" => Good(t)
  /\ \A t \in Thread : pc[t] \in {"loop", "attn", "ok", "ending"} => txt_status # "Connected"
  /\ txt_status = "Connected" /\ soc # 0 /\ Resting => Good(soc)

\* The others write once.
HastyInv == Busy => writes > 0

\* The board of the write.
Peer == dest[using[Gui]]

Writing ==
  /\ Peer # Bcast
  /\ pc[Gui] # "transfer" => Peer \in Board

Core ==
  /\ Typed /\ Sockets /\ Heard
  /\ user.careful => CarefulInv
  /\ ~user.careful => HastyInv
  /\ Busy => Writing

-----------------------------------------------------------------------------
(* The invariant of the answers *)

\* No answer of a type in a queue, and at most one.
NoneOf(q, type) == \A i \in DOMAIN q : q[i].type # type
Lone(q, type) == \A i, j \in DOMAIN q : q[i].type = type /\ q[j].type = type => i = j

\* The sockets the window uses, or may yet use for a write.
On(s) == user.careful \/ s = using[Gui] \/ writes = 0

\* No answer is under way to such a socket, or on it.
Quiet(type) ==
  /\ \A f \in late : f.type # type
  /\ \A s \in Thread : On(s) => NoneOf(queue[s], type)

\* The answer says what the board has in its buffer, or in its flash.
Truth(f) ==
  /\ f.type = "digest" => f.val = buffer[Peer]
  /\ f.type = "write" /\ f.val = "ok" => stored[Peer] = Whole(chunk)

\* There is at most one answer, under way or on the socket of the write, and it
\* is true.
Single(type) ==
  LET q == queue[using[Gui]]
  IN /\ \A f \in late : f.type = type => Truth(f) /\ NoneOf(q, type)
     /\ \A f, g \in late : f.type = type /\ g.type = type => f = g
     /\ \A i \in DOMAIN q : q[i].type = type => Truth(q[i])
     /\ Lone(q, type)
     /\ \A s \in Thread : On(s) /\ s # using[Gui] => NoneOf(queue[s], type)

\* No answer that matters to those of a type has been overdue.
Prompt(type) == IF type = "digest" THEN "digest" \notin overdue ELSE overdue = {}

Asked(type) == IF pc[Gui] = type THEN Single(type) ELSE Quiet(type)

Answers ==
  /\ \A type \in {"digest", "write"} : Prompt(type) => Asked(type)
  /\ "digest" \notin overdue =>
       /\ pc[Gui] \in {"store", "write"} => buffer[Peer] = Whole(chunk)
       /\ \A b \in Board : stored[b].is \in {"old", "block"}

Inv == Cautious => Core /\ Answers

-----------------------------------------------------------------------------
(* Frames and queues *)

\* The assumptions on addresses and bounds.
LEMMA Addresses ==
  /\ Bcast \notin Board /\ NoMac \notin Board /\ Bcast # NoMac
  /\ MaxConnects \in Nat /\ 0 \notin Thread /\ Thread \subseteq Nat
  /\ Gui \notin Thread /\ Gui \in Worker /\ Thread \subseteq Worker
  <1>1. Board \cap {"ff:ff:ff:ff:ff:ff", "none"} = {} /\ MaxConnects \in Nat BY SetConfigAssumption
  <1>2. Bcast \notin Board /\ NoMac \notin Board /\ Bcast # NoMac BY <1>1 DEF Bcast, NoMac
  <1>3. 0 \notin Thread /\ Thread \subseteq Nat BY <1>1 DEF Thread
  <1> QED BY <1>1, <1>2, <1>3 DEF Gui, Worker

\* Taking a frame off a queue.
LEMMA Taken ==
  ASSUME NEW S, NEW q \in Seq(S), q # <<>>
  PROVE  /\ Tail(q) \in Seq(S) /\ Head(q) = q[1] /\ Head(q) \in S /\ 1 \in DOMAIN q
         /\ \A i \in DOMAIN Tail(q) : i \in Nat /\ i + 1 \in DOMAIN q /\ Tail(q)[i] = q[i + 1] /\ i + 1 # 1
  <1>1. Len(q) \in Nat /\ Len(q) > 0 /\ DOMAIN q = 1 .. Len(q) BY EmptySeq, LenProperties
  <1>2. Tail(q) \in Seq(S) /\ Len(Tail(q)) = Len(q) - 1 BY <1>1, HeadTailProperties
  <1>3. DOMAIN Tail(q) = 1 .. Len(q) - 1 BY <1>1, <1>2, LenProperties
  <1>4. \A i \in 1 .. Len(q) - 1 : Tail(q)[i] = q[i + 1] BY <1>1, HeadTailProperties
  <1>5. Head(q) = q[1] /\ Head(q) \in S BY HeadTailProperties
  <1> QED BY <1>1, <1>2, <1>3, <1>4, <1>5

\* Adding one.
LEMMA Added ==
  ASSUME NEW S, NEW q \in Seq(S), NEW f \in S, NEW r, r = Append(q, f)
  PROVE  /\ r \in Seq(S) /\ DOMAIN q \subseteq DOMAIN r
         /\ \A i \in DOMAIN r : (i \in DOMAIN q /\ r[i] = q[i]) \/ (i = Len(q) + 1 /\ i \notin DOMAIN q /\ r[i] = f)
  <1>1. /\ Append(q, f) \in Seq(S) /\ Len(Append(q, f)) = Len(q) + 1 /\ Len(q) \in Nat
        /\ \A i \in 1 .. Len(q) : Append(q, f)[i] = q[i]
        /\ Append(q, f)[Len(q) + 1] = f
    BY AppendProperties, LenProperties
  <1>2. DOMAIN q = 1 .. Len(q) /\ DOMAIN r = 1 .. Len(q) + 1 BY <1>1, LenProperties
  <1> QED BY <1>1, <1>2

-----------------------------------------------------------------------------
(* Steps of a poll thread *)

\* Thread t goes to x and nobody else goes anywhere.
Goes(t, x) ==
  /\ pc'[t] = x
  /\ \A w \in Worker : w # t => pc'[w] = pc[w]

\* The parts of the window and the boards that no thread touches.
LEMMA Moves ==
  ASSUME Typed, NEW t \in Thread, NEW x \in ThreadPc, Become(t, x)
  PROVE  /\ pc' \in [Worker -> ThreadPc \cup GuiPc]
         /\ Goes(t, x) /\ pc'[Gui] = pc[Gui]
         /\ \A u \in Thread : pc'[u] \in ThreadPc /\ (u # t => pc'[u] = pc[u])
  <1>1. pc \in [Worker -> ThreadPc \cup GuiPc] /\ (\A u \in Thread : pc[u] \in ThreadPc) BY DEF Typed
  <1>2. t \in Worker /\ t # Gui /\ Gui \in Worker /\ Thread \subseteq Worker BY Addresses
  <1> QED BY <1>1, <1>2 DEF Become, Goes

\* With a careful user a thread is alone.
LEMMA Alone ==
  ASSUME Core, user.careful, NEW t \in Thread, Alive(t)
  PROVE  /\ ~Busy /\ using[Gui] = 0
         /\ \A u \in Thread : u # t => pc[u] \in {"unused", "done"}
  <1>1. CarefulInv BY DEF Core
  <1>2. ~Busy BY <1>1 DEF CarefulInv, Polls
  <1>3. using[Gui] = 0 BY <1>2 DEF Core, Sockets
  <1>4. \A u \in Thread : u # t => pc[u] \in {"unused", "done"} BY <1>1 DEF CarefulInv, Alive
  <1> QED BY <1>2, <1>3, <1>4

\* So it has to look after itself only.
LEMMA CarefulStep ==
  ASSUME Core, user.careful, NEW t \in Thread, Alive(t), NEW x \in ThreadPc, Goes(t, x),
         x # "unused",
         using'[Gui] = using[Gui],
         x \in {"made", "loop", "attn", "ok"} => soc' = t,
         x = "attn" => using'[t] = t,
         x = "ok" => Good(t)',
         x \in {"loop", "attn", "ok", "ending"} => txt_status' # "Connected",
         x \in {"new", "dest", "done"} /\ txt_status' = "Connected" /\ soc' # 0 => Good(soc)'
  PROVE  CarefulInv'
  <1>1. /\ pc'[t] = x /\ pc'[Gui] = pc[Gui]
        /\ \A u \in Thread : u # t => pc'[u] \in {"unused", "done"}
    BY Alone, Addresses DEF Goes
  <1>2. ~Busy' BY <1>1, Alone DEF Busy
  <1>3. (\A w, u \in Thread : Alive(w) /\ Alive(u) => w = u)' BY <1>1 DEF Alive
  <1>4. Resting' => x \in {"new", "dest", "done"} BY <1>1 DEF Resting
  <1>5. (txt_status = "Connected" /\ soc # 0 /\ Resting => Good(soc))' BY <1>4
  <1>6. \A u \in Thread : u # t => pc'[u] \notin {"made", "loop", "attn", "ok", "ending"} BY <1>1
  <1>7. /\ (\A u \in Thread : pc[u] \in {"made", "loop", "attn", "ok"} => soc = u)'
        /\ (\A u \in Thread : pc[u] = "attn" => using[u] = u)'
        /\ (\A u \in Thread : pc[u] \in {"loop", "attn", "ok", "ending"} => txt_status # "Connected")'
    BY <1>1, <1>6
  <1>8. (\A u \in Thread : pc[u] = "ok" => Good(u))' BY <1>1, <1>6
  <1> QED BY <1>2, <1>3, <1>5, <1>7, <1>8 DEF CarefulInv

\* A thread that goes on keeps what it has to know of sockets.
LEMMA SocketsStep ==
  ASSUME Typed, Sockets, NEW t \in Thread, NEW x \in ThreadPc, Goes(t, x),
         x \notin {"unused", "new"}, x = "dest" => pc[t] = "new",
         soc' \in {soc, 0} \/ (soc' = t /\ x # "dest"),
         \A w \in Worker : w # t => using'[w] = using[w] /\ held'[w] = held[w],
         using'[t] \in {0, using[t], soc}, using'[t] # 0 <=> x = "attn",
         held'[t] # NoFrame => x = "attn" /\ Bcast \in user.macs,
         user' = user, Bcast \notin user.macs => mac' # Bcast /\ \A s \in Thread : dest'[s] # Bcast
  PROVE  Sockets'
  <1> DEFINE Ready(s) == pc[s] \notin {"unused", "new", "dest"}
  <1>1. pc'[t] = x /\ \A w \in Worker : w # t => pc'[w] = pc[w] BY DEF Goes
  <1>2. t # Gui /\ Gui \in Worker /\ Thread \subseteq Worker /\ Gui \notin Thread /\ 0 \notin Thread BY Addresses
  <1>3. pc'[Gui] = pc[Gui] /\ using'[Gui] = using[Gui] /\ held'[Gui] = held[Gui] BY <1>1, <1>2
  <1>4. \A s \in Thread : Ready(s) => Ready(s)' BY <1>1, <1>2
  <1>5. soc \in Thread \cup {0} /\ \A w \in Worker : using[w] \in Thread \cup {0} BY DEF Typed
  <1>6. soc # 0 => soc \in Thread /\ Ready(soc) BY <1>5 DEF Sockets
  <1>7. soc' # 0 => Ready(soc)'
    <2>1. CASE soc' = t /\ x # "dest" BY <1>1, <2>1
    <2>2. CASE soc' = soc BY <1>4, <1>6, <2>2
    <2> QED BY <2>1, <2>2
  <1>8. ASSUME NEW w \in Worker, using'[w] # 0 PROVE pc'[using'[w]] \notin {"unused", "new", "dest"}
    <2>1. \/ using'[w] = using[w] /\ using[w] # 0 /\ using[w] \in Thread /\ Ready(using[w])
          \/ using'[w] = soc /\ soc # 0
      BY <1>5, <1>8 DEF Sockets
    <2> QED BY <1>4, <1>6, <2>1
  <1>9. \A u \in Thread : using'[u] # 0 <=> pc'[u] = "attn" BY <1>1, <1>2 DEF Sockets
  <1>10. \A u \in Thread : held'[u] # NoFrame => pc'[u] = "attn" /\ Bcast \in user.macs BY <1>1, <1>2 DEF Sockets
  <1>11. (using'[Gui] # 0 <=> Busy') /\ held'[Gui] = NoFrame BY <1>3 DEF Sockets, Busy
  <1> QED BY <1>7, <1>8, <1>9, <1>10, <1>11 DEF Sockets

\* The invariant of a hasty user depends on the window.
LEMMA HastyStep ==
  ASSUME Core, ~user.careful, pc'[Gui] = pc[Gui], writes' = writes
  PROVE  HastyInv'
  BY DEF Core, HastyInv, Busy

\* A write is not disturbed when its socket does not change.
LEMMA WritingKept ==
  ASSUME Core, pc'[Gui] = pc[Gui], using'[Gui] = using[Gui], Busy => dest'[using[Gui]] = dest[using[Gui]]
  PROVE  Busy' => Writing'
  <1>1. Busy' <=> Busy BY DEF Busy
  <1>2. Busy => Writing BY DEF Core
  <1>3. Busy => Peer' = Peer BY DEF Peer
  <1> QED BY <1>1, <1>2, <1>3 DEF Writing

\* How the parts make the whole.
LEMMA Whole1 ==
  ASSUME user' = user, Typed', Sockets', Heard',
         user.careful => CarefulInv', ~user.careful => HastyInv', Busy' => Writing'
  PROVE  Core'
  BY DEF Core

\* What a careful user's thread knows.
LEMMA CarefulThread ==
  ASSUME Core, user.careful, NEW t \in Thread
  PROVE  /\ pc[t] \in {"made", "loop", "attn", "ok"} => soc = t
         /\ pc[t] = "attn" => using[t] = t
         /\ pc[t] = "ok" => Good(t)
         /\ pc[t] \in {"loop", "attn", "ok", "ending"} => txt_status # "Connected"
         /\ pc[t] \in {"new", "dest"} /\ txt_status = "Connected" /\ soc # 0 => Good(soc)
  <1>1. CarefulInv BY DEF Core
  <1>2. pc[t] \in {"new", "dest"} => Resting
    <2>1. pc[t] \in {"new", "dest"} => Alive(t) BY DEF Alive
    <2> QED BY <2>1, Alone DEF Resting
  <1> QED BY <1>1, <1>2 DEF CarefulInv

\* The thread reads the address; its socket does not exist yet.
LEMMA GetDestKeeps ==
  ASSUME Core, NEW t \in Thread, GetDest(t)
  PROVE  Core'
  <1>1. /\ pc[t] = "new" /\ dest' = [dest EXCEPT ![t] = mac] /\ Become(t, "dest")
        /\ UNCHANGED <<user, mac, writes, soc, txt_status, using, held, queue, late, attn, buffer, stored, chunk>>
    BY DEF GetDest, form, boards
  <1>2. Typed /\ Sockets /\ Heard BY DEF Core
  <1>3. "dest" \in ThreadPc BY DEF ThreadPc
  <1>4. /\ pc' \in [Worker -> ThreadPc \cup GuiPc] /\ Goes(t, "dest") /\ pc'[Gui] = pc[Gui]
        /\ \A u \in Thread : pc'[u] \in ThreadPc /\ (u # t => pc'[u] = pc[u])
    BY <1>1, <1>2, <1>3, Moves
  <1>5. dest' \in [Thread -> Mac] /\ dest'[t] = mac /\ \A s \in Thread : s # t => dest'[s] = dest[s]
    BY <1>1, <1>2 DEF Typed
  <1>6. Typed' BY <1>1, <1>2, <1>4, <1>5 DEF Typed
  <1>7. soc # t /\ \A w \in Worker : using[w] # t
    BY <1>1, <1>2, Addresses DEF Sockets
  <1>8. Sockets'
    <2>1. Bcast \notin user.macs => mac' # Bcast /\ \A s \in Thread : dest'[s] # Bcast
      BY <1>1, <1>2, <1>5 DEF Sockets
    <2>2. using'[t] = 0 /\ held'[t] = NoFrame BY <1>1, <1>2 DEF Sockets
    <2> QED BY <1>1, <1>2, <1>3, <1>4, <2>1, <2>2, SocketsStep
  <1>9. Heard' BY <1>1, <1>2 DEF Heard
  <1>10. Alive(t) BY <1>1 DEF Alive
  <1>11. ASSUME user.careful PROVE CarefulInv'
    <2>1. txt_status = "Connected" /\ soc # 0 => Good(soc) BY <1>1, <1>11, CarefulThread
    <2>2. soc # 0 => soc \in Thread BY <1>2 DEF Typed
    <2>3. txt_status' = "Connected" /\ soc' # 0 => Good(soc)' BY <1>1, <1>5, <1>7, <2>1, <2>2 DEF Good
    <2> QED BY <1>1, <1>3, <1>4, <1>10, <1>11, <2>3, CarefulStep
  <1>12. ~user.careful => HastyInv' BY <1>1, <1>4, HastyStep
  <1>13. Busy => using[Gui] \in Thread /\ using[Gui] # t BY <1>2, <1>7, Addresses DEF Sockets, Typed
  <1>14. Busy' => Writing'
    BY <1>1, <1>4, <1>5, <1>13, WritingKept
  <1> QED BY <1>1, <1>6, <1>8, <1>9, <1>11, <1>12, <1>14, Whole1

\* A step of a thread that leaves sockets and boards alone.
LEMMA PlainStep ==
  ASSUME Core, NEW t \in Thread, NEW x \in {"made", "loop", "ok", "ending", "done"}, Become(t, x),
         pc[t] \notin {"unused", "done", "attn"},
         UNCHANGED <<user, mac, writes, using, held, dest, queue, late, attn, buffer, stored, chunk>>,
         soc' \in {soc, 0, t},
         user.careful =>
           /\ x \in {"made", "loop", "ok"} => soc' = t
           /\ x = "ok" => Good(t)
           /\ x \in {"loop", "ok", "ending"} => txt_status' # "Connected"
           /\ x = "done" /\ txt_status' = "Connected" /\ soc' # 0 => Good(soc)'
  PROVE  Core'
  <1>1. Typed /\ Sockets /\ Heard BY DEF Core
  <1>2. x \in ThreadPc BY DEF ThreadPc
  <1>3. /\ pc' \in [Worker -> ThreadPc \cup GuiPc] /\ Goes(t, x) /\ pc'[Gui] = pc[Gui]
        /\ \A u \in Thread : pc'[u] \in ThreadPc /\ (u # t => pc'[u] = pc[u])
    BY <1>1, <1>2, Moves
  <1>4. Typed'
    <2>1. soc' \in Thread \cup {0} BY <1>1 DEF Typed
    <2> QED BY <1>1, <1>3, <2>1 DEF Typed
  <1>5. Sockets'
    <2>1. Bcast \notin user.macs => mac' # Bcast /\ \A s \in Thread : dest'[s] # Bcast BY <1>1 DEF Sockets
    <2>2. using'[t] = 0 /\ held'[t] = NoFrame BY <1>1 DEF Sockets
    <2> QED BY <1>1, <1>2, <1>3, <2>1, <2>2, SocketsStep
  <1>6. Heard' BY <1>1 DEF Heard
  <1>7. Alive(t) BY DEF Alive
  <1>8. ASSUME user.careful PROVE CarefulInv'
    <2>1. x = "ok" => Good(t)' BY <1>8 DEF Good
    <2> QED BY <1>2, <1>3, <1>7, <1>8, <2>1, CarefulStep
  <1>9. ~user.careful => HastyInv' BY <1>3, HastyStep
  <1>10. Busy' => Writing'
    BY <1>3, WritingKept
  <1> QED BY <1>4, <1>5, <1>6, <1>8, <1>9, <1>10, Whole1

\* The new socket becomes the current one, or the old one stays.
LEMMA MakeSocketKeeps ==
  ASSUME Core, NEW t \in Thread, MakeSocket(t)
  PROVE  Core'
  <1>1. /\ pc[t] = "dest" /\ txt_status' = txt_status
        /\ UNCHANGED <<user, mac, writes, using, held, dest, queue, late, attn, buffer, stored, chunk>>
    BY DEF MakeSocket, form, sockets, boards
  <1>2. CASE soc' = t /\ Become(t, "made") BY <1>1, <1>2, PlainStep
  <1>3. CASE Become(t, "done") /\ UNCHANGED soc
    <2>1. user.careful /\ txt_status' = "Connected" /\ soc' # 0 => Good(soc)' BY <1>1, <1>3, CarefulThread DEF Good
    <2> QED BY <1>1, <1>3, <2>1, PlainStep
  <1> QED BY <1>2, <1>3 DEF MakeSocket

\* The poll starts.
LEMMA PollingKeeps ==
  ASSUME Core, NEW t \in Thread, Polling(t)
  PROVE  Core'
  <1>1. /\ pc[t] = "made" /\ soc' = soc /\ txt_status' = "Polling" /\ Become(t, "loop")
        /\ UNCHANGED <<user, mac, writes, using, held, dest, queue, late, attn, buffer, stored, chunk>>
    BY DEF Polling, form, sockets, boards
  <1> QED BY <1>1, CarefulThread, PlainStep

\* The poll has found its board.
LEMMA ConnectedKeeps ==
  ASSUME Core, NEW t \in Thread, Connected(t)
  PROVE  Core'
  <1>1. /\ pc[t] = "ok" /\ soc' = soc /\ Become(t, "done")
        /\ UNCHANGED <<user, mac, writes, using, held, dest, queue, late, attn, buffer, stored, chunk>>
    BY DEF Connected, form, sockets, boards
  <1>2. user.careful => Good(soc)' BY <1>1, CarefulThread DEF Good
  <1> QED BY <1>1, <1>2, PlainStep

\* The poll is told to end.
LEMMA StopsPollingKeeps ==
  ASSUME Core, NEW t \in Thread, StopsPolling(t)
  PROVE  Core'
  <1>1. /\ pc[t] = "loop" /\ soc' = soc /\ txt_status' = "Disconnected" /\ Become(t, "ending")
        /\ UNCHANGED <<user, mac, writes, using, held, dest, queue, late, attn, buffer, stored, chunk>>
    BY DEF StopsPolling, form, sockets, boards
  <1> QED BY <1>1, PlainStep

\* And takes the current socket away.
LEMMA DropsSocketKeeps ==
  ASSUME Core, NEW t \in Thread, DropsSocket(t)
  PROVE  Core'
  <1>1. /\ pc[t] = "ending" /\ soc' = 0 /\ Become(t, "done")
        /\ UNCHANGED <<user, mac, writes, using, held, dest, queue, late, attn, buffer, stored, chunk>>
    BY DEF DropsSocket, form, sockets, boards
  <1> QED BY <1>1, PlainStep

\* An attention frame, on whatever socket is the current one.
LEMMA SendAttnKeeps ==
  ASSUME Core, NEW t \in Thread, SendAttn(t)
  PROVE  Core'
  <1>1. CASE Become(t, "done") /\ UNCHANGED <<using, attn, late>>
    <2>1. /\ pc[t] = "loop" /\ soc' = soc /\ txt_status' = txt_status
          /\ UNCHANGED <<user, mac, writes, using, held, dest, queue, late, attn, buffer, stored, chunk>>
      BY <1>1 DEF SendAttn, form
    <2>2. user.careful => txt_status # "Connected" BY <2>1, CarefulThread
    <2> QED BY <1>1, <2>1, <2>2, PlainStep
  <1>2. CASE ~(Become(t, "done") /\ UNCHANGED <<using, attn, late>>)
    <2>1. /\ pc[t] = "loop" /\ soc # 0 /\ Become(t, "attn")
          /\ using' = [using EXCEPT ![t] = soc]
          /\ UNCHANGED <<user, mac, writes, soc, txt_status, held, dest, queue, buffer, stored, chunk>>
      BY <1>2 DEF SendAttn, form
    <2>2. PICK heard \in SUBSET To(dest[soc]) : \E answers \in SUBSET heard :
             /\ attn' = [b \in Board |-> attn[b] \/ b \in heard]
             /\ late' = late \cup {Frame(b, "attn", "") : b \in answers}
      BY <1>2 DEF SendAttn
    <2>3. PICK answers \in SUBSET heard :
             /\ attn' = [b \in Board |-> attn[b] \/ b \in heard]
             /\ late' = late \cup {Frame(b, "attn", "") : b \in answers}
      BY <2>2
    <2>4. Typed /\ Sockets /\ Heard BY DEF Core
    <2>5. "attn" \in ThreadPc BY DEF ThreadPc
    <2>6. /\ pc' \in [Worker -> ThreadPc \cup GuiPc] /\ Goes(t, "attn") /\ pc'[Gui] = pc[Gui]
          /\ \A u \in Thread : pc'[u] \in ThreadPc /\ (u # t => pc'[u] = pc[u])
      BY <2>1, <2>4, <2>5, Moves
    <2>7. heard \subseteq Board BY DEF To
    <2>8. /\ attn' \in [Board -> BOOLEAN] /\ \A b \in Board : attn[b] => attn'[b]
          /\ \A b \in answers : b \in Board /\ attn'[b]
      BY <2>3, <2>4, <2>7 DEF Typed
    <2>8a. \A b \in answers : Frame(b, "attn", "") \in AnyFrame /\ Frame(b, "attn", "").src = b
      BY <2>8 DEF Frame, AnyFrame
    <2>8b. late' \subseteq AnyFrame BY <2>3, <2>4, <2>8a DEF Typed
    <2>9. /\ using' \in [Worker -> Thread \cup {0}] /\ using'[t] = soc
          /\ \A w \in Worker : w # t => using'[w] = using[w]
          /\ using'[Gui] = using[Gui]
      BY <2>1, <2>4, Addresses DEF Typed
    <2>10. Typed' BY <2>1, <2>4, <2>6, <2>8, <2>9, <2>8b DEF Typed
    <2>11. Sockets'
      <3>1. Bcast \notin user.macs => mac' # Bcast /\ \A s \in Thread : dest'[s] # Bcast BY <2>1, <2>4 DEF Sockets
      <3>2. held'[t] = NoFrame BY <2>1, <2>4 DEF Sockets
      <3> QED BY <2>1, <2>4, <2>5, <2>6, <2>9, <3>1, <3>2, SocketsStep
    <2>12. Heard'
      <3>1. \A f \in late' : attn'[f.src]
        <4>1. \A f \in late : f.src \in Board /\ attn[f.src] BY <2>4 DEF Heard, Typed, AnyFrame
        <4>2. \A f \in late' : f \in late \/ \E b \in answers : f = Frame(b, "attn", "") BY <2>3
        <4>3. \A b \in answers : attn'[Frame(b, "attn", "").src] BY <2>8, <2>8a
        <4> QED BY <2>8, <4>1, <4>2, <4>3
      <3>2. \A s \in Thread : \A i \in DOMAIN queue'[s] : attn'[queue'[s][i].src]
        <4>1. \A s \in Thread : \A i \in DOMAIN queue[s] : queue[s][i] \in AnyFrame BY <2>4 DEF Typed
        <4>2. \A f \in AnyFrame : f.src \in Board BY DEF AnyFrame
        <4> QED BY <2>1, <2>4, <2>8, <4>1, <4>2 DEF Heard
      <3>3. \A u \in Thread : held'[u] # NoFrame => attn'[held'[u].src]
        <4>1. \A u \in Thread : held[u] # NoFrame => held[u].src \in Board
          BY <2>4, Addresses DEF Typed, AnyFrame
        <4> QED BY <2>1, <2>4, <2>8, <4>1 DEF Heard
      <3> QED BY <3>1, <3>2, <3>3 DEF Heard
    <2>13. Alive(t) BY <2>1 DEF Alive
    <2>14. ASSUME user.careful PROVE CarefulInv'
      <3>1. soc = t /\ txt_status # "Connected" BY <2>1, <2>14, CarefulThread
      <3> QED BY <2>1, <2>5, <2>6, <2>9, <2>13, <2>14, <3>1, CarefulStep
    <2>15. ~user.careful => HastyInv' BY <2>1, <2>6, HastyStep
    <2>16. Busy' => Writing'
      BY <2>1, <2>6, <2>9, WritingKept
    <2> QED BY <2>1, <2>10, <2>11, <2>12, <2>14, <2>15, <2>16, Whole1
  <1> QED BY <1>1, <1>2

-----------------------------------------------------------------------------
(* A poll thread receives *)

\* The queue after a frame was taken, or not.
OrTail(p, q) == p = q \/ (q # <<>> /\ p = Tail(q))

\* Taking a frame adds none.
LEMMA OrTailHeard ==
  ASSUME NEW q \in Seq(AnyFrame), NEW p, OrTail(p, q)
  PROVE  p \in Seq(AnyFrame) /\ \A i \in DOMAIN p : \E j \in DOMAIN q : p[i] = q[j]
  BY Taken DEF OrTail

\* A thread takes a frame, looks at one, or gives up.
LEMMA ThreadTakes ==
  ASSUME Core, Cautious, NEW t \in Thread, pc[t] = "attn", NEW x \in {"attn", "loop", "ok"}, Become(t, x),
         using' = IF x = "attn" THEN using ELSE [using EXCEPT ![t] = 0],
         UNCHANGED <<user, mac, writes, soc, txt_status, late, attn, buffer, stored, chunk>>,
         NEW h \in AnyFrame \cup {NoFrame}, held' = [held EXCEPT ![t] = h],
         h # NoFrame => x = "attn" /\ attn[h.src] /\ Bcast \in user.macs,
         dest' \in [Thread -> Mac], \A s \in Thread : s # using[t] => dest'[s] = dest[s],
         Bcast \notin user.macs => dest' = dest,
         DOMAIN queue' = Thread, queue' = [s \in Thread |-> queue'[s]],
         \A s \in Thread : OrTail(queue'[s], queue[s]),
         x = "ok" /\ user.careful => Good(t)'
  PROVE  Core'
  <1>1. Typed /\ Sockets /\ Heard BY DEF Core
  <1>2. x \in ThreadPc BY DEF ThreadPc
  <1>3. /\ pc' \in [Worker -> ThreadPc \cup GuiPc] /\ Goes(t, x) /\ pc'[Gui] = pc[Gui]
        /\ \A u \in Thread : pc'[u] \in ThreadPc /\ (u # t => pc'[u] = pc[u])
    BY <1>1, <1>2, Moves
  <1>4. /\ using' \in [Worker -> Thread \cup {0}] /\ using'[Gui] = using[Gui]
        /\ \A w \in Worker : w # t => using'[w] = using[w]
        /\ using'[t] = IF x = "attn" THEN using[t] ELSE 0
    BY <1>1, Addresses DEF Typed
  <1>5. /\ held' \in [Worker -> AnyFrame \cup {NoFrame}] /\ held'[t] = h
        /\ \A w \in Worker : w # t => held'[w] = held[w]
    BY <1>1, Addresses DEF Typed
  <1>6. \A s \in Thread : queue[s] \in Seq(AnyFrame) BY <1>1 DEF Typed
  <1>7. queue' \in [Thread -> Seq(AnyFrame)]
    <2>1. \A s \in Thread : queue'[s] \in Seq(AnyFrame) BY <1>6, OrTailHeard
    <2> QED BY <2>1
  <1>8. Typed' BY <1>1, <1>3, <1>4, <1>5, <1>7 DEF Typed
  <1>9. Sockets'
    <2>1. Bcast \notin user.macs => mac' # Bcast /\ \A s \in Thread : dest'[s] # Bcast BY <1>1 DEF Sockets
    <2>2. using'[t] # 0 <=> x = "attn" BY <1>1, <1>4 DEF Sockets
    <2>3. held'[t] # NoFrame => x = "attn" /\ Bcast \in user.macs BY <1>5
    <2>4. using'[t] \in {0, using[t], soc} BY <1>4
    <2> QED BY <1>1, <1>2, <1>3, <1>4, <1>5, <2>1, <2>2, <2>3, <2>4, SocketsStep
  <1>10. Heard'
    <2>1. ASSUME NEW s \in Thread, NEW i \in DOMAIN queue'[s] PROVE attn'[queue'[s][i].src]
      <3>1. PICK j \in DOMAIN queue[s] : queue'[s][i] = queue[s][j] BY <1>6, <2>1, OrTailHeard
      <3> QED BY <1>1, <3>1 DEF Heard
    <2>2. \A u \in Thread : held'[u] # NoFrame => attn'[held'[u].src]
      BY <1>1, <1>5, Addresses DEF Heard
    <2>3. \A f \in late' : attn'[f.src] BY <1>1 DEF Heard
    <2> QED BY <2>1, <2>2, <2>3 DEF Heard
  <1>11. Alive(t) BY DEF Alive
  <1>13. ASSUME user.careful PROVE CarefulInv'
    <2>2. soc = t /\ using[t] = t /\ txt_status # "Connected" BY <1>13, CarefulThread
    <2>3. x = "attn" => using'[t] = t BY <1>4, <2>2
    <2> QED BY <1>2, <1>3, <1>4, <1>11, <1>13, <2>2, <2>3, CarefulStep
  <1>14. ~user.careful => HastyInv' BY <1>3, HastyStep
  <1>15. Busy' => Writing'
    <2>1. Busy => using[Gui] \in Thread BY <1>1, Addresses DEF Sockets, Typed
    <2>2. Busy => dest'[using[Gui]] = dest[using[Gui]]
      <3>1. CASE user.careful BY <1>11, <3>1, Alone
      <3>2. CASE ~user.careful BY <3>2 DEF Cautious
      <3> QED BY <3>1, <3>2
    <2> QED BY <1>3, <1>4, <2>1, <2>2, WritingKept
  <1> QED BY <1>8, <1>9, <1>10, <1>13, <1>14, <1>15, Whole1

\* What a thread does with an answer, or none.
LEMMA ThreadReturns ==
  ASSUME Typed, NEW t \in Thread, pc[t] = "attn", NEW f, Returns(t, f)
  PROVE  /\ Become(t, IF f = NoFrame THEN "loop" ELSE "ok")
         /\ using' = [using EXCEPT ![t] = 0]
         /\ UNCHANGED <<txt_status, chunk>>
  BY DEF Returns

\* A thread stays, or goes to "ok" on an answer of its peer.
LEMMA ThreadLooks ==
  ASSUME Typed, NEW t \in Thread, pc[t] = "attn", NEW f \in AnyFrame, NEW d, Looked(t, f, d)
  PROVE  \E x \in {"attn", "ok"} :
           /\ Become(t, x) /\ UNCHANGED <<txt_status, chunk>>
           /\ using' = IF x = "attn" THEN using ELSE [using EXCEPT ![t] = 0]
           /\ x = "ok" => f.src = d
  <1>1. f # NoFrame
    <2>1. f.type # "none" /\ NoFrame.type = "none" BY DEF AnyFrame, NoFrame
    <2> QED BY <2>1
  <1>2. CASE Accepted(f, d, pc[t])
    <2>1. Returns(t, f) BY <1>2 DEF Looked
    <2>2. Become(t, "ok") /\ using' = [using EXCEPT ![t] = 0] /\ UNCHANGED <<txt_status, chunk>>
      BY <1>1, <2>1, ThreadReturns
    <2>3. f.src = d BY <1>2 DEF Accepted
    <2> QED BY <2>2, <2>3
  <1>3. CASE ~Accepted(f, d, pc[t])
    <2>1. UNCHANGED <<pc, using, txt_status, chunk>> BY <1>3 DEF Looked
    <2>2. Become(t, "attn") BY <2>1, Addresses DEF Become, Typed
    <2> QED BY <2>1, <2>2
  <1> QED BY <1>2, <1>3

\* A thread that waits has a socket, and the frames on it are answers.
LEMMA ThreadWaits ==
  ASSUME Core, NEW t \in Thread, pc[t] = "attn"
  PROVE  /\ using[t] \in Thread /\ queue[using[t]] \in Seq(AnyFrame)
         /\ queue[using[t]] # <<>> =>
              LET f == Head(queue[using[t]]) IN f \in AnyFrame /\ f.src \in Board /\ attn[f.src]
  <1>1. Typed /\ Sockets /\ Heard BY DEF Core
  <1>2. using[t] \in Thread BY <1>1, Addresses DEF Typed, Sockets
  <1>3. queue[using[t]] \in Seq(AnyFrame) BY <1>1, <1>2 DEF Typed
  <1>4. ASSUME queue[using[t]] # <<>>
        PROVE  LET f == Head(queue[using[t]]) IN f \in AnyFrame /\ f.src \in Board /\ attn[f.src]
    <2>1. 1 \in DOMAIN queue[using[t]] /\ Head(queue[using[t]]) = queue[using[t]][1]
          /\ Head(queue[using[t]]) \in AnyFrame
      BY <1>3, <1>4, Taken
    <2>2. Head(queue[using[t]]).src \in Board BY <2>1 DEF AnyFrame
    <2> QED BY <1>1, <1>2, <2>1, <2>2 DEF Heard
  <1> QED BY <1>2, <1>3, <1>4

\* A thread takes a frame.
LEMMA ThreadReceiveKeeps ==
  ASSUME Core, Cautious, NEW t \in Thread, Receive(t)
  PROVE  Core'
  <1>1. Typed /\ Sockets /\ Heard BY DEF Core
  <1>2. pc[t] = "attn"
    <2>1. pc[t] \in ThreadPc /\ pc[t] \in {"attn", "digest", "write"} BY <1>1 DEF Typed, Receive, Waits
    <2> QED BY <2>1 DEF ThreadPc
  <1> DEFINE s == using[t]
             f == Head(queue[s])
  <1>3. /\ queue[s] # <<>> /\ queue' = [queue EXCEPT ![s] = Tail(@)] /\ held[t] = NoFrame
        /\ UNCHANGED <<user, mac, writes, soc, dest, late, attn, buffer, stored>>
        /\ \/ /\ dest[s] = Bcast
              /\ held' = [held EXCEPT ![t] = f]
              /\ UNCHANGED <<pc, using, txt_status, chunk>>
           \/ Looked(t, f, dest[s]) /\ UNCHANGED held
    BY DEF Receive, form, boards
  <1>4. s \in Thread /\ queue[s] \in Seq(AnyFrame) /\ f \in AnyFrame /\ f.src \in Board /\ attn[f.src]
    BY <1>2, <1>3, ThreadWaits
  <1> HIDE DEF f, s
  <1>5. /\ DOMAIN queue' = Thread /\ queue' = [u \in Thread |-> queue'[u]]
        /\ \A u \in Thread : OrTail(queue'[u], queue[u])
    BY <1>1, <1>3, <1>4 DEF Typed, OrTail
  <1>6. dest' \in [Thread -> Mac] BY <1>1, <1>3 DEF Typed
  <1>7. CASE /\ dest[s] = Bcast
             /\ held' = [held EXCEPT ![t] = f]
             /\ UNCHANGED <<pc, using, txt_status, chunk>>
    <2>1. Become(t, "attn") BY <1>1, <1>2, <1>7, Addresses DEF Become, Typed
    <2>2. Bcast \in user.macs BY <1>1, <1>4, <1>7 DEF Sockets
    <2>3. f \in AnyFrame \cup {NoFrame} BY <1>4
    <2>4. using' = IF "attn" = "attn" THEN using ELSE [using EXCEPT ![t] = 0] BY <1>7
    <2> QED BY <1>2, <1>3, <1>4, <1>5, <1>6, <1>7, <2>1, <2>2, <2>3, <2>4, ThreadTakes
  <1>8. CASE Looked(t, f, dest[s]) /\ UNCHANGED held
    <2>1. PICK x \in {"attn", "ok"} :
           /\ Become(t, x) /\ UNCHANGED <<txt_status, chunk>>
           /\ using' = IF x = "attn" THEN using ELSE [using EXCEPT ![t] = 0]
           /\ x = "ok" => f.src = dest[s]
      BY <1>1, <1>2, <1>4, <1>8, ThreadLooks
    <2>2. held' = [held EXCEPT ![t] = NoFrame] BY <1>1, <1>3, <1>8, Addresses DEF Typed
    <2>3. ASSUME x = "ok", user.careful PROVE Good(t)'
      <3>1. s = t BY <1>2, <2>3, CarefulThread DEF s
      <3> QED BY <1>3, <1>4, <2>1, <2>3, <3>1 DEF Good
    <2>4. x \in {"attn", "loop", "ok"} /\ NoFrame \in AnyFrame \cup {NoFrame} OBVIOUS
    <2>5. x = "ok" /\ user.careful => Good(t)' BY <2>3
    <2>6. Bcast \notin user.macs => dest' = dest BY <1>3
    <2>7. CASE x = "attn"
      <3>1. Become(t, "attn") /\ using' = IF "attn" = "attn" THEN using ELSE [using EXCEPT ![t] = 0]
        BY <2>1, <2>7
      <3> QED BY <1>2, <1>3, <1>5, <1>6, <2>1, <2>2, <2>4, <2>6, <3>1, ThreadTakes
    <2>8. CASE x = "ok"
      <3>1. Become(t, "ok") /\ using' = IF "ok" = "attn" THEN using ELSE [using EXCEPT ![t] = 0]
        BY <2>1, <2>8
      <3>2. user.careful => Good(t)' BY <2>5, <2>8
      <3> QED BY <1>2, <1>3, <1>5, <1>6, <2>1, <2>2, <2>4, <2>6, <3>1, <3>2, ThreadTakes
    <2> QED BY <2>1, <2>7, <2>8
  <1> QED BY <1>3, <1>7, <1>8

\* A thread sets the peer of its socket: only with a broadcast address, so
\* that its user is careful and no write is under way.
LEMMA ThreadBindKeeps ==
  ASSUME Core, Cautious, NEW t \in Thread, Bind(t)
  PROVE  Core'
  <1>1. Typed /\ Sockets /\ Heard BY DEF Core
  <1> DEFINE s == using[t]
             f == held[t]
  <1>2. /\ f # NoFrame /\ dest' = [dest EXCEPT ![s] = f.src] /\ held' = [held EXCEPT ![t] = NoFrame]
        /\ Looked(t, f, f.src)
        /\ UNCHANGED <<user, mac, writes, soc, queue, late, attn, buffer, stored>>
    BY DEF Bind, form, boards
  <1>3. pc[t] = "attn" /\ Bcast \in user.macs BY <1>1, <1>2 DEF Sockets
  <1>4. s \in Thread BY <1>3, ThreadWaits
  <1>5. f \in AnyFrame /\ f.src \in Board /\ attn[f.src]
    <2>1. f \in AnyFrame BY <1>1, <1>2, Addresses DEF Typed
    <2> QED BY <1>1, <1>2, <2>1 DEF AnyFrame, Heard
  <1> HIDE DEF f, s
  <1>6. /\ DOMAIN queue' = Thread /\ queue' = [u \in Thread |-> queue'[u]]
        /\ \A u \in Thread : OrTail(queue'[u], queue[u])
    BY <1>1, <1>2 DEF Typed, OrTail
  <1>7. dest' \in [Thread -> Mac] /\ dest'[s] = f.src /\ \A u \in Thread : u # s => dest'[u] = dest[u]
    BY <1>1, <1>2, <1>4, <1>5 DEF Typed, Mac
  <1>8. PICK x \in {"attn", "ok"} :
           /\ Become(t, x) /\ UNCHANGED <<txt_status, chunk>>
           /\ using' = IF x = "attn" THEN using ELSE [using EXCEPT ![t] = 0]
    BY <1>1, <1>2, <1>3, <1>5, ThreadLooks
  <1>9. ASSUME x = "ok", user.careful PROVE Good(t)'
    <2>1. s = t BY <1>3, <1>9, CarefulThread DEF s
    <2> QED BY <1>2, <1>5, <1>7, <2>1 DEF Good
  <1>10. x \in {"attn", "loop", "ok"} /\ NoFrame \in AnyFrame \cup {NoFrame} OBVIOUS
  <1>11. \A u \in Thread : u # using[t] => dest'[u] = dest[u] BY <1>7 DEF s
  <1>12. x = "ok" /\ user.careful => Good(t)' BY <1>9
  <1>13. CASE x = "attn"
    <2>1. Become(t, "attn") /\ using' = IF "attn" = "attn" THEN using ELSE [using EXCEPT ![t] = 0]
      BY <1>8, <1>13
    <2> QED BY <1>2, <1>3, <1>6, <1>7, <1>8, <1>10, <1>11, <2>1, ThreadTakes
  <1>14. CASE x = "ok"
    <2>1. Become(t, "ok") /\ using' = IF "ok" = "attn" THEN using ELSE [using EXCEPT ![t] = 0]
      BY <1>8, <1>14
    <2>2. user.careful => Good(t)' BY <1>12, <1>14
    <2> QED BY <1>2, <1>3, <1>6, <1>7, <1>8, <1>10, <1>11, <2>1, <2>2, ThreadTakes
  <1> QED BY <1>8, <1>13, <1>14

\* A thread has waited long enough.
LEMMA ThreadGivesUpKeeps ==
  ASSUME Core, Cautious, NEW t \in Thread, GiveUp(t)
  PROVE  Core'
  <1>1. Typed /\ Sockets /\ Heard BY DEF Core
  <1>2. pc[t] = "attn"
    <2>1. pc[t] \in ThreadPc /\ pc[t] \in {"attn", "digest", "write"} BY <1>1 DEF Typed, GiveUp, Waits
    <2> QED BY <2>1 DEF ThreadPc
  <1>3. /\ held[t] = NoFrame /\ Returns(t, NoFrame)
        /\ UNCHANGED <<user, mac, writes, soc, held, dest, queue, late, attn, buffer, stored>>
    BY DEF GiveUp, form
  <1>4. Become(t, "loop") /\ using' = [using EXCEPT ![t] = 0] /\ UNCHANGED <<txt_status, chunk>>
    BY <1>1, <1>2, <1>3, ThreadReturns
  <1>5. /\ DOMAIN queue' = Thread /\ queue' = [u \in Thread |-> queue'[u]]
        /\ \A u \in Thread : OrTail(queue'[u], queue[u])
    BY <1>1, <1>3 DEF Typed, OrTail
  <1>6. dest' \in [Thread -> Mac] BY <1>1, <1>3 DEF Typed
  <1>7. held' = [held EXCEPT ![t] = NoFrame] BY <1>1, <1>3, Addresses DEF Typed
  <1>8. using' = IF "loop" = "attn" THEN using ELSE [using EXCEPT ![t] = 0] BY <1>4
  <1> QED BY <1>2, <1>3, <1>4, <1>5, <1>6, <1>7, <1>8, ThreadTakes

-----------------------------------------------------------------------------
(* Frames arrive *)

\* A frame is added to the queues of open sockets.
LEMMA DeliveredOne ==
  ASSUME Typed, NEW f \in AnyFrame, queue' = Delivered(f)
  PROVE  /\ queue' \in [Thread -> Seq(AnyFrame)]
         /\ \A s \in Thread : queue'[s] = queue[s] \/ (OpenSocket(s) /\ queue'[s] = Append(queue[s], f))
  <1>1. \A s \in Thread : queue[s] \in Seq(AnyFrame) BY DEF Typed
  <1>2. ASSUME NEW s \in Thread PROVE Append(queue[s], f) \in Seq(AnyFrame)
    <2>1. queue[s] \in Seq(AnyFrame) BY <1>1
    <2> QED BY <2>1, Added
  <1>3. \A s \in Thread : queue'[s] = queue[s] \/ (OpenSocket(s) /\ queue'[s] = Append(queue[s], f))
    BY DEF Delivered
  <1>4. \A s \in Thread : queue'[s] \in Seq(AnyFrame) BY <1>1, <1>2, <1>3
  <1>5. queue' = [s \in Thread |-> queue'[s]] BY DEF Delivered
  <1> QED BY <1>3, <1>4, <1>5

\* All frames are from boards at attention if the new one is.
LEMMA DeliveredHeard ==
  ASSUME Typed, Heard, NEW f \in AnyFrame, attn'[f.src], \A b \in Board : attn[b] => attn'[b],
         \A s \in Thread : queue'[s] = queue[s] \/ queue'[s] = Append(queue[s], f)
  PROVE  \A s \in Thread : \A i \in DOMAIN queue'[s] : attn'[queue'[s][i].src]
  <1> SUFFICES ASSUME NEW s \in Thread, NEW i \in DOMAIN queue'[s]
               PROVE  attn'[queue'[s][i].src]
    OBVIOUS
  <1>1. queue[s] \in Seq(AnyFrame) BY DEF Typed
  <1>2. \A j \in DOMAIN queue[s] : queue[s][j].src \in Board
    <2>1. \A j \in DOMAIN queue[s] : queue[s][j] \in AnyFrame BY <1>1
    <2> QED BY <2>1 DEF AnyFrame
  <1>3. (\E j \in DOMAIN queue[s] : queue'[s][i] = queue[s][j]) \/ queue'[s][i] = f
    <2>1. CASE queue'[s] = queue[s] BY <2>1
    <2>2. CASE queue'[s] = Append(queue[s], f) BY <1>1, <2>2, Added
    <2> QED BY <2>1, <2>2
  <1> QED BY <1>2, <1>3 DEF Heard

\* An answer arrives, on whatever sockets are open.
LEMMA AnswerArrivesKeeps ==
  ASSUME Core, NEW f \in late, AnswerArrives(f)
  PROVE  Core'
  <1>1. /\ late' = late \ {f} /\ queue' = Delivered(f)
        /\ UNCHANGED <<user, mac, writes, soc, txt_status, pc, using, held, dest, attn, buffer, stored, chunk>>
    BY DEF AnswerArrives, form
  <1>2. Typed /\ Sockets /\ Heard BY DEF Core
  <1>3. f \in AnyFrame BY <1>2 DEF Typed
  <1>4. queue' \in [Thread -> Seq(AnyFrame)]
        /\ \A s \in Thread : queue'[s] = queue[s] \/ queue'[s] = Append(queue[s], f)
    BY <1>1, <1>2, <1>3, DeliveredOne
  <1>5. Typed' BY <1>1, <1>2, <1>4 DEF Typed
  <1>6. Sockets' BY <1>1, <1>2 DEF Sockets, Busy
  <1>7. Heard'
    <2>1. attn'[f.src] BY <1>1, <1>2 DEF Heard
    <2>2. \A s \in Thread : \A i \in DOMAIN queue'[s] : attn'[queue'[s][i].src]
      BY <1>1, <1>2, <1>3, <1>4, <2>1, DeliveredHeard
    <2> QED BY <1>1, <1>2, <2>2 DEF Heard
  <1>8. ASSUME user.careful PROVE CarefulInv'
    <2>1. CarefulInv BY <1>8 DEF Core
    <2> QED BY <1>1, <2>1 DEF CarefulInv, Busy, Polls, Alive, Good, Resting
  <1>9. ~user.careful => HastyInv' BY <1>1, HastyStep
  <1>10. Busy' => Writing' BY <1>1, WritingKept
  <1> QED BY <1>1, <1>5, <1>6, <1>7, <1>8, <1>9, <1>10, Whole1

-----------------------------------------------------------------------------
(* The window *)

\* The window goes to x, and no thread goes anywhere.
LEMMA GuiMoves ==
  ASSUME Typed, NEW x \in GuiPc, pc' = [pc EXCEPT ![Gui] = x]
  PROVE  /\ pc' \in [Worker -> ThreadPc \cup GuiPc] /\ pc'[Gui] = x
         /\ \A t \in Thread : pc'[t] = pc[t] /\ pc'[t] \in ThreadPc
  BY Addresses DEF Typed

\* What a step of the window keeps of the sockets.
LEMMA GuiSockets ==
  ASSUME Typed, Sockets, \A t \in Thread : pc'[t] = pc[t] /\ using'[t] = using[t],
         using'[Gui] \in {0, using[Gui], soc}, using'[Gui] # 0 <=> Busy',
         UNCHANGED <<user, soc, held, dest>>, Bcast \notin user.macs => mac' # Bcast
  PROVE  Sockets'
  <1>1. soc \in Thread \cup {0} /\ \A w \in Worker : using[w] \in Thread \cup {0} BY DEF Typed
  <1>2. soc' # 0 => pc'[soc'] \notin {"unused", "new", "dest"} BY <1>1 DEF Sockets
  <1>3. ASSUME NEW w \in Worker, using'[w] # 0 PROVE pc'[using'[w]] \notin {"unused", "new", "dest"}
    <2>1. using'[w] \in {using[w], soc} BY <1>3 DEF Worker
    <2>2. using'[w] \in Thread BY <1>1, <1>3, <2>1
    <2>3. pc[using'[w]] \notin {"unused", "new", "dest"} BY <1>3, <2>1 DEF Sockets
    <2> QED BY <2>2, <2>3
  <1>4. \A t \in Thread : using'[t] # 0 <=> pc'[t] = "attn" BY DEF Sockets
  <1>5. \A t \in Thread : held'[t] # NoFrame => pc'[t] = "attn" /\ Bcast \in user.macs BY DEF Sockets
  <1>6. held'[Gui] = NoFrame /\ (Bcast \notin user.macs => \A s \in Thread : dest'[s] # Bcast) BY DEF Sockets
  <1> QED BY <1>2, <1>3, <1>4, <1>5, <1>6 DEF Sockets

\* And of a careful user's work.
LEMMA GuiCareful ==
  ASSUME Core, user.careful, \A t \in Thread : pc'[t] = pc[t] /\ using'[t] = using[t],
         UNCHANGED <<soc, dest, attn>>,
         txt_status' = txt_status \/ txt_status' # "Connected",
         Busy' => ~Polls /\ soc = using'[Gui] /\ Good(soc)
  PROVE  CarefulInv'
  <1>1. CarefulInv BY DEF Core
  <1>2. /\ Polls' <=> Polls
        /\ Resting' <=> Resting
        /\ \A t \in Thread : Alive(t)' <=> Alive(t)
        /\ \A s : Good(s)' <=> Good(s)
    BY DEF Polls, Alive, Good, Resting
  <1>3. \A t, u \in Thread : Alive(t)' /\ Alive(u)' => t = u BY <1>1, <1>2 DEF CarefulInv
  <1>4. /\ Busy' => ~Polls' /\ soc' = using'[Gui] /\ Good(soc)'
        /\ txt_status' = "Connected" /\ soc' # 0 /\ Resting' => Good(soc)'
    BY <1>1, <1>2 DEF CarefulInv, Good
  <1>5. \A t \in Thread : pc'[t] = "ok" => Good(t)' BY <1>1, <1>2 DEF CarefulInv
  <1>6. \A t \in Thread : /\ pc'[t] \in {"made", "loop", "attn", "ok"} => soc' = t
                          /\ pc'[t] = "attn" => using'[t] = t
                          /\ pc'[t] \in {"loop", "attn", "ok", "ending"} => txt_status' # "Connected"
    BY <1>1 DEF CarefulInv
  <1> QED BY <1>3, <1>4, <1>5, <1>6 DEF CarefulInv

\* A step of the window that has nothing to do with a write.
LEMMA IdleStep ==
  ASSUME Core, pc[Gui] \in {"idle", "check"}, NEW x \in {"idle", "check", "quit"}, pc' = [pc EXCEPT ![Gui] = x],
         UNCHANGED <<user, soc, using, held, dest, queue, late, attn, buffer, stored, chunk>>,
         mac' \in Mac, Bcast \notin user.macs => mac' # Bcast,
         writes' \in Nat, writes' >= writes,
         txt_status' = txt_status \/ txt_status' # "Connected"
  PROVE  Core'
  <1>1. Typed /\ Sockets /\ Heard BY DEF Core
  <1>2. x \in GuiPc /\ ~Busy BY DEF GuiPc, Busy, BusyPc
  <1>3. /\ pc' \in [Worker -> ThreadPc \cup GuiPc] /\ pc'[Gui] = x
        /\ \A t \in Thread : pc'[t] = pc[t] /\ pc'[t] \in ThreadPc
    BY <1>1, <1>2, GuiMoves
  <1>4. ~Busy' BY <1>3 DEF Busy, BusyPc
  <1>5. Typed' BY <1>1, <1>2, <1>3 DEF Typed
  <1>6. using[Gui] = 0 BY <1>1, <1>2 DEF Sockets
  <1>7. Sockets' BY <1>1, <1>3, <1>4, <1>6, GuiSockets
  <1>8. Heard' BY <1>1 DEF Heard
  <1>9. user.careful => CarefulInv' BY <1>3, <1>4, GuiCareful
  <1>10. HastyInv' BY <1>4 DEF HastyInv
  <1> QED BY <1>4, <1>5, <1>7, <1>8, <1>9, <1>10, Whole1

\* What the window is doing stays the same.
LEMMA GuiStays ==
  ASSUME Typed, pc[Gui] = "idle", pc' = pc
  PROVE  pc' = [pc EXCEPT ![Gui] = "idle"]
  BY Addresses DEF Typed

\* Editing the address affects later sockets only.
LEMMA EditMacKeeps ==
  ASSUME Core, NEW m \in Mac, EditMac(m)
  PROVE  Core'
  <1>1. /\ pc[Gui] = "idle" /\ mac' = m /\ m \in user.macs /\ pc' = pc /\ writes' = writes
        /\ UNCHANGED <<user, soc, txt_status, using, held, dest, queue, late, attn, buffer, stored, chunk>>
    BY DEF EditMac, sockets, boards
  <1>2. pc' = [pc EXCEPT ![Gui] = "idle"] BY <1>1, GuiStays DEF Core
  <1>3. writes' \in Nat /\ writes' >= writes BY <1>1 DEF Core, Typed
  <1> QED BY <1>1, <1>2, <1>3, IdleStep

\* The periodic check never says "Connected".
LEMMA OnCheckParamsValidKeeps ==
  ASSUME Core, OnCheckParamsValid
  PROVE  Core'
  <1>1. /\ pc[Gui] = "idle" /\ mac' = mac /\ pc' = [pc EXCEPT ![Gui] = "check"] /\ writes' = writes
        /\ txt_status' = txt_status \/ txt_status' # "Connected"
        /\ UNCHANGED <<user, soc, using, held, dest, queue, late, attn, buffer, stored, chunk>>
    BY DEF OnCheckParamsValid, sockets, boards, Become
  <1>2. writes' \in Nat /\ writes' >= writes /\ mac' \in Mac /\ (Bcast \notin user.macs => mac' # Bcast)
    BY <1>1 DEF Core, Typed, Sockets
  <1> QED BY <1>1, <1>2, IdleStep

\* Nor what comes after it.
LEMMA UpdateWriteButtonKeeps ==
  ASSUME Core, UpdateWriteButton
  PROVE  Core'
  <1>1. /\ pc[Gui] = "check" /\ mac' = mac /\ pc' = [pc EXCEPT ![Gui] = "idle"] /\ writes' = writes
        /\ txt_status' = txt_status
        /\ UNCHANGED <<user, soc, using, held, dest, queue, late, attn, buffer, stored, chunk>>
    BY DEF UpdateWriteButton, sockets, boards, Become
  <1>2. writes' \in Nat /\ writes' >= writes /\ mac' \in Mac /\ (Bcast \notin user.macs => mac' # Bcast)
    BY <1>1 DEF Core, Typed, Sockets
  <1> QED BY <1>1, <1>2, IdleStep

\* The window goes.
LEMMA DestroyKeeps ==
  ASSUME Core, destroy
  PROVE  Core'
  <1>1. /\ pc[Gui] = "idle" /\ pc' = [pc EXCEPT ![Gui] = "quit"] /\ mac' = mac /\ writes' = writes
        /\ txt_status' = txt_status
        /\ UNCHANGED <<user, soc, using, held, dest, queue, late, attn, buffer, stored, chunk>>
    BY DEF destroy, sockets, boards, Become
  <1>2. writes' \in Nat /\ writes' >= writes /\ mac' \in Mac /\ (Bcast \notin user.macs => mac' # Bcast)
    BY <1>1 DEF Core, Typed, Sockets
  <1> QED BY <1>1, <1>2, IdleStep

\* A careful user starts a thread when no other is left.
LEMMA ConnectKeeps ==
  ASSUME Core, NEW t \in Thread, Connect(t)
  PROVE  Core'
  <1>1. /\ pc[Gui] = "idle" /\ pc[t] = "unused" /\ (user.careful => ~Polls) /\ Become(t, "new")
        /\ UNCHANGED <<user, mac, writes, soc, txt_status, using, held, dest, queue, late, attn, buffer, stored, chunk>>
    BY DEF Connect, form, sockets, boards
  <1>2. Typed /\ Sockets /\ Heard BY DEF Core
  <1>3. "new" \in ThreadPc BY DEF ThreadPc
  <1>4. /\ pc' \in [Worker -> ThreadPc \cup GuiPc] /\ pc'[t] = "new" /\ pc'[Gui] = pc[Gui]
        /\ \A u \in Thread : pc'[u] \in ThreadPc /\ (u # t => pc'[u] = pc[u])
    BY <1>1, <1>2, <1>3, Moves DEF Goes
  <1>5. Typed' BY <1>1, <1>2, <1>4 DEF Typed
  <1>6. soc # t /\ \A w \in Worker : using[w] # t BY <1>1, <1>2, Addresses DEF Sockets
  <1>7. ~Busy /\ ~Busy' BY <1>1, <1>4 DEF Busy, BusyPc
  <1>8. Sockets'
    <2>1. soc \in Thread \cup {0} /\ \A w \in Worker : using[w] \in Thread \cup {0} BY <1>2 DEF Typed
    <2>2. soc' # 0 => pc'[soc'] \notin {"unused", "new", "dest"} BY <1>1, <1>2, <1>4, <1>6, <2>1 DEF Sockets
    <2>3. \A w \in Worker : using'[w] # 0 => pc'[using'[w]] \notin {"unused", "new", "dest"}
      BY <1>1, <1>2, <1>4, <1>6, <2>1 DEF Sockets
    <2>4. \A u \in Thread : /\ using'[u] # 0 <=> pc'[u] = "attn"
                            /\ held'[u] # NoFrame => pc'[u] = "attn" /\ Bcast \in user.macs
      BY <1>1, <1>2, <1>4 DEF Sockets
    <2> QED BY <1>1, <1>2, <1>7, <2>2, <2>3, <2>4 DEF Sockets
  <1>9. Heard' BY <1>1, <1>2 DEF Heard
  <1>10. ASSUME user.careful PROVE CarefulInv'
    <2>1. CarefulInv BY <1>10 DEF Core
    <2>2. \A u \in Thread : u # t => pc'[u] \in {"unused", "done"} BY <1>1, <1>4, <1>10 DEF Polls, Alive
    <2>3. \A u, v \in Thread : Alive(u)' /\ Alive(v)' => u = v BY <2>2 DEF Alive
    <2>4. Polls' BY <1>4 DEF Polls, Alive
    <2>5. \A u \in Thread : pc'[u] \in {"new", "unused", "done"} BY <1>4, <2>2
    <2>6. txt_status = "Connected" /\ soc # 0 => Good(soc)
      <3>1. Resting BY <1>1, <1>10 DEF Resting, Polls, Alive
      <3> QED BY <2>1, <3>1 DEF CarefulInv
    <2>7. txt_status' = "Connected" /\ soc' # 0 => Good(soc)' BY <1>1, <2>6 DEF Good
    <2> QED BY <1>7, <2>3, <2>4, <2>5, <2>7 DEF CarefulInv
  <1>11. ~user.careful => HastyInv' BY <1>1, <1>4, HastyStep
  <1> QED BY <1>1, <1>5, <1>7, <1>8, <1>9, <1>10, <1>11, Whole1

-----------------------------------------------------------------------------
(* A write *)

\* The socket of a write.
LEMMA Underway ==
  ASSUME Core, Busy
  PROVE  /\ Writing /\ using[Gui] \in Thread /\ queue[using[Gui]] \in Seq(AnyFrame)
         /\ Peer \in Mac /\ pc[Gui] \in BusyPc
         /\ ~user.careful => writes > 0
         /\ user.careful => /\ ~Polls /\ soc = using[Gui] /\ Good(soc)
                            /\ \A s \in Thread : OpenSocket(s) => s = using[Gui]
  <1>1. Typed /\ Sockets /\ Writing BY DEF Core
  <1>2. using[Gui] \in Thread BY <1>1, Addresses DEF Typed, Sockets
  <1>3. queue[using[Gui]] \in Seq(AnyFrame) /\ Peer \in Mac BY <1>1, <1>2 DEF Typed, Peer
  <1>4. ~user.careful => writes > 0 BY DEF Core, HastyInv
  <1>5. ASSUME user.careful
        PROVE  /\ ~Polls /\ soc = using[Gui] /\ Good(soc)
               /\ \A s \in Thread : OpenSocket(s) => s = using[Gui]
    <2>1. CarefulInv BY <1>5 DEF Core
    <2>2. ~Polls /\ soc = using[Gui] /\ Good(soc) BY <2>1 DEF CarefulInv
    <2>3. \A t \in Thread : using[t] = 0 BY <1>1, <2>2 DEF Sockets, Polls, Alive
    <2>4. \A s \in Thread : OpenSocket(s) => s = using[Gui]
      BY <2>2, <2>3, Addresses DEF OpenSocket, Worker
    <2> QED BY <2>2, <2>4
  <1> QED BY <1>1, <1>2, <1>3, <1>4, <1>5 DEF Busy

\* A write that goes on.
LEMMA GoesOn ==
  ASSUME Core, Busy, NEW x \in BusyPc, pc' = [pc EXCEPT ![Gui] = x],
         UNCHANGED <<user, mac, writes, soc, txt_status, using, held, dest, attn, chunk>>,
         late' \subseteq AnyFrame, \A f \in late' : attn[f.src],
         buffer' \in [Board -> Content], stored' \in [Board -> Content \cup {Old}],
         queue' \in [Thread -> Seq(AnyFrame)],
         \A s \in Thread : \A i \in DOMAIN queue'[s] : attn[queue'[s][i].src],
         Writing'
  PROVE  Core'
  <1>1. Typed /\ Sockets /\ Heard BY DEF Core
  <1>2. x \in GuiPc BY DEF GuiPc
  <1>3. /\ pc' \in [Worker -> ThreadPc \cup GuiPc] /\ pc'[Gui] = x
        /\ \A t \in Thread : pc'[t] = pc[t] /\ pc'[t] \in ThreadPc
    BY <1>1, <1>2, GuiMoves
  <1>4. Busy' BY <1>3 DEF Busy
  <1>5. Typed' BY <1>1, <1>2, <1>3 DEF Typed
  <1>6. using[Gui] # 0 BY <1>1 DEF Sockets
  <1>7. Sockets'
    <2>1. Bcast \notin user.macs => mac' # Bcast BY <1>1 DEF Sockets
    <2> QED BY <1>1, <1>3, <1>4, <1>6, <2>1, GuiSockets
  <1>8. Heard' BY <1>1 DEF Heard
  <1>9. ASSUME user.careful PROVE CarefulInv' BY <1>3, <1>9, Underway, GuiCareful
  <1>10. ASSUME ~user.careful PROVE HastyInv'
    <2>1. writes' > 0 /\ writes' \in Nat BY <1>1, <1>10, Underway DEF Typed
    <2> QED BY <2>1 DEF HastyInv
  <1> QED BY <1>5, <1>7, <1>8, <1>9, <1>10, Whole1

\* A write that ends.
LEMMA EndsWrite ==
  ASSUME Core, Busy, NEW status, WriteEnds(status), status = txt_status \/ status # "Connected",
         UNCHANGED <<user, mac, writes, soc, held, dest, late, attn, buffer, stored>>,
         queue' = [s \in Thread |-> queue'[s]], \A s \in Thread : OrTail(queue'[s], queue[s])
  PROVE  Core'
  <1>1. Typed /\ Sockets /\ Heard BY DEF Core
  <1>2. "idle" \in GuiPc BY DEF GuiPc
  <1>3. /\ pc' = [pc EXCEPT ![Gui] = "idle"] /\ using' = [using EXCEPT ![Gui] = 0]
        /\ txt_status' = status /\ chunk' = 0
    BY DEF WriteEnds
  <1>4. /\ pc' \in [Worker -> ThreadPc \cup GuiPc] /\ pc'[Gui] = "idle"
        /\ \A t \in Thread : pc'[t] = pc[t] /\ pc'[t] \in ThreadPc
    BY <1>1, <1>2, <1>3, GuiMoves
  <1>5. ~Busy' BY <1>4 DEF Busy, BusyPc
  <1>6. /\ using' \in [Worker -> Thread \cup {0}] /\ using'[Gui] = 0
        /\ \A t \in Thread : using'[t] = using[t]
    BY <1>1, <1>3, Addresses DEF Typed
  <1>7. \A s \in Thread : queue[s] \in Seq(AnyFrame) BY <1>1 DEF Typed
  <1>8. \A s \in Thread : queue'[s] \in Seq(AnyFrame) BY <1>7, OrTailHeard
  <1>9. Typed'
    <2>1. queue' \in [Thread -> Seq(AnyFrame)] BY <1>8
    <2>2. chunk' \in Nat BY <1>3
    <2> QED BY <1>1, <1>2, <1>4, <1>6, <2>1, <2>2 DEF Typed
  <1>10. Sockets'
    <2>1. Bcast \notin user.macs => mac' # Bcast BY <1>1 DEF Sockets
    <2> QED BY <1>1, <1>4, <1>5, <1>6, <2>1, GuiSockets
  <1>11. Heard'
    <2>1. ASSUME NEW s \in Thread, NEW i \in DOMAIN queue'[s] PROVE attn'[queue'[s][i].src]
      <3>1. PICK j \in DOMAIN queue[s] : queue'[s][i] = queue[s][j] BY <1>7, <2>1, OrTailHeard
      <3> QED BY <1>1, <3>1 DEF Heard
    <2> QED BY <1>1, <2>1 DEF Heard
  <1>12. user.careful => CarefulInv' BY <1>3, <1>4, <1>5, <1>6, GuiCareful
  <1>13. HastyInv' BY <1>5 DEF HastyInv
  <1> QED BY <1>5, <1>9, <1>10, <1>11, <1>12, <1>13, Whole1

\* A write starts: on a socket with a good peer, or as the only one.
LEMMA WriteKeeps ==
  ASSUME Core, Cautious, NEW block \in 1 .. writes + 1, Write(block)
  PROVE  Core'
  <1>1. Typed /\ Sockets /\ Heard BY DEF Core
  <1>2. /\ pc[Gui] = "idle" /\ writes < user.writes /\ writes' = writes + 1
        /\ user.careful => txt_status = "Connected" /\ ~Polls
        /\ UNCHANGED <<user, mac, soc, txt_status, held, dest, queue, late, attn, buffer, stored>>
    BY DEF Write, boards
  <1>3. writes \in Nat /\ user.writes \in Nat BY <1>1 DEF Typed
  <1>4. ~Busy /\ using[Gui] = 0
    <2>1. ~Busy BY <1>2 DEF Busy, BusyPc
    <2> QED BY <1>1, <2>1 DEF Sockets
  <1>5. CASE soc = 0 /\ UNCHANGED <<pc, using, chunk>>
    <2>1. pc' = [pc EXCEPT ![Gui] = "idle"] BY <1>1, <1>2, <1>5, GuiStays
    <2>2. writes' \in Nat /\ writes' >= writes BY <1>2, <1>3
    <2>3. mac' \in Mac /\ (Bcast \notin user.macs => mac' # Bcast) BY <1>1, <1>2 DEF Typed, Sockets
    <2> QED BY <1>2, <1>5, <2>1, <2>2, <2>3, IdleStep
  <1>6. CASE ~(soc = 0 /\ UNCHANGED <<pc, using, chunk>>)
    <2>1. soc # 0 /\ using' = [using EXCEPT ![Gui] = soc] /\ chunk' = block /\ Become(Gui, "transfer")
      BY <1>6 DEF Write
    <2>2. soc \in Thread BY <1>1, <2>1 DEF Typed
    <2>3. "transfer" \in GuiPc /\ pc' = [pc EXCEPT ![Gui] = "transfer"] BY <2>1 DEF GuiPc, BusyPc, Become
    <2>4. /\ pc' \in [Worker -> ThreadPc \cup GuiPc] /\ pc'[Gui] = "transfer"
          /\ \A t \in Thread : pc'[t] = pc[t] /\ pc'[t] \in ThreadPc
      BY <1>1, <2>3, GuiMoves
    <2>5. /\ using' \in [Worker -> Thread \cup {0}] /\ using'[Gui] = soc
          /\ \A t \in Thread : using'[t] = using[t]
      BY <1>1, <2>1, <2>2, Addresses DEF Typed
    <2>6. Busy' BY <2>4 DEF Busy, BusyPc
    <2>7. chunk' \in Nat /\ writes' \in Nat /\ writes' > 0 BY <1>2, <1>3, <2>1
    <2>8. Typed' BY <1>1, <1>2, <2>3, <2>4, <2>5, <2>7 DEF Typed
    <2>9. Sockets'
      <3>1. Bcast \notin user.macs => mac' # Bcast BY <1>1, <1>2 DEF Sockets
      <3> QED BY <1>1, <1>2, <2>1, <2>4, <2>5, <2>6, <3>1, GuiSockets
    <2>10. Heard' BY <1>1, <1>2 DEF Heard
    <2>12. user.careful => Good(soc)
      <3>1. ~Polls => Resting BY DEF Polls, Alive, Resting
      <3> QED BY <1>2, <2>1, <3>1 DEF Core, CarefulInv
    <2>13. user.careful => CarefulInv' BY <1>2, <2>4, <2>5, <2>12, GuiCareful
    <2>14. HastyInv' BY <2>7 DEF HastyInv
    <2>15. Writing'
      <3>1. Peer' = dest[soc] BY <1>2, <2>5 DEF Peer
      <3>2. dest[soc] # Bcast
        <4>1. CASE user.careful BY <2>12, <4>1, Addresses DEF Good
        <4>2. CASE ~user.careful BY <1>1, <2>2, <4>2 DEF Cautious, Sockets
        <4> QED BY <4>1, <4>2
      <3> QED BY <2>4, <3>1, <3>2 DEF Writing
    <2> QED BY <1>2, <2>8, <2>9, <2>10, <2>13, <2>14, <2>15, Whole1
  <1> QED BY <1>5, <1>6

\* A transfer changes no more than buffers.
LEMMA TransferKeeps ==
  ASSUME Core, Transfer
  PROVE  Core'
  <1>1. Typed /\ Sockets /\ Heard BY DEF Core
  <1>2. /\ pc[Gui] = "transfer"
        /\ UNCHANGED <<user, mac, writes, soc, held, dest, queue, late, attn, stored>>
    BY DEF Transfer, form
  <1>3. Busy BY <1>2 DEF Busy, BusyPc
  <1>4. Writing /\ using[Gui] \in Thread /\ Peer \in Mac BY <1>3, Underway
  <1>6. CASE WriteEnds(txt_status) /\ UNCHANGED buffer
    <2>1. queue' = [s \in Thread |-> queue'[s]] /\ \A s \in Thread : OrTail(queue'[s], queue[s])
      BY <1>1, <1>2 DEF Typed, OrTail
    <2> QED BY <1>2, <1>3, <1>6, <2>1, EndsWrite
  <1>7. CASE ~(WriteEnds(txt_status) /\ UNCHANGED buffer)
    <2>1. /\ dest[using[Gui]] # NoMac /\ Become(Gui, "ask")
          /\ UNCHANGED <<using, txt_status, chunk>>
          /\ \E got \in [Peers -> {"all", "some", "nothing"}] :
               buffer' = [b \in Board |->
                 IF b \notin Peers \/ got[b] = "nothing" THEN buffer[b]
                 ELSE IF got[b] = "all" THEN Whole(chunk) ELSE Part]
      BY <1>7 DEF Transfer
    <2>2. buffer' \in [Board -> Content]
      <3>1. Whole(chunk) \in Content /\ Part \in Content BY <1>1 DEF Content, Typed
      <3>2. \A b \in Board : buffer[b] \in Content BY <1>1 DEF Typed
      <3> QED BY <2>1, <3>1, <3>2
    <2>3. "ask" \in BusyPc /\ pc' = [pc EXCEPT ![Gui] = "ask"] BY <2>1 DEF BusyPc, Become
    <2>4. pc'[Gui] = "ask" BY <1>1, <2>3, Addresses DEF Typed
    <2>5. Writing'
      <3>1. Peer' = Peer BY <1>2, <2>1 DEF Peer
      <3>2. Peer \in Board BY <1>4, <2>1 DEF Peer, Writing, Mac
      <3> QED BY <1>4, <2>4, <3>1, <3>2 DEF Writing
    <2>6. /\ stored' \in [Board -> Content \cup {Old}] /\ queue' \in [Thread -> Seq(AnyFrame)]
          /\ \A s \in Thread : \A i \in DOMAIN queue'[s] : attn[queue'[s][i].src]
          /\ late' \subseteq AnyFrame /\ \A f \in late' : attn[f.src]
      BY <1>1, <1>2 DEF Typed, Heard
    <2> QED BY <1>2, <1>3, <2>1, <2>2, <2>3, <2>5, <2>6, GoesOn
  <1> QED BY <1>6, <1>7


\* The board of a write is its only peer.
LEMMA OnePeer ==
  ASSUME Core, Peer \in Board
  PROVE  \A b \in Peers : b = Peer /\ attn[b]
  BY Addresses DEF Peers, Peer, To

\* The board may answer the question for the digest.
LEMMA AskDigestKeeps ==
  ASSUME Core, AskDigest
  PROVE  Core'
  <1>1. Typed /\ Heard BY DEF Core
  <1>2. /\ pc[Gui] = "ask" /\ pc' = [pc EXCEPT ![Gui] = "digest"]
        /\ UNCHANGED <<user, mac, writes, soc, txt_status, using, held, dest, queue, attn, buffer, stored, chunk>>
    BY DEF AskDigest, form, sockets, Become
  <1>3. Busy /\ "digest" \in BusyPc BY <1>2 DEF Busy, BusyPc
  <1>4. Writing BY <1>3 DEF Core
  <1>5. Peer \in Board BY <1>2, <1>4 DEF Writing
  <1>6. PICK bs \in SUBSET Peers : late' = late \cup {Frame(b, "digest", buffer[b]) : b \in bs} BY DEF AskDigest
  <1>7. late' \subseteq AnyFrame /\ \A f \in late' : attn[f.src]
    <2>1. \A b \in bs : b \in Board /\ attn[b] /\ buffer[b] \in Content BY <1>1, <1>5, OnePeer DEF Typed
    <2>2. \A b \in bs : Frame(b, "digest", buffer[b]) \in AnyFrame /\ attn[Frame(b, "digest", buffer[b]).src]
      BY <2>1 DEF Frame, AnyFrame
    <2> QED BY <1>1, <1>6, <2>2 DEF Typed, Heard
  <1>8. Writing'
    <2>1. Peer' = Peer BY <1>2 DEF Peer
    <2> QED BY <1>4, <1>5, <2>1 DEF Writing
  <1>9. /\ buffer' \in [Board -> Content] /\ stored' \in [Board -> Content \cup {Old}]
        /\ queue' \in [Thread -> Seq(AnyFrame)]
        /\ \A s \in Thread : \A i \in DOMAIN queue'[s] : attn[queue'[s][i].src]
    BY <1>1, <1>2 DEF Typed, Heard
  <1> QED BY <1>2, <1>3, <1>7, <1>8, <1>9, GoesOn

\* The board may write its block, and answer.
LEMMA AskWriteKeeps ==
  ASSUME Core, AskWrite
  PROVE  Core'
  <1>1. Typed /\ Heard BY DEF Core
  <1>2. /\ pc[Gui] = "store" /\ pc' = [pc EXCEPT ![Gui] = "write"]
        /\ UNCHANGED <<user, mac, writes, soc, txt_status, using, held, dest, queue, attn, buffer, chunk>>
    BY DEF AskWrite, form, sockets, Become
  <1>3. Busy /\ "write" \in BusyPc BY <1>2 DEF Busy, BusyPc
  <1>4. Writing BY <1>3 DEF Core
  <1>5. Peer \in Board BY <1>2, <1>4 DEF Writing
  <1>6. PICK got \in SUBSET Peers : \E good, bs \in SUBSET got :
          /\ stored' = [b \in Board |-> IF b \in good THEN buffer[b] ELSE stored[b]]
          /\ late' = late \cup {Frame(b, "write", IF b \in good THEN "ok" ELSE "err") : b \in bs}
    BY DEF AskWrite
  <1>7. PICK good \in SUBSET got, bs \in SUBSET got :
          /\ stored' = [b \in Board |-> IF b \in good THEN buffer[b] ELSE stored[b]]
          /\ late' = late \cup {Frame(b, "write", IF b \in good THEN "ok" ELSE "err") : b \in bs}
    BY <1>6
  <1>8. late' \subseteq AnyFrame /\ \A f \in late' : attn[f.src]
    <2>1. \A b \in bs : b \in Board /\ attn[b] BY <1>5, OnePeer
    <2>2. ASSUME NEW b \in bs, NEW v \in {"ok", "err"}
          PROVE  Frame(b, "write", v) \in AnyFrame /\ attn[Frame(b, "write", v).src]
      BY <2>1 DEF Frame, AnyFrame
    <2>3. \A b \in bs : (IF b \in good THEN "ok" ELSE "err") \in {"ok", "err"} OBVIOUS
    <2>4. ASSUME NEW f \in late' PROVE f \in late \/ \E b \in bs, v \in {"ok", "err"} : f = Frame(b, "write", v)
      BY <1>7, <2>3
    <2>5. \A f \in late : f \in AnyFrame /\ attn[f.src]
      BY <1>1 DEF Typed, Heard
    <2>6. ASSUME NEW f \in late' PROVE f \in AnyFrame /\ attn[f.src]
      <3>1. CASE f \in late BY <2>5, <3>1
      <3>2. CASE f \notin late
        <4>1. PICK b \in bs, v \in {"ok", "err"} : f = Frame(b, "write", v)
          BY <2>4, <2>6, <3>2
        <4> QED BY <2>2, <4>1
      <3> QED BY <3>1, <3>2
    <2> QED BY <2>6
  <1>9. Writing'
    <2>1. Peer' = Peer BY <1>2 DEF Peer
    <2> QED BY <1>4, <1>5, <2>1 DEF Writing
  <1>10. /\ buffer' \in [Board -> Content] /\ stored' \in [Board -> Content \cup {Old}]
         /\ queue' \in [Thread -> Seq(AnyFrame)]
         /\ \A s \in Thread : \A i \in DOMAIN queue'[s] : attn[queue'[s][i].src]
    BY <1>1, <1>2, <1>7 DEF Typed, Heard
  <1> QED BY <1>2, <1>3, <1>8, <1>9, <1>10, GoesOn

\* What the window makes of an answer, or of none.
GoesToStore(f) ==
  /\ pc[Gui] = "digest" /\ f # NoFrame /\ f.val = Whole(chunk) /\ Become(Gui, "store")
  /\ UNCHANGED <<using, txt_status, chunk>>
GoesBack == pc[Gui] = "digest" /\ Become(Gui, "transfer") /\ UNCHANGED <<using, txt_status, chunk>>
Fails == WriteEnds(txt_status)
Succeeds(f) == pc[Gui] = "write" /\ f # NoFrame /\ f.val = "ok" /\ WriteEnds("Chunk written!")

\* There is nothing else.
LEMMA GuiReturns ==
  ASSUME NEW f, pc[Gui] \in {"digest", "write"}, Returns(Gui, f)
  PROVE  GoesToStore(f) \/ GoesBack \/ Fails \/ Succeeds(f)
  <1>1. CASE pc[Gui] = "digest"
    <2>1. \/ f # NoFrame /\ SameDigest(f) /\ Become(Gui, "store") /\ UNCHANGED <<using, txt_status, chunk>>
          \/ NextTry
      BY <1>1 DEF Returns
    <2>2. NextTry => GoesBack \/ Fails BY <1>1 DEF NextTry, GoesBack, Fails
    <2>3. SameDigest(f) => f.val = Whole(chunk) BY DEF SameDigest
    <2> QED BY <1>1, <2>1, <2>2, <2>3 DEF GoesToStore
  <1>2. CASE pc[Gui] = "write"
    <2>1. \/ WriteEnds(txt_status)
          \/ f # NoFrame /\ WriteEnds(IF f.val = "ok" THEN "Chunk written!" ELSE txt_status)
      BY <1>2 DEF Returns, Unanswered
    <2>2. CASE f.val = "ok" BY <1>2, <2>1, <2>2 DEF Fails, Succeeds
    <2>3. CASE f.val # "ok" BY <2>1, <2>3 DEF Fails
    <2> QED BY <2>2, <2>3
  <1> QED BY <1>1, <1>2

\* A write that goes on from what is left on the sockets.
LEMMA GoesOnWith ==
  ASSUME Core, Busy, NEW x \in BusyPc, Become(Gui, x),
         UNCHANGED <<user, mac, writes, soc, txt_status, using, held, dest, late, attn, buffer, stored, chunk>>,
         queue' = [s \in Thread |-> queue'[s]], \A s \in Thread : OrTail(queue'[s], queue[s]),
         Writing'
  PROVE  Core'
  <1>1. Typed /\ Sockets /\ Heard BY DEF Core
  <1>2. \A s \in Thread : queue[s] \in Seq(AnyFrame) BY <1>1 DEF Typed
  <1>3. queue' \in [Thread -> Seq(AnyFrame)]
    <2>1. \A s \in Thread : queue'[s] \in Seq(AnyFrame) BY <1>2, OrTailHeard
    <2> QED BY <2>1
  <1>4. ASSUME NEW s \in Thread, NEW i \in DOMAIN queue'[s] PROVE attn[queue'[s][i].src]
    <2>1. PICK j \in DOMAIN queue[s] : queue'[s][i] = queue[s][j] BY <1>2, <1>4, OrTailHeard
    <2> QED BY <1>1, <2>1 DEF Heard
  <1>5. /\ pc' = [pc EXCEPT ![Gui] = x]
        /\ buffer' \in [Board -> Content] /\ stored' \in [Board -> Content \cup {Old}]
        /\ late' \subseteq AnyFrame /\ \A f \in late' : attn[f.src]
    BY <1>1 DEF Typed, Heard, Become
  <1> QED BY <1>3, <1>4, <1>5, GoesOn

\* Whatever it is, the write goes on or ends.
LEMMA GuiReturnsKeeps ==
  ASSUME Core, NEW f, pc[Gui] \in {"digest", "write"}, Returns(Gui, f),
         UNCHANGED <<user, mac, writes, soc, held, dest, late, attn, buffer, stored>>,
         queue' = [s \in Thread |-> queue'[s]], \A s \in Thread : OrTail(queue'[s], queue[s])
  PROVE  Core'
  <1>1. Typed BY DEF Core
  <1>2. Busy BY DEF Busy, BusyPc
  <1>3. Writing BY <1>2 DEF Core
  <1>4. Peer \in Board /\ Peer # Bcast BY <1>3 DEF Writing
  <1>5. ASSUME NEW x \in {"store", "transfer"}, Become(Gui, x), UNCHANGED <<using, txt_status, chunk>>
        PROVE  Core'
    <2>1. x \in BusyPc BY DEF BusyPc
    <2>2. Peer' = Peer BY <1>5 DEF Peer
    <2>3. Writing' BY <1>4, <2>2 DEF Writing
    <2> QED BY <1>2, <1>5, <2>1, <2>3, GoesOnWith
  <1>6. CASE GoesToStore(f) BY <1>5, <1>6 DEF GoesToStore
  <1>7. CASE GoesBack BY <1>5, <1>7 DEF GoesBack
  <1>8. CASE Fails BY <1>2, <1>8, EndsWrite DEF Fails
  <1>9. CASE Succeeds(f)
    <2>1. WriteEnds("Chunk written!") /\ "Chunk written!" # "Connected" BY <1>9 DEF Succeeds
    <2> QED BY <1>2, <2>1, EndsWrite
  <1> QED BY <1>6, <1>7, <1>8, <1>9, GuiReturns

\* The window waits for the answer to the digest or to the write.
LEMMA GuiWaits ==
  ASSUME Core, Waits(Gui)
  PROVE  /\ pc[Gui] \in {"digest", "write"} /\ Busy /\ Writing
         /\ using[Gui] \in Thread /\ queue[using[Gui]] \in Seq(AnyFrame)
         /\ Peer \in Board /\ Peer # Bcast
  <1>1. pc[Gui] \in {"digest", "write"}
    <2>1. pc[Gui] \in GuiPc /\ pc[Gui] \in {"attn", "digest", "write"} BY DEF Core, Typed, Waits
    <2> QED BY <2>1 DEF GuiPc, BusyPc
  <1>2. Busy BY <1>1 DEF Busy, BusyPc
  <1>3. Writing /\ using[Gui] \in Thread /\ queue[using[Gui]] \in Seq(AnyFrame) BY <1>2, Underway
  <1>4. Peer \in Board /\ Peer # Bcast BY <1>1, <1>3 DEF Writing
  <1> QED BY <1>1, <1>2, <1>3, <1>4

\* What the window does with a frame.
LEMMA GuiTakes ==
  ASSUME Core, Receive(Gui)
  PROVE  LET s == using[Gui]
             f == Head(queue[s])
         IN /\ Waits(Gui) /\ queue[s] # <<>> /\ s \in Thread
            /\ queue' = [queue EXCEPT ![s] = Tail(@)]
            /\ Looked(Gui, f, Peer)
            /\ UNCHANGED <<user, mac, writes, soc, held, dest, late, attn, buffer, stored, overdue>>
            /\ queue' = [u \in Thread |-> queue'[u]] /\ queue'[s] = Tail(queue[s])
            /\ \A u \in Thread : OrTail(queue'[u], queue[u]) /\ (u # s => queue'[u] = queue[u])
  <1> DEFINE s == using[Gui]
             f == Head(queue[s])
  <1>1. Typed BY DEF Core
  <1>2. /\ Waits(Gui) /\ queue[s] # <<>> /\ queue' = [queue EXCEPT ![s] = Tail(@)]
        /\ UNCHANGED <<user, mac, writes, soc, dest, late, attn, buffer, stored, overdue>>
    BY DEF Receive, form, boards
  <1>3. s \in Thread /\ Peer # Bcast BY <1>2, GuiWaits
  <1>4. dest[s] = Peer BY DEF Peer
  <1>5. Looked(Gui, f, Peer) /\ UNCHANGED held BY <1>3, <1>4 DEF Receive
  <1>6. /\ queue' = [u \in Thread |-> queue'[u]] /\ queue'[s] = Tail(queue[s])
        /\ \A u \in Thread : OrTail(queue'[u], queue[u]) /\ (u # s => queue'[u] = queue[u])
    BY <1>1, <1>2, <1>3 DEF Typed, OrTail
  <1> QED BY <1>2, <1>3, <1>5, <1>6

\* The window takes a frame.
LEMMA GuiReceiveKeeps ==
  ASSUME Core, Receive(Gui)
  PROVE  Core'
  <1> DEFINE f == Head(queue[using[Gui]])
  <1>1. /\ Waits(Gui) /\ Looked(Gui, f, Peer)
        /\ UNCHANGED <<user, mac, writes, soc, held, dest, late, attn, buffer, stored>>
        /\ queue' = [u \in Thread |-> queue'[u]]
        /\ \A u \in Thread : OrTail(queue'[u], queue[u])
    BY GuiTakes
  <1>2. pc[Gui] \in {"digest", "write"} /\ Busy /\ Writing BY <1>1, GuiWaits
  <1>3. CASE Accepted(f, Peer, pc[Gui])
    <2>1. Returns(Gui, f) BY <1>1, <1>3 DEF Looked
    <2> HIDE DEF f
    <2> QED BY <1>1, <1>2, <2>1, GuiReturnsKeeps
  <1>4. CASE ~Accepted(f, Peer, pc[Gui])
    <2>1. UNCHANGED <<pc, using, txt_status, chunk>> BY <1>1, <1>4 DEF Looked
    <2>2. Busy' => Writing' BY <1>1, <2>1, WritingKept
    <2>3. Writing' BY <1>2, <2>1, <2>2 DEF Busy
    <2>4. Become(Gui, pc[Gui]) /\ pc[Gui] \in BusyPc BY <1>2, <2>1 DEF Core, Typed, Become, Busy
    <2> QED BY <1>1, <1>2, <2>1, <2>3, <2>4, GoesOnWith
  <1> QED BY <1>3, <1>4

\* The window has waited long enough.
LEMMA GuiGivesUpKeeps ==
  ASSUME Core, GiveUp(Gui)
  PROVE  Core'
  <1>1. Typed BY DEF Core
  <1>2. /\ Waits(Gui) /\ Returns(Gui, NoFrame)
        /\ UNCHANGED <<user, mac, writes, soc, held, dest, queue, late, attn, buffer, stored>>
    BY DEF GiveUp, form
  <1>3. pc[Gui] \in {"digest", "write"} BY <1>2, GuiWaits
  <1>4. queue' = [u \in Thread |-> queue'[u]] /\ \A u \in Thread : OrTail(queue'[u], queue[u])
    BY <1>1, <1>2 DEF Typed, OrTail
  <1> QED BY <1>2, <1>3, <1>4, GuiReturnsKeeps

\* Every worker keeps the invariant when it receives.
LEMMA ReceivesKeeps ==
  ASSUME Core, Cautious, NEW w \in Worker, Receives(w)
  PROVE  Core'
  <1>1. CASE w \in Thread BY <1>1, ThreadReceiveKeeps, ThreadBindKeeps, ThreadGivesUpKeeps DEF Receives
  <1>2. CASE w = Gui
    <2>1. ~Bind(Gui) BY DEF Bind, Core, Sockets
    <2> QED BY <1>2, <2>1, GuiReceiveKeeps, GuiGivesUpKeeps DEF Receives
  <1> QED BY <1>1, <1>2 DEF Worker

-----------------------------------------------------------------------------
(* Answers that are left alone *)

\* Queue p has no more answers of a type than q.
Fewer(p, q, type) ==
  /\ \A i \in DOMAIN p : p[i].type = type => \E j \in DOMAIN q : p[i] = q[j]
  /\ Lone(q, type) => Lone(p, type)

\* Taking a frame, or none.
LEMMA FewerTaken ==
  ASSUME NEW q \in Seq(AnyFrame), NEW p, OrTail(p, q), NEW type
  PROVE  Fewer(p, q, type)
  <1>1. CASE p = q BY <1>1 DEF Fewer
  <1>2. CASE q # <<>> /\ p = Tail(q)
    <2>1. \A i \in DOMAIN p : i \in Nat /\ i + 1 \in DOMAIN q /\ p[i] = q[i + 1] BY <1>2, Taken
    <2>2. ASSUME Lone(q, type), NEW i \in DOMAIN p, NEW j \in DOMAIN p, p[i].type = type, p[j].type = type
          PROVE  i = j
      <3>1. i + 1 = j + 1 BY <2>1, <2>2 DEF Lone
      <3> QED BY <2>1, <3>1
    <2>3. Lone(q, type) => Lone(p, type) BY <2>2 DEF Lone
    <2> QED BY <2>1, <2>3 DEF Fewer
  <1> QED BY <1>1, <1>2 DEF OrTail

\* Adding a frame of another type.
LEMMA FewerAdded ==
  ASSUME NEW q \in Seq(AnyFrame), NEW f \in AnyFrame, NEW type, f.type # type
  PROVE  Fewer(Append(q, f), q, type)
  <1> DEFINE p == Append(q, f)
  <1>1. \A i \in DOMAIN p : (i \in DOMAIN q /\ p[i] = q[i]) \/ p[i] = f BY Added
  <1>2. \A i \in DOMAIN p : p[i].type = type => i \in DOMAIN q /\ p[i] = q[i] BY <1>1
  <1> QED BY <1>2 DEF Fewer, Lone

\* No answers stay none.
LEMMA FewerNone ==
  ASSUME NEW p, NEW q, NEW type, Fewer(p, q, type), NoneOf(q, type)
  PROVE  NoneOf(p, type)
  BY DEF Fewer, NoneOf

\* Silence stays, when nothing of the type is sent.
LEMMA QuietKept ==
  ASSUME NEW type, Quiet(type),
         \A f \in late' : f.type = type => f \in late,
         \A s \in Thread : Fewer(queue'[s], queue[s], type),
         \A s \in Thread : On(s)' => On(s)
  PROVE  Quiet(type)'
  <1>1. \A f \in late' : f.type # type BY DEF Quiet
  <1>2. \A s \in Thread : On(s)' => NoneOf(queue'[s], type) BY FewerNone DEF Quiet
  <1> QED BY <1>1, <1>2 DEF Quiet

\* And the single answer stays true as long as board and block stay.
LEMMA SingleKept ==
  ASSUME NEW type, Single(type), using[Gui] \in Thread,
         \A f \in late' : f.type = type => f \in late,
         \A s \in Thread : Fewer(queue'[s], queue[s], type),
         \A s \in Thread : On(s)' => On(s),
         using'[Gui] = using[Gui], Peer' = Peer, chunk' = chunk, UNCHANGED <<buffer, stored>>
  PROVE  Single(type)'
  <1> DEFINE s == using[Gui]
  <1>1. \A f : Truth(f) => Truth(f)' BY DEF Truth, Whole
  <1>2. Fewer(queue'[s], queue[s], type) OBVIOUS
  <1>3. \A f \in late' : f.type = type => Truth(f)' /\ NoneOf(queue'[s], type)
    BY <1>1, <1>2, FewerNone DEF Single
  <1>4. \A f, g \in late' : f.type = type /\ g.type = type => f = g BY DEF Single
  <1>5. (\A i \in DOMAIN queue[using[Gui]] : queue[using[Gui]][i].type = type => Truth(queue[using[Gui]][i]))'
    <2> SUFFICES ASSUME NEW i \in DOMAIN queue'[s], queue'[s][i].type = type
                 PROVE  (Truth(queue[using[Gui]][i]))'
      OBVIOUS
    <2>1. PICK j \in DOMAIN queue[s] : queue'[s][i] = queue[s][j] BY <1>2 DEF Fewer
    <2>2. Truth(queue[s][j]) BY <2>1 DEF Single
    <2> QED BY <2>1, <2>2 DEF Truth, Whole
  <1>6. Lone(queue'[s], type) BY <1>2 DEF Single, Fewer
  <1>7. \A u \in Thread : On(u)' /\ u # s => NoneOf(queue'[u], type) BY FewerNone DEF Single
  <1> QED BY <1>3, <1>4, <1>5, <1>6, <1>7 DEF Single

\* A step that has no part in a write, or leaves it where it is.
Aside ==
  /\ user' = user /\ using'[Gui] = using[Gui] /\ (writes' = 0 => writes = 0)
  /\ \A x \in {"digest", "store", "write"} : pc'[Gui] = x <=> pc[Gui] = x
  /\ UNCHANGED <<buffer, stored, overdue>>
  /\ Busy => Peer' = Peer /\ chunk' = chunk
  /\ \A f \in late' : f \in late \/ f.type = "attn"
  /\ \A s \in Thread : \A type \in {"digest", "write"} : Fewer(queue'[s], queue[s], type)

\* It leaves the answers alone too.
LEMMA AsideAnswers ==
  ASSUME Core, Answers, Aside
  PROVE  Answers'
  <1>1. \A s \in Thread : On(s)' => On(s) BY DEF Aside, On
  <1>2. ASSUME NEW type \in {"digest", "write"}, Prompt(type)' PROVE Asked(type)'
    <2>1. Prompt(type) BY <1>2 DEF Prompt, Aside
    <2>2. Asked(type) BY <2>1 DEF Answers
    <2>3. \A f \in late' : f.type = type => f \in late BY DEF Aside
    <2>4. \A s \in Thread : Fewer(queue'[s], queue[s], type) BY DEF Aside
    <2>5. CASE pc[Gui] = type
      <3>1. Busy BY <2>5 DEF Busy, BusyPc
      <3>2. using[Gui] \in Thread BY <3>1, Underway
      <3>3. Single(type)' BY <1>1, <2>2, <2>3, <2>4, <2>5, <3>1, <3>2, SingleKept DEF Asked, Aside
      <3>4. pc'[Gui] = type BY <2>5 DEF Aside
      <3> QED BY <3>3, <3>4 DEF Asked
    <2>6. CASE pc[Gui] # type
      <3>1. Quiet(type)' BY <1>1, <2>2, <2>3, <2>4, <2>6, QuietKept DEF Asked
      <3>2. pc'[Gui] # type BY <2>6 DEF Aside
      <3> QED BY <3>1, <3>2 DEF Asked
    <2> QED BY <2>5, <2>6
  <1>3. ASSUME "digest" \notin overdue'
        PROVE  /\ pc'[Gui] \in {"store", "write"} => buffer'[Peer'] = Whole(chunk)'
               /\ \A b \in Board : stored'[b].is \in {"old", "block"}
    <2>1. "digest" \notin overdue BY <1>3 DEF Aside
    <2>2. pc[Gui] \in {"store", "write"} => Busy BY DEF Busy, BusyPc
    <2>3. pc'[Gui] \in {"store", "write"} => pc[Gui] \in {"store", "write"} BY DEF Aside
    <2> QED BY <2>1, <2>2, <2>3 DEF Aside, Answers, Whole
  <1> QED BY <1>2, <1>3 DEF Answers

\* Queues that are left alone, or frames taken from them.
LEMMA FewerQueues ==
  ASSUME Core, \A s \in Thread : OrTail(queue'[s], queue[s])
  PROVE  \A s \in Thread : \A type \in {"digest", "write"} : Fewer(queue'[s], queue[s], type)
  <1>1. \A s \in Thread : queue[s] \in Seq(AnyFrame) BY DEF Core, Typed
  <1> QED BY <1>1, FewerTaken

\* A thread's own steps are such.
LEMMA ProceedsAside ==
  ASSUME Core, NEW t \in Thread, Proceeds(t)
  PROVE  Aside
  <1>1. Typed /\ Sockets BY DEF Core
  <1>2. t # Gui BY Addresses
  <1>3. /\ UNCHANGED <<user, writes, queue, buffer, stored, overdue, chunk>>
        /\ \E x : Become(t, x)
    BY DEF Proceeds, GetDest, MakeSocket, Polling, SendAttn, Connected, StopsPolling, DropsSocket, form, sockets, boards
  <1>4. pc'[Gui] = pc[Gui] BY <1>1, <1>2, <1>3, Addresses DEF Typed, Become
  <1>5. using'[Gui] = using[Gui]
    <2>1. using' = using \/ using' = [using EXCEPT ![t] = soc]
      BY DEF Proceeds, GetDest, MakeSocket, Polling, SendAttn, Connected, StopsPolling, DropsSocket, sockets
    <2> QED BY <1>1, <1>2, <2>1, Addresses DEF Typed
  <1>6. ASSUME Busy PROVE Peer' = Peer
    <2>1. dest' = dest \/ (pc[t] = "new" /\ dest' = [dest EXCEPT ![t] = mac])
      BY DEF Proceeds, GetDest, MakeSocket, Polling, SendAttn, Connected, StopsPolling, DropsSocket, sockets
    <2>2. using[Gui] \in Thread BY <1>6, Underway
    <2>3. pc[t] = "new" => using[Gui] # t BY <1>1, <2>2, Addresses DEF Sockets
    <2> QED BY <1>1, <1>5, <2>1, <2>2, <2>3 DEF Peer, Typed
  <1>7. \A f \in late' : f \in late \/ f.type = "attn"
    <2>1. late' = late \/ \E B \in SUBSET Board : late' = late \cup {Frame(b, "attn", "") : b \in B}
      <3>1. CASE SendAttn(t)
        <4>1. \/ late' = late
              \/ \E heard \in SUBSET To(dest[soc]) : \E answers \in SUBSET heard :
                   late' = late \cup {Frame(b, "attn", "") : b \in answers}
          BY <3>1 DEF SendAttn
        <4>2. To(dest[soc]) \subseteq Board BY DEF To
        <4> QED BY <4>1, <4>2
      <3>2. CASE ~SendAttn(t)
        BY <3>2 DEF Proceeds, GetDest, MakeSocket, Polling, Connected, StopsPolling, DropsSocket, boards
      <3> QED BY <3>1, <3>2
    <2>2. \A b : Frame(b, "attn", "").type = "attn" BY DEF Frame
    <2> QED BY <2>1, <2>2
  <1>8. \A s \in Thread : OrTail(queue'[s], queue[s]) BY <1>3 DEF OrTail
  <1>9. \A s \in Thread : \A type \in {"digest", "write"} : Fewer(queue'[s], queue[s], type) BY <1>8, FewerQueues
  <1> QED BY <1>3, <1>4, <1>5, <1>6, <1>7, <1>9 DEF Aside

\* And what it does with frames.
LEMMA ThreadReceivesAside ==
  ASSUME Core, Cautious, NEW t \in Thread, Receives(t)
  PROVE  Aside
  <1>1. Typed /\ Sockets BY DEF Core
  <1>2. t # Gui /\ t \in Worker /\ Gui \in Worker BY Addresses
  <1>3. pc[t] = "attn"
    <2>1. pc[t] \in ThreadPc BY <1>1 DEF Typed
    <2>2. Waits(t) => pc[t] = "attn" BY <2>1 DEF Waits, ThreadPc
    <2>3. Bind(t) => pc[t] = "attn" BY <1>1 DEF Bind, Sockets
    <2> QED BY <2>2, <2>3 DEF Receives, Receive, GiveUp
  <1>4. using[t] \in Thread BY <1>3, ThreadWaits
  <1>5. UNCHANGED <<user, writes, late, buffer, stored, overdue>>
    BY <1>2 DEF Receives, Receive, Bind, GiveUp, form, boards
  <1>6. /\ pc' = pc \/ \E x : Become(t, x)
        /\ using' = using \/ using' = [using EXCEPT ![t] = 0]
        /\ chunk' = chunk
    <2>1. \A f : Returns(t, f) => (\E x : Become(t, x)) /\ using' = [using EXCEPT ![t] = 0] /\ chunk' = chunk
      BY <1>3 DEF Returns
    <2>2. \A f, d : Looked(t, f, d) => Returns(t, f) \/ UNCHANGED <<pc, using, chunk>> BY DEF Looked
    <2> QED BY <2>1, <2>2 DEF Receives, Receive, Bind, GiveUp
  <1>7. pc'[Gui] = pc[Gui] /\ using'[Gui] = using[Gui] BY <1>1, <1>2, <1>6 DEF Typed, Become
  <1>8. \A s \in Thread : OrTail(queue'[s], queue[s])
    BY <1>1, <1>4 DEF Receives, Receive, Bind, GiveUp, OrTail, Typed
  <1>9. \A s \in Thread : \A type \in {"digest", "write"} : Fewer(queue'[s], queue[s], type) BY <1>8, FewerQueues
  <1>10. ASSUME Busy PROVE Peer' = Peer
    <2>1. ~user.careful
      <3>1. Alive(t) BY <1>3 DEF Alive
      <3> QED BY <1>10, <3>1, Alone
    <2>2. Bcast \notin user.macs BY <2>1 DEF Cautious
    <2>3. ~Bind(t) BY <1>1, <2>2 DEF Bind, Sockets
    <2>4. dest' = dest BY <2>3 DEF Receives, Receive, GiveUp
    <2> QED BY <1>7, <2>4 DEF Peer
  <1> QED BY <1>5, <1>6, <1>7, <1>9, <1>10 DEF Aside

\* What the user does while nothing is written.
LEMMA IdleAside ==
  ASSUME Core, pc[Gui] \in {"idle", "check"}, pc'[Gui] \in {"idle", "check", "quit"},
         user' = user, writes' = 0 => writes = 0,
         UNCHANGED <<using, queue, late, buffer, stored, overdue>>
  PROVE  Aside
  <1>1. ~Busy BY DEF Busy, BusyPc
  <1>2. \A s \in Thread : OrTail(queue'[s], queue[s]) BY DEF OrTail
  <1>3. \A s \in Thread : \A type \in {"digest", "write"} : Fewer(queue'[s], queue[s], type) BY <1>2, FewerQueues
  <1> QED BY <1>1, <1>3 DEF Aside

\* That is everything except the steps of a write.
LEMMA WindowAside ==
  ASSUME Core,
         \/ \E t \in Thread : Connect(t)
         \/ \E m \in Mac : EditMac(m)
         \/ OnCheckParamsValid \/ UpdateWriteButton \/ destroy
  PROVE  Aside
  <1>1. Typed BY DEF Core
  <1>2. ASSUME NEW t \in Thread, Connect(t) PROVE Aside
    <2>1. /\ pc[Gui] = "idle" /\ Become(t, "new")
          /\ UNCHANGED <<user, writes, using, queue, late, buffer, stored, overdue>>
      BY <1>2 DEF Connect, form, sockets, boards
    <2>2. pc'[Gui] = "idle" BY <1>1, <2>1, Addresses DEF Typed, Become
    <2> QED BY <2>1, <2>2, IdleAside
  <1>3. ASSUME NEW m \in Mac, EditMac(m) PROVE Aside
    BY <1>3, IdleAside DEF EditMac, sockets, boards
  <1>4. ASSUME OnCheckParamsValid \/ UpdateWriteButton \/ destroy PROVE Aside
    <2>1. /\ pc[Gui] \in {"idle", "check"} /\ \E x \in {"idle", "check", "quit"} : Become(Gui, x)
          /\ UNCHANGED <<user, writes, using, queue, late, buffer, stored, overdue>>
      BY <1>4 DEF OnCheckParamsValid, UpdateWriteButton, destroy, sockets, boards
    <2>2. pc'[Gui] \in {"idle", "check", "quit"} BY <1>1, <2>1, Addresses DEF Typed, Become
    <2> QED BY <2>1, <2>2, IdleAside
  <1> QED BY <1>2, <1>3, <1>4

-----------------------------------------------------------------------------
(* The answers during a write *)

\* Nothing is asked after a step of a window that does not wait.
LEMMA Unasked ==
  ASSUME Answers, overdue' = overdue, stored' = stored,
         pc[Gui] \notin {"digest", "write"}, pc'[Gui] \notin {"digest", "write", "store"},
         \A f \in late' : f \in late \/ f.type = "attn",
         queue' = queue, \A s \in Thread : On(s)' => On(s)
  PROVE  Answers'
  <1>1. ASSUME NEW type \in {"digest", "write"}, Prompt(type)' PROVE Asked(type)'
    <2>1. Prompt(type) BY <1>1 DEF Prompt
    <2>2. Quiet(type) BY <2>1 DEF Answers, Asked
    <2>3. \A s \in Thread : Fewer(queue'[s], queue[s], type) BY DEF Fewer
    <2>4. \A f \in late' : f.type = type => f \in late OBVIOUS
    <2>5. Quiet(type)' BY <2>2, <2>3, <2>4, QuietKept
    <2> QED BY <2>5 DEF Asked
  <1>2. "digest" \notin overdue' => \A b \in Board : stored'[b].is \in {"old", "block"} BY DEF Answers
  <1> QED BY <1>1, <1>2 DEF Answers

\* An answer arrives: on the socket of the write, if it is one to the window.
LEMMA ArrivesAnswers ==
  ASSUME Core, Answers, NEW f \in late, AnswerArrives(f)
  PROVE  Answers'
  <1>1. /\ late' = late \ {f} /\ queue' = Delivered(f)
        /\ UNCHANGED <<user, writes, soc, pc, using, dest, buffer, stored, overdue, chunk>>
    BY DEF AnswerArrives, form
  <1>2. Typed BY DEF Core
  <1>3. f \in AnyFrame BY <1>2 DEF Typed
  <1>4. \A s \in Thread : /\ queue[s] \in Seq(AnyFrame)
                          /\ queue'[s] = queue[s] \/ (OpenSocket(s) /\ queue'[s] = Append(queue[s], f))
    BY <1>1, <1>2, <1>3, DeliveredOne DEF Typed
  <1>5. \A s : On(s)' => On(s) BY <1>1 DEF On
  <1>6. Peer' = Peer BY <1>1 DEF Peer
  <1>7. ASSUME NEW type \in {"digest", "write"}, Prompt(type)' PROVE Asked(type)'
    <2>1. Asked(type) BY <1>1, <1>7 DEF Prompt, Answers
    <2>2. CASE f.type # type
      <3>1. \A s \in Thread : Fewer(queue'[s], queue[s], type)
        <4> SUFFICES ASSUME NEW s \in Thread PROVE Fewer(queue'[s], queue[s], type) OBVIOUS
        <4>1. CASE queue'[s] = queue[s] BY <4>1 DEF Fewer
        <4>2. CASE queue'[s] = Append(queue[s], f) BY <1>3, <1>4, <2>2, <4>2, FewerAdded
        <4> QED BY <1>4, <4>1, <4>2
      <3>2. \A g \in late' : g.type = type => g \in late BY <1>1
      <3>3. CASE pc[Gui] = type
        <4>1. Busy BY <3>3 DEF Busy, BusyPc
        <4>2. using[Gui] \in Thread BY <4>1, Underway
        <4>3. Single(type)' BY <1>1, <1>5, <1>6, <2>1, <3>1, <3>2, <3>3, <4>2, SingleKept DEF Asked
        <4> QED BY <1>1, <3>3, <4>3 DEF Asked
      <3>4. CASE pc[Gui] # type
        <4>1. Quiet(type)' BY <1>5, <2>1, <3>1, <3>2, <3>4, QuietKept DEF Asked
        <4> QED BY <1>1, <3>4, <4>1 DEF Asked
      <3> QED BY <3>3, <3>4
    <2>3. CASE f.type = type
      <3>1. pc[Gui] = type /\ Single(type) BY <2>1, <2>3 DEF Asked, Quiet
      <3>2. Busy BY <3>1 DEF Busy, BusyPc
      <3> DEFINE s == using[Gui]
                 q == queue[s]
      <3>3. s \in Thread /\ q \in Seq(AnyFrame) BY <3>2, Underway
      <3>4. Truth(f) /\ NoneOf(q, type) BY <2>3, <3>1 DEF Single
      <3>5. \A g \in late' : g.type # type BY <1>1, <2>3, <3>1 DEF Single
      <3>6. \A i \in DOMAIN queue'[s] : queue'[s][i].type = type => i = Len(q) + 1 /\ queue'[s][i] = f
        <4>1. CASE queue'[s] = q BY <3>4, <4>1 DEF NoneOf
        <4>2. CASE queue'[s] = Append(q, f)
          <5>1. \A i \in DOMAIN queue'[s] : (i \in DOMAIN q /\ queue'[s][i] = q[i]) \/ (i = Len(q) + 1 /\ queue'[s][i] = f)
            BY <1>3, <3>3, <4>2, Added
          <5> QED BY <3>4, <5>1 DEF NoneOf
        <4> QED BY <1>4, <3>3, <4>1, <4>2
      <3>7. Lone(queue'[s], type) BY <3>6 DEF Lone
      <3>8. (\A i \in DOMAIN queue[using[Gui]] : queue[using[Gui]][i].type = type => Truth(queue[using[Gui]][i]))'
        <4> SUFFICES ASSUME NEW i \in DOMAIN queue'[s], queue'[s][i].type = type
                     PROVE  (Truth(queue[using[Gui]][i]))'
          BY <1>1
        <4>1. queue'[s][i] = f BY <3>6
        <4> QED BY <1>1, <1>6, <3>4, <4>1 DEF Truth, Whole
      <3>9. ASSUME NEW u \in Thread, On(u)', u # s PROVE NoneOf(queue'[u], type)
        <4>1. NoneOf(queue[u], type) /\ On(u) BY <1>5, <3>1, <3>9 DEF Single
        <4>2. user.careful
          <5>1. ~user.careful => writes > 0 /\ writes \in Nat BY <1>2, <3>2, Underway DEF Typed
          <5> QED BY <3>9, <4>1, <5>1 DEF On
        <4>3. ~OpenSocket(u) BY <3>2, <3>9, <4>2, Underway
        <4> QED BY <1>4, <4>1, <4>3
      <3>10. Single(type)' BY <1>1, <3>5, <3>7, <3>8, <3>9 DEF Single
      <3> QED BY <1>1, <3>1, <3>10 DEF Asked
    <2> QED BY <2>2, <2>3
  <1>8. "digest" \notin overdue' =>
          /\ pc'[Gui] \in {"store", "write"} => buffer'[Peer'] = Whole(chunk)'
          /\ \A b \in Board : stored'[b].is \in {"old", "block"}
    BY <1>1, <1>6 DEF Answers, Whole
  <1> QED BY <1>7, <1>8 DEF Answers

\* A write starts on a socket without answers.
LEMMA WriteAnswers ==
  ASSUME Core, Cautious, Answers, NEW block \in 1 .. writes + 1, Write(block)
  PROVE  Answers'
  <1>1. Typed BY DEF Core
  <1>2. /\ pc[Gui] = "idle" /\ writes < user.writes
        /\ UNCHANGED <<user, queue, late, stored, overdue>>
    BY DEF Write, boards
  <1>3. user.careful \/ writes = 0 BY <1>1, <1>2 DEF Typed, Cautious
  <1>4. pc' = pc \/ Become(Gui, "transfer") BY DEF Write
  <1>5. pc'[Gui] \in {"idle", "transfer"} BY <1>1, <1>2, <1>4, Addresses DEF Typed, Become
  <1>6. \A s \in Thread : On(s) BY <1>3 DEF On
  <1> QED BY <1>2, <1>5, <1>6, Unasked

\* A transfer asks nothing.
LEMMA TransferAnswers ==
  ASSUME Core, Answers, Transfer
  PROVE  Answers'
  <1>1. Typed BY DEF Core
  <1>2. pc[Gui] = "transfer" /\ UNCHANGED <<user, writes, queue, late, stored, overdue>> BY DEF Transfer, form
  <1>3. (Become(Gui, "ask") /\ using' = using) \/ (Become(Gui, "idle") /\ using' = [using EXCEPT ![Gui] = 0])
    BY DEF Transfer, WriteEnds, Become
  <1>4. pc'[Gui] \in {"idle", "ask"} /\ using'[Gui] \in {0, using[Gui]} BY <1>1, <1>3, Addresses DEF Typed, Become
  <1>5. \A s \in Thread : On(s)' => On(s) BY <1>2, <1>4, Addresses DEF On
  <1> QED BY <1>2, <1>4, <1>5, Unasked

\* The board's answer to a question that nobody else has asked.
LEMMA NewAnswer ==
  ASSUME Core, NEW type, Quiet(type), using[Gui] \in Thread, using' = using, queue' = queue,
         user' = user, writes' = writes,
         \A f \in late' : f.type = type => f \in late \/ (Truth(f)' /\ f.src = Peer),
         \A f, g \in late' : f.type = type /\ g.type = type => f = g \/ f \in late \/ g \in late
  PROVE  Single(type)'
  <1> DEFINE s == using[Gui]
  <1>1. \A u \in Thread : On(u)' <=> On(u) BY DEF On
  <1>2. On(s) BY DEF On
  <1>3. NoneOf(queue[s], type) BY <1>2 DEF Quiet
  <1>4. \A f \in late : f.type # type BY DEF Quiet
  <1>5. (\A f \in late : f.type = type => Truth(f) /\ NoneOf(queue[using[Gui]], type))' BY <1>3, <1>4
  <1>6. \A f, g \in late' : f.type = type /\ g.type = type => f = g BY <1>4
  <1>7. (\A i \in DOMAIN queue[using[Gui]] : queue[using[Gui]][i].type = type => Truth(queue[using[Gui]][i]))'
    BY <1>3 DEF NoneOf
  <1>8. Lone(queue'[s], type) BY <1>3 DEF NoneOf, Lone
  <1>9. \A u \in Thread : On(u)' => NoneOf(queue'[u], type) BY <1>1 DEF Quiet
  <1> QED BY <1>5, <1>6, <1>7, <1>8, <1>9 DEF Single

\* The window asks for the digest.
LEMMA AskDigestAnswers ==
  ASSUME Core, Answers, AskDigest
  PROVE  Answers'
  <1>1. Typed BY DEF Core
  <1>2. /\ pc[Gui] = "ask" /\ Become(Gui, "digest")
        /\ UNCHANGED <<user, writes, using, dest, queue, buffer, stored, overdue, chunk>>
    BY DEF AskDigest, form, sockets
  <1>3. pc'[Gui] = "digest" BY <1>1, <1>2, Addresses DEF Typed, Become
  <1>4. Busy BY <1>2 DEF Busy, BusyPc
  <1>5. using[Gui] \in Thread /\ Writing BY <1>4, Underway
  <1>6. Peer \in Board /\ Peer' = Peer BY <1>2, <1>5 DEF Writing, Peer
  <1>7. PICK bs \in SUBSET Peers : late' = late \cup {Frame(b, "digest", buffer[b]) : b \in bs} BY DEF AskDigest
  <1> DEFINE a == Frame(Peer, "digest", buffer[Peer])
  <1>8. a.type = "digest" /\ a.val = buffer[Peer] /\ a.src = Peer /\ a' = a BY <1>2, <1>6 DEF Frame
  <1>9. \A f \in late' : f \in late \/ f = a
    <2>1. \A b \in bs : b = Peer BY <1>6, OnePeer
    <2> QED BY <1>7, <2>1
  <1> HIDE DEF a
  <1>10. ASSUME Prompt("digest")' PROVE Asked("digest")'
    <2>1. Prompt("digest") BY <1>2, <1>10 DEF Prompt
    <2>2. Quiet("digest") BY <1>2, <2>1 DEF Answers, Asked
    <2>3. Truth(a)' BY <1>2, <1>6, <1>8 DEF Truth
    <2>4. Single("digest")'
      <3>1. \A f \in late' : f.type = "digest" => f \in late \/ (Truth(f)' /\ f.src = Peer) BY <1>8, <1>9, <2>3
      <3>2. \A f, g \in late' : f.type = "digest" /\ g.type = "digest" => f = g \/ f \in late \/ g \in late BY <1>9
      <3> QED BY <1>2, <1>5, <2>2, <3>1, <3>2, NewAnswer
    <2> QED BY <1>3, <2>4 DEF Asked
  <1>11. ASSUME Prompt("write")' PROVE Asked("write")'
    <2>1. Prompt("write") BY <1>2, <1>11 DEF Prompt
    <2>2. Quiet("write") BY <1>2, <2>1 DEF Answers, Asked
    <2>3. \A f \in late' : f.type = "write" => f \in late BY <1>8, <1>9
    <2>4. \A s \in Thread : Fewer(queue'[s], queue[s], "write") BY <1>2 DEF Fewer
    <2>5. Quiet("write")' BY <1>2, <2>2, <2>3, <2>4, QuietKept DEF On
    <2> QED BY <1>3, <2>5 DEF Asked
  <1>12. "digest" \notin overdue' => \A b \in Board : stored'[b].is \in {"old", "block"} BY <1>2 DEF Answers
  <1> QED BY <1>3, <1>10, <1>11, <1>12 DEF Answers

\* The window asks the board to write what it has found to be the block.
LEMMA AskWriteAnswers ==
  ASSUME Core, Answers, AskWrite
  PROVE  Answers'
  <1>1. Typed BY DEF Core
  <1>2. /\ pc[Gui] = "store" /\ Become(Gui, "write")
        /\ UNCHANGED <<user, writes, using, dest, queue, buffer, overdue, chunk>>
    BY DEF AskWrite, form, sockets
  <1>3. pc'[Gui] = "write" BY <1>1, <1>2, Addresses DEF Typed, Become
  <1>4. Busy BY <1>2 DEF Busy, BusyPc
  <1>5. using[Gui] \in Thread /\ Writing BY <1>4, Underway
  <1>6. Peer \in Board /\ Peer' = Peer BY <1>2, <1>5 DEF Writing, Peer
  <1>7. PICK got \in SUBSET Peers : \E good, bs \in SUBSET got :
          /\ stored' = [b \in Board |-> IF b \in good THEN buffer[b] ELSE stored[b]]
          /\ late' = late \cup {Frame(b, "write", IF b \in good THEN "ok" ELSE "err") : b \in bs}
    BY DEF AskWrite
  <1>8. PICK good \in SUBSET got, bs \in SUBSET got :
          /\ stored' = [b \in Board |-> IF b \in good THEN buffer[b] ELSE stored[b]]
          /\ late' = late \cup {Frame(b, "write", IF b \in good THEN "ok" ELSE "err") : b \in bs}
    BY <1>7
  <1>9. \A b \in got : b = Peer BY <1>6, OnePeer
  <1> DEFINE v == IF Peer \in good THEN "ok" ELSE "err"
             a == Frame(Peer, "write", v)
  <1>10. a.type = "write" /\ a.val = v /\ a.src = Peer /\ a' = a /\ v' = v BY <1>6 DEF Frame
  <1>11. \A f \in late' : f \in late \/ f = a BY <1>8, <1>9
  <1>12. v = "ok" => stored'[Peer] = buffer[Peer] BY <1>6, <1>8
  <1>13. \A b \in Board : stored'[b] = stored[b] \/ stored'[b] = buffer[Peer] BY <1>8, <1>9
  <1> HIDE DEF a, v
  <1>14. "digest" \notin overdue => buffer[Peer] = Whole(chunk) BY <1>2 DEF Answers
  <1>15. ASSUME Prompt("write")' PROVE Asked("write")'
    <2>1. Prompt("write") /\ "digest" \notin overdue BY <1>2, <1>15 DEF Prompt
    <2>2. Quiet("write") BY <1>2, <2>1 DEF Answers, Asked
    <2>3. Truth(a)' BY <1>2, <1>6, <1>10, <1>12, <1>14, <2>1 DEF Truth, Whole
    <2>4. Single("write")'
      <3>1. \A f \in late' : f.type = "write" => f \in late \/ (Truth(f)' /\ f.src = Peer) BY <1>10, <1>11, <2>3
      <3>2. \A f, g \in late' : f.type = "write" /\ g.type = "write" => f = g \/ f \in late \/ g \in late BY <1>11
      <3> QED BY <1>2, <1>5, <2>2, <3>1, <3>2, NewAnswer
    <2> QED BY <1>3, <2>4 DEF Asked
  <1>16. ASSUME Prompt("digest")' PROVE Asked("digest")'
    <2>1. Prompt("digest") BY <1>2, <1>16 DEF Prompt
    <2>2. Quiet("digest") BY <1>2, <2>1 DEF Answers, Asked
    <2>3. \A f \in late' : f.type = "digest" => f \in late BY <1>10, <1>11
    <2>4. \A s \in Thread : Fewer(queue'[s], queue[s], "digest") BY <1>2 DEF Fewer
    <2>5. Quiet("digest")' BY <1>2, <2>2, <2>3, <2>4, QuietKept DEF On
    <2> QED BY <1>3, <2>5 DEF Asked
  <1>17. ASSUME "digest" \notin overdue'
         PROVE  buffer'[Peer'] = Whole(chunk)' /\ \A b \in Board : stored'[b].is \in {"old", "block"}
    <2>1. Whole(chunk).is = "block" BY DEF Whole
    <2>2. buffer[Peer] = Whole(chunk) BY <1>2, <1>14, <1>17
    <2>3. \A b \in Board : stored[b].is \in {"old", "block"} BY <1>2, <1>17 DEF Answers
    <2>4. buffer'[Peer'] = Whole(chunk)' BY <1>2, <1>6, <2>2 DEF Whole
    <2> QED BY <1>13, <2>1, <2>2, <2>3, <2>4
  <1> QED BY <1>15, <1>16, <1>17 DEF Answers

\* The window goes on from the answer to its question, or from none.
LEMMA ReturnsAnswers ==
  ASSUME Core, Answers, NEW type \in {"digest", "write"}, pc[Gui] = type, NEW f, Returns(Gui, f),
         UNCHANGED <<user, writes, dest, late, buffer, stored>>, overdue \subseteq overdue',
         \A s \in Thread : OrTail(queue'[s], queue[s]),
         Prompt(type)' => (\A g \in late : g.type # type) /\ NoneOf(queue'[using[Gui]], type),
         "digest" \notin overdue' /\ type = "digest" /\ f # NoFrame => f.val = buffer[Peer]
  PROVE  Answers'
  <1>1. Typed BY DEF Core
  <1>2. Busy BY DEF Busy, BusyPc
  <1>3. GoesToStore(f) \/ GoesBack \/ Fails \/ Succeeds(f) BY GuiReturns
  <1>4. /\ pc'[Gui] \in {"store", "transfer", "idle"} /\ using'[Gui] \in {0, using[Gui]}
        /\ pc'[Gui] = "store" => /\ type = "digest" /\ f # NoFrame /\ f.val = Whole(chunk)
                                 /\ using' = using /\ chunk' = chunk
    BY <1>1, <1>3, Addresses DEF GoesToStore, GoesBack, Fails, Succeeds, WriteEnds, Become, Typed
  <1>5. \A s \in Thread : On(s)' => On(s) BY <1>4, Addresses DEF On
  <1>6. \A s \in Thread : \A y \in {"digest", "write"} : Fewer(queue'[s], queue[s], y) BY FewerQueues
  <1>7. ASSUME NEW y \in {"digest", "write"}, Prompt(y)' PROVE Asked(y)'
    <2>1. Prompt(y) BY <1>7 DEF Prompt
    <2>2. Asked(y) BY <2>1 DEF Answers
    <2>3. Quiet(y)'
      <3>1. CASE y = type
        <4>1. Single(y) BY <2>2, <3>1 DEF Asked
        <4>2. \A g \in late' : g.type # y BY <1>7, <3>1
        <4>3. ASSUME NEW s \in Thread, On(s)' PROVE NoneOf(queue'[s], y)
          <5>1. CASE s = using[Gui] BY <1>7, <3>1, <5>1
          <5>2. CASE s # using[Gui]
            <6>1. NoneOf(queue[s], y) BY <1>5, <4>1, <4>3, <5>2 DEF Single
            <6>2. Fewer(queue'[s], queue[s], y) BY <1>6
            <6> QED BY <6>1, <6>2, FewerNone
          <5> QED BY <5>1, <5>2
        <4> QED BY <4>2, <4>3 DEF Quiet
      <3>2. CASE y # type
        <4>1. Quiet(y) BY <2>2, <3>2 DEF Asked
        <4>2. \A s \in Thread : Fewer(queue'[s], queue[s], y) BY <1>6
        <4>3. \A g \in late' : g.type = y => g \in late OBVIOUS
        <4> QED BY <1>5, <4>1, <4>2, <4>3, QuietKept
      <3> QED BY <3>1, <3>2
    <2> QED BY <1>4, <2>3 DEF Asked
  <1>8. ASSUME "digest" \notin overdue'
        PROVE  /\ pc'[Gui] \in {"store", "write"} => buffer'[Peer'] = Whole(chunk)'
               /\ \A b \in Board : stored'[b].is \in {"old", "block"}
    <2>1. pc'[Gui] = "store" => Peer' = Peer BY <1>4 DEF Peer
    <2>2. "digest" \notin overdue BY <1>8
    <2> QED BY <1>4, <1>8, <2>1, <2>2 DEF Answers, Whole
  <1> QED BY <1>7, <1>8 DEF Answers

\* What the window takes for an answer is the board's, and true.
LEMMA TakenIsTrue ==
  ASSUME Core, Answers, NEW type \in {"digest", "write"}, pc[Gui] = type, Prompt(type),
         using[Gui] \in Thread, queue[using[Gui]] # <<>>, Head(queue[using[Gui]]).type = type
  PROVE  /\ Truth(Head(queue[using[Gui]]))
         /\ \A g \in late : g.type # type
         /\ NoneOf(Tail(queue[using[Gui]]), type)
  <1> DEFINE q == queue[using[Gui]]
  <1>1. q \in Seq(AnyFrame) BY DEF Core, Typed
  <1>2. Single(type) BY DEF Answers, Asked
  <1>3. /\ Head(q) = q[1] /\ 1 \in DOMAIN q
        /\ \A i \in DOMAIN Tail(q) : i \in Nat /\ i + 1 \in DOMAIN q /\ Tail(q)[i] = q[i + 1] /\ i + 1 # 1
    BY <1>1, Taken
  <1>4. Truth(q[1]) /\ ~NoneOf(q, type) BY <1>2, <1>3 DEF Single, NoneOf
  <1>5. \A g \in late : g.type # type BY <1>2, <1>4 DEF Single
  <1>6. NoneOf(Tail(q), type) BY <1>2, <1>3 DEF Single, Lone, NoneOf
  <1> QED BY <1>3, <1>4, <1>5, <1>6

\* The window takes a frame.
LEMMA GuiReceiveAnswers ==
  ASSUME Core, Answers, Receive(Gui)
  PROVE  Answers'
  <1> DEFINE s == using[Gui]
             f == Head(queue[s])
  <1>1. /\ Waits(Gui) /\ queue[s] # <<>> /\ Looked(Gui, f, Peer) /\ s \in Thread
        /\ UNCHANGED <<user, mac, writes, soc, held, dest, late, attn, buffer, stored, overdue>>
        /\ queue' = [u \in Thread |-> queue'[u]] /\ queue'[s] = Tail(queue[s])
        /\ \A u \in Thread : OrTail(queue'[u], queue[u])
    BY GuiTakes
  <1>2. pc[Gui] \in {"digest", "write"} BY <1>1, GuiWaits
  <1>3. CASE Accepted(f, Peer, pc[Gui])
    <2>1. Returns(Gui, f) /\ f.type = pc[Gui] BY <1>1, <1>3 DEF Looked, Accepted
    <2>2. ASSUME Prompt(pc[Gui])
          PROVE  Truth(f) /\ (\A g \in late : g.type # pc[Gui]) /\ NoneOf(Tail(queue[s]), pc[Gui])
      BY <1>1, <1>2, <2>1, <2>2, TakenIsTrue
    <2> DEFINE type == pc[Gui]
    <2>3. type \in {"digest", "write"} /\ pc[Gui] = type BY <1>2
    <2>4. ASSUME NEW y, y = pc[Gui], Prompt(y)' PROVE (\A g \in late : g.type # y) /\ NoneOf(queue'[using[Gui]], y)
      BY <1>1, <2>2, <2>4 DEF Prompt
    <2>5. "digest" \notin overdue' /\ pc[Gui] = "digest" /\ f # NoFrame => f.val = buffer[Peer]
      BY <1>1, <2>1, <2>2 DEF Prompt, Truth
    <2> HIDE DEF f
    <2>6. CASE pc[Gui] = "digest" BY <1>1, <2>1, <2>4, <2>5, <2>6, ReturnsAnswers
    <2>7. CASE pc[Gui] = "write" BY <1>1, <2>1, <2>4, <2>5, <2>7, ReturnsAnswers
    <2> QED BY <1>2, <2>6, <2>7
  <1>4. CASE ~Accepted(f, Peer, pc[Gui])
    <2>1. UNCHANGED <<pc, using, txt_status, chunk>> BY <1>1, <1>4 DEF Looked
    <2>2. Peer' = Peer BY <1>1, <2>1 DEF Peer
    <2>3. \A u \in Thread : \A type \in {"digest", "write"} : Fewer(queue'[u], queue[u], type) BY <1>1, FewerQueues
    <2>4. Aside BY <1>1, <2>1, <2>2, <2>3 DEF Aside
    <2> QED BY <2>4, AsideAnswers
  <1> QED BY <1>3, <1>4

\* The window gives up: an answer that is still under way is overdue.
LEMMA GuiGivesUpAnswers ==
  ASSUME Core, Answers, GiveUp(Gui)
  PROVE  Answers'
  <1>1. /\ Waits(Gui) /\ queue[using[Gui]] = <<>> /\ Returns(Gui, NoFrame)
        /\ overdue' = overdue \cup ({f.type : f \in late} \cap {pc[Gui]})
        /\ UNCHANGED <<user, writes, dest, queue, late, buffer, stored>>
    BY DEF GiveUp, form
  <1>2. pc[Gui] \in {"digest", "write"} BY <1>1, GuiWaits
  <1>3. \A s \in Thread : OrTail(queue'[s], queue[s]) BY <1>1 DEF OrTail
  <1>4. ASSUME NEW y, y = pc[Gui], Prompt(y)' PROVE (\A g \in late : g.type # y) /\ NoneOf(queue'[using[Gui]], y)
    <2>1. y \notin overdue' BY <1>2, <1>4 DEF Prompt
    <2>2. \A g \in late : g.type # y BY <1>1, <1>4, <2>1
    <2> QED BY <1>1, <2>2 DEF NoneOf
  <1>5. overdue \subseteq overdue' BY <1>1
  <1>6. CASE pc[Gui] = "digest" BY <1>1, <1>3, <1>4, <1>5, <1>6, ReturnsAnswers
  <1>7. CASE pc[Gui] = "write" BY <1>1, <1>3, <1>4, <1>5, <1>7, ReturnsAnswers
  <1> QED BY <1>2, <1>6, <1>7

-----------------------------------------------------------------------------
(* The theorems *)

\* At the start nobody has a socket and nothing is under way.
LEMMA InitInv == Init => Inv
  <1> SUFFICES ASSUME Init PROVE Core /\ Answers BY DEF Inv
  <1>1. ~Busy /\ pc[Gui] = "idle" /\ (\A t \in Thread : pc[t] = "unused") /\ "idle" \in GuiPc /\ "unused" \in ThreadPc
    BY Addresses DEF Init, Busy, BusyPc, GuiPc, ThreadPc
  <1>2. (\A s \in Thread : queue[s] = <<>>) /\ late = {} BY DEF Init
  <1>3. ~Polls /\ \A t \in Thread : ~Alive(t) BY <1>1 DEF Polls, Alive
  <1>4. Typed
    <2>1. pc \in [Worker -> ThreadPc \cup GuiPc] BY <1>1 DEF Init
    <2>2. user.careful \in BOOLEAN /\ user.writes \in Nat BY SetConfigAssumption DEF Init
    <2>3. queue \in [Thread -> Seq(AnyFrame)] BY DEF Init
    <2>4. buffer \in [Board -> Content] /\ stored \in [Board -> Content \cup {Old}] BY DEF Init, Content
    <2>5. using \in [Worker -> Thread \cup {0}] /\ held \in [Worker -> AnyFrame \cup {NoFrame}]
          /\ dest \in [Thread -> Mac] /\ attn \in [Board -> BOOLEAN] /\ late \subseteq AnyFrame
      BY DEF Init, Mac
    <2>6. mac \in Mac /\ soc \in Thread \cup {0} /\ writes \in Nat /\ chunk \in Nat BY DEF Init, Mac
    <2> QED BY <1>1, <2>1, <2>2, <2>3, <2>4, <2>5, <2>6 DEF Typed
  <1>5. Sockets
    <2>1. soc = 0 /\ (\A w \in Worker : using[w] = 0 /\ held[w] = NoFrame) /\ mac = NoMac
          /\ \A s \in Thread : dest[s] = NoMac
      BY DEF Init
    <2> QED BY <1>1, <2>1, Addresses DEF Sockets
  <1>6. Heard BY <1>2, Addresses DEF Init, Heard
  <1>7. CarefulInv
    <2>1. soc = 0 BY DEF Init
    <2> QED BY <1>1, <1>3, <2>1 DEF CarefulInv
  <1>8. HastyInv BY <1>1 DEF HastyInv
  <1>9. Core BY <1>1, <1>4, <1>5, <1>6, <1>7, <1>8 DEF Core
  <1>10. Answers
    <2>1. \A type : Quiet(type) BY <1>2 DEF Quiet, NoneOf
    <2>2. \A b \in Board : stored[b].is \in {"old", "block"} BY DEF Init, Old
    <2> QED BY <1>1, <2>1, <2>2 DEF Answers, Asked
  <1> QED BY <1>9, <1>10

\* The user stays the same.
LEMMA SameUser == [Next]_vars => user' = user
  <1> SUFFICES ASSUME [Next]_vars PROVE user' = user OBVIOUS
  <1>1. \A t \in Thread : Proceeds(t) => user' = user
    BY DEF Proceeds, GetDest, MakeSocket, Polling, SendAttn, Connected, StopsPolling, DropsSocket, form
  <1>2. \A t \in Thread : Connect(t) => user' = user BY DEF Connect, form
  <1>3. \A w \in Worker : Receives(w) => user' = user BY DEF Receives, Receive, Bind, GiveUp, form
  <1>4. \A f \in late : AnswerArrives(f) => user' = user BY DEF AnswerArrives, form
  <1>5. \A m \in Mac : EditMac(m) => user' = user BY DEF EditMac
  <1>6. \A block \in 1 .. writes + 1 : Write(block) => user' = user BY DEF Write
  <1>7. OnCheckParamsValid \/ UpdateWriteButton \/ destroy \/ Transfer \/ AskDigest \/ AskWrite => user' = user
    BY DEF OnCheckParamsValid, UpdateWriteButton, destroy, Transfer, AskDigest, AskWrite, form
  <1>8. UNCHANGED vars => user' = user BY DEF vars, form
  <1> QED BY <1>1, <1>2, <1>3, <1>4, <1>5, <1>6, <1>7, <1>8 DEF Next

\* Every step keeps the workers and their sockets in order.
LEMMA NextCore ==
  ASSUME Core, Cautious, [Next]_vars
  PROVE  Core'
  <1>1. \A t \in Thread : Proceeds(t) => Core'
    BY GetDestKeeps, MakeSocketKeeps, PollingKeeps, SendAttnKeeps, ConnectedKeeps, StopsPollingKeeps,
       DropsSocketKeeps DEF Proceeds
  <1>2. \A t \in Thread : Connect(t) => Core' BY ConnectKeeps
  <1>3. \A w \in Worker : Receives(w) => Core' BY ReceivesKeeps
  <1>4. \A f \in late : AnswerArrives(f) => Core' BY AnswerArrivesKeeps
  <1>5. \A m \in Mac : EditMac(m) => Core' BY EditMacKeeps
  <1>6. \A block \in 1 .. writes + 1 : Write(block) => Core' BY WriteKeeps
  <1>7. OnCheckParamsValid \/ UpdateWriteButton \/ destroy \/ Transfer \/ AskDigest \/ AskWrite => Core'
    BY OnCheckParamsValidKeeps, UpdateWriteButtonKeeps, DestroyKeeps, TransferKeeps, AskDigestKeeps, AskWriteKeeps
  <1>8. CASE UNCHANGED vars
    <2>1. UNCHANGED <<user, mac, writes, soc, txt_status, pc, using, held, dest, queue, late, attn, buffer, stored, chunk>>
      BY <1>8 DEF vars, form, sockets, boards
    <2>2. Typed' /\ Sockets' /\ Heard' BY <2>1 DEF Core, Typed, Sockets, Heard, Busy
    <2>3. user.careful => CarefulInv' BY <2>1 DEF Core, CarefulInv, Busy, Polls, Alive, Good, Resting
    <2>4. ~user.careful => HastyInv' BY <2>1, HastyStep
    <2>5. Busy' => Writing' BY <2>1, WritingKept
    <2> QED BY <2>1, <2>2, <2>3, <2>4, <2>5, Whole1
  <1> QED BY <1>1, <1>2, <1>3, <1>4, <1>5, <1>6, <1>7, <1>8 DEF Next

\* And the answers.
LEMMA NextAnswers ==
  ASSUME Core, Cautious, Answers, [Next]_vars
  PROVE  Answers'
  <1>1. \A t \in Thread : Proceeds(t) => Answers' BY ProceedsAside, AsideAnswers
  <1>2. \A w \in Worker : Receives(w) => Answers'
    <2>1. \A t \in Thread : Receives(t) => Answers' BY ThreadReceivesAside, AsideAnswers
    <2>2. ~Bind(Gui) BY DEF Bind, Core, Sockets
    <2>3. Receives(Gui) => Answers' BY <2>2, GuiReceiveAnswers, GuiGivesUpAnswers DEF Receives
    <2> QED BY <2>1, <2>3 DEF Worker
  <1>3. \A f \in late : AnswerArrives(f) => Answers' BY ArrivesAnswers
  <1>4. \A t \in Thread : Connect(t) => Answers' BY WindowAside, AsideAnswers
  <1>5. \A m \in Mac : EditMac(m) => Answers' BY WindowAside, AsideAnswers
  <1>6. OnCheckParamsValid \/ UpdateWriteButton \/ destroy => Answers' BY WindowAside, AsideAnswers
  <1>7. \A block \in 1 .. writes + 1 : Write(block) => Answers' BY WriteAnswers
  <1>8. Transfer \/ AskDigest \/ AskWrite => Answers' BY TransferAnswers, AskDigestAnswers, AskWriteAnswers
  <1>9. CASE UNCHANGED vars
    <2>1. UNCHANGED <<user, writes, pc, using, dest, queue, late, buffer, stored, overdue, chunk>>
      BY <1>9 DEF vars, form, sockets, boards
    <2>2. \A s \in Thread : OrTail(queue'[s], queue[s]) BY <2>1 DEF OrTail
    <2>3. \A s \in Thread : \A type \in {"digest", "write"} : Fewer(queue'[s], queue[s], type) BY <2>2, FewerQueues
    <2>4. Aside BY <2>1, <2>3 DEF Aside, Peer
    <2> QED BY <2>4, AsideAnswers
  <1> QED BY <1>1, <1>2, <1>3, <1>4, <1>5, <1>6, <1>7, <1>8, <1>9 DEF Next

\* The inductive step.
LEMMA NextInv == Inv /\ [Next]_vars => Inv'
  <1> SUFFICES ASSUME Inv, [Next]_vars, Cautious' PROVE Core' /\ Answers' BY DEF Inv
  <1>1. user' = user BY SameUser
  <1>2. Cautious /\ Core /\ Answers BY <1>1 DEF Cautious, Inv
  <1> QED BY <1>2, NextCore, NextAnswers

\* The invariant holds throughout.
LEMMA Invariant == Spec => []Inv
  <1> QED BY InitInv, NextInv, PTL DEF Spec

\* With a user who lets each poll end, or who names one board and writes once,
\* a board stores a whole block or keeps its old one (bb_eth_setconfig.py,
\* SendChunk), whatever frames are lost, however late the answers to attention
\* and to the write are and whatever the poll threads do: as long as no answer to
\* a request for the digest comes after the 50ms that Send waits for it.
THEOREM WholeBlocks == Spec => []StoresWholeBlocks
  <1>1. Inv => StoresWholeBlocks BY DEF Inv, Answers, StoresWholeBlocks
  <1> QED BY <1>1, Invariant, PTL

\* A user who lets each poll end writes to a board that has answered, and no poll
\* thread reads from the socket (Write and PollThread share self.soc).
THEOREM Undisturbed == Spec => []WritesUndisturbed
  <1>1. Inv => WritesUndisturbed
    <2> SUFFICES ASSUME Inv, user.careful, using[Gui] # 0
                 PROVE  /\ dest[using[Gui]] \in Board /\ attn[dest[using[Gui]]]
                        /\ \A t \in Thread : using[t] # using[Gui]
      BY DEF WritesUndisturbed
    <2>1. Core BY DEF Inv, Cautious
    <2>2. Busy BY <2>1 DEF Core, Sockets
    <2>3. ~Polls /\ soc = using[Gui] /\ Good(soc) BY <2>1, <2>2, Underway
    <2>4. \A t \in Thread : using[t] = 0 BY <2>1, <2>3 DEF Core, Sockets, Polls, Alive
    <2> QED BY <2>3, <2>4 DEF Good
  <1> QED BY <1>1, Invariant, PTL

\* The ways on for a window that waits.
LEMMA GuiAnswers ==
  ASSUME Core, Waits(Gui), NEW f, Returns(Gui, f)
  PROVE  GoesToStore(f) \/ GoesBack \/ Fails \/ Succeeds(f)
  <1>1. pc[Gui] \in {"digest", "write"} BY GuiWaits
  <1> QED BY <1>1, GuiReturns

\* Who reports what: only the window, and only on the board's "ok".
LEMMA Reported ==
  ASSUME Core, Answers, overdue = {}, Next, txt_status' = "Chunk written!", txt_status # "Chunk written!"
  PROVE  dest'[using[Gui]] \in Board /\ stored[dest'[using[Gui]]] = Whole(chunk)
  <1>1. Receives(Gui)
    <2>1. \A t \in Thread : ~Proceeds(t)
      BY DEF Proceeds, GetDest, MakeSocket, Polling, SendAttn, Connected, StopsPolling, DropsSocket
    <2>2. \A t \in Thread : ~Connect(t) BY DEF Connect
    <2>3. \A t \in Thread : ~Receives(t)
      <3> SUFFICES ASSUME NEW t \in Thread, Receives(t) PROVE FALSE OBVIOUS
      <3>1. pc[t] \notin {"digest", "write"} BY DEF Core, Typed, ThreadPc
      <3>2. \A f : Returns(t, f) => txt_status' = txt_status BY <3>1 DEF Returns
      <3>3. \A f, d : Looked(t, f, d) => txt_status' = txt_status BY <3>2 DEF Looked
      <3> QED BY <3>2, <3>3 DEF Receives, Receive, Bind, GiveUp
    <2>4. \A f \in late : ~AnswerArrives(f) BY DEF AnswerArrives
    <2>5. \A m \in Mac : ~EditMac(m) BY DEF EditMac
    <2>6. \A block \in 1 .. writes + 1 : ~Write(block) BY DEF Write
    <2>7. ~OnCheckParamsValid /\ ~UpdateWriteButton /\ ~destroy /\ ~AskDigest /\ ~AskWrite
      BY DEF OnCheckParamsValid, UpdateWriteButton, destroy, AskDigest, AskWrite
    <2>8. ~Transfer BY DEF Transfer, WriteEnds
    <2> QED BY <2>1, <2>2, <2>3, <2>4, <2>5, <2>6, <2>7, <2>8 DEF Next, Worker
  <1>2. ~Bind(Gui) BY DEF Bind, Core, Sockets
  <1>3. \A f : Returns(Gui, f) /\ Waits(Gui) => Succeeds(f)
    <2> SUFFICES ASSUME NEW f, Returns(Gui, f), Waits(Gui) PROVE Succeeds(f) OBVIOUS
    <2>1. GoesToStore(f) \/ GoesBack \/ Fails \/ Succeeds(f) BY GuiAnswers
    <2>2. ~GoesToStore(f) BY DEF GoesToStore
    <2>3. ~GoesBack BY DEF GoesBack
    <2>4. ~Fails BY DEF Fails, WriteEnds
    <2> QED BY <2>1, <2>2, <2>3, <2>4
  <1>4. ~GiveUp(Gui)
    <2> SUFFICES ASSUME GiveUp(Gui) PROVE FALSE OBVIOUS
    <2>1. Succeeds(NoFrame) BY <1>3 DEF GiveUp
    <2> QED BY <2>1 DEF Succeeds
  <1>5. Receive(Gui) BY <1>1, <1>2, <1>4 DEF Receives
  <1> DEFINE f == Head(queue[using[Gui]])
  <1>6. Waits(Gui) /\ queue[using[Gui]] # <<>> /\ using[Gui] \in Thread /\ dest' = dest /\ Looked(Gui, f, Peer)
    BY <1>5, GuiTakes
  <1>7. Peer \in Board BY <1>6, GuiWaits
  <1>8. Accepted(f, Peer, pc[Gui]) /\ Returns(Gui, f) BY <1>6 DEF Looked
  <1>9. pc[Gui] = "write" /\ f.val = "ok" /\ f.type = "write"
    <2>1. Succeeds(f) BY <1>3, <1>6, <1>8
    <2> QED BY <1>8, <2>1 DEF Succeeds, Accepted
  <1>10. Truth(f) BY <1>6, <1>9, TakenIsTrue DEF Prompt
  <1> QED BY <1>6, <1>7, <1>9, <1>10 DEF Truth, Peer

\* With such a user, or one who names one board and writes once, the window says
\* "Chunk written!" only when the board of the socket has the block in its flash,
\* however late answers to attention and poll threads interfere: as long as no
\* answer to a digest (50ms) or to a write (1s) has come after its time.
THEOREM ReportsTrue == Spec => WrittenIsTrue
  <1>1. Inv /\ [Next]_vars =>
          [Cautious /\ overdue = {} /\ txt_status' = "Chunk written!" /\ txt_status # "Chunk written!" =>
             dest'[using[Gui]] \in Board /\ stored[dest'[using[Gui]]] = Whole(chunk)]_vars
    BY Reported DEF Inv
  <1> QED BY <1>1, Invariant, PTL DEF Spec, WrittenIsTrue
=============================================================================
