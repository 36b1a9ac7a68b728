----------------------------- MODULE SetConfig -----------------------------
(***************************************************************************)
(* The configuration tool (tools/bb_eth_setconfig.py): a window with a     *)
(* Connect button, which starts a thread that asks a board for attention,  *)
(* and a Write button, which sends the board its configuration block.      *)
(*                                                                         *)
(* The window and the threads share self.soc, self.txt_status and          *)
(* self.atten_poll without a lock; a step is one access to these, one      *)
(* frame sent or one frame received.  The boards are external.  Any answer *)
(* may be lost, or arrive after the time allowed for it; of two equal      *)
(* answers under way one is lost.                                          *)
(*                                                                         *)
(* A careful user waits for the end of a poll before the next click; the   *)
(* others click as they like.  A user enters some addresses (macs), the    *)
(* broadcast address among them or not, and clicks so often on Connect and *)
(* on Write (connects and writes, bounds).                                 *)
(***************************************************************************)
EXTENDS Naturals, Sequences, FiniteSets

CONSTANTS
  Board,        \* the boards on the network
  Users,        \* kinds of users, see above
  Tries,        \* attempts to transfer the block (5)
  MaxConnects,  \* bound on the clicks on Connect of any user
  MaxQueue      \* frames a socket holds

ASSUME SetConfigAssumption ==
  /\ IsFiniteSet(Board) /\ Board \cap {"ff:ff:ff:ff:ff:ff", "none"} = {}
  /\ Users \subseteq [careful : BOOLEAN, macs : SUBSET (Board \cup {"ff:ff:ff:ff:ff:ff", "none"}), connects : Nat, writes : Nat]
  /\ Tries \in Nat \ {0} /\ MaxConnects \in Nat /\ MaxQueue \in Nat \ {0}

Bcast == "ff:ff:ff:ff:ff:ff"
NoMac == "none"               \* GetMac of a text that is no address
Mac == Board \cup {Bcast, NoMac}

Thread == 1 .. MaxConnects    \* poll threads; thread t makes socket t
Gui == 0
Worker == Thread \cup {Gui}

\* What a board has in its buffer or its flash: a block, or something else.
Whole(n) == [is |-> "block", n |-> n]
Part == [is |-> "part", n |-> 0]
Old == [is |-> "old", n |-> 0]
NoFrame == [type |-> "none"]

VARIABLES
  user,         \* the kind of user
  mac,          \* what the text in the MAC field stands for
  connect,      \* the Connect button is sensitive
  write,        \* the Write button is sensitive
  writes,       \* clicks on Write
  soc,          \* self.soc, 0 for None
  txt_status,
  atten_poll,
  pc,           \* where the threads and the window are
  using,        \* socket a worker sends and receives on, 0 for none
  held,         \* frame a worker received before it set the address
  dest,         \* address of a socket's peer
  queue,        \* frames a socket has received
  late,         \* answers under way
  overdue,      \* requests of the window given up with an answer under way
  attn,         \* the board is at attention
  chunk,        \* the block being written, 0 for none
  tries,        \* attempts left to transfer it
  buffer,       \* what is in the board's buffer
  stored        \* what is in the board's configuration block

form == <<user, mac, connect, write, writes>>
sockets == <<using, held, dest, queue>>
boards == <<late, attn, buffer, stored, overdue>>
vars == <<form, soc, txt_status, atten_poll, pc, sockets, boards, chunk, tries>>

Become(w, where) == pc' = [pc EXCEPT ![w] = where]

-----------------------------------------------------------------------------
(* Sockets *)

To(d) == IF d = Bcast THEN Board ELSE {d} \cap Board

\* A socket lives as long as someone refers to it.
OpenSocket(s) == soc = s \/ \E w \in Worker : using[w] = s

\* Every open socket gets a copy of every frame, unless it is full.
Delivered(f) ==
  [s \in Thread |->
     IF OpenSocket(s) /\ Len(queue[s]) < MaxQueue
       THEN Append(queue[s], f) ELSE queue[s]]

Frame(b, type, val) == [src |-> b, type |-> type, val |-> val]

\* Worker w waits in Send for an answer to the command it is named after.
Waits(w) == pc[w] \in {"attn", "digest", "write"}

\* Mutant: the sender is not looked at.
Accepted_any(f, d, cmd) == f.type = cmd

Accepted(f, d, cmd) == f.src = d /\ f.type = cmd

-----------------------------------------------------------------------------
(* Write, from the answers on *)

\* Mutant: any answer to the request for the digest will do.
SameDigest_any(f) == TRUE

SameDigest(f) == f.val = Whole(chunk)

\* SendChunk ends, with an exception unless the status says otherwise.
WriteEnds(status) ==
  /\ pc' = [pc EXCEPT ![Gui] = "idle"]
  /\ using' = [using EXCEPT ![Gui] = 0]
  /\ txt_status' = status
  /\ chunk' = 0 /\ tries' = 0

NextTry ==
  \/ /\ tries > 1
     /\ tries' = tries - 1
     /\ Become(Gui, "transfer")
     /\ UNCHANGED <<using, txt_status, chunk>>
  \/ tries = 1 /\ WriteEnds(txt_status)

\* Mutant: no answer is as good as one.
Unanswered_written == "Chunk written!"

Unanswered == txt_status

\* Send returns with answer f, or NoFrame after the time allowed.
Returns(w, f) ==
  \/ /\ pc[w] = "attn"
     /\ Become(w, IF f = NoFrame THEN "loop" ELSE "ok")
     /\ using' = [using EXCEPT ![w] = 0]
     /\ UNCHANGED <<txt_status, chunk, tries>>
  \/ /\ pc[w] = "digest" /\ f # NoFrame /\ SameDigest(f)
     /\ Become(w, "store")
     /\ UNCHANGED <<using, txt_status, chunk, tries>>
  \/ pc[w] = "digest" /\ ~(f # NoFrame /\ SameDigest(f)) /\ NextTry
  \/ pc[w] = "write" /\ f = NoFrame /\ WriteEnds(Unanswered)
  \/ pc[w] = "write" /\ f # NoFrame
       /\ WriteEnds(IF f.val = "ok" THEN "Chunk written!" ELSE txt_status)

\* The rest of Receive for frame f on a socket with peer d.
Looked(w, f, d) ==
  IF Accepted(f, d, pc[w]) THEN Returns(w, f)
  ELSE UNCHANGED <<pc, using, txt_status, chunk, tries>>

\* Receive takes a frame; a socket with no peer yet gets one, but another
\* worker may come between.
Receive(w) ==
  /\ Waits(w) /\ held[w] = NoFrame
  /\ LET s == using[w]
     IN /\ queue[s] # <<>>
        /\ queue' = [queue EXCEPT ![s] = Tail(@)]
        /\ \/ /\ dest[s] = Bcast
              /\ held' = [held EXCEPT ![w] = Head(queue[s])]
              /\ UNCHANGED <<pc, using, txt_status, chunk, tries>>
           \/ /\ dest[s] # Bcast
              /\ Looked(w, Head(queue[s]), dest[s])
              /\ UNCHANGED held
  /\ UNCHANGED <<form, soc, atten_poll, dest, boards>>

Bind(w) ==
  /\ held[w] # NoFrame
  /\ dest' = [dest EXCEPT ![using[w]] = held[w].src]
  /\ held' = [held EXCEPT ![w] = NoFrame]
  /\ Looked(w, held[w], held[w].src)
  /\ UNCHANGED <<form, soc, atten_poll, queue, boards>>

\* Nothing more to receive, and the time is up.
GiveUp(w) ==
  /\ Waits(w) /\ held[w] = NoFrame /\ queue[using[w]] = <<>>
  /\ Returns(w, NoFrame)
  /\ overdue' = overdue \cup (IF w = Gui THEN {f.type : f \in late} \cap {pc[Gui]} ELSE {})
  /\ UNCHANGED <<form, soc, atten_poll, held, dest, queue, late, attn, buffer, stored>>

-----------------------------------------------------------------------------
(* PollThread *)

GetDest(t) ==
  /\ pc[t] = "new"
  /\ dest' = [dest EXCEPT ![t] = mac]
  /\ Become(t, "dest")
  /\ UNCHANGED <<form, soc, txt_status, atten_poll, using, held, queue, boards, chunk, tries>>

\* Without a network interface there is an exception, and the thread dies.
MakeSocket(t) ==
  /\ pc[t] = "dest"
  /\ \/ soc' = t /\ Become(t, "made")
     \/ Become(t, "done") /\ UNCHANGED soc
  /\ UNCHANGED <<form, txt_status, atten_poll, sockets, boards, chunk, tries>>

Polling(t) ==
  /\ pc[t] = "made"
  /\ txt_status' = "Polling"
  /\ Become(t, "loop")
  /\ UNCHANGED <<form, soc, atten_poll, sockets, boards, chunk, tries>>

\* Mutant: the thread does not look whether it should go on.
Going_on == TRUE

Going == atten_poll

\* The attention frame goes out on whatever socket is the current one; without
\* one, or without an address, the thread dies.  Some of the boards it is for
\* hear it, and some answers get through.
SendAttn(t) ==
  /\ pc[t] = "loop" /\ Going
  /\ \/ /\ soc = 0 \/ dest[soc] = NoMac
        /\ Become(t, "done")
        /\ UNCHANGED <<using, attn, late>>
     \/ /\ soc # 0 /\ dest[soc] # NoMac
        /\ Become(t, "attn")
        /\ using' = [using EXCEPT ![t] = soc]
        /\ \E heard \in SUBSET To(dest[soc]) : \E answers \in SUBSET heard :
             /\ attn' = [b \in Board |-> attn[b] \/ b \in heard]
             /\ late' = late \cup {Frame(b, "attn", "") : b \in answers}
  /\ UNCHANGED <<form, soc, txt_status, atten_poll, held, dest, queue, buffer, stored, overdue, chunk, tries>>

Connected(t) ==
  /\ pc[t] = "ok"
  /\ txt_status' = "Connected"
  /\ Become(t, "done")
  /\ UNCHANGED <<form, soc, atten_poll, sockets, boards, chunk, tries>>

StopsPolling(t) ==
  /\ pc[t] = "loop" /\ ~Going
  /\ txt_status' = "Disconnected"
  /\ Become(t, "ending")
  /\ UNCHANGED <<form, soc, atten_poll, sockets, boards, chunk, tries>>

DropsSocket(t) ==
  /\ pc[t] = "ending"
  /\ soc' = 0
  /\ Become(t, "done")
  /\ UNCHANGED <<form, txt_status, atten_poll, sockets, boards, chunk, tries>>

Proceeds(t) ==
  \/ GetDest(t) \/ MakeSocket(t) \/ Polling(t) \/ SendAttn(t)
  \/ Connected(t) \/ StopsPolling(t) \/ DropsSocket(t)

Receives(w) == Receive(w) \/ Bind(w) \/ GiveUp(w)

PollThread(t) == Proceeds(t) \/ Receives(t)

\* Whoever waits for it or not.
AnswerArrives(f) ==
  /\ late' = late \ {f}
  /\ queue' = Delivered(f)
  /\ UNCHANGED <<form, soc, txt_status, atten_poll, pc, using, held, dest, attn, buffer, stored, overdue, chunk, tries>>

-----------------------------------------------------------------------------
(* The window *)

Alive(t) == pc[t] \notin {"unused", "done"}
Polls == \E t \in Thread : Alive(t)

EditMac(m) ==
  /\ pc[Gui] = "idle" /\ m # mac /\ m \in user.macs
  /\ mac' = m
  /\ UNCHANGED <<user, connect, write, writes, soc, txt_status, atten_poll, pc, sockets, boards, chunk, tries>>

CheckParams == mac # NoMac

\* Every tenth of a second.
OnCheckParamsValid ==
  /\ pc[Gui] = "idle"
  /\ connect' = CheckParams
  /\ txt_status' = IF CheckParams THEN txt_status ELSE "Disconnected"
  /\ Become(Gui, "check")
  /\ UNCHANGED <<user, mac, write, writes, soc, atten_poll, sockets, boards, chunk, tries>>

\* Then it reads the status.  The fields for the addresses may be invalid too.
UpdateWriteButton ==
  /\ pc[Gui] = "check"
  /\ write' \in {FALSE, txt_status = "Connected"}
  /\ Become(Gui, "idle")
  /\ UNCHANGED <<user, mac, connect, writes, soc, txt_status, atten_poll, sockets, boards, chunk, tries>>

Connect(t) ==
  /\ pc[Gui] = "idle" /\ connect /\ pc[t] = "unused" /\ t <= user.connects
  /\ \A u \in 1 .. t - 1 : pc[u] # "unused"
  /\ user.careful => ~Polls
  /\ atten_poll' = TRUE
  /\ Become(t, "new")
  /\ UNCHANGED <<form, soc, txt_status, sockets, boards, chunk, tries>>

\* A block is a new one or one that was written before.  With no socket the
\* callback ends in an exception.
Write(block) ==
  /\ pc[Gui] = "idle" /\ write /\ writes < user.writes
  /\ user.careful => txt_status = "Connected" /\ ~Polls
  /\ writes' = writes + 1
  /\ \/ soc = 0 /\ UNCHANGED <<pc, using, chunk, tries>>
     \/ /\ soc # 0
        /\ using' = [using EXCEPT ![Gui] = soc]
        /\ chunk' = block
        /\ tries' = Tries
        /\ Become(Gui, "transfer")
  /\ UNCHANGED <<user, mac, connect, write, soc, txt_status, atten_poll, held, dest, queue, boards>>

\* The window goes; its threads go on.
destroy ==
  /\ pc[Gui] = "idle"
  /\ atten_poll' = FALSE
  /\ Become(Gui, "quit")
  /\ connect' = FALSE /\ write' = FALSE
  /\ UNCHANGED <<user, mac, writes, soc, txt_status, sockets, boards, chunk, tries>>

Peers == {b \in To(dest[using[Gui]]) : attn[b]}

\* The reset and the data: all of it, some of it or nothing gets through.  A
\* socket without an address raises an exception.
Transfer ==
  /\ pc[Gui] = "transfer"
  /\ \/ /\ dest[using[Gui]] = NoMac
        /\ WriteEnds(txt_status)
        /\ UNCHANGED buffer
     \/ /\ dest[using[Gui]] # NoMac
        /\ Become(Gui, "ask")
        /\ \E got \in [Peers -> {"all", "some", "nothing"}] :
             buffer' = [b \in Board |->
               IF b \notin Peers \/ got[b] = "nothing" THEN buffer[b]
               ELSE IF got[b] = "all" THEN Whole(chunk) ELSE Part]
        /\ UNCHANGED <<using, txt_status, chunk, tries>>
  /\ UNCHANGED <<form, soc, atten_poll, held, dest, queue, late, attn, stored, overdue>>

\* Some boards answer, and some answers get through.
AskDigest ==
  /\ pc[Gui] = "ask"
  /\ Become(Gui, "digest")
  /\ \E bs \in SUBSET Peers :
       late' = late \cup {Frame(b, "digest", buffer[b]) : b \in bs}
  /\ UNCHANGED <<form, soc, txt_status, atten_poll, sockets, attn, buffer, stored, overdue, chunk, tries>>

\* Some boards get the request, some of those find the flash faulty, and some
\* answers get through.
AskWrite ==
  /\ pc[Gui] = "store"
  /\ Become(Gui, "write")
  /\ \E got \in SUBSET Peers : \E good, bs \in SUBSET got :
       /\ stored' = [b \in Board |-> IF b \in good THEN buffer[b] ELSE stored[b]]
       /\ late' = late \cup {Frame(b, "write", IF b \in good THEN "ok" ELSE "err") : b \in bs}
  /\ UNCHANGED <<form, soc, txt_status, atten_poll, sockets, attn, buffer, overdue, chunk, tries>>

-----------------------------------------------------------------------------

Init ==
  /\ user \in Users
  /\ mac = NoMac /\ connect = FALSE /\ write = TRUE /\ writes = 0
  /\ soc = 0 /\ txt_status = "Disconnected" /\ atten_poll = FALSE
  /\ pc = [w \in Worker |-> IF w = Gui THEN "idle" ELSE "unused"]
  /\ using = [w \in Worker |-> 0] /\ held = [w \in Worker |-> NoFrame]
  /\ dest = [s \in Thread |-> NoMac] /\ queue = [s \in Thread |-> <<>>]
  /\ late = {} /\ overdue = {} /\ attn = [b \in Board |-> FALSE]
  /\ chunk = 0 /\ tries = 0
  /\ buffer = [b \in Board |-> Part] /\ stored = [b \in Board |-> Old]

Next ==
  \/ \E t \in Thread : Proceeds(t) \/ Connect(t)
  \/ \E w \in Worker : Receives(w)
  \/ \E f \in late : AnswerArrives(f)
  \/ \E m \in Mac : EditMac(m)
  \/ \E block \in 1 .. writes + 1 : Write(block)
  \/ OnCheckParamsValid \/ UpdateWriteButton \/ destroy
  \/ Transfer \/ AskDigest \/ AskWrite

\* The threads run; users need not act, and boards need not answer.
Spec ==
  /\ Init /\ [][Next]_vars
  /\ \A t \in Thread : WF_vars(PollThread(t))

-----------------------------------------------------------------------------
(* Properties *)

\* The user lets each poll end, or names one board and writes once.  (Others may
\* change the peer between the digest and the write, or find the answer to an
\* earlier digest on the socket.)
Cautious == user.careful \/ (Bcast \notin user.macs /\ user.writes <= 1)

\* Whatever is lost, and however late answers to attention and to the write
\* are, a board that is configured holds a whole block, never what is left of
\* a broken transfer: as long as no answer to a request for the digest comes
\* after the 50ms.  (One that does is taken for the next one's, as in the
\* upload tools; BiffUpload has the run that shows it.)
StoresWholeBlocks ==
  Cautious /\ "digest" \notin overdue =>
    \A b \in Board : stored[b].is \in {"old", "block"}

\* If the user lets each poll end, a write is for a board that has answered,
\* and no poll reads from the socket of the write.
WritesUndisturbed ==
  user.careful /\ using[Gui] # 0 =>
    /\ dest[using[Gui]] \in Board /\ attn[dest[using[Gui]]]
    /\ \A t \in Thread : using[t] # using[Gui]

\* The status says that the block is written only when the board has it, as long
\* as no answer to the window, to the digest or to the write, came after its time.
WrittenIsTrue ==
  [][Cautious /\ overdue = {} /\ txt_status' = "Chunk written!" /\ txt_status # "Chunk written!" =>
       dest'[using[Gui]] \in Board /\ stored[dest'[using[Gui]]] = Whole(chunk)]_vars

\* Once the window is closed every poll thread ends, so that the program does.
QuitEnds == (pc[Gui] = "quit") ~> ~Polls
=============================================================================
