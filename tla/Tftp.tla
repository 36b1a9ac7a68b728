-------------------------------- MODULE Tftp --------------------------------
(***************************************************************************)
(* The TFTP half of tools/bootp_server.py, from which a board boots its    *)
(* kernel: a server that starts a thread with a socket of its own for      *)
(* every request it receives, and the lock-step transfer of that thread,   *)
(* against a client that keeps to the protocol.                            *)
(*                                                                         *)
(* A file is the number of its DATA packets: all are full but the last,    *)
(* which may be empty.  Block n carries the n-th piece of the file.        *)
(***************************************************************************)
EXTENDS Naturals, Sequences

CONSTANTS
  Conn,         \* threads the server starts, 1, 2, ...
  Files,        \* sizes of the file in DATA packets, 0 if it does not exist
  MaxBlock,     \* largest block number the signed header field holds (32767)
  Retry,        \* retransmissions before the server gives up (5)
  ClientTries,  \* bound on the client's retransmissions
  MaxLoss,      \* bound on the packets lost
  Cases         \* values of timing and refuses, below

ASSUME TftpAssumption ==
  /\ Conn \subseteq Nat \ {0} /\ Files \subseteq Nat
  /\ MaxBlock \in Nat \ {0} /\ Retry \in Nat \ {0}
  /\ ClientTries \in Nat /\ MaxLoss \in Nat
  /\ Cases \subseteq {"race", "prompt", "patient"} \X BOOLEAN

VARIABLES
  file,      \* the file served
  timing,    \* "race": a timeout may race a packet that is on its way;
             \* "prompt": it may not; "patient": and the client's are longer
  refuses,   \* the client answers packets of a second thread with an error
  thr,       \* state of a thread: "none", "active", "done", "error", "dead"
  block,     \* its blockNumber
  pos,       \* pieces read from its file
  lastpkt,   \* its last DATA packet
  retry,     \* retransmissions left in its recv
  requests,  \* read requests on their way to the server
  toServer,  \* packets on their way to a thread
  toClient,  \* packets on their way to the client from a thread
  client,    \* "asking", "reading", "done" or "gone"
  tid,       \* the thread the client reads from, 0 for none yet
  got,       \* the pieces it has received
  tries,     \* retransmissions it has made
  lost       \* packets lost

thread == <<thr, block, pos, lastpkt, retry>>
reader == <<client, tid, got, tries>>
given == <<file, timing, refuses>>
vars == <<given, thread, requests, toServer, toClient, reader, lost>>

\* Of the packets sent, those in ps join channel ch of thread c and n are lost.
Join(ch, c, ps, n) ==
  /\ lost + n <= MaxLoss
  /\ lost' = lost + n
  /\ ch' = [ch EXCEPT ![c] = @ \o ps]

\* A packet is delivered, or lost.
Delivered(ch, c, p) == Join(ch, c, <<p>>, 0) \/ Join(ch, c, <<>>, 1)

Data(n, piece) == [op |-> "DATA", block |-> n, piece |-> piece]
Ack(n) == [op |-> "ACK", block |-> n]
Error == [op |-> "ERR"]

-----------------------------------------------------------------------------
(* A server thread *)

\* An exception that is no TFTPError, so that connect does not catch it, ends
\* the thread without a word: the file cannot be opened, or sendData cannot
\* pack the block number (which nobody reads from then on, so that it need not
\* advance here).
Dies(c) ==
  /\ thr' = [thr EXCEPT ![c] = "dead"]
  /\ UNCHANGED <<block, pos, lastpkt, retry, toClient, lost>>

\* The next piece of the file; after the last one the loop is left.  A block
\* number that does not fit the header is an exception nobody catches.
sendData(c) ==
  \/ /\ block[c] + 1 > MaxBlock
     /\ Dies(c)
  \/ /\ block[c] + 1 <= MaxBlock
     /\ LET p == Data(block[c] + 1, pos[c] + 1)
        IN /\ lastpkt' = [lastpkt EXCEPT ![c] = p]
           /\ Delivered(toClient, c, p)
     /\ block' = [block EXCEPT ![c] = @ + 1]
     /\ pos' = [pos EXCEPT ![c] = @ + 1]
     /\ retry' = [retry EXCEPT ![c] = Retry]
     /\ thr' = [thr EXCEPT ![c] = IF pos[c] + 1 < file THEN "active" ELSE "done"]

\* The server hands the request to a new thread, which opens the file.
forever(c) ==
  /\ requests > 0 /\ thr[c] = "none"
  /\ \A d \in Conn : d < c => thr[d] # "none"
  /\ requests' = requests - 1
  /\ \/ file = 0 /\ Dies(c)
     \/ file > 0 /\ sendData(c)
  /\ UNCHANGED <<given, toServer, reader>>

\* Mutant: the retries are not counted down.
recvTimeout_forever(c) ==
  /\ thr[c] = "active"
  /\ timing = "race" \/ (toServer[c] = <<>> /\ toClient[c] = <<>>)
  /\ Delivered(toClient, c, lastpkt[c])
  /\ UNCHANGED <<given, thread, requests, toServer, reader>>

\* Mutant: one retry too many.
recvTimeout_more(c) ==
  /\ thr[c] = "active"
  /\ timing = "race" \/ (toServer[c] = <<>> /\ toClient[c] = <<>>)
  /\ retry' = [retry EXCEPT ![c] = @ - 1]
  /\ thr' = [thr EXCEPT ![c] = IF retry[c] = 0 THEN "error" ELSE @]
  /\ Delivered(toClient, c, lastpkt[c])
  /\ UNCHANGED <<given, block, pos, lastpkt, requests, toServer, reader>>

\* Mutant: nothing is sent again.
recvTimeout_silent(c) ==
  /\ thr[c] = "active"
  /\ timing = "race" \/ (toServer[c] = <<>> /\ toClient[c] = <<>>)
  /\ retry' = [retry EXCEPT ![c] = @ - 1]
  /\ thr' = [thr EXCEPT ![c] = IF retry[c] = 1 THEN "error" ELSE @]
  /\ UNCHANGED <<given, block, pos, lastpkt, requests, toServer, toClient, reader, lost>>

\* recv times out: the last packet again and, when that was the last retry,
\* an error right behind it.
recvTimeout(c) ==
  /\ thr[c] = "active"
  /\ timing = "race" \/ (toServer[c] = <<>> /\ toClient[c] = <<>>)
  /\ retry' = [retry EXCEPT ![c] = @ - 1]
  /\ \/ /\ retry[c] > 1
        /\ Delivered(toClient, c, lastpkt[c])
        /\ UNCHANGED thr
     \/ /\ retry[c] = 1
        /\ \E ps \in {<<lastpkt[c], Error>>, <<lastpkt[c]>>, <<Error>>, <<>>} :
             Join(toClient, c, ps, 2 - Len(ps))
        /\ thr' = [thr EXCEPT ![c] = "error"]
  /\ UNCHANGED <<given, block, pos, lastpkt, requests, toServer, reader>>

\* Mutant: an acknowledgement of any block is taken for the current one.
IsCurrent_any(c, m) == m.op = "ACK"

\* The packet acknowledges the block the thread has sent.
IsCurrent(c, m) == m.op = "ACK" /\ m.block = block[c]

\* Mutant: a repeated acknowledgement reads on in the file.
recvOldAck_reads(c) ==
  /\ thr[c] = "active" /\ toServer[c] # <<>>
  /\ Head(toServer[c]).op = "ACK" /\ ~IsCurrent(c, Head(toServer[c]))
  /\ toServer' = [toServer EXCEPT ![c] = Tail(@)]
  /\ pos' = [pos EXCEPT ![c] = @ + 1]
  /\ retry' = [retry EXCEPT ![c] = Retry]
  /\ UNCHANGED <<given, thr, block, lastpkt, requests, toClient, reader, lost>>

\* The acknowledgement waited for.
recvAck(c) ==
  /\ thr[c] = "active" /\ toServer[c] # <<>>
  /\ IsCurrent(c, Head(toServer[c]))
  /\ toServer' = [toServer EXCEPT ![c] = Tail(@)]
  /\ sendData(c)
  /\ UNCHANGED <<given, requests, reader>>

\* Any other acknowledgement only starts a new wait.
recvOldAck(c) ==
  /\ thr[c] = "active" /\ toServer[c] # <<>>
  /\ Head(toServer[c]).op = "ACK" /\ ~IsCurrent(c, Head(toServer[c]))
  /\ toServer' = [toServer EXCEPT ![c] = Tail(@)]
  /\ retry' = [retry EXCEPT ![c] = Retry]
  /\ UNCHANGED <<given, thr, block, pos, lastpkt, requests, toClient, reader, lost>>

\* An error of the client is printed and answered with the last packet.
recvErr(c) ==
  /\ thr[c] = "active" /\ toServer[c] # <<>>
  /\ Head(toServer[c]) = Error
  /\ toServer' = [toServer EXCEPT ![c] = Tail(@)]
  /\ retry' = [retry EXCEPT ![c] = Retry]
  /\ Delivered(toClient, c, lastpkt[c])
  /\ UNCHANGED <<given, thr, block, pos, lastpkt, requests, reader>>

\* Nobody reads the socket of a thread that has ended.
Closed(c) ==
  /\ thr[c] \in {"done", "error", "dead"} /\ toServer[c] # <<>>
  /\ toServer' = [toServer EXCEPT ![c] = <<>>]
  /\ UNCHANGED <<given, thread, requests, toClient, reader, lost>>

-----------------------------------------------------------------------------
(* The client *)

\* No request is on its way, and nothing between the client and the threads
\* it may be reading from.
Quiet ==
  requests = 0 /\ \A c \in Conn : tid \in {0, c} => toServer[c] = <<>> /\ toClient[c] = <<>>

\* The client's timeout may strike.
ClientWaited ==
  \/ timing = "race"
  \/ Quiet /\ (timing = "patient" => \A c \in Conn : thr[c] # "active")

\* A first or repeated request for the file.
ClientRequest ==
  /\ client = "asking" /\ requests = 0 /\ \E c \in Conn : thr[c] = "none"
  /\ tries <= ClientTries /\ (tries = 0 \/ ClientWaited)
  /\ tries' = tries + 1
  /\ \/ requests' = requests + 1 /\ UNCHANGED lost
     \/ UNCHANGED requests /\ lost < MaxLoss /\ lost' = lost + 1
  /\ UNCHANGED <<given, thread, toServer, toClient, client, tid, got>>

\* Data of the thread it reads from, the first one to answer: the block that
\* is due is stored, and any block up to it acknowledged.
ClientData(c) ==
  /\ client \in {"asking", "reading"}
  /\ toClient[c] # <<>> /\ Head(toClient[c]).op = "DATA"
  /\ tid \in {0, c}
  /\ tid' = c
  /\ LET m == Head(toClient[c])
     IN /\ got' = IF m.block = Len(got) + 1 THEN Append(got, m.piece) ELSE got
        /\ client' = IF Len(got') = file THEN "done" ELSE "reading"
        /\ \/ m.block <= Len(got) + 1 /\ Delivered(toServer, c, Ack(m.block))
           \/ m.block > Len(got) + 1 /\ UNCHANGED <<toServer, lost>>
  /\ toClient' = [toClient EXCEPT ![c] = Tail(@)]
  /\ UNCHANGED <<given, thread, requests, tries>>

\* Data of another thread is refused or ignored; nobody reads what comes
\* after the end.
ClientForeign(c) ==
  /\ toClient[c] # <<>>
  /\ client \in {"done", "gone"} \/ tid \notin {0, c}
  /\ toClient' = [toClient EXCEPT ![c] = Tail(@)]
  /\ IF refuses /\ client = "reading" /\ Head(toClient[c]).op = "DATA"
       THEN Delivered(toServer, c, Error)
       ELSE UNCHANGED <<toServer, lost>>
  /\ UNCHANGED <<given, thread, requests, reader>>

\* The server gave up on it.
ClientError(c) ==
  /\ client \in {"asking", "reading"} /\ tid \in {0, c}
  /\ toClient[c] # <<>> /\ Head(toClient[c]).op = "ERR"
  /\ client' = "gone"
  /\ toClient' = [toClient EXCEPT ![c] = Tail(@)]
  /\ UNCHANGED <<given, thread, requests, toServer, tid, got, tries, lost>>

\* Nothing came: its last acknowledgement again.
ClientRepeats ==
  /\ client = "reading" /\ tries <= ClientTries /\ ClientWaited
  /\ tries' = tries + 1
  /\ Delivered(toServer, tid, Ack(Len(got)))
  /\ UNCHANGED <<given, thread, requests, toClient, client, tid, got>>

\* Nothing came, and it has no further try.
ClientGivesUp ==
  /\ client \in {"asking", "reading"} /\ ClientWaited
  /\ \/ tries > ClientTries
     \/ client = "asking" /\ \A c \in Conn : thr[c] # "none"
  /\ client' = "gone"
  /\ UNCHANGED <<given, thread, requests, toServer, toClient, tid, got, tries, lost>>

-----------------------------------------------------------------------------

Init ==
  /\ file \in Files
  /\ \E c \in Cases : timing = c[1] /\ refuses = c[2]
  /\ thr = [c \in Conn |-> "none"]
  /\ block = [c \in Conn |-> 0]
  /\ pos = [c \in Conn |-> 0]
  /\ lastpkt = [c \in Conn |-> Data(0, 0)]
  /\ retry = [c \in Conn |-> Retry]
  /\ requests = 0
  /\ toServer = [c \in Conn |-> <<>>]
  /\ toClient = [c \in Conn |-> <<>>]
  /\ client = "asking" /\ tid = 0 /\ got = <<>> /\ tries = 0
  /\ lost = 0

Server(c) ==
  \/ forever(c) \/ recvTimeout(c) \/ recvAck(c) \/ recvOldAck(c) \/ recvErr(c)
  \/ Closed(c)

ClientReceives(c) == ClientData(c) \/ ClientForeign(c) \/ ClientError(c)

Next ==
  \/ ClientRequest \/ ClientRepeats \/ ClientGivesUp
  \/ \E c \in Conn : ClientReceives(c) \/ Server(c)

\* Threads, the network and the client all go on.
Spec ==
  /\ Init /\ [][Next]_vars
  /\ WF_vars(ClientRequest) /\ WF_vars(ClientRepeats) /\ WF_vars(ClientGivesUp)
  /\ \A c \in Conn : WF_vars(ClientReceives(c)) /\ WF_vars(Server(c))

-----------------------------------------------------------------------------
(* Properties *)

\* Every variable has its type; a thread that still waits has a retry left.
TypeOK ==
  /\ file \in Files /\ <<timing, refuses>> \in Cases
  /\ thr \in [Conn -> {"none", "active", "done", "error", "dead"}]
  /\ block \in [Conn -> 0 .. MaxBlock]
  /\ retry \in [Conn -> 0 .. Retry] /\ \A c \in Conn : thr[c] = "active" => retry[c] > 0
  /\ tid \in Conn \cup {0}
  /\ got \in Seq(Nat)
  /\ client \in {"asking", "reading", "done", "gone"}

\* What the client has is the beginning of the file, whatever was lost,
\* repeated or sent by a second thread.
ReceivedInOrder == Len(got) <= file /\ \A i \in 1 .. Len(got) : got[i] = i

\* The thread the client reads from is never more than one block ahead of it:
\* repeated acknowledgements do not make it send what was not asked for.
LockStep == tid # 0 => block[tid] \in {Len(got), Len(got) + 1}

\* Every thread ends, and no client keeps one busy for good.
ThreadsEnd == \A c \in Conn : (thr[c] = "active") ~> (thr[c] # "active")

\* A client that waits longer than the server receives the file, but for its
\* last block, when fewer packets are lost than the server has retries: what
\* else is lost is sent again.  (The thread does not wait for
\* the last acknowledgement, so that block is sent once; and a client that
\* waits less than the server keeps restarting the server's wait.)
FileArrives ==
  (file \in 1 .. MaxBlock /\ timing = "patient" /\ MaxLoss < Retry) => <>(Len(got) >= file - 1)
=============================================================================
