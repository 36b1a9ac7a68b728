------------------------------ MODULE TftpProofs ------------------------------
(* What holds of the TFTP server for every number of threads, size of the    *)
(* file, block limit, retry limit, and every pattern of lost, repeated and   *)
(* late packets.                                                             *)
EXTENDS Tftp, SequenceTheorems, TLAPS

-----------------------------------------------------------------------------
(* The invariant *)

\* f is a function of the threads.
OfThreads(f) == f = [c \in Conn |-> f[c]]

\* What thread c may have on its way to the client: the blocks it has reached.
FromThread(c) == {Data(n, n) : n \in 1 .. block[c]} \cup {Error}

\* What may be on its way to thread c: only the thread the client reads from
\* gets acknowledgements, and none of a block the client does not have.
FromClient(c) == {Ack(n) : n \in {k \in 0 .. Len(got) : c = tid}} \cup {Error}

\* A thread numbers its blocks as the pieces it reads; one that the client
\* does not read from is stuck at its first block.
ThreadInv(c) ==
  /\ pos[c] = block[c] /\ block[c] <= file
  /\ thr[c] = "none" => block[c] = 0
  /\ thr[c] = "active" => block[c] \in 1 .. file - 1 /\ lastpkt[c] = Data(block[c], block[c])
  /\ toClient[c] \in Seq(FromThread(c)) /\ toServer[c] \in Seq(FromClient(c))
  /\ c # tid => block[c] <= 1

\* The client has what it has acknowledged, from one thread.
ClientInv ==
  /\ tid = 0 => got = <<>>
  /\ client = "reading" => tid # 0
  /\ LockStep /\ ReceivedInOrder

Shapes ==
  OfThreads(pos) /\ OfThreads(lastpkt) /\ OfThreads(toClient) /\ OfThreads(toServer)

Inv == TypeOK /\ Shapes /\ ClientInv /\ \A c \in Conn : ThreadInv(c)

-----------------------------------------------------------------------------
(* Channels *)

\* A sequence over a set is one over a larger set.
LEMMA SeqGrows ==
  ASSUME NEW S, NEW T, S \subseteq T, NEW s \in Seq(S) PROVE s \in Seq(T)
  <1>1. Len(s) \in Nat /\ DOMAIN s = 1 .. Len(s) /\ s \in [1 .. Len(s) -> S] OBVIOUS
  <1>2. s \in [1 .. Len(s) -> T] BY <1>1
  <1> QED BY <1>1, <1>2

\* A packet joins a channel or does not.
LEMMA Deliver ==
  ASSUME NEW S, NEW s \in Seq(S), NEW ps \in Seq(S) PROVE s \o ps \in Seq(S)
  OBVIOUS

\* The first packet of a channel.
LEMMA Taken ==
  ASSUME NEW S, NEW s \in Seq(S), s # <<>> PROVE Head(s) \in S /\ Tail(s) \in Seq(S)
  OBVIOUS

\* What Join does to the packets on their way to the client.
LEMMA JoinClient ==
  ASSUME OfThreads(toClient), NEW c \in Conn, NEW ps, NEW n, Join(toClient, c, ps, n)
  PROVE  /\ OfThreads(toClient)' /\ toClient'[c] = toClient[c] \o ps
         /\ \A d \in Conn \ {c} : toClient'[d] = toClient[d]
  BY DEF OfThreads, Join

\* What Join does to the packets on their way to a thread.
LEMMA JoinServer ==
  ASSUME OfThreads(toServer), NEW c \in Conn, NEW ps, NEW n, Join(toServer, c, ps, n)
  PROVE  /\ OfThreads(toServer)' /\ toServer'[c] = toServer[c] \o ps
         /\ \A d \in Conn \ {c} : toServer'[d] = toServer[d]
  BY DEF OfThreads, Join

\* A packet that is delivered to the client, or lost.
LEMMA DeliverClient ==
  ASSUME OfThreads(toClient), NEW c \in Conn, NEW S, NEW p \in S, toClient[c] \in Seq(S),
         Delivered(toClient, c, p)
  PROVE  /\ OfThreads(toClient)' /\ toClient'[c] \in Seq(S)
         /\ \A d \in Conn \ {c} : toClient'[d] = toClient[d]
  <1>1. <<p>> \in Seq(S) /\ <<>> \in Seq(S) OBVIOUS
  <1>2. CASE Join(toClient, c, <<p>>, 0)
    <2>1. /\ OfThreads(toClient)' /\ toClient'[c] = toClient[c] \o <<p>>
          /\ \A d \in Conn \ {c} : toClient'[d] = toClient[d]
      BY <1>2, JoinClient
    <2> QED BY <1>1, <2>1, Deliver
  <1>3. CASE Join(toClient, c, <<>>, 1)
    <2>1. /\ OfThreads(toClient)' /\ toClient'[c] = toClient[c] \o <<>>
          /\ \A d \in Conn \ {c} : toClient'[d] = toClient[d]
      BY <1>3, JoinClient
    <2> QED BY <1>1, <2>1, Deliver
  <1> QED BY <1>2, <1>3 DEF Delivered

\* A packet that is delivered to a thread, or lost.
LEMMA DeliverServer ==
  ASSUME OfThreads(toServer), NEW c \in Conn, NEW S, NEW p \in S, toServer[c] \in Seq(S),
         Delivered(toServer, c, p)
  PROVE  /\ OfThreads(toServer)' /\ toServer'[c] \in Seq(S)
         /\ \A d \in Conn \ {c} : toServer'[d] = toServer[d]
  <1>1. <<p>> \in Seq(S) /\ <<>> \in Seq(S) OBVIOUS
  <1>2. CASE Join(toServer, c, <<p>>, 0)
    <2>1. /\ OfThreads(toServer)' /\ toServer'[c] = toServer[c] \o <<p>>
          /\ \A d \in Conn \ {c} : toServer'[d] = toServer[d]
      BY <1>2, JoinServer
    <2> QED BY <1>1, <2>1, Deliver
  <1>3. CASE Join(toServer, c, <<>>, 1)
    <2>1. /\ OfThreads(toServer)' /\ toServer'[c] = toServer[c] \o <<>>
          /\ \A d \in Conn \ {c} : toServer'[d] = toServer[d]
      BY <1>3, JoinServer
    <2> QED BY <1>1, <2>1, Deliver
  <1> QED BY <1>2, <1>3 DEF Delivered

\* A thread that a step leaves alone.
LEMMA ThreadFrame ==
  ASSUME NEW d, ThreadInv(d), UNCHANGED <<file, tid, got>>,
         thr'[d] = thr[d], block'[d] = block[d], pos'[d] = pos[d], lastpkt'[d] = lastpkt[d],
         toClient'[d] = toClient[d], toServer'[d] = toServer[d]
  PROVE  ThreadInv(d)'
  BY DEF ThreadInv, FromThread, FromClient

-----------------------------------------------------------------------------
(* The server *)

\* sendData by a thread that may go on: it was started, or the client has the
\* block it sent last.
LEMMA SendDataKeeps ==
  ASSUME Inv, NEW c \in Conn, sendData(c), UNCHANGED <<given, reader>>,
         block[c] < file, tid = c => block[c] = Len(got), tid # c => block[c] = 0,
         OfThreads(toServer)', toServer'[c] \in Seq(FromClient(c)),
         \A d \in Conn \ {c} : toServer'[d] = toServer[d]
  PROVE  Inv'
  <1>0. /\ UNCHANGED <<file, timing, refuses, client, tid, got>>
        /\ ThreadInv(c) /\ TypeOK /\ Shapes /\ file \in Nat /\ block[c] \in Nat
        /\ MaxBlock \in Nat /\ Retry \in Nat \ {0}
    BY TftpAssumption DEF Inv, given, reader, TypeOK
  <1>1. CASE block[c] + 1 > MaxBlock /\ Dies(c)
    <2>1. UNCHANGED <<block, pos, lastpkt, retry, toClient>> /\ thr' = [thr EXCEPT ![c] = "dead"]
      BY <1>1 DEF Dies
    <2>2. TypeOK' BY <1>0, <2>1 DEF TypeOK
    <2>3. Shapes' BY <1>0, <2>1 DEF Shapes, OfThreads
    <2>4. thr \in [Conn -> {"none", "active", "done", "error", "dead"}] BY <1>0 DEF TypeOK
    <2>5. ThreadInv(c)'
      BY <1>0, <2>1, <2>4 DEF ThreadInv, FromThread, FromClient
    <2>6. ASSUME NEW d \in Conn \ {c} PROVE ThreadInv(d)'
      BY <1>0, <2>1, <2>4, ThreadFrame DEF Inv
    <2>7. ClientInv' BY <1>0, <2>1 DEF Inv, ClientInv, LockStep, ReceivedInOrder
    <2> QED BY <2>2, <2>3, <2>5, <2>6, <2>7 DEF Inv
  <1>2. CASE block[c] + 1 <= MaxBlock
    <2> DEFINE p == Data(block[c] + 1, pos[c] + 1)
    <2>1. /\ lastpkt' = [lastpkt EXCEPT ![c] = p]
          /\ Delivered(toClient, c, p)
          /\ block' = [block EXCEPT ![c] = @ + 1]
          /\ pos' = [pos EXCEPT ![c] = @ + 1]
          /\ retry' = [retry EXCEPT ![c] = Retry]
          /\ thr' = [thr EXCEPT ![c] = IF pos[c] + 1 < file THEN "active" ELSE "done"]
      BY <1>0, <1>2 DEF sendData
    <2>2. block[c] + 1 \in 0 .. MaxBlock /\ block[c] + 1 <= file /\ pos[c] = block[c]
      BY <1>0, <1>2 DEF ThreadInv
    <2>3. /\ thr'[c] = (IF block[c] + 1 < file THEN "active" ELSE "done")
          /\ block'[c] = block[c] + 1 /\ pos'[c] = block[c] + 1 /\ lastpkt'[c] = p
          /\ \A d \in Conn \ {c} : /\ thr'[d] = thr[d] /\ block'[d] = block[d]
                                   /\ pos'[d] = pos[d] /\ lastpkt'[d] = lastpkt[d]
      BY <1>0, <2>1, <2>2 DEF TypeOK, Shapes, OfThreads
    <2>4. p = Data(block'[c], block'[c]) BY <2>2, <2>3
    <2>5. FromThread(c) \subseteq FromThread(c)' /\ p \in FromThread(c)'
      <3>1. \A n \in 1 .. block[c] : n \in 1 .. block'[c] BY <1>0, <2>3
      <3>2. block'[c] \in 1 .. block'[c] BY <1>0, <2>3
      <3> QED BY <2>4, <3>1, <3>2 DEF FromThread
    <2>6. toClient[c] \in Seq(FromThread(c)') BY <1>0, <2>5, SeqGrows DEF ThreadInv
    <2>7. OfThreads(toClient)' /\ toClient'[c] \in Seq(FromThread(c)')
          /\ \A d \in Conn \ {c} : toClient'[d] = toClient[d]
      BY <1>0, <2>1, <2>5, <2>6, DeliverClient DEF Shapes
    <2>8. TypeOK'
      <3>1. thr' \in [Conn -> {"none", "active", "done", "error", "dead"}]
            /\ block' \in [Conn -> 0 .. MaxBlock] /\ retry' \in [Conn -> 0 .. Retry]
        BY <1>0, <2>1, <2>2 DEF TypeOK
      <3>2. \A d \in Conn : thr'[d] = "active" => retry'[d] > 0
        BY <1>0, <2>1, <2>3 DEF TypeOK
      <3> QED BY <1>0, <3>1, <3>2 DEF TypeOK
    <2>9. Shapes' BY <1>0, <2>1, <2>7 DEF Shapes, OfThreads
    <2>10. ThreadInv(c)'
      <3>1. toServer'[c] \in Seq(FromClient(c)') BY <1>0 DEF FromClient
      <3>2. thr'[c] = "active" => block'[c] \in 1 .. file - 1
        BY <1>0, <2>3
      <3>3. c # tid => block'[c] <= 1 BY <1>0, <2>3
      <3> QED BY <1>0, <2>2, <2>3, <2>4, <2>7, <3>1, <3>2, <3>3 DEF ThreadInv
    <2>11. ASSUME NEW d \in Conn \ {c} PROVE ThreadInv(d)'
      BY <1>0, <2>3, <2>7, ThreadFrame DEF Inv
    <2>12. ClientInv'
      <3>1. LockStep'
        BY <1>0, <2>3 DEF Inv, ClientInv, LockStep, TypeOK
      <3> QED BY <1>0, <3>1 DEF Inv, ClientInv, ReceivedInOrder
    <2> QED BY <2>8, <2>9, <2>10, <2>11, <2>12 DEF Inv
  <1> QED BY <1>0, <1>1, <1>2 DEF sendData

\* A step after which every thread stands where it stood or has ended, the
\* client has what it had, and nothing new is on its way but what the threads
\* and the client may send.
LEMMA Rests ==
  ASSUME Inv, TypeOK', Shapes', UNCHANGED <<file, tid, got, block, pos, lastpkt>>,
         client' \in {client, "gone"},
         \A d \in Conn : /\ thr'[d] \in {thr[d], "error", "dead"}
                         /\ toClient'[d] \in Seq(FromThread(d))
                         /\ toServer'[d] \in Seq(FromClient(d))
  PROVE  Inv'
  <1>1. ClientInv' BY DEF Inv, ClientInv, LockStep, ReceivedInOrder
  <1>2. ASSUME NEW d \in Conn PROVE ThreadInv(d)'
    <2>1. ThreadInv(d) BY DEF Inv
    <2>2. FromThread(d)' = FromThread(d) /\ FromClient(d)' = FromClient(d)
      BY DEF FromThread, FromClient
    <2>3. thr'[d] = "none" => thr[d] = "none" OBVIOUS
    <2>4. thr'[d] = "active" => thr[d] = "active" OBVIOUS
    <2> QED BY <2>1, <2>2, <2>3, <2>4 DEF ThreadInv
  <1> QED BY <1>1, <1>2 DEF Inv

\* The facts about thread c that its own steps use.
LEMMA OfThread ==
  ASSUME Inv, NEW c \in Conn
  PROVE  /\ OfThreads(toClient) /\ toClient[c] \in Seq(FromThread(c))
         /\ OfThreads(toServer) /\ toServer[c] \in Seq(FromClient(c))
         /\ Error \in FromThread(c) /\ Error \in FromClient(c)
         /\ thr[c] = "active" => lastpkt[c] \in FromThread(c)
  <1>1. ThreadInv(c) /\ Shapes BY DEF Inv
  <1>2. ASSUME thr[c] = "active" PROVE lastpkt[c] \in FromThread(c)
    <2>1. file \in Nat BY TftpAssumption DEF Inv, TypeOK
    <2>2. block[c] \in 1 .. block[c] /\ lastpkt[c] = Data(block[c], block[c])
      BY <1>1, <1>2, <2>1 DEF ThreadInv
    <2> QED BY <2>2 DEF FromThread
  <1> QED BY <1>1, <1>2 DEF ThreadInv, Shapes, FromThread, FromClient

\* A packet is taken from the channel to thread c.
LEMMA TakenServer ==
  ASSUME Inv, NEW c \in Conn, toServer[c] # <<>>,
         toServer' = [toServer EXCEPT ![c] = Tail(@)]
  PROVE  /\ OfThreads(toServer)' /\ Head(toServer[c]) \in FromClient(c)
         /\ \A d \in Conn : toServer'[d] \in Seq(FromClient(d))
         /\ \A d \in Conn \ {c} : toServer'[d] = toServer[d]
  <1>1. \A d \in Conn : OfThreads(toServer) /\ toServer[d] \in Seq(FromClient(d))
    BY OfThread
  <1>2. Head(toServer[c]) \in FromClient(c) /\ Tail(toServer[c]) \in Seq(FromClient(c))
    BY <1>1, Taken
  <1>3. OfThreads(toServer)' /\ toServer'[c] = Tail(toServer[c])
        /\ \A d \in Conn \ {c} : toServer'[d] = toServer[d]
    BY <1>1 DEF OfThreads
  <1> QED BY <1>1, <1>2, <1>3

\* A packet is taken from the channel of thread c to the client.
LEMMA TakenClient ==
  ASSUME Inv, NEW c \in Conn, toClient[c] # <<>>,
         toClient' = [toClient EXCEPT ![c] = Tail(@)]
  PROVE  /\ OfThreads(toClient)' /\ Head(toClient[c]) \in FromThread(c)
         /\ \A d \in Conn : toClient'[d] \in Seq(FromThread(d))
  <1>1. \A d \in Conn : OfThreads(toClient) /\ toClient[d] \in Seq(FromThread(d))
    BY OfThread
  <1>2. Head(toClient[c]) \in FromThread(c) /\ Tail(toClient[c]) \in Seq(FromThread(c))
    BY <1>1, Taken
  <1>3. OfThreads(toClient)' /\ toClient'[c] = Tail(toClient[c])
        /\ \A d \in Conn \ {c} : toClient'[d] = toClient[d]
    BY <1>1 DEF OfThreads
  <1> QED BY <1>1, <1>2, <1>3

\* forever starts a thread, which sends its first block or dies.
LEMMA foreverKeeps ==
  ASSUME Inv, NEW c \in Conn, forever(c) PROVE Inv'
  <1>1. UNCHANGED <<given, toServer, reader>> /\ thr[c] = "none" BY DEF forever
  <1>2. UNCHANGED <<file, timing, refuses, client, tid, got, toServer>>
    BY <1>1 DEF given, reader
  <1>3. CASE file = 0 /\ Dies(c)
    <2>1. UNCHANGED <<block, pos, lastpkt, retry, toClient>> /\ thr' = [thr EXCEPT ![c] = "dead"]
      BY <1>3 DEF Dies
    <2>2. TypeOK' BY <1>2, <2>1 DEF Inv, TypeOK
    <2>3. Shapes' BY <1>2, <2>1 DEF Inv, Shapes, OfThreads
    <2>4. \A d \in Conn : thr'[d] \in {thr[d], "error", "dead"} BY <2>1 DEF Inv, TypeOK
    <2>5. \A d \in Conn : toClient'[d] \in Seq(FromThread(d)) /\ toServer'[d] \in Seq(FromClient(d))
      BY <1>2, <2>1, OfThread
    <2> QED BY <1>2, <2>1, <2>2, <2>3, <2>4, <2>5, Rests
  <1>4. CASE file > 0 /\ sendData(c)
    <2>1. block[c] = 0 BY <1>1 DEF Inv, ThreadInv
    <2>2. tid = c => block[c] = Len(got)
      <3>1. Len(got) \in Nat BY DEF Inv, TypeOK
      <3>2. c # 0 BY TftpAssumption
      <3> QED BY <2>1, <3>1, <3>2 DEF Inv, ClientInv, LockStep
    <2>3. OfThreads(toServer)' /\ toServer'[c] \in Seq(FromClient(c))
          /\ \A d \in Conn \ {c} : toServer'[d] = toServer[d]
      BY <1>2, OfThread DEF OfThreads
    <2> QED BY <1>1, <1>4, <2>1, <2>2, <2>3, SendDataKeeps
  <1> QED BY <1>3, <1>4 DEF forever

\* recvAck goes on to the next block: the client has the last one.
LEMMA recvAckKeeps ==
  ASSUME Inv, NEW c \in Conn, recvAck(c) PROVE Inv'
  <1>1. /\ thr[c] = "active" /\ toServer[c] # <<>> /\ IsCurrent(c, Head(toServer[c]))
        /\ toServer' = [toServer EXCEPT ![c] = Tail(@)]
        /\ sendData(c) /\ UNCHANGED <<given, reader>>
    BY DEF recvAck, given, reader
  <1>2. /\ OfThreads(toServer)' /\ Head(toServer[c]) \in FromClient(c)
        /\ \A d \in Conn : toServer'[d] \in Seq(FromClient(d))
        /\ \A d \in Conn \ {c} : toServer'[d] = toServer[d]
    BY <1>1, TakenServer
  <1>3. Len(got) \in Nat /\ file \in Nat /\ block[c] \in Nat /\ c # 0
    BY TftpAssumption DEF Inv, TypeOK
  <1>4. \E n \in 0 .. Len(got) : c = tid /\ Head(toServer[c]) = Ack(n)
    BY <1>1, <1>2 DEF FromClient, IsCurrent, Error
  <1>5. c = tid /\ block[c] <= Len(got) BY <1>1, <1>3, <1>4 DEF IsCurrent, Ack
  <1>6. block[c] = Len(got) BY <1>3, <1>5 DEF Inv, ClientInv, LockStep
  <1>7. block[c] < file BY <1>1, <1>3 DEF Inv, ThreadInv
  <1> QED BY <1>1, <1>2, <1>5, <1>6, <1>7, SendDataKeeps

\* recvTimeout sends the last block again and may end the thread.
LEMMA recvTimeoutKeeps ==
  ASSUME Inv, NEW c \in Conn, recvTimeout(c) PROVE Inv'
  <1>1. /\ thr[c] = "active" /\ retry' = [retry EXCEPT ![c] = @ - 1]
        /\ UNCHANGED <<file, timing, refuses, client, tid, got, block, pos, lastpkt, toServer>>
    BY DEF recvTimeout, given, reader
  <1>2. Retry \in Nat \ {0} /\ retry[c] \in 0 .. Retry /\ retry[c] > 0
    BY <1>1, TftpAssumption DEF Inv, TypeOK
  <1>3. retry' \in [Conn -> 0 .. Retry] /\ retry'[c] = retry[c] - 1
        /\ \A d \in Conn \ {c} : retry'[d] = retry[d]
    BY <1>1, <1>2 DEF Inv, TypeOK
  <1>4. /\ \A d \in Conn : OfThreads(toClient) /\ toClient[d] \in Seq(FromThread(d))
                           /\ toServer[d] \in Seq(FromClient(d))
        /\ lastpkt[c] \in FromThread(c) /\ Error \in FromThread(c)
    BY <1>1, OfThread
  <1>5. SUFFICES /\ OfThreads(toClient)'
                 /\ \A d \in Conn : toClient'[d] \in Seq(FromThread(d))
                 /\ thr' \in [Conn -> {"none", "active", "done", "error", "dead"}]
                 /\ \A d \in Conn \ {c} : thr'[d] = thr[d]
                 /\ thr'[c] \in {"active", "error"}
                 /\ thr'[c] = "active" => retry[c] > 1
    <2>1. \A d \in Conn : thr'[d] = "active" => retry'[d] > 0
      <3>1. thr'[c] = "active" => retry'[c] > 0 BY <1>2, <1>3, <1>5
      <3>2. ASSUME NEW d \in Conn \ {c}, thr'[d] = "active" PROVE retry'[d] > 0
        BY <1>3, <1>5, <3>2 DEF Inv, TypeOK
      <3> QED BY <3>1, <3>2
    <2>2. TypeOK' BY <1>1, <1>3, <1>5, <2>1 DEF Inv, TypeOK
    <2>3. Shapes' BY <1>1, <1>5 DEF Inv, Shapes, OfThreads
    <2>4. \A d \in Conn : thr'[d] \in {thr[d], "error", "dead"} BY <1>1, <1>5
    <2>5. \A d \in Conn : toClient'[d] \in Seq(FromThread(d)) /\ toServer'[d] \in Seq(FromClient(d))
      BY <1>1, <1>4, <1>5
    <2> QED BY <1>1, <2>2, <2>3, <2>4, <2>5, Rests
  <1>6. CASE retry[c] > 1 /\ Delivered(toClient, c, lastpkt[c]) /\ UNCHANGED thr
    <2>1. /\ OfThreads(toClient)' /\ toClient'[c] \in Seq(FromThread(c))
          /\ \A d \in Conn \ {c} : toClient'[d] = toClient[d]
      BY <1>4, <1>6, DeliverClient
    <2> QED BY <1>1, <1>4, <1>6, <2>1 DEF Inv, TypeOK
  <1>7. CASE /\ retry[c] = 1 /\ thr' = [thr EXCEPT ![c] = "error"]
             /\ \E ps \in {<<lastpkt[c], Error>>, <<lastpkt[c]>>, <<Error>>, <<>>} :
                  Join(toClient, c, ps, 2 - Len(ps))
    <2>1. PICK ps \in {<<lastpkt[c], Error>>, <<lastpkt[c]>>, <<Error>>, <<>>} :
                 Join(toClient, c, ps, 2 - Len(ps))
      BY <1>7
    <2>2. ps \in Seq(FromThread(c))
      <3>1. /\ <<lastpkt[c], Error>> \in Seq(FromThread(c)) /\ <<lastpkt[c]>> \in Seq(FromThread(c))
            /\ <<Error>> \in Seq(FromThread(c)) /\ <<>> \in Seq(FromThread(c))
        <4> HIDE DEF Error
        <4> QED BY <1>4
      <3> QED BY <3>1
    <2>3. /\ OfThreads(toClient)' /\ toClient'[c] = toClient[c] \o ps
          /\ \A d \in Conn \ {c} : toClient'[d] = toClient[d]
      BY <1>4, <2>1, JoinClient
    <2>4. toClient'[c] \in Seq(FromThread(c)) BY <1>4, <2>2, <2>3, Deliver
    <2> QED BY <1>4, <1>7, <2>3, <2>4 DEF Inv, TypeOK
  <1> QED BY <1>6, <1>7 DEF recvTimeout

\* recvOldAck only starts a new wait.
LEMMA recvOldAckKeeps ==
  ASSUME Inv, NEW c \in Conn, recvOldAck(c) PROVE Inv'
  <1>1. /\ toServer[c] # <<>> /\ toServer' = [toServer EXCEPT ![c] = Tail(@)]
        /\ retry' = [retry EXCEPT ![c] = Retry]
        /\ UNCHANGED <<file, timing, refuses, client, tid, got, thr, block, pos, lastpkt, toClient>>
    BY DEF recvOldAck, given, reader
  <1>2. OfThreads(toServer)' /\ \A d \in Conn : toServer'[d] \in Seq(FromClient(d))
    BY <1>1, TakenServer
  <1>3. TypeOK' BY <1>1, TftpAssumption DEF Inv, TypeOK
  <1>4. Shapes' BY <1>1, <1>2 DEF Inv, Shapes, OfThreads
  <1> QED BY <1>1, <1>2, <1>3, <1>4, OfThread, Rests

\* recvErr sends the last block again.
LEMMA recvErrKeeps ==
  ASSUME Inv, NEW c \in Conn, recvErr(c) PROVE Inv'
  <1>1. /\ thr[c] = "active" /\ toServer[c] # <<>>
        /\ toServer' = [toServer EXCEPT ![c] = Tail(@)]
        /\ retry' = [retry EXCEPT ![c] = Retry] /\ Delivered(toClient, c, lastpkt[c])
        /\ UNCHANGED <<file, timing, refuses, client, tid, got, thr, block, pos, lastpkt>>
    BY DEF recvErr, given, reader
  <1>2. OfThreads(toServer)' /\ \A d \in Conn : toServer'[d] \in Seq(FromClient(d))
    BY <1>1, TakenServer
  <1>3. OfThreads(toClient) /\ toClient[c] \in Seq(FromThread(c)) /\ lastpkt[c] \in FromThread(c)
    BY <1>1, OfThread
  <1>4. /\ OfThreads(toClient)' /\ toClient'[c] \in Seq(FromThread(c))
        /\ \A d \in Conn \ {c} : toClient'[d] = toClient[d]
    BY <1>1, <1>3, DeliverClient
  <1>5. \A d \in Conn : toClient'[d] \in Seq(FromThread(d)) BY <1>4, OfThread
  <1>6. TypeOK' BY <1>1, TftpAssumption DEF Inv, TypeOK
  <1>7. Shapes' BY <1>1, <1>2, <1>4 DEF Inv, Shapes, OfThreads
  <1> QED BY <1>1, <1>2, <1>5, <1>6, <1>7, Rests

\* Closed drops what nobody reads.
LEMMA ClosedKeeps ==
  ASSUME Inv, NEW c \in Conn, Closed(c) PROVE Inv'
  <1>1. /\ toServer' = [toServer EXCEPT ![c] = <<>>]
        /\ UNCHANGED <<file, timing, refuses, client, tid, got, toClient>>
        /\ UNCHANGED <<thr, block, pos, lastpkt, retry>>
    BY DEF Closed, given, reader, thread
  <1>2. /\ OfThreads(toServer)' /\ toServer'[c] = <<>>
        /\ \A d \in Conn \ {c} : toServer'[d] = toServer[d]
    BY <1>1 DEF Inv, Shapes, OfThreads
  <1>3. ASSUME NEW d \in Conn PROVE toServer'[d] \in Seq(FromClient(d))
    <2>1. <<>> \in Seq(FromClient(d)) OBVIOUS
    <2> QED BY <1>2, <2>1, OfThread
  <1>4. TypeOK' BY <1>1 DEF Inv, TypeOK
  <1>5. Shapes' BY <1>1, <1>2 DEF Inv, Shapes, OfThreads
  <1> QED BY <1>1, <1>3, <1>4, <1>5, OfThread, Rests

-----------------------------------------------------------------------------
(* The client *)

\* ClientData: the thread has sent no block but those the client has and the
\* one that is due.
LEMMA ClientDataKeeps ==
  ASSUME Inv, NEW c \in Conn, ClientData(c) PROVE Inv'
  <1> DEFINE m == Head(toClient[c])
  <1>1. /\ toClient[c] # <<>> /\ m.op = "DATA" /\ tid \in {0, c} /\ tid' = c
        /\ got' = (IF m.block = Len(got) + 1 THEN Append(got, m.piece) ELSE got)
        /\ client' = (IF Len(got') = file THEN "done" ELSE "reading")
        /\ \/ m.block <= Len(got) + 1 /\ Delivered(toServer, c, Ack(m.block))
           \/ m.block > Len(got) + 1 /\ UNCHANGED <<toServer, lost>>
        /\ toClient' = [toClient EXCEPT ![c] = Tail(@)]
        /\ UNCHANGED <<file, timing, refuses>>
        /\ UNCHANGED <<thr, block, pos, lastpkt, retry>>
    BY DEF ClientData, given, thread
  <1>2. /\ OfThreads(toClient)' /\ m \in FromThread(c)
        /\ \A d \in Conn : toClient'[d] \in Seq(FromThread(d))
    BY <1>1, TakenClient
  <1>3. \E k \in 1 .. block[c] : m = Data(k, k) BY <1>1, <1>2 DEF FromThread, Error
  <1>4. PICK k \in 1 .. block[c] : m = Data(k, k) BY <1>3
  <1>5. m.block = k /\ m.piece = k BY <1>4 DEF Data
  <1>6. Len(got) \in Nat /\ file \in Nat /\ block[c] \in Nat /\ c # 0 /\ got \in Seq(Nat) /\ k \in Nat
    BY TftpAssumption DEF Inv, TypeOK
  <1>7. block[c] \in {Len(got), Len(got) + 1} /\ block[c] <= file /\ Len(got) <= file
    <2>1. CASE tid = 0
      <3>1. got = <<>> /\ block[c] <= 1 BY <1>6, <2>1 DEF Inv, ClientInv, ThreadInv
      <3>2. Len(got) = 0 BY <3>1
      <3> QED BY <1>6, <3>1, <3>2 DEF Inv, ThreadInv
    <2>2. CASE tid = c
      BY <1>6, <2>2 DEF Inv, ClientInv, LockStep, ReceivedInOrder, ThreadInv
    <2> QED BY <1>1, <2>1, <2>2
  <1>8. k <= Len(got) + 1 BY <1>6, <1>7
  <1>9. Delivered(toServer, c, Ack(k)) BY <1>1, <1>5, <1>6, <1>8
  <1> HIDE DEF m
  <1>10. /\ got' \in Seq(Nat) /\ Len(got') \in Nat /\ Len(got) <= Len(got') /\ k <= Len(got')
         /\ block[c] \in {Len(got'), Len(got') + 1} /\ ReceivedInOrder'
    <2>1. CASE k = Len(got) + 1
      <3>1. got' = Append(got, k) BY <1>1, <1>5, <2>1
      <3>2. got' \in Seq(Nat) /\ Len(got') = Len(got) + 1 /\ got'[Len(got) + 1] = k
            /\ \A i \in 1 .. Len(got) : got'[i] = got[i]
        BY <1>6, <3>1
      <3>3. block[c] = Len(got') BY <1>6, <1>7, <2>1, <3>2
      <3>4. \A i \in 1 .. Len(got') : got'[i] = i
        BY <1>6, <2>1, <3>2 DEF Inv, ClientInv, ReceivedInOrder
      <3> QED BY <1>1, <1>6, <1>7, <2>1, <3>2, <3>3, <3>4 DEF ReceivedInOrder
    <2>2. CASE k # Len(got) + 1
      <3>1. got' = got BY <1>1, <1>5, <2>2
      <3> QED BY <1>1, <1>6, <1>7, <1>8, <2>2, <3>1 DEF Inv, ClientInv, ReceivedInOrder
    <2> QED BY <2>1, <2>2
  <1>11. FromClient(c) \subseteq FromClient(c)' /\ Ack(k) \in FromClient(c)'
    <2>1. \A n \in 0 .. Len(got) : n \in 0 .. Len(got') BY <1>6, <1>10
    <2>2. k \in 0 .. Len(got') BY <1>6, <1>10
    <2> QED BY <1>1, <2>1, <2>2 DEF FromClient
  <1>12. toServer[c] \in Seq(FromClient(c)') BY <1>11, OfThread, SeqGrows
  <1>13. /\ OfThreads(toServer)' /\ toServer'[c] \in Seq(FromClient(c)')
         /\ \A d \in Conn \ {c} : toServer'[d] = toServer[d]
    BY <1>9, <1>11, <1>12, OfThread, DeliverServer
  <1>14. TypeOK'
    <2>1. client' \in {"asking", "reading", "done", "gone"} BY <1>1
    <2> QED BY <1>1, <1>10, <2>1 DEF Inv, TypeOK
  <1>15. Shapes' BY <1>1, <1>2, <1>13 DEF Inv, Shapes, OfThreads
  <1>16. ClientInv' BY <1>1, <1>6, <1>10 DEF ClientInv, LockStep
  <1>17. ASSUME NEW d \in Conn PROVE ThreadInv(d)'
    <2>1. ThreadInv(d) BY DEF Inv
    <2>2. FromThread(d)' = FromThread(d) BY <1>1 DEF FromThread
    <2>3. toServer'[d] \in Seq(FromClient(d)')
      <3>1. CASE d = c BY <1>13, <3>1
      <3>2. CASE d # c
        <4>1. d # tid BY <1>1, <3>2, TftpAssumption
        <4>2. FromClient(d)' = FromClient(d) BY <1>1, <3>2, <4>1 DEF FromClient
        <4> QED BY <1>13, <3>2, <4>2, OfThread
      <3> QED BY <3>1, <3>2
    <2>4. d # tid' => d # tid BY <1>1, TftpAssumption
    <2> QED BY <1>1, <1>2, <2>1, <2>2, <2>3, <2>4 DEF ThreadInv
  <1> QED BY <1>14, <1>15, <1>16, <1>17 DEF Inv

\* ClientForeign sends the thread at most an error.
LEMMA ClientForeignKeeps ==
  ASSUME Inv, NEW c \in Conn, ClientForeign(c) PROVE Inv'
  <1>1. /\ toClient[c] # <<>> /\ toClient' = [toClient EXCEPT ![c] = Tail(@)]
        /\ Delivered(toServer, c, Error) \/ UNCHANGED toServer
        /\ UNCHANGED <<file, timing, refuses, client, tid, got>>
        /\ UNCHANGED <<thr, block, pos, lastpkt, retry>>
    BY DEF ClientForeign, given, reader, thread
  <1>2. OfThreads(toClient)' /\ \A d \in Conn : toClient'[d] \in Seq(FromThread(d))
    BY <1>1, TakenClient
  <1>3. OfThreads(toServer)' /\ \A d \in Conn : toServer'[d] \in Seq(FromClient(d))
    <2>1. CASE Delivered(toServer, c, Error)
      <3>1. OfThreads(toServer) /\ toServer[c] \in Seq(FromClient(c)) /\ Error \in FromClient(c)
        BY OfThread
      <3>2. /\ OfThreads(toServer)' /\ toServer'[c] \in Seq(FromClient(c))
            /\ \A d \in Conn \ {c} : toServer'[d] = toServer[d]
        BY <2>1, <3>1, DeliverServer
      <3> QED BY <3>2, OfThread
    <2>2. CASE UNCHANGED toServer BY <2>2, OfThread DEF OfThreads
    <2> QED BY <1>1, <2>1, <2>2
  <1>4. TypeOK' BY <1>1 DEF Inv, TypeOK
  <1>5. Shapes' BY <1>1, <1>2, <1>3 DEF Inv, Shapes, OfThreads
  <1> QED BY <1>1, <1>2, <1>3, <1>4, <1>5, Rests

\* ClientError ends the client.
LEMMA ClientErrorKeeps ==
  ASSUME Inv, NEW c \in Conn, ClientError(c) PROVE Inv'
  <1>1. /\ toClient[c] # <<>> /\ toClient' = [toClient EXCEPT ![c] = Tail(@)] /\ client' = "gone"
        /\ UNCHANGED <<file, timing, refuses, tid, got, toServer>>
        /\ UNCHANGED <<thr, block, pos, lastpkt, retry>>
    BY DEF ClientError, given, thread
  <1>2. OfThreads(toClient)' /\ \A d \in Conn : toClient'[d] \in Seq(FromThread(d))
    BY <1>1, TakenClient
  <1>3. TypeOK' BY <1>1 DEF Inv, TypeOK
  <1>4. Shapes' BY <1>1, <1>2 DEF Inv, Shapes, OfThreads
  <1> QED BY <1>1, <1>2, <1>3, <1>4, OfThread, Rests

\* ClientRepeats acknowledges again what the client has.
LEMMA ClientRepeatsKeeps ==
  ASSUME Inv, ClientRepeats PROVE Inv'
  <1>1. /\ client = "reading" /\ Delivered(toServer, tid, Ack(Len(got)))
        /\ UNCHANGED <<file, timing, refuses, client, tid, got, toClient>>
        /\ UNCHANGED <<thr, block, pos, lastpkt, retry>>
    BY DEF ClientRepeats, given, thread
  <1>2. tid \in Conn /\ Len(got) \in Nat BY <1>1 DEF Inv, TypeOK, ClientInv
  <1>3. Ack(Len(got)) \in FromClient(tid) BY <1>2 DEF FromClient
  <1>4. /\ OfThreads(toServer)' /\ toServer'[tid] \in Seq(FromClient(tid))
        /\ \A d \in Conn \ {tid} : toServer'[d] = toServer[d]
    BY <1>1, <1>2, <1>3, OfThread, DeliverServer
  <1>5. \A d \in Conn : toServer'[d] \in Seq(FromClient(d)) BY <1>4, OfThread
  <1>6. TypeOK' BY <1>1 DEF Inv, TypeOK
  <1>7. Shapes' BY <1>1, <1>4 DEF Inv, Shapes, OfThreads
  <1> QED BY <1>1, <1>5, <1>6, <1>7, OfThread, Rests

\* A step that moves no packet, thread or piece.
LEMMA StillKeeps ==
  ASSUME Inv, UNCHANGED <<given, thread, toServer, toClient, tid, got>>, client' \in {client, "gone"}
  PROVE  Inv'
  <1>1. /\ UNCHANGED <<file, timing, refuses, tid, got, toServer, toClient>>
        /\ UNCHANGED <<thr, block, pos, lastpkt, retry>>
    BY DEF given, thread
  <1>2. TypeOK' BY <1>1 DEF Inv, TypeOK
  <1>3. Shapes' BY <1>1 DEF Inv, Shapes, OfThreads
  <1> QED BY <1>1, <1>2, <1>3, OfThread, Rests

-----------------------------------------------------------------------------
(* The theorems *)

\* The invariant holds at the start.
LEMMA InvInit == Init => Inv
  <1> SUFFICES ASSUME Init PROVE Inv OBVIOUS
  <1>1. /\ thr = [c \in Conn |-> "none"] /\ block = [c \in Conn |-> 0] /\ pos = [c \in Conn |-> 0]
        /\ lastpkt = [c \in Conn |-> Data(0, 0)] /\ retry = [c \in Conn |-> Retry]
        /\ toServer = [c \in Conn |-> <<>>] /\ toClient = [c \in Conn |-> <<>>]
        /\ client = "asking" /\ tid = 0 /\ got = <<>> /\ file \in Files
    BY DEF Init
  <1>2. <<timing, refuses>> \in Cases
    <2>1. PICK c \in Cases : timing = c[1] /\ refuses = c[2] BY DEF Init
    <2>2. c \in {"race", "prompt", "patient"} \X BOOLEAN BY TftpAssumption
    <2>3. c = <<c[1], c[2]>> BY <2>2
    <2> QED BY <2>1, <2>3
  <1>3. Len(got) = 0 /\ file \in Nat /\ got \in Seq(Nat) BY <1>1, TftpAssumption
  <1>4. TypeOK BY <1>1, <1>2, <1>3, TftpAssumption DEF TypeOK
  <1>5. Shapes BY <1>1 DEF Shapes, OfThreads
  <1>6. ClientInv BY <1>1, <1>3 DEF ClientInv, LockStep, ReceivedInOrder
  <1>7. ASSUME NEW c \in Conn PROVE ThreadInv(c) BY <1>1, <1>3 DEF ThreadInv
  <1> QED BY <1>4, <1>5, <1>6, <1>7 DEF Inv

\* Every step of the server, the network and the client keeps the invariant.
LEMMA InvStep == Inv /\ [Next]_vars => Inv'
  <1> SUFFICES ASSUME Inv, [Next]_vars PROVE Inv' OBVIOUS
  <1>1. CASE UNCHANGED vars BY <1>1, StillKeeps DEF vars, reader
  <1>2. CASE ClientRequest BY <1>2, StillKeeps DEF ClientRequest
  <1>3. CASE ClientRepeats BY <1>3, ClientRepeatsKeeps
  <1>4. CASE ClientGivesUp BY <1>4, StillKeeps DEF ClientGivesUp
  <1>5. ASSUME NEW c \in Conn, ClientReceives(c) PROVE Inv'
    BY <1>5, ClientDataKeeps, ClientForeignKeeps, ClientErrorKeeps DEF ClientReceives
  <1>6. ASSUME NEW c \in Conn, Server(c) PROVE Inv'
    BY <1>6, foreverKeeps, recvTimeoutKeeps, recvAckKeeps, recvOldAckKeeps, recvErrKeeps,
       ClosedKeeps DEF Server
  <1> QED BY <1>1, <1>2, <1>3, <1>4, <1>5, <1>6 DEF Next

\* The invariant holds throughout.
LEMMA Invariant == Spec => []Inv
  BY InvInit, InvStep, PTL DEF Spec

\* Every variable has its type, and a thread that waits in recv has a retry
\* left.
THEOREM TypeCorrect == Spec => []TypeOK
  <1>1. Inv => TypeOK BY DEF Inv
  <1> QED BY <1>1, Invariant, PTL

\* What the client of tools/bootp_server.py has received is the beginning of
\* the file, in order and without gaps.
THEOREM Received == Spec => []ReceivedInOrder
  <1>1. Inv => ReceivedInOrder BY DEF Inv, ClientInv
  <1> QED BY <1>1, Invariant, PTL

\* The thread it reads from is at the block it has or at the next one.
THEOREM InLockStep == Spec => []LockStep
  <1>1. Inv => LockStep BY DEF Inv, ClientInv
  <1> QED BY <1>1, Invariant, PTL
=============================================================================
