--------------------------- MODULE BiffUploadProofs ---------------------------
(* What holds of the network upload for every image, size of a chunk, number *)
(* of sectors, number of attempts, and every pattern of lost packets.        *)
EXTENDS BiffUpload, SequenceTheorems, TLAPS

-----------------------------------------------------------------------------
(* Channels *)

Commands == {"ATTN", "ERASE", "RESET", "ADD", "DIGEST", "WRITE", "RELEASE"}

Packet == [cmd : Commands, data : Pieces \cup Nat \cup Seq(Pieces)]

\* A packet a client sends: a piece is added, a sector is erased.
ClientPacket ==
  {p \in Packet : /\ p.cmd = "ADD" => p.data \in Pieces
                  /\ p.cmd = "ERASE" => p.data \in 1 .. Sectors}

\* What a channel holds after a packet was sent.
LEMMA SentFacts ==
  ASSUME NEW P, NEW s \in Seq(P), NEW m \in P, NEW t \in Sent(s, m)
  PROVE  /\ t \in Seq(P) /\ Len(t) \in Nat
         /\ \A i \in 1 .. Len(t) :
              \/ i \in 1 .. Len(s) /\ t[i] = s[i]
              \/ i = Len(s) + 1 /\ i = Len(t) /\ t[i] = m
  <1>1. CASE t = s BY <1>1
  <1>2. CASE t = Append(s, m)
    <2>1. t \in Seq(P) /\ Len(t) = Len(s) + 1 BY <1>2
    <2>2. \A i \in 1 .. Len(s) : t[i] = s[i] BY <1>2
    <2>3. t[Len(s) + 1] = m BY <1>2
    <2> QED BY <2>1, <2>2, <2>3
  <1> QED BY <1>1, <1>2 DEF Sent

\* What a channel holds after its first packet was taken.
LEMMA TailFacts ==
  ASSUME NEW P, NEW s \in Seq(P), s # <<>>
  PROVE  /\ Tail(s) \in Seq(P) /\ Len(s) \in Nat /\ Len(s) >= 1
         /\ Len(Tail(s)) = Len(s) - 1
         /\ Head(s) = s[1] /\ Head(s) \in P
         /\ \A i \in 1 .. Len(s) - 1 : Tail(s)[i] = s[i + 1] /\ i + 1 \in 1 .. Len(s)
  OBVIOUS

-----------------------------------------------------------------------------
(* Types *)

\* What each state of the client says of its counters.
TypeInv ==
  /\ TypeOK
  /\ c2s \in Seq(ClientPacket) /\ s2c \in Seq(Packet)
  /\ pc = "ATTN" => index = 0 /\ offset = 0
  /\ pc = "ERASE" => index < Sectors /\ tries = 0 /\ offset = 0
  /\ pc = "ADD" => index < ChunkPieces
  /\ pc \in {"RESET", "ADD", "DIGEST", "WRITE"} => offset < ChunkCount(image)
  /\ pc \in {"RELEASE", "done"} => offset = ChunkCount(image)

\* The number of chunks of an image.
LEMMA ChunkCountType ==
  ASSUME NEW f \in Files PROVE ChunkCount(f) \in Nat
  <1>1. Len(f) \in Nat BY UploadAssumption
  <1>2. \A a \in Nat, n \in Nat \ {0} : a \div n \in Nat OBVIOUS
  <1>3. Len(f) + ChunkPieces - 1 \in Nat BY <1>1, UploadAssumption
  <1> QED BY <1>2, <1>3, UploadAssumption DEF ChunkCount

\* A chunk is a sequence of ChunkPieces pieces.
LEMMA ChunkType ==
  ASSUME NEW f \in Files, NEW k \in 1 .. ChunkCount(f)
  PROVE  /\ DataToChunks(f)[k] \in [1 .. ChunkPieces -> Pieces]
         /\ DataToChunks(f)[k] \in Seq(Pieces)
  <1> DEFINE piece(i) == LET n == (k - 1) * ChunkPieces + i IN IF n <= Len(f) THEN f[n] ELSE Pad
             c == [i \in 1 .. ChunkPieces |-> piece(i)]
  <1>1. DataToChunks(f)[k] = c BY DEF DataToChunks
  <1>2. ASSUME NEW i \in 1 .. ChunkPieces PROVE piece(i) \in Pieces
    <2> DEFINE n == (k - 1) * ChunkPieces + i
    <2>1. f \in Seq(Pieces) /\ Len(f) \in Nat BY UploadAssumption
    <2>2. k - 1 \in Nat /\ ChunkPieces \in Nat
      BY ChunkCountType, UploadAssumption
    <2>3. (k - 1) * ChunkPieces \in Nat BY <2>2
    <2>4. n \in Nat /\ n >= 1 BY <2>2, <2>3
    <2> HIDE DEF n
    <2>5. CASE n <= Len(f)
      <3>1. n \in 1 .. Len(f) BY <2>1, <2>4, <2>5
      <3>2. f[n] \in Pieces BY <2>1, <3>1
      <3> QED BY <2>5, <3>2 DEF n
    <2>6. CASE ~(n <= Len(f))
      BY <2>6, UploadAssumption DEF n
    <2> QED BY <2>5, <2>6
  <1> HIDE DEF piece
  <1>3. c \in [1 .. ChunkPieces -> Pieces] BY <1>2
  <1>4. c \in Seq(Pieces) BY <1>3, UploadAssumption
  <1> QED BY <1>1, <1>3, <1>4

\* A command that is waited for keeps the types.
LEMMA SendWaitType ==
  ASSUME TypeInv, NEW cmd \in Commands, NEW data, SendWait(cmd, data),
         pc = cmd, cmd \notin {"RESET", "ADD"},
         [cmd |-> cmd, data |-> data] \in ClientPacket
  PROVE  TypeInv'
  <1>1. c2s' \in Sent(c2s, [cmd |-> cmd, data |-> data]) BY DEF SendWait, SendData
  <1>2. c2s' \in Seq(ClientPacket) BY <1>1, SentFacts DEF TypeInv
  <1>3. UNCHANGED <<image, pc, tries, index, offset, s2c, board>> /\ waiting' = TRUE
    BY DEF SendWait
  <1>4. waiting' => pc' \notin {"RESET", "ADD"} \cup Ended
    BY <1>3 DEF Ended, Commands
  <1> QED BY <1>2, <1>3, <1>4 DEF TypeInv, TypeOK, board

\* The commands without data, and those with a number, are packets.
LEMMA PacketTypes ==
  /\ \A cmd \in Commands \ {"ADD", "ERASE"} :
       [cmd |-> cmd, data |-> <<>>] \in ClientPacket
  /\ \A n \in Nat : [cmd |-> "WRITE", data |-> n] \in ClientPacket
  /\ \A n \in 1 .. Sectors : [cmd |-> "ERASE", data |-> n] \in ClientPacket
  /\ \A d \in Pieces : [cmd |-> "ADD", data |-> d] \in ClientPacket
  <1>1. <<>> \in Seq(Pieces) OBVIOUS
  <1> QED BY <1>1, UploadAssumption DEF ClientPacket, Packet, Commands

\* A step of the board keeps the types.
LEMMA ServeType ==
  ASSUME TypeInv, Serve
  PROVE  TypeInv'
  <1> DEFINE m == Head(c2s)
  <1>1. c2s # <<>> /\ c2s' = Tail(c2s) /\ UNCHANGED <<image, client>>
    BY DEF Serve
  <1>2. c2s' \in Seq(ClientPacket) /\ m \in ClientPacket
    BY <1>1, TailFacts DEF TypeInv
  <1>3. buffer' = Buffered(m) /\ booted' = (m.cmd = "RELEASE") BY DEF Serve
  <1>4. buffer \in Seq(Pieces) /\ stored \in Seq(Seq(Pieces)) /\ erased \subseteq 1 .. Sectors
        /\ s2c \in Seq(Packet)
    BY DEF TypeInv, TypeOK
  <1> HIDE DEF m
  <1>5. buffer' \in Seq(Pieces)
    <2>1. CASE m.cmd = "ADD"
      <3>1. m.data \in Pieces BY <1>2, <2>1 DEF ClientPacket
      <3>2. buffer' = Append(buffer, m.data) BY <1>3, <2>1 DEF Buffered
      <3> QED BY <1>4, <3>1, <3>2
    <2>2. CASE m.cmd # "ADD"
      BY <1>3, <1>4, <2>2 DEF Buffered
    <2> QED BY <2>1, <2>2
  <1>6. ASSUME NEW d \in Pieces \cup Nat \cup Seq(Pieces), NEW c \in Commands, Reply(c, d)
        PROVE  s2c' \in Seq(Packet)
    <2>1. [cmd |-> c, data |-> d] \in Packet BY DEF Packet
    <2> QED BY <1>4, <1>6, <2>1, SentFacts DEF Reply
  <1>7. s2c' \in Seq(Packet) /\ stored' \in Seq(Seq(Pieces)) /\ erased' \subseteq 1 .. Sectors
    <2>1. CASE m.cmd \in {"RESET", "ADD"} /\ UNCHANGED <<s2c, stored, erased>>
      BY <1>4, <2>1
    <2>2. CASE m.cmd \in {"ATTN", "RELEASE"} /\ Reply(m.cmd, <<>>) /\ UNCHANGED <<stored, erased>>
      <3>1. <<>> \in Seq(Pieces) /\ m.cmd \in Commands BY <2>2 DEF Commands
      <3> QED BY <1>4, <1>6, <2>2, <3>1
    <2>3. CASE m.cmd = "DIGEST" /\ Reply("DIGEST", buffer) /\ UNCHANGED <<stored, erased>>
      BY <1>4, <1>6, <2>3 DEF Commands
    <2>4. ASSUME NEW err \in Errors, Reply("WRITE", err), UNCHANGED erased,
                 stored' = IF err = 0 THEN Append(stored, buffer) ELSE stored
          PROVE  s2c' \in Seq(Packet) /\ stored' \in Seq(Seq(Pieces)) /\ erased' \subseteq 1 .. Sectors
      <3>1. err \in Nat BY UploadAssumption
      <3>2. s2c' \in Seq(Packet) BY <1>6, <2>4, <3>1 DEF Commands
      <3> QED BY <1>4, <2>4, <3>2
    <2>5. CASE m.cmd = "ERASE" /\ erased' = erased \cup {m.data} /\ Reply("ERASE", m.data)
               /\ UNCHANGED stored
      <3>1. m.data \in 1 .. Sectors BY <1>2, <2>5 DEF ClientPacket
      <3>2. m.data \in Nat BY <3>1
      <3>3. s2c' \in Seq(Packet) BY <1>6, <2>5, <3>2 DEF Commands
      <3> QED BY <1>4, <2>5, <3>1, <3>3
    <2> QED BY <2>1, <2>2, <2>3, <2>4, <2>5 DEF Serve, m
  <1> QED BY <1>1, <1>2, <1>3, <1>5, <1>7 DEF TypeInv, TypeOK, client

\* What a step of the client must keep, when it sends nothing.
LEMMA ClientTyped ==
  ASSUME TypeInv, UNCHANGED <<image, c2s, board>>, s2c' \in {s2c, Tail(s2c)}, s2c' # s2c => s2c # <<>>,
         pc' \in Commands \cup Ended, waiting' = FALSE,
         tries' \in Nat, index' \in 0 .. ChunkPieces + Sectors,
         offset' \in 0 .. ChunkCount(image),
         pc' \in {"RESET", "ADD", "DIGEST", "WRITE"} =>
           tries' < Attempts /\ offset' < ChunkCount(image),
         pc' = "ATTN" => index' = 0 /\ offset' = 0,
         pc' = "ERASE" => index' < Sectors /\ tries' = 0 /\ offset' = 0,
         pc' # "ADD",
         pc' \in {"RELEASE", "done"} => offset' = ChunkCount(image)
  PROVE  TypeInv'
  <1>1. s2c' \in Seq(Packet) BY TailFacts DEF TypeInv
  <1> QED BY <1>1 DEF TypeInv, TypeOK, Commands, board

\* A step keeps the types.
LEMMA TypeStep == TypeInv /\ [Next]_vars => TypeInv'
  <1> SUFFICES ASSUME TypeInv, [Next]_vars PROVE TypeInv'
    OBVIOUS
  <1>a. ChunkCount(image) \in Nat BY ChunkCountType DEF TypeInv, TypeOK
  <1>b. /\ tries \in Nat /\ index \in 0 .. ChunkPieces + Sectors
        /\ offset \in 0 .. ChunkCount(image)
    BY DEF TypeInv, TypeOK
  <1>1. CASE SendAttn
    BY <1>1, SendWaitType, PacketTypes DEF SendAttn, Commands
  <1>2. CASE AttnAnswered
    <2>1. /\ pc' = IF ChunkCount(image) > MaxChunks THEN "too large"
                   ELSE IF Sectors > 0 THEN "ERASE"
                   ELSE IF ChunkCount(image) = 0 THEN "RELEASE" ELSE "RESET"
          /\ UNCHANGED <<image, c2s, board, index, offset>> /\ s2c # <<>> /\ s2c' = Tail(s2c)
          /\ waiting' = FALSE /\ tries' = 0 /\ index = 0 /\ offset = 0
      BY <1>2 DEF AttnAnswered, Answer, Proceed, TypeInv
    <2>2. 0 \in 0 .. ChunkPieces + Sectors /\ 0 \in 0 .. ChunkCount(image) /\ 0 < Attempts
          /\ Sectors \in Nat
      BY <1>a, UploadAssumption
    <2>3. CASE pc' \in {"too large", "ERASE"}
      <3>1. pc' = "ERASE" => 0 < Sectors BY <2>1, <2>2
      <3> QED BY <2>1, <2>2, <2>3, <3>1, ClientTyped DEF Commands, Ended
    <2>4. CASE pc' = "RELEASE"
      <3>1. ChunkCount(image) = 0 BY <2>1, <2>4
      <3> QED BY <2>1, <2>2, <2>4, <3>1, ClientTyped DEF Commands
    <2>5. CASE pc' = "RESET"
      <3>1. 0 < ChunkCount(image) BY <1>a, <2>1, <2>5
      <3> QED BY <2>1, <2>2, <2>5, <3>1, ClientTyped DEF Commands
    <2> QED BY <2>1, <2>3, <2>4, <2>5
  <1>3. CASE AttnTimeout
    <2>1. /\ UNCHANGED <<image, c2s, s2c, board, index, offset>> /\ waiting' = FALSE
          /\ pc' \in {"ATTN", "no board"} /\ tries' \in Nat /\ index = 0 /\ offset = 0
      <3>0. pc = "ATTN" BY <1>3 DEF AttnTimeout, TimedOut
      <3>1. pc = "ATTN" /\ index = 0 /\ offset = 0 /\ tries + 1 \in Nat
        BY <1>b, <3>0 DEF TypeInv
      <3>2. CASE tries' = tries + 1 /\ waiting' = FALSE
                 /\ UNCHANGED <<image, pc, index, offset, c2s, s2c, board>>
        BY <3>1, <3>2
      <3>3. CASE Stop("no board") /\ UNCHANGED s2c
        BY <1>b, <3>1, <3>3 DEF Stop
      <3> QED BY <1>3, <3>2, <3>3 DEF AttnTimeout
    <2> QED BY <1>b, <2>1, ClientTyped DEF Commands, Ended
  <1>4. CASE SendErase
    <2>1. index + 1 \in 1 .. Sectors
      BY <1>4, UploadAssumption DEF SendErase, TypeInv, TypeOK
    <2> QED BY <1>4, <2>1, SendWaitType, PacketTypes DEF SendErase, Commands
  <1>5. CASE EraseAnswered
    <2>1. /\ UNCHANGED <<image, c2s, board, tries, offset>> /\ s2c # <<>> /\ s2c' = Tail(s2c)
          /\ waiting' = FALSE /\ tries = 0 /\ offset = 0
      BY <1>5 DEF EraseAnswered, Answer, Proceed, TypeInv
    <2>2. CASE index + 1 < Sectors /\ pc' = "ERASE" /\ index' = index + 1
      <3>1. index' \in 0 .. ChunkPieces + Sectors BY <1>b, <2>2, UploadAssumption
      <3> QED BY <1>b, <2>1, <2>2, <3>1, ClientTyped DEF Commands
    <2>3. CASE pc' = (IF ChunkCount(image) = 0 THEN "RELEASE" ELSE "RESET") /\ index' = 0
      <3>1. index' \in 0 .. ChunkPieces + Sectors /\ 0 < Attempts BY <2>3, UploadAssumption
      <3>2. pc' = "RELEASE" => ChunkCount(image) = 0 BY <2>3
      <3>3. pc' = "RESET" => 0 < ChunkCount(image) BY <1>a, <2>3
      <3> QED BY <1>b, <2>1, <2>3, <3>1, <3>2, <3>3, ClientTyped DEF Commands
    <2> QED BY <1>5, <2>2, <2>3 DEF EraseAnswered, Proceed
  <1>6. CASE EraseTimeout
    BY <1>6, <1>b, ClientTyped DEF EraseTimeout, TimedOut, Stop, Ended
  <1>7. CASE SendReset
    <2>1. c2s' \in Seq(ClientPacket)
      BY <1>7, SentFacts, PacketTypes DEF SendReset, SendData, TypeInv, Commands
    <2> QED BY <1>7, <2>1, UploadAssumption DEF SendReset, TypeInv, TypeOK, Ended, board
  <1>8. CASE SendAdd
    <2>1. offset + 1 \in 1 .. ChunkCount(image) /\ index + 1 \in 1 .. ChunkPieces
          /\ image \in Files
      BY <1>8, <1>a, UploadAssumption DEF SendAdd, TypeInv, TypeOK
    <2>2. chunk[index + 1] \in Pieces BY <2>1, ChunkType DEF chunk
    <2>3. c2s' \in Seq(ClientPacket)
      BY <1>8, <2>2, SentFacts, PacketTypes DEF SendAdd, SendData, TypeInv
    <2> QED BY <1>8, <2>1, <2>3, UploadAssumption DEF SendAdd, TypeInv, TypeOK, Ended, board
  <1>9. CASE SendDigest
    BY <1>9, SendWaitType, PacketTypes DEF SendDigest, Commands
  <1>10. CASE DigestMatches
    <2>1. tries < Attempts /\ offset < ChunkCount(image)
      BY <1>10 DEF DigestMatches, TypeInv, TypeOK
    <2> QED BY <1>10, <1>b, <2>1, ClientTyped DEF DigestMatches, Answer, Proceed, Commands
  <1>11. CASE DigestDiffers
    <2>1. tries' \in Nat /\ offset < ChunkCount(image)
      BY <1>11, <1>b DEF DigestDiffers, Retry, TypeInv
    <2> QED BY <1>11, <1>b, <2>1, ClientTyped DEF DigestDiffers, Answer, Retry, Commands, Ended
  <1>12. CASE DigestTimeout
    <2>1. tries' \in Nat /\ offset < ChunkCount(image)
      BY <1>12, <1>b DEF DigestTimeout, TimedOut, Retry, TypeInv
    <2> QED BY <1>12, <1>b, <2>1, ClientTyped DEF DigestTimeout, Retry, Commands, Ended
  <1>13. CASE SendWrite
    <2>1. offset \in Nat BY <1>a DEF TypeInv, TypeOK
    <2> QED BY <1>13, <2>1, SendWaitType, PacketTypes DEF SendWrite, Commands
  <1>14. CASE WriteAnswered
    <2>1. UNCHANGED <<image, c2s, board, index>> /\ s2c # <<>> /\ s2c' = Tail(s2c)
          /\ waiting' = FALSE /\ offset < ChunkCount(image)
      BY <1>14 DEF WriteAnswered, Answer, Proceed, Stop, TypeInv
    <2>2. CASE pc' = (IF offset + 1 < ChunkCount(image) THEN "RESET" ELSE "RELEASE")
               /\ offset' = offset + 1 /\ tries' = 0
      <3>1. offset' \in 0 .. ChunkCount(image) /\ 0 < Attempts
            /\ (pc' = "RELEASE" => offset' = ChunkCount(image))
        BY <1>a, <1>b, <2>1, <2>2, UploadAssumption
      <3> QED BY <1>b, <2>1, <2>2, <3>1, ClientTyped DEF Commands
    <2>3. CASE pc' = "failed" /\ UNCHANGED <<tries, offset>>
      BY <1>b, <2>1, <2>3, ClientTyped DEF Ended
    <2> QED BY <1>14, <2>2, <2>3 DEF WriteAnswered, Proceed, Stop
  <1>15. CASE WriteTimeout
    BY <1>15, <1>b, ClientTyped DEF WriteTimeout, TimedOut, Stop, Ended
  <1>16. CASE SendRelease
    BY <1>16, SendWaitType, PacketTypes DEF SendRelease, Commands
  <1>17. CASE Released
    <2>1. offset = ChunkCount(image) BY <1>17 DEF Released, TypeInv
    <2> QED BY <1>17, <1>b, <2>1, ClientTyped DEF Released, Answer, Stop, Ended
  <1>18. CASE ReleaseTimeout
    <2>1. offset = ChunkCount(image) BY <1>18 DEF ReleaseTimeout, TimedOut, TypeInv
    <2> QED BY <1>18, <1>b, <2>1, ClientTyped DEF ReleaseTimeout, Stop, Ended
  <1>19. CASE Receive
    <2>1. s2c' \in Seq(Packet) BY <1>19, TailFacts DEF Receive, TypeInv
    <2> QED BY <1>19, <2>1 DEF Receive, TypeInv, TypeOK, client, board
  <1>20. CASE Serve
    BY <1>20, ServeType
  <1>21. CASE UNCHANGED vars
    BY <1>21 DEF vars, client, board, TypeInv, TypeOK
  <1> QED
    BY <1>1, <1>2, <1>3, <1>4, <1>5, <1>6, <1>7, <1>8, <1>9, <1>10, <1>11, <1>12, <1>13,
       <1>14, <1>15, <1>16, <1>17, <1>18, <1>19, <1>20, <1>21 DEF Next, Client

\* The client's counters agree with its state.
LEMMA TypeInvCorrect == Spec => []TypeInv
  <1>1. Init => TypeInv
    <2> SUFFICES ASSUME Init PROVE TypeInv OBVIOUS
    <2>1. ChunkCount(image) \in Nat BY ChunkCountType DEF Init
    <2>2. 0 \in 0 .. ChunkPieces + Sectors /\ 0 \in 0 .. ChunkCount(image)
      BY <2>1, UploadAssumption
    <2>3. <<>> \in Seq(ClientPacket) /\ <<>> \in Seq(Packet) /\ <<>> \in Seq(Pieces)
          /\ <<>> \in Seq(Seq(Pieces))
      OBVIOUS
    <2>4. image \in Files /\ pc = "ATTN" /\ waiting = FALSE BY DEF Init
    <2>5. TypeOK BY <2>2, <2>3, <2>4 DEF Init, TypeOK, Ended
    <2> QED BY <2>3, <2>5 DEF Init, TypeInv
  <1> QED BY <1>1, TypeStep, PTL DEF Spec

\* Every variable keeps its type, and a chunk is never transferred more often
\* than the loop of the client allows, whatever is lost or late.
THEOREM TypeCorrect == Spec => []TypeOK
  <1>1. TypeInv => TypeOK BY DEF TypeInv
  <1> QED BY <1>1, TypeInvCorrect, PTL

-----------------------------------------------------------------------------
(* One command at a time *)

\* The packet i on its way to the board, or back, is for command cmd.
InC(cmd, i) == i \in 1 .. Len(c2s) /\ c2s[i].cmd = cmd
InS(cmd, i) == i \in 1 .. Len(s2c) /\ s2c[i].cmd = cmd

\* The client waits for cmd, or has given up.
Out(cmd) == (pc = cmd /\ waiting) \/ pc = "failed"

\* Nothing of cmd is on its way.
Idle(cmd) == \A i \in Nat : ~InC(cmd, i) /\ ~InS(cmd, i)

\* At most one packet of cmd is on its way, as a command or as a reply, and
\* then the client waits for it or has given up.
OneOut(cmd) ==
  /\ \A i, j \in Nat : InC(cmd, i) /\ InC(cmd, j) => i = j
  /\ \A i, j \in Nat : InS(cmd, i) /\ InS(cmd, j) => i = j
  /\ \A i, j \in Nat : ~(InC(cmd, i) /\ InS(cmd, j))
  /\ \A i \in Nat : InC(cmd, i) \/ InS(cmd, i) => Out(cmd)

\* The commands that are never repeated: a lost one ends the upload.
Once == {"ERASE", "WRITE"}

\* What is on its way after a packet was sent.
LEMMA SendMoves ==
  ASSUME TypeInv, NEW m \in ClientPacket, c2s' \in Sent(c2s, m), NEW cmd, NEW i \in Nat,
         InC(cmd, i)'
  PROVE  \/ InC(cmd, i) /\ c2s'[i] = c2s[i]
         \/ m.cmd = cmd /\ i = Len(c2s) + 1 /\ c2s'[i] = m
  <1>1. c2s \in Seq(ClientPacket) BY DEF TypeInv
  <1>2. i \in 1 .. Len(c2s') /\ c2s'[i].cmd = cmd BY DEF InC
  <1> QED BY <1>1, <1>2, SentFacts DEF InC

\* What is on its way back after a reply was taken.
LEMMA TakeMoves ==
  ASSUME TypeInv, s2c # <<>>, s2c' = Tail(s2c), NEW cmd, NEW i \in Nat, InS(cmd, i)'
  PROVE  i + 1 \in Nat /\ InS(cmd, i + 1) /\ s2c'[i] = s2c[i + 1] /\ i >= 1
  <1>1. s2c \in Seq(Packet) BY DEF TypeInv
  <1>2. i \in 1 .. Len(s2c') /\ s2c'[i].cmd = cmd BY DEF InS
  <1>3. i \in 1 .. Len(s2c) - 1 BY <1>1, <1>2, TailFacts
  <1> QED BY <1>1, <1>2, <1>3, TailFacts DEF InS

\* A reply that is taken is no longer on its way.
LEMMA TakeQuiets ==
  ASSUME TypeInv, NEW cmd, OneOut(cmd), UNCHANGED c2s, s2c # <<>>, s2c' = Tail(s2c),
         Head(s2c).cmd = cmd
  PROVE  Idle(cmd)'
  <1>1. InS(cmd, 1)
    <2>1. s2c \in Seq(Packet) BY DEF TypeInv
    <2> QED BY <2>1, TailFacts DEF InS
  <1>2. ASSUME NEW i \in Nat, InC(cmd, i)' PROVE FALSE
    <2>1. InC(cmd, i) BY <1>2 DEF InC
    <2> QED BY <1>1, <2>1 DEF OneOut
  <1>3. ASSUME NEW i \in Nat, InS(cmd, i)' PROVE FALSE
    <2>1. i + 1 \in Nat /\ InS(cmd, i + 1) /\ i >= 1 BY <1>3, TakeMoves
    <2>2. i + 1 = 1 BY <1>1, <2>1 DEF OneOut
    <2> QED BY <2>1, <2>2
  <1> QED BY <1>2, <1>3 DEF Idle

\* Nothing of a command is on its way unless the client waits for it.
LEMMA NotOut ==
  ASSUME NEW cmd, OneOut(cmd), ~Out(cmd) PROVE Idle(cmd)
  BY DEF OneOut, Idle

\* A command that is not on its way is so at most once.
LEMMA IdleOne ==
  ASSUME NEW cmd, Idle(cmd)' PROVE OneOut(cmd)'
  BY DEF OneOut, Idle

\* A step of the client that sends nothing.
LEMMA TakeOne ==
  ASSUME TypeInv, NEW cmd, OneOut(cmd), UNCHANGED c2s,
         s2c' = s2c \/ (s2c # <<>> /\ s2c' = Tail(s2c)),
         Out(cmd) => Out(cmd)'
  PROVE  OneOut(cmd)'
  <1>1. \A i \in Nat : InC(cmd, i)' <=> InC(cmd, i) BY DEF InC
  <1>2. CASE s2c' = s2c
    <2>1. \A i \in Nat : InS(cmd, i)' <=> InS(cmd, i) BY <1>2 DEF InS
    <2> QED BY <1>1, <2>1 DEF OneOut
  <1>3. CASE s2c # <<>> /\ s2c' = Tail(s2c)
    <2>1. \A i \in Nat : InS(cmd, i)' => i + 1 \in Nat /\ InS(cmd, i + 1)
      BY <1>3, TakeMoves
    <2>2. \A i, j \in Nat : InS(cmd, i)' /\ InS(cmd, j)' => i = j
      <3> SUFFICES ASSUME NEW i \in Nat, NEW j \in Nat, InS(cmd, i)', InS(cmd, j)'
                   PROVE  i = j
        OBVIOUS
      <3>1. i + 1 = j + 1 BY <2>1 DEF OneOut
      <3> QED BY <3>1
    <2>3. \A i, j \in Nat : ~(InC(cmd, i)' /\ InS(cmd, j)') BY <1>1, <2>1 DEF OneOut
    <2>4. \A i \in Nat : InC(cmd, i)' \/ InS(cmd, i)' => Out(cmd)' BY <1>1, <2>1 DEF OneOut
    <2> QED BY <1>1, <2>2, <2>3, <2>4 DEF OneOut
  <1> QED BY <1>2, <1>3

\* A step of the client that sends a packet.
LEMMA SendOne ==
  ASSUME TypeInv, NEW cmd, OneOut(cmd), ~Out(cmd), NEW m \in ClientPacket,
         c2s' \in Sent(c2s, m), UNCHANGED s2c, m.cmd = cmd => Out(cmd)'
  PROVE  OneOut(cmd)'
  <1>1. Idle(cmd) BY NotOut
  <1>2. \A i \in Nat : InC(cmd, i)' => m.cmd = cmd /\ i = Len(c2s) + 1
    BY <1>1, SendMoves DEF Idle
  <1>3. \A i \in Nat : ~InS(cmd, i)' BY <1>1 DEF Idle, InS
  <1> QED BY <1>2, <1>3 DEF OneOut

\* What is on its way after the board has served a packet.
LEMMA ServeMoves ==
  ASSUME TypeInv, Serve, NEW cmd, NEW i \in Nat
  PROVE  /\ InC(cmd, i)' => i + 1 \in Nat /\ InC(cmd, i + 1) /\ c2s'[i] = c2s[i + 1] /\ i >= 1
         /\ InS(cmd, i)' => \/ InS(cmd, i) /\ s2c'[i] = s2c[i]
                            \/ /\ i = Len(s2c) + 1 /\ InC(cmd, 1)
                               /\ cmd \notin {"RESET", "ADD"}
                               /\ cmd = "DIGEST" => s2c'[i].data = buffer /\ buffer' = buffer
                               /\ cmd = "WRITE" =>
                                    /\ s2c'[i].data \in Errors /\ erased' = erased
                                    /\ stored' = IF s2c'[i].data = 0 THEN Append(stored, buffer)
                                                 ELSE stored
                               /\ cmd = "ERASE" => erased' = erased \cup {c2s[1].data}
  <1> DEFINE m == Head(c2s)
  <1>1. c2s \in Seq(ClientPacket) /\ s2c \in Seq(Packet) BY DEF TypeInv
  <1>2. c2s # <<>> /\ c2s' = Tail(c2s) BY DEF Serve
  <1>3. m = c2s[1] /\ m \in ClientPacket /\ InC(m.cmd, 1) BY <1>1, <1>2, TailFacts DEF InC
  <1>4. ASSUME InC(cmd, i)'
        PROVE  i + 1 \in Nat /\ InC(cmd, i + 1) /\ c2s'[i] = c2s[i + 1] /\ i >= 1
    <2>1. i \in 1 .. Len(c2s') /\ c2s'[i].cmd = cmd BY <1>4 DEF InC
    <2>2. i \in 1 .. Len(c2s) - 1 BY <1>1, <1>2, <2>1, TailFacts
    <2> QED BY <1>1, <1>2, <2>1, <2>2, TailFacts DEF InC
  <1> HIDE DEF m
  <1>5. ASSUME NEW c, NEW d, Reply(c, d), InS(cmd, i)'
        PROVE  \/ InS(cmd, i) /\ s2c'[i] = s2c[i]
               \/ i = Len(s2c) + 1 /\ c = cmd /\ s2c'[i].data = d
    <2> DEFINE p == [cmd |-> c, data |-> d]
    <2>1. s2c \in Seq(Packet \cup {p}) BY <1>1
    <2>2. s2c' \in Sent(s2c, p) BY <1>5 DEF Reply
    <2>3. i \in 1 .. Len(s2c') /\ s2c'[i].cmd = cmd BY <1>5 DEF InS
    <2>4. p.cmd = c /\ p.data = d OBVIOUS
    <2> HIDE DEF p
    <2>5. \/ i \in 1 .. Len(s2c) /\ s2c'[i] = s2c[i]
          \/ i = Len(s2c) + 1 /\ s2c'[i] = p
      BY <2>1, <2>2, <2>3, SentFacts
    <2> QED BY <2>3, <2>4, <2>5 DEF InS
  <1>6. ASSUME InS(cmd, i)'
        PROVE  \/ InS(cmd, i) /\ s2c'[i] = s2c[i]
               \/ /\ i = Len(s2c) + 1 /\ InC(cmd, 1)
                  /\ cmd \notin {"RESET", "ADD"}
                  /\ cmd = "DIGEST" => s2c'[i].data = buffer /\ buffer' = buffer
                  /\ cmd = "WRITE" =>
                       /\ s2c'[i].data \in Errors /\ erased' = erased
                       /\ stored' = IF s2c'[i].data = 0 THEN Append(stored, buffer)
                                    ELSE stored
                  /\ cmd = "ERASE" => erased' = erased \cup {c2s[1].data}
    <2>1. CASE m.cmd \in {"RESET", "ADD"} /\ UNCHANGED <<s2c, stored, erased>>
      BY <1>6, <2>1 DEF InS
    <2>2. CASE m.cmd \in {"ATTN", "RELEASE"} /\ Reply(m.cmd, <<>>) /\ UNCHANGED <<stored, erased>>
      BY <1>3, <1>5, <1>6, <2>2
    <2>3. CASE m.cmd = "DIGEST" /\ Reply("DIGEST", buffer) /\ UNCHANGED <<stored, erased>>
      <3>1. buffer' = buffer BY <2>3 DEF Serve, Buffered, m
      <3> QED BY <1>3, <1>5, <1>6, <2>3, <3>1
    <2>4. ASSUME NEW err \in Errors, m.cmd = "WRITE", Reply("WRITE", err), UNCHANGED erased,
                 stored' = IF err = 0 THEN Append(stored, buffer) ELSE stored
          PROVE  \/ InS(cmd, i) /\ s2c'[i] = s2c[i]
                 \/ i = Len(s2c) + 1 /\ InC(cmd, 1) /\ cmd = "WRITE" /\ s2c'[i].data = err
      BY <1>3, <1>5, <1>6, <2>4
    <2>5. CASE m.cmd = "ERASE" /\ erased' = erased \cup {m.data} /\ Reply("ERASE", m.data)
               /\ UNCHANGED stored
      BY <1>3, <1>5, <1>6, <2>5
    <2> QED BY <2>1, <2>2, <2>3, <2>4, <2>5 DEF Serve, m
  <1> QED BY <1>4, <1>6

\* A step of the board turns a command into its reply, or loses that.
LEMMA ServeOne ==
  ASSUME TypeInv, Serve, NEW cmd, OneOut(cmd)
  PROVE  OneOut(cmd)'
  <1>0. Out(cmd)' <=> Out(cmd) BY DEF Serve, client, Out
  <1>1. \A i \in Nat : InC(cmd, i)' => i + 1 \in Nat /\ InC(cmd, i + 1) /\ i >= 1
    BY ServeMoves
  <1>2. \A i \in Nat : InS(cmd, i)' => InS(cmd, i) \/ (i = Len(s2c) + 1 /\ InC(cmd, 1))
    BY ServeMoves
  <1>3. ASSUME NEW i \in Nat, NEW j \in Nat, InC(cmd, i)', InC(cmd, j)' PROVE i = j
    <2>1. i + 1 = j + 1 BY <1>1, <1>3 DEF OneOut
    <2> QED BY <2>1
  <1>4. ASSUME NEW i \in Nat, NEW j \in Nat, InS(cmd, i)', InS(cmd, j)' PROVE i = j
    BY <1>2, <1>4 DEF OneOut
  <1>5. ASSUME NEW i \in Nat, NEW j \in Nat, InC(cmd, i)', InS(cmd, j)' PROVE FALSE
    <2>1. InC(cmd, i + 1) /\ i + 1 # 1 /\ i + 1 \in Nat BY <1>1, <1>5
    <2>2. InC(cmd, 1) BY <1>2, <1>5, <2>1 DEF OneOut
    <2> QED BY <2>1, <2>2 DEF OneOut
  <1>6. ASSUME NEW i \in Nat, InC(cmd, i)' \/ InS(cmd, i)' PROVE Out(cmd)'
    BY <1>0, <1>1, <1>2, <1>6 DEF OneOut
  <1> QED BY <1>3, <1>4, <1>5, <1>6 DEF OneOut

\* The packet of each sending step.
LEMMA Sends ==
  ASSUME TypeInv
  PROVE  /\ SendAttn => c2s' \in Sent(c2s, [cmd |-> "ATTN", data |-> <<>>])
                        /\ [cmd |-> "ATTN", data |-> <<>>] \in ClientPacket
         /\ SendErase => c2s' \in Sent(c2s, [cmd |-> "ERASE", data |-> index + 1])
                         /\ [cmd |-> "ERASE", data |-> index + 1] \in ClientPacket
         /\ SendReset => c2s' \in Sent(c2s, [cmd |-> "RESET", data |-> <<>>])
                         /\ [cmd |-> "RESET", data |-> <<>>] \in ClientPacket
         /\ SendAdd => c2s' \in Sent(c2s, [cmd |-> "ADD", data |-> chunk[index + 1]])
                       /\ [cmd |-> "ADD", data |-> chunk[index + 1]] \in ClientPacket
         /\ SendDigest => c2s' \in Sent(c2s, [cmd |-> "DIGEST", data |-> <<>>])
                          /\ [cmd |-> "DIGEST", data |-> <<>>] \in ClientPacket
         /\ SendWrite => c2s' \in Sent(c2s, [cmd |-> "WRITE", data |-> offset])
                         /\ [cmd |-> "WRITE", data |-> offset] \in ClientPacket
         /\ SendRelease => c2s' \in Sent(c2s, [cmd |-> "RELEASE", data |-> <<>>])
                           /\ [cmd |-> "RELEASE", data |-> <<>>] \in ClientPacket
  <1>1. ChunkCount(image) \in Nat BY ChunkCountType DEF TypeInv, TypeOK
  <1>2. SendErase => [cmd |-> "ERASE", data |-> index + 1] \in ClientPacket
    <2>1. SendErase => index + 1 \in 1 .. Sectors
      BY UploadAssumption DEF SendErase, TypeInv, TypeOK
    <2> QED BY <2>1, PacketTypes
  <1>3. SendAdd => [cmd |-> "ADD", data |-> chunk[index + 1]] \in ClientPacket
    <2> SUFFICES ASSUME SendAdd PROVE chunk[index + 1] \in Pieces BY PacketTypes
    <2>1. offset + 1 \in 1 .. ChunkCount(image) /\ index + 1 \in 1 .. ChunkPieces
          /\ image \in Files
      BY <1>1, UploadAssumption DEF SendAdd, TypeInv, TypeOK
    <2> QED BY <2>1, ChunkType DEF chunk
  <1>4. SendWrite => [cmd |-> "WRITE", data |-> offset] \in ClientPacket
    <2>1. offset \in Nat BY <1>1 DEF TypeInv, TypeOK
    <2> QED BY <2>1, PacketTypes
  <1>5. \A cmd \in Commands \ {"ADD", "ERASE"} : [cmd |-> cmd, data |-> <<>>] \in ClientPacket
    BY PacketTypes
  <1>6. /\ [cmd |-> "ATTN", data |-> <<>>] \in ClientPacket
        /\ [cmd |-> "RESET", data |-> <<>>] \in ClientPacket
        /\ [cmd |-> "DIGEST", data |-> <<>>] \in ClientPacket
        /\ [cmd |-> "RELEASE", data |-> <<>>] \in ClientPacket
    BY <1>5 DEF Commands
  <1> QED
    BY <1>2, <1>3, <1>4, <1>6
    DEF SendAttn, SendErase, SendReset, SendAdd, SendDigest, SendWrite, SendRelease, SendWait,
        SendData

\* A step keeps what is on its way apart.
LEMMA OneOutStep ==
  ASSUME TypeInv, NEW cmd \in Once, OneOut(cmd), [Next]_vars
  PROVE  OneOut(cmd)'
  <1> USE DEF Once
  <1>1. CASE SendAttn
    BY <1>1, Sends, SendOne DEF SendAttn, SendWait, Out
  <1>2. CASE AttnAnswered
    BY <1>2, TakeOne DEF AttnAnswered, Answer, Proceed, Out
  <1>3. CASE AttnTimeout
    BY <1>3, TakeOne DEF AttnTimeout, TimedOut, Stop, Out
  <1>4. CASE SendErase
    BY <1>4, Sends, SendOne DEF SendErase, SendWait, Out
  <1>5. CASE EraseAnswered
    <2>1. UNCHANGED c2s /\ s2c # <<>> /\ s2c' = Tail(s2c) /\ pc = "ERASE"
          /\ Head(s2c).cmd = "ERASE"
      BY <1>5 DEF EraseAnswered, Answer, Proceed
    <2>2. CASE cmd = "ERASE" BY <2>1, <2>2, TakeQuiets, IdleOne
    <2>3. CASE cmd # "ERASE" BY <2>1, <2>3, TakeOne DEF Out
    <2> QED BY <2>2, <2>3
  <1>6. CASE EraseTimeout
    BY <1>6, TakeOne DEF EraseTimeout, TimedOut, Stop, Out
  <1>7. CASE SendReset
    BY <1>7, Sends, SendOne DEF SendReset, Out
  <1>8. CASE SendAdd
    BY <1>8, Sends, SendOne DEF SendAdd, Out
  <1>9. CASE SendDigest
    BY <1>9, Sends, SendOne DEF SendDigest, SendWait, Out
  <1>10. CASE DigestMatches
    BY <1>10, TakeOne DEF DigestMatches, Answer, Proceed, Out
  <1>11. CASE DigestDiffers
    BY <1>11, TakeOne DEF DigestDiffers, Answer, Retry, Out
  <1>12. CASE DigestTimeout
    BY <1>12, TakeOne DEF DigestTimeout, TimedOut, Retry, Out
  <1>13. CASE SendWrite
    BY <1>13, Sends, SendOne DEF SendWrite, SendWait, Out
  <1>14. CASE WriteAnswered
    <2>1. UNCHANGED c2s /\ s2c # <<>> /\ s2c' = Tail(s2c) /\ pc = "WRITE"
          /\ Head(s2c).cmd = "WRITE"
      BY <1>14 DEF WriteAnswered, Answer, Proceed, Stop
    <2>2. CASE cmd = "WRITE" BY <2>1, <2>2, TakeQuiets, IdleOne
    <2>3. CASE cmd # "WRITE" BY <2>1, <2>3, TakeOne DEF Out
    <2> QED BY <2>2, <2>3
  <1>15. CASE WriteTimeout
    BY <1>15, TakeOne DEF WriteTimeout, TimedOut, Stop, Out
  <1>16. CASE SendRelease
    BY <1>16, Sends, SendOne DEF SendRelease, SendWait, Out
  <1>17. CASE Released
    BY <1>17, TakeOne DEF Released, Answer, Stop, Out
  <1>18. CASE ReleaseTimeout
    BY <1>18, TakeOne DEF ReleaseTimeout, TimedOut, Stop, Out
  <1>19. CASE Receive
    BY <1>19, TakeOne DEF Receive, client, Out
  <1>20. CASE Serve
    BY <1>20, ServeOne
  <1>21. CASE UNCHANGED vars
    BY <1>21, TakeOne DEF vars, client, Out
  <1> QED
    BY <1>1, <1>2, <1>3, <1>4, <1>5, <1>6, <1>7, <1>8, <1>9, <1>10, <1>11, <1>12, <1>13,
       <1>14, <1>15, <1>16, <1>17, <1>18, <1>19, <1>20, <1>21 DEF Next, Client

-----------------------------------------------------------------------------
(* Writes in step *)

\* The states after the erases.
AfterErase == {"RESET", "ADD", "DIGEST", "WRITE", "RELEASE", "done"}

\* What is stored and what the client has counted: a write not yet served is
\* not stored, a reply of success is for a chunk that is.
WriteInv ==
  /\ Len(stored) \in {offset, offset + 1}
  /\ Len(stored) = offset + 1 => Out("WRITE")
  /\ \A i \in Nat : InC("WRITE", i) => Len(stored) = offset /\ erased = 1 .. Sectors
  /\ \A i \in Nat : InS("WRITE", i) /\ s2c[i].data = 0 => Len(stored) = offset + 1

\* What is erased and what the client has counted.
EraseInv ==
  /\ stored # <<>> => erased = 1 .. Sectors
  /\ pc \in AfterErase => erased = 1 .. Sectors
  /\ pc = "ERASE" => 1 .. index \subseteq erased
  /\ pc = "ERASE" => \A i \in Nat : InS("ERASE", i) => index + 1 \in erased
  /\ pc = "ERASE" => \A i \in Nat : InC("ERASE", i) => c2s[i].data = index + 1

StepInv == OneOut("ERASE") /\ OneOut("WRITE") /\ WriteInv /\ EraseInv

\* Steps of the client that neither send a write nor take a reply to one.
LEMMA WriteFrame ==
  ASSUME TypeInv, WriteInv, OneOut("WRITE"), UNCHANGED <<offset, board>>,
         s2c' = s2c \/ (s2c # <<>> /\ s2c' = Tail(s2c)),
         \/ c2s' = c2s
         \/ \E m \in ClientPacket : m.cmd # "WRITE" /\ c2s' \in Sent(c2s, m),
         Out("WRITE") => Out("WRITE")'
  PROVE  WriteInv'
  <1>1. stored' = stored /\ erased' = erased /\ offset' = offset BY DEF board
  <1>2. ASSUME NEW i \in Nat, InC("WRITE", i)' PROVE InC("WRITE", i)
    <2>1. CASE c2s' = c2s BY <1>2, <2>1 DEF InC
    <2>2. ASSUME NEW m \in ClientPacket, m.cmd # "WRITE", c2s' \in Sent(c2s, m)
          PROVE  InC("WRITE", i)
      BY <1>2, <2>2, SendMoves
    <2> QED BY <2>1, <2>2
  <1>3. ASSUME NEW i \in Nat, InS("WRITE", i)', s2c'[i].data = 0
        PROVE  Len(stored) = offset + 1
    <2>1. CASE s2c' = s2c BY <1>3, <2>1 DEF WriteInv, InS
    <2>2. CASE s2c # <<>> /\ s2c' = Tail(s2c)
      <3>1. i + 1 \in Nat /\ InS("WRITE", i + 1) /\ s2c'[i] = s2c[i + 1]
        BY <1>3, <2>2, TakeMoves
      <3> QED BY <1>3, <3>1 DEF WriteInv
    <2> QED BY <2>1, <2>2
  <1> QED BY <1>1, <1>2, <1>3 DEF WriteInv

\* A step of the board keeps the count of writes.
LEMMA ServeWrites ==
  ASSUME TypeInv, StepInv, Serve
  PROVE  WriteInv'
  <1> DEFINE m == c2s[1]
  <1>0. offset' = offset /\ (Out("WRITE")' <=> Out("WRITE")) BY DEF Serve, client, Out
  <1>1. offset \in Nat /\ stored \in Seq(Seq(Pieces)) /\ buffer \in Seq(Pieces)
        /\ erased \subseteq 1 .. Sectors
    <2>1. ChunkCount(image) \in Nat BY ChunkCountType DEF TypeInv, TypeOK
    <2> QED BY <2>1 DEF TypeInv, TypeOK
  <1>2. Head(c2s) = m /\ m \in ClientPacket /\ InC(m.cmd, 1)
    <2>1. c2s \in Seq(ClientPacket) /\ c2s # <<>> BY DEF TypeInv, Serve
    <2> QED BY <2>1, TailFacts DEF InC
  <1> HIDE DEF m
  <1>3. CASE m.cmd = "WRITE"
    <2>1. Len(stored) = offset /\ erased = 1 .. Sectors /\ Out("WRITE")
      BY <1>2, <1>3 DEF StepInv, WriteInv, OneOut
    <2>2. \A i \in Nat : ~InC("WRITE", i)'
      <3> SUFFICES ASSUME NEW i \in Nat, InC("WRITE", i)' PROVE FALSE OBVIOUS
      <3>1. i + 1 \in Nat /\ InC("WRITE", i + 1) /\ i >= 1 BY ServeMoves
      <3>2. i + 1 = 1 BY <1>2, <1>3, <3>1 DEF StepInv, OneOut
      <3> QED BY <3>1, <3>2
    <2>3. \A i \in Nat : ~InS("WRITE", i) BY <1>2, <1>3 DEF StepInv, OneOut
    <2>4. ASSUME NEW i \in Nat, InS("WRITE", i)', s2c'[i].data = 0
          PROVE  Len(stored') = offset + 1
      <3>1. stored' = Append(stored, buffer) BY <2>3, <2>4, ServeMoves
      <3> QED BY <1>1, <2>1, <3>1
    <2>5. \E err \in Errors : stored' = IF err = 0 THEN Append(stored, buffer) ELSE stored
      BY <1>2, <1>3 DEF Serve
    <2>6. Len(stored') \in {offset, offset + 1} BY <1>1, <2>1, <2>5
    <2> QED BY <1>0, <2>1, <2>2, <2>4, <2>6 DEF WriteInv
  <1>4. CASE m.cmd # "WRITE"
    <2>1. stored' = stored
      BY <1>2, <1>4 DEF Serve
    <2>2. erased = 1 .. Sectors => erased' = 1 .. Sectors
      <3>1. m.cmd = "ERASE" => m.data \in 1 .. Sectors BY <1>2 DEF ClientPacket
      <3> QED BY <1>2, <1>4, <3>1 DEF Serve
    <2>3. \A i \in Nat : InC("WRITE", i)' => \E j \in Nat : InC("WRITE", j)
      BY ServeMoves
    <2>4. ~InC("WRITE", 1) BY <1>4 DEF InC, m
    <2>5. \A i \in Nat : InS("WRITE", i)' => InS("WRITE", i) /\ s2c'[i] = s2c[i]
      BY <2>4, ServeMoves
    <2> QED BY <1>0, <2>1, <2>2, <2>3, <2>5 DEF WriteInv, StepInv
  <1> QED BY <1>3, <1>4

\* A step of the board keeps the count of sectors.
LEMMA ServeErases ==
  ASSUME TypeInv, StepInv, Serve
  PROVE  EraseInv'
  <1> DEFINE m == c2s[1]
  <1>0. pc' = pc /\ index' = index BY DEF Serve, client
  <1>1. erased \subseteq 1 .. Sectors BY DEF TypeInv, TypeOK
  <1>2. Head(c2s) = m /\ m \in ClientPacket /\ InC(m.cmd, 1)
    <2>1. c2s \in Seq(ClientPacket) /\ c2s # <<>> BY DEF TypeInv, Serve
    <2> QED BY <2>1, TailFacts DEF InC
  <1> HIDE DEF m
  <1>3. m.cmd = "ERASE" => m.data \in 1 .. Sectors BY <1>2 DEF ClientPacket
  <1>4. erased \subseteq erased' /\ erased' \subseteq 1 .. Sectors
    BY <1>1, <1>2, <1>3 DEF Serve
  <1>5. stored' # <<>> => erased' = 1 .. Sectors
    <2>1. CASE m.cmd = "WRITE"
      <3>1. erased = 1 .. Sectors BY <1>2, <2>1 DEF StepInv, WriteInv
      <3> QED BY <1>4, <3>1
    <2>2. CASE m.cmd # "WRITE"
      <3>1. stored' = stored BY <1>2, <2>2 DEF Serve
      <3> QED BY <1>4, <3>1 DEF StepInv, EraseInv
    <2> QED BY <2>1, <2>2
  <1>6. pc' \in AfterErase => erased' = 1 .. Sectors BY <1>0, <1>4 DEF StepInv, EraseInv
  <1>7. pc' = "ERASE" => 1 .. index' \subseteq erased' BY <1>0, <1>4 DEF StepInv, EraseInv
  <1>8. ASSUME pc' = "ERASE", NEW i \in Nat, InS("ERASE", i)' PROVE index' + 1 \in erased'
    <2>1. CASE InS("ERASE", i)
      BY <1>0, <1>4, <1>8, <2>1 DEF StepInv, EraseInv
    <2>2. CASE InC("ERASE", 1) /\ erased' = erased \cup {c2s[1].data}
      BY <1>0, <1>8, <2>2 DEF StepInv, EraseInv
    <2> QED BY <1>8, <2>1, <2>2, ServeMoves
  <1>9. ASSUME pc' = "ERASE", NEW i \in Nat, InC("ERASE", i)' PROVE c2s'[i].data = index' + 1
    <2>1. i + 1 \in Nat /\ InC("ERASE", i + 1) /\ c2s'[i] = c2s[i + 1] BY <1>9, ServeMoves
    <2> QED BY <1>0, <1>9, <2>1 DEF StepInv, EraseInv
  <1> QED BY <1>5, <1>6, <1>7, <1>8, <1>9 DEF EraseInv

\* Steps of the client that leave the erases behind.
LEMMA EraseFrame ==
  ASSUME EraseInv, UNCHANGED board, pc' # "ERASE", pc' \in AfterErase => erased = 1 .. Sectors
  PROVE  EraseInv'
  BY DEF EraseInv, board

\* A step of the client keeps the count of writes.
LEMMA ClientWrites ==
  ASSUME TypeInv, StepInv, Client
  PROVE  WriteInv'
  <1> USE DEF StepInv
  <1>1. CASE SendAttn
    BY <1>1, Sends, WriteFrame DEF SendAttn, SendWait, Out
  <1>2. CASE AttnAnswered
    BY <1>2, WriteFrame DEF AttnAnswered, Answer, Proceed, Out
  <1>3. CASE AttnTimeout
    BY <1>3, WriteFrame DEF AttnTimeout, TimedOut, Stop, Out
  <1>4. CASE SendErase
    BY <1>4, Sends, WriteFrame DEF SendErase, SendWait, Out
  <1>5. CASE EraseAnswered
    BY <1>5, WriteFrame DEF EraseAnswered, Answer, Proceed, Out
  <1>6. CASE EraseTimeout
    BY <1>6, WriteFrame DEF EraseTimeout, TimedOut, Stop, Out
  <1>7. CASE SendReset
    BY <1>7, Sends, WriteFrame DEF SendReset, Out
  <1>8. CASE SendAdd
    BY <1>8, Sends, WriteFrame DEF SendAdd, Out
  <1>9. CASE SendDigest
    BY <1>9, Sends, WriteFrame DEF SendDigest, SendWait, Out
  <1>10. CASE DigestMatches
    BY <1>10, WriteFrame DEF DigestMatches, Answer, Proceed, Out
  <1>11. CASE DigestDiffers
    BY <1>11, WriteFrame DEF DigestDiffers, Answer, Retry, Out
  <1>12. CASE DigestTimeout
    BY <1>12, WriteFrame DEF DigestTimeout, TimedOut, Retry, Out
  <1>13. CASE SendWrite
    <2>1. pc = "WRITE" /\ ~waiting /\ UNCHANGED <<pc, offset, s2c, board>> /\ waiting' = TRUE
      BY <1>13 DEF SendWrite, SendWait
    <2>2. Len(stored) = offset /\ erased = 1 .. Sectors
      BY <2>1 DEF WriteInv, EraseInv, AfterErase, Out
    <2>3. Idle("WRITE") BY <2>1, NotOut DEF Out
    <2>4. stored' = stored /\ erased' = erased /\ Out("WRITE")' BY <2>1 DEF board, Out
    <2>5. \A i \in Nat : ~InS("WRITE", i)' BY <2>1, <2>3 DEF Idle, InS
    <2> QED BY <2>1, <2>2, <2>4, <2>5 DEF WriteInv
  <1>14. CASE WriteAnswered
    <2>1. UNCHANGED <<c2s, board>> /\ s2c # <<>> /\ s2c' = Tail(s2c) /\ pc = "WRITE"
          /\ Head(s2c).cmd = "WRITE"
      BY <1>14 DEF WriteAnswered, Answer, Proceed, Stop
    <2>2. Idle("WRITE")' BY <2>1, TakeQuiets
    <2>3. stored' = stored /\ erased' = erased BY <2>1 DEF board
    <2>4. CASE Head(s2c).data = 0 /\ offset' = offset + 1
      <3>1. InS("WRITE", 1) /\ s2c[1].data = 0
        <4>1. s2c \in Seq(Packet) BY DEF TypeInv
        <4> QED BY <2>1, <2>4, <4>1, TailFacts DEF InS
      <3>2. Len(stored) = offset' BY <2>4, <3>1 DEF WriteInv
      <3>3. offset' # offset' + 1
        <4>1. ChunkCount(image) \in Nat BY ChunkCountType DEF TypeInv, TypeOK
        <4>2. offset' \in Nat BY <2>4, <4>1 DEF TypeInv, TypeOK
        <4>3. \A n \in Nat : n # n + 1 OBVIOUS
        <4> QED BY <4>2, <4>3
      <3> QED BY <2>2, <2>3, <3>2, <3>3 DEF WriteInv, Idle
    <2>5. CASE pc' = "failed" /\ UNCHANGED offset
      BY <2>2, <2>3, <2>5 DEF WriteInv, Idle, Out
    <2> QED BY <1>14, <2>4, <2>5 DEF WriteAnswered, Stop
  <1>15. CASE WriteTimeout
    BY <1>15, WriteFrame DEF WriteTimeout, TimedOut, Stop, Out
  <1>16. CASE SendRelease
    BY <1>16, Sends, WriteFrame DEF SendRelease, SendWait, Out
  <1>17. CASE Released
    BY <1>17, WriteFrame DEF Released, Answer, Stop, Out
  <1>18. CASE ReleaseTimeout
    BY <1>18, WriteFrame DEF ReleaseTimeout, TimedOut, Stop, Out
  <1>19. CASE Receive
    BY <1>19, WriteFrame DEF Receive, client, Out
  <1> QED
    BY <1>1, <1>2, <1>3, <1>4, <1>5, <1>6, <1>7, <1>8, <1>9, <1>10, <1>11, <1>12, <1>13,
       <1>14, <1>15, <1>16, <1>17, <1>18, <1>19 DEF Client

\* A step of the client keeps the count of sectors.
LEMMA ClientErases ==
  ASSUME TypeInv, StepInv, Client
  PROVE  EraseInv'
  <1> USE DEF StepInv
  <1>0. erased \subseteq 1 .. Sectors /\ Sectors \in Nat /\ index \in Nat
    BY UploadAssumption DEF TypeInv, TypeOK
  <1>1. CASE SendAttn
    BY <1>1, EraseFrame DEF SendAttn, SendWait, AfterErase
  <1>2. CASE AttnAnswered
    <2>1. UNCHANGED <<c2s, board, index>> /\ s2c # <<>> /\ s2c' = Tail(s2c) /\ pc = "ATTN"
          /\ index = 0
      BY <1>2 DEF AttnAnswered, Answer, Proceed, TypeInv
    <2>2. CASE pc' = "ERASE"
      <3>1. Idle("ERASE") BY <2>1, NotOut DEF Out
      <3>2. \A i \in Nat : ~InC("ERASE", i)' BY <2>1, <3>1 DEF Idle, InC
      <3>3. \A i \in Nat : ~InS("ERASE", i)'
        BY <2>1, <3>1, TakeMoves DEF Idle
      <3>4. 1 .. index' = {} BY <2>1
      <3>5. stored' = stored /\ erased' = erased BY <2>1 DEF board
      <3> QED BY <2>2, <3>2, <3>3, <3>4, <3>5 DEF EraseInv, AfterErase
    <2>3. CASE pc' # "ERASE"
      <3>1. pc' \in AfterErase => Sectors = 0
        <4>1. ~(Sectors > 0) => Sectors = 0 BY <1>0
        <4>2. pc' = "too large" \/ ~(Sectors > 0) BY <1>2, <2>3 DEF AttnAnswered, Proceed
        <4> QED BY <4>1, <4>2 DEF AfterErase
      <3>2. Sectors = 0 => erased = 1 .. Sectors BY <1>0
      <3> QED BY <2>1, <2>3, <3>1, <3>2, EraseFrame
    <2> QED BY <2>2, <2>3
  <1>3. CASE AttnTimeout
    BY <1>3, EraseFrame DEF AttnTimeout, TimedOut, Stop, AfterErase
  <1>4. CASE SendErase
    <2>1. pc = "ERASE" /\ ~waiting /\ UNCHANGED <<pc, index, s2c, board>>
      BY <1>4 DEF SendErase, SendWait
    <2>2. Idle("ERASE") BY <2>1, NotOut DEF Out
    <2>3. \A i \in Nat : ~InS("ERASE", i)' BY <2>1, <2>2 DEF Idle, InS
    <2>4. ASSUME NEW i \in Nat, InC("ERASE", i)' PROVE c2s'[i].data = index + 1
      <3>1. c2s'[i] = [cmd |-> "ERASE", data |-> index + 1]
        BY <1>4, <2>2, <2>4, Sends, SendMoves DEF Idle
      <3> QED BY <3>1
    <2>5. stored' = stored /\ erased' = erased BY <2>1 DEF board
    <2> QED BY <2>1, <2>3, <2>4, <2>5 DEF EraseInv
  <1>5. CASE EraseAnswered
    <2>1. UNCHANGED <<c2s, board>> /\ s2c # <<>> /\ s2c' = Tail(s2c) /\ pc = "ERASE"
          /\ Head(s2c).cmd = "ERASE" /\ index < Sectors
      BY <1>5 DEF EraseAnswered, Answer, Proceed, TypeInv
    <2>2. InS("ERASE", 1)
      <3>1. s2c \in Seq(Packet) BY DEF TypeInv
      <3> QED BY <2>1, <3>1, TailFacts DEF InS
    <2>3. 1 .. index + 1 \subseteq erased
      <3>1. index + 1 \in erased /\ 1 .. index \subseteq erased BY <2>1, <2>2 DEF EraseInv
      <3>2. \A x \in 1 .. index + 1 : x \in 1 .. index \/ x = index + 1 BY <1>0
      <3> QED BY <3>1, <3>2
    <2>4. Idle("ERASE")' BY <2>1, TakeQuiets
    <2>5. stored' = stored /\ erased' = erased BY <2>1 DEF board
    <2>6. CASE pc' = "ERASE" /\ index' = index + 1
      BY <2>3, <2>4, <2>5, <2>6 DEF EraseInv, Idle, AfterErase
    <2>7. CASE ~(index + 1 < Sectors) /\ pc' \in {"RELEASE", "RESET"}
      <3>1. index + 1 = Sectors BY <1>0, <2>1, <2>7
      <3>2. erased = 1 .. Sectors BY <1>0, <2>3, <3>1
      <3> QED BY <2>1, <2>7, <3>2, EraseFrame
    <2> QED BY <1>5, <2>6, <2>7 DEF EraseAnswered, Proceed
  <1>6. CASE EraseTimeout
    BY <1>6, EraseFrame DEF EraseTimeout, TimedOut, Stop, AfterErase
  <1>7. CASE Receive
    <2>1. UNCHANGED <<c2s, pc, index, board>> /\ s2c # <<>> /\ s2c' = Tail(s2c)
      BY <1>7 DEF Receive, client
    <2>2. \A i \in Nat : InC("ERASE", i)' <=> InC("ERASE", i) BY <2>1 DEF InC
    <2>3. \A i \in Nat : InS("ERASE", i)' => i + 1 \in Nat /\ InS("ERASE", i + 1)
      BY <2>1, TakeMoves
    <2>4. stored' = stored /\ erased' = erased BY <2>1 DEF board
    <2> QED BY <2>1, <2>2, <2>3, <2>4 DEF EraseInv
  <1>8. CASE pc \in AfterErase /\ pc' # "ERASE" /\ UNCHANGED board
    BY <1>8, EraseFrame DEF EraseInv
  <1>9. \/ SendReset \/ SendAdd \/ SendDigest \/ DigestMatches \/ DigestDiffers
        \/ DigestTimeout \/ SendWrite \/ WriteAnswered \/ WriteTimeout
        \/ SendRelease \/ Released \/ ReleaseTimeout
        => pc \in AfterErase /\ pc' # "ERASE" /\ UNCHANGED board
    BY DEF SendReset, SendAdd, SendDigest, DigestMatches, DigestDiffers, DigestTimeout,
           SendWrite, WriteAnswered, WriteTimeout, SendRelease, Released, ReleaseTimeout,
           SendWait, Proceed, Retry, Stop, TimedOut, AfterErase
  <1> QED
    BY <1>1, <1>2, <1>3, <1>4, <1>5, <1>6, <1>7, <1>8, <1>9 DEF Client

\* The counts of writes and sectors hold.
LEMMA StepInvCorrect == Spec => []StepInv
  <1>1. Init => StepInv
    <2> SUFFICES ASSUME Init PROVE StepInv OBVIOUS
    <2>1. \A cmd : Idle(cmd) BY DEF Init, Idle, InC, InS
    <2>2. OneOut("ERASE") /\ OneOut("WRITE") BY <2>1 DEF Idle, OneOut
    <2>3. WriteInv
      <3>1. Len(stored) = 0 /\ offset = 0 BY DEF Init
      <3>2. Len(stored) \in {offset, offset + 1} /\ Len(stored) # offset + 1 BY <3>1
      <3> QED BY <2>1, <3>2 DEF WriteInv, Idle
    <2>4. EraseInv BY DEF Init, EraseInv, AfterErase
    <2> QED BY <2>2, <2>3, <2>4 DEF StepInv
  <1>2. TypeInv /\ StepInv /\ [Next]_vars => StepInv'
    <2> SUFFICES ASSUME TypeInv, StepInv, [Next]_vars PROVE StepInv' OBVIOUS
    <2>1. OneOut("ERASE")' /\ OneOut("WRITE")' BY OneOutStep DEF StepInv, Once
    <2>2. CASE Client BY <2>1, <2>2, ClientWrites, ClientErases DEF StepInv
    <2>3. CASE Serve BY <2>1, <2>3, ServeWrites, ServeErases DEF StepInv
    <2>4. CASE UNCHANGED vars
      BY <2>4 DEF vars, client, board, StepInv, WriteInv, EraseInv, OneOut, Out, InC, InS
    <2> QED BY <2>2, <2>3, <2>4 DEF Next
  <1> QED BY <1>1, <1>2, TypeInvCorrect, PTL DEF Spec

\* No chunk is written twice or left out, and none before every sector is
\* erased, whatever is lost, late or refused: a write is sent once, and one
\* without an answer ends the upload.
THEOREM WritesOnce == Spec => []WritesInStep
  <1>1. TypeInv /\ StepInv => WritesInStep
    <2> SUFFICES ASSUME TypeInv, StepInv PROVE WritesInStep OBVIOUS
    <2>1. Len(stored) \in {offset, offset + 1} /\ (stored # <<>> => erased = 1 .. Sectors)
      BY DEF StepInv, WriteInv, EraseInv
    <2>2. pc \in {"RELEASE", "done"} => Len(stored) = offset /\ offset = ChunkCount(image)
      BY <2>1 DEF StepInv, WriteInv, Out, TypeInv
    <2> QED BY <2>1, <2>2 DEF WritesInStep
  <1> QED BY <1>1, TypeInvCorrect, StepInvCorrect, PTL

-----------------------------------------------------------------------------
(* What is written: a client that waits replies out *)

\* With a client that waits until nothing is on its way, the channels hold at
\* most the data of one transfer and the command that is waited for, so the
\* digest a client compares is the digest of the buffer it then writes.
ContentInv ==
  /\ s2c # <<>> => Len(s2c) = 1 /\ c2s = <<>> /\ waiting /\ s2c[1].cmd = pc
  /\ ~waiting /\ pc \notin {"ADD", "DIGEST"} => c2s = <<>>
  /\ \A i \in 1 .. Len(c2s) :
       \/ c2s[i].cmd \in {"RESET", "ADD"} /\ pc \in {"ADD", "DIGEST"}
       \/ c2s[i].cmd = pc /\ waiting /\ i = Len(c2s)
  /\ pc = "WRITE" => buffer = chunk
  /\ pc = "DIGEST" /\ s2c # <<>> => s2c[1].data = buffer
  /\ Len(stored) <= ChunkCount(image)
  /\ \A k \in 1 .. Len(stored) : stored[k] = DataToChunks(image)[k]

\* A step after which nothing is on its way.
LEMMA ContentQuiet ==
  ASSUME ContentInv, c2s' = <<>>, s2c' = <<>>, UNCHANGED <<image, board>>,
         pc' = "WRITE" => buffer = chunk'
  PROVE  ContentInv'
  <1>1. stored' = stored /\ buffer' = buffer BY DEF board
  <1>2. 1 .. Len(c2s') = {} OBVIOUS
  <1> QED BY <1>1, <1>2 DEF ContentInv

\* A reply is alone, and taking it leaves nothing on its way.
LEMMA AnswerQuiets ==
  ASSUME TypeInv, ContentInv, s2c # <<>>
  PROVE  c2s = <<>> /\ Tail(s2c) = <<>> /\ Head(s2c) = s2c[1] /\ Head(s2c).cmd = pc
  <1>1. s2c \in Seq(Packet) /\ Len(s2c) = 1 BY DEF TypeInv, ContentInv
  <1>2. Tail(s2c) = <<>>
    <2>1. Tail(s2c) \in Seq(Packet) /\ Len(Tail(s2c)) = 0 BY <1>1, TailFacts
    <2> QED BY <2>1, EmptySeq
  <1> QED BY <1>1, <1>2, TailFacts DEF ContentInv

\* The commands that are waited for keep the content.
LEMMA ContentWait ==
  ASSUME TypeInv, ContentInv, NEW m \in ClientPacket, pc = m.cmd, ~waiting,
         c2s' \in Sent(c2s, m), waiting' = TRUE, UNCHANGED <<image, pc, offset, s2c, board>>
  PROVE  ContentInv'
  <1>1. s2c = <<>> BY DEF ContentInv
  <1>2. c2s \in Seq(ClientPacket) BY DEF TypeInv
  <1>3. ASSUME NEW i \in 1 .. Len(c2s')
        PROVE  \/ c2s'[i].cmd \in {"RESET", "ADD"} /\ pc \in {"ADD", "DIGEST"}
               \/ c2s'[i].cmd = pc /\ i = Len(c2s')
    BY <1>2, SentFacts DEF ContentInv
  <1>4. stored' = stored /\ buffer' = buffer BY DEF board
  <1>5. chunk' = chunk BY DEF chunk
  <1> QED BY <1>1, <1>3, <1>4, <1>5 DEF ContentInv

\* A step of the board stores the chunk the client is at, or nothing.
LEMMA ServeContent ==
  ASSUME TypeInv, StepInv, ContentInv, Serve
  PROVE  /\ ContentInv'
         /\ stored' # stored =>
              pc = "WRITE" /\ Len(stored) = offset /\ stored' = Append(stored, chunk)
         /\ Head(c2s).cmd = "RELEASE" => pc = "RELEASE"
  <1> DEFINE m == c2s[1]
  <1>1. /\ c2s \in Seq(ClientPacket) /\ c2s # <<>> /\ c2s' = Tail(c2s)
        /\ stored \in Seq(Seq(Pieces)) /\ buffer \in Seq(Pieces)
    BY DEF TypeInv, TypeOK, Serve
  <1>2. Head(c2s) = m /\ m \in ClientPacket /\ InC(m.cmd, 1) /\ 1 \in 1 .. Len(c2s)
        /\ Len(c2s) \in Nat
    BY <1>1, TailFacts DEF InC
  <1>3. UNCHANGED <<image, pc, waiting, offset>> /\ buffer' = Buffered(m)
    BY <1>2 DEF Serve, client
  <1>4. chunk' = chunk BY <1>3 DEF chunk
  <1>5. s2c = <<>> BY <1>1 DEF ContentInv
  <1>6. \/ m.cmd \in {"RESET", "ADD"} /\ pc \in {"ADD", "DIGEST"}
        \/ m.cmd = pc /\ waiting /\ 1 = Len(c2s)
    BY <1>2 DEF ContentInv
  <1> HIDE DEF m
  <1>7. CASE m.cmd \in {"RESET", "ADD"}
    <2>1. UNCHANGED <<s2c, stored>> BY <1>2, <1>7 DEF Serve
    <2>2. pc \in {"ADD", "DIGEST"} BY <1>6, <1>7 DEF TypeInv, TypeOK
    <2>3. ASSUME NEW i \in 1 .. Len(c2s')
          PROVE  \/ c2s'[i].cmd \in {"RESET", "ADD"} /\ pc \in {"ADD", "DIGEST"}
                 \/ c2s'[i].cmd = pc /\ waiting /\ i = Len(c2s')
      <3>1. i \in 1 .. Len(c2s) - 1 /\ Len(c2s') = Len(c2s) - 1 BY <1>1, TailFacts
      <3>2. c2s'[i] = c2s[i + 1] /\ i + 1 \in 1 .. Len(c2s) BY <1>1, <3>1, TailFacts
      <3>3. i + 1 = Len(c2s) => i = Len(c2s') BY <1>2, <3>1
      <3> QED BY <3>2, <3>3 DEF ContentInv
    <2> QED BY <1>2, <1>3, <1>5, <1>7, <2>1, <2>2, <2>3 DEF ContentInv
  <1>8. CASE m.cmd \notin {"RESET", "ADD"}
    <2>1. m.cmd = pc /\ waiting /\ Len(c2s) = 1 BY <1>6, <1>8
    <2>2. c2s' = <<>> BY <1>1, <2>1
    <2>3. buffer' = buffer BY <1>3, <1>8 DEF Buffered
    <2>4. ASSUME NEW c, NEW d, Reply(c, d), c = pc, c = "DIGEST" => d = buffer
          PROVE  /\ s2c' # <<>> => Len(s2c') = 1 /\ s2c'[1].cmd = pc
                 /\ pc = "DIGEST" /\ s2c' # <<>> => s2c'[1].data = buffer
      <3>1. s2c' = <<>> \/ s2c' = <<[cmd |-> c, data |-> d]>>
        BY <1>5, <2>4 DEF Reply, Sent
      <3> QED BY <2>4, <3>1
    <2>5. /\ s2c' # <<>> => Len(s2c') = 1 /\ s2c'[1].cmd = pc
          /\ pc = "DIGEST" /\ s2c' # <<>> => s2c'[1].data = buffer
          /\ \/ stored' = stored
             \/ pc = "WRITE" /\ stored' = Append(stored, buffer)
      <3>1. CASE m.cmd \in {"ATTN", "RELEASE"} /\ Reply(m.cmd, <<>>) /\ UNCHANGED stored
        BY <2>1, <2>4, <3>1
      <3>2. CASE m.cmd = "DIGEST" /\ Reply("DIGEST", buffer) /\ UNCHANGED stored
        BY <2>1, <2>4, <3>2
      <3>3. ASSUME NEW err \in Errors, m.cmd = "WRITE", Reply("WRITE", err),
                   stored' = IF err = 0 THEN Append(stored, buffer) ELSE stored
            PROVE  /\ s2c' # <<>> => Len(s2c') = 1 /\ s2c'[1].cmd = pc
                   /\ pc # "DIGEST"
        BY <2>1, <2>4, <3>3
      <3>4. CASE m.cmd = "ERASE" /\ Reply("ERASE", m.data) /\ UNCHANGED stored
        BY <2>1, <2>4, <3>4
      <3> QED BY <1>2, <1>8, <2>1, <3>1, <3>2, <3>3, <3>4 DEF Serve
    <2>6. pc = "WRITE" => Len(stored) = offset /\ buffer = chunk
      BY <1>2, <2>1 DEF StepInv, WriteInv, ContentInv
    <2>7. \A k \in 1 .. Len(stored') : stored'[k] = DataToChunks(image)[k]
      <3>1. CASE stored' = stored BY <3>1 DEF ContentInv
      <3>2. CASE pc = "WRITE" /\ stored' = Append(stored, buffer)
        <4>1. Len(stored') = offset + 1 /\ stored'[offset + 1] = buffer
              /\ \A k \in 1 .. Len(stored) : stored'[k] = stored[k]
          BY <1>1, <2>6, <3>2
        <4>2. \A k \in 1 .. Len(stored') : k \in 1 .. Len(stored) \/ k = offset + 1
          <5>1. Len(stored) \in Nat BY <1>1
          <5> QED BY <2>6, <3>2, <4>1, <5>1
        <4> QED BY <2>6, <3>2, <4>1, <4>2 DEF ContentInv, chunk
      <3> QED BY <2>5, <3>1, <3>2
    <2>8. ContentInv'
      <3>1. 1 .. Len(c2s') = {} BY <2>2
      <3>2. Len(stored') <= ChunkCount(image)
        <4>1. CASE stored' = stored BY <4>1 DEF ContentInv
        <4>2. CASE pc = "WRITE" /\ stored' = Append(stored, buffer)
          <5>1. offset < ChunkCount(image) /\ ChunkCount(image) \in Nat
                /\ offset \in 0 .. ChunkCount(image)
            BY <4>2, ChunkCountType DEF TypeInv, TypeOK
          <5>2. Len(stored') = offset + 1 BY <1>1, <2>6, <4>2
          <5> QED BY <5>1, <5>2
        <4> QED BY <2>5, <4>1, <4>2
      <3> QED BY <3>2, <1>3, <1>4, <2>1, <2>2, <2>3, <2>5, <2>7, <3>1 DEF ContentInv
    <2> QED BY <1>2, <2>1, <2>5, <2>6, <2>8
  <1> QED BY <1>7, <1>8

\* A step of a client that waits replies out keeps the content.
LEMMA ClientContent ==
  ASSUME ~Late, TypeInv, ContentInv, Client
  PROVE  ContentInv'
  <1>1. CASE SendAttn
    BY <1>1, Sends, ContentWait DEF SendAttn, SendWait
  <1>2. CASE AttnAnswered
    BY <1>2, AnswerQuiets, ContentQuiet DEF AttnAnswered, Answer, Proceed
  <1>3. CASE AttnTimeout
    BY <1>3, ContentQuiet DEF AttnTimeout, TimedOut, Stop
  <1>4. CASE SendErase
    BY <1>4, Sends, ContentWait DEF SendErase, SendWait
  <1>5. CASE EraseAnswered
    BY <1>5, AnswerQuiets, ContentQuiet DEF EraseAnswered, Answer, Proceed
  <1>6. CASE EraseTimeout
    BY <1>6, ContentQuiet DEF EraseTimeout, TimedOut, Stop
  <1>7. CASE SendReset
    <2>1. ~waiting /\ pc' = "ADD" /\ UNCHANGED <<image, waiting, s2c, board>>
      BY <1>7 DEF SendReset, TypeInv, TypeOK
    <2>2. s2c = <<>> /\ c2s \in Seq(ClientPacket)
      BY <2>1 DEF ContentInv, TypeInv
    <2>3. c2s = <<>> BY <1>7, <2>1 DEF SendReset, ContentInv
    <2>4. \A i \in 1 .. Len(c2s') : c2s'[i].cmd = "RESET"
      <3>1. \E m \in ClientPacket : m.cmd = "RESET" /\ c2s' \in Sent(c2s, m) BY <1>7, Sends
      <3>2. 1 .. Len(c2s) = {} BY <2>3
      <3> QED BY <2>2, <3>1, <3>2, SentFacts
    <2>5. stored' = stored BY <2>1 DEF board
    <2> QED BY <2>1, <2>2, <2>4, <2>5 DEF ContentInv
  <1>8. CASE SendAdd
    <2>1. ~waiting /\ pc = "ADD" /\ pc' \in {"ADD", "DIGEST"}
          /\ UNCHANGED <<image, waiting, s2c, board>>
      BY <1>8 DEF SendAdd, TypeInv, TypeOK
    <2>2. s2c = <<>> /\ c2s \in Seq(ClientPacket)
      BY <2>1 DEF ContentInv, TypeInv
    <2>3. \A i \in 1 .. Len(c2s) : c2s[i].cmd \in {"RESET", "ADD"}
      BY <2>1 DEF ContentInv
    <2>4. \A i \in 1 .. Len(c2s') : c2s'[i].cmd \in {"RESET", "ADD"}
      <3>1. \E m \in ClientPacket : m.cmd = "ADD" /\ c2s' \in Sent(c2s, m) BY <1>8, Sends
      <3> QED BY <2>2, <2>3, <3>1, SentFacts
    <2>5. stored' = stored BY <2>1 DEF board
    <2> QED BY <2>1, <2>2, <2>4, <2>5 DEF ContentInv
  <1>9. CASE SendDigest
    BY <1>9, Sends, ContentWait DEF SendDigest, SendWait
  <1>10. CASE DigestMatches
    <2>1. chunk' = chunk BY <1>10 DEF DigestMatches, Proceed, chunk
    <2>2. buffer = chunk
      BY <1>10, AnswerQuiets DEF DigestMatches, Answer, ContentInv
    <2> QED BY <1>10, <2>1, <2>2, AnswerQuiets, ContentQuiet DEF DigestMatches, Answer, Proceed
  <1>11. CASE DigestDiffers
    BY <1>11, AnswerQuiets, ContentQuiet DEF DigestDiffers, Answer, Retry
  <1>12. CASE DigestTimeout
    BY <1>12, ContentQuiet DEF DigestTimeout, TimedOut, Retry
  <1>13. CASE SendWrite
    BY <1>13, Sends, ContentWait DEF SendWrite, SendWait
  <1>14. CASE WriteAnswered
    BY <1>14, AnswerQuiets, ContentQuiet DEF WriteAnswered, Answer, Proceed, Stop
  <1>15. CASE WriteTimeout
    BY <1>15, ContentQuiet DEF WriteTimeout, TimedOut, Stop
  <1>16. CASE SendRelease
    BY <1>16, Sends, ContentWait DEF SendRelease, SendWait
  <1>17. CASE Released
    BY <1>17, AnswerQuiets, ContentQuiet DEF Released, Answer, Stop
  <1>18. CASE ReleaseTimeout
    BY <1>18, ContentQuiet DEF ReleaseTimeout, TimedOut, Stop
  <1>19. CASE Receive
    BY <1>19, AnswerQuiets DEF Receive
  <1> QED
    BY <1>1, <1>2, <1>3, <1>4, <1>5, <1>6, <1>7, <1>8, <1>9, <1>10, <1>11, <1>12, <1>13,
       <1>14, <1>15, <1>16, <1>17, <1>18, <1>19 DEF Client

\* The content invariant holds for a client that waits replies out.
LEMMA ContentCorrect == ASSUME ~Late PROVE Spec => []ContentInv
  <1>1. Init => ContentInv
    <2> SUFFICES ASSUME Init PROVE ContentInv OBVIOUS
    <2>1. 1 .. Len(c2s) = {} /\ 1 .. Len(stored) = {} /\ Len(stored) = 0 BY DEF Init
    <2>2. 0 <= ChunkCount(image)
      <3>1. ChunkCount(image) \in Nat BY ChunkCountType DEF Init
      <3> QED BY <3>1
    <2> QED BY <2>1, <2>2 DEF Init, ContentInv
  <1>2. TypeInv /\ StepInv /\ ContentInv /\ [Next]_vars => ContentInv'
    <2> SUFFICES ASSUME TypeInv, StepInv, ContentInv, [Next]_vars PROVE ContentInv' OBVIOUS
    <2>1. CASE Client BY <2>1, ClientContent
    <2>2. CASE Serve BY <2>2, ServeContent
    <2>3. CASE UNCHANGED vars
      BY <2>3 DEF vars, client, board, ContentInv, chunk
    <2> QED BY <2>1, <2>2, <2>3 DEF Next
  <1> QED BY <1>1, <1>2, TypeInvCorrect, StepInvCorrect, PTL DEF Spec

\* What is stored is the image so far, and all of it when the board is let go.
LEMMA StoredFacts ==
  ASSUME TypeInv, StepInv, ContentInv
  PROVE  /\ StoredIsImage
         /\ pc \in {"RELEASE", "done"} => stored = DataToChunks(image)
  <1>1. ChunkCount(image) \in Nat /\ stored \in Seq(Seq(Pieces))
    BY ChunkCountType DEF TypeInv, TypeOK
  <1>2. StoredIsImage BY DEF ContentInv, StoredIsImage
  <1>3. ASSUME pc \in {"RELEASE", "done"} PROVE stored = DataToChunks(image)
    <2>1. Len(stored) = ChunkCount(image)
      BY <1>3 DEF StepInv, WriteInv, Out, TypeInv
    <2>2. DOMAIN stored = 1 .. ChunkCount(image) BY <1>1, <2>1
    <2>3. stored = [k \in 1 .. ChunkCount(image) |-> stored[k]] BY <1>1, <2>2
    <2>4. \A k \in 1 .. ChunkCount(image) : stored[k] = DataToChunks(image)[k]
      BY <2>1 DEF ContentInv
    <2>5. DataToChunks(image) = [k \in 1 .. ChunkCount(image) |-> DataToChunks(image)[k]]
      BY DEF DataToChunks
    <2> QED BY <2>3, <2>4, <2>5
  <1> QED BY <1>2, <1>3

\* A client that waits replies out stores nothing but the first chunks of its
\* image, whatever is lost and however often a chunk is transferred again.
THEOREM StoredCorrect == ASSUME ~Late PROVE Spec => []StoredIsImage
  <1>1. TypeInv /\ StepInv /\ ContentInv => StoredIsImage BY StoredFacts
  <1> QED BY <1>1, TypeInvCorrect, StepInvCorrect, ContentCorrect, PTL

-----------------------------------------------------------------------------
(* The upload implements the flasher *)

\* A step of the upload is a step of the flasher, or changes nothing it sees.
LEMMA Simulation ==
  ASSUME TypeInv, StepInv, ContentInv, ~Late, [Next]_vars
  PROVE  [Flasher!Next]_(Flasher!vars)
  <1> DEFINE t == DataToChunks(image)
  <1>0. image' = image
    BY DEF Next, Client, vars, SendAttn, AttnAnswered, AttnTimeout, SendErase, EraseAnswered,
           EraseTimeout, SendReset, SendAdd, SendDigest, DigestMatches, DigestDiffers,
           DigestTimeout, SendWrite, WriteAnswered, WriteTimeout, SendRelease, Released,
           ReleaseTimeout, Receive, Serve, SendWait, Proceed, Stop, Retry
  <1>1. t' = t BY <1>0
  <1>2. CASE Serve
    <2>1. status' = status /\ ~booted /\ booted' = (Head(c2s).cmd = "RELEASE")
      BY <1>2 DEF Serve, client, status
    <2>2. CASE stored' # stored
      <3>1. pc = "WRITE" /\ Len(stored) = offset /\ stored' = Append(stored, chunk)
            /\ Head(c2s).cmd # "RELEASE"
        BY <1>2, <2>2, ServeContent
      <3>2. Len(stored) < Len(t)
        <4>1. offset < ChunkCount(image) /\ ChunkCount(image) \in Nat
          BY <3>1, ChunkCountType DEF TypeInv, TypeOK
        <4>2. Len(t) = ChunkCount(image) BY <4>1 DEF DataToChunks
        <4> QED BY <3>1, <4>1, <4>2
      <3>3. status # "ok" BY <3>1 DEF status, Ended
      <3>4. stored' = Append(stored, t[Len(stored) + 1]) BY <3>1 DEF chunk
      <3>5. booted' = booted BY <2>1, <3>1 DEF TypeInv, TypeOK
      <3>6. Flasher!Store
        BY <1>1, <2>1, <3>2, <3>3, <3>4, <3>5 DEF Flasher!Store
      <3> QED BY <3>6 DEF Flasher!Next
    <2>3. CASE stored' = stored /\ Head(c2s).cmd = "RELEASE"
      <3>1. pc = "RELEASE" BY <1>2, <2>3, ServeContent
      <3>2. stored = t BY <3>1, StoredFacts
      <3>3. Flasher!Boot BY <1>1, <2>1, <2>3, <3>2 DEF Flasher!Boot
      <3> QED BY <3>3 DEF Flasher!Next
    <2>4. CASE stored' = stored /\ Head(c2s).cmd # "RELEASE"
      BY <1>1, <2>1, <2>4 DEF Flasher!vars, TypeInv, TypeOK
    <2> QED BY <2>2, <2>3, <2>4
  <1>3. CASE Client
    <2>1. stored' = stored /\ booted' = booted
      BY <1>3 DEF Client, SendAttn, AttnAnswered, AttnTimeout, SendErase, EraseAnswered,
           EraseTimeout, SendReset, SendAdd, SendDigest, DigestMatches, DigestDiffers,
           DigestTimeout, SendWrite, WriteAnswered, WriteTimeout, SendRelease, Released,
           ReleaseTimeout, Receive, SendWait, Proceed, Stop, Retry, board
    <2>2. pc' \in Ended => pc \notin Ended
      BY <1>3
      DEF Client, SendAttn, AttnAnswered, AttnTimeout, SendErase, EraseAnswered,
           EraseTimeout, SendReset, SendAdd, SendDigest, DigestMatches, DigestDiffers,
           DigestTimeout, SendWrite, WriteAnswered, WriteTimeout, SendRelease, Released,
           ReleaseTimeout, Receive, SendWait, Proceed, Stop, Retry, TimedOut, client, Ended,
           TypeInv, TypeOK
    <2>3. pc' = "done" => pc = "RELEASE"
      BY <1>3, <2>2
      DEF Client, SendAttn, AttnAnswered, AttnTimeout, SendErase, EraseAnswered,
           EraseTimeout, SendReset, SendAdd, SendDigest, DigestMatches, DigestDiffers,
           DigestTimeout, SendWrite, WriteAnswered, WriteTimeout, SendRelease, Released,
           ReleaseTimeout, Receive, SendWait, Proceed, Stop, Retry, TimedOut, client, Ended
    <2>4. pc \in Ended => pc' \in Ended
      BY <1>3
      DEF Client, SendAttn, AttnAnswered, AttnTimeout, SendErase, EraseAnswered,
           EraseTimeout, SendReset, SendAdd, SendDigest, DigestMatches, DigestDiffers,
           DigestTimeout, SendWrite, WriteAnswered, WriteTimeout, SendRelease, Released,
           ReleaseTimeout, Receive, SendWait, Proceed, Stop, Retry, TimedOut, client, Ended
    <2>5. CASE pc' = "done"
      <3>1. stored = t BY <2>3, <2>5, StoredFacts
      <3>2. status = "busy" /\ status' = "ok" BY <2>3, <2>5 DEF status, Ended
      <3>3. Flasher!Succeed BY <1>1, <2>1, <3>1, <3>2 DEF Flasher!Succeed
      <3> QED BY <3>3 DEF Flasher!Next
    <2>6. CASE pc' \in Ended \ {"done"}
      <3>1. status = "busy" /\ status' = "failed" BY <2>2, <2>6 DEF status, Ended
      <3>2. Flasher!GiveUp BY <1>1, <2>1, <3>1 DEF Flasher!GiveUp
      <3> QED BY <3>2 DEF Flasher!Next
    <2>7. CASE pc' \notin Ended
      <3>1. status = "busy" /\ status' = "busy" BY <2>4, <2>7 DEF status, Ended
      <3> QED BY <1>1, <2>1, <3>1 DEF Flasher!vars
    <2> QED BY <2>5, <2>6, <2>7
  <1>4. CASE UNCHANGED vars
    BY <1>1, <1>4 DEF vars, client, board, status, Flasher!vars
  <1> QED BY <1>2, <1>3, <1>4 DEF Next

\* The safety half of the refinement: an upload whose client waits replies
\* out is an upload as BiffFlasher promises it. What is stored grows by the
\* image's next chunk, the board boots with all of it, and success is
\* reported only then.
THEOREM Implements == ASSUME ~Late PROVE Spec => Flasher!SafeSpec
  <1>1. Init => Flasher!Init BY DEF Init, Flasher!Init, status, Ended
  <1>2. TypeInv /\ StepInv /\ ContentInv /\ [Next]_vars => [Flasher!Next]_(Flasher!vars)
    BY Simulation
  <1> QED
    BY <1>1, <1>2, TypeInvCorrect, StepInvCorrect, ContentCorrect, PTL DEF Spec, Flasher!SafeSpec
=============================================================================
