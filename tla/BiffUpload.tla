------------------------------ MODULE BiffUpload ------------------------------
(***************************************************************************)
(* The network upload of a flash image: the client of bb_udp_upload.py,    *)
(* bb_eth_upload8.py and bb_eth_upload.py, and the board, as played by     *)
(* bb_fake_udp_server.py.                                                  *)
(*                                                                         *)
(* The three clients run one protocol and differ in the constants: how     *)
(* often ATTN is sent, whether sectors are erased first, the size limit,   *)
(* and whether a reply can still arrive after the client stopped waiting.  *)
(*                                                                         *)
(* Packets travel in order and any of them may be lost.  The unit of data  *)
(* is the 512-byte piece of a DATA_ADD packet; an md5 digest is the buffer *)
(* it was computed from.                                                   *)
(***************************************************************************)
EXTENDS Naturals, Sequences

CONSTANTS
  Pieces,      \* contents of a piece
  Pad,         \* the piece of 0xff bytes an image is filled up with
  Files,       \* the images, sequences of pieces
  ChunkPieces, \* pieces in a chunk (8192 / 512)
  AttnTries,   \* how often ATTN is sent: once (UDP), or for ten seconds
  Attempts,    \* transfers tried for a chunk (5)
  MaxChunks,   \* chunks in the largest image accepted (119)
  Sectors,     \* erase sectors, from 1, erased before the first chunk
  Errors,      \* results a board may report for a write, 0 for success
  Late         \* replies may arrive after the client stopped waiting

ASSUME UploadAssumption ==
  /\ Pad \in Pieces /\ Files \subseteq Seq(Pieces)
  /\ ChunkPieces \in Nat \ {0} /\ AttnTries \in Nat \ {0} /\ Attempts \in Nat \ {0}
  /\ MaxChunks \in Nat /\ Sectors \in Nat
  /\ Errors \subseteq Nat /\ 0 \in Errors
  /\ Late \in BOOLEAN

VARIABLES
  image,     \* the file to upload
  pc,        \* what the client does next, or how it ended
  waiting,   \* it has sent the command pc and waits for the reply
  tries,     \* ATTNs or transfers tried so far
  index,     \* pieces of the chunk sent, sectors erased
  offset,    \* chunks written
  c2s, s2c,  \* packets on their way to the board and back
  buffer,    \* the board's data buffer
  stored,    \* what it has written
  erased,    \* sectors it has erased
  booted     \* it has been released

client == <<pc, waiting, tries, index, offset>>
board == <<buffer, stored, erased, booted>>
vars == <<image, client, c2s, s2c, board>>

-----------------------------------------------------------------------------
(* The image *)

ChunkCount(f) == (Len(f) + ChunkPieces - 1) \div ChunkPieces

\* The image in whole chunks, the last one filled up.
DataToChunks(f) ==
  [k \in 1 .. ChunkCount(f) |->
     [i \in 1 .. ChunkPieces |->
        LET n == (k - 1) * ChunkPieces + i IN IF n <= Len(f) THEN f[n] ELSE Pad]]

chunk == DataToChunks(image)[offset + 1]

-----------------------------------------------------------------------------
(* The client *)

\* A packet is lost or joins the others.
Sent(channel, packet) == {channel, Append(channel, packet)}

\* Send of a command that is not acknowledged.
SendData(cmd, data) == c2s' \in Sent(c2s, [cmd |-> cmd, data |-> data])

\* The first half of Send for a command that is: then it waits.
SendWait(cmd, data) ==
  /\ ~waiting
  /\ SendData(cmd, data)
  /\ waiting' = TRUE
  /\ UNCHANGED <<image, pc, tries, index, offset, s2c, board>>

\* Receive has the reply to the command cmd.
Answer(cmd) == waiting /\ s2c # <<>> /\ Head(s2c).cmd = cmd

\* Receive drops replies to other commands.
Receive ==
  /\ waiting /\ s2c # <<>> /\ Head(s2c).cmd # pc
  /\ s2c' = Tail(s2c)
  /\ UNCHANGED <<image, client, c2s, board>>

\* Nothing is on its way, or the client does not wait long enough to know.
TimedOut(cmd) ==
  /\ pc = cmd /\ waiting
  /\ Late \/ (s2c = <<>> /\ c2s = <<>>)

Stop(how) ==
  /\ pc' = how
  /\ waiting' = FALSE
  /\ UNCHANGED <<image, tries, index, offset, c2s, board>>

\* The next command, with the reply consumed.
Proceed(cmd) ==
  /\ pc' = cmd
  /\ waiting' = FALSE
  /\ s2c' = Tail(s2c)
  /\ UNCHANGED <<image, c2s, board>>

SendAttn == pc = "ATTN" /\ SendWait("ATTN", <<>>)

\* The upload starts with the erases or, without any, with the first chunk;
\* an image that is too large ends it.
AttnAnswered ==
  /\ pc = "ATTN" /\ Answer("ATTN")
  /\ Proceed(IF ChunkCount(image) > MaxChunks THEN "too large"
             ELSE IF Sectors > 0 THEN "ERASE"
             ELSE IF ChunkCount(image) = 0 THEN "RELEASE" ELSE "RESET")
  /\ tries' = 0
  /\ UNCHANGED <<index, offset>>

\* Mutant: the ten seconds are not looked at.
AttnTimeout_forever ==
  /\ TimedOut("ATTN")
  /\ waiting' = FALSE
  /\ UNCHANGED <<image, pc, tries, index, offset, c2s, s2c, board>>

AttnTimeout ==
  /\ TimedOut("ATTN")
  /\ \/ /\ tries + 1 < AttnTries
        /\ tries' = tries + 1
        /\ waiting' = FALSE
        /\ UNCHANGED <<image, pc, index, offset, c2s, s2c, board>>
     \/ Stop("no board") /\ UNCHANGED s2c

SendErase == pc = "ERASE" /\ SendWait("ERASE", index + 1)

EraseAnswered ==
  /\ pc = "ERASE" /\ Answer("ERASE")
  /\ IF index + 1 < Sectors
       THEN Proceed("ERASE") /\ index' = index + 1
       ELSE /\ Proceed(IF ChunkCount(image) = 0 THEN "RELEASE" ELSE "RESET")
            /\ index' = 0
  /\ UNCHANGED <<tries, offset>>

EraseTimeout == TimedOut("ERASE") /\ Stop("failed") /\ UNCHANGED s2c

\* Transfer: reset, the pieces, and the digest.
SendReset ==
  /\ pc = "RESET"
  /\ SendData("RESET", <<>>)
  /\ pc' = "ADD" /\ index' = 0
  /\ UNCHANGED <<image, waiting, tries, offset, s2c, board>>

SendAdd ==
  /\ pc = "ADD"
  /\ SendData("ADD", chunk[index + 1])
  /\ index' = index + 1
  /\ pc' = IF index + 1 < ChunkPieces THEN "ADD" ELSE "DIGEST"
  /\ UNCHANGED <<image, waiting, tries, offset, s2c, board>>

SendDigest == pc = "DIGEST" /\ SendWait("DIGEST", <<>>)

DigestMatches ==
  /\ pc = "DIGEST" /\ Answer("DIGEST")
  /\ Head(s2c).data = chunk
  /\ Proceed("WRITE")
  /\ UNCHANGED <<tries, index, offset>>

\* Mutant: one transfer more than the loop allows.
Retry_once_more ==
  /\ tries' = tries + 1
  /\ pc' = IF tries < Attempts THEN "RESET" ELSE "failed"
  /\ waiting' = FALSE
  /\ UNCHANGED <<image, index, offset, c2s, board>>

\* Another transfer of the chunk, unless that was the last one.
Retry ==
  /\ tries' = tries + 1
  /\ pc' = IF tries + 1 < Attempts THEN "RESET" ELSE "failed"
  /\ waiting' = FALSE
  /\ UNCHANGED <<image, index, offset, c2s, board>>

DigestDiffers ==
  /\ pc = "DIGEST" /\ Answer("DIGEST")
  /\ Head(s2c).data # chunk
  /\ s2c' = Tail(s2c)
  /\ Retry

DigestTimeout == TimedOut("DIGEST") /\ Retry /\ UNCHANGED s2c

SendWrite == pc = "WRITE" /\ SendWait("WRITE", offset)

WriteAnswered ==
  /\ pc = "WRITE" /\ Answer("WRITE")
  /\ IF Head(s2c).data = 0
       THEN /\ Proceed(IF offset + 1 < ChunkCount(image) THEN "RESET" ELSE "RELEASE")
            /\ offset' = offset + 1
            /\ tries' = 0
            /\ UNCHANGED index
       ELSE Stop("failed") /\ s2c' = Tail(s2c)

\* Mutant: a write without an answer is sent again.
WriteTimeout_resends ==
  /\ TimedOut("WRITE")
  /\ waiting' = FALSE
  /\ UNCHANGED <<image, pc, tries, index, offset, c2s, s2c, board>>

WriteTimeout == TimedOut("WRITE") /\ Stop("failed") /\ UNCHANGED s2c

SendRelease == pc = "RELEASE" /\ SendWait("RELEASE", <<>>)

Released == pc = "RELEASE" /\ Answer("RELEASE") /\ Stop("done") /\ s2c' = Tail(s2c)

\* "Error releasing": the image is written all the same.
ReleaseTimeout == TimedOut("RELEASE") /\ Stop("done") /\ UNCHANGED s2c

-----------------------------------------------------------------------------
(* The board *)

Reply(cmd, data) == s2c' \in Sent(s2c, [cmd |-> cmd, data |-> data])

\* The buffer after packet m.
Buffered(m) ==
  CASE m.cmd = "RESET" -> <<>>
    [] m.cmd = "ADD" -> Append(buffer, m.data)
    [] OTHER -> buffer

\* One round of the server's loop.
Serve ==
  /\ c2s # <<>> /\ ~booted
  /\ LET m == Head(c2s)
     IN /\ c2s' = Tail(c2s)
        /\ buffer' = Buffered(m)
        /\ booted' = (m.cmd = "RELEASE")
        /\ \/ /\ m.cmd \in {"RESET", "ADD"}
              /\ UNCHANGED <<s2c, stored, erased>>
           \/ /\ m.cmd \in {"ATTN", "RELEASE"}
              /\ Reply(m.cmd, <<>>)
              /\ UNCHANGED <<stored, erased>>
           \/ /\ m.cmd = "DIGEST"
              /\ Reply("DIGEST", buffer)
              /\ UNCHANGED <<stored, erased>>
           \/ /\ m.cmd = "WRITE"
              /\ \E err \in Errors :
                   /\ Reply("WRITE", err)
                   /\ stored' = IF err = 0 THEN Append(stored, buffer) ELSE stored
              /\ UNCHANGED erased
           \/ /\ m.cmd = "ERASE"
              /\ erased' = erased \cup {m.data}
              /\ Reply("ERASE", m.data)
              /\ UNCHANGED stored
  /\ UNCHANGED <<image, client>>

-----------------------------------------------------------------------------

Init ==
  /\ image \in Files
  /\ pc = "ATTN"
  /\ waiting = FALSE
  /\ tries = 0 /\ index = 0 /\ offset = 0
  /\ c2s = <<>> /\ s2c = <<>>
  /\ buffer = <<>> /\ stored = <<>> /\ erased = {}
  /\ booted = FALSE

Client ==
  \/ SendAttn \/ AttnAnswered \/ AttnTimeout
  \/ SendErase \/ EraseAnswered \/ EraseTimeout
  \/ SendReset \/ SendAdd
  \/ SendDigest \/ DigestMatches \/ DigestDiffers \/ DigestTimeout
  \/ SendWrite \/ WriteAnswered \/ WriteTimeout
  \/ SendRelease \/ Released \/ ReleaseTimeout
  \/ Receive

Next == Client \/ Serve

\* The client never blocks for good and the board serves what reaches it.
Spec == Init /\ [][Next]_vars /\ WF_vars(Client) /\ WF_vars(Serve)

-----------------------------------------------------------------------------
(* Properties *)

Ended == {"done", "failed", "no board", "too large"}

\* Every variable has its type; the client waits only where Send waits, and
\* transfers a chunk no more often than it may.
TypeOK ==
  /\ image \in Files
  /\ pc \in {"ATTN", "ERASE", "RESET", "ADD", "DIGEST", "WRITE", "RELEASE"} \cup Ended
  /\ waiting \in BOOLEAN
  /\ waiting => pc \notin {"RESET", "ADD"} \cup Ended
  /\ tries \in Nat /\ index \in 0 .. ChunkPieces + Sectors
  /\ pc \in {"RESET", "ADD", "DIGEST", "WRITE"} => tries < Attempts
  /\ offset \in 0 .. ChunkCount(image)
  /\ buffer \in Seq(Pieces) /\ stored \in Seq(Seq(Pieces))
  /\ booted \in BOOLEAN
  /\ erased \subseteq 1 .. Sectors

\* The board holds nothing but the first chunks of the image, the filled up
\* one included, whatever transfers were lost and repeated.
StoredIsImage ==
  /\ Len(stored) <= ChunkCount(image)
  /\ \A k \in 1 .. Len(stored) : stored[k] = DataToChunks(image)[k]

\* No write is repeated or left out: the client is at most the one write
\* behind that it waits for, and none when it lets the board go; and every
\* sector is erased before anything is written.
WritesInStep ==
  /\ Len(stored) \in {offset, offset + 1}
  /\ pc \in {"RELEASE", "done"} => Len(stored) = ChunkCount(image)
  /\ stored # <<>> => erased = 1 .. Sectors

\* The upload does what an upload tool promises.
status == IF pc = "done" THEN "ok" ELSE IF pc \in Ended THEN "failed" ELSE "busy"

Flasher == INSTANCE BiffFlasher WITH target <- DataToChunks(image)

ImplementsFlasher == Flasher!Spec

\* Every upload ends, whatever is lost.
Terminates == <>(pc \in Ended)
=============================================================================
