---------------------------- MODULE BiffNorProofs ----------------------------
(* What holds of the flash driver for every geometry, handle set and input. *)
EXTENDS BiffNor, TLAPS

-----------------------------------------------------------------------------
(* Operators on the flash *)

\* Erased and zeroed buffers are chunks.
LEMMA ChunkTypes == ErasedChunk \in Chunk /\ ZeroChunk \in Chunk /\ Erased \in Byte
  BY DEF ErasedChunk, ZeroChunk, Chunk, Erased, Byte

\* EON_EraseSector yields a flash.
LEMMA EraseType ==
  ASSUME NEW f \in [Sector -> Chunk], NEW s
  PROVE  EON_EraseSector(f, s) \in [Sector -> Chunk]
  BY ChunkTypes DEF EON_EraseSector

\* EON_ProgramRange yields a flash.
LEMMA ProgramType ==
  ASSUME NEW f \in [Sector -> Chunk], NEW s, NEW buf, NEW n
  PROVE  EON_ProgramRange(f, s, buf, n) \in [Sector -> Chunk]
  <1> DEFINE C == [i \in 0 .. ChunkSize - 1 |->
                     IF i < n THEN f[s][i] \cap buf[i] ELSE f[s][i]]
  <1>1. CASE s \in Sector
    <2>1. ASSUME NEW i \in 0 .. ChunkSize - 1 PROVE C[i] \in Byte
      <3>1. f[s] \in Chunk BY <1>1
      <3>2. f[s][i] \in Byte BY <3>1 DEF Chunk
      <3>3. f[s][i] \cap buf[i] \in Byte BY <3>2 DEF Byte
      <3> QED BY <3>2, <3>3
    <2>2. C \in Chunk BY <2>1 DEF Chunk
    <2> QED BY <1>1, <2>2 DEF EON_ProgramRange
  <1>2. CASE s \notin Sector
    BY <1>2 DEF EON_ProgramRange
  <1> QED BY <1>1, <1>2

\* The erase before a write yields a flash.
LEMMA EraseIfDueType ==
  ASSUME NEW f \in [Sector -> Chunk], NEW s
  PROVE  EraseIfDue(f, s) \in [Sector -> Chunk]
  BY EraseType DEF EraseIfDue

\* WriteSector yields a flash.
LEMMA WriteSectorType ==
  ASSUME NEW f \in [Sector -> Chunk], NEW buf, NEW n
  PROVE  WriteSector(f, buf, n) \in [Sector -> Chunk]
  <1> DEFINE C(t) == [i \in 0 .. ChunkSize - 1 |-> f[t][i] \cap buf[t - ChunkCount][i]]
  <1>1. ASSUME NEW t \in Sector PROVE C(t) \in Chunk
    <2>1. f[t] \in Chunk OBVIOUS
    <2>2. ASSUME NEW i \in 0 .. ChunkSize - 1 PROVE C(t)[i] \in Byte
      BY <2>1 DEF Chunk, Byte
    <2> QED BY <2>2 DEF Chunk
  <1> QED BY <1>1 DEF WriteSector

\* The bytes of the whole words of a length.
LEMMA WordBytesBound ==
  ASSUME NEW len \in Nat
  PROVE  WordBytes(len) \in Nat /\ WordBytes(len) <= len
  BY DEF WordBytes

-----------------------------------------------------------------------------
(* Types *)

\* What a round copies fits in the buffer and in what remains of the call.
LEMMA RoundCopyBound ==
  ASSUME TypeOK, NEW h \in Handle
  PROVE  /\ RoundCopy(h) \in Nat
         /\ RoundCopy(h) <= rem[h]
         /\ RoundCopy(h) <= ChunkSize - wpos[h]
         /\ rem[h] > 0 => RoundCopy(h) > 0
         /\ RoundCopy(h) = rem[h] \/ RoundCopy(h) = ChunkSize - wpos[h]
  BY GeometryAssumption DEF TypeOK, RoundCopy

\* The buffer after a round's copy is a chunk.
LEMMA RoundBufferType ==
  ASSUME TypeOK, NEW h \in Handle
  PROVE  RoundBuffer(h) \in Chunk
  <1>1. wbuf[h] \in Chunk /\ udata[h] \in Byte BY DEF TypeOK
  <1> QED BY <1>1 DEF RoundBuffer, Chunk

\* The variables a flash write changes keep their types.
LEMMA FlashWriteType ==
  ASSUME TypeOK, NEW h \in Handle, NEW s, NEW buf \in Chunk, NEW len \in 0 .. ChunkSize,
         flash_write_chunk(h, s, buf, len)
  PROVE  /\ flash' \in [Sector -> Chunk]
         /\ faults' \in 0 .. MaxFaults
         /\ run' \subseteq Handle
         /\ want' \in [Handle -> [0 .. ChunkCount - 1 -> Chunk]]
         /\ wlen' \in [Handle -> [0 .. ChunkCount - 1 -> 0 .. ChunkSize]]
         /\ logged' \in [Handle -> BOOLEAN]
  <1>1. CASE s >= ChunkCount
    BY <1>1 DEF flash_write_chunk, TypeOK
  <1>2. CASE ~(s >= ChunkCount)
    <2>1. PICK ok \in BOOLEAN :
            /\ ok \/ (flashmap_isboundary(s) /\ ~flashmap_iserased(flash, s) /\ faults < MaxFaults)
            /\ faults' = faults + (IF ok THEN 0 ELSE 1)
            /\ \E n \in ProgramStops(IF ok THEN EraseIfDue(flash, s) ELSE flash, s, buf, len) :
                 /\ flash' = EON_ProgramRange(IF ok THEN EraseIfDue(flash, s) ELSE flash, s, buf, n)
                 /\ logged' = [logged EXCEPT ![h] = @ \/ n < WordBytes(len)
                                                      \/ ~EON_VerifyRange(flash', s, buf, n)]
            /\ run' = Spared(h, s)
            /\ IF h \in run
                 THEN /\ want' = [want EXCEPT ![h][chunk[h]] = buf]
                      /\ wlen' = [wlen EXCEPT ![h][chunk[h]] = len]
                 ELSE UNCHANGED <<want, wlen>>
      BY <1>2 DEF flash_write_chunk
    <2>2. flash \in [Sector -> Chunk] BY DEF TypeOK
    <2>3. flash' \in [Sector -> Chunk]
      BY <2>1, <2>2, EraseIfDueType, ProgramType
    <2>4. faults' \in 0 .. MaxFaults
      BY <2>1, InputAssumption DEF TypeOK
    <2>5. want' \in [Handle -> [0 .. ChunkCount - 1 -> Chunk]]
      <3>1. [want[h] EXCEPT ![chunk[h]] = buf] \in [0 .. ChunkCount - 1 -> Chunk]
        BY DEF TypeOK
      <3>2. CASE h \in run
        <4>1. want' = [want EXCEPT ![h] = [want[h] EXCEPT ![chunk[h]] = buf]]
          BY <2>1, <3>2
        <4> QED BY <4>1, <3>1 DEF TypeOK
      <3>3. CASE h \notin run
        BY <2>1, <3>3 DEF TypeOK
      <3> QED BY <3>2, <3>3
    <2>6. wlen' \in [Handle -> [0 .. ChunkCount - 1 -> 0 .. ChunkSize]]
      <3>1. [wlen[h] EXCEPT ![chunk[h]] = len] \in [0 .. ChunkCount - 1 -> 0 .. ChunkSize]
        BY DEF TypeOK
      <3>2. CASE h \in run
        <4>1. wlen' = [wlen EXCEPT ![h] = [wlen[h] EXCEPT ![chunk[h]] = len]]
          BY <2>1, <3>2
        <4> QED BY <4>1, <3>1 DEF TypeOK
      <3>3. CASE h \notin run
        BY <2>1, <3>3 DEF TypeOK
      <3> QED BY <3>2, <3>3
    <2>7. logged' \in [Handle -> BOOLEAN]
      BY <2>1 DEF TypeOK
    <2> QED BY <2>1, <2>3, <2>4, <2>5, <2>6, <2>7 DEF TypeOK, Spared
  <1> QED BY <1>1, <1>2

\* The variables a fresh run sets keep their types.
LEMMA StartRunType ==
  ASSUME TypeOK, NEW h \in Handle, NEW c, NEW b, StartRun(h, c, b)
  PROVE  /\ run' \subseteq Handle
         /\ want' \in [Handle -> [0 .. ChunkCount - 1 -> Chunk]]
         /\ wlen' \in [Handle -> [0 .. ChunkCount - 1 -> 0 .. ChunkSize]]
         /\ logged' \in [Handle -> BOOLEAN]
  <1>1. [k \in 0 .. ChunkCount - 1 |-> ErasedChunk] \in [0 .. ChunkCount - 1 -> Chunk]
    BY ChunkTypes
  <1>2. [k \in 0 .. ChunkCount - 1 |-> 0] \in [0 .. ChunkCount - 1 -> 0 .. ChunkSize]
    BY GeometryAssumption
  <1>3. run' \subseteq Handle BY DEF StartRun, TypeOK
  <1>4. want' \in [Handle -> [0 .. ChunkCount - 1 -> Chunk]]
    BY <1>1 DEF StartRun, TypeOK
  <1>5. wlen' \in [Handle -> [0 .. ChunkCount - 1 -> 0 .. ChunkSize]]
    BY <1>2 DEF StartRun, TypeOK
  <1>6. logged' \in [Handle -> BOOLEAN]
    BY DEF StartRun, TypeOK
  <1> QED BY <1>3, <1>4, <1>5, <1>6

\* The private data of closed handles has its type.
LEMMA FreePrivType ==
  ASSUME TypeOK, NEW hs, FreePriv(hs)
  PROVE  /\ chunk' \in [Handle -> 0 .. ChunkCount]
         /\ byte' \in [Handle -> 0 .. ChunkSize - 1]
         /\ wbuf' \in [Handle -> Chunk]
         /\ wpos' \in [Handle -> 0 .. ChunkSize - 1]
         /\ rem' \in [Handle -> Nat]
         /\ udata' \in [Handle -> Byte]
  <1>1. 0 \in 0 .. ChunkCount /\ 0 \in 0 .. ChunkSize - 1 /\ 0 \in Nat
    BY GeometryAssumption
  <1>2. chunk' \in [Handle -> 0 .. ChunkCount] BY <1>1 DEF FreePriv, TypeOK
  <1>3. byte' \in [Handle -> 0 .. ChunkSize - 1] BY <1>1 DEF FreePriv, TypeOK
  <1>4. wbuf' \in [Handle -> Chunk] BY ChunkTypes DEF FreePriv, TypeOK
  <1>5. wpos' \in [Handle -> 0 .. ChunkSize - 1] BY <1>1 DEF FreePriv, TypeOK
  <1>6. rem' \in [Handle -> Nat] BY <1>1 DEF FreePriv, TypeOK
  <1>7. udata' \in [Handle -> Byte] BY ChunkTypes DEF FreePriv, TypeOK
  <1> QED BY <1>2, <1>3, <1>4, <1>5, <1>6, <1>7

\* A closed /dev/biffboot has its type.
LEMMA FreeBootType ==
  ASSUME FreeBoot
  PROVE  bopen' \in BOOLEAN /\ bbuf' \in [0 .. Block - 1 -> Chunk] /\ bpos' \in 0 .. Block
  <1>1. bopen' \in BOOLEAN BY DEF FreeBoot
  <1>2. bbuf' \in [0 .. Block - 1 -> Chunk] BY ChunkTypes DEF FreeBoot
  <1>3. bpos' \in 0 .. Block BY GeometryAssumption DEF FreeBoot
  <1> QED BY <1>1, <1>2, <1>3

\* The boot buffer with n more parts is a buffer.
LEMMA BootBufferType ==
  ASSUME TypeOK, NEW n, NEW p \in Parts
  PROVE  BootBuffer(n, p) \in [0 .. Block - 1 -> Chunk]
  BY InputAssumption DEF BootBuffer, TypeOK

\* The position moves within the file, or into the chunk after its end.
LEMMA AdvanceType ==
  ASSUME NEW c \in 0 .. ChunkCount - 1, NEW b \in 0 .. ChunkSize - 1, NEW n \in 0 .. ChunkSize
  PROVE  AdvanceChunk(c, b, n) \in 0 .. ChunkCount /\ AdvanceByte(b, n) \in 0 .. ChunkSize - 1
  BY GeometryAssumption DEF AdvanceChunk, AdvanceByte

\* Type correctness of the driver's state: in particular write_buffer_pos
\* stays inside the buffer between rounds and the position at most one chunk
\* past the end of the file.
THEOREM TypeCorrect == Spec => []TypeOK
  <1>1. Init => TypeOK
    <2> SUFFICES ASSUME Init PROVE TypeOK
      OBVIOUS
    <2>1. flash \in [Sector -> Chunk] BY InputAssumption DEF Init
    <2>2. bimage \in [0 .. Block - 1 -> Chunk]
      BY <2>1, GeometryAssumption DEF Init, Sector, FlashSectors
    <2>3. want \in [Handle -> [0 .. ChunkCount - 1 -> Chunk]]
      BY ChunkTypes DEF Init
    <2>4. bbuf \in [0 .. Block - 1 -> Chunk]
      BY ChunkTypes DEF Init
    <2>5. wlen \in [Handle -> [0 .. ChunkCount - 1 -> 0 .. ChunkSize]]
      BY GeometryAssumption DEF Init
    <2>6. /\ chunk \in [Handle -> 0 .. ChunkCount]
          /\ byte \in [Handle -> 0 .. ChunkSize - 1]
          /\ wpos \in [Handle -> 0 .. ChunkSize - 1]
          /\ rem \in [Handle -> Nat]
          /\ bpos \in 0 .. Block
      BY GeometryAssumption DEF Init
    <2>7. calls \in 0 .. MaxCalls /\ faults \in 0 .. MaxFaults
      BY InputAssumption DEF Init
    <2>8. wbuf \in [Handle -> Chunk] /\ udata \in [Handle -> Byte]
      BY ChunkTypes DEF Init
    <2>9. /\ open \subseteq Handle /\ run \subseteq Handle
          /\ bopen \in BOOLEAN /\ bricked \in BOOLEAN
          /\ logged \in [Handle -> BOOLEAN]
      BY DEF Init
    <2> QED BY <2>1, <2>2, <2>3, <2>4, <2>5, <2>6, <2>7, <2>8, <2>9 DEF TypeOK
  <1>2. TypeOK /\ [Next]_vars => TypeOK'
    <2> SUFFICES ASSUME TypeOK, [Next]_vars PROVE TypeOK'
      OBVIOUS
    <2>1. ASSUME NEW h \in Handle, biffkernel_open(h) PROVE TypeOK'
      BY <2>1, StartRunType DEF biffkernel_open, TypeOK, priv, boot
    <2>2. ASSUME NEW h \in Handle, biffkernel_write(h) PROVE TypeOK'
      BY <2>2, InputAssumption DEF biffkernel_write, TypeOK, boot, history
    <2>3. ASSUME NEW h \in Handle, WriteEnd(h) PROVE TypeOK'
      BY <2>3 DEF WriteEnd, TypeOK, boot, history
    <2>4. ASSUME NEW h \in Handle, WriteRound(h) PROVE TypeOK'
      <3> DEFINE n == RoundCopy(h)
                 c == AdvanceChunk(chunk[h], byte[h], n)
                 b == AdvanceByte(byte[h], n)
      <3>1. /\ chunk' = [chunk EXCEPT ![h] = c]
            /\ byte' = [byte EXCEPT ![h] = b]
            /\ rem' = [rem EXCEPT ![h] = @ - n]
            /\ UNCHANGED <<open, udata, boot, calls>>
            /\ chunk[h] < ChunkCount
        BY <2>4 DEF WriteRound
      <3>2. n \in 0 .. ChunkSize /\ n <= rem[h] /\ n <= ChunkSize - wpos[h]
        <4>1. wpos[h] \in 0 .. ChunkSize - 1 BY DEF TypeOK
        <4>2. n \in Nat /\ n <= rem[h] /\ n <= ChunkSize - wpos[h] BY RoundCopyBound
        <4> QED BY <4>1, <4>2, GeometryAssumption
      <3>3. chunk[h] \in 0 .. ChunkCount - 1 /\ byte[h] \in 0 .. ChunkSize - 1
        BY <3>1, GeometryAssumption DEF TypeOK
      <3>4. c \in 0 .. ChunkCount /\ b \in 0 .. ChunkSize - 1
        BY <3>2, <3>3, AdvanceType
      <3> HIDE DEF n, c, b
      <3>5. /\ chunk' \in [Handle -> 0 .. ChunkCount]
            /\ byte' \in [Handle -> 0 .. ChunkSize - 1]
            /\ rem' \in [Handle -> Nat]
        BY <3>1, <3>2, <3>4 DEF TypeOK
      <3>6. CASE wpos[h] + n = ChunkSize
        <4>1. /\ flash_write_chunk(h, EON_ChunkToSector(BufferChunk(c, b)),
                                   RoundBuffer(h), ChunkSize)
              /\ wbuf' = [wbuf EXCEPT ![h] = ErasedChunk]
              /\ wpos' = [wpos EXCEPT ![h] = 0]
          BY <2>4, <3>6 DEF WriteRound, buffer_write, n, c, b
        <4>2. ChunkSize \in 0 .. ChunkSize /\ 0 \in 0 .. ChunkSize - 1
          BY GeometryAssumption
        <4>3. /\ flash' \in [Sector -> Chunk]
              /\ faults' \in 0 .. MaxFaults
              /\ run' \subseteq Handle
              /\ want' \in [Handle -> [0 .. ChunkCount - 1 -> Chunk]]
              /\ wlen' \in [Handle -> [0 .. ChunkCount - 1 -> 0 .. ChunkSize]]
              /\ logged' \in [Handle -> BOOLEAN]
          BY <4>1, <4>2, FlashWriteType, RoundBufferType
        <4> QED BY <3>1, <3>5, <4>1, <4>2, <4>3, ChunkTypes DEF TypeOK, boot
      <3>7. CASE wpos[h] + n # ChunkSize
        <4>1. /\ wbuf' = [wbuf EXCEPT ![h] = RoundBuffer(h)]
              /\ wpos' = [wpos EXCEPT ![h] = @ + n]
              /\ UNCHANGED <<flash, history, faults>>
          BY <2>4, <3>7 DEF WriteRound, n
        <4>2. wpos[h] + n \in 0 .. ChunkSize - 1
          <5>1. wpos[h] \in 0 .. ChunkSize - 1 BY DEF TypeOK
          <5> QED BY <5>1, <3>2, <3>7, GeometryAssumption
        <4> QED BY <3>1, <3>5, <4>1, <4>2, RoundBufferType DEF TypeOK, boot, history
      <3> QED BY <3>6, <3>7
    <2>5. ASSUME NEW h \in Handle, biffkernel_read(h) PROVE TypeOK'
      <3>1. PICK n \in 1 .. ChunkSize - byte[h] :
              /\ chunk' = [chunk EXCEPT ![h] = AdvanceChunk(@, byte[h], n)]
              /\ byte' = [byte EXCEPT ![h] = AdvanceByte(@, n)]
        BY <2>5 DEF biffkernel_read
      <3>2. chunk[h] \in 0 .. ChunkCount - 1 /\ byte[h] \in 0 .. ChunkSize - 1
            /\ n \in 0 .. ChunkSize
        BY <2>5, GeometryAssumption DEF TypeOK, biffkernel_read
      <3>3. /\ chunk' \in [Handle -> 0 .. ChunkCount]
            /\ byte' \in [Handle -> 0 .. ChunkSize - 1]
        BY <3>1, <3>2, AdvanceType DEF TypeOK
      <3> QED BY <2>5, <3>3, InputAssumption DEF biffkernel_read, TypeOK, boot
    <2>6. ASSUME NEW h \in Handle, biffkernel_seek(h) PROVE TypeOK'
      <3>1. PICK c \in 0 .. ChunkCount, b \in 0 .. ChunkSize - 1 :
              /\ chunk' = [chunk EXCEPT ![h] = c]
              /\ byte' = [byte EXCEPT ![h] = b]
              /\ StartRun(h, c, b)
        BY <2>6 DEF biffkernel_seek
      <3>2. 0 \in 0 .. ChunkSize - 1 BY GeometryAssumption
      <3>3. /\ run' \subseteq Handle
            /\ want' \in [Handle -> [0 .. ChunkCount - 1 -> Chunk]]
            /\ wlen' \in [Handle -> [0 .. ChunkCount - 1 -> 0 .. ChunkSize]]
            /\ logged' \in [Handle -> BOOLEAN]
        BY <3>1, StartRunType
      <3>4. /\ chunk' \in [Handle -> 0 .. ChunkCount]
            /\ byte' \in [Handle -> 0 .. ChunkSize - 1]
        BY <3>1 DEF TypeOK
      <3>5. wbuf' \in [Handle -> Chunk] /\ wpos' \in [Handle -> 0 .. ChunkSize - 1]
        BY <2>6, <3>2, ChunkTypes DEF biffkernel_seek, TypeOK
      <3>6. calls' \in 0 .. MaxCalls
        BY <2>6, InputAssumption DEF biffkernel_seek, TypeOK
      <3> QED BY <2>6, <3>3, <3>4, <3>5, <3>6 DEF biffkernel_seek, TypeOK, boot
    <2>7. ASSUME NEW h \in Handle, biffkernel_release(h) PROVE TypeOK'
      <3>1. FreePriv({h}) /\ open' = open \ {h} /\ UNCHANGED <<boot, calls>>
        BY <2>7 DEF biffkernel_release
      <3>2. CASE wpos[h] > 0
        <4>1. flash_write_chunk(h, EON_ChunkToSector(BufferChunk(chunk[h], byte[h])),
                                wbuf[h], wpos[h])
          BY <2>7, <3>2 DEF biffkernel_release, buffer_write
        <4>2. wbuf[h] \in Chunk /\ wpos[h] \in 0 .. ChunkSize
          BY GeometryAssumption DEF TypeOK
        <4>3. /\ flash' \in [Sector -> Chunk]
              /\ faults' \in 0 .. MaxFaults
              /\ run' \subseteq Handle
              /\ want' \in [Handle -> [0 .. ChunkCount - 1 -> Chunk]]
              /\ wlen' \in [Handle -> [0 .. ChunkCount - 1 -> 0 .. ChunkSize]]
              /\ logged' \in [Handle -> BOOLEAN]
          BY <4>1, <4>2, FlashWriteType
        <4> QED BY <3>1, <4>3, FreePrivType DEF TypeOK, boot
      <3>3. CASE ~(wpos[h] > 0)
        BY <2>7, <3>1, <3>3, FreePrivType DEF biffkernel_release, TypeOK, boot, history
      <3> QED BY <3>2, <3>3
    <2>8. ASSUME LoseMemory, flash' \in [Sector -> Chunk], run' \subseteq Handle,
                 bricked' \in BOOLEAN
          PROVE  TypeOK'
      <3>1. FreePriv(Handle) /\ FreeBoot BY <2>8 DEF LoseMemory
      <3> QED BY <2>8, <3>1, FreePrivType, FreeBootType DEF LoseMemory, TypeOK
    <2>9. ASSUME NEW h \in Handle, PowerCutWriting(h) PROVE TypeOK'
      <3> DEFINE s == EON_ChunkToSector(WriteTarget(h))
      <3>1. flash' \in [Sector -> Chunk]
        <4>1. PICK m \in 0 .. wpos[h] + RoundCopy(h) :
                flash' = EON_ProgramRange(EraseIfDue(flash, s), s, RoundBuffer(h), WordBytes(m))
          BY <2>9 DEF PowerCutWriting
        <4>2. EraseIfDue(flash, s) \in [Sector -> Chunk]
          BY EraseIfDueType DEF TypeOK
        <4> QED BY <4>1, <4>2, ProgramType
      <3> QED BY <2>8, <2>9, <3>1 DEF PowerCutWriting, Spared, TypeOK
    <2>10. CASE biffboot_open
      BY <2>10 DEF biffboot_open, TypeOK, file, priv, history
    <2>11. CASE biffboot_write
      <3>1. PICK n \in PartCounts, p \in Parts :
               \/ /\ bpos + n > Block
                  /\ UNCHANGED <<flash, bbuf, bpos, bricked, bimage, faults>>
               \/ /\ bpos + n <= Block
                  /\ bbuf' = BootBuffer(n, p)
                  /\ bpos' = bpos + n
                  /\ \/ /\ ~Accepts(n, p)
                        /\ UNCHANGED <<flash, bricked, bimage, faults>>
                     \/ /\ Accepts(n, p)
                        /\ bimage' = bbuf'
                        /\ bricked' = FALSE
                        /\ \E ok \in BOOLEAN :
                             /\ ok \/ faults < MaxFaults
                             /\ faults' = faults + (IF ok THEN 0 ELSE 1)
                             /\ flash' = WriteSector(IF ok THEN BootErased(flash) ELSE flash,
                                                     bbuf', Block)
        BY <2>11 DEF biffboot_write
      <3>2. BootErased(flash) \in [Sector -> Chunk] /\ flash \in [Sector -> Chunk]
        BY EraseType DEF BootErased, TypeOK
      <3>3. flash' \in [Sector -> Chunk]
        BY <3>1, <3>2, WriteSectorType
      <3>4. faults' \in 0 .. MaxFaults
        <4>1. faults \in 0 .. MaxFaults BY DEF TypeOK
        <4> QED BY <3>1, <4>1, InputAssumption
      <3>5. BootBuffer(n, p) \in [0 .. Block - 1 -> Chunk]
        BY BootBufferType
      <3>6. /\ bbuf \in [0 .. Block - 1 -> Chunk]
            /\ bimage \in [0 .. Block - 1 -> Chunk]
            /\ bricked \in BOOLEAN
        BY DEF TypeOK
      <3>7. /\ bbuf' \in [0 .. Block - 1 -> Chunk]
            /\ bimage' \in [0 .. Block - 1 -> Chunk]
            /\ bricked' \in BOOLEAN
        BY <3>1, <3>5, <3>6
      <3>8. bpos' \in 0 .. Block
        BY <3>1, InputAssumption, GeometryAssumption DEF TypeOK
      <3> QED BY <2>11, <3>3, <3>4, <3>7, <3>8, InputAssumption
              DEF biffboot_write, TypeOK, file, priv, history
    <2>12. CASE biffboot_release
      BY <2>12, FreeBootType DEF biffboot_release, TypeOK, file, priv, history
    <2>13. CASE PowerCutBoot
      <3>1. flash' \in [Sector -> Chunk]
        <4>1. BootErased(flash) \in [Sector -> Chunk]
          BY EraseType DEF BootErased, TypeOK
        <4>2. \E n \in PartCounts, p \in Parts, m \in 0 .. Block - 1 :
                flash' = WriteSector(BootErased(flash), BootBuffer(n, p), m)
          BY <2>13 DEF PowerCutBoot
        <4> QED BY <4>1, <4>2, WriteSectorType
      <3> QED BY <2>8, <2>13, <3>1 DEF PowerCutBoot, TypeOK
    <2>14. CASE PowerCut
      BY <2>8, <2>14 DEF PowerCut, TypeOK
    <2>15. CASE UNCHANGED vars
      BY <2>15 DEF vars, file, priv, boot, history, TypeOK
    <2> QED BY <2>1, <2>2, <2>3, <2>4, <2>5, <2>6, <2>7, <2>9, <2>10, <2>11, <2>12,
               <2>13, <2>14, <2>15 DEF Next, FileNext, BootNext
  <1> QED BY <1>1, <1>2, PTL DEF Spec

-----------------------------------------------------------------------------
(* Sectors *)

\* The first sector, the configuration block, the sector of chunk 0 and the
\* boot area start erase sectors, on every device.
LEMMA Boundaries ==
  /\ flashmap_isboundary(0)
  /\ flashmap_isboundary(ConfigSector)
  /\ flashmap_isboundary(3)
  /\ flashmap_isboundary(ChunkCount)
  BY GeometryAssumption DEF flashmap_isboundary, FlashSectors, ConfigSector

\* A sector is part of its own erase sector; the erase sector of a sector below
\* a boundary ends below that boundary.
LEMMA SpanBounds ==
  ASSUME NEW s \in Sector
  PROVE  /\ s \in EraseSpan(s)
         /\ EraseSpan(s) \subseteq Sector
         /\ \A t \in EraseSpan(s) : t >= s
         /\ \A u \in Sector : u > s /\ flashmap_isboundary(u) =>
              \A t \in EraseSpan(s) : t < u
  BY GeometryAssumption DEF EraseSpan, Sector, FlashSectors

\* Every chunk, and the position past the last one, has a sector below the
\* boot area; no two chunks of the file share one.
LEMMA ChunkSectors ==
  ASSUME NEW k \in 0 .. ChunkCount
  PROVE  /\ EON_ChunkToSector(k) \in 0 .. ChunkCount - 1
         /\ EON_ChunkToSector(k) \in Sector
         /\ k < ChunkCount => \A j \in 0 .. ChunkCount - 1 :
              EON_ChunkToSector(j) = EON_ChunkToSector(k) => j = k
         /\ EON_ChunkToSector(k) = ConfigSector => k = ChunkCount - 1
  BY GeometryAssumption DEF EON_ChunkToSector, Sector, FlashSectors, ConfigSector

\* What is erased for a chunk never holds an earlier chunk of the file.
LEMMA LaterErase ==
  ASSUME NEW k \in 0 .. ChunkCount - 1, NEW j \in 0 .. k - 1
  PROVE  EON_ChunkToSector(j) \notin EraseSpan(EON_ChunkToSector(k))
  <1> DEFINE s == EON_ChunkToSector(k)
             t == EON_ChunkToSector(j)
  <1>1. k \in 0 .. ChunkCount /\ j \in 0 .. ChunkCount
    BY GeometryAssumption
  <1>2. s \in Sector /\ t \in Sector
    BY <1>1, ChunkSectors
  <1>3. CASE k < ChunkCount - 3
    <2>1. t < s
      BY <1>3, GeometryAssumption DEF EON_ChunkToSector
    <2>2. \A u \in EraseSpan(s) : u >= s
      BY <1>2, SpanBounds
    <2> QED BY <1>2, <2>1, <2>2 DEF Sector
  <1>4. CASE k >= ChunkCount - 3 /\ j >= ChunkCount - 3
    <2>1. t < s
      BY <1>4, GeometryAssumption DEF EON_ChunkToSector
    <2>2. \A u \in EraseSpan(s) : u >= s
      BY <1>2, SpanBounds
    <2> QED BY <1>2, <2>1, <2>2 DEF Sector
  <1>5. CASE k >= ChunkCount - 3 /\ j < ChunkCount - 3
    <2>1. s < 3 /\ t >= 3 /\ 3 \in Sector
      BY <1>5, GeometryAssumption DEF EON_ChunkToSector, Sector, FlashSectors
    <2>2. \A u \in EraseSpan(s) : u < 3
      BY <1>2, <2>1, SpanBounds, Boundaries
    <2> QED BY <1>2, <2>1, <2>2 DEF Sector
  <1> QED BY <1>3, <1>4, <1>5, GeometryAssumption

\* Erasing leaves the other erase sectors alone.
LEMMA EraseFrame ==
  ASSUME NEW f \in [Sector -> Chunk], NEW s, NEW t \in Sector, t \notin EraseSpan(s)
  PROVE  EON_EraseSector(f, s)[t] = f[t]
  BY DEF EON_EraseSector

\* What rewriting a sector may change is part of its erase sector, and holds
\* the sector itself.
LEMMA TouchedSpan ==
  ASSUME NEW s \in Sector
  PROVE  Touched(s) \subseteq EraseSpan(s) /\ s \in Touched(s)
  BY SpanBounds DEF Touched

\* The erase before a write leaves what the write does not touch alone.
LEMMA DueFrame ==
  ASSUME NEW f \in [Sector -> Chunk], NEW s, NEW t \in Sector, t \notin Touched(s)
  PROVE  EraseIfDue(f, s)[t] = f[t]
  BY DEF EraseIfDue, EON_EraseSector, Touched

\* Programming leaves the other sectors alone.
LEMMA ProgramFrame ==
  ASSUME NEW f \in [Sector -> Chunk], NEW s, NEW buf, NEW n, NEW t \in Sector, t # s
  PROVE  EON_ProgramRange(f, s, buf, n)[t] = f[t]
  BY DEF EON_ProgramRange

\* A chunk write leaves everything that it does not touch alone.
LEMMA WriteFrame ==
  ASSUME TypeOK, NEW h, NEW s \in Sector, NEW buf, NEW len, NEW t \in Sector,
         t \notin Touched(s), flash_write_chunk(h, s, buf, len)
  PROVE  flash'[t] = flash[t]
  <1>1. t # s BY TouchedSpan
  <1>2. flash \in [Sector -> Chunk] BY DEF TypeOK
  <1>3. CASE flash' = flash BY <1>3
  <1>4. ASSUME NEW f, f = flash \/ f = EraseIfDue(flash, s), NEW n,
               flash' = EON_ProgramRange(f, s, buf, n)
        PROVE  flash'[t] = flash[t]
    <2>1. f \in [Sector -> Chunk] BY <1>2, <1>4, EraseIfDueType
    <2>2. f[t] = flash[t] BY <1>2, <1>4, DueFrame
    <2> QED BY <1>1, <1>4, <2>1, <2>2, ProgramFrame
  <1>5. \/ flash' = flash
        \/ \E ok \in BOOLEAN :
             \E n \in ProgramStops(IF ok THEN EraseIfDue(flash, s) ELSE flash, s, buf, len) :
               flash' = EON_ProgramRange(IF ok THEN EraseIfDue(flash, s) ELSE flash, s, buf, n)
    BY DEF flash_write_chunk
  <1> QED BY <1>3, <1>4, <1>5

-----------------------------------------------------------------------------
(* The position and the write buffer *)

\* A closed handle has an empty buffer at position 0, the state its next open
\* finds.
ClosedClean ==
  \A h \in Handle \ open : chunk[h] = 0 /\ byte[h] = 0 /\ wpos[h] = 0 /\ rem[h] = 0

PositionInv == ClosedClean /\ BufferedMeansMoved

\* The position after n > 0 bytes is not 0.
LEMMA AdvanceMoves ==
  ASSUME NEW c \in 0 .. ChunkCount, NEW b \in 0 .. ChunkSize - 1, NEW n \in 1 .. ChunkSize
  PROVE  AdvanceChunk(c, b, n) > 0 \/ AdvanceByte(b, n) > 0
  BY GeometryAssumption DEF AdvanceChunk, AdvanceByte

\* What a round does to the position and the buffer of its handle.
LEMMA RoundFacts ==
  ASSUME TypeOK, NEW h \in Handle, WriteRound(h)
  PROVE  /\ h \in open /\ rem[h] > 0 /\ chunk[h] \in 0 .. ChunkCount - 1
         /\ RoundCopy(h) \in 1 .. ChunkSize
         /\ chunk' = [chunk EXCEPT ![h] = AdvanceChunk(chunk[h], byte[h], RoundCopy(h))]
         /\ byte' = [byte EXCEPT ![h] = AdvanceByte(byte[h], RoundCopy(h))]
         /\ open' = open
         /\ \A g \in Handle : g # h => wpos'[g] = wpos[g] /\ rem'[g] = rem[g]
         /\ wpos'[h] = IF wpos[h] + RoundCopy(h) = ChunkSize THEN 0 ELSE wpos[h] + RoundCopy(h)
  <1>1. h \in open /\ rem[h] > 0 /\ chunk[h] \in 0 .. ChunkCount - 1
    BY GeometryAssumption DEF WriteRound, TypeOK
  <1>2. RoundCopy(h) \in 1 .. ChunkSize
    <2>1. /\ RoundCopy(h) \in Nat
          /\ RoundCopy(h) <= ChunkSize - wpos[h]
          /\ RoundCopy(h) > 0
      BY <1>1, RoundCopyBound
    <2>2. wpos[h] \in 0 .. ChunkSize - 1 BY DEF TypeOK
    <2> QED BY <2>1, <2>2, GeometryAssumption
  <1>3. /\ chunk' = [chunk EXCEPT ![h] = AdvanceChunk(chunk[h], byte[h], RoundCopy(h))]
        /\ byte' = [byte EXCEPT ![h] = AdvanceByte(byte[h], RoundCopy(h))]
        /\ open' = open
    BY DEF WriteRound
  <1>4. \A g \in Handle : g # h => wpos'[g] = wpos[g] /\ rem'[g] = rem[g]
    BY DEF WriteRound, TypeOK
  <1>5. wpos'[h] = IF wpos[h] + RoundCopy(h) = ChunkSize THEN 0 ELSE wpos[h] + RoundCopy(h)
    BY DEF WriteRound, TypeOK
  <1> QED BY <1>1, <1>2, <1>3, <1>4, <1>5

\* Every step preserves the invariant on positions.
LEMMA PositionStep ==
  ASSUME TypeOK, PositionInv, [Next]_vars
  PROVE  PositionInv'
  <1> USE DEF PositionInv
  <1>1. ASSUME NEW h \in Handle, biffkernel_open(h) PROVE PositionInv'
    BY <1>1 DEF biffkernel_open, priv, ClosedClean, BufferedMeansMoved, TypeOK
  <1>2. ASSUME NEW h \in Handle, biffkernel_write(h) PROVE PositionInv'
    BY <1>2 DEF biffkernel_write, ClosedClean, BufferedMeansMoved, TypeOK
  <1>3. ASSUME NEW h \in Handle, WriteEnd(h) PROVE PositionInv'
    BY <1>3 DEF WriteEnd, ClosedClean, BufferedMeansMoved, TypeOK
  <1>4. ASSUME NEW h \in Handle, WriteRound(h) PROVE PositionInv'
    <2>1. AdvanceChunk(chunk[h], byte[h], RoundCopy(h)) > 0
          \/ AdvanceByte(byte[h], RoundCopy(h)) > 0
      BY <1>4, RoundFacts, AdvanceMoves DEF TypeOK
    <2>2. chunk'[h] > 0 \/ byte'[h] > 0
      BY <1>4, <2>1, RoundFacts DEF TypeOK
    <2>3. /\ h \in open /\ open' = open
          /\ \A g \in Handle : g # h => /\ wpos'[g] = wpos[g] /\ rem'[g] = rem[g]
                                        /\ chunk'[g] = chunk[g] /\ byte'[g] = byte[g]
      BY <1>4, RoundFacts DEF TypeOK
    <2>4. open \subseteq Handle BY DEF TypeOK
    <2>5. ClosedClean' BY <2>3, <2>4 DEF ClosedClean
    <2>6. BufferedMeansMoved' BY <2>2, <2>3, <2>4 DEF BufferedMeansMoved
    <2> QED BY <2>5, <2>6
  <1>5. ASSUME NEW h \in Handle, biffkernel_read(h) PROVE PositionInv'
    <2>1. PICK n \in 1 .. ChunkSize - byte[h] :
            /\ chunk' = [chunk EXCEPT ![h] = AdvanceChunk(@, byte[h], n)]
            /\ byte' = [byte EXCEPT ![h] = AdvanceByte(@, n)]
      BY <1>5 DEF biffkernel_read
    <2>2. n \in 1 .. ChunkSize /\ chunk[h] \in 0 .. ChunkCount
          /\ byte[h] \in 0 .. ChunkSize - 1
      BY <2>1, GeometryAssumption DEF TypeOK
    <2>3. AdvanceChunk(chunk[h], byte[h], n) > 0 \/ AdvanceByte(byte[h], n) > 0
      BY <2>2, AdvanceMoves
    <2>4. chunk'[h] > 0 \/ byte'[h] > 0
      BY <2>1, <2>3 DEF TypeOK
    <2>5. /\ h \in open /\ open' = open /\ wpos' = wpos /\ rem' = rem
          /\ \A g \in Handle : g # h => chunk'[g] = chunk[g] /\ byte'[g] = byte[g]
      BY <1>5, <2>1 DEF biffkernel_read, TypeOK
    <2>6. open \subseteq Handle BY DEF TypeOK
    <2>7. ClosedClean' BY <2>5, <2>6 DEF ClosedClean
    <2>8. BufferedMeansMoved' BY <2>4, <2>5, <2>6 DEF BufferedMeansMoved
    <2> QED BY <2>7, <2>8
  <1>6. ASSUME NEW h \in Handle, biffkernel_seek(h) PROVE PositionInv'
    <2>1. /\ h \in open /\ open' = open /\ rem' = rem /\ wpos'[h] = 0
          /\ \A g \in Handle : g # h => /\ chunk'[g] = chunk[g] /\ byte'[g] = byte[g]
                                        /\ wpos'[g] = wpos[g]
      BY <1>6 DEF biffkernel_seek, TypeOK
    <2>2. open \subseteq Handle BY DEF TypeOK
    <2>3. ClosedClean' BY <2>1, <2>2 DEF ClosedClean
    <2>4. BufferedMeansMoved' BY <2>1, <2>2 DEF BufferedMeansMoved
    <2> QED BY <2>3, <2>4
  <1>7. ASSUME NEW h \in Handle, biffkernel_release(h) PROVE PositionInv'
    BY <1>7 DEF biffkernel_release, FreePriv, ClosedClean, BufferedMeansMoved, TypeOK
  <1>8. ASSUME LoseMemory PROVE PositionInv'
    BY <1>8 DEF LoseMemory, FreePriv, ClosedClean, BufferedMeansMoved
  <1>9. ASSUME NEW h \in Handle, PowerCutWriting(h) PROVE PositionInv'
    BY <1>8, <1>9 DEF PowerCutWriting
  <1>10. CASE biffboot_open \/ biffboot_write \/ biffboot_release
    BY <1>10 DEF biffboot_open, biffboot_write, biffboot_release, file, priv,
                 ClosedClean, BufferedMeansMoved
  <1>11. CASE PowerCutBoot \/ PowerCut
    BY <1>8, <1>11 DEF PowerCutBoot, PowerCut
  <1>12. CASE UNCHANGED vars
    BY <1>12 DEF vars, file, priv, ClosedClean, BufferedMeansMoved
  <1> QED BY <1>1, <1>2, <1>3, <1>4, <1>5, <1>6, <1>7, <1>9, <1>10, <1>11, <1>12
          DEF Next, FileNext, BootNext

\* Closed handles are clean and buffered bytes imply a moved position.
LEMMA PositionCorrect == Spec => []PositionInv
  <1>1. Init => PositionInv
    BY DEF Init, PositionInv, ClosedClean, BufferedMeansMoved
  <1>2. TypeOK /\ PositionInv /\ [Next]_vars => PositionInv'
    BY PositionStep
  <1> QED BY <1>1, <1>2, TypeCorrect, PTL DEF Spec

\* buffer_write never computes chunk - 1 at position 0.
THEOREM BufferMoved == Spec => []BufferedMeansMoved
  <1>1. PositionInv => BufferedMeansMoved BY DEF PositionInv
  <1> QED BY <1>1, PositionCorrect, PTL

-----------------------------------------------------------------------------
(* Where a buffer goes *)

\* A chunk write is due for h, and goes to WriteTarget(h).
Flushes(h) ==
  /\ h \in open
  /\ \/ rem[h] > 0 /\ chunk[h] < ChunkCount /\ wpos[h] + RoundCopy(h) = ChunkSize
     \/ rem[h] = 0 /\ wpos[h] > 0

\* The target of a due write is a chunk, or the position past the last one.
LEMMA TargetRange ==
  ASSUME TypeOK, PositionInv, NEW h \in Handle, Flushes(h)
  PROVE  WriteTarget(h) \in 0 .. ChunkCount
  <1>1. /\ chunk[h] \in 0 .. ChunkCount /\ byte[h] \in 0 .. ChunkSize - 1
        /\ wpos[h] \in 0 .. ChunkSize - 1 /\ rem[h] \in Nat
    BY DEF TypeOK
  <1>2. CASE rem[h] = 0
    <2>1. chunk[h] > 0 \/ byte[h] > 0
      BY <1>2, <1>1 DEF Flushes, PositionInv, BufferedMeansMoved
    <2> QED BY <1>1, <1>2, <2>1, GeometryAssumption DEF WriteTarget, BufferChunk
  <1>3. CASE rem[h] > 0
    <2>1. RoundCopy(h) \in 1 .. ChunkSize /\ chunk[h] < ChunkCount
      BY <1>1, <1>3, RoundCopyBound, GeometryAssumption DEF Flushes
    <2> HIDE DEF RoundCopy
    <2> QED BY <1>1, <1>3, <2>1, GeometryAssumption
            DEF WriteTarget, BufferChunk, AdvanceChunk, AdvanceByte
  <1> QED BY <1>1, <1>2, <1>3

\* A step of a handle either leaves the flash and what is recorded of it
\* alone, or is the write of a due buffer, whole or cut short by a power cut.
FileStep(h) ==
  \/ UNCHANGED <<flash, faults>>
  \/ /\ Flushes(h)
     /\ \E buf \in Chunk, len \in 1 .. ChunkSize :
          flash_write_chunk(h, EON_ChunkToSector(WriteTarget(h)), buf, len)
  \/ /\ Flushes(h)
     /\ faults' = faults
     /\ LET s == EON_ChunkToSector(WriteTarget(h))
        IN \E buf, n : flash' = EON_ProgramRange(EraseIfDue(flash, s), s, buf, n)

\* Every action on /dev/biffkernel is such a step.
LEMMA FileSteps ==
  ASSUME TypeOK, NEW h \in Handle, FileNext(h)
  PROVE  FileStep(h)
  <1>1. CASE biffkernel_open(h) \/ biffkernel_write(h) \/ WriteEnd(h)
             \/ biffkernel_read(h) \/ biffkernel_seek(h)
    BY <1>1 DEF FileStep, biffkernel_open, biffkernel_write, WriteEnd, biffkernel_read,
                biffkernel_seek
  <1>2. CASE WriteRound(h)
    <2>1. h \in open /\ rem[h] > 0 /\ chunk[h] < ChunkCount
      BY <1>2 DEF WriteRound
    <2>2. CASE wpos[h] + RoundCopy(h) = ChunkSize
      <3>1. WriteTarget(h) = BufferChunk(AdvanceChunk(chunk[h], byte[h], RoundCopy(h)),
                                         AdvanceByte(byte[h], RoundCopy(h)))
        BY <2>1 DEF WriteTarget
      <3>2. flash_write_chunk(h, EON_ChunkToSector(WriteTarget(h)), RoundBuffer(h), ChunkSize)
        BY <1>2, <2>2, <3>1 DEF WriteRound, buffer_write
      <3>3. ChunkSize \in 1 .. ChunkSize BY GeometryAssumption
      <3>4. Flushes(h) BY <2>1, <2>2 DEF Flushes
      <3> QED BY <3>2, <3>3, <3>4, RoundBufferType DEF FileStep
    <2>3. CASE wpos[h] + RoundCopy(h) # ChunkSize
      BY <1>2, <2>3 DEF WriteRound, FileStep
    <2> QED BY <2>2, <2>3
  <1>3. CASE biffkernel_release(h)
    <2>1. h \in open /\ rem[h] = 0
      BY <1>3 DEF biffkernel_release
    <2>2. CASE wpos[h] > 0
      <3>1. WriteTarget(h) = BufferChunk(chunk[h], byte[h])
        BY <2>1 DEF WriteTarget
      <3>2. flash_write_chunk(h, EON_ChunkToSector(WriteTarget(h)), wbuf[h], wpos[h])
        BY <1>3, <2>2, <3>1 DEF biffkernel_release, buffer_write
      <3>3. wbuf[h] \in Chunk /\ wpos[h] \in 1 .. ChunkSize
        BY <2>2, GeometryAssumption DEF TypeOK
      <3>4. Flushes(h) BY <2>1, <2>2 DEF Flushes
      <3> QED BY <3>2, <3>3, <3>4 DEF FileStep
    <2>3. CASE ~(wpos[h] > 0)
      BY <1>3, <2>3 DEF biffkernel_release, FileStep
    <2> QED BY <2>2, <2>3
  <1>4. CASE PowerCutWriting(h)
    <2>1. Flushes(h) BY <1>4 DEF PowerCutWriting, Flushes
    <2>2. faults' = faults BY <1>4 DEF PowerCutWriting, LoseMemory
    <2>3. PICK m \in 0 .. wpos[h] + RoundCopy(h) :
            flash' = EON_ProgramRange(EraseIfDue(flash, EON_ChunkToSector(WriteTarget(h))),
                                      EON_ChunkToSector(WriteTarget(h)), RoundBuffer(h),
                                      WordBytes(m))
      BY <1>4 DEF PowerCutWriting
    <2> QED BY <2>1, <2>2, <2>3 DEF FileStep
  <1> QED BY <1>1, <1>2, <1>3, <1>4 DEF FileNext

\* A step of a handle leaves everything that the write to its target does not
\* touch alone, and all of the flash if no write is due.
LEMMA FileFrame ==
  ASSUME TypeOK, PositionInv, NEW h \in Handle, FileNext(h), NEW t \in Sector,
         ~Flushes(h) \/ t \notin Touched(EON_ChunkToSector(WriteTarget(h)))
  PROVE  flash'[t] = flash[t]
  <1> DEFINE s == EON_ChunkToSector(WriteTarget(h))
  <1>1. FileStep(h) BY FileSteps
  <1>2. CASE UNCHANGED <<flash, faults>> BY <1>2
  <1>3. CASE ~UNCHANGED <<flash, faults>>
    <2>1. Flushes(h) BY <1>1, <1>3 DEF FileStep
    <2>2. s \in Sector /\ t \notin Touched(s) BY <2>1, TargetRange, ChunkSectors
    <2> HIDE DEF s
    <2>3. ASSUME NEW buf, NEW len, flash_write_chunk(h, s, buf, len)
          PROVE  flash'[t] = flash[t]
      BY <2>2, <2>3, WriteFrame
    <2>4. ASSUME NEW buf, NEW n, flash' = EON_ProgramRange(EraseIfDue(flash, s), s, buf, n)
          PROVE  flash'[t] = flash[t]
      <3>1. flash \in [Sector -> Chunk] BY DEF TypeOK
      <3>2. EraseIfDue(flash, s) \in [Sector -> Chunk] BY <3>1, EraseIfDueType
      <3>3. EraseIfDue(flash, s)[t] = flash[t] BY <2>2, <3>1, DueFrame
      <3>4. t # s BY <2>2, TouchedSpan
      <3> QED BY <2>4, <3>2, <3>3, <3>4, ProgramFrame
    <2> QED BY <1>1, <1>3, <2>3, <2>4 DEF FileStep, s
  <1> QED BY <1>2, <1>3

\* The handlers of /dev/biffboot and its power cut change the boot area only.
LEMMA BootFrame ==
  ASSUME TypeOK, BootNext, NEW t \in Sector, t < ChunkCount
  PROVE  flash'[t] = flash[t]
  <1>1. flash \in [Sector -> Chunk] BY DEF TypeOK
  <1>2. ChunkCount \in Sector BY GeometryAssumption DEF Sector, FlashSectors
  <1>3. t \notin EraseSpan(ChunkCount) BY <1>2, SpanBounds, GeometryAssumption DEF Sector
  <1>4. BootErased(flash)[t] = flash[t] BY <1>1, <1>3, EraseFrame DEF BootErased
  <1>5. t \notin BootSectors BY GeometryAssumption DEF BootSectors, Sector
  <1>6. ASSUME NEW f, NEW buf, NEW n PROVE WriteSector(f, buf, n)[t] = f[t]
    BY <1>5 DEF WriteSector
  <1>7. \/ flash' = flash
        \/ \E f, buf, n : /\ f = flash \/ f = BootErased(flash)
                          /\ flash' = WriteSector(f, buf, n)
    BY DEF BootNext, biffboot_open, biffboot_write, biffboot_release, PowerCutBoot
  <1> QED BY <1>4, <1>6, <1>7

-----------------------------------------------------------------------------
(* The configuration block *)

\* The erase sector of the configuration block is entered only by erasing it
\* for itself.
LEMMA ConfigSpan ==
  ASSUME NEW s \in Sector, ConfigSector \in EraseSpan(s)
  PROVE  s = ConfigSector
  <1>1. ConfigSector \in Sector
    BY GeometryAssumption DEF ConfigSector, Sector, FlashSectors
  <1>2. s <= ConfigSector
    BY <1>1, SpanBounds DEF Sector
  <1>3. ~(s < ConfigSector)
    BY <1>1, SpanBounds, Boundaries DEF Sector
  <1> QED BY <1>1, <1>2, <1>3 DEF Sector

\* Only a write of the last chunk of the file touches the configuration block,
\* for every device and geometry.
THEOREM ConfigSafe == Spec => ConfigOnlyByItsChunk
  <1>1. ASSUME TypeOK, PositionInv, [Next]_vars
        PROVE  [flash'[ConfigSector] # flash[ConfigSector] =>
                  \E h \in open : WriteTarget(h) = ChunkCount - 1]_vars
    <2>1. ConfigSector \in Sector /\ ConfigSector < ChunkCount
      BY GeometryAssumption DEF ConfigSector, Sector, FlashSectors
    <2>2. ASSUME NEW h \in Handle, FileNext(h),
                 flash'[ConfigSector] # flash[ConfigSector]
          PROVE  h \in open /\ WriteTarget(h) = ChunkCount - 1
      <3>1. /\ Flushes(h)
            /\ ConfigSector \in Touched(EON_ChunkToSector(WriteTarget(h)))
        BY <1>1, <2>1, <2>2, FileFrame
      <3>2. WriteTarget(h) \in 0 .. ChunkCount
        BY <1>1, <3>1, TargetRange
      <3>3. EON_ChunkToSector(WriteTarget(h)) = ConfigSector
        BY <3>1, <3>2, ChunkSectors, TouchedSpan, ConfigSpan
      <3> QED BY <3>1, <3>2, <3>3, ChunkSectors DEF Flushes
    <2>3. CASE BootNext BY <1>1, <2>1, <2>3, BootFrame
    <2>4. CASE PowerCut BY <2>4 DEF PowerCut
    <2>5. CASE UNCHANGED vars BY <2>5
    <2> QED BY <1>1, <2>2, <2>3, <2>4, <2>5 DEF Next
  <1> QED BY <1>1, TypeCorrect, PositionCorrect, PTL DEF Spec, ConfigOnlyByItsChunk

-----------------------------------------------------------------------------
(* The boot area *)

\* The chip's failures are only ever added to.
LEMMA FaultsGrow ==
  ASSUME TypeOK, [Next]_vars, faults' = 0
  PROVE  faults = 0
  <1>1. faults \in Nat BY InputAssumption DEF TypeOK
  <1>2. ASSUME NEW h \in Handle, FileNext(h) PROVE faults = 0
    <2>1. ASSUME NEW s, NEW buf, NEW len, flash_write_chunk(h, s, buf, len) PROVE faults = 0
      BY <1>1, <2>1 DEF flash_write_chunk
    <2> QED BY <1>2, <2>1, FileSteps DEF FileStep
  <1>3. CASE BootNext
    BY <1>1, <1>3 DEF BootNext, biffboot_open, biffboot_write, biffboot_release,
                      PowerCutBoot, LoseMemory
  <1>4. CASE PowerCut BY <1>4 DEF PowerCut, LoseMemory
  <1>5. CASE UNCHANGED vars BY <1>5 DEF vars
  <1> QED BY <1>2, <1>3, <1>4, <1>5 DEF Next

\* Multiplication by a positive factor is monotonic.
LEMMA TimesMonotonic ==
  ASSUME NEW p \in Int, NEW q \in Int, NEW m \in Nat, m > 0, p < q
  PROVE  p * m + m <= q * m
  <1>1. q - p - 1 >= 0 OBVIOUS
  <1>2. (q - p - 1) * m >= 0 BY <1>1
  <1>3. (q - p - 1) * m = q * m - p * m - m OBVIOUS
  <1> QED BY <1>2, <1>3

\* Division with remainder.
LEMMA Division ==
  ASSUME NEW a \in Nat, NEW m \in Nat, m > 0
  PROVE  a = m * (a \div m) + (a % m) /\ a \div m \in Int
  OBVIOUS

\* Two different multiples of m are at least m apart.
LEMMA MultiplesApart ==
  ASSUME NEW a \in Nat, NEW u \in Nat, NEW m \in Nat, m > 0,
         a % m = 0, u % m = 0, a < u, u < a + m
  PROVE  FALSE
  <1> DEFINE p == a \div m
             q == u \div m
  <1>1. a = m * p + (a % m) /\ u = m * q + (u % m) BY Division
  <1>2. p \in Int /\ q \in Int BY Division
  <1> HIDE DEF p, q
  <1>3. a = p * m /\ u = q * m BY <1>1, <1>2
  <1>4. CASE p < q
    <2>1. p * m + m <= q * m BY <1>2, <1>4, TimesMonotonic
    <2> QED BY <1>2, <1>3, <2>1
  <1>5. CASE q < p
    <2>1. q * m + m <= p * m BY <1>2, <1>5, TimesMonotonic
    <2> QED BY <1>2, <1>3, <2>1
  <1>6. CASE p = q BY <1>3, <1>6
  <1> QED BY <1>2, <1>4, <1>5, <1>6

\* An image written over the erased boot area is what the area then holds.
LEMMA ImageWritten ==
  ASSUME TypeOK, NEW buf \in [0 .. Block - 1 -> Chunk], NEW p \in 0 .. Block - 1
  PROVE  WriteSector(BootErased(flash), buf, Block)[ChunkCount + p] = buf[p]
  <1> DEFINE t == ChunkCount + p
             f == BootErased(flash)
  <1>1. t \in Sector /\ t \in BootSectors /\ t < ChunkCount + Block /\ t - ChunkCount = p
    BY GeometryAssumption DEF Sector, BootSectors, FlashSectors
  <1>2. \A u \in ChunkCount + 1 .. t : ~flashmap_isboundary(u)
    <2> SUFFICES ASSUME NEW u \in ChunkCount + 1 .. t, flashmap_isboundary(u) PROVE FALSE
      OBVIOUS
    <2>1. u % Block = 0 /\ u \in Nat /\ u > ChunkCount /\ u < ChunkCount + Block
      BY GeometryAssumption DEF flashmap_isboundary
    <2> QED BY <2>1, GeometryAssumption, MultiplesApart
  <1>3. t \in EraseSpan(ChunkCount)
    BY <1>1, <1>2, GeometryAssumption DEF EraseSpan
  <1>4. f[t] = ErasedChunk
    BY <1>1, <1>3 DEF BootErased, EON_EraseSector
  <1>5. buf[p] \in Chunk OBVIOUS
  <1>6. WriteSector(f, buf, Block)[t] =
          [i \in 0 .. ChunkSize - 1 |-> f[t][i] \cap buf[p][i]]
    BY <1>1 DEF WriteSector
  <1>7. \A i \in 0 .. ChunkSize - 1 : f[t][i] \cap buf[p][i] = buf[p][i]
    BY <1>4, <1>5 DEF ErasedChunk, Erased, Chunk, Byte
  <1> QED BY <1>5, <1>6, <1>7 DEF Chunk

\* Nothing a handle of /dev/biffkernel does reaches the boot area.
LEMMA FileKeepsBoot ==
  ASSUME TypeOK, PositionInv, NEW h \in Handle, FileNext(h), NEW t \in BootSectors
  PROVE  flash'[t] = flash[t]
  <1>1. t \in Sector /\ t >= ChunkCount /\ ChunkCount \in Sector
    BY GeometryAssumption DEF BootSectors, Sector, FlashSectors
  <1>2. CASE ~Flushes(h) BY <1>1, <1>2, FileFrame
  <1>3. CASE Flushes(h)
    <2> DEFINE s == EON_ChunkToSector(WriteTarget(h))
    <2>1. s \in 0 .. ChunkCount - 1 /\ s \in Sector
      BY <1>3, TargetRange, ChunkSectors
    <2> HIDE DEF s
    <2>2. s < ChunkCount BY <2>1, GeometryAssumption
    <2>3. \A u \in EraseSpan(s) : u < ChunkCount
      BY <1>1, <2>1, <2>2, SpanBounds, Boundaries
    <2>4. t \notin EraseSpan(s)
      BY <1>1, <2>3, GeometryAssumption DEF Sector
    <2>5. t \notin Touched(s) BY <2>1, <2>4, TouchedSpan
    <2> QED BY <1>1, <2>5, FileFrame DEF s
  <1> QED BY <1>2, <1>3

\* The boot area is the last accepted image, for every geometry: outside the
\* window of a power cut and without a chip failure nothing else reaches it.
THEOREM BootSafe == Spec => []BootIsImage
  <1>1. Init => BootIsImage
    BY DEF Init, BootIsImage
  <1>2. ASSUME TypeOK, PositionInv, BootIsImage, [Next]_vars
        PROVE  BootIsImage'
    <2> SUFFICES ASSUME faults' = 0, ~bricked', NEW p \in 0 .. Block - 1
                 PROVE  flash'[ChunkCount + p] = bimage'[p]
      BY DEF BootIsImage
    <2>1. faults = 0 BY <1>2, FaultsGrow
    <2>2. ChunkCount + p \in BootSectors
      BY GeometryAssumption DEF BootSectors, FlashSectors
    <2>3. ASSUME flash'[ChunkCount + p] = flash[ChunkCount + p], bimage' = bimage,
                 bricked' = bricked
          PROVE  flash'[ChunkCount + p] = bimage'[p]
      BY <1>2, <2>1, <2>3 DEF BootIsImage
    <2>4. ASSUME NEW h \in Handle, FileNext(h)
          PROVE  flash'[ChunkCount + p] = bimage'[p]
      <3>1. bimage' = bimage /\ bricked' = bricked
        BY <2>4 DEF FileNext, biffkernel_open, biffkernel_write, WriteEnd, WriteRound,
                    biffkernel_read, biffkernel_seek, biffkernel_release,
                    PowerCutWriting, LoseMemory, boot
      <3>2. flash'[ChunkCount + p] = flash[ChunkCount + p]
        BY <1>2, <2>2, <2>4, FileKeepsBoot
      <3> QED BY <2>3, <3>1, <3>2
    <2>5. CASE biffboot_write
      <3>1. PICK n \in PartCounts, q \in Parts :
               \/ UNCHANGED <<flash, bricked, bimage>>
               \/ /\ bimage' = BootBuffer(n, q)
                  /\ \E ok \in BOOLEAN :
                       /\ faults' = faults + (IF ok THEN 0 ELSE 1)
                       /\ flash' = WriteSector(IF ok THEN BootErased(flash) ELSE flash,
                                               BootBuffer(n, q), Block)
        BY <2>5 DEF biffboot_write
      <3>2. CASE UNCHANGED <<flash, bricked, bimage>>
        BY <2>3, <3>2
      <3>3. CASE ~UNCHANGED <<flash, bricked, bimage>>
        <4>1. BootBuffer(n, q) \in [0 .. Block - 1 -> Chunk]
          BY <1>2, BootBufferType
        <4>2. bimage' = BootBuffer(n, q)
          BY <3>1, <3>3
        <4>3. flash' = WriteSector(BootErased(flash), BootBuffer(n, q), Block)
          BY <2>1, <3>1, <3>3
        <4> QED BY <1>2, <4>1, <4>2, <4>3, ImageWritten
      <3> QED BY <3>2, <3>3
    <2>6. CASE biffboot_open \/ biffboot_release \/ PowerCut
      BY <2>3, <2>6 DEF biffboot_open, biffboot_release, PowerCut, LoseMemory
    <2>7. CASE PowerCutBoot BY <2>7 DEF PowerCutBoot
    <2>8. CASE UNCHANGED vars BY <2>3, <2>8 DEF vars, boot
    <2> QED BY <1>2, <2>4, <2>5, <2>6, <2>7, <2>8 DEF Next, BootNext
  <1> QED BY <1>1, <1>2, TypeCorrect, PositionCorrect, PTL DEF Spec

-----------------------------------------------------------------------------
(* Sequential runs *)

\* In a run the buffer starts on the chunk of the position.
Aligned(h) ==
  h \in open => byte[h] = wpos[h] /\ (chunk[h] = ChunkCount => wpos[h] = 0)

\* A run has written nothing at or after its position.
Ahead(h) ==
  h \in open => \A k \in 0 .. ChunkCount - 1 : k >= chunk[h] => wlen[h][k] = 0

ReadsBack(h) ==
  ~logged[h] =>
    \A k \in 0 .. ChunkCount - 1 :
      \A i \in 0 .. WordBytes(wlen[h][k]) - 1 :
        flash[EON_ChunkToSector(k)][i] = want[h][k][i]

\* The rest of an erase sector that a run has entered is blank.
Blank(h) ==
  /\ h \in open /\ faults = 0 /\ chunk[h] < ChunkCount
  /\ ~flashmap_isboundary(EON_ChunkToSector(chunk[h]))
  => \A t \in EraseSpan(EON_ChunkToSector(chunk[h])) : flash[t] = ErasedChunk

Clean(h) == faults = 0 => ~logged[h]

RunOf(h) == Aligned(h) /\ Ahead(h) /\ ReadsBack(h) /\ Blank(h) /\ Clean(h)

\* The inductive invariant behind RunReadsBack and RunVerifies.
RunInv == \A h \in run : RunOf(h)

\* The chunks of the file are kept below the boot area.
LEMMA SpanLow ==
  ASSUME NEW k \in 0 .. ChunkCount, NEW t \in EraseSpan(EON_ChunkToSector(k))
  PROVE  t \in Sector /\ t < ChunkCount
  <1> DEFINE s == EON_ChunkToSector(k)
  <1>1. s \in Sector /\ s \in 0 .. ChunkCount - 1 BY ChunkSectors
  <1> HIDE DEF s
  <1>2. ChunkCount \in Sector /\ ChunkCount > s
    BY <1>1, GeometryAssumption DEF Sector, FlashSectors
  <1>3. \A u \in EraseSpan(s) : u \in Sector /\ u < ChunkCount
    BY <1>1, <1>2, SpanBounds, Boundaries
  <1> QED BY <1>3 DEF s

\* What a run counts on lies below the boot area.
LEMMA HoldsLow ==
  ASSUME TypeOK, NEW g \in Handle, NEW t \in Holds(g)
  PROVE  t \in Sector /\ t < ChunkCount
  <1>1. ASSUME NEW k \in 0 .. ChunkCount - 1, t = EON_ChunkToSector(k)
        PROVE  t \in Sector /\ t < ChunkCount
    <2>1. k \in 0 .. ChunkCount BY GeometryAssumption
    <2>2. t \in Sector /\ t \in 0 .. ChunkCount - 1 BY <1>1, <2>1, ChunkSectors
    <2> QED BY <2>2, GeometryAssumption
  <1>2. ASSUME t \in EraseSpan(EON_ChunkToSector(chunk[g]))
        PROVE  t \in Sector /\ t < ChunkCount
    <2>1. chunk[g] \in 0 .. ChunkCount BY DEF TypeOK
    <2> QED BY <1>2, <2>1, SpanLow
  <1> QED BY <1>1, <1>2 DEF Holds

\* A step that leaves a handle and the sectors its run counts on alone, or
\* closes the handle, keeps its run.
LEMMA RunStable ==
  ASSUME TypeOK, NEW g \in Handle, RunOf(g),
         g \in open' => /\ g \in open /\ chunk'[g] = chunk[g]
                        /\ byte'[g] = byte[g] /\ wpos'[g] = wpos[g],
         want'[g] = want[g], wlen'[g] = wlen[g], logged'[g] = logged[g],
         \A t \in Holds(g) : flash'[t] = flash[t],
         faults' = 0 => faults = 0
  PROVE  RunOf(g)'
  <1>1. Aligned(g)' BY DEF RunOf, Aligned
  <1>2. Ahead(g)' BY DEF RunOf, Ahead
  <1>3. ReadsBack(g)'
    <2> SUFFICES ASSUME ~logged[g], NEW k \in 0 .. ChunkCount - 1,
                        NEW i \in 0 .. WordBytes(wlen[g][k]) - 1
                 PROVE  flash'[EON_ChunkToSector(k)][i] = want[g][k][i]
      BY DEF ReadsBack
    <2>1. wlen[g][k] \in 0 .. ChunkSize BY DEF TypeOK
    <2>2. wlen[g][k] > 0
      <3>1. ASSUME wlen[g][k] = 0 PROVE FALSE BY <3>1 DEF WordBytes
      <3> QED BY <2>1, <3>1, GeometryAssumption
    <2>3. EON_ChunkToSector(k) \in Holds(g) BY <2>2 DEF Holds
    <2> QED BY <2>3 DEF RunOf, ReadsBack
  <1>4. Blank(g)'
    <2> SUFFICES ASSUME g \in open', faults' = 0, chunk'[g] < ChunkCount,
                        ~flashmap_isboundary(EON_ChunkToSector(chunk'[g])),
                        NEW t \in EraseSpan(EON_ChunkToSector(chunk'[g]))
                 PROVE  flash'[t] = ErasedChunk
      BY DEF Blank
    <2>1. chunk'[g] = chunk[g] /\ chunk[g] \in 0 .. ChunkCount BY DEF TypeOK
    <2>2. flash[t] = ErasedChunk BY <2>1 DEF RunOf, Blank
    <2>3. t \in Holds(g) BY <2>1 DEF Holds
    <2> QED BY <2>2, <2>3
  <1>5. Clean(g)' BY DEF RunOf, Clean
  <1> QED BY <1>1, <1>2, <1>3, <1>4, <1>5 DEF RunOf

\* Programming blank cells stores the buffer and cannot stop early.
LEMMA BlankProgram ==
  ASSUME NEW f \in [Sector -> Chunk], NEW s \in Sector, f[s] = ErasedChunk,
         NEW buf \in Chunk, NEW len \in 0 .. ChunkSize,
         NEW n \in ProgramStops(f, s, buf, len)
  PROVE  /\ n = WordBytes(len)
         /\ EON_VerifyRange(EON_ProgramRange(f, s, buf, n), s, buf, n)
  <1>1. \A i \in 0 .. ChunkSize - 1 : buf[i] \subseteq f[s][i] /\ f[s][i] \cap buf[i] = buf[i]
    BY DEF ErasedChunk, Erased, Chunk, Byte
  <1>2. WordBytes(len) \in 0 .. ChunkSize
    BY WordBytesBound, GeometryAssumption
  <1>3. n \in 0 .. WordBytes(len) BY DEF ProgramStops
  <1>4. ASSUME n # WordBytes(len) PROVE FALSE
    <2>1. PICK i \in {n - 2, n - 1} : n >= 2 /\ ~(buf[i] \subseteq f[s][i])
      BY <1>4 DEF ProgramStops
    <2>2. i \in 0 .. ChunkSize - 1
      BY <1>2, <1>3, <2>1, GeometryAssumption
    <2> QED BY <1>1, <2>1, <2>2
  <1>5. ASSUME NEW i \in 0 .. n - 1
        PROVE  EON_ProgramRange(f, s, buf, n)[s][i] = buf[i]
    <2>1. i \in 0 .. ChunkSize - 1 /\ i < n
      BY <1>2, <1>3, GeometryAssumption
    <2>2. EON_ProgramRange(f, s, buf, n)[s] =
            [j \in 0 .. ChunkSize - 1 |-> IF j < n THEN f[s][j] \cap buf[j] ELSE f[s][j]]
      BY DEF EON_ProgramRange
    <2> QED BY <1>1, <2>1, <2>2
  <1> QED BY <1>4, <1>5 DEF EON_VerifyRange

\* Writing the chunk of a run's position: earlier chunks and the record of them
\* are kept, the chunk is stored or an error is logged, and if the chip does not
\* fail nothing is logged and the rest of the erase sector is left blank.
LEMMA FlushRun ==
  ASSUME TypeOK, NEW h \in Handle, h \in run, h \in open, RunOf(h),
         chunk[h] \in 0 .. ChunkCount - 1, NEW buf \in Chunk, NEW len \in 1 .. ChunkSize,
         flash_write_chunk(h, EON_ChunkToSector(chunk[h]), buf, len)
  PROVE  /\ ReadsBack(h)'
         /\ Clean(h)'
         /\ wlen'[h] = [wlen[h] EXCEPT ![chunk[h]] = len]
         /\ faults' = 0 => \A t \in EraseSpan(EON_ChunkToSector(chunk[h])) :
                             t # EON_ChunkToSector(chunk[h]) => flash'[t] = ErasedChunk
  <1> DEFINE k == chunk[h]
             s == EON_ChunkToSector(k)
  <1>1. k \in 0 .. ChunkCount - 1 /\ k \in 0 .. ChunkCount
    BY GeometryAssumption
  <1>2. s \in Sector /\ s \in 0 .. ChunkCount - 1 BY <1>1, ChunkSectors
  <1>3. ~(s >= ChunkCount) BY <1>2, GeometryAssumption
  <1>4. flash_write_chunk(h, s, buf, len) OBVIOUS
  <1> HIDE DEF s, k
  <1>5. PICK ok \in BOOLEAN :
          /\ faults' = faults + (IF ok THEN 0 ELSE 1)
          /\ \E n \in ProgramStops(IF ok THEN EraseIfDue(flash, s) ELSE flash, s, buf, len) :
               /\ flash' = EON_ProgramRange(IF ok THEN EraseIfDue(flash, s) ELSE flash, s, buf, n)
               /\ logged' = [logged EXCEPT ![h] = @ \/ n < WordBytes(len)
                                                    \/ ~EON_VerifyRange(flash', s, buf, n)]
          /\ want' = [want EXCEPT ![h][chunk[h]] = buf]
          /\ wlen' = [wlen EXCEPT ![h][chunk[h]] = len]
    BY <1>3, <1>4 DEF flash_write_chunk
  <1> DEFINE f == IF ok THEN EraseIfDue(flash, s) ELSE flash
  <1>6. PICK n \in ProgramStops(f, s, buf, len) :
          /\ flash' = EON_ProgramRange(f, s, buf, n)
          /\ logged' = [logged EXCEPT ![h] = @ \/ n < WordBytes(len)
                                               \/ ~EON_VerifyRange(flash', s, buf, n)]
    BY <1>5
  <1>7. f \in [Sector -> Chunk]
    <2>1. flash \in [Sector -> Chunk] BY DEF TypeOK
    <2> QED BY <2>1, EraseIfDueType
  <1> HIDE DEF f
  <1>8. want'[h] = [want[h] EXCEPT ![k] = buf] /\ wlen'[h] = [wlen[h] EXCEPT ![k] = len]
    BY <1>5 DEF TypeOK, k
  <1>9. logged'[h] = (logged[h] \/ n < WordBytes(len) \/ ~EON_VerifyRange(flash', s, buf, n))
    BY <1>6 DEF TypeOK
  <1>10. n \in 0 .. WordBytes(len) /\ WordBytes(len) \in 0 .. ChunkSize
    BY WordBytesBound, GeometryAssumption DEF ProgramStops
  <1>11. ReadsBack(h)'
    <2> SUFFICES ASSUME ~logged'[h], NEW j \in 0 .. ChunkCount - 1,
                        NEW i \in 0 .. WordBytes(wlen'[h][j]) - 1
                 PROVE  flash'[EON_ChunkToSector(j)][i] = want'[h][j][i]
      BY DEF ReadsBack
    <2>1. ~logged[h] /\ ~(n < WordBytes(len)) /\ EON_VerifyRange(flash', s, buf, n)
      BY <1>9
    <2>2. CASE j < k
      <3>1. wlen'[h][j] = wlen[h][j] /\ want'[h][j] = want[h][j]
        BY <1>8, <2>2, <1>1 DEF TypeOK
      <3>2. j \in 0 .. k - 1 /\ j \in 0 .. ChunkCount BY <2>2, <1>1, GeometryAssumption
      <3>3. EON_ChunkToSector(j) \in Sector BY <3>2, ChunkSectors
      <3>4. EON_ChunkToSector(j) \notin Touched(s)
        BY <1>1, <1>2, <3>2, LaterErase, TouchedSpan DEF s
      <3>5. flash'[EON_ChunkToSector(j)] = flash[EON_ChunkToSector(j)]
        BY <1>2, <1>4, <3>3, <3>4, WriteFrame
      <3> QED BY <2>1, <3>1, <3>5 DEF RunOf, ReadsBack
    <2>3. CASE j = k
      <3>1. wlen'[h][j] = len /\ want'[h][j] = buf
        BY <1>1, <1>8, <2>3 DEF TypeOK
      <3>2. n = WordBytes(len) BY <1>10, <2>1, GeometryAssumption
      <3>3. i \in 0 .. n - 1 BY <3>1, <3>2
      <3> QED BY <2>1, <2>3, <3>1, <3>3 DEF EON_VerifyRange, s
    <2>4. CASE j > k
      <3>1. wlen'[h][j] = wlen[h][j]
        BY <1>8, <2>4, <1>1 DEF TypeOK
      <3>2. wlen[h][j] = 0
        BY <1>1, <2>4, GeometryAssumption DEF RunOf, Ahead, k
      <3>3. i \in 0 .. WordBytes(0) - 1 BY <3>1, <3>2
      <3> QED BY <3>3 DEF WordBytes
    <2> QED BY <1>1, <2>2, <2>3, <2>4, GeometryAssumption
  <1>12. ASSUME faults' = 0
         PROVE  /\ ~logged'[h]
                /\ \A t \in EraseSpan(s) : t # s => flash'[t] = ErasedChunk
    <2>1. faults \in Nat BY InputAssumption DEF TypeOK
    <2>2. ok /\ faults = 0 BY <1>5, <1>12, <2>1
    <2>3. f = EraseIfDue(flash, s) BY <2>2 DEF f
    <2>4. \A t \in EraseSpan(s) : f[t] = ErasedChunk
      <3>1. EraseSpan(s) \subseteq Sector BY <1>2, SpanBounds
      <3>2. CASE flashmap_isboundary(s)
        BY <2>3, <3>1, <3>2 DEF EraseIfDue, EON_EraseSector, flashmap_iserased
      <3>3. CASE ~flashmap_isboundary(s)
        <4>1. f = flash BY <2>3, <3>3 DEF EraseIfDue
        <4>2. chunk[h] < ChunkCount BY <1>1, GeometryAssumption DEF k
        <4> QED BY <2>2, <3>3, <4>1, <4>2 DEF RunOf, Blank, s, k
      <3> QED BY <3>2, <3>3
    <2>5. f[s] = ErasedChunk /\ EraseSpan(s) \subseteq Sector
      BY <1>2, <2>4, SpanBounds
    <2>6. len \in 0 .. ChunkSize BY GeometryAssumption
    <2>7. n = WordBytes(len) /\ EON_VerifyRange(flash', s, buf, n)
      BY <1>2, <1>6, <1>7, <2>5, <2>6, BlankProgram
    <2>8. ~logged'[h]
      <3>1. ~(n < WordBytes(len)) BY <1>10, <2>7, GeometryAssumption
      <3>2. ~logged[h] BY <2>2 DEF RunOf, Clean
      <3> QED BY <1>9, <2>7, <3>1, <3>2
    <2>9. \A t \in EraseSpan(s) : t # s => flash'[t] = ErasedChunk
      BY <1>6, <1>7, <2>4, <2>5, ProgramFrame
    <2> QED BY <2>8, <2>9
  <1>13. Clean(h)' BY <1>12 DEF Clean
  <1> QED BY <1>5, <1>8, <1>11, <1>12, <1>13 DEF s, k

\* The sector of the next chunk: in the same erase sector, or a boundary.
LEMMA NextSector ==
  ASSUME NEW k \in 0 .. ChunkCount - 1, k + 1 < ChunkCount,
         ~flashmap_isboundary(EON_ChunkToSector(k + 1)),
         NEW t \in EraseSpan(EON_ChunkToSector(k + 1))
  PROVE  t \in EraseSpan(EON_ChunkToSector(k)) /\ t # EON_ChunkToSector(k)
  <1> DEFINE s == EON_ChunkToSector(k)
             r == EON_ChunkToSector(k + 1)
  <1>1. k \in 0 .. ChunkCount /\ k + 1 \in 0 .. ChunkCount BY GeometryAssumption
  <1>2. s \in Sector /\ r \in Sector BY <1>1, ChunkSectors
  <1>3. r # 0 BY Boundaries
  <1>4. r = s + 1
    BY <1>3, GeometryAssumption DEF EON_ChunkToSector
  <1>5. ~flashmap_isboundary(r) /\ t \in EraseSpan(r) OBVIOUS
  <1> HIDE DEF s, r
  <1>6. t \in Sector /\ t >= r BY <1>2, <1>5, SpanBounds
  <1>7. \A u \in s + 1 .. t : ~flashmap_isboundary(u)
    <2>1. \A u \in r + 1 .. t : ~flashmap_isboundary(u) BY <1>5 DEF EraseSpan
    <2> QED BY <1>2, <1>4, <1>5, <1>6, <2>1 DEF Sector
  <1>8. t \in EraseSpan(s) /\ t # s
    BY <1>2, <1>4, <1>6, <1>7 DEF EraseSpan, Sector
  <1> QED BY <1>8 DEF s

\* A due write of a run goes to the chunk of its position.
LEMMA RunTarget ==
  ASSUME TypeOK, NEW h \in Handle, Aligned(h), Flushes(h)
  PROVE  WriteTarget(h) = chunk[h] /\ chunk[h] \in 0 .. ChunkCount - 1
  <1>1. /\ h \in open
        /\ chunk[h] \in 0 .. ChunkCount /\ byte[h] \in 0 .. ChunkSize - 1
        /\ wpos[h] \in 0 .. ChunkSize - 1 /\ rem[h] \in Nat
    BY DEF TypeOK, Flushes
  <1>2. byte[h] = wpos[h] /\ (chunk[h] = ChunkCount => wpos[h] = 0)
    BY <1>1 DEF Aligned
  <1>3. CASE rem[h] = 0
    <2>1. wpos[h] > 0 BY <1>1, <1>3 DEF Flushes
    <2> QED BY <1>1, <1>2, <1>3, <2>1, GeometryAssumption DEF WriteTarget, BufferChunk
  <1>4. CASE rem[h] > 0
    <2>1. RoundCopy(h) \in Nat /\ wpos[h] + RoundCopy(h) = ChunkSize /\ chunk[h] < ChunkCount
      BY <1>1, <1>4, RoundCopyBound DEF Flushes
    <2>2. byte[h] + RoundCopy(h) = ChunkSize BY <1>2, <2>1
    <2>3. AdvanceChunk(chunk[h], byte[h], RoundCopy(h)) = chunk[h] + 1
      BY <2>2, GeometryAssumption DEF AdvanceChunk
    <2>4. AdvanceByte(byte[h], RoundCopy(h)) = 0
      BY <1>1, <2>1, <2>2, GeometryAssumption DEF AdvanceByte
    <2>5. WriteTarget(h) = BufferChunk(chunk[h] + 1, 0)
      BY <1>4, <2>3, <2>4 DEF WriteTarget
    <2>6. BufferChunk(chunk[h] + 1, 0) = chunk[h] BY <1>1 DEF BufferChunk
    <2> QED BY <1>1, <2>1, <2>5, <2>6, GeometryAssumption
  <1> QED BY <1>1, <1>3, <1>4

\* A run starts with nothing written, on a boundary.
LEMMA FreshRun ==
  ASSUME TypeOK, NEW h \in Handle, NEW c \in 0 .. ChunkCount, NEW b, StartRun(h, c, b),
         h \in run', chunk'[h] = c, byte'[h] = b, wpos'[h] = 0
  PROVE  RunOf(h)'
  <1>1. b = 0 /\ c < ChunkCount /\ flashmap_isboundary(EON_ChunkToSector(c))
    BY DEF StartRun
  <1>2. wlen'[h] = [k \in 0 .. ChunkCount - 1 |-> 0] /\ logged'[h] = FALSE
    BY DEF StartRun, TypeOK
  <1>3. Aligned(h)' BY <1>1, GeometryAssumption DEF Aligned
  <1>4. Ahead(h)' BY <1>2 DEF Ahead
  <1>5. ReadsBack(h)'
    <2>1. \A k \in 0 .. ChunkCount - 1 : 0 .. WordBytes(wlen'[h][k]) - 1 = {}
      BY <1>2 DEF WordBytes
    <2> QED BY <2>1 DEF ReadsBack
  <1>6. Blank(h)' BY <1>1 DEF Blank
  <1>7. Clean(h)' BY <1>2 DEF Clean
  <1> QED BY <1>3, <1>4, <1>5, <1>6, <1>7 DEF RunOf

\* A step of one handle keeps the runs of the others that it does not end.
LEMMA OtherRuns ==
  ASSUME TypeOK, PositionInv, RunInv, NEW h \in Handle, FileNext(h),
         NEW g \in Handle, g \in run', g # h
  PROVE  RunOf(g)'
  <1>1. ASSUME NEW c, NEW b, StartRun(h, c, b)
        PROVE  /\ g \in run /\ want'[g] = want[g] /\ wlen'[g] = wlen[g]
               /\ logged'[g] = logged[g]
    BY <1>1 DEF StartRun, TypeOK
  <1>2. CASE Flushes(h) /\ (WriteRound(h) \/ biffkernel_release(h) \/ PowerCutWriting(h))
    <2> DEFINE s == EON_ChunkToSector(WriteTarget(h))
               Spares ==
                 /\ run' = Spared(h, s)
                 /\ want'[g] = want[g] /\ wlen'[g] = wlen[g] /\ logged'[g] = logged[g]
                 /\ g \in open' => /\ g \in open /\ chunk'[g] = chunk[g]
                                   /\ byte'[g] = byte[g] /\ wpos'[g] = wpos[g]
    <2>1. s \in 0 .. ChunkCount - 1 /\ ~(s >= ChunkCount)
      BY <1>2, TargetRange, ChunkSectors, GeometryAssumption
    <2>2. ASSUME NEW buf, NEW len, flash_write_chunk(h, s, buf, len)
          PROVE  /\ run' = Spared(h, s) /\ want'[g] = want[g] /\ wlen'[g] = wlen[g]
                 /\ logged'[g] = logged[g]
      BY <2>1, <2>2 DEF flash_write_chunk, TypeOK
    <2> HIDE DEF s
    <2>3. ASSUME WriteRound(h) PROVE Spares
      <3>1. rem[h] > 0 /\ wpos[h] + RoundCopy(h) = ChunkSize
        BY <1>2, <2>3 DEF WriteRound, Flushes, TypeOK
      <3>2. flash_write_chunk(h, s, RoundBuffer(h), ChunkSize)
        <4>1. rem[h] # 0 BY <3>1 DEF TypeOK
        <4> QED BY <2>3, <3>1, <4>1 DEF WriteRound, buffer_write, WriteTarget, s
      <3>3. /\ open' = open /\ chunk'[g] = chunk[g] /\ byte'[g] = byte[g]
            /\ wpos'[g] = wpos[g]
        BY <2>3, RoundFacts DEF TypeOK
      <3> QED BY <2>2, <3>2, <3>3
    <2>4. ASSUME biffkernel_release(h) PROVE Spares
      <3>1. rem[h] = 0 /\ wpos[h] > 0
        BY <1>2, <2>4 DEF biffkernel_release, Flushes, TypeOK
      <3>2. flash_write_chunk(h, s, wbuf[h], wpos[h])
        BY <2>4, <3>1 DEF biffkernel_release, buffer_write, WriteTarget, s
      <3>3. /\ g \in open' => g \in open
            /\ chunk'[g] = chunk[g] /\ byte'[g] = byte[g] /\ wpos'[g] = wpos[g]
        BY <2>4 DEF biffkernel_release, FreePriv
      <3> QED BY <2>2, <3>2, <3>3
    <2>5. ASSUME PowerCutWriting(h) PROVE Spares
      BY <2>5 DEF PowerCutWriting, LoseMemory, s
    <2>6. Spares
      BY <1>2, <2>3, <2>4, <2>5
    <2>7. g \in run /\ Holds(g) \cap Touched(s) = {} BY <2>6 DEF Spared
    <2>8. \A t \in Holds(g) : flash'[t] = flash[t]
      BY <2>7, HoldsLow, FileFrame DEF s
    <2>9. faults' = 0 => faults = 0 BY FaultsGrow DEF Next
    <2> QED BY <2>6, <2>7, <2>8, <2>9, RunStable DEF RunInv
  <1>3. CASE ~(Flushes(h) /\ (WriteRound(h) \/ biffkernel_release(h) \/ PowerCutWriting(h)))
    <2> DEFINE Quiet ==
          /\ g \in run /\ (g \in open' => g \in open)
          /\ chunk'[g] = chunk[g] /\ byte'[g] = byte[g] /\ wpos'[g] = wpos[g]
          /\ want'[g] = want[g] /\ wlen'[g] = wlen[g] /\ logged'[g] = logged[g]
          /\ flash' = flash /\ faults' = faults
    <2>1. CASE biffkernel_open(h)
      <3>1. StartRun(h, 0, 0) BY <2>1 DEF biffkernel_open
      <3>2. Quiet BY <1>1, <2>1, <3>1 DEF biffkernel_open, priv
      <3> QED BY <3>2, RunStable DEF RunInv
    <2>2. CASE biffkernel_write(h) \/ WriteEnd(h) \/ biffkernel_read(h)
      <3>1. Quiet
        BY <2>2 DEF biffkernel_write, WriteEnd, biffkernel_read, history, TypeOK
      <3> QED BY <3>1, RunStable DEF RunInv
    <2>3. CASE biffkernel_seek(h)
      <3>1. PICK c, b : /\ chunk' = [chunk EXCEPT ![h] = c]
                        /\ byte' = [byte EXCEPT ![h] = b]
                        /\ StartRun(h, c, b)
        BY <2>3 DEF biffkernel_seek
      <3>2. g \in run /\ want'[g] = want[g] /\ wlen'[g] = wlen[g] /\ logged'[g] = logged[g]
        BY <1>1, <3>1
      <3>3. Quiet BY <2>3, <3>1, <3>2 DEF biffkernel_seek, TypeOK
      <3> QED BY <3>3, RunStable DEF RunInv
    <2>4. CASE WriteRound(h)
      <3>1. wpos[h] + RoundCopy(h) # ChunkSize
        BY <1>3, <2>4 DEF WriteRound, Flushes
      <3>2. Quiet BY <2>4, <3>1 DEF WriteRound, history, TypeOK
      <3> QED BY <3>2, RunStable DEF RunInv
    <2>5. CASE biffkernel_release(h)
      <3>1. ~(wpos[h] > 0)
        BY <1>3, <2>5 DEF biffkernel_release, Flushes
      <3>2. Quiet BY <2>5, <3>1 DEF biffkernel_release, FreePriv, history, TypeOK
      <3> QED BY <3>2, RunStable DEF RunInv
    <2>6. CASE PowerCutWriting(h)
      BY <1>3, <2>6 DEF PowerCutWriting, Flushes
    <2> QED BY <2>1, <2>2, <2>3, <2>4, <2>5, <2>6 DEF FileNext
  <1> QED BY <1>2, <1>3

\* A round of a write keeps the run of its handle: it moves on within the
\* chunk, or writes it and enters the next one.
LEMMA RoundKeepsRun ==
  ASSUME TypeOK, NEW h \in Handle, RunOf(h), WriteRound(h), h \in run'
  PROVE  RunOf(h)'
  <1> DEFINE k == chunk[h]
             n == RoundCopy(h)
  <1>1. /\ h \in open /\ open' = open /\ rem[h] > 0 /\ k \in 0 .. ChunkCount - 1
        /\ n \in 1 .. ChunkSize
        /\ chunk'[h] = AdvanceChunk(k, byte[h], n)
        /\ byte'[h] = AdvanceByte(byte[h], n)
        /\ wpos'[h] = IF wpos[h] + n = ChunkSize THEN 0 ELSE wpos[h] + n
    BY RoundFacts DEF TypeOK
  <1>2. byte[h] = wpos[h] /\ wpos[h] \in 0 .. ChunkSize - 1 /\ n <= ChunkSize - wpos[h]
    BY <1>1, RoundCopyBound DEF RunOf, Aligned, TypeOK
  <1>3. CASE wpos[h] + n # ChunkSize
    <2>1. flash' = flash /\ faults' = faults /\ UNCHANGED history
      BY <1>3 DEF WriteRound
    <2> HIDE DEF n
    <2>2. chunk'[h] = chunk[h] /\ byte'[h] = wpos'[h] /\ chunk[h] # ChunkCount
      BY <1>1, <1>2, <1>3, GeometryAssumption DEF AdvanceChunk, AdvanceByte
    <2>3. Aligned(h)' BY <2>2 DEF Aligned
    <2>4. Ahead(h)' BY <1>1, <2>1, <2>2 DEF RunOf, Ahead, history
    <2>5. ReadsBack(h)' BY <2>1 DEF RunOf, ReadsBack, history
    <2>6. Blank(h)' BY <1>1, <2>1, <2>2 DEF RunOf, Blank
    <2>7. Clean(h)' BY <2>1 DEF RunOf, Clean, history
    <2> QED BY <2>3, <2>4, <2>5, <2>6, <2>7 DEF RunOf
  <1>4. CASE wpos[h] + n = ChunkSize
    <2>1. Flushes(h) BY <1>1, <1>4, GeometryAssumption DEF Flushes
    <2>2. WriteTarget(h) = k BY <2>1, RunTarget DEF RunOf
    <2>3. flash_write_chunk(h, EON_ChunkToSector(k), RoundBuffer(h), ChunkSize)
      <3>1. rem[h] # 0 BY <1>1 DEF TypeOK
      <3>2. flash_write_chunk(h, EON_ChunkToSector(WriteTarget(h)), RoundBuffer(h), ChunkSize)
        BY <1>4, <3>1 DEF WriteRound, buffer_write, WriteTarget
      <3> QED BY <2>2, <3>2
    <2>4. h \in run
      <3>1. EON_ChunkToSector(k) \in 0 .. ChunkCount - 1
        BY <1>1, ChunkSectors, GeometryAssumption
      <3>2. ~(EON_ChunkToSector(k) >= ChunkCount) BY <3>1, GeometryAssumption
      <3> QED BY <2>3, <3>2 DEF flash_write_chunk, Spared
    <2>5. ChunkSize \in 1 .. ChunkSize /\ RoundBuffer(h) \in Chunk
      BY RoundBufferType, GeometryAssumption
    <2>6. /\ ReadsBack(h)' /\ Clean(h)'
          /\ wlen'[h] = [wlen[h] EXCEPT ![k] = ChunkSize]
          /\ faults' = 0 => \A t \in EraseSpan(EON_ChunkToSector(k)) :
                              t # EON_ChunkToSector(k) => flash'[t] = ErasedChunk
      BY <1>1, <2>3, <2>4, <2>5, FlushRun
    <2> HIDE DEF n
    <2>7. chunk'[h] = k + 1 /\ byte'[h] = 0 /\ wpos'[h] = 0
      BY <1>1, <1>2, <1>4, GeometryAssumption DEF AdvanceChunk, AdvanceByte
    <2> HIDE DEF k
    <2>8. Aligned(h)' BY <2>7 DEF Aligned
    <2>9. Ahead(h)'
      <3> SUFFICES ASSUME NEW j \in 0 .. ChunkCount - 1, j >= k + 1
                   PROVE  wlen'[h][j] = 0
        BY <2>7 DEF Ahead
      <3>1. j # k /\ j >= k BY <1>1, GeometryAssumption
      <3>2. wlen[h][j] = 0 BY <1>1, <3>1 DEF RunOf, Ahead, k
      <3> QED BY <2>6, <3>1, <3>2 DEF TypeOK
    <2>10. Blank(h)'
      <3> SUFFICES ASSUME faults' = 0, k + 1 < ChunkCount,
                          ~flashmap_isboundary(EON_ChunkToSector(k + 1)),
                          NEW t \in EraseSpan(EON_ChunkToSector(k + 1))
                   PROVE  flash'[t] = ErasedChunk
        BY <2>7 DEF Blank
      <3>1. t \in EraseSpan(EON_ChunkToSector(k)) /\ t # EON_ChunkToSector(k)
        BY <1>1, NextSector
      <3> QED BY <2>6, <3>1
    <2> QED BY <2>6, <2>8, <2>9, <2>10 DEF RunOf
  <1> QED BY <1>3, <1>4

\* Closing the file, and a power cut inside its flash write, keep what the run
\* has written.
LEMMA EndKeepsRun ==
  ASSUME TypeOK, PositionInv, NEW h \in Handle, h \in run, RunOf(h),
         biffkernel_release(h) \/ PowerCutWriting(h)
  PROVE  RunOf(h)'
  <1>1. h \in open /\ h \notin open'
    BY DEF biffkernel_release, PowerCutWriting, LoseMemory
  <1>2. Aligned(h)' /\ Ahead(h)' /\ Blank(h)'
    BY <1>1 DEF Aligned, Ahead, Blank
  <1>3. CASE biffkernel_release(h) /\ wpos[h] > 0
    <2>1. Flushes(h) /\ rem[h] = 0 BY <1>1, <1>3 DEF Flushes, biffkernel_release
    <2>2. WriteTarget(h) = chunk[h] /\ chunk[h] \in 0 .. ChunkCount - 1
      BY <2>1, RunTarget DEF RunOf
    <2>3. flash_write_chunk(h, EON_ChunkToSector(chunk[h]), wbuf[h], wpos[h])
      <3>1. flash_write_chunk(h, EON_ChunkToSector(WriteTarget(h)), wbuf[h], wpos[h])
        BY <1>3, <2>1 DEF biffkernel_release, buffer_write, WriteTarget
      <3> QED BY <2>2, <3>1
    <2>4. wbuf[h] \in Chunk /\ wpos[h] \in 1 .. ChunkSize
      BY <1>3, GeometryAssumption DEF TypeOK
    <2>5. ReadsBack(h)' /\ Clean(h)' BY <1>1, <2>2, <2>3, <2>4, FlushRun
    <2> QED BY <1>2, <2>5 DEF RunOf
  <1>4. CASE biffkernel_release(h) /\ ~(wpos[h] > 0)
    <2>1. flash' = flash /\ faults' = faults /\ UNCHANGED history
      BY <1>4 DEF biffkernel_release
    <2>2. ReadsBack(h)' /\ Clean(h)'
      BY <2>1 DEF RunOf, ReadsBack, Clean, history
    <2> QED BY <1>2, <2>2 DEF RunOf
  <1>5. CASE PowerCutWriting(h)
    <2>1. Flushes(h) BY <1>5 DEF PowerCutWriting, Flushes
    <2>2. WriteTarget(h) = chunk[h] /\ chunk[h] \in 0 .. ChunkCount - 1
      BY <2>1, RunTarget DEF RunOf
    <2>3. UNCHANGED <<want, wlen, logged, faults>>
      BY <1>5 DEF PowerCutWriting, LoseMemory
    <2>4. Clean(h)' BY <2>3 DEF RunOf, Clean
    <2>5. ReadsBack(h)'
      <3> SUFFICES ASSUME ~logged[h], NEW j \in 0 .. ChunkCount - 1,
                          NEW i \in 0 .. WordBytes(wlen[h][j]) - 1
                   PROVE  flash'[EON_ChunkToSector(j)][i] = want[h][j][i]
        BY <2>3 DEF ReadsBack
      <3>1. CASE j < chunk[h]
        <4>1. j \in 0 .. chunk[h] - 1 /\ j \in 0 .. ChunkCount
          BY <2>2, <3>1, GeometryAssumption
        <4>2. EON_ChunkToSector(j) \in Sector BY <4>1, ChunkSectors
        <4>3. EON_ChunkToSector(j) \notin Touched(EON_ChunkToSector(WriteTarget(h)))
          <5>1. chunk[h] \in 0 .. ChunkCount BY <2>2, GeometryAssumption
          <5>2. EON_ChunkToSector(chunk[h]) \in Sector BY <5>1, ChunkSectors
          <5> QED BY <2>2, <4>1, <5>2, LaterErase, TouchedSpan
        <4>4. flash'[EON_ChunkToSector(j)] = flash[EON_ChunkToSector(j)]
          BY <1>5, <4>2, <4>3, FileFrame DEF FileNext
        <4> QED BY <4>4 DEF RunOf, ReadsBack
      <3>2. CASE ~(j < chunk[h])
        <4>1. wlen[h][j] = 0
          BY <1>1, <2>2, <3>2, GeometryAssumption DEF RunOf, Ahead
        <4> QED BY <4>1 DEF WordBytes
      <3> QED BY <3>1, <3>2
    <2> QED BY <1>2, <2>4, <2>5 DEF RunOf
  <1> QED BY <1>3, <1>4, <1>5

\* Every step preserves the invariant on runs.
LEMMA RunStep ==
  ASSUME TypeOK, TypeOK', PositionInv, RunInv, [Next]_vars
  PROVE  RunInv'
  <1> SUFFICES ASSUME NEW g \in Handle, g \in run'
               PROVE  RunOf(g)'
    BY DEF RunInv, TypeOK
  <1>1. ASSUME NEW h \in Handle, FileNext(h) PROVE RunOf(g)'
    <2>1. CASE g # h BY <1>1, <2>1, OtherRuns
    <2>2. CASE g = h
      <3>1. CASE biffkernel_open(h)
        <4>1. chunk'[h] = 0 /\ byte'[h] = 0 /\ wpos'[h] = 0 /\ StartRun(h, 0, 0)
          BY <3>1 DEF biffkernel_open, priv, PositionInv, ClosedClean
        <4>2. 0 \in 0 .. ChunkCount BY GeometryAssumption
        <4> QED BY <2>2, <4>1, <4>2, FreshRun
      <3>2. CASE biffkernel_write(h) \/ WriteEnd(h)
        <4>1. /\ UNCHANGED <<flash, open, chunk, byte, wpos, faults>>
              /\ UNCHANGED history
          BY <3>2 DEF biffkernel_write, WriteEnd
        <4>2. RunOf(g) BY <4>1 DEF RunInv, history
        <4> QED BY <4>1, <4>2, RunStable DEF history
      <3>3. CASE WriteRound(h)
        <4>1. g \in run
          <5>1. CASE UNCHANGED history BY <5>1 DEF history
          <5>2. ASSUME NEW s, NEW buf, NEW len, flash_write_chunk(h, s, buf, len)
                PROVE  g \in run
            BY <5>2 DEF flash_write_chunk, Spared
          <5> QED BY <3>3, <5>1, <5>2 DEF WriteRound, buffer_write
        <4> QED BY <2>2, <3>3, <4>1, RoundKeepsRun DEF RunInv
      <3>4. CASE biffkernel_read(h) BY <2>2, <3>4 DEF biffkernel_read
      <3>5. CASE biffkernel_seek(h)
        <4>1. PICK c \in 0 .. ChunkCount, b \in 0 .. ChunkSize - 1 :
                /\ chunk' = [chunk EXCEPT ![h] = c]
                /\ byte' = [byte EXCEPT ![h] = b]
                /\ StartRun(h, c, b)
          BY <3>5 DEF biffkernel_seek
        <4>2. chunk'[h] = c /\ byte'[h] = b /\ wpos'[h] = 0
          BY <3>5, <4>1 DEF biffkernel_seek, TypeOK
        <4> QED BY <2>2, <4>1, <4>2, FreshRun
      <3>6. CASE biffkernel_release(h) \/ PowerCutWriting(h)
        <4>1. g \in run
          <5>1. CASE UNCHANGED history BY <5>1 DEF history
          <5>2. ASSUME NEW s, NEW buf, NEW len, flash_write_chunk(h, s, buf, len)
                PROVE  g \in run
            BY <5>2 DEF flash_write_chunk, Spared
          <5>3. CASE PowerCutWriting(h) BY <5>3 DEF PowerCutWriting, Spared
          <5> QED BY <3>6, <5>1, <5>2, <5>3 DEF biffkernel_release, buffer_write
        <4> QED BY <2>2, <3>6, <4>1, EndKeepsRun DEF RunInv
      <3> QED BY <1>1, <3>1, <3>2, <3>3, <3>4, <3>5, <3>6 DEF FileNext
    <2> QED BY <2>1, <2>2
  <1>2. CASE BootNext
    <2>1. /\ run' = run /\ UNCHANGED <<want, wlen, logged>>
          /\ g \in open' => g \in open /\ UNCHANGED <<chunk, byte, wpos>>
      BY <1>2 DEF BootNext, biffboot_open, biffboot_write, biffboot_release, PowerCutBoot,
                  LoseMemory, file, priv, history
    <2>2. \A t \in Holds(g) : flash'[t] = flash[t]
      BY <1>2, BootFrame, HoldsLow
    <2>3. faults' = 0 => faults = 0 BY FaultsGrow
    <2> QED BY <2>1, <2>2, <2>3, RunStable DEF RunInv
  <1>3. CASE PowerCut
    <2>1. /\ run' = run /\ UNCHANGED <<flash, want, wlen, logged, faults>> /\ open' = {}
      BY <1>3 DEF PowerCut, LoseMemory
    <2> QED BY <2>1, RunStable DEF RunInv
  <1>4. CASE UNCHANGED vars
    BY <1>4, RunStable DEF RunInv, vars, file, priv, history
  <1> QED BY <1>1, <1>2, <1>3, <1>4 DEF Next

\* The invariant on runs holds in every state.
LEMMA RunCorrect == Spec => []RunInv
  <1>1. Init => RunInv BY DEF Init, RunInv
  <1> QED BY <1>1, RunStep, TypeCorrect, PositionCorrect, PTL DEF Spec

\* What a sequential run of writes has stored reads back unless the driver
\* logged an error, for every geometry, any failures of the chip and power cuts,
\* and whatever any number of other files write outside the sectors it counts on.
THEOREM RunSafe == Spec => []RunReadsBack
  <1>1. RunInv => RunReadsBack BY DEF RunInv, RunOf, ReadsBack, RunReadsBack
  <1> QED BY <1>1, RunCorrect, PTL

\* And nothing is logged as long as the chip erases what it is told to.
THEOREM RunClean == Spec => []RunVerifies
  <1>1. RunInv => RunVerifies BY DEF RunInv, RunOf, Clean, RunVerifies
  <1> QED BY <1>1, RunCorrect, PTL
=============================================================================
