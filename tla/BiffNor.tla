------------------------------- MODULE BiffNor -------------------------------
(***************************************************************************)
(* The Linux driver for the Bifferboard's NOR flash (drivers/biffnor.c):   *)
(* /dev/biffkernel, a seekable file over everything below the boot sector, *)
(* and /dev/biffboot, a write-once buffer that replaces the boot sector.   *)
(*                                                                         *)
(* Units.  The flash is an array of 8K sectors, the FLASHMAP_CHUNK_SIZE of *)
(* the driver; a sector is an array of ChunkSize bytes and a byte is the   *)
(* set of its one bits, so that programming is intersection.  A file       *)
(* position is kept as filepos / CHUNK_SIZE (chunk) and                    *)
(* filepos % CHUNK_SIZE (byte).                                            *)
(*                                                                         *)
(* Steps.  The kernels are built without SMP and with PREEMPT_NONE, so a   *)
(* handler can only be interrupted where it may sleep: in copy_from_user.  *)
(* One action is one round of biffkernel_write's loop, the flash write it  *)
(* ends in included; rounds of different files interleave.                 *)
(***************************************************************************)
EXTENDS Integers, FiniteSets

CONSTANTS
  Handle,        \* files open on /dev/biffkernel
  Bits,          \* the bits of a byte
  ChunkSize,     \* bytes in a chunk, FLASHMAP_CHUNK_SIZE
  Block,         \* chunks in 64K: the size of a high sector and of the boot area
  ChunkCount,    \* chunks below the boot area, FLASHMAP_CHUNK_COUNT
  DeviceSize,    \* FLASHMAP_DEVICE_SIZE in megabytes
  Data,          \* byte values user space writes
  Counts,        \* byte counts of a write call
  Parts,         \* 8K parts of the boot images user space writes
  PartCounts,    \* how many of them in one write call
  SaneTail,      \* a last part that passes sanity_check
  InitialFlash,  \* contents of the flash when the system starts
  MaxCalls,      \* bound on the write, read and seek calls of a behaviour
  MaxFaults      \* bound on the erases that fail in a behaviour

Byte == SUBSET Bits
Erased == Bits

Chunk == [0 .. ChunkSize - 1 -> Byte]
ErasedChunk == [i \in 0 .. ChunkSize - 1 |-> Erased]
ZeroChunk == [i \in 0 .. ChunkSize - 1 |-> {}]

FlashSectors == ChunkCount + Block
Sector == 0 .. FlashSectors - 1
BootSectors == ChunkCount .. FlashSectors - 1

ASSUME GeometryAssumption ==
  /\ ChunkSize \in Nat /\ ChunkSize >= 2 /\ ChunkSize % 2 = 0
  /\ Block \in Nat /\ Block >= 4
  /\ ChunkCount \in Nat /\ ChunkCount >= Block /\ ChunkCount % Block = 0
  /\ DeviceSize \in {1, 4, 8}

ASSUME InputAssumption ==
  /\ Data \subseteq Byte
  /\ Counts \subseteq Nat \ {0}
  /\ Parts \subseteq Chunk
  /\ SaneTail \in Chunk
  /\ PartCounts \subseteq Nat \ {0}
  /\ InitialFlash \subseteq [Sector -> Chunk]
  /\ \A f \in InitialFlash : f[FlashSectors - 1] = SaneTail
  /\ MaxCalls \in Nat /\ MaxFaults \in Nat

VARIABLES
  flash,      \* the NOR cells
  open,       \* handles that are open
  chunk,      \* filepos / CHUNK_SIZE of a handle
  byte,       \* filepos % CHUNK_SIZE of a handle
  wbuf,       \* write_buffer
  wpos,       \* write_buffer_pos
  rem,        \* remaining bytes of the write call in progress, 0 between calls
  udata,      \* the data of that call
  bopen,      \* /dev/biffboot is open
  bbuf,       \* its write_buffer, in 8K parts
  bpos,       \* its write_buffer_pos, in 8K parts
  calls       \* calls made so far

\* History, read by the properties only.
VARIABLES
  run,        \* handles whose flash writes form one sequential run that no
              \* other handle has written over
  want,       \* what the run of a handle wrote at the positions of each chunk
  wlen,       \* and how many bytes of it, 0 for none
  logged,     \* handles for which the driver logged a write or verify error
  faults,     \* erases the chip has failed to do
  bricked,    \* power was cut while the boot sector was being replaced
  bimage      \* the boot image last accepted, or found at the start

priv == <<chunk, byte, wbuf, wpos, rem, udata>>
file == <<open, priv>>
boot == <<bopen, bbuf, bpos, bricked, bimage>>
history == <<run, want, wlen, logged>>
vars == <<flash, file, boot, calls, history, faults>>

-----------------------------------------------------------------------------
(* Flash map *)

\* Mutant: the boundary of the configuration block is forgotten.
isboundary_noconfig(s) ==
  /\ s < FlashSectors
  /\ \/ s = 0
     \/ s >= Block /\ s % Block = 0
     \/ s < Block /\ s # 2 /\ (DeviceSize = 1 => s \in {3, 4})

\* Sector s starts an erase sector of the chip.
flashmap_isboundary(s) ==
  /\ s < FlashSectors
  /\ \/ s = 0
     \/ s >= Block /\ s % Block = 0
     \/ s < Block /\ (DeviceSize = 1 => s \in {2, 3, 4})

\* The erase sector that starts at boundary s: up to the next boundary.
EraseSpan(s) ==
  {t \in Sector : t >= s /\ \A u \in s + 1 .. t : ~flashmap_isboundary(u)}

flashmap_iserased(f, s) ==
  flashmap_isboundary(s) /\ \A t \in EraseSpan(s) : f[t] = ErasedChunk

\* The sector a chunk of the file is kept in: the first three sectors, the
\* configuration block's among them, hold the last three chunks.
EON_ChunkToSector(k) ==
  IF k \in 0 .. ChunkCount - 4 THEN k + 3 ELSE k - (ChunkCount - 3)

ConfigSector == 2

-----------------------------------------------------------------------------
(* Chip operations *)

EON_EraseSector(f, s) ==
  [t \in Sector |-> IF t \in EraseSpan(s) THEN ErasedChunk ELSE f[t]]

\* Programming n bytes of sector s, one 16-bit word after the other, can
\* only clear bits.
EON_ProgramRange(f, s, buf, n) ==
  [f EXCEPT ![s] = [i \in 0 .. ChunkSize - 1 |->
                      IF i < n THEN f[s][i] \cap buf[i] ELSE f[s][i]]]

EON_VerifyRange(f, s, buf, n) == \A i \in 0 .. n - 1 : f[s][i] = buf[i]

\* Bytes in the whole words of a length: ProgramRange is given len / 2 words.
WordBytes(len) == 2 * (len \div 2)

\* The words after which programming may stop: all of them, or one whose
\* cells lack a bit it sets, which the chip may report as an error.
ProgramStops(f, s, buf, len) ==
  {n \in 0 .. WordBytes(len) :
     \/ n = WordBytes(len)
     \/ /\ n >= 2 /\ n % 2 = 0
        /\ \E i \in {n - 2, n - 1} : ~(buf[i] \subseteq f[s][i])}

\* Mutant: the small sectors are not erased.
EraseIfDue_high(f, s) ==
  IF s >= Block /\ flashmap_isboundary(s) /\ ~flashmap_iserased(f, s)
    THEN EON_EraseSector(f, s) ELSE f

\* The flash after the erase that starts a sector's rewriting, if it is due.
EraseIfDue(f, s) ==
  IF flashmap_isboundary(s) /\ ~flashmap_iserased(f, s)
    THEN EON_EraseSector(f, s) ELSE f

\* The sectors that rewriting sector s may change.
Touched(s) == IF flashmap_isboundary(s) THEN EraseSpan(s) ELSE {s}

-----------------------------------------------------------------------------
(* /dev/biffkernel *)

\* The position n bytes after (c, b), for n at most ChunkSize.
AdvanceChunk(c, b, n) == IF b + n < ChunkSize THEN c ELSE c + 1
AdvanceByte(b, n) == IF b + n < ChunkSize THEN b + n ELSE b + n - ChunkSize

\* Mutant: the position is taken to be inside the chunk in every case.
BufferChunk_inside(c, b) == c

\* The chunk buffer_write takes the buffer to belong to.
BufferChunk(c, b) == IF b = 0 THEN c - 1 ELSE c

\* The sectors the run of h counts on: those it has written, and the rest of
\* the erase sector it is in the middle of, blank since the run entered it.
Holds(h) ==
  {EON_ChunkToSector(k) : k \in {j \in 0 .. ChunkCount - 1 : wlen[h][j] > 0}}
    \cup IF /\ h \in open /\ chunk[h] < ChunkCount
            /\ ~flashmap_isboundary(EON_ChunkToSector(chunk[h]))
           THEN EraseSpan(EON_ChunkToSector(chunk[h])) ELSE {}

\* The runs that a write of h to sector s does not disturb: its own, and those
\* of files that count on none of the sectors it may change.
Spared(h, s) == {g \in run : g = h \/ Holds(g) \cap Touched(s) = {}}

\* flash_write_chunk of len bytes to sector s on behalf of h.  Its result is
\* dropped by buffer_write: an error is seen only in the kernel log.
flash_write_chunk(h, s, buf, len) ==
  IF s >= ChunkCount
    THEN /\ logged' = [logged EXCEPT ![h] = TRUE]
         /\ UNCHANGED <<flash, faults, run, want, wlen>>
    ELSE \E ok \in BOOLEAN :
      LET due == flashmap_isboundary(s) /\ ~flashmap_iserased(flash, s)
          f == IF ok THEN EraseIfDue(flash, s) ELSE flash
      IN /\ ok \/ (due /\ faults < MaxFaults)
         /\ faults' = faults + (IF ok THEN 0 ELSE 1)
         /\ \E n \in ProgramStops(f, s, buf, len) :
              /\ flash' = EON_ProgramRange(f, s, buf, n)
              /\ logged' = [logged EXCEPT ![h] = @
                              \/ n < WordBytes(len)
                              \/ ~EON_VerifyRange(flash', s, buf, n)]
         /\ run' = Spared(h, s)
         /\ IF h \in run
              THEN /\ want' = [want EXCEPT ![h][chunk[h]] = buf]
                   /\ wlen' = [wlen EXCEPT ![h][chunk[h]] = len]
              ELSE UNCHANGED <<want, wlen>>

\* buffer_write of len bytes with the file position at (c, b).
buffer_write(h, buf, len, c, b) ==
  flash_write_chunk(h, EON_ChunkToSector(BufferChunk(c, b)), buf, len)

\* A fresh run begins where writing starts on a sector boundary.
StartRun(h, c, b) ==
  /\ run' = IF b = 0 /\ c < ChunkCount
               /\ flashmap_isboundary(EON_ChunkToSector(c))
              THEN run \cup {h} ELSE run \ {h}
  /\ want' = [want EXCEPT ![h] = [k \in 0 .. ChunkCount - 1 |-> ErasedChunk]]
  /\ wlen' = [wlen EXCEPT ![h] = [k \in 0 .. ChunkCount - 1 |-> 0]]
  /\ logged' = [logged EXCEPT ![h] = FALSE]

\* The private data of a closed handle, as kzalloc and write_buffer_reset
\* leave it for the next open.
FreePriv(hs) ==
  /\ chunk' = [h \in Handle |-> IF h \in hs THEN 0 ELSE chunk[h]]
  /\ byte' = [h \in Handle |-> IF h \in hs THEN 0 ELSE byte[h]]
  /\ wbuf' = [h \in Handle |-> IF h \in hs THEN ErasedChunk ELSE wbuf[h]]
  /\ wpos' = [h \in Handle |-> IF h \in hs THEN 0 ELSE wpos[h]]
  /\ rem' = [h \in Handle |-> IF h \in hs THEN 0 ELSE rem[h]]
  /\ udata' = [h \in Handle |-> IF h \in hs THEN Erased ELSE udata[h]]

biffkernel_open(h) ==
  /\ h \notin open
  /\ open' = open \cup {h}
  /\ StartRun(h, 0, 0)
  /\ UNCHANGED <<flash, priv, boot, calls, faults>>

\* User space calls write(); the rounds of its loop are WriteRound.
biffkernel_write(h) ==
  /\ h \in open /\ rem[h] = 0 /\ calls < MaxCalls
  /\ \E n \in Counts, d \in Data : /\ rem' = [rem EXCEPT ![h] = n]
                                   /\ udata' = [udata EXCEPT ![h] = d]
  /\ calls' = calls + 1
  /\ UNCHANGED <<flash, open, chunk, byte, wbuf, wpos, boot, history, faults>>

\* -ENOSPC, or a short count if the call already wrote something.
WriteEnd(h) ==
  /\ h \in open /\ rem[h] > 0 /\ chunk[h] >= ChunkCount
  /\ rem' = [rem EXCEPT ![h] = 0]
  /\ UNCHANGED <<flash, open, chunk, byte, wbuf, wpos, udata, boot, calls,
                 history, faults>>

\* Mutant: the space left in the buffer is not looked at.
RoundCopy_all(h) == rem[h]

RoundCopy(h) == IF rem[h] < ChunkSize - wpos[h] THEN rem[h] ELSE ChunkSize - wpos[h]

RoundBuffer(h) ==
  [i \in 0 .. ChunkSize - 1 |->
     IF i >= wpos[h] /\ i < wpos[h] + RoundCopy(h) THEN udata[h] ELSE wbuf[h][i]]

\* One round of the loop of biffkernel_write.
WriteRound(h) ==
  /\ h \in open /\ rem[h] > 0 /\ chunk[h] < ChunkCount
  /\ LET n == RoundCopy(h)
         c == AdvanceChunk(chunk[h], byte[h], n)
         b == AdvanceByte(byte[h], n)
     IN /\ chunk' = [chunk EXCEPT ![h] = c]
        /\ byte' = [byte EXCEPT ![h] = b]
        /\ rem' = [rem EXCEPT ![h] = @ - n]
        /\ IF wpos[h] + n = ChunkSize
             THEN /\ buffer_write(h, RoundBuffer(h), ChunkSize, c, b)
                  /\ wbuf' = [wbuf EXCEPT ![h] = ErasedChunk]
                  /\ wpos' = [wpos EXCEPT ![h] = 0]
             ELSE /\ wbuf' = [wbuf EXCEPT ![h] = RoundBuffer(h)]
                  /\ wpos' = [wpos EXCEPT ![h] = @ + n]
                  /\ UNCHANGED <<flash, history, faults>>
  /\ UNCHANGED <<open, udata, boot, calls>>

\* One round of the loop of biffkernel_read: the data goes to user space, the
\* position that writing uses moves on.
biffkernel_read(h) ==
  /\ h \in open /\ rem[h] = 0 /\ calls < MaxCalls
  /\ chunk[h] < ChunkCount
  /\ \E n \in 1 .. ChunkSize - byte[h] :
       /\ chunk' = [chunk EXCEPT ![h] = AdvanceChunk(@, byte[h], n)]
       /\ byte' = [byte EXCEPT ![h] = AdvanceByte(@, n)]
  /\ run' = run \ {h}
  /\ calls' = calls + 1
  /\ UNCHANGED <<flash, open, wbuf, wpos, rem, udata, boot, want, wlen, logged,
                 faults>>

\* Mutant: a write in progress is kept over the seek.
seek_keeps(h) ==
  /\ h \in open /\ rem[h] = 0 /\ calls < MaxCalls
  /\ \E c \in 0 .. ChunkCount, b \in 0 .. ChunkSize - 1 :
       /\ c = ChunkCount => b = 0
       /\ chunk' = [chunk EXCEPT ![h] = c]
       /\ byte' = [byte EXCEPT ![h] = b]
       /\ StartRun(h, c, b)
  /\ calls' = calls + 1
  /\ UNCHANGED <<flash, open, wbuf, wpos, rem, udata, boot, faults>>

\* Offsets past the end are clamped; a write in progress is abandoned.
biffkernel_seek(h) ==
  /\ h \in open /\ rem[h] = 0 /\ calls < MaxCalls
  /\ \E c \in 0 .. ChunkCount, b \in 0 .. ChunkSize - 1 :
       /\ c = ChunkCount => b = 0
       /\ chunk' = [chunk EXCEPT ![h] = c]
       /\ byte' = [byte EXCEPT ![h] = b]
       /\ StartRun(h, c, b)
  /\ wbuf' = [wbuf EXCEPT ![h] = ErasedChunk]
  /\ wpos' = [wpos EXCEPT ![h] = 0]
  /\ calls' = calls + 1
  /\ UNCHANGED <<flash, open, rem, udata, boot, faults>>

biffkernel_release(h) ==
  /\ h \in open /\ rem[h] = 0
  /\ open' = open \ {h}
  /\ IF wpos[h] > 0
       THEN buffer_write(h, wbuf[h], wpos[h], chunk[h], byte[h])
       ELSE UNCHANGED <<flash, history, faults>>
  /\ FreePriv({h})
  /\ UNCHANGED <<boot, calls>>

-----------------------------------------------------------------------------
(* /dev/biffboot *)

\* Closed, with the zeroed buffer the next kzalloc gives.
FreeBoot ==
  /\ bopen' = FALSE
  /\ bbuf' = [p \in 0 .. Block - 1 |-> ZeroChunk]
  /\ bpos' = 0

biffboot_open ==
  /\ ~bopen
  /\ bopen' = TRUE
  /\ UNCHANGED <<flash, file, bbuf, bpos, calls, history, faults, bricked, bimage>>

\* Only the end of the image is looked at.
sanity_check(buf) == buf[Block - 1] = SaneTail

\* Mutant: the erase is left out.
BootErased_not(f) == f

BootErased(f) == EON_EraseSector(f, ChunkCount)

\* The boot area after the erase, and the first n parts of the image.
WriteSector(f, buf, n) ==
  [t \in Sector |->
     IF t \in BootSectors /\ t < ChunkCount + n
       THEN [i \in 0 .. ChunkSize - 1 |-> f[t][i] \cap buf[t - ChunkCount][i]]
       ELSE f[t]]

\* The buffer after n parts p have been added to it.
BootBuffer(n, p) ==
  [q \in 0 .. Block - 1 |-> IF q >= bpos /\ q < bpos + n THEN p ELSE bbuf[q]]

\* The write that adds n parts p fills the buffer with an acceptable image.
Accepts(n, p) == bpos + n = Block /\ sanity_check(BootBuffer(n, p))

\* A write that overruns the buffer is refused; the write that fills it
\* replaces the boot sector if the image looks sane.
biffboot_write ==
  /\ bopen /\ calls < MaxCalls
  /\ calls' = calls + 1
  /\ \E n \in PartCounts, p \in Parts :
       \/ /\ bpos + n > Block
          /\ UNCHANGED <<flash, bbuf, bpos, bricked, bimage, faults>>
       \/ /\ bpos + n <= Block
          /\ bbuf' = BootBuffer(n, p)
          /\ bpos' = bpos + n
          /\ \/ /\ ~Accepts(n, p)
                /\ UNCHANGED <<flash, bricked, bimage, faults>>
             \/ /\ Accepts(n, p)
                /\ bimage' = bbuf'
                /\ bricked' = FALSE
                /\ \E ok \in BOOLEAN :
                     /\ ok \/ faults < MaxFaults
                     /\ faults' = faults + (IF ok THEN 0 ELSE 1)
                     /\ flash' = WriteSector(IF ok THEN BootErased(flash) ELSE flash,
                                             bbuf', Block)
  /\ UNCHANGED <<file, bopen, history>>

biffboot_release ==
  /\ bopen
  /\ FreeBoot
  /\ UNCHANGED <<flash, file, calls, history, faults, bricked, bimage>>

-----------------------------------------------------------------------------
(* Power cuts: the flash keeps what has reached it, everything else is lost *)

LoseMemory ==
  /\ open' = {}
  /\ FreePriv(Handle)
  /\ FreeBoot
  /\ UNCHANGED <<bimage, calls, want, wlen, logged, faults>>

PowerCut ==
  /\ open # {} \/ bopen
  /\ LoseMemory
  /\ UNCHANGED <<flash, run, bricked>>

\* The chunk that the next buffer_write of h goes to.
WriteTarget(h) ==
  IF rem[h] = 0
    THEN BufferChunk(chunk[h], byte[h])
    ELSE BufferChunk(AdvanceChunk(chunk[h], byte[h], RoundCopy(h)),
                     AdvanceByte(byte[h], RoundCopy(h)))

\* Power is cut inside a buffer_write, after its erase and with some of the
\* words programmed: the round that fills the buffer, or the release.
PowerCutWriting(h) ==
  /\ h \in open
  /\ \/ rem[h] > 0 /\ chunk[h] < ChunkCount /\ wpos[h] + RoundCopy(h) = ChunkSize
     \/ rem[h] = 0 /\ wpos[h] > 0
  /\ LET s == EON_ChunkToSector(WriteTarget(h))
     IN \E m \in 0 .. wpos[h] + RoundCopy(h) :
          /\ flash' = EON_ProgramRange(EraseIfDue(flash, s), s, RoundBuffer(h), WordBytes(m))
          /\ run' = Spared(h, s)
  /\ LoseMemory
  /\ UNCHANGED bricked

\* Power is cut inside biffboot_write, after its erase.
PowerCutBoot ==
  /\ bopen /\ calls < MaxCalls
  /\ \E n \in PartCounts, p \in Parts :
       /\ Accepts(n, p)
       /\ \E m \in 0 .. Block - 1 :
            flash' = WriteSector(BootErased(flash), BootBuffer(n, p), m)
  /\ bricked' = TRUE
  /\ LoseMemory
  /\ UNCHANGED run

-----------------------------------------------------------------------------

Init ==
  /\ flash \in InitialFlash
  /\ open = {}
  /\ chunk = [h \in Handle |-> 0]
  /\ byte = [h \in Handle |-> 0]
  /\ wbuf = [h \in Handle |-> ErasedChunk]
  /\ wpos = [h \in Handle |-> 0]
  /\ rem = [h \in Handle |-> 0]
  /\ udata = [h \in Handle |-> Erased]
  /\ bopen = FALSE
  /\ bbuf = [p \in 0 .. Block - 1 |-> ZeroChunk]
  /\ bpos = 0
  /\ calls = 0
  /\ run = {}
  /\ want = [h \in Handle |-> [k \in 0 .. ChunkCount - 1 |-> ErasedChunk]]
  /\ wlen = [h \in Handle |-> [k \in 0 .. ChunkCount - 1 |-> 0]]
  /\ logged = [h \in Handle |-> FALSE]
  /\ faults = 0
  /\ bricked = FALSE
  /\ bimage = [p \in 0 .. Block - 1 |-> flash[ChunkCount + p]]

FileNext(h) ==
  \/ biffkernel_open(h)
  \/ biffkernel_write(h)
  \/ WriteEnd(h)
  \/ WriteRound(h)
  \/ biffkernel_read(h)
  \/ biffkernel_seek(h)
  \/ biffkernel_release(h)
  \/ PowerCutWriting(h)

BootNext == biffboot_open \/ biffboot_write \/ biffboot_release \/ PowerCutBoot

Next == (\E h \in Handle : FileNext(h)) \/ BootNext \/ PowerCut

Spec == Init /\ [][Next]_vars

-----------------------------------------------------------------------------
(* Properties *)

\* Every variable has its type; a position is at most one chunk past the end
\* and the write buffer is never left full.
TypeOK ==
  /\ flash \in [Sector -> Chunk]
  /\ open \subseteq Handle
  /\ chunk \in [Handle -> 0 .. ChunkCount]
  /\ byte \in [Handle -> 0 .. ChunkSize - 1]
  /\ wbuf \in [Handle -> Chunk]
  /\ wpos \in [Handle -> 0 .. ChunkSize - 1]
  /\ rem \in [Handle -> Nat]
  /\ udata \in [Handle -> Byte]
  /\ bopen \in BOOLEAN
  /\ bbuf \in [0 .. Block - 1 -> Chunk]
  /\ bpos \in 0 .. Block
  /\ calls \in 0 .. MaxCalls
  /\ run \subseteq Handle
  /\ want \in [Handle -> [0 .. ChunkCount - 1 -> Chunk]]
  /\ wlen \in [Handle -> [0 .. ChunkCount - 1 -> 0 .. ChunkSize]]
  /\ logged \in [Handle -> BOOLEAN]
  /\ faults \in 0 .. MaxFaults
  /\ bricked \in BOOLEAN
  /\ bimage \in [0 .. Block - 1 -> Chunk]

\* buffer_write's "chunk -= 1" is never applied at position 0: whatever reads
\* and seeks come in between, buffered bytes imply that the position has moved.
BufferedMeansMoved ==
  \A h \in open : wpos[h] > 0 => chunk[h] > 0 \/ byte[h] > 0

\* A chunk written in a run of writes that began on a sector boundary holds
\* what was written, unless the driver logged an error: later erases of the
\* run, wrapping to the first sectors included, writes of other files to other
\* erase sectors, interleaved with the run or after it, and power cuts in the
\* middle of any of them do not destroy it.  (The last byte of a tail of odd
\* length is not written at all: the run is promised whole words.)
RunReadsBack ==
  \A h \in run : ~logged[h] =>
    \A k \in 0 .. ChunkCount - 1 :
      \A i \in 0 .. WordBytes(wlen[h][k]) - 1 :
        flash[EON_ChunkToSector(k)][i] = want[h][k][i]

\* Such a run logs no error as long as the chip erases what it is told to:
\* every word is programmed into erased cells, whatever other files erase and
\* program elsewhere meanwhile.
RunVerifies == faults = 0 => \A h \in run : ~logged[h]

\* The boot area is the image biffboot_write last accepted: no write, seek or
\* power cut on /dev/biffkernel reaches it, nor does a refused image.
BootIsImage ==
  faults = 0 /\ ~bricked =>
    \A p \in 0 .. Block - 1 : flash[ChunkCount + p] = bimage[p]

\* The configuration block changes only in a write of the file's last chunk,
\* never as the neighbour of an erased sector.
ConfigOnlyByItsChunk ==
  [][flash'[ConfigSector] # flash[ConfigSector] =>
       \E h \in open : WriteTarget(h) = ChunkCount - 1]_vars
=============================================================================
