----------------------------- MODULE En29lv640 -----------------------------
(***************************************************************************)
(* The emulated flash chip (qemu/hw/en29lv640.c) under the commands of the *)
(* two guest drivers: biffnor.c, with byte-wide commands, and the kernel's *)
(* CFI driver, which OpenWrt uses, with word-wide ones.  One step is one   *)
(* write of the guest; between any two the guest may be reset, which the   *)
(* chip does not notice, or the emulator left and started again.           *)
(***************************************************************************)
EXTENDS Naturals, Sequences

CONSTANTS
  Addr,       \* the bytes of the array that are modelled
  Images,     \* contents of the backing file
  Sectors,    \* addresses a driver erases at
  Words,      \* <<address, value>> of the words it programs
  MaxJobs,    \* bound on the jobs of a behaviour
  MaxResets   \* bound on the resets and restarts

Byte == 0 .. 255
Word == 0 .. 65535

\* Addresses and values of the commands, in hexadecimal AAA, 555 and 554.
AAA == 2730
H555 == 1365
H554 == 1364
QueryByte == 85     \* 55
QueryWord == 170    \* AA
Unlock1 == 170      \* AA
Unlock2 == 85       \* 55
CfiLength == 160    \* sizeof(g_CFI)

ASSUME ChipAssumption ==
  /\ Addr \subseteq Nat /\ {0, 1, AAA} \subseteq Addr
  /\ Images \subseteq [Addr -> Byte]
  /\ Sectors \subseteq Nat \ {AAA}
  /\ Words \subseteq Addr \X Word
  /\ \A w \in Words : w[1] + 1 \in Addr /\ w[1] % 2 = 0
  /\ MaxJobs \in Nat /\ MaxResets \in Nat

VARIABLES
  driver,     \* the driver of the guest: "biffnor" or "mtd"
  g_state,    \* the cycle of the command sequence the chip is in
  g_backing,  \* the array
  file,       \* the backing file
  job,        \* what the driver is doing
  pc,         \* writes it has made for that
  probed,     \* the driver is ready for jobs
  jobs, resets

\* History, read by the properties only.
VARIABLES
  last,       \* the last word a driver programmed to the end
  verified    \* and whether the driver found it there

vars == <<driver, g_state, g_backing, file, job, pc, probed, jobs, resets, last, verified>>

-----------------------------------------------------------------------------
(* The chip *)

State == {"READ", "1", "2", "3", "4", "AUTOSELECT", "PROGRAM", "ERASE", "CFI"}

\* What is common to write_w1 and write_w2; the second unlock address differs.
Unlocked(s, a, v, unlock2) ==
  CASE s = "READ" /\ a = AAA /\ v = Unlock1 -> "1"
    [] s = "1" /\ a = unlock2 /\ v = Unlock2 -> "2"
    [] s = "2" /\ a = AAA /\ v = 144 -> "AUTOSELECT"
    [] s = "2" /\ a = AAA /\ v = 160 -> "PROGRAM"
    [] s = "2" /\ a = AAA /\ v = 128 -> "3"
    [] s = "3" /\ a = AAA /\ v = Unlock1 -> "4"
    [] s = "4" /\ a = unlock2 /\ v = Unlock2 -> "ERASE"
    [] OTHER -> s

write_w1(s, a, v) ==
  IF s = "READ" /\ a = QueryByte /\ v = 152 THEN "CFI" ELSE Unlocked(s, a, v, H555)

IsQueryWord(a, v) ==
  \/ a = QueryWord /\ v \in {152, 39064}
  \/ a = AAA /\ v = 152

write_w2(s, a, v) ==
  IF s = "READ" /\ IsQueryWord(a, v) THEN "CFI" ELSE Unlocked(s, a, v, H554)

\* Mutant: the chip stays where it is.
Diverged_stays(before, s) == s

\* Any write that leads nowhere ends the command.
Diverged(before, s) == IF s = before THEN "READ" ELSE s

\* 8K sectors in the first 64K, 64K ones above.
SectorOf(a) ==
  LET len == IF a < 65536 THEN 8192 ELSE 65536
      base == (a \div len) * len
  IN base .. base + len - 1

EraseSector(mem, a) == [b \in Addr |-> IF b \in SectorOf(a) THEN 255 ELSE mem[b]]

\* A program command stores its value: it can set bits, as no real chip can.
Programmed(mem, w, a, v) ==
  [b \in Addr |-> IF b = a THEN v % 256
                  ELSE IF w = 2 /\ b = a + 1 THEN v \div 256 ELSE mem[b]]

flash_write_width(w, a, v) ==
  /\ g_state' = Diverged(g_state, IF w = 1 THEN write_w1(g_state, a, v)
                                           ELSE write_w2(g_state, a, v))
  /\ g_backing' = CASE g_state = "ERASE" /\ v = 48 -> EraseSector(g_backing, a)
                    [] g_state = "PROGRAM" -> Programmed(g_backing, w, a, v)
                    [] OTHER -> g_backing

\* Whether a read in state s may return something else than the array.
Hidden(s, a) == s = "AUTOSELECT" \/ (s = "CFI" /\ a < CfiLength)

-----------------------------------------------------------------------------
(* The drivers *)

None == [kind |-> "none"]
Probe == [kind |-> "probe"]
Job == {[kind |-> "erase", addr |-> a] : a \in Sectors}
         \cup {[kind |-> "program", addr |-> w[1], val |-> w[2]] : w \in Words}

Cmd(a, v) == [addr |-> a, val |-> v]

\* Mutant: the second unlock of an erase goes to the sector.
EraseCycles_sector(a, unlock2) ==
  <<Cmd(AAA, Unlock1), Cmd(unlock2, Unlock2), Cmd(AAA, 128),
    Cmd(AAA, Unlock1), Cmd(a, Unlock2), Cmd(a, 48)>>

EraseCycles(a, unlock2) ==
  <<Cmd(AAA, Unlock1), Cmd(unlock2, Unlock2), Cmd(AAA, 128),
    Cmd(AAA, Unlock1), Cmd(unlock2, Unlock2), Cmd(a, 48)>>

ProgramCycles(a, v, unlock2) ==
  <<Cmd(AAA, Unlock1), Cmd(unlock2, Unlock2), Cmd(AAA, 160), Cmd(a, v)>>

\* Mutant: the device is left in autoselect mode.
ProbeCycles_left ==
  <<Cmd(0, 240), Cmd(QueryWord, 152), Cmd(0, 240),
    Cmd(AAA, Unlock1), Cmd(H554, Unlock2), Cmd(AAA, 144)>>

\* Reset, query, reset, autoselect and reset again.  (The second round of query
\* and reset, in which the kernel reads the extended query table, is left out:
\* it begins and ends in the state the last reset leaves.)
ProbeCycles ==
  <<Cmd(0, 240), Cmd(QueryWord, 152), Cmd(0, 240),
    Cmd(AAA, Unlock1), Cmd(H554, Unlock2), Cmd(AAA, 144), Cmd(0, 240), Cmd(0, 255)>>

\* The kernel's commands: cfi_send_gen_cmd shifts the unlock addresses.
do_erase_oneblock(a) == EraseCycles(a, H554)
do_write_oneword(a, v) == ProgramCycles(a, v, H554)

\* The writes of a job: the kernel's, or those of biffnor.
Cycles(j) ==
  CASE j.kind = "erase" ->
         IF driver = "mtd" THEN do_erase_oneblock(j.addr) ELSE EraseCycles(j.addr, H555)
    [] j.kind = "program" ->
         IF driver = "mtd" THEN do_write_oneword(j.addr, j.val)
                           ELSE ProgramCycles(j.addr, j.val, H555)
    [] OTHER -> ProbeCycles

\* biffnor writes bytes, but for the word it programs.
Width(j, k) ==
  IF driver = "mtd" \/ (j.kind = "program" /\ k = 4) THEN 2 ELSE 1

\* A driver starts on a job; the kernel's first looks for the chip.
Begin(j) ==
  /\ job = None
  /\ IF probed THEN j \in Job /\ jobs < MaxJobs ELSE j = Probe
  /\ job' = j /\ pc' = 0
  /\ jobs' = IF probed THEN jobs + 1 ELSE jobs
  /\ UNCHANGED <<driver, g_state, g_backing, file, probed, resets, last, verified>>

Lo(v) == v % 256
Hi(v) == v \div 256

\* Whether the word at a is v: of a word the chip does not show, anything is read.
Verify(s, mem, a, v) ==
  IF Hidden(s, a) THEN BOOLEAN ELSE {mem[a] = Lo(v) /\ mem[a + 1] = Hi(v)}

\* The next write.  After the last one the driver reads the status until two
\* reads agree, which they do at once, and verifies the word.
Write ==
  /\ job # None
  /\ LET c == Cycles(job)[pc + 1]
     IN flash_write_width(Width(job, pc + 1), c.addr, c.val)
  /\ IF pc + 1 < Len(Cycles(job))
       THEN /\ pc' = pc + 1
            /\ UNCHANGED <<job, probed, last, verified>>
       ELSE /\ pc' = 0 /\ job' = None /\ probed' = TRUE
            /\ \/ /\ job.kind = "program"
                  /\ last' = job
                  /\ verified' \in Verify(g_state', g_backing', job.addr, job.val)
               \/ /\ job.kind # "program"
                  /\ last' = None
                  /\ UNCHANGED verified
  /\ UNCHANGED <<driver, file, jobs, resets>>

-----------------------------------------------------------------------------
(* Resets *)

\* The guest's processor is reset; the chip is not.
GuestReset ==
  /\ resets < MaxResets
  /\ resets' = resets + 1
  /\ job' = None /\ pc' = 0 /\ last' = None
  /\ probed' = (driver = "biffnor")
  /\ UNCHANGED <<driver, g_state, g_backing, file, jobs, verified>>

\* The emulator is left, with the array saved or not, and started again.
Quit(save) ==
  /\ resets < MaxResets
  /\ resets' = resets + 1
  /\ file' = IF save THEN g_backing ELSE file
  /\ g_backing' = file'
  /\ g_state' = "READ"
  /\ job' = None /\ pc' = 0 /\ last' = None
  /\ probed' = (driver = "biffnor")
  /\ UNCHANGED <<driver, jobs, verified>>

-----------------------------------------------------------------------------

Init ==
  /\ driver \in {"biffnor", "mtd"}
  /\ file \in Images /\ g_backing = file
  /\ g_state = "READ"
  /\ job = None /\ pc = 0
  /\ probed = (driver = "biffnor")
  /\ jobs = 0 /\ resets = 0
  /\ last = None /\ verified = FALSE

Next ==
  \/ \E j \in Job \cup {Probe} : Begin(j)
  \/ Write
  \/ GuestReset
  \/ \E save \in BOOLEAN : Quit(save)

Spec == Init /\ [][Next]_vars

-----------------------------------------------------------------------------
(* Properties *)

\* The cycle the chip is in when it has followed a job from its start.
Track(j) ==
  CASE j.kind = "none" -> <<"READ">>
    [] j.kind = "erase" -> <<"READ", "1", "2", "3", "4", "ERASE">>
    [] j.kind = "program" -> <<"READ", "1", "2", "PROGRAM">>
    [] OTHER -> <<"READ", "READ", "CFI", "READ", "1", "2", "AUTOSELECT", "READ">>

deaf == g_state # Track(job)[pc + 1]

\* A program that the chip did not do is noticed: what the driver's verify
\* reads is the array, whatever a reset has done to the command state.
VerifyIsTruthful ==
  last # None =>
    (verified <=> g_backing[last.addr] = Lo(last.val) /\ g_backing[last.addr + 1] = Hi(last.val))

\* Whatever state a reset has left the chip in, and be it that it shows ids
\* in place of the array, the kernel's probe puts it right.
ProbeHeals == (driver = "mtd" /\ probed) => ~deaf

\* The array after a job.
Effect(mem, j) ==
  CASE j.kind = "erase" -> [b \in Addr |-> IF b \in SectorOf(j.addr) THEN 255 ELSE mem[b]]
    [] j.kind = "program" -> [mem EXCEPT ![j.addr] = Lo(j.val), ![j.addr + 1] = Hi(j.val)]
    [] OTHER -> mem

\* The first command of biffnor or of the kernel's probe, taken as a program.
Spoilt(mem) == {[mem EXCEPT ![AAA] = Unlock1], [mem EXCEPT ![0] = 240, ![1] = 0]}

\* The lost word reads as a query or as the start of a command.
Deafens(j) ==
  /\ j.kind = "program"
  /\ IsQueryWord(j.addr, j.val) \/ (j.addr = AAA /\ j.val = Unlock1)

Array == INSTANCE NorArray
  WITH mem <- g_backing, saved <- file, Job <- Job \cup {Probe}

\* Each job takes effect as a whole at its last write; a reset in the middle
\* of one costs one known word and the jobs until the chip listens again, which
\* is the next job alone unless that is the program of a word (Deafens) which,
\* not listened to, looks like the start of another command.
ImplementsArray == Array!Spec
=============================================================================
