-------------------------- MODULE En29lv640Proofs --------------------------
(* What holds of the emulated flash chip under both drivers for every        *)
(* content of the array, all sectors and words a driver may ask for, and any *)
(* number of jobs, resets and restarts.                                      *)
EXTENDS En29lv640, TLAPS

-----------------------------------------------------------------------------
(* The invariant *)

\* A function on the modelled bytes.
OnAddr(m) == m = [a \in Addr |-> m[a]]

\* The cycle of the chip when it follows the driver.
Expected == Track(job)[pc + 1]

\* The cycles of a chip that does not follow a job of the driver.
Strayed ==
  CASE pc = 1 -> {"READ", "4"}
    [] pc = 2 -> {"READ", "ERASE"}
    [] pc = 3 -> {"READ"}
    [] pc = 4 -> {"1"}
    [] pc = 5 -> {"2"}
    [] OTHER -> State

Typed ==
  /\ driver \in {"biffnor", "mtd"} /\ g_state \in State
  /\ OnAddr(g_backing) /\ OnAddr(file)
  /\ job \in Job \cup {Probe, None}
  /\ pc \in 0 .. Len(Track(job)) - 1
  /\ probed \in BOOLEAN /\ resets \in Nat
  /\ last = None \/ (last \in Job /\ last.kind = "program")
  /\ verified \in BOOLEAN

\* biffnor does not probe, and the kernel's driver probes before all else.
Ready ==
  /\ driver = "biffnor" => probed
  /\ job \in Job => probed
  /\ job = Probe => ~probed
  /\ ~probed => last = None

\* The chip follows the kernel's driver from the first write of its probe on.
Followed == driver = "mtd" /\ (probed \/ (job = Probe /\ pc > 0)) => ~deaf

\* After a program the chip is not about to change the array.
Settled == last # None /\ pc = 0 => g_state \in {"READ", "1", "CFI"}

Inv ==
  /\ Typed /\ Ready /\ Followed /\ Settled /\ VerifyIsTruthful
  /\ deaf /\ job \in Job => g_state \in Strayed

-----------------------------------------------------------------------------
(* The chip *)

\* The state after a write.
After(w, s, a, v) == Diverged(s, IF w = 1 THEN write_w1(s, a, v) ELSE write_w2(s, a, v))

\* The first unlock cycle.
LEMMA AfterUnlock1 ==
  ASSUME NEW w \in {1, 2}, NEW s \in State
  PROVE  After(w, s, AAA, Unlock1) = IF s = "READ" THEN "1" ELSE IF s = "3" THEN "4" ELSE "READ"
  BY DEF After, Diverged, write_w1, write_w2, Unlocked, IsQueryWord, State, AAA, H555, H554,
         Unlock1, Unlock2, QueryByte, QueryWord

\* The second unlock cycle, at the address of the driver's width.
LEMMA AfterUnlock2 ==
  ASSUME NEW s \in State
  PROVE  /\ After(1, s, H555, Unlock2) = IF s = "1" THEN "2" ELSE IF s = "4" THEN "ERASE" ELSE "READ"
         /\ After(2, s, H554, Unlock2) = IF s = "1" THEN "2" ELSE IF s = "4" THEN "ERASE" ELSE "READ"
  <1>1. \A u : u # AAA => Unlocked(s, u, Unlock2, u) = IF s = "1" THEN "2" ELSE IF s = "4" THEN "ERASE" ELSE s
    BY DEF Unlocked, Unlock1, Unlock2, State
  <1>2. H555 # AAA /\ H554 # AAA /\ H555 # QueryByte /\ ~IsQueryWord(H554, Unlock2)
    BY DEF H555, H554, AAA, QueryByte, QueryWord, IsQueryWord, Unlock2
  <1>3. write_w1(s, H555, Unlock2) = Unlocked(s, H555, Unlock2, H555) BY <1>2 DEF write_w1
  <1>4. write_w2(s, H554, Unlock2) = Unlocked(s, H554, Unlock2, H554) BY <1>2 DEF write_w2
  <1>5. /\ After(1, s, H555, Unlock2) = Diverged(s, write_w1(s, H555, Unlock2))
        /\ After(2, s, H554, Unlock2) = Diverged(s, write_w2(s, H554, Unlock2))
    BY DEF After
  <1> QED BY <1>1, <1>2, <1>3, <1>4, <1>5 DEF Diverged

\* The commands to erase and to program.
LEMMA AfterCommand ==
  ASSUME NEW w \in {1, 2}, NEW s \in State
  PROVE  /\ After(w, s, AAA, 128) = IF s = "2" THEN "3" ELSE "READ"
         /\ After(w, s, AAA, 160) = IF s = "2" THEN "PROGRAM" ELSE "READ"
  BY DEF After, Diverged, write_w1, write_w2, Unlocked, IsQueryWord, State, AAA, H555, H554,
         Unlock1, Unlock2, QueryByte, QueryWord

\* The last write of an erase.
LEMMA AfterErase ==
  ASSUME NEW w \in {1, 2}, NEW s \in {"ERASE", "2"}, NEW a, a # AAA
  PROVE  After(w, s, a, 48) = "READ"
  BY DEF After, Diverged, write_w1, write_w2, Unlocked, Unlock1, Unlock2

\* The last write of a program.
LEMMA AfterProgram ==
  ASSUME NEW a, NEW v
  PROVE  /\ After(2, "PROGRAM", a, v) = "READ"
         /\ After(2, "READ", a, v) = IF IsQueryWord(a, v) THEN "CFI"
                                     ELSE IF a = AAA /\ v = Unlock1 THEN "1" ELSE "READ"
  <1>1. After(2, "PROGRAM", a, v) = "READ" BY DEF After, Diverged, write_w2, Unlocked
  <1>2. Unlocked("READ", a, v, H554) = IF a = AAA /\ v = Unlock1 THEN "1" ELSE "READ" BY DEF Unlocked
  <1>3. After(2, "READ", a, v) = Diverged("READ", IF IsQueryWord(a, v) THEN "CFI" ELSE Unlocked("READ", a, v, H554))
    BY DEF After, write_w2
  <1> QED BY <1>1, <1>2, <1>3 DEF Diverged

\* The writes of the kernel's probe.
LEMMA AfterProbe ==
  /\ \A s \in State : After(2, s, 0, 240) = "READ"
  /\ After(2, "READ", QueryWord, 152) = "CFI"
  /\ After(2, "2", AAA, 144) = "AUTOSELECT"
  /\ After(2, "READ", 0, 255) = "READ"
  BY DEF After, Diverged, write_w1, write_w2, Unlocked, IsQueryWord, State, AAA, H555, H554,
         Unlock1, Unlock2, QueryByte, QueryWord

-----------------------------------------------------------------------------
(* The drivers *)

\* What is assumed of the jobs.
LEMMA Asked ==
  /\ Sectors \subseteq Nat \ {AAA}
  /\ Words \subseteq Addr \X Word
  /\ \A w \in Words : w[1] + 1 \in Addr
  /\ Addr \subseteq Nat /\ {0, 1, AAA} \subseteq Addr
  BY ChipAssumption

\* What a job is.
LEMMA Erases ==
  ASSUME NEW j, j \in {[kind |-> "erase", addr |-> a] : a \in Sectors}
  PROVE  j.kind = "erase" /\ j.addr # AAA /\ j.addr \in Nat /\ j # Probe /\ j # None
  <1>1. PICK a \in Sectors : j = [kind |-> "erase", addr |-> a] OBVIOUS
  <1>2. j.kind = "erase" /\ j.addr = a BY <1>1
  <1>3. a # AAA /\ a \in Nat BY Asked
  <1>4. Probe.kind = "probe" /\ None.kind = "none" BY DEF Probe, None
  <1>5. j # Probe /\ j # None BY <1>2, <1>4
  <1> QED BY <1>2, <1>3, <1>5

LEMMA Programs ==
  ASSUME NEW j, j \in {[kind |-> "program", addr |-> w[1], val |-> w[2]] : w \in Words}
  PROVE  /\ j.kind = "program" /\ j.addr \in Addr /\ j.addr + 1 \in Addr /\ j.addr \in Nat
         /\ j.val \in Word /\ j # Probe /\ j # None
  <1>1. PICK w \in Words : j = [kind |-> "program", addr |-> w[1], val |-> w[2]] OBVIOUS
  <1>2. j.kind = "program" /\ j.addr = w[1] /\ j.val = w[2] BY <1>1
  <1>3. w[1] + 1 \in Addr BY Asked
  <1>4. w[1] \in Addr /\ w[2] \in Word
    <2>1. w \in Addr \X Word BY Asked
    <2> QED BY <2>1
  <1>5. w[1] \in Nat BY <1>4, Asked
  <1>6. Probe.kind = "probe" /\ None.kind = "none" BY DEF Probe, None
  <1>7. j # Probe /\ j # None BY <1>2, <1>6
  <1> QED BY <1>2, <1>3, <1>4, <1>5, <1>7

LEMMA Jobs ==
  ASSUME NEW j \in Job
  PROVE  /\ j # Probe /\ j # None
         /\ \/ j.kind = "erase" /\ j.addr # AAA /\ j.addr \in Nat
            \/ /\ j.kind = "program" /\ j.addr \in Addr /\ j.addr + 1 \in Addr /\ j.addr \in Nat
               /\ j.val \in Word
  <1>1. \/ j \in {[kind |-> "erase", addr |-> a] : a \in Sectors}
        \/ j \in {[kind |-> "program", addr |-> w[1], val |-> w[2]] : w \in Words}
    BY Zenon DEF Job
  <1>2. CASE j \in {[kind |-> "erase", addr |-> a] : a \in Sectors}
    BY <1>2, Erases
  <1>3. CASE j \in {[kind |-> "program", addr |-> w[1], val |-> w[2]] : w \in Words}
    BY <1>3, Programs
  <1> QED BY <1>1, <1>2, <1>3, Zenon

LEMMA Others ==
  Probe.kind = "probe" /\ None.kind = "none" /\ Probe # None /\ Probe \notin Job /\ None \notin Job
  <1>1. Probe.kind = "probe" /\ None.kind = "none" BY DEF Probe, None
  <1>2. Probe # None BY <1>1
  <1>3. Probe \notin Job /\ None \notin Job BY Jobs
  <1> QED BY <1>1, <1>2, <1>3

\* The address of the second unlock.
Unlock2At == IF driver = "mtd" THEN H554 ELSE H555

\* The writes of each job, and the cycles they take the chip through.
LEMMA ErasePlan ==
  ASSUME NEW j, j.kind = "erase"
  PROVE  /\ Len(Cycles(j)) = 6 /\ Len(Track(j)) = 6
         /\ Cycles(j)[1] = Cmd(AAA, Unlock1) /\ Cycles(j)[2] = Cmd(Unlock2At, Unlock2)
         /\ Cycles(j)[3] = Cmd(AAA, 128)     /\ Cycles(j)[4] = Cmd(AAA, Unlock1)
         /\ Cycles(j)[5] = Cmd(Unlock2At, Unlock2) /\ Cycles(j)[6] = Cmd(j.addr, 48)
         /\ Track(j)[1] = "READ" /\ Track(j)[2] = "1" /\ Track(j)[3] = "2"
         /\ Track(j)[4] = "3"    /\ Track(j)[5] = "4" /\ Track(j)[6] = "ERASE"
  <1>1. Cycles(j) = EraseCycles(j.addr, Unlock2At)
    BY DEF Cycles, do_erase_oneblock, Unlock2At
  <1>2. Track(j) = <<"READ", "1", "2", "3", "4", "ERASE">> BY DEF Track
  <1>3. ASSUME NEW c1, NEW c2, NEW c3, NEW c4, NEW c5, NEW c6, NEW x, x = <<c1, c2, c3, c4, c5, c6>>
        PROVE  Len(x) = 6 /\ x[1] = c1 /\ x[2] = c2 /\ x[3] = c3 /\ x[4] = c4 /\ x[5] = c5 /\ x[6] = c6
    BY <1>3
  <1>4. /\ Len(Cycles(j)) = 6
        /\ Cycles(j)[1] = Cmd(AAA, Unlock1) /\ Cycles(j)[2] = Cmd(Unlock2At, Unlock2)
        /\ Cycles(j)[3] = Cmd(AAA, 128)     /\ Cycles(j)[4] = Cmd(AAA, Unlock1)
        /\ Cycles(j)[5] = Cmd(Unlock2At, Unlock2) /\ Cycles(j)[6] = Cmd(j.addr, 48)
    BY <1>1, <1>3 DEF EraseCycles
  <1>5. /\ Len(Track(j)) = 6
        /\ Track(j)[1] = "READ" /\ Track(j)[2] = "1" /\ Track(j)[3] = "2"
        /\ Track(j)[4] = "3"    /\ Track(j)[5] = "4" /\ Track(j)[6] = "ERASE"
    BY <1>2, <1>3
  <1> QED BY <1>4, <1>5

LEMMA ProgramPlan ==
  ASSUME NEW j, j.kind = "program"
  PROVE  /\ Len(Cycles(j)) = 4 /\ Len(Track(j)) = 4
         /\ Cycles(j)[1] = Cmd(AAA, Unlock1) /\ Cycles(j)[2] = Cmd(Unlock2At, Unlock2)
         /\ Cycles(j)[3] = Cmd(AAA, 160)     /\ Cycles(j)[4] = Cmd(j.addr, j.val)
         /\ Track(j)[1] = "READ" /\ Track(j)[2] = "1" /\ Track(j)[3] = "2" /\ Track(j)[4] = "PROGRAM"
  <1>1. Cycles(j) = ProgramCycles(j.addr, j.val, Unlock2At)
    BY DEF Cycles, do_write_oneword, Unlock2At
  <1>2. Track(j) = <<"READ", "1", "2", "PROGRAM">> BY DEF Track
  <1>3. ASSUME NEW c1, NEW c2, NEW c3, NEW c4, NEW x, x = <<c1, c2, c3, c4>>
        PROVE  Len(x) = 4 /\ x[1] = c1 /\ x[2] = c2 /\ x[3] = c3 /\ x[4] = c4
    BY <1>3
  <1>4. /\ Len(Cycles(j)) = 4
        /\ Cycles(j)[1] = Cmd(AAA, Unlock1) /\ Cycles(j)[2] = Cmd(Unlock2At, Unlock2)
        /\ Cycles(j)[3] = Cmd(AAA, 160)     /\ Cycles(j)[4] = Cmd(j.addr, j.val)
    BY <1>1, <1>3 DEF ProgramCycles
  <1>5. /\ Len(Track(j)) = 4
        /\ Track(j)[1] = "READ" /\ Track(j)[2] = "1" /\ Track(j)[3] = "2" /\ Track(j)[4] = "PROGRAM"
    BY <1>2, <1>3
  <1> QED BY <1>4, <1>5

LEMMA ProbePlan ==
  ASSUME NEW j, j.kind = "probe"
  PROVE  /\ Len(Cycles(j)) = 8 /\ Len(Track(j)) = 8
         /\ Cycles(j)[1] = Cmd(0, 240)       /\ Cycles(j)[2] = Cmd(QueryWord, 152)
         /\ Cycles(j)[3] = Cmd(0, 240)       /\ Cycles(j)[4] = Cmd(AAA, Unlock1)
         /\ Cycles(j)[5] = Cmd(H554, Unlock2) /\ Cycles(j)[6] = Cmd(AAA, 144)
         /\ Cycles(j)[7] = Cmd(0, 240)       /\ Cycles(j)[8] = Cmd(0, 255)
         /\ Track(j)[1] = "READ" /\ Track(j)[2] = "READ" /\ Track(j)[3] = "CFI" /\ Track(j)[4] = "READ"
         /\ Track(j)[5] = "1" /\ Track(j)[6] = "2" /\ Track(j)[7] = "AUTOSELECT" /\ Track(j)[8] = "READ"
  <1>1. Cycles(j) = ProbeCycles BY DEF Cycles
  <1>2. Track(j) = <<"READ", "READ", "CFI", "READ", "1", "2", "AUTOSELECT", "READ">> BY DEF Track
  <1>3. ASSUME NEW c1, NEW c2, NEW c3, NEW c4, NEW c5, NEW c6, NEW c7, NEW c8, NEW x,
               x = <<c1, c2, c3, c4, c5, c6, c7, c8>>
        PROVE  /\ Len(x) = 8 /\ x[1] = c1 /\ x[2] = c2 /\ x[3] = c3 /\ x[4] = c4
               /\ x[5] = c5 /\ x[6] = c6 /\ x[7] = c7 /\ x[8] = c8
    BY <1>3
  <1>4. /\ Len(Cycles(j)) = 8
        /\ Cycles(j)[1] = Cmd(0, 240)       /\ Cycles(j)[2] = Cmd(QueryWord, 152)
        /\ Cycles(j)[3] = Cmd(0, 240)       /\ Cycles(j)[4] = Cmd(AAA, Unlock1)
        /\ Cycles(j)[5] = Cmd(H554, Unlock2) /\ Cycles(j)[6] = Cmd(AAA, 144)
        /\ Cycles(j)[7] = Cmd(0, 240)       /\ Cycles(j)[8] = Cmd(0, 255)
    BY <1>1, <1>3 DEF ProbeCycles
  <1>5. /\ Len(Track(j)) = 8
        /\ Track(j)[1] = "READ" /\ Track(j)[2] = "READ" /\ Track(j)[3] = "CFI" /\ Track(j)[4] = "READ"
        /\ Track(j)[5] = "1" /\ Track(j)[6] = "2" /\ Track(j)[7] = "AUTOSELECT" /\ Track(j)[8] = "READ"
    BY <1>2, <1>3
  <1> QED BY <1>4, <1>5

\* No job is one cycle in which the chip shows the array.
LEMMA NonePlan == Track(None) = <<"READ">> /\ Len(Track(None)) = 1 /\ Track(None)[1] = "READ"
  <1>1. Track(None) = <<"READ">> BY Others DEF Track
  <1> QED BY <1>1

\* The array after a write to a chip in state s.
Stored(w, s, m, a, v) ==
  CASE s = "ERASE" /\ v = 48 -> EraseSector(m, a)
    [] s = "PROGRAM" -> Programmed(m, w, a, v)
    [] OTHER -> m

\* A write of the driver, given the command it is at.
LEMMA OneWrite ==
  ASSUME NEW a, NEW v, Write, Cycles(job)[pc + 1] = Cmd(a, v)
  PROVE  LET w == Width(job, pc + 1)
         IN g_state' = After(w, g_state, a, v) /\ g_backing' = Stored(w, g_state, g_backing, a, v)
  <1>1. Cycles(job)[pc + 1].addr = a /\ Cycles(job)[pc + 1].val = v BY DEF Cmd
  <1>2. flash_write_width(Width(job, pc + 1), a, v) BY <1>1 DEF Write
  <1> QED BY <1>2 DEF flash_write_width, After, Stored

-----------------------------------------------------------------------------
(* One write *)

\* The width of a driver's commands.
CommandWidth == IF driver = "mtd" THEN 2 ELSE 1

\* The commands have the driver's width, and a word is programmed as one.
LEMMA Widths ==
  ASSUME driver \in {"biffnor", "mtd"}, NEW k \in Nat
  PROVE  /\ CommandWidth \in {1, 2}
         /\ job.kind # "program" => Width(job, k) = CommandWidth
         /\ k # 4 => Width(job, k) = CommandWidth
         /\ job.kind = "program" => Width(job, 4) = 2
         /\ driver = "mtd" => Width(job, k) = 2
  BY DEF Width, CommandWidth

\* The second unlock of either driver.
LEMMA SecondUnlock ==
  ASSUME driver \in {"biffnor", "mtd"}, NEW s \in State
  PROVE  After(CommandWidth, s, Unlock2At, Unlock2)
           = IF s = "1" THEN "2" ELSE IF s = "4" THEN "ERASE" ELSE "READ"
  <1>1. CASE driver = "mtd"
    <2>1. CommandWidth = 2 /\ Unlock2At = H554 BY <1>1 DEF CommandWidth, Unlock2At
    <2> QED BY <2>1, AfterUnlock2
  <1>2. CASE driver = "biffnor"
    <2>1. CommandWidth = 1 /\ Unlock2At = H555 BY <1>2 DEF CommandWidth, Unlock2At
    <2> QED BY <2>1, AfterUnlock2
  <1> QED BY <1>1, <1>2

\* What is left of the array when a deaf chip takes a first command as a program.
LEMMA Spoils ==
  ASSUME NEW m, OnAddr(m)
  PROVE  /\ Programmed(m, 1, AAA, Unlock1) \in Spoilt(m)
         /\ Programmed(m, 2, 0, 240) \in Spoilt(m)
  <1>1. Unlock1 % 256 = Unlock1 /\ 240 % 256 = 240 /\ 240 \div 256 = 0 BY DEF Unlock1
  <1>2. Programmed(m, 1, AAA, Unlock1) = [m EXCEPT ![AAA] = Unlock1]
    <2>1. Programmed(m, 1, AAA, Unlock1) = [b \in Addr |-> IF b = AAA THEN Unlock1 ELSE m[b]]
      BY <1>1 DEF Programmed
    <2> QED BY <2>1 DEF OnAddr
  <1>3. Programmed(m, 2, 0, 240) = [m EXCEPT ![0] = 240, ![1] = 0]
    <2>1. 0 + 1 = 1 OBVIOUS
    <2>2. Programmed(m, 2, 0, 240) = [b \in Addr |-> IF b = 0 THEN 240 ELSE IF b = 1 THEN 0 ELSE m[b]]
      BY <1>1, <2>1 DEF Programmed
    <2>3. [m EXCEPT ![0] = 240] = [b \in Addr |-> IF b = 0 THEN 240 ELSE m[b]] BY DEF OnAddr
    <2>4. [m EXCEPT ![0] = 240, ![1] = 0] = [[m EXCEPT ![0] = 240] EXCEPT ![1] = 0] OBVIOUS
    <2>5. [m EXCEPT ![0] = 240, ![1] = 0]
            = [b \in Addr |-> IF b = 1 THEN 0 ELSE IF b = 0 THEN 240 ELSE m[b]]
      BY <2>3, <2>4
    <2> QED BY <2>2, <2>5
  <1> QED BY <1>2, <1>3 DEF Spoilt

\* A word programmed is the effect of the job.
LEMMA ProgramEffect ==
  ASSUME NEW m, OnAddr(m), NEW j \in Job, j.kind = "program"
  PROVE  Programmed(m, 2, j.addr, j.val) = Effect(m, j)
  <1> DEFINE a == j.addr
             m1 == [b \in Addr |-> IF b = a THEN Lo(j.val) ELSE m[b]]
  <1>1. a \in Addr /\ a + 1 \in Addr /\ a \in Nat BY Jobs
  <1>2. Effect(m, j) = [m EXCEPT ![a] = Lo(j.val), ![a + 1] = Hi(j.val)] BY DEF Effect
  <1>3. Programmed(m, 2, a, j.val) = [b \in Addr |-> IF b = a THEN Lo(j.val)
                                                   ELSE IF b = a + 1 THEN Hi(j.val) ELSE m[b]]
    BY DEF Programmed, Lo, Hi
  <1> HIDE DEF a
  <1>4. [m EXCEPT ![a] = Lo(j.val)] = m1 BY DEF OnAddr
  <1>5. [m EXCEPT ![a] = Lo(j.val), ![a + 1] = Hi(j.val)]
          = [[m EXCEPT ![a] = Lo(j.val)] EXCEPT ![a + 1] = Hi(j.val)]
    OBVIOUS
  <1>6. [m1 EXCEPT ![a + 1] = Hi(j.val)]
          = [b \in Addr |-> IF b = a + 1 THEN Hi(j.val) ELSE IF b = a THEN Lo(j.val) ELSE m[b]]
    OBVIOUS
  <1>7. a # a + 1 BY <1>1
  <1>8. [b \in Addr |-> IF b = a + 1 THEN Hi(j.val) ELSE IF b = a THEN Lo(j.val) ELSE m[b]]
          = [b \in Addr |-> IF b = a THEN Lo(j.val) ELSE IF b = a + 1 THEN Hi(j.val) ELSE m[b]]
    BY <1>7
  <1> QED BY <1>2, <1>3, <1>4, <1>5, <1>6, <1>8 DEF a

\* A write keeps the array one.
LEMMA StoredIsArray ==
  ASSUME NEW m, OnAddr(m), NEW w, NEW s, NEW a, NEW v
  PROVE  OnAddr(Stored(w, s, m, a, v))
  <1>1. OnAddr(EraseSector(m, a)) BY DEF OnAddr, EraseSector
  <1>2. OnAddr(Programmed(m, w, a, v)) BY DEF OnAddr, Programmed
  <1> QED BY <1>1, <1>2 DEF Stored

\* A write other than the last one of a job.
Going ==
  /\ UNCHANGED <<job, probed, last, verified>>
  /\ pc' = pc + 1 /\ pc' \in 0 .. Len(Track(job)) - 1
  /\ g_state' \in State /\ OnAddr(g_backing')
  /\ ~deaf => ~deaf'
  /\ deaf => ~deaf' \/ (job \in Job /\ g_state' \in Strayed')
  /\ g_backing' = g_backing \/ (deaf /\ last = None /\ g_backing' \in Spoilt(g_backing))

\* The last one.
Finishing ==
  /\ job' = None /\ pc' = 0 /\ probed' = TRUE
  /\ OnAddr(g_backing')
  /\ ~deaf => g_state' = "READ" /\ g_backing' = Effect(g_backing, job)
  /\ deaf => /\ g_backing' = g_backing
             /\ g_state' = "READ" \/ (g_state' \in {"1", "CFI"} /\ Deafens(job))
  /\ g_state' = "CFI" => IsQueryWord(job.addr, job.val)

\* The control of the driver.
LEMMA Control ==
  ASSUME Write, pc \in Nat, NEW n \in Nat, Len(Cycles(job)) = n
  PROVE  /\ pc + 1 < n => UNCHANGED <<job, probed, last, verified>> /\ pc' = pc + 1
         /\ ~(pc + 1 < n) => job' = None /\ pc' = 0 /\ probed' = TRUE
  BY DEF Write

\* The first three writes of an erase or a program: unlock and command.
LEMMA Unlocking ==
  ASSUME Inv, Write, job \in Job, pc \in {0, 1, 2}
  PROVE  Going
  <1> DEFINE n == Len(Track(job))
  <1>1. /\ n \in {4, 6} /\ Len(Cycles(job)) = n
        /\ Cycles(job)[1] = Cmd(AAA, Unlock1) /\ Cycles(job)[2] = Cmd(Unlock2At, Unlock2)
        /\ Cycles(job)[3] = Cmd(AAA, IF job.kind = "erase" THEN 128 ELSE 160)
        /\ Track(job)[1] = "READ" /\ Track(job)[2] = "1" /\ Track(job)[3] = "2"
        /\ Track(job)[4] = IF job.kind = "erase" THEN "3" ELSE "PROGRAM"
    <2>1. CASE job.kind = "erase" BY <2>1, ErasePlan
    <2>2. CASE job.kind = "program" BY <2>2, ProgramPlan
    <2> QED BY <2>1, <2>2, Jobs
  <1> HIDE DEF n
  <1>2. UNCHANGED <<job, probed, last, verified>> /\ pc' = pc + 1 /\ pc' \in 0 .. n - 1
    <2>1. pc \in Nat /\ n \in Nat /\ pc + 1 < n BY <1>1
    <2>2. UNCHANGED <<job, probed, last, verified>> /\ pc' = pc + 1 BY <1>1, <2>1, Control
    <2>3. pc' \in 0 .. n - 1 BY <2>1, <2>2
    <2> QED BY <2>2, <2>3
  <1>3. /\ driver \in {"biffnor", "mtd"} /\ g_state \in State /\ OnAddr(g_backing)
        /\ deaf => g_state \in Strayed
        /\ deaf => driver = "biffnor"
        /\ last # None /\ pc = 0 => g_state \in {"READ", "1", "CFI"}
    <2>1. driver \in {"biffnor", "mtd"} /\ g_state \in State /\ OnAddr(g_backing) BY DEF Inv, Typed
    <2>2. deaf => g_state \in Strayed BY DEF Inv
    <2>3. deaf => driver = "biffnor" BY <2>1 DEF Inv, Ready, Followed
    <2>4. last # None /\ pc = 0 => g_state \in {"READ", "1", "CFI"} BY DEF Inv, Settled
    <2> QED BY <2>1, <2>2, <2>3, <2>4
  <1>4. Width(job, pc + 1) = CommandWidth /\ CommandWidth \in {1, 2}
    BY <1>3, Widths
  <1>5. CASE pc = 0
    <2>1. /\ g_state' = After(CommandWidth, g_state, AAA, Unlock1)
          /\ g_backing' = Stored(CommandWidth, g_state, g_backing, AAA, Unlock1)
      BY <1>1, <1>4, <1>5, OneWrite
    <2>2. g_state' = IF g_state = "READ" THEN "1" ELSE IF g_state = "3" THEN "4" ELSE "READ"
      BY <1>3, <1>4, <2>1, AfterUnlock1
    <2>3. pc' = 1 /\ Track(job')[pc' + 1] = "1" /\ Track(job)[pc + 1] = "READ" BY <1>1, <1>2, <1>5
    <2>4. Strayed' = {"READ", "4"} BY <2>3 DEF Strayed
    <2>5. g_state' \in State BY <2>2 DEF State
    <2>6. ~deaf => ~deaf' BY <2>2, <2>3 DEF deaf
    <2>7. deaf => g_state' \in Strayed' BY <2>2, <2>3, <2>4 DEF deaf
    <2>8. OnAddr(g_backing') BY <1>3, <2>1, StoredIsArray
    <2>9. CASE g_state = "PROGRAM"
      <3>1. deaf /\ last = None BY <1>3, <1>5, <2>3, <2>9 DEF deaf
      <3>2. CommandWidth = 1 BY <1>3, <3>1 DEF CommandWidth
      <3>3. g_backing' = Programmed(g_backing, 1, AAA, Unlock1) BY <2>1, <2>9, <3>2 DEF Stored
      <3>4. g_backing' \in Spoilt(g_backing) BY <1>3, <3>3, Spoils
      <3> QED BY <1>2, <2>5, <2>6, <2>7, <2>8, <3>1, <3>4 DEF Going, n
    <2>10. CASE g_state # "PROGRAM"
      <3>1. g_backing' = g_backing BY <2>1, <2>10 DEF Stored, Unlock1
      <3> QED BY <1>2, <2>5, <2>6, <2>7, <2>8, <3>1 DEF Going, n
    <2> QED BY <2>9, <2>10
  <1>6. CASE pc = 1
    <2>1. /\ g_state' = After(CommandWidth, g_state, Unlock2At, Unlock2)
          /\ g_backing' = Stored(CommandWidth, g_state, g_backing, Unlock2At, Unlock2)
      BY <1>1, <1>4, <1>6, OneWrite
    <2>2. g_state' = IF g_state = "1" THEN "2" ELSE IF g_state = "4" THEN "ERASE" ELSE "READ"
      BY <1>3, <2>1, SecondUnlock
    <2>3. pc' = 2 /\ Track(job')[pc' + 1] = "2" /\ Track(job)[pc + 1] = "1" BY <1>1, <1>2, <1>6
    <2>4. Strayed' = {"READ", "ERASE"} /\ Strayed = {"READ", "4"} BY <1>6, <2>3 DEF Strayed
    <2>5. g_state' \in State BY <2>2 DEF State
    <2>6. ~deaf => ~deaf' BY <2>2, <2>3 DEF deaf
    <2>7. deaf => g_state' \in Strayed' BY <1>3, <2>2, <2>4
    <2>8. OnAddr(g_backing') BY <1>3, <2>1, StoredIsArray
    <2>9. g_state \in {"1", "READ", "4"} BY <1>3, <2>3, <2>4 DEF deaf
    <2>10. g_backing' = g_backing BY <2>1, <2>9 DEF Stored
    <2> QED BY <1>2, <2>5, <2>6, <2>7, <2>8, <2>10 DEF Going, n
  <1>7. CASE pc = 2
    <2> DEFINE v == IF job.kind = "erase" THEN 128 ELSE 160
    <2>1. /\ g_state' = After(CommandWidth, g_state, AAA, v)
          /\ g_backing' = Stored(CommandWidth, g_state, g_backing, AAA, v)
      BY <1>1, <1>4, <1>7, OneWrite
    <2>2. g_state' = IF g_state = "2" THEN (IF job.kind = "erase" THEN "3" ELSE "PROGRAM") ELSE "READ"
      BY <1>3, <1>4, <2>1, AfterCommand
    <2>3. /\ pc' = 3 /\ Track(job')[pc' + 1] = IF job.kind = "erase" THEN "3" ELSE "PROGRAM"
          /\ Track(job)[pc + 1] = "2"
      BY <1>1, <1>2, <1>7
    <2>4. Strayed' = {"READ"} /\ Strayed = {"READ", "ERASE"} BY <1>7, <2>3 DEF Strayed
    <2>5. g_state' \in State BY <2>2 DEF State
    <2>6. ~deaf => ~deaf' BY <2>2, <2>3 DEF deaf
    <2>7. deaf => g_state' \in Strayed' BY <1>3, <2>2, <2>4
    <2>8. OnAddr(g_backing') BY <1>3, <2>1, StoredIsArray
    <2>9. g_state \in {"2", "READ", "ERASE"} BY <1>3, <2>3, <2>4 DEF deaf
    <2>10. v # 48 OBVIOUS
    <2>11. g_backing' = g_backing BY <2>1, <2>9, <2>10 DEF Stored
    <2> QED BY <1>2, <2>5, <2>6, <2>7, <2>8, <2>11 DEF Going, n
  <1> QED BY <1>5, <1>6, <1>7

\* The last three writes of an erase.
LEMMA Erasing ==
  ASSUME Inv, Write, job \in Job, job.kind = "erase", pc \notin {0, 1, 2}
  PROVE  /\ pc \in {3, 4} => Going
         /\ pc \notin {3, 4} => Finishing
  <1>1. /\ Len(Cycles(job)) = 6 /\ Len(Track(job)) = 6
        /\ Cycles(job)[4] = Cmd(AAA, Unlock1)
        /\ Cycles(job)[5] = Cmd(Unlock2At, Unlock2) /\ Cycles(job)[6] = Cmd(job.addr, 48)
        /\ Track(job)[4] = "3"    /\ Track(job)[5] = "4" /\ Track(job)[6] = "ERASE"
    BY ErasePlan
  <1>2. pc \in {3, 4, 5} /\ pc \in Nat
    <2>1. pc \in 0 .. Len(Track(job)) - 1 BY DEF Inv, Typed
    <2> QED BY <1>1, <2>1
  <1>3. /\ driver \in {"biffnor", "mtd"} /\ g_state \in State /\ OnAddr(g_backing)
        /\ deaf => g_state \in Strayed
    BY DEF Inv, Typed
  <1>4. Width(job, pc + 1) = CommandWidth /\ CommandWidth \in {1, 2} BY <1>2, <1>3, Widths
  <1>5. /\ pc + 1 < 6 => UNCHANGED <<job, probed, last, verified>> /\ pc' = pc + 1
        /\ ~(pc + 1 < 6) => job' = None /\ pc' = 0 /\ probed' = TRUE
    BY <1>1, <1>2, Control
  <1>6. CASE pc = 3
    <2>1. /\ g_state' = After(CommandWidth, g_state, AAA, Unlock1)
          /\ g_backing' = Stored(CommandWidth, g_state, g_backing, AAA, Unlock1)
      BY <1>1, <1>4, <1>6, OneWrite
    <2>2. g_state' = IF g_state = "READ" THEN "1" ELSE IF g_state = "3" THEN "4" ELSE "READ"
      BY <1>3, <1>4, <2>1, AfterUnlock1
    <2>3. UNCHANGED <<job, probed, last, verified>> /\ pc' = 4 /\ pc' = pc + 1 BY <1>5, <1>6
    <2>4. Track(job')[pc' + 1] = "4" /\ Track(job)[pc + 1] = "3" BY <1>1, <1>6, <2>3
    <2>5. Strayed' = {"1"} /\ Strayed = {"READ"} BY <1>6, <2>3 DEF Strayed
    <2>6. g_state \in {"3", "READ"} BY <1>3, <2>4, <2>5 DEF deaf
    <2>7. g_state' \in State BY <2>2 DEF State
    <2>8. (~deaf => ~deaf') /\ (deaf => g_state' \in Strayed') BY <2>2, <2>4, <2>5, <2>6 DEF deaf
    <2>9. OnAddr(g_backing') BY <1>3, <2>1, StoredIsArray
    <2>10. g_backing' = g_backing BY <2>1, <2>6 DEF Stored
    <2>11. pc' \in 0 .. Len(Track(job)) - 1 BY <1>1, <2>3
    <2> QED BY <1>6, <2>3, <2>7, <2>8, <2>9, <2>10, <2>11 DEF Going
  <1>7. CASE pc = 4
    <2>1. /\ g_state' = After(CommandWidth, g_state, Unlock2At, Unlock2)
          /\ g_backing' = Stored(CommandWidth, g_state, g_backing, Unlock2At, Unlock2)
      BY <1>1, <1>4, <1>7, OneWrite
    <2>2. g_state' = IF g_state = "1" THEN "2" ELSE IF g_state = "4" THEN "ERASE" ELSE "READ"
      BY <1>3, <2>1, SecondUnlock
    <2>3. UNCHANGED <<job, probed, last, verified>> /\ pc' = 5 /\ pc' = pc + 1 BY <1>5, <1>7
    <2>4. Track(job')[pc' + 1] = "ERASE" /\ Track(job)[pc + 1] = "4" BY <1>1, <1>7, <2>3
    <2>5. Strayed' = {"2"} /\ Strayed = {"1"} BY <1>7, <2>3 DEF Strayed
    <2>6. g_state \in {"4", "1"} BY <1>3, <2>4, <2>5 DEF deaf
    <2>7. g_state' \in State BY <2>2 DEF State
    <2>8. (~deaf => ~deaf') /\ (deaf => g_state' \in Strayed') BY <2>2, <2>4, <2>5, <2>6 DEF deaf
    <2>9. OnAddr(g_backing') BY <1>3, <2>1, StoredIsArray
    <2>10. g_backing' = g_backing BY <2>1, <2>6 DEF Stored
    <2>11. pc' \in 0 .. Len(Track(job)) - 1 BY <1>1, <2>3
    <2> QED BY <1>7, <2>3, <2>7, <2>8, <2>9, <2>10, <2>11 DEF Going
  <1>8. CASE pc = 5
    <2>1. /\ g_state' = After(CommandWidth, g_state, job.addr, 48)
          /\ g_backing' = Stored(CommandWidth, g_state, g_backing, job.addr, 48)
      BY <1>1, <1>4, <1>8, OneWrite
    <2>2. job' = None /\ pc' = 0 /\ probed' = TRUE BY <1>5, <1>8
    <2>3. Track(job)[pc + 1] = "ERASE" BY <1>1, <1>8
    <2>4. Strayed = {"2"} BY <1>8 DEF Strayed
    <2>5. g_state \in {"ERASE", "2"} /\ (deaf <=> g_state = "2") BY <1>3, <2>3, <2>4 DEF deaf
    <2>6. job.addr # AAA BY Jobs
    <2>7. g_state' = "READ" BY <1>4, <2>1, <2>5, <2>6, AfterErase
    <2>8. OnAddr(g_backing') BY <1>3, <2>1, StoredIsArray
    <2>9. deaf => g_backing' = g_backing BY <2>1, <2>5 DEF Stored
    <2>10. ~deaf => g_backing' = Effect(g_backing, job)
      <3>1. Effect(g_backing, job) = EraseSector(g_backing, job.addr) BY DEF Effect, EraseSector
      <3> QED BY <2>1, <2>5, <3>1 DEF Stored
    <2> QED BY <1>8, <2>2, <2>7, <2>8, <2>9, <2>10 DEF Finishing
  <1> QED BY <1>2, <1>6, <1>7, <1>8

\* The last write of a program.
LEMMA Programming ==
  ASSUME Inv, Write, job \in Job, job.kind = "program", pc \notin {0, 1, 2}
  PROVE  Finishing
  <1>1. /\ Len(Cycles(job)) = 4 /\ Len(Track(job)) = 4
        /\ Cycles(job)[4] = Cmd(job.addr, job.val) /\ Track(job)[4] = "PROGRAM"
    BY ProgramPlan
  <1>2. pc = 3
    <2>1. pc \in 0 .. Len(Track(job)) - 1 BY DEF Inv, Typed
    <2> QED BY <1>1, <2>1
  <1>3. /\ driver \in {"biffnor", "mtd"} /\ g_state \in State /\ OnAddr(g_backing)
        /\ deaf => g_state \in Strayed
    BY DEF Inv, Typed
  <1>4. Width(job, pc + 1) = 2 BY <1>2, <1>3, Widths
  <1>5. job' = None /\ pc' = 0 /\ probed' = TRUE
    <2>1. pc \in Nat /\ 4 \in Nat /\ ~(pc + 1 < 4) BY <1>2
    <2> QED BY <1>1, <2>1, Control
  <1>6. /\ g_state' = After(2, g_state, job.addr, job.val)
        /\ g_backing' = Stored(2, g_state, g_backing, job.addr, job.val)
    BY <1>1, <1>2, <1>4, OneWrite
  <1>7. Track(job)[pc + 1] = "PROGRAM" BY <1>1, <1>2
  <1>8. Strayed = {"READ"} BY <1>2 DEF Strayed
  <1>9. g_state \in {"PROGRAM", "READ"} /\ (deaf <=> g_state = "READ") BY <1>3, <1>7, <1>8 DEF deaf
  <1>10. OnAddr(g_backing') BY <1>3, <1>6, StoredIsArray
  <1>11. CASE deaf
    <2>1. g_state = "READ" BY <1>9, <1>11
    <2>2. g_backing' = g_backing BY <1>6, <2>1 DEF Stored
    <2>3. g_state' = IF IsQueryWord(job.addr, job.val) THEN "CFI"
                     ELSE IF job.addr = AAA /\ job.val = Unlock1 THEN "1" ELSE "READ"
      BY <1>6, <2>1, AfterProgram
    <2> QED BY <1>5, <1>10, <1>11, <2>2, <2>3 DEF Finishing, Deafens
  <1>12. CASE ~deaf
    <2>1. g_state = "PROGRAM" BY <1>9, <1>12
    <2>2. g_state' = "READ" BY <1>6, <2>1, AfterProgram
    <2>3. g_backing' = Programmed(g_backing, 2, job.addr, job.val) BY <1>6, <2>1 DEF Stored
    <2>4. Programmed(g_backing, 2, job.addr, job.val) = Effect(g_backing, job) BY <1>3, ProgramEffect
    <2> QED BY <1>5, <1>10, <1>12, <2>2, <2>3, <2>4 DEF Finishing
  <1> QED BY <1>11, <1>12

\* The writes of the probe.
LEMMA Probing ==
  ASSUME Inv, Write, job = Probe
  PROVE  /\ pc < 7 => Going
         /\ ~(pc < 7) => Finishing
  <1>1. /\ Len(Cycles(job)) = 8 /\ Len(Track(job)) = 8
        /\ Cycles(job)[1] = Cmd(0, 240)       /\ Cycles(job)[2] = Cmd(QueryWord, 152)
        /\ Cycles(job)[3] = Cmd(0, 240)       /\ Cycles(job)[4] = Cmd(AAA, Unlock1)
        /\ Cycles(job)[5] = Cmd(H554, Unlock2) /\ Cycles(job)[6] = Cmd(AAA, 144)
        /\ Cycles(job)[7] = Cmd(0, 240)       /\ Cycles(job)[8] = Cmd(0, 255)
        /\ Track(job)[1] = "READ" /\ Track(job)[2] = "READ" /\ Track(job)[3] = "CFI" /\ Track(job)[4] = "READ"
        /\ Track(job)[5] = "1" /\ Track(job)[6] = "2" /\ Track(job)[7] = "AUTOSELECT" /\ Track(job)[8] = "READ"
    BY Others, ProbePlan
  <1>2. pc \in 0 .. 7
    <2>1. pc \in 0 .. Len(Track(job)) - 1 BY DEF Inv, Typed
    <2> QED BY <1>1, <2>1
  <1>3. /\ driver = "mtd" /\ g_state \in State /\ OnAddr(g_backing) /\ last = None
        /\ pc > 0 => ~deaf
    <2>1. driver \in {"biffnor", "mtd"} /\ g_state \in State /\ OnAddr(g_backing) BY DEF Inv, Typed
    <2>2. driver = "mtd" /\ last = None BY <2>1 DEF Inv, Ready
    <2>3. pc > 0 => ~deaf BY <2>2 DEF Inv, Followed
    <2> QED BY <2>1, <2>2, <2>3
  <1>4. Width(job, pc + 1) = 2 BY <1>2, <1>3, Widths
  <1>5. /\ pc + 1 < 8 => UNCHANGED <<job, probed, last, verified>> /\ pc' = pc + 1
        /\ ~(pc + 1 < 8) => job' = None /\ pc' = 0 /\ probed' = TRUE
    <2>1. pc \in Nat /\ 8 \in Nat BY <1>2
    <2> QED BY <1>1, <2>1, Control
  <1>6. CASE pc = 0
    <2>1. g_state' = After(2, g_state, 0, 240) /\ g_backing' = Stored(2, g_state, g_backing, 0, 240)
      BY <1>1, <1>4, <1>6, OneWrite
    <2>2. g_state' = "READ" BY <1>3, <2>1, AfterProbe
    <2>3. UNCHANGED <<job, probed, last, verified>> /\ pc' = 1 /\ pc' = pc + 1 BY <1>5, <1>6
    <2>4. ~deaf' BY <1>1, <2>2, <2>3 DEF deaf
    <2>5. OnAddr(g_backing') /\ g_state' \in State BY <1>3, <2>1, <2>2, StoredIsArray DEF State
    <2>6. g_backing' = g_backing \/ (deaf /\ g_backing' \in Spoilt(g_backing))
      <3>1. CASE g_state = "PROGRAM"
        <4>1. deaf BY <1>1, <1>6, <3>1 DEF deaf
        <4>2. g_backing' = Programmed(g_backing, 2, 0, 240) BY <2>1, <3>1 DEF Stored
        <4> QED BY <1>3, <4>1, <4>2, Spoils
      <3>2. CASE g_state # "PROGRAM" BY <2>1, <3>2 DEF Stored
      <3> QED BY <3>1, <3>2
    <2>7. pc' \in 0 .. Len(Track(job)) - 1 BY <1>1, <2>3
    <2> QED BY <1>3, <1>6, <2>3, <2>4, <2>5, <2>6, <2>7 DEF Going
  <1>7. CASE pc \in 1 .. 6
    <2>1. ~deaf /\ g_state = Track(job)[pc + 1] BY <1>3, <1>7 DEF deaf
    <2>2. UNCHANGED <<job, probed, last, verified>> /\ pc' = pc + 1 BY <1>5, <1>7
    <2>3. g_state' = Track(job)[pc + 2] /\ g_backing' = g_backing /\ g_state' \in State
      <3>1. CASE pc = 1
        <4>1. g_state = "READ" BY <1>1, <2>1, <3>1
        <4>2. /\ g_state' = After(2, g_state, QueryWord, 152)
              /\ g_backing' = Stored(2, g_state, g_backing, QueryWord, 152)
          BY <1>1, <1>4, <3>1, OneWrite
        <4>3. g_state' = "CFI" /\ g_backing' = g_backing BY <4>1, <4>2, AfterProbe DEF Stored
        <4> QED BY <1>1, <3>1, <4>3 DEF State
      <3>2. CASE pc = 2
        <4>1. g_state = "CFI" BY <1>1, <2>1, <3>2
        <4>2. g_state' = After(2, g_state, 0, 240) /\ g_backing' = Stored(2, g_state, g_backing, 0, 240)
          BY <1>1, <1>4, <3>2, OneWrite
        <4>3. g_state' = "READ" /\ g_backing' = g_backing BY <1>3, <4>1, <4>2, AfterProbe DEF Stored
        <4> QED BY <1>1, <3>2, <4>3 DEF State
      <3>3. CASE pc = 3
        <4>1. g_state = "READ" BY <1>1, <2>1, <3>3
        <4>2. /\ g_state' = After(2, g_state, AAA, Unlock1)
              /\ g_backing' = Stored(2, g_state, g_backing, AAA, Unlock1)
          BY <1>1, <1>4, <3>3, OneWrite
        <4>3. g_state' = "1" /\ g_backing' = g_backing BY <1>3, <4>1, <4>2, AfterUnlock1 DEF Stored
        <4> QED BY <1>1, <3>3, <4>3 DEF State
      <3>4. CASE pc = 4
        <4>1. g_state = "1" BY <1>1, <2>1, <3>4
        <4>2. /\ g_state' = After(2, g_state, H554, Unlock2)
              /\ g_backing' = Stored(2, g_state, g_backing, H554, Unlock2)
          BY <1>1, <1>4, <3>4, OneWrite
        <4>3. g_state' = "2" /\ g_backing' = g_backing BY <1>3, <4>1, <4>2, AfterUnlock2 DEF Stored
        <4> QED BY <1>1, <3>4, <4>3 DEF State
      <3>5. CASE pc = 5
        <4>1. g_state = "2" BY <1>1, <2>1, <3>5
        <4>2. /\ g_state' = After(2, g_state, AAA, 144)
              /\ g_backing' = Stored(2, g_state, g_backing, AAA, 144)
          BY <1>1, <1>4, <3>5, OneWrite
        <4>3. g_state' = "AUTOSELECT" /\ g_backing' = g_backing BY <4>1, <4>2, AfterProbe DEF Stored
        <4> QED BY <1>1, <3>5, <4>3 DEF State
      <3>6. CASE pc = 6
        <4>1. g_state = "AUTOSELECT" BY <1>1, <2>1, <3>6
        <4>2. g_state' = After(2, g_state, 0, 240) /\ g_backing' = Stored(2, g_state, g_backing, 0, 240)
          BY <1>1, <1>4, <3>6, OneWrite
        <4>3. g_state' = "READ" /\ g_backing' = g_backing BY <1>3, <4>1, <4>2, AfterProbe DEF Stored
        <4> QED BY <1>1, <3>6, <4>3 DEF State
      <3> QED BY <1>7, <3>1, <3>2, <3>3, <3>4, <3>5, <3>6
    <2>4. ~deaf'
      <3>1. pc' + 1 = pc + 2 BY <1>7, <2>2
      <3> QED BY <2>2, <2>3, <3>1 DEF deaf
    <2>5. pc' \in 0 .. Len(Track(job)) - 1 BY <1>1, <1>7, <2>2
    <2>6. OnAddr(g_backing') BY <1>3, <2>3
    <2> QED BY <1>7, <2>1, <2>2, <2>3, <2>4, <2>5, <2>6 DEF Going
  <1>8. CASE pc = 7
    <2>1. g_state = "READ" /\ ~deaf BY <1>1, <1>3, <1>8 DEF deaf
    <2>2. g_state' = After(2, g_state, 0, 255) /\ g_backing' = Stored(2, g_state, g_backing, 0, 255)
      BY <1>1, <1>4, <1>8, OneWrite
    <2>3. g_state' = "READ" /\ g_backing' = g_backing BY <2>1, <2>2, AfterProbe DEF Stored
    <2>4. Effect(g_backing, job) = g_backing BY Others DEF Effect
    <2>5. job' = None /\ pc' = 0 /\ probed' = TRUE BY <1>5, <1>8
    <2> QED BY <1>3, <1>8, <2>1, <2>3, <2>4, <2>5 DEF Finishing
  <1> QED BY <1>2, <1>6, <1>7, <1>8

\* A write takes a job on, or ends it.
LEMMA WriteStep ==
  ASSUME Inv, Write
  PROVE  /\ Going \/ Finishing
         /\ job \in Job \cup {Probe} /\ job # None
         /\ UNCHANGED <<driver, file, jobs, resets>>
  <1>1. job # None /\ UNCHANGED <<driver, file, jobs, resets>> BY DEF Write
  <1>2. job \in Job \cup {Probe} BY <1>1 DEF Inv, Typed
  <1>3. CASE job \in Job
    <2>1. CASE pc \in {0, 1, 2} BY <1>1, <1>2, <1>3, <2>1, Unlocking
    <2>2. CASE pc \notin {0, 1, 2} /\ job.kind = "erase" BY <1>1, <1>2, <1>3, <2>2, Erasing
    <2>3. CASE pc \notin {0, 1, 2} /\ job.kind = "program" BY <1>1, <1>2, <1>3, <2>3, Programming
    <2>4. job.kind = "erase" \/ job.kind = "program" BY <1>3, Jobs
    <2> QED BY <1>1, <1>2, <2>1, <2>2, <2>3, <2>4
  <1>4. CASE job = Probe BY <1>1, <1>2, <1>4, Probing
  <1> QED BY <1>2, <1>3, <1>4

-----------------------------------------------------------------------------
(* The invariant is inductive *)

\* A write that is not the last of its job keeps it.
LEMMA GoingKeeps ==
  ASSUME Inv, Write, Going
  PROVE  Inv'
  <1>1. /\ UNCHANGED <<job, probed, last, verified>> /\ UNCHANGED <<driver, file, jobs, resets>>
        /\ pc' = pc + 1 /\ pc \in Nat
    <2>1. pc \in Nat BY DEF Inv, Typed
    <2> QED BY <2>1, WriteStep DEF Going
  <1>2. Typed'
    <2>1. pc' \in 0 .. Len(Track(job')) - 1 BY <1>1 DEF Going
    <2>2. g_state' \in State /\ OnAddr(g_backing') BY DEF Going
    <2> QED BY <1>1, <2>1, <2>2 DEF Inv, Typed
  <1>3. Ready' BY <1>1 DEF Inv, Ready
  <1>4. Followed'
    <2>1. CASE job = Probe
      <3>1. ~deaf' BY <2>1, Others DEF Going
      <3> QED BY <3>1 DEF Followed
    <2>2. CASE job # Probe
      <3>1. driver = "mtd" /\ probed => ~deaf BY DEF Inv, Followed
      <3>2. ~deaf => ~deaf' BY DEF Going
      <3> QED BY <1>1, <2>2, <3>1, <3>2 DEF Followed
    <2> QED BY <2>1, <2>2
  <1>5. Settled' BY <1>1 DEF Settled
  <1>6. VerifyIsTruthful'
    <2>1. CASE g_backing' = g_backing BY <1>1, <2>1 DEF Inv, VerifyIsTruthful
    <2>2. CASE last = None BY <1>1, <2>2 DEF VerifyIsTruthful
    <2> QED BY <2>1, <2>2 DEF Going
  <1>7. (deaf /\ job \in Job => g_state \in Strayed)'
    <2>1. (~deaf => ~deaf') /\ (deaf => ~deaf' \/ (job \in Job /\ g_state' \in Strayed')) BY DEF Going
    <2> QED BY <2>1
  <1> QED BY <1>2, <1>3, <1>4, <1>5, <1>6, <1>7 DEF Inv

\* So does the last one: the word verified is what the array then holds.
LEMMA FinishingKeeps ==
  ASSUME Inv, Write, Finishing
  PROVE  Inv'
  <1>1. /\ UNCHANGED <<driver, file, jobs, resets>>
        /\ job \in Job \cup {Probe} /\ job # None /\ job' = None /\ pc' = 0 /\ probed' = TRUE
    BY WriteStep DEF Finishing
  <1>2. \/ /\ job.kind = "program" /\ job \in Job /\ last' = job
           /\ verified' \in Verify(g_state', g_backing', job.addr, job.val)
        \/ last' = None /\ verified' = verified
    <2>1. \/ /\ job.kind = "program" /\ last' = job
             /\ verified' \in Verify(g_state', g_backing', job.addr, job.val)
          \/ last' = None /\ verified' = verified
      <3>1. CASE pc + 1 < Len(Cycles(job))
        <4>1. job' = job BY <3>1 DEF Write
        <4> QED BY <1>1, <4>1
      <3>2. CASE ~(pc + 1 < Len(Cycles(job))) BY <3>2 DEF Write
      <3> QED BY <3>1, <3>2
    <2>2. job.kind = "program" => job \in Job BY <1>1, Others
    <2> QED BY <2>1, <2>2
  <1>3. g_state' \in {"READ", "1", "CFI"} BY DEF Finishing
  <1>4. ASSUME last' = job, job.kind = "program", job \in Job,
               verified' \in Verify(g_state', g_backing', job.addr, job.val)
        PROVE  /\ verified' \in BOOLEAN
               /\ verified' <=> g_backing'[job.addr] = Lo(job.val) /\ g_backing'[job.addr + 1] = Hi(job.val)
    <2>1. g_state' = "CFI" => ~(job.addr < CfiLength)
      <3>1. g_state' = "CFI" => job.addr = QueryWord \/ job.addr = AAA BY DEF Finishing, IsQueryWord
      <3> QED BY <3>1 DEF QueryWord, AAA, CfiLength
    <2>2. ~Hidden(g_state', job.addr) BY <1>3, <2>1 DEF Hidden
    <2>3. verified' = (g_backing'[job.addr] = Lo(job.val) /\ g_backing'[job.addr + 1] = Hi(job.val))
      BY <1>4, <2>2 DEF Verify
    <2> QED BY <2>3
  <1>5. Typed'
    <2>1. /\ driver' \in {"biffnor", "mtd"} /\ OnAddr(file') /\ resets' \in Nat /\ verified \in BOOLEAN
      BY <1>1 DEF Inv, Typed
    <2>2. g_state' \in State /\ OnAddr(g_backing') BY <1>3 DEF Finishing, State
    <2>3. pc' \in 0 .. Len(Track(job')) - 1 BY <1>1, NonePlan
    <2>4. verified' \in BOOLEAN BY <1>2, <1>4, <2>1
    <2>5. last' = None \/ (last' \in Job /\ last'.kind = "program") BY <1>2
    <2>6. job' \in Job \cup {Probe, None} /\ probed' \in BOOLEAN BY <1>1
    <2> QED BY <2>1, <2>2, <2>3, <2>4, <2>5, <2>6 DEF Typed
  <1>6. Ready' BY <1>1, Others DEF Ready
  <1>7. driver = "mtd" => g_state' = "READ"
    <2>1. CASE job = Probe
      <3>1. ~Deafens(job) BY <2>1, Others DEF Deafens
      <3> QED BY <3>1 DEF Finishing
    <2>2. CASE job \in Job
      <3>1. driver = "mtd" => ~deaf BY <2>2 DEF Inv, Ready, Followed
      <3> QED BY <3>1 DEF Finishing
    <2> QED BY <1>1, <2>1, <2>2
  <1>8. Followed'
    <2>1. deaf' => g_state' # "READ" BY <1>1, NonePlan DEF deaf
    <2> QED BY <1>1, <1>7, <2>1 DEF Followed
  <1>9. Settled' BY <1>3 DEF Settled
  <1>10. VerifyIsTruthful' BY <1>2, <1>4 DEF VerifyIsTruthful
  <1>11. (deaf /\ job \in Job => g_state \in Strayed)' BY <1>1, Others
  <1> QED BY <1>5, <1>6, <1>8, <1>9, <1>10, <1>11 DEF Inv

\* A driver that does nothing is at the first cycle.
LEMMA Idle ==
  ASSUME Inv, job = None
  PROVE  pc = 0 /\ (deaf <=> g_state # "READ")
  <1>1. pc \in 0 .. Len(Track(None)) - 1 BY DEF Inv, Typed
  <1>2. pc = 0 BY <1>1, NonePlan
  <1> QED BY <1>2, NonePlan DEF deaf

\* The cycle the chip has to be in before the first write of any job.
LEMMA FirstCycle ==
  ASSUME NEW j \in Job \cup {Probe, None}
  PROVE  Track(j)[1] = "READ" /\ Len(Track(j)) >= 1
  <1>1. CASE j \in Job BY <1>1, Jobs, ErasePlan, ProgramPlan
  <1>2. CASE j = Probe BY <1>2, Others, ProbePlan
  <1>3. CASE j = None BY <1>3, NonePlan
  <1> QED BY <1>1, <1>2, <1>3

\* Starting on a job keeps the invariant.
LEMMA BeginKeeps ==
  ASSUME Inv, NEW j \in Job \cup {Probe}, Begin(j)
  PROVE  Inv' /\ (deaf' <=> deaf)
  <1>1. /\ job = None /\ job' = j /\ pc' = 0
        /\ IF probed THEN j \in Job ELSE j = Probe
        /\ UNCHANGED <<driver, g_state, g_backing, file, probed, resets, last, verified>>
    BY DEF Begin
  <1>2. pc = 0 /\ (deaf <=> g_state # "READ") BY <1>1, Idle
  <1>3. Track(job')[1] = "READ" /\ Len(Track(job')) >= 1 BY <1>1, FirstCycle
  <1>4. deaf' <=> deaf BY <1>1, <1>2, <1>3 DEF deaf
  <1>5. Typed'
    <2>1. Len(Track(job')) \in Nat BY <1>1, ErasePlan, ProgramPlan, ProbePlan, Jobs, Others
    <2>2. pc' \in 0 .. Len(Track(job')) - 1 BY <1>1, <1>3, <2>1
    <2> QED BY <1>1, <2>2 DEF Inv, Typed
  <1>6. ~probed => last = None
    BY DEF Inv, Ready
  <1>7. Ready' BY <1>1, <1>6, Others DEF Inv, Ready
  <1>8. Followed' BY <1>1, <1>4 DEF Inv, Followed
  <1>9. Settled' BY <1>1, <1>2 DEF Inv, Settled
  <1>10. VerifyIsTruthful' BY <1>1 DEF Inv, VerifyIsTruthful
  <1>11. (deaf /\ job \in Job => g_state \in Strayed)'
    <2>1. Strayed' = State /\ g_state' \in State BY <1>1 DEF Inv, Typed, Strayed
    <2> QED BY <2>1
  <1> QED BY <1>4, <1>5, <1>7, <1>8, <1>9, <1>10, <1>11 DEF Inv

\* A reset of the guest keeps it: the chip stays where it is.
LEMMA ResetKeeps ==
  ASSUME Inv, GuestReset
  PROVE  Inv'
  <1>1. /\ job' = None /\ pc' = 0 /\ last' = None /\ resets' = resets + 1
        /\ probed' = (driver = "biffnor")
        /\ UNCHANGED <<driver, g_state, g_backing, file, jobs, verified>>
    BY DEF GuestReset
  <1>2. Typed'
    <2>1. resets' \in Nat BY <1>1 DEF Inv, Typed
    <2>2. probed' \in BOOLEAN BY <1>1
    <2>3. pc' \in 0 .. Len(Track(job')) - 1 BY <1>1, NonePlan
    <2> QED BY <1>1, <2>1, <2>2, <2>3 DEF Inv, Typed
  <1>3. Ready' BY <1>1, Others DEF Ready
  <1>4. Followed'
    <2>1. driver = "mtd" => ~probed' /\ job' # Probe BY <1>1, Others
    <2> QED BY <1>1, <2>1 DEF Followed
  <1>5. Settled' /\ VerifyIsTruthful' BY <1>1 DEF Settled, VerifyIsTruthful
  <1>6. (deaf /\ job \in Job => g_state \in Strayed)' BY <1>1, Others
  <1> QED BY <1>2, <1>3, <1>4, <1>5, <1>6 DEF Inv

\* So does leaving the emulator.
LEMMA QuitKeeps ==
  ASSUME Inv, NEW save \in BOOLEAN, Quit(save)
  PROVE  Inv' /\ ~deaf'
  <1>1. /\ job' = None /\ pc' = 0 /\ last' = None /\ resets' = resets + 1
        /\ probed' = (driver = "biffnor") /\ g_state' = "READ"
        /\ file' \in {g_backing, file} /\ g_backing' = file'
        /\ UNCHANGED <<driver, jobs, verified>>
    BY DEF Quit
  <1>2. Typed'
    <2>1. resets' \in Nat BY <1>1 DEF Inv, Typed
    <2>2. probed' \in BOOLEAN BY <1>1
    <2>3. pc' \in 0 .. Len(Track(job')) - 1 BY <1>1, NonePlan
    <2>4. g_state' \in State BY <1>1 DEF State
    <2>5. OnAddr(file') /\ OnAddr(g_backing') BY <1>1 DEF Inv, Typed
    <2> QED BY <1>1, <2>1, <2>2, <2>3, <2>4, <2>5 DEF Inv, Typed
  <1>3. Ready' BY <1>1, Others DEF Ready
  <1>4. ~deaf' BY <1>1, NonePlan DEF deaf
  <1>5. Followed' BY <1>4 DEF Followed
  <1>6. Settled' /\ VerifyIsTruthful' BY <1>1 DEF Settled, VerifyIsTruthful
  <1> QED BY <1>2, <1>3, <1>4, <1>5, <1>6 DEF Inv

\* The chip is at its first cycle when the emulator starts.
LEMMA InitInv ==
  ASSUME Init
  PROVE  Inv /\ ~deaf
  <1>1. /\ driver \in {"biffnor", "mtd"} /\ file \in Images /\ g_backing = file
        /\ g_state = "READ" /\ job = None /\ pc = 0 /\ resets = 0 /\ last = None /\ verified = FALSE
        /\ probed = (driver = "biffnor")
    BY DEF Init
  <1>2. OnAddr(file)
    <2>1. Images \subseteq [Addr -> Byte] BY ChipAssumption
    <2> QED BY <1>1, <2>1 DEF OnAddr
  <1>3. Typed
    <2>1. probed \in BOOLEAN /\ verified \in BOOLEAN BY <1>1
    <2>2. pc \in 0 .. Len(Track(job)) - 1 BY <1>1, NonePlan
    <2>3. resets \in Nat /\ g_state \in State BY <1>1 DEF State
    <2> QED BY <1>1, <1>2, <2>1, <2>2, <2>3 DEF Typed
  <1>4. ~deaf BY <1>1, NonePlan DEF deaf
  <1>5. Ready BY <1>1, Others DEF Ready
  <1>6. Followed /\ Settled /\ VerifyIsTruthful BY <1>1, <1>4 DEF Followed, Settled, VerifyIsTruthful
  <1> QED BY <1>3, <1>4, <1>5, <1>6 DEF Inv

\* Every step keeps the invariant.
LEMMA NextInv ==
  ASSUME Inv, [Next]_vars
  PROVE  Inv'
  <1>1. ASSUME NEW j \in Job \cup {Probe}, Begin(j) PROVE Inv' BY <1>1, BeginKeeps
  <1>2. CASE Write
    <2>1. CASE Going BY <1>2, <2>1, GoingKeeps
    <2>2. CASE Finishing BY <1>2, <2>2, FinishingKeeps
    <2> QED BY <1>2, <2>1, <2>2, WriteStep
  <1>3. CASE GuestReset BY <1>3, ResetKeeps
  <1>4. ASSUME NEW save \in BOOLEAN, Quit(save) PROVE Inv' BY <1>4, QuitKeeps
  <1>5. CASE UNCHANGED vars
    <2>1. Typed' /\ Ready' /\ Settled' /\ VerifyIsTruthful'
      BY <1>5 DEF Inv, Typed, Ready, Settled, VerifyIsTruthful, vars
    <2>2. (deaf' <=> deaf) /\ Strayed' = Strayed BY <1>5 DEF deaf, Strayed, vars
    <2>3. Followed' BY <1>5, <2>2 DEF Inv, Followed, vars
    <2>4. (deaf /\ job \in Job => g_state \in Strayed)' BY <1>5, <2>2 DEF Inv, vars
    <2> QED BY <2>1, <2>3, <2>4 DEF Inv
  <1> QED BY <1>1, <1>2, <1>3, <1>4, <1>5 DEF Next

\* The invariant holds throughout.
LEMMA Invariant == Spec => []Inv
  BY InitInv, NextInv, PTL DEF Spec

-----------------------------------------------------------------------------
(* The theorems *)

\* What biffnor's or the kernel's verify reads after a program is the array,
\* whatever state earlier resets have left the chip in (write_flash's check,
\* flash_read_width).
THEOREM VerifyTrue == Spec => []VerifyIsTruthful
  <1>1. Inv => VerifyIsTruthful BY DEF Inv
  <1> QED BY <1>1, Invariant, PTL

\* After the kernel's probe the chip follows each write of the driver.
THEOREM ProbeCures == Spec => []ProbeHeals
  <1>1. Inv => ProbeHeals BY DEF Inv, Followed, ProbeHeals
  <1> QED BY <1>1, Invariant, PTL

\* A step of a driver is a step of the array, or none.
LEMMA StepRefines ==
  ASSUME Inv, [Next]_vars
  PROVE  [Array!Next]_<<g_backing, file, job, resets, deaf>>
  <1>1. ASSUME NEW j \in Job \cup {Probe}, Begin(j) PROVE Array!Start
    <2>1. deaf' <=> deaf BY <1>1, BeginKeeps
    <2>2. deaf' = deaf BY <2>1 DEF deaf
    <2> QED BY <1>1, <2>2 DEF Array!Start, Begin
  <1>2. CASE Write
    <2>1. job # None /\ UNCHANGED <<file, resets>> BY <1>2, WriteStep
    <2>2. deaf' \in BOOLEAN BY DEF deaf
    <2>3. CASE Going /\ deaf
      <3>1. job' = job /\ (g_backing' = g_backing \/ g_backing' \in Spoilt(g_backing)) BY <2>3 DEF Going
      <3>2. Array!Confused BY <2>1, <2>2, <2>3, <3>1 DEF Array!Confused
      <3> QED BY <3>2 DEF Array!Next
    <2>4. CASE Going /\ ~deaf
      <3>1. deaf' = deaf
        <4>1. ~deaf' /\ ~deaf BY <2>4 DEF Going
        <4> QED BY <4>1 DEF deaf
      <3>2. job' = job /\ g_backing' = g_backing BY <2>4 DEF Going
      <3> QED BY <2>1, <3>1, <3>2
    <2>5. CASE Finishing /\ deaf
      <3>1. job' = None /\ g_backing' = g_backing BY <2>5 DEF Finishing
      <3>2. deaf' => Deafens(job) BY <2>5, NonePlan DEF Finishing, deaf
      <3>3. Array!Miss BY <2>1, <2>2, <2>5, <3>1, <3>2 DEF Array!Miss
      <3> QED BY <3>3 DEF Array!Next
    <2>6. CASE Finishing /\ ~deaf
      <3>1. job' = None /\ g_backing' = Effect(g_backing, job) BY <2>6 DEF Finishing
      <3>2. ~deaf' BY <2>6, NonePlan DEF Finishing, deaf
      <3>3. deaf' = deaf BY <2>6, <3>2 DEF deaf
      <3>4. Array!Done BY <2>1, <2>6, <3>1, <3>3 DEF Array!Done
      <3> QED BY <3>4 DEF Array!Next
    <2> QED BY <1>2, <2>3, <2>4, <2>5, <2>6, WriteStep
  <1>3. CASE GuestReset
    <2>1. deaf' \in IF job = None THEN {deaf} ELSE BOOLEAN
      <3>1. CASE job = None
        <4>1. pc = 0 BY <3>1, Idle
        <4>2. g_state' = g_state /\ job' = job /\ pc' = pc BY <1>3, <3>1, <4>1 DEF GuestReset
        <4>3. deaf' = deaf BY <4>2 DEF deaf
        <4> QED BY <3>1, <4>3
      <3>2. CASE job # None BY <3>2 DEF deaf
      <3> QED BY <3>1, <3>2
    <2>2. Array!Reset BY <1>3, <2>1 DEF Array!Reset, GuestReset
    <2> QED BY <2>2 DEF Array!Next
  <1>4. ASSUME NEW save \in BOOLEAN, Quit(save) PROVE Array!Restart
    <2>1. deaf' = FALSE BY <1>4, QuitKeeps
    <2> QED BY <1>4, <2>1 DEF Array!Restart, Quit
  <1>5. CASE UNCHANGED vars
    <2>1. deaf' = deaf BY <1>5 DEF deaf, vars
    <2> QED BY <1>5, <2>1 DEF vars
  <1>6. CASE \E j \in Job \cup {Probe} : Begin(j) BY <1>1, <1>6 DEF Array!Next
  <1>7. CASE \E save \in BOOLEAN : Quit(save) BY <1>4, <1>7 DEF Array!Next
  <1> QED BY <1>2, <1>3, <1>5, <1>6, <1>7 DEF Next

\* Each job takes effect as a whole at its last write (flash_write_width), and
\* a reset in the middle of one costs one known word and the jobs until the chip
\* listens again: the next one, unless that leaves it deaf (Deafens).
THEOREM Refines == Spec => ImplementsArray
  <1>1. Init => Array!Init
    <2> SUFFICES ASSUME Init PROVE Array!Init OBVIOUS
    <2>1. deaf = FALSE BY InitInv
    <2> QED BY <2>1 DEF Array!Init, Init
  <1>2. Inv /\ [Next]_vars => [Array!Next]_<<g_backing, file, job, resets, deaf>> BY StepRefines
  <1> QED BY <1>1, <1>2, Invariant, PTL DEF Spec, ImplementsArray, Array!Spec
=============================================================================
