---------------------------- MODULE HeatingProofs ----------------------------
(* What holds of the central heating for every number of requests to the web *)
(* pages, all messages, settings and temperatures, any number of restarts,   *)
(* and every interleaving of the daemon, the CGI programs and the Arduino.   *)
EXTENDS Heating, FiniteSetTheorems, SequenceTheorems, TLAPS

-----------------------------------------------------------------------------
(* The invariants *)

\* How often b occurs in s.
Count(s, b) == Cardinality({k \in 1 .. Len(s) : s[k] = b})

\* What travels on the line.
Byte == Command \cup {"text"} \cup Poster

Typed ==
  /\ pc \in {"check", "read", "unlink", "ask", "answer", "therm", "create", "relay"}
  /\ fd \in Ino \cup {NoFile} /\ (pc = "read" <=> fd # NoFile)
  /\ now \in Int /\ target \in Int /\ last \in BOOLEAN
  /\ stage \in [Process -> {"idle", "open", "write", "rename", "done"}]
  /\ handle \in [Process -> Ino \cup {NoFile}]
  /\ job = [p \in Process |-> job[p]]
  /\ \A p \in Poster : job[p] \in Seq(Command)
  /\ \A p \in Setter : job[p] \in Int
  /\ content \in [Ino -> Poster \cup Int \cup {NoFile}]
  /\ lcdMessage \in Ino \cup {NoFile} /\ lcdTmp \in Ino \cup {NoFile}
  /\ thermFile \in Ino \cup {NoFile} /\ thermTmp \in Ino \cup {NoFile}
  /\ line \in Seq(Byte) /\ answers \in Seq(Int \cup {NoNumber}) /\ room \in Int
  /\ relay \in BOOLEAN /\ row \in {1, 2} /\ tainted \in BOOLEAN
  /\ shown \in [Poster -> Nat] /\ restarts \in Nat /\ scene \in Scenes

\* The inodes that hold or will hold a message, and those for a setting.
MsgIno == {i \in Ino : i \in {lcdMessage, lcdTmp, fd} \/ \E p \in Poster : handle[p] = i}
ThermIno == {i \in Ino : i \in {thermFile, thermTmp} \/ \E p \in Setter : handle[p] = i}

\* Messages and settings are kept apart; the temporary file is not yet the
\* message file, nor open for reading; a file is open while it is to be written.
FileInv ==
  /\ MsgIno \cap ThermIno = {}
  /\ \A i \in MsgIno : content[i] \in Poster \cup {NoFile}
  /\ \A i \in ThermIno : content[i] \in Int \cup {NoFile}
  /\ lcdTmp # NoFile => lcdTmp # lcdMessage /\ lcdTmp # fd
  /\ \A p \in Process : handle[p] # NoFile <=> stage[p] = "write"

\* A message is written once, to one inode.
OnceInv ==
  /\ \A i \in Ino : content[i] \in Poster => stage[content[i]] \in {"rename", "done"}
  /\ \A i \in Ino, j \in Ino : content[i] \in Poster /\ content[i] = content[j] => i = j

\* The message of p can still be put on the line without a restart.
MayShow(p) ==
  \/ stage[p] \in {"idle", "open", "write"}
  \/ fd # NoFile /\ content[fd] = p
  \/ lcdTmp # NoFile /\ content[lcdTmp] = p
  \/ lcdMessage # NoFile /\ pc # "unlink" /\ content[lcdMessage] = p

\* What was shown, is on its way and may still be shown.
ShowInv ==
  \A p \in Poster : shown[p] + Count(line, p) + (IF MayShow(p) THEN 1 ELSE 0) <= 1 + restarts

\* At the last switch the reading was beyond the hysteresis.
SwitchInv ==
  switched # <<>> =>
    /\ switched \in Int \X Int
    /\ IF last THEN switched[1] < switched[2] - 1 ELSE switched[1] > switched[2] + 1

Inv == Typed /\ FileInv /\ OnceInv /\ ShowInv /\ SwitchInv /\ RelayFollows

-----------------------------------------------------------------------------
(* Bytes on the line *)

\* The positions of a byte are finitely many.
LEMMA CountFinite ==
  ASSUME NEW S, NEW s \in Seq(S), NEW b
  PROVE  IsFiniteSet({k \in 1 .. Len(s) : s[k] = b}) /\ Count(s, b) \in Nat
  <1>1. IsFiniteSet(1 .. Len(s)) BY FS_Interval
  <1>2. {k \in 1 .. Len(s) : s[k] = b} \in SUBSET (1 .. Len(s)) OBVIOUS
  <1>3. IsFiniteSet({k \in 1 .. Len(s) : s[k] = b}) BY <1>1, <1>2, FS_Subset
  <1> QED BY <1>3, FS_CardinalityType DEF Count

\* Text that follows is counted on top.
LEMMA CountConcat ==
  ASSUME NEW S, NEW s \in Seq(S), NEW t \in Seq(S), NEW b
  PROVE  Count(s \o t, b) = Count(s, b) + Count(t, b)
  <1> DEFINE A == {k \in 1 .. Len(s) : s[k] = b}
             B == {k \in 1 .. Len(t) : t[k] = b}
             C == {k \in 1 .. Len(s \o t) : (s \o t)[k] = b}
             D == {k \in C : k > Len(s)}
             f == [k \in B |-> k + Len(s)]
  <1>1. /\ Len(s) \in Nat /\ Len(t) \in Nat /\ Len(s \o t) = Len(s) + Len(t)
        /\ \A k \in 1 .. Len(s) : (s \o t)[k] = s[k]
        /\ \A k \in 1 .. Len(t) : (s \o t)[k + Len(s)] = t[k]
    OBVIOUS
  <1>2. C = A \cup D /\ A \cap D = {}
    BY <1>1
  <1>3. f \in Bijection(B, D)
    <2>1. f \in [B -> D] BY <1>1
    <2>2. \A x, y \in B : f[x] = f[y] => x = y BY <1>1
    <2>3. \A d \in D : \E x \in B : f[x] = d
      <3>1. ASSUME NEW d \in D PROVE \E x \in B : f[x] = d
        <4>1. d - Len(s) \in 1 .. Len(t) /\ (d - Len(s)) + Len(s) = d BY <1>1
        <4>2. d - Len(s) \in B BY <1>1, <4>1
        <4> QED BY <4>1, <4>2
      <3> QED BY <3>1
    <2> QED BY <2>1, <2>2, <2>3 DEF Bijection, Injection, Surjection, IsInjective
  <1>4. IsFiniteSet(A) /\ IsFiniteSet(B) BY CountFinite
  <1>5. IsFiniteSet(D) /\ Cardinality(D) = Cardinality(B)
    <2>1. ExistsBijection(B, D) BY <1>3 DEF ExistsBijection
    <2> QED BY <1>4, <2>1, FS_Bijection
  <1>6. Cardinality(A \cup D) = Cardinality(A) + Cardinality(D)
    <2>1. Cardinality(A \cup D) = Cardinality(A) + Cardinality(D) - Cardinality(A \cap D)
      BY <1>4, <1>5, FS_Union
    <2>2. Cardinality(A) \in Nat /\ Cardinality(D) \in Nat BY <1>4, <1>5, FS_CardinalityType
    <2>3. Cardinality(A \cap D) = 0 BY <1>2, FS_EmptySet
    <2> HIDE DEF A, B, C, D
    <2> QED BY <2>1, <2>2, <2>3
  <1>7. Count(s \o t, b) = Cardinality(C) /\ Count(s, b) = Cardinality(A) /\ Count(t, b) = Cardinality(B)
    BY DEF Count
  <1> HIDE DEF A, B, C, D
  <1> QED BY <1>2, <1>5, <1>6, <1>7

\* Text without a byte.
LEMMA CountNone ==
  ASSUME NEW S, NEW s \in Seq(S), NEW b, \A k \in 1 .. Len(s) : s[k] # b
  PROVE  Count(s, b) = 0
  <1>1. {k \in 1 .. Len(s) : s[k] = b} = {} OBVIOUS
  <1> QED BY <1>1, FS_EmptySet DEF Count

\* A single byte.
LEMMA CountOne ==
  ASSUME NEW a, NEW b PROVE Count(<<a>>, b) = IF a = b THEN 1 ELSE 0
  <1>1. CASE a = b
    <2>1. {k \in 1 .. Len(<<a>>) : <<a>>[k] = b} = {1} BY <1>1
    <2> QED BY <1>1, <2>1, FS_Singleton DEF Count
  <1>2. CASE a # b
    <2>1. {k \in 1 .. Len(<<a>>) : <<a>>[k] = b} = {} BY <1>2
    <2> QED BY <1>2, <2>1, FS_EmptySet DEF Count
  <1> QED BY <1>1, <1>2

\* The first byte is taken off.
LEMMA CountTail ==
  ASSUME NEW S, NEW s \in Seq(S), s # <<>>, NEW b
  PROVE  Count(s, b) = Count(Tail(s), b) + (IF Head(s) = b THEN 1 ELSE 0)
  <1>1. Tail(s) \in Seq(S) /\ <<Head(s)>> \in Seq(S) /\ s = <<Head(s)>> \o Tail(s)
    OBVIOUS
  <1>2. Count(<<Head(s)>> \o Tail(s), b) = Count(<<Head(s)>>, b) + Count(Tail(s), b)
    BY <1>1, CountConcat
  <1>3. Count(Tail(s), b) \in Nat BY <1>1, CountFinite
  <1>4. Count(<<Head(s)>>, b) = IF Head(s) = b THEN 1 ELSE 0 BY CountOne
  <1>5. Count(s, b) = Count(<<Head(s)>>, b) + Count(Tail(s), b) BY <1>1, <1>2
  <1> QED BY <1>3, <1>4, <1>5

-----------------------------------------------------------------------------
(* Inodes *)

\* One more element.
LEMMA OneMore ==
  ASSUME NEW S, NEW x, NEW n \in Nat, IsFiniteSet(S), Cardinality(S) <= n
  PROVE  IsFiniteSet(S \cup {x}) /\ Cardinality(S \cup {x}) <= n + 1
  <1>1. Cardinality(S) \in Nat BY FS_CardinalityType
  <1>2. IsFiniteSet(S \cup {x})
        /\ Cardinality(S \cup {x}) = IF x \in S THEN Cardinality(S) ELSE Cardinality(S) + 1
    BY FS_AddElement
  <1> QED BY <1>1, <1>2

\* There is an inode left: every name and every open file takes one at most.
LEMMA FreeInode ==
  ASSUME handle \in [Process -> Ino \cup {NoFile}]
  PROVE  /\ FreeIno \in Ino
         /\ FreeIno \notin {fd, lcdMessage, lcdTmp, thermFile, thermTmp}
         /\ \A p \in Process : handle[p] # FreeIno
  <1> DEFINE H == {handle[p] : p \in Process}
             N == {fd, lcdMessage, lcdTmp, thermFile, thermTmp}
  <1>1. IsFiniteSet(Process) /\ MaxIno \in Nat /\ Cardinality(Process) + 5 < MaxIno
        /\ Cardinality(Process) \in Nat
    BY HeatingAssumption, FS_CardinalityType
  <1>2. IsFiniteSet(H) /\ Cardinality(H) <= Cardinality(Process)
    <2>1. handle \in Surjection(Process, H) BY DEF Surjection
    <2> QED BY <1>1, <2>1, FS_Surjection
  <1>3. IsFiniteSet(N) /\ Cardinality(N) <= 5
    <2>1. IsFiniteSet({fd}) /\ Cardinality({fd}) <= 1 BY FS_Singleton
    <2> DEFINE N2 == {fd} \cup {lcdMessage}
               N3 == N2 \cup {lcdTmp}
               N4 == N3 \cup {thermFile}
               N5 == N4 \cup {thermTmp}
    <2>2. IsFiniteSet(N2) /\ Cardinality(N2) <= 2
      <3>1. IsFiniteSet(N2) /\ Cardinality(N2) <= 1 + 1 BY <2>1, OneMore
      <3> QED BY <3>1
    <2> HIDE DEF N2
    <2>3. IsFiniteSet(N3) /\ Cardinality(N3) <= 3
      <3>1. IsFiniteSet(N3) /\ Cardinality(N3) <= 2 + 1 BY <2>2, OneMore
      <3> QED BY <3>1
    <2> HIDE DEF N3
    <2>4. IsFiniteSet(N4) /\ Cardinality(N4) <= 4
      <3>1. IsFiniteSet(N4) /\ Cardinality(N4) <= 3 + 1 BY <2>3, OneMore
      <3> QED BY <3>1
    <2> HIDE DEF N4
    <2>5. IsFiniteSet(N5) /\ Cardinality(N5) <= 5
      <3>1. IsFiniteSet(N5) /\ Cardinality(N5) <= 4 + 1 BY <2>4, OneMore
      <3> QED BY <3>1
    <2>6. N = N5 BY DEF N2, N3, N4, N5
    <2> QED BY <2>5, <2>6
  <1>4. IsFiniteSet(N \cup H) /\ Cardinality(N \cup H) <= 5 + Cardinality(Process)
    <2>1. IsFiniteSet(N \cup H)
          /\ Cardinality(N \cup H) = Cardinality(N) + Cardinality(H) - Cardinality(N \cap H)
      BY <1>2, <1>3, FS_Union
    <2>2. IsFiniteSet(N \cap H)
      <3>1. N \cap H \in SUBSET N OBVIOUS
      <3> QED BY <1>3, <3>1, FS_Subset
    <2>3. Cardinality(N) \in Nat /\ Cardinality(H) \in Nat /\ Cardinality(N \cap H) \in Nat
      BY <1>2, <1>3, <2>2, FS_CardinalityType
    <2> HIDE DEF N, H
    <2> QED BY <1>1, <1>2, <1>3, <2>1, <2>3
  <1>5. Cardinality(Ino) = MaxIno BY <1>1, FS_Interval DEF Ino
  <1>6. \E i \in Ino : i \notin N \cup H
    <2>1. SUFFICES ASSUME Ino \in SUBSET (N \cup H) PROVE FALSE OBVIOUS
    <2>2. Cardinality(Ino) <= Cardinality(N \cup H) BY <1>4, <2>1, FS_Subset
    <2>3. Cardinality(N \cup H) \in Nat BY <1>4, FS_CardinalityType
    <2> HIDE DEF N, H
    <2> QED BY <1>1, <1>4, <1>5, <2>2, <2>3
  <1>7. FreeIno \in Ino /\ FreeIno \notin N \cup H BY <1>6 DEF FreeIno
  <1> QED BY <1>7

-----------------------------------------------------------------------------
(* Types *)

\* A sequence over a set is one over a larger set.
LEMMA SeqGrows ==
  ASSUME NEW S, NEW T, S \subseteq T, NEW s \in Seq(S) PROVE s \in Seq(T)
  <1>1. Len(s) \in Nat /\ DOMAIN s = 1 .. Len(s) /\ s \in [1 .. Len(s) -> S] OBVIOUS
  <1>2. s \in [1 .. Len(s) -> T] BY <1>1
  <1> QED BY <1>1, <1>2

\* What chmon writes to the line is bytes; its own texts hold no message.
LEMMA Texts ==
  ASSUME Typed
  PROVE  /\ DisplayText \in Seq(Command \cup {"text"})
         /\ RelayCommand \in Seq(Command)
         /\ DisplayText \in Seq(Byte) /\ RelayCommand \in Seq(Byte)
  <1>1. DisplayText \in Seq(Command \cup {"text"})
    <2> DEFINE B == Command \cup {"text"}
    <2>1. "<" \in B /\ "-" \in B /\ "text" \in B BY DEF Command
    <2> HIDE DEF B
    <2>2. <<"<">> \in Seq(B) /\ <<"text">> \in Seq(B) /\ <<"-">> \in Seq(B) /\ <<>> \in Seq(B)
      BY <2>1
    <2>3. (IF now < 0 THEN <<"-">> ELSE <<>>) \in Seq(B) BY <2>2
    <2>4. (IF target < 0 THEN <<"-">> ELSE <<>>) \in Seq(B) BY <2>2
    <2>5. <<"<">> \o (IF now < 0 THEN <<"-">> ELSE <<>>) \in Seq(B) BY <2>2, <2>3, ConcatProperties
    <2>6. <<"<">> \o (IF now < 0 THEN <<"-">> ELSE <<>>) \o <<"text">> \in Seq(B)
      BY <2>2, <2>5, ConcatProperties
    <2>7. DisplayText \in Seq(B) BY <2>4, <2>6, ConcatProperties DEF DisplayText
    <2> QED BY <2>7 DEF B
  <1>2. RelayCommand \in Seq(Command)
    <2>1. <<"+">> \in Seq(Command) /\ <<"-">> \in Seq(Command) /\ <<>> \in Seq(Command)
      BY DEF Command
    <2> QED BY <2>1 DEF RelayCommand
  <1>3. Command \cup {"text"} \subseteq Byte /\ Command \subseteq Byte BY DEF Byte
  <1> QED BY <1>1, <1>2, <1>3, SeqGrows

\* The bytes of the message file, if it is open.
LEMMA MessageBytes ==
  ASSUME Typed, FileInv, pc = "read"
  PROVE  /\ fd \in Ino /\ content[fd] \in Poster \cup {NoFile}
         /\ content[fd] = NoFile => MessageText = <<>>
         /\ content[fd] # NoFile => /\ content[fd] \in Poster /\ job[content[fd]] \in Seq(Command)
                                    /\ MessageText = <<content[fd]>> \o job[content[fd]]
         /\ MessageText \in Seq(Byte)
  <1>1. fd \in Ino /\ fd \in MsgIno BY DEF Typed, MsgIno
  <1>2. content[fd] \in Poster \cup {NoFile} BY <1>1 DEF FileInv
  <1>3. content[fd] # NoFile => content[fd] \in Poster /\ job[content[fd]] \in Seq(Command)
    BY <1>2 DEF Typed
  <1>4. Command \subseteq Byte /\ Poster \subseteq Byte BY DEF Byte
  <1>5. CASE content[fd] = NoFile
    BY <1>1, <1>2, <1>5 DEF MessageText
  <1>6. CASE content[fd] # NoFile
    <2>1. MessageText = <<content[fd]>> \o job[content[fd]] BY <1>6 DEF MessageText
    <2>2. job[content[fd]] \in Seq(Byte) BY <1>3, <1>4, <1>6, SeqGrows
    <2>3. <<content[fd]>> \in Seq(Byte) BY <1>3, <1>4, <1>6
    <2>4. MessageText \in Seq(Byte) BY <2>1, <2>2, <2>3
    <2> QED BY <1>1, <1>2, <1>3, <1>6, <2>1, <2>4
  <1> QED BY <1>5, <1>6

\* What the daemon has found in the thermostat file.
LEMMA SettingRead ==
  ASSUME Typed, FileInv, thermFile # NoFile
  PROVE  thermFile \in ThermIno /\ content[thermFile] \in Int \cup {NoFile}
  BY DEF Typed, FileInv, ThermIno

\* A file is opened under the name of the temporary message file.
LEMMA OpenedMessage ==
  ASSUME Typed, NEW p \in Process, Opened(p, lcdTmp)
  PROVE  /\ lcdTmp' \in Ino /\ handle' = [handle EXCEPT ![p] = lcdTmp']
         /\ \/ lcdTmp # NoFile /\ lcdTmp' = lcdTmp /\ content' = content
            \/ /\ lcdTmp = NoFile /\ content' = [content EXCEPT ![lcdTmp'] = NoFile]
               /\ lcdTmp' \notin {fd, lcdMessage, lcdTmp, thermFile, thermTmp}
               /\ \A q \in Process : handle[q] # lcdTmp'
  <1>1. CASE lcdTmp = NoFile
    <2>1. /\ lcdTmp' = FreeIno /\ handle' = [handle EXCEPT ![p] = FreeIno]
          /\ content' = [content EXCEPT ![FreeIno] = NoFile]
      BY <1>1 DEF Opened
    <2>2. handle \in [Process -> Ino \cup {NoFile}] BY DEF Typed
    <2> QED BY <1>1, <2>1, <2>2, FreeInode
  <1>2. CASE lcdTmp # NoFile BY <1>2 DEF Opened, Typed
  <1> QED BY <1>1, <1>2

\* A file is opened under the name of the temporary thermostat file.
LEMMA OpenedSetting ==
  ASSUME Typed, NEW p \in Process, Opened(p, thermTmp)
  PROVE  /\ thermTmp' \in Ino /\ handle' = [handle EXCEPT ![p] = thermTmp']
         /\ \/ thermTmp # NoFile /\ thermTmp' = thermTmp /\ content' = content
            \/ /\ thermTmp = NoFile /\ content' = [content EXCEPT ![thermTmp'] = NoFile]
               /\ thermTmp' \notin {fd, lcdMessage, lcdTmp, thermFile, thermTmp}
               /\ \A q \in Process : handle[q] # thermTmp'
  <1>1. CASE thermTmp = NoFile
    <2>1. /\ thermTmp' = FreeIno /\ handle' = [handle EXCEPT ![p] = FreeIno]
          /\ content' = [content EXCEPT ![FreeIno] = NoFile]
      BY <1>1 DEF Opened
    <2>2. handle \in [Process -> Ino \cup {NoFile}] BY DEF Typed
    <2> QED BY <1>1, <2>1, <2>2, FreeInode
  <1>2. CASE thermTmp # NoFile BY <1>2 DEF Opened, Typed
  <1> QED BY <1>1, <1>2

\* The thermostat file that CreateThermostat writes.
LEMMA Created ==
  ASSUME Typed, CreateThermostat
  PROVE  /\ thermFile' \in Ino /\ content' = [content EXCEPT ![thermFile'] = 20]
         /\ \/ thermFile' = thermFile
            \/ /\ thermFile' \notin {fd, lcdMessage, lcdTmp, thermFile, thermTmp}
               /\ \A q \in Process : handle[q] # thermFile'
  <1>1. CASE thermFile = NoFile
    <2>1. thermFile' = FreeIno /\ content' = [content EXCEPT ![FreeIno] = 20]
      BY <1>1 DEF CreateThermostat
    <2>2. handle \in [Process -> Ino \cup {NoFile}] BY DEF Typed
    <2> QED BY <1>1, <2>1, <2>2, FreeInode
  <1>2. CASE thermFile # NoFile BY <1>2 DEF CreateThermostat, Typed
  <1> QED BY <1>1, <1>2

\* Every step keeps the types.
LEMMA TypedStep == Typed /\ FileInv /\ [Next]_vars => Typed'
  <1> SUFFICES ASSUME Typed, FileInv, [Next]_vars PROVE Typed' OBVIOUS
  <1> USE DEF Goto, At, daemon, cgi, files, arduino, limits
  <1>0. /\ NoFile \notin Ino /\ Settings \subseteq Int
        /\ Poster \subseteq Process /\ Setter \subseteq Process
        /\ Poster \cap Setter = {}
    BY HeatingAssumption DEF Ino, Process
  <1>1. CASE UNCHANGED vars BY <1>1 DEF Typed, vars
  <1>2. CASE CheckMessages BY <1>2 DEF CheckMessages, Typed
  <1>3. CASE ShowMessage
    <2>1. /\ pc = "read" /\ pc' = "unlink" /\ fd' = NoFile
          /\ line' = line \o <<">">> \o MessageText /\ tainted' = (tainted \/ Taints(MessageText))
      BY <1>3 DEF ShowMessage
    <2>2. MessageText \in Seq(Byte) BY <2>1, MessageBytes
    <2>3. <<">">> \in Seq(Byte) /\ line \in Seq(Byte) BY DEF Byte, Command, Typed
    <2>4. line \o <<">">> \in Seq(Byte) BY <2>3, ConcatProperties
    <2>5. line' \in Seq(Byte) BY <2>1, <2>2, <2>4, ConcatProperties
    <2>6. tainted' \in BOOLEAN BY <2>1 DEF Taints
    <2> QED BY <1>3, <2>1, <2>5, <2>6 DEF ShowMessage, Typed
  <1>4. CASE RemoveMessage BY <1>4 DEF RemoveMessage, Typed
  <1>5. CASE AskTemperature
    <2>1. line' = Append(line, "?") /\ line \in Seq(Byte) /\ "?" \in Byte
      BY <1>5 DEF AskTemperature, Byte, Command, Typed
    <2>2. line' \in Seq(Byte) BY <2>1
    <2> QED BY <1>5, <2>2 DEF AskTemperature, Typed
  <1>6. CASE GetTemperature
    <2> DEFINE A == Int \cup {NoNumber}
    <2>0. now \in Int /\ answers \in Seq(A) BY DEF Typed
    <2>1. now' \in Int /\ answers' \in Seq(A)
      <3>1. CASE UNCHANGED <<now, answers>> BY <2>0, <3>1
      <3>2. CASE answers # <<>> /\ answers' = Tail(answers)
                 /\ (now' = StringToTemp(Head(answers)) \/ UNCHANGED now)
        <4>1. Head(answers) \in A /\ Tail(answers) \in Seq(A)
          <5> HIDE DEF A
          <5> QED BY <2>0, <3>2
        <4>2. StringToTemp(Head(answers)) \in Int BY <4>1 DEF StringToTemp
        <4> QED BY <2>0, <3>2, <4>1, <4>2
      <3> QED BY <1>6, <3>1, <3>2 DEF GetTemperature
    <2> QED BY <1>6, <2>1 DEF GetTemperature, Typed
  <1>7. CASE GetThermostat
    <2>1. target' \in Int BY <1>7, SettingRead DEF GetThermostat, Typed
    <2> QED BY <1>7, <2>1 DEF GetThermostat, Typed
  <1>8. CASE CreateThermostat
    <2>1. thermFile' \in Ino /\ content' = [content EXCEPT ![thermFile'] = 20] BY <1>8, Created
    <2> QED BY <1>8, <2>1 DEF CreateThermostat, Typed
  <1>9. CASE UpdateRelay
    <2>1. /\ last' = NewState /\ line' = line \o RelayCommand \o DisplayText
          /\ tainted' = (tainted \/ Taints(DisplayText))
      BY <1>9 DEF UpdateRelay
    <2>2. line \in Seq(Byte) /\ DisplayText \in Seq(Byte) /\ RelayCommand \in Seq(Byte)
      BY Texts DEF Typed
    <2>3. line \o RelayCommand \in Seq(Byte) BY <2>2, ConcatProperties
    <2>4. line' \in Seq(Byte) BY <2>1, <2>2, <2>3, ConcatProperties
    <2>5. last' \in BOOLEAN
      <3>1. NewState \in BOOLEAN
        <4>1. CASE last BY <4>1 DEF NewState
        <4>2. CASE ~last BY <4>2 DEF NewState
        <4> QED BY <4>1, <4>2
      <3> QED BY <2>1, <3>1
    <2>6. tainted' \in BOOLEAN BY <2>1 DEF Taints
    <2> QED BY <1>9, <2>4, <2>5, <2>6 DEF UpdateRelay, Typed
  <1>10. CASE Restart
    <2>1. restarts' \in Nat BY <1>10 DEF Restart, Typed
    <2>2. tainted' \in BOOLEAN BY <1>10 DEF Restart
    <2>3. last' \in BOOLEAN /\ pc' = "check" /\ fd' = NoFile BY <1>10 DEF Restart
    <2>4. answers' \in Seq(Int \cup {NoNumber})
      <3>1. CASE answers' = <<>> BY <3>1
      <3>2. ASSUME NEW t \in Cut, answers' = <<t>> PROVE answers' \in Seq(Int \cup {NoNumber})
        <4>1. t \in Int \cup {NoNumber} BY HeatingAssumption
        <4> QED BY <3>2, <4>1
      <3> QED BY <1>10, <3>1, <3>2 DEF Restart
    <2> QED BY <1>10, <2>1, <2>2, <2>3, <2>4 DEF Restart, Typed
  <1>11. ASSUME NEW p \in Poster, PostMessage(p) PROVE Typed'
    <2>0. scene.codes \subseteq Seq(Command) BY HeatingAssumption DEF Typed
    <2>1. PICK codes \in scene.codes : job' = [job EXCEPT ![p] = codes] BY <1>11 DEF PostMessage
    <2>2. job' = [q \in Process |-> job'[q]] /\ job'[p] = codes /\ \A q \in Process \ {p} : job'[q] = job[q]
      BY <1>0, <2>1 DEF Typed
    <2>3. (\A q \in Poster : job'[q] \in Seq(Command)) /\ \A q \in Setter : job'[q] \in Int
      BY <1>0, <2>0, <2>2 DEF Typed
    <2> QED BY <1>0, <1>11, <2>2, <2>3 DEF PostMessage, Typed
  <1>12. ASSUME NEW p \in Poster, OpenMessage(p) PROVE Typed'
    <2>1. /\ lcdTmp' \in Ino /\ handle' = [handle EXCEPT ![p] = lcdTmp']
          /\ content' = content \/ content' = [content EXCEPT ![lcdTmp'] = NoFile]
      BY <1>0, <1>12, OpenedMessage DEF OpenMessage
    <2>2. /\ handle' \in [Process -> Ino \cup {NoFile}]
          /\ content' \in [Ino -> Poster \cup Int \cup {NoFile}]
      BY <2>1 DEF Typed
    <2> QED BY <1>0, <1>12, <2>1, <2>2 DEF OpenMessage, Typed
  <1>13. ASSUME NEW p \in Poster, WriteMessage(p) PROVE Typed'
    BY <1>0, <1>13 DEF WriteMessage, Typed
  <1>14. ASSUME NEW p \in Poster, RenameMessage(p) PROVE Typed'
    BY <1>0, <1>14 DEF RenameMessage, Typed
  <1>15. ASSUME NEW p \in Setter, OpenSetting(p) PROVE Typed'
    <2>1. PICK t \in Settings : job' = [job EXCEPT ![p] = t] BY <1>15 DEF OpenSetting
    <2>2. job' = [q \in Process |-> job'[q]] /\ job'[p] = t /\ \A q \in Process \ {p} : job'[q] = job[q]
      BY <1>0, <2>1 DEF Typed
    <2>3. (\A q \in Poster : job'[q] \in Seq(Command)) /\ \A q \in Setter : job'[q] \in Int
      BY <1>0, <2>2 DEF Typed
    <2>4. /\ thermTmp' \in Ino /\ handle' = [handle EXCEPT ![p] = thermTmp']
          /\ content' = content \/ content' = [content EXCEPT ![thermTmp'] = NoFile]
      BY <1>0, <1>15, OpenedSetting DEF OpenSetting
    <2>5. /\ handle' \in [Process -> Ino \cup {NoFile}]
          /\ content' \in [Ino -> Poster \cup Int \cup {NoFile}]
      BY <2>4 DEF Typed
    <2> QED BY <1>0, <1>15, <2>2, <2>3, <2>4, <2>5 DEF OpenSetting, Typed
  <1>16. ASSUME NEW p \in Setter, WriteSetting(p) PROVE Typed'
    BY <1>0, <1>16 DEF WriteSetting, Typed
  <1>17. ASSUME NEW p \in Setter, RenameSetting(p) PROVE Typed'
    BY <1>0, <1>17 DEF RenameSetting, Typed
  <1>18. CASE Loop
    <2> DEFINE b == Head(line)
    <2>1. /\ line # <<>> /\ line' = Tail(line)
          /\ relay' = IF b \in {"+", "-"} THEN b = "+" ELSE relay
          /\ row' = CASE b \in {"<", "?"} -> 1 [] b = ">" -> 2 [] OTHER -> row
          /\ answers' = IF b = "?" THEN Append(answers, room) ELSE answers
          /\ shown' = [p \in Poster |-> IF b = p /\ row = 2 THEN shown[p] + 1 ELSE shown[p]]
      BY <1>18 DEF Loop
    <2> HIDE DEF b
    <2>2. line' \in Seq(Byte) BY <2>1 DEF Typed
    <2>3. relay' \in BOOLEAN BY <2>1 DEF Typed
    <2>4. row' \in {1, 2} BY <2>1 DEF Typed
    <2>5. answers' \in Seq(Int \cup {NoNumber})
      <3>1. room \in Int \cup {NoNumber} /\ answers \in Seq(Int \cup {NoNumber}) BY DEF Typed
      <3> QED BY <2>1, <3>1
    <2>6. shown' \in [Poster -> Nat] BY <2>1 DEF Typed
    <2> QED BY <1>18, <2>2, <2>3, <2>4, <2>5, <2>6 DEF Loop, Typed
  <1>19. CASE RoomChanges
    <2>1. scene.rooms \subseteq Int BY HeatingAssumption DEF Typed
    <2>2. room' \in Int BY <1>19, <2>1 DEF RoomChanges
    <2> QED BY <1>19, <2>2 DEF RoomChanges, Typed
  <1> QED BY <1>1, <1>2, <1>3, <1>4, <1>5, <1>6, <1>7, <1>8, <1>9, <1>10, <1>11, <1>12, <1>13,
             <1>14, <1>15, <1>16, <1>17, <1>18, <1>19 DEF Next, Daemon, Message, Therm

-----------------------------------------------------------------------------
(* Files *)

\* A step that refers to no other inodes than before and writes none.
LEMMA FileFrame ==
  ASSUME FileInv, UNCHANGED content, MsgIno' \subseteq MsgIno, ThermIno' \subseteq ThermIno
  PROVE  /\ MsgIno' \cap ThermIno' = {}
         /\ \A i \in MsgIno' : content'[i] \in Poster \cup {NoFile}
         /\ \A i \in ThermIno' : content'[i] \in Int \cup {NoFile}
  BY DEF FileInv

\* Messages and settings stay apart.
LEMMA FileStep == Typed /\ FileInv /\ [Next]_vars => FileInv'
  <1> SUFFICES ASSUME Typed, FileInv, [Next]_vars PROVE FileInv' OBVIOUS
  <1> USE DEF Goto, At, daemon, cgi, files
  <1>0. /\ NoFile \notin Ino /\ Poster \subseteq Process /\ Setter \subseteq Process
        /\ Poster \cap Setter = {} /\ 20 \in Int
        /\ stage \in [Process -> {"idle", "open", "write", "rename", "done"}]
        /\ handle \in [Process -> Ino \cup {NoFile}] /\ DOMAIN content = Ino
    BY HeatingAssumption DEF Ino, Process, Typed
  <1>1. CASE UNCHANGED <<content, lcdMessage, lcdTmp, thermFile, thermTmp, fd, handle, stage>>
    BY <1>1 DEF FileInv, MsgIno, ThermIno
  <1>2. CASE CheckMessages
    <2>1. /\ fd' = lcdMessage
          /\ UNCHANGED <<content, lcdMessage, lcdTmp, thermFile, thermTmp, handle, stage>>
      BY <1>2 DEF CheckMessages
    <2>2. MsgIno' \subseteq MsgIno /\ ThermIno' \subseteq ThermIno BY <2>1 DEF MsgIno, ThermIno
    <2> QED BY <2>1, <2>2, FileFrame DEF FileInv
  <1>3. CASE ShowMessage \/ Restart
    <2>1. /\ fd' = NoFile
          /\ UNCHANGED <<content, lcdMessage, lcdTmp, thermFile, thermTmp, handle, stage>>
      BY <1>3 DEF ShowMessage, Restart
    <2>2. MsgIno' \subseteq MsgIno /\ ThermIno' \subseteq ThermIno BY <1>0, <2>1 DEF MsgIno, ThermIno
    <2> QED BY <2>1, <2>2, FileFrame DEF FileInv
  <1>4. CASE RemoveMessage
    <2>1. /\ lcdMessage' = NoFile
          /\ UNCHANGED <<content, fd, lcdTmp, thermFile, thermTmp, handle, stage>>
      BY <1>4 DEF RemoveMessage
    <2>2. MsgIno' \subseteq MsgIno /\ ThermIno' \subseteq ThermIno BY <1>0, <2>1 DEF MsgIno, ThermIno
    <2> QED BY <2>1, <2>2, FileFrame DEF FileInv
  <1>5. CASE CreateThermostat
    <2>1. UNCHANGED <<lcdMessage, lcdTmp, thermTmp, fd, handle, stage>> BY <1>5 DEF CreateThermostat
    <2>2. /\ thermFile' \in Ino /\ content' = [content EXCEPT ![thermFile'] = 20]
          /\ \/ thermFile' = thermFile
             \/ /\ thermFile' \notin {fd, lcdMessage, lcdTmp, thermFile, thermTmp}
                /\ \A q \in Process : handle[q] # thermFile'
      BY <1>5, Created
    <2>3. MsgIno' = MsgIno /\ ThermIno' \subseteq ThermIno \cup {thermFile'}
      BY <2>1 DEF MsgIno, ThermIno
    <2>4. thermFile' \notin MsgIno
      <3>1. CASE thermFile' = thermFile BY <2>2, <3>1 DEF FileInv, ThermIno
      <3>2. CASE thermFile' # thermFile BY <1>0, <2>2, <3>2 DEF MsgIno
      <3> QED BY <3>1, <3>2
    <2>5. content'[thermFile'] = 20 /\ \A i \in Ino \ {thermFile'} : content'[i] = content[i]
      BY <1>0, <2>2
    <2>6. /\ \A i \in MsgIno' : content'[i] \in Poster \cup {NoFile}
          /\ \A i \in ThermIno' : content'[i] \in Int \cup {NoFile}
      BY <1>0, <2>3, <2>4, <2>5 DEF FileInv, MsgIno, ThermIno
    <2>7. MsgIno' \cap ThermIno' = {} BY <2>3, <2>4 DEF FileInv
    <2> QED BY <2>1, <2>6, <2>7 DEF FileInv
  <1>6. ASSUME NEW p \in Poster, PostMessage(p) PROVE FileInv'
    <2>1. /\ lcdMessage' = NoFile /\ stage[p] = "idle" /\ stage' = [stage EXCEPT ![p] = "open"]
          /\ UNCHANGED <<content, fd, lcdTmp, thermFile, thermTmp, handle>>
      BY <1>6 DEF PostMessage
    <2>2. MsgIno' \subseteq MsgIno /\ ThermIno' \subseteq ThermIno BY <1>0, <2>1 DEF MsgIno, ThermIno
    <2>3. \A q \in Process : handle'[q] # NoFile <=> stage'[q] = "write" BY <1>0, <2>1 DEF FileInv
    <2> QED BY <1>0, <2>1, <2>2, <2>3, FileFrame DEF FileInv
  <1>7. ASSUME NEW p \in Poster, OpenMessage(p) PROVE FileInv'
    <2>1. /\ stage' = [stage EXCEPT ![p] = "write"]
          /\ Opened(p, lcdTmp) /\ UNCHANGED <<lcdMessage, thermFile, thermTmp, fd>>
      BY <1>7 DEF OpenMessage
    <2>2. /\ lcdTmp' \in Ino /\ handle' = [handle EXCEPT ![p] = lcdTmp']
          /\ \/ lcdTmp # NoFile /\ lcdTmp' = lcdTmp /\ content' = content
             \/ /\ lcdTmp = NoFile /\ content' = [content EXCEPT ![lcdTmp'] = NoFile]
                /\ lcdTmp' \notin {fd, lcdMessage, lcdTmp, thermFile, thermTmp}
                /\ \A q \in Process : handle[q] # lcdTmp'
      BY <1>0, <2>1, OpenedMessage
    <2>3. handle'[p] = lcdTmp' /\ \A q \in Process \ {p} : handle'[q] = handle[q] BY <1>0, <2>2
    <2>4. MsgIno' \subseteq MsgIno \cup {lcdTmp'} /\ ThermIno' \subseteq ThermIno
      BY <1>0, <2>1, <2>2, <2>3 DEF MsgIno, ThermIno
    <2>5. \A q \in Process : handle'[q] # NoFile <=> stage'[q] = "write"
      BY <1>0, <2>1, <2>2, <2>3 DEF FileInv
    <2>6. lcdTmp' # lcdMessage' /\ lcdTmp' # fd' BY <2>1, <2>2 DEF FileInv
    <2>7. CASE lcdTmp # NoFile /\ lcdTmp' = lcdTmp /\ content' = content
      <3>1. MsgIno' \subseteq MsgIno BY <2>2, <2>4, <2>7 DEF MsgIno
      <3> QED BY <2>4, <2>5, <2>6, <2>7, <3>1, FileFrame DEF FileInv
    <2>8. CASE /\ lcdTmp = NoFile /\ content' = [content EXCEPT ![lcdTmp'] = NoFile]
               /\ lcdTmp' \notin {fd, lcdMessage, lcdTmp, thermFile, thermTmp}
               /\ \A q \in Process : handle[q] # lcdTmp'
      <3>1. lcdTmp' \notin ThermIno BY <1>0, <2>8 DEF ThermIno
      <3>2. content'[lcdTmp'] = NoFile /\ \A i \in Ino \ {lcdTmp'} : content'[i] = content[i]
        BY <1>0, <2>2, <2>8
      <3>3. /\ \A i \in MsgIno' : content'[i] \in Poster \cup {NoFile}
            /\ \A i \in ThermIno' : content'[i] \in Int \cup {NoFile}
        BY <1>0, <2>4, <3>1, <3>2 DEF FileInv, MsgIno, ThermIno
      <3>4. MsgIno' \cap ThermIno' = {} BY <2>4, <3>1 DEF FileInv
      <3> QED BY <2>5, <2>6, <3>3, <3>4 DEF FileInv
    <2> QED BY <2>2, <2>7, <2>8
  <1>8. ASSUME NEW p \in Poster, WriteMessage(p) PROVE FileInv'
    <2>1. /\ stage[p] = "write" /\ stage' = [stage EXCEPT ![p] = "rename"]
          /\ content' = [content EXCEPT ![handle[p]] = p]
          /\ handle' = [handle EXCEPT ![p] = NoFile]
          /\ UNCHANGED <<lcdMessage, lcdTmp, thermFile, thermTmp, fd>>
      BY <1>8 DEF WriteMessage
    <2>2. handle'[p] = NoFile /\ \A q \in Process \ {p} : handle'[q] = handle[q] BY <1>0, <2>1
    <2>3. handle[p] \in Ino /\ handle[p] \in MsgIno BY <1>0, <2>1 DEF FileInv, MsgIno
    <2>4. MsgIno' \subseteq MsgIno /\ ThermIno' \subseteq ThermIno
      BY <1>0, <2>1, <2>2 DEF MsgIno, ThermIno
    <2>5. content'[handle[p]] = p /\ \A i \in Ino \ {handle[p]} : content'[i] = content[i]
      BY <1>0, <2>1, <2>3
    <2>6. /\ \A i \in MsgIno' : content'[i] \in Poster \cup {NoFile}
          /\ \A i \in ThermIno' : content'[i] \in Int \cup {NoFile}
      BY <1>0, <2>3, <2>4, <2>5 DEF FileInv, MsgIno, ThermIno
    <2>7. \A q \in Process : handle'[q] # NoFile <=> stage'[q] = "write"
      BY <1>0, <2>1, <2>2 DEF FileInv
    <2>8. MsgIno' \cap ThermIno' = {} BY <2>4 DEF FileInv
    <2> QED BY <2>1, <2>6, <2>7, <2>8 DEF FileInv
  <1>9. ASSUME NEW p \in Poster, RenameMessage(p) PROVE FileInv'
    <2>1. /\ stage[p] = "rename" /\ stage' = [stage EXCEPT ![p] = "done"]
          /\ lcdMessage' = (IF lcdTmp = NoFile THEN lcdMessage ELSE lcdTmp) /\ lcdTmp' = NoFile
          /\ UNCHANGED <<content, thermFile, thermTmp, fd, handle>>
      BY <1>9 DEF RenameMessage
    <2>2. MsgIno' \subseteq MsgIno /\ ThermIno' \subseteq ThermIno
      BY <1>0, <2>1 DEF MsgIno, ThermIno
    <2>3. \A q \in Process : handle'[q] # NoFile <=> stage'[q] = "write" BY <1>0, <2>1 DEF FileInv
    <2> QED BY <2>1, <2>2, <2>3, FileFrame DEF FileInv
  <1>10. ASSUME NEW p \in Setter, OpenSetting(p) PROVE FileInv'
    <2>1. /\ stage' = [stage EXCEPT ![p] = "write"]
          /\ Opened(p, thermTmp) /\ UNCHANGED <<lcdMessage, lcdTmp, thermFile, fd>>
      BY <1>10 DEF OpenSetting
    <2>2. /\ thermTmp' \in Ino /\ handle' = [handle EXCEPT ![p] = thermTmp']
          /\ \/ thermTmp # NoFile /\ thermTmp' = thermTmp /\ content' = content
             \/ /\ thermTmp = NoFile /\ content' = [content EXCEPT ![thermTmp'] = NoFile]
                /\ thermTmp' \notin {fd, lcdMessage, lcdTmp, thermFile, thermTmp}
                /\ \A q \in Process : handle[q] # thermTmp'
      BY <1>0, <2>1, OpenedSetting
    <2>3. handle'[p] = thermTmp' /\ \A q \in Process \ {p} : handle'[q] = handle[q] BY <1>0, <2>2
    <2>4. MsgIno' \subseteq MsgIno /\ ThermIno' \subseteq ThermIno \cup {thermTmp'}
      BY <1>0, <2>1, <2>2, <2>3 DEF MsgIno, ThermIno
    <2>5. \A q \in Process : handle'[q] # NoFile <=> stage'[q] = "write"
      BY <1>0, <2>1, <2>2, <2>3 DEF FileInv
    <2>6. lcdTmp' # NoFile => lcdTmp' # lcdMessage' /\ lcdTmp' # fd' BY <2>1 DEF FileInv
    <2>7. CASE thermTmp # NoFile /\ thermTmp' = thermTmp /\ content' = content
      <3>1. ThermIno' \subseteq ThermIno BY <2>2, <2>4, <2>7 DEF ThermIno
      <3> QED BY <2>4, <2>5, <2>6, <2>7, <3>1, FileFrame DEF FileInv
    <2>8. CASE /\ thermTmp = NoFile /\ content' = [content EXCEPT ![thermTmp'] = NoFile]
               /\ thermTmp' \notin {fd, lcdMessage, lcdTmp, thermFile, thermTmp}
               /\ \A q \in Process : handle[q] # thermTmp'
      <3>1. thermTmp' \notin MsgIno BY <1>0, <2>8 DEF MsgIno
      <3>2. content'[thermTmp'] = NoFile /\ \A i \in Ino \ {thermTmp'} : content'[i] = content[i]
        BY <1>0, <2>2, <2>8
      <3>3. /\ \A i \in MsgIno' : content'[i] \in Poster \cup {NoFile}
            /\ \A i \in ThermIno' : content'[i] \in Int \cup {NoFile}
        BY <1>0, <2>4, <3>1, <3>2 DEF FileInv, MsgIno, ThermIno
      <3>4. MsgIno' \cap ThermIno' = {} BY <2>4, <3>1 DEF FileInv
      <3> QED BY <2>5, <2>6, <3>3, <3>4 DEF FileInv
    <2> QED BY <2>2, <2>7, <2>8
  <1>11. ASSUME NEW p \in Setter, WriteSetting(p) PROVE FileInv'
    <2>1. /\ stage[p] = "write" /\ stage' = [stage EXCEPT ![p] = "rename"]
          /\ content' = [content EXCEPT ![handle[p]] = job[p]]
          /\ handle' = [handle EXCEPT ![p] = NoFile]
          /\ UNCHANGED <<lcdMessage, lcdTmp, thermFile, thermTmp, fd>>
      BY <1>11 DEF WriteSetting
    <2>2. handle'[p] = NoFile /\ \A q \in Process \ {p} : handle'[q] = handle[q] BY <1>0, <2>1
    <2>3. handle[p] \in Ino /\ handle[p] \in ThermIno /\ job[p] \in Int
      BY <1>0, <2>1 DEF FileInv, ThermIno, Typed
    <2>4. MsgIno' \subseteq MsgIno /\ ThermIno' \subseteq ThermIno
      BY <1>0, <2>1, <2>2 DEF MsgIno, ThermIno
    <2>5. content'[handle[p]] = job[p] /\ \A i \in Ino \ {handle[p]} : content'[i] = content[i]
      BY <1>0, <2>1, <2>3
    <2>6. /\ \A i \in MsgIno' : content'[i] \in Poster \cup {NoFile}
          /\ \A i \in ThermIno' : content'[i] \in Int \cup {NoFile}
      BY <1>0, <2>3, <2>4, <2>5 DEF FileInv, MsgIno, ThermIno
    <2>7. \A q \in Process : handle'[q] # NoFile <=> stage'[q] = "write"
      BY <1>0, <2>1, <2>2 DEF FileInv
    <2>8. MsgIno' \cap ThermIno' = {} BY <2>4 DEF FileInv
    <2> QED BY <2>1, <2>6, <2>7, <2>8 DEF FileInv
  <1>12. ASSUME NEW p \in Setter, RenameSetting(p) PROVE FileInv'
    <2>1. /\ stage[p] = "rename" /\ stage' = [stage EXCEPT ![p] = "done"]
          /\ thermFile' = (IF thermTmp = NoFile THEN thermFile ELSE thermTmp) /\ thermTmp' = NoFile
          /\ UNCHANGED <<content, lcdMessage, lcdTmp, fd, handle>>
      BY <1>12 DEF RenameSetting
    <2>2. MsgIno' \subseteq MsgIno /\ ThermIno' \subseteq ThermIno
      BY <1>0, <2>1 DEF MsgIno, ThermIno
    <2>3. \A q \in Process : handle'[q] # NoFile <=> stage'[q] = "write" BY <1>0, <2>1 DEF FileInv
    <2> QED BY <2>1, <2>2, <2>3, FileFrame DEF FileInv
  <1>13. CASE \/ AskTemperature \/ GetTemperature \/ GetThermostat \/ UpdateRelay
              \/ Loop \/ RoomChanges \/ UNCHANGED vars
    <2>1. UNCHANGED <<content, lcdMessage, lcdTmp, thermFile, thermTmp, fd, handle, stage>>
      BY <1>13 DEF AskTemperature, GetTemperature, GetThermostat, UpdateRelay, Loop, RoomChanges, vars
    <2> QED BY <1>1, <2>1
  <1> QED BY <1>2, <1>3, <1>4, <1>5, <1>6, <1>7, <1>8, <1>9, <1>10, <1>11, <1>12, <1>13
          DEF Next, Daemon, Message, Therm

-----------------------------------------------------------------------------
(* Messages are written once *)

\* Every step keeps it so.
LEMMA OnceStep == Typed /\ FileInv /\ OnceInv /\ [Next]_vars => OnceInv'
  <1> SUFFICES ASSUME Typed, FileInv, OnceInv, [Next]_vars PROVE OnceInv' OBVIOUS
  <1> USE DEF Goto, At, daemon, cgi, files
  <1>0. /\ NoFile \notin Poster /\ Poster \subseteq Process /\ Setter \subseteq Process
        /\ Poster \cap Setter = {} /\ \A q \in Poster : q \notin Int
        /\ stage \in [Process -> {"idle", "open", "write", "rename", "done"}]
        /\ handle \in [Process -> Ino \cup {NoFile}] /\ DOMAIN content = Ino
    BY HeatingAssumption DEF Process, Typed
  \* Nothing is written but what is no message, and nobody goes back.
  <1>1. ASSUME \A i \in Ino : content'[i] \in Poster => content[i] = content'[i],
               \A q \in Poster : stage[q] \in {"rename", "done"} => stage'[q] \in {"rename", "done"}
        PROVE  OnceInv'
    BY <1>1 DEF OnceInv
  <1>2. CASE CreateThermostat
    <2>1. thermFile' \in Ino /\ content' = [content EXCEPT ![thermFile'] = 20] /\ UNCHANGED stage
      BY <1>2, Created DEF CreateThermostat
    <2>2. 20 \notin Poster BY <1>0
    <2> QED BY <1>0, <1>1, <2>1, <2>2
  <1>3. ASSUME NEW p \in Poster, PostMessage(p) PROVE OnceInv'
    <2>1. stage[p] = "idle" /\ stage' = [stage EXCEPT ![p] = "open"] /\ UNCHANGED content
      BY <1>3 DEF PostMessage
    <2> QED BY <1>0, <1>1, <2>1
  <1>4. ASSUME NEW p \in Poster, OpenMessage(p) PROVE OnceInv'
    <2>1. stage[p] = "open" /\ stage' = [stage EXCEPT ![p] = "write"] /\ Opened(p, lcdTmp)
      BY <1>4 DEF OpenMessage
    <2>2. lcdTmp' \in Ino /\ (content' = content \/ content' = [content EXCEPT ![lcdTmp'] = NoFile])
      BY <1>0, <2>1, OpenedMessage
    <2> QED BY <1>0, <1>1, <2>1, <2>2
  <1>5. ASSUME NEW p \in Poster, WriteMessage(p) PROVE OnceInv'
    <2>1. /\ stage[p] = "write" /\ stage' = [stage EXCEPT ![p] = "rename"]
          /\ content' = [content EXCEPT ![handle[p]] = p]
      BY <1>5 DEF WriteMessage
    <2>2. handle[p] \in Ino BY <1>0, <2>1 DEF FileInv
    <2>3. content'[handle[p]] = p /\ \A i \in Ino \ {handle[p]} : content'[i] = content[i]
      BY <1>0, <2>1, <2>2
    <2>4. \A i \in Ino : content[i] # p BY <2>1 DEF OnceInv
    <2>5. stage'[p] = "rename" /\ \A q \in Poster \ {p} : stage'[q] = stage[q] BY <1>0, <2>1
    <2>6. ASSUME NEW i \in Ino, content'[i] \in Poster PROVE stage'[content'[i]] \in {"rename", "done"}
      BY <2>3, <2>5, <2>6 DEF OnceInv
    <2>7. ASSUME NEW i \in Ino, NEW j \in Ino, content'[i] \in Poster, content'[i] = content'[j]
          PROVE  i = j
      BY <2>3, <2>4, <2>7 DEF OnceInv
    <2> QED BY <2>6, <2>7 DEF OnceInv
  <1>6. ASSUME NEW p \in Poster, RenameMessage(p) PROVE OnceInv'
    <2>1. stage' = [stage EXCEPT ![p] = "done"] /\ UNCHANGED content BY <1>6 DEF RenameMessage
    <2> QED BY <1>0, <1>1, <2>1
  <1>7. ASSUME NEW p \in Setter, OpenSetting(p) PROVE OnceInv'
    <2>1. stage' = [stage EXCEPT ![p] = "write"] /\ Opened(p, thermTmp) BY <1>7 DEF OpenSetting
    <2>2. thermTmp' \in Ino /\ (content' = content \/ content' = [content EXCEPT ![thermTmp'] = NoFile])
      BY <1>0, <2>1, OpenedSetting
    <2>3. \A q \in Poster : stage'[q] = stage[q] BY <1>0, <2>1
    <2> QED BY <1>0, <1>1, <2>2, <2>3
  <1>8. ASSUME NEW p \in Setter, WriteSetting(p) PROVE OnceInv'
    <2>1. stage' = [stage EXCEPT ![p] = "rename"] /\ content' = [content EXCEPT ![handle[p]] = job[p]]
      BY <1>8 DEF WriteSetting
    <2>2. job[p] \notin Poster BY <1>0 DEF Typed
    <2>3. \A q \in Poster : stage'[q] = stage[q] BY <1>0, <2>1
    <2> QED BY <1>0, <1>1, <2>1, <2>2, <2>3
  <1>9. ASSUME NEW p \in Setter, RenameSetting(p) PROVE OnceInv'
    <2>1. stage' = [stage EXCEPT ![p] = "done"] /\ UNCHANGED content BY <1>9 DEF RenameSetting
    <2> QED BY <1>0, <1>1, <2>1
  <1>10. CASE \/ CheckMessages \/ ShowMessage \/ RemoveMessage \/ Restart
              \/ AskTemperature \/ GetTemperature \/ GetThermostat \/ UpdateRelay
              \/ Loop \/ RoomChanges \/ UNCHANGED vars
    <2>1. UNCHANGED <<content, stage>>
      BY <1>10 DEF CheckMessages, ShowMessage, RemoveMessage, Restart, AskTemperature, GetTemperature,
                   GetThermostat, UpdateRelay, Loop, RoomChanges, vars
    <2> QED BY <1>1, <2>1
  <1> QED BY <1>2, <1>3, <1>4, <1>5, <1>6, <1>7, <1>8, <1>9, <1>10
          DEF Next, Daemon, Message, Therm

-----------------------------------------------------------------------------
(* The relay *)

\* Text without a relay command does not change what the relay will be.
LEMMA RelayText ==
  ASSUME line \in Seq(Byte), NEW t \in Seq(Byte), ~Taints(t), line' = line \o t,
         UNCHANGED <<relay, last>>, RelayIsState
  PROVE  RelayIsState'
  <1>1. /\ Len(line') = Len(line) + Len(t) /\ line' \in Seq(Byte)
        /\ Len(line) \in Nat /\ Len(t) \in Nat
        /\ \A k \in 1 .. Len(line) : line'[k] = line[k]
        /\ \A k \in Len(line) + 1 .. Len(line) + Len(t) : line'[k] = t[k - Len(line)]
    OBVIOUS
  <1>2. \A k \in 1 .. Len(t) : t[k] \notin {"+", "-"} BY DEF Taints
  <1>3. \A k \in Len(line) + 1 .. Len(line) + Len(t) : line'[k] \notin {"+", "-"} BY <1>1, <1>2
  <1>4. DOMAIN line' = 1 .. Len(line) + Len(t) /\ DOMAIN line = 1 .. Len(line) BY <1>1
  <1>5. Commands' = Commands BY <1>1, <1>3, <1>4 DEF Commands
  <1>6. \A k \in Commands : line'[k] = line[k] BY <1>1, <1>4 DEF Commands
  <1> QED BY <1>5, <1>6 DEF RelayIsState

\* After a relay command the relay will be what the command says.
LEMMA RelayOrder ==
  ASSUME line \in Seq(Byte), NEW c \in {"+", "-"}, c \in Byte, NEW t \in Seq(Byte), ~Taints(t),
         line' = (line \o <<c>>) \o t, c = "+" <=> last'
  PROVE  RelayIsState'
  <1> DEFINE n == Len(line) + 1
             l == line \o <<c>>
  <1>1. l \in Seq(Byte) /\ Len(l) = n /\ l[n] = c /\ n \in Nat \ {0} /\ Len(t) \in Nat OBVIOUS
  <1> HIDE DEF n, l
  <1>2. line' = l \o t BY DEF l
  <1>3. /\ Len(line') = n + Len(t) /\ line' \in Seq(Byte) /\ line'[n] = c
        /\ \A k \in n + 1 .. n + Len(t) : line'[k] = t[k - n]
    <2>1. Len(l \o t) = n + Len(t) /\ l \o t \in Seq(Byte) BY <1>1, ConcatProperties
    <2>2. \A k \in 1 .. Len(l) + Len(t) : (l \o t)[k] = IF k <= Len(l) THEN l[k] ELSE t[k - Len(l)]
      BY <1>1
    <2>3. (l \o t)[n] = c BY <1>1, <2>2
    <2>4. \A k \in n + 1 .. n + Len(t) : (l \o t)[k] = t[k - n] BY <1>1, <2>2
    <2> QED BY <1>2, <2>1, <2>3, <2>4
  <1>4. \A k \in 1 .. Len(t) : t[k] \notin {"+", "-"} BY DEF Taints
  <1>5. \A k \in n + 1 .. n + Len(t) : line'[k] \notin {"+", "-"} BY <1>1, <1>3, <1>4
  <1>6. DOMAIN line' = 1 .. n + Len(t) BY <1>3
  <1>7. n \in Commands' BY <1>1, <1>3, <1>6 DEF Commands
  <1>8. ASSUME NEW k \in Commands', \A j \in Commands' : j <= k PROVE line'[k] = "+" <=> last'
    <2>1. k \in 1 .. n + Len(t) /\ n <= k /\ line'[k] \in {"+", "-"}
      BY <1>6, <1>7, <1>8 DEF Commands
    <2>2. k = n
      <3>1. k \notin n + 1 .. n + Len(t) BY <1>5, <2>1
      <3> QED BY <1>1, <2>1, <3>1
    <2> QED BY <1>3, <2>2
  <1> QED BY <1>7, <1>8 DEF RelayIsState

\* A byte arrives.
LEMMA RelayByte ==
  ASSUME line \in Seq(Byte), line # <<>>, line' = Tail(line), UNCHANGED last,
         relay' = IF Head(line) \in {"+", "-"} THEN Head(line) = "+" ELSE relay,
         RelayIsState
  PROVE  RelayIsState'
  <1>1. /\ Len(line) \in Nat /\ Len(line) > 0 /\ Len(line') = Len(line) - 1 /\ line' \in Seq(Byte)
        /\ \A k \in 1 .. Len(line) - 1 : line'[k] = line[k + 1]
        /\ Head(line) = line[1]
    OBVIOUS
  <1>2. DOMAIN line' = 1 .. Len(line) - 1 /\ DOMAIN line = 1 .. Len(line) BY <1>1
  <1>3. \A k \in Commands' : k \in Nat /\ k + 1 \in Commands /\ line'[k] = line[k + 1]
    BY <1>1, <1>2 DEF Commands
  <1>4. \A k \in Commands : k \in Nat /\ (k # 1 => k - 1 \in Commands')
    <2>1. ASSUME NEW k \in Commands, k # 1 PROVE k - 1 \in Commands'
      <3>1. k - 1 \in 1 .. Len(line) - 1 /\ (k - 1) + 1 = k BY <1>1, <1>2, <2>1 DEF Commands
      <3> QED BY <1>1, <1>2, <3>1 DEF Commands
    <2> QED BY <1>1, <1>2, <2>1 DEF Commands
  <1>5. CASE Commands' = {}
    <2>1. \A k \in Commands : k = 1 BY <1>4, <1>5
    <2>2. CASE Head(line) \in {"+", "-"}
      <3>1. Commands = {1} BY <1>1, <1>2, <2>1, <2>2 DEF Commands
      <3>2. line[1] = "+" <=> last BY <3>1 DEF RelayIsState
      <3> QED BY <1>1, <1>5, <2>2, <3>2 DEF RelayIsState
    <2>3. CASE Head(line) \notin {"+", "-"}
      <3>1. Commands = {} BY <1>1, <2>1, <2>3 DEF Commands
      <3> QED BY <1>5, <2>3, <3>1 DEF RelayIsState
    <2> QED BY <2>2, <2>3
  <1>6. CASE Commands' # {}
    <2>1. ASSUME NEW k \in Commands', \A j \in Commands' : j <= k PROVE line'[k] = "+" <=> last'
      <3>1. k + 1 \in Commands /\ k \in Nat /\ line'[k] = line[k + 1] BY <1>3
      <3>2. ASSUME NEW j \in Commands PROVE j <= k + 1
        <4>1. CASE j = 1 BY <3>1, <4>1
        <4>2. CASE j # 1
          <5>1. j - 1 <= k /\ j \in Nat BY <1>4, <2>1, <4>2
          <5> QED BY <3>1, <5>1
        <4> QED BY <4>1, <4>2
      <3>3. line[k + 1] = "+" <=> last BY <3>1, <3>2 DEF RelayIsState
      <3> QED BY <3>1, <3>3
    <2> QED BY <1>6, <2>1 DEF RelayIsState
  <1> QED BY <1>5, <1>6

\* g_last_state stays the state of the relay.
LEMMA RelayStep == Typed /\ FileInv /\ RelayFollows /\ [Next]_vars => RelayFollows'
  <1> SUFFICES ASSUME Typed, FileInv, RelayFollows, [Next]_vars, ~tainted' PROVE RelayIsState'
    BY DEF RelayFollows
  <1> USE DEF Goto, At, daemon, cgi, files, arduino, limits
  <1>0. line \in Seq(Byte) BY DEF Typed
  <1>1. CASE UNCHANGED <<line, relay, last, tainted>>
    BY <1>1 DEF RelayFollows, RelayIsState, Commands
  <1>2. CASE ShowMessage
    <2>1. /\ pc = "read" /\ line' = (line \o <<">">>) \o MessageText
          /\ tainted' = (tainted \/ Taints(MessageText)) /\ UNCHANGED <<relay, last>>
      BY <1>2 DEF ShowMessage
    <2>2. MessageText \in Seq(Byte) /\ ~Taints(MessageText) BY <2>1, MessageBytes
    <2>3. RelayIsState BY <2>1 DEF RelayFollows
    <2> DEFINE t == <<">">> \o MessageText
    <2>4. ">" \in Byte BY DEF Byte, Command
    <2>5. t \in Seq(Byte) /\ Len(t) = Len(MessageText) + 1 /\ t[1] = ">"
          /\ \A k \in 2 .. Len(t) : t[k] = MessageText[k - 1]
      BY <2>2, <2>4
    <2>6. line' = line \o t BY <1>0, <2>1, <2>2, <2>4
    <2> HIDE DEF t
    <2>7. ~Taints(t)
      <3>1. \A k \in 1 .. Len(MessageText) : MessageText[k] \notin {"+", "-"} BY <2>2 DEF Taints
      <3>2. ASSUME NEW k \in 1 .. Len(t) PROVE t[k] \notin {"+", "-"}
        <4>1. CASE k = 1 BY <2>5, <4>1
        <4>2. CASE k # 1
          <5>1. k \in 2 .. Len(t) /\ k - 1 \in 1 .. Len(MessageText) BY <2>2, <2>5, <4>2
          <5> QED BY <2>5, <3>1, <5>1
        <4> QED BY <4>1, <4>2
      <3> QED BY <2>5, <3>2 DEF Taints
    <2> QED BY <1>0, <2>1, <2>3, <2>5, <2>6, <2>7, RelayText
  <1>3. CASE AskTemperature
    <2>1. line' = Append(line, "?") /\ UNCHANGED <<relay, last, tainted>> BY <1>3 DEF AskTemperature
    <2>2. line' = line \o <<"?">> BY <1>0, <2>1
    <2>3. <<"?">> \in Seq(Byte) /\ ~Taints(<<"?">>) BY DEF Byte, Command, Taints
    <2> QED BY <1>0, <2>1, <2>2, <2>3, RelayText DEF RelayFollows
  <1>4. CASE UpdateRelay
    <2>1. /\ last' = NewState /\ line' = (line \o RelayCommand) \o DisplayText
          /\ tainted' = (tainted \/ Taints(DisplayText)) /\ UNCHANGED relay
      BY <1>4 DEF UpdateRelay
    <2>2. DisplayText \in Seq(Byte) /\ ~Taints(DisplayText) BY <2>1, Texts
    <2>3. RelayIsState BY <2>1 DEF RelayFollows
    <2>4. CASE NewState = last
      <3>1. RelayCommand = <<>> BY <2>4 DEF RelayCommand
      <3>2. line \o <<>> = line BY <1>0
      <3>3. line' = line \o DisplayText BY <2>1, <3>1, <3>2
      <3> QED BY <1>0, <2>1, <2>2, <2>3, <2>4, <3>3, RelayText
    <2>5. CASE NewState # last /\ NewState
      <3>1. RelayCommand = <<"+">> BY <2>5 DEF RelayCommand
      <3>2. "+" \in Byte BY DEF Byte, Command
      <3>3. line' = (line \o <<"+">>) \o DisplayText /\ last' BY <2>1, <2>5, <3>1
      <3> QED BY <1>0, <2>2, <3>2, <3>3, RelayOrder
    <2>6. CASE NewState # last /\ ~NewState
      <3>1. RelayCommand = <<"-">> BY <2>6 DEF RelayCommand
      <3>2. "-" \in Byte BY DEF Byte, Command
      <3>3. line' = (line \o <<"-">>) \o DisplayText /\ ~last' BY <2>1, <2>6, <3>1
      <3> QED BY <1>0, <2>2, <3>2, <3>3, RelayOrder
    <2> QED BY <2>4, <2>5, <2>6
  <1>5. CASE Restart
    <2>1. ~last' /\ tainted' = (tainted \/ last) /\ UNCHANGED <<line, relay>> BY <1>5 DEF Restart
    <2>2. ~last /\ RelayIsState BY <2>1 DEF RelayFollows
    <2> QED BY <2>1, <2>2 DEF RelayIsState, Commands
  <1>6. CASE Loop
    <2>1. /\ line # <<>> /\ line' = Tail(line) /\ UNCHANGED <<last, tainted>>
          /\ relay' = IF Head(line) \in {"+", "-"} THEN Head(line) = "+" ELSE relay
      BY <1>6 DEF Loop
    <2> QED BY <1>0, <2>1, RelayByte DEF RelayFollows
  <1>7. CASE \/ CheckMessages \/ RemoveMessage \/ GetTemperature \/ GetThermostat \/ CreateThermostat
             \/ RoomChanges \/ UNCHANGED vars
    <2>1. UNCHANGED <<line, relay, last, tainted>>
      BY <1>7 DEF CheckMessages, RemoveMessage, GetTemperature, GetThermostat, CreateThermostat,
                  RoomChanges, vars
    <2> QED BY <1>1, <2>1
  <1>8. ASSUME NEW p \in Poster, Message(p) PROVE RelayIsState'
    <2>1. UNCHANGED <<line, relay, last, tainted>>
      BY <1>8 DEF Message, PostMessage, OpenMessage, WriteMessage, RenameMessage
    <2> QED BY <1>1, <2>1
  <1>9. ASSUME NEW p \in Setter, Therm(p) PROVE RelayIsState'
    <2>1. UNCHANGED <<line, relay, last, tainted>>
      BY <1>9 DEF Therm, OpenSetting, WriteSetting, RenameSetting
    <2> QED BY <1>1, <2>1
  <1> QED BY <1>2, <1>3, <1>4, <1>5, <1>6, <1>7, <1>8, <1>9 DEF Next, Daemon

-----------------------------------------------------------------------------
(* The hysteresis *)

\* The actions that leave the decision alone.
LEMMA Undecided ==
  ASSUME [Next]_vars PROVE UpdateRelay \/ Restart \/ UNCHANGED <<last, switched>>
  <1> USE DEF daemon
  <1>1. CASE \/ CheckMessages \/ ShowMessage \/ RemoveMessage \/ AskTemperature \/ GetTemperature
             \/ GetThermostat \/ CreateThermostat \/ Loop \/ RoomChanges \/ UNCHANGED vars
    BY <1>1 DEF CheckMessages, ShowMessage, RemoveMessage, AskTemperature, GetTemperature,
                GetThermostat, CreateThermostat, Loop, RoomChanges, vars
  <1>2. ASSUME NEW p \in Poster, Message(p) PROVE UNCHANGED <<last, switched>>
    BY <1>2 DEF Message, PostMessage, OpenMessage, WriteMessage, RenameMessage
  <1>3. ASSUME NEW p \in Setter, Therm(p) PROVE UNCHANGED <<last, switched>>
    BY <1>3 DEF Therm, OpenSetting, WriteSetting, RenameSetting
  <1> QED BY <1>1, <1>2, <1>3 DEF Next, Daemon

\* update_relay switches only beyond the hysteresis.
LEMMA SwitchStep == Typed /\ SwitchInv /\ [Next]_vars => SwitchInv'
  <1> SUFFICES ASSUME Typed, SwitchInv, [Next]_vars PROVE SwitchInv' OBVIOUS
  <1>1. CASE UpdateRelay
    <2>1. last' = NewState /\ switched' = IF NewState # last THEN <<now, target>> ELSE switched
      BY <1>1 DEF UpdateRelay
    <2>2. now \in Int /\ target \in Int /\ last \in BOOLEAN BY DEF Typed
    <2>3. CASE NewState = last BY <2>1, <2>3 DEF SwitchInv
    <2>4. CASE NewState # last /\ last
      <3>1. now > target + 1 /\ ~NewState BY <2>2, <2>4 DEF NewState
      <3>2. switched' = <<now, target>> /\ ~last' BY <2>1, <2>4, <3>1
      <3> QED BY <2>2, <3>1, <3>2 DEF SwitchInv
    <2>5. CASE NewState # last /\ ~last
      <3>1. now < target - 1 /\ NewState BY <2>2, <2>5 DEF NewState
      <3>2. switched' = <<now, target>> /\ last' BY <2>1, <2>5, <3>1
      <3> QED BY <2>2, <3>1, <3>2 DEF SwitchInv
    <2> QED BY <2>3, <2>4, <2>5
  <1>2. CASE Restart BY <1>2 DEF Restart, SwitchInv
  <1>3. CASE UNCHANGED <<last, switched>> BY <1>3 DEF SwitchInv
  <1> QED BY <1>1, <1>2, <1>3, Undecided

\* The step that NoChatter allows.
NoChatterStep ==
  last' # last /\ switched # <<>> /\ restarts' = restarts =>
    \/ switched[2] # target
    \/ now - switched[1] > 2
    \/ switched[1] - now > 2

\* Between two switches under one setting the reading has crossed the hysteresis.
LEMMA NoChatterKept == Typed /\ SwitchInv /\ [Next]_vars => NoChatterStep
  <1> SUFFICES ASSUME Typed, SwitchInv, [Next]_vars, last' # last, switched # <<>>,
                      restarts' = restarts, switched[2] = target
               PROVE  now - switched[1] > 2 \/ switched[1] - now > 2
    BY DEF NoChatterStep
  <1>1. UpdateRelay
    <2>1. CASE Restart BY <2>1 DEF Restart, Typed
    <2> QED BY <2>1, Undecided
  <1>2. last' = NewState /\ now \in Int /\ target \in Int /\ last \in BOOLEAN
    BY <1>1 DEF UpdateRelay, Typed
  <1>3. switched[1] \in Int /\ switched[2] \in Int BY DEF SwitchInv
  <1>4. CASE last
    <2>1. switched[1] < target - 1 BY <1>4 DEF SwitchInv
    <2>2. now > target + 1 BY <1>2, <1>4 DEF NewState
    <2> QED BY <1>2, <1>3, <2>1, <2>2
  <1>5. CASE ~last
    <2>1. switched[1] > target + 1 BY <1>5 DEF SwitchInv
    <2>2. now < target - 1 BY <1>2, <1>5 DEF NewState
    <2> QED BY <1>2, <1>3, <2>1, <2>2
  <1> QED BY <1>4, <1>5

-----------------------------------------------------------------------------
(* Messages are shown once *)

\* A step that shows nothing, puts no message on the line and keeps none for
\* later that could not be shown before.
LEMMA ShowFrame ==
  ASSUME Typed, ShowInv, UNCHANGED <<shown, restarts>>, line' \in Seq(Byte),
         \A p \in Poster : Count(line', p) <= Count(line, p) /\ (MayShow(p)' => MayShow(p))
  PROVE  ShowInv'
  <1>1. ASSUME NEW p \in Poster
        PROVE  shown'[p] + Count(line', p) + (IF MayShow(p)' THEN 1 ELSE 0) <= 1 + restarts'
    <2>1. shown[p] \in Nat /\ restarts \in Nat BY DEF Typed
    <2>2. Count(line, p) \in Nat /\ Count(line', p) \in Nat BY CountFinite DEF Typed
    <2>3. shown[p] + Count(line, p) + (IF MayShow(p) THEN 1 ELSE 0) <= 1 + restarts BY DEF ShowInv
    <2>4. Count(line', p) <= Count(line, p) /\ (MayShow(p)' => MayShow(p)) OBVIOUS
    <2>5. CASE MayShow(p) BY <2>1, <2>2, <2>3, <2>4, <2>5
    <2>6. CASE ~MayShow(p) BY <2>1, <2>2, <2>3, <2>4, <2>6
    <2> QED BY <2>5, <2>6
  <1> QED BY <1>1 DEF ShowInv

\* Text without a message.
LEMMA CountText ==
  ASSUME line \in Seq(Byte), NEW t \in Seq(Command \cup {"text"}), NEW p \in Poster
  PROVE  Count(line \o t, p) = Count(line, p)
  <1>1. p \notin Command \cup {"text"} BY HeatingAssumption
  <1>2. \A k \in 1 .. Len(t) : t[k] # p BY <1>1
  <1>3. Count(t, p) = 0 BY <1>2, CountNone
  <1>4. t \in Seq(Byte)
    <2>1. Command \cup {"text"} \subseteq Byte BY DEF Byte
    <2> QED BY <2>1, SeqGrows
  <1>5. Count(line \o t, p) = Count(line, p) + Count(t, p) BY <1>4, CountConcat
  <1>6. Count(line, p) \in Nat BY CountFinite
  <1> QED BY <1>3, <1>5, <1>6

\* What ShowMessage puts on the line.
LEMMA CountMessage ==
  ASSUME Typed, FileInv, pc = "read", NEW p \in Poster
  PROVE  Count((line \o <<">">>) \o MessageText, p)
           = Count(line, p) + (IF content[fd] = p THEN 1 ELSE 0)
  <1>0. line \in Seq(Byte) /\ NoFile \notin Poster /\ <<">">> \in Seq(Command \cup {"text"})
        /\ <<">">> \in Seq(Byte)
    BY HeatingAssumption DEF Typed, Command, Byte
  <1>1. line \o <<">">> \in Seq(Byte) BY <1>0, ConcatProperties
  <1>2. Count(line \o <<">">>, p) = Count(line, p) BY <1>0, CountText
  <1>3. MessageText \in Seq(Byte) BY MessageBytes
  <1>4. Count((line \o <<">">>) \o MessageText, p) = Count(line \o <<">">>, p) + Count(MessageText, p)
    BY <1>1, <1>3, CountConcat
  <1>5. Count(MessageText, p) = IF content[fd] = p THEN 1 ELSE 0
    <2>1. CASE content[fd] = NoFile
      <3>1. MessageText = <<>> BY <2>1, MessageBytes
      <3>2. \A k \in 1 .. Len(MessageText) : MessageText[k] # p
        <4>1. 1 .. Len(<<>>) = {} OBVIOUS
        <4> QED BY <3>1, <4>1
      <3>3. Count(MessageText, p) = 0 BY <1>3, <3>2, CountNone
      <3> QED BY <1>0, <2>1, <3>3
    <2>2. CASE content[fd] # NoFile
      <3> DEFINE q == content[fd]
                 codes == job[content[fd]]
      <3>1. MessageText = <<q>> \o codes /\ codes \in Seq(Command) /\ q \in Poster
        BY <2>2, MessageBytes
      <3> HIDE DEF q, codes
      <3>2. \A k \in 1 .. Len(codes) : codes[k] # p
        <4>1. p \notin Command BY HeatingAssumption
        <4> QED BY <3>1, <4>1
      <3>3. Count(codes, p) = 0 BY <3>1, <3>2, CountNone
      <3>4. codes \in Seq(Byte) /\ <<q>> \in Seq(Byte)
        <4>1. Command \subseteq Byte /\ q \in Byte BY <3>1 DEF Byte
        <4> QED BY <3>1, <4>1, SeqGrows
      <3>5. Count(<<q>> \o codes, p) = Count(<<q>>, p) + Count(codes, p) BY <3>4, CountConcat
      <3>6. Count(<<q>>, p) = IF q = p THEN 1 ELSE 0 BY CountOne
      <3>7. Count(MessageText, p) = IF q = p THEN 1 ELSE 0 BY <3>1, <3>3, <3>5, <3>6
      <3> QED BY <3>7 DEF q
    <2> QED BY <2>1, <2>2
  <1>6. Count(line, p) \in Nat BY <1>0, CountFinite
  <1> QED BY <1>2, <1>4, <1>5, <1>6

\* ShowMessage shows a message that it will not read again before a restart.
LEMMA ShowMessageKeeps ==
  ASSUME Typed, FileInv, OnceInv, ShowInv, ShowMessage PROVE ShowInv'
  <1>1. /\ pc = "read" /\ pc' = "unlink" /\ line' = (line \o <<">">>) \o MessageText /\ fd' = NoFile
        /\ UNCHANGED <<shown, restarts, stage, content, lcdTmp, lcdMessage>>
    BY DEF ShowMessage, Goto, cgi, files, arduino, limits
  <1>2. fd \in Ino /\ fd # NoFile BY <1>1, MessageBytes, HeatingAssumption DEF Typed
  <1>3. ASSUME NEW p \in Poster
        PROVE  shown'[p] + Count(line', p) + (IF MayShow(p)' THEN 1 ELSE 0) <= 1 + restarts'
    <2>1. shown[p] \in Nat /\ restarts \in Nat BY DEF Typed
    <2>2. Count(line, p) \in Nat BY CountFinite DEF Typed
    <2>3. shown[p] + Count(line, p) + (IF MayShow(p) THEN 1 ELSE 0) <= 1 + restarts BY DEF ShowInv
    <2>4. Count(line', p) = Count(line, p) + (IF content[fd] = p THEN 1 ELSE 0)
      BY <1>1, CountMessage
    <2>5. CASE content[fd] = p
      <3>1. MayShow(p) BY <1>2, <2>5 DEF MayShow
      <3>2. ~MayShow(p)'
        <4>1. stage[p] \in {"rename", "done"} BY <1>2, <2>5 DEF OnceInv
        <4>2. ASSUME lcdTmp # NoFile, content[lcdTmp] = p PROVE FALSE
          <5>1. lcdTmp \in Ino BY <4>2 DEF Typed
          <5>2. lcdTmp = fd BY <1>2, <2>5, <4>2, <5>1 DEF OnceInv
          <5> QED BY <4>2, <5>2 DEF FileInv
        <4> QED BY <1>1, <4>1, <4>2 DEF MayShow
      <3> QED BY <1>1, <2>1, <2>2, <2>3, <2>4, <2>5, <3>1, <3>2
    <2>6. CASE content[fd] # p
      <3>1. MayShow(p)' => MayShow(p) BY <1>1 DEF MayShow
      <3>2. Count(line', p) = Count(line, p) BY <2>2, <2>4, <2>6
      <3>3. CASE MayShow(p) BY <1>1, <2>1, <2>2, <2>3, <3>2, <3>3
      <3>4. CASE ~MayShow(p) BY <1>1, <2>1, <2>2, <2>3, <3>1, <3>2, <3>4
      <3> QED BY <3>3, <3>4
    <2> QED BY <2>5, <2>6
  <1> QED BY <1>3 DEF ShowInv

\* The Arduino takes a byte off the line.
LEMMA LoopKeeps ==
  ASSUME Typed, ShowInv, Loop PROVE ShowInv'
  <1> DEFINE b == Head(line)
  <1>1. /\ line # <<>> /\ line' = Tail(line) /\ line \in Seq(Byte)
        /\ shown' = [p \in Poster |-> IF b = p /\ row = 2 THEN shown[p] + 1 ELSE shown[p]]
        /\ UNCHANGED <<restarts, pc, fd, stage, content, lcdTmp, lcdMessage>>
    BY DEF Loop, daemon, cgi, files, limits, Typed
  <1> HIDE DEF b
  <1>2. ASSUME NEW p \in Poster
        PROVE  shown'[p] + Count(line', p) + (IF MayShow(p)' THEN 1 ELSE 0) <= 1 + restarts'
    <2>1. shown[p] \in Nat /\ restarts \in Nat BY DEF Typed
    <2>2. shown[p] + Count(line, p) + (IF MayShow(p) THEN 1 ELSE 0) <= 1 + restarts BY DEF ShowInv
    <2>3. Count(line, p) = Count(line', p) + (IF b = p THEN 1 ELSE 0) BY <1>1, CountTail DEF b
    <2>4. line' \in Seq(Byte) BY <1>1
    <2>5. Count(line', p) \in Nat BY <2>4, CountFinite
    <2>6. shown'[p] = IF b = p /\ row = 2 THEN shown[p] + 1 ELSE shown[p] BY <1>1
    <2>7. MayShow(p)' <=> MayShow(p) BY <1>1 DEF MayShow
    <2>8. CASE MayShow(p) BY <1>1, <2>1, <2>2, <2>3, <2>5, <2>6, <2>7, <2>8
    <2>9. CASE ~MayShow(p) BY <1>1, <2>1, <2>2, <2>3, <2>5, <2>6, <2>7, <2>9
    <2> QED BY <2>8, <2>9
  <1> QED BY <1>2 DEF ShowInv

\* A restart allows every message once more.
LEMMA RestartKeeps ==
  ASSUME Typed, ShowInv, Restart PROVE ShowInv'
  <1>1. restarts' = restarts + 1 /\ UNCHANGED <<shown, line>> BY DEF Restart, arduino
  <1>2. ASSUME NEW p \in Poster
        PROVE  shown'[p] + Count(line', p) + (IF MayShow(p)' THEN 1 ELSE 0) <= 1 + restarts'
    <2>1. shown[p] \in Nat /\ restarts \in Nat BY DEF Typed
    <2>2. shown[p] + Count(line, p) + (IF MayShow(p) THEN 1 ELSE 0) <= 1 + restarts BY DEF ShowInv
    <2>3. Count(line, p) \in Nat BY CountFinite DEF Typed
    <2>4. shown[p] + Count(line, p) <= 1 + restarts BY <2>1, <2>2, <2>3
    <2> QED BY <1>1, <2>1, <2>3, <2>4
  <1> QED BY <1>2 DEF ShowInv

\* Every step keeps it so.
LEMMA ShowStep == Typed /\ FileInv /\ OnceInv /\ ShowInv /\ [Next]_vars => ShowInv'
  <1> SUFFICES ASSUME Typed, FileInv, OnceInv, ShowInv, [Next]_vars PROVE ShowInv' OBVIOUS
  <1> USE DEF Goto, At, daemon, cgi, files, arduino, limits
  <1>0. /\ NoFile \notin Poster /\ Poster \subseteq Process /\ Setter \subseteq Process
        /\ Poster \cap Setter = {} /\ (\A q \in Poster : q \notin Int) /\ NoFile \notin Ino
        /\ stage \in [Process -> {"idle", "open", "write", "rename", "done"}]
        /\ handle \in [Process -> Ino \cup {NoFile}] /\ DOMAIN content = Ino
        /\ fd \in Ino \cup {NoFile} /\ lcdTmp \in Ino \cup {NoFile} /\ lcdMessage \in Ino \cup {NoFile}
        /\ line \in Seq(Byte)
    BY HeatingAssumption DEF Process, Typed, Ino
  <1>1. \A p \in Poster : Count(line, p) \in Nat BY <1>0, CountFinite
  \* A step that leaves the line alone and keeps no message for later.
  <1>2. ASSUME UNCHANGED <<shown, restarts, line>>, \A p \in Poster : MayShow(p)' => MayShow(p)
        PROVE  ShowInv'
    BY <1>0, <1>1, <1>2, ShowFrame
  \* A step that writes other things than messages.
  <1>3. ASSUME UNCHANGED <<shown, restarts, line, pc, fd, lcdTmp, lcdMessage>>,
               \A i \in Ino : content'[i] \in Poster => content[i] = content'[i],
               \A p \in Poster : stage'[p] = stage[p]
        PROVE  ShowInv'
    BY <1>0, <1>2, <1>3 DEF MayShow
  <1>4. CASE CheckMessages
    <2>1. /\ pc = "check" /\ fd' = lcdMessage
          /\ UNCHANGED <<shown, restarts, line, stage, content, lcdTmp, lcdMessage>>
      BY <1>4 DEF CheckMessages
    <2> QED BY <1>2, <2>1 DEF MayShow
  <1>5. CASE RemoveMessage
    <2>1. /\ lcdMessage' = NoFile /\ UNCHANGED <<shown, restarts, line, stage, content, lcdTmp, fd>>
      BY <1>5 DEF RemoveMessage
    <2> QED BY <1>2, <2>1 DEF MayShow
  <1>6. CASE AskTemperature
    <2>1. /\ pc = "ask" /\ line' = Append(line, "?")
          /\ UNCHANGED <<shown, restarts, stage, content, lcdTmp, lcdMessage, fd>>
      BY <1>6 DEF AskTemperature
    <2>2. line' = line \o <<"?">> /\ <<"?">> \in Seq(Command \cup {"text"}) /\ "?" \in Byte
      BY <1>0, <2>1 DEF Command, Byte
    <2>3. line' \in Seq(Byte) BY <1>0, <2>1, <2>2
    <2>4. \A p \in Poster : Count(line', p) = Count(line, p) BY <1>0, <2>2, CountText
    <2>5. \A p \in Poster : MayShow(p)' => MayShow(p) BY <2>1 DEF MayShow
    <2> QED BY <1>1, <2>1, <2>3, <2>4, <2>5, ShowFrame
  <1>7. CASE GetTemperature \/ GetThermostat
    <2>1. pc \in {"answer", "therm"} /\ UNCHANGED <<shown, restarts, line, stage, content, lcdTmp, lcdMessage, fd>>
      BY <1>7 DEF GetTemperature, GetThermostat
    <2> QED BY <1>2, <2>1 DEF MayShow
  <1>8. CASE CreateThermostat
    <2>1. /\ thermFile' \in Ino /\ content' = [content EXCEPT ![thermFile'] = 20] /\ pc = "create"
          /\ UNCHANGED <<shown, restarts, line, fd, lcdTmp, lcdMessage, stage>>
      BY <1>8, Created DEF CreateThermostat
    <2>2. \A i \in Ino : content'[i] \in Poster => content[i] = content'[i]
      <3>1. 20 \notin Poster BY <1>0
      <3> QED BY <1>0, <2>1, <3>1
    <2>3. \A p \in Poster : MayShow(p)' => MayShow(p) BY <1>0, <2>1, <2>2 DEF MayShow
    <2> QED BY <1>2, <2>1, <2>3
  <1>9. CASE UpdateRelay
    <2>1. /\ pc = "relay" /\ line' = (line \o RelayCommand) \o DisplayText
          /\ UNCHANGED <<shown, restarts, stage, content, lcdTmp, lcdMessage, fd>>
      BY <1>9 DEF UpdateRelay
    <2>2. /\ DisplayText \in Seq(Command \cup {"text"}) /\ RelayCommand \in Seq(Command)
          /\ DisplayText \in Seq(Byte) /\ RelayCommand \in Seq(Byte)
      BY Texts
    <2>3. RelayCommand \in Seq(Command \cup {"text"}) BY <2>2, SeqGrows
    <2>4. line \o RelayCommand \in Seq(Byte) BY <1>0, <2>2, ConcatProperties
    <2>5. line' \in Seq(Byte) BY <2>1, <2>2, <2>4, ConcatProperties
    <2>6. ASSUME NEW p \in Poster PROVE Count(line', p) = Count(line, p)
      <3>1. Count(line \o RelayCommand, p) = Count(line, p) BY <1>0, <2>3, CountText
      <3>2. Count((line \o RelayCommand) \o DisplayText, p)
              = Count(line \o RelayCommand, p) + Count(DisplayText, p)
        BY <2>2, <2>4, CountConcat
      <3>3. Count(DisplayText, p) = 0
        <4>1. p \notin Command \cup {"text"} BY HeatingAssumption
        <4>2. \A k \in 1 .. Len(DisplayText) : DisplayText[k] # p BY <2>2, <4>1
        <4> QED BY <2>2, <4>2, CountNone
      <3> QED BY <1>1, <2>1, <3>1, <3>2, <3>3
    <2>7. \A p \in Poster : MayShow(p)' => MayShow(p) BY <2>1 DEF MayShow
    <2> QED BY <1>1, <2>1, <2>5, <2>6, <2>7, ShowFrame
  <1>10. ASSUME NEW p \in Poster, PostMessage(p) PROVE ShowInv'
    <2>1. /\ lcdMessage' = NoFile /\ stage[p] = "idle" /\ stage' = [stage EXCEPT ![p] = "open"]
          /\ UNCHANGED <<shown, restarts, line, pc, fd, content, lcdTmp>>
      BY <1>10 DEF PostMessage
    <2>2. \A q \in Poster : stage'[q] = stage[q] \/ q = p BY <1>0, <2>1
    <2> QED BY <1>2, <2>1, <2>2 DEF MayShow
  <1>11. ASSUME NEW p \in Poster, OpenMessage(p) PROVE ShowInv'
    <2>1. /\ stage[p] = "open" /\ stage' = [stage EXCEPT ![p] = "write"] /\ Opened(p, lcdTmp)
          /\ UNCHANGED <<shown, restarts, line, pc, fd, lcdMessage>>
      BY <1>11 DEF OpenMessage
    <2>2. /\ lcdTmp' \in Ino
          /\ \/ lcdTmp' = lcdTmp /\ content' = content
             \/ content' = [content EXCEPT ![lcdTmp'] = NoFile]
      BY <1>0, <2>1, OpenedMessage
    <2>3. \A i \in Ino : content'[i] \in Poster => content[i] = content'[i] BY <1>0, <2>2
    <2>4. \A q \in Poster : stage'[q] = stage[q] \/ q = p BY <1>0, <2>1
    <2>5. content'[lcdTmp'] \in Poster => lcdTmp' = lcdTmp BY <1>0, <2>2
    <2>6. ASSUME NEW q \in Poster, MayShow(q)' PROVE MayShow(q)
      BY <1>0, <2>1, <2>2, <2>3, <2>4, <2>5, <2>6 DEF MayShow
    <2> QED BY <1>2, <2>1, <2>6
  <1>12. ASSUME NEW p \in Poster, WriteMessage(p) PROVE ShowInv'
    <2>1. /\ stage[p] = "write" /\ stage' = [stage EXCEPT ![p] = "rename"]
          /\ content' = [content EXCEPT ![handle[p]] = p]
          /\ UNCHANGED <<shown, restarts, line, pc, fd, lcdTmp, lcdMessage>>
      BY <1>12 DEF WriteMessage
    <2>2. \A q \in Poster \ {p} : stage'[q] = stage[q] BY <1>0, <2>1
    <2>3. \A i \in Ino : content'[i] = p \/ content'[i] = content[i] BY <1>0, <2>1
    <2>4. MayShow(p) BY <2>1 DEF MayShow
    <2>5. ASSUME NEW q \in Poster \ {p}, MayShow(q)' PROVE MayShow(q)
      BY <1>0, <2>1, <2>2, <2>3, <2>5 DEF MayShow
    <2> QED BY <1>2, <2>1, <2>4, <2>5
  <1>13. ASSUME NEW p \in Poster, RenameMessage(p) PROVE ShowInv'
    <2>1. /\ stage[p] = "rename" /\ stage' = [stage EXCEPT ![p] = "done"]
          /\ lcdMessage' = (IF lcdTmp = NoFile THEN lcdMessage ELSE lcdTmp) /\ lcdTmp' = NoFile
          /\ UNCHANGED <<shown, restarts, line, pc, fd, content>>
      BY <1>13 DEF RenameMessage
    <2>2. stage'[p] = "done" /\ \A q \in Poster \ {p} : stage'[q] = stage[q] BY <1>0, <2>1
    <2>3. ASSUME NEW q \in Poster, MayShow(q)' PROVE MayShow(q)
      BY <2>1, <2>2, <2>3 DEF MayShow
    <2> QED BY <1>2, <2>1, <2>3
  <1>14. ASSUME NEW p \in Setter, OpenSetting(p) PROVE ShowInv'
    <2>1. /\ stage' = [stage EXCEPT ![p] = "write"] /\ Opened(p, thermTmp)
          /\ UNCHANGED <<shown, restarts, line, pc, fd, lcdTmp, lcdMessage>>
      BY <1>14 DEF OpenSetting
    <2>2. thermTmp' \in Ino /\ (content' = content \/ content' = [content EXCEPT ![thermTmp'] = NoFile])
      BY <1>0, <2>1, OpenedSetting
    <2>3. \A i \in Ino : content'[i] \in Poster => content[i] = content'[i] BY <1>0, <2>2
    <2>4. \A q \in Poster : stage'[q] = stage[q] BY <1>0, <2>1
    <2> QED BY <1>3, <2>1, <2>3, <2>4
  <1>15. ASSUME NEW p \in Setter, WriteSetting(p) PROVE ShowInv'
    <2>1. /\ stage' = [stage EXCEPT ![p] = "rename"] /\ content' = [content EXCEPT ![handle[p]] = job[p]]
          /\ UNCHANGED <<shown, restarts, line, pc, fd, lcdTmp, lcdMessage>>
      BY <1>15 DEF WriteSetting
    <2>2. job[p] \notin Poster BY <1>0 DEF Typed
    <2>3. \A i \in Ino : content'[i] \in Poster => content[i] = content'[i] BY <1>0, <2>1, <2>2
    <2>4. \A q \in Poster : stage'[q] = stage[q] BY <1>0, <2>1
    <2> QED BY <1>3, <2>1, <2>3, <2>4
  <1>16. ASSUME NEW p \in Setter, RenameSetting(p) PROVE ShowInv'
    <2>1. /\ stage' = [stage EXCEPT ![p] = "done"]
          /\ UNCHANGED <<shown, restarts, line, pc, fd, lcdTmp, lcdMessage, content>>
      BY <1>16 DEF RenameSetting
    <2>2. \A q \in Poster : stage'[q] = stage[q] BY <1>0, <2>1
    <2> QED BY <1>3, <2>1, <2>2
  <1>17. CASE RoomChanges \/ UNCHANGED vars
    <2>1. UNCHANGED <<shown, restarts, line, pc, fd, lcdTmp, lcdMessage, content, stage>>
      BY <1>17 DEF RoomChanges, vars
    <2> QED BY <1>3, <2>1
  <1> QED BY <1>4, <1>5, <1>6, <1>7, <1>8, <1>9, <1>10, <1>11, <1>12, <1>13, <1>14, <1>15, <1>16,
             <1>17, ShowMessageKeeps, LoopKeeps, RestartKeeps DEF Next, Daemon, Message, Therm

-----------------------------------------------------------------------------
(* The theorems *)

\* The invariants hold at the start.
LEMMA InvInit == Init => Inv
  <1> SUFFICES ASSUME Init PROVE Inv OBVIOUS
  <1>0. /\ NoFile \notin Ino /\ NoFile \notin Poster /\ Settings \subseteq Int
        /\ scene \in Scenes /\ scene.rooms \subseteq Int /\ scene.files \subseteq Settings \cup {NoFile}
        /\ Poster \subseteq Process /\ Setter \subseteq Process /\ Poster \cap Setter = {}
        /\ \A q \in Poster : q \notin Int
    <2>1. scene \in Scenes BY DEF Init
    <2> QED BY <2>1, HeatingAssumption DEF Ino, Process
  <1>1. PICK t \in scene.files : /\ thermFile = IF t = NoFile THEN NoFile ELSE 1
                                 /\ content = [i \in Ino |-> IF i = 1 THEN t ELSE NoFile]
    BY DEF Init
  <1>2. /\ pc = "check" /\ fd = NoFile /\ now = 30 /\ target = 20 /\ last = FALSE
        /\ stage = [p \in Process |-> IF p \in scene.requests THEN "idle" ELSE "done"]
        /\ handle = [p \in Process |-> NoFile]
        /\ job = [p \in Process |-> IF p \in Poster THEN <<>> ELSE 0]
        /\ lcdMessage = NoFile /\ lcdTmp = NoFile /\ thermTmp = NoFile
        /\ line = <<>> /\ answers = <<>> /\ relay = FALSE /\ row = 1 /\ room \in scene.rooms
        /\ restarts = 0 /\ shown = [p \in Poster |-> 0] /\ tainted = FALSE /\ switched = <<>>
    BY DEF Init
  <1>3. 1 \in Ino
    <2>1. Cardinality(Process) \in Nat BY HeatingAssumption, FS_CardinalityType
    <2> QED BY <2>1, HeatingAssumption DEF Ino
  <1>4. t \in Int \cup {NoFile} BY <1>0
  <1>5. \A i \in Ino : content[i] \in Int \cup {NoFile} BY <1>1, <1>4
  <1>6. Typed
    <2>1. line \in Seq(Byte) /\ answers \in Seq(Int \cup {NoNumber}) BY <1>2
    <2>2. thermFile \in Ino \cup {NoFile} BY <1>1, <1>3
    <2>3. content \in [Ino -> Poster \cup Int \cup {NoFile}] BY <1>1, <1>5
    <2>4. /\ job = [p \in Process |-> job[p]]
          /\ \A p \in Poster : job[p] \in Seq(Command)
          /\ \A p \in Setter : job[p] \in Int
      <3>1. <<>> \in Seq(Command) OBVIOUS
      <3> QED BY <1>0, <1>2, <3>1
    <2>5. shown \in [Poster -> Nat] /\ room \in Int BY <1>0, <1>2
    <2>6. stage \in [Process -> {"idle", "open", "write", "rename", "done"}]
          /\ handle \in [Process -> Ino \cup {NoFile}]
      BY <1>2
    <2>7. last \in BOOLEAN /\ relay \in BOOLEAN /\ tainted \in BOOLEAN BY <1>2
    <2>8. now \in Int /\ target \in Int /\ restarts \in Nat /\ row \in {1, 2} BY <1>2
    <2>9. pc = "check" /\ fd = NoFile /\ lcdMessage = NoFile /\ lcdTmp = NoFile /\ thermTmp = NoFile
      BY <1>2
    <2> QED BY <1>0, <2>1, <2>2, <2>3, <2>4, <2>5, <2>6, <2>7, <2>8, <2>9 DEF Typed
  <1>7. MsgIno = {} BY <1>0, <1>2 DEF MsgIno
  <1>8. FileInv BY <1>2, <1>5, <1>7 DEF FileInv, ThermIno
  <1>9. OnceInv BY <1>0, <1>5 DEF OnceInv
  <1>10. ShowInv
    <2>1. ASSUME NEW p \in Poster
          PROVE  shown[p] + Count(line, p) + (IF MayShow(p) THEN 1 ELSE 0) <= 1 + restarts
      <3>1. \A k \in 1 .. Len(<<>>) : <<>>[k] # p
        <4>1. 1 .. Len(<<>>) = {} OBVIOUS
        <4> QED BY <4>1
      <3>2. <<>> \in Seq(Byte) OBVIOUS
      <3>3. Count(<<>>, p) = 0 BY <3>1, <3>2, CountNone
      <3>4. shown[p] = 0 /\ restarts = 0 /\ line = <<>> BY <1>2
      <3> QED BY <3>3, <3>4
    <2> QED BY <2>1 DEF ShowInv
  <1>11. SwitchInv BY <1>2 DEF SwitchInv
  <1>12. RelayFollows
    <2>1. Commands = {}
      <3>1. DOMAIN <<>> = {} OBVIOUS
      <3> QED BY <1>2, <3>1 DEF Commands
    <2> QED BY <1>2, <2>1 DEF RelayFollows, RelayIsState
  <1> QED BY <1>6, <1>8, <1>9, <1>10, <1>11, <1>12 DEF Inv

\* Every step keeps the invariants.
LEMMA InvStep == Inv /\ [Next]_vars => Inv'
  BY TypedStep, FileStep, OnceStep, ShowStep, SwitchStep, RelayStep DEF Inv

\* The invariants hold throughout.
LEMMA Invariant == Spec => []Inv
  <1>1. Init => Inv BY InvInit
  <1> QED BY <1>1, InvStep, PTL DEF Spec

\* g_last_state is the state of the relay as long as no text held a relay
\* command and no restart found the relay on.
THEOREM RelayKnown == Spec => []RelayFollows
  <1>1. Inv => RelayFollows BY DEF Inv
  <1> QED BY <1>1, Invariant, PTL

\* However many messages are posted and however check_messages interleaves
\* with them, a message is shown at most once in each life of the daemon.
THEOREM MessagesOnce == Spec => []ShownOnce
  <1>1. Inv => ShownOnce
    <2> SUFFICES ASSUME Inv, NEW p \in Poster PROVE shown[p] <= 1 + restarts BY DEF ShownOnce
    <2>1. shown[p] \in Nat /\ restarts \in Nat /\ Count(line, p) \in Nat
      BY CountFinite DEF Inv, Typed
    <2>2. shown[p] + Count(line, p) + (IF MayShow(p) THEN 1 ELSE 0) <= 1 + restarts
      BY DEF Inv, ShowInv
    <2> QED BY <2>1, <2>2
  <1> QED BY <1>1, Invariant, PTL

\* update_relay does not switch back under the same setting before the reading
\* has moved by more than a degree.
THEOREM Hysteresis == Spec => NoChatter
  <1>1. Inv /\ [Next]_vars => [NoChatterStep]_vars BY NoChatterKept DEF Inv
  <1>2. NoChatter <=> [][NoChatterStep]_vars BY DEF NoChatter, NoChatterStep
  <1> QED BY <1>1, <1>2, Invariant, PTL DEF Spec

\* For any number of requests at once, every variable has its type: what the
\* daemon opens as a message is a message or still empty and never a setting,
\* and what it opens as a setting is a setting or still empty.
THEOREM TypeCorrect == Spec => []TypeOK
  <1>1. Inv => TypeOK
    <2> SUFFICES ASSUME Inv PROVE TypeOK OBVIOUS
    <2>1. \A i \in {fd, lcdMessage} \cap Ino : content[i] \in Poster \cup {NoFile}
      BY DEF Inv, FileInv, MsgIno
    <2>2. thermFile # NoFile => content[thermFile] \in Int \cup {NoFile} BY SettingRead DEF Inv
    <2> QED BY <2>1, <2>2 DEF Inv, Typed, TypeOK
  <1> QED BY <1>1, Invariant, PTL
=============================================================================
