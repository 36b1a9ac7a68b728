------------------------------- MODULE Heating -------------------------------
(***************************************************************************)
(* The central heating project (projects/central_heating): the chmon       *)
(* daemon that runs on the board, the message and therm CGI programs of    *)
(* its web pages, and the Arduino with the thermometer, the relay and the  *)
(* display at the other end of a serial line.                              *)
(*                                                                         *)
(* Temperatures are in units of 0.5 degrees.  The bytes of the serial line *)
(* are the command characters of the Arduino and, as single symbols, the   *)
(* text of a message (named after the CGI process that posts it) and the   *)
(* text of the display line.  The daemon and the CGI programs share files, *)
(* modelled as names of inodes: a file that is renamed or removed while it *)
(* is open can still be read and written.                                  *)
(*                                                                         *)
(* A scene says which CGI processes make their request (requests), which   *)
(* command characters their messages may hold (codes), the settings one of *)
(* which THERM_FILE holds at start, NoFile for no such file (files), the   *)
(* temperatures the thermometer reports (rooms), and bounds the changes of *)
(* the temperature, the restarts of the daemon and its failures to open    *)
(* TEMP_FILE.                                                              *)
(***************************************************************************)
EXTENDS Integers, Sequences, FiniteSets

CONSTANTS
  Poster,       \* message CGI processes, each posts one message
  Setter,       \* therm CGI processes, each makes one setting
  Settings,     \* thermostat settings the web page offers
  Scenes,       \* the scenes, see above
  MaxLag,       \* bound on the questions the Arduino has not answered in time
  Cut,          \* what the rest of an answer that was cut off may hold
  NoNumber,     \* a line without a number
  MaxIno,       \* number of inodes, enough for every file name and open file
  NoFile        \* no such file, and what an empty file holds

Process == Poster \cup Setter
Ino == 1 .. MaxIno
Command == {"+", "-", "?", "<", ">"}

ASSUME HeatingAssumption ==
  /\ Poster \cap Setter = {} /\ IsFiniteSet(Process)
  /\ \A p \in Poster : p \notin Command \cup {"text"} /\ p \notin Int
  /\ Settings \subseteq Int /\ NoFile \notin Int \cup Poster
  /\ \A s \in Scenes :
       /\ s.requests \subseteq Process /\ s.codes \subseteq Seq(Command)
       /\ s.files \subseteq Settings \cup {NoFile} /\ s.rooms \subseteq Int
       /\ s.changes \in Nat /\ s.restarts \in Nat /\ s.faults \in Nat
  /\ MaxIno \in Nat /\ Cardinality(Process) + 5 < MaxIno
  /\ Cut \subseteq Int \cup {NoNumber} /\ NoNumber \notin Int
  /\ MaxLag \in Nat \ {0}

VARIABLES
  scene,     \* the scene played
  pc,        \* where the daemon is in its loop
  fd,        \* the inode it has open
  now,       \* g_temperature_now
  target,    \* g_thermostat_temperature
  last,      \* g_last_state
  stage,     \* where a CGI process is
  handle,    \* the inode it has open
  job,       \* its command characters or its setting
  content,   \* of the inodes
  lcdMessage, lcdTmp,   \* /var/lcd_message.txt and /tmp/lcd_message.txt
  thermFile, thermTmp,  \* /var/ch_thermostat.txt and /tmp/ch_thermostat.txt
  line,      \* bytes on their way to the Arduino
  answers,   \* lines on their way to the daemon
  relay,     \* the latching relay
  row,       \* row of the display's cursor
  room,      \* what the thermometer reads
  changes, restarts, faults

\* History, read by the properties only.
VARIABLES
  shown,     \* how often the message of a process was put on row 2
  done,      \* the CGI processes in the order they reported success
  disturbed, \* the ones that had company, or renamed while the daemon was at the file
  tainted,   \* the relay may have switched without the daemon deciding it
  switched   \* <<reading, target>> when the daemon last switched the relay

daemon == <<pc, fd, now, target, last, switched>>
cgi == <<stage, handle, job, done, disturbed>>
files == <<content, lcdMessage, lcdTmp, thermFile, thermTmp>>
arduino == <<relay, row, room, changes, shown>>
limits == <<scene, restarts, faults>>
vars == <<daemon, cgi, files, line, answers, arduino, limits, tainted>>

\* An inode nothing refers to.
FreeIno ==
  CHOOSE i \in Ino :
    i \notin {fd, lcdMessage, lcdTmp, thermFile, thermTmp} \cup {handle[p] : p \in Process}

\* Process p opens the file with that name; it is created empty if there is none.
Opened(p, name) ==
  LET i == IF name = NoFile THEN FreeIno ELSE name
  IN /\ name' = i
     /\ handle' = [handle EXCEPT ![p] = i]
     /\ content' = IF name = NoFile THEN [content EXCEPT ![i] = NoFile] ELSE content

\* Text that holds a relay command.
Taints(bytes) == \E i \in DOMAIN bytes : bytes[i] \in {"+", "-"}

Unanswered == Len(SelectSeq(line, LAMBDA b : b = "?")) + Len(answers)

-----------------------------------------------------------------------------
(* chmon *)

Goto(from, to) == pc = from /\ pc' = to

\* check_messages: the message file is opened, if there is one.
CheckMessages ==
  /\ pc = "check"
  /\ pc' = IF lcdMessage = NoFile THEN "ask" ELSE "read"
  /\ fd' = lcdMessage
  /\ UNCHANGED <<now, target, last, switched, cgi, files, line, answers, arduino,
                 limits, tainted>>

\* The bytes of the message file.
MessageText == IF content[fd] = NoFile THEN <<>> ELSE <<content[fd]>> \o job[content[fd]]

\* They are passed on as they are.
ShowMessage ==
  /\ Goto("read", "unlink")
  /\ line' = line \o <<">">> \o MessageText
  /\ tainted' = (tainted \/ Taints(MessageText))
  /\ fd' = NoFile
  /\ UNCHANGED <<now, target, last, switched, cgi, files, answers, arduino, limits>>

\* Mutant: the message stays.
RemoveMessage_not ==
  /\ Goto("unlink", "ask")
  /\ UNCHANGED <<fd, now, target, last, switched, cgi, files, line, answers, arduino,
                 limits, tainted>>

\* The name is removed, whatever it stands for by now.
RemoveMessage ==
  /\ Goto("unlink", "ask")
  /\ lcdMessage' = NoFile
  /\ UNCHANGED <<fd, now, target, last, switched, cgi, content, lcdTmp, thermFile, thermTmp,
                 line, answers, arduino, limits, tainted>>

AskTemperature ==
  /\ Goto("ask", "answer")
  /\ line' = Append(line, "?")
  /\ UNCHANGED <<fd, now, target, last, switched, cgi, files, answers, arduino, limits,
                 tainted>>

\* A line in which sscanf finds no number stands for 66 degrees.
StringToTemp(answer) == IF answer = NoNumber THEN 132 ELSE answer

\* Mutant: a reading is taken only if it is higher.
GetTemperature_higher ==
  /\ Goto("answer", "therm")
  /\ \/ /\ answers = <<>> /\ Unanswered <= MaxLag
        /\ UNCHANGED <<now, answers, faults>>
     \/ /\ answers # <<>>
        /\ now' = IF StringToTemp(Head(answers)) > now THEN StringToTemp(Head(answers)) ELSE now
        /\ answers' = Tail(answers)
        /\ UNCHANGED faults
     \/ /\ answers # <<>> /\ faults < scene.faults
        /\ faults' = faults + 1
        /\ answers' = Tail(answers)
        /\ UNCHANGED now
  /\ UNCHANGED <<fd, target, last, switched, cgi, files, line, arduino, scene, restarts,
                 tainted>>

\* A second later the oldest answer is read; without one the last reading stands,
\* as it does when TEMP_FILE cannot be opened.
GetTemperature ==
  /\ Goto("answer", "therm")
  /\ \/ /\ answers = <<>> /\ Unanswered <= MaxLag
        /\ UNCHANGED <<now, answers, faults>>
     \/ /\ answers # <<>>
        /\ now' = StringToTemp(Head(answers))
        /\ answers' = Tail(answers)
        /\ UNCHANGED faults
     \/ /\ answers # <<>> /\ faults < scene.faults
        /\ faults' = faults + 1
        /\ answers' = Tail(answers)
        /\ UNCHANGED now
  /\ UNCHANGED <<fd, target, last, switched, cgi, files, line, arduino, scene, restarts,
                 tainted>>

\* Mutant: the setting is read once, while the default stands.
GetThermostat_once ==
  /\ pc = "therm"
  /\ IF thermFile = NoFile
       THEN /\ target' = 20
            /\ pc' = "create"
       ELSE /\ target' = IF target = 20 THEN content[thermFile] ELSE target
            /\ pc' = "relay"
  /\ UNCHANGED <<fd, now, last, switched, cgi, files, line, answers, arduino, limits,
                 tainted>>

\* get_thermostat: the setting is read, if the file is there; an empty file
\* holds none.
GetThermostat ==
  /\ pc = "therm"
  /\ IF thermFile = NoFile
       THEN /\ target' = 20
            /\ pc' = "create"
       ELSE /\ target' = IF content[thermFile] = NoFile THEN target ELSE content[thermFile]
            /\ pc' = "relay"
  /\ UNCHANGED <<fd, now, last, switched, cgi, files, line, answers, arduino, limits,
                 tainted>>

\* Otherwise it is written with 10 degrees, over whatever is there by now.
CreateThermostat ==
  /\ Goto("create", "relay")
  /\ LET i == IF thermFile = NoFile THEN FreeIno ELSE thermFile
     IN /\ thermFile' = i
        /\ content' = [content EXCEPT ![i] = 20]
  /\ UNCHANGED <<fd, now, target, last, switched, cgi, lcdMessage, lcdTmp, thermTmp, line,
                 answers, arduino, limits, tainted>>

\* Mutant: no hysteresis.
NewState_plain == now < target

NewState == IF last THEN ~(now > target + 1) ELSE now < target - 1

\* The text of the first row; a minus sign is a character like any other.
DisplayText ==
  <<"<">> \o (IF now < 0 THEN <<"-">> ELSE <<>>) \o <<"text">>
          \o (IF target < 0 THEN <<"-">> ELSE <<>>)

\* Mutant: the new state is not sent when the relay goes off.
RelayCommand_on == IF NewState /\ ~last THEN <<"+">> ELSE <<>>

RelayCommand ==
  IF NewState = last THEN <<>> ELSE IF NewState THEN <<"+">> ELSE <<"-">>

\* update_relay and update_display, which end a round of the loop.
UpdateRelay ==
  /\ Goto("relay", "check")
  /\ last' = NewState
  /\ line' = line \o RelayCommand \o DisplayText
  /\ switched' = IF NewState # last THEN <<now, target>> ELSE switched
  /\ tainted' = (tainted \/ Taints(DisplayText))
  /\ UNCHANGED <<fd, now, target, cgi, files, answers, arduino, limits>>

\* The daemon is stopped and started: its variables are set anew and the
\* input of the serial port is flushed, of an answer that is just coming in
\* only the first part.  The relay stays as it is.
Restart ==
  /\ restarts < scene.restarts
  /\ restarts' = restarts + 1
  /\ pc' = "check" /\ fd' = NoFile
  /\ now' = 30 /\ target' = 20 /\ last' = FALSE
  /\ switched' = <<>>
  /\ \/ answers' = <<>>
     \/ answers # <<>> /\ \E t \in Cut : answers' = <<t>>
  /\ tainted' = (tainted \/ last)
  /\ UNCHANGED <<cgi, files, line, arduino, scene, faults>>

-----------------------------------------------------------------------------
(* The message CGI program *)

At(p, from, to) == stage[p] = from /\ stage' = [stage EXCEPT ![p] = to]

\* p starts; the others of its kind ps that are at work and p are in each
\* other's way.
Joins(p, ps) ==
  LET others == {q \in ps : stage[q] \notin {"idle", "done"}}
  IN disturbed' = IF others = {} THEN disturbed ELSE disturbed \cup others \cup {p}

\* p renames its file into place, at one of the daemon's steps at for that file.
Places(p, at) == disturbed' = IF pc \in at THEN disturbed \cup {p} ELSE disturbed

\* The message waiting to be shown is removed first.
PostMessage(p) ==
  /\ At(p, "idle", "open")
  /\ \E codes \in scene.codes : job' = [job EXCEPT ![p] = codes]
  /\ lcdMessage' = NoFile
  /\ Joins(p, Poster)
  /\ UNCHANGED <<daemon, handle, done, content, lcdTmp, thermFile, thermTmp, line, answers,
                 arduino, limits, tainted>>

\* Mutant: the temporary file has the name of the therm program's.
OpenMessage_therm(p) ==
  /\ At(p, "open", "write")
  /\ Opened(p, thermTmp)
  /\ UNCHANGED <<daemon, job, done, disturbed, lcdMessage, lcdTmp, thermFile, line, answers,
                 arduino, limits, tainted>>

\* The temporary file is opened, or created; it has the same name for all.
OpenMessage(p) ==
  /\ At(p, "open", "write")
  /\ Opened(p, lcdTmp)
  /\ UNCHANGED <<daemon, job, done, disturbed, lcdMessage, thermFile, thermTmp, line, answers,
                 arduino, limits, tainted>>

WriteMessage(p) ==
  /\ At(p, "write", "rename")
  /\ content' = [content EXCEPT ![handle[p]] = p]
  /\ handle' = [handle EXCEPT ![p] = NoFile]
  /\ UNCHANGED <<daemon, job, done, disturbed, lcdMessage, lcdTmp, thermFile, thermTmp, line, answers,
                 arduino, limits, tainted>>

\* Mutant: the old message is unlinked last instead of first.
RenameMessage_unlinks(p) ==
  /\ At(p, "rename", "done")
  /\ lcdMessage' = NoFile
  /\ lcdTmp' = NoFile
  /\ done' = Append(done, p)
  /\ Places(p, {"read", "unlink"})
  /\ UNCHANGED <<daemon, handle, job, content, thermFile, thermTmp, line, answers, arduino,
                 limits, tainted>>

\* rename fails if another process has renamed the file already; "sent to
\* LCD" is printed in either case.
RenameMessage(p) ==
  /\ At(p, "rename", "done")
  /\ lcdMessage' = IF lcdTmp = NoFile THEN lcdMessage ELSE lcdTmp
  /\ lcdTmp' = NoFile
  /\ done' = Append(done, p)
  /\ Places(p, {"read", "unlink"})
  /\ UNCHANGED <<daemon, handle, job, content, thermFile, thermTmp, line, answers, arduino,
                 limits, tainted>>

-----------------------------------------------------------------------------
(* The therm CGI program *)

OpenSetting(p) ==
  /\ At(p, "idle", "write")
  /\ \E t \in Settings : job' = [job EXCEPT ![p] = t]
  /\ Opened(p, thermTmp)
  /\ Joins(p, Setter)
  /\ UNCHANGED <<daemon, done, lcdMessage, lcdTmp, thermFile, line, answers, arduino,
                 limits, tainted>>

WriteSetting(p) ==
  /\ At(p, "write", "rename")
  /\ content' = [content EXCEPT ![handle[p]] = job[p]]
  /\ handle' = [handle EXCEPT ![p] = NoFile]
  /\ UNCHANGED <<daemon, job, done, disturbed, lcdMessage, lcdTmp, thermFile, thermTmp, line, answers,
                 arduino, limits, tainted>>

RenameSetting(p) ==
  /\ At(p, "rename", "done")
  /\ thermFile' = IF thermTmp = NoFile THEN thermFile ELSE thermTmp
  /\ thermTmp' = NoFile
  /\ done' = Append(done, p)
  /\ Places(p, {"create"})
  /\ UNCHANGED <<daemon, handle, job, content, lcdMessage, lcdTmp, line, answers, arduino,
                 limits, tainted>>

-----------------------------------------------------------------------------
(* The Arduino *)

\* One byte is read: a command, or text for the display.
Loop ==
  /\ line # <<>>
  /\ LET b == Head(line)
     IN /\ relay' = IF b \in {"+", "-"} THEN b = "+" ELSE relay
        /\ row' = CASE b \in {"<", "?"} -> 1 [] b = ">" -> 2 [] OTHER -> row
        /\ answers' = IF b = "?" THEN Append(answers, room) ELSE answers
        /\ shown' = [p \in Poster |-> IF b = p /\ row = 2 THEN shown[p] + 1 ELSE shown[p]]
  /\ line' = Tail(line)
  /\ UNCHANGED <<daemon, cgi, files, room, changes, limits, tainted>>

\* The room gets warmer or colder.
RoomChanges ==
  /\ changes < scene.changes
  /\ \E t \in scene.rooms \ {room} : room' = t
  /\ changes' = changes + 1
  /\ UNCHANGED <<daemon, cgi, files, line, answers, relay, row, shown, limits, tainted>>

-----------------------------------------------------------------------------

Init ==
  /\ scene \in Scenes
  /\ pc = "check" /\ fd = NoFile
  /\ now = 30 /\ target = 20 /\ last = FALSE
  /\ stage = [p \in Process |-> IF p \in scene.requests THEN "idle" ELSE "done"]
  /\ handle = [p \in Process |-> NoFile]
  /\ job = [p \in Process |-> IF p \in Poster THEN <<>> ELSE 0]
  /\ lcdMessage = NoFile /\ lcdTmp = NoFile /\ thermTmp = NoFile
  /\ \E t \in scene.files :
       /\ thermFile = IF t = NoFile THEN NoFile ELSE 1
       /\ content = [i \in Ino |-> IF i = 1 THEN t ELSE NoFile]
  /\ line = <<>> /\ answers = <<>>
  /\ relay = FALSE /\ row = 1
  /\ room \in scene.rooms
  /\ changes = 0 /\ restarts = 0 /\ faults = 0
  /\ shown = [p \in Poster |-> 0]
  /\ done = <<>> /\ disturbed = {} /\ tainted = FALSE /\ switched = <<>>

Daemon ==
  \/ CheckMessages \/ ShowMessage \/ RemoveMessage
  \/ AskTemperature \/ GetTemperature
  \/ GetThermostat \/ CreateThermostat \/ UpdateRelay

Message(p) == PostMessage(p) \/ OpenMessage(p) \/ WriteMessage(p) \/ RenameMessage(p)

Therm(p) == OpenSetting(p) \/ WriteSetting(p) \/ RenameSetting(p)

Next ==
  \/ Daemon
  \/ \E p \in Poster : Message(p)
  \/ \E p \in Setter : Therm(p)
  \/ Loop
  \/ RoomChanges
  \/ Restart

\* The daemon and the Arduino loop for ever; a CGI program that has been
\* started ends.
Fairness ==
  /\ WF_vars(Daemon)
  /\ WF_vars(Loop)
  /\ \A p \in Poster : WF_vars(stage[p] # "idle" /\ Message(p))
  /\ \A p \in Setter : WF_vars(stage[p] # "idle" /\ Therm(p))

Spec == Init /\ [][Next]_vars
FairSpec == Spec /\ Fairness

-----------------------------------------------------------------------------
(* Properties *)

\* Every variable has its type; a message file holds a message or nothing yet,
\* the thermostat file a setting or nothing yet, and the daemon reads a file
\* only if there was one to open.
TypeOK ==
  /\ pc \in {"check", "read", "unlink", "ask", "answer", "therm", "create", "relay"}
  /\ fd \in Ino \cup {NoFile} /\ (pc = "read" <=> fd # NoFile)
  /\ now \in Int /\ target \in Int /\ last \in BOOLEAN
  /\ stage \in [Process -> {"idle", "open", "write", "rename", "done"}]
  /\ handle \in [Process -> Ino \cup {NoFile}]
  /\ {lcdMessage, lcdTmp, thermFile, thermTmp} \subseteq Ino \cup {NoFile}
  /\ \A i \in {fd, lcdMessage} \cap Ino : content[i] \in Poster \cup {NoFile}
  /\ thermFile # NoFile => content[thermFile] \in Int \cup {NoFile}
  /\ relay \in BOOLEAN /\ row \in {1, 2} /\ tainted \in BOOLEAN

\* The relay commands on the line, by position.
Commands == {k \in DOMAIN line : line[k] \in {"+", "-"}}

\* Once the bytes on the line have arrived, the state of the relay is
\* g_last_state, as the comment "relay off at program start" takes for granted.
RelayIsState ==
  IF Commands = {}
    THEN relay <=> last
    ELSE \A k \in Commands : (\A j \in Commands : j <= k) => (line[k] = "+" <=> last)

\* It is, as long as no text that was sent held a relay command and the
\* daemon was not restarted with the relay on.
RelayFollows == tainted \/ RelayIsState

\* A message is put on the second row at most once, however the daemon's
\* reading and removing interleave with further messages; a restart between
\* the two can repeat it.
ShownOnce == \A p \in Poster : shown[p] <= 1 + restarts

\* Between two switches under the same setting the reading has moved by more
\* than one degree, the width of the hysteresis.
NoChatter ==
  [][last' # last /\ switched # <<>> /\ restarts' = restarts =>
       \/ switched[2] # target
       \/ now - switched[1] > 2
       \/ switched[1] - now > 2]_vars

\* A room that stays too cold is heated and one that stays too warm is not,
\* in spite of answers that come late and are read rounds after they were
\* asked for.
Heats ==
  /\ <>[](room < target - 1 /\ ~tainted) => <>[]relay
  /\ <>[](room > target + 1 /\ ~tainted) => <>[]~relay

\* p is the last of the processes ps to have reported success, and none of
\* them is at work.
LastOf(p, ps) ==
  LET reported == SelectSeq(done, LAMBDA q : q \in ps)
  IN /\ reported # <<>> /\ reported[Len(reported)] = p
     /\ \A q \in ps : stage[q] \in {"idle", "done"}

\* The report "Message sent to LCD" of main_message, taken at its word: the
\* last message reported is shown, unless another request follows.
SentIsShown ==
  \A p \in Poster : LastOf(p, Poster) ~> (~LastOf(p, Poster) \/ shown[p] > 0)

\* It is, if no other message request ran beside this one and the daemon was
\* not between opening and removing the file of an earlier message when this
\* one was renamed into its place; restarts of the daemon do no harm.
MessageArrives ==
  \A p \in Poster :
    LastOf(p, Poster) /\ p \notin disturbed ~> (~LastOf(p, Poster) \/ shown[p] > 0)

\* The daemon takes up the last setting reported with "Thermostat set to",
\* unless another request follows; provided that no other request ran beside
\* this one, and that it was not renamed into place when the daemon, having
\* found no file, was about to write the default.
SettingArrives ==
  \A p \in Setter :
    LastOf(p, Setter) /\ p \notin disturbed ~> (~LastOf(p, Setter) \/ target = job[p])
=============================================================================
