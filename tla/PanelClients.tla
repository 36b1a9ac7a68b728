---------------------------- MODULE PanelClients ----------------------------
(***************************************************************************)
(* The programs on the GPIO panel: the port of the emulated board          *)
(* (qemu/hw/rdc-gpio.c) with the guest behind it, a button (button.py), an *)
(* LED (led.py), a program that writes to an LCD (lcdwrite.py) and that    *)
(* LCD (hd44780.py).                                                       *)
(*                                                                         *)
(* A scene is the set of programs that take part (clients) and the bounds  *)
(* on what they do: how many commands the LCD writer sends (script), how   *)
(* many accesses to the port the guest makes (guest), how often the button *)
(* is clicked (presses), whether the user may stop the server (stops), and *)
(* a sequence of programs that start in that order (turn).                 *)
(* A scene has at most four programs: the server goes through them in the  *)
(* order of its dictionary, which is that of the descriptors up to there.  *)
(***************************************************************************)
EXTENDS Panel

CONSTANTS
  Scenes,     \* the scenes, see above
  Chars,      \* the text written, <<high, low>> nibbles of each character
  LcdSize,    \* characters the LCD holds (32)
  PortPins,   \* the pins of the port, from 0, PANEL_PINS
  GuestRegs,  \* pins the guest drives low in a write to the port
  MaxQueue    \* commands of the writer, and levels for the LCD, under way

Programs == {"port", "button", "led", "lcdwrite", "lcd"}

ASSUME ClientsAssumption ==
  /\ Client = Programs /\ Pin = 0 .. 5
  /\ PortPins \subseteq Pin /\ \A p \in PortPins : 0 .. p \subseteq PortPins
  /\ LcdSize \in Nat \ {0} /\ GuestRegs \subseteq SUBSET PortPins
  /\ MaxQueue \in Nat \ {0} /\ Chars \in Seq((0 .. 15) \X (0 .. 15))
  /\ \A s \in Scenes :
       /\ s.clients \subseteq Programs /\ s.stops \in BOOLEAN
       /\ s.script \in Nat /\ s.guest \in Nat /\ s.presses \in Nat

VARIABLES
  scene,      \* the scene played
  life,       \* of a program: "new", "on" or "over"
  last,       \* the port's record of what it last sent for each pin
  reg,        \* pins that are low in the port's data register
  port,       \* what the guest does: "idle", "reading" or "stuck"
  guest,      \* accesses the guest has made
  presses,    \* clicks made
  sent,       \* commands of the writer sent
  shown,      \* the levels an LED or LCD last heard of
  prev_E, prev_cmnd, prev_data, lcd_init, lcd_cursor, lcd_text

gpio == <<last, reg, port, guest>>
display == <<prev_E, prev_cmnd, prev_data, lcd_init, lcd_cursor, lcd_text>>
vars == <<panel, scene, life, gpio, presses, sent, shown, display>>

LED_PIN == 0
BUTTON_PIN == 1
HD_E == 0
HD_RS == 1
HD_DB == 2      \* DB4 to DB7 from here

\* The connection is open as far as the program knows.
Open(c) == life[c] = "on"
\* The server has closed it, and all that came before is read.
Hungup(c) == fd[c] = 0 /\ toClient[c] = <<>>

\* Program c starts and sends its first commands, or finds no server.
Starts(c, commands) ==
  /\ c \in scene.clients /\ life[c] = "new"
  /\ \A i \in DOMAIN scene.turn :
       scene.turn[i] = c => \A j \in 1 .. i - 1 : life[scene.turn[j]] # "new"
  /\ \/ /\ Accept(c, commands)
        /\ life' = [life EXCEPT ![c] = "on"]
     \/ /\ state # "up"
        /\ life' = [life EXCEPT ![c] = "over"]
        /\ UNCHANGED panel

\* What it sends is lost once the server has closed the connection.
Sends(c, commands) ==
  IF fd[c] # 0 THEN Send(c, commands) ELSE UNCHANGED panel

-----------------------------------------------------------------------------
(* The port *)

\* rdc_gpio_pci_init: all pins pulled up.
PortInit ==
  /\ Starts("port", [i \in 1 .. Cardinality(PortPins) |-> W(i - 1, "P")])
  /\ UNCHANGED <<scene, gpio, presses, sent, shown, display>>

PinVal(low, p) == IF p \in low THEN "0" ELSE "P"

\* Commands for the pins in ps, in order, that are to be driven by low.
PinWrites(low, ps) ==
  LET nth(i) == CHOOSE p \in ps : Cardinality({q \in ps : q < p}) = i - 1
  IN [i \in 1 .. Cardinality(ps) |-> W(nth(i), PinVal(low, nth(i)))]

\* Mutant: what was sent is not remembered.
Remembered_not(low) == last

Remembered(low) == [p \in PortPins |-> PinVal(low, p)]

\* pci_write_config and bb_pin_write: what has changed is sent.  A send that
\* fails closes the socket.
GuestWrites(low) ==
  /\ port = "idle" /\ life["port"] # "new" /\ guest < scene.guest
  /\ guest' = guest + 1
  /\ reg' = low
  /\ IF Open("port")
       THEN LET changed == {p \in PortPins : PinVal(low, p) # last[p]}
            IN /\ Sends("port", PinWrites(low, changed))
               /\ last' = Remembered(low)
               /\ \/ UNCHANGED life
                  \/ fd["port"] = 0 /\ changed # {} /\ life' = [life EXCEPT !["port"] = "over"]
       ELSE UNCHANGED <<panel, last, life>>
  /\ UNCHANGED <<scene, port, presses, sent, shown, display>>

\* pci_read_config: without a panel the pins read as zero.  With one the port
\* asks for the levels; when that cannot be sent, panel_read goes on asking a
\* closed socket.
GuestReads ==
  /\ port = "idle" /\ life["port"] # "new" /\ guest < scene.guest
  /\ guest' = guest + 1
  /\ \/ /\ ~Open("port")
        /\ reg' = PortPins
        /\ UNCHANGED <<panel, port, life>>
     \/ /\ Open("port")
        /\ Sends("port", <<R>>)
        /\ \/ port' = "reading" /\ UNCHANGED life
           \/ fd["port"] = 0 /\ port' = "stuck" /\ life' = [life EXCEPT !["port"] = "over"]
        /\ UNCHANGED reg
  /\ UNCHANGED <<scene, last, presses, sent, shown, display>>

\* panel_getpins: the answer, or the end of the connection.
PortGets ==
  /\ port = "reading"
  /\ \/ /\ Taken("port")
        /\ reg' = {p \in PortPins : Head(toClient["port"])[p] = "0"}
        /\ port' = "idle"
        /\ UNCHANGED life
     \/ /\ Hungup("port")
        /\ port' = "stuck"
        /\ life' = [life EXCEPT !["port"] = "over"]
        /\ UNCHANGED <<panel, reg>>
  /\ UNCHANGED <<scene, last, guest, presses, sent, shown, display>>

-----------------------------------------------------------------------------
(* The button and the LED *)

ButtonStarts ==
  /\ Starts("button", <<W(BUTTON_PIN, "P")>>)
  /\ UNCHANGED <<scene, gpio, presses, sent, shown, display>>

say_cb ==
  /\ Open("button") /\ presses < scene.presses
  /\ presses' = presses + 1
  /\ Sends("button", <<W(BUTTON_PIN, IF presses % 2 = 0 THEN "0" ELSE "P")>>)
  /\ UNCHANGED <<scene, life, gpio, sent, shown, display>>

\* The window of the button is closed.
ButtonQuits ==
  /\ Open("button")
  /\ life' = [life EXCEPT !["button"] = "over"]
  /\ Sends("button", <<Bye>>)
  /\ UNCHANGED <<scene, gpio, presses, sent, shown, display>>

\* Mutant: the query goes first.
Subscription_late(n) ==
  [i \in 1 .. n + 1 |-> IF i = 1 THEN R ELSE N(i - 2)]

\* A peripheral on the first n pins subscribes to them and asks for the
\* levels.
Subscription(n) ==
  [i \in 1 .. n + 1 |-> IF i <= n THEN N(i - 1) ELSE R]

LedStarts ==
  /\ Starts("led", Subscription(1))
  /\ UNCHANGED <<scene, gpio, presses, sent, shown, display>>

LedUpdated ==
  /\ Open("led") /\ Taken("led")
  /\ shown' = [shown EXCEPT !["led"] = Head(toClient["led"])]
  /\ UNCHANGED <<scene, life, gpio, presses, sent, display>>

-----------------------------------------------------------------------------
(* The LCD writer *)

Bit(v, k) == IF (v \div 2^k) % 2 = 1 THEN "1" ELSE "0"

WriteNibble(v) ==
  [i \in 1 .. 4 |-> W(HD_DB + i - 1, Bit(v, i - 1))] \o <<W(HD_E, "0"), W(HD_E, "1")>>

\* Thirteen commands.
WriteByte(rs, b) == <<W(HD_RS, rs)>> \o WriteNibble(b[1]) \o WriteNibble(b[2])

\* All that the program sends: four nibbles, the commands 28, 0C, 01 and 06,
\* and the text.
Script ==
  LET text == [i \in 1 .. 13 * Len(Chars) |->
                 WriteByte("1", Chars[(i - 1) \div 13 + 1])[((i - 1) % 13) + 1]]
  IN WriteNibble(3) \o WriteNibble(3) \o WriteNibble(3) \o WriteNibble(2)
       \o WriteByte("0", <<2, 8>>) \o WriteByte("0", <<0, 12>>)
       \o WriteByte("0", <<0, 1>>) \o WriteByte("0", <<0, 6>>)
       \o text

ASSUME ScriptAssumption ==
  \A s \in Scenes : s.script <= Len(Script)

WriterStarts ==
  /\ Starts("lcdwrite", <<>>)
  /\ UNCHANGED <<scene, gpio, presses, sent, shown, display>>

WriterSends ==
  /\ Open("lcdwrite") /\ sent < scene.script
  /\ Len(toServer["lcdwrite"]) < MaxQueue /\ Len(toClient["lcd"]) < MaxQueue
  /\ sent' = sent + 1
  /\ Sends("lcdwrite", <<Script[sent + 1]>>)
  /\ UNCHANGED <<scene, life, gpio, presses, shown, display>>

\* It ends after the text, or is killed.
WriterEnds ==
  /\ Open("lcdwrite")
  /\ life' = [life EXCEPT !["lcdwrite"] = "over"]
  /\ Sends("lcdwrite", <<Bye>>)
  /\ UNCHANGED <<scene, gpio, presses, sent, shown, display>>

-----------------------------------------------------------------------------
(* The LCD *)

LcdStarts ==
  /\ Starts("lcd", Subscription(6))
  /\ UNCHANGED <<scene, gpio, presses, sent, shown, display>>

High(v) == IF v = "0" THEN 0 ELSE 1

Nibble(l) ==
  High(l[HD_DB]) + 2 * High(l[HD_DB + 1]) + 4 * High(l[HD_DB + 2]) + 8 * High(l[HD_DB + 3])

NextCursor(n) == IF n + 1 > LcdSize - 1 THEN 0 ELSE n + 1

\* A nibble v of a command; 06 clears the display.
CommandNibble(v) ==
  /\ prev_data' = <<>>
  /\ IF prev_cmnd = <<>>
       THEN prev_cmnd' = <<v>> /\ UNCHANGED <<lcd_init, lcd_cursor, lcd_text>>
       ELSE /\ prev_cmnd' = <<>>
            /\ IF prev_cmnd[1] = 0 /\ v = 6
                 THEN lcd_init' = TRUE /\ lcd_cursor' = 0 /\ lcd_text' = [i \in 0 .. LcdSize - 1 |-> <<>>]
                 ELSE UNCHANGED <<lcd_init, lcd_cursor, lcd_text>>

\* A nibble v of a character; lcd_update puts the character at the cursor.
DataNibble(v) ==
  /\ prev_cmnd' = <<>>
  /\ UNCHANGED lcd_init
  /\ \/ ~lcd_init /\ UNCHANGED <<prev_data, lcd_cursor, lcd_text>>
     \/ /\ lcd_init /\ prev_data = <<>>
        /\ prev_data' = <<v>>
        /\ UNCHANGED <<lcd_cursor, lcd_text>>
     \/ /\ lcd_init /\ prev_data # <<>>
        /\ prev_data' = <<>>
        /\ lcd_text' = [lcd_text EXCEPT ![lcd_cursor] = <<prev_data[1], v>>]
        /\ lcd_cursor' = NextCursor(lcd_cursor)

\* Mutant: any change of E is taken for its rising edge.
Latched_level(l) == l[HD_E] # "0"

Latched(l) == l[HD_E] # "0" /\ prev_E = "0"

pins_updated ==
  /\ Open("lcd") /\ Taken("lcd")
  /\ LET l == Head(toClient["lcd"])
     IN /\ shown' = [shown EXCEPT !["lcd"] = l]
        /\ prev_E' = l[HD_E]
        /\ \/ ~Latched(l) /\ UNCHANGED <<prev_cmnd, prev_data, lcd_init, lcd_cursor, lcd_text>>
           \/ Latched(l) /\ l[HD_RS] = "0" /\ CommandNibble(Nibble(l))
           \/ Latched(l) /\ l[HD_RS] # "0" /\ DataNibble(Nibble(l))
  /\ UNCHANGED <<scene, life, gpio, presses, sent>>

-----------------------------------------------------------------------------

Init ==
  /\ PanelInit
  /\ scene \in Scenes
  /\ life = [c \in Client |-> "new"]
  /\ last = [p \in PortPins |-> "P"] /\ reg = {} /\ port = "idle" /\ guest = 0
  /\ presses = 0 /\ sent = 0
  /\ shown = [c \in Client |-> AllX]
  /\ prev_E = "1" /\ prev_cmnd = <<>> /\ prev_data = <<>>
  /\ lcd_init = FALSE /\ lcd_cursor = 0 /\ lcd_text = [i \in 0 .. LcdSize - 1 |-> <<>>]

Serves(c) ==
  /\ found_terminator(c)
  /\ UNCHANGED <<scene, life, gpio, presses, sent, shown, display>>

Stopped == scene.stops /\ Stop /\ UNCHANGED <<scene, life, gpio, presses, sent, shown, display>>

Next ==
  \/ PortInit \/ (\E low \in GuestRegs : GuestWrites(low)) \/ GuestReads \/ PortGets
  \/ ButtonStarts \/ say_cb \/ ButtonQuits
  \/ LedStarts \/ LedUpdated
  \/ WriterStarts \/ WriterSends \/ WriterEnds
  \/ LcdStarts \/ pins_updated
  \/ (\E c \in Client : Serves(c)) \/ Stopped

Spec == Init /\ [][Next]_vars

-----------------------------------------------------------------------------
(* Properties *)

\* What the panel is for: a pin is at the level its strongest driver gives
\* it, in contention if two fight over it.
Driven(p, v) == \E c \in Connected(fd) : pins[c][p] = v
Fight(p) == Driven(p, "1") /\ Driven(p, "0")
Level(p) ==
  CASE Fight(p) -> "E"
    [] Driven(p, "1") /\ ~Driven(p, "0") -> "1"
    [] Driven(p, "0") /\ ~Driven(p, "1") -> "0"
    [] ~Driven(p, "1") /\ ~Driven(p, "0") /\ Driven(p, "P") -> "P"
    [] OTHER -> "X"

Watched(c) == IF c = "led" THEN {LED_PIN} ELSE IF c = "lcd" THEN Pin ELSE {}

\* What is on its way to a display, or else what it shows, is the present
\* level of its pins, from the moment its query has been answered: no change
\* is missed, whoever makes it, comes or goes.
DisplaysFollow ==
  \A c \in {"led", "lcd"} :
    (fd[c] # 0 /\ \A i \in DOMAIN toServer[c] : toServer[c][i].cmd \notin {"R", "NOTIFY"}) =>
      LET seen == IF toClient[c] = <<>> THEN shown[c] ELSE toClient[c][Len(toClient[c])]
      IN \A p \in Watched(c) : seen[p] = Level(p)

\* What the panel has, or will have, from the port is what the port remembers
\* to have sent, so that a change back is never mistaken for no change.
PortMirrored ==
  fd["port"] # 0 =>
    \A p \in PortPins :
      LET writes == {i \in DOMAIN toServer["port"] :
                       toServer["port"][i].cmd = "W" /\ toServer["port"][i].pin = p}
      IN last[p] = IF writes = {} THEN pins["port"][p]
                   ELSE toServer["port"][CHOOSE i \in writes : \A j \in writes : j <= i].val

\* The port takes the answer to its own question: never more than one is
\* under way, and none when the guest is not reading.
OneAnswer ==
  fd["port"] # 0 =>
    Len(toClient["port"])
      + Cardinality({i \in DOMAIN toServer["port"] : toServer["port"][i].cmd = "R"})
      = IF port = "reading" THEN 1 ELSE 0

\* The LCD after the first k characters.
Display(k) ==
  [i \in 0 .. LcdSize - 1 |->
     LET at == {j \in 1 .. k : (j - 1) % LcdSize = i}
     IN IF at = {} THEN <<>> ELSE Chars[CHOOSE j \in at : \A h \in at : h <= j]]

\* Whenever the LCD joins, it shows the text written so far or nothing.  A
\* writer that is killed with E low adds at most one wrong character.
LcdShowsText ==
  scene.clients = {"lcdwrite", "lcd"} =>
    \E k \in 0 .. Len(Chars) :
      \/ lcd_text = Display(k)
      \/ /\ life["lcdwrite"] = "over" \/ fd["lcdwrite"] = 0
         /\ \E v \in 0 .. 15 :
              lcd_text = [Display(k) EXCEPT ![k % LcdSize] = <<v, 15>>]

\* The extent of the harm a fight over a pin does.  Whatever the server still
\* says, it says "E" of the pins that are fought over and of no other.  But it
\* drops a program that has not ended, if a third is connected beside the two
\* that fight, and comes down itself with a fourth; with fewer it does neither.
ServerEndures ==
  [][/\ state = "up" /\ state' = "crashed" =>
          Cardinality(Connected(fd)) >= 4 /\ \E p \in Pin : Fight(p)
     /\ state' = "up" => \A c \in Connected(fd) \ Connected(fd') :
          \/ life[c] = "over"
          \/ /\ Cardinality(Connected(fd)) >= 3
             /\ \E p \in Pin, d, e \in Connected(fd) : pins'[d][p] = "1" /\ pins'[e][p] = "0"
     /\ \A c \in Client : \A i \in Len(toClient[c]) + 1 .. Len(toClient'[c]) :
          \A p \in Pin : toClient'[c][i][p] = "E" <=> Fight(p)']_vars

\* What the protocol promises of contention: a display that runs and has put
\* its question shows "E", or has it on its way, for every pin of its own that
\* two programs fight over.  With three programs the code breaks it: the
\* question itself raises, and the display is dropped instead of answered.
ContentionIndicated ==
  \A c \in {"led", "lcd"} :
    (Open(c) /\ \A i \in DOMAIN toServer[c] : toServer[c][i].cmd \notin {"R", "NOTIFY"}) =>
      LET seen == IF toClient[c] = <<>> THEN shown[c] ELSE toClient[c][Len(toClient[c])]
      IN \A p \in Watched(c) : Fight(p) => seen[p] = "E"
=============================================================================
