# A TLA+ verification project for Bifferboard

The repository holds the software for the Bifferboard, a small x86 (RDC S3282)
computer: build systems and kernels, a few kernel drivers written for the board,
tools that flash and configure it over the network, a serial line or JTAG, a
qemu machine that emulates it, and projects that run on it.  Linux, busybox,
OpenWrt, buildroot, qemu and seabios are vendored; this project is about the
code written for the board.

## 1. Inventory

| Part | Source | State | Operations | What makes it correct |
|---|---|---|---|---|
| NOR flash driver | `src/tiny/linux-2.6.37.6/drivers/biffnor.c` | the flash; per open file a position and a write buffer; for `/dev/biffboot` an image buffer | open, write, read, seek, release; erase, program and verify of the chip | what is written sequentially reads back; the configuration block and the boot sector are changed only by those entitled to |
| Upgrade device | `src/tiny/linux-2.6.37.6/drivers/biffupgrade.c` | one buffer and position for all openers | open, write, release | two openers must not mix their data |
| Network upload | `src/tools/bb_udp_upload.py`, `bb_eth_upload8.py`, `bb_eth_upload.py`; the board side in `bb_fake_udp_server.py` | client: phase, chunk, attempt; board: buffer, stored chunks | ATTN, ERASE, RESET, ADD, DIGEST, WRITE, RELEASE | the board stores the image or the tool reports a failure; the tool ends |
| Serial upload | `src/tools/bb_upload8.py`, `bb_upload.py` | console state of the boot loader | break in, transfer, flash | as above |
| Configuration tool | `src/tools/bb_eth_setconfig.py`, `make_config_block.py`, `read_config_block.py` | MAC field, status, current socket | poll threads, timer, Connect, Write | a whole block is written, to a board that has answered |
| GPIO over Ethernet | `src/tools/bb_eth_gpio.py` | - | set, get | - |
| BOOTP/TFTP server | `src/tools/bootp_server.py` | one transfer: file, block, active | request, data, ack, timeout | the file arrives whole, the server is ready for the next client |
| JTAG | `src/tools/jtag/*.py` | TAP state, flash | shift, poke, erase, program | TAP moves follow IEEE 1149.1 |
| Emulated flash | `src/qemu/hw/en29lv640.c` | command cycle, array | read, write cycles | the driver's command sequences have the effect the chip gives them |
| Emulated NIC | `src/qemu/hw/r6040.c` | descriptor rings, interrupt status | register access, transmit, receive | a packet is delivered once, descriptors are owned by one side |
| Emulated GPIO and panel | `src/qemu/hw/rdc-gpio.c`; `src/qemu/panel.py`, `button.py`, `led.py`, `hd44780.py`, `lcdwrite.py` | pins of each client, subscriptions; the port's last values | port access, socket messages | displays follow the pins, a read gets its own answer |
| Central heating | `src/projects/central_heating/*` | boiler state, target, message file | control loop, CGI, Arduino | hysteresis; no message is lost |
| Board utilities | `src/tiny/busybox-1.22.1/gpio/*.c`, `miscutils/wavplay.c`, `mixer.c`; `src/openwrt/package/feeds/bifferos/*` | - | command line programs | - |
| Builds | `src/tiny/build`, `src/buildroot/mkbiffrd.py`, `src/openwrt/.../mkimg_bifferboard.py`, `src/consolidate_feeds.py` | files | scripts | - |

How they interact: the upload tools and the driver write the same flash, in the
same rotated order (file chunk 0 in sector 3, the last three chunks in sectors
0 to 2, the configuration block in sector 2).  The driver talks to the chip in
command cycles, which the emulator interprets.  The upload tools talk to the
boot loader in request/reply packets over raw Ethernet or UDP.  The panel and
the emulator exchange pin states over a socket.

What is hard in this code: the order of erases and writes in the driver (a
sector is erased when its first chunk is written, and failures are only
logged); the file position shared by reads, writes and seeks; several files
open at once; power cuts; lost and late packets in the upload; ring ownership
in the NIC; races between threads in the configuration tool and between the
CGI scripts and the heating daemon.  `PROJECT.json` lists each at its line.

## 2. Plan

The order is by how much damage a fault does: first what writes the flash, then
what the board boots from, then the rest.

| Step | Module | State |
|---|---|---|
| 1 | **BiffNor**: the flash driver; **BiffNorProofs** | modelled, checked, proved |
| 2 | **BiffUpload** implementing **BiffFlasher**: the network upload; **BiffUploadProofs** | modelled, checked, proved |
| 3 | **Tftp**: the server the board boots from, against a client, with loss; **TftpProofs** | modelled, checked, proved |
| 4 | **Heating**: the daemon, the CGI programs and the Arduino; **HeatingProofs** | modelled, checked, proved |
| 5 | **R6040**: the emulated network card and the guest's driver; **R6040Proofs** | modelled, checked, proved |
| 6 | **En29lv640** implementing **NorArray**: the emulated chip's command cycles under both drivers' command sequences; **En29lv640Proofs** | modelled, checked, proved |
| 7 | **Panel**, and **PanelClients** on top of it: the panel server and the programs that use it; **PanelProofs** | modelled, checked, proved |
| 8 | **SetConfig**: the configuration tool's window and poll threads; **SetConfigProofs** | modelled, checked, proved |
| 9 | Proofs of what the panel promises its displays: `DisplaysFollow`, `ServerEndures`, `LcdShowsText` | done |

Each module is a component; the interactions modelled are those inside a module
(driver and chip, client and board, server and client, daemon, CGI programs and
Arduino, card, queue and guest, chip and two drivers, window, threads and
boards), and PanelClients, which composes Panel with five programs.  BiffUpload
is shown to implement BiffFlasher, En29lv640 to implement NorArray.

## 3. BiffNor: the flash driver

The flash is an array of 8K sectors (the driver's `FLASHMAP_CHUNK_SIZE`), a byte
the set of its one bits: erasing gives `Bits`, programming intersects.  An erase
sector is the span from a boundary to the next (`flashmap_isboundary`,
`EraseSpan`); a 1MB device has 16K:8K:8K:32K sectors at the bottom, the others
eight of 8K (the driver knows the 1MB layout but detects 8MB always, so the run
uses the latter and the proofs cover both).  `EON_ChunkToSector` is the rotation by three.

| Variable | Code |
|---|---|
| `chunk`, `byte` | `filepos` divided by the chunk size, and the remainder |
| `wbuf`, `wpos` | `write_buffer`, `write_buffer_pos` |
| `rem`, `udata` | what is left of the `write()` in progress, its data |
| `bopen`, `bbuf`, `bpos` | `/dev/biffboot` |
| `run`, `want`, `wlen`, `logged`, `faults`, `bricked`, `bimage` | history, for the properties |

Actions: `biffkernel_open`, `biffkernel_write` (the call), `WriteRound` (one
round of its loop, with the erase, the programming and the verification it ends
in), `WriteEnd`, `biffkernel_read`, `biffkernel_seek`, `biffkernel_release`,
`biffboot_open/write/release`, and the power cuts `PowerCut`, `PowerCutWriting`
(after the erase, between two words) and `PowerCutBoot`.  The board's kernels
are built without SMP and without preemption, so a handler is interrupted only
in `copy_from_user`: a round is atomic and rounds of two files interleave.  An
erase may fail; its result is ignored, as in the code.  A word whose cells lack
a bit may or may not be reported by the chip (`ProgramStops`).  `write()` data is
one repeated byte value per call.

* **nor** (8MB layout, two files and the boot device, three calls of 1 or 6 bytes
  out of 16 in the file, reads and seeks anywhere, one failing erase, power cuts):
  `TypeOK`, `BufferedMeansMoved`, `ConfigOnlyByItsChunk`, `RunReadsBack`,
  `RunVerifies`, `BootIsImage`.  The files are alike, so their permutations are a
  symmetry.

A *run* is what a file writes in sequence from a sector boundary on.  It counts on
the sectors it has written and on the blank rest of the erase sector it is in
(`Holds`); it ends with a read, and when another file erases or programs one of
these sectors (`Touched`, `Spared`), since nothing in the driver keeps two files
apart.  Whatever other files do elsewhere, interleaved with the run or later,
must not harm it.

Two bytes make a chunk, four chunks a 64K sector and eight the device: the
smallest sizes at which a chunk is filled by more than one call, an erase sector
holds several chunks, the device has a high sector and the rotation wraps; three
calls of three chunks write the whole file.  Two
data values with one bit each and erased or zeroed initial flash make every
wrong order of erase and program visible.

What the properties leave out, because the code does not have it: a tail of odd
length loses its last byte (`biffnor.c:434`, whole words only); bytes buffered
before a read, or after a seek into the middle of a chunk, are written to
another chunk than the one they belong to (`biffnor.c:510`), although the
comment on `buffer_write` takes the position to be right behind the buffer; two
files that write in the same erase sector destroy each other's data; a
power cut or a failing erase while the boot sector is replaced leaves the board
without a boot loader.

### Proofs

`BiffNorProofs` proves all of these for every geometry that satisfies
`GeometryAssumption` (an even chunk size, at least four chunks in 64K, a device
of a whole number of 64K blocks, 1, 4 or 8MB layout), every set of handles and
every input that satisfies `InputAssumption` (the flash at start holds bytes and
a boot loader that passes `sanity_check`); the bounds on calls and faults may have any value.

* `TypeCorrect`: `TypeOK` is inductive by itself.
* `BufferMoved`: by `PositionInv`, which adds `ClosedClean` (a closed handle has
  an empty buffer and position 0), since the buffer of a reopened handle is
  otherwise unknown.
* `ConfigSafe`, `BootSafe`: every step that changes the flash writes one chunk
  (`FileSteps`) or the boot area (`BootFrame`); the erase that precedes a write
  touches the span of its sector only, and spans of other chunks contain neither
  the configuration sector (`ConfigSpan`) nor the boot area (`SpanBounds`,
  `FileKeepsBoot`).
* `RunSafe`, `RunClean`: `RunReadsBack` is not inductive, as a chunk just written
  could be erased by the next.  `RunInv` adds that in a run the buffer begins on
  the position's chunk (`Aligned`), nothing is written at or after the position
  (`Ahead`), and that the rest of an erase sector the run has entered is blank
  (`Blank`).  The argument is `LaterErase`: in the rotated order, erasing the
  sector of a later chunk never reaches the sector of an earlier one.  It holds
  for the three chunks that wrap to the bottom because sector 3 is a boundary in
  every layout.  For the other files' steps, `FileFrame` says that a write changes
  what it touches only, and `RunStable` that a run depends on the sectors of
  `Holds` only.

## 4. BiffUpload and BiffFlasher: the network upload

`BiffFlasher` is what an upload tool promises: chunks of the image are stored
one after the other, nothing else is, and success is reported and the board
booted only when all are there; every upload ends with a report.

`BiffUpload` is one client for the three tools, which differ in the constants,
and the board as `bb_fake_udp_server.py` plays it.  `pc` is the command the client
sends next or how it ended; a packet may be lost when it is sent; a digest is
the buffer it was made from.  `Late` allows a timeout although the answer is on its
way, which the Ethernet tools' 50 ms permit; the UDP tool waits two seconds, and
the server answers at once.

* **upload_udp** (`bb_udp_upload.py`; images of up to three chunks of two pieces,
  three transfers per chunk, any loss, failing writes): `TypeOK`,
  `StoredIsImage`, and `ImplementsFlasher`, the refinement.
* **upload_erase** (`bb_eth_upload.py`, erases, size limit, late replies):
  `WritesInStep`, `Terminates`.
* **upload_late** (violation of `StoredIsImage`): `bb_eth_upload8.py` takes a
  late digest of the previous transfer for that of the current one.

Fairness: the client always has a step (its waits are bounded) and the server
serves what reaches it; nothing is assumed of the network.

### Proofs

`BiffUploadProofs`, for every image, chunk size, number of sectors, tries and
attempts, and every loss:

* `TypeCorrect`, by `TypeInv`, which says what the counters may be in each state.
* `WritesOnce` (`WritesInStep`), late replies included.  `StepInv` adds that of
  ERASE and WRITE, which are never repeated, at most one packet is under way, and
  then the client waits for it or has given up (`OneOut`); and what such a packet
  says of the chunks stored and the sectors erased (`WriteInv`, `EraseInv`).
* `StoredCorrect` (`StoredIsImage`) and `Implements`, both for a client that waits
  replies out (`~Late`), which is `bb_udp_upload.py`; run upload_late shows why
  the others are left out.  `ContentInv` says that the channels hold one transfer
  and the command waited for, so the digest compared is that of the buffer that
  is then written.  `Implements` is the refinement without its last conjunct:
  `BiffFlasher!SafeSpec` is `Init` and the steps of `BiffFlasher!Spec`.

## 5. Tftp: the boot server

`bootp_server.py` starts a thread for every request.  `thr`, `block`, `pos`,
`lastpkt` and `retry` are the thread's state; `requests`, `toServer` and
`toClient` the network, which loses up to `MaxLoss` packets; the client keeps to
RFC 1350 and is external.  A file is the number of its DATA packets.

How fast the client is decides what may happen, so a behaviour begins with a
choice from `Cases`: `timing` is "race" (timeouts race answers on both sides),
"prompt" (the server's timeout is longer than a round trip) or "patient" (the
client, too, outlasts all retries of the server), and `refuses` says whether the
client answers a second thread with an error.

* **tftp** (two threads of one client, one loss, files up to one block longer
  than the signed block number allows): `TypeOK`, `ReceivedInOrder`, `LockStep`,
  `ThreadsEnd`, `FileArrives`.  An error packet gives a thread a fresh count of
  retries; it ends because the client does.  `FileArrives` is for a patient client
  and fewer losses than retries, and excepts the loss of the last block: the
  thread does not wait for the acknowledgement of that one, so it is never sent
  again.

Fairness: threads, client and deliveries go on.  The bounds are the smallest
that let a retransmission cross an answer and leave a further retry.

### Proofs

`TftpProofs`: `TypeCorrect`, `Received` and `InLockStep`, for any number of threads,
every file, block and retry limit, loss and timing.  In the invariant, a thread's
block number is the number of pieces it has read; a thread the client does not
read from is stuck at its first block (`ThreadInv`); what a thread has under way
are blocks it has reached, and only the thread the client reads from is sent
acknowledgements, of blocks the client has (`FromThread`, `FromClient`).

## 6. Heating: the central heating project

`chmon`'s loop is one action per access to a shared file or to the serial line
(`CheckMessages` to `UpdateRelay`), a CGI program one per system call
(`PostMessage` ... `RenameMessage`, `OpenSetting` ... `RenameSetting`), the
Arduino one per byte (`Loop`).  Files are inodes behind names, since the races
are about names that change while a file is open.  Temperatures are in half
degrees.  Abstracted: a message's text is one symbol and the command characters
it contains (`codes`, which also stands for the byte that `decode` leaves
unset), all messages have one length, a file is read in one step.  An answer that is
cut off leaves its rest for the next round (`Cut`), which may hold no digit, in
which case `string_to_temp` falls back to its default; `TEMP_FILE` may fail to open,
which ends `get_temperature` early.  Other input and output does not fail.

A *scene* says which requests are made, what the files and the thermometer hold,
and how much goes wrong.

* **heat**, seven scenes: two messages; two settings, with and without a thermostat
  file at start; a message with a question mark beside a setting; a message or a
  setting with a restart, the latter with a failing file; the temperature around
  the hysteresis, with a restart and a failure; a broken sensor at -127 degrees.
  Answers may be a round late in all of them.  `TypeOK`, `ShownOnce`,
  `RelayFollows`, `NoChatter`; `Heats`, `MessageArrives`, `SettingArrives`.  Fairness:
  the daemon and the Arduino loop for ever, and a CGI program that was started ends.
* **heat_lost** (violation of `SentIsShown`): with two message requests the one that
  is told last that its message was sent to the LCD may never be shown.

What the properties leave out, because the code does not have it: the relay
latches, so a daemon restarted while it is on takes it for off (the comment at
`main.cpp:134` says "relay off at program start."), and a `+` or `-` in a message
or a negative temperature on the display is a relay command for the Arduino;
`tainted` records both, and `RelayFollows` excepts them.  Of two messages posted
at once one can be lost, and so can one that is renamed into place between the
daemon's opening and its removal of the file before it: this is heat_lost.  Two
settings at once share their temporary file in the same way, and a setting made
while the daemon, having found no file, is about to write the default is
overwritten.  `disturbed` records exactly the requests this happens to, and
`MessageArrives` and `SettingArrives` are about the others.  With three message requests
the daemon can find an empty file, which `TypeOK` allows.

### Proofs

`HeatingProofs`, for any number of requests, messages, settings, temperatures and
restarts (`MaxIno` only has to leave an inode for each file that can exist):

* `RelayKnown` (`RelayFollows`): inductive with the types.
* `MessagesOnce` (`ShownOnce`): a message is in one inode (`OnceInv`), the temporary
  file is neither the message file nor the one the daemon has open (`FileInv`),
  and what was shown, is on the line, and can still be put there is one message
  for each life of the daemon (`ShowInv`).
* `Hysteresis` (`NoChatter`), from `SwitchInv`: at the last switch the reading was
  beyond the hysteresis.
* `TypeCorrect`: messages and settings are kept apart (`FileInv`), whatever is opened,
  renamed and removed meanwhile.

## 7. R6040: the emulated network card

The card's descriptor rings, `MISR`, `MIER` and the interrupt line; qemu's queue,
which keeps a packet the card refuses and sets `receive_disabled`; and the guest's
Linux driver: `r6040_start_xmit`, the interrupt handler (`IsrEnter`, `IsrExit`)
and the poll function, one action per access to a register or descriptor (but for
`IsrEnter`, which reads and masks `MIER` and reads and clears `MISR` in one step: a
packet that arrives in between leaves the registers as one that arrives before).
qemu runs the card's handlers to their end, so packets arrive between those
actions.  The guest has one processor and takes an interrupt at once (`Runs`).

* **r6040** (two descriptors each way, budget 2, five packets in, four out, one
  failed allocation; the rings wrap twice and fill up): `TypeOK`,
  `PassedInOrder`, `SentInOrder`, `StoppedIsWoken`, `RingIsRead`.  Fairness: the
  guest's processor runs.

What the properties leave out, because the code does not have it: the card never
calls `qemu_flush_queued_packets`, so after one full ring the packets in qemu's
queue stay there (hazard at `r6040.c`).  Left out of the model: PHY, statistics, MAC filter, reset, interface up and down.

### Proofs

`R6040Proofs`: `TypeCorrect`, `SendingOrdered` (`SentInOrder`), `WakePending`
(`StoppedIsWoken`) and `ReceivingOrdered` (`PassedInOrder`), for every length of the
rings, budget and number of packets.  `TxInv`: between two steps the transmit ring
is empty, card and driver are at the same descriptor, and the queue is stopped
exactly when no descriptor is free.  `RxInv`: the filled descriptors are those from
the driver's `rx_remove` up to the card's next one, as many as are not owned by
the card, and hold the packets received last, in order.

## 8. En29lv640 and NorArray: the emulated flash chip

`NorArray` is what a driver may rely on: a job (erase, program, probe) is done at
once and completely, or, after a reset in the middle of an earlier one, not at
all; a chip that was interrupted is `deaf` to the next job only, unless that job
(`Deafens`) leaves it so, and may spoil a word of its own.

`En29lv640` is the chip: `g_state`, the command cycle, `g_backing`, the array, and
`file`, which it is loaded from and saved to.  A driver's job is a sequence of writes
(`EraseCycles`, `ProgramCycles`; `do_erase_oneblock`, `do_write_oneword` and
`ProbeCycles` are the kernel's CFI driver's), one `Write` each, interpreted by `write_w1` or `write_w2`.
`GuestReset` starts the guest again and leaves the chip as it is, since its state
is static; `Quit` ends the emulator and starts it from the file.  What reads
return in the query modes is any value (`Hidden`).  The probe's second round of query
and reset, for the extended query table, is left out: it begins and ends as the
first does.

* **chip** (both drivers, three jobs, two resets at any point, ordinary words and
  words that look like commands): `VerifyIsTruthful`: biffnor's verification of a
  program finds out whether the chip did it; `ProbeHeals`: after a probe
  the chip shows its array again; `ImplementsArray`, the refinement.

The addresses are the ones commands are sent to, one of each sector size and
their neighbours; two resets are what it takes to interrupt the job that would
have recovered the chip.

### Proofs

`En29lv640Proofs`: `VerifyTrue`, `ProbeCures` and `Refines` (`ImplementsArray`, all of
`NorArray!Spec`, which has no fairness), for every content of the array, every
sector but the one commands are sent to, every aligned word and any number of
jobs and resets.  The invariant says where a chip that has lost the driver's
track can be: `Strayed` for each write of a job, `Settled` after a program,
`Followed` from the first write of the kernel's probe on.

## 9. Panel and PanelClients: the GPIO panel

`Panel` is the server: `pins` and `notify` per client, `LastResolve`, the descriptors
`fd` that decide the order of arbitration, and the two streams of each
connection.  `found_terminator`, `handle_close` and `Accept` are the channel's
handlers.  An exception in a handler closes the channel; one in `handle_close`
ends the server, because asyncore then calls `handle_close` again and the channel
is no longer in the table.

`PanelClients` adds the port of the emulated board with a guest that reads and
writes it, a button, an LED, a program that writes a text on an LCD, and the LCD.
A *scene* says who takes part and how much they do.

* **panel**, three scenes: port, button and LED with a server that may be stopped;
  the LCD writer sending its whole initialisation and three characters to an LCD
  of two, joined and killed at any point; four programs on pin 0, which can
  bring the server down.  `DisplaysFollow`: what is on its way to a
  display, or shown, is the level its pins have now; `PortMirrored`: the port's
  record is what the panel has or will have; `OneAnswer`: a read of the port has
  exactly one answer under way and nobody else's; `LcdShowsText`: the LCD shows the
  text so far or nothing, plus one wrong character if the writer is killed with
  E low; `ServerEndures`: a client is dropped only if a third is connected beside
  two that fight over a pin, the server ends only with a fourth, and whatever the
  server still says of a pin is "E" exactly if it is fought over.
* **panel_contention** (violation of `ContentionIndicated`): contention is documented
  as "E" (`panel.py:43`, `led.py:12`), but the arbitration table has no row for it, so an
  LED that asks about a pin two others fight over is dropped instead of told.

What the properties leave out, because the code does not have it: with three
clients the sender of the next command, a bystander perhaps, is dropped, and a
guest that reads the port when the connection is lost never returns
(`port = "stuck"`).  Left out of the model: partial accesses to the data register,
the watchdog, other configuration registers, answers that arrive in pieces.  No
fairness: there are no liveness properties.  A scene has at most four programs,
for which the order of Python's dictionary is that of the descriptors.

### Proofs

`PanelProofs` has five theorems, for every scene, text, size of the LCD, number of
pins of the port and sequence of accesses.

`Answers` (`OneAnswer`) and `Mirrored` (`PortMirrored`) are about the port's
connection, from both ends.  The invariant: the port subscribes to nothing, so
nothing but an answer is sent to it; while the guest reads, either one question
is under way or one answer (`Conversation`); and the writes under way lead each
pin from what the panel has to what the port remembers (`Leads`).  That one write
goes out for each changed pin rests on `Ranks`, which counts the pins below a pin.
What levels the arbitration finds does not matter here, nor who is dropped.

`Displayed` (`DisplaysFollow`) and `Endures` (`ServerEndures`) rest on what the
arbitration gives for a whole table of drivers.  `ResolvePin` is a recursive
function; `Resolution` shows that it has the values its equation asks for and
`Means` says what the level after the first k programs is, by induction on k.  The
induction is written out: of the numbers at which a claim fails the least is taken
(`Ladder`).  The invariant `TableInv` adds to the types that commands are under way
only on open connections (`Lines`), that the levels last worked out are still those
of the table (`Resolves`: who joins drives nothing, and who leaves has the levels
worked out again), and that a display has subscribed to its pins before it asks,
and has seen or will see those levels once it is answered (`Follows`).  `Endures`
needs the count as well: the table fails on the third program at the earliest, and
again in `handle_close`, one program fewer, only if there was a fourth.

`TextDisplayed` (`LcdShowsText`) is about two programs that meet only through levels
some of which the LCD is never told.  Three steps:

* `ScriptPlaces` says which command is at each place of the writer's script, and
  `WriterAt(k, g, l)` what the writer drives after k commands, when E has changed g
  times (`ScriptMoves`: the next command keeps this).
* The LCD reads a nibble when E rises, so what it shows depends only on which
  change of E it last heard of (`LcdAt`); it hears of them one by one, and the data
  lines hold still at each (`AtEdge`, `LcdHears`).
* `TextInv` says that with these two alone on the panel there is a chain of such
  changes from the one the LCD last heard of, through the messages on their way to
  it, to the present (`Chain`, `Heard`), and that the writer's commands under way
  are the next of the script (`Writer`).  A writer that is gone leaves every line
  floating, which reads as high: if E was low this is one more edge, and the
  nibble 15 that the LCD then takes is the wrong character of `Marred`.

`Script` is written with a closed form for the text, not by recursion, so that its
places can be computed; `ScriptAssumption` says that no scene's bound exceeds it.

## 10. SetConfig: the configuration tool

`pc[Gui]` is the window (idle, in `Write`, or in the timer's callback), `pc[t]` a poll
thread; `soc`, `txt_status` and `atten_poll` are the attributes they share without a lock.
A step is one access to these, one frame sent or one received; `held` is a frame
received before the socket's broadcast address is replaced.  Each socket has a queue
of its own (`queue`), and two threads may find themselves on one.  The timer
(`OnCheckParamsValid`, then `UpdateWriteButton`) is apart from the clicks, so both
buttons lag behind.  Making a socket may fail and end the thread (`MakeSocket`).  A
block is transferred in one step that may lose all or some of it; boards are
external.  Every answer, to attention, digest or write, is under way in `late` until
it arrives, and may arrive after the 1 ms, 50 ms or 1 s that `Send` waits; `overdue`
records that the window has given up on one that does.

* **setconfig** (two boards and three users: a careful one with two connections,
  one perhaps to the broadcast address; a careful one who writes twice on one
  connection; and a hasty one with two connections and one write):
  `StoresWholeBlocks`, as long as no digest's answer is overdue; `WritesUndisturbed`: a
  careful user's write is for a board that has answered and no poll takes its
  answers; `WrittenIsTrue`, as long as no answer to the window is overdue; `QuitEnds`
  under weak fairness of the threads, which the operating system's scheduler gives.

What the properties leave out, because the code does not have it: an overdue
answer stays on the socket and is taken, by its type alone, for the answer to the
next attempt or the next write, so a broken block can be stored and reported as
written; upload_late shows it for the same `Send`, `Receive` and `Transfer`.  A hasty
user's write may go to a board that has not answered and lose its answers to a
poll; hasty and on the broadcast address, two threads may bind one socket to two
boards, and the request to write then reaches a board whose buffer nobody has
checked; hasty and writing twice, the user may move to a second socket of the
same board, on which the answer to the first write's digest still waits.
`StoresWholeBlocks` and `WrittenIsTrue` except these two kinds of user (`Cautious`).
In the first tenth of a second the Write button is sensitive without a socket, and the
callback ends in an exception.  A queue of one frame suffices: a frame that finds it
full is lost, as any frame may be.

### Proofs

`SetConfigProofs`: `WholeBlocks` (`StoresWholeBlocks`), `Undisturbed`
(`WritesUndisturbed`) and `ReportsTrue` (`WrittenIsTrue`), for any number of boards,
threads, clicks, tries and frames in a queue, any loss and any delay.  The invariant
is `Cautious => Core /\ Answers`.  `Core` says who uses which socket: a careful user has
one thread at a time and none during a write (`CarefulInv`); a hasty one writes
once, so while the window is busy nothing was asked before (`HastyInv`); every frame comes from a board
that is at attention (`Heard`), and the peer of a write does not change (`Writing`).
`Answers` follows the answers to the window wherever they are, under way or in the
queue of any socket: unless one is overdue, there is none of a type that the window
does not wait for, and one at most of the type it waits for, and it tells the truth;
and the board's buffer is the block once the digest has been compared.

## 11. Checked and proved

The theorems are about the same definitions the runs check.  Each module's
invariant was checked by TLC on the run's instance before it was proved, and each
proof is the same three steps: the invariant holds initially, every action keeps
it (one lemma per action or kind of action), and it implies the property.  The
assumptions are the `ASSUME`s of the modules, which TLC evaluates on every run,
and the hypothesis `~Late` of `StoredCorrect` and `Implements`.  What a property itself
excepts (a power cut in the boot sector, text that switches the relay, a user who is
not `Cautious`, an overdue answer) the theorem excepts too.

| Module | Proved for every value of the constants | Only model-checked |
|---|---|---|
| BiffNor | `TypeOK`, `BufferedMeansMoved`, `ConfigOnlyByItsChunk`, `BootIsImage`, `RunReadsBack`, `RunVerifies` | - |
| BiffUpload | `TypeOK`, `WritesInStep`, `StoredIsImage`, safety half of `ImplementsFlasher` | `Terminates`, the liveness half of the refinement |
| Tftp | `TypeOK`, `ReceivedInOrder`, `LockStep` | `ThreadsEnd`, `FileArrives` |
| Heating | `TypeOK`, `RelayFollows`, `ShownOnce`, `NoChatter` | `Heats`, `MessageArrives`, `SettingArrives` |
| R6040 | `TypeOK`, `SentInOrder`, `PassedInOrder`, `StoppedIsWoken` | `RingIsRead` |
| En29lv640 | `VerifyIsTruthful`, `ProbeHeals`, `ImplementsArray` | - |
| PanelClients | `OneAnswer`, `PortMirrored`, `DisplaysFollow`, `ServerEndures`, `LcdShowsText` | - |
| SetConfig | `StoresWholeBlocks`, `WritesUndisturbed`, `WrittenIsTrue` | `QuitEnds` |

What is only model-checked is liveness, which is out of the prover's reach: every
invariant and every action property of a passing run is also a theorem.  The
library's induction theorems cannot be applied, since they take an operator as a
parameter; where a claim about a recursive function or a count needs induction,
the proof takes the least number at which the claim fails and shows that there is
none.

Deadlock checking is off where the system may stop (an upload or a transfer that has
ended, a bounded number of packets, jobs or clicks).

Every property has a mutant in `PROJECT.json`: a changed definition, kept in the
module above the original, under which TLC finds the property violated.

## 12. Not modelled

* `biffboot_read` (moves only its own position) and two simultaneous openers of
  `/dev/biffboot`.
* `biffupgrade.c`: not in the Makefile; replaced by `/dev/biffboot`.
* Serial upload: prompts and answers of the boot loader's console, which is not
  in the repository; its transfer is that of BiffUpload without loss.
* JTAG tools: bit sequences for a debug unit the repository does not describe.
* Command line utilities, builds, GPIO over Ethernet: no state of their own.
* Vendored code, but for the guest's network driver and qemu's packet queue as
  far as the card meets them.

Running: `tlc -config <cfg> <MC module>` for each run in `PROJECT.json`, `tlapm
<module>` for the proofs in the eight `*Proofs` modules (20 seconds to two minutes
each).
