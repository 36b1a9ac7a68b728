-------------------------------- MODULE R6040 --------------------------------
(***************************************************************************)
(* The emulated RDC R6040 network card (qemu/hw/r6040.c) between the       *)
(* packet queue of qemu and the Linux driver that runs in the guest        *)
(* (drivers/net/r6040.c): two rings of descriptors in guest memory, an     *)
(* interrupt status register that is cleared by reading it, an enable      *)
(* register, and one interrupt line.                                       *)
(*                                                                         *)
(* A packet is its number in the order it was sent, a descriptor the flag  *)
(* DSC_OWNER_MAC and the packet in its buffer.  qemu runs a handler of the *)
(* card to its end, so a register access is one step and a packet arrives  *)
(* between any two of them.  The guest has one processor: its interrupt    *)
(* handler interrupts the poll function but not itself.  The handler's     *)
(* first accesses (MIER read, MIER masked, MISR read and cleared) are one  *)
(* step, IsrEnter: a packet that arrives between them is one that arrives  *)
(* before the first, which leaves the same registers, or after the last.   *)
(***************************************************************************)
EXTENDS Naturals, Sequences, FiniteSets

CONSTANTS
  RxCount,   \* receive descriptors, RX_DCNT
  TxCount,   \* transmit descriptors, TX_DCNT
  Budget,    \* packets one poll may process
  MaxRx,     \* bound on the packets the host sends
  MaxTx,     \* bound on the packets the guest sends
  MaxFail    \* bound on the buffers the guest fails to allocate

ASSUME RingAssumption ==
  /\ RxCount \in Nat \ {0} /\ TxCount \in Nat \ {0} /\ Budget \in Nat \ {0}
  /\ MaxRx \in Nat /\ MaxTx \in Nat /\ MaxFail \in Nat

RxDesc == 0 .. RxCount - 1
TxDesc == 0 .. TxCount - 1

\* Mutant: the ring is not closed.
RxNext_open(i) == i + 1

\* The descriptor a descriptor points to: the last one points to the first.
RxNext(i) == (i + 1) % RxCount
TxNext(i) == (i + 1) % TxCount

VARIABLES
  rxOwn, rxBuf,      \* receive ring: owned by the card, packet
  txOwn, txBuf,      \* transmit ring
  misr, mier, irq,   \* MISR and MIER as sets of "rx" and "tx", the interrupt line
  rxStart, txStart,  \* RX_START and TX_START
  disabled,          \* receive_disabled of the card's queue
  queue,             \* packets the queue keeps for later
  hostSent,          \* packets the host has sent
  wire,              \* packets the card has sent
  isr, saved, status,       \* interrupt handler: running, its misr and status
  poll, work, pollMier,     \* poll function: where it is, its work, the MIER it read
  napi,              \* NAPI_STATE_SCHED
  rxRemove, txInsert, txRemove, txFree,
  stopped,           \* the transmit queue is stopped
  guestSent,         \* packets the guest has sent
  passed,            \* packets passed to the guest's network stack
  dropped            \* packets dropped for lack of a buffer

rings == <<rxOwn, rxBuf, txOwn, txBuf>>
card == <<misr, mier, irq, rxStart, txStart>>
host == <<disabled, queue, hostSent>>
handler == <<isr, saved, status>>
poller == <<poll, work, pollMier, napi, rxRemove, passed, dropped>>
xmit == <<txInsert, txRemove, txFree, stopped, guestSent>>
vars == <<rings, card, host, wire, handler, poller, xmit>>

-----------------------------------------------------------------------------
(* The card *)

\* r6040_update_irq, after the registers have their new values.
update_irq == irq' = (misr' \cap mier' # {})

\* Mutant: the descriptor's owner is not looked at.
MacOwns_any(i) == TRUE

MacOwns(i) == rxOwn[i]

\* ReceiveOnePacket of packet p.
ReceiveOnePacket(p) ==
  /\ rxOwn' = [rxOwn EXCEPT ![rxStart] = FALSE]
  /\ rxBuf' = [rxBuf EXCEPT ![rxStart] = p]
  /\ misr' = misr \cup {"rx"}
  /\ UNCHANGED mier
  /\ update_irq
  /\ rxStart' = RxNext(rxStart)

\* The host sends a packet: it is received, or kept by the queue, which from
\* then on does not offer the card any (qemu_vlan_deliver_packet).
HostSends ==
  /\ hostSent < MaxRx
  /\ hostSent' = hostSent + 1
  /\ \/ /\ ~disabled /\ MacOwns(rxStart)
        /\ ReceiveOnePacket(hostSent + 1)
        /\ UNCHANGED <<disabled, queue>>
     \/ /\ disabled \/ ~MacOwns(rxStart)
        /\ disabled' = TRUE
        /\ queue' = Append(queue, hostSent + 1)
        /\ UNCHANGED <<rxOwn, rxBuf, misr, mier, irq, rxStart>>
  /\ UNCHANGED <<txOwn, txBuf, txStart, wire, handler, poller, xmit>>

\* How many packets r6040_transmit sends: those of the descriptors that the
\* card owns, from TX_START on.
TxRun(own) ==
  LET owned(n) == \A k \in 0 .. n - 1 : own[(txStart + k) % TxCount]
  IN CHOOSE n \in 0 .. TxCount : owned(n) /\ (n = TxCount \/ ~owned(n + 1))

\* Mutant: TX_START stays where it is.
r6040_transmit_stays(own, buf) ==
  LET n == TxRun(own)
  IN /\ wire' = wire \o [k \in 1 .. n |-> buf[(txStart + k - 1) % TxCount]]
     /\ txOwn' = [i \in TxDesc |->
                    own[i] /\ \A k \in 0 .. n - 1 : i # (txStart + k) % TxCount]
     /\ txBuf' = buf
     /\ UNCHANGED txStart
     /\ misr' = IF n > 0 THEN misr \cup {"tx"} ELSE misr
     /\ UNCHANGED mier
     /\ IF n > 0 THEN update_irq ELSE UNCHANGED irq

\* r6040_transmit with the ring (own, buf).
r6040_transmit(own, buf) ==
  LET n == TxRun(own)
  IN /\ wire' = wire \o [k \in 1 .. n |-> buf[(txStart + k - 1) % TxCount]]
     /\ txOwn' = [i \in TxDesc |->
                    own[i] /\ \A k \in 0 .. n - 1 : i # (txStart + k) % TxCount]
     /\ txBuf' = buf
     /\ txStart' = (txStart + n) % TxCount
     /\ misr' = IF n > 0 THEN misr \cup {"tx"} ELSE misr
     /\ UNCHANGED mier
     /\ IF n > 0 THEN update_irq ELSE UNCHANGED irq

-----------------------------------------------------------------------------
(* The driver: sending *)

\* The guest runs code other than the interrupt handler only when the line is
\* down: an interrupt is taken at once.
Runs == isr = "idle" /\ ~irq

\* r6040_start_xmit, with interrupts off: called for a packet of the guest's
\* own or, from the loop of r6040_rx, to answer one.
r6040_start_xmit ==
  /\ Runs /\ poll \in {"idle", "rx"}
  /\ ~stopped /\ guestSent < MaxTx
  /\ guestSent' = guestSent + 1
  /\ txFree' = txFree - 1
  /\ r6040_transmit([txOwn EXCEPT ![txInsert] = TRUE],
                    [txBuf EXCEPT ![txInsert] = guestSent + 1])
  /\ txInsert' = TxNext(txInsert)
  /\ stopped' = (txFree = 1)
  /\ UNCHANGED <<rxOwn, rxBuf, rxStart, host, handler, poller, txRemove>>

\* Descriptors r6040_tx frees: those sent and not yet freed.
TxDone ==
  LET freed(n) == \A k \in 0 .. n - 1 : ~txOwn[(txRemove + k) % TxCount]
      most == TxCount - txFree
  IN CHOOSE n \in 0 .. most : freed(n) /\ (n = most \/ ~freed(n + 1))

r6040_tx ==
  /\ txRemove' = (txRemove + TxDone) % TxCount
  /\ txFree' = txFree + TxDone
  /\ stopped' = (stopped /\ txFree + TxDone = 0)
  /\ UNCHANGED <<txInsert, guestSent>>

-----------------------------------------------------------------------------
(* The driver: interrupts *)

\* The line is up: MIER is saved and masked, MISR read and cleared.
IsrEnter ==
  /\ irq /\ isr = "idle"
  /\ isr' = "running"
  /\ saved' = mier
  /\ status' = misr
  /\ mier' = {} /\ misr' = {} /\ irq' = FALSE
  /\ UNCHANGED <<rings, rxStart, txStart, host, wire, poller, xmit>>

\* Mutant: one cause is served at a time.
TxServed_alone == status = {"tx"}

TxServed == "tx" \in status

\* The causes are served and MIER is restored, without the receive interrupt
\* if that is left to the poll function.
IsrExit ==
  /\ isr = "running"
  /\ isr' = "idle"
  /\ napi' = (napi \/ "rx" \in status)
  /\ IF TxServed THEN r6040_tx ELSE UNCHANGED xmit
  /\ mier' = IF "rx" \in status THEN saved \ {"rx"} ELSE saved
  /\ UNCHANGED misr
  /\ update_irq
  /\ UNCHANGED <<rings, rxStart, txStart, host, wire, saved, status, poll, work, pollMier,
                 rxRemove, passed, dropped>>

-----------------------------------------------------------------------------
(* The driver: polling *)

PollStart ==
  /\ Runs /\ poll = "idle" /\ napi
  /\ poll' = "rx" /\ work' = 0
  /\ UNCHANGED <<rings, card, host, wire, handler, pollMier, napi, rxRemove, passed, dropped,
                 xmit>>

\* One round of the loop of r6040_rx; without a new buffer the packet is
\* dropped and the descriptor keeps its buffer.
PollRx ==
  /\ Runs /\ poll = "rx"
  /\ work < Budget /\ ~rxOwn[rxRemove]
  /\ \/ /\ passed' = Append(passed, rxBuf[rxRemove])
        /\ UNCHANGED dropped
     \/ /\ dropped < MaxFail
        /\ dropped' = dropped + 1
        /\ UNCHANGED passed
  /\ rxOwn' = [rxOwn EXCEPT ![rxRemove] = TRUE]
  /\ rxRemove' = RxNext(rxRemove)
  /\ work' = work + 1
  /\ UNCHANGED <<rxBuf, txOwn, txBuf, card, host, wire, handler, poll, pollMier, napi, xmit>>

\* The loop ends; a poll that used its budget is called again.
PollLeave ==
  /\ Runs /\ poll = "rx"
  /\ \/ work = Budget /\ poll' = "idle"
     \/ work < Budget /\ rxOwn[rxRemove] /\ poll' = "complete"
  /\ UNCHANGED <<rings, card, host, wire, handler, work, pollMier, napi, rxRemove, passed,
                 dropped, xmit>>

\* napi_complete, and MIER is read.
PollComplete ==
  /\ Runs /\ poll = "complete"
  /\ poll' = "enable"
  /\ napi' = FALSE
  /\ pollMier' = mier
  /\ UNCHANGED <<rings, card, host, wire, handler, work, rxRemove, passed, dropped, xmit>>

\* Mutant: MIER is written back as it was.
EnabledAgain_not == pollMier

EnabledAgain == pollMier \cup {"rx"}

\* MIER is written.
PollEnable ==
  /\ Runs /\ poll = "enable"
  /\ poll' = "idle"
  /\ mier' = EnabledAgain
  /\ UNCHANGED misr
  /\ update_irq
  /\ UNCHANGED <<rings, rxStart, txStart, host, wire, handler, work, pollMier, napi, rxRemove,
                 passed, dropped, xmit>>

-----------------------------------------------------------------------------

\* The interface is up: r6040_up has set up the rings and the registers.
Init ==
  /\ rxOwn = [i \in RxDesc |-> TRUE] /\ rxBuf = [i \in RxDesc |-> 0]
  /\ txOwn = [i \in TxDesc |-> FALSE] /\ txBuf = [i \in TxDesc |-> 0]
  /\ misr = {} /\ mier = {"rx", "tx"} /\ irq = FALSE
  /\ rxStart = 0 /\ txStart = 0
  /\ disabled = FALSE /\ queue = <<>> /\ hostSent = 0 /\ wire = <<>>
  /\ isr = "idle" /\ saved = {} /\ status = {}
  /\ poll = "idle" /\ work = 0 /\ pollMier = {} /\ napi = FALSE
  /\ rxRemove = 0 /\ passed = <<>> /\ dropped = 0
  /\ txInsert = 0 /\ txRemove = 0 /\ txFree = TxCount /\ stopped = FALSE /\ guestSent = 0

Isr == IsrEnter \/ IsrExit
Poll == PollStart \/ PollRx \/ PollLeave \/ PollComplete \/ PollEnable

Next == HostSends \/ r6040_start_xmit \/ Isr \/ Poll

\* The guest's processor runs: interrupts are taken and the poll function is
\* called when it is scheduled.
Fairness == WF_vars(Isr) /\ WF_vars(Poll)

Spec == Init /\ [][Next]_vars
FairSpec == Spec /\ Fairness

-----------------------------------------------------------------------------
(* Properties *)

\* Every variable has its type.
TypeOK ==
  /\ rxOwn \in [RxDesc -> BOOLEAN] /\ rxBuf \in [RxDesc -> 0 .. MaxRx]
  /\ txOwn \in [TxDesc -> BOOLEAN] /\ txBuf \in [TxDesc -> 0 .. MaxTx]
  /\ {misr, mier, saved, status, pollMier} \subseteq SUBSET {"rx", "tx"}
  /\ {irq, disabled, napi, stopped} \subseteq BOOLEAN
  /\ {rxStart, rxRemove} \subseteq RxDesc /\ {txStart, txInsert, txRemove} \subseteq TxDesc
  /\ isr \in {"idle", "running"} /\ poll \in {"idle", "rx", "complete", "enable"}
  /\ txFree \in 0 .. TxCount /\ work \in 0 .. Budget /\ dropped \in 0 .. MaxFail

\* The packets passed to the guest's stack are those the card received, in
\* order, less the dropped ones: no descriptor is handed over twice or read
\* before the card has filled it.
PassedInOrder ==
  /\ \A i, j \in DOMAIN passed : i < j => passed[i] < passed[j]
  /\ \A i \in DOMAIN passed : passed[i] \in 1 .. hostSent
  /\ Len(passed) + dropped + Cardinality({i \in RxDesc : ~rxOwn[i]}) + Len(queue) = hostSent

\* What the guest sends goes out once and in order, and a descriptor is freed
\* only when its packet has gone out.
SentInOrder ==
  /\ \A i \in DOMAIN wire : wire[i] = i
  /\ Len(wire) = guestSent
  /\ \A i \in TxDesc : ~txOwn[i]

\* The transmit queue does not stay stopped: there is a transmit interrupt
\* pending, or the handler is about to wake it.
StoppedIsWoken ==
  stopped => "tx" \in misr \/ (isr = "running" /\ "tx" \in status)

\* A packet in the receive ring is passed to the stack, or dropped.
RingIsRead ==
  \A i \in RxDesc : ~rxOwn[i] ~> rxOwn[i]
=============================================================================
