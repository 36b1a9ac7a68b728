------------------------------ MODULE R6040Proofs ------------------------------
(* What holds of the emulated card and its driver for every length of the   *)
(* rings, every budget and every number of packets.                         *)
EXTENDS R6040, FiniteSetTheorems, TLAPS

-----------------------------------------------------------------------------
(* Positions in a ring *)

\* The descriptor k places after descriptor i in a ring of n.
At(n, i, k) == (i + k) % n

\* A place in the ring, without the remainder.
LEMMA AtValue ==
  ASSUME NEW n \in Nat \ {0}, NEW i \in 0 .. n - 1, NEW k \in 0 .. n
  PROVE  /\ At(n, i, k) = IF i + k < n THEN i + k ELSE i + k - n
         /\ At(n, i, k) \in 0 .. n - 1
  <1>1. CASE i + k < n
    <2>1. i + k \in 0 .. n - 1 BY <1>1
    <2>2. (i + k) % n = i + k BY <2>1
    <2> QED BY <1>1, <2>1, <2>2 DEF At
  <1>2. CASE i + k >= n
    <2>1. i + k \in n .. 2 * n - 1 BY <1>2
    <2>2. (i + k) % n = i + k - n BY <2>1
    <2> QED BY <1>2, <2>1, <2>2 DEF At
  <1> QED BY <1>1, <1>2

\* Different places within one round are different descriptors.
LEMMA AtInjective ==
  ASSUME NEW n \in Nat \ {0}, NEW i \in 0 .. n - 1,
         NEW k \in 0 .. n - 1, NEW l \in 0 .. n - 1, k # l
  PROVE  At(n, i, k) # At(n, i, l)
  <1>1. At(n, i, k) = IF i + k < n THEN i + k ELSE i + k - n
    <2>1. k \in 0 .. n OBVIOUS
    <2> QED BY <2>1, AtValue
  <1>2. At(n, i, l) = IF i + l < n THEN i + l ELSE i + l - n
    <2>1. l \in 0 .. n OBVIOUS
    <2> QED BY <2>1, AtValue
  <1> QED BY <1>1, <1>2

\* Places counted from the next descriptor are one less.
LEMMA AtNext ==
  ASSUME NEW n \in Nat \ {0}, NEW i \in 0 .. n - 1, NEW k \in 0 .. n - 1
  PROVE  /\ At(n, i, 1) \in 0 .. n - 1
         /\ At(n, At(n, i, 1), k) = At(n, i, k + 1)
  <1>1. At(n, i, 1) \in 0 .. n - 1 /\ At(n, i, 1) = IF i + 1 < n THEN i + 1 ELSE i + 1 - n
    <2>1. 1 \in 0 .. n OBVIOUS
    <2> QED BY <2>1, AtValue
  <1>2. At(n, i, k + 1) = IF i + (k + 1) < n THEN i + (k + 1) ELSE i + (k + 1) - n
    <2>1. k + 1 \in 0 .. n OBVIOUS
    <2> QED BY <2>1, AtValue
  <1> DEFINE j == At(n, i, 1)
  <1>3. j \in 0 .. n - 1 BY <1>1
  <1> HIDE DEF j
  <1>4. At(n, j, k) = IF j + k < n THEN j + k ELSE j + k - n BY <1>3, AtValue
  <1> QED BY <1>1, <1>2, <1>4 DEF j

-----------------------------------------------------------------------------
(* Sending *)

\* What the driver's counters and the transmit ring agree on between two
\* steps: the ring is empty, since the card sends on every register write, and
\* the queue is stopped exactly when no descriptor is free.
TxInv ==
  /\ txOwn = [i \in TxDesc |-> FALSE]
  /\ txBuf \in [TxDesc -> Nat]
  /\ txStart = txInsert /\ txInsert \in TxDesc /\ txRemove \in TxDesc
  /\ txFree \in 0 .. TxCount
  /\ stopped = (txFree = 0)
  /\ guestSent \in 0 .. MaxTx
  /\ wire = [i \in 1 .. guestSent |-> i]

\* One packet in an empty ring is one packet to send.
LEMMA OneRun ==
  ASSUME TxInv
  PROVE  TxRun([txOwn EXCEPT ![txInsert] = TRUE]) = 1
  <1> DEFINE own == [txOwn EXCEPT ![txInsert] = TRUE]
             owned(n) == \A k \in 0 .. n - 1 : own[(txStart + k) % TxCount]
             P(n) == owned(n) /\ (n = TxCount \/ ~owned(n + 1))
  <1>0. TxCount \in Nat \ {0} /\ txStart \in 0 .. TxCount - 1
    BY RingAssumption DEF TxInv, TxDesc
  <1>1. ASSUME NEW k \in 0 .. TxCount - 1
        PROVE  own[(txStart + k) % TxCount] <=> k = 0
    <2>1. At(TxCount, txStart, k) \in TxDesc /\ At(TxCount, txStart, 0) = txStart
      BY <1>0, AtValue DEF TxDesc
    <2>2. k # 0 => At(TxCount, txStart, k) # txStart
      BY <1>0, <2>1, AtInjective
    <2>3. own[At(TxCount, txStart, k)] <=> k = 0
      BY <2>1, <2>2 DEF TxInv
    <2> QED BY <2>3 DEF At
  <1> HIDE DEF own
  <1>2. owned(1)
    BY <1>0, <1>1
  <1>3. TxCount # 1 => ~owned(2)
    <2> SUFFICES ASSUME TxCount # 1 PROVE ~owned(2) OBVIOUS
    <2>1. 1 \in 0 .. TxCount - 1 BY <1>0
    <2>2. ~own[(txStart + 1) % TxCount] BY <1>1, <2>1
    <2> QED BY <2>2
  <1>4. 1 \in 0 .. TxCount /\ P(1) BY <1>0, <1>2, <1>3
  <1>5. ASSUME NEW n \in 0 .. TxCount, P(n) PROVE n = 1
    <2>1. CASE n = 0
      BY <1>0, <1>2, <1>5, <2>1
    <2>2. CASE n > 1
      <3>1. 1 \in 0 .. n - 1 /\ 1 \in 0 .. TxCount - 1 BY <2>2, <1>0
      <3> QED BY <1>1, <1>5, <3>1
    <2> QED BY <2>1, <2>2
  <1>6. (CHOOSE n \in 0 .. TxCount : P(n)) = 1
    BY <1>4, <1>5
  <1> QED BY <1>6 DEF TxRun, own

\* Everything sent is freed.
LEMMA AllDone ==
  ASSUME TxInv
  PROVE  TxDone = TxCount - txFree
  <1> DEFINE freed(n) == \A k \in 0 .. n - 1 : ~txOwn[(txRemove + k) % TxCount]
             most == TxCount - txFree
             P(n) == freed(n) /\ (n = most \/ ~freed(n + 1))
  <1>0. TxCount \in Nat \ {0} /\ txRemove \in 0 .. TxCount - 1 /\ most \in 0 .. TxCount
    BY RingAssumption DEF TxInv, TxDesc
  <1>1. ASSUME NEW k \in 0 .. TxCount - 1
        PROVE  ~txOwn[(txRemove + k) % TxCount]
    <2>1. At(TxCount, txRemove, k) \in TxDesc BY <1>0, AtValue DEF TxDesc
    <2> QED BY <2>1 DEF TxInv, At
  <1>2. ASSUME NEW n \in 0 .. TxCount PROVE freed(n)
    <2>1. \A k \in 0 .. n - 1 : k \in 0 .. TxCount - 1 BY <1>0
    <2> QED BY <1>1, <2>1
  <1>3. most \in 0 .. most /\ P(most) BY <1>0, <1>2
  <1>4. ASSUME NEW n \in 0 .. most, P(n) PROVE n = most
    <2>1. n # most => n + 1 \in 0 .. TxCount BY <1>0
    <2> QED BY <1>2, <1>4, <2>1
  <1>5. (CHOOSE n \in 0 .. most : P(n)) = most
    BY <1>3, <1>4
  <1> QED BY <1>5 DEF TxDone

\* r6040_start_xmit sends its packet at once and leaves the ring empty.
LEMMA XmitSends ==
  ASSUME TxInv, r6040_start_xmit
  PROVE  /\ txOwn' = [i \in TxDesc |-> FALSE]
         /\ txBuf' \in [TxDesc -> Nat] /\ txBuf' = [txBuf EXCEPT ![txInsert] = guestSent + 1]
         /\ txStart' = txInsert' /\ txInsert' \in TxDesc
         /\ wire' = [i \in 1 .. guestSent' |-> i]
         /\ misr' = misr \cup {"tx"} /\ mier' = mier /\ irq' \in BOOLEAN
  <1> DEFINE own == [txOwn EXCEPT ![txInsert] = TRUE]
             buf == [txBuf EXCEPT ![txInsert] = guestSent + 1]
  <1>0. TxCount \in Nat \ {0} /\ txStart \in 0 .. TxCount - 1 /\ guestSent \in Nat
    BY RingAssumption DEF TxInv, TxDesc
  <1>1. TxRun(own) = 1 BY OneRun
  <1>2. At(TxCount, txStart, 0) = txStart /\ At(TxCount, txStart, 1) \in TxDesc
    <2>1. 0 \in 0 .. TxCount /\ 1 \in 0 .. TxCount BY <1>0
    <2> QED BY <1>0, <2>1, AtValue DEF TxDesc
  <1>3. (txStart + 0) % TxCount = txStart /\ (txStart + 1) % TxCount \in TxDesc
    BY <1>2 DEF At
  <1>4. r6040_transmit(own, buf) BY DEF r6040_start_xmit
  <1> HIDE DEF own, buf
  <1>5. /\ wire' = wire \o [k \in 1 .. 1 |-> buf[(txStart + k - 1) % TxCount]]
        /\ txOwn' = [i \in TxDesc |->
                       own[i] /\ \A k \in 0 .. 0 : i # (txStart + k) % TxCount]
        /\ txBuf' = buf
        /\ txStart' = (txStart + 1) % TxCount
        /\ misr' = misr \cup {"tx"} /\ mier' = mier
        /\ irq' = (misr' \cap mier' # {})
    BY <1>1, <1>4 DEF r6040_transmit, update_irq
  <1>6. [k \in 1 .. 1 |-> buf[(txStart + k - 1) % TxCount]] = <<guestSent + 1>>
    <2>1. ASSUME NEW k \in 1 .. 1 PROVE buf[(txStart + k - 1) % TxCount] = guestSent + 1
      <3>1. txStart + k - 1 = txStart + 0 BY <1>0
      <3>2. (txStart + k - 1) % TxCount = txStart BY <1>3, <3>1
      <3> QED BY <3>2 DEF buf, TxInv
    <2> QED BY <2>1
  <1>7. wire' = [i \in 1 .. guestSent + 1 |-> i]
    BY <1>0, <1>5, <1>6 DEF TxInv
  <1>8. \A i \in TxDesc : ~(own[i] /\ \A k \in 0 .. 0 : i # (txStart + k) % TxCount)
    <2> SUFFICES ASSUME NEW i \in TxDesc, own[i], \A k \in 0 .. 0 : i # (txStart + k) % TxCount
                 PROVE  FALSE
      OBVIOUS
    <2>1. i = txStart BY DEF own, TxInv
    <2>2. 0 \in 0 .. 0 OBVIOUS
    <2> QED BY <1>3, <2>1, <2>2
  <1>9. txInsert' = (txInsert + 1) % TxCount /\ guestSent' = guestSent + 1
    BY DEF r6040_start_xmit, TxNext
  <1>10. buf \in [TxDesc -> Nat] BY <1>0 DEF buf, TxInv
  <1>11. txOwn' = [i \in TxDesc |-> FALSE] BY <1>5, <1>8
  <1> QED BY <1>3, <1>5, <1>7, <1>9, <1>10, <1>11 DEF TxInv, buf

\* r6040_tx frees the whole ring and wakes the queue.
LEMMA TxFrees ==
  ASSUME TxInv, r6040_tx
  PROVE  txFree' = TxCount /\ stopped' = FALSE /\ txRemove' \in TxDesc
  <1>1. TxDone = TxCount - txFree BY AllDone
  <1>2. TxCount \in Nat \ {0} /\ txFree \in 0 .. TxCount /\ txRemove \in 0 .. TxCount - 1
    BY RingAssumption DEF TxInv, TxDesc
  <1>3. At(TxCount, txRemove, TxDone) \in TxDesc
    BY <1>1, <1>2, AtValue DEF TxDesc
  <1>4. (txRemove + TxDone) % TxCount \in TxDesc BY <1>3 DEF At
  <1>5. txFree + TxDone = TxCount BY <1>1, <1>2
  <1> QED BY <1>2, <1>4, <1>5 DEF r6040_tx

\* A step keeps the transmit invariant.
LEMMA TxStep == TxInv /\ [Next]_vars => TxInv'
  <1> SUFFICES ASSUME TxInv, [Next]_vars PROVE TxInv'
    OBVIOUS
  <1>1. CASE HostSends
    BY <1>1 DEF HostSends, TxInv, xmit
  <1>2. CASE r6040_start_xmit
    <2>1. txFree # 0 /\ txFree' = txFree - 1 /\ stopped' = (txFree = 1)
      BY <1>2 DEF r6040_start_xmit, TxInv
    <2>2. txRemove' = txRemove /\ guestSent' = guestSent + 1 /\ guestSent < MaxTx
      BY <1>2 DEF r6040_start_xmit
    <2>3. txFree' \in 0 .. TxCount /\ (stopped' = (txFree' = 0))
      BY <2>1, RingAssumption DEF TxInv
    <2>4. guestSent' \in 0 .. MaxTx BY <2>2, RingAssumption DEF TxInv
    <2> QED BY <1>2, <2>2, <2>3, <2>4, XmitSends DEF TxInv
  <1>3. CASE IsrEnter
    BY <1>3 DEF IsrEnter, TxInv, rings, xmit
  <1>4. CASE IsrExit
    <2>1. UNCHANGED <<txOwn, txBuf, txStart, wire>> BY <1>4 DEF IsrExit, rings
    <2>2. CASE TxServed
      <3>1. r6040_tx BY <1>4, <2>2 DEF IsrExit
      <3>2. txInsert' = txInsert /\ guestSent' = guestSent BY <3>1 DEF r6040_tx
      <3>3. TxCount \in 0 .. TxCount /\ TxCount # 0 BY RingAssumption
      <3>4. txFree' \in 0 .. TxCount /\ (stopped' = (txFree' = 0)) /\ txRemove' \in TxDesc
        BY <3>1, <3>3, TxFrees
      <3> QED BY <2>1, <3>2, <3>4 DEF TxInv
    <2>3. CASE ~TxServed
      BY <1>4, <2>1, <2>3 DEF IsrExit, xmit, TxInv
    <2> QED BY <2>2, <2>3
  <1>5. CASE Poll
    BY <1>5 DEF Poll, PollStart, PollRx, PollLeave, PollComplete, PollEnable, TxInv,
                rings, card, xmit
  <1>6. CASE UNCHANGED vars
    BY <1>6 DEF vars, rings, card, xmit, TxInv
  <1> QED BY <1>1, <1>2, <1>3, <1>4, <1>5, <1>6 DEF Next, Isr

\* The transmit invariant holds.
LEMMA TxCorrect == Spec => []TxInv
  <1>1. Init => TxInv
    <2> SUFFICES ASSUME Init PROVE TxInv OBVIOUS
    <2>1. wire = [i \in 1 .. guestSent |-> i] BY DEF Init
    <2>2. 0 \in TxDesc /\ TxCount \in 0 .. TxCount /\ 0 \in 0 .. MaxTx /\ TxCount # 0
      BY RingAssumption DEF TxDesc
    <2>3. [i \in TxDesc |-> 0] \in [TxDesc -> Nat] OBVIOUS
    <2>4. stopped = (txFree = 0) BY <2>2 DEF Init
    <2> QED BY <2>1, <2>2, <2>3, <2>4 DEF Init, TxInv
  <1> QED BY <1>1, TxStep, PTL DEF Spec

\* Every packet the guest sends goes out once, in order and at once, for
\* every length of the ring: r6040_start_xmit and r6040_transmit agree on
\* where the next packet is.
THEOREM SendingOrdered == Spec => []SentInOrder
  <1>1. TxInv => SentInOrder
    BY DEF TxInv, SentInOrder
  <1> QED BY <1>1, TxCorrect, PTL

\* No wake-up of the transmit queue is lost: when it is stopped a transmit
\* interrupt is pending, or the handler has read it and will free the ring.
THEOREM WakePending == Spec => []StoppedIsWoken
  <1>1. Init => StoppedIsWoken
    BY DEF Init, StoppedIsWoken
  <1>2. TxInv /\ StoppedIsWoken /\ [Next]_vars => StoppedIsWoken'
    <2> SUFFICES ASSUME TxInv, StoppedIsWoken, [Next]_vars PROVE StoppedIsWoken'
      OBVIOUS
    <2>1. CASE HostSends
      BY <2>1 DEF HostSends, ReceiveOnePacket, StoppedIsWoken, xmit, handler
    <2>2. CASE r6040_start_xmit
      <3>1. "tx" \in misr' BY <2>2, XmitSends
      <3> QED BY <3>1 DEF StoppedIsWoken
    <2>3. CASE IsrEnter
      BY <2>3 DEF IsrEnter, StoppedIsWoken, xmit
    <2>4. CASE IsrExit
      <3>1. CASE TxServed
        <4>1. r6040_tx BY <2>4, <3>1 DEF IsrExit
        <4> QED BY <4>1, TxFrees DEF StoppedIsWoken
      <3>2. CASE ~TxServed
        BY <2>4, <3>2 DEF IsrExit, TxServed, StoppedIsWoken, xmit
      <3> QED BY <3>1, <3>2
    <2>5. CASE Poll
      BY <2>5 DEF Poll, PollStart, PollRx, PollLeave, PollComplete, PollEnable,
                  StoppedIsWoken, card, handler, xmit
    <2>6. CASE UNCHANGED vars
      BY <2>6 DEF vars, card, handler, xmit, StoppedIsWoken
    <2> QED BY <2>1, <2>2, <2>3, <2>4, <2>5, <2>6 DEF Next, Isr
  <1> QED BY <1>1, <1>2, TxCorrect, PTL DEF Spec

-----------------------------------------------------------------------------
(* Types *)

\* The types, and that of the counter that numbers the packets.
Typed == TypeOK /\ hostSent \in Nat

\* A step keeps the types.
LEMMA TypeStep == Typed /\ TxInv /\ [Next]_vars => Typed'
  <1> SUFFICES ASSUME TypeOK, TxInv, hostSent \in Nat, [Next]_vars
               PROVE  TypeOK' /\ hostSent' \in Nat
    BY DEF Typed
  <1>0. \A i \in RxDesc : RxNext(i) \in RxDesc
    <2> SUFFICES ASSUME NEW i \in 0 .. RxCount - 1 PROVE At(RxCount, i, 1) \in 0 .. RxCount - 1
      BY DEF RxNext, RxDesc, At
    <2>1. RxCount \in Nat \ {0} /\ 1 \in 0 .. RxCount BY RingAssumption
    <2> QED BY <2>1, AtValue
  <1>1. CASE HostSends
    <2>1. hostSent' = hostSent + 1 /\ hostSent + 1 \in 0 .. MaxRx
      BY <1>1, RingAssumption DEF HostSends
    <2>2. UNCHANGED <<txOwn, txBuf, txStart, wire, handler, poller, xmit>>
      BY <1>1 DEF HostSends
    <2>3. CASE ~disabled /\ MacOwns(rxStart) /\ ReceiveOnePacket(hostSent + 1)
               /\ UNCHANGED <<disabled, queue>>
      <3>1. rxOwn' \in [RxDesc -> BOOLEAN] /\ rxBuf' \in [RxDesc -> 0 .. MaxRx]
        BY <2>1, <2>3 DEF ReceiveOnePacket, TypeOK
      <3>2. rxStart' \in RxDesc /\ misr' \in SUBSET {"rx", "tx"} /\ mier' = mier
            /\ irq' \in BOOLEAN
        BY <1>0, <2>3 DEF ReceiveOnePacket, update_irq, TypeOK
      <3> QED BY <2>1, <2>2, <2>3, <3>1, <3>2 DEF TypeOK, handler, poller, xmit
    <2>4. CASE disabled' = TRUE /\ UNCHANGED <<rxOwn, rxBuf, misr, mier, irq, rxStart>>
      BY <2>1, <2>2, <2>4 DEF TypeOK, handler, poller, xmit
    <2> QED BY <1>1, <2>3, <2>4 DEF HostSends
  <1>2. CASE r6040_start_xmit
    <2>1. TxInv' BY TxStep
    <2>2. txBuf' \in [TxDesc -> 0 .. MaxTx]
      <3>1. guestSent + 1 \in 0 .. MaxTx
        BY <1>2, RingAssumption DEF r6040_start_xmit, TxInv
      <3>2. txBuf' = [txBuf EXCEPT ![txInsert] = guestSent + 1] BY <1>2, XmitSends
      <3> QED BY <3>1, <3>2 DEF TypeOK
    <2>3. misr' = misr \cup {"tx"} /\ mier' = mier /\ irq' \in BOOLEAN
      BY <1>2, XmitSends
    <2>4. UNCHANGED <<rxOwn, rxBuf, rxStart, host, handler, poller>> /\ stopped' \in BOOLEAN
      BY <1>2 DEF r6040_start_xmit
    <2> QED BY <2>1, <2>2, <2>3, <2>4 DEF TypeOK, TxInv, host, handler, poller
  <1>3. CASE IsrEnter
    BY <1>3 DEF IsrEnter, TypeOK, rings, host, poller, xmit
  <1>4. CASE IsrExit
    <2>1. TxInv' BY TxStep
    <2>2. stopped' \in BOOLEAN BY <2>1 DEF TxInv
    <2>3. mier' \in SUBSET {"rx", "tx"} /\ irq' \in BOOLEAN /\ misr' = misr /\ napi' \in BOOLEAN
          /\ isr' = "idle"
      BY <1>4 DEF IsrExit, update_irq, TypeOK
    <2>4. UNCHANGED <<rings, rxStart, txStart, host, wire, saved, status, poll, work, pollMier,
                      rxRemove, passed, dropped>>
      BY <1>4 DEF IsrExit
    <2> QED BY <2>1, <2>2, <2>3, <2>4 DEF TypeOK, TxInv, rings, host
  <1>5. CASE Poll
    <2>1. CASE PollStart
      BY <2>1, RingAssumption DEF PollStart, TypeOK, rings, card, host, handler, xmit
    <2>2. CASE PollRx
      <3>1. dropped' \in 0 .. MaxFail /\ work' \in 0 .. Budget
        BY <2>2, RingAssumption DEF PollRx, TypeOK
      <3>2. rxOwn' \in [RxDesc -> BOOLEAN] /\ rxRemove' \in RxDesc
        BY <2>2, <1>0 DEF PollRx, TypeOK
      <3> QED BY <2>2, <3>1, <3>2 DEF PollRx, TypeOK, card, host, handler, xmit
    <2>3. CASE PollLeave
      BY <2>3 DEF PollLeave, TypeOK, rings, card, host, handler, xmit
    <2>4. CASE PollComplete
      BY <2>4 DEF PollComplete, TypeOK, rings, card, host, handler, xmit
    <2>5. CASE PollEnable
      <3>1. mier' \in SUBSET {"rx", "tx"} /\ irq' \in BOOLEAN
        BY <2>5 DEF PollEnable, EnabledAgain, update_irq, TypeOK
      <3> QED BY <2>5, <3>1 DEF PollEnable, TypeOK, rings, host, handler, xmit
    <2> QED BY <1>5, <2>1, <2>2, <2>3, <2>4, <2>5 DEF Poll
  <1>6. CASE UNCHANGED vars
    BY <1>6 DEF vars, rings, card, host, handler, poller, xmit, TypeOK
  <1> QED BY <1>1, <1>2, <1>3, <1>4, <1>5, <1>6 DEF Next, Isr

\* Every variable keeps its type, the free counter its bounds among them: the
\* queue is stopped before r6040_start_xmit can count below zero.
THEOREM TypeCorrect == Spec => []TypeOK
  <1>1. Init => Typed
    <2> SUFFICES ASSUME Init PROVE Typed OBVIOUS
    <2>1. 0 \in RxDesc /\ 0 \in TxDesc /\ TxCount \in 0 .. TxCount /\ 0 \in 0 .. Budget
          /\ 0 \in 0 .. MaxFail /\ 0 \in 0 .. MaxRx /\ 0 \in 0 .. MaxTx
      BY RingAssumption DEF RxDesc, TxDesc
    <2> QED BY <2>1 DEF Init, TypeOK, Typed
  <1>2. Typed => TypeOK BY DEF Typed
  <1> QED BY <1>1, <1>2, TypeStep, TxCorrect, PTL DEF Spec

-----------------------------------------------------------------------------
(* Receiving *)

\* Packets the card has been given and the queue does not keep.
Received == hostSent - Len(queue)

\* Descriptors that are filled and not yet read.
Filled == Received - Len(passed) - dropped

\* The counters of the receive side have their types.
RxTypes ==
  /\ hostSent \in Nat /\ dropped \in Nat
  /\ queue \in Seq(Nat) /\ passed \in Seq(Nat)
  /\ rxOwn \in [RxDesc -> BOOLEAN] /\ rxBuf \in [RxDesc -> Nat]
  /\ rxStart \in RxDesc /\ rxRemove \in RxDesc
  /\ Filled \in 0 .. RxCount

\* The filled descriptors are those from rxRemove up to rxStart, which is
\* where the card fills the next one; they hold the packets received last, in
\* order, and everything passed before is older.
RxInv ==
  /\ RxTypes
  /\ ~disabled => queue = <<>>
  /\ rxStart = At(RxCount, rxRemove, Filled)
  /\ Cardinality({i \in RxDesc : ~rxOwn[i]}) = Filled
  /\ \A k \in 0 .. RxCount - 1 :
       /\ rxOwn[At(RxCount, rxRemove, k)] = (k >= Filled)
       /\ k < Filled => rxBuf[At(RxCount, rxRemove, k)] = Received - Filled + k + 1
  /\ \A i \in DOMAIN passed : passed[i] \in 1 .. Received - Filled
  /\ \A i, j \in DOMAIN passed : i < j => passed[i] < passed[j]

\* A descriptor more, or one less, among the filled.
LEMMA FilledCount ==
  ASSUME NEW own \in [RxDesc -> BOOLEAN], NEW d \in RxDesc
  PROVE  LET F(o) == Cardinality({i \in RxDesc : ~o[i]})
         IN /\ F(own) \in Nat
            /\ own[d] => F([own EXCEPT ![d] = FALSE]) = F(own) + 1
            /\ ~own[d] => F([own EXCEPT ![d] = TRUE]) = F(own) - 1
  <1> DEFINE S == {i \in RxDesc : ~own[i]}
  <1>1. IsFiniteSet(RxDesc) BY RingAssumption, FS_Interval DEF RxDesc
  <1>2. IsFiniteSet(S) BY <1>1, FS_Subset
  <1>3. Cardinality(S) \in Nat BY <1>2, FS_CardinalityType
  <1>4. {i \in RxDesc : ~[own EXCEPT ![d] = FALSE][i]} = S \cup {d} OBVIOUS
  <1>5. {i \in RxDesc : ~[own EXCEPT ![d] = TRUE][i]} = S \ {d} OBVIOUS
  <1>6. own[d] => Cardinality(S \cup {d}) = Cardinality(S) + 1
    BY <1>2, FS_AddElement
  <1>7. ~own[d] => Cardinality(S \ {d}) = Cardinality(S) - 1
    BY <1>2, FS_RemoveElement
  <1> QED BY <1>3, <1>4, <1>5, <1>6, <1>7

\* The card fills the descriptor after the filled ones, and keeps the order.
LEMMA ReceiveKeepsRing ==
  ASSUME RxInv, ~disabled, MacOwns(rxStart), ReceiveOnePacket(hostSent + 1),
         hostSent' = hostSent + 1, UNCHANGED <<disabled, queue, passed, dropped, rxRemove>>
  PROVE  RxInv'
  <1> DEFINE n == RxCount
             f == Filled
             r == Received
  <1>0. n \in Nat \ {0} /\ rxRemove \in 0 .. n - 1 /\ f \in 0 .. n /\ r \in Nat
        /\ r = hostSent /\ queue = <<>> /\ Len(passed) \in Nat
    BY RingAssumption DEF RxInv, RxTypes, RxDesc, Received
  <1>1. Received' = r + 1 /\ Filled' = f + 1
    <2>1. Received' = r + 1 BY <1>0 DEF Received
    <2> QED BY <1>0, <2>1 DEF Filled, RxInv, RxTypes
  <1>2. rxStart = At(n, rxRemove, f) /\ rxOwn[rxStart]
    BY DEF RxInv, MacOwns
  <1> HIDE DEF f, r
  <1>3. f < n
    <2> SUFFICES ASSUME f = n PROVE FALSE BY <1>0
    <2>1. At(n, rxRemove, n) = At(n, rxRemove, 0)
      BY <1>0, AtValue
    <2>2. 0 \in 0 .. n - 1 /\ ~(0 >= f) BY <1>0
    <2>3. ~rxOwn[At(n, rxRemove, 0)] BY <2>2 DEF RxInv, f
    <2> QED BY <1>2, <2>1, <2>3
  <1>4. /\ rxOwn' = [rxOwn EXCEPT ![rxStart] = FALSE]
        /\ rxBuf' = [rxBuf EXCEPT ![rxStart] = hostSent + 1]
        /\ rxStart' = At(n, rxStart, 1)
    BY DEF ReceiveOnePacket, RxNext, At
  <1>5. rxStart' = At(n, rxRemove, f + 1) /\ rxStart' \in 0 .. n - 1
    <2>1. rxStart \in 0 .. n - 1 /\ 1 \in 0 .. n /\ f + 1 \in 0 .. n
      BY <1>0, <1>3 DEF RxInv, RxTypes, RxDesc
    <2>2. rxStart' = IF rxStart + 1 < n THEN rxStart + 1 ELSE rxStart + 1 - n
      BY <1>4, <2>1, <1>0, AtValue
    <2>3. rxStart = IF rxRemove + f < n THEN rxRemove + f ELSE rxRemove + f - n
      BY <1>0, <1>2, AtValue
    <2>4. At(n, rxRemove, f + 1)
            = IF rxRemove + (f + 1) < n THEN rxRemove + (f + 1) ELSE rxRemove + (f + 1) - n
      BY <1>0, <2>1, AtValue
    <2> QED BY <1>0, <2>1, <2>2, <2>3, <2>4
  <1>6. RxTypes'
    <2>1. hostSent' \in Nat /\ dropped' \in Nat /\ queue' \in Seq(Nat) /\ passed' \in Seq(Nat)
          /\ rxRemove' \in RxDesc
      BY DEF RxInv, RxTypes
    <2>2. rxOwn' \in [RxDesc -> BOOLEAN] /\ rxBuf' \in [RxDesc -> Nat]
      BY <1>4 DEF RxInv, RxTypes
    <2>3. rxStart' \in RxDesc /\ Filled' \in 0 .. RxCount
      BY <1>0, <1>1, <1>3, <1>5 DEF RxDesc
    <2> QED BY <2>1, <2>2, <2>3 DEF RxTypes
  <1>7. Cardinality({i \in RxDesc : ~rxOwn'[i]}) = f + 1
    <2>1. Cardinality({i \in RxDesc : ~rxOwn[i]}) = f BY DEF RxInv, f
    <2>2. rxOwn \in [RxDesc -> BOOLEAN] /\ rxStart \in RxDesc BY DEF RxInv, RxTypes
    <2> QED BY <1>2, <1>4, <2>1, <2>2, FilledCount
  <1>8. ASSUME NEW k \in 0 .. n - 1
        PROVE  /\ rxOwn'[At(n, rxRemove, k)] = (k >= f + 1)
               /\ k < f + 1 => rxBuf'[At(n, rxRemove, k)] = r + 1 - (f + 1) + k + 1
    <2>1. /\ rxOwn[At(n, rxRemove, k)] = (k >= f)
          /\ k < f => rxBuf[At(n, rxRemove, k)] = r - f + k + 1
      BY DEF RxInv, f, r
    <2>2. At(n, rxRemove, k) \in RxDesc BY <1>0, AtValue DEF RxDesc
    <2>3. rxOwn \in [RxDesc -> BOOLEAN] /\ rxBuf \in [RxDesc -> Nat] BY DEF RxInv, RxTypes
    <2>4. CASE k = f
      <3>1. rxOwn'[At(n, rxRemove, k)] = FALSE /\ rxBuf'[At(n, rxRemove, k)] = r + 1
        BY <1>0, <1>2, <1>4, <2>2, <2>3, <2>4
      <3>2. (k >= f + 1) = FALSE /\ r + 1 = r + 1 - (f + 1) + k + 1 BY <1>0, <2>4
      <3> QED BY <3>1, <3>2
    <2>5. CASE k # f
      <3>1. f \in 0 .. n - 1 BY <1>0, <1>3
      <3>2. At(n, rxRemove, k) # rxStart BY <1>0, <1>2, <2>5, <3>1, AtInjective
      <3>3. rxOwn'[At(n, rxRemove, k)] = (k >= f)
        BY <1>4, <2>1, <2>2, <2>3, <3>2
      <3>4. k < f => rxBuf'[At(n, rxRemove, k)] = r - f + k + 1
        BY <1>4, <2>1, <2>2, <2>3, <3>2
      <3>5. (k >= f) = (k >= f + 1) /\ (k < f + 1 => k < f) /\ r - f + k + 1 = r + 1 - (f + 1) + k + 1
        BY <1>0, <2>5
      <3> QED BY <3>3, <3>4, <3>5
    <2> QED BY <2>4, <2>5
  <1>9. /\ \A i \in DOMAIN passed : passed[i] \in 1 .. (r + 1) - (f + 1)
        /\ \A i, j \in DOMAIN passed : i < j => passed[i] < passed[j]
    <2>1. (r + 1) - (f + 1) = r - f BY <1>0
    <2> QED BY <2>1 DEF RxInv, f, r
  <1> QED BY <1>0, <1>1, <1>5, <1>6, <1>7, <1>8, <1>9 DEF RxInv

\* The poll function reads the oldest filled descriptor and returns it to the
\* card as the last free one.
LEMMA PollKeepsRing ==
  ASSUME RxInv, PollRx
  PROVE  RxInv'
  <1> DEFINE n == RxCount
             f == Filled
             r == Received
             j == At(RxCount, rxRemove, 1)
  <1>0. /\ n \in Nat \ {0} /\ rxRemove \in 0 .. n - 1 /\ f \in 0 .. n /\ r \in Int
        /\ Len(passed) \in Nat /\ dropped \in Nat /\ f = r - Len(passed) - dropped
    BY RingAssumption DEF RxInv, RxTypes, RxDesc, Received, Filled
  <1>1. /\ UNCHANGED <<hostSent, queue, disabled, rxBuf, rxStart>>
        /\ rxOwn' = [rxOwn EXCEPT ![rxRemove] = TRUE]
        /\ rxRemove' = j /\ ~rxOwn[rxRemove]
    BY DEF PollRx, RxNext, host, card, At
  <1>2. At(n, rxRemove, 0) = rxRemove /\ 0 \in 0 .. n - 1
    BY <1>0, AtValue
  <1>3. f > 0 /\ rxBuf[rxRemove] = r - f + 1
    <2>1. /\ rxOwn[At(n, rxRemove, 0)] = (0 >= f)
          /\ 0 < f => rxBuf[At(n, rxRemove, 0)] = r - f + 0 + 1
      BY <1>2 DEF RxInv
    <2> HIDE DEF f, r
    <2>2. f > 0
      <3>1. ~(0 >= f) BY <1>1, <1>2, <2>1
      <3> QED BY <1>0, <3>1
    <2>3. r - f + 0 + 1 = r - f + 1 BY <1>0
    <2> QED BY <1>0, <1>2, <2>1, <2>2, <2>3
  <1>4. r - f \in Nat BY <1>0
  <1>5. Received' = r /\ Filled' = f - 1
        /\ passed' \in Seq(Nat) /\ dropped' \in Nat
        /\ (passed' = passed \/ passed' = Append(passed, r - f + 1))
    <2>1. Received' = r BY <1>1 DEF Received
    <2>2. passed \in Seq(Nat) BY DEF RxInv, RxTypes
    <2>3. CASE passed' = Append(passed, rxBuf[rxRemove]) /\ dropped' = dropped
      <3>1. Len(passed') = Len(passed) + 1 /\ passed' \in Seq(Nat)
        BY <1>3, <1>4, <2>2, <2>3
      <3> QED BY <1>0, <1>3, <2>1, <2>3, <3>1 DEF Filled
    <2>4. CASE passed' = passed /\ dropped' = dropped + 1
      BY <1>0, <2>1, <2>2, <2>4 DEF Filled
    <2> QED BY <2>3, <2>4 DEF PollRx
  <1>6. j \in 0 .. n - 1 /\ \A k \in 0 .. n - 1 : At(n, j, k) = At(n, rxRemove, k + 1)
    BY <1>0, <1>2, AtNext
  <1> HIDE DEF f, r, j
  <1>7. RxTypes'
    <2>1. rxOwn' \in [RxDesc -> BOOLEAN] /\ rxBuf' \in [RxDesc -> Nat]
      BY <1>1 DEF RxInv, RxTypes
    <2>2. rxRemove' \in RxDesc BY <1>1, <1>6 DEF RxDesc
    <2>3. Filled' \in 0 .. RxCount BY <1>0, <1>3, <1>5
    <2> QED BY <1>1, <1>5, <2>1, <2>2, <2>3 DEF RxInv, RxTypes
  <1>8. rxStart' = At(n, rxRemove', f - 1)
    <2>1. f - 1 \in 0 .. n - 1 /\ (f - 1) + 1 = f BY <1>0, <1>3
    <2>2. At(n, j, f - 1) = At(n, rxRemove, f) BY <1>6, <2>1
    <2> QED BY <1>1, <2>2 DEF RxInv, f
  <1>9. Cardinality({i \in RxDesc : ~rxOwn'[i]}) = f - 1
    <2>1. Cardinality({i \in RxDesc : ~rxOwn[i]}) = f BY DEF RxInv, f
    <2>2. rxOwn \in [RxDesc -> BOOLEAN] /\ rxRemove \in RxDesc BY DEF RxInv, RxTypes
    <2> QED BY <1>1, <2>1, <2>2, FilledCount
  <1>10. ASSUME NEW k \in 0 .. n - 1
         PROVE  /\ rxOwn'[At(n, j, k)] = (k >= f - 1)
                /\ k < f - 1 => rxBuf'[At(n, j, k)] = r - (f - 1) + k + 1
    <2>1. At(n, j, k) = At(n, rxRemove, k + 1) /\ At(n, rxRemove, k + 1) \in RxDesc
      <3>1. k + 1 \in 0 .. n BY <1>0
      <3> QED BY <1>0, <1>6, <3>1, AtValue DEF RxDesc
    <2>2. rxOwn \in [RxDesc -> BOOLEAN] BY DEF RxInv, RxTypes
    <2>3. CASE k = n - 1
      <3>1. n \in 0 .. n /\ k + 1 = n BY <1>0, <2>3
      <3>2. At(n, rxRemove, n) = rxRemove BY <1>0, <3>1, AtValue
      <3>3. rxOwn'[At(n, j, k)] = TRUE BY <1>1, <2>1, <2>2, <3>1, <3>2
      <3>4. (k >= f - 1) = TRUE /\ ~(k < f - 1) BY <1>0, <2>3
      <3> QED BY <3>3, <3>4
    <2>4. CASE k # n - 1
      <3>1. k + 1 \in 0 .. n - 1 /\ k + 1 # 0 BY <1>0, <2>4
      <3>2. /\ rxOwn[At(n, rxRemove, k + 1)] = (k + 1 >= f)
            /\ k + 1 < f => rxBuf[At(n, rxRemove, k + 1)] = r - f + (k + 1) + 1
        BY <3>1 DEF RxInv, f, r
      <3>3. At(n, rxRemove, k + 1) # rxRemove
        BY <1>0, <1>2, <3>1, AtInjective
      <3>4. rxOwn'[At(n, j, k)] = (k + 1 >= f)
        BY <1>1, <2>1, <2>2, <3>2, <3>3
      <3>5. (k + 1 >= f) = (k >= f - 1) /\ (k < f - 1 => k + 1 < f)
            /\ r - f + (k + 1) + 1 = r - (f - 1) + k + 1
        BY <1>0
      <3>6. rxBuf' = rxBuf BY <1>1
      <3> QED BY <2>1, <3>2, <3>4, <3>5, <3>6
    <2> QED BY <2>3, <2>4
  <1>11. /\ \A i \in DOMAIN passed' : passed'[i] \in 1 .. r - (f - 1)
         /\ \A i, l \in DOMAIN passed' : i < l => passed'[i] < passed'[l]
    <2>1. /\ \A i \in DOMAIN passed : passed[i] \in 1 .. r - f
          /\ \A i, l \in DOMAIN passed : i < l => passed[i] < passed[l]
      BY DEF RxInv, f, r
    <2>2. passed \in Seq(Nat) BY DEF RxInv, RxTypes
    <2>3. \A v \in 1 .. r - f : v \in 1 .. r - (f - 1) /\ v < r - f + 1 BY <1>0
    <2>4. CASE passed' = passed
      BY <2>1, <2>3, <2>4
    <2>5. CASE passed' = Append(passed, r - f + 1)
      <3>1. DOMAIN passed = 1 .. Len(passed) /\ DOMAIN passed' = 1 .. Len(passed) + 1
        BY <2>2, <2>5, <1>4
      <3>2. \A i \in DOMAIN passed : passed'[i] = passed[i]
        BY <2>2, <2>5, <1>4
      <3>3. passed'[Len(passed) + 1] = r - f + 1
        BY <2>2, <2>5, <1>4
      <3>4. r - f + 1 \in 1 .. r - (f - 1) BY <1>4, <1>0
      <3>5. \A i \in DOMAIN passed' : i \in DOMAIN passed \/ i = Len(passed) + 1
        BY <3>1, <1>0
      <3>6. \A i, l \in DOMAIN passed' : i < l => i \in DOMAIN passed
        BY <3>1, <1>0
      <3>7. ASSUME NEW i \in DOMAIN passed', NEW l \in DOMAIN passed', i < l
            PROVE  passed'[i] < passed'[l]
        BY <2>1, <2>3, <3>2, <3>3, <3>5, <3>6, <3>7
      <3> QED BY <2>1, <2>3, <3>2, <3>3, <3>4, <3>5, <3>7
    <2> QED BY <1>5, <2>4, <2>5
  <1>12. ~disabled' => queue' = <<>> BY <1>1 DEF RxInv
  <1> QED BY <1>1, <1>5, <1>7, <1>8, <1>9, <1>10, <1>11, <1>12 DEF RxInv

\* A step keeps the receive invariant.
LEMMA RxStep == RxInv /\ [Next]_vars => RxInv'
  <1> SUFFICES ASSUME RxInv, [Next]_vars PROVE RxInv'
    OBVIOUS
  <1> DEFINE rxvars == <<rxOwn, rxBuf, rxStart, disabled, queue, hostSent, rxRemove, passed,
                         dropped>>
  <1>0. ASSUME UNCHANGED rxvars PROVE RxInv'
    BY <1>0 DEF RxInv, RxTypes, Filled, Received
  <1>1. CASE HostSends
    <2>1. hostSent' = hostSent + 1 /\ UNCHANGED <<passed, dropped, rxRemove>>
      BY <1>1 DEF HostSends, poller
    <2>2. CASE ~disabled /\ MacOwns(rxStart) /\ ReceiveOnePacket(hostSent + 1)
               /\ UNCHANGED <<disabled, queue>>
      BY <2>1, <2>2, ReceiveKeepsRing
    <2>3. CASE disabled' = TRUE /\ queue' = Append(queue, hostSent + 1)
               /\ UNCHANGED <<rxOwn, rxBuf, misr, mier, irq, rxStart>>
      <3>1. hostSent \in Nat /\ queue \in Seq(Nat) BY DEF RxInv, RxTypes
      <3>2. queue' \in Seq(Nat) /\ Len(queue') = Len(queue) + 1 /\ hostSent' \in Nat
        BY <2>1, <2>3, <3>1
      <3>3. Received' = Received BY <2>1, <3>1, <3>2 DEF Received
      <3>4. Filled' = Filled BY <2>1, <3>3 DEF Filled
      <3> QED BY <2>1, <2>3, <3>2, <3>3, <3>4 DEF RxInv, RxTypes
    <2> QED BY <1>1, <2>2, <2>3 DEF HostSends
  <1>2. CASE r6040_start_xmit
    BY <1>0, <1>2 DEF r6040_start_xmit, host, poller
  <1>3. CASE Isr
    BY <1>0, <1>3 DEF Isr, IsrEnter, IsrExit, rings, host, poller
  <1>4. CASE Poll
    <2>1. CASE PollRx BY <2>1, PollKeepsRing
    <2>2. CASE ~PollRx
      BY <1>0, <1>4, <2>2 DEF Poll, PollStart, PollLeave, PollComplete, PollEnable,
                              rings, card, host
    <2> QED BY <2>1, <2>2
  <1>5. CASE UNCHANGED vars
    BY <1>0, <1>5 DEF vars, rings, card, host, poller
  <1> QED BY <1>1, <1>2, <1>3, <1>4, <1>5 DEF Next

\* The receive invariant holds.
LEMMA RxCorrect == Spec => []RxInv
  <1>1. Init => RxInv
    <2> SUFFICES ASSUME Init PROVE RxInv OBVIOUS
    <2>0. RxCount \in Nat \ {0} /\ 0 \in 0 .. RxCount /\ 0 \in 0 .. RxCount - 1
      BY RingAssumption
    <2>1. Received = 0 /\ Filled = 0
      <3>1. hostSent = 0 /\ dropped = 0 /\ Len(queue) = 0 /\ Len(passed) = 0 BY DEF Init
      <3>2. Received = 0 BY <3>1 DEF Received
      <3> QED BY <3>1, <3>2 DEF Filled
    <2>2. RxTypes BY <2>0, <2>1 DEF Init, RxTypes, RxDesc
    <2>3. rxStart = At(RxCount, rxRemove, Filled)
      BY <2>0, <2>1, AtValue DEF Init
    <2>4. Cardinality({i \in RxDesc : ~rxOwn[i]}) = 0
      <3>1. {i \in RxDesc : ~rxOwn[i]} = {} BY DEF Init
      <3> QED BY <3>1, FS_EmptySet
    <2>5. ASSUME NEW k \in 0 .. RxCount - 1
          PROVE  rxOwn[At(RxCount, rxRemove, k)] = (k >= 0) /\ ~(k < 0)
      <3>1. At(RxCount, rxRemove, k) \in RxDesc
        BY <2>0, AtValue DEF Init, RxDesc
      <3>2. (k >= 0) = TRUE /\ ~(k < 0) BY <2>0
      <3> QED BY <3>1, <3>2 DEF Init
    <2>6. DOMAIN passed = {} BY DEF Init
    <2> QED BY <2>1, <2>2, <2>3, <2>4, <2>5, <2>6 DEF Init, RxInv
  <1> QED BY <1>1, RxStep, PTL DEF Spec

\* The guest's stack gets the packets the card received, each at most once and
\* in order, and every packet the host has sent is passed, dropped, in the
\* ring or in the queue, for every length of the ring: the card's RX_START and
\* the driver's rx_remove never disagree on whose descriptor is whose.
THEOREM ReceivingOrdered == Spec => []PassedInOrder
  <1>1. RxInv => PassedInOrder
    <2> SUFFICES ASSUME RxInv PROVE PassedInOrder OBVIOUS
    <2>1. hostSent \in Nat /\ Len(queue) \in Nat /\ Len(passed) \in Nat /\ dropped \in Nat
          /\ Filled \in 0 .. RxCount
      BY DEF RxInv, RxTypes
    <2>2. Received - Filled <= hostSent /\ Received - Filled \in Nat
          /\ Len(passed) + dropped + Filled + Len(queue) = hostSent
      BY <2>1 DEF Received, Filled
    <2>3. \A v \in 1 .. Received - Filled : v \in 1 .. hostSent BY <2>1, <2>2
    <2> QED BY <2>2, <2>3 DEF RxInv, PassedInOrder
  <1> QED BY <1>1, RxCorrect, PTL
=============================================================================
