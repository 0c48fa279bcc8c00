-------------------------- MODULE DgramSocketProofs --------------------------
(***************************************************************************)
(* Proofs about DgramSocket, for every size of the ring and every set of   *)
(* packets: the ring always consists of whole packets, recvfrom returns    *)
(* one of them, and the ring implements DatagramQueue, the bounded FIFO    *)
(* queue of datagrams.  A recursive function is reasoned about by the      *)
(* least number at which a claim about it would fail.                      *)
(***************************************************************************)
EXTENDS DgramSocket, SequenceTheorems, WellFoundedInduction, TLAPS

USE DgramAssumption DEF HeaderSize

\* Where recvfrom is in its packet.
Progress ==
  /\ pc = "header" => Len(packet) < HeaderSize /\ copied = <<>> /\ buffer_len > 0
  /\ pc = "data" => /\ Len(packet) = HeaderSize /\ Len(copied) <= data_len
                    /\ buffer_len > 0
  /\ pc \notin {"header", "data"} => packet = <<>> /\ copied = <<>>

\* The ring, read from the cell start on.
Cell(start, k) == buffer[Forward(start, k)]

Holds(start, b, d) ==
  \A k \in 0 .. Len(Encoded(d)) - 1 : Cell(start, b + k) = Encoded(d)[k + 1]

\* start is the first cell of the packet that recvfrom has not given back, B the set of
\* the places, counted from start, where a packet begins or the last one ends; between
\* two of them lies a whole packet.  The reader has passed the first Consumed cells.
Laid(start, B) ==
  /\ B \subseteq 0 .. buffer_len /\ 0 \in B /\ buffer_len \in B
  /\ buffer_tail = Forward(start, Consumed)
  /\ buffer_head = Forward(start, buffer_len)
  /\ \A b \in B : b < buffer_len =>
       \E d \in Packets : b + Len(Encoded(d)) \in B /\ Holds(start, b, d)
  /\ \A i \in 1 .. Len(packet) : packet[i] = Cell(start, i - 1)
  /\ \A i \in 1 .. Len(copied) : copied[i] = Cell(start, i + 1)

WholePackets ==
  \E start \in Cells : \E B \in SUBSET (0 .. SOCKET_BUFFER_SIZE) : Laid(start, B)

\* What recvfrom returns is the sender of one datagram with the first bytes of its data:
\* never parts of two, whatever the interrupt added to the ring while it was copying.
ResultWhole ==
  result # <<>> =>
    \E d \in Packets : \E n \in 0 .. Len(d.data) :
      result = <<d.src, SubSeq(d.data, 1, n)>>

IInv == TypeOK /\ Progress /\ WholePackets /\ ResultWhole

-----------------------------------------------------------------------------
\* The remainder, for what can come up in the ring.
LEMMA Wrapped ==
  ASSUME NEW x \in SOCKET_BUFFER_SIZE .. (SOCKET_BUFFER_SIZE + SOCKET_BUFFER_SIZE - 1)
  PROVE  x % SOCKET_BUFFER_SIZE = x - SOCKET_BUFFER_SIZE
OBVIOUS

\* Below 0 the remainder is one turn of the ring further.
LEMMA WrappedBack ==
  ASSUME NEW x \in -SOCKET_BUFFER_SIZE .. -1
  PROVE  x % SOCKET_BUFFER_SIZE = x + SOCKET_BUFFER_SIZE
OBVIOUS

\* A cell is its own remainder.
LEMMA Unwrapped ==
  ASSUME NEW x \in 0 .. SOCKET_BUFFER_SIZE - 1
  PROVE  x % SOCKET_BUFFER_SIZE = x
OBVIOUS

\* Moving around the ring.
LEMMA ForwardIn ==
  ASSUME NEW c \in Cells, NEW n \in 0 .. SOCKET_BUFFER_SIZE
  PROVE  /\ Forward(c, n) \in Cells
         /\ Forward(c, n) = IF c + n < SOCKET_BUFFER_SIZE THEN c + n
                                                          ELSE c + n - SOCKET_BUFFER_SIZE
<1>1. c \in 0 .. SOCKET_BUFFER_SIZE - 1
  BY DEF Cells
<1>2. CASE c + n < SOCKET_BUFFER_SIZE
  <2>1. c + n \in 0 .. SOCKET_BUFFER_SIZE - 1
    BY <1>1, <1>2
  <2>2. (c + n) % SOCKET_BUFFER_SIZE = c + n
    BY <2>1
  <2>. QED
    BY <1>2, <2>1, <2>2 DEF Forward, Cells
<1>3. CASE c + n >= SOCKET_BUFFER_SIZE
  <2>1. c + n \in SOCKET_BUFFER_SIZE .. (SOCKET_BUFFER_SIZE + SOCKET_BUFFER_SIZE - 1)
    BY <1>1, <1>3
  <2>. DEFINE x == c + n
  <2>. HIDE DEF x
  <2>2. x % SOCKET_BUFFER_SIZE = x - SOCKET_BUFFER_SIZE
    <3>1. x \in SOCKET_BUFFER_SIZE .. (SOCKET_BUFFER_SIZE + SOCKET_BUFFER_SIZE - 1)
      BY <2>1 DEF x
    <3>. QED
      BY <3>1, Wrapped
  <2>. QED
    BY <1>1, <1>3, <2>1, <2>2 DEF Forward, Cells, x
<1>4. c + n < SOCKET_BUFFER_SIZE \/ c + n >= SOCKET_BUFFER_SIZE
  BY <1>1
<1>. QED
  BY <1>2, <1>3, <1>4, Zenon

\* Two moves around the ring are one.
LEMMA ForwardAdd ==
  ASSUME NEW c \in Cells, NEW a \in Nat, NEW b \in Nat, a + b <= SOCKET_BUFFER_SIZE
  PROVE  Forward(Forward(c, a), b) = Forward(c, a + b)
<1>1. c \in 0 .. SOCKET_BUFFER_SIZE - 1
  BY DEF Cells
<1>2. /\ a \in 0 .. SOCKET_BUFFER_SIZE /\ b \in 0 .. SOCKET_BUFFER_SIZE
      /\ a + b \in 0 .. SOCKET_BUFFER_SIZE
  OBVIOUS
<1>. DEFINE f == Forward(c, a)
            g == Forward(f, b)
            h == Forward(c, a + b)
<1>3. f \in Cells /\ f = IF c + a < SOCKET_BUFFER_SIZE THEN c + a ELSE c + a - SOCKET_BUFFER_SIZE
  BY <1>2, ForwardIn
<1>4. h = IF c + (a + b) < SOCKET_BUFFER_SIZE THEN c + (a + b)
                                              ELSE c + (a + b) - SOCKET_BUFFER_SIZE
  BY <1>2, ForwardIn
<1>. HIDE DEF f, h
<1>5. g = IF f + b < SOCKET_BUFFER_SIZE THEN f + b ELSE f + b - SOCKET_BUFFER_SIZE
  BY <1>2, <1>3, ForwardIn
<1>. HIDE DEF g
<1>6. g = h
  BY <1>1, <1>3, <1>4, <1>5
<1>. QED
  BY <1>6 DEF f, g, h

\* Where a cell k places after start lies relative to the cell n places after start.
LEMMA OffsetOf ==
  ASSUME NEW start \in Cells, NEW n \in 0 .. SOCKET_BUFFER_SIZE,
         NEW k \in 0 .. SOCKET_BUFFER_SIZE - 1
  PROVE  (Forward(start, k) - Forward(start, n)) % SOCKET_BUFFER_SIZE =
           IF k < n THEN k - n + SOCKET_BUFFER_SIZE ELSE k - n
<1>1. start \in 0 .. SOCKET_BUFFER_SIZE - 1 /\ k \in 0 .. SOCKET_BUFFER_SIZE
  BY DEF Cells
<1>. DEFINE f == Forward(start, k)
            g == Forward(start, n)
            x == f - g
<1>2. f = IF start + k < SOCKET_BUFFER_SIZE THEN start + k ELSE start + k - SOCKET_BUFFER_SIZE
  BY <1>1, ForwardIn
<1>3. g = IF start + n < SOCKET_BUFFER_SIZE THEN start + n ELSE start + n - SOCKET_BUFFER_SIZE
  BY ForwardIn
<1>4. x % SOCKET_BUFFER_SIZE = IF k < n THEN k - n + SOCKET_BUFFER_SIZE ELSE k - n
  <2>. HIDE DEF f, g
  <2>1. \/ x = k - n
        \/ k >= n /\ x = k - n - SOCKET_BUFFER_SIZE
        \/ k < n /\ x = k - n + SOCKET_BUFFER_SIZE
    BY <1>1, <1>2, <1>3
  <2>2. /\ k >= n => k - n \in 0 .. SOCKET_BUFFER_SIZE - 1
        /\ k >= n => k - n - SOCKET_BUFFER_SIZE \in -SOCKET_BUFFER_SIZE .. -1
        /\ k < n => k - n \in -SOCKET_BUFFER_SIZE .. -1
        /\ k < n => k - n + SOCKET_BUFFER_SIZE \in 0 .. SOCKET_BUFFER_SIZE - 1
    OBVIOUS
  <2>. HIDE DEF x
  <2>3. CASE x = k - n /\ k >= n
    <3>1. x % SOCKET_BUFFER_SIZE = x
      BY <2>2, <2>3, Unwrapped
    <3>. QED
      BY <2>3, <3>1
  <2>4. CASE x = k - n /\ k < n
    <3>1. x % SOCKET_BUFFER_SIZE = x + SOCKET_BUFFER_SIZE
      BY <2>2, <2>4, WrappedBack
    <3>. QED
      BY <2>4, <3>1
  <2>5. CASE x = k - n - SOCKET_BUFFER_SIZE /\ k >= n
    <3>1. x % SOCKET_BUFFER_SIZE = x + SOCKET_BUFFER_SIZE
      BY <2>2, <2>5, WrappedBack
    <3>. QED
      BY <2>5, <3>1
  <2>6. CASE x = k - n + SOCKET_BUFFER_SIZE /\ k < n
    <3>1. x % SOCKET_BUFFER_SIZE = x
      BY <2>2, <2>6, Unwrapped
    <3>. QED
      BY <2>6, <3>1
  <2>7. k >= n \/ k < n
    OBVIOUS
  <2>. QED
    BY <2>1, <2>3, <2>4, <2>5, <2>6, <2>7, Zenon
<1>. QED
  BY <1>4

\* The cells of a datagram.
LEMMA EncodedCells ==
  ASSUME NEW d \in Packets
  PROVE  /\ d.data \in Seq(Nat) /\ Len(d.data) \in Nat
         /\ Encoded(d) \in Seq(Nat) /\ Len(Encoded(d)) = 2 + Len(d.data)
         /\ Encoded(d)[1] = d.src /\ Encoded(d)[2] = Len(d.data)
         /\ \A i \in 1 .. Len(d.data) : Encoded(d)[2 + i] = d.data[i]
<1>1. d.data \in Seq(Nat) /\ d.src \in Nat /\ Len(d.data) \in Nat
  OBVIOUS
<1>. DEFINE h == <<d.src, Len(d.data)>>
<1>2. h \in Seq(Nat) /\ Len(h) = 2 /\ h[1] = d.src /\ h[2] = Len(d.data)
  BY <1>1
<1>. HIDE DEF h
<1>3. /\ h \o d.data \in Seq(Nat) /\ Len(h \o d.data) = Len(h) + Len(d.data)
      /\ \A i \in 1 .. Len(h) + Len(d.data) : (h \o d.data)[i] =
           IF i <= Len(h) THEN h[i] ELSE d.data[i - Len(h)]
  <2>1. h \in Seq(Nat) /\ d.data \in Seq(Nat)
    BY <1>1, <1>2
  <2>. QED
    BY <2>1, ConcatProperties, Zenon
<1>4. /\ (h \o d.data)[1] = h[1] /\ (h \o d.data)[2] = h[2]
  BY <1>1, <1>2, <1>3
<1>5. ASSUME NEW i \in 1 .. Len(d.data) PROVE (h \o d.data)[2 + i] = d.data[i]
  <2>1. 2 + i \in 1 .. Len(h) + Len(d.data) /\ ~(2 + i <= Len(h)) /\ (2 + i) - Len(h) = i
    BY <1>1, <1>2
  <2>. QED
    BY <1>3, <2>1
<1>6. Encoded(d) = h \o d.data
  BY DEF Encoded, h
<1>. QED
  BY <1>1, <1>2, <1>3, <1>4, <1>5, <1>6

\* socket_create leaves a ring without packets.
LEMMA InitInv == Init => IInv
<1>. SUFFICES ASSUME Init PROVE IInv
  OBVIOUS
<1>1. TypeOK /\ Progress /\ ResultWhole
  BY DEF Init, TypeOK, Progress, ResultWhole, Cells
<1>2. Laid(0, {0})
  <2>1. 0 \in Cells /\ 0 \in 0 .. SOCKET_BUFFER_SIZE
    BY DEF Cells
  <2>2. Forward(0, 0) = 0
    BY <2>1, ForwardIn
  <2>3. Consumed = 0 /\ buffer_len = 0 /\ buffer_tail = 0 /\ buffer_head = 0
        /\ packet = <<>> /\ copied = <<>>
    BY DEF Init, Consumed
  <2>. QED
    BY <2>2, <2>3 DEF Laid
<1>3. 0 \in Cells /\ {0} \in SUBSET (0 .. SOCKET_BUFFER_SIZE)
  BY DEF Cells
<1>. QED
  BY <1>1, <1>2, <1>3 DEF IInv, WholePackets

\* While there is a packet, the first one is whole.
LEMMA FirstPacket ==
  ASSUME TypeOK, NEW start \in Cells, NEW B, Laid(start, B), buffer_len > 0
  PROVE  \E d \in Packets :
           /\ Len(Encoded(d)) \in B /\ Len(Encoded(d)) <= buffer_len
           /\ \A k \in 0 .. Len(Encoded(d)) - 1 : Cell(start, k) = Encoded(d)[k + 1]
           /\ Cell(start, 0) = d.src /\ Cell(start, 1) = Len(d.data)
<1>1. B \subseteq 0 .. buffer_len /\ 0 \in B /\ buffer_len \in Nat
  BY DEF Laid, TypeOK
<1>2. PICK d \in Packets : 0 + Len(Encoded(d)) \in B /\ Holds(start, 0, d)
  BY <1>1 DEF Laid
<1>3. /\ Len(d.data) \in Nat /\ Len(Encoded(d)) = 2 + Len(d.data)
      /\ Encoded(d)[1] = d.src /\ Encoded(d)[2] = Len(d.data)
  BY EncodedCells
<1>4. Len(Encoded(d)) \in B /\ Len(Encoded(d)) <= buffer_len
  BY <1>1, <1>2, <1>3
<1>5. ASSUME NEW k \in 0 .. Len(Encoded(d)) - 1 PROVE Cell(start, k) = Encoded(d)[k + 1]
  <2>1. 0 + k = k
    OBVIOUS
  <2>. QED
    BY <1>2, <2>1 DEF Holds
<1>6. 0 \in 0 .. Len(Encoded(d)) - 1 /\ 1 \in 0 .. Len(Encoded(d)) - 1 /\ 0 + 1 = 1 /\ 1 + 1 = 2
  BY <1>3
<1>7. Cell(start, 0) = d.src /\ Cell(start, 1) = Len(d.data)
  BY <1>3, <1>5, <1>6
<1>. QED
  BY <1>4, <1>5, <1>7

\* The invariant speaks of the ring and of the packet being read only.
LEMMA LaidKept ==
  ASSUME NEW start, NEW B, Laid(start, B),
         UNCHANGED <<buffer, buffer_head, buffer_tail, buffer_len, packet, copied>>
  PROVE  Laid(start, B)'
BY DEF Laid, Holds, Cell, Consumed

\* A step that leaves the ring, the packet being read and the result keeps the invariant.
LEMMA RingKept ==
  ASSUME IInv, UNCHANGED <<buffer, buffer_head, buffer_tail, buffer_len, packet, copied, result>>,
         TypeOK', Progress'
  PROVE  IInv'
<1>1. PICK start \in Cells, B \in SUBSET (0 .. SOCKET_BUFFER_SIZE) : Laid(start, B)
  BY DEF IInv, WholePackets
<1>2. Laid(start, B)'
  BY <1>1, LaidKept
<1>3. WholePackets'
  BY <1>2 DEF WholePackets, Cells
<1>. QED
  BY <1>3 DEF IInv, ResultWhole

\* recvfrom up to the copying, and the timer.
LEMMA WaitInv ==
  IInv /\ ((\E n \in Lengths : recvfrom(n)) \/ set_waiting \/ set_sleep \/ schedule
           \/ leave_wait \/ timer_irq \/ UNCHANGED vars) => IInv'
<1>. SUFFICES ASSUME IInv,
                     \/ \E n \in Lengths : recvfrom(n)
                     \/ set_waiting \/ set_sleep \/ schedule
                     \/ leave_wait \/ timer_irq \/ UNCHANGED vars
              PROVE  IInv'
  OBVIOUS
<1>t. TypeOK /\ Progress
  BY DEF IInv
<1>1. ASSUME NEW n \in Lengths, recvfrom(n) PROVE IInv'
  <2>1. UNCHANGED <<buffer, buffer_head, buffer_tail, buffer_len, packet, copied, result>>
    BY <1>1 DEF recvfrom, ringVars
  <2>2. TypeOK' /\ Progress'
    BY <1>t, <1>1 DEF recvfrom, ringVars, TypeOK, Progress, Reader, data_len
  <2>. QED
    BY <2>1, <2>2, RingKept
<1>2. CASE set_waiting \/ set_sleep \/ schedule
  <2>1. UNCHANGED <<buffer, buffer_head, buffer_tail, buffer_len, packet, copied, result>>
    BY <1>2 DEF set_waiting, set_sleep, schedule, ringVars
  <2>2. TypeOK' /\ Progress'
    BY <1>t, <1>2 DEF set_waiting, set_sleep, schedule, ringVars, TypeOK, Progress, Reader,
                      data_len
  <2>. QED
    BY <2>1, <2>2, RingKept
<1>3. CASE leave_wait
  <2>1. packet = <<>> /\ copied = <<>>
    BY <1>t, <1>3 DEF leave_wait, Reader, Progress
  <2>2. UNCHANGED <<buffer, buffer_head, buffer_tail, buffer_len, packet, copied, result>>
    BY <1>3, <2>1 DEF leave_wait, ringVars
  <2>3. TypeOK' /\ Progress'
    BY <1>t, <1>3 DEF leave_wait, ringVars, TypeOK, Progress, Reader, data_len
  <2>. QED
    BY <2>2, <2>3, RingKept
<1>4. CASE timer_irq
  <2>1. UNCHANGED <<buffer, buffer_head, buffer_tail, buffer_len, packet, copied, result>>
    BY <1>4 DEF timer_irq, ringVars
  <2>2. TypeOK' /\ Progress'
    BY <1>t, <1>4 DEF timer_irq, Dispatch, ringVars, TypeOK, Progress, data_len
  <2>. QED
    BY <2>1, <2>2, RingKept
<1>5. CASE UNCHANGED vars
  <2>1. UNCHANGED <<buffer, buffer_head, buffer_tail, buffer_len, packet, copied, result>>
    BY <1>5 DEF vars
  <2>2. TypeOK' /\ Progress'
    BY <1>t, <1>5 DEF vars, TypeOK, Progress, data_len
  <2>. QED
    BY <2>1, <2>2, RingKept
<1>. QED
  BY <1>1, <1>2, <1>3, <1>4, <1>5

-----------------------------------------------------------------------------
\* The reader takes the next cell: tail is Consumed cells after start.
LEMMA NextCell ==
  ASSUME TypeOK, NEW start \in Cells, NEW B, Laid(start, B), Consumed + 1 <= buffer_len
  PROVE  /\ Consumed \in Nat
         /\ buffer[buffer_tail] = Cell(start, Consumed) /\ buffer[buffer_tail] \in Nat
         /\ Forward(buffer_tail, 1) = Forward(start, Consumed + 1)
         /\ Forward(buffer_tail, 1) \in Cells
<1>1. /\ buffer_tail = Forward(start, Consumed) /\ buffer_tail \in Cells
      /\ buffer_len \in 0 .. SOCKET_BUFFER_SIZE /\ buffer \in [Cells -> Nat]
      /\ packet \in Seq(Nat) /\ copied \in Seq(Nat)
  BY DEF Laid, TypeOK
<1>2. Consumed \in Nat
  BY <1>1 DEF Consumed
<1>3. Consumed + 1 <= SOCKET_BUFFER_SIZE /\ 1 \in 0 .. SOCKET_BUFFER_SIZE
  BY <1>1, <1>2
<1>4. Forward(Forward(start, Consumed), 1) = Forward(start, Consumed + 1)
  BY <1>2, <1>3, ForwardAdd
<1>5. Forward(buffer_tail, 1) \in Cells
  BY <1>1, <1>3, ForwardIn
<1>. QED
  BY <1>1, <1>2, <1>4, <1>5 DEF Cell

\* The reader takes one more cell of the header.
LEMMA HeaderInv == IInv /\ read_header => IInv'
<1>. SUFFICES ASSUME IInv, read_header PROVE IInv'
  OBVIOUS
<1>t. TypeOK /\ Progress /\ ResultWhole
  BY DEF IInv
<1>1. PICK start \in Cells, B \in SUBSET (0 .. SOCKET_BUFFER_SIZE) : Laid(start, B)
  BY DEF IInv, WholePackets
<1>2. /\ pc = "header" /\ packet' = Append(packet, buffer[buffer_tail])
      /\ buffer_tail' = Forward(buffer_tail, 1)
      /\ pc' = IF Len(packet) + 1 = 2 THEN "data" ELSE "header"
      /\ UNCHANGED <<buffer, buffer_head, buffer_len, copied, result>>
      /\ UNCHANGED <<waiting_task, state, running, if_flag, length>>
  BY DEF read_header, Reader, ringVars
<1>3. /\ packet \in Seq(Nat) /\ Len(packet) \in {0, 1} /\ copied = <<>> /\ buffer_len > 0
      /\ buffer_len \in Nat
  <2>1. /\ packet \in Seq(Nat) /\ Len(packet) < 2 /\ copied = <<>> /\ buffer_len > 0
        /\ buffer_len \in Nat
    BY <1>t, <1>2 DEF TypeOK, Progress
  <2>2. Len(packet) \in Nat
    BY <2>1
  <2>3. Len(packet) \in {0, 1}
    <3>1. \A n \in Nat : n < 2 => n \in {0, 1}
      OBVIOUS
    <3>. QED
      BY <2>1, <2>2, <3>1
  <2>. QED
    BY <2>1, <2>3
<1>4. Consumed = Len(packet)
  BY <1>3 DEF Consumed
<1>5. Consumed + 1 <= buffer_len
  <2>1. PICK d \in Packets : Len(Encoded(d)) <= buffer_len
    BY <1>t, <1>1, <1>3, FirstPacket
  <2>2. Len(d.data) \in Nat /\ Len(Encoded(d)) = 2 + Len(d.data)
    BY EncodedCells
  <2>3. PICK k \in Nat : k = Len(d.data)
    BY <2>2
  <2>4. 2 + k <= buffer_len
    BY <2>1, <2>2, <2>3
  <2>5. 2 <= buffer_len
    BY <1>3, <2>3, <2>4
  <2>6. Consumed \in {0, 1}
    BY <1>3, <1>4
  <2>. QED
    BY <1>3, <2>5, <2>6
<1>6. /\ buffer[buffer_tail] = Cell(start, Consumed) /\ buffer[buffer_tail] \in Nat
      /\ Forward(buffer_tail, 1) = Forward(start, Consumed + 1)
      /\ Forward(buffer_tail, 1) \in Cells
  BY <1>t, <1>1, <1>5, NextCell
<1>7. /\ packet' \in Seq(Nat) /\ Len(packet') = Len(packet) + 1
      /\ \A i \in 1 .. Len(packet) : packet'[i] = packet[i]
      /\ packet'[Len(packet) + 1] = Cell(start, Consumed)
  BY <1>2, <1>3, <1>6
<1>8. TypeOK'
  BY <1>t, <1>2, <1>6, <1>7 DEF TypeOK
<1>9. Progress'
  <2>1. packet'[2] \in Nat \/ Len(packet) = 0
    BY <1>3, <1>7
  <2>2. Len(packet) + 1 = 2 => packet'[2] \in Nat
    BY <2>1
  <2>. QED
    BY <1>2, <1>3, <1>7, <2>2 DEF Progress, data_len
<1>10. Laid(start, B)'
  <2>1. Consumed' = Consumed + 1
    BY <1>2, <1>3, <1>7 DEF Consumed
  <2>2. buffer_tail' = Forward(start, Consumed')
    BY <1>2, <1>6, <2>1
  <2>3. ASSUME NEW i \in 1 .. Len(packet') PROVE packet'[i] = Cell(start, i - 1)
    <3>1. CASE i \in 1 .. Len(packet)
      BY <1>1, <1>7, <3>1 DEF Laid
    <3>2. CASE i = Len(packet) + 1
      <4>1. i - 1 = Consumed
        BY <1>3, <1>4, <3>2
      <4>. QED
        BY <1>7, <3>2, <4>1
    <3>. QED
      BY <1>3, <1>7, <3>1, <3>2
  <2>. QED
    BY <1>1, <1>2, <2>2, <2>3 DEF Laid, Holds, Cell
<1>11. WholePackets'
  BY <1>10 DEF WholePackets, Cells
<1>. QED
  BY <1>t, <1>2, <1>8, <1>9, <1>11 DEF IInv, ResultWhole

\* What the reader knows while it copies the data.
LEMMA InData ==
  ASSUME TypeOK, Progress, pc = "data", NEW start \in Cells, NEW B, Laid(start, B)
  PROVE  \E d \in Packets :
           /\ packet[1] = d.src /\ packet[2] = Len(d.data)
           /\ Len(Encoded(d)) \in B /\ Len(Encoded(d)) <= buffer_len
           /\ Len(Encoded(d)) = 2 + Len(d.data) /\ Len(d.data) \in Nat
           /\ \A i \in 1 .. Len(copied) : copied[i] = d.data[i]
<1>1. /\ packet \in Seq(Nat) /\ copied \in Seq(Nat) /\ Len(packet) = 2 /\ buffer_len > 0
      /\ Len(copied) <= packet[2] /\ Len(copied) \in Nat
  BY DEF TypeOK, Progress, data_len
<1>2. PICK d \in Packets :
        /\ Len(Encoded(d)) \in B /\ Len(Encoded(d)) <= buffer_len
        /\ \A k \in 0 .. Len(Encoded(d)) - 1 : Cell(start, k) = Encoded(d)[k + 1]
        /\ Cell(start, 0) = d.src /\ Cell(start, 1) = Len(d.data)
  BY <1>1, FirstPacket
<1>3. /\ Len(d.data) \in Nat /\ Len(Encoded(d)) = 2 + Len(d.data)
      /\ \A i \in 1 .. Len(d.data) : Encoded(d)[2 + i] = d.data[i]
  BY EncodedCells
<1>4. packet[1] = Cell(start, 0) /\ packet[2] = Cell(start, 1)
  <2>1. 1 \in 1 .. Len(packet) /\ 2 \in 1 .. Len(packet) /\ 1 - 1 = 0 /\ 2 - 1 = 1
    BY <1>1
  <2>. QED
    BY <2>1 DEF Laid
<1>5. ASSUME NEW i \in 1 .. Len(copied) PROVE copied[i] = d.data[i]
  <2>1. copied[i] = Cell(start, i + 1)
    BY DEF Laid
  <2>2. i + 1 \in 0 .. Len(Encoded(d)) - 1 /\ (i + 1) + 1 = 2 + i /\ i \in 1 .. Len(d.data)
    <3>1. PICK n : n = Len(d.data)
      OBVIOUS
    <3>2. PICK e : e = Len(Encoded(d))
      OBVIOUS
    <3>3. n \in Nat /\ e = 2 + n
      BY <3>1, <3>2, <1>3
    <3>4. packet[2] = n
      BY <3>1, <1>2, <1>4
    <3>5. Len(copied) \in Nat /\ Len(copied) <= n
      BY <3>4, <1>1
    <3>6. i \in 1 .. n
      BY <3>3, <3>5
    <3>7. i + 1 \in 0 .. e - 1 /\ (i + 1) + 1 = 2 + i
      BY <3>3, <3>6
    <3>. QED
      BY <3>1, <3>2, <3>6, <3>7
  <2>3. Cell(start, i + 1) = Encoded(d)[(i + 1) + 1]
    BY <1>2, <2>2
  <2>. QED
    BY <1>3, <2>1, <2>2, <2>3
<1>. QED
  BY <1>2, <1>3, <1>4, <1>5

\* What the reader has passed is still counted in buffer_len.
LEMMA PassedWaits ==
  ASSUME TypeOK, Progress, NEW start \in Cells, NEW B, Laid(start, B)
  PROVE  /\ Consumed <= buffer_len /\ Consumed \in Nat
         /\ Len(packet) \in Nat /\ Len(copied) \in Nat
         /\ buffer_len \in 0 .. SOCKET_BUFFER_SIZE
<1>1. packet \in Seq(Nat) /\ copied \in Seq(Nat) /\ buffer_len \in 0 .. SOCKET_BUFFER_SIZE
  BY DEF TypeOK
<1>2. Len(packet) \in Nat /\ Len(copied) \in Nat /\ Consumed \in Nat /\ buffer_len \in Nat
  BY <1>1 DEF Consumed
<1>3. CASE pc = "data"
  <2>1. PICK e \in Packets :
          /\ packet[2] = Len(e.data) /\ Len(Encoded(e)) <= buffer_len
          /\ Len(Encoded(e)) = 2 + Len(e.data) /\ Len(e.data) \in Nat
    BY <1>3, InData
  <2>2. Len(packet) = 2 /\ Len(copied) <= packet[2]
    BY <1>3 DEF Progress, data_len
  <2>. QED
    BY <1>1, <1>2, <2>1, <2>2 DEF Consumed
<1>4. CASE pc = "header"
  <2>1. Len(packet) < 2 /\ copied = <<>> /\ buffer_len > 0
    BY <1>4 DEF Progress
  <2>2. PICK e \in Packets : Len(Encoded(e)) <= buffer_len
    BY <2>1, FirstPacket
  <2>3. Len(Encoded(e)) \in Nat /\ Len(Encoded(e)) >= 2
    BY EncodedCells
  <2>. QED
    BY <1>1, <1>2, <2>1, <2>2, <2>3 DEF Consumed
<1>5. CASE pc \notin {"header", "data"}
  <2>1. Consumed = 0
    BY <1>5 DEF Progress, Consumed
  <2>. QED
    BY <1>1, <1>2, <2>1
<1>. QED
  BY <1>3, <1>4, <1>5

\* The reader takes one more cell of the data.
LEMMA DataInv == IInv /\ read_data => IInv'
<1>. SUFFICES ASSUME IInv, read_data PROVE IInv'
  OBVIOUS
<1>t. TypeOK /\ Progress /\ ResultWhole
  BY DEF IInv
<1>1. PICK start \in Cells, B \in SUBSET (0 .. SOCKET_BUFFER_SIZE) : Laid(start, B)
  BY DEF IInv, WholePackets
<1>2. /\ pc = "data" /\ copied' = Append(copied, buffer[buffer_tail])
      /\ Len(copied) < packet[2]
      /\ buffer_tail' = Forward(buffer_tail, 1)
      /\ UNCHANGED <<buffer, buffer_head, buffer_len, packet, result, pc>>
      /\ UNCHANGED <<waiting_task, state, running, if_flag, length>>
  BY DEF read_data, Reader, ringVars, NextTail, data_len
<1>3. /\ copied \in Seq(Nat) /\ Len(copied) \in Nat /\ Len(packet) = 2 /\ buffer_len > 0
      /\ buffer_len \in Nat
  BY <1>t, <1>2 DEF TypeOK, Progress
<1>4. Consumed = 2 + Len(copied)
  BY <1>3 DEF Consumed
<1>d. PICK d \in Packets :
        /\ packet[2] = Len(d.data) /\ Len(Encoded(d)) <= buffer_len
        /\ Len(Encoded(d)) = 2 + Len(d.data) /\ Len(d.data) \in Nat
  BY <1>t, <1>1, <1>2, InData
<1>5. Consumed + 1 <= buffer_len
  BY <1>2, <1>3, <1>4, <1>d
<1>6. /\ buffer[buffer_tail] = Cell(start, Consumed) /\ buffer[buffer_tail] \in Nat
      /\ Forward(buffer_tail, 1) = Forward(start, Consumed + 1)
      /\ Forward(buffer_tail, 1) \in Cells
  BY <1>t, <1>1, <1>5, NextCell
<1>7. /\ copied' \in Seq(Nat) /\ Len(copied') = Len(copied) + 1
      /\ \A i \in 1 .. Len(copied) : copied'[i] = copied[i]
      /\ copied'[Len(copied) + 1] = Cell(start, Consumed)
  BY <1>2, <1>3, <1>6
<1>8. TypeOK'
  BY <1>t, <1>2, <1>6, <1>7 DEF TypeOK
<1>9. Progress'
  <2>1. Len(copied') <= packet[2]
    BY <1>2, <1>3, <1>7, <1>d
  <2>. QED
    BY <1>2, <1>3, <2>1 DEF Progress, data_len
<1>10. Laid(start, B)'
  <2>1. Consumed' = Consumed + 1
    BY <1>2, <1>3, <1>7 DEF Consumed
  <2>2. buffer_tail' = Forward(start, Consumed')
    BY <1>2, <1>6, <2>1
  <2>3. ASSUME NEW i \in 1 .. Len(copied') PROVE copied'[i] = Cell(start, i + 1)
    <3>1. CASE i \in 1 .. Len(copied)
      BY <1>1, <1>7, <3>1 DEF Laid
    <3>2. CASE i = Len(copied) + 1
      <4>1. i + 1 = Consumed
        BY <1>3, <1>4, <3>2
      <4>. QED
        BY <1>7, <3>2, <4>1
    <3>. QED
      BY <1>3, <1>7, <3>1, <3>2
  <2>. QED
    BY <1>1, <1>2, <2>2, <2>3 DEF Laid, Holds, Cell
<1>11. WholePackets'
  BY <1>10 DEF WholePackets, Cells
<1>. QED
  BY <1>t, <1>2, <1>8, <1>9, <1>11 DEF IInv, ResultWhole

\* The packet is given back: the ring now begins with the next one.
LEMMA FinishInv == IInv /\ finish => IInv'
<1>. SUFFICES ASSUME IInv, finish PROVE IInv'
  OBVIOUS
<1>t. TypeOK /\ Progress
  BY DEF IInv
<1>1. PICK start \in Cells, B \in SUBSET (0 .. SOCKET_BUFFER_SIZE) : Laid(start, B)
  BY DEF IInv, WholePackets
<1>2. /\ pc = "data" /\ Len(copied) = packet[2]
      /\ buffer_len' = buffer_len - (2 + packet[2])
      /\ result' = <<packet[1], SubSeq(copied, 1, to_read)>>
      /\ pc' = "user" /\ packet' = <<>> /\ copied' = <<>> /\ if_flag' = 1
      /\ UNCHANGED <<buffer, buffer_head, buffer_tail, waiting_task, state, running, length>>
  BY DEF finish, Reader, GivenBack, data_len
<1>3. PICK d \in Packets :
        /\ packet[1] = d.src /\ packet[2] = Len(d.data)
        /\ Len(Encoded(d)) \in B /\ Len(Encoded(d)) <= buffer_len
        /\ Len(Encoded(d)) = 2 + Len(d.data) /\ Len(d.data) \in Nat
        /\ \A i \in 1 .. Len(copied) : copied[i] = d.data[i]
  BY <1>t, <1>1, <1>2, InData
<1>. DEFINE g == 2 + Len(d.data)
<1>4. /\ g \in Nat /\ g \in B /\ g <= buffer_len /\ buffer_len \in 0 .. SOCKET_BUFFER_SIZE
      /\ buffer_len' = buffer_len - g /\ buffer_len' \in 0 .. SOCKET_BUFFER_SIZE
  BY <1>t, <1>2, <1>3 DEF TypeOK
<1>5. TypeOK' /\ Progress'
  BY <1>t, <1>2, <1>4 DEF TypeOK, Progress
<1>6. ResultWhole'
  <2>1. copied \in Seq(Nat) /\ d.data \in Seq(Nat) /\ length \in Nat
    BY <1>t DEF TypeOK
  <2>2. copied = d.data
    <3>1. Len(copied) = Len(d.data) /\ \A i \in 1 .. Len(copied) : copied[i] = d.data[i]
      BY <1>2, <1>3
    <3>. QED
      BY <2>1, <3>1, SeqEqual
  <2>3. to_read \in 0 .. Len(d.data)
    BY <1>3, <2>1 DEF to_read, data_len
  <2>4. result' = <<d.src, SubSeq(d.data, 1, to_read)>>
    BY <1>2, <1>3, <2>2
  <2>. QED
    BY <2>3, <2>4 DEF ResultWhole
<1>. HIDE DEF g
<1>. DEFINE st == Forward(start, g)
            C == {b \in 0 .. SOCKET_BUFFER_SIZE : b + g \in B}
<1>7. st \in Cells
  BY <1>4, ForwardIn
<1>8. ASSUME NEW k \in Nat, g + k <= SOCKET_BUFFER_SIZE
      PROVE  Forward(st, k) = Forward(start, g + k)
  BY <1>4, <1>8, ForwardAdd
<1>. HIDE DEF st
<1>9. Laid(st, C)'
  <2>1. C \subseteq 0 .. buffer_len' /\ 0 \in C /\ buffer_len' \in C
    <3>1. B \subseteq 0 .. buffer_len /\ buffer_len \in B
      BY <1>1 DEF Laid
    <3>2. 0 + g = g /\ buffer_len' + g = buffer_len /\ 0 \in 0 .. SOCKET_BUFFER_SIZE
      BY <1>4
    <3>3. 0 \in C /\ buffer_len' \in C
      BY <1>4, <3>1, <3>2
    <3>4. ASSUME NEW b \in C PROVE b \in 0 .. buffer_len'
      <4>1. b \in Nat /\ b + g \in 0 .. buffer_len
        <5>1. b \in 0 .. SOCKET_BUFFER_SIZE /\ b + g \in B
          OBVIOUS
        <5>2. b + g \in 0 .. buffer_len
          BY <3>1, <5>1, Zenon
        <5>. QED
          BY <5>1, <5>2
      <4>. QED
        BY <1>4, <4>1
    <3>. QED
      BY <3>3, <3>4
  <2>2. buffer_tail' = Forward(st, Consumed')
    <3>1. Consumed' = 0
      BY <1>2 DEF Consumed
    <3>2. Consumed = g
      <4>1. Len(packet) = 2
        BY <1>t, <1>2 DEF Progress
      <4>. QED
        BY <1>2, <1>3, <4>1 DEF Consumed, g
    <3>3. Forward(st, 0) = Forward(start, g + 0) /\ g + 0 = g
      BY <1>4, <1>8
    <3>. QED
      BY <1>1, <1>2, <3>1, <3>2, <3>3 DEF Laid
  <2>3. buffer_head' = Forward(st, buffer_len')
    <3>1. buffer_len' \in Nat /\ g + buffer_len' <= SOCKET_BUFFER_SIZE
          /\ g + buffer_len' = buffer_len
      BY <1>4
    <3>2. Forward(st, buffer_len') = Forward(start, g + buffer_len')
      BY <1>8, <3>1
    <3>. QED
      BY <1>1, <1>2, <3>1, <3>2 DEF Laid
  <2>4. ASSUME NEW b \in C, b < buffer_len'
        PROVE  \E e \in Packets : b + Len(Encoded(e)) \in C /\ Holds(st, b, e)'
    <3>0. b \in Nat /\ b + g \in B /\ b + g < buffer_len
      BY <1>4, <2>4
    <3>1. PICK e \in Packets : (b + g) + Len(Encoded(e)) \in B /\ Holds(start, b + g, e)
      BY <1>1, <3>0 DEF Laid
    <3>2. Len(Encoded(e)) \in Nat
      BY EncodedCells
    <3>3. b + g + Len(Encoded(e)) <= buffer_len
      <4>1. (b + g) + Len(Encoded(e)) \in 0 .. buffer_len
        BY <1>1, <3>1 DEF Laid
      <4>. QED
        BY <4>1
    <3>4. b + Len(Encoded(e)) \in C
      <4>1. (b + Len(Encoded(e))) + g = (b + g) + Len(Encoded(e))
        BY <1>4, <3>0, <3>2
      <4>2. b + Len(Encoded(e)) \in 0 .. SOCKET_BUFFER_SIZE
        BY <1>4, <3>0, <3>2, <3>3
      <4>. QED
        BY <3>1, <4>1, <4>2
    <3>5. ASSUME NEW k \in 0 .. Len(Encoded(e)) - 1
          PROVE  buffer'[Forward(st, b + k)] = Encoded(e)[k + 1]
      <4>1. b + k \in Nat /\ g + (b + k) <= SOCKET_BUFFER_SIZE /\ g + (b + k) = (b + g) + k
        BY <1>4, <3>0, <3>2, <3>3
      <4>2. Forward(st, b + k) = Forward(start, (b + g) + k)
        BY <1>8, <4>1
      <4>3. buffer[Forward(start, (b + g) + k)] = Encoded(e)[k + 1]
        BY <3>1 DEF Holds, Cell
      <4>. QED
        BY <1>2, <4>2, <4>3
    <3>6. Holds(st, b, e)'
      BY <3>5 DEF Holds, Cell
    <3>. QED
      BY <3>4, <3>6
  <2>5. Len(packet') = 0 /\ Len(copied') = 0
    BY <1>2
  <2>. HIDE DEF C
  <2>. QED
    BY <2>1, <2>2, <2>3, <2>4, <2>5 DEF Laid
<1>10. WholePackets'
  <2>1. C \in SUBSET (0 .. SOCKET_BUFFER_SIZE)
    OBVIOUS
  <2>. HIDE DEF C
  <2>. QED
    BY <1>7, <1>9, <2>1 DEF WholePackets, Cells
<1>. QED
  BY <1>5, <1>6, <1>10 DEF IInv

\* What socket_dispatch_udp writes: the cells after the last packet, and no other that is
\* in use.
LEMMA DispatchCells ==
  ASSUME TypeOK, NEW start \in Cells, NEW B, Laid(start, B),
         NEW d \in Packets, socket_dispatch_udp(d), NEW k \in 0 .. buffer_len + Len(Encoded(d)) - 1
  PROVE  /\ Forward(start, k) \in Cells
         /\ k < buffer_len => Cell(start, k)' = Cell(start, k)
         /\ k >= buffer_len => Cell(start, k)' = Encoded(d)[k - buffer_len + 1]
<1>. DEFINE L == Len(Encoded(d))
<1>2. L \in Nat /\ L >= 2 /\ Encoded(d) \in Seq(Nat)
  BY EncodedCells
<1>3. /\ buffer_len + L <= SOCKET_BUFFER_SIZE /\ buffer_len \in 0 .. SOCKET_BUFFER_SIZE
      /\ buffer_head \in Cells
      /\ buffer' = [c \in Cells |-> IF Offset(c) < L THEN Encoded(d)[Offset(c) + 1] ELSE buffer[c]]
  BY DEF socket_dispatch_udp, Fits, TypeOK
<1>4. k \in 0 .. buffer_len + L - 1 /\ buffer_len \in Nat
  BY <1>3
<1>5. buffer_head = Forward(start, buffer_len)
  BY DEF Laid
<1>. HIDE DEF L
<1>6. k \in 0 .. SOCKET_BUFFER_SIZE - 1 /\ k \in 0 .. SOCKET_BUFFER_SIZE
  BY <1>2, <1>3, <1>4
<1>. DEFINE c == Forward(start, k)
<1>7. c \in Cells
  BY <1>6, ForwardIn
<1>8. Offset(c) = IF k < buffer_len THEN k - buffer_len + SOCKET_BUFFER_SIZE ELSE k - buffer_len
  BY <1>3, <1>5, <1>6, OffsetOf DEF Offset
<1>. HIDE DEF c
<1>9. buffer'[c] = IF Offset(c) < L THEN Encoded(d)[Offset(c) + 1] ELSE buffer[c]
  BY <1>3, <1>7
<1>10. CASE k < buffer_len
  <2>1. ~(Offset(c) < L)
    BY <1>2, <1>3, <1>6, <1>8, <1>10
  <2>. QED
    BY <1>4, <1>6, <1>7, <1>9, <1>10, <2>1 DEF Cell, c
<1>11. CASE k >= buffer_len
  <2>1. Offset(c) < L /\ Offset(c) = k - buffer_len
    BY <1>2, <1>3, <1>4, <1>6, <1>8, <1>11
  <2>. QED
    BY <1>4, <1>6, <1>7, <1>9, <1>11, <2>1 DEF Cell, c
<1>12. k < buffer_len \/ k >= buffer_len
  BY <1>3
<1>. QED
  BY <1>10, <1>11, <1>12

\* socket_dispatch_udp: a packet that fits is written after the last one, and no cell of
\* those that wait, or that recvfrom is copying, is written.
LEMMA DispatchInv == IInv /\ (\E d \in Packets : socket_dispatch_udp(d)) => IInv'
<1>. SUFFICES ASSUME IInv, NEW d \in Packets, socket_dispatch_udp(d) PROVE IInv'
  OBVIOUS
<1>t. TypeOK /\ Progress /\ ResultWhole
  BY DEF IInv
<1>1. PICK start \in Cells, B \in SUBSET (0 .. SOCKET_BUFFER_SIZE) : Laid(start, B)
  BY DEF IInv, WholePackets
<1>. DEFINE L == Len(Encoded(d))
<1>2. L \in Nat /\ L >= 2 /\ Encoded(d) \in Seq(Nat)
  BY EncodedCells
<1>3. /\ buffer_len + L <= SOCKET_BUFFER_SIZE /\ buffer_len \in 0 .. SOCKET_BUFFER_SIZE
      /\ buffer_head \in Cells
      /\ buffer_head' = Forward(buffer_head, L) /\ buffer_len' = buffer_len + L
      /\ buffer' = [c \in Cells |-> IF Offset(c) < L THEN Encoded(d)[Offset(c) + 1] ELSE buffer[c]]
      /\ UNCHANGED <<buffer_tail, running, if_flag, pc, length, packet, copied, result>>
  BY <1>t DEF socket_dispatch_udp, Fits, TypeOK
<1>4. buffer_len' \in 0 .. SOCKET_BUFFER_SIZE /\ buffer_len \in Nat /\ buffer_len' \in Nat
      /\ buffer_len' > buffer_len
  BY <1>2, <1>3
<1>. HIDE DEF L
<1>5. buffer_head = Forward(start, buffer_len)
  BY <1>1 DEF Laid
<1>6. ASSUME NEW k \in 0 .. buffer_len + L - 1
      PROVE  /\ Forward(start, k) \in Cells
             /\ k < buffer_len => Cell(start, k)' = Cell(start, k)
             /\ k >= buffer_len => Cell(start, k)' = Encoded(d)[k - buffer_len + 1]
  BY <1>t, <1>1, DispatchCells DEF L
<1>7. TypeOK'
  <2>1. buffer' \in [Cells -> Nat]
    <3>1. ASSUME NEW c \in Cells, Offset(c) < L PROVE Encoded(d)[Offset(c) + 1] \in Nat
      <4>1. Offset(c) \in Nat
        <5>1. c \in 0 .. SOCKET_BUFFER_SIZE - 1 /\ buffer_head \in 0 .. SOCKET_BUFFER_SIZE - 1
          BY <1>3 DEF Cells
        <5>2. CASE c >= buffer_head
          <6>. DEFINE x == c - buffer_head
          <6>1. x \in 0 .. SOCKET_BUFFER_SIZE - 1
            BY <5>1, <5>2
          <6>. HIDE DEF x
          <6>2. x % SOCKET_BUFFER_SIZE = x
            BY <6>1, Unwrapped
          <6>. QED
            BY <6>1, <6>2 DEF Offset, x
        <5>3. CASE c < buffer_head
          <6>. DEFINE x == c - buffer_head
          <6>1. x \in -SOCKET_BUFFER_SIZE .. -1
            BY <5>1, <5>3
          <6>. HIDE DEF x
          <6>2. x % SOCKET_BUFFER_SIZE = x + SOCKET_BUFFER_SIZE
            BY <6>1, WrappedBack
          <6>3. x % SOCKET_BUFFER_SIZE \in Nat
            BY <6>1, <6>2
          <6>. QED
            BY <6>3 DEF Offset, x
        <5>. QED
          BY <5>1, <5>2, <5>3
      <4>2. Offset(c) + 1 \in 1 .. L
        BY <1>2, <3>1, <4>1
      <4>. QED
        BY <1>2, <4>2, ElementOfSeq DEF L
    <3>2. buffer \in [Cells -> Nat]
      BY <1>t DEF TypeOK
    <3>. QED
      BY <1>3, <3>1, <3>2
  <2>2. buffer_head' \in Cells
    <3>1. L \in 0 .. SOCKET_BUFFER_SIZE
      BY <1>2, <1>3
    <3>. QED
      BY <1>3, <3>1, ForwardIn
  <2>3. waiting_task' \in {0, 1} /\ state' \in {"READY", "RUNNING", "SLEEP"}
    BY <1>t DEF socket_dispatch_udp, WakeReader, TypeOK
  <2>. QED
    BY <1>t, <1>3, <1>4, <2>1, <2>2, <2>3 DEF TypeOK
<1>8. Progress'
  BY <1>t, <1>3, <1>4 DEF Progress, data_len
<1>n. PICK n \in 0 .. SOCKET_BUFFER_SIZE : n = buffer_len'
  BY <1>4
<1>. DEFINE C == B \union {n}
<1>9. Laid(start, C)'
  <2>0. B \subseteq 0 .. buffer_len /\ 0 \in B /\ buffer_len \in B
    BY <1>1 DEF Laid
  <2>1. C \subseteq 0 .. buffer_len' /\ 0 \in C /\ buffer_len' \in C
    <3>1. ASSUME NEW b \in C PROVE b \in 0 .. buffer_len'
      BY <1>4, <1>n, <2>0
    <3>. QED
      BY <1>n, <2>0, <3>1
  <2>2. buffer_tail' = Forward(start, Consumed')
    BY <1>1, <1>3 DEF Laid, Consumed
  <2>3. buffer_head' = Forward(start, buffer_len')
    <3>1. Forward(Forward(start, buffer_len), L) = Forward(start, buffer_len + L)
      BY <1>2, <1>3, <1>4, ForwardAdd
    <3>. QED
      BY <1>3, <1>5, <3>1
  <2>4. ASSUME NEW b \in C, b < buffer_len'
        PROVE  \E e \in Packets : b + Len(Encoded(e)) \in C /\ Holds(start, b, e)'
    <3>0. b \in B /\ b \in Nat /\ b <= buffer_len
      <4>1. b \in B
        BY <1>4, <1>n, <2>4
      <4>. QED
        BY <1>4, <2>0, <4>1
    <3>1. CASE b < buffer_len
      <4>1. PICK e \in Packets : b + Len(Encoded(e)) \in B /\ Holds(start, b, e)
        BY <1>1, <3>0, <3>1 DEF Laid
      <4>2. Len(Encoded(e)) \in Nat /\ b + Len(Encoded(e)) <= buffer_len
        <5>1. Len(Encoded(e)) \in Nat
          BY EncodedCells
        <5>. QED
          BY <2>0, <4>1, <5>1
      <4>3. ASSUME NEW k \in 0 .. Len(Encoded(e)) - 1
            PROVE  Cell(start, b + k)' = Encoded(e)[k + 1]
        <5>1. b + k \in 0 .. buffer_len + L - 1 /\ b + k < buffer_len
          BY <1>2, <1>4, <3>0, <4>2
        <5>2. Cell(start, b + k)' = Cell(start, b + k)
          BY <1>6, <5>1
        <5>. QED
          BY <4>1, <5>2 DEF Holds
      <4>4. Holds(start, b, e)'
        BY <4>3 DEF Holds
      <4>. QED
        BY <4>1, <4>4
    <3>2. CASE b = buffer_len
      <4>1. ASSUME NEW k \in 0 .. Len(Encoded(d)) - 1
            PROVE  Cell(start, b + k)' = Encoded(d)[k + 1]
        <5>1. /\ b + k \in 0 .. buffer_len + L - 1 /\ b + k >= buffer_len
              /\ (b + k) - buffer_len + 1 = k + 1
          BY <1>2, <1>4, <3>2 DEF L
        <5>2. Cell(start, b + k)' = Encoded(d)[(b + k) - buffer_len + 1]
          BY <1>6, <5>1
        <5>. QED
          BY <5>1, <5>2
      <4>2. Holds(start, b, d)'
        BY <4>1 DEF Holds
      <4>3. b + Len(Encoded(d)) \in C
        BY <1>3, <1>n, <3>2 DEF L
      <4>. QED
        BY <4>2, <4>3
    <3>3. b < buffer_len \/ b = buffer_len
      BY <1>4, <3>0
    <3>. QED
      BY <3>1, <3>2, <3>3
  <2>5. Consumed <= buffer_len /\ Consumed \in Nat /\ Len(packet) \in Nat /\ Len(copied) \in Nat
    BY <1>t, <1>1, PassedWaits
  <2>6. ASSUME NEW i \in 1 .. Len(packet') PROVE packet'[i] = Cell(start, i - 1)'
    <3>1. i \in 1 .. Len(packet) /\ packet'[i] = packet[i] /\ packet[i] = Cell(start, i - 1)
      BY <1>1, <1>3 DEF Laid
    <3>2. i - 1 \in 0 .. buffer_len + L - 1 /\ i - 1 < buffer_len
      BY <1>2, <1>4, <2>5, <3>1 DEF Consumed
    <3>. QED
      BY <1>6, <3>1, <3>2
  <2>7. ASSUME NEW i \in 1 .. Len(copied') PROVE copied'[i] = Cell(start, i + 1)'
    <3>1. i \in 1 .. Len(copied) /\ copied'[i] = copied[i] /\ copied[i] = Cell(start, i + 1)
      BY <1>1, <1>3 DEF Laid
    <3>2. Len(packet) = 2
      BY <1>t, <3>1 DEF Progress
    <3>3. i + 1 \in 0 .. buffer_len + L - 1 /\ i + 1 < buffer_len
      BY <1>2, <1>4, <2>5, <3>1, <3>2 DEF Consumed
    <3>. QED
      BY <1>6, <3>1, <3>3
  <2>. HIDE DEF C
  <2>. QED
    BY <2>1, <2>2, <2>3, <2>4, <2>6, <2>7 DEF Laid
<1>10. WholePackets'
  <2>1. C \in SUBSET (0 .. SOCKET_BUFFER_SIZE)
    OBVIOUS
  <2>. HIDE DEF C
  <2>. QED
    BY <1>9, <2>1 DEF WholePackets, Cells
<1>. QED
  BY <1>t, <1>3, <1>7, <1>8, <1>10 DEF IInv, ResultWhole

\* The ring consists of whole packets at every moment.
LEMMA Inductive == Spec => []IInv
<1>1. IInv /\ [Next]_vars => IInv'
  BY WaitInv, HeaderInv, DataInv, FinishInv, DispatchInv DEF Next, ReaderStep, drop
<1>. QED
  BY <1>1, InitInv, PTL DEF Spec

-----------------------------------------------------------------------------
\* buffer_len, the two indices and the reader's place in its packet agree at every moment
\* of socket_recvfrom, whatever socket_dispatch_udp interleaves with it.
THEOREM RingStaysConsistent == Spec => []RingAgrees
<1>1. IInv => RingAgrees
  <2>. SUFFICES ASSUME IInv PROVE RingAgrees
    OBVIOUS
  <2>t. TypeOK /\ Progress
    BY DEF IInv
  <2>1. PICK start \in Cells, B \in SUBSET (0 .. SOCKET_BUFFER_SIZE) : Laid(start, B)
    BY DEF IInv, WholePackets
  <2>2. Consumed <= buffer_len /\ Consumed \in Nat /\ buffer_len \in 0 .. SOCKET_BUFFER_SIZE
    BY <2>t, <2>1, PassedWaits
  <2>3. Forward(Forward(start, Consumed), buffer_len - Consumed) = Forward(start, buffer_len)
    <3>1. /\ buffer_len - Consumed \in Nat /\ Consumed + (buffer_len - Consumed) = buffer_len
          /\ Consumed + (buffer_len - Consumed) <= SOCKET_BUFFER_SIZE
      BY <2>2
    <3>2. Forward(Forward(start, Consumed), buffer_len - Consumed)
            = Forward(start, Consumed + (buffer_len - Consumed))
      BY <2>2, <3>1, ForwardAdd
    <3>. QED
      BY <3>1, <3>2
  <2>. QED
    BY <2>t, <2>1, <2>2, <2>3 DEF RingAgrees, Laid
<1>. QED
  BY <1>1, Inductive, PTL

\* recvfrom returns one datagram that arrived, with its sender, never torn.
THEOREM WholeDatagrams == Spec => []ResultWhole
<1>1. IInv => ResultWhole
  BY DEF IInv
<1>. QED
  BY <1>1, Inductive, PTL

-----------------------------------------------------------------------------
\* A set of numbers has a least one.
LEMMA Least ==
  ASSUME NEW A, A \subseteq Nat, A # {}
  PROVE  \E m \in A : \A y \in A : m <= y
<1>. DEFINE Less == {ss \in Nat \X Nat : ss[1] < ss[2]}
<1>1. IsWellFoundedOn(Less, Nat)
  BY NatLessThanWellFounded, Zenon DEF OpToRel
<1>2. PICK x \in A : \A y \in A : ~ (<<y, x>> \in Less)
  BY <1>1, WFMin, Zenon
<1>3. ASSUME NEW y \in A PROVE x <= y
  <2>1. <<y, x>> \notin Less
    BY <1>2
  <2>2. <<y, x>> \in Less <=> y < x
    OBVIOUS
  <2>. QED
    BY <2>1, <2>2
<1>. QED
  BY <1>3

\* A set of numbers that has 0 and, with a number below n, the next one.
LEMMA Counting ==
  ASSUME NEW n \in Nat, NEW A, 0 \in A, \A k \in 1 .. n : k - 1 \in A => k \in A
  PROVE  0 .. n \subseteq A
<1>. SUFFICES ASSUME ~(0 .. n \subseteq A) PROVE FALSE
  OBVIOUS
<1>. DEFINE out == (0 .. n) \ A
<1>1. out \subseteq Nat /\ out # {}
  OBVIOUS
<1>2. PICK m \in out : \A y \in out : m <= y
  BY <1>1, Least
<1>3. m \in 1 .. n /\ m - 1 \in 0 .. n
  BY <1>2
<1>4. m - 1 \in A
  BY <1>2, <1>3
<1>. QED
  BY <1>2, <1>3, <1>4

\* A loop of n turns, F[<<x, k>>] being what turn k makes of x, and a course of it.
Closed(F, X, n) == \A x \in X, k \in 1 .. n : F[<<x, k>>] \in X
Follows(f, F, x0, n) == f[0] = x0 /\ \A k \in 1 .. n : f[k] = F[<<f[k - 1], k>>]

\* A loop has a course.
LEMMA Course ==
  ASSUME NEW X, NEW x0, x0 \in X, NEW n, n \in Nat, NEW F, Closed(F, X, n)
  PROVE  \E f \in [0 .. n -> X] : Follows(f, F, x0, n)
<1>. USE DEF Closed
<1>. DEFINE Runs(m) == \E f \in [0 .. m -> X] :
                         f[0] = x0 /\ \A k \in 1 .. m : f[k] = F[<<f[k - 1], k>>]
            A == {m \in Nat : Runs(m)}
<1>1. 0 \in A
  <2>. DEFINE g == [i \in 0 .. 0 |-> x0]
  <2>1. g \in [0 .. 0 -> X] /\ g[0] = x0 /\ \A k \in 1 .. 0 : FALSE
    OBVIOUS
  <2>. HIDE DEF g
  <2>2. Runs(0)
    BY <2>1
  <2>. QED
    BY <2>2
<1>2. ASSUME NEW k \in 1 .. n, k - 1 \in A PROVE k \in A
  <2>1. PICK f \in [0 .. k - 1 -> X] :
          f[0] = x0 /\ \A j \in 1 .. k - 1 : f[j] = F[<<f[j - 1], j>>]
    BY <1>2
  <2>. DEFINE g == [i \in 0 .. k |-> IF i = k THEN F[<<f[k - 1], k>>] ELSE f[i]]
  <2>2. f[k - 1] \in X
    BY <2>1
  <2>3. F[<<f[k - 1], k>>] \in X
    BY <2>2
  <2>4. g \in [0 .. k -> X]
    BY <2>1, <2>3
  <2>5. g[0] = x0
    BY <2>1
  <2>6. ASSUME NEW j \in 1 .. k PROVE g[j] = F[<<g[j - 1], j>>]
    <3>1. g[j - 1] = f[j - 1]
      OBVIOUS
    <3>2. CASE j = k
      <4>1. g[j] = F[<<f[j - 1], j>>]
        BY <3>2
      <4>. HIDE DEF g
      <4>. QED
        BY <3>1, <4>1
    <3>3. CASE j # k
      <4>1. j \in 1 .. k - 1 /\ j \in 0 .. k
        BY <3>3
      <4>2. g[j] = f[j]
        BY <4>1, <3>3
      <4>3. f[j] = F[<<f[j - 1], j>>]
        BY <4>1, <2>1
      <4>. QED
        BY <3>1, <4>2, <4>3
    <3>. QED
      BY <3>2, <3>3
  <2>7. k \in Nat
    OBVIOUS
  <2>. HIDE DEF g
  <2>. QED
    BY <2>4, <2>5, <2>6, <2>7
<1>. HIDE DEF A
<1>3. n \in A
  BY <1>1, <1>2, Counting
<1>. QED
  BY <1>3 DEF A, Follows

-----------------------------------------------------------------------------
(* The datagrams in a row of cells: bk[m] is the m-th cell before the head.  *)

N == SOCKET_BUFFER_SIZE
Rows == [0 .. N -> Nat]
Row(buf, head) == [m \in 0 .. N |-> Back(buf, head, m)]

Datagram == [src : Nat, data : Seq(Nat)]
Torn == "torn"
Queues == Seq(Datagram \union {Torn})

\* The datagram that begins n cells before the head; the cells of a header and its data.
DataOf(bk, n) == [i \in 1 .. bk[n - 1] |-> bk[n - 2 - i + 1]]
FirstOf(bk, n) == [src |-> bk[n], data |-> DataOf(bk, n)]
Fitting(bk, n) == n >= 2 /\ n >= 2 + bk[n - 1]
Rest(bk, n) == n - 2 - bk[n - 1]

\* One turn of the decoding, and a function that decodes the row.
Decode(bk, f, n) ==
  IF n = 0 THEN <<>>
  ELSE IF Fitting(bk, n) THEN <<FirstOf(bk, n)>> \o f[Rest(bk, n)] ELSE <<Torn>>
Decodes(bk, f) == f \in [0 .. N -> Queues] /\ \A n \in 0 .. N : f[n] = Decode(bk, f, n)

\* The sizes of the ring.
LEMMA Sizes == N \in Nat /\ N >= 1
BY DEF N

\* What lies behind a header.
LEMMA RestIn ==
  ASSUME NEW bk \in Rows, NEW n \in 1 .. N, Fitting(bk, n)
  PROVE  /\ n - 1 \in 0 .. N /\ bk[n - 1] \in Nat /\ Rest(bk, n) \in 0 .. n - 2
         /\ n = 2 + bk[n - 1] + Rest(bk, n)
<1>1. n - 1 \in 0 .. N
  BY Sizes
<1>2. bk[n - 1] \in Nat
  BY <1>1 DEF Rows
<1>. QED
  BY <1>1, <1>2 DEF Fitting, Rest

\* A header and its data make a datagram.
LEMMA FirstIs ==
  ASSUME NEW bk \in Rows, NEW n \in 1 .. N, Fitting(bk, n)
  PROVE  /\ FirstOf(bk, n) \in Datagram
         /\ FirstOf(bk, n).src = bk[n]
         /\ FirstOf(bk, n).data = DataOf(bk, n)
         /\ DataOf(bk, n) \in Seq(Nat) /\ Len(DataOf(bk, n)) = bk[n - 1]
         /\ \A i \in 1 .. bk[n - 1] : /\ n - 2 - i + 1 \in 1 .. N
                                      /\ DataOf(bk, n)[i] = bk[n - 2 - i + 1]
<1>1. bk[n] \in Nat /\ bk[n - 1] \in Nat /\ n >= 2 + bk[n - 1]
  BY RestIn, Sizes DEF Rows, Fitting
<1>2. ASSUME NEW i \in 1 .. bk[n - 1]
      PROVE  n - 2 - i + 1 \in 1 .. N /\ bk[n - 2 - i + 1] \in Nat
  <2>1. n - 2 - i + 1 \in 1 .. N /\ n - 2 - i + 1 \in 0 .. N
    BY <1>1, Sizes
  <2>. QED
    BY <2>1 DEF Rows
<1>3. PICK w : w = DataOf(bk, n)
  OBVIOUS
<1>4. PICK k \in Nat : k = bk[n - 1]
  BY <1>1
<1>5. w \in [1 .. k -> Nat] /\ \A i \in 1 .. k : w[i] = bk[n - 2 - i + 1]
  BY <1>2, <1>3, <1>4 DEF DataOf
<1>6. w \in Seq(Nat) /\ Len(w) = k
  BY <1>5
<1>. QED
  BY <1>1, <1>2, <1>3, <1>4, <1>5, <1>6 DEF FirstOf, Datagram

\* A turn makes a queue, and depends only on what was decoded before.
LEMMA DecodeTurn ==
  ASSUME NEW bk \in Rows, NEW f \in [0 .. N -> Queues], NEW n \in 0 .. N
  PROVE  /\ Decode(bk, f, n) \in Queues
         /\ \A g \in [0 .. N -> Queues] :
              (\A j \in 0 .. n - 1 : g[j] = f[j]) => Decode(bk, g, n) = Decode(bk, f, n)
<1>1. CASE n = 0
  BY <1>1 DEF Decode, Queues
<1>2. CASE n # 0 /\ Fitting(bk, n)
  <2>0. n \in 1 .. N
    BY <1>2
  <2>1. /\ Rest(bk, n) \in 0 .. n - 2 /\ Rest(bk, n) \in 0 .. n - 1 /\ Rest(bk, n) \in 0 .. N
    BY <1>2, <2>0, RestIn, Sizes
  <2>2. PICK q \in Queues : q = f[Rest(bk, n)]
    BY <2>1
  <2>3. PICK d \in Datagram \union {Torn} : d = FirstOf(bk, n)
    BY <1>2, <2>0, FirstIs
  <2>4. <<d>> \o q \in Queues
    BY DEF Queues
  <2>. QED
    BY <1>2, <2>1, <2>2, <2>3, <2>4 DEF Decode
<1>3. CASE n # 0 /\ ~Fitting(bk, n)
  <2>1. PICK t \in Datagram \union {Torn} : t = Torn
    OBVIOUS
  <2>2. <<t>> \in Queues
    BY DEF Queues
  <2>. QED
    BY <1>3, <2>1, <2>2 DEF Decode
<1>. QED
  BY <1>1, <1>2, <1>3

\* Every row can be decoded.
LEMMA DecodingExists ==
  ASSUME NEW bk \in Rows
  PROVE  \E f : Decodes(bk, f)
<1>. DEFINE X == [0 .. N -> Queues]
            x0 == [n \in 0 .. N |-> <<>>]
            F == [fk \in X \X (1 .. N) |-> [fk[1] EXCEPT ![fk[2]] = Decode(bk, fk[1], fk[2])]]
<1>1. x0 \in X
  BY DEF Queues
<1>2. ASSUME NEW f \in X, NEW k \in 1 .. N
      PROVE  /\ F[<<f, k>>] = [f EXCEPT ![k] = Decode(bk, f, k)]
             /\ F[<<f, k>>] \in X
  <2>1. k \in 0 .. N
    BY Sizes
  <2>2. Decode(bk, f, k) \in Queues
    BY <2>1, DecodeTurn
  <2>. QED
    BY <2>1, <2>2
<1>. HIDE DEF F, x0
<1>3. PICK g \in [0 .. N -> X] : Follows(g, F, x0, N)
  <2>1. Closed(F, X, N)
    BY <1>2 DEF Closed
  <2>. HIDE DEF X
  <2>. QED
    BY <1>1, <2>1, Sizes, Course, Zenon
<1>. DEFINE A == {k \in 0 .. N : \A j \in 0 .. k : j # 0 => g[k][j] = Decode(bk, g[k], j)}
<1>4. 0 \in A
  BY Sizes
<1>5. ASSUME NEW k \in 1 .. N, k - 1 \in A PROVE k \in A
  <2>1. k - 1 \in 0 .. N /\ k \in 0 .. N
    BY Sizes
  <2>2. PICK f \in X : f = g[k - 1]
    BY <2>1
  <2>3. PICK h \in X : h = g[k]
    BY <2>1
  <2>4. h = [f EXCEPT ![k] = Decode(bk, f, k)]
    BY <2>2, <2>3, <1>2, <1>3 DEF Follows
  <2>5. h[k] = Decode(bk, f, k) /\ \A j \in 0 .. k - 1 : h[j] = f[j]
    BY <2>1, <2>4
  <2>6. ASSUME NEW j \in 0 .. k, j # 0 PROVE h[j] = Decode(bk, h, j)
    <3>1. j \in 0 .. N /\ \A i \in 0 .. j - 1 : h[i] = f[i]
      BY <2>5, <2>1, Sizes
    <3>2. Decode(bk, h, j) = Decode(bk, f, j)
      BY <3>1, DecodeTurn
    <3>3. CASE j = k
      BY <2>5, <3>2, <3>3
    <3>4. CASE j # k
      <4>1. j \in 0 .. k - 1
        BY <3>4
      <4>2. f[j] = Decode(bk, f, j)
        BY <4>1, <2>2, <2>6, <1>5
      <4>. QED
        BY <4>1, <4>2, <2>5, <3>2
    <3>. QED
      BY <3>3, <3>4
  <2>. QED
    BY <2>1, <2>3, <2>6
<1>. HIDE DEF A
<1>6. N \in A
  <2>1. 0 .. N \subseteq A
    BY <1>4, <1>5, Sizes, Counting, Zenon
  <2>. QED
    BY <2>1, Sizes
<1>7. N \in 0 .. N
  BY Sizes
<1>8. PICK f \in X : f = g[N]
  BY <1>7
<1>9. \A j \in 0 .. N : j # 0 => f[j] = Decode(bk, f, j)
  BY <1>6, <1>8 DEF A
\* The first queue, which no turn writes.
<1>. DEFINE Z == {k \in 0 .. N : g[k][0] = <<>>}
<1>10. 0 \in Z
  BY <1>3, Sizes DEF Follows, x0
<1>11. ASSUME NEW k \in 1 .. N, k - 1 \in Z PROVE k \in Z
  <2>1. k - 1 \in 0 .. N /\ k \in 0 .. N /\ 0 \in 0 .. N
    BY Sizes
  <2>2. PICK h \in X : h = g[k - 1]
    BY <2>1
  <2>3. g[k] = [h EXCEPT ![k] = Decode(bk, h, k)]
    BY <2>2, <1>2, <1>3 DEF Follows
  <2>4. g[k][0] = h[0]
    BY <2>1, <2>3
  <2>. QED
    BY <2>1, <2>2, <2>4, <1>11
<1>. HIDE DEF Z
<1>12. N \in Z
  <2>1. 0 .. N \subseteq Z
    BY <1>10, <1>11, Sizes, Counting, Zenon
  <2>. QED
    BY <2>1, Sizes
<1>13. f[0] = Decode(bk, f, 0)
  BY <1>8, <1>12 DEF Z, Decode
<1>. QED
  BY <1>9, <1>13 DEF Decodes

\* The cells before the head are cells of the ring.
LEMMA BackIn ==
  ASSUME NEW head \in Cells, NEW m \in 0 .. N
  PROVE  (head - m) % N \in Cells /\ (head - m) % N = IF m <= head THEN head - m ELSE head - m + N
<1>1. head \in 0 .. N - 1 /\ N \in Nat
  BY Sizes DEF Cells, N
<1>2. PICK x \in Int : x = head - m
  BY <1>1
<1>3. CASE m <= head
  <2>1. x \in 0 .. N - 1
    BY <1>1, <1>2, <1>3
  <2>2. x % N = x
    BY <2>1, Unwrapped DEF N
  <2>. QED
    BY <1>2, <1>3, <2>1, <2>2 DEF Cells, N
<1>4. CASE ~(m <= head)
  <2>1. x \in -N .. -1
    BY <1>1, <1>2, <1>4
  <2>2. x % N = x + N
    BY <2>1, WrappedBack DEF N
  <2>3. x + N \in 0 .. N - 1 /\ x + N = head - m + N
    BY <1>1, <1>2, <2>1
  <2>. QED
    BY <1>2, <1>4, <2>2, <2>3 DEF Cells, N
<1>. QED
  BY <1>3, <1>4

\* The cells of the ring in a row.
LEMMA RowIs ==
  ASSUME NEW buf \in [Cells -> Nat], NEW head \in Cells
  PROVE  /\ Row(buf, head) \in Rows
         /\ \A m \in 0 .. N : Row(buf, head)[m] = Back(buf, head, m)
<1>1. ASSUME NEW m \in 0 .. N PROVE Back(buf, head, m) \in Nat
  <2>1. (head - m) % N \in Cells
    BY BackIn
  <2>. QED
    BY <2>1 DEF Back, N
<1>. QED
  BY <1>1 DEF Row, Rows

\* What the ring stands for is found by decoding its row.
LEMMA UnpackedIs ==
  ASSUME NEW buf \in [Cells -> Nat], NEW head \in Cells
  PROVE  \E f : /\ Decodes(Row(buf, head), f)
                /\ \A len \in 0 .. N : Unpacked(buf, head, len) = f[len]
<1>1. PICK bk \in Rows : bk = Row(buf, head)
  BY RowIs
<1>2. \A m \in 0 .. N : Back(buf, head, m) = bk[m]
  BY <1>1, RowIs
<1>. DEFINE Turn(f) == [n \in 0 .. SOCKET_BUFFER_SIZE |->
              IF n = 0 THEN <<>>
              ELSE IF n < HeaderSize \/ n < HeaderSize + Back(buf, head, n - 1) THEN <<"torn">>
              ELSE <<DatagramAt(buf, head, n)>> \o f[n - HeaderSize - Back(buf, head, n - 1)]]
<1>3. ASSUME NEW f, NEW n \in 0 .. N PROVE Turn(f)[n] = Decode(bk, f, n)
  <2>1. CASE n = 0
    BY <2>1 DEF Decode, N
  <2>2. CASE n # 0
    <3>1. Back(buf, head, n - 1) = bk[n - 1] /\ Back(buf, head, n) = bk[n] /\ bk[n - 1] \in Nat
      <4>1. n - 1 \in 0 .. N
        BY <2>2, Sizes
      <4>. QED
        BY <4>1, <1>2 DEF Rows
    <3>2. Turn(f)[n] = IF n < 2 \/ n < 2 + bk[n - 1] THEN <<"torn">>
                       ELSE <<DatagramAt(buf, head, n)>> \o f[n - 2 - bk[n - 1]]
      BY <2>2, <3>1 DEF N
    <3>3. Fitting(bk, n) <=> ~(n < 2 \/ n < 2 + bk[n - 1])
      BY <3>1 DEF Fitting
    <3>4. ASSUME Fitting(bk, n) PROVE DatagramAt(buf, head, n) = FirstOf(bk, n)
      <4>1. ASSUME NEW i \in 1 .. bk[n - 1]
            PROVE  Back(buf, head, n - HeaderSize - i + 1) = bk[n - 2 - i + 1]
        <5>1. n - 2 - i + 1 \in 0 .. N
          BY <3>1, <3>3, <3>4, Sizes
        <5>. QED
          BY <5>1, <1>2
      <4>2. [i \in 1 .. bk[n - 1] |-> Back(buf, head, n - HeaderSize - i + 1)] = DataOf(bk, n)
        BY <4>1 DEF DataOf
      <4>. QED
        BY <4>2, <3>1 DEF DatagramAt, FirstOf
    <3>. QED
      BY <2>2, <3>2, <3>3, <3>4 DEF Decode, Torn, Rest
  <2>. QED
    BY <2>1, <2>2
<1>4. PICK f : Decodes(bk, f)
  BY DecodingExists
<1>5. f = Turn(f)
  <2>1. f \in [0 .. N -> Queues] /\ \A n \in 0 .. N : f[n] = Decode(bk, f, n)
    BY <1>4 DEF Decodes
  <2>2. \A n \in 0 .. N : f[n] = Turn(f)[n]
    BY <2>1, <1>3
  <2>3. DOMAIN Turn(f) = 0 .. N /\ Turn(f) = [n \in 0 .. N |-> Turn(f)[n]]
    BY DEF N
  <2>4. f = [n \in 0 .. N |-> f[n]]
    BY <2>1
  <2>. HIDE DEF Turn
  <2>. QED
    BY <2>2, <2>3, <2>4
<1>6. PICK h : h = Turn(h) /\ \A len \in 0 .. N : Unpacked(buf, head, len) = h[len]
  <2>. DEFINE c == CHOOSE g : g = Turn(g)
  <2>1. c = Turn(c)
    BY <1>5
  <2>2. ASSUME NEW len \in 0 .. N PROVE Unpacked(buf, head, len) = c[len]
    BY DEF Unpacked
  <2>. QED
    BY <2>1, <2>2
<1>7. \A n \in 0 .. N : h[n] = Decode(bk, h, n)
  <2>1. ASSUME NEW n \in 0 .. N PROVE h[n] = Turn(h)[n]
    BY <1>6
  <2>. HIDE DEF Turn
  <2>. QED
    BY <2>1, <1>3
<1>. HIDE DEF Turn
\* There is one way to decode.
<1>8. ASSUME NEW n \in 0 .. N, h[n] # f[n] PROVE FALSE
  <2>. DEFINE W == {k \in 0 .. N : h[k] # f[k]}
  <2>1. W \subseteq Nat /\ W # {}
    BY <1>8, Sizes
  <2>2. PICK m \in W : \A y \in W : m <= y
    <3>. HIDE DEF W
    <3>. QED
      BY <2>1, Least
  <2>3. m \in 0 .. N /\ \A j \in 0 .. m - 1 : h[j] = f[j]
    BY <2>2, Sizes
  <2>4. Decode(bk, h, m) = Decode(bk, f, m)
    <3>1. CASE m = 0 \/ ~Fitting(bk, m)
      BY <3>1 DEF Decode
    <3>2. CASE m # 0 /\ Fitting(bk, m)
      <4>1. m \in 1 .. N
        BY <3>2, <2>3
      <4>2. Rest(bk, m) \in 0 .. m - 2 /\ Rest(bk, m) \in 0 .. m - 1
        BY <3>2, <4>1, RestIn
      <4>. QED
        BY <4>2, <2>3 DEF Decode
    <3>. QED
      BY <3>1, <3>2
  <2>5. f[m] = Decode(bk, f, m)
    BY <2>3, <1>4 DEF Decodes
  <2>. QED
    BY <2>2, <2>3, <2>4, <2>5, <1>7
<1>. QED
  BY <1>1, <1>4, <1>6, <1>8

\* A row of whole packets: E are the places, counted from the head, where one begins
\* or the last one ends.
Whole(bk, E) ==
  /\ E \subseteq 0 .. N
  /\ \A e \in E : e # 0 => Fitting(bk, e) /\ Rest(bk, e) \in E

\* Where every packet is whole, what holds at the end and before each packet that is
\* followed by such a place holds at every place.
LEMMA PacketInduction ==
  ASSUME NEW bk \in Rows, NEW E, Whole(bk, E), NEW A, 0 \in E => 0 \in A,
         \A e \in E : e # 0 /\ Rest(bk, e) \in A => e \in A
  PROVE  E \subseteq A
<1>. SUFFICES ASSUME ~(E \subseteq A) PROVE FALSE
  OBVIOUS
<1>. DEFINE W == E \ A
<1>w. W # {}
  OBVIOUS
<1>e. ASSUME NEW e \in E PROVE e \in Nat
  <2>1. e \in 0 .. N
    BY DEF Whole
  <2>. QED
    BY <2>1, Sizes
<1>1. W \subseteq Nat /\ W # {}
  BY <1>w, <1>e
<1>2. PICK m \in W : \A y \in W : m <= y
  <2>. HIDE DEF W
  <2>. QED
    BY <1>1, Least
<1>3. m \in E /\ m \notin A /\ m # 0 /\ m \in 1 .. N
  <2>1. m \in E /\ m \notin A /\ m # 0
    BY <1>2
  <2>2. m \in 0 .. N
    BY <2>1 DEF Whole
  <2>. QED
    BY <2>1, <2>2, Sizes
<1>4. Fitting(bk, m) /\ Rest(bk, m) \in E
  BY <1>3 DEF Whole
<1>5. Rest(bk, m) < m /\ Rest(bk, m) \in Nat
  BY <1>3, <1>4, RestIn
<1>6. Rest(bk, m) \in A
  BY <1>1, <1>2, <1>3, <1>4, <1>5
<1>. QED
  BY <1>3, <1>6

\* The room that datagrams take, counted one by one.
Counts(q, t) ==
  /\ t \in [0 .. Len(q) -> Nat] /\ t[0] = 0
  /\ \A k \in 1 .. Len(q) : t[k] = t[k - 1] + 2 + Len(q[k].data)

\* The room the queue takes is found by counting its datagrams.
LEMMA UsedIs ==
  ASSUME NEW q \in Seq(Datagram)
  PROVE  \E t : Counts(q, t) /\ Queue!Used(q) = t[Len(q)]
<1>. DEFINE n == Len(q)
            Turn(f) == [k \in 0 .. n |-> IF k = 0 THEN 0 ELSE f[k - 1] + Queue!Cost(q[k])]
            F == [xk \in Nat \X (1 .. n) |-> xk[1] + Queue!Cost(q[xk[2]])]
<1>1. /\ n \in Nat
      /\ \A k \in 1 .. n : /\ Queue!Cost(q[k]) = 2 + Len(q[k].data)
                           /\ Queue!Cost(q[k]) \in Nat /\ Len(q[k].data) \in Nat
  <2>1. ASSUME NEW k \in 1 .. n
        PROVE  /\ Queue!Cost(q[k]) = 2 + Len(q[k].data) /\ Queue!Cost(q[k]) \in Nat
               /\ Len(q[k].data) \in Nat
    <3>1. q[k] \in Datagram
      OBVIOUS
    <3>2. q[k].data \in Seq(Nat)
      BY <3>1 DEF Datagram
    <3>3. Len(q[k].data) \in Nat
      BY <3>2
    <3>. QED
      BY <3>3 DEF Queue!Cost
  <2>. QED
    BY <2>1
<1>. HIDE DEF n
<1>2. ASSUME NEW x \in Nat, NEW k \in 1 .. n
      PROVE  F[<<x, k>>] = x + Queue!Cost(q[k]) /\ F[<<x, k>>] \in Nat
  BY <1>1
<1>. HIDE DEF F
<1>3. PICK g \in [0 .. n -> Nat] : Follows(g, F, 0, n)
  <2>1. Closed(F, Nat, n)
    BY <1>2 DEF Closed
  <2>2. 0 \in Nat
    OBVIOUS
  <2>. QED
    BY <1>1, <2>1, <2>2, Course, Zenon
<1>4. g = Turn(g)
  <2>1. ASSUME NEW k \in 0 .. n PROVE g[k] = Turn(g)[k]
    <3>1. CASE k = 0
      BY <3>1, <1>3 DEF Follows
    <3>2. CASE k # 0
      <4>1. k \in 1 .. n /\ g[k - 1] \in Nat
        BY <3>2, <1>1, <1>3
      <4>. QED
        BY <4>1, <3>2, <1>2, <1>3 DEF Follows
    <3>. QED
      BY <3>1, <3>2
  <2>. QED
    BY <2>1, <1>3
<1>5. PICK f : f = Turn(f) /\ Queue!Used(q) = f[n]
  <2>. DEFINE c == CHOOSE f : f = Turn(f)
  <2>1. c = Turn(c)
    BY <1>4
  <2>2. Queue!Used(q) = c[n]
    BY DEF Queue!Used, n
  <2>. QED
    BY <2>1, <2>2
<1>. DEFINE A == {k \in 0 .. n : f[k] \in Nat}
<1>6. 0 \in A
  BY <1>1, <1>5
<1>7. ASSUME NEW k \in 1 .. n, k - 1 \in A PROVE k \in A
  <2>1. k \in 0 .. n /\ k # 0
    BY <1>1
  <2>2. f[k] = f[k - 1] + Queue!Cost(q[k])
    BY <2>1, <1>5
  <2>3. PICK x \in Nat : x = f[k - 1]
    BY <1>7
  <2>4. PICK y \in Nat : y = Queue!Cost(q[k])
    BY <1>1
  <2>5. f[k] \in Nat
    BY <2>2, <2>3, <2>4
  <2>. QED
    BY <2>1, <2>5
<1>. HIDE DEF A
<1>8. 0 .. n \subseteq A
  BY <1>1, <1>6, <1>7, Counting, Zenon
<1>9. f \in [0 .. n -> Nat]
  <2>1. \A k \in 0 .. n : f[k] \in Nat
    BY <1>8 DEF A
  <2>2. f = [k \in 0 .. n |-> f[k]]
    BY <1>5
  <2>. QED
    BY <2>1, <2>2
<1>10. f[0] = 0
  BY <1>1, <1>5
<1>11. ASSUME NEW k \in 1 .. n PROVE f[k] = f[k - 1] + 2 + Len(q[k].data)
  <2>1. k \in 0 .. n /\ k # 0 /\ k - 1 \in 0 .. n
    BY <1>1
  <2>2. f[k] = f[k - 1] + Queue!Cost(q[k])
    BY <2>1, <1>5
  <2>3. PICK x \in Nat : x = f[k - 1]
    BY <2>1, <1>9
  <2>4. PICK y \in Nat : y = Len(q[k].data) /\ Queue!Cost(q[k]) = 2 + y
    BY <1>1
  <2>5. f[k] = x + (2 + y)
    BY <2>2, <2>3, <2>4
  <2>6. x + (2 + y) = x + 2 + y
    OBVIOUS
  <2>. QED
    BY <2>3, <2>4, <2>5, <2>6
<1>. QED
  BY <1>5, <1>9, <1>10, <1>11 DEF Counts, n

\* One datagram more takes its cells more.
LEMMA UsedMore ==
  ASSUME NEW d \in Datagram, NEW q \in Seq(Datagram)
  PROVE  /\ <<d>> \o q \in Seq(Datagram)
         /\ Queue!Used(<<d>> \o q) = 2 + Len(d.data) + Queue!Used(q)
         /\ Queue!Used(q) \in Nat
<1>1. PICK r : r = <<d>> \o q
  OBVIOUS
<1>2. PICK n \in Nat : n = Len(q)
  OBVIOUS
<1>3. /\ r \in Seq(Datagram) /\ Len(r) = n + 1 /\ r[1] = d
      /\ \A k \in 1 .. n : r[k + 1] = q[k]
  <2>1. <<d>> \in Seq(Datagram) /\ Len(<<d>>) = 1 /\ <<d>>[1] = d
    OBVIOUS
  <2>2. PICK w \in Seq(Datagram) : w = <<d>>
    BY <2>1
  <2>3. /\ w \o q \in Seq(Datagram) /\ Len(w \o q) = Len(w) + Len(q)
        /\ \A i \in 1 .. Len(w) + Len(q) : (w \o q)[i] =
             IF i <= Len(w) THEN w[i] ELSE q[i - Len(w)]
    BY ConcatProperties
  <2>4. Len(w) = 1 /\ w[1] = d /\ r = w \o q
    BY <2>1, <2>2, <1>1
  <2>5. r[1] = d
    BY <2>3, <2>4, <1>2
  <2>6. ASSUME NEW k \in 1 .. n PROVE r[k + 1] = q[k]
    <3>1. k + 1 \in 1 .. Len(w) + Len(q) /\ ~(k + 1 <= Len(w)) /\ (k + 1) - Len(w) = k
      BY <2>4, <1>2
    <3>. QED
      BY <2>3, <2>4, <3>1
  <2>. QED
    BY <2>3, <2>4, <2>5, <2>6, <1>2
<1>4. PICK t : Counts(q, t) /\ Queue!Used(q) = t[n]
  BY <1>2, UsedIs
<1>5. PICK u : Counts(r, u) /\ Queue!Used(r) = u[n + 1]
  BY <1>3, UsedIs
<1>6. /\ t \in [0 .. n -> Nat] /\ t[0] = 0
      /\ \A k \in 1 .. n : t[k] = t[k - 1] + 2 + Len(q[k].data)
  BY <1>2, <1>4 DEF Counts
<1>7. /\ u \in [0 .. n + 1 -> Nat] /\ u[0] = 0
      /\ \A k \in 1 .. n + 1 : u[k] = u[k - 1] + 2 + Len(r[k].data)
  BY <1>3, <1>5 DEF Counts
<1>8. PICK c \in Nat : c = Len(d.data)
  <2>1. d.data \in Seq(Nat)
    BY DEF Datagram
  <2>. QED
    BY <2>1
<1>. DEFINE A == {k \in 0 .. n : u[k + 1] = 2 + c + t[k]}
<1>9. 0 \in A
  <2>1. u[1] = u[0] + 2 + Len(r[1].data)
    BY <1>7
  <2>. QED
    BY <2>1, <1>3, <1>6, <1>7, <1>8
<1>10. ASSUME NEW k \in 1 .. n, k - 1 \in A PROVE k \in A
  <2>1. PICK j \in 1 .. n + 1 : j = k + 1 /\ j - 1 = k
    OBVIOUS
  <2>2. u[j] = u[k] + 2 + Len(r[j].data)
    BY <2>1, <1>7
  <2>3. r[j] = q[k]
    BY <2>1, <1>3
  <2>4. u[k] = 2 + c + t[k - 1]
    <3>1. (k - 1) + 1 = k
      OBVIOUS
    <3>. QED
      BY <3>1, <1>10
  <2>5. t[k] = t[k - 1] + 2 + Len(q[k].data)
    BY <1>6
  <2>6. t[k - 1] \in Nat /\ Len(q[k].data) \in Nat /\ k \in 0 .. n
    <3>1. k - 1 \in 0 .. n
      OBVIOUS
    <3>2. q[k] \in Datagram
      BY <1>2
    <3>3. q[k].data \in Seq(Nat)
      BY <3>2 DEF Datagram
    <3>4. Len(q[k].data) \in Nat
      BY <3>3
    <3>. QED
      BY <3>1, <3>4, <1>6
  <2>7. u[j] = 2 + c + t[k]
    <3>1. PICK x \in Nat : x = t[k - 1]
      BY <2>6
    <3>2. PICK y \in Nat : y = Len(q[k].data)
      BY <2>6
    <3>3. u[j] = (2 + c + x) + 2 + y /\ t[k] = x + 2 + y
      BY <2>2, <2>3, <2>4, <2>5, <3>1, <3>2
    <3>4. (2 + c + x) + 2 + y = 2 + c + (x + 2 + y)
      OBVIOUS
    <3>. QED
      BY <3>3, <3>4
  <2>. QED
    BY <2>1, <2>6, <2>7
<1>. HIDE DEF A
<1>11. n \in A
  <2>1. 0 .. n \subseteq A
    BY <1>9, <1>10, Counting, Zenon
  <2>. QED
    BY <2>1
<1>12. t[n] \in Nat
  BY <1>6
<1>. QED
  BY <1>1, <1>3, <1>4, <1>5, <1>8, <1>11, <1>12 DEF A

\* No datagram takes no room.
LEMMA UsedNone == Queue!Used(<<>>) = 0 /\ <<>> \in Seq(Datagram)
<1>1. <<>> \in Seq(Datagram) /\ Len(<<>>) = 0
  OBVIOUS
<1>2. PICK t : Counts(<<>>, t) /\ Queue!Used(<<>>) = t[Len(<<>>)]
  BY <1>1, UsedIs
<1>. QED
  BY <1>1, <1>2 DEF Counts

\* From a place in a row of whole packets one decodes datagrams that take as many cells
\* as there are.
LEMMA WholeDecoded ==
  ASSUME NEW bk \in Rows, NEW E, Whole(bk, E), NEW f, Decodes(bk, f), NEW e \in E
  PROVE  f[e] \in Seq(Datagram) /\ Queue!Used(f[e]) = e
<1>. DEFINE A == {k \in 0 .. N : f[k] \in Seq(Datagram) /\ Queue!Used(f[k]) = k}
<1>1. 0 \in A
  <2>1. 0 \in 0 .. N
    BY Sizes
  <2>2. f[0] = <<>>
    BY <2>1 DEF Decodes, Decode
  <2>. QED
    BY <2>1, <2>2, UsedNone
<1>2. ASSUME NEW k \in E, k # 0, Rest(bk, k) \in A PROVE k \in A
  <2>1. k \in 1 .. N /\ k \in 0 .. N /\ Fitting(bk, k)
    BY <1>2 DEF Whole
  <2>2. f[k] = <<FirstOf(bk, k)>> \o f[Rest(bk, k)]
    BY <2>1, <1>2 DEF Decodes, Decode
  <2>3. PICK d \in Datagram : d = FirstOf(bk, k) /\ Len(d.data) = bk[k - 1]
    BY <2>1, FirstIs
  <2>4. PICK q \in Seq(Datagram) : q = f[Rest(bk, k)] /\ Queue!Used(q) = Rest(bk, k)
    BY <1>2
  <2>5. <<d>> \o q \in Seq(Datagram) /\ Queue!Used(<<d>> \o q) = 2 + Len(d.data) + Queue!Used(q)
    BY UsedMore
  <2>6. k = 2 + bk[k - 1] + Rest(bk, k)
    BY <2>1, RestIn
  <2>. QED
    BY <2>1, <2>2, <2>3, <2>4, <2>5, <2>6
<1>. HIDE DEF A
<1>3. E \subseteq A
  BY <1>1, <1>2, PacketInduction, Zenon
<1>. QED
  BY <1>3 DEF A

\* The cells of the ring as its row has them, len cells after start.
LEMMA RowCell ==
  ASSUME NEW buf \in [Cells -> Nat], NEW start \in Cells, NEW len \in 0 .. N, NEW m \in 1 .. len
  PROVE  Row(buf, Forward(start, len))[m] = buf[Forward(start, len - m)]
<1>1. start \in 0 .. N - 1 /\ N \in Nat /\ m \in 0 .. N /\ len - m \in 0 .. N
  BY Sizes DEF Cells, N
<1>2. PICK h \in Cells : /\ h = Forward(start, len)
                         /\ h = IF start + len < N THEN start + len ELSE start + len - N
  BY ForwardIn DEF N
<1>3. PICK c \in Cells : /\ c = Forward(start, len - m)
                         /\ c = IF start + (len - m) < N THEN start + (len - m)
                                                         ELSE start + (len - m) - N
  BY <1>1, ForwardIn DEF N
<1>4. (h - m) % N = IF m <= h THEN h - m ELSE h - m + N
  BY <1>1, BackIn
<1>5. (h - m) % N = c
  <2>1. PICK x : x = (h - m) % N /\ x = IF m <= h THEN h - m ELSE h - m + N
    BY <1>4
  <2>2. PICK a \in Int, b \in Int : a = start + len /\ b = start + (len - m) /\ b = a - m
    BY <1>1
  <2>3. h = IF a < N THEN a ELSE a - N
    BY <1>1, <1>2, <2>2
  <2>4. c = IF b < N THEN b ELSE b - N
    BY <1>1, <1>3, <2>2
  <2>5. a \in 0 .. N + N - 1 /\ b \in 0 .. N + N - 1
    BY <1>1, <2>2
  <2>6. x = c
    BY <1>1, <2>1, <2>2, <2>3, <2>4, <2>5
  <2>. QED
    BY <2>1, <2>6
<1>6. Row(buf, h)[m] = Back(buf, h, m)
  BY <1>1, RowIs
<1>. QED
  BY <1>2, <1>3, <1>5, <1>6 DEF Back, N

\* A ring of whole packets makes a row of them.
LEMMA LaidWhole ==
  ASSUME TypeOK, NEW start \in Cells, NEW B, Laid(start, B)
  PROVE  \E E : /\ Whole(Row(buffer, buffer_head), E)
                /\ E \subseteq 0 .. buffer_len /\ buffer_len \in E
<1>1. /\ buffer \in [Cells -> Nat] /\ buffer_head = Forward(start, buffer_len)
      /\ buffer_head \in Cells /\ buffer_len \in 0 .. N /\ buffer_len \in Nat
      /\ B \subseteq 0 .. buffer_len /\ 0 \in B
  BY DEF TypeOK, Laid, N
<1>2. PICK bk \in Rows : bk = Row(buffer, buffer_head)
  BY <1>1, RowIs
<1>3. ASSUME NEW m \in 1 .. buffer_len PROVE bk[m] = Cell(start, buffer_len - m)
  BY <1>1, <1>2, RowCell DEF Cell
<1>. DEFINE E == {m \in 0 .. buffer_len : buffer_len - m \in B}
<1>4. buffer_len \in E
  <2>1. buffer_len - buffer_len = 0 /\ buffer_len \in 0 .. buffer_len
    BY <1>1
  <2>. QED
    BY <1>1, <2>1
<1>5. E \subseteq 0 .. N
  BY <1>1, Sizes
<1>6. ASSUME NEW e \in E, e # 0 PROVE Fitting(bk, e) /\ Rest(bk, e) \in E
  <2>1. PICK b \in B : b = buffer_len - e /\ e = buffer_len - b /\ b < buffer_len /\ b \in Nat
    BY <1>1, <1>6
  <2>2. PICK d \in Packets : b + Len(Encoded(d)) \in B /\ Holds(start, b, d)
    BY <2>1 DEF Laid
  <2>3. PICK c \in Nat : c = Len(d.data) /\ Len(Encoded(d)) = 2 + c /\ Encoded(d)[2] = c
    BY EncodedCells
  <2>4. b + (2 + c) \in B /\ b + (2 + c) <= buffer_len
    <3>1. b + (2 + c) \in B
      BY <2>2, <2>3
    <3>2. b + (2 + c) \in 0 .. buffer_len
      BY <3>1, <1>1
    <3>. QED
      BY <3>1, <3>2
  <2>5. bk[e - 1] = c
    <3>1. e - 1 \in 1 .. buffer_len /\ buffer_len - (e - 1) = b + 1
      BY <1>1, <2>1, <2>3, <2>4
    <3>2. 1 \in 0 .. Len(Encoded(d)) - 1 /\ 1 + 1 = 2
      BY <2>3
    <3>3. Cell(start, b + 1) = Encoded(d)[1 + 1]
      BY <2>2, <3>2 DEF Holds
    <3>4. bk[e - 1] = Cell(start, buffer_len - (e - 1))
      BY <1>3, <3>1
    <3>. QED
      BY <2>3, <3>1, <3>2, <3>3, <3>4
  <2>6. e >= 2 /\ e >= 2 + c /\ e - 2 - c \in 0 .. buffer_len
        /\ buffer_len - (e - 2 - c) = b + (2 + c)
    BY <1>1, <2>1, <2>3, <2>4
  <2>. QED
    BY <2>4, <2>5, <2>6 DEF Fitting, Rest
<1>7. Whole(bk, E)
  BY <1>5, <1>6 DEF Whole
<1>. HIDE DEF E
<1>8. E \subseteq 0 .. buffer_len
  BY DEF E
<1>. QED
  BY <1>2, <1>4, <1>7, <1>8

\* A datagram put before a queue's front and one behind its back.
LEMMA BothEnds ==
  ASSUME NEW S, NEW a \in S, NEW d \in S, NEW q \in Seq(S)
  PROVE  <<a>> \o Append(q, d) = Append(<<a>> \o q, d)
OBVIOUS

\* The row bk2 is the row bk, L cells further from the head.
Moved(bk, bk2, len, L) == \A m \in 1 .. len : bk2[m + L] = bk[m]

\* The L cells before the head decode to one datagram.
One(f, L, d) == f[L] = <<d>>

\* The packets at E in the row bk lie before one more datagram in the row bk2.
Extended(bk, f, bk2, f2, len, L, E, d) ==
  /\ Decodes(bk, f) /\ Decodes(bk2, f2)
  /\ len + L <= N /\ Whole(bk, E) /\ E \subseteq 0 .. len
  /\ Moved(bk, bk2, len, L) /\ One(f2, L, d)

\* The datagrams decoded from each place in E, and one more behind them.
Longer(f, f2, L, E, d) == \A e \in E : f2[e + L] = Append(f[e], d)

\* What was decoded from a row of whole packets is still decoded from it when the row lies
\* before one more datagram.
LEMMA Appended ==
  ASSUME NEW bk \in Rows, NEW bk2 \in Rows, NEW f, NEW f2, NEW len \in Nat, NEW L \in Nat,
         NEW E, NEW d \in Datagram, Extended(bk, f, bk2, f2, len, L, E, d)
  PROVE  Longer(f, f2, L, E, d)
<1>x. /\ Decodes(bk, f) /\ Decodes(bk2, f2)
      /\ len + L <= N /\ Whole(bk, E) /\ E \subseteq 0 .. len
      /\ Moved(bk, bk2, len, L) /\ One(f2, L, d)
  BY DEF Extended
<1>. DEFINE A == {e \in 0 .. N : f2[e + L] = Append(f[e], d)}
<1>1. 0 \in A
  <2>1. 0 \in 0 .. N /\ 0 + L = L
    BY Sizes
  <2>2. f[0] = <<>>
    BY <1>x, <2>1 DEF Decodes, Decode
  <2>3. <<d>> = Append(<<>>, d)
    OBVIOUS
  <2>. QED
    BY <1>x, <2>1, <2>2, <2>3 DEF One
<1>2. ASSUME NEW e \in E, e # 0, Rest(bk, e) \in A PROVE e \in A
  <2>1. e \in 1 .. N /\ e \in 0 .. N /\ e \in 1 .. len /\ Fitting(bk, e) /\ Rest(bk, e) \in E
    <3>1. e \in 0 .. len
      BY <1>x
    <3>2. Fitting(bk, e) /\ Rest(bk, e) \in E
      BY <1>x, <1>2 DEF Whole
    <3>3. e \in 1 .. N /\ e \in 0 .. N /\ e \in 1 .. len
      BY <1>x, <1>2, <3>1, Sizes
    <3>. QED
      BY <3>2, <3>3
  <2>2. PICK c \in Nat : c = bk[e - 1] /\ e >= 2 + c /\ Rest(bk, e) = e - 2 - c
    BY <2>1, RestIn DEF Fitting, Rest
  <2>3. PICK g \in 1 .. N : g = e + L /\ g \in 0 .. N
    BY <1>x, <2>1, Sizes
  <2>4. bk2[g - 1] = c /\ bk2[g] = bk[e]
    <3>1. e - 1 \in 1 .. len /\ (e - 1) + L = g - 1
      BY <1>x, <2>1, <2>2, <2>3, Sizes
    <3>2. bk2[(e - 1) + L] = bk[e - 1] /\ bk2[e + L] = bk[e]
      BY <1>x, <2>1, <3>1 DEF Moved
    <3>. QED
      BY <2>2, <2>3, <3>1, <3>2
  <2>5. Fitting(bk2, g) /\ Rest(bk2, g) = Rest(bk, e) + L
    BY <2>1, <2>2, <2>3, <2>4 DEF Fitting, Rest
  <2>6. DataOf(bk2, g) = DataOf(bk, e)
    <3>1. ASSUME NEW i \in 1 .. c PROVE bk2[g - 2 - i + 1] = bk[e - 2 - i + 1]
      <4>1. PICK m \in 1 .. len : m = e - 2 - i + 1 /\ m + L = g - 2 - i + 1
        BY <2>1, <2>2, <2>3
      <4>2. bk2[m + L] = bk[m]
        BY <1>x DEF Moved
      <4>. QED
        BY <4>1, <4>2
    <3>. QED
      BY <2>2, <2>4, <3>1 DEF DataOf
  <2>7. FirstOf(bk2, g) = FirstOf(bk, e)
    BY <2>4, <2>6 DEF FirstOf
  <2>8. PICK a \in Datagram : a = FirstOf(bk, e)
    BY <2>1, FirstIs
  <2>9. PICK q \in Seq(Datagram) : q = f[Rest(bk, e)]
    BY <1>x, <2>1, WholeDecoded
  <2>10. f[e] = <<a>> \o q
    BY <1>x, <2>1, <1>2, <2>8, <2>9 DEF Decodes, Decode
  <2>11. f2[Rest(bk, e) + L] = Append(q, d)
    BY <1>2, <2>9
  <2>12. f2[g] = <<a>> \o Append(q, d)
    <3>1. g # 0
      BY <2>3
    <3>. QED
      BY <1>x, <2>3, <2>5, <2>7, <2>8, <2>11, <3>1 DEF Decodes, Decode
  <2>13. <<a>> \o Append(q, d) = Append(<<a>> \o q, d)
    BY BothEnds
  <2>. QED
    BY <2>1, <2>3, <2>10, <2>12, <2>13
<1>. HIDE DEF A
<1>3. E \subseteq A
  BY <1>x, <1>1, <1>2, PacketInduction, Zenon
<1>. QED
  BY <1>3 DEF A, Longer

-----------------------------------------------------------------------------
(* Every step of the ring is a step of the queue, or none.                   *)

\* What the ring stands for depends on the ring only.
LEMMA DecodedKept ==
  ASSUME UNCHANGED <<buffer, buffer_head, buffer_len, length, result>>
  PROVE  UNCHANGED <<Decoded, length, result>>
BY DEF Decoded, Unpacked, DatagramAt, Back

\* The ring at socket_create is the empty queue.
LEMMA StartsEmpty == Init => Queue!Init
<1>. SUFFICES ASSUME Init PROVE Queue!Init
  OBVIOUS
<1>1. TypeOK
  BY InitInv DEF IInv
<1>2. PICK f : /\ Decodes(Row(buffer, buffer_head), f)
               /\ \A len \in 0 .. N : Unpacked(buffer, buffer_head, len) = f[len]
  BY <1>1, UnpackedIs DEF TypeOK
<1>3. 0 \in 0 .. N
  BY Sizes
<1>4. f[0] = <<>>
  BY <1>2, <1>3 DEF Decodes, Decode
<1>5. Unpacked(buffer, buffer_head, 0) = <<>>
  BY <1>2, <1>3, <1>4
<1>6. buffer_len = 0 /\ length = 0 /\ result = <<>>
  BY DEF Init
<1>. QED
  BY <1>5, <1>6 DEF Queue!Init, Decoded

\* The last step of recvfrom takes the first datagram from the queue.
LEMMA FinishReceives == IInv /\ finish => Queue!Receive
<1>. SUFFICES ASSUME IInv, finish PROVE Queue!Receive
  OBVIOUS
<1>t. TypeOK /\ Progress
  BY DEF IInv
<1>1. PICK start \in Cells, B \in SUBSET (0 .. SOCKET_BUFFER_SIZE) : Laid(start, B)
  BY DEF IInv, WholePackets
<1>2. /\ pc = "data" /\ Len(copied) = packet[2] /\ Len(packet) = 2 /\ buffer_len > 0
      /\ buffer_len' = buffer_len - (2 + packet[2])
      /\ result' = <<packet[1], SubSeq(copied, 1, to_read)>>
      /\ UNCHANGED <<buffer, buffer_head, length>>
  BY <1>t DEF finish, Reader, GivenBack, data_len, Progress
<1>3. /\ buffer \in [Cells -> Nat] /\ buffer_head \in Cells /\ buffer_len \in 0 .. N
      /\ copied \in Seq(Nat) /\ packet \in Seq(Nat) /\ length \in Nat
  BY <1>t DEF TypeOK, N
<1>4. PICK bk \in Rows : bk = Row(buffer, buffer_head)
  BY <1>3, RowIs
<1>5. PICK E : Whole(bk, E) /\ buffer_len \in E
  BY <1>t, <1>1, <1>4, LaidWhole
<1>6. PICK n \in 1 .. N : n = buffer_len
  BY <1>2, <1>3
<1>7. Fitting(bk, n)
  BY <1>5, <1>6 DEF Whole
<1>8. ASSUME NEW m \in 1 .. n PROVE bk[m] = Cell(start, n - m)
  <2>1. n \in 0 .. N
    BY Sizes
  <2>2. buffer_head = Forward(start, n)
    BY <1>1, <1>6 DEF Laid
  <2>. QED
    BY <1>3, <1>4, <2>1, <2>2, RowCell DEF Cell
<1>9. PICK c \in Nat : c = bk[n - 1] /\ n >= 2 + c /\ n >= 2
  BY <1>7, RestIn DEF Fitting
<1>10. bk[n] = packet[1] /\ c = packet[2]
  <2>1. n \in 1 .. n /\ n - 1 \in 1 .. n /\ n - n = 0 /\ n - (n - 1) = 1
    BY <1>9
  <2>2. bk[n] = Cell(start, 0) /\ bk[n - 1] = Cell(start, 1)
    BY <1>8, <2>1
  <2>3. 1 \in 1 .. Len(packet) /\ 2 \in 1 .. Len(packet) /\ 1 - 1 = 0 /\ 2 - 1 = 1
    BY <1>2
  <2>4. packet[1] = Cell(start, 0) /\ packet[2] = Cell(start, 1)
    BY <1>1, <2>3 DEF Laid
  <2>. QED
    BY <1>9, <2>2, <2>4
<1>11. DataOf(bk, n) = copied
  <2>1. /\ DataOf(bk, n) \in Seq(Nat) /\ Len(DataOf(bk, n)) = c
        /\ \A i \in 1 .. c : DataOf(bk, n)[i] = bk[n - 2 - i + 1]
    BY <1>7, <1>9, FirstIs
  <2>2. Len(copied) = c
    BY <1>2, <1>10
  <2>3. ASSUME NEW i \in 1 .. c PROVE DataOf(bk, n)[i] = copied[i]
    <3>1. PICK m \in 1 .. n : m = n - 2 - i + 1 /\ n - m = i + 1
      BY <1>9
    <3>2. bk[m] = Cell(start, n - m)
      BY <1>8
    <3>3. copied[i] = Cell(start, i + 1)
      BY <1>1, <2>2 DEF Laid
    <3>. QED
      BY <2>1, <3>1, <3>2, <3>3
  <2>. QED
    BY <1>3, <2>1, <2>2, <2>3, SeqEqual
<1>12. PICK f : /\ Decodes(bk, f)
                /\ \A len \in 0 .. N : Unpacked(buffer, buffer_head, len) = f[len]
  BY <1>3, <1>4, UnpackedIs
<1>13. PICK d \in Datagram : d = FirstOf(bk, n) /\ d.src = packet[1] /\ d.data = copied
  BY <1>7, <1>10, <1>11, FirstIs
<1>14. PICK q \in Seq(Datagram) : q = f[Rest(bk, n)]
  <2>1. Rest(bk, n) \in E
    BY <1>5, <1>6 DEF Whole
  <2>. QED
    BY <1>5, <1>12, <2>1, WholeDecoded
<1>15. Decoded = <<d>> \o q
  <2>1. n \in 0 .. N /\ n # 0
    BY Sizes
  <2>2. f[n] = <<d>> \o q
    BY <1>7, <1>12, <1>13, <1>14, <2>1 DEF Decodes, Decode
  <2>. QED
    BY <1>6, <1>12, <2>1, <2>2 DEF Decoded
<1>16. Decoded' = q
  <2>1. Rest(bk, n) \in 0 .. N
    BY <1>7, RestIn, Sizes
  <2>2. buffer_len' = Rest(bk, n)
    <3>1. buffer_len' = n - (2 + c) /\ Rest(bk, n) = n - 2 - c
      BY <1>2, <1>6, <1>9, <1>10 DEF Rest
    <3>. QED
      BY <1>9, <3>1
  <2>3. Unpacked(buffer, buffer_head, Rest(bk, n)) = q
    BY <1>12, <1>14, <2>1
  <2>4. Decoded' = Unpacked(buffer', buffer_head', buffer_len')
    BY DEF Decoded, Unpacked, DatagramAt, Back
  <2>. QED
    BY <1>2, <2>2, <2>3, <2>4
<1>17. <<d>> \o q # <<>> /\ Head(<<d>> \o q) = d /\ Tail(<<d>> \o q) = q
  OBVIOUS
<1>18. result' = <<d.src, Queue!Cut(d.data, length)>>
  <2>1. to_read = IF length < Len(copied) THEN length ELSE Len(copied)
    BY <1>2 DEF to_read, data_len
  <2>. QED
    BY <1>2, <1>13, <2>1 DEF Queue!Cut
<1>. QED
  BY <1>2, <1>15, <1>16, <1>17, <1>18 DEF Queue!Receive

\* What socket_dispatch_udp puts into the ring arrives at the end of the queue.
LEMMA DispatchArrives ==
  ASSUME IInv, NEW d \in Packets, socket_dispatch_udp(d)
  PROVE  Queue!Arrive(d)
<1>t. TypeOK /\ TypeOK'
  BY DispatchInv DEF IInv
<1>1. PICK start \in Cells, B \in SUBSET (0 .. SOCKET_BUFFER_SIZE) : Laid(start, B)
  BY DEF IInv, WholePackets
<1>2. PICK c \in Nat : c = Len(d.data) /\ Len(Encoded(d)) = 2 + c /\ Encoded(d)[1] = d.src
                       /\ Encoded(d)[2] = c /\ \A i \in 1 .. c : Encoded(d)[2 + i] = d.data[i]
  BY EncodedCells
<1>3. PICK L \in Nat : L = 2 + c /\ L = Len(Encoded(d))
  BY <1>2
<1>4. PICK len \in Nat : len = buffer_len /\ len \in 0 .. N /\ len + L <= N
  BY <1>t, <1>3 DEF socket_dispatch_udp, Fits, TypeOK, N
<1>5. /\ buffer \in [Cells -> Nat] /\ buffer_head \in Cells
      /\ buffer_head = Forward(start, len)
  BY <1>t, <1>1, <1>4 DEF TypeOK, Laid
<1>6. PICK buf \in [Cells -> Nat], head \in Cells :
        buf = buffer' /\ head = buffer_head' /\ head = Forward(start, len + L)
  <2>1. buffer_head' = Forward(buffer_head, L)
    BY <1>3 DEF socket_dispatch_udp
  <2>2. Forward(Forward(start, len), L) = Forward(start, len + L)
    BY <1>4, ForwardAdd DEF N
  <2>3. buffer' \in [Cells -> Nat] /\ buffer_head' \in Cells
    BY <1>t DEF TypeOK, Cells
  <2>. QED
    BY <1>5, <2>1, <2>2, <2>3
<1>7. /\ buffer_len' = len + L /\ length' = length /\ result' = result
  BY <1>3, <1>4 DEF socket_dispatch_udp
<1>8. ASSUME NEW k \in 0 .. len + L - 1
      PROVE  /\ k < len => buf[Forward(start, k)] = buffer[Forward(start, k)]
             /\ k >= len => buf[Forward(start, k)] = Encoded(d)[k - len + 1]
  <2>1. k \in 0 .. buffer_len + Len(Encoded(d)) - 1
    BY <1>3, <1>4
  <2>2. /\ k < buffer_len => Cell(start, k)' = Cell(start, k)
        /\ k >= buffer_len => Cell(start, k)' = Encoded(d)[k - buffer_len + 1]
    BY <1>t, <1>1, <2>1, DispatchCells
  <2>3. Cell(start, k)' = buf[Forward(start, k)]
    BY <1>6 DEF Cell
  <2>. QED
    BY <1>4, <2>2, <2>3 DEF Cell
<1>9. PICK bk \in Rows : bk = Row(buffer, buffer_head)
  BY <1>5, RowIs
<1>10. PICK bk2 \in Rows : bk2 = Row(buf, head)
  BY <1>6, RowIs
<1>11. ASSUME NEW m \in 1 .. len PROVE bk[m] = buffer[Forward(start, len - m)]
  BY <1>4, <1>5, <1>9, RowCell
<1>12. ASSUME NEW m \in 1 .. len + L PROVE bk2[m] = buf[Forward(start, (len + L) - m)]
  <2>1. len + L \in 0 .. N
    BY <1>4, Sizes
  <2>. QED
    BY <1>6, <1>10, <2>1, RowCell
<1>13. Moved(bk, bk2, len, L)
  <2>. SUFFICES ASSUME NEW m \in 1 .. len PROVE bk2[m + L] = bk[m]
    BY DEF Moved
  <2>1. m + L \in 1 .. len + L /\ (len + L) - (m + L) = len - m
    OBVIOUS
  <2>2. PICK k \in 0 .. len + L - 1 : k = len - m /\ k < len
    OBVIOUS
  <2>3. bk2[m + L] = buf[Forward(start, k)] /\ bk[m] = buffer[Forward(start, k)]
    BY <1>11, <1>12, <2>1, <2>2
  <2>. QED
    BY <1>8, <2>2, <2>3
<1>14. ASSUME NEW m \in 1 .. L PROVE bk2[m] = Encoded(d)[L - m + 1]
  <2>1. m \in 1 .. len + L
    OBVIOUS
  <2>2. PICK k \in 0 .. len + L - 1 : k = (len + L) - m /\ k >= len /\ k - len + 1 = L - m + 1
    OBVIOUS
  <2>. QED
    BY <1>8, <1>12, <2>1, <2>2
<1>15. PICK f : /\ Decodes(bk, f)
                /\ \A n \in 0 .. N : Unpacked(buffer, buffer_head, n) = f[n]
  <2>1. PICK b \in [Cells -> Nat], h \in Cells : b = buffer /\ h = buffer_head
    BY <1>5
  <2>2. PICK f : Decodes(Row(b, h), f) /\ \A n \in 0 .. N : Unpacked(b, h, n) = f[n]
    BY UnpackedIs
  <2>. QED
    BY <1>9, <2>1, <2>2
<1>16. PICK f2 : /\ Decodes(bk2, f2)
                 /\ \A n \in 0 .. N : Unpacked(buf, head, n) = f2[n]
  BY <1>6, <1>10, UnpackedIs
<1>17. d \in Datagram
  BY DEF Datagram
\* The cells that were written decode to the datagram.
<1>18. One(f2, L, d)
  <2>1. L \in 1 .. N /\ L \in 0 .. N /\ L # 0 /\ 0 \in 0 .. N
    BY <1>3, <1>4, Sizes
  <2>2. bk2[L] = d.src /\ bk2[L - 1] = c
    <3>1. L \in 1 .. L /\ L - 1 \in 1 .. L /\ L - L + 1 = 1 /\ L - (L - 1) + 1 = 2
      BY <1>3
    <3>. QED
      BY <1>2, <1>14, <3>1
  <2>3. Fitting(bk2, L) /\ Rest(bk2, L) = 0
    BY <1>3, <2>2 DEF Fitting, Rest
  <2>4. DataOf(bk2, L) = d.data
    <3>1. /\ DataOf(bk2, L) \in Seq(Nat) /\ Len(DataOf(bk2, L)) = c
          /\ \A i \in 1 .. c : DataOf(bk2, L)[i] = bk2[L - 2 - i + 1]
      BY <2>1, <2>2, <2>3, FirstIs
    <3>2. ASSUME NEW i \in 1 .. c PROVE DataOf(bk2, L)[i] = d.data[i]
      <4>1. PICK m \in 1 .. L : m = L - 2 - i + 1 /\ L - m + 1 = 2 + i
        BY <1>3
      <4>2. bk2[m] = Encoded(d)[2 + i]
        BY <1>14, <4>1
      <4>. QED
        BY <1>2, <3>1, <4>1, <4>2
    <3>3. d.data \in Seq(Nat) /\ Len(d.data) = c
      BY <1>2, EncodedCells
    <3>. QED
      BY <3>1, <3>2, <3>3, SeqEqual
  <2>5. FirstOf(bk2, L) = d
    <3>1. d = [src |-> d.src, data |-> d.data]
      BY <1>17 DEF Datagram
    <3>. QED
      BY <2>2, <2>4, <3>1 DEF FirstOf
  <2>6. f2[0] = <<>>
    BY <1>16, <2>1 DEF Decodes, Decode
  <2>7. f2[L] = <<d>> \o <<>>
    BY <1>16, <2>1, <2>3, <2>5, <2>6 DEF Decodes, Decode
  <2>. QED
    BY <2>7 DEF One
<1>19. PICK E : Whole(bk, E) /\ E \subseteq 0 .. len /\ len \in E
  BY <1>t, <1>1, <1>4, <1>9, LaidWhole
<1>20. f2[len + L] = Append(f[len], d)
  <2>1. Extended(bk, f, bk2, f2, len, L, E, d)
    BY <1>4, <1>13, <1>15, <1>16, <1>18, <1>19 DEF Extended
  <2>2. PICK a \in Datagram : a = d
    BY <1>17
  <2>3. Extended(bk, f, bk2, f2, len, L, E, a)
    BY <2>1, <2>2
  <2>4. Longer(f, f2, L, E, a)
    BY <2>3, Appended
  <2>. QED
    BY <1>19, <2>2, <2>4 DEF Longer
<1>21. Decoded = f[len] /\ Decoded' = f2[len + L]
  <2>1. len + L \in 0 .. N
    BY <1>4, Sizes
  <2>2. Decoded' = Unpacked(buffer', buffer_head', buffer_len')
    BY DEF Decoded, Unpacked, DatagramAt, Back
  <2>3. Decoded = f[len]
    BY <1>4, <1>15 DEF Decoded
  <2>. QED
    BY <1>6, <1>7, <1>16, <2>1, <2>2, <2>3
<1>22. Queue!Used(f[len]) = len
  BY <1>15, <1>19, WholeDecoded
<1>23. Queue!Used(Decoded) + Queue!Cost(d) <= SOCKET_BUFFER_SIZE
  <2>1. Queue!Cost(d) = L
    BY <1>2, <1>3 DEF Queue!Cost
  <2>. QED
    BY <1>4, <1>21, <1>22, <2>1 DEF N
<1>. QED
  BY <1>7, <1>20, <1>21, <1>23 DEF Queue!Arrive

\* Each step of the reader, of the timer and of the network interrupt.
LEMMA StepIsQueues == IInv /\ [Next]_vars => [Queue!Next]_<<Decoded, length, result>>
<1>. SUFFICES ASSUME IInv, [Next]_vars PROVE [Queue!Next]_<<Decoded, length, result>>
  OBVIOUS
<1>1. ASSUME NEW n \in Lengths, recvfrom(n) PROVE Queue!Next
  <2>1. UNCHANGED <<buffer, buffer_head, buffer_len, result>> /\ length' = n
    BY <1>1 DEF recvfrom, ringVars
  <2>2. Decoded' = Decoded
    BY <2>1 DEF Decoded, Unpacked, DatagramAt, Back
  <2>3. Queue!Ask(n)
    BY <2>1, <2>2 DEF Queue!Ask
  <2>. QED
    BY <2>3 DEF Queue!Next
<1>2. CASE finish
  BY <1>2, FinishReceives DEF Queue!Next
<1>3. ASSUME NEW d \in Packets, socket_dispatch_udp(d) PROVE Queue!Next
  BY <1>3, DispatchArrives DEF Queue!Next
<1>4. CASE \/ set_waiting \/ set_sleep \/ schedule \/ leave_wait \/ read_header \/ read_data
           \/ timer_irq \/ (\E d \in Packets : drop(d)) \/ UNCHANGED vars
  <2>1. UNCHANGED <<buffer, buffer_head, buffer_len, length, result>>
    BY <1>4 DEF set_waiting, set_sleep, schedule, leave_wait, read_header, read_data, timer_irq,
                drop, vars, ringVars
  <2>. QED
    BY <2>1, DecodedKept
<1>. QED
  BY <1>1, <1>2, <1>3, <1>4 DEF Next, ReaderStep

\* The ring that socket_dispatch_udp fills in the interrupt and socket_recvfrom empties byte
\* by byte is a bounded FIFO queue of whole datagrams: none is torn, duplicated, reordered or
\* lost once it was accepted.
THEOREM RingImplementsQueue == Spec => ImplementsQueue
<1>1. Init => Queue!Init
  BY StartsEmpty
<1>2. IInv /\ [Next]_vars => [Queue!Next]_<<Decoded, length, result>>
  BY StepIsQueues
<1>. QED
  BY <1>1, <1>2, Inductive, PTL DEF Spec, ImplementsQueue, Queue!Spec
=============================================================================
