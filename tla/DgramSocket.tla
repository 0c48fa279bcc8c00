----------------------------- MODULE DgramSocket -----------------------------
(***************************************************************************)
(* The receive buffer of a SOCK_DGRAM socket (kernel/net/socket.c): a ring *)
(* of bytes that the network interrupt fills with whole packets, a header  *)
(* before each, and that one task empties byte by byte in socket_recvfrom. *)
(*                                                                         *)
(* The system call starts with IF clear.  Once it had to wait, schedule()  *)
(* has set IF and the rest of the call, the copying included, can be       *)
(* interrupted anywhere by the network card and by the timer.  The reader  *)
(* alone writes buffer_tail, and the interrupt never reads it, so that one *)
(* turn of a copy loop is one step.  waiting_task is compared with NULL    *)
(* only, and this task is the only one that reads the socket.              *)
(*                                                                         *)
(* The eight header bytes are two cells here: the sender (src_ip and       *)
(* src_port) and data_len.                                                 *)
(***************************************************************************)
EXTENDS Integers, Sequences

CONSTANTS
  SOCKET_BUFFER_SIZE,
  Packets,  \* datagrams that may arrive: [src, data]
  Lengths   \* lengths the reader passes to recvfrom

HeaderSize == 2

ASSUME DgramAssumption ==
  /\ SOCKET_BUFFER_SIZE \in Nat \ {0}
  /\ Lengths \subseteq Nat
  /\ Packets \subseteq [src : Nat, data : Seq(Nat)]

VARIABLES
  buffer, buffer_head, buffer_tail, buffer_len,
  waiting_task,  \* 1 when it names the reader, 0 for NULL
  state,         \* of the reader's TCB
  running,       \* 1 when the reader is current_task
  if_flag,       \* IF of the running code
  pc,            \* where the reader is in socket_recvfrom; "user" outside it
  length,        \* argument of recvfrom
  packet,        \* header cells read so far
  copied,        \* data cells taken from the ring so far
  result         \* what the last recvfrom returned: sender and data

ringVars == <<buffer, buffer_head, buffer_len>>
vars == <<buffer, buffer_head, buffer_tail, buffer_len, waiting_task, state,
          running, if_flag, pc, length, packet, copied, result>>

Cells == 0 .. SOCKET_BUFFER_SIZE - 1
Forward(c, n) == (c + n) % SOCKET_BUFFER_SIZE

\* The cells socket_dispatch_udp copies for a datagram: header, then data.
Encoded(d) == <<d.src, Len(d.data)>> \o d.data

-----------------------------------------------------------------------------
\* socket_create; kmalloc does not clear the buffer, 0 stands for what it held.
Init ==
  /\ buffer = [c \in Cells |-> 0]
  /\ buffer_head = 0
  /\ buffer_tail = 0
  /\ buffer_len = 0
  /\ waiting_task = 0
  /\ state = "RUNNING"
  /\ running = 1
  /\ if_flag = 1
  /\ pc = "user"
  /\ length = 0
  /\ packet = <<>>
  /\ copied = <<>>
  /\ result = <<>>

Reader(at) == running = 1 /\ pc = at

recvfrom(n) ==
  /\ Reader("user")
  /\ pc' = "wait"
  /\ if_flag' = 0
  /\ length' = n
  /\ UNCHANGED <<ringVars, buffer_tail, waiting_task, state, running, packet,
                 copied, result>>

\* while (s->buffer_len == 0): register as the waiter, ...
set_waiting ==
  /\ Reader("wait")
  /\ buffer_len = 0
  /\ waiting_task' = 1
  /\ pc' = "sleep"
  /\ UNCHANGED <<ringVars, buffer_tail, state, running, if_flag, length, packet,
                 copied, result>>

\* ... mark itself asleep, ...
set_sleep ==
  /\ Reader("sleep")
  /\ state' = "SLEEP"
  /\ pc' = "schedule"
  /\ UNCHANGED <<ringVars, buffer_tail, waiting_task, running, if_flag, length,
                 packet, copied, result>>

\* ... and give up the processor; the call resumes with IF set.
schedule ==
  /\ Reader("schedule")
  /\ running' = 0
  /\ if_flag' = 1
  /\ pc' = "wait"
  /\ UNCHANGED <<ringVars, buffer_tail, waiting_task, state, length, packet,
                 copied, result>>

leave_wait ==
  /\ Reader("wait")
  /\ buffer_len # 0
  /\ pc' = "header"
  /\ packet' = <<>>
  /\ copied' = <<>>
  /\ UNCHANGED <<ringVars, buffer_tail, waiting_task, state, running, if_flag,
                 length, result>>

read_header ==
  /\ Reader("header")
  /\ packet' = Append(packet, buffer[buffer_tail])
  /\ buffer_tail' = Forward(buffer_tail, 1)
  /\ pc' = IF Len(packet) + 1 = HeaderSize THEN "data" ELSE "header"
  /\ UNCHANGED <<ringVars, waiting_task, state, running, if_flag, length, copied,
                 result>>

data_len == packet[2]

NextTail == Forward(buffer_tail, 1)

read_data ==
  /\ Reader("data")
  /\ Len(copied) < data_len
  /\ copied' = Append(copied, buffer[buffer_tail])
  /\ buffer_tail' = NextTail
  /\ UNCHANGED <<ringVars, waiting_task, state, running, if_flag, pc, length,
                 packet, result>>

\* Seeded mistakes: the header's bytes are not given back; the caller gets the
\* whole packet whatever length it asked for.
GivenBackData == data_len
to_read_all == data_len

GivenBack == HeaderSize + data_len
to_read == IF length < data_len THEN length ELSE data_len

\* buffer_len is reduced between irq_save and irq_restore; the caller's buffer got
\* the first to_read bytes, and iret sets IF.
finish ==
  /\ Reader("data")
  /\ Len(copied) = data_len
  /\ buffer_len' = buffer_len - GivenBack
  /\ result' = <<packet[1], SubSeq(copied, 1, to_read)>>
  /\ pc' = "user"
  /\ packet' = <<>>
  /\ copied' = <<>>
  /\ if_flag' = 1
  /\ UNCHANGED <<buffer, buffer_head, buffer_tail, waiting_task, state, running,
                 length>>

-----------------------------------------------------------------------------
\* Seeded mistake: only tasks marked READY are taken, as the comment in
\* schedule_internal has it, though a task that the timer interrupted is not.
DispatchReady ==
  IF running = 0 /\ state # "READY"
    THEN UNCHANGED <<running, state>>
    ELSE /\ running' = 1 - running
         /\ state' = IF running = 0 THEN "RUNNING" ELSE state

\* The timer: schedule_internal takes the next task that is not DEAD, so that the
\* reader and the other tasks take turns whatever the reader's state is.
Dispatch ==
  /\ running' = 1 - running
  /\ state' = IF running = 0 THEN "RUNNING" ELSE state

timer_irq ==
  /\ if_flag = 1
  /\ Dispatch
  /\ UNCHANGED <<ringVars, buffer_tail, waiting_task, if_flag, pc, length,
                 packet, copied, result>>

Fits(d) == buffer_len + Len(Encoded(d)) <= SOCKET_BUFFER_SIZE

\* Where a cell lies relative to buffer_head.
Offset(c) == (c - buffer_head) % SOCKET_BUFFER_SIZE

\* The task that waits is made ready; the scheduler would also run it asleep.
WakeReader ==
  /\ state' = IF waiting_task = 1 THEN "READY" ELSE state
  /\ waiting_task' = 0

\* socket_dispatch_udp in the network card's interrupt: a packet that does not fit
\* as a whole is dropped.
socket_dispatch_udp(d) ==
  /\ if_flag = 1
  /\ Fits(d)
  /\ buffer' = [c \in Cells |-> IF Offset(c) < Len(Encoded(d))
                                THEN Encoded(d)[Offset(c) + 1] ELSE buffer[c]]
  /\ buffer_head' = Forward(buffer_head, Len(Encoded(d)))
  /\ buffer_len' = buffer_len + Len(Encoded(d))
  /\ WakeReader
  /\ UNCHANGED <<buffer_tail, running, if_flag, pc, length, packet, copied, result>>

drop(d) ==
  /\ if_flag = 1
  /\ ~Fits(d)
  /\ UNCHANGED vars

ReaderStep ==
  \/ set_waiting \/ set_sleep \/ schedule \/ leave_wait
  \/ read_header \/ read_data \/ finish

Next ==
  \/ \E n \in Lengths : recvfrom(n)
  \/ ReaderStep
  \/ timer_irq
  \/ \E d \in Packets : socket_dispatch_udp(d) \/ drop(d)

Spec == Init /\ [][Next]_vars

\* The PIT's request stays pending until IF is set, and a time slice lets the
\* running task execute instructions.
FairSpec == Spec /\ SF_vars(timer_irq) /\ SF_vars(ReaderStep)

-----------------------------------------------------------------------------
\* The ring's indices stay inside the buffer and buffer_len between its ends.
TypeOK ==
  /\ buffer \in [Cells -> Nat]
  /\ buffer_head \in Cells
  /\ buffer_tail \in Cells
  /\ buffer_len \in 0 .. SOCKET_BUFFER_SIZE
  /\ waiting_task \in {0, 1}
  /\ state \in {"READY", "RUNNING", "SLEEP"}
  /\ running \in {0, 1}
  /\ if_flag \in {0, 1}
  /\ pc \in {"user", "wait", "sleep", "schedule", "header", "data"}
  /\ length \in Nat
  /\ packet \in Seq(Nat)
  /\ copied \in Seq(Nat)

\* Cells of the current packet that recvfrom has passed but not yet given back.
Consumed == Len(packet) + Len(copied)

\* buffer_len, kept by two parties and changed at different moments than the two
\* indices, always agrees with them: the interrupt can trust its test for room
\* while recvfrom is half way through a packet.
RingAgrees ==
  /\ TypeOK
  /\ Forward(buffer_tail, buffer_len - Consumed) = buffer_head
  /\ Consumed <= buffer_len

\* recvfrom returns once there is a datagram, whatever the interrupt interleaves
\* with the test of buffer_len, waiting_task and TASK_SLEEP.
RecvReturns == (pc = "wait" /\ buffer_len > 0) ~> (pc = "user")

-----------------------------------------------------------------------------
(* The queue that the ring stands for.                                      *)

\* The n-th cell before the head.
Back(buf, head, n) == buf[(head - n) % SOCKET_BUFFER_SIZE]

\* The datagram that begins n cells before the head.
DatagramAt(buf, head, n) ==
  [src  |-> Back(buf, head, n),
   data |-> [i \in 1 .. Back(buf, head, n - 1) |-> Back(buf, head, n - HeaderSize - i + 1)]]

\* The datagrams in the len cells before the head.  A header whose length reaches past
\* them would be a torn packet.
Unpacked(buf, head, len) ==
  LET D[n \in 0 .. SOCKET_BUFFER_SIZE] ==
        IF n = 0 THEN <<>>
        ELSE IF n < HeaderSize \/ n < HeaderSize + Back(buf, head, n - 1) THEN <<"torn">>
        ELSE <<DatagramAt(buf, head, n)>> \o D[n - HeaderSize - Back(buf, head, n - 1)]
  IN  D[len]

\* What the ring decodes to, from the packet on that recvfrom has not finished.
Decoded == Unpacked(buffer, buffer_head, buffer_len)

Queue == INSTANCE DatagramQueue
           WITH Capacity <- SOCKET_BUFFER_SIZE, Overhead <- HeaderSize,
                Datagrams <- Packets, queue <- Decoded, asked <- length

\* The ring, with its byte-wise reader and the interrupts in between, is a bounded
\* FIFO of whole datagrams: none is torn, duplicated, reordered or lost once it was
\* accepted, and one that fits into what the queue's datagrams leave is accepted.
ImplementsQueue == Queue!Spec
=============================================================================
