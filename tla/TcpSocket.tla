------------------------------ MODULE TcpSocket ------------------------------
(***************************************************************************)
(* One SOCK_STREAM socket, its protocol control block and the program that *)
(* uses it (kernel/net/socket.c, kernel/net/tcp.c), against a host that    *)
(* follows the TCP standard and a network between them.                    *)
(*                                                                         *)
(* A system call starts with IF clear; schedule() sets IF, and from then   *)
(* on the network interrupt can come between any two of its steps.  While  *)
(* the task is "away" other tasks run.  That it gets the processor back,   *)
(* asleep or not, is the scheduler's promise (EveryTaskRuns of Scheduler). *)
(*                                                                         *)
(* The bytes the host sends are numbered 1, 2, ..., and so are its         *)
(* sequence numbers: its SYN is 0 and byte i is i.  The socket's ring is   *)
(* the sequence of the bytes in it; DgramSocket models the ring itself.    *)
(***************************************************************************)
EXTENDS Integers, Sequences, SequencesExt

CONSTANTS
  SOCKET_BUFFER_SIZE,  \* also the window that tcp_new_pcb announces
  DATA,       \* bytes the host has to send
  SENDS,      \* bound: segments the program sends
  Lengths,    \* lengths the program passes to recv
  Unreliable, \* TRUE: the network loses, duplicates and reorders segments
  FAULTS      \* bound: duplications and retransmissions

ASSUME TcpAssumption ==
  /\ SOCKET_BUFFER_SIZE \in Nat \ {0}
  /\ {DATA, SENDS, FAULTS} \subseteq Nat
  /\ Lengths \subseteq Nat \ {0}
  /\ Unreliable \in BOOLEAN

VARIABLES
  pcb_state, snd_nxt, rcv_nxt,
  in_table,     \* 1 while tcp_pcbs[] holds the PCB, 0 before and after
  in_use,       \* 1 until socket_close
  buffer,       \* bytes in the socket's ring; buffer_len is its length
  waiting_task, \* 1 when it names the program's task, 0 for NULL
  task_state,
  if_flag,      \* IF while the program's task runs
  call,         \* the blocking call the program is in
  pc,           \* where it is in it
  to_read,      \* local of recv
  received,     \* bytes recv has returned so far
  connected,    \* what connect returned: "none", "ok" or "failed"
  sends,        \* segments sent by the program
  \* the other host and the network
  p_state, p_nxt, p_una, p_rcv,
  p_fin,        \* 1 when the host has sent its FIN
  to_us, to_peer,
  faults,
  refused       \* history: 1 when tcp_input has dropped data that found no room

pcbVars == <<pcb_state, snd_nxt, rcv_nxt, in_table>>
taskVars == <<if_flag, call, pc, to_read, received, connected, sends>>
peerVars == <<p_state, p_nxt, p_una, p_rcv, p_fin>>
vars == <<pcbVars, in_use, buffer, waiting_task, task_state, taskVars, peerVars,
          to_us, to_peer, faults, refused>>

ISN == 100

Segment(flags, seq, ack, data) ==
  [flags |-> flags, seq |-> seq, ack |-> ack, data |-> data]

\* What of a segment advances the sequence number: SYN and FIN count as a byte.
Weight(flags, data) ==
  Len(data) + IF flags \intersect {"SYN", "FIN"} # {} THEN 1 ELSE 0

Init ==
  /\ pcb_state = "CLOSED" /\ snd_nxt = 0 /\ rcv_nxt = 0 /\ in_table = 0
  /\ in_use = 1 /\ buffer = <<>> /\ waiting_task = 0 /\ task_state = "RUNNING"
  /\ if_flag = 1 /\ call = "none" /\ pc = "user" /\ to_read = 0
  /\ received = <<>> /\ connected = "none" /\ sends = 0
  /\ p_state = "CLOSED" /\ p_nxt = 0 /\ p_una = 0 /\ p_rcv = 0 /\ p_fin = 0
  /\ to_us = <<>> /\ to_peer = <<>> /\ faults = 0 /\ refused = 0

-----------------------------------------------------------------------------
\* tcp_send_segment, run to its end: the header carries snd_nxt and the new value
\* of rcv_nxt, then snd_nxt advances.
tcp_send_segment(flags, data) ==
  /\ to_peer' = Append(to_peer, Segment(flags, snd_nxt, rcv_nxt', data))
  /\ snd_nxt' = snd_nxt + Weight(flags, data)

SendsNothing == UNCHANGED <<snd_nxt, to_peer>>

Program(c, at) == pc = at /\ call = c /\ in_use = 1

\* socket_connect up to the loop of schedule() that lets an ARP reply come in:
\* the PCB is made and gets its ports; its state is still CLOSED.
connect ==
  /\ Program("none", "user")
  /\ in_table = 0 /\ connected = "none"
  /\ in_table' = 1
  /\ call' = "connect" /\ pc' = "away"
  /\ if_flag' = 1
  /\ UNCHANGED <<pcb_state, snd_nxt, rcv_nxt, in_use, buffer, waiting_task,
                 task_state, to_read, received, connected, sends, peerVars, to_us,
                 to_peer, faults, refused>>

\* The SYN leaves; IF is set, so the answer may come before tcp_send_segment has
\* advanced snd_nxt.
connect_syn ==
  /\ Program("connect", "resumed")
  /\ pcb_state = "CLOSED"
  /\ pcb_state' = "SYN_SENT"
  /\ snd_nxt' = ISN
  /\ to_peer' = Append(to_peer, Segment({"SYN"}, ISN, rcv_nxt, <<>>))
  /\ pc' = "advance"
  /\ UNCHANGED <<rcv_nxt, in_table, in_use, buffer, waiting_task, task_state,
                 if_flag, call, to_read, received, connected, sends, peerVars,
                 to_us, faults, refused>>

connect_advance ==
  /\ Program("connect", "advance")
  /\ snd_nxt' = snd_nxt + 1
  /\ pc' = "wait"
  /\ UNCHANGED <<pcb_state, rcv_nxt, in_table, in_use, buffer, waiting_task,
                 task_state, if_flag, call, to_read, received, connected, sends,
                 peerVars, to_us, to_peer, faults, refused>>

\* Seeded mistake: the PCB's state is not looked at.
ConnectResultUnchecked == "ok"

ConnectResult == IF pcb_state = "ESTABLISHED" THEN "ok" ELSE "failed"

\* connect returns after a single schedule(), whatever became of the handshake.
connect_return ==
  /\ Program("connect", "resumed")
  /\ pcb_state # "CLOSED"
  /\ connected' = ConnectResult
  /\ call' = "none" /\ pc' = "user"
  /\ if_flag' = 1
  /\ UNCHANGED <<pcbVars, in_use, buffer, waiting_task, task_state, to_read,
                 received, sends, peerVars, to_us, to_peer, faults, refused>>

\* socket_bind and socket_listen.
listen ==
  /\ Program("none", "user")
  /\ in_table = 0 /\ pcb_state = "CLOSED" /\ connected = "none"
  /\ in_table' = 1
  /\ pcb_state' = "LISTEN"
  /\ UNCHANGED <<snd_nxt, rcv_nxt, in_use, buffer, waiting_task, task_state,
                 taskVars, peerVars, to_us, to_peer, faults, refused>>

accept ==
  /\ Program("none", "user")
  /\ in_table = 1 /\ connected = "none"
  /\ call' = "accept" /\ pc' = "test"
  /\ if_flag' = 0
  /\ UNCHANGED <<pcbVars, in_use, buffer, waiting_task, task_state, to_read,
                 received, connected, sends, peerVars, to_us, to_peer, faults, refused>>

recv(n) ==
  /\ Program("none", "user")
  /\ call' = "recv" /\ pc' = "test"
  /\ to_read' = n
  /\ if_flag' = 0
  /\ UNCHANGED <<pcbVars, in_use, buffer, waiting_task, task_state, received,
                 connected, sends, peerVars, to_us, to_peer, faults, refused>>

\* The condition the loops of accept and recv wait for.
Ready == IF call = "accept" THEN pcb_state = "ESTABLISHED" ELSE buffer # <<>>

\* One turn of those loops: waiting_task, TASK_SLEEP, schedule().
test ==
  /\ pc = "test" \/ (pc = "resumed" /\ call \in {"accept", "recv"})
  /\ pc' = IF ~Ready THEN "wait" ELSE IF call = "accept" THEN "done" ELSE "copy"
  /\ to_read' = IF Ready /\ call = "recv" /\ Len(buffer) < to_read
                THEN Len(buffer) ELSE to_read
  /\ UNCHANGED <<pcbVars, in_use, buffer, waiting_task, task_state, if_flag, call,
                 received, connected, sends, peerVars, to_us, to_peer, faults, refused>>

set_waiting ==
  /\ pc = "wait"
  /\ waiting_task' = 1
  /\ pc' = "sleep"
  /\ UNCHANGED <<pcbVars, in_use, buffer, task_state, if_flag, call, to_read,
                 received, connected, sends, peerVars, to_us, to_peer, faults, refused>>

set_sleep ==
  /\ pc = "sleep"
  /\ task_state' = "SLEEP"
  /\ pc' = "schedule"
  /\ UNCHANGED <<pcbVars, in_use, buffer, waiting_task, if_flag, call, to_read,
                 received, connected, sends, peerVars, to_us, to_peer, faults, refused>>

schedule ==
  /\ pc = "schedule"
  /\ pc' = "away"
  /\ if_flag' = 1
  /\ UNCHANGED <<pcbVars, in_use, buffer, waiting_task, task_state, call, to_read,
                 received, connected, sends, peerVars, to_us, to_peer, faults, refused>>

\* Seeded mistake: the scheduler passes over a task that is asleep.
DispatchableAwake == task_state # "SLEEP"

\* schedule_internal takes any task that is not DEAD.
Dispatchable == task_state # "DEAD"

dispatched ==
  /\ pc = "away" /\ Dispatchable
  /\ task_state' = "RUNNING"
  /\ pc' = "resumed"
  /\ UNCHANGED <<pcbVars, in_use, buffer, waiting_task, if_flag, call, to_read,
                 received, connected, sends, peerVars, to_us, to_peer, faults, refused>>

accept_return ==
  /\ Program("accept", "done")
  /\ connected' = "ok"
  /\ call' = "none" /\ pc' = "user"
  /\ if_flag' = 1
  /\ UNCHANGED <<pcbVars, in_use, buffer, waiting_task, task_state, to_read,
                 received, sends, peerVars, to_us, to_peer, faults, refused>>

\* Seeded mistake: buffer_len is not reduced.
RemainingAll == buffer

Remaining == SubSeq(buffer, to_read + 1, Len(buffer))

\* The copy is over: buffer_len -= to_read.
recv_return ==
  /\ Program("recv", "copy")
  /\ received' = received \o SubSeq(buffer, 1, to_read)
  /\ buffer' = Remaining
  /\ call' = "none" /\ pc' = "user"
  /\ if_flag' = 1
  /\ UNCHANGED <<pcbVars, in_use, waiting_task, task_state, to_read, connected,
                 sends, peerVars, to_us, to_peer, faults, refused>>

\* socket_sendto of one byte, a system call that does not block; it returns -1
\* outside ESTABLISHED.
send ==
  /\ Program("none", "user")
  /\ sends < SENDS
  /\ sends' = sends + 1
  /\ IF pcb_state = "ESTABLISHED"
       THEN UNCHANGED rcv_nxt /\ tcp_send_segment({"ACK", "PSH"}, <<0>>)
       ELSE UNCHANGED rcv_nxt /\ SendsNothing
  /\ UNCHANGED <<pcb_state, in_table, in_use, buffer, waiting_task, task_state,
                 if_flag, call, pc, to_read, received, connected, peerVars, to_us,
                 faults, refused>>

\* tcp_close: the state the PCB goes to, having sent a FIN or not.
SendsFin == pcb_state \in {"ESTABLISHED", "CLOSE_WAIT"}

\* Seeded mistake: the FIN is sent but the state is not changed.
CloseStateKept ==
  IF pcb_state \in {"ESTABLISHED", "CLOSE_WAIT"} THEN pcb_state ELSE "CLOSED"

CloseState ==
  CASE pcb_state = "ESTABLISHED" -> "FIN_WAIT_1"
    [] pcb_state = "CLOSE_WAIT"  -> "LAST_ACK"
    [] OTHER                     -> "CLOSED"

\* socket_close with its tcp_close; the ring goes back to the heap.
close ==
  /\ Program("none", "user")
  /\ in_use' = 0
  /\ buffer' = <<>>
  /\ UNCHANGED rcv_nxt
  /\ IF SendsFin THEN tcp_send_segment({"FIN", "ACK"}, <<>>) ELSE SendsNothing
  /\ pcb_state' = CloseState
  /\ UNCHANGED <<in_table, waiting_task, task_state, taskVars, peerVars, to_us,
                 faults, refused>>

-----------------------------------------------------------------------------
\* tcp_input, one action per state of the PCB.  The segment's ports select the PCB
\* while the table holds it.
WakeTask ==
  /\ task_state' = IF waiting_task = 1 THEN "READY" ELSE task_state
  /\ waiting_task' = 0

WakesNobody == UNCHANGED <<task_state, waiting_task>>

in_listen(m) ==
  /\ pcb_state = "LISTEN" /\ "SYN" \in m.flags
  /\ rcv_nxt' = m.seq + 1
  /\ pcb_state' = "SYN_RECEIVED"
  /\ tcp_send_segment({"SYN", "ACK"}, <<>>)
  /\ WakesNobody /\ UNCHANGED <<in_table, buffer>>

in_syn_sent(m) ==
  /\ pcb_state = "SYN_SENT" /\ {"SYN", "ACK"} \subseteq m.flags
  /\ rcv_nxt' = m.seq + 1
  /\ pcb_state' = "ESTABLISHED"
  /\ tcp_send_segment({"ACK"}, <<>>)
  /\ WakeTask /\ UNCHANGED <<in_table, buffer>>

in_syn_received(m) ==
  /\ pcb_state = "SYN_RECEIVED" /\ "ACK" \in m.flags
  /\ pcb_state' = "ESTABLISHED"
  /\ WakesNobody /\ SendsNothing /\ UNCHANGED <<rcv_nxt, in_table, buffer>>

in_established_fin(m) ==
  /\ pcb_state = "ESTABLISHED" /\ "FIN" \in m.flags
  /\ rcv_nxt' = m.seq + 1
  /\ tcp_send_segment({"ACK"}, <<>>)
  /\ pcb_state' = "CLOSE_WAIT"
  /\ WakeTask /\ UNCHANGED <<in_table, buffer>>

\* Data goes into the ring if all of it fits, in whatever order it comes.
HasRoom(m) == Len(buffer) + Len(m.data) <= SOCKET_BUFFER_SIZE

\* Seeded mistake: acknowledges one byte too many.
AckedOver(m) == m.seq + Len(m.data) + 1

Acked(m) == m.seq + Len(m.data)

in_established_data(m) ==
  /\ pcb_state = "ESTABLISHED" /\ "FIN" \notin m.flags
  /\ m.data # <<>> /\ HasRoom(m)
  /\ buffer' = buffer \o m.data
  /\ rcv_nxt' = Acked(m)
  /\ tcp_send_segment({"ACK"}, <<>>)
  /\ WakeTask /\ UNCHANGED <<pcb_state, in_table>>

in_fin_wait_1(m) ==
  /\ pcb_state = "FIN_WAIT_1" /\ m.flags \intersect {"ACK", "FIN"} # {}
  /\ IF "FIN" \in m.flags
       THEN /\ rcv_nxt' = m.seq + 1
            /\ tcp_send_segment({"ACK"}, <<>>)
            /\ pcb_state' = IF "ACK" \in m.flags THEN "TIME_WAIT" ELSE "CLOSING"
       ELSE /\ pcb_state' = "FIN_WAIT_2"
            /\ SendsNothing /\ UNCHANGED rcv_nxt
  /\ WakesNobody /\ UNCHANGED <<in_table, buffer>>

\* Seeded mistake: the table keeps the freed PCB.
PcbFreedKept == pcb_state' = "CLOSED" /\ UNCHANGED in_table

\* The PCB is freed and leaves the table.
PcbFreed == pcb_state' = "CLOSED" /\ in_table' = 0

in_fin_wait_2(m) ==
  /\ pcb_state = "FIN_WAIT_2" /\ "FIN" \in m.flags
  /\ rcv_nxt' = m.seq + 1
  /\ tcp_send_segment({"ACK"}, <<>>)
  /\ PcbFreed
  /\ WakesNobody /\ UNCHANGED buffer

in_last_ack(m) ==
  /\ pcb_state = "LAST_ACK" /\ "ACK" \in m.flags
  /\ PcbFreed
  /\ WakesNobody /\ SendsNothing /\ UNCHANGED <<rcv_nxt, buffer>>

Handled(m) ==
  \/ pcb_state = "LISTEN" /\ "SYN" \in m.flags
  \/ pcb_state = "SYN_SENT" /\ {"SYN", "ACK"} \subseteq m.flags
  \/ pcb_state \in {"SYN_RECEIVED", "LAST_ACK"} /\ "ACK" \in m.flags
  \/ pcb_state = "ESTABLISHED"
       /\ ("FIN" \in m.flags \/ (m.data # <<>> /\ HasRoom(m)))
  \/ pcb_state = "FIN_WAIT_1" /\ m.flags \intersect {"ACK", "FIN"} # {}
  \/ pcb_state = "FIN_WAIT_2" /\ "FIN" \in m.flags

\* No PCB matches, or its state has no use for the segment.
in_ignored(m) ==
  /\ in_table = 0 \/ ~Handled(m)
  /\ WakesNobody /\ SendsNothing /\ UNCHANGED <<pcb_state, rcv_nxt, in_table, buffer>>

tcp_input(m) ==
  \/ /\ in_table = 1
     /\ \/ in_listen(m) \/ in_syn_sent(m) \/ in_syn_received(m)
        \/ in_established_fin(m) \/ in_established_data(m)
        \/ in_fin_wait_1(m) \/ in_fin_wait_2(m) \/ in_last_ack(m)
  \/ in_ignored(m)

\* Data that the ring has no room for is dropped without an ACK.
Refuses(m) ==
  /\ in_table = 1 /\ pcb_state = "ESTABLISHED" /\ "FIN" \notin m.flags
  /\ m.data # <<>> /\ ~HasRoom(m)

\* Which segments of a channel the network may hand over next.
Deliverable(chan) == IF Unreliable THEN 1 .. Len(chan) ELSE {1} \intersect 1 .. Len(chan)

\* The network card's interrupt.
nic_irq ==
  /\ if_flag = 1
  /\ \E i \in Deliverable(to_us) :
       /\ tcp_input(to_us[i]) /\ to_us' = RemoveAt(to_us, i)
       /\ refused' = IF Refuses(to_us[i]) THEN 1 ELSE refused
  /\ UNCHANGED <<in_use, taskVars, peerVars, faults>>

-----------------------------------------------------------------------------
\* The other host.  It follows the standard: it takes segments in order only,
\* answers what it cannot use with an ACK, and keeps within the window.
PeerSends(flags, seq, data) ==
  to_us' = Append(to_us, Segment(flags, seq, p_rcv', data))

peer_open ==
  /\ p_state = "CLOSED" /\ pcb_state = "LISTEN"
  /\ p_state' = "SYN_SENT" /\ p_nxt' = 1 /\ UNCHANGED <<p_una, p_rcv, p_fin>>
  /\ PeerSends({"SYN"}, 0, <<>>)
  /\ UNCHANGED <<pcbVars, in_use, buffer, waiting_task, task_state, taskVars,
                 to_peer, faults, refused>>

PeerAcked(m) == IF m.ack > p_una /\ m.ack <= p_nxt THEN m.ack ELSE p_una

\* What the host does with a segment from us.
PeerHandles(m) ==
  \/ /\ p_state = "CLOSED" /\ m.flags = {"SYN"}
     /\ p_state' = "SYN_RCVD" /\ p_nxt' = 1 /\ p_rcv' = m.seq + 1
     /\ PeerSends({"SYN", "ACK"}, 0, <<>>) /\ UNCHANGED <<p_una, p_fin>>
  \/ /\ p_state = "SYN_SENT" /\ m.flags = {"SYN", "ACK"} /\ m.ack = 1
     /\ p_state' = "ESTABLISHED" /\ p_una' = 1 /\ p_rcv' = m.seq + 1
     /\ PeerSends({"ACK"}, p_nxt, <<>>) /\ UNCHANGED <<p_nxt, p_fin>>
  \/ /\ p_state \in {"SYN_RCVD", "ESTABLISHED"} /\ m.seq = p_rcv /\ "SYN" \notin m.flags
     /\ p_state' = IF m.ack >= 1 THEN "ESTABLISHED" ELSE p_state
     /\ p_una' = PeerAcked(m)
     /\ p_rcv' = m.seq + Weight(m.flags, m.data)
     /\ \/ /\ p_rcv' = p_rcv /\ UNCHANGED <<to_us, p_nxt, p_fin>>
        \/ /\ p_rcv' # p_rcv /\ PeerSends({"ACK"}, p_nxt, <<>>)
           /\ UNCHANGED <<p_nxt, p_fin>>
        \/ /\ "FIN" \in m.flags /\ p_fin = 0 /\ p_nxt = DATA + 1
           /\ PeerSends({"FIN", "ACK"}, p_nxt, <<>>)
           /\ p_nxt' = p_nxt + 1 /\ p_fin' = 1
  \/ /\ p_state \in {"SYN_RCVD", "ESTABLISHED"}
     /\ m.seq # p_rcv \/ "SYN" \in m.flags
     /\ UNCHANGED peerVars
     /\ PeerSends({"ACK"}, p_nxt, <<>>)
  \/ /\ \/ p_state = "CLOSED" /\ m.flags # {"SYN"}
        \/ p_state = "SYN_SENT" /\ ~(m.flags = {"SYN", "ACK"} /\ m.ack = 1)
     /\ UNCHANGED <<peerVars, to_us>>

peer_input ==
  /\ \E i \in Deliverable(to_peer) :
       PeerHandles(to_peer[i]) /\ to_peer' = RemoveAt(to_peer, i)
  /\ UNCHANGED <<pcbVars, in_use, buffer, waiting_task, task_state, taskVars, faults, refused>>

peer_data ==
  /\ p_state = "ESTABLISHED" /\ p_fin = 0
  /\ p_nxt <= DATA /\ p_nxt - p_una < SOCKET_BUFFER_SIZE
  /\ p_nxt' = p_nxt + 1 /\ UNCHANGED <<p_state, p_una, p_rcv, p_fin>>
  /\ PeerSends({"ACK"}, p_nxt, <<p_nxt>>)
  /\ UNCHANGED <<pcbVars, in_use, buffer, waiting_task, task_state, taskVars,
                 to_peer, faults, refused>>

peer_fin ==
  /\ p_state = "ESTABLISHED" /\ p_fin = 0 /\ p_nxt = DATA + 1
  /\ p_fin' = 1 /\ p_nxt' = p_nxt + 1 /\ UNCHANGED <<p_state, p_una, p_rcv>>
  /\ PeerSends({"FIN", "ACK"}, p_nxt, <<>>)
  /\ UNCHANGED <<pcbVars, in_use, buffer, waiting_task, task_state, taskVars,
                 to_peer, faults, refused>>

\* An unreliable network: the host sends again what was not acknowledged, ...
peer_again ==
  /\ Unreliable /\ faults < FAULTS
  /\ p_nxt > p_una
  /\ faults' = faults + 1
  /\ LET flags == CASE p_una = 0 /\ p_state = "SYN_SENT" -> {"SYN"}
                    [] p_una = 0 /\ p_state # "SYN_SENT" -> {"SYN", "ACK"}
                    [] p_una = DATA + 1                  -> {"FIN", "ACK"}
                    [] OTHER                             -> {"ACK"}
         data == IF p_una \in 1 .. DATA THEN <<p_una>> ELSE <<>>
     IN  UNCHANGED peerVars /\ PeerSends(flags, p_una, data)
  /\ UNCHANGED <<pcbVars, in_use, buffer, waiting_task, task_state, taskVars, to_peer,
                 refused>>

\* ... the network delivers a segment twice, ...
duplicate ==
  /\ Unreliable /\ faults < FAULTS
  /\ faults' = faults + 1
  /\ \/ \E i \in 1 .. Len(to_us) : to_us' = Append(to_us, to_us[i]) /\ UNCHANGED to_peer
     \/ \E i \in 1 .. Len(to_peer) : to_peer' = Append(to_peer, to_peer[i]) /\ UNCHANGED to_us
  /\ UNCHANGED <<pcbVars, in_use, buffer, waiting_task, task_state, taskVars, peerVars,
                 refused>>

\* ... or loses it.
lose ==
  /\ Unreliable
  /\ \/ \E i \in 1 .. Len(to_us) : to_us' = RemoveAt(to_us, i) /\ UNCHANGED to_peer
     \/ \E i \in 1 .. Len(to_peer) : to_peer' = RemoveAt(to_peer, i) /\ UNCHANGED to_us
  /\ UNCHANGED <<pcbVars, in_use, buffer, waiting_task, task_state, taskVars,
                 peerVars, faults, refused>>

-----------------------------------------------------------------------------
CallStep ==
  \/ connect_syn \/ connect_advance \/ connect_return
  \/ test \/ set_waiting \/ set_sleep \/ schedule \/ dispatched
  \/ accept_return \/ recv_return

ProgramCall ==
  connect \/ listen \/ accept \/ (\E n \in Lengths : recv(n)) \/ send \/ close

Next ==
  \/ CallStep \/ ProgramCall \/ nic_irq
  \/ peer_open \/ peer_input \/ peer_data \/ peer_fin
  \/ peer_again \/ duplicate \/ lose

Spec == Init /\ [][Next]_vars

\* A call in progress goes on, the network card raises its interrupt and the host
\* answers; nothing obliges the program to make calls or the host to send data.
FairSpec ==
  Spec /\ WF_vars(CallStep) /\ SF_vars(nic_irq) /\ WF_vars(peer_input)

-----------------------------------------------------------------------------
PcbStates == {"CLOSED", "LISTEN", "SYN_SENT", "SYN_RECEIVED", "ESTABLISHED",
              "FIN_WAIT_1", "FIN_WAIT_2", "CLOSE_WAIT", "CLOSING", "LAST_ACK",
              "TIME_WAIT"}

\* The ring never holds more than SOCKET_BUFFER_SIZE bytes and only bytes the host
\* sent, and the PCB is in a state of tcp.h, under any loss, duplication and
\* reordering.
TypeOK ==
  /\ pcb_state \in PcbStates
  /\ snd_nxt \in Nat /\ rcv_nxt \in Nat
  /\ {in_table, in_use, waiting_task, if_flag, p_fin} \subseteq {0, 1}
  /\ buffer \in Seq(1 .. DATA) /\ Len(buffer) <= SOCKET_BUFFER_SIZE
  /\ task_state \in {"RUNNING", "READY", "SLEEP"}
  /\ call \in {"none", "connect", "accept", "recv"}
  /\ pc \in {"user", "away", "resumed", "advance", "test", "wait", "sleep",
             "schedule", "copy", "done"}
  /\ received \in Seq(1 .. DATA)
  /\ connected \in {"none", "ok", "failed"}

\* The first n bytes of what the host sends.
Stream(n) == [i \in 1 .. n |-> i]

\* What recv returned and what waits in the ring is the beginning of what the host
\* sent: nothing is skipped, repeated or reordered.  Holds on a network that keeps the
\* order, however much the host sends, until a segment finds the ring full: tcp_input
\* drops it, takes the next and looks at no sequence number.
StreamIsPrefix ==
  in_use = 1 /\ refused = 0 => received \o buffer = Stream(Len(received) + Len(buffer))

\* Every byte and flag that our segments acknowledge was sent by the host, and
\* acknowledgements survive retransmitted, duplicated and reordered segments that
\* make rcv_nxt go back; and the ring is never filled beyond its size (TypeOK).
AcksOnlySent ==
  /\ TypeOK
  /\ \A i \in 1 .. Len(to_peer) : to_peer[i].ack <= p_nxt

\* connect and accept report success only when the host takes part in a connection: it
\* has taken our SYN, from which on the byte it expects is not 0, and we have taken its
\* SYN.  (A duplicated SYN|ACK or a stray ACK must not do.)  That the byte it expects is
\* the one we send next is not said.
ConnectionAgreed ==
  connected = "ok" => p_state # "CLOSED" /\ p_rcv > 0 /\ rcv_nxt > 0

\* After socket_close has given the ring back to the heap no segment, however
\* late, is copied into it or opens the connection again, and the PCB leaves the
\* table at most once.
NothingAfterClose ==
  [][in_use = 0 => /\ buffer' = buffer
                   /\ in_table' <= in_table
                   /\ pcb_state' \notin {"ESTABLISHED", "CLOSE_WAIT"}]_vars

\* recv returns once there is data, however the interrupt falls between its test,
\* waiting_task and TASK_SLEEP; accept returns unless the connection is gone before it
\* looks: nothing wakes it when the handshake ends, it sees the state at its next turn.
CallsReturn ==
  /\ (call = "recv" /\ buffer # <<>>) ~> (call # "recv")
  /\ (call = "accept" /\ pcb_state = "ESTABLISHED") ~>
       (call # "accept" \/ pcb_state # "ESTABLISHED")

\* A PCB whose program and host have both closed, ours after the host's or the
\* host's FIN apart from its ACK, leaves the table.
ClosedPcbFreed ==
  /\ (pcb_state = "LAST_ACK") ~> (in_table = 0)
  /\ (pcb_state = "FIN_WAIT_2" /\ p_fin = 1) ~> (in_table = 0)
=============================================================================
