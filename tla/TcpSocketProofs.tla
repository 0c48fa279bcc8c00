--------------------------- MODULE TcpSocketProofs ---------------------------
(***************************************************************************)
(* Proofs about TcpSocket, for every size of the ring, every amount of     *)
(* data and every behaviour of the network.                                *)
(***************************************************************************)
EXTENDS TcpSocket, SequenceTheorems, TLAPS

USE TcpAssumption

\* The states from which tcp_input can still reach ESTABLISHED, or that tcp_close has
\* yet to leave.
Open == {"LISTEN", "SYN_SENT", "SYN_RECEIVED", "ESTABLISHED", "CLOSE_WAIT"}

Segments(Data) ==
  [flags : SUBSET {"SYN", "ACK", "FIN", "PSH"}, seq : Nat, ack : Nat, data : Seq(Data)]

NetTyped ==
  /\ to_us \in Seq(Segments(1 .. DATA))
  /\ to_peer \in Seq(Segments(Nat))
  /\ {p_nxt, p_una, p_rcv, to_read} \subseteq Nat
  /\ p_state \in {"CLOSED", "SYN_SENT", "SYN_RCVD", "ESTABLISHED"}

\* The host has answered an acknowledged SYN of ours, or it has not.
PeerSound ==
  /\ p_state = "CLOSED" <=> p_nxt = 0
  /\ p_state \in {"CLOSED", "SYN_SENT"} => p_una = 0
  /\ p_state \in {"SYN_RCVD", "ESTABLISHED"} <=> p_rcv > 0

\* What is on its way to us was sent by the host, and acknowledges something only once
\* the host has seen our SYN.
SegmentsSent ==
  \A i \in 1 .. Len(to_us) :
    /\ to_us[i].seq + Weight(to_us[i].flags, to_us[i].data) <= p_nxt
    /\ "ACK" \in to_us[i].flags => p_rcv > 0

\* What we acknowledge was sent.
AcksSent ==
  /\ rcv_nxt <= p_nxt
  /\ \A i \in 1 .. Len(to_peer) : to_peer[i].ack <= p_nxt

\* Both sides have seen the other's SYN as soon as the PCB is ESTABLISHED, and ours has
\* seen the host's before.
Handshake ==
  /\ pcb_state \in {"SYN_RECEIVED", "ESTABLISHED"} => rcv_nxt > 0
  /\ pcb_state = "ESTABLISHED" \/ pc = "done" \/ connected = "ok" =>
       p_rcv > 0 /\ rcv_nxt > 0

\* The bytes recv copies are in the ring until it takes them out.
Copying ==
  /\ pc = "test" => call \in {"accept", "recv"}
  /\ pc = "copy" => to_read <= Len(buffer)

\* A closed socket is in no call, and its PCB past tcp_close.
Closed ==
  in_use = 0 => pc = "user" /\ call = "none" /\ pcb_state \notin Open

IInv ==
  /\ TypeOK /\ NetTyped
  /\ PeerSound /\ SegmentsSent /\ AcksSent /\ Handshake /\ Copying /\ Closed

-----------------------------------------------------------------------------
\* What is left when the network takes a segment out of a channel.
LEMMA RemoveAtElements ==
  ASSUME NEW S, NEW chan \in Seq(S), NEW i \in 1 .. Len(chan)
  PROVE  /\ RemoveAt(chan, i) \in Seq(S)
         /\ Len(RemoveAt(chan, i)) = Len(chan) - 1
         /\ \A j \in 1 .. Len(chan) - 1 :
              RemoveAt(chan, i)[j] = IF j < i THEN chan[j] ELSE chan[j + 1]
<1>. DEFINE a == SubSeq(chan, 1, i - 1)
            b == SubSeq(chan, i + 1, Len(chan))
<1>1. /\ a \in Seq(S) /\ Len(a) = i - 1 /\ \A j \in 1 .. i - 1 : a[j] = chan[j]
  BY SubSeqProperties
<1>2. /\ b \in Seq(S) /\ Len(b) = Len(chan) - i
      /\ \A j \in 1 .. Len(chan) - i : b[j] = chan[i + j]
  BY SubSeqProperties
<1>. HIDE DEF a, b
<1>3. a \o b \in Seq(S) /\ Len(a \o b) = Len(chan) - 1
  <2>1. a \o b \in Seq(S) /\ Len(a \o b) = Len(a) + Len(b)
    BY <1>1, <1>2, ConcatProperties
  <2>. QED
    BY <1>1, <1>2, <2>1
<1>4. ASSUME NEW j \in 1 .. Len(chan) - 1
      PROVE  (a \o b)[j] = IF j < i THEN chan[j] ELSE chan[j + 1]
  <2>1. CASE j < i
    <3>1. j \in 1 .. Len(a) /\ (a \o b)[j] = a[j]
      BY <1>1, <1>2, <2>1, ConcatProperties
    <3>. QED
      BY <1>1, <2>1, <3>1
  <2>2. CASE j >= i
    <3>1. j - (i - 1) \in 1 .. Len(chan) - i
      BY <2>2
    <3>2. (a \o b)[j] = b[j - (i - 1)]
      BY <1>1, <1>2, <2>2
    <3>3. b[j - (i - 1)] = chan[i + (j - (i - 1))] /\ i + (j - (i - 1)) = j + 1
      BY <1>2, <3>1
    <3>. QED
      BY <2>2, <3>2, <3>3
  <2>3. j < i \/ j >= i
    OBVIOUS
  <2>. QED
    BY <2>1, <2>2, <2>3, Zenon
<1>. QED
  BY <1>3, <1>4 DEF RemoveAt, a, b

LEMMA RemovedFrom ==
  ASSUME NEW S, NEW chan \in Seq(S), NEW i \in 1 .. Len(chan)
  PROVE  /\ RemoveAt(chan, i) \in Seq(S)
         /\ \A j \in 1 .. Len(RemoveAt(chan, i)) :
              \E k \in 1 .. Len(chan) : RemoveAt(chan, i)[j] = chan[k]
<1>. DEFINE r == RemoveAt(chan, i)
<1>1. /\ r \in Seq(S) /\ Len(r) = Len(chan) - 1
      /\ \A j \in 1 .. Len(chan) - 1 : r[j] = IF j < i THEN chan[j] ELSE chan[j + 1]
  BY RemoveAtElements
<1>. HIDE DEF r
<1>2. ASSUME NEW j \in 1 .. Len(r) PROVE \E k \in 1 .. Len(chan) : r[j] = chan[k]
  <2>1. j \in 1 .. Len(chan) - 1 /\ j \in 1 .. Len(chan) /\ j + 1 \in 1 .. Len(chan)
    BY <1>1
  <2>2. r[j] = chan[j] \/ r[j] = chan[j + 1]
    BY <1>1, <2>1
  <2>. QED
    BY <2>1, <2>2
<1>. QED
  BY <1>1, <1>2 DEF r

LEMMA WeightNat ==
  ASSUME NEW D, NEW data \in Seq(D), NEW flags
  PROVE  /\ Weight(flags, data) \in Nat
         /\ Len(data) <= Weight(flags, data)
         /\ flags \intersect {"SYN", "FIN"} # {} => Weight(flags, data) = Len(data) + 1
         /\ flags \intersect {"SYN", "FIN"} = {} => Weight(flags, data) = Len(data)
BY DEF Weight

\* Init establishes the invariant.
LEMMA InitInv == Init => IInv
<1>. SUFFICES ASSUME Init PROVE IInv
  OBVIOUS
<1>1. TypeOK /\ NetTyped
  BY DEF Init, TypeOK, NetTyped, PcbStates
<1>2. PeerSound /\ SegmentsSent /\ AcksSent /\ Handshake /\ Copying /\ Closed
  BY DEF Init, PeerSound, SegmentsSent, AcksSent, Handshake, Copying, Closed
<1>. QED
  BY <1>1, <1>2 DEF IInv

\* A segment of ours carries an acknowledgement of rcv_nxt, which the host has sent.
LEMMA SentTyped ==
  ASSUME IInv, NEW flags \in SUBSET {"SYN", "ACK", "FIN", "PSH"}, NEW data \in Seq(Nat),
         tcp_send_segment(flags, data), rcv_nxt' \in Nat, rcv_nxt' <= p_nxt
  PROVE  /\ snd_nxt' \in Nat
         /\ to_peer' \in Seq(Segments(Nat))
         /\ \A i \in 1 .. Len(to_peer') : to_peer'[i].ack <= p_nxt
<1>1. snd_nxt \in Nat /\ to_peer \in Seq(Segments(Nat)) /\ Weight(flags, data) \in Nat
  BY WeightNat DEF IInv, TypeOK, NetTyped
<1>. DEFINE m == Segment(flags, snd_nxt, rcv_nxt', data)
<1>2. m \in Segments(Nat) /\ m.ack = rcv_nxt'
  BY <1>1 DEF Segment, Segments
<1>3. to_peer' = Append(to_peer, m) /\ snd_nxt' = snd_nxt + Weight(flags, data)
  BY DEF tcp_send_segment
<1>. HIDE DEF m
<1>4. to_peer' \in Seq(Segments(Nat))
  BY <1>1, <1>2, <1>3
<1>5. \A i \in 1 .. Len(to_peer') : to_peer'[i].ack <= p_nxt
  <2>1. /\ Len(to_peer') = Len(to_peer) + 1 /\ to_peer'[Len(to_peer) + 1] = m
        /\ \A i \in 1 .. Len(to_peer) : to_peer'[i] = to_peer[i]
        /\ Len(to_peer) \in Nat
    BY <1>1, <1>2, <1>3, AppendProperties
  <2>2. ASSUME NEW i \in 1 .. Len(to_peer'), i \notin 1 .. Len(to_peer)
        PROVE  i = Len(to_peer) + 1
    BY <2>1, <2>2
  <2>3. \A i \in 1 .. Len(to_peer) : to_peer[i].ack <= p_nxt
    BY DEF IInv, AcksSent
  <2>. QED
    BY <2>1, <2>2, <2>3, <1>2, Zenon
<1>6. snd_nxt' \in Nat
  BY <1>1, <1>3
<1>. QED
  BY <1>4, <1>5, <1>6

\* Steps of the program that do not hear from the host.
LEMMA TaskStepInv ==
  ASSUME IInv, UNCHANGED <<peerVars, to_us, rcv_nxt>>,
         TypeOK', to_read' \in Nat,
         to_peer' \in Seq(Segments(Nat)),
         \A i \in 1 .. Len(to_peer') : to_peer'[i].ack <= p_nxt,
         Handshake', Copying', Closed'
  PROVE  IInv'
<1>1. NetTyped' /\ PeerSound'
  BY DEF IInv, NetTyped, PeerSound, peerVars
<1>2. SegmentsSent'
  BY DEF IInv, SegmentsSent, peerVars
<1>3. AcksSent'
  BY DEF IInv, AcksSent, peerVars
<1>. QED
  BY <1>1, <1>2, <1>3 DEF IInv

\* Those of them that send nothing.
LEMMA QuietStepInv ==
  ASSUME IInv, UNCHANGED <<peerVars, to_us, rcv_nxt, to_peer>>,
         TypeOK', to_read' \in Nat, Handshake', Copying', Closed'
  PROVE  IInv'
<1>1. /\ to_peer' \in Seq(Segments(Nat))
      /\ \A i \in 1 .. Len(to_peer') : to_peer'[i].ack <= p_nxt
  BY DEF IInv, NetTyped, AcksSent
<1>. QED
  BY <1>1, TaskStepInv

LEMMA CallStepInv == IInv /\ CallStep => IInv'
<1>. SUFFICES ASSUME IInv, CallStep PROVE IInv'
  OBVIOUS
<1>t. TypeOK /\ Handshake /\ Copying /\ Closed /\ to_read \in Nat
  BY DEF IInv, NetTyped
<1>1. CASE connect_syn
  <2>1. UNCHANGED <<peerVars, to_us, rcv_nxt, to_read>>
    BY <1>1 DEF connect_syn
  <2>2. TypeOK'
    BY <1>t, <1>1 DEF connect_syn, TypeOK, PcbStates, ISN, peerVars
  <2>3. Handshake' /\ Copying' /\ Closed'
    BY <1>t, <1>1 DEF connect_syn, Handshake, Copying, Closed, Program, peerVars
  <2>. DEFINE m == Segment({"SYN"}, ISN, rcv_nxt, <<>>)
  <2>4. m \in Segments(Nat) /\ m.ack = rcv_nxt
    BY <1>t DEF Segment, Segments, ISN, TypeOK
  <2>5. to_peer' = Append(to_peer, m) /\ to_peer \in Seq(Segments(Nat))
    BY <1>1 DEF connect_syn, IInv, NetTyped
  <2>. HIDE DEF m
  <2>6. /\ to_peer' \in Seq(Segments(Nat))
        /\ \A i \in 1 .. Len(to_peer') : to_peer'[i].ack <= p_nxt
    BY <2>4, <2>5 DEF IInv, AcksSent
  <2>. QED
    BY <1>t, <2>1, <2>2, <2>3, <2>6, TaskStepInv
<1>2. CASE connect_advance
  <2>1. UNCHANGED <<peerVars, to_us, rcv_nxt, to_peer, to_read>>
    BY <1>2 DEF connect_advance
  <2>2. TypeOK'
    BY <1>t, <1>2 DEF connect_advance, TypeOK, peerVars
  <2>3. Handshake' /\ Copying' /\ Closed'
    BY <1>t, <1>2 DEF connect_advance, Handshake, Copying, Closed, Program, peerVars
  <2>. QED
    BY <1>t, <2>1, <2>2, <2>3, QuietStepInv
<1>3. CASE connect_return
  <2>1. UNCHANGED <<peerVars, to_us, rcv_nxt, to_peer, to_read>>
    BY <1>3 DEF connect_return, pcbVars
  <2>2. TypeOK'
    BY <1>t, <1>3 DEF connect_return, ConnectResult, TypeOK, peerVars, pcbVars
  <2>3. Handshake' /\ Copying' /\ Closed'
    BY <1>t, <1>3 DEF connect_return, ConnectResult, Handshake, Copying, Closed, Program, peerVars,
                      pcbVars
  <2>. QED
    BY <1>t, <2>1, <2>2, <2>3, QuietStepInv
<1>4. CASE test
  <2>1. UNCHANGED <<peerVars, to_us, rcv_nxt, to_peer>> /\ to_read' \in Nat
    BY <1>t, <1>4 DEF test, pcbVars, TypeOK
  <2>2. TypeOK'
    BY <1>t, <1>4 DEF test, TypeOK, peerVars, pcbVars
  <2>3. Handshake' /\ Copying' /\ Closed'
    <3>1. Handshake' /\ Closed'
      BY <1>t, <1>4 DEF test, Ready, Handshake, Closed, peerVars, pcbVars
    <3>2. Copying'
      BY <1>t, <1>4 DEF test, Ready, Copying, TypeOK
    <3>. QED
      BY <3>1, <3>2
  <2>. QED
    BY <1>t, <2>1, <2>2, <2>3, QuietStepInv
<1>5. CASE set_waiting \/ set_sleep \/ schedule \/ dispatched
  <2>1. UNCHANGED <<peerVars, to_us, rcv_nxt, to_peer, to_read>>
    BY <1>5 DEF set_waiting, set_sleep, schedule, dispatched, pcbVars
  <2>2. TypeOK'
    BY <1>t, <1>5 DEF set_waiting, set_sleep, schedule, dispatched, TypeOK, peerVars, pcbVars
  <2>3. Handshake' /\ Copying' /\ Closed'
    BY <1>t, <1>5 DEF set_waiting, set_sleep, schedule, dispatched, Handshake, Copying, Closed,
                      peerVars, pcbVars
  <2>. QED
    BY <1>t, <2>1, <2>2, <2>3, QuietStepInv
<1>6. CASE accept_return
  <2>1. UNCHANGED <<peerVars, to_us, rcv_nxt, to_peer, to_read>>
    BY <1>6 DEF accept_return, pcbVars
  <2>2. TypeOK'
    BY <1>t, <1>6 DEF accept_return, TypeOK, peerVars, pcbVars
  <2>3. Handshake' /\ Copying' /\ Closed'
    BY <1>t, <1>6 DEF accept_return, Handshake, Copying, Closed, Program, peerVars, pcbVars
  <2>. QED
    BY <1>t, <2>1, <2>2, <2>3, QuietStepInv
<1>7. CASE recv_return
  <2>1. UNCHANGED <<peerVars, to_us, rcv_nxt, to_peer, to_read>>
    BY <1>7 DEF recv_return, pcbVars
  <2>2. /\ buffer' \in Seq(1 .. DATA) /\ Len(buffer') <= SOCKET_BUFFER_SIZE
        /\ received' \in Seq(1 .. DATA)
    <3>1. buffer \in Seq(1 .. DATA) /\ received \in Seq(1 .. DATA)
          /\ to_read <= Len(buffer) /\ Len(buffer) <= SOCKET_BUFFER_SIZE
      BY <1>t, <1>7 DEF TypeOK, Copying, recv_return, Program
    <3>2. PICK n : n = to_read
      OBVIOUS
    <3>3. n \in Nat /\ n <= Len(buffer) /\ Len(buffer) \in Nat
      BY <1>t, <3>1, <3>2 DEF NetTyped
    <3>4. /\ received' = received \o SubSeq(buffer, 1, n)
          /\ buffer' = SubSeq(buffer, n + 1, Len(buffer))
      BY <1>7, <3>2 DEF recv_return, Remaining
    <3>5. \A i \in 1 .. Len(buffer) : buffer[i] \in 1 .. DATA
      BY <3>1, ElementOfSeq
    <3>6. SubSeq(buffer, 1, n) \in Seq(1 .. DATA)
      <4>1. \A i \in 1 .. n : buffer[i] \in 1 .. DATA
        BY <3>3, <3>5
      <4>. QED
        BY <3>3, <4>1, SubSeqProperties
    <3>7. /\ SubSeq(buffer, n + 1, Len(buffer)) \in Seq(1 .. DATA)
          /\ Len(SubSeq(buffer, n + 1, Len(buffer))) =
               IF n + 1 <= Len(buffer) THEN Len(buffer) - (n + 1) + 1 ELSE 0
      <4>1. n + 1 \in Int /\ Len(buffer) \in Int
        BY <3>3
      <4>2. \A i \in n + 1 .. Len(buffer) : buffer[i] \in 1 .. DATA
        BY <3>3, <3>5
      <4>. QED
        BY <4>1, <4>2, SubSeqProperties
    <3>8. buffer' \in Seq(1 .. DATA)
      BY <3>4, <3>7
    <3>9. Len(buffer') <= SOCKET_BUFFER_SIZE
      <4>1. Len(buffer') = IF n + 1 <= Len(buffer) THEN Len(buffer) - (n + 1) + 1 ELSE 0
        BY <3>4, <3>7
      <4>. QED
        BY <3>1, <3>3, <4>1
    <3>10. received' \in Seq(1 .. DATA)
      <4>1. PICK a : a = SubSeq(buffer, 1, n)
        OBVIOUS
      <4>2. received' = received \o a /\ a \in Seq(1 .. DATA)
        BY <3>4, <3>6, <4>1
      <4>. QED
        BY <3>1, <4>2, ConcatProperties
    <3>. QED
      BY <3>8, <3>9, <3>10
  <2>3. TypeOK'
    BY <1>t, <1>7, <2>2 DEF recv_return, TypeOK, peerVars, pcbVars
  <2>4. Handshake' /\ Copying' /\ Closed'
    BY <1>t, <1>7 DEF recv_return, Handshake, Copying, Closed, Program, peerVars, pcbVars
  <2>. QED
    BY <1>t, <2>1, <2>3, <2>4, QuietStepInv
<1>. QED
  BY <1>1, <1>2, <1>3, <1>4, <1>5, <1>6, <1>7 DEF CallStep

LEMMA ProgramCallInv == IInv /\ ProgramCall => IInv'
<1>. SUFFICES ASSUME IInv, ProgramCall PROVE IInv'
  OBVIOUS
<1>t. TypeOK /\ Handshake /\ Copying /\ Closed /\ to_read \in Nat
  BY DEF IInv, NetTyped
<1>1. CASE connect \/ listen \/ accept
  <2>1. UNCHANGED <<peerVars, to_us, rcv_nxt, to_peer, to_read>>
    BY <1>1 DEF connect, listen, accept, pcbVars, taskVars
  <2>2. TypeOK'
    <3>1. CASE connect
      BY <1>t, <3>1 DEF connect, TypeOK, peerVars
    <3>2. CASE listen
      BY <1>t, <3>2 DEF listen, TypeOK, PcbStates, peerVars, taskVars
    <3>3. CASE accept
      BY <1>t, <3>3 DEF accept, TypeOK, peerVars, pcbVars
    <3>. QED
      BY <1>1, <3>1, <3>2, <3>3
  <2>3. Handshake' /\ Copying' /\ Closed'
    BY <1>t, <1>1 DEF connect, listen, accept, Handshake, Copying, Closed, Program, peerVars,
                      pcbVars, taskVars
  <2>. QED
    BY <1>t, <2>1, <2>2, <2>3, QuietStepInv
<1>2. ASSUME NEW n \in Lengths, recv(n) PROVE IInv'
  <2>1. UNCHANGED <<peerVars, to_us, rcv_nxt, to_peer>> /\ to_read' \in Nat
    BY <1>2 DEF recv, pcbVars
  <2>2. TypeOK'
    BY <1>t, <1>2 DEF recv, TypeOK, peerVars, pcbVars
  <2>3. Handshake' /\ Copying' /\ Closed'
    BY <1>t, <1>2 DEF recv, Handshake, Copying, Closed, Program, peerVars, pcbVars
  <2>. QED
    BY <1>t, <2>1, <2>2, <2>3, QuietStepInv
<1>3. CASE send
  <2>1. UNCHANGED <<peerVars, to_us, rcv_nxt, to_read>>
    BY <1>3 DEF send
  <2>2. rcv_nxt' \in Nat /\ rcv_nxt' <= p_nxt
    BY <1>t, <2>1 DEF TypeOK, IInv, AcksSent
  <2>3. /\ snd_nxt' \in Nat
        /\ to_peer' \in Seq(Segments(Nat))
        /\ \A i \in 1 .. Len(to_peer') : to_peer'[i].ack <= p_nxt
    <3>1. CASE pcb_state = "ESTABLISHED"
      <4>1. tcp_send_segment({"ACK", "PSH"}, <<0>>) /\ <<0>> \in Seq(Nat)
        BY <1>3, <3>1 DEF send
      <4>. QED
        BY <2>2, <4>1, SentTyped
    <3>2. CASE pcb_state # "ESTABLISHED"
      BY <1>t, <1>3, <3>2 DEF send, SendsNothing, TypeOK, IInv, NetTyped, AcksSent
    <3>. QED
      BY <3>1, <3>2
  <2>4. TypeOK'
    BY <1>t, <1>3, <2>1, <2>3 DEF send, TypeOK, peerVars
  <2>5. Handshake' /\ Copying' /\ Closed'
    BY <1>t, <1>3, <2>1 DEF send, Handshake, Copying, Closed, Program, peerVars
  <2>. QED
    BY <1>t, <2>1, <2>3, <2>4, <2>5, TaskStepInv
<1>4. CASE close
  <2>1. UNCHANGED <<peerVars, to_us, rcv_nxt, to_read>>
    BY <1>4 DEF close, taskVars
  <2>2. rcv_nxt' \in Nat /\ rcv_nxt' <= p_nxt
    BY <1>t, <2>1 DEF TypeOK, IInv, AcksSent
  <2>3. /\ snd_nxt' \in Nat
        /\ to_peer' \in Seq(Segments(Nat))
        /\ \A i \in 1 .. Len(to_peer') : to_peer'[i].ack <= p_nxt
    <3>1. CASE SendsFin
      <4>1. tcp_send_segment({"FIN", "ACK"}, <<>>) /\ <<>> \in Seq(Nat)
        BY <1>4, <3>1 DEF close
      <4>. QED
        BY <2>2, <4>1, SentTyped
    <3>2. CASE ~SendsFin
      BY <1>t, <1>4, <3>2 DEF close, SendsNothing, TypeOK, IInv, NetTyped, AcksSent
    <3>. QED
      BY <3>1, <3>2
  <2>4. pcb_state' \in PcbStates \ Open /\ pcb_state' # "ESTABLISHED"
    BY <1>4 DEF close, CloseState, PcbStates, Open
  <2>5. TypeOK'
    BY <1>t, <1>4, <2>1, <2>3, <2>4 DEF close, TypeOK, peerVars, taskVars
  <2>6. Handshake'
    BY <1>t, <1>4, <2>1, <2>4 DEF close, Handshake, Open, peerVars, taskVars
  <2>7. Copying' /\ Closed'
    BY <1>t, <1>4, <2>4 DEF close, Copying, Closed, Program, taskVars
  <2>. QED
    BY <1>t, <2>1, <2>3, <2>5, <2>6, <2>7, TaskStepInv
<1>. QED
  BY <1>1, <1>2, <1>3, <1>4 DEF ProgramCall

-----------------------------------------------------------------------------
\* A state of the PCB after a segment and before, the ring, and what is sent: for any
\* segment that the host has sent, tcp_input keeps to the following.  It also never
\* opens a closed PCB nor fills its ring, and takes it out of the table once.
InputSound ==
  /\ pcb_state' \in PcbStates
  /\ {snd_nxt', rcv_nxt'} \subseteq Nat
  /\ {in_table', waiting_task'} \subseteq {0, 1}
  /\ task_state' \in {"RUNNING", "READY", "SLEEP"}
  /\ buffer' \in Seq(1 .. DATA) /\ Len(buffer') \in Len(buffer) .. SOCKET_BUFFER_SIZE
  /\ to_peer' \in Seq(Segments(Nat))
  /\ \A i \in 1 .. Len(to_peer') : to_peer'[i].ack <= p_nxt
  /\ rcv_nxt' <= p_nxt
  /\ rcv_nxt > 0 => rcv_nxt' > 0
  /\ pcb_state' \in {"SYN_RECEIVED", "ESTABLISHED"} => rcv_nxt' > 0
  /\ pcb_state' = "ESTABLISHED" => p_rcv > 0
  /\ pcb_state \notin Open =>
       /\ pcb_state' \notin Open
       /\ buffer' = buffer
       /\ in_table' <= in_table

LEMMA TcpInputSound ==
  ASSUME IInv, NEW m \in Segments(1 .. DATA), tcp_input(m),
         m.seq + Weight(m.flags, m.data) <= p_nxt,
         "ACK" \in m.flags => p_rcv > 0
  PROVE  InputSound
<1>t. /\ TypeOK /\ Handshake
      /\ m.seq \in Nat /\ m.data \in Seq(1 .. DATA)
      /\ p_nxt \in Nat /\ rcv_nxt \in Nat /\ rcv_nxt <= p_nxt
      /\ <<>> \in Seq(Nat)
  BY DEF IInv, NetTyped, Segments, TypeOK, AcksSent
<1>w. /\ Weight(m.flags, m.data) \in Nat
      /\ Len(m.data) \in Nat
      /\ m.seq + Len(m.data) <= p_nxt
      /\ m.flags \intersect {"SYN", "FIN"} # {} => m.seq + 1 <= p_nxt
  BY <1>t, WeightNat
<1>a. ASSUME NEW n \in {1, Len(m.data)}, rcv_nxt' = m.seq + n, n > 0, m.seq + n <= p_nxt
      PROVE  rcv_nxt' \in Nat /\ rcv_nxt' <= p_nxt /\ rcv_nxt' > 0
  <2>1. m.seq \in Nat /\ p_nxt \in Nat /\ n \in Nat
    BY <1>t, <1>w
  <2>. QED
    BY <1>a, <2>1
<1>n. ASSUME SendsNothing, UNCHANGED rcv_nxt
      PROVE  /\ snd_nxt' \in Nat
             /\ to_peer' \in Seq(Segments(Nat))
             /\ \A i \in 1 .. Len(to_peer') : to_peer'[i].ack <= p_nxt
  BY <1>t, <1>n DEF SendsNothing, TypeOK, IInv, NetTyped, AcksSent
<1>k. ASSUME WakeTask \/ WakesNobody
      PROVE  waiting_task' \in {0, 1} /\ task_state' \in {"RUNNING", "READY", "SLEEP"}
  BY <1>t, <1>k DEF WakeTask, WakesNobody, TypeOK
<1>b. ASSUME UNCHANGED buffer
      PROVE  buffer' \in Seq(1 .. DATA) /\ Len(buffer') \in Len(buffer) .. SOCKET_BUFFER_SIZE
  BY <1>t, <1>b DEF TypeOK
<1>1. CASE in_listen(m)
  <2>1. /\ pcb_state = "LISTEN" /\ pcb_state' = "SYN_RECEIVED"
        /\ rcv_nxt' = m.seq + 1 /\ tcp_send_segment({"SYN", "ACK"}, <<>>)
        /\ WakesNobody /\ UNCHANGED <<in_table, buffer>>
        /\ m.flags \intersect {"SYN", "FIN"} # {}
    BY <1>1 DEF in_listen
  <2>2. rcv_nxt' \in Nat /\ rcv_nxt' <= p_nxt /\ rcv_nxt' > 0
    <3>1. m.seq + 1 <= p_nxt
      BY <1>w, <2>1, Zenon
    <3>. QED
      BY <1>a, <2>1, <3>1
  <2>3. /\ snd_nxt' \in Nat
        /\ to_peer' \in Seq(Segments(Nat))
        /\ \A i \in 1 .. Len(to_peer') : to_peer'[i].ack <= p_nxt
    BY <1>t, <2>1, <2>2, SentTyped
  <2>. QED
    BY <1>t, <1>k, <1>b, <2>1, <2>2, <2>3 DEF InputSound, PcbStates, Open, TypeOK
<1>2. CASE in_syn_sent(m)
  <2>1. /\ pcb_state = "SYN_SENT" /\ pcb_state' = "ESTABLISHED"
        /\ rcv_nxt' = m.seq + 1 /\ tcp_send_segment({"ACK"}, <<>>)
        /\ WakeTask /\ UNCHANGED <<in_table, buffer>>
        /\ m.flags \intersect {"SYN", "FIN"} # {} /\ p_rcv > 0
    BY <1>2 DEF in_syn_sent
  <2>2. rcv_nxt' \in Nat /\ rcv_nxt' <= p_nxt /\ rcv_nxt' > 0
    <3>1. m.seq + 1 <= p_nxt
      BY <1>w, <2>1, Zenon
    <3>. QED
      BY <1>a, <2>1, <3>1
  <2>3. /\ snd_nxt' \in Nat
        /\ to_peer' \in Seq(Segments(Nat))
        /\ \A i \in 1 .. Len(to_peer') : to_peer'[i].ack <= p_nxt
    BY <1>t, <2>1, <2>2, SentTyped
  <2>. QED
    BY <1>t, <1>k, <1>b, <2>1, <2>2, <2>3 DEF InputSound, PcbStates, Open, TypeOK
<1>3. CASE in_syn_received(m)
  <2>1. /\ pcb_state = "SYN_RECEIVED" /\ pcb_state' = "ESTABLISHED"
        /\ SendsNothing /\ WakesNobody /\ UNCHANGED <<rcv_nxt, in_table, buffer>>
        /\ p_rcv > 0
    BY <1>3 DEF in_syn_received
  <2>2. rcv_nxt > 0
    BY <1>t, <2>1 DEF Handshake
  <2>. QED
    BY <1>t, <1>n, <1>k, <1>b, <2>1, <2>2 DEF InputSound, PcbStates, Open, TypeOK
<1>4. CASE in_established_fin(m)
  <2>1. /\ pcb_state = "ESTABLISHED" /\ pcb_state' = "CLOSE_WAIT"
        /\ rcv_nxt' = m.seq + 1 /\ tcp_send_segment({"ACK"}, <<>>)
        /\ WakeTask /\ UNCHANGED <<in_table, buffer>>
        /\ m.flags \intersect {"SYN", "FIN"} # {}
    BY <1>4 DEF in_established_fin
  <2>2. rcv_nxt' \in Nat /\ rcv_nxt' <= p_nxt /\ rcv_nxt' > 0
    <3>1. m.seq + 1 <= p_nxt
      BY <1>w, <2>1, Zenon
    <3>. QED
      BY <1>a, <2>1, <3>1
  <2>3. /\ snd_nxt' \in Nat
        /\ to_peer' \in Seq(Segments(Nat))
        /\ \A i \in 1 .. Len(to_peer') : to_peer'[i].ack <= p_nxt
    BY <1>t, <2>1, <2>2, SentTyped
  <2>. QED
    BY <1>t, <1>k, <1>b, <2>1, <2>2, <2>3 DEF InputSound, PcbStates, Open, TypeOK
<1>5. CASE in_established_data(m)
  <2>1. /\ pcb_state = "ESTABLISHED" /\ pcb_state' = "ESTABLISHED"
        /\ m.data # <<>> /\ HasRoom(m) /\ buffer' = buffer \o m.data
        /\ rcv_nxt' = m.seq + Len(m.data) /\ tcp_send_segment({"ACK"}, <<>>)
        /\ WakeTask /\ UNCHANGED in_table
    BY <1>5 DEF in_established_data, Acked
  <2>2. rcv_nxt' \in Nat /\ rcv_nxt' <= p_nxt /\ rcv_nxt' > 0
    <3>1. Len(m.data) > 0
      BY <1>t, <2>1, EmptySeq
    <3>. QED
      BY <1>a, <1>w, <2>1, <3>1
  <2>3. /\ snd_nxt' \in Nat
        /\ to_peer' \in Seq(Segments(Nat))
        /\ \A i \in 1 .. Len(to_peer') : to_peer'[i].ack <= p_nxt
    BY <1>t, <2>1, <2>2, SentTyped
  <2>4. /\ buffer' \in Seq(1 .. DATA)
        /\ Len(buffer') \in Len(buffer) .. SOCKET_BUFFER_SIZE
    BY <1>t, <1>w, <2>1 DEF HasRoom, TypeOK
  <2>5. p_rcv > 0
    BY <1>t, <2>1 DEF Handshake
  <2>. QED
    BY <1>t, <1>k, <2>1, <2>2, <2>3, <2>4, <2>5 DEF InputSound, PcbStates, Open, TypeOK
<1>6. CASE in_fin_wait_1(m)
  <2>1. /\ pcb_state = "FIN_WAIT_1" /\ pcb_state' \in {"TIME_WAIT", "CLOSING", "FIN_WAIT_2"}
        /\ WakesNobody /\ UNCHANGED <<in_table, buffer>>
    BY <1>6 DEF in_fin_wait_1
  <2>2. CASE "FIN" \in m.flags
    <3>1. /\ rcv_nxt' = m.seq + 1 /\ tcp_send_segment({"ACK"}, <<>>)
          /\ m.flags \intersect {"SYN", "FIN"} # {}
      BY <1>6, <2>2 DEF in_fin_wait_1
    <3>2. rcv_nxt' \in Nat /\ rcv_nxt' <= p_nxt /\ rcv_nxt' > 0
      BY <1>t, <1>w, <3>1
    <3>3. /\ snd_nxt' \in Nat
          /\ to_peer' \in Seq(Segments(Nat))
          /\ \A i \in 1 .. Len(to_peer') : to_peer'[i].ack <= p_nxt
      BY <1>t, <3>1, <3>2, SentTyped
    <3>. QED
      BY <1>t, <1>k, <1>b, <2>1, <3>2, <3>3 DEF InputSound, PcbStates, Open, TypeOK
  <2>3. CASE "FIN" \notin m.flags
    <3>1. SendsNothing /\ UNCHANGED rcv_nxt
      BY <1>6, <2>3 DEF in_fin_wait_1
    <3>. QED
      BY <1>t, <1>n, <1>k, <1>b, <2>1, <3>1 DEF InputSound, PcbStates, Open, TypeOK
  <2>. QED
    BY <2>2, <2>3
<1>7. CASE in_fin_wait_2(m)
  <2>1. /\ pcb_state = "FIN_WAIT_2" /\ pcb_state' = "CLOSED" /\ in_table' = 0
        /\ rcv_nxt' = m.seq + 1 /\ tcp_send_segment({"ACK"}, <<>>)
        /\ WakesNobody /\ UNCHANGED buffer
        /\ m.flags \intersect {"SYN", "FIN"} # {}
    BY <1>7 DEF in_fin_wait_2, PcbFreed
  <2>2. rcv_nxt' \in Nat /\ rcv_nxt' <= p_nxt /\ rcv_nxt' > 0
    <3>1. m.seq + 1 <= p_nxt
      BY <1>w, <2>1, Zenon
    <3>. QED
      BY <1>a, <2>1, <3>1
  <2>3. /\ snd_nxt' \in Nat
        /\ to_peer' \in Seq(Segments(Nat))
        /\ \A i \in 1 .. Len(to_peer') : to_peer'[i].ack <= p_nxt
    BY <1>t, <2>1, <2>2, SentTyped
  <2>. QED
    BY <1>t, <1>k, <1>b, <2>1, <2>2, <2>3 DEF InputSound, PcbStates, Open, TypeOK
<1>8. CASE in_last_ack(m)
  <2>1. /\ pcb_state = "LAST_ACK" /\ pcb_state' = "CLOSED" /\ in_table' = 0
        /\ SendsNothing /\ WakesNobody /\ UNCHANGED <<rcv_nxt, buffer>>
    BY <1>8 DEF in_last_ack, PcbFreed
  <2>. QED
    BY <1>t, <1>n, <1>k, <1>b, <2>1 DEF InputSound, PcbStates, Open, TypeOK
<1>9. CASE in_ignored(m)
  <2>1. SendsNothing /\ WakesNobody /\ UNCHANGED <<pcb_state, rcv_nxt, in_table, buffer>>
    BY <1>9 DEF in_ignored
  <2>. QED
    BY <1>t, <1>n, <1>k, <1>b, <2>1 DEF InputSound, Open, TypeOK, Handshake
<1>. QED
  BY <1>1, <1>2, <1>3, <1>4, <1>5, <1>6, <1>7, <1>8, <1>9 DEF tcp_input

\* What the network hands over is a segment of the channel.
LEMMA DeliverableIn ==
  ASSUME NEW S, NEW chan \in Seq(S), NEW i \in Deliverable(chan)
  PROVE  i \in 1 .. Len(chan)
BY DEF Deliverable

\* Fewer segments on their way to us, or the same.
LEMMA UsShrinks ==
  ASSUME IInv, NEW i \in 1 .. Len(to_us), to_us' = RemoveAt(to_us, i), UNCHANGED peerVars
  PROVE  to_us' \in Seq(Segments(1 .. DATA)) /\ SegmentsSent'
<1>1. to_us \in Seq(Segments(1 .. DATA))
  BY DEF IInv, NetTyped
<1>2. /\ to_us' \in Seq(Segments(1 .. DATA))
      /\ \A j \in 1 .. Len(to_us') : \E k \in 1 .. Len(to_us) : to_us'[j] = to_us[k]
  <2>1. /\ RemoveAt(to_us, i) \in Seq(Segments(1 .. DATA))
        /\ \A j \in 1 .. Len(RemoveAt(to_us, i)) :
             \E k \in 1 .. Len(to_us) : RemoveAt(to_us, i)[j] = to_us[k]
    BY <1>1, RemovedFrom
  <2>. QED
    BY <2>1, Zenon
<1>3. SegmentsSent'
  BY <1>2 DEF IInv, SegmentsSent, peerVars
<1>. QED
  BY <1>2, <1>3

\* The network card's interrupt.
LEMMA NicInv == IInv /\ nic_irq => IInv' /\ InputSound
<1>. SUFFICES ASSUME IInv, nic_irq PROVE IInv' /\ InputSound
  OBVIOUS
<1>t. to_us \in Seq(Segments(1 .. DATA))
  BY DEF IInv, NetTyped
<1>1. PICK i \in Deliverable(to_us) : tcp_input(to_us[i]) /\ to_us' = RemoveAt(to_us, i)
  BY DEF nic_irq
<1>2. UNCHANGED <<in_use, taskVars, peerVars>>
  BY DEF nic_irq
<1>3. i \in 1 .. Len(to_us)
  BY <1>t, DeliverableIn
<1>4. InputSound
  <2>1. /\ to_us[i] \in Segments(1 .. DATA)
        /\ to_us[i].seq + Weight(to_us[i].flags, to_us[i].data) <= p_nxt
        /\ "ACK" \in to_us[i].flags => p_rcv > 0
    BY <1>t, <1>3 DEF IInv, SegmentsSent
  <2>. QED
    BY <1>1, <2>1, TcpInputSound
<1>5. to_us' \in Seq(Segments(1 .. DATA)) /\ SegmentsSent'
  BY <1>1, <1>2, <1>3, UsShrinks
<1>6. TypeOK'
  BY <1>2, <1>4 DEF IInv, TypeOK, InputSound, taskVars, peerVars
<1>7. NetTyped' /\ PeerSound'
  BY <1>2, <1>4, <1>5 DEF IInv, NetTyped, PeerSound, InputSound, taskVars, peerVars
<1>8. AcksSent'
  BY <1>2, <1>4 DEF InputSound, AcksSent, peerVars
<1>9. Handshake'
  BY <1>2, <1>4 DEF IInv, InputSound, Handshake, taskVars, peerVars
<1>10. Copying'
  <2>1. UNCHANGED <<pc, call, to_read>>
    BY <1>2 DEF taskVars
  <2>2. to_read \in Nat /\ Len(buffer) \in Nat /\ Copying
    BY LenProperties DEF IInv, TypeOK, NetTyped
  <2>3. Len(buffer') \in Nat /\ Len(buffer) <= Len(buffer')
    BY <1>4, <2>2, LenProperties DEF InputSound
  <2>. QED
    BY <2>1, <2>2, <2>3 DEF Copying
<1>11. Closed'
  BY <1>2, <1>4 DEF IInv, InputSound, Closed, taskVars
<1>. QED
  BY <1>4, <1>5, <1>6, <1>7, <1>8, <1>9, <1>10, <1>11 DEF IInv

-----------------------------------------------------------------------------
\* A segment m of the host that leaves it in the step.
Honest(m) ==
  /\ m \in Segments(1 .. DATA)
  /\ m.seq + Weight(m.flags, m.data) <= p_nxt'
  /\ "ACK" \in m.flags => p_rcv' > 0

\* What the host had sent before the step it has still sent after it.
LEMMA StillSent ==
  ASSUME IInv, NEW i \in 1 .. Len(to_us), p_nxt' \in Nat, p_nxt <= p_nxt',
         p_rcv > 0 => p_rcv' > 0
  PROVE  /\ to_us[i].seq + Weight(to_us[i].flags, to_us[i].data) <= p_nxt'
         /\ "ACK" \in to_us[i].flags => p_rcv' > 0
<1>1. to_us[i] \in Segments(1 .. DATA) /\ p_nxt \in Nat
  BY DEF IInv, NetTyped, TypeOK
<1>2. to_us[i].seq \in Nat /\ Weight(to_us[i].flags, to_us[i].data) \in Nat
  <2>1. to_us[i].seq \in Nat /\ to_us[i].data \in Seq(1 .. DATA)
    BY <1>1 DEF Segments
  <2>. QED
    BY <2>1, WeightNat
<1>3. PICK a \in Nat, b \in Nat :
        a = to_us[i].seq /\ b = Weight(to_us[i].flags, to_us[i].data)
  BY <1>2, Zenon
<1>4. /\ to_us[i].seq + Weight(to_us[i].flags, to_us[i].data) <= p_nxt
      /\ "ACK" \in to_us[i].flags => p_rcv > 0
  BY DEF IInv, SegmentsSent
<1>5. a + b <= p_nxt'
  BY <1>1, <1>3, <1>4
<1>. QED
  BY <1>3, <1>4, <1>5, Zenon

\* Steps of the host and of the network that do not reach us.
LEMMA PeerStepInv ==
  ASSUME IInv, UNCHANGED <<pcbVars, in_use, buffer, waiting_task, task_state, taskVars>>,
         {p_nxt', p_una', p_rcv'} \subseteq Nat, p_fin' \in {0, 1},
         p_state' \in {"CLOSED", "SYN_SENT", "SYN_RCVD", "ESTABLISHED"},
         PeerSound', p_nxt <= p_nxt', p_rcv > 0 => p_rcv' > 0,
         to_peer' \in Seq(Segments(Nat)),
         \A j \in 1 .. Len(to_peer') : \E k \in 1 .. Len(to_peer) : to_peer'[j] = to_peer[k],
         to_us' = to_us \/ \E m : to_us' = Append(to_us, m) /\ Honest(m)
  PROVE  IInv'
<1>t. /\ to_us \in Seq(Segments(1 .. DATA)) /\ to_peer \in Seq(Segments(Nat))
      /\ p_nxt \in Nat /\ p_rcv \in Nat /\ rcv_nxt \in Nat
  BY DEF IInv, NetTyped, TypeOK
<1>v. ASSUME NEW k \in 1 .. Len(to_peer) PROVE to_peer[k].ack \in Nat
  <2>1. to_peer[k] \in Segments(Nat)
    BY <1>t
  <2>. QED
    BY <2>1 DEF Segments
<1>1. TypeOK'
  BY DEF IInv, TypeOK, pcbVars, taskVars
<1>2. to_us' \in Seq(Segments(1 .. DATA)) /\ SegmentsSent'
  <2>1. CASE to_us' = to_us
    <3>1. ASSUME NEW i \in 1 .. Len(to_us)
          PROVE  /\ to_us[i].seq + Weight(to_us[i].flags, to_us[i].data) <= p_nxt'
                 /\ "ACK" \in to_us[i].flags => p_rcv' > 0
      BY <3>1, StillSent
    <3>. QED
      BY <1>t, <2>1, <3>1 DEF SegmentsSent
  <2>2. ASSUME NEW m, to_us' = Append(to_us, m), Honest(m)
        PROVE  to_us' \in Seq(Segments(1 .. DATA)) /\ SegmentsSent'
    <3>1. m \in Segments(1 .. DATA)
      BY <2>2 DEF Honest
    <3>2. /\ to_us' \in Seq(Segments(1 .. DATA)) /\ Len(to_us') = Len(to_us) + 1
          /\ Len(to_us) \in Nat /\ to_us'[Len(to_us) + 1] = m
          /\ \A i \in 1 .. Len(to_us) : to_us'[i] = to_us[i]
      <4>1. to_us \in Seq(Segments(1 .. DATA))
        BY <1>t
      <4>. QED
        BY <4>1, <2>2, <3>1, AppendProperties, LenProperties
    <3>3. ASSUME NEW i \in 1 .. Len(to_us')
          PROVE  /\ to_us'[i].seq + Weight(to_us'[i].flags, to_us'[i].data) <= p_nxt'
                 /\ "ACK" \in to_us'[i].flags => p_rcv' > 0
      <4>1. CASE i = Len(to_us) + 1
        <5>1. to_us'[i] = m
          BY <3>2, <4>1
        <5>. QED
          BY <2>2, <5>1 DEF Honest
      <4>2. CASE i # Len(to_us) + 1
        <5>1. i \in 1 .. Len(to_us) /\ to_us'[i] = to_us[i]
          <6>1. i \in 1 .. Len(to_us)
            BY <3>2, <4>2
          <6>. QED
            BY <3>2, <6>1
        <5>2. /\ to_us[i].seq + Weight(to_us[i].flags, to_us[i].data) <= p_nxt'
              /\ "ACK" \in to_us[i].flags => p_rcv' > 0
          BY <5>1, StillSent
        <5>. QED
          BY <5>1, <5>2, Zenon
      <4>. QED
        BY <4>1, <4>2
    <3>. QED
      BY <3>2, <3>3 DEF SegmentsSent, Weight
  <2>. QED
    BY <2>1, <2>2
<1>3. NetTyped'
  BY <1>2 DEF IInv, NetTyped, taskVars
<1>4. AcksSent'
  <2>1. rcv_nxt' <= p_nxt'
    BY <1>t DEF IInv, AcksSent, pcbVars
  <2>2. ASSUME NEW j \in 1 .. Len(to_peer') PROVE to_peer'[j].ack <= p_nxt'
    <3>1. PICK k \in 1 .. Len(to_peer) : to_peer'[j] = to_peer[k]
      OBVIOUS
    <3>2. to_peer[k].ack <= p_nxt /\ to_peer[k].ack \in Nat
      BY <1>v DEF IInv, AcksSent
    <3>3. p_nxt \in Nat /\ p_nxt' \in Nat /\ p_nxt <= p_nxt'
      BY <1>t
    <3>4. to_peer[k].ack <= p_nxt'
      BY <3>2, <3>3
    <3>. QED
      BY <3>1, <3>4
  <2>. QED
    BY <2>1, <2>2 DEF AcksSent
<1>5. Handshake' /\ Copying' /\ Closed'
  BY DEF IInv, Handshake, Copying, Closed, pcbVars, taskVars
<1>. QED
  BY <1>1, <1>2, <1>3, <1>4, <1>5 DEF IInv

\* An answer of the host: an acknowledgement of its own, or with its SYN or FIN.
LEMMA AnswerHonest ==
  ASSUME NEW flags \in SUBSET {"SYN", "ACK", "FIN", "PSH"}, NEW seq \in Nat,
         NEW data \in Seq(1 .. DATA), PeerSends(flags, seq, data),
         p_rcv' \in Nat, seq + Weight(flags, data) <= p_nxt', "ACK" \in flags => p_rcv' > 0
  PROVE  \E m : to_us' = Append(to_us, m) /\ Honest(m)
<1>. DEFINE m == Segment(flags, seq, p_rcv', data)
<1>1. to_us' = Append(to_us, m)
  BY DEF PeerSends
<1>2. /\ m \in Segments(1 .. DATA)
      /\ m.flags = flags /\ m.seq = seq /\ m.data = data
  BY DEF Segment, Segments
<1>. HIDE DEF m
<1>3. Honest(m)
  BY <1>2 DEF Honest
<1>. QED
  BY <1>1, <1>3

\* What the host does with a segment of ours, to its own variables and to the channel.
LEMMA PeerHandlesSound ==
  ASSUME IInv, NEW m \in Segments(Nat), PeerHandles(m)
  PROVE  /\ {p_nxt', p_una', p_rcv'} \subseteq Nat /\ p_fin' \in {0, 1}
         /\ p_state' \in {"CLOSED", "SYN_SENT", "SYN_RCVD", "ESTABLISHED"}
         /\ PeerSound' /\ p_nxt <= p_nxt' /\ (p_rcv > 0 => p_rcv' > 0)
         /\ to_us' = to_us \/ \E n : to_us' = Append(to_us, n) /\ Honest(n)
<1>t. /\ p_nxt \in Nat /\ p_una \in Nat /\ p_rcv \in Nat /\ p_fin \in {0, 1}
      /\ p_state \in {"CLOSED", "SYN_SENT", "SYN_RCVD", "ESTABLISHED"}
      /\ PeerSound
      /\ <<>> \in Seq(1 .. DATA)
  BY DEF IInv, NetTyped, TypeOK
<1>m. /\ m.seq \in Nat /\ m.ack \in Nat /\ m.data \in Seq(Nat)
      /\ Weight(m.flags, m.data) \in Nat
  <2>1. m.seq \in Nat /\ m.ack \in Nat /\ m.data \in Seq(Nat)
    BY DEF Segments
  <2>. QED
    BY <2>1, WeightNat
<1>w. Weight({"ACK"}, <<>>) = 0 /\ Weight({"SYN", "ACK"}, <<>>) = 1
      /\ Weight({"FIN", "ACK"}, <<>>) = 1
  BY DEF Weight
<1>1. CASE /\ p_state = "CLOSED" /\ m.flags = {"SYN"}
           /\ p_state' = "SYN_RCVD" /\ p_nxt' = 1 /\ p_rcv' = m.seq + 1
           /\ PeerSends({"SYN", "ACK"}, 0, <<>>) /\ UNCHANGED <<p_una, p_fin>>
  <2>1. 0 + Weight({"SYN", "ACK"}, <<>>) <= p_nxt' /\ p_rcv' \in Nat /\ p_rcv' > 0
    BY <1>m, <1>w, <1>1
  <2>2. \E n : to_us' = Append(to_us, n) /\ Honest(n)
    BY <1>t, <1>1, <2>1, AnswerHonest
  <2>. QED
    BY <1>t, <1>m, <1>1, <2>2 DEF PeerSound
<1>2. CASE /\ p_state = "SYN_SENT" /\ m.flags = {"SYN", "ACK"} /\ m.ack = 1
           /\ p_state' = "ESTABLISHED" /\ p_una' = 1 /\ p_rcv' = m.seq + 1
           /\ PeerSends({"ACK"}, p_nxt, <<>>) /\ UNCHANGED <<p_nxt, p_fin>>
  <2>1. p_nxt + Weight({"ACK"}, <<>>) <= p_nxt' /\ p_rcv' \in Nat /\ p_rcv' > 0
    BY <1>t, <1>m, <1>w, <1>2
  <2>2. \E n : to_us' = Append(to_us, n) /\ Honest(n)
    <3>1. p_nxt \in Nat /\ <<>> \in Seq(1 .. DATA) /\ PeerSends({"ACK"}, p_nxt, <<>>)
      BY <1>t, <1>2
    <3>. QED
      BY <2>1, <3>1, AnswerHonest
  <2>3. /\ p_nxt' \in Nat /\ p_una' \in Nat /\ p_rcv' \in Nat /\ p_fin' \in {0, 1}
        /\ p_nxt <= p_nxt' /\ p_rcv' > 0
    BY <1>t, <1>2, <2>1
  <2>4. PeerSound'
    BY <1>t, <1>2, <2>1 DEF PeerSound
  <2>. QED
    BY <1>2, <2>2, <2>3, <2>4
<1>3. CASE /\ p_state \in {"SYN_RCVD", "ESTABLISHED"} /\ m.seq = p_rcv /\ "SYN" \notin m.flags
           /\ p_state' = IF m.ack >= 1 THEN "ESTABLISHED" ELSE p_state
           /\ p_una' = PeerAcked(m)
           /\ p_rcv' = m.seq + Weight(m.flags, m.data)
           /\ \/ /\ p_rcv' = p_rcv /\ UNCHANGED <<to_us, p_nxt, p_fin>>
              \/ /\ p_rcv' # p_rcv /\ PeerSends({"ACK"}, p_nxt, <<>>)
                 /\ UNCHANGED <<p_nxt, p_fin>>
              \/ /\ "FIN" \in m.flags /\ p_fin = 0 /\ p_nxt = DATA + 1
                 /\ PeerSends({"FIN", "ACK"}, p_nxt, <<>>)
                 /\ p_nxt' = p_nxt + 1 /\ p_fin' = 1
  <2>1. /\ p_state' \in {"SYN_RCVD", "ESTABLISHED"}
        /\ p_una' \in Nat /\ p_rcv' \in Nat /\ p_rcv' > 0
        /\ p_nxt' \in Nat /\ p_nxt' > 0 /\ p_nxt <= p_nxt' /\ p_fin' \in {0, 1}
    <3>1. p_state' \in {"SYN_RCVD", "ESTABLISHED"}
      BY <1>3
    <3>2. p_una' \in Nat
      BY <1>t, <1>m, <1>3 DEF PeerAcked
    <3>3. p_nxt > 0 /\ p_rcv > 0
      BY <1>t, <1>3 DEF PeerSound
    <3>4. p_rcv' \in Nat /\ p_rcv' > 0
      <4>1. p_rcv' = p_rcv + Weight(m.flags, m.data)
        BY <1>3
      <4>. QED
        BY <1>t, <1>m, <3>3, <4>1
    <3>5. (p_nxt' = p_nxt /\ p_fin' = p_fin) \/ (p_nxt' = p_nxt + 1 /\ p_fin' = 1)
      BY <1>3
    <3>6. p_nxt' \in Nat /\ p_nxt' > 0 /\ p_nxt <= p_nxt' /\ p_fin' \in {0, 1}
      BY <1>t, <3>3, <3>5
    <3>. QED
      BY <3>1, <3>2, <3>4, <3>6
  <2>2. PeerSound'
    BY <2>1 DEF PeerSound
  <2>3. to_us' = to_us \/ \E n : to_us' = Append(to_us, n) /\ Honest(n)
    <3>1. CASE UNCHANGED to_us
      BY <3>1
    <3>2. CASE PeerSends({"ACK"}, p_nxt, <<>>) /\ UNCHANGED p_nxt
      <4>1. p_nxt + Weight({"ACK"}, <<>>) <= p_nxt'
        BY <1>t, <1>w, <3>2
      <4>. QED
        BY <1>t, <2>1, <3>2, <4>1, AnswerHonest
    <3>3. CASE PeerSends({"FIN", "ACK"}, p_nxt, <<>>) /\ p_nxt' = p_nxt + 1
      <4>1. p_nxt + Weight({"FIN", "ACK"}, <<>>) <= p_nxt'
        BY <1>t, <1>w, <3>3
      <4>. QED
        BY <1>t, <2>1, <3>3, <4>1, AnswerHonest
    <3>. QED
      BY <1>3, <3>1, <3>2, <3>3
  <2>. QED
    BY <2>1, <2>2, <2>3
<1>4. CASE /\ p_state \in {"SYN_RCVD", "ESTABLISHED"}
           /\ UNCHANGED peerVars
           /\ PeerSends({"ACK"}, p_nxt, <<>>)
  <2>1. p_nxt + Weight({"ACK"}, <<>>) <= p_nxt' /\ p_rcv' \in Nat /\ p_rcv' > 0
    BY <1>t, <1>w, <1>4 DEF peerVars, PeerSound
  <2>2. \E n : to_us' = Append(to_us, n) /\ Honest(n)
    BY <1>t, <1>4, <2>1, AnswerHonest
  <2>. QED
    BY <1>t, <1>4, <2>2 DEF PeerSound, peerVars
<1>5. CASE UNCHANGED <<peerVars, to_us>>
  BY <1>t, <1>5 DEF PeerSound, peerVars
<1>. QED
  BY <1>1, <1>2, <1>3, <1>4, <1>5 DEF PeerHandles

LEMMA PeerInputInv == IInv /\ peer_input => IInv'
<1>. SUFFICES ASSUME IInv, peer_input PROVE IInv'
  OBVIOUS
<1>t. to_peer \in Seq(Segments(Nat))
  BY DEF IInv, NetTyped
<1>1. PICK i \in Deliverable(to_peer) :
        PeerHandles(to_peer[i]) /\ to_peer' = RemoveAt(to_peer, i)
  BY DEF peer_input
<1>2. UNCHANGED <<pcbVars, in_use, buffer, waiting_task, task_state, taskVars>>
  BY DEF peer_input
<1>3. i \in 1 .. Len(to_peer) /\ to_peer[i] \in Segments(Nat)
  BY <1>t, DeliverableIn
<1>4. /\ to_peer' \in Seq(Segments(Nat))
      /\ \A j \in 1 .. Len(to_peer') : \E k \in 1 .. Len(to_peer) : to_peer'[j] = to_peer[k]
  <2>1. /\ RemoveAt(to_peer, i) \in Seq(Segments(Nat))
        /\ \A j \in 1 .. Len(RemoveAt(to_peer, i)) :
             \E k \in 1 .. Len(to_peer) : RemoveAt(to_peer, i)[j] = to_peer[k]
    BY <1>t, <1>3, RemovedFrom
  <2>. QED
    BY <1>1, <2>1
<1>. QED
  BY <1>1, <1>2, <1>3, <1>4, PeerHandlesSound, PeerStepInv

\* The host opens, sends data or its FIN, or sends again what was not acknowledged.
LEMMA PeerSendInv == IInv /\ (peer_open \/ peer_data \/ peer_fin \/ peer_again) => IInv'
<1>. SUFFICES ASSUME IInv, peer_open \/ peer_data \/ peer_fin \/ peer_again PROVE IInv'
  OBVIOUS
<1>t. /\ p_nxt \in Nat /\ p_una \in Nat /\ p_rcv \in Nat /\ p_fin \in {0, 1}
      /\ p_state \in {"CLOSED", "SYN_SENT", "SYN_RCVD", "ESTABLISHED"}
      /\ PeerSound
      /\ to_peer \in Seq(Segments(Nat))
      /\ <<>> \in Seq(1 .. DATA)
  BY DEF IInv, NetTyped, TypeOK
<1>1. /\ UNCHANGED <<pcbVars, in_use, buffer, waiting_task, task_state, taskVars>>
      /\ to_peer' = to_peer
  BY DEF peer_open, peer_data, peer_fin, peer_again
<1>2. \A j \in 1 .. Len(to_peer') : \E k \in 1 .. Len(to_peer) : to_peer'[j] = to_peer[k]
  BY <1>1
<1>w. /\ Weight({"ACK"}, <<>>) = 0 /\ Weight({"SYN"}, <<>>) = 1
      /\ Weight({"SYN", "ACK"}, <<>>) = 1 /\ Weight({"FIN", "ACK"}, <<>>) = 1
  BY DEF Weight
<1>d. ASSUME NEW n \in 1 .. DATA
      PROVE  <<n>> \in Seq(1 .. DATA) /\ Weight({"ACK"}, <<n>>) = 1
  BY DEF Weight
<1>3. CASE peer_open
  <2>1. /\ p_state' = "SYN_SENT" /\ p_nxt' = 1 /\ UNCHANGED <<p_una, p_rcv, p_fin>>
        /\ p_state = "CLOSED" /\ PeerSends({"SYN"}, 0, <<>>)
    BY <1>3 DEF peer_open
  <2>2. PeerSound' /\ p_nxt <= p_nxt'
    BY <1>t, <2>1 DEF PeerSound
  <2>3. \E m : to_us' = Append(to_us, m) /\ Honest(m)
    <3>1. 0 + Weight({"SYN"}, <<>>) <= p_nxt'
      BY <1>w, <2>1
    <3>. QED
      BY <1>t, <2>1, <3>1, AnswerHonest
  <2>. QED
    BY <1>t, <1>1, <1>2, <2>1, <2>2, <2>3, PeerStepInv
<1>4. CASE peer_data
  <2>1. /\ UNCHANGED <<p_state, p_una, p_rcv, p_fin>> /\ p_nxt' = p_nxt + 1
        /\ p_state = "ESTABLISHED" /\ p_nxt <= DATA /\ PeerSends({"ACK"}, p_nxt, <<p_nxt>>)
    BY <1>t, <1>4 DEF peer_data
  <2>2. p_rcv > 0 /\ PeerSound' /\ p_nxt <= p_nxt'
    BY <1>t, <2>1 DEF PeerSound
  <2>3. \E m : to_us' = Append(to_us, m) /\ Honest(m)
    <3>1. p_nxt \in 1 .. DATA
      BY <1>t, <2>1 DEF PeerSound
    <3>2. p_nxt + Weight({"ACK"}, <<p_nxt>>) <= p_nxt' /\ <<p_nxt>> \in Seq(1 .. DATA)
      BY <1>t, <1>d, <2>1, <3>1
    <3>. QED
      BY <1>t, <2>1, <2>2, <3>2, AnswerHonest
  <2>. QED
    BY <1>t, <1>1, <1>2, <2>1, <2>2, <2>3, PeerStepInv
<1>5. CASE peer_fin
  <2>1. /\ UNCHANGED <<p_state, p_una, p_rcv>> /\ p_nxt' = p_nxt + 1 /\ p_fin' = 1
        /\ p_state = "ESTABLISHED" /\ PeerSends({"FIN", "ACK"}, p_nxt, <<>>)
    BY <1>5 DEF peer_fin
  <2>2. p_rcv > 0 /\ PeerSound' /\ p_nxt <= p_nxt'
    BY <1>t, <2>1 DEF PeerSound
  <2>3. \E m : to_us' = Append(to_us, m) /\ Honest(m)
    <3>1. p_nxt + Weight({"FIN", "ACK"}, <<>>) <= p_nxt'
      BY <1>t, <1>w, <2>1
    <3>. QED
      BY <1>t, <2>1, <2>2, <3>1, AnswerHonest
  <2>. QED
    BY <1>t, <1>1, <1>2, <2>1, <2>2, <2>3, PeerStepInv
<1>6. CASE peer_again
  <2>. DEFINE flags == CASE p_una = 0 /\ p_state = "SYN_SENT" -> {"SYN"}
                         [] p_una = 0 /\ p_state # "SYN_SENT" -> {"SYN", "ACK"}
                         [] p_una = DATA + 1                  -> {"FIN", "ACK"}
                         [] OTHER                             -> {"ACK"}
              data == IF p_una \in 1 .. DATA THEN <<p_una>> ELSE <<>>
  <2>1. UNCHANGED peerVars /\ PeerSends(flags, p_una, data) /\ p_nxt > p_una
    BY <1>6 DEF peer_again
  <2>2. PeerSound' /\ UNCHANGED <<p_state, p_nxt, p_una, p_rcv, p_fin>>
    BY <1>t, <2>1 DEF PeerSound, peerVars
  <2>3. /\ flags \in SUBSET {"SYN", "ACK", "FIN", "PSH"}
        /\ data \in Seq(1 .. DATA)
        /\ Weight(flags, data) \in {0, 1}
        /\ "ACK" \in flags => p_rcv > 0
    <3>1. CASE p_una = 0 /\ p_state = "SYN_SENT"
      <4>1. flags = {"SYN"} /\ data = <<>>
        BY <3>1
      <4>. QED
        BY <1>t, <1>w, <4>1
    <3>2. CASE p_una = 0 /\ p_state # "SYN_SENT"
      <4>1. flags = {"SYN", "ACK"} /\ data = <<>>
        BY <3>2
      <4>2. p_rcv > 0
        BY <1>t, <2>1, <3>2 DEF PeerSound
      <4>. QED
        BY <1>t, <1>w, <4>1, <4>2
    <3>3. CASE p_una = DATA + 1
      <4>1. flags = {"FIN", "ACK"} /\ data = <<>>
        BY <3>3
      <4>2. p_rcv > 0
        BY <1>t, <3>3 DEF PeerSound
      <4>. QED
        BY <1>t, <1>w, <4>1, <4>2
    <3>4. CASE p_una # 0 /\ p_una # DATA + 1
      <4>1. flags = {"ACK"}
        BY <3>4
      <4>2. p_rcv > 0
        BY <1>t, <3>4 DEF PeerSound
      <4>3. data \in Seq(1 .. DATA) /\ Weight({"ACK"}, data) \in {0, 1}
        BY <1>t, <1>w, <1>d
      <4>. QED
        BY <4>1, <4>2, <4>3
    <3>. QED
      BY <3>1, <3>2, <3>3, <3>4
  <2>. HIDE DEF flags, data
  <2>4. \E m : to_us' = Append(to_us, m) /\ Honest(m)
    <3>1. p_una + Weight(flags, data) <= p_nxt'
      BY <1>t, <2>1, <2>2, <2>3
    <3>. QED
      BY <1>t, <2>1, <2>2, <2>3, <3>1, AnswerHonest
  <2>. QED
    BY <1>t, <1>1, <1>2, <2>2, <2>4, PeerStepInv
<1>. QED
  BY <1>3, <1>4, <1>5, <1>6

\* The network delivers a segment twice or loses it.
LEMMA NetworkInv == IInv /\ (duplicate \/ lose) => IInv'
<1>. SUFFICES ASSUME IInv, duplicate \/ lose PROVE IInv'
  OBVIOUS
<1>t. /\ to_us \in Seq(Segments(1 .. DATA)) /\ to_peer \in Seq(Segments(Nat))
      /\ {p_nxt, p_una, p_rcv} \subseteq Nat /\ p_fin \in {0, 1}
      /\ p_state \in {"CLOSED", "SYN_SENT", "SYN_RCVD", "ESTABLISHED"}
      /\ PeerSound
  BY DEF IInv, NetTyped, TypeOK
<1>1. UNCHANGED <<pcbVars, in_use, buffer, waiting_task, task_state, taskVars, peerVars>>
  BY DEF duplicate, lose
<1>2. /\ {p_nxt', p_una', p_rcv'} \subseteq Nat /\ p_fin' \in {0, 1}
      /\ p_state' \in {"CLOSED", "SYN_SENT", "SYN_RCVD", "ESTABLISHED"}
      /\ PeerSound' /\ p_nxt <= p_nxt' /\ (p_rcv > 0 => p_rcv' > 0)
  BY <1>t, <1>1 DEF PeerSound, peerVars
<1>3. ASSUME NEW i \in 1 .. Len(to_us), to_us' = Append(to_us, to_us[i]), UNCHANGED to_peer
      PROVE  IInv'
  <2>1. Honest(to_us[i])
    BY <1>t, <1>1, <1>3 DEF Honest, IInv, SegmentsSent, peerVars
  <2>2. /\ to_peer' \in Seq(Segments(Nat))
        /\ \A j \in 1 .. Len(to_peer') : \E k \in 1 .. Len(to_peer) : to_peer'[j] = to_peer[k]
    BY <1>t, <1>3
  <2>. QED
    BY <1>1, <1>2, <1>3, <2>1, <2>2, PeerStepInv
<1>4. ASSUME NEW i \in 1 .. Len(to_peer), to_peer' = Append(to_peer, to_peer[i]),
             UNCHANGED to_us
      PROVE  IInv'
  <2>1. to_peer[i] \in Segments(Nat)
    BY <1>t
  <2>2. /\ to_peer' \in Seq(Segments(Nat))
        /\ \A j \in 1 .. Len(to_peer') : \E k \in 1 .. Len(to_peer) : to_peer'[j] = to_peer[k]
    <3>1. /\ to_peer' \in Seq(Segments(Nat)) /\ Len(to_peer') = Len(to_peer) + 1
          /\ Len(to_peer) \in Nat /\ to_peer'[Len(to_peer) + 1] = to_peer[i]
          /\ \A j \in 1 .. Len(to_peer) : to_peer'[j] = to_peer[j]
      <4>1. to_peer \in Seq(Segments(Nat))
        BY <1>t
      <4>. QED
        BY <4>1, <1>4, <2>1, AppendProperties, LenProperties
    <3>2. ASSUME NEW j \in 1 .. Len(to_peer')
          PROVE  \E k \in 1 .. Len(to_peer) : to_peer'[j] = to_peer[k]
      <4>1. j \in 1 .. Len(to_peer) \/ j = Len(to_peer) + 1
        BY <3>1
      <4>2. CASE j \in 1 .. Len(to_peer)
        BY <3>1, <4>2
      <4>3. CASE j = Len(to_peer) + 1
        BY <3>1, <1>4, <4>3
      <4>. QED
        BY <4>1, <4>2, <4>3
    <3>. QED
      BY <3>1, <3>2
  <2>. QED
    BY <1>1, <1>2, <1>4, <2>2, PeerStepInv
<1>5. ASSUME NEW i \in 1 .. Len(to_us), to_us' = RemoveAt(to_us, i), UNCHANGED to_peer
      PROVE  IInv'
  <2>1. to_us' \in Seq(Segments(1 .. DATA)) /\ SegmentsSent'
    BY <1>1, <1>5, UsShrinks
  <2>2. TypeOK' /\ NetTyped' /\ PeerSound'
    BY <1>1, <1>2, <1>5, <2>1 DEF IInv, TypeOK, NetTyped, pcbVars, taskVars, peerVars
  <2>3. AcksSent' /\ Handshake' /\ Copying' /\ Closed'
    BY <1>1, <1>5 DEF IInv, AcksSent, Handshake, Copying, Closed, pcbVars, taskVars, peerVars
  <2>. QED
    BY <2>1, <2>2, <2>3 DEF IInv
<1>6. ASSUME NEW i \in 1 .. Len(to_peer), to_peer' = RemoveAt(to_peer, i), UNCHANGED to_us
      PROVE  IInv'
  <2>1. /\ to_peer' \in Seq(Segments(Nat))
        /\ \A j \in 1 .. Len(to_peer') : \E k \in 1 .. Len(to_peer) : to_peer'[j] = to_peer[k]
    <3>1. /\ RemoveAt(to_peer, i) \in Seq(Segments(Nat))
          /\ \A j \in 1 .. Len(RemoveAt(to_peer, i)) :
               \E k \in 1 .. Len(to_peer) : RemoveAt(to_peer, i)[j] = to_peer[k]
      <4>1. to_peer \in Seq(Segments(Nat))
        BY <1>t
      <4>. QED
        BY <4>1, <1>6, RemovedFrom
    <3>. QED
      BY <1>6, <3>1
  <2>. QED
    BY <1>1, <1>2, <1>6, <2>1, PeerStepInv
<1>. QED
  BY <1>3, <1>4, <1>5, <1>6 DEF duplicate, lose

LEMMA StutterInv == IInv /\ UNCHANGED vars => IInv'
<1>. SUFFICES ASSUME IInv, UNCHANGED vars PROVE IInv'
  OBVIOUS
<1>1. TypeOK' /\ NetTyped' /\ PeerSound'
  BY DEF IInv, TypeOK, NetTyped, PeerSound, vars, pcbVars, taskVars, peerVars
<1>2. SegmentsSent' /\ AcksSent'
  BY DEF IInv, SegmentsSent, AcksSent, vars, pcbVars, peerVars
<1>3. Handshake' /\ Copying' /\ Closed'
  BY DEF IInv, Handshake, Copying, Closed, vars, pcbVars, taskVars, peerVars
<1>. QED
  BY <1>1, <1>2, <1>3 DEF IInv

LEMMA NextInv == IInv /\ [Next]_vars => IInv'
<1>. QED
  BY CallStepInv, ProgramCallInv, NicInv, PeerInputInv, PeerSendInv, NetworkInv, StutterInv
     DEF Next

LEMMA Inductive == Spec => []IInv
<1>. QED
  BY InitInv, NextInv, PTL DEF Spec

-----------------------------------------------------------------------------
\* On any network, the ring never overflows and nothing is acknowledged that the host
\* has not sent (tcp_input, tcp_send_segment).
THEOREM AcksStayHonest == Spec => []AcksOnlySent
<1>1. IInv => AcksOnlySent
  BY DEF IInv, AcksSent, AcksOnlySent
<1>. QED
  BY <1>1, Inductive, PTL

\* On any network, connect and accept succeed only with a host that takes part in the
\* connection (socket_connect, socket_accept, tcp_input).
THEOREM SuccessAgreed == Spec => []ConnectionAgreed
<1>1. IInv => ConnectionAgreed
  BY DEF IInv, Handshake, PeerSound, NetTyped, ConnectionAgreed
<1>. QED
  BY <1>1, Inductive, PTL

\* On any network, nothing reaches the ring of a closed socket, and its PCB neither
\* opens again nor comes back into the table (socket_close, tcp_close, tcp_input).
THEOREM ClosedStaysClosed == Spec => NothingAfterClose
<1>. DEFINE Quiet == in_use = 0 => /\ buffer' = buffer
                                   /\ in_table' <= in_table
                                   /\ pcb_state' \notin {"ESTABLISHED", "CLOSE_WAIT"}
<1>1. IInv /\ [Next]_vars => [Quiet]_vars
  <2>. SUFFICES ASSUME IInv, [Next]_vars, in_use = 0
                PROVE  /\ buffer' = buffer
                       /\ in_table' <= in_table
                       /\ pcb_state' \notin {"ESTABLISHED", "CLOSE_WAIT"}
    OBVIOUS
  <2>1. pc = "user" /\ pcb_state \notin Open /\ in_table \in {0, 1}
    BY DEF IInv, Closed, TypeOK
  <2>2. CASE nic_irq
    BY <2>1, <2>2, NicInv DEF InputSound, Open
  <2>3. CASE \/ peer_open \/ peer_input \/ peer_data \/ peer_fin \/ peer_again
             \/ duplicate \/ lose \/ UNCHANGED vars
    <3>1. UNCHANGED <<pcbVars, buffer>>
      BY <2>3 DEF peer_open, peer_input, peer_data, peer_fin, peer_again, duplicate, lose, vars
    <3>. QED
      BY <2>1, <3>1 DEF pcbVars, Open
  <2>4. ~CallStep /\ ~ProgramCall
    BY <2>1 DEF CallStep, ProgramCall, connect_syn, connect_advance, connect_return, test,
                set_waiting, set_sleep, schedule, dispatched, accept_return, recv_return,
                connect, listen, accept, recv, send, close, Program
  <2>. QED
    BY <2>2, <2>3, <2>4 DEF Next
<1>. QED
  BY <1>1, Inductive, PTL DEF Spec, NothingAfterClose

-----------------------------------------------------------------------------
(***************************************************************************)
(* The stream: on a network that keeps the order, until a segment finds    *)
(* no room in the ring.                                                    *)
(***************************************************************************)
Reliable == ~Unreliable

\* The bytes that have come in.
Got == Len(received) + Len(buffer)

HasData(m) == m.data # <<>>

\* The handshake, as long as the socket is open: the states the PCB can be in, who has
\* sent a SYN, and that nothing is acknowledged before the host's SYN has come.
Opening ==
  /\ pcb_state \in Open \union {"CLOSED"}
  /\ pcb_state # "CLOSED" \/ call = "connect" => in_table = 1
  /\ in_table = 0 => p_state = "CLOSED"
  /\ p_state = "CLOSED" => to_us = <<>>
  /\ pcb_state \in {"CLOSED", "LISTEN", "SYN_SENT"} => rcv_nxt = 0
  /\ rcv_nxt = 0 =>
       p_state # "ESTABLISHED" /\ \A i \in 1 .. Len(to_peer) : to_peer[i].ack = 0
  /\ pcb_state \in {"CLOSED", "LISTEN", "SYN_RECEIVED"} =>
       p_state # "SYN_RCVD" /\ \A i \in 1 .. Len(to_peer) : to_peer[i].flags # {"SYN"}
  /\ pcb_state \in {"CLOSED", "SYN_SENT"} => p_state # "SYN_SENT"
  /\ \A i \in 1 .. Len(to_us) : "ACK" \notin to_us[i].flags => i = 1 /\ pcb_state = "LISTEN"
  /\ pcb_state = "SYN_RECEIVED" /\ p_state = "ESTABLISHED" =>
       to_us # <<>> /\ to_us[1].data = <<>>

\* A segment with data is a byte, comes from an established host, and before its FIN.
DataSegments ==
  /\ \A i \in 1 .. Len(to_us) : HasData(to_us[i]) =>
       /\ to_us[i].data = <<to_us[i].seq>> /\ to_us[i].flags = {"ACK"}
       /\ p_state = "ESTABLISHED"
       /\ pcb_state # "CLOSE_WAIT"
  /\ \A i \in 1 .. Len(to_us) : "FIN" \in to_us[i].flags =>
       p_fin = 1 /\ \A j \in i .. Len(to_us) : ~HasData(to_us[j])
  /\ pcb_state = "CLOSE_WAIT" => p_fin = 1

\* The bytes on their way are those the host has sent and that have not come in, in order.
BytesFollow ==
  /\ Got = 0 \/ Got < p_nxt
  /\ \A i \in 1 .. Len(to_us) : HasData(to_us[i]) => to_us[i].seq > Got
  /\ \A i, j \in 1 .. Len(to_us) :
       i < j /\ HasData(to_us[i]) /\ HasData(to_us[j]) => to_us[i].seq < to_us[j].seq
  /\ \A k \in 1 .. DATA : Got < k /\ k < p_nxt =>
       \E i \in 1 .. Len(to_us) : to_us[i].data = <<k>>

BytesInOrder == \A k \in 1 .. Got : (received \o buffer)[k] = k

SInv == in_use = 1 /\ refused = 0 => Opening /\ DataSegments /\ BytesFollow /\ BytesInOrder

\* What SInv says of a socket that is open in a step's first state.
SOpen == in_use = 1 /\ Opening /\ DataSegments /\ BytesFollow /\ BytesInOrder

\* A segment on its way to us.
LEMMA UsTyped ==
  ASSUME IInv, NEW i \in 1 .. Len(to_us)
  PROVE  /\ to_us \in Seq(Segments(1 .. DATA)) /\ to_us[i] \in Segments(1 .. DATA)
         /\ to_us[i].seq \in Nat /\ to_us[i].data \in Seq(1 .. DATA)
         /\ to_us[i].flags \in SUBSET {"SYN", "ACK", "FIN", "PSH"}
         /\ Len(to_us[i].data) \in Nat
         /\ to_us[i].seq + Len(to_us[i].data) <= p_nxt
         /\ "ACK" \in to_us[i].flags => p_rcv > 0
<1>1. to_us \in Seq(Segments(1 .. DATA)) /\ p_nxt \in Nat
  BY DEF IInv, NetTyped
<1>2. to_us[i] \in Segments(1 .. DATA)
  BY <1>1
<1>3. /\ to_us[i].seq \in Nat /\ to_us[i].data \in Seq(1 .. DATA)
      /\ to_us[i].flags \in SUBSET {"SYN", "ACK", "FIN", "PSH"}
  BY <1>2 DEF Segments
<1>4. /\ Weight(to_us[i].flags, to_us[i].data) \in Nat
      /\ Len(to_us[i].data) <= Weight(to_us[i].flags, to_us[i].data)
  BY <1>3, WeightNat
<1>5. /\ to_us[i].seq + Weight(to_us[i].flags, to_us[i].data) <= p_nxt
      /\ "ACK" \in to_us[i].flags => p_rcv > 0
  BY DEF IInv, SegmentsSent
<1>6. Len(to_us[i].data) \in Nat
  BY <1>3
<1>. QED
  BY <1>1, <1>2, <1>3, <1>4, <1>5, <1>6

\* Steps that bring no byte and take none off the network: of the program, and of a host
\* that answers without data.
LEMMA NoByte ==
  ASSUME IInv, SOpen,
         Got' = Got, BytesInOrder',
         pcb_state' = "CLOSE_WAIT" => pcb_state = "CLOSE_WAIT",
         p_state = "ESTABLISHED" => p_state' = "ESTABLISHED",
         p_fin = 1 => p_fin' = 1,
         p_nxt' \in Nat, p_nxt <= p_nxt',
         \A k \in 1 .. DATA : k < p_nxt' => k < p_nxt,
         \/ to_us' = to_us
         \/ \E m : /\ to_us' = Append(to_us, m) /\ m.data = <<>>
                   /\ "FIN" \in m.flags => p_fin' = 1
  PROVE  DataSegments' /\ BytesFollow' /\ BytesInOrder'
<1>t. to_us \in Seq(Segments(1 .. DATA)) /\ p_nxt \in Nat /\ Got \in Nat
  BY DEF IInv, NetTyped, TypeOK, Got
<1>1. \* the old segments are where they were, and another one has no data
      /\ Len(to_us') >= Len(to_us) /\ Len(to_us') \in Nat
      /\ \A i \in 1 .. Len(to_us) : to_us'[i] = to_us[i]
      /\ \A i \in 1 .. Len(to_us') : i \in 1 .. Len(to_us) \/
           (to_us'[i].data = <<>> /\ ("FIN" \in to_us'[i].flags => p_fin' = 1 /\ i = Len(to_us')))
  <2>1. CASE to_us' = to_us
    BY <1>t, <2>1
  <2>2. ASSUME NEW m, to_us' = Append(to_us, m), m.data = <<>>, "FIN" \in m.flags => p_fin' = 1
        PROVE  <1>1!:
    <3>1. /\ Len(to_us') = Len(to_us) + 1
          /\ \A i \in 1 .. Len(to_us) : to_us'[i] = to_us[i]
          /\ to_us'[Len(to_us) + 1] = m
      BY <1>t, <2>2
    <3>2. ASSUME NEW i \in 1 .. Len(to_us')
          PROVE  i \in 1 .. Len(to_us) \/ i = Len(to_us) + 1
      BY <1>t, <3>1
    <3>. QED
      BY <1>t, <2>2, <3>1, <3>2
  <2>. QED
    BY <2>1, <2>2
<1>2. DataSegments'
  <2>1. ASSUME NEW i \in 1 .. Len(to_us'), to_us'[i].data # <<>>
        PROVE  /\ to_us'[i].data = <<to_us'[i].seq>> /\ to_us'[i].flags = {"ACK"}
               /\ p_state' = "ESTABLISHED" /\ pcb_state' # "CLOSE_WAIT"
    <3>1. i \in 1 .. Len(to_us) /\ to_us'[i] = to_us[i]
      BY <1>1, <2>1
    <3>. QED
      BY <2>1, <3>1 DEF SOpen, DataSegments, HasData
  <2>2. ASSUME NEW i \in 1 .. Len(to_us'), "FIN" \in to_us'[i].flags,
               NEW j \in i .. Len(to_us')
        PROVE  p_fin' = 1 /\ to_us'[j].data = <<>>
    <3>1. CASE i \in 1 .. Len(to_us)
      <4>1. p_fin = 1 /\ \A l \in i .. Len(to_us) : to_us[l].data = <<>>
        BY <1>1, <2>2, <3>1 DEF SOpen, DataSegments, HasData
      <4>2. j \in 1 .. Len(to_us')
        BY <1>1, <3>1
      <4>3. CASE j \in 1 .. Len(to_us)
        BY <1>1, <4>1, <4>3
      <4>. QED
        BY <1>1, <4>1, <4>2, <4>3
    <3>2. CASE i \notin 1 .. Len(to_us)
      <4>1. to_us'[i].data = <<>> /\ p_fin' = 1 /\ i = Len(to_us')
        BY <1>1, <2>2, <3>2
      <4>. QED
        BY <1>1, <4>1
    <3>. QED
      BY <3>1, <3>2
  <2>3. pcb_state' = "CLOSE_WAIT" => p_fin' = 1
    BY DEF SOpen, DataSegments
  <2>4. ASSUME NEW i \in 1 .. Len(to_us'), "FIN" \in to_us'[i].flags
        PROVE  p_fin' = 1
    <3>1. i \in i .. Len(to_us')
      BY <1>1
    <3>. QED
      BY <2>2, <2>4, <3>1
  <2>. QED
    BY <2>1, <2>2, <2>3, <2>4 DEF DataSegments, HasData
<1>3. BytesFollow'
  <2>1. Got' = 0 \/ Got' < p_nxt'
    BY <1>t DEF SOpen, BytesFollow
  <2>2. ASSUME NEW i \in 1 .. Len(to_us'), to_us'[i].data # <<>>
        PROVE  i \in 1 .. Len(to_us) /\ to_us'[i] = to_us[i]
    BY <1>1, <2>2
  <2>3. ASSUME NEW i \in 1 .. Len(to_us'), to_us'[i].data # <<>>
        PROVE  to_us'[i].seq > Got'
    BY <2>2, <2>3 DEF SOpen, BytesFollow, HasData
  <2>4. ASSUME NEW i \in 1 .. Len(to_us'), NEW j \in 1 .. Len(to_us'), i < j,
               to_us'[i].data # <<>>, to_us'[j].data # <<>>
        PROVE  to_us'[i].seq < to_us'[j].seq
    BY <2>2, <2>4 DEF SOpen, BytesFollow, HasData
  <2>5. ASSUME NEW k \in 1 .. DATA, Got' < k, k < p_nxt'
        PROVE  \E i \in 1 .. Len(to_us') : to_us'[i].data = <<k>>
    <3>1. PICK i \in 1 .. Len(to_us) : to_us[i].data = <<k>>
      BY <1>t, <2>5 DEF SOpen, BytesFollow
    <3>2. i \in 1 .. Len(to_us')
      BY <1>t, <1>1
    <3>. QED
      BY <1>1, <3>1, <3>2
  <2>. QED
    BY <2>1, <2>3, <2>4, <2>5 DEF BytesFollow, HasData
<1>. QED
  BY <1>2, <1>3

\* The program's steps: recv moves bytes from the ring to the program, connect sends the
\* SYN while nothing can have come from the host.
LEMMA ProgramStream ==
  ASSUME IInv, SOpen, CallStep \/ ProgramCall, in_use' = 1
  PROVE  Opening' /\ DataSegments' /\ BytesFollow' /\ BytesInOrder'
<1>t. /\ buffer \in Seq(1 .. DATA) /\ received \in Seq(1 .. DATA)
      /\ p_nxt \in Nat /\ rcv_nxt \in Nat /\ to_read \in Nat
      /\ p_state \in {"CLOSED", "SYN_SENT", "SYN_RCVD", "ESTABLISHED"}
      /\ to_peer \in Seq(Segments(Nat))
      /\ pcb_state \in Open \union {"CLOSED"}
  BY DEF IInv, TypeOK, NetTyped, SOpen, Opening
<1>1. UNCHANGED <<p_state, p_nxt, p_una, p_rcv, p_fin, to_us, rcv_nxt>>
  BY DEF CallStep, ProgramCall, connect_syn, connect_advance, connect_return, test,
         set_waiting, set_sleep, schedule, dispatched, accept_return, recv_return,
         connect, listen, accept, recv, send, close, peerVars, pcbVars
<1>2. \* close is the only one that empties the ring
      Got' = Got /\ BytesInOrder'
  <2>1. CASE recv_return
    <3>1. /\ received' = received \o SubSeq(buffer, 1, to_read)
          /\ buffer' = SubSeq(buffer, to_read + 1, Len(buffer))
          /\ to_read <= Len(buffer)
      BY <2>1 DEF recv_return, Remaining, Program, IInv, Copying
    <3>. DEFINE a == SubSeq(buffer, 1, to_read)
                b == SubSeq(buffer, to_read + 1, Len(buffer))
    <3>2. /\ a \in Seq(1 .. DATA) /\ Len(a) = to_read
          /\ \A i \in 1 .. to_read : a[i] = buffer[i]
      <4>1. \A i \in 1 .. Len(buffer) : buffer[i] \in 1 .. DATA
        BY <1>t, ElementOfSeq
      <4>2. Len(buffer) \in Nat /\ to_read \in Nat
        BY <1>t
      <4>3. \A i \in 1 .. to_read : buffer[i] \in 1 .. DATA
        BY <3>1, <4>1, <4>2
      <4>4. /\ a \in Seq(1 .. DATA)
            /\ Len(a) = IF 1 <= to_read THEN to_read - 1 + 1 ELSE 0
            /\ \A i \in 1 .. to_read - 1 + 1 : a[i] = buffer[1 + i - 1]
        BY <4>2, <4>3, SubSeqProperties
      <4>. HIDE DEF a
      <4>. QED
        BY <4>2, <4>4
    <3>3. /\ b \in Seq(1 .. DATA) /\ Len(b) = Len(buffer) - to_read
          /\ \A i \in 1 .. Len(buffer) - to_read : b[i] = buffer[to_read + i]
      <4>1. /\ Len(buffer) \in Int /\ to_read + 1 \in Int
            /\ \A i \in to_read + 1 .. Len(buffer) : buffer[i] \in 1 .. DATA
        <5>1. \A i \in 1 .. Len(buffer) : buffer[i] \in 1 .. DATA
          BY <1>t, ElementOfSeq
        <5>2. Len(buffer) \in Nat
          BY <1>t
        <5>. QED
          BY <1>t, <5>1, <5>2
      <4>2. /\ b \in Seq(1 .. DATA)
            /\ Len(b) = IF to_read + 1 <= Len(buffer) THEN Len(buffer) - (to_read + 1) + 1
                                                      ELSE 0
            /\ \A i \in 1 .. Len(buffer) - (to_read + 1) + 1 : b[i] = buffer[(to_read + 1) + i - 1]
        BY <4>1, SubSeqProperties
      <4>. HIDE DEF b
      <4>. QED
        BY <1>t, <3>1, <4>1, <4>2
    <3>4. received' = received \o a /\ buffer' = b
      BY <3>1
    <3>. HIDE DEF a, b
    <3>5. Len(received') = Len(received) + to_read /\ received' \in Seq(1 .. DATA)
      <4>1. received \in Seq(1 .. DATA) /\ a \in Seq(1 .. DATA)
        BY <1>t, <3>2
      <4>2. received \o a \in Seq(1 .. DATA) /\ Len(received \o a) = Len(received) + Len(a)
        BY <4>1, ConcatProperties
      <4>. QED
        BY <3>2, <3>4, <4>2
    <3>6. Got' = Got
      <4>1. Len(received) \in Nat /\ Len(buffer) \in Nat /\ to_read \in Nat
        BY <1>t
      <4>2. Len(buffer') = Len(buffer) - to_read
        BY <3>3, <3>4
      <4>. QED
        BY <3>5, <4>1, <4>2 DEF Got
    <3>7. ASSUME NEW k \in 1 .. Got PROVE (received' \o buffer')[k] = (received \o buffer)[k]
      <4>0. k \in Nat /\ k >= 1 /\ k <= Len(received) + Len(buffer)
            /\ Len(received) \in Nat /\ Len(buffer) \in Nat
        BY <1>t DEF Got
      <4>1. CASE k <= Len(received)
        <5>1. (received \o buffer)[k] = received[k]
          BY <1>t, <4>0, <4>1
        <5>2. (received' \o buffer')[k] = received'[k]
          BY <1>t, <3>3, <3>4, <3>5, <4>0, <4>1
        <5>3. received'[k] = received[k]
          BY <1>t, <3>2, <3>4, <4>0, <4>1
        <5>. QED
          BY <5>1, <5>2, <5>3
      <4>2. CASE k > Len(received) /\ k <= Len(received) + to_read
        <5>1. (received \o buffer)[k] = buffer[k - Len(received)]
          BY <1>t, <4>0, <4>2
        <5>2. (received' \o buffer')[k] = received'[k]
          BY <1>t, <3>3, <3>4, <3>5, <4>0, <4>2
        <5>3. received'[k] = a[k - Len(received)]
          BY <1>t, <3>2, <3>4, <4>0, <4>2
        <5>4. k - Len(received) \in 1 .. to_read
          BY <1>t, <4>0, <4>2
        <5>. QED
          BY <3>2, <5>1, <5>2, <5>3, <5>4
      <4>3. CASE k > Len(received) + to_read
        <5>1. (received \o buffer)[k] = buffer[k - Len(received)]
          BY <1>t, <4>0, <4>3
        <5>2. (received' \o buffer')[k] = b[k - (Len(received) + to_read)]
          <6>1. buffer' \in Seq(1 .. DATA) /\ Len(buffer') = Len(buffer) - to_read
            BY <3>3, <3>4
          <6>2. k \in 1 .. Len(received') + Len(buffer') /\ ~(k <= Len(received'))
            BY <1>t, <3>5, <4>0, <4>3, <6>1
          <6>3. (received' \o buffer')[k] = buffer'[k - Len(received')]
            BY <3>5, <6>1, <6>2, ConcatProperties
          <6>. QED
            BY <3>4, <3>5, <6>3
        <5>3. /\ k - (Len(received) + to_read) \in 1 .. Len(buffer) - to_read
              /\ to_read + (k - (Len(received) + to_read)) = k - Len(received)
          BY <1>t, <4>0, <4>3
        <5>4. b[k - (Len(received) + to_read)] =
                buffer[to_read + (k - (Len(received) + to_read))]
          BY <3>3, <5>3
        <5>. QED
          BY <5>1, <5>2, <5>3, <5>4
      <4>4. \/ k <= Len(received)
            \/ k > Len(received) /\ k <= Len(received) + to_read
            \/ k > Len(received) + to_read
        BY <1>t, <4>0
      <4>. QED
        BY <4>1, <4>2, <4>3, <4>4, Zenon
    <3>. QED
      BY <3>6, <3>7 DEF SOpen, BytesInOrder
  <2>2. CASE ~recv_return
    <3>1. UNCHANGED <<received, buffer>>
      BY <2>2 DEF CallStep, ProgramCall, connect_syn, connect_advance, connect_return, test,
         set_waiting, set_sleep, schedule, dispatched, accept_return,
         connect, listen, accept, recv, send, close, taskVars
    <3>. QED
      BY <3>1 DEF SOpen, BytesInOrder, Got
  <2>. QED
    BY <2>1, <2>2
<1>3. \/ connect_syn \/ listen
      \/ UNCHANGED pcb_state /\ (to_peer' = to_peer \/ send)
  BY DEF CallStep, ProgramCall, connect_syn, connect_advance, connect_return, test,
         set_waiting, set_sleep, schedule, dispatched, accept_return, recv_return,
         connect, listen, accept, recv, send, close, pcbVars
<1>4. pcb_state' = "CLOSE_WAIT" => pcb_state = "CLOSE_WAIT"
  BY <1>3 DEF connect_syn, listen
<1>5. DataSegments' /\ BytesFollow' /\ BytesInOrder'
  BY <1>t, <1>1, <1>2, <1>4, NoByte
<1>6. Opening'
  <2>1. CASE connect_syn
    <3>1. /\ pcb_state = "CLOSED" /\ pcb_state' = "SYN_SENT" /\ call = "connect"
          /\ UNCHANGED <<in_table, call>>
          /\ to_peer' = Append(to_peer, Segment({"SYN"}, ISN, rcv_nxt, <<>>))
      BY <2>1 DEF connect_syn, Program
    <3>2. p_state = "CLOSED" /\ to_us = <<>> /\ rcv_nxt = 0 /\ in_table = 1
      BY <1>t, <3>1 DEF SOpen, Opening
    <3>3. \A i \in 1 .. Len(to_peer') : to_peer'[i].ack = 0
      <4>1. Segment({"SYN"}, ISN, rcv_nxt, <<>>).ack = 0
        BY <3>2 DEF Segment
      <4>. QED
        <5>. DEFINE m == Segment({"SYN"}, ISN, rcv_nxt, <<>>)
        <5>. HIDE DEF m
        <5>1. m.ack = 0 /\ to_peer' = Append(to_peer, m)
          BY <3>1, <4>1 DEF m
        <5>2. \A i \in 1 .. Len(to_peer) : to_peer[i].ack = 0
          BY <3>2 DEF SOpen, Opening
        <5>3. m \in Segments(Nat)
          BY <1>t DEF m, Segment, Segments, ISN
        <5>4. /\ Len(to_peer') = Len(to_peer) + 1 /\ Len(to_peer) \in Nat
              /\ \A i \in 1 .. Len(to_peer) : to_peer'[i] = to_peer[i]
              /\ to_peer'[Len(to_peer) + 1] = m
          BY <1>t, <5>1, <5>3
        <5>5. \A i \in 1 .. Len(to_peer') : i \in 1 .. Len(to_peer) \/ i = Len(to_peer) + 1
          BY <5>4
        <5>. QED
          BY <5>1, <5>2, <5>4, <5>5
    <3>. QED
      BY <1>1, <3>1, <3>2, <3>3 DEF Opening, Open
  <2>2. CASE listen
    <3>1. /\ pcb_state = "CLOSED" /\ pcb_state' = "LISTEN" /\ in_table' = 1
          /\ UNCHANGED <<call, to_peer>>
      BY <2>2 DEF listen, taskVars
    <3>2. p_state = "CLOSED" /\ to_us = <<>> /\ rcv_nxt = 0
      BY <1>t, <3>1 DEF SOpen, Opening
    <3>. QED
      BY <1>1, <3>1, <3>2 DEF SOpen, Opening, Open
  <2>3. CASE UNCHANGED pcb_state /\ (to_peer' = to_peer \/ send)
    <3>1. /\ in_table = 1 => in_table' = 1
          /\ call' = "connect" => call = "connect" \/ in_table' = 1
          /\ in_table' = 0 => in_table = 0
      BY <2>3 DEF CallStep, ProgramCall, connect_syn, connect_advance, connect_return, test,
         set_waiting, set_sleep, schedule, dispatched, accept_return, recv_return,
         connect, listen, accept, recv, send, close, pcbVars, taskVars
    <3>2. /\ rcv_nxt = 0 => \A i \in 1 .. Len(to_peer') : to_peer'[i].ack = 0
          /\ pcb_state \in {"CLOSED", "LISTEN", "SYN_RECEIVED"} =>
               \A i \in 1 .. Len(to_peer') : to_peer'[i].flags # {"SYN"}
      <4>1. CASE to_peer' = to_peer
        BY <4>1 DEF SOpen, Opening
      <4>2. CASE send /\ pcb_state = "ESTABLISHED"
        BY <4>2 DEF IInv, Handshake
      <4>3. CASE send /\ pcb_state # "ESTABLISHED"
        BY <4>1, <4>3 DEF send, SendsNothing
      <4>. QED
        BY <2>3, <4>1, <4>2, <4>3
    <3>. QED
      BY <1>1, <2>3, <3>1, <3>2 DEF SOpen, Opening
  <2>. QED
    BY <1>3, <2>1, <2>2, <2>3
<1>. QED
  BY <1>5, <1>6

\* The first segment is delivered.  If it carries no byte, the bytes on their way stay.
LEMMA HeadDropped ==
  ASSUME IInv, SOpen, to_us # <<>>, to_us' = RemoveAt(to_us, 1),
         to_us[1].data = <<>>,
         Got' = Got, UNCHANGED peerVars,
         pcb_state' = "CLOSE_WAIT" => pcb_state = "CLOSE_WAIT" \/ "FIN" \in to_us[1].flags
  PROVE  DataSegments' /\ BytesFollow'
<1>t. to_us \in Seq(Segments(1 .. DATA)) /\ p_nxt \in Nat /\ Got \in Nat
  BY DEF IInv, NetTyped, TypeOK, Got
<1>u. UNCHANGED <<p_state, p_nxt, p_una, p_rcv, p_fin>>
  BY DEF peerVars
<1>1. /\ Len(to_us) \in Nat /\ Len(to_us) > 0 /\ Len(to_us') = Len(to_us) - 1
      /\ \A i \in 1 .. Len(to_us') : i + 1 \in 1 .. Len(to_us) /\ to_us'[i] = to_us[i + 1]
  <2>1. Len(to_us) \in Nat /\ Len(to_us) > 0 /\ 1 \in 1 .. Len(to_us)
    BY <1>t
  <2>2. /\ Len(RemoveAt(to_us, 1)) = Len(to_us) - 1
        /\ \A j \in 1 .. Len(to_us) - 1 :
             RemoveAt(to_us, 1)[j] = IF j < 1 THEN to_us[j] ELSE to_us[j + 1]
    BY <1>t, <2>1, RemoveAtElements
  <2>. QED
    BY <2>1, <2>2
<1>2. DataSegments'
  <2>0. ASSUME "FIN" \in to_us[1].flags
        PROVE  p_fin = 1 /\ \A j \in 1 .. Len(to_us) : to_us[j].data = <<>>
    <3>1. 1 \in 1 .. Len(to_us)
      BY <1>1
    <3>. QED
      BY <2>0, <3>1 DEF SOpen, DataSegments, HasData
  <2>1. ASSUME NEW i \in 1 .. Len(to_us'), to_us'[i].data # <<>>
        PROVE  /\ to_us'[i].data = <<to_us'[i].seq>> /\ to_us'[i].flags = {"ACK"}
               /\ p_state' = "ESTABLISHED" /\ pcb_state' # "CLOSE_WAIT"
    <3>1. i + 1 \in 1 .. Len(to_us) /\ to_us'[i] = to_us[i + 1]
      BY <1>1
    <3>. QED
      BY <1>u, <2>0, <2>1, <3>1 DEF SOpen, DataSegments, HasData
  <2>2. ASSUME NEW i \in 1 .. Len(to_us'), "FIN" \in to_us'[i].flags
        PROVE  p_fin' = 1 /\ \A j \in i .. Len(to_us') : to_us'[j].data = <<>>
    <3>1. i + 1 \in 1 .. Len(to_us) /\ to_us'[i] = to_us[i + 1]
      BY <1>1
    <3>2. p_fin = 1 /\ \A j \in i + 1 .. Len(to_us) : to_us[j].data = <<>>
      BY <2>2, <3>1 DEF SOpen, DataSegments, HasData
    <3>3. ASSUME NEW j \in i .. Len(to_us') PROVE to_us'[j].data = <<>>
      <4>1. j \in 1 .. Len(to_us') /\ j + 1 \in i + 1 .. Len(to_us)
        BY <1>1
      <4>. QED
        BY <1>1, <3>2, <4>1
    <3>. QED
      BY <1>u, <3>2, <3>3
  <2>3. pcb_state' = "CLOSE_WAIT" => p_fin' = 1
    BY <1>u, <2>0 DEF SOpen, DataSegments
  <2>. QED
    BY <2>1, <2>2, <2>3 DEF DataSegments, HasData
<1>3. BytesFollow'
  <2>1. Got' = 0 \/ Got' < p_nxt'
    BY <1>u DEF SOpen, BytesFollow
  <2>2. ASSUME NEW i \in 1 .. Len(to_us'), to_us'[i].data # <<>>
        PROVE  to_us'[i].seq > Got'
    <3>1. i + 1 \in 1 .. Len(to_us) /\ to_us'[i] = to_us[i + 1]
      BY <1>1
    <3>. QED
      BY <2>2, <3>1 DEF SOpen, BytesFollow, HasData
  <2>3. ASSUME NEW i \in 1 .. Len(to_us'), NEW j \in 1 .. Len(to_us'), i < j,
               to_us'[i].data # <<>>, to_us'[j].data # <<>>
        PROVE  to_us'[i].seq < to_us'[j].seq
    <3>1. /\ i + 1 \in 1 .. Len(to_us) /\ to_us'[i] = to_us[i + 1]
          /\ j + 1 \in 1 .. Len(to_us) /\ to_us'[j] = to_us[j + 1]
          /\ i + 1 < j + 1
      BY <1>1, <2>3
    <3>. QED
      BY <2>3, <3>1 DEF SOpen, BytesFollow, HasData
  <2>4. ASSUME NEW k \in 1 .. DATA, Got' < k, k < p_nxt'
        PROVE  \E i \in 1 .. Len(to_us') : to_us'[i].data = <<k>>
    <3>1. PICK i \in 1 .. Len(to_us) : to_us[i].data = <<k>>
      BY <1>u, <2>4 DEF SOpen, BytesFollow
    <3>2. i # 1
      <4>1. <<k>> # <<>>
        OBVIOUS
      <4>. QED
        BY <3>1, <4>1
    <3>3. i - 1 \in 1 .. Len(to_us') /\ (i - 1) + 1 = i
      BY <1>1, <3>2
    <3>4. to_us'[i - 1] = to_us[(i - 1) + 1]
      BY <1>1, <3>3
    <3>. QED
      BY <3>1, <3>3, <3>4
  <2>. QED
    BY <2>1, <2>2, <2>3, <2>4 DEF BytesFollow, HasData
<1>. QED
  BY <1>2, <1>3

\* If it carries a byte, that is the next one, and it goes to the end of the ring.
LEMMA HeadTaken ==
  ASSUME IInv, SOpen, to_us # <<>>, to_us' = RemoveAt(to_us, 1),
         to_us[1].data # <<>>,
         buffer' = buffer \o to_us[1].data, UNCHANGED <<received, pcb_state, peerVars>>
  PROVE  DataSegments' /\ BytesFollow' /\ BytesInOrder'
<1>t. /\ to_us \in Seq(Segments(1 .. DATA)) /\ p_nxt \in Nat /\ Got \in Nat
      /\ buffer \in Seq(1 .. DATA) /\ received \in Seq(1 .. DATA)
      /\ Len(buffer) \in Nat /\ Len(received) \in Nat
  <2>1. /\ to_us \in Seq(Segments(1 .. DATA)) /\ p_nxt \in Nat
        /\ buffer \in Seq(1 .. DATA) /\ received \in Seq(1 .. DATA)
    BY DEF IInv, NetTyped, TypeOK
  <2>2. Len(buffer) \in Nat /\ Len(received) \in Nat
    BY <2>1, LenProperties
  <2>3. Got \in Nat
    BY <2>2 DEF Got
  <2>. QED
    BY <2>1, <2>2, <2>3
<1>u. UNCHANGED <<p_state, p_nxt, p_una, p_rcv, p_fin>>
  BY DEF peerVars
<1>1. /\ Len(to_us) \in Nat /\ Len(to_us) > 0 /\ Len(to_us') = Len(to_us) - 1
      /\ 1 \in 1 .. Len(to_us)
      /\ \A i \in 1 .. Len(to_us') : i + 1 \in 1 .. Len(to_us) /\ to_us'[i] = to_us[i + 1]
  <2>1. Len(to_us) \in Nat /\ Len(to_us) > 0 /\ 1 \in 1 .. Len(to_us)
    BY <1>t
  <2>2. /\ Len(RemoveAt(to_us, 1)) = Len(to_us) - 1
        /\ \A j \in 1 .. Len(to_us) - 1 :
             RemoveAt(to_us, 1)[j] = IF j < 1 THEN to_us[j] ELSE to_us[j + 1]
    BY <1>t, <2>1, RemoveAtElements
  <2>. QED
    BY <2>1, <2>2
<1>. DEFINE n == to_us[1].seq
<1>2. /\ to_us[1].data = <<n>> /\ p_state = "ESTABLISHED" /\ pcb_state # "CLOSE_WAIT"
      /\ n \in 1 .. DATA /\ n > Got /\ n < p_nxt
  <2>1. /\ to_us[1].data = <<n>> /\ p_state = "ESTABLISHED" /\ pcb_state # "CLOSE_WAIT"
        /\ n > Got
    BY <1>1 DEF SOpen, DataSegments, BytesFollow, HasData
  <2>2. n \in Nat /\ to_us[1].data \in Seq(1 .. DATA) /\ n + Len(to_us[1].data) <= p_nxt
    BY <1>1, UsTyped
  <2>3. Len(<<n>>) = 1 /\ <<n>>[1] = n
    OBVIOUS
  <2>4. n \in 1 .. DATA
    <3>1. 1 \in 1 .. Len(to_us[1].data)
      BY <2>1, <2>3
    <3>2. to_us[1].data[1] \in 1 .. DATA
      BY <2>2, <3>1, ElementOfSeq
    <3>. QED
      BY <2>1, <2>3, <3>2
  <2>. QED
    BY <1>t, <2>1, <2>2, <2>3, <2>4
<1>. HIDE DEF n
<1>3. n = Got + 1
  <2>1. SUFFICES ASSUME n # Got + 1 PROVE FALSE
    OBVIOUS
  <2>2. Got + 1 \in 1 .. DATA /\ Got < Got + 1 /\ Got + 1 < p_nxt /\ Got + 1 < n
    BY <1>t, <1>2, <2>1
  <2>3. PICK i \in 1 .. Len(to_us) : to_us[i].data = <<Got + 1>>
    BY <2>2 DEF SOpen, BytesFollow
  <2>4. to_us[i].data # <<>> /\ to_us[i].seq = Got + 1
    <3>1. to_us[i].data # <<>>
      BY <2>3
    <3>2. to_us[i].data = <<to_us[i].seq>>
      BY <3>1 DEF SOpen, DataSegments, HasData
    <3>. QED
      BY <2>3, <3>1, <3>2
  <2>5. i # 1
    BY <2>1, <2>4 DEF n
  <2>6. 1 < i
    BY <1>1, <2>5
  <2>7. n < to_us[i].seq
    BY <1>1, <1>2, <2>4, <2>6 DEF SOpen, BytesFollow, HasData, n
  <2>. QED
    BY <1>t, <1>2, <2>2, <2>4, <2>7
<1>4. /\ buffer' \in Seq(Nat) /\ Len(buffer') = Len(buffer) + 1 /\ Got' = Got + 1
      /\ \A k \in 1 .. Len(buffer) : buffer'[k] = buffer[k]
      /\ buffer'[Len(buffer) + 1] = Got + 1
  <2>1. buffer' = buffer \o <<n>> /\ <<n>> \in Seq(1 .. DATA) /\ Len(<<n>>) = 1 /\ <<n>>[1] = n
    BY <1>2
  <2>2. /\ buffer' \in Seq(1 .. DATA)
        /\ Len(buffer') = Len(buffer) + 1
        /\ \A k \in 1 .. Len(buffer) + 1 : buffer'[k] =
             IF k <= Len(buffer) THEN buffer[k] ELSE <<n>>[k - Len(buffer)]
    BY <1>t, <2>1, ConcatProperties
  <2>3. Got' = Got + 1
    BY <1>t, <2>2 DEF Got
  <2>. QED
    BY <1>t, <1>3, <2>1, <2>2, <2>3
<1>5. BytesInOrder'
  <2>1. ASSUME NEW k \in 1 .. Got + 1 PROVE (received \o buffer')[k] = k
    <3>1. (received \o buffer')[k] =
            IF k <= Len(received) THEN received[k] ELSE buffer'[k - Len(received)]
      <4>1. received \in Seq(1 .. DATA) /\ 1 .. DATA \subseteq Nat
        BY <1>t
      <4>2. received \in Seq(Nat) /\ buffer' \in Seq(Nat)
        BY <4>1, <1>4
      <4>3. Len(received) + Len(buffer') = Got + 1
        BY <1>t, <1>4 DEF Got
      <4>. QED
        BY <4>2, <4>3, ConcatProperties, Zenon
    <3>2. CASE k <= Got
      <4>1. (received \o buffer)[k] = k
        <5>1. k \in 1 .. Got
          BY <1>t, <3>2
        <5>. QED
          BY <5>1 DEF SOpen, BytesInOrder
      <4>2. (received \o buffer)[k] =
              IF k <= Len(received) THEN received[k] ELSE buffer[k - Len(received)]
        BY <1>t, <3>2 DEF Got
      <4>3. ~(k <= Len(received)) => k - Len(received) \in 1 .. Len(buffer)
        BY <1>t, <3>2 DEF Got
      <4>. QED
        BY <1>4, <3>1, <4>1, <4>2, <4>3
    <3>3. CASE k = Got + 1
      <4>1. ~(k <= Len(received)) /\ k - Len(received) = Len(buffer) + 1
        BY <1>t, <3>3 DEF Got
      <4>. QED
        BY <1>4, <3>1, <3>3, <4>1
    <3>4. k <= Got \/ k = Got + 1
      BY <1>t
    <3>. QED
      BY <3>2, <3>3, <3>4, Zenon
  <2>. QED
    BY <1>4, <2>1 DEF BytesInOrder
<1>6. DataSegments'
  <2>1. ASSUME NEW i \in 1 .. Len(to_us'), to_us'[i].data # <<>>
        PROVE  /\ to_us'[i].data = <<to_us'[i].seq>> /\ to_us'[i].flags = {"ACK"}
               /\ p_state' = "ESTABLISHED" /\ pcb_state' # "CLOSE_WAIT"
    <3>1. i + 1 \in 1 .. Len(to_us) /\ to_us'[i] = to_us[i + 1]
      BY <1>1
    <3>. QED
      BY <1>u, <2>1, <3>1 DEF SOpen, DataSegments, HasData
  <2>2. ASSUME NEW i \in 1 .. Len(to_us'), "FIN" \in to_us'[i].flags
        PROVE  p_fin' = 1 /\ \A j \in i .. Len(to_us') : to_us'[j].data = <<>>
    <3>1. i + 1 \in 1 .. Len(to_us) /\ to_us'[i] = to_us[i + 1]
      BY <1>1
    <3>2. p_fin = 1 /\ \A j \in i + 1 .. Len(to_us) : to_us[j].data = <<>>
      BY <2>2, <3>1 DEF SOpen, DataSegments, HasData
    <3>3. ASSUME NEW j \in i .. Len(to_us') PROVE to_us'[j].data = <<>>
      <4>1. j \in 1 .. Len(to_us') /\ j + 1 \in i + 1 .. Len(to_us)
        BY <1>1
      <4>. QED
        BY <1>1, <3>2, <4>1
    <3>. QED
      BY <1>u, <3>2, <3>3
  <2>3. pcb_state' = "CLOSE_WAIT" => p_fin' = 1
    BY <1>u DEF SOpen, DataSegments
  <2>. QED
    BY <2>1, <2>2, <2>3 DEF DataSegments, HasData
<1>7. BytesFollow'
  <2>1. Got' = 0 \/ Got' < p_nxt'
    BY <1>u, <1>2, <1>3, <1>4
  <2>2. ASSUME NEW i \in 1 .. Len(to_us'), to_us'[i].data # <<>>
        PROVE  to_us'[i].seq > Got'
    <3>1. i + 1 \in 1 .. Len(to_us) /\ to_us'[i] = to_us[i + 1] /\ 1 < i + 1
      BY <1>1
    <3>2. n < to_us[i + 1].seq
      BY <1>1, <2>2, <3>1 DEF SOpen, BytesFollow, HasData, n
    <3>3. to_us[i + 1].seq \in Nat
      BY <3>1, UsTyped
    <3>. QED
      BY <1>t, <1>3, <1>4, <3>1, <3>2, <3>3
  <2>3. ASSUME NEW i \in 1 .. Len(to_us'), NEW j \in 1 .. Len(to_us'), i < j,
               to_us'[i].data # <<>>, to_us'[j].data # <<>>
        PROVE  to_us'[i].seq < to_us'[j].seq
    <3>1. /\ i + 1 \in 1 .. Len(to_us) /\ to_us'[i] = to_us[i + 1]
          /\ j + 1 \in 1 .. Len(to_us) /\ to_us'[j] = to_us[j + 1]
          /\ i + 1 < j + 1
      BY <1>1, <2>3
    <3>. QED
      BY <2>3, <3>1 DEF SOpen, BytesFollow, HasData
  <2>4. ASSUME NEW k \in 1 .. DATA, Got' < k, k < p_nxt'
        PROVE  \E i \in 1 .. Len(to_us') : to_us'[i].data = <<k>>
    <3>0. Got < k /\ k < p_nxt /\ k # n
      BY <1>t, <1>u, <1>3, <1>4, <2>4
    <3>1. PICK i \in 1 .. Len(to_us) : to_us[i].data = <<k>>
      BY <3>0 DEF SOpen, BytesFollow
    <3>2. i # 1
      <4>1. <<k>>[1] = k /\ <<n>>[1] = n
        OBVIOUS
      <4>. QED
        BY <1>2, <3>0, <3>1, <4>1
    <3>3. i - 1 \in 1 .. Len(to_us') /\ (i - 1) + 1 = i
      BY <1>1, <3>2
    <3>4. to_us'[i - 1] = to_us[(i - 1) + 1]
      BY <1>1, <3>3
    <3>. QED
      BY <3>1, <3>3, <3>4
  <2>. QED
    BY <2>1, <2>2, <2>3, <2>4 DEF BytesFollow, HasData
<1>. QED
  BY <1>5, <1>6, <1>7

\* A segment that tcp_input sends is added to those on their way to the host.
LEMMA SentLast ==
  ASSUME IInv, NEW flags, NEW data, tcp_send_segment(flags, data)
  PROVE  /\ Len(to_peer') = Len(to_peer) + 1 /\ Len(to_peer) \in Nat
         /\ \A i \in 1 .. Len(to_peer') :
              \/ i \in 1 .. Len(to_peer) /\ to_peer'[i] = to_peer[i]
              \/ to_peer'[i].flags = flags
<1>. DEFINE m == Segment(flags, snd_nxt, rcv_nxt', data)
<1>1. to_peer \in Seq(Segments(Nat)) /\ to_peer' = Append(to_peer, m) /\ m.flags = flags
  BY DEF IInv, NetTyped, tcp_send_segment, Segment
<1>. HIDE DEF m
<1>2. /\ Len(to_peer') = Len(to_peer) + 1 /\ Len(to_peer) \in Nat
      /\ \A i \in 1 .. Len(to_peer) : to_peer'[i] = to_peer[i]
      /\ to_peer'[Len(to_peer) + 1] = m
  BY <1>1
<1>3. \A i \in 1 .. Len(to_peer') : i \in 1 .. Len(to_peer) \/ i = Len(to_peer) + 1
  BY <1>2
<1>. QED
  BY <1>1, <1>2, <1>3

\* tcp_input, given the first segment: it takes the next byte into the ring, unless there
\* is no room for it, and goes through the handshake.
LEMMA NicStream ==
  ASSUME Reliable, IInv, SOpen, nic_irq, refused' = 0
  PROVE  Opening' /\ DataSegments' /\ BytesFollow' /\ BytesInOrder'
<1>. DEFINE m == to_us[1]
<1>1. /\ tcp_input(m) /\ to_us' = RemoveAt(to_us, 1) /\ 1 \in 1 .. Len(to_us)
      /\ ~Refuses(m)
  BY DEF nic_irq, Deliverable, Reliable
<1>2. /\ UNCHANGED <<p_state, p_nxt, p_una, p_rcv, p_fin, received, call>>
      /\ UNCHANGED <<peerVars>>
  BY DEF nic_irq, taskVars, peerVars
<1>t. /\ to_us \in Seq(Segments(1 .. DATA)) /\ p_nxt \in Nat /\ Got \in Nat
      /\ to_us # <<>> /\ Len(to_us) \in Nat
      /\ buffer \in Seq(1 .. DATA) /\ received \in Seq(1 .. DATA)
      /\ Len(buffer) \in Nat /\ Len(received) \in Nat /\ rcv_nxt \in Nat
      /\ p_state \in {"CLOSED", "SYN_SENT", "SYN_RCVD", "ESTABLISHED"}
      /\ pcb_state \in Open \union {"CLOSED"}
  BY <1>1 DEF IInv, NetTyped, TypeOK, Got, SOpen, Opening
<1>m. /\ m.seq \in Nat /\ m.data \in Seq(1 .. DATA)
      /\ m.flags \in SUBSET {"SYN", "ACK", "FIN", "PSH"}
      /\ "ACK" \in m.flags => p_rcv > 0
  BY <1>1, UsTyped
<1>s. /\ Len(to_us') = Len(to_us) - 1
      /\ \A i \in 1 .. Len(to_us') : i + 1 \in 1 .. Len(to_us) /\ to_us'[i] = to_us[i + 1]
  <2>1. /\ Len(RemoveAt(to_us, 1)) = Len(to_us) - 1
        /\ \A j \in 1 .. Len(to_us) - 1 :
             RemoveAt(to_us, 1)[j] = IF j < 1 THEN to_us[j] ELSE to_us[j + 1]
    BY <1>t, <1>1, RemoveAtElements
  <2>. QED
    BY <1>t, <1>1, <2>1
<1>. HIDE DEF m
<1>p. p_state # "CLOSED" /\ in_table = 1 /\ pcb_state # "CLOSED"
  <2>1. p_state # "CLOSED"
    BY <1>t DEF SOpen, Opening
  <2>2. in_table = 1
    BY <2>1 DEF SOpen, Opening, IInv, TypeOK
  <2>. QED
    BY <1>t, <2>1, <2>2 DEF SOpen, Opening
<1>a. \* every segment acknowledges, except for a SYN to a listener
      /\ pcb_state # "LISTEN" => "ACK" \in m.flags
      /\ \A i \in 1 .. Len(to_us') : "ACK" \in to_us'[i].flags
  <2>1. pcb_state # "LISTEN" => "ACK" \in m.flags
    BY <1>1 DEF SOpen, Opening, m
  <2>2. ASSUME NEW i \in 1 .. Len(to_us') PROVE "ACK" \in to_us'[i].flags
    <3>1. i + 1 \in 1 .. Len(to_us) /\ to_us'[i] = to_us[i + 1] /\ i + 1 # 1
      BY <1>s
    <3>. QED
      BY <3>1 DEF SOpen, Opening
  <2>. QED
    BY <2>1, <2>2
<1>d. \* a byte comes when the PCB is ESTABLISHED only, and the ring has room for it
      ASSUME m.data # <<>>
      PROVE  pcb_state = "ESTABLISHED" /\ m.flags = {"ACK"} /\ HasRoom(m)
  <2>1. /\ m.data = <<m.seq>> /\ m.flags = {"ACK"} /\ p_state = "ESTABLISHED"
        /\ pcb_state # "CLOSE_WAIT" /\ m.seq > Got
    BY <1>1, <1>d DEF SOpen, DataSegments, BytesFollow, HasData, m
  <2>2. pcb_state = "ESTABLISHED"
    BY <1>t, <1>d, <1>p, <2>1 DEF SOpen, Opening, Open, m
  <2>3. HasRoom(m)
    BY <1>1, <1>d, <1>p, <2>1, <2>2 DEF Refuses
  <2>. QED
    BY <2>1, <2>2, <2>3
<1>q. ASSUME UNCHANGED buffer
      PROVE  Got' = Got /\ BytesInOrder'
  BY <1>2, <1>q DEF SOpen, Got, BytesInOrder
<1>c. \* what is left of the channel, for every outcome
      /\ p_state' # "CLOSED"
      /\ \A i \in 1 .. Len(to_us') : "ACK" \in to_us'[i].flags
  BY <1>2, <1>p, <1>a
<1>3. CASE in_listen(m)
  <2>1. /\ pcb_state = "LISTEN" /\ pcb_state' = "SYN_RECEIVED" /\ UNCHANGED <<in_table, buffer>>
        /\ tcp_send_segment({"SYN", "ACK"}, <<>>) /\ rcv_nxt' = m.seq + 1
    BY <1>3 DEF in_listen
  <2>2. p_state = "SYN_SENT" /\ \A i \in 1 .. Len(to_peer) : to_peer[i].flags # {"SYN"}
    BY <1>t, <1>p, <2>1 DEF SOpen, Opening
  <2>3. m.data = <<>>
    BY <1>d, <2>1
  <2>4. \A i \in 1 .. Len(to_peer') : to_peer'[i].flags # {"SYN"}
    <3>1. {"SYN", "ACK"} # {"SYN"}
      OBVIOUS
    <3>. QED
      BY <2>1, <2>2, <3>1, SentLast
  <2>5. rcv_nxt' # 0
    BY <1>m, <2>1
  <2>6. Opening'
    BY <1>2, <1>p, <1>c, <2>1, <2>2, <2>4, <2>5 DEF Opening, Open
  <2>7. DataSegments' /\ BytesFollow' /\ BytesInOrder'
    BY <1>t, <1>1, <1>2, <1>q, <2>1, <2>3, HeadDropped DEF m
  <2>. QED
    BY <2>6, <2>7
<1>4. CASE in_syn_sent(m) \/ in_syn_received(m)
  <2>1. /\ pcb_state \in {"SYN_SENT", "SYN_RECEIVED"} /\ pcb_state' = "ESTABLISHED"
        /\ UNCHANGED <<in_table, buffer>>
    BY <1>4 DEF in_syn_sent, in_syn_received
  <2>2. rcv_nxt' # 0
    <3>1. CASE in_syn_sent(m)
      BY <1>m, <3>1 DEF in_syn_sent
    <3>2. CASE in_syn_received(m)
      BY <3>2 DEF in_syn_received, IInv, Handshake
    <3>. QED
      BY <1>4, <3>1, <3>2
  <2>3. m.data = <<>>
    BY <1>d, <2>1
  <2>4. Opening'
    BY <1>2, <1>p, <1>c, <2>1, <2>2 DEF Opening, Open
  <2>5. DataSegments' /\ BytesFollow' /\ BytesInOrder'
    BY <1>t, <1>1, <1>2, <1>q, <2>1, <2>3, HeadDropped DEF m
  <2>. QED
    BY <2>4, <2>5
<1>5. CASE in_established_fin(m)
  <2>1. /\ pcb_state = "ESTABLISHED" /\ pcb_state' = "CLOSE_WAIT" /\ "FIN" \in m.flags
        /\ UNCHANGED <<in_table, buffer>> /\ rcv_nxt' = m.seq + 1
    BY <1>5 DEF in_established_fin
  <2>2. rcv_nxt' # 0
    BY <1>m, <2>1
  <2>3. m.data = <<>>
    BY <1>d, <2>1
  <2>4. Opening'
    BY <1>2, <1>p, <1>c, <2>1, <2>2 DEF Opening, Open
  <2>5. DataSegments' /\ BytesFollow' /\ BytesInOrder'
    BY <1>t, <1>1, <1>2, <1>q, <2>1, <2>3, HeadDropped DEF m
  <2>. QED
    BY <2>4, <2>5
<1>6. CASE in_established_data(m)
  <2>1. /\ pcb_state = "ESTABLISHED" /\ m.data # <<>> /\ buffer' = buffer \o m.data
        /\ UNCHANGED <<in_table, pcb_state>> /\ rcv_nxt' = m.seq + Len(m.data)
    BY <1>6 DEF in_established_data, Acked
  <2>2. rcv_nxt' # 0
    BY <1>m, <2>1
  <2>3. Opening'
    BY <1>2, <1>p, <1>c, <2>1, <2>2 DEF Opening, Open
  <2>4. DataSegments' /\ BytesFollow' /\ BytesInOrder'
    BY <1>t, <1>1, <1>2, <2>1, HeadTaken DEF m
  <2>. QED
    BY <2>3, <2>4
<1>7. CASE in_ignored(m)
  <2>1. UNCHANGED <<pcb_state, rcv_nxt, in_table, buffer, to_peer>> /\ ~Handled(m)
    BY <1>7, <1>p DEF in_ignored, SendsNothing
  <2>2. m.data = <<>> /\ pcb_state # "SYN_RECEIVED"
    <3>1. m.data = <<>>
      BY <1>d, <2>1 DEF Handled
    <3>2. pcb_state # "SYN_RECEIVED"
      BY <1>a, <2>1 DEF Handled
    <3>. QED
      BY <3>1, <3>2
  <2>3. Opening'
    BY <1>2, <1>c, <2>1, <2>2 DEF SOpen, Opening
  <2>4. DataSegments' /\ BytesFollow' /\ BytesInOrder'
    BY <1>t, <1>1, <1>2, <1>q, <2>1, <2>2, HeadDropped DEF m
  <2>. QED
    BY <2>3, <2>4
<1>8. ~in_fin_wait_1(m) /\ ~in_fin_wait_2(m) /\ ~in_last_ack(m)
  BY <1>t DEF in_fin_wait_1, in_fin_wait_2, in_last_ack, Open
<1>. QED
  BY <1>1, <1>3, <1>4, <1>5, <1>6, <1>7, <1>8 DEF tcp_input

\* A segment that the host sends is the last on its way to us, and acknowledges, except
\* for its first SYN.
LEMMA HostSends ==
  ASSUME IInv, NEW flags, NEW seq, NEW data, PeerSends(flags, seq, data)
  PROVE  \E m : /\ to_us' = Append(to_us, m)
                /\ m.flags = flags /\ m.seq = seq /\ m.data = data
                /\ Len(to_us') = Len(to_us) + 1 /\ Len(to_us) \in Nat
                /\ \A i \in 1 .. Len(to_us) : to_us'[i] = to_us[i]
                /\ to_us'[Len(to_us) + 1] = m
                /\ \A i \in 1 .. Len(to_us') : i \in 1 .. Len(to_us) \/ i = Len(to_us) + 1
<1>. DEFINE m == Segment(flags, seq, p_rcv', data)
<1>1. /\ to_us \in Seq(Segments(1 .. DATA)) /\ to_us' = Append(to_us, m)
      /\ m.flags = flags /\ m.seq = seq /\ m.data = data
  BY DEF IInv, NetTyped, PeerSends, Segment
<1>. HIDE DEF m
<1>2. /\ Len(to_us') = Len(to_us) + 1 /\ Len(to_us) \in Nat
      /\ \A i \in 1 .. Len(to_us) : to_us'[i] = to_us[i]
      /\ to_us'[Len(to_us) + 1] = m
  BY <1>1
<1>3. \A i \in 1 .. Len(to_us') : i \in 1 .. Len(to_us) \/ i = Len(to_us) + 1
  BY <1>2
<1>. QED
  BY <1>1, <1>2, <1>3

\* The host sends its first SYN, to a listener.
LEMMA OpenStream ==
  ASSUME IInv, SOpen, peer_open
  PROVE  Opening' /\ DataSegments' /\ BytesFollow' /\ BytesInOrder'
<1>1. /\ p_state = "CLOSED" /\ p_state' = "SYN_SENT" /\ pcb_state = "LISTEN" /\ p_nxt' = 1
      /\ PeerSends({"SYN"}, 0, <<>>)
      /\ UNCHANGED <<p_una, p_rcv, p_fin, pcb_state, rcv_nxt, in_table, call, to_peer>>
      /\ UNCHANGED <<received, buffer>>
  BY DEF peer_open, pcbVars, taskVars
<1>2. /\ to_us = <<>> /\ in_table = 1 /\ p_nxt = 0
  BY <1>1 DEF SOpen, Opening, IInv, PeerSound
<1>3. PICK m : /\ to_us' = Append(to_us, m)
               /\ m.flags = {"SYN"} /\ m.data = <<>>
               /\ Len(to_us') = Len(to_us) + 1
               /\ to_us'[Len(to_us) + 1] = m
  BY <1>1, HostSends
<1>4. Len(to_us') = 1 /\ to_us'[1] = m /\ \A i \in 1 .. 1 : i = 1
  BY <1>2, <1>3
<1>5. Opening'
  BY <1>1, <1>2, <1>3, <1>4 DEF SOpen, Opening
<1>6. Got' = Got /\ BytesInOrder'
  BY <1>1 DEF SOpen, Got, BytesInOrder
<1>7. \A k \in 1 .. DATA : k < p_nxt' => k < p_nxt
  BY <1>1
<1>8. p_nxt' \in Nat /\ p_nxt <= p_nxt' /\ "FIN" \notin m.flags
  BY <1>1, <1>2, <1>3
<1>9. DataSegments' /\ BytesFollow' /\ BytesInOrder'
  BY <1>1, <1>3, <1>6, <1>7, <1>8, NoByte
<1>. QED
  BY <1>5, <1>9

\* The host sends the next byte, or its FIN.
LEMMA DataStream ==
  ASSUME IInv, SOpen, peer_data
  PROVE  Opening' /\ DataSegments' /\ BytesFollow' /\ BytesInOrder'
<1>1. /\ p_state = "ESTABLISHED" /\ p_fin = 0 /\ p_nxt <= DATA /\ p_nxt' = p_nxt + 1
      /\ PeerSends({"ACK"}, p_nxt, <<p_nxt>>)
      /\ UNCHANGED <<p_state, p_una, p_rcv, p_fin, pcb_state, rcv_nxt, in_table, call, to_peer>>
      /\ UNCHANGED <<received, buffer>>
  BY DEF peer_data, pcbVars, taskVars
<1>2. PICK m : /\ to_us' = Append(to_us, m)
               /\ m.flags = {"ACK"} /\ m.seq = p_nxt /\ m.data = <<p_nxt>>
               /\ Len(to_us') = Len(to_us) + 1 /\ Len(to_us) \in Nat
               /\ \A i \in 1 .. Len(to_us) : to_us'[i] = to_us[i]
               /\ to_us'[Len(to_us) + 1] = m
               /\ \A i \in 1 .. Len(to_us') : i \in 1 .. Len(to_us) \/ i = Len(to_us) + 1
  BY <1>1, HostSends
<1>t. p_nxt \in Nat /\ p_nxt > 0 /\ Got \in Nat
  BY <1>1 DEF IInv, NetTyped, TypeOK, PeerSound, Got
<1>3. Opening'
  <2>1. ASSUME NEW i \in 1 .. Len(to_us'), "ACK" \notin to_us'[i].flags
        PROVE  i = 1 /\ pcb_state = "LISTEN"
    BY <1>2, <2>1 DEF SOpen, Opening
  <2>2. pcb_state = "SYN_RECEIVED" => to_us' # <<>> /\ to_us'[1].data = <<>>
    <3>1. SUFFICES ASSUME pcb_state = "SYN_RECEIVED"
                   PROVE  to_us' # <<>> /\ to_us'[1].data = <<>>
      OBVIOUS
    <3>2. to_us # <<>> /\ to_us[1].data = <<>>
      BY <1>1, <3>1 DEF SOpen, Opening
    <3>3. 1 \in 1 .. Len(to_us) /\ Len(to_us') # 0
      BY <1>2, <3>2 DEF IInv, NetTyped
    <3>. QED
      BY <1>2, <3>2, <3>3
  <2>. QED
    BY <1>1, <2>1, <2>2 DEF SOpen, Opening
<1>4. Got' = Got /\ BytesInOrder'
  BY <1>1 DEF SOpen, Got, BytesInOrder
<1>5. DataSegments'
  <2>1. ASSUME NEW i \in 1 .. Len(to_us'), to_us'[i].data # <<>>
        PROVE  /\ to_us'[i].data = <<to_us'[i].seq>> /\ to_us'[i].flags = {"ACK"}
               /\ p_state' = "ESTABLISHED" /\ pcb_state' # "CLOSE_WAIT"
    BY <1>1, <1>2, <2>1 DEF SOpen, DataSegments, HasData
  <2>2. ASSUME NEW i \in 1 .. Len(to_us') PROVE "FIN" \notin to_us'[i].flags
    BY <1>1, <1>2 DEF SOpen, DataSegments
  <2>. QED
    BY <1>1, <2>1, <2>2 DEF SOpen, DataSegments, HasData
<1>6. BytesFollow'
  <2>0. Got < p_nxt
    BY <1>t DEF SOpen, BytesFollow
  <2>1. Got' = 0 \/ Got' < p_nxt'
    BY <1>t, <1>1, <1>4, <2>0
  <2>2. ASSUME NEW i \in 1 .. Len(to_us), to_us[i].data # <<>>
        PROVE  to_us[i].seq > Got /\ to_us[i].seq < p_nxt
    <3>1. to_us[i].seq > Got
      BY <2>2 DEF SOpen, BytesFollow, HasData
    <3>2. to_us[i].data = <<to_us[i].seq>>
      BY <2>2 DEF SOpen, DataSegments, HasData
    <3>3. Len(to_us[i].data) = 1
      BY <3>2
    <3>4. to_us[i].seq \in Nat /\ to_us[i].seq + Len(to_us[i].data) <= p_nxt
      BY UsTyped
    <3>. QED
      BY <1>t, <3>1, <3>3, <3>4
  <2>3. ASSUME NEW i \in 1 .. Len(to_us'), to_us'[i].data # <<>>
        PROVE  to_us'[i].seq > Got'
    <3>1. CASE i \in 1 .. Len(to_us)
      BY <1>2, <1>4, <2>2, <2>3, <3>1
    <3>2. CASE i = Len(to_us) + 1
      BY <1>t, <1>2, <1>4, <2>0, <3>2
    <3>. QED
      BY <1>2, <3>1, <3>2
  <2>4. ASSUME NEW i \in 1 .. Len(to_us'), NEW j \in 1 .. Len(to_us'), i < j,
               to_us'[i].data # <<>>, to_us'[j].data # <<>>
        PROVE  to_us'[i].seq < to_us'[j].seq
    <3>1. i \in 1 .. Len(to_us)
      BY <1>2, <2>4
    <3>2. CASE j \in 1 .. Len(to_us)
      BY <1>2, <2>4, <3>1, <3>2 DEF SOpen, BytesFollow, HasData
    <3>3. CASE j = Len(to_us) + 1
      BY <1>2, <2>2, <2>4, <3>1, <3>3
    <3>. QED
      BY <1>2, <3>2, <3>3
  <2>5. ASSUME NEW k \in 1 .. DATA, Got' < k, k < p_nxt'
        PROVE  \E i \in 1 .. Len(to_us') : to_us'[i].data = <<k>>
    <3>1. CASE k < p_nxt
      <4>1. PICK i \in 1 .. Len(to_us) : to_us[i].data = <<k>>
        BY <1>4, <2>5, <3>1 DEF SOpen, BytesFollow
      <4>2. i \in 1 .. Len(to_us')
        BY <1>2
      <4>. QED
        BY <1>2, <4>1, <4>2
    <3>2. CASE k = p_nxt
      <4>1. Len(to_us) + 1 \in 1 .. Len(to_us')
        BY <1>2
      <4>. QED
        BY <1>2, <3>2, <4>1
    <3>3. k < p_nxt \/ k = p_nxt
      BY <1>t, <1>1, <2>5
    <3>. QED
      BY <3>1, <3>2, <3>3
  <2>. QED
    BY <2>1, <2>3, <2>4, <2>5 DEF BytesFollow, HasData
<1>. QED
  BY <1>3, <1>4, <1>5, <1>6

\* The host answers, or sends its FIN, without data.
LEMMA AnswerStream ==
  ASSUME IInv, SOpen,
         UNCHANGED <<pcb_state, rcv_nxt, in_table, call, received, buffer>>,
         Len(to_peer') \in Nat,
         \A j \in 1 .. Len(to_peer') : \E k \in 1 .. Len(to_peer) : to_peer'[j] = to_peer[k],
         p_state # "CLOSED" \/ pcb_state \notin {"CLOSED", "LISTEN", "SYN_RECEIVED"},
         p_state = "CLOSED" => p_state' = "SYN_RCVD",
         p_state = "SYN_SENT" => p_state' = "ESTABLISHED",
         p_state = "SYN_RCVD" => p_state' \in {"SYN_RCVD", "ESTABLISHED"},
         p_state = "ESTABLISHED" => p_state' = "ESTABLISHED",
         p_state # "ESTABLISHED" /\ p_state' = "ESTABLISHED" => rcv_nxt # 0,
         p_fin = 1 => p_fin' = 1,
         p_nxt' \in Nat, p_nxt <= p_nxt',
         \A k \in 1 .. DATA : k < p_nxt' => k < p_nxt,
         \/ to_us' = to_us /\ p_state # "SYN_SENT"
         \/ \E flags, seq : /\ PeerSends(flags, seq, <<>>) /\ "ACK" \in flags
                            /\ "FIN" \in flags => p_fin' = 1
  PROVE  Opening' /\ DataSegments' /\ BytesFollow' /\ BytesInOrder'
<1>t. /\ to_us \in Seq(Segments(1 .. DATA)) /\ Len(to_us) \in Nat
      /\ p_state \in {"CLOSED", "SYN_SENT", "SYN_RCVD", "ESTABLISHED"}
      /\ pcb_state \in Open \union {"CLOSED"} /\ in_table \in {0, 1}
  BY DEF IInv, TypeOK, NetTyped, SOpen, Opening
<1>1. \/ to_us' = to_us /\ p_state # "SYN_SENT"
      \/ \E m : /\ to_us' = Append(to_us, m)
                /\ m.data = <<>> /\ "ACK" \in m.flags /\ ("FIN" \in m.flags => p_fin' = 1)
                /\ Len(to_us') = Len(to_us) + 1
                /\ \A i \in 1 .. Len(to_us) : to_us'[i] = to_us[i]
                /\ to_us'[Len(to_us) + 1] = m
                /\ \A i \in 1 .. Len(to_us') : i \in 1 .. Len(to_us) \/ i = Len(to_us) + 1
  <2>1. ASSUME NEW flags, NEW seq, PeerSends(flags, seq, <<>>), "ACK" \in flags,
               "FIN" \in flags => p_fin' = 1
        PROVE  <1>1!:
    BY <2>1, HostSends
  <2>. QED
    BY <2>1
<1>2. Got' = Got /\ BytesInOrder'
  BY DEF SOpen, Got, BytesInOrder
<1>3. DataSegments' /\ BytesFollow' /\ BytesInOrder'
  <2>1. \/ to_us' = to_us
        \/ \E m : /\ to_us' = Append(to_us, m) /\ m.data = <<>>
                  /\ "FIN" \in m.flags => p_fin' = 1
    BY <1>1
  <2>. QED
    BY <1>2, <2>1, NoByte
<1>4. Opening'
  <2>1. \A i \in 1 .. Len(to_us') : "ACK" \notin to_us'[i].flags => i = 1 /\ pcb_state = "LISTEN"
    <3>1. CASE to_us' = to_us
      BY <3>1 DEF SOpen, Opening
    <3>2. CASE to_us' # to_us
      BY <1>1, <3>2 DEF SOpen, Opening
    <3>. QED
      BY <3>1, <3>2
  <2>2. /\ rcv_nxt = 0 => \A i \in 1 .. Len(to_peer') : to_peer'[i].ack = 0
        /\ pcb_state \in {"CLOSED", "LISTEN", "SYN_RECEIVED"} =>
             \A i \in 1 .. Len(to_peer') : to_peer'[i].flags # {"SYN"}
    BY DEF SOpen, Opening
  <2>3. ASSUME pcb_state = "SYN_RECEIVED", p_state' = "ESTABLISHED"
        PROVE  to_us' # <<>> /\ to_us'[1].data = <<>>
    <3>1. p_state \in {"SYN_SENT", "ESTABLISHED"}
      BY <1>t, <2>3 DEF SOpen, Opening
    <3>2. to_us # <<>> => to_us[1].data = <<>>
      <4>1. CASE p_state = "ESTABLISHED"
        BY <2>3, <4>1 DEF SOpen, Opening
      <4>2. CASE p_state = "SYN_SENT"
        <5>1. to_us # <<>> => 1 \in 1 .. Len(to_us)
          BY <1>t
        <5>. QED
          BY <4>2, <5>1 DEF SOpen, DataSegments, HasData
      <4>. QED
        BY <3>1, <4>1, <4>2
    <3>3. CASE to_us' = to_us /\ p_state # "SYN_SENT"
      BY <2>3, <3>1, <3>3 DEF SOpen, Opening
    <3>4. ASSUME NEW m, m.data = <<>>,
                 Len(to_us') = Len(to_us) + 1,
                 \A i \in 1 .. Len(to_us) : to_us'[i] = to_us[i],
                 to_us'[Len(to_us) + 1] = m
          PROVE  to_us' # <<>> /\ to_us'[1].data = <<>>
      <4>1. to_us' # <<>>
        BY <1>t, <3>4
      <4>2. CASE Len(to_us) = 0
        <5>1. Len(to_us) + 1 = 1
          BY <4>2
        <5>. QED
          BY <3>4, <4>1, <5>1
      <4>3. CASE Len(to_us) # 0
        <5>1. 1 \in 1 .. Len(to_us) /\ to_us # <<>>
          BY <1>t, <4>3
        <5>. QED
          BY <3>2, <3>4, <5>1
      <4>. QED
        BY <4>1, <4>2, <4>3
    <3>. QED
      BY <1>1, <3>3, <3>4
  <2>4. in_table = 1
    BY <1>t DEF SOpen, Opening
  <2>5. p_state' # "CLOSED" /\ p_state' # "SYN_SENT"
    BY <1>t
  <2>6. p_state' = "SYN_RCVD" => p_state = "CLOSED" \/ p_state = "SYN_RCVD"
    BY <1>t
  <2>7. pcb_state \in {"CLOSED", "LISTEN", "SYN_RECEIVED"} => p_state' # "SYN_RCVD"
    BY <1>t, <2>6 DEF SOpen, Opening
  <2>8. rcv_nxt = 0 => p_state' # "ESTABLISHED"
    BY DEF SOpen, Opening
  <2>9. /\ pcb_state \in Open \union {"CLOSED"}
        /\ pcb_state \in {"CLOSED", "LISTEN", "SYN_SENT"} => rcv_nxt = 0
    BY DEF SOpen, Opening
  <2>10. UNCHANGED <<pcb_state, rcv_nxt, in_table, call>>
    OBVIOUS
  <2>. QED
    <3>1. /\ pcb_state' \in Open \union {"CLOSED"}
          /\ pcb_state' # "CLOSED" \/ call' = "connect" => in_table' = 1
          /\ in_table' = 0 => p_state' = "CLOSED"
          /\ p_state' = "CLOSED" => to_us' = <<>>
          /\ pcb_state' \in {"CLOSED", "LISTEN", "SYN_SENT"} => rcv_nxt' = 0
      BY <2>4, <2>5, <2>9, <2>10
    <3>2. rcv_nxt' = 0 =>
            p_state' # "ESTABLISHED" /\ \A i \in 1 .. Len(to_peer') : to_peer'[i].ack = 0
      BY <2>2, <2>8, <2>10, Zenon
    <3>3. pcb_state' \in {"CLOSED", "LISTEN", "SYN_RECEIVED"} =>
            p_state' # "SYN_RCVD" /\ \A i \in 1 .. Len(to_peer') : to_peer'[i].flags # {"SYN"}
      BY <2>2, <2>7, <2>10, Zenon
    <3>4. pcb_state' \in {"CLOSED", "SYN_SENT"} => p_state' # "SYN_SENT"
      BY <2>5, Zenon
    <3>5. \A i \in 1 .. Len(to_us') :
            "ACK" \notin to_us'[i].flags => i = 1 /\ pcb_state' = "LISTEN"
      BY <2>1, <2>10, Zenon
    <3>6. pcb_state' = "SYN_RECEIVED" /\ p_state' = "ESTABLISHED" =>
            to_us' # <<>> /\ to_us'[1].data = <<>>
      BY <2>3, <2>10, Zenon
    <3>. QED
      BY <3>1, <3>2, <3>3, <3>4, <3>5, <3>6, Zenon DEF Opening
<1>. QED
  BY <1>3, <1>4

\* The host takes our first segment, and answers by the standard.
LEMMA PeerStream ==
  ASSUME Reliable, IInv, SOpen, peer_input
  PROVE  Opening' /\ DataSegments' /\ BytesFollow' /\ BytesInOrder'
<1>. DEFINE m == to_peer[1]
<1>1. /\ PeerHandles(m) /\ to_peer' = RemoveAt(to_peer, 1) /\ 1 \in 1 .. Len(to_peer)
      /\ UNCHANGED <<pcb_state, rcv_nxt, in_table, call, received, buffer>>
  BY DEF peer_input, Deliverable, Reliable, pcbVars, taskVars
<1>t. /\ to_peer \in Seq(Segments(Nat)) /\ p_nxt \in Nat /\ rcv_nxt \in Nat
      /\ p_state \in {"CLOSED", "SYN_SENT", "SYN_RCVD", "ESTABLISHED"}
      /\ PeerSound
  BY DEF IInv, TypeOK, NetTyped
<1>2. /\ Len(to_peer') \in Nat
      /\ \A j \in 1 .. Len(to_peer') : \E k \in 1 .. Len(to_peer) : to_peer'[j] = to_peer[k]
  <2>1. /\ RemoveAt(to_peer, 1) \in Seq(Segments(Nat))
        /\ \A j \in 1 .. Len(RemoveAt(to_peer, 1)) :
             \E k \in 1 .. Len(to_peer) : RemoveAt(to_peer, 1)[j] = to_peer[k]
    BY <1>t, <1>1, RemovedFrom
  <2>. QED
    BY <1>1, <2>1
<1>3. /\ m.ack \in Nat
      /\ m.ack >= 1 => rcv_nxt # 0
      /\ m.flags = {"SYN"} => pcb_state \notin {"CLOSED", "LISTEN", "SYN_RECEIVED"}
  <2>1. m \in Segments(Nat)
    BY <1>t, <1>1
  <2>2. m.ack \in Nat
    BY <2>1 DEF Segments
  <2>3. rcv_nxt = 0 => m.ack = 0
    BY <1>1 DEF SOpen, Opening
  <2>4. m.flags = {"SYN"} => pcb_state \notin {"CLOSED", "LISTEN", "SYN_RECEIVED"}
    BY <1>1 DEF SOpen, Opening
  <2>. QED
    BY <2>2, <2>3, <2>4
<1>. HIDE DEF m
<1>4. CASE /\ p_state = "CLOSED" /\ m.flags = {"SYN"}
           /\ p_state' = "SYN_RCVD" /\ p_nxt' = 1
           /\ PeerSends({"SYN", "ACK"}, 0, <<>>) /\ UNCHANGED p_fin
  <2>1. p_nxt = 0 /\ p_nxt' \in Nat /\ p_nxt <= p_nxt'
        /\ (\A k \in 1 .. DATA : k < p_nxt' => k < p_nxt)
    BY <1>t, <1>4 DEF PeerSound
  <2>2. "ACK" \in {"SYN", "ACK"} /\ "FIN" \notin {"SYN", "ACK"}
    OBVIOUS
  <2>. QED
    BY <1>1, <1>2, <1>3, <1>4, <2>1, <2>2, AnswerStream
<1>5. CASE /\ p_state = "SYN_SENT" /\ m.ack = 1 /\ p_state' = "ESTABLISHED"
           /\ PeerSends({"ACK"}, p_nxt, <<>>) /\ UNCHANGED <<p_nxt, p_fin>>
  <2>1. rcv_nxt # 0 /\ "ACK" \in {"ACK"} /\ "FIN" \notin {"ACK"}
    BY <1>3, <1>5
  <2>2. p_nxt' \in Nat /\ p_nxt <= p_nxt' /\ (\A k \in 1 .. DATA : k < p_nxt' => k < p_nxt)
    BY <1>t, <1>5
  <2>. QED
    BY <1>1, <1>2, <1>5, <2>1, <2>2, AnswerStream
<1>6. CASE /\ p_state \in {"SYN_RCVD", "ESTABLISHED"}
           /\ p_state' = IF m.ack >= 1 THEN "ESTABLISHED" ELSE p_state
           /\ \/ UNCHANGED <<to_us, p_nxt, p_fin>>
              \/ PeerSends({"ACK"}, p_nxt, <<>>) /\ UNCHANGED <<p_nxt, p_fin>>
              \/ /\ p_nxt = DATA + 1 /\ PeerSends({"FIN", "ACK"}, p_nxt, <<>>)
                 /\ p_nxt' = p_nxt + 1 /\ p_fin' = 1
  <2>1. /\ p_state = "SYN_RCVD" => p_state' \in {"SYN_RCVD", "ESTABLISHED"}
        /\ p_state = "ESTABLISHED" => p_state' = "ESTABLISHED"
        /\ p_state # "ESTABLISHED" /\ p_state' = "ESTABLISHED" => rcv_nxt # 0
    BY <1>3, <1>6
  <2>2. /\ p_nxt' \in Nat /\ p_nxt <= p_nxt' /\ (\A k \in 1 .. DATA : k < p_nxt' => k < p_nxt)
        /\ p_fin = 1 => p_fin' = 1
    BY <1>t, <1>6
  <2>3. \/ to_us' = to_us
        \/ \E flags, seq : /\ PeerSends(flags, seq, <<>>) /\ "ACK" \in flags
                           /\ "FIN" \in flags => p_fin' = 1
    <3>1. CASE UNCHANGED to_us
      BY <3>1
    <3>2. CASE PeerSends({"ACK"}, p_nxt, <<>>)
      <4>1. "ACK" \in {"ACK"} /\ "FIN" \notin {"ACK"}
        OBVIOUS
      <4>. QED
        BY <3>2, <4>1
    <3>3. CASE PeerSends({"FIN", "ACK"}, p_nxt, <<>>) /\ p_fin' = 1
      <4>1. "ACK" \in {"FIN", "ACK"}
        OBVIOUS
      <4>. QED
        BY <3>3, <4>1
    <3>. QED
      BY <1>6, <3>1, <3>2, <3>3
  <2>. QED
    BY <1>1, <1>2, <1>6, <2>1, <2>2, <2>3, AnswerStream
<1>7. CASE /\ p_state \in {"SYN_RCVD", "ESTABLISHED"}
           /\ UNCHANGED <<p_state, p_nxt, p_fin>> /\ PeerSends({"ACK"}, p_nxt, <<>>)
  <2>1. "ACK" \in {"ACK"} /\ "FIN" \notin {"ACK"}
    OBVIOUS
  <2>2. p_nxt' \in Nat /\ p_nxt <= p_nxt' /\ (\A k \in 1 .. DATA : k < p_nxt' => k < p_nxt)
    BY <1>t, <1>7
  <2>. QED
    BY <1>1, <1>2, <1>7, <2>1, <2>2, AnswerStream
<1>8. CASE UNCHANGED <<p_state, p_nxt, p_fin, to_us>>
  <2>1. Opening'
    <3>1. /\ rcv_nxt = 0 => \A i \in 1 .. Len(to_peer') : to_peer'[i].ack = 0
          /\ pcb_state \in {"CLOSED", "LISTEN", "SYN_RECEIVED"} =>
               \A i \in 1 .. Len(to_peer') : to_peer'[i].flags # {"SYN"}
      BY <1>2 DEF SOpen, Opening
    <3>. QED
      BY <1>1, <1>8, <3>1 DEF SOpen, Opening
  <2>2. DataSegments' /\ BytesFollow' /\ BytesInOrder'
    <3>1. Got' = Got /\ BytesInOrder'
      BY <1>1 DEF SOpen, Got, BytesInOrder
    <3>. QED
      BY <1>t, <1>1, <1>8, <3>1, NoByte
  <2>. QED
    BY <2>1, <2>2
<1>. QED
  BY <1>1, <1>4, <1>5, <1>6, <1>7, <1>8 DEF PeerHandles, peerVars

LEMMA FinStream ==
  ASSUME IInv, SOpen, peer_fin
  PROVE  Opening' /\ DataSegments' /\ BytesFollow' /\ BytesInOrder'
<1>1. /\ p_state = "ESTABLISHED" /\ p_nxt = DATA + 1 /\ p_nxt' = p_nxt + 1 /\ p_fin' = 1
      /\ PeerSends({"FIN", "ACK"}, p_nxt, <<>>)
      /\ UNCHANGED <<p_state, pcb_state, rcv_nxt, in_table, call, to_peer, received, buffer>>
  BY DEF peer_fin, pcbVars, taskVars
<1>2. /\ Len(to_peer') \in Nat
      /\ \A j \in 1 .. Len(to_peer') : \E k \in 1 .. Len(to_peer) : to_peer'[j] = to_peer[k]
  BY <1>1 DEF IInv, NetTyped
<1>3. /\ p_nxt' \in Nat /\ p_nxt <= p_nxt' /\ \A k \in 1 .. DATA : k < p_nxt' => k < p_nxt
  BY <1>1
<1>4. "ACK" \in {"FIN", "ACK"}
  OBVIOUS
<1>. QED
  BY <1>1, <1>2, <1>3, <1>4, AnswerStream

LEMMA StreamInductive == ASSUME Reliable PROVE IInv /\ SInv /\ [Next]_vars => SInv'
<1>. SUFFICES ASSUME IInv, SInv, [Next]_vars, in_use' = 1, refused' = 0
              PROVE  Opening' /\ DataSegments' /\ BytesFollow' /\ BytesInOrder'
  BY DEF SInv
<1>1. SOpen
  <2>1. in_use = 1 /\ refused = 0
    BY DEF Next, CallStep, ProgramCall, connect_syn, connect_advance, connect_return, test,
           set_waiting, set_sleep, schedule, dispatched, accept_return, recv_return,
           connect, listen, accept, recv, send, close, nic_irq, peer_open, peer_input,
           peer_data, peer_fin, peer_again, duplicate, lose, vars
  <2>. QED
    BY <2>1 DEF SInv, SOpen
<1>2. CASE UNCHANGED vars
  <2>1. UNCHANGED <<pcb_state, rcv_nxt, in_table, call, received, buffer, to_us, to_peer,
                    p_state, p_nxt, p_una, p_rcv, p_fin>>
    BY <1>2 DEF vars, pcbVars, taskVars, peerVars
  <2>2. Opening'
    BY <1>1, <2>1 DEF SOpen, Opening
  <2>3. DataSegments'
    BY <1>1, <2>1 DEF SOpen, DataSegments, HasData
  <2>4. BytesFollow' /\ BytesInOrder'
    BY <1>1, <2>1 DEF SOpen, BytesFollow, BytesInOrder, HasData, Got
  <2>. QED
    BY <2>2, <2>3, <2>4
<1>3. ~peer_again /\ ~duplicate /\ ~lose
  BY DEF Reliable, peer_again, duplicate, lose
<1>. QED
  BY <1>1, <1>2, <1>3, ProgramStream, NicStream, OpenStream, PeerStream, DataStream, FinStream
     DEF Next

\* On a network that keeps the order, the program gets the bytes of the host in order,
\* without a gap and without a repetition, however many the host sends, until a segment
\* finds the ring full (socket_recv, tcp_input, which looks at no sequence number).
THEOREM StreamInOrder == ASSUME Reliable PROVE Spec => []StreamIsPrefix
<1>1. Init => SInv
  BY DEF Init, SInv, Opening, DataSegments, BytesFollow, BytesInOrder, Got, HasData, Open
<1>2. IInv /\ SInv => StreamIsPrefix
  <2>. SUFFICES ASSUME IInv, SInv, in_use = 1, refused = 0
                PROVE  received \o buffer = Stream(Len(received) + Len(buffer))
    BY DEF StreamIsPrefix
  <2>1. /\ received \in Seq(1 .. DATA) /\ buffer \in Seq(1 .. DATA)
        /\ \A k \in 1 .. Len(received) + Len(buffer) : (received \o buffer)[k] = k
    BY DEF IInv, TypeOK, SInv, BytesInOrder, Got
  <2>2. /\ received \o buffer \in Seq(1 .. DATA)
        /\ Len(received \o buffer) = Len(received) + Len(buffer)
    BY <2>1, ConcatProperties
  <2>. DEFINE n == Len(received) + Len(buffer)
              s == received \o buffer
  <2>3. n \in Nat /\ s \in Seq(Nat) /\ Len(s) = n /\ \A k \in 1 .. n : s[k] = k
    <3>1. Len(received) \in Nat /\ Len(buffer) \in Nat
      BY <2>1
    <3>2. s \in Seq(Nat)
      BY <2>1, ConcatProperties
    <3>. QED
      BY <2>1, <2>2, <3>1, <3>2
  <2>. HIDE DEF n, s
  <2>4. Stream(n) \in Seq(Nat) /\ Len(Stream(n)) = n /\ \A k \in 1 .. n : Stream(n)[k] = k
    BY <2>3 DEF Stream
  <2>5. s = Stream(n)
    BY <2>3, <2>4, SeqEqual
  <2>. QED
    BY <2>5 DEF n, s
<1>3. IInv /\ SInv /\ [Next]_vars => SInv'
  BY StreamInductive
<1>. QED
  BY <1>1, <1>2, <1>3, Inductive, PTL DEF Spec
=============================================================================
