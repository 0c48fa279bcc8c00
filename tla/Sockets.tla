------------------------------- MODULE Sockets -------------------------------
(***************************************************************************)
(* The system calls on descriptors (kernel/proc/syscall.c), the table of   *)
(* sockets (kernel/net/socket.c), the table of PCBs and the segments that  *)
(* reach it (kernel/net/tcp.c), composed.                                  *)
(*                                                                         *)
(* One program runs at a time (ShellOrProgram of Scheduler); it may exit   *)
(* and be followed by another.  A call runs with IF clear except where it  *)
(* calls schedule(): connect and accept are cut there, and segments arrive *)
(* between any two actions.  TcpSocket has the steps within those calls    *)
(* and the sequence numbers, DgramSocket the ring.                         *)
(*                                                                         *)
(* Nodes and PCBs are heap blocks.  A freed block keeps its contents until *)
(* kmalloc gives it away again (KHeap), and any free block may be given.   *)
(* Contents that nothing reads before they are overwritten are not kept:   *)
(* those of a node no descriptor names, and those of a freed PCB, which    *)
(* tcp_new_pcb clears.                                                     *)
(***************************************************************************)
EXTENDS Integers, Sequences, FiniteSetsExt

CONSTANTS
  FDS,           \* descriptors of a task
  MAX_SOCKETS,
  PcbTables,     \* sizes of tcp_pcbs: MAX_TCP_PCBS
  Nodes, Blocks, \* heap blocks that can hold a VFS node, a PCB
  Hosts,         \* a host is its IP and its port
  Ports,         \* ports that programs bind
  FirstPort, LastPort  \* the ports tcp_get_free_port goes through

ASSUME SocketsAssumption ==
  /\ {FDS, MAX_SOCKETS, FirstPort, LastPort} \union PcbTables \subseteq Nat \ {0}
  /\ 0 \notin Nodes \union Blocks
  /\ Ports \subseteq Nat \ {0}
  /\ FirstPort <= LastPort

VARIABLES
  fd_table,   \* of the running program; 0 for a free descriptor
  node,       \* contents of the node blocks
  node_live,  \* those allocated
  sockets,
  pcb,        \* contents of the PCB blocks
  pcb_live,
  tcp_pcbs,   \* the table, 0 for an empty place
  next_port,
  call,       \* the blocking call the program is in
  \* history
  accepted,   \* nodes that accept gave a second descriptor, while one names them
  shared,     \* slots whose node, or the block it is in, had two descriptors
  abandoned,  \* nodes left without one by task_exit or sys_socket
  stale       \* slots whose PCB tcp_input has freed

fdVars == <<fd_table, node, node_live, accepted, shared, abandoned>>
pcbVars == <<pcb, pcb_live, tcp_pcbs, next_port, stale>>
vars == <<fdVars, sockets, pcbVars, call>>

Fds == 0 .. FDS - 1
Slots == 1 .. MAX_SOCKETS
Nobody == "nobody"
NoNode == [kind |-> "none", slot |-> 0]
NoCall == [op |-> "none", node |-> 0, block |-> 0]
EmptyPcb == [state |-> "CLOSED", local_port |-> 0, remote |-> Nobody, socket |-> 0]
FileNode == [kind |-> "file", slot |-> 0]
Stream(s) == sockets[s].type = "STREAM"

\* The end of boot: tcp_init and the zeroed arrays.
Init ==
  /\ fd_table = [i \in Fds |-> 0]
  /\ node = [n \in Nodes |-> NoNode] /\ node_live = {}
  /\ sockets = [s \in Slots |-> [in_use |-> FALSE, type |-> "none", local_port |-> 0,
                                 tcp_pcb |-> 0]]
  /\ pcb = [b \in Blocks |-> EmptyPcb] /\ pcb_live = {}
  /\ tcp_pcbs \in {[i \in 1 .. size |-> 0] : size \in PcbTables}
  /\ next_port = FirstPort
  /\ call = NoCall
  /\ accepted = {} /\ shared = {} /\ abandoned = {} /\ stale = {}

-----------------------------------------------------------------------------
\* The program is between two system calls.
InUser == call = NoCall

FreeFds == {i \in Fds : fd_table[i] = 0}

\* A node in the first free descriptor.
Installed(n) == fd_table' = [fd_table EXCEPT ![Min(FreeFds)] = n]

\* sys_open of a path that exists: finddir allocates the node.
sys_open ==
  /\ InUser
  /\ \E n \in Nodes \ node_live :
       IF FreeFds # {}
         THEN /\ node' = [node EXCEPT ![n] = FileNode]
              /\ node_live' = node_live \union {n}
              /\ Installed(n)
         ELSE UNCHANGED <<node, node_live, fd_table>>
  /\ UNCHANGED <<accepted, shared, abandoned, sockets, pcbVars, call>>

\* socket_create leaves tcp_pcb as it was.
Created(s, type) ==
  [sockets[s] EXCEPT !.in_use = TRUE, !.type = type, !.local_port = 0]

\* Seeded mistake: the slot is taken without a look at in_use.
FreeSlotsAny == Slots

FreeSlots == {s \in Slots : ~sockets[s].in_use}

\* sys_socket: when there is no descriptor, the node and the socket stay behind.
sys_socket ==
  /\ InUser /\ FreeSlots # {}
  /\ \E n \in Nodes \ node_live, type \in {"STREAM", "DGRAM"} :
       LET s == Min(FreeSlots) IN
       /\ sockets' = [sockets EXCEPT ![s] = Created(s, type)]
       /\ node' = [node EXCEPT ![n] = [kind |-> "socket", slot |-> s]]
       /\ node_live' = node_live \union {n}
       /\ IF FreeFds # {}
            THEN Installed(n) /\ UNCHANGED abandoned
            ELSE abandoned' = abandoned \union {n} /\ UNCHANGED fd_table
       /\ shared' = shared \union {t \in {s} : \E i \in Fds : fd_table[i] = n}
  /\ UNCHANGED <<accepted, pcbVars, call>>

\* The descriptors of sockets and their slots.  When accept gave a node a second
\* descriptor and one is closed, programs do no more than close the other.
SocketFds == {i \in Fds : fd_table[i] \in node_live /\ node[fd_table[i]].kind = "socket"}
SlotOf(i) == node[fd_table[i]].slot

\* The PCBs after a write of p to block b through a slot or a running call: b is 0, a PCB
\* or freed memory.
Written(b, p) == [x \in Blocks |-> IF x = b /\ x \in pcb_live THEN p ELSE pcb[x]]

\* sys_bind of a stream: a PCB left by the slot's last socket is bound too.  The port
\* of a datagram socket is read in DgramSocket only.
sys_bind ==
  /\ InUser
  /\ \E i \in SocketFds, p \in Ports :
       LET s == SlotOf(i)
           b == sockets[s].tcp_pcb
       IN  /\ Stream(s)
           /\ sockets' = [sockets EXCEPT ![s].local_port = p]
           /\ pcb' = Written(b, [pcb[b] EXCEPT !.local_port = p])
  /\ UNCHANGED <<fdVars, pcb_live, tcp_pcbs, next_port, stale, call>>

\* The PCB connect and listen start from: that of the slot, or a new one.
PcbOf(s) ==
  IF sockets[s].tcp_pcb # 0 THEN pcb[sockets[s].tcp_pcb] ELSE [EmptyPcb EXCEPT !.socket = s]

\* p is stored in the PCB of slot s, which tcp_new_pcb makes if there is none.  With
\* the table full it returns NULL, and the memory there, which tcp_input never sees,
\* is written instead.
StorePcb(s, p) ==
  LET empty == {j \in DOMAIN tcp_pcbs : tcp_pcbs[j] = 0} IN
  \/ /\ sockets[s].tcp_pcb # 0
     /\ pcb' = Written(sockets[s].tcp_pcb, p)
     /\ UNCHANGED <<sockets, pcb_live, tcp_pcbs>>
  \/ /\ sockets[s].tcp_pcb = 0 /\ empty # {}
     /\ \E b \in Blocks \ pcb_live :
          /\ pcb' = [pcb EXCEPT ![b] = p]
          /\ pcb_live' = pcb_live \union {b}
          /\ tcp_pcbs' = [tcp_pcbs EXCEPT ![Min(empty)] = b]
          /\ sockets' = [sockets EXCEPT ![s].tcp_pcb = b]
  \/ /\ sockets[s].tcp_pcb = 0 /\ empty = {}
     /\ UNCHANGED <<sockets, pcb, pcb_live, tcp_pcbs>>

\* socket_connect of a stream up to its schedule(); the ARP request is broadcast.
sys_connect ==
  /\ InUser
  /\ \E i \in SocketFds, h \in Hosts :
       LET s == SlotOf(i)
       IN  /\ Stream(s)
           /\ StorePcb(s, [PcbOf(s) EXCEPT !.local_port = next_port, !.remote = h])
           /\ call' = [op |-> "connect", node |-> fd_table[i],
                       block |-> sockets'[s].tcp_pcb]
  /\ next_port' = IF next_port = LastPort THEN FirstPort ELSE next_port + 1
  /\ UNCHANGED <<fdVars, stale>>

\* The SYN, after the schedule() calls.  What comes in during the last schedule() may as
\* well come in after the return: connect only reads the state then.
connect_syn ==
  /\ call.op = "connect"
  /\ pcb' = Written(call.block, [pcb[call.block] EXCEPT !.state = "SYN_SENT"])
  /\ call' = NoCall
  /\ UNCHANGED <<fdVars, sockets, pcb_live, tcp_pcbs, next_port, stale>>

sys_listen ==
  /\ InUser
  /\ \E i \in SocketFds :
       LET s == SlotOf(i) IN
       /\ Stream(s)
       /\ StorePcb(s, [PcbOf(s) EXCEPT !.local_port = sockets[s].local_port,
                                       !.state = "LISTEN"])
  /\ UNCHANGED <<fdVars, next_port, stale, call>>

sys_accept ==
  /\ InUser
  /\ \E i \in SocketFds :
       /\ Stream(SlotOf(i))
       /\ call' = [op |-> "accept", node |-> fd_table[i],
                   block |-> sockets[SlotOf(i)].tcp_pcb]
  /\ UNCHANGED <<fdVars, sockets, pcbVars>>

\* accept returns the listening socket's own node in a second descriptor.
accept_return ==
  /\ call.op = "accept"
  /\ call.block # 0 /\ pcb[call.block].state = "ESTABLISHED"
  /\ IF FreeFds # {}
       THEN /\ Installed(call.node)
            /\ accepted' = accepted \union {call.node}
            /\ shared' = shared \union {node[call.node].slot}
       ELSE UNCHANGED <<fd_table, accepted, shared>>
  /\ call' = NoCall
  /\ UNCHANGED <<node, node_live, abandoned, sockets, pcbVars>>

\* Seeded mistake: an established connection is left as it is.
CloseStateKept(st) ==
  CASE st = "ESTABLISHED" -> "ESTABLISHED"
    [] st = "CLOSE_WAIT"  -> "LAST_ACK"
    [] OTHER              -> "CLOSED"

\* tcp_close.
CloseState(st) ==
  CASE st = "ESTABLISHED" -> "FIN_WAIT_1"
    [] st = "CLOSE_WAIT"  -> "LAST_ACK"
    [] OTHER              -> "CLOSED"

\* socket_close of slot s: the slot is free, tcp_pcb stays.  The port, which
\* socket_create clears before anything reads it, is cleared here.
socket_close(s) ==
  LET b == sockets[s].tcp_pcb
  IN  /\ pcb' = IF Stream(s) THEN Written(b, [pcb[b] EXCEPT !.state = CloseState(@)]) ELSE pcb
      /\ sockets' = [sockets EXCEPT ![s].in_use = FALSE, ![s].local_port = 0]

\* Seeded mistake: the descriptor keeps the closed node.
ClearedNot(i) == UNCHANGED fd_table

Cleared(i) == fd_table' = [fd_table EXCEPT ![i] = 0]

\* Some descriptor names node n.
Named(n) == \E k \in Fds : fd_table[k] = n

\* sys_close, also through a node that is freed already: its contents are still
\* there and the second kfree does nothing.
sys_close ==
  /\ InUser
  /\ \E i \in Fds, n \in Nodes :
       /\ fd_table[i] = n
       /\ IF node[n].kind = "socket"
            THEN socket_close(node[n].slot)
            ELSE UNCHANGED <<sockets, pcb>>
       /\ node_live' = node_live \ {n}
       /\ Cleared(i)
       /\ node' = [node EXCEPT ![n] = IF Named(n)' THEN @ ELSE NoNode]
       /\ accepted' = {m \in accepted : m # n \/ Named(m)'}
       /\ abandoned' = abandoned \ {n}
  /\ UNCHANGED <<shared, pcb_live, tcp_pcbs, next_port, stale, call>>

\* task_exit closes nothing; create_task gives the next program an empty table.
task_exit ==
  /\ InUser
  /\ fd_table' = [i \in Fds |-> 0]
  /\ node' = [n \in Nodes |-> IF n \in node_live THEN node[n] ELSE NoNode]
  /\ accepted' = {}
  /\ abandoned' = abandoned \union {n \in node_live : Named(n)}
  /\ UNCHANGED <<node_live, shared, sockets, pcbVars, call>>

-----------------------------------------------------------------------------
\* The PCB tcp_input finds for a segment of host h to port p.
Matches(h, p) ==
  {j \in DOMAIN tcp_pcbs :
     /\ tcp_pcbs[j] # 0 /\ pcb[tcp_pcbs[j]].local_port = p
     /\ pcb[tcp_pcbs[j]].state = "LISTEN" \/ pcb[tcp_pcbs[j]].remote = h}

\* The state machine of tcp_input: the state after a segment, or "FREED".  The data it
\* copies and the segments it answers with are in TcpSocket.
Outcome(st, flags) ==
  LET fin == "FIN" \in flags
      ack == "ACK" \in flags
  IN  CASE st = "LISTEN" /\ "SYN" \in flags                  -> "SYN_RECEIVED"
        [] st = "SYN_SENT" /\ {"SYN", "ACK"} \subseteq flags -> "ESTABLISHED"
        [] st = "SYN_RECEIVED" /\ ack                        -> "ESTABLISHED"
        [] st = "ESTABLISHED" /\ fin                         -> "CLOSE_WAIT"
        [] st = "FIN_WAIT_1" /\ fin                -> IF ack THEN "TIME_WAIT" ELSE "CLOSING"
        [] st = "FIN_WAIT_1" /\ ~fin /\ ack                  -> "FIN_WAIT_2"
        [] st = "FIN_WAIT_2" /\ fin                          -> "FREED"
        [] st = "LAST_ACK" /\ ack                            -> "FREED"
        [] OTHER                                             -> st

\* A segment from the network card's interrupt.  A PCB that is freed leaves the table,
\* and its socket goes on naming it.
tcp_input(h, p, flags) ==
  LET j == Min(Matches(h, p))
      b == tcp_pcbs[j]
      st == Outcome(pcb[b].state, flags)
  IN  /\ IF Matches(h, p) = {}
           THEN UNCHANGED <<pcb, pcb_live, tcp_pcbs, stale>>
           ELSE IF st = "FREED"
           THEN /\ pcb' = [pcb EXCEPT ![b] = EmptyPcb]
                /\ pcb_live' = pcb_live \ {b}
                /\ tcp_pcbs' = [tcp_pcbs EXCEPT ![j] = 0]
                /\ stale' = stale \union {s \in Slots : sockets[s].tcp_pcb = b}
           ELSE /\ pcb' = [pcb EXCEPT ![b].state = st,
                                      ![b].remote = IF pcb[b].state = "LISTEN" /\ "SYN" \in flags
                                                    THEN h ELSE @]
                /\ UNCHANGED <<pcb_live, tcp_pcbs, stale>>
      /\ UNCHANGED <<fdVars, sockets, next_port, call>>

\* A FIN comes with an ACK: without it FIN_WAIT_1 leads to CLOSING instead of TIME_WAIT,
\* and tcp_input leaves neither.
Segments == {{"SYN"}, {"SYN", "ACK"}, {"ACK"}, {"FIN", "ACK"}}

Receive ==
  \E h \in Hosts, p \in Ports \union FirstPort .. LastPort, flags \in Segments :
    tcp_input(h, p, flags)

Next ==
  \/ sys_open \/ sys_socket \/ sys_bind \/ sys_close
  \/ sys_connect \/ connect_syn
  \/ sys_listen \/ sys_accept \/ accept_return
  \/ task_exit \/ Receive

Spec == Init /\ [][Next]_vars

-----------------------------------------------------------------------------
\* A descriptor of the running program never names freed memory and no two name one
\* node, except for the nodes that accept gave a second descriptor.
DescriptorsSound ==
  \A i \in Fds :
    fd_table[i] \notin accepted \union {0} =>
      /\ fd_table[i] \in node_live
      /\ \A k \in Fds \ {i} : fd_table[k] # fd_table[i]

\* Over closes, exits and full tables, a slot is in use exactly while one node names
\* it, so that no socket is closed by another's close.  That node has a descriptor of
\* the program, or task_exit or a socket() call without a free descriptor left it
\* without one, which loses the slot for good: nothing else does.  Slots whose node
\* accept gave a second descriptor are left out.
SlotsAccounted ==
  \A s \in Slots \ shared :
    LET owners == {n \in node_live : node[n] = [kind |-> "socket", slot |-> s]} IN
    /\ Cardinality(owners) = IF sockets[s].in_use THEN 1 ELSE 0
    /\ \A n \in owners : Named(n) <=> n \notin abandoned

\* Of all the slots that name a PCB in the table exactly one was not left behind with
\* a freed PCB, and the PCB points back to it, across reuses of slots and blocks.  While
\* no slot left behind names it too, a PCB that takes data is that of an open stream
\* socket: no segment is copied into another socket's ring or into a freed one.
PcbOwned ==
  \A j \in DOMAIN tcp_pcbs :
    LET b == tcp_pcbs[j]
        s == pcb[b].socket
        names == {t \in Slots : sockets[t].tcp_pcb = b}
    IN  b # 0 =>
          /\ names \ stale = {s}
          /\ names = {s} /\ s \notin shared /\ pcb[b].state = "ESTABLISHED" =>
               sockets[s].in_use /\ Stream(s)
=============================================================================
