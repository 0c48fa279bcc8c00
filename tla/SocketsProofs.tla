---------------------------- MODULE SocketsProofs ----------------------------
(***************************************************************************)
(* Proofs about Sockets, for every number of descriptors, sockets and      *)
(* PCBs, every set of heap blocks and every set of hosts and ports.        *)
(***************************************************************************)
EXTENDS Sockets, FiniteSetTheorems, WellFoundedInduction, TLAPS

Places == DOMAIN tcp_pcbs

USE SocketsAssumption DEF Fds, Slots, Places

States == {"CLOSED", "LISTEN", "SYN_SENT", "SYN_RECEIVED", "ESTABLISHED", "CLOSE_WAIT",
           "FIN_WAIT_1", "FIN_WAIT_2", "TIME_WAIT", "CLOSING", "LAST_ACK"}

\* The states from which tcp_input can still reach ESTABLISHED, or that tcp_close has
\* yet to leave.
Open == {"LISTEN", "SYN_SENT", "SYN_RECEIVED", "ESTABLISHED", "CLOSE_WAIT"}

NodeRecords == [kind : {"none", "file", "socket"}, slot : 0 .. MAX_SOCKETS]
SocketRecords == [in_use : BOOLEAN, type : {"none", "STREAM", "DGRAM"}, local_port : Nat,
                  tcp_pcb : Blocks \union {0}]
PcbRecords == [state : States, local_port : Nat, remote : Hosts \union {Nobody},
               socket : 0 .. MAX_SOCKETS]

\* Pointers point to blocks of their kind, and a socket's node to a slot.
FdsTyped ==
  /\ fd_table \in [Fds -> Nodes \union {0}]
  /\ node \in [Nodes -> NodeRecords]
  /\ \A n \in Nodes : node[n].kind = "socket" => node[n].slot \in Slots
  /\ node_live \subseteq Nodes
  /\ accepted \subseteq Nodes
  /\ abandoned \subseteq node_live

TablesTyped ==
  /\ sockets \in [Slots -> SocketRecords]
  /\ pcb \in [Blocks -> PcbRecords]
  /\ pcb_live \subseteq Blocks
  /\ tcp_pcbs \in [Places -> Blocks \union {0}] /\ \E n \in PcbTables : Places = 1 .. n
  /\ next_port \in Nat
  /\ stale \subseteq Slots

CallsTyped ==
  /\ call.node \in Nodes \union {0}
  /\ call.block \in Blocks \union {0}
  /\ call.op = "accept" => call.node # 0

\* SlotsAccounted without the counting: but for the slots accept shared, the live nodes
\* of sockets and the slots in use correspond one to one, and a node is abandoned if no
\* descriptor names it.
SlotsNamed ==
  /\ \A n \in node_live : node[n].kind = "socket" /\ node[n].slot \notin shared =>
       sockets[node[n].slot].in_use /\ (Named(n) <=> n \notin abandoned)
  /\ \A s \in Slots \ shared : sockets[s].in_use =>
       \E n \in node_live : node[n].kind = "socket" /\ node[n].slot = s
  /\ \A m, n \in node_live :
       node[m].kind = "socket" /\ node[n].kind = "socket" /\ node[m].slot = node[n].slot
         => m = n \/ node[n].slot \in shared

\* A descriptor that names freed memory, or a node with another descriptor, can only
\* close a slot that accept shared.
SharedSlots ==
  /\ \A i \in Fds : fd_table[i] \in Nodes \ node_live /\ node[fd_table[i]].kind = "socket"
       => node[fd_table[i]].slot \in shared
  /\ \A i, k \in Fds : /\ i # k /\ fd_table[i] \in Nodes /\ fd_table[i] = fd_table[k]
                       /\ node[fd_table[i]].kind = "socket"
       => node[fd_table[i]].slot \in shared

\* The table holds allocated PCBs, each once; a PCB and the one slot that has not lost
\* its PCB to tcp_input point to each other.
PcbsLinked ==
  /\ \A j \in Places : tcp_pcbs[j] # 0 => tcp_pcbs[j] \in pcb_live
  /\ \A j, k \in Places : tcp_pcbs[j] # 0 /\ tcp_pcbs[j] = tcp_pcbs[k] => j = k
  /\ \A b \in pcb_live : /\ pcb[b].socket \in Slots \ stale
                         /\ sockets[pcb[b].socket].tcp_pcb = b
  /\ \A s \in Slots \ stale : sockets[s].tcp_pcb # 0 =>
       sockets[s].tcp_pcb \in pcb_live /\ pcb[sockets[s].tcp_pcb].socket = s
  /\ \A s \in stale : sockets[s].tcp_pcb # 0

\* No slot that lost its PCB names block b.
Sole(b) == \A t \in stale : sockets[t].tcp_pcb # b

\* The socket of a PCB that is the slot's alone is open.
Opened(b) ==
  Sole(b) /\ pcb[b].socket \notin shared =>
    sockets[pcb[b].socket].in_use /\ Stream(pcb[b].socket)

\* Such a PCB is in a state tcp_close has yet to leave only while its slot is an open
\* stream socket, and so is the one connect is about to send a SYN for.
PcbsOpen ==
  /\ \A b \in pcb_live : pcb[b].state \in Open => Opened(b)
  /\ call.op = "connect" /\ call.block \in pcb_live => Opened(call.block)

IInv ==
  /\ FdsTyped /\ TablesTyped /\ CallsTyped
  /\ DescriptorsSound /\ SlotsNamed /\ SharedSlots /\ PcbsLinked /\ PcbsOpen

-----------------------------------------------------------------------------
\* The loops that look for the first free descriptor, slot or place of the table, or
\* for the first PCB that matches, stop at one that qualifies.
LEMMA MinIn ==
  ASSUME NEW S, S \subseteq Nat, S # {}
  PROVE  Min(S) \in S
<1>. DEFINE Smaller == {ss \in Nat \X Nat : ss[1] < ss[2]}
<1>1. IsWellFoundedOn(Smaller, Nat)
  BY NatLessThanWellFounded, Zenon DEF OpToRel
<1>2. PICK x \in S : \A y \in S : ~ (<<y, x>> \in Smaller)
  <2>. HIDE DEF Smaller
  <2>. QED
    BY <1>1, WFMin
<1>3. ASSUME NEW y \in S PROVE x <= y
  <2>1. <<y, x>> \notin Smaller
    BY <1>2
  <2>2. <<y, x>> \in Smaller <=> y < x
    OBVIOUS
  <2>. QED
    BY <2>1, <2>2
<1>. QED
  BY <1>3 DEF Min

LEMMA FirstFreeFd ==
  ASSUME FreeFds # {}
  PROVE  Min(FreeFds) \in Fds /\ fd_table[Min(FreeFds)] = 0
<1>1. FreeFds \subseteq Nat
  BY DEF FreeFds
<1>2. Min(FreeFds) \in FreeFds
  BY <1>1, MinIn
<1>. QED
  BY <1>2 DEF FreeFds

\* The end of boot establishes the invariant.
LEMMA InitInv == Init => IInv
<1>. SUFFICES ASSUME Init PROVE IInv
  OBVIOUS
<1>f. FdsTyped /\ CallsTyped
  BY DEF Init, FdsTyped, CallsTyped, NoNode, NoCall, NodeRecords
<1>s. sockets \in [Slots -> SocketRecords]
  BY DEF Init, SocketRecords
<1>p. pcb \in [Blocks -> PcbRecords]
  <2>1. EmptyPcb \in PcbRecords
    BY DEF EmptyPcb, PcbRecords, States
  <2>. QED
    BY <2>1 DEF Init
<1>t. tcp_pcbs \in [Places -> Blocks \union {0}] /\ \E n \in PcbTables : Places = 1 .. n
  <2>1. PICK n \in PcbTables : tcp_pcbs = [i \in 1 .. n |-> 0]
    BY DEF Init
  <2>. QED
    BY <2>1
<1>1. FdsTyped /\ TablesTyped /\ CallsTyped
  <2>1. pcb_live = {} /\ stale = {} /\ next_port \in Nat
    BY DEF Init
  <2>. QED
    BY <1>f, <1>s, <1>p, <1>t, <2>1 DEF TablesTyped
<1>2. DescriptorsSound /\ SlotsNamed /\ SharedSlots
  BY DEF Init, DescriptorsSound, SlotsNamed, SharedSlots
<1>3. PcbsLinked /\ PcbsOpen
  BY DEF Init, PcbsLinked, PcbsOpen, NoCall, Places
<1>. QED
  BY <1>1, <1>2, <1>3 DEF IInv

\* Steps that leave the descriptors and the slots' use alone.
LEMMA FdsAlone ==
  ASSUME IInv, UNCHANGED fdVars,
         \A t \in Slots : sockets'[t].in_use = sockets[t].in_use
  PROVE  FdsTyped' /\ DescriptorsSound' /\ SlotsNamed' /\ SharedSlots'
<1>1. UNCHANGED <<fd_table, node, node_live, accepted, shared, abandoned>>
  BY DEF fdVars
<1>2. FdsTyped' /\ DescriptorsSound' /\ SharedSlots'
  BY <1>1 DEF IInv, FdsTyped, DescriptorsSound, SharedSlots
<1>3. /\ node_live \subseteq Nodes
      /\ \A n \in Nodes : node[n].kind = "socket" => node[n].slot \in Slots
  BY DEF IInv, FdsTyped
<1>4. \A n \in Nodes : Named(n)' <=> Named(n)
  BY <1>1 DEF Named
<1>5. SlotsNamed
  BY DEF IInv
<1>6. ASSUME NEW n \in node_live, node[n].kind = "socket", node[n].slot \notin shared
      PROVE  sockets'[node[n].slot].in_use /\ (Named(n)' <=> n \notin abandoned)
  BY <1>3, <1>4, <1>5, <1>6 DEF SlotsNamed
<1>7. ASSUME NEW t \in Slots \ shared, sockets'[t].in_use
      PROVE  \E n \in node_live : node[n].kind = "socket" /\ node[n].slot = t
  BY <1>5, <1>7 DEF SlotsNamed
<1>8. SlotsNamed'
  BY <1>1, <1>5, <1>6, <1>7 DEF SlotsNamed
<1>. QED
  BY <1>2, <1>8

\* Steps that leave the PCBs alone, of which more may have become the slots accept shared.
LEMMA PcbsAlone ==
  ASSUME IInv, UNCHANGED pcbVars, shared \subseteq shared', call'.op # "connect",
         \A t \in Slots : sockets'[t].tcp_pcb = sockets[t].tcp_pcb,
         \A t \in Slots \ shared : sockets[t].in_use => sockets'[t] = sockets[t]
  PROVE  PcbsLinked' /\ PcbsOpen'
<1>1. UNCHANGED <<pcb, pcb_live, tcp_pcbs, stale>>
  BY DEF pcbVars
<1>2. stale \subseteq Slots
  BY DEF IInv, TablesTyped
<1>3. PcbsLinked'
  BY <1>1, <1>2 DEF IInv, PcbsLinked
<1>4. ASSUME NEW b \in pcb_live, pcb[b].state \in Open PROVE Opened(b)'
  <2>1. SUFFICES ASSUME Sole(b)', pcb[b].socket \notin shared'
                 PROVE  sockets'[pcb[b].socket].in_use /\ Stream(pcb[b].socket)'
    BY <1>1 DEF Opened
  <2>2. Sole(b) /\ pcb[b].socket \in Slots \ shared
    BY <1>1, <1>2, <2>1 DEF Sole, IInv, PcbsLinked
  <2>3. sockets[pcb[b].socket].in_use /\ Stream(pcb[b].socket)
    BY <1>4, <2>2 DEF IInv, PcbsOpen, Opened
  <2>4. sockets'[pcb[b].socket] = sockets[pcb[b].socket]
    BY <2>2, <2>3
  <2>. QED
    BY <1>1, <2>3, <2>4 DEF Stream
<1>5. PcbsOpen'
  BY <1>1, <1>4 DEF PcbsOpen
<1>. QED
  BY <1>3, <1>5

\* Steps that leave the tables alone.
LEMMA CallInv ==
  ASSUME IInv, UNCHANGED <<fdVars, sockets, pcbVars>>,
         call'.op # "connect",
         CallsTyped'
  PROVE  IInv'
<1>1. TablesTyped'
  BY DEF IInv, TablesTyped, pcbVars
<1>2. FdsTyped' /\ DescriptorsSound' /\ SlotsNamed' /\ SharedSlots'
  BY FdsAlone
<1>3. PcbsLinked' /\ PcbsOpen'
  <2>1. shared' = shared
    BY DEF fdVars
  <2>. QED
    BY <2>1, PcbsAlone
<1>. QED
  BY <1>1, <1>2, <1>3 DEF IInv

\* A node block n that was free goes to descriptor i, or to none, with new contents.
LEMMA NodeTaken ==
  ASSUME IInv, NEW n \in Nodes \ node_live, NEW c \in NodeRecords,
         c.kind = "socket" => c.slot \in Slots,
         node' = [node EXCEPT ![n] = c], node_live' = node_live \union {n},
         accepted' = accepted, abandoned' \subseteq node_live', abandoned \subseteq abandoned',
         \/ fd_table' = fd_table
         \/ \E i \in Fds : fd_table[i] = 0 /\ fd_table' = [fd_table EXCEPT ![i] = n],
         shared \subseteq shared', c.kind = "socket" /\ Named(n) => c.slot \in shared'
  PROVE  /\ FdsTyped' /\ DescriptorsSound' /\ SharedSlots'
         /\ \A m \in Nodes \ {n} : Named(m)' <=> Named(m)
         /\ \A m \in node_live : node'[m] = node[m] /\ m # n
         /\ node'[n] = c
<1>t. /\ fd_table \in [Fds -> Nodes \union {0}] /\ node \in [Nodes -> NodeRecords]
      /\ node_live \subseteq Nodes /\ accepted \subseteq Nodes /\ 0 \notin Nodes
      /\ \A m \in Nodes : node[m].kind = "socket" => node[m].slot \in Slots
  BY DEF IInv, FdsTyped
<1>1. /\ fd_table' \in [Fds -> Nodes \union {0}]
      /\ \A k \in Fds : \/ fd_table'[k] = fd_table[k]
                        \/ fd_table'[k] = n /\ fd_table[k] = 0
                             /\ \A l \in Fds \ {k} : fd_table'[l] = fd_table[l]
  BY <1>t
<1>2. node' \in [Nodes -> NodeRecords] /\ node'[n] = c /\ \A m \in Nodes \ {n} : node'[m] = node[m]
  BY <1>t
<1>3. FdsTyped'
  BY <1>t, <1>1, <1>2 DEF FdsTyped
<1>4. DescriptorsSound'
  <2>1. SUFFICES ASSUME NEW i \in Fds, fd_table'[i] \notin accepted \union {0}
                 PROVE  /\ fd_table'[i] \in node_live'
                        /\ \A k \in Fds \ {i} : fd_table'[k] # fd_table'[i]
    BY DEF DescriptorsSound
  <2>2. CASE fd_table'[i] = fd_table[i]
    <3>1. fd_table[i] \in node_live /\ \A k \in Fds \ {i} : fd_table[k] # fd_table[i]
      BY <2>1, <2>2 DEF IInv, DescriptorsSound
    <3>. QED
      BY <1>1, <2>2, <3>1
  <2>3. CASE fd_table'[i] = n /\ fd_table[i] = 0 /\ \A l \in Fds \ {i} : fd_table'[l] = fd_table[l]
    <3>1. \A k \in Fds : fd_table[k] # n
      BY <1>t, <2>1, <2>3 DEF IInv, DescriptorsSound
    <3>. QED
      BY <2>3, <3>1
  <2>. QED
    BY <1>1, <2>2, <2>3
<1>5. SharedSlots'
  <2>1. ASSUME NEW i \in Fds, fd_table'[i] \in Nodes \ node_live',
               node'[fd_table'[i]].kind = "socket"
        PROVE  node'[fd_table'[i]].slot \in shared'
    <3>1. fd_table'[i] # n /\ fd_table'[i] = fd_table[i]
      BY <1>1, <2>1
    <3>2. node'[fd_table[i]] = node[fd_table[i]] /\ fd_table[i] \in Nodes \ node_live
      BY <1>2, <2>1, <3>1
    <3>. QED
      BY <2>1, <3>1, <3>2 DEF IInv, SharedSlots
  <2>2. ASSUME NEW i \in Fds, NEW k \in Fds, i # k, fd_table'[i] \in Nodes,
               fd_table'[i] = fd_table'[k], node'[fd_table'[i]].kind = "socket"
        PROVE  node'[fd_table'[i]].slot \in shared'
    <3>1. CASE fd_table'[i] = n
      <4>1. Named(n)
        BY <1>1, <2>2, <3>1 DEF Named
      <4>. QED
        BY <1>2, <2>2, <3>1, <4>1
    <3>2. CASE fd_table'[i] # n
      <4>1. fd_table'[i] = fd_table[i] /\ fd_table'[k] = fd_table[k]
        BY <1>1, <2>2, <3>2
      <4>2. node'[fd_table[i]] = node[fd_table[i]]
        BY <1>2, <2>2, <3>2, <4>1
      <4>. QED
        BY <2>2, <4>1, <4>2 DEF IInv, SharedSlots
    <3>. QED
      BY <3>1, <3>2
  <2>. QED
    BY <2>1, <2>2 DEF SharedSlots
<1>6. \A m \in Nodes \ {n} : Named(m)' <=> Named(m)
  BY <1>t, <1>1 DEF Named
<1>. QED
  BY <1>t, <1>2, <1>3, <1>4, <1>5, <1>6

\* sys_open puts a node that nobody has into a free descriptor.
LEMMA OpenInv == IInv /\ sys_open => IInv'
<1>. SUFFICES ASSUME IInv, sys_open PROVE IInv'
  OBVIOUS
<1>0. call = NoCall /\ call' = call
  BY DEF sys_open, InUser
<1>1. CASE FreeFds = {}
  <2>1. UNCHANGED <<fdVars, sockets, pcbVars>>
    BY <1>1 DEF sys_open, fdVars
  <2>2. call'.op # "connect" /\ CallsTyped'
    BY <1>0 DEF NoCall, CallsTyped
  <2>. QED
    BY <2>1, <2>2, CallInv
<1>2. CASE FreeFds # {}
  <2>. DEFINE i == Min(FreeFds)
  <2>1. i \in Fds /\ fd_table[i] = 0
    BY <1>2, FirstFreeFd
  <2>. HIDE DEF i
  <2>2. PICK n \in Nodes \ node_live :
          /\ node' = [node EXCEPT ![n] = FileNode]
          /\ node_live' = node_live \union {n}
          /\ fd_table' = [fd_table EXCEPT ![i] = n]
    BY <1>2 DEF sys_open, Installed, i
  <2>3. UNCHANGED <<accepted, shared, abandoned, sockets, pcbVars>>
    BY DEF sys_open
  <2>4. FileNode \in NodeRecords /\ FileNode.kind = "file"
    BY DEF FileNode, NodeRecords
  <2>5. /\ FdsTyped' /\ DescriptorsSound' /\ SharedSlots'
        /\ \A m \in Nodes \ {n} : Named(m)' <=> Named(m)
        /\ \A m \in node_live : node'[m] = node[m] /\ m # n
        /\ node'[n] = FileNode
    <3>1. abandoned' \subseteq node_live' /\ abandoned \subseteq abandoned'
      BY <2>2, <2>3 DEF IInv, FdsTyped
    <3>. QED
      BY <2>1, <2>2, <2>3, <2>4, <3>1, NodeTaken
  <2>6. SlotsNamed'
    <3>1. node_live \subseteq Nodes
      BY DEF IInv, FdsTyped
    <3>. QED
      BY <2>2, <2>3, <2>4, <2>5, <3>1 DEF IInv, SlotsNamed
  <2>7. TablesTyped' /\ CallsTyped'
    BY <1>0, <2>3 DEF IInv, TablesTyped, CallsTyped, pcbVars
  <2>8. PcbsLinked' /\ PcbsOpen'
    BY <1>0, <2>3, PcbsAlone DEF NoCall
  <2>. QED
    BY <2>5, <2>6, <2>7, <2>8 DEF IInv
<1>. QED
  BY <1>1, <1>2

\* sys_socket takes a slot that no node names, and whose last PCB, if it was not freed,
\* is past tcp_close.
LEMMA SocketInv == IInv /\ sys_socket => IInv'
<1>. SUFFICES ASSUME IInv, sys_socket PROVE IInv'
  OBVIOUS
<1>. DEFINE i == Min(FreeFds)
            s == Min(FreeSlots)
<1>0. call = NoCall
  BY DEF sys_socket, InUser
<1>1. FreeFds # {} => i \in Fds /\ fd_table[i] = 0
  BY FirstFreeFd
<1>2. s \in Slots /\ ~sockets[s].in_use
  <2>1. FreeSlots \subseteq Nat /\ FreeSlots # {}
    BY DEF FreeSlots, sys_socket
  <2>2. s \in FreeSlots
    BY <2>1, MinIn
  <2>. QED
    BY <2>2 DEF FreeSlots
<1>3. PICK n \in Nodes \ node_live, type \in {"STREAM", "DGRAM"} :
        /\ sockets' = [sockets EXCEPT ![s] = Created(s, type)]
        /\ node' = [node EXCEPT ![n] = [kind |-> "socket", slot |-> s]]
        /\ node_live' = node_live \union {n}
        /\ IF FreeFds # {}
             THEN Installed(n) /\ UNCHANGED abandoned
             ELSE abandoned' = abandoned \union {n} /\ UNCHANGED fd_table
        /\ shared' = shared \union {t \in {s} : \E k \in Fds : fd_table[k] = n}
  BY DEF sys_socket
<1>4. UNCHANGED <<accepted, pcbVars, call>>
  BY DEF sys_socket
<1>5. \/ fd_table' = fd_table /\ abandoned' = abandoned \union {n}
      \/ /\ i \in Fds /\ fd_table[i] = 0 /\ fd_table' = [fd_table EXCEPT ![i] = n]
         /\ abandoned' = abandoned
  BY <1>1, <1>3 DEF Installed
<1>. HIDE DEF i, s
<1>6. /\ shared' \subseteq shared \union {s} /\ shared \subseteq shared'
      /\ Named(n) => s \in shared'
  BY <1>3 DEF Named
<1>7. PICK c \in NodeRecords : /\ c = [kind |-> "socket", slot |-> s]
                               /\ c.kind = "socket" /\ c.slot = s
  <2>1. [kind |-> "socket", slot |-> s] \in NodeRecords
    BY <1>2 DEF NodeRecords
  <2>. QED
    BY <2>1
<1>8. /\ FdsTyped' /\ DescriptorsSound' /\ SharedSlots'
      /\ \A m \in Nodes \ {n} : Named(m)' <=> Named(m)
      /\ \A m \in node_live : node'[m] = node[m] /\ m # n
      /\ node'[n] = c
  <2>1. /\ node' = [node EXCEPT ![n] = c] /\ node_live' = node_live \union {n}
        /\ accepted' = accepted
    BY <1>3, <1>4, <1>7
  <2>2. abandoned' \subseteq node_live' /\ abandoned \subseteq abandoned'
    BY <1>3, <1>5 DEF IInv, FdsTyped
  <2>3. \/ fd_table' = fd_table
        \/ \E k \in Fds : fd_table[k] = 0 /\ fd_table' = [fd_table EXCEPT ![k] = n]
    BY <1>5
  <2>4. c.kind = "socket" /\ Named(n) => c.slot \in shared'
    BY <1>6, <1>7
  <2>. QED
    BY <1>2, <1>6, <1>7, <2>1, <2>2, <2>3, <2>4, NodeTaken
<1>9. \A t \in Slots : sockets'[t] = IF t = s THEN Created(s, type) ELSE sockets[t]
  BY <1>2, <1>3 DEF IInv, TablesTyped
<1>10. /\ Created(s, type) \in SocketRecords
       /\ Created(s, type).in_use
       /\ Created(s, type).tcp_pcb = sockets[s].tcp_pcb
  <2>1. sockets[s] \in SocketRecords
    BY <1>2 DEF IInv, TablesTyped
  <2>. QED
    BY <2>1 DEF Created, SocketRecords
<1>11. TablesTyped'
  <2>1. sockets' \in [Slots -> SocketRecords]
    BY <1>2, <1>3, <1>10 DEF IInv, TablesTyped
  <2>. QED
    BY <1>4, <2>1 DEF IInv, TablesTyped, pcbVars
<1>12. SlotsNamed'
  <2>t. /\ node_live \subseteq Nodes /\ abandoned \subseteq node_live
        /\ \A m \in Nodes : node[m].kind = "socket" => node[m].slot \in Slots
        /\ node_live' = node_live \union {n} /\ n \notin node_live
    BY <1>3 DEF IInv, FdsTyped
  <2>1. ASSUME NEW m \in node_live, node[m].kind = "socket", node[m].slot \notin shared
        PROVE  node[m].slot # s /\ sockets'[node[m].slot].in_use
    BY <1>2, <1>9, <2>t, <2>1 DEF IInv, SlotsNamed
  <2>2. ASSUME NEW m \in node_live', node'[m].kind = "socket", node'[m].slot \notin shared'
        PROVE  sockets'[node'[m].slot].in_use /\ (Named(m)' <=> m \notin abandoned')
    <3>1. CASE m = n
      <4>1. node'[m].slot = s /\ sockets'[s].in_use
        BY <1>2, <1>7, <1>8, <1>9, <1>10, <3>1
      <4>2. ~Named(n) /\ n \notin abandoned /\ n \in Nodes
        BY <1>6, <2>2, <2>t, <3>1, <4>1
      <4>3. Named(n)' <=> n \notin abandoned'
        <5>1. CASE fd_table' = fd_table /\ abandoned' = abandoned \union {n}
          BY <4>2, <5>1 DEF Named
        <5>2. CASE /\ i \in Fds /\ fd_table[i] = 0 /\ fd_table' = [fd_table EXCEPT ![i] = n]
                   /\ abandoned' = abandoned
          <6>1. fd_table'[i] = n
            BY <5>2 DEF IInv, FdsTyped
          <6>. QED
            BY <4>2, <5>2, <6>1 DEF Named
        <5>. QED
          BY <1>5, <5>1, <5>2
      <4>. QED
        BY <3>1, <4>1, <4>3
    <3>2. CASE m # n
      <4>1. m \in node_live /\ m \in Nodes /\ node'[m] = node[m] /\ node[m].slot \notin shared
        BY <1>6, <1>8, <2>2, <2>t, <3>2
      <4>2. sockets'[node[m].slot].in_use /\ (Named(m) <=> m \notin abandoned)
        BY <2>1, <2>2, <4>1 DEF IInv, SlotsNamed
      <4>3. (Named(m)' <=> Named(m)) /\ (m \in abandoned' <=> m \in abandoned)
        BY <1>5, <1>8, <3>2, <4>1
      <4>. QED
        BY <4>1, <4>2, <4>3
    <3>. QED
      BY <3>1, <3>2
  <2>3. ASSUME NEW t \in Slots \ shared', sockets'[t].in_use
        PROVE  \E m \in node_live' : node'[m].kind = "socket" /\ node'[m].slot = t
    <3>1. CASE t = s
      BY <1>7, <1>8, <2>t, <3>1
    <3>2. CASE t # s
      <4>1. PICK m \in node_live : node[m].kind = "socket" /\ node[m].slot = t
        BY <1>6, <1>9, <2>3, <3>2 DEF IInv, SlotsNamed
      <4>. QED
        BY <1>8, <2>t, <4>1
    <3>. QED
      BY <3>1, <3>2
  <2>4. ASSUME NEW l \in node_live', NEW m \in node_live',
               node'[l].kind = "socket" /\ node'[m].kind = "socket",
               node'[l].slot = node'[m].slot
        PROVE  l = m \/ node'[m].slot \in shared'
    <3>1. CASE l # n /\ m # n
      <4>1. l \in node_live /\ m \in node_live /\ node'[l] = node[l] /\ node'[m] = node[m]
        BY <1>8, <2>t, <3>1
      <4>. QED
        BY <1>6, <2>4, <4>1 DEF IInv, SlotsNamed
    <3>2. CASE l = n /\ m # n
      <4>1. m \in node_live /\ node'[m] = node[m] /\ node'[m].slot = s
        BY <1>7, <1>8, <2>4, <2>t, <3>2
      <4>. QED
        BY <1>6, <2>1, <2>4, <4>1
    <3>3. CASE l # n /\ m = n
      <4>1. l \in node_live /\ node'[l] = node[l] /\ node'[l].slot = s
        BY <1>7, <1>8, <2>4, <2>t, <3>3
      <4>. QED
        BY <1>6, <2>1, <2>4, <4>1
    <3>. QED
      BY <3>1, <3>2, <3>3
  <2>. QED
    BY <2>2, <2>3, <2>4 DEF SlotsNamed
<1>13. PcbsLinked' /\ PcbsOpen'
  <2>1. \A t \in Slots : sockets'[t].tcp_pcb = sockets[t].tcp_pcb
    BY <1>9, <1>10
  <2>2. \A t \in Slots \ shared : sockets[t].in_use => sockets'[t] = sockets[t]
    BY <1>2, <1>9
  <2>3. UNCHANGED pcbVars /\ call'.op # "connect"
    BY <1>0, <1>4 DEF NoCall
  <2>. QED
    BY <1>6, <2>1, <2>2, <2>3, PcbsAlone
<1>14. CallsTyped'
  BY <1>4 DEF IInv, CallsTyped
<1>. QED
  BY <1>8, <1>11, <1>12, <1>13, <1>14 DEF IInv

\* The calls on sockets go through a descriptor whose node names a slot, which is in use
\* unless accept shared it.
LEMMA SocketFd ==
  ASSUME IInv, NEW i \in SocketFds
  PROVE  /\ SlotOf(i) \in Slots
         /\ fd_table[i] \in Nodes
         /\ SlotOf(i) \notin shared => sockets[SlotOf(i)].in_use
BY DEF SocketFds, SlotOf, IInv, FdsTyped, SlotsNamed

\* Steps that leave the table of PCBs and the links between PCBs and slots alone.
LEMMA LinksKept ==
  ASSUME IInv, UNCHANGED <<pcb_live, tcp_pcbs, stale>>,
         \A t \in Slots : sockets'[t].tcp_pcb = sockets[t].tcp_pcb,
         \A b \in Blocks : pcb'[b].socket = pcb[b].socket
  PROVE  PcbsLinked' /\ \A b \in Blocks : Sole(b)' <=> Sole(b)
<1>1. stale \subseteq Slots /\ pcb_live \subseteq Blocks
  BY DEF IInv, TablesTyped
<1>2. PcbsLinked'
  BY <1>1 DEF IInv, PcbsLinked
<1>3. \A b \in Blocks : Sole(b)' <=> Sole(b)
  BY <1>1 DEF Sole
<1>. QED
  BY <1>2, <1>3

\* A write through a slot or a running call reaches a PCB, if it reaches one, as a whole.
LEMMA WrittenSound ==
  ASSUME IInv, NEW a, NEW p, a \in pcb_live => p \in PcbRecords, pcb' = Written(a, p)
  PROVE  /\ pcb' \in [Blocks -> PcbRecords]
         /\ a \in pcb_live => pcb'[a] = p
         /\ \A b \in Blocks : b # a \/ a \notin pcb_live => pcb'[b] = pcb[b]
<1>1. pcb \in [Blocks -> PcbRecords] /\ pcb_live \subseteq Blocks
  BY DEF IInv, TablesTyped
<1>. QED
  BY <1>1 DEF Written

\* sys_bind changes ports only.
LEMMA BindInv == IInv /\ sys_bind => IInv'
<1>. SUFFICES ASSUME IInv, sys_bind PROVE IInv'
  OBVIOUS
<1>1. PICK i \in SocketFds, o \in Ports :
        /\ sockets' = [sockets EXCEPT ![SlotOf(i)].local_port = o]
        /\ pcb' = Written(sockets[SlotOf(i)].tcp_pcb,
                          [pcb[sockets[SlotOf(i)].tcp_pcb] EXCEPT !.local_port = o])
  BY DEF sys_bind
<1>. DEFINE s == SlotOf(i)
            a == sockets[s].tcp_pcb
            p == [pcb[a] EXCEPT !.local_port = o]
<1>2. s \in Slots
  BY SocketFd
<1>3. UNCHANGED <<fdVars, pcb_live, tcp_pcbs, next_port, stale, call>> /\ call = NoCall
  BY DEF sys_bind, InUser
<1>t. /\ sockets \in [Slots -> SocketRecords] /\ pcb \in [Blocks -> PcbRecords]
      /\ pcb_live \subseteq Blocks /\ o \in Nat /\ stale \subseteq Slots
  BY DEF IInv, TablesTyped
<1>4. sockets' = [sockets EXCEPT ![s].local_port = o] /\ pcb' = Written(a, p)
  BY <1>1
<1>. HIDE DEF s
<1>5. /\ sockets' \in [Slots -> SocketRecords]
      /\ \A t \in Slots : /\ sockets'[t].tcp_pcb = sockets[t].tcp_pcb
                          /\ sockets'[t].in_use = sockets[t].in_use
                          /\ sockets'[t].type = sockets[t].type
  BY <1>2, <1>4, <1>t DEF SocketRecords
<1>. HIDE DEF a
<1>6. a \in pcb_live => /\ p \in PcbRecords
                        /\ p.socket = pcb[a].socket /\ p.state = pcb[a].state
  BY <1>t DEF PcbRecords
<1>. HIDE DEF p
<1>7. /\ pcb' \in [Blocks -> PcbRecords]
      /\ \A b \in Blocks : pcb'[b].socket = pcb[b].socket /\ pcb'[b].state = pcb[b].state
  <2>1. /\ pcb' \in [Blocks -> PcbRecords]
        /\ a \in pcb_live => pcb'[a] = p
        /\ \A b \in Blocks : b # a \/ a \notin pcb_live => pcb'[b] = pcb[b]
    BY <1>4, <1>6, WrittenSound
  <2>. QED
    BY <1>6, <2>1
<1>8. FdsTyped' /\ DescriptorsSound' /\ SlotsNamed' /\ SharedSlots'
  BY <1>3, <1>5, FdsAlone
<1>9. TablesTyped' /\ CallsTyped'
  BY <1>3, <1>5, <1>7 DEF IInv, TablesTyped, CallsTyped
<1>10. PcbsLinked' /\ \A b \in Blocks : Sole(b)' <=> Sole(b)
  BY <1>3, <1>5, <1>7, LinksKept
<1>11. PcbsOpen'
  <2>1. ASSUME NEW b \in pcb_live, pcb'[b].state \in Open PROVE Opened(b)'
    <3>1. Opened(b) /\ pcb[b].socket \in Slots
      BY <1>7, <1>t, <2>1 DEF IInv, PcbsOpen, PcbsLinked
    <3>2. shared' = shared
      BY <1>3 DEF fdVars
    <3>. QED
      BY <1>5, <1>7, <1>10, <1>t, <3>1, <3>2 DEF Opened, Stream
  <2>. QED
    BY <1>3, <2>1 DEF PcbsOpen, NoCall
<1>. QED
  BY <1>8, <1>9, <1>10, <1>11 DEF IInv

\* What StorePcb does to the tables: the PCB of the slot, if there is one, keeps its
\* slot, and a new one is linked with it.
Stored ==
  /\ sockets' \in [Slots -> SocketRecords]
  /\ pcb' \in [Blocks -> PcbRecords]
  /\ pcb_live' \subseteq Blocks
  /\ tcp_pcbs' \in [Places -> Blocks \union {0}]
  /\ \A t \in Slots : /\ sockets'[t].in_use = sockets[t].in_use
                      /\ sockets'[t].type = sockets[t].type
  /\ PcbsLinked'
  /\ \A b \in pcb_live' : pcb'[b].state \in Open => Opened(b)'

LEMMA StorePcbInv ==
  ASSUME IInv, NEW s \in Slots, NEW p \in PcbRecords, StorePcb(s, p),
         p.socket = PcbOf(s).socket,
         UNCHANGED <<fdVars, stale>>,
         Stream(s), s \notin shared => sockets[s].in_use
  PROVE  Stored
<1>t. /\ sockets \in [Slots -> SocketRecords]
      /\ pcb \in [Blocks -> PcbRecords]
      /\ pcb_live \subseteq Blocks
      /\ tcp_pcbs \in [Places -> Blocks \union {0}]
      /\ sockets[s].tcp_pcb \in Blocks \union {0}
      /\ stale \subseteq Slots
  BY DEF IInv, TablesTyped, SocketRecords
<1>n. (\E n \in PcbTables : Places = 1 .. n) /\ Places \subseteq Nat
  BY DEF IInv, TablesTyped
<1>u. UNCHANGED <<shared, stale>>
  BY DEF fdVars
<1>. DEFINE a == sockets[s].tcp_pcb
            empty == {j \in DOMAIN tcp_pcbs : tcp_pcbs[j] = 0}
<1>1. CASE /\ a # 0
           /\ pcb' = Written(a, p)
           /\ UNCHANGED <<sockets, pcb_live, tcp_pcbs>>
  <2>1. a \in Blocks /\ p.socket = pcb[a].socket
    BY <1>t, <1>1 DEF PcbOf
  <2>s. ASSUME s \notin stale, a \in pcb_live PROVE pcb[a].socket = s
    BY <1>1, <2>s DEF IInv, PcbsLinked
  <2>a. ASSUME Sole(a) PROVE s \notin stale
    BY <2>a DEF Sole
  <2>. HIDE DEF a
  <2>2. /\ pcb' \in [Blocks -> PcbRecords]
        /\ a \in pcb_live => pcb'[a] = p
        /\ \A b \in Blocks : b # a \/ a \notin pcb_live => pcb'[b] = pcb[b]
    BY <1>1, WrittenSound
  <2>3. \A b \in Blocks : pcb'[b].socket = pcb[b].socket
    BY <2>1, <2>2
  <2>4. PcbsLinked' /\ \A b \in Blocks : Sole(b)' <=> Sole(b)
    BY <1>1, <1>u, <2>3, LinksKept
  <2>5. ASSUME NEW b \in pcb_live, pcb'[b].state \in Open PROVE Opened(b)'
    <3>1. SUFFICES ASSUME Sole(b), pcb[b].socket \notin shared
                   PROVE  sockets[pcb[b].socket].in_use /\ Stream(pcb[b].socket)
      BY <1>1, <1>t, <1>u, <2>3, <2>4 DEF Opened, Stream
    <3>2. CASE b = a
      <4>1. s \notin stale
        BY <2>a, <3>1, <3>2
      <4>2. pcb[b].socket = s
        BY <2>s, <2>5, <3>2, <4>1
      <4>. QED
        BY <3>1, <4>2
    <3>3. CASE b # a
      <4>1. pcb'[b] = pcb[b]
        BY <1>t, <2>2, <3>3
      <4>. QED
        BY <2>5, <3>1, <4>1 DEF IInv, PcbsOpen, Opened
    <3>. QED
      BY <3>2, <3>3
  <2>. QED
    BY <1>t, <1>1, <2>2, <2>4, <2>5 DEF Stored
<1>2. CASE /\ a = 0 /\ empty # {}
           /\ \E b \in Blocks \ pcb_live :
                /\ pcb' = [pcb EXCEPT ![b] = p]
                /\ pcb_live' = pcb_live \union {b}
                /\ tcp_pcbs' = [tcp_pcbs EXCEPT ![Min(empty)] = b]
                /\ sockets' = [sockets EXCEPT ![s].tcp_pcb = b]
  <2>. DEFINE k == Min(empty)
  <2>1. PICK b \in Blocks \ pcb_live :
          /\ pcb' = [pcb EXCEPT ![b] = p]
          /\ pcb_live' = pcb_live \union {b}
          /\ tcp_pcbs' = [tcp_pcbs EXCEPT ![k] = b]
          /\ sockets' = [sockets EXCEPT ![s].tcp_pcb = b]
    BY <1>2
  <2>2. k \in Places /\ tcp_pcbs[k] = 0
    <3>1. empty \subseteq Nat
      BY <1>n
    <3>2. k \in empty
      BY <1>2, <3>1, MinIn
    <3>. QED
      BY <1>t, <3>2
  <2>3. p.socket = s /\ s \notin stale
    BY <1>2 DEF PcbOf, EmptyPcb, IInv, PcbsLinked
  <2>. HIDE DEF k, empty
  <2>4. sockets[s] \in SocketRecords /\ b \in Blocks /\ b # 0
    BY <1>t, <2>1
  <2>5. [sockets[s] EXCEPT !.tcp_pcb = b] \in SocketRecords
    BY <2>4 DEF SocketRecords
  <2>6. /\ sockets' \in [Slots -> SocketRecords]
        /\ \A t \in Slots \ {s} : sockets'[t] = sockets[t]
        /\ sockets'[s] = [sockets[s] EXCEPT !.tcp_pcb = b]
    BY <1>t, <2>1, <2>5
  <2>7. /\ sockets'[s].tcp_pcb = b
        /\ sockets'[s].in_use = sockets[s].in_use
        /\ sockets'[s].type = sockets[s].type
    BY <2>4, <2>6 DEF SocketRecords
  <2>8. pcb' \in [Blocks -> PcbRecords] /\ pcb'[b] = p /\ \A c \in Blocks \ {b} : pcb'[c] = pcb[c]
    BY <1>t, <2>1
  <2>9. /\ pcb_live' \subseteq Blocks
        /\ tcp_pcbs' \in [Places -> Blocks \union {0}] /\ Places' = Places
    BY <1>t, <2>1, <2>2
  <2>10. PcbsLinked'
    <3>1. /\ \A j \in Places : tcp_pcbs'[j] # 0 => tcp_pcbs'[j] \in pcb_live'
          /\ \A j, l \in Places : tcp_pcbs'[j] # 0 /\ tcp_pcbs'[j] = tcp_pcbs'[l] => j = l
      BY <1>t, <2>1, <2>2 DEF IInv, PcbsLinked
    <3>2. ASSUME NEW c \in pcb_live'
          PROVE  pcb'[c].socket \in Slots \ stale' /\ sockets'[pcb'[c].socket].tcp_pcb = c
      <4>1. CASE c = b
        BY <1>u, <2>3, <2>7, <2>8, <4>1
      <4>2. CASE c # b
        <5>1. c \in pcb_live /\ pcb'[c] = pcb[c]
          BY <1>t, <2>1, <2>8, <4>2
        <5>2. pcb[c].socket \in Slots \ stale /\ sockets[pcb[c].socket].tcp_pcb = c
          BY <5>1 DEF IInv, PcbsLinked
        <5>3. c # 0
          BY <1>t, <5>1
        <5>4. pcb[c].socket # s
          BY <1>2, <5>2, <5>3
        <5>. QED
          BY <1>u, <2>6, <5>1, <5>2, <5>4
      <4>. QED
        BY <4>1, <4>2
    <3>3. ASSUME NEW t \in Slots \ stale', sockets'[t].tcp_pcb # 0
          PROVE  sockets'[t].tcp_pcb \in pcb_live' /\ pcb'[sockets'[t].tcp_pcb].socket = t
      <4>1. CASE t = s
        BY <2>1, <2>3, <2>7, <2>8, <4>1
      <4>2. CASE t # s
        <5>1. sockets'[t] = sockets[t]
          BY <2>6, <4>2
        <5>2. sockets[t].tcp_pcb \in pcb_live /\ pcb[sockets[t].tcp_pcb].socket = t
          BY <1>u, <3>3, <5>1 DEF IInv, PcbsLinked
        <5>3. pcb'[sockets[t].tcp_pcb] = pcb[sockets[t].tcp_pcb]
          BY <1>t, <2>8, <5>2
        <5>4. sockets'[t].tcp_pcb = sockets[t].tcp_pcb /\ pcb_live \subseteq pcb_live'
          BY <2>1, <5>1
        <5>. QED
          BY <5>2, <5>3, <5>4
      <4>. QED
        BY <4>1, <4>2
    <3>4. ASSUME NEW t \in stale' PROVE sockets'[t].tcp_pcb # 0
      <4>1. t # s /\ t \in Slots /\ sockets[t].tcp_pcb # 0
        BY <1>t, <1>u, <2>3 DEF IInv, PcbsLinked
      <4>. QED
        BY <2>6, <4>1
    <3>. QED
      BY <2>9, <3>1, <3>2, <3>3, <3>4 DEF PcbsLinked
  <2>11. ASSUME NEW c \in pcb_live', pcb'[c].state \in Open PROVE Opened(c)'
    <3>1. SUFFICES ASSUME Sole(c)', pcb'[c].socket \notin shared
                   PROVE  sockets'[pcb'[c].socket].in_use /\ Stream(pcb[c].socket)'
      BY <1>u DEF Opened
    <3>2. CASE c = b
      BY <2>3, <2>7, <2>8, <3>1, <3>2 DEF Stream
    <3>3. CASE c # b
      <4>1. c \in pcb_live /\ pcb'[c] = pcb[c]
        BY <1>t, <2>1, <2>8, <3>3
      <4>2. Sole(c)
        <5>1. \A t \in stale : t # s /\ t \in Slots /\ sockets'[t] = sockets[t]
          BY <1>t, <2>3, <2>6
        <5>. QED
          BY <1>u, <3>1, <5>1 DEF Sole
      <4>3. sockets[pcb[c].socket].in_use /\ Stream(pcb[c].socket) /\ pcb[c].socket \in Slots
        BY <2>11, <3>1, <4>1, <4>2 DEF IInv, PcbsOpen, PcbsLinked, Opened
      <4>4. /\ sockets'[pcb[c].socket].in_use = sockets[pcb[c].socket].in_use
            /\ sockets'[pcb[c].socket].type = sockets[pcb[c].socket].type
        BY <2>6, <2>7, <4>3
      <4>. QED
        BY <4>1, <4>3, <4>4 DEF Stream
    <3>. QED
      BY <3>2, <3>3
  <2>12. \A t \in Slots : /\ sockets'[t].in_use = sockets[t].in_use
                          /\ sockets'[t].type = sockets[t].type
    BY <2>6, <2>7
  <2>. QED
    BY <2>6, <2>8, <2>9, <2>10, <2>11, <2>12 DEF Stored
<1>3. CASE UNCHANGED <<sockets, pcb, pcb_live, tcp_pcbs>>
  <2>1. PcbsLinked' /\ \A b \in Blocks : Sole(b)' <=> Sole(b)
    BY <1>3, <1>u, LinksKept
  <2>2. ASSUME NEW b \in pcb_live, pcb[b].state \in Open PROVE Opened(b)'
    BY <1>3, <1>t, <1>u, <2>1, <2>2 DEF IInv, PcbsOpen, Opened, Stream
  <2>. QED
    BY <1>t, <1>3, <2>1, <2>2 DEF Stored
<1>. QED
  BY <1>1, <1>2, <1>3 DEF StorePcb

LEMMA PcbOfTyped ==
  ASSUME IInv, NEW s \in Slots
  PROVE  PcbOf(s) \in PcbRecords
<1>1. sockets[s] \in SocketRecords /\ pcb \in [Blocks -> PcbRecords]
  BY DEF IInv, TablesTyped
<1>2. CASE sockets[s].tcp_pcb # 0
  BY <1>1, <1>2 DEF PcbOf, SocketRecords
<1>3. CASE sockets[s].tcp_pcb = 0
  BY <1>3 DEF PcbOf, EmptyPcb, PcbRecords, States
<1>. QED
  BY <1>2, <1>3

\* sys_connect up to its schedule() calls.
LEMMA ConnectInv == IInv /\ sys_connect => IInv'
<1>. SUFFICES ASSUME IInv, sys_connect PROVE IInv'
  OBVIOUS
<1>1. PICK i \in SocketFds, h \in Hosts :
        /\ Stream(SlotOf(i))
        /\ StorePcb(SlotOf(i),
                    [PcbOf(SlotOf(i)) EXCEPT !.local_port = next_port, !.remote = h])
        /\ call' = [op |-> "connect", node |-> fd_table[i],
                    block |-> sockets'[SlotOf(i)].tcp_pcb]
  BY DEF sys_connect
<1>. DEFINE s == SlotOf(i)
            p == [PcbOf(s) EXCEPT !.local_port = next_port, !.remote = h]
<1>2. /\ s \in Slots
      /\ fd_table[i] \in Nodes
      /\ s \notin shared => sockets[s].in_use
  BY SocketFd
<1>3. UNCHANGED <<fdVars, stale>> /\ next_port' \in Nat
  BY DEF sys_connect, IInv, TablesTyped
<1>. HIDE DEF s
<1>4. p \in PcbRecords /\ p.socket = PcbOf(s).socket
  <2>1. PcbOf(s) \in PcbRecords /\ next_port \in Nat
    BY <1>2, PcbOfTyped DEF IInv, TablesTyped
  <2>. QED
    BY <2>1 DEF PcbRecords
<1>. HIDE DEF p
<1>5. StorePcb(s, p) /\ Stream(s)
  BY <1>1 DEF s, p
<1>6. Stored
  BY <1>2, <1>3, <1>4, <1>5, StorePcbInv
<1>7. FdsTyped' /\ DescriptorsSound' /\ SlotsNamed' /\ SharedSlots'
  BY <1>3, <1>6, FdsAlone DEF Stored
<1>8. /\ call'.op = "connect" /\ call'.node \in Nodes
      /\ call'.block = sockets'[s].tcp_pcb /\ call'.block \in Blocks \union {0}
  <2>1. sockets'[s].tcp_pcb \in Blocks \union {0}
    BY <1>2, <1>6 DEF SocketRecords, Stored
  <2>. QED
    BY <1>1, <1>2, <2>1 DEF s
<1>9. TablesTyped' /\ CallsTyped'
  BY <1>3, <1>6, <1>8 DEF IInv, TablesTyped, CallsTyped, Stored
<1>10. PcbsOpen'
  <2>1. ASSUME call'.block \in pcb_live' PROVE Opened(call.block)'
    <3>1. SUFFICES ASSUME Sole(call.block)', (pcb[call.block].socket \notin shared)'
                   PROVE  (sockets[pcb[call.block].socket].in_use
                             /\ Stream(pcb[call.block].socket))'
      BY DEF Opened
    <3>2. s \notin stale'
      BY <1>8, <3>1 DEF Sole
    <3>3. pcb'[call'.block].socket = s
      <4>1. sockets'[s].tcp_pcb # 0
        BY <1>6, <1>8, <2>1 DEF Stored
      <4>. QED
        BY <1>2, <1>6, <1>8, <3>2, <4>1 DEF PcbsLinked, Stored
    <3>4. s \notin shared /\ sockets'[s].in_use /\ sockets'[s].type = "STREAM"
      BY <1>2, <1>3, <1>5, <1>6, <3>1, <3>3 DEF Stream, fdVars, Stored
    <3>. QED
      BY <3>3, <3>4 DEF Stream
  <2>. QED
    BY <1>6, <2>1 DEF PcbsOpen, Stored
<1>. QED
  BY <1>6, <1>7, <1>9, <1>10 DEF IInv, Stored

\* sys_listen.
LEMMA ListenInv == IInv /\ sys_listen => IInv'
<1>. SUFFICES ASSUME IInv, sys_listen PROVE IInv'
  OBVIOUS
<1>1. PICK i \in SocketFds :
        /\ Stream(SlotOf(i))
        /\ StorePcb(SlotOf(i),
                    [PcbOf(SlotOf(i)) EXCEPT !.local_port = sockets[SlotOf(i)].local_port,
                                             !.state = "LISTEN"])
  BY DEF sys_listen
<1>. DEFINE s == SlotOf(i)
            p == [PcbOf(s) EXCEPT !.local_port = sockets[s].local_port, !.state = "LISTEN"]
<1>2. s \in Slots /\ (s \notin shared => sockets[s].in_use)
  BY SocketFd
<1>3. UNCHANGED <<fdVars, next_port, stale, call>> /\ InUser
  BY DEF sys_listen
<1>. HIDE DEF s
<1>4. p \in PcbRecords /\ p.socket = PcbOf(s).socket
  <2>1. PcbOf(s) \in PcbRecords /\ sockets[s].local_port \in Nat
    BY <1>2, PcbOfTyped DEF IInv, TablesTyped, SocketRecords
  <2>. QED
    BY <2>1 DEF PcbRecords, States
<1>. HIDE DEF p
<1>5. StorePcb(s, p) /\ Stream(s)
  BY <1>1 DEF s, p
<1>6. Stored
  BY <1>2, <1>3, <1>4, <1>5, StorePcbInv
<1>7. FdsTyped' /\ DescriptorsSound' /\ SlotsNamed' /\ SharedSlots'
  BY <1>3, <1>6, FdsAlone DEF Stored
<1>8. TablesTyped' /\ CallsTyped'
  BY <1>3, <1>6 DEF IInv, TablesTyped, CallsTyped, Stored
<1>9. PcbsOpen'
  BY <1>3, <1>6 DEF PcbsOpen, InUser, NoCall, Stored
<1>. QED
  BY <1>6, <1>7, <1>8, <1>9 DEF IInv, Stored

\* The SYN of connect goes out from the PCB of an open stream socket.
LEMMA ConnectSynInv == IInv /\ connect_syn => IInv'
<1>. SUFFICES ASSUME IInv, connect_syn PROVE IInv'
  OBVIOUS
<1>. DEFINE a == call.block
            p == [pcb[a] EXCEPT !.state = "SYN_SENT"]
<1>1. UNCHANGED <<fdVars, sockets, pcb_live, tcp_pcbs, next_port, stale>>
  BY DEF connect_syn
<1>2. call.op = "connect" /\ call' = NoCall /\ pcb' = Written(a, p)
  BY DEF connect_syn
<1>t. /\ pcb \in [Blocks -> PcbRecords] /\ pcb_live \subseteq Blocks
      /\ a \in pcb_live => Opened(a)
  BY <1>2 DEF IInv, TablesTyped, PcbsOpen
<1>. HIDE DEF a
<1>3. a \in pcb_live => p \in PcbRecords /\ p.socket = pcb[a].socket
  BY <1>t DEF PcbRecords, States
<1>. HIDE DEF p
<1>4. /\ pcb' \in [Blocks -> PcbRecords]
      /\ a \in pcb_live => pcb'[a] = p
      /\ \A b \in Blocks : b # a \/ a \notin pcb_live => pcb'[b] = pcb[b]
  BY <1>2, <1>3, WrittenSound
<1>5. \A b \in Blocks : pcb'[b].socket = pcb[b].socket
  BY <1>3, <1>4
<1>6. FdsTyped' /\ DescriptorsSound' /\ SlotsNamed' /\ SharedSlots'
  BY <1>1, FdsAlone
<1>7. TablesTyped' /\ CallsTyped'
  BY <1>1, <1>2, <1>4 DEF IInv, TablesTyped, CallsTyped, NoCall
<1>8. PcbsLinked' /\ \A b \in Blocks : Sole(b)' <=> Sole(b)
  BY <1>1, <1>5, LinksKept
<1>9. PcbsOpen'
  <2>1. ASSUME NEW b \in pcb_live, pcb'[b].state \in Open PROVE Opened(b)'
    <3>1. Opened(b)
      <4>1. CASE b = a
        BY <1>t, <4>1
      <4>2. CASE b # a
        BY <1>4, <1>t, <2>1, <4>2 DEF IInv, PcbsOpen
      <4>. QED
        BY <4>1, <4>2
    <3>. QED
      BY <1>1, <1>5, <1>8, <1>t, <3>1 DEF Opened, Stream, fdVars
  <2>. QED
    BY <1>1, <1>2, <2>1 DEF PcbsOpen, NoCall
<1>. QED
  BY <1>6, <1>7, <1>8, <1>9 DEF IInv

LEMMA AcceptInv == IInv /\ sys_accept => IInv'
<1>. SUFFICES ASSUME IInv, sys_accept PROVE IInv'
  OBVIOUS
<1>1. UNCHANGED <<fdVars, sockets, pcbVars>>
  BY DEF sys_accept
<1>2. PICK i \in SocketFds :
        call' = [op |-> "accept", node |-> fd_table[i],
                 block |-> sockets[SlotOf(i)].tcp_pcb]
  BY DEF sys_accept
<1>3. fd_table[i] \in Nodes /\ sockets[SlotOf(i)].tcp_pcb \in Blocks \union {0}
  BY SocketFd DEF IInv, TablesTyped, SocketRecords
<1>4. call'.op = "accept" /\ CallsTyped'
  BY <1>2, <1>3 DEF CallsTyped
<1>. QED
  BY <1>1, <1>4, CallInv

\* When accept returns, the node it gives a second descriptor and its slot are on record.
LEMMA AcceptReturnInv == IInv /\ accept_return => IInv'
<1>. SUFFICES ASSUME IInv, accept_return PROVE IInv'
  OBVIOUS
<1>1. UNCHANGED <<node, node_live, abandoned, sockets, pcbVars>> /\ call' = NoCall
  BY DEF accept_return
<1>2. CASE FreeFds = {}
  <2>1. UNCHANGED fdVars
    BY <1>1, <1>2 DEF accept_return, fdVars
  <2>. QED
    BY <1>1, <2>1, CallInv DEF NoCall, CallsTyped
<1>3. CASE FreeFds # {}
  <2>. DEFINE i == Min(FreeFds)
              n == call.node
  <2>1. i \in Fds /\ fd_table[i] = 0
    BY <1>3, FirstFreeFd
  <2>2. /\ fd_table' = [fd_table EXCEPT ![i] = n]
        /\ accepted' = accepted \union {n}
        /\ shared' = shared \union {node[n].slot}
    BY <1>3 DEF accept_return, Installed
  <2>3. n \in Nodes
    BY <1>3 DEF accept_return, IInv, CallsTyped
  <2>. HIDE DEF i, n
  <2>t. /\ fd_table \in [Fds -> Nodes \union {0}] /\ 0 \notin Nodes /\ node_live \subseteq Nodes
        /\ fd_table'[i] = n /\ \A k \in Fds \ {i} : fd_table'[k] = fd_table[k]
    BY <2>1, <2>2 DEF IInv, FdsTyped
  <2>4. FdsTyped'
    BY <1>1, <2>1, <2>2, <2>3 DEF IInv, FdsTyped
  <2>5. DescriptorsSound'
    BY <1>1, <2>1, <2>2, <2>3, <2>t DEF IInv, DescriptorsSound
  <2>6. SharedSlots'
    <3>1. ASSUME NEW k \in Fds, fd_table'[k] \in Nodes \ node_live,
                 node[fd_table'[k]].kind = "socket"
          PROVE  node[fd_table'[k]].slot \in shared'
      BY <2>2, <2>t, <3>1 DEF IInv, SharedSlots
    <3>2. ASSUME NEW k \in Fds, NEW l \in Fds, k # l, fd_table'[k] \in Nodes,
                 fd_table'[k] = fd_table'[l], node[fd_table'[k]].kind = "socket"
          PROVE  node[fd_table'[k]].slot \in shared'
      <4>1. CASE k = i \/ l = i
        BY <2>2, <2>t, <3>2, <4>1
      <4>2. CASE k # i /\ l # i
        BY <2>2, <2>t, <3>2, <4>2 DEF IInv, SharedSlots
      <4>. QED
        BY <4>1, <4>2
    <3>. QED
      BY <1>1, <3>1, <3>2 DEF SharedSlots
  <2>7. SlotsNamed'
    <3>1. \A m \in Nodes \ {n} : Named(m)' <=> Named(m)
      BY <2>1, <2>t DEF Named
    <3>2. ASSUME NEW m \in node_live, node[m].kind = "socket", node[m].slot \notin shared'
          PROVE  sockets[node[m].slot].in_use /\ (Named(m)' <=> m \notin abandoned)
      <4>1. m # n /\ m \in Nodes /\ node[m].slot \notin shared
        BY <2>2, <2>t, <3>2
      <4>. QED
        BY <3>1, <3>2, <4>1 DEF IInv, SlotsNamed
    <3>3. shared \subseteq shared'
      BY <2>2
    <3>4. SlotsNamed
      BY DEF IInv
    <3>. QED
      BY <1>1, <3>2, <3>3, <3>4 DEF SlotsNamed
  <2>8. TablesTyped' /\ CallsTyped'
    BY <1>1 DEF IInv, TablesTyped, CallsTyped, NoCall, pcbVars
  <2>9. PcbsLinked' /\ PcbsOpen'
    <3>1. shared \subseteq shared' /\ call'.op # "connect"
      BY <1>1, <2>2 DEF NoCall
    <3>. QED
      BY <1>1, <3>1, PcbsAlone
  <2>. QED
    BY <2>4, <2>5, <2>6, <2>7, <2>8, <2>9 DEF IInv
<1>. QED
  BY <1>2, <1>3

\* socket_close frees the slot and takes its PCB out of the open states.
LEMMA SocketCloseInv ==
  ASSUME IInv, NEW s \in Slots, socket_close(s),
         UNCHANGED <<shared, pcb_live, tcp_pcbs, stale>>
  PROVE  /\ sockets' \in [Slots -> SocketRecords]
         /\ pcb' \in [Blocks -> PcbRecords]
         /\ \A t \in Slots \ {s} : sockets'[t] = sockets[t]
         /\ ~sockets'[s].in_use
         /\ PcbsLinked'
         /\ \A b \in pcb_live : pcb'[b].state \in Open => Opened(b)'
<1>t. /\ sockets \in [Slots -> SocketRecords]
      /\ pcb \in [Blocks -> PcbRecords]
      /\ pcb_live \subseteq Blocks
      /\ sockets[s] \in SocketRecords
  BY DEF IInv, TablesTyped
<1>. DEFINE a == sockets[s].tcp_pcb
            st == CloseState(pcb[a].state)
            p == [pcb[a] EXCEPT !.state = st]
            closed == [sockets[s] EXCEPT !.in_use = FALSE, !.local_port = 0]
<1>1. /\ sockets' = [sockets EXCEPT ![s] = closed]
      /\ pcb' = IF Stream(s) THEN Written(a, p) ELSE pcb
  BY <1>t DEF socket_close
<1>2. /\ closed \in SocketRecords
      /\ ~closed.in_use
      /\ closed.tcp_pcb = sockets[s].tcp_pcb
  BY <1>t DEF SocketRecords
<1>. HIDE DEF closed
<1>3. /\ sockets' \in [Slots -> SocketRecords]
      /\ \A t \in Slots \ {s} : sockets'[t] = sockets[t]
      /\ sockets'[s] = closed
  BY <1>t, <1>1, <1>2
<1>s. st \in States \ Open
  BY DEF CloseState, States, Open
<1>. HIDE DEF st
<1>p. a \in pcb_live => p \in PcbRecords /\ p.socket = pcb[a].socket /\ p.state \notin Open
  BY <1>t, <1>s DEF PcbRecords
<1>. HIDE DEF p
<1>4. /\ pcb' \in [Blocks -> PcbRecords]
      /\ Stream(s) /\ a \in pcb_live => pcb'[a] = p
      /\ \A b \in Blocks : ~Stream(s) \/ b # a \/ a \notin pcb_live => pcb'[b] = pcb[b]
  <2>1. CASE Stream(s)
    <3>1. pcb' = Written(a, p)
      BY <1>1, <2>1
    <3>. HIDE DEF a
    <3>2. /\ pcb' \in [Blocks -> PcbRecords]
          /\ a \in pcb_live => pcb'[a] = p
          /\ \A b \in Blocks : b # a \/ a \notin pcb_live => pcb'[b] = pcb[b]
      BY <1>p, <3>1, WrittenSound
    <3>. QED
      BY <2>1, <3>2
  <2>2. CASE ~Stream(s)
    BY <1>t, <1>1, <2>2
  <2>. QED
    BY <2>1, <2>2
<1>5. \A t \in Slots : sockets'[t].tcp_pcb = sockets[t].tcp_pcb
  BY <1>2, <1>3
<1>6. \A b \in Blocks : pcb'[b].socket = pcb[b].socket
  BY <1>4, <1>p
<1>7. PcbsLinked' /\ \A b \in Blocks : Sole(b)' <=> Sole(b)
  BY <1>5, <1>6, LinksKept
<1>8. ASSUME NEW b \in pcb_live, pcb'[b].state \in Open PROVE Opened(b)'
  <2>1. SUFFICES ASSUME Sole(b), pcb[b].socket \notin shared
                 PROVE  sockets'[pcb[b].socket].in_use /\ Stream(pcb[b].socket)'
    BY <1>6, <1>7, <1>t DEF Opened
  <2>2. pcb[b].socket \in Slots \ stale /\ sockets[pcb[b].socket].tcp_pcb = b
    BY DEF IInv, PcbsLinked
  <2>3. pcb'[b] = pcb[b]
    BY <1>4, <1>8, <1>p, <1>t
  <2>4. sockets[pcb[b].socket].in_use /\ Stream(pcb[b].socket)
    BY <1>8, <2>1, <2>3 DEF IInv, PcbsOpen, Opened
  <2>5. pcb[b].socket # s
    BY <1>4, <1>8, <1>p, <2>2, <2>4
  <2>6. sockets'[pcb[b].socket] = sockets[pcb[b].socket]
    BY <1>3, <2>2, <2>5
  <2>. QED
    BY <2>3, <2>4, <2>6 DEF Stream
<1>. QED
  BY <1>2, <1>3, <1>4, <1>7, <1>8

\* sys_close: the one descriptor of the node goes with the node, and with the slot if
\* it is a socket's.
LEMMA CloseInv == IInv /\ sys_close => IInv'
<1>. SUFFICES ASSUME IInv, sys_close PROVE IInv'
  OBVIOUS
<1>1. PICK i \in Fds, n \in Nodes :
        /\ fd_table[i] = n
        /\ IF node[n].kind = "socket"
             THEN socket_close(node[n].slot) ELSE UNCHANGED <<sockets, pcb>>
        /\ node_live' = node_live \ {n}
        /\ fd_table' = [fd_table EXCEPT ![i] = 0]
        /\ node' = [node EXCEPT ![n] = IF Named(n)' THEN @ ELSE NoNode]
        /\ accepted' = {m \in accepted : m # n \/ Named(m)'}
        /\ abandoned' = abandoned \ {n}
  BY DEF sys_close, Cleared
<1>2. /\ UNCHANGED <<shared, pcb_live, tcp_pcbs, next_port, stale, call>>
      /\ call = NoCall
  BY DEF sys_close, InUser
<1>. DEFINE s == node[n].slot
<1>t. /\ fd_table \in [Fds -> Nodes \union {0}] /\ node \in [Nodes -> NodeRecords]
      /\ 0 \notin Nodes /\ node_live \subseteq Nodes /\ abandoned \subseteq node_live
      /\ accepted \subseteq Nodes
      /\ \A m \in Nodes : node[m].kind = "socket" => node[m].slot \in Slots
  BY DEF IInv, FdsTyped
<1>3. n \in Nodes
  BY <1>1, <1>t
<1>x. /\ fd_table[i] = n /\ fd_table'[i] = 0
      /\ \A k \in Fds \ {i} : fd_table'[k] = fd_table[k]
      /\ fd_table' \in [Fds -> Nodes \union {0}]
  BY <1>1, <1>t
<1>4. /\ node' \in [Nodes -> NodeRecords] /\ (node'[n] = node[n] \/ node'[n] = NoNode)
      /\ \A m \in Nodes \ {n} : node'[m] = node[m]
  <2>1. NoNode \in NodeRecords
    BY DEF NoNode, NodeRecords
  <2>. QED
    BY <1>1, <1>3, <1>t, <2>1
<1>n. \A m \in Nodes \ {n} : Named(m)' <=> Named(m)
  BY <1>t, <1>x DEF Named
<1>k. \A k \in Fds : fd_table'[k] = n => k # i /\ fd_table[k] = n
  BY <1>3, <1>t, <1>x
<1>l. node_live' = node_live \ {n} /\ abandoned' = abandoned \ {n}
  BY <1>1
<1>5. FdsTyped'
  <2>1. \A m \in Nodes : node'[m].kind = "socket" => node'[m].slot \in Slots
    BY <1>3, <1>4, <1>t DEF NoNode
  <2>2. accepted' \subseteq accepted
    BY <1>1
  <2>. QED
    BY <1>4, <1>l, <1>t, <1>x, <2>1, <2>2 DEF FdsTyped
<1>6. DescriptorsSound'
  <2>1. SUFFICES ASSUME NEW k \in Fds, fd_table'[k] \notin accepted' \union {0}
                 PROVE  /\ fd_table'[k] \in node_live'
                        /\ \A l \in Fds \ {k} : fd_table'[l] # fd_table'[k]
    BY DEF DescriptorsSound
  <2>2. k # i /\ fd_table'[k] = fd_table[k] /\ fd_table[k] # 0
    BY <1>x, <2>1
  <2>3. fd_table[k] \notin accepted
    BY <1>1, <2>1, <2>2 DEF Named
  <2>4. fd_table[k] \in node_live /\ \A l \in Fds \ {k} : fd_table[l] # fd_table[k]
    BY <2>2, <2>3 DEF IInv, DescriptorsSound
  <2>5. fd_table[k] # n
    BY <1>x, <2>2, <2>4
  <2>. QED
    BY <1>l, <1>x, <2>2, <2>4, <2>5
<1>7. CallsTyped'
  BY <1>2 DEF IInv, CallsTyped
<1>s. node[n].kind = "socket" /\ s \notin shared =>
        n \in node_live /\ \A k \in Fds \ {i} : fd_table[k] # n
  BY <1>3, <1>x DEF IInv, SharedSlots
<1>8. SharedSlots'
  <2>1. ASSUME NEW k \in Fds, fd_table'[k] \in Nodes \ node_live',
               node'[fd_table'[k]].kind = "socket"
        PROVE  node'[fd_table'[k]].slot \in shared
    <3>1. k # i /\ fd_table'[k] = fd_table[k] /\ fd_table[k] \in Nodes
      BY <1>t, <1>x, <2>1
    <3>2. CASE fd_table[k] = n
      <4>1. node'[n] = node[n]
        BY <1>4, <2>1, <3>1, <3>2 DEF NoNode
      <4>. QED
        BY <1>s, <2>1, <3>1, <3>2, <4>1
    <3>3. CASE fd_table[k] # n
      <4>1. node'[fd_table[k]] = node[fd_table[k]] /\ fd_table[k] \notin node_live
        BY <1>4, <1>l, <2>1, <3>1, <3>3
      <4>. QED
        BY <2>1, <3>1, <4>1 DEF IInv, SharedSlots
    <3>. QED
      BY <3>2, <3>3
  <2>2. ASSUME NEW k \in Fds, NEW l \in Fds, k # l, fd_table'[k] \in Nodes,
               fd_table'[k] = fd_table'[l], node'[fd_table'[k]].kind = "socket"
        PROVE  node'[fd_table'[k]].slot \in shared
    <3>1. k # i /\ l # i /\ fd_table'[k] = fd_table[k] /\ fd_table'[l] = fd_table[l]
      BY <1>t, <1>x, <2>2
    <3>2. node'[fd_table[k]] = node[fd_table[k]]
      BY <1>4, <2>2, <3>1 DEF NoNode
    <3>. QED
      BY <2>2, <3>1, <3>2 DEF IInv, SharedSlots
  <2>. QED
    BY <1>2, <2>1, <2>2 DEF SharedSlots
<1>. DEFINE gone(t) == node[n].kind = "socket" /\ t = s
<1>9. /\ sockets' \in [Slots -> SocketRecords]
      /\ pcb' \in [Blocks -> PcbRecords]
      /\ \A t \in Slots : ~gone(t) => sockets'[t] = sockets[t]
      /\ \A t \in Slots : gone(t) => ~sockets'[t].in_use
      /\ PcbsLinked'
      /\ \A b \in pcb_live : pcb'[b].state \in Open => Opened(b)'
  <2>1. CASE node[n].kind # "socket"
    <3>1. UNCHANGED <<sockets, pcb, pcb_live, tcp_pcbs, shared, stale>>
      BY <1>1, <1>2, <2>1
    <3>2. PcbsLinked' /\ \A b \in Blocks : Sole(b)' <=> Sole(b)
      BY <3>1, LinksKept
    <3>3. ASSUME NEW b \in pcb_live, pcb[b].state \in Open PROVE Opened(b)'
      BY <3>1, <3>2, <3>3 DEF IInv, TablesTyped, PcbsOpen, Opened, Stream
    <3>. QED
      BY <2>1, <3>1, <3>2, <3>3 DEF IInv, TablesTyped
  <2>2. CASE node[n].kind = "socket"
    <3>1. s \in Slots /\ socket_close(s)
      BY <1>1, <1>3, <1>t, <2>2
    <3>. HIDE DEF s
    <3>2. /\ sockets' \in [Slots -> SocketRecords]
          /\ pcb' \in [Blocks -> PcbRecords]
          /\ \A t \in Slots \ {s} : sockets'[t] = sockets[t]
          /\ ~sockets'[s].in_use
          /\ PcbsLinked'
          /\ \A b \in pcb_live : pcb'[b].state \in Open => Opened(b)'
      BY <1>2, <3>1, SocketCloseInv
    <3>. QED
      BY <2>2, <3>1, <3>2
  <2>. QED
    BY <2>1, <2>2
<1>10. TablesTyped'
  BY <1>2, <1>9 DEF IInv, TablesTyped
<1>11. PcbsOpen'
  BY <1>2, <1>9 DEF PcbsOpen, NoCall
<1>12. SlotsNamed'
  <2>1. ASSUME NEW m \in node_live'
        PROVE  m \in node_live /\ m # n /\ m \in Nodes /\ node'[m] = node[m]
    BY <1>4, <1>l, <1>t
  <2>2. ASSUME NEW m \in node_live', node'[m].kind = "socket", node'[m].slot \notin shared
        PROVE  sockets'[node'[m].slot].in_use /\ (Named(m)' <=> m \notin abandoned')
    <3>1. m \in node_live /\ m # n /\ m \in Nodes /\ node'[m] = node[m]
      BY <2>1
    <3>2. /\ node[m].slot \in Slots /\ sockets[node[m].slot].in_use
          /\ Named(m) <=> m \notin abandoned
      BY <1>t, <2>2, <3>1 DEF IInv, SlotsNamed
    <3>3. ~gone(node[m].slot)
      BY <1>s, <2>2, <3>1 DEF IInv, SlotsNamed
    <3>4. sockets'[node[m].slot] = sockets[node[m].slot]
      BY <1>9, <3>2, <3>3
    <3>5. (Named(m)' <=> Named(m)) /\ (m \in abandoned' <=> m \in abandoned)
      BY <1>l, <1>n, <3>1
    <3>. QED
      BY <3>1, <3>2, <3>4, <3>5
  <2>3. ASSUME NEW t \in Slots \ shared, sockets'[t].in_use
        PROVE  \E m \in node_live' : node'[m].kind = "socket" /\ node'[m].slot = t
    <3>1. ~gone(t) /\ sockets[t].in_use
      BY <1>9, <2>3
    <3>2. PICK m \in node_live : node[m].kind = "socket" /\ node[m].slot = t
      BY <3>1 DEF IInv, SlotsNamed
    <3>3. m # n
      BY <3>1, <3>2
    <3>4. m \in node_live' /\ node'[m] = node[m]
      BY <1>4, <1>l, <1>t, <3>3
    <3>. QED
      BY <3>2, <3>4
  <2>4. ASSUME NEW l \in node_live', NEW m \in node_live',
               node'[l].kind = "socket" /\ node'[m].kind = "socket",
               node'[l].slot = node'[m].slot
        PROVE  l = m \/ node'[m].slot \in shared
    <3>1. l \in node_live /\ m \in node_live /\ node'[l] = node[l] /\ node'[m] = node[m]
      BY <2>1
    <3>. QED
      BY <2>4, <3>1 DEF IInv, SlotsNamed
  <2>. QED
    BY <1>2, <2>2, <2>3, <2>4 DEF SlotsNamed
<1>. QED
  BY <1>5, <1>6, <1>7, <1>8, <1>9, <1>10, <1>11, <1>12 DEF IInv

\* A program that exits leaves its nodes and sockets behind, in use.
LEMMA ExitInv == IInv /\ task_exit => IInv'
<1>. SUFFICES ASSUME IInv, task_exit PROVE IInv'
  OBVIOUS
<1>1. /\ fd_table' = [i \in Fds |-> 0]
      /\ node' = [n \in Nodes |-> IF n \in node_live THEN node[n] ELSE NoNode]
      /\ accepted' = {}
      /\ abandoned' = abandoned \union {n \in node_live : Named(n)}
      /\ UNCHANGED <<node_live, shared, sockets, pcbVars, call>>
      /\ call = NoCall
  BY DEF task_exit, InUser
<1>t. node_live \subseteq Nodes /\ 0 \notin Nodes
  BY DEF IInv, FdsTyped
<1>2. FdsTyped'
  BY <1>1 DEF IInv, FdsTyped, NoNode, NodeRecords
<1>3. DescriptorsSound'
  BY <1>1 DEF DescriptorsSound
<1>4. SharedSlots'
  BY <1>1, <1>t DEF SharedSlots
<1>5. SlotsNamed'
  <2>1. \A n \in node_live : node'[n] = node[n]
    BY <1>1, <1>t
  <2>2. \A n \in Nodes : ~Named(n)'
    BY <1>1, <1>t DEF Named
  <2>3. ASSUME NEW n \in node_live, node[n].kind = "socket", node[n].slot \notin shared
        PROVE  sockets[node[n].slot].in_use /\ n \in abandoned'
    BY <1>1, <2>3 DEF IInv, SlotsNamed
  <2>4. UNCHANGED <<node_live, shared, sockets>>
    BY <1>1
  <2>5. SlotsNamed
    BY DEF IInv
  <2>. QED
    BY <1>t, <2>1, <2>2, <2>3, <2>4, <2>5 DEF SlotsNamed
<1>6. TablesTyped' /\ CallsTyped'
  BY <1>1 DEF IInv, TablesTyped, CallsTyped, pcbVars
<1>7. PcbsLinked' /\ PcbsOpen'
  <2>1. UNCHANGED <<pcbVars, sockets>> /\ shared \subseteq shared' /\ call'.op # "connect"
    BY <1>1 DEF NoCall
  <2>. QED
    BY <2>1, PcbsAlone
<1>. QED
  BY <1>2, <1>3, <1>4, <1>5, <1>6, <1>7 DEF IInv

-----------------------------------------------------------------------------
\* The state machine of tcp_input: no segment opens a PCB again that tcp_close has
\* closed.
LEMMA OutcomeSound ==
  ASSUME NEW st \in States, NEW flags
  PROVE  /\ Outcome(st, flags) \in States \union {"FREED"}
         /\ Outcome(st, flags) \in Open => st \in Open
<1>1. CASE st = "LISTEN"
  BY <1>1 DEF Outcome, States, Open
<1>2. CASE st = "SYN_SENT"
  BY <1>2 DEF Outcome, States, Open
<1>3. CASE st = "SYN_RECEIVED"
  BY <1>3 DEF Outcome, States, Open
<1>4. CASE st = "ESTABLISHED"
  BY <1>4 DEF Outcome, States, Open
<1>5. CASE st = "FIN_WAIT_1"
  BY <1>5 DEF Outcome, States, Open
<1>6. CASE st = "FIN_WAIT_2"
  BY <1>6 DEF Outcome, States, Open
<1>7. CASE st = "LAST_ACK"
  BY <1>7 DEF Outcome, States, Open
<1>8. CASE st \in {"CLOSED", "CLOSE_WAIT", "TIME_WAIT", "CLOSING"}
  BY <1>8 DEF Outcome, States, Open
<1>. QED
  BY <1>1, <1>2, <1>3, <1>4, <1>5, <1>6, <1>7, <1>8 DEF States

\* A segment changes the state of the PCB it matches, or frees it: then the slots that
\* name it are on record, and nothing else named it.
LEMMA TcpInputInv ==
  ASSUME IInv, NEW h \in Hosts, NEW o, NEW flags, tcp_input(h, o, flags)
  PROVE  IInv'
<1>. DEFINE j == Min(Matches(h, o))
            b == tcp_pcbs[j]
            st == Outcome(pcb[b].state, flags)
            remote == IF pcb[b].state = "LISTEN" /\ "SYN" \in flags THEN h ELSE pcb[b].remote
<1>1. UNCHANGED <<fdVars, sockets, next_port, call>>
  BY DEF tcp_input
<1>2. FdsTyped' /\ DescriptorsSound' /\ SlotsNamed' /\ SharedSlots'
  BY <1>1, FdsAlone
<1>c. CallsTyped' /\ UNCHANGED <<sockets, shared, call>>
  BY <1>1 DEF IInv, CallsTyped, fdVars
<1>t. /\ pcb \in [Blocks -> PcbRecords]
      /\ pcb_live \subseteq Blocks
      /\ tcp_pcbs \in [Places -> Blocks \union {0}]
      /\ sockets \in [Slots -> SocketRecords] /\ next_port \in Nat
      /\ stale \subseteq Slots
  BY DEF IInv, TablesTyped
<1>n. (\E n \in PcbTables : Places = 1 .. n) /\ Places \subseteq Nat
  BY DEF IInv, TablesTyped
<1>3. CASE Matches(h, o) = {}
  <2>1. UNCHANGED <<pcb, pcb_live, tcp_pcbs, stale>>
    BY <1>3 DEF tcp_input
  <2>2. TablesTyped'
    BY <1>1, <1>n, <1>t, <2>1 DEF TablesTyped
  <2>3. PcbsLinked' /\ \A c \in Blocks : Sole(c)' <=> Sole(c)
    BY <1>1, <2>1, LinksKept
  <2>4. PcbsOpen'
    BY <1>c, <1>t, <2>1, <2>3 DEF IInv, PcbsOpen, Opened, Stream, Sole
  <2>. QED
    BY <1>2, <1>c, <2>2, <2>3, <2>4 DEF IInv
<1>4. CASE Matches(h, o) # {}
  <2>1. j \in Places /\ b # 0
    <3>1. Matches(h, o) \subseteq Places
      BY <1>t DEF Matches
    <3>2. j \in Matches(h, o)
      BY <1>4, <1>n, <3>1, MinIn
    <3>. QED
      BY <3>1, <3>2 DEF Matches
  <2>2. IF st = "FREED"
          THEN /\ pcb' = [pcb EXCEPT ![b] = EmptyPcb]
               /\ pcb_live' = pcb_live \ {b}
               /\ tcp_pcbs' = [tcp_pcbs EXCEPT ![j] = 0]
               /\ stale' = stale \union {s \in Slots : sockets[s].tcp_pcb = b}
          ELSE /\ pcb' = [pcb EXCEPT ![b].state = st, ![b].remote = remote]
               /\ UNCHANGED <<pcb_live, tcp_pcbs, stale>>
    BY <1>4 DEF tcp_input
  <2>3. b \in Blocks /\ b \in pcb_live /\ pcb[b] \in PcbRecords
    BY <1>t, <2>1 DEF IInv, PcbsLinked
  <2>o. /\ st \in States \union {"FREED"}
        /\ st \in Open => pcb[b].state \in Open
    <3>1. pcb[b].state \in States
      BY <2>3 DEF PcbRecords
    <3>. QED
      BY <3>1, OutcomeSound
  <2>r. remote \in Hosts \union {Nobody}
    BY <2>3 DEF PcbRecords
  <2>4. CASE st = "FREED"
    <3>1. /\ pcb' = [pcb EXCEPT ![b] = EmptyPcb]
          /\ pcb_live' = pcb_live \ {b}
          /\ tcp_pcbs' = [tcp_pcbs EXCEPT ![j] = 0]
          /\ stale' = stale \union {s \in Slots : sockets[s].tcp_pcb = b}
      BY <2>2, <2>4
    <3>u. \A k \in Places : tcp_pcbs[k] = b => k = j
      BY <2>1 DEF IInv, PcbsLinked
    <3>. HIDE DEF j, st, remote, b
    <3>2. EmptyPcb \in PcbRecords
      BY DEF EmptyPcb, PcbRecords, States
    <3>3. /\ pcb' \in [Blocks -> PcbRecords]
          /\ \A c \in Blocks \ {b} : pcb'[c] = pcb[c]
      BY <1>t, <3>1, <3>2
    <3>4. /\ tcp_pcbs' \in [Places -> Blocks \union {0}] /\ tcp_pcbs'[j] = 0
          /\ Places' = Places
          /\ \A k \in Places \ {j} : tcp_pcbs'[k] = tcp_pcbs[k]
      BY <1>t, <2>1, <3>1
    <3>5. TablesTyped'
      BY <1>1, <1>n, <1>t, <3>1, <3>3, <3>4 DEF TablesTyped
    <3>6. PcbsLinked'
      <4>1. ASSUME NEW k \in Places, tcp_pcbs'[k] # 0
            PROVE  tcp_pcbs'[k] = tcp_pcbs[k] /\ tcp_pcbs'[k] \in pcb_live'
        <5>1. k # j /\ tcp_pcbs'[k] = tcp_pcbs[k]
          BY <3>4, <4>1
        <5>2. tcp_pcbs[k] \in pcb_live /\ tcp_pcbs[k] # b
          BY <3>u, <4>1, <5>1 DEF IInv, PcbsLinked
        <5>. QED
          BY <3>1, <5>1, <5>2
      <4>2. \A k, l \in Places : tcp_pcbs'[k] # 0 /\ tcp_pcbs'[k] = tcp_pcbs'[l] => k = l
        BY <4>1 DEF IInv, PcbsLinked
      <4>3. ASSUME NEW c \in pcb_live'
            PROVE  pcb'[c].socket \in Slots \ stale' /\ sockets'[pcb'[c].socket].tcp_pcb = c
        <5>1. c \in pcb_live /\ c # b /\ pcb'[c] = pcb[c]
          BY <1>t, <3>1, <3>3
        <5>2. pcb[c].socket \in Slots \ stale /\ sockets[pcb[c].socket].tcp_pcb = c
          BY <5>1 DEF IInv, PcbsLinked
        <5>. QED
          BY <1>c, <3>1, <5>1, <5>2
      <4>4. ASSUME NEW t \in Slots \ stale', sockets[t].tcp_pcb # 0
            PROVE  sockets[t].tcp_pcb \in pcb_live' /\ pcb'[sockets[t].tcp_pcb].socket = t
        <5>1. t \notin stale /\ sockets[t].tcp_pcb # b
          BY <3>1, <4>4
        <5>2. sockets[t].tcp_pcb \in pcb_live /\ pcb[sockets[t].tcp_pcb].socket = t
          BY <4>4, <5>1 DEF IInv, PcbsLinked
        <5>. QED
          BY <1>t, <3>1, <3>3, <5>1, <5>2
      <4>5. \A t \in stale' : sockets[t].tcp_pcb # 0
        BY <2>1, <2>3, <3>1 DEF IInv, PcbsLinked
      <4>. QED
        BY <1>c, <3>4, <4>1, <4>2, <4>3, <4>4, <4>5 DEF PcbsLinked
    <3>7. ASSUME NEW c \in pcb_live', Opened(c) PROVE Opened(c)'
      <4>1. c \in pcb_live /\ pcb'[c] = pcb[c]
        BY <1>t, <3>1, <3>3
      <4>2. Sole(c)' => Sole(c)
        BY <1>c, <3>1 DEF Sole
      <4>. QED
        BY <1>c, <3>7, <4>1, <4>2 DEF Opened, Stream
    <3>8. PcbsOpen'
      <4>1. ASSUME NEW c \in pcb_live', pcb'[c].state \in Open PROVE Opened(c)'
        <5>1. c \in pcb_live /\ pcb'[c] = pcb[c]
          BY <1>t, <3>1, <3>3
        <5>. QED
          BY <3>7, <4>1, <5>1 DEF IInv, PcbsOpen
      <4>2. ASSUME call.op = "connect", call.block \in pcb_live' PROVE Opened(call.block)'
        <5>1. PICK c \in pcb_live' : c = call.block
          BY <4>2
        <5>2. Opened(c)
          BY <3>1, <4>2, <5>1 DEF IInv, PcbsOpen
        <5>3. Opened(c)'
          BY <3>7, <5>2
        <5>. QED
          BY <1>c, <5>1, <5>3
      <4>. QED
        BY <1>c, <4>1, <4>2 DEF PcbsOpen
    <3>. QED
      BY <1>2, <1>c, <3>5, <3>6, <3>8 DEF IInv
  <2>5. CASE st # "FREED"
    <3>. DEFINE q == [pcb[b] EXCEPT !.state = st, !.remote = remote]
    <3>1. st \in States
      BY <2>5, <2>o
    <3>2. UNCHANGED <<pcb_live, tcp_pcbs, stale>>
      BY <2>2, <2>5
    <3>p. pcb' = [pcb EXCEPT ![b] = q]
      BY <1>t, <2>2, <2>3, <2>5
    <3>. HIDE DEF j, st, remote
    <3>3. q \in PcbRecords /\ q.state = st /\ q.socket = pcb[b].socket
      BY <2>3, <2>r, <3>1 DEF PcbRecords
    <3>. HIDE DEF b, q
    <3>4. /\ pcb' \in [Blocks -> PcbRecords]
          /\ \A c \in Blocks : /\ pcb'[c].socket = pcb[c].socket
                               /\ pcb'[c].state \in Open => pcb[c].state \in Open
      BY <1>t, <2>3, <2>o, <3>3, <3>p
    <3>5. TablesTyped'
      BY <1>1, <1>n, <1>t, <3>2, <3>4 DEF TablesTyped
    <3>6. PcbsLinked' /\ \A c \in Blocks : Sole(c)' <=> Sole(c)
      BY <1>c, <3>2, <3>4, LinksKept
    <3>7. ASSUME NEW c \in pcb_live, Opened(c) PROVE Opened(c)'
      BY <1>c, <1>t, <3>4, <3>6, <3>7 DEF Opened, Stream
    <3>8. PcbsOpen'
      <4>1. ASSUME NEW c \in pcb_live, pcb'[c].state \in Open PROVE Opened(c)'
        BY <1>t, <3>4, <3>7, <4>1 DEF IInv, PcbsOpen
      <4>2. ASSUME call.op = "connect", call.block \in pcb_live PROVE Opened(call.block)'
        <5>1. PICK c \in pcb_live : c = call.block
          BY <4>2
        <5>2. Opened(c)
          BY <4>2, <5>1 DEF IInv, PcbsOpen
        <5>3. Opened(c)'
          BY <3>7, <5>2
        <5>. QED
          BY <1>c, <5>1, <5>3
      <4>. QED
        BY <1>c, <3>2, <4>1, <4>2 DEF PcbsOpen
    <3>. QED
      BY <1>2, <1>c, <3>5, <3>6, <3>8 DEF IInv
  <2>. QED
    BY <2>4, <2>5
<1>. QED
  BY <1>3, <1>4

LEMMA NextInv == IInv /\ [Next]_vars => IInv'
<1>. SUFFICES ASSUME IInv, [Next]_vars PROVE IInv'
  OBVIOUS
<1>1. CASE UNCHANGED vars
  <2>1. UNCHANGED <<fd_table, node, node_live, accepted, shared, abandoned, sockets, pcb,
                    pcb_live, tcp_pcbs, next_port, stale, call>>
    BY <1>1 DEF vars, fdVars, pcbVars
  <2>2. FdsTyped' /\ TablesTyped' /\ CallsTyped'
    BY <2>1 DEF IInv, FdsTyped, TablesTyped, CallsTyped
  <2>3. DescriptorsSound' /\ SlotsNamed' /\ SharedSlots'
    BY <2>1 DEF IInv, DescriptorsSound, SlotsNamed, SharedSlots, Named
  <2>4. PcbsLinked' /\ PcbsOpen'
    BY <2>1 DEF IInv, PcbsLinked, PcbsOpen, Opened, Sole, Stream
  <2>. QED
    BY <2>2, <2>3, <2>4 DEF IInv
<1>2. CASE Receive
  <2>1. PICK h \in Hosts, o \in Ports \union FirstPort .. LastPort, flags \in Segments :
          tcp_input(h, o, flags)
    BY <1>2 DEF Receive
  <2>. QED
    BY <2>1, TcpInputInv
<1>3. CASE Next /\ ~Receive
  BY <1>3, OpenInv, SocketInv, BindInv, CloseInv, ConnectInv, ConnectSynInv, ListenInv,
     AcceptInv, AcceptReturnInv, ExitInv DEF Next
<1>. QED
  BY <1>1, <1>2, <1>3

LEMMA Inductive == Spec => []IInv
<1>. QED
  BY InitInv, NextInv, PTL DEF Spec

-----------------------------------------------------------------------------
\* SlotsNamed is what SlotsAccounted counts.
LEMMA NamedCounted == FdsTyped /\ SlotsNamed => SlotsAccounted
<1>. SUFFICES ASSUME FdsTyped, SlotsNamed, NEW s \in Slots \ shared
              PROVE  LET owners == {n \in node_live : node[n] = [kind |-> "socket", slot |-> s]}
                     IN  /\ Cardinality(owners) = IF sockets[s].in_use THEN 1 ELSE 0
                         /\ \A n \in owners : Named(n) <=> n \notin abandoned
  BY DEF SlotsAccounted
<1>. DEFINE named == {n \in node_live : node[n] = [kind |-> "socket", slot |-> s]}
<1>1. \A n \in node_live : n \in named <=> node[n].kind = "socket" /\ node[n].slot = s
  BY DEF FdsTyped, NodeRecords
<1>2. CASE sockets[s].in_use
  <2>1. PICK n \in node_live : node[n].kind = "socket" /\ node[n].slot = s
    BY <1>2 DEF SlotsNamed
  <2>2. named = {n}
    BY <1>1, <2>1 DEF SlotsNamed
  <2>3. Cardinality(named) = 1
    BY <2>2, FS_Singleton
  <2>4. Named(n) <=> n \notin abandoned
    BY <2>1 DEF SlotsNamed
  <2>. QED
    BY <1>2, <2>2, <2>3, <2>4
<1>3. CASE ~sockets[s].in_use
  <2>1. named = {}
    BY <1>1, <1>3 DEF SlotsNamed
  <2>. QED
    BY <1>3, <2>1, FS_EmptySet
<1>. QED
  BY <1>2, <1>3

LEMMA LinkedOwned == IInv => PcbOwned
<1>. SUFFICES ASSUME IInv, NEW j \in DOMAIN tcp_pcbs, tcp_pcbs[j] # 0
              PROVE  LET b == tcp_pcbs[j]
                         s == pcb[b].socket
                         names == {t \in Slots : sockets[t].tcp_pcb = b}
                     IN  /\ names \ stale = {s}
                         /\ names = {s} /\ s \notin shared /\ pcb[b].state = "ESTABLISHED" =>
                              sockets[s].in_use /\ Stream(s)
  BY DEF PcbOwned
<1>. DEFINE b == tcp_pcbs[j]
            s == pcb[b].socket
            names == {t \in Slots : sockets[t].tcp_pcb = b}
<1>1. j \in Places /\ stale \subseteq Slots
  BY DEF IInv, TablesTyped
<1>2. b \in pcb_live
  BY <1>1 DEF IInv, PcbsLinked
<1>3. s \in Slots \ stale /\ sockets[s].tcp_pcb = b
  BY <1>2 DEF IInv, PcbsLinked
<1>4. ASSUME NEW t \in Slots \ stale, sockets[t].tcp_pcb = b PROVE t = s
  BY <1>4 DEF IInv, PcbsLinked
<1>5. names \ stale = {s}
  BY <1>3, <1>4
<1>6. ASSUME names = {s}, s \notin shared, pcb[b].state = "ESTABLISHED"
      PROVE  sockets[s].in_use /\ Stream(s)
  <2>1. Sole(b)
    BY <1>1, <1>3, <1>6 DEF Sole
  <2>. QED
    BY <1>2, <1>6, <2>1 DEF IInv, PcbsOpen, Opened, Open
<1>. QED
  BY <1>5, <1>6

\* No descriptor of a running program names freed memory or another's node, but for
\* those of accept (sys_open, sys_socket, sys_accept, sys_close).
THEOREM DescriptorsStaySound == Spec => []DescriptorsSound
<1>1. IInv => DescriptorsSound
  BY DEF IInv
<1>. QED
  BY <1>1, Inductive, PTL

\* A slot that accept has not shared is in use while exactly one node names it, and is
\* lost only by an exit or a socket() call that finds no descriptor (socket_create,
\* socket_close, sys_socket, task_exit).
THEOREM SlotsStayAccounted == Spec => []SlotsAccounted
<1>1. IInv => SlotsAccounted
  BY NamedCounted DEF IInv
<1>. QED
  BY <1>1, Inductive, PTL

\* One slot owns a PCB of the table, whatever slots of freed PCBs name its block too; and
\* while none does, a PCB that takes data is that of an open stream socket (tcp_new_pcb,
\* tcp_close, tcp_input).
THEOREM PcbsStayOwned == Spec => []PcbOwned
<1>. QED
  BY LinkedOwned, Inductive, PTL
=============================================================================
