---------------------------- MODULE DatagramQueue ----------------------------
(***************************************************************************)
(* What a bound UDP socket promises its reader: a bounded FIFO queue of    *)
(* whole datagrams.  A datagram that does not fit is dropped, one that was *)
(* accepted is received once, in order, with its sender's address, cut to  *)
(* the length the reader asked for.                                        *)
(***************************************************************************)
EXTENDS Integers, Sequences

CONSTANTS
  Capacity,  \* bytes the queue may hold
  Overhead,  \* bytes each datagram takes beside its data
  Datagrams, \* records with fields src and data
  Lengths    \* the lengths a reader may ask for

VARIABLES
  queue,
  asked,  \* the length of the reader's latest request
  result  \* what the latest request returned

Cost(d) == Overhead + Len(d.data)
Used(q) ==
  LET sum[n \in 0 .. Len(q)] == IF n = 0 THEN 0 ELSE sum[n - 1] + Cost(q[n])
  IN  sum[Len(q)]
Cut(s, n) == SubSeq(s, 1, IF n < Len(s) THEN n ELSE Len(s))

Init == queue = <<>> /\ asked = 0 /\ result = <<>>

Arrive(d) ==
  /\ Used(queue) + Cost(d) <= Capacity
  /\ queue' = Append(queue, d)
  /\ UNCHANGED <<asked, result>>

Ask(n) ==
  /\ asked' = n
  /\ UNCHANGED <<queue, result>>

Receive ==
  /\ queue # <<>>
  /\ result' = <<Head(queue).src, Cut(Head(queue).data, asked)>>
  /\ queue' = Tail(queue)
  /\ UNCHANGED asked

Next ==
  \/ \E d \in Datagrams : Arrive(d)
  \/ \E n \in Lengths : Ask(n)
  \/ Receive

Spec == Init /\ [][Next]_<<queue, asked, result>>
=============================================================================
