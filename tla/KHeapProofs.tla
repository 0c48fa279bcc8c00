----------------------------- MODULE KHeapProofs -----------------------------
(***************************************************************************)
(* Proofs about KHeap, for every heap size, header size and alignment.     *)
(***************************************************************************)
EXTENDS KHeap, TLAPS

USE HeapAssumption DEF heap_first, NULL, Addr

\* The inductive invariant: neither the tiling, nor the list, nor ownership is
\* preserved without the others.
IInv ==
  /\ TypeOK
  /\ Tiled
  /\ ListInOrder
  /\ Coalesced
  /\ LiveOwned
  /\ DoubleFreeSeen

\* A served request gets at least the bytes it asked for after its header.
LEMMA TotalSizeLarge ==
  ASSUME NEW n \in Nat
  PROVE  TotalSize(n) \in Nat /\ TotalSize(n) >= n + Header
<1>1. n % Align \in 0 .. Align - 1
  OBVIOUS
<1>. QED
  BY <1>1 DEF TotalSize, AlignedSize

\* init_kheap establishes the invariant.
LEMMA InitInv == Init => IInv
<1>. SUFFICES ASSUME Init PROVE IInv
  OBVIOUS
<1>1. TypeOK
  BY DEF Init, TypeOK
<1>2. Tiled
  BY DEF Init, Tiled, End
<1>3. ListInOrder
  <2>1. blocks = {0} /\ size[0] = HEAP_SIZE /\ next[0] = NULL /\ prev[0] = NULL
    BY DEF Init
  <2>. QED
    BY <2>1 DEF ListInOrder, End
<1>4. Coalesced /\ DoubleFreeSeen
  BY DEF Init, Coalesced, DoubleFreeSeen
<1>5. LiveOwned
  BY DEF Init, LiveOwned
<1>. QED
  BY <1>1, <1>2, <1>3, <1>4, <1>5 DEF IInv

\* kmalloc, split branch.
LEMMA SplitInv ==
  ASSUME TypeOK, Tiled, ListInOrder, Coalesced, LiveOwned, DoubleFreeSeen,
         NEW n \in Nat, NEW b \in blocks, n > 0,
         NEW total \in Nat, total >= n + Header,
         is_free[b] = 1, size[b] > total + Header + Align,
         Split(b, total),
         live' = live \union {Payload(b)},
         want' = [want EXCEPT ![Payload(b)] = n]
  PROVE  IInv'
<1>. DEFINE new == b + total
<1>t1. blocks \subseteq Addr /\ b \in Addr
  BY DEF TypeOK
<1>t2. size \in [Addr -> Nat]
  BY DEF TypeOK
<1>t3. is_free \in [Addr -> {0, 1}]
  BY DEF TypeOK
<1>t4. next \in [Addr -> Addr \union {NULL}]
  BY DEF TypeOK
<1>t5. prev \in [Addr -> Addr \union {NULL}]
  BY DEF TypeOK
<1>t6. live \subseteq Addr /\ want \in [Addr -> Nat]
  BY DEF TypeOK
<1>t7. stale \subseteq Addr
  BY DEF TypeOK
<1>i1. \A c \in blocks : size[c] > Header /\ c + size[c] <= HEAP_SIZE
  BY DEF Tiled, End
<1>i2. \A c \in blocks : c + size[c] = HEAP_SIZE \/ c + size[c] \in blocks
  BY DEF Tiled, End
<1>i3. \A c, d \in blocks : c < d => c + size[c] <= d
  BY DEF Tiled, End
<1>l1. \A c \in blocks :
         next[c] = IF c + size[c] = HEAP_SIZE THEN NULL ELSE c + size[c]
  BY DEF ListInOrder, End
<1>l2. prev[0] = NULL
  BY DEF ListInOrder
<1>l3. \A c \in blocks \ {0} : prev[c] \in blocks /\ prev[c] + size[prev[c]] = c
  BY DEF ListInOrder, End
<1>1. new \in Addr /\ Payload(b) \in Addr /\ b < new /\ new < b + size[b]
  BY <1>t1, <1>t2, <1>i1 DEF Payload
<1>2. new \notin blocks
  BY <1>t1, <1>t2, <1>i3, <1>1
<1>s1. blocks' = blocks \union {new}
  BY DEF Split
<1>s2. size' = [size EXCEPT ![new] = size[b] - total, ![b] = total]
  BY DEF Split
<1>s3. is_free' = [is_free EXCEPT ![new] = 1, ![b] = 0]
  BY DEF Split
<1>s4. next' = [next EXCEPT ![new] = next[b], ![b] = new]
  BY DEF Split
<1>s5. prev' = [a \in Addr |-> IF a = new THEN b
                               ELSE IF a = next[b] THEN new ELSE prev[a]]
  BY DEF Split
<1>s6. stale' = {s \in stale : s + Header <= b \/ new + Header <= s}
  BY DEF Split, StaleOutside
<1>r. size[b] \in Nat /\ size[b] - total \in Nat /\ size[b] - total > Header /\ total > Header
  BY <1>t1, <1>t2
<1>n. new = b + total
  OBVIOUS
<1>. HIDE DEF new
<1>3. TypeOK'
  <2>1. blocks' \subseteq Addr
    BY <1>t1, <1>1, <1>s1
  <2>2. size' \in [Addr -> Nat]
    BY <1>t1, <1>t2, <1>1, <1>s2, <1>r
  <2>3. is_free' \in [Addr -> {0, 1}]
    BY <1>t1, <1>t3, <1>1, <1>s3
  <2>4. next' \in [Addr -> Addr \union {NULL}]
    BY <1>t1, <1>t4, <1>1, <1>s4
  <2>5. prev' \in [Addr -> Addr \union {NULL}]
    BY <1>t1, <1>t5, <1>1, <1>s5
  <2>6. live' \subseteq Addr
    BY <1>t6, <1>1
  <2>7. want' \in [Addr -> Nat]
    BY <1>t6, <1>1
  <2>8. stale' \subseteq Addr
    BY <1>t7, <1>s6
  <2>. QED
    BY <2>1, <2>2, <2>3, <2>4, <2>5, <2>6, <2>7, <2>8 DEF TypeOK
<1>4. /\ \A c \in blocks : c # b => size'[c] = size[c]
      /\ size'[b] = total /\ size'[new] = size[b] - total
  BY <1>t1, <1>t2, <1>1, <1>2, <1>s2
<1>5. /\ \A c \in blocks : c # b => is_free'[c] = is_free[c]
      /\ is_free'[b] = 0 /\ is_free'[new] = 1
  BY <1>t1, <1>t3, <1>1, <1>2, <1>s3
<1>6. /\ \A c \in blocks : c # b => next'[c] = next[c]
      /\ next'[b] = new /\ next'[new] = next[b]
  BY <1>t1, <1>t4, <1>1, <1>2, <1>s4
<1>7. Tiled'
  <2>1. heap_first \in blocks'
    BY <1>s1 DEF Tiled
  <2>2. ASSUME NEW c \in blocks'
        PROVE  /\ size'[c] > Header /\ c + size'[c] <= HEAP_SIZE
               /\ c + size'[c] = HEAP_SIZE \/ c + size'[c] \in blocks'
    <3>1. CASE c = b
      BY <3>1, <1>4, <1>t1, <1>1, <1>n, <1>s1, <1>r
    <3>2. CASE c = new
      BY <3>2, <1>4, <1>t1, <1>i1, <1>i2, <1>1, <1>n, <1>s1, <1>r
    <3>3. CASE c \in blocks /\ c # b
      BY <3>3, <1>4, <1>t1, <1>t2, <1>i1, <1>i2, <1>s1
    <3>. QED
      BY <3>1, <3>2, <3>3, <1>s1
  <2>3. ASSUME NEW c \in blocks', NEW d \in blocks', c < d
        PROVE  c + size'[c] <= d
    <3>1. CASE c = b
      BY <3>1, <2>3, <1>4, <1>t1, <1>t2, <1>i3, <1>1, <1>n, <1>s1, <1>r
    <3>2. CASE c = new
      <4>1. d \in blocks /\ d \in Addr /\ b < d
        BY <3>2, <2>3, <1>t1, <1>1, <1>s1
      <4>2. b + size[b] <= d
        BY <4>1, <1>i3
      <4>. QED
        BY <3>2, <4>1, <4>2, <1>t1, <1>1, <1>4, <1>n, <1>r
    <3>3. CASE c \in blocks /\ c # b /\ d = new
      <4>1. c \in Addr /\ size[c] \in Nat /\ c < b
        BY <3>3, <2>3, <1>t1, <1>t2, <1>i3, <1>1
      <4>2. c + size[c] <= b
        BY <3>3, <4>1, <1>i3
      <4>. QED
        BY <3>3, <4>1, <4>2, <1>4, <1>1, <1>t1
    <3>4. CASE c \in blocks /\ c # b /\ d \in blocks
      BY <3>4, <2>3, <1>4, <1>i3
    <3>. QED
      BY <3>1, <3>2, <3>3, <3>4, <1>s1
  <2>. QED
    BY <2>1, <2>2, <2>3 DEF Tiled, End
<1>8. ListInOrder'
  <2>1. ASSUME NEW c \in blocks'
        PROVE  next'[c] = IF c + size'[c] = HEAP_SIZE THEN NULL ELSE c + size'[c]
    <3>1. CASE c = b
      BY <3>1, <1>4, <1>6, <1>1, <1>n
    <3>2. CASE c = new
      BY <3>2, <1>4, <1>6, <1>1, <1>n, <1>l1, <1>t1, <1>r
    <3>3. CASE c \in blocks /\ c # b
      BY <3>3, <1>4, <1>6, <1>l1
    <3>. QED
      BY <3>1, <3>2, <3>3, <1>s1
  <2>2. prev'[0] = NULL
    <3>1. 0 # new /\ 0 \in Addr
      BY <1>1, <1>t1
    <3>2. 0 # next[b]
      BY <1>l1, <1>t1, <1>r
    <3>. QED
      BY <3>1, <3>2, <1>s5, <1>l2
  <2>3. ASSUME NEW c \in blocks' \ {0}
        PROVE  prev'[c] \in blocks' /\ prev'[c] + size'[prev'[c]] = c
    <3>1. CASE c = new
      <4>1. prev'[c] = b
        BY <3>1, <1>s5, <1>1
      <4>. QED
        BY <3>1, <4>1, <1>4, <1>n, <1>s1
    <3>2. CASE c \in blocks /\ c = next[b]
      <4>1. prev'[c] = new /\ c = b + size[b]
        BY <3>2, <1>s5, <1>1, <1>2, <1>t1, <1>l1
      <4>. QED
        BY <4>1, <1>4, <1>n, <1>s1, <1>r, <1>t1, <1>1
    <3>3. CASE c \in blocks /\ c # next[b]
      <4>1. prev'[c] = prev[c]
        BY <3>3, <1>s5, <1>2, <1>t1
      <4>2. prev[c] \in blocks /\ prev[c] + size[prev[c]] = c
        BY <3>3, <1>l3
      <4>3. prev[c] # b
        BY <3>3, <4>2, <1>l1, <1>t1
      <4>. QED
        BY <4>1, <4>2, <4>3, <1>4, <1>s1
    <3>. QED
      BY <3>1, <3>2, <3>3, <1>s1
  <2>. QED
    BY <2>1, <2>2, <2>3 DEF ListInOrder, End
<1>9. Coalesced'
  <2>. SUFFICES ASSUME NEW c \in blocks', is_free'[c] = 1, next'[c] # NULL
                PROVE  is_free'[next'[c]] = 0
    BY DEF Coalesced
  <2>1. \A d \in blocks : next[d] # NULL => next[d] \in blocks
    BY <1>l1, <1>i2
  <2>2. CASE c = new
    <3>1. next[b] \in blocks /\ next[b] # b /\ is_free[next[b]] = 0
      <4>1. next[b] # NULL
        BY <2>2, <1>6
      <4>2. next[b] = b + size[b]
        BY <4>1, <1>l1
      <4>. QED
        BY <4>1, <4>2, <2>1, <1>t1, <1>r DEF Coalesced
    <3>. QED
      BY <2>2, <3>1, <1>5, <1>6
  <2>3. CASE c \in blocks /\ c # b
    <3>1. next'[c] = next[c] /\ next[c] \in blocks /\ is_free[next[c]] = 0
      BY <2>3, <2>1, <1>5, <1>6 DEF Coalesced
    <3>. QED
      BY <3>1, <1>5
  <2>. QED
    BY <2>2, <2>3, <1>5, <1>s1
<1>10. LiveOwned'
  <2>1. \A p \in live : p # Payload(b) /\ p - Header # b
    <3>1. \A p \in live : p - Header # b
      BY DEF LiveOwned
    <3>. QED
      BY <3>1, <1>t1 DEF Payload
  <2>2. ASSUME NEW c \in blocks', is_free'[c] = 0
        PROVE  Payload(c) \in live'
    <3>1. CASE c = b
      BY <3>1
    <3>2. CASE c \in blocks /\ c # b
      BY <3>2, <2>2, <1>5 DEF LiveOwned
    <3>. QED
      BY <3>1, <3>2, <2>2, <1>5, <1>s1
  <2>3. ASSUME NEW p \in live'
        PROVE  /\ p - Header \in blocks' /\ is_free'[p - Header] = 0
               /\ want'[p] + Header <= size'[p - Header]
    <3>1. CASE p = Payload(b)
      <4>1. p - Header = b /\ want'[p] = n
        BY <3>1, <1>t1, <1>t6, <1>1 DEF Payload
      <4>. QED
        BY <4>1, <1>4, <1>5, <1>s1
    <3>2. CASE p \in live
      <4>1. p - Header \in blocks /\ p - Header # b /\ is_free[p - Header] = 0
        BY <3>2, <2>1 DEF LiveOwned
      <4>2. want'[p] = want[p] /\ want[p] + Header <= size[p - Header]
        BY <3>2, <2>1, <1>t6 DEF LiveOwned
      <4>. QED
        BY <4>1, <4>2, <1>4, <1>5, <1>s1
    <3>. QED
      BY <3>1, <3>2
  <2>. QED
    BY <2>2, <2>3 DEF LiveOwned, Payload
<1>11. DoubleFreeSeen'
  <2>. SUFFICES ASSUME NEW s \in stale'
                PROVE  /\ is_free'[s] = 1
                       /\ \A c \in blocks' : c = s \/ c + Header <= s \/ s + Header <= c
    BY DEF DoubleFreeSeen
  <2>1. s \in stale /\ s \in Addr /\ (s + Header <= b \/ new + Header <= s)
    BY <1>s6, <1>t7
  <2>2. is_free[s] = 1 /\ \A c \in blocks : c = s \/ c + Header <= s \/ s + Header <= c
    BY <2>1 DEF DoubleFreeSeen
  <2>3. s # b /\ s # new
    BY <2>1, <1>t1, <1>1
  <2>4. is_free'[s] = 1
    BY <2>1, <2>2, <2>3, <1>s3, <1>t3
  <2>5. new + Header <= s \/ s + Header <= new
    BY <2>1, <1>1, <1>t1
  <2>. QED
    BY <2>2, <2>4, <2>5, <1>s1
<1>. QED
  BY <1>3, <1>7, <1>8, <1>9, <1>10, <1>11 DEF IInv

\* kmalloc, whole-block branch: only the ownership of the block changes.
LEMMA TakeWholeInv ==
  ASSUME TypeOK, Tiled, ListInOrder, Coalesced, LiveOwned, DoubleFreeSeen,
         NEW n \in Nat, NEW b \in blocks, n > 0,
         NEW total \in Nat, total >= n + Header,
         is_free[b] = 1, size[b] >= total,
         TakeWhole(b, total),
         live' = live \union {Payload(b)},
         want' = [want EXCEPT ![Payload(b)] = n]
  PROVE  IInv'
<1>t1. blocks \subseteq Addr /\ b \in Addr
  BY DEF TypeOK
<1>t2. size \in [Addr -> Nat] /\ size[b] \in Nat
  BY <1>t1 DEF TypeOK
<1>t3. is_free \in [Addr -> {0, 1}]
  BY DEF TypeOK
<1>t6. live \subseteq Addr /\ want \in [Addr -> Nat]
  BY DEF TypeOK
<1>t7. stale \subseteq Addr
  BY DEF TypeOK
<1>1. Payload(b) \in Addr
  <2>1. b + size[b] <= HEAP_SIZE
    BY DEF Tiled, End
  <2>. QED
    BY <2>1, <1>t1, <1>t2 DEF Payload
<1>s1. UNCHANGED <<blocks, size, next, prev>>
  BY DEF TakeWhole
<1>s2. is_free' = [is_free EXCEPT ![b] = 0]
  BY DEF TakeWhole
<1>s3. stale' = {s \in stale : s + Header <= b \/ b + total <= s}
  BY DEF TakeWhole, StaleOutside
<1>2. TypeOK'
  <2>1. is_free' \in [Addr -> {0, 1}]
    BY <1>t1, <1>t3, <1>s2
  <2>2. live' \subseteq Addr
    BY <1>t6, <1>1
  <2>3. want' \in [Addr -> Nat]
    BY <1>t6, <1>1
  <2>4. stale' \subseteq Addr
    BY <1>t7, <1>s3
  <2>. QED
    BY <2>1, <2>2, <2>3, <2>4, <1>s1 DEF TypeOK
<1>3. Tiled' /\ ListInOrder'
  BY <1>s1 DEF Tiled, ListInOrder, End
<1>4. /\ \A c \in blocks : c # b => is_free'[c] = is_free[c]
      /\ is_free'[b] = 0
  BY <1>t1, <1>t3, <1>s2
<1>5. Coalesced'
  <2>. SUFFICES ASSUME NEW c \in blocks, is_free'[c] = 1, next[c] # NULL
                PROVE  is_free'[next[c]] = 0
    BY <1>s1 DEF Coalesced
  <2>1. c # b /\ is_free[c] = 1
    BY <1>4
  <2>2. is_free[next[c]] = 0
    BY <2>1 DEF Coalesced
  <2>3. next[c] \in blocks
    BY DEF ListInOrder, Tiled
  <2>. QED
    BY <2>2, <2>3, <1>4
<1>6. LiveOwned'
  <2>1. \A p \in live : p # Payload(b) /\ p - Header # b
    <3>1. \A p \in live : p - Header # b
      BY DEF LiveOwned
    <3>. QED
      BY <3>1, <1>t1 DEF Payload
  <2>2. ASSUME NEW c \in blocks, is_free'[c] = 0
        PROVE  Payload(c) \in live'
    <3>1. CASE c = b
      BY <3>1
    <3>2. CASE c # b
      BY <3>2, <2>2, <1>4 DEF LiveOwned
    <3>. QED
      BY <3>1, <3>2
  <2>3. ASSUME NEW p \in live'
        PROVE  /\ p - Header \in blocks /\ is_free'[p - Header] = 0
               /\ want'[p] + Header <= size[p - Header]
    <3>1. CASE p = Payload(b)
      <4>1. p - Header = b /\ want'[p] = n
        BY <3>1, <1>t1, <1>t6, <1>1 DEF Payload
      <4>. QED
        BY <4>1, <1>4, <1>t2
    <3>2. CASE p \in live
      <4>1. p - Header \in blocks /\ p - Header # b /\ is_free[p - Header] = 0
        BY <3>2, <2>1 DEF LiveOwned
      <4>2. want'[p] = want[p] /\ want[p] + Header <= size[p - Header]
        BY <3>2, <2>1, <1>t6 DEF LiveOwned
      <4>. QED
        BY <4>1, <4>2, <1>4
    <3>. QED
      BY <3>1, <3>2
  <2>. QED
    BY <2>2, <2>3, <1>s1 DEF LiveOwned, Payload
<1>7. DoubleFreeSeen'
  <2>. SUFFICES ASSUME NEW s \in stale'
                PROVE  /\ is_free'[s] = 1
                       /\ \A c \in blocks : c = s \/ c + Header <= s \/ s + Header <= c
    BY <1>s1 DEF DoubleFreeSeen
  <2>1. s \in stale /\ s \in Addr /\ (s + Header <= b \/ b + total <= s)
    BY <1>s3, <1>t7
  <2>2. is_free[s] = 1 /\ \A c \in blocks : c = s \/ c + Header <= s \/ s + Header <= c
    BY <2>1 DEF DoubleFreeSeen
  <2>3. s # b
    BY <2>1, <1>t1
  <2>. QED
    BY <2>1, <2>2, <2>3, <1>s2, <1>t3
<1>. QED
  BY <1>2, <1>3, <1>5, <1>6, <1>7 DEF IInv

\* What the two merges of kfree amount to: one free block from "keep" (the left
\* neighbour when it is free, else the block) to "finish" (the end of the right
\* neighbour when it is free, else the end of the block); every other header is
\* as it was, and both neighbours of the new block are in use.
Merged(b, keep, finish) ==
  /\ keep \in blocks /\ keep <= b
  /\ keep = b \/ is_free[keep] = 1
  /\ keep # 0 => is_free[prev[keep]] = 0
  /\ finish \in Nat /\ b + size[b] <= finish
  /\ finish = HEAP_SIZE \/ (finish \in blocks /\ is_free[finish] = 0)
  /\ blocks' = {c \in blocks : c <= keep \/ finish <= c}
  /\ \A c \in blocks : keep < c /\ c < finish => c = b \/ is_free[c] = 1
  /\ size' \in [Addr -> Nat]
  /\ next' \in [Addr -> Addr \union {NULL}]
  /\ prev' \in [Addr -> Addr \union {NULL}]
  /\ \A c \in blocks' : c # keep => size'[c] = size[c] /\ next'[c] = next[c]
  /\ size'[keep] = finish - keep
  /\ next'[keep] = IF finish = HEAP_SIZE THEN NULL ELSE finish
  /\ \A c \in blocks' : c # finish => prev'[c] = prev[c]
  /\ finish # HEAP_SIZE => prev'[finish] = keep

\* Coalesce joins the freed block with its free neighbours into one extent that
\* starts at keep and ends at finish, and leaves every other block alone.
LEMMA CoalesceMerges ==
  ASSUME TypeOK, Tiled, ListInOrder, Coalesced,
         NEW b \in blocks, is_free[b] = 0, Coalesce(b)
  PROVE  \E keep \in Addr, finish \in Nat : Merged(b, keep, finish)
<1>. DEFINE r == b + size[b]
            l == prev[b]
            right == MergeRight(b)
            left == MergeLeft(b)
            keep == IF left THEN l ELSE b
            finish == IF right THEN r + size[r] ELSE r
<1>t1. blocks \subseteq Addr /\ b \in Addr
  BY DEF TypeOK
<1>t2. size \in [Addr -> Nat] /\ size[b] \in Nat
  BY <1>t1 DEF TypeOK
<1>t3. is_free \in [Addr -> {0, 1}]
  BY DEF TypeOK
<1>t4. next \in [Addr -> Addr \union {NULL}]
  BY DEF TypeOK
<1>t5. prev \in [Addr -> Addr \union {NULL}]
  BY DEF TypeOK
<1>i1. \A c \in blocks : size[c] > Header /\ c + size[c] <= HEAP_SIZE
  BY DEF Tiled, End
<1>i2. \A c \in blocks : c + size[c] = HEAP_SIZE \/ c + size[c] \in blocks
  BY DEF Tiled, End
<1>i3. \A c, d \in blocks : c < d => c + size[c] <= d
  BY DEF Tiled, End
<1>l1. \A c \in blocks :
         next[c] = IF c + size[c] = HEAP_SIZE THEN NULL ELSE c + size[c]
  BY DEF ListInOrder, End
<1>l2. prev[0] = NULL
  BY DEF ListInOrder
<1>l3. \A c \in blocks \ {0} : prev[c] \in blocks /\ prev[c] + size[prev[c]] = c
  BY DEF ListInOrder, End
<1>c. \A c \in blocks : is_free[c] = 1 /\ next[c] # NULL => is_free[next[c]] = 0
  BY DEF Coalesced
<1>r. r \in Nat /\ b < r /\ r <= HEAP_SIZE
  BY <1>t1, <1>t2, <1>i1
<1>R. ASSUME right
      PROVE  next[b] = r /\ r \in blocks /\ is_free[r] = 1
  BY <1>R, <1>l1, <1>i2, <1>t1, <1>r DEF MergeRight
<1>NR. ASSUME ~right
       PROVE  r = HEAP_SIZE \/ (r \in blocks /\ is_free[r] = 0)
  BY <1>NR, <1>l1, <1>i2, <1>t1, <1>t3, <1>r DEF MergeRight
<1>L. ASSUME left
      PROVE  b # 0 /\ l \in blocks /\ l \in Addr /\ is_free[l] = 1 /\ l + size[l] = b /\ l < b
  <2>1. l # NULL /\ is_free[l] = 1
    BY <1>L DEF MergeLeft
  <2>2. b # 0
    BY <2>1, <1>l2
  <2>3. l \in blocks /\ l + size[l] = b
    BY <2>2, <1>l3
  <2>4. l \in Addr /\ size[l] \in Nat /\ size[l] > 0
    <3>1. l \in Addr
      BY <2>3, <1>t1
    <3>2. size[l] \in Nat /\ size[l] > Header
      BY <2>3, <3>1, <1>t2, <1>i1
    <3>. QED
      BY <3>1, <3>2
  <2>. QED
    BY <2>1, <2>2, <2>3, <2>4
<1>NL. ASSUME ~left, b # 0
       PROVE  is_free[l] = 0
  <2>1. l \in blocks /\ l \in Addr
    BY <1>NL, <1>l3, <1>t1
  <2>2. l # NULL
    BY <2>1
  <2>3. is_free[l] # 1
    BY <1>NL, <2>2 DEF MergeLeft
  <2>. QED
    BY <2>1, <2>3, <1>t3
<1>f. finish \in Nat /\ r <= finish /\ finish <= HEAP_SIZE
  <2>1. CASE right
    BY <2>1, <1>R, <1>r, <1>t1, <1>t2, <1>i1
  <2>2. CASE ~right
    BY <2>2, <1>r
  <2>. QED
    BY <2>1, <2>2
<1>g. finish = HEAP_SIZE \/ (finish \in blocks /\ is_free[finish] = 0)
  <2>1. CASE right
    BY <2>1, <1>R, <1>i2, <1>c, <1>l1, <1>f
  <2>2. CASE ~right
    BY <2>2, <1>NR
  <2>. QED
    BY <2>1, <2>2
<1>k. keep \in blocks /\ keep \in Addr /\ keep <= b /\ (keep = b \/ is_free[keep] = 1)
  BY <1>L, <1>t1
<1>p. keep # 0 => is_free[prev[keep]] = 0
  <2>1. CASE left
    <3>. SUFFICES ASSUME l # 0 PROVE is_free[prev[l]] = 0
      BY <2>1
    <3>1. prev[l] \in blocks /\ prev[l] + size[prev[l]] = l /\ l \in Addr
      BY <2>1, <1>L, <1>l3
    <3>2. next[prev[l]] = l
      BY <3>1, <1>l1
    <3>3. is_free[prev[l]] # 1
      BY <3>1, <3>2, <1>c, <1>L, <2>1
    <3>. QED
      BY <3>1, <3>3, <1>t1, <1>t3
  <2>2. CASE ~left
    BY <2>2, <1>NL
  <2>. QED
    BY <2>1, <2>2
<1>. DEFINE bnext == IF finish = HEAP_SIZE THEN NULL ELSE finish
<1>1. (IF right THEN next[next[b]] ELSE next[b]) = bnext
  BY <1>R, <1>NR, <1>l1
<1>2. (IF right THEN size[b] + size[next[b]] ELSE size[b]) = finish - b
  <2>1. CASE right
    BY <2>1, <1>R, <1>t1, <1>t2
  <2>2. CASE ~right
    BY <2>2, <1>t1, <1>t2
  <2>. QED
    BY <2>1, <2>2
<1>3. bnext \in Addr \union {NULL} /\ bnext # b
  BY <1>f, <1>g, <1>r, <1>t1
<1>e1. blocks' = blocks \ ((IF right THEN {next[b]} ELSE {}) \union
                           (IF left THEN {b} ELSE {}))
  BY DEF Coalesce
<1>e2. size' = [a \in Addr |->
                  IF a = b THEN finish - b
                  ELSE IF left /\ a = l THEN size[a] + (finish - b) ELSE size[a]]
  BY <1>2 DEF Coalesce
<1>e3. next' = [a \in Addr |->
                  IF a = b \/ (left /\ a = l) THEN bnext ELSE next[a]]
  BY <1>1 DEF Coalesce
<1>e4. prev' = [a \in Addr |->
                  IF a = bnext /\ (right \/ left) THEN keep ELSE prev[a]]
  BY <1>1 DEF Coalesce
<1>4. blocks' = {c \in blocks : c <= keep \/ finish <= c}
  <2>1. ASSUME NEW c \in blocks
        PROVE  c \in blocks' <=> (c <= keep \/ finish <= c)
    <3>0. c \in Addr /\ size[c] \in Nat /\ size[c] > 0
      BY <1>t1, <1>t2, <1>i1
    <3>1. CASE c = b
      <4>1. b < finish
        BY <1>f, <1>r, <1>t1
      <4>2. CASE left
        BY <3>1, <4>1, <4>2, <1>e1, <1>L, <1>t1, <1>f
      <4>3. CASE ~left
        <5>1. ~right \/ next[b] # b
          BY <1>R, <1>r, <1>t1
        <5>. QED
          BY <3>1, <4>3, <5>1, <1>e1, <1>t1
      <4>. QED
        BY <4>2, <4>3
    <3>2. CASE c < b
      <4>1. c \in blocks'
        BY <3>2, <3>0, <1>e1, <1>R, <1>r, <1>t1
      <4>2. c <= keep
        <5>1. CASE left
          <6>1. ~(l < c)
            BY <5>1, <3>2, <3>0, <1>L, <1>i3, <1>t1
          <6>. QED
            BY <5>1, <6>1, <3>0, <1>L, <1>t1
        <5>2. CASE ~left
          BY <5>2, <3>2, <3>0, <1>t1
        <5>. QED
          BY <5>1, <5>2
      <4>. QED
        BY <4>1, <4>2
    <3>3. CASE b < c
      <4>1. r <= c /\ ~(c <= keep)
        BY <3>3, <3>0, <1>i3, <1>k, <1>t1
      <4>2. CASE right
        <5>1. CASE c = r
          BY <5>1, <4>1, <4>2, <1>R, <1>e1, <1>r, <1>t2, <3>0
        <5>2. CASE c # r
          <6>1. r < c /\ r \in blocks
            BY <5>2, <4>1, <4>2, <3>0, <1>r, <1>R
          <6>2. finish <= c
            BY <6>1, <4>2, <1>i3
          <6>3. c \in blocks'
            BY <5>2, <3>3, <3>0, <4>2, <1>R, <1>e1, <1>t1
          <6>. QED
            BY <6>2, <6>3
        <5>. QED
          BY <5>1, <5>2
      <4>3. CASE ~right
        BY <3>3, <3>0, <4>1, <4>3, <1>e1, <1>t1
      <4>. QED
        BY <4>2, <4>3
    <3>. QED
      BY <3>0, <3>1, <3>2, <3>3, <1>t1
  <2>2. blocks' \subseteq blocks
    BY <1>e1
  <2>. QED
    BY <2>1, <2>2
<1>5. ASSUME NEW c \in blocks, keep < c, c < finish
      PROVE  c = b \/ is_free[c] = 1
  <2>1. c \notin blocks'
    BY <1>5, <1>4, <1>t1, <1>k, <1>f
  <2>. QED
    BY <2>1, <1>e1, <1>R
<1>6. size' \in [Addr -> Nat]
  <2>1. finish - b \in Nat
    BY <1>t1, <1>f, <1>r
  <2>2. ASSUME NEW a \in Addr PROVE size[a] \in Nat /\ size[a] + (finish - b) \in Nat
    BY <2>1, <1>t2
  <2>. QED
    BY <2>1, <2>2, <1>e2
<1>7. next' \in [Addr -> Addr \union {NULL}]
  BY <1>e3, <1>t4, <1>3
<1>8. prev' \in [Addr -> Addr \union {NULL}]
  BY <1>e4, <1>t5, <1>k
<1>9. ASSUME NEW c \in blocks', c # keep
      PROVE  c \in Addr /\ size'[c] = size[c] /\ next'[c] = next[c]
  <2>1. c \in blocks /\ c \in Addr
    BY <1>e1, <1>t1
  <2>2. c # b
    BY <1>9, <1>e1
  <2>3. ~(left /\ c = l)
    BY <1>9
  <2>. QED
    BY <2>1, <2>2, <2>3, <1>e2, <1>e3
<1>10. size'[keep] = finish - keep /\ next'[keep] = bnext
  <2>1. CASE left
    <3>1. l \in Addr /\ l # b /\ size[l] \in Nat /\ l + size[l] = b
      BY <2>1, <1>L, <1>t1, <1>t2
    <3>2. size'[l] = size[l] + (finish - b) /\ next'[l] = bnext
      BY <2>1, <3>1, <1>e2, <1>e3
    <3>3. size[l] + (finish - b) = finish - l
      BY <3>1, <1>t1, <1>f
    <3>. QED
      BY <2>1, <3>2, <3>3
  <2>2. CASE ~left
    BY <2>2, <1>e2, <1>e3, <1>t1
  <2>. QED
    BY <2>1, <2>2
<1>11. ASSUME NEW c \in blocks', c # finish
       PROVE  prev'[c] = prev[c]
  <2>1. c \in Addr
    BY <1>e1, <1>t1
  <2>2. c # bnext
    BY <1>11, <2>1
  <2>. QED
    BY <2>1, <2>2, <1>e4
<1>12. ASSUME finish # HEAP_SIZE
       PROVE  prev'[finish] = keep
  <2>1. finish \in Addr /\ bnext = finish
    BY <1>12, <1>g, <1>t1
  <2>2. CASE right \/ left
    BY <2>1, <2>2, <1>e4
  <2>3. CASE ~right /\ ~left
    <3>1. finish = r /\ keep = b /\ r \in blocks /\ r # 0
      BY <2>1, <2>3, <1>NR, <1>12, <1>r, <1>t1
    <3>2. prev[r] \in blocks /\ prev[r] + size[prev[r]] = r
      BY <3>1, <1>l3
    <3>3. prev[r] = b
      <4>1. prev[r] \in Addr /\ size[prev[r]] \in Nat /\ size[prev[r]] > 0
        <5>1. prev[r] \in Addr
          BY <3>2, <1>t1
        <5>2. size[prev[r]] \in Nat /\ size[prev[r]] > Header
          BY <3>2, <5>1, <1>t2, <1>i1
        <5>. QED
          BY <5>1, <5>2
      <4>2. ~(prev[r] < b)
        BY <3>2, <4>1, <1>i3, <1>r, <1>t1
      <4>3. ~(b < prev[r])
        BY <3>2, <4>1, <1>i3, <1>r, <1>t1
      <4>. QED
        BY <4>1, <4>2, <4>3, <1>t1
    <3>. QED
      BY <2>1, <2>3, <3>1, <3>3, <1>e4
  <2>. QED
    BY <2>2, <2>3
<1>13. Merged(b, keep, finish)
  BY <1>k, <1>p, <1>f, <1>g, <1>4, <1>5, <1>6, <1>7, <1>8, <1>9, <1>10, <1>11, <1>12
     DEF Merged
<1>. QED
  BY <1>13, <1>k, <1>f

\* kfree of a pointer that is in use.
LEMMA KfreeInv ==
  ASSUME TypeOK, Tiled, ListInOrder, Coalesced, LiveOwned, DoubleFreeSeen,
         NEW b \in blocks, is_free[b] = 0,
         is_free' = [is_free EXCEPT ![b] = 1],
         Coalesce(b),
         live' = live \ {Payload(b)},
         want' = [want EXCEPT ![Payload(b)] = 0],
         stale' = stale \union {b}
  PROVE  IInv'
<1>1. PICK keep \in Addr, finish \in Nat : Merged(b, keep, finish)
  BY CoalesceMerges
<1>t1. blocks \subseteq Addr /\ b \in Addr
  BY DEF TypeOK
<1>t2. size \in [Addr -> Nat] /\ size[b] \in Nat
  BY <1>t1 DEF TypeOK
<1>t3. is_free \in [Addr -> {0, 1}]
  BY DEF TypeOK
<1>t6. live \subseteq Addr /\ want \in [Addr -> Nat]
  BY DEF TypeOK
<1>t7. stale \subseteq Addr
  BY DEF TypeOK
<1>m1. keep \in blocks /\ keep <= b
  BY <1>1 DEF Merged
<1>m2. keep = b \/ is_free[keep] = 1
  BY <1>1 DEF Merged
<1>m3. keep # 0 => is_free[prev[keep]] = 0
  BY <1>1 DEF Merged
<1>m4. b + size[b] <= finish
  BY <1>1 DEF Merged
<1>m5. finish = HEAP_SIZE \/ (finish \in blocks /\ is_free[finish] = 0)
  BY <1>1 DEF Merged
<1>m6. blocks' = {c \in blocks : c <= keep \/ finish <= c}
  BY <1>1 DEF Merged
<1>m7. \A c \in blocks : keep < c /\ c < finish => c = b \/ is_free[c] = 1
  BY <1>1 DEF Merged
<1>m8. \A c \in blocks' : c # keep => size'[c] = size[c] /\ next'[c] = next[c]
  BY <1>1 DEF Merged
<1>m9. /\ size'[keep] = finish - keep
       /\ next'[keep] = IF finish = HEAP_SIZE THEN NULL ELSE finish
  BY <1>1 DEF Merged
<1>m10. \A c \in blocks' : c # finish => prev'[c] = prev[c]
  BY <1>1 DEF Merged
<1>m11. finish # HEAP_SIZE => prev'[finish] = keep
  BY <1>1 DEF Merged
<1>i1. \A c \in blocks : size[c] > Header /\ c + size[c] <= HEAP_SIZE
  BY DEF Tiled, End
<1>i2. \A c \in blocks : c + size[c] = HEAP_SIZE \/ c + size[c] \in blocks
  BY DEF Tiled, End
<1>i3. \A c, d \in blocks : c < d => c + size[c] <= d
  BY DEF Tiled, End
<1>l1. \A c \in blocks :
         next[c] = IF c + size[c] = HEAP_SIZE THEN NULL ELSE c + size[c]
  BY DEF ListInOrder, End
<1>l3. \A c \in blocks \ {0} : prev[c] \in blocks /\ prev[c] + size[prev[c]] = c
  BY DEF ListInOrder, End
\* A remaining block other than the merged one is apart from it.
<1>2. ASSUME NEW c \in blocks'
      PROVE  /\ c \in blocks /\ c \in Addr /\ size[c] \in Nat /\ size[c] > Header
             /\ c = keep \/ c + size[c] <= keep \/ finish <= c
  <2>1. c \in blocks /\ (c <= keep \/ finish <= c)
    BY <1>m6
  <2>2. c \in Addr /\ size[c] \in Nat
    BY <2>1, <1>t1, <1>t2
  <2>3. c < keep => c + size[c] <= keep
    BY <2>1, <1>m1, <1>i3
  <2>. QED
    BY <2>1, <2>2, <2>3, <1>i1
<1>3. keep \in blocks' /\ keep \in Addr /\ keep + Header < finish
  <2>1. size[b] > Header
    BY <1>i1
  <2>. QED
    BY <2>1, <1>m1, <1>m4, <1>m6, <1>t1, <1>t2
<1>4. finish # HEAP_SIZE => finish \in blocks'
  BY <1>m5, <1>m6
<1>f. finish <= HEAP_SIZE
  BY <1>m5, <1>t1
<1>5. TypeOK'
  <2>1. blocks' \subseteq Addr
    BY <1>m6, <1>t1
  <2>2. is_free' \in [Addr -> {0, 1}]
    BY <1>t1, <1>t3
  <2>3. live' \subseteq Addr
    BY <1>t6
  <2>4. want' \in [Addr -> Nat]
    BY <1>t6
  <2>5. stale' \subseteq Addr
    BY <1>t7, <1>t1
  <2>6. /\ size' \in [Addr -> Nat]
        /\ next' \in [Addr -> Addr \union {NULL}]
        /\ prev' \in [Addr -> Addr \union {NULL}]
    BY <1>1 DEF Merged
  <2>. QED
    BY <2>1, <2>2, <2>3, <2>4, <2>5, <2>6 DEF TypeOK
<1>6. Tiled'
  <2>1. heap_first \in blocks'
    BY <1>m6, <1>3 DEF Tiled
  <2>2. ASSUME NEW c \in blocks'
        PROVE  /\ size'[c] > Header /\ c + size'[c] <= HEAP_SIZE
               /\ c + size'[c] = HEAP_SIZE \/ c + size'[c] \in blocks'
    <3>1. CASE c = keep
      BY <3>1, <1>m9, <1>3, <1>4, <1>f
    <3>2. CASE c # keep
      <4>1. c \in blocks /\ size'[c] = size[c] /\ c \in Addr /\ size[c] \in Nat
        BY <3>2, <1>2, <1>m8
      <4>2. c + size[c] # HEAP_SIZE => c + size[c] \in blocks /\ c + size[c] \in Addr
        BY <4>1, <1>i2, <1>t1
      <4>3. c + size[c] <= keep \/ finish <= c + size[c]
        BY <3>2, <4>1, <1>2
      <4>. QED
        BY <4>1, <4>2, <4>3, <1>m6, <1>i1
    <3>. QED
      BY <3>1, <3>2
  <2>3. ASSUME NEW c \in blocks', NEW d \in blocks', c < d
        PROVE  c + size'[c] <= d
    <3>1. CASE c = keep
      BY <3>1, <2>3, <1>m9, <1>2, <1>3
    <3>2. CASE c # keep
      BY <3>2, <2>3, <1>m8, <1>2, <1>i3
    <3>. QED
      BY <3>1, <3>2
  <2>. QED
    BY <2>1, <2>2, <2>3 DEF Tiled, End
<1>7. ListInOrder'
  <2>1. ASSUME NEW c \in blocks'
        PROVE  next'[c] = IF c + size'[c] = HEAP_SIZE THEN NULL ELSE c + size'[c]
    <3>1. CASE c = keep
      BY <3>1, <1>m9, <1>3
    <3>2. CASE c # keep
      BY <3>2, <1>m8, <1>2, <1>l1
    <3>. QED
      BY <3>1, <3>2
  <2>2. prev'[0] = NULL
    <3>1. 0 \in blocks' /\ 0 # finish
      BY <1>6, <1>3 DEF Tiled
    <3>. QED
      BY <3>1, <1>m10 DEF ListInOrder
  <2>3. ASSUME NEW c \in blocks' \ {0}
        PROVE  prev'[c] \in blocks' /\ prev'[c] + size'[prev'[c]] = c
    <3>1. CASE c = finish
      <4>1. prev'[c] = keep
        BY <3>1, <1>m11, <1>2
      <4>. QED
        BY <3>1, <4>1, <1>3, <1>m9
    <3>2. CASE c # finish
      <4>1. prev'[c] = prev[c] /\ c \in blocks
        BY <3>2, <1>m10, <1>2
      <4>2. prev[c] \in blocks /\ prev[c] + size[prev[c]] = c
        BY <4>1, <1>l3
      <4>3. prev[c] \in Addr /\ size[prev[c]] \in Nat /\ size[prev[c]] > 0
        <5>1. prev[c] \in Addr
          BY <4>2, <1>t1
        <5>2. size[prev[c]] \in Nat /\ size[prev[c]] > Header
          BY <4>2, <5>1, <1>t2, <1>i1
        <5>. QED
          BY <5>1, <5>2
      <4>4. prev[c] < keep \/ finish <= prev[c]
        <5>1. CASE c <= keep
          BY <5>1, <4>2, <4>3, <1>2, <1>3
        <5>2. CASE finish < c
          <6>1. finish \in blocks
            BY <5>2, <1>m5, <1>2
          <6>2. ~(prev[c] < finish)
            BY <6>1, <4>2, <4>3, <5>2, <1>i3, <1>2
          <6>. QED
            BY <6>2, <4>3
        <5>. QED
          BY <5>1, <5>2, <3>2, <1>2, <1>3
      <4>5. prev[c] \in blocks' /\ prev[c] # keep
        BY <4>2, <4>3, <4>4, <1>m6, <1>3
      <4>. QED
        BY <4>1, <4>2, <4>5, <1>m8
    <3>. QED
      BY <3>1, <3>2
  <2>. QED
    BY <2>1, <2>2, <2>3 DEF ListInOrder, End
<1>8. is_free'[b] = 1 /\ \A a \in Addr : a # b => is_free'[a] = is_free[a]
  BY <1>t1, <1>t3
<1>9. Coalesced'
  <2>. SUFFICES ASSUME NEW c \in blocks', is_free'[c] = 1, next'[c] # NULL
                PROVE  is_free'[next'[c]] = 0
    BY DEF Coalesced
  <2>1. CASE c = keep
    <3>1. next'[c] = finish /\ finish \in blocks /\ is_free[finish] = 0
      BY <2>1, <1>m5, <1>m9
    <3>2. finish # b
      BY <1>3, <1>m1, <1>m4, <1>t1, <1>t2, <1>i1
    <3>. QED
      BY <3>1, <3>2, <1>8, <1>t1
  <2>2. CASE c # keep
    <3>1. /\ c \in blocks /\ c \in Addr /\ size[c] \in Nat /\ size[c] > Header
          /\ c + size[c] <= keep \/ finish <= c
      BY <2>2, <1>2
    <3>2. next'[c] = c + size[c] /\ next[c] = c + size[c] /\ c + size[c] \in blocks
      BY <2>2, <3>1, <1>m8, <1>l1, <1>i2
    <3>3. c # b
      BY <2>2, <3>1, <1>m1, <1>m4, <1>t1, <1>t2, <1>i1
    <3>4. is_free[c] = 1
      BY <3>1, <3>3, <1>8
    <3>5. is_free[c + size[c]] = 0
      BY <3>1, <3>2, <3>4 DEF Coalesced
    <3>6. c + size[c] # b
      <4>. SUFFICES ASSUME c + size[c] = b PROVE FALSE
        OBVIOUS
      <4>1. keep = b /\ b # 0
        BY <3>1, <1>m1, <1>m4, <1>t1, <1>t2, <1>3
      <4>2. prev[b] \in blocks /\ prev[b] + size[prev[b]] = b /\ is_free[prev[b]] = 0
        BY <4>1, <1>l3, <1>m3
      <4>3. prev[b] \in Addr /\ size[prev[b]] \in Nat
        BY <4>2, <1>t1, <1>t2
      <4>4. size[prev[b]] > Header
        BY <4>2, <1>i1
      <4>5. prev[b] = c
        <5>1. ~(prev[b] < c)
          BY <3>1, <4>2, <4>3, <1>i3, <1>t1
        <5>2. ~(c < prev[b])
          BY <3>1, <4>2, <4>3, <4>4, <1>i3, <1>t1
        <5>. QED
          BY <5>1, <5>2, <3>1, <4>3
      <4>. QED
        BY <4>2, <4>5, <3>4
    <3>. QED
      BY <3>2, <3>5, <3>6, <1>8, <1>t1
  <2>. QED
    BY <2>1, <2>2
<1>10. LiveOwned'
  <2>1. ASSUME NEW c \in blocks', is_free'[c] = 0
        PROVE  Payload(c) \in live'
    <3>1. c \in blocks /\ c \in Addr /\ c # b /\ is_free[c] = 0
      BY <2>1, <1>2, <1>8
    <3>2. Payload(c) \in live /\ Payload(c) # Payload(b)
      BY <3>1, <1>t1 DEF LiveOwned, Payload
    <3>. QED
      BY <3>2
  <2>2. ASSUME NEW p \in live'
        PROVE  /\ p - Header \in blocks' /\ is_free'[p - Header] = 0
               /\ want'[p] + Header <= size'[p - Header]
    <3>1. p \in live /\ p # Payload(b) /\ p \in Addr
      BY <1>t6
    <3>2. p - Header \in blocks /\ is_free[p - Header] = 0
      BY <3>1 DEF LiveOwned
    <3>3. want[p] + Header <= size[p - Header]
      BY <3>1 DEF LiveOwned
    <3>4. p - Header # b
      BY <3>1, <1>t1 DEF Payload
    <3>5. p - Header # keep
      BY <3>2, <3>4, <1>m2
    <3>6. p - Header \in blocks'
      BY <3>1, <3>2, <3>4, <1>m6, <1>m7, <1>3
    <3>7. want'[p] = want[p]
      BY <3>1, <1>t6
    <3>. QED
      BY <3>2, <3>3, <3>4, <3>5, <3>6, <3>7, <1>8, <1>m8, <1>t1
  <2>. QED
    BY <2>1, <2>2 DEF LiveOwned, Payload
<1>11. DoubleFreeSeen'
  <2>. SUFFICES ASSUME NEW s \in stale'
                PROVE  /\ is_free'[s] = 1
                       /\ \A c \in blocks' : c = s \/ c + Header <= s \/ s + Header <= c
    BY DEF DoubleFreeSeen
  <2>1. CASE s = b
    <3>1. ASSUME NEW c \in blocks', c # b
          PROVE  c + Header <= b \/ b + Header <= c
      <4>1. c \in blocks /\ c \in Addr /\ size[c] \in Nat /\ size[c] > Header
        BY <1>2
      <4>2. c < b => c + size[c] <= b
        BY <4>1, <1>i3
      <4>3. b < c => b + size[b] <= c /\ size[b] > Header
        BY <4>1, <1>i1, <1>i3
      <4>. QED
        BY <3>1, <4>1, <4>2, <4>3, <1>t1, <1>t2
    <3>. QED
      BY <2>1, <3>1, <1>8
  <2>2. CASE s \in stale /\ s # b
    <3>1. /\ is_free[s] = 1
          /\ \A c \in blocks : c = s \/ c + Header <= s \/ s + Header <= c
      BY <2>2 DEF DoubleFreeSeen
    <3>. QED
      BY <2>2, <3>1, <1>2, <1>8, <1>t7
  <2>. QED
    BY <2>1, <2>2
<1>. QED
  BY <1>5, <1>6, <1>7, <1>9, <1>10, <1>11 DEF IInv

\* Every operation preserves the invariant.
LEMMA NextInv == IInv /\ [Next]_vars => IInv'
<1>. SUFFICES ASSUME IInv, [Next]_vars PROVE IInv'
  OBVIOUS
<1>0. TypeOK /\ Tiled /\ ListInOrder /\ Coalesced /\ LiveOwned /\ DoubleFreeSeen
  BY DEF IInv
<1>1. ASSUME NEW n \in Requests, kmalloc(n)
      PROVE  IInv'
  <2>1. PICK b \in blocks :
          /\ n # 0
          /\ FirstFit(b, TotalSize(n))
          /\ IF size[b] > TotalSize(n) + SplitSlack
               THEN Split(b, TotalSize(n))
               ELSE TakeWhole(b, TotalSize(n))
          /\ live' = live \union {Payload(b)}
          /\ want' = [want EXCEPT ![Payload(b)] = n]
    BY <1>1 DEF kmalloc
  <2>2. n \in Nat /\ n > 0 /\ TotalSize(n) \in Nat /\ TotalSize(n) >= n + Header
    BY <2>1, TotalSizeLarge
  <2>3. is_free[b] = 1 /\ size[b] >= TotalSize(n)
    BY <2>1 DEF FirstFit, Fits
  <2>4. CASE size[b] > TotalSize(n) + SplitSlack
    <3>1. size[b] > TotalSize(n) + Header + Align
      <4>1. size[b] \in Nat
        BY <1>0 DEF TypeOK
      <4>. QED
        BY <2>2, <2>4, <4>1 DEF SplitSlack
    <3>. QED
      BY <1>0, <2>1, <2>2, <2>3, <2>4, <3>1, SplitInv
  <2>5. CASE ~(size[b] > TotalSize(n) + SplitSlack)
    BY <1>0, <2>1, <2>2, <2>3, <2>5, TakeWholeInv
  <2>. QED
    BY <2>4, <2>5
<1>2. ASSUME NEW n \in Requests, kmallocFail(n)
      PROVE  IInv'
  BY <1>2 DEF kmallocFail, vars, IInv, TypeOK, Tiled, ListInOrder, Coalesced,
              LiveOwned, DoubleFreeSeen, End
<1>3. ASSUME NEW p \in Pointers, kfree(p)
      PROVE  IInv'
  <2>. DEFINE b == p - Header
  <2>1. CASE is_free[b] = 1
    <3>1. UNCHANGED vars
      BY <1>3, <2>1 DEF kfree
    <3>. QED
      BY <3>1 DEF vars, IInv, TypeOK, Tiled, ListInOrder, Coalesced,
                  LiveOwned, DoubleFreeSeen, End
  <2>2. CASE is_free[b] # 1
    <3>1. /\ p \in live \/ b \in stale
          /\ is_free' = [is_free EXCEPT ![b] = 1]
          /\ Coalesce(b)
          /\ live' = live \ {p}
          /\ stale' = stale \union {b}
          /\ want' = [want EXCEPT ![p] = 0]
      BY <1>3, <2>2 DEF kfree
    <3>2. p \in live
      BY <1>0, <2>2, <3>1 DEF DoubleFreeSeen
    <3>3. b \in blocks /\ is_free[b] = 0
      BY <1>0, <3>2 DEF LiveOwned
    <3>4. Payload(b) = p
      BY <1>0, <3>2 DEF TypeOK, Payload
    <3>. QED
      BY <1>0, <3>1, <3>3, <3>4, KfreeInv
  <2>. QED
    BY <2>1, <2>2
<1>4. CASE UNCHANGED vars
  BY <1>4 DEF vars, IInv, TypeOK, Tiled, ListInOrder, Coalesced,
              LiveOwned, DoubleFreeSeen, End
<1>. QED
  BY <1>1, <1>2, <1>3, <1>4 DEF Next

\* Tiling and ownership together keep callers apart.
LEMMA OverlapFree == IInv => NoOverlap
<1>. SUFFICES ASSUME IInv PROVE NoOverlap
  OBVIOUS
<1>1. ASSUME NEW p \in live
      PROVE  /\ p \in Addr /\ want[p] \in Nat
             /\ p - Header \in blocks /\ p - Header \in Addr
             /\ size[p - Header] \in Nat
             /\ want[p] + Header <= size[p - Header]
             /\ (p - Header) + size[p - Header] <= HEAP_SIZE
  <2>1. p \in Addr /\ want[p] \in Nat
    BY DEF IInv, TypeOK
  <2>2. p - Header \in blocks /\ want[p] + Header <= size[p - Header]
    BY DEF IInv, LiveOwned
  <2>3. p - Header \in Addr
    BY <2>2 DEF IInv, TypeOK
  <2>4. size[p - Header] \in Nat
    BY <2>3 DEF IInv, TypeOK
  <2>5. (p - Header) + size[p - Header] <= HEAP_SIZE
    BY <2>2 DEF IInv, Tiled, End
  <2>. QED
    BY <2>1, <2>2, <2>3, <2>4, <2>5
<1>2. \A c, d \in blocks : c < d => c + size[c] <= d
  BY DEF IInv, Tiled, End
<1>3. \A c \in blocks : c \in Addr
  BY DEF IInv, TypeOK
<1>4. ASSUME NEW p \in live, NEW q \in live, p < q
      PROVE  p + want[p] + Header <= q
  <2>1. (p - Header) + size[p - Header] <= q - Header
    BY <1>1, <1>2, <1>4
  <2>. QED
    BY <2>1, <1>1
<1>5. ASSUME NEW p \in live
      PROVE  p + want[p] <= HEAP_SIZE
  BY <1>1
<1>6. ASSUME NEW p \in live, NEW b \in blocks
      PROVE  b + Header <= p \/ p + want[p] <= b
  <2>1. CASE b <= p - Header
    BY <2>1, <1>1, <1>3
  <2>2. CASE p - Header < b
    <3>1. (p - Header) + size[p - Header] <= b
      BY <2>2, <1>1, <1>2
    <3>. QED
      BY <3>1, <1>1, <1>3
  <2>. QED
    BY <2>1, <2>2, <1>1, <1>3
<1>. QED
  BY <1>4, <1>5, <1>6 DEF NoOverlap

\* With no pointer out, the free blocks are adjacent, so there is only one.
LEMMA RecoveredWhenEmpty == IInv => FullyRecovered
<1>. SUFFICES ASSUME IInv, live = {}
              PROVE  blocks = {0} /\ size[0] = HEAP_SIZE
  BY DEF FullyRecovered
<1>1. \A c \in blocks : c \in Addr /\ is_free[c] = 1
  BY DEF IInv, TypeOK, LiveOwned
<1>2. 0 \in blocks /\ size[0] \in Nat
  BY DEF IInv, Tiled, TypeOK
<1>3. size[0] = HEAP_SIZE
  <2>1. size[0] = HEAP_SIZE \/ size[0] \in blocks
    BY <1>2 DEF IInv, Tiled, End
  <2>2. next[0] = IF size[0] = HEAP_SIZE THEN NULL ELSE size[0]
    BY <1>2 DEF IInv, ListInOrder, End
  <2>3. next[0] # NULL => is_free[next[0]] = 0
    BY <1>1, <1>2 DEF IInv, Coalesced
  <2>. QED
    BY <2>1, <2>2, <2>3, <1>1, <1>2
<1>4. \A c \in blocks : 0 < c => size[0] <= c
  BY <1>2 DEF IInv, Tiled, End
<1>. QED
  BY <1>1, <1>2, <1>3, <1>4

\* IInv holds in every state of every run of kmalloc and kfree.
THEOREM HeapInvariant == Spec => []IInv
BY InitInv, NextInv, PTL DEF Spec

\* The blocks always tile the heap: kmalloc and kfree neither lose nor duplicate
\* a byte of heap_space.
THEOREM HeapStaysTiled == Spec => []Tiled
<1>1. IInv => Tiled
  BY DEF IInv
<1>. QED
  BY <1>1, HeapInvariant, PTL

\* The doubly linked list always agrees with the tiling.
THEOREM HeapListConsistent == Spec => []ListInOrder
<1>1. IInv => ListInOrder
  BY DEF IInv
<1>. QED
  BY <1>1, HeapInvariant, PTL

\* kfree never leaves two adjacent free blocks.
THEOREM HeapStaysCoalesced == Spec => []Coalesced
<1>1. IInv => Coalesced
  BY DEF IInv
<1>. QED
  BY <1>1, HeapInvariant, PTL

\* No two callers of kmalloc ever hold overlapping memory, nor memory that
\* overlaps a header.
THEOREM HeapNoOverlap == Spec => []NoOverlap
BY OverlapFree, HeapInvariant, PTL

\* A second kfree of the same pointer is always recognised while the header
\* survives.
THEOREM HeapDoubleFree == Spec => []DoubleFreeSeen
<1>1. IInv => DoubleFreeSeen
  BY DEF IInv
<1>. QED
  BY <1>1, HeapInvariant, PTL

\* Freeing everything restores the initial single block.
THEOREM HeapRecovered == Spec => []FullyRecovered
BY RecoveredWhenEmpty, HeapInvariant, PTL

-----------------------------------------------------------------------------
\* The extents callers own, as HeapContract sees them.
owned == {<<p, want[p]>> : p \in live}

\* Every step of the heap is a step of the contract or changes nothing there.
LEMMA StepRefines == IInv /\ NoOverlap' /\ [Next]_vars => [Contract!Next]_owned
<1>. SUFFICES ASSUME IInv, NoOverlap', [Next]_vars
              PROVE  Contract!Next \/ owned' = owned
  BY DEF owned
<1>1. ASSUME NEW n \in Requests, kmalloc(n)
      PROVE  Contract!Next
  <2>1. PICK b \in blocks :
          /\ FirstFit(b, TotalSize(n))
          /\ live' = live \union {Payload(b)}
          /\ want' = [want EXCEPT ![Payload(b)] = n]
    BY <1>1 DEF kmalloc
  <2>. DEFINE p == Payload(b)
  <2>2. p \in live' /\ p \in Addr /\ live \subseteq Addr /\ want \in [Addr -> Nat]
    <3>1. live \subseteq Addr /\ want \in [Addr -> Nat] /\ b \in Addr /\ size[b] \in Nat
      BY DEF IInv, TypeOK
    <3>2. size[b] > Header /\ b + size[b] <= HEAP_SIZE
      BY DEF IInv, Tiled, End
    <3>3. p \in Addr
      BY <3>1, <3>2 DEF Payload
    <3>. QED
      BY <2>1, <3>1, <3>3
  <2>3. want'[p] = n /\ \A q \in live : q # p => want'[q] = want[q]
    BY <2>1, <2>2
  <2>4. p \notin live
    <3>1. is_free[b] = 1 /\ b \in Addr
      BY <2>1 DEF FirstFit, Fits, IInv, TypeOK
    <3>2. p - Header = b
      BY <3>1 DEF Payload
    <3>. QED
      BY <3>1, <3>2 DEF IInv, LiveOwned
  <2>5. n \in Nat /\ p + n <= HEAP_SIZE
    BY <2>2, <2>3 DEF NoOverlap
  <2>6. ASSUME NEW e \in owned
        PROVE  Contract!Apart(p, n, e[1], e[2])
    <3>1. PICK q \in live : e = <<q, want[q]>>
      BY DEF owned
    <3>2. q # p /\ q \in live' /\ q \in Addr /\ want[q] \in Nat /\ want'[q] = want[q]
      BY <3>1, <2>1, <2>2, <2>3, <2>4
    <3>3. q < p => q + want[q] + Header <= p
      BY <2>2, <3>2 DEF NoOverlap
    <3>4. p < q => p + n + Header <= q
      BY <2>2, <2>3, <3>2 DEF NoOverlap
    <3>5. p + n <= q \/ q + want[q] <= p
      BY <2>2, <2>5, <3>2, <3>3, <3>4
    <3>. QED
      BY <3>1, <3>5 DEF Contract!Apart
  <2>7. owned' = owned \union {<<p, n>>}
    BY <2>1, <2>3, <2>4 DEF owned
  <2>8. Contract!Malloc(n)
    BY <2>2, <2>5, <2>6, <2>7 DEF Contract!Malloc, owned
  <2>. QED
    BY <2>8 DEF Contract!Next
<1>2. ASSUME NEW n \in Requests, kmallocFail(n)
      PROVE  owned' = owned
  BY <1>2 DEF kmallocFail, vars, owned
<1>3. ASSUME NEW p \in Pointers, kfree(p)
      PROVE  Contract!Next \/ owned' = owned
  <2>. DEFINE b == p - Header
  <2>1. CASE is_free[b] = 1
    <3>1. UNCHANGED vars
      BY <1>3, <2>1 DEF kfree
    <3>. QED
      BY <3>1 DEF vars, owned
  <2>2. CASE is_free[b] # 1
    <3>1. /\ p \in live \/ b \in stale
          /\ live' = live \ {p}
          /\ want' = [want EXCEPT ![p] = 0]
      BY <1>3, <2>2 DEF kfree
    <3>2. p \in live /\ live \subseteq Addr /\ want \in [Addr -> Nat]
      BY <2>2, <3>1 DEF IInv, DoubleFreeSeen, TypeOK
    <3>3. \A q \in live' : q \in live /\ q # p /\ want'[q] = want[q]
      BY <3>1, <3>2
    <3>4. owned' = owned \ {<<p, want[p]>>}
      BY <3>1, <3>2, <3>3 DEF owned
    <3>5. <<p, want[p]>> \in owned
      BY <3>2 DEF owned
    <3>. QED
      BY <3>4, <3>5 DEF Contract!Next, Contract!Free, owned
  <2>. QED
    BY <2>1, <2>2
<1>4. CASE UNCHANGED vars
  BY <1>4 DEF vars, owned
<1>. QED
  BY <1>1, <1>2, <1>3, <1>4 DEF Next

\* The heap implements the contract its callers rely on, for every heap size and
\* every sequence of requests.
THEOREM HeapImplementsContract == Spec => ImplementsContract
<1>1. Init => Contract!Init
  BY DEF Init, Contract!Init
<1>2. IInv /\ NoOverlap' /\ [Next]_vars => [Contract!Next]_owned
  BY StepRefines
<1>. QED
  BY <1>1, <1>2, HeapInvariant, OverlapFree, PTL
     DEF Spec, ImplementsContract, Contract!Spec, owned
=============================================================================
