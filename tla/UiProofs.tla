------------------------------ MODULE UiProofs -------------------------------
(***************************************************************************)
(* Proofs about Ui, for every size of its tables and every mixture of      *)
(* shell, programs and graphical mode: the ring of the keyboard driver     *)
(* (KeysStayInOrder), the line being edited (PromptStaysTrue), the working *)
(* directory (CwdStaysResolved) and the list of windows                    *)
(* (WindowsStaySound).                                                     *)
(*                                                                         *)
(* The loops of put_str, of the path walk and of the search of the windows *)
(* are local recursive functions of the model.  What such a function is,   *)
(* is found in two steps: some course of the loop exists (Course, or an    *)
(* explicit one), and what holds at its start and after each turn holds at *)
(* its end (Counting, from the least counterexample).                      *)
(***************************************************************************)
EXTENDS Ui, SequenceTheorems, FiniteSetTheorems, WellFoundedInduction, TLAPS

S == KBD_BUF_SIZE
Keys == Chars \union {"enter", "none"}

\* The cell i places before the head, and how many keys keyboard_get finds.
Back(i) == IF i <= kbd_buf_head THEN kbd_buf_head - i ELSE kbd_buf_head - i + S
Unread == IF kbd_buf_tail <= kbd_buf_head THEN kbd_buf_head - kbd_buf_tail
          ELSE kbd_buf_head - kbd_buf_tail + S

RingTyped ==
  /\ kbd_buf_head \in Cells
  /\ kbd_buf_tail \in Cells
  /\ kbd_buffer \in [Cells -> Keys]
  /\ recent \in Seq(Keys)
  /\ Len(recent) <= S - 1

\* The cells before the head hold the last keys typed, whether read or not, and no
\* more are unread than are known.
NewestKept ==
  /\ Unread <= Len(recent)
  /\ \A i \in 1 .. Len(recent) : kbd_buffer[Back(i)] = recent[Len(recent) - i + 1]

IInv == RingTyped /\ NewestKept

USE DEF S, Cells

\* The sizes of the ring.
LEMMA RingSize == S \in Nat /\ S >= 2
BY ConsoleAssumption

\* The remainders that the ring's indices are reduced with.
LEMMA Wrapping ==
  /\ \A a \in Cells : (a + 1) % S = IF a = S - 1 THEN 0 ELSE a + 1
  /\ \A a \in 0 .. S - 1 : a % S = a
  /\ \A a \in S .. S + S - 1 : a % S = a - S
  /\ \A a \in (0 - S) .. -1 : a % S = a + S
<1>. DEFINE m == S
<1>1. m \in Nat /\ m >= 2
  BY RingSize
<1>. HIDE DEF m
<1>2. \A a \in 0 .. m - 1 : a % m = a
  BY <1>1, Z3
<1>3. \A a \in m .. m + m - 1 : a % m = a - m
  BY <1>1, Z3
<1>4. \A a \in (0 - m) .. -1 : a % m = a + m
  BY <1>1, Z3
<1>5. \A a \in 0 .. m - 1 : (a + 1) % m = IF a = m - 1 THEN 0 ELSE a + 1
  BY <1>1, <1>2, <1>3
<1>. QED
  BY <1>2, <1>3, <1>4, <1>5 DEF m

\* keyboard_put keeps the order, also when the head passes the tail.
LEMMA PutInv ==
  ASSUME NEW c \in Chars \union {"enter"}, IInv, keyboard_put(c)
  PROVE  IInv'
<1>s. S \in Nat /\ S >= 2
  BY RingSize
<1>t. /\ kbd_buf_head \in 0 .. S - 1 /\ kbd_buf_tail \in 0 .. S - 1
      /\ kbd_buffer \in [Cells -> Keys]
      /\ recent \in Seq(Keys) /\ Len(recent) \in Nat /\ Len(recent) <= S - 1
      /\ c \in Keys
      /\ Unread <= Len(recent)
  BY DEF IInv, RingTyped, NewestKept, Keys
<1>1. /\ kbd_buffer' = [kbd_buffer EXCEPT ![kbd_buf_head] = c]
      /\ kbd_buf_head' = IF kbd_buf_head = S - 1 THEN 0 ELSE kbd_buf_head + 1
      /\ kbd_buf_tail' = kbd_buf_tail
  BY <1>t, Wrapping DEF keyboard_put, Stored
<1>b. kbd_buffer' \in [Cells -> Keys] /\ kbd_buffer'[kbd_buf_head] = c
  BY <1>1, <1>t
\* The new list of keys: c behind the old ones, or behind all but the oldest.
<1>2. /\ recent' \in Seq(Keys) /\ Len(recent') <= S - 1
      /\ Len(recent') = IF Len(recent) < S - 1 THEN Len(recent) + 1 ELSE Len(recent)
      /\ Len(recent') \in Nat /\ Len(recent') >= 1
      /\ recent'[Len(recent')] = c
      /\ \A i \in 2 .. Len(recent') :
           recent'[Len(recent') - i + 1] = recent[Len(recent) - (i - 1) + 1]
  <2>1. CASE Len(recent) < S - 1
    <3>1. recent' = Append(recent, c)
      BY <2>1 DEF keyboard_put
    <3>2. /\ Append(recent, c) \in Seq(Keys)
          /\ Len(Append(recent, c)) = Len(recent) + 1
          /\ Append(recent, c)[Len(recent) + 1] = c
          /\ \A i \in 1 .. Len(recent) : Append(recent, c)[i] = recent[i]
      BY <1>t
    <3>. HIDE DEF Keys
    <3>. QED
      BY <1>t, <1>s, <2>1, <3>1, <3>2
  <2>2. CASE ~(Len(recent) < S - 1)
    <3>1. recent' = Append(Tail(recent), c)
      BY <2>2 DEF keyboard_put
    <3>2. /\ Tail(recent) \in Seq(Keys) /\ Len(Tail(recent)) = Len(recent) - 1
          /\ \A i \in 1 .. Len(recent) - 1 : Tail(recent)[i] = recent[i + 1]
      BY <1>t, <1>s, <2>2
    <3>. DEFINE t == Tail(recent)
    <3>. HIDE DEF t
    <3>3. /\ Append(t, c) \in Seq(Keys)
          /\ Len(Append(t, c)) = Len(t) + 1
          /\ Append(t, c)[Len(t) + 1] = c
          /\ \A i \in 1 .. Len(t) : Append(t, c)[i] = t[i]
      BY <1>t, <3>2 DEF t
    <3>. QED
      BY <1>t, <1>s, <2>2, <3>1, <3>2, <3>3 DEF t
  <2>. QED
    BY <2>1, <2>2
<1>3. RingTyped'
  BY <1>1, <1>2, <1>b, <1>t, <1>s DEF RingTyped
<1>4. Unread' <= Len(recent')
  BY <1>1, <1>2, <1>t, <1>s DEF Unread
<1>5. \A i \in 1 .. Len(recent') : kbd_buffer'[Back(i)'] = recent'[Len(recent') - i + 1]
  <2>. SUFFICES ASSUME NEW i \in 1 .. Len(recent')
                PROVE  kbd_buffer'[Back(i)'] = recent'[Len(recent') - i + 1]
    OBVIOUS
  <2>1. CASE i = 1
    <3>1. Back(i)' = kbd_buf_head
      BY <1>1, <1>t, <1>s, <2>1 DEF Back
    <3>2. Len(recent') - i + 1 = Len(recent')
      BY <1>2, <2>1
    <3>. QED
      BY <3>1, <3>2, <1>2, <1>b
  <2>2. CASE i # 1
    <3>1. i \in 2 .. Len(recent') /\ i - 1 \in 1 .. Len(recent) /\ i <= S - 1
      BY <1>2, <1>t, <1>s, <2>2
    <3>2. /\ Back(i)' = Back(i - 1) /\ Back(i - 1) \in Cells
          /\ Back(i - 1) # kbd_buf_head
      BY <1>1, <1>t, <1>s, <3>1 DEF Back
    <3>3. kbd_buffer'[Back(i)'] = kbd_buffer[Back(i - 1)]
      BY <1>1, <1>t, <3>2
    <3>4. kbd_buffer[Back(i - 1)] = recent[Len(recent) - (i - 1) + 1]
      BY <3>1 DEF IInv, NewestKept
    <3>. QED
      BY <1>2, <3>1, <3>3, <3>4
  <2>. QED
    BY <2>1, <2>2
<1>. QED
  BY <1>3, <1>4, <1>5 DEF IInv, NewestKept

\* keyboard_get reads the oldest key that is left.
LEMMA GetInv == IInv /\ keyboard_get => IInv'
<1>. SUFFICES ASSUME IInv, keyboard_get PROVE IInv'
  OBVIOUS
<1>s. S \in Nat /\ S >= 2
  BY RingSize
<1>t. /\ kbd_buf_head \in 0 .. S - 1 /\ kbd_buf_tail \in 0 .. S - 1
      /\ Len(recent) \in Nat
      /\ Unread <= Len(recent)
  BY DEF IInv, RingTyped, NewestKept
<1>1. /\ kbd_buf_tail' = IF kbd_buf_tail = S - 1 THEN 0 ELSE kbd_buf_tail + 1
      /\ kbd_buf_head # kbd_buf_tail
      /\ UNCHANGED <<kbd_buffer, kbd_buf_head, recent>>
  BY <1>t, Wrapping DEF keyboard_get
<1>2. RingTyped'
  BY <1>1, <1>t, <1>s DEF IInv, RingTyped
<1>3. Unread' <= Len(recent')
  BY <1>1, <1>t, <1>s DEF Unread
<1>4. \A i \in 1 .. Len(recent') : kbd_buffer'[Back(i)'] = recent'[Len(recent') - i + 1]
  BY <1>1 DEF IInv, NewestKept, Back
<1>. QED
  BY <1>2, <1>3, <1>4 DEF IInv, NewestKept

\* Booting, the first time or again, empties the ring.
LEMMA EmptyRing ==
  /\ ConsoleInit => IInv
  /\ ConsoleBoot => IInv'
<1>s. S \in Nat /\ S >= 2
  BY RingSize
<1>1. /\ [i \in Cells |-> "none"] \in [Cells -> Keys]
      /\ <<>> \in Seq(Keys) /\ Len(<<>>) = 0
  BY DEF Keys
<1>2. ASSUME ConsoleInit PROVE IInv
  <2>1. RingTyped
    BY <1>1, <1>2, <1>s DEF ConsoleInit, RingTyped
  <2>. QED
    BY <1>1, <1>2, <2>1 DEF ConsoleInit, IInv, NewestKept, Unread
<1>3. ASSUME ConsoleBoot PROVE IInv'
  <2>1. RingTyped'
    BY <1>1, <1>3, <1>s DEF ConsoleBoot, RingTyped
  <2>. QED
    BY <1>1, <1>3, <2>1 DEF ConsoleBoot, IInv, NewestKept, Unread
<1>. QED
  BY <1>2, <1>3

\* Whatever leaves the ring alone.
LEMMA RingAlone == IInv /\ UNCHANGED ringVars => IInv'
BY DEF ringVars, IInv, RingTyped, NewestKept, Unread, Back

\* Only keyboard_put, keyboard_get and a boot touch the ring.
LEMMA NextInv == IInv /\ [Next]_vars => IInv'
<1>. SUFFICES ASSUME IInv, [Next]_vars PROVE IInv'
  OBVIOUS
<1>1. CASE shell_key
  <2>1. CASE execute_command
    <3>1. CASE command_reboot
      BY <3>1, EmptyRing DEF command_reboot
    <3>2. CASE command_other \/ command_tree \/ command_exec \/ command_vinit
      <4>1. UNCHANGED ringVars
        BY <3>2 DEF command_other, command_tree, command_exec, command_vinit, enter
      <4>. QED
        BY <4>1, RingAlone
    <3>. QED
      BY <2>1, <3>1, <3>2 DEF execute_command
  <2>2. CASE up \/ down \/ backspace \/ \E c \in Chars : character(c)
    <3>1. UNCHANGED ringVars
      BY <2>2 DEF up, down, backspace, character
    <3>. QED
      BY <3>1, RingAlone
  <2>. QED
    BY <1>1, <2>1, <2>2 DEF shell_key
<1>2. CASE text_mode
  <2>1. CASE \E c \in Chars \union {"enter"} : keyboard_put(c)
    BY <2>1, PutInv
  <2>2. CASE keyboard_get
    BY <2>2, GetInv
  <2>3. CASE task_exit
    BY <2>3, RingAlone DEF task_exit
  <2>4. CASE kernel_message
    BY <2>4, RingAlone DEF kernel_message
  <2>5. CASE UNCHANGED consoleVars
    BY <2>5, RingAlone DEF consoleVars
  <2>. QED
    BY <1>2, <2>1, <2>2, <2>3, <2>4, <2>5 DEF text_mode
<1>3. CASE graphical_mode \/ UNCHANGED vars
  <2>1. UNCHANGED ringVars
    BY <1>3 DEF graphical_mode, vars, consoleVars
  <2>. QED
    BY <2>1, RingAlone
<1>. QED
  BY <1>1, <1>2, <1>3 DEF Next

\* What the ring holds between tail and head are the newest keys in order.
LEMMA InvKeys == IInv => KeysInOrder
<1>. SUFFICES ASSUME IInv PROVE KeysInOrder
  OBVIOUS
<1>s. S \in Nat /\ S >= 2
  BY RingSize
<1>t. /\ kbd_buf_head \in 0 .. S - 1 /\ kbd_buf_tail \in 0 .. S - 1
      /\ kbd_buffer \in [Cells -> Keys]
      /\ recent \in Seq(Keys) /\ Len(recent) \in Nat
      /\ Unread <= Len(recent)
  BY DEF IInv, RingTyped, NewestKept
<1>. DEFINE n == (kbd_buf_head - kbd_buf_tail) % S
            ring == [k \in 1 .. n |-> kbd_buffer[(kbd_buf_tail + k - 1) % S]]
            keys == SubSeq(recent, Len(recent) - n + 1, Len(recent))
<1>1. n = Unread
  <2>1. CASE kbd_buf_tail <= kbd_buf_head
    <3>1. kbd_buf_head - kbd_buf_tail \in 0 .. S - 1
      BY <2>1, <1>t, <1>s
    <3>. QED
      BY <2>1, <3>1, <1>t, Wrapping DEF Unread
  <2>2. CASE ~(kbd_buf_tail <= kbd_buf_head)
    <3>1. kbd_buf_head - kbd_buf_tail \in (0 - S) .. -1
      BY <2>2, <1>t, <1>s
    <3>. QED
      BY <2>2, <3>1, <1>t, Wrapping DEF Unread
  <2>. QED
    BY <2>1, <2>2
<1>2. n \in 0 .. S - 1 /\ n <= Len(recent)
  BY <1>1, <1>t, <1>s DEF Unread
<1>3. ASSUME NEW k \in 1 .. n
      PROVE  kbd_buffer[(kbd_buf_tail + k - 1) % S] = recent[Len(recent) - n + k]
  <2>1. kbd_buf_tail + k - 1 \in 0 .. S + S - 1
    BY <1>2, <1>t, <1>s
  <2>2. (kbd_buf_tail + k - 1) % S =
          IF kbd_buf_tail + k - 1 < S THEN kbd_buf_tail + k - 1 ELSE kbd_buf_tail + k - 1 - S
    <3>1. PICK a \in 0 .. S + S - 1 : a = kbd_buf_tail + k - 1
      BY <2>1
    <3>2. a \in 0 .. S - 1 \/ a \in S .. S + S - 1
      BY <1>s
    <3>3. a % S = IF a < S THEN a ELSE a - S
      BY <3>2, <1>s, Wrapping
    <3>4. k \in Int /\ kbd_buf_tail \in Int /\ S \in Int
      BY <1>2, <1>t, <1>s
    <3>. HIDE DEF n
    <3>. QED
      BY <3>1, <3>3, <3>4
  <2>3. n - k + 1 \in 1 .. Len(recent)
    BY <1>2, <1>t
  <2>4. (kbd_buf_tail + k - 1) % S = Back(n - k + 1)
    <3>1. PICK c : c = (kbd_buf_tail + k - 1) % S
      OBVIOUS
    <3>2. n = IF kbd_buf_tail <= kbd_buf_head THEN kbd_buf_head - kbd_buf_tail
              ELSE kbd_buf_head - kbd_buf_tail + S
      BY <1>1 DEF Unread
    <3>3. c = IF kbd_buf_tail + k - 1 < S THEN kbd_buf_tail + k - 1 ELSE kbd_buf_tail + k - 1 - S
      BY <3>1, <2>2
    <3>4. n \in Nat /\ k \in Nat /\ k >= 1 /\ k <= n
      BY <1>2, <1>s
    <3>5. kbd_buf_head \in 0 .. S - 1 /\ kbd_buf_tail \in 0 .. S - 1
      BY <1>t
    <3>. HIDE DEF n
    <3>6. c = Back(n - k + 1)
      BY <3>2, <3>3, <3>4, <3>5, <1>s DEF Back
    <3>. QED
      BY <3>1, <3>6
  <2>5. kbd_buffer[Back(n - k + 1)] = recent[Len(recent) - (n - k + 1) + 1]
    BY <2>3 DEF IInv, NewestKept
  <2>6. Len(recent) - (n - k + 1) + 1 = Len(recent) - n + k
    BY <1>2, <1>t
  <2>. QED
    BY <2>4, <2>5, <2>6
<1>4. /\ keys \in Seq(Keys) /\ Len(keys) = n
      /\ \A k \in 1 .. n : keys[k] = recent[Len(recent) - n + k]
  BY <1>2, <1>t, SubSeqProperties
<1>5. ring = keys
  <2>. HIDE DEF n
  <2>. HIDE DEF keys
  <2>1. keys \in [1 .. Len(keys) -> Keys]
    BY <1>4, LenProperties
  <2>2. keys = [k \in 1 .. n |-> keys[k]]
    BY <2>1, <1>4
  <2>. QED
    BY <2>2, <1>3, <1>4
<1>. QED
  BY <1>5 DEF KeysInOrder

\* keyboard_put and keyboard_get, which share no lock and never compare head and
\* tail when a key is stored: a program reads its keys in the order they were typed,
\* however many were typed ahead or left over by the program before.
THEOREM KeysStayInOrder == Spec => []KeysInOrder
<1>1. Init => IInv
  BY EmptyRing DEF Init
<1>. QED
  BY <1>1, NextInv, InvKeys, PTL DEF Spec

-----------------------------------------------------------------------------
(* Loops.  The path walk, the terminal and the list of windows are followed *)
(* by functions of the number of turns.                                     *)

\* A set of numbers has a least one.
LEMMA Least ==
  ASSUME NEW A, A \subseteq Nat, A # {}
  PROVE  \E m \in A : \A y \in A : m <= y
<1>. DEFINE Less == {ss \in Nat \X Nat : ss[1] < ss[2]}
<1>1. IsWellFoundedOn(Less, Nat)
  BY NatLessThanWellFounded, Zenon DEF OpToRel
<1>2. PICK x \in A : \A y \in A : ~ (<<y, x>> \in Less)
  BY <1>1, WFMin, Zenon
<1>3. ASSUME NEW y \in A PROVE x <= y
  <2>1. <<y, x>> \notin Less
    BY <1>2
  <2>2. <<y, x>> \in Less <=> y < x
    OBVIOUS
  <2>. QED
    BY <2>1, <2>2
<1>. QED
  BY <1>3

\* A set of numbers that has 0 and, with a number below n, the next one.
LEMMA Counting ==
  ASSUME NEW n \in Nat, NEW A, 0 \in A, \A k \in 1 .. n : k - 1 \in A => k \in A
  PROVE  0 .. n \subseteq A
<1>. SUFFICES ASSUME ~(0 .. n \subseteq A) PROVE FALSE
  OBVIOUS
<1>. DEFINE out == (0 .. n) \ A
<1>1. out \subseteq Nat /\ out # {}
  OBVIOUS
<1>2. PICK m \in out : \A y \in out : m <= y
  BY <1>1, Least
<1>3. m \in 1 .. n /\ m - 1 \in 0 .. n
  BY <1>2
<1>4. m - 1 \in A
  BY <1>2, <1>3
<1>. QED
  BY <1>2, <1>3, <1>4

\* A loop of n turns, F[<<x, k>>] being what turn k makes of x, and a course of it.
Closed(F, X, n) == \A x \in X, k \in 1 .. n : F[<<x, k>>] \in X
Follows(f, F, x0, n) == f[0] = x0 /\ \A k \in 1 .. n : f[k] = F[<<f[k - 1], k>>]

\* A loop has a course.
LEMMA Course ==
  ASSUME NEW X, NEW x0, x0 \in X, NEW n, n \in Nat, NEW F, Closed(F, X, n)
  PROVE  \E f \in [0 .. n -> X] : Follows(f, F, x0, n)
<1>. USE DEF Closed
<1>. DEFINE Runs(m) == \E f \in [0 .. m -> X] :
                         f[0] = x0 /\ \A k \in 1 .. m : f[k] = F[<<f[k - 1], k>>]
            A == {m \in Nat : Runs(m)}
<1>1. 0 \in A
  <2>. DEFINE g == [i \in 0 .. 0 |-> x0]
  <2>1. g \in [0 .. 0 -> X] /\ g[0] = x0 /\ \A k \in 1 .. 0 : FALSE
    OBVIOUS
  <2>. HIDE DEF g
  <2>2. Runs(0)
    BY <2>1
  <2>. QED
    BY <2>2
<1>2. ASSUME NEW k \in 1 .. n, k - 1 \in A PROVE k \in A
  <2>1. PICK f \in [0 .. k - 1 -> X] :
          f[0] = x0 /\ \A j \in 1 .. k - 1 : f[j] = F[<<f[j - 1], j>>]
    BY <1>2
  <2>. DEFINE g == [i \in 0 .. k |-> IF i = k THEN F[<<f[k - 1], k>>] ELSE f[i]]
  <2>2. f[k - 1] \in X
    BY <2>1
  <2>3. F[<<f[k - 1], k>>] \in X
    BY <2>2
  <2>4. g \in [0 .. k -> X]
    BY <2>1, <2>3
  <2>5. g[0] = x0
    BY <2>1
  <2>6. ASSUME NEW j \in 1 .. k PROVE g[j] = F[<<g[j - 1], j>>]
    <3>1. g[j - 1] = f[j - 1]
      OBVIOUS
    <3>2. CASE j = k
      <4>1. g[j] = F[<<f[j - 1], j>>]
        BY <3>2
      <4>. HIDE DEF g
      <4>. QED
        BY <3>1, <4>1
    <3>3. CASE j # k
      <4>1. j \in 1 .. k - 1 /\ j \in 0 .. k
        BY <3>3
      <4>2. g[j] = f[j]
        BY <4>1, <3>3
      <4>3. f[j] = F[<<f[j - 1], j>>]
        BY <4>1, <2>1
      <4>. QED
        BY <3>1, <4>2, <4>3
    <3>. QED
      BY <3>2, <3>3
  <2>7. k \in Nat
    OBVIOUS
  <2>. HIDE DEF g
  <2>. QED
    BY <2>4, <2>5, <2>6, <2>7
<1>. HIDE DEF A
<1>3. n \in A
  BY <1>1, <1>2, Counting
<1>. QED
  BY <1>3 DEF A, Follows

-----------------------------------------------------------------------------
(* The terminal.                                                            *)

\* What the terminal holds, while it is followed.
Terms == [text : Seq(Chars \union {"prompt"}), col : Nat, left : BOOLEAN]

\* The sizes of the console.
LEMMA ConsoleSizes == WIDTH \in Nat /\ WIDTH >= 2 /\ BUFFER_SIZE \in Nat
BY ConsoleAssumption

\* put_char and put_back work on terminals.
LEMMA TermSteps ==
  ASSUME NEW t \in Terms
  PROVE  /\ \A c \in Chars \union {"prompt"} :
              /\ put_char(t, c) \in Terms
              /\ put_char(t, c).text = Append(t.text, c)
              /\ put_char(t, c).left = t.left
         /\ put_back(t) \in Terms
         /\ t.left => put_back(t).left
         /\ ~put_back(t).left => put_back(t).text = Front(t.text)
<1>1. t.text \in Seq(Chars \union {"prompt"}) /\ t.col \in Nat /\ t.left \in BOOLEAN
  BY DEF Terms
<1>2. ASSUME NEW c \in Chars \union {"prompt"}
      PROVE  /\ put_char(t, c) \in Terms
             /\ put_char(t, c).text = Append(t.text, c)
             /\ put_char(t, c).left = t.left
  <2>1. (t.col + 1) % WIDTH \in Nat
    BY <1>1, ConsoleSizes
  <2>2. Append(t.text, c) \in Seq(Chars \union {"prompt"})
    BY <1>1
  <2>. QED
    BY <1>1, <2>1, <2>2 DEF put_char, Terms
<1>3. Front(t.text) \in Seq(Chars \union {"prompt"})
  BY <1>1 DEF Front
<1>4. put_back(t) \in Terms
  <2>1. CASE t.col = 0
    BY <2>1, <1>1 DEF put_back, Terms
  <2>2. CASE t.col # 0
    <3>1. t.col - 1 \in Nat
      BY <2>2, <1>1
    <3>. QED
      BY <2>2, <3>1, <1>1, <1>3 DEF put_back, Terms
  <2>. QED
    BY <2>1, <2>2
<1>5. t.left => put_back(t).left
  BY <1>1 DEF put_back, Terms
<1>6. ~put_back(t).left => put_back(t).text = Front(t.text)
  BY <1>1 DEF put_back, Terms
<1>. QED
  BY <1>2, <1>4, <1>5, <1>6

\* put_str shows the characters one after the other.
LEMMA PutStr ==
  ASSUME NEW t \in Terms, NEW s \in Seq(Chars)
  PROVE  /\ put_str(t, s) \in Terms
         /\ put_str(t, s).text = t.text \o s
         /\ put_str(t, s).left = t.left
<1>. DEFINE n == Len(s)
            Turn(f) == [k \in 0 .. n |-> IF k = 0 THEN t ELSE put_char(f[k - 1], s[k])]
            F == [xk \in Terms \X (1 .. n) |-> put_char(xk[1], s[xk[2]])]
<1>1. n \in Nat /\ \A k \in 1 .. n : s[k] \in Chars \union {"prompt"}
  OBVIOUS
<1>2. ASSUME NEW x \in Terms, NEW k \in 1 .. n
      PROVE  F[<<x, k>>] = put_char(x, s[k]) /\ F[<<x, k>>] \in Terms
  <2>1. F[<<x, k>>] = put_char(x, s[k])
    OBVIOUS
  <2>. QED
    BY <2>1, <1>1, TermSteps
<1>. HIDE DEF F, n
<1>3. PICK g \in [0 .. n -> Terms] : Follows(g, F, t, n)
  <2>1. Closed(F, Terms, n)
    BY <1>2 DEF Closed
  <2>. QED
    BY <1>1, <2>1, Course, Zenon
<1>4. g = Turn(g)
  <2>1. ASSUME NEW k \in 0 .. n PROVE g[k] = Turn(g)[k]
    <3>1. CASE k = 0
      BY <3>1, <1>3 DEF Follows
    <3>2. CASE k # 0
      <4>1. k \in 1 .. n /\ g[k - 1] \in Terms
        BY <3>2, <1>1, <1>3
      <4>. QED
        BY <4>1, <3>2, <1>2, <1>3 DEF Follows
    <3>. QED
      BY <3>1, <3>2
  <2>. QED
    BY <2>1, <1>3
<1>5. PICK f : f = Turn(f) /\ put_str(t, s) = f[n]
  <2>. DEFINE h == CHOOSE f : f = Turn(f)
  <2>1. h = Turn(h)
    BY <1>4
  <2>2. put_str(t, s) = h[n]
    BY DEF put_str, n
  <2>. QED
    BY <2>1, <2>2
<1>. DEFINE A == {k \in 0 .. n : /\ f[k] \in Terms /\ f[k].left = t.left
                                 /\ f[k].text = t.text \o SubSeq(s, 1, k)}
<1>6. 0 \in A
  <2>1. f[0] = t
    BY <1>5, <1>1
  <2>2. t.text \o SubSeq(s, 1, 0) = t.text
    BY DEF Terms
  <2>. QED
    BY <2>1, <2>2, <1>1
<1>7. ASSUME NEW k \in 1 .. n, k - 1 \in A PROVE k \in A
  <2>1. f[k] = put_char(f[k - 1], s[k])
    BY <1>5, <1>1
  <2>2. PICK u \in Terms : u = f[k - 1]
    BY <1>7
  <2>3. u.left = t.left /\ u.text = t.text \o SubSeq(s, 1, k - 1)
    BY <1>7, <2>2
  <2>4. /\ put_char(u, s[k]) \in Terms
        /\ put_char(u, s[k]).text = Append(u.text, s[k])
        /\ put_char(u, s[k]).left = u.left
    BY <1>1, TermSteps
  <2>5. Append(t.text \o SubSeq(s, 1, k - 1), s[k]) = t.text \o SubSeq(s, 1, k)
    <3>1. PICK m \in Nat : m = k - 1 /\ k = m + 1 /\ m <= n
      BY <1>1
    <3>2. t.text \in Seq(Chars \union {"prompt"})
      BY DEF Terms
    <3>. QED
      BY <3>1, <3>2, <1>1 DEF n
  <2>6. k \in 0 .. n
    BY <1>1
  <2>. QED
    BY <2>1, <2>2, <2>3, <2>4, <2>5, <2>6
<1>. HIDE DEF A
<1>8. n \in A
  <2>1. 0 .. n \subseteq A
    BY <1>1, <1>6, <1>7, Counting, Zenon
  <2>. QED
    BY <2>1, <1>1
<1>9. SubSeq(s, 1, n) = s
  BY DEF n
<1>. QED
  BY <1>5, <1>8, <1>9 DEF A

\* n backspaces that all stay in the row take n characters away.
LEMMA Erased ==
  ASSUME NEW t \in Terms, NEW n \in Nat, n <= Len(t.text)
  PROVE  /\ Erase(t, n) \in Terms
         /\ ~Erase(t, n).left => /\ ~t.left
                                 /\ Erase(t, n).text = SubSeq(t.text, 1, Len(t.text) - n)
<1>. DEFINE Turn(f) == [k \in 0 .. n |-> IF k = 0 THEN t ELSE put_back(f[k - 1])]
            F == [xk \in Terms \X (1 .. n) |-> put_back(xk[1])]
            L == Len(t.text)
<1>1. t.text \in Seq(Chars \union {"prompt"}) /\ L \in Nat /\ n <= L
  BY DEF Terms
<1>2. ASSUME NEW x \in Terms, NEW k \in 1 .. n
      PROVE  F[<<x, k>>] = put_back(x) /\ F[<<x, k>>] \in Terms
  <2>1. F[<<x, k>>] = put_back(x)
    OBVIOUS
  <2>. QED
    BY <2>1, TermSteps
<1>. HIDE DEF F
<1>3. PICK g \in [0 .. n -> Terms] : Follows(g, F, t, n)
  <2>1. Closed(F, Terms, n)
    BY <1>2 DEF Closed
  <2>. QED
    BY <2>1, Course, Zenon
<1>4. g = Turn(g)
  <2>1. ASSUME NEW k \in 0 .. n PROVE g[k] = Turn(g)[k]
    <3>1. CASE k = 0
      BY <3>1, <1>3 DEF Follows
    <3>2. CASE k # 0
      <4>1. k \in 1 .. n /\ g[k - 1] \in Terms
        BY <3>2, <1>3
      <4>. QED
        BY <4>1, <3>2, <1>2, <1>3 DEF Follows
    <3>. QED
      BY <3>1, <3>2
  <2>. QED
    BY <2>1, <1>3
<1>5. PICK f : f = Turn(f) /\ Erase(t, n) = f[n]
  <2>. DEFINE h == CHOOSE f : f = Turn(f)
  <2>1. h = Turn(h)
    BY <1>4
  <2>2. Erase(t, n) = h[n]
    BY DEF Erase
  <2>. QED
    BY <2>1, <2>2
<1>. DEFINE A == {k \in 0 .. n : /\ f[k] \in Terms
                                 /\ ~f[k].left => /\ ~t.left
                                                  /\ f[k].text = SubSeq(t.text, 1, L - k)}
<1>6. 0 \in A
  <2>1. f[0] = t
    BY <1>5
  <2>2. SubSeq(t.text, 1, L - 0) = t.text
    BY <1>1
  <2>. QED
    BY <2>1, <2>2
<1>7. ASSUME NEW k \in 1 .. n, k - 1 \in A PROVE k \in A
  <2>1. f[k] = put_back(f[k - 1])
    BY <1>5
  <2>2. PICK u \in Terms : u = f[k - 1]
    BY <1>7
  <2>3. ~u.left => ~t.left /\ u.text = SubSeq(t.text, 1, L - (k - 1))
    BY <1>7, <2>2
  <2>4. /\ put_back(u) \in Terms
        /\ u.left => put_back(u).left
        /\ ~put_back(u).left => put_back(u).text = Front(u.text)
    BY TermSteps
  <2>5. Front(SubSeq(t.text, 1, L - (k - 1))) = SubSeq(t.text, 1, L - k)
    <3>. HIDE DEF L
    <3>1. PICK m \in Nat : m = L - k /\ L - (k - 1) = m + 1 /\ m + 1 <= L
      <4>1. L - k \in Nat /\ L - (k - 1) = (L - k) + 1 /\ (L - k) + 1 <= L
        BY <1>1
      <4>. QED
        BY <4>1
    <3>2. Len(SubSeq(t.text, 1, m + 1)) = m + 1
      BY <3>1, <1>1 DEF L
    <3>. QED
      BY <3>1, <3>2, <1>1 DEF Front, L
  <2>6. k \in 0 .. n
    OBVIOUS
  <2>. HIDE DEF L
  <2>. QED
    BY <2>1, <2>2, <2>3, <2>4, <2>5, <2>6
<1>. HIDE DEF A
<1>8. n \in A
  <2>1. 0 .. n \subseteq A
    BY <1>6, <1>7, Counting, Zenon
  <2>. QED
    BY <2>1
<1>. QED
  BY <1>5, <1>8 DEF A

-----------------------------------------------------------------------------
(* The line behind the prompt.                                              *)

LineTyped ==
  /\ input_buffer \in Seq(Chars)
  /\ history_buffer \in Seq(Seq(Chars))
  /\ history_nav_idx \in 0 .. Len(history_buffer)
  /\ shell_active \in BOOLEAN /\ mixed \in BOOLEAN

\* While the terminal is followed, the shell shows its line, and the line is empty as
\* long as a program runs: task_exit prints a prompt without one.
LineShown ==
  ~mixed => /\ term \in Terms /\ ~term.left
            /\ shell_active => term.text = <<"prompt">> \o input_buffer
            /\ ~shell_active => input_buffer = <<>>

LineInv == LineTyped /\ LineShown

\* An empty terminal, and one with a prompt.
LEMMA FreshTerms ==
  ASSUME NEW col \in Nat
  PROVE  /\ Cursor(col) \in Terms /\ ~Cursor(col).left
         /\ print_prompt(col) \in Terms /\ ~print_prompt(col).left
         /\ print_prompt(col).text = <<"prompt">> \o <<>>
<1>1. /\ Cursor(col) \in Terms /\ ~Cursor(col).left /\ Cursor(col).text = <<>>
  BY DEF Cursor, Terms
<1>2. Append(<<>>, "prompt") = <<"prompt">> \o <<>>
  OBVIOUS
<1>. QED
  BY <1>1, <1>2, TermSteps DEF print_prompt

\* Edit, if what it is given shows the line.
LEMMA EditInv ==
  ASSUME LineInv, NEW line \in Seq(Chars), NEW t, Edit(line, t),
         ~mixed /\ shell_active => /\ t \in Terms
                                   /\ ~t.left => t.text = <<"prompt">> \o line,
         UNCHANGED <<history_buffer, shell_active>>,
         history_nav_idx' \in 0 .. Len(history_buffer)
  PROVE  LineInv'
<1>1. LineTyped'
  BY DEF LineInv, LineTyped, Edit
<1>2. ASSUME ~mixed' PROVE ~mixed /\ shell_active /\ ~t.left /\ term' = t
  BY <1>2 DEF Edit
<1>3. LineShown'
  BY <1>2 DEF LineShown, Edit
<1>. QED
  BY <1>1, <1>3 DEF LineInv

\* A line of the history takes the place of the line.
LEMMA RecallInv ==
  ASSUME LineInv, NEW line \in Seq(Chars), Recall(line),
         UNCHANGED <<history_buffer, shell_active>>,
         history_nav_idx' \in 0 .. Len(history_buffer)
  PROVE  LineInv'
<1>. DEFINE n == Len(input_buffer)
            e == Erase(term, n)
            t == put_str(e, line)
<1>1. ASSUME ~mixed, shell_active PROVE t \in Terms /\ (~t.left => t.text = <<"prompt">> \o line)
  <2>1. /\ term \in Terms /\ input_buffer \in Seq(Chars)
        /\ term.text = <<"prompt">> \o input_buffer
    BY <1>1 DEF LineInv, LineTyped, LineShown
  <2>2. n \in Nat /\ Len(term.text) = n + 1
    BY <2>1
  <2>3. SubSeq(term.text, 1, 1) = <<"prompt">>
    <3>1. term.text \in Seq(Chars \union {"prompt"}) /\ term.text[1] = "prompt"
      BY <2>1 DEF Terms
    <3>2. SubSeq(term.text, 1, 1) = <<term.text[1]>>
      <4>1. PICK w \in Seq(Chars \union {"prompt"}) : w = term.text /\ Len(w) >= 1
        BY <3>1, <2>2
      <4>2. SubSeq(w, 1, 1) = [i \in 1 .. 1 |-> w[i]]
        BY <4>1
      <4>3. [i \in 1 .. 1 |-> w[i]] = <<w[1]>>
        OBVIOUS
      <4>. QED
        BY <4>1, <4>2, <4>3
    <3>. QED
      BY <3>1, <3>2
  <2>4. e \in Terms /\ (~e.left => e.text = <<"prompt">>)
    <3>1. n <= Len(term.text) /\ Len(term.text) - n = 1
      BY <2>2
    <3>. HIDE DEF n
    <3>2. Erase(term, n) \in Terms
      BY <2>1, <2>2, <3>1, Erased
    <3>3. ~Erase(term, n).left => Erase(term, n).text = SubSeq(term.text, 1, Len(term.text) - n)
      BY <2>1, <2>2, <3>1, Erased
    <3>. QED
      BY <3>1, <3>2, <3>3, <2>3
  <2>. HIDE DEF e
  <2>. QED
    BY <2>4, PutStr
<1>2. Edit(line, t)
  BY DEF Recall
<1>. HIDE DEF t
<1>. QED
  BY <1>1, <1>2, EditInv

\* The arrow keys.
LEMMA ArrowInv == LineInv /\ (up \/ down) => LineInv'
<1>t. LineInv => /\ history_buffer \in Seq(Seq(Chars)) /\ Len(history_buffer) \in Nat
                 /\ history_nav_idx \in 0 .. Len(history_buffer)
  BY DEF LineInv, LineTyped
<1>1. ASSUME LineInv, up PROVE LineInv'
  <2>1. /\ history_nav_idx \in 1 .. Len(history_buffer)
        /\ history_nav_idx' = history_nav_idx - 1
        /\ Recall(history_buffer[history_nav_idx])
        /\ UNCHANGED <<history_buffer, shell_active>>
    BY <1>1, <1>t DEF up, history_count
  <2>2. history_nav_idx' \in 0 .. Len(history_buffer)
    BY <2>1, <1>1, <1>t
  <2>3. history_buffer[history_nav_idx] \in Seq(Chars)
    BY <2>1, <1>1, <1>t
  <2>. QED
    BY <1>1, <2>1, <2>2, <2>3, RecallInv
<1>2. ASSUME LineInv, down PROVE LineInv'
  <2>. DEFINE line == IF history_nav_idx' = history_count THEN <<>>
                      ELSE history_buffer[history_nav_idx' + 1]
  <2>1. /\ history_nav_idx < Len(history_buffer)
        /\ history_nav_idx' = history_nav_idx + 1
        /\ Recall(line)
        /\ UNCHANGED <<history_buffer, shell_active>>
    BY <1>2 DEF down, history_count
  <2>2. history_nav_idx' \in 0 .. Len(history_buffer)
    BY <2>1, <1>2, <1>t
  <2>3. line \in Seq(Chars)
    <3>1. CASE history_nav_idx' = history_count
      BY <3>1
    <3>2. CASE history_nav_idx' # history_count
      <4>1. history_nav_idx' + 1 \in 1 .. Len(history_buffer)
        <5>1. PICK m \in 0 .. Len(history_buffer) : m = history_nav_idx'
          BY <2>2
        <5>2. m # Len(history_buffer) /\ Len(history_buffer) \in Nat
          BY <5>1, <3>2, <1>2, <1>t DEF history_count
        <5>3. m + 1 \in 1 .. Len(history_buffer)
          BY <5>2
        <5>. QED
          BY <5>1, <5>3
      <4>. QED
        BY <4>1, <3>2, <1>2, <1>t
    <3>. QED
      BY <3>1, <3>2
  <2>. HIDE DEF line
  <2>. QED
    BY <1>2, <2>1, <2>2, <2>3, RecallInv
<1>. QED
  BY <1>1, <1>2

\* Enter, as far as the line is concerned.
LEMMA EnterInv ==
  ASSUME LineInv, NEW active \in BOOLEAN, enter(active)
  PROVE  LineInv'
<1>1. history_buffer' \in Seq(Seq(Chars))
  <2>1. input_buffer \in Seq(Chars) /\ history_buffer \in Seq(Seq(Chars))
    BY DEF LineInv, LineTyped
  <2>2. Tail(history_buffer) \in Seq(Seq(Chars)) \/ history_buffer = <<>>
    BY <2>1
  <2>3. HISTORY_MAX \in Nat /\ HISTORY_MAX >= 2
    BY ConsoleAssumption
  <2>4. history_count < HISTORY_MAX \/ Tail(history_buffer) \in Seq(Seq(Chars))
    BY <2>1, <2>2, <2>3 DEF history_count
  <2>5. Remembered(input_buffer) \in Seq(Seq(Chars))
    BY <2>1, <2>4 DEF Remembered
  <2>. QED
    BY <2>5 DEF enter
<1>2. LineTyped'
  <2>1. PICK h \in Seq(Seq(Chars)) : h = history_buffer'
    BY <1>1
  <2>2. Len(h) \in 0 .. Len(h)
    OBVIOUS
  <2>3. history_nav_idx' = Len(h) /\ input_buffer' = <<>> /\ <<>> \in Seq(Chars)
    BY <2>1 DEF enter
  <2>4. shell_active' \in BOOLEAN /\ mixed' \in BOOLEAN
    BY DEF enter
  <2>. QED
    BY <2>1, <2>2, <2>3, <2>4 DEF LineTyped
<1>3. LineShown'
  BY FreshTerms DEF enter, LineShown
<1>. QED
  BY <1>2, <1>3 DEF LineInv

\* A backspace or a character.
LEMMA TypeInv ==
  ASSUME LineInv, backspace \/ \E c \in Chars : character(c)
  PROVE  LineInv'
<1>t. /\ input_buffer \in Seq(Chars) /\ history_nav_idx \in 0 .. Len(history_buffer)
      /\ ~mixed /\ shell_active => /\ term \in Terms
                                   /\ term.text = <<"prompt">> \o input_buffer
  BY DEF LineInv, LineTyped, LineShown
<1>1. CASE backspace
  <2>1. /\ input_buffer # <<>> /\ Edit(Front(input_buffer), put_back(term))
        /\ UNCHANGED <<history_buffer, history_nav_idx, shell_active>>
    BY <1>1 DEF backspace
  <2>2. Front(input_buffer) \in Seq(Chars)
    BY <1>t DEF Front
  <2>3. Front(<<"prompt">> \o input_buffer) = <<"prompt">> \o Front(input_buffer)
    <3>1. PICK m \in Nat : Len(input_buffer) = m + 1
      <4>1. Len(input_buffer) - 1 \in Nat
        BY <1>t, <2>1
      <4>. QED
        BY <4>1
    <3>2. Len(<<"prompt">> \o input_buffer) = m + 2
      BY <3>1, <1>t
    <3>. QED
      BY <3>1, <3>2, <1>t DEF Front
  <2>4. ~mixed /\ shell_active =>
          /\ put_back(term) \in Terms
          /\ ~put_back(term).left => put_back(term).text = <<"prompt">> \o Front(input_buffer)
    BY <1>t, <2>3, TermSteps
  <2>5. history_nav_idx' \in 0 .. Len(history_buffer)
    BY <2>1, <1>t
  <2>. QED
    BY <2>1, <2>2, <2>4, <2>5, EditInv
<1>2. CASE \E c \in Chars : character(c)
  <2>1. PICK c \in Chars : character(c)
    BY <1>2
  <2>2. /\ Edit(Append(input_buffer, c), put_char(term, c))
        /\ UNCHANGED <<history_buffer, history_nav_idx, shell_active>>
    BY <2>1 DEF character
  <2>3. Append(input_buffer, c) \in Seq(Chars)
    BY <1>t
  <2>4. Append(<<"prompt">> \o input_buffer, c) = <<"prompt">> \o Append(input_buffer, c)
    BY <1>t
  <2>5. ~mixed /\ shell_active =>
          /\ put_char(term, c) \in Terms
          /\ put_char(term, c).text = <<"prompt">> \o Append(input_buffer, c)
    BY <1>t, <2>4, TermSteps, ZenonT(40)
  <2>6. history_nav_idx' \in 0 .. Len(history_buffer)
    BY <2>2, <1>t
  <2>. QED
    BY <2>2, <2>3, <2>5, <2>6, EditInv
<1>. QED
  BY <1>1, <1>2

\* Booting, the first time or again.
LEMMA BootLine ==
  /\ ConsoleInit => LineInv
  /\ ConsoleBoot => LineInv'
<1>0. <<>> \in Seq(Chars) /\ <<>> \in Seq(Seq(Chars)) /\ 0 \in 0 .. Len(<<>>)
  OBVIOUS
<1>1. ASSUME ConsoleInit PROVE LineInv
  <2>1. LineTyped
    BY <1>1, <1>0 DEF ConsoleInit, LineTyped
  <2>. QED
    BY <1>1, <2>1, FreshTerms DEF ConsoleInit, LineInv, LineShown
<1>2. ASSUME ConsoleBoot PROVE LineInv'
  <2>1. LineTyped'
    BY <1>2, <1>0 DEF ConsoleBoot, LineTyped
  <2>. QED
    BY <1>2, <2>1, FreshTerms DEF ConsoleBoot, LineInv, LineShown
<1>. QED
  BY <1>1, <1>2

\* Whatever leaves the line and the terminal alone.
LEMMA LineAlone == LineInv /\ UNCHANGED <<lineVars, shell_active, term, mixed>> => LineInv'
BY DEF lineVars, LineInv, LineTyped, LineShown

\* Every step keeps the line behind its prompt.
LEMMA LineNext == LineInv /\ [Next]_vars => LineInv'
<1>. SUFFICES ASSUME LineInv, [Next]_vars PROVE LineInv'
  OBVIOUS
<1>1. CASE shell_key
  <2>1. CASE execute_command
    <3>1. CASE command_reboot
      BY <3>1, BootLine DEF command_reboot
    <3>2. CASE command_other \/ command_tree \/ command_exec \/ command_vinit
      <4>1. enter(TRUE) \/ enter(FALSE)
        BY <3>2 DEF command_other, command_tree, command_exec, command_vinit
      <4>. QED
        BY <4>1, EnterInv
    <3>. QED
      BY <2>1, <3>1, <3>2 DEF execute_command
  <2>2. CASE up \/ down
    BY <2>2, ArrowInv
  <2>3. CASE backspace \/ \E c \in Chars : character(c)
    BY <2>3, TypeInv
  <2>. QED
    BY <1>1, <2>1, <2>2, <2>3 DEF shell_key
<1>2. CASE text_mode
  <2>1. CASE (\E c \in Chars \union {"enter"} : keyboard_put(c)) \/ keyboard_get
    BY <2>1, LineAlone DEF keyboard_put, keyboard_get
  <2>2. CASE task_exit
    <3>1. PICK col \in 0 .. WIDTH - 1 : term' = IF mixed THEN Cursor(0) ELSE print_prompt(col)
      BY <2>2 DEF task_exit
    <3>2. col \in Nat
      BY ConsoleSizes
    <3>3. ~shell_active /\ shell_active' = TRUE /\ UNCHANGED <<lineVars, mixed>>
      BY <2>2 DEF task_exit
    <3>4. LineTyped'
      BY <3>3 DEF LineInv, LineTyped, lineVars
    <3>5. LineShown'
      BY <3>1, <3>2, <3>3, FreshTerms DEF LineInv, LineShown, lineVars
    <3>. QED
      BY <3>4, <3>5 DEF LineInv
  <2>3. CASE kernel_message
    BY <2>3 DEF kernel_message, lineVars, LineInv, LineTyped, LineShown
  <2>4. CASE UNCHANGED consoleVars
    BY <2>4, LineAlone DEF consoleVars
  <2>. QED
    BY <1>2, <2>1, <2>2, <2>3, <2>4 DEF text_mode
<1>3. CASE graphical_mode \/ UNCHANGED vars
  <2>1. UNCHANGED consoleVars
    BY <1>3 DEF graphical_mode, vars
  <2>. QED
    BY <2>1, LineAlone DEF consoleVars
<1>. QED
  BY <1>1, <1>2, <1>3 DEF Next

\* shell_input and put_char, who share nothing but what they print: the line that
\* Enter executes is the one that stands behind the prompt, for every width of the
\* screen, length of a line and history, until something the code does not repair
\* before the next Enter comes in between.
THEOREM PromptStaysTrue == Spec => []PromptShowsLine
<1>1. Init => LineInv
  BY BootLine DEF Init
<1>2. LineInv => PromptShowsLine
  BY DEF LineInv, LineShown, PromptShowsLine
<1>. QED
  BY <1>1, <1>2, LineNext, PTL DEF Spec

-----------------------------------------------------------------------------
(* Path walks, over a tree that is a value.                                 *)

DirEntry == [name : Names, inode : Inodes]
Trees == [Inodes -> [type : {"free", "file", "dir"}, entries : Seq(DirEntry)]]
Places == Inodes \union {-1}
Components == Names \union {"."}

\* The operators of Cwd, with the tree as a parameter.
FindIn(T, dir, name) ==
  LET found == {k \in DOMAIN T[dir].entries : T[dir].entries[k].name = name}
  IN IF T[dir].type # "dir" \/ found = {} THEN -1 ELSE T[dir].entries[Min(found)].inode

StepIn(T, ino, name) ==
  IF ino = -1 \/ name = "." THEN ino
  ELSE IF T[ino].type = "dir" THEN FindIn(T, ino, name) ELSE -1

WalkIn(T, base, path) ==
  LET at[k \in 0 .. Len(path)] == IF k = 0 THEN base ELSE StepIn(T, at[k - 1], path[k])
  IN at[Len(path)]

\* f is the course of a walk.
Leads(T, f, base, path) ==
  /\ f \in [0 .. Len(path) -> Places]
  /\ f[0] = base
  /\ \A k \in 1 .. Len(path) : f[k] = StepIn(T, f[k - 1], path[k])

\* Entry m is the one that the search for a name in d stops at.
First(T, d, name, m) ==
  /\ m \in 1 .. Len(T[d].entries)
  /\ T[d].entries[m].name = name
  /\ \A j \in 1 .. m - 1 : T[d].entries[j].name # name

\* No inode has the number -1.
LEMMA InodeNumbers == -1 \notin Inodes /\ Root \in Inodes /\ Inodes \subseteq Nat
BY CwdAssumption DEF Root

\* The parts of a tree.
LEMMA TreeParts ==
  ASSUME NEW T \in Trees, NEW d \in Inodes
  PROVE  /\ T[d].type \in {"free", "file", "dir"}
         /\ T[d].entries \in Seq(DirEntry) /\ Len(T[d].entries) \in Nat
         /\ DOMAIN T[d].entries = 1 .. Len(T[d].entries)
         /\ \A k \in 1 .. Len(T[d].entries) :
              T[d].entries[k].name \in Names /\ T[d].entries[k].inode \in Inodes
<1>1. T[d].type \in {"free", "file", "dir"} /\ T[d].entries \in Seq(DirEntry)
  BY DEF Trees
<1>2. \A k \in 1 .. Len(T[d].entries) : T[d].entries[k] \in DirEntry
  BY <1>1
<1>. QED
  BY <1>1, <1>2 DEF DirEntry

\* pafs_find_entry stops at the first entry with the name.
LEMMA FindFirst ==
  ASSUME NEW T \in Trees, NEW d \in Inodes, NEW name, T[d].type = "dir"
  PROVE  /\ \A m : First(T, d, name, m) => FindIn(T, d, name) = T[d].entries[m].inode
         /\ FindIn(T, d, name) # -1 =>
              \E m \in 1 .. Len(T[d].entries) :
                First(T, d, name, m) /\ FindIn(T, d, name) = T[d].entries[m].inode
<1>. DEFINE found == {k \in DOMAIN T[d].entries : T[d].entries[k].name = name}
<1>1. /\ found \subseteq Nat /\ Len(T[d].entries) \in Nat
      /\ DOMAIN T[d].entries = 1 .. Len(T[d].entries)
  BY TreeParts
<1>2. ASSUME found # {}
      PROVE  /\ Min(found) \in found /\ \A y \in found : Min(found) <= y
             /\ FindIn(T, d, name) = T[d].entries[Min(found)].inode
  <2>1. PICK m \in found : \A y \in found : m <= y
    BY <1>1, <1>2, Least
  <2>2. Min(found) \in found /\ \A y \in found : Min(found) <= y
    BY <2>1, Zenon DEF Min
  <2>. QED
    BY <1>2, <2>2 DEF FindIn
<1>3. ASSUME NEW m, First(T, d, name, m) PROVE FindIn(T, d, name) = T[d].entries[m].inode
  <2>1. m \in found /\ m \in Nat
    BY <1>1, <1>3 DEF First
  <2>2. Min(found) \in found /\ Min(found) <= m
    BY <1>2, <2>1
  <2>3. Min(found) \notin 1 .. m - 1
    BY <1>3, <2>2 DEF First
  <2>4. Min(found) \in 1 .. Len(T[d].entries)
    BY <2>2, <1>1
  <2>. HIDE DEF found
  <2>5. Min(found) = m
    BY <2>1, <2>2, <2>3, <2>4, <1>1
  <2>. QED
    BY <2>5, <2>1, <1>2
<1>4. ASSUME FindIn(T, d, name) # -1
      PROVE  \E m \in 1 .. Len(T[d].entries) :
               First(T, d, name, m) /\ FindIn(T, d, name) = T[d].entries[m].inode
  <2>1. found # {}
    BY <1>4 DEF FindIn
  <2>2. PICK m \in found : \A y \in found : m <= y
    BY <1>1, <2>1, Least
  <2>3. m \in 1 .. Len(T[d].entries) /\ T[d].entries[m].name = name
    BY <2>2, <1>1
  <2>4. ASSUME NEW j \in 1 .. m - 1 PROVE T[d].entries[j].name # name
    <3>1. j \in DOMAIN T[d].entries /\ j < m
      BY <1>1, <2>3
    <3>2. j \notin found
      BY <3>1, <2>2, <2>3, <1>1
    <3>. QED
      BY <3>1, <3>2
  <2>5. First(T, d, name, m)
    BY <2>3, <2>4 DEF First
  <2>. QED
    BY <2>3, <2>5, <1>3
<1>. QED
  BY <1>3, <1>4

\* A step of a walk leads to an inode or nowhere.
LEMMA StepPlace ==
  ASSUME NEW T \in Trees, NEW x \in Places, NEW c
  PROVE  StepIn(T, x, c) \in Places
<1>1. CASE x # -1 /\ c # "." /\ T[x].type = "dir"
  <2>1. x \in Inodes
    BY <1>1 DEF Places
  <2>2. StepIn(T, x, c) = FindIn(T, x, c)
    BY <1>1 DEF StepIn
  <2>3. CASE FindIn(T, x, c) = -1
    BY <2>2, <2>3 DEF Places
  <2>4. CASE FindIn(T, x, c) # -1
    <3>1. PICK m \in 1 .. Len(T[x].entries) : FindIn(T, x, c) = T[x].entries[m].inode
      BY <2>1, <2>4, <1>1, FindFirst
    <3>2. T[x].entries[m].inode \in Inodes
      BY <2>1, TreeParts
    <3>. QED
      BY <2>2, <3>1, <3>2 DEF Places
  <2>. QED
    BY <2>3, <2>4
<1>2. CASE ~(x # -1 /\ c # "." /\ T[x].type = "dir")
  BY <1>2 DEF StepIn, Places
<1>. QED
  BY <1>1, <1>2

\* A walk has a course, and one only.
LEMMA WalkCourse ==
  ASSUME NEW T \in Trees, NEW base \in Places, NEW path \in Seq(Components)
  PROVE  /\ \E f : Leads(T, f, base, path)
         /\ \A f : Leads(T, f, base, path) => WalkIn(T, base, path) = f[Len(path)]
<1>. DEFINE n == Len(path)
            Turn(f) == [k \in 0 .. n |-> IF k = 0 THEN base ELSE StepIn(T, f[k - 1], path[k])]
            F == [xk \in Places \X (1 .. n) |-> StepIn(T, xk[1], path[xk[2]])]
<1>1. n \in Nat
  OBVIOUS
<1>2. ASSUME NEW x \in Places, NEW k \in 1 .. n
      PROVE  F[<<x, k>>] = StepIn(T, x, path[k]) /\ F[<<x, k>>] \in Places
  <2>1. F[<<x, k>>] = StepIn(T, x, path[k])
    OBVIOUS
  <2>. QED
    BY <2>1, StepPlace
<1>. HIDE DEF F, n
<1>3. PICK g \in [0 .. n -> Places] : Follows(g, F, base, n)
  <2>1. Closed(F, Places, n)
    BY <1>2 DEF Closed
  <2>. QED
    BY <1>1, <2>1, Course, Zenon
<1>4. ASSUME NEW k \in 1 .. n PROVE g[k] = StepIn(T, g[k - 1], path[k])
  <2>1. g[k - 1] \in Places
    BY <1>1, <1>3
  <2>. QED
    BY <2>1, <1>2, <1>3 DEF Follows
<1>5. g[0] = base
  BY <1>3 DEF Follows
<1>6. g = Turn(g)
  BY <1>1, <1>3, <1>4, <1>5
<1>7. PICK h : h = Turn(h) /\ WalkIn(T, base, path) = h[n]
  <2>. DEFINE e == CHOOSE f : f = Turn(f)
  <2>1. e = Turn(e)
    BY <1>6
  <2>2. WalkIn(T, base, path) = e[n]
    BY DEF WalkIn, n
  <2>. QED
    BY <2>1, <2>2
<1>8. ASSUME NEW f, Leads(T, f, base, path) PROVE h[n] = f[n]
  <2>. DEFINE A == {k \in 0 .. n : h[k] = f[k]}
  <2>1. 0 \in A
    BY <1>1, <1>7, <1>8 DEF Leads, n
  <2>2. ASSUME NEW k \in 1 .. n, k - 1 \in A PROVE k \in A
    <3>1. h[k] = StepIn(T, h[k - 1], path[k])
      BY <1>1, <1>7
    <3>2. f[k] = StepIn(T, f[k - 1], path[k])
      BY <1>8 DEF Leads, n
    <3>3. h[k - 1] = f[k - 1] /\ k \in 0 .. n
      BY <1>1, <2>2
    <3>. QED
      BY <3>1, <3>2, <3>3
  <2>. HIDE DEF A
  <2>3. 0 .. n \subseteq A
    BY <1>1, <2>1, <2>2, Counting, Zenon
  <2>. QED
    BY <2>3, <1>1 DEF A
<1>9. Leads(T, g, base, path)
  BY <1>3, <1>4, <1>5 DEF Leads, n
<1>. QED
  BY <1>7, <1>8, <1>9 DEF n

\* One component more.
LEMMA WalkOn ==
  ASSUME NEW T \in Trees, NEW base \in Places, NEW path \in Seq(Components),
         NEW c \in Components
  PROVE  WalkIn(T, base, Append(path, c)) = StepIn(T, WalkIn(T, base, path), c)
<1>1. PICK f : Leads(T, f, base, path)
  BY WalkCourse
<1>. DEFINE n == Len(path)
            more == Append(path, c)
            g == [k \in 0 .. n + 1 |-> IF k = n + 1 THEN StepIn(T, f[n], c) ELSE f[k]]
<1>2. /\ n \in Nat /\ more \in Seq(Components) /\ Len(more) = n + 1
      /\ more[n + 1] = c /\ \A k \in 1 .. n : more[k] = path[k]
  OBVIOUS
<1>3. /\ f \in [0 .. n -> Places] /\ f[0] = base
      /\ \A k \in 1 .. n : f[k] = StepIn(T, f[k - 1], path[k])
  BY <1>1 DEF Leads
<1>4. StepIn(T, f[n], c) \in Places
  <2>1. f[n] \in Places
    BY <1>2, <1>3
  <2>. QED
    BY <2>1, StepPlace
<1>. HIDE DEF n, more
<1>5. g \in [0 .. n + 1 -> Places] /\ g[0] = base
  BY <1>2, <1>3, <1>4
<1>6. ASSUME NEW k \in 1 .. n + 1 PROVE g[k] = StepIn(T, g[k - 1], more[k])
  <2>1. g[k - 1] = f[k - 1]
    BY <1>2
  <2>2. CASE k = n + 1
    <3>1. g[k] = StepIn(T, f[k - 1], c) /\ more[k] = c
      BY <1>2, <2>2
    <3>. HIDE DEF g
    <3>. QED
      BY <2>1, <3>1
  <2>3. CASE k # n + 1
    <3>1. k \in 1 .. n
      BY <1>2, <2>3
    <3>2. g[k] = f[k]
      BY <1>2, <2>3, <3>1
    <3>3. f[k] = StepIn(T, f[k - 1], path[k]) /\ more[k] = path[k]
      BY <1>2, <1>3, <3>1
    <3>. HIDE DEF g
    <3>. QED
      BY <2>1, <3>2, <3>3
  <2>. QED
    BY <2>2, <2>3
<1>7. g[n + 1] = StepIn(T, f[n], c)
  BY <1>2
<1>. HIDE DEF g
<1>8. Leads(T, g, base, more)
  BY <1>2, <1>5, <1>6 DEF Leads
<1>9. WalkIn(T, base, more) = g[n + 1]
  BY <1>2, <1>8, WalkCourse
<1>10. WalkIn(T, base, path) = f[n]
  BY <1>1, WalkCourse DEF n
<1>. QED
  BY <1>7, <1>9, <1>10 DEF more

\* No component at all.
LEMMA WalkNowhere ==
  ASSUME NEW T \in Trees, NEW base \in Places
  PROVE  WalkIn(T, base, <<>>) = base
<1>1. <<>> \in Seq(Components) /\ Len(<<>>) = 0
  OBVIOUS
<1>2. PICK f : Leads(T, f, base, <<>>)
  BY <1>1, WalkCourse
<1>3. WalkIn(T, base, <<>>) = f[0]
  BY <1>1, <1>2, WalkCourse
<1>. QED
  BY <1>2, <1>3 DEF Leads

\* A walk that leaves the directories does not come back: when it ends at a
\* directory, all of its places are directories.
LEMMA AllDirectories ==
  ASSUME NEW T \in Trees, NEW base \in Places, NEW path \in Seq(Components),
         NEW f, Leads(T, f, base, path),
         f[Len(path)] # -1, T[f[Len(path)]].type = "dir"
  PROVE  \A j \in 0 .. Len(path) : f[j] \in Inodes /\ T[f[j]].type = "dir"
<1>. DEFINE n == Len(path)
            Good(k) == f[k] # -1 /\ T[f[k]].type = "dir"
<1>1. n \in Nat /\ f \in [0 .. n -> Places] /\ Good(n)
  BY DEF Leads
<1>. HIDE DEF n
<1>. SUFFICES ASSUME NEW j \in 0 .. n, ~Good(j) PROVE FALSE
  BY <1>1 DEF Places, n
<1>. DEFINE A == {k \in 0 .. n : k >= j => ~Good(k)}
<1>2. 0 \in A
  <2>1. CASE j = 0
    BY <2>1, <1>1
  <2>2. CASE j # 0
    BY <2>2, <1>1
  <2>. QED
    BY <2>1, <2>2
<1>3. ASSUME NEW k \in 1 .. n, k - 1 \in A PROVE k \in A
  <2>1. k \in 0 .. n /\ k - 1 \in 0 .. n
    BY <1>1
  <2>2. CASE k < j
    BY <2>1, <2>2
  <2>3. CASE k = j
    BY <2>1, <2>3
  <2>4. CASE k > j
    <3>1. ~Good(k - 1)
      BY <1>1, <1>3, <2>4
    <3>2. f[k] = StepIn(T, f[k - 1], path[k])
      BY DEF Leads, n
    <3>3. ~Good(k)
      BY <3>1, <3>2 DEF StepIn
    <3>. QED
      BY <2>1, <3>3
  <2>. QED
    BY <2>2, <2>3, <2>4, <1>1
<1>. HIDE DEF A
<1>4. 0 .. n \subseteq A
  BY <1>1, <1>2, <1>3, Counting, Zenon
<1>5. n \in A /\ n >= j
  BY <1>1, <1>4
<1>. QED
  BY <1>1, <1>5 DEF A

-----------------------------------------------------------------------------
(* The tree under the shell's commands.                                     *)

\* An entry leads down: to an inode of a higher rank, to one that is free, or, as
\* the first entry, to its own directory (mkdir in a node that format took away).
Rising(T, rank, d, k, i) ==
  /\ i # Root
  /\ \/ T[i].type = "free"
     \/ rank[d] < rank[i]
     \/ i = d /\ k = 1

Ordered(T, rank) ==
  \A d \in Inodes : \A k \in 1 .. Len(T[d].entries) :
    Rising(T, rank, d, k, T[d].entries[k].inode)

\* The younger an inode, the higher its rank.
TreeSound(T) ==
  /\ T \in Trees /\ T[Root].type = "dir"
  /\ \E rank \in [Inodes -> Nat], top \in Nat :
       Ordered(T, rank) /\ \A i \in Inodes : rank[i] < top

\* A step from a directory to a directory stays or goes down.
LEMMA StepRises ==
  ASSUME NEW T \in Trees, NEW rank \in [Inodes -> Nat], Ordered(T, rank),
         NEW x \in Inodes, NEW y \in Inodes, NEW c, y = StepIn(T, x, c),
         T[x].type = "dir", T[y].type = "dir"
  PROVE  y = x \/ rank[x] < rank[y]
<1>1. CASE c = "."
  BY <1>1 DEF StepIn
<1>2. CASE c # "."
  <2>1. y = FindIn(T, x, c) /\ y # -1
    BY <1>2, InodeNumbers DEF StepIn
  <2>2. PICK m \in 1 .. Len(T[x].entries) : y = T[x].entries[m].inode
    BY <2>1, FindFirst
  <2>3. Rising(T, rank, x, m, y)
    BY <2>2 DEF Ordered
  <2>. QED
    BY <2>3 DEF Rising
<1>. QED
  BY <1>1, <1>2

\* A walk to a directory comes from above.
LEMMA WalkRises ==
  ASSUME NEW T \in Trees, NEW rank \in [Inodes -> Nat], Ordered(T, rank),
         NEW base \in Places, NEW path \in Seq(Components),
         NEW f, Leads(T, f, base, path),
         \A j \in 0 .. Len(path) : f[j] \in Inodes /\ T[f[j]].type = "dir"
  PROVE  \A j \in 0 .. Len(path) :
           f[Len(path)] = f[j] \/ rank[f[j]] < rank[f[Len(path)]]
<1>. DEFINE n == Len(path)
            Up(i, k) == f[k] = f[i] \/ rank[f[i]] < rank[f[k]]
<1>1. n \in Nat /\ \A i \in 0 .. n : f[i] \in Inodes /\ T[f[i]].type = "dir"
  OBVIOUS
<1>. HIDE DEF n
<1>. SUFFICES ASSUME NEW j \in 0 .. n PROVE Up(j, n)
  BY DEF n
<1>. DEFINE A == {k \in 0 .. n : k >= j => Up(j, k)}
<1>2. 0 \in A
  <2>1. CASE j = 0
    BY <2>1, <1>1
  <2>2. CASE j # 0
    BY <2>2, <1>1
  <2>. QED
    BY <2>1, <2>2
<1>3. ASSUME NEW k \in 1 .. n, k - 1 \in A PROVE k \in A
  <2>1. k \in 0 .. n /\ k - 1 \in 0 .. n
    BY <1>1
  <2>2. CASE k < j
    BY <2>1, <2>2
  <2>3. CASE k = j
    BY <2>1, <2>3
  <2>4. CASE k > j
    <3>1. Up(j, k - 1)
      BY <1>1, <1>3, <2>4
    <3>2. f[k] = StepIn(T, f[k - 1], path[k])
      BY DEF Leads, n
    <3>3. f[k] = f[k - 1] \/ rank[f[k - 1]] < rank[f[k]]
      BY <3>2, <1>1, <2>1, StepRises
    <3>4. rank[f[j]] \in Nat /\ rank[f[k - 1]] \in Nat /\ rank[f[k]] \in Nat
      BY <1>1, <2>1
    <3>5. Up(j, k)
      BY <3>1, <3>3, <3>4
    <3>. QED
      BY <2>1, <3>5
  <2>. QED
    BY <2>2, <2>3, <2>4, <1>1
<1>. HIDE DEF A
<1>4. 0 .. n \subseteq A
  BY <1>1, <1>2, <1>3, Counting, Zenon
<1>5. n \in A /\ n >= j
  BY <1>1, <1>4
<1>. QED
  BY <1>5 DEF A

\* A walk stays what it is when none of its steps changes.
LEMMA WalkKept ==
  ASSUME NEW T \in Trees, NEW U \in Trees, NEW base \in Places,
         NEW path \in Seq(Components), NEW f, Leads(T, f, base, path),
         \A k \in 1 .. Len(path) : StepIn(U, f[k - 1], path[k]) = StepIn(T, f[k - 1], path[k])
  PROVE  WalkIn(U, base, path) = f[Len(path)] /\ WalkIn(T, base, path) = f[Len(path)]
<1>1. Leads(U, f, base, path)
  BY DEF Leads
<1>. QED
  BY <1>1, WalkCourse

\* What pafs_create leaves: nothing new, or a new inode entered at the end of the
\* directory.
Entered(T, U, dir, name, type, new) ==
  /\ new \in Inodes /\ T[new].type = "free"
  /\ \A i \in Inodes \ {new, dir} : U[i] = T[i]
  /\ IF dir = new
       THEN U[new] = [type |-> "dir", entries |-> <<[name |-> name, inode |-> new]>>]
       ELSE /\ T[dir].type = "dir"
            /\ U[new] = [type |-> type, entries |-> <<>>]
            /\ U[dir] = [type |-> "dir",
                         entries |-> Append(T[dir].entries, [name |-> name, inode |-> new])]

\* What pafs_delete leaves: an inode is free and the last entry gone.
Dropped(T, U, dir, ino) ==
  /\ ino \in Inodes \ {dir} /\ T[dir].type = "dir"
  /\ \E q \in 1 .. Len(T[dir].entries) : T[dir].entries[q].inode = ino
  /\ \A i \in Inodes \ {ino, dir} : U[i] = T[i]
  /\ U[ino] = FreeInode
  /\ U[dir] = [type |-> "dir", entries |-> Front(T[dir].entries)]

\* pafs_create in a directory that the shell or a program names.
LEMMA CreateEffect ==
  ASSUME inodes \in Trees, NEW dir \in Inodes, NEW name \in Names,
         NEW type \in {"file", "dir"}, NEW U, U = Created(dir, name, type)
  PROVE  /\ U \in Trees
         /\ U = inodes \/ \E new \in Inodes : Entered(inodes, U, dir, name, type, new)
<1>. DEFINE free == {i \in Inodes : inodes[i].type = "free"}
            new == Min(free)
            typed == [inodes EXCEPT ![new] = [type |-> type, entries |-> <<>>]]
            e == [name |-> name, inode |-> new]
<1>. SUFFICES ASSUME U # inodes
              PROVE  /\ U \in Trees
                     /\ Entered(inodes, U, dir, name, type, new) /\ new \in Inodes
  OBVIOUS
<1>1. /\ free # {} /\ typed[dir].type = "dir"
      /\ U = [typed EXCEPT ![dir].entries = Append(@, e)]
  BY DEF Created
<1>2. new \in free
  <2>1. free \subseteq Nat
    BY InodeNumbers
  <2>2. PICK m \in free : \A y \in free : m <= y
    BY <1>1, <2>1, Least
  <2>. QED
    BY <2>2, Zenon DEF Min
<1>. HIDE DEF new
<1>3. inodes \in [Inodes -> [type : {"free", "file", "dir"}, entries : Seq(DirEntry)]]
  BY DEF Trees
<1>4. new \in Inodes /\ inodes[new].type = "free"
  BY <1>2
<1>5. /\ typed \in [Inodes -> [type : {"free", "file", "dir"}, entries : Seq(DirEntry)]]
      /\ typed[new] = [type |-> type, entries |-> <<>>]
      /\ \A i \in Inodes \ {new} : typed[i] = inodes[i]
  BY <1>3, <1>4
<1>. HIDE DEF typed
<1>6. /\ \A i \in Inodes \ {dir} : U[i] = typed[i]
      /\ U[dir] = [typed[dir] EXCEPT !.entries = Append(@, e)]
  BY <1>1, <1>5
<1>7. U[dir] = [type |-> "dir", entries |-> Append(typed[dir].entries, e)]
  <2>1. PICK r \in [type : {"free", "file", "dir"}, entries : Seq(DirEntry)] : r = typed[dir]
    BY <1>5
  <2>2. r.type = "dir" /\ U[dir] = [r EXCEPT !.entries = Append(@, e)]
    BY <2>1, <1>1, <1>6
  <2>3. U[dir] = [type |-> "dir", entries |-> Append(r.entries, e)]
    BY <2>2
  <2>. QED
    BY <2>1, <2>3
<1>10. U \in Trees
  <2>1. Append(typed[dir].entries, e) \in Seq(DirEntry)
    <3>1. e \in DirEntry
      BY <1>4 DEF DirEntry
    <3>2. typed[dir].entries \in Seq(DirEntry)
      BY <1>5
    <3>. QED
      BY <3>1, <3>2
  <2>2. U[dir] \in [type : {"free", "file", "dir"}, entries : Seq(DirEntry)]
    BY <2>1, <1>7
  <2>3. U = [i \in Inodes |-> U[i]]
    BY <1>1, <1>5
  <2>4. \A i \in Inodes : U[i] \in [type : {"free", "file", "dir"}, entries : Seq(DirEntry)]
    BY <2>2, <1>5, <1>6
  <2>. QED
    BY <2>3, <2>4 DEF Trees
<1>8. CASE dir = new
  <2>1. Append(<<>>, e) = <<e>>
    OBVIOUS
  <2>2. typed[dir].entries = <<>>
    BY <1>5, <1>8
  <2>. QED
    BY <2>1, <2>2, <1>4, <1>5, <1>6, <1>7, <1>8, <1>10 DEF Entered
<1>9. CASE dir # new
  <2>1. typed[dir] = inodes[dir]
    BY <1>5, <1>9
  <2>. QED
    BY <2>1, <1>1, <1>4, <1>5, <1>6, <1>7, <1>9, <1>10 DEF Entered
<1>. QED
  BY <1>8, <1>9

\* The model's operators are those on trees.
LEMMA OnTrees ==
  /\ \A d, name : pafs_find_entry(d, name) = FindIn(inodes, d, name)
  /\ \A b, path : vfs_get_node_by_path(b, path) = WalkIn(inodes, b, path)
<1>1. \A d, name : pafs_find_entry(d, name) = FindIn(inodes, d, name)
  BY DEF pafs_find_entry, FindIn
<1>2. \A b, path : vfs_get_node_by_path(b, path) = WalkIn(inodes, b, path)
  BY DEF vfs_get_node_by_path, WalkIn, Step, StepIn, pafs_find_entry, FindIn
<1>. QED
  BY <1>1, <1>2

\* pafs_delete in the working directory.
LEMMA DeleteEffect ==
  ASSUME inodes \in Trees, shell_cwd_node \in Inodes, NEW name \in Names, pafs_delete(name)
  PROVE  /\ inodes' \in Trees
         /\ inodes' = inodes \/ \E ino \in Inodes : Dropped(inodes, inodes', shell_cwd_node, ino)
<1>. DEFINE d == shell_cwd_node
            ino == pafs_find_entry(d, name)
<1>. SUFFICES ASSUME inodes' # inodes
              PROVE  /\ inodes' \in Trees
                     /\ Dropped(inodes, inodes', d, ino) /\ ino \in Inodes
  OBVIOUS
<1>1. /\ ino # -1 /\ (inodes[ino].type = "dir" => inodes[ino].entries = <<>>)
      /\ inodes' = [inodes EXCEPT ![ino] = FreeInode, ![d].entries = Front(@)]
  BY DEF pafs_delete, MayDelete
<1>2. FindIn(inodes, d, name) # -1 /\ ino = FindIn(inodes, d, name)
  BY <1>1, OnTrees
<1>3. inodes[d].type = "dir"
  BY <1>2 DEF FindIn
<1>4. PICK q \in 1 .. Len(inodes[d].entries) : ino = inodes[d].entries[q].inode
  BY <1>2, <1>3, FindFirst
<1>. HIDE DEF ino
<1>5. ino \in Inodes /\ Len(inodes[d].entries) \in Nat /\ Len(inodes[d].entries) # 0
  BY <1>4, TreeParts
<1>6. ino # d
  <2>1. ASSUME ino = d PROVE FALSE
    <3>1. inodes[d].entries = <<>>
      BY <1>1, <1>3, <2>1
    <3>. QED
      BY <3>1, <1>5
  <2>. QED
    BY <2>1
<1>7. inodes \in [Inodes -> [type : {"free", "file", "dir"}, entries : Seq(DirEntry)]]
  BY DEF Trees
<1>8. /\ inodes'[ino] = FreeInode /\ \A i \in Inodes \ {ino, d} : inodes'[i] = inodes[i]
      /\ inodes'[d] = [inodes[d] EXCEPT !.entries = Front(@)]
  BY <1>1, <1>5, <1>6, <1>7
<1>9. inodes'[d] = [type |-> "dir", entries |-> Front(inodes[d].entries)]
  BY <1>3, <1>7, <1>8
<1>10. inodes' \in Trees
  <2>1. Front(inodes[d].entries) \in Seq(DirEntry) /\ <<>> \in Seq(DirEntry)
    BY TreeParts DEF Front
  <2>2. inodes'[d] \in [type : {"free", "file", "dir"}, entries : Seq(DirEntry)]
    BY <2>1, <1>9
  <2>3. inodes'[ino] \in [type : {"free", "file", "dir"}, entries : Seq(DirEntry)]
    BY <2>1, <1>8 DEF FreeInode
  <2>4. inodes' = [i \in Inodes |-> inodes'[i]]
    BY <1>1, <1>7
  <2>5. \A i \in Inodes :
          inodes'[i] \in [type : {"free", "file", "dir"}, entries : Seq(DirEntry)]
    BY <2>2, <2>3, <1>7, <1>8
  <2>. QED
    BY <2>4, <2>5 DEF Trees
<1>. QED
  BY <1>3, <1>4, <1>5, <1>6, <1>8, <1>9, <1>10 DEF Dropped

\* The new inode is the youngest: the order of the tree survives a create.
LEMMA EnteredSound ==
  ASSUME NEW T, TreeSound(T), NEW U \in Trees, NEW dir \in Inodes, NEW name, NEW type,
         type # "free", NEW new \in Inodes, Entered(T, U, dir, name, type, new)
  PROVE  TreeSound(U)
<1>1. T \in Trees /\ T[Root].type = "dir"
  BY DEF TreeSound
<1>2. PICK rank \in [Inodes -> Nat], top \in Nat :
        Ordered(T, rank) /\ \A i \in Inodes : rank[i] < top
  BY DEF TreeSound
<1>3. T[new].type = "free" /\ new # Root /\ Root \in Inodes
  BY <1>1, InodeNumbers DEF Entered
<1>. DEFINE later == [rank EXCEPT ![new] = top]
<1>4. /\ later \in [Inodes -> Nat] /\ later[new] = top
      /\ \A i \in Inodes \ {new} : later[i] = rank[i] /\ later[i] < top
      /\ \A i \in Inodes : later[i] < top + 1
  BY <1>2
<1>. HIDE DEF later
<1>5. ASSUME NEW d \in Inodes, NEW k \in 1 .. Len(U[d].entries)
      PROVE  Rising(U, later, d, k, U[d].entries[k].inode)
  <2>1. CASE d = new
    <3>1. dir = new
      <4>1. CASE dir # new
        <5>1. U[d].entries = <<>>
          BY <2>1, <4>1 DEF Entered
        <5>. QED
          BY <5>1
      <4>. QED
        BY <4>1
    <3>2. U[d].entries = <<[name |-> name, inode |-> new]>>
      BY <2>1, <3>1 DEF Entered
    <3>3. k = 1 /\ U[d].entries[k].inode = d
      BY <3>2, <2>1
    <3>. QED
      BY <3>3, <2>1, <1>3 DEF Rising
  <2>2. CASE d # new
    <3>1. later[d] = rank[d] /\ later[d] < top
      BY <2>2, <1>4
    <3>2. CASE U[d].entries[k].inode = new
      BY <3>1, <3>2, <1>3, <1>4 DEF Rising
    <3>3. CASE U[d].entries[k].inode # new
      <4>1. PICK i \in Inodes : i = U[d].entries[k].inode /\ i # new
        BY <3>3, TreeParts
      <4>2. k \in 1 .. Len(T[d].entries) /\ T[d].entries[k].inode = i
        <5>1. CASE d # dir
          BY <5>1, <2>2, <4>1 DEF Entered
        <5>2. CASE d = dir
          <6>1. U[d].entries = Append(T[d].entries, [name |-> name, inode |-> new])
            BY <5>2, <2>2 DEF Entered
          <6>2. T[d].entries \in Seq(DirEntry)
            BY <1>1, TreeParts
          <6>3. Len(U[d].entries) = Len(T[d].entries) + 1 /\ Len(T[d].entries) \in Nat
            BY <6>1, <6>2
          <6>4. k # Len(T[d].entries) + 1
            <7>1. U[d].entries[Len(T[d].entries) + 1] = [name |-> name, inode |-> new]
              BY <6>1, <6>2
            <7>. QED
              BY <7>1, <4>1
          <6>5. k \in 1 .. Len(T[d].entries)
            BY <6>3, <6>4
          <6>6. U[d].entries[k] = T[d].entries[k]
            BY <6>1, <6>2, <6>5
          <6>. QED
            BY <6>5, <6>6, <4>1
        <5>. QED
          BY <5>1, <5>2
      <4>3. Rising(T, rank, d, k, i)
        BY <4>2, <1>2 DEF Ordered
      <4>4. U[i].type = "free" \/ T[i].type # "free"
        BY <4>1, <2>2 DEF Entered
      <4>5. later[i] = rank[i]
        BY <4>1, <1>4
      <4>. QED
        BY <4>1, <4>3, <4>4, <4>5, <3>1 DEF Rising
    <3>. QED
      BY <3>2, <3>3
  <2>. QED
    BY <2>1, <2>2
<1>6. Ordered(U, later)
  BY <1>5 DEF Ordered
<1>7. U[Root].type = "dir"
  BY <1>1, <1>3 DEF Entered
<1>8. top + 1 \in Nat
  BY <1>2
<1>. QED
  BY <1>4, <1>6, <1>7, <1>8 DEF TreeSound

\* What is left of the tree after a delete is ordered as before.
LEMMA DroppedSound ==
  ASSUME NEW T, TreeSound(T), NEW U \in Trees, NEW dir \in Inodes,
         NEW ino \in Inodes, Dropped(T, U, dir, ino)
  PROVE  TreeSound(U)
<1>1. T \in Trees /\ T[Root].type = "dir"
  BY DEF TreeSound
<1>2. PICK rank \in [Inodes -> Nat], top \in Nat :
        Ordered(T, rank) /\ \A i \in Inodes : rank[i] < top
  BY DEF TreeSound
<1>3. ino # Root
  <2>1. PICK q \in 1 .. Len(T[dir].entries) : T[dir].entries[q].inode = ino
    BY DEF Dropped
  <2>2. Rising(T, rank, dir, q, ino)
    BY <2>1, <1>2 DEF Ordered
  <2>. QED
    BY <2>2 DEF Rising
<1>4. \A i \in Inodes : U[i].type = T[i].type \/ U[i].type = "free"
  BY DEF Dropped, FreeInode
<1>5. ASSUME NEW d \in Inodes, NEW k \in 1 .. Len(U[d].entries)
      PROVE  Rising(U, rank, d, k, U[d].entries[k].inode)
  <2>1. d # ino
    <3>1. CASE d = ino
      <4>1. U[d].entries = <<>>
        BY <3>1 DEF Dropped, FreeInode
      <4>. QED
        BY <4>1
    <3>. QED
      BY <3>1
  <2>2. k \in 1 .. Len(T[d].entries) /\ U[d].entries[k] = T[d].entries[k]
    <3>1. CASE d # dir
      BY <3>1, <2>1 DEF Dropped
    <3>2. CASE d = dir
      <4>1. U[d].entries = Front(T[d].entries)
        BY <3>2 DEF Dropped
      <4>2. T[d].entries \in Seq(DirEntry) /\ Len(T[d].entries) \in Nat
        BY <1>1, TreeParts
      <4>3. Len(T[d].entries) # 0
        BY <3>2, <4>2 DEF Dropped
      <4>4. PICK w \in Seq(DirEntry) : w = T[d].entries /\ Len(w) \in Nat /\ Len(w) # 0
        BY <4>2, <4>3
      <4>5. Len(Front(w)) = Len(w) - 1 /\ \A j \in 1 .. Len(w) - 1 : Front(w)[j] = w[j]
        BY <4>4 DEF Front
      <4>6. k \in 1 .. Len(w) - 1
        BY <4>1, <4>4, <4>5
      <4>. QED
        BY <4>1, <4>4, <4>5, <4>6
    <3>. QED
      BY <3>1, <3>2
  <2>3. Rising(T, rank, d, k, U[d].entries[k].inode)
    BY <2>2, <1>2 DEF Ordered
  <2>4. U[d].entries[k].inode \in Inodes
    BY TreeParts
  <2>. QED
    BY <2>3, <2>4, <1>4 DEF Rising
<1>6. Ordered(U, rank)
  BY <1>5 DEF Ordered
<1>7. U[Root].type = "dir"
  BY <1>1, <1>3, InodeNumbers DEF Dropped
<1>. QED
  BY <1>2, <1>6, <1>7 DEF TreeSound

\* The working directory is where the path says.
At(T, path, node) == T[node].type = "dir" /\ WalkIn(T, Root, path) = node

\* The course of the path to the working directory.
LEMMA PathCourse ==
  ASSUME NEW T \in Trees, NEW path \in Seq(Components), NEW node \in Inodes,
         At(T, path, node)
  PROVE  \E f : /\ Leads(T, f, Root, path) /\ f[Len(path)] = node
                /\ \A j \in 0 .. Len(path) : f[j] \in Inodes /\ T[f[j]].type = "dir"
<1>1. Root \in Places
  BY InodeNumbers DEF Places
<1>2. PICK f : Leads(T, f, Root, path)
  BY <1>1, WalkCourse
<1>3. f[Len(path)] = node
  BY <1>1, <1>2, WalkCourse DEF At
<1>4. f[Len(path)] # -1 /\ T[f[Len(path)]].type = "dir"
  BY <1>3, InodeNumbers DEF At
<1>. QED
  BY <1>1, <1>2, <1>3, <1>4, AllDirectories

\* Creating something below a directory does not move the working directory.
LEMMA EnteredWalk ==
  ASSUME NEW T \in Trees, NEW U \in Trees, NEW dir \in Inodes, T[dir].type = "dir",
         NEW name, NEW type, NEW new \in Inodes, Entered(T, U, dir, name, type, new),
         NEW path \in Seq(Components), NEW node \in Inodes, At(T, path, node)
  PROVE  At(U, path, node)
<1>1. PICK f : /\ Leads(T, f, Root, path) /\ f[Len(path)] = node
               /\ \A j \in 0 .. Len(path) : f[j] \in Inodes /\ T[f[j]].type = "dir"
  BY PathCourse
<1>2. dir # new /\ T[new].type = "free"
  BY DEF Entered
<1>3. \A i \in Inodes : T[i].type = "dir" => U[i].type = "dir"
  BY <1>2 DEF Entered
<1>4. ASSUME NEW k \in 1 .. Len(path)
      PROVE  StepIn(U, f[k - 1], path[k]) = StepIn(T, f[k - 1], path[k])
  <2>1. k - 1 \in 0 .. Len(path) /\ k \in 0 .. Len(path)
    OBVIOUS
  <2>2. PICK x \in Inodes : x = f[k - 1] /\ T[x].type = "dir" /\ U[x].type = "dir" /\ x # new
    BY <1>1, <1>2, <1>3, <2>1
  <2>3. PICK y \in Inodes : y = f[k] /\ y = StepIn(T, x, path[k])
    BY <1>1, <2>1, <2>2 DEF Leads
  <2>4. CASE path[k] = "."
    BY <2>4 DEF StepIn
  <2>5. CASE path[k] # "."
    <3>1. /\ StepIn(T, x, path[k]) = FindIn(T, x, path[k])
          /\ StepIn(U, x, path[k]) = FindIn(U, x, path[k])
      BY <2>2, <2>5, InodeNumbers DEF StepIn
    <3>2. FindIn(T, x, path[k]) # -1
      BY <2>3, <3>1, InodeNumbers
    <3>3. PICK m \in 1 .. Len(T[x].entries) :
            First(T, x, path[k], m) /\ FindIn(T, x, path[k]) = T[x].entries[m].inode
      BY <2>2, <3>2, FindFirst
    <3>4. /\ Len(T[x].entries) <= Len(U[x].entries) /\ Len(U[x].entries) \in Nat
          /\ \A j \in 1 .. Len(T[x].entries) : U[x].entries[j] = T[x].entries[j]
      <4>1. CASE x = dir
        <5>1. U[x].entries = Append(T[x].entries, [name |-> name, inode |-> new])
          BY <4>1, <1>2 DEF Entered
        <5>2. T[x].entries \in Seq(DirEntry)
          BY TreeParts
        <5>. QED
          BY <5>1, <5>2
      <4>2. CASE x # dir
        <5>1. U[x] = T[x]
          BY <4>2, <2>2 DEF Entered
        <5>2. Len(T[x].entries) \in Nat
          BY TreeParts
        <5>. QED
          BY <5>1, <5>2
      <4>. QED
        BY <4>1, <4>2
    <3>5. First(U, x, path[k], m)
      <4>1. Len(T[x].entries) \in Nat
        BY TreeParts
      <4>. QED
        <5>1. /\ m \in 1 .. Len(U[x].entries) /\ U[x].entries[m] = T[x].entries[m]
              /\ \A j \in 1 .. m - 1 : U[x].entries[j] = T[x].entries[j]
          BY <4>1, <3>3, <3>4, SMTT(40)
        <5>2. /\ T[x].entries[m].name = path[k]
              /\ \A j \in 1 .. m - 1 : T[x].entries[j].name # path[k]
          BY <3>3 DEF First
        <5>. QED
          BY <5>1, <5>2 DEF First
    <3>6. FindIn(U, x, path[k]) = U[x].entries[m].inode
      BY <2>2, <3>5, FindFirst
    <3>. QED
      BY <2>2, <3>1, <3>3, <3>4, <3>6
  <2>. QED
    BY <2>4, <2>5
<1>5. Root \in Places
  BY InodeNumbers DEF Places
<1>6. WalkIn(U, Root, path) = node
  BY <1>1, <1>4, <1>5, WalkKept
<1>. QED
  BY <1>3, <1>6 DEF At

\* Nor does deleting something in it.
LEMMA DroppedWalk ==
  ASSUME NEW T, TreeSound(T), NEW U \in Trees, NEW node \in Inodes, NEW ino \in Inodes,
         Dropped(T, U, node, ino), NEW path \in Seq(Components), At(T, path, node)
  PROVE  At(U, path, node)
<1>t. T \in Trees
  BY DEF TreeSound
<1>r. PICK rank \in [Inodes -> Nat] : Ordered(T, rank)
  BY DEF TreeSound
<1>1. PICK f : /\ Leads(T, f, Root, path) /\ f[Len(path)] = node
               /\ \A j \in 0 .. Len(path) : f[j] \in Inodes /\ T[f[j]].type = "dir"
  BY <1>t, PathCourse
<1>5. Root \in Places
  BY InodeNumbers DEF Places
<1>2. \A j \in 0 .. Len(path) : node = f[j] \/ rank[f[j]] < rank[node]
  BY <1>1, <1>5, <1>r, <1>t, WalkRises
<1>3. PICK q \in 1 .. Len(T[node].entries) : T[node].entries[q].inode = ino
  BY DEF Dropped
<1>4. ino # node /\ (T[ino].type = "free" \/ rank[node] < rank[ino])
  <2>1. Rising(T, rank, node, q, ino)
    BY <1>3, <1>r DEF Ordered
  <2>. QED
    BY <2>1 DEF Rising, Dropped
<1>6. ASSUME NEW k \in 1 .. Len(path)
      PROVE  StepIn(U, f[k - 1], path[k]) = StepIn(T, f[k - 1], path[k])
  <2>1. k - 1 \in 0 .. Len(path) /\ k \in 0 .. Len(path)
    OBVIOUS
  <2>2. PICK x \in Inodes : x = f[k - 1] /\ T[x].type = "dir" /\ (node = x \/ rank[x] < rank[node])
    BY <1>1, <1>2, <2>1
  <2>3. PICK y \in Inodes : /\ y = f[k] /\ T[y].type = "dir" /\ y = StepIn(T, x, path[k])
                            /\ node = y \/ rank[y] < rank[node]
    BY <1>1, <1>2, <2>1, <2>2 DEF Leads
  <2>n. rank[x] \in Nat /\ rank[y] \in Nat /\ rank[node] \in Nat /\ rank[ino] \in Nat
    OBVIOUS
  <2>4. x # ino
    BY <2>2, <1>4, <2>n
  <2>5. CASE path[k] = "."
    BY <2>5 DEF StepIn
  <2>6. CASE path[k] # "." /\ x # node
    <3>1. U[x] = T[x]
      BY <2>4, <2>6 DEF Dropped
    <3>. QED
      BY <2>2, <3>1 DEF StepIn, FindIn
  <2>7. CASE path[k] # "." /\ x = node
    <3>1. U[x].type = "dir" /\ U[x].entries = Front(T[x].entries)
      BY <2>7 DEF Dropped
    <3>2. /\ StepIn(T, x, path[k]) = FindIn(T, x, path[k])
          /\ StepIn(U, x, path[k]) = FindIn(U, x, path[k])
      BY <2>2, <2>7, <3>1, InodeNumbers DEF StepIn
    <3>3. FindIn(T, x, path[k]) # -1
      BY <2>3, <3>2, InodeNumbers
    <3>4. PICK m \in 1 .. Len(T[x].entries) :
            First(T, x, path[k], m) /\ y = T[x].entries[m].inode
      <4>1. y = FindIn(T, x, path[k])
        BY <2>3, <3>2
      <4>2. PICK m \in 1 .. Len(T[x].entries) :
              First(T, x, path[k], m) /\ FindIn(T, x, path[k]) = T[x].entries[m].inode
        <5>1. PICK c : c = path[k]
          OBVIOUS
        <5>2. FindIn(T, x, c) # -1 /\ T[x].type = "dir" /\ x \in Inodes
          BY <2>2, <3>3, <5>1
        <5>3. \E m \in 1 .. Len(T[x].entries) :
                First(T, x, c, m) /\ FindIn(T, x, c) = T[x].entries[m].inode
          BY <1>t, <5>2, FindFirst
        <5>. QED
          BY <5>1, <5>3
      <4>. QED
        BY <4>1, <4>2
    <3>5. Rising(T, rank, x, m, y)
      BY <3>4, <1>r DEF Ordered
    <3>6. y = x /\ m = 1
      BY <3>5, <2>3, <2>7, <2>n DEF Rising
    <3>7. q # 1
      BY <3>4, <3>6, <1>3, <1>4, <2>7
    <3>8. PICK w \in Seq(DirEntry) : w = T[x].entries /\ Len(w) \in Nat /\ Len(w) >= 2
      <4>1. T[x].entries \in Seq(DirEntry) /\ Len(T[x].entries) \in Nat
        BY <1>t, TreeParts
      <4>2. Len(T[x].entries) >= 2
        BY <4>1, <3>7, <1>3, <2>7
      <4>. QED
        BY <4>1, <4>2
    <3>9. Len(Front(w)) = Len(w) - 1 /\ Front(w)[1] = w[1]
      BY <3>8 DEF Front
    <3>10. First(U, x, path[k], 1) /\ U[x].entries[1].inode = y
      <4>1. U[x].entries[1] = T[x].entries[1] /\ 1 \in 1 .. Len(U[x].entries)
        BY <3>1, <3>8, <3>9
      <4>2. T[x].entries[1].name = path[k] /\ T[x].entries[1].inode = y
        BY <3>4, <3>6 DEF First
      <4>. QED
        BY <4>1, <4>2 DEF First
    <3>11. FindIn(U, x, path[k]) = y
      BY <3>1, <3>10, FindFirst
    <3>. QED
      BY <2>2, <2>3, <3>2, <3>11
  <2>. QED
    BY <2>5, <2>6, <2>7
<1>7. WalkIn(U, Root, path) = node
  BY <1>1, <1>5, <1>6, <1>t, WalkKept
<1>8. U[node].type = "dir"
  BY DEF Dropped
<1>. QED
  BY <1>7, <1>8 DEF At

CwdInv ==
  /\ TreeSound(inodes)
  /\ shell_cwd_path \in Seq(Components) /\ shell_cwd_node \in Inodes
  /\ formatted \in BOOLEAN
  /\ ~formatted => At(inodes, shell_cwd_path, shell_cwd_node)

\* A freshly formatted disk.
LEMMA EmptySound == TreeSound(EmptyDisk)
<1>. DEFINE rank == [i \in Inodes |-> 0]
<1>1. /\ EmptyDisk \in Trees /\ EmptyDisk[Root].type = "dir"
      /\ \A i \in Inodes : EmptyDisk[i].entries = <<>>
  BY InodeNumbers DEF EmptyDisk, Trees, FreeInode
<1>2. rank \in [Inodes -> Nat] /\ \A i \in Inodes : rank[i] < 1
  OBVIOUS
<1>. HIDE DEF rank
<1>3. Ordered(EmptyDisk, rank)
  BY <1>1 DEF Ordered
<1>. QED
  BY <1>1, <1>2, <1>3 DEF TreeSound

\* Commands and calls that create.
LEMMA CreateInv ==
  ASSUME CwdInv, NEW dir \in {Root, shell_cwd_node}, NEW name \in Names,
         NEW type \in {"file", "dir"}, inodes' = Created(dir, name, type),
         UNCHANGED <<shell_cwd_path, shell_cwd_node, formatted>>
  PROVE  CwdInv'
<1>1. /\ inodes \in Trees /\ dir \in Inodes /\ TreeSound(inodes) /\ inodes[Root].type = "dir"
      /\ shell_cwd_path \in Seq(Components) /\ shell_cwd_node \in Inodes
  BY InodeNumbers DEF CwdInv, TreeSound
<1>2. PICK U : U = inodes'
  OBVIOUS
<1>3. /\ U \in Trees
      /\ U = inodes \/ \E new \in Inodes : Entered(inodes, U, dir, name, type, new)
  BY <1>1, <1>2, CreateEffect
<1>4. TreeSound(U)
  BY <1>1, <1>3, EnteredSound
<1>5. ASSUME ~formatted PROVE At(U, shell_cwd_path, shell_cwd_node)
  <2>1. At(inodes, shell_cwd_path, shell_cwd_node)
    BY <1>5 DEF CwdInv
  <2>2. inodes[dir].type = "dir"
    BY <1>1, <2>1 DEF At
  <2>. QED
    BY <1>1, <1>3, <2>1, <2>2, EnteredWalk
<1>. QED
  BY <1>1, <1>2, <1>4, <1>5 DEF CwdInv

\* rm and rmdir.
LEMMA DeleteInv ==
  ASSUME CwdInv, NEW name \in Names, pafs_delete(name)
  PROVE  CwdInv'
<1>1. /\ inodes \in Trees /\ TreeSound(inodes)
      /\ shell_cwd_path \in Seq(Components) /\ shell_cwd_node \in Inodes
  BY DEF CwdInv, TreeSound
<1>2. PICK U : U = inodes'
  OBVIOUS
<1>3. /\ U \in Trees
      /\ U = inodes \/ \E ino \in Inodes : Dropped(inodes, U, shell_cwd_node, ino)
  BY <1>1, <1>2, DeleteEffect
<1>4. TreeSound(U)
  BY <1>1, <1>3, DroppedSound
<1>5. ASSUME ~formatted PROVE At(U, shell_cwd_path, shell_cwd_node)
  <2>1. At(inodes, shell_cwd_path, shell_cwd_node)
    BY <1>5 DEF CwdInv
  <2>. QED
    BY <1>1, <1>3, <2>1, DroppedWalk
<1>6. UNCHANGED <<shell_cwd_path, shell_cwd_node, formatted>>
  BY DEF pafs_delete
<1>. QED
  BY <1>1, <1>2, <1>4, <1>5, <1>6 DEF CwdInv

\* cd with a path.
LEMMA CdInv ==
  ASSUME CwdInv, NEW absolute \in BOOLEAN,
         NEW path \in {<<>>} \union {<<n>> : n \in Components}, cd(absolute, path)
  PROVE  CwdInv'
<1>t. /\ inodes \in Trees /\ shell_cwd_path \in Seq(Components) /\ shell_cwd_node \in Inodes
      /\ formatted \in BOOLEAN
  BY DEF CwdInv, TreeSound
<1>r. Root \in Places /\ shell_cwd_node \in Places /\ Root \in Inodes
  BY <1>t, InodeNumbers DEF Places
<1>p. path \in Seq(Components)
  <2>1. CASE path = <<>>
    BY <2>1
  <2>2. ASSUME NEW c \in Components, path = <<c>> PROVE path \in Seq(Components)
    BY <2>2
  <2>. QED
    BY <2>1, <2>2
<1>. DEFINE base == IF absolute THEN Root ELSE shell_cwd_node
            node == vfs_get_node_by_path(base, path)
<1>1. UNCHANGED <<inodes, formatted>>
  BY DEF cd
<1>2. CASE ~IsDirectory(node)
  <2>1. UNCHANGED <<shell_cwd_path, shell_cwd_node>>
    BY <1>2 DEF cd
  <2>. QED
    BY <1>1, <2>1 DEF CwdInv
<1>3. CASE IsDirectory(node)
  <2>1. /\ shell_cwd_node' = node
        /\ shell_cwd_path' = IF absolute THEN path ELSE shell_cwd_path \o path
    BY <1>3 DEF cd, PathAfter
  <2>2. node = WalkIn(inodes, base, path)
    BY OnTrees
  <2>. HIDE DEF node
  <2>3. node \in Inodes /\ inodes[node].type = "dir"
    <3>1. base \in Places
      BY <1>r
    <3>. HIDE DEF base
    <3>2. PICK f : Leads(inodes, f, base, path)
      BY <1>t, <1>p, <3>1, WalkCourse
    <3>3. node = f[Len(path)]
      BY <1>t, <1>p, <2>2, <3>1, <3>2, WalkCourse
    <3>4. f[Len(path)] \in Places
      BY <1>p, <3>2 DEF Leads
    <3>. QED
      BY <1>3, <3>3, <3>4 DEF IsDirectory, Places
  <2>4. shell_cwd_path' \in Seq(Components)
    BY <1>t, <1>p, <2>1
  <2>5. ASSUME ~formatted PROVE At(inodes, shell_cwd_path', node)
    <3>1. CASE absolute
      BY <2>1, <2>2, <2>3, <3>1 DEF At
    <3>2. CASE ~absolute
      <4>1. WalkIn(inodes, Root, shell_cwd_path) = shell_cwd_node
        BY <2>5 DEF CwdInv, At
      <4>2. node = WalkIn(inodes, shell_cwd_node, path)
        BY <2>2, <3>2
      <4>3. CASE path = <<>>
        <5>1. node = shell_cwd_node
          BY <4>2, <4>3, <1>t, <1>r, WalkNowhere
        <5>2. shell_cwd_path' = shell_cwd_path
          BY <2>1, <3>2, <4>3, <1>t
        <5>. QED
          BY <4>1, <5>1, <5>2, <2>3 DEF At
      <4>4. ASSUME NEW c \in Components, path = <<c>>
            PROVE  At(inodes, shell_cwd_path', node)
        <5>1. shell_cwd_path' = Append(shell_cwd_path, c)
          BY <2>1, <3>2, <4>4, <1>t
        <5>2. WalkIn(inodes, Root, Append(shell_cwd_path, c)) = StepIn(inodes, shell_cwd_node, c)
          BY <4>1, <1>t, <1>r, WalkOn
        <5>3. /\ <<c>> = Append(<<>>, c) /\ <<>> \in Seq(Components)
          OBVIOUS
        <5>4. WalkIn(inodes, shell_cwd_node, Append(<<>>, c))
                = StepIn(inodes, WalkIn(inodes, shell_cwd_node, <<>>), c)
          BY <5>3, <1>t, <1>r, WalkOn
        <5>5. WalkIn(inodes, shell_cwd_node, <<>>) = shell_cwd_node
          BY <1>t, <1>r, WalkNowhere
        <5>6. node = StepIn(inodes, shell_cwd_node, c)
          BY <4>2, <4>4, <5>3, <5>4, <5>5
        <5>. QED
          BY <2>3, <5>1, <5>2, <5>6 DEF At
      <4>. QED
        BY <4>3, <4>4
    <3>. QED
      BY <3>1, <3>2
  <2>. QED
    BY <1>1, <1>t, <2>1, <2>3, <2>4, <2>5 DEF CwdInv
<1>. QED
  BY <1>2, <1>3

\* cd ..: the shorter path leads to a directory as long as the longer one did.
LEMMA CdUpInv == CwdInv /\ cd_up => CwdInv'
<1>. SUFFICES ASSUME CwdInv, cd_up PROVE CwdInv'
  OBVIOUS
<1>t. /\ inodes \in Trees /\ shell_cwd_path \in Seq(Components) /\ shell_cwd_node \in Inodes
  BY DEF CwdInv, TreeSound
<1>r. Root \in Places /\ Root \in Inodes
  BY InodeNumbers DEF Places
<1>1. PICK w \in Seq(Components), c \in Components :
        shell_cwd_path = Append(w, c) /\ w = Front(shell_cwd_path)
  <2>1. shell_cwd_path # <<>>
    BY DEF cd_up
  <2>2. PICK z \in Seq(Components) : z = shell_cwd_path /\ Len(z) \in Nat /\ Len(z) >= 1
    BY <1>t, <2>1
  <2>3. Front(z) \in Seq(Components) /\ z[Len(z)] \in Components
    BY <2>2 DEF Front
  <2>4. z = Append(Front(z), z[Len(z)])
    BY <2>2 DEF Front
  <2>. QED
    BY <2>2, <2>3, <2>4
<1>2. PICK node : node = WalkIn(inodes, Root, w)
  OBVIOUS
<1>3. /\ shell_cwd_path' = w /\ UNCHANGED <<inodes, formatted>>
      /\ shell_cwd_node' = IF node = -1 THEN shell_cwd_node ELSE node
  BY <1>1, <1>2, OnTrees DEF cd_up
<1>4. node \in Places
  <2>1. PICK f : Leads(inodes, f, Root, w)
    BY <1>t, <1>r, WalkCourse
  <2>2. node = f[Len(w)]
    BY <1>2, <1>t, <1>r, <2>1, WalkCourse
  <2>. QED
    BY <2>1, <2>2 DEF Leads
<1>5. ASSUME ~formatted PROVE node # -1 /\ inodes[node].type = "dir"
  <2>1. /\ WalkIn(inodes, Root, Append(w, c)) = shell_cwd_node
        /\ inodes[shell_cwd_node].type = "dir"
    BY <1>1, <1>5 DEF CwdInv, At
  <2>2. StepIn(inodes, node, c) = shell_cwd_node
    BY <2>1, <1>2, <1>t, <1>r, WalkOn
  <2>. QED
    BY <2>1, <2>2, <1>t, InodeNumbers DEF StepIn
<1>6. shell_cwd_node' \in Inodes
  BY <1>3, <1>4, <1>t DEF Places
<1>. QED
  BY <1>1, <1>2, <1>3, <1>5, <1>6 DEF CwdInv, At

\* Whatever leaves the tree and the working directory alone.
LEMMA CwdAlone == CwdInv /\ UNCHANGED cwdVars => CwdInv'
BY DEF cwdVars, CwdInv

\* A start, or a restart over the disk as it is.
LEMMA CwdStarts ==
  /\ CwdInit => CwdInv
  /\ CwdInv /\ CwdBoot => CwdInv'
<1>1. ASSUME NEW T, TreeSound(T) PROVE At(T, <<>>, Root)
  BY <1>1, WalkNowhere, InodeNumbers DEF At, TreeSound, Places
<1>2. <<>> \in Seq(Components) /\ Root \in Inodes
  BY InodeNumbers
<1>3. ASSUME CwdInit PROVE CwdInv
  BY <1>1, <1>2, <1>3, EmptySound DEF CwdInit, CwdInv
<1>4. ASSUME CwdInv, CwdBoot PROVE CwdInv'
  BY <1>1, <1>2, <1>4 DEF CwdBoot, CwdInv
<1>. QED
  BY <1>3, <1>4

\* Every step keeps the path and the node together.
LEMMA CwdNext == CwdInv /\ [Next]_vars => CwdInv'
<1>. SUFFICES ASSUME CwdInv, [Next]_vars PROVE CwdInv'
  OBVIOUS
<1>1. CASE shell_key
  <2>1. CASE command_tree
    <3>0. TreeCommand
      BY <2>1 DEF command_tree
    <3>1. CASE \E name \in Names, type \in {"file", "dir"} : pafs_create(name, type)
      BY <3>1, CreateInv DEF pafs_create
    <3>2. CASE \E name \in Names : pafs_delete(name)
      BY <3>2, DeleteInv
    <3>3. CASE \E absolute \in BOOLEAN, path \in {<<>>} \union {<<n>> : n \in Components} :
                 cd(absolute, path)
      BY <3>3, CdInv
    <3>4. CASE cd_up
      BY <3>4, CdUpInv
    <3>5. CASE pafs_format
      BY <3>5, EmptySound DEF pafs_format, CwdInv
    <3>. QED
      BY <3>0, <3>1, <3>2, <3>3, <3>4, <3>5 DEF TreeCommand, Components
  <2>2. CASE command_reboot
    BY <2>2, CwdStarts DEF command_reboot
  <2>3. CASE command_other \/ command_exec \/ command_vinit
    BY <2>3, CwdAlone DEF command_other, command_exec, command_vinit
  <2>4. CASE UNCHANGED cwdVars
    BY <2>4, CwdAlone
  <2>. QED
    BY <1>1, <2>1, <2>2, <2>3, <2>4 DEF shell_key, execute_command
<1>2. CASE text_mode
  <2>1. CASE sys_open_creat
    BY <2>1, CreateInv DEF sys_open_creat
  <2>2. CASE UNCHANGED cwdVars
    BY <2>2, CwdAlone
  <2>. QED
    BY <1>2, <2>1, <2>2 DEF text_mode
<1>3. CASE graphical_mode \/ UNCHANGED vars
  BY <1>3, CwdAlone DEF graphical_mode, vars
<1>. QED
  BY <1>1, <1>2, <1>3 DEF Next

\* cd, mkdir, touch, rm and format, which keep the path as text and the directory as
\* a node: the two agree until the disk is formatted, in trees of any size and depth,
\* although entries of deleted files stay behind and their inodes are used again.
THEOREM CwdStaysResolved == Spec => []CwdResolves
<1>1. Init => CwdInv
  BY CwdStarts DEF Init
<1>2. CwdInv => CwdResolves
  BY OnTrees DEF CwdInv, At, CwdResolves
<1>. QED
  BY <1>1, <1>2, CwdNext, PTL DEF Spec

-----------------------------------------------------------------------------
(* The windows.                                                             *)

\* What a pointer to a window holds, what a window block holds, and the lists.
Links == WindowBlocks \union {NoWindow}
Records == [next : Links, prev : Links]
Lists == [win : [WindowBlocks -> Records], head : Links, tail : Links,
          live : SUBSET WindowBlocks]

\* The n windows s[1] .. s[n], from the back to the front, are those of the list l:
\* they are different, they are the blocks in use, ...
Threads(l, s, n) ==
  /\ s \in [1 .. n -> WindowBlocks]
  /\ \A i, j \in 1 .. n : s[i] = s[j] => i = j
  /\ \A w \in WindowBlocks : w \in l.live <=> \E i \in 1 .. n : s[i] = w

\* ... and each points to the ones next to it.
Linked(l, s, n) ==
  /\ l.head = IF n = 0 THEN NoWindow ELSE s[1]
  /\ l.tail = IF n = 0 THEN NoWindow ELSE s[n]
  /\ \A i \in 1 .. n : l.win[s[i]].next = IF i = n THEN NoWindow ELSE s[i + 1]
  /\ \A i \in 1 .. n : l.win[s[i]].prev = IF i = 1 THEN NoWindow ELSE s[i - 1]

Strung(l, s, n) == l \in Lists /\ n \in Nat /\ Threads(l, s, n) /\ Linked(l, s, n)

\* The pointer to no window is none of the blocks.
LEMMA NoSuchBlock == NoWindow \notin WindowBlocks /\ IsFiniteSet(WindowBlocks)
BY WindowsAssumption DEF NoWindow

\* What a list is made of.
LEMMA ListParts ==
  ASSUME NEW l \in Lists
  PROVE  /\ l.win \in [WindowBlocks -> Records] /\ l.head \in Links /\ l.tail \in Links
         /\ l.live \subseteq WindowBlocks
         /\ l = [win |-> l.win, head |-> l.head, tail |-> l.tail, live |-> l.live]
         /\ \A w \in WindowBlocks : /\ l.win[w] \in Records
                                    /\ l.win[w].next \in Links /\ l.win[w].prev \in Links
BY DEF Lists, Records

\* gui_create_window: the new window is behind all others in the list.
LEMMA OpenedStrung ==
  ASSUME NEW l \in Lists, NEW s, NEW n \in Nat, Strung(l, s, n),
         NEW w \in WindowBlocks, w \notin l.live
  PROVE  /\ \E t : Strung(Opened(l, w), t, n + 1)
         /\ Opened(l, w).live = l.live \union {w}
<1>t. /\ l \in Lists /\ n \in Nat /\ s \in [1 .. n -> WindowBlocks]
      /\ \A i, j \in 1 .. n : s[i] = s[j] => i = j
      /\ \A v \in WindowBlocks : v \in l.live <=> \E i \in 1 .. n : s[i] = v
  BY DEF Strung, Threads
<1>l. /\ l.head = IF n = 0 THEN NoWindow ELSE s[1]
      /\ l.tail = IF n = 0 THEN NoWindow ELSE s[n]
      /\ \A i \in 1 .. n : l.win[s[i]].next = IF i = n THEN NoWindow ELSE s[i + 1]
      /\ \A i \in 1 .. n : l.win[s[i]].prev = IF i = 1 THEN NoWindow ELSE s[i - 1]
  BY DEF Strung, Linked
<1>p. /\ l.win \in [WindowBlocks -> Records] /\ l.head \in Links /\ l.tail \in Links
      /\ l.live \subseteq WindowBlocks
  BY <1>t, ListParts
<1>. DEFINE t == [i \in 1 .. n + 1 |-> IF i = n + 1 THEN w ELSE s[i]]
<1>1. /\ t \in [1 .. n + 1 -> WindowBlocks] /\ t[n + 1] = w
      /\ \A i \in 1 .. n : t[i] = s[i] /\ s[i] \in WindowBlocks /\ s[i] # w
  BY <1>t
<1>. HIDE DEF t
<1>2. l.head = NoWindow <=> n = 0
  BY <1>l, <1>1, <1>t, NoSuchBlock
<1>3. PICK m : m = Opened(l, w)
  OBVIOUS
<1>4. /\ m \in Lists
      /\ m.live = l.live \union {w}
      /\ m.tail = w
      /\ m.head = IF n = 0 THEN w ELSE l.head
      /\ m.win[w].next = NoWindow
      /\ m.win[w].prev = IF n = 0 THEN NoWindow ELSE l.tail
      /\ \A v \in WindowBlocks \ {w} :
           /\ m.win[v].next = IF n # 0 /\ v = l.tail THEN w ELSE l.win[v].next
           /\ m.win[v].prev = l.win[v].prev
  <2>. DEFINE blank == [l.win EXCEPT ![w] = NoBlock]
  <2>1. /\ blank \in [WindowBlocks -> Records]
        /\ blank[w].next = NoWindow /\ blank[w].prev = NoWindow
        /\ \A v \in WindowBlocks \ {w} : blank[v] = l.win[v]
    BY <1>p DEF Records, NoBlock, Links
  <2>2. CASE n = 0
    <3>1. m = [win |-> blank, head |-> w, tail |-> w, live |-> l.live \union {w}]
      BY <1>2, <1>3, <2>2 DEF Opened
    <3>. HIDE DEF blank
    <3>. QED
      BY <3>1, <2>1, <2>2, <1>p DEF Lists, Links
  <2>3. CASE n # 0
    <3>. DEFINE both == [blank EXCEPT ![l.tail].next = w, ![w].prev = l.tail]
    <3>1. m = [win |-> both, head |-> l.head, tail |-> w, live |-> l.live \union {w}]
      BY <1>2, <1>3, <2>3 DEF Opened
    <3>2. l.tail \in WindowBlocks /\ l.tail # w
      BY <1>l, <1>1, <1>t, <2>3
    <3>. HIDE DEF blank
    <3>3. /\ both \in [WindowBlocks -> Records]
          /\ both[w].next = NoWindow /\ both[w].prev = l.tail
          /\ \A v \in WindowBlocks \ {w} :
               /\ both[v].next = IF v = l.tail THEN w ELSE l.win[v].next
               /\ both[v].prev = l.win[v].prev
      BY <2>1, <3>2, <1>p DEF Records, Links
    <3>. HIDE DEF both
    <3>. QED
      BY <3>1, <3>3, <2>3, <1>p DEF Lists, Links
  <2>. QED
    BY <2>2, <2>3
<1>5. Threads(m, t, n + 1)
  <2>1. ASSUME NEW i \in 1 .. n + 1, NEW j \in 1 .. n + 1, t[i] = t[j] PROVE i = j
    BY <2>1, <1>1, <1>t
  <2>2. ASSUME NEW v \in WindowBlocks
        PROVE  v \in m.live <=> \E i \in 1 .. n + 1 : t[i] = v
    BY <1>1, <1>4, <1>t
  <2>. QED
    BY <2>1, <2>2, <1>1 DEF Threads
<1>6. Linked(m, t, n + 1)
  <2>1. /\ m.head = t[1] /\ m.tail = t[n + 1]
    BY <1>1, <1>4, <1>l, <1>t
  <2>2. ASSUME NEW i \in 1 .. n + 1
        PROVE  m.win[t[i]].next = IF i = n + 1 THEN NoWindow ELSE t[i + 1]
    <3>1. CASE i = n + 1
      BY <3>1, <1>1, <1>4
    <3>2. CASE i = n
      BY <3>2, <1>1, <1>4, <1>l, <1>t
    <3>3. CASE i \in 1 .. n - 1
      <4>1. i \in 1 .. n /\ n \in 1 .. n /\ i + 1 \in 1 .. n /\ i # n
        BY <3>3, <1>t
      <4>2. s[i] # s[n] /\ s[i] \in WindowBlocks \ {w} /\ n # 0
        BY <4>1, <1>t, <1>1
      <4>3. m.win[s[i]].next = l.win[s[i]].next
        BY <4>2, <1>4, <1>l
      <4>. QED
        BY <4>1, <4>3, <1>1, <1>l
    <3>. QED
      BY <3>1, <3>2, <3>3, <1>t
  <2>3. ASSUME NEW i \in 1 .. n + 1
        PROVE  m.win[t[i]].prev = IF i = 1 THEN NoWindow ELSE t[i - 1]
    <3>1. CASE i = n + 1
      BY <3>1, <1>1, <1>4, <1>l, <1>t
    <3>2. CASE i \in 1 .. n
      BY <3>2, <1>1, <1>4, <1>l, <1>t
    <3>. QED
      BY <3>1, <3>2, <1>t
  <2>. QED
    BY <2>1, <2>2, <2>3, <1>t DEF Linked
<1>. QED
  BY <1>3, <1>4, <1>5, <1>6, <1>t DEF Strung

\* The pointers once a window is taken out of the list.
LEMMA UnlinkedEffect ==
  ASSUME NEW l \in Lists, NEW w \in WindowBlocks
  PROVE  LET u == Unlinked(l, w) IN
         /\ u \in Lists
         /\ u.live = l.live /\ u.tail = l.tail
         /\ u.head = IF l.head = w THEN l.win[w].next ELSE l.head
         /\ \A v \in WindowBlocks :
              /\ u.win[v].next = IF v = l.win[w].prev THEN l.win[w].next ELSE l.win[v].next
              /\ u.win[v].prev = IF v = l.win[w].next THEN l.win[w].prev ELSE l.win[v].prev
<1>p. /\ l.win \in [WindowBlocks -> Records] /\ l.head \in Links /\ l.tail \in Links
      /\ l.live \subseteq WindowBlocks
      /\ l = [win |-> l.win, head |-> l.head, tail |-> l.tail, live |-> l.live]
  BY ListParts
<1>. DEFINE next == l.win[w].next
            prev == l.win[w].prev
            forward == IF prev = NoWindow THEN l.win ELSE [l.win EXCEPT ![prev].next = next]
            both == IF next = NoWindow THEN forward ELSE [forward EXCEPT ![next].prev = prev]
<1>1. next \in Links /\ prev \in Links
  BY ListParts
<1>u. Unlinked(l, w) = [l EXCEPT !.win = both, !.head = IF @ = w THEN next ELSE @]
  BY DEF Unlinked
<1>n. l.win[w].next = next /\ l.win[w].prev = prev
  OBVIOUS
<1>. HIDE DEF next, prev
<1>2. /\ forward \in [WindowBlocks -> Records]
      /\ \A v \in WindowBlocks :
           /\ forward[v].next = IF v = prev THEN next ELSE l.win[v].next
           /\ forward[v].prev = l.win[v].prev
  <2>1. CASE prev = NoWindow
    BY <2>1, <1>p, NoSuchBlock
  <2>2. CASE prev # NoWindow
    BY <2>2, <1>p, <1>1 DEF Records, Links
  <2>. QED
    BY <2>1, <2>2
<1>. HIDE DEF forward
<1>3. /\ both \in [WindowBlocks -> Records]
      /\ \A v \in WindowBlocks :
           /\ both[v].next = forward[v].next
           /\ both[v].prev = IF v = next THEN prev ELSE forward[v].prev
  <2>1. CASE next = NoWindow
    BY <2>1, <1>2, NoSuchBlock
  <2>2. CASE next # NoWindow
    BY <2>2, <1>2, <1>1 DEF Records, Links
  <2>. QED
    BY <2>1, <2>2
<1>. HIDE DEF both
<1>4. PICK u : u = [win |-> both, head |-> IF l.head = w THEN next ELSE l.head,
                    tail |-> l.tail, live |-> l.live]
  OBVIOUS
<1>5. Unlinked(l, w) = u
  BY <1>u, <1>p, <1>4
<1>6. /\ u \in Lists /\ u.live = l.live /\ u.tail = l.tail
      /\ u.head = IF l.head = w THEN next ELSE l.head
      /\ u.win = both
  BY <1>4, <1>p, <1>1, <1>3 DEF Lists
<1>. QED
  BY <1>2, <1>3, <1>5, <1>6, <1>n

\* Taking window p out leaves the others linked to one another.
LEMMA OthersLinked ==
  ASSUME NEW l \in Lists, NEW s, NEW n \in Nat, Strung(l, s, n),
         NEW p \in 1 .. n, NEW k \in 1 .. n, k # p
  PROVE  LET u == Unlinked(l, s[p]) IN
         /\ u.win[s[k]].next = IF k = p - 1 THEN IF p = n THEN NoWindow ELSE s[p + 1]
                               ELSE IF k = n THEN NoWindow ELSE s[k + 1]
         /\ u.win[s[k]].prev = IF k = p + 1 THEN IF p = 1 THEN NoWindow ELSE s[p - 1]
                               ELSE IF k = 1 THEN NoWindow ELSE s[k - 1]
<1>t. /\ s \in [1 .. n -> WindowBlocks]
      /\ \A i, j \in 1 .. n : s[i] = s[j] => i = j
  BY DEF Strung, Threads
<1>l. /\ \A i \in 1 .. n : l.win[s[i]].next = IF i = n THEN NoWindow ELSE s[i + 1]
      /\ \A i \in 1 .. n : l.win[s[i]].prev = IF i = 1 THEN NoWindow ELSE s[i - 1]
  BY DEF Strung, Linked
<1>1. PICK w \in WindowBlocks : w = s[p]
  BY <1>t
<1>2. s[k] \in WindowBlocks
  BY <1>t
<1>3. PICK u : u = Unlinked(l, w)
  OBVIOUS
<1>4. \A v \in WindowBlocks :
        /\ u.win[v].next = IF v = l.win[w].prev THEN l.win[w].next ELSE l.win[v].next
        /\ u.win[v].prev = IF v = l.win[w].next THEN l.win[w].prev ELSE l.win[v].prev
  BY <1>3, UnlinkedEffect
<1>5. s[k] = l.win[w].prev <=> k = p - 1
  BY <1>1, <1>2, <1>l, <1>t, NoSuchBlock
<1>6. s[k] = l.win[w].next <=> k = p + 1
  BY <1>1, <1>2, <1>l, <1>t, NoSuchBlock
<1>7. u.win[s[k]].next = IF k = p - 1 THEN l.win[w].next ELSE l.win[s[k]].next
  BY <1>2, <1>4, <1>5
<1>8. u.win[s[k]].prev = IF k = p + 1 THEN l.win[w].prev ELSE l.win[s[k]].prev
  BY <1>2, <1>4, <1>6
<1>9. /\ u.win[s[k]].next = IF k = p - 1 THEN IF p = n THEN NoWindow ELSE s[p + 1]
                            ELSE IF k = n THEN NoWindow ELSE s[k + 1]
      /\ u.win[s[k]].prev = IF k = p + 1 THEN IF p = 1 THEN NoWindow ELSE s[p - 1]
                            ELSE IF k = 1 THEN NoWindow ELSE s[k - 1]
  BY <1>1, <1>7, <1>8, <1>l
<1>. QED
  BY <1>1, <1>3, <1>9

\* gui_destroy_window: the others close up.
LEMMA DestroyedStrung ==
  ASSUME NEW l \in Lists, NEW s, NEW n \in Nat, Strung(l, s, n), NEW w \in l.live
  PROVE  n - 1 \in Nat /\ \E t : Strung(Destroyed(l, w), t, n - 1)
<1>t. /\ s \in [1 .. n -> WindowBlocks]
      /\ \A i, j \in 1 .. n : s[i] = s[j] => i = j
      /\ \A v \in WindowBlocks : v \in l.live <=> \E i \in 1 .. n : s[i] = v
  BY DEF Strung, Threads
<1>l. /\ l.head = IF n = 0 THEN NoWindow ELSE s[1]
      /\ l.tail = IF n = 0 THEN NoWindow ELSE s[n]
      /\ \A i \in 1 .. n : l.win[s[i]].next = IF i = n THEN NoWindow ELSE s[i + 1]
      /\ \A i \in 1 .. n : l.win[s[i]].prev = IF i = 1 THEN NoWindow ELSE s[i - 1]
  BY DEF Strung, Linked
<1>p. /\ l.win \in [WindowBlocks -> Records] /\ l.head \in Links /\ l.tail \in Links
      /\ l.live \subseteq WindowBlocks
  BY ListParts
<1>1. PICK p \in 1 .. n : s[p] = w
  BY <1>t, <1>p
<1>w. w \in WindowBlocks
  BY <1>p
<1>. DEFINE t == [i \in 1 .. n - 1 |-> IF i < p THEN s[i] ELSE s[i + 1]]
<1>2. /\ t \in [1 .. n - 1 -> WindowBlocks]
      /\ \A i \in 1 .. n - 1 : t[i] = IF i < p THEN s[i] ELSE s[i + 1]
  <2>1. ASSUME NEW i \in 1 .. n - 1 PROVE i \in 1 .. n /\ i + 1 \in 1 .. n
    OBVIOUS
  <2>. QED
    BY <2>1, <1>t
<1>. HIDE DEF t
<1>3. PICK u : u = Unlinked(l, w)
  OBVIOUS
<1>4. /\ u \in Lists
      /\ u.live = l.live /\ u.tail = l.tail
      /\ u.head = IF l.head = w THEN l.win[w].next ELSE l.head
      /\ \A v \in WindowBlocks :
           /\ u.win[v].next = IF v = l.win[w].prev THEN l.win[w].next ELSE l.win[v].next
           /\ u.win[v].prev = IF v = l.win[w].next THEN l.win[w].prev ELSE l.win[v].prev
  BY <1>3, <1>w, UnlinkedEffect
<1>5. PICK m : m = Destroyed(l, w)
  OBVIOUS
<1>6. /\ m \in Lists
      /\ m.live = l.live \ {w}
      /\ m.tail = IF l.tail = w THEN l.win[w].prev ELSE l.tail
      /\ m.head = u.head
      /\ \A v \in WindowBlocks \ {w} : m.win[v] = u.win[v]
  <2>1. m = [u EXCEPT !.tail = IF @ = w THEN l.win[w].prev ELSE @,
                      !.live = @ \ {w}, !.win[w] = NoBlock]
    BY <1>3, <1>5 DEF Destroyed
  <2>2. /\ u.win \in [WindowBlocks -> Records] /\ u.head \in Links /\ u.tail \in Links
        /\ u.live \subseteq WindowBlocks
        /\ u = [win |-> u.win, head |-> u.head, tail |-> u.tail, live |-> u.live]
    BY <1>4, ListParts
  <2>3. l.win[w].prev \in Links
    BY <1>w, ListParts
  <2>4. PICK blank : blank = [u.win EXCEPT ![w] = NoBlock]
    OBVIOUS
  <2>5. blank \in [WindowBlocks -> Records] /\ \A v \in WindowBlocks \ {w} : blank[v] = u.win[v]
    BY <2>2, <2>4 DEF Records, Links, NoBlock
  <2>6. m = [win |-> blank, head |-> u.head,
             tail |-> IF u.tail = w THEN l.win[w].prev ELSE u.tail, live |-> u.live \ {w}]
    BY <2>1, <2>2, <2>4
  <2>. QED
    BY <2>2, <2>3, <2>5, <2>6, <1>4 DEF Lists
<1>7. Threads(m, t, n - 1)
  <2>1. ASSUME NEW i \in 1 .. n - 1, NEW j \in 1 .. n - 1, t[i] = t[j] PROVE i = j
    BY <2>1, <1>2, <1>t
  <2>2. ASSUME NEW v \in WindowBlocks
        PROVE  v \in m.live <=> \E i \in 1 .. n - 1 : t[i] = v
    <3>1. ASSUME NEW i \in 1 .. n - 1 PROVE t[i] \in m.live
      <4>1. PICK k \in 1 .. n : k # p /\ t[i] = s[k]
        BY <1>2
      <4>2. s[k] # w /\ s[k] \in l.live
        BY <4>1, <1>1, <1>t
      <4>. QED
        BY <4>1, <4>2, <1>6
    <3>2. ASSUME v \in m.live PROVE \E i \in 1 .. n - 1 : t[i] = v
      <4>1. PICK k \in 1 .. n : s[k] = v
        BY <3>2, <1>6, <1>t
      <4>2. k # p
        BY <4>1, <3>2, <1>1, <1>6
      <4>3. CASE k < p
        <5>1. k \in 1 .. n - 1
          BY <4>3
        <5>. QED
          BY <5>1, <4>1, <4>3, <1>2
      <4>4. CASE k > p
        <5>1. k - 1 \in 1 .. n - 1 /\ ~(k - 1 < p) /\ (k - 1) + 1 = k
          BY <4>4
        <5>2. t[k - 1] = s[k]
          BY <5>1, <1>2
        <5>. QED
          BY <5>1, <5>2, <4>1
      <4>. QED
        BY <4>2, <4>3, <4>4
    <3>. QED
      BY <3>1, <3>2
  <2>. QED
    BY <2>1, <2>2, <1>2 DEF Threads
<1>8. ASSUME NEW k \in 1 .. n, k # p
      PROVE  /\ s[k] \in WindowBlocks \ {w}
             /\ m.win[s[k]].next = IF k = p - 1 THEN IF p = n THEN NoWindow ELSE s[p + 1]
                                   ELSE IF k = n THEN NoWindow ELSE s[k + 1]
             /\ m.win[s[k]].prev = IF k = p + 1 THEN IF p = 1 THEN NoWindow ELSE s[p - 1]
                                   ELSE IF k = 1 THEN NoWindow ELSE s[k - 1]
  <2>1. s[k] \in WindowBlocks \ {w}
    BY <1>8, <1>1, <1>t
  <2>2. m.win[s[k]] = u.win[s[k]]
    BY <2>1, <1>6
  <2>. QED
    BY <2>1, <2>2, <1>1, <1>3, <1>8, OthersLinked
<1>9. Linked(m, t, n - 1)
  <2>1. m.head = IF n - 1 = 0 THEN NoWindow ELSE t[1]
    <3>1. l.head = w <=> p = 1
      BY <1>1, <1>l, <1>t
    <3>2. CASE p = 1
      <4>1. m.head = IF n = 1 THEN NoWindow ELSE s[2]
        BY <3>1, <3>2, <1>1, <1>4, <1>6, <1>l
      <4>2. n # 1 => t[1] = s[2]
        BY <3>2, <1>2
      <4>. QED
        BY <4>1, <4>2
    <3>3. CASE p # 1
      BY <3>1, <3>3, <1>1, <1>2, <1>4, <1>6, <1>l
    <3>. QED
      BY <3>2, <3>3
  <2>2. m.tail = IF n - 1 = 0 THEN NoWindow ELSE t[n - 1]
    <3>1. l.tail = w <=> p = n
      BY <1>1, <1>l, <1>t
    <3>2. CASE p = n
      BY <3>1, <3>2, <1>1, <1>2, <1>6, <1>l
    <3>3. CASE p # n
      <4>1. n - 1 \in 1 .. n - 1 /\ ~(n - 1 < p) /\ (n - 1) + 1 = n
        BY <3>3
      <4>2. t[n - 1] = s[n]
        BY <4>1, <1>2
      <4>. QED
        BY <3>1, <3>3, <4>1, <4>2, <1>6, <1>l
    <3>. QED
      BY <3>2, <3>3
  <2>3. ASSUME NEW i \in 1 .. n - 1
        PROVE  /\ m.win[t[i]].next = IF i = n - 1 THEN NoWindow ELSE t[i + 1]
               /\ m.win[t[i]].prev = IF i = 1 THEN NoWindow ELSE t[i - 1]
    <3>1. CASE i < p
      <4>1. i \in 1 .. n /\ i # p /\ t[i] = s[i]
        BY <3>1, <1>2
      <4>2. i # n - 1 => t[i + 1] = IF i = p - 1 THEN s[p + 1] ELSE s[i + 1]
        BY <3>1, <1>2
      <4>3. i # 1 => t[i - 1] = s[i - 1]
        BY <3>1, <1>2
      <4>4. m.win[t[i]].next = IF i = n - 1 THEN NoWindow ELSE t[i + 1]
        BY <3>1, <4>1, <4>2, <1>8
      <4>5. m.win[t[i]].prev = IF i = 1 THEN NoWindow ELSE t[i - 1]
        BY <3>1, <4>1, <4>3, <1>8
      <4>. QED
        BY <4>4, <4>5
    <3>2. CASE ~(i < p)
      <4>1. i + 1 \in 1 .. n /\ i + 1 # p /\ t[i] = s[i + 1]
        BY <3>2, <1>2
      <4>2. i # n - 1 => t[i + 1] = s[i + 1 + 1]
        BY <3>2, <1>2
      <4>3. i # 1 => t[i - 1] = IF i = p THEN s[p - 1] ELSE s[i]
        BY <3>2, <1>2
      <4>4. PICK k \in 1 .. n : k = i + 1
        BY <4>1
      <4>5. m.win[t[i]].next = IF i = n - 1 THEN NoWindow ELSE t[i + 1]
        BY <3>2, <4>1, <4>2, <4>4, <1>8
      <4>6. m.win[t[i]].prev = IF i = 1 THEN NoWindow ELSE t[i - 1]
        BY <3>2, <4>1, <4>3, <4>4, <1>8
      <4>. QED
        BY <4>5, <4>6
    <3>. QED
      BY <3>1, <3>2
  <2>. QED
    BY <2>1, <2>2, <2>3 DEF Linked
<1>. QED
  BY <1>1, <1>5, <1>6, <1>7, <1>9 DEF Strung

\* gui_bring_to_front: the window moves behind all others, which close up.
LEMMA RaisedStrung ==
  ASSUME NEW l \in Lists, NEW s, NEW n \in Nat, Strung(l, s, n), NEW w \in l.live,
         w # l.tail
  PROVE  /\ \E t : Strung(Raised(l, w), t, n)
         /\ Raised(l, w).live = l.live
<1>t. /\ s \in [1 .. n -> WindowBlocks]
      /\ \A i, j \in 1 .. n : s[i] = s[j] => i = j
      /\ \A v \in WindowBlocks : v \in l.live <=> \E i \in 1 .. n : s[i] = v
  BY DEF Strung, Threads
<1>l. /\ l.head = IF n = 0 THEN NoWindow ELSE s[1]
      /\ l.tail = IF n = 0 THEN NoWindow ELSE s[n]
      /\ \A i \in 1 .. n : l.win[s[i]].next = IF i = n THEN NoWindow ELSE s[i + 1]
      /\ \A i \in 1 .. n : l.win[s[i]].prev = IF i = 1 THEN NoWindow ELSE s[i - 1]
  BY DEF Strung, Linked
<1>w. w \in WindowBlocks /\ l.live \subseteq WindowBlocks
  BY ListParts
<1>1. PICK p \in 1 .. n : s[p] = w
  BY <1>t, <1>w
<1>n. p \in 1 .. n - 1 /\ n \in 1 .. n /\ n # 0 /\ l.tail = s[n] /\ s[n] \in WindowBlocks
  BY <1>1, <1>l, <1>t
<1>. DEFINE t == [i \in 1 .. n |-> IF i < p THEN s[i] ELSE IF i = n THEN w ELSE s[i + 1]]
<1>2. /\ t \in [1 .. n -> WindowBlocks]
      /\ \A i \in 1 .. n : t[i] = IF i < p THEN s[i] ELSE IF i = n THEN w ELSE s[i + 1]
  <2>1. ASSUME NEW i \in 1 .. n PROVE i # n => i + 1 \in 1 .. n
    OBVIOUS
  <2>. QED
    BY <2>1, <1>t, <1>w
<1>. HIDE DEF t
<1>3. PICK u : u = Unlinked(l, w)
  OBVIOUS
<1>4. /\ u \in Lists
      /\ u.live = l.live /\ u.tail = l.tail
      /\ u.head = IF l.head = w THEN l.win[w].next ELSE l.head
  BY <1>3, <1>w, UnlinkedEffect
<1>5. PICK m : m = Raised(l, w)
  OBVIOUS
<1>h. u.head # NoWindow /\ u.head = IF p = 1 THEN s[2] ELSE s[1]
  <2>1. l.head = w <=> p = 1
    BY <1>1, <1>l, <1>t, <1>n
  <2>2. u.head = IF p = 1 THEN s[2] ELSE s[1]
    BY <2>1, <1>1, <1>4, <1>l, <1>n
  <2>3. 1 \in 1 .. n /\ 2 \in 1 .. n
    BY <1>n
  <2>. QED
    BY <2>2, <2>3, <1>t, NoSuchBlock
<1>6. /\ m \in Lists
      /\ m.live = l.live /\ m.tail = w /\ m.head = u.head
      /\ m.win[w].next = NoWindow /\ m.win[w].prev = s[n]
      /\ \A v \in WindowBlocks \ {w} :
           /\ m.win[v].next = IF v = s[n] THEN w ELSE u.win[v].next
           /\ m.win[v].prev = u.win[v].prev
  <2>1. m = [u EXCEPT !.win[w].next = NoWindow, !.win[w].prev = u.tail,
                      !.win[u.tail].next = w, !.tail = w,
                      !.head = IF @ = NoWindow THEN w ELSE @]
    BY <1>3, <1>5 DEF Raised
  <2>2. /\ u.win \in [WindowBlocks -> Records] /\ u.head \in Links /\ u.tail \in Links
        /\ u.live \subseteq WindowBlocks
        /\ u = [win |-> u.win, head |-> u.head, tail |-> u.tail, live |-> u.live]
    BY <1>4, ListParts
  <2>3. PICK win : win = [u.win EXCEPT ![w].next = NoWindow, ![w].prev = s[n], ![s[n]].next = w]
    OBVIOUS
  <2>4. s[n] # w
    BY <1>n, <1>1, <1>t
  <2>5. /\ win \in [WindowBlocks -> Records]
        /\ win[w].next = NoWindow /\ win[w].prev = s[n]
        /\ \A v \in WindowBlocks \ {w} :
             /\ win[v].next = IF v = s[n] THEN w ELSE u.win[v].next
             /\ win[v].prev = u.win[v].prev
    BY <2>2, <2>3, <2>4, <1>n, <1>w, SMTT(40) DEF Records, Links
  <2>6. m = [win |-> win, head |-> u.head, tail |-> w, live |-> u.live]
    BY <2>1, <2>2, <2>3, <1>4, <1>h, <1>n
  <2>. QED
    BY <2>2, <2>5, <2>6, <1>4, <1>w DEF Lists, Links
<1>7. Threads(m, t, n)
  <2>1. ASSUME NEW i \in 1 .. n, NEW j \in 1 .. n, t[i] = t[j] PROVE i = j
    BY <2>1, <1>1, <1>2, <1>t, <1>n
  <2>2. ASSUME NEW v \in WindowBlocks
        PROVE  v \in m.live <=> \E i \in 1 .. n : t[i] = v
    <3>1. ASSUME NEW i \in 1 .. n PROVE t[i] \in m.live
      <4>1. PICK k \in 1 .. n : t[i] = s[k]
        BY <1>1, <1>2, <1>n
      <4>. QED
        BY <4>1, <1>6, <1>t
    <3>2. ASSUME v \in m.live PROVE \E i \in 1 .. n : t[i] = v
      <4>1. PICK k \in 1 .. n : s[k] = v
        BY <3>2, <1>6, <1>t
      <4>2. CASE k = p
        BY <4>1, <4>2, <1>1, <1>2, <1>n
      <4>3. CASE k < p
        BY <4>1, <4>3, <1>2
      <4>4. CASE k > p
        <5>1. k - 1 \in 1 .. n /\ ~(k - 1 < p) /\ (k - 1) + 1 = k /\ k - 1 # n
          BY <4>4
        <5>2. t[k - 1] = s[k]
          BY <5>1, <1>2
        <5>. QED
          BY <5>1, <5>2, <4>1
      <4>. QED
        BY <4>2, <4>3, <4>4
    <3>. QED
      BY <3>1, <3>2
  <2>. QED
    BY <2>1, <2>2, <1>2 DEF Threads
<1>8. ASSUME NEW k \in 1 .. n, k # p
      PROVE  /\ s[k] \in WindowBlocks \ {w}
             /\ m.win[s[k]].next = IF k = n THEN w ELSE IF k = p - 1 THEN s[p + 1] ELSE s[k + 1]
             /\ m.win[s[k]].prev = IF k = p + 1 THEN IF p = 1 THEN NoWindow ELSE s[p - 1]
                                   ELSE IF k = 1 THEN NoWindow ELSE s[k - 1]
  <2>1. s[k] \in WindowBlocks \ {w}
    BY <1>8, <1>1, <1>t
  <2>2. s[k] = s[n] <=> k = n
    BY <1>t, <1>n
  <2>3. /\ m.win[s[k]].next = IF k = n THEN w ELSE u.win[s[k]].next
        /\ m.win[s[k]].prev = u.win[s[k]].prev
    BY <2>1, <2>2, <1>6
  <2>4. /\ u.win[s[k]].next = IF k = p - 1 THEN IF p = n THEN NoWindow ELSE s[p + 1]
                              ELSE IF k = n THEN NoWindow ELSE s[k + 1]
        /\ u.win[s[k]].prev = IF k = p + 1 THEN IF p = 1 THEN NoWindow ELSE s[p - 1]
                              ELSE IF k = 1 THEN NoWindow ELSE s[k - 1]
    BY <1>1, <1>3, <1>8, OthersLinked
  <2>. QED
    BY <2>1, <2>3, <2>4, <1>n
<1>9. Linked(m, t, n)
  <2>1. m.head = t[1]
    BY <1>2, <1>6, <1>h, <1>n
  <2>2. m.tail = t[n]
    BY <1>2, <1>6, <1>n
  <2>3. ASSUME NEW i \in 1 .. n
        PROVE  /\ m.win[t[i]].next = IF i = n THEN NoWindow ELSE t[i + 1]
               /\ m.win[t[i]].prev = IF i = 1 THEN NoWindow ELSE t[i - 1]
    <3>0. CASE i = n
      <4>1. t[n] = w /\ t[n - 1] = s[n]
        BY <1>2, <1>n
      <4>. QED
        BY <3>0, <4>1, <1>6, <1>n
    <3>1. CASE i < p
      <4>1. i \in 1 .. n /\ i # p /\ t[i] = s[i]
        BY <3>1, <1>2
      <4>2. t[i + 1] = IF i = p - 1 THEN s[p + 1] ELSE s[i + 1]
        BY <3>1, <1>2, <1>n
      <4>3. i # 1 => t[i - 1] = s[i - 1]
        BY <3>1, <1>2
      <4>4. m.win[t[i]].next = IF i = n THEN NoWindow ELSE t[i + 1]
        BY <3>1, <4>1, <4>2, <1>8, <1>n
      <4>5. m.win[t[i]].prev = IF i = 1 THEN NoWindow ELSE t[i - 1]
        BY <3>1, <4>1, <4>3, <1>8
      <4>. QED
        BY <4>4, <4>5
    <3>2. CASE ~(i < p) /\ i # n
      <4>1. i + 1 \in 1 .. n /\ i + 1 # p /\ t[i] = s[i + 1]
        BY <3>2, <1>2
      <4>2. t[i + 1] = IF i + 1 = n THEN w ELSE s[i + 1 + 1]
        BY <3>2, <1>2
      <4>3. i # 1 => t[i - 1] = IF i = p THEN s[p - 1] ELSE s[i]
        BY <3>2, <1>2
      <4>4. PICK k \in 1 .. n : k = i + 1
        BY <4>1
      <4>5. m.win[t[i]].next = IF i = n THEN NoWindow ELSE t[i + 1]
        BY <3>2, <4>1, <4>2, <4>4, <1>8
      <4>6. m.win[t[i]].prev = IF i = 1 THEN NoWindow ELSE t[i - 1]
        BY <3>2, <4>1, <4>3, <4>4, <1>8
      <4>. QED
        BY <4>5, <4>6
    <3>. QED
      BY <3>0, <3>1, <3>2
  <2>. QED
    BY <2>1, <2>2, <2>3, <1>n DEF Linked
<1>. QED
  BY <1>5, <1>6, <1>7, <1>9 DEF Strung

\* A list is as long as there are windows, and no longer than there are blocks.
LEMMA StrungCount ==
  ASSUME NEW l \in Lists, NEW s, NEW n \in Nat, Strung(l, s, n)
  PROVE  Cardinality(l.live) = n /\ n <= Cardinality(WindowBlocks)
<1>t. /\ s \in [1 .. n -> WindowBlocks]
      /\ \A i, j \in 1 .. n : s[i] = s[j] => i = j
      /\ \A v \in WindowBlocks : v \in l.live <=> \E i \in 1 .. n : s[i] = v
  BY DEF Strung, Threads
<1>w. l.live \in SUBSET WindowBlocks
  BY ListParts
<1>1. s \in [1 .. n -> l.live]
  BY <1>t
<1>2. IsInjective(s)
  BY <1>t DEF IsInjective
<1>3. s \in Injection(1 .. n, l.live)
  BY <1>1, <1>2, Zenon DEF Injection
<1>4. s \in Surjection(1 .. n, l.live)
  BY <1>1, <1>t, <1>w DEF Surjection
<1>5. ExistsBijection(1 .. n, l.live)
  BY <1>3, <1>4, Zenon DEF ExistsBijection, Bijection
<1>6. IsFiniteSet(1 .. n) /\ Cardinality(1 .. n) = n
  <2>1. /\ IsFiniteSet(1 .. n)
        /\ Cardinality(1 .. n) = IF 1 > n THEN 0 ELSE n - 1 + 1
    BY FS_Interval
  <2>. QED
    BY <2>1
<1>7. Cardinality(l.live) = n
  BY <1>5, <1>6, FS_Bijection
<1>8. Cardinality(l.live) <= Cardinality(WindowBlocks)
  BY <1>w, NoSuchBlock, FS_Subset
<1>. QED
  BY <1>7, <1>8

\* The search for a click has seen the last m windows, and goes on to the next.
Seen(s, n, m) == [i \in 1 .. m |-> s[n - i + 1]]
SearchOn(l, seen) ==
  IF seen = <<>> \/ l.win[Last(seen)].prev = NoWindow THEN seen
  ELSE Append(seen, l.win[Last(seen)].prev)

\* What the search has seen is a sequence of m windows.
LEMMA SeenParts ==
  ASSUME NEW n \in Nat, NEW s \in [1 .. n -> WindowBlocks], NEW m \in 0 .. n
  PROVE  /\ Seen(s, n, m) \in Seq(WindowBlocks) /\ Len(Seen(s, n, m)) = m
         /\ \A i \in 1 .. m : n - i + 1 \in 1 .. n /\ Seen(s, n, m)[i] = s[n - i + 1]
<1>. DEFINE f == Seen(s, n, m)
<1>1. ASSUME NEW i \in 1 .. m PROVE n - i + 1 \in 1 .. n /\ s[n - i + 1] \in WindowBlocks
  OBVIOUS
<1>2. f \in [1 .. m -> WindowBlocks] /\ \A i \in 1 .. m : f[i] = s[n - i + 1]
  BY <1>1 DEF Seen
<1>. HIDE DEF f
<1>3. m \in Nat
  OBVIOUS
<1>4. f \in Seq(WindowBlocks) /\ Len(f) = m
  BY <1>2, <1>3
<1>. QED
  BY <1>1, <1>2, <1>4 DEF f

\* One turn of the search: the window before the last one seen, if there is one.
LEMMA SearchTurn ==
  ASSUME NEW l \in Lists, NEW s, NEW n \in Nat, Strung(l, s, n), NEW m \in 0 .. n,
         m = 0 => n = 0
  PROVE  SearchOn(l, Seen(s, n, m)) = Seen(s, n, IF m = n THEN n ELSE m + 1)
<1>t. s \in [1 .. n -> WindowBlocks]
  BY DEF Strung, Threads
<1>l. \A i \in 1 .. n : l.win[s[i]].prev = IF i = 1 THEN NoWindow ELSE s[i - 1]
  BY DEF Strung, Linked
<1>1. PICK f : f = Seen(s, n, m)
  OBVIOUS
<1>2. /\ f \in Seq(WindowBlocks) /\ Len(f) = m
      /\ \A i \in 1 .. m : f[i] = s[n - i + 1]
  BY <1>1, <1>t, SeenParts
<1>3. CASE m = 0
  <2>1. f = <<>> /\ n = 0
    BY <1>2, <1>3
  <2>. QED
    BY <2>1, <1>1, <1>3 DEF SearchOn
<1>4. CASE m # 0
  <2>1. f # <<>> /\ m \in 1 .. m /\ n - m + 1 \in 1 .. n
    BY <1>2, <1>4
  <2>2. Last(f) = s[n - m + 1]
    BY <1>2, <2>1 DEF Last
  <2>3. l.win[Last(f)].prev = IF m = n THEN NoWindow ELSE s[n - m]
    <3>1. PICK k \in 1 .. n : k = n - m + 1
      BY <2>1
    <3>2. (k = 1 <=> m = n) /\ k - 1 = n - m
      BY <3>1
    <3>. QED
      BY <3>1, <3>2, <2>2, <1>l
  <2>4. CASE m = n
    BY <2>1, <2>3, <2>4, <1>1 DEF SearchOn
  <2>5. CASE m # n
    <3>1. PICK x \in WindowBlocks : x = s[n - m]
      BY <2>5, <1>t
    <3>2. SearchOn(l, f) = Append(f, x)
      BY <2>1, <2>3, <2>5, <3>1, NoSuchBlock DEF SearchOn
    <3>3. /\ Append(f, x) \in Seq(WindowBlocks) /\ Len(Append(f, x)) = m + 1
          /\ \A i \in 1 .. m : Append(f, x)[i] = f[i]
          /\ Append(f, x)[m + 1] = x
      BY <1>2
    <3>4. PICK g : g = Seen(s, n, m + 1)
      OBVIOUS
    <3>5. /\ g \in Seq(WindowBlocks) /\ Len(g) = m + 1
          /\ \A i \in 1 .. m + 1 : g[i] = s[n - i + 1]
      <4>1. m + 1 \in 0 .. n
        BY <2>5
      <4>. QED
        BY <4>1, <3>4, <1>t, SeenParts
    <3>6. ASSUME NEW i \in 1 .. m + 1 PROVE Append(f, x)[i] = g[i]
      <4>1. CASE i = m + 1
        <5>1. n - i + 1 = n - m
          BY <4>1
        <5>. QED
          BY <4>1, <5>1, <3>1, <3>3, <3>5
      <4>2. CASE i # m + 1
        <5>1. i \in 1 .. m
          BY <4>2
        <5>. QED
          BY <5>1, <3>3, <3>5, <1>2
      <4>. QED
        BY <4>1, <4>2
    <3>7. Append(f, x) = g
      BY <3>3, <3>5, <3>6, SeqEqual
    <3>. QED
      BY <2>5, <3>2, <3>4, <3>7, <1>1
  <2>. QED
    BY <2>4, <2>5
<1>. QED
  BY <1>3, <1>4

\* The search goes through all windows, from the front to the back.
LEMMA SearchOrder ==
  ASSUME NEW l \in Lists, NEW s, NEW n \in Nat, Strung(l, s, n)
  PROVE  FrontToBack(l) = Seen(s, n, n)
<1>. DEFINE N == Cardinality(WindowBlocks)
            start == IF l.tail = NoWindow THEN <<>> ELSE <<l.tail>>
            Turn(f) == [k \in 0 .. N |-> IF k = 0 THEN start
                          ELSE IF f[k - 1] = <<>> \/ l.win[Last(f[k - 1])].prev = NoWindow
                               THEN f[k - 1]
                               ELSE Append(f[k - 1], l.win[Last(f[k - 1])].prev)]
            far(k) == IF k + 1 <= n THEN k + 1 ELSE n
            g == [k \in 0 .. N |-> Seen(s, n, far(k))]
<1>1. N \in Nat /\ n <= N
  BY NoSuchBlock, FS_CardinalityType, StrungCount
<1>t. s \in [1 .. n -> WindowBlocks]
  BY DEF Strung, Threads
<1>2. start = Seen(s, n, far(0))
  <2>1. l.tail = IF n = 0 THEN NoWindow ELSE s[n]
    BY DEF Strung, Linked
  <2>2. CASE n = 0
    <3>1. Seen(s, n, 0) \in Seq(WindowBlocks) /\ Len(Seen(s, n, 0)) = 0
      BY <1>t, SeenParts
    <3>2. Seen(s, n, 0) = <<>>
      BY <3>1
    <3>. QED
      BY <2>1, <2>2, <3>2
  <2>3. CASE n # 0
    <3>0. n \in 1 .. n /\ 1 \in 0 .. n /\ n - 1 + 1 = n
      BY <2>3
    <3>1. s[n] \in WindowBlocks /\ s[n] # NoWindow
      BY <3>0, <1>t, NoSuchBlock
    <3>2. PICK f : f = Seen(s, n, 1)
      OBVIOUS
    <3>3. f \in Seq(WindowBlocks) /\ Len(f) = 1 /\ f[1] = s[n]
      <4>1. /\ f \in Seq(WindowBlocks) /\ Len(f) = 1
            /\ \A i \in 1 .. 1 : f[i] = s[n - i + 1]
        BY <3>0, <3>2, <1>t, SeenParts
      <4>2. f[1] = s[n - 1 + 1]
        BY <4>1
      <4>. QED
        BY <4>1, <4>2, <3>0
    <3>4. f = <<s[n]>>
      BY <3>3
    <3>5. far(0) = 1
      BY <2>3
    <3>. QED
      BY <2>1, <2>3, <3>1, <3>2, <3>4, <3>5
  <2>. QED
    BY <2>2, <2>3
<1>3. ASSUME NEW k \in 1 .. N
      PROVE  SearchOn(l, Seen(s, n, far(k - 1))) = Seen(s, n, far(k))
  <2>1. /\ far(k - 1) \in 0 .. n /\ (far(k - 1) = 0 => n = 0)
        /\ far(k) = IF far(k - 1) = n THEN n ELSE far(k - 1) + 1
    BY <1>1
  <2>. HIDE DEF far
  <2>. QED
    BY <2>1, SearchTurn
<1>. HIDE DEF N, start
<1>4. g = Turn(g)
  <2>1. ASSUME NEW k \in 0 .. N PROVE g[k] = Turn(g)[k]
    <3>1. CASE k = 0
      BY <3>1, <1>1, <1>2
    <3>2. CASE k # 0
      <4>1. k \in 1 .. N /\ k - 1 \in 0 .. N
        BY <3>2, <1>1
      <4>2. g[k - 1] = Seen(s, n, far(k - 1)) /\ g[k] = Seen(s, n, far(k))
        BY <4>1
      <4>. HIDE DEF g, far
      <4>3. Turn(g)[k] = SearchOn(l, g[k - 1])
        BY <3>2 DEF SearchOn
      <4>. QED
        BY <4>1, <4>2, <4>3, <1>3
    <3>. QED
      BY <3>1, <3>2
  <2>. QED
    BY <2>1
<1>5. PICK h : h = Turn(h) /\ FrontToBack(l) = h[N]
  <2>. DEFINE c == CHOOSE f : f = Turn(f)
  <2>1. c = Turn(c)
    BY <1>4
  <2>2. FrontToBack(l) = c[N]
    BY DEF FrontToBack, N, start
  <2>. QED
    BY <2>1, <2>2
<1>. DEFINE A == {k \in 0 .. N : h[k] = Seen(s, n, far(k))}
<1>6. 0 \in A
  BY <1>1, <1>2, <1>5
<1>7. ASSUME NEW k \in 1 .. N, k - 1 \in A PROVE k \in A
  <2>1. h[k - 1] = Seen(s, n, far(k - 1)) /\ k \in 0 .. N /\ k # 0
    BY <1>7, <1>1
  <2>. HIDE DEF far
  <2>2. h[k] = SearchOn(l, h[k - 1])
    BY <2>1, <1>5 DEF SearchOn
  <2>. QED
    BY <2>1, <2>2, <1>3
<1>. HIDE DEF A
<1>8. N \in A
  <2>1. 0 .. N \subseteq A
    BY <1>1, <1>6, <1>7, Counting, Zenon
  <2>. QED
    BY <2>1, <1>1
<1>9. far(N) = n
  BY <1>1
<1>. QED
  BY <1>5, <1>8, <1>9 DEF A

\* The list read from the back, as the windows are drawn.
LEMMA DrawOrder ==
  ASSUME NEW l \in Lists, NEW s, NEW n \in Nat, Strung(l, s, n)
  PROVE  /\ Reverse(FrontToBack(l)) = s
         /\ Len(s) = n
         /\ ToSet(s) = l.live
<1>t. /\ s \in [1 .. n -> WindowBlocks]
      /\ \A v \in WindowBlocks : v \in l.live <=> \E i \in 1 .. n : s[i] = v
      /\ l.live \subseteq WindowBlocks
  BY ListParts DEF Strung, Threads
<1>1. PICK f : f = FrontToBack(l)
  OBVIOUS
<1>2. /\ f \in Seq(WindowBlocks) /\ Len(f) = n
      /\ \A i \in 1 .. n : n - i + 1 \in 1 .. n /\ f[i] = s[n - i + 1]
  <2>1. n \in 0 .. n /\ f = Seen(s, n, n)
    BY <1>1, SearchOrder
  <2>. QED
    BY <1>t, <2>1, SeenParts
<1>3. Reverse(f) = [i \in 1 .. n |-> f[(n - i) + 1]]
  BY <1>2 DEF Reverse
<1>4. ASSUME NEW i \in 1 .. n PROVE f[(n - i) + 1] = s[i]
  <2>1. PICK k \in 1 .. n : k = (n - i) + 1
    OBVIOUS
  <2>2. n - k + 1 = i
    BY <2>1
  <2>. QED
    BY <2>1, <2>2, <1>2
<1>5. Reverse(f) = s
  BY <1>3, <1>4, <1>t
<1>6. Len(s) = n
  BY <1>t
<1>7. ToSet(s) = l.live
  BY <1>t DEF ToSet
<1>. QED
  BY <1>1, <1>5, <1>6, <1>7

\* A click hits one of the windows under it.
LEMMA HitUnder ==
  ASSUME NEW l \in Lists, NEW s, NEW n \in Nat, Strung(l, s, n),
         NEW under \in SUBSET l.live, under # {}
  PROVE  Hit(l, under) \in under
<1>t. /\ s \in [1 .. n -> WindowBlocks]
      /\ \A v \in WindowBlocks : v \in l.live <=> \E i \in 1 .. n : s[i] = v
      /\ l.live \subseteq WindowBlocks
  BY ListParts DEF Strung, Threads
<1>1. PICK f : f = FrontToBack(l)
  OBVIOUS
<1>2. /\ f \in Seq(WindowBlocks) /\ Len(f) = n
      /\ \A i \in 1 .. n : n - i + 1 \in 1 .. n /\ f[i] = s[n - i + 1]
  <2>1. n \in 0 .. n /\ f = Seen(s, n, n)
    BY <1>1, SearchOrder
  <2>. QED
    BY <1>t, <2>1, SeenParts
<1>. DEFINE K == {k \in DOMAIN f : f[k] \in under}
<1>3. DOMAIN f = 1 .. n
  BY <1>2
<1>4. K # {}
  <2>1. PICK v \in under : TRUE
    OBVIOUS
  <2>2. PICK j \in 1 .. n : s[j] = v
    BY <1>t
  <2>3. PICK k \in 1 .. n : k = n - j + 1
    OBVIOUS
  <2>4. n - k + 1 = j
    BY <2>3
  <2>5. f[k] = v
    BY <2>2, <2>3, <2>4, <1>2
  <2>. QED
    BY <2>5, <1>3
<1>5. K \subseteq Nat
  BY <1>3
<1>6. Min(K) \in K
  <2>. HIDE DEF K
  <2>1. \E m \in K : \A y \in K : m <= y
    BY <1>4, <1>5, Least
  <2>. QED
    BY <2>1 DEF Min
<1>7. Hit(l, under) = f[Min(K)]
  BY <1>1 DEF Hit
<1>. QED
  BY <1>6, <1>7

\* The frame being drawn, of the n windows s: graphics_task is on the window after the
\* ones it has drawn, unless the list changed under it, and then on some window, unless
\* that one was closed.
Drawing(s, n) ==
  /\ drawn \in Nat
  /\ ~changed /\ curr # NoWindow => drawn + 1 \in 1 .. n /\ s[drawn + 1] = curr
  /\ ~torn /\ curr # NoWindow => curr \in live
  /\ torn => changed

Dragging == dragged_window # NoWindow => dragged_window \in live /\ last_buttons

\* The invariant: the blocks in use are strung into one list.
WindowsInv ==
  /\ \E s, n : Strung(List, s, n) /\ Drawing(s, n)
  /\ Dragging
  /\ ~vbe_active => curr = NoWindow /\ dragged_window = NoWindow

\* What the interrupt leaves of the list is sound, for the frame being drawn too.
LEMMA BecomesInv ==
  ASSUME WindowsInv, vbe_active, vbe_active', NEW l \in Lists,
         \E t, k : Strung(l, t, k), Becomes(l), Dragging'
  PROVE  WindowsInv'
<1>1. PICK s, n : Strung(List, s, n) /\ Drawing(s, n)
  BY DEF WindowsInv
<1>2. PICK t, k : Strung(l, t, k)
  OBVIOUS
<1>n. n \in Nat /\ List \in Lists /\ k \in Nat
  BY <1>1, <1>2 DEF Strung
<1>3. List' = l
  BY ListParts DEF Becomes, List
<1>4. /\ live' = l.live /\ curr' = curr
      /\ changed' = (changed \/ FrontToBack(l) # FrontToBack(List))
      /\ torn' = (torn \/ (curr # NoWindow /\ curr \notin l.live))
      /\ drawn' = IF changed' THEN 0 ELSE drawn
  BY DEF Becomes
<1>5. ASSUME FrontToBack(l) = FrontToBack(List)
      PROVE  t = s /\ k = n /\ l.live = live
  <2>1. /\ Reverse(FrontToBack(List)) = s /\ Len(s) = n /\ ToSet(s) = List.live
    BY <1>1, <1>n, DrawOrder
  <2>2. /\ Reverse(FrontToBack(l)) = t /\ Len(t) = k /\ ToSet(t) = l.live
    BY <1>2, <1>n, DrawOrder
  <2>3. List.live = live
    BY DEF List
  <2>. QED
    BY <1>5, <2>1, <2>2, <2>3
<1>6. Drawing(t, k)'
  <2>1. drawn' \in Nat
    BY <1>1, <1>4 DEF Drawing
  <2>2. ASSUME ~changed', curr' # NoWindow
        PROVE  drawn' + 1 \in 1 .. k /\ t[drawn' + 1] = curr'
    BY <1>1, <1>4, <1>5, <2>2 DEF Drawing
  <2>3. ASSUME ~torn', curr' # NoWindow PROVE curr' \in live'
    BY <1>4, <2>3
  <2>4. ASSUME torn' PROVE changed'
    <3>1. CASE torn
      BY <3>1, <1>1, <1>4 DEF Drawing
    <3>2. CASE ~torn
      <4>1. curr # NoWindow /\ curr \notin l.live
        BY <3>2, <2>4, <1>4
      <4>2. curr \in live
        BY <3>2, <4>1, <1>1 DEF Drawing
      <4>. QED
        BY <4>1, <4>2, <1>4, <1>5
    <3>. QED
      BY <3>1, <3>2
  <2>. QED
    BY <2>1, <2>2, <2>3, <2>4 DEF Drawing
<1>7. Strung(List', t, k)
  BY <1>2, <1>3
<1>. QED
  BY <1>6, <1>7 DEF WindowsInv

\* A click, whatever it hits.
LEMMA ClickInv ==
  ASSUME WindowsInv, vbe_active, vbe_active', ~last_buttons, last_buttons', left_click
  PROVE  WindowsInv'
<1>1. PICK s, n : Strung(List, s, n) /\ Drawing(s, n)
  BY DEF WindowsInv
<1>n. n \in Nat /\ List \in Lists /\ List.live = live /\ live \subseteq WindowBlocks
  BY <1>1, ListParts DEF Strung, List
<1>d. dragged_window = NoWindow
  BY DEF WindowsInv, Dragging
<1>2. PICK l \in Icon(List), under \in SUBSET live :
        IF under = {}
        THEN Becomes(l) /\ UNCHANGED dragged_window
        ELSE LET w == Hit(l, under)
                 front == BringToFront(l, w)
             IN  \/ Becomes(Destroyed(l, w)) /\ UNCHANGED dragged_window
                 \/ Becomes(front) /\ dragged_window' = w
                 \/ Becomes(front) /\ UNCHANGED dragged_window
  BY DEF left_click
<1>3. PICK t, k : Strung(l, t, k) /\ live \subseteq l.live
  <2>1. CASE l = List
    BY <2>1, <1>1, <1>n
  <2>2. CASE l # List
    <3>1. PICK w \in WindowBlocks \ List.live : l = Opened(List, w)
      BY <1>2, <2>2 DEF Icon
    <3>2. w \in WindowBlocks /\ w \notin List.live
      OBVIOUS
    <3>3. /\ \E x : Strung(Opened(List, w), x, n + 1)
          /\ Opened(List, w).live = List.live \union {w}
      BY <3>2, <1>1, <1>n, OpenedStrung, Zenon
    <3>. QED
      BY <3>1, <3>3, <1>n
  <2>. QED
    BY <2>1, <2>2
<1>4. k \in Nat /\ l \in Lists /\ l.live \subseteq WindowBlocks
  BY <1>3, ListParts DEF Strung
\* Nothing is dragged unless the click was on a title bar.
<1>5. ASSUME UNCHANGED dragged_window PROVE Dragging'
  BY <1>5, <1>d DEF Dragging
<1>6. CASE under = {}
  <2>1. Becomes(l) /\ Dragging'
    BY <1>2, <1>5, <1>6
  <2>. QED
    BY <2>1, <1>3, <1>4, BecomesInv, Zenon
<1>7. CASE under # {}
  <2>1. PICK w : w = Hit(l, under)
    OBVIOUS
  <2>2. w \in l.live /\ w \in WindowBlocks
    <3>1. under \in SUBSET l.live
      BY <1>3
    <3>2. w \in under
      BY <3>1, <2>1, <1>3, <1>4, <1>7, HitUnder
    <3>. QED
      BY <3>1, <3>2, <1>4
  <2>3. PICK front : front = BringToFront(l, w)
    OBVIOUS
  <2>4. PICK r : Strung(front, r, k) /\ front.live = l.live
    <3>1. CASE w = l.tail
      BY <3>1, <2>3, <1>3 DEF BringToFront
    <3>2. CASE w # l.tail
      BY <3>2, <2>2, <2>3, <1>3, <1>4, RaisedStrung DEF BringToFront
    <3>. QED
      BY <3>1, <3>2
  <2>5. front \in Lists
    BY <2>4 DEF Strung
  <2>6. CASE Becomes(Destroyed(l, w)) /\ UNCHANGED dragged_window
    <3>1. PICK x : Strung(Destroyed(l, w), x, k - 1)
      BY <2>2, <1>3, <1>4, DestroyedStrung
    <3>2. Destroyed(l, w) \in Lists /\ Dragging'
      BY <3>1, <2>6, <1>5 DEF Strung
    <3>. QED
      BY <3>1, <3>2, <2>6, BecomesInv, Zenon
  <2>7. CASE Becomes(front) /\ dragged_window' = w
    <3>1. live' = front.live
      BY <2>7 DEF Becomes
    <3>2. Dragging'
      BY <3>1, <2>2, <2>4, <2>7 DEF Dragging
    <3>. QED
      BY <3>2, <2>4, <2>5, <2>7, BecomesInv, Zenon
  <2>8. CASE Becomes(front) /\ UNCHANGED dragged_window
    BY <2>4, <2>5, <2>8, <1>5, BecomesInv, Zenon
  <2>. QED
    BY <1>2, <1>7, <2>1, <2>3, <2>6, <2>7, <2>8
<1>. QED
  BY <1>6, <1>7

\* Whatever leaves the windows, the frame and the drag alone.
LEMMA WindowsAlone ==
  ASSUME WindowsInv, UNCHANGED <<listVars, frameVars, dragged_window>>,
         last_buttons' = last_buttons, vbe_active => vbe_active'
  PROVE  WindowsInv'
<1>1. PICK s, n : Strung(List, s, n) /\ Drawing(s, n)
  BY DEF WindowsInv
<1>2. List' = List
  BY DEF List, listVars
<1>3. Drawing(s, n)'
  BY <1>1 DEF Drawing, frameVars, listVars
<1>4. Strung(List', s, n)
  BY <1>1, <1>2
<1>5. Dragging'
  BY DEF WindowsInv, Dragging, listVars
<1>6. ~vbe_active' => curr' = NoWindow /\ dragged_window' = NoWindow
  BY DEF WindowsInv, frameVars
<1>. QED
  BY <1>3, <1>4, <1>5, <1>6 DEF WindowsInv

\* The mouse interrupt, byte by byte.
LEMMA MouseInv ==
  ASSUME WindowsInv, NEW byte, mouse_handler(byte)
  PROVE  WindowsInv'
<1>v. vbe_active /\ vbe_active'
  BY DEF mouse_handler
<1>1. CASE UNCHANGED <<listVars, frameVars, last_buttons, dragged_window>>
  BY <1>1, <1>v, WindowsAlone
<1>2. CASE gui_on_mouse_event(mouse_byte.left)
  <2>1. PICK left : left = mouse_byte.left
    OBVIOUS
  <2>2. gui_on_mouse_event(left)
    BY <1>2, <2>1
  <2>3. last_buttons' = left
    BY <2>2 DEF gui_on_mouse_event
  <2>4. CASE left /\ ~last_buttons /\ left_click
    BY <2>3, <2>4, <1>v, ClickInv
  <2>5. CASE /\ ~left /\ last_buttons
             /\ dragged_window' = NoWindow
             /\ UNCHANGED <<listVars, frameVars>>
    <3>1. PICK s, n : Strung(List, s, n) /\ Drawing(s, n)
      BY DEF WindowsInv
    <3>2. List' = List
      BY <2>5 DEF List, listVars
    <3>3. Drawing(s, n)'
      BY <2>5, <3>1 DEF Drawing, frameVars, listVars
    <3>4. Strung(List', s, n)
      BY <3>1, <3>2
    <3>5. Dragging'
      BY <2>5 DEF Dragging
    <3>. QED
      BY <3>3, <3>4, <3>5, <1>v DEF WindowsInv
  <2>6. CASE /\ left = last_buttons
             /\ UNCHANGED <<dragged_window, listVars, frameVars>>
    BY <2>3, <2>6, <1>v, WindowsAlone
  <2>. QED
    BY <2>2, <2>4, <2>5, <2>6 DEF gui_on_mouse_event
<1>. QED
  BY <1>1, <1>2 DEF mouse_handler

\* graphics_task, window by window.
LEMMA RenderInv == WindowsInv /\ (render_begin \/ render_next) => WindowsInv'
<1>. SUFFICES ASSUME WindowsInv, render_begin \/ render_next PROVE WindowsInv'
  OBVIOUS
<1>1. PICK s, n : Strung(List, s, n) /\ Drawing(s, n)
  BY DEF WindowsInv
<1>n. n \in Nat /\ List \in Lists
  BY <1>1 DEF Strung
<1>t. /\ s \in [1 .. n -> WindowBlocks]
      /\ \A v \in WindowBlocks : v \in live <=> \E i \in 1 .. n : s[i] = v
      /\ live \subseteq WindowBlocks
  BY <1>1, <1>n, ListParts DEF Strung, Threads, List
<1>l. /\ window_list_head = IF n = 0 THEN NoWindow ELSE s[1]
      /\ \A i \in 1 .. n : window[s[i]].next = IF i = n THEN NoWindow ELSE s[i + 1]
  BY <1>1 DEF Strung, Linked, List
<1>u. /\ UNCHANGED <<vbe_active, listVars, last_buttons, dragged_window>>
      /\ vbe_active
  BY DEF render_begin, render_next
<1>2. Strung(List', s, n) /\ live' = live
  BY <1>1, <1>u DEF List, listVars
<1>3. Dragging'
  BY <1>u, <1>2 DEF WindowsInv, Dragging
<1>4. CASE render_begin
  <2>1. curr' = window_list_head /\ drawn' = 0 /\ changed' = FALSE /\ torn' = FALSE
    BY <1>4 DEF render_begin
  <2>2. ASSUME curr' # NoWindow
        PROVE  1 \in 1 .. n /\ curr' = s[1] /\ curr' \in live
    BY <2>1, <2>2, <1>l, <1>n, <1>t
  <2>3. Drawing(s, n)'
    BY <2>1, <2>2, <1>2 DEF Drawing
  <2>. QED
    BY <2>3, <1>2, <1>3, <1>u DEF WindowsInv
<1>5. CASE render_next
  <2>1. /\ curr # NoWindow
        /\ IF torn THEN curr' \in WindowBlocks \union {NoWindow}
           ELSE curr' = window[curr].next
        /\ drawn' = IF changed THEN 0 ELSE drawn + 1
        /\ changed' = changed /\ torn' = torn
    BY <1>5 DEF render_next
  <2>2. drawn' \in Nat
    BY <2>1, <1>1 DEF Drawing
  <2>3. ASSUME ~changed', curr' # NoWindow
        PROVE  drawn' + 1 \in 1 .. n /\ s[drawn' + 1] = curr'
    <3>1. ~changed /\ ~torn
      BY <2>1, <2>3, <1>1 DEF Drawing
    <3>2. PICK k \in 1 .. n : k = drawn + 1 /\ s[k] = curr
      BY <2>1, <3>1, <1>1 DEF Drawing
    <3>3. curr' = window[s[k]].next
      BY <2>1, <3>1, <3>2
    <3>4. k # n /\ curr' = s[k + 1]
      BY <2>3, <3>3, <1>l
    <3>5. drawn' = k
      BY <2>1, <3>1, <3>2
    <3>. QED
      BY <3>4, <3>5, <1>n
  <2>4. ASSUME ~torn', curr' # NoWindow PROVE curr' \in live'
    <3>1. curr \in live
      BY <2>1, <2>4, <1>1 DEF Drawing
    <3>2. PICK k \in 1 .. n : s[k] = curr
      BY <3>1, <1>t
    <3>3. curr' = window[s[k]].next
      BY <2>1, <2>4, <3>2
    <3>4. k # n /\ curr' = s[k + 1]
      BY <2>4, <3>3, <1>l
    <3>5. k + 1 \in 1 .. n
      BY <3>4, <1>n
    <3>. QED
      BY <3>4, <3>5, <1>2, <1>t
  <2>5. torn' => changed'
    BY <2>1, <1>1 DEF Drawing
  <2>6. Drawing(s, n)'
    BY <2>2, <2>3, <2>4, <2>5 DEF Drawing
  <2>. QED
    BY <2>6, <1>2, <1>3, <1>u DEF WindowsInv
<1>. QED
  BY <1>4, <1>5

\* A list without windows, whatever the blocks hold.
LEMMA EmptyList ==
  ASSUME NEW win \in [WindowBlocks -> Records]
  PROVE  Strung([win |-> win, head |-> NoWindow, tail |-> NoWindow, live |-> {}], <<>>, 0)
<1>. DEFINE l == [win |-> win, head |-> NoWindow, tail |-> NoWindow, live |-> {}]
<1>1. l \in Lists
  BY DEF Lists, Links
<1>2. l.live = {} /\ l.head = NoWindow /\ l.tail = NoWindow
  OBVIOUS
<1>. HIDE DEF l
<1>3. <<>> \in [1 .. 0 -> WindowBlocks] /\ ~(\E i \in 1 .. 0 : TRUE)
  OBVIOUS
<1>4. Threads(l, <<>>, 0)
  BY <1>2, <1>3 DEF Threads
<1>5. Linked(l, <<>>, 0)
  BY <1>2, <1>3 DEF Linked
<1>6. Strung(l, <<>>, 0)
  BY <1>1, <1>4, <1>5 DEF Strung
<1>. QED
  BY <1>6 DEF l

\* start_graphics opens its three windows in an empty list.
LEMMA GraphicsInv == WindowsInv /\ start_graphics => WindowsInv'
<1>. SUFFICES ASSUME WindowsInv, start_graphics PROVE WindowsInv'
  OBVIOUS
<1>1. PICK s, n : Strung(List, s, n) /\ Drawing(s, n)
  BY DEF WindowsInv
<1>2. window \in [WindowBlocks -> Records]
  BY <1>1, ListParts DEF Strung, List
<1>3. PICK a \in WindowBlocks, b \in WindowBlocks, c \in WindowBlocks :
        /\ a # b /\ b # c /\ a # c
        /\ LET empty == [win |-> window, head |-> NoWindow, tail |-> NoWindow, live |-> {}]
               l == Opened(Opened(Opened(empty, a), b), c)
           IN  /\ window' = l.win /\ live' = l.live
               /\ window_list_head' = l.head /\ window_list_tail' = l.tail
  BY DEF start_graphics
<1>4. PICK empty :
        empty = [win |-> window, head |-> NoWindow, tail |-> NoWindow, live |-> {}]
  OBVIOUS
<1>5. Strung(empty, <<>>, 0) /\ empty \in Lists /\ empty.live = {}
  BY <1>2, <1>4, EmptyList DEF Strung
<1>6. PICK l1, t1 : /\ l1 = Opened(empty, a) /\ l1 \in Lists /\ Strung(l1, t1, 1)
                    /\ l1.live = {a}
  <2>1. /\ \E t : Strung(Opened(empty, a), t, 0 + 1)
        /\ Opened(empty, a).live = empty.live \union {a}
    BY <1>5, OpenedStrung
  <2>. QED
    BY <2>1, <1>5 DEF Strung
<1>7. PICK l2, t2 : /\ l2 = Opened(l1, b) /\ l2 \in Lists /\ Strung(l2, t2, 2)
                    /\ l2.live = {a, b}
  <2>1. /\ \E t : Strung(Opened(l1, b), t, 1 + 1)
        /\ Opened(l1, b).live = l1.live \union {b}
    BY <1>3, <1>6, OpenedStrung
  <2>. QED
    BY <2>1, <1>6 DEF Strung
<1>8. PICK l, t : l = Opened(l2, c) /\ l \in Lists /\ Strung(l, t, 3)
  <2>1. \E t : Strung(Opened(l2, c), t, 2 + 1)
    BY <1>3, <1>7, OpenedStrung
  <2>. QED
    BY <2>1 DEF Strung
<1>9. /\ window' = l.win /\ live' = l.live
       /\ window_list_head' = l.head /\ window_list_tail' = l.tail
  BY <1>3, <1>4, <1>6, <1>7, <1>8
<1>10. List' = l
  BY <1>8, <1>9, ListParts DEF List
<1>11. /\ vbe_active' /\ curr' = NoWindow /\ dragged_window' = NoWindow
       /\ drawn' = drawn /\ torn' = torn /\ changed' = changed
  BY DEF WindowsInv, start_graphics, frameVars
<1>12. Drawing(t, 3)'
  BY <1>1, <1>11 DEF Drawing
<1>13. Dragging'
  BY <1>11 DEF Dragging
<1>. QED
  BY <1>8, <1>10, <1>11, <1>12, <1>13 DEF WindowsInv

\* Every step keeps the list of windows strung.
LEMMA WindowsNext == WindowsInv /\ [Next]_vars => WindowsInv'
<1>. SUFFICES ASSUME WindowsInv, [Next]_vars PROVE WindowsInv'
  OBVIOUS
<1>0. ASSUME UNCHANGED windowVars PROVE WindowsInv'
  BY <1>0, WindowsAlone DEF windowVars
<1>1. CASE shell_key
  <2>1. CASE command_vinit
    BY <2>1, GraphicsInv DEF command_vinit
  <2>2. CASE UNCHANGED windowVars
    BY <2>2, <1>0
  <2>. QED
    BY <1>1, <2>1, <2>2 DEF shell_key, execute_command, command_other, command_tree,
                            command_exec, command_reboot
<1>2. CASE text_mode
  BY <1>0, <1>2 DEF text_mode
<1>3. CASE graphical_mode
  BY <1>3, MouseInv, RenderInv DEF graphical_mode
<1>4. CASE UNCHANGED vars
  BY <1>0, <1>4 DEF vars
<1>. QED
  BY <1>1, <1>2, <1>3, <1>4 DEF Next

\* The graphical mode starts without windows.
LEMMA WindowsStart == WindowsInit => WindowsInv
<1>. SUFFICES ASSUME WindowsInit PROVE WindowsInv
  OBVIOUS
<1>1. window \in [WindowBlocks -> Records]
  BY DEF WindowsInit, NoBlock, Records, Links
<1>2. List = [win |-> window, head |-> NoWindow, tail |-> NoWindow, live |-> {}]
  BY DEF WindowsInit, List
<1>3. Strung(List, <<>>, 0)
  BY <1>1, <1>2, EmptyList
<1>4. Drawing(<<>>, 0)
  BY DEF WindowsInit, Drawing
<1>5. Dragging /\ curr = NoWindow /\ dragged_window = NoWindow
  BY DEF WindowsInit, Dragging
<1>. QED
  BY <1>3, <1>4, <1>5 DEF WindowsInv

\* A list that is strung reads the same both ways and has every window.
LEMMA InvWindows == WindowsInv => WindowsSound
<1>. SUFFICES ASSUME WindowsInv PROVE WindowsSound
  OBVIOUS
<1>1. PICK s, n : Strung(List, s, n) /\ Drawing(s, n)
  BY DEF WindowsInv
<1>n. n \in Nat /\ List \in Lists /\ List.live = live
  BY <1>1 DEF Strung, List
<1>2. BackToFront = s /\ Len(s) = n /\ ToSet(s) = live
  BY <1>1, <1>n, DrawOrder DEF BackToFront
<1>3. Cardinality(live) = n
  BY <1>1, <1>n, StrungCount
<1>t. /\ s \in [1 .. n -> WindowBlocks]
      /\ \A i, j \in 1 .. n : s[i] = s[j] => i = j
      /\ \A v \in WindowBlocks : v \in live <=> \E i \in 1 .. n : s[i] = v
      /\ live \subseteq WindowBlocks
  BY <1>1, <1>n, ListParts DEF Strung, Threads
<1>l. /\ window_list_head = IF n = 0 THEN NoWindow ELSE s[1]
      /\ window_list_tail = IF n = 0 THEN NoWindow ELSE s[n]
      /\ \A i \in 1 .. n : window[s[i]].next = IF i = n THEN NoWindow ELSE s[i + 1]
      /\ \A i \in 1 .. n : window[s[i]].prev = IF i = 1 THEN NoWindow ELSE s[i - 1]
  BY <1>1 DEF Strung, Linked, List
<1>4. ASSUME NEW w \in live
      PROVE  /\ window[w].next # NoWindow => window[window[w].next].prev = w
             /\ window[w].prev = NoWindow <=> window_list_head = w
             /\ window[w].next = NoWindow <=> window_list_tail = w
  <2>1. PICK i \in 1 .. n : s[i] = w
    BY <1>t
  <2>2. window[w].prev = NoWindow <=> i = 1
    BY <2>1, <1>l, <1>t, <1>n, NoSuchBlock
  <2>3. window[w].next = NoWindow <=> i = n
    BY <2>1, <1>l, <1>t, <1>n, NoSuchBlock
  <2>4. window_list_head = w <=> i = 1
    BY <2>1, <1>l, <1>t, <1>n
  <2>5. window_list_tail = w <=> i = n
    BY <2>1, <1>l, <1>t, <1>n
  <2>6. ASSUME i # n PROVE window[window[w].next].prev = w
    <3>1. PICK k \in 1 .. n : k = i + 1 /\ k # 1 /\ k - 1 = i
      BY <2>6, <1>n
    <3>2. window[w].next = s[k] /\ window[s[k]].prev = s[i]
      BY <2>1, <2>6, <3>1, <1>l
    <3>. QED
      BY <2>1, <3>2
  <2>. QED
    BY <2>2, <2>3, <2>4, <2>5, <2>6
<1>5. WindowsLinked
  BY <1>2, <1>3, <1>4 DEF WindowsLinked, WindowsInv, Dragging
<1>6. FrameSound
  BY <1>1, <1>2 DEF FrameSound, Drawing
<1>. QED
  BY <1>5, <1>6 DEF WindowsSound

\* gui_create_window, gui_bring_to_front and gui_destroy_window, called by the mouse
\* interrupt while graphics_task walks the list with interrupts on: with any number of
\* windows the list reads the same both ways and has every window, and the task draws
\* them in order and leaves the list only when the window it draws was closed.
THEOREM WindowsStaySound == Spec => []WindowsSound
<1>1. Init => WindowsInv
  BY WindowsStart DEF Init
<1>. QED
  BY <1>1, WindowsNext, InvWindows, PTL DEF Spec
=============================================================================
