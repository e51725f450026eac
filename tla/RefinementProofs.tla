-------------------------- MODULE RefinementProofs --------------------------
(***************************************************************************)
(* The two components with an abstract specification.                      *)
(*                                                                         *)
(* For every buffer size that divides the range of the indices, every set  *)
(* of bytes and chunks of any length: the ring of common/fifo.h implements *)
(* a byte queue, although its indices run freely and wrap, and a look ahead *)
(* without the lock copies only bytes that are there.                      *)
(*                                                                         *)
(* For every set of items and values, sector size and number of saves: the *)
(* parameter table of net_param.c implements a map until the power fails,  *)
(* and how much of an item the first failure leaves decides what is read.  *)
(***************************************************************************)
EXTENDS Kfifo, NetParam, SequenceTheorems, FiniteSetTheorems, WellFoundedInduction, TLAPS

-----------------------------------------------------------------------------
(* Remainders                                                               *)

LEMMA DivMod ==
    ASSUME NEW a \in Int, NEW n \in Nat \ {0}
    PROVE  /\ a % n \in 0 .. n - 1
           /\ a \div n \in Int
           /\ a = n * (a \div n) + (a % n)
OBVIOUS

LEMMA ModUnique ==
    ASSUME NEW a \in Int, NEW n \in Nat \ {0}, NEW q \in Int, NEW r \in 0 .. n - 1,
           a = n * q + r
    PROVE  a % n = r
<1> DEFINE p == a \div n
           m == a % n
<1>1. p \in Int /\ m \in 0 .. n - 1 /\ a = n * p + m
  BY DivMod
<1> HIDE DEF p, m
<1>2. n * (p - q) = r - m
  BY <1>1
<1>3. CASE p - q >= 1
  <2>1. n * (p - q) >= n
    BY <1>1, <1>3
  <2> QED
    BY <1>1, <1>2, <2>1
<1>4. CASE p - q <= -1
  <2>1. n * (p - q) <= -n
    BY <1>1, <1>4
  <2> QED
    BY <1>1, <1>2, <2>1
<1>5. CASE p = q
  BY <1>1, <1>5 DEF m
<1> QED
  BY <1>1, <1>3, <1>4, <1>5

\* Reducing a number that is at most one period out of range.
LEMMA ModNear ==
    ASSUME NEW n \in Nat \ {0}, NEW a \in Int
    PROVE  /\ a \in 0 .. n - 1 => a % n = a
           /\ a \in n .. 2 * n - 1 => a % n = a - n
           /\ a \in -n .. -1 => a % n = a + n
<1>1. ASSUME a \in 0 .. n - 1 PROVE a % n = a
  <2>1. a = n * 0 + a
    BY <1>1
  <2> QED
    BY <1>1, <2>1, ModUnique
<1>2. ASSUME a \in n .. 2 * n - 1 PROVE a % n = a - n
  <2>1. a = n * 1 + (a - n) /\ a - n \in 0 .. n - 1
    BY <1>2
  <2> QED
    BY <2>1, ModUnique
<1>3. ASSUME a \in -n .. -1 PROVE a % n = a + n
  <2>1. a = n * (-1) + (a + n) /\ a + n \in 0 .. n - 1
    BY <1>3
  <2> QED
    BY <2>1, ModUnique
<1> QED
  BY <1>1, <1>2, <1>3

\* The index k places on, in the buffer.
LEMMA SlotPlus ==
    ASSUME NEW x \in Nat, NEW k \in 0 .. Size
    PROVE  /\ Slot(x) \in 0 .. Size - 1
           /\ Slot(x + k) = IF Slot(x) + k < Size THEN Slot(x) + k ELSE Slot(x) + k - Size
<1> DEFINE q == x \div Size
           r == x % Size
<1>1. q \in Int /\ r \in 0 .. Size - 1 /\ x = Size * q + r
  BY SizeAssumption, DivMod
<1>2. Slot(x) = r
  BY DEF Slot
<1> HIDE DEF q, r
<1>3. CASE r + k < Size
  <2>1. x + k = Size * q + (r + k) /\ r + k \in 0 .. Size - 1
    BY <1>1, <1>3, SizeAssumption
  <2>2. (x + k) % Size = r + k
    BY <1>1, <2>1, SizeAssumption, ModUnique
  <2> QED
    BY <1>1, <1>2, <1>3, <2>2 DEF Slot
<1>4. CASE ~(r + k < Size)
  <2>1. x + k = Size * (q + 1) + (r + k - Size) /\ r + k - Size \in 0 .. Size - 1 /\ q + 1 \in Int
    BY <1>1, <1>4, SizeAssumption
  <2>2. (x + k) % Size = r + k - Size
    <3>1. x + k \in Int /\ Size \in Nat \ {0}
      BY SizeAssumption
    <3> HIDE DEF Slot
    <3> QED
      BY <2>1, <3>1, ModUnique
  <2> QED
    BY <1>1, <1>2, <1>4, <2>2 DEF Slot
<1> QED
  BY <1>3, <1>4

\* A wrapped index points to the same place: Size divides Modulus.
LEMMA SlotWrap ==
    ASSUME NEW x \in 0 .. 2 * Modulus - 1
    PROVE  x % Modulus \in 0 .. Modulus - 1 /\ Slot(x % Modulus) = Slot(x)
<1>m. Modulus \in Nat \ {0} /\ Size \in Nat \ {0}
  BY SizeAssumption
<1>1. CASE x < Modulus
  <2>1. x % Modulus = x
    BY <1>1, <1>m, ModNear
  <2> QED
    BY <1>1, <1>m, <2>1
<1>2. CASE x >= Modulus
  <2>1. x % Modulus = x - Modulus
    <3>1. x \in Int /\ x \in Modulus .. 2 * Modulus - 1
      BY <1>2, <1>m
    <3> QED
      BY <3>1, <1>m, ModNear
  <2> DEFINE q == x \div Size
             r == x % Size
             d == Modulus \div Size
  <2>2. q \in Int /\ r \in 0 .. Size - 1 /\ x = Size * q + r
    BY <1>m, DivMod
  <2>3. d \in Int /\ Modulus = Size * d
    BY <1>m, SizeAssumption, DivMod
  <2> HIDE DEF q, r, d
  <2>4. x - Modulus = Size * (q - d) + r /\ q - d \in Int /\ x - Modulus \in Int
    BY <1>m, <2>2, <2>3
  <2>5. (x - Modulus) % Size = r
    BY <1>m, <2>2, <2>4, ModUnique
  <2> QED
    BY <1>2, <1>m, <2>1, <2>5 DEF Slot, r
<1> QED
  BY <1>1, <1>2, <1>m

-----------------------------------------------------------------------------
(* The counts and the content                                               *)

Bounded == TypeOK /\ kfifo_data_size <= Size

\* The two counts in terms of each other, without the wrap.
LEMMA Counts ==
    ASSUME Bounded
    PROVE  /\ kfifo_data_size \in 0 .. Size
           /\ kfifo_data_size = IF in >= out THEN in - out ELSE in - out + Modulus
           /\ kfifo_unused = Size - kfifo_data_size
<1>t. /\ in \in 0 .. Modulus - 1 /\ out \in 0 .. Modulus - 1
      /\ Modulus \in Nat \ {0} /\ Size \in Nat \ {0} /\ Size < Modulus
  BY SizeAssumption DEF Bounded, TypeOK
<1> DEFINE d == IF in >= out THEN in - out ELSE in - out + Modulus
<1>1. (in - out) % Modulus = d
  <2>1. in - out \in Int /\ (in - out \in 0 .. Modulus - 1 \/ in - out \in -Modulus .. -1)
    BY <1>t
  <2> QED
    BY <1>t, <2>1, ModNear
<1>2. kfifo_data_size = d /\ d \in 0 .. Size
  BY <1>t, <1>1 DEF kfifo_data_size, Bounded
<1>3. (Size - in + out) % Modulus = Size - d
  <2>1. CASE in >= out
    <3>1. Size - in + out = Size - d /\ Size - d \in 0 .. Modulus - 1 /\ Size - in + out \in Int
      BY <1>t, <1>2, <2>1
    <3> QED
      BY <1>t, <3>1, ModNear
  <2>2. CASE ~(in >= out)
    <3>1. /\ Size - in + out = Size - d + Modulus /\ Size - d \in 0 .. Modulus - 1
          /\ Size - in + out \in Int /\ Size - in + out \in Modulus .. 2 * Modulus - 1
      BY <1>t, <1>2, <2>2
    <3>2. (Size - in + out) % Modulus = (Size - in + out) - Modulus
      BY <1>t, <3>1, ModNear
    <3> QED
      BY <1>t, <1>2, <3>1, <3>2
  <2> QED
    BY <2>1, <2>2
<1> QED
  BY <1>2, <1>3 DEF kfifo_unused

LEMMA CountsNext == Bounded' => kfifo_data_size' \in 0 .. Size
<1>1. Bounded => kfifo_data_size \in 0 .. Size
  BY Counts
<1>2. (Bounded => kfifo_data_size \in 0 .. Size)'
  BY <1>1, PTL
<1> QED
  BY <1>2

\* Where the ends of the data are in the buffer.
LEMMA Ends ==
    ASSUME Bounded
    PROVE  /\ Slot(out) \in 0 .. Size - 1
           /\ Slot(in) = IF Slot(out) + kfifo_data_size < Size THEN Slot(out) + kfifo_data_size
                         ELSE Slot(out) + kfifo_data_size - Size
<1> DEFINE d == kfifo_data_size
<1>t. /\ in \in 0 .. Modulus - 1 /\ out \in 0 .. Modulus - 1 /\ out \in Nat
      /\ Modulus \in Nat \ {0} /\ Size \in Nat \ {0} /\ Size < Modulus
      /\ d \in 0 .. Size /\ d = IF in >= out THEN in - out ELSE in - out + Modulus
  BY SizeAssumption, Counts DEF Bounded, TypeOK
<1> HIDE DEF d
<1>1. out + d \in 0 .. 2 * Modulus - 1
  BY <1>t
<1>2. (out + d) % Modulus = in
  <2>1. CASE in >= out
    <3>1. out + d = in /\ in \in Int
      BY <1>t, <2>1
    <3> QED
      BY <1>t, <3>1, ModNear
  <2>2. CASE ~(in >= out)
    <3>1. out + d = in + Modulus /\ in + Modulus \in Int /\ in + Modulus \in Modulus .. 2 * Modulus - 1
      BY <1>t, <2>2
    <3>2. (in + Modulus) % Modulus = (in + Modulus) - Modulus
      BY <1>t, <3>1, ModNear
    <3> QED
      BY <1>t, <3>1, <3>2
  <2> QED
    BY <2>1, <2>2
<1>3. Slot(in) = Slot(out + d)
  BY <1>1, <1>2, SlotWrap
<1> QED
  BY <1>t, <1>3, SlotPlus DEF d

\* The content, by place in the buffer.
ContentAt ==
    /\ Content \in Seq(Byte) /\ Len(Content) = kfifo_data_size
    /\ \A k \in 1 .. kfifo_data_size :
          Content[k] = buffer[IF Slot(out) + k - 1 < Size THEN Slot(out) + k - 1
                              ELSE Slot(out) + k - 1 - Size]

LEMMA ContentPlaces == Bounded => ContentAt
<1> SUFFICES ASSUME Bounded PROVE ContentAt
  OBVIOUS
<1> DEFINE d == kfifo_data_size
<1>t. /\ d \in 0 .. Size /\ Size \in Nat /\ out \in Nat
      /\ buffer \in [0 .. Size - 1 -> Byte]
  BY Counts, SizeAssumption DEF Bounded, TypeOK
<1> HIDE DEF d
<1>1. ASSUME NEW k \in 1 .. d
      PROVE  /\ Slot(out) \in 0 .. Size - 1
             /\ Slot(out + k - 1) = IF Slot(out) + k - 1 < Size THEN Slot(out) + k - 1
                                    ELSE Slot(out) + k - 1 - Size
  <2>1. k - 1 \in 0 .. Size /\ out + k - 1 = out + (k - 1)
    BY <1>t
  <2> DEFINE j == k - 1
  <2>2. Slot(out) \in 0 .. Size - 1
    BY <1>t, <2>1, SlotPlus
  <2>3. Slot(out + j) = IF Slot(out) + j < Size THEN Slot(out) + j ELSE Slot(out) + j - Size
    BY <1>t, <2>1, SlotPlus
  <2>4. out + k - 1 = out + j /\ Slot(out) + k - 1 = Slot(out) + j
        /\ Slot(out) + k - 1 - Size = Slot(out) + j - Size
    BY <1>t, <2>2
  <2> QED
    BY <2>2, <2>3, <2>4
<1>2. Content = [k \in 1 .. d |-> buffer[Slot(out + k - 1)]]
  BY DEF Content, d
<1>3. ASSUME NEW k \in 1 .. d PROVE buffer[Slot(out + k - 1)] \in Byte
  BY <1>1, <1>t
<1>4. Content \in Seq(Byte) /\ Len(Content) = d
  BY <1>2, <1>3, <1>t
<1> QED
  BY <1>1, <1>2, <1>4 DEF d, ContentAt

LEMMA ContentPlacesNext == Bounded' => ContentAt'
<1>1. (Bounded => ContentAt)'
  BY ContentPlaces, PTL
<1> QED
  BY <1>1

-----------------------------------------------------------------------------
(* What the operations do to the content                                    *)

\* kfifo_put appends what fits of its chunk.
LEMMA PutAppends ==
    ASSUME Bounded, NEW m \in Nat, NEW s \in [1 .. m -> Byte], kfifo_put(s)
    PROVE  /\ Bounded'
           /\ \E n \in 0 .. Size - Len(Content) : \E t \in [1 .. n -> Byte] : Content' = Content \o t
           /\ kfifo_data_size' >= kfifo_data_size
           /\ \A k \in 1 .. kfifo_data_size : Content'[k] = Content[k]
<1> DEFINE d == kfifo_data_size
           len == Min2(Len(s), kfifo_unused)
           o == Slot(out)
           i == Slot(in)
           l == BeforeEnd(in, len)
<1>t. /\ in \in 0 .. Modulus - 1 /\ out \in 0 .. Modulus - 1 /\ buffer \in [0 .. Size - 1 -> Byte]
      /\ Modulus \in Nat \ {0} /\ Size \in Nat \ {0} /\ Size < Modulus
  BY SizeAssumption DEF Bounded, TypeOK
<1>c. /\ d \in 0 .. Size /\ d = IF in >= out THEN in - out ELSE in - out + Modulus
      /\ o \in 0 .. Size - 1
      /\ i = IF o + d < Size THEN o + d ELSE o + d - Size
  BY Counts, Ends
<1>s. Len(s) = m
  OBVIOUS
<1>n. len \in 0 .. Size - d /\ len <= m
  <2>1. kfifo_unused = Size - d
    BY Counts
  <2>2. len = IF m < Size - d THEN m ELSE Size - d
    BY <1>s, <2>1 DEF Min2
  <2> HIDE DEF len, d
  <2> QED
    BY <1>t, <1>c, <2>2
<1>l. l = IF len < Size - i THEN len ELSE Size - i
  BY DEF BeforeEnd, Min2
<1>a. /\ in' = (in + len) % Modulus /\ buffer' = Stored(s, len)
      /\ UNCHANGED <<out, readerPc, want, result>>
  BY DEF kfifo_put
<1>b. buffer' = [p \in 0 .. Size - 1 |->
                    IF p < len - l THEN s[l + p + 1]
                    ELSE IF i <= p /\ p < i + l THEN s[p - i + 1]
                    ELSE buffer[p]]
  BY <1>a DEF Stored
<1> HIDE DEF d, len, o, i, l
<1>1. buffer' \in [0 .. Size - 1 -> Byte]
  BY <1>t, <1>c, <1>n, <1>l, <1>b
<1>2. in' \in 0 .. Modulus - 1 /\ in' = IF in + len < Modulus THEN in + len ELSE in + len - Modulus
  <2>1. CASE in + len < Modulus
    <3>1. in + len \in Int /\ in + len \in 0 .. Modulus - 1
      BY <1>t, <1>c, <1>n, <2>1
    <3>2. (in + len) % Modulus = in + len
      BY <1>t, <3>1, ModNear
    <3> QED
      BY <1>a, <2>1, <3>1, <3>2
  <2>2. CASE ~(in + len < Modulus)
    <3>1. in + len \in Int /\ in + len \in Modulus .. 2 * Modulus - 1
      BY <1>t, <1>c, <1>n, <2>2
    <3> DEFINE x == in + len
    <3> HIDE DEF x
    <3>2. x % Modulus = x - Modulus
      BY <1>t, <3>1, ModNear DEF x
    <3>3. in' = in + len - Modulus
      BY <1>t, <1>a, <1>n, <3>1, <3>2 DEF x
    <3> QED
      BY <1>t, <1>n, <1>c, <2>2, <3>1, <3>3
  <2> QED
    BY <2>1, <2>2
<1>3. (in' - out) % Modulus = d + len
  <2>1. in' - out \in Int /\ (in' - out = d + len \/ in' - out = d + len - Modulus)
        /\ d + len \in 0 .. Modulus - 1
    BY <1>t, <1>c, <1>n, <1>2
  <2>2. CASE in' - out = d + len
    BY <1>t, <2>1, <2>2, ModNear
  <2>3. CASE in' - out = d + len - Modulus
    <3>1. d + len - Modulus \in -Modulus .. -1 /\ d + len - Modulus \in Int
      BY <1>t, <1>c, <1>n, <2>1
    <3>2. (d + len - Modulus) % Modulus = d + len - Modulus + Modulus
      BY <1>t, <3>1, ModNear
    <3> QED
      BY <1>t, <1>c, <1>n, <2>3, <3>2
  <2> QED
    BY <2>1, <2>2, <2>3
<1>4. kfifo_data_size' = d + len /\ Bounded'
  <2>1. kfifo_data_size' = d + len
    BY <1>a, <1>3 DEF kfifo_data_size
  <2>2. TypeOK'
    BY <1>a, <1>1, <1>2 DEF Bounded, TypeOK
  <2> QED
    BY <1>t, <1>c, <1>n, <2>1, <2>2 DEF Bounded
<1>5. /\ Content \in Seq(Byte) /\ Len(Content) = d
      /\ \A k \in 1 .. d :
            Content[k] = buffer[IF o + k - 1 < Size THEN o + k - 1 ELSE o + k - 1 - Size]
  BY ContentPlaces DEF ContentAt, d, o
<1>6. /\ Content' \in Seq(Byte) /\ Len(Content') = d + len
      /\ \A k \in 1 .. d + len :
            Content'[k] = buffer'[IF o + k - 1 < Size THEN o + k - 1 ELSE o + k - 1 - Size]
  BY <1>4, <1>a, ContentPlacesNext DEF ContentAt, o, Slot
<1>7. ASSUME NEW k \in 1 .. d PROVE Content'[k] = Content[k]
  <2> DEFINE p == IF o + k - 1 < Size THEN o + k - 1 ELSE o + k - 1 - Size
  <2>1. p \in 0 .. Size - 1 /\ ~(p < len - l) /\ ~(i <= p /\ p < i + l)
    BY <1>t, <1>c, <1>n, <1>l
  <2>2. k \in 1 .. d + len
    BY <1>c, <1>n
  <2>3. Content'[k] = buffer'[p] /\ Content[k] = buffer[p]
    BY <1>5, <1>6, <2>2
  <2> HIDE DEF p
  <2> QED
    BY <1>b, <2>1, <2>3
<1>8. ASSUME NEW k \in 1 .. len PROVE Content'[d + k] = s[k]
  <2> DEFINE p == IF o + (d + k) - 1 < Size THEN o + (d + k) - 1 ELSE o + (d + k) - 1 - Size
  <2>1. d + k \in 1 .. d + len
    BY <1>c, <1>n
  <2>2. Content'[d + k] = buffer'[p]
    BY <1>6, <2>1
  <2>3. CASE k <= l
    <3>1. p \in 0 .. Size - 1 /\ ~(p < len - l) /\ i <= p /\ p < i + l /\ p - i + 1 = k
      BY <1>t, <1>c, <1>n, <1>l, <2>3
    <3> HIDE DEF p
    <3> QED
      BY <1>b, <2>2, <3>1
  <2>4. CASE k > l
    <3>1. p \in 0 .. Size - 1 /\ p < len - l /\ l + p + 1 = k
      BY <1>t, <1>c, <1>n, <1>l, <2>4
    <3> HIDE DEF p
    <3> QED
      BY <1>b, <2>2, <3>1
  <2> QED
    BY <1>t, <1>c, <1>n, <1>l, <2>3, <2>4
<1>9. Content' = Content \o SubSeq(s, 1, len) /\ SubSeq(s, 1, len) \in [1 .. len -> Byte]
  <2> DEFINE t == SubSeq(s, 1, len)
  <2>1. s \in Seq(Byte) /\ len \in Nat /\ d \in Nat /\ 1 \in 1 .. Len(s) + 1 /\ len \in 0 .. Len(s)
    BY <1>c, <1>n, <1>s
  <2>2. t \in Seq(Byte) /\ Len(t) = len /\ \A k \in 1 .. len : t[k] = s[k]
    BY <2>1, SubSeqProperties
  <2>3. t \in [1 .. len -> Byte]
    BY <2>2, LenProperties
  <2> HIDE DEF t
  <2>4. /\ Content \o t \in Seq(Byte) /\ Len(Content \o t) = d + len
        /\ \A k \in 1 .. d + len : (Content \o t)[k] = IF k <= d THEN Content[k] ELSE t[k - d]
    BY <1>5, <2>1, <2>2, ConcatProperties
  <2>5. ASSUME NEW k \in 1 .. d + len PROVE Content'[k] = (Content \o t)[k]
    <3>1. CASE k <= d
      <4>1. k \in 1 .. d
        BY <2>1, <3>1
      <4>2. (Content \o t)[k] = Content[k]
        BY <2>4, <3>1
      <4> QED
        BY <1>7, <4>1, <4>2
    <3>2. CASE ~(k <= d)
      <4>1. k - d \in 1 .. len /\ d + (k - d) = k
        BY <2>1, <3>2
      <4>2. Content'[d + (k - d)] = s[k - d]
        BY <1>8, <4>1
      <4>3. (Content \o t)[k] = t[k - d]
        BY <2>1, <2>4, <3>2
      <4> QED
        BY <2>2, <4>1, <4>2, <4>3
    <3> QED
      BY <3>1, <3>2
  <2>6. Content' = Content \o t
    BY <1>6, <2>4, <2>5, SeqEqual
  <2> QED
    BY <2>3, <2>6 DEF t
<1>10. len \in 0 .. Size - Len(Content)
  BY <1>5, <1>n
<1>11. kfifo_data_size' >= kfifo_data_size
  BY <1>4, <1>c, <1>n DEF d
<1> QED
  BY <1>4, <1>7, <1>9, <1>10, <1>11 DEF d

\* kfifo_get, alone or in bk_uart_recv, delivers the front and leaves the rest.
LEMMA GetTakes ==
    ASSUME Bounded, NEW n \in Nat,
           LET len == Min2(n, kfifo_data_size)
           IN  result' = Fetched(len) /\ out' = (out + len) % Modulus,
           UNCHANGED <<in, buffer, want>>, readerPc' \in {"idle", "received"}
    PROVE  /\ Bounded'
           /\ \E k \in 0 .. Len(Content) :
                 /\ result' = SubSeq(Content, 1, k)
                 /\ Content' = SubSeq(Content, k + 1, Len(Content))
<1> DEFINE d == kfifo_data_size
           len == Min2(n, kfifo_data_size)
           o == Slot(out)
           l == BeforeEnd(out, len)
<1>t. /\ in \in 0 .. Modulus - 1 /\ out \in 0 .. Modulus - 1 /\ buffer \in [0 .. Size - 1 -> Byte]
      /\ Modulus \in Nat \ {0} /\ Size \in Nat \ {0} /\ Size < Modulus
  BY SizeAssumption DEF Bounded, TypeOK
<1>c. /\ d \in 0 .. Size /\ d = IF in >= out THEN in - out ELSE in - out + Modulus
      /\ o \in 0 .. Size - 1
  BY Counts, Ends
<1>n. len \in 0 .. d
  BY <1>c DEF Min2
<1>l. l = IF len < Size - o THEN len ELSE Size - o
  BY DEF BeforeEnd, Min2
<1>a. out' = (out + len) % Modulus /\ result' = Fetched(len)
  OBVIOUS
<1>b. result' = [k \in 1 .. len |-> IF k <= l THEN buffer[o + k - 1] ELSE buffer[k - l - 1]]
  BY <1>a DEF Fetched
<1> HIDE DEF d, len, o, l
<1>1. out' \in 0 .. Modulus - 1 /\ out' = IF out + len < Modulus THEN out + len ELSE out + len - Modulus
  <2> DEFINE x == out + len
  <2>1. CASE out + len < Modulus
    <3>1. x \in Int /\ x \in 0 .. Modulus - 1
      BY <1>t, <1>c, <1>n, <2>1
    <3> HIDE DEF x
    <3>2. x % Modulus = x
      BY <1>t, <3>1, ModNear
    <3> QED
      BY <1>a, <2>1, <3>1, <3>2 DEF x
  <2>2. CASE ~(out + len < Modulus)
    <3>1. x \in Int /\ x \in Modulus .. 2 * Modulus - 1
      BY <1>t, <1>c, <1>n, <2>2
    <3> HIDE DEF x
    <3>2. x % Modulus = x - Modulus
      BY <1>t, <3>1, ModNear
    <3>3. out' = out + len - Modulus
      BY <1>t, <1>a, <1>n, <3>1, <3>2 DEF x
    <3> QED
      BY <1>t, <1>n, <1>c, <2>2, <3>1, <3>3 DEF x
  <2> QED
    BY <2>1, <2>2
<1>2. (in - out') % Modulus = d - len
  <2> DEFINE y == in - out'
  <2>1. y \in Int /\ (y = d - len \/ y = d - len - Modulus) /\ d - len \in 0 .. Modulus - 1
    BY <1>t, <1>c, <1>n, <1>1
  <2> HIDE DEF y
  <2>2. CASE y = d - len
    BY <1>t, <2>1, <2>2, ModNear DEF y
  <2>3. CASE y = d - len - Modulus
    <3>1. y \in -Modulus .. -1
      BY <1>t, <1>c, <1>n, <2>1, <2>3
    <3>2. y % Modulus = y + Modulus
      BY <1>t, <2>1, <3>1, ModNear
    <3>3. y + Modulus = d - len
      BY <1>t, <1>c, <1>n, <2>3
    <3> QED
      BY <3>2, <3>3 DEF y
  <2> QED
    BY <2>1, <2>2, <2>3
<1>3. Slot(out') = IF o + len < Size THEN o + len ELSE o + len - Size
  <2>1. out + len \in 0 .. 2 * Modulus - 1 /\ len \in 0 .. Size /\ out \in Nat
    BY <1>t, <1>c, <1>n
  <2>2. Slot(out') = Slot(out + len)
    BY <1>a, <2>1, SlotWrap
  <2> QED
    BY <2>1, <2>2, SlotPlus DEF o
<1>4. result' \in Seq(Byte) /\ Len(result') = len
  <2>1. ASSUME NEW k \in 1 .. len
        PROVE  (IF k <= l THEN buffer[o + k - 1] ELSE buffer[k - l - 1]) \in Byte
    BY <1>t, <1>c, <1>n, <1>l
  <2>2. len \in Nat
    BY <1>c, <1>n
  <2> QED
    BY <1>b, <2>1, <2>2
<1>5. kfifo_data_size' = d - len /\ Bounded'
  <2>1. kfifo_data_size' = d - len
    BY <1>2 DEF kfifo_data_size
  <2>2. TypeOK'
    BY <1>1, <1>4 DEF Bounded, TypeOK
  <2> QED
    BY <1>t, <1>c, <1>n, <2>1, <2>2 DEF Bounded
<1>6. /\ Content \in Seq(Byte) /\ Len(Content) = d
      /\ \A k \in 1 .. d :
            Content[k] = buffer[IF o + k - 1 < Size THEN o + k - 1 ELSE o + k - 1 - Size]
  BY ContentPlaces DEF ContentAt, d, o
<1>7. /\ Content' \in Seq(Byte) /\ Len(Content') = d - len
      /\ \A k \in 1 .. d - len :
            Content'[k] = buffer[IF Slot(out') + k - 1 < Size THEN Slot(out') + k - 1
                                 ELSE Slot(out') + k - 1 - Size]
  BY <1>5, ContentPlacesNext DEF ContentAt, Slot
<1>8. ASSUME NEW k \in 1 .. len PROVE result'[k] = Content[k]
  <2>1. k \in 1 .. d
    BY <1>c, <1>n
  <2>2. CASE k <= l
    <3>1. o + k - 1 < Size
      BY <1>t, <1>c, <1>n, <1>l, <2>2
    <3> QED
      BY <1>b, <1>6, <2>1, <2>2, <3>1
  <2>3. CASE ~(k <= l)
    <3>1. ~(o + k - 1 < Size) /\ o + k - 1 - Size = k - l - 1
      BY <1>t, <1>c, <1>n, <1>l, <2>3
    <3>2. Content[k] = buffer[o + k - 1 - Size]
      BY <1>6, <2>1, <3>1
    <3>3. result'[k] = buffer[k - l - 1]
      BY <1>b, <2>3
    <3> QED
      BY <3>1, <3>2, <3>3
  <2> QED
    BY <2>2, <2>3
<1>9. result' = SubSeq(Content, 1, len)
  <2> DEFINE t == SubSeq(Content, 1, len)
  <2>1. len \in Nat /\ 1 \in Int /\ len \in Int /\ \A k \in 1 .. len : Content[k] \in Byte
    BY <1>c, <1>n, <1>6, ElementOfSeq
  <2>2. t \in Seq(Byte) /\ Len(t) = len /\ \A k \in 1 .. len : t[k] = Content[k]
    BY <2>1, SubSeqProperties
  <2> HIDE DEF t
  <2>3. result' = t
    BY <1>4, <1>8, <2>2, SeqEqual
  <2> QED
    BY <2>3 DEF t
<1>10. Content' = SubSeq(Content, len + 1, d)
  <2> DEFINE t == SubSeq(Content, len + 1, d)
  <2>1. len + 1 \in Int /\ d \in Int /\ \A k \in len + 1 .. d : Content[k] \in Byte
    BY <1>c, <1>n, <1>6, ElementOfSeq
  <2>2. /\ t \in Seq(Byte) /\ Len(t) = IF len + 1 <= d THEN d - (len + 1) + 1 ELSE 0
        /\ \A k \in 1 .. d - (len + 1) + 1 : t[k] = Content[len + 1 + k - 1]
    BY <2>1, SubSeqProperties
  <2> HIDE DEF t
  <2>3. Len(t) = d - len
    BY <1>c, <1>n, <2>2
  <2>4. ASSUME NEW k \in 1 .. d - len PROVE Content'[k] = t[k]
    <3>1. k \in 1 .. d - (len + 1) + 1 /\ len + 1 + k - 1 = len + k /\ len + k \in 1 .. d
      BY <1>c, <1>n
    <3>2. t[k] = Content[len + k]
      BY <2>2, <3>1
    <3>3. (IF Slot(out') + k - 1 < Size THEN Slot(out') + k - 1 ELSE Slot(out') + k - 1 - Size)
          = (IF o + (len + k) - 1 < Size THEN o + (len + k) - 1 ELSE o + (len + k) - 1 - Size)
      BY <1>t, <1>c, <1>n, <1>3
    <3> QED
      BY <1>6, <1>7, <3>1, <3>2, <3>3
  <2>5. Content' = t
    BY <1>7, <2>2, <2>3, <2>4, SeqEqual
  <2> QED
    BY <2>5 DEF t
<1>11. len \in 0 .. Len(Content)
  BY <1>6, <1>n
<1> QED
  BY <1>5, <1>6, <1>9, <1>10, <1>11

-----------------------------------------------------------------------------
(* The inductive invariant and the refinement                               *)

\* A look ahead has copied the front of what is still there.
PeekPrefix == readerPc = "peek" => \A k \in 1 .. Len(result) : result[k] = Content[k]

RingInv == Bounded /\ PeekCovered /\ PeekPrefix

LEMMA RingInit == Init => RingInv
<1> SUFFICES ASSUME Init PROVE RingInv
  OBVIOUS
<1>m. Modulus \in Nat \ {0} /\ Size \in Nat
  BY SizeAssumption
<1>1. TypeOK
  BY <1>m DEF Init, TypeOK
<1>2. kfifo_data_size = 0
  <2>1. (0 - 0) % Modulus = 0
    BY <1>m, ModNear
  <2> QED
    BY <2>1 DEF Init, kfifo_data_size
<1> QED
  BY <1>m, <1>1, <1>2 DEF RingInv, Bounded, PeekCovered, PeekPrefix, Init

\* What the abstract queue's reader has been given.
Given == IF readerPc = "peek" /\ want > 0 THEN <<>> ELSE result

AbstractStep ==
    \/ \E n \in 0 .. Size - Len(Content) : \E s \in [1 .. n -> Byte] :
           Content' = Content \o s /\ Given' = Given
    \/ \E n \in 0 .. Len(Content) :
           /\ Given' = SubSeq(Content, 1, n)
           /\ Content' = SubSeq(Content, n + 1, Len(Content)) \/ Content' = Content
    \/ Content' = Content /\ Given' = Given

LEMMA RingNext == RingInv /\ [Next]_vars => RingInv' /\ AbstractStep
<1> SUFFICES ASSUME RingInv, [Next]_vars PROVE RingInv' /\ AbstractStep
  OBVIOUS
<1>t. /\ Bounded /\ PeekCovered /\ PeekPrefix /\ TypeOK
      /\ want \in Nat /\ result \in Seq(Byte) /\ kfifo_data_size \in Nat
  BY Counts, SizeAssumption DEF RingInv, Bounded, TypeOK
<1>k. Content \in Seq(Byte) /\ Len(Content) = kfifo_data_size
  BY <1>t, ContentPlaces DEF ContentAt
<1>f. UNCHANGED fifoFields => kfifo_data_size' = kfifo_data_size /\ Content' = Content
  BY DEF fifoFields, kfifo_data_size, Content, Slot
<1>1. ASSUME NEW m \in 0 .. MaxChunk, NEW s \in [1 .. m -> Byte], kfifo_put(s)
      PROVE  RingInv' /\ AbstractStep
  <2>1. /\ Bounded'
        /\ \E n \in 0 .. Size - Len(Content) : \E t \in [1 .. n -> Byte] : Content' = Content \o t
        /\ kfifo_data_size' >= kfifo_data_size
        /\ \A k \in 1 .. kfifo_data_size : Content'[k] = Content[k]
    <3>1. m \in Nat
      BY ChunkAssumption
    <3> QED
      BY <1>1, <1>t, <3>1, PutAppends
  <2>2. UNCHANGED <<readerPc, want, result>>
    BY <1>1 DEF kfifo_put
  <2>3. kfifo_data_size' \in Nat
    BY <2>1, CountsNext, SizeAssumption
  <2>4. PeekCovered'
    BY <1>t, <2>1, <2>2, <2>3 DEF PeekCovered
  <2>5. PeekPrefix'
    <3> SUFFICES ASSUME readerPc' = "peek", NEW k \in 1 .. Len(result')
                 PROVE  result'[k] = Content'[k]
      BY DEF PeekPrefix
    <3>1. k \in 1 .. Len(result) /\ Len(result) \in Nat /\ Len(result) + want <= kfifo_data_size
      BY <1>t, <2>2 DEF PeekCovered
    <3>2. k \in 1 .. kfifo_data_size
      BY <1>t, <3>1
    <3> QED
      BY <1>t, <2>1, <2>2, <3>1, <3>2 DEF PeekPrefix
  <2>6. Given' = Given
    BY <2>2 DEF Given
  <2> QED
    BY <2>1, <2>4, <2>5, <2>6 DEF RingInv, AbstractStep
<1>2. ASSUME NEW n \in Nat,
             LET len == Min2(n, kfifo_data_size)
             IN  result' = Fetched(len) /\ out' = (out + len) % Modulus,
             UNCHANGED <<in, buffer, want>>, readerPc' \in {"idle", "received"}
      PROVE  RingInv' /\ AbstractStep
  <2>1. /\ Bounded'
        /\ \E k \in 0 .. Len(Content) :
              /\ result' = SubSeq(Content, 1, k)
              /\ Content' = SubSeq(Content, k + 1, Len(Content))
    BY <1>2, <1>t, GetTakes
  <2>2. Given' = result' /\ PeekCovered' /\ PeekPrefix'
    BY <1>2 DEF Given, PeekCovered, PeekPrefix
  <2> QED
    BY <2>1, <2>2 DEF RingInv, AbstractStep
<1>3. ASSUME NEW n \in 0 .. MaxChunk, kfifo_get(n) PROVE RingInv' /\ AbstractStep
  BY <1>2, <1>3, ChunkAssumption DEF kfifo_get
<1>4. CASE RecvRead
  BY <1>2, <1>4, <1>t DEF RecvRead
<1>5. ASSUME NEW n \in 0 .. MaxChunk, kfifo_out_peek(n) PROVE RingInv' /\ AbstractStep
  <2>1. /\ want' \in Nat /\ want' <= kfifo_data_size /\ result' = <<>> /\ readerPc' = "peek"
        /\ UNCHANGED fifoFields
    BY <1>5, <1>t, ChunkAssumption DEF kfifo_out_peek, Min2
  <2>2. Bounded'
    BY <1>t, <1>f, <2>1 DEF Bounded, TypeOK, fifoFields
  <2>3. PeekCovered' /\ PeekPrefix'
    <3>1. Len(result') = 0 /\ 1 .. Len(result') = {}
      BY <2>1
    <3>2. PeekPrefix'
      BY <3>1 DEF PeekPrefix
    <3>3. Len(result') + want' <= kfifo_data_size'
      <4>1. PICK w \in Nat : w = want' /\ w <= kfifo_data_size
        BY <2>1
      <4>2. 0 + w = w
        OBVIOUS
      <4>3. 0 + want' <= kfifo_data_size
        BY <4>1, <4>2
      <4> QED
        BY <1>f, <2>1, <3>1, <4>3
    <3> QED
      BY <3>2, <3>3 DEF PeekCovered
  <2>4. Given' = <<>>
    BY <2>1 DEF Given
  <2>5. SubSeq(Content, 1, 0) = <<>> /\ 0 \in 0 .. Len(Content)
    BY <1>t, <1>k, SubSeqEmpty
  <2> QED
    BY <1>f, <2>1, <2>2, <2>3, <2>4, <2>5 DEF RingInv, AbstractStep
<1>6. CASE kfifo_copy_out
  <2> DEFINE n == Len(result) + 1
  <2>1. /\ readerPc = "peek" /\ readerPc' = "peek" /\ want > 0 /\ want' = want - 1
        /\ result' = Append(result, buffer[Slot(out + Len(result))])
        /\ UNCHANGED fifoFields
    BY <1>6 DEF kfifo_copy_out, fifoFields
  <2>2. Len(result) \in Nat /\ n \in 1 .. kfifo_data_size /\ n + want' <= kfifo_data_size
    BY <1>t, <2>1 DEF PeekCovered
  <2>3. buffer[Slot(out + Len(result))] = Content[n] /\ Content[n] \in Byte
    <3>1. out + Len(result) = out + n - 1
      BY <1>t, <2>2 DEF TypeOK
    <3>2. Content[n] = buffer[Slot(out + n - 1)]
      BY <2>2 DEF Content
    <3>3. Content[n] \in Byte
      BY <1>k, <2>2, ElementOfSeq
    <3> QED
      BY <3>1, <3>2, <3>3
  <2>4. /\ result' \in Seq(Byte) /\ Len(result') = n
        /\ \A k \in 1 .. n : result'[k] = Content[k]
    <3>1. /\ result' \in Seq(Byte) /\ Len(result') = n /\ result'[n] = Content[n]
          /\ \A k \in 1 .. Len(result) : result'[k] = result[k]
      BY <1>t, <2>1, <2>3, AppendProperties
    <3> QED
      BY <1>t, <2>1, <2>2, <3>1 DEF PeekPrefix
  <2> HIDE DEF n
  <2>5. Bounded'
    BY <1>t, <1>f, <2>1, <2>4 DEF Bounded, TypeOK, fifoFields
  <2>6. PeekCovered' /\ PeekPrefix'
    BY <1>f, <2>1, <2>2, <2>4 DEF PeekCovered, PeekPrefix
  <2>7. CASE want' > 0
    BY <1>f, <2>1, <2>5, <2>6, <2>7 DEF RingInv, AbstractStep, Given
  <2>8. CASE ~(want' > 0)
    <3> DEFINE u == SubSeq(Content, 1, n)
    <3>1. n \in Nat /\ 1 \in Int /\ n \in Int /\ \A k \in 1 .. n : Content[k] \in Byte
      BY <1>k, <2>2, ElementOfSeq
    <3>2. u \in Seq(Byte) /\ Len(u) = n /\ \A k \in 1 .. n : u[k] = Content[k]
      BY <2>2, <3>1, SubSeqProperties
    <3> HIDE DEF u
    <3>3. result' = u
      BY <2>4, <3>2, SeqEqual
    <3>4. Given' = SubSeq(Content, 1, n) /\ n \in 0 .. Len(Content)
      BY <1>k, <2>2, <2>8, <3>3 DEF Given, u
    <3> QED
      BY <1>f, <2>1, <2>5, <2>6, <3>4 DEF RingInv, AbstractStep
  <2> QED
    BY <2>7, <2>8
\* The other steps leave the buffer and what the reader was given alone.
<1>7. ASSUME UNCHANGED <<in, out, buffer, result>>, Given' = Given, want' \in Nat,
             readerPc' \in {"idle", "peek", "recv", "received"},
             readerPc' = "peek" => readerPc = "peek" /\ want' = want
      PROVE  RingInv' /\ AbstractStep
  <2>1. kfifo_data_size' = kfifo_data_size /\ Content' = Content
    BY <1>7, <1>f DEF fifoFields
  <2>2. Bounded'
    BY <1>7, <1>t, <2>1 DEF Bounded, TypeOK
  <2>3. PeekCovered' /\ PeekPrefix'
    BY <1>7, <1>t, <2>1 DEF PeekCovered, PeekPrefix
  <2> QED
    BY <1>7, <2>1, <2>2, <2>3 DEF RingInv, AbstractStep
<1>8. CASE PeekDone
  BY <1>7, <1>8, <1>t DEF PeekDone, Given
<1>9. ASSUME NEW n \in 0 .. MaxChunk, bk_uart_recv(n) PROVE RingInv' /\ AbstractStep
  BY <1>7, <1>9, ChunkAssumption DEF bk_uart_recv, Given
<1>10. CASE RecvDone
  BY <1>7, <1>10 DEF RecvDone, Given
<1>11. CASE UNCHANGED vars
  BY <1>7, <1>11, <1>t DEF vars, Given, TypeOK
<1> QED
  BY <1>1, <1>3, <1>4, <1>5, <1>6, <1>8, <1>9, <1>10, <1>11 DEF Next

LEMMA RingInvariant == Spec => []RingInv
BY RingInit, RingNext, PTL DEF Spec

\* The indices stay in range and the ring keeps its types.
THEOREM TypeCorrect == Spec => []TypeOK
<1>1. RingInv => TypeOK
  BY DEF RingInv, Bounded
<1> QED
  BY <1>1, RingInvariant, PTL

\* kfifo_out_peek copies, without the lock, only bytes that are there.
THEOREM PeekStaysCovered == Spec => []PeekCovered
<1>1. RingInv => PeekCovered
  BY DEF RingInv
<1> QED
  BY <1>1, RingInvariant, PTL

\* common/fifo.h implements a byte queue of its size.
THEOREM Refinement == Spec => ImplementsByteFifo
<1>1. Init => Abstract!Init
  <2> SUFFICES ASSUME Init PROVE Content = <<>> /\ Given = <<>>
    BY DEF Abstract!Init, Given
  <2>1. RingInv /\ kfifo_data_size = 0
    <3>1. (0 - 0) % Modulus = 0
      BY SizeAssumption, ModNear
    <3> QED
      BY <3>1, RingInit DEF Init, kfifo_data_size
  <2>2. Content \in Seq(Byte) /\ Len(Content) = 0
    BY <2>1, ContentPlaces DEF ContentAt, RingInv
  <2> QED
    BY <2>2 DEF Init, Given
<1>2. AbstractStep => [Abstract!Next]_Abstract!fifoVars
  BY DEF AbstractStep, Given, Abstract!Next, Abstract!Put, Abstract!Get, Abstract!Peek, Abstract!fifoVars
<1>3. RingInv /\ [Next]_vars => [Abstract!Next]_Abstract!fifoVars
  BY <1>2, RingNext
<1> QED
  BY <1>1, <1>3, RingInvariant, PTL DEF Spec, ImplementsByteFifo, Abstract!Spec

-----------------------------------------------------------------------------
(* Walks, and the largest counterexample in place of induction              *)

\* A walk defined by recursion along next has the value its equation gives it, even
\* where it does not end: an equation of this form has a solution.  It is built from
\* the ends of the walk from a: the stops in every set that contains a and is closed
\* under next.
LEMMA WalkExists ==
    ASSUME NEW stop \in [Nat -> BOOLEAN], NEW res \in [Nat -> Nat], NEW nxt \in [Nat -> Nat]
    PROVE  \E f : f = [a \in Nat |-> IF stop[a] THEN res[a] ELSE f[nxt[a]]]
<1> DEFINE Closed(S) == \A y \in S : ~stop[y] => nxt[y] \in S
           Stops(a) == {x \in Nat : stop[x] /\ \A S \in SUBSET Nat : a \in S /\ Closed(S) => x \in S}
           g == [a \in Nat |-> IF Stops(a) = {} THEN 0 ELSE res[CHOOSE x : x \in Stops(a)]]
<1>1. ASSUME NEW a \in Nat, stop[a] PROVE g[a] = res[a]
  <2>1. a \in Stops(a)
    BY <1>1
  <2>2. {a} \in SUBSET Nat /\ a \in {a} /\ Closed({a})
    BY <1>1
  <2>3. \A x \in Stops(a) : x = a
    BY <2>2
  <2> HIDE DEF Stops
  <2>4. (CHOOSE x : x \in Stops(a)) = a
    BY <2>1, <2>3
  <2> QED
    BY <2>1, <2>4
<1>2. ASSUME NEW a \in Nat, ~stop[a] PROVE g[a] = g[nxt[a]]
  <2>1. nxt[a] \in Nat
    OBVIOUS
  <2>2. ASSUME NEW x \in Stops(a) PROVE x \in Stops(nxt[a])
    <3> SUFFICES ASSUME NEW S \in SUBSET Nat, nxt[a] \in S, Closed(S) PROVE x \in S
      BY <2>2
    <3>1. S \cup {a} \in SUBSET Nat /\ a \in S \cup {a}
      OBVIOUS
    <3>2. Closed(S \cup {a})
      OBVIOUS
    <3>3. x \in S \cup {a}
      BY <2>2, <3>1, <3>2
    <3>4. stop[x]
      BY <2>2
    <3> QED
      BY <1>2, <3>3, <3>4
  <2>3. ASSUME NEW x \in Stops(nxt[a]) PROVE x \in Stops(a)
    <3> SUFFICES ASSUME NEW S \in SUBSET Nat, a \in S, Closed(S) PROVE x \in S
      BY <2>3
    <3>1. nxt[a] \in S
      BY <1>2
    <3> QED
      BY <2>3, <3>1
  <2>4. Stops(a) = Stops(nxt[a])
    <3> HIDE DEF Stops
    <3> QED
      BY <2>2, <2>3
  <2> HIDE DEF Stops
  <2> QED
    BY <2>1, <2>4
<1> HIDE DEF Stops
<1>3. g = [a \in Nat |-> IF stop[a] THEN res[a] ELSE g[nxt[a]]]
  <2>1. \A a \in Nat : g[a] = IF stop[a] THEN res[a] ELSE g[nxt[a]]
    BY <1>1, <1>2
  <2> DEFINE h == [a \in Nat |-> IF stop[a] THEN res[a] ELSE g[nxt[a]]]
  <2>2. \A a \in Nat : h[a] = IF stop[a] THEN res[a] ELSE g[nxt[a]]
    OBVIOUS
  <2>3. g = [a \in Nat |-> g[a]]
    OBVIOUS
  <2> HIDE DEF g
  <2>4. [a \in Nat |-> g[a]] = h
    BY <2>1
  <2> QED
    BY <2>3, <2>4
<1> HIDE DEF g
<1> QED
  BY <1>3

\* A set of numbers has a least one.
LEMMA LeastIn ==
    ASSUME NEW S, S \subseteq Nat, S # {}
    PROVE  \E x \in S : \A y \in S : x <= y
<1>1. PICK x \in S : \A y \in S : ~(<<y, x>> \in OpToRel(<, Nat))
  BY WFMin, NatLessThanWellFounded
<1>2. \A y \in S : x <= y
  <2> SUFFICES ASSUME NEW y \in S, ~(x <= y) PROVE FALSE
    OBVIOUS
  <2>1. x \in Nat /\ y \in Nat
    OBVIOUS
  <2>2. y < x
    BY <2>1
  <2>3. <<y, x>> \in OpToRel(<, Nat)
    BY <2>1, <2>2 DEF OpToRel
  <2> QED
    BY <1>1, <2>3
<1> QED
  BY <1>2

\* The largest counterexample: what holds at x because it holds above x, and holds
\* from n on, holds everywhere.
LEMMA GreatestIn ==
    ASSUME NEW n \in Nat, NEW S, S \subseteq 0 .. n, S # {}
    PROVE  \E x \in S : \A y \in S : y <= x
<1> DEFINE R == {n - y : y \in S}
<1>1. R \subseteq Nat /\ R # {}
  <2>1. \A y \in S : y \in 0 .. n /\ n - y \in Nat
    OBVIOUS
  <2> QED
    BY <2>1
<1>2. PICK r \in R : \A q \in R : r <= q
  BY <1>1, LeastIn
<1>3. PICK x \in S : r = n - x
  BY <1>2
<1>4. \A y \in S : y <= x
  <2> SUFFICES ASSUME NEW y \in S PROVE y <= x
    OBVIOUS
  <2>1. r <= n - y
    BY <1>2
  <2>2. x \in 0 .. n /\ y \in 0 .. n
    OBVIOUS
  <2> QED
    BY <1>3, <2>1, <2>2
<1> QED
  BY <1>4
-----------------------------------------------------------------------------
(* The layout of a table                                                    *)

\* Byte k of the head of item i.
HeadByte(i, k) == IF k < 4 THEN TypeByte(i) ELSE IF k = 4 THEN ValueLen(i) ELSE 0

\* Bytes that item i takes in a table with the items D, and those of the table.
Share(i, D) == IF i \in D THEN info_item_len(i) ELSE 0
LaidSize(D) == 8 + Share("mac", D) + Share("tssi", D) + Share("dist", D)
             + Share("mode", D) + Share("charge", D) + Share("tssi_b", D)

\* A table of n bytes with the items D, at pos, with the values val: from the header
\* on, each item ends where the next one or nothing more begins.
Layout(D, pos, val, n) ==
    /\ D \subseteq Items
    /\ n = LaidSize(D)
    /\ \A i \in D : /\ pos[i] \in Nat /\ 8 <= pos[i] /\ pos[i] + info_item_len(i) <= n
                    /\ val[i] \in Values
                    /\ \/ pos[i] + info_item_len(i) = n
                       \/ \E j \in D : pos[j] = pos[i] + info_item_len(i)
    /\ n = 8 \/ \E j \in D : pos[j] = 8
    /\ \A i, j \in D : \/ i = j
                       \/ pos[i] + info_item_len(i) <= pos[j]
                       \/ pos[j] + info_item_len(j) <= pos[i]

\* What UINT32 reads is a number.
AllBytes(mem) == \A a \in Nat : ByteAt(mem, a) \in 0 .. 255

\* The first lim bytes of that table, and nothing behind them.
TableIn(mem, D, pos, val, n, lim) ==
    /\ AllBytes(mem)
    /\ HasTable(mem)
    /\ ByteAt(mem, 4) = n - 8
    /\ \A k \in 5 .. 7 : ByteAt(mem, k) = 0
    /\ \A i \in D, k \in 0 .. 7 : pos[i] + k < lim => ByteAt(mem, pos[i] + k) = HeadByte(i, k)
    /\ \A i \in D : \A k \in 0 .. Carrying(i) - 1 :
          pos[i] + 8 + k < lim => ByteAt(mem, pos[i] + 8 + k) = val[i]
    /\ \A a \in Nat : a >= lim => ByteAt(mem, a) = 255

\* Types tell items apart and are not erased bytes; the carried bytes lie in the value.
LEMMA ItemFacts ==
    /\ \A i \in Items : /\ TypeByte(i) \in 0 .. 254
                        /\ ValueLen(i) \in 4 .. 8
                        /\ Carrying(i) \in 1 .. ValueLen(i)
                        /\ info_item_len(i) = 8 + ValueLen(i)
    /\ \A i, j \in Items : TypeByte(i) = TypeByte(j) => i = j
    /\ \A v \in Values : v \in 1 .. 15
BY NetParamAssumption DEF TypeByte, ValueLen, Carrying, info_item_len, HeadSize

\* No table is longer than one with every item.
LEMMA LayoutFacts ==
    ASSUME NEW D, NEW pos, NEW val, NEW n, Layout(D, pos, val, n)
    PROVE  n \in 8 .. 84 /\ (D # {} => n >= 20)
<1>1. n = LaidSize(D) /\ D \subseteq Items
  BY DEF Layout
<1>2. /\ Share("mac", D) \in {0, 16} /\ Share("tssi", D) \in {0, 12} /\ Share("dist", D) \in {0, 12}
      /\ Share("mode", D) \in {0, 12} /\ Share("charge", D) \in {0, 12} /\ Share("tssi_b", D) \in {0, 12}
  BY DEF Share, ValueLen, info_item_len, HeadSize
<1>3. ASSUME NEW i \in D
      PROVE  /\ i \in {"mac", "tssi", "dist", "mode", "charge", "tssi_b"}
             /\ Share(i, D) = info_item_len(i) /\ info_item_len(i) >= 12
  BY <1>1, NetParamAssumption DEF Share, ValueLen, info_item_len, HeadSize
<1>4. ASSUME D # {}
      PROVE  \/ Share("mac", D) # 0 \/ Share("tssi", D) # 0 \/ Share("dist", D) # 0
             \/ Share("mode", D) # 0 \/ Share("charge", D) # 0 \/ Share("tssi_b", D) # 0
  <2>1. PICK i \in D : TRUE
    BY <1>4
  <2>2. Share(i, D) # 0
    BY <1>3 DEF ValueLen, info_item_len, HeadSize
  <2> QED
    BY <1>3, <2>2
<1> QED
  BY <1>1, <1>2, <1>4 DEF LaidSize

\* A length as save_info_item writes it.
LEMMA UINT32Small ==
    ASSUME NEW mem, NEW a \in Nat, ByteAt(mem, a) \in Int,
           ByteAt(mem, a + 1) = 0, ByteAt(mem, a + 2) = 0, ByteAt(mem, a + 3) = 0
    PROVE  UINT32(mem, a) = ByteAt(mem, a)
BY DEF UINT32

\* A length of which the last byte, and perhaps more, was not written.
LEMMA TornLength ==
    ASSUME NEW x \in 0 .. 8, NEW y \in 0 .. 255, NEW z \in 0 .. 255
    PROVE  /\ -16777216 + z * 65536 + y * 256 + x <= -248
           /\ -16777216 + z * 65536 + y * 256 + x \in Int
<1>1. z * 65536 <= 16711680 /\ z * 65536 \in Int
  BY SMT
<1>2. y * 256 <= 65280 /\ y * 256 \in Int
  BY SMT
<1> QED
  BY <1>1, <1>2, SMT

LEMMA UINT32Torn ==
    ASSUME NEW mem, NEW a \in Nat, ByteAt(mem, a) \in 0 .. 255,
           ByteAt(mem, a + 1) \in 0 .. 255, ByteAt(mem, a + 2) \in 0 .. 255, ByteAt(mem, a + 3) = 255
    PROVE  /\ ByteAt(mem, a) <= 8 => UINT32(mem, a) \in Int /\ UINT32(mem, a) <= -248
           /\ ByteAt(mem, a) = 255 /\ ByteAt(mem, a + 1) = 255 /\ ByteAt(mem, a + 2) = 255
                => UINT32(mem, a) = -1
<1>1. PICK x \in 0 .. 255, y \in 0 .. 255, z \in 0 .. 255 :
        ByteAt(mem, a) = x /\ ByteAt(mem, a + 1) = y /\ ByteAt(mem, a + 2) = z
  OBVIOUS
<1>2. UINT32(mem, a) = -16777216 + z * 65536 + y * 256 + x
  BY <1>1, SMT DEF UINT32
<1>3. x <= 8 => x \in 0 .. 8
  OBVIOUS
<1>4. x <= 8 => /\ -16777216 + z * 65536 + y * 256 + x <= -248
                /\ -16777216 + z * 65536 + y * 256 + x \in Int
  BY <1>3, TornLength, SMT
<1>5. CASE x <= 8
  BY <1>1, <1>2, <1>4, <1>5, SMT
<1>6. CASE x = 255 /\ y = 255 /\ z = 255
  BY <1>1, <1>2, <1>6, SMT
<1> QED
  BY <1>1, <1>5, <1>6

\* search_info_tbl reads the length of the table.
LEMMA TableLength ==
    ASSUME NEW mem, NEW D, NEW pos, NEW val, NEW n, NEW lim \in Nat,
           Layout(D, pos, val, n), TableIn(mem, D, pos, val, n, lim)
    PROVE  UINT32(mem, 4) = n - 8 /\ TableLen(mem) = n
<1>1. n \in 8 .. 84
  BY LayoutFacts
<1>2. ByteAt(mem, 4) = n - 8 /\ ByteAt(mem, 5) = 0 /\ ByteAt(mem, 6) = 0 /\ ByteAt(mem, 7) = 0
  BY DEF TableIn
<1>3. UINT32(mem, 4) = n - 8
  BY <1>1, <1>2, UINT32Small
<1> QED
  BY <1>1, <1>3 DEF TableIn, TableLen, HeadSize

\* search_info_item walks by its equation.
LEMMA SearchWalks ==
    ASSUME NEW mem, NEW i, AllBytes(mem)
    PROVE  \E w : /\ search_info_item(mem, i) = w[8]
                  /\ \A a \in Nat :
                        w[a] = IF a >= 8 + UINT32(mem, 4) THEN 0
                               ELSE IF IsHeadOf(mem, a, i) THEN a
                               ELSE IF a + 8 + UINT32(mem, a + 4) < 0 THEN 0
                               ELSE w[a + 8 + UINT32(mem, a + 4)]
<1> DEFINE end == 8 + UINT32(mem, 4)
           next(a) == a + 8 + UINT32(mem, a + 4)
           Step(f, a) == IF a >= end THEN 0
                         ELSE IF IsHeadOf(mem, a, i) THEN a
                         ELSE IF next(a) < 0 THEN 0 ELSE f[next(a)]
           w == CHOOSE f : f = [a \in Nat |-> Step(f, a)]
<1>1. search_info_item(mem, i) = w[8]
  BY DEF search_info_item, HeadSize
<1>2. \A a \in Nat : next(a) \in Int
  <2> SUFFICES ASSUME NEW a \in Nat PROVE next(a) \in Int
    OBVIOUS
  <2>1. ByteAt(mem, a + 4) \in Int /\ ByteAt(mem, a + 5) \in Int
        /\ ByteAt(mem, a + 6) \in Int /\ ByteAt(mem, a + 7) \in Int
    BY DEF AllBytes
  <2>2. UINT32(mem, a + 4) \in Int
    BY <2>1 DEF UINT32
  <2> QED
    BY <2>2
<1> DEFINE stop == [a \in Nat |-> a >= end \/ IsHeadOf(mem, a, i) \/ next(a) < 0]
           res == [a \in Nat |-> IF a >= end THEN 0 ELSE IF IsHeadOf(mem, a, i) THEN a ELSE 0]
           nxt == [a \in Nat |-> IF next(a) < 0 THEN 0 ELSE next(a)]
<1>3. stop \in [Nat -> BOOLEAN] /\ res \in [Nat -> Nat] /\ nxt \in [Nat -> Nat]
  <2> HIDE DEF next, end
  <2> QED
    BY <1>2
<1>4. \E f : f = [a \in Nat |-> IF stop[a] THEN res[a] ELSE f[nxt[a]]]
  <2> HIDE DEF stop, res, nxt
  <2> QED
    BY <1>3, WalkExists
<1>5. \A f : \A a \in Nat : (IF stop[a] THEN res[a] ELSE f[nxt[a]]) = Step(f, a)
  <2> HIDE DEF next, end
  <2> QED
    OBVIOUS
<1>6. \E f : f = [a \in Nat |-> Step(f, a)]
  <2>1. PICK f : f = [a \in Nat |-> IF stop[a] THEN res[a] ELSE f[nxt[a]]]
    BY <1>4
  <2>2. \A a \in Nat : (IF stop[a] THEN res[a] ELSE f[nxt[a]]) = Step(f, a)
    BY <1>5
  <2> HIDE DEF stop, res, nxt, Step
  <2>3. f = [a \in Nat |-> Step(f, a)]
    BY <2>1, <2>2
  <2> QED
    BY <2>3
<1>7. w = [a \in Nat |-> Step(w, a)]
  <2> HIDE DEF Step
  <2> QED
    BY <1>6
<1>8. \A a \in Nat : w[a] = Step(w, a)
  <2> HIDE DEF Step, w
  <2> QED
    BY <1>7
<1> HIDE DEF w
<1> QED
  BY <1>1, <1>8

\* A head that is in place leads on to the next one.
LEMMA HeadLeadsOn ==
    ASSUME NEW mem, NEW D, NEW pos, NEW val, NEW n, NEW lim \in Nat,
           Layout(D, pos, val, n), TableIn(mem, D, pos, val, n, lim),
           NEW j \in D, pos[j] + 8 <= lim
    PROVE  /\ \A i \in Items : IsHeadOf(mem, pos[j], i) <=> i = j
           /\ pos[j] + 8 + UINT32(mem, pos[j] + 4) = pos[j] + info_item_len(j)
           /\ UINT32(mem, pos[j] + 4) = ValueLen(j)
<1>1. pos[j] \in Nat /\ j \in Items
  BY DEF Layout
<1>2. \A k \in 0 .. 7 : ByteAt(mem, pos[j] + k) = HeadByte(j, k)
  BY <1>1 DEF TableIn
<1>3. \A k \in 0 .. 3 : ByteAt(mem, pos[j] + k) = TypeByte(j)
  BY <1>2 DEF HeadByte
<1>4. \A i \in Items : IsHeadOf(mem, pos[j], i) <=> i = j
  <2> SUFFICES ASSUME NEW i \in Items PROVE IsHeadOf(mem, pos[j], i) <=> i = j
    OBVIOUS
  <2>1. TypeByte(i) = TypeByte(j) => i = j
    BY <1>1, ItemFacts
  <2> QED
    BY <1>3, <2>1 DEF IsHeadOf
<1>5. ByteAt(mem, pos[j] + 4) = ValueLen(j)
  BY <1>2 DEF HeadByte
<1>6. ByteAt(mem, pos[j] + 5) = 0 /\ ByteAt(mem, pos[j] + 6) = 0 /\ ByteAt(mem, pos[j] + 7) = 0
  BY <1>2 DEF HeadByte
<1>7. ValueLen(j) \in Int /\ info_item_len(j) = 8 + ValueLen(j)
  BY <1>1, ItemFacts
<1>8. UINT32(mem, pos[j] + 4) = ValueLen(j)
  <2> DEFINE a == pos[j] + 4
  <2>1. a \in Nat /\ a + 1 = pos[j] + 5 /\ a + 2 = pos[j] + 6 /\ a + 3 = pos[j] + 7
    BY <1>1
  <2>2. ByteAt(mem, a) = ValueLen(j) /\ ByteAt(mem, a + 1) = 0 /\ ByteAt(mem, a + 2) = 0
        /\ ByteAt(mem, a + 3) = 0
    BY <1>5, <1>6, <2>1
  <2> HIDE DEF a
  <2>3. UINT32(mem, a) = ValueLen(j)
    BY <1>7, <2>1, <2>2, UINT32Small
  <2> QED
    BY <2>3 DEF a
<1> QED
  BY <1>1, <1>4, <1>7, <1>8

\* Where the items of a table are found: as many of the table's bytes as there are, an
\* item whose type is among them is found at its place.
LEMMA SearchFinds ==
    ASSUME NEW mem, NEW D, NEW pos, NEW val, NEW n, NEW lim \in Nat,
           Layout(D, pos, val, n), TableIn(mem, D, pos, val, n, lim),
           NEW i \in D, pos[i] + 4 <= lim
    PROVE  search_info_item(mem, i) = pos[i]
<1>1. PICK w : /\ search_info_item(mem, i) = w[8]
               /\ \A a \in Nat :
                     w[a] = IF a >= 8 + UINT32(mem, 4) THEN 0
                            ELSE IF IsHeadOf(mem, a, i) THEN a
                            ELSE IF a + 8 + UINT32(mem, a + 4) < 0 THEN 0
                            ELSE w[a + 8 + UINT32(mem, a + 4)]
  BY SearchWalks DEF TableIn
<1>2. n \in 8 .. 84 /\ 8 + UINT32(mem, 4) = n
  BY LayoutFacts, TableLength
<1>3. \A j \in D : /\ pos[j] \in Nat /\ 8 <= pos[j] /\ info_item_len(j) \in Nat
                   /\ info_item_len(j) >= 12 /\ pos[j] + info_item_len(j) <= n /\ j \in Items
  BY ItemFacts DEF Layout
<1> DEFINE S == {b \in 0 .. 84 : b <= pos[i] /\ (\E j \in D : pos[j] = b) /\ w[b] # pos[i]}
<1>4. S = {}
  <2> SUFFICES ASSUME S # {} PROVE FALSE
    OBVIOUS
  <2>1. PICK b \in S : \A y \in S : y <= b
    BY GreatestIn
  <2>2. PICK j \in D : pos[j] = b
    BY <2>1
  <2>3. b \in Nat /\ b <= pos[i] /\ w[b] # pos[i] /\ b < n
    BY <1>2, <1>3, <2>1, <2>2
  <2>4. i # j
    <3> SUFFICES ASSUME i = j PROVE FALSE
      OBVIOUS
    <3>1. \A k \in 0 .. 3 : ByteAt(mem, b + k) = TypeByte(i)
      <4> SUFFICES ASSUME NEW k \in 0 .. 3 PROVE ByteAt(mem, b + k) = TypeByte(i)
        OBVIOUS
      <4>1. ByteAt(mem, pos[i] + k) = HeadByte(i, k)
        BY <1>3 DEF TableIn
      <4> QED
        BY <2>2, <4>1 DEF HeadByte
    <3>2. IsHeadOf(mem, b, i)
      BY <3>1 DEF IsHeadOf
    <3> QED
      BY <1>1, <1>2, <2>2, <2>3, <3>2
  <2>5. pos[j] + info_item_len(j) <= pos[i]
    <3>1. \/ pos[i] + info_item_len(i) <= pos[j]
          \/ pos[j] + info_item_len(j) <= pos[i]
      BY <2>4 DEF Layout
    <3> QED
      BY <1>3, <2>2, <2>3, <3>1
  <2>e. ~IsHeadOf(mem, b, i) /\ b + 8 + UINT32(mem, b + 4) = b + info_item_len(j)
    <3>1. pos[j] + 8 <= lim
      BY <1>3, <2>5
    <3>2. \A x \in Items : IsHeadOf(mem, pos[j], x) <=> x = j
      BY <3>1, HeadLeadsOn
    <3>3. pos[j] + 8 + UINT32(mem, pos[j] + 4) = pos[j] + info_item_len(j)
      BY <3>1, HeadLeadsOn
    <3> QED
      BY <1>3, <2>2, <2>4, <3>2, <3>3
  <2> DEFINE c == b + info_item_len(j)
  <2>6. c \in Nat /\ c > b /\ c <= n
    BY <1>2, <1>3, <2>2, <2>3
  <2>7. c <= pos[i]
    BY <2>2, <2>5
  <2>8. \E k \in D : pos[k] = c
    <3>1. c # n
      BY <1>2, <1>3, <2>6, <2>7
    <3> QED
      BY <2>2, <3>1 DEF Layout
  <2>9. w[b] = w[c]
    <3> HIDE DEF c
    <3>1. b + 8 + UINT32(mem, b + 4) = c
      BY <2>e DEF c
    <3> QED
      BY <1>1, <1>2, <2>3, <2>e, <2>6, <3>1
  <2>10. c \in S
    <3> HIDE DEF c
    <3> QED
      BY <1>2, <2>3, <2>6, <2>7, <2>8, <2>9
  <2> HIDE DEF S, c
  <2> QED
    BY <2>1, <2>3, <2>6, <2>10
<1>5. \E j \in D : pos[j] = 8
  BY <1>2, <1>3 DEF Layout
<1>6. w[8] = pos[i]
  BY <1>2, <1>3, <1>4, <1>5
<1> QED
  BY <1>1, <1>6

\* An item whose type is not in those bytes is not found, whatever the walk meets in
\* heads that are cut off and in the erased bytes behind them.
LEMMA SearchMisses ==
    ASSUME NEW mem, NEW D, NEW pos, NEW val, NEW n, NEW lim \in Nat,
           Layout(D, pos, val, n), TableIn(mem, D, pos, val, n, lim), 8 <= lim,
           NEW i \in Items, i \in D => pos[i] + 4 > lim
    PROVE  search_info_item(mem, i) = 0
<1>1. PICK w : /\ search_info_item(mem, i) = w[8]
               /\ \A a \in Nat :
                     w[a] = IF a >= 8 + UINT32(mem, 4) THEN 0
                            ELSE IF IsHeadOf(mem, a, i) THEN a
                            ELSE IF a + 8 + UINT32(mem, a + 4) < 0 THEN 0
                            ELSE w[a + 8 + UINT32(mem, a + 4)]
  BY SearchWalks DEF TableIn
<1>2. n \in 8 .. 84 /\ 8 + UINT32(mem, 4) = n
  BY LayoutFacts, TableLength
<1>3. \A j \in D : /\ pos[j] \in Nat /\ 8 <= pos[j] /\ info_item_len(j) \in Nat
                   /\ info_item_len(j) >= 12 /\ pos[j] + info_item_len(j) <= n /\ j \in Items
  BY ItemFacts DEF Layout
<1> DEFINE Miss(a) == a = 0
           S == {b \in 0 .. 84 : /\ b = n \/ b >= lim \/ \E j \in D : pos[j] = b
                                 /\ ~Miss(w[b])}
<1>n. \A b \in Nat : b >= n => Miss(w[b])
  BY <1>1, <1>2
<1>4. S = {}
  <2> SUFFICES ASSUME S # {} PROVE FALSE
    OBVIOUS
  <2>1. PICK b \in S : \A y \in S : y <= b
    BY GreatestIn
  <2>2. b \in Nat /\ ~Miss(w[b]) /\ b < n /\ (b >= lim \/ \E j \in D : pos[j] = b)
    BY <1>2, <1>n, <2>1
  <2> DEFINE c == b + 8 + UINT32(mem, b + 4)
  <2>3. ASSUME NEW x \in Nat, x > b, x >= n \/ x >= lim \/ \E j \in D : pos[j] = x
        PROVE  Miss(w[x])
    <3> HIDE DEF Miss
    <3>1. CASE x >= n
      BY <1>n, <3>1
    <3>2. CASE x < n
      <4>1. x \in 0 .. 84 /\ x \notin S
        BY <1>2, <2>1, <2>2, <2>3, <3>2
      <4> QED
        BY <1>2, <2>3, <3>2, <4>1
    <3> QED
      BY <1>2, <3>1, <3>2
  <2>4. CASE b + 8 <= lim
    <3>1. PICK j \in D : pos[j] = b
      BY <2>2, <2>4
    <3>2. i # j
      BY <1>3, <2>4, <3>1
    <3>3. ~IsHeadOf(mem, b, i) /\ c = b + info_item_len(j)
      BY <2>4, <3>1, <3>2, HeadLeadsOn
    <3>4. c \in Nat /\ c > b
      BY <1>3, <2>2, <3>1, <3>3
    <3>5. c >= n \/ \E k \in D : pos[k] = c
      BY <1>2, <3>1, <3>3 DEF Layout
    <3>6. w[b] = w[c]
      <4> HIDE DEF Miss
      <4> QED
        BY <1>1, <1>2, <2>2, <3>3, <3>4
    <3>7. Miss(w[c])
      <4> HIDE DEF Miss, c
      <4> QED
        BY <2>3, <3>4, <3>5
    <3> QED
      BY <2>2, <3>6, <3>7
  <2>5. CASE b + 8 > lim
    <3>1. ~IsHeadOf(mem, b, i)
      <4> SUFFICES ASSUME IsHeadOf(mem, b, i) PROVE FALSE
        OBVIOUS
      <4>1. ByteAt(mem, b + 0) = TypeByte(i) /\ ByteAt(mem, b + 3) = TypeByte(i) /\ TypeByte(i) # 255
        BY ItemFacts DEF IsHeadOf
      <4>2. b + 4 <= lim
        BY <2>2, <4>1 DEF TableIn
      <4>3. PICK j \in D : pos[j] = b
        BY <2>2, <4>2
      <4>4. ByteAt(mem, pos[j] + 0) = HeadByte(j, 0)
        BY <2>2, <4>2, <4>3 DEF TableIn
      <4>5. TypeByte(i) = TypeByte(j)
        BY <4>1, <4>3, <4>4 DEF HeadByte
      <4>6. i = j
        BY <1>3, <4>5, ItemFacts
      <4> QED
        BY <1>3, <4>2, <4>3, <4>6
    <3>2. w[b] = IF c < 0 THEN 0 ELSE w[c]
      <4> HIDE DEF Miss
      <4> QED
        BY <1>1, <1>2, <2>2, <3>1
    <3>3. c < 0 \/ c = b + 7
      <4> DEFINE B(k) == ByteAt(mem, b + 4 + k)
      <4>1. B(3) = 255
        BY <2>2, <2>5 DEF TableIn
      <4>2. \A k \in 0 .. 2 : B(k) \in 0 .. 255
        BY <2>2 DEF TableIn, AllBytes
      <4>3. b + 4 >= lim => B(0) = 255 /\ B(1) = 255 /\ B(2) = 255
        BY <2>2 DEF TableIn
      <4>4. b + 4 < lim => B(0) <= 8
        <5> SUFFICES ASSUME b + 4 < lim PROVE B(0) <= 8
          OBVIOUS
        <5>1. PICK j \in D : pos[j] = b
          BY <2>2
        <5>2. ByteAt(mem, pos[j] + 4) = HeadByte(j, 4)
          BY <5>1 DEF TableIn
        <5>3. ValueLen(j) \in 4 .. 8
          BY <1>3, ItemFacts
        <5> QED
          BY <2>2, <5>1, <5>2, <5>3 DEF HeadByte
      <4>5. B(0) \in 0 .. 255 /\ B(1) \in 0 .. 255 /\ B(2) \in 0 .. 255
        BY <4>2
      <4>6. /\ B(0) <= 8 => UINT32(mem, b + 4) \in Int /\ UINT32(mem, b + 4) <= -248
            /\ B(0) = 255 /\ B(1) = 255 /\ B(2) = 255 => UINT32(mem, b + 4) = -1
        <5> DEFINE a == b + 4
        <5>1. a \in Nat /\ a + 0 = a
          BY <2>2
        <5>2. /\ ByteAt(mem, a) \in 0 .. 255 /\ ByteAt(mem, a + 1) \in 0 .. 255
              /\ ByteAt(mem, a + 2) \in 0 .. 255 /\ ByteAt(mem, a + 3) = 255
          BY <4>1, <4>5, <5>1
        <5>3. ByteAt(mem, a) = B(0)
          BY <5>1
        <5> HIDE DEF a
        <5>4. /\ ByteAt(mem, a) <= 8 => UINT32(mem, a) \in Int /\ UINT32(mem, a) <= -248
              /\ ByteAt(mem, a) = 255 /\ ByteAt(mem, a + 1) = 255 /\ ByteAt(mem, a + 2) = 255
                   => UINT32(mem, a) = -1
          BY <5>1, <5>2, UINT32Torn
        <5> QED
          BY <5>3, <5>4 DEF a
      <4> HIDE DEF B
      <4> QED
        BY <1>2, <2>2, <4>3, <4>4, <4>6
    <3>4. CASE c < 0
      <4> HIDE DEF c
      <4> QED
        BY <2>2, <3>2, <3>4
    <3>5. CASE c = b + 7
      <4>1. c \in Nat /\ c > b /\ c >= lim /\ ~(c < 0)
        BY <2>2, <2>5, <3>5
      <4>2. Miss(w[c])
        <5> HIDE DEF Miss, c
        <5> QED
          BY <2>3, <4>1
      <4> HIDE DEF c
      <4> QED
        BY <2>2, <3>2, <4>1, <4>2
    <3> QED
      BY <3>3, <3>4, <3>5
  <2> QED
    BY <2>2, <2>4, <2>5
<1>5. 8 = n \/ \E j \in D : pos[j] = 8
  BY DEF Layout
<1>6. Miss(w[8])
  <2> HIDE DEF Miss
  <2> QED
    BY <1>4, <1>5
<1> QED
  BY <1>1, <1>6

\* The bytes that are read as the value of i.
ReadBytes(mem, i) == {ByteAt(mem, search_info_item(mem, i) + HeadSize + k) : k \in 0 .. Carrying(i) - 1}

LEMMA GetCases ==
    ASSUME NEW mem, NEW i, search_info_item(mem, i) \in Nat, HasTable(mem)
    PROVE  LET a == search_info_item(mem, i)
               len == UINT32(mem, a + 4)
           IN get_info_item(mem, i) = IF a = 0 THEN Absent
                                      ELSE IF ~Fits(len, i) THEN Overrun
                                      ELSE IF len >= Carrying(i) /\ Cardinality(ReadBytes(mem, i)) = 1
                                           THEN CHOOSE b \in ReadBytes(mem, i) : TRUE
                                      ELSE Torn
BY DEF get_info_item, ReadBytes

\* An item whose head is there is read with the length it was saved with.
LEMMA GetHeaded ==
    ASSUME NEW mem, NEW D, NEW pos, NEW val, NEW n, NEW lim \in Nat,
           Layout(D, pos, val, n), TableIn(mem, D, pos, val, n, lim),
           NEW i \in D, pos[i] + 8 <= lim
    PROVE  /\ search_info_item(mem, i) = pos[i]
           /\ get_info_item(mem, i) = IF Cardinality(ReadBytes(mem, i)) = 1
                                      THEN CHOOSE b \in ReadBytes(mem, i) : TRUE ELSE Torn
<1>1. /\ pos[i] \in Nat /\ pos[i] # 0 /\ i \in Items
      /\ ValueLen(i) \in Nat /\ Carrying(i) \in Nat /\ Carrying(i) <= ValueLen(i)
  BY ItemFacts DEF Layout
<1>2. pos[i] + 4 <= lim
  BY <1>1
<1>3. search_info_item(mem, i) = pos[i]
  BY <1>2, SearchFinds
<1>4. UINT32(mem, pos[i] + 4) = ValueLen(i)
  BY HeadLeadsOn
<1>5. Fits(ValueLen(i), i) /\ ValueLen(i) >= Carrying(i)
  BY <1>1 DEF Fits
<1>6. HasTable(mem)
  BY DEF TableIn
<1> QED
  BY <1>1, <1>3, <1>4, <1>5, <1>6, GetCases

\* An item whose bytes are there is read as its value.
LEMMA GetFinds ==
    ASSUME NEW mem, NEW D, NEW pos, NEW val, NEW n, NEW lim \in Nat,
           Layout(D, pos, val, n), TableIn(mem, D, pos, val, n, lim),
           NEW i \in D, pos[i] + 8 + Carrying(i) <= lim
    PROVE  get_info_item(mem, i) = val[i]
<1>1. /\ pos[i] \in Nat /\ i \in Items
      /\ Carrying(i) \in Nat /\ Carrying(i) >= 1
  BY ItemFacts DEF Layout
<1> DEFINE bytes == ReadBytes(mem, i)
<1>2. /\ search_info_item(mem, i) = pos[i]
      /\ get_info_item(mem, i) = IF Cardinality(bytes) = 1 THEN CHOOSE b \in bytes : TRUE ELSE Torn
  <2>1. pos[i] + 8 <= lim
    BY <1>1
  <2> QED
    BY <2>1, GetHeaded
<1>3. bytes = {val[i]}
  <2>1. \A k \in 0 .. Carrying(i) - 1 : ByteAt(mem, pos[i] + 8 + k) = val[i]
    BY <1>1 DEF TableIn
  <2>2. 0 \in 0 .. Carrying(i) - 1
    BY <1>1
  <2> QED
    BY <1>2, <2>1, <2>2 DEF HeadSize, ReadBytes
<1>4. Cardinality(bytes) = 1
  BY <1>3, FS_Singleton
<1>5. (CHOOSE b \in bytes : TRUE) = val[i]
  <2> HIDE DEF bytes
  <2> QED
    BY <1>3
<1> QED
  BY <1>2, <1>4, <1>5

\* An item cut in its value is read with erased bytes.
LEMMA GetCutValue ==
    ASSUME NEW mem, NEW D, NEW pos, NEW val, NEW n, NEW lim \in Nat,
           Layout(D, pos, val, n), TableIn(mem, D, pos, val, n, lim),
           NEW i \in D, pos[i] + 8 <= lim, lim < pos[i] + 8 + Carrying(i)
    PROVE  get_info_item(mem, i) \in {Torn, Erased}
<1>1. pos[i] \in Nat /\ Carrying(i) \in Nat
  BY ItemFacts DEF Layout
<1> DEFINE bytes == ReadBytes(mem, i)
           x == lim - (pos[i] + 8)
<1>2. /\ search_info_item(mem, i) = pos[i]
      /\ get_info_item(mem, i) = IF Cardinality(bytes) = 1 THEN CHOOSE b \in bytes : TRUE ELSE Torn
  BY GetHeaded
<1>3. x \in 0 .. Carrying(i) - 1 /\ pos[i] + 8 + x = lim
  BY <1>1
<1>4. ByteAt(mem, lim) = 255
  BY DEF TableIn
<1> HIDE DEF x
<1>5. 255 \in bytes
  BY <1>2, <1>3, <1>4 DEF HeadSize, ReadBytes
<1>6. IsFiniteSet(bytes)
  <2>1. \A b \in bytes : b \in 0 .. 255
    BY <1>1, <1>2 DEF HeadSize, AllBytes, ReadBytes, TableIn
  <2>2. bytes \in SUBSET Nat /\ \A b \in bytes : b <= 255
    BY <2>1
  <2> HIDE DEF bytes
  <2> QED
    BY <2>2, FS_BoundedSetOfNaturals
<1> HIDE DEF bytes
<1>7. Cardinality(bytes) = 1 => (CHOOSE b \in bytes : TRUE) = 255
  <2> SUFFICES ASSUME Cardinality(bytes) = 1 PROVE (CHOOSE b \in bytes : TRUE) = 255
    OBVIOUS
  <2>1. PICK y : bytes = {y}
    BY <1>6, FS_Singleton
  <2> QED
    BY <1>5, <2>1
<1> QED
  BY <1>2, <1>7 DEF Erased

\* An item cut in its head, behind its type, is read with a length nobody wrote.
LEMMA GetCutHead ==
    ASSUME NEW mem, NEW D, NEW pos, NEW val, NEW n, NEW lim \in Nat,
           Layout(D, pos, val, n), TableIn(mem, D, pos, val, n, lim),
           NEW i \in D, pos[i] + 4 <= lim, lim < pos[i] + 8
    PROVE  get_info_item(mem, i) = Overrun
<1>1. pos[i] \in Nat /\ pos[i] # 0 /\ i \in Items /\ ValueLen(i) \in 4 .. 8
  BY ItemFacts DEF Layout
<1>2. search_info_item(mem, i) = pos[i]
  BY SearchFinds
<1> DEFINE a == pos[i] + 4
<1>3. a \in Nat /\ a + 1 \in Nat /\ a + 2 \in Nat /\ a + 3 \in Nat
  BY <1>1
<1>4. /\ ByteAt(mem, a) \in 0 .. 255 /\ ByteAt(mem, a + 1) \in 0 .. 255
      /\ ByteAt(mem, a + 2) \in 0 .. 255 /\ ByteAt(mem, a + 3) = 255
  <2>1. a + 3 >= lim
    BY <1>1
  <2> HIDE DEF a
  <2> QED
    BY <1>3, <2>1 DEF TableIn, AllBytes
<1>5. \/ ByteAt(mem, a) <= 8
      \/ ByteAt(mem, a) = 255 /\ ByteAt(mem, a + 1) = 255 /\ ByteAt(mem, a + 2) = 255
  <2>1. CASE a < lim
    <3>1. ByteAt(mem, pos[i] + 4) = HeadByte(i, 4)
      BY <2>1 DEF TableIn
    <3> QED
      BY <1>1, <3>1 DEF HeadByte
  <2>2. CASE a >= lim
    <3> HIDE DEF a
    <3> QED
      BY <1>3, <2>2 DEF TableIn
  <2> QED
    BY <1>3, <2>1, <2>2
<1>6. UINT32(mem, a) \in Int /\ UINT32(mem, a) < 0
  <2> HIDE DEF a
  <2>1. /\ ByteAt(mem, a) <= 8 => UINT32(mem, a) \in Int /\ UINT32(mem, a) <= -248
        /\ ByteAt(mem, a) = 255 /\ ByteAt(mem, a + 1) = 255 /\ ByteAt(mem, a + 2) = 255
             => UINT32(mem, a) = -1
    BY <1>3, <1>4, UINT32Torn
  <2> QED
    BY <1>5, <2>1
<1>7. ~Fits(UINT32(mem, a), i)
  <2> HIDE DEF a
  <2> QED
    BY <1>6 DEF Fits
<1>8. HasTable(mem)
  BY DEF TableIn
<1> QED
  BY <1>1, <1>2, <1>7, <1>8, GetCases

\* An item of which less is there is not found.
LEMMA GetMisses ==
    ASSUME NEW mem, NEW D, NEW pos, NEW val, NEW n, NEW lim \in Nat,
           Layout(D, pos, val, n), TableIn(mem, D, pos, val, n, lim), 8 <= lim,
           NEW i \in Items, i \in D => pos[i] + 4 > lim
    PROVE  get_info_item(mem, i) = Absent
<1>1. search_info_item(mem, i) = 0
  BY SearchMisses
<1>2. HasTable(mem)
  BY DEF TableIn
<1> QED
  BY <1>1, <1>2, GetCases

\* Reading a whole table.
LEMMA GetWhole ==
    ASSUME NEW mem, NEW D, NEW pos, NEW val, NEW n,
           Layout(D, pos, val, n), TableIn(mem, D, pos, val, n, n), NEW i \in Items
    PROVE  /\ get_info_item(mem, i) = IF i \in D THEN val[i] ELSE Absent
           /\ search_info_item(mem, i) = IF i \in D THEN pos[i] ELSE 0
<1>1. n \in Nat /\ 8 <= n
  BY LayoutFacts
<1>2. CASE i \in D
  <2>1. pos[i] \in Nat /\ pos[i] + 8 + Carrying(i) <= n /\ pos[i] + 4 <= n
    BY <1>1, <1>2, ItemFacts DEF Layout
  <2> QED
    BY <1>1, <1>2, <2>1, GetFinds, SearchFinds
<1>3. CASE i \notin D
  <2>1. get_info_item(mem, i) = Absent
    BY <1>1, <1>3, GetMisses
  <2>2. search_info_item(mem, i) = 0
    BY <1>1, <1>3, SearchMisses
  <2> QED
    BY <1>3, <2>1, <2>2
<1> QED
  BY <1>2, <1>3

-----------------------------------------------------------------------------
(* The new table                                                            *)

\* What save_info_item puts at off, in a table of tot bytes of which old are copied.
Built(tab, mem, i, v, off, tot, old) ==
    /\ DOMAIN tab = 0 .. tot - 1
    /\ AllBytes(tab)
    /\ HasTable(tab) /\ ByteAt(tab, 4) = tot - 8 /\ \A k \in 5 .. 7 : ByteAt(tab, k) = 0
    /\ \A k \in 0 .. 7 : ByteAt(tab, off + k) = HeadByte(i, k)
    /\ \A k \in 0 .. Carrying(i) - 1 : ByteAt(tab, off + 8 + k) = v
    /\ \A a \in 8 .. old - 1 : a < off \/ a >= off + 8 + Carrying(i) => ByteAt(tab, a) = ByteAt(mem, a)
    /\ \A a \in Nat : a >= tot => ByteAt(tab, a) = 255

\* In the three cases of save_info_item: no table, no such item, the item is there.
LEMMA TableBuilt ==
    ASSUME NEW mem, AllBytes(mem), NEW i \in Items, NEW v \in Values,
           NEW off \in Nat, NEW tot \in 8 .. 84, NEW old \in 0 .. tot,
           8 <= off, off + info_item_len(i) <= tot,
           LET has == HasTable(mem)
               found == IF has THEN search_info_item(mem, i) ELSE 0
           IN  \/ ~has /\ off = 8 /\ tot = 8 + info_item_len(i) /\ old = 0
               \/ /\ has /\ found = 0 /\ off = TableLen(mem)
                  /\ tot = TableLen(mem) + info_item_len(i) /\ old = TableLen(mem)
               \/ /\ has /\ found # 0 /\ off = found
                  /\ tot = TableLen(mem) /\ old = TableLen(mem)
    PROVE  Built(NewTable(mem, i, v), mem, i, v, off, tot, old)
<1> DEFINE tab == NewTable(mem, i, v)
           len == tot - 8
           At(a) == IF a < 8 THEN HeaderByte(len, a)
                    ELSE IF a \in off .. off + 8 + Carrying(i) - 1 THEN ItemByte(i, v, a - off)
                    ELSE IF a < TableLen(mem) THEN ByteAt(mem, a) ELSE 0
<1>1. tab = [a \in 0 .. tot - 1 |-> At(a)]
  <2> DEFINE has == HasTable(mem)
             found == IF has THEN search_info_item(mem, i) ELSE 0
             old2 == TableLen(mem)
             off2 == IF ~has THEN HeadSize ELSE IF found = 0 THEN old2 ELSE found
             tot2 == IF ~has THEN HeadSize + info_item_len(i)
                     ELSE IF found = 0 THEN old2 + info_item_len(i) ELSE old2
  <2>1. tab = [a \in 0 .. tot2 - 1 |->
                 IF a < HeadSize THEN HeaderByte(HeadLen(tot2, i), a)
                 ELSE IF a \in off2 .. off2 + HeadSize + Carrying(i) - 1 THEN ItemByte(i, v, a - off2)
                 ELSE IF a < TableLen(mem) THEN ByteAt(mem, a) ELSE 0]
    BY DEF NewTable
  <2>2. off2 = off /\ tot2 = tot
    BY DEF HeadSize
  <2>3. HeadLen(tot, i) = len
    BY DEF HeadLen, HeadSize
  <2> HIDE DEF off2, tot2, tab, len
  <2> QED
    BY <2>1, <2>2, <2>3 DEF HeadSize
<1>2. len \in 0 .. 76 /\ len % 256 = len /\ len \div 256 = 0
  OBVIOUS
<1>3. /\ ValueLen(i) \in 4 .. 8 /\ TypeByte(i) \in 0 .. 255 /\ Carrying(i) \in 1 .. ValueLen(i)
      /\ info_item_len(i) = 8 + ValueLen(i) /\ v \in 0 .. 255
  BY ItemFacts
<1> HIDE DEF tab, len
<1>4. DOMAIN tab = 0 .. tot - 1 /\ \A a \in 0 .. tot - 1 : ByteAt(tab, a) = At(a)
  <2> HIDE DEF At
  <2> QED
    BY <1>1 DEF ByteAt
<1>5. \A a \in Nat : a >= tot => ByteAt(tab, a) = 255
  <2> HIDE DEF At
  <2> QED
    BY <1>4 DEF ByteAt, Erased
<1>a. \A a \in 0 .. 7 : ByteAt(tab, a) = HeaderByte(len, a)
  BY <1>3, <1>4
<1>6. \A k \in 0 .. 3 : ByteAt(tab, k) = Magic[k + 1]
  BY <1>a DEF HeaderByte
<1>7. ByteAt(tab, 4) = len /\ ByteAt(tab, 5) = 0 /\ ByteAt(tab, 6) = 0 /\ ByteAt(tab, 7) = 0
  BY <1>2, <1>a DEF HeaderByte
<1>8. \A k \in 0 .. 7 : ByteAt(tab, off + k) = HeadByte(i, k)
  <2> SUFFICES ASSUME NEW k \in 0 .. 7 PROVE ByteAt(tab, off + k) = HeadByte(i, k)
    OBVIOUS
  <2>1. off + k \in 8 .. tot - 1
    BY <1>3
  <2>2. ByteAt(tab, off + k) = At(off + k)
    <3> HIDE DEF At
    <3> QED
      BY <1>4, <2>1
  <2> QED
    BY <1>3, <2>1, <2>2 DEF HeadByte, ItemByte, HeadSize
<1>9. \A k \in 0 .. Carrying(i) - 1 : ByteAt(tab, off + 8 + k) = v
  <2> SUFFICES ASSUME NEW k \in 0 .. Carrying(i) - 1 PROVE ByteAt(tab, off + 8 + k) = v
    OBVIOUS
  <2>1. off + 8 + k \in 8 .. tot - 1
    BY <1>3
  <2>2. ByteAt(tab, off + 8 + k) = At(off + 8 + k)
    <3> HIDE DEF At
    <3> QED
      BY <1>4, <2>1
  <2> QED
    BY <1>3, <2>1, <2>2 DEF ItemByte, HeadSize
<1>10. \A a \in 8 .. old - 1 : a < off \/ a >= off + 8 + Carrying(i) => ByteAt(tab, a) = ByteAt(mem, a)
  <2> SUFFICES ASSUME NEW a \in 8 .. old - 1, a < off \/ a >= off + 8 + Carrying(i)
               PROVE  ByteAt(tab, a) = ByteAt(mem, a)
    OBVIOUS
  <2>1. ByteAt(tab, a) = At(a)
    <3> HIDE DEF At
    <3> QED
      BY <1>4
  <2>2. a < TableLen(mem)
    OBVIOUS
  <2> QED
    BY <1>3, <2>1, <2>2
<1>11. AllBytes(tab)
  <2> SUFFICES ASSUME NEW a \in Nat PROVE ByteAt(tab, a) \in 0 .. 255
    BY DEF AllBytes
  <2>1. CASE a >= tot
    BY <1>5, <2>1
  <2>2. CASE a < tot
    <3>1. ByteAt(tab, a) = At(a) /\ ByteAt(mem, a) \in 0 .. 255
      <4> HIDE DEF At
      <4> QED
        BY <1>4, <2>2 DEF AllBytes
    <3>2. a < 8 => HeaderByte(len, a) \in 0 .. 255
      BY <1>2 DEF HeaderByte, Magic
    <3>3. \A k : ItemByte(i, v, k) \in 0 .. 255
      BY <1>3 DEF ItemByte
    <3> QED
      BY <3>1, <3>2, <3>3
  <2> QED
    BY <2>1, <2>2
<1> QED
  BY <1>4, <1>5, <1>6, <1>7, <1>8, <1>9, <1>10, <1>11 DEF Built, HasTable, tab, len

\* What flash holds while the power does not fail: nothing yet, or a whole table.
Holds(mem, D, pos, val, n) ==
    /\ Layout(D, pos, val, n)
    /\ IF D = {} THEN \A a \in Nat : ByteAt(mem, a) = 255 ELSE TableIn(mem, D, pos, val, n, n)

\* With item i saved as v: an item that was there keeps its place, a new one comes last.
NewPos(D, pos, n, i) == [j \in D \cup {i} |-> IF j \in D THEN pos[j] ELSE n]
NewVal(D, val, i, v) == [j \in D \cup {i} |-> IF j = i THEN v ELSE val[j]]
NewSize(D, n, i) == IF i \in D THEN n ELSE n + info_item_len(i)

\* It is a layout again.
LEMMA NewLayout ==
    ASSUME NEW D, NEW pos, NEW val, NEW n, Layout(D, pos, val, n),
           NEW i \in Items, NEW v \in Values
    PROVE  Layout(D \cup {i}, NewPos(D, pos, n, i), NewVal(D, val, i, v), NewSize(D, n, i))
<1> DEFINE E == D \cup {i}
           p == NewPos(D, pos, n, i)
           m == NewSize(D, n, i)
<1>1. n \in 8 .. 84
  BY LayoutFacts
<1>2. \A j \in Items : info_item_len(j) \in Nat /\ info_item_len(j) >= 12
  BY ItemFacts
<1>3. E \subseteq Items /\ D \subseteq Items /\ i \in E
  BY DEF Layout
<1>4. \A j \in E : p[j] = IF j \in D THEN pos[j] ELSE n
  BY DEF NewPos
<1>5. \A j \in E : NewVal(D, val, i, v)[j] = IF j = i THEN v ELSE val[j]
  BY DEF NewVal
<1>6. m = IF i \in D THEN n ELSE n + info_item_len(i)
  BY DEF NewSize
<1>7. m = LaidSize(E)
  <2>1. n = LaidSize(D)
    BY DEF Layout
  <2>2. CASE i \in D
    <3>1. E = D
      BY <2>2
    <3> QED
      BY <1>6, <2>1, <2>2, <3>1
  <2>3. CASE i \notin D
    <3>1. i \in {"mac", "tssi", "dist", "mode", "charge", "tssi_b"}
      BY NetParamAssumption
    <3>2. Share(i, D) = 0 /\ Share(i, E) = info_item_len(i) /\ info_item_len(i) \in Nat
      BY <1>2, <2>3 DEF Share
    <3>3. \A j : j # i => Share(j, E) = Share(j, D)
      BY DEF Share
    <3>4. \A j : Share(j, D) \in Nat
      BY DEF Share, ValueLen, info_item_len, HeadSize
    <3> HIDE DEF E, m
    <3>5. LaidSize(E) = LaidSize(D) + info_item_len(i)
      <4>1. CASE i = "mac"
        BY <3>2, <3>3, <3>4, <4>1 DEF LaidSize
      <4>2. CASE i = "tssi"
        BY <3>2, <3>3, <3>4, <4>2 DEF LaidSize
      <4>3. CASE i = "dist"
        BY <3>2, <3>3, <3>4, <4>3 DEF LaidSize
      <4>4. CASE i = "mode"
        BY <3>2, <3>3, <3>4, <4>4 DEF LaidSize
      <4>5. CASE i = "charge"
        BY <3>2, <3>3, <3>4, <4>5 DEF LaidSize
      <4>6. CASE i = "tssi_b"
        BY <3>2, <3>3, <3>4, <4>6 DEF LaidSize
      <4> QED
        BY <3>1, <4>1, <4>2, <4>3, <4>4, <4>5, <4>6
    <3> QED
      BY <1>6, <2>1, <2>3, <3>5
  <2> QED
    BY <2>2, <2>3
<1>8. m \in Nat /\ n <= m /\ (i \notin D => m = n + info_item_len(i))
  BY <1>1, <1>2, <1>6
<1>9. \A j \in D : /\ pos[j] \in Nat /\ 8 <= pos[j] /\ pos[j] + info_item_len(j) <= n
                   /\ val[j] \in Values
                   /\ \/ pos[j] + info_item_len(j) = n
                      \/ \E k \in D : pos[k] = pos[j] + info_item_len(j)
  BY DEF Layout
<1> HIDE DEF p, m
<1>10. ASSUME NEW j \in E
       PROVE  /\ p[j] \in Nat /\ 8 <= p[j] /\ p[j] + info_item_len(j) <= m
              /\ NewVal(D, val, i, v)[j] \in Values
              /\ \/ p[j] + info_item_len(j) = m
                 \/ \E k \in E : p[k] = p[j] + info_item_len(j)
  <2>1. CASE j \in D
    <3>1. p[j] = pos[j] /\ pos[j] \in Nat /\ 8 <= pos[j] /\ pos[j] + info_item_len(j) <= n
      BY <1>4, <1>9, <2>1
    <3>2. NewVal(D, val, i, v)[j] \in Values
      BY <1>5, <1>9, <2>1
    <3>3. \/ p[j] + info_item_len(j) = m
          \/ \E k \in E : p[k] = p[j] + info_item_len(j)
      <4>1. CASE \E k \in D : pos[k] = pos[j] + info_item_len(j)
        BY <1>4, <3>1, <4>1
      <4>2. CASE pos[j] + info_item_len(j) = n
        <5>1. CASE i \in D
          BY <1>6, <3>1, <4>2, <5>1 DEF m
        <5>2. CASE i \notin D
          <6>1. p[i] = n
            BY <1>3, <1>4, <5>2
          <6> QED
            BY <1>3, <3>1, <4>2, <6>1
        <5> QED
          BY <5>1, <5>2
      <4> QED
        BY <1>9, <2>1, <4>1, <4>2
    <3>4. p[j] + info_item_len(j) <= m
      BY <1>1, <1>2, <1>3, <1>8, <3>1
    <3> QED
      BY <3>1, <3>2, <3>3, <3>4
  <2>2. CASE j \notin D
    <3>1. j = i /\ p[j] = n /\ NewVal(D, val, i, v)[j] = v /\ m = n + info_item_len(j)
      BY <1>4, <1>5, <1>8, <2>2
    <3> QED
      BY <1>1, <1>8, <3>1
  <2> QED
    BY <2>1, <2>2
<1>11. m = 8 \/ \E j \in E : p[j] = 8
  <2>1. CASE \E j \in D : pos[j] = 8
    BY <1>4, <2>1
  <2>2. CASE n = 8
    <3>1. D = {}
      <4> SUFFICES ASSUME NEW j \in D PROVE FALSE
        OBVIOUS
      <4> QED
        BY <1>2, <1>3, <1>9, <2>2
    <3> QED
      BY <1>3, <1>4, <2>2, <3>1
  <2> QED
    BY <2>1, <2>2 DEF Layout
<1>12. ASSUME NEW j \in E, NEW k \in E
       PROVE  \/ j = k
              \/ p[j] + info_item_len(j) <= p[k]
              \/ p[k] + info_item_len(k) <= p[j]
  <2>1. CASE j \in D /\ k \in D
    BY <1>4, <2>1 DEF Layout
  <2>2. CASE j \in D /\ k \notin D
    <3>1. p[j] = pos[j] /\ p[k] = n
      BY <1>4, <2>2
    <3> QED
      BY <1>9, <2>2, <3>1
  <2>3. CASE j \notin D /\ k \in D
    <3>1. p[k] = pos[k] /\ p[j] = n
      BY <1>4, <2>3
    <3> QED
      BY <1>9, <2>3, <3>1
  <2>4. CASE j \notin D /\ k \notin D
    BY <2>4
  <2> QED
    BY <2>1, <2>2, <2>3, <2>4
<1>13. Layout(E, p, NewVal(D, val, i, v), m)
  <2> HIDE DEF E
  <2> QED
    BY <1>3, <1>7, <1>10, <1>11, <1>12 DEF Layout, m
<1> QED
  BY <1>13 DEF p, m

\* Saving gives the table with that layout.
LEMMA SavedTable ==
    ASSUME NEW mem, NEW D, NEW pos, NEW val, NEW n,
           Holds(mem, D, pos, val, n), NEW i \in Items, NEW v \in Values
    PROVE  LET m == NewSize(D, n, i) IN
           /\ DOMAIN NewTable(mem, i, v) = 0 .. m - 1
           /\ TableIn(NewTable(mem, i, v), D \cup {i}, NewPos(D, pos, n, i), NewVal(D, val, i, v), m, m)
<1> DEFINE E == D \cup {i}
           p == NewPos(D, pos, n, i)
           w == NewVal(D, val, i, v)
           m == NewSize(D, n, i)
           old == IF D = {} THEN 0 ELSE n
           tab == NewTable(mem, i, v)
<1>1. Layout(D, pos, val, n) /\ Layout(E, p, w, m)
  BY NewLayout DEF Holds
<1>2. n \in 8 .. 84 /\ m \in 8 .. 84
  BY <1>1, LayoutFacts
<1>3. \A j \in Items : /\ info_item_len(j) \in Nat /\ info_item_len(j) >= 12
                       /\ Carrying(j) \in Nat /\ 8 + Carrying(j) <= info_item_len(j)
  BY ItemFacts
<1>4. i \in E /\ E \subseteq Items /\ D \subseteq Items
  BY <1>1 DEF Layout
<1>5. p[i] \in Nat /\ 8 <= p[i] /\ p[i] + info_item_len(i) <= m
  <2> HIDE DEF p, m, E
  <2> QED
    BY <1>1, <1>4 DEF Layout
<1>6. old \in 0 .. m
  BY <1>2, <1>3 DEF NewSize
<1>7. AllBytes(mem)
  BY DEF Holds, AllBytes, TableIn
<1>8. LET has == HasTable(mem)
          found == IF has THEN search_info_item(mem, i) ELSE 0
      IN  \/ ~has /\ p[i] = 8 /\ m = 8 + info_item_len(i) /\ old = 0
          \/ /\ has /\ found = 0 /\ p[i] = TableLen(mem)
             /\ m = TableLen(mem) + info_item_len(i) /\ old = TableLen(mem)
          \/ /\ has /\ found # 0 /\ p[i] = found
             /\ m = TableLen(mem) /\ old = TableLen(mem)
  <2>1. p[i] = IF i \in D THEN pos[i] ELSE n
    BY <1>4 DEF NewPos
  <2>2. m = IF i \in D THEN n ELSE n + info_item_len(i)
    BY DEF NewSize
  <2>3. CASE D = {}
    <3>1. n = 8
      BY <1>1, <2>3 DEF Layout
    <3>2. ByteAt(mem, 0) = 255
      BY <2>3 DEF Holds
    <3>3. ~HasTable(mem)
      BY <3>2 DEF HasTable, Magic
    <3> QED
      BY <2>1, <2>2, <2>3, <3>1, <3>3
  <2>4. CASE D # {}
    <3>1. TableIn(mem, D, pos, val, n, n)
      BY <2>4 DEF Holds
    <3>2. HasTable(mem) /\ TableLen(mem) = n
      BY <1>1, <1>2, <3>1, TableLength DEF TableIn
    <3>3. search_info_item(mem, i) = IF i \in D THEN pos[i] ELSE 0
      BY <1>1, <3>1, GetWhole
    <3>4. i \in D => pos[i] # 0
      BY <1>5, <2>1
    <3> HIDE DEF p, m
    <3> QED
      BY <2>1, <2>2, <2>4, <3>2, <3>3, <3>4
  <2> QED
    BY <2>3, <2>4
<1>9. Built(tab, mem, i, v, p[i], m, old)
  <2> HIDE DEF p, m, old, E
  <2> QED
    BY <1>2, <1>5, <1>6, <1>7, <1>8, TableBuilt
<1> HIDE DEF tab, old
<1>10. ASSUME NEW j \in E, NEW k \in Nat, k < info_item_len(j), j # i
       PROVE  /\ j \in D /\ p[j] = pos[j] /\ w[j] = val[j] /\ D # {}
              /\ k < 8 + Carrying(j) => ByteAt(tab, pos[j] + k) = ByteAt(mem, pos[j] + k)
              /\ pos[j] + k < n
  <2>1. j \in D /\ p[j] = pos[j] /\ w[j] = val[j] /\ D # {}
    BY <1>10 DEF NewPos, NewVal
  <2>2. pos[j] \in Nat /\ 8 <= pos[j] /\ pos[j] + info_item_len(j) <= n
    BY <1>1, <2>1 DEF Layout
  <2>3. pos[j] + k \in 8 .. old - 1
    BY <1>2, <1>3, <1>4, <1>10, <2>1, <2>2 DEF old
  <2>4. \/ p[i] + info_item_len(i) <= p[j]
        \/ p[j] + info_item_len(j) <= p[i]
    <3> HIDE DEF p, m, E
    <3> QED
      BY <1>1, <1>4, <1>10 DEF Layout
  <2>5. pos[j] + k < p[i] \/ pos[j] + k >= p[i] + 8 + Carrying(i)
    <3> HIDE DEF p, E
    <3>1. /\ info_item_len(i) \in Nat /\ Carrying(i) \in Nat
          /\ 8 + Carrying(i) <= info_item_len(i) /\ info_item_len(j) \in Nat
      BY <1>3, <1>4, <1>10
    <3>2. p[j] \in Nat /\ p[i] \in Nat /\ p[j] = pos[j]
      BY <1>5, <2>1, <2>2
    <3>3. CASE p[i] + info_item_len(i) <= p[j]
      BY <3>1, <3>2, <3>3
    <3>4. CASE p[j] + info_item_len(j) <= p[i]
      BY <1>10, <3>1, <3>2, <3>4
    <3> QED
      BY <2>4, <3>3, <3>4
  <2>6. ByteAt(tab, pos[j] + k) = ByteAt(mem, pos[j] + k)
    BY <1>9, <2>3, <2>5 DEF Built
  <2>7. pos[j] + k < n
    <3>1. info_item_len(j) \in Nat
      BY <1>3, <1>4, <2>1
    <3> QED
      BY <1>2, <1>10, <2>2, <3>1
  <2> HIDE DEF E, p, w
  <2> QED
    BY <2>1, <2>6, <2>7
<1> HIDE DEF p, w, m
<1>11. ASSUME NEW j \in E, NEW k \in 0 .. 7 PROVE ByteAt(tab, p[j] + k) = HeadByte(j, k)
  <2>1. CASE j = i
    BY <1>9, <2>1 DEF Built
  <2>2. CASE j # i
    <3>1. k \in Nat /\ k < info_item_len(j) /\ k < 8 + Carrying(j)
      BY <1>3, <1>4
    <3>2. j \in D /\ p[j] = pos[j] /\ D # {} /\ pos[j] + k < n
          /\ ByteAt(tab, pos[j] + k) = ByteAt(mem, pos[j] + k)
      BY <1>10, <2>2, <3>1
    <3>3. ByteAt(mem, pos[j] + k) = HeadByte(j, k)
      BY <3>2 DEF Holds, TableIn
    <3> QED
      BY <3>2, <3>3
  <2> QED
    BY <2>1, <2>2
<1>12. ASSUME NEW j \in E, NEW k \in 0 .. Carrying(j) - 1 PROVE ByteAt(tab, p[j] + 8 + k) = w[j]
  <2>1. CASE j = i
    <3>1. w[i] = v
      BY <1>4 DEF w, NewVal
    <3> QED
      BY <1>9, <2>1, <3>1 DEF Built
  <2>2. CASE j # i
    <3>1. 8 + k \in Nat /\ 8 + k < info_item_len(j) /\ 8 + k < 8 + Carrying(j) /\ j \in Items
      BY <1>3, <1>4
    <3>2. j \in D /\ p[j] = pos[j] /\ w[j] = val[j] /\ D # {} /\ pos[j] + (8 + k) < n
          /\ ByteAt(tab, pos[j] + (8 + k)) = ByteAt(mem, pos[j] + (8 + k))
      BY <1>10, <2>2, <3>1
    <3>3. pos[j] \in Nat /\ pos[j] + (8 + k) = pos[j] + 8 + k
      BY <1>1, <3>2 DEF Layout
    <3>4. ByteAt(mem, pos[j] + 8 + k) = val[j]
      BY <3>2, <3>3 DEF Holds, TableIn
    <3> QED
      BY <3>2, <3>3, <3>4
  <2> QED
    BY <2>1, <2>2
<1>13. TableIn(tab, E, p, w, m, m)
  <2> HIDE DEF E
  <2> QED
    BY <1>9, <1>11, <1>12 DEF TableIn, Built
<1> QED
  BY <1>9, <1>13 DEF p, w, m, tab, Built

\* The first lim bytes of a table, written to erased flash.
CopyIn(mem, tab, lim) == \A a \in Nat : ByteAt(mem, a) = IF a < lim THEN ByteAt(tab, a) ELSE 255

LEMMA CopiedTable ==
    ASSUME NEW mem, NEW tab, NEW D, NEW pos, NEW val, NEW n,
           Layout(D, pos, val, n), TableIn(tab, D, pos, val, n, n),
           NEW lim \in 8 .. n, CopyIn(mem, tab, lim)
    PROVE  TableIn(mem, D, pos, val, n, lim)
<1>1. n \in 8 .. 84
  BY LayoutFacts
<1>2. \A a \in Nat : a < lim => ByteAt(mem, a) = ByteAt(tab, a)
  BY DEF CopyIn
<1>3. \A a \in Nat : a >= lim => ByteAt(mem, a) = 255
  BY <1>1 DEF CopyIn
<1>4. AllBytes(mem)
  <2> SUFFICES ASSUME NEW a \in Nat PROVE ByteAt(mem, a) \in 0 .. 255
    BY DEF AllBytes
  <2>1. ByteAt(tab, a) \in 0 .. 255
    BY DEF TableIn, AllBytes
  <2> QED
    BY <1>1, <1>2, <1>3, <2>1
<1>5. \A a \in 0 .. 7 : ByteAt(mem, a) = ByteAt(tab, a)
  BY <1>1, <1>2
<1>6. HasTable(mem)
  <2>1. HasTable(tab)
    BY DEF TableIn
  <2> QED
    BY <1>5, <2>1 DEF HasTable
<1>7. ByteAt(mem, 4) = n - 8 /\ \A k \in 5 .. 7 : ByteAt(mem, k) = 0
  BY <1>5 DEF TableIn
<1>8. ASSUME NEW i \in D
      PROVE  /\ pos[i] \in Nat /\ pos[i] + 8 + Carrying(i) <= n /\ Carrying(i) \in Nat
  <2>1. pos[i] \in Nat /\ pos[i] + info_item_len(i) <= n /\ i \in Items
    BY DEF Layout
  <2> QED
    BY <1>1, <2>1, ItemFacts
<1>9. ASSUME NEW i \in D, NEW k \in 0 .. 7, pos[i] + k < lim
      PROVE  ByteAt(mem, pos[i] + k) = HeadByte(i, k)
  <2>1. pos[i] + k \in Nat /\ pos[i] + k < n
    BY <1>1, <1>8, <1>9
  <2> QED
    BY <1>2, <1>9, <2>1 DEF TableIn
<1>10. ASSUME NEW i \in D, NEW k \in 0 .. Carrying(i) - 1, pos[i] + 8 + k < lim
       PROVE  ByteAt(mem, pos[i] + 8 + k) = val[i]
  <2>1. pos[i] + 8 + k \in Nat /\ pos[i] + 8 + k < n
    BY <1>1, <1>8, <1>10
  <2> QED
    BY <1>2, <1>10, <2>1 DEF TableIn
<1> QED
  BY <1>3, <1>4, <1>6, <1>7, <1>9, <1>10 DEF TableIn

-----------------------------------------------------------------------------
(* The save under way                                                       *)

TabState(D, pos, val, n) ==
    /\ Layout(D, pos, val, n)
    /\ pc = "idle" => Holds(flash, D, pos, val, n)
    /\ pc # "idle" => /\ D # {} /\ DOMAIN buf = 0 .. n - 1
                      /\ TableIn(buf, D, pos, val, n, n)
    /\ pc = "erase" => written = 0 /\ \A a \in Nat : a >= n => ByteAt(flash, a) = 255
    /\ pc = "write" \/ (pc = "failed" /\ written > 0) =>
          /\ written \in 0 .. n - 1 /\ (written = 0 \/ written >= 8)
          /\ CopyIn(flash, buf, written)

\* Until the first power failure, and in the state it leaves behind, flash and the table
\* to write are those of one layout.
TabInv ==
    /\ pc \in {"idle", "erase", "write", "failed"}
    /\ failures \in Nat /\ (pc = "failed" => failures > 0)
    /\ DOMAIN flash = 0 .. FlashSize - 1
    /\ failures = 0 \/ (failures = 1 /\ pc = "failed") =>
          \E D, pos, val, n : TabState(D, pos, val, n)

\* The parameters as read: those of the table to write, once it is built.
Params == IF pc \in {"erase", "write"} THEN [i \in Items |-> get_info_item(buf, i)]
          ELSE [i \in Items |-> get_info_item(flash, i)]

LEMMA GetHolds ==
    ASSUME NEW mem, NEW D, NEW pos, NEW val, NEW n,
           Holds(mem, D, pos, val, n), NEW i \in Items
    PROVE  get_info_item(mem, i) = IF i \in D THEN val[i] ELSE Absent
<1>1. CASE D = {}
  <2>1. ByteAt(mem, 0) = 255
    BY <1>1 DEF Holds
  <2>2. ~HasTable(mem)
    BY <2>1 DEF HasTable, Magic
  <2> QED
    BY <1>1, <2>2 DEF get_info_item
<1>2. CASE D # {}
  BY <1>2, GetWhole DEF Holds
<1> QED
  BY <1>1, <1>2

LEMMA TabInit == TableInit => TabInv /\ Store!Init
<1> SUFFICES ASSUME TableInit PROVE TabInv /\ Store!Init
  OBVIOUS
<1>1. \A a \in Nat : ByteAt(flash, a) = 255
  BY DEF TableInit, ByteAt, Erased
<1>2. Layout({}, <<>>, <<>>, 8)
  BY DEF Layout, LaidSize, Share
<1>3. Holds(flash, {}, <<>>, <<>>, 8)
  BY <1>1, <1>2 DEF Holds
<1>4. TabState({}, <<>>, <<>>, 8)
  BY <1>2, <1>3 DEF TabState, TableInit
<1>5. TabInv
  BY <1>4 DEF TabInv, TableInit
<1>6. \A i \in Items : get_info_item(flash, i) = Absent
  BY <1>3, GetHolds
<1>7. Params = [i \in Items |-> Absent]
  BY <1>6 DEF Params, TableInit
<1>8. (failures > 0) = FALSE
  BY DEF TableInit
<1>9. Store!Init
  BY <1>7, <1>8 DEF Store!Init, TableInit, Params
<1> QED
  BY <1>5, <1>9

\* The steps before the first failure.
LEMMA TabSave ==
    ASSUME TabInv, failures = 0, NEW i \in Items, NEW v \in Values,
           save_info_item(i, v)
    PROVE  (\E D, pos, val, n : TabState(D, pos, val, n)') /\ Params' = [Params EXCEPT ![i] = v]
<1>1. pc = "idle" /\ pc' = "erase" /\ flash' = flash /\ written' = 0 /\ buf' = NewTable(flash, i, v)
  BY DEF TabInv, save_info_item
<1>2. PICK D, pos, val, n : TabState(D, pos, val, n)
  BY DEF TabInv
<1> DEFINE E == D \cup {i}
           p == NewPos(D, pos, n, i)
           w == NewVal(D, val, i, v)
           m == NewSize(D, n, i)
<1>3. Holds(flash, D, pos, val, n) /\ Layout(D, pos, val, n)
  BY <1>1, <1>2 DEF TabState
<1>4. Layout(E, p, w, m)
  BY <1>3, NewLayout
<1>5. DOMAIN buf' = 0 .. m - 1 /\ TableIn(buf', E, p, w, m, m)
  BY <1>1, <1>3, SavedTable
<1>6. n \in 8 .. 84 /\ m \in 8 .. 84
  BY <1>3, <1>4, LayoutFacts
<1>7. n <= m
  BY <1>6, ItemFacts DEF NewSize
<1>8. \A a \in Nat : a >= m => ByteAt(flash, a) = 255
  BY <1>3, <1>6, <1>7 DEF Holds, TableIn
<1>9. TabState(E, p, w, m)'
  <2> HIDE DEF E, p, w, m
  <2>1. E # {}
    BY DEF E
  <2> QED
    BY <1>1, <1>4, <1>5, <1>8, <2>1 DEF TabState
<1>10. ASSUME NEW j \in Items
       PROVE  get_info_item(buf', j) = IF j = i THEN v ELSE get_info_item(flash, j)
  <2>1. get_info_item(buf', j) = IF j \in E THEN w[j] ELSE Absent
    <3> HIDE DEF E, p, w, m
    <3> QED
      BY <1>4, <1>5, GetWhole
  <2>2. get_info_item(flash, j) = IF j \in D THEN val[j] ELSE Absent
    BY <1>3, GetHolds
  <2> QED
    BY <2>1, <2>2 DEF NewVal
<1>11. Params = [j \in Items |-> get_info_item(flash, j)]
  BY <1>1 DEF Params
<1>12. Params' = [j \in Items |-> get_info_item(buf', j)]
  BY <1>1 DEF Params
<1>13. Params' = [Params EXCEPT ![i] = v]
  BY <1>10, <1>11, <1>12
<1> QED
  BY <1>9, <1>13

\* A byte of the table is in one of the sectors that are erased.
LEMMA DivMonotone ==
    ASSUME NEW s \in Nat \ {0}, NEW a \in Nat, NEW b \in Nat, a <= b
    PROVE  a \div s <= b \div s
<1> DEFINE q == a \div s
           r == a % s
           x == b \div s
           y == b % s
<1>1. q \in Int /\ r \in 0 .. s - 1 /\ a = s * q + r
  BY DivMod
<1>2. x \in Int /\ y \in 0 .. s - 1 /\ b = s * x + y
  BY DivMod
<1> HIDE DEF q, r, x, y
<1>3. CASE q >= x + 1
  <2>1. s * (q - x) >= s
    BY <1>1, <1>2, <1>3
  <2>2. s * (q - x) = s * q - s * x
    BY <1>1, <1>2
  <2> QED
    BY <1>1, <1>2, <2>1, <2>2
<1>4. CASE q <= x
  BY <1>4 DEF q, x
<1> QED
  BY <1>1, <1>2, <1>3, <1>4

\* bk_flash_erase leaves no byte of an older table behind.
LEMMA TabErase ==
    ASSUME TabInv, failures = 0, bk_flash_erase
    PROVE  (\E D, pos, val, n : TabState(D, pos, val, n)') /\ Params' = Params
<1>1. pc = "erase" /\ pc' = "write" /\ buf' = buf /\ written' = written
  BY DEF bk_flash_erase
<1>2. PICK D, pos, val, n : TabState(D, pos, val, n)
  BY DEF TabInv
<1>3. /\ Layout(D, pos, val, n) /\ D # {} /\ DOMAIN buf = 0 .. n - 1
      /\ TableIn(buf, D, pos, val, n, n) /\ written = 0
      /\ \A a \in Nat : a >= n => ByteAt(flash, a) = 255
  BY <1>1, <1>2 DEF TabState
<1>4. n \in 8 .. 84
  <2>1. Layout(D, pos, val, n)
    BY <1>3
  <2> QED
    BY <2>1, LayoutFacts
<1>5. Cardinality(DOMAIN buf) = n
  <2>1. Cardinality(0 .. n - 1) = IF 0 > n - 1 THEN 0 ELSE n - 1 - 0 + 1
    BY <1>4, FS_Interval
  <2> QED
    BY <1>3, <1>4, <2>1
<1> DEFINE last == (n - 1) \div Sector
<1>6. flash' = [a \in DOMAIN flash |-> IF a \div Sector <= last THEN 255 ELSE flash[a]]
  <2>1. flash' = [a \in DOMAIN flash |->
                    IF a \div Sector <= (Cardinality(DOMAIN buf) - 1) \div Sector THEN Erased ELSE flash[a]]
    BY DEF bk_flash_erase
  <2>2. Cardinality(DOMAIN buf) = n
    BY <1>5
  <2> QED
    BY <2>1, <2>2 DEF Erased
<1>7. \A a \in Nat : ByteAt(flash', a) = 255
  <2> SUFFICES ASSUME NEW a \in Nat PROVE ByteAt(flash', a) = 255
    OBVIOUS
  <2>1. CASE a < n
    <3>1. a \div Sector <= last
      BY <1>4, <2>1, DivMonotone, NetParamAssumption
    <3> HIDE DEF last
    <3> QED
      BY <1>6, <3>1 DEF ByteAt, Erased
  <2>2. CASE a >= n
    <3>1. ByteAt(flash, a) = 255
      BY <1>3, <2>2
    <3> HIDE DEF last
    <3> QED
      BY <1>6, <3>1 DEF ByteAt, Erased
  <2> QED
    BY <1>4, <2>1, <2>2
<1>8. CopyIn(flash', buf', written')
  BY <1>1, <1>3, <1>7 DEF CopyIn
<1>9. TabState(D, pos, val, n)'
  BY <1>1, <1>3, <1>4, <1>8 DEF TabState
<1>10. Params' = Params
  BY <1>1 DEF Params
<1> QED
  BY <1>9, <1>10

\* bk_flash_write copies the next bytes; the last ones complete the table in flash.
LEMMA TabWrite ==
    ASSUME TabInv, failures = 0, bk_flash_write
    PROVE  (\E D, pos, val, n : TabState(D, pos, val, n)') /\ Params' = Params
<1>1. pc = "write" /\ buf' = buf
  BY DEF bk_flash_write
<1>2. PICK D, pos, val, n : TabState(D, pos, val, n)
  BY DEF TabInv
<1>3. /\ Layout(D, pos, val, n) /\ D # {} /\ DOMAIN buf = 0 .. n - 1
      /\ TableIn(buf, D, pos, val, n, n) /\ written \in 0 .. n - 1
      /\ CopyIn(flash, buf, written)
  BY <1>1, <1>2 DEF TabState
<1>4. n \in 8 .. 84
  <2>1. Layout(D, pos, val, n)
    BY <1>3
  <2> QED
    BY <2>1, LayoutFacts
<1> DEFINE m == IF written + 32 < n THEN written + 32 ELSE n
<1>5. m \in 8 .. n /\ written < m /\ m - 1 \in Int /\ written \in Nat
  BY <1>3, <1>4
<1> HIDE DEF m
<1>6. NextChunk = written .. m - 1
  BY <1>3, <1>4 DEF NextChunk, Chunk, m
<1>7. Cardinality(NextChunk) = m - written
  <2>1. Cardinality(written .. m - 1) = IF written > m - 1 THEN 0 ELSE (m - 1) - written + 1
    BY <1>5, FS_Interval
  <2>2. Cardinality(written .. m - 1) = m - written
    BY <1>4, <1>5, <2>1
  <2> QED
    BY <1>6, <2>2
<1>8. Cardinality(DOMAIN buf) = n
  <2>1. Cardinality(0 .. n - 1) = IF 0 > n - 1 THEN 0 ELSE n - 1 - 0 + 1
    BY <1>4, FS_Interval
  <2>2. Cardinality(0 .. n - 1) = n
    BY <1>4, <2>1
  <2> QED
    BY <1>3, <2>2
<1>9. written' = m
  <2>1. written' = written + Cardinality(NextChunk)
    BY DEF bk_flash_write
  <2> QED
    BY <1>4, <1>5, <1>7, <2>1
<1>10. pc' = IF m = n THEN "idle" ELSE "write"
  BY <1>1, <1>8, <1>9 DEF bk_flash_write, WriteDone
<1>11. CopyIn(flash', buf, m)
  <2>1. flash' = [a \in DOMAIN flash |-> IF a \in written .. m - 1 THEN buf[a] ELSE flash[a]]
    BY <1>6 DEF bk_flash_write
  <2> SUFFICES ASSUME NEW a \in Nat
               PROVE  ByteAt(flash', a) = IF a < m THEN ByteAt(buf, a) ELSE 255
    BY DEF CopyIn
  <2>2. ByteAt(flash, a) = IF a < written THEN ByteAt(buf, a) ELSE 255
    BY <1>3 DEF CopyIn
  <2>3. CASE a \in written .. m - 1
    <3>1. a \in DOMAIN flash /\ a \in DOMAIN buf
      BY <1>3, <1>4, <1>5, <2>3, NetParamAssumption DEF TabInv
    <3>2. ByteAt(flash', a) = buf[a] /\ ByteAt(buf, a) = buf[a]
      BY <2>1, <2>3, <3>1 DEF ByteAt
    <3> QED
      BY <1>4, <1>5, <2>3, <3>2
  <2>4. CASE a \notin written .. m - 1
    <3>1. ByteAt(flash', a) = ByteAt(flash, a)
      BY <2>1, <2>4 DEF ByteAt
    <3>2. a < written \/ a >= m
      BY <1>4, <1>5, <2>4
    <3> QED
      BY <1>4, <1>5, <2>2, <3>1, <3>2
  <2> QED
    BY <2>3, <2>4
<1>12. CASE m = n
  <2>1. pc' = "idle"
    BY <1>10, <1>12
  <2>2. TableIn(flash', D, pos, val, n, n)
    <3>1. n \in 8 .. n /\ CopyIn(flash', buf, n) /\ Layout(D, pos, val, n) /\ TableIn(buf, D, pos, val, n, n)
      BY <1>3, <1>5, <1>11, <1>12
    <3> QED
      BY <3>1, CopiedTable
  <2>3. TabState(D, pos, val, n)'
    BY <1>3, <2>1, <2>2 DEF TabState, Holds
  <2>4. \A i \in Items : get_info_item(flash', i) = get_info_item(buf, i)
    <3> SUFFICES ASSUME NEW i \in Items PROVE get_info_item(flash', i) = get_info_item(buf, i)
      OBVIOUS
    <3>1. get_info_item(flash', i) = IF i \in D THEN val[i] ELSE Absent
      BY <1>3, <2>2, GetWhole
    <3>2. get_info_item(buf, i) = IF i \in D THEN val[i] ELSE Absent
      BY <1>3, GetWhole
    <3> QED
      BY <3>1, <3>2
  <2>5. Params = [i \in Items |-> get_info_item(buf, i)]
    BY <1>1 DEF Params
  <2>6. Params' = [i \in Items |-> get_info_item(flash', i)]
    BY <2>1 DEF Params
  <2>7. Params' = Params
    BY <2>4, <2>5, <2>6
  <2> QED
    BY <2>3, <2>7
<1>13. CASE m # n
  <2>1. pc' = "write"
    BY <1>10, <1>13
  <2>2. m \in 0 .. n - 1 /\ m >= 8
    BY <1>4, <1>5, <1>13
  <2>3. TabState(D, pos, val, n)'
    BY <1>1, <1>3, <1>9, <1>11, <2>1, <2>2 DEF TabState
  <2>4. Params' = Params
    BY <1>1, <2>1 DEF Params
  <2> QED
    BY <2>3, <2>4
<1> QED
  BY <1>12, <1>13

\* Every step keeps the invariant and is a step of the map, or none.
LEMMA TabNext ==
    TabInv /\ [TableNext]_tableVars => TabInv' /\ [Store!Next]_Store!vars
<1> SUFFICES ASSUME TabInv, [TableNext]_tableVars
             PROVE  TabInv' /\ [Store!Next]_Store!vars
  OBVIOUS
<1> DEFINE Known == \E D, pos, val, n : TabState(D, pos, val, n)
<1>t. /\ pc \in {"idle", "erase", "write", "failed"} /\ failures \in Nat
      /\ (pc = "failed" => failures > 0) /\ DOMAIN flash = 0 .. FlashSize - 1
      /\ (failures = 0 \/ (failures = 1 /\ pc = "failed") => Known)
  BY DEF TabInv
<1> HIDE DEF Known
\* A step that keeps the parameters, or changes them as a save does.
<1>s. ASSUME Params' = Params, UNCHANGED <<request, saves, failures>>
      PROVE  [Store!Next]_Store!vars
  <2>1. (failures > 0)' = (failures > 0)
    BY <1>s
  <2> QED
    BY <1>s, <2>1 DEF Store!vars, Params
<1>f. failures \in Nat /\ failures' \in Nat /\ failures' > 0 => [Store!Next]_Store!vars
  BY DEF Store!Next, Store!PowerFail
<1>1. ASSUME NEW i \in Items, NEW v \in Values, save_info_item(i, v)
      PROVE  TabInv' /\ [Store!Next]_Store!vars
  <2>1. pc' = "erase" /\ UNCHANGED <<flash, failures>> /\ saves' = saves + 1 /\ request' = <<i, v>>
    BY <1>1 DEF save_info_item
  <2>2. CASE failures = 0
    <3>1. Known' /\ Params' = [Params EXCEPT ![i] = v]
      BY <1>1, <2>2, TabSave DEF Known
    <3>2. TabInv'
      BY <1>t, <2>1, <3>1 DEF TabInv, Known
    <3>3. (failures > 0) = FALSE /\ (failures > 0)' = FALSE
      BY <2>1, <2>2
    <3>4. Store!Save(i, v)
      BY <2>1, <3>1, <3>3 DEF Store!Save, Params
    <3> QED
      BY <3>2, <3>4 DEF Store!Next
  <2>3. CASE failures # 0
    <3>1. TabInv'
      BY <1>t, <2>1, <2>3 DEF TabInv
    <3>2. failures' \in Nat /\ failures' > 0
      BY <1>t, <2>1, <2>3
    <3> QED
      BY <1>t, <1>f, <3>1, <3>2
  <2> QED
    BY <2>2, <2>3
<1>2. CASE bk_flash_erase \/ bk_flash_write
  <2>1. /\ pc' \in {"idle", "write"} /\ UNCHANGED <<request, saves, failures>>
        /\ DOMAIN flash' = DOMAIN flash
    BY <1>2 DEF bk_flash_erase, bk_flash_write
  <2>2. CASE failures = 0
    <3>1. Known' /\ Params' = Params
      BY <1>2, <2>2, TabErase, TabWrite DEF Known
    <3>2. TabInv'
      BY <1>t, <2>1, <3>1 DEF TabInv, Known
    <3> QED
      BY <1>s, <2>1, <3>1, <3>2
  <2>3. CASE failures # 0
    <3>1. TabInv'
      BY <1>t, <2>1, <2>3 DEF TabInv
    <3>2. failures' \in Nat /\ failures' > 0
      BY <1>t, <2>1, <2>3
    <3> QED
      BY <1>t, <1>f, <3>1, <3>2
  <2> QED
    BY <2>2, <2>3
<1>3. CASE PowerFail
  <2>1. /\ pc \in {"erase", "write"} /\ pc' = "failed" /\ failures' = failures + 1
        /\ UNCHANGED <<flash, buf, written>>
    BY <1>3 DEF PowerFail
  <2>2. failures' \in Nat /\ failures' > 0
    BY <1>t, <2>1
  <2>3. ASSUME failures' = 1 PROVE Known'
    <3>1. failures = 0
      BY <1>t, <2>1, <2>3
    <3>2. PICK D, pos, val, n : TabState(D, pos, val, n)
      BY <1>t, <3>1 DEF Known
    <3>3. TabState(D, pos, val, n)'
      <4>1. CASE pc = "erase"
        BY <2>1, <3>2, <4>1 DEF TabState
      <4>2. CASE pc = "write"
        BY <2>1, <3>2, <4>2 DEF TabState
      <4> QED
        BY <2>1, <4>1, <4>2
    <3> QED
      BY <3>3 DEF Known
  <2>4. TabInv'
    BY <1>t, <2>1, <2>2, <2>3 DEF TabInv, Known
  <2> QED
    BY <1>t, <1>f, <2>2, <2>4
<1>4. CASE UNCHANGED tableVars
  <2>1. UNCHANGED <<flash, pc, buf, written, request, saves, failures>>
    BY <1>4 DEF tableVars
  <2>2. Known' <=> Known
    BY <2>1 DEF Known, TabState
  <2>3. TabInv'
    BY <1>t, <2>1, <2>2 DEF TabInv, Known
  <2>4. Params' = Params
    BY <2>1 DEF Params
  <2> QED
    BY <1>s, <2>1, <2>3, <2>4
<1> QED
  BY <1>1, <1>2, <1>3, <1>4 DEF TableNext

LEMMA TabInvariant == TableSpec => []TabInv
<1>1. TableInit => TabInv
  BY TabInit
<1>2. TabInv /\ [TableNext]_tableVars => TabInv'
  BY TabNext
<1> QED
  BY <1>1, <1>2, PTL DEF TableSpec

\* The invariant gives what is read after the failure.
LEMMA PrefixRead == TabInv => (failures <= 1 => PrefixSurvives)
<1> SUFFICES ASSUME TabInv, failures <= 1, pc = "failed", written > 0,
                    NEW i \in Items
             PROVE  LET a == search_info_item(buf, i)
                        got == get_info_item(flash, i)
                    IN IF a = 0 \/ written < a + 4 THEN got = Absent
                       ELSE IF written < a + HeadSize THEN got = Overrun
                       ELSE IF written < a + HeadSize + Carrying(i) THEN got \in {Torn, Erased}
                       ELSE got = get_info_item(buf, i)
  BY DEF PrefixSurvives
<1>1. failures = 1
  BY DEF TabInv
<1>2. PICK D, pos, val, n : TabState(D, pos, val, n)
  BY <1>1 DEF TabInv
<1>3. /\ Layout(D, pos, val, n) /\ TableIn(buf, D, pos, val, n, n)
      /\ written \in 0 .. n - 1 /\ (written = 0 \/ written >= 8) /\ CopyIn(flash, buf, written)
  BY <1>2 DEF TabState
<1>4. n \in 8 .. 84
  <2>1. Layout(D, pos, val, n)
    BY <1>3
  <2> QED
    BY <2>1, LayoutFacts
<1>5. written \in 8 .. n /\ written \in Nat /\ 8 <= written
  BY <1>3, <1>4
<1>6. TableIn(flash, D, pos, val, n, written)
  BY <1>3, <1>5, CopiedTable
<1>7. search_info_item(buf, i) = (IF i \in D THEN pos[i] ELSE 0)
  BY <1>3, GetWhole
<1>8. get_info_item(buf, i) = IF i \in D THEN val[i] ELSE Absent
  BY <1>3, GetWhole
<1>9. Carrying(i) \in Nat /\ (i \in D => pos[i] \in Nat /\ pos[i] # 0)
  BY <1>3, ItemFacts DEF Layout
<1>10. CASE i \in D => pos[i] + 4 > written
  <2>1. get_info_item(flash, i) = Absent
    BY <1>3, <1>5, <1>6, <1>10, GetMisses
  <2>2. search_info_item(buf, i) = 0 \/ written < search_info_item(buf, i) + 4
    BY <1>5, <1>7, <1>9, <1>10
  <2> QED
    BY <2>1, <2>2
<1>11. CASE i \in D /\ pos[i] + 4 <= written
  <2>1. search_info_item(buf, i) = pos[i] /\ get_info_item(buf, i) = val[i]
    BY <1>7, <1>8, <1>11
  <2>2. CASE written < pos[i] + 8
    <3>1. get_info_item(flash, i) = Overrun
      BY <1>3, <1>5, <1>6, <1>11, <2>2, GetCutHead
    <3> QED
      BY <1>5, <1>9, <1>11, <2>1, <2>2, <3>1 DEF HeadSize
  <2>3. CASE pos[i] + 8 <= written /\ written < pos[i] + 8 + Carrying(i)
    <3>1. get_info_item(flash, i) \in {Torn, Erased}
      BY <1>3, <1>5, <1>6, <1>11, <2>3, GetCutValue
    <3> QED
      BY <1>5, <1>9, <1>11, <2>1, <2>3, <3>1 DEF HeadSize
  <2>4. CASE pos[i] + 8 + Carrying(i) <= written
    <3>1. get_info_item(flash, i) = val[i]
      BY <1>3, <1>5, <1>6, <1>11, <2>4, GetFinds
    <3> QED
      BY <1>5, <1>9, <1>11, <2>1, <2>4, <3>1 DEF HeadSize
  <2> QED
    BY <1>5, <1>9, <1>11, <2>2, <2>3, <2>4
<1> QED
  BY <1>5, <1>9, <1>10, <1>11

\* A first power failure in the middle of save_info_item, at any chunk of any table:
\* what get_info_item returns of an item is decided by how much of it was written, in
\* spite of the walk over erased bytes.  All of it: the value saved; its head only: one
\* with erased bytes; the type of its head only: more than the caller has room for;
\* less: nothing.
THEOREM PrefixHolds == TableSpec => [](failures <= 1 => PrefixSurvives)
BY TabInvariant, PrefixRead, PTL

\* Until the power fails, save_info_item and get_info_item implement a map: a save
\* changes one item, in place or at the end of the table, and every item is found.
THEOREM StoreRefinement == TableSpec => ImplementsParamStore
<1>1. TableInit => Store!Init
  BY TabInit
<1>2. TabInv /\ [TableNext]_tableVars => [Store!Next]_Store!vars
  BY TabNext
<1> QED
  BY <1>1, <1>2, TabInvariant, PTL DEF TableSpec, ImplementsParamStore, Store!Spec
=============================================================================
