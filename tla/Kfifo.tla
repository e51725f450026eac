-------------------------------- MODULE Kfifo --------------------------------
(* The byte FIFO of common/fifo.h as the UART driver uses it: the receive   *)
(* interrupt puts bytes, one thread counts, looks ahead and gets.  Put and  *)
(* get run with interrupts disabled and are one step each; counting and     *)
(* looking ahead run without, so puts come between their steps.             *)
EXTENDS Integers, Sequences

CONSTANTS
    Byte,        \* the bytes that arrive
    Size,        \* fifo->size
    Modulus,     \* one more than the largest unsigned int, 2^32 in the build
    MaxChunk     \* the longest put, get or peek of an instance

\* kfifo_init insists on a power of two: it divides Modulus, and masking an
\* index with size - 1 is taking it modulo size.
ASSUME SizeAssumption ==
    /\ Size \in Nat \ {0}
    /\ Modulus \in Nat
    /\ Size < Modulus
    /\ Modulus % Size = 0
ASSUME ChunkAssumption == MaxChunk \in Nat

VARIABLES
    in, out,     \* free-running indices
    buffer,      \* fifo->buffer
    readerPc,    \* control of the reading thread
    want,        \* bytes its call still asks for
    result       \* bytes its call has copied out

fifoFields == <<in, out, buffer>>
vars == <<in, out, buffer, readerPc, want, result>>

Min2(a, b) == IF a < b THEN a ELSE b
Slot(index) == index % Size
kfifo_data_size == (in - out) % Modulus
kfifo_unused == (Size - in + out) % Modulus

Init ==
    /\ in = 0 /\ out = 0
    /\ buffer \in [0 .. Size - 1 -> Byte]
    /\ readerPc = "idle" /\ want = 0 /\ result = <<>>
-----------------------------------------------------------------------------
\* The number of bytes of a run of len that fit before the end of the buffer.
BeforeEnd(index, len) == Min2(len, Size - Slot(index))

\* The two copies of kfifo_put: up to the end of the buffer, then from its start.
Stored(s, len) ==
    LET l == BeforeEnd(in, len)
    IN  [p \in 0 .. Size - 1 |->
            IF p < len - l THEN s[l + p + 1]
            ELSE IF Slot(in) <= p /\ p < Slot(in) + l THEN s[p - Slot(in) + 1]
            ELSE buffer[p]]

\* The two copies of kfifo_get.
Fetched(len) ==
    LET l == BeforeEnd(out, len)
    IN  [k \in 1 .. len |-> IF k <= l THEN buffer[Slot(out) + k - 1]
                                      ELSE buffer[k - l - 1]]

kfifo_put(s) ==
    LET len == Min2(Len(s), kfifo_unused)
    IN  /\ in' = (in + len) % Modulus
        /\ buffer' = Stored(s, len)
        /\ UNCHANGED <<out, readerPc, want, result>>

\* (mutant) the index is kept inside the buffer, the count is not adapted
kfifo_get_wrapped(n) ==
    LET len == Min2(n, kfifo_data_size)
    IN  /\ readerPc = "idle"
        /\ result' = Fetched(len)
        /\ out' = (out + len) % Size
        /\ UNCHANGED <<in, buffer, readerPc, want>>

kfifo_get(n) ==
    LET len == Min2(n, kfifo_data_size)
    IN  /\ readerPc = "idle"
        /\ result' = Fetched(len)
        /\ out' = (out + len) % Modulus
        /\ UNCHANGED <<in, buffer, readerPc, want>>

\* (mutant) the length is not cut to what is there
kfifo_out_peek_all(n) ==
    /\ readerPc = "idle"
    /\ want' = n
    /\ result' = <<>>
    /\ readerPc' = "peek"
    /\ UNCHANGED fifoFields

\* kfifo_out_peek reads how much there is ...
kfifo_out_peek(n) ==
    /\ readerPc = "idle"
    /\ want' = Min2(n, kfifo_data_size)
    /\ result' = <<>>
    /\ readerPc' = "peek"
    /\ UNCHANGED fifoFields

\* ... and kfifo_copy_out copies byte by byte while the interrupt may put more.
kfifo_copy_out ==
    /\ readerPc = "peek" /\ want > 0
    /\ result' = Append(result, buffer[Slot(out + Len(result))])
    /\ want' = want - 1
    /\ UNCHANGED <<in, out, buffer, readerPc>>

PeekDone ==
    /\ readerPc = "peek" /\ want = 0
    /\ readerPc' = "idle"
    /\ UNCHANGED <<in, out, buffer, want, result>>

\* bk_uart_recv: nothing unless size bytes are there ...
bk_uart_recv(size) ==
    /\ readerPc = "idle"
    /\ size <= kfifo_data_size
    /\ readerPc' = "recv" /\ want' = size
    /\ UNCHANGED <<in, out, buffer, result>>

\* ... and then exactly size bytes.
RecvRead ==
    LET len == Min2(want, kfifo_data_size)
    IN  /\ readerPc = "recv"
        /\ result' = Fetched(len)
        /\ out' = (out + len) % Modulus
        /\ readerPc' = "received"
        /\ UNCHANGED <<in, buffer, want>>

RecvDone ==
    /\ readerPc = "received"
    /\ readerPc' = "idle" /\ want' = 0
    /\ UNCHANGED <<in, out, buffer, result>>

Next ==
    \/ \E m \in 0 .. MaxChunk : \E s \in [1 .. m -> Byte] : kfifo_put(s)
    \/ \E n \in 0 .. MaxChunk : kfifo_get(n) \/ kfifo_out_peek(n) \/ bk_uart_recv(n)
    \/ kfifo_copy_out
    \/ PeekDone
    \/ RecvRead
    \/ RecvDone

Spec == Init /\ [][Next]_vars
-----------------------------------------------------------------------------
(* Properties. *)

TypeOK ==
    /\ in \in 0 .. Modulus - 1 /\ out \in 0 .. Modulus - 1
    /\ buffer \in [0 .. Size - 1 -> Byte]
    /\ readerPc \in {"idle", "peek", "recv", "received"}
    /\ want \in Nat
    /\ result \in Seq(Byte)

\* A look ahead copies bytes that are there: what is copied and what is still to
\* be copied is covered by the data, whatever the interrupt adds meanwhile.
PeekCovered == readerPc = "peek" => Len(result) + want <= kfifo_data_size

\* What the buffer holds, in order.
Content == [k \in 1 .. kfifo_data_size |-> buffer[Slot(out + k - 1)]]

\* The byte queue kfifo stands for; the unlocked look ahead counts as one call
\* when its last byte is copied.
Abstract == INSTANCE ByteFifo WITH
    Capacity <- Size,
    queue <- Content,
    result <- IF readerPc = "peek" /\ want > 0 THEN <<>> ELSE result

\* kfifo_put, kfifo_get and kfifo_out_peek implement a byte queue although the
\* indices wrap and a look ahead copies byte by byte without the lock.
ImplementsByteFifo == Abstract!Spec
=============================================================================
