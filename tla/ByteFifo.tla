------------------------------ MODULE ByteFifo ------------------------------
(* What a byte queue promises: bytes leave in the order in which they were  *)
(* accepted, a full queue refuses the rest of a chunk, and looking ahead    *)
(* changes nothing.  Kfifo implements it.                                   *)
EXTENDS Naturals, Sequences

CONSTANTS
    Byte,        \* the values that are queued
    Capacity     \* how many of them fit

VARIABLES
    queue,       \* accepted and not yet delivered
    result       \* what the last call of the reader gave it

fifoVars == <<queue, result>>

Init == queue = <<>> /\ result = <<>>

\* The writer hands over s; a prefix of it that fits is accepted.
Put == /\ \E n \in 0 .. Capacity - Len(queue) : \E s \in [1 .. n -> Byte] :
              queue' = queue \o s
       /\ UNCHANGED result

\* The reader takes bytes from the front.
Get == \E n \in 0 .. Len(queue) :
          /\ result' = SubSeq(queue, 1, n)
          /\ queue' = SubSeq(queue, n + 1, Len(queue))

\* The reader sees bytes of the front, which stay.
Peek == \E n \in 0 .. Len(queue) :
          /\ result' = SubSeq(queue, 1, n)
          /\ UNCHANGED queue

Next == Put \/ Get \/ Peek

Spec == Init /\ [][Next]_fifoVars
=============================================================================
