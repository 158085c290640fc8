----------------------------- MODULE ByteQueue -----------------------------
(***************************************************************************)
(* What a ring of pty.rs promises: a first-in first-out queue of bounded   *)
(* length.                                                                 *)
(***************************************************************************)
EXTENDS Sequences, Integers

CONSTANTS Byte, Capacity

VARIABLE queue

Init == queue = <<>>
Push(b) == Len(queue) < Capacity /\ queue' = Append(queue, b)
Pop == queue # <<>> /\ queue' = Tail(queue)
Reset == queue' = <<>>

Next == Pop \/ Reset \/ \E b \in Byte : Push(b)
Spec == Init /\ [][Next]_queue
=============================================================================
