---------------------------- MODULE BoundedQueue ----------------------------
(***************************************************************************)
(* What RingBuffer promises: a first-in first-out queue of at most Capacity *)
(* values.  A full queue rejects a value and keeps what it has; an empty    *)
(* queue has nothing to give.  `returned` is what the last call returned.   *)
(***************************************************************************)
EXTENDS Naturals, Sequences

CONSTANTS Values, Capacity, Nullopt

VARIABLES queue, returned

vars == <<queue, returned>>

Init == queue = <<>> /\ returned = Nullopt

Push(v) ==
    \/ Len(queue) < Capacity /\ queue' = Append(queue, v) /\ returned' = TRUE
    \/ Len(queue) = Capacity /\ UNCHANGED queue /\ returned' = FALSE

First == IF queue = <<>> THEN Nullopt ELSE Head(queue)

Pop ==
    /\ returned' = First
    /\ queue' = IF queue = <<>> THEN queue ELSE Tail(queue)

Peek == returned' = First /\ UNCHANGED queue

Clear == queue' = <<>> /\ returned' = Nullopt

Next == (\E v \in Values : Push(v)) \/ Pop \/ Peek \/ Clear

Spec == Init /\ [][Next]_vars
=============================================================================
