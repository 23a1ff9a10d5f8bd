----------------------------- MODULE RingBuffer -----------------------------
(***************************************************************************)
(* common/utils/ringbuffer: an array of fixed capacity with the index of    *)
(* the oldest value, the index of the next free slot and a count.  The      *)
(* class has no lock; one thread calls it.  The names of the specification  *)
(* start with Ring so that the module can be extended beside another.       *)
(***************************************************************************)
EXTENDS Naturals, Sequences

CONSTANTS Values, Capacity, Nullopt

\* The constructor throws for a capacity of zero.
ASSUME CapacityAssumption == Capacity \in Nat \ {0}

VARIABLES
    buffer,     \* buffer_, values that were popped stay in their slot
    head,       \* head_
    tail,       \* tail_
    size,       \* size_
    returned    \* what the last call returned

ringVars == <<buffer, head, tail, size, returned>>

Slots == 0..(Capacity - 1)

isEmpty == size = 0
isFull  == size = Capacity

\* The array is value-initialised; Zero is any value that stands for 0.
RingInit ==
    /\ \E zero \in Values : buffer = [i \in Slots |-> zero]
    /\ head = 0 /\ tail = 0 /\ size = 0
    /\ returned = Nullopt

PushOverwrites(v) ==      \* mutant: a full buffer is not noticed
    /\ buffer' = [buffer EXCEPT ![tail] = v]
    /\ tail' = (tail + 1) % Capacity
    /\ size' = IF isFull THEN size ELSE size + 1
    /\ returned' = TRUE
    /\ UNCHANGED head

push(v) ==
    \/ /\ isFull
       /\ returned' = FALSE /\ UNCHANGED <<buffer, head, tail, size>>
    \/ /\ ~isFull
       /\ buffer' = [buffer EXCEPT ![tail] = v]
       /\ tail' = (tail + 1) % Capacity
       /\ size' = size + 1
       /\ returned' = TRUE
       /\ UNCHANGED head

pop ==
    \/ /\ isEmpty
       /\ returned' = Nullopt /\ UNCHANGED <<buffer, head, tail, size>>
    \/ /\ ~isEmpty
       /\ returned' = buffer[head]
       /\ head' = (head + 1) % Capacity
       /\ size' = size - 1
       /\ UNCHANGED <<buffer, tail>>

peek ==
    /\ returned' = IF isEmpty THEN Nullopt ELSE buffer[head]
    /\ UNCHANGED <<buffer, head, tail, size>>

clear ==      \* returns nothing
    /\ head' = 0 /\ tail' = 0 /\ size' = 0
    /\ returned' = Nullopt
    /\ UNCHANGED buffer

RingNext == (\E v \in Values : push(v)) \/ pop \/ peek \/ clear

RingSpec == RingInit /\ [][RingNext]_ringVars

-----------------------------------------------------------------------------
\* n slots from h on, around the end of the array; from head to tail they are
\* the queue.
Around(b, h, n) == [i \in 1..n |-> b[(h + i - 1) % Capacity]]

Contents == Around(buffer, head, size)

Queue == INSTANCE BoundedQueue WITH queue <- Contents

\* Whatever the sequence of calls, and wherever the indices wrap, every call
\* returns what it would return of a bounded first-in first-out queue: no value
\* is lost, repeated, overtaken or overwritten (push, pop, peek, clear).
ImplementsQueue == Queue!Spec

\* The three indices agree, although clear() and a full buffer make head and
\* tail equal in two different situations: this is why the refinement holds.
IndicesAgree ==
    /\ buffer \in [Slots -> Values]
    /\ head \in Slots /\ size \in 0..Capacity
    /\ tail = (head + size) % Capacity
=============================================================================
