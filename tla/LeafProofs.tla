----------------------------- MODULE LeafProofs -----------------------------
(***************************************************************************)
(* Proofs about the two components that use no other.                       *)
(*                                                                          *)
(* RingBuffer, for every capacity and every set of values: IndicesAgree is  *)
(* inductive; with it each call changes Contents, a sequence read around    *)
(* the end of the array, as BoundedQueue says.                              *)
(*                                                                          *)
(* SystemInfo, for any size of the memory and any movement of the counters: *)
(* what makes the usage shown inductive is that the ticks since the last    *)
(* read are the difference to the counters kept from it.                    *)
(***************************************************************************)
EXTENDS RingBuffer, SystemInfo, SequenceTheorems, TLAPS

-----------------------------------------------------------------------------
(* Lemmas about indices.                                                     *)

\* An index that is less than two turns ahead wraps at most once.
LEMMA WrapsOnce ==
    ASSUME NEW x \in 0..(2 * Capacity - 1)
    PROVE  x % Capacity = IF x < Capacity THEN x ELSE x - Capacity
    BY CapacityAssumption, SMT

\* Two places less than a turn apart are different slots.
LEMMA SlotsDiffer ==
    ASSUME NEW h \in Slots, NEW i \in Nat, NEW n \in Slots, i < n
    PROVE  (h + i) % Capacity # (h + n) % Capacity
<1>1. h + i \in 0..(2 * Capacity - 1) /\ h + n \in 0..(2 * Capacity - 1)
    BY CapacityAssumption, SMT DEF Slots
<1> DEFINE w(x) == IF x < Capacity THEN x ELSE x - Capacity
<1>2. (h + i) % Capacity = w(h + i) /\ (h + n) % Capacity = w(h + n)
    BY <1>1, WrapsOnce
<1>3. w(h + i) # w(h + n)
    BY CapacityAssumption, SMT DEF Slots
<1> QED
    BY <1>2, <1>3

\* A remainder is a slot, and a step before or after the wrap is the same step.
LEMMA NextSlot ==
    ASSUME NEW h \in Slots, NEW n \in Slots
    PROVE  /\ (h + n) % Capacity \in Slots
           /\ (((h + n) % Capacity) + 1) % Capacity = (h + n + 1) % Capacity
           /\ (((h + 1) % Capacity) + n) % Capacity = (h + n + 1) % Capacity
<1>1. h + n + 1 \in 0..(2 * Capacity - 1) /\ h + n \in 0..(2 * Capacity - 1)
      /\ h + 1 \in 0..(2 * Capacity - 1)
    BY CapacityAssumption, SMT DEF Slots
<1> DEFINE w(x) == IF x < Capacity THEN x ELSE x - Capacity
<1>2. /\ (h + n) % Capacity = w(h + n)
      /\ (h + 1) % Capacity = w(h + 1)
      /\ (h + n + 1) % Capacity = w(h + n + 1)
    BY <1>1, WrapsOnce
<1>3. w(h + n) + 1 \in 0..(2 * Capacity - 1) /\ w(h + 1) + n \in 0..(2 * Capacity - 1)
    BY CapacityAssumption, SMT DEF Slots
<1>4. /\ (w(h + n) + 1) % Capacity = w(w(h + n) + 1)
      /\ (w(h + 1) + n) % Capacity = w(w(h + 1) + n)
    BY <1>3, WrapsOnce
<1>5. /\ w(h + n) \in Slots
      /\ w(w(h + n) + 1) = w(h + n + 1)
      /\ w(w(h + 1) + n) = w(h + n + 1)
    BY CapacityAssumption, SMT DEF Slots
<1> QED
    BY <1>2, <1>4, <1>5

-----------------------------------------------------------------------------
(* The indices.                                                              *)

LEMMA InitIndices == RingInit => IndicesAgree
<1> SUFFICES ASSUME RingInit PROVE IndicesAgree
    OBVIOUS
<1>1. 0 % Capacity = 0
    BY CapacityAssumption, SMT
<1> QED
    BY <1>1, CapacityAssumption, SMT DEF RingInit, IndicesAgree, Slots

LEMMA StepIndices == IndicesAgree /\ [RingNext]_ringVars => IndicesAgree'
<1> SUFFICES ASSUME IndicesAgree, [RingNext]_ringVars PROVE IndicesAgree'
    OBVIOUS
<1> USE DEF IndicesAgree
<1>1. ASSUME NEW v \in Values, push(v) PROVE IndicesAgree'
  <2>1. CASE isFull
      BY <1>1, <2>1 DEF push
  <2>2. CASE ~isFull
    <3>1. size \in Slots /\ size + 1 \in 0..Capacity
        BY <2>2, CapacityAssumption, SMT DEF isFull, Slots
    <3>2. tail \in Slots /\ (tail + 1) % Capacity = (head + size + 1) % Capacity
        BY <3>1, NextSlot
    <3>3. head + (size + 1) = head + size + 1
        BY <3>1, CapacityAssumption, SMT DEF Slots
    <3> QED
        BY <1>1, <2>2, <3>1, <3>2, <3>3 DEF push
  <2> QED BY <2>1, <2>2
<1>2. CASE pop
  <2>1. CASE isEmpty
      BY <1>2, <2>1 DEF pop
  <2>2. CASE ~isEmpty
    <3>1. size - 1 \in Slots /\ size - 1 \in 0..Capacity /\ 0 \in Slots
        BY <2>2, CapacityAssumption, SMT DEF isEmpty, Slots
    <3>2. (((head + 1) % Capacity) + (size - 1)) % Capacity = (head + (size - 1) + 1) % Capacity
        BY <3>1, NextSlot
    <3>3. head + (size - 1) + 1 = head + size /\ head + 1 + 0 = head + 1
        BY <3>1, CapacityAssumption, SMT DEF Slots
    <3>4. (head + 1) % Capacity \in Slots
        BY CapacityAssumption, SMT DEF Slots
    <3> QED
        BY <1>2, <2>2, <3>1, <3>2, <3>3, <3>4 DEF pop
  <2> QED BY <2>1, <2>2
<1>3. CASE peek
    BY <1>3 DEF peek
<1>4. CASE clear
  <2>1. 0 % Capacity = 0
      BY CapacityAssumption, SMT
  <2> QED
      BY <1>4, <2>1, CapacityAssumption, SMT DEF clear, Slots
<1>5. CASE UNCHANGED ringVars
    BY <1>5 DEF ringVars
<1> QED
    BY <1>1, <1>2, <1>3, <1>4, <1>5 DEF RingNext

\* The indices of the buffer agree with its count, in every reachable state.
THEOREM IndicesAlwaysAgree == RingSpec => []IndicesAgree
<1>1. RingInit => IndicesAgree
    BY InitIndices
<1>2. IndicesAgree /\ [RingNext]_ringVars => IndicesAgree'
    BY StepIndices
<1> QED
    BY <1>1, <1>2, PTL DEF RingSpec

-----------------------------------------------------------------------------
(* The contents.                                                             *)

LEMMA AroundIsSequence ==
    ASSUME NEW b \in [Slots -> Values], NEW h \in Slots, NEW n \in 0..Capacity
    PROVE  /\ Around(b, h, n) \in Seq(Values) /\ Len(Around(b, h, n)) = n
           /\ \A i \in 1..n : Around(b, h, n)[i] = b[(h + i - 1) % Capacity]
<1>1. n \in Nat
    BY CapacityAssumption, SMT
<1>2. ASSUME NEW i \in 1..n PROVE b[(h + i - 1) % Capacity] \in Values
  <2>1. i - 1 \in Slots /\ h + (i - 1) = h + i - 1
      BY <1>1, CapacityAssumption, SMT DEF Slots
  <2>2. (h + (i - 1)) % Capacity \in Slots
      BY <2>1, NextSlot
  <2> QED
      BY <2>1, <2>2
<1> QED
    BY <1>1, <1>2 DEF Around

\* A value written behind n values comes last; the others are not touched.
LEMMA PushAppends ==
    ASSUME NEW b \in [Slots -> Values], NEW h \in Slots, NEW n \in Slots, NEW v \in Values
    PROVE  Around([b EXCEPT ![(h + n) % Capacity] = v], h, n + 1) = Append(Around(b, h, n), v)
<1> DEFINE new == [b EXCEPT ![(h + n) % Capacity] = v]
           old == Around(b, h, n)
<1>1. n \in 0..Capacity /\ n + 1 \in 0..Capacity /\ n \in Nat
    BY CapacityAssumption, SMT DEF Slots
<1>2. (h + n) % Capacity \in Slots /\ new \in [Slots -> Values]
    BY NextSlot
<1>3. old \in Seq(Values) /\ Len(old) = n
      /\ \A i \in 1..n : old[i] = b[(h + i - 1) % Capacity]
    BY <1>1, AroundIsSequence
<1>4. /\ Around(new, h, n + 1) \in Seq(Values) /\ Len(Around(new, h, n + 1)) = n + 1
      /\ \A i \in 1..(n + 1) : Around(new, h, n + 1)[i] = new[(h + i - 1) % Capacity]
    BY <1>1, <1>2, AroundIsSequence
<1>5. ASSUME NEW i \in 1..(n + 1)
      PROVE  new[(h + i - 1) % Capacity] = Append(old, v)[i]
  <2>1. CASE i \in 1..n
    <3>1. i - 1 \in Slots /\ i - 1 < n /\ i - 1 \in Nat /\ h + (i - 1) = h + i - 1
        BY <1>1, <2>1, CapacityAssumption, SMT DEF Slots
    <3>2. (h + (i - 1)) % Capacity \in Slots
          /\ (h + (i - 1)) % Capacity # (h + n) % Capacity
        BY <3>1, NextSlot, SlotsDiffer
    <3>3. new[(h + i - 1) % Capacity] = old[i]
        BY <1>3, <2>1, <3>1, <3>2
    <3> HIDE DEF old
    <3> QED
        BY <1>1, <1>3, <2>1, <3>3
  <2>2. CASE i = n + 1
    <3>1. h + i - 1 = h + n
        BY <1>1, <2>2, CapacityAssumption, SMT DEF Slots
    <3>2. new[(h + i - 1) % Capacity] = v
        BY <1>2, <3>1
    <3> HIDE DEF old
    <3> QED
        BY <1>1, <1>3, <2>2, <3>2
  <2>3. i \in 1..n \/ i = n + 1
      BY <1>1, SMT
  <2> HIDE DEF new, old
  <2> QED
      BY <2>1, <2>2, <2>3
<1>6. Append(old, v) \in Seq(Values) /\ Len(Append(old, v)) = n + 1
  <2> HIDE DEF old
  <2> QED
      BY <1>3
<1> HIDE DEF new, old
<1>7. \A i \in 1..Len(Around(new, h, n + 1)) : Around(new, h, n + 1)[i] = Append(old, v)[i]
    BY <1>4, <1>5
<1>8. Around(new, h, n + 1) = Append(old, v)
    BY <1>4, <1>6, <1>7, SeqEqual
<1> QED
    BY <1>8 DEF new, old

\* Without its first slot the rest is the same, one place further on.
LEMMA PopTakesFirst ==
    ASSUME NEW b \in [Slots -> Values], NEW h \in Slots, NEW n \in 1..Capacity
    PROVE  /\ Around(b, h, n) # <<>> /\ Head(Around(b, h, n)) = b[h]
           /\ Around(b, (h + 1) % Capacity, n - 1) = Tail(Around(b, h, n))
<1> DEFINE old == Around(b, h, n)
           new == Around(b, (h + 1) % Capacity, n - 1)
<1>1. n \in 0..Capacity /\ n - 1 \in 0..Capacity /\ n \in Nat /\ n - 1 \in Nat
      /\ (h + 1) % Capacity \in Slots /\ h % Capacity = h /\ h + 1 - 1 = h
    BY CapacityAssumption, SMT DEF Slots
<1>2. old \in Seq(Values) /\ Len(old) = n
      /\ \A i \in 1..n : old[i] = b[(h + i - 1) % Capacity]
    BY <1>1, AroundIsSequence
<1>3. new \in Seq(Values) /\ Len(new) = n - 1
      /\ \A i \in 1..(n - 1) : new[i] = b[(((h + 1) % Capacity) + i - 1) % Capacity]
    BY <1>1, AroundIsSequence
<1>4. ASSUME NEW i \in 1..(n - 1) PROVE new[i] = old[i + 1]
  <2>1. i - 1 \in Slots /\ i + 1 \in 1..n /\ h + (i - 1) + 1 = h + (i + 1) - 1
        /\ ((h + 1) % Capacity) + (i - 1) = ((h + 1) % Capacity) + i - 1
      BY <1>1, CapacityAssumption, SMT DEF Slots
  <2>2. (((h + 1) % Capacity) + (i - 1)) % Capacity = (h + (i - 1) + 1) % Capacity
      BY <2>1, NextSlot
  <2> HIDE DEF old, new
  <2> QED
      BY <1>2, <1>3, <2>1, <2>2
<1> HIDE DEF old, new
<1>5. old # <<>> /\ Head(old) = b[h]
  <2>1. 1 \in 1..n
      BY <1>1, SMT
  <2>2. old[1] = b[h]
      BY <1>1, <1>2, <2>1
  <2> QED
      BY <1>1, <1>2, <2>2
<1>6. Tail(old) \in Seq(Values) /\ Len(Tail(old)) = n - 1
      /\ \A i \in 1..(n - 1) : Tail(old)[i] = old[i + 1]
    BY <1>1, <1>2, <1>5, HeadTailProperties
<1>7. new = Tail(old)
    BY <1>3, <1>4, <1>6, SeqEqual
<1> QED
    BY <1>5, <1>7 DEF old, new

-----------------------------------------------------------------------------
\* The ring buffer implements a bounded queue: every call changes Contents and
\* returns what BoundedQueue does.
THEOREM ImplementsQueueHolds == RingSpec => ImplementsQueue
<1>1. RingInit => Queue!Init
  <2> SUFFICES ASSUME RingInit PROVE Queue!Init
      OBVIOUS
  <2>1. buffer \in [Slots -> Values] /\ head \in Slots /\ size \in 0..Capacity
      BY InitIndices DEF IndicesAgree
  <2>2. Contents \in Seq(Values) /\ Len(Contents) = 0
      BY <2>1, AroundIsSequence DEF Contents, RingInit
  <2> QED
      BY <2>2, EmptySeq DEF RingInit, Queue!Init
<1>2. IndicesAgree /\ [RingNext]_ringVars => [Queue!Next]_(Queue!vars)
  <2> SUFFICES ASSUME IndicesAgree, [RingNext]_ringVars PROVE [Queue!Next]_(Queue!vars)
      OBVIOUS
  <2>1. /\ buffer \in [Slots -> Values] /\ head \in Slots /\ size \in 0..Capacity
        /\ tail = (head + size) % Capacity
      BY DEF IndicesAgree
  <2>2. Contents \in Seq(Values) /\ Len(Contents) = size
      BY <2>1, AroundIsSequence DEF Contents
  <2>3. Queue!First = IF isEmpty THEN Nullopt ELSE buffer[head]
    <3>1. CASE isEmpty
        BY <2>2, <3>1, EmptySeq DEF isEmpty, Queue!First
    <3>2. CASE ~isEmpty
      <4>1. size \in 1..Capacity
          BY <2>1, <3>2, CapacityAssumption, SMT DEF isEmpty
      <4> QED
          BY <2>1, <3>2, <4>1, PopTakesFirst DEF Contents, Queue!First
    <3> QED BY <3>1, <3>2
  <2>4. ASSUME NEW v \in Values, push(v) PROVE Queue!Push(v)
    <3>1. CASE isFull
        BY <2>2, <2>4, <3>1 DEF push, isFull, Contents, Queue!Push
    <3>2. CASE ~isFull
      <4>1. size \in Slots /\ size < Capacity
          BY <2>1, <3>2, CapacityAssumption, SMT DEF isFull, Slots
      <4>2. /\ buffer' = [buffer EXCEPT ![(head + size) % Capacity] = v]
            /\ head' = head /\ size' = size + 1 /\ returned' = TRUE
          BY <2>1, <2>4, <3>2 DEF push
      <4>3. Contents' = Around([buffer EXCEPT ![(head + size) % Capacity] = v], head, size + 1)
          BY <4>2 DEF Contents
      <4>4. Contents' = Append(Contents, v)
          BY <2>1, <4>1, <4>3, PushAppends DEF Contents
      <4> QED
          BY <2>2, <4>1, <4>2, <4>4 DEF Queue!Push
    <3> QED BY <3>1, <3>2
  <2>5. ASSUME pop PROVE Queue!Pop
    <3>1. CASE isEmpty
        BY <2>2, <2>3, <2>5, <3>1, EmptySeq DEF pop, isEmpty, Contents, Queue!Pop
    <3>2. CASE ~isEmpty
      <4>1. size \in 1..Capacity
          BY <2>1, <3>2, CapacityAssumption, SMT DEF isEmpty
      <4>2. Contents # <<>> /\ Contents' = Tail(Contents)
          BY <2>1, <2>5, <3>2, <4>1, PopTakesFirst DEF pop, Contents
      <4> QED
          BY <2>3, <2>5, <3>2, <4>2 DEF pop, Queue!Pop
    <3> QED BY <3>1, <3>2
  <2>6. ASSUME peek PROVE Queue!Peek
      BY <2>3, <2>6 DEF peek, Contents, Queue!Peek
  <2>7. ASSUME clear PROVE Queue!Clear
    <3>1. 0 \in Slots /\ 0 \in 0..Capacity
        BY CapacityAssumption, SMT DEF Slots
    <3>2. Around(buffer, 0, 0) \in Seq(Values) /\ Len(Around(buffer, 0, 0)) = 0
        BY <2>1, <3>1, AroundIsSequence
    <3>3. Around(buffer, 0, 0) = <<>>
        BY <3>2, EmptySeq
    <3> QED
        BY <2>7, <3>3 DEF clear, Contents, Queue!Clear
  <2>8. CASE UNCHANGED ringVars
      BY <2>8 DEF ringVars, Contents, Queue!vars
  <2> QED
      BY <2>4, <2>5, <2>6, <2>7, <2>8 DEF RingNext, Queue!Next
<1> QED
    BY <1>1, <1>2, IndicesAlwaysAgree, PTL DEF RingSpec, ImplementsQueue, Queue!Spec

-----------------------------------------------------------------------------
(* The samples of SystemInfo.                                                *)

Minus(after, before) ==
    [busy |-> after.busy - before.busy, idle |-> after.idle - before.idle]

SinceIsDifference == previous # None => since = Minus(ticks, previous)

InfoInv == TypeOK /\ SinceIsDifference /\ UsageIsOfLastInterval

\* The usage of an interval is a percentage, and it is the busy share of it.
LEMMA UsageOfInterval ==
    ASSUME NEW before \in Counters, NEW after \in Counters
    PROVE  LET d == Minus(after, before)
               u == calculateCpuUsagePercent(before, after)
           IN  /\ u \in Percents
               /\ IF d.busy >= 0 /\ d.idle >= 0 /\ totalTicks(d) > 0
                  THEN u = [part |-> d.busy, whole |-> totalTicks(d)]
                  ELSE u.part = 0
<1> DEFINE b0 == before.busy  i0 == before.idle  b1 == after.busy  i1 == after.idle
           total == (b1 + i1) - (b0 + i0)
           idle == i1 - i0
           d == Minus(after, before)
           u == calculateCpuUsagePercent(before, after)
<1>1. b0 \in Nat /\ i0 \in Nat /\ b1 \in Nat /\ i1 \in Nat
    BY DEF Counters
<1>2. d.busy = b1 - b0 /\ d.idle = i1 - i0 /\ totalTicks(d) = (b1 - b0) + (i1 - i0)
    BY DEF Minus, totalTicks
<1>3. u = IF total <= 0 \/ idle < 0 \/ idle > total THEN Zero
          ELSE [part |-> total - idle, whole |-> total]
    BY DEF calculateCpuUsagePercent, totalTicks
<1> HIDE DEF b0, i0, b1, i1, d, u
<1>4. CASE total <= 0 \/ idle < 0 \/ idle > total
    <2>1. u = Zero
        BY <1>3, <1>4
    <2>2. ~(d.busy >= 0 /\ d.idle >= 0 /\ totalTicks(d) > 0)
        BY <1>1, <1>2, <1>4
    <2> QED
        BY <2>1, <2>2 DEF Zero, Percents, u, d
<1>5. CASE ~(total <= 0 \/ idle < 0 \/ idle > total)
    <2>1. u = [part |-> total - idle, whole |-> total]
        BY <1>3, <1>5
    <2>2. total \in Nat \ {0} /\ total - idle \in Nat /\ total - idle <= total
        BY <1>1, <1>5
    <2>3. /\ total - idle = d.busy /\ total = totalTicks(d)
          /\ d.busy >= 0 /\ d.idle >= 0 /\ totalTicks(d) > 0
        BY <1>1, <1>2, <1>5
    <2>4. u \in Percents
        BY <2>1, <2>2 DEF Percents
    <2>5. u = [part |-> d.busy, whole |-> totalTicks(d)]
        BY <2>1, <2>3
    <2> QED
        BY <2>3, <2>4, <2>5 DEF u, d
<1> QED
    BY <1>4, <1>5

LEMMA InitInv == Init => InfoInv
<1> SUFFICES ASSUME Init PROVE InfoInv
    OBVIOUS
<1>1. Nothing \in Counters /\ Nothing \in Ticks
    BY DEF Nothing, Counters, Ticks
<1>2. TypeOK
    BY <1>1 DEF Init, TypeOK
<1> QED
    BY <1>2 DEF Init, InfoInv, SinceIsDifference, UsageIsOfLastInterval

LEMMA RunKeeps == InfoInv /\ Run => InfoInv'
<1> SUFFICES ASSUME InfoInv, NEW d \in [busy : Steps, idle : Steps],
                    ticks' = Plus(ticks, d), since' = Plus(since, d),
                    ticks'.busy \in 0..MaxTicks, ticks'.idle \in 0..MaxTicks,
                    UNCHANGED <<available, previous, latest, lastError, spent>>
             PROVE  InfoInv'
    BY DEF Run
<1>1. d.busy \in Int /\ d.idle \in Int
    BY NumberAssumption
<1>2. ticks \in Counters /\ since \in Ticks /\ (previous = None \/ previous \in Counters)
    BY DEF InfoInv, TypeOK
<1>3. ticks' \in Counters
    <2>1. ticks'.busy \in Nat /\ ticks'.idle \in Nat
        BY NumberAssumption
    <2> QED
        BY <2>1 DEF Plus, Counters
<1>4. since' \in Ticks
    BY <1>1, <1>2 DEF Plus, Ticks
<1>5. TypeOK'
    BY <1>3, <1>4 DEF InfoInv, TypeOK
<1>6. SinceIsDifference'
    <2> SUFFICES ASSUME previous # None PROVE Plus(since, d) = Minus(Plus(ticks, d), previous)
        BY DEF SinceIsDifference
    <2>1. since = Minus(ticks, previous)
        BY DEF InfoInv, SinceIsDifference
    <2>2. /\ (ticks.busy - previous.busy) + d.busy = (ticks.busy + d.busy) - previous.busy
          /\ (ticks.idle - previous.idle) + d.idle = (ticks.idle + d.idle) - previous.idle
        BY <1>1, <1>2 DEF Counters
    <2> QED
        BY <2>1, <2>2 DEF Plus, Minus
<1>7. UsageIsOfLastInterval'
    BY DEF InfoInv, UsageIsOfLastInterval
<1> QED
    BY <1>5, <1>6, <1>7 DEF InfoInv

LEMMA SampleKeeps == InfoInv /\ Sample => InfoInv'
<1> SUFFICES ASSUME InfoInv, Sample PROVE InfoInv'
    OBVIOUS
<1> DEFINE u == calculateCpuUsagePercent(previous, ticks)
<1>1. /\ ticks \in Counters /\ available \in Nat /\ since \in Ticks
      /\ previous = None \/ previous \in Counters
    BY DEF InfoInv, TypeOK
<1>2. memoryUsage \in Percents
    BY <1>1, NumberAssumption DEF Sample, memoryReadable, memoryUsage, Percents
<1>3. previous # None =>
        /\ u \in Percents
        /\ IF since.busy >= 0 /\ since.idle >= 0 /\ totalTicks(since) > 0
           THEN u = [part |-> since.busy, whole |-> totalTicks(since)]
           ELSE u.part = 0
    BY <1>1, UsageOfInterval DEF InfoInv, SinceIsDifference
<1> HIDE DEF u
<1>4. latest' = [memory |-> memoryUsage, cpu |-> IF previous = None THEN Zero ELSE u]
    BY DEF Sample, u
<1>5. Zero \in Percents
    BY DEF Zero, Percents
<1>6. TypeOK'
    <2>1. latest'.cpu \in Percents /\ latest'.memory \in Percents
        BY <1>2, <1>3, <1>4, <1>5
    <2>2. since' \in Ticks
        BY DEF Sample, Nothing, Ticks
    <2> QED
        BY <1>1, <2>1, <2>2 DEF Sample, TypeOK
<1>7. SinceIsDifference'
    <2>1. ticks.busy - ticks.busy = 0 /\ ticks.idle - ticks.idle = 0
        BY <1>1 DEF Counters
    <2> QED
        BY <2>1 DEF Sample, SinceIsDifference, Minus, Nothing
<1>8. UsageIsOfLastInterval'
    <2> SUFFICES ASSUME spent' # None
                 PROVE  IF since.busy >= 0 /\ since.idle >= 0 /\ totalTicks(since) > 0
                        THEN latest'.cpu = [part |-> since.busy, whole |-> totalTicks(since)]
                        ELSE latest'.cpu.part = 0
        BY DEF Sample, UsageIsOfLastInterval, totalTicks
    <2>1. previous # None
        BY DEF Sample
    <2> QED
        BY <2>1, <1>3, <1>4
<1> QED
    BY <1>6, <1>7, <1>8 DEF InfoInv

\* Counters, samples and the ticks in between are in step (sample).
THEOREM InfoInvariant == Spec => []InfoInv
<1>1. Init => InfoInv
    BY InitInv
<1>2. InfoInv /\ [Next]_vars => InfoInv'
    <2> SUFFICES ASSUME InfoInv, [Next]_vars PROVE InfoInv'
        OBVIOUS
    <2>1. CASE Run
        BY <2>1, RunKeeps
    <2>2. CASE MemoryChanges
        <3>1. available' \in Nat
            BY <2>2, NumberAssumption DEF MemoryChanges
        <3> QED
            BY <2>2, <3>1
            DEF MemoryChanges, InfoInv, TypeOK, SinceIsDifference, UsageIsOfLastInterval
    <2>3. CASE Sample
        BY <2>3, SampleKeeps
    <2>4. CASE SampleFails
        BY <2>4 DEF SampleFails, InfoInv, TypeOK, SinceIsDifference, UsageIsOfLastInterval
    <2>5. CASE UNCHANGED vars
        BY <2>5 DEF vars, InfoInv, TypeOK, SinceIsDifference, UsageIsOfLastInterval
    <2> QED
        BY <2>1, <2>2, <2>3, <2>4, <2>5 DEF Next
<1> QED
    BY <1>1, <1>2, PTL DEF Spec

\* The usages shown are percentages, for any movement of the counters.
THEOREM TypeCorrect == Spec => []TypeOK
<1>1. InfoInv => TypeOK
    BY DEF InfoInv
<1> QED
    BY <1>1, InfoInvariant, PTL

\* The usage shown is the one of the last interval, for any movement of the
\* counters (readCpuUsagePercentSinceLastSample).
THEOREM UsageIsOfLastIntervalHolds == Spec => []UsageIsOfLastInterval
<1>1. InfoInv => UsageIsOfLastInterval
    BY DEF InfoInv
<1> QED
    BY <1>1, InfoInvariant, PTL
=============================================================================
