---------------------------- MODULE FifoExecutor ----------------------------
(***************************************************************************)
(* What a runtime worker promises the callers of postTask: accepted tasks   *)
(* wait in a queue, they run one at a time in the order they were accepted, *)
(* and none runs twice.  It says nothing about when, or whether, a task     *)
(* runs: a worker that is stopped keeps its queue.                          *)
(***************************************************************************)
EXTENDS Sequences

CONSTANT Tasks      \* the closures that are posted, each at most once

VARIABLES queue,    \* accepted and not yet run, in order of acceptance
          done      \* run, in the order they ran

vars == <<queue, done>>

InSeq(t, s) == \E i \in DOMAIN s : s[i] = t

Init == queue = <<>> /\ done = <<>>

Accept(t) ==
    /\ ~InSeq(t, queue) /\ ~InSeq(t, done)
    /\ queue' = Append(queue, t)
    /\ UNCHANGED done

RunFirst ==
    /\ queue # <<>>
    /\ done' = Append(done, Head(queue))
    /\ queue' = Tail(queue)

Next == RunFirst \/ \E t \in Tasks : Accept(t)

Spec == Init /\ [][Next]_vars
=============================================================================
