---------------------------- MODULE FifoExecutor ----------------------------
(***************************************************************************)
(* What thread-pool.h promises of a ThreadPool, with no thread, queue or   *)
(* semaphore in sight: thunks start in the order they were handed over, at *)
(* most one per worker at a time; wait() returns, and the pool is brought  *)
(* down, only when nothing that was handed over is left.                   *)
(***************************************************************************)
EXTENDS Integers, Sequences, FiniteSets

CONSTANTS Jobs,      \* thunks that may be handed over
          Capacity   \* how many may be in execution at once

VARIABLES pending,   \* handed over and not started, oldest first
          running,   \* in execution
          done,      \* executed in full
          client     \* what the owner of the pool is doing

vars == <<pending, running, done, client>>

Unseen == {j \in Jobs : j \notin running \cup done
                        /\ \A i \in DOMAIN pending : pending[i] # j}

Quiet == pending = <<>> /\ running = {}

Init == /\ pending = <<>>
        /\ running = {}
        /\ done = {}
        /\ client = "open"

\* The owner hands over a thunk between its calls; a thunk in execution may
\* do the same at any time.
Submit(j) == /\ j \in Unseen
             /\ client = "open" \/ running # {}
             /\ pending' = Append(pending, j)
             /\ UNCHANGED <<running, done, client>>

Start == /\ pending # <<>>
         /\ Cardinality(running) < Capacity
         /\ running' = running \cup {Head(pending)}
         /\ pending' = Tail(pending)
         /\ UNCHANGED <<done, client>>

Finish(j) == /\ j \in running
             /\ running' = running \ {j}
             /\ done' = done \cup {j}
             /\ UNCHANGED <<pending, client>>

Call(k) == /\ client = "open"
           /\ client' = k
           /\ UNCHANGED <<pending, running, done>>

WaitReturns == /\ client = "waiting"
               /\ Quiet
               /\ client' = "open"
               /\ UNCHANGED <<pending, running, done>>

Close == /\ client = "closing"
         /\ Quiet
         /\ client' = "closed"
         /\ UNCHANGED <<pending, running, done>>

Next == \/ \E j \in Jobs : Submit(j) \/ Finish(j)
        \/ Start
        \/ \E k \in {"waiting", "closing"} : Call(k)
        \/ WaitReturns
        \/ Close

Spec == Init /\ [][Next]_vars
=============================================================================
