----------------------------- MODULE EpWaiters -----------------------------
(***************************************************************************)
(* What the waiter rings of the IPC endpoints promise, with no ring in     *)
(* sight: the receivers blocked on an endpoint form a first-in first-out   *)
(* queue.  A receiver joins the back of one queue and of no other while it *)
(* waits; a send to an endpoint with waiters hands its message to the      *)
(* receiver at the front and removes it.  Nothing bounds a queue here: the *)
(* ring's size is the implementation's concern.                            *)
(***************************************************************************)
EXTENDS Naturals, Sequences

CONSTANTS
  Pids,   \* the processes
  EpIds   \* the endpoints

VARIABLE queue   \* queue[e]: the receivers waiting on e, oldest first

(* Every process waiting on some endpoint.                                 *)
Queued == UNION {{queue[e][k] : k \in 1 .. Len(queue[e])} : e \in EpIds}

Init == queue = [e \in EpIds |-> << >>]

(* A receiver that is waiting nowhere blocks on e.                         *)
Wait(e, p) ==
  /\ p \notin Queued
  /\ queue' = [queue EXCEPT ![e] = Append(@, p)]

(* A send to e wakes the oldest receiver waiting on it.                    *)
Wake(e) ==
  /\ queue[e] # << >>
  /\ queue' = [queue EXCEPT ![e] = Tail(@)]

Next == \E e \in EpIds : Wake(e) \/ \E p \in Pids : Wait(e, p)

Spec == Init /\ [][Next]_queue
=============================================================================
