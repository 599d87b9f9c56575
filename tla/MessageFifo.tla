----------------------------- MODULE MessageFifo -----------------------------
(***************************************************************************)
(* What the publish queue promises to the threads that use it, without     *)
(* its mutex, its semaphore or its ring: a bounded first-in first-out      *)
(* queue.  A message that finds the queue full is dropped (a step this     *)
(* module does not see).  A consumer that finds the queue empty is handed  *)
(* a node nobody published; that step is part of what the code does, and   *)
(* the count of such nodes is the one thing that betrays it.               *)
(***************************************************************************)
EXTENDS Naturals, Sequences

CONSTANTS
    Message,    \* the messages that may be published
    Capacity    \* how many messages the queue holds

VARIABLES
    pending,            \* published and not consumed yet, oldest first
    delivered,          \* consumed, oldest first
    undefined_returns   \* nodes handed over while nothing was pending

vars == <<pending, delivered, undefined_returns>>

Init ==
    /\ pending = <<>>
    /\ delivered = <<>>
    /\ undefined_returns = 0

Publish(m) ==
    /\ Len(pending) < Capacity
    /\ pending' = Append(pending, m)
    /\ UNCHANGED <<delivered, undefined_returns>>

Consume ==
    /\ pending # <<>>
    /\ delivered' = Append(delivered, Head(pending))
    /\ pending' = Tail(pending)
    /\ UNCHANGED undefined_returns

ReturnUndefined ==
    /\ pending = <<>>
    /\ undefined_returns' = undefined_returns + 1
    /\ UNCHANGED <<pending, delivered>>

Next ==
    \/ \E m \in Message : Publish(m)
    \/ Consume
    \/ ReturnUndefined

Spec == Init /\ [][Next]_vars

=============================================================================
