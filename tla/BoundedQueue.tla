---------------------------- MODULE BoundedQueue ----------------------------
(***************************************************************************)
(* What sbuf_t promises its callers: a first-in first-out queue of at most *)
(* N descriptors.  An item is put by one producer, taken by one consumer,  *)
(* and then held by that consumer until it closes the descriptor.          *)
(***************************************************************************)
EXTENDS Integers, Sequences

CONSTANTS Consumers, Items, N, NoItem

VARIABLES
    queue,    \* the descriptors that wait, oldest first
    held      \* held[c]: the descriptor consumer c has taken, or NoItem

vars == <<queue, held>>

Init ==
    /\ queue = <<>>
    /\ held = [c \in Consumers |-> NoItem]

Put(i) ==
    /\ Len(queue) < N
    /\ queue' = Append(queue, i)
    /\ UNCHANGED held

Take(c) ==
    /\ queue # <<>>
    /\ held[c] = NoItem
    /\ held' = [held EXCEPT ![c] = Head(queue)]
    /\ queue' = Tail(queue)

Release(c) ==
    /\ held[c] # NoItem
    /\ held' = [held EXCEPT ![c] = NoItem]
    /\ UNCHANGED queue

Next ==
    \/ \E i \in Items : Put(i)
    \/ \E c \in Consumers : Take(c) \/ Release(c)

Spec == Init /\ [][Next]_vars
=============================================================================
