-------------------------------- MODULE Sbuf --------------------------------
(***************************************************************************)
(* proj2/task2/sbuf.c: the buffer of connected descriptors between the     *)
(* accepting thread (sbuf_insert) and the workers (sbuf_remove).           *)
(*                                                                         *)
(* A step is one call to P or V, or one access to the shared integers:     *)
(* "++sp->rear" and "++sp->front" are a load and a store, so that the      *)
(* semaphore `mutex' has something to protect.  The store of the counter   *)
(* and the access to the slot it names are one step: no other thread can   *)
(* tell the two apart while the mutex is held.                             *)
(*                                                                         *)
(* The callers are part of the model: a producer inserts a descriptor that *)
(* Accept has just returned (so one that is not open already), and a       *)
(* worker closes the descriptor it was given before it removes another.    *)
(***************************************************************************)
EXTENDS Csapp, Sequences, FiniteSets

CONSTANTS
    Producers,    \* threads that call sbuf_insert (the program has one)
    Consumers,    \* threads that call sbuf_remove (NTHREADS of them)
    Items,        \* descriptors
    NoItem,       \* no descriptor; also the calloc'ed contents of a slot
    N,            \* sp->n (MAX_CLIENT)
    MaxInserts    \* bound of the model: calls of sbuf_insert

ASSUME SbufAssumption ==
    /\ N \in Nat \ {0}
    /\ MaxInserts \in Nat
    /\ IsFiniteSet(Producers) /\ IsFiniteSet(Consumers)
    /\ Producers \cap Consumers = {}
    /\ NoItem \notin Items

Threads == Producers \cup Consumers

VARIABLES
    buf, front, rear,        \* sp->buf, sp->front, sp->rear
    mutex, slots, items,     \* the three semaphores
    pc,                      \* what each thread does next
    reg,                     \* the counter value a thread has loaded
    item,                    \* the local `item' of insert and of remove
    inserts                  \* calls of sbuf_insert so far (only bounds the model)

sems == <<mutex, slots, items>>
vars == <<buf, front, rear, mutex, slots, items, pc, reg, item, inserts>>

InsertLabels == {"accept", "ins_slots", "ins_mutex", "ins_load", "ins_store",
                 "ins_unlock", "ins_items"}
RemoveLabels == {"rem_items", "rem_mutex", "rem_load", "rem_take",
                 "rem_unlock", "rem_slots", "serve"}

\* The descriptors that are open: in a thread's hands or in a slot in use.
InSlots == {buf[k % N] : k \in (front + 1)..rear}
Open == {item[t] : t \in Threads} \cup InSlots

\* sbuf_init, and the threads before their first call.
Init ==
    /\ buf = [k \in 0..(N - 1) |-> NoItem]
    /\ front = 0 /\ rear = 0
    /\ mutex = 1 /\ slots = N /\ items = 0
    /\ pc = [t \in Threads |-> IF t \in Producers THEN "accept" ELSE "rem_items"]
    /\ reg = [t \in Threads |-> 0]
    /\ item = [t \in Threads |-> NoItem]
    /\ inserts = 0

Goto(t, from, to) == pc[t] = from /\ pc' = [pc EXCEPT ![t] = to]

-----------------------------------------------------------------------------
(* sbuf_insert *)

\* Accept returns a descriptor; main calls sbuf_insert with it.
CallInsert(p) ==
    /\ inserts < MaxInserts
    /\ Goto(p, "accept", "ins_slots")
    /\ \E i \in Items \ Open : item' = [item EXCEPT ![p] = i]
    /\ inserts' = inserts + 1
    /\ UNCHANGED <<buf, front, rear, sems, reg>>

\* Mutant: sbuf_insert does not wait for a free slot.
InsertWithoutSlot(p) ==
    /\ Goto(p, "ins_slots", "ins_mutex")
    /\ UNCHANGED slots
    /\ UNCHANGED <<buf, front, rear, mutex, items, reg, item, inserts>>

InsSlots(p) ==
    /\ Goto(p, "ins_slots", "ins_mutex")
    /\ P(slots)
    /\ UNCHANGED <<buf, front, rear, mutex, items, reg, item, inserts>>

\* Mutant: sbuf_insert does not take the mutex.
InsertWithoutMutex(p) ==
    /\ Goto(p, "ins_mutex", "ins_load")
    /\ UNCHANGED mutex
    /\ UNCHANGED <<buf, front, rear, slots, items, reg, item, inserts>>

InsMutex(p) ==
    /\ Goto(p, "ins_mutex", "ins_load")
    /\ P(mutex)
    /\ UNCHANGED <<buf, front, rear, slots, items, reg, item, inserts>>

InsLoad(p) ==
    /\ Goto(p, "ins_load", "ins_store")
    /\ reg' = [reg EXCEPT ![p] = rear]
    /\ UNCHANGED <<buf, front, rear, sems, item, inserts>>

\* Mutant: the slot is named by rear before it is incremented.
StoreAtRear(p) ==
    /\ Goto(p, "ins_store", "ins_unlock")
    /\ rear' = reg[p] + 1
    /\ buf' = [buf EXCEPT ![reg[p] % N] = item[p]]
    /\ item' = [item EXCEPT ![p] = NoItem]
    /\ UNCHANGED <<front, sems, reg, inserts>>

\* The item leaves the producer's hands for the slot.
InsStore(p) ==
    /\ Goto(p, "ins_store", "ins_unlock")
    /\ rear' = reg[p] + 1
    /\ buf' = [buf EXCEPT ![(reg[p] + 1) % N] = item[p]]
    /\ item' = [item EXCEPT ![p] = NoItem]
    /\ UNCHANGED <<front, sems, reg, inserts>>

InsUnlock(p) ==
    /\ Goto(p, "ins_unlock", "ins_items")
    /\ V(mutex)
    /\ UNCHANGED <<buf, front, rear, slots, items, reg, item, inserts>>

\* Mutant: sbuf_insert does not announce the item.
InsertWithoutSignal(p) ==
    /\ Goto(p, "ins_items", "accept")
    /\ UNCHANGED items
    /\ UNCHANGED <<buf, front, rear, mutex, slots, reg, item, inserts>>

InsItems(p) ==
    /\ Goto(p, "ins_items", "accept")
    /\ V(items)
    /\ UNCHANGED <<buf, front, rear, mutex, slots, reg, item, inserts>>

Insert(p) ==
    \/ CallInsert(p) \/ InsSlots(p) \/ InsMutex(p) \/ InsLoad(p)
    \/ InsStore(p) \/ InsUnlock(p) \/ InsItems(p)

-----------------------------------------------------------------------------
(* sbuf_remove *)

RemItems(c) ==
    /\ Goto(c, "rem_items", "rem_mutex")
    /\ P(items)
    /\ UNCHANGED <<buf, front, rear, mutex, slots, reg, item, inserts>>

\* Mutant: sbuf_remove does not take the mutex.
RemoveWithoutMutex(c) ==
    /\ Goto(c, "rem_mutex", "rem_load")
    /\ UNCHANGED mutex
    /\ UNCHANGED <<buf, front, rear, slots, items, reg, item, inserts>>

RemMutex(c) ==
    /\ Goto(c, "rem_mutex", "rem_load")
    /\ P(mutex)
    /\ UNCHANGED <<buf, front, rear, slots, items, reg, item, inserts>>

RemLoad(c) ==
    /\ Goto(c, "rem_load", "rem_take")
    /\ reg' = [reg EXCEPT ![c] = front]
    /\ UNCHANGED <<buf, front, rear, sems, item, inserts>>

RemTake(c) ==
    /\ Goto(c, "rem_take", "rem_unlock")
    /\ front' = reg[c] + 1
    /\ item' = [item EXCEPT ![c] = buf[(reg[c] + 1) % N]]
    /\ UNCHANGED <<buf, rear, sems, reg, inserts>>

RemUnlock(c) ==
    /\ Goto(c, "rem_unlock", "rem_slots")
    /\ V(mutex)
    /\ UNCHANGED <<buf, front, rear, slots, items, reg, item, inserts>>

RemSlots(c) ==
    /\ Goto(c, "rem_slots", "serve")
    /\ V(slots)
    /\ UNCHANGED <<buf, front, rear, mutex, items, reg, item, inserts>>

\* The worker serves the connection to its end and closes the descriptor.
CloseItem(c) ==
    /\ Goto(c, "serve", "rem_items")
    /\ item' = [item EXCEPT ![c] = NoItem]
    /\ UNCHANGED <<buf, front, rear, sems, reg, inserts>>

Remove(c) ==
    \/ RemItems(c) \/ RemMutex(c) \/ RemLoad(c) \/ RemTake(c)
    \/ RemUnlock(c) \/ RemSlots(c) \/ CloseItem(c)

Next == (\E p \in Producers : Insert(p)) \/ (\E c \in Consumers : Remove(c))

Spec == Init /\ [][Next]_vars

(***************************************************************************)
(* Fairness.  Every thread is scheduled, so a step that cannot be disabled *)
(* by another thread is taken.  A semaphore wakes some waiter, not a given *)
(* one: a P is weakly fair for the group that waits on it.  Nothing makes  *)
(* a client connect; a connection is served to its end.                    *)
(***************************************************************************)
Fairness ==
    /\ \A p \in Producers :
         WF_vars(InsLoad(p) \/ InsStore(p) \/ InsUnlock(p) \/ InsItems(p))
    /\ \A c \in Consumers :
         WF_vars(RemLoad(c) \/ RemTake(c) \/ RemUnlock(c) \/ RemSlots(c)
                 \/ CloseItem(c))
    /\ WF_vars(\E p \in Producers : InsSlots(p))
    /\ WF_vars(\E c \in Consumers : RemItems(c))
    /\ WF_vars(\/ \E p \in Producers : InsMutex(p)
               \/ \E c \in Consumers : RemMutex(c))

FairSpec == Spec /\ Fairness

-----------------------------------------------------------------------------
(* Properties *)

\* Type invariant.
TypeOK ==
    /\ buf \in [0..(N - 1) -> Items \cup {NoItem}]
    /\ front \in Nat /\ rear \in Nat
    /\ mutex \in 0..1 /\ slots \in 0..N /\ items \in 0..N
    /\ pc \in [Threads -> InsertLabels \cup RemoveLabels]
    /\ \A p \in Producers : pc[p] \in InsertLabels
    /\ \A c \in Consumers : pc[c] \in RemoveLabels
    /\ reg \in [Threads -> Nat]
    /\ item \in [Threads -> Items \cup {NoItem}]
    /\ inserts \in 0..MaxInserts

At(labels) == {t \in Threads : pc[t] \in labels}

Critical == {"ins_load", "ins_store", "ins_unlock",
             "rem_load", "rem_take", "rem_unlock"}
SlotClaimed == {"ins_mutex", "ins_load", "ins_store", "rem_unlock", "rem_slots"}
ItemClaimed == {"rem_mutex", "rem_load", "rem_take", "ins_unlock", "ins_items"}

\* The semaphores count what their comments say (sbuf.h): a slot is free, in
\* use, or claimed by one thread between its P or its take and the matching
\* store or V; likewise the items.  A counter a thread has loaded is still the
\* current one when it stores it back.
Accounting ==
    /\ mutex + Cardinality(At(Critical)) = 1
    /\ slots + (rear - front) + Cardinality(At(SlotClaimed)) = N
    /\ items + Cardinality(At(ItemClaimed)) = rear - front
    /\ \A t \in Threads :
         /\ pc[t] = "ins_store" => reg[t] = rear
         /\ pc[t] = "rem_take" => reg[t] = front

\* A store never overwrites a descriptor that waits, and a take never reads a
\* slot that holds none: the buffer of N slots neither overflows nor underflows,
\* whatever the interleaving of sbuf_insert and sbuf_remove.
NoOverflow ==
    \A t \in Threads :
        /\ pc[t] = "ins_store" => rear - front < N
        /\ pc[t] = "rem_take" => rear - front > 0

\* A descriptor is in one place only: no two workers serve the same connection,
\* and none is served while it still waits in the buffer.
OneOwner ==
    /\ \A s, t \in Threads : s # t /\ item[s] # NoItem => item[s] # item[t]
    /\ \A j, k \in (front + 1)..rear : j # k => buf[j % N] # buf[k % N]
    /\ \A t \in Threads : item[t] # NoItem => item[t] \notin InSlots

\* The queue and the held descriptors that callers see.
Abstract == INSTANCE BoundedQueue WITH
    queue <- [k \in 1..(rear - front) |-> buf[(front + k) % N]],
    held <- [c \in Consumers |-> item[c]]

\* sbuf_t is a first-in first-out queue of at most N descriptors.
ImplementsQueue == Abstract!Spec

\* A descriptor handed to sbuf_insert reaches a worker: no wakeup of the three
\* semaphores is lost.
EveryItemServed ==
    \A i \in Items :
        (\E p \in Producers : item[p] = i)
            ~> (\E c \in Consumers : item[c] = i /\ pc[c] = "serve")
=============================================================================
