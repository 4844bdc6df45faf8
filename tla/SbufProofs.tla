----------------------------- MODULE SbufProofs -----------------------------
(* Theorems about Sbuf, for any number of threads and any buffer size. *)
EXTENDS Sbuf, Counts, FiniteSetTheorems, TLAPS

Labels == InsertLabels \cup RemoveLabels

\* Accounting needs the types, and the types of the semaphores need Accounting.
IInv == TypeOK /\ Accounting

\* The model's threads are finite in number.
LEMMA ThreadsFinite == IsFiniteSet(Threads)
  BY SbufAssumption, FS_Union DEF Threads

\* Only one thread is in a critical section.
LEMMA CriticalAlone ==
    ASSUME TypeOK, mutex + Cardinality(At(Critical)) = 1,
           NEW s \in Threads, NEW t \in Threads,
           pc[s] \in Critical, pc[t] \in Critical
    PROVE  s = t
<1>1. IsFiniteSet(At(Critical))
  BY ThreadsFinite, FS_Subset DEF At
<1>2. s \in At(Critical) /\ t \in At(Critical)
  BY DEF At
<1>3. Cardinality(At(Critical)) \in Nat /\ Cardinality(At(Critical)) # 0
  BY <1>1, <1>2, FS_EmptySet, FS_CardinalityType
<1>4. Cardinality(At(Critical)) = 1
  BY <1>3 DEF TypeOK
<1> QED  BY <1>1, <1>2, <1>4, FS_Singleton

\* The invariant holds after sbuf_init.
LEMMA InitInv == Init => IInv
<1> SUFFICES ASSUME Init PROVE IInv
  OBVIOUS
<1>1. \A t \in Threads : pc[t] \in {"accept", "rem_items"}
  BY DEF Init
<1>2. At(Critical) = {} /\ At(SlotClaimed) = {} /\ At(ItemClaimed) = {}
  BY <1>1 DEF At, Critical, SlotClaimed, ItemClaimed
<1>3. Cardinality({}) = 0
  BY FS_EmptySet
<1>4. TypeOK
  BY SbufAssumption DEF Init, TypeOK, Threads, InsertLabels, RemoveLabels
<1>5. Accounting
  BY <1>1, <1>2, <1>3, SbufAssumption DEF Init, Accounting
<1> QED  BY <1>4, <1>5 DEF IInv

\* The three counts of Accounting, and how one step of one thread changes them.
Crit == Cardinality(At(Critical))
Slot == Cardinality(At(SlotClaimed))
Item == Cardinality(At(ItemClaimed))

\* A thread that goes from one label to another changes the count of any labels.
LEMMA GotoCounts ==
    ASSUME TypeOK, NEW t \in Threads, NEW from, NEW to, Goto(t, from, to),
           NEW L
    PROVE  /\ Cardinality(At(L)) \in Nat
           /\ Cardinality(At(L)') \in Nat
           /\ from \in L => Cardinality(At(L)) > 0
           /\ Cardinality(At(L)') = Cardinality(At(L))
                 + (IF to \in L THEN 1 ELSE 0) - (IF from \in L THEN 1 ELSE 0)
<1>1. pc \in [Threads -> Labels] /\ pc[t] = from /\ pc' = [pc EXCEPT ![t] = to]
  BY DEF TypeOK, Labels, Goto
<1>2. IsFiniteSet(At(L))
  BY ThreadsFinite, FS_Subset DEF At
<1>3. At(L) \ {t} = At(L)' \ {t}
  BY <1>1 DEF At
<1>4. (t \in At(L) <=> from \in L) /\ (t \in At(L)' <=> to \in L)
  BY <1>1 DEF At
<1> QED  BY <1>2, <1>3, <1>4, CountStep

\* Every step of every thread preserves the invariant.
LEMMA NextInv ==
    ASSUME IInv, [Next]_vars
    PROVE  IInv'
<1> USE SbufAssumption
<1> USE DEF IInv

<1>1. ASSUME NEW p \in Producers, CallInsert(p) PROVE IInv'
  <2>1. p \in Threads /\ Goto(p, "accept", "ins_slots")
    BY <1>1 DEF CallInsert, Threads
  <2>2. /\ Crit \in Nat /\ Crit' = Crit
        /\ Slot \in Nat /\ Slot' = Slot
        /\ Item \in Nat /\ Item' = Item
    BY <2>1, GotoCounts DEF Critical, SlotClaimed, ItemClaimed, Crit, Slot, Item
  <2>3. TypeOK'
    BY <1>1, <2>1, <2>2
    DEF CallInsert, Goto, P, V, sems, TypeOK, Accounting, Crit, Slot, Item,
        InsertLabels, RemoveLabels
  <2>4. Accounting'
    BY <1>1, <2>1, <2>2
    DEF CallInsert, Goto, P, V, sems, TypeOK, Accounting, Crit, Slot, Item
  <2> QED  BY <2>3, <2>4

<1>2. ASSUME NEW p \in Producers, InsSlots(p) PROVE IInv'
  <2>1. p \in Threads /\ Goto(p, "ins_slots", "ins_mutex")
    BY <1>2 DEF InsSlots, Threads
  <2>2. /\ Crit \in Nat /\ Crit' = Crit
        /\ Slot \in Nat /\ Slot' = Slot + 1
        /\ Item \in Nat /\ Item' = Item
    BY <2>1, GotoCounts DEF Critical, SlotClaimed, ItemClaimed, Crit, Slot, Item
  <2>3. TypeOK'
    BY <1>2, <2>1, <2>2
    DEF InsSlots, Goto, P, V, sems, TypeOK, Accounting, Crit, Slot, Item,
        InsertLabels, RemoveLabels
  <2>4. Accounting'
    BY <1>2, <2>1, <2>2
    DEF InsSlots, Goto, P, V, sems, TypeOK, Accounting, Crit, Slot, Item
  <2> QED  BY <2>3, <2>4

<1>3. ASSUME NEW p \in Producers, InsMutex(p) PROVE IInv'
  <2>1. p \in Threads /\ Goto(p, "ins_mutex", "ins_load")
    BY <1>3 DEF InsMutex, Threads
  <2>2. /\ Crit \in Nat /\ Crit' = Crit + 1
        /\ Slot \in Nat /\ Slot' = Slot
        /\ Item \in Nat /\ Item' = Item
        /\ Slot > 0
    BY <2>1, GotoCounts DEF Critical, SlotClaimed, ItemClaimed, Crit, Slot, Item
  <2>3. TypeOK'
    BY <1>3, <2>1, <2>2
    DEF InsMutex, Goto, P, V, sems, TypeOK, Accounting, Crit, Slot, Item,
        InsertLabels, RemoveLabels
  <2>4. Accounting'
    BY <1>3, <2>1, <2>2
    DEF InsMutex, Goto, P, V, sems, TypeOK, Accounting, Crit, Slot, Item
  <2> QED  BY <2>3, <2>4

<1>4. ASSUME NEW p \in Producers, InsLoad(p) PROVE IInv'
  <2>1. p \in Threads /\ Goto(p, "ins_load", "ins_store")
    BY <1>4 DEF InsLoad, Threads
  <2>2. /\ Crit \in Nat /\ Crit' = Crit
        /\ Slot \in Nat /\ Slot' = Slot
        /\ Item \in Nat /\ Item' = Item
        /\ Crit > 0 /\ Slot > 0
    BY <2>1, GotoCounts DEF Critical, SlotClaimed, ItemClaimed, Crit, Slot, Item
  <2>3. TypeOK'
    BY <1>4, <2>1, <2>2
    DEF InsLoad, Goto, P, V, sems, TypeOK, Accounting, Crit, Slot, Item,
        InsertLabels, RemoveLabels
  <2>4. Accounting'
    BY <1>4, <2>1, <2>2
    DEF InsLoad, Goto, P, V, sems, TypeOK, Accounting, Crit, Slot, Item
  <2> QED  BY <2>3, <2>4

<1>5. ASSUME NEW p \in Producers, InsStore(p) PROVE IInv'
  <2>1. p \in Threads /\ Goto(p, "ins_store", "ins_unlock")
    BY <1>5 DEF InsStore, Threads
  <2>2. /\ Crit \in Nat /\ Crit' = Crit
        /\ Slot \in Nat /\ Slot' = Slot - 1
        /\ Item \in Nat /\ Item' = Item + 1
        /\ Crit > 0 /\ Slot > 0
    BY <2>1, GotoCounts DEF Critical, SlotClaimed, ItemClaimed, Crit, Slot, Item
  <2>3. reg[p] = rear /\ rear \in Nat /\ (reg[p] + 1) % N \in 0..(N - 1)
    BY <2>1 DEF Goto, TypeOK, Accounting
  <2>4. TypeOK'
    <3>1. buf' \in [0..(N - 1) -> Items \cup {NoItem}]
      BY <1>5, <2>1, <2>3 DEF InsStore, TypeOK
    <3>2. item' \in [Threads -> Items \cup {NoItem}]
      BY <1>5, <2>1, <2>3 DEF InsStore, TypeOK
    <3>3. /\ front' \in Nat /\ rear' \in Nat
          /\ mutex' \in 0..1 /\ slots' \in 0..N /\ items' \in 0..N
      BY <1>5, <2>2, <2>3 DEF InsStore, sems, TypeOK
    <3> QED
      BY <1>5, <2>1, <3>1, <3>2, <3>3
      DEF InsStore, Goto, TypeOK, InsertLabels, RemoveLabels
  <2>5. ASSUME NEW s \in Threads, pc'[s] \in {"ins_store", "rem_take"} PROVE FALSE
    <3>1. pc[s] = pc'[s] /\ s # p
      BY <2>1, <2>5 DEF Goto, TypeOK
    <3>2. pc[s] \in Critical /\ pc[p] \in Critical
      BY <2>1, <2>5, <3>1 DEF Goto, Critical
    <3> QED  BY <2>1, <3>1, <3>2, CriticalAlone DEF Accounting
  <2>6. Accounting'
    <3>1. \A s \in Threads : pc'[s] # "ins_store" /\ pc'[s] # "rem_take"
      BY <2>5
    <3>2. rear' = rear + 1 /\ front' = front /\ UNCHANGED <<mutex, slots, items>>
      BY <1>5, <2>3 DEF InsStore, sems
    <3>3. /\ front \in Nat /\ rear \in Nat
          /\ mutex \in Nat /\ slots \in Nat /\ items \in Nat /\ N \in Nat
      BY DEF TypeOK
    <3>4. /\ mutex + Crit = 1 /\ slots + (rear - front) + Slot = N
          /\ items + Item = rear - front
      BY DEF Accounting, Crit, Slot, Item
    <3>5. /\ mutex' + Crit' = 1 /\ slots' + (rear' - front') + Slot' = N
          /\ items' + Item' = rear' - front'
      BY <2>2, <3>2, <3>3, <3>4
    <3> QED  BY <3>1, <3>5 DEF Accounting, Crit, Slot, Item
  <2> QED  BY <2>4, <2>6

<1>6. ASSUME NEW p \in Producers, InsUnlock(p) PROVE IInv'
  <2>1. p \in Threads /\ Goto(p, "ins_unlock", "ins_items")
    BY <1>6 DEF InsUnlock, Threads
  <2>2. /\ Crit \in Nat /\ Crit' = Crit - 1
        /\ Slot \in Nat /\ Slot' = Slot
        /\ Item \in Nat /\ Item' = Item
        /\ Crit > 0 /\ Item > 0
    BY <2>1, GotoCounts DEF Critical, SlotClaimed, ItemClaimed, Crit, Slot, Item
  <2>3. TypeOK'
    BY <1>6, <2>1, <2>2
    DEF InsUnlock, Goto, P, V, sems, TypeOK, Accounting, Crit, Slot, Item,
        InsertLabels, RemoveLabels
  <2>4. Accounting'
    BY <1>6, <2>1, <2>2
    DEF InsUnlock, Goto, P, V, sems, TypeOK, Accounting, Crit, Slot, Item
  <2> QED  BY <2>3, <2>4

<1>7. ASSUME NEW p \in Producers, InsItems(p) PROVE IInv'
  <2>1. p \in Threads /\ Goto(p, "ins_items", "accept")
    BY <1>7 DEF InsItems, Threads
  <2>2. /\ Crit \in Nat /\ Crit' = Crit
        /\ Slot \in Nat /\ Slot' = Slot
        /\ Item \in Nat /\ Item' = Item - 1
        /\ Item > 0
    BY <2>1, GotoCounts DEF Critical, SlotClaimed, ItemClaimed, Crit, Slot, Item
  <2>3. TypeOK'
    BY <1>7, <2>1, <2>2
    DEF InsItems, Goto, P, V, sems, TypeOK, Accounting, Crit, Slot, Item,
        InsertLabels, RemoveLabels
  <2>4. Accounting'
    <3>1. \A s \in Threads :
             pc'[s] \in {"ins_store", "rem_take"} => pc'[s] = pc[s]
      BY <2>1 DEF Goto, TypeOK
    <3>2. /\ mutex' + Crit' = 1 /\ slots' + (rear' - front') + Slot' = N
          /\ items' + Item' = rear' - front'
      BY <1>7, <2>2 DEF InsItems, V, TypeOK, Accounting, Crit, Slot, Item
    <3> QED
      BY <1>7, <3>1, <3>2 DEF InsItems, Accounting, Crit, Slot, Item
  <2> QED  BY <2>3, <2>4

<1>8. ASSUME NEW c \in Consumers, RemItems(c) PROVE IInv'
  <2>1. c \in Threads /\ Goto(c, "rem_items", "rem_mutex")
    BY <1>8 DEF RemItems, Threads
  <2>2. /\ Crit \in Nat /\ Crit' = Crit
        /\ Slot \in Nat /\ Slot' = Slot
        /\ Item \in Nat /\ Item' = Item + 1
    BY <2>1, GotoCounts DEF Critical, SlotClaimed, ItemClaimed, Crit, Slot, Item
  <2>3. TypeOK'
    BY <1>8, <2>1, <2>2
    DEF RemItems, Goto, P, V, sems, TypeOK, Accounting, Crit, Slot, Item,
        InsertLabels, RemoveLabels
  <2>4. Accounting'
    BY <1>8, <2>1, <2>2
    DEF RemItems, Goto, P, V, sems, TypeOK, Accounting, Crit, Slot, Item
  <2> QED  BY <2>3, <2>4

<1>9. ASSUME NEW c \in Consumers, RemMutex(c) PROVE IInv'
  <2>1. c \in Threads /\ Goto(c, "rem_mutex", "rem_load")
    BY <1>9 DEF RemMutex, Threads
  <2>2. /\ Crit \in Nat /\ Crit' = Crit + 1
        /\ Slot \in Nat /\ Slot' = Slot
        /\ Item \in Nat /\ Item' = Item
        /\ Item > 0
    BY <2>1, GotoCounts DEF Critical, SlotClaimed, ItemClaimed, Crit, Slot, Item
  <2>3. TypeOK'
    BY <1>9, <2>1, <2>2
    DEF RemMutex, Goto, P, V, sems, TypeOK, Accounting, Crit, Slot, Item,
        InsertLabels, RemoveLabels
  <2>4. Accounting'
    BY <1>9, <2>1, <2>2
    DEF RemMutex, Goto, P, V, sems, TypeOK, Accounting, Crit, Slot, Item
  <2> QED  BY <2>3, <2>4

<1>10. ASSUME NEW c \in Consumers, RemLoad(c) PROVE IInv'
  <2>1. c \in Threads /\ Goto(c, "rem_load", "rem_take")
    BY <1>10 DEF RemLoad, Threads
  <2>2. /\ Crit \in Nat /\ Crit' = Crit
        /\ Slot \in Nat /\ Slot' = Slot
        /\ Item \in Nat /\ Item' = Item
        /\ Crit > 0 /\ Item > 0
    BY <2>1, GotoCounts DEF Critical, SlotClaimed, ItemClaimed, Crit, Slot, Item
  <2>3. TypeOK'
    BY <1>10, <2>1, <2>2
    DEF RemLoad, Goto, P, V, sems, TypeOK, Accounting, Crit, Slot, Item,
        InsertLabels, RemoveLabels
  <2>4. Accounting'
    BY <1>10, <2>1, <2>2
    DEF RemLoad, Goto, P, V, sems, TypeOK, Accounting, Crit, Slot, Item
  <2> QED  BY <2>3, <2>4

<1>11. ASSUME NEW c \in Consumers, RemTake(c) PROVE IInv'
  <2>1. c \in Threads /\ Goto(c, "rem_take", "rem_unlock")
    BY <1>11 DEF RemTake, Threads
  <2>2. /\ Crit \in Nat /\ Crit' = Crit
        /\ Slot \in Nat /\ Slot' = Slot + 1
        /\ Item \in Nat /\ Item' = Item - 1
        /\ Crit > 0 /\ Item > 0
    BY <2>1, GotoCounts DEF Critical, SlotClaimed, ItemClaimed, Crit, Slot, Item
  <2>3. reg[c] = front /\ front \in Nat /\ (reg[c] + 1) % N \in 0..(N - 1)
    BY <2>1 DEF Goto, TypeOK, Accounting
  <2>4. TypeOK'
    <3>1. buf' \in [0..(N - 1) -> Items \cup {NoItem}]
      BY <1>11, <2>1, <2>3 DEF RemTake, TypeOK
    <3>2. item' \in [Threads -> Items \cup {NoItem}]
      BY <1>11, <2>1, <2>3 DEF RemTake, TypeOK
    <3>3. /\ front' \in Nat /\ rear' \in Nat
          /\ mutex' \in 0..1 /\ slots' \in 0..N /\ items' \in 0..N
      BY <1>11, <2>2, <2>3 DEF RemTake, sems, TypeOK
    <3> QED
      BY <1>11, <2>1, <3>1, <3>2, <3>3
      DEF RemTake, Goto, TypeOK, InsertLabels, RemoveLabels
  <2>5. ASSUME NEW s \in Threads, pc'[s] \in {"ins_store", "rem_take"} PROVE FALSE
    <3>1. pc[s] = pc'[s] /\ s # c
      BY <2>1, <2>5 DEF Goto, TypeOK
    <3>2. pc[s] \in Critical /\ pc[c] \in Critical
      BY <2>1, <2>5, <3>1 DEF Goto, Critical
    <3> QED  BY <2>1, <3>1, <3>2, CriticalAlone DEF Accounting
  <2>6. Accounting'
    <3>1. \A s \in Threads : pc'[s] # "ins_store" /\ pc'[s] # "rem_take"
      BY <2>5
    <3>2. front' = front + 1 /\ rear' = rear /\ UNCHANGED <<mutex, slots, items>>
      BY <1>11, <2>3 DEF RemTake, sems
    <3>3. /\ front \in Nat /\ rear \in Nat
          /\ mutex \in Nat /\ slots \in Nat /\ items \in Nat /\ N \in Nat
      BY DEF TypeOK
    <3>4. /\ mutex + Crit = 1 /\ slots + (rear - front) + Slot = N
          /\ items + Item = rear - front
      BY DEF Accounting, Crit, Slot, Item
    <3>5. /\ mutex' + Crit' = 1 /\ slots' + (rear' - front') + Slot' = N
          /\ items' + Item' = rear' - front'
      BY <2>2, <3>2, <3>3, <3>4
    <3> QED  BY <3>1, <3>5 DEF Accounting, Crit, Slot, Item
  <2> QED  BY <2>4, <2>6

<1>12. ASSUME NEW c \in Consumers, RemUnlock(c) PROVE IInv'
  <2>1. c \in Threads /\ Goto(c, "rem_unlock", "rem_slots")
    BY <1>12 DEF RemUnlock, Threads
  <2>2. /\ Crit \in Nat /\ Crit' = Crit - 1
        /\ Slot \in Nat /\ Slot' = Slot
        /\ Item \in Nat /\ Item' = Item
        /\ Crit > 0 /\ Slot > 0
    BY <2>1, GotoCounts DEF Critical, SlotClaimed, ItemClaimed, Crit, Slot, Item
  <2>3. TypeOK'
    BY <1>12, <2>1, <2>2
    DEF RemUnlock, Goto, P, V, sems, TypeOK, Accounting, Crit, Slot, Item,
        InsertLabels, RemoveLabels
  <2>4. Accounting'
    BY <1>12, <2>1, <2>2
    DEF RemUnlock, Goto, P, V, sems, TypeOK, Accounting, Crit, Slot, Item
  <2> QED  BY <2>3, <2>4

<1>13. ASSUME NEW c \in Consumers, RemSlots(c) PROVE IInv'
  <2>1. c \in Threads /\ Goto(c, "rem_slots", "serve")
    BY <1>13 DEF RemSlots, Threads
  <2>2. /\ Crit \in Nat /\ Crit' = Crit
        /\ Slot \in Nat /\ Slot' = Slot - 1
        /\ Item \in Nat /\ Item' = Item
        /\ Slot > 0
    BY <2>1, GotoCounts DEF Critical, SlotClaimed, ItemClaimed, Crit, Slot, Item
  <2>3. TypeOK'
    BY <1>13, <2>1, <2>2
    DEF RemSlots, Goto, P, V, sems, TypeOK, Accounting, Crit, Slot, Item,
        InsertLabels, RemoveLabels
  <2>4. Accounting'
    BY <1>13, <2>1, <2>2
    DEF RemSlots, Goto, P, V, sems, TypeOK, Accounting, Crit, Slot, Item
  <2> QED  BY <2>3, <2>4

<1>14. ASSUME NEW c \in Consumers, CloseItem(c) PROVE IInv'
  <2>1. c \in Threads /\ Goto(c, "serve", "rem_items")
    BY <1>14 DEF CloseItem, Threads
  <2>2. /\ Crit \in Nat /\ Crit' = Crit
        /\ Slot \in Nat /\ Slot' = Slot
        /\ Item \in Nat /\ Item' = Item
    BY <2>1, GotoCounts DEF Critical, SlotClaimed, ItemClaimed, Crit, Slot, Item
  <2>3. TypeOK'
    BY <1>14, <2>1, <2>2
    DEF CloseItem, Goto, P, V, sems, TypeOK, Accounting, Crit, Slot, Item,
        InsertLabels, RemoveLabels
  <2>4. Accounting'
    BY <1>14, <2>1, <2>2
    DEF CloseItem, Goto, P, V, sems, TypeOK, Accounting, Crit, Slot, Item
  <2> QED  BY <2>3, <2>4

<1>15. CASE UNCHANGED vars
  <2>1. At(Critical)' = At(Critical) /\ At(SlotClaimed)' = At(SlotClaimed)
        /\ At(ItemClaimed)' = At(ItemClaimed)
    BY <1>15 DEF vars, At
  <2>2. TypeOK'
    BY <1>15 DEF vars, sems, TypeOK
  <2>3. Accounting'
    BY <1>15, <2>1 DEF vars, sems, Accounting
  <2> QED  BY <2>2, <2>3
<1> HIDE DEF IInv
<1>16. ASSUME NEW p \in Producers, Insert(p) PROVE IInv'
  BY <1>16, <1>1, <1>2, <1>3, <1>4, <1>5, <1>6, <1>7 DEF Insert
<1>17. ASSUME NEW c \in Consumers, Remove(c) PROVE IInv'
  BY <1>17, <1>8, <1>9, <1>10, <1>11, <1>12, <1>13, <1>14 DEF Remove
<1> QED
  BY <1>15, <1>16, <1>17 DEF Next

\* Type correctness, and the meaning of the three semaphores, in every
\* reachable state: sbuf.h says what `slots' and `items' count.
THEOREM AccountingCorrect == Spec => [](TypeOK /\ Accounting)
<1>1. Init => IInv
  BY InitInv
<1>2. IInv /\ [Next]_vars => IInv'
  BY NextInv
<1> QED  BY <1>1, <1>2, PTL DEF Spec, IInv

\* Each thread about to store or to take is one of those Accounting counts, so
\* there is room, or a descriptor, for it.
LEMMA IInvNoOverflow == IInv => NoOverflow
<1> SUFFICES ASSUME IInv, NEW t \in Threads
             PROVE  /\ pc[t] = "ins_store" => rear - front < N
                    /\ pc[t] = "rem_take" => rear - front > 0
  BY DEF NoOverflow
<1>1. \A L : t \in At(L) => Cardinality(At(L)) \in Nat \ {0}
  <2> SUFFICES ASSUME NEW L, t \in At(L) PROVE Cardinality(At(L)) \in Nat \ {0}
    OBVIOUS
  <2>1. IsFiniteSet(At(L))
    BY ThreadsFinite, FS_Subset DEF At
  <2> QED  BY <2>1, FS_EmptySet, FS_CardinalityType
<1>2. CASE pc[t] = "ins_store"
  <2>1. Cardinality(At(SlotClaimed)) \in Nat \ {0}
    BY <1>1, <1>2 DEF At, SlotClaimed
  <2> QED  BY <1>2, <2>1, SbufAssumption DEF IInv, TypeOK, Accounting
<1>3. CASE pc[t] = "rem_take"
  <2>1. Cardinality(At(ItemClaimed)) \in Nat \ {0}
    BY <1>1, <1>3 DEF At, ItemClaimed
  <2> QED  BY <1>3, <2>1 DEF IInv, TypeOK, Accounting
<1> QED  BY <1>2, <1>3

\* The values of every variable, the indices of the ring and the semaphores among them,
\* stay in their ranges (sbuf.h).
THEOREM TypesCorrect == Spec => []TypeOK
  BY AccountingCorrect, PTL

\* The buffer neither overflows nor underflows (sbuf.c:20, sbuf.c:29).
THEOREM NeverOverflows == Spec => []NoOverflow
  BY AccountingCorrect, IInvNoOverflow, PTL DEF IInv

-----------------------------------------------------------------------------
(***************************************************************************)
(* sbuf_t is the bounded first-in first-out queue its callers take it for: *)
(* every descriptor has one owner, and every step of Sbuf is a step of      *)
(* BoundedQueue or changes nothing that module describes.                  *)
(***************************************************************************)

\* Where a thread has a descriptor in its hands: from Accept to the store into
\* a slot, and from the take out of a slot to the Close.
Holds == {"ins_slots", "ins_mutex", "ins_load", "ins_store",
          "rem_unlock", "rem_slots", "serve"}

\* OneOwner is inductive only together with who holds a descriptor at all, and
\* with the slots in use holding one each.
OwnerInv ==
    /\ \A t \in Threads : item[t] # NoItem <=> pc[t] \in Holds
    /\ \A k \in (front + 1)..rear : buf[k % N] # NoItem
    /\ OneOwner

-----------------------------------------------------------------------------
(* Numbers modulo the size of the buffer *)

\* A number is the divisor times the quotient plus the remainder.
LEMMA DivMod ==
    ASSUME NEW n \in Nat \ {0}, NEW a \in Nat
    PROVE  a = n * (a \div n) + (a % n) /\ a \div n \in Nat /\ a % n \in 0..(n - 1)
  OBVIOUS

\* The remainder names a slot.
LEMMA SlotInRange ==
    ASSUME NEW n \in Nat \ {0}, NEW a \in Nat
    PROVE  a % n \in 0..(n - 1)
  BY DivMod

\* No multiple of n lies strictly between 0 and n.
LEMMA NoMultipleBetween ==
    ASSUME NEW n \in Nat \ {0}, NEW d \in Int, 0 < n * d, n * d < n
    PROVE  FALSE
<1>1. CASE d <= 0
  <2>1. n * d <= 0
    BY <1>1
  <2> QED  BY <2>1
<1>2. CASE d >= 1
  <2>1. n * d >= n
    BY <1>2
  <2> QED  BY <2>1
<1> QED  BY <1>1, <1>2

\* Positions less than n apart name different slots.
LEMMA SlotsDiffer ==
    ASSUME NEW n \in Nat \ {0}, NEW a \in Nat, NEW b \in Nat, a < b, b < a + n
    PROVE  a % n # b % n
<1> SUFFICES ASSUME a % n = b % n PROVE FALSE
  OBVIOUS
<1> DEFINE d == (b \div n) - (a \div n)
<1>1. d \in Int /\ b - a = n * d
  BY DivMod
<1>2. 0 < n * d /\ n * d < n
  BY <1>1
<1> HIDE DEF d
<1> QED  BY <1>1, <1>2, NoMultipleBetween

-----------------------------------------------------------------------------
(* OneOwner *)

\* The positions in use are at most N apart, and exactly when a thread is about
\* to store or take there is room, or something, for it.
LEMMA Room ==
    ASSUME IInv
    PROVE  /\ front \in Nat /\ rear \in Nat /\ N \in Nat \ {0}
           /\ rear - front \in 0..N
           /\ \A t \in Threads :
                /\ pc[t] = "ins_store" => reg[t] = rear /\ rear - front < N
                /\ pc[t] = "rem_take" => reg[t] = front /\ rear - front > 0
<1>1. \A L : Cardinality(At(L)) \in Nat
  BY ThreadsFinite, FS_Subset, FS_CardinalityType DEF At
<1>2. rear - front \in 0..N
  BY <1>1, SbufAssumption DEF IInv, TypeOK, Accounting
<1> QED  BY <1>2, SbufAssumption, IInvNoOverflow DEF IInv, TypeOK, Accounting, NoOverflow

\* After sbuf_init nothing is open.
LEMMA OwnerInit == Init => OwnerInv
<1> SUFFICES ASSUME Init PROVE OwnerInv
  OBVIOUS
<1>1. \A t \in Threads : item[t] = NoItem /\ pc[t] \notin Holds
  BY DEF Init, Holds
<1>2. (front + 1)..rear = {}
  BY DEF Init
<1> QED  BY <1>1, <1>2 DEF OwnerInv, OneOwner, InSlots

\* A step that moves no descriptor, and a thread between labels that agree on
\* whether it has one.
LEMMA QuietStep ==
    ASSUME TypeOK, OwnerInv, NEW t \in Threads, NEW from, NEW to,
           Goto(t, from, to), from \in Holds <=> to \in Holds,
           UNCHANGED <<buf, front, rear, item>>
    PROVE  OwnerInv'
<1>1. \A s \in Threads : pc'[s] \in Holds <=> pc[s] \in Holds
  BY DEF Goto, TypeOK
<1> QED  BY <1>1 DEF OwnerInv, OneOwner, InSlots

\* Accept returns a descriptor that is not open.
LEMMA CallInsertOwner ==
    ASSUME IInv, OwnerInv, NEW p \in Producers, CallInsert(p)
    PROVE  OwnerInv'
<1>1. PICK i \in Items \ Open : item' = [item EXCEPT ![p] = i]
  BY DEF CallInsert
<1>2. /\ p \in Threads /\ pc[p] = "accept" /\ pc' = [pc EXCEPT ![p] = "ins_slots"]
      /\ UNCHANGED <<buf, front, rear>>
  BY DEF CallInsert, Goto, Threads
<1>3. item \in [Threads -> Items \cup {NoItem}] /\ pc \in [Threads -> Labels]
  BY DEF IInv, TypeOK, Labels
<1>4. i # NoItem /\ i \notin InSlots /\ \A t \in Threads : item[t] # i
  BY <1>1, SbufAssumption DEF Open
<1>5. \A t \in Threads : item'[t] # NoItem <=> pc'[t] \in Holds
  BY <1>1, <1>2, <1>3, <1>4 DEF OwnerInv, Holds
<1>6. InSlots' = InSlots
  BY <1>2 DEF InSlots
<1>7. OneOwner'
  BY <1>1, <1>2, <1>3, <1>4, <1>6 DEF OwnerInv, OneOwner
<1> QED  BY <1>2, <1>5, <1>7 DEF OwnerInv

\* The producer's descriptor goes to the slot after the last one in use.
LEMMA InsStoreOwner ==
    ASSUME IInv, OwnerInv, NEW p \in Producers, InsStore(p)
    PROVE  OwnerInv'
<1>1. /\ p \in Threads /\ pc[p] = "ins_store" /\ pc' = [pc EXCEPT ![p] = "ins_unlock"]
      /\ front' = front /\ rear' = reg[p] + 1
      /\ buf' = [buf EXCEPT ![(reg[p] + 1) % N] = item[p]]
      /\ item' = [item EXCEPT ![p] = NoItem]
  BY DEF InsStore, Goto, Threads
<1>2. /\ buf \in [0..(N - 1) -> Items \cup {NoItem}]
      /\ item \in [Threads -> Items \cup {NoItem}] /\ pc \in [Threads -> Labels]
  BY DEF IInv, TypeOK, Labels
<1>3. /\ front \in Nat /\ rear \in Nat /\ N \in Nat \ {0}
      /\ rear - front \in 0..N /\ rear - front < N /\ reg[p] = rear
  BY <1>1, Room
<1>4. rear' = rear + 1 /\ (rear + 1) % N \in 0..(N - 1)
  BY <1>1, <1>3, SlotInRange
<1>5. \A k \in (front + 1)..rear : k % N # (rear + 1) % N /\ k % N \in 0..(N - 1)
  <2> SUFFICES ASSUME NEW k \in (front + 1)..rear
               PROVE  k % N # (rear + 1) % N /\ k % N \in 0..(N - 1)
    OBVIOUS
  <2>1. k \in Nat /\ rear + 1 \in Nat /\ k < rear + 1 /\ rear + 1 < k + N
    BY <1>3
  <2>2. k % N # (rear + 1) % N
    BY <1>3, <2>1, SlotsDiffer, Zenon
  <2> QED  BY <1>3, <2>1, <2>2, SlotInRange
<1>6. buf'[(rear + 1) % N] = item[p]
  BY <1>1, <1>2, <1>3, <1>4
<1>7. \A k \in (front + 1)..rear : buf'[k % N] = buf[k % N]
  BY <1>1, <1>2, <1>3, <1>5
<1>8. (front + 1)..(rear + 1) = ((front + 1)..rear) \cup {rear + 1}
  BY <1>3
<1>9. item[p] # NoItem
  BY <1>1 DEF OwnerInv, Holds
<1>10. InSlots' = InSlots \cup {item[p]}
  BY <1>1, <1>4, <1>6, <1>7, <1>8 DEF InSlots
<1>11. \A t \in Threads : item'[t] # NoItem <=> pc'[t] \in Holds
  BY <1>1, <1>2 DEF OwnerInv, Holds
<1>12. \A k \in (front' + 1)..rear' : buf'[k % N] # NoItem
  BY <1>1, <1>4, <1>6, <1>7, <1>8, <1>9 DEF OwnerInv
<1>13. item[p] \notin InSlots
  BY <1>1, <1>9 DEF OwnerInv, OneOwner
<1>14. \A j, k \in (front' + 1)..rear' : j # k => buf'[j % N] # buf'[k % N]
  <2>1. \A k \in (front + 1)..rear : buf[k % N] # item[p]
    BY <1>13 DEF InSlots
  <2> QED  BY <1>1, <1>4, <1>6, <1>7, <1>8, <2>1 DEF OwnerInv, OneOwner
<1>15. OneOwner'
  BY <1>1, <1>2, <1>9, <1>10, <1>14 DEF OwnerInv, OneOwner
<1> QED  BY <1>11, <1>12, <1>15 DEF OwnerInv

\* The worker gets the descriptor of the first slot in use.
LEMMA RemTakeOwner ==
    ASSUME IInv, OwnerInv, NEW c \in Consumers, RemTake(c)
    PROVE  OwnerInv'
<1>1. /\ c \in Threads /\ pc[c] = "rem_take" /\ pc' = [pc EXCEPT ![c] = "rem_unlock"]
      /\ front' = reg[c] + 1 /\ rear' = rear /\ buf' = buf
      /\ item' = [item EXCEPT ![c] = buf[(reg[c] + 1) % N]]
  BY DEF RemTake, Goto, Threads
<1>2. item \in [Threads -> Items \cup {NoItem}] /\ pc \in [Threads -> Labels]
  BY DEF IInv, TypeOK, Labels
<1>3. /\ front \in Nat /\ rear \in Nat /\ rear - front > 0 /\ reg[c] = front
      /\ front' = front + 1
  BY <1>1, Room
<1>4. front + 1 \in (front + 1)..rear
      /\ \A k \in (front' + 1)..rear : k \in (front + 1)..rear /\ k # front + 1
  BY <1>3
<1> DEFINE i == buf[(front + 1) % N]
<1>5. item' = [item EXCEPT ![c] = i] /\ i # NoItem /\ i \in InSlots
  BY <1>1, <1>3, <1>4 DEF OwnerInv, InSlots
<1>6. InSlots' \subseteq InSlots
  BY <1>1, <1>4 DEF InSlots
<1>7. i \notin InSlots'
  BY <1>1, <1>4 DEF InSlots, OwnerInv, OneOwner
<1> HIDE DEF i
<1>8. \A t \in Threads : item[t] # i
  BY <1>5 DEF OwnerInv, OneOwner
<1>9. \A t \in Threads : item'[t] # NoItem <=> pc'[t] \in Holds
  BY <1>1, <1>2, <1>5 DEF OwnerInv, Holds
<1>10. \A k \in (front' + 1)..rear' : buf'[k % N] # NoItem
  BY <1>1, <1>4 DEF OwnerInv
<1>11. \A j, k \in (front' + 1)..rear' : j # k => buf'[j % N] # buf'[k % N]
  BY <1>1, <1>4 DEF OwnerInv, OneOwner
<1>12. OneOwner'
  <2>1. \A s, t \in Threads : s # t /\ item'[s] # NoItem => item'[s] # item'[t]
    BY <1>2, <1>5, <1>8 DEF OwnerInv, OneOwner
  <2>2. \A t \in Threads : item'[t] # NoItem => item'[t] \notin InSlots'
    BY <1>2, <1>5, <1>6, <1>7 DEF OwnerInv, OneOwner
  <2> QED  BY <1>11, <2>1, <2>2 DEF OneOwner
<1> QED  BY <1>9, <1>10, <1>12 DEF OwnerInv

\* The worker closes its descriptor.
LEMMA CloseOwner ==
    ASSUME IInv, OwnerInv, NEW c \in Consumers, CloseItem(c)
    PROVE  OwnerInv'
<1>1. /\ c \in Threads /\ pc[c] = "serve" /\ pc' = [pc EXCEPT ![c] = "rem_items"]
      /\ item' = [item EXCEPT ![c] = NoItem] /\ UNCHANGED <<buf, front, rear>>
  BY DEF CloseItem, Goto, Threads
<1>2. item \in [Threads -> Items \cup {NoItem}] /\ pc \in [Threads -> Labels]
  BY DEF IInv, TypeOK, Labels
<1>3. InSlots' = InSlots
  BY <1>1 DEF InSlots
<1>4. \A t \in Threads : item'[t] # NoItem <=> pc'[t] \in Holds
  BY <1>1, <1>2 DEF OwnerInv, Holds
<1>5. OneOwner'
  BY <1>1, <1>2, <1>3 DEF OwnerInv, OneOwner
<1> QED  BY <1>1, <1>4, <1>5 DEF OwnerInv

\* Every step preserves the invariant.
LEMMA OwnerNext ==
    ASSUME IInv, OwnerInv, [Next]_vars
    PROVE  OwnerInv'
<1>1. TypeOK /\ Producers \subseteq Threads /\ Consumers \subseteq Threads
  BY DEF IInv, Threads
<1>2. ASSUME NEW p \in Producers, Insert(p) PROVE OwnerInv'
  <2>1. CASE CallInsert(p)
    BY <2>1, CallInsertOwner
  <2>2. CASE InsSlots(p)
    BY <1>1, <2>2, QuietStep DEF InsSlots, Holds
  <2>3. CASE InsMutex(p)
    BY <1>1, <2>3, QuietStep DEF InsMutex, Holds
  <2>4. CASE InsLoad(p)
    BY <1>1, <2>4, QuietStep DEF InsLoad, Holds
  <2>5. CASE InsStore(p)
    BY <2>5, InsStoreOwner
  <2>6. CASE InsUnlock(p)
    BY <1>1, <2>6, QuietStep DEF InsUnlock, Holds
  <2>7. CASE InsItems(p)
    BY <1>1, <2>7, QuietStep DEF InsItems, Holds
  <2> QED  BY <1>2, <2>1, <2>2, <2>3, <2>4, <2>5, <2>6, <2>7 DEF Insert
<1>3. ASSUME NEW c \in Consumers, Remove(c) PROVE OwnerInv'
  <2>1. CASE RemItems(c)
    BY <1>1, <2>1, QuietStep DEF RemItems, Holds
  <2>2. CASE RemMutex(c)
    BY <1>1, <2>2, QuietStep DEF RemMutex, Holds
  <2>3. CASE RemLoad(c)
    BY <1>1, <2>3, QuietStep DEF RemLoad, Holds
  <2>4. CASE RemTake(c)
    BY <2>4, RemTakeOwner
  <2>5. CASE RemUnlock(c)
    BY <1>1, <2>5, QuietStep DEF RemUnlock, Holds
  <2>6. CASE RemSlots(c)
    BY <1>1, <2>6, QuietStep DEF RemSlots, Holds
  <2>7. CASE CloseItem(c)
    BY <2>7, CloseOwner
  <2> QED  BY <1>3, <2>1, <2>2, <2>3, <2>4, <2>5, <2>6, <2>7 DEF Remove
<1>4. CASE UNCHANGED vars
  BY <1>4 DEF vars, OwnerInv, OneOwner, InSlots
<1> QED  BY <1>2, <1>3, <1>4 DEF Next

\* No two threads ever hold the same descriptor, and none holds one that waits
\* in the buffer: two workers never serve one connection (stockserver.c:69-73).
THEOREM DescriptorHasOneOwner == Spec => []OneOwner
<1>1. Init => IInv /\ OwnerInv
  BY InitInv, OwnerInit
<1>2. (IInv /\ OwnerInv) /\ [Next]_vars => (IInv /\ OwnerInv)'
  BY NextInv, OwnerNext
<1>3. OwnerInv => OneOwner
  BY DEF OwnerInv
<1> QED  BY <1>1, <1>2, <1>3, PTL DEF Spec

-----------------------------------------------------------------------------
(* The refinement of BoundedQueue *)

\* The queue and the held descriptors of the refinement mapping.
Waiting == [k \in 1..(rear - front) |-> buf[(front + k) % N]]
Held == [c \in Consumers |-> item[c]]

\* What it takes for a sequence to be another one with an element appended.
LEMMA IsAppend ==
    ASSUME NEW S, NEW n \in Nat, NEW q \in [1..n -> S], NEW i \in S,
           NEW r \in [1..(n + 1) -> S],
           \A k \in 1..n : r[k] = q[k], r[n + 1] = i
    PROVE  q \in Seq(S) /\ Len(q) = n /\ r = Append(q, i)
<1>1. q \in Seq(S) /\ Len(q) = n
  OBVIOUS
<1>2. Append(q, i) \in Seq(S) /\ Len(Append(q, i)) = n + 1
  BY <1>1
<1>3. \A k \in 1..(n + 1) : Append(q, i)[k] = IF k = n + 1 THEN i ELSE q[k]
  BY <1>1
<1>4. r \in Seq(S) /\ Len(r) = n + 1
  OBVIOUS
<1> QED  BY <1>1, <1>2, <1>3, <1>4

\* What it takes for a sequence to be another one without its head.
LEMMA IsTail ==
    ASSUME NEW S, NEW n \in Nat, NEW q \in [1..(n + 1) -> S],
           NEW r \in [1..n -> S], \A k \in 1..n : r[k] = q[k + 1]
    PROVE  q \in Seq(S) /\ q # <<>> /\ Head(q) = q[1] /\ r = Tail(q)
<1>1. q \in Seq(S) /\ Len(q) = n + 1
  OBVIOUS
<1>2. q # <<>> /\ Head(q) = q[1]
  BY <1>1
<1>3. Tail(q) \in Seq(S) /\ Len(Tail(q)) = n
  BY <1>1, <1>2
<1>4. \A k \in 1..n : Tail(q)[k] = q[k + 1]
  BY <1>1, <1>2
<1>5. r \in Seq(S) /\ Len(r) = n
  OBVIOUS
<1> QED  BY <1>1, <1>2, <1>3, <1>4, <1>5

\* The positions in use are those of a sequence of descriptors.
LEMMA WaitingType ==
    ASSUME IInv
    PROVE  Waiting \in [1..(rear - front) -> Items \cup {NoItem}]
<1> SUFFICES ASSUME NEW k \in 1..(rear - front)
             PROVE  buf[(front + k) % N] \in Items \cup {NoItem}
  BY DEF Waiting
<1>1. front + k \in Nat /\ N \in Nat \ {0}
  BY Room
<1>2. (front + k) % N \in 0..(N - 1)
  BY <1>1, DivMod
<1> QED  BY <1>2 DEF IInv, TypeOK

\* sbuf_init makes an empty queue, and no worker has a descriptor yet.
LEMMA RefineInit == Init => Abstract!Init
<1> SUFFICES ASSUME Init PROVE Abstract!Init
  OBVIOUS
<1>1. 1..(rear - front) = {}
  BY DEF Init
<1>2. [k \in 1..(rear - front) |-> buf[(front + k) % N]] = <<>>
  BY <1>1
<1>3. [c \in Consumers |-> item[c]] = [c \in Consumers |-> NoItem]
  BY DEF Init, Threads
<1> QED  BY <1>2, <1>3 DEF Abstract!Init

\* The store into a slot is what puts a descriptor into the queue.
LEMMA StoreIsPut ==
    ASSUME IInv, OwnerInv, NEW p \in Producers, InsStore(p)
    PROVE  \E i \in Items : Abstract!Put(i)
<1>1. /\ p \in Threads /\ p \notin Consumers /\ pc[p] = "ins_store"
      /\ front' = front /\ rear' = reg[p] + 1
      /\ buf' = [buf EXCEPT ![(reg[p] + 1) % N] = item[p]]
      /\ item' = [item EXCEPT ![p] = NoItem]
  BY SbufAssumption DEF InsStore, Goto, Threads
<1>2. /\ buf \in [0..(N - 1) -> Items \cup {NoItem}]
      /\ item \in [Threads -> Items \cup {NoItem}]
  BY DEF IInv, TypeOK
<1>3. /\ front \in Nat /\ rear \in Nat /\ N \in Nat \ {0}
      /\ rear - front \in 0..N /\ rear - front < N /\ rear' = rear + 1
      /\ reg[p] = rear
  BY <1>1, Room
<1>4. item[p] \in Items
  BY <1>1, <1>2 DEF OwnerInv, Holds
<1>5. Held' = Held
  BY <1>1, <1>2 DEF Held, Threads
<1>6. \A k \in 1..(rear - front) : Waiting'[k] = Waiting[k]
  <2> SUFFICES ASSUME NEW k \in 1..(rear - front) PROVE Waiting'[k] = Waiting[k]
    OBVIOUS
  <2>1. /\ front + k \in Nat /\ rear + 1 \in Nat
        /\ front + k < rear + 1 /\ rear + 1 < (front + k) + N
        /\ k \in 1..(rear' - front')
    BY <1>1, <1>3
  <2>2. (front + k) % N # (rear + 1) % N
    BY <1>3, <2>1, SlotsDiffer, Zenon
  <2>3. (front + k) % N \in 0..(N - 1)
    BY <1>3, <2>1, SlotInRange
  <2>4. buf'[(front + k) % N] = buf[(front + k) % N]
    BY <1>1, <1>2, <1>3, <2>2, <2>3
  <2> QED  BY <1>1, <2>1, <2>4 DEF Waiting
<1>7. Waiting'[rear - front + 1] = item[p]
  <2>1. front + (rear - front + 1) = rear + 1 /\ rear' - front' = rear - front + 1
    BY <1>1, <1>3
  <2>2. (rear + 1) % N \in 0..(N - 1)
    <3>1. rear + 1 \in Nat
      BY <1>3
    <3> QED  BY <1>3, <3>1, SlotInRange
  <2>3. buf'[(rear + 1) % N] = item[p]
    BY <1>1, <1>2, <1>3, <2>2
  <2>4. rear - front + 1 \in 1..(rear' - front')
    BY <1>3, <2>1
  <2> QED  BY <1>1, <2>1, <2>3, <2>4 DEF Waiting
<1>8. Waiting' \in [1..(rear - front + 1) -> Items \cup {NoItem}]
  <2> SUFFICES ASSUME NEW k \in 1..(rear - front + 1)
               PROVE  Waiting'[k] \in Items \cup {NoItem}
    <3>1. rear' - front' = rear - front + 1
      BY <1>1, <1>3
    <3> QED  BY <3>1 DEF Waiting
  <2>1. CASE k = rear - front + 1
    BY <1>4, <1>7, <2>1
  <2>2. CASE k \in 1..(rear - front)
    BY <1>6, <2>2, WaitingType
  <2> QED  BY <1>3, <2>1, <2>2
<1>9. Len(Waiting) = rear - front /\ Waiting' = Append(Waiting, item[p])
  BY <1>3, <1>4, <1>6, <1>7, <1>8, WaitingType, IsAppend
<1>10. PICK i \in Items : i = item[p]
  BY <1>4
<1>11. Abstract!Put(i)
  BY <1>3, <1>5, <1>9, <1>10 DEF Abstract!Put, Waiting, Held
<1> QED  BY <1>11

\* The take out of a slot is what takes the oldest descriptor off the queue.
LEMMA TakeIsTake ==
    ASSUME IInv, OwnerInv, NEW c \in Consumers, RemTake(c)
    PROVE  Abstract!Take(c)
<1>1. /\ c \in Threads /\ pc[c] = "rem_take"
      /\ front' = reg[c] + 1 /\ rear' = rear /\ buf' = buf
      /\ item' = [item EXCEPT ![c] = buf[(reg[c] + 1) % N]]
  BY DEF RemTake, Goto, Threads
<1>2. item \in [Threads -> Items \cup {NoItem}]
  BY DEF IInv, TypeOK
<1>3. /\ front \in Nat /\ rear \in Nat /\ N \in Nat \ {0} /\ rear - front > 0
      /\ reg[c] = front /\ front' = front + 1
      /\ rear - front = (rear' - front') + 1 /\ rear' - front' \in Nat
  BY <1>1, Room
<1>4. Held[c] = NoItem
  BY <1>1 DEF OwnerInv, Holds, Held
<1>5. Waiting[1] = buf[(front + 1) % N]
  BY <1>3 DEF Waiting
<1>6. Held' = [Held EXCEPT ![c] = Waiting[1]]
  BY <1>1, <1>2, <1>3, <1>5 DEF Held, Threads
<1>7. \A k \in 1..(rear' - front') : Waiting'[k] = Waiting[k + 1]
  <2> SUFFICES ASSUME NEW k \in 1..(rear' - front')
               PROVE  Waiting'[k] = Waiting[k + 1]
    OBVIOUS
  <2>1. front' + k = front + (k + 1) /\ k + 1 \in 1..(rear - front)
    BY <1>3
  <2> QED  BY <1>1, <2>1 DEF Waiting
<1>8. Waiting \in [1..((rear' - front') + 1) -> Items \cup {NoItem}]
  BY <1>3, WaitingType
<1>9. Waiting' \in [1..(rear' - front') -> Items \cup {NoItem}]
  <2> SUFFICES ASSUME NEW k \in 1..(rear' - front')
               PROVE  Waiting'[k] \in Items \cup {NoItem}
    BY DEF Waiting
  <2>1. k + 1 \in 1..((rear' - front') + 1)
    BY <1>3
  <2> QED  BY <1>7, <1>8, <2>1
<1>10. Waiting # <<>> /\ Head(Waiting) = Waiting[1] /\ Waiting' = Tail(Waiting)
  BY <1>3, <1>7, <1>8, <1>9, IsTail
<1> QED  BY <1>4, <1>6, <1>10 DEF Abstract!Take, Waiting, Held

\* The Close ends the worker's hold.
LEMMA CloseIsRelease ==
    ASSUME IInv, OwnerInv, NEW c \in Consumers, CloseItem(c)
    PROVE  Abstract!Release(c)
<1>1. /\ c \in Threads /\ pc[c] = "serve" /\ item' = [item EXCEPT ![c] = NoItem]
      /\ UNCHANGED <<buf, front, rear>>
  BY DEF CloseItem, Goto, Threads
<1>2. Held[c] # NoItem
  BY <1>1 DEF OwnerInv, Holds, Held
<1>3. Held' = [Held EXCEPT ![c] = NoItem]
  BY <1>1 DEF Held, IInv, TypeOK, Threads
<1>4. Waiting' = Waiting
  BY <1>1 DEF Waiting
<1> QED  BY <1>2, <1>3, <1>4 DEF Abstract!Release, Waiting, Held

\* Every other step leaves the queue and the workers' descriptors alone.
LEMMA RefineStutter ==
    ASSUME UNCHANGED <<buf, front, rear>>, Held' = Held
    PROVE  UNCHANGED Abstract!vars
  BY DEF Abstract!vars, Waiting, Held

\* Every step of the program is a step of the queue or a stutter.
LEMMA RefineNext ==
    ASSUME IInv, OwnerInv, [Next]_vars
    PROVE  [Abstract!Next]_Abstract!vars
<1>1. ASSUME NEW p \in Producers, Insert(p)
      PROVE  [Abstract!Next]_Abstract!vars
  <2>1. CASE CallInsert(p)
    <3>1. p \notin Consumers /\ item \in [Threads -> Items \cup {NoItem}]
      BY SbufAssumption DEF IInv, TypeOK
    <3>2. Held' = Held
      BY <2>1, <3>1 DEF CallInsert, Held, Threads
    <3> QED  BY <2>1, <3>2, RefineStutter DEF CallInsert
  <2>2. CASE InsStore(p)
    BY <2>2, StoreIsPut DEF Abstract!Next
  <2>3. CASE InsSlots(p) \/ InsMutex(p) \/ InsLoad(p) \/ InsUnlock(p) \/ InsItems(p)
    <3>1. UNCHANGED <<buf, front, rear, item>>
      BY <2>3 DEF InsSlots, InsMutex, InsLoad, InsUnlock, InsItems
    <3> QED  BY <3>1, RefineStutter DEF Held
  <2> QED  BY <1>1, <2>1, <2>2, <2>3 DEF Insert
<1>2. ASSUME NEW c \in Consumers, Remove(c)
      PROVE  [Abstract!Next]_Abstract!vars
  <2>1. CASE RemTake(c)
    BY <2>1, TakeIsTake DEF Abstract!Next
  <2>2. CASE CloseItem(c)
    BY <2>2, CloseIsRelease DEF Abstract!Next
  <2>3. CASE RemItems(c) \/ RemMutex(c) \/ RemLoad(c) \/ RemUnlock(c) \/ RemSlots(c)
    <3>1. UNCHANGED <<buf, front, rear, item>>
      BY <2>3 DEF RemItems, RemMutex, RemLoad, RemUnlock, RemSlots
    <3> QED  BY <3>1, RefineStutter DEF Held
  <2> QED  BY <1>2, <2>1, <2>2, <2>3 DEF Remove
<1>3. CASE UNCHANGED vars
  BY <1>3, RefineStutter DEF vars, Held
<1> QED  BY <1>1, <1>2, <1>3 DEF Next

\* sbuf_insert and sbuf_remove implement a first-in first-out queue of at most N
\* descriptors: every behaviour of the threads is one of the queue.
THEOREM SbufImplementsQueue == Spec => ImplementsQueue
<1>1. Init => IInv /\ OwnerInv /\ Abstract!Init
  BY InitInv, OwnerInit, RefineInit
<1>2. (IInv /\ OwnerInv) /\ [Next]_vars => (IInv /\ OwnerInv)'
  BY NextInv, OwnerNext
<1>3. (IInv /\ OwnerInv) /\ [Next]_vars => [Abstract!Next]_Abstract!vars
  BY RefineNext
<1> QED  BY <1>1, <1>2, <1>3, PTL DEF Spec, ImplementsQueue, Abstract!Spec
=============================================================================
