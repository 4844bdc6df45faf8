------------------------- MODULE StockServerProofs -------------------------
(***************************************************************************)
(* Theorems about StockServer, for any number of workers, connections and  *)
(* stocks: the lock of the tree, and then the rest of its state: its       *)
(* types, where a connection is, how far its request has got, the request  *)
(* counter and the file left by SIGINT.                                    *)
(***************************************************************************)
EXTENDS StockServer, Counts, SequenceTheorems

\* The types that the locking protocol rests on.
LockTypes ==
    /\ pc \in [Workers -> Labels]
    /\ w_tree \in {0, 1} /\ mutex_read_tree \in {0, 1} /\ once \in BOOLEAN

IInv == LockTypes /\ LockInv

lockvars == <<pc, once, read_tree, w_tree, mutex_read_tree>>

\* A worker that goes from one label to another enters or leaves a set of labels.
LEMMA Move ==
    ASSUME LockTypes, NEW w \in Workers, NEW from, NEW to, Goto(w, from, to), NEW L
    PROVE  /\ to \in L => At(L)' = At(L) \cup {w}
           /\ to \notin L => At(L)' = At(L) \ {w}
           /\ (to \in L <=> from \in L) => At(L)' = At(L)
           /\ from \in L => w \in At(L)
           /\ from \notin L => w \notin At(L)
           /\ to \in Labels => pc' \in [Workers -> Labels]
           /\ pc[w] = from /\ pc'[w] = to
           /\ \A v \in Workers : v # w => pc'[v] = pc[v]
BY DEF At, Goto, LockTypes

\* A step that changes no lock and moves between labels of the same sets.
LEMMA NeutralStep ==
    ASSUME IInv, NEW w \in Workers, NEW from, NEW to, Goto(w, from, to),
           to \in Labels,
           from \in {"remove", "once"} => to \in {"remove", "once"},
           from \in Entering <=> to \in Entering,
           from \in Counted <=> to \in Counted,
           from \in Sharing <=> to \in Sharing,
           from \in Writing <=> to \in Writing,
           to \notin {"r_first", "r_last"},
           UNCHANGED <<once, read_tree, w_tree, mutex_read_tree>>
    PROVE  IInv'
<1>1. /\ pc[w] = from /\ pc'[w] = to /\ pc' \in [Workers -> Labels]
      /\ \A v \in Workers : v # w => pc'[v] = pc[v]
  BY Move DEF IInv
<1>2. \A v \in Workers : /\ pc'[v] \in Entering <=> pc[v] \in Entering
                         /\ pc'[v] \in Counted <=> pc[v] \in Counted
                         /\ pc'[v] \in Sharing <=> pc[v] \in Sharing
                         /\ pc'[v] \in Writing <=> pc[v] \in Writing
  BY <1>1
<1>3. /\ At(Entering)' = At(Entering) /\ At(Counted)' = At(Counted)
      /\ At(Sharing)' = At(Sharing) /\ At(Writing)' = At(Writing)
  BY <1>2 DEF At
<1>4. \A v \in Workers : /\ pc'[v] = "r_first" => pc[v] = "r_first"
                         /\ pc'[v] = "r_last" => pc[v] = "r_last"
                         /\ pc[v] \in {"remove", "once"} => pc'[v] \in {"remove", "once"}
  BY <1>1
<1>5. LockTypes'
  BY <1>1 DEF IInv, LockTypes
<1>6. LockInv'
  BY <1>3, <1>4 DEF IInv, LockInv
<1> QED  BY <1>5, <1>6 DEF IInv

\* The number of the counted readers is a natural number, zero for nobody.
LEMMA CountedFinite ==
    /\ IsFiniteSet(At(Counted)) /\ Cardinality(At(Counted)) \in Nat
    /\ Cardinality(At(Counted)) = 0 <=> At(Counted) = {}
<1>1. IsFiniteSet(At(Counted))
  BY StockServerAssumption, FS_Subset DEF At
<1> QED  BY <1>1, FS_CardinalityType, FS_EmptySet

\* mutex_read_tree goes to one reader.
LEMMA ReadLockInStep ==
    ASSUME IInv, NEW w \in Workers, ReadLockIn(w)
    PROVE  IInv'
<1>1. LockTypes /\ Goto(w, "r_lock_in", "r_enter")
  BY DEF ReadLockIn, IInv
<1>2. /\ At(Entering)' = At(Entering) \cup {w}
      /\ At(Counted)' = At(Counted) /\ w \notin At(Counted)
      /\ At(Sharing)' = At(Sharing) /\ w \notin At(Sharing)
      /\ At(Writing)' = At(Writing) /\ w \notin At(Writing)
  BY <1>1, Move DEF Entering, Counted, Sharing, Writing
<1>3. /\ pc[w] = "r_lock_in" /\ pc'[w] = "r_enter" /\ pc' \in [Workers -> Labels]
      /\ \A v \in Workers : v # w => pc'[v] = pc[v]
  BY <1>1, Move DEF Labels
<1>4. LockTypes' /\ once
  BY <1>1, <1>2, <1>3 DEF ReadLockIn, P, V, tree, rest, LockTypes, IInv, LockInv
<1>5. /\ read_tree' = Cardinality(At(Counted)')
      /\ \A v, u \in At(Entering)' : v = u
      /\ At(Entering)' # {} => mutex_read_tree' = 0
  BY <1>1, <1>2, CountedFinite, CountStep
  DEF ReadLockIn, P, V, tree, LockTypes, IInv, LockInv
<1>6. /\ \A v, u \in At(Writing)' : v = u
      /\ At(Writing)' # {} => At(Sharing)' = {}
      /\ At(Writing)' \cup At(Sharing)' # {} => w_tree' = 0
  BY <1>1, <1>2, <1>3 DEF ReadLockIn, P, V, tree, LockTypes, IInv, LockInv
<1>7. \A v \in Workers : /\ pc'[v] = "r_first" => At(Counted)' = {v}
                         /\ pc'[v] = "r_last" => At(Sharing)' = {v}
  BY <1>2, <1>3 DEF ReadLockIn, IInv, LockInv, At, Entering, Counted, Sharing
<1> QED  BY <1>4, <1>5, <1>6, <1>7 DEF ReadLockIn, tree, IInv, LockInv

\* The first reader takes w_tree from nobody but the writers.
LEMMA ReadFirstStep ==
    ASSUME IInv, NEW w \in Workers, ReadFirst(w)
    PROVE  IInv'
<1>1. LockTypes /\ Goto(w, "r_first", "r_unlock_in")
  BY DEF ReadFirst, IInv
<1>2. /\ At(Entering)' = At(Entering) /\ w \in At(Entering)
      /\ At(Counted)' = At(Counted) /\ w \in At(Counted)
      /\ At(Sharing)' = At(Sharing) \cup {w}
      /\ At(Writing)' = At(Writing) /\ w \notin At(Writing)
  BY <1>1, Move DEF Entering, Counted, Sharing, Writing
<1>3. /\ pc[w] = "r_first" /\ pc'[w] = "r_unlock_in" /\ pc' \in [Workers -> Labels]
      /\ \A v \in Workers : v # w => pc'[v] = pc[v]
  BY <1>1, Move DEF Labels
<1>4. LockTypes' /\ once
  BY <1>1, <1>2, <1>3 DEF ReadFirst, P, V, tree, rest, LockTypes, IInv, LockInv
<1>5. /\ read_tree' = Cardinality(At(Counted)')
      /\ \A v, u \in At(Entering)' : v = u
      /\ At(Entering)' # {} => mutex_read_tree' = 0
  BY <1>1, <1>2, CountedFinite, CountStep
  DEF ReadFirst, P, V, tree, LockTypes, IInv, LockInv
<1>6. /\ \A v, u \in At(Writing)' : v = u
      /\ At(Writing)' # {} => At(Sharing)' = {}
      /\ At(Writing)' \cup At(Sharing)' # {} => w_tree' = 0
  BY <1>1, <1>2, <1>3 DEF ReadFirst, P, V, tree, LockTypes, IInv, LockInv
<1>7. \A v \in Workers : /\ pc'[v] = "r_first" => At(Counted)' = {v}
                         /\ pc'[v] = "r_last" => At(Sharing)' = {v}
  BY <1>2, <1>3 DEF ReadFirst, IInv, LockInv, At, Entering, Counted, Sharing
<1> QED  BY <1>4, <1>5, <1>6, <1>7 DEF ReadFirst, tree, IInv, LockInv

\* The reader that entered gives mutex_read_tree back.
LEMMA ReadUnlockInStep ==
    ASSUME IInv, NEW w \in Workers, ReadUnlockIn(w)
    PROVE  IInv'
<1>1. LockTypes /\ Goto(w, "r_unlock_in", "r_scan")
  BY DEF ReadUnlockIn, IInv
<1>2. /\ At(Entering)' = At(Entering) \ {w} /\ w \in At(Entering)
      /\ At(Counted)' = At(Counted) /\ w \in At(Counted)
      /\ At(Sharing)' = At(Sharing) /\ w \in At(Sharing)
      /\ At(Writing)' = At(Writing) /\ w \notin At(Writing)
  BY <1>1, Move DEF Entering, Counted, Sharing, Writing
<1>3. /\ pc[w] = "r_unlock_in" /\ pc'[w] = "r_scan" /\ pc' \in [Workers -> Labels]
      /\ \A v \in Workers : v # w => pc'[v] = pc[v]
  BY <1>1, Move DEF Labels
<1>4. LockTypes' /\ once
  BY <1>1, <1>2, <1>3 DEF ReadUnlockIn, P, V, tree, rest, LockTypes, IInv, LockInv
<1>5. /\ read_tree' = Cardinality(At(Counted)')
      /\ \A v, u \in At(Entering)' : v = u
      /\ At(Entering)' # {} => mutex_read_tree' = 0
  BY <1>1, <1>2, CountedFinite, CountStep
  DEF ReadUnlockIn, P, V, tree, LockTypes, IInv, LockInv
<1>6. /\ \A v, u \in At(Writing)' : v = u
      /\ At(Writing)' # {} => At(Sharing)' = {}
      /\ At(Writing)' \cup At(Sharing)' # {} => w_tree' = 0
  BY <1>1, <1>2, <1>3 DEF ReadUnlockIn, P, V, tree, LockTypes, IInv, LockInv
<1>7. \A v \in Workers : /\ pc'[v] = "r_first" => At(Counted)' = {v}
                         /\ pc'[v] = "r_last" => At(Sharing)' = {v}
  BY <1>2, <1>3 DEF ReadUnlockIn, IInv, LockInv, At, Entering, Counted, Sharing
<1> QED  BY <1>4, <1>5, <1>6, <1>7 DEF ReadUnlockIn, tree, IInv, LockInv

\* mutex_read_tree goes to one reader.
LEMMA ReadLockOutStep ==
    ASSUME IInv, NEW w \in Workers, ReadLockOut(w)
    PROVE  IInv'
<1>1. LockTypes /\ Goto(w, "r_lock_out", "r_leave")
  BY DEF ReadLockOut, IInv
<1>2. /\ At(Entering)' = At(Entering) \cup {w}
      /\ At(Counted)' = At(Counted) /\ w \in At(Counted)
      /\ At(Sharing)' = At(Sharing) /\ w \in At(Sharing)
      /\ At(Writing)' = At(Writing) /\ w \notin At(Writing)
  BY <1>1, Move DEF Entering, Counted, Sharing, Writing
<1>3. /\ pc[w] = "r_lock_out" /\ pc'[w] = "r_leave" /\ pc' \in [Workers -> Labels]
      /\ \A v \in Workers : v # w => pc'[v] = pc[v]
  BY <1>1, Move DEF Labels
<1>4. LockTypes' /\ once
  BY <1>1, <1>2, <1>3 DEF ReadLockOut, P, V, tree, rest, LockTypes, IInv, LockInv
<1>5. /\ read_tree' = Cardinality(At(Counted)')
      /\ \A v, u \in At(Entering)' : v = u
      /\ At(Entering)' # {} => mutex_read_tree' = 0
  BY <1>1, <1>2, CountedFinite, CountStep
  DEF ReadLockOut, P, V, tree, LockTypes, IInv, LockInv
<1>6. /\ \A v, u \in At(Writing)' : v = u
      /\ At(Writing)' # {} => At(Sharing)' = {}
      /\ At(Writing)' \cup At(Sharing)' # {} => w_tree' = 0
  BY <1>1, <1>2, <1>3 DEF ReadLockOut, P, V, tree, LockTypes, IInv, LockInv
<1>7. \A v \in Workers : /\ pc'[v] = "r_first" => At(Counted)' = {v}
                         /\ pc'[v] = "r_last" => At(Sharing)' = {v}
  BY <1>2, <1>3 DEF ReadLockOut, IInv, LockInv, At, Entering, Counted, Sharing
<1> QED  BY <1>4, <1>5, <1>6, <1>7 DEF ReadLockOut, tree, IInv, LockInv

\* The last reader gives w_tree back: nobody shares it any more.
LEMMA ReadLastStep ==
    ASSUME IInv, NEW w \in Workers, ReadLast(w)
    PROVE  IInv'
<1>1. LockTypes /\ Goto(w, "r_last", "r_unlock_out")
  BY DEF ReadLast, IInv
<1>2. /\ At(Entering)' = At(Entering) /\ w \in At(Entering)
      /\ At(Counted)' = At(Counted) /\ w \notin At(Counted)
      /\ At(Sharing)' = At(Sharing) \ {w} /\ w \in At(Sharing)
      /\ At(Writing)' = At(Writing) /\ w \notin At(Writing)
  BY <1>1, Move DEF Entering, Counted, Sharing, Writing
<1>3. /\ pc[w] = "r_last" /\ pc'[w] = "r_unlock_out" /\ pc' \in [Workers -> Labels]
      /\ \A v \in Workers : v # w => pc'[v] = pc[v]
  BY <1>1, Move DEF Labels
<1>4. LockTypes' /\ once
  BY <1>1, <1>2, <1>3 DEF ReadLast, P, V, tree, rest, LockTypes, IInv, LockInv
<1>5. /\ read_tree' = Cardinality(At(Counted)')
      /\ \A v, u \in At(Entering)' : v = u
      /\ At(Entering)' # {} => mutex_read_tree' = 0
  BY <1>1, <1>2, CountedFinite, CountStep
  DEF ReadLast, P, V, tree, LockTypes, IInv, LockInv
<1>6. /\ \A v, u \in At(Writing)' : v = u
      /\ At(Writing)' # {} => At(Sharing)' = {}
      /\ At(Writing)' \cup At(Sharing)' # {} => w_tree' = 0
  BY <1>1, <1>2, <1>3 DEF ReadLast, P, V, tree, LockTypes, IInv, LockInv
<1>7. \A v \in Workers : /\ pc'[v] = "r_first" => At(Counted)' = {v}
                         /\ pc'[v] = "r_last" => At(Sharing)' = {v}
  BY <1>2, <1>3 DEF ReadLast, IInv, LockInv, At, Entering, Counted, Sharing
<1> QED  BY <1>4, <1>5, <1>6, <1>7 DEF ReadLast, tree, IInv, LockInv

\* The reader that left gives mutex_read_tree back.
LEMMA ReadUnlockOutStep ==
    ASSUME IInv, NEW w \in Workers, ReadUnlockOut(w)
    PROVE  IInv'
<1>1. LockTypes /\ Goto(w, "r_unlock_out", "res")
  BY DEF ReadUnlockOut, IInv
<1>2. /\ At(Entering)' = At(Entering) \ {w} /\ w \in At(Entering)
      /\ At(Counted)' = At(Counted) /\ w \notin At(Counted)
      /\ At(Sharing)' = At(Sharing) /\ w \notin At(Sharing)
      /\ At(Writing)' = At(Writing) /\ w \notin At(Writing)
  BY <1>1, Move DEF Entering, Counted, Sharing, Writing
<1>3. /\ pc[w] = "r_unlock_out" /\ pc'[w] = "res" /\ pc' \in [Workers -> Labels]
      /\ \A v \in Workers : v # w => pc'[v] = pc[v]
  BY <1>1, Move DEF Labels
<1>4. LockTypes' /\ once
  BY <1>1, <1>2, <1>3 DEF ReadUnlockOut, P, V, tree, rest, LockTypes, IInv, LockInv
<1>5. /\ read_tree' = Cardinality(At(Counted)')
      /\ \A v, u \in At(Entering)' : v = u
      /\ At(Entering)' # {} => mutex_read_tree' = 0
  BY <1>1, <1>2, CountedFinite, CountStep
  DEF ReadUnlockOut, P, V, tree, LockTypes, IInv, LockInv
<1>6. /\ \A v, u \in At(Writing)' : v = u
      /\ At(Writing)' # {} => At(Sharing)' = {}
      /\ At(Writing)' \cup At(Sharing)' # {} => w_tree' = 0
  BY <1>1, <1>2, <1>3 DEF ReadUnlockOut, P, V, tree, LockTypes, IInv, LockInv
<1>7. \A v \in Workers : /\ pc'[v] = "r_first" => At(Counted)' = {v}
                         /\ pc'[v] = "r_last" => At(Sharing)' = {v}
  BY <1>2, <1>3 DEF ReadUnlockOut, IInv, LockInv, At, Entering, Counted, Sharing
<1> QED  BY <1>4, <1>5, <1>6, <1>7 DEF ReadUnlockOut, tree, IInv, LockInv

\* w_tree goes to one writer, while no reader shares it.
LEMMA WriteLockStep ==
    ASSUME IInv, NEW w \in Workers, WriteLock(w)
    PROVE  IInv'
<1>1. LockTypes /\ Goto(w, "w_lock", "w_find")
  BY DEF WriteLock, IInv
<1>2. /\ At(Entering)' = At(Entering) /\ w \notin At(Entering)
      /\ At(Counted)' = At(Counted) /\ w \notin At(Counted)
      /\ At(Sharing)' = At(Sharing) /\ w \notin At(Sharing)
      /\ At(Writing)' = At(Writing) \cup {w}
  BY <1>1, Move DEF Entering, Counted, Sharing, Writing
<1>3. /\ pc[w] = "w_lock" /\ pc'[w] = "w_find" /\ pc' \in [Workers -> Labels]
      /\ \A v \in Workers : v # w => pc'[v] = pc[v]
  BY <1>1, Move DEF Labels
<1>4. LockTypes' /\ once
  BY <1>1, <1>2, <1>3 DEF WriteLock, P, V, tree, rest, LockTypes, IInv, LockInv
<1>5. /\ read_tree' = Cardinality(At(Counted)')
      /\ \A v, u \in At(Entering)' : v = u
      /\ At(Entering)' # {} => mutex_read_tree' = 0
  BY <1>1, <1>2, CountedFinite, CountStep
  DEF WriteLock, P, V, tree, LockTypes, IInv, LockInv
<1>6. /\ \A v, u \in At(Writing)' : v = u
      /\ At(Writing)' # {} => At(Sharing)' = {}
      /\ At(Writing)' \cup At(Sharing)' # {} => w_tree' = 0
  BY <1>1, <1>2, <1>3 DEF WriteLock, P, V, tree, LockTypes, IInv, LockInv
<1>7. \A v \in Workers : /\ pc'[v] = "r_first" => At(Counted)' = {v}
                         /\ pc'[v] = "r_last" => At(Sharing)' = {v}
  BY <1>2, <1>3 DEF WriteLock, IInv, LockInv, At, Entering, Counted, Sharing
<1> QED  BY <1>4, <1>5, <1>6, <1>7 DEF WriteLock, tree, IInv, LockInv

\* The writer gives w_tree back.
LEMMA WriteUnlockStep ==
    ASSUME IInv, NEW w \in Workers, WriteUnlock(w)
    PROVE  IInv'
<1>1. LockTypes /\ Goto(w, "w_unlock", "req")
  BY DEF WriteUnlock, IInv
<1>2. /\ At(Entering)' = At(Entering) /\ w \notin At(Entering)
      /\ At(Counted)' = At(Counted) /\ w \notin At(Counted)
      /\ At(Sharing)' = At(Sharing) /\ w \notin At(Sharing)
      /\ At(Writing)' = At(Writing) \ {w} /\ w \in At(Writing)
  BY <1>1, Move DEF Entering, Counted, Sharing, Writing
<1>3. /\ pc[w] = "w_unlock" /\ pc'[w] = "req" /\ pc' \in [Workers -> Labels]
      /\ \A v \in Workers : v # w => pc'[v] = pc[v]
  BY <1>1, Move DEF Labels
<1>4. LockTypes' /\ once
  BY <1>1, <1>2, <1>3 DEF WriteUnlock, P, V, tree, rest, LockTypes, IInv, LockInv
<1>5. /\ read_tree' = Cardinality(At(Counted)')
      /\ \A v, u \in At(Entering)' : v = u
      /\ At(Entering)' # {} => mutex_read_tree' = 0
  BY <1>1, <1>2, CountedFinite, CountStep
  DEF WriteUnlock, P, V, tree, LockTypes, IInv, LockInv
<1>6. /\ \A v, u \in At(Writing)' : v = u
      /\ At(Writing)' # {} => At(Sharing)' = {}
      /\ At(Writing)' \cup At(Sharing)' # {} => w_tree' = 0
  BY <1>1, <1>2, <1>3 DEF WriteUnlock, P, V, tree, LockTypes, IInv, LockInv
<1>7. \A v \in Workers : /\ pc'[v] = "r_first" => At(Counted)' = {v}
                         /\ pc'[v] = "r_last" => At(Sharing)' = {v}
  BY <1>2, <1>3 DEF WriteUnlock, IInv, LockInv, At, Entering, Counted, Sharing
<1> QED  BY <1>4, <1>5, <1>6, <1>7 DEF WriteUnlock, tree, IInv, LockInv

\* Pthread_once: the locks are set before any worker uses them, and only then.
LEMMA OnceStep ==
    ASSUME IInv, NEW w \in Workers, Once(w)
    PROVE  IInv'
<1>1. Goto(w, "once", "req")
  BY DEF Once
<1>2. CASE once
  <2>1. UNCHANGED <<once, read_tree, w_tree, mutex_read_tree>>
    BY <1>2 DEF Once, locks
  <2>2. pc' \in [Workers -> Labels] /\ LockTypes'
    <3>1. "req" \in Labels
      BY DEF Labels
    <3>2. LockTypes /\ pc' \in [Workers -> Labels]
      BY <1>1, <3>1, Move DEF IInv
    <3>3. UNCHANGED <<w_tree, mutex_read_tree, once>>
      BY <2>1
    <3> QED  BY <3>2, <3>3 DEF LockTypes
  <2>3. /\ At(Entering)' = At(Entering) /\ At(Counted)' = At(Counted)
        /\ At(Sharing)' = At(Sharing) /\ At(Writing)' = At(Writing)
    BY <1>1, Move DEF Entering, Counted, Sharing, Writing, IInv
  <2>4. \A v \in Workers : pc'[v] = pc[v] \/ pc'[v] = "req"
    BY <1>1, Move DEF IInv
  <2>5. LockInv'
    BY <1>2, <2>1, <2>3, <2>4 DEF IInv, LockInv
  <2> QED  BY <2>2, <2>5 DEF IInv
<1>3. CASE ~once
  <2>1. /\ pc' \in [Workers -> Labels]
        /\ \A v \in Workers : pc'[v] \in {"remove", "once", "req"}
        /\ \A v \in Workers : pc[v] \in {"remove", "once"}
    BY <1>1, <1>3, Move DEF IInv, LockInv, Labels
  <2>2. /\ At(Entering)' = {} /\ At(Counted)' = {}
        /\ At(Sharing)' = {} /\ At(Writing)' = {}
    BY <2>1 DEF At, Entering, Counted, Sharing, Writing
  <2>3. once' /\ read_tree' = 0 /\ w_tree' = 1 /\ mutex_read_tree' = 1
    BY <1>3 DEF Once
  <2>4. LockTypes'
    BY <2>1, <2>3 DEF Once, LockTypes
  <2>5. LockInv'
    BY <2>1, <2>2, <2>3, FS_EmptySet DEF LockInv
  <2> QED  BY <2>4, <2>5 DEF IInv
<1> QED  BY <1>2, <1>3

\* The reader that enters is the first one exactly when nobody is counted; when
\* others are, one of them holds w_tree for all, so no writer is inside.
LEMMA ReadEnterStep ==
    ASSUME IInv, NEW w \in Workers, ReadEnter(w)
    PROVE  IInv'
<1> DEFINE to == IF read_tree + 1 = 1 THEN "r_first" ELSE "r_unlock_in"
<1>1. LockTypes /\ Goto(w, "r_enter", to) /\ to \in {"r_first", "r_unlock_in"}
  BY DEF ReadEnter, IInv
<1>2. /\ pc[w] = "r_enter" /\ pc'[w] = to /\ pc' \in [Workers -> Labels]
      /\ \A v \in Workers : v # w => pc'[v] = pc[v]
  BY <1>1, Move DEF Labels
<1>3. /\ At(Entering)' = At(Entering) /\ w \in At(Entering)
      /\ At(Counted)' = At(Counted) \cup {w} /\ w \notin At(Counted)
      /\ At(Writing)' = At(Writing) /\ w \notin At(Writing)
  BY <1>1, Move DEF Entering, Counted, Writing
<1>4. once /\ UNCHANGED <<once, w_tree, mutex_read_tree>> /\ read_tree' = read_tree + 1
  BY <1>2 DEF ReadEnter, locks, IInv, LockInv
<1>5. IsFiniteSet(At(Counted)') /\ read_tree' = Cardinality(At(Counted)')
  <2>1. At(Counted) \ {w} = At(Counted)' \ {w} /\ w \notin At(Counted) /\ w \in At(Counted)'
    BY <1>3
  <2>2. /\ IsFiniteSet(At(Counted)')
        /\ Cardinality(At(Counted)') = Cardinality(At(Counted)) + 1
    BY <2>1, CountedFinite, CountStep
  <2> QED  BY <1>4, <2>2 DEF IInv, LockInv
<1>6. LockTypes'
  BY <1>1, <1>2, <1>4 DEF LockTypes
<1>7. \A v \in Workers : v # w => pc[v] \notin {"r_first", "r_last"}
  BY <1>2, <1>3 DEF IInv, LockInv, At, Entering
<1>8. CASE read_tree = 0
  <2>1. At(Counted) = {} /\ to = "r_first"
    BY <1>8, CountedFinite DEF IInv, LockInv
  <2>2. At(Sharing)' = At(Sharing)
    BY <1>1, <2>1, Move DEF Sharing
  <2>3. At(Counted)' = {w}
    BY <1>3, <2>1
  <2> QED
    BY <1>2, <1>3, <1>4, <1>5, <1>6, <1>7, <2>1, <2>2, <2>3 DEF IInv, LockInv
<1>9. CASE read_tree # 0
  <2>1. At(Counted) # {} /\ to = "r_unlock_in"
    BY <1>9, CountedFinite DEF IInv, LockInv
  <2>2. At(Sharing)' = At(Sharing) \cup {w}
    BY <1>1, <2>1, Move DEF Sharing
  <2>3. At(Sharing) # {}
    BY <1>2, <1>7, <2>1 DEF At, Counted, Sharing
  <2>4. At(Writing) = {} /\ w_tree = 0
    BY <2>3 DEF IInv, LockInv
  <2> QED
    BY <1>2, <1>3, <1>4, <1>5, <1>6, <1>7, <2>1, <2>2, <2>4 DEF IInv, LockInv
<1> QED  BY <1>8, <1>9

\* The reader that leaves is the last one exactly when nobody else is counted.
LEMMA ReadLeaveStep ==
    ASSUME IInv, NEW w \in Workers, ReadLeave(w)
    PROVE  IInv'
<1> DEFINE to == IF read_tree - 1 = 0 THEN "r_last" ELSE "r_unlock_out"
<1>1. LockTypes /\ Goto(w, "r_leave", to) /\ to \in {"r_last", "r_unlock_out"}
  BY DEF ReadLeave, IInv
<1>2. /\ pc[w] = "r_leave" /\ pc'[w] = to /\ pc' \in [Workers -> Labels]
      /\ \A v \in Workers : v # w => pc'[v] = pc[v]
  BY <1>1, Move DEF Labels
<1>3. /\ At(Entering)' = At(Entering) /\ w \in At(Entering)
      /\ At(Counted)' = At(Counted) \ {w} /\ w \in At(Counted)
      /\ At(Writing)' = At(Writing) /\ w \in At(Sharing)
  BY <1>1, Move DEF Entering, Counted, Sharing, Writing
<1>4. once /\ UNCHANGED <<once, w_tree, mutex_read_tree>> /\ read_tree' = read_tree - 1
  BY <1>2 DEF ReadLeave, locks, IInv, LockInv
<1>5. IsFiniteSet(At(Counted)') /\ read_tree' = Cardinality(At(Counted)')
  <2>1. At(Counted) \ {w} = At(Counted)' \ {w} /\ w \in At(Counted) /\ w \notin At(Counted)'
    BY <1>3
  <2>2. /\ IsFiniteSet(At(Counted)')
        /\ Cardinality(At(Counted)') = Cardinality(At(Counted)) - 1
    BY <2>1, CountedFinite, CountStep
  <2> QED  BY <1>4, <2>2 DEF IInv, LockInv
<1>6. LockTypes'
  BY <1>1, <1>2, <1>4 DEF LockTypes
<1>7. \A v \in Workers : v # w => pc[v] \notin {"r_first", "r_last"}
  BY <1>2, <1>3 DEF IInv, LockInv, At, Entering
<1>8. At(Writing) = {} /\ w_tree = 0
  BY <1>3 DEF IInv, LockInv
<1>9. CASE read_tree - 1 = 0
  <2>1. At(Counted)' = {}
    BY <1>4, <1>5, <1>9, FS_EmptySet
  <2>2. At(Sharing)' = At(Sharing) /\ to = "r_last"
    BY <1>1, <1>9, Move DEF Sharing
  <2>3. At(Sharing) = {w}
    BY <1>2, <1>3, <1>7, <2>1 DEF At, Counted, Sharing
  <2> QED
    BY <1>2, <1>3, <1>4, <1>5, <1>6, <1>7, <1>8, <2>1, <2>2, <2>3 DEF IInv, LockInv
<1>10. CASE read_tree - 1 # 0
  <2>1. At(Sharing)' = At(Sharing) \ {w} /\ to = "r_unlock_out"
    BY <1>1, <1>10, Move DEF Sharing
  <2> QED
    BY <1>2, <1>3, <1>4, <1>5, <1>6, <1>7, <1>8, <2>1 DEF IInv, LockInv
<1> QED  BY <1>9, <1>10

\* The steps that leave the locks alone: what they move between is all outside,
\* or all inside, each critical section.
LEMMA OtherWorkerSteps ==
    ASSUME IInv, NEW w \in Workers,
           \/ SbufRemove(w) \/ Req(w) \/ ReqEof(w) \/ ReqReset(w)
           \/ CntLock(w) \/ CntLoad(w) \/ CntStore(w) \/ CntUnlock(w)
           \/ ReadScan(w) \/ WriteRefuse(w) \/ WriteFind(w) \/ WriteLoad(w)
           \/ WriteStore(w) \/ WriteRes(w) \/ Res(w) \/ CloseConn(w)
    PROVE  IInv'
<1> USE DEF Labels, Entering, Counted, Sharing, Writing
<1>1. CASE SbufRemove(w)
  <2>1. Goto(w, "remove", "once") /\ UNCHANGED <<once, read_tree, w_tree, mutex_read_tree>>
    BY <1>1 DEF SbufRemove, tree, locks
  <2> QED  BY <2>1, NeutralStep
<1>2. CASE Req(w)
  <2>1. Goto(w, "req", "cnt_lock") /\ UNCHANGED <<once, read_tree, w_tree, mutex_read_tree>>
    BY <1>2 DEF Req, tree, locks
  <2> QED  BY <2>1, NeutralStep
<1>3. CASE ReqEof(w)
  <2>1. Goto(w, "req", "close") /\ UNCHANGED <<once, read_tree, w_tree, mutex_read_tree>>
    BY <1>3 DEF ReqEof, tree, locks
  <2> QED  BY <2>1, NeutralStep
<1>4. CASE ReqReset(w)
  <2>1. Goto(w, "req", "req") /\ UNCHANGED <<once, read_tree, w_tree, mutex_read_tree>>
    BY <1>4 DEF ReqReset, tree, locks
  <2> QED  BY <2>1, NeutralStep
<1>5. CASE CntLock(w)
  <2>1. Goto(w, "cnt_lock", "cnt_load") /\ UNCHANGED <<once, read_tree, w_tree, mutex_read_tree>>
    BY <1>5 DEF CntLock, tree, locks
  <2> QED  BY <2>1, NeutralStep
<1>6. CASE CntLoad(w)
  <2>1. Goto(w, "cnt_load", "cnt_store") /\ UNCHANGED <<once, read_tree, w_tree, mutex_read_tree>>
    BY <1>6 DEF CntLoad, tree, locks
  <2> QED  BY <2>1, NeutralStep
<1>7. CASE CntStore(w)
  <2>1. Goto(w, "cnt_store", "cnt_unlock") /\ UNCHANGED <<once, read_tree, w_tree, mutex_read_tree>>
    BY <1>7 DEF CntStore, tree, locks
  <2> QED  BY <2>1, NeutralStep
<1>8. CASE WriteRefuse(w)
  <2>1. Goto(w, "w_find", "w_res") /\ UNCHANGED <<once, read_tree, w_tree, mutex_read_tree>>
    BY <1>8 DEF WriteRefuse, tree, locks
  <2> QED  BY <2>1, NeutralStep
<1>9. CASE WriteLoad(w)
  <2>1. Goto(w, "w_load", "w_store") /\ UNCHANGED <<once, read_tree, w_tree, mutex_read_tree>>
    BY <1>9 DEF WriteLoad, tree, locks
  <2> QED  BY <2>1, NeutralStep
<1>10. CASE WriteStore(w)
  <2>1. Goto(w, "w_store", "w_res") /\ UNCHANGED <<once, read_tree, w_tree, mutex_read_tree>>
    BY <1>10 DEF WriteStore, tree, locks
  <2> QED  BY <2>1, NeutralStep
<1>11. CASE WriteRes(w)
  <2>1. Goto(w, "w_res", "w_unlock") /\ UNCHANGED <<once, read_tree, w_tree, mutex_read_tree>>
    BY <1>11 DEF WriteRes, tree, locks
  <2> QED  BY <2>1, NeutralStep
<1>12. CASE Res(w)
  <2>1. Goto(w, "res", "req") /\ UNCHANGED <<once, read_tree, w_tree, mutex_read_tree>>
    BY <1>12 DEF Res, tree, locks
  <2> QED  BY <2>1, NeutralStep
<1>13. CASE CloseConn(w)
  <2>1. Goto(w, "close", "remove") /\ UNCHANGED <<once, read_tree, w_tree, mutex_read_tree>>
    BY <1>13 DEF CloseConn, tree, locks
  <2> QED  BY <2>1, NeutralStep
<1>14. CASE CntUnlock(w)
  <2> DEFINE to == Branch(cur[w].op)
  <2>1. /\ Goto(w, "cnt_unlock", to)
        /\ UNCHANGED <<once, read_tree, w_tree, mutex_read_tree>>
    BY <1>14 DEF CntUnlock, tree
  <2>2. to \in {"r_lock_in", "w_lock", "close", "res"}
    BY DEF Branch
  <2> HIDE DEF to
  <2> QED  BY <2>1, <2>2, NeutralStep
<1>15. CASE ReadScan(w)
  <2>1. \E to \in {"r_scan", "r_lock_out"} : Goto(w, "r_scan", to)
    BY <1>15 DEF ReadScan
  <2>2. UNCHANGED <<once, read_tree, w_tree, mutex_read_tree>>
    BY <1>15 DEF ReadScan, tree, locks
  <2> QED  BY <2>1, <2>2, NeutralStep
<1>16. CASE WriteFind(w)
  <2>1. Goto(w, "w_find", "w_load") /\ UNCHANGED <<once, read_tree, w_tree, mutex_read_tree>>
    BY <1>16 DEF WriteFind, tree, locks
  <2> QED  BY <2>1, NeutralStep
<1> QED  BY <1>1, <1>2, <1>3, <1>4, <1>5, <1>6, <1>7, <1>8, <1>9, <1>10, <1>11, <1>12, <1>13, <1>14, <1>15, <1>16

\* Steps of main, of the handler and of the clients touch neither the locks nor
\* where a worker is.
LEMMA OtherSteps ==
    ASSUME IInv, UNCHANGED lockvars
    PROVE  IInv'
<1>1. /\ At(Entering)' = At(Entering) /\ At(Counted)' = At(Counted)
      /\ At(Sharing)' = At(Sharing) /\ At(Writing)' = At(Writing)
  BY DEF lockvars, At
<1>2. LockTypes'
  BY DEF lockvars, IInv, LockTypes
<1>3. LockInv'
  BY <1>1 DEF lockvars, IInv, LockInv
<1> QED  BY <1>2, <1>3 DEF IInv

\* The readers-writers protocol of carryout_client_cmd keeps its invariant.
THEOREM LockInvariant == Spec => [](LockTypes /\ LockInv)
<1>1. Init => IInv
  <2> SUFFICES ASSUME Init PROVE IInv
    OBVIOUS
  <2>1. \A w \in Workers : pc[w] = "remove"
    BY DEF Init
  <2>2. /\ At(Entering) = {} /\ At(Counted) = {}
        /\ At(Sharing) = {} /\ At(Writing) = {}
    BY <2>1 DEF At, Entering, Counted, Sharing, Writing
  <2>3. LockTypes
    BY DEF Init, LockTypes, Labels
  <2>4. LockInv
    BY <2>1, <2>2, FS_EmptySet DEF Init, LockInv
  <2> QED  BY <2>3, <2>4 DEF IInv
<1>2. IInv /\ [Next]_vars => IInv'
  <2> SUFFICES ASSUME IInv, [Next]_vars PROVE IInv'
    OBVIOUS
  <2>1. ASSUME NEW w \in Workers, Worker(w) PROVE IInv'
    <3>1. CASE Show(w)
      BY <3>1, ReadLockInStep, ReadEnterStep, ReadFirstStep, ReadUnlockInStep,
         OtherWorkerSteps, ReadLockOutStep, ReadLeaveStep, ReadLastStep,
         ReadUnlockOutStep
      DEF Show
    <3>2. CASE Write(w)
      BY <3>2, WriteLockStep, WriteUnlockStep, OtherWorkerSteps DEF Write
    <3>3. CASE Once(w)
      BY <3>3, OnceStep
    <3> QED  BY <2>1, <3>1, <3>2, <3>3, OtherWorkerSteps DEF Worker
  <2>2. ASSUME Main PROVE IInv'
    BY <2>2, OtherSteps
    DEF Main, Load, Listen, Accept, SbufInsert, tree, locks, lockvars
  <2>3. ASSUME NEW t \in Threads, Sigint(t) \/ Handler(t) PROVE IInv'
    BY <2>3, OtherSteps
    DEF Sigint, Handler, HandlerScan, HandlerOpen, HandlerClose, HandlerExit,
        Handling, tree, locks, lockvars
  <2>4. ASSUME NEW c \in Conns, Client(c) PROVE IInv'
    BY <2>4, OtherSteps
    DEF Client, Connect, Send, Receive, Leave, Abort, tree, locks, lockvars
  <2>5. CASE UNCHANGED vars
    BY <2>5, OtherSteps DEF vars, tree, locks, lockvars
  <2> QED  BY <2>1, <2>2, <2>3, <2>4, <2>5 DEF Next
<1> QED  BY <1>1, <1>2, PTL DEF Spec, IInv

\* No worker reads or writes the tree while another one writes it
\* (stockserver.c:65-70), with any number of workers and connections.
THEOREM TreeIsExclusive == Spec => []TreeExclusion
<1>1. LockTypes /\ LockInv => TreeExclusion
  BY DEF LockInv, TreeExclusion, At, Writing, Sharing
<1> QED  BY <1>1, LockInvariant, PTL

-----------------------------------------------------------------------------
(* The state of the server. *)

\* A connection that is open is in one place: the backlog, main's connfd, one
\* slot of the buffer, or the hands of one worker.
Placed ==
    /\ mpc = "insert" <=> accepted # NoConn
    /\ accepted # NoConn => client[accepted] # "off"
    /\ \A w \in Workers : pc[w] = "remove" <=> held[w] = NoConn
    /\ \A v, w \in Workers : v # w /\ held[v] # NoConn => held[v] # held[w]
    /\ \A w \in Workers : held[w] # NoConn =>
         client[held[w]] # "off" /\ held[w] # accepted
    /\ \A i \in DOMAIN queue : /\ client[queue[i]] # "off" /\ queue[i] # accepted
                               /\ \A w \in Workers : held[w] # queue[i]
    /\ \A i, j \in DOMAIN queue : i # j => queue[i] # queue[j]
    /\ \A c \in backlog : /\ client[c] # "off" /\ c # accepted
                          /\ \A w \in Workers : held[w] # c
                          /\ \A i \in DOMAIN queue : queue[i] # c
    /\ \A c \in Conns : Open(c) => \/ c \in backlog \/ c = accepted
                                   \/ \E i \in DOMAIN queue : queue[i] = c
                                   \/ \E w \in Workers : held[w] = c

\* Where a worker has a request whose effect is to come, and where it has a reply.
Unanswered == {"cnt_lock", "cnt_load", "cnt_store", "cnt_unlock", "r_lock_in",
               "r_enter", "r_first", "r_unlock_in", "r_scan", "w_lock", "w_find",
               "w_load", "w_store"}
Answered == {"r_lock_out", "r_leave", "r_last", "r_unlock_out", "w_res", "res"}
Busy == Unanswered \cup Answered
Showing == {"r_lock_in", "r_enter", "r_first", "r_unlock_in", "r_scan"}
Trading == {"w_lock", "w_find", "w_load", "w_store"}

\* How far a request has got: it is in the connection, then in one worker's hands
\* without and then with its reply, then the reply is in the connection; and its
\* client waits, or is gone, all the while.
WorkerLife(w) ==
    /\ cur[w] # None <=> pc[w] \in Busy
    /\ res[w] # None <=> pc[w] \in Answered
    /\ pc[w] \in Showing => cur[w].op = "show"
    /\ pc[w] \in Trading => cur[w].op \in {"buy", "sell"}
    /\ pc[w] \in Busy => client[held[w]] \in {"waiting", "killed"}
    /\ pc[w] = "close" => client[held[w]] \in {"waiting", "killed", "closed"}
    /\ pc[w] \in Busy \cup {"close"} => inbox[held[w]] = None /\ outbox[held[w]] = None

ClientLife(c) ==
    /\ inbox[c] # None => client[c] \in {"waiting", "killed"} /\ outbox[c] = None
    /\ outbox[c] # None => client[c] = "waiting"

Lifecycle ==
    /\ \A w \in Workers : WorkerLife(w)
    /\ \A c \in Conns : ClientLife(c)

\* A worker that prints has copied a part of the tree as it is; the test of a buy
\* still holds when its worker loads and stores, and what it has loaded is the
\* current number of its stock; the tree holds what the file
\* held until main listens, and every stock from then on.
WorkerData(w) ==
    /\ pc[w] = "r_scan" =>
         \E S \in SUBSET Keys : S # Keys /\ seen[w] = [k \in S |-> stock[k]]
    /\ pc[w] # "r_scan" => seen[w] = EmptyBook
    /\ pc[w] \in {"w_load", "w_store"} =>
         /\ cur[w].key \in Keys
         /\ cur[w].op = "buy" => cur[w].n <= stock[cur[w].key]
    /\ pc[w] = "w_store" => reg[w] = stock[cur[w].key]

TreeData ==
    /\ mpc = "load" => /\ \A k \in DOMAIN stock : stock[k] = InitStock[k]
                       /\ \A w \in Workers : pc[w] = "remove" /\ hpc[w] = "off"
                       /\ hpc[main] = "off" => stock_txt = InitStock
    /\ mpc # "load" => DOMAIN stock = Keys
    /\ \A w \in Workers : WorkerData(w)

\* byte_cnt is updated by one worker at a time, which stores the current value
\* plus one.
Counting == {"cnt_load", "cnt_store", "cnt_unlock"}

CountInv ==
    /\ ~once => mutex_byte_cnt = 0 /\ byte_cnt = 0
    /\ \A v, w \in At(Counting) : v = w
    /\ At(Counting) # {} => mutex_byte_cnt = 0
    /\ \A w \in Workers : pc[w] = "cnt_store" => reg[w] = byte_cnt

\* A handler prints nodes of the tree only, and all of them before it opens the
\* file; with one SIGINT there is one handler, which finds its own text in the file.
HandlerInv ==
    /\ sigints = 0 => \A t \in Threads : hpc[t] = "off"
    /\ sigints = 1 =>
         /\ \A s, t \in Threads : hpc[s] # "off" /\ hpc[t] # "off" => s = t
         /\ \A t \in Threads : hpc[t] = "exit" => DOMAIN stock_txt = DOMAIN stock
    /\ \A t \in Threads : DOMAIN hbuf[t] \subseteq DOMAIN stock
    /\ \A t \in Threads : hpc[t] = "close" => DOMAIN hbuf[t] = DOMAIN stock
    /\ exited = "sigint" => \E t \in Threads : hpc[t] = "exit"

-----------------------------------------------------------------------------
(* Placed *)

\* A worker that goes from one label to another; the others stay.
LEMMA Step ==
    ASSUME TypeOK, NEW w \in Workers, NEW from, NEW to, Goto(w, from, to)
    PROVE  /\ pc[w] = from /\ pc'[w] = to /\ Running(w)
           /\ \A v \in Workers : v # w => pc'[v] = pc[v]
  BY DEF Goto, TypeOK

\* A step that moves no connection.
LEMMA PlacedFrame ==
    ASSUME Placed, UNCHANGED <<mpc, accepted, backlog, queue, held>>,
           \A c \in Conns : client[c] # "off" => client'[c] # "off",
           \A c \in Conns : Open(c)' => Open(c),
           \A w \in Workers : pc'[w] = "remove" <=> pc[w] = "remove",
           TypeOK
    PROVE  Placed'
<1>1. \A i \in DOMAIN queue : queue[i] \in Conns
  BY DEF TypeOK
<1>2. /\ backlog \subseteq Conns /\ accepted \in Conns \cup {NoConn}
      /\ held \in [Workers -> Conns \cup {NoConn}]
  BY DEF TypeOK
<1> QED  BY <1>1, <1>2, StockServerAssumption DEF Placed

\* Accept takes a connection off the backlog.
LEMMA AcceptPlaced ==
    ASSUME TypeOK, Placed, Accept
    PROVE  Placed'
<1>1. PICK c \in backlog : accepted' = c /\ backlog' = backlog \ {c}
  BY DEF Accept
<1>2. /\ mpc = "accept" /\ mpc' = "insert" /\ UNCHANGED <<queue, held, pc, client>>
  BY DEF Accept
<1>3. c \in Conns /\ c # NoConn /\ accepted = NoConn
  BY <1>2, StockServerAssumption DEF TypeOK, Placed
<1>4. \A d \in Conns : Open(d)' => Open(d) /\ (d \in backlog => d \in backlog' \/ d = accepted')
  BY <1>1, <1>2 DEF Open
<1>5. \A d \in Conns : Open(d)' => \/ d \in backlog' \/ d = accepted'
                                   \/ \E i \in DOMAIN queue : queue[i] = d
                                   \/ \E w \in Workers : held[w] = d
  BY <1>3, <1>4, StockServerAssumption DEF Placed
<1> QED  BY <1>1, <1>2, <1>3, <1>5 DEF Placed

\* sbuf_insert puts it into the buffer.
LEMMA InsertPlaced ==
    ASSUME TypeOK, Placed, SbufInsert
    PROVE  Placed'
<1>1. /\ mpc = "insert" /\ mpc' = "accept" /\ accepted' = NoConn
      /\ queue' = Append(queue, accepted) /\ held' = held
      /\ UNCHANGED <<pc, client, backlog>>
  BY DEF SbufInsert, Sbuf!Put, net
<1>2. accepted \in Conns /\ queue \in Seq(Conns) /\ NoConn \notin Conns
  BY <1>1, StockServerAssumption DEF TypeOK, Placed
<1>3. /\ Len(queue) \in Nat /\ DOMAIN queue = 1..Len(queue)
      /\ DOMAIN queue' = 1..(Len(queue) + 1)
      /\ queue'[Len(queue) + 1] = accepted
      /\ \A i \in 1..Len(queue) : queue'[i] = queue[i] /\ queue[i] \in Conns
  BY <1>1, <1>2
<1>4. \A i \in DOMAIN queue' : \/ i \in DOMAIN queue /\ queue'[i] = queue[i] /\ queue[i] # NoConn
                               \/ i = Len(queue) + 1 /\ queue'[i] = accepted
  BY <1>2, <1>3
<1>5. \A i, j \in DOMAIN queue' : i # j => queue'[i] # queue'[j]
  BY <1>3, <1>4 DEF Placed
<1>6. backlog \subseteq Conns /\ held \in [Workers -> Conns \cup {NoConn}]
  BY DEF TypeOK
<1>7. \A w \in Workers : held[w] # NoConn => held'[w] # accepted'
  BY <1>1
<1>8. \A i \in DOMAIN queue' : /\ client'[queue'[i]] # "off" /\ queue'[i] # accepted'
                               /\ \A w \in Workers : held'[w] # queue'[i]
  BY <1>1, <1>2, <1>4, <1>6 DEF Placed
<1>9. \A c \in backlog' : /\ client'[c] # "off" /\ c # accepted'
                          /\ \A w \in Workers : held'[w] # c
                          /\ \A i \in DOMAIN queue' : queue'[i] # c
  BY <1>1, <1>2, <1>4, <1>6 DEF Placed
<1>10. \A c \in Conns : Open(c)' => \/ c \in backlog' \/ c = accepted'
                                    \/ \E i \in DOMAIN queue' : queue'[i] = c
                                    \/ \E w \in Workers : held'[w] = c
  <2>1. \A i \in DOMAIN queue : i \in DOMAIN queue' /\ queue'[i] = queue[i]
    BY <1>3
  <2>2. Len(queue) + 1 \in DOMAIN queue' /\ queue'[Len(queue) + 1] = accepted
    BY <1>3
  <2> QED  BY <1>1, <2>1, <2>2 DEF Placed, Open
<1> QED  BY <1>1, <1>5, <1>7, <1>8, <1>9, <1>10 DEF Placed

\* sbuf_remove takes it out of the buffer, for one worker.
LEMMA RemovePlaced ==
    ASSUME TypeOK, Placed, NEW w \in Workers, SbufRemove(w)
    PROVE  Placed'
<1>1. /\ pc[w] = "remove" /\ pc'[w] = "once" /\ \A v \in Workers : v # w => pc'[v] = pc[v]
  BY Step DEF SbufRemove
<1>2. /\ queue # <<>> /\ held[w] = NoConn
      /\ held' = [held EXCEPT ![w] = Head(queue)] /\ queue' = Tail(queue)
      /\ UNCHANGED <<mpc, accepted, client, backlog>>
  BY DEF SbufRemove, Sbuf!Take, net, mainvars
<1>3. /\ queue \in Seq(Conns) /\ held \in [Workers -> Conns \cup {NoConn}]
      /\ NoConn \notin Conns
  BY StockServerAssumption DEF TypeOK
<1>4. /\ Len(queue) \in Nat /\ DOMAIN queue = 1..Len(queue) /\ Len(queue) > 0
      /\ Head(queue) = queue[1] /\ queue[1] \in Conns
  BY <1>2, <1>3
<1>5. DOMAIN queue' = 1..(Len(queue) - 1)
      /\ \A i \in 1..(Len(queue) - 1) : queue'[i] = queue[i + 1]
  BY <1>2, <1>3, <1>4
<1>6. \A i \in DOMAIN queue' : i + 1 \in DOMAIN queue /\ queue'[i] = queue[i + 1] /\ i + 1 # 1
  BY <1>4, <1>5
<1>7. \A i, j \in DOMAIN queue' : i # j => i + 1 # j + 1
  BY <1>5
<1>8. 1 \in DOMAIN queue /\ held'[w] = queue[1] /\ \A v \in Workers : v # w => held'[v] = held[v]
  BY <1>2, <1>3, <1>4
<1>9. \A i, j \in DOMAIN queue' : i # j => queue'[i] # queue'[j]
  BY <1>6, <1>7 DEF Placed
<1>10. \A i \in DOMAIN queue' : /\ client[queue'[i]] # "off" /\ queue'[i] # accepted
                                /\ \A v \in Workers : held'[v] # queue'[i]
  BY <1>6, <1>8 DEF Placed
<1>11. \A v \in Workers : pc'[v] = "remove" <=> held'[v] = NoConn
  BY <1>1, <1>3, <1>4, <1>8 DEF Placed
<1>12. \A u, v \in Workers : u # v /\ held'[u] # NoConn => held'[u] # held'[v]
  BY <1>3, <1>4, <1>8 DEF Placed
<1>13. \A v \in Workers : held'[v] # NoConn => client[held'[v]] # "off" /\ held'[v] # accepted
  BY <1>8 DEF Placed
<1>14. \A c \in backlog : /\ \A v \in Workers : held'[v] # c
                          /\ \A i \in DOMAIN queue' : queue'[i] # c
  BY <1>6, <1>8 DEF Placed
<1>15. \A c \in Conns : Open(c)' => \/ c \in backlog \/ c = accepted
                                    \/ \E i \in DOMAIN queue' : queue'[i] = c
                                    \/ \E v \in Workers : held'[v] = c
  <2>1. ASSUME NEW i \in DOMAIN queue
        PROVE  \/ held'[w] = queue[i]
               \/ i - 1 \in DOMAIN queue' /\ queue'[i - 1] = queue[i]
    BY <1>4, <1>5, <1>8
  <2>2. \A v \in Workers : held[v] # NoConn => held'[v] = held[v]
    BY <1>2, <1>8
  <2> QED  BY <1>2, <1>3, <2>1, <2>2 DEF Placed, Open
<1> QED  BY <1>2, <1>9, <1>10, <1>11, <1>12, <1>13, <1>14, <1>15 DEF Placed

\* Close ends the worker's hold of it.
LEMMA ClosePlaced ==
    ASSUME TypeOK, Placed, NEW w \in Workers, CloseConn(w)
    PROVE  Placed'
<1>1. /\ pc[w] = "close" /\ pc'[w] = "remove" /\ \A v \in Workers : v # w => pc'[v] = pc[v]
  BY Step DEF CloseConn
<1>2. /\ held' = [held EXCEPT ![w] = NoConn] /\ queue' = queue
      /\ UNCHANGED <<mpc, accepted, backlog>>
      /\ client' = [client EXCEPT ![held[w]] = "closed"]
  BY DEF CloseConn, Sbuf!Release, mainvars
<1>3. /\ queue \in Seq(Conns) /\ held \in [Workers -> Conns \cup {NoConn}]
      /\ NoConn \notin Conns /\ backlog \subseteq Conns /\ accepted \in Conns \cup {NoConn}
      /\ \A i \in DOMAIN queue : queue[i] \in Conns
  BY StockServerAssumption DEF TypeOK
<1>4. held'[w] = NoConn /\ \A v \in Workers : v # w => held'[v] = held[v]
  BY <1>2, <1>3
<1>5. \A c \in Conns : client[c] # "off" => client'[c] # "off"
  BY <1>2 DEF TypeOK
<1>6. \A c \in Conns : Open(c)' => Open(c) /\ c # held[w]
  BY <1>2, <1>3 DEF Open, TypeOK
<1>7. \A c \in Conns : Open(c)' => \/ c \in backlog \/ c = accepted
                                   \/ \E i \in DOMAIN queue : queue[i] = c
                                   \/ \E v \in Workers : held'[v] = c
  BY <1>4, <1>6 DEF Placed
<1> QED  BY <1>1, <1>2, <1>3, <1>4, <1>5, <1>7 DEF Placed

\* A client connects.
LEMMA ConnectPlaced ==
    ASSUME TypeOK, Placed, NEW c \in Conns, Connect(c)
    PROVE  Placed'
<1>1. /\ client[c] = "off" /\ client' = [client EXCEPT ![c] = "idle"]
      /\ backlog' = backlog \cup {c} /\ UNCHANGED <<queue, held, pc, mpc, accepted>>
  BY DEF Connect, mainvars
<1>2. /\ queue \in Seq(Conns) /\ held \in [Workers -> Conns \cup {NoConn}]
      /\ NoConn \notin Conns /\ backlog \subseteq Conns /\ accepted \in Conns \cup {NoConn}
      /\ \A i \in DOMAIN queue : queue[i] \in Conns
  BY StockServerAssumption DEF TypeOK
<1>3. client'[c] # "off" /\ \A d \in Conns : client[d] # "off" => client'[d] # "off"
  BY <1>1 DEF TypeOK
<1>4. /\ accepted # c /\ \A w \in Workers : held[w] # c
      /\ \A i \in DOMAIN queue : queue[i] # c
  BY <1>1, <1>2 DEF Placed
<1>5. \A d \in Conns : Open(d)' => Open(d) \/ d = c
  BY <1>1 DEF Open, TypeOK
<1> QED  BY <1>1, <1>2, <1>3, <1>4, <1>5 DEF Placed

\* Every step preserves Placed.
LEMMA PlacedNext ==
    ASSUME TypeOK, Placed, [Next]_vars
    PROVE  Placed'
<1>1. ASSUME Main PROVE Placed'
  <2>1. CASE Load
    BY <2>1, PlacedFrame DEF Load, rest, mainvars, net, Open
  <2>2. CASE Listen
    <3>1. /\ mpc = "load" /\ mpc' = "accept"
          /\ UNCHANGED <<accepted, queue, held, pc, client, backlog>>
      BY <2>2 DEF Listen, net
    <3> QED  BY <3>1 DEF Placed, Open
  <2> QED  BY <1>1, <2>1, <2>2, AcceptPlaced, InsertPlaced DEF Main
<1>2. ASSUME NEW w \in Workers, Worker(w) PROVE Placed'
  <2>1. CASE SbufRemove(w)
    BY <2>1, RemovePlaced
  <2>2. CASE CloseConn(w)
    BY <2>2, ClosePlaced
  <2>3. ASSUME ~SbufRemove(w), ~CloseConn(w)
        PROVE  /\ UNCHANGED <<mpc, accepted, backlog, queue, held, client>>
               /\ \E from, to \in Labels \ {"remove"} : Goto(w, from, to)
    <3>1. UNCHANGED <<mpc, accepted, backlog, queue, held, client>>
      BY <1>2, <2>3
      DEF Worker, Once, Req, ReqEof, ReqReset, CntLock, CntLoad, CntStore, CntUnlock,
          Show, ReadLockIn, ReadEnter, ReadFirst, ReadUnlockIn, ReadScan, ReadLockOut,
          ReadLeave, ReadLast, ReadUnlockOut, Write, WriteLock, WriteRefuse, WriteFind, WriteLoad,
          WriteStore, WriteRes, WriteUnlock, Res, rest, mainvars, net
    <3>2. \E from, to \in Labels \ {"remove"} : Goto(w, from, to)
      BY <1>2, <2>3
      DEF Worker, Once, Req, ReqEof, ReqReset, CntLock, CntLoad, CntStore, CntUnlock,
          Show, ReadLockIn, ReadEnter, ReadFirst, ReadUnlockIn, ReadScan, ReadLockOut,
          ReadLeave, ReadLast, ReadUnlockOut, Write, WriteLock, WriteRefuse, WriteFind, WriteLoad,
          WriteStore, WriteRes, WriteUnlock, Res, Labels, Branch
    <3> QED  BY <3>1, <3>2
  <2>4. CASE ~SbufRemove(w) /\ ~CloseConn(w)
    <3>1. \A v \in Workers : pc'[v] = "remove" <=> pc[v] = "remove"
      BY <2>3, <2>4, Step
    <3> QED  BY <2>3, <2>4, <3>1, PlacedFrame DEF Open
  <2> QED  BY <2>1, <2>2, <2>4
<1>3. ASSUME NEW t \in Threads, Sigint(t) \/ Handler(t) PROVE Placed'
  <2>1. UNCHANGED <<mpc, accepted, backlog, queue, held, client, pc>>
    BY <1>3
    DEF Sigint, Handler, HandlerScan, HandlerOpen, HandlerClose, HandlerExit,
        Handling, mainvars, net
  <2> QED  BY <2>1, PlacedFrame DEF Open
<1>4. ASSUME NEW c \in Conns, Client(c) PROVE Placed'
  <2>1. CASE Connect(c)
    BY <2>1, ConnectPlaced
  <2>2. CASE Send(c) \/ Receive(c) \/ Leave(c) \/ Abort(c)
    <3>1. UNCHANGED <<mpc, accepted, backlog, queue, held, pc>>
      BY <2>2 DEF Send, Receive, Leave, Abort, mainvars
    <3>2. \E s \in {"waiting", "idle", "closed", "killed"} :
             client' = [client EXCEPT ![c] = s]
      BY <2>2 DEF Send, Receive, Leave, Abort
    <3>3. \A d \in Conns : /\ client[d] # "off" => client'[d] # "off"
                           /\ Open(d)' => Open(d)
      BY <2>2, <3>2 DEF Send, Receive, Leave, Abort, TypeOK, Open
    <3> QED  BY <3>1, <3>3, PlacedFrame
  <2> QED  BY <1>4, <2>1, <2>2 DEF Client
<1>5. CASE UNCHANGED vars
  BY <1>5, PlacedFrame DEF vars, mainvars, net, Open
<1> QED  BY <1>1, <1>2, <1>3, <1>4, <1>5 DEF Next

-----------------------------------------------------------------------------
(* The traversal of the tree *)

\* A book is a function from some of the stocks to ints, and every such function
\* is one.
LEMMA BooksAre ==
    /\ \A b \in Books : /\ DOMAIN b \subseteq Keys /\ b \in [DOMAIN b -> Ints]
                        /\ \A k \in DOMAIN b : b[k] \in Ints
    /\ \A S \in SUBSET Keys : \A b \in [S -> Ints] : b \in Books
  BY DEF Books

\* The next node of a traversal that has seen the keys S is a key not in S.
LEMMA NextKeyIsNew ==
    ASSUME TypeOK, NEW S, DOMAIN stock \ S # {}
    PROVE  NextKey(S) \in DOMAIN stock \ S
<1> DEFINE R == DOMAIN stock \ S
<1>1. R \in SUBSET Int /\ IsFiniteSet(R) /\ R # {}
  BY BooksAre, StockServerAssumption, FS_Subset DEF TypeOK
<1>2. \E k \in R : \A x \in R : k <= x
  BY <1>1, LeastInteger
<1> QED  BY <1>2 DEF NextKey

\* One node more of print_in_buf: the copy stays a copy of a part of the tree,
\* and the reply is complete exactly when the copy is.
LEMMA ScanFacts ==
    ASSUME TypeOK, TreeData, NEW w \in Workers, ReadScan(w)
    PROVE  \E S \in SUBSET Keys :
             LET book == [k \in S |-> stock[k]] IN
             /\ DOMAIN stock = Keys
             /\ S = Keys => /\ Goto(w, "r_scan", "r_lock_out")
                            /\ seen' = [seen EXCEPT ![w] = EmptyBook]
                            /\ res' = [res EXCEPT ![w] = ShowAnswer(book)]
             /\ S # Keys => /\ Goto(w, "r_scan", "r_scan")
                            /\ seen' = [seen EXCEPT ![w] = book]
                            /\ res' = [res EXCEPT ![w] = None]
             /\ ShowAnswer(book) \in Replies
<1>1. pc[w] = "r_scan"
  BY DEF ReadScan, Goto
<1>2. mpc # "load" /\ DOMAIN stock = Keys
  BY <1>1 DEF TreeData
<1>3. PICK S \in SUBSET Keys : S # Keys /\ seen[w] = [k \in S |-> stock[k]]
  BY <1>1 DEF TreeData, WorkerData
<1> DEFINE k == NextKey(DOMAIN seen[w])
           T == S \cup {k}
           book == [x \in T |-> stock[x]]
<1>4. k \in Keys \ S
  BY <1>2, <1>3, NextKeyIsNew
<1> HIDE DEF k
<1>5. Extend(seen[w], k, stock[k]) = book /\ DOMAIN book = T /\ T \in SUBSET Keys
  BY <1>3, <1>4 DEF Extend
<1>6. ShowAnswer(book) \in Replies
  <2>1. book \in [T -> Ints]
    BY <1>2, <1>5, BooksAre DEF TypeOK
  <2>2. book \in Books
    BY <1>5, <2>1, BooksAre
  <2> QED  BY <2>2 DEF ShowAnswer, Replies
<1>7. /\ T = Keys => /\ Goto(w, "r_scan", "r_lock_out")
                     /\ seen' = [seen EXCEPT ![w] = EmptyBook]
                     /\ res' = [res EXCEPT ![w] = ShowAnswer(book)]
      /\ T # Keys => /\ Goto(w, "r_scan", "r_scan")
                     /\ seen' = [seen EXCEPT ![w] = book]
                     /\ res' = [res EXCEPT ![w] = None]
  BY <1>2, <1>5 DEF ReadScan, k
<1> QED  BY <1>2, <1>5, <1>6, <1>7

-----------------------------------------------------------------------------
(* Lifecycle *)

\* None is no reply.
LEMMA AnswersAreReplies ==
    /\ None \notin Replies
    /\ \A kind \in {"show", "success", "short", "nosuch", "invalid"} :
         Answer(kind) \in Replies
<1>1. EmptyBook \in Books
  <2>1. EmptyBook \in [{} -> Ints]
    BY DEF EmptyBook
  <2> QED  BY <2>1 DEF Books
<1> QED  BY <1>1, StockServerAssumption DEF Answer, Replies

\* A step of one worker that changes neither its request nor its connection, and
\* goes between labels alike.
LEMMA LifeFrame ==
    ASSUME TypeOK, Lifecycle, NEW w \in Workers, NEW from, NEW to, Goto(w, from, to),
           from \in Busy <=> to \in Busy, from \in Answered <=> to \in Answered,
           to \in Showing => from \in Showing, to \in Trading => from \in Trading,
           to # "close", UNCHANGED <<cur, res, held, inbox, outbox, client>>
    PROVE  Lifecycle'
<1>1. /\ pc[w] = from /\ pc'[w] = to /\ \A v \in Workers : v # w => pc'[v] = pc[v]
  BY Step
<1>2. WorkerLife(w)'
  BY <1>1 DEF Lifecycle, WorkerLife
<1>3. \A v \in Workers : v # w => WorkerLife(v)'
  BY <1>1 DEF Lifecycle, WorkerLife
<1> QED  BY <1>2, <1>3 DEF Lifecycle, ClientLife

\* What the steps below need of the types.
LEMMA LifeTypes ==
    ASSUME TypeOK
    PROVE  /\ cur \in [Workers -> Requests \cup {None}]
           /\ held \in [Workers -> Conns \cup {NoConn}]
           /\ client \in [Conns -> {"off", "idle", "waiting", "closed", "killed"}]
           /\ inbox \in [Conns -> Requests \cup {None}]
           /\ outbox \in [Conns -> Replies \cup {None}]
           /\ res \in [Workers -> Replies \cup {None}]
           /\ None \notin Requests /\ NoConn \notin Conns /\ None \notin Replies
           /\ \A r \in Requests : r.op \in Ops /\ r.key \in Int /\ r.n \in Int
  BY StockServerAssumption DEF TypeOK

\* A worker that has been given a connection holds it alone.
LEMMA HeldAlone ==
    ASSUME TypeOK, Placed, NEW w \in Workers, pc[w] # "remove"
    PROVE  held[w] \in Conns /\ \A v \in Workers : v # w => held[v] # held[w]
  BY DEF TypeOK, Placed

\* The worker reads a request off its connection.
LEMMA ReqLife ==
    ASSUME TypeOK, Placed, Lifecycle, NEW w \in Workers, Req(w)
    PROVE  Lifecycle'
<1>1. /\ pc[w] = "req" /\ pc'[w] = "cnt_lock" /\ \A v \in Workers : v # w => pc'[v] = pc[v]
  BY Step DEF Req
<1>2. /\ inbox[held[w]] # None /\ cur' = [cur EXCEPT ![w] = inbox[held[w]]]
      /\ inbox' = [inbox EXCEPT ![held[w]] = None]
      /\ UNCHANGED <<held, res, client, outbox>>
  BY DEF Req
<1>3. held[w] \in Conns /\ \A v \in Workers : v # w => held[v] # held[w]
  BY <1>1, HeldAlone
<1>4. \A c \in Conns : inbox[c] = None => inbox'[c] = None
  BY <1>2, LifeTypes
<1>5. WorkerLife(w)'
  BY <1>1, <1>2, <1>3, LifeTypes
  DEF Lifecycle, WorkerLife, ClientLife, Busy, Answered, Unanswered, Showing, Trading
<1>6. ASSUME NEW v \in Workers, v # w PROVE WorkerLife(v)'
  <2>1. pc'[v] = pc[v] /\ cur'[v] = cur[v] /\ held'[v] = held[v]
        /\ inbox'[held[v]] = inbox[held[v]]
    BY <1>1, <1>2, <1>3, <1>6, LifeTypes
  <2> QED  BY <1>2, <2>1 DEF Lifecycle, WorkerLife
<1>7. ASSUME NEW c \in Conns PROVE ClientLife(c)'
  BY <1>2, <1>4, LifeTypes DEF Lifecycle, ClientLife
<1> QED  BY <1>5, <1>6, <1>7 DEF Lifecycle

\* The connection has ended.
LEMMA ReqEofLife ==
    ASSUME TypeOK, Placed, Lifecycle, NEW w \in Workers, ReqEof(w)
    PROVE  Lifecycle'
<1>1. /\ pc[w] = "req" /\ pc'[w] = "close" /\ \A v \in Workers : v # w => pc'[v] = pc[v]
  BY Step DEF ReqEof
<1>2. /\ inbox[held[w]] = None /\ client[held[w]] \in {"closed", "killed"}
      /\ UNCHANGED <<cur, inbox, held, res, client, outbox>>
  BY DEF ReqEof, locals, rest, net
<1>3. held[w] \in Conns
  BY <1>1, HeldAlone
<1>4. WorkerLife(w)'
  BY <1>1, <1>2, <1>3
  DEF Lifecycle, WorkerLife, ClientLife, Busy, Answered, Unanswered, Showing, Trading
<1>5. \A v \in Workers : v # w => WorkerLife(v)'
  BY <1>1, <1>2 DEF Lifecycle, WorkerLife
<1> QED  BY <1>2, <1>4, <1>5 DEF Lifecycle, ClientLife

\* A step of a worker that holds a connection and changes what it knows of the
\* request, not the connection.
LEMMA LocalLife ==
    ASSUME TypeOK, Lifecycle, NEW w \in Workers, NEW from, NEW to, Goto(w, from, to),
           UNCHANGED <<held, inbox, outbox, client>>,
           \A v \in Workers : v # w => cur'[v] = cur[v] /\ res'[v] = res[v],
           WorkerLife(w)'
    PROVE  Lifecycle'
<1>1. \A v \in Workers : v # w => pc'[v] = pc[v]
  BY Step
<1>2. \A v \in Workers : v # w => WorkerLife(v)'
  BY <1>1 DEF Lifecycle, WorkerLife
<1> QED  BY <1>2 DEF Lifecycle, ClientLife

\* The branch: an exit drops the request, an invalid one has its reply.
LEMMA CntUnlockLife ==
    ASSUME TypeOK, Placed, Lifecycle, NEW w \in Workers, CntUnlock(w)
    PROVE  Lifecycle'
<1> DEFINE to == Branch(cur[w].op)
<1>1. /\ Goto(w, "cnt_unlock", to) /\ pc[w] = "cnt_unlock" /\ pc'[w] = to
      /\ cur' = [cur EXCEPT ![w] = IF cur[w].op = "exit" THEN None ELSE cur[w]]
      /\ res' = [res EXCEPT ![w] = IF cur[w].op = "invalid" THEN Answer("invalid") ELSE res[w]]
      /\ UNCHANGED <<held, inbox, outbox, client>>
  BY Step DEF CntUnlock, rest, net
<1>2. cur[w] # None /\ res[w] = None
  BY <1>1 DEF Lifecycle, WorkerLife, Busy, Answered, Unanswered
<1>3. cur[w] \in Requests /\ cur[w].op \in Ops
  BY <1>2, LifeTypes
<1>4. /\ cur[w].op = "show" => to = "r_lock_in"
      /\ cur[w].op \in {"buy", "sell"} => to = "w_lock"
      /\ cur[w].op = "exit" => to = "close"
      /\ cur[w].op = "invalid" => to = "res"
  BY DEF Branch
<1>5. /\ cur'[w] = IF cur[w].op = "exit" THEN None ELSE cur[w]
      /\ res'[w] = IF cur[w].op = "invalid" THEN Answer("invalid") ELSE None
      /\ \A v \in Workers : v # w => cur'[v] = cur[v] /\ res'[v] = res[v]
  BY <1>1, <1>2, LifeTypes
<1>6. Answer("invalid") # None
  BY AnswersAreReplies
<1> HIDE DEF to
<1>7. WorkerLife(w)'
  BY <1>1, <1>2, <1>3, <1>4, <1>5, <1>6
  DEF Lifecycle, WorkerLife, Busy, Answered, Unanswered, Showing, Trading, Ops
<1> QED  BY <1>1, <1>5, <1>7, LocalLife

\* The last node of a show completes its reply.
LEMMA ReadScanLife ==
    ASSUME TypeOK, TreeData, Lifecycle, NEW w \in Workers, ReadScan(w)
    PROVE  Lifecycle'
<1>1. PICK S \in SUBSET Keys :
        LET book == [k \in S |-> stock[k]] IN
        /\ S = Keys => /\ Goto(w, "r_scan", "r_lock_out")
                       /\ res' = [res EXCEPT ![w] = ShowAnswer(book)]
        /\ S # Keys => /\ Goto(w, "r_scan", "r_scan")
                       /\ res' = [res EXCEPT ![w] = None]
        /\ ShowAnswer(book) \in Replies
  BY ScanFacts
<1>2. UNCHANGED <<cur, held, inbox, outbox, client>>
  BY DEF ReadScan, rest, net
<1>3. CASE S = Keys
  <2>1. /\ pc[w] = "r_scan" /\ pc'[w] = "r_lock_out" /\ res'[w] # None
        /\ \A v \in Workers : v # w => cur'[v] = cur[v] /\ res'[v] = res[v]
    BY <1>1, <1>2, <1>3, Step, LifeTypes
  <2>2. WorkerLife(w)'
    BY <1>2, <2>1
    DEF Lifecycle, WorkerLife, Busy, Answered, Unanswered, Showing, Trading
  <2> QED  BY <1>1, <1>2, <1>3, <2>1, <2>2, LocalLife
<1>4. CASE S # Keys
  <2>1. /\ pc[w] = "r_scan" /\ pc'[w] = "r_scan" /\ res'[w] = None
        /\ \A v \in Workers : v # w => cur'[v] = cur[v] /\ res'[v] = res[v]
    BY <1>1, <1>2, <1>4, Step, LifeTypes
  <2>2. WorkerLife(w)'
    BY <1>2, <2>1
    DEF Lifecycle, WorkerLife, Busy, Answered, Unanswered, Showing, Trading
  <2> QED  BY <1>1, <1>2, <1>4, <2>1, <2>2, LocalLife
<1> QED  BY <1>3, <1>4

\* A buy or a sell has its reply.
LEMMA WriteLife ==
    ASSUME TypeOK, Lifecycle, NEW w \in Workers, WriteRefuse(w) \/ WriteStore(w)
    PROVE  Lifecycle'
<1>1. PICK from \in {"w_find", "w_store"},
           kind \in {"nosuch", "short", "success"} :
        Goto(w, from, "w_res") /\ res' = [res EXCEPT ![w] = Answer(kind)]
  BY DEF WriteRefuse, WriteStore
<1>2. UNCHANGED <<cur, held, inbox, outbox, client>>
  BY DEF WriteRefuse, WriteStore, rest, net
<1>3. /\ pc[w] = from /\ pc'[w] = "w_res" /\ res'[w] # None
      /\ \A v \in Workers : v # w => cur'[v] = cur[v] /\ res'[v] = res[v]
  BY <1>1, <1>2, Step, LifeTypes, AnswersAreReplies
<1>4. WorkerLife(w)'
  BY <1>2, <1>3
  DEF Lifecycle, WorkerLife, Busy, Answered, Unanswered, Showing, Trading
<1> QED  BY <1>1, <1>2, <1>3, <1>4, LocalLife

\* The reply goes out.
LEMMA SendReplyLife ==
    ASSUME TypeOK, Placed, Lifecycle, NEW w \in Workers, WriteRes(w) \/ Res(w)
    PROVE  Lifecycle'
<1>1. PICK from \in {"w_res", "res"}, to \in {"w_unlock", "req"} : Goto(w, from, to)
  BY DEF WriteRes, Res
<1>2. /\ outbox' = [outbox EXCEPT ![held[w]] =
                      IF client[held[w]] = "waiting" THEN res[w] ELSE None]
      /\ cur' = [cur EXCEPT ![w] = None] /\ res' = [res EXCEPT ![w] = None]
      /\ UNCHANGED <<held, inbox, client>>
  BY DEF WriteRes, Res, SendReply
<1>3. /\ pc[w] = from /\ pc'[w] = to /\ \A v \in Workers : v # w => pc'[v] = pc[v]
  BY <1>1, Step
<1>4. held[w] \in Conns /\ \A v \in Workers : v # w => held[v] # held[w]
  BY <1>3, HeldAlone
<1>5. WorkerLife(w)'
  BY <1>2, <1>3, LifeTypes
  DEF Lifecycle, WorkerLife, Busy, Answered, Unanswered, Showing, Trading
<1>6. ASSUME NEW v \in Workers, v # w PROVE WorkerLife(v)'
  <2>1. pc'[v] = pc[v] /\ cur'[v] = cur[v] /\ res'[v] = res[v] /\ held'[v] = held[v]
        /\ outbox'[held[v]] = outbox[held[v]]
    BY <1>2, <1>3, <1>4, <1>6, LifeTypes
  <2> QED  BY <1>2, <2>1 DEF Lifecycle, WorkerLife
<1>7. inbox[held[w]] = None
  BY <1>3 DEF Lifecycle, WorkerLife, Busy, Answered
<1>8. ASSUME NEW c \in Conns PROVE ClientLife(c)'
  BY <1>2, <1>4, <1>7, LifeTypes DEF Lifecycle, ClientLife
<1> QED  BY <1>5, <1>6, <1>8 DEF Lifecycle

\* The worker closes the connection.
LEMMA CloseLife ==
    ASSUME TypeOK, Placed, Lifecycle, NEW w \in Workers, CloseConn(w)
    PROVE  Lifecycle'
<1>1. /\ pc[w] = "close" /\ pc'[w] = "remove" /\ \A v \in Workers : v # w => pc'[v] = pc[v]
  BY Step DEF CloseConn
<1>2. /\ held' = [held EXCEPT ![w] = NoConn]
      /\ client' = [client EXCEPT ![held[w]] = "closed"]
      /\ inbox' = [inbox EXCEPT ![held[w]] = None]
      /\ UNCHANGED <<cur, res, outbox>>
  BY DEF CloseConn, Sbuf!Release, locals
<1>3. held[w] \in Conns /\ \A v \in Workers : v # w => held[v] # held[w]
  BY <1>1, HeldAlone
<1>4. inbox[held[w]] = None /\ outbox[held[w]] = None
  BY <1>1 DEF Lifecycle, WorkerLife
<1>5. WorkerLife(w)'
  BY <1>1, <1>2
  DEF Lifecycle, WorkerLife, Busy, Answered, Unanswered, Showing, Trading
<1>6. ASSUME NEW v \in Workers, v # w PROVE WorkerLife(v)'
  <2>1. pc'[v] = pc[v] /\ held'[v] = held[v] /\ client'[held[v]] = client[held[v]]
        /\ inbox'[held[v]] = inbox[held[v]]
    BY <1>1, <1>2, <1>3, <1>6, LifeTypes
  <2> QED  BY <1>2, <2>1 DEF Lifecycle, WorkerLife
<1>7. ASSUME NEW c \in Conns PROVE ClientLife(c)'
  BY <1>2, <1>3, <1>4, LifeTypes DEF Lifecycle, ClientLife
<1> QED  BY <1>5, <1>6, <1>7 DEF Lifecycle

\* A worker removes a connection from the buffer: it has read no request yet.
LEMMA RemoveLife ==
    ASSUME TypeOK, Lifecycle, NEW w \in Workers, SbufRemove(w)
    PROVE  Lifecycle'
<1>1. /\ pc[w] = "remove" /\ pc'[w] = "once" /\ \A v \in Workers : v # w => pc'[v] = pc[v]
  BY Step DEF SbufRemove
<1>2. /\ held' = [held EXCEPT ![w] = Head(queue)]
      /\ UNCHANGED <<cur, res, inbox, outbox, client>>
  BY DEF SbufRemove, Sbuf!Take, locals, net
<1>3. WorkerLife(w)'
  BY <1>1, <1>2
  DEF Lifecycle, WorkerLife, Busy, Answered, Unanswered, Showing, Trading
<1>4. \A v \in Workers : v # w => WorkerLife(v)'
  BY <1>1, <1>2, LifeTypes DEF Lifecycle, WorkerLife
<1> QED  BY <1>2, <1>3, <1>4 DEF Lifecycle, ClientLife

\* A client connects, sends, receives, leaves or is killed: only one that waits
\* has a request in somebody's hands.
LEMMA ClientStepLife ==
    ASSUME TypeOK, Placed, Lifecycle, NEW c \in Conns, Client(c)
    PROVE  Lifecycle'
<1>1. UNCHANGED <<pc, cur, res, held>>
  BY DEF Client, Connect, Send, Receive, Leave, Abort, locals
<1>2. /\ client' = [client EXCEPT ![c] = client'[c]]
      /\ inbox' = [inbox EXCEPT ![c] = inbox'[c]]
      /\ outbox' = [outbox EXCEPT ![c] = outbox'[c]]
  BY LifeTypes DEF Client, Connect, Send, Receive, Leave, Abort
<1>3. /\ inbox'[c] # None => client'[c] \in {"waiting", "killed"} /\ outbox'[c] = None
      /\ outbox'[c] # None => client'[c] = "waiting"
  BY LifeTypes DEF Client, Connect, Send, Receive, Leave, Abort, Lifecycle, ClientLife
<1>4. \/ client[c] \in {"off", "idle"}
      \/ /\ client[c] = "waiting" /\ inbox'[c] = inbox[c]
         /\ \/ outbox[c] # None
            \/ client'[c] = "killed" /\ outbox'[c] = None
  BY LifeTypes DEF Client, Connect, Send, Receive, Leave, Abort
<1>5. ASSUME NEW w \in Workers PROVE WorkerLife(w)'
  <2>1. CASE pc[w] = "remove"
    BY <1>1, <2>1
    DEF Lifecycle, WorkerLife, Busy, Answered, Unanswered, Showing, Trading
  <2>2. CASE pc[w] # "remove" /\ held[w] # c
    <3>1. held[w] \in Conns
      BY <2>2, HeldAlone
    <3>2. client'[held[w]] = client[held[w]] /\ inbox'[held[w]] = inbox[held[w]]
          /\ outbox'[held[w]] = outbox[held[w]]
      BY <1>2, <2>2, <3>1, LifeTypes
    <3> QED  BY <1>1, <3>2 DEF Lifecycle, WorkerLife
  <2>3. CASE pc[w] # "remove" /\ held[w] = c
    BY <1>1, <1>4, <2>3 DEF Lifecycle, WorkerLife
  <2> QED  BY <2>1, <2>2, <2>3
<1>6. ASSUME NEW d \in Conns PROVE ClientLife(d)'
  <2>1. CASE d # c
    BY <1>2, <2>1, LifeTypes DEF Lifecycle, ClientLife
  <2>2. CASE d = c
    BY <1>3, <2>2 DEF ClientLife
  <2> QED  BY <2>1, <2>2
<1> QED  BY <1>5, <1>6 DEF Lifecycle

\* Every step preserves Lifecycle.
LEMMA LifecycleNext ==
    ASSUME TypeOK, Placed, Lifecycle, TreeData, [Next]_vars
    PROVE  Lifecycle'
<1>1. ASSUME UNCHANGED <<pc, cur, res, held, inbox, outbox, client>> PROVE Lifecycle'
  BY <1>1 DEF Lifecycle, WorkerLife, ClientLife
<1>2. ASSUME Main PROVE Lifecycle'
  BY <1>1, <1>2 DEF Main, Load, Listen, Accept, SbufInsert, Sbuf!Put, locals, net, rest
<1>3. ASSUME NEW t \in Threads, Sigint(t) \/ Handler(t) PROVE Lifecycle'
  BY <1>1, <1>3
  DEF Sigint, Handler, HandlerScan, HandlerOpen, HandlerClose, HandlerExit, Handling,
      locals, net
<1>4. ASSUME NEW w \in Workers, Worker(w) PROVE Lifecycle'
  <2>1. CASE \E from, to \in {"once", "req"} :
               Goto(w, from, to) /\ UNCHANGED <<cur, res, held, inbox, outbox, client>>
    BY <2>1, LifeFrame DEF Busy, Answered, Unanswered, Showing, Trading
  <2>2. CASE \E from, to \in Unanswered :
               /\ Goto(w, from, to) /\ UNCHANGED <<cur, res, held, inbox, outbox, client>>
               /\ to \in Showing => from \in Showing
               /\ to \in Trading => from \in Trading
    BY <2>2, LifeFrame DEF Busy, Answered, Unanswered
  <2>3. CASE \E from, to \in Answered :
               Goto(w, from, to) /\ UNCHANGED <<cur, res, held, inbox, outbox, client>>
    BY <2>3, LifeFrame DEF Busy, Answered, Unanswered, Showing, Trading
  <2>4. CASE WriteUnlock(w)
    <3>1. Goto(w, "w_unlock", "req") /\ UNCHANGED <<cur, res, held, inbox, outbox, client>>
      BY <2>4 DEF WriteUnlock, locals, rest, net
    <3> QED  BY <3>1, LifeFrame DEF Busy, Answered, Unanswered, Showing, Trading
  <2>5. CASE Once(w) \/ ReqReset(w)
    BY <2>1, <2>5 DEF Once, ReqReset, locals, rest, net
  <2>6. CASE CntLock(w) \/ CntLoad(w) \/ CntStore(w)
    BY <2>2, <2>6
    DEF CntLock, CntLoad, CntStore, locals, rest, net, Unanswered, Showing, Trading
  <2>7. CASE ReadLockIn(w) \/ ReadEnter(w) \/ ReadFirst(w) \/ ReadUnlockIn(w)
    BY <2>2, <2>7
    DEF ReadLockIn, ReadEnter, ReadFirst, ReadUnlockIn, locals, rest, net,
        Unanswered, Showing, Trading
  <2>8. CASE ReadLockOut(w) \/ ReadLeave(w) \/ ReadLast(w) \/ ReadUnlockOut(w)
    BY <2>3, <2>8
    DEF ReadLockOut, ReadLeave, ReadLast, ReadUnlockOut, locals, rest, net, Answered
  <2>9. CASE WriteLock(w) \/ WriteFind(w) \/ WriteLoad(w)
    BY <2>2, <2>9
    DEF WriteLock, WriteFind, WriteLoad, locals, rest, net, Unanswered, Showing, Trading
  <2>10. CASE ReadScan(w)
    BY <2>10, ReadScanLife
  <2>11. CASE SbufRemove(w)
    BY <2>11, RemoveLife
  <2>12. CASE Req(w)
    BY <2>12, ReqLife
  <2>13. CASE ReqEof(w)
    BY <2>13, ReqEofLife
  <2>14. CASE CntUnlock(w)
    BY <2>14, CntUnlockLife
  <2>15. CASE WriteRefuse(w) \/ WriteStore(w)
    BY <2>15, WriteLife
  <2>16. CASE WriteRes(w) \/ Res(w)
    BY <2>16, SendReplyLife
  <2>17. CASE CloseConn(w)
    BY <2>17, CloseLife
  <2> QED
    BY <1>4, <2>4, <2>5, <2>6, <2>7, <2>8, <2>9, <2>10, <2>11, <2>12, <2>13, <2>14,
       <2>15, <2>16, <2>17
    DEF Worker, Show, Write
<1>5. ASSUME NEW c \in Conns, Client(c) PROVE Lifecycle'
  BY <1>5, ClientStepLife
<1>6. CASE UNCHANGED vars
  BY <1>1, <1>6 DEF vars, locals, net
<1> QED  BY <1>2, <1>3, <1>4, <1>5, <1>6 DEF Next

-----------------------------------------------------------------------------
(* TreeData *)

\* A worker's step is one of a server that listens.
LEMMA WorkerListens ==
    ASSUME TreeData, NEW w \in Workers, Worker(w)
    PROVE  mpc # "load" /\ mpc' = mpc /\ DOMAIN stock = Keys
<1>1. mpc' = mpc
  BY DEF Worker, SbufRemove, Once, Req, ReqEof, ReqReset, CntLock, CntLoad, CntStore,
         CntUnlock, Show, ReadLockIn, ReadEnter, ReadFirst, ReadUnlockIn, ReadScan,
         ReadLockOut, ReadLeave, ReadLast, ReadUnlockOut, Write, WriteLock,
         WriteRefuse, WriteFind, WriteLoad, WriteStore, WriteRes, WriteUnlock, Res, CloseConn,
         rest, mainvars
<1>2. pc[w] = "remove" => SbufRemove(w)
  BY DEF Worker, Once, Req, ReqEof, ReqReset, CntLock, CntLoad, CntStore, CntUnlock,
         Show, ReadLockIn, ReadEnter, ReadFirst, ReadUnlockIn, ReadScan, ReadLockOut,
         ReadLeave, ReadLast, ReadUnlockOut, Write, WriteLock, WriteRefuse, WriteFind, WriteLoad,
         WriteStore, WriteRes, WriteUnlock, Res, CloseConn, Goto
<1>3. mpc # "load"
  BY <1>2 DEF SbufRemove, TreeData
<1> QED  BY <1>1, <1>3 DEF TreeData

\* A worker's step that leaves the tree and the other workers' copies alone.
LEMMA DataFrame ==
    ASSUME TypeOK, TreeData, NEW w \in Workers, Worker(w),
           NEW from, NEW to, Goto(w, from, to), stock' = stock,
           \A v \in Workers : v # w =>
              seen'[v] = seen[v] /\ cur'[v] = cur[v] /\ reg'[v] = reg[v],
           WorkerData(w)'
    PROVE  TreeData'
<1>1. mpc' # "load" /\ DOMAIN stock' = Keys
  BY WorkerListens
<1>2. \A v \in Workers : v # w => pc'[v] = pc[v]
  BY Step
<1>3. \A v \in Workers : v # w => WorkerData(v)'
  BY <1>2 DEF TreeData, WorkerData
<1> QED  BY <1>1, <1>3 DEF TreeData

\* The same when its own copy stays as well.
LEMMA QuietDataFrame ==
    ASSUME TypeOK, TreeData, NEW w \in Workers, Worker(w),
           NEW from, NEW to, Goto(w, from, to), stock' = stock, seen' = seen,
           \A v \in Workers : v # w => cur'[v] = cur[v] /\ reg'[v] = reg[v],
           from # "r_scan", to \notin {"r_scan", "w_load", "w_store"}
    PROVE  TreeData'
<1>1. pc[w] = from /\ pc'[w] = to
  BY Step
<1>2. WorkerData(w)'
  BY <1>1 DEF TreeData, WorkerData
<1> QED  BY <1>2, DataFrame

\* The first reader's copy is empty: there is a stock to print.
LEMMA ScanBegins ==
    ASSUME TypeOK, TreeData, NEW w \in Workers, ReadUnlockIn(w)
    PROVE  TreeData'
<1>1. /\ Goto(w, "r_unlock_in", "r_scan") /\ UNCHANGED <<stock, cur, reg, seen>>
      /\ Worker(w)
  BY DEF ReadUnlockIn, tree, locals, Worker, Show
<1>2. pc[w] = "r_unlock_in" /\ pc'[w] = "r_scan"
  BY <1>1, Step
<1>3. seen'[w] = [k \in {} |-> stock[k]]
  BY <1>1, <1>2 DEF TreeData, WorkerData, EmptyBook
<1>4. {} \in SUBSET Keys /\ {} # Keys
  BY StockServerAssumption
<1>5. WorkerData(w)'
  BY <1>1, <1>2, <1>3, <1>4 DEF WorkerData
<1> QED  BY <1>1, <1>5, DataFrame

\* One node more.
LEMMA ScanGoesOn ==
    ASSUME TypeOK, TreeData, NEW w \in Workers, ReadScan(w)
    PROVE  TreeData'
<1>1. PICK S \in SUBSET Keys :
        /\ S = Keys => /\ Goto(w, "r_scan", "r_lock_out")
                       /\ seen' = [seen EXCEPT ![w] = EmptyBook]
        /\ S # Keys => /\ Goto(w, "r_scan", "r_scan")
                       /\ seen' = [seen EXCEPT ![w] = [k \in S |-> stock[k]]]
  BY ScanFacts
<1>2. UNCHANGED <<stock, cur, reg>> /\ Worker(w)
  BY DEF ReadScan, tree, Worker, Show
<1>3. CASE S = Keys
  <2>1. /\ pc'[w] = "r_lock_out" /\ seen'[w] = EmptyBook
        /\ \A v \in Workers : v # w => seen'[v] = seen[v]
    BY <1>1, <1>3, Step DEF TypeOK
  <2>2. WorkerData(w)'
    BY <2>1 DEF WorkerData
  <2> QED  BY <1>1, <1>2, <1>3, <2>1, <2>2, DataFrame
<1>4. CASE S # Keys
  <2>1. /\ pc'[w] = "r_scan" /\ seen'[w] = [k \in S |-> stock[k]]
        /\ \A v \in Workers : v # w => seen'[v] = seen[v]
    BY <1>1, <1>4, Step DEF TypeOK
  <2>2. WorkerData(w)'
    BY <1>2, <1>4, <2>1 DEF WorkerData
  <2> QED  BY <1>1, <1>2, <1>4, <2>1, <2>2, DataFrame
<1> QED  BY <1>3, <1>4

\* A buy or a sell finds its stock, and a buy enough of it.
LEMMA FindData ==
    ASSUME TypeOK, TreeData, Lifecycle, NEW w \in Workers, WriteFind(w)
    PROVE  TreeData'
<1>1. /\ Goto(w, "w_find", "w_load") /\ UNCHANGED <<stock, cur, seen, reg>>
      /\ cur[w].key \in DOMAIN stock
      /\ cur[w].op = "buy" => stock[cur[w].key] >= cur[w].n
      /\ Worker(w)
  BY DEF WriteFind, tree, locals, Worker, Write
<1>2. /\ pc[w] = "w_find" /\ pc'[w] = "w_load" /\ DOMAIN stock = Keys
  BY <1>1, Step, WorkerListens
<1>3. cur[w] \in Requests /\ cur[w].n \in Int
  BY <1>2, LifeTypes
  DEF Lifecycle, WorkerLife, Busy, Unanswered
<1>4. stock[cur[w].key] \in Int
  BY <1>1, BooksAre DEF TypeOK, Ints
<1>5. cur[w].op = "buy" => cur[w].n <= stock[cur[w].key]
  BY <1>1, <1>3, <1>4
<1>6. seen'[w] = EmptyBook
  BY <1>1, <1>2 DEF TreeData, WorkerData
<1>7. WorkerData(w)'
  BY <1>1, <1>2, <1>5, <1>6 DEF WorkerData
<1> QED  BY <1>1, <1>7, DataFrame

\* It loads the number that is left; the test still holds.
LEMMA LoadData ==
    ASSUME TypeOK, TreeData, NEW w \in Workers, WriteLoad(w)
    PROVE  TreeData'
<1>1. /\ Goto(w, "w_load", "w_store") /\ UNCHANGED <<stock, cur, seen>>
      /\ reg' = [reg EXCEPT ![w] = stock[cur[w].key]]
      /\ Worker(w)
  BY DEF WriteLoad, tree, Worker, Write
<1>2. pc[w] = "w_load" /\ pc'[w] = "w_store"
  BY <1>1, Step
<1>3. /\ reg'[w] = stock[cur[w].key] /\ \A v \in Workers : v # w => reg'[v] = reg[v]
  BY <1>1 DEF TypeOK
<1>4. WorkerData(w)'
  BY <1>1, <1>2, <1>3 DEF TreeData, WorkerData
<1> QED  BY <1>1, <1>3, <1>4, DataFrame

\* The store changes the tree while nobody copies it and nobody else is about to
\* store: this is what w_tree is for.
LEMMA StoreData ==
    ASSUME TypeOK, TreeData, TreeExclusion, NEW w \in Workers, WriteStore(w)
    PROVE  TreeData'
<1>1. /\ Goto(w, "w_store", "w_res") /\ UNCHANGED <<cur, seen>> /\ Worker(w)
      /\ stock' = [stock EXCEPT ![cur[w].key] = stock'[cur[w].key]]
      /\ reg' = [reg EXCEPT ![w] = 0]
  <2>1. DOMAIN stock = Keys
    BY WorkerListens DEF Worker, Write
  <2>2. pc[w] = "w_store"
    BY DEF WriteStore, Goto
  <2>3. cur[w].key \in Keys
    BY <2>2 DEF TreeData, WorkerData
  <2> QED  BY <2>1, <2>3 DEF WriteStore, Worker, Write
<1>2. /\ pc[w] = "w_store" /\ pc'[w] = "w_res"
      /\ \A v \in Workers : v # w => pc'[v] = pc[v]
  BY <1>1, Step
<1>3. \A v \in Workers : v # w => pc[v] \notin {"r_scan", "w_load", "w_store"}
  BY <1>2 DEF TreeExclusion, Writing
<1>4. \A v \in Workers : WorkerData(v)'
  BY <1>1, <1>2, <1>3 DEF TreeData, WorkerData
<1>5. mpc' # "load" /\ DOMAIN stock' = Keys
  BY <1>1, WorkerListens
<1> QED  BY <1>4, <1>5 DEF TreeData

\* Every step preserves TreeData.
LEMMA TreeDataNext ==
    ASSUME TypeOK, TreeData, Lifecycle, TreeExclusion, [Next]_vars
    PROVE  TreeData'
<1>1. ASSUME Main PROVE TreeData'
  <2>1. UNCHANGED <<pc, seen, cur, reg, hpc, stock_txt>>
    BY <1>1 DEF Main, Load, Listen, Accept, SbufInsert, locals, rest, sigvars
  <2>2. CASE Load
    <3>1. PICK k \in Keys \ DOMAIN stock : stock' = Extend(stock, k, stock_txt[k])
      BY <2>2 DEF Load
    <3>2. mpc = "load" /\ mpc' = "load" /\ hpc[main] = "off" /\ stock_txt = InitStock
      BY <2>2 DEF Load, rest, mainvars, Running, TreeData
    <3>3. \A x \in DOMAIN stock' : stock'[x] = InitStock[x]
      BY <3>1, <3>2 DEF Extend, TreeData
    <3> QED  BY <2>1, <3>2, <3>3 DEF TreeData, WorkerData
  <2>3. CASE Listen
    <3>1. mpc' # "load" /\ DOMAIN stock = Keys /\ stock' = stock
      BY <2>3 DEF Listen, tree
    <3> QED  BY <2>1, <3>1 DEF TreeData, WorkerData
  <2>4. CASE Accept \/ SbufInsert
    <3>1. mpc # "load" /\ mpc' # "load" /\ stock' = stock
      BY <2>4 DEF Accept, SbufInsert, tree
    <3> QED  BY <2>1, <3>1 DEF TreeData, WorkerData
  <2> QED  BY <1>1, <2>2, <2>3, <2>4 DEF Main
<1>2. ASSUME NEW w \in Workers, Worker(w) PROVE TreeData'
  <2>1. CASE /\ stock' = stock /\ seen' = seen
             /\ \A v \in Workers : v # w => cur'[v] = cur[v] /\ reg'[v] = reg[v]
             /\ \E from, to : /\ Goto(w, from, to) /\ from # "r_scan"
                              /\ to \notin {"r_scan", "w_load", "w_store"}
    BY <1>2, <2>1, QuietDataFrame
  <2>2. CASE SbufRemove(w) \/ Once(w) \/ Req(w) \/ ReqEof(w) \/ ReqReset(w)
    BY <2>1, <2>2, LifeTypes
    DEF SbufRemove, Once, Req, ReqEof, ReqReset, tree, locals
  <2>3. CASE CntLock(w) \/ CntLoad(w) \/ CntStore(w)
    <3>1. /\ stock' = stock /\ seen' = seen /\ cur' = cur
          /\ \A v \in Workers : v # w => reg'[v] = reg[v]
      BY <2>3 DEF CntLock, CntLoad, CntStore, tree, locals, TypeOK
    <3>2. \E from, to \in {"cnt_lock", "cnt_load", "cnt_store", "cnt_unlock"} :
             Goto(w, from, to)
      BY <2>3 DEF CntLock, CntLoad, CntStore
    <3> QED  BY <2>1, <3>1, <3>2
  <2>4. CASE CntUnlock(w)
    BY <2>1, <2>4, LifeTypes DEF CntUnlock, Branch, tree
  <2>5. CASE ReadLockIn(w) \/ ReadEnter(w) \/ ReadFirst(w)
    BY <2>1, <2>5 DEF ReadLockIn, ReadEnter, ReadFirst, tree, locals
  <2>6. CASE ReadLockOut(w) \/ ReadLeave(w) \/ ReadLast(w) \/ ReadUnlockOut(w)
    BY <2>1, <2>6 DEF ReadLockOut, ReadLeave, ReadLast, ReadUnlockOut, tree, locals
  <2>7. CASE WriteLock(w) \/ WriteRefuse(w) \/ WriteUnlock(w)
    BY <2>1, <2>7 DEF WriteLock, WriteRefuse, WriteUnlock, tree, locals
  <2>8. CASE WriteRes(w) \/ Res(w)
    BY <2>1, <2>8, LifeTypes DEF WriteRes, Res, SendReply, tree
  <2>9. CASE CloseConn(w)
    BY <2>1, <2>9 DEF CloseConn, tree, locals
  <2> QED
    BY <1>2, <2>2, <2>3, <2>4, <2>5, <2>6, <2>7, <2>8, <2>9, ScanBegins, ScanGoesOn,
       FindData, LoadData, StoreData
    DEF Worker, Show, Write
<1>3. ASSUME NEW t \in Threads, Sigint(t) PROVE TreeData'
  <2>1. UNCHANGED <<mpc, stock, pc, seen, cur, reg, stock_txt>>
    BY <1>3 DEF Sigint, tree, locals, mainvars
  <2>2. mpc = "load" => t = main
    BY <1>3 DEF Sigint, Threads
  <2>3. hpc' = [hpc EXCEPT ![t] = "scan"] /\ main \notin Workers /\ hpc'[t] # "off"
    BY <1>3, StockServerAssumption DEF Sigint, TypeOK
  <2> QED  BY <2>1, <2>2, <2>3 DEF TreeData, WorkerData
<1>4. ASSUME NEW t \in Threads, Handler(t) PROVE TreeData'
  <2>1. UNCHANGED <<mpc, stock, pc, seen, cur, reg>>
    BY <1>4
    DEF Handler, HandlerScan, HandlerOpen, HandlerClose, HandlerExit, Handling, tree,
        locals, mainvars
  <2>2. /\ hpc[t] # "off" /\ \E to \in {"scan", "close", "exit"} : hpc' = [hpc EXCEPT ![t] = to]
    BY <1>4 DEF Handler, HandlerScan, HandlerOpen, HandlerClose, HandlerExit, Handling
  <2>3. hpc'[t] # "off" /\ (mpc = "load" => t = main) /\ main \notin Workers
    BY <2>2, StockServerAssumption DEF TreeData, Threads, TypeOK
  <2> QED  BY <2>1, <2>2, <2>3 DEF TreeData, WorkerData
<1>5. ASSUME NEW c \in Conns, Client(c) PROVE TreeData'
  <2>1. UNCHANGED <<mpc, stock, pc, seen, cur, reg, hpc, stock_txt>>
    BY <1>5
    DEF Client, Connect, Send, Receive, Leave, Abort, tree, locals, mainvars, sigvars
  <2> QED  BY <2>1 DEF TreeData, WorkerData
<1>6. CASE UNCHANGED vars
  <2>1. UNCHANGED <<mpc, stock, pc, seen, cur, reg, hpc, stock_txt>>
    BY <1>6 DEF vars, tree, locals, mainvars, sigvars
  <2> QED  BY <2>1 DEF TreeData, WorkerData
<1> QED  BY <1>1, <1>2, <1>3, <1>4, <1>5, <1>6 DEF Next

-----------------------------------------------------------------------------
(* The request counter *)

Uncounted == {"cnt_lock", "cnt_load", "cnt_store"}
Unread == {c \in Conns : inbox[c] # None}

CountAll == CountInv /\ ByteCountExact

\* The sets that ByteCountExact counts are finite.
LEMMA CountedSetsFinite ==
    /\ IsFiniteSet(Sent) /\ IsFiniteSet(Unread)
    /\ \A L : IsFiniteSet(At(L))
<1>1. IsFiniteSet(Conns \X (1..MaxRequests))
  <2>1. IsFiniteSet(1..MaxRequests)
    BY StockServerAssumption, FS_Interval
  <2> QED  BY <2>1, StockServerAssumption, FS_Product
<1>2. IsFiniteSet(Sent)
  BY <1>1, FS_Subset DEF Sent
<1>3. IsFiniteSet(Unread)
  BY StockServerAssumption, FS_Subset DEF Unread
<1>4. \A L : IsFiniteSet(At(L))
  BY StockServerAssumption, FS_Subset DEF At
<1> QED  BY <1>2, <1>3, <1>4

\* ByteCountExact in these terms.
LEMMA CountedSets ==
    ByteCountExact <=> Cardinality(Sent) = byte_cnt + Cardinality(Unread)
                                                    + Cardinality(At(Uncounted))
  BY DEF ByteCountExact, Unread, At, Uncounted

\* A step that is no business of the counter.
LEMMA CountFrame ==
    ASSUME CountAll, UNCHANGED <<once, byte_cnt, mutex_byte_cnt, asked>>,
           Unread' = Unread,
           \A w \in Workers :
              /\ pc'[w] \in Counting \cup Uncounted \/ pc[w] \in Counting \cup Uncounted
                    => pc'[w] = pc[w]
              /\ pc[w] = "cnt_store" => reg'[w] = reg[w]
    PROVE  CountAll'
<1>1. At(Counting)' = At(Counting) /\ At(Uncounted)' = At(Uncounted)
  BY DEF At
<1>2. CountInv'
  BY <1>1 DEF CountAll, CountInv, Counting
<1>3. ByteCountExact'
  BY <1>1 DEF CountAll, ByteCountExact, Sent, Unread, At, Uncounted
<1> QED  BY <1>2, <1>3 DEF CountAll

\* The step of a worker that is no business of the counter.
LEMMA CountWorkerFrame ==
    ASSUME TypeOK, CountAll, UNCHANGED <<once, byte_cnt, mutex_byte_cnt, asked, inbox>>,
           NEW w \in Workers, NEW from, NEW to, Goto(w, from, to),
           from \notin Counting \cup Uncounted, to \notin Counting \cup Uncounted,
           \A v \in Workers : v # w => reg'[v] = reg[v]
    PROVE  CountAll'
<1>1. pc[w] = from /\ pc'[w] = to /\ \A v \in Workers : v # w => pc'[v] = pc[v]
  BY Step
<1>2. \A v \in Workers :
         /\ pc'[v] \in Counting \cup Uncounted \/ pc[v] \in Counting \cup Uncounted
               => pc'[v] = pc[v]
         /\ pc[v] = "cnt_store" => reg'[v] = reg[v]
  BY <1>1 DEF Counting
<1> QED  BY <1>2, CountFrame DEF Unread

\* How the two sets of workers change.
LEMMA CountMove ==
    ASSUME TypeOK, NEW w \in Workers, NEW from, NEW to, Goto(w, from, to), NEW L
    PROVE  /\ to \in L => At(L)' = At(L) \cup {w}
           /\ to \notin L => At(L)' = At(L) \ {w}
           /\ w \in At(L) <=> from \in L
           /\ Cardinality(At(L)) \in Nat
           /\ Cardinality(At(L)') = Cardinality(At(L))
                 + (IF to \in L THEN 1 ELSE 0) - (IF from \in L THEN 1 ELSE 0)
<1>1. LockTypes
  BY DEF TypeOK, LockTypes
<1>2. /\ to \in L => At(L)' = At(L) \cup {w}
      /\ to \notin L => At(L)' = At(L) \ {w}
      /\ w \in At(L) <=> from \in L
  BY <1>1, Move
<1>3. At(L) \ {w} = At(L)' \ {w} /\ (w \in At(L)' <=> to \in L)
  BY <1>2
<1> QED  BY <1>2, <1>3, CountedSetsFinite, CountStep

\* Pthread_once: the first caller finds nobody counting.
LEMMA OnceCount ==
    ASSUME TypeOK, LockInv, CountAll, NEW w \in Workers, Once(w)
    PROVE  CountAll'
<1>1. Goto(w, "once", "req") /\ UNCHANGED <<asked, inbox, reg>> /\ once' = TRUE
  BY DEF Once, rest, net, locals
<1>2. CASE once
  <2>1. UNCHANGED <<once, byte_cnt, mutex_byte_cnt>>
    BY <1>2 DEF Once, locks
  <2> QED  BY <1>1, <2>1, CountWorkerFrame DEF Counting, Uncounted
<1>3. CASE ~once
  <2>1. byte_cnt' = 0 /\ byte_cnt = 0
    BY <1>3 DEF Once, CountAll, CountInv
  <2>2. \A v \in Workers : /\ pc[v] \in {"remove", "once"}
                           /\ pc'[v] \in {"remove", "once", "req"}
    BY <1>1, <1>3, Step DEF LockInv
  <2>3. At(Counting) = {} /\ At(Counting)' = {} /\ At(Uncounted)' = At(Uncounted)
    BY <2>2 DEF At, Counting, Uncounted
  <2>4. CountInv'
    BY <1>1, <2>2, <2>3 DEF CountInv
  <2>5. ByteCountExact'
    BY <1>1, <2>1, <2>3 DEF CountAll, ByteCountExact, Sent, Unread, At, Uncounted
  <2> QED  BY <2>4, <2>5 DEF CountAll
<1> QED  BY <1>2, <1>3

\* A request is read: the connection's one is now the worker's one.
LEMMA ReqCount ==
    ASSUME TypeOK, Placed, CountAll, NEW w \in Workers, Req(w)
    PROVE  CountAll'
<1>1. /\ Goto(w, "req", "cnt_lock") /\ inbox[held[w]] # None
      /\ inbox' = [inbox EXCEPT ![held[w]] = None]
      /\ UNCHANGED <<asked, reg, once, byte_cnt, mutex_byte_cnt>>
  BY DEF Req, tree, locks
<1>2. held[w] \in Conns
  BY <1>1, Step, HeldAlone
<1>3. Unread' = Unread \ {held[w]} /\ held[w] \in Unread
  BY <1>1, <1>2, LifeTypes DEF Unread
<1>4. Cardinality(Unread') = Cardinality(Unread) - 1
  BY <1>3, CountedSetsFinite, FS_RemoveElement
<1>5. /\ At(Counting)' = At(Counting) \ {w}
      /\ Cardinality(At(Uncounted)') = Cardinality(At(Uncounted)) + 1
      /\ Cardinality(At(Uncounted)) \in Nat
  BY <1>1, CountMove DEF Counting, Uncounted
<1>6. Cardinality(Sent) \in Nat /\ Cardinality(Unread) \in Nat /\ byte_cnt \in Nat
  BY CountedSetsFinite, FS_CardinalityType DEF TypeOK
<1>7. ByteCountExact'
  <2>1. Sent' = Sent /\ byte_cnt' = byte_cnt
    BY <1>1 DEF Sent
  <2>2. Cardinality(Sent) = byte_cnt + Cardinality(Unread) + Cardinality(At(Uncounted))
    BY CountedSets DEF CountAll
  <2>3. Cardinality(Sent') = byte_cnt' + Cardinality(Unread') + Cardinality(At(Uncounted)')
    BY <1>4, <1>5, <1>6, <2>1, <2>2
  <2> QED  BY <2>3 DEF ByteCountExact, Unread, At, Uncounted
<1>8. \A v \in Workers : pc'[v] = "cnt_store" => pc[v] = "cnt_store"
  BY <1>1, Step
<1>9. CountInv'
  BY <1>1, <1>5, <1>8 DEF CountAll, CountInv
<1> QED  BY <1>7, <1>9 DEF CountAll

\* The P of mutex_byte_cnt: nobody else counts.
LEMMA CntLockCount ==
    ASSUME TypeOK, CountAll, NEW w \in Workers, CntLock(w)
    PROVE  CountAll'
<1>1. /\ Goto(w, "cnt_lock", "cnt_load") /\ mutex_byte_cnt > 0
      /\ mutex_byte_cnt' = mutex_byte_cnt - 1
      /\ UNCHANGED <<asked, inbox, reg, once, byte_cnt>>
  BY DEF CntLock, P, tree, locals, rest, net
<1>2. mutex_byte_cnt = 1 /\ mutex_byte_cnt' = 0
  BY <1>1 DEF TypeOK
<1>3. /\ At(Counting)' = At(Counting) \cup {w}
      /\ At(Uncounted)' = At(Uncounted) \cup {w} /\ w \in At(Uncounted)
  BY <1>1, CountMove DEF Counting, Uncounted
<1>4. At(Counting) = {}
  BY <1>2 DEF CountAll, CountInv
<1>5. \A v \in Workers : pc'[v] = "cnt_store" => pc[v] = "cnt_store"
  BY <1>1, Step
<1>6. CountInv'
  BY <1>1, <1>2, <1>3, <1>4, <1>5 DEF CountAll, CountInv
<1>7. ByteCountExact'
  <2>1. At(Uncounted)' = At(Uncounted)
    BY <1>3
  <2> QED  BY <1>1, <2>1 DEF CountAll, ByteCountExact, Sent, Unread, At, Uncounted
<1> QED  BY <1>6, <1>7 DEF CountAll

\* The load of byte_cnt.
LEMMA CntLoadCount ==
    ASSUME TypeOK, CountAll, NEW w \in Workers, CntLoad(w)
    PROVE  CountAll'
<1>1. /\ Goto(w, "cnt_load", "cnt_store") /\ reg' = [reg EXCEPT ![w] = byte_cnt]
      /\ UNCHANGED <<asked, inbox, once, byte_cnt, mutex_byte_cnt>>
  BY DEF CntLoad, tree, locks, rest, net
<1>2. /\ At(Counting)' = At(Counting) \cup {w} /\ w \in At(Counting)
      /\ At(Uncounted)' = At(Uncounted) \cup {w} /\ w \in At(Uncounted)
  BY <1>1, CountMove DEF Counting, Uncounted
<1>3. At(Counting)' = At(Counting) /\ At(Uncounted)' = At(Uncounted)
  BY <1>2
<1>4. \A v \in Workers : pc'[v] = "cnt_store" => reg'[v] = byte_cnt
  BY <1>1, Step DEF CountAll, CountInv, TypeOK
<1>5. CountInv'
  BY <1>1, <1>3, <1>4 DEF CountAll, CountInv
<1>6. ByteCountExact'
  BY <1>1, <1>3 DEF CountAll, ByteCountExact, Sent, Unread, At, Uncounted
<1> QED  BY <1>5, <1>6 DEF CountAll

\* The store of byte_cnt: the value loaded was still the current one.
LEMMA CntStoreCount ==
    ASSUME TypeOK, LockInv, CountAll, NEW w \in Workers, CntStore(w)
    PROVE  CountAll'
<1>1. /\ Goto(w, "cnt_store", "cnt_unlock") /\ byte_cnt' = reg[w] + 1
      /\ UNCHANGED <<asked, inbox, once, mutex_byte_cnt>>
  BY DEF CntStore, locks, rest, net
<1>2. byte_cnt' = byte_cnt + 1 /\ once
  <2>1. pc[w] = "cnt_store"
    BY <1>1, Step
  <2> QED  BY <1>1, <2>1 DEF CountAll, CountInv, LockInv
<1>3. /\ At(Counting)' = At(Counting) \cup {w} /\ w \in At(Counting)
      /\ Cardinality(At(Uncounted)') = Cardinality(At(Uncounted)) - 1
      /\ Cardinality(At(Uncounted)) \in Nat
  BY <1>1, CountMove DEF Counting, Uncounted
<1>4. At(Counting)' = At(Counting) /\ \A v \in At(Counting) : v = w
  BY <1>3 DEF CountAll, CountInv
<1>5. \A v \in Workers : pc'[v] # "cnt_store"
  BY <1>1, <1>4, Step DEF At, Counting
<1>6. CountInv'
  BY <1>1, <1>2, <1>4, <1>5 DEF CountAll, CountInv
<1>7. Cardinality(Sent) \in Nat /\ Cardinality(Unread) \in Nat /\ byte_cnt \in Nat
  BY CountedSetsFinite, FS_CardinalityType DEF TypeOK
<1>8. ByteCountExact'
  <2>1. Sent' = Sent /\ Unread' = Unread
    BY <1>1 DEF Sent, Unread
  <2>2. Cardinality(Sent) = byte_cnt + Cardinality(Unread) + Cardinality(At(Uncounted))
    BY CountedSets DEF CountAll
  <2>3. Cardinality(Sent') = byte_cnt' + Cardinality(Unread') + Cardinality(At(Uncounted)')
    BY <1>2, <1>3, <1>7, <2>1, <2>2
  <2> QED  BY <2>3 DEF ByteCountExact, Unread, At, Uncounted
<1> QED  BY <1>6, <1>8 DEF CountAll

\* The V of mutex_byte_cnt.
LEMMA CntUnlockCount ==
    ASSUME TypeOK, LockInv, CountAll, NEW w \in Workers, CntUnlock(w)
    PROVE  CountAll'
<1> DEFINE to == Branch(cur[w].op)
<1>1. /\ Goto(w, "cnt_unlock", to) /\ to \notin Counting \cup Uncounted
      /\ UNCHANGED <<asked, inbox, once, byte_cnt, reg>>
  BY DEF CntUnlock, Branch, Counting, Uncounted, tree, rest, net
<1> HIDE DEF to
<1>2. /\ At(Counting)' = At(Counting) \ {w} /\ w \in At(Counting)
      /\ At(Uncounted)' = At(Uncounted) \ {w} /\ w \notin At(Uncounted)
  BY <1>1, CountMove DEF Counting, Uncounted
<1>3. At(Counting)' = {} /\ At(Uncounted)' = At(Uncounted) /\ once
  <2>1. pc[w] = "cnt_unlock"
    BY <1>1, Step
  <2> QED  BY <1>2, <2>1 DEF CountAll, CountInv, LockInv
<1>4. CountInv'
  BY <1>1, <1>3 DEF CountAll, CountInv, At, Counting
<1>5. ByteCountExact'
  BY <1>1, <1>3 DEF CountAll, ByteCountExact, Sent, Unread, At, Uncounted
<1> QED  BY <1>4, <1>5 DEF CountAll

\* A client sends a request: one more sent, one more in its connection.
LEMMA SendSets ==
    ASSUME TypeOK, Lifecycle, NEW c \in Conns, Send(c)
    PROVE  /\ Cardinality(Sent') = Cardinality(Sent) + 1
           /\ Cardinality(Unread') = Cardinality(Unread) + 1
<1>1. /\ client[c] = "idle" /\ asked[c] < MaxRequests
      /\ \E r \in Requests : inbox' = [inbox EXCEPT ![c] = r]
      /\ asked' = [asked EXCEPT ![c] = asked[c] + 1]
  BY DEF Send
<1>2. asked \in [Conns -> 0..MaxRequests] /\ MaxRequests \in Nat
  BY StockServerAssumption DEF TypeOK
<1> DEFINE new == <<c, asked[c] + 1>>
<1>3. Sent' = Sent \cup {new} /\ new \notin Sent
  <2>1. new \in Conns \X (1..MaxRequests) /\ new \notin Sent
    BY <1>1, <1>2 DEF Sent
  <2>2. ASSUME NEW r \in Conns \X (1..MaxRequests)
        PROVE  r[2] <= asked'[r[1]] <=> r[2] <= asked[r[1]] \/ r = new
    <3>1. CASE r[1] = c
      <4>1. asked'[r[1]] = asked[c] + 1 /\ asked[c] \in Nat /\ r[2] \in Nat
        BY <1>1, <1>2, <3>1
      <4>2. r = new <=> r[2] = asked[c] + 1
        BY <3>1
      <4> QED  BY <3>1, <4>1, <4>2
    <3>2. CASE r[1] # c
      BY <1>1, <1>2, <3>2
    <3> QED  BY <3>1, <3>2
  <2> QED  BY <2>1, <2>2 DEF Sent
<1>4. Cardinality(Sent') = Cardinality(Sent) + 1
  BY <1>3, CountedSetsFinite, FS_AddElement
<1>5. inbox[c] = None
  BY <1>1 DEF Lifecycle, ClientLife
<1>6. Unread' = Unread \cup {c} /\ c \notin Unread
  BY <1>1, <1>5, LifeTypes DEF Unread
<1>7. Cardinality(Unread') = Cardinality(Unread) + 1
  BY <1>6, CountedSetsFinite, FS_AddElement
<1> QED  BY <1>4, <1>7

LEMMA SendCount ==
    ASSUME TypeOK, Lifecycle, CountAll, NEW c \in Conns, Send(c)
    PROVE  CountAll'
<1>1. UNCHANGED <<pc, reg, once, byte_cnt, mutex_byte_cnt>>
  BY DEF Send, tree, locks, locals
<1>2. At(Counting)' = At(Counting) /\ At(Uncounted)' = At(Uncounted)
  BY <1>1 DEF At
<1>3. Cardinality(Sent) \in Nat /\ Cardinality(Unread) \in Nat /\ byte_cnt \in Nat
      /\ Cardinality(At(Uncounted)) \in Nat
  BY CountedSetsFinite, FS_CardinalityType DEF TypeOK
<1>4. ByteCountExact'
  <2>1. Cardinality(Sent) = byte_cnt + Cardinality(Unread) + Cardinality(At(Uncounted))
    BY CountedSets DEF CountAll
  <2>2. Cardinality(Sent') = byte_cnt' + Cardinality(Unread') + Cardinality(At(Uncounted)')
    BY <1>1, <1>2, <1>3, <2>1, SendSets
  <2> QED  BY <2>2 DEF ByteCountExact, Unread, At, Uncounted
<1>5. CountInv'
  BY <1>1, <1>2 DEF CountAll, CountInv
<1> QED  BY <1>4, <1>5 DEF CountAll

\* Close discards nothing that is counted: the connection has been read.
LEMMA CloseCount ==
    ASSUME TypeOK, Lifecycle, CountAll, NEW w \in Workers, CloseConn(w)
    PROVE  CountAll'
<1>1. /\ Goto(w, "close", "remove") /\ inbox' = [inbox EXCEPT ![held[w]] = None]
      /\ UNCHANGED <<asked, reg, once, byte_cnt, mutex_byte_cnt>>
  BY DEF CloseConn, tree, locks, locals
<1>2. inbox[held[w]] = None
  BY <1>1, Step DEF Lifecycle, WorkerLife
<1>3. Unread' = Unread
  BY <1>1, <1>2, LifeTypes DEF Unread
<1>4. \A v \in Workers : pc'[v] \in Counting \cup Uncounted \/ pc[v] \in Counting \cup Uncounted
                            => pc'[v] = pc[v]
  BY <1>1, Step DEF Counting, Uncounted
<1> QED  BY <1>1, <1>3, <1>4, CountFrame

\* Every step preserves it.
LEMMA CountNext ==
    ASSUME TypeOK, Placed, Lifecycle, LockInv, CountAll, [Next]_vars
    PROVE  CountAll'
<1>1. ASSUME UNCHANGED <<once, byte_cnt, mutex_byte_cnt, asked, inbox, pc, reg>>
      PROVE  CountAll'
  BY <1>1, CountFrame DEF Unread
<1>2. CASE Main
  BY <1>1, <1>2
  DEF Main, Load, Listen, Accept, SbufInsert, tree, locks, locals, rest, net
<1>3. ASSUME NEW w \in Workers, Worker(w) PROVE CountAll'
  <2>1. CASE /\ UNCHANGED <<once, byte_cnt, mutex_byte_cnt, asked, inbox>>
             /\ \A v \in Workers : v # w => reg'[v] = reg[v]
             /\ \E from, to \in Labels \ (Counting \cup Uncounted) : Goto(w, from, to)
    BY <2>1, CountWorkerFrame
  <2>2. CASE SbufRemove(w) \/ ReqEof(w) \/ ReqReset(w)
    <3>1. UNCHANGED <<once, byte_cnt, mutex_byte_cnt, asked, inbox, reg>>
      BY <2>2 DEF SbufRemove, ReqEof, ReqReset, tree, locks, locals, rest, net
    <3>2. \E from, to \in Labels \ (Counting \cup Uncounted) : Goto(w, from, to)
      BY <2>2 DEF SbufRemove, ReqEof, ReqReset, Labels, Counting, Uncounted
    <3> QED  BY <2>1, <3>1, <3>2
  <2>3. CASE ReadLockIn(w) \/ ReadEnter(w) \/ ReadFirst(w) \/ ReadUnlockIn(w) \/ ReadScan(w)
    <3>1. UNCHANGED <<once, byte_cnt, mutex_byte_cnt, asked, inbox, reg>>
      BY <2>3
      DEF ReadLockIn, ReadEnter, ReadFirst, ReadUnlockIn, ReadScan, tree, locks, locals,
          rest, net
    <3>2. \E from, to \in Labels \ (Counting \cup Uncounted) : Goto(w, from, to)
      BY <2>3
      DEF ReadLockIn, ReadEnter, ReadFirst, ReadUnlockIn, ReadScan, Labels, Counting,
          Uncounted
    <3> QED  BY <2>1, <3>1, <3>2
  <2>4. CASE ReadLockOut(w) \/ ReadLeave(w) \/ ReadLast(w) \/ ReadUnlockOut(w)
    <3>1. UNCHANGED <<once, byte_cnt, mutex_byte_cnt, asked, inbox, reg>>
      BY <2>4
      DEF ReadLockOut, ReadLeave, ReadLast, ReadUnlockOut, tree, locks, locals, rest, net
    <3>2. \E from, to \in Labels \ (Counting \cup Uncounted) : Goto(w, from, to)
      BY <2>4
      DEF ReadLockOut, ReadLeave, ReadLast, ReadUnlockOut, Labels, Counting, Uncounted
    <3> QED  BY <2>1, <3>1, <3>2
  <2>5. CASE Write(w)
    <3>1. UNCHANGED <<once, byte_cnt, mutex_byte_cnt, asked, inbox>>
      BY <2>5
      DEF Write, WriteLock, WriteRefuse, WriteFind, WriteLoad, WriteStore, WriteRes, WriteUnlock,
          tree, locks, rest, net
    <3>2. \A v \in Workers : v # w => reg'[v] = reg[v]
      BY <2>5
      DEF Write, WriteLock, WriteRefuse, WriteFind, WriteLoad, WriteStore, WriteRes, WriteUnlock,
          locals, TypeOK
    <3>3. \E from, to \in Labels \ (Counting \cup Uncounted) : Goto(w, from, to)
      BY <2>5
      DEF Write, WriteLock, WriteRefuse, WriteFind, WriteLoad, WriteStore, WriteRes, WriteUnlock,
          Labels, Counting, Uncounted
    <3> QED  BY <2>1, <3>1, <3>2, <3>3
  <2>6. CASE Res(w)
    <3>1. UNCHANGED <<once, byte_cnt, mutex_byte_cnt, asked, inbox, reg>>
      BY <2>6 DEF Res, tree, locks
    <3>2. Goto(w, "res", "req")
      BY <2>6 DEF Res
    <3> QED  BY <3>1, <3>2, CountWorkerFrame DEF Counting, Uncounted
  <2> QED
    BY <1>3, <2>2, <2>3, <2>4, <2>5, <2>6, OnceCount, ReqCount, CntLockCount, CntLoadCount,
       CntStoreCount, CntUnlockCount, CloseCount
    DEF Worker, Show
<1>4. ASSUME NEW t \in Threads, Sigint(t) \/ Handler(t) PROVE CountAll'
  BY <1>1, <1>4
  DEF Sigint, Handler, HandlerScan, HandlerOpen, HandlerClose, HandlerExit, Handling,
      tree, locks, locals, net
<1>5. ASSUME NEW c \in Conns, Client(c) PROVE CountAll'
  <2>1. CASE Connect(c) \/ Receive(c) \/ Leave(c) \/ Abort(c)
    BY <1>1, <2>1 DEF Connect, Receive, Leave, Abort, tree, locks, locals
  <2> QED  BY <1>5, <2>1, SendCount DEF Client
<1>6. CASE UNCHANGED vars
  BY <1>1, <1>6 DEF vars, tree, locks, locals, net
<1> QED  BY <1>2, <1>3, <1>4, <1>5, <1>6 DEF Next

-----------------------------------------------------------------------------
(* The handler *)

\* A step of no handler that changes no key of the tree and no file.
LEMMA HandlerFrame ==
    ASSUME HandlerInv, UNCHANGED <<hpc, hbuf, sigints, stock_txt>>,
           exited' = "sigint" => exited = "sigint", DOMAIN stock \subseteq DOMAIN stock',
           DOMAIN stock' = DOMAIN stock \/ \A t \in Threads : hpc[t] = "off"
    PROVE  HandlerInv'
  BY DEF HandlerInv

\* A handler in one thread.
LEMMA HandlingStep ==
    ASSUME TypeOK, HandlerInv, NEW t \in Threads, Handler(t)
    PROVE  HandlerInv'
<1>1. /\ hpc[t] # "off" /\ hpc \in [Threads -> {"off", "scan", "close", "exit"}]
      /\ hbuf \in [Threads -> Books]
      /\ UNCHANGED <<stock, sigints>> /\ exited = "no"
  BY DEF Handler, HandlerScan, HandlerOpen, HandlerClose, HandlerExit, Handling, TypeOK,
         tree
<1>2. sigints # 0
  BY <1>1 DEF HandlerInv
<1>3. CASE HandlerScan(t)
  <2>1. /\ hpc[t] = "scan" /\ hpc' = [hpc EXCEPT ![t] = "scan"]
        /\ UNCHANGED <<stock_txt, exited>> /\ DOMAIN hbuf[t] # DOMAIN stock
    BY <1>3 DEF HandlerScan, Handling
  <2> DEFINE k == NextKey(DOMAIN hbuf[t])
  <2>2. k \in DOMAIN stock
    <3>1. DOMAIN stock \ DOMAIN hbuf[t] # {}
      BY <2>1 DEF HandlerInv
    <3> QED  BY <3>1, NextKeyIsNew
  <2>3. hbuf' = [hbuf EXCEPT ![t] = Extend(hbuf[t], k, stock[k])]
    BY <1>3 DEF HandlerScan
  <2> HIDE DEF k
  <2>4. \A s \in Threads : DOMAIN hbuf'[s] \subseteq DOMAIN stock
    BY <1>1, <2>2, <2>3 DEF HandlerInv, Extend
  <2>5. \A s \in Threads : hpc'[s] = hpc[s] /\ (s # t => hbuf'[s] = hbuf[s])
    BY <1>1, <2>1, <2>3
  <2> QED  BY <1>1, <1>2, <2>1, <2>4, <2>5 DEF HandlerInv
<1>4. CASE HandlerOpen(t)
  <2>1. /\ hpc[t] = "scan" /\ hpc' = [hpc EXCEPT ![t] = "close"]
        /\ DOMAIN hbuf[t] = DOMAIN stock /\ UNCHANGED <<hbuf, exited>>
    BY <1>4 DEF HandlerOpen, Handling
  <2>2. \A s \in Threads : s # t => hpc'[s] = hpc[s]
    BY <1>1, <2>1
  <2>3. sigints = 1 => \A s \in Threads : hpc'[s] # "exit"
    BY <1>1, <2>1, <2>2 DEF HandlerInv
  <2> QED  BY <1>1, <1>2, <2>1, <2>2, <2>3 DEF HandlerInv
<1>5. CASE HandlerClose(t)
  <2>1. /\ hpc[t] = "close" /\ hpc' = [hpc EXCEPT ![t] = "exit"]
        /\ stock_txt' = hbuf[t] /\ UNCHANGED <<hbuf, exited>>
    BY <1>5 DEF HandlerClose, Handling
  <2>2. DOMAIN stock_txt' = DOMAIN stock
    BY <2>1 DEF HandlerInv
  <2> QED  BY <1>1, <1>2, <2>1, <2>2 DEF HandlerInv
<1>6. CASE HandlerExit(t)
  <2>1. /\ hpc[t] = "exit" /\ hpc' = [hpc EXCEPT ![t] = "exit"]
        /\ UNCHANGED <<hbuf, stock_txt>>
    BY <1>6 DEF HandlerExit, Handling
  <2> QED  BY <1>1, <1>2, <2>1 DEF HandlerInv
<1> QED  BY <1>3, <1>4, <1>5, <1>6 DEF Handler

\* Every step preserves it.
LEMMA HandlerNext ==
    ASSUME TypeOK, TreeData, HandlerInv, [Next]_vars
    PROVE  HandlerInv'
<1>1. CASE Main
  <2>1. UNCHANGED <<hpc, hbuf, sigints, stock_txt, exited>>
    BY <1>1 DEF Main, Load, Listen, Accept, SbufInsert, rest, sigvars
  <2>2. Load => \A t \in Threads : hpc[t] = "off"
    BY DEF Load, Running, TreeData, Threads
  <2>3. ~Load => stock' = stock
    BY <1>1 DEF Main, Listen, Accept, SbufInsert, tree
  <2>4. Load => DOMAIN stock \subseteq DOMAIN stock'
    BY DEF Load, Extend
  <2> QED  BY <2>1, <2>2, <2>3, <2>4, HandlerFrame
<1>2. ASSUME NEW w \in Workers, Worker(w) PROVE HandlerInv'
  <2>1. UNCHANGED <<hpc, hbuf, sigints, stock_txt>> /\ (exited' = "sigint" => exited = "sigint")
    BY <1>2
    DEF Worker, SbufRemove, Once, Req, ReqEof, ReqReset, CntLock, CntLoad, CntStore,
        CntUnlock, Show, ReadLockIn, ReadEnter, ReadFirst, ReadUnlockIn, ReadScan,
        ReadLockOut, ReadLeave, ReadLast, ReadUnlockOut, Write, WriteLock, WriteRefuse,
        WriteFind, WriteLoad, WriteStore, WriteRes, WriteUnlock, Res, CloseConn, rest, sigvars
  <2>2. WriteStore(w) => DOMAIN stock' = DOMAIN stock
    BY DEF WriteStore
  <2>3. ~WriteStore(w) => stock' = stock
    BY <1>2
    DEF Worker, SbufRemove, Once, Req, ReqEof, ReqReset, CntLock, CntLoad, CntStore,
        CntUnlock, Show, ReadLockIn, ReadEnter, ReadFirst, ReadUnlockIn, ReadScan,
        ReadLockOut, ReadLeave, ReadLast, ReadUnlockOut, Write, WriteLock, WriteRefuse,
        WriteFind, WriteLoad, WriteRes, WriteUnlock, Res, CloseConn, tree
  <2> QED  BY <2>1, <2>2, <2>3, HandlerFrame
<1>3. ASSUME NEW t \in Threads, Sigint(t) PROVE HandlerInv'
  <2>1. /\ hpc[t] = "off" /\ hpc' = [hpc EXCEPT ![t] = "scan"] /\ sigints' = sigints + 1
        /\ UNCHANGED <<hbuf, stock, stock_txt>> /\ exited' = "no"
    BY <1>3 DEF Sigint, tree
  <2>2. hpc \in [Threads -> {"off", "scan", "close", "exit"}] /\ sigints \in Nat
    BY StockServerAssumption DEF TypeOK
  <2>3. sigints' # 0 /\ (sigints' = 1 => sigints = 0)
    BY <2>1, <2>2
  <2> QED  BY <2>1, <2>2, <2>3 DEF HandlerInv
<1>4. ASSUME NEW c \in Conns, Client(c) PROVE HandlerInv'
  <2>1. UNCHANGED <<hpc, hbuf, sigints, stock_txt, exited, stock>>
    BY <1>4 DEF Client, Connect, Send, Receive, Leave, Abort, sigvars, tree
  <2> QED  BY <2>1, HandlerFrame
<1>5. CASE UNCHANGED vars
  BY <1>5, HandlerFrame DEF vars, sigvars, tree
<1> QED  BY <1>1, <1>2, <1>3, <1>4, <1>5, HandlingStep DEF Next

-----------------------------------------------------------------------------
(* Types *)

\* What an int holds after an addition or a subtraction is an int.
LEMMA WrapIsInt == \A x \in Int : Wrap(x) \in Ints
<1> SUFFICES ASSUME NEW x \in Int PROVE Wrap(x) \in Ints
  OBVIOUS
<1> DEFINE n == 2 * HalfRange
<1>1. HalfRange \in Nat \ {0} /\ n \in Nat \ {0}
  BY StockRequestsAssumption
<1>2. (x + HalfRange) % n \in 0..(n - 1)
  <2> HIDE DEF n
  <2> QED  BY <1>1
<1> DEFINE r == (x + HalfRange) % n
<1>3. r \in Int /\ 0 <= r /\ r <= 2 * HalfRange - 1
  BY <1>1, <1>2
<1>4. Wrap(x) = r - HalfRange
  BY DEF Wrap
<1> HIDE DEF r, n
<1> QED  BY <1>1, <1>3, <1>4 DEF Ints

\* A node more makes a book of a book.
LEMMA ExtendIsBook ==
    \A b \in Books, k \in Keys, v \in Ints : Extend(b, k, v) \in Books
<1> SUFFICES ASSUME NEW b \in Books, NEW k \in Keys, NEW v \in Ints
             PROVE  Extend(b, k, v) \in Books
  OBVIOUS
<1>1. DOMAIN b \cup {k} \in SUBSET Keys /\ \A x \in DOMAIN b : b[x] \in Ints
  BY BooksAre
<1>2. Extend(b, k, v) \in [DOMAIN b \cup {k} -> Ints]
  BY <1>1 DEF Extend
<1> QED  BY <1>1, <1>2, BooksAre

LEMMA EmptyIsBook == EmptyBook \in Books
<1>1. EmptyBook \in [{} -> Ints]
  BY DEF EmptyBook
<1> QED  BY <1>1 DEF Books

\* The tree and the file hold ints.
BookTypes == stock \in Books /\ stock_txt \in Books

LEMMA BookTypesNext ==
    ASSUME TypeOK, TreeData, Lifecycle, [Next]_vars
    PROVE  BookTypes'
<1>1. stock \in Books /\ stock_txt \in Books
  BY DEF TypeOK
<1>2. ASSUME stock' = stock, stock_txt' = stock_txt PROVE BookTypes'
  BY <1>1, <1>2 DEF BookTypes
<1>3. CASE Main
  <2>1. CASE Load
    <3>1. PICK k \in Keys \ DOMAIN stock : stock' = Extend(stock, k, stock_txt[k])
      BY <2>1 DEF Load
    <3>2. stock_txt = InitStock /\ stock_txt' = stock_txt
      BY <2>1 DEF Load, Running, TreeData, rest, sigvars
    <3>3. stock_txt[k] \in Ints
      BY <3>2, StockServerAssumption DEF Ints
    <3> QED  BY <1>1, <3>1, <3>2, <3>3, ExtendIsBook DEF BookTypes
  <2>2. CASE Listen \/ Accept \/ SbufInsert
    BY <1>2, <2>2 DEF Listen, Accept, SbufInsert, tree, sigvars
  <2> QED  BY <1>3, <2>1, <2>2 DEF Main
<1>4. ASSUME NEW w \in Workers, Worker(w) PROVE BookTypes'
  <2>1. CASE WriteStore(w)
    <3>1. /\ pc[w] = "w_store" /\ stock_txt' = stock_txt
          /\ stock' = [stock EXCEPT ![cur[w].key] =
                         IF cur[w].op = "buy" THEN Wrap(reg[w] - cur[w].n)
                                              ELSE Wrap(reg[w] + cur[w].n)]
      BY <2>1 DEF WriteStore, Goto, rest, sigvars
    <3>2. /\ cur[w] \in Requests /\ cur[w].n \in Int
      BY <3>1, LifeTypes DEF Lifecycle, WorkerLife, Busy, Unanswered
    <3>3. reg[w] \in Int
      BY DEF TypeOK
    <3>4. PICK v \in Ints : stock' = [stock EXCEPT ![cur[w].key] = v]
      <4>1. Wrap(reg[w] - cur[w].n) \in Ints /\ Wrap(reg[w] + cur[w].n) \in Ints
        BY <3>2, <3>3, WrapIsInt
      <4> QED  BY <3>1, <4>1
    <3>5. DOMAIN stock' = DOMAIN stock /\ \A k \in DOMAIN stock : stock'[k] \in Ints
      BY <1>1, <3>4, BooksAre
    <3>6. stock' \in [DOMAIN stock -> Ints] /\ DOMAIN stock \in SUBSET Keys
      BY <1>1, <3>4, <3>5, BooksAre
    <3> QED  BY <1>1, <3>1, <3>6, BooksAre DEF BookTypes
  <2>2. CASE ~WriteStore(w)
    BY <1>2, <1>4, <2>2
    DEF Worker, SbufRemove, Once, Req, ReqEof, ReqReset, CntLock, CntLoad, CntStore,
        CntUnlock, Show, ReadLockIn, ReadEnter, ReadFirst, ReadUnlockIn, ReadScan,
        ReadLockOut, ReadLeave, ReadLast, ReadUnlockOut, Write, WriteLock, WriteRefuse,
        WriteFind, WriteLoad, WriteRes, WriteUnlock, Res, CloseConn, tree, rest, sigvars
  <2> QED  BY <2>1, <2>2
<1>5. ASSUME NEW t \in Threads, Sigint(t) \/ Handler(t) PROVE BookTypes'
  <2>1. stock' = stock /\ stock_txt' \in {stock_txt, EmptyBook, hbuf[t]}
    BY <1>5
    DEF Sigint, Handler, HandlerScan, HandlerOpen, HandlerClose, HandlerExit, Handling, tree
  <2> QED  BY <1>1, <2>1, EmptyIsBook DEF BookTypes, TypeOK
<1>6. ASSUME NEW c \in Conns, Client(c) PROVE BookTypes'
  BY <1>2, <1>6 DEF Client, Connect, Send, Receive, Leave, Abort, tree, sigvars
<1>7. CASE UNCHANGED vars
  BY <1>2, <1>7 DEF vars, tree, sigvars
<1> QED  BY <1>3, <1>4, <1>5, <1>6, <1>7 DEF Next

\* The request counter and its semaphore.
CountTypes == byte_cnt \in Nat /\ mutex_byte_cnt \in 0..1

LEMMA CountTypesNext ==
    ASSUME TypeOK, CountInv, [Next]_vars
    PROVE  CountTypes'
<1>1. byte_cnt \in Nat /\ mutex_byte_cnt \in 0..1 /\ reg \in [Workers -> Int]
  BY DEF TypeOK
<1>2. ASSUME byte_cnt' = byte_cnt, mutex_byte_cnt' = mutex_byte_cnt PROVE CountTypes'
  BY <1>1, <1>2 DEF CountTypes
<1>3. ASSUME NEW w \in Workers, Worker(w) PROVE CountTypes'
  <2>1. CASE Once(w)
    BY <1>1, <2>1 DEF Once, locks, CountTypes
  <2>2. CASE CntLock(w)
    BY <1>1, <2>2 DEF CntLock, P, tree, CountTypes
  <2>3. CASE CntStore(w)
    <3>1. pc[w] = "cnt_store" /\ byte_cnt' = reg[w] + 1 /\ mutex_byte_cnt' = mutex_byte_cnt
      BY <2>3 DEF CntStore, Goto, locks
    <3> QED  BY <1>1, <3>1 DEF CountInv, CountTypes
  <2>4. CASE CntUnlock(w)
    <3>1. pc[w] = "cnt_unlock" /\ byte_cnt' = byte_cnt /\ mutex_byte_cnt' = mutex_byte_cnt + 1
      BY <2>4 DEF CntUnlock, V, Goto, tree
    <3>2. mutex_byte_cnt = 0
      BY <3>1 DEF CountInv, At, Counting
    <3> QED  BY <1>1, <3>1, <3>2 DEF CountTypes
  <2>5. CASE ~Once(w) /\ ~CntLock(w) /\ ~CntStore(w) /\ ~CntUnlock(w)
    BY <1>2, <1>3, <2>5
    DEF Worker, SbufRemove, Req, ReqEof, ReqReset, CntLoad, Show, ReadLockIn, ReadEnter,
        ReadFirst, ReadUnlockIn, ReadScan, ReadLockOut, ReadLeave, ReadLast,
        ReadUnlockOut, Write, WriteLock, WriteRefuse, WriteFind, WriteLoad, WriteStore, WriteRes,
        WriteUnlock, Res, CloseConn, tree, locks
  <2> QED  BY <2>1, <2>2, <2>3, <2>4, <2>5
<1>4. CASE Main
  BY <1>2, <1>4 DEF Main, Load, Listen, Accept, SbufInsert, tree, locks
<1>5. ASSUME NEW t \in Threads, Sigint(t) \/ Handler(t) PROVE CountTypes'
  BY <1>2, <1>5
  DEF Sigint, Handler, HandlerScan, HandlerOpen, HandlerClose, HandlerExit, Handling,
      tree, locks
<1>6. ASSUME NEW c \in Conns, Client(c) PROVE CountTypes'
  BY <1>2, <1>6 DEF Client, Connect, Send, Receive, Leave, Abort, tree, locks
<1>7. CASE UNCHANGED vars
  BY <1>2, <1>7 DEF vars, tree, locks
<1> QED  BY <1>3, <1>4, <1>5, <1>6, <1>7 DEF Next

\* main, the buffer and the connections.
NetTypes ==
    /\ queue \in Seq(Conns) /\ held \in [Workers -> Conns \cup {NoConn}]
    /\ mpc \in {"load", "accept", "insert"} /\ accepted \in Conns \cup {NoConn}
    /\ client \in [Conns -> {"off", "idle", "waiting", "closed", "killed"}]
    /\ backlog \subseteq Conns
    /\ inbox \in [Conns -> Requests \cup {None}]
    /\ outbox \in [Conns -> Replies \cup {None}]
    /\ asked \in [Conns -> 0..MaxRequests]

netvars == <<queue, held, mpc, accepted, client, backlog, inbox, outbox, asked>>

LEMMA NetTypesNext ==
    ASSUME TypeOK, Placed, [Next]_vars
    PROVE  NetTypes'
<1>1. NetTypes
  BY DEF TypeOK, NetTypes
<1>2. ASSUME UNCHANGED netvars PROVE NetTypes'
  BY <1>1, <1>2 DEF NetTypes, netvars
<1>3. CASE Main
  <2>1. CASE Load
    BY <1>2, <2>1 DEF Load, rest, mainvars, net, netvars
  <2>2. CASE Listen
    <3>1. mpc' = "accept" /\ UNCHANGED <<queue, held, accepted, net>>
      BY <2>2 DEF Listen
    <3> QED  BY <1>1, <3>1 DEF NetTypes, net
  <2>3. CASE Accept
    <3>1. /\ \E c \in backlog : accepted' = c /\ backlog' = backlog \ {c}
          /\ mpc' = "insert" /\ UNCHANGED <<queue, held, client, inbox, outbox, asked>>
      BY <2>3 DEF Accept
    <3> QED  BY <1>1, <3>1 DEF NetTypes
  <2>4. CASE SbufInsert
    <3>1. /\ mpc = "insert" /\ queue' = Append(queue, accepted) /\ held' = held
          /\ mpc' = "accept" /\ accepted' = NoConn /\ UNCHANGED net
      BY <2>4 DEF SbufInsert, Sbuf!Put
    <3>2. accepted \in Conns
      BY <1>1, <3>1 DEF Placed, NetTypes
    <3>3. queue' \in Seq(Conns)
      BY <1>1, <3>1, <3>2 DEF NetTypes
    <3> QED  BY <1>1, <3>1, <3>3 DEF NetTypes, net
  <2> QED  BY <1>3, <2>1, <2>2, <2>3, <2>4 DEF Main
<1>4. ASSUME NEW w \in Workers, Worker(w) PROVE NetTypes'
  <2>1. CASE SbufRemove(w)
    <3>1. /\ queue # <<>> /\ held' = [held EXCEPT ![w] = Head(queue)]
          /\ queue' = Tail(queue) /\ UNCHANGED <<mpc, accepted, net>>
      BY <2>1 DEF SbufRemove, Sbuf!Take, mainvars
    <3>2. queue' \in Seq(Conns) /\ Head(queue) \in Conns
      BY <1>1, <3>1 DEF NetTypes
    <3> QED  BY <1>1, <3>1, <3>2 DEF NetTypes, net
  <2>2. CASE Req(w)
    BY <1>1, <2>2 DEF Req, NetTypes, mainvars
  <2>3. CASE CloseConn(w)
    BY <1>1, <2>3 DEF CloseConn, Sbuf!Release, NetTypes, mainvars
  <2>4. CASE WriteRes(w) \/ Res(w)
    <3>1. /\ outbox' = [outbox EXCEPT ![held[w]] =
                          IF client[held[w]] = "waiting" THEN res[w] ELSE None]
          /\ UNCHANGED <<queue, held, mpc, accepted, client, backlog, inbox, asked>>
      BY <2>4 DEF WriteRes, Res, SendReply, mainvars
    <3>2. res[w] \in Replies \cup {None}
      BY DEF TypeOK
    <3>3. outbox' \in [Conns -> Replies \cup {None}]
      BY <1>1, <3>1, <3>2 DEF NetTypes
    <3> QED  BY <1>1, <3>1, <3>3 DEF NetTypes
  <2>5. CASE ~SbufRemove(w) /\ ~Req(w) /\ ~CloseConn(w) /\ ~WriteRes(w) /\ ~Res(w)
    BY <1>2, <1>4, <2>5
    DEF Worker, Once, ReqEof, ReqReset, CntLock, CntLoad, CntStore, CntUnlock, Show,
        ReadLockIn, ReadEnter, ReadFirst, ReadUnlockIn, ReadScan, ReadLockOut, ReadLeave,
        ReadLast, ReadUnlockOut, Write, WriteLock, WriteRefuse, WriteFind, WriteLoad, WriteStore,
        WriteUnlock, rest, mainvars, net, netvars
  <2> QED  BY <2>1, <2>2, <2>3, <2>4, <2>5
<1>5. ASSUME NEW t \in Threads, Sigint(t) \/ Handler(t) PROVE NetTypes'
  BY <1>2, <1>5
  DEF Sigint, Handler, HandlerScan, HandlerOpen, HandlerClose, HandlerExit, Handling,
      mainvars, net, netvars
<1>6. ASSUME NEW c \in Conns, Client(c) PROVE NetTypes'
  <2>1. UNCHANGED <<queue, held, mpc, accepted>>
    BY <1>6 DEF Client, Connect, Send, Receive, Leave, Abort, mainvars
  <2>2. CASE Connect(c)
    BY <1>1, <2>1, <2>2 DEF Connect, NetTypes
  <2>3. CASE Send(c)
    <3>1. /\ asked[c] < MaxRequests /\ asked' = [asked EXCEPT ![c] = asked[c] + 1]
          /\ client' = [client EXCEPT ![c] = "waiting"]
          /\ \E r \in Requests : inbox' = [inbox EXCEPT ![c] = r]
          /\ UNCHANGED <<backlog, outbox>>
      BY <2>3 DEF Send
    <3>2. asked' \in [Conns -> 0..MaxRequests]
      BY <1>1, <3>1, StockServerAssumption DEF NetTypes
    <3> QED  BY <1>1, <2>1, <3>1, <3>2 DEF NetTypes
  <2>4. CASE Receive(c) \/ Leave(c) \/ Abort(c)
    BY <1>1, <2>1, <2>4 DEF Receive, Leave, Abort, NetTypes
  <2> QED  BY <1>6, <2>2, <2>3, <2>4 DEF Client
<1>7. CASE UNCHANGED vars
  BY <1>2, <1>7 DEF vars, mainvars, net, netvars
<1> QED  BY <1>3, <1>4, <1>5, <1>6, <1>7 DEF Next

\* The locals of the workers.
LocalTypes ==
    /\ cur \in [Workers -> Requests \cup {None}]
    /\ res \in [Workers -> Replies \cup {None}]
    /\ reg \in [Workers -> Int] /\ seen \in [Workers -> Books]

LEMMA LocalTypesNext ==
    ASSUME TypeOK, Placed, TreeData, [Next]_vars
    PROVE  LocalTypes'
<1>1. LocalTypes
  BY DEF TypeOK, LocalTypes
<1>2. ASSUME UNCHANGED locals PROVE LocalTypes'
  BY <1>1, <1>2 DEF LocalTypes, locals
<1>3. ASSUME NEW w \in Workers, Worker(w) PROVE LocalTypes'
  <2>1. CASE Req(w)
    <3>1. held[w] \in Conns
      BY <2>1, HeldAlone DEF Req, Goto
    <3>2. inbox[held[w]] \in Requests \cup {None}
      BY <3>1 DEF TypeOK
    <3>3. cur' = [cur EXCEPT ![w] = inbox[held[w]]] /\ UNCHANGED <<res, reg, seen>>
      BY <2>1 DEF Req
    <3> QED  BY <1>1, <3>2, <3>3 DEF LocalTypes
  <2>2. CASE CntLoad(w)
    BY <1>1, <2>2 DEF CntLoad, LocalTypes, TypeOK
  <2>3. CASE CntStore(w)
    BY <1>1, <2>3 DEF CntStore, LocalTypes
  <2>4. CASE CntUnlock(w)
    BY <1>1, <2>4, AnswersAreReplies DEF CntUnlock, LocalTypes
  <2>5. CASE ReadScan(w)
    <3>1. PICK S \in SUBSET Keys :
             LET book == [k \in S |-> stock[k]] IN
             /\ DOMAIN stock = Keys
             /\ seen' \in {[seen EXCEPT ![w] = EmptyBook], [seen EXCEPT ![w] = book]}
             /\ res' \in {[res EXCEPT ![w] = ShowAnswer(book)], [res EXCEPT ![w] = None]}
             /\ ShowAnswer(book) \in Replies
      BY <2>5, ScanFacts
    <3>2. [k \in S |-> stock[k]] \in Books
      <4>1. [k \in S |-> stock[k]] \in [S -> Ints]
        BY <3>1, BooksAre DEF TypeOK
      <4> QED  BY <4>1, BooksAre
    <3>3. UNCHANGED <<cur, reg>>
      BY <2>5 DEF ReadScan
    <3>4. seen' \in [Workers -> Books]
      BY <1>1, <3>1, <3>2, EmptyIsBook DEF LocalTypes
    <3>5. res' \in [Workers -> Replies \cup {None}]
      BY <1>1, <3>1 DEF LocalTypes
    <3> QED  BY <1>1, <3>3, <3>4, <3>5 DEF LocalTypes
  <2>6. CASE WriteRefuse(w)
    <3>1. /\ \E kind \in {"nosuch", "short"} : res' = [res EXCEPT ![w] = Answer(kind)]
          /\ UNCHANGED <<cur, reg, seen>>
      BY <2>6 DEF WriteRefuse
    <3> QED  BY <1>1, <3>1, AnswersAreReplies DEF LocalTypes
  <2>7. CASE WriteLoad(w)
    <3>1. /\ pc[w] = "w_load" /\ UNCHANGED <<cur, res, seen>>
          /\ reg' = [reg EXCEPT ![w] = stock[cur[w].key]]
      BY <2>7 DEF WriteLoad, Goto
    <3>2. stock[cur[w].key] \in Int
      <4>1. cur[w].key \in Keys /\ DOMAIN stock = Keys
        BY <1>3, <3>1, WorkerListens DEF TreeData, WorkerData
      <4> QED  BY <4>1, BooksAre DEF TypeOK, Ints
    <3> QED  BY <1>1, <3>1, <3>2 DEF LocalTypes
  <2>8. CASE WriteStore(w)
    <3>1. /\ reg' = [reg EXCEPT ![w] = 0] /\ res' = [res EXCEPT ![w] = Answer("success")]
          /\ UNCHANGED <<cur, seen>>
      BY <2>8 DEF WriteStore
    <3> QED  BY <1>1, <3>1, AnswersAreReplies DEF LocalTypes
  <2>9. CASE WriteRes(w) \/ Res(w)
    BY <1>1, <2>9 DEF WriteRes, Res, SendReply, LocalTypes
  <2>10. CASE /\ ~Req(w) /\ ~CntLoad(w) /\ ~CntStore(w) /\ ~CntUnlock(w) /\ ~ReadScan(w)
              /\ ~WriteRefuse(w) /\ ~WriteLoad(w) /\ ~WriteStore(w) /\ ~WriteRes(w)
              /\ ~Res(w)
    BY <1>2, <1>3, <2>10
    DEF Worker, SbufRemove, Once, ReqEof, ReqReset, CntLock, Show, ReadLockIn, ReadEnter,
        ReadFirst, ReadUnlockIn, ReadLockOut, ReadLeave, ReadLast, ReadUnlockOut, Write,
        WriteLock, WriteFind, WriteUnlock, CloseConn
  <2> QED  BY <2>1, <2>2, <2>3, <2>4, <2>5, <2>6, <2>7, <2>8, <2>9, <2>10
<1>4. CASE Main
  BY <1>2, <1>4 DEF Main, Load, Listen, Accept, SbufInsert
<1>5. ASSUME NEW t \in Threads, Sigint(t) \/ Handler(t) PROVE LocalTypes'
  BY <1>2, <1>5
  DEF Sigint, Handler, HandlerScan, HandlerOpen, HandlerClose, HandlerExit, Handling
<1>6. ASSUME NEW c \in Conns, Client(c) PROVE LocalTypes'
  BY <1>2, <1>6 DEF Client, Connect, Send, Receive, Leave, Abort
<1>7. CASE UNCHANGED vars
  BY <1>2, <1>7 DEF vars
<1> QED  BY <1>3, <1>4, <1>5, <1>6, <1>7 DEF Next

\* The handler in each thread.
SignalTypes ==
    /\ hpc \in [Threads -> {"off", "scan", "close", "exit"}]
    /\ hbuf \in [Threads -> Books]
    /\ exited \in {"no", "sigint", "error"} /\ sigints \in 0..MaxSigints

LEMMA SignalTypesNext ==
    ASSUME TypeOK, HandlerInv, [Next]_vars
    PROVE  SignalTypes'
<1>1. SignalTypes
  BY DEF TypeOK, SignalTypes
<1>2. ASSUME UNCHANGED <<hpc, hbuf, sigints>>, exited' \in {exited, "error"}
      PROVE  SignalTypes'
  BY <1>1, <1>2 DEF SignalTypes
<1>3. CASE Main
  BY <1>2, <1>3 DEF Main, Load, Listen, Accept, SbufInsert, rest, sigvars
<1>4. ASSUME NEW w \in Workers, Worker(w) PROVE SignalTypes'
  BY <1>2, <1>4
  DEF Worker, SbufRemove, Once, Req, ReqEof, ReqReset, CntLock, CntLoad, CntStore,
      CntUnlock, Show, ReadLockIn, ReadEnter, ReadFirst, ReadUnlockIn, ReadScan,
      ReadLockOut, ReadLeave, ReadLast, ReadUnlockOut, Write, WriteLock, WriteRefuse,
      WriteFind, WriteLoad, WriteStore, WriteRes, WriteUnlock, Res, CloseConn, rest, sigvars
<1>5. ASSUME NEW t \in Threads, Sigint(t) PROVE SignalTypes'
  <2>1. /\ sigints < MaxSigints /\ hpc' = [hpc EXCEPT ![t] = "scan"]
        /\ sigints' = sigints + 1 /\ UNCHANGED <<hbuf, exited>>
    BY <1>5 DEF Sigint
  <2>2. sigints' \in 0..MaxSigints
    BY <1>1, <2>1, StockServerAssumption DEF SignalTypes
  <2> QED  BY <1>1, <2>1, <2>2 DEF SignalTypes
<1>6. ASSUME NEW t \in Threads, Handler(t) PROVE SignalTypes'
  <2>1. /\ \E to \in {"scan", "close", "exit"} : hpc' = [hpc EXCEPT ![t] = to]
        /\ sigints' = sigints /\ exited' \in {exited, "sigint"}
    BY <1>6 DEF Handler, HandlerScan, HandlerOpen, HandlerClose, HandlerExit, Handling
  <2>2. CASE HandlerScan(t)
    <3> DEFINE k == NextKey(DOMAIN hbuf[t])
    <3>1. /\ hbuf' = [hbuf EXCEPT ![t] = Extend(hbuf[t], k, stock[k])]
          /\ DOMAIN hbuf[t] # DOMAIN stock
      BY <2>2 DEF HandlerScan
    <3>2. DOMAIN stock \ DOMAIN hbuf[t] # {}
      BY <3>1 DEF HandlerInv
    <3>3. k \in DOMAIN stock
      BY <3>2, NextKeyIsNew
    <3> HIDE DEF k
    <3>4. k \in Keys /\ stock[k] \in Ints
      BY <3>3, BooksAre DEF TypeOK
    <3>5. Extend(hbuf[t], k, stock[k]) \in Books
      BY <1>1, <3>4, ExtendIsBook DEF SignalTypes
    <3> QED  BY <1>1, <2>1, <3>1, <3>5 DEF SignalTypes
  <2>3. CASE HandlerOpen(t) \/ HandlerClose(t) \/ HandlerExit(t)
    <3>1. hbuf' = hbuf
      BY <2>3 DEF HandlerOpen, HandlerClose, HandlerExit
    <3> QED  BY <1>1, <2>1, <3>1 DEF SignalTypes
  <2> QED  BY <1>6, <2>2, <2>3 DEF Handler
<1>7. ASSUME NEW c \in Conns, Client(c) PROVE SignalTypes'
  BY <1>2, <1>7 DEF Client, Connect, Send, Receive, Leave, Abort, sigvars
<1>8. CASE UNCHANGED vars
  BY <1>2, <1>8 DEF vars, sigvars
<1> QED  BY <1>3, <1>4, <1>5, <1>6, <1>7, <1>8 DEF Next

-----------------------------------------------------------------------------
(* The invariant of the server *)

ServerInv ==
    /\ TypeOK /\ Placed /\ Lifecycle /\ TreeData /\ CountAll /\ HandlerInv

\* The server starts with nothing loaded, nobody connected and nothing held.
LEMMA ServerInit ==
    ASSUME Init
    PROVE  ServerInv
<1>1. /\ pc = [w \in Workers |-> "remove"] /\ held = [w \in Workers |-> NoConn]
      /\ queue = <<>> /\ accepted = NoConn /\ mpc = "load" /\ backlog = {}
      /\ client = [c \in Conns |-> "off"]
      /\ inbox = [c \in Conns |-> None] /\ outbox = [c \in Conns |-> None]
      /\ asked = [c \in Conns |-> 0] /\ once = FALSE
  BY DEF Init, Sbuf!Init
<1>2. /\ stock = EmptyBook /\ stock_txt = InitStock /\ DOMAIN EmptyBook = {}
      /\ cur = [w \in Workers |-> None] /\ res = [w \in Workers |-> None]
      /\ reg = [w \in Workers |-> 0] /\ seen = [w \in Workers |-> EmptyBook]
      /\ hpc = [t \in Threads |-> "off"] /\ hbuf = [t \in Threads |-> EmptyBook]
      /\ sigints = 0 /\ exited = "no" /\ byte_cnt = 0 /\ read_tree = 0
      /\ w_tree = 0 /\ mutex_read_tree = 0 /\ mutex_byte_cnt = 0
  BY DEF Init, EmptyBook
<1>3. TypeOK
  <2>1. InitStock \in Books
    <3>1. InitStock \in [Keys -> Ints]
      BY StockServerAssumption DEF Ints
    <3> QED  BY <3>1, BooksAre
  <2>2. BookTypes /\ CountTypes /\ LocalTypes
    BY <1>2, <2>1, EmptyIsBook DEF BookTypes, CountTypes, LocalTypes
  <2>3. NetTypes
    BY <1>1, StockServerAssumption DEF NetTypes
  <2>4. SignalTypes
    BY <1>2, EmptyIsBook, StockServerAssumption DEF SignalTypes
  <2>5. /\ pc \in [Workers -> Labels] /\ once \in BOOLEAN /\ read_tree \in Nat
        /\ {w_tree, mutex_read_tree} \subseteq 0..1
    <3>1. "remove" \in Labels
      BY DEF Labels
    <3>2. w_tree \in 0..1 /\ mutex_read_tree \in 0..1 /\ read_tree \in Nat
      BY <1>2
    <3> QED  BY <1>1, <3>1, <3>2
  <2> QED
    BY <2>2, <2>3, <2>4, <2>5
    DEF TypeOK, BookTypes, CountTypes, LocalTypes, NetTypes, SignalTypes
<1>4. Placed
  BY <1>1, StockServerAssumption DEF Placed, Open
<1>5. Lifecycle
  BY <1>1, <1>2
  DEF Lifecycle, WorkerLife, ClientLife, Busy, Answered, Unanswered, Showing, Trading
<1>6. TreeData
  BY <1>1, <1>2, StockServerAssumption DEF TreeData, WorkerData, Threads
<1>7. CountAll
  <2>1. Sent = {}
    BY <1>1 DEF Sent
  <2>2. Unread = {} /\ At(Uncounted) = {} /\ At(Counting) = {}
    BY <1>1 DEF Unread, At, Uncounted, Counting
  <2>3. ByteCountExact
    BY <1>2, <2>1, <2>2, FS_EmptySet, CountedSets
  <2>4. CountInv
    BY <1>1, <1>2, <2>2 DEF CountInv
  <2> QED  BY <2>3, <2>4 DEF CountAll
<1>8. HandlerInv
  BY <1>2 DEF HandlerInv
<1> QED  BY <1>3, <1>4, <1>5, <1>6, <1>7, <1>8 DEF ServerInv

\* Every step preserves it, next to the protocol of the locks.
LEMMA ServerNext ==
    ASSUME ServerInv, LockInv, TreeExclusion, [Next]_vars, LockTypes', LockInv'
    PROVE  ServerInv'
<1>1. TypeOK /\ Placed /\ Lifecycle /\ TreeData /\ CountAll /\ CountInv /\ HandlerInv
  BY DEF ServerInv, CountAll
<1>2. TypeOK'
  <2>1. BookTypes' /\ CountTypes' /\ NetTypes' /\ LocalTypes' /\ SignalTypes'
    BY <1>1, BookTypesNext, CountTypesNext, NetTypesNext, LocalTypesNext, SignalTypesNext
  <2>2. /\ pc' \in [Workers -> Labels] /\ once' \in BOOLEAN
        /\ {w_tree', mutex_read_tree'} \subseteq 0..1
    BY DEF LockTypes
  <2>3. read_tree' \in Nat
    <3>1. IsFiniteSet(At(Counted)')
      BY StockServerAssumption, FS_Subset DEF At
    <3>2. read_tree' = Cardinality(At(Counted)')
      BY DEF LockInv
    <3> QED  BY <3>1, <3>2, FS_CardinalityType
  <2> QED
    BY <2>1, <2>2, <2>3
    DEF TypeOK, BookTypes, CountTypes, LocalTypes, NetTypes, SignalTypes
<1>3. Placed' /\ Lifecycle' /\ TreeData' /\ CountAll' /\ HandlerInv'
  BY <1>1, PlacedNext, LifecycleNext, TreeDataNext, CountNext, HandlerNext
<1> QED  BY <1>2, <1>3 DEF ServerInv

\* The whole invariant, for any number of workers, connections and stocks.
THEOREM ServerInvariant == Spec => [](ServerInv /\ LockInv /\ TreeExclusion)
<1>1. Init => ServerInv
  BY ServerInit
<1>2. /\ ServerInv /\ LockInv /\ TreeExclusion /\ [Next]_vars
      /\ (LockTypes /\ LockInv)'
      => ServerInv'
  BY ServerNext
<1> QED  BY <1>1, <1>2, LockInvariant, TreeIsExclusive, PTL DEF Spec

\* The types of the server's state: an int stays an int through every buy and
\* sell, a semaphore of the tree or of the counter never exceeds one.
THEOREM TypesCorrect == Spec => []TypeOK
<1>1. ServerInv => TypeOK
  BY DEF ServerInv
<1> QED  BY <1>1, ServerInvariant, PTL

\* From Connect to Close an open connection is in the backlog, with main, in one
\* slot of the buffer of descriptors or with one worker, and in one of these only.
THEOREM ConnectionHasOneServer == Spec => []OneServer
<1>1. ASSUME ServerInv PROVE OneServer
  <2>1. TypeOK /\ Placed
    BY <1>1 DEF ServerInv
  <2>2. SUFFICES ASSUME NEW c \in Conns
                 PROVE  /\ Open(c) => \/ c \in backlog \cup {accepted}
                                      \/ Slots(c) # {} \/ Holders(c) # {}
                        /\ c \in backlog => c # accepted
                        /\ c \in backlog \cup {accepted} => Slots(c) = {} /\ Holders(c) = {}
                        /\ Slots(c) # {} => Holders(c) = {}
                        /\ \A i, j \in Slots(c) : i = j
                        /\ \A v, w \in Holders(c) : v = w
    BY DEF OneServer
  <2>3. c # NoConn
    BY StockServerAssumption
  <2> QED  BY <2>1, <2>3 DEF Placed, Slots, Holders
<1> QED  BY <1>1, ServerInvariant, PTL

\* byte_cnt loses no update: the requests counted, those about to be and those
\* not read yet are the requests sent (stockserver.c:58-59 and 83-86).
THEOREM EveryRequestIsCounted == Spec => []ByteCountExact
<1>1. ServerInv => ByteCountExact
  BY DEF ServerInv, CountAll
<1> QED  BY <1>1, ServerInvariant, PTL

\* One SIGINT leaves a file with every stock, whichever thread it interrupts and
\* wherever (sigint_handler).
THEOREM OneSigintSavesEveryStock == Spec => []SavedComplete
<1>1. ServerInv => SavedComplete
  <2> SUFFICES ASSUME ServerInv, exited = "sigint", sigints = 1, mpc # "load"
               PROVE  DOMAIN stock_txt = Keys
    BY DEF SavedComplete
  <2> QED  BY DEF ServerInv, HandlerInv, TreeData
<1> QED  BY <1>1, ServerInvariant, PTL

-----------------------------------------------------------------------------
(* Amounts *)

\* Requests name natural amounts up to M, and all of them together cannot take a
\* stock past what an int holds.
SmallAmounts(M) ==
    /\ M \in Nat /\ \A r \in Requests : r.n \in 0..M
    /\ \A k \in Keys : /\ 0 <= InitStock[k]
                       /\ InitStock[k] + M * (Cardinality(Conns) * MaxRequests) < HalfRange

\* The number of requests that have taken effect: each adds at most M to a stock.
Done == Cardinality(Sent) - Cardinality(Unread) - Cardinality(At(Unanswered))

Amounts(M) ==
    /\ Done \in Nat
    /\ \A k \in DOMAIN stock : 0 <= stock[k] /\ stock[k] <= InitStock[k] + M * Done

\* What Done is made of, and its bound while one more request is in hand.
LEMMA DoneBound ==
    ASSUME TypeOK
    PROVE  /\ Done \in Int /\ Cardinality(Conns) * MaxRequests \in Nat
           /\ Cardinality(Sent) \in Nat /\ Cardinality(Unread) \in Nat
           /\ Cardinality(At(Unanswered)) \in Nat
           /\ At(Unanswered) # {} => Done + 1 <= Cardinality(Conns) * MaxRequests
<1>1. /\ Cardinality(Sent) \in Nat /\ Cardinality(Unread) \in Nat
      /\ Cardinality(At(Unanswered)) \in Nat
      /\ At(Unanswered) # {} => Cardinality(At(Unanswered)) # 0
  BY CountedSetsFinite, FS_CardinalityType, FS_EmptySet
<1>2. Cardinality(Sent) <= Cardinality(Conns) * MaxRequests
      /\ Cardinality(Conns) * MaxRequests \in Nat
  <2>1. IsFiniteSet(1..MaxRequests) /\ Cardinality(1..MaxRequests) = MaxRequests
        /\ MaxRequests \in Nat
    BY StockServerAssumption, FS_Interval
  <2>2. /\ IsFiniteSet(Conns \X (1..MaxRequests))
        /\ Cardinality(Conns \X (1..MaxRequests)) = Cardinality(Conns) * MaxRequests
    BY <2>1, StockServerAssumption, FS_Product
  <2>3. Sent \subseteq Conns \X (1..MaxRequests)
    BY DEF Sent
  <2> QED  BY <2>2, <2>3, FS_Subset, FS_CardinalityType
<1> QED  BY <1>1, <1>2 DEF Done

\* A step that changes no stock: a request more may have taken effect.
LEMMA AmountsFrame ==
    ASSUME TypeOK, NEW M, SmallAmounts(M), Amounts(M), stock' = stock,
           Done' \in {Done, Done + 1}
    PROVE  Amounts(M)'
<1>1. M \in Nat /\ Done \in Nat
  BY DEF SmallAmounts, Amounts
<1>2. M * (Done + 1) = M * Done + M /\ M * Done \in Nat
  BY <1>1
<1>3. \A k \in DOMAIN stock : stock[k] \in Int /\ InitStock[k] \in Int
  BY BooksAre, StockServerAssumption DEF TypeOK, Ints
<1> QED  BY <1>1, <1>2, <1>3 DEF Amounts

\* A worker's step moves it into or out of Unanswered.
LEMMA DoneMove ==
    ASSUME TypeOK, NEW w \in Workers, NEW from, NEW to, Goto(w, from, to),
           asked' = asked, Unread' = Unread
    PROVE  Done' = Done + (IF from \in Unanswered THEN 1 ELSE 0)
                        - (IF to \in Unanswered THEN 1 ELSE 0)
<1>1. Sent' = Sent
  BY DEF Sent
<1>2. Cardinality(At(Unanswered)') = Cardinality(At(Unanswered))
         + (IF to \in Unanswered THEN 1 ELSE 0) - (IF from \in Unanswered THEN 1 ELSE 0)
  BY CountMove
<1>3. Done' = Cardinality(Sent) - Cardinality(Unread) - Cardinality(At(Unanswered)')
  BY <1>1 DEF Done
<1> QED  BY <1>2, <1>3, DoneBound DEF Done

\* The store of a buy or a sell: neither below zero nor past HalfRange.
LEMMA StoreAmounts ==
    ASSUME ServerInv, NEW M, SmallAmounts(M), Amounts(M), NEW w \in Workers, WriteStore(w)
    PROVE  Amounts(M)'
<1>1. /\ Goto(w, "w_store", "w_res") /\ pc[w] = "w_store" /\ UNCHANGED <<asked, inbox>>
      /\ stock' = [stock EXCEPT ![cur[w].key] =
                     IF cur[w].op = "buy" THEN Wrap(reg[w] - cur[w].n)
                                          ELSE Wrap(reg[w] + cur[w].n)]
  BY DEF WriteStore, Goto, rest, net
<1>2. TypeOK /\ TreeData /\ Lifecycle
  BY DEF ServerInv
<1>3. cur[w] \in Requests
  BY <1>1, <1>2, LifeTypes DEF Lifecycle, WorkerLife, Busy, Unanswered
<1>4. PICK r \in Requests : r = cur[w]
  BY <1>3
<1>5. PICK k \in Keys : k = r.key
  BY <1>1, <1>2, <1>4 DEF TreeData, WorkerData
<1>6. /\ reg[w] = stock[k] /\ (r.op = "buy" => r.n <= reg[w]) /\ DOMAIN stock = Keys
      /\ stock[k] \in Int /\ InitStock[k] \in Int
  <2>1. mpc # "load"
    BY <1>1, <1>2 DEF TreeData
  <2> QED
    BY <1>1, <1>2, <1>4, <1>5, <2>1, BooksAre, StockServerAssumption
    DEF TreeData, WorkerData, TypeOK, Ints
<1>7. M \in Nat /\ Done \in Nat /\ r.n \in 0..M /\ HalfRange \in Nat
      /\ 0 <= stock[k] /\ stock[k] <= InitStock[k] + M * Done
  BY <1>6, StockRequestsAssumption DEF SmallAmounts, Amounts
<1>8. Done' = Done + 1 /\ At(Unanswered) # {}
  <2>1. Unread' = Unread
    BY <1>1 DEF Unread
  <2>2. Done' = Done + 1
    BY <1>1, <1>2, <1>7, <2>1, DoneMove DEF Unanswered
  <2>3. w \in At(Unanswered)
    BY <1>1 DEF At, Unanswered
  <2> QED  BY <2>2, <2>3
<1>9. InitStock[k] + M * (Done + 1) < HalfRange
  <2> DEFINE total == Cardinality(Conns) * MaxRequests
  <2>1. Done + 1 <= total /\ total \in Nat /\ InitStock[k] + M * total < HalfRange
    BY <1>2, <1>8, DoneBound DEF SmallAmounts
  <2> HIDE DEF total
  <2>2. M * (Done + 1) <= M * total
    BY <1>7, <2>1
  <2>3. M * (Done + 1) \in Int /\ M * total \in Int
    BY <1>7, <2>1
  <2> QED  BY <1>6, <1>7, <2>1, <2>2, <2>3
<1>10. M * (Done + 1) = M * Done + M /\ M * Done \in Nat
  BY <1>7
<1> DEFINE x == IF r.op = "buy" THEN reg[w] - r.n ELSE reg[w] + r.n
<1>11. x \in Int /\ 0 <= x /\ x <= InitStock[k] + M * (Done + 1) /\ x < HalfRange
  BY <1>6, <1>7, <1>9, <1>10
<1> HIDE DEF x
<1>12. Wrap(x) = x
  <2>1. (x + HalfRange) % (2 * HalfRange) = x + HalfRange
    BY <1>7, <1>11
  <2> QED  BY <1>7, <1>11, <2>1 DEF Wrap
<1>13. stock' = [stock EXCEPT ![k] = x]
  BY <1>1, <1>4, <1>5, <1>12 DEF x
<1>14. ASSUME NEW j \in Keys PROVE 0 <= stock'[j] /\ stock'[j] <= InitStock[j] + M * (Done + 1)
  <2>1. 0 <= stock[j] /\ stock[j] <= InitStock[j] + M * Done
    BY <1>6 DEF Amounts
  <2>2. stock[j] \in Int /\ InitStock[j] \in Int
    BY <1>2, <1>6, BooksAre, StockServerAssumption DEF TypeOK, Ints
  <2>3. stock'[j] = IF j = k THEN x ELSE stock[j]
    BY <1>6, <1>13
  <2> QED  BY <1>7, <1>10, <1>11, <2>1, <2>2, <2>3
<1>15. DOMAIN stock' = Keys
  BY <1>6, <1>13
<1> QED  BY <1>7, <1>8, <1>14, <1>15 DEF Amounts

\* A step of a worker that changes no stock.
LEMMA WorkerAmounts ==
    ASSUME ServerInv, NEW M, SmallAmounts(M), Amounts(M), NEW w \in Workers, Worker(w),
           ~WriteStore(w)
    PROVE  Amounts(M)'
<1>1. TypeOK /\ Placed /\ Lifecycle /\ Done \in Int
  BY DoneBound DEF ServerInv
<1>2. stock' = stock
  BY DEF Worker, SbufRemove, Once, Req, ReqEof, ReqReset, CntLock, CntLoad, CntStore,
         CntUnlock, Show, ReadLockIn, ReadEnter, ReadFirst, ReadUnlockIn, ReadScan,
         ReadLockOut, ReadLeave, ReadLast, ReadUnlockOut, Write, WriteLock, WriteRefuse,
         WriteFind, WriteLoad, WriteRes, WriteUnlock, Res, CloseConn, tree
<1>3. asked' = asked
  BY DEF Worker, SbufRemove, Once, Req, ReqEof, ReqReset, CntLock, CntLoad, CntStore,
         CntUnlock, Show, ReadLockIn, ReadEnter, ReadFirst, ReadUnlockIn, ReadScan,
         ReadLockOut, ReadLeave, ReadLast, ReadUnlockOut, Write, WriteLock, WriteRefuse,
         WriteFind, WriteLoad, WriteStore, WriteRes, WriteUnlock, Res, CloseConn, rest, net
<1>4. CASE Req(w)
  <2>1. Goto(w, "req", "cnt_lock") /\ Cardinality(Unread') = Cardinality(Unread) - 1
    <3>1. /\ Goto(w, "req", "cnt_lock") /\ inbox[held[w]] # None
          /\ inbox' = [inbox EXCEPT ![held[w]] = None]
      BY <1>4 DEF Req
    <3>2. held[w] \in Conns
      BY <1>1, <3>1, Step, HeldAlone
    <3>3. Unread' = Unread \ {held[w]} /\ held[w] \in Unread
      BY <1>1, <3>1, <3>2, LifeTypes DEF Unread
    <3> QED  BY <3>1, <3>3, CountedSetsFinite, FS_RemoveElement
  <2>2. Cardinality(At(Unanswered)') = Cardinality(At(Unanswered)) + 1
    BY <1>1, <2>1, CountMove DEF Unanswered
  <2>3. Sent' = Sent
    BY <1>3 DEF Sent
  <2>4. Done' = Cardinality(Sent) - Cardinality(Unread') - Cardinality(At(Unanswered)')
    BY <2>3 DEF Done
  <2>5. Done' = Done
    BY <1>1, <2>1, <2>2, <2>4, DoneBound DEF Done
  <2> QED  BY <1>1, <1>2, <2>5, AmountsFrame
<1>5. CASE ~Req(w)
  <2>1. Unread' = Unread
    <3>1. CASE CloseConn(w)
      <4>1. pc[w] = "close" /\ inbox' = [inbox EXCEPT ![held[w]] = None]
        BY <3>1 DEF CloseConn, Goto
      <4>2. inbox[held[w]] = None
        BY <1>1, <4>1 DEF Lifecycle, WorkerLife
      <4> QED  BY <1>1, <4>1, <4>2, LifeTypes DEF Unread
    <3>2. CASE ~CloseConn(w)
      BY <1>5, <3>2
      DEF Worker, SbufRemove, Once, ReqEof, ReqReset, CntLock, CntLoad, CntStore,
          CntUnlock, Show, ReadLockIn, ReadEnter, ReadFirst, ReadUnlockIn, ReadScan,
          ReadLockOut, ReadLeave, ReadLast, ReadUnlockOut, Write, WriteLock, WriteRefuse,
          WriteFind, WriteLoad, WriteStore, WriteRes, WriteUnlock, Res, rest, net, Unread
    <3> QED  BY <3>1, <3>2
  <2>2. \E from, to : Goto(w, from, to) /\ (to \in Unanswered => from \in Unanswered)
    BY <1>5
    DEF Worker, SbufRemove, Once, ReqEof, ReqReset, CntLock, CntLoad, CntStore, CntUnlock,
        Show, ReadLockIn, ReadEnter, ReadFirst, ReadUnlockIn, ReadScan, ReadLockOut,
        ReadLeave, ReadLast, ReadUnlockOut, Write, WriteLock, WriteRefuse, WriteFind, WriteLoad,
        WriteStore, WriteRes, WriteUnlock, Res, CloseConn, Unanswered
  <2>3. Done' \in {Done, Done + 1}
    BY <1>1, <1>3, <2>1, <2>2, DoneMove
  <2> QED  BY <1>1, <1>2, <2>3, AmountsFrame
<1> QED  BY <1>4, <1>5

\* Every step keeps the amounts within their bounds.
LEMMA AmountsNext ==
    ASSUME ServerInv, NEW M, SmallAmounts(M), Amounts(M), [Next]_vars
    PROVE  Amounts(M)'
<1>1. TypeOK /\ TreeData /\ Lifecycle /\ Done \in Int
  BY DoneBound DEF ServerInv
<1>2. ASSUME UNCHANGED <<asked, inbox, pc>> PROVE Done' = Done
  BY <1>2 DEF Done, Sent, Unread, At
<1>3. ASSUME UNCHANGED <<asked, inbox, pc, stock>> PROVE Amounts(M)'
  BY <1>1, <1>2, <1>3, AmountsFrame
<1>4. CASE Main
  <2>1. CASE Load
    <3>1. PICK k \in Keys \ DOMAIN stock : stock' = Extend(stock, k, stock_txt[k])
      BY <2>1 DEF Load
    <3>2. stock_txt = InitStock /\ UNCHANGED <<asked, inbox, pc>>
      BY <1>1, <2>1 DEF Load, Running, TreeData, rest, net
    <3>3. M \in Nat /\ Done \in Nat /\ Done' = Done /\ M * Done \in Nat
      BY <1>2, <3>2 DEF SmallAmounts, Amounts
    <3>4. InitStock[k] \in Int /\ 0 <= InitStock[k]
      BY StockServerAssumption DEF SmallAmounts
    <3>5. \A x \in DOMAIN stock' : \/ x \in DOMAIN stock /\ stock'[x] = stock[x]
                                   \/ x = k /\ stock'[x] = InitStock[k]
      BY <3>1, <3>2 DEF Extend
    <3>6. \A x \in DOMAIN stock' : 0 <= stock'[x] /\ stock'[x] <= InitStock[x] + M * Done
      BY <3>3, <3>4, <3>5 DEF Amounts
    <3> QED  BY <3>3, <3>6 DEF Amounts
  <2>2. CASE Listen \/ Accept \/ SbufInsert
    BY <1>3, <2>2 DEF Listen, Accept, SbufInsert, tree, net
  <2> QED  BY <1>4, <2>1, <2>2 DEF Main
<1>5. ASSUME NEW w \in Workers, Worker(w) PROVE Amounts(M)'
  BY <1>5, StoreAmounts, WorkerAmounts
<1>6. ASSUME NEW t \in Threads, Sigint(t) \/ Handler(t) PROVE Amounts(M)'
  BY <1>3, <1>6
  DEF Sigint, Handler, HandlerScan, HandlerOpen, HandlerClose, HandlerExit, Handling,
      tree, net
<1>7. ASSUME NEW c \in Conns, Client(c) PROVE Amounts(M)'
  <2>1. CASE Send(c)
    <3>1. stock' = stock /\ pc' = pc
      BY <2>1 DEF Send, tree
    <3>2. At(Unanswered)' = At(Unanswered)
      BY <3>1 DEF At
    <3>3. Done' = Cardinality(Sent') - Cardinality(Unread') - Cardinality(At(Unanswered))
      BY <3>2 DEF Done
    <3>4. Done' = Done
      BY <1>1, <2>1, <3>3, SendSets, DoneBound DEF Done
    <3> QED  BY <1>1, <3>1, <3>4, AmountsFrame
  <2>2. CASE Connect(c) \/ Receive(c) \/ Leave(c) \/ Abort(c)
    BY <1>3, <2>2 DEF Connect, Receive, Leave, Abort, tree
  <2> QED  BY <1>7, <2>1, <2>2 DEF Client
<1>8. CASE UNCHANGED vars
  BY <1>3, <1>8 DEF vars, tree, net
<1> QED  BY <1>4, <1>5, <1>6, <1>7, <1>8 DEF Next

\* As long as the amounts asked for are natural numbers and no sum of them passes
\* what an int holds, no stock goes below zero: the left_stock that was tested is
\* the one that is stored (stockserver.c:124-130).
THEOREM StocksStayNatural ==
    ASSUME NEW M, SmallAmounts(M)
    PROVE  Spec => []NeverOversold
<1>1. Init => Amounts(M)
  <2> SUFFICES ASSUME Init PROVE Amounts(M)
    OBVIOUS
  <2>1. DOMAIN stock = {}
    BY DEF Init, EmptyBook
  <2>2. Sent = {} /\ Unread = {} /\ At(Unanswered) = {}
    BY DEF Init, Sent, Unread, At, Unanswered
  <2> QED  BY <2>1, <2>2, FS_EmptySet DEF Amounts, Done
<1>2. ServerInv /\ Amounts(M) /\ [Next]_vars => Amounts(M)'
  BY AmountsNext
<1>3. Amounts(M) => NeverOversold
  <2> SUFFICES ASSUME Amounts(M), NEW k \in DOMAIN stock PROVE stock[k] >= 0
    BY DEF NeverOversold
  <2> QED  BY DEF Amounts
<1> QED  BY <1>1, <1>2, <1>3, ServerInvariant, PTL DEF Spec

-----------------------------------------------------------------------------
(***************************************************************************)
(* The refinement of StockBook: each request takes effect in one step of   *)
(* one thread, and a show is the whole book at one moment.                 *)
(***************************************************************************)

\* The book as the server has it, and what each client sees.
BookNow == [k \in Keys |-> IF k \in DOMAIN stock THEN stock[k] ELSE InitStock[k]]
AskedNow == [c \in Conns |-> Pending(c)]
ReplyNow == [c \in Conns |-> Replied(c)]

\* A client sees what its connection holds, or what the one worker that works on
\* its request has.
Worked(w, c) == held[w] = c /\ cur[w] # None

ClientView(c) ==
    /\ \A w \in Workers : Worked(w, c) =>
         /\ Pending(c) = (IF res[w] = None THEN cur[w] ELSE None)
         /\ Replied(c) = res[w] /\ inbox[c] = None /\ outbox[c] = None
    /\ (\A w \in Workers : ~Worked(w, c)) =>
         Pending(c) = inbox[c] /\ Replied(c) = outbox[c]

Views == \A c \in Conns : ClientView(c)

LEMMA TheView == ServerInv => Views
<1> SUFFICES ASSUME ServerInv, NEW c \in Conns PROVE ClientView(c)
  BY DEF Views
<1>1. TypeOK /\ Placed /\ Lifecycle
  BY DEF ServerInv
<1>2. ASSUME NEW w \in Workers, Worked(w, c)
      PROVE  /\ Pending(c) = (IF res[w] = None THEN cur[w] ELSE None)
             /\ Replied(c) = res[w] /\ inbox[c] = None /\ outbox[c] = None
  <2>1. inbox[c] = None /\ outbox[c] = None
    BY <1>1, <1>2 DEF Lifecycle, WorkerLife, Worked
  <2>2. Serving(c) = {w}
    BY <1>1, <1>2, StockServerAssumption DEF Placed, Serving, Worked
  <2>3. Server(c) = w
    BY <2>2 DEF Server
  <2> QED  BY <2>1, <2>2, <2>3 DEF Pending, Replied
<1>3. ASSUME \A w \in Workers : ~Worked(w, c)
      PROVE  Pending(c) = inbox[c] /\ Replied(c) = outbox[c]
  <2>1. Serving(c) = {}
    BY <1>3 DEF Serving, Worked
  <2> QED  BY <2>1 DEF Pending, Replied
<1> QED  BY <1>2, <1>3 DEF ClientView

LEMMA TheViewNext == ServerInv' => Views'
BY TheView, PTL

-----------------------------------------------------------------------------
(* Steps of the book *)

\* What a step of the server is to the book.
BookStep == Book!Next \/ UNCHANGED Book!vars

\* A step that changes nothing that a client or the book sees.
LEMMA Unseen ==
    ASSUME BookNow' = BookNow,
           \A c \in Conns : Pending(c)' = Pending(c) /\ Replied(c)' = Replied(c)
    PROVE  BookStep
  BY DEF BookStep, Book!vars, BookNow

\* Who works for whom depends on these variables only.
LEMMA UnseenVars ==
    ASSUME BookNow' = BookNow, UNCHANGED <<inbox, outbox, res>>,
           \A w \in Workers : cur'[w] = cur[w] /\ (cur[w] # None => held'[w] = held[w])
    PROVE  BookStep
<1>1. \A c \in Conns : Serving(c)' = Serving(c)
  BY DEF Serving
<1>2. \A c \in Conns : Server(c)' = Server(c)
  BY <1>1 DEF Server
<1>3. \A c \in Conns : Serving(c) # {} => Server(c) \in Workers
  BY DEF Server, Serving
<1>4. ASSUME NEW c \in Conns PROVE Pending(c)' = Pending(c) /\ Replied(c)' = Replied(c)
  BY <1>1, <1>2, <1>3 DEF Pending, Replied
<1> QED  BY <1>4, Unseen

\* A step of one worker is seen by its own client only.
LEMMA OneWorkerSeen ==
    ASSUME NEW w \in Workers, held' = held,
           \A v \in Workers : v # w => cur'[v] = cur[v] /\ res'[v] = res[v],
           \A d \in Conns : d # held[w] => inbox'[d] = inbox[d] /\ outbox'[d] = outbox[d]
    PROVE  \A d \in Conns : d # held[w] =>
              Pending(d)' = Pending(d) /\ Replied(d)' = Replied(d)
<1> SUFFICES ASSUME NEW d \in Conns, d # held[w]
             PROVE  Pending(d)' = Pending(d) /\ Replied(d)' = Replied(d)
  OBVIOUS
<1>1. Serving(d)' = Serving(d)
  BY DEF Serving
<1>2. Server(d)' = Server(d)
  BY <1>1 DEF Server
<1>3. Serving(d) # {} => Server(d) \in Workers \ {w}
  BY DEF Server, Serving
<1> QED  BY <1>1, <1>2, <1>3 DEF Pending, Replied

\* A step of one client, or of what is sent to it, is seen by that client only.
LEMMA OneClientSeen ==
    ASSUME NEW c \in Conns, UNCHANGED <<held, cur, res>>,
           \A d \in Conns : d # c => inbox'[d] = inbox[d] /\ outbox'[d] = outbox[d]
    PROVE  \A d \in Conns : d # c =>
              Pending(d)' = Pending(d) /\ Replied(d)' = Replied(d)
<1> SUFFICES ASSUME NEW d \in Conns, d # c
             PROVE  Pending(d)' = Pending(d) /\ Replied(d)' = Replied(d)
  OBVIOUS
<1>1. Serving(d)' = Serving(d)
  BY DEF Serving
<1>2. Server(d)' = Server(d)
  BY <1>1 DEF Server
<1>3. Serving(d) # {} => Server(d) \in Workers
  BY DEF Server, Serving
<1> QED  BY <1>1, <1>2, <1>3 DEF Pending, Replied

\* The book as its own module sees one connection's step.
LEMMA SeenByOne ==
    ASSUME NEW c \in Conns,
           \A d \in Conns : d # c => Pending(d)' = Pending(d) /\ Replied(d)' = Replied(d)
    PROVE  /\ AskedNow' = [AskedNow EXCEPT ![c] = Pending(c)']
           /\ ReplyNow' = [ReplyNow EXCEPT ![c] = Replied(c)']
           /\ AskedNow[c] = Pending(c) /\ ReplyNow[c] = Replied(c)
           /\ Pending(c)' = Pending(c) => AskedNow' = AskedNow
           /\ Replied(c)' = Replied(c) => ReplyNow' = ReplyNow
<1> DEFINE p(d) == Pending(d)'
           r(d) == Replied(d)'
<1>1. AskedNow' = [d \in Conns |-> p(d)] /\ ReplyNow' = [d \in Conns |-> r(d)]
  BY DEF AskedNow, ReplyNow
<1>2. \A d \in Conns : d # c => p(d) = AskedNow[d] /\ r(d) = ReplyNow[d]
  BY DEF AskedNow, ReplyNow
<1>3. AskedNow = [d \in Conns |-> AskedNow[d]] /\ ReplyNow = [d \in Conns |-> ReplyNow[d]]
  BY DEF AskedNow, ReplyNow
<1>4. AskedNow[c] = Pending(c) /\ ReplyNow[c] = Replied(c)
  BY DEF AskedNow, ReplyNow
<1> HIDE DEF p, r
<1>5. /\ AskedNow' = [AskedNow EXCEPT ![c] = p(c)]
      /\ ReplyNow' = [ReplyNow EXCEPT ![c] = r(c)]
      /\ p(c) = AskedNow[c] => AskedNow' = AskedNow
      /\ r(c) = ReplyNow[c] => ReplyNow' = ReplyNow
  BY <1>1, <1>2, <1>3
<1> QED  BY <1>4, <1>5 DEF p, r

\* The five ways in which a request gets on: it is sent, it takes effect with a
\* reply and no change of the book, or with one, or with neither, and its reply
\* is received or dropped.
LEMMA AskStep ==
    ASSUME NEW c \in Conns,
           \A d \in Conns : d # c => Pending(d)' = Pending(d) /\ Replied(d)' = Replied(d),
           BookNow' = BookNow, Pending(c) = None, Replied(c) = None,
           Pending(c)' \in Requests, Replied(c)' = None
    PROVE  BookStep
<1>1. /\ AskedNow' = [AskedNow EXCEPT ![c] = Pending(c)'] /\ AskedNow[c] = None
      /\ ReplyNow' = ReplyNow /\ ReplyNow[c] = None
  BY SeenByOne
<1>2. Book!Ask(c)
  BY <1>1 DEF Book!Ask, BookNow, AskedNow, ReplyNow
<1> QED  BY <1>2 DEF BookStep, Book!Next

LEMMA ShowStep ==
    ASSUME NEW c \in Conns,
           \A d \in Conns : d # c => Pending(d)' = Pending(d) /\ Replied(d)' = Replied(d),
           BookNow' = BookNow, Pending(c) # None, Pending(c)' = None,
           Pending(c).op = "show", Replied(c)' = ShowAnswer(BookNow)
    PROVE  BookStep
<1>1. /\ AskedNow' = [AskedNow EXCEPT ![c] = None]
      /\ AskedNow[c] # None /\ AskedNow[c].op = "show"
      /\ ReplyNow' = [ReplyNow EXCEPT ![c] = ShowAnswer(BookNow)]
  BY SeenByOne
<1>2. Book!Show(c)
  BY <1>1 DEF Book!Show, Book!Take, Book!ShowAnswer, ShowAnswer, BookNow, AskedNow, ReplyNow
<1> QED  BY <1>2 DEF BookStep, Book!Next

LEMMA TradeStep ==
    ASSUME NEW c \in Conns, NEW r,
           \A d \in Conns : d # c => Pending(d)' = Pending(d) /\ Replied(d)' = Replied(d),
           Pending(c) = r, r # None, Pending(c)' = None,
           r.op \in {"buy", "sell"}, r.key \in Keys,
           BookNow' = [BookNow EXCEPT ![r.key] = NewLeft(r, BookNow[r.key])],
           Replied(c)' = Answer(Verdict(r, BookNow[r.key]))
    PROVE  BookStep
<1>1. /\ AskedNow' = [AskedNow EXCEPT ![c] = None] /\ AskedNow[c] = r
      /\ ReplyNow' = [ReplyNow EXCEPT ![c] = Answer(Verdict(r, BookNow[r.key]))]
  BY SeenByOne
<1>2. Book!Take(c)
  BY <1>1 DEF Book!Take, AskedNow
<1>3. Book!Trade(c)
  BY <1>1, <1>2
  DEF Book!Trade, Book!Answer, Answer, Book!EmptyBook, EmptyBook, Book!Verdict, Verdict,
      Book!NewLeft, NewLeft, Book!Wrap, Wrap, BookNow, AskedNow, ReplyNow
<1> QED  BY <1>3 DEF BookStep, Book!Next

LEMMA RefuseStep ==
    ASSUME NEW c \in Conns,
           \A d \in Conns : d # c => Pending(d)' = Pending(d) /\ Replied(d)' = Replied(d),
           BookNow' = BookNow, Pending(c) # None, Pending(c)' = None,
           \/ /\ Pending(c).op \in {"buy", "sell"} /\ Pending(c).key \notin Keys
              /\ Replied(c)' = Answer("nosuch")
           \/ Pending(c).op = "invalid" /\ Replied(c)' = Answer("invalid")
    PROVE  BookStep
<1>1. /\ AskedNow' = [AskedNow EXCEPT ![c] = None] /\ AskedNow[c] # None
      /\ \/ /\ AskedNow[c].op \in {"buy", "sell"} /\ AskedNow[c].key \notin Keys
            /\ ReplyNow' = [ReplyNow EXCEPT ![c] = Answer("nosuch")]
         \/ /\ AskedNow[c].op = "invalid"
            /\ ReplyNow' = [ReplyNow EXCEPT ![c] = Answer("invalid")]
  BY SeenByOne
<1>2. Book!Refuse(c)
  BY <1>1
  DEF Book!Refuse, Book!Take, Book!Answer, Answer, Book!EmptyBook, EmptyBook, BookNow,
      AskedNow, ReplyNow
<1> QED  BY <1>2 DEF BookStep, Book!Next

LEMMA ExitStep ==
    ASSUME NEW c \in Conns,
           \A d \in Conns : d # c => Pending(d)' = Pending(d) /\ Replied(d)' = Replied(d),
           BookNow' = BookNow, Pending(c) # None, Pending(c)' = None,
           Pending(c).op = "exit", Replied(c)' = Replied(c)
    PROVE  BookStep
<1>1. /\ AskedNow' = [AskedNow EXCEPT ![c] = None] /\ AskedNow[c] # None
      /\ AskedNow[c].op = "exit" /\ ReplyNow' = ReplyNow
  BY SeenByOne
<1>2. Book!Exit(c)
  BY <1>1 DEF Book!Exit, Book!Take, BookNow, AskedNow, ReplyNow
<1> QED  BY <1>2 DEF BookStep, Book!Next

LEMMA ReceiveStep ==
    ASSUME NEW c \in Conns,
           \A d \in Conns : d # c => Pending(d)' = Pending(d) /\ Replied(d)' = Replied(d),
           BookNow' = BookNow, Pending(c)' = Pending(c), Replied(c) # None,
           Replied(c)' = None
    PROVE  BookStep
<1>1. /\ AskedNow' = AskedNow /\ ReplyNow[c] # None
      /\ ReplyNow' = [ReplyNow EXCEPT ![c] = None]
  BY SeenByOne
<1>2. Book!Receive(c)
  BY <1>1 DEF Book!Receive, BookNow, AskedNow, ReplyNow
<1> QED  BY <1>2 DEF BookStep, Book!Next

-----------------------------------------------------------------------------
(* Steps of the server *)

\* What the client of a worker sees before and after a step that leaves the
\* worker its connection.
LEMMA WorkerView ==
    ASSUME ServerInv, ServerInv', NEW w \in Workers, pc[w] # "remove", held' = held
    PROVE  \E c \in Conns :
             /\ held[w] = c
             /\ cur[w] # None => /\ Pending(c) = (IF res[w] = None THEN cur[w] ELSE None)
                                 /\ Replied(c) = res[w]
             /\ cur[w] = None => Pending(c) = inbox[c] /\ Replied(c) = outbox[c]
             /\ cur'[w] # None => /\ Pending(c)' = (IF res'[w] = None THEN cur'[w] ELSE None)
                                  /\ Replied(c)' = res'[w]
             /\ cur'[w] = None => Pending(c)' = inbox'[c] /\ Replied(c)' = outbox'[c]
<1>1. PICK c \in Conns : held[w] = c
  BY HeldAlone DEF ServerInv
<1>2. \A v \in Workers : v # w => held[v] # c
  BY <1>1, HeldAlone DEF ServerInv
<1>3. ClientView(c) /\ ClientView(c)'
  BY TheView, TheViewNext DEF Views
<1>4. \A v \in Workers : /\ Worked(v, c) <=> v = w /\ cur[w] # None
                         /\ Worked(v, c)' <=> v = w /\ cur'[w] # None
  BY <1>1, <1>2 DEF Worked
<1> QED  BY <1>1, <1>3, <1>4 DEF ClientView

\* The branch of a request that was counted: an exit takes effect, and what is
\* invalid is refused.
LEMMA CntUnlockBook ==
    ASSUME ServerInv, ServerInv', NEW w \in Workers, CntUnlock(w)
    PROVE  BookStep
<1>1. /\ pc[w] = "cnt_unlock" /\ UNCHANGED <<stock, held, inbox, outbox>>
      /\ cur' = [cur EXCEPT ![w] = IF cur[w].op = "exit" THEN None ELSE cur[w]]
      /\ res' = [res EXCEPT ![w] = IF cur[w].op = "invalid" THEN Answer("invalid") ELSE res[w]]
  BY DEF CntUnlock, Goto, tree, rest, net
<1>2. TypeOK /\ Lifecycle
  BY DEF ServerInv
<1>3. /\ cur[w] # None /\ res[w] = None /\ inbox[held[w]] = None /\ outbox[held[w]] = None
  BY <1>1, <1>2 DEF Lifecycle, WorkerLife, Busy, Unanswered, Answered
<1>4. PICK c \in Conns :
             /\ held[w] = c
             /\ cur[w] # None => /\ Pending(c) = (IF res[w] = None THEN cur[w] ELSE None)
                                 /\ Replied(c) = res[w]
             /\ cur'[w] # None => /\ Pending(c)' = (IF res'[w] = None THEN cur'[w] ELSE None)
                                  /\ Replied(c)' = res'[w]
             /\ cur'[w] = None => Pending(c)' = inbox'[c] /\ Replied(c)' = outbox'[c]
  BY <1>1, WorkerView
<1>5. \A d \in Conns : d # c => Pending(d)' = Pending(d) /\ Replied(d)' = Replied(d)
  BY <1>1, <1>2, <1>4, OneWorkerSeen, LifeTypes
<1>6. /\ BookNow' = BookNow
      /\ cur'[w] = IF cur[w].op = "exit" THEN None ELSE cur[w]
      /\ res'[w] = IF cur[w].op = "invalid" THEN Answer("invalid") ELSE None
  BY <1>1, <1>2, <1>3, LifeTypes DEF BookNow
<1>7. Answer("invalid") # None
  BY AnswersAreReplies
<1>8. CASE cur[w].op = "exit"
  <2>1. /\ Pending(c) # None /\ Pending(c)' = None /\ Pending(c).op = "exit"
        /\ Replied(c)' = Replied(c)
    BY <1>1, <1>3, <1>4, <1>6, <1>8
  <2> QED  BY <1>5, <1>6, <2>1, ExitStep
<1>9. CASE cur[w].op = "invalid"
  <2>1. /\ Pending(c) # None /\ Pending(c)' = None /\ Pending(c).op = "invalid"
        /\ Replied(c)' = Answer("invalid")
    BY <1>3, <1>4, <1>6, <1>7, <1>9
  <2> QED  BY <1>5, <1>6, <2>1, RefuseStep
<1>10. CASE cur[w].op # "exit" /\ cur[w].op # "invalid"
  <2>1. \A d \in Conns : Pending(d)' = Pending(d) /\ Replied(d)' = Replied(d)
    BY <1>3, <1>4, <1>5, <1>6, <1>10
  <2> QED  BY <1>6, <2>1, Unseen
<1> QED  BY <1>8, <1>9, <1>10

\* A request that is read off its connection is still pending.
LEMMA ReqBook ==
    ASSUME ServerInv, ServerInv', NEW w \in Workers, Req(w)
    PROVE  BookStep
<1>1. /\ pc[w] = "req" /\ UNCHANGED <<stock, held, res, outbox>>
      /\ inbox[held[w]] # None
      /\ cur' = [cur EXCEPT ![w] = inbox[held[w]]]
      /\ inbox' = [inbox EXCEPT ![held[w]] = None]
  BY DEF Req, Goto, tree
<1>2. TypeOK /\ Lifecycle
  BY DEF ServerInv
<1>3. cur[w] = None /\ res[w] = None
  BY <1>1, <1>2 DEF Lifecycle, WorkerLife, Busy, Unanswered, Answered
<1>4. PICK c \in Conns :
             /\ held[w] = c
             /\ cur[w] = None => Pending(c) = inbox[c] /\ Replied(c) = outbox[c]
             /\ cur'[w] # None => /\ Pending(c)' = (IF res'[w] = None THEN cur'[w] ELSE None)
                                  /\ Replied(c)' = res'[w]
  BY <1>1, WorkerView
<1>5. \A d \in Conns : d # c => Pending(d)' = Pending(d) /\ Replied(d)' = Replied(d)
  BY <1>1, <1>2, <1>4, OneWorkerSeen, LifeTypes
<1>6. outbox[c] = None
  BY <1>1, <1>2, <1>4 DEF Lifecycle, ClientLife
<1>7. cur'[w] = inbox[c] /\ res'[w] = None
  BY <1>1, <1>2, <1>3, <1>4, LifeTypes
<1>8. \A d \in Conns : Pending(d)' = Pending(d) /\ Replied(d)' = Replied(d)
  BY <1>1, <1>3, <1>4, <1>5, <1>6, <1>7
<1> QED  BY <1>1, <1>8, Unseen DEF BookNow

\* A worker that has its request and no reply, and the step that makes one.
LEMMA CommitView ==
    ASSUME ServerInv, ServerInv', NEW w \in Workers, pc[w] \in Unanswered,
           UNCHANGED <<held, cur, inbox, outbox>>,
           NEW r, res' = [res EXCEPT ![w] = r], r # None
    PROVE  \E c \in Conns :
             /\ \A d \in Conns : d # c => Pending(d)' = Pending(d) /\ Replied(d)' = Replied(d)
             /\ Pending(c) = cur[w] /\ cur[w] # None /\ Pending(c)' = None
             /\ Replied(c)' = r
<1>1. TypeOK /\ Lifecycle
  BY DEF ServerInv
<1>2. cur[w] # None /\ res[w] = None /\ pc[w] # "remove"
  BY <1>1 DEF Lifecycle, WorkerLife, Busy, Unanswered, Answered
<1>3. PICK c \in Conns :
             /\ held[w] = c
             /\ cur[w] # None => /\ Pending(c) = (IF res[w] = None THEN cur[w] ELSE None)
                                 /\ Replied(c) = res[w]
             /\ cur'[w] # None => /\ Pending(c)' = (IF res'[w] = None THEN cur'[w] ELSE None)
                                  /\ Replied(c)' = res'[w]
  BY <1>2, WorkerView
<1>4. \A d \in Conns : d # c => Pending(d)' = Pending(d) /\ Replied(d)' = Replied(d)
  BY <1>1, <1>3, OneWorkerSeen, LifeTypes
<1>5. res'[w] = r
  BY <1>1, LifeTypes
<1> QED  BY <1>2, <1>3, <1>4, <1>5

\* A show takes effect when its last node is printed: what was printed before is
\* still what the book holds.
LEMMA ReadScanBook ==
    ASSUME ServerInv, ServerInv', NEW w \in Workers, ReadScan(w)
    PROVE  BookStep
<1>1. /\ pc[w] = "r_scan" /\ UNCHANGED <<stock, held, cur, inbox, outbox>>
  BY DEF ReadScan, Goto, tree, rest, net
<1>2. TypeOK /\ TreeData /\ Lifecycle
  BY DEF ServerInv
<1>3. PICK S \in SUBSET Keys :
        LET book == [k \in S |-> stock[k]] IN
        /\ DOMAIN stock = Keys
        /\ S = Keys => res' = [res EXCEPT ![w] = ShowAnswer(book)]
        /\ S # Keys => res' = [res EXCEPT ![w] = None]
        /\ ShowAnswer(book) \in Replies
  BY <1>2, ScanFacts
<1>4. CASE S = Keys
  <2>1. /\ res' = [res EXCEPT ![w] = ShowAnswer(BookNow)] /\ ShowAnswer(BookNow) # None
        /\ BookNow' = BookNow
    BY <1>1, <1>2, <1>3, <1>4, LifeTypes DEF BookNow
  <2>2. pc[w] \in Unanswered /\ cur[w].op = "show"
    BY <1>1, <1>2 DEF Lifecycle, WorkerLife, Unanswered, Showing
  <2>3. PICK c \in Conns :
             /\ \A d \in Conns : d # c => Pending(d)' = Pending(d) /\ Replied(d)' = Replied(d)
             /\ Pending(c) = cur[w] /\ cur[w] # None /\ Pending(c)' = None
             /\ Replied(c)' = ShowAnswer(BookNow)
    BY <1>1, <2>1, <2>2, CommitView
  <2> QED  BY <2>1, <2>2, <2>3, ShowStep
<1>5. CASE S # Keys
  <2>1. res[w] = None
    BY <1>1, <1>2 DEF Lifecycle, WorkerLife, Answered
  <2>2. res' = res
    BY <1>2, <1>3, <1>5, <2>1, LifeTypes
  <2> QED  BY <1>1, <2>2, UnseenVars DEF BookNow
<1> QED  BY <1>4, <1>5

\* A buy or a sell that is refused: there is no such stock, or too little left.
LEMMA WriteRefuseBook ==
    ASSUME ServerInv, ServerInv', NEW w \in Workers, WriteRefuse(w)
    PROVE  BookStep
<1>1. /\ pc[w] = "w_find" /\ UNCHANGED <<stock, held, cur, inbox, outbox>>
  BY DEF WriteRefuse, Goto, tree, rest, net
<1>2. TypeOK /\ TreeData /\ Lifecycle
  BY DEF ServerInv
<1>3. /\ pc[w] \in Unanswered /\ cur[w].op \in {"buy", "sell"} /\ BookNow' = BookNow
  BY <1>1, <1>2 DEF Lifecycle, WorkerLife, Unanswered, Trading, BookNow
<1>4. mpc # "load" /\ DOMAIN stock = Keys
  BY <1>1, <1>2 DEF TreeData
<1>5. CASE cur[w].key \notin Keys
  <2>1. res' = [res EXCEPT ![w] = Answer("nosuch")] /\ Answer("nosuch") # None
    BY <1>4, <1>5, AnswersAreReplies DEF WriteRefuse
  <2>2. PICK c \in Conns :
             /\ \A d \in Conns : d # c => Pending(d)' = Pending(d) /\ Replied(d)' = Replied(d)
             /\ Pending(c) = cur[w] /\ cur[w] # None /\ Pending(c)' = None
             /\ Replied(c)' = Answer("nosuch")
    BY <1>1, <1>3, <2>1, CommitView
  <2> QED  BY <1>3, <1>5, <2>2, RefuseStep
<1>6. CASE cur[w].key \in Keys
  <2>1. /\ res' = [res EXCEPT ![w] = Answer("short")] /\ Answer("short") # None
        /\ cur[w].op = "buy" /\ stock[cur[w].key] < cur[w].n
    BY <1>4, <1>6, AnswersAreReplies DEF WriteRefuse
  <2>2. PICK c \in Conns :
             /\ \A d \in Conns : d # c => Pending(d)' = Pending(d) /\ Replied(d)' = Replied(d)
             /\ Pending(c) = cur[w] /\ cur[w] # None /\ Pending(c)' = None
             /\ Replied(c)' = Answer("short")
    BY <1>1, <1>3, <2>1, CommitView
  <2>3. BookNow[cur[w].key] = stock[cur[w].key]
    BY <1>4, <1>6 DEF BookNow
  <2>4. Verdict(cur[w], BookNow[cur[w].key]) = "short"
    BY <2>1, <2>3 DEF Verdict
  <2>5. NewLeft(cur[w], BookNow[cur[w].key]) = BookNow[cur[w].key]
    BY <2>4 DEF NewLeft
  <2>6. BookNow' = [BookNow EXCEPT ![cur[w].key] = NewLeft(cur[w], BookNow[cur[w].key])]
    <3>1. BookNow = [BookNow EXCEPT ![cur[w].key] = BookNow[cur[w].key]]
      BY <1>6 DEF BookNow
    <3> QED  BY <1>3, <2>5, <3>1
  <2>7. PICK r : r = cur[w]
    OBVIOUS
  <2>8. /\ Pending(c) = r /\ r # None /\ r.op \in {"buy", "sell"} /\ r.key \in Keys
        /\ BookNow' = [BookNow EXCEPT ![r.key] = NewLeft(r, BookNow[r.key])]
        /\ Replied(c)' = Answer(Verdict(r, BookNow[r.key]))
    BY <1>3, <1>6, <2>2, <2>4, <2>6, <2>7
  <2> QED  BY <2>2, <2>8, TradeStep
<1> QED  BY <1>5, <1>6

\* A buy or a sell that goes through: the number loaded is still the book's.
LEMMA WriteStoreBook ==
    ASSUME ServerInv, ServerInv', NEW w \in Workers, WriteStore(w)
    PROVE  BookStep
<1>1. /\ pc[w] = "w_store" /\ UNCHANGED <<held, cur, inbox, outbox>>
      /\ stock' = [stock EXCEPT ![cur[w].key] =
                     IF cur[w].op = "buy" THEN Wrap(reg[w] - cur[w].n)
                                          ELSE Wrap(reg[w] + cur[w].n)]
      /\ res' = [res EXCEPT ![w] = Answer("success")]
  BY DEF WriteStore, Goto, rest, net
<1>2. TypeOK /\ TreeData /\ Lifecycle
  BY DEF ServerInv
<1>3. /\ pc[w] \in Unanswered /\ cur[w].op \in {"buy", "sell"}
  BY <1>1, <1>2 DEF Lifecycle, WorkerLife, Unanswered, Trading
<1>4. /\ DOMAIN stock = Keys /\ cur[w].key \in Keys /\ reg[w] = stock[cur[w].key]
      /\ cur[w].op = "buy" => cur[w].n <= reg[w]
  BY <1>1, <1>2 DEF TreeData, WorkerData
<1>5. PICK c \in Conns :
             /\ \A d \in Conns : d # c => Pending(d)' = Pending(d) /\ Replied(d)' = Replied(d)
             /\ Pending(c) = cur[w] /\ cur[w] # None /\ Pending(c)' = None
             /\ Replied(c)' = Answer("success")
  BY <1>1, <1>3, CommitView, AnswersAreReplies
<1>6. PICK r \in Requests : r = cur[w]
  BY <1>2, <1>5, LifeTypes
<1>7. BookNow[r.key] = reg[w] /\ reg[w] \in Int /\ r.n \in Int
  BY <1>2, <1>4, <1>6, LifeTypes DEF BookNow, TypeOK
<1>8. Verdict(r, BookNow[r.key]) = "success"
  BY <1>4, <1>6, <1>7 DEF Verdict
<1>9. NewLeft(r, BookNow[r.key]) = IF r.op = "buy" THEN Wrap(reg[w] - r.n)
                                                   ELSE Wrap(reg[w] + r.n)
  BY <1>7, <1>8 DEF NewLeft
<1>10. BookNow = stock /\ BookNow' = stock'
  <2>1. DOMAIN stock' = Keys
    BY <1>1, <1>4
  <2>2. stock = [k \in Keys |-> stock[k]] /\ stock' = [k \in Keys |-> stock'[k]]
    <3>1. stock \in Books /\ stock = [k \in DOMAIN stock |-> stock[k]]
      BY <1>2, BooksAre DEF TypeOK
    <3> QED  BY <1>1, <1>4, <3>1, <2>1
  <2> QED  BY <1>4, <2>1, <2>2 DEF BookNow
<1>11. BookNow' = [BookNow EXCEPT ![r.key] = NewLeft(r, BookNow[r.key])]
  BY <1>1, <1>6, <1>9, <1>10
<1>12. /\ Pending(c) = r /\ r # None /\ r.op \in {"buy", "sell"} /\ r.key \in Keys
       /\ Replied(c)' = Answer(Verdict(r, BookNow[r.key]))
  BY <1>3, <1>4, <1>5, <1>6, <1>8
<1> QED  BY <1>5, <1>11, <1>12, TradeStep

\* A reply that is sent is still to be received; to a client that is gone it is
\* dropped.
LEMMA SendReplyBook ==
    ASSUME ServerInv, ServerInv', NEW w \in Workers, WriteRes(w) \/ Res(w)
    PROVE  BookStep
<1>1. /\ pc[w] \in {"w_res", "res"} /\ UNCHANGED <<stock, held, inbox>>
      /\ outbox' = [outbox EXCEPT ![held[w]] =
                      IF client[held[w]] = "waiting" THEN res[w] ELSE None]
      /\ cur' = [cur EXCEPT ![w] = None] /\ res' = [res EXCEPT ![w] = None]
  BY DEF WriteRes, Res, SendReply, Goto, tree
<1>2. TypeOK /\ Lifecycle
  BY DEF ServerInv
<1>3. cur[w] # None /\ res[w] # None /\ inbox[held[w]] = None
  BY <1>1, <1>2 DEF Lifecycle, WorkerLife, Busy, Answered
<1>4. PICK c \in Conns :
             /\ held[w] = c
             /\ cur[w] # None => /\ Pending(c) = (IF res[w] = None THEN cur[w] ELSE None)
                                 /\ Replied(c) = res[w]
             /\ cur'[w] = None => Pending(c)' = inbox'[c] /\ Replied(c)' = outbox'[c]
  BY <1>1, WorkerView
<1>5. \A d \in Conns : d # c => Pending(d)' = Pending(d) /\ Replied(d)' = Replied(d)
  BY <1>1, <1>2, <1>4, OneWorkerSeen, LifeTypes
<1>6. /\ cur'[w] = None /\ outbox'[c] = IF client[c] = "waiting" THEN res[w] ELSE None
  BY <1>1, <1>2, <1>4, LifeTypes
<1>7. Pending(c) = None /\ Pending(c)' = None /\ Replied(c) = res[w] /\ BookNow' = BookNow
  BY <1>1, <1>3, <1>4, <1>6 DEF BookNow
<1>8. CASE client[c] = "waiting"
  <2>1. \A d \in Conns : Pending(d)' = Pending(d) /\ Replied(d)' = Replied(d)
    BY <1>4, <1>5, <1>6, <1>7, <1>8
  <2> QED  BY <1>7, <2>1, Unseen
<1>9. CASE client[c] # "waiting"
  <2>1. Replied(c)' = None /\ Replied(c) # None /\ Pending(c)' = Pending(c)
    BY <1>3, <1>4, <1>6, <1>7, <1>9
  <2> QED  BY <1>5, <1>7, <2>1, ReceiveStep
<1> QED  BY <1>8, <1>9

\* The steps of a worker that no client sees.
LEMMA QuietWorkerBook ==
    ASSUME ServerInv, NEW w \in Workers, Worker(w),
           ~Req(w), ~CntUnlock(w), ~ReadScan(w), ~WriteRefuse(w), ~WriteStore(w),
           ~WriteRes(w), ~Res(w)
    PROVE  BookStep
<1>1. TypeOK /\ Lifecycle
  BY DEF ServerInv
<1>2. UNCHANGED <<stock, cur, res, outbox>>
  BY DEF Worker, SbufRemove, Once, ReqEof, ReqReset, CntLock, CntLoad, CntStore, Show,
         ReadLockIn, ReadEnter, ReadFirst, ReadUnlockIn, ReadLockOut, ReadLeave, ReadLast,
         ReadUnlockOut, Write, WriteLock, WriteFind, WriteLoad, WriteUnlock, CloseConn,
         tree, locals, rest, net
<1>3. BookNow' = BookNow
  BY <1>2 DEF BookNow
<1>4. CASE SbufRemove(w) \/ CloseConn(w)
  <2>1. /\ pc[w] \in {"remove", "close"} /\ \E c : held' = [held EXCEPT ![w] = c]
        /\ inbox' = inbox \/ inbox' = [inbox EXCEPT ![held[w]] = None]
        /\ pc[w] = "remove" => inbox' = inbox
    BY <1>4 DEF SbufRemove, CloseConn, Goto, Sbuf!Take, Sbuf!Release, net
  <2>2. cur[w] = None /\ (pc[w] = "close" => inbox[held[w]] = None)
    BY <1>1, <2>1 DEF Lifecycle, WorkerLife, Busy, Unanswered, Answered
  <2>3. inbox' = inbox
    BY <1>1, <2>1, <2>2, LifeTypes
  <2>4. \A v \in Workers : cur[v] # None => held'[v] = held[v]
    BY <1>1, <2>1, <2>2, LifeTypes
  <2> QED  BY <1>2, <1>3, <2>3, <2>4, UnseenVars
<1>5. CASE ~SbufRemove(w) /\ ~CloseConn(w)
  <2>1. UNCHANGED <<held, inbox>>
    BY <1>5
    DEF Worker, Once, ReqEof, ReqReset, CntLock, CntLoad, CntStore, Show, ReadLockIn,
        ReadEnter, ReadFirst, ReadUnlockIn, ReadLockOut, ReadLeave, ReadLast,
        ReadUnlockOut, Write, WriteLock, WriteFind, WriteLoad, WriteUnlock, rest, net
  <2> QED  BY <1>2, <1>3, <2>1, UnseenVars
<1> QED  BY <1>4, <1>5

\* The steps of main: the book holds what the file held while it is loaded.
LEMMA MainBook ==
    ASSUME ServerInv, Main
    PROVE  BookStep
<1>1. UNCHANGED <<held, inbox, outbox, cur, res>>
  BY DEF Main, Load, Listen, Accept, SbufInsert, Sbuf!Put, locals, rest, net
<1>2. BookNow' = BookNow
  <2>1. CASE Load
    <3>1. PICK k \in Keys \ DOMAIN stock : stock' = Extend(stock, k, stock_txt[k])
      BY <2>1 DEF Load
    <3>2. stock_txt = InitStock
      BY <2>1 DEF Load, Running, TreeData, ServerInv
    <3>3. DOMAIN stock' = DOMAIN stock \cup {k}
          /\ \A x \in DOMAIN stock' : stock'[x] = IF x = k THEN InitStock[k] ELSE stock[x]
      BY <3>1, <3>2 DEF Extend
    <3> QED  BY <3>1, <3>3 DEF BookNow
  <2>2. CASE ~Load
    BY <2>2 DEF Main, Listen, Accept, SbufInsert, tree, BookNow
  <2> QED  BY <2>1, <2>2
<1> QED  BY <1>1, <1>2, UnseenVars

\* The steps of a client.
LEMMA ClientBook ==
    ASSUME ServerInv, ServerInv', NEW c \in Conns, Client(c)
    PROVE  BookStep
<1>1. UNCHANGED <<stock, held, cur, res>>
  BY DEF Client, Connect, Send, Receive, Leave, Abort, tree, locals
<1>2. TypeOK /\ Lifecycle
  BY DEF ServerInv
<1>3. BookNow' = BookNow
  BY <1>1 DEF BookNow
<1>4. ClientView(c) /\ ClientView(c)'
  BY TheView, TheViewNext DEF Views
<1>5. \A w \in Workers : Worked(w, c)' <=> Worked(w, c)
  BY <1>1 DEF Worked
<1>6. \A w \in Workers : Worked(w, c) =>
        client[c] \in {"waiting", "killed"} /\ inbox[c] = None /\ outbox[c] = None
  BY <1>2 DEF Worked, Lifecycle, WorkerLife
<1>7. CASE Connect(c) \/ Leave(c)
  BY <1>1, <1>3, <1>7, UnseenVars DEF Connect, Leave
<1>8. CASE Send(c)
  <2>1. /\ client[c] = "idle" /\ outbox' = outbox
        /\ \E r \in Requests : inbox' = [inbox EXCEPT ![c] = r]
    BY <1>8 DEF Send
  <2>2. inbox'[c] \in Requests /\ \A d \in Conns : d # c => inbox'[d] = inbox[d]
    BY <1>2, <2>1, LifeTypes
  <2>3. inbox[c] = None /\ outbox[c] = None /\ \A w \in Workers : ~Worked(w, c)
    BY <1>2, <1>6, <2>1 DEF Lifecycle, ClientLife
  <2>4. /\ Pending(c) = None /\ Replied(c) = None
        /\ Pending(c)' \in Requests /\ Replied(c)' = None
    BY <1>4, <1>5, <2>1, <2>2, <2>3 DEF ClientView
  <2>5. \A d \in Conns : d # c => Pending(d)' = Pending(d) /\ Replied(d)' = Replied(d)
    BY <1>1, <2>1, <2>2, OneClientSeen
  <2> QED  BY <1>3, <2>4, <2>5, AskStep
<1>9. CASE Receive(c) \/ Abort(c)
  <2>1. inbox' = inbox /\ outbox' = [outbox EXCEPT ![c] = None]
    BY <1>9 DEF Receive, Abort
  <2>2. outbox'[c] = None /\ \A d \in Conns : d # c => outbox'[d] = outbox[d]
    BY <1>2, <2>1, LifeTypes
  <2>3. \A d \in Conns : d # c => Pending(d)' = Pending(d) /\ Replied(d)' = Replied(d)
    BY <1>1, <2>1, <2>2, OneClientSeen
  <2>4. CASE outbox[c] = None
    <3>1. outbox' = outbox
      BY <1>2, <2>1, <2>4, LifeTypes
    <3> QED  BY <1>1, <1>3, <2>1, <3>1, UnseenVars
  <2>5. CASE outbox[c] # None
    <3>1. \A w \in Workers : ~Worked(w, c)
      BY <1>6, <2>5
    <3>2. Pending(c)' = Pending(c) /\ Replied(c) # None /\ Replied(c)' = None
      BY <1>4, <1>5, <2>1, <2>2, <2>5, <3>1 DEF ClientView
    <3> QED  BY <1>3, <2>3, <3>2, ReceiveStep
  <2> QED  BY <2>4, <2>5
<1> QED  BY <1>7, <1>8, <1>9 DEF Client

\* Every step of the server is one of the book or none.
LEMMA BookNext ==
    ASSUME ServerInv, ServerInv', [Next]_vars
    PROVE  BookStep
<1>1. ASSUME NEW w \in Workers, Worker(w) PROVE BookStep
  BY <1>1, QuietWorkerBook, CntUnlockBook, ReqBook, ReadScanBook, WriteRefuseBook,
     WriteStoreBook, SendReplyBook
<1>2. ASSUME UNCHANGED <<stock, held, inbox, outbox, cur, res>> PROVE BookStep
  <2>1. BookNow' = BookNow
    BY <1>2 DEF BookNow
  <2> QED  BY <1>2, <2>1, UnseenVars
<1>3. ASSUME NEW t \in Threads, Sigint(t) \/ Handler(t) PROVE BookStep
  BY <1>2, <1>3
  DEF Sigint, Handler, HandlerScan, HandlerOpen, HandlerClose, HandlerExit, Handling,
      tree, locals, net
<1>4. CASE UNCHANGED vars
  BY <1>2, <1>4 DEF vars, tree, locals, net
<1> QED  BY <1>1, <1>3, <1>4, MainBook, ClientBook DEF Next

\* carryout_client_cmd is linearizable: a request takes effect at one moment
\* between its sending and its reply, a show is a consistent copy of the whole
\* tree, and no buy or sell is lost, with any number of workers and connections.
THEOREM ServerImplementsBook == Spec => ImplementsBook
<1>1. Init => Book!Init
  <2> SUFFICES ASSUME Init PROVE Book!Init
    OBVIOUS
  <2>1. /\ stock = EmptyBook /\ inbox = [c \in Conns |-> None]
        /\ outbox = [c \in Conns |-> None] /\ cur = [w \in Workers |-> None]
    BY DEF Init
  <2>2. BookNow = InitStock
    <3>1. InitStock = [k \in Keys |-> InitStock[k]]
      BY StockServerAssumption
    <3> QED  BY <2>1, <3>1 DEF BookNow, EmptyBook
  <2>3. \A c \in Conns : Serving(c) = {}
    BY <2>1 DEF Serving
  <2>4. \A c \in Conns : Pending(c) = None /\ Replied(c) = None
    BY <2>1, <2>3 DEF Pending, Replied
  <2> QED  BY <2>2, <2>4 DEF Book!Init, BookNow
<1>2. ServerInv /\ ServerInv' /\ [Next]_vars => [Book!Next]_(Book!vars)
  BY BookNext DEF BookStep
<1> QED  BY <1>1, <1>2, ServerInvariant, PTL DEF Spec, ImplementsBook, Book!Spec
=============================================================================
