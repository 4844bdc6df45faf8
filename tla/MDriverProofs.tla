--------------------------- MODULE MDriverProofs ---------------------------
(***************************************************************************)
(* mdriver, for any traces, any package, right or wrong, and any heap.     *)
(* First its list of payloads: what is on it is what the trace has in use. *)
(* Then its verdict: what the memory holds (Stored), what the package has  *)
(* done so far against what was reported (Truthful), and the counts of main *)
(* (Sums); from these that a verdict of mdriver can be trusted.            *)
(* Last what it measures: the time (Timed), with the arithmetic of the     *)
(* counter and the K best values of fcyc, and the space (SpaceInv).        *)
(***************************************************************************)
EXTENDS MDriver, Counts, SequenceTheorems

-----------------------------------------------------------------------------
(* The list. *)

Payloads == [lo : Int, hi : Int]
PayloadOf(p, n) == [lo |-> p, hi |-> p + n - 1]

\* rs lists the payloads of the blocks of live, once each, no two from the same address.
Entries(rs) ==
    /\ rs \in Seq(Payloads)
    /\ \A k \in DOMAIN rs : rs[k].lo <= rs[k].hi
    /\ \A k, l \in DOMAIN rs : k # l => rs[k].lo # rs[l].lo
Listed(rs, live, p, n) ==
    /\ Entries(rs)
    /\ Range(rs) = {PayloadOf(p[i], n[i]) : i \in live}
    /\ \A i, j \in live : i # j => p[i] # p[j]
    /\ Len(rs) = Cardinality(live)

LEMMA IdsFinite == \A L \in SUBSET Ids : IsFiniteSet(L)
<1>1. IsFiniteSet(0..(NumIds - 1))
  <2>1. 0 \in Int /\ NumIds - 1 \in Int
    BY MDriverAssumption DEF MDriverAssumption
  <2> QED  BY <2>1, FS_Interval, Zenon
<1> QED  BY <1>1, FS_Subset DEF Ids

LEMMA NoIdIsNone == NoId \notin Ids
BY MDriverAssumption DEF MDriverAssumption, NoId, Ids

LEMMA AddRangeIs ==
    ASSUME NEW rs, Entries(rs), NEW lo \in Int, NEW size \in Nat, size > 0, NEW e,
           RangeOK(rs, lo, size, e)
    PROVE  /\ Entries(AddRange(rs, lo, size))
           /\ Range(AddRange(rs, lo, size)) = Range(rs) \cup {PayloadOf(lo, size)}
           /\ Len(AddRange(rs, lo, size)) = Len(rs) + 1
           /\ \A r \in Range(rs) : r.lo # lo
<1> DEFINE new == PayloadOf(lo, size)
           ns == AddRange(rs, lo, size)
<1>1. new \in Payloads /\ new.lo = lo /\ new.hi = lo + size - 1 /\ new.lo <= new.hi
  BY DEF PayloadOf, Payloads
<1>2. rs \in Seq(Payloads) /\ Len(rs) \in Nat /\ DOMAIN rs = 1..Len(rs)
      /\ \A k \in DOMAIN rs : rs[k] \in Payloads
  BY DEF Entries
<1>3. ns = <<new>> \o rs
  BY DEF AddRange, PayloadOf
<1> HIDE DEF new, ns
<1>4. /\ ns \in Seq(Payloads) /\ Len(ns) = Len(rs) + 1 /\ DOMAIN ns = 1..(Len(rs) + 1)
      /\ ns[1] = new /\ \A k \in 1..Len(rs) : ns[k + 1] = rs[k]
  BY <1>1, <1>2, <1>3
<1>5. \A k \in DOMAIN ns : k = 1 \/ (k - 1 \in DOMAIN rs /\ ns[k] = rs[k - 1])
  <2> SUFFICES ASSUME NEW k \in DOMAIN ns, k # 1 PROVE k - 1 \in DOMAIN rs /\ ns[k] = rs[k - 1]
    OBVIOUS
  <2>1. k - 1 \in 1..Len(rs) /\ (k - 1) + 1 = k
    BY <1>2, <1>4
  <2> QED  BY <1>2, <1>4, <2>1
<1>6. \A k \in DOMAIN rs : rs[k].lo # lo
  <2> SUFFICES ASSUME NEW k \in DOMAIN rs PROVE rs[k].lo # lo
    OBVIOUS
  <2>1. rs[k].lo \in Int /\ rs[k].hi \in Int /\ rs[k].lo <= rs[k].hi
    BY <1>2 DEF Payloads, Entries
  <2>2. ~(rs[k].lo <= lo /\ lo <= rs[k].hi)
    BY DEF RangeOK, Within
  <2> QED  BY <2>1, <2>2
<1>7. Entries(ns)
  <2>1. \A k \in DOMAIN ns : ns[k].lo <= ns[k].hi
    BY <1>1, <1>4, <1>5 DEF Entries
  <2>2. ASSUME NEW k \in DOMAIN ns, NEW l \in DOMAIN ns, k # l PROVE ns[k].lo # ns[l].lo
    <3>1. CASE k = 1
      BY <1>1, <1>4, <1>5, <1>6, <2>2, <3>1
    <3>2. CASE l = 1
      BY <1>1, <1>4, <1>5, <1>6, <2>2, <3>2
    <3>3. CASE k # 1 /\ l # 1
      <4>1. k - 1 # l - 1
        BY <1>2, <1>4, <2>2
      <4> QED  BY <1>5, <3>3, <4>1 DEF Entries
    <3> QED  BY <3>1, <3>2, <3>3
  <2> QED  BY <1>4, <2>1, <2>2 DEF Entries
<1>8. Range(ns) = Range(rs) \cup {new}
  <2>1. ASSUME NEW r \in Range(ns) PROVE r \in Range(rs) \cup {new}
    BY <1>4, <1>5 DEF Range
  <2>2. ASSUME NEW r \in Range(rs) PROVE r \in Range(ns)
    <3>1. PICK k \in 1..Len(rs) : r = rs[k]
      BY <1>2, <2>2 DEF Range
    <3>2. k + 1 \in DOMAIN ns /\ ns[k + 1] = r
      BY <1>2, <1>4, <3>1
    <3> QED  BY <3>2 DEF Range
  <2>3. new \in Range(ns)
    <3>1. 1 \in DOMAIN ns
      BY <1>2, <1>4
    <3> QED  BY <1>4, <3>1 DEF Range
  <2> QED  BY <2>1, <2>2, <2>3
<1>9. \A r \in Range(rs) : r.lo # lo
  BY <1>6 DEF Range
<1> QED  BY <1>4, <1>7, <1>8, <1>9 DEF ns, new

\* remove_range: the entry that begins at lo, and no other.
LEMMA RemoveRangeIs ==
    ASSUME NEW rs, Entries(rs), NEW r \in Range(rs)
    PROVE  /\ Entries(RemoveRange(rs, r.lo))
           /\ Range(RemoveRange(rs, r.lo)) = Range(rs) \ {r}
           /\ Len(RemoveRange(rs, r.lo)) = Len(rs) - 1
<1>1. PICK k \in DOMAIN rs : r = rs[k]
  BY DEF Range
<1>2. rs \in Seq(Payloads) /\ Len(rs) \in Nat /\ DOMAIN rs = 1..Len(rs)
  BY DEF Entries
<1> DEFINE ns == RemoveAt(rs, k)
<1>3. RemoveRange(rs, r.lo) = ns
  <2>1. {l \in DOMAIN rs : rs[l].lo = r.lo} = {k}
    BY <1>1 DEF Entries
  <2>2. Min({k}) = k
    <3>1. k \in Int
      BY <1>2
    <3> QED  BY <3>1 DEF Min
  <2> QED  BY <2>1, <2>2 DEF RemoveRange
<1>4. /\ ns \in Seq(Payloads) /\ Len(ns) = Len(rs) - 1 /\ DOMAIN ns = 1..(Len(rs) - 1)
      /\ \A l \in 1..(Len(rs) - 1) : ns[l] = IF l < k THEN rs[l] ELSE rs[l + 1]
  <2> DEFINE a == SubSeq(rs, 1, k - 1)
             b == SubSeq(rs, k + 1, Len(rs))
  <2>1. a \in Seq(Payloads) /\ Len(a) = k - 1 /\ \A l \in 1..(k - 1) : a[l] = rs[l]
    BY <1>2
  <2>2. b \in Seq(Payloads) /\ Len(b) = Len(rs) - k /\ \A l \in 1..(Len(rs) - k) : b[l] = rs[k + l]
    BY <1>2
  <2>3. ns = a \o b
    BY DEF RemoveAt
  <2> HIDE DEF a, b, ns
  <2>4. k \in Int /\ 1 <= k /\ k <= Len(rs)
    BY <1>2
  <2>5. ns \in Seq(Payloads) /\ Len(ns) = (k - 1) + (Len(rs) - k)
    <3>1. ns \in Seq(Payloads) /\ Len(ns) = Len(a) + Len(b)
      <4>1. a \in Seq(Payloads) /\ b \in Seq(Payloads)
        BY <2>1, <2>2
      <4>2. a \o b \in Seq(Payloads)
        BY <4>1
      <4>3. Len(a \o b) = Len(a) + Len(b)
        BY <4>1
      <4> QED  BY <2>3, <4>2, <4>3
    <3> QED  BY <2>1, <2>2, <3>1
  <2>6. ASSUME NEW l \in 1..(Len(rs) - 1) PROVE ns[l] = IF l < k THEN rs[l] ELSE rs[l + 1]
    <3>1. CASE l < k
      <4>1. l \in 1..(k - 1)
        BY <2>4, <3>1
      <4>2. ns[l] = a[l]
        BY <2>1, <2>2, <2>3, <4>1
      <4> QED  BY <2>1, <3>1, <4>1, <4>2
    <3>2. CASE ~(l < k)
      <4>1. l - (k - 1) \in 1..(Len(rs) - k) /\ k + (l - (k - 1)) = l + 1
        BY <1>2, <2>4, <3>2
      <4>2. ns[l] = b[l - (k - 1)]
        BY <1>2, <2>1, <2>2, <2>3, <2>4, <3>2
      <4> QED  BY <2>2, <3>2, <4>1, <4>2
    <3> QED  BY <3>1, <3>2
  <2>7. Len(ns) = Len(rs) - 1 /\ DOMAIN ns = 1..Len(ns)
    BY <1>2, <2>4, <2>5
  <2> QED  BY <2>5, <2>6, <2>7
<1> HIDE DEF ns
<1> DEFINE src(l) == IF l < k THEN l ELSE l + 1
<1>5. \A l \in DOMAIN ns : src(l) \in DOMAIN rs /\ src(l) # k /\ ns[l] = rs[src(l)]
  BY <1>2, <1>4
<1>6. \A l, m \in DOMAIN ns : l # m => src(l) # src(m)
  BY <1>2, <1>4
<1>7. \A m \in DOMAIN rs \ {k} : \E l \in DOMAIN ns : src(l) = m
  <2> SUFFICES ASSUME NEW m \in DOMAIN rs, m # k PROVE \E l \in DOMAIN ns : src(l) = m
    OBVIOUS
  <2>1. CASE m < k
    BY <1>2, <1>4, <2>1
  <2>2. CASE ~(m < k)
    <3>1. m - 1 \in DOMAIN ns /\ src(m - 1) = m
      BY <1>2, <1>4, <2>2
    <3> QED  BY <3>1
  <2> QED  BY <2>1, <2>2
<1> HIDE DEF src
<1>8. Entries(ns)
  BY <1>4, <1>5, <1>6 DEF Entries
<1>9. Range(ns) = Range(rs) \ {r}
  <2>1. \A m \in DOMAIN rs \ {k} : rs[m] # r
    BY <1>1 DEF Entries
  <2> QED  BY <1>1, <1>5, <1>7, <2>1 DEF Range
<1> QED  BY <1>3, <1>4, <1>8, <1>9

LEMMA AddListed ==
    ASSUME NEW rs, NEW live \in SUBSET Ids, NEW p \in [Ids -> Int], NEW n \in [Ids -> Int],
           Listed(rs, live, p, n), NEW i \in Ids, i \notin live,
           NEW lo \in Int, NEW size \in Nat, size > 0, NEW e, RangeOK(rs, lo, size, e)
    PROVE  Listed(AddRange(rs, lo, size), live \cup {i},
                  [p EXCEPT ![i] = lo], [n EXCEPT ![i] = size])
<1> DEFINE ns == AddRange(rs, lo, size)
           q == [p EXCEPT ![i] = lo]
           m == [n EXCEPT ![i] = size]
<1>1. /\ Entries(ns) /\ Range(ns) = Range(rs) \cup {PayloadOf(lo, size)}
      /\ Len(ns) = Len(rs) + 1 /\ \A r \in Range(rs) : r.lo # lo
  BY AddRangeIs DEF Listed
<1>2. /\ q[i] = lo /\ m[i] = size /\ \A j \in live : q[j] = p[j] /\ m[j] = n[j]
  OBVIOUS
<1> HIDE DEF ns, q, m
<1>3. Range(ns) = {PayloadOf(q[j], m[j]) : j \in live \cup {i}}
  <2>1. {PayloadOf(q[j], m[j]) : j \in live \cup {i}}
          = {PayloadOf(p[j], n[j]) : j \in live} \cup {PayloadOf(lo, size)}
    BY <1>2
  <2> QED  BY <1>1, <2>1 DEF Listed
<1>4. \A j \in live : p[j] # lo
  <2> SUFFICES ASSUME NEW j \in live PROVE p[j] # lo
    OBVIOUS
  <2>1. PayloadOf(p[j], n[j]) \in Range(rs)
    BY DEF Listed
  <2> QED  BY <1>1, <2>1 DEF PayloadOf
<1>5. \A j, l \in live \cup {i} : j # l => q[j] # q[l]
  BY <1>2, <1>4 DEF Listed
<1>6. Cardinality(live \cup {i}) = Cardinality(live) + 1
  BY IdsFinite, FS_AddElement
<1>7. Len(ns) = Cardinality(live \cup {i})
  BY <1>1, <1>6 DEF Listed
<1>8. Listed(ns, live \cup {i}, q, m)
  BY <1>1, <1>3, <1>5, <1>7 DEF Listed
<1> QED  BY <1>8 DEF ns, q, m

LEMMA RemoveListed ==
    ASSUME NEW rs, NEW live \in SUBSET Ids, NEW p \in [Ids -> Int], NEW n \in [Ids -> Int],
           Listed(rs, live, p, n), NEW i \in live
    PROVE  Listed(RemoveRange(rs, p[i]), live \ {i}, p, n)
<1> DEFINE r == PayloadOf(p[i], n[i])
           ns == RemoveRange(rs, p[i])
<1>1. r \in Range(rs) /\ r.lo = p[i]
  BY DEF Listed, PayloadOf
<1>2. Entries(ns) /\ Range(ns) = Range(rs) \ {r} /\ Len(ns) = Len(rs) - 1
  <2> HIDE DEF r
  <2>1. /\ Entries(RemoveRange(rs, r.lo)) /\ Range(RemoveRange(rs, r.lo)) = Range(rs) \ {r}
        /\ Len(RemoveRange(rs, r.lo)) = Len(rs) - 1
    BY <1>1, RemoveRangeIs DEF Listed
  <2> QED  BY <1>1, <2>1
<1>3. \A j \in live \ {i} : PayloadOf(p[j], n[j]) # r
  <2> SUFFICES ASSUME NEW j \in live \ {i} PROVE PayloadOf(p[j], n[j]) # r
    OBVIOUS
  <2>1. PayloadOf(p[j], n[j]).lo = p[j] /\ r.lo = p[i]
    BY DEF PayloadOf
  <2>2. p[j] # p[i]
    BY DEF Listed
  <2> QED  BY <2>1, <2>2
<1> HIDE DEF ns
<1>4. Range(ns) = {PayloadOf(p[j], n[j]) : j \in live \ {i}}
  <2>1. Range(rs) = {PayloadOf(p[j], n[j]) : j \in live}
    BY DEF Listed
  <2> QED  BY <1>2, <1>3, <2>1
<1>5. Cardinality(live \ {i}) = Cardinality(live) - 1
  BY IdsFinite, FS_RemoveElement
<1>6. Listed(ns, live \ {i}, p, n)
  BY <1>2, <1>4, <1>5 DEF Listed
<1> QED  BY <1>6 DEF ns

-----------------------------------------------------------------------------
(* The blocks of a trace. *)

LEMMA HeldNext ==
    ASSUME NEW ops, NEW n \in Nat \ {0}, NEW i
    PROVE  Held(ops, n + 1, i) <=>
             \/ ops[n].index = i /\ ops[n].type # "f"
             \/ Held(ops, n, i) /\ (ops[n].index # i \/ ops[n].type # "f")
<1> DEFINE Alloc(k) == ops[k].index = i /\ ops[k].type # "f"
           Keeps(k) == ops[k].index # i \/ ops[k].type # "f"
<1>1. \A j \in Nat : Held(ops, j, i) <=> \E k \in 1..(j - 1) : Alloc(k) /\ \A m \in (k + 1)..(j - 1) : Keeps(m)
  BY DEF Held
<1> HIDE DEF Alloc, Keeps
<1>2. Held(ops, n + 1, i) <=> \E k \in 1..n : Alloc(k) /\ \A m \in (k + 1)..n : Keeps(m)
  BY <1>1
<1>3. ASSUME Held(ops, n + 1, i) PROVE Alloc(n) \/ (Held(ops, n, i) /\ Keeps(n))
  <2>1. PICK k \in 1..n : Alloc(k) /\ \A m \in (k + 1)..n : Keeps(m)
    BY <1>2, <1>3
  <2>2. CASE k = n
    BY <2>1, <2>2
  <2>3. CASE k # n
    <3>1. k \in 1..(n - 1) /\ n \in (k + 1)..n /\ (k + 1)..(n - 1) \subseteq (k + 1)..n
      BY <2>3
    <3> QED  BY <1>1, <2>1, <3>1
  <2> QED  BY <2>2, <2>3
<1>4. ASSUME Alloc(n) PROVE Held(ops, n + 1, i)
  <2>1. n \in 1..n /\ (n + 1)..n = {}
    OBVIOUS
  <2> QED  BY <1>2, <1>4, <2>1
<1>5. ASSUME Held(ops, n, i), Keeps(n) PROVE Held(ops, n + 1, i)
  <2>1. PICK k \in 1..(n - 1) : Alloc(k) /\ \A m \in (k + 1)..(n - 1) : Keeps(m)
    BY <1>1, <1>5
  <2>2. k \in 1..n /\ \A m \in (k + 1)..n : m = n \/ m \in (k + 1)..(n - 1)
    OBVIOUS
  <2> QED  BY <1>2, <1>5, <2>1, <2>2
<1> QED  BY <1>3, <1>4, <1>5 DEF Alloc, Keeps

LEMMA HeldFirst == \A ops, i : ~Held(ops, 1, i)
  BY DEF Held

-----------------------------------------------------------------------------
(* The invariant. *)

Setting ==
    /\ setup \in Setups /\ tn \in DOMAIN setup.files
    /\ pc \in {"init", "valid"} => blocks \in [Ids -> Int] /\ block_sizes \in [Ids -> Int]
    /\ pc = "valid" => op \in Nat \ {0}

InTheList == pc = "valid" => Listed(ranges, InUse(NoId), blocks, block_sizes)

DriverInv == Setting /\ InTheList

LEMMA InitDriver == ASSUME TracesOK, Init PROVE DriverInv
<1>1. setup \in Setups /\ pc = "init_fsecs" /\ tn = 1
  BY DEF Init
<1>2. 1 \in DOMAIN setup.files
  BY <1>1 DEF TracesOK
<1> QED  BY <1>1, <1>2 DEF DriverInv, Setting, InTheList

\* The request of a trace that is replayed, and what it does to the blocks in use.
LEMMA RequestAt ==
    ASSUME TracesOK, Setting, op \in Nat \ {0}, NEW type, At(type)
    PROVE  /\ Op \in Request /\ Op.type = type /\ Op.index \in Ids
           /\ Op.type # "f" => Op.size \in Nat /\ Op.size > 0
           /\ Op.index \in InUse(NoId) <=> type # "a"
           /\ \A i \in Ids : Held(File.ops, op + 1, i) <=>
                 IF i = Op.index THEN type # "f" ELSE i \in InUse(NoId)
<1> DEFINE ops == File.ops
<1>1. /\ ops \in Seq(Request) /\ TraceOK(ops) /\ op \in 1..Len(ops)
      /\ op \in Nat \ {0} /\ ops[op].type = type /\ Op = ops[op]
  <2>1. setup.files \in Seq([num_ids : Nat, num_ops : Nat, ops : Seq(Request)])
        /\ tn \in DOMAIN setup.files /\ TraceOK(setup.files[tn].ops)
    BY DEF TracesOK, Setting
  <2>2. File \in [num_ids : Nat, num_ops : Nat, ops : Seq(Request)]
    <3>1. PICK F : F = [num_ids : Nat, num_ops : Nat, ops : Seq(Request)]
      OBVIOUS
    <3>2. PICK fs \in Seq(F) : fs = setup.files
      BY <2>1, <3>1
    <3>3. PICK k \in DOMAIN fs : k = tn
      BY <2>1, <3>2
    <3>4. fs[k] \in F
      OBVIOUS
    <3> QED  BY <3>1, <3>2, <3>3, <3>4 DEF File
  <2>3. op \in Nat \ {0} /\ op <= Len(ops) /\ ops[op].type = type
    BY DEF At, num_ops, Op
  <2>4. ops \in Seq(Request) /\ Len(ops) \in Nat
    BY <2>2
  <2> QED  BY <2>1, <2>3, <2>4 DEF File, Op
<1> HIDE DEF ops
<1>2. Op \in Request
  BY <1>1
<1>3. Op.type = type /\ Op.index \in Ids /\ Op.size \in Nat
  BY <1>1, <1>2 DEF Request
<1>4. op \in DOMAIN ops
  BY <1>1
<1>5. (Op.type # "f" => Op.size > 0) /\ (Held(ops, op, Op.index) <=> type # "a")
  BY <1>1, <1>4 DEF TraceOK
<1>6. \A i \in Ids : i \in InUse(NoId) <=> Held(ops, op, i)
  BY NoIdIsNone DEF InUse, ops
<1>7. \A i \in Ids : Held(ops, op + 1, i) <=> IF i = Op.index THEN type # "f" ELSE i \in InUse(NoId)
  <2> SUFFICES ASSUME NEW i \in Ids
               PROVE  Held(ops, op + 1, i) <=> IF i = Op.index THEN type # "f" ELSE i \in InUse(NoId)
    OBVIOUS
  <2>1. Held(ops, op + 1, i) <=>
             \/ ops[op].index = i /\ ops[op].type # "f"
             \/ Held(ops, op, i) /\ (ops[op].index # i \/ ops[op].type # "f")
    BY <1>1, HeldNext
  <2> QED  BY <1>1, <1>6, <2>1
<1> QED  BY <1>2, <1>3, <1>5, <1>6, <1>7 DEF ops

LEMMA RequestIs ==
    ASSUME TracesOK, DriverInv, pc = "valid", NEW type, At(type)
    PROVE  /\ Op \in Request /\ Op.type = type /\ Op.index \in Ids
           /\ Op.type # "f" => Op.size \in Nat /\ Op.size > 0
           /\ Op.index \in InUse(NoId) <=> type # "a"
           /\ \A i \in Ids : Held(File.ops, op + 1, i) <=>
                 IF i = Op.index THEN type # "f" ELSE i \in InUse(NoId)
  BY RequestAt DEF DriverInv, Setting

\* A request that has passed its checks goes on to the next.
LEMMA InUseAfter ==
    ASSUME TracesOK, Setting, op \in Nat \ {0}, NEW type, At(type),
           op' = op + 1, UNCHANGED <<setup, tn>>
    PROVE  InUse(NoId)' = IF type = "f" THEN InUse(NoId) \ {Op.index} ELSE InUse(NoId) \cup {Op.index}
<1>1. /\ Op.index \in Ids
      /\ \A i \in Ids : Held(File.ops, op + 1, i) <=>
                 IF i = Op.index THEN type # "f" ELSE i \in InUse(NoId)
  BY RequestAt
<1>2. InUse(NoId)' = {i \in Ids \ {NoId} : Held(File.ops, op + 1, i)}
  BY DEF InUse, File
<1>3. Ids \ {NoId} = Ids /\ InUse(NoId) \subseteq Ids
  BY NoIdIsNone DEF InUse
<1> QED  BY <1>1, <1>2, <1>3

LEMMA InUseNext ==
    ASSUME TracesOK, DriverInv, pc = "valid", NEW type, At(type),
           op' = op + 1, UNCHANGED <<setup, tn>>
    PROVE  InUse(NoId)' = IF type = "f" THEN InUse(NoId) \ {Op.index} ELSE InUse(NoId) \cup {Op.index}
  BY InUseAfter DEF DriverInv, Setting

LEMMA StartValidKeeps == ASSUME TracesOK, DriverInv, StartValid PROVE DriverInv'
<1>1. /\ pc = "init" /\ ranges' = <<>> /\ op' = 1
      /\ UNCHANGED <<setup, tn, blocks, block_sizes>>
  BY DEF StartValid, traces
<1>2. InUse(NoId)' = {}
  BY <1>1, HeldFirst DEF InUse
<1>3. Listed(<<>>, {}, blocks, block_sizes)
  <2>1. Entries(<<>>)
    BY DEF Entries
  <2>2. Len(<<>>) = Cardinality({})
    BY FS_EmptySet
  <2> QED  BY <2>1, <2>2 DEF Listed, Range
<1> QED  BY <1>1, <1>2, <1>3 DEF DriverInv, Setting, InTheList

LEMMA ValidAllocKeeps == ASSUME TracesOK, MDriverAssumption, DriverInv, ValidAlloc PROVE DriverInv'
<1>1. PICK a \in MmMalloc :
         /\ brk' = a.brk
         /\ IF a.p # NULL /\ RangeOK(ranges, a.p, Op.size, a.brk)
            THEN /\ ranges' = AddRange(ranges, a.p, Op.size)
                 /\ Remember(Op.index, a.p, Op.size) /\ op' = op + 1
                 /\ UNCHANGED <<pc, errors, stats>>
            ELSE Fails /\ UNCHANGED <<op, ranges, blocks, block_sizes>>
  BY DEF ValidAlloc
<1>2. pc = "valid" /\ At("a") /\ UNCHANGED <<setup, tn>>
  BY DEF ValidAlloc
<1>3. CASE ~(a.p # NULL /\ RangeOK(ranges, a.p, Op.size, a.brk))
  BY <1>1, <1>2, <1>3 DEF Fails, DriverInv, Setting, InTheList
<1>4. CASE a.p # NULL /\ RangeOK(ranges, a.p, Op.size, a.brk)
  <2>1. PICK i \in Ids : i = Op.index
    BY <1>2, RequestIs
  <2>2. PICK size \in Nat : size = Op.size /\ size > 0
    BY <1>2, RequestIs
  <2>3. PICK lo \in Int : lo = a.p
    BY DEF MmMalloc, Addr, MDriverAssumption
  <2>4. i \notin InUse(NoId) /\ InUse(NoId)' = InUse(NoId) \cup {i} /\ InUse(NoId) \in SUBSET Ids
    BY <1>1, <1>2, <1>4, <2>1, RequestIs, InUseNext DEF InUse
  <2>5. /\ ranges' = AddRange(ranges, lo, size)
        /\ blocks' = [blocks EXCEPT ![i] = lo] /\ block_sizes' = [block_sizes EXCEPT ![i] = size]
        /\ op' = op + 1 /\ pc' = pc
    BY <1>1, <1>4, <2>1, <2>2, <2>3 DEF Remember
  <2>6. /\ blocks \in [Ids -> Int] /\ block_sizes \in [Ids -> Int] /\ op \in Nat \ {0}
        /\ Listed(ranges, InUse(NoId), blocks, block_sizes)
    BY <1>2 DEF DriverInv, Setting, InTheList
  <2>7. RangeOK(ranges, lo, size, a.brk)
    BY <1>4, <2>2, <2>3
  <2>8. Listed(ranges', InUse(NoId)', blocks', block_sizes')
    <3>1. Listed(AddRange(ranges, lo, size), InUse(NoId) \cup {i},
                 [blocks EXCEPT ![i] = lo], [block_sizes EXCEPT ![i] = size])
      <4> DEFINE L == InUse(NoId)
      <4>1. L \in SUBSET Ids /\ i \notin L /\ Listed(ranges, L, blocks, block_sizes)
        BY <2>4, <2>6
      <4> HIDE DEF L
      <4>2. Listed(AddRange(ranges, lo, size), L \cup {i},
                   [blocks EXCEPT ![i] = lo], [block_sizes EXCEPT ![i] = size])
        BY <2>2, <2>6, <2>7, <4>1, AddListed
      <4> QED  BY <4>2 DEF L
    <3> QED  BY <2>4, <2>5, <3>1
  <2>9. InTheList'
    BY <2>8 DEF InTheList
  <2>10. Setting'
    BY <1>2, <2>5, <2>6 DEF Setting, DriverInv
  <2> QED  BY <2>9, <2>10 DEF DriverInv
<1> QED  BY <1>3, <1>4

LEMMA MmReallocIs ==
    ASSUME NEW oldp, NEW oldsize, NEW size, NEW a \in MmRealloc(oldp, oldsize, size)
    PROVE  /\ a.p \in Addr /\ a.brk \in Ends
           /\ \E n \in {0, Min({oldsize, size})} : a.mem \in Written(MovedTo(oldp, a.p, n), a.brk)
<1> DEFINE Moved(newp) == {MovedTo(oldp, newp, n) : n \in {0, Min({oldsize, size})}}
           Of(newp, e) == [p : {newp}, brk : {e}, mem : UNION {Written(m, e) : m \in Moved(newp)}]
<1>1. MmRealloc(oldp, oldsize, size) = UNION {UNION {Of(newp, e) : e \in Ends} : newp \in Addr}
  BY DEF MmRealloc
<1>2. \A newp, e : a \in Of(newp, e) =>
        a.p = newp /\ a.brk = e /\ \E m \in Moved(newp) : a.mem \in Written(m, e)
  OBVIOUS
<1> HIDE DEF Of
<1>3. PICK newp \in Addr, e \in Ends : a \in Of(newp, e)
  BY <1>1
<1>4. a.p = newp /\ a.brk = e /\ \E m \in Moved(newp) : a.mem \in Written(m, e)
  BY <1>2, <1>3
<1>5. PICK n \in {0, Min({oldsize, size})} : a.mem \in Written(MovedTo(oldp, newp, n), e)
  BY <1>4
<1>6. a.mem \in Written(MovedTo(oldp, a.p, n), a.brk)
  BY <1>4, <1>5, Zenon
<1> QED  BY <1>3, <1>4, <1>6

LEMMA ValidReallocKeeps == ASSUME TracesOK, MDriverAssumption, DriverInv, ValidRealloc PROVE DriverInv'
<1>1. PICK a \in MmRealloc(blocks[Op.index], block_sizes[Op.index], Op.size), kept \in BOOLEAN :
        LET rest == RemoveRange(ranges, blocks[Op.index])
            inside == a.p # NULL /\ RangeOK(rest, a.p, Op.size, a.brk)
        IN /\ ranges' = IF a.p = NULL THEN ranges
                        ELSE IF inside THEN AddRange(rest, a.p, Op.size) ELSE rest
           /\ IF inside /\ kept
              THEN /\ Remember(Op.index, a.p, Op.size) /\ op' = op + 1
                   /\ UNCHANGED <<pc, errors, stats>>
              ELSE Fails /\ UNCHANGED <<op, blocks, block_sizes>>
  <2>1. PICK a \in MmRealloc(blocks[Op.index], block_sizes[Op.index], Op.size) :
          LET rest == RemoveRange(ranges, blocks[Op.index])
              inside == a.p # NULL /\ RangeOK(rest, a.p, Op.size, a.brk)
              kept == \A j \in 0..(Min({Op.size, block_sizes[Op.index]}) - 1) :
                         SignedChar(a.mem[a.p + j]) = ByteOf(Op.index)
          IN /\ ranges' = IF a.p = NULL THEN ranges
                          ELSE IF inside THEN AddRange(rest, a.p, Op.size) ELSE rest
             /\ IF inside /\ kept
                THEN /\ Remember(Op.index, a.p, Op.size) /\ op' = op + 1
                     /\ UNCHANGED <<pc, errors, stats>>
                ELSE Fails /\ UNCHANGED <<op, blocks, block_sizes>>
    BY DEF ValidRealloc
  <2>2. PICK kept \in BOOLEAN : kept <=> \A j \in 0..(Min({Op.size, block_sizes[Op.index]}) - 1) :
                         SignedChar(a.mem[a.p + j]) = ByteOf(Op.index)
    OBVIOUS
  <2> QED  BY <2>1, <2>2
<1>2. pc = "valid" /\ At("r") /\ UNCHANGED <<setup, tn>>
  BY DEF ValidRealloc
<1> DEFINE rest == RemoveRange(ranges, blocks[Op.index])
           inside == a.p # NULL /\ RangeOK(rest, a.p, Op.size, a.brk)
<1>3. CASE ~(inside /\ kept)
  <2>1. Fails /\ UNCHANGED <<op, blocks, block_sizes>>
    BY <1>1, <1>3
  <2> QED  BY <1>2, <2>1 DEF Fails, DriverInv, Setting, InTheList
<1>4. CASE inside /\ kept
  <2>1. PICK i \in Ids : i = Op.index
    BY <1>2, RequestIs
  <2>2. PICK size \in Nat : size = Op.size /\ size > 0
    BY <1>2, RequestIs
  <2>3. PICK lo \in Int : lo = a.p
    <3>1. a.p \in Addr
      BY MmReallocIs
    <3> QED  BY <3>1 DEF Addr, MDriverAssumption
  <2>5. /\ ranges' = AddRange(rest, lo, size)
        /\ blocks' = [blocks EXCEPT ![i] = lo] /\ block_sizes' = [block_sizes EXCEPT ![i] = size]
        /\ op' = op + 1 /\ pc' = pc
    BY <1>1, <1>4, <2>1, <2>2, <2>3 DEF Remember
  <2>4. /\ i \in InUse(NoId) /\ InUse(NoId)' = (InUse(NoId) \ {i}) \cup {i}
        /\ InUse(NoId) \in SUBSET Ids /\ InUse(NoId) \ {i} \in SUBSET Ids
    BY <1>2, <2>1, <2>5, RequestIs, InUseNext DEF InUse
  <2>6. /\ blocks \in [Ids -> Int] /\ block_sizes \in [Ids -> Int] /\ op \in Nat \ {0}
        /\ Listed(ranges, InUse(NoId), blocks, block_sizes)
    BY <1>2 DEF DriverInv, Setting, InTheList
  <2>7. Listed(rest, InUse(NoId) \ {i}, blocks, block_sizes)
    BY <2>1, <2>4, <2>6, RemoveListed
  <2> HIDE DEF rest
  <2>8. RangeOK(rest, lo, size, a.brk)
    BY <1>4, <2>2, <2>3
  <2>9. Listed(ranges', InUse(NoId)', blocks', block_sizes')
    <3>1. Listed(AddRange(rest, lo, size), (InUse(NoId) \ {i}) \cup {i},
                 [blocks EXCEPT ![i] = lo], [block_sizes EXCEPT ![i] = size])
      <4> DEFINE L == InUse(NoId) \ {i}
      <4>1. L \in SUBSET Ids /\ i \notin L /\ Listed(rest, L, blocks, block_sizes)
        BY <2>4, <2>7
      <4> HIDE DEF L
      <4>2. Listed(AddRange(rest, lo, size), L \cup {i},
                   [blocks EXCEPT ![i] = lo], [block_sizes EXCEPT ![i] = size])
        BY <2>2, <2>6, <2>8, <4>1, AddListed
      <4> QED  BY <4>2 DEF L
    <3> QED  BY <2>4, <2>5, <3>1
  <2>10. InTheList'
    BY <2>9 DEF InTheList
  <2>11. Setting'
    BY <1>2, <2>5, <2>6 DEF Setting, DriverInv
  <2> QED  BY <2>10, <2>11 DEF DriverInv
<1> QED  BY <1>3, <1>4

LEMMA ValidFreeKeeps == ASSUME TracesOK, DriverInv, ValidFree PROVE DriverInv'
<1>1. /\ pc = "valid" /\ At("f") /\ ranges' = RemoveRange(ranges, blocks[Op.index])
      /\ op' = op + 1 /\ UNCHANGED <<setup, tn, blocks, block_sizes, pc>>
  BY DEF ValidFree, traces
<1>2. PICK i \in Ids : i = Op.index
  BY <1>1, RequestIs
<1>3. /\ i \in InUse(NoId) /\ InUse(NoId)' = InUse(NoId) \ {i} /\ InUse(NoId) \in SUBSET Ids
  <2>1. i \in InUse(NoId)
    BY <1>1, <1>2, RequestIs
  <2>2. InUse(NoId)' = InUse(NoId) \ {i}
    BY <1>1, <1>2, InUseNext
  <2> QED  BY <2>1, <2>2 DEF InUse
<1>4. /\ blocks \in [Ids -> Int] /\ block_sizes \in [Ids -> Int] /\ op \in Nat \ {0}
      /\ Listed(ranges, InUse(NoId), blocks, block_sizes)
  BY <1>1 DEF DriverInv, Setting, InTheList
<1>5. Listed(ranges', InUse(NoId)', blocks', block_sizes')
  <2>1. Listed(RemoveRange(ranges, blocks[i]), InUse(NoId) \ {i}, blocks, block_sizes)
    <3> DEFINE L == InUse(NoId)
    <3>1. L \in SUBSET Ids /\ i \in L /\ Listed(ranges, L, blocks, block_sizes)
      BY <1>3, <1>4
    <3> HIDE DEF L
    <3>2. Listed(RemoveRange(ranges, blocks[i]), L \ {i}, blocks, block_sizes)
      BY <1>4, <3>1, RemoveListed
    <3> QED  BY <3>2 DEF L
  <2> QED  BY <1>1, <1>2, <1>3, <2>1
<1>6. InTheList'
  BY <1>5 DEF InTheList
<1>7. Setting'
  BY <1>1, <1>4 DEF Setting, DriverInv
<1> QED  BY <1>6, <1>7 DEF DriverInv

LEMMA NextDriver ==
    ASSUME TracesOK, MDriverAssumption, DriverInv, [Next]_vars
    PROVE  DriverInv'
<1>1. CASE UNCHANGED vars
  BY <1>1 DEF vars, traces, DriverInv, Setting, InTheList, InUse, File
<1>2. CASE EvalMmValid
  <2>1. CASE Valid
    BY <2>1 DEF Valid, traces, DriverInv, Setting, InTheList
  <2> QED  BY <1>2, <2>1, StartValidKeeps, ValidAllocKeeps, ValidReallocKeeps, ValidFreeKeeps
           DEF EvalMmValid
<1>3. CASE Start
  BY <1>3 DEF Start, untimed, traces, DriverInv, Setting, InTheList
<1>4. CASE EvalLibc
  BY <1>4 DEF EvalLibc, LibcRequest, LibcTimed, LibcSpeedFails, untimed, traces,
              DriverInv, Setting, InTheList
<1>5. CASE ReadTrace
  BY <1>5 DEF ReadTrace, NULL, DriverInv, Setting, InTheList
<1>6. CASE EvalMmUtil
  <2>1. pc' \in {"util", "speed"} /\ UNCHANGED <<setup, tn>>
    BY <1>6 DEF EvalMmUtil, UtilAlloc, UtilRealloc, UtilFree, Utilization, Replay, traces
  <2> QED  BY <2>1 DEF DriverInv, Setting, InTheList
<1>7. CASE Fsecs
  <2>1. Speed
    BY <1>7 DEF Fsecs
  <2> QED  BY <2>1 DEF Speed, untimed, traces, DriverInv, Setting, InTheList
<1>8. CASE NextTrace
  <2>1. /\ pc' \notin {"init", "valid"} /\ setup' = setup
        /\ tn' = IF tn < Len(setup.files) THEN tn + 1 ELSE 1
    BY <1>8 DEF NextTrace
  <2>2. setup.files # <<>> /\ \E F : setup.files \in Seq(F)
    BY DEF TracesOK, DriverInv, Setting
  <2>3. tn' \in DOMAIN setup.files
    <3>1. PICK F, fs : fs \in Seq(F) /\ fs = setup.files
      BY <2>2
    <3>2. Len(fs) \in Nat /\ DOMAIN fs = 1..Len(fs) /\ Len(fs) # 0
      BY <2>2, <3>1
    <3>3. tn \in 1..Len(fs)
      BY <3>1, <3>2 DEF DriverInv, Setting
    <3> QED  BY <2>1, <3>1, <3>2, <3>3
  <2> QED  BY <2>1, <2>3 DEF DriverInv, Setting, InTheList
<1>9. CASE Results
  BY <1>9 DEF Results, DriverInv, Setting, InTheList
<1> QED  BY <1>1, <1>2, <1>3, <1>4, <1>5, <1>6, <1>7, <1>8, <1>9 DEF Next

\* The inductive invariant of the driver's list (mdriver.c:306-401, 555-659).
THEOREM DriverInvariant == ASSUME TracesOK PROVE Spec => []DriverInv
<1>1. Init => DriverInv
  BY InitDriver
<1>2. DriverInv /\ [Next]_vars => DriverInv'
  BY NextDriver, MDriverAssumption
<1> QED  BY <1>1, <1>2, PTL DEF Spec

\* Whatever addresses the package answers, the driver's list is the payloads of the
\* blocks in use, once each, for all traces that free and move only what is in use.
THEOREM TheRangesAreExact == ASSUME TracesOK PROVE Spec => []RangesExact
<1>1. DriverInv => RangesExact
  BY DEF DriverInv, InTheList, Listed, PayloadOf, RangesExact
<1> QED  BY <1>1, DriverInvariant, PTL

-----------------------------------------------------------------------------
(* The answers of the package. *)

Bytes == [Addr -> 0..(Byte - 1)]
Data(m, live, p, n) == \A i \in live : \A b \in Payload(p[i], n[i]) : m[b] = ByteOf(i)
Lie(live, p, n) == \A i \in live : n[i] > 0 /\ Payload(p[i], n[i]) \subseteq Addr
Answer(a) == a.p \in Addr /\ a.brk \in Int /\ a.brk <= HeapMax + 1 /\ a.mem \in Bytes

PayloadsOf(live, p, n) == {Payload(p[j], n[j]) : j \in live}

\* The one way in which a block that add_range accepts may be bad.
AtMostContains(a, size, used) == BadBlock(a, size, used) \subseteq {"contains"}

LEMMA Ends1 ==
    ASSUME NEW lo \in Int, NEW hi \in Int, lo <= hi
    PROVE  Min(lo..hi) = lo /\ Max(lo..hi) = hi
<1>1. lo \in lo..hi /\ \A y \in lo..hi : lo <= y
  OBVIOUS
<1>2. hi \in lo..hi /\ \A y \in lo..hi : hi >= y
  OBVIOUS
<1>3. \A x \in lo..hi : (\A y \in lo..hi : x <= y) => x = lo
  BY <1>1
<1>4. \A x \in lo..hi : (\A y \in lo..hi : x >= y) => x = hi
  BY <1>2
<1> QED  BY <1>1, <1>2, <1>3, <1>4 DEF Min, Max

LEMMA ByteIs == MDriverAssumption => \A i \in Int : ByteOf(i) \in 0..(Byte - 1)
  BY DEF ByteOf, MDriverAssumption

\* A payload of n bytes at p, and the range add_range keeps for it.
LEMMA OldRange ==
    ASSUME NEW rs, NEW live \in SUBSET Ids, NEW p \in [Ids -> Int], NEW n \in [Ids -> Int],
           Listed(rs, live, p, n), NEW j \in live
    PROVE  /\ \E k \in DOMAIN rs : rs[k] = PayloadOf(p[j], n[j])
           /\ Payload(p[j], n[j]) = p[j]..(p[j] + n[j] - 1)
<1>1. PayloadOf(p[j], n[j]) \in Range(rs)
  BY DEF Listed
<1>2. p[j] \in Int /\ n[j] \in Int
  OBVIOUS
<1>3. Payload(p[j], n[j]) = p[j]..(p[j] + n[j] - 1)
  <2>1. p[j] + (n[j] - 1) = p[j] + n[j] - 1
    BY <1>2
  <2> QED  BY <2>1 DEF Payload
<1> QED  BY <1>1, <1>3 DEF Range

\* A payload that shares bytes with an old one and has no end in it contains it.
LEMMA PassedOverlap ==
    ASSUME NEW rs, NEW live \in SUBSET Ids, NEW p \in [Ids -> Int], NEW n \in [Ids -> Int],
           Listed(rs, live, p, n), NEW j \in live,
           NEW lo \in Int, NEW size \in Nat, size > 0, NEW e, RangeOK(rs, lo, size, e),
           Payload(p[j], n[j]) \cap Payload(lo, size) # {}
    PROVE  Inside(Payload(p[j], n[j]), Payload(lo, size))
<1> DEFINE hi == lo + size - 1
<1>1. PICK c, d : c = p[j] /\ d = p[j] + n[j] - 1
  OBVIOUS
<1>2. c \in Int /\ d \in Int /\ Payload(p[j], n[j]) = c..d
  BY <1>1, OldRange
<1>3. hi \in Int /\ lo <= hi /\ Payload(lo, size) = lo..hi
  BY DEF Payload
<1>4. PICK k \in DOMAIN rs : rs[k] = [lo |-> c, hi |-> d]
  BY <1>1, OldRange DEF PayloadOf
<1>5. ~(c <= lo /\ lo <= d) /\ ~(c <= hi /\ hi <= d)
  BY <1>4 DEF RangeOK, Within
<1> HIDE DEF hi
<1>6. PICK x : x \in c..d /\ x \in lo..hi
  BY <1>2, <1>3
<1>7. lo < c /\ d < hi
  BY <1>2, <1>3, <1>5, <1>6
<1>8. c..d \subseteq lo..hi /\ lo \notin c..d /\ hi \notin c..d
  BY <1>2, <1>3, <1>7
<1> QED  BY <1>2, <1>3, <1>8, Ends1 DEF Inside

LEMMA AcceptedBlock ==
    ASSUME MDriverAssumption,
           NEW rs, NEW live \in SUBSET Ids, NEW p \in [Ids -> Int], NEW n \in [Ids -> Int],
           Listed(rs, live, p, n), NEW a, Answer(a), a.p # NULL, NEW size \in Nat, size > 0,
           RangeOK(rs, a.p, size, a.brk),
           NEW used, used = PayloadsOf(live, p, n)
    PROVE  /\ AtMostContains(a, size, used)
           /\ "contains" \notin BadBlock(a, size, used) =>
                \A j \in live : Payload(p[j], n[j]) \cap Payload(a.p, size) = {}
           /\ Payload(a.p, size) \subseteq Addr
<1> DEFINE new == Payload(a.p, size)
<1>1. PICK lo \in Int : lo = a.p
  BY DEF Answer, Addr, MDriverAssumption
<1>2. PICK e \in Int : e = a.brk /\ e <= HeapMax + 1
  BY DEF Answer
<1>3. IsAligned(a.p)
  BY DEF RangeOK
<1>4. new \subseteq HeapLo..(e - 1) /\ new \subseteq Addr
  <2>1. PICK hi \in Int : hi = lo + size - 1
    BY <1>1
  <2>2. HeapLo <= lo /\ hi <= e - 1 /\ new = lo..hi
    BY <1>1, <1>2, <2>1 DEF RangeOK, InHeap, Payload
  <2>3. HeapLo \in Nat /\ HeapMax \in Nat
    BY DEF MDriverAssumption
  <2> QED  BY <1>2, <2>1, <2>2, <2>3 DEF Addr
<1>5. \A j \in live : Payload(p[j], n[j]) \cap new # {} => Inside(Payload(p[j], n[j]), new)
  BY <1>1, PassedOverlap
<1> HIDE DEF new
<1>6. \A old \in Overlaps(new, used) : Inside(old, new)
  BY <1>5 DEF Overlaps, PayloadsOf
<1>7. BadBlock(a, size, used) =
        {k \in {"misaligned", "outside", "overlap", "contains"} :
            \/ k = "misaligned" /\ ~IsAligned(a.p)
            \/ k = "outside" /\ ~(new \subseteq HeapLo..(a.brk - 1))
            \/ k = "overlap" /\ \E old \in Overlaps(new, used) : ~Inside(old, new)
            \/ k = "contains" /\ \E old \in Overlaps(new, used) : Inside(old, new)}
  BY DEF BadBlock, new
<1>8. BadBlock(a, size, used) \subseteq {"contains"}
  BY <1>2, <1>3, <1>4, <1>6, <1>7
<1>9. ASSUME "contains" \notin BadBlock(a, size, used), NEW j \in live
      PROVE  Payload(p[j], n[j]) \cap new = {}
  <2>1. ~ \E old \in Overlaps(new, used) : Inside(old, new)
    BY <1>7, <1>9
  <2> QED  BY <1>6, <2>1 DEF Overlaps, PayloadsOf
<1> QED  BY <1>4, <1>8, <1>9 DEF new, AtMostContains

LEMMA RefusedBlock ==
    ASSUME MDriverAssumption,
           NEW rs, NEW live \in SUBSET Ids, NEW p \in [Ids -> Int], NEW n \in [Ids -> Int],
           Listed(rs, live, p, n), NEW a, Answer(a), NEW size \in Nat, size > 0,
           a.p = NULL \/ ~RangeOK(rs, a.p, size, a.brk),
           NEW used, used = PayloadsOf(live, p, n)
    PROVE  BadBlock(a, size, used) # {}
<1>1. CASE a.p = NULL
  BY <1>1 DEF BadBlock
<1>2. CASE a.p # NULL
  <2> DEFINE new == Payload(a.p, size)
  <2>1. PICK lo \in Int, hi \in Int : lo = a.p /\ hi = lo + size - 1 /\ lo <= hi
    BY DEF Answer, Addr, MDriverAssumption
  <2>2. new = lo..hi
    BY <2>1 DEF Payload
  <2>3. ~RangeOK(rs, lo, size, a.brk)
    BY <1>2, <2>1
  <2>4. \/ ~IsAligned(a.p) \/ ~InHeap(lo, a.brk) \/ ~InHeap(hi, a.brk)
        \/ \E k \in DOMAIN rs : Within(lo, rs[k]) \/ Within(hi, rs[k])
    BY <2>1, <2>3 DEF RangeOK
  <2> HIDE DEF new
  <2>5. BadBlock(a, size, used) =
        {k \in {"misaligned", "outside", "overlap", "contains"} :
            \/ k = "misaligned" /\ ~IsAligned(a.p)
            \/ k = "outside" /\ ~(new \subseteq HeapLo..(a.brk - 1))
            \/ k = "overlap" /\ \E old \in Overlaps(new, used) : ~Inside(old, new)
            \/ k = "contains" /\ \E old \in Overlaps(new, used) : Inside(old, new)}
    BY <1>2 DEF BadBlock, new
  <2>6. CASE ~IsAligned(a.p)
    BY <2>5, <2>6
  <2>7. ASSUME ~InHeap(lo, a.brk) \/ ~InHeap(hi, a.brk) PROVE BadBlock(a, size, used) # {}
    <3>1. lo \in new /\ hi \in new
      BY <2>1, <2>2
    <3>2. lo \notin HeapLo..(a.brk - 1) \/ hi \notin HeapLo..(a.brk - 1)
      BY <2>1, <2>7 DEF InHeap
    <3>3. ~(new \subseteq HeapLo..(a.brk - 1))
      BY <3>1, <3>2
    <3> QED  BY <2>5, <3>3
  <2>8. ASSUME NEW k \in DOMAIN rs, Within(lo, rs[k]) \/ Within(hi, rs[k])
        PROVE  BadBlock(a, size, used) # {}
    <3>1. rs[k] \in Range(rs)
      BY DEF Range
    <3>2. PICK j \in live : rs[k] = PayloadOf(p[j], n[j])
      BY <3>1 DEF Listed
    <3>3. lo \in Payload(p[j], n[j]) \/ hi \in Payload(p[j], n[j])
      <4>1. PICK c \in Int, d \in Int : c = p[j] /\ d = p[j] + n[j] - 1
        OBVIOUS
      <4>2. Payload(p[j], n[j]) = c..d /\ rs[k].lo = c /\ rs[k].hi = d
        BY <3>2, <4>1, OldRange DEF PayloadOf
      <4> QED  BY <2>1, <2>8, <4>1, <4>2 DEF Within
    <3>4. lo \in new /\ hi \in new
      BY <2>1, <2>2
    <3>5. Payload(p[j], n[j]) \in Overlaps(new, used)
      BY <3>3, <3>4 DEF Overlaps, PayloadsOf
    <3>6. PICK old \in Overlaps(new, used) : TRUE
      BY <3>5
    <3>7. CASE Inside(old, new)
      BY <2>5, <3>6, <3>7
    <3>8. CASE ~Inside(old, new)
      BY <2>5, <3>6, <3>8
    <3> QED  BY <3>7, <3>8
  <2> QED  BY <2>4, <2>6, <2>7, <2>8
<1> QED  BY <1>1, <1>2

\* What the driver knows of the bytes after it has accepted a block and filled it.
LEMMA AcceptedData ==
    ASSUME MDriverAssumption,
           NEW rs, NEW live \in SUBSET Ids, NEW p \in [Ids -> Int], NEW n \in [Ids -> Int],
           Listed(rs, live, p, n), Lie(live, p, n), NEW a, Answer(a), a.p # NULL,
           NEW size \in Nat, size > 0, RangeOK(rs, a.p, size, a.brk),
           NEW used, used = PayloadsOf(live, p, n), NEW i \in Ids, i \notin live,
           NEW q, q = [p EXCEPT ![i] = a.p], NEW s, s = [n EXCEPT ![i] = size],
           NEW m, m = Memset(a.mem, a.p, i, size)
    PROVE  /\ m \in Bytes /\ Lie(live \cup {i}, q, s)
           /\ AtMostContains(a, size, used)
           /\ /\ Data(mem, live, p, n) /\ Scribbled(a, used) = {}
              /\ "contains" \notin BadBlock(a, size, used)
              => Data(m, live \cup {i}, q, s)
<1>1. /\ q[i] = a.p /\ s[i] = size /\ \A j \in live : q[j] = p[j] /\ s[j] = n[j]
  OBVIOUS
<1>2. m \in Bytes /\ \A b \in Addr : m[b] = IF b \in Payload(a.p, size) THEN ByteOf(i) ELSE a.mem[b]
  <2>1. ByteOf(i) \in 0..(Byte - 1) /\ a.mem \in Bytes
    BY ByteIs, MDriverAssumption DEF Answer, Ids, MDriverAssumption
  <2> QED  BY <2>1 DEF Memset, Bytes
<1>3. Payload(a.p, size) \subseteq Addr
  BY AcceptedBlock
<1>6. AtMostContains(a, size, used)
  BY AcceptedBlock
<1>4. Lie(live \cup {i}, q, s)
  BY <1>1, <1>3 DEF Lie
<1>5. ASSUME Data(mem, live, p, n), Scribbled(a, used) = {}, "contains" \notin BadBlock(a, size, used)
      PROVE  Data(m, live \cup {i}, q, s)
  <2>1. \A b \in Payload(a.p, size) : m[b] = ByteOf(i)
    BY <1>2, <1>3
  <2>2. ASSUME NEW j \in live, NEW b \in Payload(p[j], n[j]) PROVE m[b] = ByteOf(j)
    <3>1. b \notin Payload(a.p, size)
      BY <1>5, AcceptedBlock
    <3>2. b \in Addr
      BY DEF Lie
    <3>3. a.mem[b] = mem[b]
      BY <1>5 DEF Scribbled, PayloadsOf
    <3>4. mem[b] = ByteOf(j)
      BY <1>5 DEF Data
    <3> QED  BY <1>2, <3>1, <3>2, <3>3, <3>4
  <2> QED  BY <1>1, <2>1, <2>2 DEF Data
<1> QED  BY <1>2, <1>6, <1>4, <1>5

-----------------------------------------------------------------------------
(* The invariant of the grade. *)

AnySeq(s) == \E S : s \in Seq(S)

Stored ==
    /\ mem \in Bytes
    /\ pc = "valid" => brk \in Int /\ Lie(InUse(NoId), blocks, block_sizes)

\* While nobody has overwritten a block, each holds what the driver wrote into it.
Truthful ==
    pc = "valid" /\ breach \cap Unseen = {} => Data(mem, InUse(NoId), blocks, block_sizes)

\* What stands in stats and errors, by how far main is.
Invalid(s) == {k \in DOMAIN s : ~s[k].valid}
Sums ==
    /\ tn \in Nat /\ AnySeq(stats) /\ \A k \in DOMAIN stats : stats[k].valid \in BOOLEAN
    /\ pc # "failed" => errors = Cardinality(Invalid(stats))
    /\ pc \in {"init_fsecs", "libc_read", "libc_valid", "libc_speed", "libc_next"} => Len(stats) = 0
    /\ pc = "init_fsecs" => tn = 1
    /\ pc \in {"read", "init", "valid", "util"} => Len(stats) = tn - 1
    /\ pc \in {"speed", "next"} => Len(stats) = tn
    /\ pc = "speed" => Last(stats).valid
    /\ pc \in {"results", "done"} => Len(stats) = Len(setup.files)
    /\ pc = "done" => printed.index = (printed.numcorrect = Len(setup.files))

GradeInv ==
    /\ DriverInv /\ Stored /\ Truthful
    /\ NotAcceptedWrongly /\ NotRefusedWrongly /\ Sums

LEMMA LeastOfTwo ==
    ASSUME NEW x \in Int, NEW y \in Int
    PROVE  Min({x, y}) \in {x, y} /\ Min({x, y}) <= x /\ Min({x, y}) <= y
<1>1. CASE x <= y
  <2>1. x \in {x, y} /\ \A z \in {x, y} : x <= z
    BY <1>1
  <2> QED  BY <2>1 DEF Min
<1>2. CASE y <= x
  <2>1. y \in {x, y} /\ \A z \in {x, y} : y <= z
    BY <1>2
  <2> QED  BY <2>1 DEF Min
<1> QED  BY <1>1, <1>2

LEMMA WrittenAreBytes ==
    ASSUME NEW m \in Bytes, NEW e PROVE Written(m, e) \subseteq Bytes
<1> SUFFICES ASSUME NEW w \in Scribbles
             PROVE  [a \in Addr |-> IF a \in DOMAIN w THEN w[a] ELSE m[a]] \in Bytes
  BY DEF Written
<1>1. PICK places \in SUBSET Addr : w \in [places -> 0..(Byte - 1)]
  BY ScribblesAssumption DEF ScribblesAssumption
<1>2. \A a \in Addr : (IF a \in DOMAIN w THEN w[a] ELSE m[a]) \in 0..(Byte - 1)
  BY <1>1 DEF Bytes
<1> QED  BY <1>2 DEF Bytes

LEMMA EndsAre ==
    ASSUME MDriverAssumption, brk \in Int, NEW e \in Ends
    PROVE  e \in Int /\ brk <= e /\ e <= HeapMax + 1
BY DEF Ends, MDriverAssumption

LEMMA MallocAnswers ==
    ASSUME MDriverAssumption, Stored, pc = "valid", NEW a \in MmMalloc
    PROVE  Answer(a)
<1>1. PICK e \in Ends : a.p \in Addr /\ a.brk = e /\ a.mem \in Written(mem, e)
  BY DEF MmMalloc
<1>2. e \in Int /\ e <= HeapMax + 1
  BY EndsAre DEF Stored
<1>3. a.mem \in Bytes
  BY <1>1, WrittenAreBytes DEF Stored
<1> QED  BY <1>1, <1>2, <1>3 DEF Answer

LEMMA FreeAnswers ==
    ASSUME MDriverAssumption, Stored, pc = "valid", NEW a \in MmFree
    PROVE  a.brk \in Int /\ brk <= a.brk /\ a.mem \in Bytes
<1>1. PICK e \in Ends : a.brk = e /\ a.mem \in Written(mem, e)
  BY DEF MmFree
<1>2. e \in Int /\ brk <= e
  BY EndsAre DEF Stored
<1> QED  BY <1>1, <1>2, WrittenAreBytes DEF Stored

LEMMA ReallocAnswers ==
    ASSUME MDriverAssumption, Stored, pc = "valid", NEW oldp \in Int, NEW oldsize \in Int, NEW size \in Int,
           Payload(oldp, oldsize) \subseteq Addr, NEW a \in MmRealloc(oldp, oldsize, size)
    PROVE  Answer(a)
<1>1. PICK newp \in Addr, e \in Ends, n \in {0, Min({oldsize, size})} :
        newp = a.p /\ e = a.brk /\ a.mem \in Written(MovedTo(oldp, newp, n), e)
  BY MmReallocIs
<1>2. e \in Int /\ e <= HeapMax + 1 /\ newp \in Int
  BY EndsAre DEF Addr, MDriverAssumption, Stored
<1>3. n \in Int /\ (n <= oldsize \/ n = 0)
  <2>1. Min({oldsize, size}) \in Int /\ Min({oldsize, size}) <= oldsize
    BY LeastOfTwo
  <2> QED  BY <2>1
<1>4. mem \in Bytes
  BY DEF Stored
<1>5. ASSUME NEW x \in Addr, x \in newp..(newp + n - 1) PROVE x - newp + oldp \in Addr
  <2>1. x \in Int /\ newp <= x /\ x <= newp + n - 1
    BY <1>2, <1>3, <1>5
  <2>2. n <= oldsize
    BY <1>2, <1>3, <2>1
  <2>3. x - newp + oldp \in oldp..(oldp + (oldsize - 1))
    BY <1>2, <1>3, <2>1, <2>2
  <2>4. oldp + (oldsize - 1) = oldp + oldsize - 1
    OBVIOUS
  <2> QED  BY <2>3, <2>4 DEF Payload
<1>6. a.mem \in Bytes
  <2>1. \A x \in Addr : (IF x \in newp..(newp + n - 1) THEN mem[x - newp + oldp] ELSE mem[x]) \in 0..(Byte - 1)
    BY <1>4, <1>5 DEF Bytes
  <2>2. MovedTo(oldp, newp, n) \in Bytes
    BY <2>1 DEF Bytes, MovedTo
  <2> QED  BY <1>1, <2>2, WrittenAreBytes
<1> QED  BY <1>1, <1>2, <1>6 DEF Answer

LEMMA UsedIs ==
    ASSUME NEW i \in Ids
    PROVE  /\ InUse(NoId) \ {i} \in SUBSET Ids /\ InUse(NoId) \in SUBSET Ids
           /\ Used(i) = PayloadsOf(InUse(NoId) \ {i}, blocks, block_sizes)
<1>1. InUse(i) = InUse(NoId) \ {i} /\ InUse(NoId) \in SUBSET Ids
  BY NoIdIsNone DEF InUse
<1> QED  BY <1>1 DEF Used, PayloadsOf

\* What a trace has written.
LEMMA AppendIs ==
    ASSUME NEW s, AnySeq(s), NEW x
    PROVE  /\ AnySeq(Append(s, x)) /\ Len(Append(s, x)) = Len(s) + 1 /\ Len(s) \in Nat
           /\ DOMAIN s = 1..Len(s) /\ DOMAIN Append(s, x) = 1..(Len(s) + 1)
           /\ Last(Append(s, x)) = x /\ Append(s, x)[Len(s) + 1] = x
           /\ \A k \in DOMAIN s : Append(s, x)[k] = s[k]
<1>1. PICK S : s \in Seq(S)
  BY DEF AnySeq
<1>2. PICK T : T = S \cup {x}
  OBVIOUS
<1>3. s \in Seq(T) /\ x \in T
  <2>1. S \subseteq T
    BY <1>2
  <2> QED  BY <1>1, <1>2, <2>1, SeqMonotonic
<1>4. Append(s, x) \in Seq(T)
  BY <1>3
<1>5. /\ Len(Append(s, x)) = Len(s) + 1 /\ Len(s) \in Nat
      /\ DOMAIN s = 1..Len(s) /\ DOMAIN Append(s, x) = 1..(Len(s) + 1)
      /\ Append(s, x)[Len(s) + 1] = x
      /\ \A k \in DOMAIN s : Append(s, x)[k] = s[k]
  BY <1>3
<1>6. Last(Append(s, x)) = x
  BY <1>5 DEF Last
<1> QED  BY <1>4, <1>5, <1>6 DEF AnySeq

LEMMA InvalidAppend ==
    ASSUME NEW s, AnySeq(s), NEW x
    PROVE  /\ Cardinality(Invalid(s)) \in Nat
           /\ x.valid => Cardinality(Invalid(Append(s, x))) = Cardinality(Invalid(s))
           /\ ~x.valid => Cardinality(Invalid(Append(s, x))) = Cardinality(Invalid(s)) + 1
<1>1. /\ Len(s) \in Nat /\ DOMAIN s = 1..Len(s) /\ DOMAIN Append(s, x) = 1..(Len(s) + 1)
      /\ Append(s, x)[Len(s) + 1] = x /\ \A k \in DOMAIN s : Append(s, x)[k] = s[k]
  BY AppendIs
<1>2. IsFiniteSet(Invalid(s)) /\ Cardinality(Invalid(s)) \in Nat
  <2>1. IsFiniteSet(1..Len(s))
    <3>1. 1 \in Int /\ Len(s) \in Int
      BY <1>1
    <3> QED  BY <3>1, FS_Interval, Zenon
  <2> QED  BY <1>1, <2>1, FS_Subset, FS_CardinalityType DEF Invalid
<1>3. 1..(Len(s) + 1) = (1..Len(s)) \cup {Len(s) + 1} /\ Len(s) + 1 \notin 1..Len(s)
  BY <1>1
<1>4. Invalid(Append(s, x)) = Invalid(s) \cup (IF x.valid THEN {} ELSE {Len(s) + 1})
      /\ Len(s) + 1 \notin Invalid(s)
  BY <1>1, <1>3 DEF Invalid
<1>5. ASSUME x.valid PROVE Cardinality(Invalid(Append(s, x))) = Cardinality(Invalid(s))
  <2>1. Invalid(Append(s, x)) = Invalid(s)
    BY <1>4, <1>5
  <2> QED  BY <2>1
<1>6. ASSUME ~x.valid PROVE Cardinality(Invalid(Append(s, x))) = Cardinality(Invalid(s)) + 1
  <2>1. Cardinality(Invalid(s) \cup {Len(s) + 1}) = Cardinality(Invalid(s)) + 1
    BY <1>2, <1>4, FS_AddElement
  <2> QED  BY <1>4, <1>6, <2>1
<1> QED  BY <1>2, <1>5, <1>6

LEMMA FailsSums ==
    ASSUME Sums, pc \in {"init", "valid"}, Fails, UNCHANGED tn
    PROVE  Sums' /\ Last(stats').valid = FALSE
<1> DEFINE x == [valid |-> FALSE, util |-> <<0, 1>>]
<1>1. stats' = Append(stats, x) /\ errors' = errors + 1 /\ pc' = "next" /\ x.valid = FALSE
  BY DEF Fails
<1> HIDE DEF x
<1>2. /\ AnySeq(stats) /\ tn \in Nat /\ Len(stats) = tn - 1 /\ errors = Cardinality(Invalid(stats))
      /\ \A k \in DOMAIN stats : stats[k].valid \in BOOLEAN
  BY DEF Sums
<1>3. /\ AnySeq(stats') /\ Len(stats') = Len(stats) + 1 /\ Len(stats) \in Nat
      /\ DOMAIN stats = 1..Len(stats) /\ DOMAIN stats' = 1..(Len(stats) + 1)
      /\ Last(stats') = x /\ stats'[Len(stats) + 1] = x
      /\ \A k \in DOMAIN stats : stats'[k] = stats[k]
  BY <1>1, <1>2, AppendIs
<1>4. Cardinality(Invalid(stats')) = Cardinality(Invalid(stats)) + 1
  BY <1>1, <1>2, InvalidAppend
<1>5. \A k \in DOMAIN stats' : stats'[k].valid \in BOOLEAN
  <2>1. \A k \in DOMAIN stats' : k \in DOMAIN stats \/ k = Len(stats) + 1
    BY <1>3
  <2> QED  BY <1>1, <1>2, <1>3, <2>1
<1>6. Len(stats') = tn'
  BY <1>2, <1>3
<1> QED  BY <1>1, <1>2, <1>3, <1>4, <1>5, <1>6 DEF Sums, Invalid

-----------------------------------------------------------------------------
(* The steps of eval_mm_valid. *)

LEMMA StartValidGrades ==
    ASSUME TracesOK, MDriverAssumption, GradeInv, StartValid
    PROVE  GradeInv'
<1>1. /\ pc = "init" /\ brk' = HeapLo /\ op' = 1
      /\ UNCHANGED <<tn, setup, mem>>
      /\ \/ pc' = "valid" /\ breach' = {} /\ UNCHANGED <<errors, stats>>
         \/ Fails /\ breach' = {"null"}
  BY DEF StartValid, traces
<1>2. DriverInv'
  BY StartValidKeeps DEF GradeInv
<1>3. InUse(NoId)' = {}
  BY <1>1, HeldFirst DEF InUse
<1>4. Stored' /\ Truthful'
  BY <1>1, <1>3 DEF Stored, Truthful, GradeInv, Lie, Data, MDriverAssumption
<1>5. CASE pc' = "valid" /\ breach' = {} /\ UNCHANGED <<errors, stats>>
  BY <1>1, <1>2, <1>4, <1>5 DEF GradeInv, NotAcceptedWrongly, NotRefusedWrongly, Sums, Invalid
<1>6. CASE Fails /\ breach' = {"null"}
  <2>1. Sums'
    BY <1>1, <1>6, FailsSums DEF GradeInv
  <2>2. NotAcceptedWrongly' /\ NotRefusedWrongly'
    BY <1>6 DEF Fails, NotAcceptedWrongly, NotRefusedWrongly
  <2> QED  BY <1>2, <1>4, <2>1, <2>2 DEF GradeInv
<1> QED  BY <1>1, <1>5, <1>6

\* A block is accepted: what the driver believes stays true of what the package did.
LEMMA AcceptGrades ==
    ASSUME TracesOK, MDriverAssumption, GradeInv, DriverInv', pc = "valid", pc' = "valid",
           NEW i \in Ids, InUse(NoId)' = (InUse(NoId) \ {i}) \cup {i},
           NEW rs, Listed(rs, InUse(NoId) \ {i}, blocks, block_sizes),
           NEW a, Answer(a), a.p # NULL, NEW size \in Nat, size > 0, RangeOK(rs, a.p, size, a.brk),
           blocks' = [blocks EXCEPT ![i] = a.p], block_sizes' = [block_sizes EXCEPT ![i] = size],
           brk' = a.brk, mem' = Memset(a.mem, a.p, i, size),
           NEW lost, lost \subseteq {"lost"},
           breach' = breach \cup BadBlock(a, size, Used(i)) \cup Scribbled(a, Used(i)) \cup lost,
           breach' \cap Unseen = {} => lost = {},
           UNCHANGED <<tn, setup, errors, stats>>
    PROVE  GradeInv'
<1> DEFINE live == InUse(NoId) \ {i}
           used == Used(i)
<1>1. /\ live \in SUBSET Ids /\ i \notin live /\ live \subseteq InUse(NoId)
      /\ used = PayloadsOf(live, blocks, block_sizes)
  BY UsedIs
<1>2. /\ blocks \in [Ids -> Int] /\ block_sizes \in [Ids -> Int]
  BY DEF GradeInv, DriverInv, Setting
<1>3. Lie(live, blocks, block_sizes)
  BY <1>1 DEF GradeInv, Stored, Lie
<1>4. Listed(rs, live, blocks, block_sizes) /\ InUse(NoId)' = live \cup {i}
  OBVIOUS
<1> HIDE DEF live, used
<1>5. /\ AtMostContains(a, size, used)
      /\ mem' \in Bytes /\ Lie(live \cup {i}, blocks', block_sizes')
      /\ /\ Data(mem, live, blocks, block_sizes) /\ Scribbled(a, used) = {}
         /\ "contains" \notin BadBlock(a, size, used)
         => Data(mem', live \cup {i}, blocks', block_sizes')
  <2>1. PICK q, s, m : q = blocks' /\ s = block_sizes' /\ m = mem'
    OBVIOUS
  <2>2. /\ m \in Bytes /\ Lie(live \cup {i}, q, s) /\ AtMostContains(a, size, used)
        /\ /\ Data(mem, live, blocks, block_sizes) /\ Scribbled(a, used) = {}
           /\ "contains" \notin BadBlock(a, size, used)
           => Data(m, live \cup {i}, q, s)
    BY <1>1, <1>2, <1>3, <1>4, <2>1, AcceptedData
  <2> QED  BY <2>1, <2>2
<1>7. breach' = breach \cup BadBlock(a, size, used) \cup Scribbled(a, used) \cup lost
  BY DEF used
<1>8. Scribbled(a, used) \subseteq {"scribbled"}
  BY DEF Scribbled
<1>9. PICK bad \in SUBSET {"contains"}, scr \in SUBSET {"scribbled"} :
        bad = BadBlock(a, size, used) /\ scr = Scribbled(a, used)
  BY <1>5, <1>8 DEF AtMostContains
<1>10. breach' = breach \cup bad \cup scr \cup lost
  BY <1>7, <1>9
<1>11. ASSUME breach' \cap Unseen = {} PROVE breach \cap Unseen = {} /\ bad = {} /\ scr = {}
  BY <1>10, <1>11 DEF Unseen
<1>12. Stored'
  BY <1>4, <1>5 DEF Stored, Answer
<1>13. Truthful'
  <2> SUFFICES ASSUME breach' \cap Unseen = {}
               PROVE  Data(mem', InUse(NoId)', blocks', block_sizes')
    BY DEF Truthful
  <2>1. Data(mem, InUse(NoId), blocks, block_sizes)
    BY <1>11 DEF GradeInv, Truthful
  <2>2. Data(mem, live, blocks, block_sizes)
    BY <1>1, <2>1 DEF Data
  <2>3. Scribbled(a, used) = {} /\ "contains" \notin BadBlock(a, size, used)
    BY <1>9, <1>11
  <2> QED  BY <1>4, <1>5, <2>2, <2>3
<1>14. NotAcceptedWrongly'
  <2>1. breach \subseteq Unseen \cup {"lost"} /\ ("lost" \in breach => breach \cap Unseen # {})
    BY DEF GradeInv, NotAcceptedWrongly
  <2>2. breach' \subseteq Unseen \cup {"lost"}
    BY <1>10, <2>1 DEF Unseen
  <2>3. "lost" \in breach' => breach' \cap Unseen # {}
    <3>1. breach \subseteq breach' /\ ("lost" \in breach' => "lost" \in breach \/ lost # {})
      BY <1>10
    <3> QED  BY <2>1, <3>1
  <2> QED  BY <2>2, <2>3 DEF NotAcceptedWrongly
<1>15. NotRefusedWrongly'
  BY DEF NotRefusedWrongly
<1>16. Sums'
  BY DEF GradeInv, Sums, Invalid
<1> QED  BY <1>12, <1>13, <1>14, <1>15, <1>16 DEF GradeInv

\* A block is refused: the package has broken its contract, or the bytes of a right
\* one have been compared as signed characters.
LEMMA RefuseGrades ==
    ASSUME GradeInv, DriverInv', pc = "valid", Fails, UNCHANGED <<tn, setup, op>>, mem' \in Bytes,
           breach' = {} => Op.type = "r" /\ ByteOf(Op.index) >= Byte \div 2
    PROVE  GradeInv'
<1>1. pc' = "next" /\ Op' = Op
  BY DEF Fails, Op, File
<1>2. Sums'
  BY FailsSums DEF GradeInv
<1>3. Stored' /\ Truthful' /\ NotAcceptedWrongly'
  BY <1>1 DEF Stored, Truthful, NotAcceptedWrongly
<1>4. NotRefusedWrongly'
  BY <1>1 DEF NotRefusedWrongly
<1> QED  BY <1>2, <1>3, <1>4 DEF GradeInv

LEMMA ValidAllocGrades ==
    ASSUME TracesOK, MDriverAssumption, GradeInv, ValidAlloc
    PROVE  GradeInv'
<1>1. PICK a \in MmMalloc :
         /\ brk' = a.brk
         /\ breach' = breach \cup BadBlock(a, Op.size, Used(Op.index))
                             \cup Scribbled(a, Used(Op.index))
         /\ IF a.p # NULL /\ RangeOK(ranges, a.p, Op.size, a.brk)
            THEN /\ ranges' = AddRange(ranges, a.p, Op.size)
                 /\ mem' = Memset(a.mem, a.p, Op.index, Op.size)
                 /\ Remember(Op.index, a.p, Op.size) /\ op' = op + 1
                 /\ UNCHANGED <<pc, errors, stats>>
            ELSE Fails /\ mem' = a.mem /\ UNCHANGED <<op, ranges, blocks, block_sizes>>
  BY DEF ValidAlloc
<1>2. pc = "valid" /\ At("a") /\ UNCHANGED <<setup, tn>>
  BY DEF ValidAlloc
<1>3. DriverInv' /\ DriverInv
  BY ValidAllocKeeps DEF GradeInv
<1>4. Answer(a)
  BY <1>2, MallocAnswers DEF GradeInv
<1>5. PICK i \in Ids, size \in Nat : i = Op.index /\ size = Op.size /\ size > 0 /\ i \notin InUse(NoId)
  BY <1>2, <1>3, RequestIs
<1>6. /\ InUse(NoId) \ {i} = InUse(NoId) /\ InUse(NoId) \in SUBSET Ids
      /\ Used(i) = PayloadsOf(InUse(NoId), blocks, block_sizes)
  <2>1. InUse(NoId) \ {i} = InUse(NoId)
    BY <1>5
  <2> QED  BY <2>1, UsedIs
<1>7. /\ blocks \in [Ids -> Int] /\ block_sizes \in [Ids -> Int]
      /\ Listed(ranges, InUse(NoId), blocks, block_sizes)
  BY <1>2, <1>3 DEF DriverInv, Setting, InTheList
<1>8. ASSUME ~(a.p # NULL /\ RangeOK(ranges, a.p, size, a.brk)) PROVE GradeInv'
  <2>1. Fails /\ mem' = a.mem /\ UNCHANGED op
    BY <1>1, <1>5, <1>8
  <2>2. BadBlock(a, size, Used(i)) # {}
    <3> DEFINE L == InUse(NoId)
    <3>1. L \in SUBSET Ids /\ Listed(ranges, L, blocks, block_sizes)
          /\ Used(i) = PayloadsOf(L, blocks, block_sizes)
      BY <1>6, <1>7
    <3> HIDE DEF L
    <3> QED  BY <1>4, <1>5, <1>7, <1>8, <3>1, RefusedBlock
  <2>3. breach' # {}
    BY <1>1, <1>5, <2>2
  <2>4. mem' \in Bytes
    BY <1>4, <2>1 DEF Answer
  <2> QED  BY <1>2, <1>3, <2>1, <2>3, <2>4, RefuseGrades
<1>9. ASSUME a.p # NULL, RangeOK(ranges, a.p, size, a.brk) PROVE GradeInv'
  <2>1. /\ mem' = Memset(a.mem, a.p, i, size)
        /\ blocks' = [blocks EXCEPT ![i] = a.p] /\ block_sizes' = [block_sizes EXCEPT ![i] = size]
        /\ op' = op + 1 /\ UNCHANGED <<pc, errors, stats>>
    BY <1>1, <1>5, <1>9 DEF Remember
  <2>2. InUse(NoId)' = (InUse(NoId) \ {i}) \cup {i}
    BY <1>2, <1>3, <1>5, <1>6, <2>1, InUseNext
  <2>3. Listed(ranges, InUse(NoId) \ {i}, blocks, block_sizes)
    BY <1>6, <1>7
  <2>4. PICK lost : lost = {}
    OBVIOUS
  <2>5. breach' = breach \cup BadBlock(a, size, Used(i)) \cup Scribbled(a, Used(i)) \cup lost
    BY <1>1, <1>5, <2>4
  <2>6. /\ pc = "valid" /\ pc' = "valid" /\ brk' = a.brk /\ lost \subseteq {"lost"}
        /\ (breach' \cap Unseen = {} => lost = {}) /\ UNCHANGED <<tn, setup, errors, stats>>
    BY <1>1, <1>2, <2>1, <2>4
  <2> QED  BY <1>3, <1>4, <1>5, <1>9, <2>1, <2>2, <2>3, <2>5, <2>6, AcceptGrades
<1> QED  BY <1>8, <1>9

\* A byte read as a signed character is its number only below half of the range.
LEMMA SignedByte ==
    ASSUME MDriverAssumption, NEW b \in 0..(Byte - 1), NEW v \in 0..(Byte - 1)
    PROVE  (SignedChar(b) = v => b = v) /\ (b = v /\ SignedChar(b) # v => v >= Byte \div 2)
<1>1. PICK h : h = Byte \div 2
  OBVIOUS
<1>2. Byte \in Nat /\ SignedChar(b) = IF b >= h THEN b - Byte ELSE b
  BY <1>1 DEF SignedChar, MDriverAssumption
<1>3. b - Byte < 0
  BY <1>2
<1> QED  BY <1>1, <1>2, <1>3

\* The bytes of a block that realloc answers with, when nobody has overwritten any.
LEMMA MovedBytes ==
    ASSUME MDriverAssumption, GradeInv, pc = "valid", breach \cap Unseen = {},
           NEW i \in InUse(NoId), NEW a, Answer(a), NEW size \in Nat, size > 0,
           NEW rs, RangeOK(rs, a.p, size, a.brk),
           NEW old \in Int, old <= size, old <= block_sizes[i], NEW j \in 0..(old - 1)
    PROVE  /\ mem[blocks[i] + j] = ByteOf(i) /\ ByteOf(i) \in 0..(Byte - 1)
           /\ a.p + j \in Addr /\ a.mem[a.p + j] \in 0..(Byte - 1)
<1>1. i \in Ids /\ InUse(NoId) \in SUBSET Ids
  BY DEF InUse
<1>2. PICK p \in Int, n \in Int : p = blocks[i] /\ n = block_sizes[i]
  BY <1>1 DEF GradeInv, DriverInv, Setting
<1>3. p + j \in p..(p + n - 1)
  BY <1>2
<1>4. p + j \in Payload(blocks[i], block_sizes[i])
  <2>1. p + (n - 1) = p + n - 1
    OBVIOUS
  <2> QED  BY <1>2, <1>3, <2>1 DEF Payload
<1>5. mem[blocks[i] + j] = ByteOf(i)
  BY <1>2, <1>4 DEF GradeInv, Truthful, Data
<1>6. ByteOf(i) \in 0..(Byte - 1)
  BY <1>1, ByteIs, MDriverAssumption DEF Ids, MDriverAssumption
<1>7. a.p + j \in Addr
  <2>1. PICK q \in Int, e \in Int : q = a.p /\ e = a.brk /\ e <= HeapMax + 1
    BY DEF Answer, Addr, MDriverAssumption
  <2>2. HeapLo <= q /\ q + size - 1 <= e - 1
    BY <2>1 DEF RangeOK, InHeap
  <2>3. HeapLo \in Nat /\ HeapMax \in Nat
    BY DEF MDriverAssumption
  <2>4. q + j \in 0..HeapMax
    BY <2>1, <2>2, <2>3
  <2> QED  BY <2>1, <2>4 DEF Addr
<1>8. a.mem[a.p + j] \in 0..(Byte - 1)
  BY <1>7 DEF Answer, Bytes
<1> QED  BY <1>5, <1>6, <1>7, <1>8

LEMMA ValidReallocGrades ==
    ASSUME TracesOK, MDriverAssumption, GradeInv, ValidRealloc
    PROVE  GradeInv'
<1>1. pc = "valid" /\ At("r") /\ UNCHANGED <<setup, tn>>
  BY DEF ValidRealloc
<1>2. DriverInv' /\ DriverInv
  BY ValidReallocKeeps DEF GradeInv
<1>3. PICK i \in Ids, size \in Nat : i = Op.index /\ size = Op.size /\ size > 0 /\ i \in InUse(NoId)
  BY <1>1, <1>2, RequestIs
<1>4. Op.type = "r"
  BY <1>1 DEF At
<1>5. PICK oldp \in Int, all \in Int : oldp = blocks[i] /\ all = block_sizes[i]
  BY <1>1, <1>2 DEF DriverInv, Setting
<1>6. PICK old \in Int : old = Min({size, all}) /\ old <= size /\ old <= all
  <2>1. PICK s \in Int : s = size
    OBVIOUS
  <2>2. Min({s, all}) \in {s, all} /\ Min({s, all}) <= s /\ Min({s, all}) <= all
    BY LeastOfTwo
  <2>3. Min({s, all}) \in Int
    BY <2>2
  <2> QED  BY <2>1, <2>2, <2>3
<1>7. PICK rest : rest = RemoveRange(ranges, oldp)
  OBVIOUS
<1>8. PICK a \in MmRealloc(oldp, all, size) :
         LET inside == a.p # NULL /\ RangeOK(rest, a.p, size, a.brk)
             kept == \A j \in 0..(old - 1) : SignedChar(a.mem[a.p + j]) = ByteOf(i)
         IN /\ brk' = a.brk
            /\ breach' = breach \cup BadBlock(a, size, Used(i)) \cup Scribbled(a, Used(i))
                                \cup Lost(a, oldp, old)
            /\ IF inside /\ kept
               THEN /\ mem' = Memset(a.mem, a.p, i, size)
                    /\ Remember(i, a.p, size) /\ op' = op + 1
                    /\ UNCHANGED <<pc, errors, stats>>
               ELSE Fails /\ mem' = a.mem /\ UNCHANGED <<op, blocks, block_sizes>>
  BY <1>3, <1>5, <1>6, <1>7 DEF ValidRealloc
<1>9. Answer(a)
  <2>1. Payload(oldp, all) \subseteq Addr /\ Stored
    BY <1>1, <1>3, <1>5 DEF GradeInv, Stored, Lie
  <2> QED  BY <1>1, <2>1, ReallocAnswers
<1>10. /\ Used(i) = PayloadsOf(InUse(NoId) \ {i}, blocks, block_sizes)
       /\ InUse(NoId) \ {i} \in SUBSET Ids /\ InUse(NoId) \in SUBSET Ids
  BY UsedIs
<1>11. blocks \in [Ids -> Int] /\ block_sizes \in [Ids -> Int]
  BY <1>1, <1>2 DEF DriverInv, Setting
<1>12. Listed(rest, InUse(NoId) \ {i}, blocks, block_sizes)
  <2> DEFINE L == InUse(NoId)
  <2>1. L \in SUBSET Ids /\ i \in L /\ Listed(ranges, L, blocks, block_sizes)
    BY <1>1, <1>2, <1>3, <1>10 DEF DriverInv, InTheList
  <2> HIDE DEF L
  <2>2. Listed(RemoveRange(ranges, blocks[i]), L \ {i}, blocks, block_sizes)
    BY <1>11, <2>1, RemoveListed
  <2> QED  BY <1>5, <1>7, <2>2 DEF L
<1>13. PICK lost : lost = Lost(a, oldp, old) /\ lost \subseteq {"lost"}
  BY DEF Lost
<1>14. breach' = breach \cup BadBlock(a, size, Used(i)) \cup Scribbled(a, Used(i)) \cup lost
  BY <1>8, <1>13
<1>15. breach \subseteq breach' /\ lost \subseteq breach'
  BY <1>14
<1> DEFINE inside == a.p # NULL /\ RangeOK(rest, a.p, size, a.brk)
           kept == \A j \in 0..(old - 1) : SignedChar(a.mem[a.p + j]) = ByteOf(i)
<1>16. ASSUME ~inside PROVE GradeInv'
  <2>1. Fails /\ mem' = a.mem /\ UNCHANGED op
    BY <1>8, <1>16
  <2>2. BadBlock(a, size, Used(i)) # {}
    <3> DEFINE L == InUse(NoId) \ {i}
    <3>1. L \in SUBSET Ids /\ Listed(rest, L, blocks, block_sizes)
          /\ Used(i) = PayloadsOf(L, blocks, block_sizes)
      BY <1>10, <1>12
    <3> HIDE DEF L
    <3>2. a.p = NULL \/ ~RangeOK(rest, a.p, size, a.brk)
      BY <1>16
    <3> HIDE DEF inside, kept
    <3> QED  BY <1>3, <1>9, <1>11, <3>1, <3>2, RefusedBlock
  <2>3. breach' # {}
    BY <1>14, <2>2
  <2>4. mem' \in Bytes
    BY <1>9, <2>1 DEF Answer
  <2> HIDE DEF inside, kept
  <2> QED  BY <1>1, <1>2, <2>1, <2>3, <2>4, RefuseGrades
<1>17. ASSUME inside, ~kept PROVE GradeInv'
  <2>1. Fails /\ mem' = a.mem /\ UNCHANGED op
    BY <1>8, <1>17
  <2>2. ASSUME breach' = {} PROVE ByteOf(i) >= Byte \div 2
    <3>1. PICK j \in 0..(old - 1) : SignedChar(a.mem[a.p + j]) # ByteOf(i)
      BY <1>17
    <3>2. breach \cap Unseen = {} /\ lost = {} /\ RangeOK(rest, a.p, size, a.brk)
      BY <1>15, <1>17, <2>2
    <3> HIDE DEF inside, kept
    <3>3. /\ mem[blocks[i] + j] = ByteOf(i) /\ ByteOf(i) \in 0..(Byte - 1)
          /\ a.p + j \in Addr /\ a.mem[a.p + j] \in 0..(Byte - 1)
      BY <1>1, <1>3, <1>5, <1>6, <1>9, <3>2, MovedBytes
    <3>4. a.mem[a.p + j] = mem[oldp + j]
      BY <1>13, <3>2, <3>3 DEF Lost
    <3>5. a.mem[a.p + j] = ByteOf(i)
      BY <1>5, <3>3, <3>4
    <3> QED  BY <3>1, <3>3, <3>5, SignedByte
  <2>3. mem' \in Bytes
    BY <1>9, <2>1 DEF Answer
  <2>4. breach' = {} => Op.type = "r" /\ ByteOf(Op.index) >= Byte \div 2
    BY <1>3, <1>4, <2>2
  <2> HIDE DEF inside, kept
  <2> QED  BY <1>1, <1>2, <2>1, <2>3, <2>4, RefuseGrades
<1>18. ASSUME inside, kept PROVE GradeInv'
  <2>1. /\ mem' = Memset(a.mem, a.p, i, size)
        /\ blocks' = [blocks EXCEPT ![i] = a.p] /\ block_sizes' = [block_sizes EXCEPT ![i] = size]
        /\ op' = op + 1 /\ UNCHANGED <<pc, errors, stats>>
    BY <1>8, <1>18 DEF Remember
  <2>2. InUse(NoId)' = (InUse(NoId) \ {i}) \cup {i}
    BY <1>1, <1>2, <1>3, <1>10, <2>1, InUseNext
  <2>3. ASSUME breach' \cap Unseen = {} PROVE lost = {}
    <3>1. breach \cap Unseen = {} /\ RangeOK(rest, a.p, size, a.brk)
      BY <1>15, <1>18, <2>3
    <3>2. ASSUME NEW j \in 0..(old - 1) PROVE a.mem[a.p + j] = mem[oldp + j]
      <4>1. SignedChar(a.mem[a.p + j]) = ByteOf(i)
        BY <1>18
      <4> HIDE DEF inside, kept
      <4>2. /\ mem[blocks[i] + j] = ByteOf(i) /\ ByteOf(i) \in 0..(Byte - 1)
            /\ a.p + j \in Addr /\ a.mem[a.p + j] \in 0..(Byte - 1)
        BY <1>1, <1>3, <1>5, <1>6, <1>9, <3>1, MovedBytes
      <4>3. a.mem[a.p + j] = ByteOf(i)
        BY <4>1, <4>2, SignedByte
      <4> QED  BY <1>5, <4>2, <4>3
    <3> QED  BY <1>13, <3>2 DEF Lost
  <2>4. a.p # NULL /\ RangeOK(rest, a.p, size, a.brk)
    BY <1>18
  <2>5. /\ pc = "valid" /\ pc' = "valid" /\ brk' = a.brk /\ UNCHANGED <<tn, setup, errors, stats>>
    BY <1>1, <1>8, <2>1
  <2> HIDE DEF inside, kept
  <2> QED  BY <1>2, <1>3, <1>9, <1>12, <1>13, <1>14, <2>1, <2>2, <2>3, <2>4, <2>5, AcceptGrades
<1> QED  BY <1>16, <1>17, <1>18

LEMMA ValidFreeGrades ==
    ASSUME TracesOK, MDriverAssumption, GradeInv, ValidFree
    PROVE  GradeInv'
<1>1. /\ pc = "valid" /\ pc' = "valid" /\ At("f") /\ op' = op + 1
      /\ UNCHANGED <<setup, tn, blocks, block_sizes, errors, stats>>
  BY DEF ValidFree, traces
<1>2. PICK a \in MmFree : mem' = a.mem /\ brk' = a.brk /\ breach' = breach \cup Scribbled(a, Used(Op.index))
  BY DEF ValidFree
<1>3. DriverInv' /\ DriverInv
  BY ValidFreeKeeps DEF GradeInv
<1>4. PICK i \in Ids : i = Op.index /\ i \in InUse(NoId)
  BY <1>1, <1>3, RequestIs
<1>5. InUse(NoId)' = InUse(NoId) \ {i}
  BY <1>1, <1>3, <1>4, InUseNext
<1>6. Used(i) = PayloadsOf(InUse(NoId) \ {i}, blocks, block_sizes)
  BY UsedIs
<1>7. mem' \in Bytes /\ brk' \in Int
  BY <1>1, <1>2, FreeAnswers DEF GradeInv
<1>8. Stored'
  BY <1>1, <1>5, <1>7 DEF GradeInv, Stored, Lie
<1>9. PICK scr \in SUBSET {"scribbled"} : scr = Scribbled(a, Used(i))
  BY DEF Scribbled
<1>10. breach' = breach \cup scr
  BY <1>2, <1>4, <1>9
<1>11. Truthful'
  <2> SUFFICES ASSUME breach' \cap Unseen = {} PROVE Data(mem', InUse(NoId)', blocks', block_sizes')
    BY DEF Truthful
  <2>1. breach \cap Unseen = {} /\ Scribbled(a, Used(i)) = {}
    BY <1>9, <1>10 DEF Unseen
  <2>2. ASSUME NEW j \in InUse(NoId) \ {i}, NEW b \in Payload(blocks[j], block_sizes[j])
        PROVE  mem'[b] = ByteOf(j)
    <3>1. mem[b] = ByteOf(j)
      BY <1>1, <2>1 DEF GradeInv, Truthful, Data
    <3>2. a.mem[b] = mem[b]
      BY <1>6, <2>1 DEF Scribbled, PayloadsOf
    <3> QED  BY <1>2, <3>1, <3>2
  <2> QED  BY <1>1, <1>5, <2>2 DEF Data
<1>12. NotAcceptedWrongly'
  <2>1. breach \subseteq Unseen \cup {"lost"} /\ ("lost" \in breach => breach \cap Unseen # {})
    BY <1>1 DEF GradeInv, NotAcceptedWrongly
  <2> QED  BY <1>10, <2>1 DEF NotAcceptedWrongly, Unseen
<1>13. NotRefusedWrongly' /\ Sums'
  BY <1>1 DEF GradeInv, NotRefusedWrongly, Sums, Invalid
<1> QED  BY <1>3, <1>8, <1>11, <1>12, <1>13 DEF GradeInv

-----------------------------------------------------------------------------
(* The other steps. *)

LEMMA InitGrades == ASSUME TracesOK, MDriverAssumption, Init PROVE GradeInv
<1>1. DriverInv
  BY InitDriver
<1>2. /\ pc = "init_fsecs" /\ tn = 1 /\ mem = [a \in Addr |-> 0]
      /\ stats = <<>> /\ errors = 0
  BY DEF Init
<1>3. Stored
  <2>1. 0 \in 0..(Byte - 1)
    BY DEF MDriverAssumption
  <2> QED  BY <1>2, <2>1 DEF Stored, Bytes
<1>4. Sums
  <2>1. AnySeq(<<>>)
    BY DEF AnySeq
  <2>2. Cardinality({}) = 0
    BY FS_EmptySet
  <2>3. Invalid(<<>>) = {}
    BY DEF Invalid
  <2>4. PICK s : s = stats
    OBVIOUS
  <2>5. s = <<>>
    BY <1>2, <2>4
  <2>6. Len(s) = 0 /\ DOMAIN s = {}
    BY <2>5
  <2>7. tn \in Nat /\ AnySeq(stats) /\ Len(stats) = 0 /\ tn - 1 = 0
    BY <1>2, <2>1, <2>4, <2>6
  <2>8. \A k \in DOMAIN stats : stats[k].valid \in BOOLEAN
    BY <2>4, <2>6
  <2>9. errors = Cardinality(Invalid(stats))
    BY <1>2, <2>2, <2>3
  <2> QED  BY <1>2, <2>7, <2>8, <2>9 DEF Sums
<1> QED  BY <1>1, <1>2, <1>3, <1>4 DEF GradeInv, Truthful, NotAcceptedWrongly, NotRefusedWrongly

\* A step outside of eval_mm_valid that writes no result.
LEMMA OtherGrades ==
    ASSUME GradeInv, DriverInv', pc' # "valid", UNCHANGED <<mem, breach>>,
           pc' \in {"util", "speed"} => pc \in {"valid", "util", "speed"},
           pc' = "next" => pc = "speed",
           Sums', pc = "speed" => stats' = stats
    PROVE  GradeInv'
<1>1. Stored' /\ Truthful' /\ NotAcceptedWrongly'
  BY DEF GradeInv, Stored, Truthful, NotAcceptedWrongly
<1>2. NotRefusedWrongly'
  BY DEF GradeInv, NotRefusedWrongly, Sums
<1> QED  BY <1>1, <1>2 DEF GradeInv

LEMMA UtilGrades ==
    ASSUME GradeInv, DriverInv', EvalMmUtil PROVE GradeInv'
<1>1. CASE UtilAlloc \/ UtilRealloc \/ UtilFree
  <2>1. pc = "util" /\ pc' = "util" /\ UNCHANGED <<mem, breach, tn, stats, errors>>
    BY <1>1 DEF UtilAlloc, UtilRealloc, UtilFree, Replay
  <2>2. Sums'
    BY <2>1 DEF GradeInv, Sums, Invalid
  <2> QED  BY <2>1, <2>2, OtherGrades
<1>2. CASE Utilization
  <2> DEFINE x == [valid |-> TRUE, util |-> <<max_total_size, mem_heapsize>>]
  <2>1. /\ pc = "util" /\ pc' = "speed" /\ UNCHANGED <<mem, breach, tn, errors>>
        /\ stats' = Append(stats, x) /\ x.valid = TRUE
    BY <1>2 DEF Utilization, traces, heap
  <2> HIDE DEF x
  <2>2. /\ AnySeq(stats) /\ tn \in Nat /\ Len(stats) = tn - 1 /\ errors = Cardinality(Invalid(stats))
        /\ \A k \in DOMAIN stats : stats[k].valid \in BOOLEAN
    BY <2>1 DEF GradeInv, Sums
  <2>3. /\ AnySeq(stats') /\ Len(stats') = Len(stats) + 1 /\ Len(stats) \in Nat
        /\ DOMAIN stats = 1..Len(stats) /\ DOMAIN stats' = 1..(Len(stats) + 1)
        /\ Last(stats') = x /\ stats'[Len(stats) + 1] = x
        /\ \A k \in DOMAIN stats : stats'[k] = stats[k]
    BY <2>1, <2>2, AppendIs
  <2>4. Cardinality(Invalid(stats')) = Cardinality(Invalid(stats))
    BY <2>1, <2>2, InvalidAppend
  <2>5. \A k \in DOMAIN stats' : stats'[k].valid \in BOOLEAN
    <3>1. \A k \in DOMAIN stats' : k \in DOMAIN stats \/ k = Len(stats) + 1
      BY <2>3
    <3> QED  BY <2>1, <2>2, <2>3, <3>1
  <2>6. Len(stats') = tn'
    BY <2>1, <2>2, <2>3
  <2>7. Sums'
    BY <2>1, <2>2, <2>3, <2>4, <2>5, <2>6 DEF Sums, Invalid
  <2> QED  BY <2>1, <2>7, OtherGrades
<1> QED  BY <1>1, <1>2 DEF EvalMmUtil

LEMMA FsecsGrades ==
    ASSUME GradeInv, DriverInv', Fsecs PROVE GradeInv'
<1>1. /\ pc \in {"libc_speed", "speed"} /\ UNCHANGED <<mem, breach, tn, setup, stats, errors, printed>>
      /\ \/ pc' = pc
         \/ pc' = "failed"
         \/ pc = "speed" /\ pc' = "next"
         \/ pc = "libc_speed" /\ pc' = "libc_next"
  BY DEF Fsecs, Speed, untimed, traces, heap
<1>2. Sums'
  BY <1>1 DEF GradeInv, Sums, Invalid
<1> QED  BY <1>1, <1>2, OtherGrades

LEMMA NextTraceGrades ==
    ASSUME TracesOK, GradeInv, DriverInv', NextTrace PROVE GradeInv'
<1>1. tn \in Nat /\ Len(setup.files) \in Nat /\ tn <= Len(setup.files)
  <2>1. PICK F, fs : fs \in Seq(F) /\ fs = setup.files
    BY DEF TracesOK, GradeInv, DriverInv, Setting
  <2>2. tn \in DOMAIN fs
    BY <2>1 DEF GradeInv, DriverInv, Setting
  <2> QED  BY <2>1, <2>2
<1>2. /\ UNCHANGED <<mem, breach, setup, stats, errors, printed>>
      /\ tn' = IF tn < Len(setup.files) THEN tn + 1 ELSE 1
      /\ \/ pc = "next" /\ tn < Len(setup.files) /\ pc' = "read"
         \/ pc = "libc_next" /\ tn < Len(setup.files) /\ pc' = "libc_read"
         \/ pc = "libc_next" /\ ~(tn < Len(setup.files)) /\ pc' = "read"
         \/ pc = "next" /\ ~(tn < Len(setup.files)) /\ pc' = "results"
  BY <1>1 DEF NextTrace, heap
<1>3. Sums'
  <2>1. tn' \in Nat
    BY <1>2, <1>1
  <2>2. pc' = "read" => Len(stats) = tn' - 1
    BY <1>2, <1>1 DEF GradeInv, Sums
  <2>3. pc' = "libc_read" => Len(stats) = 0
    BY <1>2 DEF GradeInv, Sums
  <2>4. pc' = "results" => Len(stats) = Len(setup.files)
    BY <1>2, <1>1 DEF GradeInv, Sums
  <2>5. pc' \in {"read", "libc_read", "results"} /\ pc # "failed"
    BY <1>2
  <2> QED  BY <1>2, <2>1, <2>2, <2>3, <2>4, <2>5 DEF GradeInv, Sums, Invalid
<1> QED  BY <1>2, <1>3, OtherGrades

\* The summary counts the traces with a result: all of them are valid if no error was
\* reported, and only then.
LEMMA ResultsGrades ==
    ASSUME GradeInv, DriverInv', Results PROVE GradeInv'
<1> DEFINE good == {k \in DOMAIN stats : stats[k].valid}
           n == Len(stats)
<1>1. /\ pc = "results" /\ pc' = "done" /\ UNCHANGED <<mem, breach, setup, tn, stats, errors>>
      /\ printed' = [numcorrect |-> Cardinality(good), index |-> errors = 0]
  BY DEF Results, heap
<1>2. /\ AnySeq(stats) /\ n = Len(setup.files) /\ errors = Cardinality(Invalid(stats))
      /\ \A k \in DOMAIN stats : stats[k].valid \in BOOLEAN
  BY <1>1 DEF GradeInv, Sums
<1>3. n \in Nat /\ DOMAIN stats = 1..n
  BY <1>2, AppendIs
<1> HIDE DEF n
<1>4. IsFiniteSet(1..n) /\ Cardinality(1..n) = n
  <2>1. 1 \in Int /\ n \in Int
    BY <1>3
  <2>2. IsFiniteSet(1..n) /\ Cardinality(1..n) = IF 1 > n THEN 0 ELSE n - 1 + 1
    BY <2>1, FS_Interval
  <2> QED  BY <1>3, <2>2
<1>5. good \in SUBSET (1..n) /\ Invalid(stats) \in SUBSET (1..n)
  BY <1>3 DEF Invalid
<1>6. Invalid(stats) = (1..n) \ good
  BY <1>2, <1>3 DEF Invalid
<1> HIDE DEF good
<1>7. errors = 0 <=> Invalid(stats) = {}
  BY <1>2, <1>4, <1>5, FS_Subset, FS_EmptySet
<1>8. Cardinality(good) = n <=> good = 1..n
  BY <1>4, <1>5, FS_Subset
<1>9. (errors = 0) <=> (Cardinality(good) = n)
  BY <1>5, <1>6, <1>7, <1>8
<1>10. printed'.index = (printed'.numcorrect = Len(setup.files))
  <2>1. printed'.index = (errors = 0) /\ printed'.numcorrect = Cardinality(good)
    BY <1>1
  <2> QED  BY <1>2, <1>9, <2>1
<1>11. Sums'
  BY <1>1, <1>2, <1>10 DEF GradeInv, Sums, Invalid, n
<1> QED  BY <1>1, <1>11, OtherGrades

LEMMA NextGrades ==
    ASSUME TracesOK, MDriverAssumption, GradeInv, [Next]_vars PROVE GradeInv'
<1>1. DriverInv'
  BY NextDriver DEF GradeInv
<1>2. CASE UNCHANGED vars
  <2>1. UNCHANGED <<pc, op, setup, printed, tn, blocks, block_sizes, brk, mem, stats, errors, breach>>
    BY <1>2 DEF vars, traces, heap
  <2>2. InUse(NoId)' = InUse(NoId) /\ Op' = Op
    BY <2>1 DEF InUse, File, Op
  <2> QED  BY <1>1, <2>1, <2>2 DEF GradeInv, Stored, Truthful, NotAcceptedWrongly,
                                   NotRefusedWrongly, Sums, Invalid, Lie, Data
<1>3. CASE EvalMmValid
  <2>1. CASE Valid
    <3>1. /\ pc = "valid" /\ pc' = "util" /\ UNCHANGED <<mem, breach, tn, stats, errors>>
      BY <2>1 DEF Valid, traces
    <3>2. Sums'
      BY <3>1 DEF GradeInv, Sums, Invalid
    <3> QED  BY <1>1, <3>1, <3>2, OtherGrades
  <2> QED  BY <1>3, <2>1, StartValidGrades, ValidAllocGrades, ValidReallocGrades, ValidFreeGrades
           DEF EvalMmValid
<1>4. CASE Start
  <2>1. /\ pc = "init_fsecs" /\ pc' \in {"libc_read", "read"}
        /\ UNCHANGED <<mem, breach, tn, stats, errors>>
    BY <1>4 DEF Start, untimed, traces, heap
  <2>2. Sums'
    BY <2>1 DEF GradeInv, Sums, Invalid
  <2> QED  BY <1>1, <2>1, <2>2, OtherGrades
<1>5. CASE EvalLibc
  <2>1. /\ \/ pc = "libc_valid" /\ pc' \in {"libc_valid", "libc_speed"} /\ errors' = errors
           \/ pc' = "failed"
        /\ pc \in {"libc_valid", "libc_speed"} /\ UNCHANGED <<mem, breach, tn, stats>>
    BY <1>5 DEF EvalLibc, LibcRequest, LibcTimed, LibcSpeedFails, untimed, traces, heap
  <2>2. Sums'
    BY <2>1 DEF GradeInv, Sums, Invalid
  <2> QED  BY <1>1, <2>1, <2>2, OtherGrades
<1>6. CASE ReadTrace
  <2>1. /\ pc' = "aborted" \/ (pc = "read" /\ pc' = "init") \/ (pc = "libc_read" /\ pc' = "libc_valid")
        /\ pc \in {"libc_read", "read"} /\ UNCHANGED <<mem, breach, tn, stats, errors>>
    BY <1>6 DEF ReadTrace, heap
  <2>2. Sums'
    BY <2>1 DEF GradeInv, Sums, Invalid
  <2> QED  BY <1>1, <2>1, <2>2, OtherGrades
<1> QED  BY <1>1, <1>2, <1>3, <1>4, <1>5, <1>6, UtilGrades, FsecsGrades, NextTraceGrades, ResultsGrades
         DEF Next

\* The inductive invariant of the verdict (mdriver.c:306-401, 555-659 and main).
THEOREM GradeInvariant == ASSUME TracesOK PROVE Spec => []GradeInv
<1>1. Init => GradeInv
  BY InitGrades, MDriverAssumption
<1>2. GradeInv /\ [Next]_vars => GradeInv'
  BY NextGrades, MDriverAssumption
<1> QED  BY <1>1, <1>2, PTL DEF Spec

\* For every package, right or wrong, and all traces that free and move only what is in
\* use: the verdict follows from what the package did, up to the three exceptions.
THEOREM TheVerdictIsExact == ASSUME TracesOK PROVE Spec => []VerdictExact
<1>1. GradeInv => VerdictExact
  BY DEF GradeInv, Sums, Invalid, VerdictExact, ErrorsExact
<1> QED  BY <1>1, GradeInvariant, PTL

-----------------------------------------------------------------------------
(* Sums over sets and sequences, as folds. *)

\* The folds of the community modules are sums.
LEMMA SetFoldIsSum ==
    ASSUME NEW S, IsFiniteSet(S), NEW f, \A i \in S : f[i] \in Int
    PROVE  IsSum(MapThenSumSet(LAMBDA i : f[i], S), S, f)
<1> DEFINE pick == [s \in SUBSET S |-> CHOOSE x \in s : TRUE]
           iter == CHOOSE g : g = [s \in SUBSET S |-> IF s = {} THEN 0
                       ELSE f[CHOOSE x \in s : TRUE] + g[s \ {CHOOSE x \in s : TRUE}]]
<1>1. MapThenSumSet(LAMBDA i : f[i], S) = iter[S]
  BY DEF MapThenSumSet, MapThenFoldSet
<1>2. \A s \in SUBSET S : pick[s] = (CHOOSE x \in s : TRUE) /\ (s # {} => pick[s] \in s)
  OBVIOUS
<1> HIDE DEF pick
<1>3. PICK h : Totals(h, S, f, pick)
  BY <1>2, TotalsExist
<1>4. h = [s \in SUBSET S |-> IF s = {} THEN 0
             ELSE f[CHOOSE x \in s : TRUE] + h[s \ {CHOOSE x \in s : TRUE}]]
  BY <1>2, <1>3 DEF Totals
<1>5. iter = [s \in SUBSET S |-> IF s = {} THEN 0
                ELSE f[CHOOSE x \in s : TRUE] + iter[s \ {CHOOSE x \in s : TRUE}]]
  BY <1>4
<1> HIDE DEF iter
<1>6. Totals(iter, S, f, pick)
  <2>1. PICK k : k = iter
    OBVIOUS
  <2>2. \E F : k = [s \in SUBSET S |-> F[s]]
    <3>1. PICK F : F = [s \in SUBSET S |-> IF s = {} THEN 0
                ELSE f[CHOOSE x \in s : TRUE] + iter[s \ {CHOOSE x \in s : TRUE}]]
      OBVIOUS
    <3>2. k = F /\ F = [s \in SUBSET S |-> F[s]]
      BY <1>5, <2>1, <3>1
    <3> QED  BY <3>2
  <2>3. \A s \in SUBSET S : k[s] = IF s = {} THEN 0 ELSE f[pick[s]] + k[s \ {pick[s]}]
    BY <1>2, <1>5, <2>1
  <2> QED  BY <1>3, <2>1, <2>2, <2>3, TotalsChosen
<1> QED  BY <1>1, <1>6 DEF IsSum

LEMMA GreatestIs ==
    ASSUME NEW n \in Int, NEW s \in SUBSET Int, s # {}, \A x \in s : x <= n
    PROVE  Max(s) \in s /\ \A x \in s : x <= Max(s)
<1> DEFINE T == {n - x : x \in s}
<1>1. \A x \in s : x \in Int /\ n - x \in Nat
  OBVIOUS
<1>2. PICK m \in T : \A y \in T : m <= y
  <2>1. T \in SUBSET Nat /\ T # {}
    BY <1>1
  <2> QED  BY <2>1, LeastNatural
<1>3. PICK x \in s : m = n - x
  BY <1>2
<1>4. ASSUME NEW y \in s PROVE x >= y
  <2>1. n - x <= n - y
    BY <1>2, <1>3
  <2>2. x \in Int /\ y \in Int
    BY <1>1
  <2> QED  BY <2>1, <2>2
<1>5. Max(s) \in s /\ \A y \in s : Max(s) >= y
  BY <1>4 DEF Max
<1>6. \A y \in s : Max(s) \in Int /\ y \in Int
  BY <1>1, <1>5
<1> QED  BY <1>5, <1>6

LEMMA SeqFoldIsSum ==
    ASSUME NEW s \in Seq(Int)
    PROVE  IsSum(FoldLeft(+, 0, s), 1..Len(s), s)
<1> DEFINE D == DOMAIN s
           pick == [u \in SUBSET D |-> Max(u)]
           iter == CHOOSE g : g = [u \in SUBSET D |-> IF u = {} THEN 0
                                                      ELSE g[u \ {Max(u)}] + s[Max(u)]]
<1>1. FoldLeft(+, 0, s) = iter[D]
  BY DEF FoldLeft, MapThenFoldSet
<1>2. /\ Len(s) \in Nat /\ D = 1..Len(s) /\ IsFiniteSet(D) /\ \A i \in D : s[i] \in Int
  <2>1. Len(s) \in Nat /\ D = 1..Len(s) /\ \A i \in D : s[i] \in Int
    OBVIOUS
  <2>2. 1 \in Int /\ Len(s) \in Int
    BY <2>1
  <2>3. IsFiniteSet(1..Len(s))
    BY <2>2, FS_Interval
  <2> QED  BY <2>1, <2>3
<1> HIDE DEF D
<1>3. \A u \in SUBSET D : pick[u] = Max(u) /\ (u # {} => pick[u] \in u)
  <2>1. ASSUME NEW u \in SUBSET D, u # {} PROVE Max(u) \in u
    <3>1. Len(s) \in Int /\ u \in SUBSET Int /\ \A x \in u : x <= Len(s)
      BY <1>2
    <3> QED  BY <2>1, <3>1, GreatestIs
  <2> QED  BY <2>1
<1> HIDE DEF pick
<1>4. PICK h : Totals(h, D, s, pick)
  BY <1>2, <1>3, TotalsExist
<1>5. \A u \in SUBSET D : u # {} => h[u \ {Max(u)}] + s[Max(u)] = s[Max(u)] + h[u \ {Max(u)}]
  <2>1. ASSUME NEW u \in SUBSET D, u # {}
        PROVE  h[u \ {Max(u)}] + s[Max(u)] = s[Max(u)] + h[u \ {Max(u)}]
    <3>1. Max(u) \in D /\ u \ {Max(u)} \in SUBSET D
      BY <1>3, <2>1
    <3>2. h[u \ {Max(u)}] \in Int /\ s[Max(u)] \in Int
      BY <1>4, <3>1 DEF Totals
    <3> QED  BY <3>2
  <2> QED  BY <2>1
<1>6. h = [u \in SUBSET D |-> IF u = {} THEN 0 ELSE h[u \ {Max(u)}] + s[Max(u)]]
  <2>1. h = [u \in SUBSET D |-> h[u]]
    BY <1>4 DEF Totals
  <2>2. \A u \in SUBSET D : h[u] = IF u = {} THEN 0 ELSE h[u \ {Max(u)}] + s[Max(u)]
    BY <1>3, <1>4, <1>5 DEF Totals
  <2> QED  BY <2>1, <2>2
<1>7. iter = [u \in SUBSET D |-> IF u = {} THEN 0 ELSE iter[u \ {Max(u)}] + s[Max(u)]]
  BY <1>6
<1> HIDE DEF iter
<1>8. \A u \in SUBSET D : iter[u] = IF u = {} THEN 0 ELSE iter[u \ {Max(u)}] + s[Max(u)]
  BY <1>7
<1>9. PICK k : k = iter
  OBVIOUS
<1>10. \E F : k = [u \in SUBSET D |-> F[u]]
  <2>1. PICK F : F = [u \in SUBSET D |-> IF u = {} THEN 0 ELSE iter[u \ {Max(u)}] + s[Max(u)]]
    OBVIOUS
  <2>2. k = F /\ F = [u \in SUBSET D |-> F[u]]
    BY <1>7, <1>9, <2>1
  <2> QED  BY <2>2
\* By the commuted equation, iter and h agree.
<1>11. h[D] = k[D]
  <2> DEFINE Bad == {u \in SUBSET D : h[u] # k[u]}
             C == {Cardinality(u) : u \in Bad}
  <2> SUFFICES ASSUME Bad # {} PROVE FALSE
    OBVIOUS
  <2>1. \A u \in SUBSET D : IsFiniteSet(u) /\ Cardinality(u) \in Nat
    BY <1>2, FS_Subset, FS_CardinalityType
  <2>2. PICK u \in Bad : \A t \in Bad : Cardinality(u) <= Cardinality(t)
    <3>1. C \in SUBSET Nat /\ C # {}
      BY <2>1
    <3>2. PICK n \in C : \A m \in C : n <= m
      BY <3>1, LeastNatural
    <3> QED  BY <3>2
  <2>3. u # {}
    <3>1. {} \in SUBSET D
      OBVIOUS
    <3> QED  BY <1>6, <1>8, <1>9, <2>2, <3>1
  <2>4. PICK x : x = Max(u)
    OBVIOUS
  <2>5. x \in u /\ u \in SUBSET D /\ u \ {x} \in SUBSET D
    BY <1>3, <2>2, <2>3, <2>4
  <2>6. h[u] = h[u \ {x}] + s[x] /\ k[u] = k[u \ {x}] + s[x]
    BY <1>6, <1>8, <1>9, <2>3, <2>4, <2>5
  <2>7. Cardinality(u \ {x}) < Cardinality(u)
    <3>1. Cardinality(u \ {x}) = Cardinality(u) - 1
      BY <2>1, <2>5, FS_RemoveElement
    <3> QED  BY <2>1, <2>5, <3>1
  <2>8. u \ {x} \notin Bad
    BY <2>1, <2>2, <2>5, <2>7
  <2> QED  BY <2>2, <2>5, <2>6, <2>8
<1> QED  BY <1>1, <1>2, <1>4, <1>9, <1>11 DEF IsSum

\* Another element at the end.
LEMMA SumAppend ==
    ASSUME NEW s \in Seq(Int), NEW d \in Int
    PROVE  /\ FoldLeft(+, 0, s) \in Int
           /\ FoldLeft(+, 0, Append(s, d)) = FoldLeft(+, 0, s) + d
<1> DEFINE t == Append(s, d)
           n == Len(s)
<1>1. t \in Seq(Int) /\ n \in Nat /\ Len(t) = n + 1 /\ t[n + 1] = d /\ \A i \in 1..n : t[i] = s[i]
  OBVIOUS
<1>2. PICK v, w : v = FoldLeft(+, 0, t) /\ w = FoldLeft(+, 0, s)
  OBVIOUS
<1>3. IsSum(v, 1..(n + 1), t) /\ IsSum(w, 1..n, s)
  <2> HIDE DEF t
  <2> QED  BY <1>1, <1>2, SeqFoldIsSum
<1>4. n + 1 \in 1..(n + 1) /\ (1..(n + 1)) \ {n + 1} = 1..n
  BY <1>1
<1> HIDE DEF t, n
<1>5. v = t[n + 1] + w
  <2>1. PICK U, x : U = 1..(n + 1) /\ x = n + 1
    OBVIOUS
  <2>2. x \in U /\ U \ {x} = 1..n
    BY <1>4, <2>1
  <2>3. IsSum(v, U, t) /\ IsSum(w, U \ {x}, s)
    BY <1>3, <2>1, <2>2
  <2>4. \A j \in U \ {x} : t[j] = s[j]
    BY <1>1, <2>2
  <2>5. v = t[x] + w
    BY <2>2, <2>3, <2>4, SumWithout
  <2> QED  BY <2>1, <2>5
<1>6. w \in Int
  BY <1>3, SumIs
<1>7. v = w + d
  BY <1>1, <1>5, <1>6
<1> QED  BY <1>2, <1>6, <1>7 DEF t

LEMMA SumOfEmpty == FoldLeft(+, 0, <<>>) = 0
<1>1. <<>> \in Seq(Int) /\ 1..Len(<<>>) = {}
  OBVIOUS
<1>2. PICK v : v = FoldLeft(+, 0, <<>>)
  OBVIOUS
<1>3. IsSum(v, {}, <<>>)
  BY <1>1, <1>2, SeqFoldIsSum
<1> QED  BY <1>2, <1>3, SumOfNone

-----------------------------------------------------------------------------
(* Two-digit numbers. *)

LEMMA Digits ==
    ASSUME NEW w \in Nat \ {0}, NEW x \in Int
    PROVE  /\ x \div w \in Int /\ x % w \in 0..(w - 1)
           /\ x = w * (x \div w) + (x % w)
  OBVIOUS

LEMMA DigitsAre ==
    ASSUME NEW w \in Nat \ {0}, NEW q \in Int, NEW r \in 0..(w - 1)
    PROVE  (w * q + r) \div w = q /\ (w * q + r) % w = r
  OBVIOUS

LEMMA Elapses ==
    ASSUME Usec \in Nat \ {0}, NEW s \in Int, NEW e \in Int
    PROVE  Elapsed(Reading(s), Reading(e)) = e - s
  BY Digits DEF Elapsed, Reading

\* A number below w * w has a first digit below w.
LEMMA FirstDigit ==
    ASSUME NEW w \in Nat \ {0}, NEW q \in Int, NEW r \in 0..(w - 1),
           0 <= w * q + r, w * q + r < w * w
    PROVE  q \in 0..(w - 1)
<1>1. q >= 0
  <2> SUFFICES ASSUME q <= -1 PROVE FALSE
    OBVIOUS
  <2>1. w * q <= w * (-1)
    OBVIOUS
  <2> QED  BY <2>1
<1>2. q < w
  <2> SUFFICES ASSUME w <= q PROVE FALSE
    OBVIOUS
  <2>1. w * w <= w * q
    OBVIOUS
  <2> QED  BY <2>1
<1> QED  BY <1>1, <1>2

\* The counter: the difference of two readings, through the borrow and the wrap of both
\* words, is the time between them if that fits two words.
LEMMA CounterDifference ==
    ASSUME Word \in Nat \ {0}, NEW s \in Int, NEW d \in Nat, d < Word * Word
    PROVE  GetCounter(AccessCounter(s), AccessCounter(s + d)) = d
<1>1. PICK e : e \in Int /\ e = s + d
  OBVIOUS
<1>2. PICK w \in Nat \ {0} : w = Word
  OBVIOUS
<1>3. PICK qs \in Int, rs \in 0..(w - 1) : qs = s \div w /\ rs = s % w /\ s = w * qs + rs
  BY Digits
<1>4. PICK qe \in Int, re \in 0..(w - 1) : qe = e \div w /\ re = e % w /\ e = w * qe + re
  BY <1>1, Digits
<1>5. PICK ks \in Int, hs \in 0..(w - 1) : hs = qs % w /\ qs = w * ks + hs
  BY Digits
<1>6. PICK ke \in Int, he \in 0..(w - 1) : he = qe % w /\ qe = w * ke + he
  BY Digits
<1>7. PICK lo \in Int, b \in {0, 1} :
         lo = (re - rs) % w /\ b = (IF lo > re THEN 1 ELSE 0) /\ lo \in 0..(w - 1)
         /\ re - rs = lo - w * b
  <2>1. CASE re >= rs
    <3>1. PICK lo \in 0..(w - 1) : lo = re - rs
      BY <2>1
    <3>2. (w * 0 + lo) % w = lo
      BY DigitsAre
    <3>3. (re - rs) % w = lo /\ ~(lo > re) /\ re - rs = lo - w * 0
      BY <3>1, <3>2
    <3> QED  BY <3>3
  <2>2. CASE re < rs
    <3>1. PICK lo \in 0..(w - 1) : lo = re - rs + w
      BY <2>2
    <3>2. (w * (-1) + lo) % w = lo
      BY DigitsAre
    <3>3. w * (-1) + lo = re - rs
      BY <3>1
    <3>4. (re - rs) % w = lo /\ lo > re /\ re - rs = lo - w * 1
      BY <3>1, <3>2, <3>3
    <3> QED  BY <3>4
  <2> QED  BY <2>1, <2>2
<1>8. PICK q \in Int : q = qe - qs - b
  OBVIOUS
<1>9. d = w * q + lo
  <2>1. d = e - s
    BY <1>1
  <2>2. d = (w * qe + re) - (w * qs + rs)
    BY <1>3, <1>4, <2>1
  <2>3. w * q = w * qe - w * qs - w * b
    BY <1>8
  <2> QED  BY <1>7, <2>2, <2>3
<1>10. q \in 0..(w - 1)
  BY <1>2, <1>7, <1>9, FirstDigit
<1>11. ((he - hs) - b) % w = q
  <2>1. PICK k \in Int : k = ks - ke
    OBVIOUS
  <2>2. w * k = w * ks - w * ke
    BY <2>1
  <2>3. (he - hs) - b = w * k + q
    BY <1>5, <1>6, <1>8, <2>2
  <2> QED  BY <1>10, <2>3, DigitsAre
<1>12. AccessCounter(s) = [hi |-> hs, lo |-> rs] /\ AccessCounter(s + d) = [hi |-> he, lo |-> re]
  BY <1>1, <1>2, <1>3, <1>4, <1>5, <1>6 DEF AccessCounter
<1>13. GetCounter(AccessCounter(s), AccessCounter(s + d)) = q * w + lo
  <2>1. PICK c, n : c = AccessCounter(s) /\ n = AccessCounter(s + d)
    OBVIOUS
  <2>2. c.hi = hs /\ c.lo = rs /\ n.hi = he /\ n.lo = re
    BY <1>12, <2>1
  <2>3. GetCounter(c, n) = (((n.hi - c.hi) - (IF (n.lo - c.lo) % Word > n.lo THEN 1 ELSE 0)) % Word)
                             * Word + ((n.lo - c.lo) % Word)
    BY DEF GetCounter
  <2>4. (n.lo - c.lo) % Word = lo
    BY <1>2, <1>7, <2>2
  <2>5. GetCounter(c, n) = (((he - hs) - b) % w) * w + lo
    BY <1>2, <1>7, <2>2, <2>3, <2>4
  <2> QED  BY <1>11, <2>1, <2>5
<1>14. q * w = w * q
  OBVIOUS
<1> QED  BY <1>9, <1>13, <1>14

-----------------------------------------------------------------------------
(* The K best. *)

Below(s, x) == {k \in DOMAIN s : s[k] <= x}

LEMMA BelowAppend ==
    ASSUME NEW s \in Seq(Int), NEW d \in Int, NEW x \in Int
    PROVE  /\ Cardinality(Below(s, x)) \in 0..Len(s)
           /\ Cardinality(Below(Append(s, d), x))
                = Cardinality(Below(s, x)) + (IF d <= x THEN 1 ELSE 0)
<1>1. PICK n \in Nat : n = Len(s) /\ DOMAIN s = 1..n
  OBVIOUS
<1>2. PICK t : t = Append(s, d) /\ DOMAIN t = 1..(n + 1) /\ t[n + 1] = d /\ \A k \in 1..n : t[k] = s[k]
  <2>1. PICK t : t = Append(s, d)
    OBVIOUS
  <2>2. /\ DOMAIN t = 1..(Len(s) + 1) /\ t[Len(s) + 1] = d
        /\ \A k \in 1..Len(s) : t[k] = s[k]
    BY <2>1
  <2> QED  BY <1>1, <2>1, <2>2
<1>3. PICK A, B : A = Below(s, x) /\ B = Below(t, x)
  OBVIOUS
<1>4. IsFiniteSet(A) /\ Cardinality(A) \in 0..n
  <2>1. 1 \in Int /\ n \in Int
    OBVIOUS
  <2>2. IsFiniteSet(1..n) /\ Cardinality(1..n) = IF 1 > n THEN 0 ELSE n - 1 + 1
    BY <2>1, FS_Interval
  <2>3. Cardinality(1..n) = n
    BY <2>2
  <2>4. A \in SUBSET (1..n)
    BY <1>1, <1>3 DEF Below
  <2>5. IsFiniteSet(A) /\ Cardinality(A) <= n /\ Cardinality(A) \in Nat
    BY <2>2, <2>3, <2>4, FS_Subset, FS_CardinalityType
  <2> QED  BY <2>5
<1>5. n + 1 \notin A /\ B = IF d <= x THEN A \cup {n + 1} ELSE A
  <2>1. \A k : k \in B <=> (k \in 1..n \/ k = n + 1) /\ t[k] <= x
    BY <1>2, <1>3 DEF Below
  <2>2. \A k : k \in A <=> k \in 1..n /\ s[k] <= x
    BY <1>1, <1>3 DEF Below
  <2>3. n + 1 \notin 1..n
    OBVIOUS
  <2> QED  BY <1>2, <2>1, <2>2, <2>3
<1>6. Cardinality(B) = Cardinality(A) + (IF d <= x THEN 1 ELSE 0)
  <2>1. CASE d <= x
    BY <1>4, <1>5, <2>1, FS_AddElement
  <2>2. CASE ~(d <= x)
    BY <1>4, <1>5, <2>2
  <2> QED  BY <2>1, <2>2
<1> QED  BY <1>1, <1>2, <1>3, <1>4, <1>6

\* v holds n values in their order: as many of them are up to x as samples are, if
\* there is room.
Ranked(v, n, C) == \A k \in 1..n : \A x \in Int : v[k] <= x <=> k <= C[x]

Least2(x, y) == IF x <= y THEN x ELSE y

\* The insertion at one index k and for one bound x, with the values of v at k, k - 1, K
\* and the rank.
AtIndex(K, L, val, x, c, d, vk, vj, vK, vr, uk, pos, rank, k) ==
    /\ K \in Nat \ {0} /\ L \in Nat /\ val \in Int /\ x \in Int /\ c \in 0..L
    /\ vk \in Int /\ vj \in Int /\ vK \in Int /\ vr \in Int /\ uk \in Int
    /\ pos \in 0..K /\ rank \in 0..K /\ k \in 1..K /\ k <= L + 1
    /\ d = c + (IF val <= x THEN 1 ELSE 0)
    /\ pos = IF L < K THEN L + 1 ELSE IF val < vK THEN K ELSE 0
    /\ rank < pos \/ (pos = 0 /\ rank = 0)
    /\ k <= L => (vk <= x <=> k <= c)
    /\ k = K => vk = vK
    /\ 1 <= k - 1 /\ k - 1 <= L => (vj <= x <=> k - 1 <= c)
    /\ K <= L => (vK <= x <=> K <= c)
    /\ 1 <= rank /\ rank <= L => (vr <= x <=> rank <= c)
    /\ k <= pos - 1 => (k <= rank <=> vk <= val)
    /\ 1 <= k - 1 /\ k - 1 <= pos - 1 => (k - 1 <= rank <=> vj <= val)
    /\ 1 <= rank => vr <= val
    /\ uk = IF k <= rank \/ k > pos THEN vk ELSE IF k = rank + 1 THEN val ELSE vj

LEMMA RankStep ==
    ASSUME NEW K, NEW L, NEW val, NEW x, NEW c, NEW d, NEW vk, NEW vj, NEW vK, NEW vr, NEW uk,
           NEW pos, NEW rank, NEW k,
           AtIndex(K, L, val, x, c, d, vk, vj, vK, vr, uk, pos, rank, k)
    PROVE  uk <= x <=> k <= d
  BY DEF AtIndex

LEMMA LeastIs ==
    ASSUME NEW x \in Int, NEW y \in Int
    PROVE  /\ Least2(x, y) \in Int /\ Least2(x, y) <= x /\ Least2(x, y) <= y
           /\ Least2(x, y) = x \/ Least2(x, y) = y
  BY DEF Least2

Inserted(u, v, K, pos, rank, val) ==
    \A k \in 1..K : u[k] = IF k <= rank \/ k > pos THEN v[k]
                           ELSE IF k = rank + 1 THEN val ELSE v[k - 1]
RankIn(v, pos, rank, val) == \A j \in 1..(pos - 1) : j <= rank <=> v[j] <= val
OneMore(D, C, val) == \A x \in Int : D[x] = C[x] + (IF val <= x THEN 1 ELSE 0)

LEMMA InsertRanked ==
    ASSUME NEW K \in Nat \ {0}, NEW L \in Nat, NEW v \in [1..K -> Int], NEW val \in Int,
           NEW C \in [Int -> 0..L], NEW D \in [Int -> Int], OneMore(D, C, val),
           Ranked(v, Least2(K, L), C),
           NEW pos \in 0..K, pos = IF L < K THEN L + 1 ELSE IF val < v[K] THEN K ELSE 0,
           NEW rank \in 0..K, rank < pos \/ (pos = 0 /\ rank = 0), RankIn(v, pos, rank, val),
           NEW u \in [1..K -> Int], Inserted(u, v, K, pos, rank, val)
    PROVE  Ranked(u, Least2(K, L + 1), D)
<1>1. SUFFICES ASSUME NEW k \in 1..Least2(K, L + 1), NEW x \in Int
               PROVE  u[k] <= x <=> k <= D[x]
  BY DEF Ranked
<1>2. k \in 1..K /\ k <= L + 1
  <2>1. PICK n \in Int : n = Least2(K, L + 1) /\ n <= K /\ n <= L + 1
    <3>1. L + 1 \in Int /\ K \in Int
      OBVIOUS
    <3> QED  BY <3>1, LeastIs
  <2>2. n <= K /\ n <= L + 1
    BY <2>1
  <2>3. k \in 1..n
    BY <2>1
  <2> QED  BY <2>2, <2>3
<1>3. PICK c \in 0..L, d \in Int : c = C[x] /\ d = D[x]
  OBVIOUS
<1>4. PICK vk \in Int, vK \in Int, uk \in Int : vk = v[k] /\ vK = v[K] /\ uk = u[k]
  BY <1>2
<1>5. PICK vj \in Int : k - 1 \in 1..K => vj = v[k - 1]
  OBVIOUS
<1>6. PICK vr \in Int : rank \in 1..K => vr = v[rank]
  OBVIOUS
<1>7. \A j \in 1..K : j <= L => (v[j] <= x <=> j <= c)
  <2>1. PICK n \in Int : n = Least2(K, L) /\ (n = K \/ n = L)
    <3>1. L \in Int /\ K \in Int
      OBVIOUS
    <3> QED  BY <3>1, LeastIs
  <2>2. \A j \in 1..K : j <= L => j \in 1..n
    <3>1. ASSUME NEW j \in 1..K, j <= L PROVE j \in 1..n
      <4>1. CASE n = K
        BY <4>1
      <4>2. CASE n = L
        BY <3>1, <4>2
      <4> QED  BY <2>1, <4>1, <4>2
    <3> QED  BY <3>1
  <2>3. \A j \in 1..n : v[j] <= x <=> j <= C[x]
    BY <2>1 DEF Ranked
  <2> QED  BY <1>3, <2>2, <2>3
<1>8. /\ k <= L => (vk <= x <=> k <= c)
      /\ k = K => vk = vK
      /\ K <= L => (vK <= x <=> K <= c)
  <2>1. k <= L => (v[k] <= x <=> k <= c)
    BY <1>2, <1>7
  <2>2. K <= L => (v[K] <= x <=> K <= c)
    <3>1. K \in 1..K
      OBVIOUS
    <3> QED  BY <1>7, <3>1
  <2> QED  BY <1>4, <2>1, <2>2
<1>9. 1 <= k - 1 /\ k - 1 <= L => (vj <= x <=> k - 1 <= c)
  <2>1. 1 <= k - 1 /\ k - 1 <= L => k - 1 \in 1..K
    BY <1>2
  <2>2. PICK j \in Int : j = k - 1
    BY <1>2
  <2>3. j \in 1..K /\ j <= L => (v[j] <= x <=> j <= c)
    BY <1>7
  <2> QED  BY <1>5, <2>1, <2>2, <2>3
<1>10. 1 <= rank /\ rank <= L => (vr <= x <=> rank <= c)
  <2>1. 1 <= rank => rank \in 1..K
    OBVIOUS
  <2>2. rank \in 1..K /\ rank <= L => (v[rank] <= x <=> rank <= c)
    BY <1>7
  <2> QED  BY <1>6, <2>1, <2>2
<1>11. k <= pos - 1 => (k <= rank <=> vk <= val)
  <2>1. k \in Int /\ 1 <= k /\ pos \in Int
    BY <1>2
  <2>2. k <= pos - 1 => k \in 1..(pos - 1)
    BY ONLY <2>1
  <2> QED  BY <1>4, <2>2 DEF RankIn
<1>12. 1 <= k - 1 /\ k - 1 <= pos - 1 => (k - 1 <= rank <=> vj <= val)
  <2>1. 1 <= k - 1 /\ k - 1 <= pos - 1 => k - 1 \in 1..(pos - 1) /\ k - 1 \in 1..K
    BY <1>2
  <2> QED  BY <1>5, <2>1 DEF RankIn
<1>13. 1 <= rank => vr <= val
  <2>1. pos \in Int /\ K \in Int /\ rank \in 0..K /\ (rank < pos \/ (pos = 0 /\ rank = 0))
    OBVIOUS
  <2>2. 1 <= rank => rank \in 1..K /\ rank \in 1..(pos - 1)
    BY ONLY <2>1
  <2>3. rank \in 1..(pos - 1) /\ rank <= rank => v[rank] <= val
    BY DEF RankIn
  <2>4. rank <= rank
    BY <2>1
  <2> QED  BY <1>6, <2>2, <2>3, <2>4
<1>14. d = c + (IF val <= x THEN 1 ELSE 0)
  BY <1>3 DEF OneMore
<1>15. uk = IF k <= rank \/ k > pos THEN vk ELSE IF k = rank + 1 THEN val ELSE vj
  <2>1. u[k] = IF k <= rank \/ k > pos THEN v[k] ELSE IF k = rank + 1 THEN val ELSE v[k - 1]
    BY <1>2 DEF Inserted
  <2>2. ~(k <= rank) /\ k # rank + 1 => k - 1 \in 1..K
    BY <1>2
  <2> QED  BY <1>4, <1>5, <2>1, <2>2
<1>16. pos = IF L < K THEN L + 1 ELSE IF val < vK THEN K ELSE 0
  BY <1>4
<1>17. uk <= x <=> k <= d
  <2>1. AtIndex(K, L, val, x, c, d, vk, vj, vK, vr, uk, pos, rank, k)
    BY <1>2, <1>8, <1>9, <1>10, <1>11, <1>12, <1>13, <1>14, <1>15, <1>16 DEF AtIndex
  <2> QED  BY <2>1, RankStep
<1> QED  BY <1>3, <1>4, <1>17

\* How many of the samples s are up to x.
UpTo(s) == [x \in Int |-> Cardinality(Below(s, x))]
BestOf(v, K, s) == Ranked(v, Least2(K, Len(s)), UpTo(s))

LEMMA UpToAppend ==
    ASSUME NEW s \in Seq(Int), NEW val \in Int
    PROVE  /\ UpTo(s) \in [Int -> 0..Len(s)] /\ UpTo(Append(s, val)) \in [Int -> Int]
           /\ OneMore(UpTo(Append(s, val)), UpTo(s), val)
<1>1. PICK t : t = Append(s, val)
  OBVIOUS
<1>2. \A x \in Int : Cardinality(Below(s, x)) \in 0..Len(s)
  BY BelowAppend
<1>3. \A x \in Int : Cardinality(Below(t, x)) = Cardinality(Below(s, x)) + (IF val <= x THEN 1 ELSE 0)
  BY <1>1, BelowAppend
<1>4. \A x \in Int : Cardinality(Below(t, x)) \in Int
  <2>1. Len(s) \in Nat
    OBVIOUS
  <2>2. \A x \in Int : Cardinality(Below(s, x)) \in Int
    BY <1>2, <2>1
  <2>3. \A x \in Int : (IF val <= x THEN 1 ELSE 0) \in Int
    OBVIOUS
  <2> QED  BY <1>3, <2>2, <2>3
<1>5. UpTo(s) \in [Int -> 0..Len(s)]
  BY <1>2 DEF UpTo
<1>6. UpTo(t) \in [Int -> Int]
  BY <1>4 DEF UpTo
<1>7. OneMore(UpTo(t), UpTo(s), val)
  BY <1>3 DEF OneMore, UpTo
<1> QED  BY <1>1, <1>5, <1>6, <1>7

\* What AddSample does.
Pos(K, L, v, val) == IF L < K THEN L + 1 ELSE IF val < v[K] THEN K ELSE 0
Rank(v, pos, val) == Max({0} \cup {k \in 1..(pos - 1) : v[k] <= val})
Place(v, pos, rank, val, k) ==
    IF k <= rank \/ k > pos THEN v[k] ELSE IF k = rank + 1 THEN val ELSE v[k - 1]

LEMMA AddSampleIs ==
    ASSUME NEW K, NEW L, NEW v, NEW s, NEW val, NEW pos, NEW rank, s = [values |-> v, samplecount |-> L],
           pos = Pos(K, L, v, val), rank = Rank(v, pos, val)
    PROVE  AddSample(s, K, val)
             = [values |-> [k \in 1..K |-> Place(v, pos, rank, val, k)], samplecount |-> L + 1]
  BY DEF AddSample, Pos, Rank, Place

LEMMA RankIs ==
    ASSUME NEW K \in Nat \ {0}, NEW L \in Nat, NEW v \in [1..K -> Int], NEW val \in Int,
           NEW C, Ranked(v, Least2(K, L), C), C \in [Int -> 0..L],
           NEW pos \in 0..K, pos <= L + 1, NEW rank, rank = Rank(v, pos, val)
    PROVE  rank \in 0..K /\ (rank < pos \/ (pos = 0 /\ rank = 0)) /\ RankIn(v, pos, rank, val)
<1> DEFINE T == {0} \cup {k \in 1..(pos - 1) : v[k] <= val}
<1>1. T \in SUBSET Int /\ T # {} /\ 0 \in T /\ \A x \in T : x <= pos
  <2>1. pos \in Nat
    OBVIOUS
  <2>2. \A x \in T : x = 0 \/ x \in 1..(pos - 1)
    OBVIOUS
  <2>3. \A x \in T : x \in Int /\ x <= pos
    BY <2>1, <2>2
  <2> QED  BY <2>3
<1>2. rank = Max(T)
  BY DEF Rank
<1>3. \A x : x \in T <=> x = 0 \/ (x \in 1..(pos - 1) /\ v[x] <= val)
  OBVIOUS
<1> HIDE DEF T
<1>4. rank \in T /\ \A x \in T : x <= rank
  <2>1. pos \in Int
    OBVIOUS
  <2>2. Max(T) \in T /\ \A x \in T : x <= Max(T)
    BY <1>1, <2>1, GreatestIs
  <2> QED  BY <1>2, <2>2
<1>5. rank \in 0..K /\ (rank < pos \/ (pos = 0 /\ rank = 0))
  <2>1. pos \in Int /\ pos >= 0 /\ pos <= K /\ K \in Int
    OBVIOUS
  <2>2. CASE rank = 0
    BY <2>1, <2>2
  <2>3. CASE rank \in 1..(pos - 1)
    BY ONLY <2>1, <2>3
  <2> QED  BY <1>3, <1>4, <2>2, <2>3
<1>6. ASSUME NEW j \in 1..(pos - 1), v[j] <= val PROVE j <= rank
  BY <1>3, <1>4, <1>6
<1>7. ASSUME NEW j \in 1..(pos - 1), j <= rank PROVE v[j] <= val
  <2>1. rank \in 1..(pos - 1) /\ v[rank] <= val
    <3>1. rank # 0
      BY <1>7
    <3> QED  BY <1>3, <1>4, <3>1
  <2>2. PICK n \in Int : n = Least2(K, L) /\ (n = K \/ n = L)
    <3>1. K \in Int /\ L \in Int
      OBVIOUS
    <3> QED  BY <3>1, LeastIs
  <2>3. j \in 1..n /\ rank \in 1..n
    <3>1. pos - 1 <= n
      <4>1. pos \in Int /\ K \in Int /\ L \in Int /\ pos <= K /\ pos <= L + 1
        OBVIOUS
      <4> QED  BY ONLY <2>2, <4>1
    <3>2. j \in Int /\ 1 <= j /\ j <= pos - 1 /\ rank \in Int /\ 1 <= rank /\ rank <= pos - 1 /\ pos \in Int
      BY <2>1
    <3> QED  BY ONLY <2>2, <3>1, <3>2
  <2>4. \A i \in 1..n : v[i] <= val <=> i <= C[val]
    BY <2>2 DEF Ranked
  <2>5. C[val] \in Int
    OBVIOUS
  <2>6. rank <= C[val]
    BY <2>1, <2>3, <2>4
  <2>7. j <= C[val]
    BY <1>5, <1>7, <2>5, <2>6
  <2> QED  BY <2>3, <2>4, <2>7
<1> QED  BY <1>5, <1>6, <1>7 DEF RankIn

\* The sampler s keeps the best values v of the samples t.
Best(K, v, t, s) ==
    /\ v \in [1..K -> Int] /\ t \in Seq(Int)
    /\ s = [values |-> v, samplecount |-> Len(t)] /\ BestOf(v, K, t)

LEMMA AddSampleBest ==
    ASSUME NEW K \in Nat \ {0}, NEW v, NEW ss, NEW s, NEW val \in Int, Best(K, v, ss, s)
    PROVE  LET u == AddSample(s, K, val) IN Best(K, u.values, Append(ss, val), u)
<1> SUFFICES ASSUME v \in [1..K -> Int], ss \in Seq(Int),
                    s = [values |-> v, samplecount |-> Len(ss)], BestOf(v, K, ss)
             PROVE  LET u == AddSample(s, K, val) IN Best(K, u.values, Append(ss, val), u)
  BY DEF Best
<1>1. PICK L \in Nat : L = Len(ss)
  OBVIOUS
<1>2. PICK C, D : C = UpTo(ss) /\ D = UpTo(Append(ss, val))
  OBVIOUS
<1>3. C \in [Int -> 0..L] /\ D \in [Int -> Int] /\ OneMore(D, C, val) /\ Ranked(v, Least2(K, L), C)
  BY <1>1, <1>2, UpToAppend DEF BestOf
<1>4. PICK pos \in 0..K : /\ pos = IF L < K THEN L + 1 ELSE IF val < v[K] THEN K ELSE 0
                          /\ pos <= L + 1
  <2>1. CASE L < K
    BY <2>1
  <2>2. CASE ~(L < K) /\ val < v[K]
    BY <2>2
  <2>3. CASE ~(L < K) /\ ~(val < v[K])
    BY <2>3
  <2> QED  BY <2>1, <2>2, <2>3
<1>5. PICK rank : rank = Rank(v, pos, val)
  OBVIOUS
<1>6. rank \in 0..K /\ (rank < pos \/ (pos = 0 /\ rank = 0)) /\ RankIn(v, pos, rank, val)
  BY <1>3, <1>4, <1>5, RankIs
<1>7. PICK u : u = [k \in 1..K |-> Place(v, pos, rank, val, k)]
  OBVIOUS
<1>8. AddSample(s, K, val) = [values |-> u, samplecount |-> L + 1]
  <2>1. pos = Pos(K, L, v, val)
    BY <1>4 DEF Pos
  <2>2. s = [values |-> v, samplecount |-> L]
    BY <1>1
  <2>3. AddSample(s, K, val)
          = [values |-> [k \in 1..K |-> Place(v, pos, rank, val, k)], samplecount |-> L + 1]
    BY <1>5, <2>1, <2>2, AddSampleIs
  <2> QED  BY <1>7, <2>3
<1>9. \A k \in 1..K : Place(v, pos, rank, val, k) \in Int
  <2>1. ASSUME NEW k \in 1..K PROVE Place(v, pos, rank, val, k) \in Int
    <3>1. CASE k <= rank \/ k > pos
      BY <3>1 DEF Place
    <3>2. CASE ~(k <= rank \/ k > pos) /\ k = rank + 1
      BY <3>2 DEF Place
    <3>3. CASE ~(k <= rank \/ k > pos) /\ k # rank + 1
      <4>1. k - 1 \in 1..K
        BY <1>6, <3>3
      <4> QED  BY <3>3, <4>1 DEF Place
    <3> QED  BY <3>1, <3>2, <3>3
  <2> QED  BY <2>1
<1>10. u \in [1..K -> Int] /\ Inserted(u, v, K, pos, rank, val)
  BY <1>7, <1>9 DEF Inserted, Place
<1>11. Ranked(u, Least2(K, L + 1), D)
  BY <1>3, <1>4, <1>6, <1>10, InsertRanked
<1>12. Append(ss, val) \in Seq(Int) /\ Len(Append(ss, val)) = L + 1
  BY <1>1
<1>13. PICK x : x = AddSample(s, K, val)
  OBVIOUS
<1>14. x.values = u /\ x = [values |-> u, samplecount |-> L + 1]
  BY <1>8, <1>13
<1>15. BestOf(u, K, Append(ss, val))
  BY <1>2, <1>11, <1>12 DEF BestOf
<1>16. Best(K, x.values, Append(ss, val), x)
  BY <1>10, <1>12, <1>14, <1>15 DEF Best
<1> QED  BY <1>13, <1>16

\* What KBestExact says of the sorted values v of the samples s.
Ordered(v, n) == \A k \in 1..(n - 1) : v[k] <= v[k + 1]
CountUpTo(v, n, x) == Cardinality({k \in 1..n : v[k] <= x})
Counted(v, n, s, xs) ==
    \A x \in xs : CountUpTo(v, n, x) = Min({n, Cardinality({k \in DOMAIN s : s[k] <= x})})

LEMMA BestOfNone ==
    ASSUME NEW K \in Nat \ {0}, NEW v
    PROVE  BestOf(v, K, <<>>)
<1>1. Len(<<>>) = 0
  OBVIOUS
<1>2. Least2(K, 0) = 0
  <2>1. K \in Int /\ 0 \in Int /\ K > 0
    OBVIOUS
  <2> QED  BY <2>1 DEF Least2
<1>3. 1..0 = {}
  OBVIOUS
<1> QED  BY <1>1, <1>2, <1>3 DEF BestOf, Ranked

LEMMA BestIs ==
    ASSUME NEW K \in Nat \ {0}, NEW s \in Seq(Int), NEW v \in [1..K -> Int], BestOf(v, K, s)
    PROVE  /\ Ordered(v, Min({K, Len(s)}))
           /\ Counted(v, Min({K, Len(s)}), s, Range(s) \cup Range(v))
           /\ s # <<>> => v[1] = Min(Range(s))
<1>1. PICK L \in Nat : L = Len(s) /\ DOMAIN s = 1..L
  OBVIOUS
<1>2. PICK C : C = UpTo(s) /\ C \in [Int -> 0..L]
  <2>1. 0 \in Int
    OBVIOUS
  <2>2. UpTo(s) \in [Int -> 0..Len(s)]
    BY <2>1, UpToAppend
  <2>3. PICK C : C = UpTo(s)
    OBVIOUS
  <2> QED  BY <1>1, <2>2, <2>3
<1>3. PICK n \in Int : /\ n = Least2(K, L) /\ n = Min({K, L})
                       /\ 0 <= n /\ n <= K /\ n <= L /\ (L > 0 => n > 0)
  <2>1. K \in Int /\ L \in Int /\ K > 0 /\ L >= 0
    OBVIOUS
  <2>2. Min({K, L}) \in {K, L} /\ Min({K, L}) <= K /\ Min({K, L}) <= L
    BY <2>1, LeastOfTwo
  <2>3. Least2(K, L) \in Int /\ Least2(K, L) <= K /\ Least2(K, L) <= L
        /\ (Least2(K, L) = K \/ Least2(K, L) = L)
    BY <2>1, LeastIs
  <2>4. PICK a, b : a = Least2(K, L) /\ b = Min({K, L})
    OBVIOUS
  <2>5. a = b /\ a \in Int /\ 0 <= a /\ a <= K /\ a <= L /\ (L > 0 => a > 0)
    BY <2>1, <2>2, <2>3, <2>4
  <2> QED  BY <2>4, <2>5
<1>4. \A x \in Int : \A k \in 1..n : v[k] <= x <=> k <= C[x]
  BY <1>1, <1>2, <1>3 DEF BestOf, Ranked
<1>5. \A k \in 1..n : k \in 1..K /\ v[k] \in Int
  <2>1. \A k \in 1..n : k \in 1..K
    BY <1>3
  <2> QED  BY <2>1
<1>6. \A x \in Int : C[x] \in Nat /\ C[x] = Cardinality({k \in DOMAIN s : s[k] <= x})
  BY <1>2 DEF UpTo, Below
<1>7. Ordered(v, n)
  <2> SUFFICES ASSUME NEW k \in 1..(n - 1) PROVE v[k] <= v[k + 1]
    BY DEF Ordered
  <2>1. k \in 1..n /\ k + 1 \in 1..n /\ k \in Int
    BY <1>3
  <2>2. PICK x \in Int : x = v[k + 1]
    BY <1>5, <2>1
  <2>3. x <= x
    BY <2>2
  <2>4. k + 1 <= C[x]
    BY <1>4, <2>1, <2>2, <2>3
  <2>5. k <= C[x]
    <3>1. PICK c : c = C[x]
      OBVIOUS
    <3>2. c \in Int
      <4>1. c \in 0..L
        BY <1>2, <2>2, <3>1
      <4> QED  BY ONLY <4>1
    <3> QED  BY <2>1, <2>4, <3>1, <3>2
  <2> QED  BY <1>4, <2>1, <2>2, <2>5
<1>8. Counted(v, n, s, Range(s) \cup Range(v))
  <2>1. \A x \in Range(s) \cup Range(v) : x \in Int
    BY DEF Range
  <2> SUFFICES ASSUME NEW x \in Int PROVE CountUpTo(v, n, x) = Min({n, C[x]})
    BY <1>6, <2>1 DEF Counted
  <2>2. PICK c \in Nat : c = C[x]
    BY <1>6
  <2>3. PICK m \in Int : m = Min({n, c}) /\ (m = n \/ m = c) /\ m <= n /\ m <= c /\ m >= 0
    <3>1. n \in Int /\ c \in Int /\ c >= 0
      BY <2>2
    <3>2. Min({n, c}) \in {n, c} /\ Min({n, c}) <= n /\ Min({n, c}) <= c
      BY <3>1, LeastOfTwo
    <3> QED  BY <1>3, <3>1, <3>2
  <2>4. {k \in 1..n : v[k] <= x} = 1..m
    <3>1. \A k : k \in 1..n /\ v[k] <= x <=> k \in 1..n /\ k <= c
      BY <1>4, <2>2
    <3>2. \A k : k \in 1..n /\ k <= c <=> k \in 1..m
      BY <1>3, <2>2, <2>3
    <3> QED  BY <3>1, <3>2
  <2>5. Cardinality(1..m) = m
    <3>1. 1 \in Int /\ m \in Int
      BY <2>3
    <3>2. Cardinality(1..m) = IF 1 > m THEN 0 ELSE m - 1 + 1
      BY <3>1, FS_Interval
    <3> QED  BY <2>3, <3>2
  <2> QED  BY <2>2, <2>3, <2>4, <2>5 DEF CountUpTo
<1>9. ASSUME s # <<>> PROVE v[1] = Min(Range(s))
  <2>1. L > 0
    BY <1>1, <1>9
  <2>2. 1 \in 1..n
    BY <1>3, <2>1
  <2>3. PICK x \in Int : x = v[1]
    BY <1>5, <2>2
  <2>4. 1 <= C[x]
    BY <1>4, <2>2, <2>3
  <2>5. PICK B : B = {k \in DOMAIN s : s[k] <= x}
    OBVIOUS
  <2>6. B # {}
    BY <1>6, <2>4, <2>5, FS_EmptySet
  <2>7. PICK k \in DOMAIN s : s[k] <= x
    BY <2>5, <2>6
  <2>8. ASSUME NEW y \in Range(s) PROVE x <= y
    <3>1. PICK j \in DOMAIN s : y = s[j]
      BY <2>8 DEF Range
    <3>2. y \in Int /\ y <= y
      BY <3>1
    <3>3. PICK D : D = {i \in DOMAIN s : s[i] <= y}
      OBVIOUS
    <3>4. j \in D /\ D \subseteq 1..L
      BY <1>1, <3>1, <3>2, <3>3
    <3>5. IsFiniteSet(D)
      <4>1. 1 \in Int /\ L \in Int
        OBVIOUS
      <4> QED  BY <3>4, <4>1, FS_Interval, FS_Subset
    <3>6. Cardinality(D) # 0
      BY <3>4, <3>5, FS_EmptySet
    <3>7. C[y] >= 1
      <4>1. PICK c \in Nat : c = C[y] /\ c = Cardinality(D)
        BY <1>6, <3>2, <3>3
      <4> QED  BY <3>6, <4>1
    <3> QED  BY <1>4, <2>2, <2>3, <3>2, <3>7
  <2>9. s[k] \in Range(s) /\ s[k] \in Int
    BY <2>7 DEF Range
  <2>10. x \in Range(s)
    <3>1. x <= s[k]
      BY <2>8, <2>9
    <3>2. x = s[k]
      BY <2>3, <2>7, <2>9, <3>1
    <3> QED  BY <2>9, <3>2
  <2>11. \A z \in Range(s) : z \in Int
    BY DEF Range
  <2>12. Min(Range(s)) \in Range(s) /\ \A y \in Range(s) : Min(Range(s)) <= y
    BY <2>8, <2>10 DEF Min
  <2>13. x <= Min(Range(s)) /\ Min(Range(s)) <= x /\ Min(Range(s)) \in Int
    BY <2>8, <2>10, <2>11, <2>12
  <2> QED  BY <2>3, <2>13
<1> QED  BY <1>1, <1>3, <1>7, <1>8, <1>9

-----------------------------------------------------------------------------
(* The measurements. *)

Took(s) == FoldLeft(+, 0, s)

\* The parameters init_fsecs sets, and the clocks.
Clocks ==
    /\ params.kbest = Kbest /\ params.maxsamples = MaxSamples
    /\ now \in Nat /\ samples \in Seq(Int) /\ cyc_per_tick \in Nat

\* fcyc: the K best of the samples so far, and a counter that was read just now.
BestSoFar ==
    \E v \in [1..Kbest -> Int] : /\ sampler = [values |-> v, samplecount |-> Len(samples)]
                                 /\ BestOf(v, Kbest, samples)
ByCounter ==
    timer = "fcyc" =>
      /\ BestSoFar
      /\ Len(samples) <= MaxSamples
      /\ step \in {"begin", "start", "run"} => Len(samples) < MaxSamples
      /\ step # "init" => params.compensate = TRUE /\ Mhz = SleepCycles
      /\ step = "run" => cyc = AccessCounter(now)
      /\ step = "done" => samples # <<>> /\ secs = sampler.values[1]

\* ftimer: the time of the calls so far is what the interval timer has lost and the
\* time of day has gained.
ByTimer ==
    timer # "fcyc" =>
      /\ step # "start" /\ (step = "begin" => samples = <<>>)
      /\ step = "run" => \/ /\ timer = "itimer" /\ start = 0 /\ real \in Nat
                            /\ real = MAX_ETIME * Usec - Took(samples)
                         \/ /\ timer = "gettod" /\ start \in Nat
                            /\ now = start + Took(samples)
      /\ step = "done" => secs = Took(samples)

Timed == Clocks /\ ByCounter /\ ByTimer
TimeInv == (step = "init" => pc = "init_fsecs") /\ Timed

LEMMA TookIs ==
    /\ Took(<<>>) = 0
    /\ \A s \in Seq(Int) : \A d \in Int : Took(s) \in Int /\ Took(Append(s, d)) = Took(s) + d
  BY SumAppend, SumOfEmpty DEF Took

LEMMA NoSamples ==
    ASSUME NEW K \in Nat \ {0}
    PROVE  \E v \in [1..K -> Int] : /\ InitSampler(K) = [values |-> v, samplecount |-> Len(<<>>)]
                                    /\ BestOf(v, K, <<>>)
<1>1. PICK v : v = [k \in 1..K |-> 0]
  OBVIOUS
<1>2. v \in [1..K -> Int]
  BY <1>1
<1>3. Len(<<>>) = 0
  OBVIOUS
<1>4. InitSampler(K) = [values |-> v, samplecount |-> Len(<<>>)]
  BY <1>1, <1>3 DEF InitSampler
<1>5. BestOf(v, K, <<>>)
  BY BestOfNone
<1> QED  BY <1>2, <1>4, <1>5

LEMMA InitIsTimed == ASSUME TimingAssumption, KBestAssumption, TimingInit PROVE Timed
<1>1. /\ timer \in Timers /\ step = "init" /\ now \in Nat /\ samples = <<>> /\ cyc_per_tick = 0
      /\ params.kbest = Kbest /\ params.maxsamples = MaxSamples
      /\ sampler = InitSampler(Kbest) /\ Kbest \in Nat \ {0} /\ MaxSamples \in Nat \ {0}
  BY DEF TimingInit, TimingAssumption
<1>2. BestSoFar
  BY <1>1, NoSamples DEF BestSoFar
<1>3. Len(samples) = 0
  BY <1>1
<1> QED  BY <1>1, <1>2, <1>3 DEF Timed, Clocks, ByCounter, ByTimer

\* A measurement begins with no samples.
LEMMA CallFsecsTimed ==
    ASSUME TimingAssumption, KBestAssumption, Timed, step # "init", CallFsecs PROVE Timed' /\ step' # "init"
<1>1. /\ step' = "begin" /\ samples' = <<>> /\ sampler' = InitSampler(Kbest)
      /\ UNCHANGED <<timer, now, params, Mhz, cyc_per_tick>>
      /\ Kbest \in Nat \ {0} /\ MaxSamples \in Nat \ {0}
  BY DEF CallFsecs, TimingAssumption, Timed, Clocks
<1>2. BestSoFar'
  BY <1>1, NoSamples DEF BestSoFar
<1>3. Len(samples') = 0 /\ samples' \in Seq(Int)
  BY <1>1
<1> QED  BY <1>1, <1>2, <1>3 DEF Timed, Clocks, ByCounter, ByTimer

\* mhz reads the counter of its sleep.
LEMMA InitFsecsTimed ==
    ASSUME TimingAssumption, KBestAssumption, CounterFits, Timed, InitFsecs PROVE Timed' /\ step' # "init"
<1>1. /\ step = "init" /\ step' = "idle" /\ UNCHANGED <<timer, sampler, cyc_per_tick, samples>>
      /\ SleepCycles \in Nat /\ SleepCycles < Word * Word /\ Word \in Nat \ {0}
  BY DEF InitFsecs, TimingAssumption, KBestAssumption, CounterFits
<1>2. CASE timer = "fcyc"
  <2>1. /\ params' = [kbest |-> Kbest, maxsamples |-> MaxSamples, clear_cache |-> TRUE,
                      compensate |-> TRUE]
        /\ now' = now + SleepCycles
        /\ Mhz' = GetCounter(AccessCounter(now), AccessCounter(now'))
    BY <1>2 DEF InitFsecs, SetFcyc, MeasureMhz
  <2>2. now \in Nat
    BY DEF Timed, Clocks
  <2>3. Mhz' = SleepCycles
    BY <1>1, <2>1, <2>2, CounterDifference
  <2>4. now' \in Nat
    BY <1>1, <2>1, <2>2
  <2>5. BestSoFar'
    BY <1>1, <1>2 DEF Timed, ByCounter, BestSoFar
  <2> QED  BY <1>1, <1>2, <2>1, <2>3, <2>4, <2>5 DEF Timed, Clocks, ByCounter, ByTimer
<1>3. CASE timer # "fcyc"
  <2>1. UNCHANGED <<params, now>>
    BY <1>3 DEF InitFsecs
  <2> QED  BY <1>1, <1>3, <2>1 DEF Timed, Clocks, ByCounter, ByTimer
<1> QED  BY <1>2, <1>3

LEMMA ClearTimed == ASSUME Timed, Clear PROVE Timed' /\ step' # "init"
<1>1. /\ step = "begin" /\ timer = "fcyc" /\ step' \in {"start", "failed"}
      /\ UNCHANGED <<timer, now, params, Mhz, sampler, cyc_per_tick, samples>>
  BY DEF Clear
<1>2. BestSoFar' <=> BestSoFar
  BY <1>1 DEF BestSoFar
<1> QED  BY <1>1, <1>2 DEF Timed, Clocks, ByCounter, ByTimer

LEMMA StartCompCounterTimed ==
    ASSUME TimingAssumption, Timed, StartCompCounter PROVE Timed' /\ step' # "init"
<1>1. /\ step = "start" /\ timer = "fcyc" /\ step' = "run" /\ cyc' = AccessCounter(now)
      /\ UNCHANGED <<timer, now, params, Mhz, sampler, samples>>
  BY DEF StartCompCounter, Timed, ByTimer
<1>2. cyc_per_tick' \in Nat
  BY DEF StartCompCounter, Callibrated, TimingAssumption, Timed, Clocks
<1>3. BestSoFar' <=> BestSoFar
  BY <1>1 DEF BestSoFar
<1> QED  BY <1>1, <1>2, <1>3 DEF Timed, Clocks, ByCounter, ByTimer

\* A sample is the time that passed, less that of the interrupts, and takes its place
\* among the best.
LEMMA SampleTimed ==
    ASSUME TimingAssumption, KBestAssumption, CounterFits, Timed, Sample PROVE Timed' /\ step' # "init"
<1>1. /\ step = "run" /\ timer = "fcyc"
      /\ UNCHANGED <<timer, params, Mhz, cyc_per_tick>>
      /\ \/ step' = "begin" /\ sampler'.samplecount < params.maxsamples
         \/ step' = "done" /\ secs' = sampler'.values[1]
  BY DEF Sample
<1>2. PICK d \in Cycles, ticks \in 0..1 :
        LET cost == IF params.compensate THEN cyc_per_tick ELSE 0 IN
        /\ now' = now + d
        /\ sampler' = AddSample(sampler, params.kbest,
                                GetCompCounter(cyc, AccessCounter(now'), ticks, cost))
        /\ samples' = Append(samples, d - ticks * cyc_per_tick)
  BY DEF Sample
<1>3. /\ BestSoFar /\ Len(samples) < MaxSamples /\ params.compensate = TRUE /\ Mhz = SleepCycles
      /\ cyc = AccessCounter(now) /\ params.kbest = Kbest /\ params.maxsamples = MaxSamples
      /\ now \in Nat /\ samples \in Seq(Int) /\ cyc_per_tick \in Nat
  BY <1>1 DEF Timed, ByCounter, Clocks
<1>4. /\ d \in Nat /\ d < Word * Word /\ Word \in Nat \ {0} /\ Kbest \in Nat \ {0}
      /\ MaxSamples \in Nat
  BY DEF TimingAssumption, KBestAssumption, CounterFits
<1>5. PICK val \in Int : val = d - ticks * cyc_per_tick
  <2>1. ticks = 0 \/ ticks = 1
    OBVIOUS
  <2>2. CASE ticks = 0
    <3>1. d - ticks * cyc_per_tick \in Int
      BY <1>3, <1>4, <2>2
    <3> QED  BY <3>1
  <2>3. CASE ticks = 1
    <3>1. d - ticks * cyc_per_tick \in Int
      BY <1>3, <1>4, <2>3
    <3> QED  BY <3>1
  <2> QED  BY <2>1, <2>2, <2>3
<1>6. GetCounter(AccessCounter(now), AccessCounter(now + d)) = d
  BY <1>3, <1>4, CounterDifference
<1>7. GetCompCounter(cyc, AccessCounter(now'), ticks, cyc_per_tick) = val
  BY <1>2, <1>3, <1>5, <1>6 DEF GetCompCounter
<1>8. sampler' = AddSample(sampler, Kbest, val) /\ samples' = Append(samples, val)
  BY <1>2, <1>3, <1>5, <1>7
<1>9. PICK v \in [1..Kbest -> Int] : /\ sampler = [values |-> v, samplecount |-> Len(samples)]
                                     /\ BestOf(v, Kbest, samples)
  BY <1>3 DEF BestSoFar
<1>10. PICK u, ss, was, t : /\ was = sampler /\ t = samples
                            /\ u = AddSample(was, Kbest, val) /\ ss = Append(t, val)
  OBVIOUS
<1>11. Best(Kbest, u.values, ss, u)
  <2>1. Best(Kbest, v, t, was)
    BY <1>3, <1>9, <1>10 DEF Best
  <2> QED  BY <1>4, <1>10, <2>1, AddSampleBest
<1>12. /\ samples' = ss /\ sampler' = u /\ ss \in Seq(Int) /\ Len(ss) = Len(samples) + 1
       /\ ss # <<>>
  BY <1>3, <1>8, <1>10
<1>13. u.values \in [1..Kbest -> Int] /\ u.samplecount = Len(ss)
  BY <1>11 DEF Best
<1>14. BestSoFar'
  BY <1>11, <1>12 DEF BestSoFar, Best
<1>15. Len(ss) <= MaxSamples
  <2>1. Len(samples) \in Nat
    BY <1>3
  <2> QED  BY <1>3, <1>4, <1>12, <2>1
<1>16. now' \in Nat
  BY <1>2, <1>3, <1>4
<1>17. Clocks'
  BY <1>1, <1>3, <1>12, <1>16 DEF Clocks
<1>18. step' = "begin" => Len(ss) < MaxSamples
  BY <1>1, <1>3, <1>12, <1>13
<1>19. ByCounter'
  BY <1>1, <1>3, <1>12, <1>14, <1>15, <1>18 DEF ByCounter
<1> QED  BY <1>1, <1>17, <1>19 DEF Timed, ByTimer

LEMMA EtimeIs ==
    ASSUME TimingAssumption, NEW left \in Int
    PROVE  GetEtime(left) = MAX_ETIME * Usec - left
<1>1. Usec \in Nat \ {0} /\ MAX_ETIME \in Int
  BY DEF TimingAssumption
<1>2. PICK w \in Int : w = Usec * MAX_ETIME + 0
  <2>1. Usec * MAX_ETIME + 0 \in Int
    BY <1>1
  <2> QED  BY <2>1
<1>3. w \div Usec = MAX_ETIME /\ w % Usec = 0
  <2>1. 0 \in 0..(Usec - 1)
    BY <1>1
  <2> QED  BY <1>1, <1>2, <2>1, DigitsAre
<1>4. Reading(w) = [sec |-> MAX_ETIME, usec |-> 0]
  BY <1>3 DEF Reading
<1>5. Elapsed(Reading(left), Reading(w)) = w - left
  BY <1>1, Elapses
<1>6. w = MAX_ETIME * Usec
  BY <1>1, <1>2
<1> QED  BY <1>4, <1>5, <1>6 DEF GetEtime

LEMMA InitEtimeTimed == ASSUME TimingAssumption, Timed, InitEtime PROVE Timed' /\ step' # "init"
<1>1. /\ step = "begin" /\ timer = "itimer" /\ step' = "run" /\ real' = MAX_ETIME * Usec
      /\ start' = GetEtime(real')
      /\ UNCHANGED <<timer, params, now, samples, cyc_per_tick>>
  BY DEF InitEtime, untouched
<1>2. PICK w \in Nat : w = MAX_ETIME * Usec
  <2>1. MAX_ETIME * Usec \in Nat
    BY DEF TimingAssumption
  <2> QED  BY <2>1
<1>3. samples = <<>> /\ Took(samples) = 0
  BY <1>1, TookIs DEF Timed, ByTimer
<1>4. start' = 0
  <2>1. GetEtime(w) = w - w
    BY <1>2, EtimeIs
  <2> QED  BY <1>1, <1>2, <2>1
<1>5. real' \in Nat /\ real' = MAX_ETIME * Usec - Took(samples)
  BY <1>1, <1>2, <1>3
<1>6. Took(samples)' = Took(samples)
  BY <1>1
<1>7. Clocks'
  BY <1>1 DEF Timed, Clocks
<1> QED  BY <1>1, <1>4, <1>5, <1>6, <1>7 DEF Timed, ByCounter, ByTimer

LEMMA GetTimeOfDayTimed == ASSUME Timed, GetTimeOfDay PROVE Timed' /\ step' # "init"
<1>1. /\ step = "begin" /\ timer = "gettod" /\ step' = "run" /\ start' = now
      /\ UNCHANGED <<timer, params, now, samples, cyc_per_tick>>
  BY DEF GetTimeOfDay, untouched
<1>2. samples = <<>> /\ Took(samples) = 0 /\ now \in Nat
  BY <1>1, TookIs DEF Timed, ByTimer, Clocks
<1>3. Took(samples)' = Took(samples)
  BY <1>1
<1>4. Clocks'
  BY <1>1 DEF Timed, Clocks
<1>5. start' \in Nat /\ now' = start' + Took(samples)'
  BY <1>1, <1>2, <1>3
<1> QED  BY <1>1, <1>4, <1>5 DEF Timed, ByCounter, ByTimer

LEMMA CallOnceTimed == ASSUME TimingAssumption, Timed, CallOnce PROVE Timed' /\ step' # "init"
<1>1. /\ step = "run" /\ timer # "fcyc" /\ UNCHANGED <<timer, params, cyc_per_tick, start, secs>>
  BY DEF CallOnce, untouched
<1>2. PICK d \in Cycles :
        /\ now' = now + d /\ samples' = Append(samples, d)
        /\ IF timer = "gettod" THEN UNCHANGED <<step, real>>
           ELSE /\ real' = Max({0, real - d})
                /\ step' = IF real' = 0 THEN "failed" ELSE step
  BY DEF CallOnce
<1>3. d \in Nat /\ now \in Nat /\ samples \in Seq(Int) /\ params.kbest = Kbest
      /\ params.maxsamples = MaxSamples /\ cyc_per_tick \in Nat
  BY DEF TimingAssumption, Timed, Clocks
<1>4. PICK t \in Int : t = Took(samples) /\ Took(samples') = t + d
  <2>1. d \in Int
    BY <1>3
  <2>2. Took(samples) \in Int /\ Took(Append(samples, d)) = Took(samples) + d
    BY <1>3, <2>1, TookIs
  <2> QED  BY <1>2, <2>2
<1>5. Clocks'
  <2>1. now' \in Nat /\ samples' \in Seq(Int)
    BY <1>2, <1>3
  <2> QED  BY <1>1, <1>3, <2>1 DEF Clocks
<1>6. CASE timer = "gettod"
  <2>1. start \in Nat /\ now = start + t
    BY <1>1, <1>4, <1>6 DEF Timed, ByTimer
  <2>2. now' = start + (t + d)
    BY <1>2, <1>3, <2>1
  <2>3. step' = "run" /\ start' \in Nat /\ now' = start' + Took(samples')
    BY <1>1, <1>2, <1>4, <1>6, <2>1, <2>2
  <2> QED  BY <1>1, <1>5, <1>6, <2>3 DEF Timed, ByCounter, ByTimer
<1>7. CASE timer # "gettod"
  <2>1. timer = "itimer" /\ start = 0 /\ real \in Nat /\ real = MAX_ETIME * Usec - t
    BY <1>1, <1>4, <1>7 DEF Timed, ByTimer
  <2>2. real' \in {0, real - d}
    <3>1. real - d \in Int /\ 0 \in Int /\ 0 <= real
      BY <1>3, <2>1
    <3>2. \A x \in {0, real - d} : x <= real
      BY <1>3, <2>1, <3>1
    <3>3. real \in Int /\ {0, real - d} \in SUBSET Int /\ {0, real - d} # {}
      BY <2>1, <3>1
    <3>4. Max({0, real - d}) \in {0, real - d}
      BY <3>2, <3>3, GreatestIs
    <3> QED  BY <1>2, <1>7, <3>4
  <2>3. step' = IF real' = 0 THEN "failed" ELSE "run"
    BY <1>1, <1>2, <1>7
  <2>4. 0 <= real'
    <3>1. \A x \in {0, real - d} : x <= real
      BY <1>3, <2>1
    <3>2. real \in Int /\ {0, real - d} \in SUBSET Int /\ {0, real - d} # {} /\ 0 \in {0, real - d}
      BY <1>3, <2>1
    <3>3. 0 <= Max({0, real - d})
      BY <3>1, <3>2, GreatestIs
    <3> QED  BY <1>2, <1>7, <3>3
  <2>5. ASSUME step' = "run" PROVE real' \in Nat /\ real' = MAX_ETIME * Usec - Took(samples')
    <3>1. real' = real - d
      BY <2>2, <2>3, <2>5
    <3>2. MAX_ETIME * Usec \in Int
      BY DEF TimingAssumption
    <3>3. real' = MAX_ETIME * Usec - (t + d)
      BY <1>3, <2>1, <3>1, <3>2
    <3> QED  BY <1>3, <1>4, <2>1, <2>4, <3>1, <3>3
  <2>6. step' \in {"run", "failed"}
    BY <2>3
  <2> QED  BY <1>1, <1>5, <2>1, <2>5, <2>6 DEF Timed, ByCounter, ByTimer
<1> QED  BY <1>6, <1>7

LEMMA AverageTimed == ASSUME TimingAssumption, Timed, Average PROVE Timed' /\ step' # "init"
<1>1. /\ step = "run" /\ timer # "fcyc" /\ step' = "done" /\ real' = real
      /\ secs' = IF timer = "itimer" THEN GetEtime(real') - start
                 ELSE Elapsed(Reading(start), Reading(now))
      /\ UNCHANGED <<timer, params, cyc_per_tick, now, samples>>
  BY DEF Average, untouched
<1>2. PICK t \in Int : t = Took(samples)
  BY TookIs DEF Timed, Clocks
<1>3. secs' = t
  <2>1. CASE timer = "itimer"
    <3>1. start = 0 /\ real \in Nat /\ real = MAX_ETIME * Usec - t
      BY <1>1, <1>2, <2>1 DEF Timed, ByTimer
    <3>2. GetEtime(real) = MAX_ETIME * Usec - real
      BY <3>1, EtimeIs
    <3>3. MAX_ETIME * Usec \in Int
      BY DEF TimingAssumption
    <3> QED  BY <1>1, <2>1, <3>1, <3>2, <3>3
  <2>2. CASE timer # "itimer"
    <3>1. start \in Nat /\ now = start + t
      BY <1>1, <1>2, <2>2 DEF Timed, ByTimer
    <3>2. Usec \in Nat \ {0} /\ start \in Int /\ now \in Int
      BY <3>1 DEF TimingAssumption
    <3>3. Elapsed(Reading(start), Reading(now)) = now - start
      BY <3>2, Elapses
    <3> QED  BY <1>1, <2>2, <3>1, <3>3
  <2> QED  BY <2>1, <2>2
<1>4. Took(samples)' = Took(samples)
  BY <1>1
<1>5. Clocks'
  BY <1>1 DEF Timed, Clocks
<1> QED  BY <1>1, <1>2, <1>3, <1>4, <1>5 DEF Timed, ByCounter, ByTimer

\* An action of the driver that leaves the measurements alone.
LEMMA OtherTimed ==
    ASSUME TimeInv, UNCHANGED timing, pc # "init_fsecs" PROVE TimeInv'
<1>1. /\ step # "init"
      /\ UNCHANGED <<timer, step, now, params, Mhz, sampler, cyc, cyc_per_tick, real, start, secs, samples>>
  BY DEF TimeInv, timing, readings
<1>2. (BestSoFar' <=> BestSoFar) /\ Took(samples)' = Took(samples)
  BY <1>1 DEF BestSoFar
<1> QED  BY <1>1, <1>2 DEF TimeInv, Timed, Clocks, ByCounter, ByTimer

LEMMA NextTimed ==
    ASSUME TimingAssumption, KBestAssumption, CounterFits, TimeInv, [Next]_vars PROVE TimeInv'
<1>1. CASE UNCHANGED vars
  <2>1. /\ UNCHANGED pc
        /\ UNCHANGED <<timer, step, now, params, Mhz, sampler, cyc, cyc_per_tick, real, start, secs, samples>>
    BY <1>1 DEF vars, timing, readings
  <2>2. (BestSoFar' <=> BestSoFar) /\ Took(samples)' = Took(samples)
    BY <2>1 DEF BestSoFar
  <2> QED  BY <2>1, <2>2 DEF TimeInv, Timed, Clocks, ByCounter, ByTimer
<1>2. CASE Start
  BY <1>2, InitFsecsTimed DEF Start, TimeInv
<1>3. CASE EvalLibc
  <2>1. CASE LibcTimed
    <3>1. CallFsecs /\ pc # "init_fsecs"
      BY <2>1 DEF LibcTimed
    <3> QED  BY <3>1, CallFsecsTimed DEF TimeInv
  <2>2. CASE LibcRequest \/ LibcSpeedFails
    <3>1. UNCHANGED timing /\ pc # "init_fsecs"
      BY <2>2 DEF LibcRequest, LibcSpeedFails
    <3> QED  BY <3>1, OtherTimed
  <2> QED  BY <1>3, <2>1, <2>2 DEF EvalLibc
<1>4. CASE EvalMmUtil
  <2>1. CASE Utilization
    <3>1. CallFsecs /\ pc # "init_fsecs"
      BY <2>1 DEF Utilization
    <3> QED  BY <3>1, CallFsecsTimed DEF TimeInv
  <2>2. CASE UtilAlloc \/ UtilRealloc \/ UtilFree
    <3>1. UNCHANGED timing /\ pc # "init_fsecs"
      BY <2>2 DEF UtilAlloc, UtilRealloc, UtilFree, Replay
    <3> QED  BY <3>1, OtherTimed
  <2> QED  BY <1>4, <2>1, <2>2 DEF EvalMmUtil
<1>5. CASE EvalMmValid
  <2>1. UNCHANGED timing /\ pc # "init_fsecs"
    BY <1>5 DEF EvalMmValid, StartValid, ValidAlloc, ValidRealloc, ValidFree, Valid
  <2> QED  BY <2>1, OtherTimed
<1>6. CASE ReadTrace \/ NextTrace \/ Results
  <2>1. UNCHANGED timing /\ pc # "init_fsecs"
    BY <1>6 DEF ReadTrace, NextTrace, Results
  <2> QED  BY <2>1, OtherTimed
<1>7. CASE Fsecs
  <2>1. Timed' /\ step' # "init"
    BY <1>7, ClearTimed, StartCompCounterTimed, SampleTimed, InitEtimeTimed, GetTimeOfDayTimed,
       CallOnceTimed, AverageTimed DEF Fsecs, TimeInv
  <2> QED  BY <2>1 DEF TimeInv
<1> QED  BY <1>1, <1>2, <1>3, <1>4, <1>5, <1>6, <1>7 DEF Next

\* The inductive invariant of the measurements (fcyc.c, clock.c, ftimer.c and fsecs.c).
THEOREM TimeInvariant == ASSUME CounterFits PROVE Spec => []TimeInv
<1>1. Init => TimeInv
  BY InitIsTimed, TimingAssumption, KBestAssumption DEF Init, TimeInv
<1>2. TimeInv /\ [Next]_vars => TimeInv'
  BY NextTimed, TimingAssumption, KBestAssumption
<1> QED  BY <1>1, <1>2, PTL DEF Spec

LEMMA MeasuredTimes == ASSUME TimingAssumption, TimeInv PROVE TimesExact
<1>1. KBestExact
  <2> SUFFICES ASSUME timer = "fcyc" PROVE KBestExact
    BY DEF KBestExact
  <2>1. PICK v \in [1..Kbest -> Int] : /\ sampler = [values |-> v, samplecount |-> Len(samples)]
                                       /\ BestOf(v, Kbest, samples)
    BY DEF TimeInv, Timed, ByCounter, BestSoFar
  <2>2. sampler.values = v /\ sampler.samplecount = Len(samples)
    BY <2>1
  <2>3. Kbest \in Nat \ {0} /\ samples \in Seq(Int) /\ Len(samples) <= MaxSamples
    BY DEF TimingAssumption, TimeInv, Timed, Clocks, ByCounter
  <2>4. /\ Ordered(v, Min({Kbest, Len(samples)}))
        /\ Counted(v, Min({Kbest, Len(samples)}), samples, Range(samples) \cup Range(v))
    BY <2>1, <2>3, BestIs
  <2> QED  BY <2>2, <2>3, <2>4 DEF KBestExact, Ordered, Counted, CountUpTo
<1>2. ElapsedExact
  <2>1. CASE timer = "fcyc"
    <3>1. PICK v \in [1..Kbest -> Int] : /\ sampler = [values |-> v, samplecount |-> Len(samples)]
                                         /\ BestOf(v, Kbest, samples)
      BY <2>1 DEF TimeInv, Timed, ByCounter, BestSoFar
    <3>2. Kbest \in Nat \ {0} /\ samples \in Seq(Int)
      BY DEF TimingAssumption, TimeInv, Timed, Clocks
    <3>3. samples # <<>> => v[1] = Min(Range(samples))
      BY <3>1, <3>2, BestIs
    <3>4. step = "done" => samples # <<>> /\ secs = v[1]
      BY <2>1, <3>1 DEF TimeInv, Timed, ByCounter
    <3>5. step # "init" => Mhz = SleepCycles
      BY <2>1 DEF TimeInv, Timed, ByCounter
    <3> QED  BY <2>1, <3>3, <3>4, <3>5 DEF ElapsedExact
  <2>2. CASE timer # "fcyc"
    <3>1. step = "done" => secs = Took(samples)
      BY <2>2 DEF TimeInv, Timed, ByTimer
    <3> QED  BY <2>2, <3>1 DEF ElapsedExact, Took
  <2> QED  BY <2>1, <2>2
<1> QED  BY <1>1, <1>2 DEF TimesExact

\* Whatever timer the build has: when no call takes longer than the counter can tell,
\* fcyc keeps the best samples and every measurement is the time that passed.
THEOREM TheTimesAreExact == ASSUME CounterFits PROVE Spec => []TimesExact
<1>1. TimeInv => TimesExact
  BY MeasuredTimes, TimingAssumption
<1> QED  BY <1>1, TimeInvariant, PTL

-----------------------------------------------------------------------------
(* Payloads side by side. *)

\* The payloads of live lie between lo and e and share no byte.
SideBySide(live, p, n, lo, e) ==
    /\ lo \in Int /\ e \in Int /\ lo <= e
    /\ \A i \in live : p[i] \in Int /\ n[i] \in Nat /\ Payload(p[i], n[i]) \subseteq lo..(e - 1)
    /\ \A i, j \in live : i # j => Payload(p[i], n[i]) \cap Payload(p[j], n[j]) = {}

LEMMA PayloadSize ==
    ASSUME NEW p \in Int, NEW n \in Nat
    PROVE  IsFiniteSet(Payload(p, n)) /\ Cardinality(Payload(p, n)) = n
<1>1. PICK q \in Int : q = p + n - 1
  OBVIOUS
<1>2. IsFiniteSet(p..q) /\ Cardinality(p..q) = IF p > q THEN 0 ELSE q - p + 1
  BY FS_Interval
<1>3. Payload(p, n) = p..q
  BY <1>1 DEF Payload
<1> QED  BY <1>1, <1>2, <1>3

\* They take no more than there is.
LEMMA SideBySideFits ==
    ASSUME NEW live, IsFiniteSet(live), NEW p, NEW n, NEW lo, NEW e, SideBySide(live, p, n, lo, e),
           NEW v, IsSum(v, live, n)
    PROVE  v <= e - lo
<1> DEFINE P(i) == Payload(p[i], n[i])
           U(s) == UNION {P(i) : i \in s}
           h == [s \in SUBSET live |-> Cardinality(U(s))]
           pick == [s \in SUBSET live |-> CHOOSE x \in s : TRUE]
<1>1. \A s \in SUBSET live : s # {} => pick[s] \in s
  OBVIOUS
<1>2. \A i \in live : IsFiniteSet(P(i)) /\ Cardinality(P(i)) = n[i] /\ n[i] \in Nat /\ P(i) \subseteq lo..(e - 1)
  BY PayloadSize DEF SideBySide
<1>3. \A i, j \in live : i # j => P(i) \cap P(j) = {}
  BY DEF SideBySide
<1>4. \A s : \A x : x \in U(s) <=> \E i \in s : x \in P(i)
  OBVIOUS
<1> HIDE DEF P, U, pick
<1>5. lo \in Int /\ e \in Int /\ lo <= e
  BY DEF SideBySide
<1>6. IsFiniteSet(lo..(e - 1)) /\ Cardinality(lo..(e - 1)) = e - lo
  <2>1. PICK d \in Int : d = e - 1
    BY <1>5
  <2>2. IsFiniteSet(lo..d) /\ Cardinality(lo..d) = IF lo > d THEN 0 ELSE d - lo + 1
    BY <1>5, FS_Interval
  <2> QED  BY <1>5, <2>1, <2>2
<1>7. \A s \in SUBSET live : U(s) \subseteq lo..(e - 1) /\ IsFiniteSet(U(s)) /\ Cardinality(U(s)) \in Nat
  <2> SUFFICES ASSUME NEW s \in SUBSET live
               PROVE  U(s) \subseteq lo..(e - 1) /\ IsFiniteSet(U(s)) /\ Cardinality(U(s)) \in Nat
    OBVIOUS
  <2>1. U(s) \subseteq lo..(e - 1)
    BY <1>2, <1>4
  <2> QED  BY <1>6, <2>1, FS_Subset, FS_CardinalityType
<1>8. \A s \in SUBSET live : h[s] = Cardinality(U(s))
  OBVIOUS
<1>9. h \in [SUBSET live -> Int]
  BY <1>7
<1> HIDE DEF h
<1>10. ASSUME NEW s \in SUBSET live PROVE h[s] = IF s = {} THEN 0 ELSE n[pick[s]] + h[s \ {pick[s]}]
  <2>1. CASE s = {}
    <3>1. U(s) = {}
      BY <1>4, <2>1
    <3> QED  BY <1>8, <2>1, <3>1, FS_EmptySet
  <2>2. CASE s # {}
    <3>1. PICK i : i = pick[s]
      OBVIOUS
    <3>2. i \in s /\ i \in live /\ s \ {i} \in SUBSET live
      BY <1>1, <2>2, <3>1
    <3>3. PICK A, B : A = P(i) /\ B = U(s \ {i})
      OBVIOUS
    <3>4. U(s) = A \cup B /\ A \cap B = {}
      <4>1. \A x : x \in U(s) <=> x \in A \/ x \in B
        BY <1>4, <3>2, <3>3
      <4>2. \A x : ~(x \in A /\ x \in B)
        BY <1>3, <1>4, <3>2, <3>3
      <4> QED  BY <4>1, <4>2
    <3>5. IsFiniteSet(A) /\ IsFiniteSet(B) /\ Cardinality(A) = n[i] /\ Cardinality(B) = h[s \ {i}]
      BY <1>2, <1>7, <1>8, <3>2, <3>3
    <3>6. Cardinality(A \cup B) = n[i] + h[s \ {i}]
      <4>1. Cardinality(A \cup B) = Cardinality(A) + Cardinality(B) - Cardinality(A \cap B)
        BY <3>5, FS_Union
      <4>2. Cardinality(A \cap B) = 0
        BY <3>4, FS_EmptySet
      <4>3. Cardinality(A) \in Nat /\ Cardinality(B) \in Nat
        BY <3>5, FS_CardinalityType
      <4> QED  BY <3>5, <4>1, <4>2, <4>3
    <3> QED  BY <1>8, <2>2, <3>1, <3>4, <3>6
  <2> QED  BY <2>1, <2>2
<1>11. Totals(h, live, n, pick)
  <2>1. \A i \in live : n[i] \in Int
    BY <1>2
  <2> QED  BY <1>1, <1>9, <1>10, <2>1 DEF Totals
<1>12. IsSum(h[live], live, n)
  BY <1>11 DEF IsSum
<1>13. v = h[live]
  BY <1>12, SumIsUnique
<1>14. live \in SUBSET live
  OBVIOUS
<1>15. Cardinality(U(live)) <= Cardinality(lo..(e - 1))
  BY <1>6, <1>7, <1>14, FS_Subset
<1> QED  BY <1>6, <1>8, <1>13, <1>14, <1>15

-----------------------------------------------------------------------------
(* What a trace has in use, by its requests alone. *)

InUseAt(ops, n) == {i \in Ids : Held(ops, n, i)}

\* Before request n, the last request for block i gave it the size s.
IsSize(ops, n, i, s) ==
    \E k \in 1..(n - 1) : /\ ops[k].index = i /\ ops[k].type # "f" /\ ops[k].size = s
                          /\ \A m \in (k + 1)..(n - 1) : ops[m].index # i

LEMMA SizeNext ==
    ASSUME NEW ops, NEW n \in Nat \ {0}, NEW i, NEW s
    PROVE  IsSize(ops, n + 1, i, s) <=>
             IF ops[n].index = i THEN ops[n].type # "f" /\ ops[n].size = s ELSE IsSize(ops, n, i, s)
<1> DEFINE Gives(k) == ops[k].index = i /\ ops[k].type # "f" /\ ops[k].size = s
           Other(k) == ops[k].index # i
<1>1. \A j \in Nat : IsSize(ops, j, i, s) <=> \E k \in 1..(j - 1) : Gives(k) /\ \A m \in (k + 1)..(j - 1) : Other(m)
  BY DEF IsSize
<1>0. \A k : Gives(k) => ~Other(k)
  OBVIOUS
<1> HIDE DEF Gives, Other
<1>2. IsSize(ops, n + 1, i, s) <=> \E k \in 1..n : Gives(k) /\ \A m \in (k + 1)..n : Other(m)
  BY <1>1
<1>3. ASSUME IsSize(ops, n + 1, i, s) PROVE Gives(n) \/ (IsSize(ops, n, i, s) /\ Other(n))
  <2>1. PICK k \in 1..n : Gives(k) /\ \A m \in (k + 1)..n : Other(m)
    BY <1>2, <1>3
  <2>2. CASE k = n
    BY <2>1, <2>2
  <2>3. CASE k # n
    <3>1. k \in 1..(n - 1) /\ n \in (k + 1)..n /\ (k + 1)..(n - 1) \subseteq (k + 1)..n
      BY <2>3
    <3> QED  BY <1>1, <2>1, <3>1
  <2> QED  BY <2>2, <2>3
<1>4. ASSUME Gives(n) PROVE IsSize(ops, n + 1, i, s)
  <2>1. n \in 1..n /\ (n + 1)..n = {}
    OBVIOUS
  <2> QED  BY <1>2, <1>4, <2>1
<1>5. ASSUME IsSize(ops, n, i, s), Other(n) PROVE IsSize(ops, n + 1, i, s)
  <2>1. PICK k \in 1..(n - 1) : Gives(k) /\ \A m \in (k + 1)..(n - 1) : Other(m)
    BY <1>1, <1>5
  <2>2. k \in 1..n /\ \A m \in (k + 1)..n : m = n \/ m \in (k + 1)..(n - 1)
    OBVIOUS
  <2> QED  BY <1>2, <1>5, <2>1, <2>2
<1> QED  BY <1>0, <1>3, <1>4, <1>5 DEF Gives, Other

LEMMA SizeIsUnique ==
    ASSUME NEW ops, NEW n \in Nat, NEW i, NEW s, NEW t, IsSize(ops, n, i, s), IsSize(ops, n, i, t)
    PROVE  s = t
<1>1. PICK k \in 1..(n - 1) : /\ ops[k].index = i /\ ops[k].size = s
                              /\ \A m \in (k + 1)..(n - 1) : ops[m].index # i
  BY DEF IsSize
<1>2. PICK l \in 1..(n - 1) : /\ ops[l].index = i /\ ops[l].size = t
                              /\ \A m \in (l + 1)..(n - 1) : ops[m].index # i
  BY DEF IsSize
<1>3. k \notin (l + 1)..(n - 1) /\ l \notin (k + 1)..(n - 1)
  BY <1>1, <1>2
<1>4. k = l
  BY <1>3
<1> QED  BY <1>1, <1>2, <1>4

\* What is in use before request n fits below e, whatever the blocks have been answered.
Fits(ops, n, e) ==
    \A v, f : IsSum(v, InUseAt(ops, n), f) /\ (\A i \in InUseAt(ops, n) : IsSize(ops, n, i, f[i]))
                => v <= e - HeapLo

LEMMA FitsAbove ==
    ASSUME NEW ops, NEW n, NEW d \in Int, NEW e \in Int, HeapLo \in Int, Fits(ops, n, d), d <= e
    PROVE  Fits(ops, n, e)
<1> SUFFICES ASSUME NEW v, NEW f, IsSum(v, InUseAt(ops, n), f),
                    \A i \in InUseAt(ops, n) : IsSize(ops, n, i, f[i])
             PROVE  v <= e - HeapLo
  BY DEF Fits
<1>1. v <= d - HeapLo
  BY DEF Fits
<1>2. v \in Int
  BY SumIs
<1> QED  BY <1>1, <1>2

LEMMA ApartFits ==
    ASSUME NEW ops, NEW n \in Nat, NEW p, NEW size, NEW e, SideBySide(InUseAt(ops, n), p, size, HeapLo, e),
           \A i \in InUseAt(ops, n) : IsSize(ops, n, i, size[i])
    PROVE  Fits(ops, n, e)
<1>1. PICK live : live = InUseAt(ops, n)
  OBVIOUS
<1>2. IsFiniteSet(live) /\ \A i \in live : size[i] \in Int
  <2>1. live \in SUBSET Ids
    BY <1>1 DEF InUseAt
  <2> QED  BY <1>1, <2>1, IdsFinite DEF SideBySide
<1> SUFFICES ASSUME NEW v, NEW f, IsSum(v, live, f), \A i \in live : IsSize(ops, n, i, f[i])
             PROVE  v <= e - HeapLo
  BY <1>1 DEF Fits
<1>3. \A i \in live : f[i] = size[i]
  BY <1>1, SizeIsUnique
<1>4. PICK w : IsSum(w, live, size)
  BY <1>2, SumExists
<1>5. v = w
  BY <1>3, <1>4, SumIsUnique
<1>6. w <= e - HeapLo
  BY <1>1, <1>2, <1>4, SideBySideFits
<1> QED  BY <1>5, <1>6

-----------------------------------------------------------------------------
(* The utilization. *)

\* The end of the heap after k of the answers as.
EndAfter(as, k) == IF k = 0 THEN HeapLo ELSE as[k].brk

\* The trace is checked, or replayed with the answers of the check.
Replaying ==
    pc \in {"valid", "util"} =>
      /\ op \in Nat \ {0} /\ op <= num_ops + 1 /\ AnySeq(answers)
      /\ Len(answers) = (IF pc = "valid" THEN op - 1 ELSE num_ops)
      /\ brk = EndAfter(answers, op - 1)
      /\ block_sizes \in [Ids -> Int]
      /\ \A i \in InUse(NoId) : IsSize(File.ops, op, i, block_sizes[i])

\* Payloads that are not one inside another lie side by side, so what each request so
\* far has left in use fits below the end of the heap, which never comes back down.
Apart ==
    pc = "valid" /\ "contains" \notin breach =>
      /\ SideBySide(InUse(NoId), blocks, block_sizes, HeapLo, brk)
      /\ \A k \in 1..(op - 1) : Fits(File.ops, k + 1, brk)

Totalled ==
    pc = "util" =>
      /\ max_total_size \in Int /\ IsSum(total_size, InUse(NoId), block_sizes)
      /\ "contains" \notin breach =>
           /\ EndAfter(answers, num_ops) \in Int
           /\ max_total_size <= EndAfter(answers, num_ops) - HeapLo
           /\ \A k \in 1..num_ops : Fits(File.ops, k + 1, EndAfter(answers, num_ops))

AtMostOne ==
    pc = "speed" /\ "contains" \notin breach => Last(stats).util[1] <= Last(stats).util[2]

SpaceInv == GradeInv /\ Replaying /\ Apart /\ Totalled /\ AtMostOne

\* Where nothing is checked, replayed or timed.
LEMMA OtherSpaces ==
    ASSUME GradeInv', pc' \notin {"valid", "util", "speed"} PROVE SpaceInv'
  BY DEF SpaceInv, Replaying, Apart, Totalled, AtMostOne

LEMMA TraceIs ==
    ASSUME TracesOK, Setting PROVE File.ops \in Seq(Request) /\ num_ops \in Nat
<1>1. setup.files \in Seq([num_ids : Nat, num_ops : Nat, ops : Seq(Request)])
      /\ tn \in DOMAIN setup.files
  BY DEF TracesOK, Setting
<1>2. PICK F : F = [num_ids : Nat, num_ops : Nat, ops : Seq(Request)]
  OBVIOUS
<1>3. PICK fs \in Seq(F) : fs = setup.files
  BY <1>1, <1>2
<1>4. PICK k \in DOMAIN fs : k = tn
  BY <1>1, <1>3
<1>5. fs[k] \in F
  OBVIOUS
<1>6. File \in [num_ids : Nat, num_ops : Nat, ops : Seq(Request)]
  BY <1>2, <1>3, <1>4, <1>5 DEF File
<1>7. PICK ops \in Seq(Request) : ops = File.ops
  BY <1>6
<1>8. Len(ops) \in Nat
  OBVIOUS
<1> QED  BY <1>7, <1>8 DEF num_ops

LEMMA StartValidSpaces ==
    ASSUME TracesOK, MDriverAssumption, SpaceInv, GradeInv', StartValid PROVE SpaceInv'
<1>1. /\ brk' = HeapLo /\ op' = 1 /\ answers' = <<>> /\ UNCHANGED <<setup, tn>>
      /\ pc' = "valid" \/ pc' = "next"
  BY DEF StartValid, Fails, traces
<1>2. CASE pc' = "next"
  BY <1>2, OtherSpaces
<1>3. CASE pc' = "valid"
  <2>1. InUse(NoId)' = {}
    BY <1>1, HeldFirst DEF InUse
  <2>2. block_sizes' \in [Ids -> Int] /\ Setting
    BY <1>3 DEF GradeInv, DriverInv, Setting, SpaceInv
  <2>3. num_ops \in Nat /\ num_ops' = num_ops
    BY <1>1, <2>2, TraceIs DEF num_ops, File
  <2>4. AnySeq(<<>>) /\ Len(<<>>) = 0
    BY DEF AnySeq
  <2>5. Replaying'
    BY <1>1, <1>3, <2>1, <2>2, <2>3, <2>4 DEF Replaying, EndAfter
  <2>6. SideBySide({}, blocks', block_sizes', HeapLo, HeapLo)
    BY DEF SideBySide, MDriverAssumption
  <2>7. Apart'
    BY <1>1, <2>1, <2>6 DEF Apart
  <2> QED  BY <1>3, <2>5, <2>7 DEF SpaceInv, Totalled, AtMostOne
<1> QED  BY <1>1, <1>2, <1>3

\* An answer that broke nothing but what the driver does not see.
LEMMA SeenBlock ==
    ASSUME NEW a, NEW size, NEW used, BadBlock(a, size, used) \subseteq {"scribbled", "lost"}
    PROVE  /\ Payload(a.p, size) \subseteq HeapLo..(a.brk - 1)
           /\ \A old \in used : old \cap Payload(a.p, size) = {}
<1> DEFINE new == Payload(a.p, size)
           Broken(k) == \/ k = "misaligned" /\ ~IsAligned(a.p)
                        \/ k = "outside" /\ ~(new \subseteq HeapLo..(a.brk - 1))
                        \/ k = "overlap" /\ \E old \in Overlaps(new, used) : ~Inside(old, new)
                        \/ k = "contains" /\ \E old \in Overlaps(new, used) : Inside(old, new)
<1>1. BadBlock(a, size, used) = IF a.p = NULL THEN {"null"}
                                ELSE {k \in {"misaligned", "outside", "overlap", "contains"} : Broken(k)}
  BY DEF BadBlock
<1>2. a.p # NULL
  BY <1>1
<1>3. ~Broken("outside") /\ ~Broken("overlap") /\ ~Broken("contains")
  <2> HIDE DEF Broken
  <2>1. \A k \in {"misaligned", "outside", "overlap", "contains"} : ~Broken(k)
    <3> SUFFICES ASSUME NEW k \in {"misaligned", "outside", "overlap", "contains"}, Broken(k) PROVE FALSE
      OBVIOUS
    <3>1. k \in BadBlock(a, size, used)
      BY <1>1, <1>2
    <3>2. k \in {"scribbled", "lost"}
      BY <3>1
    <3> QED  BY <3>2
  <2> QED  BY <2>1
<1> QED  BY <1>3 DEF Overlaps

\* A block that is in use from now on, beside the others.
LEMMA SideBySideAdd ==
    ASSUME NEW rest \in SUBSET Ids, NEW p, NEW n, NEW i \in Ids, i \notin rest, NEW lo, NEW d, NEW e \in Int,
           SideBySide(rest, p, n, lo, d), d <= e,
           NEW q, NEW m, q[i] \in Int, m[i] \in Nat, \A j \in rest : q[j] = p[j] /\ m[j] = n[j],
           Payload(q[i], m[i]) \subseteq lo..(e - 1),
           \A j \in rest : Payload(p[j], n[j]) \cap Payload(q[i], m[i]) = {}
    PROVE  SideBySide(rest \cup {i}, q, m, lo, e)
<1> DEFINE P(j) == Payload(p[j], n[j])
           Q(j) == Payload(q[j], m[j])
<1>1. /\ lo \in Int /\ d \in Int /\ lo <= d
      /\ \A j \in rest : p[j] \in Int /\ n[j] \in Nat /\ P(j) \subseteq lo..(d - 1)
      /\ \A j, k \in rest : j # k => P(j) \cap P(k) = {}
  BY DEF SideBySide
<1>2. \A j \in rest : Q(j) = P(j)
  OBVIOUS
<1>3. Q(i) \subseteq lo..(e - 1) /\ \A j \in rest : P(j) \cap Q(i) = {}
  OBVIOUS
<1> HIDE DEF P, Q
<1>4. lo..(d - 1) \subseteq lo..(e - 1) /\ lo <= e
  BY <1>1
<1>5. \A j \in rest \cup {i} : q[j] \in Int /\ m[j] \in Nat /\ Q(j) \subseteq lo..(e - 1)
  BY <1>1, <1>2, <1>3, <1>4
<1>6. \A j, k \in rest \cup {i} : j # k => Q(j) \cap Q(k) = {}
  <2> SUFFICES ASSUME NEW j \in rest \cup {i}, NEW k \in rest \cup {i}, j # k PROVE Q(j) \cap Q(k) = {}
    OBVIOUS
  <2>1. CASE j \in rest /\ k \in rest
    BY <1>1, <1>2, <2>1
  <2>2. CASE j = i
    <3>1. k \in rest
      BY <2>2
    <3> QED  BY <1>2, <1>3, <2>2, <3>1
  <2>3. CASE k = i
    <3>1. j \in rest
      BY <2>3
    <3> QED  BY <1>2, <1>3, <2>3, <3>1
  <2> QED  BY <2>1, <2>2, <2>3
<1> QED  BY <1>1, <1>4, <1>5, <1>6 DEF SideBySide, Q

LEMMA SideBySideLess ==
    ASSUME NEW live, NEW p, NEW n, NEW lo, NEW e, SideBySide(live, p, n, lo, e), NEW some \in SUBSET live
    PROVE  SideBySide(some, p, n, lo, e)
  BY DEF SideBySide

\* The heap has grown.
LEMMA SideBySideAbove ==
    ASSUME NEW live, NEW p, NEW n, NEW lo, NEW d, NEW e \in Int, SideBySide(live, p, n, lo, d), d <= e
    PROVE  SideBySide(live, p, n, lo, e)
<1>1. lo \in Int /\ d \in Int /\ lo <= e /\ lo..(d - 1) \subseteq lo..(e - 1)
  BY DEF SideBySide
<1>2. \A i \in live : Payload(p[i], n[i]) \subseteq lo..(e - 1)
  BY <1>1 DEF SideBySide
<1> QED  BY <1>1, <1>2 DEF SideBySide

\* What is in use, and its sizes, after a block has been allocated or moved.
LEMMA RequestSizes ==
    ASSUME TracesOK, Setting, op \in Nat \ {0}, NEW type, type # "f", At(type), op' = op + 1,
           UNCHANGED <<setup, tn>>, block_sizes \in [Ids -> Int],
           block_sizes' = [block_sizes EXCEPT ![Op.index] = Op.size],
           \A i \in InUse(NoId) : IsSize(File.ops, op, i, block_sizes[i])
    PROVE  /\ InUse(NoId)' = InUse(NoId) \cup {Op.index} /\ block_sizes' \in [Ids -> Int]
           /\ \A j \in InUse(NoId)' : IsSize(File'.ops, op', j, block_sizes'[j])
<1>1. InUse(NoId)' = InUse(NoId) \cup {Op.index} /\ InUse(NoId) \in SUBSET Ids
  BY InUseAfter DEF InUse
<1>2. PICK i \in Ids, size \in Nat : i = Op.index /\ size = Op.size /\ Op.type # "f"
  BY RequestAt
<1>3. PICK ops : ops = File.ops
  OBVIOUS
<1>4. PICK n \in Nat \ {0} : ops = File.ops /\ n = op /\ Op = ops[n] /\ File' = File
  BY <1>3 DEF Op, File
<1>5. PICK m \in [Ids -> Int] : /\ m = block_sizes' /\ m[i] = size
                               /\ \A j \in Ids : j # i => m[j] = block_sizes[j]
  BY <1>2
<1>6. ASSUME NEW j \in InUse(NoId)' PROVE IsSize(ops, n + 1, j, m[j])
  <2>1. PICK s : s = m[j]
    OBVIOUS
  <2>2. IsSize(ops, n + 1, j, s) <=>
             IF ops[n].index = j THEN ops[n].type # "f" /\ ops[n].size = s ELSE IsSize(ops, n, j, s)
    BY SizeNext
  <2>3. CASE j = i
    BY <1>2, <1>4, <1>5, <2>1, <2>2, <2>3
  <2>4. CASE j # i
    <3>1. j \in InUse(NoId) /\ j \in Ids
      BY <1>1, <1>2, <1>6, <2>4
    <3>2. IsSize(ops, n, j, s)
      BY <1>4, <1>5, <2>1, <2>4, <3>1
    <3> QED  BY <1>2, <1>4, <2>1, <2>2, <2>4, <3>2
  <2> QED  BY <2>3, <2>4
<1> QED  BY <1>1, <1>4, <1>5, <1>6

\* A block that is accepted.
Accepts(a) ==
    /\ a.p \in Int /\ a.brk \in Int /\ brk <= a.brk /\ brk' = a.brk
    /\ breach \subseteq breach' /\ BadBlock(a, Op.size, Used(Op.index)) \subseteq breach'
    /\ answers' = Append(answers, a) /\ Remember(Op.index, a.p, Op.size) /\ op' = op + 1
    /\ UNCHANGED <<setup, tn, pc>>

LEMMA AcceptSpaces ==
    ASSUME TracesOK, MDriverAssumption, SpaceInv, GradeInv', pc = "valid", NEW type, type # "f", At(type),
           NEW a, Accepts(a)
    PROVE  SpaceInv'
<1>1. /\ Setting /\ op \in Nat \ {0} /\ op <= num_ops + 1 /\ AnySeq(answers) /\ Len(answers) = op - 1
      /\ block_sizes \in [Ids -> Int] /\ blocks \in [Ids -> Int]
      /\ \A i \in InUse(NoId) : IsSize(File.ops, op, i, block_sizes[i])
  BY DEF SpaceInv, Replaying, GradeInv, DriverInv, Setting
<1>2. PICK i \in Ids, size \in Nat : i = Op.index /\ size = Op.size /\ Op.type # "f"
  BY <1>1, RequestAt
<1>0. PICK ops : ops = File.ops
  OBVIOUS
<1>3. PICK n \in Nat \ {0} : /\ ops = File.ops /\ n = op /\ Op = ops[n] /\ File' = File
                             /\ num_ops' = num_ops /\ num_ops \in Nat /\ n <= num_ops
  BY <1>0, <1>1, TraceIs DEF Accepts, Op, File, num_ops, At
<1>4. PICK rest : rest = InUse(NoId) \ {i}
  OBVIOUS
<1>5. rest \in SUBSET Ids /\ i \notin rest /\ InUse(NoId)' = rest \cup {i} /\ rest \subseteq InUse(NoId)
  <2>1. op' = op + 1 /\ UNCHANGED <<setup, tn>>
    BY DEF Accepts
  <2>2. InUse(NoId)' = InUse(NoId) \cup {Op.index}
    BY <1>1, <2>1, InUseAfter
  <2>3. InUse(NoId) \in SUBSET Ids
    BY DEF InUse
  <2> QED  BY <1>2, <1>4, <2>2, <2>3
<1>6. /\ block_sizes' = [block_sizes EXCEPT ![i] = size] /\ blocks' = [blocks EXCEPT ![i] = a.p]
      /\ op' = n + 1 /\ brk' = a.brk /\ pc' = "valid" /\ answers' = Append(answers, a)
  BY <1>2, <1>3 DEF Accepts, Remember
<1>7. PICK q, m : q = blocks' /\ m = block_sizes'
  OBVIOUS
<1>8. /\ m \in [Ids -> Int] /\ m[i] = size /\ q[i] = a.p
      /\ \A j \in rest : m[j] = block_sizes[j] /\ q[j] = blocks[j]
  BY <1>1, <1>5, <1>6, <1>7
<1>9. /\ AnySeq(answers') /\ Len(answers') = n /\ answers'[n] = a
  <2>1. /\ AnySeq(Append(answers, a)) /\ Len(Append(answers, a)) = Len(answers) + 1
        /\ Append(answers, a)[Len(answers) + 1] = a
    BY <1>1, AppendIs
  <2>2. Len(answers) + 1 = n
    BY <1>1, <1>3
  <2> QED  BY <1>6, <2>1, <2>2
<1>10. \A j \in rest \cup {i} : IsSize(ops, n + 1, j, m[j])
  <2>1. op' = op + 1 /\ block_sizes' = [block_sizes EXCEPT ![Op.index] = Op.size]
        /\ UNCHANGED <<setup, tn>>
    BY DEF Accepts, Remember
  <2>2. \A j \in InUse(NoId)' : IsSize(File'.ops, op', j, block_sizes'[j])
    BY <1>1, <2>1, RequestSizes
  <2> QED  BY <1>3, <1>5, <1>6, <1>7, <2>2
<1>11. Replaying'
  <2>1. EndAfter(answers', n) = a.brk
    BY <1>9 DEF EndAfter
  <2>2. op' - 1 = n /\ op' \in Nat \ {0} /\ op' <= num_ops' + 1
    BY <1>3, <1>6
  <2>3. \A j \in InUse(NoId)' : IsSize(File'.ops, op', j, block_sizes'[j])
    BY <1>3, <1>5, <1>6, <1>7, <1>10
  <2> QED  BY <1>6, <1>7, <1>8, <1>9, <2>1, <2>2, <2>3 DEF Replaying
<1>12. ASSUME "contains" \notin breach'
       PROVE  /\ SideBySide(InUse(NoId)', blocks', block_sizes', HeapLo, brk')
              /\ \A k \in 1..(op' - 1) : Fits(File'.ops, k + 1, brk')
  <2>1. "contains" \notin breach /\ BadBlock(a, Op.size, Used(Op.index)) \subseteq {"scribbled", "lost"}
    <3>1. breach' \subseteq Unseen \cup {"lost"}
      BY <1>6 DEF GradeInv, NotAcceptedWrongly
    <3> QED  BY <1>12, <3>1 DEF Accepts, Unseen
  <2>2. /\ SideBySide(InUse(NoId), blocks, block_sizes, HeapLo, brk)
        /\ \A k \in 1..(n - 1) : Fits(ops, k + 1, brk)
    BY <1>3, <2>1 DEF SpaceInv, Apart
  <2>3. SideBySide(rest, blocks, block_sizes, HeapLo, brk)
    BY <1>5, <2>2, SideBySideLess
  <2>4. /\ Payload(a.p, size) \subseteq HeapLo..(a.brk - 1)
        /\ \A j \in rest : Payload(blocks[j], block_sizes[j]) \cap Payload(a.p, size) = {}
    <3>1. /\ Payload(a.p, size) \subseteq HeapLo..(a.brk - 1)
          /\ \A old \in Used(i) : old \cap Payload(a.p, size) = {}
      BY <1>2, <2>1, SeenBlock
    <3>2. Used(i) = PayloadsOf(rest, blocks, block_sizes)
      BY <1>4, UsedIs
    <3>3. \A j \in rest : Payload(blocks[j], block_sizes[j]) \in Used(i)
      BY <3>2 DEF PayloadsOf
    <3> QED  BY <3>1, <3>3
  <2>5. a.p \in Int /\ a.brk \in Int /\ brk <= a.brk /\ brk \in Int
    BY <2>2 DEF Accepts, SideBySide
  <2>6. SideBySide(rest \cup {i}, q, m, HeapLo, a.brk)
    <3>1. Payload(q[i], m[i]) \subseteq HeapLo..(a.brk - 1) /\ q[i] \in Int /\ m[i] \in Nat
      BY <1>8, <2>4, <2>5
    <3>2. \A j \in rest : Payload(blocks[j], block_sizes[j]) \cap Payload(q[i], m[i]) = {}
      BY <1>8, <2>4
    <3>3. \A j \in rest : q[j] = blocks[j] /\ m[j] = block_sizes[j]
      BY <1>8
    <3> QED  BY <1>5, <2>3, <2>5, <3>1, <3>2, <3>3, SideBySideAdd
  <2>7. InUseAt(ops, n + 1) = rest \cup {i}
    BY <1>3, <1>5, <1>6, NoIdIsNone DEF InUse, InUseAt
  <2>8. Fits(ops, n + 1, a.brk)
    <3>1. n + 1 \in Nat
      BY <1>3
    <3>2. SideBySide(InUseAt(ops, n + 1), q, m, HeapLo, a.brk)
      BY <2>6, <2>7
    <3>3. \A j \in InUseAt(ops, n + 1) : IsSize(ops, n + 1, j, m[j])
      BY <1>10, <2>7
    <3> QED  BY <3>1, <3>2, <3>3, ApartFits
  <2>9. \A k \in 1..n : Fits(ops, k + 1, a.brk)
    <3> SUFFICES ASSUME NEW k \in 1..n PROVE Fits(ops, k + 1, a.brk)
      OBVIOUS
    <3>1. CASE k = n
      BY <2>8, <3>1
    <3>2. CASE k # n
      <4>1. k \in 1..(n - 1)
        BY <1>3, <3>2
      <4>2. HeapLo \in Int
        BY DEF MDriverAssumption
      <4> QED  BY <2>2, <2>5, <4>1, <4>2, FitsAbove
    <3> QED  BY <3>1, <3>2
  <2>10. op' - 1 = n
    BY <1>3, <1>6
  <2> QED  BY <1>3, <1>5, <1>6, <1>7, <2>6, <2>9, <2>10
<1>13. Apart'
  BY <1>12 DEF Apart
<1> QED  BY <1>6, <1>11, <1>13 DEF SpaceInv, Totalled, AtMostOne

LEMMA ValidAllocSpaces ==
    ASSUME TracesOK, MDriverAssumption, SpaceInv, GradeInv', ValidAlloc PROVE SpaceInv'
<1>1. pc = "valid" /\ At("a") /\ UNCHANGED <<setup, tn>>
  BY DEF ValidAlloc
<1>2. PICK a \in MmMalloc :
         /\ answers' = Append(answers, a) /\ brk' = a.brk
         /\ breach \subseteq breach' /\ BadBlock(a, Op.size, Used(Op.index)) \subseteq breach'
         /\ \/ Remember(Op.index, a.p, Op.size) /\ op' = op + 1 /\ UNCHANGED pc
            \/ Fails
  BY DEF ValidAlloc
<1>3. a.p \in Int /\ a.brk \in Int /\ brk <= a.brk
  <2>1. brk \in Int
    BY <1>1 DEF SpaceInv, GradeInv, Stored
  <2> QED  BY <2>1 DEF MmMalloc, Addr, Ends, MDriverAssumption
<1>4. CASE Fails
  BY <1>4, OtherSpaces DEF Fails
<1>5. CASE Remember(Op.index, a.p, Op.size) /\ op' = op + 1 /\ UNCHANGED pc
  <2>1. Accepts(a)
    BY <1>1, <1>2, <1>3, <1>5 DEF Accepts
  <2> QED  BY <1>1, <2>1, AcceptSpaces
<1> QED  BY <1>2, <1>4, <1>5

LEMMA ValidReallocSpaces ==
    ASSUME TracesOK, MDriverAssumption, SpaceInv, GradeInv', ValidRealloc PROVE SpaceInv'
<1>1. pc = "valid" /\ At("r") /\ UNCHANGED <<setup, tn>>
  BY DEF ValidRealloc
<1>2. PICK a \in MmRealloc(blocks[Op.index], block_sizes[Op.index], Op.size) :
         /\ answers' = Append(answers, a) /\ brk' = a.brk
         /\ breach \subseteq breach' /\ BadBlock(a, Op.size, Used(Op.index)) \subseteq breach'
         /\ \/ Remember(Op.index, a.p, Op.size) /\ op' = op + 1 /\ UNCHANGED pc
            \/ Fails
  BY DEF ValidRealloc
<1>3. a.p \in Int /\ a.brk \in Int /\ brk <= a.brk
  <2>1. brk \in Int
    BY <1>1 DEF SpaceInv, GradeInv, Stored
  <2>2. a.p \in Addr /\ a.brk \in Ends
    BY MmReallocIs
  <2> QED  BY <2>1, <2>2, EndsAre DEF Addr, MDriverAssumption
<1>4. CASE Fails
  BY <1>4, OtherSpaces DEF Fails
<1>5. CASE Remember(Op.index, a.p, Op.size) /\ op' = op + 1 /\ UNCHANGED pc
  <2>1. Accepts(a)
    BY <1>1, <1>2, <1>3, <1>5 DEF Accepts
  <2> QED  BY <1>1, <2>1, AcceptSpaces
<1> QED  BY <1>2, <1>4, <1>5

\* What is in use, and its sizes, after a block has been freed.
LEMMA FreeIs ==
    ASSUME TracesOK, Setting, op \in Nat \ {0}, At("f"), op' = op + 1, UNCHANGED <<setup, tn, block_sizes>>,
           \A i \in InUse(NoId) : IsSize(File.ops, op, i, block_sizes[i])
    PROVE  /\ Op.index \in InUse(NoId) /\ InUse(NoId)' = InUse(NoId) \ {Op.index}
           /\ \A j \in InUse(NoId)' : IsSize(File'.ops, op', j, block_sizes'[j])
<1>1. Op.index \in InUse(NoId) /\ InUse(NoId)' = InUse(NoId) \ {Op.index}
  BY RequestAt, InUseAfter
<1>0. PICK ops : ops = File.ops
  OBVIOUS
<1>2. PICK n \in Nat \ {0} : ops = File.ops /\ n = op /\ Op = ops[n] /\ File' = File
  BY <1>0 DEF Op, File
<1>3. ASSUME NEW j \in InUse(NoId)' PROVE IsSize(ops, n + 1, j, block_sizes[j])
  <2>1. PICK s : s = block_sizes[j]
    OBVIOUS
  <2>2. IsSize(ops, n + 1, j, s) <=>
             IF ops[n].index = j THEN ops[n].type # "f" /\ ops[n].size = s ELSE IsSize(ops, n, j, s)
    BY SizeNext
  <2>3. ops[n].index # j /\ IsSize(ops, n, j, s)
    BY <1>1, <1>2, <1>3, <2>1
  <2> QED  BY <2>1, <2>2, <2>3
<1> QED  BY <1>1, <1>2, <1>3

LEMMA ValidFreeSpaces ==
    ASSUME TracesOK, MDriverAssumption, SpaceInv, GradeInv', ValidFree PROVE SpaceInv'
<1>1. /\ pc = "valid" /\ At("f") /\ pc' = "valid" /\ op' = op + 1 /\ breach \subseteq breach'
      /\ UNCHANGED <<setup, tn, blocks, block_sizes>>
  BY DEF ValidFree, traces
<1>2. PICK a : answers' = Append(answers, a) /\ brk' = a.brk /\ a.brk \in Int /\ brk <= a.brk
  <2>1. PICK a \in MmFree : answers' = Append(answers, a) /\ brk' = a.brk
    BY DEF ValidFree
  <2>2. a.brk \in Int /\ brk <= a.brk
    BY <1>1, FreeAnswers DEF SpaceInv, GradeInv
  <2> QED  BY <2>1, <2>2
<1>3. /\ Setting /\ op \in Nat \ {0} /\ op <= num_ops + 1 /\ AnySeq(answers) /\ Len(answers) = op - 1
      /\ block_sizes \in [Ids -> Int]
      /\ \A i \in InUse(NoId) : IsSize(File.ops, op, i, block_sizes[i])
  BY <1>1 DEF SpaceInv, Replaying, GradeInv, DriverInv
<1>0. PICK ops : ops = File.ops
  OBVIOUS
<1>4. PICK n \in Nat \ {0} : /\ ops = File.ops /\ n = op /\ File' = File
                             /\ num_ops' = num_ops /\ num_ops \in Nat /\ n <= num_ops
  BY <1>0, <1>1, <1>3, TraceIs DEF File, num_ops, At
<1>5. /\ InUse(NoId)' = InUse(NoId) \ {Op.index}
      /\ \A j \in InUse(NoId)' : IsSize(File'.ops, op', j, block_sizes'[j])
  BY <1>1, <1>3, FreeIs
<1>6. /\ AnySeq(answers') /\ Len(answers') = n /\ answers'[n] = a
  <2>1. /\ AnySeq(Append(answers, a)) /\ Len(Append(answers, a)) = Len(answers) + 1
        /\ Append(answers, a)[Len(answers) + 1] = a
    BY <1>3, AppendIs
  <2>2. Len(answers) + 1 = n
    BY <1>3, <1>4
  <2> QED  BY <1>2, <2>1, <2>2
<1>7. op' = n + 1 /\ op' - 1 = n /\ op' \in Nat \ {0} /\ op' <= num_ops' + 1
  BY <1>1, <1>4
<1>8. Replaying'
  <2>1. EndAfter(answers', n) = brk'
    BY <1>2, <1>6 DEF EndAfter
  <2>2. block_sizes' \in [Ids -> Int]
    BY <1>1, <1>3
  <2> QED  BY <1>1, <1>5, <1>6, <1>7, <2>1, <2>2 DEF Replaying
<1>9. Apart'
  <2> SUFFICES ASSUME "contains" \notin breach'
               PROVE  /\ SideBySide(InUse(NoId)', blocks', block_sizes', HeapLo, brk')
                      /\ \A k \in 1..(op' - 1) : Fits(File'.ops, k + 1, brk')
    BY DEF Apart
  <2>1. /\ SideBySide(InUse(NoId), blocks, block_sizes, HeapLo, brk)
        /\ \A k \in 1..(n - 1) : Fits(ops, k + 1, brk)
    BY <1>1, <1>4 DEF SpaceInv, Apart
  <2>2. PICK live, p, m : live = InUse(NoId)' /\ p = blocks /\ m = block_sizes
    OBVIOUS
  <2>3. SideBySide(live, p, m, HeapLo, a.brk)
    <3>1. live \in SUBSET InUse(NoId)
      BY <1>5, <2>2
    <3>2. SideBySide(live, p, m, HeapLo, brk)
      BY <2>1, <2>2, <3>1, SideBySideLess
    <3> QED  BY <1>2, <3>2, SideBySideAbove
  <2>4. InUseAt(ops, n + 1) = live
    BY <1>4, <1>7, <2>2, NoIdIsNone DEF InUse, InUseAt
  <2>5. Fits(ops, n + 1, a.brk)
    <3>1. n + 1 \in Nat
      BY <1>4
    <3>2. \A j \in live : IsSize(ops, n + 1, j, m[j])
      BY <1>1, <1>4, <1>5, <1>7, <2>2
    <3> QED  BY <2>3, <2>4, <3>1, <3>2, ApartFits
  <2>6. \A k \in 1..n : Fits(ops, k + 1, a.brk)
    <3> SUFFICES ASSUME NEW k \in 1..n PROVE Fits(ops, k + 1, a.brk)
      OBVIOUS
    <3>1. CASE k = n
      BY <2>5, <3>1
    <3>2. CASE k # n
      <4>1. k \in 1..(n - 1)
        BY <1>4, <3>2
      <4>2. HeapLo \in Int /\ brk \in Int
        BY <2>1 DEF SideBySide
      <4> QED  BY <1>2, <2>1, <4>1, <4>2, FitsAbove
    <3> QED  BY <3>1, <3>2
  <2> QED  BY <1>1, <1>2, <1>4, <1>7, <2>2, <2>3, <2>6
<1> QED  BY <1>1, <1>8, <1>9 DEF SpaceInv, Totalled, AtMostOne

\* The trace is valid, and is replayed from a new heap.
LEMMA ValidSpaces ==
    ASSUME TracesOK, MDriverAssumption, SpaceInv, GradeInv', Valid PROVE SpaceInv'
<1>1. /\ pc = "valid" /\ op > num_ops /\ pc' = "util" /\ op' = 1 /\ brk' = HeapLo
      /\ total_size' = 0 /\ max_total_size' = 0
      /\ UNCHANGED <<setup, tn, blocks, block_sizes, answers, breach>>
  BY DEF Valid, traces
<1>2. /\ Setting /\ op \in Nat \ {0} /\ op <= num_ops + 1 /\ AnySeq(answers) /\ Len(answers) = op - 1
      /\ brk = EndAfter(answers, op - 1) /\ block_sizes \in [Ids -> Int]
  BY <1>1 DEF SpaceInv, Replaying, GradeInv, DriverInv
<1>3. File' = File /\ num_ops' = num_ops /\ num_ops \in Nat
  BY <1>1, <1>2, TraceIs DEF File, num_ops
<1>4. op - 1 = num_ops
  BY <1>1, <1>2, <1>3
<1>5. InUse(NoId)' = {}
  BY <1>1, HeldFirst DEF InUse
<1>6. Replaying'
  <2>1. op' - 1 = 0
    BY <1>1
  <2>2. EndAfter(answers', op' - 1) = HeapLo
    BY <2>1 DEF EndAfter
  <2> QED  BY <1>1, <1>2, <1>3, <1>4, <1>5, <2>2 DEF Replaying
<1>7. Totalled'
  <2>1. IsSum(total_size', InUse(NoId)', block_sizes')
    BY <1>1, <1>5, SumOfNothing
  <2>2. ASSUME "contains" \notin breach'
        PROVE  /\ EndAfter(answers', num_ops') \in Int
               /\ max_total_size' <= EndAfter(answers', num_ops') - HeapLo
               /\ \A k \in 1..num_ops' : Fits(File'.ops, k + 1, EndAfter(answers', num_ops'))
    <3>1. EndAfter(answers', num_ops') = brk
      BY <1>1, <1>2, <1>3, <1>4
    <3>2. /\ HeapLo \in Int /\ brk \in Int /\ HeapLo <= brk
          /\ \A k \in 1..num_ops : Fits(File.ops, k + 1, brk)
      BY <1>1, <1>4, <2>2 DEF SpaceInv, Apart, SideBySide
    <3>3. 0 <= brk - HeapLo
      BY <3>2
    <3> QED  BY <1>1, <1>3, <3>1, <3>2, <3>3
  <2> QED  BY <1>1, <2>1, <2>2 DEF Totalled
<1> QED  BY <1>1, <1>6, <1>7 DEF SpaceInv, Apart, AtMostOne

\* A request of eval_mm_util: the total is that of the blocks in use after it.
LEMMA ReplaySpaces ==
    ASSUME TracesOK, MDriverAssumption, SpaceInv, GradeInv', pc = "util", NEW type, At(type), Replay,
           block_sizes' \in [Ids -> Int],
           \A j \in InUse(NoId)' : IsSize(File'.ops, op', j, block_sizes'[j]),
           IsSum(total_size', InUse(NoId)', block_sizes'),
           max_total_size' = max_total_size \/ max_total_size' = Max({total_size', max_total_size})
    PROVE  SpaceInv'
<1>1. /\ op' = op + 1 /\ brk' = answers[op].brk /\ pc' = "util"
      /\ UNCHANGED <<setup, tn, answers, breach>>
  BY DEF Replay
<1>2. /\ Setting /\ op \in Nat \ {0} /\ AnySeq(answers) /\ Len(answers) = num_ops
      /\ max_total_size \in Int
  BY DEF SpaceInv, Replaying, GradeInv, DriverInv, Totalled
<1>3. File' = File /\ num_ops' = num_ops /\ num_ops \in Nat /\ op <= num_ops
  BY <1>1, <1>2, TraceIs DEF File, num_ops, At
<1>4. op' - 1 = op /\ op' \in Nat \ {0} /\ op' <= num_ops' + 1 /\ op # 0
  BY <1>1, <1>2, <1>3
<1>5. Replaying'
  <2>1. EndAfter(answers', op' - 1) = brk'
    BY <1>1, <1>4 DEF EndAfter
  <2> QED  BY <1>1, <1>2, <1>3, <1>4, <2>1 DEF Replaying
<1>6. total_size' \in Int
  BY SumIs
<1>7. max_total_size' \in Int /\ (max_total_size' = max_total_size \/ max_total_size' = total_size')
  <2>1. CASE max_total_size' = max_total_size
    BY <1>2, <2>1
  <2>2. CASE max_total_size' = Max({total_size', max_total_size})
    <3>1. PICK s \in Int, t \in Int : s = total_size' /\ t = max_total_size
      BY <1>2, <1>6
    <3>2. PICK b \in Int : s <= b /\ t <= b
      <4>1. s <= t \/ t <= s
        OBVIOUS
      <4>2. s <= s /\ t <= t
        OBVIOUS
      <4> QED  BY <4>1, <4>2
    <3>3. {s, t} \in SUBSET Int /\ {s, t} # {} /\ \A x \in {s, t} : x <= b
      BY <3>2
    <3>4. Max({s, t}) \in {s, t}
      BY <3>3, GreatestIs
    <3> QED  BY <2>2, <3>1, <3>4
  <2> QED  BY <2>1, <2>2
<1>8. ASSUME "contains" \notin breach'
      PROVE  /\ EndAfter(answers', num_ops') \in Int
             /\ max_total_size' <= EndAfter(answers', num_ops') - HeapLo
             /\ \A k \in 1..num_ops' : Fits(File'.ops, k + 1, EndAfter(answers', num_ops'))
  <2>1. PICK e : e = EndAfter(answers, num_ops)
    OBVIOUS
  <2>2. /\ e \in Int /\ max_total_size <= e - HeapLo
        /\ \A k \in 1..num_ops : Fits(File.ops, k + 1, e)
    BY <1>1, <1>8, <2>1 DEF SpaceInv, Totalled
  <2>3. Fits(File.ops, op + 1, e)
    <3>1. op \in 1..num_ops
      BY <1>2, <1>3
    <3> QED  BY <2>2, <3>1
  <2>4. InUse(NoId)' = InUseAt(File.ops, op + 1)
    BY <1>1, <1>3, NoIdIsNone DEF InUse, InUseAt
  <2>5. total_size' <= e - HeapLo
    <3>1. PICK f, t : f = block_sizes' /\ t = total_size'
      OBVIOUS
    <3>2. IsSum(t, InUseAt(File.ops, op + 1), f)
      BY <2>4, <3>1
    <3>3. \A j \in InUseAt(File.ops, op + 1) : IsSize(File.ops, op + 1, j, f[j])
      BY <1>1, <1>3, <2>4, <3>1
    <3>4. t <= e - HeapLo
      BY <2>3, <3>2, <3>3 DEF Fits
    <3> QED  BY <3>1, <3>4
  <2>6. max_total_size' <= e - HeapLo
    BY <1>7, <2>2, <2>5
  <2> QED  BY <1>1, <1>3, <2>1, <2>2, <2>6
<1>9. Totalled'
  BY <1>7, <1>8 DEF Totalled
<1> QED  BY <1>1, <1>5, <1>9 DEF SpaceInv, Apart, AtMostOne

LEMMA UtilAllocSpaces ==
    ASSUME TracesOK, MDriverAssumption, SpaceInv, GradeInv', UtilAlloc PROVE SpaceInv'
<1>1. /\ pc = "util" /\ At("a") /\ Replay /\ total_size' = total_size + Op.size
      /\ block_sizes' = [block_sizes EXCEPT ![Op.index] = Op.size]
      /\ max_total_size' = Max({total_size', max_total_size})
      /\ op' = op + 1 /\ UNCHANGED <<setup, tn>>
  BY DEF UtilAlloc, Remember, Total, Replay
<1>2. /\ Setting /\ op \in Nat \ {0} /\ block_sizes \in [Ids -> Int]
      /\ \A i \in InUse(NoId) : IsSize(File.ops, op, i, block_sizes[i])
      /\ IsSum(total_size, InUse(NoId), block_sizes)
  BY <1>1 DEF SpaceInv, Replaying, GradeInv, DriverInv, Totalled
<1>3. /\ InUse(NoId)' = InUse(NoId) \cup {Op.index} /\ block_sizes' \in [Ids -> Int]
      /\ \A j \in InUse(NoId)' : IsSize(File'.ops, op', j, block_sizes'[j])
  BY <1>1, <1>2, RequestSizes
<1>4. PICK i \in Ids, size \in Nat : i = Op.index /\ size = Op.size /\ i \notin InUse(NoId) /\ Op.type = "a"
  BY <1>1, <1>2, RequestAt
<1>5. IsSum(total_size', InUse(NoId)', block_sizes')
  <2>1. PICK live, f, e : live = InUse(NoId) /\ f = block_sizes /\ e = block_sizes'
    OBVIOUS
  <2>2. e[i] = size /\ \A j \in live : f[j] = e[j]
    <3>1. live \subseteq Ids
      BY <2>1 DEF InUse
    <3> QED  BY <1>1, <1>2, <1>4, <2>1, <3>1
  <2>3. IsSum(total_size, live, f) /\ i \notin live /\ e[i] \in Int
    BY <1>2, <1>4, <2>1, <2>2
  <2>4. IsSum(total_size + e[i], live \cup {i}, e)
    BY <2>2, <2>3, SumAdds
  <2>5. total_size' = total_size + e[i] /\ InUse(NoId)' = live \cup {i}
    BY <1>1, <1>3, <1>4, <2>1, <2>2
  <2> QED  BY <2>1, <2>4, <2>5
<1> QED  BY <1>1, <1>3, <1>5, ReplaySpaces

LEMMA UtilReallocSpaces ==
    ASSUME TracesOK, MDriverAssumption, SpaceInv, GradeInv', UtilRealloc PROVE SpaceInv'
<1>1. /\ pc = "util" /\ At("r") /\ Replay
      /\ total_size' = total_size + (Op.size - block_sizes[Op.index])
      /\ block_sizes' = [block_sizes EXCEPT ![Op.index] = Op.size]
      /\ max_total_size' = Max({total_size', max_total_size})
      /\ op' = op + 1 /\ UNCHANGED <<setup, tn>>
  BY DEF UtilRealloc, Remember, Total, Replay
<1>2. /\ Setting /\ op \in Nat \ {0} /\ block_sizes \in [Ids -> Int]
      /\ \A i \in InUse(NoId) : IsSize(File.ops, op, i, block_sizes[i])
      /\ IsSum(total_size, InUse(NoId), block_sizes)
  BY <1>1 DEF SpaceInv, Replaying, GradeInv, DriverInv, Totalled
<1>3. /\ InUse(NoId)' = InUse(NoId) \cup {Op.index} /\ block_sizes' \in [Ids -> Int]
      /\ \A j \in InUse(NoId)' : IsSize(File'.ops, op', j, block_sizes'[j])
  BY <1>1, <1>2, RequestSizes
<1>4. PICK i \in Ids, size \in Nat : i = Op.index /\ size = Op.size /\ i \in InUse(NoId) /\ Op.type = "r"
  BY <1>1, <1>2, RequestAt
<1>5. IsSum(total_size', InUse(NoId)', block_sizes')
  <2>1. PICK live, f, e : live = InUse(NoId) /\ f = block_sizes /\ e = block_sizes'
    OBVIOUS
  <2>2. e[i] = size /\ \A j \in live \ {i} : f[j] = e[j]
    <3>1. live \subseteq Ids
      BY <2>1 DEF InUse
    <3> QED  BY <1>1, <1>2, <1>4, <2>1, <3>1
  <2>3. IsSum(total_size, live, f) /\ i \in live /\ e[i] \in Int
    BY <1>2, <1>4, <2>1, <2>2
  <2>4. PICK u, rest : u = total_size - f[i] /\ rest = live \ {i}
    OBVIOUS
  <2>5. IsSum(u, rest, f) /\ f[i] \in Int /\ total_size \in Int
    BY <2>3, <2>4, SumRemoves
  <2>6. IsSum(u + e[i], rest \cup {i}, e)
    <3>1. i \notin rest /\ \A j \in rest : f[j] = e[j]
      BY <2>2, <2>4
    <3> QED  BY <2>3, <2>5, <3>1, SumAdds
  <2>7. total_size' = u + e[i]
    <3>1. total_size' = total_size + (e[i] - f[i])
      BY <1>1, <1>4, <2>1, <2>2
    <3> QED  BY <2>3, <2>4, <2>5, <3>1
  <2>8. InUse(NoId)' = rest \cup {i}
    BY <1>3, <1>4, <2>1, <2>4
  <2> QED  BY <2>1, <2>6, <2>7, <2>8
<1> QED  BY <1>1, <1>3, <1>5, ReplaySpaces

LEMMA UtilFreeSpaces ==
    ASSUME TracesOK, MDriverAssumption, SpaceInv, GradeInv', UtilFree PROVE SpaceInv'
<1>1. /\ pc = "util" /\ At("f") /\ Replay /\ total_size' = total_size - block_sizes[Op.index]
      /\ op' = op + 1 /\ UNCHANGED <<setup, tn, block_sizes, max_total_size>>
  BY DEF UtilFree, Replay
<1>2. /\ Setting /\ op \in Nat \ {0} /\ block_sizes \in [Ids -> Int]
      /\ \A i \in InUse(NoId) : IsSize(File.ops, op, i, block_sizes[i])
      /\ IsSum(total_size, InUse(NoId), block_sizes)
  BY <1>1 DEF SpaceInv, Replaying, GradeInv, DriverInv, Totalled
<1>3. /\ Op.index \in InUse(NoId) /\ InUse(NoId)' = InUse(NoId) \ {Op.index}
      /\ \A j \in InUse(NoId)' : IsSize(File'.ops, op', j, block_sizes'[j])
  BY <1>1, <1>2, FreeIs
<1>4. IsSum(total_size', InUse(NoId)', block_sizes')
  <2>1. PICK live, f, i : live = InUse(NoId) /\ f = block_sizes /\ i = Op.index
    OBVIOUS
  <2>2. IsSum(total_size - f[i], live \ {i}, f)
    BY <1>2, <1>3, <2>1, SumRemoves
  <2> QED  BY <1>1, <1>3, <2>1, <2>2
<1> QED  BY <1>1, <1>2, <1>3, <1>4, ReplaySpaces

\* What is printed: the most that was in use, and what the heap has grown to.
LEMMA UtilizationSpaces ==
    ASSUME TracesOK, MDriverAssumption, SpaceInv, GradeInv', Utilization PROVE SpaceInv'
<1> DEFINE x == [valid |-> TRUE, util |-> <<max_total_size, mem_heapsize>>]
<1>1. /\ pc = "util" /\ op > num_ops /\ pc' = "speed" /\ stats' = Append(stats, x)
      /\ UNCHANGED breach
  BY DEF Utilization
<1>2. x.util[1] = max_total_size /\ x.util[2] = brk - HeapLo
  BY DEF mem_heapsize
<1> HIDE DEF x
<1>3. AnySeq(stats)
  BY DEF SpaceInv, GradeInv, Sums
<1>4. Last(stats') = x
  BY <1>1, <1>3, AppendIs
<1>5. /\ Setting /\ op \in Nat \ {0} /\ op <= num_ops + 1 /\ brk = EndAfter(answers, op - 1)
  BY <1>1 DEF SpaceInv, Replaying, GradeInv, DriverInv
<1>6. op - 1 = num_ops
  BY <1>1, <1>5, TraceIs
<1>7. "contains" \notin breach => max_total_size <= brk - HeapLo
  BY <1>1, <1>5, <1>6 DEF SpaceInv, Totalled
<1>8. AtMostOne'
  BY <1>1, <1>2, <1>4, <1>7 DEF AtMostOne
<1> QED  BY <1>1, <1>8 DEF SpaceInv, Replaying, Apart, Totalled

LEMMA NextSpaces ==
    ASSUME TracesOK, MDriverAssumption, SpaceInv, [Next]_vars PROVE SpaceInv'
<1>1. GradeInv'
  BY NextGrades DEF SpaceInv
<1>2. CASE UNCHANGED vars
  <2>1. UNCHANGED <<pc, op, setup, tn, blocks, block_sizes, brk, stats, breach, answers, total_size,
                    max_total_size>>
    BY <1>2 DEF vars, traces, heap, util
  <2>2. InUse(NoId)' = InUse(NoId) /\ File' = File /\ num_ops' = num_ops
    BY <2>1 DEF InUse, File, num_ops
  <2>3. Replaying'
    BY <2>1, <2>2 DEF SpaceInv, Replaying
  <2>4. Apart'
    BY <2>1, <2>2 DEF SpaceInv, Apart
  <2>5. Totalled'
    BY <2>1, <2>2 DEF SpaceInv, Totalled
  <2>6. AtMostOne'
    BY <2>1 DEF SpaceInv, AtMostOne
  <2> QED  BY <1>1, <2>3, <2>4, <2>5, <2>6 DEF SpaceInv
<1>3. CASE EvalMmValid
  BY <1>1, <1>3, StartValidSpaces, ValidAllocSpaces, ValidReallocSpaces, ValidFreeSpaces, ValidSpaces
  DEF EvalMmValid
<1>4. CASE EvalMmUtil
  BY <1>1, <1>4, UtilAllocSpaces, UtilReallocSpaces, UtilFreeSpaces, UtilizationSpaces DEF EvalMmUtil
<1>5. CASE Fsecs
  <2>1. /\ UNCHANGED <<stats, breach>>
        /\ pc' \notin {"valid", "util"} /\ (pc' = "speed" => pc = "speed")
    BY <1>5 DEF Fsecs, Speed, untimed
  <2> QED  BY <1>1, <2>1 DEF SpaceInv, Replaying, Apart, Totalled, AtMostOne
<1>6. CASE Start \/ EvalLibc \/ ReadTrace \/ NextTrace \/ Results
  <2>1. pc' \notin {"valid", "util", "speed"}
    BY <1>6 DEF Start, EvalLibc, LibcRequest, LibcTimed, LibcSpeedFails, ReadTrace, NextTrace, Results
  <2> QED  BY <1>1, <2>1, OtherSpaces
<1> QED  BY <1>2, <1>3, <1>4, <1>5, <1>6 DEF Next

\* The inductive invariant of the utilization (mdriver.c:661-730).
THEOREM SpaceInvariant == ASSUME TracesOK PROVE Spec => []SpaceInv
<1>1. Init => SpaceInv
  <2> SUFFICES ASSUME Init PROVE SpaceInv
    OBVIOUS
  <2>1. GradeInv
    BY InitGrades, MDriverAssumption
  <2>2. pc = "init_fsecs"
    BY DEF Init
  <2> QED  BY <2>1, <2>2 DEF SpaceInv, Replaying, Apart, Totalled, AtMostOne
<1>2. SpaceInv /\ [Next]_vars => SpaceInv'
  BY NextSpaces, MDriverAssumption
<1> QED  BY <1>1, <1>2, PTL DEF Spec

LEMMA CountedSpace == ASSUME SpaceInv PROVE UtilizationExact
<1>1. ASSUME pc = "util" PROVE total_size = MapThenSumSet(LAMBDA i : block_sizes[i], InUse(NoId))
  <2>1. PICK live, f : live = InUse(NoId) /\ f = block_sizes
    OBVIOUS
  <2>2. IsSum(total_size, live, f)
    BY <1>1, <2>1 DEF SpaceInv, Totalled
  <2>3. IsFiniteSet(live) /\ \A i \in live : f[i] \in Int
    BY <2>2, SumIs
  <2>4. IsSum(MapThenSumSet(LAMBDA i : f[i], live), live, f)
    BY <2>3, SetFoldIsSum
  <2>5. total_size = MapThenSumSet(LAMBDA i : f[i], live)
    BY <2>2, <2>4, SumIsUnique
  <2> QED  BY <2>1, <2>5
<1> QED  BY <1>1 DEF SpaceInv, AtMostOne, UtilizationExact

\* For every trace and package, what the driver measures is exact: the space, which is
\* never more than the heap unless a payload was answered around another, and the time.
THEOREM TheMeasuresAreExact == ASSUME TracesOK, CounterFits PROVE Spec => []MeasuresExact
<1>1. SpaceInv /\ TimesExact => MeasuresExact
  BY CountedSpace DEF MeasuresExact
<1> QED  BY <1>1, SpaceInvariant, TheTimesAreExact, PTL
=============================================================================
