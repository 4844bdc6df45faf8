---------------------------- MODULE MMHeapProofs ----------------------------
(***************************************************************************)
(* mm.c, for any number of blocks and any sizes of the heap and its        *)
(* chunks: its blocks tile the heap, the free list is the free blocks, and *)
(* every call keeps what the others own.                                   *)
(*                                                                         *)
(* A heap is described by the set B of its blocks, their sizes S and the   *)
(* set E of those that are tagged free (Good).  The functions of mm.c are  *)
(* operators from heaps to heaps, and a lemma says of each what it makes   *)
(* of B, S and E and what it leaves Untouched.  Holds adds the owner.      *)
(***************************************************************************)
EXTENDS MMHeap, Counts

-----------------------------------------------------------------------------
(* Words. *)

Heaps == [mem : [Words -> Int], brk : Nat, root : Nat]

\* What is assumed of the constants, as numbers.
LEMMA Numbers ==
    /\ MAX_HEAP \in Nat /\ CHUNKSIZE \in Nat /\ SizeRange \in Nat
    /\ CHUNKSIZE % 8 = 0 /\ CHUNKSIZE >= 16 /\ MAX_HEAP >= 24 + CHUNKSIZE
    /\ WSIZE = 4 /\ DSIZE = 8 /\ NULL = 0 /\ PROLOGUE = 8
    /\ \A a : a \in Words <=> a \in Int /\ 0 <= a /\ a < MAX_HEAP /\ a % 4 = 0
  BY MMHeapAssumption DEF WSIZE, DSIZE, NULL, PROLOGUE, Words

LEMMA PutIs ==
    ASSUME NEW h \in Heaps, NEW a \in Words, NEW w \in Int
    PROVE  /\ PUT(h, a, w) \in Heaps
           /\ PUT(h, a, w).brk = h.brk /\ PUT(h, a, w).root = h.root
           /\ GET(PUT(h, a, w), a) = w
           /\ \A x : x # a => GET(PUT(h, a, w), x) = GET(h, x)
<1>1. PUT(h, a, w) = [mem |-> [h.mem EXCEPT ![a] = w], brk |-> h.brk, root |-> h.root]
  BY DEF PUT, Heaps
<1>2. h.mem \in [Words -> Int]
  BY DEF Heaps
<1>3. [h.mem EXCEPT ![a] = w] \in [Words -> Int]
  BY <1>2
<1> QED  BY <1>1, <1>2, <1>3 DEF Heaps, GET

LEMMA GetInt ==
    ASSUME NEW h \in Heaps, NEW a
    PROVE  GET(h, a) \in Int
  BY DEF Heaps, GET

LEMMA RootIs ==
    ASSUME NEW h \in Heaps, NEW r \in Nat
    PROVE  /\ [h EXCEPT !.root = r] \in Heaps /\ [h EXCEPT !.root = r].brk = h.brk
           /\ [h EXCEPT !.root = r].root = r
           /\ \A x : GET([h EXCEPT !.root = r], x) = GET(h, x)
  BY DEF Heaps, GET

\* What a tag says: the size and whether the block is allocated.
LEMMA TagReads ==
    ASSUME NEW s \in Nat, s % 8 = 0, NEW a \in {0, 1}
    PROVE  /\ PACK(s, a) = s + a /\ PACK(s, a) \in Int
           /\ SizeOf(s + a) = s /\ AllocOf(s + a) = a
<1>1. PICK q \in Nat : s = 8 * q
  <2>1. s = 8 * (s \div 8) /\ s \div 8 \in Nat
    OBVIOUS
  <2> QED  BY <2>1
<1> QED  BY <1>1 DEF PACK, SizeOf, AllocOf, DSIZE

-----------------------------------------------------------------------------
(* The free list: L[0] is its head, L[k] the prologue. *)

Linked(h, L, k) ==
    /\ k \in Nat /\ L \in [0..k -> Nat]
    /\ L[0] = h.root /\ L[k] = PROLOGUE
    /\ \A m, n \in 0..k : L[m] = L[n] => m = n
    /\ \A n \in 0..(k - 1) : GET(h, L[n]) = L[n + 1] /\ GET(h, L[n + 1] + WSIZE) = L[n]
    /\ GET(h, L[0] + WSIZE) = NULL /\ GET(h, PROLOGUE) = NULL

Members(L, k) == {L[n] : n \in 0..(k - 1)}

\* F is what the list of h holds.
List(h, F) == \E k \in Nat : \E L \in [0..k -> Nat] : Linked(h, L, k) /\ F = Members(L, k)

\* A block has room for its links.
Node(f) == f \in Words /\ f + WSIZE \in Words /\ f % 8 = 0

LEMMA Eights ==
    ASSUME NEW a \in Nat, a % 8 = 0
    PROVE  \E q \in Nat : a = 8 * q
<1>1. a = 8 * (a \div 8) /\ a \div 8 \in Nat
  OBVIOUS
<1> QED  BY <1>1

LEMMA Apart4 ==
    ASSUME NEW a, NEW b, Node(a), Node(b)
    PROVE  a # b + WSIZE /\ (a + WSIZE = b + WSIZE => a = b)
<1>1. a \in Nat /\ b \in Nat /\ a % 8 = 0 /\ b % 8 = 0
  BY Numbers DEF Node
<1>2. PICK q \in Nat : a = 8 * q
  BY <1>1, Eights
<1>3. PICK r \in Nat : b = 8 * r
  BY <1>1, Eights
<1> QED  BY <1>2, <1>3 DEF WSIZE

\* g is h with the block L[p] taken off the list, or with bp put in front of it.
Unlinked(g, h, L, k, p) ==
    /\ g \in Heaps /\ g.brk = h.brk
    /\ List(g, Members(L, k) \ {L[p]})
    /\ \A x : (\A m \in 0..k : m # p => x # L[m] /\ x # L[m] + WSIZE)
                => GET(g, x) = GET(h, x)

LinkedTo(g, h, L, k, bp) ==
    /\ g \in Heaps /\ g.brk = h.brk
    /\ List(g, Members(L, k) \cup {bp})
    /\ \A x : x # bp /\ x # bp + WSIZE
                /\ (\A m \in 0..k : x # L[m] /\ x # L[m] + WSIZE)
                => GET(g, x) = GET(h, x)

LEMMA RemoveLinks ==
    ASSUME NEW h \in Heaps, NEW L, NEW k, Linked(h, L, k),
           \A n \in 0..k : Node(L[n]),
           NEW p \in 0..(k - 1)
    PROVE  Unlinked(remove_free_root_e(h, L[p]), h, L, k, p)
<1> DEFINE g == remove_free_root_e(h, L[p])
           M == [m \in 0..(k - 1) |-> IF m < p THEN L[m] ELSE L[m + 1]]
<1>1. /\ k \in Nat /\ L \in [0..k -> Nat] /\ L[0] = h.root /\ L[k] = PROLOGUE
      /\ \A m, n \in 0..k : L[m] = L[n] => m = n
      /\ \A n \in 0..(k - 1) : GET(h, L[n]) = L[n + 1] /\ GET(h, L[n + 1] + WSIZE) = L[n]
      /\ GET(h, L[0] + WSIZE) = NULL /\ GET(h, PROLOGUE) = NULL
  BY DEF Linked
<1>2. k - 1 \in Nat /\ p \in 0..k /\ p + 1 \in 0..k /\ 0 \in 0..k /\ p \in Nat
      /\ (p # 0 => p - 1 \in 0..(k - 1))
  BY <1>1
<1>3. M \in [0..(k - 1) -> Nat] /\ M[k - 1] = PROLOGUE
  BY <1>1, <1>2
<1>4. \A m, n \in 0..(k - 1) : M[m] = M[n] => m = n
  BY <1>1, <1>2
<1>5. \A m \in 0..(k - 1) : M[m] = IF m < p THEN L[m] ELSE L[m + 1]
  OBVIOUS
<1>6. Members(M, k - 1) = Members(L, k) \ {L[p]}
  <2> HIDE DEF M
  <2>1. (k - 1) - 1 = k - 2
    BY <1>1
  <2>2. ASSUME NEW n \in 0..(k - 2) PROVE M[n] \in Members(L, k) \ {L[p]}
    <3>1. n \in 0..(k - 1) /\ n + 1 \in 0..(k - 1) /\ n \in 0..k /\ n + 1 \in 0..k
      BY <1>1
    <3>2. (M[n] = L[n] /\ n # p) \/ (M[n] = L[n + 1] /\ n + 1 # p)
      BY <1>2, <1>5, <3>1
    <3> QED  BY <1>1, <1>2, <3>1, <3>2 DEF Members
  <2>3. ASSUME NEW n \in 0..(k - 1), n # p PROVE \E m \in 0..(k - 2) : M[m] = L[n]
    <3>1. CASE n < p
      <4>1. n \in 0..(k - 2)
        BY <1>1, <1>2, <3>1
      <4> QED  BY <1>5, <3>1, <4>1
    <3>2. CASE n > p
      <4>1. n - 1 \in 0..(k - 2) /\ n - 1 \in 0..(k - 1) /\ ~(n - 1 < p) /\ (n - 1) + 1 = n
        BY <1>1, <1>2, <3>2
      <4>2. M[n - 1] = L[n]
        BY <1>5, <4>1
      <4> QED  BY <4>1, <4>2
    <3> QED  BY <1>1, <1>2, <2>3, <3>1, <3>2
  <2>4. Members(M, k - 1) = {M[n] : n \in 0..(k - 2)}
    BY <2>1 DEF Members
  <2>5. ASSUME NEW y \in Members(L, k) \ {L[p]} PROVE y \in {M[n] : n \in 0..(k - 2)}
    <3>1. PICK n \in 0..(k - 1) : y = L[n]
      BY DEF Members
    <3> QED  BY <2>3, <3>1
  <2> QED  BY <2>2, <2>4, <2>5
<1>7. CASE p = 0
  <2>1. L[p] = h.root /\ GET(h, L[p]) = L[1] /\ Node(L[1]) /\ L[1] \in Nat
    BY <1>1, <1>2, <1>7
  <2> DEFINE g1 == PUT(h, L[1] + WSIZE, NULL)
  <2>2. g = [g1 EXCEPT !.root = L[1]]
    BY <2>1 DEF remove_free_root_e, NEXT_FREEP
  <2>3. L[1] + WSIZE \in Words /\ NULL \in Int
    BY <2>1 DEF Node, NULL
  <2>4. /\ g1 \in Heaps /\ g1.brk = h.brk /\ GET(g1, L[1] + WSIZE) = NULL
        /\ \A x : x # L[1] + WSIZE => GET(g1, x) = GET(h, x)
    BY <2>3, PutIs
  <2> HIDE DEF g1
  <2>5. /\ g \in Heaps /\ g.brk = h.brk /\ g.root = L[1] /\ GET(g, L[1] + WSIZE) = NULL
        /\ \A x : x # L[1] + WSIZE => GET(g, x) = GET(h, x)
    BY <2>1, <2>2, <2>4, RootIs
  <2> HIDE DEF g
  <2>6. \A n \in 0..(k - 1) : M[n] = L[n + 1]
    BY <1>2, <1>7
  <2> HIDE DEF M
  <2>7. ASSUME NEW n \in 0..(k - 2)
        PROVE  GET(g, M[n]) = M[n + 1] /\ GET(g, M[n + 1] + WSIZE) = M[n]
    <3>1. M[n] = L[n + 1] /\ M[n + 1] = L[n + 2] /\ n + 1 \in 0..(k - 1) /\ n + 2 \in 0..k
          /\ n + 1 \in 0..k /\ 1 \in 0..k /\ n + 2 # 1 /\ (n + 1) + 1 = n + 2
      BY <1>1, <2>6
    <3>2. L[n + 1] # L[1] + WSIZE /\ L[n + 2] + WSIZE # L[1] + WSIZE
      BY <1>1, <2>1, <3>1, Apart4
    <3>3. GET(h, L[n + 1]) = L[n + 2] /\ GET(h, L[n + 2] + WSIZE) = L[n + 1]
      BY <1>1, <3>1
    <3> QED  BY <2>5, <3>1, <3>2, <3>3
  <2>8. GET(g, PROLOGUE) = NULL
    <3>1. PROLOGUE # L[1] + WSIZE
      BY <1>1, <1>2, <2>1, Apart4
    <3> QED  BY <1>1, <2>5, <3>1
  <2>9. M[0] = L[1]
    BY <1>2, <2>6
  <2>10. Linked(g, M, k - 1)
    <3>1. (k - 1) - 1 = k - 2
      BY <1>1
    <3> QED  BY <1>2, <1>3, <1>4, <2>5, <2>7, <2>8, <2>9, <3>1 DEF Linked
  <2>11. ASSUME NEW x, \A m \in 0..k : m # p => x # L[m] /\ x # L[m] + WSIZE
         PROVE  GET(g, x) = GET(h, x)
    <3>1. 1 \in 0..k /\ 1 # p
      BY <1>2, <1>7
    <3> QED  BY <2>5, <2>11, <3>1
  <2>12. List(g, Members(L, k) \ {L[p]})
    BY <1>2, <1>3, <1>6, <2>10 DEF List, M
  <2> QED  BY <2>5, <2>11, <2>12 DEF g, Unlinked
<1>8. CASE p # 0
  <2>1. p - 1 \in 0..(k - 1) /\ p - 1 \in 0..k /\ (p - 1) + 1 = p
    BY <1>1, <1>2, <1>8
  <2>2. /\ L[p] # h.root /\ GET(h, L[p]) = L[p + 1] /\ GET(h, L[p] + WSIZE) = L[p - 1]
        /\ Node(L[p + 1]) /\ Node(L[p - 1]) /\ L[p + 1] \in Int /\ L[p - 1] \in Int
    BY <1>1, <1>2, <1>8, <2>1
  <2> DEFINE g1 == PUT(h, L[p - 1], L[p + 1])
  <2>3. g = PUT(g1, L[p + 1] + WSIZE, L[p - 1])
    BY <2>2 DEF remove_free_root_e, NEXT_FREEP, PREV_FREEP
  <2>4. /\ g1 \in Heaps /\ g1.brk = h.brk /\ g1.root = h.root /\ GET(g1, L[p - 1]) = L[p + 1]
        /\ \A x : x # L[p - 1] => GET(g1, x) = GET(h, x)
    BY <2>2, PutIs DEF Node
  <2> HIDE DEF g1
  <2>5. /\ g \in Heaps /\ g.brk = h.brk /\ g.root = h.root
        /\ GET(g, L[p + 1] + WSIZE) = L[p - 1]
        /\ \A x : x # L[p + 1] + WSIZE => GET(g, x) = GET(g1, x)
    <3>1. PICK a \in Words : a = L[p + 1] + WSIZE
      BY <2>2 DEF Node
    <3>2. PICK w \in Int : w = L[p - 1]
      BY <2>2
    <3>3. g = PUT(g1, a, w)
      BY <2>3, <3>1, <3>2
    <3> HIDE DEF g
    <3>4. /\ g \in Heaps /\ g.brk = g1.brk /\ g.root = g1.root /\ GET(g, a) = w
          /\ \A x : x # a => GET(g, x) = GET(g1, x)
      BY <2>4, <3>3, PutIs
    <3> QED  BY <2>4, <3>1, <3>2, <3>4
  <2> HIDE DEF g
  <2>6. L[p - 1] # L[p + 1] + WSIZE
    BY <2>2, Apart4
  <2>7. GET(g, L[p - 1]) = L[p + 1]
    BY <2>4, <2>5, <2>6
  <2>8. \A x : x # L[p + 1] + WSIZE /\ x # L[p - 1] => GET(g, x) = GET(h, x)
    BY <2>4, <2>5
  <2>9. \A n \in 0..(k - 1) : M[n] = IF n < p THEN L[n] ELSE L[n + 1]
    OBVIOUS
  <2> HIDE DEF M
  <2>10. ASSUME NEW n \in 0..(k - 2)
         PROVE  GET(g, M[n]) = M[n + 1] /\ GET(g, M[n + 1] + WSIZE) = M[n]
    <3>1. n \in 0..(k - 1) /\ n + 1 \in 0..(k - 1) /\ n \in 0..k /\ n + 1 \in 0..k
          /\ n + 2 \in 0..k /\ (n + 1) + 1 = n + 2
      BY <1>1
    <3>2. \A m \in 0..k : L[m] # L[p + 1] + WSIZE /\ L[m] + WSIZE # L[p - 1]
      BY <2>2, Apart4
    <3>3. \A m \in 0..k : L[m] = L[p - 1] => m = p - 1
      BY <1>1, <2>1
    <3>4. \A m \in 0..k : L[m] + WSIZE = L[p + 1] + WSIZE => m = p + 1
      BY <1>1, <1>2, <2>2, Apart4
    <3>5. CASE n + 1 < p
      <4>1. M[n] = L[n] /\ M[n + 1] = L[n + 1]
        BY <1>2, <2>9, <3>1, <3>5
      <4>2. n # p - 1 /\ n + 1 # p + 1
        BY <1>2, <3>1, <3>5
      <4>3. GET(g, L[n]) = GET(h, L[n]) /\ GET(g, L[n + 1] + WSIZE) = GET(h, L[n + 1] + WSIZE)
        BY <2>8, <3>1, <3>2, <3>3, <3>4, <4>2
      <4> QED  BY <1>1, <3>1, <4>1, <4>3
    <3>6. CASE n + 1 = p
      <4>1. M[n] = L[p - 1] /\ M[n + 1] = L[p + 1]
        BY <1>2, <2>9, <3>1, <3>6
      <4> QED  BY <2>5, <2>7, <4>1
    <3>7. CASE n + 1 > p
      <4>1. M[n] = L[n + 1] /\ M[n + 1] = L[n + 2]
        BY <1>2, <2>9, <3>1, <3>7
      <4>2. n + 1 # p - 1 /\ n + 2 # p + 1
        BY <1>2, <3>1, <3>7
      <4>3. GET(g, L[n + 1]) = GET(h, L[n + 1])
            /\ GET(g, L[n + 2] + WSIZE) = GET(h, L[n + 2] + WSIZE)
        BY <2>8, <3>1, <3>2, <3>3, <3>4, <4>2
      <4>4. GET(h, L[n + 1]) = L[n + 2] /\ GET(h, L[n + 2] + WSIZE) = L[n + 1]
        BY <1>1, <3>1
      <4> QED  BY <4>1, <4>3, <4>4
    <3> QED  BY <1>2, <3>1, <3>5, <3>6, <3>7
  <2>11. GET(g, PROLOGUE) = NULL
    <3>1. PROLOGUE # L[p + 1] + WSIZE
      BY <1>1, <1>2, <2>2, Apart4
    <3>2. L[p - 1] # L[k]
      BY <1>1, <1>2, <2>1
    <3> QED  BY <1>1, <2>8, <3>1, <3>2
  <2>12. M[0] = L[0] /\ GET(g, L[0] + WSIZE) = NULL
    <3>1. M[0] = L[0]
      BY <1>2, <1>8, <2>9
    <3>2. L[0] + WSIZE # L[p + 1] + WSIZE
      BY <1>1, <1>2, <2>2, Apart4
    <3>3. L[0] + WSIZE # L[p - 1]
      BY <1>2, <2>2, Apart4
    <3> QED  BY <1>1, <2>8, <3>1, <3>2, <3>3
  <2>13. Linked(g, M, k - 1)
    <3>1. (k - 1) - 1 = k - 2
      BY <1>1
    <3> QED  BY <1>1, <1>2, <1>3, <1>4, <2>5, <2>10, <2>11, <2>12, <3>1 DEF Linked
  <2>14. ASSUME NEW x, \A m \in 0..k : m # p => x # L[m] /\ x # L[m] + WSIZE
         PROVE  GET(g, x) = GET(h, x)
    <3>1. p + 1 \in 0..k /\ p + 1 # p /\ p - 1 # p
      BY <1>2
    <3> QED  BY <2>1, <2>8, <2>14, <3>1
  <2>15. List(g, Members(L, k) \ {L[p]})
    BY <1>2, <1>3, <1>6, <2>13 DEF List, M
  <2> QED  BY <2>5, <2>14, <2>15 DEF g, Unlinked
<1> QED  BY <1>7, <1>8

LEMMA InsertLinks ==
    ASSUME NEW h \in Heaps, NEW L, NEW k, Linked(h, L, k),
           \A n \in 0..k : Node(L[n]),
           NEW bp, Node(bp), \A n \in 0..k : L[n] # bp
    PROVE  LinkedTo(insert_free_root_e(h, bp), h, L, k, bp)
<1> DEFINE g == insert_free_root_e(h, bp)
           M == [m \in 0..(k + 1) |-> IF m = 0 THEN bp ELSE L[m - 1]]
<1>1. /\ k \in Nat /\ L \in [0..k -> Nat] /\ L[0] = h.root /\ L[k] = PROLOGUE
      /\ \A m, n \in 0..k : L[m] = L[n] => m = n
      /\ \A n \in 0..(k - 1) : GET(h, L[n]) = L[n + 1] /\ GET(h, L[n + 1] + WSIZE) = L[n]
      /\ GET(h, L[0] + WSIZE) = NULL /\ GET(h, PROLOGUE) = NULL
  BY DEF Linked
<1>2. k + 1 \in Nat /\ 0 \in 0..k /\ (k + 1) - 1 = k /\ bp \in Nat
  BY <1>1, Numbers DEF Node
<1>3. M \in [0..(k + 1) -> Nat] /\ M[k + 1] = PROLOGUE /\ M[0] = bp
  BY <1>1, <1>2
<1>4. \A m \in 0..(k + 1) : M[m] = IF m = 0 THEN bp ELSE L[m - 1]
  OBVIOUS
<1>5. \A m, n \in 0..(k + 1) : M[m] = M[n] => m = n
  <2> SUFFICES ASSUME NEW m \in 0..(k + 1), NEW n \in 0..(k + 1), M[m] = M[n] PROVE m = n
    OBVIOUS
  <2> HIDE DEF M
  <2>1. (m # 0 => m - 1 \in 0..k) /\ (n # 0 => n - 1 \in 0..k)
    BY <1>1
  <2> QED  BY <1>1, <1>4, <2>1
<1>6. Members(M, k + 1) = Members(L, k) \cup {bp}
  <2> HIDE DEF M
  <2>1. Members(M, k + 1) = {M[n] : n \in 0..k}
    BY <1>2 DEF Members
  <2>2. ASSUME NEW n \in 0..k PROVE M[n] \in Members(L, k) \cup {bp}
    <3>1. n = 0 \/ n - 1 \in 0..(k - 1)
      BY <1>1
    <3>2. n \in 0..(k + 1)
      BY <1>1
    <3> QED  BY <1>4, <3>1, <3>2 DEF Members
  <2>3. ASSUME NEW n \in 0..(k - 1) PROVE \E m \in 0..k : M[m] = L[n]
    <3>1. n + 1 \in 0..k /\ n + 1 \in 0..(k + 1) /\ n + 1 # 0 /\ (n + 1) - 1 = n
      BY <1>1
    <3>2. M[n + 1] = L[n]
      BY <1>4, <3>1
    <3> QED  BY <3>1, <3>2
  <2>4. ASSUME NEW y \in Members(L, k) PROVE y \in {M[n] : n \in 0..k}
    <3>1. PICK n \in 0..(k - 1) : y = L[n]
      BY DEF Members
    <3> QED  BY <2>3, <3>1
  <2>5. bp \in {M[n] : n \in 0..k}
    BY <1>2, <1>3
  <2> QED  BY <2>1, <2>2, <2>4, <2>5
<1>7. PICK r \in Nat : r = h.root /\ r = L[0] /\ Node(r) /\ r # bp
  BY <1>1, <1>2
<1> DEFINE g1 == PUT(h, bp, r)
           g2 == PUT(g1, r + WSIZE, bp)
           g3 == PUT(g2, bp + WSIZE, NULL)
<1>8. g = [g3 EXCEPT !.root = bp]
  BY <1>7 DEF insert_free_root_e
<1>9. bp \in Words /\ bp + WSIZE \in Words /\ r + WSIZE \in Words /\ NULL \in Int
      /\ bp \in Int /\ r \in Int
  BY <1>2, <1>7 DEF Node, NULL
<1>10. g1 \in Heaps /\ g1.brk = h.brk /\ GET(g1, bp) = r /\ \A x : x # bp => GET(g1, x) = GET(h, x)
  BY <1>9, PutIs
<1> HIDE DEF g1
<1>11. g2 \in Heaps /\ g2.brk = h.brk /\ GET(g2, r + WSIZE) = bp
       /\ \A x : x # r + WSIZE => GET(g2, x) = GET(g1, x)
  BY <1>9, <1>10, PutIs
<1> HIDE DEF g2
<1>12. g3 \in Heaps /\ g3.brk = h.brk /\ GET(g3, bp + WSIZE) = NULL
       /\ \A x : x # bp + WSIZE => GET(g3, x) = GET(g2, x)
  <2>1. PICK a \in Words : a = bp + WSIZE
    BY <1>9
  <2>2. PICK w \in Int : w = NULL
    BY <1>9
  <2>3. g3 = PUT(g2, a, w)
    BY <2>1, <2>2
  <2> HIDE DEF g3
  <2> QED  BY <1>11, <2>1, <2>2, <2>3, PutIs
<1> HIDE DEF g3
<1>13. g \in Heaps /\ g.brk = h.brk /\ g.root = bp /\ \A x : GET(g, x) = GET(g3, x)
  BY <1>2, <1>8, <1>12, RootIs
<1> HIDE DEF g
<1>14. bp # r + WSIZE /\ bp # bp + WSIZE /\ r + WSIZE # bp + WSIZE
  BY <1>7, Apart4
<1>15. GET(g, bp) = r /\ GET(g, r + WSIZE) = bp /\ GET(g, bp + WSIZE) = NULL
  BY <1>10, <1>11, <1>12, <1>13, <1>14
<1>16. \A x : x # bp /\ x # bp + WSIZE /\ x # r + WSIZE => GET(g, x) = GET(h, x)
  BY <1>10, <1>11, <1>12, <1>13
<1> HIDE DEF M
<1>17. \A m \in 0..k : /\ L[m] # bp /\ L[m] # bp + WSIZE /\ L[m] # r + WSIZE
                       /\ L[m] + WSIZE # bp /\ L[m] + WSIZE # bp + WSIZE
                       /\ L[m] + WSIZE = r + WSIZE => m = 0
  <2> SUFFICES ASSUME NEW m \in 0..k
               PROVE  /\ L[m] # bp /\ L[m] # bp + WSIZE /\ L[m] # r + WSIZE
                      /\ L[m] + WSIZE # bp /\ L[m] + WSIZE # bp + WSIZE
                      /\ L[m] + WSIZE = r + WSIZE => m = 0
    OBVIOUS
  <2>1. Node(L[m]) /\ L[m] # bp
    OBVIOUS
  <2>2. L[m] # bp + WSIZE /\ L[m] # r + WSIZE /\ L[m] + WSIZE # bp
    BY <1>7, <2>1, Apart4
  <2>3. L[m] + WSIZE # bp + WSIZE /\ (L[m] + WSIZE = r + WSIZE => L[m] = L[0])
    BY <1>7, <2>1, Apart4
  <2> QED  BY <1>1, <1>2, <2>1, <2>2, <2>3
<1>18. ASSUME NEW n \in 0..k
       PROVE  GET(g, M[n]) = M[n + 1] /\ GET(g, M[n + 1] + WSIZE) = M[n]
  <2>1. n \in 0..(k + 1) /\ n + 1 \in 0..(k + 1) /\ n + 1 # 0 /\ (n + 1) - 1 = n
    BY <1>1
  <2>2. M[n + 1] = L[n]
    BY <1>4, <2>1
  <2>3. CASE n = 0
    BY <1>3, <1>7, <1>15, <2>2, <2>3
  <2>4. CASE n # 0
    <3>1. n - 1 \in 0..(k - 1) /\ n - 1 \in 0..k /\ (n - 1) + 1 = n /\ n \in 0..k
      BY <1>1, <2>4
    <3>2. M[n] = L[n - 1] /\ GET(h, L[n - 1]) = L[n] /\ GET(h, L[n] + WSIZE) = L[n - 1]
      BY <1>1, <1>4, <2>1, <2>4, <3>1
    <3>3. GET(g, L[n - 1]) = GET(h, L[n - 1]) /\ GET(g, L[n] + WSIZE) = GET(h, L[n] + WSIZE)
      BY <1>16, <1>17, <2>4, <3>1
    <3> QED  BY <2>2, <3>2, <3>3
  <2> QED  BY <2>3, <2>4
<1>19. GET(g, PROLOGUE) = NULL
  <2>1. k \in 0..k
    BY <1>1
  <2> QED  BY <1>1, <1>16, <1>17, <2>1
<1>20. Linked(g, M, k + 1)
  BY <1>2, <1>3, <1>5, <1>13, <1>15, <1>18, <1>19 DEF Linked
<1>21. ASSUME NEW x, x # bp, x # bp + WSIZE, \A m \in 0..k : x # L[m] /\ x # L[m] + WSIZE
       PROVE  GET(g, x) = GET(h, x)
  BY <1>2, <1>7, <1>16, <1>21
<1>22. List(g, Members(L, k) \cup {bp})
  BY <1>2, <1>3, <1>6, <1>20 DEF List, M
<1> QED  BY <1>13, <1>21, <1>22 DEF g, LinkedTo

Nodes(F) == \A f \in F \cup {PROLOGUE} : Node(f)

\* A word that is no link of the list.
NoLink(x, F) == \A f \in F \cup {PROLOGUE} : x # f /\ x # f + WSIZE

LEMMA Elements ==
    ASSUME NEW h, NEW L, NEW k, Linked(h, L, k)
    PROVE  /\ {L[n] : n \in 0..k} = Members(L, k) \cup {PROLOGUE}
           /\ PROLOGUE \notin Members(L, k)
<1>1. k \in Nat /\ L[k] = PROLOGUE /\ \A m, n \in 0..k : L[m] = L[n] => m = n
  BY DEF Linked
<1>2. \A n \in 0..k : n \in 0..(k - 1) \/ n = k
  BY <1>1
<1>3. \A n \in 0..(k - 1) : n \in 0..k /\ n # k
  BY <1>1
<1>4. k \in 0..k
  BY <1>1
<1> QED  BY <1>1, <1>2, <1>3, <1>4 DEF Members

LEMMA ListRemove ==
    ASSUME NEW h \in Heaps, NEW F, List(h, F), Nodes(F), NEW bp \in F
    PROVE  LET g == remove_free_root_e(h, bp)
           IN /\ g \in Heaps /\ g.brk = h.brk /\ List(g, F \ {bp})
              /\ \A x : NoLink(x, F \ {bp}) => GET(g, x) = GET(h, x)
<1>1. PICK k \in Nat : \E L \in [0..k -> Nat] : Linked(h, L, k) /\ F = Members(L, k)
  BY DEF List
<1>2. PICK L \in [0..k -> Nat] : Linked(h, L, k) /\ F = Members(L, k)
  BY <1>1
<1>3. PICK p \in 0..(k - 1) : bp = L[p]
  BY <1>2 DEF Members
<1>4. {L[n] : n \in 0..k} = F \cup {PROLOGUE} /\ PROLOGUE \notin F
  BY <1>2, Elements
<1>5. \A n \in 0..k : Node(L[n])
  BY <1>4 DEF Nodes
<1> DEFINE g == remove_free_root_e(h, bp)
<1>6. /\ g \in Heaps /\ g.brk = h.brk
      /\ List(g, F \ {bp})
      /\ \A x : (\A m \in 0..k : m # p => x # L[m] /\ x # L[m] + WSIZE)
                  => GET(g, x) = GET(h, x)
  <2> DEFINE d == remove_free_root_e(h, L[p])
  <2>1. Unlinked(d, h, L, k, p)
    BY <1>2, <1>5, RemoveLinks
  <2>2. d = g /\ Members(L, k) \ {L[p]} = F \ {bp}
    BY <1>2, <1>3
  <2> HIDE DEF d, g
  <2> QED  BY <2>1, <2>2 DEF Unlinked
<1> HIDE DEF g
<1>8. \A m \in 0..k : m # p => L[m] \in (F \ {bp}) \cup {PROLOGUE}
  <2>1. \A m \in 0..k : m # p => L[m] # L[p]
    BY <1>1, <1>2 DEF Linked
  <2> QED  BY <1>3, <1>4, <2>1
<1>9. \A x : NoLink(x, F \ {bp}) => GET(g, x) = GET(h, x)
  BY <1>6, <1>8 DEF NoLink
<1> QED  BY <1>3, <1>6, <1>9 DEF g

LEMMA ListInsert ==
    ASSUME NEW h \in Heaps, NEW F, List(h, F), Nodes(F),
           NEW bp, Node(bp), bp \notin F, bp # PROLOGUE
    PROVE  LET g == insert_free_root_e(h, bp)
           IN /\ g \in Heaps /\ g.brk = h.brk /\ List(g, F \cup {bp})
              /\ \A x : NoLink(x, F \cup {bp}) => GET(g, x) = GET(h, x)
<1>1. PICK k \in Nat : \E L \in [0..k -> Nat] : Linked(h, L, k) /\ F = Members(L, k)
  BY DEF List
<1>2. PICK L \in [0..k -> Nat] : Linked(h, L, k) /\ F = Members(L, k)
  BY <1>1
<1>3. {L[n] : n \in 0..k} = F \cup {PROLOGUE}
  BY <1>2, Elements
<1>4. \A n \in 0..k : Node(L[n]) /\ L[n] # bp
  BY <1>3 DEF Nodes
<1> DEFINE g == insert_free_root_e(h, bp)
<1>5. /\ g \in Heaps /\ g.brk = h.brk
      /\ List(g, F \cup {bp})
      /\ \A x : x # bp /\ x # bp + WSIZE
                  /\ (\A m \in 0..k : x # L[m] /\ x # L[m] + WSIZE)
                  => GET(g, x) = GET(h, x)
  <2>1. Linked(h, L, k) /\ F = Members(L, k)
    BY <1>2
  <2>2. LinkedTo(g, h, L, k, bp)
    BY <1>4, <2>1, InsertLinks
  <2> HIDE DEF g
  <2> QED  BY <2>1, <2>2 DEF LinkedTo
<1> HIDE DEF g
<1>6. \A x : NoLink(x, F \cup {bp}) => GET(g, x) = GET(h, x)
  BY <1>3, <1>5 DEF NoLink
<1> QED  BY <1>5, <1>6 DEF g

\* A step that writes no link keeps the list.
LEMMA ListFrame ==
    ASSUME NEW h, NEW g, NEW F, List(h, F), g.root = h.root,
           \A f \in F \cup {PROLOGUE} : GET(g, f) = GET(h, f)
                                         /\ GET(g, f + WSIZE) = GET(h, f + WSIZE)
    PROVE  List(g, F)
<1>1. PICK k \in Nat : \E L \in [0..k -> Nat] : Linked(h, L, k) /\ F = Members(L, k)
  BY DEF List
<1>2. PICK L \in [0..k -> Nat] : Linked(h, L, k) /\ F = Members(L, k)
  BY <1>1
<1>3. {L[n] : n \in 0..k} = F \cup {PROLOGUE}
  BY <1>2, Elements
<1>4. \A n \in 0..k : GET(g, L[n]) = GET(h, L[n]) /\ GET(g, L[n] + WSIZE) = GET(h, L[n] + WSIZE)
  BY <1>3
<1>5. \A n \in 0..(k - 1) : n \in 0..k /\ n + 1 \in 0..k
  OBVIOUS
<1>6. 0 \in 0..k /\ k \in 0..k
  OBVIOUS
<1>7. Linked(g, L, k)
  BY <1>2, <1>4, <1>5, <1>6 DEF Linked
<1> QED  BY <1>2, <1>7 DEF List

-----------------------------------------------------------------------------
(* The blocks: they tile the heap from the prologue to the break. *)

Tile(B, S, top, b) ==
    /\ b \in Nat /\ b % 8 = 0 /\ b >= 8
    /\ S[b] \in Nat /\ S[b] % 8 = 0 /\ S[b] >= 16
    /\ b + S[b] \in B \cup {top} /\ b + S[b] <= top

Layout(B, S, top) ==
    /\ top \in Nat /\ top % 8 = 0 /\ top <= MAX_HEAP
    /\ 8 \in B /\ S[8] = 16
    /\ \A b \in B : Tile(B, S, top, b)
    /\ \A b, c \in B : b < c => b + S[b] <= c
    /\ \A c \in (B \cup {top}) \ {8} : \E b \in B : b + S[b] = c

\* E is the set of the blocks that are tagged free.
TagOf(S, E, b) == S[b] + (IF b \in E THEN 0 ELSE 1)

Tagged(h, B, S, E) ==
    /\ E \subseteq B \ {8}
    /\ \A b \in B : GET(h, b - 4) = TagOf(S, E, b) /\ GET(h, b + S[b] - 8) = TagOf(S, E, b)
    /\ GET(h, h.brk - 4) = 1

\* A heap whose free list holds F.
Shape(h, B, S, E, F) ==
    /\ h \in Heaps /\ Layout(B, S, h.brk) /\ Tagged(h, B, S, E)
    /\ List(h, F) /\ F \subseteq E

Apart(B, S, E) == \A b \in E : b + S[b] \notin E

Good(h, B, S, E) == Shape(h, B, S, E, E) /\ Apart(B, S, E)

\* The payload of the blocks that are in use is the same in g.
Untouched(g, h, B, S, E) ==
    \A b \in B \ (E \cup {8}) : \A x \in b..(b + S[b] - 9) : GET(g, x) = GET(h, x)

LEMMA LayoutWords ==
    ASSUME NEW B, NEW S, NEW top, Layout(B, S, top)
    PROVE  /\ \A b \in B : /\ b - 4 \in Words /\ b + S[b] - 8 \in Words
                           /\ Node(b) /\ b + 16 <= top
           /\ top - 4 \in Words /\ top >= 24 /\ top \notin B
<1>1. ASSUME NEW b \in B
      PROVE  /\ b - 4 \in Words /\ b + S[b] - 8 \in Words /\ Node(b) /\ b + 16 <= top
             /\ b # top
  <2>1. /\ b \in Nat /\ b % 8 = 0 /\ b >= 8 /\ S[b] \in Nat /\ S[b] % 8 = 0 /\ S[b] >= 16
        /\ b + S[b] <= top /\ top \in Nat /\ top <= MAX_HEAP
    BY DEF Layout, Tile
  <2>2. PICK q \in Nat : b = 8 * q
    BY <2>1, Eights
  <2>3. PICK r \in Nat : S[b] = 8 * r
    BY <2>1, Eights
  <2>4. \A a \in Int : a % 4 = 0 /\ 0 <= a /\ a < top => a \in Words
    BY <2>1, Numbers
  <2>5. (b - 4) % 4 = 0 /\ (b + S[b] - 8) % 4 = 0 /\ b % 4 = 0 /\ (b + 4) % 4 = 0
    BY <2>2, <2>3
  <2>6. b - 4 \in Words /\ b + S[b] - 8 \in Words /\ b \in Words /\ b + 4 \in Words
    BY <2>1, <2>4, <2>5
  <2> QED  BY <2>1, <2>6 DEF Node, WSIZE
<1>2. top - 4 \in Words /\ top >= 24
  <2>1. /\ top \in Nat /\ top % 8 = 0 /\ top <= MAX_HEAP /\ 8 + 16 <= top
    BY <1>1 DEF Layout
  <2>2. PICK q \in Nat : top = 8 * q
    BY <2>1, Eights
  <2> QED  BY <2>1, <2>2, Numbers
<1> QED  BY <1>1, <1>2

\* What the macros read of a block.
LEMMA Reads ==
    ASSUME NEW h, NEW B, NEW S, NEW E, Layout(B, S, h.brk), Tagged(h, B, S, E), NEW b \in B
    PROVE  /\ Size(h, b) = S[b] /\ NEXT_BLKP(h, b) = b + S[b]
           /\ Allocated(h, b) <=> b \notin E
           /\ AllocOf(GET(h, (b + S[b]) - DSIZE)) = 0 <=> b \in E
           /\ PREV_BLKP(h, b + S[b]) = b
<1>1. S[b] \in Nat /\ S[b] % 8 = 0 /\ b \in Nat
  BY DEF Layout, Tile
<1>2. PICK a \in {0, 1} : (a = 0 <=> b \in E) /\ TagOf(S, E, b) = S[b] + a
  BY DEF TagOf
<1>3. SizeOf(S[b] + a) = S[b] /\ AllocOf(S[b] + a) = a
  BY <1>1, TagReads
<1>4. GET(h, b - WSIZE) = S[b] + a /\ GET(h, (b + S[b]) - DSIZE) = S[b] + a
  BY <1>1, <1>2 DEF Tagged, WSIZE, DSIZE
<1>5. (b + S[b]) - S[b] = b
  BY <1>1
<1> QED  BY <1>2, <1>3, <1>4, <1>5 DEF Size, Allocated, NEXT_BLKP, PREV_BLKP

LEMMA ReadsTop ==
    ASSUME NEW h, NEW B, NEW S, NEW E, Layout(B, S, h.brk), Tagged(h, B, S, E)
    PROVE  Allocated(h, h.brk) /\ Size(h, h.brk) = 0 /\ NEXT_BLKP(h, h.brk) = h.brk
<1>1. GET(h, h.brk - WSIZE) = 1 /\ h.brk \in Nat
  BY DEF Tagged, WSIZE, Layout
<1> QED  BY <1>1 DEF Allocated, Size, NEXT_BLKP, AllocOf, SizeOf, DSIZE

\* The words of different blocks are different.
LEMMA Spans ==
    ASSUME NEW B, NEW S, NEW top, Layout(B, S, top), NEW b \in B, NEW c \in B, b # c
    PROVE  /\ \A x, y \in Int : b - 4 <= x /\ x <= b + S[b] - 8
                                 /\ c - 4 <= y /\ y <= c + S[c] - 8 => x # y
           /\ b \in Int /\ S[b] \in Int /\ S[b] >= 16
           /\ c \in Int /\ S[c] \in Int /\ S[c] >= 16
           /\ b + S[b] <= top /\ top \in Int
<1>1. /\ b \in Nat /\ S[b] \in Nat /\ S[b] >= 16 /\ c \in Nat /\ S[c] \in Nat /\ S[c] >= 16
      /\ b + S[b] <= top /\ top \in Int
  BY DEF Layout, Tile
<1>2. (b < c => b + S[b] <= c) /\ (c < b => c + S[c] <= b)
  BY DEF Layout
<1> QED  BY <1>1, <1>2

LEMMA FreeNodes ==
    ASSUME NEW B, NEW S, NEW top, Layout(B, S, top), NEW F \in SUBSET B
    PROVE  Nodes(F)
<1>1. PROLOGUE \in B
  BY Numbers DEF Layout
<1> QED  BY <1>1, LayoutWords DEF Nodes

\* No tag of a block and no payload in use is a link of the free list.
LEMMA NoLinks ==
    ASSUME NEW B, NEW S, NEW top, Layout(B, S, top), NEW F \in SUBSET (B \ {8}), NEW b \in B
    PROVE  /\ NoLink(b - 4, F) /\ NoLink(b + S[b] - 8, F) /\ NoLink(top - 4, F)
           /\ b \notin F /\ b # 8 => \A x \in b..(b + S[b] - 9) : NoLink(x, F)
<1>1. \A f \in F \cup {PROLOGUE} : f \in B
  BY Numbers DEF Layout
<1>2. ASSUME NEW f \in B
      PROVE  /\ b - 4 # f /\ b - 4 # f + 4 /\ b + S[b] - 8 # f /\ b + S[b] - 8 # f + 4
             /\ top - 4 # f /\ top - 4 # f + 4
             /\ b # f => \A x \in b..(b + S[b] - 9) : x # f /\ x # f + 4
  <2>1. /\ b \in Nat /\ S[b] \in Nat /\ S[b] >= 16 /\ f \in Nat /\ S[f] \in Nat /\ S[f] >= 16
        /\ f + S[f] <= top /\ top \in Nat
    BY DEF Layout, Tile
  <2>2. (b < f => b + S[b] <= f) /\ (f < b => f + S[f] <= b)
    BY DEF Layout
  <2> QED  BY <2>1, <2>2
<1> QED  BY <1>1, <1>2 DEF NoLink, WSIZE, PROLOGUE

-----------------------------------------------------------------------------
(* Merging blocks, splitting one, and adding one at the end. *)

\* The blocks from lo up to hi become one.
MergedB(B, lo, hi) == {b \in B : b <= lo \/ hi <= b}
MergedS(B, S, lo, hi) == [b \in MergedB(B, lo, hi) |-> IF b = lo THEN hi - lo ELSE S[b]]

LEMMA LayoutMerge ==
    ASSUME NEW B, NEW S, NEW top, Layout(B, S, top),
           NEW lo \in B, lo # 8, NEW hi \in B \cup {top}, lo < hi
    PROVE  Layout(MergedB(B, lo, hi), MergedS(B, S, lo, hi), top)
<1> DEFINE B2 == MergedB(B, lo, hi)
           S2 == MergedS(B, S, lo, hi)
<1>1. \A b \in B : /\ b \in Nat /\ b % 8 = 0 /\ b >= 8 /\ S[b] \in Nat /\ S[b] % 8 = 0
                   /\ S[b] >= 16 /\ b + S[b] \in B \cup {top} /\ b + S[b] <= top
  BY DEF Layout, Tile
<1>2. \A b, c \in B : b < c => b + S[b] <= c
  BY DEF Layout
<1>3. /\ top \in Nat /\ top % 8 = 0 /\ top <= MAX_HEAP /\ 8 \in B /\ S[8] = 16
      /\ \A c \in (B \cup {top}) \ {8} : \E b \in B : b + S[b] = c
  BY DEF Layout
<1>4. hi \in Nat /\ hi % 8 = 0 /\ hi <= top /\ lo + S[lo] <= hi /\ lo \in Nat /\ lo % 8 = 0
  BY <1>1, <1>2, <1>3
<1>5. \A b \in B2 : b \in B /\ (b <= lo \/ hi <= b) /\ S2[b] = IF b = lo THEN hi - lo ELSE S[b]
  BY DEF MergedB, MergedS
<1>6. \A b \in B : b <= lo \/ hi <= b => b \in B2
  BY DEF MergedB
<1>7. (hi - lo) \in Nat /\ (hi - lo) % 8 = 0 /\ hi - lo >= 16 /\ lo + (hi - lo) = hi
  <2>1. PICK q \in Nat : lo = 8 * q
    BY <1>4, Eights
  <2>2. PICK r \in Nat : hi = 8 * r
    BY <1>4, Eights
  <2>3. S[lo] >= 16 /\ S[lo] \in Nat
    BY <1>1
  <2> QED  BY <1>4, <2>1, <2>2, <2>3
<1> HIDE DEF B2, S2
<1>8. hi \in B2 \cup {top}
  BY <1>4, <1>6
<1>9. ASSUME NEW b \in B2 PROVE Tile(B2, S2, top, b)
  <2>1. b \in B /\ b \in Nat /\ b % 8 = 0 /\ b >= 8
    BY <1>1, <1>5
  <2>2. CASE b = lo
    BY <1>4, <1>5, <1>7, <1>8, <2>1, <2>2 DEF Tile
  <2>3. CASE b # lo
    <3>1. S2[b] = S[b]
      BY <1>5, <2>3
    <3>2. /\ S[b] \in Nat /\ S[b] % 8 = 0 /\ S[b] >= 16 /\ b + S[b] \in B \cup {top}
          /\ b + S[b] <= top
      BY <1>1, <2>1
    <3>3. b + S[b] <= lo \/ hi <= b + S[b]
      BY <1>2, <1>4, <1>5, <2>1, <2>3, <3>2
    <3>4. b + S[b] \in B2 \cup {top}
      BY <1>6, <3>2, <3>3
    <3> QED  BY <2>1, <3>1, <3>2, <3>4 DEF Tile
  <2> QED  BY <2>2, <2>3
<1>10. ASSUME NEW b \in B2, NEW c \in B2, b < c PROVE b + S2[b] <= c
  <2>1. b \in B /\ c \in B /\ b \in Nat /\ c \in Nat /\ b + S[b] <= c /\ (c <= lo \/ hi <= c)
    BY <1>1, <1>2, <1>5, <1>10
  <2> QED  BY <1>4, <1>5, <1>7, <1>10, <2>1
<1>11. ASSUME NEW c \in (B2 \cup {top}) \ {8} PROVE \E b \in B2 : b + S2[b] = c
  <2>1. c \in (B \cup {top}) \ {8} /\ c \in Nat /\ (c <= lo \/ hi <= c)
    BY <1>1, <1>3, <1>4, <1>5
  <2>2. PICK b \in B : b + S[b] = c
    BY <1>3, <2>1
  <2>3. b \in Nat /\ S[b] \in Nat /\ S[b] >= 16 /\ (b < lo => b + S[b] <= lo)
    BY <1>1, <1>2
  <2>4. CASE c <= lo
    <3>1. b <= lo /\ b # lo
      BY <1>4, <2>2, <2>3, <2>4
    <3> QED  BY <1>5, <1>6, <2>2, <3>1
  <2>5. CASE c = hi
    <3>1. lo \in B2 /\ S2[lo] = hi - lo
      BY <1>4, <1>5, <1>6
    <3> QED  BY <1>7, <2>5, <3>1
  <2>6. CASE hi < c
    <3>1. hi \in B
      BY <1>3, <1>4, <2>1, <2>6, <1>1
    <3>2. hi <= b
      BY <1>2, <1>4, <2>2, <2>3, <2>6, <3>1
    <3>3. b # lo
      BY <1>4, <3>2
    <3> QED  BY <1>5, <1>6, <2>2, <3>2, <3>3
  <2> QED  BY <1>4, <2>1, <2>4, <2>5, <2>6
<1>12. 8 \in B2 /\ S2[8] = 16
  <2>1. 8 < lo
    BY <1>1, <1>4
  <2> QED  BY <1>3, <1>5, <1>6, <2>1, <1>4
<1>13. Layout(B2, S2, top)
  BY <1>3, <1>9, <1>10, <1>11, <1>12 DEF Layout
<1> QED  BY <1>13 DEF B2, S2

\* The block bp ends at c, and the rest of it is a block of its own.
SplitS(B, S, bp, c) ==
    [b \in B \cup {c} |-> IF b = bp THEN c - bp ELSE IF b = c THEN bp + S[bp] - c ELSE S[b]]

LEMMA LayoutSplit ==
    ASSUME NEW B, NEW S, NEW top, Layout(B, S, top), NEW bp \in B, bp # 8,
           NEW c \in Nat, c % 8 = 0, c - bp >= 16, bp + S[bp] - c >= 16
    PROVE  Layout(B \cup {c}, SplitS(B, S, bp, c), top) /\ c \notin B
<1> DEFINE B2 == B \cup {c}
           S2 == SplitS(B, S, bp, c)
<1>1. \A b \in B : /\ b \in Nat /\ b % 8 = 0 /\ b >= 8 /\ S[b] \in Nat /\ S[b] % 8 = 0
                   /\ S[b] >= 16 /\ b + S[b] \in B \cup {top} /\ b + S[b] <= top
  BY DEF Layout, Tile
<1>2. \A b, d \in B : b < d => b + S[b] <= d
  BY DEF Layout
<1>3. /\ top \in Nat /\ top % 8 = 0 /\ top <= MAX_HEAP /\ 8 \in B /\ S[8] = 16
      /\ \A d \in (B \cup {top}) \ {8} : \E b \in B : b + S[b] = d
  BY DEF Layout
<1>4. c \notin B /\ c # top
  BY <1>1, <1>2
<1>5. \A b \in B2 : S2[b] = IF b = bp THEN c - bp ELSE IF b = c THEN bp + S[bp] - c ELSE S[b]
  BY DEF SplitS
<1>6. /\ c - bp \in Nat /\ (c - bp) % 8 = 0 /\ bp + (c - bp) = c
      /\ (bp + S[bp] - c) \in Nat /\ (bp + S[bp] - c) % 8 = 0 /\ c + (bp + S[bp] - c) = bp + S[bp]
  <2>1. bp \in Nat /\ bp % 8 = 0 /\ S[bp] \in Nat /\ S[bp] % 8 = 0
    BY <1>1
  <2>2. PICK q \in Nat : bp = 8 * q
    BY <2>1, Eights
  <2>3. PICK r \in Nat : c = 8 * r
    BY Eights
  <2>4. PICK t \in Nat : S[bp] = 8 * t
    BY <2>1, Eights
  <2> QED  BY <2>1, <2>2, <2>3, <2>4
<1> HIDE DEF S2
<1>7. ASSUME NEW b \in B2 PROVE Tile(B2, S2, top, b)
  <2>1. CASE b = bp
    <3>1. S2[b] = c - bp /\ bp \in Nat /\ bp % 8 = 0 /\ bp >= 8 /\ S[bp] \in Nat
          /\ bp + S[bp] <= top
      BY <1>1, <1>5, <2>1
    <3>2. c <= top
      BY <1>3, <3>1
    <3> QED  BY <1>6, <2>1, <3>1, <3>2 DEF Tile
  <2>2. CASE b = c
    <3>1. S2[b] = bp + S[bp] - c /\ c >= 8
      BY <1>1, <1>4, <1>5, <2>2
    <3>2. c + S2[b] = bp + S[bp] /\ bp + S[bp] \in B \cup {top} /\ bp + S[bp] <= top
      BY <1>1, <1>6, <3>1
    <3> QED  BY <1>6, <2>2, <3>1, <3>2 DEF Tile
  <2>3. CASE b # bp /\ b # c
    <3>1. S2[b] = S[b] /\ b \in B
      BY <1>5, <2>3
    <3> QED  BY <1>1, <3>1 DEF Tile
  <2> QED  BY <2>1, <2>2, <2>3
<1>8. ASSUME NEW b \in B2, NEW d \in B2, b < d PROVE b + S2[b] <= d
  <2>1. b \in Nat /\ d \in Nat /\ bp \in Nat /\ S[bp] \in Nat /\ S[bp] >= 16
    BY <1>1
  <2>2. CASE d = c
    <3>1. b \in B /\ (b < bp => b + S[b] <= bp) /\ (bp < b => bp + S[bp] <= b)
      BY <1>2, <1>8, <2>2, <2>1
    <3>2. b <= bp /\ (b # bp => S2[b] = S[b])
      BY <1>4, <1>5, <1>8, <2>1, <2>2, <3>1
    <3>3. S[b] \in Nat
      BY <1>1, <3>1
    <3> QED  BY <1>5, <1>6, <2>1, <2>2, <3>1, <3>2, <3>3
  <2>3. CASE d # c /\ b = c
    <3>1. d \in B /\ bp < d
      BY <1>8, <2>1, <2>3
    <3>2. bp + S[bp] <= d
      BY <1>2, <3>1
    <3> QED  BY <1>4, <1>5, <1>6, <2>3, <3>2
  <2>4. CASE d # c /\ b = bp
    <3>1. d \in B /\ bp + S[bp] <= d
      BY <1>2, <1>8, <2>4
    <3> QED  BY <1>5, <1>6, <2>1, <2>4, <3>1
  <2>5. CASE d # c /\ b # c /\ b # bp
    <3>1. d \in B /\ b \in B /\ b + S[b] <= d
      BY <1>2, <1>8, <2>5
    <3> QED  BY <1>5, <2>5, <3>1
  <2> QED  BY <2>2, <2>3, <2>4, <2>5
<1>9. ASSUME NEW d \in (B2 \cup {top}) \ {8} PROVE \E b \in B2 : b + S2[b] = d
  <2>1. CASE d = c
    BY <1>5, <1>6, <2>1
  <2>2. CASE d # c
    <3>1. PICK b \in B : b + S[b] = d
      BY <1>3, <2>2
    <3>2. CASE b = bp
      <4>1. S2[c] = bp + S[bp] - c
        BY <1>4, <1>5
      <4> QED  BY <1>6, <3>1, <3>2, <4>1
    <3>3. CASE b # bp
      BY <1>4, <1>5, <3>1, <3>3
    <3> QED  BY <3>2, <3>3
  <2> QED  BY <2>1, <2>2
<1>10. 8 \in B2 /\ S2[8] = 16
  BY <1>3, <1>4, <1>5
<1>11. Layout(B2, S2, top)
  BY <1>3, <1>7, <1>8, <1>9, <1>10 DEF Layout
<1> QED  BY <1>4, <1>11 DEF S2

\* A block of n bytes behind the old end.
GrownS(B, S, top, n) == [b \in B \cup {top} |-> IF b = top THEN n ELSE S[b]]

LEMMA LayoutGrow ==
    ASSUME NEW B, NEW S, NEW top, Layout(B, S, top),
           NEW n \in Nat, n % 8 = 0, n >= 16, top + n <= MAX_HEAP
    PROVE  Layout(B \cup {top}, GrownS(B, S, top, n), top + n) /\ top \notin B
<1> DEFINE B2 == B \cup {top}
           S2 == GrownS(B, S, top, n)
<1>1. \A b \in B : /\ b \in Nat /\ b % 8 = 0 /\ b >= 8 /\ S[b] \in Nat /\ S[b] % 8 = 0
                   /\ S[b] >= 16 /\ b + S[b] \in B \cup {top} /\ b + S[b] <= top
  BY DEF Layout, Tile
<1>2. \A b, d \in B : b < d => b + S[b] <= d
  BY DEF Layout
<1>3. /\ top \in Nat /\ top % 8 = 0 /\ 8 \in B /\ S[8] = 16
      /\ \A d \in (B \cup {top}) \ {8} : \E b \in B : b + S[b] = d
  BY DEF Layout
<1>4. top \notin B /\ top >= 24
  BY LayoutWords
<1>5. \A b \in B2 : S2[b] = IF b = top THEN n ELSE S[b]
  BY DEF GrownS
<1> HIDE DEF S2
<1>6. (top + n) % 8 = 0 /\ top + n \in Nat
  <2>1. PICK q \in Nat : top = 8 * q
    BY <1>3, Eights
  <2>2. PICK r \in Nat : n = 8 * r
    BY Eights
  <2> QED  BY <2>1, <2>2
<1>7. ASSUME NEW b \in B2 PROVE Tile(B2, S2, top + n, b)
  <2>1. CASE b = top
    BY <1>3, <1>4, <1>5, <1>6, <2>1 DEF Tile
  <2>2. CASE b # top
    <3>1. b \in B /\ S2[b] = S[b]
      BY <1>5, <2>2
    <3>2. b + S[b] \in B2 /\ b + S[b] <= top + n
      BY <1>1, <1>3, <3>1
    <3> QED  BY <1>1, <3>1, <3>2 DEF Tile
  <2> QED  BY <2>1, <2>2
<1>8. ASSUME NEW b \in B2, NEW d \in B2, b < d PROVE b + S2[b] <= d
  <2>1. b # top
    <3>1. CASE d = top
      BY <1>3, <1>8, <3>1
    <3>2. CASE d # top
      <4>1. d \in B /\ S[d] \in Nat /\ d + S[d] <= top /\ d \in Nat
        BY <1>1, <3>2
      <4> QED  BY <1>3, <1>8, <4>1
    <3> QED  BY <3>1, <3>2
  <2>2. b \in B /\ S2[b] = S[b] /\ b + S[b] <= top
    BY <1>1, <1>5, <2>1
  <2> QED  BY <1>2, <1>8, <2>2
<1>9. ASSUME NEW d \in (B2 \cup {top + n}) \ {8} PROVE \E b \in B2 : b + S2[b] = d
  <2>1. CASE d = top + n
    BY <1>5, <2>1
  <2>2. CASE d # top + n
    <3>1. PICK b \in B : b + S[b] = d
      BY <1>3, <2>2
    <3> QED  BY <1>4, <1>5, <3>1
  <2> QED  BY <2>1, <2>2
<1>10. 8 \in B2 /\ S2[8] = 16
  BY <1>3, <1>4, <1>5
<1>11. Layout(B2, S2, top + n)
  BY <1>6, <1>7, <1>8, <1>9, <1>10 DEF Layout
<1> QED  BY <1>4, <1>11 DEF S2

-----------------------------------------------------------------------------
(* Writing tags. *)

\* g is h with the value w in the words a and c.
Wrote(g, h, a, c, w) ==
    /\ g \in Heaps /\ g.brk = h.brk /\ g.root = h.root
    /\ GET(g, a) = w /\ GET(g, c) = w
    /\ \A x : x # a /\ x # c => GET(g, x) = GET(h, x)

LEMMA TagIs ==
    ASSUME NEW h \in Heaps, NEW bp, NEW s, NEW alloc, NEW w \in Int, w = s + alloc,
           NEW a \in Words, a = bp - 4, NEW c \in Words, c = bp + s - 8
    PROVE  Wrote(Tag(h, bp, s, alloc), h, a, c, w)
<1> DEFINE g1 == PUT(h, a, w)
           g == PUT(g1, c, w)
<1>1. Tag(h, bp, s, alloc) = g
  BY DEF Tag, PACK, WSIZE, DSIZE
<1>2. /\ g1 \in Heaps /\ g1.brk = h.brk /\ g1.root = h.root /\ GET(g1, a) = w
      /\ \A x : x # a => GET(g1, x) = GET(h, x)
  BY PutIs
<1> HIDE DEF g1
<1>3. /\ g \in Heaps /\ g.brk = g1.brk /\ g.root = g1.root /\ GET(g, c) = w
      /\ \A x : x # c => GET(g, x) = GET(g1, x)
  BY <1>2, PutIs
<1> HIDE DEF g
<1>4. GET(g, a) = w
  BY <1>2, <1>3
<1>5. Wrote(g, h, a, c, w)
  BY <1>2, <1>3, <1>4 DEF Wrote
<1> QED  BY <1>1, <1>5

\* The list after a step that writes tags only.
LEMMA ListKept ==
    ASSUME NEW B, NEW S, NEW top, Layout(B, S, top), NEW F \in SUBSET (B \ {8}),
           NEW h, List(h, F), NEW g, g.root = h.root,
           NEW W, \A x : x \notin W => GET(g, x) = GET(h, x),
           \A w \in W : NoLink(w, F)
    PROVE  List(g, F)
<1>1. \A f \in F \cup {PROLOGUE} : f \notin W /\ f + WSIZE \notin W
  BY DEF NoLink
<1> QED  BY <1>1, ListFrame

\* The blocks from lo up to hi.
Within(B, lo, hi) == {b \in B : lo <= b /\ b < hi}

\* Nothing of the list lies there.
Clear(F, lo, hi) == \A f \in F : f < lo \/ hi <= f

MergedE(B, E, lo, hi, alloc) ==
    IF alloc = 0 THEN (E \cap MergedB(B, lo, hi)) \cup {lo}
    ELSE (E \cap MergedB(B, lo, hi)) \ {lo}

\* What becomes of them.
MergeResult(g, h, B, S, E, F, lo, hi, alloc) ==
    /\ Shape(g, MergedB(B, lo, hi), MergedS(B, S, lo, hi), MergedE(B, E, lo, hi, alloc), F)
    /\ g.brk = h.brk
    /\ Untouched(g, h, B, S, E \cup Within(B, lo, hi))

LEMMA MergeShape ==
    ASSUME NEW h, NEW B, NEW S, NEW E, NEW F, Shape(h, B, S, E, F),
           NEW lo \in B, lo # 8, NEW hi \in B \cup {h.brk}, lo < hi, NEW alloc \in {0, 1},
           Clear(F, lo, hi)
    PROVE  MergeResult(Tag(h, lo, hi - lo, alloc), h, B, S, E, F, lo, hi, alloc)
<1> DEFINE g == Tag(h, lo, hi - lo, alloc)
           B2 == MergedB(B, lo, hi)
           S2 == MergedS(B, S, lo, hi)
           E2 == MergedE(B, E, lo, hi, alloc)
           top == h.brk
<1>1. h \in Heaps /\ Layout(B, S, top) /\ Tagged(h, B, S, E) /\ List(h, F) /\ F \subseteq E
  BY DEF Shape
<1>2. Layout(B2, S2, top)
  BY <1>1, LayoutMerge
<1>3. \A b \in B2 : b \in B /\ (b <= lo \/ hi <= b) /\ S2[b] = IF b = lo THEN hi - lo ELSE S[b]
  BY DEF MergedB, MergedS
<1>4. \A b \in B : b <= lo \/ hi <= b => b \in B2
  BY DEF MergedB
<1>5. /\ lo \in B2 /\ lo \in Nat /\ hi \in Nat
      /\ (lo \in E2 <=> alloc = 0) /\ E2 \ {lo} = (E \cap B2) \ {lo}
  BY <1>1, <1>4 DEF Layout, Tile, MergedE
<1> HIDE DEF B2, S2, E2
<1>6. /\ g \in Heaps /\ g.brk = top /\ g.root = h.root
      /\ GET(g, lo - 4) = (hi - lo) + alloc /\ GET(g, hi - 8) = (hi - lo) + alloc
      /\ \A x : x # lo - 4 /\ x # hi - 8 => GET(g, x) = GET(h, x)
  <2>1. PICK s \in Int : s = hi - lo /\ lo + s - 8 = hi - 8
    BY <1>5
  <2>2. lo - 4 \in Words /\ lo + s - 8 \in Words
    BY <1>2, <1>3, <1>5, <2>1, LayoutWords
  <2>3. PICK a \in Words : a = lo - 4
    BY <2>2
  <2>4. PICK c \in Words : c = lo + s - 8
    BY <2>2
  <2>5. PICK w \in Int : w = s + alloc
    OBVIOUS
  <2>6. Wrote(Tag(h, lo, s, alloc), h, a, c, w)
    BY <1>1, <2>3, <2>4, <2>5, TagIs
  <2> QED  BY <2>1, <2>3, <2>4, <2>5, <2>6 DEF Wrote
<1> HIDE DEF g
<1>14. \A f \in F : f < lo \/ hi <= f
  BY DEF Clear
<1>7. F \subseteq B2 \ {8}
  <2>1. \A f \in F : f \in B \ {8}
    BY <1>1 DEF Tagged
  <2>2. \A f \in F : f \in Nat
    BY <1>1, <2>1 DEF Layout, Tile
  <2> QED  BY <1>4, <1>5, <1>14, <2>1, <2>2
<1>8. List(g, F)
  <2>1. NoLink(lo - 4, F) /\ NoLink(lo + S2[lo] - 8, F)
    BY <1>2, <1>5, <1>7, NoLinks
  <2>2. lo + S2[lo] - 8 = hi - 8
    BY <1>3, <1>5
  <2> DEFINE W == {lo - 4, hi - 8}
  <2>3. \A x : x \notin W => GET(g, x) = GET(h, x)
    BY <1>6
  <2>4. \A w \in W : NoLink(w, F)
    BY <2>1, <2>2
  <2> HIDE DEF W
  <2> QED  BY <1>1, <1>2, <1>6, <1>7, <2>3, <2>4, ListKept
<1>9. \A b \in B : b < lo \/ hi <= b =>
        \A x \in Int : b - 4 <= x /\ x <= b + S[b] - 8 => GET(g, x) = GET(h, x)
  <2> SUFFICES ASSUME NEW b \in B, b < lo \/ hi <= b, NEW x \in Int, b - 4 <= x, x <= b + S[b] - 8
               PROVE  x # lo - 4 /\ x # hi - 8
    BY <1>6
  <2>1. b \in Nat /\ S[b] \in Nat /\ S[b] >= 16 /\ (b < lo => b + S[b] <= lo)
    BY <1>1 DEF Layout, Tile
  <2> QED  BY <1>5, <2>1
<1>10. Tagged(g, B2, S2, E2)
  <2>1. E2 \subseteq B2 \ {8}
    BY <1>1, <1>5 DEF Tagged
  <2>2. ASSUME NEW b \in B2
        PROVE  GET(g, b - 4) = TagOf(S2, E2, b) /\ GET(g, b + S2[b] - 8) = TagOf(S2, E2, b)
    <3>1. CASE b = lo
      <4>1. S2[lo] = hi - lo /\ (lo \in E2 <=> alloc = 0) /\ lo + S2[lo] - 8 = hi - 8
        BY <1>3, <1>5
      <4>2. TagOf(S2, E2, lo) = (hi - lo) + alloc
        BY <4>1 DEF TagOf
      <4> QED  BY <1>6, <3>1, <4>1, <4>2
    <3>2. CASE b # lo
      <4>1. S2[b] = S[b] /\ b \in B /\ (b \in E2 <=> b \in E) /\ (b < lo \/ hi <= b) /\ b \in Nat
            /\ S[b] \in Nat /\ S[b] >= 16
        BY <1>1, <1>3, <1>5, <3>2 DEF Layout, Tile
      <4>2. TagOf(S2, E2, b) = TagOf(S, E, b)
        BY <4>1 DEF TagOf
      <4>3. GET(g, b - 4) = GET(h, b - 4) /\ GET(g, b + S[b] - 8) = GET(h, b + S[b] - 8)
        BY <1>9, <4>1
      <4>4. GET(h, b - 4) = TagOf(S, E, b) /\ GET(h, b + S[b] - 8) = TagOf(S, E, b)
        BY <1>1, <4>1 DEF Tagged
      <4> QED  BY <4>1, <4>2, <4>3, <4>4
    <3> QED  BY <3>1, <3>2
  <2>3. GET(g, top - 4) = 1
    <3>1. hi <= top /\ top \in Nat
      BY <1>1 DEF Layout, Tile
    <3>2. top - 4 # lo - 4 /\ top - 4 # hi - 8
      BY <1>5, <3>1
    <3> QED  BY <1>1, <1>6, <3>2 DEF Tagged
  <2> QED  BY <1>6, <2>1, <2>2, <2>3 DEF Tagged
<1>11. Untouched(g, h, B, S, E \cup Within(B, lo, hi))
  <2> SUFFICES ASSUME NEW b \in B, b < lo \/ hi <= b, NEW x \in b..(b + S[b] - 9)
               PROVE  GET(g, x) = GET(h, x)
    <3>1. \A b \in B : b \in Nat
      BY <1>1 DEF Layout, Tile
    <3> QED  BY <1>5, <3>1 DEF Untouched, Within
  <2>1. b \in Nat /\ S[b] \in Nat
    BY <1>1 DEF Layout, Tile
  <2> QED  BY <1>9, <2>1
<1>12. F \subseteq E2
  <2>1. lo \notin F
    BY <1>5, <1>7, <1>14
  <2> QED  BY <1>1, <1>5, <1>7, <2>1
<1>13. Shape(g, B2, S2, E2, F)
  BY <1>2, <1>6, <1>8, <1>10, <1>12 DEF Shape
<1> QED  BY <1>6, <1>11, <1>13 DEF g, B2, S2, E2, MergeResult

SplitResult(g, h, B, S, E, F, bp, c) ==
    /\ Shape(g, B \cup {c}, SplitS(B, S, bp, c), (E \ {bp}) \cup {c}, F)
    /\ g.brk = h.brk /\ c \notin B
    /\ Untouched(g, h, B, S, E)

LEMMA SplitShape ==
    ASSUME NEW h, NEW B, NEW S, NEW E, NEW F, Shape(h, B, S, E, F),
           NEW bp \in E, bp \notin F, NEW a \in Nat, a % 8 = 0, a >= 16, S[bp] - a >= 16,
           NEW g, g = Tag(Tag(h, bp, a, 1), bp + a, S[bp] - a, 0)
    PROVE  SplitResult(g, h, B, S, E, F, bp, bp + a)
<1>1. h \in Heaps /\ Layout(B, S, h.brk) /\ Tagged(h, B, S, E) /\ List(h, F) /\ F \subseteq E
      /\ bp \in B /\ bp # 8
  BY DEF Shape, Tagged
<1>2. \A b \in B : b \in Nat /\ S[b] \in Nat /\ S[b] >= 16 /\ b % 8 = 0
  BY <1>1 DEF Layout, Tile
<1>3. PICK c \in Nat : c = bp + a /\ c % 8 = 0 /\ c - bp >= 16 /\ bp + S[bp] - c >= 16
                       /\ c - bp = a /\ bp + S[bp] - c = S[bp] - a
  <2>1. PICK q \in Nat : bp = 8 * q
    BY <1>1, <1>2, Eights
  <2>2. PICK r \in Nat : a = 8 * r
    BY Eights
  <2> QED  BY <1>1, <1>2, <2>1, <2>2
<1> DEFINE B2 == B \cup {c}
           S2 == SplitS(B, S, bp, c)
           E2 == (E \ {bp}) \cup {c}
<1>4. Layout(B2, S2, h.brk) /\ c \notin B
  BY <1>1, <1>3, LayoutSplit
<1>5. \A b \in B2 : S2[b] = IF b = bp THEN c - bp ELSE IF b = c THEN bp + S[bp] - c ELSE S[b]
  BY DEF SplitS
<1> HIDE DEF S2
<1> DEFINE g1 == Tag(h, bp, a, 1)
<1>6. /\ g1 \in Heaps /\ g1.brk = h.brk /\ g1.root = h.root
      /\ GET(g1, bp - 4) = a + 1 /\ GET(g1, c - 8) = a + 1
      /\ \A x : x # bp - 4 /\ x # c - 8 => GET(g1, x) = GET(h, x)
  <2>1. bp - 4 \in Words /\ bp + S2[bp] - 8 \in Words
    BY <1>1, <1>4, LayoutWords
  <2>2. bp + S2[bp] - 8 = bp + a - 8 /\ bp + a - 8 = c - 8
    BY <1>1, <1>2, <1>3, <1>5
  <2>3. PICK x \in Words : x = bp - 4
    BY <2>1
  <2>4. PICK y \in Words : y = bp + a - 8
    BY <2>1, <2>2
  <2>5. PICK w \in Int : w = a + 1
    OBVIOUS
  <2>6. Wrote(g1, h, x, y, w)
    BY <1>1, <2>3, <2>4, <2>5, TagIs
  <2> QED  BY <2>2, <2>3, <2>4, <2>5, <2>6 DEF Wrote
<1>7. g = Tag(g1, c, S[bp] - a, 0)
  BY <1>3
<1> HIDE DEF g1
<1>8. /\ g \in Heaps /\ g.brk = h.brk /\ g.root = h.root
      /\ GET(g, c - 4) = S[bp] - a /\ GET(g, bp + S[bp] - 8) = S[bp] - a
      /\ \A x : x # c - 4 /\ x # bp + S[bp] - 8 => GET(g, x) = GET(g1, x)
  <2>1. c - 4 \in Words /\ c + S2[c] - 8 \in Words
    BY <1>4, LayoutWords
  <2>2. c + S2[c] - 8 = bp + S[bp] - 8 /\ c + (S[bp] - a) - 8 = bp + S[bp] - 8
        /\ S[bp] - a \in Int /\ (S[bp] - a) + 0 = S[bp] - a /\ c # bp
    BY <1>1, <1>2, <1>3, <1>4, <1>5
  <2>3. PICK x \in Words : x = c - 4
    BY <2>1
  <2>4. PICK y \in Words : y = c + (S[bp] - a) - 8
    BY <2>1, <2>2
  <2>5. PICK w \in Int : w = (S[bp] - a) + 0
    BY <2>2
  <2>6. Wrote(g, g1, x, y, w)
    BY <1>6, <1>7, <2>3, <2>4, <2>5, TagIs
  <2> QED  BY <1>6, <2>2, <2>3, <2>4, <2>5, <2>6 DEF Wrote
<1> DEFINE W == {bp - 4, c - 8, c - 4, bp + S[bp] - 8}
<1>9. \A x : x \notin W => GET(g, x) = GET(h, x)
  BY <1>6, <1>8
<1>10. F \in SUBSET (B2 \ {8})
  BY <1>1 DEF Tagged
<1>11. List(g, F)
  <2>1. bp + S2[bp] - 8 = c - 8 /\ c + S2[c] - 8 = bp + S[bp] - 8
    BY <1>1, <1>2, <1>3, <1>4, <1>5
  <2>2. NoLink(bp - 4, F) /\ NoLink(bp + S2[bp] - 8, F) /\ NoLink(c - 4, F)
        /\ NoLink(c + S2[c] - 8, F)
    BY <1>1, <1>4, <1>10, NoLinks
  <2>3. \A w \in W : NoLink(w, F)
    BY <2>1, <2>2
  <2> HIDE DEF W
  <2> QED  BY <1>1, <1>4, <1>8, <1>9, <1>10, <2>3, ListKept
<1>12. \A b \in B : b # bp =>
         \A x \in Int : b - 4 <= x /\ x <= b + S[b] - 8 => GET(g, x) = GET(h, x)
  <2> SUFFICES ASSUME NEW b \in B, b # bp, NEW x \in Int, b - 4 <= x, x <= b + S[b] - 8
               PROVE  x \notin W
    BY <1>9
  <2>1. (b < bp => b + S[b] <= bp) /\ (bp < b => bp + S[bp] <= b)
    BY <1>1 DEF Layout
  <2>2. b \in Nat /\ S[b] \in Nat /\ bp \in Nat /\ S[bp] \in Nat
    BY <1>1, <1>2
  <2> QED  BY <1>3, <2>1, <2>2
<1>13. Tagged(g, B2, S2, E2)
  <2>1. E2 \subseteq B2 \ {8}
    <3>1. c # 8
      BY <1>1, <1>4 DEF Layout
    <3> QED  BY <1>1, <3>1 DEF Tagged
  <2>2. ASSUME NEW b \in B2
        PROVE  GET(g, b - 4) = TagOf(S2, E2, b) /\ GET(g, b + S2[b] - 8) = TagOf(S2, E2, b)
    <3>1. CASE b = bp
      <4>1. S2[bp] = a /\ bp \notin E2 /\ bp + S2[bp] - 8 = c - 8
        BY <1>1, <1>2, <1>3, <1>4, <1>5
      <4>3. TagOf(S2, E2, bp) = a + 1
        BY <4>1 DEF TagOf
      <4>2. bp - 4 # c - 4 /\ bp - 4 # bp + S[bp] - 8 /\ c - 8 # c - 4 /\ c - 8 # bp + S[bp] - 8
        BY <1>1, <1>2, <1>3
      <4> QED  BY <1>6, <1>8, <3>1, <4>1, <4>2, <4>3
    <3>2. CASE b = c
      <4>1. S2[c] = S[bp] - a /\ c \in E2 /\ c + S2[c] - 8 = bp + S[bp] - 8 /\ S[bp] - a \in Int
        BY <1>1, <1>2, <1>3, <1>4, <1>5
      <4>2. TagOf(S2, E2, c) = S[bp] - a
        BY <4>1 DEF TagOf
      <4> QED  BY <1>8, <3>2, <4>1, <4>2
    <3>3. CASE b # bp /\ b # c
      <4>1. S2[b] = S[b] /\ b \in B /\ (b \in E2 <=> b \in E) /\ b \in Nat
            /\ S[b] \in Nat /\ S[b] >= 16
        BY <1>2, <1>5, <3>3
      <4>2. TagOf(S2, E2, b) = TagOf(S, E, b)
        BY <4>1 DEF TagOf
      <4>3. GET(g, b - 4) = GET(h, b - 4) /\ GET(g, b + S[b] - 8) = GET(h, b + S[b] - 8)
        BY <1>12, <3>3, <4>1
      <4>4. GET(h, b - 4) = TagOf(S, E, b) /\ GET(h, b + S[b] - 8) = TagOf(S, E, b)
        BY <1>1, <4>1 DEF Tagged
      <4> QED  BY <4>1, <4>2, <4>3, <4>4
    <3> QED  BY <3>1, <3>2, <3>3
  <2>3. GET(g, h.brk - 4) = 1
    <3>1. bp + S[bp] <= h.brk /\ h.brk \in Nat
      BY <1>1 DEF Layout, Tile
    <3>2. h.brk - 4 \notin W
      BY <1>1, <1>2, <1>3, <3>1
    <3> QED  BY <1>1, <1>9, <3>2 DEF Tagged
  <2> QED  BY <1>8, <2>1, <2>2, <2>3 DEF Tagged
<1>14. Untouched(g, h, B, S, E)
  <2> SUFFICES ASSUME NEW b \in B, b # bp, NEW x \in b..(b + S[b] - 9)
               PROVE  GET(g, x) = GET(h, x)
    BY DEF Untouched
  <2> QED  BY <1>2, <1>12
<1>15. F \subseteq E2
  BY <1>1
<1>16. Shape(g, B2, S2, E2, F)
  BY <1>4, <1>8, <1>11, <1>13, <1>15 DEF Shape
<1> QED  BY <1>3, <1>4, <1>8, <1>14, <1>16 DEF S2, SplitResult

-----------------------------------------------------------------------------
(* The steps of coalesce, place and extend_heap. *)

LEMMA BrkIs ==
    ASSUME NEW h \in Heaps, NEW n \in Nat
    PROVE  LET g == [h EXCEPT !.brk = @ + n]
           IN /\ g \in Heaps /\ g.brk = h.brk + n /\ g.root = h.root
              /\ \A x : GET(g, x) = GET(h, x)
  BY DEF Heaps, GET

\* The blocks in use are the same, with the same sizes.
Same(B, S, E, B2, S2, E2) == B2 \ E2 = B \ E /\ \A b \in B \ E : S2[b] = S[b]

\* The blocks in use are still in use.
Keeps(B, S, E, B2, S2, E2) == B \ E \subseteq B2 \ E2 /\ \A b \in B \ E : S2[b] = S[b]

LEMMA UntouchedTrans ==
    ASSUME NEW f, NEW g, NEW h, NEW B, NEW S, NEW E, NEW B2, NEW S2, NEW E2,
           Untouched(g, h, B, S, E), Untouched(f, g, B2, S2, E2), Keeps(B, S, E, B2, S2, E2)
    PROVE  Untouched(f, h, B, S, E)
<1> SUFFICES ASSUME NEW b \in B \ (E \cup {8}), NEW x \in b..(b + S[b] - 9)
             PROVE  GET(f, x) = GET(h, x)
  BY DEF Untouched
<1>1. b \in B2 \ (E2 \cup {8}) /\ S2[b] = S[b]
  BY DEF Keeps
<1> QED  BY <1>1 DEF Untouched

LEMMA UntouchedMore ==
    ASSUME NEW g, NEW h, NEW B, NEW S, NEW E, NEW X, Untouched(g, h, B, S, E \cup X),
           \A b \in B : b \in X => b \in E
    PROVE  Untouched(g, h, B, S, E)
  BY DEF Untouched

LEMMA KeepsItself ==
    ASSUME NEW B, NEW S, NEW E
    PROVE  Keeps(B, S, E, B, S, E) /\ Same(B, S, E, B, S, E)
  BY DEF Keeps, Same

LEMMA SameKeeps ==
    ASSUME NEW B, NEW S, NEW E, NEW B2, NEW S2, NEW E2, Same(B, S, E, B2, S2, E2)
    PROVE  Keeps(B, S, E, B2, S2, E2)
  BY DEF Keeps, Same

\* A step that writes links of free blocks only.
LEMMA LinkStep ==
    ASSUME NEW h, NEW B, NEW S, NEW E, NEW F, Shape(h, B, S, E, F),
           NEW g \in Heaps, g.brk = h.brk, NEW F2 \in SUBSET E, List(g, F2),
           \A x : NoLink(x, E) => GET(g, x) = GET(h, x)
    PROVE  Shape(g, B, S, E, F2) /\ Untouched(g, h, B, S, E)
<1>1. Layout(B, S, h.brk) /\ Tagged(h, B, S, E) /\ E \in SUBSET (B \ {8})
  BY DEF Shape, Tagged
<1>2. \A b \in B : NoLink(b - 4, E) /\ NoLink(b + S[b] - 8, E) /\ NoLink(h.brk - 4, E)
  BY <1>1, NoLinks
<1>3. NoLink(h.brk - 4, E)
  BY <1>1, <1>2 DEF Layout
<1>4. Tagged(g, B, S, E)
  BY <1>1, <1>2, <1>3 DEF Tagged
<1>5. Untouched(g, h, B, S, E)
  <2> SUFFICES ASSUME NEW b \in B \ (E \cup {8}), NEW x \in b..(b + S[b] - 9)
               PROVE  GET(g, x) = GET(h, x)
    BY DEF Untouched
  <2> QED  BY <1>1, NoLinks
<1> QED  BY <1>1, <1>4, <1>5 DEF Shape

LEMMA NoLinkMono ==
    ASSUME NEW F, NEW E, F \subseteq E, NEW x, NoLink(x, E)
    PROVE  NoLink(x, F)
  BY DEF NoLink

LEMMA RemoveShape ==
    ASSUME NEW h, NEW B, NEW S, NEW E, NEW F, Shape(h, B, S, E, F), NEW bp \in F,
           NEW g, g = remove_free_root_e(h, bp)
    PROVE  /\ Shape(g, B, S, E, F \ {bp}) /\ g.brk = h.brk /\ Untouched(g, h, B, S, E)
<1>1. h \in Heaps /\ Layout(B, S, h.brk) /\ List(h, F) /\ F \in SUBSET B /\ F \subseteq E
  BY DEF Shape, Tagged
<1>2. Nodes(F)
  BY <1>1, FreeNodes
<1>3. /\ g \in Heaps /\ g.brk = h.brk /\ List(g, F \ {bp})
      /\ \A x : NoLink(x, F \ {bp}) => GET(g, x) = GET(h, x)
  BY <1>1, <1>2, ListRemove
<1>4. \A x : NoLink(x, E) => GET(g, x) = GET(h, x)
  <2>1. F \ {bp} \subseteq E
    BY <1>1
  <2> QED  BY <1>3, <2>1, NoLinkMono
<1>5. F \ {bp} \in SUBSET E
  BY <1>1
<1> QED  BY <1>3, <1>4, <1>5, LinkStep

LEMMA InsertShape ==
    ASSUME NEW h, NEW B, NEW S, NEW E, NEW F, Shape(h, B, S, E, F), NEW bp \in E, bp \notin F,
           NEW g, g = insert_free_root_e(h, bp)
    PROVE  /\ Shape(g, B, S, E, F \cup {bp}) /\ g.brk = h.brk /\ Untouched(g, h, B, S, E)
<1>1. /\ h \in Heaps /\ Layout(B, S, h.brk) /\ List(h, F) /\ F \in SUBSET B /\ F \subseteq E
      /\ bp \in B /\ bp # PROLOGUE
  BY Numbers DEF Shape, Tagged
<1>2. Nodes(F) /\ Node(bp)
  BY <1>1, FreeNodes, LayoutWords
<1>3. /\ g \in Heaps /\ g.brk = h.brk /\ List(g, F \cup {bp})
      /\ \A x : NoLink(x, F \cup {bp}) => GET(g, x) = GET(h, x)
  <2> DEFINE d == insert_free_root_e(h, bp)
  <2>1. /\ d \in Heaps /\ d.brk = h.brk /\ List(d, F \cup {bp})
        /\ \A x : NoLink(x, F \cup {bp}) => GET(d, x) = GET(h, x)
    BY <1>1, <1>2, ListInsert
  <2>2. d = g
    OBVIOUS
  <2> HIDE DEF d
  <2> QED  BY <2>1, <2>2
<1>4. \A x : NoLink(x, E) => GET(g, x) = GET(h, x)
  <2>1. F \cup {bp} \subseteq E
    BY <1>1
  <2> QED  BY <1>3, <2>1, NoLinkMono
<1>5. F \cup {bp} \in SUBSET E
  BY <1>1
<1> QED  BY <1>3, <1>4, <1>5, LinkStep

GrowResult(g, h, B, S, E, F, n) ==
    /\ Shape(g, B \cup {h.brk}, GrownS(B, S, h.brk, n), E \cup {h.brk}, F)
    /\ g.brk = h.brk + n /\ h.brk \notin B /\ Untouched(g, h, B, S, E)

LEMMA GrowShape ==
    ASSUME NEW h, NEW B, NEW S, NEW E, NEW F, Shape(h, B, S, E, F),
           NEW n \in Nat, n % 8 = 0, n >= 16, h.brk + n <= MAX_HEAP,
           NEW h1, h1 = [h EXCEPT !.brk = @ + n],
           NEW g, g = PUT(Tag(h1, h.brk, n, 0), h.brk + n - WSIZE, PACK(0, 1))
    PROVE  GrowResult(g, h, B, S, E, F, n)
<1>1. h \in Heaps /\ Layout(B, S, h.brk) /\ Tagged(h, B, S, E) /\ List(h, F) /\ F \subseteq E
  BY DEF Shape
<1> DEFINE top == h.brk
           B2 == B \cup {top}
           S2 == GrownS(B, S, top, n)
           E2 == E \cup {top}
<1>2. Layout(B2, S2, top + n) /\ top \notin B /\ top \in Nat /\ top >= 24
  <2>1. PICK t \in Nat : t = top /\ Layout(B, S, t) /\ t + n <= MAX_HEAP
    BY <1>1 DEF Layout
  <2>2. Layout(B \cup {t}, GrownS(B, S, t, n), t + n) /\ t \notin B
    BY <2>1, LayoutGrow
  <2>3. t >= 24
    BY <2>1, LayoutWords
  <2> QED  BY <2>1, <2>2, <2>3
<1>3. \A b \in B2 : S2[b] = IF b = top THEN n ELSE S[b]
  BY DEF GrownS
<1> HIDE DEF S2
<1>4. h1 \in Heaps /\ h1.brk = top + n /\ h1.root = h.root /\ \A x : GET(h1, x) = GET(h, x)
  BY <1>1, BrkIs
<1>5. top - 4 \in Words /\ top + n - 8 \in Words /\ top + n - 4 \in Words
  <2>1. top \in B2 /\ S2[top] = n
    BY <1>3
  <2> QED  BY <1>2, <2>1, LayoutWords
<1> DEFINE g1 == Tag(h1, top, n, 0)
<1>6. /\ g1 \in Heaps /\ g1.brk = top + n /\ g1.root = h.root
      /\ GET(g1, top - 4) = n /\ GET(g1, top + n - 8) = n
      /\ \A x : x # top - 4 /\ x # top + n - 8 => GET(g1, x) = GET(h, x)
  <2>1. PICK x \in Words : x = top - 4
    BY <1>5
  <2>2. PICK y \in Words : y = top + n - 8
    BY <1>5
  <2>3. PICK w \in Int : w = n + 0
    OBVIOUS
  <2>4. Wrote(g1, h1, x, y, w)
    BY <1>4, <2>1, <2>2, <2>3, TagIs
  <2> HIDE DEF g1
  <2>5. /\ g1 \in Heaps /\ g1.brk = h1.brk /\ g1.root = h1.root
        /\ GET(g1, x) = w /\ GET(g1, y) = w
        /\ \A z : z # x /\ z # y => GET(g1, z) = GET(h1, z)
    BY <2>4 DEF Wrote
  <2>6. w = n
    BY <2>3
  <2> QED  BY <1>4, <2>1, <2>2, <2>5, <2>6
<1>7. g = PUT(g1, top + n - 4, 1)
  BY DEF WSIZE, PACK
<1> HIDE DEF g1
<1>8. /\ g \in Heaps /\ g.brk = top + n /\ g.root = h.root /\ GET(g, top + n - 4) = 1
      /\ \A x : x # top + n - 4 => GET(g, x) = GET(g1, x)
  <2>1. PICK x \in Words : x = top + n - 4
    BY <1>5
  <2>2. g = PUT(g1, x, 1) /\ 1 \in Int
    BY <1>7, <2>1
  <2> QED  BY <1>6, <2>1, <2>2, PutIs
<1> DEFINE W == {top - 4, top + n - 8, top + n - 4}
<1>9. \A x : x \notin W => GET(g, x) = GET(h, x)
  BY <1>6, <1>8
<1>10. F \in SUBSET (B \ {8}) /\ F \in SUBSET (B2 \ {8})
  BY <1>1 DEF Tagged
<1>11. List(g, F)
  <2>1. top \in B2 /\ S2[top] = n
    BY <1>3
  <2>4. PICK t \in Nat : t = top + n /\ Layout(B2, S2, t)
    BY <1>2
  <2>5. NoLink(top - 4, F) /\ NoLink(top + S2[top] - 8, F) /\ NoLink(t - 4, F)
    BY <1>10, <2>1, <2>4, NoLinks
  <2>2. NoLink(top - 4, F) /\ NoLink(top + n - 8, F) /\ NoLink(top + n - 4, F)
    BY <1>2, <2>1, <2>4, <2>5
  <2>3. \A w \in W : NoLink(w, F)
    BY <2>2
  <2> HIDE DEF W
  <2> QED  BY <1>1, <1>8, <1>9, <1>10, <2>3, ListKept
<1>12. \A b \in B : \A x \in Int : x <= b + S[b] - 8 => GET(g, x) = GET(h, x)
  <2> SUFFICES ASSUME NEW b \in B, NEW x \in Int, x <= b + S[b] - 8
               PROVE  x \notin W
    BY <1>9
  <2>1. b \in Nat /\ S[b] \in Nat /\ b + S[b] <= top
    BY <1>1 DEF Layout, Tile
  <2> QED  BY <1>2, <2>1
<1>13. Tagged(g, B2, S2, E2)
  <2>1. E2 \subseteq B2 \ {8}
    BY <1>1, <1>2 DEF Tagged
  <2>2. ASSUME NEW b \in B2
        PROVE  GET(g, b - 4) = TagOf(S2, E2, b) /\ GET(g, b + S2[b] - 8) = TagOf(S2, E2, b)
    <3>1. CASE b = top
      <4>1. S2[top] = n /\ TagOf(S2, E2, top) = n
        BY <1>3 DEF TagOf
      <4>2. top - 4 # top + n - 4 /\ top + n - 8 # top + n - 4
        BY <1>2
      <4> QED  BY <1>6, <1>8, <3>1, <4>1, <4>2
    <3>2. CASE b # top
      <4>1. S2[b] = S[b] /\ b \in B /\ (b \in E2 <=> b \in E) /\ b \in Nat
            /\ S[b] \in Nat /\ S[b] >= 16
        BY <1>1, <1>3, <3>2 DEF Layout, Tile
      <4>2. TagOf(S2, E2, b) = TagOf(S, E, b)
        BY <4>1 DEF TagOf
      <4>3. GET(g, b - 4) = GET(h, b - 4) /\ GET(g, b + S[b] - 8) = GET(h, b + S[b] - 8)
        BY <1>12, <4>1
      <4>4. GET(h, b - 4) = TagOf(S, E, b) /\ GET(h, b + S[b] - 8) = TagOf(S, E, b)
        BY <1>1, <4>1 DEF Tagged
      <4> QED  BY <4>1, <4>2, <4>3, <4>4
    <3> QED  BY <3>1, <3>2
  <2>3. GET(g, g.brk - 4) = 1
    <3>1. PICK t \in Nat : t = top + n
      BY <1>2
    <3>2. t - 4 = top + n - 4 /\ t = g.brk
      BY <1>2, <1>8, <3>1
    <3> QED  BY <1>8, <3>2
  <2> QED  BY <2>1, <2>2, <2>3 DEF Tagged
<1>14. Untouched(g, h, B, S, E)
  <2> SUFFICES ASSUME NEW b \in B, NEW x \in b..(b + S[b] - 9)
               PROVE  GET(g, x) = GET(h, x)
    BY DEF Untouched
  <2>1. b \in Nat /\ S[b] \in Nat
    BY <1>1 DEF Layout, Tile
  <2> QED  BY <1>12, <2>1
<1>15. F \subseteq E2
  BY <1>1
<1>16. Shape(g, B2, S2, E2, F)
  BY <1>2, <1>8, <1>11, <1>13, <1>15 DEF Shape
<1> QED  BY <1>2, <1>8, <1>14, <1>16 DEF S2, GrowResult

-----------------------------------------------------------------------------
(* coalesce. *)

\* bp is free and not in the list; the other free blocks are apart.
Loose(h, B, S, E, bp) ==
    /\ Shape(h, B, S, E, E \ {bp}) /\ bp \in E
    /\ \A b \in E : b # bp /\ b + S[b] \in E => b + S[b] = bp

\* The blocks of h after a step that joins bp with its neighbours: q begins where
\* bp is now.
Joined(g, q, h, B, S, E, bp) ==
    \E B2, S2, E2 :
        /\ Good(g, B2, S2, E2) /\ Same(B, S, E, B2, S2, E2) /\ Untouched(g, h, B, S, E)
        /\ g.brk = h.brk /\ q \in E2 /\ S2[q] >= S[bp]

\* What the neighbours are.
LEMMA Neighbours ==
    ASSUME NEW h, NEW B, NEW S, NEW E, NEW bp, Loose(h, B, S, E, bp)
    PROVE  \E p \in B : /\ p + S[p] = bp /\ PREV_BLKP(h, bp) = p
                        /\ (AllocOf(GET(h, bp - DSIZE)) = 0 <=> p \in E)
<1>1. Layout(B, S, h.brk) /\ Tagged(h, B, S, E) /\ bp \in B /\ bp # 8
  BY DEF Loose, Shape, Tagged
<1>2. PICK p \in B : p + S[p] = bp
  BY <1>1 DEF Layout
<1> QED  BY <1>1, <1>2, Reads

LEMMA NextOf ==
    ASSUME NEW h, NEW B, NEW S, NEW E, Layout(B, S, h.brk), Tagged(h, B, S, E), NEW b \in B,
           NEW n, n = b + S[b]
    PROVE  /\ NEXT_BLKP(h, b) = n /\ n \in B \cup {h.brk}
           /\ Allocated(h, n) <=> n \notin E
           /\ n \in E => NEXT_BLKP(h, n) = n + S[n] /\ n + S[n] \in B \cup {h.brk}
           /\ h.brk \notin E
<1>1. NEXT_BLKP(h, b) = n /\ n \in B \cup {h.brk}
  BY Reads DEF Layout, Tile
<1>2. h.brk \notin B /\ E \subseteq B
  BY LayoutWords DEF Tagged
<1>3. CASE n \in B
  <2>1. (Allocated(h, n) <=> n \notin E) /\ NEXT_BLKP(h, n) = n + S[n]
    BY <1>3, Reads
  <2>2. n + S[n] \in B \cup {h.brk}
    BY <1>3 DEF Layout, Tile
  <2> QED  BY <1>1, <1>2, <2>1, <2>2
<1>4. CASE n = h.brk
  <2>1. Allocated(h, n)
    BY <1>4, ReadsTop
  <2> QED  BY <1>1, <1>2, <1>4, <2>1
<1> QED  BY <1>1, <1>3, <1>4

\* The step itself, with p before bp and n behind it.
LEMMA JoinStep ==
    ASSUME NEW h, NEW B, NEW S, NEW E, NEW bp, Loose(h, B, S, E, bp),
           NEW p \in B, p + S[p] = bp, NEW n, n = bp + S[bp],
           NEW h1, h1 = IF p \in E THEN remove_free_root_e(h, p) ELSE h,
           NEW h2, h2 = IF n \in E THEN remove_free_root_e(h1, n) ELSE h1,
           NEW lo, lo = IF p \in E THEN p ELSE bp,
           NEW hi, hi = IF n \in E THEN n + S[n] ELSE n
    PROVE  Joined(insert_free_root_e(Tag(h2, lo, hi - lo, 0), lo), lo, h, B, S, E, bp)
<1> DEFINE F1 == IF p \in E THEN (E \ {bp}) \ {p} ELSE E \ {bp}
           F2 == IF n \in E THEN F1 \ {n} ELSE F1
           B2 == MergedB(B, lo, hi)
           S2 == MergedS(B, S, lo, hi)
           E2 == E \cap B2
           top == h.brk
<1>1. /\ Shape(h, B, S, E, E \ {bp}) /\ bp \in E /\ E \subseteq B \ {8}
      /\ Layout(B, S, top) /\ Tagged(h, B, S, E)
      /\ \A b \in E : b # bp /\ b + S[b] \in E => b + S[b] = bp
  BY DEF Loose, Shape, Tagged
<1>2. \A b \in B : /\ b \in Nat /\ S[b] \in Nat /\ S[b] >= 16
                   /\ b + S[b] \in B \cup {top} /\ b + S[b] <= top
  BY <1>1 DEF Layout, Tile
<1>3. \A b, c \in B : b < c => b + S[b] <= c
  BY <1>1 DEF Layout
<1>4. bp \in B /\ p < bp /\ bp < n /\ n \in B \cup {top} /\ n \in Nat /\ top \in Nat /\ top \notin E
  BY <1>1, <1>2, LayoutWords DEF Layout
<1>5. /\ Shape(h1, B, S, E, F1) /\ h1.brk = top /\ Untouched(h1, h, B, S, E)
  <2>1. CASE p \in E
    <3>1. p \in E \ {bp}
      BY <1>2, <1>4, <2>1
    <3> QED  BY <1>1, <2>1, <3>1, RemoveShape
  <2>2. CASE p \notin E
    BY <1>1, <2>2 DEF Untouched
  <2> QED  BY <2>1, <2>2
<1>6. /\ Shape(h2, B, S, E, F2) /\ h2.brk = top /\ Untouched(h2, h1, B, S, E)
  <2>1. CASE n \in E
    <3>1. n \in F1
      BY <1>2, <1>4, <2>1
    <3> HIDE DEF F1
    <3> QED  BY <1>5, <2>1, <3>1, RemoveShape
  <2>2. CASE n \notin E
    BY <1>5, <2>2 DEF Untouched
  <2> QED  BY <2>1, <2>2
<1>7. /\ lo \in E /\ lo \in B /\ lo # 8 /\ lo \in Nat /\ lo <= bp /\ n <= hi /\ hi \in Nat
      /\ hi \in B \cup {top} /\ lo < hi /\ hi - lo >= S[bp] /\ hi \notin E
  <2>1. lo \in E /\ lo \in B /\ lo # 8 /\ lo \in Nat /\ lo <= bp
    BY <1>1, <1>2, <1>4
  <2>2. n \in E => n \in B
    BY <1>1
  <2>3. n <= hi /\ hi \in Nat /\ hi \in B \cup {top}
    BY <1>2, <1>4, <2>2
  <2>4. hi \notin E
    <3>1. CASE n \in E
      <4>1. n # bp /\ n + S[n] # bp
        BY <1>2, <1>4, <2>2, <3>1
      <4> QED  BY <1>1, <3>1, <4>1
    <3> QED  BY <3>1
  <2>5. hi - lo >= S[bp]
    BY <1>2, <1>4, <2>1, <2>3
  <2> QED  BY <1>4, <2>1, <2>3, <2>4, <2>5
<1>8. \A b \in B : lo <= b /\ b < hi => (b = p /\ p \in E) \/ b = bp \/ (b = n /\ n \in E)
  <2> SUFFICES ASSUME NEW b \in B, lo <= b, b < hi, b # bp
               PROVE  (b = p /\ p \in E) \/ (b = n /\ n \in E)
    OBVIOUS
  <2>1. CASE b < bp
    <3>1. p \in E /\ lo = p
      BY <1>2, <1>4, <2>1
    <3>2. ~(p < b)
      BY <1>2, <1>3, <1>4, <2>1
    <3> QED  BY <1>2, <3>1, <3>2
  <2>2. CASE bp < b
    <3>1. n <= b
      BY <1>3, <1>4, <2>2
    <3>2. n \in E /\ n \in B /\ b < n + S[n]
      BY <1>1, <1>2, <1>4, <3>1
    <3>3. ~(n < b)
      BY <1>2, <1>3, <3>2
    <3> QED  BY <1>2, <1>4, <3>1, <3>2, <3>3
  <2> QED  BY <1>2, <1>4, <2>1, <2>2
<1>9. \A f \in F2 : f < lo \/ hi <= f
  <2>1. \A f \in F2 : f \in B /\ f # bp /\ ~(f = p /\ p \in E) /\ ~(f = n /\ n \in E)
    BY <1>1
  <2> HIDE DEF F2
  <2> SUFFICES ASSUME NEW f \in F2 PROVE f < lo \/ hi <= f
    OBVIOUS
  <2>2. f \in B /\ f \in Nat /\ lo \in Nat /\ hi \in Nat /\ ~(lo <= f /\ f < hi)
    BY <1>2, <1>7, <1>8, <2>1
  <2> QED  BY <2>2
<1>10. E2 = (E \cap B2) \cup {lo} /\ lo \in E2
  BY <1>7 DEF MergedB
<1>11. F2 \cup {lo} = E2 /\ lo \notin F2
  <2>1. F2 \subseteq E /\ F2 \subseteq B
    BY <1>1
  <2>2. lo \notin F2
    BY <1>7, <1>9, <2>1
  <2>3. \A f \in F2 : f \in E2
    <3> HIDE DEF F2
    <3> QED  BY <1>2, <1>7, <1>9, <2>1 DEF MergedB
  <2>4. \A e \in E2 : e # lo => e \in F2
    <3> SUFFICES ASSUME NEW e \in E2, e # lo PROVE e \in F2
      OBVIOUS
    <3>1. e \in E /\ e \in B /\ e \in Nat /\ (e < lo \/ hi <= e)
      BY <1>1, <1>2, <1>7 DEF MergedB
    <3>2. e # bp /\ (p \in E => e # p) /\ (n \in E => e # n)
      BY <1>2, <1>4, <1>7, <3>1
    <3> QED  BY <3>1, <3>2
  <2> HIDE DEF F2, E2
  <2> QED  BY <1>10, <2>2, <2>3, <2>4
<1> DEFINE g3 == Tag(h2, lo, hi - lo, 0)
           X == Within(B, lo, hi)
<1>12. Shape(g3, B2, S2, E2, F2) /\ g3.brk = top /\ Untouched(g3, h2, B, S, E \cup X)
  <2> HIDE DEF F2
  <2>1. hi \in B \cup {h2.brk} /\ 0 \in {0, 1}
    BY <1>6, <1>7
  <2>2. E2 = MergedE(B, E, lo, hi, 0)
    BY <1>10 DEF MergedE
  <2> HIDE DEF E2
  <2>4. Clear(F2, lo, hi)
    BY <1>9 DEF Clear
  <2>3. /\ Shape(g3, B2, S2, MergedE(B, E, lo, hi, 0), F2) /\ g3.brk = h2.brk
        /\ Untouched(g3, h2, B, S, E \cup X)
    <3>1. MergeResult(g3, h2, B, S, E, F2, lo, hi, 0)
      BY <1>6, <1>7, <2>1, <2>4, MergeShape
    <3> QED  BY <3>1 DEF MergeResult
  <2> QED  BY <1>6, <2>2, <2>3
<1>13. Untouched(g3, h2, B, S, E)
  <2>1. \A b \in B : b \in X => b \in E
    BY <1>1, <1>8 DEF Within
  <2> HIDE DEF X, g3
  <2> QED  BY <1>12, <2>1, UntouchedMore
<1>14. \A b \in B2 : b \in B /\ (b <= lo \/ hi <= b) /\ S2[b] = IF b = lo THEN hi - lo ELSE S[b]
  BY DEF MergedB, MergedS
<1>15. Same(B, S, E, B2, S2, E2)
  <2>1. \A b \in B \ E : b \in B2 /\ b # lo
    <3> SUFFICES ASSUME NEW b \in B \ E PROVE b \in B2 /\ b # lo
      OBVIOUS
    <3>1. ~(lo <= b /\ b < hi)
      BY <1>1, <1>8
    <3>2. b < lo \/ hi <= b
      BY <1>2, <1>7, <3>1
    <3> QED  BY <1>2, <1>7, <3>2 DEF MergedB
  <2>2. B2 \ E2 = B \ E
    BY <1>14, <2>1
  <2> HIDE DEF E2, S2
  <2> QED  BY <1>14, <2>1, <2>2 DEF Same
<1> HIDE DEF g3, X, S2
<1> DEFINE g == insert_free_root_e(g3, lo)
<1>16. Shape(g, B2, S2, E2, E2) /\ g.brk = top /\ Untouched(g, g3, B2, S2, E2)
  <2> HIDE DEF g, F2, E2, B2
  <2>1. /\ Shape(g, B2, S2, E2, F2 \cup {lo}) /\ g.brk = g3.brk
        /\ Untouched(g, g3, B2, S2, E2)
    BY <1>10, <1>11, <1>12, InsertShape DEF g
  <2> QED  BY <1>11, <1>12, <2>1
<1> HIDE DEF g
<1>17. Untouched(g, h, B, S, E)
  <2>1. Keeps(B, S, E, B, S, E) /\ Keeps(B, S, E, B2, S2, E2)
    BY <1>15, KeepsItself, SameKeeps
  <2> HIDE DEF B2, E2
  <2>2. Untouched(h2, h, B, S, E)
    BY <1>5, <1>6, <2>1, UntouchedTrans
  <2>3. Untouched(g3, h, B, S, E)
    BY <1>13, <2>1, <2>2, UntouchedTrans
  <2> QED  BY <1>16, <2>1, <2>3, UntouchedTrans
<1>18. Apart(B2, S2, E2)
  <2> SUFFICES ASSUME NEW b \in E2, b + S2[b] \in E2 PROVE FALSE
    BY DEF Apart
  <2>1. b \in E /\ b \in B /\ b \in Nat /\ S[b] \in Nat /\ S[b] >= 16
    BY <1>1, <1>2
  <2>2. CASE b = lo
    <3>1. S2[lo] = hi - lo
      BY <1>10, <1>14
    <3>2. lo + S2[lo] = hi
      BY <1>7, <3>1
    <3> QED  BY <1>7, <2>2, <3>2
  <2>3. CASE b # lo
    <3>1. S2[b] = S[b] /\ (b <= lo \/ hi <= b)
      BY <1>14, <2>3
    <3>2. b # bp
      BY <1>2, <1>4, <1>7, <2>1, <2>3, <3>1
    <3>3. b + S[b] = bp
      BY <1>1, <2>1, <3>1, <3>2
    <3>4. b = p
      <4>1. ~(b < p) /\ ~(p < b)
        BY <1>2, <1>3, <1>4, <2>1, <3>3
      <4> QED  BY <1>2, <2>1, <4>1
    <3> QED  BY <2>1, <2>3, <3>4
  <2> QED  BY <2>2, <2>3
<1>19. S2[lo] >= S[bp]
  BY <1>7, <1>10, <1>14
<1> HIDE DEF B2, E2
<1>20. Good(g, B2, S2, E2)
  BY <1>16, <1>18 DEF Good
<1>21. Joined(g, lo, h, B, S, E, bp)
  BY <1>10, <1>15, <1>16, <1>17, <1>19, <1>20 DEF Joined
<1> QED  BY <1>21 DEF g, g3

LEMMA CoalesceJoins ==
    ASSUME NEW h, NEW B, NEW S, NEW E, NEW bp, Loose(h, B, S, E, bp),
           NEW c, c = coalesce(h, bp)
    PROVE  Joined(c.heap, c.ptr, h, B, S, E, bp)
<1>1. PICK p \in B : /\ p + S[p] = bp /\ PREV_BLKP(h, bp) = p
                     /\ (AllocOf(GET(h, bp - DSIZE)) = 0 <=> p \in E)
  BY Neighbours
<1>2. Layout(B, S, h.brk) /\ Tagged(h, B, S, E) /\ bp \in B
  BY DEF Loose, Shape, Tagged
<1> DEFINE n == bp + S[bp]
<1>3. /\ NEXT_BLKP(h, bp) = n /\ (~Allocated(h, n) <=> n \in E)
      /\ n \in E => NEXT_BLKP(h, n) = n + S[n]
  BY <1>2, NextOf
<1> HIDE DEF n
<1> DEFINE h1 == IF p \in E THEN remove_free_root_e(h, p) ELSE h
           h2 == IF n \in E THEN remove_free_root_e(h1, n) ELSE h1
           lo == IF p \in E THEN p ELSE bp
           hi == IF n \in E THEN n + S[n] ELSE n
<1>4. c = [heap |-> insert_free_root_e(Tag(h2, lo, hi - lo, 0), lo), ptr |-> lo]
  BY <1>1, <1>3 DEF coalesce
<1>5. Joined(insert_free_root_e(Tag(h2, lo, hi - lo, 0), lo), lo, h, B, S, E, bp)
  <2>1. n = bp + S[bp]
    BY DEF n
  <2> HIDE DEF h1, h2, lo, hi
  <2> QED  BY <1>1, <2>1, JoinStep DEF h1, h2, lo, hi
<1> HIDE DEF h1, h2, lo, hi
<1> QED  BY <1>4, <1>5

-----------------------------------------------------------------------------
(* The traversal of the free list. *)

\* The blocks are at least sixteen bytes apart, so no list has more of them than
\* there are positions.
LEMMA ListFits ==
    ASSUME NEW B, NEW S, NEW top, Layout(B, S, top), NEW h, NEW L, NEW k, Linked(h, L, k),
           NEW F, F = Members(L, k), F \subseteq B
    PROVE  k \in Positions /\ IsFiniteSet(F) /\ Cardinality(F) = k
<1>1. k \in Nat /\ L \in [0..k -> Nat] /\ \A m, n \in 0..k : L[m] = L[n] => m = n
  BY DEF Linked
<1>2. \A b \in B : b \in Nat /\ S[b] \in Nat /\ S[b] >= 16 /\ b + S[b] <= top
      /\ top \in Nat /\ top <= MAX_HEAP
  BY DEF Layout, Tile
<1>3. \A b, c \in B : b < c => b + S[b] <= c
  BY DEF Layout
<1>4. MAX_HEAP \in Nat /\ Positions = 0..(MAX_HEAP \div 16) /\ MAX_HEAP \div 16 \in Nat
  BY Numbers DEF Positions
<1> DEFINE D == 0..(k - 1)
           R == 0..(MAX_HEAP \div 16 - 1)
           f == [n \in D |-> L[n] \div 16]
<1>5. \A n \in D : L[n] \in F /\ L[n] \in B /\ n \in 0..k
  BY <1>1 DEF Members
<1>6. IsFiniteSet(D) /\ Cardinality(D) = k /\ IsFiniteSet(R) /\ Cardinality(R) = MAX_HEAP \div 16
  <2>1. k - 1 \in Int /\ 0 \in Int /\ (0 > k - 1 <=> k = 0) /\ (k - 1) - 0 + 1 = k
    BY <1>1
  <2>2. IsFiniteSet(D) /\ Cardinality(D) = k
    BY <2>1, FS_Interval
  <2>3. PICK m \in Nat : m = MAX_HEAP \div 16
    BY <1>4
  <2>4. m - 1 \in Int /\ (0 > m - 1 <=> m = 0) /\ (m - 1) - 0 + 1 = m
    OBVIOUS
  <2>5. IsFiniteSet(0..(m - 1)) /\ Cardinality(0..(m - 1)) = m
    BY <2>1, <2>4, FS_Interval
  <2> QED  BY <2>2, <2>3, <2>5
<1>7. ASSUME NEW n \in D PROVE L[n] \div 16 \in R
  <2>1. L[n] \in Nat /\ L[n] + 16 <= MAX_HEAP
    BY <1>2, <1>4, <1>5
  <2> QED  BY <1>4, <2>1
<1>8. ASSUME NEW m \in D, NEW n \in D, L[m] \div 16 = L[n] \div 16 PROVE m = n
  <2>1. L[m] \in Nat /\ L[n] \in Nat
    BY <1>2, <1>5
  <2>2. ~(L[m] + 16 <= L[n]) /\ ~(L[n] + 16 <= L[m])
    BY <1>8, <2>1
  <2>3. ~(L[m] < L[n]) /\ ~(L[n] < L[m])
    BY <1>2, <1>3, <1>5, <2>1, <2>2
  <2> QED  BY <1>1, <1>5, <2>1, <2>3
<1>9. f \in Injection(D, R)
  <2>1. f \in [D -> R] /\ \A n \in D : f[n] = L[n] \div 16
    BY <1>7
  <2>2. \A m, n \in D : f[m] = f[n] => m = n
    BY <1>8
  <2> HIDE DEF f
  <2> QED  BY <2>1, <2>2 DEF Injection, IsInjective
<1>10. k <= MAX_HEAP \div 16
  <2> HIDE DEF f, D, R
  <2>1. Cardinality(D) <= Cardinality(R)
    BY <1>6, <1>9, FS_Injection
  <2> QED  BY <1>6, <2>1
<1> DEFINE l == [n \in D |-> L[n]]
<1>11. l \in Bijection(D, F)
  <2>1. l \in [D -> F] /\ \A n \in D : l[n] = L[n]
    BY <1>5
  <2>2. \A m, n \in D : l[m] = l[n] => m = n
    BY <1>1, <1>5
  <2>3. \A y \in F : \E n \in D : l[n] = y
    BY <2>1 DEF Members
  <2> HIDE DEF l
  <2> QED  BY <2>1, <2>2, <2>3 DEF Bijection, Injection, Surjection, IsInjective
<1>12. IsFiniteSet(F) /\ Cardinality(F) = k
  <2> HIDE DEF l, D
  <2>1. ExistsBijection(D, F)
    BY <1>11 DEF ExistsBijection
  <2> QED  BY <1>6, <2>1, FS_Bijection
<1> QED  BY <1>1, <1>4, <1>10, <1>12

\* A traversal ends at the prologue and stays there.
FollowsList(at, L, k) == \A n \in Positions : at[n] = IF n <= k THEN L[n] ELSE PROLOGUE

LEMMA FreeListIs ==
    ASSUME NEW h, NEW L, NEW k, Linked(h, L, k),
           \A n \in 0..(k - 1) : ~Allocated(h, L[n]), Allocated(h, PROLOGUE)
    PROVE  FollowsList(FreeList(h), L, k)
<1>1. /\ k \in Nat /\ L \in [0..k -> Nat] /\ L[0] = h.root /\ L[k] = PROLOGUE
      /\ \A n \in 0..(k - 1) : GET(h, L[n]) = L[n + 1]
  BY DEF Linked
<1> DEFINE Step(bp) == IF Allocated(h, bp) THEN bp ELSE NEXT_FREEP(h, bp)
           w == [n \in Positions |-> IF n <= k THEN L[n] ELSE PROLOGUE]
           Rec(g) == g = [n \in Positions |-> IF n = 0 THEN h.root ELSE Step(g[n - 1])]
<1>2. FreeList(h) = CHOOSE g : Rec(g)
  BY DEF FreeList
<1>3. \A n \in Positions : n \in Nat /\ (n # 0 => n - 1 \in Positions)
  BY Numbers DEF Positions
<1>4. \A n \in 0..k : n # k => Step(L[n]) = L[n + 1]
  BY <1>1 DEF NEXT_FREEP
<1>5. Step(PROLOGUE) = PROLOGUE
  OBVIOUS
<1> HIDE DEF Step
<1>6. Rec(w)
  <2>1. ASSUME NEW n \in Positions
        PROVE  w[n] = IF n = 0 THEN h.root ELSE Step(w[n - 1])
    <3>1. CASE n = 0
      BY <1>1, <3>1
    <3>2. CASE n # 0
      <4>1. n - 1 \in Positions /\ n \in Nat /\ (n - 1) + 1 = n
        BY <1>3, <3>2
      <4>2. CASE n <= k
        <5>1. n - 1 \in 0..k /\ n - 1 # k /\ n - 1 <= k
          BY <1>1, <3>2, <4>1, <4>2
        <5>2. Step(L[n - 1]) = L[n]
          BY <1>4, <4>1, <5>1
        <5> QED  BY <3>2, <4>1, <4>2, <5>1, <5>2
      <4>3. CASE ~(n <= k)
        <5>1. w[n - 1] = PROLOGUE
          <6>1. CASE n - 1 <= k
            <7>1. n - 1 = k
              BY <1>1, <4>1, <4>3, <6>1
            <7> QED  BY <1>1, <4>1, <6>1, <7>1
          <6> QED  BY <4>1, <6>1
        <5> HIDE DEF w
        <5>2. w[n] = PROLOGUE
          BY <4>3 DEF w
        <5> QED  BY <1>5, <3>2, <5>1, <5>2
      <4> QED  BY <4>2, <4>3
    <3> QED  BY <3>1, <3>2
  <2> QED  BY <2>1
<1> DEFINE at == FreeList(h)
<1>7. Rec(at)
  <2> HIDE DEF Rec, w
  <2>1. \E g : Rec(g)
    BY <1>6
  <2> QED  BY <1>2, <2>1
<1>8. \A n \in Positions : at[n] = IF n = 0 THEN h.root ELSE Step(at[n - 1])
  <2> HIDE DEF at
  <2> QED  BY <1>7
<1> HIDE DEF at
<1>9. \A n \in Positions : w[n] = IF n = 0 THEN h.root ELSE Step(w[n - 1])
  <2> HIDE DEF w
  <2> QED  BY <1>6
<1> DEFINE T == {n \in Positions : at[n] # w[n]}
<1>10. T = {}
  <2> SUFFICES ASSUME T # {} PROVE FALSE
    OBVIOUS
  <2>1. T \in SUBSET Nat
    BY <1>3
  <2> HIDE DEF w
  <2>2. PICK m \in T : \A x \in T : m <= x
    <3> HIDE DEF T
    <3> QED  BY <2>1, LeastNatural
  <2>3. m # 0
    BY <1>8, <1>9
  <2>4. m - 1 \in Positions /\ ~(m <= m - 1)
    BY <1>3, <2>3
  <2>5. at[m - 1] = w[m - 1]
    BY <2>2, <2>4
  <2> QED  BY <1>8, <1>9, <2>2, <2>3, <2>5
<1>11. \A n \in Positions : at[n] = w[n]
  BY <1>10
<1> QED  BY <1>11 DEF FollowsList, at

\* First fit: a free block that is large enough, if there is one.
Fitting(S, E, a) == {b \in E : a <= S[b]}

LEMMA FindFit ==
    ASSUME NEW h, NEW B, NEW S, NEW E, Good(h, B, S, E), NEW a \in Nat
    PROVE  \/ find_fit(h, a) \in Fitting(S, E, a) /\ find_fit(h, a) # NULL
           \/ find_fit(h, a) = NULL /\ Fitting(S, E, a) = {}
<1>1. /\ h \in Heaps /\ Layout(B, S, h.brk) /\ Tagged(h, B, S, E) /\ List(h, E)
      /\ E \subseteq B /\ 8 \notin E /\ 8 \in B
  BY DEF Good, Shape, Tagged, Layout
<1>2. PICK k \in Nat : \E L \in [0..k -> Nat] : Linked(h, L, k) /\ E = Members(L, k)
  BY <1>1 DEF List
<1>3. PICK L \in [0..k -> Nat] : Linked(h, L, k) /\ E = Members(L, k)
  BY <1>2
<1>4. k \in Positions
  BY <1>1, <1>3, ListFits
<1>5. \A n \in 0..(k - 1) : L[n] \in E
  BY <1>3 DEF Members
<1>6. \A b \in B : Size(h, b) = S[b] /\ (Allocated(h, b) <=> b \notin E)
  BY <1>1, Reads
<1>7. Allocated(h, PROLOGUE) /\ \A n \in 0..(k - 1) : ~Allocated(h, L[n])
  BY <1>1, <1>5, <1>6, Numbers
<1> DEFINE at == FreeList(h)
           fits == {n \in Positions : ~Allocated(h, at[n]) /\ a <= Size(h, at[n])}
<1>8. FollowsList(at, L, k)
  BY <1>3, <1>7, FreeListIs
<1>9. find_fit(h, a) = IF fits = {} THEN NULL ELSE at[CHOOSE n \in fits : \A m \in fits : n <= m]
  BY DEF find_fit
<1> HIDE DEF at
<1>10. \A n \in Positions : at[n] = IF n <= k THEN L[n] ELSE PROLOGUE
  BY <1>8 DEF FollowsList
<1>11. L[k] = PROLOGUE
  BY <1>3 DEF Linked
<1>12. \A n \in fits : at[n] \in E /\ a <= S[at[n]]
  <2> SUFFICES ASSUME NEW n \in fits PROVE at[n] \in E /\ a <= S[at[n]]
    OBVIOUS
  <2>1. n \in Nat /\ n < k
    <3>1. n \in Nat
      BY Numbers DEF Positions
    <3>2. n # k /\ n <= k
      BY <1>7, <1>10, <1>11
    <3> QED  BY <3>1, <3>2
  <2>2. at[n] = L[n] /\ n \in 0..(k - 1)
    BY <1>10, <2>1
  <2> QED  BY <1>1, <1>5, <1>6, <2>2
<1>13. ASSUME NEW b \in Fitting(S, E, a) PROVE \E n \in fits : at[n] = b
  <2>1. PICK n \in 0..(k - 1) : b = L[n]
    BY <1>3 DEF Members, Fitting
  <2>2. n \in Positions /\ n <= k
    BY <1>4, Numbers DEF Positions
  <2>3. at[n] = b
    BY <1>10, <2>1, <2>2
  <2>4. b \in B /\ b \in E /\ a <= S[b]
    BY <1>1 DEF Fitting
  <2> QED  BY <1>6, <2>2, <2>3, <2>4
<1>14. CASE fits = {}
  <2>1. Fitting(S, E, a) = {}
    BY <1>13, <1>14
  <2> QED  BY <1>9, <1>14, <2>1
<1>15. CASE fits # {}
  <2>1. fits \in SUBSET Nat
    BY Numbers DEF Positions
  <2> HIDE DEF fits
  <2>2. \E n \in fits : \A m \in fits : n <= m
    BY <1>15, <2>1, LeastNatural
  <2>3. (CHOOSE n \in fits : \A m \in fits : n <= m) \in fits
    BY <2>2
  <2>4. find_fit(h, a) \in Fitting(S, E, a)
    BY <1>9, <1>12, <1>15, <2>3 DEF Fitting
  <2>5. \A b \in E : b # NULL
    BY <1>1, Numbers DEF Layout, Tile
  <2> QED  BY <2>4, <2>5 DEF Fitting
<1> QED  BY <1>14, <1>15

-----------------------------------------------------------------------------
(* extend_heap and place. *)

\* g is h with n more bytes, some of them in the free block q of at least n.
Grown(g, q, h, B, S, E, n) ==
    \E B2, S2, E2 :
        /\ Good(g, B2, S2, E2) /\ Same(B, S, E, B2, S2, E2) /\ Untouched(g, h, B, S, E)
        /\ g.brk = h.brk + n /\ q \in E2 /\ S2[q] >= n

\* An increment that is negative as an int, or too large, changes nothing.
LEMMA SbrkIs ==
    ASSUME NEW h, h.brk \in Nat, NEW n \in Nat, n < SizeRange
    PROVE  mem_sbrk(h, n) = IF n >= SizeRange \div 2 \/ h.brk + n > MAX_HEAP
                            THEN [heap |-> h, ptr |-> -1]
                            ELSE [heap |-> [h EXCEPT !.brk = @ + n], ptr |-> h.brk]
<1>1. SizeRange \in Nat /\ MAX_HEAP \in Nat
  BY Numbers
<1>2. CASE n >= SizeRange \div 2
  <2>1. IntOf(n) < 0
    BY <1>1, <1>2 DEF IntOf
  <2> QED  BY <1>2, <2>1 DEF mem_sbrk
<1>3. CASE ~(n >= SizeRange \div 2)
  <2>1. IntOf(n) = n /\ ~(n < 0)
    BY <1>1, <1>3 DEF IntOf
  <2> QED  BY <1>3, <2>1 DEF mem_sbrk
<1> QED  BY <1>2, <1>3

LEMMA ExtendHeap ==
    ASSUME NEW h, NEW B, NEW S, NEW E, Good(h, B, S, E),
           NEW n \in Nat, n % 8 = 0, n >= 16, n < SizeRange, NEW r, r = extend_heap(h, n)
    PROVE  \/ /\ r.ptr = NULL /\ r.heap = h
              /\ n >= SizeRange \div 2 \/ h.brk + n > MAX_HEAP
           \/ r.ptr # NULL /\ Grown(r.heap, r.ptr, h, B, S, E, n)
<1>1. /\ h \in Heaps /\ Layout(B, S, h.brk) /\ Tagged(h, B, S, E) /\ List(h, E)
      /\ E \subseteq B /\ 8 \notin E /\ Apart(B, S, E) /\ Shape(h, B, S, E, E)
  BY DEF Good, Shape, Tagged
<1>2. h.brk \in Nat /\ h.brk >= 24 /\ h.brk \notin B
  BY <1>1, LayoutWords DEF Layout
<1>3. CASE n >= SizeRange \div 2 \/ h.brk + n > MAX_HEAP
  <2>1. r = [heap |-> h, ptr |-> NULL]
    BY <1>2, <1>3, SbrkIs DEF extend_heap
  <2> QED  BY <1>3, <2>1
<1>4. CASE ~(n >= SizeRange \div 2 \/ h.brk + n > MAX_HEAP)
  <2> DEFINE h1 == [h EXCEPT !.brk = @ + n]
             g == PUT(Tag(h1, h.brk, n, 0), h.brk + n - WSIZE, PACK(0, 1))
             top == h.brk
             B2 == B \cup {top}
             S2 == GrownS(B, S, top, n)
             E2 == E \cup {top}
  <2>1. r = coalesce(g, top)
    BY <1>2, <1>4, SbrkIs DEF extend_heap
  <2>2. top + n <= MAX_HEAP
    BY <1>2, <1>4, Numbers
  <2>3. /\ Shape(g, B2, S2, E2, E) /\ g.brk = top + n /\ Untouched(g, h, B, S, E)
    <3>1. h1 = [h EXCEPT !.brk = @ + n]
      OBVIOUS
    <3>2. g = PUT(Tag(h1, h.brk, n, 0), h.brk + n - WSIZE, PACK(0, 1))
      OBVIOUS
    <3> HIDE DEF h1, g
    <3>3. GrowResult(g, h, B, S, E, E, n)
      BY <1>1, <2>2, <3>1, <3>2, GrowShape
    <3> QED  BY <3>3 DEF GrowResult
  <2> HIDE DEF h1, g
  <2>4. \A b \in B2 : S2[b] = IF b = top THEN n ELSE S[b]
    BY DEF GrownS
  <2> HIDE DEF S2
  <2>5. Loose(g, B2, S2, E2, top)
    <3>1. E2 \ {top} = E
      BY <1>1, <1>2
    <3>2. \A b \in E2 : b # top /\ b + S2[b] \in E2 => b + S2[b] = top
      <4> SUFFICES ASSUME NEW b \in E2, b # top, b + S2[b] \in E2 PROVE b + S2[b] = top
        OBVIOUS
      <4>1. b \in E /\ S2[b] = S[b]
        BY <2>4, <1>1
      <4> QED  BY <1>1, <4>1 DEF Apart
    <3> QED  BY <2>3, <3>1, <3>2 DEF Loose
  <2>6. Joined(r.heap, r.ptr, g, B2, S2, E2, top)
    BY <2>1, <2>5, CoalesceJoins
  <2>7. PICK B3, S3, E3 :
          /\ Good(r.heap, B3, S3, E3) /\ Same(B2, S2, E2, B3, S3, E3)
          /\ Untouched(r.heap, g, B2, S2, E2)
          /\ r.heap.brk = g.brk /\ r.ptr \in E3 /\ S3[r.ptr] >= S2[top]
    BY <2>6 DEF Joined
  <2>8. Same(B, S, E, B2, S2, E2)
    BY <1>1, <1>2, <2>4 DEF Same
  <2>9. Same(B, S, E, B3, S3, E3)
    BY <2>7, <2>8 DEF Same
  <2>10. Untouched(r.heap, h, B, S, E)
    <3>1. Keeps(B, S, E, B2, S2, E2)
      BY <2>8, SameKeeps
    <3> HIDE DEF B2, E2
    <3> QED  BY <2>3, <2>7, <3>1, UntouchedTrans
  <2>11. r.heap.brk = h.brk + n /\ S3[r.ptr] >= n
    BY <2>3, <2>4, <2>7
  <2>12. r.ptr # NULL
    BY <2>7, Numbers DEF Good, Shape, Tagged, Layout, Tile
  <2>13. Grown(r.heap, r.ptr, h, B, S, E, n)
    BY <2>7, <2>9, <2>10, <2>11 DEF Grown
  <2> QED  BY <2>12, <2>13
<1> QED  BY <1>3, <1>4

\* q is a block in use of at least a bytes that was not in use before.
Obtained(g, q, h, B, S, E, a) ==
    \E B2, S2, E2 :
        /\ Good(g, B2, S2, E2) /\ B2 \ E2 = (B \ E) \cup {q} /\ q \notin B \ E
        /\ \A b \in B \ E : S2[b] = S[b]
        /\ S2[q] >= a /\ Untouched(g, h, B, S, E)

LEMMA PlaceObtains ==
    ASSUME NEW h, NEW B, NEW S, NEW E, Good(h, B, S, E), NEW bp \in E,
           NEW a \in Nat, a % 8 = 0, a >= 16, a <= S[bp], NEW g, g = place(h, bp, a)
    PROVE  Obtained(g, bp, h, B, S, E, a) /\ g.brk = h.brk
<1>1. /\ h \in Heaps /\ Layout(B, S, h.brk) /\ Tagged(h, B, S, E) /\ List(h, E)
      /\ E \subseteq B /\ 8 \notin E /\ Apart(B, S, E) /\ Shape(h, B, S, E, E) /\ bp \in B
      /\ bp # 8
  BY DEF Good, Shape, Tagged
<1>2. \A b \in B : b \in Nat /\ S[b] \in Nat /\ S[b] >= 16 /\ b + S[b] \in B \cup {h.brk}
  BY <1>1 DEF Layout, Tile
<1>3. \A b, c \in B : b < c => b + S[b] <= c
  BY <1>1 DEF Layout
<1> DEFINE t == remove_free_root_e(h, bp)
           F == E \ {bp}
<1>4. Shape(t, B, S, E, F) /\ t.brk = h.brk /\ Untouched(t, h, B, S, E)
  BY <1>1, RemoveShape
<1>5. Size(h, bp) = S[bp]
  BY <1>1, Reads
<1>6. CASE S[bp] - a >= 16
  <2> HIDE DEF t
  <2> DEFINE c == bp + a
             B2 == B \cup {c}
             S2 == SplitS(B, S, bp, c)
             E1 == (E \ {bp}) \cup {c}
             g1 == Tag(Tag(t, bp, a, 1), c, S[bp] - a, 0)
  <2>2. Shape(g1, B2, S2, E1, F) /\ g1.brk = h.brk /\ c \notin B /\ Untouched(g1, t, B, S, E)
    <3>1. bp \notin F
      OBVIOUS
    <3>2. g1 = Tag(Tag(t, bp, a, 1), bp + a, S[bp] - a, 0)
      OBVIOUS
    <3> HIDE DEF F, g1
    <3>3. SplitResult(g1, t, B, S, E, F, bp, bp + a)
      BY <1>4, <1>6, <3>1, <3>2, SplitShape
    <3> QED  BY <1>4, <3>3 DEF SplitResult
  <2>3. g = insert_free_root_e(g1, c)
    BY <1>5, <1>6 DEF place, DSIZE, t
  <2> HIDE DEF g1
  <2>4. \A b \in B2 : S2[b] = IF b = bp THEN c - bp ELSE IF b = c THEN bp + S[bp] - c ELSE S[b]
    BY DEF SplitS
  <2> HIDE DEF S2
  <2>5. F \cup {c} = E1 /\ c \in E1 /\ c \notin F
    BY <1>1, <2>2
  <2>6. Shape(g, B2, S2, E1, E1) /\ g.brk = h.brk /\ Untouched(g, g1, B2, S2, E1)
    <3> HIDE DEF F, E1, B2, c
    <3>1. /\ Shape(g, B2, S2, E1, F \cup {c}) /\ g.brk = g1.brk
          /\ Untouched(g, g1, B2, S2, E1)
      BY <2>2, <2>3, <2>5, InsertShape
    <3> QED  BY <2>2, <2>5, <3>1
  <2>7. B2 \ E1 = (B \ E) \cup {bp} /\ bp \notin B \ E /\ \A b \in B \ E : S2[b] = S[b]
    BY <1>1, <2>2, <2>4
  <2>8. S2[bp] = a
    BY <1>1, <1>2, <2>4
  <2>9. Apart(B2, S2, E1)
    <3> SUFFICES ASSUME NEW b \in E1, b + S2[b] \in E1 PROVE FALSE
      BY DEF Apart
    <3>1. CASE b = c
      <4>1. S2[c] = bp + S[bp] - c /\ c # bp
        BY <1>1, <1>2, <2>2, <2>4
      <4>2. c + S2[c] = bp + S[bp]
        BY <1>1, <1>2, <4>1
      <4>3. bp + S[bp] # c
        BY <1>1, <1>2, <1>6
      <4> QED  BY <1>1, <3>1, <4>2, <4>3 DEF Apart
    <3>2. CASE b # c
      <4>1. b \in E /\ b # bp /\ b \in B /\ S2[b] = S[b]
        BY <1>1, <2>4, <3>2
      <4>2. b + S[b] # c
        <5>1. (b < bp => b + S[b] <= bp) /\ (bp < b => bp + S[bp] <= b)
          BY <1>1, <1>3, <4>1
        <5> QED  BY <1>1, <1>2, <1>6, <4>1, <5>1
      <4> QED  BY <1>1, <4>1, <4>2 DEF Apart
    <3> QED  BY <3>1, <3>2
  <2>10. Untouched(g, h, B, S, E)
    <3>1. Keeps(B, S, E, B2, S2, E1) /\ Keeps(B, S, E, B, S, E)
      BY <2>7, KeepsItself DEF Keeps
    <3> HIDE DEF B2, E1
    <3>2. Untouched(g1, h, B, S, E)
      BY <1>4, <2>2, <3>1, UntouchedTrans
    <3> QED  BY <2>6, <3>1, <3>2, UntouchedTrans
  <2> HIDE DEF B2, E1
  <2>11. Good(g, B2, S2, E1) /\ S2[bp] >= a
    BY <2>6, <2>8, <2>9 DEF Good
  <2> QED  BY <2>6, <2>7, <2>10, <2>11 DEF Obtained
<1>7. CASE ~(S[bp] - a >= 16)
  <2> DEFINE hi == bp + S[bp]
             B2 == MergedB(B, bp, hi)
             S2 == MergedS(B, S, bp, hi)
             E2 == E \ {bp}
  <2>1. g = Tag(t, bp, hi - bp, 1)
    <3>1. hi - bp = S[bp]
      BY <1>1, <1>2
    <3> QED  BY <1>5, <1>7, <3>1 DEF place, DSIZE
  <2>2. hi \in B \cup {t.brk} /\ bp < hi /\ \A b \in B : b <= bp \/ hi <= b
    BY <1>1, <1>2, <1>3, <1>4
  <2>3. B2 = B
    BY <2>2 DEF MergedB
  <2>4. \A b \in B : S2[b] = S[b]
    <3>1. \A b \in B : S2[b] = IF b = bp THEN hi - bp ELSE S[b]
      BY <2>3 DEF MergedS
    <3> QED  BY <1>1, <1>2, <3>1
  <2>5. MergedE(B, E, bp, hi, 1) = E2
    BY <1>1, <2>3 DEF MergedE
  <2>6. Clear(F, bp, hi)
    <3>1. \A f \in F : f \in B /\ f # bp
      BY <1>1
    <3>2. hi \in Nat /\ bp \in Nat
      BY <1>1, <1>2
    <3> HIDE DEF F, hi
    <3> SUFFICES ASSUME NEW f \in F PROVE f < bp \/ hi <= f
      BY DEF Clear
    <3>3. f \in Nat /\ f # bp /\ (f <= bp \/ hi <= f)
      BY <1>2, <2>2, <3>1
    <3> QED  BY <3>2, <3>3
  <2>7. Within(B, bp, hi) = {bp}
    BY <1>1, <1>2, <2>2 DEF Within
  <2>8. MergeResult(g, t, B, S, E, F, bp, hi, 1)
    <3> HIDE DEF F, t, hi
    <3> QED  BY <1>1, <1>4, <2>1, <2>2, <2>6, MergeShape
  <2> HIDE DEF t, hi, S2
  <2>9. Shape(g, B, S2, E2, E2) /\ g.brk = h.brk /\ Untouched(g, t, B, S, E)
    <3>1. E \cup {bp} = E
      OBVIOUS
    <3> QED  BY <1>4, <2>3, <2>5, <2>7, <2>8, <3>1 DEF MergeResult, S2
  <2>10. Apart(B, S2, E2)
    BY <1>1, <2>4 DEF Apart
  <2>11. Untouched(g, h, B, S, E)
    BY <1>4, <2>9, KeepsItself, UntouchedTrans
  <2>12. B \ E2 = (B \ E) \cup {bp} /\ bp \notin B \ E /\ \A b \in B \ E : S2[b] = S[b]
    BY <1>1, <2>4
  <2> HIDE DEF E2
  <2>13. Good(g, B, S2, E2) /\ S2[bp] >= a
    BY <1>1, <2>4, <2>9, <2>10 DEF Good
  <2> QED  BY <2>9, <2>11, <2>12, <2>13 DEF Obtained
<1> QED  BY <1>6, <1>7

-----------------------------------------------------------------------------
(* mm_malloc and mm_free. *)

LEMMA Below ==
    ASSUME NEW a \in Nat, NEW m \in Nat, a < m
    PROVE  a % m = a
  OBVIOUS

\* A size whose rounding does not wrap gets a block with room for it and its tags.
LEMMA AsizeIs ==
    ASSUME NEW s \in Nat, s + 15 < SizeRange
    PROVE  Asize(s) \in Nat /\ Asize(s) % 8 = 0 /\ Asize(s) >= s + 8 /\ Asize(s) < SizeRange
           /\ (s # 0 => Asize(s) >= 16)
<1>1. SizeRange \in Nat
  BY Numbers
<1>2. (s + DSIZE) % SizeRange = s + 8
  BY <1>1, Below DEF DSIZE
<1>3. ((s + 8) + 7) % SizeRange = s + 15
  <2>1. (s + 8) + 7 = s + 15 /\ s + 15 \in Nat
    OBVIOUS
  <2> QED  BY <1>1, <2>1, Below
<1>4. Asize(s) = (s + 15) - ((s + 15) % 8)
  BY <1>2, <1>3 DEF Asize, ALIGN
<1>5. PICK u \in Nat : u = s + 15
  OBVIOUS
<1>6. u - (u % 8) \in Nat /\ (u - (u % 8)) % 8 = 0 /\ u - (u % 8) >= u - 7 /\ u - (u % 8) <= u
  OBVIOUS
<1>7. s # 0 => u - (u % 8) >= 16
  BY <1>5
<1>8. u - (u % 8) < SizeRange
  BY <1>1, <1>5, <1>6
<1> QED  BY <1>4, <1>5, <1>6, <1>7, <1>8

\* What malloc gives.
Allocates(m, h, B, S, E, s) ==
    /\ s # 0 /\ m.ptr # NULL
    /\ Obtained(m.heap, m.ptr, h, B, S, E, Asize(s))
    /\ m.heap.brk \in Nat
    /\ m.heap.brk = h.brk \/ (m.heap.brk > h.brk /\ Fitting(S, E, Asize(s)) = {})

LEMMA MallocIs ==
    ASSUME NEW h, NEW B, NEW S, NEW E, Good(h, B, S, E),
           NEW s \in Nat, s + 15 < SizeRange, NEW m, m = mm_malloc(h, s)
    PROVE  \/ m.ptr = NULL /\ m.heap = h
           \/ Allocates(m, h, B, S, E, s)
<1>1. PICK a \in Nat : /\ a = Asize(s) /\ a % 8 = 0 /\ a >= s + 8 /\ (s # 0 => a >= 16)
                       /\ a < SizeRange
  BY AsizeIs
<1>2. PICK n \in Nat : /\ n = IF a > CHUNKSIZE THEN a ELSE CHUNKSIZE
                       /\ n % 8 = 0 /\ n >= a /\ n >= 16 /\ n < SizeRange
  <2>1. CHUNKSIZE \in Nat /\ CHUNKSIZE < SizeRange
    BY MMHeapAssumption
  <2> QED  BY <1>1, <2>1, Numbers
<1> DEFINE fit == find_fit(h, a)
           more == extend_heap(h, n)
<1>3. m = IF s = 0 THEN [heap |-> h, ptr |-> NULL]
          ELSE IF fit # NULL THEN [heap |-> place(h, fit, a), ptr |-> fit]
          ELSE IF more.ptr = NULL THEN more
          ELSE [heap |-> place(more.heap, more.ptr, a), ptr |-> more.ptr]
  BY <1>1, <1>2 DEF mm_malloc
<1>4. \/ fit \in Fitting(S, E, a) /\ fit # NULL
      \/ fit = NULL /\ Fitting(S, E, a) = {}
  BY FindFit
<1>5. h.brk \in Nat
  BY DEF Good, Shape, Layout
<1>6. CASE s = 0
  <2> HIDE DEF more, fit
  <2>1. m = [heap |-> h, ptr |-> NULL]
    BY <1>3, <1>6
  <2> QED  BY <2>1
<1>7. CASE s # 0 /\ fit # NULL
  <2>1. m.heap = place(h, fit, a) /\ m.ptr = fit
    BY <1>3, <1>7
  <2>2. fit \in E /\ a <= S[fit]
    BY <1>4, <1>7 DEF Fitting
  <2> HIDE DEF fit
  <2>3. Obtained(m.heap, fit, h, B, S, E, a) /\ m.heap.brk = h.brk
    BY <1>1, <1>7, <2>1, <2>2, PlaceObtains
  <2>4. Obtained(m.heap, m.ptr, h, B, S, E, Asize(s))
    BY <1>1, <2>1, <2>3
  <2>5. m.ptr # NULL /\ m.heap.brk \in Nat
    BY <1>5, <1>7, <2>1, <2>3
  <2> QED  BY <1>7, <2>3, <2>4, <2>5 DEF Allocates
<1>8. CASE s # 0 /\ fit = NULL
  <2>1. Fitting(S, E, a) = {}
    BY <1>4, <1>8
  <2>2. \/ more.ptr = NULL /\ more.heap = h
        \/ more.ptr # NULL /\ Grown(more.heap, more.ptr, h, B, S, E, n)
    BY <1>2, ExtendHeap
  <2>3. CASE more.ptr = NULL
    <3> HIDE DEF more, fit
    <3>1. m = more
      BY <1>3, <1>8, <2>3
    <3> QED  BY <2>2, <2>3, <3>1
  <2>4. CASE more.ptr # NULL
    <3> HIDE DEF more
    <3>1. m.heap = place(more.heap, more.ptr, a) /\ m.ptr = more.ptr
      BY <1>3, <1>8, <2>4
    <3>2. PICK B2, S2, E2 :
            /\ Good(more.heap, B2, S2, E2) /\ Same(B, S, E, B2, S2, E2)
            /\ Untouched(more.heap, h, B, S, E)
            /\ more.heap.brk = h.brk + n /\ more.ptr \in E2 /\ S2[more.ptr] >= n
      BY <2>2, <2>4 DEF Grown
    <3>3. a <= S2[more.ptr]
      <4>1. S2[more.ptr] \in Nat
        BY <3>2 DEF Good, Shape, Tagged, Layout, Tile
      <4> QED  BY <1>2, <3>2, <4>1
    <3>4. Obtained(m.heap, m.ptr, more.heap, B2, S2, E2, a) /\ m.heap.brk = more.heap.brk
      BY <1>1, <1>8, <3>1, <3>2, <3>3, PlaceObtains
    <3>5. PICK B3, S3, E3 :
            /\ Good(m.heap, B3, S3, E3) /\ B3 \ E3 = (B2 \ E2) \cup {m.ptr}
            /\ m.ptr \notin B2 \ E2 /\ \A b \in B2 \ E2 : S3[b] = S2[b]
            /\ S3[m.ptr] >= a /\ Untouched(m.heap, more.heap, B2, S2, E2)
      BY <3>4 DEF Obtained
    <3>6. /\ B3 \ E3 = (B \ E) \cup {m.ptr} /\ m.ptr \notin B \ E
          /\ \A b \in B \ E : S3[b] = S[b]
      BY <3>2, <3>5 DEF Same
    <3>7. Untouched(m.heap, h, B, S, E)
      BY <3>2, <3>5, SameKeeps, UntouchedTrans
    <3>8. Obtained(m.heap, m.ptr, h, B, S, E, a)
      BY <3>5, <3>6, <3>7 DEF Obtained
    <3>9. m.heap.brk \in Nat /\ m.heap.brk > h.brk
      BY <1>2, <1>5, <3>2, <3>4
    <3> QED  BY <1>1, <1>8, <2>1, <2>4, <3>1, <3>8, <3>9 DEF Allocates
  <2> QED  BY <2>3, <2>4
<1> QED  BY <1>6, <1>7, <1>8

\* g is h without the block bp.
Freed(g, h, B, S, E, bp) ==
    \E B2, S2, E2 :
        /\ Good(g, B2, S2, E2) /\ B2 \ E2 = (B \ E) \ {bp}
        /\ \A b \in (B \ E) \ {bp} : S2[b] = S[b]
        /\ Untouched(g, h, B, S, E \cup {bp}) /\ g.brk = h.brk

LEMMA FreeIs ==
    ASSUME NEW h, NEW B, NEW S, NEW E, Good(h, B, S, E),
           NEW bp \in B \ E, bp # 8, NEW g, g = mm_free(h, bp)
    PROVE  Freed(g, h, B, S, E, bp)
<1>1. /\ h \in Heaps /\ Layout(B, S, h.brk) /\ Tagged(h, B, S, E) /\ List(h, E)
      /\ E \subseteq B /\ 8 \notin E /\ Apart(B, S, E) /\ Shape(h, B, S, E, E)
  BY DEF Good, Shape, Tagged
<1>2. \A b \in B : b \in Nat /\ b >= 8 /\ S[b] \in Nat /\ S[b] >= 16 /\ b + S[b] \in B \cup {h.brk}
  BY <1>1 DEF Layout, Tile
<1>3. \A b, c \in B : b < c => b + S[b] <= c
  BY <1>1 DEF Layout
<1>4. h.brk \in Nat /\ \A b \in B : b + S[b] <= h.brk
  BY <1>1 DEF Layout, Tile
<1> DEFINE hi == bp + S[bp]
           t == Tag(h, bp, hi - bp, 0)
           S2 == MergedS(B, S, bp, hi)
           E2 == E \cup {bp}
<1>5. g = coalesce(t, bp).heap
  <2>1. hi - bp = S[bp] /\ Size(h, bp) = S[bp] /\ bp # NULL
    BY <1>1, <1>2, Reads, Numbers
  <2> QED  BY <2>1 DEF mm_free
<1>6. hi \in B \cup {h.brk} /\ bp < hi /\ (\A b \in B : b <= bp \/ hi <= b) /\ hi \in Nat
  BY <1>2, <1>3
<1>7. MergedB(B, bp, hi) = B
  BY <1>6 DEF MergedB
<1>8. \A b \in B : S2[b] = S[b]
  <2>1. \A b \in B : S2[b] = IF b = bp THEN hi - bp ELSE S[b]
    BY <1>7 DEF MergedS
  <2> QED  BY <1>2, <2>1
<1>9. MergedE(B, E, bp, hi, 0) = E2
  BY <1>1, <1>7 DEF MergedE
<1>10. Within(B, bp, hi) = {bp}
  BY <1>1, <1>2, <1>6 DEF Within
<1>11. Clear(E, bp, hi)
  <2> HIDE DEF hi
  <2> SUFFICES ASSUME NEW f \in E PROVE f < bp \/ hi <= f
    BY DEF Clear
  <2>1. f \in Nat /\ f # bp /\ (f <= bp \/ hi <= f) /\ bp \in Nat
    BY <1>1, <1>2, <1>6
  <2> QED  BY <1>6, <2>1
<1>12. MergeResult(t, h, B, S, E, E, bp, hi, 0)
  <2> HIDE DEF hi
  <2> QED  BY <1>1, <1>6, <1>11, MergeShape
<1> HIDE DEF t, S2, hi
<1>13. Shape(t, B, S2, E2, E) /\ t.brk = h.brk /\ Untouched(t, h, B, S, E2)
  BY <1>7, <1>9, <1>10, <1>12 DEF MergeResult, S2
<1>14. Loose(t, B, S2, E2, bp)
  <2>1. E2 \ {bp} = E
    OBVIOUS
  <2>2. \A b \in E2 : b # bp /\ b + S2[b] \in E2 => b + S2[b] = bp
    BY <1>1, <1>8 DEF Apart
  <2> QED  BY <1>13, <2>1, <2>2 DEF Loose
<1>15. PICK B3, S3, E3 :
         /\ Good(g, B3, S3, E3) /\ Same(B, S2, E2, B3, S3, E3) /\ Untouched(g, t, B, S2, E2)
         /\ g.brk = t.brk
  <2> DEFINE c == coalesce(t, bp)
  <2>1. Joined(c.heap, c.ptr, t, B, S2, E2, bp)
    BY <1>14, CoalesceJoins
  <2> QED  BY <1>5, <2>1 DEF Joined
<1>16. B3 \ E3 = (B \ E) \ {bp} /\ \A b \in (B \ E) \ {bp} : S3[b] = S[b]
  BY <1>8, <1>15 DEF Same
<1>17. Untouched(g, h, B, S, E2)
  <2>1. Keeps(B, S, E2, B, S2, E2)
    BY <1>8 DEF Keeps
  <2> HIDE DEF E2
  <2> QED  BY <1>13, <1>15, <2>1, UntouchedTrans
<1> QED  BY <1>13, <1>15, <1>16, <1>17 DEF Freed

-----------------------------------------------------------------------------
(* mm_realloc. *)

\* A step that writes into one block in use only.
LEMMA DataStep ==
    ASSUME NEW h, NEW B, NEW S, NEW E, Good(h, B, S, E),
           NEW g \in Heaps, g.brk = h.brk, g.root = h.root, NEW q \in B \ E, q # 8,
           \A x : x \notin q..(q + S[q] - 9) => GET(g, x) = GET(h, x)
    PROVE  Good(g, B, S, E) /\ Untouched(g, h, B, S, E \cup {q})
<1>1. /\ h \in Heaps /\ Layout(B, S, h.brk) /\ Tagged(h, B, S, E) /\ List(h, E)
      /\ E \subseteq B /\ 8 \notin E /\ 8 \in B /\ Apart(B, S, E)
  BY DEF Good, Shape, Tagged, Layout
<1>2. \A b \in B : b \in Nat /\ S[b] \in Nat /\ S[b] >= 16 /\ b + S[b] <= h.brk
  BY <1>1 DEF Layout, Tile
<1>3. \A b, c \in B : b < c => b + S[b] <= c
  BY <1>1 DEF Layout
<1>4. h.brk \in Nat
  BY <1>1 DEF Layout
<1>5. ASSUME NEW b \in B
      PROVE  /\ GET(g, b - 4) = GET(h, b - 4) /\ GET(g, b + S[b] - 8) = GET(h, b + S[b] - 8)
             /\ b # q => \A x \in b..(b + S[b] - 9) : GET(g, x) = GET(h, x)
  <2>1. (b < q => b + S[b] <= q) /\ (q < b => q + S[q] <= b)
    BY <1>3
  <2>2. b - 4 \notin q..(q + S[q] - 9) /\ b + S[b] - 8 \notin q..(q + S[q] - 9)
    BY <1>2, <2>1
  <2>3. ASSUME b # q, NEW x \in b..(b + S[b] - 9) PROVE x \notin q..(q + S[q] - 9)
    BY <1>2, <2>1, <2>3
  <2> QED  BY <2>2, <2>3
<1>6. GET(g, h.brk - 4) = GET(h, h.brk - 4)
  <2>1. q + S[q] <= h.brk /\ q \in Nat /\ S[q] \in Nat
    BY <1>2
  <2>2. h.brk - 4 \notin q..(q + S[q] - 9)
    BY <1>4, <2>1
  <2> QED  BY <2>2
<1>7. Tagged(g, B, S, E)
  BY <1>1, <1>5, <1>6 DEF Tagged
<1>8. List(g, E)
  <2>1. ASSUME NEW f \in E \cup {PROLOGUE}
        PROVE  GET(g, f) = GET(h, f) /\ GET(g, f + WSIZE) = GET(h, f + WSIZE)
    <3>1. f \in B /\ f # q
      BY <1>1, Numbers
    <3>2. f \in f..(f + S[f] - 9) /\ f + 4 \in f..(f + S[f] - 9)
      <4>1. f \in Nat /\ S[f] \in Nat /\ S[f] >= 16
        BY <1>2, <3>1
      <4> QED  BY <4>1
    <3> QED  BY <1>5, <3>1, <3>2 DEF WSIZE
  <2> QED  BY <1>1, <2>1, ListFrame
<1>9. Untouched(g, h, B, S, E \cup {q})
  BY <1>5 DEF Untouched
<1> QED  BY <1>1, <1>7, <1>8, <1>9 DEF Good, Shape

LEMMA CopyIs ==
    ASSUME NEW h \in Heaps, NEW to, NEW from, NEW n, NEW g, g = Copy(h, to, from, n)
    PROVE  /\ g \in Heaps /\ g.brk = h.brk /\ g.root = h.root
           /\ \A x : GET(g, x) = IF x \in Words /\ x \in to..(to + n - 1)
                                 THEN GET(h, x - to + from) ELSE GET(h, x)
<1> DEFINE w == [a \in Words |-> IF a \in to..(to + n - 1) THEN GET(h, a - to + from)
                                 ELSE h.mem[a]]
<1>1. w \in [Words -> Int]
  <2>1. \A a \in Words : h.mem[a] \in Int
    BY DEF Heaps
  <2> QED  BY <2>1, GetInt
<1>2. \A a \in Words : w[a] = IF a \in to..(to + n - 1) THEN GET(h, a - to + from) ELSE h.mem[a]
  OBVIOUS
<1>3. g = [h EXCEPT !.mem = w]
  BY DEF Copy
<1> HIDE DEF w
<1>4. g \in Heaps /\ g.brk = h.brk /\ g.root = h.root /\ g.mem = w
  BY <1>1, <1>3 DEF Heaps
<1>5. \A x : x \in Words => GET(g, x) = w[x] /\ GET(h, x) = h.mem[x]
  BY <1>4 DEF GET
<1>6. \A x : x \notin Words => GET(g, x) = GET(h, x)
  BY DEF GET
<1> QED  BY <1>2, <1>4, <1>5, <1>6

LEMMA FillIs ==
    ASSUME NEW h \in Heaps, NEW p, NEW s, NEW i \in Nat, NEW g, g = Fill(h, p, s, i)
    PROVE  /\ g \in Heaps /\ g.brk = h.brk /\ g.root = h.root
           /\ \A x : GET(g, x) = IF x \in Words /\ x \in p..(p + s - 1) THEN -i ELSE GET(h, x)
<1> DEFINE w == [a \in Words |-> IF a \in p..(p + s - 1) THEN -i ELSE h.mem[a]]
<1>1. w \in [Words -> Int]
  <2>1. \A a \in Words : h.mem[a] \in Int
    BY DEF Heaps
  <2> QED  BY <2>1
<1>2. \A a \in Words : w[a] = IF a \in p..(p + s - 1) THEN -i ELSE h.mem[a]
  OBVIOUS
<1>3. g = [h EXCEPT !.mem = w]
  BY DEF Fill
<1> HIDE DEF w
<1>4. g \in Heaps /\ g.brk = h.brk /\ g.root = h.root /\ g.mem = w
  BY <1>1, <1>3 DEF Heaps
<1>5. \A x : x \in Words => GET(g, x) = w[x] /\ GET(h, x) = h.mem[x]
  BY <1>4 DEF GET
<1>6. \A x : x \notin Words => GET(g, x) = GET(h, x)
  BY DEF GET
<1> QED  BY <1>2, <1>4, <1>5, <1>6

\* g is h with the block bp moved to q: what fits of its contents is there.
Moved(g, q, h, B, S, E, bp, s) ==
    /\ s # 0 /\ q # NULL
    /\ \E B2, S2, E2 :
         /\ Good(g, B2, S2, E2) /\ B2 \ E2 = ((B \ E) \cup {q}) \ {bp} /\ q \notin B \ E
         /\ \A b \in (B \ E) \ {bp} : S2[b] = S[b]
         /\ S2[q] >= Asize(s) /\ Untouched(g, h, B, S, E \cup {bp})
    /\ \A a \in Words : q <= a /\ a < q + s /\ a < q + S[bp] - 8 => GET(g, a) = GET(h, a - q + bp)
    /\ g.brk \in Nat
    /\ g.brk = h.brk \/ (g.brk > h.brk /\ Fitting(S, E, Asize(s)) = {})

LEMMA UntouchedLess ==
    ASSUME NEW g, NEW h, NEW B, NEW S, NEW E, NEW X, Untouched(g, h, B, S, E)
    PROVE  Untouched(g, h, B, S, E \cup X)
  BY DEF Untouched

LEMMA ReallocIs ==
    ASSUME NEW h, NEW B, NEW S, NEW E, Good(h, B, S, E), NEW bp \in B \ E, bp # 8,
           NEW s \in Nat, s + 15 < SizeRange, NEW m, m = mm_realloc(h, bp, s)
    PROVE  \/ s = 0 /\ m.ptr = NULL /\ Freed(m.heap, h, B, S, E, bp)
           \/ s # 0 /\ m.ptr = NULL /\ m.heap = h
           \/ Moved(m.heap, m.ptr, h, B, S, E, bp, s)
<1> DEFINE new == mm_malloc(h, s)
           oldsize == Size(new.heap, bp)
           n == IF s < oldsize THEN s ELSE oldsize
<1>1. m = IF s = 0 THEN [heap |-> mm_free(h, bp), ptr |-> NULL]
          ELSE IF bp = NULL \/ new.ptr = NULL THEN new
          ELSE [heap |-> mm_free(Copy(new.heap, new.ptr, bp, n), bp), ptr |-> new.ptr]
  BY DEF mm_realloc
<1>2. /\ Layout(B, S, h.brk) /\ h \in Heaps /\ bp \in Nat /\ S[bp] \in Nat /\ S[bp] >= 16
      /\ bp # NULL
  BY Numbers DEF Good, Shape, Layout, Tile
<1>3. \/ new.ptr = NULL /\ new.heap = h
      \/ Allocates(new, h, B, S, E, s)
  BY MallocIs
<1>4. CASE s = 0
  <2> HIDE DEF new, n
  <2>1. m = [heap |-> mm_free(h, bp), ptr |-> NULL]
    BY <1>1, <1>4
  <2>2. PICK g : g = mm_free(h, bp)
    OBVIOUS
  <2>3. Freed(g, h, B, S, E, bp)
    BY <2>2, FreeIs
  <2> QED  BY <1>4, <2>1, <2>2, <2>3
<1>5. CASE s # 0 /\ new.ptr = NULL
  <2> HIDE DEF new, n
  <2>1. m = new
    BY <1>1, <1>5
  <2>2. new.heap = h
    BY <1>3, <1>5 DEF Allocates
  <2> QED  BY <1>5, <2>1, <2>2
<1>6. CASE s # 0 /\ new.ptr # NULL
  <2> HIDE DEF new
  <2>1. Allocates(new, h, B, S, E, s)
    BY <1>3, <1>6
  <2> DEFINE q == new.ptr
             c == Copy(new.heap, q, bp, n)
  <2>2. m.heap = mm_free(c, bp) /\ m.ptr = q
    <3> HIDE DEF n
    <3> QED  BY <1>1, <1>2, <1>6
  <2>3. PICK B2, S2, E2 :
          /\ Good(new.heap, B2, S2, E2) /\ B2 \ E2 = (B \ E) \cup {q} /\ q \notin B \ E
          /\ \A b \in B \ E : S2[b] = S[b]
          /\ S2[q] >= Asize(s) /\ Untouched(new.heap, h, B, S, E)
    BY <2>1 DEF Allocates, Obtained
  <2>4. /\ Layout(B2, S2, new.heap.brk) /\ Tagged(new.heap, B2, S2, E2) /\ new.heap \in Heaps
        /\ \A b \in B2 : b \in Nat /\ S2[b] \in Nat /\ S2[b] >= 16
    BY <2>3 DEF Good, Shape, Layout, Tile
  <2>5. bp \in B2 \ E2 /\ S2[bp] = S[bp] /\ q \in B2 \ E2 /\ q # bp /\ q # 8
    <3>1. 8 \in B \ E
      BY <1>2 DEF Layout, Good, Shape, Tagged
    <3> QED  BY <2>3, <3>1
  <2>6. oldsize = S[bp]
    BY <2>4, <2>5, Reads
  <2>7. n \in Nat /\ n <= s /\ n = IF s < S[bp] THEN s ELSE S[bp]
    BY <1>2, <2>6
  <2> HIDE DEF n
  <2>8. /\ c \in Heaps /\ c.brk = new.heap.brk /\ c.root = new.heap.root
        /\ \A x : GET(c, x) = IF x \in Words /\ x \in q..(q + n - 1)
                              THEN GET(new.heap, x - q + bp) ELSE GET(new.heap, x)
    BY <2>4, CopyIs
  <2> HIDE DEF c
  <2>9. q \in Nat /\ S2[q] \in Nat /\ q + n - 1 <= q + S2[q] - 9 /\ q + s - 1 <= q + S2[q] - 9
    <3>1. q \in Nat /\ S2[q] \in Nat
      BY <2>4, <2>5
    <3>2. Asize(s) \in Nat /\ Asize(s) >= s + 8
      BY AsizeIs
    <3> QED  BY <2>3, <2>7, <3>1, <3>2
  <2>10. \A x : x \notin q..(q + S2[q] - 9) => GET(c, x) = GET(new.heap, x)
    <3>1. \A x : x \in q..(q + n - 1) => x \in q..(q + S2[q] - 9)
      BY <2>7, <2>9
    <3> QED  BY <2>8, <3>1
  <2> HIDE DEF q
  <2>11. Good(c, B2, S2, E2) /\ Untouched(c, new.heap, B2, S2, E2 \cup {q})
    BY <2>3, <2>5, <2>8, <2>10, DataStep
  <2>12. Freed(m.heap, c, B2, S2, E2, bp)
    BY <2>2, <2>5, <2>11, FreeIs
  <2>13. PICK B3, S3, E3 :
           /\ Good(m.heap, B3, S3, E3) /\ B3 \ E3 = (B2 \ E2) \ {bp}
           /\ \A b \in (B2 \ E2) \ {bp} : S3[b] = S2[b]
           /\ Untouched(m.heap, c, B2, S2, E2 \cup {bp}) /\ m.heap.brk = c.brk
    BY <2>12 DEF Freed
  <2>14. /\ B3 \ E3 = ((B \ E) \cup {q}) \ {bp} /\ S3[q] >= Asize(s)
         /\ \A b \in (B \ E) \ {bp} : S3[b] = S[b]
    BY <2>3, <2>5, <2>13
  <2>15. Untouched(m.heap, h, B, S, E \cup {bp})
    <3>1. Keeps(B, S, E \cup {bp}, B2, S2, E2 \cup {q})
      BY <2>3 DEF Keeps
    <3>2. Keeps(B, S, E \cup {bp}, B2, S2, E2 \cup {bp})
      BY <2>3 DEF Keeps
    <3>3. Untouched(new.heap, h, B, S, E \cup {bp})
      BY <2>3, UntouchedLess
    <3>4. Untouched(c, h, B, S, E \cup {bp})
      BY <2>11, <3>1, <3>3, UntouchedTrans
    <3> QED  BY <2>13, <3>2, <3>4, UntouchedTrans
  <2>16. ASSUME NEW a \in Words, q <= a, a < q + s, a < q + S[bp] - 8
         PROVE  GET(m.heap, a) = GET(h, a - q + bp)
    <3>1. a \in Int
      BY Numbers
    <3>2. a \in q..(q + S2[q] - 9) /\ a \in q..(q + n - 1)
          /\ a - q + bp \in bp..(bp + S[bp] - 9)
      BY <1>2, <2>7, <2>9, <2>16, <3>1
    <3>3. GET(m.heap, a) = GET(c, a)
      BY <2>5, <2>13, <3>2 DEF Untouched
    <3>4. GET(c, a) = GET(new.heap, a - q + bp)
      BY <2>8, <3>2
    <3>5. GET(new.heap, a - q + bp) = GET(h, a - q + bp)
      BY <2>3, <3>2 DEF Untouched
    <3> QED  BY <3>3, <3>4, <3>5
  <2>17. /\ m.heap.brk = new.heap.brk
         /\ new.heap.brk \in Nat
         /\ new.heap.brk = h.brk \/ (new.heap.brk > h.brk /\ Fitting(S, E, Asize(s)) = {})
    BY <2>1, <2>8, <2>13 DEF Allocates
  <2>18. m.ptr = q /\ q # NULL
    BY <1>6, <2>2 DEF q
  <2>19. \E C, T, D :
           /\ Good(m.heap, C, T, D) /\ C \ D = ((B \ E) \cup {q}) \ {bp} /\ q \notin B \ E
           /\ \A b \in (B \ E) \ {bp} : T[b] = S[b]
           /\ T[q] >= Asize(s) /\ Untouched(m.heap, h, B, S, E \cup {bp})
    BY <2>3, <2>13, <2>14, <2>15
  <2>20. Moved(m.heap, q, h, B, S, E, bp, s)
    BY <1>6, <2>16, <2>17, <2>18, <2>19 DEF Moved
  <2> QED  BY <2>18, <2>20
<1> QED  BY <1>4, <1>5, <1>6

-----------------------------------------------------------------------------
(* mm_init. *)

\* A heap with no block in use.
Fresh(h) == \E B, S, E : /\ Good(h, B, S, E) /\ B \ E = {8}
                         /\ h.brk = 24 + CHUNKSIZE

\* g is h but for the word at a.
Put1(g, h, a, w) ==
    /\ g \in Heaps /\ g.brk = h.brk /\ g.root = h.root /\ GET(g, a) = w
    /\ \A x : x # a => GET(g, x) = GET(h, x)

LEMMA PutStep ==
    ASSUME NEW h \in Heaps, NEW a \in Words, NEW w \in Int, NEW g, g = PUT(h, a, w)
    PROVE  Put1(g, h, a, w)
  BY PutIs DEF Put1

LEMMA InitIs ==
    ASSUME NEW w \in [Words -> Int]
    PROVE  Fresh(mm_init(w))
<1> DEFINE h0 == mem_reset_brk(w)
           h == mem_sbrk(h0, 6 * WSIZE).heap
           h1 == PUT(h, 0, 0)
           h2 == Tag(h1, 8, 16, 1)
           h3 == PUT(h2, 8, 0)
           h4 == PUT(h3, 12, 0)
           g == PUT(h4, 20, 1)
<1>1. mm_init(w) = extend_heap(g, CHUNKSIZE).heap
  <2>1. PROLOGUE + WSIZE = 12 /\ PROLOGUE = 8 /\ 2 * DSIZE = 16 /\ 5 * WSIZE = 20 /\ NULL = 0
        /\ PACK(0, 1) = 1
    BY DEF PROLOGUE, WSIZE, DSIZE, NULL, PACK
  <2> QED  BY <2>1 DEF mm_init
<1>2. h0 \in Heaps /\ h0.brk = 0 /\ h0.root = 8
  BY DEF mem_reset_brk, Heaps, PROLOGUE, WSIZE
<1>3. h \in Heaps /\ h.brk = 24 /\ h.root = 8
  <2>1. ~(6 * WSIZE >= SizeRange \div 2 \/ h0.brk + 6 * WSIZE > MAX_HEAP)
    <3>1. 6 * WSIZE = 24 /\ MAX_HEAP >= 40 /\ SizeRange > 80 /\ MAX_HEAP \in Nat
          /\ SizeRange \in Nat /\ h0.brk = 0
      BY <1>2, MMHeapAssumption DEF WSIZE
    <3> HIDE DEF h0
    <3> QED  BY <3>1
  <2>2. h = [h0 EXCEPT !.brk = @ + 24] /\ 24 \in Nat
    <3>1. 6 * WSIZE = 24 /\ 24 < SizeRange /\ h0.brk = 0
      BY <1>2, MMHeapAssumption DEF WSIZE
    <3> HIDE DEF h0
    <3> QED  BY <2>1, <3>1, SbrkIs
  <2> HIDE DEF h0, h
  <2>3. PICK n \in Nat : n = 24
    OBVIOUS
  <2>4. h = [h0 EXCEPT !.brk = @ + n]
    BY <2>2, <2>3
  <2>5. h \in Heaps /\ h.brk = h0.brk + n /\ h.root = h0.root
    BY <1>2, <2>4, BrkIs
  <2> QED  BY <1>2, <2>3, <2>5
<1> HIDE DEF h
<1>4. 0 \in Words /\ 4 \in Words /\ 8 \in Words /\ 12 \in Words /\ 16 \in Words /\ 20 \in Words
  BY Numbers
<1>a. PICK x0 \in Words, x8 \in Words, x12 \in Words, x20 \in Words, n0 \in Int, n1 \in Int :
        x0 = 0 /\ x8 = 8 /\ x12 = 12 /\ x20 = 20 /\ n0 = 0 /\ n1 = 1
  BY <1>4
<1>b. /\ h1 = PUT(h, x0, n0) /\ h3 = PUT(h2, x8, n0) /\ h4 = PUT(h3, x12, n0)
      /\ g = PUT(h4, x20, n1)
  BY <1>a
<1>c. h2 = Tag(h1, 8, 16, 1)
  OBVIOUS
<1> HIDE DEF h1, h2, h3, h4, g
<1>5. h1 \in Heaps /\ h1.brk = 24 /\ h1.root = 8
  <2>1. Put1(h1, h, x0, n0)
    BY <1>3, <1>b, PutStep
  <2> QED  BY <1>3, <1>a, <2>1 DEF Put1
<1>6. /\ h2 \in Heaps /\ h2.brk = 24 /\ h2.root = 8 /\ GET(h2, 4) = 17 /\ GET(h2, 16) = 17
  <2>1. 4 = 8 - 4 /\ 16 = 8 + 16 - 8 /\ 17 = 16 + 1 /\ 17 \in Int
    OBVIOUS
  <2> HIDE DEF h2
  <2>2. Wrote(h2, h1, 4, 16, 17)
    BY <1>4, <1>5, <1>c, <2>1, TagIs
  <2> QED  BY <1>5, <2>2 DEF Wrote
<1>7. /\ h3 \in Heaps /\ h3.brk = 24 /\ h3.root = 8 /\ GET(h3, 8) = 0
      /\ \A x : x # 8 => GET(h3, x) = GET(h2, x)
  <2>1. Put1(h3, h2, x8, n0)
    BY <1>6, <1>b, PutStep
  <2> QED  BY <1>6, <1>a, <2>1 DEF Put1
<1>8. /\ h4 \in Heaps /\ h4.brk = 24 /\ h4.root = 8 /\ GET(h4, 12) = 0
      /\ \A x : x # 12 => GET(h4, x) = GET(h3, x)
  <2>1. Put1(h4, h3, x12, n0)
    BY <1>7, <1>b, PutStep
  <2> QED  BY <1>7, <1>a, <2>1 DEF Put1
<1>9. /\ g \in Heaps /\ g.brk = 24 /\ g.root = 8 /\ GET(g, 20) = 1
      /\ \A x : x # 20 => GET(g, x) = GET(h4, x)
  <2>1. Put1(g, h4, x20, n1)
    BY <1>8, <1>b, PutStep
  <2> QED  BY <1>8, <1>a, <2>1 DEF Put1
<1>10. GET(g, 4) = 17 /\ GET(g, 16) = 17 /\ GET(g, 8) = 0 /\ GET(g, 12) = 0
  BY <1>6, <1>7, <1>8, <1>9
<1> DEFINE S == [b \in {8} |-> 16]
           L == [n \in 0..0 |-> 8]
<1>11. Layout({8}, S, 24)
  <2>1. S[8] = 16 /\ 24 \in Nat /\ 24 % 8 = 0 /\ 24 <= MAX_HEAP /\ 8 % 8 = 0 /\ 16 % 8 = 0
    BY Numbers
  <2> HIDE DEF S
  <2>2. Tile({8}, S, 24, 8)
    BY <2>1 DEF Tile
  <2>3. \A b, c \in {8} : b < c => b + S[b] <= c
    BY <2>1
  <2>4. \A c \in ({8} \cup {24}) \ {8} : \E b \in {8} : b + S[b] = c
    BY <2>1
  <2> QED  BY <2>1, <2>2, <2>3, <2>4 DEF Layout
<1>12. Tagged(g, {8}, S, {})
  <2>1. S[8] = 16 /\ 8 - 4 = 4 /\ 8 + 16 - 8 = 16 /\ 24 - 4 = 20
    OBVIOUS
  <2> HIDE DEF S
  <2>2. TagOf(S, {}, 8) = 17
    BY <2>1 DEF TagOf
  <2> QED  BY <1>9, <1>10, <2>1, <2>2 DEF Tagged
<1>13. List(g, {})
  <2>1. L \in [0..0 -> Nat] /\ L[0] = 8
    OBVIOUS
  <2> HIDE DEF L
  <2>2. Linked(g, L, 0)
    <3>1. \A m, n \in 0..0 : m = n
      OBVIOUS
    <3>2. 0..(0 - 1) = {} /\ 8 + 4 = 12
      OBVIOUS
    <3> QED  BY <1>9, <1>10, <2>1, <3>1, <3>2, Numbers DEF Linked
  <2>3. Members(L, 0) = {}
    BY DEF Members
  <2> QED  BY <2>1, <2>2, <2>3 DEF List
<1> HIDE DEF S
<1>14. Good(g, {8}, S, {})
  BY <1>9, <1>11, <1>12, <1>13 DEF Good, Shape, Apart
<1> DEFINE r == extend_heap(g, CHUNKSIZE)
<1>15. /\ ~(CHUNKSIZE >= SizeRange \div 2 \/ g.brk + CHUNKSIZE > MAX_HEAP)
       /\ CHUNKSIZE \in Nat /\ CHUNKSIZE % 8 = 0 /\ CHUNKSIZE >= 16 /\ CHUNKSIZE < SizeRange
  <2>1. /\ CHUNKSIZE \in Nat /\ MAX_HEAP \in Nat /\ SizeRange \in Nat
        /\ MAX_HEAP >= 24 + CHUNKSIZE /\ SizeRange > 2 * MAX_HEAP /\ g.brk = 24
        /\ CHUNKSIZE % 8 = 0 /\ CHUNKSIZE >= 16
    BY <1>9, MMHeapAssumption
  <2> QED  BY <2>1
<1>16. Grown(r.heap, r.ptr, g, {8}, S, {}, CHUNKSIZE)
  BY <1>14, <1>15, ExtendHeap
<1>17. Fresh(r.heap)
  <2> HIDE DEF r
  <2>1. PICK B2, S2, E2 :
          /\ Good(r.heap, B2, S2, E2) /\ Same({8}, S, {}, B2, S2, E2)
          /\ r.heap.brk = g.brk + CHUNKSIZE
    BY <1>16 DEF Grown
  <2>2. B2 \ E2 = {8}
    BY <2>1 DEF Same
  <2> QED  BY <1>9, <2>1, <2>2 DEF Fresh
<1> QED  BY <1>1, <1>17

-----------------------------------------------------------------------------
(* The owner. *)

Having(p) == {j \in Ids : p[j] # NULL}

\* The blocks in U, beside the prologue, are those at p, large enough for z.
Owned(U, S, p, z) ==
    /\ 8 \in U /\ \A b \in U \ {8} : \E j \in Having(p) : b = p[j]
    /\ \A j \in Having(p) : p[j] \in U /\ p[j] # 8 /\ z[j] + 8 <= S[p[j]]
    /\ \A j, l \in Having(p) : p[j] = p[l] => j = l

Holding(h, p, k) ==
    \A j \in Having(p) : \A a \in Words : a \in p[j]..(p[j] + k[j] - 1) => GET(h, a) = -j

OwnerTypes(p, z, k) ==
    /\ p \in [Ids -> Nat] /\ z \in [Ids -> Nat] /\ k \in [Ids -> Nat]
    /\ \A j \in Ids : z[j] \in Sizes \cup {0} /\ k[j] <= z[j]

LEMMA OwnedMore ==
    ASSUME NEW p \in [Ids -> Nat], NEW z \in [Ids -> Nat], NEW U, NEW S, Owned(U, S, p, z),
           NEW i \in Ids, p[i] = NULL, NEW q \in Nat, q # NULL, q \notin U, NEW s \in Nat,
           NEW T, \A b \in U : T[b] = S[b], s + 8 <= T[q],
           NEW p2, p2 = [p EXCEPT ![i] = q], NEW z2, z2 = [z EXCEPT ![i] = s]
    PROVE  Owned(U \cup {q}, T, p2, z2)
<1>1. Having(p2) = Having(p) \cup {i} /\ i \notin Having(p)
  BY DEF Having
<1>2. /\ p2[i] = q /\ z2[i] = s
      /\ \A j \in Having(p) : p2[j] = p[j] /\ z2[j] = z[j] /\ p[j] \in U
  BY <1>1 DEF Owned, Having
<1>3. ASSUME NEW b \in (U \cup {q}) \ {8}
      PROVE  \E j \in Having(p2) : b = p2[j]
  <2>1. CASE b = q
    BY <1>1, <1>2, <2>1
  <2>2. CASE b \in U
    <3>1. PICK j \in Having(p) : b = p[j]
      BY <2>2 DEF Owned
    <3> QED  BY <1>1, <1>2, <3>1
  <2> QED  BY <2>1, <2>2
<1>4. 8 \in U
  BY DEF Owned
<1>5. ASSUME NEW j \in Having(p2)
      PROVE  p2[j] \in U \cup {q} /\ p2[j] # 8 /\ z2[j] + 8 <= T[p2[j]]
  <2>1. CASE j = i
    BY <1>2, <1>4, <2>1
  <2>2. CASE j # i
    <3>1. j \in Having(p) /\ p[j] \in U /\ p[j] # 8 /\ z[j] + 8 <= S[p[j]]
      BY <1>1, <2>2 DEF Owned
    <3>2. T[p[j]] = S[p[j]] /\ p2[j] = p[j] /\ z2[j] = z[j]
      BY <1>2, <3>1
    <3> QED  BY <3>1, <3>2
  <2> QED  BY <2>1, <2>2
<1>6. \A j, l \in Having(p2) : p2[j] = p2[l] => j = l
  BY <1>1, <1>2 DEF Owned
<1> QED  BY <1>3, <1>4, <1>5, <1>6 DEF Owned

LEMMA OwnedLess ==
    ASSUME NEW p \in [Ids -> Nat], NEW z \in [Ids -> Nat], NEW U, NEW S, Owned(U, S, p, z),
           NEW i \in Having(p),
           NEW T, \A b \in U \ {p[i]} : T[b] = S[b],
           NEW p2, p2 = [p EXCEPT ![i] = NULL], NEW z2, z2 = [z EXCEPT ![i] = 0]
    PROVE  Owned(U \ {p[i]}, T, p2, z2)
<1>1. i \in Ids /\ Having(p2) = Having(p) \ {i}
  BY DEF Having
<1>2. /\ \A j \in Having(p2) : p2[j] = p[j] /\ z2[j] = z[j] /\ p[j] \in U /\ p[j] # p[i]
      /\ p[i] # 8 /\ 8 \in U
  BY <1>1 DEF Owned, Having
<1>3. ASSUME NEW b \in (U \ {p[i]}) \ {8}
      PROVE  \E j \in Having(p2) : b = p2[j]
  <2>1. PICK j \in Having(p) : b = p[j]
    BY DEF Owned
  <2> QED  BY <1>1, <1>2, <2>1
<1>4. ASSUME NEW j \in Having(p2)
      PROVE  p2[j] \in U \ {p[i]} /\ p2[j] # 8 /\ z2[j] + 8 <= T[p2[j]]
  <2>1. j \in Having(p) /\ p[j] \in U /\ p[j] # 8 /\ z[j] + 8 <= S[p[j]]
    BY <1>1 DEF Owned
  <2>2. T[p[j]] = S[p[j]] /\ p2[j] = p[j] /\ z2[j] = z[j] /\ p[j] # p[i]
    BY <1>2
  <2> QED  BY <2>1, <2>2
<1>5. \A j, l \in Having(p2) : p2[j] = p2[l] => j = l
  BY <1>1, <1>2 DEF Owned
<1> QED  BY <1>2, <1>3, <1>4, <1>5 DEF Owned

\* What a call that leaves a block untouched leaves of its data.
HoldingBut(g, p, k, X) ==
    \A j \in Having(p) : p[j] \notin X =>
      \A a \in Words : a \in p[j]..(p[j] + k[j] - 1) => GET(g, a) = -j

LEMMA HoldsOn ==
    ASSUME NEW h, NEW B, NEW S, NEW E, Good(h, B, S, E), NEW p, NEW z, NEW k,
           OwnerTypes(p, z, k), Owned(B \ E, S, p, z), Holding(h, p, k),
           NEW g, NEW X, Untouched(g, h, B, S, E \cup X)
    PROVE  HoldingBut(g, p, k, X)
<1> SUFFICES ASSUME NEW j \in Having(p), p[j] \notin X,
                    NEW a \in Words, a \in p[j]..(p[j] + k[j] - 1)
             PROVE  GET(g, a) = -j
  BY DEF HoldingBut
<1>1. /\ p[j] \in B \ E /\ p[j] # 8 /\ z[j] + 8 <= S[p[j]] /\ j \in Ids
  BY DEF Owned, Having
<1>2. /\ p[j] \in Nat /\ z[j] \in Nat /\ k[j] \in Nat /\ k[j] <= z[j] /\ S[p[j]] \in Nat
      /\ a \in Int
  BY <1>1, Numbers DEF OwnerTypes, Good, Shape, Layout, Tile
<1>3. a \in p[j]..(p[j] + S[p[j]] - 9)
  BY <1>1, <1>2
<1>4. GET(g, a) = GET(h, a)
  BY <1>1, <1>3 DEF Untouched
<1> QED  BY <1>4 DEF Holding

\* The inductive invariant, of a heap and an owner: the heap has a good shape for some
\* blocks, and those in use are the owner's.
Holds(h, p, z, k) ==
    /\ OwnerTypes(p, z, k) /\ Holding(h, p, k) /\ h.brk >= 24 + CHUNKSIZE
    /\ \E B, S, E : Good(h, B, S, E) /\ Owned(B \ E, S, p, z)

LEMMA SizesAre ==
    ASSUME NoWrap, NEW s \in Sizes
    PROVE  s \in Nat /\ s + 15 < SizeRange
  BY MMHeapAssumption DEF NoWrap, DSIZE

LEMMA MallocHolds ==
    ASSUME NoWrap, NEW h, NEW p, NEW z, NEW k, Holds(h, p, z, k),
           NEW i \in Ids, p[i] = NULL, NEW s \in Sizes,
           NEW m, m = mm_malloc(h, s), m.ptr # NULL, NEW g, g = Fill(m.heap, m.ptr, s, i),
           NEW p2, p2 = [p EXCEPT ![i] = m.ptr], NEW z2, z2 = [z EXCEPT ![i] = s],
           NEW k2, k2 = [k EXCEPT ![i] = s]
    PROVE  Holds(g, p2, z2, k2)
<1>1. s \in Nat /\ s + 15 < SizeRange
  BY SizesAre
<1>2. PICK B, S, E : Good(h, B, S, E) /\ Owned(B \ E, S, p, z)
  BY DEF Holds
<1>3. Allocates(m, h, B, S, E, s)
  BY <1>1, <1>2, MallocIs
<1>4. PICK B2, S2, E2 :
        /\ Good(m.heap, B2, S2, E2) /\ B2 \ E2 = (B \ E) \cup {m.ptr} /\ m.ptr \notin B \ E
        /\ \A b \in B \ E : S2[b] = S[b]
        /\ S2[m.ptr] >= Asize(s) /\ Untouched(m.heap, h, B, S, E)
  BY <1>3 DEF Allocates, Obtained
<1>5. PICK q : q = m.ptr
  OBVIOUS
<1>6. /\ q \in B2 \ E2 /\ q \in Nat /\ S2[q] \in Nat /\ s + 8 <= S2[q] /\ m.heap \in Heaps
  <2>1. q \in B2 \ E2 /\ q \in Nat /\ S2[q] \in Nat /\ m.heap \in Heaps
    BY <1>4, <1>5 DEF Good, Shape, Layout, Tile
  <2>2. Asize(s) \in Nat /\ Asize(s) >= s + 8
    BY <1>1, AsizeIs
  <2> QED  BY <1>1, <1>4, <1>5, <2>1, <2>2
<1>7. q # 8
  BY <1>2, <1>4, <1>5 DEF Owned
<1>8. /\ OwnerTypes(p, z, k) /\ p \in [Ids -> Nat] /\ z \in [Ids -> Nat] /\ k \in [Ids -> Nat]
      /\ h.brk >= 24 + CHUNKSIZE /\ Holding(h, p, k) /\ i \in Nat
  BY MMHeapAssumption DEF Holds, OwnerTypes
<1>9. Owned((B \ E) \cup {q}, S2, p2, z2)
  BY <1>1, <1>2, <1>4, <1>5, <1>6, <1>8, OwnedMore
<1>10. /\ g \in Heaps /\ g.brk = m.heap.brk /\ g.root = m.heap.root
       /\ \A x : GET(g, x) = IF x \in Words /\ x \in q..(q + s - 1) THEN -i ELSE GET(m.heap, x)
  BY <1>5, <1>6, <1>8, FillIs
<1>11. Good(g, B2, S2, E2) /\ Untouched(g, m.heap, B2, S2, E2 \cup {q})
  <2>1. \A x : x \notin q..(q + S2[q] - 9) => GET(g, x) = GET(m.heap, x)
    <3>1. \A x : x \in q..(q + s - 1) => x \in q..(q + S2[q] - 9)
      BY <1>1, <1>6
    <3> QED  BY <1>10, <3>1
  <2> QED  BY <1>4, <1>6, <1>7, <1>10, <2>1, DataStep
<1>12. OwnerTypes(p2, z2, k2)
  BY <1>1, <1>5, <1>6, <1>8 DEF OwnerTypes
<1>13. Holding(g, p2, k2)
  <2>1. Untouched(g, h, B, S, E)
    <3>1. Keeps(B, S, E, B2, S2, E2 \cup {q})
      BY <1>4, <1>5 DEF Keeps
    <3> QED  BY <1>4, <1>11, <3>1, UntouchedTrans
  <2>2. HoldingBut(g, p, k, {})
    <3>1. PICK X : X = {}
      OBVIOUS
    <3>2. E \cup X = E
      BY <3>1
    <3>3. Untouched(g, h, B, S, E \cup X)
      BY <2>1, <3>2
    <3>4. HoldingBut(g, p, k, X)
      BY <1>2, <1>8, <3>3, HoldsOn
    <3> QED  BY <3>1, <3>4
  <2> SUFFICES ASSUME NEW j \in Having(p2), NEW a \in Words, a \in p2[j]..(p2[j] + k2[j] - 1)
               PROVE  GET(g, a) = -j
    BY DEF Holding
  <2>3. CASE j = i
    <3>1. a \in q..(q + s - 1)
      BY <1>5, <1>8, <2>3
    <3> QED  BY <1>10, <2>3, <3>1
  <2>4. CASE j # i
    <3>1. j \in Having(p) /\ p2[j] = p[j] /\ k2[j] = k[j]
      BY <1>8, <2>4 DEF Having
    <3>2. a \in p[j]..(p[j] + k[j] - 1)
      BY <3>1
    <3> QED  BY <2>2, <3>1, <3>2 DEF HoldingBut
  <2> QED  BY <2>3, <2>4
<1>14. g.brk >= 24 + CHUNKSIZE
  <2>1. m.heap.brk \in Nat /\ h.brk \in Nat /\ m.heap.brk >= h.brk
    BY <1>2, <1>3 DEF Allocates, Good, Shape, Layout
  <2> QED  BY <1>8, <1>10, <2>1, Numbers
<1>15. Good(g, B2, S2, E2) /\ Owned(B2 \ E2, S2, p2, z2)
  <2>1. B2 \ E2 = (B \ E) \cup {q}
    BY <1>4, <1>5
  <2> QED  BY <1>9, <1>11, <2>1
<1>16. \E C, T, D : Good(g, C, T, D) /\ Owned(C \ D, T, p2, z2)
  BY <1>15
<1> QED  BY <1>12, <1>13, <1>14, <1>16 DEF Holds

\* However the heap h is described, g is h with the block bp freed.
Frees(g, h, bp) ==
    \A B, S, E : Good(h, B, S, E) /\ bp \in B \ E /\ bp # 8 => Freed(g, h, B, S, E, bp)

LEMMA FreeHolds ==
    ASSUME NEW h, NEW p, NEW z, NEW k, Holds(h, p, z, k), NEW i \in Having(p),
           NEW g, Frees(g, h, p[i]),
           NEW p2, p2 = [p EXCEPT ![i] = NULL], NEW z2, z2 = [z EXCEPT ![i] = 0],
           NEW k2, k2 = [k EXCEPT ![i] = 0]
    PROVE  Holds(g, p2, z2, k2)
<1>1. PICK B, S, E : Good(h, B, S, E) /\ Owned(B \ E, S, p, z)
  BY DEF Holds
<1>2. p[i] \in B \ E /\ p[i] # 8 /\ i \in Ids
  BY <1>1 DEF Owned, Having
<1>3. PICK B2, S2, E2 :
        /\ Good(g, B2, S2, E2) /\ B2 \ E2 = (B \ E) \ {p[i]}
        /\ \A b \in (B \ E) \ {p[i]} : S2[b] = S[b]
        /\ Untouched(g, h, B, S, E \cup {p[i]}) /\ g.brk = h.brk
  <2>1. Freed(g, h, B, S, E, p[i])
    BY <1>1, <1>2 DEF Frees
  <2> QED  BY <2>1 DEF Freed
<1>4. /\ OwnerTypes(p, z, k) /\ p \in [Ids -> Nat] /\ z \in [Ids -> Nat] /\ k \in [Ids -> Nat]
      /\ h.brk >= 24 + CHUNKSIZE /\ Holding(h, p, k)
  BY DEF Holds, OwnerTypes
<1>5. Owned(B2 \ E2, S2, p2, z2)
  <2>1. PICK U : U = B \ E
    OBVIOUS
  <2>2. Owned(U, S, p, z) /\ \A b \in U \ {p[i]} : S2[b] = S[b]
    BY <1>1, <1>3, <2>1
  <2>3. Owned(U \ {p[i]}, S2, p2, z2)
    BY <1>4, <2>2, OwnedLess
  <2> QED  BY <1>3, <2>1, <2>3
<1>6. OwnerTypes(p2, z2, k2)
  BY <1>2, <1>4, Numbers DEF OwnerTypes
<1>7. Holding(g, p2, k2)
  <2>1. HoldingBut(g, p, k, {p[i]})
    BY <1>1, <1>3, <1>4, HoldsOn
  <2> SUFFICES ASSUME NEW j \in Having(p2), NEW a \in Words, a \in p2[j]..(p2[j] + k2[j] - 1)
               PROVE  GET(g, a) = -j
    BY DEF Holding
  <2>2. j \in Having(p) /\ j # i /\ p2[j] = p[j] /\ k2[j] = k[j]
    BY <1>2, <1>4 DEF Having
  <2>3. p[j] # p[i]
    BY <1>1, <2>2 DEF Owned
  <2>4. a \in p[j]..(p[j] + k[j] - 1)
    BY <2>2
  <2> QED  BY <2>1, <2>2, <2>3, <2>4 DEF HoldingBut
<1>8. g.brk >= 24 + CHUNKSIZE
  BY <1>3, <1>4
<1> QED  BY <1>3, <1>5, <1>6, <1>7, <1>8 DEF Holds

LEMMA WriteHolds ==
    ASSUME NEW h, NEW p, NEW z, NEW k, Holds(h, p, z, k), NEW i \in Having(p),
           NEW g, g = Fill(h, p[i], z[i], i), NEW k2, k2 = [k EXCEPT ![i] = z[i]]
    PROVE  Holds(g, p, z, k2)
<1>1. PICK B, S, E : Good(h, B, S, E) /\ Owned(B \ E, S, p, z)
  BY DEF Holds
<1>2. p[i] \in B \ E /\ p[i] # 8 /\ i \in Ids /\ i \in Nat /\ z[i] + 8 <= S[p[i]]
  BY <1>1, MMHeapAssumption DEF Owned, Having
<1>3. /\ OwnerTypes(p, z, k) /\ p \in [Ids -> Nat] /\ z \in [Ids -> Nat] /\ k \in [Ids -> Nat]
      /\ h.brk >= 24 + CHUNKSIZE /\ Holding(h, p, k)
  BY DEF Holds, OwnerTypes
<1>4. PICK q, s : q = p[i] /\ s = z[i]
  OBVIOUS
<1>5. h \in Heaps /\ q \in Nat /\ s \in Nat /\ S[q] \in Nat /\ q \in B \ E /\ q # 8
      /\ s + 8 <= S[q] /\ g = Fill(h, q, s, i)
  BY <1>1, <1>2, <1>3, <1>4 DEF Good, Shape, Layout, Tile
<1>6. /\ g \in Heaps /\ g.brk = h.brk /\ g.root = h.root
      /\ \A x : GET(g, x) = IF x \in Words /\ x \in q..(q + s - 1) THEN -i ELSE GET(h, x)
  BY <1>2, <1>5, FillIs
<1>7. Good(g, B, S, E) /\ Untouched(g, h, B, S, E \cup {q})
  <2>1. \A x : x \in q..(q + s - 1) => x \in q..(q + S[q] - 9)
    BY <1>5
  <2>2. \A x : x \notin q..(q + S[q] - 9) => GET(g, x) = GET(h, x)
    BY <1>6, <2>1
  <2> QED  BY <1>1, <1>5, <1>6, <2>2, DataStep
<1>8. OwnerTypes(p, z, k2)
  BY <1>2, <1>3 DEF OwnerTypes
<1>9. Holding(g, p, k2)
  <2>1. HoldingBut(g, p, k, {q})
    BY <1>1, <1>3, <1>7, HoldsOn
  <2> SUFFICES ASSUME NEW j \in Having(p), NEW a \in Words, a \in p[j]..(p[j] + k2[j] - 1)
               PROVE  GET(g, a) = -j
    BY DEF Holding
  <2>2. CASE j = i
    <3>1. a \in q..(q + s - 1)
      BY <1>2, <1>3, <1>4, <2>2
    <3> QED  BY <1>6, <2>2, <3>1
  <2>3. CASE j # i
    <3>1. k2[j] = k[j] /\ p[j] # p[i]
      BY <1>1, <1>3, <2>3 DEF Owned, Having
    <3>2. a \in p[j]..(p[j] + k[j] - 1)
      BY <3>1
    <3> QED  BY <1>4, <2>1, <3>1, <3>2 DEF HoldingBut
  <2> QED  BY <2>2, <2>3
<1>10. g.brk >= 24 + CHUNKSIZE
  BY <1>3, <1>6
<1>11. \E C, T, D : Good(g, C, T, D) /\ Owned(C \ D, T, p, z)
  BY <1>1, <1>7
<1> QED  BY <1>8, <1>9, <1>10, <1>11 DEF Holds

LEMMA FreshHolds ==
    ASSUME NEW h, Fresh(h), NEW p, p = [i \in Ids |-> NULL], NEW z, z = [i \in Ids |-> 0]
    PROVE  Holds(h, p, z, z)
<1>1. PICK B, S, E : Good(h, B, S, E) /\ B \ E = {8} /\ h.brk = 24 + CHUNKSIZE
  BY DEF Fresh
<1>2. Having(p) = {}
  BY DEF Having
<1>3. Owned(B \ E, S, p, z)
  BY <1>1, <1>2 DEF Owned
<1>4. OwnerTypes(p, z, z)
  BY Numbers DEF OwnerTypes
<1>5. Holding(h, p, z)
  BY <1>2 DEF Holding
<1>6. h.brk >= 24 + CHUNKSIZE
  BY <1>1, Numbers
<1> QED  BY <1>1, <1>3, <1>4, <1>5, <1>6 DEF Holds

\* Words of two aligned blocks that are as far from their starts.
LEMMA SameOffset ==
    ASSUME NEW a \in Words, NEW q \in Nat, q % 8 = 0, NEW b \in Nat, b % 8 = 0, q <= a,
           a - q + b < MAX_HEAP
    PROVE  a - q + b \in Words
<1>1. a \in Int /\ a % 4 = 0 /\ MAX_HEAP \in Nat
  BY Numbers
<1>2. PICK x \in Nat : q = 8 * x
  BY Eights
<1>3. PICK y \in Nat : b = 8 * y
  BY Eights
<1>4. (a - q + b) % 4 = 0
  BY <1>1, <1>2, <1>3
<1>5. a - q + b \in Int /\ 0 <= a - q + b
  BY <1>1
<1> QED  BY <1>4, <1>5, Numbers

LEMMA OwnedMoves ==
    ASSUME NEW p \in [Ids -> Nat], NEW z \in [Ids -> Nat], NEW U, NEW S, Owned(U, S, p, z),
           NEW i \in Having(p), NEW q \in Nat, q # NULL, q \notin U, NEW s \in Nat,
           NEW T, \A b \in U \ {p[i]} : T[b] = S[b], s + 8 <= T[q],
           NEW p2, p2 = [p EXCEPT ![i] = q], NEW z2, z2 = [z EXCEPT ![i] = s]
    PROVE  Owned((U \ {p[i]}) \cup {q}, T, p2, z2)
<1>1. /\ i \in Ids /\ Having(p2) = Having(p) /\ p2[i] = q /\ z2[i] = s
      /\ p[i] # 8 /\ 8 \in U
  BY DEF Having, Owned
<1>2. ASSUME NEW j \in Having(p), j # i
      PROVE  /\ p2[j] = p[j] /\ z2[j] = z[j] /\ p[j] \in U \ {p[i]} /\ p[j] # q
             /\ p[j] # 8 /\ z[j] + 8 <= S[p[j]] /\ T[p[j]] = S[p[j]]
  BY <1>1, <1>2 DEF Owned, Having
<1>3. ASSUME NEW b \in ((U \ {p[i]}) \cup {q}) \ {8}
      PROVE  \E j \in Having(p2) : b = p2[j]
  <2>1. CASE b = q
    BY <1>1, <2>1
  <2>2. CASE b # q
    <3>1. PICK j \in Having(p) : b = p[j] /\ b # p[i]
      BY <2>2 DEF Owned
    <3> QED  BY <1>1, <1>2, <3>1
  <2> QED  BY <2>1, <2>2
<1>4. ASSUME NEW j \in Having(p2)
      PROVE  p2[j] \in (U \ {p[i]}) \cup {q} /\ p2[j] # 8 /\ z2[j] + 8 <= T[p2[j]]
  <2>1. CASE j = i
    BY <1>1, <2>1
  <2>2. CASE j # i
    <3>1. /\ p2[j] = p[j] /\ z2[j] = z[j] /\ p[j] \in U \ {p[i]}
          /\ p[j] # 8 /\ z[j] + 8 <= S[p[j]] /\ T[p[j]] = S[p[j]]
      BY <1>1, <1>2, <2>2
    <3> QED  BY <3>1
  <2> QED  BY <2>1, <2>2
<1>5. \A j, l \in Having(p2) : p2[j] = p2[l] => j = l
  BY <1>1, <1>2 DEF Owned
<1> QED  BY <1>1, <1>3, <1>4, <1>5 DEF Owned

Moves(g, q, h, bp, s) ==
    \A B, S, E : Good(h, B, S, E) /\ bp \in B \ E /\ bp # 8 => Moved(g, q, h, B, S, E, bp, s)

LEMMA MovedHolds ==
    ASSUME NoWrap, NEW h, NEW p, NEW z, NEW k, Holds(h, p, z, k), NEW i \in Having(p),
           NEW s \in Sizes, NEW g, NEW q, Moves(g, q, h, p[i], s),
           NEW p2, p2 = [p EXCEPT ![i] = q], NEW z2, z2 = [z EXCEPT ![i] = s],
           NEW k2, k2 = [k EXCEPT ![i] = Least(k[i], s)]
    PROVE  Holds(g, p2, z2, k2)
<1>1. PICK B, S, E : Good(h, B, S, E) /\ Owned(B \ E, S, p, z)
  BY DEF Holds
<1>2. p[i] \in B \ E /\ p[i] # 8 /\ i \in Ids /\ z[i] + 8 <= S[p[i]]
  BY <1>1 DEF Owned, Having
<1>3. /\ OwnerTypes(p, z, k) /\ p \in [Ids -> Nat] /\ z \in [Ids -> Nat] /\ k \in [Ids -> Nat]
      /\ h.brk >= 24 + CHUNKSIZE /\ Holding(h, p, k)
  BY DEF Holds, OwnerTypes
<1>4. s \in Nat /\ s + 15 < SizeRange
  BY SizesAre
<1>5. PICK bp : bp = p[i]
  OBVIOUS
<1>6. Moved(g, q, h, B, S, E, bp, s)
  BY <1>1, <1>2, <1>5 DEF Moves
<1>7. PICK B2, S2, E2 :
        /\ Good(g, B2, S2, E2) /\ B2 \ E2 = ((B \ E) \cup {q}) \ {bp} /\ q \notin B \ E
        /\ \A b \in (B \ E) \ {bp} : S2[b] = S[b]
        /\ S2[q] >= Asize(s) /\ Untouched(g, h, B, S, E \cup {bp})
  BY <1>6 DEF Moved
<1>8. /\ q # NULL /\ q \in B2 \ E2 /\ q \in Nat /\ q % 8 = 0 /\ s + 8 <= S2[q]
      /\ bp \in Nat /\ bp % 8 = 0 /\ S[bp] \in Nat /\ bp + S[bp] <= MAX_HEAP
  <2>1. q # NULL /\ q \in B2 \ E2
    BY <1>2, <1>5, <1>6, <1>7 DEF Moved
  <2>2. q \in Nat /\ q % 8 = 0 /\ S2[q] \in Nat
    BY <1>7, <2>1 DEF Good, Shape, Layout, Tile
  <2>3. /\ bp \in Nat /\ bp % 8 = 0 /\ S[bp] \in Nat /\ bp + S[bp] <= h.brk
        /\ h.brk <= MAX_HEAP /\ h.brk \in Nat
    BY <1>1, <1>2, <1>5 DEF Good, Shape, Layout, Tile
  <2>4. Asize(s) \in Nat /\ Asize(s) >= s + 8
    BY <1>4, AsizeIs
  <2>5. s + 8 <= S2[q] /\ bp + S[bp] <= MAX_HEAP
    BY <1>4, <1>7, <2>2, <2>3, <2>4, Numbers
  <2> QED  BY <2>1, <2>2, <2>3, <2>5
<1>9. PICK n : n = Least(k[i], s)
  OBVIOUS
<1>10. /\ n \in Nat /\ n <= s /\ n <= k[i] /\ k[i] <= z[i]
       /\ k[i] \in Nat /\ z[i] \in Nat
  BY <1>2, <1>3, <1>4, <1>9 DEF Least, OwnerTypes
<1>11. Owned(B2 \ E2, S2, p2, z2)
  <2>1. PICK U : U = B \ E
    OBVIOUS
  <2>2. /\ Owned(U, S, p, z) /\ \A b \in U \ {p[i]} : S2[b] = S[b]
        /\ q \notin U /\ p[i] \in U /\ B2 \ E2 = (U \ {p[i]}) \cup {q}
    BY <1>1, <1>2, <1>5, <1>7, <2>1
  <2>3. Owned((U \ {p[i]}) \cup {q}, S2, p2, z2)
    BY <1>3, <1>4, <1>8, <2>2, OwnedMoves
  <2> QED  BY <2>2, <2>3
<1>12. OwnerTypes(p2, z2, k2)
  BY <1>2, <1>3, <1>4, <1>8, <1>9, <1>10 DEF OwnerTypes
<1>13. Holding(g, p2, k2)
  <2>1. HoldingBut(g, p, k, {bp})
    BY <1>1, <1>3, <1>7, HoldsOn
  <2> SUFFICES ASSUME NEW j \in Having(p2), NEW a \in Words, a \in p2[j]..(p2[j] + k2[j] - 1)
               PROVE  GET(g, a) = -j
    BY DEF Holding
  <2>2. CASE j = i
    <3>1. a \in q..(q + n - 1) /\ a \in Int
      BY <1>2, <1>3, <1>9, <2>2, Numbers
    <3>2. q <= a /\ a < q + s /\ a < q + S[bp] - 8 /\ a - q + bp < MAX_HEAP
          /\ a - q + bp \in bp..(bp + k[i] - 1)
      BY <1>2, <1>4, <1>5, <1>8, <1>10, <3>1, Numbers
    <3>3. GET(g, a) = GET(h, a - q + bp)
      BY <1>6, <3>2 DEF Moved
    <3>4. a - q + bp \in Words
      BY <1>8, <3>2, SameOffset
    <3> QED  BY <1>3, <1>5, <2>2, <3>2, <3>3, <3>4 DEF Holding
  <2>3. CASE j # i
    <3>1. j \in Having(p) /\ p2[j] = p[j] /\ k2[j] = k[j] /\ p[j] # p[i]
      BY <1>1, <1>3, <2>3 DEF Owned, Having
    <3>2. a \in p[j]..(p[j] + k[j] - 1)
      BY <3>1
    <3> QED  BY <1>5, <2>1, <3>1, <3>2 DEF HoldingBut
  <2> QED  BY <2>2, <2>3
<1>14. g.brk >= 24 + CHUNKSIZE
  <2>1. g.brk \in Nat /\ h.brk \in Nat /\ g.brk >= h.brk
    BY <1>1, <1>6 DEF Moved, Good, Shape, Layout
  <2> QED  BY <1>3, <2>1, Numbers
<1> QED  BY <1>7, <1>11, <1>12, <1>13, <1>14 DEF Holds

-----------------------------------------------------------------------------
(* The inductive invariant of the specification. *)

\* For some blocks of some sizes, some of them free, the heap has a good shape, and
\* the blocks in use are the owner's and hold its data.
HeapInv == Holds(heap, ptr, size, kept)

LEMMA HeapNext ==
    ASSUME NEW g, NEW p, NEW z, NEW k, Holds(g, p, z, k), SetHeap(g),
           ptr' = p, size' = z, kept' = k
    PROVE  HeapInv'
<1>1. g \in Heaps
  BY DEF Holds, Good, Shape
<1>2. heap' = g
  BY <1>1 DEF Heaps, SetHeap, heap
<1> QED  BY <1>2 DEF HeapInv

LEMMA InitHolds ==
    ASSUME Init
    PROVE  HeapInv
<1> DEFINE w == [a \in Words |-> 0]
           h == mm_init(w)
<1>1. w \in [Words -> Int]
  OBVIOUS
<1> HIDE DEF w
<1>2. Fresh(h)
  BY <1>1, InitIs
<1>3. Init => heap = [mem |-> h.mem, brk |-> h.brk, root |-> h.root]
              /\ ptr = [i \in Ids |-> NULL] /\ size = [i \in Ids |-> 0] /\ kept = size
  BY DEF Init, heap, w
<1> HIDE DEF h
<1>4. h \in Heaps
  BY <1>2 DEF Fresh, Good, Shape
<1>5. heap = h
  BY <1>3, <1>4 DEF Heaps
<1>6. Holds(h, ptr, size, size)
  BY <1>2, <1>3, FreshHolds
<1> QED  BY <1>3, <1>5, <1>6 DEF HeapInv

LEMMA MallocStep ==
    ASSUME NoWrap, HeapInv, NEW i \in Ids, NEW s \in Sizes, Malloc(i, s)
    PROVE  HeapInv'
<1>1. PICK h, p, z, k : h = heap /\ p = ptr /\ z = size /\ k = kept
  OBVIOUS
<1>2. Holds(h, p, z, k) /\ p[i] = NULL
  BY <1>1 DEF HeapInv, Malloc
<1>3. PICK m : m = mm_malloc(h, s)
  OBVIOUS
<1>4. CASE m.ptr = NULL
  <2>1. SetHeap(m.heap) /\ UNCHANGED owner
    BY <1>1, <1>3, <1>4 DEF Malloc
  <2>2. m.heap = h
    <3>1. PICK B, S, E : Good(h, B, S, E)
      BY <1>2 DEF Holds
    <3> QED  BY <1>3, <1>4, <3>1, SizesAre, MallocIs DEF Allocates
  <2>3. SetHeap(h) /\ ptr' = p /\ size' = z /\ kept' = k
    BY <1>1, <2>1, <2>2 DEF owner
  <2> QED  BY <1>2, <2>3, HeapNext
<1>5. CASE m.ptr # NULL
  <2>1. PICK g : g = Fill(m.heap, m.ptr, s, i)
    OBVIOUS
  <2>2. SetHeap(g) /\ Block(i, m.ptr, s, s)
    BY <1>1, <1>3, <1>5, <2>1 DEF Malloc
  <2>3. PICK p2, z2, k2 : /\ p2 = [p EXCEPT ![i] = m.ptr] /\ z2 = [z EXCEPT ![i] = s]
                          /\ k2 = [k EXCEPT ![i] = s]
    OBVIOUS
  <2>4. ptr' = p2 /\ size' = z2 /\ kept' = k2
    BY <1>1, <2>2, <2>3 DEF Block
  <2>5. Holds(g, p2, z2, k2)
    BY <1>2, <1>3, <1>5, <2>1, <2>3, MallocHolds
  <2> QED  BY <2>2, <2>4, <2>5, HeapNext
<1> QED  BY <1>4, <1>5

LEMMA WriteStep ==
    ASSUME HeapInv, NEW i \in Ids, Write(i)
    PROVE  HeapInv'
<1>1. PICK h, p, z, k : h = heap /\ p = ptr /\ z = size /\ k = kept
  OBVIOUS
<1>2. Holds(h, p, z, k) /\ i \in Having(p)
  BY <1>1 DEF HeapInv, Write, Having
<1>3. PICK g, k2 : g = Fill(h, p[i], z[i], i) /\ k2 = [k EXCEPT ![i] = z[i]]
  OBVIOUS
<1>4. SetHeap(g) /\ ptr' = p /\ size' = z /\ kept' = k2
  <2>1. p \in [Ids -> Nat] /\ z \in [Ids -> Nat]
    BY <1>2 DEF Holds, OwnerTypes
  <2>2. [p EXCEPT ![i] = p[i]] = p /\ [z EXCEPT ![i] = z[i]] = z
    BY <2>1
  <2> QED  BY <1>1, <1>3, <2>2 DEF Write, Block
<1>5. Holds(g, p, z, k2)
  BY <1>2, <1>3, WriteHolds
<1> QED  BY <1>4, <1>5, HeapNext

LEMMA FreeStep ==
    ASSUME HeapInv, NEW i \in Ids, Free(i)
    PROVE  HeapInv'
<1>1. PICK h, p, z, k : h = heap /\ p = ptr /\ z = size /\ k = kept
  OBVIOUS
<1>2. Holds(h, p, z, k) /\ i \in Having(p)
  BY <1>1 DEF HeapInv, Free, Having
<1>3. PICK g, p2, z2, k2 :
        /\ g = mm_free(h, p[i]) /\ p2 = [p EXCEPT ![i] = NULL]
        /\ z2 = [z EXCEPT ![i] = 0] /\ k2 = [k EXCEPT ![i] = 0]
  OBVIOUS
<1>4. SetHeap(g) /\ ptr' = p2 /\ size' = z2 /\ kept' = k2
  BY <1>1, <1>3 DEF Free, Block
<1>5. Frees(g, h, p[i])
  BY <1>3, FreeIs DEF Frees
<1>6. Holds(g, p2, z2, k2)
  BY <1>2, <1>3, <1>5, FreeHolds
<1> QED  BY <1>4, <1>6, HeapNext

LEMMA ReallocStep ==
    ASSUME NoWrap, HeapInv, NEW i \in Ids, NEW s \in Sizes, Realloc(i, s)
    PROVE  HeapInv'
<1>1. PICK h, p, z, k : h = heap /\ p = ptr /\ z = size /\ k = kept
  OBVIOUS
<1>2. Holds(h, p, z, k) /\ i \in Having(p)
  BY <1>1 DEF HeapInv, Realloc, Having
<1>3. PICK bp, m : bp = p[i] /\ m = mm_realloc(h, bp, s)
  OBVIOUS
<1>4. /\ SetHeap(m.heap)
      /\ s # 0 /\ m.ptr = NULL => ptr' = p /\ size' = z /\ kept' = k
      /\ ~(s # 0 /\ m.ptr = NULL) => Block(i, m.ptr, s, Least(k[i], s))
  BY <1>1, <1>3 DEF Realloc, owner
<1>5. PICK B, S, E : Good(h, B, S, E) /\ Owned(B \ E, S, p, z)
  BY <1>2 DEF Holds
<1>6. ASSUME NEW C, NEW T, NEW D, Good(h, C, T, D), bp \in C \ D, bp # 8
      PROVE  \/ s = 0 /\ m.ptr = NULL /\ Freed(m.heap, h, C, T, D, bp)
             \/ s # 0 /\ m.ptr = NULL /\ m.heap = h
             \/ Moved(m.heap, m.ptr, h, C, T, D, bp, s)
  BY <1>3, <1>6, SizesAre, ReallocIs
<1>7. bp \in B \ E /\ bp # 8
  BY <1>2, <1>3, <1>5 DEF Owned
<1>8. CASE s = 0
  <2>1. Frees(m.heap, h, bp)
    BY <1>6, <1>8 DEF Moved, Frees
  <2>2. m.ptr = NULL
    BY <1>5, <1>6, <1>7, <1>8 DEF Moved
  <2>3. PICK g, p2, z2, k2 :
          /\ g = m.heap /\ p2 = [p EXCEPT ![i] = NULL]
          /\ z2 = [z EXCEPT ![i] = 0] /\ k2 = [k EXCEPT ![i] = 0]
    OBVIOUS
  <2>4. SetHeap(g) /\ ptr' = p2 /\ size' = z2 /\ kept' = k2
    <3>1. k[i] \in Nat
      BY <1>2 DEF Holds, OwnerTypes
    <3>2. Least(k[i], 0) = 0
      BY <3>1 DEF Least
    <3> QED  BY <1>1, <1>4, <1>8, <2>2, <2>3, <3>2 DEF Block
  <2>5. Frees(g, h, p[i])
    BY <1>3, <2>1, <2>3
  <2>6. Holds(g, p2, z2, k2)
    BY <1>2, <2>3, <2>5, FreeHolds
  <2> QED  BY <2>4, <2>6, HeapNext
<1>9. CASE s # 0 /\ m.ptr = NULL
  <2>1. m.heap = h
    BY <1>5, <1>6, <1>7, <1>9 DEF Moved
  <2> QED  BY <1>2, <1>4, <1>9, <2>1, HeapNext
<1>10. CASE s # 0 /\ m.ptr # NULL
  <2>1. Moves(m.heap, m.ptr, h, bp, s)
    BY <1>6, <1>10 DEF Moves
  <2>2. PICK g, q, p2, z2, k2 :
          /\ g = m.heap /\ q = m.ptr /\ p2 = [p EXCEPT ![i] = q]
          /\ z2 = [z EXCEPT ![i] = s] /\ k2 = [k EXCEPT ![i] = Least(k[i], s)]
    OBVIOUS
  <2>3. SetHeap(g) /\ ptr' = p2 /\ size' = z2 /\ kept' = k2
    BY <1>1, <1>4, <1>10, <2>2 DEF Block
  <2>4. Moves(g, q, h, p[i], s)
    BY <1>3, <2>1, <2>2
  <2>5. Holds(g, p2, z2, k2)
    BY <1>2, <2>2, <2>4, MovedHolds
  <2> QED  BY <2>3, <2>5, HeapNext
<1> QED  BY <1>8, <1>9, <1>10

LEMMA NextTraceStep ==
    ASSUME HeapInv, NextTrace
    PROVE  HeapInv'
<1>1. PICK w : w = mem
  OBVIOUS
<1>2. w \in [Words -> Int]
  <2>1. heap \in Heaps
    BY DEF HeapInv, Holds, Good, Shape
  <2> QED  BY <1>1, <2>1 DEF heap, Heaps
<1>3. PICK g, p, z : g = mm_init(w) /\ p = [i \in Ids |-> NULL] /\ z = [i \in Ids |-> 0]
  OBVIOUS
<1>4. Holds(g, p, z, z)
  BY <1>2, <1>3, InitIs, FreshHolds
<1>5. SetHeap(g) /\ ptr' = p /\ size' = z /\ kept' = z
  BY <1>1, <1>3 DEF NextTrace
<1> QED  BY <1>4, <1>5, HeapNext

LEMMA HeapInvStep ==
    ASSUME NoWrap, HeapInv, [Next]_vars
    PROVE  HeapInv'
<1>1. CASE Next
  BY <1>1, MallocStep, ReallocStep, WriteStep, FreeStep, NextTraceStep DEF Next
<1>2. CASE UNCHANGED vars
  <2>1. heap' = heap /\ ptr' = ptr /\ size' = size /\ kept' = kept
    BY <1>2 DEF vars, owner, heap
  <2> QED  BY <2>1 DEF HeapInv
<1> QED  BY <1>1, <1>2

\* The tags, the links and the owner's data agree after every call of the package.
THEOREM HeapInvariant ==
    ASSUME NoWrap
    PROVE  Spec => []HeapInv
<1>1. Init => HeapInv
  BY InitHolds
<1>2. HeapInv /\ [Next]_vars => HeapInv'
  BY HeapInvStep
<1> QED  BY <1>1, <1>2, PTL DEF Spec

-----------------------------------------------------------------------------
(* The blocks that the headers lead to. *)

Iterates(g, X, a, F, N) ==
    g \in [0..N -> X] /\ g[0] = a /\ \A m \in 1..N : g[m] = F[g[m - 1]]

LEMMA Iterated ==
    ASSUME NEW X, NEW a \in X, NEW F \in [X -> X], NEW N \in Nat
    PROVE  \E g : Iterates(g, X, a, F, N)
<1> DEFINE Some(n) == \E g \in [0..n -> X] : g[0] = a /\ \A m \in 1..n : g[m] = F[g[m - 1]]
           Bad == {n \in Nat : ~Some(n)}
<1>1. Some(0)
  <2> DEFINE g == [m \in 0..0 |-> a]
  <2>1. g \in [0..0 -> X] /\ g[0] = a /\ 1..0 = {}
    OBVIOUS
  <2> HIDE DEF g
  <2> QED  BY <2>1
<1>2. ASSUME NEW n \in Nat, Some(n)
      PROVE  Some(n + 1)
  <2>1. PICK g \in [0..n -> X] : g[0] = a /\ \A m \in 1..n : g[m] = F[g[m - 1]]
    BY <1>2
  <2> DEFINE f == [m \in 0..(n + 1) |-> IF m = n + 1 THEN F[g[n]] ELSE g[m]]
  <2>2. g[n] \in X /\ F[g[n]] \in X
    BY <2>1
  <2>3. f \in [0..(n + 1) -> X]
    BY <2>2
  <2>4. f[0] = a /\ f[n + 1] = F[g[n]] /\ \A m \in 0..n : f[m] = g[m]
    BY <2>1
  <2> HIDE DEF f
  <2>5. ASSUME NEW m \in 1..(n + 1) PROVE f[m] = F[f[m - 1]]
    <3>1. m - 1 \in 0..n /\ (m = n + 1 => m - 1 = n) /\ (m # n + 1 => m \in 0..n /\ m \in 1..n)
      OBVIOUS
    <3> QED  BY <2>1, <2>4, <3>1
  <2> QED  BY <2>3, <2>4, <2>5
<1> HIDE DEF Some
<1>3. Bad = {}
  <2> SUFFICES ASSUME Bad # {} PROVE FALSE
    OBVIOUS
  <2>1. Bad \in SUBSET Nat
    OBVIOUS
  <2>2. PICK n \in Bad : \A x \in Bad : n <= x
    <3> HIDE DEF Bad
    <3> QED  BY <2>1, LeastNatural
  <2>3. n # 0 /\ n \in Nat /\ ~Some(n)
    BY <1>1
  <2>4. n - 1 \in Nat /\ ~(n <= n - 1) /\ (n - 1) + 1 = n
    BY <2>3
  <2>5. Some(n - 1)
    BY <2>2, <2>4
  <2> QED  BY <1>2, <2>3, <2>4, <2>5
<1>4. Some(N)
  BY <1>3
<1> QED  BY <1>4 DEF Some, Iterates

ChainIs(at, B, top) ==
    /\ \A n \in Positions : at[n] \in B \cup {top}
    /\ \A c \in B \cup {top} : \E n \in Positions : at[n] = c

LEMMA ChainLeads ==
    ASSUME NEW B, NEW S, NEW E, Layout(B, S, heap.brk), Tagged(heap, B, S, E)
    PROVE  ChainIs(Chain, B, heap.brk)
<1> DEFINE X == B \cup {heap.brk}
           Step(b) == NEXT_BLKP(heap, b)
           F == [b \in X |-> Step(b)]
           N == MAX_HEAP \div 16
           Rec(g) == g = [n \in Positions |-> IF n = 0 THEN PROLOGUE ELSE Step(g[n - 1])]
           at == Chain
<1>1. Chain = CHOOSE g : Rec(g)
  BY DEF Chain
<1>2. /\ N \in Nat /\ Positions = 0..N /\ MAX_HEAP \in Nat
      /\ \A n \in Nat : 16 * n <= MAX_HEAP => n <= N
  BY Numbers DEF Positions
<1>3. 8 \in B /\ PROLOGUE = 8 /\ heap.brk \in Nat /\ heap.brk <= MAX_HEAP
  BY Numbers DEF Layout
<1>4. /\ \A b \in B : Step(b) = b + S[b] /\ b + S[b] \in X
      /\ Step(heap.brk) = heap.brk
  BY Reads, ReadsTop DEF Layout, Tile
<1>5. \A b \in X : Step(b) \in X
  BY <1>4
<1> HIDE DEF Step
<1>6. F \in [X -> X] /\ 8 \in X
  BY <1>3, <1>5
<1>7. \E g : Rec(g)
  <2>1. PICK g \in [0..N -> X] : g[0] = 8 /\ \A m \in 1..N : g[m] = F[g[m - 1]]
    <3> HIDE DEF X, F, N
    <3>1. PICK a \in X : a = 8
      BY <1>6
    <3>2. PICK g : Iterates(g, X, a, F, N)
      BY <1>2, <1>6, Iterated
    <3> QED  BY <3>1, <3>2 DEF Iterates
  <2>2. ASSUME NEW n \in Positions
        PROVE  g[n] = IF n = 0 THEN PROLOGUE ELSE Step(g[n - 1])
    <3>1. CASE n = 0
      BY <1>3, <2>1, <3>1
    <3>2. CASE n # 0
      <4>1. n \in 1..N /\ n - 1 \in 0..N
        BY <1>2, <3>2
      <4>2. g[n - 1] \in X /\ g[n] = F[g[n - 1]]
        BY <2>1, <4>1
      <4> QED  BY <3>2, <4>2
    <3> QED  BY <3>1, <3>2
  <2>3. Rec(g)
    BY <1>2, <2>1, <2>2
  <2> QED  BY <2>3
<1>8. Rec(at)
  <2> HIDE DEF Rec
  <2> QED  BY <1>1, <1>7
<1>9. \A n \in Positions : at[n] = IF n = 0 THEN PROLOGUE ELSE Step(at[n - 1])
  <2> HIDE DEF at
  <2> QED  BY <1>8
<1> HIDE DEF at, Rec
<1>10. \A n \in Positions : at[n] \in X
  <2> DEFINE T == {n \in Positions : at[n] \notin X}
  <2> SUFFICES ASSUME T # {} PROVE FALSE
    OBVIOUS
  <2>1. T \in SUBSET Nat
    BY <1>2
  <2>2. PICK m \in T : \A x \in T : m <= x
    <3> HIDE DEF T
    <3> QED  BY <2>1, LeastNatural
  <2>3. m # 0
    BY <1>3, <1>9
  <2>4. m - 1 \in Positions /\ ~(m <= m - 1)
    BY <1>2, <2>3
  <2>5. at[m - 1] \in X
    BY <2>2, <2>4
  <2> QED  BY <1>5, <1>9, <2>2, <2>3, <2>5
<1>11. \A c \in X : \E n \in Positions : at[n] = c
  <2> DEFINE Reached(c) == \E n \in Positions : at[n] = c /\ 16 * n <= c - 8
             T == {c \in X : ~Reached(c)}
  <2>1. T = {}
    <3> SUFFICES ASSUME T # {} PROVE FALSE
      OBVIOUS
    <3>1. T \in SUBSET Nat
      BY <1>3 DEF Layout, Tile
    <3>2. PICK c \in T : \A x \in T : c <= x
      <4> HIDE DEF T
      <4> QED  BY <3>1, LeastNatural
    <3>3. c # 8
      <4>1. 0 \in Positions /\ at[0] = 8
        BY <1>2, <1>3, <1>9
      <4> QED  BY <4>1
    <3>4. PICK b \in B : b + S[b] = c
      BY <3>2, <3>3 DEF Layout
    <3>5. b \in Nat /\ S[b] \in Nat /\ S[b] >= 16 /\ c <= MAX_HEAP /\ c \in Nat
      <4>1. b \in Nat /\ S[b] \in Nat /\ S[b] >= 16 /\ b + S[b] <= heap.brk
        BY DEF Layout, Tile
      <4> QED  BY <1>2, <1>3, <3>4, <4>1
    <3>6. Reached(b)
      <4>1. ~(c <= b)
        BY <3>4, <3>5
      <4> QED  BY <3>2, <4>1
    <3>7. PICK n \in Positions : at[n] = b /\ 16 * n <= b - 8
      BY <3>6
    <3>8. n \in Nat /\ n + 1 \in Positions /\ 16 * (n + 1) <= c - 8 /\ (n + 1) - 1 = n /\ n + 1 # 0
      BY <1>2, <3>4, <3>5, <3>7
    <3>9. at[n + 1] = c
      BY <1>4, <1>9, <3>4, <3>7, <3>8
    <3> QED  BY <3>2, <3>8, <3>9
  <2> QED  BY <2>1
<1> QED  BY <1>10, <1>11 DEF ChainIs, at

LEMMA BlocksAre ==
    ASSUME NEW B, NEW S, NEW E, Layout(B, S, heap.brk), Tagged(heap, B, S, E)
    PROVE  Blocks = B /\ FreeBlocks = E
<1>1. ChainIs(Chain, B, heap.brk) /\ heap.brk = mem_brk
  BY ChainLeads DEF heap
<1>2. mem_brk \notin B
  BY <1>1, LayoutWords
<1>3. Blocks = B
  BY <1>1, <1>2 DEF Blocks, ChainIs
<1>4. E \subseteq B /\ \A b \in B : Allocated(heap, b) <=> b \notin E
  BY Reads DEF Tagged
<1> QED  BY <1>3, <1>4 DEF FreeBlocks

-----------------------------------------------------------------------------
(* What the invariant says of the state. *)

\* The blocks of the state, as their tags describe them.
Described(S) ==
    /\ Good(heap, Blocks, S, FreeBlocks) /\ Owned(Blocks \ FreeBlocks, S, ptr, size)
    /\ OwnerTypes(ptr, size, kept) /\ Holding(heap, ptr, kept)
    /\ \A b \in Blocks : Size(heap, b) = S[b]

LEMMA Describes ==
    ASSUME HeapInv
    PROVE  \E S : Described(S)
<1>1. PICK B, S, E : Good(heap, B, S, E) /\ Owned(B \ E, S, ptr, size)
  BY DEF HeapInv, Holds
<1>2. Layout(B, S, heap.brk) /\ Tagged(heap, B, S, E)
  BY <1>1 DEF Good, Shape
<1>3. Blocks = B /\ FreeBlocks = E
  BY <1>2, BlocksAre
<1>4. \A b \in B : Size(heap, b) = S[b]
  BY <1>2, Reads
<1>5. OwnerTypes(ptr, size, kept) /\ Holding(heap, ptr, kept)
  BY DEF HeapInv, Holds
<1> QED  BY <1>1, <1>3, <1>4, <1>5 DEF Described

LEMMA HeapIs == heap.mem = mem /\ heap.brk = mem_brk /\ heap.root = free_root
  BY DEF heap

LEMMA InvCoalesced ==
    ASSUME HeapInv
    PROVE  Coalesced
<1>1. PICK S : Described(S)
  BY Describes
<1>2. /\ Layout(Blocks, S, heap.brk) /\ Tagged(heap, Blocks, S, FreeBlocks)
      /\ Apart(Blocks, S, FreeBlocks) /\ FreeBlocks \subseteq Blocks
  BY <1>1 DEF Described, Good, Shape, Tagged
<1> QED  BY <1>2, Reads DEF Coalesced, Apart

LEMMA InvNoLeak ==
    ASSUME HeapInv
    PROVE  NoLeak
<1>1. PICK S : Described(S)
  BY Describes
<1>2. Owned(Blocks \ FreeBlocks, S, ptr, size) /\ Live = Having(ptr)
  BY <1>1 DEF Described, Live, Having
<1>3. Blocks \ FreeBlocks = {ptr[i] : i \in Live} \cup {PROLOGUE}
  BY <1>2, Numbers DEF Owned
<1>4. \A i \in Live : size[i] + DSIZE <= Size(heap, ptr[i])
  BY <1>1, <1>2, Numbers DEF Owned, Described
<1> QED  BY <1>3, <1>4 DEF NoLeak

LEMMA InvDataIntact ==
    ASSUME HeapInv
    PROVE  DataIntact
<1>1. Holding(heap, ptr, kept)
  BY DEF HeapInv, Holds
<1>2. Live = Having(ptr) /\ \A a \in Words : GET(heap, a) = mem[a]
  BY HeapIs DEF Live, Having, GET
<1> QED  BY <1>1, <1>2 DEF DataIntact, Holding

LEMMA InvWellFormed ==
    ASSUME HeapInv
    PROVE  WellFormed
<1>1. PICK S : Described(S)
  BY Describes
<1>2. Layout(Blocks, S, mem_brk) /\ Tagged(heap, Blocks, S, FreeBlocks)
  BY <1>1, HeapIs DEF Described, Good, Shape
<1>3. ChainIs(Chain, Blocks, mem_brk)
  BY <1>2, HeapIs, ChainLeads
<1>4. GET(heap, mem_brk - WSIZE) = PACK(0, 1)
  BY <1>2, HeapIs, Numbers DEF Tagged, PACK
<1>5. ASSUME NEW b \in Blocks
      PROVE  /\ GET(heap, b - WSIZE) \in {PACK(Size(heap, b), 0), PACK(Size(heap, b), 1)}
             /\ Size(heap, b) >= 2 * DSIZE /\ b + Size(heap, b) <= mem_brk
             /\ checkblock(heap, b)
  <2>1. /\ Size(heap, b) = S[b] /\ S[b] \in Nat /\ S[b] >= 16 /\ b % 8 = 0
        /\ b + S[b] <= mem_brk
    BY <1>1, <1>2 DEF Described, Layout, Tile
  <2>2. GET(heap, b - 4) = TagOf(S, FreeBlocks, b) /\ GET(heap, b + S[b] - 8) = GET(heap, b - 4)
    BY <1>2 DEF Tagged
  <2>3. TagOf(S, FreeBlocks, b) \in {S[b] + 0, S[b] + 1}
    BY DEF TagOf
  <2> QED  BY <2>1, <2>2, <2>3, Numbers DEF PACK, checkblock
<1>6. PROLOGUE \in Blocks /\ PROLOGUE \notin FreeBlocks /\ S[PROLOGUE] = 2 * DSIZE
  BY <1>2, Numbers DEF Layout, Tagged
<1>7. Allocated(heap, PROLOGUE) /\ Size(heap, PROLOGUE) = 2 * DSIZE
  BY <1>1, <1>6 DEF FreeBlocks, Described
<1>8. \E n \in Positions : Chain[n] = mem_brk
  BY <1>3 DEF ChainIs
<1> QED  BY <1>4, <1>5, <1>7, <1>8 DEF WellFormed

LEMMA InvFreeListExact ==
    ASSUME HeapInv
    PROVE  FreeListExact
<1>1. PICK S : Described(S)
  BY Describes
<1>2. /\ Layout(Blocks, S, heap.brk) /\ Tagged(heap, Blocks, S, FreeBlocks)
      /\ List(heap, FreeBlocks)
  BY <1>1 DEF Described, Good, Shape
<1>3. PICK k \in Nat : \E L \in [0..k -> Nat] : Linked(heap, L, k) /\ FreeBlocks = Members(L, k)
  BY <1>2 DEF List
<1>4. PICK L \in [0..k -> Nat] : Linked(heap, L, k) /\ FreeBlocks = Members(L, k)
  BY <1>3
<1>5. k \in Positions /\ Cardinality(FreeBlocks) = k
  <2>1. FreeBlocks \subseteq Blocks
    BY DEF FreeBlocks
  <2> QED  BY <1>2, <1>4, <2>1, ListFits
<1>6. FollowsList(FreeList(heap), L, k)
  <2>1. \A n \in 0..(k - 1) : ~Allocated(heap, L[n])
    BY <1>4 DEF Members, FreeBlocks
  <2>2. Allocated(heap, PROLOGUE)
    BY InvWellFormed DEF WellFormed
  <2> QED  BY <1>4, <2>1, <2>2, FreeListIs
<1>7. PICK at : at = FreeList(heap)
  OBVIOUS
<1>8. \A n \in 0..k : n \in Positions /\ n <= k
  BY <1>5, Numbers DEF Positions
<1>9. \A n \in 0..k : at[n] = L[n]
  BY <1>6, <1>7, <1>8 DEF FollowsList
<1>10. {at[n] : n \in 0..(k - 1)} = FreeBlocks
  <2>1. \A n \in 0..(k - 1) : at[n] = L[n]
    BY <1>9
  <2> QED  BY <1>4, <2>1 DEF Members
<1>11. at[k] = PROLOGUE /\ at[0] = L[0]
  BY <1>4, <1>9 DEF Linked
<1>12. PREV_FREEP(heap, at[0]) = NULL /\ NEXT_FREEP(heap, PROLOGUE) = NULL
  BY <1>4, <1>11 DEF Linked, PREV_FREEP, NEXT_FREEP
<1>13. ASSUME NEW n \in 1..k
       PROVE  PREV_FREEP(heap, at[n]) = at[n - 1]
  <2>1. n - 1 \in 0..(k - 1) /\ (n - 1) + 1 = n /\ n \in 0..k /\ n - 1 \in 0..k
    OBVIOUS
  <2>2. GET(heap, L[n] + WSIZE) = L[n - 1]
    BY <1>4, <2>1 DEF Linked
  <2> QED  BY <1>9, <2>1, <2>2 DEF PREV_FREEP
<1> QED  BY <1>5, <1>7, <1>10, <1>11, <1>12, <1>13 DEF FreeListExact

LEMMA InvTypeOK ==
    ASSUME HeapInv
    PROVE  TypeOK
<1>1. PICK S : Described(S)
  BY Describes
<1>2. /\ Layout(Blocks, S, mem_brk) /\ List(heap, FreeBlocks) /\ heap \in Heaps
      /\ OwnerTypes(ptr, size, kept)
  BY <1>1, HeapIs DEF Described, Good, Shape
<1>3. mem \in [Words -> Int]
  BY <1>2, HeapIs DEF Heaps
<1>4. mem_brk \in Words \cup {MAX_HEAP}
  <2>1. mem_brk \in Nat /\ mem_brk % 8 = 0 /\ mem_brk <= MAX_HEAP
    BY <1>2 DEF Layout
  <2>2. PICK q \in Nat : mem_brk = 8 * q
    BY <2>1, Eights
  <2>3. mem_brk % 4 = 0
    BY <2>2
  <2> QED  BY <2>1, <2>3, Numbers
<1>5. free_root \in Blocks
  <2>1. PICK k \in Nat : \E L \in [0..k -> Nat] : Linked(heap, L, k) /\ FreeBlocks = Members(L, k)
    BY <1>2 DEF List
  <2>2. PICK L \in [0..k -> Nat] : Linked(heap, L, k) /\ FreeBlocks = Members(L, k)
    BY <2>1
  <2>3. CASE k = 0
    BY <1>2, <2>2, <2>3, HeapIs, Numbers DEF Linked, Layout
  <2>4. CASE k # 0
    <3>1. 0 \in 0..(k - 1)
      BY <2>4
    <3> QED  BY <2>2, <3>1, HeapIs DEF Linked, Members, FreeBlocks
  <2> QED  BY <2>3, <2>4
<1>6. ptr \in [Ids -> Words]
  <2>1. ASSUME NEW i \in Ids PROVE ptr[i] \in Words
    <3>1. CASE ptr[i] = NULL
      BY <3>1, Numbers
    <3>2. CASE ptr[i] # NULL
      <4>1. ptr[i] \in Blocks
        BY <1>1, <3>2 DEF Described, Owned, Having
      <4> QED  BY <1>2, <4>1, LayoutWords DEF Node
    <3> QED  BY <3>1, <3>2
  <2> QED  BY <1>2, <2>1 DEF OwnerTypes
<1>7. size \in [Ids -> Sizes \cup {0}] /\ \A i \in Ids : kept[i] \in 0..size[i]
  BY <1>2 DEF OwnerTypes
<1> QED  BY <1>3, <1>4, <1>5, <1>6, <1>7 DEF TypeOK

-----------------------------------------------------------------------------
(* What a call does to the break and to the owner's blocks. *)

\* The break stays, or no free block fits s bytes.
GrowsFor(s) == mem_brk' = mem_brk \/ ~Fits(s)

MallocEffect(i, s) ==
    \/ UNCHANGED owner /\ mem_brk' = mem_brk
    \/ \E q : q # NULL /\ s # 0 /\ Block(i, q, s, s) /\ GrowsFor(s)

ReallocEffect(i, s) ==
    \/ UNCHANGED owner /\ mem_brk' = mem_brk
    \/ s = 0 /\ Block(i, NULL, 0, 0) /\ mem_brk' = mem_brk
    \/ \E q : q # NULL /\ s # 0 /\ Block(i, q, s, Least(kept[i], s)) /\ GrowsFor(s)

LEMMA NoneFits ==
    ASSUME NEW S, Described(S), NEW s, Fitting(S, FreeBlocks, Asize(s)) = {}
    PROVE  ~Fits(s)
<1>1. \A b \in FreeBlocks : Size(heap, b) = S[b]
  BY DEF Described, FreeBlocks
<1> QED  BY <1>1 DEF Fits, Fitting

LEMMA MallocDoes ==
    ASSUME NoWrap, HeapInv, NEW i \in Ids, NEW s \in Sizes, Malloc(i, s)
    PROVE  MallocEffect(i, s)
<1>1. PICK S : Described(S)
  BY Describes
<1>2. Good(heap, Blocks, S, FreeBlocks)
  BY <1>1 DEF Described
<1>3. PICK m : m = mm_malloc(heap, s)
  OBVIOUS
<1>4. \/ m.ptr = NULL /\ m.heap = heap
      \/ Allocates(m, heap, Blocks, S, FreeBlocks, s)
  BY <1>2, <1>3, SizesAre, MallocIs
<1>5. CASE m.ptr = NULL
  <2>1. m.heap = heap
    BY <1>4, <1>5 DEF Allocates
  <2>2. UNCHANGED owner /\ SetHeap(heap)
    BY <1>3, <1>5, <2>1 DEF Malloc
  <2> QED  BY <2>2, HeapIs DEF MallocEffect, SetHeap
<1>6. CASE m.ptr # NULL
  <2>1. PICK g, q : g = Fill(m.heap, m.ptr, s, i) /\ q = m.ptr
    OBVIOUS
  <2>2. SetHeap(g) /\ Block(i, q, s, s)
    BY <1>3, <1>6, <2>1 DEF Malloc
  <2>3. /\ s # 0 /\ m.heap.brk \in Nat
        /\ m.heap.brk = heap.brk \/ Fitting(S, FreeBlocks, Asize(s)) = {}
        /\ m.heap \in Heaps
    <3>1. Allocates(m, heap, Blocks, S, FreeBlocks, s)
      BY <1>4, <1>6
    <3>2. m.heap \in Heaps
      BY <3>1 DEF Allocates, Obtained, Good, Shape
    <3> QED  BY <3>1, <3>2 DEF Allocates
  <2>4. g.brk = m.heap.brk
    BY <2>1, <2>3, MMHeapAssumption, FillIs
  <2>5. mem_brk' = m.heap.brk
    BY <2>2, <2>4 DEF SetHeap
  <2>6. GrowsFor(s)
    BY <1>1, <2>3, <2>5, NoneFits, HeapIs DEF GrowsFor
  <2>7. q # NULL
    BY <1>6, <2>1
  <2> QED  BY <2>2, <2>3, <2>6, <2>7 DEF MallocEffect
<1> QED  BY <1>5, <1>6

LEMMA ReallocDoes ==
    ASSUME NoWrap, HeapInv, NEW i \in Ids, NEW s \in Sizes, Realloc(i, s)
    PROVE  ReallocEffect(i, s)
<1>1. PICK S : Described(S)
  BY Describes
<1>2. /\ Good(heap, Blocks, S, FreeBlocks) /\ OwnerTypes(ptr, size, kept)
      /\ Owned(Blocks \ FreeBlocks, S, ptr, size)
  BY <1>1 DEF Described
<1>3. PICK bp, m : bp = ptr[i] /\ m = mm_realloc(heap, bp, s)
  OBVIOUS
<1>4. bp \in Blocks \ FreeBlocks /\ bp # 8
  BY <1>2, <1>3 DEF Owned, Having, Realloc
<1>5. \/ s = 0 /\ m.ptr = NULL /\ Freed(m.heap, heap, Blocks, S, FreeBlocks, bp)
      \/ s # 0 /\ m.ptr = NULL /\ m.heap = heap
      \/ Moved(m.heap, m.ptr, heap, Blocks, S, FreeBlocks, bp, s)
  BY <1>2, <1>3, <1>4, SizesAre, ReallocIs
<1>6. /\ SetHeap(m.heap)
      /\ s # 0 /\ m.ptr = NULL => UNCHANGED owner
      /\ ~(s # 0 /\ m.ptr = NULL) => Block(i, m.ptr, s, Least(kept[i], s))
  BY <1>3 DEF Realloc
<1>7. CASE s = 0
  <2>1. m.ptr = NULL /\ m.heap.brk = heap.brk
    BY <1>5, <1>7 DEF Freed, Moved
  <2>2. Least(kept[i], s) = 0
    <3>1. kept[i] \in Nat
      BY <1>2 DEF OwnerTypes
    <3> QED  BY <1>7, <3>1 DEF Least
  <2>3. Block(i, NULL, 0, 0)
    BY <1>6, <1>7, <2>1, <2>2
  <2>4. mem_brk' = mem_brk
    BY <1>6, <2>1, HeapIs DEF SetHeap
  <2> QED  BY <1>7, <2>3, <2>4 DEF ReallocEffect
<1>8. CASE s # 0 /\ m.ptr = NULL
  <2>1. m.heap = heap
    BY <1>5, <1>8 DEF Moved
  <2>2. mem_brk' = mem_brk
    BY <1>6, <2>1, HeapIs DEF SetHeap
  <2> QED  BY <1>6, <1>8, <2>2 DEF ReallocEffect
<1>9. CASE s # 0 /\ m.ptr # NULL
  <2>1. m.heap.brk = heap.brk \/ Fitting(S, FreeBlocks, Asize(s)) = {}
    BY <1>5, <1>9 DEF Moved
  <2>2. GrowsFor(s)
    BY <1>1, <1>6, <2>1, NoneFits, HeapIs DEF GrowsFor, SetHeap
  <2>3. PICK q : q = m.ptr
    OBVIOUS
  <2>4. q # NULL /\ s # 0 /\ Block(i, q, s, Least(kept[i], s))
    BY <1>6, <1>9, <2>3
  <2> QED  BY <2>2, <2>4 DEF ReallocEffect
<1> QED  BY <1>7, <1>8, <1>9

LEMMA WriteDoes ==
    ASSUME HeapInv, NEW i \in Ids, Write(i)
    PROVE  mem_brk' = mem_brk
<1>1. heap \in Heaps
  BY DEF HeapInv, Holds, Good, Shape
<1>2. PICK p, s, g : p = ptr[i] /\ s = size[i] /\ g = Fill(heap, p, s, i)
  OBVIOUS
<1>3. g.brk = heap.brk
  BY <1>1, <1>2, MMHeapAssumption, FillIs
<1> QED  BY <1>2, <1>3, HeapIs DEF Write, SetHeap

LEMMA FreeDoes ==
    ASSUME HeapInv, NEW i \in Ids, Free(i)
    PROVE  mem_brk' = mem_brk
<1>1. PICK S : Described(S)
  BY Describes
<1>2. PICK bp, g : bp = ptr[i] /\ g = mm_free(heap, bp)
  OBVIOUS
<1>3. bp \in Blocks \ FreeBlocks /\ bp # 8
  BY <1>1, <1>2 DEF Described, Owned, Having, Free
<1>4. Freed(g, heap, Blocks, S, FreeBlocks, bp)
  BY <1>1, <1>2, <1>3, FreeIs DEF Described
<1>5. g.brk = heap.brk
  BY <1>4 DEF Freed
<1> QED  BY <1>2, <1>5, HeapIs DEF Free, SetHeap

LEMMA NextTraceDoes ==
    ASSUME HeapInv, NextTrace
    PROVE  ~(mem_brk' > mem_brk)
<1>1. PICK w, g : w = mem /\ g = mm_init(w)
  OBVIOUS
<1>2. w \in [Words -> Int]
  <2>1. heap \in Heaps
    BY DEF HeapInv, Holds, Good, Shape
  <2> QED  BY <1>1, <2>1 DEF heap, Heaps
<1>3. g.brk = 24 + CHUNKSIZE
  BY <1>1, <1>2, InitIs DEF Fresh
<1>4. mem_brk' = 24 + CHUNKSIZE
  BY <1>1, <1>3 DEF NextTrace, SetHeap
<1>5. mem_brk >= 24 + CHUNKSIZE /\ mem_brk \in Nat
  <2>1. heap.brk >= 24 + CHUNKSIZE /\ heap.brk \in Nat
    BY DEF HeapInv, Holds, Good, Shape, Layout
  <2> QED  BY <2>1, HeapIs
<1> QED  BY <1>4, <1>5, Numbers

\* A step that grows the heap and gives i a block of s bytes.
Grew(i, s) == mem_brk' > mem_brk /\ ptr'[i] # ptr[i] /\ size'[i] = s

LEMMA BlockOnly ==
    ASSUME NEW i \in Ids, NEW j \in Ids, NEW q, NEW s, NEW t, NEW k,
           ptr \in [Ids -> Nat], size \in [Ids -> Nat], Block(j, q, t, k),
           ptr'[i] # ptr[i], size'[i] = s
    PROVE  s = t
  BY DEF Block

LEMMA GrowsStep ==
    ASSUME NoWrap, HeapInv, [Next]_vars, NEW i \in Ids, NEW s \in Sizes, Grew(i, s)
    PROVE  ~Fits(s)
<1>1. /\ mem_brk \in Nat /\ ptr \in [Ids -> Nat] /\ size \in [Ids -> Nat]
  <2>1. heap.brk \in Nat
    BY DEF HeapInv, Holds, Good, Shape, Layout
  <2> QED  BY <2>1, HeapIs DEF HeapInv, Holds, OwnerTypes
<1>2. mem_brk' # mem_brk
  BY <1>1 DEF Grew
<1>3. ASSUME NEW j \in Ids, NEW t \in Sizes, Malloc(j, t)
      PROVE  ~Fits(s)
  <2>1. PICK q : Block(j, q, t, t) /\ GrowsFor(t)
    BY <1>2, <1>3, MallocDoes DEF MallocEffect
  <2>2. s = t
    BY <1>1, <2>1, BlockOnly DEF Grew
  <2> QED  BY <1>2, <2>1, <2>2 DEF GrowsFor
<1>4. ASSUME NEW j \in Ids, NEW t \in Sizes, Realloc(j, t)
      PROVE  ~Fits(s)
  <2>1. PICK q : Block(j, q, t, Least(kept[j], t)) /\ GrowsFor(t)
    BY <1>2, <1>4, ReallocDoes DEF ReallocEffect
  <2>2. s = t
    BY <1>1, <2>1, BlockOnly DEF Grew
  <2> QED  BY <1>2, <2>1, <2>2 DEF GrowsFor
<1>5. ASSUME NEW j \in Ids, Write(j) \/ Free(j)
      PROVE  FALSE
  BY <1>2, <1>5, WriteDoes, FreeDoes
<1>6. ~NextTrace
  BY NextTraceDoes DEF Grew
<1>7. ~UNCHANGED vars
  BY <1>2 DEF vars
<1> QED  BY <1>3, <1>4, <1>5, <1>6, <1>7 DEF Next

-----------------------------------------------------------------------------
(* mm.c implements the allocator. *)

\* Every block of the owner is where the allocator may put it.
Promised ==
    \A i \in Live : /\ ptr[i] \in 1..MAX_HEAP
                    /\ Promise!Fits(ptr[i], size[i], Live \ {i})

LEMMA InvPromised ==
    ASSUME HeapInv
    PROVE  Promised
<1>1. PICK S : Described(S)
  BY Describes
<1>2. /\ Layout(Blocks, S, mem_brk) /\ Owned(Blocks \ FreeBlocks, S, ptr, size)
      /\ OwnerTypes(ptr, size, kept) /\ Live = Having(ptr)
  BY <1>1, HeapIs DEF Described, Good, Shape, Live, Having
<1>3. ASSUME NEW i \in Live
      PROVE  /\ ptr[i] \in Blocks /\ ptr[i] \in Nat /\ ptr[i] % 8 = 0 /\ ptr[i] >= 8
             /\ size[i] \in Nat /\ S[ptr[i]] \in Nat /\ size[i] + 8 <= S[ptr[i]]
             /\ ptr[i] + S[ptr[i]] <= mem_brk
  BY <1>2 DEF Owned, Having, OwnerTypes, Layout, Tile
<1>4. mem_brk \in Nat /\ mem_brk <= MAX_HEAP
  BY <1>2 DEF Layout
<1>5. ASSUME NEW i \in Live, NEW j \in Live, i # j
      PROVE  ptr[i] + size[i] <= ptr[j] \/ ptr[j] + size[j] <= ptr[i]
  <2>1. ptr[i] # ptr[j]
    BY <1>2, <1>5 DEF Owned
  <2>2. /\ ptr[i] < ptr[j] => ptr[i] + S[ptr[i]] <= ptr[j]
        /\ ptr[j] < ptr[i] => ptr[j] + S[ptr[j]] <= ptr[i]
    BY <1>2, <1>3 DEF Layout
  <2>3. /\ ptr[i] \in Nat /\ size[i] \in Nat /\ S[ptr[i]] \in Nat /\ size[i] + 8 <= S[ptr[i]]
        /\ ptr[j] \in Nat /\ size[j] \in Nat /\ S[ptr[j]] \in Nat /\ size[j] + 8 <= S[ptr[j]]
    BY <1>3
  <2> QED  BY <2>1, <2>2, <2>3
<1>6. ASSUME NEW i \in Live
      PROVE  ptr[i] \in 1..MAX_HEAP /\ ptr[i] + size[i] <= MAX_HEAP
  BY <1>3, <1>4, Numbers
<1> QED  BY <1>3, <1>5, <1>6 DEF Promised, Promise!Fits, Promise!Apart

PromiseStep == Promise!Next \/ UNCHANGED Promise!vars

LEMMA OccupyStep ==
    ASSUME HeapInv, Promised', NEW i \in Ids, NEW q, q # NULL, NEW s \in Sizes, NEW k,
           Block(i, q, s, k)
    PROVE  Promise!Occupy(i, s, k)
<1>1. ptr \in [Ids -> Nat] /\ size \in [Ids -> Nat]
  BY DEF HeapInv, Holds, OwnerTypes
<1>2. /\ ptr' = [ptr EXCEPT ![i] = q] /\ size' = [size EXCEPT ![i] = s]
      /\ kept' = [kept EXCEPT ![i] = k]
  BY DEF Block
<1>3. /\ ptr'[i] = q /\ size'[i] = s
      /\ \A j \in Ids \ {i} : ptr'[j] = ptr[j] /\ size'[j] = size[j]
  BY <1>1, <1>2
<1>4. Live' = Live \cup {i} /\ i \in Live'
  BY <1>3 DEF Live
<1>5. /\ q \in 1..MAX_HEAP /\ q % 8 = 0 /\ q + s <= MAX_HEAP
      /\ \A j \in Live' \ {i} : q + s <= ptr'[j] \/ ptr'[j] + size'[j] <= q
  <2>1. \A l \in Live' : /\ ptr'[l] \in 1..MAX_HEAP
                         /\ ptr'[l] % 8 = 0 /\ ptr'[l] + size'[l] <= MAX_HEAP
                         /\ \A j \in Live' \ {l} : \/ ptr'[l] + size'[l] <= ptr'[j]
                                                   \/ ptr'[j] + size'[j] <= ptr'[l]
    BY DEF Promised, Promise!Fits, Promise!Apart
  <2> QED  BY <1>3, <1>4, <2>1
<1>6. \A j \in Live \ {i} : q + s <= ptr[j] \/ ptr[j] + size[j] <= q
  <2>1. \A j \in Live \ {i} : j \in Live' \ {i} /\ ptr'[j] = ptr[j] /\ size'[j] = size[j]
    BY <1>3, <1>4 DEF Live
  <2> QED  BY <1>5, <2>1
<1>7. Promise!Live = Live
  BY DEF Promise!Live, Live
<1> QED  BY <1>2, <1>5, <1>6, <1>7 DEF Promise!Occupy, Promise!Fits, Promise!Apart

LEMMA LiveIs ==
    ASSUME NEW i \in Ids
    PROVE  i \in Promise!Live <=> ptr[i] # NULL
  BY DEF Promise!Live

LEMMA PromiseNext ==
    ASSUME NoWrap, HeapInv, Promised', [Next]_vars
    PROVE  PromiseStep
<1>1. ASSUME NEW i \in Ids, NEW s \in Sizes, Malloc(i, s)
      PROVE  PromiseStep
  <2>1. CASE UNCHANGED owner
    BY <2>1 DEF PromiseStep, Promise!vars, owner
  <2>2. CASE \E q : q # NULL /\ s # 0 /\ Block(i, q, s, s)
    <3>1. Promise!Occupy(i, s, s)
      BY <2>2, OccupyStep
    <3>2. i \notin Promise!Live
      BY <1>1, LiveIs DEF Malloc
    <3>3. Promise!Allocate(i)
      BY <2>2, <3>1, <3>2 DEF Promise!Allocate
    <3> QED  BY <3>3 DEF PromiseStep, Promise!Next
  <2> QED  BY <1>1, <2>1, <2>2, MallocDoes DEF MallocEffect
<1>2. ASSUME NEW i \in Ids, NEW s \in Sizes, Realloc(i, s)
      PROVE  PromiseStep
  <2>1. i \in Promise!Live
    BY <1>2, LiveIs DEF Realloc
  <2>2. CASE UNCHANGED owner
    BY <2>2 DEF PromiseStep, Promise!vars, owner
  <2>3. CASE Block(i, NULL, 0, 0)
    <3>1. Promise!Release(i)
      BY <2>1, <2>3 DEF Promise!Release, Block
    <3> QED  BY <3>1 DEF PromiseStep, Promise!Next
  <2>4. CASE \E q : q # NULL /\ s # 0 /\ Block(i, q, s, Least(kept[i], s))
    <3>1. Promise!Occupy(i, s, Least(kept[i], s))
      BY <2>4, OccupyStep
    <3>2. Promise!Least(kept[i], s) = Least(kept[i], s)
      BY DEF Promise!Least, Least
    <3>3. Promise!Resize(i)
      BY <2>1, <2>4, <3>1, <3>2 DEF Promise!Resize
    <3> QED  BY <3>3 DEF PromiseStep, Promise!Next
  <2> QED  BY <1>2, <2>2, <2>3, <2>4, ReallocDoes DEF ReallocEffect
<1>3. ASSUME NEW i \in Ids, Write(i)
      PROVE  PromiseStep
  <2>1. ptr \in [Ids -> Nat] /\ size \in [Ids -> Nat]
    BY DEF HeapInv, Holds, OwnerTypes
  <2>2. [ptr EXCEPT ![i] = ptr[i]] = ptr /\ [size EXCEPT ![i] = size[i]] = size
    BY <2>1
  <2>3. Promise!Write(i)
    BY <1>3, <2>2, LiveIs DEF Write, Block, Promise!Write
  <2> QED  BY <2>3 DEF PromiseStep, Promise!Next
<1>4. ASSUME NEW i \in Ids, Free(i)
      PROVE  PromiseStep
  <2>1. Promise!Release(i)
    BY <1>4, LiveIs DEF Free, Block, Promise!Release
  <2> QED  BY <2>1 DEF PromiseStep, Promise!Next
<1>5. CASE NextTrace
  <2>1. Promise!Reset
    BY <1>5 DEF NextTrace, Promise!Reset
  <2> QED  BY <2>1 DEF PromiseStep, Promise!Next
<1>6. CASE UNCHANGED vars
  BY <1>6 DEF vars, owner, PromiseStep, Promise!vars
<1> QED  BY <1>1, <1>2, <1>3, <1>4, <1>5, <1>6 DEF Next

-----------------------------------------------------------------------------
(* The theorems. *)

\* The words of the heap hold integers, the break and the pointers stay inside it,
\* and the free list starts at a block.
THEOREM HeapTypes ==
    ASSUME NoWrap
    PROVE  Spec => []TypeOK
<1>1. HeapInv => TypeOK
  BY InvTypeOK
<1> QED  BY <1>1, HeapInvariant, PTL

\* The headers lead from the prologue to the epilogue at the break, each block
\* has the tag of its header in its footer (checkblock), and is aligned and large enough.
THEOREM HeapIsWellFormed ==
    ASSUME NoWrap
    PROVE  Spec => []WellFormed
<1>1. HeapInv => WellFormed
  BY InvWellFormed
<1> QED  BY <1>1, HeapInvariant, PTL

\* mm.c:287: the list from free_root holds every free block of the heap once, with
\* both links, and ends in the prologue, after any sequence of calls.
THEOREM FreeListIsExact ==
    ASSUME NoWrap
    PROVE  Spec => []FreeListExact
<1>1. HeapInv => FreeListExact
  BY InvFreeListExact
<1> QED  BY <1>1, HeapInvariant, PTL

\* coalesce leaves no two free neighbours, whatever was freed in whatever order.
THEOREM FreeSpaceIsMerged ==
    ASSUME NoWrap
    PROVE  Spec => []Coalesced
<1>1. HeapInv => Coalesced
  BY InvCoalesced
<1> QED  BY <1>1, HeapInvariant, PTL

\* The allocated blocks are exactly those that the owner holds, each large enough
\* for what it asked: also after a realloc that failed, moved or freed.
THEOREM NothingLeaks ==
    ASSUME NoWrap
    PROVE  Spec => []NoLeak
<1>1. HeapInv => NoLeak
  BY InvNoLeak
<1> QED  BY <1>1, HeapInvariant, PTL

\* No call writes into a live block, and realloc carries over what fits.
THEOREM DataStayIntact ==
    ASSUME NoWrap
    PROVE  Spec => []DataIntact
<1>1. HeapInv => DataIntact
  BY InvDataIntact
<1> QED  BY <1>1, HeapInvariant, PTL

\* Two live blocks share no byte, and each lies inside the heap on an aligned address.
THEOREM LiveBlocksAreDisjoint ==
    ASSUME NoWrap
    PROVE  Spec => []Promise!Disjoint
<1>1. HeapInv => Promise!Disjoint
  <2>1. Promise!Live = Live
    BY DEF Promise!Live, Live
  <2> QED  BY <2>1, InvPromised DEF Promised, Promise!Fits, Promise!Disjoint
<1> QED  BY <1>1, HeapInvariant, PTL

\* mm_malloc and mm_realloc extend the heap only when no free block of the whole
\* heap fits: find_fit overlooks none.
THEOREM HeapGrowsWhenNeeded ==
    ASSUME NoWrap
    PROVE  Spec => GrowsWhenNeeded
<1>1. HeapInv /\ [Next]_vars =>
        [\A i \in Ids, s \in Sizes :
           mem_brk' > mem_brk /\ ptr'[i] # ptr[i] /\ size'[i] = s => ~Fits(s)]_vars
  BY GrowsStep DEF Grew
<1> QED  BY <1>1, HeapInvariant, PTL DEF Spec, GrowsWhenNeeded

\* mm.c keeps the promise of a malloc package: blocks that are aligned, inside the
\* heap and apart, whose data no other call changes.
THEOREM HeapImplementsAllocator ==
    ASSUME NoWrap
    PROVE  Spec => ImplementsAllocator
<1>1. Init => Promise!Init
  BY DEF Init, Promise!Init
<1>2. HeapInv => Promised
  BY InvPromised
<1>3. HeapInv' => Promised'
  BY <1>2, PTL
<1>4. HeapInv /\ HeapInv' /\ [Next]_vars => [Promise!Next]_(Promise!vars)
  BY <1>3, PromiseNext DEF PromiseStep
<1> QED  BY <1>1, <1>4, HeapInvariant, PTL DEF Spec, ImplementsAllocator, Promise!Spec
=============================================================================
