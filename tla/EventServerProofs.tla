------------------------- MODULE EventServerProofs -------------------------
(***************************************************************************)
(* The event-driven server, for any number of connections, slots, stocks   *)
(* and requests.  First the pool: its slots, read_set, maxi and maxfd       *)
(* describe the descriptors that are open, and nready what check_clients    *)
(* has to serve.  Then the treap, the protocol of each connection from the  *)
(* request in pieces to the reply in pieces, and from these that the server *)
(* implements the book of stocks.                                          *)
(*                                                                         *)
(* The lemmas about treap.c, for any keys and any priorities, come first.  *)
(* Its operators are recursive functions over a finite table; the descent  *)
(* lemmas stand in for the induction over the depth of a node.  A tree is  *)
(* told by its set of nodes (Tree), so that each C function is stated as   *)
(* what it makes of two sets of nodes.                                     *)
(***************************************************************************)
EXTENDS EventServer, Counts, SequenceTheorems

-----------------------------------------------------------------------------
(* Tables of nodes. *)

KeySet(D) == D \in SUBSET Int /\ IsFiniteSet(D) /\ NULL \notin D

NodesOver(D) == [left_stock : Int, size : Int, priority : Int,
                 left : D \cup {NULL}, right : D \cup {NULL}]
Tables(D) == [D -> NodesOver(D)]

\* g is t, but for the node n, whose subtrees are a and b.
Joins(g, t, D, n, a, b) ==
    /\ g \in Tables(D) /\ \A m \in D : m # n => g[m] = t[m]
    /\ g[n].left = a /\ g[n].right = b
    /\ g[n].priority = t[n].priority /\ g[n].left_stock = t[n].left_stock
    /\ a # n /\ b # n => g[n].size = 1 + SizeOf(t, a) + SizeOf(t, b)

LEMMA SizeIs ==
    ASSUME NEW D, KeySet(D), NEW t \in Tables(D), NEW n \in D \cup {NULL}
    PROVE  SizeOf(t, n) \in Int
  BY DEF KeySet, Tables, NodesOver, SizeOf

LEMMA CalcSizeIs ==
    ASSUME NEW D, KeySet(D), NEW t \in Tables(D), NEW n \in D
    PROVE  /\ CalcSize(t, n) \in Tables(D) /\ \A m \in D : m # n => CalcSize(t, n)[m] = t[m]
           /\ CalcSize(t, n)[n].left = t[n].left /\ CalcSize(t, n)[n].right = t[n].right
           /\ CalcSize(t, n)[n].priority = t[n].priority
           /\ CalcSize(t, n)[n].left_stock = t[n].left_stock
           /\ CalcSize(t, n)[n].size = 1 + SizeOf(t, t[n].left) + SizeOf(t, t[n].right)
<1>1. t[n].left \in D \cup {NULL} /\ t[n].right \in D \cup {NULL}
  BY DEF Tables, NodesOver
<1>2. PICK s \in Int : s = 1 + SizeOf(t, t[n].left) + SizeOf(t, t[n].right)
  <2>1. SizeOf(t, t[n].left) \in Int /\ SizeOf(t, t[n].right) \in Int
    BY <1>1, SizeIs
  <2> QED  BY <2>1
<1>3. CalcSize(t, n) = [t EXCEPT ![n].size = s]
  BY <1>2 DEF CalcSize
<1> QED  BY <1>2, <1>3 DEF Tables, NodesOver

LEMMA SetLeftIs ==
    ASSUME NEW D, KeySet(D), NEW t \in Tables(D), NEW n \in D, NEW a \in D \cup {NULL}
    PROVE  Joins(SetLeft(t, n, a), t, D, n, a, t[n].right)
<1>1. PICK u : u = [t EXCEPT ![n].left = a]
  OBVIOUS
<1>2. /\ u \in Tables(D) /\ \A m \in D : m # n => u[m] = t[m]
      /\ u[n].left = a /\ u[n].right = t[n].right
      /\ u[n].priority = t[n].priority /\ u[n].left_stock = t[n].left_stock
  BY <1>1 DEF Tables, NodesOver
<1>3. SetLeft(t, n, a) = CalcSize(u, n)
  BY <1>1 DEF SetLeft
<1>4. ASSUME NEW c \in D \cup {NULL}, c # n PROVE SizeOf(u, c) = SizeOf(t, c)
  BY <1>2, <1>4 DEF SizeOf
<1>5. t[n].right \in D \cup {NULL}
  BY DEF Tables, NodesOver
<1> QED  BY <1>2, <1>3, <1>4, <1>5, CalcSizeIs DEF Joins

LEMMA SetRightIs ==
    ASSUME NEW D, KeySet(D), NEW t \in Tables(D), NEW n \in D, NEW b \in D \cup {NULL}
    PROVE  Joins(SetRight(t, n, b), t, D, n, t[n].left, b)
<1>1. PICK u : u = [t EXCEPT ![n].right = b]
  OBVIOUS
<1>2. /\ u \in Tables(D) /\ \A m \in D : m # n => u[m] = t[m]
      /\ u[n].right = b /\ u[n].left = t[n].left
      /\ u[n].priority = t[n].priority /\ u[n].left_stock = t[n].left_stock
  BY <1>1 DEF Tables, NodesOver
<1>3. SetRight(t, n, b) = CalcSize(u, n)
  BY <1>1 DEF SetRight
<1>4. ASSUME NEW c \in D \cup {NULL}, c # n PROVE SizeOf(u, c) = SizeOf(t, c)
  BY <1>2, <1>4 DEF SizeOf
<1>5. t[n].left \in D \cup {NULL}
  BY DEF Tables, NodesOver
<1>6. CalcSize(u, n)[n].size = 1 + SizeOf(u, t[n].left) + SizeOf(u, b)
  BY <1>2, CalcSizeIs
<1> QED  BY <1>2, <1>3, <1>4, <1>5, <1>6, CalcSizeIs DEF Joins

-----------------------------------------------------------------------------
(* Trees. *)

\* sub[m] is the keys of the tree under m, for every m of K.
Spans(t, K, sub) ==
    /\ sub \in [K \cup {NULL} -> SUBSET K] /\ sub[NULL] = {}
    /\ \A m \in K :
         /\ t[m].left \in K \cup {NULL} /\ t[m].right \in K \cup {NULL}
         /\ sub[m] = sub[t[m].left] \cup {m} \cup sub[t[m].right]
         /\ \A x \in sub[t[m].left] : x < m
         /\ \A x \in sub[t[m].right] : m < x
         /\ t[m].size = 1 + SizeOf(t, t[m].left) + SizeOf(t, t[m].right)
         /\ \A x \in sub[m] : sub[x] \subseteq sub[m] /\ t[x].priority <= t[m].priority

\* The tree under n is a treap of the keys K.
Tree(t, n, K) ==
    \E sub : Spans(t, K, sub) /\ n \in K \cup {NULL} /\ sub[n] = K

LEMMA TreeNull ==
    ASSUME NEW t, NEW K, NULL \notin K
    PROVE  Tree(t, NULL, K) <=> K = {}
<1>1. ASSUME Tree(t, NULL, K) PROVE K = {}
  BY <1>1 DEF Tree, Spans
<1>2. ASSUME K = {} PROVE Tree(t, NULL, K)
  <2> DEFINE sub == [m \in {NULL} |-> {}]
  <2>1. sub \in [{} \cup {NULL} -> SUBSET {}] /\ sub[NULL] = {}
    OBVIOUS
  <2> HIDE DEF sub
  <2> QED  BY <1>2, <2>1 DEF Tree, Spans
<1> QED  BY <1>1, <1>2

\* What is below the root of a tree.
Halves(t, n, K, A, B) ==
    /\ n \in K /\ K = A \cup {n} \cup B
    /\ (\A x \in A : x < n) /\ (\A x \in B : n < x)
    /\ Tree(t, t[n].left, A) /\ Tree(t, t[n].right, B)
    /\ t[n].size = 1 + SizeOf(t, t[n].left) + SizeOf(t, t[n].right)
    /\ \A x \in K : t[x].priority <= t[n].priority

LEMMA Below ==
    ASSUME NEW D, KeySet(D), NEW t \in Tables(D), NEW K \in SUBSET D, NEW sub, Spans(t, K, sub),
           NEW c \in K \cup {NULL}
    PROVE  Tree(t, c, sub[c])
<1>1. NULL \notin K
  BY DEF KeySet
<1> DEFINE J == sub[c]
           s == [m \in J \cup {NULL} |-> sub[m]]
<1>2. J \subseteq K
  BY DEF Spans
<1>3. \A m \in J : sub[m] \subseteq J /\ m \in K
  BY <1>1, <1>2 DEF Spans
<1>4. s \in [J \cup {NULL} -> SUBSET J] /\ s[NULL] = {}
  BY <1>3 DEF Spans
<1>5. \A m \in J \cup {NULL} : s[m] = sub[m]
  OBVIOUS
<1>6. ASSUME NEW m \in J
      PROVE  t[m].left \in J \cup {NULL} /\ t[m].right \in J \cup {NULL}
  <2>1. m \in K /\ sub[m] = sub[t[m].left] \cup {m} \cup sub[t[m].right] /\ sub[m] \subseteq J
        /\ t[m].left \in K \cup {NULL} /\ t[m].right \in K \cup {NULL}
    BY <1>3 DEF Spans
  <2>2. \A x \in K : x \in sub[x]
    BY DEF Spans
  <2> QED  BY <2>1, <2>2
<1> HIDE DEF s
<1>7. Spans(t, J, s)
  <2> SUFFICES ASSUME NEW m \in J
               PROVE  /\ t[m].left \in J \cup {NULL} /\ t[m].right \in J \cup {NULL}
                      /\ s[m] = s[t[m].left] \cup {m} \cup s[t[m].right]
                      /\ \A x \in s[t[m].left] : x < m
                      /\ \A x \in s[t[m].right] : m < x
                      /\ t[m].size = 1 + SizeOf(t, t[m].left) + SizeOf(t, t[m].right)
                      /\ \A x \in s[m] : s[x] \subseteq s[m] /\ t[x].priority <= t[m].priority
    BY <1>4 DEF Spans
  <2>1. m \in K
    BY <1>2
  <2>2. s[m] = sub[m] /\ s[t[m].left] = sub[t[m].left] /\ s[t[m].right] = sub[t[m].right]
    BY <1>5, <1>6
  <2>3. \A x \in s[m] : s[x] = sub[x]
    BY <1>3, <1>5, <2>2
  <2> QED  BY <1>6, <2>1, <2>2, <2>3 DEF Spans
<1>8. c \in J \cup {NULL} /\ s[c] = J
  <2>1. c \in J \cup {NULL}
    BY DEF Spans
  <2> QED  BY <1>5, <2>1
<1> QED  BY <1>7, <1>8 DEF Tree

LEMMA Decompose ==
    ASSUME NEW D, KeySet(D), NEW t \in Tables(D), NEW K \in SUBSET D,
           NEW n, Tree(t, n, K), n # NULL
    PROVE  \E A, B : Halves(t, n, K, A, B)
<1>1. PICK sub : Spans(t, K, sub) /\ n \in K \cup {NULL} /\ sub[n] = K
  BY DEF Tree
<1>2. n \in K
  BY <1>1
<1>3. /\ t[n].left \in K \cup {NULL} /\ t[n].right \in K \cup {NULL}
      /\ K = sub[t[n].left] \cup {n} \cup sub[t[n].right]
      /\ \A x \in sub[t[n].left] : x < n
      /\ \A x \in sub[t[n].right] : n < x
      /\ t[n].size = 1 + SizeOf(t, t[n].left) + SizeOf(t, t[n].right)
      /\ \A x \in K : t[x].priority <= t[n].priority
  BY <1>1, <1>2 DEF Spans
<1>4. Tree(t, t[n].left, sub[t[n].left]) /\ Tree(t, t[n].right, sub[t[n].right])
  BY <1>1, <1>3, Below
<1> QED  BY <1>2, <1>3, <1>4 DEF Halves

LEMMA Compose ==
    ASSUME NEW D, KeySet(D), NEW t \in Tables(D), NEW K \in SUBSET D, NEW n,
           NEW A, NEW B, Halves(t, n, K, A, B)
    PROVE  Tree(t, n, K)
<1>1. NULL \notin K /\ n \in K /\ n # NULL /\ K = A \cup {n} \cup B /\ K \subseteq Int
  BY DEF Halves, KeySet
<1>2. PICK a : Spans(t, A, a) /\ t[n].left \in A \cup {NULL} /\ a[t[n].left] = A
  BY DEF Halves, Tree
<1>3. PICK b : Spans(t, B, b) /\ t[n].right \in B \cup {NULL} /\ b[t[n].right] = B
  BY DEF Halves, Tree
<1>4. n \notin A /\ n \notin B /\ A \cap B = {}
  BY <1>1 DEF Halves
<1> DEFINE s == [m \in K \cup {NULL} |-> IF m = n THEN K ELSE IF m \in A THEN a[m]
                                          ELSE IF m \in B THEN b[m] ELSE {}]
<1>5. /\ s[n] = K /\ s[NULL] = {}
      /\ \A m \in A : s[m] = a[m] /\ a[m] \subseteq A
      /\ \A m \in B : s[m] = b[m] /\ b[m] \subseteq B
  BY <1>1, <1>2, <1>3, <1>4 DEF Spans
<1>6. s \in [K \cup {NULL} -> SUBSET K]
  BY <1>1, <1>5
<1> HIDE DEF s
<1>7. a[NULL] = {} /\ b[NULL] = {}
  BY <1>2, <1>3 DEF Spans
<1>8. (\A m \in A \cup {NULL} : s[m] = a[m]) /\ (\A m \in B \cup {NULL} : s[m] = b[m])
  BY <1>5, <1>7
<1>9. ASSUME NEW m \in K
      PROVE  /\ t[m].left \in K \cup {NULL} /\ t[m].right \in K \cup {NULL}
             /\ s[m] = s[t[m].left] \cup {m} \cup s[t[m].right]
             /\ \A x \in s[t[m].left] : x < m
             /\ \A x \in s[t[m].right] : m < x
             /\ t[m].size = 1 + SizeOf(t, t[m].left) + SizeOf(t, t[m].right)
             /\ \A x \in s[m] : s[x] \subseteq s[m] /\ t[x].priority <= t[m].priority
  <2>1. CASE m = n
    <3>1. s[t[n].left] = A /\ s[t[n].right] = B
      BY <1>2, <1>3, <1>8
    <3>2. \A x \in K : s[x] \subseteq K
      BY <1>6
    <3> QED  BY <1>1, <1>2, <1>3, <1>5, <2>1, <3>1, <3>2 DEF Halves
  <2>2. CASE m \in A
    <3>1. /\ t[m].left \in A \cup {NULL} /\ t[m].right \in A \cup {NULL}
          /\ a[m] = a[t[m].left] \cup {m} \cup a[t[m].right]
          /\ \A x \in a[t[m].left] : x < m
          /\ \A x \in a[t[m].right] : m < x
          /\ t[m].size = 1 + SizeOf(t, t[m].left) + SizeOf(t, t[m].right)
          /\ \A x \in a[m] : a[x] \subseteq a[m] /\ t[x].priority <= t[m].priority
      BY <1>2, <2>2 DEF Spans
    <3>2. \A x \in a[m] : x \in A /\ s[x] = a[x]
      BY <1>5, <2>2
    <3> QED  BY <1>1, <1>8, <2>2, <3>1, <3>2
  <2>3. CASE m \in B
    <3>1. /\ t[m].left \in B \cup {NULL} /\ t[m].right \in B \cup {NULL}
          /\ b[m] = b[t[m].left] \cup {m} \cup b[t[m].right]
          /\ \A x \in b[t[m].left] : x < m
          /\ \A x \in b[t[m].right] : m < x
          /\ t[m].size = 1 + SizeOf(t, t[m].left) + SizeOf(t, t[m].right)
          /\ \A x \in b[m] : b[x] \subseteq b[m] /\ t[x].priority <= t[m].priority
      BY <1>3, <2>3 DEF Spans
    <3>2. \A x \in b[m] : x \in B /\ s[x] = b[x]
      BY <1>5, <2>3
    <3> QED  BY <1>1, <1>8, <2>3, <3>1, <3>2
  <2> QED  BY <1>1, <2>1, <2>2, <2>3
<1>10. Spans(t, K, s)
  BY <1>5, <1>6, <1>9 DEF Spans
<1> QED  BY <1>1, <1>5, <1>10 DEF Tree

\* A tree depends on its own nodes only, and not on their stocks.
SameNode(g, t, m) ==
    /\ g[m].left = t[m].left /\ g[m].right = t[m].right
    /\ g[m].priority = t[m].priority /\ g[m].size = t[m].size

LEMMA TreeStays ==
    ASSUME NEW t, NEW g, NEW n, NEW K, Tree(t, n, K), NULL \notin K,
           \A m \in K : SameNode(g, t, m)
    PROVE  Tree(g, n, K)
<1>1. PICK sub : Spans(t, K, sub) /\ n \in K \cup {NULL} /\ sub[n] = K
  BY DEF Tree
<1>2. \A c \in K \cup {NULL} : SizeOf(g, c) = SizeOf(t, c)
  BY DEF SizeOf, SameNode
<1>3. ASSUME NEW m \in K
      PROVE  /\ g[m].left \in K \cup {NULL} /\ g[m].right \in K \cup {NULL}
             /\ sub[m] = sub[g[m].left] \cup {m} \cup sub[g[m].right]
             /\ \A x \in sub[g[m].left] : x < m
             /\ \A x \in sub[g[m].right] : m < x
             /\ g[m].size = 1 + SizeOf(g, g[m].left) + SizeOf(g, g[m].right)
             /\ \A x \in sub[m] : sub[x] \subseteq sub[m] /\ g[x].priority <= g[m].priority
  <2>1. \A x \in sub[m] : x \in K
    BY <1>1 DEF Spans
  <2> QED  BY <1>1, <1>2, <2>1 DEF Spans, SameNode
<1>4. Spans(g, K, sub)
  BY <1>1, <1>3 DEF Spans
<1> QED  BY <1>1, <1>4 DEF Tree

-----------------------------------------------------------------------------
(* Recursion over the nodes of a table without cycles. *)

\* all[n] holds n and all[m] of the nodes m below it.
Nests(t, D, all) ==
    /\ all \in [D \cup {NULL} -> SUBSET D]
    /\ \A n \in D : n \in all[n] /\ \A c \in {t[n].left, t[n].right} :
         all[c] \subseteq all[n] /\ n \notin all[c]

Forest(t, D) == \E all : Nests(t, D, all)

Visits(g, t, D, X, e, F) ==
    /\ g \in [D \cup {NULL} -> X] /\ g[NULL] = e
    /\ \A n \in D : g[n] = F[n][g[t[n].left]][g[t[n].right]]

LEMMA TreeRecursion ==
    ASSUME NEW D, KeySet(D), NEW t \in Tables(D), Forest(t, D),
           NEW X, NEW e \in X, NEW F \in [D -> [X -> [X -> X]]]
    PROVE  \E g : Visits(g, t, D, X, e, F)
<1>1. PICK all : Nests(t, D, all)
  BY DEF Forest
<1> DEFINE C == D \cup {NULL}
           l == [n \in C |-> IF n = NULL THEN NULL ELSE t[n].left]
           r == [n \in C |-> IF n = NULL THEN NULL ELSE t[n].right]
           rank == [n \in C |-> Cardinality(all[n])]
           N == Cardinality(D)
           base == [n \in C |-> e]
           one == [a \in X |-> [b \in X |-> e]]
           G == [n \in C |-> IF n = NULL THEN one ELSE F[n]]
<1>2. NULL \notin D /\ IsFiniteSet(D) /\ N \in Nat
  BY FS_CardinalityType DEF KeySet
<1>3. l \in [C -> C] /\ r \in [C -> C]
  BY DEF Tables, NodesOver
<1>4. \A n \in C : all[n] \subseteq D /\ IsFiniteSet(all[n]) /\ Cardinality(all[n]) \in 0..N
  <2> SUFFICES ASSUME NEW n \in C
               PROVE  all[n] \subseteq D /\ IsFiniteSet(all[n]) /\ Cardinality(all[n]) \in 0..N
    OBVIOUS
  <2>1. all[n] \subseteq D
    BY <1>1 DEF Nests
  <2>2. IsFiniteSet(all[n]) /\ Cardinality(all[n]) <= N
    BY <1>2, <2>1, FS_Subset
  <2>3. Cardinality(all[n]) \in Nat
    BY <2>2, FS_CardinalityType
  <2> QED  BY <1>2, <2>1, <2>2, <2>3
<1>5. rank \in [C -> 0..N] /\ \A n \in C : rank[n] = Cardinality(all[n])
  BY <1>4
<1>6. ASSUME NEW n \in C, n \notin {NULL}
      PROVE  rank[l[n]] < rank[n] /\ rank[r[n]] < rank[n]
  <2>1. n \in D /\ l[n] = t[n].left /\ r[n] = t[n].right /\ l[n] \in C /\ r[n] \in C
    BY <1>3, <1>6
  <2>2. all[l[n]] \subseteq all[n] /\ all[r[n]] \subseteq all[n] /\ n \in all[n]
        /\ n \notin all[l[n]] /\ n \notin all[r[n]]
    BY <1>1, <2>1 DEF Nests
  <2>3. ASSUME NEW A, A \subseteq all[n], n \notin A, IsFiniteSet(A)
        PROVE  Cardinality(A) < Cardinality(all[n])
    <3>1. IsFiniteSet(all[n]) /\ n \in all[n] /\ Cardinality(all[n]) \in Nat
      BY <1>4, <2>2
    <3>2. A \subseteq all[n] \ {n} /\ IsFiniteSet(all[n] \ {n})
          /\ Cardinality(all[n] \ {n}) = Cardinality(all[n]) - 1
      BY <2>3, <3>1, FS_RemoveElement
    <3>3. Cardinality(A) <= Cardinality(all[n] \ {n}) /\ Cardinality(A) \in Nat
      BY <2>3, <3>2, FS_Subset, FS_CardinalityType
    <3> QED  BY <3>1, <3>2, <3>3
  <2>4. IsFiniteSet(all[l[n]]) /\ IsFiniteSet(all[r[n]])
    BY <1>4, <2>1
  <2> HIDE DEF l, r, rank, C
  <2> QED  BY <1>5, <2>1, <2>2, <2>3, <2>4
<1>7. Descends(C, {NULL}, l, r, rank, N)
  <2> HIDE DEF l, r, rank, C, N
  <2> QED  BY <1>2, <1>3, <1>5, <1>6 DEF Descends
<1>8. base \in [C -> X] /\ one \in [X -> [X -> X]]
  OBVIOUS
<1>9. G \in [C -> [X -> [X -> X]]] /\ \A n \in D : G[n] = F[n]
  <2> HIDE DEF one
  <2> QED  BY <1>2, <1>8
<1> HIDE DEF l, r, rank, C, N, base, G
<1>10. PICK g : Recurses(g, C, X, {NULL}, base, l, r, G)
  BY <1>7, <1>8, <1>9, Recursion
<1>11. g[NULL] = e
  BY <1>10 DEF Recurses, C, base
<1>12. ASSUME NEW n \in D
       PROVE  g[n] = F[n][g[t[n].left]][g[t[n].right]]
  <2>1. n \in C /\ n # NULL /\ l[n] = t[n].left /\ r[n] = t[n].right
    BY <1>2 DEF C, l, r
  <2>2. g[n] = G[n][g[l[n]]][g[r[n]]]
    BY <1>10, <2>1 DEF Recurses
  <2> QED  BY <1>9, <2>1, <2>2
<1>13. g \in [D \cup {NULL} -> X]
  BY <1>10 DEF Recurses, C
<1> QED  BY <1>11, <1>12, <1>13 DEF Visits

\* A tree, and perhaps a node k beside it that is not under itself.
LEMMA TreeForest ==
    ASSUME NEW D, KeySet(D), NEW t \in Tables(D), NEW K \in SUBSET D, NEW n, Tree(t, n, K),
           \A k \in D \ K : D = K \cup {k} /\ t[k].left # k /\ t[k].right # k
    PROVE  Forest(t, D)
<1>1. PICK sub : Spans(t, K, sub)
  BY DEF Tree
<1> DEFINE all == [m \in D \cup {NULL} |-> IF m \in K \cup {NULL} THEN sub[m] ELSE D]
<1>2. NULL \notin D /\ D \subseteq Int /\ \A m \in K \cup {NULL} : sub[m] \in SUBSET K
  BY <1>1 DEF KeySet, Spans
<1>3. all \in [D \cup {NULL} -> SUBSET D]
  BY <1>2
<1>4. (\A m \in K \cup {NULL} : all[m] = sub[m]) /\ \A k \in D \ K : all[k] = D
  BY <1>2
<1> HIDE DEF all
<1>5. ASSUME NEW m \in D, NEW c \in {t[m].left, t[m].right}
      PROVE  m \in all[m] /\ all[c] \subseteq all[m] /\ m \notin all[c]
  <2>1. CASE m \in K
    <3>1. /\ c \in K \cup {NULL} /\ sub[c] \subseteq sub[m] /\ m \in sub[m]
          /\ (\A x \in sub[c] : x < m) \/ (\A x \in sub[c] : m < x)
      BY <1>1, <1>5, <2>1 DEF Spans
    <3>2. m \in Int /\ ~(m < m)
      BY <1>2, <2>1
    <3> QED  BY <1>4, <2>1, <3>1, <3>2
  <2>2. CASE m \notin K
    <3>1. D = K \cup {m} /\ c # m
      BY <1>5, <2>2
    <3>2. c \in K \cup {NULL}
      BY <1>5, <3>1 DEF Tables, NodesOver
    <3>3. all[m] = D /\ all[c] \subseteq K
      BY <1>2, <1>4, <2>2, <3>2
    <3> QED  BY <2>2, <3>3
  <2> QED  BY <2>1, <2>2
<1>6. Nests(t, D, all)
  BY <1>3, <1>5 DEF Nests
<1> QED  BY <1>6 DEF Forest

\* A family of subsets of a finite set has a minimal one.
LEMMA MinimalSet ==
    ASSUME NEW D, IsFiniteSet(D), NEW Bad \in SUBSET (SUBSET D), Bad # {}
    PROVE  \E K \in Bad : \A J \in Bad : J \subseteq K => J = K
<1> DEFINE T == {Cardinality(K) : K \in Bad}
<1>1. \A K \in Bad : IsFiniteSet(K) /\ Cardinality(K) \in Nat
  BY FS_Subset, FS_CardinalityType
<1>2. PICK c \in T : \A x \in T : c <= x
  <2>1. T \in SUBSET Nat /\ T # {}
    BY <1>1
  <2> HIDE DEF T
  <2> QED  BY <2>1, LeastNatural
<1>3. PICK K \in Bad : c = Cardinality(K)
  BY <1>2
<1>4. ASSUME NEW J \in Bad, J \subseteq K PROVE J = K
  <2>1. Cardinality(K) <= Cardinality(J)
    BY <1>2, <1>3
  <2>2. IsFiniteSet(K) /\ Cardinality(J) <= Cardinality(K)
        /\ Cardinality(J) \in Nat /\ Cardinality(K) \in Nat
    BY <1>1, <1>4, FS_Subset
  <2>3. Cardinality(J) = Cardinality(K)
    BY <2>1, <2>2
  <2> QED  BY <1>4, <2>2, <2>3, FS_Subset
<1> QED  BY <1>4

\* A value that depends on those of the children is the same in two functions that
\* agree on NULL.
LEMMA SameEverywhere ==
    ASSUME NEW D, KeySet(D), NEW t \in Tables(D), Forest(t, D), NEW f, NEW g,
           f[NULL] = g[NULL],
           \A n \in D : f[t[n].left] = g[t[n].left] /\ f[t[n].right] = g[t[n].right]
                          => f[n] = g[n]
    PROVE  \A n \in D \cup {NULL} : f[n] = g[n]
<1>1. PICK all : Nests(t, D, all)
  BY DEF Forest
<1> DEFINE Differs(K) == \E n \in D : K = all[n] /\ f[n] # g[n]
           Bad == {K \in SUBSET D : Differs(K)}
<1>2. \A n \in D : all[n] \in SUBSET D
  BY <1>1 DEF Nests
<1>3. ASSUME Bad # {} PROVE FALSE
  <2>1. PICK K \in Bad : \A J \in Bad : J \subseteq K => J = K
    <3>1. Bad \in SUBSET (SUBSET D) /\ IsFiniteSet(D)
      BY DEF KeySet
    <3> HIDE DEF Bad
    <3> QED  BY <1>3, <3>1, MinimalSet
  <2>2. PICK n \in D : K = all[n] /\ f[n] # g[n]
    BY <2>1
  <2>3. /\ n \in all[n]
        /\ \A c \in {t[n].left, t[n].right} :
             c \in D \cup {NULL} /\ all[c] \subseteq all[n] /\ n \notin all[c]
    BY <1>1 DEF Nests, Tables, NodesOver
  <2>4. ASSUME NEW c \in {t[n].left, t[n].right} PROVE f[c] = g[c]
    <3>1. CASE c = NULL
      BY <3>1
    <3>2. CASE c # NULL
      <4>1. c \in D /\ all[c] \subseteq K /\ all[c] # K
        BY <2>2, <2>3, <2>4, <3>2
      <4>2. all[c] \notin Bad /\ all[c] \in SUBSET D
        BY <1>2, <2>1, <4>1
      <4> QED  BY <4>1, <4>2
    <3> QED  BY <3>1, <3>2
  <2> QED  BY <2>2, <2>4
<1>4. ASSUME NEW n \in D PROVE f[n] = g[n]
  BY <1>2, <1>3
<1> QED  BY <1>4

\* Trees under a node that was put on top of two others, and elsewhere.
LEMMA JoinKeeps ==
    ASSUME NEW D, KeySet(D), NEW t \in Tables(D), NEW n \in D, NEW a, NEW b,
           NEW g, Joins(g, t, D, n, a, b),
           NEW C \in SUBSET D, n \notin C, NEW c, Tree(t, c, C)
    PROVE  Tree(g, c, C)
<1>1. \A m \in C : SameNode(g, t, m)
  BY DEF Joins, SameNode
<1>2. NULL \notin C
  BY DEF KeySet
<1> QED  BY <1>1, <1>2, TreeStays

Above(n, A, B) == (\A x \in A : x < n) /\ (\A x \in B : n < x)

LEMMA JoinTree ==
    ASSUME NEW D, KeySet(D), NEW t \in Tables(D), NEW n \in D, NEW a, NEW b,
           NEW g, Joins(g, t, D, n, a, b),
           NEW A \in SUBSET D, NEW B \in SUBSET D, Above(n, A, B),
           Tree(t, a, A), Tree(t, b, B),
           \A x \in A \cup B : t[x].priority <= t[n].priority
    PROVE  Tree(g, n, A \cup {n} \cup B)
<1> DEFINE K == A \cup {n} \cup B
<1>1. n \notin A /\ n \notin B /\ NULL \notin D /\ n \in Int
  BY DEF KeySet, Above
<1>2. Tree(g, a, A) /\ Tree(g, b, B)
  BY <1>1, JoinKeeps
<1>3. a \in A \cup {NULL} /\ b \in B \cup {NULL}
  BY DEF Tree
<1>4. a # n /\ b # n
  BY <1>1, <1>3
<1>5. g \in Tables(D) /\ g[n].left = a /\ g[n].right = b /\ \A m \in D : m # n => g[m] = t[m]
  BY DEF Joins
<1>6. SizeOf(g, a) = SizeOf(t, a) /\ SizeOf(g, b) = SizeOf(t, b)
  BY <1>3, <1>4, <1>5 DEF SizeOf
<1>7. g[n].size = 1 + SizeOf(g, a) + SizeOf(g, b)
  BY <1>4, <1>6 DEF Joins
<1>8. \A x \in K : g[x].priority <= g[n].priority
  <2>1. g[n].priority = t[n].priority /\ g[n].priority \in Int
    BY <1>5 DEF Joins, Tables, NodesOver
  <2>2. \A x \in A \cup B : x \in D /\ x # n
    BY <1>1
  <2> QED  BY <1>5, <2>1, <2>2
<1>9. Halves(g, n, K, A, B)
  BY <1>2, <1>5, <1>7, <1>8 DEF Halves, Above
<1> QED  BY <1>5, <1>9, Compose

-----------------------------------------------------------------------------
(* split. *)

\* g is t with the links of K changed.
Relinks(g, t, D, K) ==
    /\ g \in Tables(D) /\ \A m \in D \ K : g[m] = t[m]
    /\ \A m \in D : g[m].priority = t[m].priority /\ g[m].left_stock = t[m].left_stock

SplitResults(D) == [t : Tables(D), first : D \cup {NULL}, second : D \cup {NULL}]

SplitRight(b, n) == [t |-> SetRight(b.t, n, b.first), first |-> n, second |-> b.second]
SplitLeft(a, n) == [t |-> SetLeft(a.t, n, a.second), first |-> a.first, second |-> n]

SplitRec(split, tree, D, key) ==
    /\ split \in [D \cup {NULL} -> SplitResults(D)]
    /\ split[NULL] = [t |-> tree, first |-> NULL, second |-> NULL]
    /\ \A n \in D : split[n] = IF key > n THEN SplitRight(split[tree[n].right], n)
                               ELSE SplitLeft(split[tree[n].left], n)

LEMMA SplitTypes ==
    ASSUME NEW D, KeySet(D), NEW n \in D, NEW a \in SplitResults(D)
    PROVE  SplitRight(a, n) \in SplitResults(D) /\ SplitLeft(a, n) \in SplitResults(D)
<1>1. a.t \in Tables(D) /\ a.first \in D \cup {NULL} /\ a.second \in D \cup {NULL}
  BY DEF SplitResults
<1>2. SetRight(a.t, n, a.first) \in Tables(D) /\ SetLeft(a.t, n, a.second) \in Tables(D)
  BY <1>1, SetRightIs, SetLeftIs DEF Joins
<1> QED  BY <1>1, <1>2 DEF SplitResults, SplitRight, SplitLeft

LEMMA SplitRecursion ==
    ASSUME NEW D, KeySet(D), NEW tree \in Tables(D), Forest(tree, D), NEW key
    PROVE  \E split : /\ SplitRec(split, tree, D, key)
                      /\ \A n : Split(tree, n, key) = split[n]
<1> DEFINE X == SplitResults(D)
           e == [t |-> tree, first |-> NULL, second |-> NULL]
           Body(f, n) == IF n = NULL THEN e
                         ELSE IF key > n THEN SplitRight(f[tree[n].right], n)
                         ELSE SplitLeft(f[tree[n].left], n)
           Rec(f) == f = [n \in D \cup {NULL} |-> Body(f, n)]
           F == [n \in D |-> [a \in X |-> [b \in X |->
                  IF key > n THEN SplitRight(b, n) ELSE SplitLeft(a, n)]]]
<1>1. D = DOMAIN tree /\ NULL \notin D
  BY DEF Tables, KeySet
<1>2. \A n : Split(tree, n, key) = (CHOOSE f : Rec(f))[n]
  BY <1>1 DEF Split, SplitRight, SplitLeft
<1>3. e \in X
  BY DEF SplitResults
<1>4. F \in [D -> [X -> [X -> X]]]
  <2> HIDE DEF X
  <2>1. \A n \in D : \A a, b \in X : (IF key > n THEN SplitRight(b, n) ELSE SplitLeft(a, n)) \in X
    BY SplitTypes DEF X
  <2> QED  BY <2>1
<1> HIDE DEF X
<1>5. PICK g : Visits(g, tree, D, X, e, F)
  <2> HIDE DEF F, e
  <2> QED  BY <1>3, <1>4, TreeRecursion
<1>6. g \in [D \cup {NULL} -> X] /\ g[NULL] = e
  BY <1>5 DEF Visits
<1>7. ASSUME NEW n \in D PROVE g[n] = Body(g, n) /\ n # NULL
  <2>1. tree[n].left \in D \cup {NULL} /\ tree[n].right \in D \cup {NULL} /\ n # NULL
    BY <1>1 DEF Tables, NodesOver
  <2>2. g[tree[n].left] \in X /\ g[tree[n].right] \in X
    BY <1>6, <2>1
  <2>3. g[n] = F[n][g[tree[n].left]][g[tree[n].right]]
    BY <1>5 DEF Visits
  <2> QED  BY <2>1, <2>2, <2>3
<1>8. Rec(g)
  <2>1. \A n \in D \cup {NULL} : g[n] = Body(g, n)
    BY <1>6, <1>7
  <2> HIDE DEF Body
  <2> QED  BY <1>6, <2>1
<1> DEFINE s == CHOOSE f : Rec(f)
<1>9. Rec(s)
  <2> HIDE DEF Rec
  <2> QED  BY <1>8
<1>10. \A n \in D \cup {NULL} : s[n] = Body(s, n)
  <2> HIDE DEF s, Body
  <2> QED  BY <1>9
<1> HIDE DEF s
<1>11. ASSUME NEW n \in D, s[tree[n].left] = g[tree[n].left], s[tree[n].right] = g[tree[n].right]
       PROVE  s[n] = g[n]
  BY <1>7, <1>10, <1>11
<1>12. s[NULL] = g[NULL]
  BY <1>6, <1>10
<1>13. \A n \in D \cup {NULL} : s[n] = g[n]
  <2> HIDE DEF Rec, Body, e, F
  <2> QED  BY <1>11, <1>12, SameEverywhere
<1>14. s = g
  <2> HIDE DEF Body
  <2> QED  BY <1>6, <1>9, <1>13
<1>15. SplitRec(g, tree, D, key)
  BY <1>6, <1>7 DEF SplitRec, X
<1>16. \A n : Split(tree, n, key) = g[n]
  <2> HIDE DEF Rec
  <2> QED  BY <1>2, <1>14 DEF s
<1> QED  BY <1>15, <1>16

LEMMA RelinksTree ==
    ASSUME NEW D, KeySet(D), NEW t, NEW g, NEW K, Relinks(g, t, D, K),
           NEW C \in SUBSET D, C \cap K = {}, NEW c, Tree(t, c, C)
    PROVE  Tree(g, c, C)
<1>1. \A m \in C : SameNode(g, t, m)
  BY DEF Relinks, SameNode
<1>2. NULL \notin C
  BY DEF KeySet
<1> QED  BY <1>1, <1>2, TreeStays

\* A node that is put on top of two trees, after its table was relinked.
LEMMA JoinRelinks ==
    ASSUME NEW D, KeySet(D), NEW t \in Tables(D), NEW K \in SUBSET D, NEW J \in SUBSET K,
           NEW g, Relinks(g, t, D, J), NEW n \in K, NEW a, NEW b, NEW h, Joins(h, g, D, n, a, b)
    PROVE  Relinks(h, t, D, K)
<1>1. h \in Tables(D) /\ \A m \in D : m # n => h[m] = g[m]
  BY DEF Joins
<1>2. h[n].priority = g[n].priority /\ h[n].left_stock = g[n].left_stock
  BY DEF Joins
<1>3. \A m \in D \ K : h[m] = t[m]
  BY <1>1 DEF Relinks
<1>4. \A m \in D : h[m].priority = t[m].priority /\ h[m].left_stock = t[m].left_stock
  BY <1>1, <1>2 DEF Relinks
<1> QED  BY <1>1, <1>3, <1>4 DEF Relinks

Lower(K, key) == {x \in K : key > x}
Upper(K, key) == {x \in K : ~(key > x)}

IsSplit(s, tree, D, K, key) ==
    /\ s \in SplitResults(D) /\ Relinks(s.t, tree, D, K)
    /\ Tree(s.t, s.first, Lower(K, key)) /\ Tree(s.t, s.second, Upper(K, key))

LEMMA SplitRightGood ==
    ASSUME NEW D, KeySet(D), NEW tree \in Tables(D), NEW K \in SUBSET D, NEW n, NEW A, NEW B,
           Halves(tree, n, K, A, B), NEW key \in Int, key > n,
           NEW s, IsSplit(s, tree, D, B, key)
    PROVE  IsSplit(SplitRight(s, n), tree, D, K, key)
<1> DEFINE g == SetRight(s.t, n, s.first)
           a == tree[n].left
<1>1. /\ n \in K /\ n \in D /\ K = A \cup {n} \cup B /\ n \in Int /\ K \subseteq Int
      /\ (\A x \in A : x < n) /\ (\A x \in B : n < x)
      /\ A \in SUBSET D /\ B \in SUBSET D /\ B \in SUBSET K
      /\ n \notin A /\ n \notin B /\ A \cap B = {}
  BY DEF Halves, KeySet
<1>2. s.t \in Tables(D) /\ s.first \in D \cup {NULL} /\ s.second \in D \cup {NULL}
      /\ s \in SplitResults(D) /\ Relinks(s.t, tree, D, B)
  BY DEF IsSplit, SplitResults
<1>3. Joins(g, s.t, D, n, a, s.first)
  <2>1. s.t[n] = tree[n]
    BY <1>1, <1>2 DEF Relinks
  <2> QED  BY <1>1, <1>2, <2>1, SetRightIs
<1>4. Relinks(g, tree, D, K)
  BY <1>1, <1>2, <1>3, JoinRelinks
<1>5. Tree(s.t, a, A)
  BY <1>1, <1>2, RelinksTree DEF Halves
<1>6. \A x \in K : s.t[x].priority <= s.t[n].priority
  BY <1>1, <1>2 DEF Relinks, Halves
<1>7. Lower(K, key) = A \cup {n} \cup Lower(B, key) /\ Upper(K, key) = Upper(B, key)
  <2>1. \A x \in A : key > x
    <3> SUFFICES ASSUME NEW x \in A PROVE key > x
      OBVIOUS
    <3>1. x \in Int /\ x < n
      BY <1>1
    <3> QED  BY <1>1, <3>1
  <2> QED  BY <1>1, <2>1 DEF Lower, Upper
<1>8. Lower(B, key) \in SUBSET D /\ Upper(B, key) \in SUBSET D /\ n \notin Upper(B, key)
      /\ Above(n, A, Lower(B, key)) /\ A \cup Lower(B, key) \subseteq K
  BY <1>1 DEF Lower, Upper, Above
<1> HIDE DEF g
<1>9. Tree(g, n, A \cup {n} \cup Lower(B, key))
  BY <1>1, <1>2, <1>3, <1>5, <1>6, <1>8, JoinTree DEF IsSplit
<1>10. Tree(g, s.second, Upper(B, key))
  BY <1>1, <1>2, <1>3, <1>8, JoinKeeps DEF IsSplit
<1>11. SplitRight(s, n) = [t |-> g, first |-> n, second |-> s.second]
  BY DEF g, SplitRight
<1>12. SplitRight(s, n) \in SplitResults(D)
  BY <1>1, <1>2, SplitTypes
<1> QED  BY <1>4, <1>7, <1>9, <1>10, <1>11, <1>12 DEF IsSplit

LEMMA SplitLeftGood ==
    ASSUME NEW D, KeySet(D), NEW tree \in Tables(D), NEW K \in SUBSET D, NEW n, NEW A, NEW B,
           Halves(tree, n, K, A, B), NEW key \in Int, ~(key > n),
           NEW s, IsSplit(s, tree, D, A, key)
    PROVE  IsSplit(SplitLeft(s, n), tree, D, K, key)
<1> DEFINE g == SetLeft(s.t, n, s.second)
           b == tree[n].right
<1>1. /\ n \in K /\ n \in D /\ K = A \cup {n} \cup B /\ n \in Int /\ K \subseteq Int
      /\ (\A x \in A : x < n) /\ (\A x \in B : n < x)
      /\ A \in SUBSET D /\ B \in SUBSET D /\ A \in SUBSET K
      /\ n \notin A /\ n \notin B /\ A \cap B = {}
  BY DEF Halves, KeySet
<1>2. s.t \in Tables(D) /\ s.first \in D \cup {NULL} /\ s.second \in D \cup {NULL}
      /\ s \in SplitResults(D) /\ Relinks(s.t, tree, D, A)
  BY DEF IsSplit, SplitResults
<1>3. Joins(g, s.t, D, n, s.second, b)
  <2>1. s.t[n] = tree[n]
    BY <1>1, <1>2 DEF Relinks
  <2> QED  BY <1>1, <1>2, <2>1, SetLeftIs
<1>4. Relinks(g, tree, D, K)
  BY <1>1, <1>2, <1>3, JoinRelinks
<1>5. Tree(s.t, b, B)
  <2>1. B \cap A = {}
    BY <1>1
  <2> QED  BY <2>1, <1>1, <1>2, RelinksTree DEF Halves
<1>6. \A x \in K : s.t[x].priority <= s.t[n].priority
  BY <1>1, <1>2 DEF Relinks, Halves
<1>7. Upper(K, key) = Upper(A, key) \cup {n} \cup B /\ Lower(K, key) = Lower(A, key)
  <2>1. \A x \in B : ~(key > x)
    <3> SUFFICES ASSUME NEW x \in B PROVE ~(key > x)
      OBVIOUS
    <3>1. x \in Int /\ n < x
      BY <1>1
    <3> QED  BY <1>1, <3>1
  <2> QED  BY <1>1, <2>1 DEF Lower, Upper
<1>8. Lower(A, key) \in SUBSET D /\ Upper(A, key) \in SUBSET D /\ n \notin Lower(A, key)
      /\ Above(n, Upper(A, key), B) /\ Upper(A, key) \cup B \subseteq K
  BY <1>1 DEF Lower, Upper, Above
<1> HIDE DEF g
<1>9. Tree(g, n, Upper(A, key) \cup {n} \cup B)
  BY <1>1, <1>2, <1>3, <1>5, <1>6, <1>8, JoinTree DEF IsSplit
<1>10. Tree(g, s.first, Lower(A, key))
  BY <1>1, <1>2, <1>3, <1>8, JoinKeeps DEF IsSplit
<1>11. SplitLeft(s, n) = [t |-> g, first |-> s.first, second |-> n]
  BY DEF g, SplitLeft
<1>12. SplitLeft(s, n) \in SplitResults(D)
  BY <1>1, <1>2, SplitTypes
<1> QED  BY <1>4, <1>7, <1>9, <1>10, <1>11, <1>12 DEF IsSplit

\* What holds of the empty tree, and of a tree when it holds of its halves.
LEMMA TreeInduction ==
    ASSUME NEW D, KeySet(D), NEW t \in Tables(D), NEW Good, <<NULL, {}>> \in Good,
           \A m \in D : \A J, A, B \in SUBSET D :
             /\ Halves(t, m, J, A, B) /\ m \notin A /\ m \notin B /\ A \cap B = {}
             /\ <<t[m].left, A>> \in Good /\ <<t[m].right, B>> \in Good
             => <<m, J>> \in Good
    PROVE  \A K \in SUBSET D : \A n : Tree(t, n, K) => <<n, K>> \in Good
<1> DEFINE Wrong(J) == \E m : Tree(t, m, J) /\ <<m, J>> \notin Good
           Bad == {J \in SUBSET D : Wrong(J)}
<1>1. ASSUME Bad # {} PROVE FALSE
  <2>1. PICK J \in Bad : \A I \in Bad : I \subseteq J => I = J
    <3>1. Bad \in SUBSET (SUBSET D) /\ IsFiniteSet(D)
      BY DEF KeySet
    <3> HIDE DEF Bad
    <3> QED  BY <1>1, <3>1, MinimalSet
  <2>2. PICK m : Tree(t, m, J) /\ <<m, J>> \notin Good
    BY <2>1
  <2>3. J \in SUBSET D /\ NULL \notin J
    BY <2>1 DEF KeySet
  <2>4. m # NULL
    BY <2>2, <2>3, TreeNull
  <2>5. PICK A, B : Halves(t, m, J, A, B)
    BY <2>2, <2>3, <2>4, Decompose
  <2>6. /\ m \in D /\ J = A \cup {m} \cup B /\ A \in SUBSET D /\ B \in SUBSET D
        /\ m \notin A /\ m \notin B /\ A \cap B = {}
    <3>1. m \in Int /\ J \subseteq Int
      BY <2>3, <2>5 DEF Halves, KeySet
    <3> QED  BY <2>3, <2>5, <3>1 DEF Halves
  <2>7. A \notin Bad /\ B \notin Bad
    <3> HIDE DEF Bad
    <3> QED  BY <2>1, <2>6
  <2>8. <<t[m].left, A>> \in Good /\ <<t[m].right, B>> \in Good
    BY <2>5, <2>6, <2>7 DEF Halves
  <2> QED  BY <2>2, <2>3, <2>5, <2>6, <2>8
<1> QED  BY <1>1

\* split: the keys below key, and the others, each a treap.
LEMMA SplitIs ==
    ASSUME NEW D, KeySet(D), NEW tree \in Tables(D), Forest(tree, D), NEW key \in Int,
           NEW K \in SUBSET D, NEW n, Tree(tree, n, K)
    PROVE  IsSplit(Split(tree, n, key), tree, D, K, key)
<1>1. PICK split : SplitRec(split, tree, D, key) /\ \A m : Split(tree, m, key) = split[m]
  BY SplitRecursion
<1> DEFINE Good == {p \in (D \cup {NULL}) \X SUBSET D : IsSplit(split[p[1]], tree, D, p[2], key)}
<1>2. <<NULL, {}>> \in Good
  <2>1. split[NULL] = [t |-> tree, first |-> NULL, second |-> NULL] /\ split[NULL] \in SplitResults(D)
    BY <1>1 DEF SplitRec
  <2>2. Lower({}, key) = {} /\ Upper({}, key) = {} /\ Tree(tree, NULL, {})
    <3>1. NULL \notin {}
      OBVIOUS
    <3> QED  BY <3>1, TreeNull DEF Lower, Upper
  <2>3. Relinks(tree, tree, D, {})
    BY DEF Relinks
  <2> QED  BY <2>1, <2>2, <2>3 DEF IsSplit
<1>3. ASSUME NEW m \in D, NEW J \in SUBSET D, NEW A \in SUBSET D, NEW B \in SUBSET D,
             Halves(tree, m, J, A, B), <<tree[m].left, A>> \in Good, <<tree[m].right, B>> \in Good
      PROVE  <<m, J>> \in Good
  <2>1. IsSplit(split[tree[m].left], tree, D, A, key) /\ IsSplit(split[tree[m].right], tree, D, B, key)
    BY <1>3
  <2>2. split[m] = IF key > m THEN SplitRight(split[tree[m].right], m)
                   ELSE SplitLeft(split[tree[m].left], m)
    BY <1>1 DEF SplitRec
  <2>3. CASE key > m
    BY <1>3, <2>1, <2>2, <2>3, SplitRightGood
  <2>4. CASE ~(key > m)
    BY <1>3, <2>1, <2>2, <2>4, SplitLeftGood
  <2> QED  BY <2>3, <2>4
<1>4. <<n, K>> \in Good
  <2> HIDE DEF Good
  <2> QED  BY <1>2, <1>3, TreeInduction
<1> QED  BY <1>1, <1>4

-----------------------------------------------------------------------------
(* insert. *)

Roots(D) == [t : Tables(D), root : D \cup {NULL}]

PutLeft(r, n) == [t |-> SetLeft(r.t, n, r.root), root |-> n]
PutRight(r, n) == [t |-> SetRight(r.t, n, r.root), root |-> n]

LEMMA PutTypes ==
    ASSUME NEW D, KeySet(D), NEW n \in D, NEW r \in Roots(D)
    PROVE  PutLeft(r, n) \in Roots(D) /\ PutRight(r, n) \in Roots(D)
<1>1. r.t \in Tables(D) /\ r.root \in D \cup {NULL}
  BY DEF Roots
<1>2. SetRight(r.t, n, r.root) \in Tables(D) /\ SetLeft(r.t, n, r.root) \in Tables(D)
  BY <1>1, SetRightIs, SetLeftIs DEF Joins
<1> QED  BY <1>1, <1>2 DEF Roots, PutLeft, PutRight

\* r is a table in which r.root is a treap of L, made by relinking L and no more.
Planted(r, tree, D, L) == r \in Roots(D) /\ Relinks(r.t, tree, D, L) /\ Tree(r.t, r.root, L)

\* A half of the tree under n is replaced.
LEMMA PutLeftGood ==
    ASSUME NEW D, KeySet(D), NEW tree \in Tables(D), NEW J \in SUBSET D, NEW n \in D,
           NEW A \in SUBSET D, NEW B \in SUBSET D, Halves(tree, n, J, A, B), A \cap B = {}, n \notin B,
           NEW L \in SUBSET D, NEW r, Planted(r, tree, D, L),
           L \cap B = {}, \A x \in L : x < n /\ tree[x].priority <= tree[n].priority
    PROVE  Planted(PutLeft(r, n), tree, D, L \cup {n} \cup B)
<1> DEFINE g == SetLeft(r.t, n, r.root)
           b == tree[n].right
           K == L \cup {n} \cup B
<1>1. n \in Int /\ n \notin L /\ K \in SUBSET D /\ L \in SUBSET K /\ n \in K
  <2>1. n \in Int
    BY DEF KeySet
  <2>2. ~(n < n)
    BY <2>1
  <2> QED  BY <2>1, <2>2
<1>2. r.t \in Tables(D) /\ r.root \in D \cup {NULL} /\ Relinks(r.t, tree, D, L) /\ r \in Roots(D)
      /\ Tree(r.t, r.root, L)
  BY DEF Planted, Roots
<1>3. Joins(g, r.t, D, n, r.root, b)
  <2>1. r.t[n] = tree[n]
    BY <1>1, <1>2 DEF Relinks
  <2> QED  BY <1>1, <1>2, <2>1, SetLeftIs
<1>4. Tree(r.t, b, B)
  <2>1. B \cap L = {} /\ Tree(tree, b, B)
    BY DEF Halves
  <2> QED  BY <1>2, <2>1, RelinksTree
<1>5. \A x \in K : r.t[x].priority <= r.t[n].priority
  <2>1. \A x \in K : tree[x].priority <= tree[n].priority
    BY DEF Halves
  <2> QED  BY <1>1, <1>2, <2>1 DEF Relinks
<1>6. Above(n, L, B)
  BY DEF Halves, Above
<1> HIDE DEF g
<1>7. Relinks(g, tree, D, K)
  <2> HIDE DEF K
  <2> QED  BY <1>1, <1>2, <1>3, JoinRelinks
<1>8. Tree(g, n, K)
  BY <1>1, <1>2, <1>3, <1>4, <1>5, <1>6, JoinTree
<1>9. PutLeft(r, n) \in Roots(D) /\ PutLeft(r, n) = [t |-> g, root |-> n]
  BY <1>2, PutTypes DEF PutLeft, g
<1> QED  BY <1>7, <1>8, <1>9 DEF Planted

LEMMA PutRightGood ==
    ASSUME NEW D, KeySet(D), NEW tree \in Tables(D), NEW J \in SUBSET D, NEW n \in D,
           NEW A \in SUBSET D, NEW B \in SUBSET D, Halves(tree, n, J, A, B), A \cap B = {}, n \notin A,
           NEW L \in SUBSET D, NEW r, Planted(r, tree, D, L),
           L \cap A = {}, \A x \in L : n < x /\ tree[x].priority <= tree[n].priority
    PROVE  Planted(PutRight(r, n), tree, D, A \cup {n} \cup L)
<1> DEFINE g == SetRight(r.t, n, r.root)
           a == tree[n].left
           K == A \cup {n} \cup L
<1>1. n \in Int /\ n \notin L /\ K \in SUBSET D /\ L \in SUBSET K /\ n \in K
  <2>1. n \in Int
    BY DEF KeySet
  <2>2. ~(n < n)
    BY <2>1
  <2> QED  BY <2>1, <2>2
<1>2. r.t \in Tables(D) /\ r.root \in D \cup {NULL} /\ Relinks(r.t, tree, D, L) /\ r \in Roots(D)
      /\ Tree(r.t, r.root, L)
  BY DEF Planted, Roots
<1>3. Joins(g, r.t, D, n, a, r.root)
  <2>1. r.t[n] = tree[n]
    BY <1>1, <1>2 DEF Relinks
  <2> QED  BY <1>1, <1>2, <2>1, SetRightIs
<1>4. Tree(r.t, a, A)
  <2>1. A \cap L = {} /\ Tree(tree, a, A)
    BY DEF Halves
  <2> QED  BY <1>2, <2>1, RelinksTree
<1>5. \A x \in K : r.t[x].priority <= r.t[n].priority
  <2>1. \A x \in K : tree[x].priority <= tree[n].priority
    BY DEF Halves
  <2> QED  BY <1>1, <1>2, <2>1 DEF Relinks
<1>6. Above(n, A, L)
  BY DEF Halves, Above
<1> HIDE DEF g
<1>7. Relinks(g, tree, D, K)
  <2> HIDE DEF K
  <2> QED  BY <1>1, <1>2, <1>3, JoinRelinks
<1>8. Tree(g, n, K)
  BY <1>1, <1>2, <1>3, <1>4, <1>5, <1>6, JoinTree
<1>9. PutRight(r, n) \in Roots(D) /\ PutRight(r, n) = [t |-> g, root |-> n]
  BY <1>2, PutTypes DEF PutRight, g
<1> QED  BY <1>7, <1>8, <1>9 DEF Planted

\* node on top of the two halves of the tree under n.
OnTop(tree, n, node) ==
    LET s == Split(tree, n, node) IN
    [t |-> SetRight(SetLeft(s.t, node, s.first), node, s.second), root |-> node]

InsertRec(ins, tree, D, node) ==
    /\ ins \in [D \cup {NULL} -> Roots(D)]
    /\ ins[NULL] = [t |-> tree, root |-> node]
    /\ \A n \in D : ins[n] = IF tree[n].priority < tree[node].priority THEN OnTop(tree, n, node)
                             ELSE IF n > node THEN PutLeft(ins[tree[n].left], n)
                             ELSE PutRight(ins[tree[n].right], n)

LEMMA OnTopType ==
    ASSUME NEW D, KeySet(D), NEW tree \in Tables(D), Forest(tree, D), NEW node \in D, NEW n \in D
    PROVE  OnTop(tree, n, node) \in Roots(D)
<1>1. PICK s : s = Split(tree, n, node)
  OBVIOUS
<1>2. s \in SplitResults(D)
  <2>1. PICK split : SplitRec(split, tree, D, node) /\ \A m : Split(tree, m, node) = split[m]
    BY SplitRecursion
  <2> QED  BY <1>1, <2>1 DEF SplitRec
<1>3. s.t \in Tables(D) /\ s.first \in D \cup {NULL} /\ s.second \in D \cup {NULL}
  BY <1>2 DEF SplitResults
<1>4. SetLeft(s.t, node, s.first) \in Tables(D)
  BY <1>3, SetLeftIs DEF Joins
<1>5. SetRight(SetLeft(s.t, node, s.first), node, s.second) \in Tables(D)
  BY <1>3, <1>4, SetRightIs DEF Joins
<1> QED  BY <1>1, <1>5 DEF Roots, OnTop

LEMMA InsertRecursion ==
    ASSUME NEW D, KeySet(D), NEW tree \in Tables(D), Forest(tree, D), NEW node \in D
    PROVE  \E ins : /\ InsertRec(ins, tree, D, node)
                    /\ \A n : Insert(tree, n, node) = ins[n]
<1> DEFINE X == Roots(D)
           e == [t |-> tree, root |-> node]
           Body(f, n) == IF n = NULL THEN e
                         ELSE IF tree[n].priority < tree[node].priority THEN OnTop(tree, n, node)
                         ELSE IF n > node THEN PutLeft(f[tree[n].left], n)
                         ELSE PutRight(f[tree[n].right], n)
           Rec(f) == f = [n \in D \cup {NULL} |-> Body(f, n)]
           F == [n \in D |-> [a \in X |-> [b \in X |->
                  IF tree[n].priority < tree[node].priority THEN OnTop(tree, n, node)
                  ELSE IF n > node THEN PutLeft(a, n) ELSE PutRight(b, n)]]]
<1>1. D = DOMAIN tree /\ NULL \notin D
  BY DEF Tables, KeySet
<1>2. \A n : Insert(tree, n, node) = (CHOOSE f : Rec(f))[n]
  BY <1>1 DEF Insert, OnTop, PutLeft, PutRight
<1>3. e \in X
  BY DEF Roots
<1>4. F \in [D -> [X -> [X -> X]]]
  <2>1. \A n \in D : OnTop(tree, n, node) \in X
    BY OnTopType
  <2>2. \A n \in D : \A a \in X : PutLeft(a, n) \in X /\ PutRight(a, n) \in X
    BY PutTypes
  <2> HIDE DEF X
  <2> QED  BY <2>1, <2>2
<1> HIDE DEF X
<1>5. PICK g : Visits(g, tree, D, X, e, F)
  <2> HIDE DEF F, e
  <2> QED  BY <1>3, <1>4, TreeRecursion
<1>6. g \in [D \cup {NULL} -> X] /\ g[NULL] = e
  BY <1>5 DEF Visits
<1>7. ASSUME NEW n \in D PROVE g[n] = Body(g, n) /\ n # NULL
  <2>1. tree[n].left \in D \cup {NULL} /\ tree[n].right \in D \cup {NULL} /\ n # NULL
    BY <1>1 DEF Tables, NodesOver
  <2>2. g[tree[n].left] \in X /\ g[tree[n].right] \in X
    BY <1>6, <2>1
  <2>3. g[n] = F[n][g[tree[n].left]][g[tree[n].right]]
    BY <1>5 DEF Visits
  <2> QED  BY <2>1, <2>2, <2>3
<1>8. Rec(g)
  <2>1. \A n \in D \cup {NULL} : g[n] = Body(g, n)
    BY <1>6, <1>7
  <2> HIDE DEF Body
  <2> QED  BY <1>6, <2>1
<1> DEFINE s == CHOOSE f : Rec(f)
<1>9. Rec(s)
  <2> HIDE DEF Rec
  <2> QED  BY <1>8
<1>10. \A n \in D \cup {NULL} : s[n] = Body(s, n)
  <2> HIDE DEF s, Body
  <2> QED  BY <1>9
<1> HIDE DEF s
<1>11. ASSUME NEW n \in D, s[tree[n].left] = g[tree[n].left], s[tree[n].right] = g[tree[n].right]
       PROVE  s[n] = g[n]
  BY <1>7, <1>10, <1>11
<1>12. s[NULL] = g[NULL]
  BY <1>6, <1>10
<1>13. \A n \in D \cup {NULL} : s[n] = g[n]
  <2> HIDE DEF Rec, Body, e, F
  <2> QED  BY <1>11, <1>12, SameEverywhere
<1>14. s = g
  <2> HIDE DEF Body
  <2> QED  BY <1>6, <1>9, <1>13
<1>15. InsertRec(g, tree, D, node)
  BY <1>6, <1>7 DEF InsertRec, X
<1>16. \A n : Insert(tree, n, node) = g[n]
  <2> HIDE DEF Rec
  <2> QED  BY <1>2, <1>14 DEF s
<1> QED  BY <1>15, <1>16

LEMMA OnTopGood ==
    ASSUME NEW D, KeySet(D), NEW tree \in Tables(D), Forest(tree, D), NEW node \in D,
           NEW K \in SUBSET D, node \notin K, NEW n \in D, Tree(tree, n, K),
           \A x \in K : tree[x].priority <= tree[node].priority
    PROVE  Planted(OnTop(tree, n, node), tree, D, K \cup {node})
<1>1. PICK s : s = Split(tree, n, node)
  OBVIOUS
<1> DEFINE g == SetLeft(s.t, node, s.first)
           h == SetRight(g, node, s.second)
           A == Lower(K, node)
           B == Upper(K, node)
           L == K \cup {node}
<1>2. node \in Int /\ K \subseteq Int /\ A \in SUBSET D /\ B \in SUBSET D
      /\ node \notin A /\ node \notin B /\ L = A \cup {node} \cup B /\ Above(node, A, B)
      /\ L \in SUBSET D /\ K \in SUBSET L /\ L \in SUBSET L
  <2>1. node \in Int /\ K \subseteq Int
    BY DEF KeySet
  <2>2. A \in SUBSET K /\ B \in SUBSET K /\ A \cup B = K
    BY DEF Lower, Upper
  <2>3. \A x \in K : x \in Int /\ x # node
    BY <2>1
  <2>4. Above(node, A, B)
    BY <2>1, <2>3 DEF Lower, Upper, Above
  <2> HIDE DEF A, B
  <2> QED  BY <2>1, <2>2, <2>4
<1> HIDE DEF A, B, L
<1>3. IsSplit(s, tree, D, K, node)
  BY <1>1, <1>2, SplitIs
<1>4. /\ s.t \in Tables(D) /\ s.first \in D \cup {NULL} /\ s.second \in D \cup {NULL}
      /\ Relinks(s.t, tree, D, K) /\ Tree(s.t, s.first, A) /\ Tree(s.t, s.second, B)
  BY <1>3 DEF IsSplit, SplitResults, A, B
<1>5. Joins(g, s.t, D, node, s.first, s.t[node].right)
  BY <1>4, SetLeftIs
<1> HIDE DEF g
<1>6. g \in Tables(D) /\ g[node].left = s.first
  BY <1>5 DEF Joins
<1>7. Joins(h, g, D, node, s.first, s.second)
  BY <1>4, <1>6, SetRightIs
<1> HIDE DEF h
<1>8. node \in L
  BY <1>2
<1>9. Relinks(g, tree, D, L)
  BY <1>2, <1>4, <1>5, <1>8, JoinRelinks
<1>10. Relinks(h, tree, D, L)
  BY <1>2, <1>7, <1>8, <1>9, JoinRelinks
<1>11. Tree(g, s.first, A) /\ Tree(g, s.second, B)
  <2>1. PICK t, b : t \in Tables(D) /\ Joins(g, t, D, node, s.first, b) /\ t = s.t
    BY <1>4, <1>5
  <2>2. Tree(t, s.first, A) /\ Tree(t, s.second, B)
    BY <1>4, <2>1
  <2> QED  BY <1>2, <2>1, <2>2, JoinKeeps
<1>12. \A x \in A \cup B : g[x].priority <= g[node].priority
  BY <1>2, <1>9 DEF Relinks, A, B, Lower, Upper
<1>13. Tree(h, node, L)
  BY <1>2, <1>6, <1>7, <1>11, <1>12, JoinTree
<1>14. OnTop(tree, n, node) = [t |-> h, root |-> node]
  BY <1>1 DEF OnTop, g, h
<1>15. h \in Tables(D)
  BY <1>7 DEF Joins
<1> QED  BY <1>10, <1>13, <1>14, <1>15 DEF Planted, Roots, L

\* insert: a treap with node, whose node was alone.
LEMMA InsertIs ==
    ASSUME NEW D, KeySet(D), NEW tree \in Tables(D), Forest(tree, D), NEW node \in D,
           tree[node].left = NULL, tree[node].right = NULL, tree[node].size = 1,
           NEW K \in SUBSET D, node \notin K, NEW rt, Tree(tree, rt, K)
    PROVE  Planted(Insert(tree, rt, node), tree, D, K \cup {node})
<1>1. PICK ins : InsertRec(ins, tree, D, node) /\ \A n : Insert(tree, n, node) = ins[n]
  BY InsertRecursion
<1> DEFINE Holds(n, J) == Tree(tree, n, J) /\ node \notin J
                            => Planted(ins[n], tree, D, J \cup {node})
           Good == {p \in (D \cup {NULL}) \X SUBSET D : Holds(p[1], p[2])}
<1>2. <<NULL, {}>> \in Good
  <2>1. ins[NULL] = [t |-> tree, root |-> node]
    BY <1>1 DEF InsertRec
  <2>2. Tree(tree, NULL, {}) /\ NULL \notin {} /\ NULL \notin D
    <3>1. NULL \notin {}
      OBVIOUS
    <3> QED  BY <3>1, TreeNull DEF KeySet
  <2>3. tree[node].priority <= tree[node].priority
    BY DEF Tables, NodesOver
  <2>4. Halves(tree, node, {node}, {}, {})
    BY <2>2, <2>3 DEF Halves, SizeOf
  <2>5. Tree(tree, node, {node})
    BY <2>4, Compose
  <2>6. Relinks(tree, tree, D, {node})
    BY DEF Relinks
  <2>7. Planted(ins[NULL], tree, D, {node})
    BY <2>1, <2>5, <2>6 DEF Planted, Roots
  <2>8. {} \cup {node} = {node}
    OBVIOUS
  <2> QED  BY <2>7, <2>8
<1>3. ASSUME NEW m \in D, NEW J \in SUBSET D, NEW A \in SUBSET D, NEW B \in SUBSET D,
             Halves(tree, m, J, A, B), m \notin A, m \notin B, A \cap B = {},
             <<tree[m].left, A>> \in Good, <<tree[m].right, B>> \in Good
      PROVE  <<m, J>> \in Good
  <2> SUFFICES ASSUME Tree(tree, m, J), node \notin J
               PROVE  Planted(ins[m], tree, D, J \cup {node})
    OBVIOUS
  <2>1. /\ J = A \cup {m} \cup B /\ (\A x \in A : x < m) /\ (\A x \in B : m < x)
        /\ \A x \in J : tree[x].priority <= tree[m].priority
        /\ Tree(tree, tree[m].left, A) /\ Tree(tree, tree[m].right, B)
    BY <1>3 DEF Halves
  <2>2. /\ Planted(ins[tree[m].left], tree, D, A \cup {node})
        /\ Planted(ins[tree[m].right], tree, D, B \cup {node})
    BY <1>3, <2>1
  <2>3. ins[m] = IF tree[m].priority < tree[node].priority THEN OnTop(tree, m, node)
                 ELSE IF m > node THEN PutLeft(ins[tree[m].left], m)
                 ELSE PutRight(ins[tree[m].right], m)
    BY <1>1 DEF InsertRec
  <2>4. m \in Int /\ node \in Int /\ m # node
        /\ \A x \in D : tree[x].priority \in Int
    BY <2>1 DEF KeySet, Tables, NodesOver
  <2> HIDE DEF Good
  <2>5. CASE tree[m].priority < tree[node].priority
    <3>1. \A x \in J : tree[x].priority <= tree[node].priority
      <4> SUFFICES ASSUME NEW x \in J PROVE tree[x].priority <= tree[node].priority
        OBVIOUS
      <4>1. x \in D
        OBVIOUS
      <4> QED  BY <2>1, <2>4, <2>5, <4>1
    <3> QED  BY <2>3, <2>5, <3>1, OnTopGood
  <2>6. CASE ~(tree[m].priority < tree[node].priority) /\ m > node
    <3>1. \A x \in A \cup {node} : x < m /\ tree[x].priority <= tree[m].priority
      BY <2>1, <2>4, <2>6
    <3>2. (A \cup {node}) \cap B = {} /\ A \cup {node} \in SUBSET D
      BY <1>3, <2>1
    <3>3. Planted(PutLeft(ins[tree[m].left], m), tree, D, (A \cup {node}) \cup {m} \cup B)
      BY <1>3, <2>2, <3>1, <3>2, PutLeftGood
    <3>4. J \cup {node} = (A \cup {node}) \cup {m} \cup B
      BY <2>1
    <3> QED  BY <2>3, <2>6, <3>3, <3>4
  <2>7. CASE ~(tree[m].priority < tree[node].priority) /\ ~(m > node)
    <3>1. \A x \in B \cup {node} : m < x /\ tree[x].priority <= tree[m].priority
      BY <2>1, <2>4, <2>7
    <3>2. (B \cup {node}) \cap A = {} /\ B \cup {node} \in SUBSET D
      BY <1>3, <2>1
    <3>3. Planted(PutRight(ins[tree[m].right], m), tree, D, A \cup {m} \cup (B \cup {node}))
      BY <1>3, <2>2, <3>1, <3>2, PutRightGood
    <3>4. J \cup {node} = A \cup {m} \cup (B \cup {node})
      BY <2>1
    <3> QED  BY <2>3, <2>7, <3>3, <3>4
  <2> QED  BY <2>5, <2>6, <2>7
<1>4. <<rt, K>> \in Good
  <2> HIDE DEF Good
  <2> QED  BY <1>2, <1>3, TreeInduction
<1> QED  BY <1>1, <1>4

-----------------------------------------------------------------------------
(* find_key. *)

FindRec(find, t, D, key) ==
    /\ find \in [D \cup {NULL} -> D \cup {NULL}] /\ find[NULL] = NULL
    /\ \A n \in D : find[n] = IF n = key THEN n
                              ELSE IF n > key THEN find[t[n].left] ELSE find[t[n].right]

LEMMA FindRecursion ==
    ASSUME NEW D, KeySet(D), NEW t \in Tables(D), Forest(t, D), NEW key
    PROVE  \E find : FindRec(find, t, D, key) /\ \A n : FindKey(t, n, key) = find[n]
<1> DEFINE X == D \cup {NULL}
           Body(f, n) == IF n = NULL THEN NULL ELSE IF n = key THEN n
                         ELSE IF n > key THEN f[t[n].left] ELSE f[t[n].right]
           Rec(f) == f = [n \in D \cup {NULL} |-> Body(f, n)]
           F == [n \in D |-> [a \in X |-> [b \in X |->
                  IF n = key THEN n ELSE IF n > key THEN a ELSE b]]]
<1>1. D = DOMAIN t /\ NULL \notin D
  BY DEF Tables, KeySet
<1>2. \A n : FindKey(t, n, key) = (CHOOSE f : Rec(f))[n]
  BY <1>1 DEF FindKey
<1>3. NULL \in X
  OBVIOUS
<1>4. F \in [D -> [X -> [X -> X]]]
  OBVIOUS
<1>5. PICK g : Visits(g, t, D, X, NULL, F)
  <2> HIDE DEF F, X
  <2> QED  BY <1>3, <1>4, TreeRecursion
<1>6. g \in [D \cup {NULL} -> X] /\ g[NULL] = NULL
  BY <1>5 DEF Visits
<1>7. ASSUME NEW n \in D PROVE g[n] = Body(g, n) /\ n # NULL
  <2>1. t[n].left \in D \cup {NULL} /\ t[n].right \in D \cup {NULL} /\ n # NULL
    BY <1>1 DEF Tables, NodesOver
  <2>2. g[t[n].left] \in X /\ g[t[n].right] \in X
    BY <1>6, <2>1
  <2>3. g[n] = F[n][g[t[n].left]][g[t[n].right]]
    BY <1>5 DEF Visits
  <2> HIDE DEF X
  <2> QED  BY <2>1, <2>2, <2>3
<1>8. Rec(g)
  <2>1. \A n \in D \cup {NULL} : g[n] = Body(g, n)
    BY <1>6, <1>7
  <2> HIDE DEF Body
  <2> QED  BY <1>6, <2>1
<1> DEFINE s == CHOOSE f : Rec(f)
<1>9. Rec(s)
  <2> HIDE DEF Rec
  <2> QED  BY <1>8
<1>10. \A n \in D \cup {NULL} : s[n] = Body(s, n)
  <2> HIDE DEF s, Body
  <2> QED  BY <1>9
<1> HIDE DEF s
<1>11. ASSUME NEW n \in D, s[t[n].left] = g[t[n].left], s[t[n].right] = g[t[n].right]
       PROVE  s[n] = g[n]
  BY <1>7, <1>10, <1>11
<1>12. s[NULL] = g[NULL]
  BY <1>6, <1>10
<1>13. \A n \in D \cup {NULL} : s[n] = g[n]
  <2> HIDE DEF Rec, Body, F
  <2> QED  BY <1>11, <1>12, SameEverywhere
<1>14. s = g
  <2> HIDE DEF Body
  <2> QED  BY <1>6, <1>9, <1>13
<1>15. FindRec(g, t, D, key)
  BY <1>6, <1>7 DEF FindRec
<1>16. \A n : FindKey(t, n, key) = g[n]
  <2> HIDE DEF Rec
  <2> QED  BY <1>2, <1>14 DEF s
<1> QED  BY <1>15, <1>16

\* find_key finds each key of a treap and no other.
LEMMA FindKeyIs ==
    ASSUME NEW D, KeySet(D), NEW t \in Tables(D), Forest(t, D), NEW key \in Int,
           NEW K \in SUBSET D, NEW rt, Tree(t, rt, K)
    PROVE  FindKey(t, rt, key) = IF key \in K THEN key ELSE NULL
<1>1. PICK find : FindRec(find, t, D, key) /\ \A n : FindKey(t, n, key) = find[n]
  BY FindRecursion
<1> DEFINE Found(n, J) == find[n] = IF key \in J THEN key ELSE NULL
           Good == {p \in (D \cup {NULL}) \X SUBSET D : Found(p[1], p[2])}
<1>2. <<NULL, {}>> \in Good
  BY <1>1 DEF FindRec
<1>3. ASSUME NEW m \in D, NEW J \in SUBSET D, NEW A \in SUBSET D, NEW B \in SUBSET D,
             Halves(t, m, J, A, B), <<t[m].left, A>> \in Good, <<t[m].right, B>> \in Good
      PROVE  <<m, J>> \in Good
  <2>1. Found(t[m].left, A) /\ Found(t[m].right, B)
    BY <1>3
  <2>2. /\ J = A \cup {m} \cup B /\ (\A x \in A : x < m) /\ (\A x \in B : m < x)
        /\ m \in Int
    BY <1>3 DEF Halves, KeySet
  <2>3. find[m] = IF m = key THEN m ELSE IF m > key THEN find[t[m].left] ELSE find[t[m].right]
    BY <1>1 DEF FindRec
  <2>4. CASE m = key
    BY <2>2, <2>3, <2>4
  <2>5. CASE m > key
    <3>1. key \in J <=> key \in A
      BY <2>2, <2>5
    <3>2. find[m] = find[t[m].left]
      BY <2>2, <2>3, <2>5
    <3>3. Found(m, J)
      BY <2>1, <3>1, <3>2
    <3> QED  BY <3>3
  <2>6. CASE m < key
    <3>1. key \in J <=> key \in B
      BY <2>2, <2>6
    <3>2. find[m] = find[t[m].right]
      BY <2>2, <2>3, <2>6
    <3>3. Found(m, J)
      BY <2>1, <3>1, <3>2
    <3> QED  BY <3>3
  <2> QED  BY <2>2, <2>4, <2>5, <2>6
<1>4. <<rt, K>> \in Good
  <2> HIDE DEF Good
  <2> QED  BY <1>2, <1>3, TreeInduction
<1> QED  BY <1>1, <1>4

-----------------------------------------------------------------------------
(* print_in_buf's order. *)

VisitRec(visit, t, D) ==
    /\ visit \in [D \cup {NULL} -> Seq(D)] /\ visit[NULL] = <<>>
    /\ \A n \in D : visit[n] = visit[t[n].left] \o <<n>> \o visit[t[n].right]

LEMMA VisitRecursion ==
    ASSUME NEW D, KeySet(D), NEW t \in Tables(D), Forest(t, D)
    PROVE  \E visit : VisitRec(visit, t, D) /\ \A n : InOrder(t, n) = visit[n]
<1> DEFINE X == Seq(D)
           e == <<>>
           Body(f, n) == IF n = NULL THEN e ELSE f[t[n].left] \o <<n>> \o f[t[n].right]
           Rec(f) == f = [n \in D \cup {NULL} |-> Body(f, n)]
           F == [n \in D |-> [a \in X |-> [b \in X |-> a \o <<n>> \o b]]]
<1>1. D = DOMAIN t /\ NULL \notin D
  BY DEF Tables, KeySet
<1>2. \A n : InOrder(t, n) = (CHOOSE f : Rec(f))[n]
  BY <1>1 DEF InOrder
<1>3. e \in X
  OBVIOUS
<1>4. F \in [D -> [X -> [X -> X]]]
  <2>1. \A n \in D : \A a, b \in X : a \o <<n>> \o b \in X
    OBVIOUS
  <2> HIDE DEF X
  <2> QED  BY <2>1
<1> HIDE DEF X, e
<1>5. PICK g : Visits(g, t, D, X, e, F)
  <2> HIDE DEF F
  <2> QED  BY <1>3, <1>4, TreeRecursion
<1>6. g \in [D \cup {NULL} -> X] /\ g[NULL] = e
  BY <1>5 DEF Visits
<1>7. ASSUME NEW n \in D PROVE g[n] = Body(g, n) /\ n # NULL
  <2>1. t[n].left \in D \cup {NULL} /\ t[n].right \in D \cup {NULL} /\ n # NULL
    BY <1>1 DEF Tables, NodesOver
  <2>2. g[t[n].left] \in X /\ g[t[n].right] \in X
    BY <1>6, <2>1
  <2>3. g[n] = F[n][g[t[n].left]][g[t[n].right]]
    BY <1>5 DEF Visits
  <2> QED  BY <2>1, <2>2, <2>3
<1>8. Rec(g)
  <2>1. \A n \in D \cup {NULL} : g[n] = Body(g, n)
    BY <1>6, <1>7
  <2> HIDE DEF Body
  <2> QED  BY <1>6, <2>1
<1> DEFINE s == CHOOSE f : Rec(f)
<1>9. Rec(s)
  <2> HIDE DEF Rec
  <2> QED  BY <1>8
<1>10. \A n \in D \cup {NULL} : s[n] = Body(s, n)
  <2> HIDE DEF s, Body
  <2> QED  BY <1>9
<1> HIDE DEF s
<1>11. ASSUME NEW n \in D, s[t[n].left] = g[t[n].left], s[t[n].right] = g[t[n].right]
       PROVE  s[n] = g[n]
  BY <1>7, <1>10, <1>11
<1>12. s[NULL] = g[NULL]
  BY <1>6, <1>10
<1>13. \A n \in D \cup {NULL} : s[n] = g[n]
  <2> HIDE DEF Rec, Body, F
  <2> QED  BY <1>11, <1>12, SameEverywhere
<1>14. s = g
  <2> HIDE DEF Body
  <2> QED  BY <1>6, <1>9, <1>13
<1>15. VisitRec(g, t, D)
  BY <1>6, <1>7 DEF VisitRec, X, e
<1>16. \A n : InOrder(t, n) = g[n]
  <2> HIDE DEF Rec
  <2> QED  BY <1>2, <1>14 DEF s
<1> QED  BY <1>15, <1>16

\* s is the elements of J in order.
Sorted(s, J) ==
    /\ \A x : x \in J <=> \E j \in DOMAIN s : s[j] = x
    /\ \A j, k \in DOMAIN s : j < k => s[j] < s[k]

LEMMA SortedJoin ==
    ASSUME NEW D \in SUBSET Int, NEW a \in Seq(D), NEW b \in Seq(D), NEW m \in D,
           NEW A, NEW B, Sorted(a, A), Sorted(b, B),
           \A x \in A : x < m, \A x \in B : m < x
    PROVE  /\ Sorted(a \o <<m>> \o b, A \cup {m} \cup B)
           /\ Len(a \o <<m>> \o b) = 1 + Len(a) + Len(b)
<1> DEFINE s == a \o <<m>> \o b
           p == Len(a)
           q == Len(b)
<1>1. p \in Nat /\ q \in Nat /\ DOMAIN a = 1..p /\ DOMAIN b = 1..q /\ DOMAIN s = 1..(p + 1 + q)
      /\ Len(s) = p + 1 + q
  OBVIOUS
<1>2. \A j \in 1..p : s[j] = a[j]
  OBVIOUS
<1>3. s[p + 1] = m
  OBVIOUS
<1>4. \A j \in 1..q : s[p + 1 + j] = b[j]
  OBVIOUS
<1>7. (\A j \in 1..p : a[j] \in D) /\ (\A j \in 1..q : b[j] \in D)
  OBVIOUS
<1> HIDE DEF s, p, q
<1>5. \A j \in 1..(p + 1 + q) : j \in 1..p \/ j = p + 1 \/ (j - (p + 1) \in 1..q
                                                            /\ j = p + 1 + (j - (p + 1)))
  BY <1>1
<1>6. (\A j \in 1..p : a[j] \in A) /\ (\A j \in 1..q : b[j] \in B)
  BY <1>1 DEF Sorted
<1>8. ASSUME NEW x PROVE x \in A \cup {m} \cup B <=> \E j \in DOMAIN s : s[j] = x
  <2>1. ASSUME x \in A PROVE \E j \in DOMAIN s : s[j] = x
    <3>1. PICK j \in 1..p : a[j] = x
      BY <1>1, <2>1 DEF Sorted
    <3>2. j \in DOMAIN s /\ s[j] = x
      BY <1>1, <1>2, <3>1
    <3> QED  BY <3>2
  <2>2. ASSUME x \in B PROVE \E j \in DOMAIN s : s[j] = x
    <3>1. PICK j \in 1..q : b[j] = x
      BY <1>1, <2>2 DEF Sorted
    <3>2. p + 1 + j \in DOMAIN s /\ s[p + 1 + j] = x
      BY <1>1, <1>4, <3>1
    <3> QED  BY <3>2
  <2>3. p + 1 \in DOMAIN s
    BY <1>1
  <2>4. ASSUME NEW j \in DOMAIN s PROVE s[j] \in A \cup {m} \cup B
    <3>1. CASE j \in 1..p
      BY <1>2, <1>6, <3>1
    <3>2. CASE j = p + 1
      BY <1>3, <3>2
    <3>3. CASE j - (p + 1) \in 1..q
      BY <1>1, <1>4, <1>5, <1>6, <3>3
    <3> QED  BY <1>1, <1>5, <3>1, <3>2, <3>3
  <2> QED  BY <1>3, <2>1, <2>2, <2>3, <2>4
<1>9. ASSUME NEW j \in DOMAIN s, NEW k \in DOMAIN s, j < k
      PROVE  s[j] < s[k]
  <2> DEFINE jj == j - (p + 1)
             kk == k - (p + 1)
  <2>1. j \in Int /\ k \in Int
    BY <1>1
  <2>2. CASE j \in 1..p /\ k \in 1..p
    BY <1>1, <1>2, <1>9, <2>2 DEF Sorted
  <2>3. CASE j \in 1..p /\ k = p + 1
    BY <1>2, <1>3, <1>6, <2>3
  <2>4. CASE j \in 1..p /\ kk \in 1..q
    <3>1. s[j] = a[j] /\ s[k] = b[kk] /\ a[j] \in A /\ b[kk] \in B
      <4>1. k = p + 1 + kk
        BY <1>1, <2>1
      <4> QED  BY <1>2, <1>4, <1>6, <2>4, <4>1
    <3>2. a[j] < m /\ m < b[kk]
      BY <3>1
    <3>3. a[j] \in Int /\ b[kk] \in Int
      BY <1>7, <2>4
    <3> QED  BY <1>7, <3>1, <3>2, <3>3
  <2>5. CASE j = p + 1 /\ kk \in 1..q
    <3>1. k = p + 1 + kk
      BY <1>1, <2>1
    <3> QED  BY <1>3, <1>4, <1>6, <2>5, <3>1
  <2>6. CASE jj \in 1..q /\ kk \in 1..q
    <3>p. p \in Int /\ j \in Int /\ k \in Int /\ j < k
      BY <1>1, <1>9, <2>1
    <3>1. k = p + 1 + kk /\ j = p + 1 + jj /\ jj < kk
      BY <3>p
    <3>2. s[j] = b[jj] /\ s[k] = b[kk] /\ b[jj] < b[kk]
      <4> HIDE DEF jj, kk
      <4>1. s[j] = b[jj] /\ s[k] = b[kk]
        BY <1>4, <2>6, <3>1
      <4>2. b[jj] < b[kk]
        BY <1>1, <2>6, <3>1 DEF Sorted
      <4> QED  BY <4>1, <4>2
    <3> QED  BY <3>2
  <2>7. /\ j \in 1..p \/ j = p + 1 \/ jj \in 1..q
        /\ k \in 1..p \/ k = p + 1 \/ kk \in 1..q
    BY <1>1, <1>5
  <2>8. ~(j = p + 1 /\ k \in 1..p) /\ ~(j = p + 1 /\ k = p + 1)
        /\ ~(jj \in 1..q /\ k \in 1..p) /\ ~(jj \in 1..q /\ k = p + 1)
    BY <1>1, <1>9, <2>1
  <2> HIDE DEF jj, kk
  <2> QED  BY <2>2, <2>3, <2>4, <2>5, <2>6, <2>7, <2>8
<1>10. Sorted(s, A \cup {m} \cup B)
  BY <1>8, <1>9 DEF Sorted
<1>11. Len(s) = 1 + p + q
  BY <1>1
<1> QED  BY <1>10, <1>11 DEF s, p, q

\* The nodes of a treap, in order, are its keys, each once.
LEMMA InOrderIs ==
    ASSUME NEW D, KeySet(D), NEW t \in Tables(D), Forest(t, D),
           NEW K \in SUBSET D, NEW rt, Tree(t, rt, K)
    PROVE  /\ InOrder(t, rt) \in Seq(D) /\ Sorted(InOrder(t, rt), K)
           /\ Len(InOrder(t, rt)) = SizeOf(t, rt)
<1>1. PICK visit : VisitRec(visit, t, D) /\ \A n : InOrder(t, n) = visit[n]
  BY VisitRecursion
<1> DEFINE Fits(n, J) == Sorted(visit[n], J) /\ Len(visit[n]) = SizeOf(t, n)
           Good == {p \in (D \cup {NULL}) \X SUBSET D : Fits(p[1], p[2])}
<1>2. <<NULL, {}>> \in Good
  BY <1>1 DEF VisitRec, Sorted, SizeOf
<1>3. ASSUME NEW m \in D, NEW J \in SUBSET D, NEW A \in SUBSET D, NEW B \in SUBSET D,
             Halves(t, m, J, A, B), <<t[m].left, A>> \in Good, <<t[m].right, B>> \in Good
      PROVE  <<m, J>> \in Good
  <2>1. Fits(t[m].left, A) /\ Fits(t[m].right, B)
    BY <1>3
  <2>2. /\ J = A \cup {m} \cup B /\ (\A x \in A : x < m) /\ (\A x \in B : m < x)
        /\ t[m].size = 1 + SizeOf(t, t[m].left) + SizeOf(t, t[m].right) /\ m # NULL
    BY <1>3 DEF Halves, KeySet
  <2>3. t[m].left \in D \cup {NULL} /\ t[m].right \in D \cup {NULL} /\ D \in SUBSET Int
    BY DEF Tables, NodesOver, KeySet
  <2>4. visit[m] = visit[t[m].left] \o <<m>> \o visit[t[m].right]
        /\ visit[t[m].left] \in Seq(D) /\ visit[t[m].right] \in Seq(D)
    BY <1>1, <2>3 DEF VisitRec
  <2>5. Sorted(visit[m], J) /\ Len(visit[m]) = 1 + Len(visit[t[m].left]) + Len(visit[t[m].right])
    <3>1. PICK a \in Seq(D), b \in Seq(D) : a = visit[t[m].left] /\ b = visit[t[m].right]
      BY <2>4
    <3>2. Sorted(a, A) /\ Sorted(b, B)
      BY <2>1, <3>1
    <3>3. Sorted(a \o <<m>> \o b, J) /\ Len(a \o <<m>> \o b) = 1 + Len(a) + Len(b)
      BY <2>2, <2>3, <3>2, SortedJoin
    <3> QED  BY <2>4, <3>1, <3>3
  <2>6. SizeOf(t, m) = t[m].size
    BY <2>2 DEF SizeOf
  <2> QED  BY <2>1, <2>2, <2>5, <2>6
<1>4. <<rt, K>> \in Good
  <2> HIDE DEF Good
  <2> QED  BY <1>2, <1>3, TreeInduction
<1>5. rt \in D \cup {NULL}
  BY DEF Tree
<1> QED  BY <1>1, <1>4, <1>5 DEF VisitRec

LEMMA KeysOfIs ==
    ASSUME NEW D, KeySet(D), NEW t \in Tables(D), Forest(t, D),
           NEW K \in SUBSET D, NEW rt, Tree(t, rt, K)
    PROVE  KeysOf(t, rt) = K
<1>1. Sorted(InOrder(t, rt), K)
  BY InOrderIs
<1> QED  BY <1>1 DEF KeysOf, Range, Sorted

LEMMA TreeIsTreap ==
    ASSUME NEW D, KeySet(D), NEW t \in Tables(D), Forest(t, D),
           NEW K \in SUBSET D, NEW rt, Tree(t, rt, K)
    PROVE  IsTreap(t, rt, K)
<1>1. Sorted(InOrder(t, rt), K) /\ Len(InOrder(t, rt)) = SizeOf(t, rt)
      /\ KeysOf(t, rt) = K
  BY InOrderIs, KeysOfIs
<1>2. PICK sub : Spans(t, K, sub)
  BY DEF Tree
<1>3. ASSUME NEW n \in K, NEW child \in {t[n].left, t[n].right} \ {NULL}
      PROVE  t[child].priority <= t[n].priority
  <2>1. child \in K /\ child \in sub[child] /\ sub[child] \subseteq sub[n]
    BY <1>2, <1>3 DEF Spans
  <2> QED  BY <1>2, <1>3, <2>1 DEF Spans
<1>4. \A n \in K : t[n].size = 1 + SizeOf(t, t[n].left) + SizeOf(t, t[n].right)
  BY <1>2 DEF Spans
<1> QED  BY <1>1, <1>3, <1>4 DEF IsTreap, Sorted

-----------------------------------------------------------------------------
(* merge: a recursion over two trees. *)

LEMMA SameDescent ==
    ASSUME NEW D, NEW S, NEW l, NEW r, NEW rank, NEW N, Descends(D, S, l, r, rank, N),
           NEW f, NEW g, \A n \in D : n \in S => f[n] = g[n],
           \A n \in D : n \notin S /\ f[l[n]] = g[l[n]] /\ f[r[n]] = g[r[n]] => f[n] = g[n]
    PROVE  \A n \in D : f[n] = g[n]
<1> DEFINE T == {k \in 0..N : \E n \in D : k = rank[n] /\ f[n] # g[n]}
<1>1. /\ N \in Nat /\ l \in [D -> D] /\ r \in [D -> D] /\ rank \in [D -> 0..N]
      /\ \A n \in D : n \notin S => rank[l[n]] < rank[n] /\ rank[r[n]] < rank[n]
  BY DEF Descends
<1>2. ASSUME T # {} PROVE FALSE
  <2>1. PICK k \in T : \A x \in T : k <= x
    <3>1. T \in SUBSET Nat
      BY <1>1
    <3> HIDE DEF T
    <3> QED  BY <1>2, <3>1, LeastNatural
  <2>2. PICK n \in D : k = rank[n] /\ f[n] # g[n]
    BY <2>1
  <2>3. n \notin S
    BY <2>2
  <2>4. ASSUME NEW c \in D, rank[c] < rank[n] PROVE f[c] = g[c]
    <3>1. rank[c] \in 0..N /\ rank[n] \in Int /\ rank[c] \in Int
      BY <1>1
    <3>2. rank[c] \notin T
      <4> HIDE DEF T
      <4> QED  BY <2>1, <2>2, <2>4, <3>1
    <3> QED  BY <3>1, <3>2
  <2> HIDE DEF T
  <2> QED  BY <1>1, <2>2, <2>3, <2>4
<1> QED  BY <1>1, <1>2

MergeRec(merge, tree, C) ==
    \A p \in C \X C :
       merge[p] = IF p[1] = NULL THEN [t |-> tree, root |-> p[2]]
                  ELSE IF p[2] = NULL THEN [t |-> tree, root |-> p[1]]
                  ELSE IF tree[p[1]].priority < tree[p[2]].priority
                  THEN PutLeft(merge[<<p[1], tree[p[2]].left>>], p[2])
                  ELSE PutRight(merge[<<tree[p[1]].right, p[2]>>], p[1])

Merges(merge, tree, D) ==
    /\ merge \in [(D \cup {NULL}) \X (D \cup {NULL}) -> Roots(D)]
    /\ MergeRec(merge, tree, D \cup {NULL})
    /\ \A a, b : Merge(tree, a, b) = merge[<<a, b>>]

LEMMA MergeRecursion ==
    ASSUME NEW D, KeySet(D), NEW tree \in Tables(D), Forest(tree, D)
    PROVE  \E merge : Merges(merge, tree, D)
<1> DEFINE C == D \cup {NULL}
           P == C \X C
           X == Roots(D)
           S == {p \in P : p[1] = NULL \/ p[2] = NULL}
           base == [p \in P |-> [t |-> tree, root |-> IF p[1] = NULL THEN p[2] ELSE p[1]]]
           l == [p \in P |-> IF p \in S THEN p ELSE <<p[1], tree[p[2]].left>>]
           r == [p \in P |-> IF p \in S THEN p ELSE <<tree[p[1]].right, p[2]>>]
           F == [p \in P |-> [a \in X |-> [b \in X |->
                  IF p \in S THEN base[p]
                  ELSE IF tree[p[1]].priority < tree[p[2]].priority THEN PutLeft(a, p[2])
                  ELSE PutRight(b, p[1])]]]
           Body(f, p) == IF p[1] = NULL THEN [t |-> tree, root |-> p[2]]
                         ELSE IF p[2] = NULL THEN [t |-> tree, root |-> p[1]]
                         ELSE IF tree[p[1]].priority < tree[p[2]].priority
                         THEN PutLeft(f[<<p[1], tree[p[2]].left>>], p[2])
                         ELSE PutRight(f[<<tree[p[1]].right, p[2]>>], p[1])
           Rec(f) == f = [p \in P |-> Body(f, p)]
<1>1. D = DOMAIN tree /\ NULL \notin D /\ IsFiniteSet(D)
  BY DEF Tables, KeySet
<1>2. \A a, b : Merge(tree, a, b) = (CHOOSE f : Rec(f))[<<a, b>>]
  BY <1>1 DEF Merge, PutLeft, PutRight
<1>3. \A n \in D : tree[n].left \in C /\ tree[n].right \in C
  BY DEF Tables, NodesOver
<1>4. base \in [P -> X]
  BY DEF Roots
<1>5. \A p \in P : p = <<p[1], p[2]>> /\ p[1] \in C /\ p[2] \in C
                     /\ (p \notin S => p[1] \in D /\ p[2] \in D)
  OBVIOUS
<1>6. l \in [P -> P] /\ r \in [P -> P]
  BY <1>3, <1>5
<1>7. F \in [P -> [X -> [X -> X]]]
  <2>1. \A n \in D : \A a \in X : PutLeft(a, n) \in X /\ PutRight(a, n) \in X
    BY PutTypes
  <2>2. \A p \in P : base[p] \in X
    BY <1>4
  <2> HIDE DEF X, S, base, P
  <2> QED  BY <1>5, <2>1, <2>2
<1>8. PICK all : Nests(tree, D, all)
  BY DEF Forest
<1> DEFINE M == Cardinality(D)
           rank == [p \in P |-> Cardinality(all[p[1]]) + Cardinality(all[p[2]])]
<1>9. \A n \in C : IsFiniteSet(all[n]) /\ Cardinality(all[n]) \in Nat /\ Cardinality(all[n]) <= M
  <2> SUFFICES ASSUME NEW n \in C
               PROVE  IsFiniteSet(all[n]) /\ Cardinality(all[n]) \in Nat /\ Cardinality(all[n]) <= M
    OBVIOUS
  <2>1. all[n] \subseteq D
    BY <1>8 DEF Nests
  <2> QED  BY <1>1, <2>1, FS_Subset, FS_CardinalityType
<1>10. M \in Nat
  BY <1>1, FS_CardinalityType
<1>11. ASSUME NEW n \in D, NEW c \in {tree[n].left, tree[n].right}
       PROVE  c \in C /\ Cardinality(all[c]) < Cardinality(all[n])
  <2>1. c \in C /\ n \in all[n] /\ all[c] \subseteq all[n] /\ n \notin all[c]
    BY <1>3, <1>8, <1>11 DEF Nests
  <2>2. IsFiniteSet(all[n]) /\ Cardinality(all[n]) \in Nat /\ IsFiniteSet(all[c])
    BY <1>9, <2>1
  <2>3. all[c] \subseteq all[n] \ {n} /\ IsFiniteSet(all[n] \ {n})
        /\ Cardinality(all[n] \ {n}) = Cardinality(all[n]) - 1
    BY <2>1, <2>2, FS_RemoveElement
  <2>4. Cardinality(all[c]) <= Cardinality(all[n] \ {n}) /\ Cardinality(all[c]) \in Nat
    BY <2>2, <2>3, FS_Subset, FS_CardinalityType
  <2> QED  BY <2>1, <2>2, <2>3, <2>4
<1>12. rank \in [P -> 0..(M + M)] /\ M + M \in Nat
  <2>1. \A p \in P : Cardinality(all[p[1]]) + Cardinality(all[p[2]]) \in 0..(M + M)
    <3> SUFFICES ASSUME NEW p \in P
                 PROVE  Cardinality(all[p[1]]) + Cardinality(all[p[2]]) \in 0..(M + M)
      OBVIOUS
    <3>1. p[1] \in C /\ p[2] \in C
      BY <1>5
    <3>2. \A u, v \in Nat : u <= M /\ v <= M => u + v \in 0..(M + M)
      BY <1>10
    <3> QED  BY <1>9, <3>1, <3>2
  <2> HIDE DEF P, M
  <2> QED  BY <1>10, <2>1
<1>13. ASSUME NEW p \in P, p \notin S
       PROVE  rank[l[p]] < rank[p] /\ rank[r[p]] < rank[p]
  <2>1. p[1] \in D /\ p[2] \in D /\ p[1] \in C /\ p[2] \in C
    BY <1>5, <1>13
  <2>2. l[p] = <<p[1], tree[p[2]].left>> /\ r[p] = <<tree[p[1]].right, p[2]>>
        /\ l[p] \in P /\ r[p] \in P
    BY <1>6, <1>13
  <2>3. /\ rank[l[p]] = Cardinality(all[p[1]]) + Cardinality(all[tree[p[2]].left])
        /\ rank[r[p]] = Cardinality(all[tree[p[1]].right]) + Cardinality(all[p[2]])
        /\ rank[p] = Cardinality(all[p[1]]) + Cardinality(all[p[2]])
    BY <2>2
  <2>4. /\ Cardinality(all[tree[p[2]].left]) < Cardinality(all[p[2]])
        /\ Cardinality(all[tree[p[1]].right]) < Cardinality(all[p[1]])
        /\ tree[p[2]].left \in C /\ tree[p[1]].right \in C
    BY <1>11, <2>1
  <2>5. /\ Cardinality(all[p[1]]) \in Int /\ Cardinality(all[p[2]]) \in Int
        /\ Cardinality(all[tree[p[2]].left]) \in Int /\ Cardinality(all[tree[p[1]].right]) \in Int
    BY <1>9, <2>1, <2>4
  <2> HIDE DEF rank, l, r, C
  <2> QED  BY <2>3, <2>4, <2>5
<1>14. Descends(P, S, l, r, rank, M + M)
  <2> HIDE DEF l, r, rank, P, S, M
  <2> QED  BY <1>6, <1>12, <1>13 DEF Descends
<1>15. PICK g : Recurses(g, P, X, S, base, l, r, F)
  <2> HIDE DEF l, r, rank, P, S, M, base, F, X
  <2> QED  BY <1>4, <1>7, <1>14, Recursion
<1>16. g \in [P -> X]
  BY <1>15 DEF Recurses
<1>17. ASSUME NEW p \in P PROVE g[p] = Body(g, p)
  <2>1. g[p] = IF p \in S THEN base[p] ELSE F[p][g[l[p]]][g[r[p]]]
    BY <1>15 DEF Recurses
  <2>2. CASE p \in S
    BY <2>1, <2>2
  <2>3. CASE p \notin S
    <3>1. g[l[p]] \in X /\ g[r[p]] \in X
      <4> HIDE DEF l, r, P, X
      <4> QED  BY <1>6, <1>16
    <3>2. l[p] = <<p[1], tree[p[2]].left>> /\ r[p] = <<tree[p[1]].right, p[2]>>
      BY <2>3
    <3>3. F[p][g[l[p]]][g[r[p]]] =
            IF tree[p[1]].priority < tree[p[2]].priority THEN PutLeft(g[l[p]], p[2])
            ELSE PutRight(g[r[p]], p[1])
      <4> HIDE DEF X, base, S, l, r, P
      <4> QED  BY <2>3, <3>1
    <3>4. p[1] # NULL /\ p[2] # NULL
      BY <2>3
    <3> HIDE DEF X, base, S, l, r, P, F
    <3> QED  BY <2>1, <2>3, <3>2, <3>3, <3>4
  <2> QED  BY <2>2, <2>3
<1>18. Rec(g)
  <2> HIDE DEF Body, P, X
  <2> QED  BY <1>16, <1>17
<1> DEFINE s == CHOOSE f : Rec(f)
<1>19. Rec(s)
  <2> HIDE DEF Rec
  <2> QED  BY <1>18
<1>20. \A p \in P : s[p] = Body(s, p)
  <2> HIDE DEF s, Body, P
  <2> QED  BY <1>19
<1> HIDE DEF s
<1>21. ASSUME NEW p \in P, p \in S PROVE s[p] = g[p]
  BY <1>17, <1>20, <1>21
<1>22. ASSUME NEW p \in P, p \notin S, s[l[p]] = g[l[p]], s[r[p]] = g[r[p]]
       PROVE  s[p] = g[p]
  <2>1. l[p] = <<p[1], tree[p[2]].left>> /\ r[p] = <<tree[p[1]].right, p[2]>>
    BY <1>22
  <2> HIDE DEF l, r, S, P
  <2> QED  BY <1>17, <1>20, <1>22, <2>1
<1>23. \A p \in P : s[p] = g[p]
  <2> HIDE DEF l, r, rank, P, S, M, Rec
  <2> QED  BY <1>14, <1>21, <1>22, SameDescent
<1>24. s = g
  <2> HIDE DEF Body, P, X
  <2> QED  BY <1>16, <1>19, <1>23
<1>25. MergeRec(g, tree, C)
  <2> HIDE DEF C
  <2> QED  BY <1>17 DEF MergeRec
<1>26. \A a, b : Merge(tree, a, b) = g[<<a, b>>]
  <2> HIDE DEF Rec
  <2> QED  BY <1>2, <1>24 DEF s
<1> QED  BY <1>16, <1>25, <1>26 DEF Merges

Parted(D, t, K, n, A, B) ==
    /\ K = A \cup {n} \cup B /\ n \in D /\ n \in Int
    /\ (\A x \in A : x < n) /\ (\A x \in B : n < x)
    /\ A \in SUBSET D /\ B \in SUBSET D /\ A \cap B = {} /\ n \notin A /\ n \notin B
    /\ Tree(t, t[n].left, A) /\ Tree(t, t[n].right, B)
    /\ \A x \in K : t[x].priority <= t[n].priority

LEMMA HalvesAre ==
    ASSUME NEW D, KeySet(D), NEW t, NEW K \in SUBSET D, NEW n, NEW A, NEW B, Halves(t, n, K, A, B)
    PROVE  Parted(D, t, K, n, A, B)
<1>1. n \in K /\ K = A \cup {n} \cup B /\ (\A x \in A : x < n) /\ (\A x \in B : n < x)
  BY DEF Halves
<1>2. \A x \in K : x \in Int
  BY DEF KeySet
<1>3. n \notin A /\ n \notin B /\ A \cap B = {}
  BY <1>1, <1>2
<1> QED  BY <1>1, <1>2, <1>3 DEF Halves, Parted

\* merge: the keys of both trees, when those of a are below those of b.
LEMMA MergeIs ==
    ASSUME NEW D, KeySet(D), NEW tree \in Tables(D), Forest(tree, D)
    PROVE  \A A, B \in SUBSET D : \A a, b :
             Tree(tree, a, A) /\ Tree(tree, b, B) /\ (\A x \in A : \A y \in B : x < y)
               => Planted(Merge(tree, a, b), tree, D, A \cup B)
<1>1. PICK merge : Merges(merge, tree, D)
  BY MergeRecursion
<1> DEFINE C == D \cup {NULL}
           Apart(a, b, A, B) == /\ Tree(tree, a, A) /\ Tree(tree, b, B)
                                /\ \A x \in A : \A y \in B : x < y
           Wrong(J) == \E A, B \in SUBSET D : \E a, b :
                         J = A \cup B /\ Apart(a, b, A, B)
                         /\ ~Planted(merge[<<a, b>>], tree, D, A \cup B)
           Bad == {J \in SUBSET D : Wrong(J)}
<1>2. ASSUME Bad # {} PROVE FALSE
  <2>1. PICK J \in Bad : \A I \in Bad : I \subseteq J => I = J
    <3>1. Bad \in SUBSET (SUBSET D) /\ IsFiniteSet(D)
      BY DEF KeySet
    <3> HIDE DEF Bad
    <3> QED  BY <1>2, <3>1, MinimalSet
  <2>w. PICK A \in SUBSET D, B \in SUBSET D : \E a, b :
               J = A \cup B /\ Apart(a, b, A, B) /\ ~Planted(merge[<<a, b>>], tree, D, A \cup B)
    BY <2>1
  <2>2. PICK a, b : J = A \cup B /\ Apart(a, b, A, B)
                    /\ ~Planted(merge[<<a, b>>], tree, D, A \cup B)
    BY <2>w
  <2>3. a \in C /\ b \in C /\ NULL \notin D /\ NULL \notin A /\ NULL \notin B
        /\ <<a, b>> \in C \X C /\ D \subseteq Int
    BY <2>2 DEF Tree, KeySet
  <2>4. merge[<<a, b>>] = IF a = NULL THEN [t |-> tree, root |-> b]
                          ELSE IF b = NULL THEN [t |-> tree, root |-> a]
                          ELSE IF tree[a].priority < tree[b].priority
                          THEN PutLeft(merge[<<a, tree[b].left>>], b)
                          ELSE PutRight(merge[<<tree[a].right, b>>], a)
    BY <1>1, <2>3 DEF MergeRec, Merges
  <2>5. Planted([t |-> tree, root |-> a], tree, D, A) /\ Planted([t |-> tree, root |-> b], tree, D, B)
    BY <2>2, <2>3 DEF Planted, Roots, Relinks
  <2>6. CASE a = NULL
    <3>1. A = {}
      BY <2>2, <2>3, <2>6, TreeNull
    <3> QED  BY <2>2, <2>4, <2>5, <2>6, <3>1
  <2>7. CASE a # NULL /\ b = NULL
    <3>1. B = {}
      BY <2>2, <2>3, <2>7, TreeNull
    <3> QED  BY <2>2, <2>4, <2>5, <2>7, <3>1
  <2>8. CASE a # NULL /\ b # NULL
    <3>1. PICK A1, A2 : Halves(tree, a, A, A1, A2)
      BY <2>2, <2>8, Decompose
    <3>2. PICK B1, B2 : Halves(tree, b, B, B1, B2)
      BY <2>2, <2>8, Decompose
    <3>3. /\ A = A1 \cup {a} \cup A2 /\ a \in D /\ a \in Int
          /\ (\A x \in A1 : x < a) /\ (\A x \in A2 : a < x)
          /\ A1 \in SUBSET D /\ A2 \in SUBSET D /\ A1 \cap A2 = {} /\ a \notin A1 /\ a \notin A2
          /\ Tree(tree, tree[a].right, A2) /\ \A x \in A : tree[x].priority <= tree[a].priority
      BY <3>1, HalvesAre DEF Parted
    <3>4. /\ B = B1 \cup {b} \cup B2 /\ b \in D /\ b \in Int
          /\ (\A x \in B1 : x < b) /\ (\A x \in B2 : b < x)
          /\ B1 \in SUBSET D /\ B2 \in SUBSET D /\ B1 \cap B2 = {} /\ b \notin B1 /\ b \notin B2
          /\ Tree(tree, tree[b].left, B1) /\ \A x \in B : tree[x].priority <= tree[b].priority
      BY <3>2, HalvesAre DEF Parted
    <3>5. (\A x \in A : \A y \in B : x < y) /\ A \cap B = {}
      <4>1. \A x \in A : \A y \in B : x < y
        BY <2>2
      <4>2. \A x \in A : x \in Int /\ ~(x < x)
        BY <2>3
      <4> QED  BY <4>1, <4>2
    <3>6. \A x \in D : tree[x].priority \in Int
      BY DEF Tables, NodesOver
    <3>7. CASE tree[a].priority < tree[b].priority
      <4> DEFINE L == A \cup B1
                 m == merge[<<a, tree[b].left>>]
      <4>1. L \subseteq J /\ L \in SUBSET D /\ L # J
        BY <2>2, <3>4, <3>5
      <4>2. Apart(a, tree[b].left, A, B1)
        BY <2>2, <3>4, <3>5
      <4>3. L \notin Bad
        <5> HIDE DEF Bad, L
        <5> QED  BY <2>1, <4>1
      <4>4. Planted(m, tree, D, L)
        <5> HIDE DEF Apart
        <5> QED  BY <3>4, <4>1, <4>2, <4>3
      <4>5. \A x \in L : x < b /\ tree[x].priority <= tree[b].priority
        <5> SUFFICES ASSUME NEW x \in L PROVE x < b /\ tree[x].priority <= tree[b].priority
          OBVIOUS
        <5>1. CASE x \in B1
          BY <3>4, <5>1
        <5>2. CASE x \in A
          <6>1. x \in D /\ b \in B /\ tree[x].priority <= tree[a].priority
            BY <3>3, <3>4, <5>2
          <6>2. tree[x].priority \in Int /\ tree[a].priority \in Int /\ tree[b].priority \in Int
            BY <3>3, <3>4, <3>6, <6>1
          <6>3. x < b
            BY <3>5, <5>2, <6>1
          <6> QED  BY <3>7, <6>1, <6>2, <6>3
        <5> QED  BY <5>1, <5>2
      <4>6. L \cap B2 = {}
        BY <3>4, <3>5
      <4> HIDE DEF m, L
      <4>7. Planted(PutLeft(m, b), tree, D, L \cup {b} \cup B2)
        BY <3>2, <3>4, <4>1, <4>4, <4>5, <4>6, PutLeftGood
      <4>8. L \cup {b} \cup B2 = A \cup B
        BY <3>4 DEF L
      <4> QED  BY <2>2, <2>4, <2>8, <3>7, <4>7, <4>8 DEF m
    <3>8. CASE ~(tree[a].priority < tree[b].priority)
      <4> DEFINE L == A2 \cup B
                 m == merge[<<tree[a].right, b>>]
      <4>1. L \subseteq J /\ L \in SUBSET D /\ L # J
        BY <2>2, <3>3, <3>5
      <4>2. Apart(tree[a].right, b, A2, B)
        BY <2>2, <3>3, <3>5
      <4>3. L \notin Bad
        <5> HIDE DEF Bad, L
        <5> QED  BY <2>1, <4>1
      <4>4. Planted(m, tree, D, L)
        <5> HIDE DEF Apart
        <5> QED  BY <3>3, <4>1, <4>2, <4>3
      <4>5. \A x \in L : a < x /\ tree[x].priority <= tree[a].priority
        <5> SUFFICES ASSUME NEW x \in L PROVE a < x /\ tree[x].priority <= tree[a].priority
          OBVIOUS
        <5>1. CASE x \in A2
          BY <3>3, <5>1
        <5>2. CASE x \in B
          <6>1. x \in D /\ a \in A /\ tree[x].priority <= tree[b].priority
            BY <3>3, <3>4, <5>2
          <6>2. tree[x].priority \in Int /\ tree[a].priority \in Int /\ tree[b].priority \in Int
            BY <3>3, <3>4, <3>6, <6>1
          <6> QED  BY <3>5, <3>8, <5>2, <6>1, <6>2
        <5> QED  BY <5>1, <5>2
      <4>6. L \cap A1 = {}
        BY <3>3, <3>5
      <4> HIDE DEF m, L
      <4>7. Planted(PutRight(m, a), tree, D, A1 \cup {a} \cup L)
        BY <3>1, <3>3, <4>1, <4>4, <4>5, <4>6, PutRightGood
      <4>8. A1 \cup {a} \cup L = A \cup B
        BY <3>3 DEF L
      <4> QED  BY <2>2, <2>4, <2>8, <3>8, <4>7, <4>8 DEF m
    <3> QED  BY <3>7, <3>8
  <2> QED  BY <2>6, <2>7, <2>8
<1>3. ASSUME NEW A \in SUBSET D, NEW B \in SUBSET D, NEW a, NEW b, Apart(a, b, A, B)
      PROVE  Planted(Merge(tree, a, b), tree, D, A \cup B)
  <2>1. A \cup B \in SUBSET D /\ A \cup B \notin Bad
    BY <1>2
  <2>2. Planted(merge[<<a, b>>], tree, D, A \cup B)
    <3> HIDE DEF Apart
    <3> QED  BY <1>3, <2>1
  <2> QED  BY <1>1, <2>2 DEF Merges
<1> QED  BY <1>3

EraseRec(erase, tree, D, key) ==
    /\ erase \in [D \cup {NULL} -> Roots(D)]
    /\ erase[NULL] = [t |-> tree, root |-> NULL]
    /\ \A n \in D : erase[n] = IF n = key THEN Merge(tree, tree[n].left, tree[n].right)
                               ELSE IF n > key THEN PutLeft(erase[tree[n].left], n)
                               ELSE PutRight(erase[tree[n].right], n)

LEMMA EraseRecursion ==
    ASSUME NEW D, KeySet(D), NEW tree \in Tables(D), Forest(tree, D), NEW key
    PROVE  \E erase : /\ EraseRec(erase, tree, D, key)
                      /\ \A n : Erase(tree, n, key) = erase[n]
<1> DEFINE X == Roots(D)
           e == [t |-> tree, root |-> NULL]
           Body(f, n) == IF n = NULL THEN e
                         ELSE IF n = key THEN Merge(tree, tree[n].left, tree[n].right)
                         ELSE IF n > key THEN PutLeft(f[tree[n].left], n)
                         ELSE PutRight(f[tree[n].right], n)
           Rec(f) == f = [n \in D \cup {NULL} |-> Body(f, n)]
           F == [n \in D |-> [a \in X |-> [b \in X |->
                  IF n = key THEN Merge(tree, tree[n].left, tree[n].right)
                  ELSE IF n > key THEN PutLeft(a, n) ELSE PutRight(b, n)]]]
<1>1. D = DOMAIN tree /\ NULL \notin D
  BY DEF Tables, KeySet
<1>2. \A n : Erase(tree, n, key) = (CHOOSE f : Rec(f))[n]
  BY <1>1 DEF Erase, PutLeft, PutRight
<1>3. e \in X
  BY DEF Roots
<1>4. F \in [D -> [X -> [X -> X]]]
  <2>1. \A n \in D : Merge(tree, tree[n].left, tree[n].right) \in X
    <3>1. PICK merge : Merges(merge, tree, D)
      BY MergeRecursion
    <3>2. \A a, b \in D \cup {NULL} : Merge(tree, a, b) \in X
      BY <3>1 DEF Merges
    <3> QED  BY <3>2 DEF Tables, NodesOver
  <2>2. \A n \in D : \A a \in X : PutLeft(a, n) \in X /\ PutRight(a, n) \in X
    BY PutTypes
  <2> HIDE DEF X
  <2> QED  BY <2>1, <2>2
<1> HIDE DEF X
<1>5. PICK g : Visits(g, tree, D, X, e, F)
  <2> HIDE DEF F, e
  <2> QED  BY <1>3, <1>4, TreeRecursion
<1>6. g \in [D \cup {NULL} -> X] /\ g[NULL] = e
  BY <1>5 DEF Visits
<1>7. ASSUME NEW n \in D PROVE g[n] = Body(g, n) /\ n # NULL
  <2>1. tree[n].left \in D \cup {NULL} /\ tree[n].right \in D \cup {NULL} /\ n # NULL
    BY <1>1 DEF Tables, NodesOver
  <2>2. g[tree[n].left] \in X /\ g[tree[n].right] \in X
    BY <1>6, <2>1
  <2>3. g[n] = F[n][g[tree[n].left]][g[tree[n].right]]
    BY <1>5 DEF Visits
  <2> QED  BY <2>1, <2>2, <2>3
<1>8. Rec(g)
  <2>1. \A n \in D \cup {NULL} : g[n] = Body(g, n)
    BY <1>6, <1>7
  <2> HIDE DEF Body
  <2> QED  BY <1>6, <2>1
<1> DEFINE s == CHOOSE f : Rec(f)
<1>9. Rec(s)
  <2> HIDE DEF Rec
  <2> QED  BY <1>8
<1>10. \A n \in D \cup {NULL} : s[n] = Body(s, n)
  <2> HIDE DEF s, Body
  <2> QED  BY <1>9
<1> HIDE DEF s
<1>11. ASSUME NEW n \in D, s[tree[n].left] = g[tree[n].left], s[tree[n].right] = g[tree[n].right]
       PROVE  s[n] = g[n]
  BY <1>7, <1>10, <1>11
<1>12. s[NULL] = g[NULL]
  BY <1>6, <1>10
<1>13. \A n \in D \cup {NULL} : s[n] = g[n]
  <2> HIDE DEF Rec, Body, e, F
  <2> QED  BY <1>11, <1>12, SameEverywhere
<1>14. s = g
  <2> HIDE DEF Body
  <2> QED  BY <1>6, <1>9, <1>13
<1>15. EraseRec(g, tree, D, key)
  BY <1>6, <1>7 DEF EraseRec, X
<1>16. \A n : Erase(tree, n, key) = g[n]
  <2> HIDE DEF Rec
  <2> QED  BY <1>2, <1>14 DEF s
<1> QED  BY <1>15, <1>16

\* erase: a treap of the keys without key.
LEMMA EraseIs ==
    ASSUME NEW D, KeySet(D), NEW tree \in Tables(D), Forest(tree, D), NEW key \in Int,
           NEW K \in SUBSET D, NEW rt, Tree(tree, rt, K)
    PROVE  Planted(Erase(tree, rt, key), tree, D, K \ {key})
<1>1. PICK erase : EraseRec(erase, tree, D, key) /\ \A n : Erase(tree, n, key) = erase[n]
  BY EraseRecursion
<1> DEFINE Good == {p \in (D \cup {NULL}) \X SUBSET D : Planted(erase[p[1]], tree, D, p[2] \ {key})}
<1>2. <<NULL, {}>> \in Good
  <2>1. erase[NULL] = [t |-> tree, root |-> NULL]
    BY <1>1 DEF EraseRec
  <2>2. Tree(tree, NULL, {})
    <3>1. NULL \notin {}
      OBVIOUS
    <3> QED  BY <3>1, TreeNull
  <2>3. {} \ {key} = {}
    OBVIOUS
  <2>4. Planted(erase[NULL], tree, D, {} \ {key})
    BY <2>1, <2>2, <2>3 DEF Planted, Roots, Relinks
  <2> QED  BY <2>4
<1>3. ASSUME NEW m \in D, NEW J \in SUBSET D, NEW A \in SUBSET D, NEW B \in SUBSET D,
             Halves(tree, m, J, A, B), <<tree[m].left, A>> \in Good, <<tree[m].right, B>> \in Good
      PROVE  <<m, J>> \in Good
  <2>1. /\ J = A \cup {m} \cup B /\ m \in Int /\ (\A x \in A : x < m) /\ (\A x \in B : m < x)
        /\ A \cap B = {} /\ m \notin A /\ m \notin B
        /\ Tree(tree, tree[m].left, A) /\ Tree(tree, tree[m].right, B)
        /\ \A x \in J : tree[x].priority <= tree[m].priority
    <3>1. Parted(D, tree, J, m, A, B)
      BY <1>3, HalvesAre
    <3> QED  BY <3>1 DEF Parted
  <2>2. Planted(erase[tree[m].left], tree, D, A \ {key}) /\ Planted(erase[tree[m].right], tree, D, B \ {key})
    BY <1>3
  <2>3. erase[m] = IF m = key THEN Merge(tree, tree[m].left, tree[m].right)
                   ELSE IF m > key THEN PutLeft(erase[tree[m].left], m)
                   ELSE PutRight(erase[tree[m].right], m)
    BY <1>1 DEF EraseRec
  <2>4. \A x \in J : x \in Int
    BY DEF KeySet
  <2> HIDE DEF Good
  <2>5. Planted(erase[m], tree, D, J \ {key})
    <3>1. CASE m = key
      <4>1. \A x \in A : \A y \in B : x < y
        <5> SUFFICES ASSUME NEW x \in A, NEW y \in B PROVE x < y
          OBVIOUS
        <5>1. x < m /\ m < y /\ x \in Int /\ y \in Int
          BY <2>1, <2>4
        <5> QED  BY <2>1, <5>1
      <4>2. Planted(Merge(tree, tree[m].left, tree[m].right), tree, D, A \cup B)
        BY <2>1, <4>1, MergeIs
      <4>3. A \cup B = J \ {key}
        BY <2>1, <3>1
      <4> QED  BY <2>3, <3>1, <4>2, <4>3
    <3>2. CASE m > key
      <4>1. \A x \in A \ {key} : x < m /\ tree[x].priority <= tree[m].priority
        BY <2>1
      <4>2. (A \ {key}) \cap B = {} /\ A \ {key} \in SUBSET D
        BY <2>1
      <4>3. Planted(PutLeft(erase[tree[m].left], m), tree, D, (A \ {key}) \cup {m} \cup B)
        BY <1>3, <2>1, <2>2, <4>1, <4>2, PutLeftGood
      <4>4. (A \ {key}) \cup {m} \cup B = J \ {key} /\ m # key
        <5>1. m # key
          BY <2>1, <3>2
        <5>2. key \notin B
          BY <2>1, <3>2
        <5> QED  BY <2>1, <5>1, <5>2
      <4> QED  BY <2>3, <3>2, <4>3, <4>4
    <3>3. CASE m < key
      <4>1. \A x \in B \ {key} : m < x /\ tree[x].priority <= tree[m].priority
        BY <2>1
      <4>2. (B \ {key}) \cap A = {} /\ B \ {key} \in SUBSET D
        BY <2>1
      <4>3. Planted(PutRight(erase[tree[m].right], m), tree, D, A \cup {m} \cup (B \ {key}))
        BY <1>3, <2>1, <2>2, <4>1, <4>2, PutRightGood
      <4>4. A \cup {m} \cup (B \ {key}) = J \ {key} /\ m # key /\ ~(m > key)
        <5>1. m # key /\ ~(m > key)
          BY <2>1, <3>3
        <5>2. key \notin A
          BY <2>1, <3>3
        <5> QED  BY <2>1, <5>1, <5>2
      <4> QED  BY <2>3, <4>3, <4>4
    <3> QED  BY <2>1, <3>1, <3>2, <3>3
  <2> QED  BY <2>5 DEF Good
<1>4. <<rt, K>> \in Good
  <2> HIDE DEF Good
  <2> QED  BY <1>2, <1>3, TreeInduction
<1> QED  BY <1>1, <1>4

\* A whole table that is a tree, and what erase makes of it.
LEMMA ErasedTreap ==
    ASSUME NEW D, KeySet(D), NEW tree \in Tables(D), NEW rt, Tree(tree, rt, D), NEW key \in Int,
           NEW e, e = Erase(tree, rt, key)
    PROVE  IsTreap(e.t, e.root, D \ {key})
<1>1. Forest(tree, D)
  BY TreeForest
<1>2. Planted(e, tree, D, D \ {key})
  BY <1>1, EraseIs
<1>3. e.t \in Tables(D) /\ Relinks(e.t, tree, D, D \ {key}) /\ Tree(e.t, e.root, D \ {key})
  BY <1>2 DEF Planted, Roots
<1>4. ASSUME NEW k \in D \ (D \ {key})
      PROVE  D = (D \ {key}) \cup {k} /\ e.t[k].left # k /\ e.t[k].right # k
  <2>1. k = key /\ k \in D /\ e.t[k] = tree[k] /\ k # NULL
    BY <1>3, <1>4 DEF Relinks, KeySet
  <2>2. PICK sub : Spans(tree, D, sub)
    BY DEF Tree
  <2>3. k \in sub[k] /\ (\A x \in sub[tree[k].left] : x < k) /\ (\A x \in sub[tree[k].right] : k < x)
    BY <2>1, <2>2 DEF Spans
  <2>4. ~(k < k)
    BY <2>1
  <2> QED  BY <2>1, <2>3, <2>4
<1>5. Forest(e.t, D)
  BY <1>3, <1>4, TreeForest
<1> QED  BY <1>3, <1>5, TreeIsTreap

-----------------------------------------------------------------------------
(* The parts of the inductive invariant. *)

IsSeq(s) == s \in Seq({s[n] : n \in DOMAIN s})

\* The part of TypeOK that is not the treap's, and the types of the loop's locals.
PoolTypes ==
    /\ clientfd \in [Slots -> Fds \cup {-1}] /\ maxi \in Slots \cup {-1}
    /\ read_set \subseteq Fds \cup {listenfd} /\ maxfd \in Fds \cup {listenfd}
    /\ ready_set \subseteq Fds \cup {listenfd} /\ nready \in 0..(FD_SETSIZE + 1)
    /\ pc \in {"load", "select", "accept", "check", "read", "res"}
    /\ conn \in [Fds -> Conns \cup {NoConn}]
    /\ exited \in {"no", "sigint", "error"}
    /\ client \in [Conns -> {"off", "idle", "sending", "waiting", "closed", "killed"}]
    /\ i \in 0..FD_SETSIZE

StreamTypes == /\ inbox = [c \in Conns |-> inbox[c]] /\ \A c \in Conns : IsSeq(inbox[c])
               /\ IsSeq(line) /\ IsSeq(rio)

\* A connection is not begun, in the backlog or under one descriptor.
Placed ==
    /\ backlog \subseteq Conns
    /\ \A c \in Conns : client[c] = "off" => c \notin backlog
    /\ \A f \in Fds : conn[f] # NoConn => conn[f] \notin backlog /\ client[conn[f]] # "off"
    /\ pc = "load" => backlog = {} /\ \A f \in Fds : conn[f] = NoConn

\* The slots from j on whose client select found ready.
Rest(j) == {s \in j..maxi : clientfd[s] > 0 /\ clientfd[s] \in ready_set}

Serves == pc \in {"read", "res"}

\* How many descriptors nready counts.
Counted ==
    /\ pc = "accept" => nready = Cardinality(ready_set) /\ i = 0
    /\ pc = "check" => nready = Cardinality(Rest(i))
    /\ Serves => nready = Cardinality(Rest(i + 1)) /\ i \in Slots /\ clientfd[i] # -1

\* What select found ready stays so until it is served.
StayReady ==
    /\ pc = "accept" => /\ listenfd \in ready_set /\ ready_set \subseteq read_set
                        /\ \A f \in ready_set : Readable(f)
    /\ pc = "check" => \A s \in Rest(i) : Readable(clientfd[s])
    /\ Serves => \A s \in Rest(i + 1) : Readable(clientfd[s])
    /\ pc = "read" => line # <<>> \/ rio # <<>> \/ Readable(clientfd[i])

PoolInv == PoolTypes /\ StreamTypes /\ Placed /\ PoolConsistent /\ Counted /\ StayReady

-----------------------------------------------------------------------------
(* Sequences of pieces. *)

LEMMA SequenceIs ==
    ASSUME NEW S, NEW s \in Seq(S)
    PROVE  IsSeq(s)
<1> DEFINE R == {s[n] : n \in DOMAIN s}
<1>1. DOMAIN s = 1..Len(s) /\ Len(s) \in Nat /\ s = [n \in 1..Len(s) |-> s[n]]
  OBVIOUS
<1>2. s \in [1..Len(s) -> R]
  BY <1>1
<1>3. s \in Seq(R)
  BY <1>1, <1>2
<1> QED  BY <1>3 DEF IsSeq

LEMMA AppendIs ==
    ASSUME NEW s, IsSeq(s), NEW e
    PROVE  IsSeq(Append(s, e)) /\ Append(s, e) # <<>>
<1> DEFINE R == {s[n] : n \in DOMAIN s} \cup {e}
<1>1. s \in Seq(R)
  <2>1. s \in Seq({s[n] : n \in DOMAIN s})
    BY DEF IsSeq
  <2>2. DOMAIN s = 1..Len(s) /\ Len(s) \in Nat /\ s = [n \in 1..Len(s) |-> s[n]]
    BY <2>1
  <2>3. s \in [1..Len(s) -> R]
    BY <2>2
  <2> QED  BY <2>2, <2>3
<1>2. Append(s, e) \in Seq(R) /\ Len(Append(s, e)) = Len(s) + 1 /\ Len(s) \in Nat
  BY <1>1
<1>3. IsSeq(Append(s, e))
  BY ONLY <1>2, SequenceIs
<1>4. Append(s, e) # <<>>
  BY ONLY <1>2
<1> QED  BY <1>3, <1>4

\* What rio_readlineb takes of a buffer that is not empty is not empty.
LEMMA Taken ==
    ASSUME NEW s, IsSeq(s), NEW l, IsSeq(l), s # <<>>, NEW n \in 1..Len(s)
    PROVE  /\ IsSeq(l \o SubSeq(s, 1, n)) /\ l \o SubSeq(s, 1, n) # <<>>
           /\ IsSeq(SubSeq(s, n + 1, Len(s)))
<1> DEFINE S == {s[m] : m \in DOMAIN s}
           L == {l[m] : m \in DOMAIN l}
<1>1. s \in Seq(S) /\ l \in Seq(L)
  BY DEF IsSeq
<1>2. SubSeq(s, 1, n) \in Seq(S) /\ Len(SubSeq(s, 1, n)) = n
      /\ SubSeq(s, n + 1, Len(s)) \in Seq(S)
  BY <1>1
<1>3. l \in Seq(S \cup L) /\ SubSeq(s, 1, n) \in Seq(S \cup L)
  BY <1>1, <1>2
<1>4. /\ l \o SubSeq(s, 1, n) \in Seq(S \cup L)
      /\ Len(l \o SubSeq(s, 1, n)) = Len(l) + n /\ Len(l) \in Nat /\ n > 0
  BY <1>2, <1>3
<1>5. l \o SubSeq(s, 1, n) # <<>>
  BY <1>4
<1> QED  BY <1>2, <1>4, <1>5, SequenceIs

LEMMA EmptyIs == IsSeq(<<>>)
<1>1. <<>> \in Seq({})
  OBVIOUS
<1> QED  BY <1>1, SequenceIs

-----------------------------------------------------------------------------
(* The pool. *)

Open == {f \in Fds : conn[f] # NoConn}

LEMMA Sizes ==
    /\ IsFiniteSet(Slots) /\ Cardinality(Slots) = FD_SETSIZE
    /\ IsFiniteSet(Fds) /\ Cardinality(Fds) = FD_SETSIZE + 1
    /\ Slots \subseteq Int /\ -1 \notin Fds /\ listenfd \notin Fds /\ Fds \in SUBSET Int
    /\ listenfd \in Int /\ listenfd > 0 /\ \A f \in Fds : f > listenfd
<1>1. FD_SETSIZE \in Nat \ {0}
  BY EventServerAssumption
<1>2. IsFiniteSet(Slots) /\ Cardinality(Slots) = FD_SETSIZE
  BY <1>1, FS_Interval DEF Slots
<1>3. IsFiniteSet(Fds) /\ Cardinality(Fds) = FD_SETSIZE + 1
  BY <1>1, FS_Interval DEF Fds, listenfd
<1> QED  BY <1>1, <1>2, <1>3 DEF Slots, Fds, listenfd

\* The open descriptors are no more than the slots.
LEMMA OpenFew ==
    ASSUME PoolTypes, PoolConsistent, pc # "load"
    PROVE  IsFiniteSet(Open) /\ Cardinality(Open) \in 0..FD_SETSIZE
<1> DEFINE U == {s \in Slots : clientfd[s] # -1}
           f == [s \in U |-> clientfd[s]]
<1>1. IsFiniteSet(U) /\ Cardinality(U) <= FD_SETSIZE /\ Cardinality(U) \in Nat
  <2>1. U \in SUBSET Slots
    OBVIOUS
  <2>2. IsFiniteSet(U) /\ Cardinality(U) <= FD_SETSIZE
    BY <2>1, Sizes, FS_Subset
  <2> QED  BY <2>2, FS_CardinalityType
<1>2. f \in Surjection(U, Open)
  <2>1. {clientfd[s] : s \in Slots} \ {-1} = Open
    BY DEF PoolConsistent, Open
  <2>2. f \in [U -> Open]
    BY <2>1
  <2>3. \A x \in Open : \E s \in U : f[s] = x
    BY <2>1
  <2> QED  BY <2>2, <2>3 DEF Surjection
<1>3. IsFiniteSet(Open) /\ Cardinality(Open) <= Cardinality(U)
  BY <1>1, <1>2, FS_Surjection
<1>4. Cardinality(Open) \in Nat
  BY <1>3, FS_CardinalityType
<1>5. FD_SETSIZE \in Nat
  BY EventServerAssumption
<1> QED  BY <1>1, <1>3, <1>4, <1>5

\* There is a descriptor for every connection that can be accepted.
LEMMA FreeFdIs ==
    ASSUME PoolTypes, PoolConsistent, pc # "load"
    PROVE  FreeFd \in Fds /\ conn[FreeFd] = NoConn
<1> DEFINE F == {f \in Fds : conn[f] = NoConn}
<1>1. F # {}
  <2> SUFFICES ASSUME F = {} PROVE FALSE
    OBVIOUS
  <2>1. Open = Fds
    BY DEF Open
  <2> QED  BY <2>1, OpenFew, Sizes, EventServerAssumption
<1>2. F \in SUBSET Fds
  OBVIOUS
<1>3. IsFiniteSet(F) /\ F \in SUBSET Int
  BY <1>2, Sizes, FS_Subset
<1>4. PICK m \in F : \A x \in F : m <= x
  BY <1>1, <1>3, LeastInteger
<1>5. m \in Fds /\ conn[m] = NoConn /\ \A g \in Fds : g < m => conn[g] # NoConn
  <2>1. ASSUME NEW g \in Fds, g < m, conn[g] = NoConn PROVE FALSE
    <3>1. g \in F
      BY <2>1
    <3>2. m <= g /\ m \in Int /\ g \in Int
      BY <1>3, <1>4, <3>1
    <3> QED  BY <2>1, <3>2
  <2> QED  BY <2>1
<1> QED  BY <1>5 DEF FreeFd

\* add_client puts the descriptor in a free slot.
LEMMA AddClientAdds ==
    ASSUME PoolTypes, \E s \in Slots : clientfd[s] < 0, NEW fd \in Fds, AddClient(fd)
    PROVE  \E s \in Slots :
             /\ clientfd[s] = -1 /\ clientfd' = [clientfd EXCEPT ![s] = fd]
             /\ read_set' = read_set \cup {fd}
             /\ maxfd' = IF fd > maxfd THEN fd ELSE maxfd
             /\ maxi' = IF s > maxi THEN s ELSE maxi
<1> DEFINE F == {s \in Slots : clientfd[s] < 0}
           Free(s) == clientfd[s] < 0 /\ \A t \in Slots : t < s => clientfd[t] >= 0
           m == CHOOSE s \in Slots : Free(s)
<1>1. \A s \in Slots : clientfd[s] \in Int /\ (clientfd[s] < 0 <=> clientfd[s] = -1)
  <2> SUFFICES ASSUME NEW s \in Slots
               PROVE  clientfd[s] \in Int /\ (clientfd[s] < 0 <=> clientfd[s] = -1)
    OBVIOUS
  <2>1. clientfd[s] \in Fds \/ clientfd[s] = -1
    BY DEF PoolTypes
  <2>2. clientfd[s] \in Fds => clientfd[s] \in Int /\ clientfd[s] > listenfd
    BY Sizes
  <2> QED  BY <2>1, <2>2, Sizes
<1>2. IsFiniteSet(F) /\ F \in SUBSET Int /\ F # {}
  <2>1. F \in SUBSET Slots
    OBVIOUS
  <2> QED  BY <2>1, Sizes, FS_Subset
<1>3. PICK k \in F : \A x \in F : k <= x
  BY <1>2, LeastInteger
<1>4. k \in Slots /\ Free(k)
  <2>1. ASSUME NEW t \in Slots, t < k, ~(clientfd[t] >= 0) PROVE FALSE
    <3>1. t \in F
      BY <1>1, <2>1
    <3>2. k <= t /\ k \in Int /\ t \in Int
      BY <1>2, <1>3, <3>1
    <3> QED  BY <2>1, <3>2
  <2> QED  BY <2>1
<1>5. m \in Slots /\ clientfd[m] < 0
  BY <1>4
<1>6. /\ clientfd' = [clientfd EXCEPT ![m] = fd] /\ read_set' = read_set \cup {fd}
      /\ maxfd' = IF fd > maxfd THEN fd ELSE maxfd
      /\ maxi' = IF m > maxi THEN m ELSE maxi
  BY DEF AddClient
<1> QED  BY <1>1, <1>5, <1>6

LEMMA RestTyped ==
    ASSUME PoolTypes, NEW j \in Nat
    PROVE  /\ Rest(j) \in SUBSET Slots /\ IsFiniteSet(Rest(j))
           /\ Cardinality(Rest(j)) \in 0..FD_SETSIZE
           /\ \A s \in Rest(j) : s >= j /\ clientfd[s] \in Fds
<1>1. Rest(j) \in SUBSET Slots
  BY Sizes, EventServerAssumption DEF Rest, PoolTypes, Slots
<1>2. IsFiniteSet(Rest(j)) /\ Cardinality(Rest(j)) <= FD_SETSIZE
  BY <1>1, Sizes, FS_Subset
<1>3. Cardinality(Rest(j)) \in Nat /\ FD_SETSIZE \in Nat
  BY <1>2, FS_CardinalityType, EventServerAssumption
<1>4. \A s \in Rest(j) : s >= j /\ clientfd[s] \in Fds
  BY <1>1 DEF Rest, PoolTypes
<1> QED  BY <1>1, <1>2, <1>3, <1>4

\* The loop finds every client that select found ready: one slot each.
LEMMA ReadyAreServed ==
    ASSUME PoolTypes, PoolConsistent, pc # "load", ready_set \subseteq read_set
    PROVE  /\ IsFiniteSet(ready_set)
           /\ Cardinality(Rest(0)) = Cardinality(ready_set \ {listenfd})
           /\ Cardinality(ready_set) \in 0..(FD_SETSIZE + 1)
           /\ \A s \in Rest(0) : clientfd[s] \in ready_set
<1> DEFINE R == ready_set \ {listenfd}
           f == [s \in Rest(0) |-> clientfd[s]]
<1>1. R \in SUBSET Open
  BY DEF PoolConsistent, Open
<1>2. f \in Bijection(Rest(0), R)
  <2>1. \A s \in Rest(0) : s \in Slots /\ clientfd[s] \in Fds /\ clientfd[s] \in ready_set
    BY RestTyped DEF Rest
  <2>2. f \in [Rest(0) -> R]
    BY <2>1, Sizes
  <2>3. \A s, t \in Rest(0) : f[s] = f[t] => s = t
    <3> SUFFICES ASSUME NEW s \in Rest(0), NEW t \in Rest(0), clientfd[s] = clientfd[t], s # t
                 PROVE  FALSE
      OBVIOUS
    <3>1. clientfd[s] = -1
      BY <2>1 DEF PoolConsistent
    <3> QED  BY <2>1, <3>1, Sizes
  <2>4. \A x \in R : \E s \in Rest(0) : f[s] = x
    <3> SUFFICES ASSUME NEW x \in R PROVE \E s \in Rest(0) : f[s] = x
      OBVIOUS
    <3>1. x \in Open /\ x \in Fds
      BY <1>1 DEF Open
    <3>2. PICK s \in Slots : clientfd[s] = x
      BY <3>1 DEF PoolConsistent, Open
    <3>3. s <= maxi /\ x > 0
      BY <3>1, <3>2, Sizes DEF PoolConsistent
    <3>4. s \in Rest(0)
      BY <3>2, <3>3 DEF Rest, Slots, PoolTypes
    <3> QED  BY <3>2, <3>4
  <2> QED  BY <2>2, <2>3, <2>4 DEF Bijection, Injection, Surjection, IsInjective
<1>3. Cardinality(Rest(0)) = Cardinality(R) /\ IsFiniteSet(R)
  <2>1. IsFiniteSet(Rest(0))
    BY RestTyped
  <2>2. ExistsBijection(Rest(0), R)
    BY <1>2 DEF ExistsBijection
  <2> QED  BY <2>1, <2>2, FS_Bijection
<1>4. Cardinality(R) \in 0..FD_SETSIZE
  BY <1>3, RestTyped
<1>5. IsFiniteSet(R \cup {listenfd}) /\ Cardinality(R \cup {listenfd}) = Cardinality(R) + 1
  BY <1>3, FS_AddElement
<1>6. /\ IsFiniteSet(ready_set)
      /\ Cardinality(ready_set) = Cardinality(R) \/ Cardinality(ready_set) = Cardinality(R) + 1
  <2>1. CASE listenfd \in ready_set
    <3>1. ready_set = R \cup {listenfd}
      BY <2>1
    <3> QED  BY <1>5, <3>1
  <2>2. CASE listenfd \notin ready_set
    <3>1. ready_set = R
      BY <2>2
    <3> QED  BY <1>3, <3>1
  <2> QED  BY <2>1, <2>2
<1>7. FD_SETSIZE \in Nat
  BY EventServerAssumption
<1>8. \A s \in Rest(0) : clientfd[s] \in ready_set
  BY DEF Rest
<1> QED  BY <1>3, <1>4, <1>6, <1>7, <1>8

LEMMA ReadyAreServedNext ==
    PoolTypes' /\ PoolConsistent' /\ pc' # "load" /\ ready_set' \subseteq read_set' =>
        /\ IsFiniteSet(ready_set')
        /\ Cardinality(Rest(0)') = Cardinality(ready_set' \ {listenfd})
        /\ Cardinality(ready_set') \in 0..(FD_SETSIZE + 1)
        /\ \A s \in Rest(0)' : clientfd'[s] \in ready_set'
<1> DEFINE P == PoolTypes /\ PoolConsistent /\ pc # "load" /\ ready_set \subseteq read_set
           Q == /\ IsFiniteSet(ready_set)
                /\ Cardinality(Rest(0)) = Cardinality(ready_set \ {listenfd})
                /\ Cardinality(ready_set) \in 0..(FD_SETSIZE + 1)
                /\ \A s \in Rest(0) : clientfd[s] \in ready_set
<1>1. P => Q
  BY ReadyAreServed
<1>2. P' => Q'
  BY <1>1, PTL
<1> QED  BY <1>2

-----------------------------------------------------------------------------
(* Steps that leave the pool alone. *)

Still == UNCHANGED <<clientfd, read_set, ready_set, nready, maxi, maxfd, conn>>

\* What can be read stays readable.
Grows ==
    /\ backlog \subseteq backlog'
    /\ \A c \in Conns : /\ inbox[c] # <<>> => inbox'[c] # <<>>
                        /\ Gone(c) => Gone(c)'

LEMMA ReadableStays ==
    ASSUME PoolTypes, Grows, conn' = conn, NEW f \in Fds \cup {listenfd}, Readable(f)
    PROVE  Readable(f)'
<1>1. CASE f = listenfd
  BY <1>1 DEF Readable, Grows
<1>2. CASE f # listenfd
  <2>1. conn[f] \in Conns
    BY <1>2 DEF PoolTypes, Readable
  <2> QED  BY <1>2, <2>1 DEF Readable, Grows
<1> QED  BY <1>1, <1>2

LEMMA RestFrame ==
    ASSUME UNCHANGED <<clientfd, ready_set, maxi>>, NEW j
    PROVE  Rest(j)' = Rest(j)
  BY DEF Rest

LEMMA ConsistentFrame ==
    ASSUME PoolConsistent, UNCHANGED <<clientfd, read_set, maxi, maxfd, conn>>,
           pc = "load" <=> pc' = "load"
    PROVE  PoolConsistent'
  BY DEF PoolConsistent

\* The network moves, or the process ends; the thread is where it was.
LEMMA StillStep ==
    ASSUME PoolInv, Still, Grows, UNCHANGED <<pc, i, rio, line>>
    PROVE  PoolConsistent' /\ Counted' /\ StayReady'
<1> USE DEF PoolInv
<1>1. PoolConsistent'
  BY ConsistentFrame DEF Still
<1>2. \A j : Rest(j)' = Rest(j)
  BY RestFrame DEF Still
<1>3. Counted'
  BY <1>2 DEF Counted, Serves, Still
<1>4. \A f \in Fds \cup {listenfd} : Readable(f) => Readable(f)'
  BY ReadableStays DEF Still
<1>5. (pc = "accept" => \A f \in ready_set : Readable(f))'
  BY <1>4 DEF StayReady, Still, PoolTypes
<1>6. \A j \in Nat : (\A s \in Rest(j) : Readable(clientfd[s]))
                      => \A s \in Rest(j)' : Readable(clientfd[s])'
  <2> SUFFICES ASSUME NEW j \in Nat, \A s \in Rest(j) : Readable(clientfd[s]),
                      NEW s \in Rest(j)
               PROVE  Readable(clientfd[s])'
    BY <1>2
  <2>1. clientfd[s] \in Fds
    BY RestTyped
  <2>2. PICK f \in Fds : f = clientfd[s]
    BY <2>1
  <2>3. Readable(f)'
    BY <1>4, <2>2
  <2>4. clientfd'[s] = f
    BY <2>2 DEF Still
  <2> QED  BY <2>3, <2>4 DEF Readable
<1>7. i \in Nat /\ i + 1 \in Nat
  BY EventServerAssumption DEF PoolTypes
<1>8. (pc = "check" => \A s \in Rest(i) : Readable(clientfd[s]))'
  <2> SUFFICES ASSUME pc = "check" PROVE (\A s \in Rest(i) : Readable(clientfd[s]))'
    OBVIOUS
  <2>1. PICK j \in Nat : j = i
    BY <1>7
  <2>2. \A s \in Rest(j)' : Readable(clientfd[s])'
    BY <1>6, <2>1 DEF StayReady
  <2> QED  BY <2>1, <2>2 DEF Rest
<1>9. (Serves => \A s \in Rest(i + 1) : Readable(clientfd[s]))'
  <2> SUFFICES ASSUME Serves PROVE (\A s \in Rest(i + 1) : Readable(clientfd[s]))'
    BY DEF Serves
  <2>1. PICK j \in Nat : j = i + 1
    BY <1>7
  <2>2. \A s \in Rest(j)' : Readable(clientfd[s])'
    BY <1>6, <2>1 DEF StayReady
  <2> QED  BY <2>1, <2>2 DEF Rest
<1>10. (pc = "read" => line # <<>> \/ rio # <<>> \/ Readable(clientfd[i]))'
  <2> SUFFICES ASSUME pc = "read", Readable(clientfd[i]) PROVE Readable(clientfd[i])'
    BY DEF StayReady
  <2>1. PICK f \in Fds : f = clientfd[i]
    BY DEF Counted, Serves, PoolTypes
  <2>2. Readable(f)' /\ clientfd'[i'] = f
    BY <1>4, <2>1 DEF Still
  <2> QED  BY <2>2 DEF Readable
<1> QED  BY <1>1, <1>3, <1>5, <1>8, <1>9, <1>10 DEF StayReady, Still

LEMMA EndStep ==
    ASSUME PoolInv, Sigint \/ TooMany \/ ReadError \/ WriteError
    PROVE  PoolInv'
<1> USE DEF PoolInv
<1>1. Still /\ UNCHANGED <<pc, i, rio, line, net>> /\ exited' \in {"error", "sigint"}
  BY DEF Sigint, TooMany, ReadError, WriteError, Goto, pool, locals, net, Still
<1>2. Grows
  BY <1>1 DEF Grows, net, Gone
<1>3. PoolTypes'
  BY <1>1 DEF PoolTypes, Still, net
<1>4. StreamTypes'
  BY <1>1 DEF StreamTypes, net
<1>5. Placed'
  BY <1>1 DEF Placed, Still, net
<1> QED  BY <1>1, <1>2, <1>3, <1>4, <1>5, StillStep

LEMMA ClientStep ==
    ASSUME PoolInv, NEW c \in Conns, Client(c)
    PROVE  PoolInv'
<1> USE DEF PoolInv
<1>1. Still /\ UNCHANGED <<pc, i, rio, line, exited>>
  BY DEF Client, Connect, SendHead, SendTail, Receive, Leave, Abort, Reset, pool,
         locals, process, Still
<1>2. /\ DOMAIN inbox' = Conns /\ inbox' = [d \in Conns |-> inbox'[d]]
      /\ \A d \in Conns : inbox'[d] = inbox[d] \/ \E e : inbox'[d] = Append(inbox[d], e)
  <2>1. CASE SendHead(c)
    <3>1. PICK r, cut : inbox' = [inbox EXCEPT ![c] = Append(@, Line(r, cut)[1])]
      BY <2>1 DEF SendHead
    <3> QED  BY <3>1 DEF StreamTypes
  <2>2. CASE SendTail(c)
    <3>1. PICK x : inbox' = [inbox EXCEPT ![c] = Append(@, x)]
      BY <2>2 DEF SendTail
    <3> QED  BY <3>1 DEF StreamTypes
  <2>3. CASE Connect(c) \/ Receive(c) \/ Leave(c) \/ Abort(c) \/ Reset(c)
    BY <2>3 DEF Connect, Receive, Leave, Abort, Reset, StreamTypes
  <2> QED  BY <2>1, <2>2, <2>3 DEF Client
<1>3. StreamTypes' /\ \A d \in Conns : inbox[d] # <<>> => inbox'[d] # <<>>
  <2>1. \A d \in Conns : IsSeq(inbox'[d]) /\ (inbox[d] # <<>> => inbox'[d] # <<>>)
    <3> SUFFICES ASSUME NEW d \in Conns
                 PROVE  IsSeq(inbox'[d]) /\ (inbox[d] # <<>> => inbox'[d] # <<>>)
      OBVIOUS
    <3>1. IsSeq(inbox[d])
      BY DEF StreamTypes
    <3>2. CASE inbox'[d] = inbox[d]
      BY <3>1, <3>2
    <3>3. CASE inbox'[d] # inbox[d]
      <4>1. PICK e : inbox'[d] = Append(inbox[d], e)
        BY <1>2, <3>3
      <4>2. IsSeq(Append(inbox[d], e)) /\ Append(inbox[d], e) # <<>>
        BY <3>1, AppendIs
      <4> QED  BY <4>1, <4>2
    <3> QED  BY <3>2, <3>3
  <2>2. IsSeq(line') /\ IsSeq(rio')
    BY <1>1 DEF StreamTypes
  <2> QED  BY <1>2, <2>1, <2>2 DEF StreamTypes, IsSeq
<1>4. \/ Connect(c) /\ client' = [client EXCEPT ![c] = "idle"] /\ backlog' = backlog \cup {c}
      \/ /\ backlog' = backlog
         /\ \/ UNCHANGED client
            \/ /\ client[c] \in {"idle", "sending", "waiting"}
               /\ \E x \in {"idle", "sending", "waiting", "closed", "killed"} :
                    client' = [client EXCEPT ![c] = x]
  <2>1. CASE Connect(c)
    BY <2>1 DEF Connect
  <2>2. CASE SendHead(c)
    BY <2>2 DEF SendHead
  <2>3. CASE SendTail(c)
    BY <2>3 DEF SendTail
  <2>4. CASE Receive(c)
    <3>1. CASE got[c] + 1 = ReplyLen
      BY <2>4, <3>1 DEF Receive
    <3>2. CASE got[c] + 1 # ReplyLen
      <4>1. client' = [client EXCEPT ![c] = client[c]] /\ client[c] = "waiting"
        BY <2>4, <3>2 DEF Receive
      <4>2. client' = [client EXCEPT ![c] = "waiting"] /\ backlog' = backlog
        BY <2>4, <4>1 DEF Receive
      <4> QED  BY <4>1, <4>2
    <3> QED  BY <3>1, <3>2
  <2>5. CASE Leave(c)
    BY <2>5 DEF Leave
  <2>6. CASE Abort(c)
    BY <2>6 DEF Abort
  <2>7. CASE Reset(c)
    BY <2>7 DEF Reset
  <2> QED  BY <2>1, <2>2, <2>3, <2>4, <2>5, <2>6, <2>7 DEF Client
<1>5. client' \in [Conns -> {"off", "idle", "sending", "waiting", "closed", "killed"}]
  BY <1>4 DEF PoolTypes
<1>6. Grows
  <2>1. \A d \in Conns : Gone(d) => Gone(d)'
    BY <1>4 DEF PoolTypes, Gone, Connect
  <2> QED  BY <1>3, <1>4, <2>1 DEF Grows
<1>7. PoolTypes'
  BY <1>1, <1>5 DEF PoolTypes, Still
<1>8. Placed'
  <2>1. CASE Connect(c)
    <3>1. /\ client' = [client EXCEPT ![c] = "idle"] /\ backlog' = backlog \cup {c}
          /\ client[c] = "off" /\ pc # "load"
      BY <2>1 DEF Connect
    <3>2. \A f \in Fds : conn[f] # c
      BY <3>1, EventServerAssumption DEF Placed
    <3> QED  BY <1>1, <3>1, <3>2, EventServerAssumption DEF Placed, PoolTypes, Still
  <2>2. CASE /\ backlog' = backlog
             /\ \/ UNCHANGED client
                \/ /\ client[c] # "off"
                   /\ \E x \in {"idle", "sending", "waiting", "closed", "killed"} :
                        client' = [client EXCEPT ![c] = x]
    <3>1. \A d \in Conns : client'[d] = "off" <=> client[d] = "off"
      BY <2>2 DEF PoolTypes
    <3> QED  BY <1>1, <2>2, <3>1 DEF Placed, PoolTypes, Still
  <2> QED  BY <1>4, <2>1, <2>2
<1> QED  BY <1>1, <1>3, <1>6, <1>7, <1>8, StillStep

-----------------------------------------------------------------------------
(* main: the start, and the rounds of select. *)

LEMMA LoadStep ==
    ASSUME PoolInv, Load
    PROVE  PoolInv'
<1> USE DEF PoolInv
<1>1. Still /\ pc = "load" /\ UNCHANGED <<pc, i, rio, line, exited, net>>
  BY DEF Load, Goto, pool, locals, process, Still
<1>2. Grows
  BY <1>1 DEF Grows, net, Gone
<1>3. PoolTypes' /\ StreamTypes' /\ Placed'
  BY <1>1 DEF PoolTypes, StreamTypes, Placed, Still, net
<1> QED  BY <1>1, <1>2, <1>3, StillStep

LEMMA InitPoolStep ==
    ASSUME PoolInv, InitPool
    PROVE  PoolInv'
<1> USE DEF PoolInv
<1>1. /\ pc = "load" /\ pc' = "select" /\ maxi' = -1 /\ maxfd' = listenfd
      /\ read_set' = {listenfd} /\ clientfd' = [s \in Slots |-> -1]
      /\ UNCHANGED <<ready_set, nready, i, rio, line, conn, exited, net>>
  BY DEF InitPool, Goto, locals, process
<1>2. PoolTypes'
  BY <1>1 DEF PoolTypes, net
<1>3. StreamTypes'
  BY <1>1 DEF StreamTypes, net
<1>4. Placed'
  BY <1>1 DEF Placed, net
<1>5. PoolConsistent'
  <2>1. \A f \in Fds : conn'[f] = NoConn
    BY <1>1 DEF Placed
  <2>2. {clientfd'[s] : s \in Slots} \ {-1} = {}
    BY <1>1
  <2> QED  BY <1>1, <2>1, <2>2 DEF PoolConsistent
<1> QED  BY <1>1, <1>2, <1>3, <1>4, <1>5 DEF Counted, StayReady, Serves

LEMMA SelectStep ==
    ASSUME PoolInv, Select
    PROVE  PoolInv'
<1> USE DEF PoolInv
<1> DEFINE ready == {f \in read_set : f < maxfd + 1 /\ Readable(f)}
<1>1. /\ pc = "select" /\ pc' = IF listenfd \in ready THEN "accept" ELSE "check"
      /\ ready_set' = ready /\ nready' = Cardinality(ready) /\ i' = 0
      /\ UNCHANGED <<clientfd, read_set, maxi, maxfd, rio, line, conn, exited, net>>
  BY DEF Select, Goto, process
<1>2. PoolConsistent'
  BY <1>1, ConsistentFrame
<1>3. \A f \in Fds \cup {listenfd} : Readable(f)' <=> Readable(f)
  BY <1>1 DEF Readable, net, Gone
<1>4. ready \subseteq read_set /\ ready \subseteq Fds \cup {listenfd}
  BY DEF PoolTypes
<1>5. PoolTypes'
  <2>1. PoolTypes /\ PoolConsistent /\ pc # "load" => IsFiniteSet(Open) /\ Cardinality(Open) \in 0..FD_SETSIZE
    BY OpenFew
  <2>2. IsFiniteSet(Open) /\ Cardinality(Open) \in 0..FD_SETSIZE
    BY <1>1, <2>1
  <2>3. /\ IsFiniteSet(Open \cup {listenfd})
        /\ Cardinality(Open \cup {listenfd}) = Cardinality(Open) + 1
    BY <2>2, FS_AddElement, Sizes DEF Open
  <2>4. ready \in SUBSET (Open \cup {listenfd})
    BY <1>1 DEF PoolConsistent, Open
  <2>5. IsFiniteSet(ready) /\ Cardinality(ready) <= Cardinality(Open \cup {listenfd})
    BY <2>3, <2>4, FS_Subset
  <2>6. Cardinality(ready) \in Nat
    BY <2>5, FS_CardinalityType
  <2>7. FD_SETSIZE \in Nat
    BY EventServerAssumption
  <2>8. nready' \in 0..(FD_SETSIZE + 1) /\ i' \in 0..FD_SETSIZE
    BY <1>1, <2>2, <2>3, <2>5, <2>6, <2>7
  <2>9. pc' \in {"accept", "check"} /\ client' = client
    BY <1>1 DEF net
  <2> HIDE DEF ready
  <2> QED  BY <1>1, <1>4, <2>8, <2>9 DEF PoolTypes
<1>6. StreamTypes'
  BY <1>1 DEF StreamTypes, net
<1>7. Placed'
  BY <1>1 DEF Placed, net
<1>8. /\ IsFiniteSet(ready_set')
      /\ Cardinality(Rest(0)') = Cardinality(ready_set' \ {listenfd})
      /\ \A s \in Rest(0)' : clientfd'[s] \in ready_set'
  BY <1>1, <1>2, <1>4, <1>5, ReadyAreServedNext
<1>9. CASE listenfd \in ready
  <2>1. pc' = "accept"
    BY <1>1, <1>9
  <2>2. Counted'
    BY <1>1, <2>1 DEF Counted, Serves
  <2>3. listenfd \in ready_set' /\ ready_set' \subseteq read_set' /\ \A f \in ready_set' : Readable(f)'
    BY <1>1, <1>3, <1>4, <1>9
  <2>4. StayReady'
    BY <2>1, <2>3 DEF StayReady, Serves
  <2> QED  BY <1>2, <1>5, <1>6, <1>7, <2>2, <2>4
<1>10. CASE listenfd \notin ready
  <2>1. pc' = "check"
    BY <1>1, <1>10
  <2>2. ready_set' \ {listenfd} = ready_set'
    BY <1>1, <1>10
  <2>3. Counted'
    <3>1. nready' = Cardinality(Rest(0)')
      BY <1>1, <1>8, <2>2
    <3> QED  BY <1>1, <2>1, <3>1 DEF Counted, Serves, Rest
  <2>4. \A s \in Rest(0)' : Readable(clientfd[s])'
    <3> SUFFICES ASSUME NEW s \in Rest(0)' PROVE Readable(clientfd[s])'
      OBVIOUS
    <3>1. clientfd'[s] \in ready
      BY <1>1, <1>8
    <3>2. PICK f \in Fds \cup {listenfd} : f = clientfd'[s]
      BY <1>4, <3>1
    <3>3. Readable(f)'
      BY <1>3, <3>1, <3>2
    <3> QED  BY <3>2, <3>3 DEF Readable
  <2>5. StayReady'
    BY <1>1, <2>1, <2>4 DEF StayReady, Serves, Rest
  <2> QED  BY <1>2, <1>5, <1>6, <1>7, <2>3, <2>5
<1> QED  BY <1>9, <1>10

LEMMA AcceptStep ==
    ASSUME PoolInv, Accept
    PROVE  PoolInv'
<1> USE DEF PoolInv
<1>1. /\ pc = "accept" /\ pc' = "check" /\ nready' = nready - 1
      /\ UNCHANGED <<ready_set, i, rio, line, exited, client, inbox>>
      /\ AddClient(FreeFd) /\ \E s \in Slots : clientfd[s] < 0
  BY DEF Accept, Goto, locals, process
<1>2. PICK c \in backlog : backlog' = backlog \ {c} /\ conn' = [conn EXCEPT ![FreeFd] = c]
  BY DEF Accept
<1>3. PICK fd \in Fds : fd = FreeFd /\ conn[fd] = NoConn
  BY <1>1, FreeFdIs
<1>4. PICK s \in Slots :
             /\ clientfd[s] = -1 /\ clientfd' = [clientfd EXCEPT ![s] = fd]
             /\ read_set' = read_set \cup {fd}
             /\ maxfd' = IF fd > maxfd THEN fd ELSE maxfd
             /\ maxi' = IF s > maxi THEN s ELSE maxi
  BY <1>1, <1>3, AddClientAdds
<1>5. conn' = [conn EXCEPT ![fd] = c] /\ c \in Conns /\ c # NoConn
  BY <1>2, <1>3, EventServerAssumption DEF Placed
<1>6. {f \in Fds : conn'[f] # NoConn} = Open \cup {fd} /\ fd \notin Open
  BY <1>3, <1>5 DEF Open, PoolTypes
<1>7. PoolConsistent'
  <2>1. read_set' = (Open \cup {fd}) \cup {listenfd}
    BY <1>1, <1>4 DEF PoolConsistent, Open
  <2>2. {clientfd[t] : t \in Slots} \ {-1} = Open
    BY <1>1 DEF PoolConsistent, Open
  <2>3. {clientfd'[t] : t \in Slots} \ {-1} = Open \cup {fd}
    <3>1. ASSUME NEW t \in Slots, clientfd'[t] # -1 PROVE clientfd'[t] \in Open \cup {fd}
      BY <1>4, <2>2, <3>1 DEF PoolTypes
    <3>2. ASSUME NEW f \in Open \cup {fd} PROVE \E t \in Slots : clientfd'[t] = f /\ f # -1
      <4>1. CASE f = fd
        BY <1>4, <4>1, Sizes DEF PoolTypes
      <4>2. CASE f # fd
        <5>1. PICK t \in Slots : clientfd[t] = f /\ f # -1
          BY <2>2, <3>2, <4>2
        <5> QED  BY <1>4, <5>1 DEF PoolTypes
      <4> QED  BY <4>1, <4>2
    <3> QED  BY <3>1, <3>2
  <2>4. \A t, u \in Slots : t # u /\ clientfd'[t] = clientfd'[u] => clientfd'[t] = -1
    <3> SUFFICES ASSUME NEW t \in Slots, NEW u \in Slots, t # u, clientfd'[t] = clientfd'[u]
                 PROVE  clientfd'[t] = -1
      OBVIOUS
    <3>1. \A v \in Slots : clientfd[v] # fd
      BY <1>3, <1>6, <2>2, Sizes
    <3>2. CASE t # s /\ u # s
      BY <1>1, <1>4, <3>2 DEF PoolConsistent, PoolTypes
    <3>3. CASE t = s \/ u = s
      BY <1>4, <3>1, <3>3 DEF PoolTypes
    <3> QED  BY <3>2, <3>3
  <2>5. \A t \in Slots : clientfd'[t] # -1 => t <= maxi' /\ clientfd'[t] <= maxfd'
    <3> SUFFICES ASSUME NEW t \in Slots, clientfd'[t] # -1
                 PROVE  t <= maxi' /\ clientfd'[t] <= maxfd'
      OBVIOUS
    <3>1. /\ maxi \in Int /\ maxfd \in Int /\ fd \in Int /\ s \in Int /\ t \in Int
          /\ clientfd[t] \in Int
      <4>1. \A x \in Fds \cup {-1, listenfd} : x \in Int
        BY Sizes
      <4>2. \A x \in Slots \cup {-1} : x \in Int
        BY Sizes
      <4> QED  BY <4>1, <4>2 DEF PoolTypes
    <3>2. CASE t = s
      BY <1>4, <3>1, <3>2 DEF PoolTypes
    <3>3. CASE t # s
      <4>1. clientfd'[t] = clientfd[t]
        BY <1>4, <3>3 DEF PoolTypes
      <4>2. t <= maxi /\ clientfd[t] <= maxfd
        BY <1>1, <4>1 DEF PoolConsistent
      <4> QED  BY <1>4, <3>1, <4>1, <4>2
    <3> QED  BY <3>2, <3>3
  <2>6. \A f, g \in Open \cup {fd} : f # g => conn'[f] # conn'[g]
    <3>1. \A f, g \in Open : f # g => conn[f] # conn[g]
      BY <1>1 DEF PoolConsistent, Open
    <3>2. \A f \in Open : conn[f] # c
      BY <1>2 DEF Placed, Open
    <3> QED  BY <1>5, <1>6, <3>1, <3>2 DEF PoolTypes, Open
  <2> QED  BY <1>6, <2>1, <2>3, <2>4, <2>5, <2>6 DEF PoolConsistent
<1>8. IsFiniteSet(ready_set) /\ Cardinality(ready_set) \in 0..(FD_SETSIZE + 1)
  BY <1>1, ReadyAreServed DEF StayReady
<1>9. nready' = Cardinality(ready_set' \ {listenfd}) /\ nready' \in 0..(FD_SETSIZE + 1)
  <2>1. listenfd \in ready_set /\ nready = Cardinality(ready_set)
    BY <1>1 DEF StayReady, Counted
  <2>2. /\ IsFiniteSet(ready_set \ {listenfd})
        /\ Cardinality(ready_set \ {listenfd}) = Cardinality(ready_set) - 1
    BY <1>8, <2>1, FS_RemoveElement
  <2>3. Cardinality(ready_set \ {listenfd}) \in Nat
    BY <2>2, FS_CardinalityType
  <2>4. FD_SETSIZE \in Nat
    BY EventServerAssumption
  <2> QED  BY <1>1, <1>8, <2>1, <2>2, <2>3, <2>4
<1>10. PoolTypes'
  <2>1. clientfd' \in [Slots -> Fds \cup {-1}] /\ conn' \in [Fds -> Conns \cup {NoConn}]
    BY <1>4, <1>5 DEF PoolTypes
  <2>2. maxi' \in Slots \cup {-1} /\ maxfd' \in Fds \cup {listenfd}
    BY <1>4 DEF PoolTypes
  <2>3. read_set' \subseteq Fds \cup {listenfd}
    BY <1>4 DEF PoolTypes
  <2> QED  BY <1>1, <1>9, <2>1, <2>2, <2>3 DEF PoolTypes
<1>11. StreamTypes'
  BY <1>1 DEF StreamTypes
<1>12. Placed'
  <2>1. client[c] # "off" /\ c \notin backlog'
    BY <1>2, <1>5 DEF Placed
  <2>2. \A f \in Fds : conn'[f] # NoConn => conn'[f] \notin backlog' /\ client[conn'[f]] # "off"
    BY <1>2, <1>5, <2>1 DEF Placed, PoolTypes
  <2> QED  BY <1>1, <1>2, <2>1, <2>2 DEF Placed
<1>13. ready_set' \subseteq read_set'
  BY <1>1, <1>4 DEF StayReady
<1>14. /\ Cardinality(Rest(0)') = Cardinality(ready_set' \ {listenfd})
       /\ \A t \in Rest(0)' : clientfd'[t] \in ready_set'
  BY <1>1, <1>7, <1>10, <1>13, ReadyAreServedNext
<1>15. i' = 0
  BY <1>1 DEF Counted
<1>16. Counted'
  BY <1>1, <1>9, <1>14, <1>15 DEF Counted, Serves, Rest
<1>17. \A t \in Rest(0)' : Readable(clientfd[t])'
  <2> SUFFICES ASSUME NEW t \in Rest(0)' PROVE Readable(clientfd[t])'
    OBVIOUS
  <2>1. clientfd'[t] \in ready_set /\ t \in Slots /\ clientfd'[t] > 0
    <3>1. maxi' \in Int /\ (maxi' < FD_SETSIZE)
      BY <1>10, EventServerAssumption DEF PoolTypes, Slots
    <3> QED  BY <1>1, <1>14, <3>1, EventServerAssumption DEF Rest, Slots
  <2>2. PICK f \in Fds : f = clientfd'[t]
    BY <1>10, <2>1 DEF PoolTypes
  <2>3. f \in Open /\ Readable(f) /\ f # listenfd
    BY <1>1, <2>1, <2>2, Sizes DEF StayReady, PoolConsistent, Open
  <2>4. conn'[f] = conn[f]
    BY <1>5, <1>6, <2>3 DEF PoolTypes
  <2>5. Readable(f)'
    BY <1>1, <2>3, <2>4 DEF Readable, Gone
  <2> QED  BY <2>2, <2>5 DEF Readable
<1>18. StayReady'
  BY <1>1, <1>15, <1>17 DEF StayReady, Serves, Rest
<1> QED  BY <1>7, <1>10, <1>11, <1>12, <1>16, <1>18

-----------------------------------------------------------------------------
(* check_clients. *)

\* The slots that are still to be served once slot j is.
LEMMA RestAfter ==
    ASSUME PoolTypes, NEW j \in Nat, Rest(j) # {}
    PROVE  /\ Min(Rest(j)) \in Rest(j)
           /\ Rest(Min(Rest(j)) + 1) = Rest(j) \ {Min(Rest(j))}
           /\ Cardinality(Rest(Min(Rest(j)) + 1)) = Cardinality(Rest(j)) - 1
<1> DEFINE R == Rest(j)
           m == Min(R)
<1>1. IsFiniteSet(R) /\ R \in SUBSET Slots
  BY RestTyped
<1>2. R \in SUBSET Int
  BY <1>1, Sizes
<1>3. \E x \in R : \A y \in R : x <= y
  BY <1>1, <1>2, LeastInteger
<1>4. m \in R /\ \A y \in R : m <= y
  BY <1>3 DEF Min
<1>5. Rest(m + 1) = R \ {m}
  <2>1. m \in Int /\ maxi \in Int /\ j <= m
    <3>1. \A x \in Slots \cup {-1} : x \in Int
      BY Sizes
    <3> QED  BY <1>1, <1>4, <3>1, RestTyped DEF PoolTypes
  <2>2. ASSUME NEW x \in Rest(m + 1) PROVE x \in R \ {m}
    BY <2>1 DEF Rest
  <2>3. ASSUME NEW x \in R \ {m} PROVE x \in Rest(m + 1)
    <3>1. x \in Int /\ m <= x /\ x # m
      BY <1>2, <1>4
    <3> QED  BY <2>1, <3>1 DEF Rest
  <2> QED  BY <2>2, <2>3
<1>6. Cardinality(R \ {m}) = Cardinality(R) - 1
  BY <1>1, <1>4, FS_RemoveElement
<1> QED  BY <1>4, <1>5, <1>6

LEMMA NextClientStep ==
    ASSUME PoolInv, NextClient
    PROVE  PoolInv'
<1> USE DEF PoolInv
<1>1. /\ pc = "check" /\ pc' = "read" /\ nready > 0 /\ Rest(i) # {}
      /\ i' = Min(Rest(i)) /\ nready' = nready - 1 /\ rio' = <<>> /\ line' = <<>>
      /\ UNCHANGED <<clientfd, read_set, ready_set, maxi, maxfd, conn, exited, net>>
  BY DEF NextClient, Goto, Readinitb, process, Todo, Rest
<1>2. PICK j \in Nat : j = i
  BY EventServerAssumption DEF PoolTypes
<1>3. /\ i' \in Rest(j) /\ Rest(i' + 1) = Rest(j) \ {i'}
      /\ Cardinality(Rest(i' + 1)) = Cardinality(Rest(j)) - 1
  BY <1>1, <1>2, RestAfter
<1>4. i' \in Slots /\ clientfd[i'] \in Fds
  BY <1>3, RestTyped
<1>5. PoolConsistent'
  BY <1>1, ConsistentFrame
<1>6. PoolTypes'
  <2>1. nready' \in 0..(FD_SETSIZE + 1) /\ i' \in 0..FD_SETSIZE
    BY <1>1, <1>4, EventServerAssumption DEF PoolTypes, Slots
  <2> QED  BY <1>1, <2>1 DEF PoolTypes, net
<1>7. StreamTypes'
  BY <1>1, EmptyIs DEF StreamTypes, net
<1>8. Placed'
  BY <1>1 DEF Placed, net
<1>9. Rest(i + 1)' = Rest(i' + 1)
  BY <1>1 DEF Rest
<1>10. Counted'
  <2>1. nready' = Cardinality(Rest(i + 1)') /\ clientfd'[i'] # -1
    BY <1>1, <1>2, <1>3, <1>4, <1>9, Sizes DEF Counted
  <2> QED  BY <1>1, <1>4, <2>1 DEF Counted, Serves
<1>11. \A s \in Rest(j) : Readable(clientfd[s])'
  <2> SUFFICES ASSUME NEW s \in Rest(j) PROVE Readable(clientfd[s])'
    OBVIOUS
  <2>1. Readable(clientfd[s])
    BY <1>1, <1>2 DEF StayReady
  <2> QED  BY <1>1, <2>1 DEF Readable, net, Gone
<1>12. StayReady'
  <2>1. \A s \in Rest(i + 1)' : Readable(clientfd[s])'
    BY <1>3, <1>9, <1>11
  <2>2. Readable(clientfd[i])'
    BY <1>3, <1>11
  <2> QED  BY <1>1, <2>1, <2>2 DEF StayReady, Serves
<1> QED  BY <1>5, <1>6, <1>7, <1>8, <1>10, <1>12

LEMMA RoundDoneStep ==
    ASSUME PoolInv, RoundDone
    PROVE  PoolInv'
<1> USE DEF PoolInv
<1>1. /\ pc = "check" /\ pc' = "select" /\ i' = 0 /\ rio' = <<>> /\ ready_set' = {}
      /\ nready' = 0
      /\ UNCHANGED <<clientfd, read_set, maxi, maxfd, line, conn, exited, net>>
  BY DEF RoundDone, Goto, process
<1>2. PoolConsistent'
  BY <1>1, ConsistentFrame
<1>3. PoolTypes'
  <2>1. 0 \in 0..(FD_SETSIZE + 1) /\ 0 \in 0..FD_SETSIZE
    BY EventServerAssumption
  <2> QED  BY <1>1, <2>1 DEF PoolTypes, net
<1>4. StreamTypes'
  BY <1>1, EmptyIs DEF StreamTypes, net
<1>5. Placed'
  BY <1>1 DEF Placed, net
<1> QED  BY <1>1, <1>2, <1>3, <1>4, <1>5 DEF Counted, StayReady, Serves

\* The client that is served is in an open slot of its own.
LEMMA TheServed ==
    ASSUME PoolInv, Serves
    PROVE  /\ i \in Slots /\ i + 1 \in Nat /\ clientfd[i] \in Fds /\ Serving \in Conns
           /\ conn[clientfd[i]] = Serving
           /\ \A s \in Slots : clientfd[s] = clientfd[i] => s = i
           /\ \A f \in Fds : conn[f] = Serving => f = clientfd[i]
           /\ \A s \in Rest(i + 1) : s # i /\ clientfd[s] \in Fds /\ clientfd[s] # clientfd[i]
<1> USE DEF PoolInv
<1>1. i \in Slots /\ i + 1 \in Nat /\ clientfd[i] \in Fds /\ pc # "load"
  BY EventServerAssumption DEF Counted, PoolTypes, Slots, Serves
<1>2. clientfd[i] \in Open
  BY <1>1, Sizes DEF PoolConsistent, Open
<1>3. Serving \in Conns
  BY <1>1, <1>2 DEF Open, PoolTypes, Serving
<1>4. \A s \in Slots : clientfd[s] = clientfd[i] => s = i
  BY <1>1, Sizes DEF PoolConsistent
<1>5. \A f \in Fds : conn[f] = Serving => f = clientfd[i]
  BY <1>1, <1>2, <1>3, EventServerAssumption DEF PoolConsistent, Open, Serving
<1>6. \A s \in Rest(i + 1) : s # i /\ clientfd[s] \in Fds /\ clientfd[s] # clientfd[i]
  <2> SUFFICES ASSUME NEW s \in Rest(i + 1)
               PROVE  s # i /\ clientfd[s] \in Fds /\ clientfd[s] # clientfd[i]
    OBVIOUS
  <2>1. PICK j \in Nat : j = i + 1
    BY <1>1
  <2>2. s \in Slots /\ s >= j /\ clientfd[s] \in Fds
    BY <2>1, RestTyped
  <2>3. s \in Int /\ i \in Int
    BY <1>1, <2>2, Sizes
  <2> QED  BY <1>4, <2>1, <2>2, <2>3
<1> QED  BY <1>1, <1>3, <1>4, <1>5, <1>6 DEF Serving

\* A step for the client of slot i, after which check_clients is still at it.
LEMMA ServingStep ==
    ASSUME PoolInv, Serves, Serves', Still, i' = i,
           backlog' = backlog, client' = client,
           \A c \in Conns \ {Serving} : inbox'[c] = inbox[c]
    PROVE  /\ PoolConsistent' /\ Counted'
           /\ (Serves => \A s \in Rest(i + 1) : Readable(clientfd[s]))'
<1> USE DEF PoolInv
<1>1. PoolConsistent'
  BY ConsistentFrame DEF Still, Serves
<1>2. Rest(i + 1)' = Rest(i + 1)
  BY DEF Rest, Still
<1>3. Counted'
  BY <1>2 DEF Counted, Serves, Still
<1>4. ASSUME NEW s \in Rest(i + 1) PROVE Readable(clientfd[s])'
  <2>1. PICK f \in Fds : f = clientfd[s] /\ f # clientfd[i]
    BY TheServed
  <2>2. Readable(f)
    BY <2>1 DEF StayReady
  <2>3. conn[f] # Serving /\ f # listenfd
    BY <2>1, TheServed, Sizes
  <2>4. conn[f] \in Conns
    BY <2>2, <2>3 DEF Readable, PoolTypes
  <2>5. Readable(f)'
    BY <2>2, <2>3, <2>4 DEF Readable, Gone, Still
  <2>6. clientfd'[s] = f
    BY <2>1 DEF Still
  <2> QED  BY <2>5, <2>6 DEF Readable
<1> QED  BY <1>1, <1>2, <1>3, <1>4

LEMMA RefillStep ==
    ASSUME PoolInv, Refill
    PROVE  PoolInv'
<1> USE DEF PoolInv
<1>1. /\ pc = "read" /\ pc' = "read" /\ Serves /\ Serves' /\ Still
      /\ UNCHANGED <<i, line, exited, client, backlog>>
      /\ inbox[Serving] # <<>> /\ rio' = inbox[Serving]
      /\ inbox' = [inbox EXCEPT ![Serving] = <<>>]
  BY DEF Refill, Goto, Serves, pool, process, Still
<1>2. PICK c \in Conns : c = Serving
  BY <1>1, TheServed
<1>3. inbox' = [inbox EXCEPT ![c] = <<>>]
  BY <1>1, <1>2
<1>4. StreamTypes'
  <2>1. inbox' = [d \in Conns |-> inbox'[d]]
    BY <1>3 DEF StreamTypes
  <2>2. \A d \in Conns : inbox'[d] = inbox[d] \/ inbox'[d] = <<>>
    BY <1>3 DEF StreamTypes
  <2>3. \A d \in Conns : IsSeq(inbox'[d])
    BY <2>2, EmptyIs DEF StreamTypes
  <2>4. IsSeq(line') /\ IsSeq(rio')
    BY <1>1, <1>2 DEF StreamTypes
  <2> QED  BY <2>1, <2>3, <2>4 DEF StreamTypes, IsSeq
<1>5. \A d \in Conns \ {Serving} : inbox'[d] = inbox[d]
  BY <1>2, <1>3 DEF StreamTypes
<1>6. PoolConsistent' /\ Counted' /\ (Serves => \A s \in Rest(i + 1) : Readable(clientfd[s]))'
  BY <1>1, <1>5, ServingStep
<1>7. PoolTypes' /\ Placed'
  BY <1>1 DEF PoolTypes, Placed, Still
<1>8. StayReady'
  BY <1>1, <1>6 DEF StayReady
<1> QED  BY <1>4, <1>6, <1>7, <1>8

LEMMA ReadLineStep ==
    ASSUME PoolInv, ReadLine
    PROVE  PoolInv'
<1> USE DEF PoolInv
<1> DEFINE ends == {m \in DOMAIN rio : rio[m].end}
           n == IF ends = {} THEN Len(rio) ELSE Min(ends)
<1>1. /\ pc = "read" /\ pc' = "read" /\ Serves /\ Serves' /\ Still /\ rio # <<>>
      /\ UNCHANGED <<i, exited, client, backlog, inbox>>
      /\ line' = line \o SubSeq(rio, 1, n) /\ rio' = SubSeq(rio, n + 1, Len(rio))
  BY DEF ReadLine, Goto, Serves, pool, process, net, Still
<1>2. n \in 1..Len(rio)
  <2>1. DOMAIN rio = 1..Len(rio) /\ Len(rio) \in Nat /\ Len(rio) # 0
    <3>1. rio \in Seq({rio[m] : m \in DOMAIN rio})
      BY DEF StreamTypes, IsSeq
    <3> QED  BY <1>1, <3>1
  <2>2. CASE ends = {}
    BY <2>1, <2>2
  <2>3. CASE ends # {}
    <3>1. ends \in SUBSET (1..Len(rio))
      BY <2>1
    <3>2. IsFiniteSet(1..Len(rio)) /\ 1..Len(rio) \in SUBSET Int
      BY <2>1, FS_Interval
    <3>3. IsFiniteSet(ends) /\ ends \in SUBSET Int
      BY <3>1, <3>2, FS_Subset
    <3>4. \E x \in ends : \A y \in ends : x <= y
      BY <2>3, <3>3, LeastInteger
    <3>5. Min(ends) \in ends
      BY <3>4 DEF Min
    <3> QED  BY <2>3, <3>1, <3>5
  <2> QED  BY <2>2, <2>3
<1> HIDE DEF n
<1>3. PICK k \in 1..Len(rio) : k = n
  BY <1>2
<1>4. IsSeq(line') /\ line' # <<>> /\ IsSeq(rio')
  BY <1>1, <1>3, Taken DEF StreamTypes
<1>5. StreamTypes'
  BY <1>1, <1>4 DEF StreamTypes
<1>6. PoolConsistent' /\ Counted' /\ (Serves => \A s \in Rest(i + 1) : Readable(clientfd[s]))'
  BY <1>1, ServingStep
<1>7. PoolTypes' /\ Placed'
  BY <1>1 DEF PoolTypes, Placed, Still
<1>8. StayReady'
  BY <1>1, <1>4, <1>6 DEF StayReady
<1> QED  BY <1>5, <1>6, <1>7, <1>8

LEMMA ServeLineStep ==
    ASSUME PoolInv, ServeLine
    PROVE  PoolInv'
<1> USE DEF PoolInv
<1>1. /\ pc = "read" /\ pc' = "res" /\ Serves /\ Serves' /\ Still /\ line' = <<>>
      /\ UNCHANGED <<i, rio, exited, client, backlog, inbox>>
  BY DEF ServeLine, Goto, Serves, pool, process, Still
<1>2. StreamTypes'
  BY <1>1, EmptyIs DEF StreamTypes
<1>3. PoolConsistent' /\ Counted' /\ (Serves => \A s \in Rest(i + 1) : Readable(clientfd[s]))'
  BY <1>1, ServingStep
<1>4. PoolTypes' /\ Placed'
  BY <1>1 DEF PoolTypes, Placed, Still
<1>5. StayReady'
  BY <1>1, <1>3 DEF StayReady
<1> QED  BY <1>2, <1>3, <1>4, <1>5

LEMMA WriteStep ==
    ASSUME PoolInv, Write
    PROVE  PoolInv'
<1> USE DEF PoolInv
<1>1. /\ pc = "res" /\ Serves /\ Still
      /\ UNCHANGED <<rio, line, exited, client, backlog, inbox>>
      /\ pc' = (IF left = 1 THEN "check" ELSE "res")
      /\ i' = (IF left = 1 THEN i + 1 ELSE i)
  BY DEF Write, Goto, Serves, pool, process, Still
<1>2. StreamTypes' /\ Placed'
  BY <1>1 DEF StreamTypes, Placed, Still
<1>3. CASE left # 1
  <2>1. Serves' /\ pc' = "res" /\ i' = i
    BY <1>1, <1>3 DEF Serves
  <2>2. PoolConsistent' /\ Counted' /\ (Serves => \A s \in Rest(i + 1) : Readable(clientfd[s]))'
    BY <1>1, <2>1, ServingStep
  <2>3. PoolTypes'
    BY <1>1, <2>1 DEF PoolTypes, Still
  <2>4. StayReady'
    BY <2>1, <2>2 DEF StayReady
  <2> QED  BY <1>2, <2>2, <2>3, <2>4
<1>4. CASE left = 1
  <2>1. pc' = "check" /\ i' = i + 1
    BY <1>1, <1>4
  <2>2. PoolConsistent'
    BY <1>1, <2>1, ConsistentFrame DEF Still
  <2>3. i' \in 0..FD_SETSIZE
    BY <1>1, <2>1, EventServerAssumption DEF Counted, Slots
  <2>4. PoolTypes'
    BY <1>1, <2>1, <2>3 DEF PoolTypes, Still
  <2>5. Rest(i)' = Rest(i + 1)
    BY <1>1, <2>1 DEF Rest, Still
  <2>6. Counted'
    BY <1>1, <2>1, <2>5 DEF Counted, Serves, Still
  <2>7. ASSUME NEW s \in Rest(i + 1) PROVE Readable(clientfd[s])'
    <3>1. Readable(clientfd[s])
      BY <1>1 DEF StayReady
    <3> QED  BY <1>1, <3>1 DEF Readable, Gone, Still
  <2>8. StayReady'
    BY <2>1, <2>5, <2>7 DEF StayReady, Serves
  <2> QED  BY <1>2, <2>2, <2>4, <2>6, <2>8
<1> QED  BY <1>3, <1>4

\* The slot of a client that is gone, or that has asked for its end, is freed.
LEMMA CloseStep ==
    ASSUME PoolInv, ReqEof \/ ExitRequest
    PROVE  PoolInv'
<1> USE DEF PoolInv
<1>1. /\ pc = "read" /\ pc' = "check" /\ Serves /\ Close
      /\ UNCHANGED <<ready_set, nready, maxi, maxfd, rio, exited, backlog, inbox>>
      /\ line' \in {line, <<>>}
  BY DEF ReqEof, ExitRequest, Goto, Serves, process
<1>2. PICK k \in Slots : k = i
  BY <1>1, TheServed
<1>3. PICK fd \in Fds : fd = clientfd[k]
  BY <1>1, <1>2, TheServed
<1>4. PICK c \in Conns : c = Serving /\ conn[fd] = c
  BY <1>1, <1>2, <1>3, TheServed
<1>5. /\ conn' = [conn EXCEPT ![fd] = NoConn] /\ clientfd' = [clientfd EXCEPT ![k] = -1]
      /\ read_set' = read_set \ {fd} /\ i' = k + 1
      /\ client' = [client EXCEPT ![c] = IF @ = "waiting" THEN "closed" ELSE @]
  BY <1>1, <1>2, <1>3, <1>4 DEF Close
<1>6. /\ \A s \in Slots : clientfd[s] = fd => s = k
      /\ \A f \in Fds : conn[f] = c => f = fd
      /\ \A s \in Rest(k + 1) : s # k /\ clientfd[s] \in Fds /\ clientfd[s] # fd
  BY <1>1, <1>2, <1>3, <1>4, TheServed
<1>7. PoolTypes'
  <2>1. conn' \in [Fds -> Conns \cup {NoConn}] /\ clientfd' \in [Slots -> Fds \cup {-1}]
    BY <1>5 DEF PoolTypes
  <2>2. client' \in [Conns -> {"off", "idle", "sending", "waiting", "closed", "killed"}]
    BY <1>5 DEF PoolTypes
  <2>3. i' \in 0..FD_SETSIZE
    BY <1>5, EventServerAssumption DEF Slots
  <2>4. read_set' \subseteq Fds \cup {listenfd}
    BY <1>5 DEF PoolTypes
  <2> QED  BY <1>1, <2>1, <2>2, <2>3, <2>4 DEF PoolTypes
<1>8. StreamTypes'
  <2>1. IsSeq(line')
    BY <1>1, EmptyIs DEF StreamTypes
  <2> QED  BY <1>1, <2>1 DEF StreamTypes
<1>9. \A d \in Conns : /\ client'[d] = "off" <=> client[d] = "off"
                       /\ Gone(d) => Gone(d)'
  BY <1>5 DEF PoolTypes, Gone
<1>10. Placed'
  <2>1. \A f \in Fds : conn'[f] # NoConn => conn'[f] = conn[f] /\ conn[f] \in Conns
    BY <1>5 DEF PoolTypes
  <2> QED  BY <1>1, <1>9, <2>1 DEF Placed
<1>11. {f \in Fds : conn'[f] # NoConn} = Open \ {fd}
  BY <1>5 DEF Open, PoolTypes
<1>12. PoolConsistent'
  <2>1. read_set' = (Open \ {fd}) \cup {listenfd}
    <3>1. read_set = Open \cup {listenfd} /\ fd # listenfd
      BY <1>1, Sizes DEF PoolConsistent, Open
    <3> QED  BY <1>5, <3>1
  <2>2. {clientfd[t] : t \in Slots} \ {-1} = Open
    BY <1>1 DEF PoolConsistent, Open
  <2>3. {clientfd'[t] : t \in Slots} \ {-1} = Open \ {fd}
    <3>1. ASSUME NEW t \in Slots, clientfd'[t] # -1 PROVE clientfd'[t] \in Open \ {fd}
      <4>1. t # k /\ clientfd'[t] = clientfd[t]
        BY <1>5, <3>1 DEF PoolTypes
      <4> QED  BY <1>6, <2>2, <3>1, <4>1
    <3>2. ASSUME NEW f \in Open \ {fd} PROVE \E t \in Slots : clientfd'[t] = f /\ f # -1
      <4>1. PICK t \in Slots : clientfd[t] = f /\ f # -1
        BY <2>2
      <4> QED  BY <1>3, <1>5, <4>1 DEF PoolTypes
    <3> QED  BY <3>1, <3>2
  <2>4. \A t, u \in Slots : t # u /\ clientfd'[t] = clientfd'[u] => clientfd'[t] = -1
    BY <1>1, <1>5 DEF PoolConsistent, PoolTypes
  <2>5. \A t \in Slots : clientfd'[t] # -1 => t <= maxi' /\ clientfd'[t] <= maxfd'
    BY <1>1, <1>5 DEF PoolConsistent, PoolTypes
  <2>6. \A f, g \in Open \ {fd} : f # g => conn'[f] # conn'[g]
    <3>1. \A f, g \in Open : f # g => conn[f] # conn[g]
      BY <1>1 DEF PoolConsistent, Open
    <3> QED  BY <1>5, <3>1 DEF PoolTypes, Open
  <2> QED  BY <1>11, <2>1, <2>3, <2>4, <2>5, <2>6 DEF PoolConsistent
<1>13. Rest(i)' = Rest(k + 1)
  <2>1. \A s \in (k + 1)..maxi : s \in Slots /\ s # k
    BY EventServerAssumption DEF PoolTypes, Slots
  <2>2. \A s \in (k + 1)..maxi : clientfd'[s] = clientfd[s]
    BY <1>5, <2>1 DEF PoolTypes
  <2> QED  BY <1>1, <1>5, <2>2 DEF Rest
<1>14. Counted'
  BY <1>1, <1>2, <1>13 DEF Counted, Serves
<1>15. ASSUME NEW s \in Rest(k + 1) PROVE Readable(clientfd[s])'
  <2>1. PICK f \in Fds : f = clientfd[s] /\ f # fd
    BY <1>6
  <2>2. Readable(f)
    BY <1>1, <1>2, <2>1 DEF StayReady
  <2>3. conn'[f] = conn[f] /\ f # listenfd
    BY <1>5, <2>1, Sizes DEF PoolTypes
  <2>4. conn[f] \in Conns
    BY <2>2, <2>3 DEF Readable, PoolTypes
  <2>5. Readable(f)'
    BY <1>1, <1>9, <2>2, <2>3, <2>4 DEF Readable
  <2>6. s \in Slots /\ s # k
    BY <1>6, EventServerAssumption DEF Rest, PoolTypes, Slots
  <2>7. clientfd'[s] = f
    BY <1>5, <2>1, <2>6 DEF PoolTypes
  <2> QED  BY <2>5, <2>7 DEF Readable
<1>16. StayReady'
  BY <1>1, <1>13, <1>15 DEF StayReady, Serves
<1> QED  BY <1>7, <1>8, <1>10, <1>12, <1>14, <1>16

-----------------------------------------------------------------------------
(* The theorems. *)

LEMMA RestartStep ==
    ASSUME PoolInv, Restart
    PROVE  PoolInv'
<1> USE DEF PoolInv
<1>1. /\ pc' = "load" /\ exited' = "no" /\ clientfd' = [s \in Slots |-> -1]
      /\ read_set' = {} /\ ready_set' = {} /\ nready' = 0 /\ maxi' = -1
      /\ maxfd' = listenfd /\ i' = 0 /\ rio' = <<>> /\ line' = <<>>
      /\ conn' = [f \in Fds |-> NoConn] /\ backlog' = {} /\ inbox' = inbox
      /\ client' = [c \in Conns |-> IF client[c] = "idle" THEN "closed" ELSE client[c]]
  BY DEF Restart
<1>2. client' \in [Conns -> {"off", "idle", "sending", "waiting", "closed", "killed"}]
  BY <1>1 DEF PoolTypes
<1>3. 0 \in 0..(FD_SETSIZE + 1) /\ 0 \in 0..FD_SETSIZE
  BY EventServerAssumption
<1>4. PoolTypes'
  BY <1>1, <1>2, <1>3 DEF PoolTypes
<1>5. StreamTypes'
  BY <1>1, EmptyIs DEF StreamTypes
<1>6. Placed'
  BY <1>1 DEF Placed
<1> QED  BY <1>1, <1>4, <1>5, <1>6 DEF PoolConsistent, Counted, StayReady, Serves

LEMMA InitPoolInv == Init => PoolInv
<1> SUFFICES ASSUME Init PROVE PoolInv
  OBVIOUS
<1>1. 0 \in 0..(FD_SETSIZE + 1) /\ 0 \in 0..FD_SETSIZE
  BY EventServerAssumption
<1>2. PoolTypes
  BY <1>1 DEF Init, PoolTypes
<1>3. StreamTypes
  BY EmptyIs DEF Init, StreamTypes
<1>4. Placed
  BY DEF Init, Placed
<1> QED  BY <1>2, <1>3, <1>4 DEF Init, PoolInv, PoolConsistent, Counted, StayReady, Serves

LEMMA NextPoolInv == PoolInv /\ [Next]_vars => PoolInv'
<1> SUFFICES ASSUME PoolInv, [Next]_vars PROVE PoolInv'
  OBVIOUS
<1>1. CASE Server
  <2>1. CASE Load  BY <2>1, LoadStep
  <2>2. CASE InitPool  BY <2>2, InitPoolStep
  <2>3. CASE Select  BY <2>3, SelectStep
  <2>4. CASE Accept  BY <2>4, AcceptStep
  <2>5. CASE NextClient  BY <2>5, NextClientStep
  <2>6. CASE RoundDone  BY <2>6, RoundDoneStep
  <2>7. CASE Refill  BY <2>7, RefillStep
  <2>8. CASE ReadLine  BY <2>8, ReadLineStep
  <2>9. CASE ReqEof \/ ExitRequest  BY <2>9, CloseStep
  <2>10. CASE ServeLine  BY <2>10, ServeLineStep
  <2>11. CASE Write  BY <2>11, WriteStep
  <2>12. CASE TooMany \/ ReadError \/ WriteError  BY <2>12, EndStep
  <2> QED  BY <1>1, <2>1, <2>2, <2>3, <2>4, <2>5, <2>6, <2>7, <2>8, <2>9, <2>10, <2>11,
              <2>12 DEF Server
<1>2. CASE Sigint
  BY <1>2, EndStep
<1>3. CASE Restart
  BY <1>3, RestartStep
<1>4. ASSUME NEW c \in Conns, Client(c) PROVE PoolInv'
  BY <1>4, ClientStep
<1>5. CASE UNCHANGED vars
  <2>1. Still /\ UNCHANGED <<pc, i, rio, line, exited, net>>
    BY <1>5 DEF vars, pool, locals, process, Still
  <2>2. Grows
    BY <2>1 DEF Grows, net, Gone
  <2>3. PoolTypes' /\ StreamTypes' /\ Placed'
    BY <2>1 DEF PoolInv, PoolTypes, StreamTypes, Placed, Still, net
  <2> QED  BY <2>1, <2>2, <2>3, StillStep DEF PoolInv
<1> QED  BY <1>1, <1>2, <1>3, <1>4, <1>5 DEF Next

\* The inductive invariant of the pool (stockserver.c:54-110, 166-181).
THEOREM PoolInvariant == Spec => []PoolInv
  BY InitPoolInv, NextPoolInv, PTL DEF Spec

\* For every instance the slots, read_set, maxi and maxfd describe the descriptors
\* that are open, whatever clients come, leave and are killed.
THEOREM PoolIsConsistent == Spec => []PoolConsistent
<1>1. PoolInv => PoolConsistent
  BY DEF PoolInv
<1> QED  BY <1>1, PoolInvariant, PTL

\* For every instance nready is the number of ready clients left, and the server
\* reads only where there is something to read.
THEOREM NreadyIsExact == Spec => []ReadyExact
<1>1. PoolInv => ReadyExact
  <2>1. Todo = Rest(i)
    BY DEF Todo, Rest
  <2> QED  BY <2>1 DEF PoolInv, Counted, StayReady, ReadyExact
<1> QED  BY <1>1, PoolInvariant, PTL

-----------------------------------------------------------------------------
(* The protocol of a connection. *)

Begun(s, c) == \E r \in RequestsOf[c] : \E cut \in Cuts(r) : s = <<Line(r, cut)[1]>>
Ended(s, c) == \E r \in RequestsOf[c] : \E cut \in Cuts(r) : s = Line(r, cut)

Quiet(c) == answer[c] = None /\ outbox[c] = 0 /\ got[c] = 0

\* The pieces of the reply that res has not written.
Unwritten(c) == IF pc = "res" /\ Serving = c THEN left ELSE 0

\* What is on its way between c and the server, by what c does.
Protocol(c) ==
    /\ client[c] \in {"off", "idle", "closed"} => Stream(c) = <<>> /\ Quiet(c)
    /\ client[c] = "sending" => Begun(Stream(c), c) /\ Quiet(c)
    /\ client[c] = "waiting" =>
         \/ Ended(Stream(c), c) /\ Quiet(c)
         \/ /\ Stream(c) = <<>> /\ answer[c] # None
            /\ outbox[c] + got[c] + Unwritten(c) = ReplyLen
    /\ client[c] = "killed" => Stream(c) = <<>> \/ Begun(Stream(c), c) \/ Ended(Stream(c), c)
    /\ pc = "res" /\ Serving = c => client[c] \in {"waiting", "killed"} /\ Stream(c) = <<>>

\* A book of stocks: what stock.txt and a reply hold.
Books == UNION {[K -> AnInt] : K \in SUBSET StockKeys}
Replies == [kind : ReplyKinds, book : Books]

NetTypes ==
    /\ answer \in [Conns -> Replies \cup {None}] /\ reset \subseteq Conns
    /\ outbox \in [Conns -> 0..SockBuf] /\ got \in [Conns -> 0..(ReplyLen - 1)]
    /\ left \in 0..ReplyLen /\ (pc = "res" => left > 0)

LEMMA JointSeq ==
    ASSUME NEW a, IsSeq(a), NEW b, IsSeq(b), NEW d, IsSeq(d)
    PROVE  \E S : a \in Seq(S) /\ b \in Seq(S) /\ d \in Seq(S)
<1> DEFINE A == {a[n] : n \in DOMAIN a}
           B == {b[n] : n \in DOMAIN b}
           C == {d[n] : n \in DOMAIN d}
           S == A \cup B \cup C
<1>1. a \in Seq(A) /\ b \in Seq(B) /\ d \in Seq(C)
  BY DEF IsSeq
<1>2. A \subseteq S /\ B \subseteq S /\ C \subseteq S
  OBVIOUS
<1> HIDE DEF A, B, C, S
<1>3. a \in Seq(S) /\ b \in Seq(S) /\ d \in Seq(S)
  BY <1>1, <1>2, SeqMonotonic
<1> QED  BY <1>3

\* What c has sent, when the server does not read it and when it does.
Streams(c) ==
    /\ ~(pc = "read" /\ Serving = c) => Stream(c) = inbox[c]
    /\ pc = "read" /\ Serving = c => Stream(c) = (line \o rio) \o inbox[c]

LEMMA StreamIs ==
    ASSUME StreamTypes, NEW c \in Conns
    PROVE  Streams(c)
<1>1. IsSeq(inbox[c])
  BY DEF StreamTypes
<1>2. <<>> \o inbox[c] = inbox[c]
  BY <1>1, ConcatEmptySeq DEF IsSeq
<1> QED  BY <1>2 DEF Streams, Stream

LEMMA StreamIsNext == StreamTypes' => \A c \in Conns : Streams(c)'
<1> DEFINE P == StreamTypes
           Q == \A c \in Conns : Streams(c)
<1>1. P => Q
  BY StreamIs
<1>2. P' => Q'
  BY <1>1, PTL
<1> QED  BY <1>2

-----------------------------------------------------------------------------
(* Lines. *)

\* The head and the newline of a line of r.
Pieces(r, cut, h, t) ==
    /\ Line(r, cut) = <<h, t>> /\ IsSeq(<<h, t>>) /\ IsSeq(<<h>>)
    /\ Line(r, cut)[1] = h /\ Line(r, cut)[2] = t
    /\ ~h.end /\ h.req = r /\ h.cut = cut /\ t.end /\ t.req = r

LEMMA LineIs ==
    ASSUME NEW r, NEW cut
    PROVE  \E h, t : Pieces(r, cut, h, t)
<1> DEFINE x == [req |-> r, cut |-> cut, end |-> FALSE]
           y == [req |-> r, cut |-> Invalid, end |-> TRUE]
<1>1. PICK h : h = x
  OBVIOUS
<1>2. PICK t : t = y
  OBVIOUS
<1>3. ~h.end /\ h.req = r /\ h.cut = cut /\ t.end /\ t.req = r
  BY <1>1, <1>2
<1>4. Line(r, cut) = <<h, t>>
  BY <1>1, <1>2 DEF Line
<1> HIDE DEF x, y
<1>5. <<h, t>> \in Seq({h, t}) /\ <<h>> \in Seq({h, t}) /\ <<h, t>>[1] = h /\ <<h, t>>[2] = t
  OBVIOUS
<1>6. IsSeq(<<h, t>>) /\ IsSeq(<<h>>)
  BY <1>5, SequenceIs
<1> QED  BY <1>3, <1>4, <1>5, <1>6 DEF Pieces

\* A whole line is all there is; what is not whole is the head.
LEMMA LineOf ==
    ASSUME NEW l, IsSeq(l), NEW r, IsSeq(r), NEW b, IsSeq(b), NEW c, l # <<>>, NEW s,
           s = (l \o r) \o b, Begun(s, c) \/ Ended(s, c)
    PROVE  /\ Whole(l) => r = <<>> /\ b = <<>> /\ l = s /\ Ended(s, c)
           /\ r = <<>> /\ b = <<>> => l = s
<1>1. PICK S : l \in Seq(S) /\ r \in Seq(S) /\ b \in Seq(S)
  BY JointSeq
<1>2. /\ l \o r \in Seq(S) /\ Len(l \o r) = Len(l) + Len(r)
      /\ s \in Seq(S) /\ Len(s) = Len(l) + Len(r) + Len(b)
      /\ Len(l) \in Nat /\ Len(r) \in Nat /\ Len(b) \in Nat
  <2>1. l \o r \in Seq(S) /\ Len(l \o r) = Len(l) + Len(r)
    BY <1>1, ConcatProperties
  <2>2. s \in Seq(S) /\ Len(s) = Len(l \o r) + Len(b)
    BY <1>1, <2>1, ConcatProperties
  <2>3. Len(l) \in Nat /\ Len(r) \in Nat /\ Len(b) \in Nat
    BY <1>1, LenProperties
  <2> QED  BY <2>1, <2>2, <2>3
<1>3. Len(l) > 0
  BY <1>1, EmptySeq
<1>4. s[Len(l)] = l[Len(l)]
  <2>1. (l \o r)[Len(l)] = l[Len(l)]
    BY <1>1, <1>2, <1>3, ConcatProperties
  <2>2. s[Len(l)] = (l \o r)[Len(l)]
    BY <1>1, <1>2, <1>3, ConcatProperties
  <2> QED  BY <2>1, <2>2
<1>5. r = <<>> /\ b = <<>> => l = s
  BY <1>1, ConcatEmptySeq
<1>6. ASSUME Whole(l) PROVE r = <<>> /\ b = <<>> /\ Ended(s, c)
  <2>1. s[Len(l)].end
    BY <1>4, <1>6 DEF Whole
  <2>2. CASE Begun(s, c)
    <3>1. PICK q, cut : s = <<Line(q, cut)[1]>>
      BY <2>2 DEF Begun
    <3>7. PICK h, t : Pieces(q, cut, h, t)
      BY LineIs
    <3>2. Line(q, cut)[1] = h /\ ~h.end
      BY <3>7 DEF Pieces
    <3>3. Len(s) = 1 /\ s[1] = h
      BY <3>1, <3>2
    <3>4. Len(l) = 1
      <4>1. PICK x \in Nat : x = Len(l)
        BY <1>2
      <4>2. PICK y \in Nat : y = Len(r)
        BY <1>2
      <4>3. PICK z \in Nat : z = Len(b)
        BY <1>2
      <4>4. 1 = x + y + z /\ x > 0
        BY <1>2, <1>3, <3>3, <4>1, <4>2, <4>3
      <4> QED  BY <4>1, <4>4
    <3> QED  BY <2>1, <3>2, <3>3, <3>4
  <2>3. CASE Ended(s, c)
    <3>1. PICK q, cut : s = Line(q, cut)
      BY <2>3 DEF Ended
    <3>7. PICK h, t : Pieces(q, cut, h, t)
      BY LineIs
    <3>2. Line(q, cut) = <<h, t>> /\ ~h.end
      BY <3>7 DEF Pieces
    <3>3. Len(s) = 2 /\ s[1] = h
      BY <3>1, <3>2
    <3>4. Len(l) # 1
      BY <2>1, <3>2, <3>3
    <3>5. Len(r) = 0 /\ Len(b) = 0
      <4>1. PICK x \in Nat : x = Len(l)
        BY <1>2
      <4>2. PICK y \in Nat : y = Len(r)
        BY <1>2
      <4>3. PICK z \in Nat : z = Len(b)
        BY <1>2
      <4>4. 2 = x + y + z /\ x > 0 /\ x # 1
        BY <1>2, <1>3, <3>3, <3>4, <4>1, <4>2, <4>3
      <4> QED  BY <4>2, <4>3, <4>4
    <3>6. r = <<>> /\ b = <<>>
      BY <1>1, <3>5, EmptySeq
    <3> QED  BY <2>3, <3>6
  <2> QED  BY <2>2, <2>3
<1> QED  BY <1>5, <1>6

-----------------------------------------------------------------------------
(* The treap in memory and the stocks in the file. *)

BookTypes ==
    /\ DOMAIN nodes \subseteq StockKeys /\ nodes \in Tables(DOMAIN nodes)
    /\ Tree(nodes, root, DOMAIN nodes)
    /\ \A k \in DOMAIN nodes : nodes[k].left_stock \in AnInt
    /\ stock_txt \in Books

\* What the treap of stocks is for those that use it.
Searchable ==
    /\ KeySet(DOMAIN nodes) /\ Forest(nodes, DOMAIN nodes)
    /\ KeysOf(nodes, root) = DOMAIN nodes /\ root \in DOMAIN nodes \cup {NULL}
    /\ \A k \in Int : FindKey(nodes, root, k) = IF k \in DOMAIN nodes THEN k ELSE NULL

LEMMA TreapIsSearchable ==
    ASSUME BookTypes
    PROVE  Searchable
<1> DEFINE D == DOMAIN nodes
<1>1. KeySet(D)
  <2>1. IsFiniteSet(StockKeys) /\ D \in SUBSET StockKeys /\ StockKeys \subseteq Int
        /\ NULL \notin StockKeys
    BY EventServerAssumption DEF BookTypes
  <2>2. IsFiniteSet(D)
    BY <2>1, FS_Subset
  <2> QED  BY <2>1, <2>2 DEF KeySet
<1>2. nodes \in Tables(D) /\ Tree(nodes, root, D)
  BY DEF BookTypes
<1>3. root \in D \cup {NULL}
  BY <1>2 DEF Tree
<1> HIDE DEF D
<1>4. \A k \in D \ D : D = D \cup {k} /\ nodes[k].left # k /\ nodes[k].right # k
  OBVIOUS
<1>5. Forest(nodes, D)
  BY <1>1, <1>2, <1>4, TreeForest
<1>6. KeysOf(nodes, root) = D
  BY <1>1, <1>2, <1>5, KeysOfIs
<1>7. \A k \in Int : FindKey(nodes, root, k) = IF k \in D THEN k ELSE NULL
  BY <1>1, <1>2, <1>5, FindKeyIs
<1> QED  BY <1>1, <1>3, <1>5, <1>6, <1>7 DEF Searchable, D

\* A line of stock.txt more.
Loaded ==
    \E k \in DOMAIN stock_txt \ DOMAIN nodes :
      /\ DOMAIN nodes' = DOMAIN nodes \cup {k} /\ nodes'[k].left_stock = stock_txt[k]
      /\ \A m \in DOMAIN nodes : nodes'[m].left_stock = nodes[m].left_stock

LEMMA LoadBook ==
    ASSUME BookTypes, Load
    PROVE  BookTypes' /\ Loaded
<1>1. PICK k \in DOMAIN stock_txt \ DOMAIN nodes, p \in Priorities :
        LET grown == [x \in DOMAIN nodes \cup {k} |->
                        IF x = k THEN InitNode(stock_txt[k], p) ELSE nodes[x]]
            r == Insert(grown, root, k)
        IN nodes' = r.t /\ root' = r.root
  BY DEF Load
<1> DEFINE D == DOMAIN nodes
           E == D \cup {k}
           grown == [x \in E |-> IF x = k THEN InitNode(stock_txt[k], p) ELSE nodes[x]]
           r == Insert(grown, root, k)
<1>2. nodes' = r.t /\ root' = r.root
  BY <1>1
<1>3. k \in StockKeys /\ stock_txt[k] \in AnInt /\ stock_txt' = stock_txt
  BY DEF BookTypes, Books, Load, process
<1>4. p \in Int /\ AnInt \subseteq Int
  BY EventServerAssumption, StockRequestsAssumption DEF AnInt
<1>5. KeySet(D) /\ KeySet(E) /\ k \notin D /\ k \in E /\ D \in SUBSET E /\ E \subseteq StockKeys
  <2>1. KeySet(D)
    BY TreapIsSearchable DEF Searchable
  <2>2. IsFiniteSet(E)
    BY <2>1, FS_AddElement DEF KeySet
  <2>3. E \subseteq StockKeys /\ k \notin D
    BY <1>3 DEF BookTypes
  <2> QED  BY <2>1, <2>2, <2>3, EventServerAssumption DEF KeySet
<1>6. InitNode(stock_txt[k], p) \in NodesOver(E)
  <2>1. PICK v \in Int : v = stock_txt[k]
    BY <1>3, <1>4
  <2>2. PICK q \in Int : q = p
    BY <1>4
  <2> HIDE DEF E
  <2>3. InitNode(v, q) \in NodesOver(E)
    BY DEF InitNode, NodesOver
  <2> QED  BY <2>1, <2>2, <2>3
<1>7. \A m \in D : nodes[m] \in NodesOver(E)
  BY <1>5 DEF BookTypes, Tables, NodesOver
<1>8. /\ grown \in Tables(E) /\ grown[k] = InitNode(stock_txt[k], p)
      /\ \A m \in D : grown[m] = nodes[m]
  <2> HIDE DEF D
  <2> QED  BY <1>5, <1>6, <1>7 DEF Tables
<1>9. Tree(nodes, root, D)
  BY DEF BookTypes
<1> HIDE DEF D, E, grown
<1>10. Tree(grown, root, D)
  BY <1>5, <1>8, <1>9, TreeStays DEF SameNode, KeySet
<1>11. /\ grown[k].left = NULL /\ grown[k].right = NULL /\ grown[k].size = 1
       /\ grown[k].left_stock = stock_txt[k]
  BY <1>8 DEF InitNode
<1>12. Forest(grown, E)
  <2>1. \A x \in E \ D : E = D \cup {x} /\ grown[x].left # x /\ grown[x].right # x
    BY <1>5, <1>11 DEF E, KeySet
  <2> QED  BY <1>5, <1>8, <1>10, <2>1, TreeForest
<1>13. Planted(r, grown, E, E)
  <2>1. Planted(Insert(grown, root, k), grown, E, D \cup {k})
    BY <1>5, <1>8, <1>10, <1>11, <1>12, InsertIs
  <2> QED  BY <2>1 DEF E
<1> HIDE DEF r
<1>14. nodes' \in Tables(E) /\ Tree(nodes', root', E)
       /\ \A m \in E : nodes'[m].left_stock = grown[m].left_stock
  BY <1>2, <1>13 DEF Planted, Relinks
<1>15. DOMAIN nodes' = E
  BY <1>14 DEF Tables
<1>16. \A m \in D : nodes'[m].left_stock = nodes[m].left_stock
  BY <1>5, <1>8, <1>14
<1>17. nodes'[k].left_stock = stock_txt[k]
  BY <1>5, <1>11, <1>14
<1>18. \A m \in E : nodes'[m].left_stock \in AnInt
  BY <1>3, <1>16, <1>17 DEF E, D, BookTypes
<1>19. stock_txt' \in Books
  BY <1>3 DEF BookTypes
<1>20. BookTypes'
  BY <1>5, <1>14, <1>15, <1>18, <1>19 DEF BookTypes, AnInt, Books
<1>21. Loaded
  BY <1>15, <1>16, <1>17 DEF Loaded, D, E
<1> QED  BY <1>20, <1>21

LEMMA WrapIsAnInt == \A x \in Int : Wrap(x) \in AnInt
<1> SUFFICES ASSUME NEW x \in Int PROVE Wrap(x) \in AnInt
  OBVIOUS
<1> DEFINE n == 2 * HalfRange
<1>1. HalfRange \in Nat \ {0} /\ n \in Nat \ {0}
  BY StockRequestsAssumption
<1>2. (x + HalfRange) % n \in 0..(n - 1)
  <2> HIDE DEF n
  <2> QED  BY <1>1
<1> DEFINE r == (x + HalfRange) % n
<1>3. r \in Int /\ 0 <= r /\ r <= 2 * HalfRange - 1
  BY <1>1, <1>2
<1>4. Wrap(x) = r - HalfRange
  BY DEF Wrap
<1> HIDE DEF r, n
<1> QED  BY <1>1, <1>3, <1>4 DEF AnInt

\* A node's stock changes, and nothing else of the treap.
Traded(r) ==
    /\ DOMAIN nodes' = DOMAIN nodes
    /\ \A k \in DOMAIN nodes :
         nodes'[k].left_stock = IF r.op \in {"buy", "sell"} /\ k = r.key
                                THEN NewLeft(r, nodes[k].left_stock) ELSE nodes[k].left_stock

LEMMA CarryBook ==
    ASSUME BookTypes, NEW r \in AnyRequest, Carry(r), root' = root, stock_txt' = stock_txt
    PROVE  BookTypes' /\ Traded(r)
<1> DEFINE D == DOMAIN nodes
           n == FindKey(nodes, root, r.key)
<1>1. r.key \in Int /\ r.n \in Int
  BY DEF AnyRequest
<1>2. n = IF r.key \in D THEN r.key ELSE NULL
  BY <1>1, TreapIsSearchable DEF Searchable
<1>3. NULL \notin D /\ KeySet(D)
  BY TreapIsSearchable DEF Searchable, KeySet
<1>4. nodes' = IF r.op \in {"buy", "sell"} /\ n # NULL
               THEN [nodes EXCEPT ![n].left_stock = NewLeft(r, @)] ELSE nodes
  BY DEF Carry
<1> HIDE DEF n
<1>5. CASE ~(r.op \in {"buy", "sell"} /\ r.key \in D)
  <2>1. nodes' = nodes
    BY <1>2, <1>4, <1>5
  <2>2. Traded(r)
    BY <1>5, <2>1 DEF Traded
  <2>3. BookTypes'
    BY <2>1 DEF BookTypes, AnInt, Books
  <2> QED  BY <2>2, <2>3
<1>6. CASE r.op \in {"buy", "sell"} /\ r.key \in D
  <2>1. PICK k : k = r.key
    OBVIOUS
  <2>2. k \in D /\ k # NULL /\ n = k
    BY <1>2, <1>3, <1>6, <2>1
  <2>3. PICK v : v = NewLeft(r, nodes[k].left_stock)
    OBVIOUS
  <2>4. nodes' = [nodes EXCEPT ![k].left_stock = v]
    BY <1>4, <1>6, <2>2, <2>3
  <2>5. nodes[k].left_stock \in AnInt /\ AnInt \subseteq Int
    BY <2>2, StockRequestsAssumption DEF BookTypes, AnInt
  <2>6. v \in AnInt /\ v \in Int
    <3>1. nodes[k].left_stock - r.n \in Int /\ nodes[k].left_stock + r.n \in Int
      <4>1. PICK x \in Int : x = nodes[k].left_stock
        BY <2>5
      <4>2. PICK y \in Int : y = r.n
        BY <1>1
      <4> QED  BY <4>1, <4>2
    <3>2. Wrap(nodes[k].left_stock - r.n) \in AnInt /\ Wrap(nodes[k].left_stock + r.n) \in AnInt
      BY <3>1, WrapIsAnInt
    <3> QED  BY <2>3, <2>5, <3>2 DEF NewLeft
  <2>7. nodes \in Tables(D)
    BY DEF BookTypes
  <2> HIDE DEF D
  <2>8. /\ nodes' \in Tables(D) /\ \A m \in D : m # k => nodes'[m] = nodes[m]
        /\ nodes'[k] = [nodes[k] EXCEPT !.left_stock = v]
    BY <2>2, <2>4, <2>6, <2>7 DEF Tables, NodesOver
  <2>9. nodes[k] \in NodesOver(D)
    BY <2>2, <2>7 DEF Tables
  <2>10. SameNode(nodes', nodes, k) /\ nodes'[k].left_stock = v
    BY <2>8, <2>9 DEF SameNode, NodesOver
  <2>11. \A m \in D : SameNode(nodes', nodes, m)
    BY <2>8, <2>10 DEF SameNode
  <2>12. Tree(nodes', root', D)
    <3>1. Tree(nodes, root, D)
      BY DEF BookTypes, D
    <3> QED  BY <1>3, <2>11, <3>1, TreeStays
  <2>13. DOMAIN nodes' = D
    BY <2>8 DEF Tables
  <2>14. \A m \in D : nodes'[m].left_stock \in AnInt
    BY <2>6, <2>8, <2>10 DEF BookTypes, D
  <2>15. BookTypes'
    BY <2>8, <2>12, <2>13, <2>14 DEF BookTypes, AnInt, Books, D
  <2>16. Traded(r)
    BY <1>6, <2>1, <2>3, <2>8, <2>10, <2>13 DEF Traded, D
  <2> QED  BY <2>15, <2>16
<1> QED  BY <1>5, <1>6

LEMMA SigintBook ==
    ASSUME BookTypes, Sigint
    PROVE  BookTypes' /\ stock_txt' = [k \in DOMAIN nodes |-> nodes[k].left_stock]
<1>1. stock_txt' = [k \in DOMAIN nodes |-> nodes[k].left_stock]
  BY TreapIsSearchable DEF Sigint, Save, Searchable
<1>2. stock_txt' \in Books
  BY <1>1 DEF BookTypes, Books
<1>3. UNCHANGED treap
  BY DEF Sigint
<1> QED  BY <1>1, <1>2, <1>3 DEF BookTypes, treap, AnInt, Books

LEMMA NoTreeIs == DOMAIN NoTree = {} /\ NoTree \in Tables(DOMAIN NoTree) /\ Tree(NoTree, NULL, DOMAIN NoTree)
<1>1. DOMAIN NoTree = {} /\ NoTree \in Tables(DOMAIN NoTree)
  BY DEF NoTree, Tables
<1>2. Tree(NoTree, NULL, {})
  BY TreeNull
<1> QED  BY <1>1, <1>2

LEMMA RestartBook ==
    ASSUME BookTypes, Restart
    PROVE  BookTypes' /\ DOMAIN nodes' = {} /\ stock_txt' = stock_txt
<1>1. nodes' = NoTree /\ root' = NULL /\ stock_txt' = stock_txt
  BY DEF Restart
<1> QED  BY <1>1, NoTreeIs DEF BookTypes, AnInt, Books

LEMMA InitBook == Init => BookTypes
<1> SUFFICES ASSUME Init PROVE BookTypes
  OBVIOUS
<1>1. nodes = NoTree /\ root = NULL /\ stock_txt = InitStock
  BY DEF Init
<1>2. InitStock \in Books
  BY EventServerAssumption DEF Books, AnInt
<1> QED  BY <1>1, <1>2, NoTreeIs DEF BookTypes

-----------------------------------------------------------------------------
(* Streams. *)

LEMMA ConcatIs ==
    ASSUME NEW a, IsSeq(a), NEW b, IsSeq(b), NEW d, IsSeq(d)
    PROVE  /\ <<>> \o a = a /\ a \o <<>> = a
           /\ (a \o b) \o <<>> = a \o b /\ (a \o <<>>) \o b = a \o b
           /\ IsSeq(a \o b) /\ IsSeq((a \o b) \o d)
           /\ (a \o b) \o d = <<>> <=> a = <<>> /\ b = <<>> /\ d = <<>>
<1>1. PICK S : a \in Seq(S) /\ b \in Seq(S) /\ d \in Seq(S)
  BY JointSeq
<1>2. a \o b \in Seq(S) /\ (a \o b) \o d \in Seq(S)
  <2>1. a \o b \in Seq(S)
    BY <1>1, ConcatProperties
  <2> QED  BY <1>1, <2>1, ConcatProperties
<1>3. <<>> \o a = a /\ a \o <<>> = a
  BY <1>1, ConcatEmptySeq
<1>4. (a \o b) \o <<>> = a \o b
  BY <1>2, ConcatEmptySeq
<1>5. (a \o b) \o d = <<>> <=> a = <<>> /\ b = <<>> /\ d = <<>>
  BY <1>1, <1>2, ConcatEqualIffEmpty
<1> QED  BY <1>2, <1>3, <1>4, <1>5, SequenceIs

LEMMA AppendedIs ==
    ASSUME NEW a, IsSeq(a), NEW b, IsSeq(b), NEW e
    PROVE  a \o Append(b, e) = Append(a \o b, e)
<1>1. PICK S : a \in Seq(S) /\ b \in Seq(S)
  BY JointSeq, EmptyIs
<1> DEFINE T == S \cup {e}
<1>2. a \in Seq(T) /\ b \in Seq(T) /\ e \in T
  BY <1>1, SeqMonotonic
<1> HIDE DEF T
<1>3. a \o b \in Seq(T) /\ <<e>> \in Seq(T)
  BY <1>2, ConcatProperties
<1>4. Append(b, e) = b \o <<e>> /\ Append(a \o b, e) = (a \o b) \o <<e>>
  BY <1>2, <1>3, AppendIsConcat
<1>5. (a \o b) \o <<e>> = a \o (b \o <<e>>)
  BY <1>2, <1>3, ConcatAssociative
<1> QED  BY <1>4, <1>5

\* rio_readlineb loses nothing of a buffer.
LEMMA TakenIs ==
    ASSUME NEW l, IsSeq(l), NEW r, IsSeq(r), NEW n \in 1..Len(r)
    PROVE  (l \o SubSeq(r, 1, n)) \o SubSeq(r, n + 1, Len(r)) = l \o r
<1>1. PICK S : l \in Seq(S) /\ r \in Seq(S)
  BY JointSeq, EmptyIs
<1>2. Len(r) \in Nat
  BY <1>1, LenProperties
<1>3. SubSeq(r, 1, n) \o SubSeq(r, n + 1, Len(r)) = r
  <2>1. SubSeq(r, 1, n) \o SubSeq(r, n + 1, Len(r)) = SubSeq(r, 1, Len(r))
    <3>1. 1 \in 1..(Len(r) + 1) /\ n \in (1 - 1)..Len(r) /\ Len(r) \in n..Len(r)
      BY <1>2
    <3> QED  BY <1>1, <3>1, ConcatAdjacentSubSeq
  <2> QED  BY <1>1, <2>1, SubSeqFull
<1>4. SubSeq(r, 1, n) \in Seq(S) /\ SubSeq(r, n + 1, Len(r)) \in Seq(S)
  BY <1>1, <1>2
<1>5. PICK a \in Seq(S) : a = SubSeq(r, 1, n)
  BY <1>4
<1>6. PICK b \in Seq(S) : b = SubSeq(r, n + 1, Len(r))
  BY <1>4
<1>7. (l \o a) \o b = l \o (a \o b)
  BY <1>1, ConcatAssociative
<1> QED  BY <1>3, <1>5, <1>6, <1>7

-----------------------------------------------------------------------------
(* Steps that c does not notice. *)

SameAt(c) ==
    /\ client'[c] = client[c] /\ answer'[c] = answer[c]
    /\ outbox'[c] = outbox[c] /\ got'[c] = got[c]

SameLink(c) ==
    /\ SameAt(c) /\ Stream(c)' = Stream(c) /\ Unwritten(c)' = Unwritten(c)
    /\ pc' = "res" /\ Serving' = c => pc = "res" /\ Serving = c

LEMMA LinkStays ==
    ASSUME NEW c \in Conns, SameLink(c)
    PROVE  /\ Pending(c)' = Pending(c) /\ answer'[c] = answer[c]
           /\ Protocol(c) => Protocol(c)'
<1>1. SameAt(c) /\ Stream(c)' = Stream(c) /\ Unwritten(c)' = Unwritten(c)
  BY DEF SameLink
<1>2. Pending(c)' = Pending(c)
  BY <1>1 DEF Pending, SameAt
<1>3. ASSUME Protocol(c) PROVE Protocol(c)'
  BY <1>1, <1>3 DEF Protocol, SameAt, SameLink, Quiet
<1> QED  BY <1>1, <1>2, <1>3 DEF SameAt

LEMMA StayLinks ==
    ASSUME UNCHANGED <<pc, i, clientfd, conn, line, rio, left>>, NEW c \in Conns,
           inbox'[c] = inbox[c], SameAt(c)
    PROVE  SameLink(c)
  BY DEF SameLink, Stream, Unwritten, Serving

LEMMA AwayLinks ==
    ASSUME ~Serves, ~Serves', NEW c \in Conns, inbox'[c] = inbox[c], SameAt(c)
    PROVE  SameLink(c)
  BY DEF SameLink, Stream, Unwritten, Serves

LEMMA ServeLinks ==
    ASSUME Serves, Serves' => Serving' = Serving, NEW c \in Conns, c # Serving,
           inbox'[c] = inbox[c], SameAt(c)
    PROVE  SameLink(c)
  BY DEF SameLink, Stream, Unwritten, Serves

LEMMA NextClientLinks ==
    ASSUME NextClient, StreamTypes, NEW c \in Conns
    PROVE  SameLink(c)
<1>1. /\ pc = "check" /\ pc' = "read" /\ line' = <<>> /\ rio' = <<>>
      /\ UNCHANGED <<inbox, client, answer, outbox, got>>
  BY DEF NextClient, Goto, Readinitb, net
<1>2. <<>> \o <<>> = <<>>
  BY ConcatIs, EmptyIs
<1>3. Stream(c) = <<>> \o inbox[c]
  BY <1>1 DEF Stream
<1>4. Stream(c)' = <<>> \o inbox[c]
  BY <1>1, <1>2 DEF Stream
<1> QED  BY <1>1, <1>3, <1>4 DEF SameLink, SameAt, Unwritten

LEMMA RefillLinks ==
    ASSUME Refill, PoolInv, NEW c \in Conns
    PROVE  SameLink(c)
<1>1. /\ pc = "read" /\ pc' = "read" /\ rio = <<>> /\ rio' = inbox[Serving]
      /\ inbox' = [inbox EXCEPT ![Serving] = <<>>]
      /\ UNCHANGED <<line, i, clientfd, conn, client, answer, outbox, got>>
  BY DEF Refill, Goto, pool
<1>2. Serving' = Serving /\ SameAt(c) /\ Unwritten(c) = Unwritten(c)'
  BY <1>1 DEF Serving, SameAt, Unwritten
<1>3. CASE c # Serving
  BY <1>1, <1>2, <1>3, ServeLinks DEF Serves
<1>4. CASE c = Serving
  <2>1. IsSeq(line) /\ IsSeq(inbox[c]) /\ inbox = [d \in Conns |-> inbox[d]]
    BY DEF PoolInv, StreamTypes
  <2>2. Stream(c) = (line \o <<>>) \o inbox[c]
    BY <1>1, <1>4 DEF Stream
  <2>3. Stream(c)' = (line \o inbox[c]) \o <<>>
    BY <1>1, <1>2, <1>4, <2>1 DEF Stream
  <2>4. (line \o <<>>) \o inbox[c] = (line \o inbox[c]) \o <<>>
    BY <2>1, ConcatIs
  <2> QED  BY <1>1, <1>2, <2>2, <2>3, <2>4 DEF SameLink
<1> QED  BY <1>3, <1>4

LEMMA ReadLineLinks ==
    ASSUME ReadLine, PoolInv, NEW c \in Conns
    PROVE  SameLink(c)
<1> DEFINE ends == {m \in DOMAIN rio : rio[m].end}
           n == IF ends = {} THEN Len(rio) ELSE Min(ends)
<1>1. /\ pc = "read" /\ pc' = "read" /\ rio # <<>>
      /\ line' = line \o SubSeq(rio, 1, n) /\ rio' = SubSeq(rio, n + 1, Len(rio))
      /\ UNCHANGED <<i, clientfd, conn, inbox, client, answer, outbox, got>>
  BY DEF ReadLine, Goto, pool, net
<1>2. IsSeq(line) /\ IsSeq(rio)
  BY DEF PoolInv, StreamTypes
<1>3. n \in 1..Len(rio)
  <2>1. DOMAIN rio = 1..Len(rio) /\ Len(rio) \in Nat \ {0}
    BY <1>1, <1>2 DEF IsSeq
  <2>2. CASE ends = {}
    BY <2>1, <2>2
  <2>3. CASE ends # {}
    <3>1. ends \in SUBSET (1..Len(rio))
      BY <2>1
    <3>2. IsFiniteSet(1..Len(rio)) /\ 1..Len(rio) \in SUBSET Int
      BY <2>1, FS_Interval
    <3>3. IsFiniteSet(ends) /\ ends \in SUBSET Int
      BY <3>1, <3>2, FS_Subset
    <3>4. \E x \in ends : \A y \in ends : x <= y
      BY <2>3, <3>3, LeastInteger
    <3>5. Min(ends) \in ends
      BY <3>4 DEF Min
    <3> QED  BY <2>3, <3>1, <3>5
  <2> QED  BY <2>2, <2>3
<1> HIDE DEF n
<1>4. line' \o rio' = line \o rio
  BY <1>1, <1>2, <1>3, TakenIs
<1>5. Serving' = Serving
  BY <1>1 DEF Serving
<1>6. Stream(c)' = Stream(c)
  BY <1>1, <1>4, <1>5 DEF Stream
<1> QED  BY <1>1, <1>5, <1>6 DEF SameLink, SameAt, Unwritten

\* Whoever closes a connection that is at its end learns nothing.
LEMMA ReqEofLinks ==
    ASSUME ReqEof, PoolInv, NEW c \in Conns
    PROVE  SameLink(c)
<1>1. /\ pc = "read" /\ pc' = "check" /\ rio = <<>> /\ line = <<>> /\ Eof(Serving)
      /\ client' = [client EXCEPT ![Serving] = IF @ = "waiting" THEN "closed" ELSE @]
      /\ UNCHANGED <<inbox, answer, outbox, got>>
  BY DEF ReqEof, Goto, Close
<1>2. client = [d \in Conns |-> client[d]]
  BY DEF PoolInv, PoolTypes
<1>3. SameAt(c)
  BY <1>1, <1>2 DEF SameAt, Eof, Gone
<1>4. CASE c # Serving
  BY <1>1, <1>3, <1>4, ServeLinks DEF Serves
<1>5. CASE c = Serving
  <2>1. inbox[c] = <<>>
    BY <1>1, <1>5 DEF Eof
  <2>2. <<>> \o <<>> = <<>>
    BY ConcatIs, EmptyIs
  <2>3. Stream(c) = <<>> /\ Stream(c)' = <<>>
    BY <1>1, <1>5, <2>1, <2>2 DEF Stream
  <2> QED  BY <1>1, <1>3, <2>3 DEF SameLink, Unwritten
<1> QED  BY <1>4, <1>5

\* What the connections do not notice.
Unseen ==
    \/ Load \/ InitPool \/ Select \/ Accept \/ TooMany \/ NextClient \/ RoundDone
    \/ Refill \/ ReadLine \/ ReadError \/ ReqEof \/ WriteError \/ Sigint \/ UNCHANGED vars

LEMMA UnseenLinks ==
    ASSUME PoolInv, Unseen, NEW c \in Conns
    PROVE  SameLink(c)
<1>1. CASE Load \/ InitPool \/ Select \/ Accept \/ RoundDone
  <2>1. ~Serves /\ ~Serves'
    BY <1>1 DEF Load, InitPool, Select, Accept, RoundDone, Goto, Serves
  <2>2. UNCHANGED <<inbox, client, answer, outbox, got>>
    BY <1>1 DEF Load, InitPool, Select, Accept, RoundDone, net
  <2> QED  BY <2>1, <2>2, AwayLinks DEF SameAt
<1>2. CASE TooMany \/ ReadError \/ WriteError \/ Sigint \/ UNCHANGED vars
  <2>1. UNCHANGED <<pc, i, clientfd, conn, line, rio, left, inbox, client, answer, outbox, got>>
    BY <1>2 DEF TooMany, ReadError, WriteError, Sigint, vars, pool, locals, net, Goto
  <2> QED  BY <2>1, StayLinks DEF SameAt
<1>3. StreamTypes
  BY DEF PoolInv
<1> QED  BY <1>1, <1>2, <1>3, NextClientLinks, RefillLinks, ReadLineLinks, ReqEofLinks
         DEF Unseen

-----------------------------------------------------------------------------
(* Requests. *)

AllRequests == UNION {{r} \cup Cuts(r) : r \in UNION {RequestsOf[c] : c \in Conns}}

LEMMA ShortIsInt == \A m \in Int : Short(m, 10) \in Int /\ Short(m, 100) \in Int
<1> SUFFICES ASSUME NEW m \in Int PROVE Short(m, 10) \in Int /\ Short(m, 100) \in Int
  OBVIOUS
<1>1. m \div 10 \in Int /\ m \div 100 \in Int
  OBVIOUS
<1>2. PICK k \in Int : k = -m
  OBVIOUS
<1>3. k \div 10 \in Int /\ k \div 100 \in Int
  OBVIOUS
<1>4. -(k \div 10) \in Int /\ -(k \div 100) \in Int
  BY <1>3
<1> QED  BY <1>1, <1>2, <1>4 DEF Short

LEMMA RequestsAre ==
    ASSUME NEW c \in Conns, NEW r \in RequestsOf[c]
    PROVE  /\ r \in AnyRequest /\ r # None /\ r \in AllRequests
           /\ \A cut \in Cuts(r) : cut \in AnyRequest /\ cut # None /\ cut \in AllRequests
<1>1. r \in AnyRequest /\ \A q \in AnyRequest : q # None
  BY EventServerAssumption
<1>2. ASSUME NEW cut \in Cuts(r) PROVE cut \in AnyRequest
  <2>1. CASE cut = Invalid
    BY <2>1 DEF Invalid, AnyRequest, Ops
  <2>2. CASE cut # Invalid
    <3>1. PICK m \in {Short(r.n, 10), Short(r.n, 100)} : cut = [r EXCEPT !.n = m]
      BY <2>2 DEF Cuts
    <3>2. m \in Int
      BY <1>1, <3>1, ShortIsInt DEF AnyRequest
    <3> QED  BY <1>1, <3>1, <3>2 DEF AnyRequest
  <2> QED  BY <2>1, <2>2
<1>3. r \in AllRequests /\ \A cut \in Cuts(r) : cut \in AllRequests
  BY DEF AllRequests
<1> QED  BY <1>1, <1>2, <1>3

\* What is on its way of a request that is not complete.
HeadOf(s, c) ==
    /\ s # <<>> /\ ~Whole(s) /\ IsSeq(s)
    /\ s[1].cut \in AnyRequest /\ s[1].cut # None /\ s[1].cut \in AllRequests

LEMMA BegunIs ==
    ASSUME NEW c \in Conns, NEW s, Begun(s, c)
    PROVE  HeadOf(s, c)
<1>0. PICK r \in RequestsOf[c] : \E cut \in Cuts(r) : s = <<Line(r, cut)[1]>>
  BY DEF Begun
<1>1. PICK cut \in Cuts(r) : s = <<Line(r, cut)[1]>>
  BY <1>0
<1>2. PICK h, t : Pieces(r, cut, h, t)
  BY LineIs
<1>3. s = <<h>> /\ IsSeq(s) /\ ~h.end /\ h.cut = cut
  BY <1>1, <1>2 DEF Pieces
<1>4. s # <<>> /\ Len(s) = 1 /\ s[1] = h
  BY <1>3
<1>5. ~Whole(s)
  BY <1>3, <1>4 DEF Whole
<1>6. cut \in AnyRequest /\ cut # None /\ cut \in AllRequests
  BY RequestsAre
<1> QED  BY <1>3, <1>4, <1>5, <1>6 DEF HeadOf

\* A request that is complete.
WholeOf(s, c) ==
    /\ s # <<>> /\ Whole(s) /\ IsSeq(s)
    /\ s[Len(s)].req \in AnyRequest /\ s[Len(s)].req # None /\ s[Len(s)].req \in AllRequests

LEMMA EndedIs ==
    ASSUME NEW c \in Conns, NEW s, Ended(s, c)
    PROVE  WholeOf(s, c)
<1>0. PICK r \in RequestsOf[c] : \E cut \in Cuts(r) : s = Line(r, cut)
  BY DEF Ended
<1>1. PICK cut \in Cuts(r) : s = Line(r, cut)
  BY <1>0
<1>2. PICK h, t : Pieces(r, cut, h, t)
  BY LineIs
<1>3. s = <<h, t>> /\ IsSeq(s) /\ t.end /\ t.req = r
  BY <1>1, <1>2 DEF Pieces
<1>4. s # <<>> /\ Len(s) = 2 /\ s[2] = t
  BY <1>3
<1>5. Whole(s) /\ s[Len(s)].req = r
  BY <1>3, <1>4 DEF Whole
<1>6. r \in AnyRequest /\ r # None /\ r \in AllRequests
  BY RequestsAre
<1> QED  BY <1>3, <1>4, <1>5, <1>6 DEF WholeOf

-----------------------------------------------------------------------------
(* A line is carried out. *)

\* The server has the whole of what c has sent in its hands.
Served(c) ==
    /\ c \in Conns /\ c = Serving /\ rio = <<>> /\ inbox[c] = <<>> /\ Stream(c) = line
    /\ client[c] \in {"waiting", "killed"} /\ (client[c] = "waiting" => Quiet(c))
    /\ Pending(c) = Parse(line) /\ Parse(line) \in AnyRequest /\ Parse(line) # None

LEMMA LineServed ==
    ASSUME PoolInv, Protocol(Serving), pc = "read", LineRead
    PROVE  Served(Serving)
<1>1. PICK c \in Conns : c = Serving
  BY TheServed DEF Serves
<1>2. PICK l : l = line
  OBVIOUS
<1>3. PICK r : r = rio
  OBVIOUS
<1>4. PICK b : b = inbox[c]
  OBVIOUS
<1>5. IsSeq(l) /\ IsSeq(r) /\ IsSeq(b)
  BY <1>2, <1>3, <1>4 DEF PoolInv, StreamTypes
<1>6. PICK s : s = Stream(c)
  OBVIOUS
<1>7. s = (l \o r) \o b
  BY <1>1, <1>2, <1>3, <1>4, <1>6 DEF Stream
<1>8. l # <<>>
  BY <1>2 DEF LineRead, Whole
<1>9. s # <<>>
  BY <1>5, <1>7, <1>8, ConcatIs
<1>10. client[c] \in {"sending", "waiting", "killed"}
  <2>1. client[c] \in {"off", "idle", "sending", "waiting", "closed", "killed"}
    BY DEF PoolInv, PoolTypes
  <2>2. client[c] \notin {"off", "idle", "closed"}
    BY <1>1, <1>6, <1>9 DEF Protocol
  <2> QED  BY <2>1, <2>2
<1>11. Begun(s, c) \/ Ended(s, c)
  BY <1>1, <1>6, <1>9, <1>10 DEF Protocol
<1>12. Whole(l) => r = <<>> /\ b = <<>> /\ l = s /\ Ended(s, c)
  BY <1>5, <1>7, <1>8, <1>11, LineOf
<1>13. r = <<>> /\ b = <<>> => l = s
  BY <1>5, <1>7, <1>8, <1>11, LineOf
<1>14. CASE Whole(l)
  <2>1. WholeOf(s, c) /\ Ended(s, c)
    BY <1>12, <1>14, EndedIs
  <2>2. client[c] # "sending"
    <3>1. ~Begun(s, c)
      BY <2>1, BegunIs DEF HeadOf, WholeOf
    <3> QED  BY <1>1, <1>6, <3>1 DEF Protocol
  <2>3. client[c] = "waiting" => Quiet(c)
    BY <1>1, <1>6, <1>9 DEF Protocol
  <2>4. Pending(c) = s[Len(s)].req /\ Parse(line) = s[Len(s)].req
    BY <1>2, <1>6, <1>9, <1>12, <1>14 DEF Pending, Parse
  <2> QED  BY <1>1, <1>2, <1>3, <1>4, <1>6, <1>10, <1>12, <1>14, <2>1, <2>2, <2>3, <2>4
           DEF Served, WholeOf
<1>15. CASE ~Whole(l)
  <2>1. r = <<>> /\ b = <<>> /\ Gone(c)
    BY <1>1, <1>2, <1>3, <1>4, <1>15 DEF LineRead, Eof
  <2>2. l = s
    BY <1>13, <2>1
  <2>3. client[c] = "killed"
    BY <1>10, <2>1 DEF Gone
  <2>4. HeadOf(s, c)
    BY <1>11, <1>15, <2>2, EndedIs, BegunIs DEF WholeOf
  <2>5. Pending(c) = s[1].cut /\ Parse(line) = s[1].cut
    BY <1>2, <1>6, <1>9, <1>15, <2>2, <2>3 DEF Pending, Parse
  <2> QED  BY <1>1, <1>2, <1>3, <1>4, <1>6, <2>1, <2>2, <2>3, <2>4, <2>5 DEF Served, HeadOf
<1> QED  BY <1>14, <1>15

\* What Serving c has become.
Carried(c) ==
    /\ c \in Conns /\ Protocol(c)' /\ Pending(c)' = None
    /\ \A d \in Conns : d # c => SameLink(d)

LEMMA ReplyIs ==
    ASSUME BookTypes, NEW r \in AnyRequest
    PROVE  Reply(r) \in Replies /\ Reply(r) # None
<1>1. \A a \in Replies : a # None
  <2> SUFFICES ASSUME NEW kind \in ReplyKinds, NEW book \in Books
               PROVE  [kind |-> kind, book |-> book] # None
    BY DEF Replies
  <2>1. book \in UNION {[K -> Int] : K \in SUBSET StockKeys}
    <3>1. PICK K \in SUBSET StockKeys : book \in [K -> AnInt]
      BY DEF Books
    <3>2. AnInt \subseteq Int
      BY StockRequestsAssumption DEF AnInt
    <3>3. book \in [K -> Int]
      BY <3>1, <3>2
    <3> QED  BY <3>3
  <2>2. [kind |-> kind, book |-> book] \in AnyReply
    BY <2>1 DEF AnyReply
  <2> QED  BY <2>2, EventServerAssumption
<1> DEFINE shown == [k \in DOMAIN nodes |-> nodes[k].left_stock]
<1>2. KeysOf(nodes, root) = DOMAIN nodes
  BY TreapIsSearchable DEF Searchable
<1>3. shown \in [DOMAIN nodes -> AnInt] /\ DOMAIN nodes \in SUBSET StockKeys
  BY DEF BookTypes
<1>4. shown \in Books
  BY <1>3 DEF Books
<1>5. EmptyBook \in Books
  <2>1. EmptyBook \in [{} -> AnInt] /\ {} \in SUBSET StockKeys
    BY DEF EmptyBook
  <2> QED  BY <2>1 DEF Books
<1> HIDE DEF shown
<1>7. ShowAnswer(shown) \in Replies
  BY <1>4 DEF ShowAnswer, Replies, ReplyKinds
<1>9. ASSUME NEW k, k = "invalid" \/ k = "nosuch" \/ k = "short" \/ k = "success"
      PROVE  Answer(k) \in Replies
  <2>1. k \in ReplyKinds
    BY <1>9 DEF ReplyKinds
  <2> QED  BY <1>5, <2>1 DEF Answer, Replies
<1>8. Reply(r) \in Replies
  <2>1. ShowAnswer([k \in KeysOf(nodes, root) |-> nodes[k].left_stock]) \in Replies
    BY <1>2, <1>7 DEF shown
  <2>2. Answer("invalid") \in Replies /\ Answer("nosuch") \in Replies
    BY <1>9
  <2>3. ASSUME NEW x PROVE Answer(Verdict(r, x)) \in Replies
    <3>1. Verdict(r, x) = "short" \/ Verdict(r, x) = "success"
      BY DEF Verdict
    <3> QED  BY <1>9, <3>1
  <2> QED  BY <2>1, <2>2, <2>3 DEF Reply
<1> QED  BY <1>1, <1>8

LEMMA ServeLineCarries ==
    ASSUME PoolInv, BookTypes, NetTypes, Protocol(Serving), ServeLine
    PROVE  \E c \in Conns : /\ c = Serving /\ Served(c) /\ Carried(c)
                           /\ answer' = [answer EXCEPT ![c] = Reply(Parse(line))]
<1>1. Served(Serving)
  BY LineServed DEF ServeLine, Goto
<1>2. PICK c \in Conns : c = Serving
  BY <1>1 DEF Served
<1>3. PICK r \in AnyRequest : r = Parse(line)
  BY <1>1 DEF Served
<1>4. /\ pc = "read" /\ pc' = "res" /\ Serving' = Serving /\ left' = ReplyLen
      /\ answer' = [answer EXCEPT ![c] = Reply(r)]
      /\ UNCHANGED <<inbox, client, outbox, got>>
  BY <1>2, <1>3 DEF ServeLine, Goto, Serving, pool
<1>5. \A d \in Conns : d # c => SameLink(d)
  <2> SUFFICES ASSUME NEW d \in Conns, d # c PROVE SameLink(d)
    OBVIOUS
  <2>1. SameAt(d)
    BY <1>4 DEF NetTypes, SameAt
  <2> QED  BY <1>2, <1>4, <2>1, ServeLinks DEF Serves
<1>6. answer'[c] # None
  <2>1. answer'[c] = Reply(r)
    BY <1>4 DEF NetTypes
  <2> QED  BY <2>1, ReplyIs
<1>7. Stream(c)' = <<>>
  <2>1. inbox'[c] = <<>>
    BY <1>1, <1>2, <1>4 DEF Served
  <2>2. <<>> \o <<>> = <<>>
    BY ConcatIs, EmptyIs
  <2> QED  BY <1>4, <2>1, <2>2 DEF Stream
<1>8. Unwritten(c)' = ReplyLen
  BY <1>2, <1>4 DEF Unwritten
<1>9. client'[c] \in {"waiting", "killed"}
  BY <1>1, <1>2, <1>4 DEF Served
<1>10. client'[c] = "waiting" => outbox'[c] + got'[c] + Unwritten(c)' = ReplyLen
  <2>1. client'[c] = "waiting" => outbox'[c] = 0 /\ got'[c] = 0
    BY <1>1, <1>2, <1>4 DEF Served, Quiet
  <2>2. ReplyLen \in Nat
    BY EventServerAssumption
  <2> QED  BY <1>8, <2>1, <2>2
<1>11. Protocol(c)'
  BY <1>6, <1>7, <1>9, <1>10 DEF Protocol
<1>12. Pending(c)' = None
  BY <1>7 DEF Pending
<1>13. Carried(c)
  BY <1>5, <1>11, <1>12 DEF Carried
<1> QED  BY <1>1, <1>2, <1>3, <1>4, <1>13

LEMMA ExitCarries ==
    ASSUME PoolInv, NetTypes, Protocol(Serving), ExitRequest
    PROVE  \E c \in Conns : c = Serving /\ Served(c) /\ Carried(c) /\ UNCHANGED answer
<1>1. Served(Serving)
  BY LineServed DEF ExitRequest, Goto
<1>2. PICK c \in Conns : c = Serving
  BY <1>1 DEF Served
<1>3. /\ pc = "read" /\ pc' = "check"
      /\ client' = [client EXCEPT ![c] = IF @ = "waiting" THEN "closed" ELSE @]
      /\ UNCHANGED <<inbox, answer, outbox, got>>
  BY <1>2 DEF ExitRequest, Goto, Close
<1>4. client = [d \in Conns |-> client[d]]
  BY DEF PoolInv, PoolTypes
<1>5. \A d \in Conns : d # c => SameLink(d)
  <2> SUFFICES ASSUME NEW d \in Conns, d # c PROVE SameLink(d)
    OBVIOUS
  <2>1. SameAt(d)
    BY <1>3, <1>4 DEF SameAt
  <2> QED  BY <1>2, <1>3, <2>1, ServeLinks DEF Serves
<1>6. Stream(c)' = <<>>
  <2>1. inbox'[c] = <<>>
    BY <1>1, <1>2, <1>3 DEF Served
  <2>2. <<>> \o <<>> = <<>>
    BY ConcatIs, EmptyIs
  <2> QED  BY <1>3, <2>1, <2>2 DEF Stream
<1>7. \/ client'[c] = "closed" /\ Quiet(c)'
      \/ client'[c] = "killed"
  BY <1>1, <1>2, <1>3, <1>4 DEF Served, Quiet
<1>8. Protocol(c)'
  BY <1>3, <1>6, <1>7 DEF Protocol
<1>9. Pending(c)' = None
  BY <1>6 DEF Pending
<1>10. Carried(c)
  BY <1>5, <1>8, <1>9 DEF Carried
<1> QED  BY <1>1, <1>2, <1>3, <1>10

-----------------------------------------------------------------------------
(* A piece of a reply is written; the server is started again. *)

LEMMA WriteCarries ==
    ASSUME PoolInv, NetTypes, Protocol(Serving), Write
    PROVE  \E c \in Conns : /\ Protocol(c)' /\ Pending(c)' = Pending(c) /\ answer' = answer
                            /\ \A d \in Conns : d # c => SameLink(d)
<1>1. PICK c \in Conns : c = Serving
  BY TheServed DEF Serves, Write, Goto
<1>2. /\ pc = "res" /\ pc' = (IF left = 1 THEN "check" ELSE "res")
      /\ outbox' = [outbox EXCEPT ![c] = @ + 1] /\ left' = left - 1
      /\ i' = (IF left = 1 THEN i + 1 ELSE i)
      /\ UNCHANGED <<clientfd, conn, inbox, client, answer, got>>
  BY <1>1 DEF Write, Goto, pool
<1>3. Serves /\ (Serves' => Serving' = Serving)
  BY <1>2 DEF Serves, Serving
<1>4. \A d \in Conns : d # c => SameLink(d)
  <2> SUFFICES ASSUME NEW d \in Conns, d # c PROVE SameLink(d)
    OBVIOUS
  <2>1. SameAt(d)
    BY <1>2 DEF NetTypes, SameAt
  <2> QED  BY <1>1, <1>2, <1>3, <2>1, ServeLinks
<1>5. Stream(c) = <<>> /\ client[c] \in {"waiting", "killed"} /\ Unwritten(c) = left
  BY <1>1, <1>2 DEF Protocol, Unwritten
<1>6. Stream(c)' = Stream(c)
  BY <1>2 DEF Stream
<1>7. Unwritten(c)' = left - 1
  BY <1>1, <1>2, <1>3 DEF Unwritten, Serves
<1>8. client[c] = "waiting" => answer[c] # None /\ outbox[c] + got[c] + left = ReplyLen
  <2>1. ~Ended(<<>>, c)
    BY EndedIs DEF WholeOf
  <2> QED  BY <1>1, <1>5, <2>1 DEF Protocol
<1>9. client[c] = "waiting" => outbox'[c] + got'[c] + Unwritten(c)' = ReplyLen
  <2>1. PICK o \in Int : o = outbox[c]
    BY DEF NetTypes
  <2>2. PICK g \in Int : g = got[c]
    BY DEF NetTypes
  <2>3. PICK l \in Int : l = left
    BY EventServerAssumption DEF NetTypes
  <2>4. outbox'[c] = o + 1 /\ got'[c] = g /\ Unwritten(c)' = l - 1
    BY <1>2, <1>7, <2>1, <2>2, <2>3 DEF NetTypes
  <2>5. client[c] = "waiting" => o + g + l = ReplyLen
    BY <1>8, <2>1, <2>2, <2>3
  <2> QED  BY <2>4, <2>5
<1>10. Protocol(c)'
  BY <1>2, <1>5, <1>6, <1>8, <1>9 DEF Protocol
<1>11. Pending(c)' = Pending(c)
  BY <1>2, <1>6 DEF Pending
<1> QED  BY <1>2, <1>4, <1>10, <1>11

LEMMA RestartCarries ==
    ASSUME PoolInv, Restart, NEW c \in Conns, Protocol(c)
    PROVE  Protocol(c)' /\ Pending(c) = None /\ Pending(c)' = None /\ answer'[c] = answer[c]
<1>1. /\ client[c] \notin {"sending", "waiting"} /\ Stream(c) = <<>> /\ pc' = "load"
      /\ client'[c] = (IF client[c] = "idle" THEN "closed" ELSE client[c])
      /\ UNCHANGED <<inbox, answer, outbox, got>>
  BY DEF Restart
<1>2. inbox[c] = <<>>
  <2>1. IsSeq(line) /\ IsSeq(rio) /\ IsSeq(inbox[c])
    BY DEF PoolInv, StreamTypes
  <2>2. <<>> \o inbox[c] = inbox[c]
    BY <2>1, ConcatIs
  <2>3. (line \o rio) \o inbox[c] = <<>> => inbox[c] = <<>>
    BY <2>1, ConcatIs
  <2> QED  BY <1>1, <2>2, <2>3 DEF Stream
<1>3. Stream(c)' = <<>>
  <2>1. <<>> \o <<>> = <<>>
    BY ConcatIs, EmptyIs
  <2> QED  BY <1>1, <1>2, <2>1 DEF Stream
<1>4. Pending(c) = None /\ Pending(c)' = None
  BY <1>1, <1>3 DEF Pending
<1>5. client[c] \in {"off", "idle", "closed", "killed"}
  BY <1>1 DEF PoolInv, PoolTypes
<1>6. client[c] # "killed" => Quiet(c)'
  BY <1>1, <1>5 DEF Protocol, Quiet
<1>7. Protocol(c)'
  BY <1>1, <1>3, <1>5, <1>6 DEF Protocol
<1> QED  BY <1>1, <1>4, <1>7

-----------------------------------------------------------------------------
(* The clients. *)

LEMMA OthersStay ==
    ASSUME PoolInv, NetTypes, NEW c \in Conns, Client(c)
    PROVE  /\ UNCHANGED <<pc, i, clientfd, conn, line, rio, left>>
           /\ \A d \in Conns : d # c => SameLink(d)
<1>1. UNCHANGED <<pc, i, clientfd, conn, line, rio, left>>
  BY DEF Client, Connect, SendHead, SendTail, Receive, Leave, Abort, Reset, pool, locals
<1>2. client = [d \in Conns |-> client[d]] /\ inbox = [d \in Conns |-> inbox[d]]
      /\ answer = [d \in Conns |-> answer[d]] /\ outbox = [d \in Conns |-> outbox[d]]
      /\ got = [d \in Conns |-> got[d]]
  BY DEF PoolInv, PoolTypes, StreamTypes, NetTypes
<1>3. ASSUME NEW d \in Conns, d # c PROVE SameLink(d)
  <2>1. inbox'[d] = inbox[d] /\ SameAt(d)
    BY <1>2, <1>3
    DEF Client, Connect, SendHead, SendTail, Receive, Leave, Abort, Reset, SameAt
  <2> QED  BY <1>1, <2>1, StayLinks
<1> QED  BY <1>1, <1>3

LEMMA StreamGrows ==
    ASSUME PoolInv, UNCHANGED <<pc, i, clientfd, conn, line, rio>>, NEW c \in Conns, NEW e,
           inbox'[c] = Append(inbox[c], e)
    PROVE  Stream(c)' = Append(Stream(c), e)
<1>1. IsSeq(line) /\ IsSeq(rio) /\ IsSeq(inbox[c])
  BY DEF PoolInv, StreamTypes
<1> DEFINE held == IF pc = "read" /\ Serving = c THEN line \o rio ELSE <<>>
<1>2. IsSeq(held)
  BY <1>1, ConcatIs, EmptyIs
<1>3. Stream(c) = held \o inbox[c] /\ Stream(c)' = held \o Append(inbox[c], e)
  BY DEF Stream, Serving
<1> HIDE DEF held
<1> QED  BY <1>1, <1>2, <1>3, AppendedIs

\* A client that has nothing under way connects or leaves.
LEMMA IdleCarries ==
    ASSUME PoolInv, NetTypes, NEW c \in Conns, Protocol(c), Connect(c) \/ Leave(c)
    PROVE  Protocol(c)' /\ Pending(c)' = Pending(c) /\ UNCHANGED answer
<1>1. UNCHANGED <<pc, i, clientfd, conn, line, rio, left>>
  BY OthersStay DEF Client
<1>2. /\ client[c] \in {"off", "idle"} /\ client'[c] \in {"idle", "closed"}
      /\ UNCHANGED <<inbox, answer, outbox, got>>
  BY DEF Connect, Leave, PoolInv, PoolTypes
<1>3. Stream(c)' = Stream(c)
  BY <1>1, <1>2 DEF Stream, Serving
<1>4. Stream(c) = <<>> /\ Quiet(c) /\ ~(pc = "res" /\ Serving = c)
  BY <1>2 DEF Protocol
<1>5. ~(pc' = "res" /\ Serving' = c) /\ Quiet(c)'
  BY <1>1, <1>2, <1>4 DEF Serving, Quiet
<1>6. Protocol(c)'
  BY <1>2, <1>3, <1>4, <1>5 DEF Protocol
<1>7. Pending(c)' = Pending(c)
  BY <1>3, <1>4 DEF Pending
<1> QED  BY <1>2, <1>6, <1>7

LEMMA SendHeadCarries ==
    ASSUME PoolInv, NetTypes, NEW c \in Conns, Protocol(c), SendHead(c)
    PROVE  Protocol(c)' /\ Pending(c)' = Pending(c) /\ UNCHANGED answer
<1>1. UNCHANGED <<pc, i, clientfd, conn, line, rio, left>>
  BY OthersStay DEF Client
<1>2. PICK r \in RequestsOf[c] : \E cut \in Cuts(r) :
        inbox' = [inbox EXCEPT ![c] = Append(@, Line(r, cut)[1])]
  BY DEF SendHead
<1>3. PICK cut \in Cuts(r) : inbox' = [inbox EXCEPT ![c] = Append(@, Line(r, cut)[1])]
  BY <1>2
<1>4. PICK h : h = Line(r, cut)[1]
  OBVIOUS
<1>5. inbox'[c] = Append(inbox[c], h)
  BY <1>3, <1>4 DEF PoolInv, StreamTypes
<1>6. client[c] = "idle" /\ client'[c] = "sending" /\ UNCHANGED <<answer, outbox, got>>
  BY DEF SendHead, PoolInv, PoolTypes
<1>7. Stream(c) = <<>> /\ Quiet(c) /\ ~(pc = "res" /\ Serving = c)
  BY <1>6 DEF Protocol
<1>8. Stream(c)' = <<h>>
  <2>1. Stream(c)' = Append(Stream(c), h)
    BY <1>1, <1>5, StreamGrows
  <2>2. Append(<<>>, h) = <<h>>
    OBVIOUS
  <2> QED  BY <1>7, <2>1, <2>2
<1>9. Begun(<<h>>, c)
  BY <1>4 DEF Begun
<1>10. ~(pc' = "res" /\ Serving' = c) /\ Quiet(c)'
  BY <1>1, <1>6, <1>7 DEF Serving, Quiet
<1>11. Protocol(c)'
  BY <1>6, <1>8, <1>9, <1>10 DEF Protocol
<1>12. Pending(c)' = None
  BY <1>6, <1>8, <1>9, BegunIs DEF Pending, HeadOf
<1>13. Pending(c) = None
  BY <1>7 DEF Pending
<1> QED  BY <1>6, <1>11, <1>12, <1>13

LEMMA SendTailCarries ==
    ASSUME PoolInv, NetTypes, NEW c \in Conns, Protocol(c), SendTail(c)
    PROVE  /\ Protocol(c)' /\ Pending(c) = None /\ Pending(c)' \in AllRequests
           /\ answer[c] = None /\ UNCHANGED answer
<1>1. UNCHANGED <<pc, i, clientfd, conn, line, rio, left>>
  BY OthersStay DEF Client
<1>2. client[c] = "sending" /\ client'[c] = "waiting" /\ UNCHANGED <<answer, outbox, got>>
  BY DEF SendTail, PoolInv, PoolTypes
<1>3. PICK s : s = Stream(c)
  OBVIOUS
<1>4. Begun(s, c) /\ Quiet(c) /\ ~(pc = "res" /\ Serving = c)
  BY <1>2, <1>3 DEF Protocol
<1>5. PICK r \in RequestsOf[c] : \E cut \in Cuts(r) : s = <<Line(r, cut)[1]>>
  BY <1>4 DEF Begun
<1>6. PICK cut \in Cuts(r) : s = <<Line(r, cut)[1]>>
  BY <1>5
<1>7. PICK h, t : Pieces(r, cut, h, t)
  BY LineIs
<1>8. s = <<h>> /\ Line(r, cut) = <<h, t>> /\ h.req = r /\ Line(r, cut)[2] = t
  BY <1>6, <1>7 DEF Pieces
<1>9. Len(s) = 1 /\ s[1] = h
  BY <1>8
<1>10. s[Len(s)].req = r
  BY <1>8, <1>9
<1>11. Line(r, Invalid)[2] = t
  <2>1. Line(r, Invalid)[2] = [req |-> r, cut |-> Invalid, end |-> TRUE]
    BY DEF Line
  <2>2. Line(r, cut)[2] = [req |-> r, cut |-> Invalid, end |-> TRUE]
    BY DEF Line
  <2> QED  BY <1>8, <2>1, <2>2
<1>12. inbox'[c] = Append(inbox[c], t)
  <2>1. inbox' = [inbox EXCEPT ![c] = Append(@, Line(s[Len(s)].req, Invalid)[2])]
    BY <1>3 DEF SendTail
  <2> QED  BY <1>10, <1>11, <2>1 DEF PoolInv, StreamTypes
<1>13. Stream(c)' = <<h, t>>
  <2>1. Stream(c)' = Append(s, t)
    BY <1>1, <1>3, <1>12, StreamGrows
  <2>2. Append(<<h>>, t) = <<h, t>>
    <3> DEFINE T == {h, t}
               a == Append(<<h>>, t)
    <3>1. <<h>> \in Seq(T) /\ <<h, t>> \in Seq(T) /\ t \in T
          /\ Len(<<h>>) = 1 /\ <<h>>[1] = h /\ Len(<<h, t>>) = 2 /\ <<h, t>>[1] = h /\ <<h, t>>[2] = t
      OBVIOUS
    <3> HIDE DEF T
    <3>2. a \in Seq(T) /\ Len(a) = 2 /\ a[1] = h /\ a[2] = t
      BY <3>1, AppendProperties
    <3> HIDE DEF a
    <3>3. \A n \in 1..2 : a[n] = <<h, t>>[n]
      BY <3>1, <3>2
    <3>4. a = <<h, t>>
      BY <3>1, <3>2, <3>3, SeqEqual
    <3> QED  BY <3>4 DEF a
  <2> QED  BY <1>8, <2>1, <2>2
<1>14. Ended(<<h, t>>, c)
  BY <1>8 DEF Ended
<1>15. ~(pc' = "res" /\ Serving' = c) /\ Quiet(c)'
  BY <1>1, <1>2, <1>4 DEF Serving, Quiet
<1>16. Protocol(c)'
  BY <1>2, <1>13, <1>14, <1>15 DEF Protocol
<1>17. Pending(c)' \in AllRequests
  <2>1. WholeOf(<<h, t>>, c)
    BY <1>14, EndedIs
  <2>2. Pending(c)' = <<h, t>>[Len(<<h, t>>)].req
    BY <1>13, <2>1 DEF Pending, WholeOf
  <2> QED  BY <2>1, <2>2 DEF WholeOf
<1>18. Pending(c) = None
  BY <1>2, <1>3, <1>4, BegunIs DEF Pending, HeadOf
<1> QED  BY <1>2, <1>4, <1>16, <1>17, <1>18 DEF Quiet

\* A piece of the reply is received; the last one ends the request.
LEMMA ReceiveCarries ==
    ASSUME PoolInv, NetTypes, NEW c \in Conns, Protocol(c), Receive(c)
    PROVE  /\ Protocol(c)' /\ Pending(c)' = Pending(c) /\ answer[c] # None
           /\ answer'[c] = answer[c] \/ answer'[c] = None
           /\ outbox' \in [Conns -> 0..SockBuf] /\ got' \in [Conns -> 0..(ReplyLen - 1)]
<1> DEFINE done == got[c] + 1 = ReplyLen
<1>1. UNCHANGED <<pc, i, clientfd, conn, line, rio, left>>
  BY OthersStay DEF Client
<1>2. /\ client[c] = "waiting" /\ outbox[c] > 0 /\ inbox' = inbox
      /\ outbox' = [outbox EXCEPT ![c] = @ - 1]
      /\ got' = [got EXCEPT ![c] = IF done THEN 0 ELSE @ + 1]
      /\ answer' = [answer EXCEPT ![c] = IF done THEN None ELSE @]
      /\ client' = [client EXCEPT ![c] = IF done THEN "idle" ELSE @]
  BY DEF Receive
<1>3. PICK o \in 0..SockBuf : o = outbox[c]
  BY DEF NetTypes
<1>4. PICK g \in 0..(ReplyLen - 1) : g = got[c]
  BY DEF NetTypes
<1>5. PICK u \in 0..ReplyLen : u = Unwritten(c)
  BY EventServerAssumption DEF NetTypes, Unwritten
<1>6. ReplyLen \in Nat \ {0} /\ SockBuf \in Nat
  BY EventServerAssumption
<1>7. Stream(c) = <<>> /\ answer[c] # None /\ o + g + u = ReplyLen /\ o > 0
  <2>1. ~Quiet(c)
    BY <1>2, <1>3, <1>6 DEF Quiet
  <2> QED  BY <1>2, <1>3, <1>4, <1>5, <2>1 DEF Protocol
<1>8. /\ client'[c] = (IF done THEN "idle" ELSE "waiting")
      /\ answer'[c] = (IF done THEN None ELSE answer[c])
      /\ outbox'[c] = o - 1 /\ got'[c] = (IF done THEN 0 ELSE g + 1)
  BY <1>2, <1>3, <1>4 DEF NetTypes, PoolInv, PoolTypes
<1>9. Stream(c)' = <<>> /\ Unwritten(c)' = u /\ Serving' = Serving
  BY <1>1, <1>2, <1>5, <1>7 DEF Stream, Serving, Unwritten
<1>10. ASSUME done PROVE Protocol(c)'
  <2>1. o = 1 /\ u = 0
    BY <1>4, <1>6, <1>7, <1>10
  <2>2. Quiet(c)' /\ client'[c] = "idle"
    BY <1>8, <1>10, <2>1 DEF Quiet
  <2>3. ~(pc = "res" /\ Serving = c)
    <3>1. pc = "res" => left > 0 /\ left \in Int
      BY EventServerAssumption DEF NetTypes
    <3> QED  BY <1>5, <2>1, <3>1 DEF Unwritten
  <2> QED  BY <1>1, <1>9, <2>2, <2>3 DEF Protocol
<1>11. ASSUME ~done PROVE Protocol(c)'
  <2>1. client'[c] = "waiting" /\ answer'[c] # None /\ (o - 1) + (g + 1) + u = ReplyLen
    BY <1>7, <1>8, <1>11
  <2>2. outbox'[c] + got'[c] + Unwritten(c)' = ReplyLen
    BY <1>8, <1>9, <1>11, <2>1
  <2> HIDE DEF done
  <2> QED  BY <1>1, <1>9, <2>1, <2>2 DEF Protocol
<1>12. Protocol(c)'
  BY <1>10, <1>11
<1>13. Pending(c)' = Pending(c)
  BY <1>7, <1>9 DEF Pending
<1>14. outbox' \in [Conns -> 0..SockBuf]
  <2>1. o - 1 \in 0..SockBuf
    BY <1>6, <1>7
  <2> QED  BY <1>2, <1>3, <2>1 DEF NetTypes
<1>15. got' \in [Conns -> 0..(ReplyLen - 1)]
  <2>1. (IF done THEN 0 ELSE g + 1) \in 0..(ReplyLen - 1)
    BY <1>4, <1>6
  <2> QED  BY <1>2, <1>4, <2>1 DEF NetTypes
<1> QED  BY <1>7, <1>8, <1>12, <1>13, <1>14, <1>15

LEMMA AbortCarries ==
    ASSUME PoolInv, NetTypes, NEW c \in Conns, Protocol(c), Abort(c)
    PROVE  /\ Protocol(c)' /\ answer'[c] = None
           /\ \/ Pending(c)' = Pending(c)
              \/ Pending(c) = None /\ answer[c] = None /\ Pending(c)' \in AllRequests
<1>1. UNCHANGED <<pc, i, clientfd, conn, line, rio, left>>
  BY OthersStay DEF Client
<1>2. /\ client[c] \in {"sending", "waiting"} /\ client'[c] = "killed"
      /\ answer'[c] = None /\ inbox' = inbox
  BY DEF Abort, NetTypes, PoolInv, PoolTypes
<1>3. PICK s : s = Stream(c)
  OBVIOUS
<1>4. Stream(c)' = s /\ Serving' = Serving
  BY <1>1, <1>2, <1>3 DEF Stream, Serving
<1>5. s = <<>> \/ Begun(s, c) \/ Ended(s, c)
  BY <1>2, <1>3 DEF Protocol
<1>6. Protocol(c)'
  <2>1. pc = "res" /\ Serving = c => s = <<>>
    BY <1>3 DEF Protocol
  <2> QED  BY <1>1, <1>2, <1>4, <1>5, <2>1 DEF Protocol
<1>7. CASE s = <<>>
  BY <1>2, <1>3, <1>4, <1>6, <1>7 DEF Pending
<1>8. CASE s # <<>> /\ Ended(s, c)
  <2>1. Whole(s)
    BY <1>8, EndedIs DEF WholeOf
  <2> QED  BY <1>2, <1>3, <1>4, <1>6, <1>8, <2>1 DEF Pending
<1>9. CASE s # <<>> /\ ~Ended(s, c)
  <2>1. HeadOf(s, c)
    BY <1>5, <1>9, BegunIs
  <2>2. Pending(c) = None /\ Pending(c)' = s[1].cut
    BY <1>2, <1>3, <1>4, <1>9, <2>1 DEF Pending, HeadOf
  <2>3. answer[c] = None
    BY <1>2, <1>3, <1>9 DEF Protocol, Quiet
  <2> QED  BY <1>2, <1>6, <2>1, <2>2, <2>3 DEF HeadOf
<1> QED  BY <1>7, <1>8, <1>9

LEMMA ResetCarries ==
    ASSUME PoolInv, NetTypes, NEW c \in Conns, Reset(c), NEW d \in Conns
    PROVE  SameLink(d)
<1>1. UNCHANGED <<pc, i, clientfd, conn, line, rio, left>>
  BY OthersStay DEF Client
<1>2. UNCHANGED <<inbox, client, answer, outbox, got>>
  BY DEF Reset
<1> QED  BY <1>1, <1>2, StayLinks DEF SameAt

-----------------------------------------------------------------------------
(* The invariant of the server. *)

Protocols == \A c \in Conns : Protocol(c)

ServerInv == PoolInv /\ BookTypes /\ NetTypes /\ Protocols

LEMMA ProtocolsNext ==
    ASSUME ServerInv, [Next]_vars
    PROVE  Protocols'
<1> USE DEF ServerInv
<1>1. SUFFICES ASSUME NEW d \in Conns PROVE Protocol(d)'
  BY DEF Protocols
<1>2. Protocol(d) /\ \A c \in Conns : Protocol(c)
  BY DEF Protocols
<1>3. ASSUME SameLink(d) PROVE Protocol(d)'
  BY <1>2, <1>3, LinkStays
<1>4. Serves => Serving \in Conns
  BY TheServed
<1>5. CASE Unseen
  BY <1>3, <1>5, UnseenLinks
<1>6. CASE ServeLine
  <2>1. Protocol(Serving)
    BY <1>2, <1>4, <1>6 DEF ServeLine, Goto, Serves
  <2>2. PICK c \in Conns : Carried(c)
    BY <1>6, <2>1, ServeLineCarries
  <2> QED  BY <1>3, <2>2 DEF Carried
<1>7. CASE ExitRequest
  <2>1. Protocol(Serving)
    BY <1>2, <1>4, <1>7 DEF ExitRequest, Goto, Serves
  <2>2. PICK c \in Conns : Carried(c)
    BY <1>7, <2>1, ExitCarries
  <2> QED  BY <1>3, <2>2 DEF Carried
<1>8. CASE Write
  <2>1. Protocol(Serving)
    BY <1>2, <1>4, <1>8 DEF Write, Goto, Serves
  <2>2. PICK c \in Conns : Protocol(c)' /\ \A e \in Conns : e # c => SameLink(e)
    BY <1>8, <2>1, WriteCarries
  <2> QED  BY <1>3, <2>2
<1>9. CASE Restart
  BY <1>2, <1>9, RestartCarries
<1>10. ASSUME NEW c \in Conns, Client(c) PROVE Protocol(d)'
  <2>1. CASE d # c
    BY <1>3, <1>10, <2>1, OthersStay
  <2>2. CASE d = c
    <3>1. CASE Reset(c)
      BY <1>3, <3>1, ResetCarries
    <3> QED  BY <1>2, <1>10, <2>2, <3>1, IdleCarries, SendHeadCarries, SendTailCarries,
                ReceiveCarries, AbortCarries DEF Client
  <2> QED  BY <2>1, <2>2
<1> QED  BY <1>5, <1>6, <1>7, <1>8, <1>9, <1>10 DEF Next, Server, Unseen

LEMMA BookTypesNext ==
    ASSUME ServerInv, [Next]_vars
    PROVE  BookTypes'
<1> USE DEF ServerInv
<1>1. CASE Load
  BY <1>1, LoadBook
<1>2. CASE ServeLine
  <2>1. Protocol(Serving)
    BY <1>2, TheServed DEF ServeLine, Goto, Serves, Protocols
  <2>2. Parse(line) \in AnyRequest
    BY <1>2, <2>1, LineServed DEF ServeLine, Goto, Served
  <2>3. Carry(Parse(line)) /\ root' = root /\ stock_txt' = stock_txt
    BY <1>2 DEF ServeLine, process
  <2> QED  BY <2>2, <2>3, CarryBook
<1>3. CASE Sigint
  BY <1>3, SigintBook
<1>4. CASE Restart
  BY <1>4, RestartBook
<1>5. ASSUME UNCHANGED <<nodes, root, stock_txt>> PROVE BookTypes'
  BY <1>5 DEF BookTypes, AnInt, Books
<1>6. CASE Server /\ ~Load /\ ~ServeLine
  BY <1>5, <1>6
  DEF Server, InitPool, Select, Accept, TooMany, NextClient, RoundDone, Refill, ReadLine,
      ReadError, ReqEof, ExitRequest, Write, WriteError, treap, process
<1>7. ASSUME NEW c \in Conns, Client(c) PROVE BookTypes'
  BY <1>5, <1>7
  DEF Client, Connect, SendHead, SendTail, Receive, Leave, Abort, Reset, treap, process
<1>8. CASE UNCHANGED vars
  BY <1>5, <1>8 DEF vars, treap, process
<1> QED  BY <1>1, <1>2, <1>3, <1>4, <1>6, <1>7, <1>8 DEF Next

LEMMA NetTypesNext ==
    ASSUME ServerInv, [Next]_vars
    PROVE  NetTypes'
<1> USE DEF ServerInv
<1>1. ReplyLen \in Nat \ {0} /\ SockBuf \in Nat
  BY EventServerAssumption
<1>2. ASSUME UNCHANGED <<answer, outbox, got, left, reset>>, pc' = "res" => pc = "res"
      PROVE  NetTypes'
  BY <1>2 DEF NetTypes
<1>3. CASE ServeLine
  <2>1. /\ answer' = [answer EXCEPT ![Serving] = Reply(Parse(line))] /\ left' = ReplyLen
        /\ UNCHANGED <<outbox, got, reset>>
    BY <1>3 DEF ServeLine
  <2>2. Protocol(Serving)
    BY <1>3, TheServed DEF ServeLine, Goto, Serves, Protocols
  <2>3. Parse(line) \in AnyRequest
    BY <1>3, <2>2, LineServed DEF ServeLine, Goto, Served
  <2>4. PICK x \in Replies : x = Reply(Parse(line))
    BY <2>3, ReplyIs
  <2>5. answer' \in [Conns -> Replies \cup {None}]
    BY <2>1, <2>4 DEF NetTypes
  <2> QED  BY <1>1, <2>1, <2>5 DEF NetTypes
<1>4. CASE Write
  <2>1. PICK c \in Conns : c = Serving
    BY <1>4, TheServed DEF Write, Goto, Serves
  <2>2. /\ outbox' = [outbox EXCEPT ![c] = @ + 1] /\ outbox[c] < SockBuf
        /\ pc = "res" /\ pc' = (IF left = 1 THEN "check" ELSE "res")
        /\ left' = left - 1 /\ UNCHANGED <<answer, got, reset>>
    BY <1>4, <2>1 DEF Write, Goto
  <2>3. outbox[c] \in 0..SockBuf /\ left \in 0..ReplyLen /\ left > 0
    BY <2>2 DEF NetTypes
  <2>4. outbox[c] + 1 \in 0..SockBuf
    BY <1>1, <2>2, <2>3
  <2>5. outbox' \in [Conns -> 0..SockBuf]
    BY <2>2, <2>4 DEF NetTypes
  <2>6. left' \in 0..ReplyLen /\ (pc' = "res" => left' > 0)
    BY <1>1, <2>2, <2>3
  <2> QED  BY <2>2, <2>5, <2>6 DEF NetTypes
<1>5. CASE Restart
  <2>1. UNCHANGED <<answer, outbox, got, reset>> /\ left' = 0 /\ pc' = "load"
    BY <1>5 DEF Restart
  <2> QED  BY <1>1, <2>1 DEF NetTypes
<1>6. ASSUME NEW c \in Conns, Client(c) PROVE NetTypes'
  <2>1. left' = left /\ pc' = pc
    BY <1>6, OthersStay
  <2>2. CASE Receive(c)
    <3>1. outbox' \in [Conns -> 0..SockBuf] /\ got' \in [Conns -> 0..(ReplyLen - 1)]
      BY <2>2, ReceiveCarries DEF Protocols
    <3>2. answer' \in [Conns -> Replies \cup {None}] /\ reset' = reset
      BY <2>2 DEF Receive, NetTypes
    <3> QED  BY <2>1, <3>1, <3>2 DEF NetTypes
  <2>3. CASE Abort(c)
    <3>1. /\ answer' = [answer EXCEPT ![c] = None] /\ got' = [got EXCEPT ![c] = 0]
          /\ outbox' = outbox /\ reset' = reset
      BY <2>3 DEF Abort
    <3>2. got' \in [Conns -> 0..(ReplyLen - 1)] /\ answer' \in [Conns -> Replies \cup {None}]
      BY <1>1, <3>1 DEF NetTypes
    <3> QED  BY <2>1, <3>1, <3>2 DEF NetTypes
  <2>4. CASE Connect(c) \/ SendHead(c) \/ SendTail(c) \/ Leave(c)
    BY <1>2, <2>1, <2>4 DEF Connect, SendHead, SendTail, Leave
  <2>5. CASE Reset(c)
    BY <1>6, <2>1, <2>5 DEF Reset, NetTypes
  <2> QED  BY <1>6, <2>2, <2>3, <2>4, <2>5 DEF Client
<1>7. CASE Unseen
  BY <1>2, <1>7
  DEF Unseen, Load, InitPool, Select, Accept, TooMany, NextClient, RoundDone, Refill,
      ReadLine, ReadError, ReqEof, WriteError, Sigint, vars, locals, net, Goto
<1>8. CASE ExitRequest
  BY <1>2, <1>8 DEF ExitRequest, Goto
<1> QED  BY <1>3, <1>4, <1>5, <1>6, <1>7, <1>8 DEF Next, Server, Unseen

LEMMA InitServerInv == Init => ServerInv
<1> SUFFICES ASSUME Init PROVE ServerInv
  OBVIOUS
<1>1. PoolInv /\ BookTypes
  BY InitPoolInv, InitBook
<1>2. ReplyLen \in Nat \ {0} /\ SockBuf \in Nat
  BY EventServerAssumption
<1>3. NetTypes
  BY <1>2 DEF Init, NetTypes
<1>4. <<>> \o <<>> = <<>>
  BY ConcatIs, EmptyIs
<1>5. Protocols
  BY <1>4 DEF Init, Protocols, Protocol, Stream, Quiet
<1> QED  BY <1>1, <1>3, <1>5 DEF ServerInv

LEMMA NextServerInv == ServerInv /\ [Next]_vars => ServerInv'
<1> SUFFICES ASSUME ServerInv, [Next]_vars PROVE ServerInv'
  OBVIOUS
<1>1. PoolInv'
  BY NextPoolInv DEF ServerInv
<1> QED  BY <1>1, ProtocolsNext, BookTypesNext, NetTypesNext DEF ServerInv

\* The inductive invariant of the server and its clients.
THEOREM EventServerInvariant == Spec => []ServerInv
  BY InitServerInv, NextServerInv, PTL DEF Spec

\* For every instance the variables keep their types: no buy or sell leaves an int, in
\* the treap or in stock.txt, and every reply is one of those that res writes.
THEOREM EventServerTypes == Spec => []TypeOK
<1>1. ServerInv => TypeOK
  <2> SUFFICES ASSUME ServerInv PROVE TypeOK
    OBVIOUS
  <2>1. root \in DOMAIN nodes \cup {NULL}
    BY TreapIsSearchable DEF ServerInv, Searchable
  <2>2. backlog \subseteq Conns
    BY DEF ServerInv, PoolInv, Placed
  <2>3. \A book \in Books : IsBook(book)
    BY DEF Books, IsBook
  <2>4. \A c \in Conns :
          answer[c] # None => answer[c].kind \in ReplyKinds /\ IsBook(answer[c].book)
    BY <2>3 DEF ServerInv, NetTypes, Replies
  <2> QED  BY <2>1, <2>2, <2>3, <2>4 DEF ServerInv, PoolInv, PoolTypes, BookTypes, NetTypes, TypeOK
<1> QED  BY <1>1, EventServerInvariant, PTL

\* For every set of stocks, every order of the lines of stock.txt and all
\* priorities: a treap, in which each key is found and from which each can go.
THEOREM TreapIsOK == Spec => []TreapOK
<1>1. ServerInv => TreapOK
  <2> SUFFICES ASSUME ServerInv PROVE TreapOK
    OBVIOUS
  <2> DEFINE D == DOMAIN nodes
  <2>1. Searchable /\ nodes \in Tables(D) /\ Tree(nodes, root, D)
    BY TreapIsSearchable DEF ServerInv, BookTypes
  <2>2. KeySet(D) /\ Forest(nodes, D)
    BY <2>1 DEF Searchable
  <2> HIDE DEF D
  <2>3. IsTreap(nodes, root, D)
    BY <2>1, <2>2, TreeIsTreap
  <2>4. ASSUME NEW k \in StockKeys, NEW e, e = Erase(nodes, root, k)
        PROVE  /\ FindKey(nodes, root, k) = IF k \in D THEN k ELSE NULL
               /\ IsTreap(e.t, e.root, D \ {k})
    <3>1. k \in Int
      BY EventServerAssumption
    <3>2. IsTreap(e.t, e.root, D \ {k})
      BY <2>1, <2>2, <2>4, <3>1, ErasedTreap
    <3>3. FindKey(nodes, root, k) = IF k \in D THEN k ELSE NULL
      BY <2>1, <3>1 DEF Searchable, D
    <3> QED  BY <3>2, <3>3
  <2> QED  BY <2>3, <2>4 DEF TreapOK, D
<1> QED  BY <1>1, EventServerInvariant, PTL

-----------------------------------------------------------------------------
(* Nothing of the book is lost. *)

SameStocks == \A k \in DOMAIN nodes : nodes[k].left_stock = stock_txt[k]

\* The whole book is in stock.txt until it is loaded, in the treap from then on,
\* and in both when the process has ended by a SIGINT.
Saved ==
    /\ DOMAIN stock_txt = StockKeys
    /\ pc = "load" => SameStocks
    /\ pc # "load" => DOMAIN nodes = StockKeys
    /\ exited = "sigint" => pc # "load" /\ SameStocks

LEMMA SavedNext ==
    ASSUME "load" \notin SigintAt, ServerInv, Saved, [Next]_vars
    PROVE  Saved'
<1> USE DEF ServerInv
<1>1. CASE Load
  <2>1. Loaded
    BY <1>1, LoadBook
  <2>2. pc = "load" /\ pc' = "load" /\ stock_txt' = stock_txt /\ exited = "no" /\ exited' = exited
    BY <1>1 DEF Load, Goto, process
  <2>3. SameStocks
    BY <2>2 DEF Saved
  <2>4. SameStocks'
    BY <2>1, <2>2, <2>3 DEF Loaded, SameStocks
  <2> QED  BY <2>2, <2>4 DEF Saved
<1>2. CASE Sigint
  <2>1. /\ pc # "load" /\ pc' = pc /\ nodes' = nodes
        /\ stock_txt' = [k \in DOMAIN nodes |-> nodes[k].left_stock]
    BY <1>2, SigintBook DEF Sigint, treap
  <2>2. SameStocks' /\ DOMAIN nodes = StockKeys
    BY <2>1 DEF SameStocks, Saved
  <2> QED  BY <2>1, <2>2 DEF Saved
<1>3. CASE Restart
  <2>1. DOMAIN nodes' = {} /\ stock_txt' = stock_txt /\ pc' = "load" /\ exited' = "no"
    BY <1>3, RestartBook DEF Restart
  <2> QED  BY <2>1 DEF Saved, SameStocks
<1>4. CASE InitPool
  <2>1. /\ DOMAIN nodes = DOMAIN stock_txt /\ UNCHANGED <<nodes, stock_txt, exited>>
        /\ pc' = "select" /\ exited = "no"
    BY <1>4 DEF InitPool, Goto, treap, process
  <2> QED  BY <2>1 DEF Saved
<1>5. CASE ServeLine
  <2>1. Protocol(Serving)
    BY <1>5, TheServed DEF ServeLine, Goto, Serves, Protocols
  <2>2. Parse(line) \in AnyRequest
    BY <1>5, <2>1, LineServed DEF ServeLine, Goto, Served
  <2>3. /\ Carry(Parse(line)) /\ root' = root /\ UNCHANGED <<stock_txt, exited>>
        /\ exited = "no" /\ pc = "read" /\ pc' = "res"
    BY <1>5 DEF ServeLine, process, Goto
  <2>4. DOMAIN nodes' = DOMAIN nodes
    BY <2>2, <2>3, CarryBook DEF Traded
  <2> QED  BY <2>3, <2>4 DEF Saved
<1>6. ASSUME UNCHANGED <<nodes, stock_txt>>, pc' = "load" <=> pc = "load",
             exited' = "sigint" => exited = "sigint"
      PROVE  Saved'
  BY <1>6 DEF Saved, SameStocks
<1>7. CASE Server /\ ~Load /\ ~InitPool /\ ~ServeLine
  BY <1>6, <1>7
  DEF Server, Select, Accept, TooMany, NextClient, RoundDone, Refill, ReadLine,
      ReadError, ReqEof, ExitRequest, Write, WriteError, treap, process, Goto
<1>8. ASSUME NEW c \in Conns, Client(c) PROVE Saved'
  BY <1>6, <1>8
  DEF Client, Connect, SendHead, SendTail, Receive, Leave, Abort, Reset, treap, process
<1>9. CASE UNCHANGED vars
  BY <1>6, <1>9 DEF vars, treap, process
<1> QED  BY <1>1, <1>2, <1>3, <1>4, <1>5, <1>7, <1>8, <1>9 DEF Next

LEMMA InitSaved == Init => Saved
<1> SUFFICES ASSUME Init PROVE Saved
  OBVIOUS
<1>1. nodes = NoTree /\ stock_txt = InitStock /\ pc = "load" /\ exited = "no"
  BY DEF Init
<1>2. DOMAIN InitStock = StockKeys
  BY EventServerAssumption
<1> QED  BY <1>1, <1>2, NoTreeIs DEF Saved, SameStocks

-----------------------------------------------------------------------------
(* The server implements the book. *)

BookNow == [k \in StockKeys |-> IF k \in DOMAIN nodes THEN nodes[k].left_stock
                                ELSE IF k \in DOMAIN stock_txt THEN stock_txt[k] ELSE 0]
AskedNow == [c \in Conns |-> Pending(c)]

BookStep == [Book!Next]_(Book!vars)

LEMMA BookIs ==
    ASSUME BookTypes, Saved
    PROVE  /\ pc = "load" => BookNow = stock_txt
           /\ pc # "load" => BookNow = [k \in StockKeys |-> nodes[k].left_stock]
<1>1. stock_txt = [k \in StockKeys |-> stock_txt[k]]
  BY DEF BookTypes, Books, Saved
<1>2. ASSUME pc = "load" PROVE BookNow = stock_txt
  <2>1. \A k \in StockKeys : BookNow[k] = stock_txt[k]
    BY <1>2 DEF BookNow, Saved, SameStocks
  <2>2. BookNow = [k \in StockKeys |-> BookNow[k]]
    BY DEF BookNow
  <2> HIDE DEF BookNow
  <2> QED  BY <1>1, <2>1, <2>2
<1>3. ASSUME pc # "load" PROVE BookNow = [k \in StockKeys |-> nodes[k].left_stock]
  BY <1>3 DEF BookNow, Saved
<1> QED  BY <1>2, <1>3

LEMMA BookIsNext ==
    BookTypes' /\ Saved' =>
      /\ pc' = "load" => BookNow' = stock_txt'
      /\ pc' # "load" => BookNow' = [k \in StockKeys |-> nodes'[k].left_stock]
<1> DEFINE P == BookTypes /\ Saved
           Q == /\ pc = "load" => BookNow = stock_txt
                /\ pc # "load" => BookNow = [k \in StockKeys |-> nodes[k].left_stock]
<1>1. P => Q
  BY BookIs
<1>2. P' => Q'
  BY <1>1, PTL
<1> QED  BY <1>2

\* The requests as the book sees the step of one connection.
LEMMA SeenByOne ==
    ASSUME NEW c \in Conns, \A d \in Conns : d # c => Pending(d)' = Pending(d)
    PROVE  /\ AskedNow' = [AskedNow EXCEPT ![c] = Pending(c)']
           /\ AskedNow[c] = Pending(c)
           /\ Pending(c)' = Pending(c) => AskedNow' = AskedNow
<1> DEFINE p(d) == Pending(d)'
<1>1. AskedNow' = [d \in Conns |-> p(d)]
  BY DEF AskedNow
<1>2. \A d \in Conns : d # c => p(d) = AskedNow[d]
  BY DEF AskedNow
<1>3. AskedNow = [d \in Conns |-> AskedNow[d]]
  BY DEF AskedNow
<1>4. AskedNow[c] = Pending(c)
  BY DEF AskedNow
<1> HIDE DEF p
<1>5. /\ AskedNow' = [AskedNow EXCEPT ![c] = p(c)]
      /\ p(c) = AskedNow[c] => AskedNow' = AskedNow
  BY <1>1, <1>2, <1>3
<1> QED  BY <1>4, <1>5 DEF p

LEMMA StutterStep ==
    ASSUME BookNow' = BookNow, answer' = answer, \A c \in Conns : Pending(c)' = Pending(c)
    PROVE  BookStep
<1>1. AskedNow' = AskedNow
  BY DEF AskedNow
<1>2. UNCHANGED Book!vars
  BY <1>1 DEF Book!vars, BookNow, AskedNow
<1> QED  BY <1>2 DEF BookStep

LEMMA AskStep ==
    ASSUME NEW c \in Conns, \A d \in Conns : d # c => Pending(d)' = Pending(d),
           BookNow' = BookNow, answer' = answer, Pending(c) = None, answer[c] = None,
           Pending(c)' \in AllRequests
    PROVE  BookStep
<1>1. AskedNow' = [AskedNow EXCEPT ![c] = Pending(c)'] /\ AskedNow[c] = None
  BY SeenByOne
<1>2. Book!Ask(c)
  BY <1>1 DEF Book!Ask, BookNow, AskedNow, AllRequests
<1> QED  BY <1>2 DEF BookStep, Book!Next

LEMMA ReceiveStep ==
    ASSUME NEW c \in Conns, \A d \in Conns : Pending(d)' = Pending(d),
           BookNow' = BookNow, answer[c] # None, answer' = [answer EXCEPT ![c] = None]
    PROVE  BookStep
<1>1. AskedNow' = AskedNow
  BY DEF AskedNow
<1>2. Book!Receive(c)
  BY <1>1 DEF Book!Receive, BookNow, AskedNow
<1> QED  BY <1>2 DEF BookStep, Book!Next

LEMMA ExitStep ==
    ASSUME NEW c \in Conns, \A d \in Conns : d # c => Pending(d)' = Pending(d),
           BookNow' = BookNow, answer' = answer, Pending(c) # None, Pending(c)' = None,
           Pending(c).op = "exit"
    PROVE  BookStep
<1>1. /\ AskedNow' = [AskedNow EXCEPT ![c] = None] /\ AskedNow[c] # None
      /\ AskedNow[c].op = "exit"
  BY SeenByOne
<1>2. Book!Exit(c)
  BY <1>1 DEF Book!Exit, Book!Take, BookNow, AskedNow
<1> QED  BY <1>2 DEF BookStep, Book!Next

\* A request takes effect.
Effect(r, c) ==
    \/ /\ r.op = "show" /\ BookNow' = BookNow
       /\ answer' = [answer EXCEPT ![c] = ShowAnswer(BookNow)]
    \/ /\ r.op \in {"buy", "sell"} /\ r.key \in StockKeys
       /\ BookNow' = [BookNow EXCEPT ![r.key] = NewLeft(r, BookNow[r.key])]
       /\ answer' = [answer EXCEPT ![c] = Answer(Verdict(r, BookNow[r.key]))]
    \/ /\ r.op \in {"buy", "sell"} /\ r.key \notin StockKeys /\ BookNow' = BookNow
       /\ answer' = [answer EXCEPT ![c] = Answer("nosuch")]
    \/ /\ r.op = "invalid" /\ BookNow' = BookNow
       /\ answer' = [answer EXCEPT ![c] = Answer("invalid")]

LEMMA EffectStep ==
    ASSUME NEW c \in Conns, \A d \in Conns : d # c => Pending(d)' = Pending(d),
           NEW r, Pending(c) = r, r # None, Pending(c)' = None, Effect(r, c)
    PROVE  BookStep
<1>1. AskedNow' = [AskedNow EXCEPT ![c] = None] /\ AskedNow[c] = r
  BY SeenByOne
<1>2. Book!Take(c)
  BY <1>1 DEF Book!Take, AskedNow
<1>3. CASE /\ r.op = "show" /\ BookNow' = BookNow
           /\ answer' = [answer EXCEPT ![c] = ShowAnswer(BookNow)]
  <2>1. Book!Show(c)
    BY <1>1, <1>2, <1>3 DEF Book!Show, Book!ShowAnswer, ShowAnswer, BookNow, AskedNow
  <2> QED  BY <2>1 DEF BookStep, Book!Next
<1>4. CASE /\ r.op \in {"buy", "sell"} /\ r.key \in StockKeys
           /\ BookNow' = [BookNow EXCEPT ![r.key] = NewLeft(r, BookNow[r.key])]
           /\ answer' = [answer EXCEPT ![c] = Answer(Verdict(r, BookNow[r.key]))]
  <2>1. Book!Trade(c)
    BY <1>1, <1>2, <1>4
    DEF Book!Trade, Book!Answer, Answer, Book!EmptyBook, EmptyBook, Book!Verdict, Verdict,
        Book!NewLeft, NewLeft, Book!Wrap, Wrap, BookNow, AskedNow
  <2> QED  BY <2>1 DEF BookStep, Book!Next
<1>5. CASE \/ /\ r.op \in {"buy", "sell"} /\ r.key \notin StockKeys /\ BookNow' = BookNow
              /\ answer' = [answer EXCEPT ![c] = Answer("nosuch")]
           \/ /\ r.op = "invalid" /\ BookNow' = BookNow
              /\ answer' = [answer EXCEPT ![c] = Answer("invalid")]
  <2>1. Book!Refuse(c)
    BY <1>1, <1>2, <1>5
    DEF Book!Refuse, Book!Answer, Answer, Book!EmptyBook, EmptyBook, BookNow, AskedNow
  <2> QED  BY <2>1 DEF BookStep, Book!Next
<1> QED  BY <1>3, <1>4, <1>5 DEF Effect

-----------------------------------------------------------------------------
(* Steps of the server. *)

LEMMA ServeLineBook ==
    ASSUME ServerInv, Saved, Saved', ServerInv', ServeLine
    PROVE  BookStep
<1> USE DEF ServerInv
<1>1. Protocol(Serving)
  BY TheServed DEF ServeLine, Goto, Serves, Protocols
<1>2. PICK c \in Conns : /\ Served(c) /\ Carried(c)
                         /\ answer' = [answer EXCEPT ![c] = Reply(Parse(line))]
  BY <1>1, ServeLineCarries
<1>3. PICK r \in AnyRequest : r = Parse(line)
  BY <1>2 DEF Served
<1>4. Pending(c) = r /\ r # None /\ Pending(c)' = None
  BY <1>2, <1>3 DEF Served, Carried
<1>5. \A d \in Conns : d # c => Pending(d)' = Pending(d)
  BY <1>2, LinkStays DEF Carried
<1>6. pc # "load" /\ pc' # "load" /\ r.op # "exit"
  BY <1>3 DEF ServeLine, Goto
<1>7. Traded(r)
  BY <1>3, CarryBook DEF ServeLine, process
<1>8. DOMAIN nodes = StockKeys /\ DOMAIN nodes' = StockKeys
  BY <1>6 DEF Saved
<1>9. /\ BookNow = [k \in StockKeys |-> nodes[k].left_stock]
      /\ BookNow' = [k \in StockKeys |-> nodes'[k].left_stock]
  BY <1>6, BookIs, BookIsNext
<1> HIDE DEF BookNow
<1>10. \A k \in StockKeys :
         BookNow'[k] = IF r.op \in {"buy", "sell"} /\ k = r.key
                       THEN NewLeft(r, BookNow[k]) ELSE BookNow[k]
  BY <1>7, <1>8, <1>9 DEF Traded
<1>11. r.key \in Int /\ r.op \in Ops
  BY DEF AnyRequest
<1>12. /\ FindKey(nodes, root, r.key) = IF r.key \in StockKeys THEN r.key ELSE NULL
       /\ KeysOf(nodes, root) = StockKeys /\ NULL \notin StockKeys
  BY <1>8, <1>11, TreapIsSearchable, EventServerAssumption DEF Searchable
<1>13. ~(r.op \in {"buy", "sell"} /\ r.key \in StockKeys) => BookNow' = BookNow
  <2> SUFFICES ASSUME ~(r.op \in {"buy", "sell"} /\ r.key \in StockKeys)
               PROVE  BookNow' = BookNow
    OBVIOUS
  <2>1. \A k \in StockKeys : BookNow'[k] = BookNow[k]
    BY <1>10
  <2> QED  BY <1>9, <2>1
<1>14. CASE r.op = "show"
  <2>1. Reply(r) = ShowAnswer(BookNow)
    BY <1>9, <1>12, <1>14 DEF Reply
  <2>2. Effect(r, c)
    BY <1>2, <1>3, <1>13, <1>14, <2>1 DEF Effect
  <2> QED  BY <1>4, <1>5, <2>2, EffectStep
<1>15. CASE r.op = "invalid"
  <2>1. Effect(r, c)
    BY <1>2, <1>3, <1>13, <1>15 DEF Effect, Reply
  <2> QED  BY <1>4, <1>5, <2>1, EffectStep
<1>16. CASE r.op \in {"buy", "sell"} /\ r.key \notin StockKeys
  <2>1. Reply(r) = Answer("nosuch")
    BY <1>12, <1>16 DEF Reply
  <2>2. Effect(r, c)
    BY <1>2, <1>3, <1>13, <1>16, <2>1 DEF Effect
  <2> QED  BY <1>4, <1>5, <2>2, EffectStep
<1>17. CASE r.op \in {"buy", "sell"} /\ r.key \in StockKeys
  <2>1. PICK q \in StockKeys : q = r.key
    BY <1>17
  <2>2. Reply(r) = Answer(Verdict(r, BookNow[q]))
    <3>1. nodes[q].left_stock = BookNow[q]
      BY <1>9
    <3> QED  BY <1>12, <1>17, <2>1, <3>1 DEF Reply
  <2>3. BookNow' = [BookNow EXCEPT ![q] = NewLeft(r, BookNow[q])]
    <3>1. PICK v : v = NewLeft(r, BookNow[q])
      OBVIOUS
    <3>2. \A k \in StockKeys : BookNow'[k] = IF k = q THEN v ELSE BookNow[k]
      BY <1>10, <1>17, <2>1, <3>1
    <3>3. BookNow' = [k \in StockKeys |-> BookNow'[k]] /\ BookNow = [k \in StockKeys |-> BookNow[k]]
      BY <1>9
    <3> QED  BY <3>1, <3>2, <3>3
  <2>4. Effect(r, c)
    BY <1>2, <1>3, <1>17, <2>1, <2>2, <2>3 DEF Effect
  <2> QED  BY <1>4, <1>5, <2>4, EffectStep
<1> QED  BY <1>6, <1>11, <1>14, <1>15, <1>16, <1>17 DEF Ops

LEMMA BookStays ==
    ASSUME UNCHANGED <<nodes, stock_txt>>
    PROVE  BookNow' = BookNow
  BY DEF BookNow

\* A line of the file is loaded, the file is saved, or loaded again.
LEMMA BookMoves ==
    ASSUME "load" \notin SigintAt, ServerInv, ServerInv', Saved, Saved', Load \/ Sigint \/ Restart
    PROVE  BookNow' = BookNow
<1> USE DEF ServerInv
<1>1. CASE Load
  <2>1. pc = "load" /\ pc' = "load" /\ stock_txt' = stock_txt
    BY <1>1 DEF Load, Goto, process
  <2> QED  BY <2>1, BookIs, BookIsNext
<1>2. CASE Sigint
  <2>1. pc # "load" /\ pc' # "load" /\ nodes' = nodes
    BY <1>2 DEF Sigint, treap
  <2> QED  BY <2>1, BookIs, BookIsNext
<1>3. CASE Restart
  <2>1. exited = "sigint" /\ pc' = "load" /\ stock_txt' = stock_txt
    BY <1>3 DEF Restart
  <2>2. pc # "load" /\ SameStocks /\ DOMAIN nodes = StockKeys /\ DOMAIN stock_txt = StockKeys
    BY <2>1 DEF Saved
  <2>3. BookNow = [k \in StockKeys |-> stock_txt[k]]
    BY <2>2 DEF BookNow, SameStocks
  <2>4. stock_txt = [k \in StockKeys |-> stock_txt[k]]
    BY <2>2 DEF BookTypes, Books
  <2> QED  BY <2>1, <2>3, <2>4, BookIsNext
<1> QED  BY <1>1, <1>2, <1>3

LEMMA BookNext ==
    ASSUME "load" \notin SigintAt, ServerInv, ServerInv', Saved, Saved', [Next]_vars
    PROVE  BookStep
<1> USE DEF ServerInv
<1>1. CASE Unseen
  <2>1. \A c \in Conns : Pending(c)' = Pending(c)
    BY <1>1, UnseenLinks, LinkStays
  <2>2. answer' = answer
    BY <1>1
    DEF Unseen, Load, InitPool, Select, Accept, TooMany, NextClient, RoundDone, Refill,
        ReadLine, ReadError, ReqEof, WriteError, Sigint, vars, net
  <2>3. CASE Load \/ Sigint
    BY <2>1, <2>2, <2>3, BookMoves, StutterStep
  <2>4. CASE ~Load /\ ~Sigint
    <3>1. UNCHANGED <<nodes, stock_txt>>
      BY <1>1, <2>4
      DEF Unseen, InitPool, Select, Accept, TooMany, NextClient, RoundDone, Refill,
          ReadLine, ReadError, ReqEof, WriteError, vars, treap, process
    <3> QED  BY <2>1, <2>2, <3>1, BookStays, StutterStep
  <2> QED  BY <2>3, <2>4
<1>2. CASE ServeLine
  BY <1>2, ServeLineBook
<1>3. CASE ExitRequest
  <2>1. Protocol(Serving)
    BY <1>3, TheServed DEF ExitRequest, Goto, Serves, Protocols
  <2>2. PICK c \in Conns : Served(c) /\ Carried(c) /\ UNCHANGED answer
    BY <1>3, <2>1, ExitCarries
  <2>3. /\ Pending(c) # None /\ Pending(c).op = "exit" /\ Pending(c)' = None
        /\ \A d \in Conns : d # c => Pending(d)' = Pending(d)
    BY <1>3, <2>2, LinkStays DEF Served, Carried, ExitRequest
  <2>4. BookNow' = BookNow
    BY <1>3, BookStays DEF ExitRequest, treap, process
  <2> QED  BY <2>2, <2>3, <2>4, ExitStep
<1>4. CASE Write
  <2>1. Protocol(Serving)
    BY <1>4, TheServed DEF Write, Goto, Serves, Protocols
  <2>2. PICK c \in Conns : /\ Pending(c)' = Pending(c) /\ answer' = answer
                           /\ \A d \in Conns : d # c => SameLink(d)
    BY <1>4, <2>1, WriteCarries
  <2>3. \A d \in Conns : Pending(d)' = Pending(d)
    BY <2>2, LinkStays
  <2>4. BookNow' = BookNow
    BY <1>4, BookStays DEF Write, treap, process
  <2> QED  BY <2>2, <2>3, <2>4, StutterStep
<1>5. CASE Restart
  <2>1. \A c \in Conns : Pending(c)' = Pending(c)
    BY <1>5, RestartCarries DEF Protocols
  <2>2. answer' = answer
    BY <1>5 DEF Restart
  <2> QED  BY <1>5, <2>1, <2>2, BookMoves, StutterStep
<1>6. ASSUME NEW c \in Conns, Client(c) PROVE BookStep
  <2>1. BookNow' = BookNow
    BY <1>6, BookStays
    DEF Client, Connect, SendHead, SendTail, Receive, Leave, Abort, Reset, treap, process
  <2>2. Protocol(c) /\ \A d \in Conns : d # c => Pending(d)' = Pending(d)
    BY <1>6, OthersStay, LinkStays DEF Protocols
  <2>3. CASE Connect(c) \/ Leave(c)
    BY <2>1, <2>2, <2>3, IdleCarries, StutterStep
  <2>4. CASE SendHead(c)
    BY <2>1, <2>2, <2>4, SendHeadCarries, StutterStep
  <2>5. CASE SendTail(c)
    BY <2>1, <2>2, <2>5, SendTailCarries, AskStep
  <2>6. CASE Receive(c)
    <3>1. Pending(c)' = Pending(c) /\ answer[c] # None
      BY <2>2, <2>6, ReceiveCarries
    <3>2. answer' = [answer EXCEPT ![c] = IF got[c] + 1 = ReplyLen THEN None ELSE @]
      BY <2>6 DEF Receive
    <3>3. answer = [d \in Conns |-> answer[d]]
      BY DEF NetTypes
    <3>4. CASE got[c] + 1 = ReplyLen
      <4>1. answer' = [answer EXCEPT ![c] = None]
        BY <3>2, <3>4
      <4> QED  BY <2>1, <2>2, <3>1, <4>1, ReceiveStep
    <3>5. CASE got[c] + 1 # ReplyLen
      <4>1. answer' = answer
        BY <3>2, <3>3, <3>5
      <4> QED  BY <2>1, <2>2, <3>1, <4>1, StutterStep
    <3> QED  BY <3>4, <3>5
  <2>7. CASE Abort(c)
    <3>1. /\ \/ Pending(c)' = Pending(c)
             \/ Pending(c) = None /\ answer[c] = None /\ Pending(c)' \in AllRequests
      BY <2>2, <2>7, AbortCarries
    <3>2. answer' = [answer EXCEPT ![c] = None] /\ answer = [d \in Conns |-> answer[d]]
      BY <2>7 DEF Abort, NetTypes
    <3>3. answer[c] = None => answer' = answer
      BY <3>2
    <3>4. CASE answer[c] # None
      BY <2>1, <2>2, <3>1, <3>2, <3>4, ReceiveStep
    <3>5. CASE answer[c] = None
      BY <2>1, <2>2, <3>1, <3>3, <3>5, AskStep, StutterStep
    <3> QED  BY <3>4, <3>5
  <2>8. CASE Reset(c)
    <3>1. \A d \in Conns : Pending(d)' = Pending(d)
      BY <2>8, ResetCarries, LinkStays
    <3>2. answer' = answer
      BY <2>8 DEF Reset
    <3> QED  BY <2>1, <3>1, <3>2, StutterStep
  <2> QED  BY <1>6, <2>3, <2>4, <2>5, <2>6, <2>7, <2>8 DEF Client
<1> QED  BY <1>1, <1>2, <1>3, <1>4, <1>5, <1>6 DEF Next, Server, Unseen

\* A SIGINT that does not come while the file is read finds and leaves the whole
\* book, and every request takes effect once, at one moment before its reply,
\* however its line and its reply are cut into pieces and whoever dies.
THEOREM EventServerImplementsBook ==
    ASSUME "load" \notin SigintAt
    PROVE  Spec => ImplementsBook
<1> DEFINE Inv == ServerInv /\ Saved
<1>1. Init => Book!Init
  <2> SUFFICES ASSUME Init PROVE Book!Init
    OBVIOUS
  <2>1. /\ nodes = NoTree /\ stock_txt = InitStock /\ pc = "load"
        /\ answer = [c \in Conns |-> None] /\ inbox = [c \in Conns |-> <<>>]
    BY DEF Init
  <2>2. BookNow = InitStock
    BY <2>1, InitBook, InitSaved, BookIs
  <2>3. <<>> \o <<>> = <<>>
    BY ConcatIs, EmptyIs
  <2>4. \A c \in Conns : Pending(c) = None
    BY <2>1, <2>3 DEF Pending, Stream
  <2> QED  BY <2>1, <2>2, <2>4 DEF Book!Init, BookNow
<1>2. Init => Inv
  BY InitServerInv, InitSaved
<1>3. Inv /\ [Next]_vars => Inv'
  BY NextServerInv, SavedNext
<1>4. Inv /\ Inv' /\ [Next]_vars => [Book!Next]_(Book!vars)
  BY BookNext DEF BookStep
<1> HIDE DEF Inv
<1> QED  BY <1>1, <1>2, <1>3, <1>4, PTL DEF Spec, ImplementsBook, Book!Spec
=============================================================================
