------------------------------- MODULE Counts -------------------------------
(* Finite sets of threads and of keys: how the number of threads at some       *)
(* labels changes when one thread moves, and the least key of a set; functions *)
(* defined by recursion on a finite order, and sums over finite sets.          *)
EXTENDS Integers, FiniteSets, FiniteSetTheorems, WellFoundedInduction, TLAPS

\* Two finite sets that agree on everything but t differ in size by what t's
\* membership of each contributes.
LEMMA CountStep ==
    ASSUME NEW A, IsFiniteSet(A), NEW B, NEW t, A \ {t} = B \ {t}
    PROVE  /\ IsFiniteSet(B)
           /\ Cardinality(A) \in Nat /\ Cardinality(B) \in Nat
           /\ t \in A => Cardinality(A) > 0
           /\ Cardinality(B) = Cardinality(A)
                + (IF t \in B THEN 1 ELSE 0) - (IF t \in A THEN 1 ELSE 0)
<1>1. Cardinality(A) \in Nat /\ (t \in A => Cardinality(A) # 0)
  BY FS_CardinalityType, FS_EmptySet
<1>2. CASE t \in A /\ t \in B
  <2>1. A = B
    BY <1>2
  <2> QED  BY <1>1, <1>2, <2>1
<1>3. CASE t \in A /\ t \notin B
  <2>1. B = A \ {t}
    BY <1>3
  <2>2. IsFiniteSet(A \ {t}) /\ Cardinality(A \ {t}) = Cardinality(A) - 1
    BY <1>3, FS_RemoveElement
  <2> QED  BY <1>1, <1>3, <2>1, <2>2
<1>4. CASE t \notin A /\ t \in B
  <2>1. B = A \cup {t}
    BY <1>4
  <2>2. IsFiniteSet(A \cup {t}) /\ Cardinality(A \cup {t}) = Cardinality(A) + 1
    BY <1>4, FS_AddElement
  <2> QED  BY <1>1, <1>4, <2>1, <2>2
<1>5. CASE t \notin A /\ t \notin B
  <2>1. A = B
    BY <1>5
  <2> QED  BY <1>1, <1>5, <2>1
<1> QED  BY <1>2, <1>3, <1>4, <1>5

\* A set of natural numbers has a least element.
LEMMA LeastNatural ==
    ASSUME NEW T \in SUBSET Nat, T # {}
    PROVE  \E m \in T : \A x \in T : m <= x
<1>1. PICK m \in T : \A y \in T : ~ (<<y, m>> \in OpToRel(<, Nat))
  BY NatLessThanWellFounded, WFMin
<1>2. \A y \in T : ~ (y < m)
  BY <1>1 DEF OpToRel
<1> QED  BY <1>2

\* So has a finite set of integers: the one with the fewest elements up to it.
LEMMA LeastInteger ==
    ASSUME NEW S \in SUBSET Int, IsFiniteSet(S), S # {}
    PROVE  \E m \in S : \A x \in S : m <= x
<1> DEFINE Upto(x) == {y \in S : y <= x}
           T == {Cardinality(Upto(x)) : x \in S}
<1>1. \A x \in S : IsFiniteSet(Upto(x)) /\ Cardinality(Upto(x)) \in Nat
  BY FS_Subset, FS_CardinalityType
<1>2. PICK n \in T : \A k \in T : n <= k
  <2>1. T \in SUBSET Nat /\ T # {}
    BY <1>1
  <2> QED  BY <2>1, LeastNatural
<1>3. PICK m \in S : n = Cardinality(Upto(m))
  BY <1>2
<1>4. ASSUME NEW x \in S, x < m PROVE FALSE
  <2>1. Upto(x) \subseteq Upto(m) /\ m \in Upto(m) /\ m \notin Upto(x)
    <3>1. x \in Int /\ m \in Int /\ \A y \in S : y \in Int
      OBVIOUS
    <3>2. \A y \in S : y <= x => y <= m
      BY <1>4, <3>1
    <3>3. m <= m /\ ~(m <= x)
      BY <1>4, <3>1
    <3> QED  BY <3>2, <3>3
  <2>2. Cardinality(Upto(x)) <= Cardinality(Upto(m))
        /\ Cardinality(Upto(m)) # Cardinality(Upto(x))
    BY <1>1, <1>3, <2>1, FS_Subset
  <2>3. Cardinality(Upto(m)) <= Cardinality(Upto(x))
    BY <1>2, <1>3
  <2> QED  BY <1>1, <1>3, <2>2, <2>3
<1> QED  BY <1>4

-----------------------------------------------------------------------------
(* Recursive functions over a finite order.  D is what they are defined on, *)
(* S where the recursion stops, and l and r what a value depends on.        *)

Recurses(g, D, X, S, base, l, r, F) ==
    /\ g \in [D -> X]
    /\ \A n \in D : g[n] = IF n \in S THEN base[n] ELSE F[n][g[l[n]]][g[r[n]]]

Descends(D, S, l, r, rank, N) ==
    /\ N \in Nat /\ l \in [D -> D] /\ r \in [D -> D] /\ rank \in [D -> 0..N]
    /\ \A n \in D : n \notin S => rank[l[n]] < rank[n] /\ rank[r[n]] < rank[n]

LEMMA Recursion ==
    ASSUME NEW D, NEW X, NEW S, NEW base \in [D -> X], NEW l, NEW r, NEW rank, NEW N,
           Descends(D, S, l, r, rank, N), NEW F \in [D -> [X -> [X -> X]]]
    PROVE  \E g : Recurses(g, D, X, S, base, l, r, F)
<1> DEFINE Value(g, n) == IF n \in S THEN base[n] ELSE F[n][g[l[n]]][g[r[n]]]
           Upto(g, k) == \A n \in D : rank[n] < k => g[n] = Value(g, n)
           Some(k) == \E g \in [D -> X] : Upto(g, k)
           Bad == {k \in Nat : ~Some(k)}
<1>1. /\ N \in Nat /\ l \in [D -> D] /\ r \in [D -> D] /\ rank \in [D -> 0..N]
      /\ \A n \in D : n \notin S => rank[l[n]] < rank[n] /\ rank[r[n]] < rank[n]
  BY DEF Descends
<1>2. Some(0)
  <2>1. Upto(base, 0)
    BY <1>1
  <2> HIDE DEF Upto
  <2> QED  BY <2>1
<1>3. ASSUME NEW k \in Nat, Some(k)
      PROVE  Some(k + 1)
  <2>1. PICK g \in [D -> X] : Upto(g, k)
    BY <1>3
  <2> DEFINE h == [n \in D |-> Value(g, n)]
  <2>2. \A n \in D : Value(g, n) \in X
    BY <1>1
  <2>3. h \in [D -> X] /\ \A n \in D : h[n] = Value(g, n)
    BY <2>2
  <2> HIDE DEF h
  <2>4. \A n \in D : rank[n] < k => h[n] = g[n]
    BY <2>1, <2>3
  <2>5. ASSUME NEW n \in D, rank[n] < k + 1
        PROVE  h[n] = Value(h, n)
    <3>1. CASE n \in S
      BY <2>3, <3>1
    <3>2. CASE n \notin S
      <4>1. /\ l[n] \in D /\ r[n] \in D /\ rank[n] \in Int
            /\ rank[l[n]] \in Int /\ rank[r[n]] \in Int
            /\ rank[l[n]] < rank[n] /\ rank[r[n]] < rank[n]
        BY <1>1, <3>2
      <4>2. rank[l[n]] < k /\ rank[r[n]] < k
        BY <2>5, <4>1
      <4>3. h[l[n]] = g[l[n]] /\ h[r[n]] = g[r[n]]
        BY <2>4, <4>1, <4>2
      <4>4. h[n] = F[n][g[l[n]]][g[r[n]]]
        BY <2>3, <3>2
      <4> QED  BY <3>2, <4>3, <4>4
    <3> QED  BY <3>1, <3>2
  <2>6. Upto(h, k + 1)
    BY <2>5
  <2> HIDE DEF Upto
  <2> QED  BY <2>3, <2>6
<1> HIDE DEF Some
<1>4. Bad = {}
  <2> SUFFICES ASSUME Bad # {} PROVE FALSE
    OBVIOUS
  <2>1. Bad \in SUBSET Nat
    OBVIOUS
  <2>2. PICK k \in Bad : \A x \in Bad : k <= x
    <3> HIDE DEF Bad
    <3> QED  BY <2>1, LeastNatural
  <2>3. k # 0 /\ k \in Nat /\ ~Some(k)
    BY <1>2
  <2>4. k - 1 \in Nat /\ ~(k <= k - 1) /\ (k - 1) + 1 = k
    BY <2>3
  <2>5. Some(k - 1)
    BY <2>2, <2>4
  <2> QED  BY <1>3, <2>3, <2>4, <2>5
<1>5. PICK g \in [D -> X] : Upto(g, N + 1)
  <2>1. N + 1 \in Nat
    BY ONLY <1>1
  <2>2. Some(N + 1)
    BY <1>4, <2>1
  <2> QED  BY <2>2 DEF Some
<1>6. \A n \in D : g[n] = Value(g, n)
  <2>1. \A n \in D : rank[n] < N + 1
    BY <1>1
  <2> QED  BY <1>5, <2>1
<1> QED  BY <1>5, <1>6 DEF Recurses

-----------------------------------------------------------------------------
(* Sums over the parts of a finite set S, one element after another in the order of pick. *)

Totals(g, S, f, pick) ==
    /\ IsFiniteSet(S) /\ g \in [SUBSET S -> Int] /\ \A i \in S : f[i] \in Int
    /\ \A s \in SUBSET S : s # {} => pick[s] \in s
    /\ \A s \in SUBSET S : g[s] = IF s = {} THEN 0 ELSE f[pick[s]] + g[s \ {pick[s]}]

LEMMA TotalsExist ==
    ASSUME NEW S, IsFiniteSet(S), NEW f, \A i \in S : f[i] \in Int,
           NEW pick, \A s \in SUBSET S : s # {} => pick[s] \in s
    PROVE  \E g : Totals(g, S, f, pick)
<1> DEFINE P == SUBSET S
           Z == {{}}
           N == Cardinality(S)
           l == [s \in P |-> IF s = {} THEN s ELSE s \ {pick[s]}]
           rank == [s \in P |-> Cardinality(s)]
           base == [s \in P |-> 0]
           F == [s \in P |-> [x \in Int |-> [y \in Int |-> IF s = {} THEN 0 ELSE f[pick[s]] + x]]]
<1>1. N \in Nat /\ \A s \in P : IsFiniteSet(s) /\ Cardinality(s) \in 0..N
  <2>1. N \in Nat
    BY FS_CardinalityType
  <2>2. ASSUME NEW s \in P PROVE IsFiniteSet(s) /\ Cardinality(s) \in Nat /\ Cardinality(s) <= N
    BY FS_Subset, FS_CardinalityType
  <2> QED  BY <2>1, <2>2
<1>2. l \in [P -> P] /\ base \in [P -> Int]
  <2>1. \A s \in P : (IF s = {} THEN s ELSE s \ {pick[s]}) \in P
    OBVIOUS
  <2> QED  BY <2>1
<1>3. rank \in [P -> 0..N]
  BY <1>1
<1>4. ASSUME NEW s \in P, s \notin Z PROVE rank[l[s]] < rank[s]
  <2>1. l[s] = s \ {pick[s]} /\ pick[s] \in s /\ l[s] \in P
    BY <1>2, <1>4
  <2>2. rank[l[s]] = Cardinality(s \ {pick[s]}) /\ rank[s] = Cardinality(s)
    BY <2>1
  <2>3. Cardinality(s \ {pick[s]}) = Cardinality(s) - 1 /\ Cardinality(s) \in Int
    BY <1>1, <2>1, FS_RemoveElement
  <2> QED  BY <2>2, <2>3
<1>5. F \in [P -> [Int -> [Int -> Int]]]
  <2>1. ASSUME NEW s \in P, NEW x \in Int, NEW y \in Int
        PROVE  (IF s = {} THEN 0 ELSE f[pick[s]] + x) \in Int
    <3>1. s # {} => f[pick[s]] \in Int
      OBVIOUS
    <3> QED  BY <3>1
  <2> QED  BY <2>1
<1>6. \A s \in P : \A x, y \in Int : s # {} => F[s][x][y] = f[pick[s]] + x
  OBVIOUS
<1>7. \A s \in P : (s # {} => l[s] = s \ {pick[s]}) /\ base[s] = 0 /\ (s \in Z <=> s = {})
  OBVIOUS
<1> HIDE DEF P, Z, N, l, rank, base, F
<1>8. Descends(P, Z, l, l, rank, N)
  BY <1>1, <1>2, <1>3, <1>4 DEF Descends
<1>9. PICK g : Recurses(g, P, Int, Z, base, l, l, F)
  BY <1>2, <1>5, <1>8, Recursion
<1>10. ASSUME NEW s \in P PROVE g[s] = IF s = {} THEN 0 ELSE f[pick[s]] + g[s \ {pick[s]}]
  <2>1. g \in [P -> Int] /\ l[s] \in P /\ g[l[s]] \in Int
    BY <1>2, <1>9 DEF Recurses
  <2>2. g[s] = IF s \in Z THEN base[s] ELSE F[s][g[l[s]]][g[l[s]]]
    BY <1>9 DEF Recurses
  <2>3. CASE s = {}
    BY <1>7, <2>2, <2>3
  <2>4. CASE s # {}
    <3>1. g[s] = F[s][g[l[s]]][g[l[s]]] /\ l[s] = s \ {pick[s]}
      BY <1>7, <2>2, <2>4
    <3>2. PICK x \in Int : x = g[l[s]]
      BY <2>1
    <3>3. F[s][x][x] = f[pick[s]] + x
      BY <1>6, <2>4
    <3> QED  BY <2>4, <3>1, <3>2, <3>3
  <2> QED  BY <2>3, <2>4
<1>11. g \in [P -> Int]
  BY <1>9 DEF Recurses
<1> QED  BY <1>10, <1>11 DEF Totals, P

\* The order does not matter.
LEMMA TotalsAdd ==
    ASSUME NEW g, NEW S, NEW f, NEW pick, Totals(g, S, f, pick)
    PROVE  \A s \in SUBSET S : \A i \in s : g[s] = f[i] + g[s \ {i}]
<1> DEFINE Bad == {s \in SUBSET S : \E i \in s : g[s] # f[i] + g[s \ {i}]}
           T == {Cardinality(s) : s \in Bad}
<1> SUFFICES ASSUME Bad # {} PROVE FALSE
  OBVIOUS
<1>1. \A s \in SUBSET S : IsFiniteSet(s) /\ Cardinality(s) \in Nat
  BY FS_Subset, FS_CardinalityType DEF Totals
<1>2. PICK s \in Bad : \A t \in Bad : Cardinality(s) <= Cardinality(t)
  <2>1. T \in SUBSET Nat /\ T # {}
    BY <1>1
  <2>2. PICK n \in T : \A k \in T : n <= k
    BY <2>1, LeastNatural
  <2> QED  BY <2>2
<1>3. PICK i \in s : g[s] # f[i] + g[s \ {i}]
  BY <1>2
<1>4. PICK x : x = pick[s]
  OBVIOUS
<1>5. PICK t, u, w : t = s \ {x} /\ u = s \ {i} /\ w = (s \ {x}) \ {i}
  OBVIOUS
<1>6. /\ x \in s /\ g[s] = f[x] + g[t] /\ i # x
      /\ s \in SUBSET S /\ t \in SUBSET S /\ u \in SUBSET S /\ w \in SUBSET S
  BY <1>2, <1>3, <1>4, <1>5 DEF Totals
<1>7. i \in t /\ x \in u /\ w = t \ {i} /\ w = u \ {x}
  BY <1>3, <1>5, <1>6
<1>8. Cardinality(t) < Cardinality(s) /\ Cardinality(u) < Cardinality(s)
  <2>1. Cardinality(t) = Cardinality(s) - 1 /\ Cardinality(u) = Cardinality(s) - 1
    BY <1>1, <1>3, <1>5, <1>6, FS_RemoveElement
  <2> QED  BY <1>1, <1>6, <2>1
<1>9. t \notin Bad /\ u \notin Bad
  BY <1>1, <1>2, <1>6, <1>8
<1>10. g[t] = f[i] + g[w] /\ g[u] = f[x] + g[w]
  BY <1>6, <1>7, <1>9
<1>11. f[i] \in Int /\ f[x] \in Int /\ g[w] \in Int /\ g[s] # f[i] + g[u]
  BY <1>3, <1>5, <1>6 DEF Totals
<1> QED  BY <1>6, <1>10, <1>11

LEMMA TotalsAgree ==
    ASSUME NEW g, NEW S, NEW f, NEW p, Totals(g, S, f, p),
           NEW h, NEW T, NEW e, NEW q, Totals(h, T, e, q),
           NEW U \in SUBSET S, U \in SUBSET T, \A i \in U : f[i] = e[i]
    PROVE  g[U] = h[U]
<1> DEFINE Bad == {s \in SUBSET U : g[s] # h[s]}
           C == {Cardinality(s) : s \in Bad}
<1> SUFFICES ASSUME Bad # {} PROVE FALSE
  OBVIOUS
<1>1. \A s \in SUBSET U : IsFiniteSet(s) /\ Cardinality(s) \in Nat
  BY FS_Subset, FS_CardinalityType DEF Totals
<1>2. PICK s \in Bad : \A t \in Bad : Cardinality(s) <= Cardinality(t)
  <2>1. C \in SUBSET Nat /\ C # {}
    BY <1>1
  <2>2. PICK n \in C : \A k \in C : n <= k
    BY <2>1, LeastNatural
  <2> QED  BY <2>2
<1>3. s # {}
  <2>1. {} \in SUBSET S /\ {} \in SUBSET T
    OBVIOUS
  <2>2. g[{}] = 0 /\ h[{}] = 0
    BY <2>1 DEF Totals
  <2> QED  BY <1>2, <2>2
<1>4. PICK i \in s : TRUE
  BY <1>3
<1>5. s \in SUBSET S /\ s \in SUBSET T /\ s \in SUBSET U /\ s \ {i} \in SUBSET U /\ f[i] = e[i]
  BY <1>2, <1>4
<1>6. g[s] = f[i] + g[s \ {i}] /\ h[s] = e[i] + h[s \ {i}]
  BY <1>4, <1>5, TotalsAdd
<1>7. Cardinality(s \ {i}) < Cardinality(s)
  <2>1. Cardinality(s \ {i}) = Cardinality(s) - 1
    BY <1>1, <1>4, <1>5, FS_RemoveElement
  <2> QED  BY <1>1, <1>5, <2>1
<1>8. s \ {i} \notin Bad
  BY <1>1, <1>2, <1>5, <1>7
<1> QED  BY <1>2, <1>5, <1>6, <1>8

\* v is the sum of f over the finite set S.
IsSum(v, S, f) == \E g, pick : Totals(g, S, f, pick) /\ v = g[S]

LEMMA SumOfNone ==
    ASSUME NEW v, NEW f, IsSum(v, {}, f) PROVE v = 0
<1>1. PICK g, pick : Totals(g, {}, f, pick) /\ v = g[{}]
  BY DEF IsSum
<1>2. {} \in SUBSET {}
  OBVIOUS
<1> QED  BY <1>1, <1>2 DEF Totals

LEMMA SumIs ==
    ASSUME NEW S, NEW f, NEW v, IsSum(v, S, f) PROVE v \in Int /\ IsFiniteSet(S) /\ \A i \in S : f[i] \in Int
<1>1. PICK g, pick : Totals(g, S, f, pick) /\ v = g[S]
  BY DEF IsSum
<1>2. S \in SUBSET S
  OBVIOUS
<1> QED  BY <1>1, <1>2 DEF Totals

LEMMA SumIsUnique ==
    ASSUME NEW S, NEW f, NEW e, \A i \in S : f[i] = e[i], NEW v, IsSum(v, S, f), NEW w, IsSum(w, S, e)
    PROVE  v = w
<1>1. PICK g, p : Totals(g, S, f, p) /\ v = g[S]
  BY DEF IsSum
<1>2. PICK h, q : Totals(h, S, e, q) /\ w = h[S]
  BY DEF IsSum
<1>3. S \in SUBSET S
  OBVIOUS
<1> QED  BY <1>1, <1>2, <1>3, TotalsAgree

LEMMA SumWithout ==
    ASSUME NEW S, NEW f, NEW v, NEW i, NEW e, NEW w, i \in S,
           IsSum(v, S, f), IsSum(w, S \ {i}, e), \A j \in S \ {i} : f[j] = e[j]
    PROVE  v = f[i] + w
<1>1. PICK g, p : Totals(g, S, f, p) /\ v = g[S]
  BY DEF IsSum
<1>2. PICK h, q : Totals(h, S \ {i}, e, q) /\ w = h[S \ {i}]
  BY DEF IsSum
<1>3. S \in SUBSET S /\ S \ {i} \in SUBSET S /\ S \ {i} \in SUBSET (S \ {i})
  OBVIOUS
<1>4. g[S] = f[i] + g[S \ {i}]
  BY <1>1, <1>3, TotalsAdd
<1>5. g[S \ {i}] = h[S \ {i}]
  BY <1>1, <1>2, <1>3, TotalsAgree
<1> QED  BY <1>1, <1>2, <1>4, <1>5

\* What satisfies the equation is the sum.
LEMMA TotalsChosen ==
    ASSUME NEW S, NEW f, NEW pick, NEW h, Totals(h, S, f, pick),
           NEW k, \E F : k = [s \in SUBSET S |-> F[s]],
           \A s \in SUBSET S : k[s] = IF s = {} THEN 0 ELSE f[pick[s]] + k[s \ {pick[s]}]
    PROVE  Totals(k, S, f, pick)
<1> DEFINE Bad == {s \in SUBSET S : h[s] # k[s]}
           C == {Cardinality(s) : s \in Bad}
<1>1. \A s \in SUBSET S : IsFiniteSet(s) /\ Cardinality(s) \in Nat
  BY FS_Subset, FS_CardinalityType DEF Totals
<1>2. Bad = {}
  <2> SUFFICES ASSUME Bad # {} PROVE FALSE
    OBVIOUS
  <2>1. PICK s \in Bad : \A t \in Bad : Cardinality(s) <= Cardinality(t)
    <3>1. C \in SUBSET Nat /\ C # {}
      BY <1>1
    <3>2. PICK n \in C : \A m \in C : n <= m
      BY <3>1, LeastNatural
    <3> QED  BY <3>2
  <2>2. s # {}
    <3>1. {} \in SUBSET S
      OBVIOUS
    <3> QED  BY <2>1, <3>1 DEF Totals
  <2>3. PICK x : x = pick[s]
    OBVIOUS
  <2>4. x \in s /\ s \in SUBSET S /\ s \ {x} \in SUBSET S
    BY <2>1, <2>2, <2>3 DEF Totals
  <2>5. h[s] = f[x] + h[s \ {x}] /\ k[s] = f[x] + k[s \ {x}]
    BY <2>2, <2>3, <2>4 DEF Totals
  <2>6. Cardinality(s \ {x}) < Cardinality(s)
    <3>1. Cardinality(s \ {x}) = Cardinality(s) - 1
      BY <1>1, <2>4, FS_RemoveElement
    <3> QED  BY <1>1, <2>4, <3>1
  <2>7. s \ {x} \notin Bad
    BY <1>1, <2>1, <2>4, <2>6
  <2> QED  BY <2>1, <2>4, <2>5, <2>7
<1>3. h \in [SUBSET S -> Int] /\ \A s \in SUBSET S : h[s] = k[s]
  BY <1>2 DEF Totals
<1>4. k \in [SUBSET S -> Int]
  BY <1>3
<1> QED  BY <1>4 DEF Totals

\* Sums that change by one element.

LEMMA SumExists ==
    ASSUME NEW S, IsFiniteSet(S), NEW f, \A i \in S : f[i] \in Int
    PROVE  \E v : IsSum(v, S, f)
<1> DEFINE pick == [s \in SUBSET S |-> CHOOSE x \in s : TRUE]
<1>1. \A s \in SUBSET S : s # {} => pick[s] \in s
  OBVIOUS
<1> HIDE DEF pick
<1>2. PICK g : Totals(g, S, f, pick)
  BY <1>1, TotalsExist
<1> QED  BY <1>2 DEF IsSum

LEMMA SumAdds ==
    ASSUME NEW S, NEW f, NEW v, IsSum(v, S, f),
           NEW i, i \notin S, NEW e, e[i] \in Int, \A j \in S : f[j] = e[j]
    PROVE  IsSum(v + e[i], S \cup {i}, e)
<1>1. v \in Int /\ IsFiniteSet(S) /\ \A j \in S : f[j] \in Int
  BY SumIs
<1>2. PICK T : T = S \cup {i}
  OBVIOUS
<1>3. IsFiniteSet(T) /\ \A j \in T : e[j] \in Int
  BY <1>1, <1>2, FS_AddElement
<1>4. PICK w : IsSum(w, T, e)
  BY <1>3, SumExists
<1>5. T \ {i} = S /\ i \in T
  BY <1>2
<1>6. w = e[i] + v
  <2>1. IsSum(v, T \ {i}, f)
    BY <1>5
  <2>2. \A j \in T \ {i} : e[j] = f[j]
    BY <1>5
  <2> QED  BY <1>4, <1>5, <2>1, <2>2, SumWithout
<1>7. w = v + e[i]
  BY <1>1, <1>6
<1> QED  BY <1>2, <1>4, <1>7

LEMMA SumRemoves ==
    ASSUME NEW S, NEW f, NEW v, IsSum(v, S, f), NEW i, i \in S
    PROVE  IsSum(v - f[i], S \ {i}, f) /\ f[i] \in Int /\ v \in Int
<1>1. v \in Int /\ IsFiniteSet(S) /\ \A j \in S : f[j] \in Int
  BY SumIs
<1>2. PICK T : T = S \ {i}
  OBVIOUS
<1>3. IsFiniteSet(T) /\ \A j \in T : f[j] \in Int
  BY <1>1, <1>2, FS_RemoveElement
<1>4. PICK w : IsSum(w, T, f)
  BY <1>3, SumExists
<1>5. v = f[i] + w
  BY <1>2, <1>4, SumWithout
<1>6. w \in Int
  BY <1>4, SumIs
<1>7. w = v - f[i]
  BY <1>1, <1>5, <1>6
<1> QED  BY <1>1, <1>2, <1>4, <1>7

LEMMA SumOfNothing == ASSUME NEW f PROVE IsSum(0, {}, f)
<1>1. PICK v : IsSum(v, {}, f)
  BY FS_EmptySet, SumExists
<1>2. v = 0
  BY <1>1, SumOfNone
<1> QED  BY <1>1, <1>2
=============================================================================
