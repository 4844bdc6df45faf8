------------------------------- MODULE Treap -------------------------------
(***************************************************************************)
(* treap.c: the search tree of the stocks, a binary search tree on the keys *)
(* that is a heap on random priorities.  The nodes are the records of a     *)
(* function `t' from pointers, and a pointer is the key of its node: keys   *)
(* are unique.  The C functions change nodes in place and return a root, so *)
(* an operator takes t and returns [t, root] or [t, first, second].  The    *)
(* recursion is a recursive function over the pointers; the price and the   *)
(* fields of the unused lock are left out.                                  *)
(***************************************************************************)
EXTENDS Integers, Sequences, Functions

CONSTANT NULL

\* init_node; the caller chooses the priority that rand() returns.
InitNode(left_stock, priority) ==
    [left_stock |-> left_stock, size |-> 1, priority |-> priority,
     left |-> NULL, right |-> NULL]

SizeOf(t, n) == IF n = NULL THEN 0 ELSE t[n].size

CalcSize(t, n) ==
    [t EXCEPT ![n].size = 1 + SizeOf(t, t[n].left) + SizeOf(t, t[n].right)]

SetLeft(t, n, new_left) == CalcSize([t EXCEPT ![n].left = new_left], n)
SetRight(t, n, new_right) == CalcSize([t EXCEPT ![n].right = new_right], n)

\* The tree under root as two: the keys below key, and the others.
Split(tree, root, key) ==
    LET split[n \in DOMAIN tree \cup {NULL}] ==
        IF n = NULL THEN [t |-> tree, first |-> NULL, second |-> NULL]
        ELSE IF key > n
        THEN LET rs == split[tree[n].right] IN
             [t |-> SetRight(rs.t, n, rs.first), first |-> n, second |-> rs.second]
        ELSE LET ls == split[tree[n].left] IN
             [t |-> SetLeft(ls.t, n, ls.second), first |-> ls.first, second |-> n]
    IN split[root]

\* node, which is in t, is put under root.
Insert(tree, root, node) ==
    LET ins[n \in DOMAIN tree \cup {NULL}] ==
        IF n = NULL THEN [t |-> tree, root |-> node]
        ELSE IF tree[n].priority < tree[node].priority
        THEN LET s == Split(tree, n, node) IN
             [t |-> SetRight(SetLeft(s.t, node, s.first), node, s.second), root |-> node]
        ELSE IF n > node
        THEN LET r == ins[tree[n].left] IN [t |-> SetLeft(r.t, n, r.root), root |-> n]
        ELSE LET r == ins[tree[n].right] IN [t |-> SetRight(r.t, n, r.root), root |-> n]
    IN ins[root]

\* Mutant: the smaller priority becomes the root.
MergeUpsideDown(tree, a, b) ==
    LET Pairs == (DOMAIN tree \cup {NULL}) \X (DOMAIN tree \cup {NULL})
        merge[p \in Pairs] ==
        IF p[1] = NULL THEN [t |-> tree, root |-> p[2]]
        ELSE IF p[2] = NULL THEN [t |-> tree, root |-> p[1]]
        ELSE IF tree[p[1]].priority >= tree[p[2]].priority
        THEN LET m == merge[<<p[1], tree[p[2]].left>>] IN
             [t |-> SetLeft(m.t, p[2], m.root), root |-> p[2]]
        ELSE LET m == merge[<<tree[p[1]].right, p[2]>>] IN
             [t |-> SetRight(m.t, p[1], m.root), root |-> p[1]]
    IN merge[<<a, b>>]

\* One tree of two, when every key of a is below every key of b.
Merge(tree, a, b) ==
    LET Pairs == (DOMAIN tree \cup {NULL}) \X (DOMAIN tree \cup {NULL})
        merge[p \in Pairs] ==
        IF p[1] = NULL THEN [t |-> tree, root |-> p[2]]
        ELSE IF p[2] = NULL THEN [t |-> tree, root |-> p[1]]
        ELSE IF tree[p[1]].priority < tree[p[2]].priority
        THEN LET m == merge[<<p[1], tree[p[2]].left>>] IN
             [t |-> SetLeft(m.t, p[2], m.root), root |-> p[2]]
        ELSE LET m == merge[<<tree[p[1]].right, p[2]>>] IN
             [t |-> SetRight(m.t, p[1], m.root), root |-> p[1]]
    IN merge[<<a, b>>]

\* The tree without key.
Erase(tree, root, key) ==
    LET erase[n \in DOMAIN tree \cup {NULL}] ==
        IF n = NULL THEN [t |-> tree, root |-> NULL]
        ELSE IF n = key THEN Merge(tree, tree[n].left, tree[n].right)
        ELSE IF n > key
        THEN LET r == erase[tree[n].left] IN [t |-> SetLeft(r.t, n, r.root), root |-> n]
        ELSE LET r == erase[tree[n].right] IN [t |-> SetRight(r.t, n, r.root), root |-> n]
    IN erase[root]

FindKey(t, root, key) ==
    LET find[n \in DOMAIN t \cup {NULL}] ==
        IF n = NULL THEN NULL
        ELSE IF n = key THEN n
        ELSE IF n > key THEN find[t[n].left] ELSE find[t[n].right]
    IN find[root]

\* The nodes in the order print_in_buf and print_console visit them.
InOrder(t, root) ==
    LET visit[n \in DOMAIN t \cup {NULL}] ==
        IF n = NULL THEN <<>> ELSE visit[t[n].left] \o <<n>> \o visit[t[n].right]
    IN visit[root]

-----------------------------------------------------------------------------
(* What a tree is to be. *)

KeysOf(t, root) == Range(InOrder(t, root))

\* A treap of the keys K: in order, a heap, and each node counts its tree.
IsTreap(t, root, K) ==
    LET order == InOrder(t, root) IN
    /\ Len(order) = SizeOf(t, root) /\ KeysOf(t, root) = K
    /\ \A i, j \in DOMAIN order : i < j => order[i] < order[j]
    /\ \A n \in K : \A child \in {t[n].left, t[n].right} \ {NULL} :
         t[child].priority <= t[n].priority
    /\ \A n \in K : t[n].size = 1 + SizeOf(t, t[n].left) + SizeOf(t, t[n].right)
=============================================================================
