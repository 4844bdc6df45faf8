----------------------------- MODULE Allocator -----------------------------
(***************************************************************************)
(* What a malloc package promises the programs that use it (and what       *)
(* mdriver's eval_mm_valid looks for): each live block is an aligned range *)
(* of bytes inside the heap that no other live block shares, and it keeps  *)
(* the bytes its owner has written until the owner gives it back, also     *)
(* when a realloc moves it.                                                *)
(***************************************************************************)
EXTENDS Integers

CONSTANTS
    Ids,          \* the names the owners give their blocks
    Sizes,        \* the sizes they ask for
    ALIGNMENT,
    MAX_HEAP,
    NULL          \* no block

VARIABLES
    ptr,     \* ptr[i]: the address of block i, or NULL
    size,    \* size[i]: the bytes its owner may use
    kept     \* kept[i]: how many of them are known to hold the owner's data

vars == <<ptr, size, kept>>

Live == {i \in Ids : ptr[i] # NULL}

Init ==
    /\ ptr = [i \in Ids |-> NULL]
    /\ size = [i \in Ids |-> 0]
    /\ kept = [i \in Ids |-> 0]

\* [lo, lo + s) is apart from block i.
Apart(lo, s, i) == lo + s <= ptr[i] \/ ptr[i] + size[i] <= lo

Fits(lo, s, others) ==
    /\ lo % ALIGNMENT = 0 /\ lo + s <= MAX_HEAP
    /\ \A i \in others : Apart(lo, s, i)

Least(a, b) == IF a < b THEN a ELSE b

\* Block i becomes the s bytes at some address lo, of which k are kept.
Occupy(i, s, k) ==
    \E lo \in 1..MAX_HEAP :
        /\ Fits(lo, s, Live \ {i})
        /\ ptr' = [ptr EXCEPT ![i] = lo]
        /\ size' = [size EXCEPT ![i] = s]
        /\ kept' = [kept EXCEPT ![i] = k]

\* malloc, and the owner fills the block.
Allocate(i) == i \notin Live /\ \E s \in Sizes \ {0} : Occupy(i, s, s)

\* realloc: what fits of the old contents is in the new block.
Resize(i) == i \in Live /\ \E s \in Sizes \ {0} : Occupy(i, s, Least(kept[i], s))

\* The owner writes the whole block.
Write(i) ==
    /\ i \in Live
    /\ kept' = [kept EXCEPT ![i] = size[i]]
    /\ UNCHANGED <<ptr, size>>

\* free, and realloc to size 0.
Release(i) ==
    /\ i \in Live
    /\ ptr' = [ptr EXCEPT ![i] = NULL]
    /\ size' = [size EXCEPT ![i] = 0]
    /\ kept' = [kept EXCEPT ![i] = 0]

\* A new trace starts on an empty heap.
Reset == ptr' = [i \in Ids |-> NULL] /\ size' = [i \in Ids |-> 0] /\ kept' = [i \in Ids |-> 0]

Next == Reset \/ \E i \in Ids : Allocate(i) \/ Resize(i) \/ Write(i) \/ Release(i)

Spec == Init /\ [][Next]_vars

-----------------------------------------------------------------------------
\* Two live blocks share no byte, and each lies inside the heap on an aligned
\* address.
Disjoint ==
    /\ \A i \in Live : ptr[i] % ALIGNMENT = 0 /\ ptr[i] + size[i] <= MAX_HEAP
    /\ \A i, j \in Live : i # j => Apart(ptr[i], size[i], j)
=============================================================================
