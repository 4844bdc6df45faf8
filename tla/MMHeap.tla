------------------------------- MODULE MMHeap -------------------------------
(***************************************************************************)
(* proj3/mm.c on proj3/memlib.c: the malloc package with boundary tags and *)
(* an explicit free list, used by an owner of blocks that does what        *)
(* mdriver's eval_mm_valid does.                                           *)
(*                                                                         *)
(* The heap is the array of its 4-byte words: headers, footers, the links  *)
(* that free blocks keep in their payload, and the owner's data share it.  *)
(* An address is an offset in bytes from mem_heap_lo().  The build is the  *)
(* 32-bit one the code is written for (a pointer is one word).             *)
(*                                                                         *)
(* A function of mm.c is an operator from a heap to a heap (and a pointer, *)
(* for those that return one); a call of the owner is an action.           *)
(***************************************************************************)
EXTENDS Integers, FiniteSets

CONSTANTS
    Ids,         \* the blocks of the owner: 1 .. some number
    Sizes,       \* the sizes it asks for
    CHUNKSIZE, MAX_HEAP,
    SizeRange    \* size_t holds 0 .. SizeRange - 1 (2^32), int half of it

ASSUME MMHeapAssumption ==
    /\ Ids \subseteq Nat \ {0} /\ IsFiniteSet(Ids)
    /\ Sizes \subseteq 0..(SizeRange - 1)
    /\ CHUNKSIZE \in Nat /\ CHUNKSIZE % 8 = 0 /\ CHUNKSIZE >= 16
    /\ MAX_HEAP \in Nat /\ MAX_HEAP >= 24 + CHUNKSIZE
    /\ SizeRange \in Nat /\ SizeRange % 16 = 0 /\ SizeRange > 2 * MAX_HEAP

WSIZE == 4
DSIZE == 8
NULL == 0
PROLOGUE == 2 * WSIZE
Words == {a \in 0..(MAX_HEAP - 1) : a % WSIZE = 0}

\* No request is so large that Asize wraps when it rounds it up.
NoWrap == \A s \in Sizes : s + 2 * DSIZE - 1 < SizeRange

VARIABLES
    mem, mem_brk, free_root,    \* memlib's bytes and brk; the head of the free list
    ptr, size, kept             \* the owner's blocks, and its data they must hold

heap == [mem |-> mem, brk |-> mem_brk, root |-> free_root]
owner == <<ptr, size, kept>>
vars == <<mem, mem_brk, free_root, owner>>

-----------------------------------------------------------------------------
(* The macros. *)

\* A correct heap never reads outside the words it has (WellFormed); a read that
\* does is given the value of an epilogue, which ends every traversal.
GET(h, a) == IF a \in Words THEN h.mem[a] ELSE 1
PUT(h, a, w) == [h EXCEPT !.mem[a] = w]

PACK(s, alloc) == s + alloc
SizeOf(w) == w - (w % DSIZE)
AllocOf(w) == w % 2

Size(h, bp) == SizeOf(GET(h, bp - WSIZE))          \* GET_SIZE(HDRP(bp))
Allocated(h, bp) == AllocOf(GET(h, bp - WSIZE)) = 1
NEXT_BLKP(h, bp) == bp + Size(h, bp)
PREV_BLKP(h, bp) == bp - SizeOf(GET(h, bp - DSIZE))
NEXT_FREEP(h, bp) == GET(h, bp)
PREV_FREEP(h, bp) == GET(h, bp + WSIZE)

\* PUT(HDRP(bp), PACK(s, alloc)); PUT(FTRP(bp), PACK(s, alloc)).
Tag(h, bp, s, alloc) ==
    PUT(PUT(h, bp - WSIZE, PACK(s, alloc)), bp + s - DSIZE, PACK(s, alloc))

ALIGN(s) == LET up == (s + 7) % SizeRange IN up - (up % 8)

-----------------------------------------------------------------------------
(* The free list. *)

\* Mutant: free_root is set before the old one is linked behind bp.
InsertRootFirst(h, bp) ==
    [PUT(PUT(h, bp, bp), bp + WSIZE, NULL) EXCEPT !.root = bp]

insert_free_root_e(h, bp) ==
    LET linked == PUT(PUT(PUT(h, bp, h.root), h.root + WSIZE, bp), bp + WSIZE, NULL)
    IN [linked EXCEPT !.root = bp]

\* Mutant: the successor of a removed inner block keeps its old predecessor.
RemoveForwardOnly(h, bp) ==
    LET next == NEXT_FREEP(h, bp)
        prev == PREV_FREEP(h, bp)
    IN IF bp = h.root
       THEN [PUT(h, next + WSIZE, NULL) EXCEPT !.root = next]
       ELSE PUT(h, prev, next)

remove_free_root_e(h, bp) ==
    LET next == NEXT_FREEP(h, bp)
        prev == PREV_FREEP(h, bp)
    IN IF bp = h.root
       THEN [PUT(h, next + WSIZE, NULL) EXCEPT !.root = next]
       ELSE PUT(PUT(h, prev, next), next + WSIZE, prev)

\* The list as the function from positions to blocks; it stays at the first
\* allocated block, the prologue.
Positions == 0..(MAX_HEAP \div (2 * DSIZE))
FreeList(h) ==
    LET at[n \in Positions] ==
            IF n = 0 THEN h.root
            ELSE LET bp == at[n - 1]
                 IN IF Allocated(h, bp) THEN bp ELSE NEXT_FREEP(h, bp)
    IN at

\* First fit.
find_fit(h, asize) ==
    LET at == FreeList(h)
        fits == {n \in Positions : ~Allocated(h, at[n]) /\ asize <= Size(h, at[n])}
    IN IF fits = {} THEN NULL
       ELSE at[CHOOSE n \in fits : \A m \in fits : n <= m]

-----------------------------------------------------------------------------
(* The package. *)

\* Mutant: the block is never merged with the one before it.
CoalesceForward(h, bp) ==
    LET next == NEXT_BLKP(h, bp)
        next_free == ~Allocated(h, next)
        h1 == IF next_free THEN remove_free_root_e(h, next) ELSE h
        hi == IF next_free THEN NEXT_BLKP(h, next) ELSE next
    IN [heap |-> insert_free_root_e(Tag(h1, bp, hi - bp, 0), bp), ptr |-> bp]

\* Mutant: the block that is merged behind bp stays in the free list.
CoalesceKeepsNext(h, bp) ==
    LET prev == PREV_BLKP(h, bp)
        next == NEXT_BLKP(h, bp)
        prev_free == AllocOf(GET(h, bp - DSIZE)) = 0
        h1 == IF prev_free THEN remove_free_root_e(h, prev) ELSE h
        lo == IF prev_free THEN prev ELSE bp
        hi == IF Allocated(h, next) THEN next ELSE NEXT_BLKP(h, next)
    IN [heap |-> insert_free_root_e(Tag(h1, lo, hi - lo, 0), lo), ptr |-> lo]

coalesce(h, bp) ==
    LET prev == PREV_BLKP(h, bp)
        next == NEXT_BLKP(h, bp)
        prev_free == AllocOf(GET(h, bp - DSIZE)) = 0
        next_free == ~Allocated(h, next)
        h1 == IF prev_free THEN remove_free_root_e(h, prev) ELSE h
        h2 == IF next_free THEN remove_free_root_e(h1, next) ELSE h1
        lo == IF prev_free THEN prev ELSE bp
        hi == IF next_free THEN NEXT_BLKP(h, next) ELSE next
    IN [heap |-> insert_free_root_e(Tag(h2, lo, hi - lo, 0), lo), ptr |-> lo]

\* What an int holds of a size_t.
IntOf(s) == IF s >= SizeRange \div 2 THEN s - SizeRange ELSE s

\* Mutant: a negative increment is not refused.
SbrkShrinks(h, s) ==
    IF h.brk + IntOf(s) > MAX_HEAP
    THEN [heap |-> h, ptr |-> -1]
    ELSE [heap |-> [h EXCEPT !.brk = @ + IntOf(s)], ptr |-> h.brk]

\* The old break, or -1.  The parameter is an int, and its callers have a size_t.
mem_sbrk(h, s) ==
    LET incr == IntOf(s) IN
    IF incr < 0 \/ h.brk + incr > MAX_HEAP
    THEN [heap |-> h, ptr |-> -1]
    ELSE [heap |-> [h EXCEPT !.brk = @ + incr], ptr |-> h.brk]

\* The new block starts behind the old epilogue, whose word becomes its header.
extend_heap(h, bytes) ==
    LET more == mem_sbrk(h, bytes)
        bp == more.ptr
    IN IF bp = -1 THEN [heap |-> h, ptr |-> NULL]
       ELSE coalesce(PUT(Tag(more.heap, bp, bytes, 0), bp + bytes - WSIZE, PACK(0, 1)), bp)

\* Mutant: the remainder is split off when it has no room for the two links.
SplitTooSmall(h, bp, asize) ==
    LET csize == Size(h, bp)
        taken == remove_free_root_e(h, bp)
        rest == bp + asize
    IN IF csize - asize >= DSIZE
       THEN insert_free_root_e(Tag(Tag(taken, bp, asize, 1), rest, csize - asize, 0), rest)
       ELSE Tag(taken, bp, csize, 1)

\* Mutant: the remainder is tagged with the size of the whole block.
SplitKeepsSize(h, bp, asize) ==
    LET csize == Size(h, bp)
        taken == remove_free_root_e(h, bp)
        rest == bp + asize
    IN IF csize - asize >= 2 * DSIZE
       THEN insert_free_root_e(Tag(Tag(taken, bp, asize, 1), rest, csize, 0), rest)
       ELSE Tag(taken, bp, csize, 1)

place(h, bp, asize) ==
    LET csize == Size(h, bp)
        taken == remove_free_root_e(h, bp)
        rest == bp + asize
    IN IF csize - asize >= 2 * DSIZE
       THEN insert_free_root_e(Tag(Tag(taken, bp, asize, 1), rest, csize - asize, 0), rest)
       ELSE Tag(taken, bp, csize, 1)

\* The size of the block for a request of s bytes.
Asize(s) == ALIGN((s + DSIZE) % SizeRange)

mm_malloc(h, s) ==
    LET asize == Asize(s)
        fit == find_fit(h, asize)
        more == extend_heap(h, IF asize > CHUNKSIZE THEN asize ELSE CHUNKSIZE)
    IN IF s = 0 THEN [heap |-> h, ptr |-> NULL]
       ELSE IF fit # NULL THEN [heap |-> place(h, fit, asize), ptr |-> fit]
       ELSE IF more.ptr = NULL THEN more
       ELSE [heap |-> place(more.heap, more.ptr, asize), ptr |-> more.ptr]

mm_free(h, bp) ==
    IF bp = NULL THEN h
    ELSE coalesce(Tag(h, bp, Size(h, bp), 0), bp).heap

\* memcpy, in words: the bytes of the last word past n are padding of the block.
Copy(h, to, from, n) ==
    [h EXCEPT !.mem = [a \in Words |->
        IF a \in to..(to + n - 1) THEN GET(h, a - to + from) ELSE @[a]]]

\* Mutant: the old block is not freed.
ReallocLeaks(h, bp, s) ==
    LET new == mm_malloc(h, s)
        oldsize == Size(new.heap, bp)
        n == IF s < oldsize THEN s ELSE oldsize
    IN IF s = 0 THEN [heap |-> mm_free(h, bp), ptr |-> NULL]
       ELSE IF bp = NULL \/ new.ptr = NULL THEN new
       ELSE [heap |-> Copy(new.heap, new.ptr, bp, n), ptr |-> new.ptr]

\* Mutant: the whole old block is copied, also into a smaller one.
ReallocCopiesAll(h, bp, s) ==
    LET new == mm_malloc(h, s)
    IN IF s = 0 THEN [heap |-> mm_free(h, bp), ptr |-> NULL]
       ELSE IF bp = NULL \/ new.ptr = NULL THEN new
       ELSE [heap |-> mm_free(Copy(new.heap, new.ptr, bp, Size(new.heap, bp)), bp),
             ptr |-> new.ptr]

mm_realloc(h, bp, s) ==
    LET new == mm_malloc(h, s)
        oldsize == Size(new.heap, bp)
        n == IF s < oldsize THEN s ELSE oldsize
    IN IF s = 0 THEN [heap |-> mm_free(h, bp), ptr |-> NULL]
       ELSE IF bp = NULL \/ new.ptr = NULL THEN new
       ELSE [heap |-> mm_free(Copy(new.heap, new.ptr, bp, n), bp), ptr |-> new.ptr]

\* An empty heap; what the words held before stays.
mem_reset_brk(m) == [mem |-> m, brk |-> 0, root |-> PROLOGUE]

\* The callers reset the break first.
mm_init(m) ==
    LET h == mem_sbrk(mem_reset_brk(m), 6 * WSIZE).heap
        prologue == Tag(PUT(h, 0, 0), PROLOGUE, 2 * DSIZE, 1)
        links == PUT(PUT(prologue, PROLOGUE, NULL), PROLOGUE + WSIZE, NULL)
    IN extend_heap(PUT(links, 5 * WSIZE, PACK(0, 1)), CHUNKSIZE).heap

\* What checkblock reports nothing about.
checkblock(h, bp) ==
    bp % 8 = 0 /\ GET(h, bp - WSIZE) = GET(h, bp + Size(h, bp) - DSIZE)

-----------------------------------------------------------------------------
(* The owner of the blocks. *)

SetHeap(h) == mem' = h.mem /\ mem_brk' = h.brk /\ free_root' = h.root

Block(i, p, s, k) ==
    /\ ptr' = [ptr EXCEPT ![i] = p]
    /\ size' = [size EXCEPT ![i] = s]
    /\ kept' = [kept EXCEPT ![i] = k]

Least(a, b) == IF a < b THEN a ELSE b

\* memset(p, i, s): the owner's data are negative, unlike tags and links.
Fill(h, p, s, i) ==
    [h EXCEPT !.mem = [a \in Words |-> IF a \in p..(p + s - 1) THEN -i ELSE @[a]]]

Init ==
    LET h == mm_init([a \in Words |-> 0])
    IN /\ mem = h.mem /\ mem_brk = h.brk /\ free_root = h.root
       /\ ptr = [i \in Ids |-> NULL]
       /\ size = [i \in Ids |-> 0] /\ kept = [i \in Ids |-> 0]

Malloc(i, s) ==
    /\ ptr[i] = NULL
    /\ LET m == mm_malloc(heap, s) IN
         IF m.ptr = NULL THEN SetHeap(m.heap) /\ UNCHANGED owner
         ELSE SetHeap(Fill(m.heap, m.ptr, s, i)) /\ Block(i, m.ptr, s, s)

Realloc(i, s) ==
    /\ ptr[i] # NULL
    /\ LET m == mm_realloc(heap, ptr[i], s) IN
         /\ SetHeap(m.heap)
         /\ IF s # 0 /\ m.ptr = NULL THEN UNCHANGED owner
            ELSE Block(i, m.ptr, s, Least(kept[i], s))

Write(i) ==
    /\ ptr[i] # NULL /\ kept[i] # size[i]
    /\ SetHeap(Fill(heap, ptr[i], size[i], i))
    /\ Block(i, ptr[i], size[i], size[i])

Free(i) ==
    /\ ptr[i] # NULL
    /\ SetHeap(mm_free(heap, ptr[i]))
    /\ Block(i, NULL, 0, 0)

\* The next trace of mdriver.
NextTrace ==
    /\ SetHeap(mm_init(mem))
    /\ ptr' = [i \in Ids |-> NULL]
    /\ size' = [i \in Ids |-> 0] /\ kept' = [i \in Ids |-> 0]

Next ==
    \/ \E i \in Ids, s \in Sizes : Malloc(i, s) \/ Realloc(i, s)
    \/ \E i \in Ids : Write(i) \/ Free(i)
    \/ NextTrace

Spec == Init /\ [][Next]_vars

-----------------------------------------------------------------------------
(* Properties *)

\* The blocks from the prologue on, as far as the headers lead.
Chain ==
    LET at[n \in Positions] == IF n = 0 THEN PROLOGUE ELSE NEXT_BLKP(heap, at[n - 1])
    IN at
Blocks == {Chain[n] : n \in Positions} \ {mem_brk}
FreeBlocks == {b \in Blocks : ~Allocated(heap, b)}
Live == {i \in Ids : ptr[i] # NULL}

\* Type invariant.
TypeOK ==
    /\ mem \in [Words -> Int] /\ mem_brk \in Words \cup {MAX_HEAP}
    /\ free_root \in Blocks
    /\ ptr \in [Ids -> Words] /\ size \in [Ids -> Sizes \cup {0}]
    /\ \A i \in Ids : kept[i] \in 0..size[i]

\* The headers lead from the prologue to the epilogue at the break; each block is
\* a multiple of eight bytes, is large enough for its tags and links, and passes
\* checkblock; the prologue stays allocated.
WellFormed ==
    /\ \E n \in Positions : Chain[n] = mem_brk
    /\ GET(heap, mem_brk - WSIZE) = PACK(0, 1)
    /\ \A b \in Blocks :
         LET header == GET(heap, b - WSIZE) IN
         /\ header \in {PACK(Size(heap, b), 0), PACK(Size(heap, b), 1)}
         /\ Size(heap, b) >= 2 * DSIZE /\ b + Size(heap, b) <= mem_brk
         /\ checkblock(heap, b)
    /\ Allocated(heap, PROLOGUE) /\ Size(heap, PROLOGUE) = 2 * DSIZE

\* mm.c:287: the free list holds every free block once and ends in the prologue;
\* the first element has no predecessor, the last no successor, and the two
\* links of neighbours agree.
FreeListExact ==
    LET at == FreeList(heap)
        k == Cardinality(FreeBlocks)
    IN /\ {at[n] : n \in 0..(k - 1)} = FreeBlocks
       /\ at[k] = PROLOGUE
       /\ PREV_FREEP(heap, at[0]) = NULL /\ NEXT_FREEP(heap, PROLOGUE) = NULL
       /\ \A n \in 1..k : PREV_FREEP(heap, at[n]) = at[n - 1]

\* No two free blocks are neighbours: whatever the order of the calls, freed
\* space is merged.
Coalesced == \A b \in FreeBlocks : NEXT_BLKP(heap, b) \notin FreeBlocks

\* The allocated blocks are the owner's, each large enough for what was asked,
\* and the prologue: no block is lost, also by a realloc that fails or moves.
NoLeak ==
    /\ Blocks \ FreeBlocks = {ptr[i] : i \in Live} \cup {PROLOGUE}
    /\ \A i \in Live : size[i] + DSIZE <= Size(heap, ptr[i])

\* The package never writes into a live block, and a realloc keeps what fits.
DataIntact ==
    \A i \in Live : \A a \in Words : a \in ptr[i]..(ptr[i] + kept[i] - 1) => mem[a] = -i

Fits(s) == \E b \in FreeBlocks : Asize(s) <= Size(heap, b)

\* The heap grows only for a request that no free block of the heap fits: the free
\* list hides none of them from find_fit.
GrowsWhenNeeded ==
    [][\A i \in Ids, s \in Sizes :
         mem_brk' > mem_brk /\ ptr'[i] # ptr[i] /\ size'[i] = s => ~Fits(s)]_vars

Promise == INSTANCE Allocator WITH ALIGNMENT <- 8

\* mm.c keeps the promise of a malloc package.
ImplementsAllocator == Promise!Spec
=============================================================================
