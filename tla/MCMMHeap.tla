------------------------------ MODULE MCMMHeap ------------------------------
(* Instances of MMHeap for TLC. *)
EXTENDS MMHeap

ThreeIds == 1..3
\* Nothing, a block smaller than a tag, blocks that split a chunk or just fill it,
\* one larger than a chunk, and one that mem_sbrk's int cannot take.
SmallSizes == {0, 1, 28, 44, 300}

\* Two states are the same to the program if they differ only in words that hold
\* neither tags, nor links, nor the owner's data.
Significant ==
    UNION {{b - WSIZE, b + Size(heap, b) - DSIZE} : b \in Blocks}
    \cup UNION {{b, b + WSIZE} : b \in FreeBlocks \cup {PROLOGUE}}
    \cup UNION {{a \in Words : a \in ptr[i]..(ptr[i] + kept[i] - 1)} : i \in Live}
View == <<mem_brk, free_root, owner, [a \in Significant \cap Words |-> mem[a]]>>

\* What the theorems assume of the sizes.
ASSUME SizesDoNotWrap == NoWrap

=============================================================================
