------------------------------ MODULE MDriver ------------------------------
(***************************************************************************)
(* proj3/mdriver.c: the driver that replays traces of requests on a malloc *)
(* package and grades it.  The package is any package, right or wrong: it  *)
(* answers what it likes, may lose the data of a block it moves and may    *)
(* write to any byte of the heap; the one thing it keeps is to answer alike *)
(* when the same trace is replayed from a new heap.  (mm.c is MMHeap.)     *)
(*                                                                         *)
(* Addresses are numbers; the heap begins at HeapLo, and brk is its end.   *)
(***************************************************************************)
EXTENDS Timing

CONSTANTS
    Setups,          \* what a run is given: [files, run_libc, timers]
    NumIds,          \* identifiers of blocks a trace may use
    ALIGNMENT, HeapLo, HeapMax,
    Byte,            \* values of a byte, 256
    Scribbles        \* what a request of the package writes that is not asked of it

Ids == 0..(NumIds - 1)
NoId == NumIds
Addr == 0..HeapMax
NULL == 0

ASSUME MDriverAssumption ==
    /\ ALIGNMENT \in Nat \ {0} /\ HeapLo \in Nat \ {0} /\ HeapMax \in Nat
    /\ Byte \in Nat \ {0} /\ NumIds \in Nat

\* Bytes at any addresses, none of them included.
ASSUME ScribblesAssumption ==
    \A w \in Scribbles : \E places \in SUBSET Addr : w \in [places -> 0..(Byte - 1)]

VARIABLES
    setup, pc,
    tn, op,          \* the trace, and the request of it
    blocks, block_sizes,   \* of the trace: where each block is, and its size
    ranges,          \* payloads in use, newest first
    brk, mem,        \* the heap: its end and its bytes
    stats, errors, printed,  \* results per trace, errors reported, the summary
    total_size, max_total_size,
    answers,         \* history: what the package answered in eval_mm_valid
    breach           \* history: how the package broke its contract there

traces == <<setup, printed, tn, blocks, block_sizes>>
heap == <<brk, mem>>
util == <<total_size, max_total_size>>
vars == <<traces, heap, util, timing, pc, op, ranges, stats, errors, answers, breach>>

File == setup.files[tn]
Op == File.ops[op]
num_ops == Len(File.ops)
At(type) == op <= num_ops /\ Op.type = type

Init ==
    /\ setup \in Setups
    /\ pc = "init_fsecs" /\ TimingInit /\ timer \in setup.timers
    /\ tn = 1 /\ op = 1
    /\ blocks = [i \in Ids |-> NULL] /\ block_sizes = [i \in Ids |-> 0]
    /\ ranges = <<>> /\ brk = HeapLo /\ mem = [a \in Addr |-> 0]
    /\ stats = <<>> /\ errors = 0 /\ printed = [numcorrect |-> 0, index |-> FALSE]
    /\ total_size = 0 /\ max_total_size = 0
    /\ answers = <<>> /\ breach = {}

-----------------------------------------------------------------------------
(* The ranges. *)

IsAligned(p) == p % ALIGNMENT = 0
Within(a, r) == r.lo <= a /\ a <= r.hi

\* Between mem_heap_lo() and mem_heap_hi(), when the break is e.
InHeap(a, e) == HeapLo <= a /\ a <= e - 1
mem_heapsize == brk - HeapLo

\* Mutant: only the low end of a payload is compared with the others.
RangeOKLowEnd(rs, lo, size, e) ==
    LET hi == lo + size - 1 IN
    /\ IsAligned(lo)
    /\ InHeap(lo, e) /\ InHeap(hi, e)
    /\ \A k \in DOMAIN rs : ~Within(lo, rs[k])

\* The tests of add_range on a payload, in the heap that ends at e.
RangeOK(rs, lo, size, e) ==
    LET hi == lo + size - 1 IN
    /\ IsAligned(lo)
    /\ InHeap(lo, e) /\ InHeap(hi, e)
    /\ \A k \in DOMAIN rs : ~Within(lo, rs[k]) /\ ~Within(hi, rs[k])

AddRange(rs, lo, size) == <<[lo |-> lo, hi |-> lo + size - 1]>> \o rs

\* Mutant: the range that is removed is the newest.
RemoveNewestRange(rs, lo) ==
    IF \E k \in DOMAIN rs : rs[k].lo = lo THEN Tail(rs) ELSE rs

RemoveRange(rs, lo) ==
    LET found == {k \in DOMAIN rs : rs[k].lo = lo} IN
    IF found = {} THEN rs ELSE RemoveAt(rs, Min(found))

-----------------------------------------------------------------------------
(* The package: an answer is an address, the new end of the heap and the bytes. *)

Payload(p, size) == p..(p + size - 1)
ByteOf(index) == index % Byte

\* Before request n of a trace, block i has been allocated and is not yet freed.
Held(ops, n, i) ==
    \E k \in 1..(n - 1) : /\ ops[k].index = i /\ ops[k].type # "f"
                          /\ \A m \in (k + 1)..(n - 1) : ops[m].index # i \/ ops[m].type # "f"

\* The payloads of the blocks in use before a request, but that of `but'.
InUse(but) == {i \in Ids \ {but} : Held(File.ops, op, i)}
Used(but) == {Payload(blocks[i], block_sizes[i]) : i \in InUse(but)}

\* The bytes m of a heap that ends at e, after a request has also scribbled.
Written(m, e) ==
    {[a \in Addr |-> IF a \in DOMAIN w THEN w[a] ELSE m[a]] :
        w \in {w \in Scribbles : DOMAIN w \subseteq HeapLo..(e - 1)}}
Ends == {e \in brk..(HeapMax + 1) : e % ALIGNMENT = 0}

MmMalloc == UNION {[p : Addr, brk : {e}, mem : Written(mem, e)] : e \in Ends}
MmFree == UNION {[p : {NULL}, brk : {e}, mem : Written(mem, e)] : e \in Ends}

\* The bytes, when a block that moves takes its first n with it.
MovedTo(oldp, newp, n) ==
    [a \in Addr |-> IF a \in newp..(newp + n - 1) THEN mem[a - newp + oldp] ELSE mem[a]]

\* Those of the old block that fit, or none.
MmRealloc(oldp, oldsize, size) ==
    LET Moved(newp) == {MovedTo(oldp, newp, n) : n \in {0, Min({oldsize, size})}} IN
    UNION {UNION {[p : {newp}, brk : {e}, mem : UNION {Written(m, e) : m \in Moved(newp)}]
                    : e \in Ends} : newp \in Addr}

\* How an answer breaks the contract, stated with the sets of addresses.
Overlaps(new, used) == {old \in used : old \cap new # {}}
Inside(old, new) == old \subseteq new /\ Min(new) \notin old /\ Max(new) \notin old
BadBlock(a, size, used) ==
    LET new == Payload(a.p, size) IN
    IF a.p = NULL THEN {"null"}
    ELSE {k \in {"misaligned", "outside", "overlap", "contains"} :
            \/ k = "misaligned" /\ ~IsAligned(a.p)
            \/ k = "outside" /\ ~(new \subseteq HeapLo..(a.brk - 1))
            \/ k = "overlap" /\ \E old \in Overlaps(new, used) : ~Inside(old, new)
            \/ k = "contains" /\ \E old \in Overlaps(new, used) : Inside(old, new)}
Scribbled(a, used) ==
    IF \E old \in used : \E b \in old : a.mem[b] # mem[b] THEN {"scribbled"} ELSE {}
Lost(a, oldp, n) ==
    IF \E k \in 0..(n - 1) : a.p + k \in Addr /\ a.mem[a.p + k] # mem[oldp + k]
    THEN {"lost"} ELSE {}

-----------------------------------------------------------------------------
(* eval_mm_valid *)

Fails ==
    /\ errors' = errors + 1
    /\ stats' = Append(stats, [valid |-> FALSE, util |-> <<0, 1>>])
    /\ pc' = "next"

\* The number that newp[j] is: a char is signed.
SignedChar(b) == IF b >= Byte \div 2 THEN b - Byte ELSE b

Memset(m, p, index, size) ==
    [a \in Addr |-> IF a \in Payload(p, size) THEN ByteOf(index) ELSE m[a]]

Remember(index, p, size) ==
    /\ blocks' = [blocks EXCEPT ![index] = p]
    /\ block_sizes' = [block_sizes EXCEPT ![index] = size]

\* mem_reset_brk and clear_ranges, and mm_init, which may fail.
StartValid ==
    /\ pc = "init"
    /\ brk' = HeapLo /\ ranges' = <<>> /\ op' = 1 /\ answers' = <<>>
    /\ \/ pc' = "valid" /\ breach' = {} /\ UNCHANGED <<errors, stats>>
       \/ Fails /\ breach' = {"null"}
    /\ UNCHANGED <<traces, mem, util, timing>>

ValidAlloc ==
    /\ pc = "valid" /\ At("a")
    /\ \E a \in MmMalloc :
         /\ answers' = Append(answers, a) /\ brk' = a.brk
         /\ breach' = breach \cup BadBlock(a, Op.size, Used(Op.index))
                             \cup Scribbled(a, Used(Op.index))
         /\ IF a.p # NULL /\ RangeOK(ranges, a.p, Op.size, a.brk)
            THEN /\ ranges' = AddRange(ranges, a.p, Op.size)
                 /\ mem' = Memset(a.mem, a.p, Op.index, Op.size)
                 /\ Remember(Op.index, a.p, Op.size) /\ op' = op + 1
                 /\ UNCHANGED <<pc, errors, stats>>
            ELSE Fails /\ mem' = a.mem /\ UNCHANGED <<op, ranges, blocks, block_sizes>>
    /\ UNCHANGED <<setup, printed, tn, util, timing>>

ValidRealloc ==
    /\ pc = "valid" /\ At("r")
    /\ LET oldp == blocks[Op.index]
           oldsize == Min({Op.size, block_sizes[Op.index]})
           rest == RemoveRange(ranges, oldp)
       IN \E a \in MmRealloc(oldp, block_sizes[Op.index], Op.size) :
         LET inside == a.p # NULL /\ RangeOK(rest, a.p, Op.size, a.brk)
             kept == \A j \in 0..(oldsize - 1) :
                        SignedChar(a.mem[a.p + j]) = ByteOf(Op.index)
         IN /\ answers' = Append(answers, a) /\ brk' = a.brk
            /\ breach' = breach \cup BadBlock(a, Op.size, Used(Op.index))
                                \cup Scribbled(a, Used(Op.index))
                                \cup Lost(a, oldp, oldsize)
            /\ ranges' = IF a.p = NULL THEN ranges
                         ELSE IF inside THEN AddRange(rest, a.p, Op.size) ELSE rest
            /\ IF inside /\ kept
               THEN /\ mem' = Memset(a.mem, a.p, Op.index, Op.size)
                    /\ Remember(Op.index, a.p, Op.size) /\ op' = op + 1
                    /\ UNCHANGED <<pc, errors, stats>>
               ELSE Fails /\ mem' = a.mem /\ UNCHANGED <<op, blocks, block_sizes>>
    /\ UNCHANGED <<setup, printed, tn, util, timing>>

ValidFree ==
    /\ pc = "valid" /\ At("f")
    /\ ranges' = RemoveRange(ranges, blocks[Op.index])
    /\ \E a \in MmFree : /\ answers' = Append(answers, a) /\ brk' = a.brk /\ mem' = a.mem
                         /\ breach' = breach \cup Scribbled(a, Used(Op.index))
    /\ op' = op + 1
    /\ UNCHANGED <<traces, util, timing, pc, errors, stats>>

\* The trace is valid; eval_mm_util begins with a new heap.
Valid ==
    /\ pc = "valid" /\ op > num_ops
    /\ pc' = "util" /\ op' = 1 /\ brk' = HeapLo
    /\ total_size' = 0 /\ max_total_size' = 0
    /\ UNCHANGED <<traces, mem, timing, ranges, stats, errors, answers, breach>>

EvalMmValid == StartValid \/ ValidAlloc \/ ValidRealloc \/ ValidFree \/ Valid

-----------------------------------------------------------------------------
(* eval_mm_util *)

Total(size) ==
    /\ total_size' = size
    /\ max_total_size' = Max({size, max_total_size})

\* The same answers, from a new heap; nobody reads the bytes.
Replay ==
    /\ op' = op + 1 /\ brk' = answers[op].brk
    /\ UNCHANGED <<setup, printed, tn, mem, timing, pc, ranges, stats, errors, answers, breach>>

UtilAlloc ==
    /\ pc = "util" /\ At("a")
    /\ Remember(Op.index, answers[op].p, Op.size)
    /\ Total(total_size + Op.size)
    /\ Replay

UtilRealloc ==
    /\ pc = "util" /\ At("r")
    /\ Remember(Op.index, answers[op].p, Op.size)
    /\ Total(total_size + (Op.size - block_sizes[Op.index]))
    /\ Replay

\* Mutant: what was freed still counts.
UtilFreeForgets ==
    /\ pc = "util" /\ At("f")
    /\ UNCHANGED <<total_size, max_total_size, blocks, block_sizes>>
    /\ Replay

UtilFree ==
    /\ pc = "util" /\ At("f")
    /\ total_size' = total_size - block_sizes[Op.index]
    /\ UNCHANGED <<max_total_size, blocks, block_sizes>>
    /\ Replay

Utilization ==
    /\ pc = "util" /\ op > num_ops
    /\ stats' = Append(stats, [valid |-> TRUE, util |-> <<max_total_size, mem_heapsize>>])
    /\ pc' = "speed"
    /\ CallFsecs
    /\ UNCHANGED <<traces, heap, util, op, ranges, errors, answers, breach>>

EvalMmUtil == UtilAlloc \/ UtilRealloc \/ UtilFree \/ Utilization

-----------------------------------------------------------------------------
(* fsecs: the trace is replayed once more and timed.  With the same answers,           *)
(* eval_mm_speed leaves the blocks, their sizes and the heap as eval_mm_util left them. *)

untimed == <<traces, heap, util, op, ranges, stats, errors, answers, breach>>

Speed ==
    /\ pc \in {"libc_speed", "speed"}
    /\ pc' = CASE step' = "done" -> (IF pc = "speed" THEN "next" ELSE "libc_next")
               [] step' = "failed" -> "failed"
               [] OTHER -> pc
    /\ UNCHANGED untimed

Fsecs ==
    \/ Clear /\ Speed
    \/ StartCompCounter /\ Speed
    \/ Sample /\ Speed
    \/ InitEtime /\ Speed
    \/ GetTimeOfDay /\ Speed
    \/ CallOnce /\ Speed
    \/ Average /\ Speed

-----------------------------------------------------------------------------
(* main *)

\* The assertions of read_trace; max_index forgets the blocks that are freed.
ReadOK(file) ==
    LET used == {file.ops[k].index : k \in {k \in DOMAIN file.ops : file.ops[k].type # "f"}}
    IN Max({0} \cup used) = file.num_ids - 1 /\ file.num_ops = Len(file.ops)

ReadTrace ==
    /\ pc \in {"libc_read", "read"}
    /\ pc' = IF ~ReadOK(File) THEN "aborted" ELSE IF pc = "read" THEN "init" ELSE "libc_valid"
    /\ op' = 1 /\ blocks' = [i \in Ids |-> NULL] /\ block_sizes' = [i \in Ids |-> 0]
    /\ UNCHANGED <<setup, printed, tn, heap, util, timing, ranges, stats, errors, answers, breach>>

\* free_trace, and the next one; mm.c after the C library, and then the results.
NextTrace ==
    /\ pc \in {"libc_next", "next"}
    /\ tn' = IF tn < Len(setup.files) THEN tn + 1 ELSE 1
    /\ \/ tn < Len(setup.files) /\ pc' = (IF pc = "next" THEN "read" ELSE "libc_read")
       \/ tn >= Len(setup.files) /\ pc' = (IF pc = "next" THEN "results" ELSE "read")
    /\ UNCHANGED <<setup, printed, blocks, block_sizes, heap, util, timing, op, ranges, stats, errors,
                   answers, breach>>

\* The summary: a performance index only when no error was reported.
Results ==
    /\ pc = "results" /\ pc' = "done"
    /\ printed' = [numcorrect |-> Cardinality({k \in DOMAIN stats : stats[k].valid}),
                    index |-> errors = 0]
    /\ UNCHANGED <<setup, tn, blocks, block_sizes, heap, util, timing, op, ranges, stats,
                   errors, answers, breach>>

Start ==
    /\ pc = "init_fsecs" /\ InitFsecs
    /\ pc' = IF setup.run_libc THEN "libc_read" ELSE "read"
    /\ UNCHANGED untimed

-----------------------------------------------------------------------------
(* Option -l: every trace on the C library first. *)

\* Some address of the library's own heap.
LibcAddr == -1

\* A call of the library that finds no memory ends the driver.
LibcRequest ==
    /\ pc = "libc_valid" /\ op <= num_ops
    /\ \/ /\ op' = op + 1 /\ UNCHANGED <<pc, errors>>
          /\ blocks' = IF At("f") THEN blocks ELSE [blocks EXCEPT ![Op.index] = LibcAddr]
       \/ /\ ~At("f") /\ pc' = "failed" /\ errors' = errors + 1
          /\ UNCHANGED <<op, blocks>>
    /\ UNCHANGED <<setup, printed, tn, block_sizes, heap, util, timing, ranges, stats, answers,
                   breach>>

LibcTimed ==
    /\ pc = "libc_valid" /\ op > num_ops
    /\ pc' = "libc_speed" /\ CallFsecs
    /\ UNCHANGED untimed

\* The calls of eval_libc_speed are checked as well.
LibcSpeedFails ==
    /\ pc = "libc_speed" /\ step = "run"
    /\ pc' = "failed"
    /\ UNCHANGED <<untimed, timing>>

EvalLibc == LibcRequest \/ LibcTimed \/ LibcSpeedFails

Next == Start \/ EvalLibc \/ ReadTrace \/ EvalMmValid \/ EvalMmUtil \/ Fsecs \/ NextTrace \/ Results

Spec == Init /\ [][Next]_vars

-----------------------------------------------------------------------------
(* Properties *)

\* A trace as the generators write it, which read_trace does not test: a block is
\* allocated when it is not in use, and freed and moved when it is.
Request == [type : {"a", "r", "f"}, index : Ids, size : Nat]
TraceOK(ops) ==
    \A n \in DOMAIN ops :
        /\ ops[n].type # "f" => ops[n].size > 0
        /\ Held(ops, n, ops[n].index) <=> ops[n].type # "a"
TracesOK ==
    \A s \in Setups : /\ s.files \in Seq([num_ids : Nat, num_ops : Nat, ops : Seq(Request)])
                      /\ s.files # <<>>
                      /\ \A k \in DOMAIN s.files : TraceOK(s.files[k].ops)

\* While the driver checks a trace, its list holds the payload of every block in use,
\* once, and nothing else: whatever addresses the package has answered.
RangesExact ==
    pc = "valid" =>
      /\ Range(ranges) = {[lo |-> blocks[i], hi |-> blocks[i] + block_sizes[i] - 1] :
                             i \in InUse(NoId)}
      /\ Len(ranges) = Cardinality(InUse(NoId))

(***************************************************************************)
(* The verdict.  A broken alignment, a payload outside the heap or one that *)
(* shares bytes with another is reported at once, except a payload that    *)
(* holds another one strictly inside (add_range looks at its two ends), and *)
(* so are data lost by realloc, if no byte was overwritten before; bytes    *)
(* overwritten in a block that is not moved go unseen.  And a package that  *)
(* keeps its contract is not refused, except where a char is signed: a block *)
(* whose identifier has a high low byte and which is moved.                 *)
(***************************************************************************)
Unseen == {"contains", "scribbled"}

NotAcceptedWrongly ==
    /\ pc \in {"valid", "util", "speed"} => breach \subseteq Unseen \cup {"lost"}
    /\ pc \in {"valid", "util", "speed"} /\ "lost" \in breach =>
         breach \cap Unseen # {}

NotRefusedWrongly ==
    pc = "next" /\ ~Last(stats).valid /\ breach = {} =>
      Op.type = "r" /\ ByteOf(Op.index) >= Byte \div 2

ErrorsExact ==
    /\ pc # "failed" => errors = Cardinality({k \in DOMAIN stats : ~stats[k].valid})
    /\ pc = "done" => printed.index = (printed.numcorrect = Len(setup.files))

\* What the driver says of a package follows from what the package did.
VerdictExact == NotAcceptedWrongly /\ NotRefusedWrongly /\ ErrorsExact

\* The utilization counts what is in use, and is at most 1 unless payloads overlap.
UtilizationExact ==
    /\ pc = "util" => total_size = MapThenSumSet(LAMBDA i : block_sizes[i], InUse(NoId))
    /\ pc = "speed" /\ "contains" \notin breach =>
         Last(stats).util[1] <= Last(stats).util[2]

\* So are the two things the driver measures, space and time.
MeasuresExact == UtilizationExact /\ TimesExact
=============================================================================
