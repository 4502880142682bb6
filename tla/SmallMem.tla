------------------------------ MODULE SmallMem ------------------------------
(***************************************************************************)
(* RT-Thread's heap, the small memory allocator (rt-thread/src/mem.c), and *)
(* its users in this program.  Sizes and offsets are counted in words of   *)
(* RT_ALIGN_SIZE bytes, so that RT_ALIGN is the identity.                  *)
(*                                                                         *)
(* Every block starts with a struct heap_mem that links it to its          *)
(* neighbours.  heap has one for every block that can be reached by the    *)
(* links; what is left of one inside a larger block is never looked at.    *)
(* A user holds the semaphore heap_sem from its first look at the links to *)
(* its last, so that each of the functions is one action.                  *)
(*                                                                         *)
(* The users: changeTime (thread dst_show) asks for TimeFields blocks in   *)
(* every round of drawing; it overwrites the pointers in the next round    *)
(* and frees none of them.  All others (main with utf82gbk and rt_free,    *)
(* the kernel, the C library) ask, shrink and free as they like.           *)
(***************************************************************************)
EXTENDS Integers

CONSTANTS
    MemSize,        \* mem_size_aligned
    Hdr,            \* SIZEOF_STRUCT_MEM: 3
    MinSize,        \* MIN_SIZE_ALIGNED: 3
    Sizes,          \* the sizes other users ask for
    TimeSize,       \* what changeTime asks for: 1
    TimeFields,     \* and how many times: 6
    NULL

ASSUME HeapAssumption ==
    /\ Hdr \in Nat \ {0} /\ MinSize \in Nat \ {0}
    /\ MemSize \in Nat /\ MemSize >= MinSize
ASSUME UserAssumption ==
    /\ Sizes \subseteq Nat \ {0}
    /\ TimeSize \in Nat \ {0}
    /\ TimeFields \in Nat \ {0}
ASSUME NullAssumption == NULL \notin Int

End == MemSize + Hdr    \* heap_end

VARIABLES
    heap,       \* from the offset of a block to its struct heap_mem
    lfree,      \* the lowest free block
    theirs,     \* the blocks other users hold: from the block to the size asked for
    time_parse, \* changeTime's pointers
    n           \* the one it assigns next

vars == <<heap, lfree, theirs, time_parse, n>>

Offset == 0 .. End
heap_mem == [next : Offset, prev : Offset, used : BOOLEAN]
Field == 0 .. TimeFields - 1

TypeOK ==
    /\ DOMAIN heap \subseteq Offset
    /\ {0, End} \subseteq DOMAIN heap
    /\ \A p \in DOMAIN heap : heap[p] \in heap_mem
    /\ lfree \in DOMAIN heap
    /\ DOMAIN theirs \subseteq {p \in DOMAIN heap \ {End} : heap[p].used}
    /\ \A p \in DOMAIN theirs : theirs[p] \in Sizes
    /\ time_parse \in [Field -> Offset \cup {NULL}]
    /\ n \in Field

\* rt_system_heap_init: one free block and the end, which counts as used.
Init ==
    /\ heap = [p \in {0, End} |->
                  IF p = 0 THEN [next |-> End, prev |-> 0, used |-> FALSE]
                           ELSE [next |-> End, prev |-> End, used |-> TRUE]]
    /\ lfree = 0
    /\ theirs = [p \in {} |-> 0]
    /\ time_parse = [k \in Field |-> NULL]
    /\ n = 0

\* The size of a block's data.
Room(h, p) == h[p].next - (p + Hdr)

\* "every data block must be at least MIN_SIZE_ALIGNED long"
Rounded(size) == IF size < MinSize THEN MinSize ELSE size

\* A form the code could have had by mistake: the block behind does not learn that
\* its neighbour has changed.
SplitKeepsPrev(h, p, size) ==
    LET p2 == p + Hdr + size
    IN  [q \in DOMAIN h \cup {p2} |->
            IF q = p THEN [h[p] EXCEPT !.next = p2]
            ELSE IF q = p2 THEN [next |-> h[p].next, prev |-> p, used |-> FALSE]
            ELSE h[q]]

\* Block p of h is split behind size words of data: the rest is a free block.
Split(h, p, size) ==
    LET p2 == p + Hdr + size
        next == h[p].next
    IN  [q \in DOMAIN h \cup {p2} |->
            IF q = p THEN [h[p] EXCEPT !.next = p2]
            ELSE IF q = p2 THEN [next |-> next, prev |-> p, used |-> FALSE]
            ELSE IF q = next /\ next # End THEN [h[q] EXCEPT !.prev = p2]
            ELSE h[q]]

\* Block q of h, the one behind p, becomes part of p.
Joined(h, p, q) ==
    [r \in DOMAIN h \ {q} |->
        IF r = p THEN [h[p] EXCEPT !.next = h[q].next]
        ELSE IF r = h[q].next THEN [h[r] EXCEPT !.prev = p]
        ELSE h[r]]

\* The lowest of a set of offsets.
Lowest(S) == CHOOSE p \in S : \A q \in S : p <= q

-----------------------------------------------------------------------------
(* Forms the code could have had by mistake.                               *)

\* Only the block behind is looked at.
plug_holes_forward(h, lf, p) ==
    LET q == h[p].next
        forward == ~h[q].used /\ q # End
    IN  [heap |-> IF forward THEN Joined(h, p, q) ELSE h,
         lfree |-> IF forward /\ lf = q THEN p ELSE lf]

\* The block before is not asked whether it is free.
plug_holes_used(h, lf, p) ==
    LET q == h[p].next
        h1 == IF ~h[q].used /\ q # End THEN Joined(h, p, q) ELSE h
        r == h1[p].prev
    IN  [heap |-> IF r # p THEN Joined(h1, r, p) ELSE h1,
         lfree |-> IF r # p /\ lf \in {p, q} THEN r ELSE IF lf = q THEN p ELSE lf]

\* The header of the block is forgotten when its size is compared.
FitsWithoutHeader(size) ==
    {p \in DOMAIN heap : /\ lfree <= p /\ p < MemSize - size
                         /\ ~heap[p].used /\ heap[p].next - p >= size}

-----------------------------------------------------------------------------

\* plug_holes(mem): a free block is joined with the free ones next to it.
plug_holes(h, lf, p) ==
    LET q == h[p].next
        forward == ~h[q].used /\ q # End
        h1 == IF forward THEN Joined(h, p, q) ELSE h
        l1 == IF forward /\ lf = q THEN p ELSE lf
        r == h1[p].prev
        backward == r # p /\ ~h1[r].used
    IN  [heap |-> IF backward THEN Joined(h1, r, p) ELSE h1,
         lfree |-> IF backward /\ l1 = p THEN r ELSE l1]

\* The blocks at which the search of rt_malloc would stop.
Fits(size) ==
    {p \in DOMAIN heap : /\ lfree <= p /\ p < MemSize - size
                         /\ ~heap[p].used /\ Room(heap, p) >= size}

\* The block rt_malloc returns (a pointer is given by its block).
Found(size) ==
    IF size > MemSize \/ Fits(Rounded(size)) = {} THEN NULL
    ELSE Lowest(Fits(Rounded(size)))

\* What rt_malloc(size) does to the heap: the block is split if the rest is
\* worth it, marked as used, and lfree moves on if it was the lowest.
rt_malloc(size) ==
    IF Found(size) = NULL THEN UNCHANGED <<heap, lfree>>
    ELSE LET p == Found(size)
             s == Rounded(size)
             h == IF Room(heap, p) >= s + Hdr + MinSize THEN Split(heap, p, s) ELSE heap
         IN  /\ heap' = [h EXCEPT ![p].used = TRUE]
             /\ lfree' = IF p # lfree THEN lfree
                         ELSE Lowest({q \in DOMAIN heap' :
                                        q >= lfree /\ (~heap'[q].used \/ q = End)})

\* A form the code could have had by mistake: lfree is not lowered.
rt_free_above(p) ==
    LET after == plug_holes([heap EXCEPT ![p].used = FALSE], lfree, p)
    IN  heap' = after.heap /\ lfree' = after.lfree

\* rt_free
rt_free(p) ==
    LET after == plug_holes([heap EXCEPT ![p].used = FALSE],
                            IF p < lfree THEN p ELSE lfree, p)
    IN  heap' = after.heap /\ lfree' = after.lfree

\* rt_realloc to a size that leaves room for another block.  (To the size the
\* block has it does nothing, and to any other it is rt_malloc, a copy and, if
\* there was memory, rt_free, with heap_sem released in between.)
rt_realloc(p, size) ==
    LET p2 == p + Hdr + size
        after == plug_holes(Split(heap, p, size), IF p2 < lfree THEN p2 ELSE lfree, p2)
    IN  /\ size + Hdr + MinSize < Room(heap, p)
        /\ heap' = after.heap
        /\ lfree' = after.lfree

-----------------------------------------------------------------------------
(* The users                                                               *)

Malloc(size) ==
    /\ rt_malloc(size)
    /\ theirs' = IF Found(size) = NULL THEN theirs
                 ELSE [q \in DOMAIN theirs \cup {Found(size)} |->
                          IF q = Found(size) THEN size ELSE theirs[q]]
    /\ UNCHANGED <<time_parse, n>>

Free(p) ==
    /\ rt_free(p)
    /\ theirs' = [q \in DOMAIN theirs \ {p} |-> theirs[q]]
    /\ UNCHANGED <<time_parse, n>>

Realloc(p, size) ==
    /\ rt_realloc(p, size)
    /\ theirs' = [theirs EXCEPT ![p] = size]
    /\ UNCHANGED <<time_parse, n>>

\* A form the code could have had by mistake, or rather by care: a pointer is
\* freed before it is assigned anew.
TimeMallocFrees ==
    /\ IF time_parse[n] = NULL
       THEN /\ rt_malloc(TimeSize)
            /\ time_parse' = [time_parse EXCEPT ![n] = Found(TimeSize)]
       ELSE /\ rt_free(time_parse[n])
            /\ time_parse' = [time_parse EXCEPT ![n] = NULL]
    /\ n' = (n + 1) % TimeFields
    /\ UNCHANGED theirs

\* changeTime: time_parse[i] = (char *)malloc(sizeof(char)*4)
TimeMalloc ==
    /\ rt_malloc(TimeSize)
    /\ time_parse' = [time_parse EXCEPT ![n] = Found(TimeSize)]
    /\ n' = (n + 1) % TimeFields
    /\ UNCHANGED theirs

Next ==
    \/ \E size \in Sizes : Malloc(size)
    \/ \E p \in DOMAIN theirs : Free(p)
    \/ \E p \in DOMAIN theirs, size \in Sizes : Realloc(p, size)
    \/ TimeMalloc

Spec == Init /\ [][Next]_vars

\* dst_show comes to changeTime in every round, and its rounds go on: the
\* threads above it block or sleep.
FairSpec == Spec /\ WF_vars(TimeMalloc)

-----------------------------------------------------------------------------
Blocks == DOMAIN heap \ {End}
FreeBlocks == {p \in Blocks : ~heap[p].used}

(***************************************************************************)
(* The links hold together after any sequence of calls: the blocks lie one *)
(* behind the other from 0 to heap_end without gap or overlap, each has    *)
(* room for some data, and prev leads back to where next came from.  (The  *)
(* prev of heap_end is not kept up to date, and not used.)                 *)
(***************************************************************************)
BlocksLinked ==
    /\ heap[0].prev = 0
    /\ \A p \in Blocks :
         LET q == heap[p].next IN
         /\ q \in DOMAIN heap
         /\ p + Hdr < q
         /\ \A r \in Blocks : r <= p \/ q <= r
         /\ q # End => heap[q].prev = p

(***************************************************************************)
(* What rt_malloc relies on (its comment: plug_holes should have taken     *)
(* care of this): no two free blocks lie next to each other.               *)
(***************************************************************************)
NoTwoFreeInARow ==
    \A p \in FreeBlocks : heap[p].next = End \/ heap[heap[p].next].used

(***************************************************************************)
(* lfree is what its comment says, the lowest free block, so that a search *)
(* that starts there misses nothing; heap_end if there is none.            *)
(***************************************************************************)
LfreeIsLowest ==
    lfree = IF FreeBlocks = {} THEN End ELSE Lowest(FreeBlocks)

(***************************************************************************)
(* rt_malloc returns NULL for want of memory only: there is then no free   *)
(* block of that size, but for one: a block at the very end of the heap    *)
(* into which the data would just fit is passed over, because the search   *)
(* stops at offsets below mem_size_aligned - size.                         *)
(***************************************************************************)
NullOnlyWithoutRoom ==
    \A size \in Sizes \cup {TimeSize} :
        Found(size) = NULL =>
            \A p \in FreeBlocks :
                \/ Room(heap, p) < Rounded(size)
                \/ p + Rounded(size) = MemSize

(***************************************************************************)
(* A block is as large as its user has asked for, from the call to the     *)
(* free: what is split off, joined or handed out next to it leaves it so.  *)
(***************************************************************************)
RoomAsAsked == \A p \in DOMAIN theirs : Room(heap, p) >= theirs[p]

\* The memory that is handed out: from its address, behind the header, to its length.
Owned ==
    [a \in {p + Hdr : p \in {q \in Blocks : heap[q].used}} |-> Room(heap, a - Hdr)]

(***************************************************************************)
(* The heap is an allocator: memory that is handed out is handed out once, *)
(* lies within the heap and stays as it is until its user gives it back.   *)
(***************************************************************************)
Memory == INSTANCE Allocator WITH Arena <- End, own <- Owned
ImplementsAllocator == Memory!AllocatorSpec

(***************************************************************************)
(* What changeTime does to the heap in the end: as it never frees a block, *)
(* there comes a time from which on every malloc it does returns NULL,     *)
(* whatever other users give back.                                         *)
(***************************************************************************)
HeapRunsOut == <>[](\A k \in Field : time_parse[k] = NULL)
=============================================================================
