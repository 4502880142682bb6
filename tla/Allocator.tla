------------------------------ MODULE Allocator ------------------------------
(***************************************************************************)
(* What the users of the heap may rely on: rt_malloc hands out memory that *)
(* nobody else has, rt_free takes it back, and rt_realloc may take back    *)
(* its end.  When and why rt_malloc returns NULL is not said here.         *)
(***************************************************************************)
EXTENDS Integers

CONSTANT Arena      \* the addresses that can be handed out: 0 .. Arena - 1

VARIABLE own        \* the memory handed out: from its address to its length

\* The addresses of the n words from a on.
Span(a, n) == a .. a + n - 1

AllocatorInit == own = [a \in {} |-> 0]

\* rt_malloc
Alloc(a, n) ==
    /\ n > 0
    /\ Span(a, n) \subseteq 0 .. Arena - 1
    /\ \A b \in DOMAIN own : Span(a, n) \cap Span(b, own[b]) = {}
    /\ own' = [b \in DOMAIN own \cup {a} |-> IF b = a THEN n ELSE own[b]]

\* rt_free
Release(a) ==
    /\ a \in DOMAIN own
    /\ own' = [b \in DOMAIN own \ {a} |-> own[b]]

\* rt_realloc to a smaller size, in place
Shrink(a, n) ==
    /\ a \in DOMAIN own
    /\ n \in 1 .. own[a]
    /\ own' = [own EXCEPT ![a] = n]

AllocatorNext ==
    \E a \in 0 .. Arena - 1 :
        Release(a) \/ \E n \in 1 .. Arena : Alloc(a, n) \/ Shrink(a, n)

AllocatorSpec == AllocatorInit /\ [][AllocatorNext]_own
=============================================================================
