--------------------------- MODULE SmallMemProofs ---------------------------
(***************************************************************************)
(* The heap for every size, header, request and sequence of calls.         *)
(*                                                                         *)
(* HeapInv says of the links what the functions rely on: they lead from    *)
(* block to block in both directions, no two free blocks lie side by side  *)
(* and lfree is the lowest free block.  Within rt_free and rt_realloc the  *)
(* block that is just being freed is an exception (PluggedBut), which      *)
(* plug_holes removes.  UserInv says that the users hold blocks in use.    *)
(* The lemmas come in two layers: about any heap h and one operation on    *)
(* it, and then about the state and the actions.                           *)
(***************************************************************************)
EXTENDS SmallMem, TLAPS, NaturalsInduction, WellFoundedInduction

\* The blocks of h lie one behind the other, and the links lead both ways.
Linked(h) ==
    /\ DOMAIN h \subseteq Offset /\ 0 \in DOMAIN h /\ End \in DOMAIN h
    /\ \A p \in DOMAIN h : h[p] \in heap_mem
    /\ h[End].used
    /\ h[0].prev = 0
    /\ \A p \in DOMAIN h \ {End} :
         /\ h[p].next \in DOMAIN h
         /\ p + Hdr < h[p].next
         /\ \A r \in DOMAIN h : r <= p \/ h[p].next <= r
         /\ h[p].next # End => h[h[p].next].prev = p
    /\ \A p \in DOMAIN h \ {0, End} :
         /\ h[p].prev \in DOMAIN h
         /\ h[p].prev < p
         /\ h[h[p].prev].next = p

\* No two free blocks of h lie next to each other, but for block p and those
\* beside it.
PluggedBut(h, p) ==
    \A q \in DOMAIN h \ {p, End} :
        ~h[q].used /\ h[q].next # p => h[q].next = End \/ h[h[q].next].used

Plugged(h) ==
    \A q \in DOMAIN h \ {End} : ~h[q].used => h[q].next = End \/ h[h[q].next].used

\* l is the lowest free block of h, or its end.
LowestFree(h, l) ==
    /\ l \in DOMAIN h
    /\ l = End \/ ~h[l].used
    /\ \A p \in DOMAIN h \ {End} : ~h[p].used => l <= p

\* The blocks in use are the same in g and in h, and of the same size.
SameUsed(g, h) ==
    \A p \in Offset \ {End} :
        /\ p \in DOMAIN h /\ h[p].used <=> p \in DOMAIN g /\ g[p].used
        /\ p \in DOMAIN h /\ h[p].used => g[p].next = h[p].next

-----------------------------------------------------------------------------
\* The order of the natural numbers is well-founded.
LEMMA NatWellFounded == IsWellFoundedOn({z \in Nat \X Nat : z[1] < z[2]}, Nat)
BY NatLessThanWellFounded DEF OpToRel

\* A set of offsets that is not empty has a lowest member.
LEMMA LowestIsLowest ==
    ASSUME NEW S, S \subseteq Nat, S # {}
    PROVE  Lowest(S) \in S /\ \A q \in S : Lowest(S) <= q
<1>1. PICK x \in S : \A y \in S : ~(<<y, x>> \in {z \in Nat \X Nat : z[1] < z[2]})
  BY WFMin, NatWellFounded
<1>2. ASSUME NEW y \in S PROVE x <= y
  <2>1. <<y, x>> \in Nat \X Nat /\ <<y, x>>[1] = y /\ <<y, x>>[2] = x
    OBVIOUS
  <2>2. ~(y < x)
    BY <1>1, <2>1
  <2>. QED
    BY <2>2
<1>. QED
  BY <1>2 DEF Lowest

\* Joining a block with the one behind it.
LEMMA JoinedLinked ==
    ASSUME NEW h, Linked(h), NEW p \in DOMAIN h \ {End}, NEW q, q = h[p].next, q # End,
           NEW j, j = Joined(h, p, q)
    PROVE  /\ Linked(j)
           /\ DOMAIN j = DOMAIN h \ {q}
           /\ j[p].next = h[q].next
           /\ j[p].prev = h[p].prev
           /\ j[p].used = h[p].used
           /\ \A r \in DOMAIN h \ {p, q} :
                /\ j[r].next = h[r].next
                /\ j[r].used = h[r].used
<1> USE HeapAssumption DEF End, Offset
<1> DEFINE s == h[q].next
<1>1. /\ p \in Offset /\ q \in DOMAIN h /\ q \in Offset /\ p + Hdr < q /\ q # 0
      /\ s \in DOMAIN h /\ s \in Offset /\ q + Hdr < s
      /\ p # q /\ s # p /\ s # q /\ s # 0
  BY DEF Linked
<1>2. h[p] \in heap_mem /\ h[q] \in heap_mem /\ h[s] \in heap_mem
  BY <1>1 DEF Linked
<1>3. DOMAIN j = DOMAIN h \ {q}
  BY DEF Joined
<1>4. j[p] = [h[p] EXCEPT !.next = s]
  BY <1>1 DEF Joined
<1>5. j[s] = [h[s] EXCEPT !.prev = p]
  BY <1>1 DEF Joined
<1>6. \A r \in DOMAIN h \ {p, q, s} : j[r] = h[r]
  BY DEF Joined
<1>7. /\ j[p].next = s /\ j[p].prev = h[p].prev /\ j[p].used = h[p].used
      /\ j[s].next = h[s].next /\ j[s].prev = p /\ j[s].used = h[s].used
      /\ j[p] \in heap_mem /\ j[s] \in heap_mem
  BY <1>1, <1>2, <1>4, <1>5 DEF heap_mem
<1> HIDE DEF s
<1>8. \A r \in DOMAIN h \ {p, q} : j[r].next = h[r].next /\ j[r].used = h[r].used
  BY <1>6, <1>7
<1>9. \A r \in DOMAIN j : j[r] \in heap_mem
  BY <1>3, <1>6, <1>7 DEF Linked
<1>10. h[p].used \in BOOLEAN /\ j[End].used /\ j[0].prev = 0
  BY <1>1, <1>2, <1>3, <1>6, <1>7, <1>8 DEF Linked, heap_mem
<1>11. ASSUME NEW r \in DOMAIN j \ {End}
       PROVE  /\ j[r].next \in DOMAIN j
              /\ r + Hdr < j[r].next
              /\ \A x \in DOMAIN j : x <= r \/ j[r].next <= x
              /\ j[r].next # End => j[j[r].next].prev = r
  <2>1. CASE r = p
    BY <1>1, <1>3, <1>7, <2>1 DEF Linked, s
  <2>2. CASE r # p
    <3>1. r \in DOMAIN h \ {p, q, End} /\ j[r].next = h[r].next
      BY <1>3, <1>8, <2>2
    <3>2. h[r].next # q
      BY <1>1, <3>1 DEF Linked
    <3>3. h[r].next # s
      BY <1>1, <3>1 DEF Linked, s
    <3>4. h[r].next # End => j[h[r].next].prev = r
      <4>1. CASE h[r].next = p
        BY <1>1, <1>7, <3>1, <4>1 DEF Linked
      <4>2. CASE h[r].next # p
        BY <1>6, <3>1, <3>2, <3>3, <4>2 DEF Linked
      <4>. QED
        BY <4>1, <4>2
    <3>. QED
      BY <1>3, <3>1, <3>2, <3>4 DEF Linked
  <2>. QED
    BY <2>1, <2>2
<1>12. ASSUME NEW r \in DOMAIN j \ {0, End}
       PROVE  /\ j[r].prev \in DOMAIN j
              /\ j[r].prev < r
              /\ j[j[r].prev].next = r
  <2>1. CASE r = s
    BY <1>1, <1>3, <1>7, <2>1
  <2>2. CASE r = p
    <3>1. h[p].prev \in DOMAIN h /\ h[p].prev < p /\ h[h[p].prev].next = p
      BY <1>3, <2>2 DEF Linked
    <3>2. h[p].prev # p /\ h[p].prev # q
      BY <1>1, <3>1
    <3>. QED
      BY <1>3, <1>7, <1>8, <2>2, <3>1, <3>2
  <2>3. CASE r # p /\ r # s
    <3>1. r \in DOMAIN h \ {0, End} /\ j[r] = h[r]
      BY <1>3, <1>6, <2>3
    <3>2. h[r].prev \in DOMAIN h /\ h[r].prev < r /\ h[h[r].prev].next = r
      BY <3>1 DEF Linked
    <3>3. h[r].prev # p /\ h[r].prev # q
      BY <1>3, <2>3, <3>2 DEF s
    <3>. QED
      BY <1>3, <1>8, <3>1, <3>2, <3>3
  <2>. QED
    BY <2>1, <2>2, <2>3
<1>13. DOMAIN j \subseteq Offset /\ 0 \in DOMAIN j /\ End \in DOMAIN j
  BY <1>1, <1>3 DEF Linked
<1>14. Linked(j)
  BY <1>9, <1>10, <1>11, <1>12, <1>13 DEF Linked
<1>. QED
  BY <1>3, <1>7, <1>8, <1>14 DEF s

\* j is h with block p split behind size words, at q, where a second one has room.
IsSplit(j, h, p, size, q) ==
    j = Split(h, p, size) /\ q = p + Hdr + size /\ q + Hdr < h[p].next

\* What of it the lemmas need: block p of h has become the blocks p and q of j.
TwoBlocks(j, h, p, q) ==
    /\ q \in Offset /\ q \notin DOMAIN h /\ q # End
    /\ DOMAIN j = DOMAIN h \cup {q}
    /\ j[p].next = q /\ j[p].used = h[p].used
    /\ j[q].next = h[p].next /\ j[q].used = FALSE
    /\ \A r \in DOMAIN h \ {p} : j[r].next = h[r].next /\ j[r].used = h[r].used

\* Splitting a block with room for a second one.
LEMMA SplitLinked ==
    ASSUME NEW h, Linked(h), NEW p \in DOMAIN h \ {End}, NEW size \in Nat \ {0},
           NEW j, NEW q, IsSplit(j, h, p, size, q)
    PROVE  Linked(j) /\ TwoBlocks(j, h, p, q)
<1>0. j = Split(h, p, size) /\ q = p + Hdr + size /\ q + Hdr < h[p].next
  BY DEF IsSplit
<1> USE HeapAssumption DEF End, Offset
<1> DEFINE s == h[p].next
<1>1. /\ p \in Offset /\ s \in DOMAIN h /\ s \in Offset
      /\ q \in Offset /\ p < q /\ q < s /\ q # 0 /\ s # 0 /\ p # s
  BY <1>0 DEF Linked
<1>2. q \notin DOMAIN h /\ q # End
  BY <1>1 DEF Linked
<1>3. h[p] \in heap_mem /\ h[s] \in heap_mem
  BY <1>1 DEF Linked
<1>4. DOMAIN j = DOMAIN h \cup {q}
  BY <1>0 DEF Split
<1>5. j[p] = [h[p] EXCEPT !.next = q]
  BY <1>0 DEF Split
<1>6. j[q] = [next |-> s, prev |-> p, used |-> FALSE]
  BY <1>0, <1>1 DEF Split
<1>7. j[s] = IF s # End THEN [h[s] EXCEPT !.prev = q] ELSE h[s]
  BY <1>0, <1>1 DEF Split
<1>8. \A r \in DOMAIN h \ {p, s} : j[r] = h[r]
  BY <1>0, <1>2 DEF Split
<1>9. /\ j[p].next = q /\ j[p].prev = h[p].prev /\ j[p].used = h[p].used
      /\ j[q].next = s /\ j[q].prev = p /\ j[q].used = FALSE
      /\ j[s].next = h[s].next /\ j[s].used = h[s].used
      /\ s # End => j[s].prev = q
      /\ j[p] \in heap_mem /\ j[q] \in heap_mem /\ j[s] \in heap_mem
  BY <1>1, <1>3, <1>5, <1>6, <1>7 DEF heap_mem
<1> HIDE DEF s
<1>10. \A r \in DOMAIN h \ {p} : j[r].next = h[r].next /\ j[r].used = h[r].used
  BY <1>8, <1>9
<1>11. \A r \in DOMAIN j : j[r] \in heap_mem
  BY <1>4, <1>8, <1>9 DEF Linked
<1>12. j[End].used /\ j[0].prev = 0
  BY <1>1, <1>8, <1>9, <1>10 DEF Linked
<1>13. ASSUME NEW r \in DOMAIN j \ {End}
       PROVE  /\ j[r].next \in DOMAIN j
              /\ r + Hdr < j[r].next
              /\ \A x \in DOMAIN j : x <= r \/ j[r].next <= x
              /\ j[r].next # End => j[j[r].next].prev = r
  <2>1. CASE r = p
    BY <1>0, <1>1, <1>2, <1>4, <1>9, <2>1 DEF Linked, s
  <2>2. CASE r = q
    BY <1>0, <1>1, <1>4, <1>9, <2>2 DEF Linked, s
  <2>3. CASE r # p /\ r # q
    <3>1. r \in DOMAIN h \ {p, End} /\ j[r].next = h[r].next
      BY <1>4, <1>10, <2>3
    <3>2. h[r].next \in DOMAIN h /\ r + Hdr < h[r].next
          /\ (\A x \in DOMAIN h : x <= r \/ h[r].next <= x)
      BY <3>1 DEF Linked
    <3>3. r <= p \/ s <= r
      BY <1>1, <3>1 DEF Linked, s
    <3>4. q <= r \/ h[r].next <= q
      BY <1>1, <3>1, <3>2, <3>3 DEF Linked
    <3>5. h[r].next # s
      BY <1>1, <3>1 DEF Linked, s
    <3>6. h[r].next # End => j[h[r].next].prev = r
      <4>1. CASE h[r].next = p
        BY <1>1, <1>9, <3>1, <4>1 DEF Linked
      <4>2. CASE h[r].next # p
        BY <1>8, <3>1, <3>2, <3>5, <4>2 DEF Linked
      <4>. QED
        BY <4>1, <4>2
    <3>. QED
      BY <1>1, <1>4, <3>1, <3>2, <3>4, <3>6 DEF Linked
  <2>. QED
    BY <2>1, <2>2, <2>3
<1>14. ASSUME NEW r \in DOMAIN j \ {0, End}
       PROVE  /\ j[r].prev \in DOMAIN j
              /\ j[r].prev < r
              /\ j[j[r].prev].next = r
  <2>1. CASE r = q \/ r = s
    BY <1>1, <1>4, <1>9, <2>1
  <2>2. CASE r = p
    <3>1. h[p].prev \in DOMAIN h \ {p} /\ h[p].prev < p /\ h[h[p].prev].next = p
      BY <1>1, <2>2 DEF Linked
    <3>. QED
      BY <1>4, <1>9, <1>10, <2>2, <3>1
  <2>3. CASE r # p /\ r # q /\ r # s
    <3>1. r \in DOMAIN h \ {0, End} /\ j[r] = h[r]
      BY <1>4, <1>8, <2>3
    <3>2. h[r].prev \in DOMAIN h /\ h[r].prev < r /\ h[h[r].prev].next = r
      BY <3>1 DEF Linked
    <3>3. h[r].prev # p
      BY <2>3, <3>2 DEF s
    <3>. QED
      BY <1>4, <1>10, <3>1, <3>2, <3>3
  <2>. QED
    BY <2>1, <2>2, <2>3
<1>15. DOMAIN j \subseteq Offset /\ 0 \in DOMAIN j /\ End \in DOMAIN j
  BY <1>1, <1>4 DEF Linked
<1>16. Linked(j)
  BY <1>11, <1>12, <1>13, <1>14, <1>15 DEF Linked
<1>. QED
  BY <1>1, <1>2, <1>4, <1>9, <1>10, <1>16 DEF s, TwoBlocks

\* A record with the mark TRUE is the same but for the mark.
LEMMA MarkedRecord ==
    ASSUME NEW x \in heap_mem, NEW y, y = [x EXCEPT !.used = TRUE]
    PROVE  y.used = TRUE /\ y.next = x.next /\ y.prev = x.prev /\ y \in heap_mem
BY DEF heap_mem

\* j is h with another mark on block p.
IsMarked(j, h, p) ==
    /\ DOMAIN j = DOMAIN h
    /\ \A r \in DOMAIN h \ {p} : j[r] = h[r]
    /\ j[p].next = h[p].next /\ j[p].prev = h[p].prev /\ j[p] \in heap_mem

\* Marking a block as used or free leaves the links alone.
LEMMA MarkedLinked ==
    ASSUME NEW h, Linked(h), NEW p \in DOMAIN h \ {End}, NEW j, IsMarked(j, h, p)
    PROVE  Linked(j)
<1>1. 0 \in DOMAIN h /\ DOMAIN j = DOMAIN h
  BY DEF Linked, IsMarked
<1>2. \A r \in DOMAIN h : j[r].next = h[r].next /\ j[r].prev = h[r].prev /\ j[r] \in heap_mem
  BY DEF Linked, IsMarked
<1>3. j[End].used /\ j[0].prev = 0
  BY <1>1, <1>2 DEF Linked, IsMarked
<1>4. \A r \in DOMAIN j \ {End} :
         /\ j[r].next \in DOMAIN j
         /\ r + Hdr < j[r].next
         /\ \A x \in DOMAIN j : x <= r \/ j[r].next <= x
         /\ j[r].next # End => j[j[r].next].prev = r
  BY <1>1, <1>2 DEF Linked
<1>5. \A r \in DOMAIN j \ {0, End} :
         /\ j[r].prev \in DOMAIN j
         /\ j[r].prev < r
         /\ j[j[r].prev].next = r
  BY <1>1, <1>2 DEF Linked
<1>. QED
  BY <1>1, <1>2, <1>3, <1>4, <1>5 DEF Linked

\* What the first half of plug_holes leaves for the second.
LEMMA JoinForward ==
    ASSUME NEW h, Linked(h), NEW p \in DOMAIN h \ {End}, ~h[p].used, PluggedBut(h, p),
           NEW l, LowestFree(h, l), NEW q, q = h[p].next, q # End, ~h[q].used,
           NEW g, g = Joined(h, p, q)
    PROVE  /\ Linked(g) /\ p \in DOMAIN g /\ ~g[p].used /\ PluggedBut(g, p)
           /\ LowestFree(g, l) /\ l # q /\ SameUsed(g, h)
           /\ g[p].next = End \/ g[g[p].next].used
<1>1. /\ Linked(g)
      /\ DOMAIN g = DOMAIN h \ {q}
      /\ g[p].next = h[q].next
      /\ g[p].used = h[p].used
      /\ \A r \in DOMAIN h \ {p, q} : g[r].next = h[r].next /\ g[r].used = h[r].used
  BY JoinedLinked
<1> USE HeapAssumption DEF End, Offset
<1>2. /\ p \in Offset /\ q \in DOMAIN h /\ q \in Offset /\ p < q /\ DOMAIN h \subseteq Offset
      /\ h[q].next \in DOMAIN h /\ q < h[q].next
  BY DEF Linked
<1>3. l \in Offset /\ l <= p /\ l # q /\ l \in DOMAIN g
  BY <1>1, <1>2 DEF LowestFree
<1>4. LowestFree(g, l)
  BY <1>1, <1>2, <1>3 DEF LowestFree
<1>5. h[q].next = End \/ h[h[q].next].used
  BY <1>2 DEF PluggedBut
<1>6. g[p].next = End \/ g[g[p].next].used
  BY <1>1, <1>2, <1>5
<1>7. PluggedBut(g, p)
  <2> SUFFICES ASSUME NEW r \in DOMAIN g \ {p, End}, ~g[r].used, g[r].next # p
               PROVE  g[r].next = End \/ g[g[r].next].used
    BY DEF PluggedBut
  <2>1. r \in DOMAIN h \ {p, q, End} /\ h[r].next = g[r].next /\ ~h[r].used
    BY <1>1
  <2>2. h[r].next \in DOMAIN h /\ (h[r].next = End \/ h[h[r].next].used)
    BY <2>1 DEF PluggedBut, Linked
  <2>. QED
    BY <1>1, <2>1, <2>2
<1>8. SameUsed(g, h)
  BY <1>1, <1>2 DEF SameUsed
<1>. QED
  BY <1>1, <1>2, <1>3, <1>4, <1>6, <1>7, <1>8

\* What the second half does.
LEMMA JoinBackward ==
    ASSUME NEW h, Linked(h), NEW p \in DOMAIN h \ {End}, ~h[p].used, PluggedBut(h, p),
           h[p].next = End \/ h[h[p].next].used,
           NEW l, LowestFree(h, l), NEW r \in DOMAIN h \ {End}, h[r].next = p, ~h[r].used,
           NEW g, g = Joined(h, r, p)
    PROVE  Linked(g) /\ Plugged(g) /\ LowestFree(g, l) /\ l # p /\ SameUsed(g, h)
<1>1. /\ p \in Offset /\ r \in DOMAIN h \ {End} /\ r < p /\ h[r].next = p
      /\ r \in Offset /\ DOMAIN h \subseteq Offset
      /\ h[p].next \in DOMAIN h /\ p < h[p].next
  BY HeapAssumption DEF Linked, End, Offset
<1>2. /\ Linked(g)
      /\ DOMAIN g = DOMAIN h \ {p}
      /\ g[r].next = h[p].next
      /\ g[r].used = h[r].used
      /\ \A x \in DOMAIN h \ {r, p} : g[x].next = h[x].next /\ g[x].used = h[x].used
  BY JoinedLinked
<1> USE HeapAssumption DEF End, Offset
<1>3. l \in Offset /\ l <= r /\ l # p /\ l \in DOMAIN g
  BY <1>1, <1>2 DEF LowestFree
<1>4. LowestFree(g, l)
  BY <1>1, <1>2, <1>3 DEF LowestFree
<1>5. Plugged(g)
  <2> SUFFICES ASSUME NEW x \in DOMAIN g \ {End}, ~g[x].used
               PROVE  g[x].next = End \/ g[g[x].next].used
    BY DEF Plugged
  <2>1. CASE x = r
    BY <1>1, <1>2, <2>1
  <2>2. CASE x # r
    <3>1. x \in DOMAIN h \ {p, r, End} /\ h[x].next = g[x].next /\ ~h[x].used
      BY <1>2, <2>2
    <3>2. h[x].next # p
      BY <1>1, <3>1 DEF Linked
    <3>3. h[x].next \in DOMAIN h /\ (h[x].next = End \/ h[h[x].next].used)
      BY <3>1, <3>2 DEF PluggedBut, Linked
    <3>. QED
      BY <1>2, <3>1, <3>2, <3>3
  <2>. QED
    BY <2>1, <2>2
<1>6. SameUsed(g, h)
  BY <1>1, <1>2 DEF SameUsed
<1>. QED
  BY <1>2, <1>3, <1>4, <1>5, <1>6

\* plug_holes: a free block is all that may be next to free ones, and afterwards
\* no two free blocks are.
LEMMA PlugHoles ==
    ASSUME NEW h, Linked(h), NEW p \in DOMAIN h \ {End}, ~h[p].used, PluggedBut(h, p),
           NEW l, LowestFree(h, l)
    PROVE  /\ Linked(plug_holes(h, l, p).heap)
           /\ Plugged(plug_holes(h, l, p).heap)
           /\ LowestFree(plug_holes(h, l, p).heap, plug_holes(h, l, p).lfree)
           /\ SameUsed(plug_holes(h, l, p).heap, h)
<1> DEFINE q == h[p].next
           forward == ~h[q].used /\ q # End
           h1 == IF forward THEN Joined(h, p, q) ELSE h
           r == h1[p].prev
           backward == r # p /\ ~h1[r].used
           h2 == IF backward THEN Joined(h1, r, p) ELSE h1
<1>1. /\ Linked(h1) /\ p \in DOMAIN h1 \ {End} /\ ~h1[p].used /\ PluggedBut(h1, p)
      /\ LowestFree(h1, l) /\ SameUsed(h1, h)
      /\ h1[p].next = End \/ h1[h1[p].next].used
      /\ forward => l # q
  <2>1. CASE forward
    BY <2>1, JoinForward
  <2>2. CASE ~forward
    BY <2>2 DEF SameUsed
  <2>. QED
    BY <2>1, <2>2
<1> HIDE DEF h1
<1>2. /\ Linked(h2) /\ Plugged(h2) /\ LowestFree(h2, l) /\ SameUsed(h2, h1)
      /\ backward => l # p
  <2>1. CASE backward
    <3>1. r \in DOMAIN h1 \ {End} /\ h1[r].next = p
      BY <1>1, <2>1, HeapAssumption DEF Linked, End, Offset
    <3>2. h2 = Joined(h1, r, p) /\ ~h1[r].used
      BY <2>1
    <3>. HIDE DEF r, h2
    <3>. QED
      BY <1>1, <2>1, <3>1, <3>2, JoinBackward
  <2>2. CASE ~backward
    <3>1. Plugged(h1)
      <4> SUFFICES ASSUME NEW x \in DOMAIN h1 \ {End}, ~h1[x].used
                   PROVE  h1[x].next = End \/ h1[h1[x].next].used
        BY DEF Plugged
      <4>1. CASE x # p /\ h1[x].next = p
        <5>1. r = x
          BY <1>1, <4>1 DEF Linked
        <5>. QED
          BY <2>2, <4>1, <5>1
      <4>2. CASE x # p /\ h1[x].next # p
        BY <1>1, <4>2 DEF PluggedBut
      <4>3. CASE x = p
        BY <1>1, <4>3
      <4>. QED
        BY <4>1, <4>2, <4>3
    <3>. QED
      BY <1>1, <2>2, <3>1 DEF SameUsed
  <2>. QED
    BY <2>1, <2>2
<1> HIDE DEF h2
<1>3. SameUsed(h2, h)
  BY <1>1, <1>2 DEF SameUsed
<1>4. plug_holes(h, l, p).heap = h2 /\ plug_holes(h, l, p).lfree = l
  BY <1>1, <1>2 DEF plug_holes, h1, h2
<1>. QED
  BY <1>2, <1>3, <1>4

-----------------------------------------------------------------------------
\* The blocks in use are the same in g and in h but for p, and of the same size.
SameUsedBut(g, h, p) ==
    \A r \in Offset \ {End, p} :
        /\ r \in DOMAIN h /\ h[r].used <=> r \in DOMAIN g /\ g[r].used
        /\ r \in DOMAIN h /\ h[r].used => g[r].next = h[r].next

\* What rt_malloc makes of h when it has found block p for s words.
TakenFrom(h, p, s) ==
    [(IF Room(h, p) >= s + Hdr + MinSize THEN Split(h, p, s) ELSE h)
        EXCEPT ![p].used = TRUE]

\* j is h with block p in use; l was the lowest free block.
IsTaken(j, h, l, p, s) ==
    /\ SameUsedBut(j, h, p)
    /\ p \in DOMAIN j /\ j[p].used /\ j[p].next <= h[p].next
    /\ Room(j, p) >= s
    /\ p # l => LowestFree(j, l)
    /\ p = l => \A r \in DOMAIN j \ {End} : ~j[r].used => p <= r

\* What rt_malloc does to the block it has found.
LEMMA TakeBlock ==
    ASSUME NEW h, Linked(h), Plugged(h), NEW l, LowestFree(h, l),
           NEW p \in DOMAIN h \ {End}, ~h[p].used,
           NEW s \in Nat \ {0}, Room(h, p) >= s,
           NEW j, j = TakenFrom(h, p, s)
    PROVE  Linked(j) /\ Plugged(j) /\ IsTaken(j, h, l, p, s)
<1> DEFINE g == IF Room(h, p) >= s + Hdr + MinSize THEN Split(h, p, s) ELSE h
<1>0. j = [g EXCEPT ![p].used = TRUE]
  BY DEF TakenFrom
<1>1. /\ p \in Offset /\ h[p].next \in Offset /\ DOMAIN h \subseteq Offset /\ l \in Offset
      /\ p < h[p].next /\ h[p].next \in DOMAIN h
      /\ h[p].next = End \/ h[h[p].next].used
  BY HeapAssumption DEF Linked, Plugged, LowestFree, heap_mem, Offset, End
<1> HIDE DEF g
<1>2. CASE Room(h, p) >= s + Hdr + MinSize
  <2> DEFINE q == p + Hdr + s
  <2>1. q + Hdr < h[p].next /\ q \in Nat /\ p < q /\ q < h[p].next /\ q = p + Hdr + s
    BY <1>1, <1>2, HeapAssumption DEF Room, Offset, End
  <2> HIDE DEF q
  <2>2. g = Split(h, p, s)
    BY <1>2 DEF g
  <2>3. /\ Linked(g)
        /\ q \in Offset /\ q \notin DOMAIN h /\ q # End
        /\ DOMAIN g = DOMAIN h \cup {q}
        /\ g[p].next = q
        /\ g[p].used = h[p].used
        /\ g[q].next = h[p].next
        /\ g[q].used = FALSE
        /\ \A r \in DOMAIN h \ {p} : g[r].next = h[r].next /\ g[r].used = h[r].used
    <3>1. IsSplit(g, h, p, s, q)
      BY <2>1, <2>2 DEF IsSplit
    <3>2. Linked(g) /\ TwoBlocks(g, h, p, q)
      BY <3>1, SplitLinked, Zenon
    <3>. QED
      BY <3>2 DEF TwoBlocks
  <2>4. p \in DOMAIN g \ {End}
    BY <2>3
  <2>5. /\ Linked(j)
        /\ DOMAIN j = DOMAIN g
        /\ j[p].used = TRUE
        /\ j[p].next = g[p].next
        /\ \A r \in DOMAIN g \ {p} : j[r] = g[r]
    <3>1. g[p] \in heap_mem
      BY <2>3, <2>4 DEF Linked
    <3>2. /\ DOMAIN j = DOMAIN g /\ j[p] = [g[p] EXCEPT !.used = TRUE]
          /\ \A r \in DOMAIN g \ {p} : j[r] = g[r]
      BY <1>0, <2>3, <2>4
    <3>3. j[p].used = TRUE /\ j[p].next = g[p].next /\ j[p].prev = g[p].prev
          /\ j[p] \in heap_mem
      BY <3>1, <3>2, MarkedRecord
    <3>4. IsMarked(j, g, p)
      BY <3>2, <3>3 DEF IsMarked
    <3>. QED
      BY <2>3, <2>4, <3>2, <3>3, <3>4, MarkedLinked
  <2>6. /\ DOMAIN j = DOMAIN h \cup {q} /\ j[p].next = q /\ j[p].used
        /\ j[q].next = h[p].next /\ ~j[q].used
        /\ \A r \in DOMAIN h \ {p} : j[r].next = h[r].next /\ j[r].used = h[r].used
    BY <2>1, <2>3, <2>5
  <2>7. Plugged(j)
    <3> SUFFICES ASSUME NEW x \in DOMAIN j \ {End}, ~j[x].used
                 PROVE  j[x].next = End \/ j[j[x].next].used
      BY DEF Plugged
    <3>1. CASE x = q
      BY <1>1, <2>1, <2>6, <3>1
    <3>2. CASE x # q
      <4>1. x \in DOMAIN h \ {p, End} /\ ~h[x].used /\ j[x].next = h[x].next
        BY <2>6, <3>2
      <4>2. h[x].next \in DOMAIN h /\ (h[x].next = End \/ h[h[x].next].used)
        BY <4>1 DEF Plugged, Linked
      <4>. QED
        BY <2>6, <4>1, <4>2
    <3>. QED
      BY <3>1, <3>2
  <2>8. SameUsedBut(j, h, p)
    BY <2>3, <2>6 DEF SameUsedBut
  <2>9. Room(j, p) >= s
    BY <1>1, <2>1, <2>6, HeapAssumption DEF Room, Offset, End
  <2>10. p # l => LowestFree(j, l)
    BY <1>1, <2>1, <2>3, <2>6, HeapAssumption DEF LowestFree, Offset, End
  <2>11. p = l => \A r \in DOMAIN j \ {End} : ~j[r].used => p <= r
    BY <1>1, <2>1, <2>3, <2>6, HeapAssumption DEF LowestFree, Offset, End
  <2>12. p \in DOMAIN j /\ j[p].used /\ j[p].next <= h[p].next
    BY <1>1, <2>1, <2>6, HeapAssumption DEF Offset, End
  <2>. QED
    BY <2>5, <2>7, <2>8, <2>9, <2>10, <2>11, <2>12 DEF IsTaken
<1>3. CASE ~(Room(h, p) >= s + Hdr + MinSize)
  <2>1. g = h
    BY <1>3 DEF g
  <2>2. /\ Linked(j)
        /\ DOMAIN j = DOMAIN h
        /\ j[p].used = TRUE
        /\ j[p].next = h[p].next
        /\ \A r \in DOMAIN h \ {p} : j[r] = h[r]
    <3>1. h[p] \in heap_mem
      BY <2>1 DEF Linked
    <3>2. /\ DOMAIN j = DOMAIN h /\ j[p] = [h[p] EXCEPT !.used = TRUE]
          /\ \A r \in DOMAIN h \ {p} : j[r] = h[r]
      BY <1>0, <2>1
    <3>3. j[p].used = TRUE /\ j[p].next = h[p].next /\ j[p].prev = h[p].prev
          /\ j[p] \in heap_mem
      BY <3>1, <3>2 DEF heap_mem
    <3>4. IsMarked(j, h, p)
      BY <3>2, <3>3 DEF IsMarked
    <3>. QED
      BY <2>1, <3>2, <3>3, <3>4, MarkedLinked
  <2>3. Plugged(j)
    <3> SUFFICES ASSUME NEW x \in DOMAIN j \ {End}, ~j[x].used
                 PROVE  j[x].next = End \/ j[j[x].next].used
      BY DEF Plugged
    <3>1. x \in DOMAIN h \ {p, End} /\ ~h[x].used /\ j[x].next = h[x].next
      BY <2>2
    <3>2. h[x].next \in DOMAIN h /\ (h[x].next = End \/ h[h[x].next].used)
      BY <3>1 DEF Plugged, Linked
    <3>. QED
      BY <2>2, <3>1, <3>2
  <2>4. SameUsedBut(j, h, p)
    BY <2>2 DEF SameUsedBut
  <2>5. Room(j, p) >= s
    BY <2>2 DEF Room
  <2>6. p # l => LowestFree(j, l)
    BY <2>2 DEF LowestFree
  <2>7. p = l => \A r \in DOMAIN j \ {End} : ~j[r].used => p <= r
    BY <2>2 DEF LowestFree
  <2>8. p \in DOMAIN j /\ j[p].used /\ j[p].next <= h[p].next
    BY <1>1, <2>2, HeapAssumption DEF Offset, End
  <2>. QED
    BY <2>2, <2>3, <2>4, <2>5, <2>6, <2>7, <2>8 DEF IsTaken
<1>. QED
  BY <1>2, <1>3

\* What rt_free does, from the mark to the end of plug_holes.
LEMMA FreeBlock ==
    ASSUME NEW h, Linked(h), Plugged(h), NEW l, LowestFree(h, l),
           NEW p \in DOMAIN h \ {End}, h[p].used,
           NEW g, g = [h EXCEPT ![p].used = FALSE],
           NEW m, m = IF p < l THEN p ELSE l
    PROVE  /\ Linked(g) /\ p \in DOMAIN g \ {End} /\ ~g[p].used /\ PluggedBut(g, p)
           /\ LowestFree(g, m) /\ SameUsedBut(g, h, p)
<1>1. /\ Linked(g)
      /\ DOMAIN g = DOMAIN h
      /\ g[p].used = FALSE
      /\ g[p].next = h[p].next
      /\ \A r \in DOMAIN h \ {p} : g[r] = h[r]
  <2>1. h[p] \in heap_mem
    BY DEF Linked
  <2>2. /\ DOMAIN g = DOMAIN h /\ g[p] = [h[p] EXCEPT !.used = FALSE]
        /\ \A r \in DOMAIN h \ {p} : g[r] = h[r]
    OBVIOUS
  <2>3. g[p].used = FALSE /\ g[p].next = h[p].next /\ g[p].prev = h[p].prev
        /\ g[p] \in heap_mem
    BY <2>1, <2>2 DEF heap_mem
  <2>4. IsMarked(g, h, p)
    BY <2>2, <2>3 DEF IsMarked
  <2>. QED
    BY <2>2, <2>3, <2>4, MarkedLinked
<1>2. PluggedBut(g, p)
  <2> SUFFICES ASSUME NEW x \in DOMAIN g \ {p, End}, ~g[x].used, g[x].next # p
               PROVE  g[x].next = End \/ g[g[x].next].used
    BY DEF PluggedBut
  <2>1. x \in DOMAIN h \ {p, End} /\ ~h[x].used /\ h[x].next = g[x].next
    BY <1>1
  <2>2. h[x].next \in DOMAIN h /\ (h[x].next = End \/ h[h[x].next].used)
    BY <2>1 DEF Plugged, Linked
  <2>. QED
    BY <1>1, <2>1, <2>2
<1>3. p \in Offset /\ l \in Offset /\ DOMAIN h \subseteq Offset
  BY DEF Linked, LowestFree
<1>4. LowestFree(g, m)
  BY <1>1, <1>3, HeapAssumption DEF LowestFree, Offset, End
<1>5. SameUsedBut(g, h, p)
  BY <1>1 DEF SameUsedBut
<1>. QED
  BY <1>1, <1>2, <1>4, <1>5

\* What rt_realloc does before it comes to plug_holes.
LEMMA ShrinkBlock ==
    ASSUME NEW h, Linked(h), Plugged(h), NEW l, LowestFree(h, l),
           NEW p \in DOMAIN h \ {End}, h[p].used,
           NEW size \in Nat \ {0}, NEW q, q = p + Hdr + size, q + Hdr < h[p].next,
           NEW g, g = Split(h, p, size),
           NEW m, m = IF q < l THEN q ELSE l
    PROVE  /\ Linked(g) /\ q \in DOMAIN g \ {End} /\ ~g[q].used /\ PluggedBut(g, q)
           /\ LowestFree(g, m) /\ SameUsedBut(g, h, p)
           /\ p \in DOMAIN g /\ g[p].used /\ g[p].next = q
<1>1. /\ Linked(g)
      /\ q \in Offset /\ q \notin DOMAIN h /\ q # End
      /\ DOMAIN g = DOMAIN h \cup {q}
      /\ g[p].next = q
      /\ g[p].used = h[p].used
      /\ g[q].next = h[p].next
      /\ g[q].used = FALSE
      /\ \A r \in DOMAIN h \ {p} : g[r].next = h[r].next /\ g[r].used = h[r].used
  <2>1. IsSplit(g, h, p, size, q)
    BY DEF IsSplit
  <2>2. Linked(g) /\ TwoBlocks(g, h, p, q)
    BY <2>1, SplitLinked, Zenon
  <2>. QED
    BY <2>2 DEF TwoBlocks
<1>2. PluggedBut(g, q)
  <2> SUFFICES ASSUME NEW x \in DOMAIN g \ {q, End}, ~g[x].used, g[x].next # q
               PROVE  g[x].next = End \/ g[g[x].next].used
    BY DEF PluggedBut
  <2>1. x \in DOMAIN h \ {p, End} /\ ~h[x].used /\ h[x].next = g[x].next
    BY <1>1
  <2>2. h[x].next \in DOMAIN h /\ (h[x].next = End \/ h[h[x].next].used)
    BY <2>1 DEF Plugged, Linked
  <2>. QED
    BY <1>1, <2>1, <2>2
<1>3. p \in Offset /\ l \in Offset /\ DOMAIN h \subseteq Offset
  BY DEF Linked, LowestFree
<1>4. LowestFree(g, m)
  <2>1. m \in DOMAIN g /\ (m = End \/ ~g[m].used)
    <3>1. CASE q < l
      BY <1>1, <3>1
    <3>2. CASE ~(q < l)
      <4>1. m = l /\ l \in DOMAIN h /\ (l = End \/ ~h[l].used)
        BY <3>2 DEF LowestFree
      <4>2. l # p
        BY <4>1
      <4>. QED
        BY <1>1, <4>1, <4>2
    <3>. QED
      BY <3>1, <3>2
  <2>2. ASSUME NEW x \in DOMAIN g \ {End}, ~g[x].used
        PROVE  m <= x
    <3>1. CASE x = q
      BY <1>1, <1>3, <3>1, HeapAssumption DEF Offset, End
    <3>2. CASE x # q
      <4>1. x \in DOMAIN h \ {p, End} /\ ~h[x].used
        BY <1>1, <2>2, <3>2
      <4>2. l <= x /\ x \in Offset
        BY <1>3, <4>1 DEF LowestFree
      <4>. QED
        BY <1>1, <1>3, <4>2, HeapAssumption DEF Offset, End
    <3>. QED
      BY <3>1, <3>2
  <2>. QED
    BY <2>1, <2>2 DEF LowestFree
<1>5. SameUsedBut(g, h, p)
  BY <1>1 DEF SameUsedBut
<1>. QED
  BY <1>1, <1>2, <1>4, <1>5

-----------------------------------------------------------------------------
\* What every call finds and leaves: the heap...
HeapInv ==
    /\ Linked(heap)
    /\ Plugged(heap)
    /\ LowestFree(heap, lfree)

\* ... and its users.
UserInv ==
    /\ \A p \in DOMAIN theirs :
         /\ p \in DOMAIN heap \ {End} /\ heap[p].used
         /\ theirs[p] \in Sizes
         /\ Room(heap, p) >= theirs[p]
    /\ time_parse \in [Field -> Offset \cup {NULL}]
    /\ n \in Field

\* What a call of rt_malloc that found block p has done.
Taken(p, size) ==
    /\ p \in DOMAIN heap \ {End} /\ ~heap[p].used
    /\ p \in DOMAIN heap' /\ heap'[p].used
    /\ heap'[p].next <= heap[p].next
    /\ Room(heap', p) >= size
    /\ SameUsedBut(heap', heap, p)

\* The blocks of a linked heap are offsets.
LEMMA Offsets ==
    ASSUME NEW h, Linked(h)
    PROVE  /\ DOMAIN h \subseteq Offset
           /\ \A p \in DOMAIN h : h[p] \in heap_mem
           /\ Offset \subseteq Nat
BY HeapAssumption DEF Linked, Offset, End

\* The search of rt_malloc ends at a free block that is large enough.
LEMMA FoundFits ==
    ASSUME HeapInv, NEW size \in Nat \ {0}, Found(size) # NULL
    PROVE  /\ Found(size) \in DOMAIN heap \ {End} /\ ~heap[Found(size)].used
           /\ Room(heap, Found(size)) >= Rounded(size)
           /\ Rounded(size) \in Nat \ {0} /\ Rounded(size) >= size
<1>1. Rounded(size) \in Nat \ {0} /\ Rounded(size) >= size
  BY HeapAssumption DEF Rounded
<1>2. Fits(Rounded(size)) # {} /\ Found(size) = Lowest(Fits(Rounded(size)))
  BY DEF Found
<1>3. Fits(Rounded(size)) \subseteq Nat
  BY Offsets DEF HeapInv, Fits
<1>4. Found(size) \in Fits(Rounded(size))
  BY <1>2, <1>3, LowestIsLowest
<1>5. heap[End].used
  BY DEF HeapInv, Linked
<1>. QED
  BY <1>1, <1>4, <1>5 DEF Fits

\* rt_malloc: HeapInv holds again, and one free block has become one in use.
LEMMA MallocInv ==
    ASSUME HeapInv, NEW size \in Nat \ {0}, rt_malloc(size), Found(size) # NULL
    PROVE  HeapInv' /\ Taken(Found(size), size)
<1> DEFINE p == Found(size)
           s == Rounded(size)
<1>1. /\ p \in DOMAIN heap \ {End} /\ ~heap[p].used /\ Room(heap, p) >= s
      /\ s \in Nat \ {0} /\ s >= size
  BY FoundFits
<1>2. /\ heap' = TakenFrom(heap, p, s)
      /\ lfree' = IF p # lfree THEN lfree
                  ELSE Lowest({q \in DOMAIN heap' :
                                 q >= lfree /\ (~heap'[q].used \/ q = End)})
  BY DEF rt_malloc, TakenFrom
<1> HIDE DEF p, s
<1>3. Linked(heap) /\ Plugged(heap) /\ LowestFree(heap, lfree)
  BY DEF HeapInv
<1>4. /\ Linked(heap') /\ Plugged(heap') /\ SameUsedBut(heap', heap, p)
      /\ p \in DOMAIN heap' /\ heap'[p].used /\ heap'[p].next <= heap[p].next
      /\ Room(heap', p) >= s
      /\ p # lfree => LowestFree(heap', lfree)
      /\ p = lfree => \A r \in DOMAIN heap' \ {End} : ~heap'[r].used => p <= r
  <2>1. Linked(heap') /\ Plugged(heap') /\ IsTaken(heap', heap, lfree, p, s)
    BY <1>1, <1>2, <1>3, TakeBlock, Zenon
  <2>. QED
    BY <2>1 DEF IsTaken
<1>5. LowestFree(heap', lfree')
  <2>1. CASE p # lfree
    BY <1>2, <1>4, <2>1
  <2>2. CASE p = lfree
    <3> DEFINE S == {q \in DOMAIN heap' : q >= lfree /\ (~heap'[q].used \/ q = End)}
    <3>1. S \subseteq Nat /\ lfree \in Offset /\ lfree <= End /\ End \in DOMAIN heap'
      BY <1>3, <1>4, Offsets DEF LowestFree, Linked, Offset
    <3>2. End \in S
      BY <3>1, HeapAssumption DEF End, Offset
    <3>3. lfree' = Lowest(S)
      BY <1>2, <2>2
    <3>4. lfree' \in S /\ \A q \in S : lfree' <= q
      BY <3>1, <3>2, <3>3, LowestIsLowest
    <3>5. ASSUME NEW r \in DOMAIN heap' \ {End}, ~heap'[r].used
          PROVE  r \in S
      <4>1. p <= r
        BY <1>4, <2>2, <3>5
      <4>2. r \in Nat /\ lfree \in Nat
        BY <1>4, <3>1, Offsets
      <4>. QED
        BY <2>2, <3>5, <4>1, <4>2
    <3>. QED
      BY <3>4, <3>5 DEF LowestFree
  <2>. QED
    BY <2>1, <2>2
<1>6. HeapInv'
  BY <1>4, <1>5 DEF HeapInv
<1>7. Room(heap', p) >= size
  <2>1. heap'[p] \in heap_mem /\ p \in Nat
    BY <1>4, Offsets
  <2>2. Room(heap', p) \in Int
    BY <2>1, HeapAssumption DEF Room, heap_mem, Offset, End
  <2>. QED
    BY <1>1, <1>4, <2>2
<1>. QED
  BY <1>1, <1>4, <1>6, <1>7 DEF Taken, p

\* rt_free: HeapInv holds again, and only block p is no longer in use.
LEMMA FreeInv ==
    ASSUME HeapInv, NEW p \in DOMAIN heap \ {End}, heap[p].used, rt_free(p)
    PROVE  /\ HeapInv'
           /\ SameUsedBut(heap', heap, p)
           /\ ~(p \in DOMAIN heap' /\ heap'[p].used)
<1> DEFINE g == [heap EXCEPT ![p].used = FALSE]
           m == IF p < lfree THEN p ELSE lfree
<1>1. Linked(heap) /\ Plugged(heap) /\ LowestFree(heap, lfree)
  BY DEF HeapInv
<1>2. heap' = plug_holes(g, m, p).heap /\ lfree' = plug_holes(g, m, p).lfree
  BY DEF rt_free
<1>3. /\ Linked(g) /\ p \in DOMAIN g \ {End} /\ ~g[p].used /\ PluggedBut(g, p)
      /\ LowestFree(g, m) /\ SameUsedBut(g, heap, p)
  BY <1>1, FreeBlock
<1> HIDE DEF g, m
<1>4. /\ Linked(heap') /\ Plugged(heap') /\ LowestFree(heap', lfree')
      /\ SameUsed(heap', g)
  BY <1>2, <1>3, PlugHoles
<1>5. p \in Offset
  BY <1>1, Offsets
<1>. QED
  BY <1>3, <1>4, <1>5 DEF HeapInv, SameUsed, SameUsedBut

\* rt_realloc: HeapInv holds again, and only block p has changed its size.
LEMMA ReallocInv ==
    ASSUME HeapInv, NEW p \in DOMAIN heap \ {End}, heap[p].used,
           NEW size \in Nat \ {0}, rt_realloc(p, size)
    PROVE  /\ HeapInv'
           /\ SameUsedBut(heap', heap, p)
           /\ p \in DOMAIN heap' /\ heap'[p].used
           /\ Room(heap', p) = size /\ heap'[p].next < heap[p].next
<1> DEFINE q == p + Hdr + size
           g == Split(heap, p, size)
           m == IF q < lfree THEN q ELSE lfree
<1>1. Linked(heap) /\ Plugged(heap) /\ LowestFree(heap, lfree)
  BY DEF HeapInv
<1>2. /\ heap' = plug_holes(g, m, q).heap /\ lfree' = plug_holes(g, m, q).lfree
      /\ size + Hdr + MinSize < Room(heap, p)
  BY DEF rt_realloc
<1>3. p \in Offset /\ p \in Nat /\ heap[p] \in heap_mem
  BY <1>1, Offsets
<1>4. q + Hdr < heap[p].next /\ q < heap[p].next /\ q - (p + Hdr) = size
  BY <1>2, <1>3, HeapAssumption DEF Room, heap_mem, Offset, End
<1>5. q = p + Hdr + size
  OBVIOUS
<1> HIDE DEF q
<1>6. /\ Linked(g) /\ q \in DOMAIN g \ {End} /\ ~g[q].used /\ PluggedBut(g, q)
      /\ LowestFree(g, m) /\ SameUsedBut(g, heap, p)
      /\ p \in DOMAIN g /\ g[p].used /\ g[p].next = q
  BY <1>1, <1>4, <1>5, ShrinkBlock
<1> HIDE DEF g, m
<1>7. /\ Linked(heap') /\ Plugged(heap') /\ LowestFree(heap', lfree')
      /\ SameUsed(heap', g)
  BY <1>2, <1>6, PlugHoles
<1>8. SameUsedBut(heap', heap, p)
  BY <1>6, <1>7 DEF SameUsed, SameUsedBut
<1>9. p \in DOMAIN heap' /\ heap'[p].used /\ heap'[p].next = q
  BY <1>3, <1>6, <1>7 DEF SameUsed
<1>. QED
  BY <1>4, <1>7, <1>8, <1>9 DEF HeapInv, Room

-----------------------------------------------------------------------------
\* Users who keep their blocks keep them as they are.
LEMMA KeptBlocks ==
    ASSUME HeapInv, UserInv, NEW p, SameUsedBut(heap', heap, p)
    PROVE  \A r \in DOMAIN theirs \ {p} :
              /\ r \in DOMAIN heap' \ {End} /\ heap'[r].used
              /\ theirs[r] \in Sizes
              /\ Room(heap', r) >= theirs[r]
<1> SUFFICES ASSUME NEW r \in DOMAIN theirs \ {p}
             PROVE  /\ r \in DOMAIN heap' \ {End} /\ heap'[r].used
                    /\ theirs[r] \in Sizes
                    /\ Room(heap', r) >= theirs[r]
  OBVIOUS
<1>1. /\ r \in DOMAIN heap \ {End} /\ heap[r].used /\ theirs[r] \in Sizes
      /\ Room(heap, r) >= theirs[r]
  BY DEF UserInv
<1>2. r \in Offset
  BY <1>1, Offsets DEF HeapInv
<1>3. r \in DOMAIN heap' /\ heap'[r].used /\ heap'[r].next = heap[r].next
  BY <1>1, <1>2 DEF SameUsedBut
<1>. QED
  BY <1>1, <1>3 DEF Room

\* The heap as rt_system_heap_init leaves it.
LEMMA InitInv == Init => HeapInv /\ UserInv
<1> SUFFICES ASSUME Init PROVE HeapInv /\ UserInv
  OBVIOUS
<1>1. End \in Nat /\ 0 < End /\ Hdr < End /\ Hdr \in Nat
  BY HeapAssumption DEF End
<1>2. DOMAIN heap = {0, End} /\ lfree = 0
  BY DEF Init
<1>3. heap[0] = [next |-> End, prev |-> 0, used |-> FALSE]
  BY DEF Init
<1>4. heap[End] = [next |-> End, prev |-> End, used |-> TRUE]
  BY <1>1 DEF Init
<1>5. heap[0].next = End /\ heap[0].prev = 0 /\ ~heap[0].used /\ heap[End].used
  BY <1>3, <1>4
<1>6. heap[0] \in heap_mem /\ heap[End] \in heap_mem
  BY <1>1, <1>3, <1>4 DEF heap_mem, Offset
<1>7. Linked(heap)
  BY <1>1, <1>2, <1>5, <1>6 DEF Linked, Offset
<1>8. Plugged(heap) /\ LowestFree(heap, lfree)
  BY <1>1, <1>2, <1>5 DEF Plugged, LowestFree
<1>9. UserInv
  BY UserAssumption DEF Init, UserInv, Field
<1>. QED
  BY <1>7, <1>8, <1>9 DEF HeapInv

\* Every step of every user.
LEMMA NextInv == HeapInv /\ UserInv /\ [Next]_vars => HeapInv' /\ UserInv'
<1> SUFFICES ASSUME HeapInv, UserInv, [Next]_vars
             PROVE  HeapInv' /\ UserInv'
  OBVIOUS
<1>1. ASSUME NEW size \in Sizes, Malloc(size)
      PROVE  HeapInv' /\ UserInv'
  <2>1. CASE Found(size) = NULL
    BY <1>1, <2>1 DEF Malloc, rt_malloc, HeapInv, UserInv, Room
  <2>2. CASE Found(size) # NULL
    <3>1. size \in Nat \ {0} /\ rt_malloc(size) /\ time_parse' = time_parse /\ n' = n
      BY <1>1, UserAssumption DEF Malloc
    <3>2. HeapInv' /\ Taken(Found(size), size)
      BY <2>2, <3>1, MallocInv
    <3> DEFINE p == Found(size)
    <3>3. /\ DOMAIN theirs' = DOMAIN theirs \cup {p}
          /\ theirs'[p] = size
          /\ \A r \in DOMAIN theirs \ {p} : theirs'[r] = theirs[r]
      BY <1>1, <2>2 DEF Malloc
    <3> HIDE DEF p
    <3>4. \A r \in DOMAIN theirs \ {p} :
              /\ r \in DOMAIN heap' \ {End} /\ heap'[r].used
              /\ theirs[r] \in Sizes
              /\ Room(heap', r) >= theirs[r]
      BY <3>2, KeptBlocks DEF Taken, p
    <3>5. p \in DOMAIN heap' \ {End} /\ heap'[p].used /\ Room(heap', p) >= size
      BY <3>2 DEF Taken, p
    <3>. QED
      BY <3>1, <3>2, <3>3, <3>4, <3>5 DEF UserInv
  <2>. QED
    BY <2>1, <2>2
<1>2. ASSUME NEW p \in DOMAIN theirs, Free(p)
      PROVE  HeapInv' /\ UserInv'
  <2>1. p \in DOMAIN heap \ {End} /\ heap[p].used
    BY DEF UserInv
  <2>2. HeapInv' /\ SameUsedBut(heap', heap, p)
    BY <1>2, <2>1, FreeInv DEF Free
  <2>3. \A r \in DOMAIN theirs \ {p} :
            /\ r \in DOMAIN heap' \ {End} /\ heap'[r].used
            /\ theirs[r] \in Sizes
            /\ Room(heap', r) >= theirs[r]
    BY <2>2, KeptBlocks
  <2>. QED
    BY <1>2, <2>2, <2>3 DEF Free, UserInv
<1>3. ASSUME NEW p \in DOMAIN theirs, NEW size \in Sizes, Realloc(p, size)
      PROVE  HeapInv' /\ UserInv'
  <2>1. p \in DOMAIN heap \ {End} /\ heap[p].used /\ size \in Nat \ {0}
    BY UserAssumption DEF UserInv
  <2>2. /\ HeapInv' /\ SameUsedBut(heap', heap, p)
        /\ p \in DOMAIN heap' /\ heap'[p].used /\ Room(heap', p) = size
    BY <1>3, <2>1, ReallocInv DEF Realloc
  <2>3. \A r \in DOMAIN theirs \ {p} :
            /\ r \in DOMAIN heap' \ {End} /\ heap'[r].used
            /\ theirs[r] \in Sizes
            /\ Room(heap', r) >= theirs[r]
    BY <2>2, KeptBlocks
  <2>4. /\ DOMAIN theirs' = DOMAIN theirs /\ theirs'[p] = size
        /\ \A r \in DOMAIN theirs \ {p} : theirs'[r] = theirs[r]
        /\ time_parse' = time_parse /\ n' = n
    BY <1>3 DEF Realloc
  <2>. QED
    BY <2>1, <2>2, <2>3, <2>4 DEF UserInv
<1>4. CASE TimeMalloc
  <2>1. n' \in Field
    BY <1>4, UserAssumption DEF TimeMalloc, Field, UserInv
  <2>2. CASE Found(TimeSize) = NULL
    BY <1>4, <2>1, <2>2 DEF TimeMalloc, rt_malloc, HeapInv, UserInv, Room
  <2>3. CASE Found(TimeSize) # NULL
    <3>1. HeapInv' /\ Taken(Found(TimeSize), TimeSize)
      BY <1>4, <2>3, MallocInv, UserAssumption DEF TimeMalloc
    <3>2. /\ Found(TimeSize) \in DOMAIN heap /\ ~heap[Found(TimeSize)].used
          /\ SameUsedBut(heap', heap, Found(TimeSize))
      BY <3>1 DEF Taken
    <3>3. \A r \in DOMAIN theirs \ {Found(TimeSize)} :
              /\ r \in DOMAIN heap' \ {End} /\ heap'[r].used
              /\ theirs[r] \in Sizes
              /\ Room(heap', r) >= theirs[r]
      BY <3>2, KeptBlocks
    <3>4. Found(TimeSize) \notin DOMAIN theirs
      BY <3>2 DEF UserInv
    <3>5. time_parse' \in [Field -> Offset \cup {NULL}]
      BY <1>4, <3>2, Offsets DEF TimeMalloc, UserInv, HeapInv
    <3>. QED
      BY <1>4, <2>1, <3>1, <3>3, <3>4, <3>5 DEF TimeMalloc, UserInv
  <2>. QED
    BY <2>2, <2>3
<1>5. CASE UNCHANGED vars
  BY <1>5 DEF vars, HeapInv, UserInv, Room
<1>. QED
  BY <1>1, <1>2, <1>3, <1>4, <1>5 DEF Next

\* HeapInv and UserInv are invariants.
LEMMA HeapInvariant == Spec => [](HeapInv /\ UserInv)
<1>1. Init => HeapInv /\ UserInv
  BY InitInv
<1>2. (HeapInv /\ UserInv) /\ [Next]_vars => (HeapInv /\ UserInv)'
  BY NextInv
<1>. QED
  BY <1>1, <1>2, PTL DEF Spec

\* What HeapInv and UserInv say in terms of the properties.
LEMMA InvGivesProperties ==
    ASSUME HeapInv, UserInv
    PROVE  TypeOK /\ BlocksLinked /\ NoTwoFreeInARow /\ LfreeIsLowest
           /\ NullOnlyWithoutRoom /\ RoomAsAsked
<1>1. /\ DOMAIN heap \subseteq Offset /\ Offset \subseteq Nat
      /\ \A p \in DOMAIN heap : heap[p] \in heap_mem
  BY Offsets DEF HeapInv
<1>2. TypeOK
  BY <1>1 DEF HeapInv, UserInv, Linked, LowestFree, TypeOK
<1>3. BlocksLinked
  BY DEF HeapInv, Linked, BlocksLinked, Blocks
<1>4. NoTwoFreeInARow
  BY DEF HeapInv, Plugged, NoTwoFreeInARow, FreeBlocks, Blocks
<1>5. FreeBlocks \subseteq Nat /\ FreeBlocks \subseteq DOMAIN heap \ {End}
  BY <1>1 DEF FreeBlocks, Blocks
<1>6. \A p \in FreeBlocks : lfree <= p
  BY DEF HeapInv, LowestFree, FreeBlocks, Blocks
<1>7. lfree = End \/ lfree \in FreeBlocks
  BY DEF HeapInv, LowestFree, FreeBlocks, Blocks
<1>8. LfreeIsLowest
  <2>1. CASE FreeBlocks = {}
    BY <1>7, <2>1 DEF LfreeIsLowest
  <2>2. CASE FreeBlocks # {}
    <3>1. PICK f \in FreeBlocks : TRUE
      BY <2>2
    <3>2. f < End /\ lfree <= f
      BY <1>1, <1>5, <1>6, <3>1, HeapAssumption DEF Offset, End
    <3>3. lfree \in FreeBlocks
      BY <1>5, <1>7, <3>2, HeapAssumption DEF End
    <3>4. /\ Lowest(FreeBlocks) \in FreeBlocks
          /\ \A q \in FreeBlocks : Lowest(FreeBlocks) <= q
      BY <1>5, <2>2, LowestIsLowest
    <3>5. lfree = Lowest(FreeBlocks)
      <4>1. lfree <= Lowest(FreeBlocks) /\ Lowest(FreeBlocks) <= lfree
        BY <1>6, <3>3, <3>4
      <4>2. lfree \in Nat /\ Lowest(FreeBlocks) \in Nat
        BY <1>5, <3>3, <3>4
      <4>. QED
        BY <4>1, <4>2
    <3>. QED
      BY <2>2, <3>5 DEF LfreeIsLowest
  <2>. QED
    BY <2>1, <2>2
<1>9. NullOnlyWithoutRoom
  <2> SUFFICES ASSUME NEW size \in Sizes \cup {TimeSize}, Found(size) = NULL,
                      NEW p \in FreeBlocks
               PROVE  Room(heap, p) < Rounded(size) \/ p + Rounded(size) = MemSize
    BY DEF NullOnlyWithoutRoom
  <2>1. size \in Nat \ {0}
    BY UserAssumption
  <2>2. Rounded(size) \in Nat /\ size <= Rounded(size)
    BY <2>1, HeapAssumption DEF Rounded
  <2>3. /\ p \in DOMAIN heap /\ p \in Nat /\ ~heap[p].used /\ lfree <= p
        /\ heap[p].next \in 0 .. MemSize + Hdr
    BY <1>1, <1>5, <1>6 DEF FreeBlocks, heap_mem, Offset, End
  <2>4. Room(heap, p) \in Int /\ Room(heap, p) + p <= MemSize
    BY <2>3, HeapAssumption DEF Room
  <2>5. CASE size > MemSize
    BY <2>1, <2>2, <2>3, <2>4, <2>5, HeapAssumption
  <2>6. CASE Fits(Rounded(size)) = {}
    <3>1. ~(p < MemSize - Rounded(size)) \/ ~(Room(heap, p) >= Rounded(size))
      BY <2>3, <2>6 DEF Fits
    <3>. QED
      BY <2>2, <2>3, <2>4, <3>1, HeapAssumption
  <2>7. CASE Found(size) = Lowest(Fits(Rounded(size))) /\ Fits(Rounded(size)) # {}
    <3>1. Fits(Rounded(size)) \subseteq Nat
      BY <1>1 DEF Fits
    <3>2. Found(size) \in Nat
      BY <2>7, <3>1, LowestIsLowest
    <3>. QED
      BY <3>2, NullAssumption
  <2>. QED
    BY <2>5, <2>6, <2>7 DEF Found
<1>10. RoomAsAsked
  BY DEF UserInv, RoomAsAsked
<1>. QED
  BY <1>2, <1>3, <1>4, <1>8, <1>9, <1>10

-----------------------------------------------------------------------------
(***************************************************************************)
(* The links, lfree and the users' pointers stay in range, and every block *)
(* a user holds is marked as used.                                         *)
(***************************************************************************)
THEOREM HeapTypeCorrect == Spec => []TypeOK
<1>1. HeapInv /\ UserInv => TypeOK
  BY InvGivesProperties
<1>. QED
  BY <1>1, HeapInvariant, PTL

(***************************************************************************)
(* Whatever is asked for, freed and shrunk, in whatever order: rt_malloc,  *)
(* rt_free, rt_realloc and plug_holes keep the links together.             *)
(***************************************************************************)
THEOREM HeapStaysLinked == Spec => []BlocksLinked
<1>1. HeapInv /\ UserInv => BlocksLinked
  BY InvGivesProperties
<1>. QED
  BY <1>1, HeapInvariant, PTL

(***************************************************************************)
(* plug_holes leaves no two free blocks in a row, which rt_malloc's        *)
(* comment counts on.                                                      *)
(***************************************************************************)
THEOREM HeapIsPlugged == Spec => []NoTwoFreeInARow
<1>1. HeapInv /\ UserInv => NoTwoFreeInARow
  BY InvGivesProperties
<1>. QED
  BY <1>1, HeapInvariant, PTL

(***************************************************************************)
(* lfree is the lowest free block after every call.                        *)
(***************************************************************************)
THEOREM HeapLfreeLowest == Spec => []LfreeIsLowest
<1>1. HeapInv /\ UserInv => LfreeIsLowest
  BY InvGivesProperties
<1>. QED
  BY <1>1, HeapInvariant, PTL

(***************************************************************************)
(* rt_malloc fails only if no free block has the room, or if the one that  *)
(* has it ends, to the word, where the heap does.                          *)
(***************************************************************************)
THEOREM HeapNullOnlyWithoutRoom == Spec => []NullOnlyWithoutRoom
<1>1. HeapInv /\ UserInv => NullOnlyWithoutRoom
  BY InvGivesProperties
<1>. QED
  BY <1>1, HeapInvariant, PTL

(***************************************************************************)
(* A block has the room its user asked for as long as the user holds it.   *)
(***************************************************************************)
THEOREM HeapRoomAsAsked == Spec => []RoomAsAsked
<1>1. HeapInv /\ UserInv => RoomAsAsked
  BY InvGivesProperties
<1>. QED
  BY <1>1, HeapInvariant, PTL

-----------------------------------------------------------------------------
(* The refinement: the memory handed out, block by block.                  *)

\* Owned, of any heap.
OwnedBy(h) ==
    [a \in {p + Hdr : p \in {q \in DOMAIN h \ {End} : h[q].used}} |-> Room(h, a - Hdr)]

\* Block p of h is in use.
InUse(h, p) == p \in DOMAIN h \ {End} /\ h[p].used

\* A block in use is memory handed out.
LEMMA OwnedIs ==
    ASSUME NEW h, Linked(h), NEW p, InUse(h, p)
    PROVE  p + Hdr \in DOMAIN OwnedBy(h) /\ OwnedBy(h)[p + Hdr] = Room(h, p)
<1>1. p \in DOMAIN h \ {End} /\ h[p].used /\ p \in Nat
  BY Offsets DEF InUse
<1> DEFINE b == p + Hdr
           A == {x + Hdr : x \in {q \in DOMAIN h \ {End} : h[q].used}}
<1>2. b - Hdr = p /\ b = p + Hdr
  BY <1>1, HeapAssumption
<1>3. b \in A
  BY <1>1
<1>4. OwnedBy(h) = [a \in A |-> Room(h, a - Hdr)]
  BY DEF OwnedBy
<1> HIDE DEF A, b
<1>5. DOMAIN OwnedBy(h) = A /\ \A a \in A : OwnedBy(h)[a] = Room(h, a - Hdr)
  BY <1>4, Zenon
<1>6. b \in DOMAIN OwnedBy(h) /\ OwnedBy(h)[b] = Room(h, b - Hdr)
  BY <1>3, <1>5, Zenon
<1>7. OwnedBy(h)[b] = Room(h, p)
  BY <1>2, <1>6, Zenon
<1>. QED
  BY <1>2, <1>6, <1>7, Zenon

\* An address that is handed out is that of a block in use.
LEMMA OwnedOnly ==
    ASSUME NEW h, Linked(h), NEW a \in DOMAIN OwnedBy(h)
    PROVE  \E p \in Nat : InUse(h, p) /\ a = p + Hdr
BY Offsets DEF OwnedBy, InUse

\* Memory that a step on block p does not touch.
LEMMA OwnedKept ==
    ASSUME NEW g, NEW h, Linked(g), Linked(h), NEW p \in Nat, SameUsedBut(g, h, p),
           NEW a, a # p + Hdr
    PROVE  /\ a \in DOMAIN OwnedBy(h) <=> a \in DOMAIN OwnedBy(g)
           /\ a \in DOMAIN OwnedBy(h) => OwnedBy(g)[a] = OwnedBy(h)[a]
<1>1. DOMAIN h \subseteq Offset /\ DOMAIN g \subseteq Offset /\ Offset \subseteq Nat
  BY Offsets
<1>2. ASSUME a \in DOMAIN OwnedBy(h)
      PROVE  a \in DOMAIN OwnedBy(g) /\ OwnedBy(g)[a] = OwnedBy(h)[a]
  <2>1. PICK r \in Nat : InUse(h, r) /\ a = r + Hdr
    BY <1>2, OwnedOnly
  <2>2. r \in Offset \ {End, p} /\ r \in DOMAIN h /\ h[r].used
    BY <1>1, <2>1 DEF InUse
  <2>3. InUse(g, r) /\ g[r].next = h[r].next
    BY <2>2 DEF SameUsedBut, InUse
  <2>4. r + Hdr \in DOMAIN OwnedBy(g) /\ OwnedBy(g)[r + Hdr] = Room(g, r)
    BY <2>3, OwnedIs
  <2>5. OwnedBy(h)[r + Hdr] = Room(h, r)
    BY <2>1, OwnedIs
  <2>6. Room(g, r) = Room(h, r)
    BY <2>3 DEF Room
  <2>. QED
    BY <2>1, <2>4, <2>5, <2>6
<1>3. ASSUME a \in DOMAIN OwnedBy(g)
      PROVE  a \in DOMAIN OwnedBy(h)
  <2>1. PICK r \in Nat : InUse(g, r) /\ a = r + Hdr
    BY <1>3, OwnedOnly
  <2>2. r \in Offset \ {End, p} /\ r \in DOMAIN g /\ g[r].used
    BY <1>1, <2>1 DEF InUse
  <2>3. InUse(h, r)
    BY <2>2 DEF SameUsedBut, InUse
  <2>. QED
    BY <2>1, <2>3, OwnedIs
<1>. QED
  BY <1>2, <1>3

\* A function is what it is on its domain.
LEMMA OwnedFunction ==
    ASSUME NEW h
    PROVE  OwnedBy(h) = [a \in DOMAIN OwnedBy(h) |-> OwnedBy(h)[a]]
BY DEF OwnedBy

\* rt_malloc hands out memory nobody has.
LEMMA TakenRefines ==
    ASSUME HeapInv, HeapInv', NEW p, NEW size \in Nat \ {0}, Taken(p, size)
    PROVE  Memory!AllocatorNext
<1> DEFINE a == p + Hdr
           k == Room(heap', p)
           own == OwnedBy(heap)
           own1 == OwnedBy(heap')
<1>1. Owned = own /\ Owned' = own1
  BY DEF Owned, OwnedBy, Blocks
<1>2. /\ p \in DOMAIN heap \ {End} /\ ~heap[p].used
      /\ InUse(heap', p) /\ heap'[p].next <= heap[p].next
      /\ k >= size /\ SameUsedBut(heap', heap, p)
  BY DEF Taken, InUse
<1>3. Linked(heap) /\ Linked(heap')
  BY DEF HeapInv
<1>4. /\ p \in Nat /\ heap[p].next \in Offset /\ heap'[p].next \in Offset
      /\ DOMAIN heap \subseteq Nat /\ End \in Nat
  BY <1>2, <1>3, Offsets, HeapAssumption DEF heap_mem, InUse, End
<1>5. /\ a \in Nat /\ a = p + Hdr /\ k = heap'[p].next - a
      /\ k \in Nat \ {0} /\ a + k = heap'[p].next /\ a + k <= End
  BY <1>2, <1>4, HeapAssumption DEF Room, Offset
<1>6. a \in DOMAIN own1 /\ own1[a] = k
  BY <1>2, <1>3, OwnedIs
<1>7. \A b : b # a => /\ b \in DOMAIN own <=> b \in DOMAIN own1
                      /\ b \in DOMAIN own => own1[b] = own[b]
  BY <1>2, <1>3, <1>4, OwnedKept
<1>8. \A b \in DOMAIN own : \E r \in Nat : InUse(heap, r) /\ b = r + Hdr
  BY <1>3, OwnedOnly
<1>9. \A r \in Nat : InUse(heap, r) => own[r + Hdr] = Room(heap, r)
  BY <1>3, OwnedIs
<1>10. own1 = [b \in DOMAIN own1 |-> own1[b]]
  BY OwnedFunction
<1> HIDE DEF a, k, own, own1
<1>11. a \in 0 .. End - 1 /\ k \in 1 .. End
  BY <1>4, <1>5
<1>12. Memory!Span(a, k) \subseteq 0 .. End - 1
  BY <1>4, <1>5 DEF Memory!Span
<1>13. ASSUME NEW b \in DOMAIN own
       PROVE  Memory!Span(a, k) \cap Memory!Span(b, own[b]) = {}
  <2>1. PICK r \in Nat : InUse(heap, r) /\ b = r + Hdr
    BY <1>8
  <2>2. own[b] = heap[r].next - (r + Hdr)
    BY <1>9, <2>1 DEF Room
  <2>3. r \in DOMAIN heap \ {End} /\ r # p /\ heap[r].next \in Nat
    BY <1>2, <1>3, <2>1, Offsets DEF InUse, heap_mem
  <2>4. heap[r].next <= p \/ heap[p].next <= r
    BY <1>2, <1>3, <1>4, <2>3 DEF Linked
  <2>5. b \in Nat /\ b + own[b] - 1 = heap[r].next - 1 /\ r <= b
    BY <2>1, <2>2, <2>3, HeapAssumption
  <2>6. a + k - 1 = heap'[p].next - 1 /\ p <= a
    BY <1>4, <1>5, HeapAssumption DEF Offset
  <2>7. heap[p].next \in Nat /\ heap'[p].next \in Nat
    BY <1>4 DEF Offset
  <2>. QED
    BY <1>2, <1>4, <1>5, <2>3, <2>4, <2>5, <2>6, <2>7 DEF Memory!Span
<1>14. own1 = [b \in DOMAIN own \cup {a} |-> IF b = a THEN k ELSE own[b]]
  <2>1. DOMAIN own1 = DOMAIN own \cup {a}
    BY <1>6, <1>7
  <2>2. \A b \in DOMAIN own1 : own1[b] = IF b = a THEN k ELSE own[b]
    BY <1>6, <1>7
  <2>. QED
    BY <1>10, <2>1, <2>2
<1>15. Memory!Alloc(a, k)
  BY <1>1, <1>5, <1>12, <1>13, <1>14 DEF Memory!Alloc
<1>. QED
  BY <1>11, <1>15 DEF Memory!AllocatorNext

\* rt_free gives back the memory of its block and no other.
LEMMA FreedRefines ==
    ASSUME HeapInv, HeapInv', NEW p, InUse(heap, p), ~InUse(heap', p),
           SameUsedBut(heap', heap, p)
    PROVE  Memory!AllocatorNext
<1> DEFINE a == p + Hdr
           own == OwnedBy(heap)
           own1 == OwnedBy(heap')
<1>1. Owned = own /\ Owned' = own1
  BY DEF Owned, OwnedBy, Blocks
<1>2. Linked(heap) /\ Linked(heap') /\ p \in DOMAIN heap \ {End}
  BY DEF HeapInv, InUse
<1>3. p \in Nat /\ p + Hdr < heap[p].next /\ heap[p].next \in Offset
  BY <1>2, Offsets DEF Linked, heap_mem
<1>4. a \in 0 .. End - 1
  BY <1>3, HeapAssumption DEF Offset, End
<1>5. a \in DOMAIN own
  BY <1>2, OwnedIs
<1>6. a \notin DOMAIN own1
  <2> SUFFICES ASSUME a \in DOMAIN own1 PROVE FALSE
    OBVIOUS
  <2>1. PICK r \in Nat : InUse(heap', r) /\ a = r + Hdr
    BY <1>2, OwnedOnly
  <2>2. r = p
    BY <1>3, <2>1, HeapAssumption
  <2>. QED
    BY <2>1, <2>2
<1>7. \A b : b # a => /\ b \in DOMAIN own <=> b \in DOMAIN own1
                      /\ b \in DOMAIN own => own1[b] = own[b]
  BY <1>2, <1>3, OwnedKept
<1>8. own1 = [b \in DOMAIN own1 |-> own1[b]]
  BY OwnedFunction
<1> HIDE DEF a, own, own1
<1>9. own1 = [b \in DOMAIN own \ {a} |-> own[b]]
  <2>1. DOMAIN own1 = DOMAIN own \ {a}
    BY <1>6, <1>7
  <2>. QED
    BY <1>7, <1>8, <2>1
<1>10. Memory!Release(a)
  BY <1>1, <1>5, <1>9 DEF Memory!Release
<1>. QED
  BY <1>4, <1>10 DEF Memory!AllocatorNext

\* rt_realloc to a smaller size gives back the end of its block.
LEMMA ShrunkRefines ==
    ASSUME HeapInv, HeapInv', NEW p, InUse(heap, p), InUse(heap', p),
           SameUsedBut(heap', heap, p), NEW size \in Nat \ {0},
           Room(heap', p) = size, heap'[p].next < heap[p].next
    PROVE  Memory!AllocatorNext
<1> DEFINE a == p + Hdr
           own == OwnedBy(heap)
           own1 == OwnedBy(heap')
<1>1. Owned = own /\ Owned' = own1
  BY DEF Owned, OwnedBy, Blocks
<1>2. Linked(heap) /\ Linked(heap') /\ p \in DOMAIN heap \ {End} /\ p \in DOMAIN heap'
  BY DEF HeapInv, InUse
<1>3. /\ p \in Nat /\ p + Hdr < heap[p].next /\ heap[p].next \in Offset
      /\ heap'[p].next \in Offset
  BY <1>2, Offsets DEF Linked, heap_mem
<1>4. a \in 0 .. End - 1 /\ size \in 1 .. Room(heap, p) /\ size \in 1 .. End
  BY <1>3, HeapAssumption DEF Offset, End, Room
<1>5. a \in DOMAIN own /\ own[a] = Room(heap, p) /\ a \in DOMAIN own1 /\ own1[a] = size
  BY <1>2, OwnedIs
<1>6. \A b : b # a => /\ b \in DOMAIN own <=> b \in DOMAIN own1
                      /\ b \in DOMAIN own => own1[b] = own[b]
  BY <1>2, <1>3, OwnedKept
<1>7. /\ own1 = [b \in DOMAIN own1 |-> own1[b]]
      /\ own = [b \in DOMAIN own |-> own[b]]
  BY OwnedFunction
<1> HIDE DEF a, own, own1
<1>8. own1 = [own EXCEPT ![a] = size]
  <2>1. DOMAIN own1 = DOMAIN own
    BY <1>5, <1>6
  <2>. QED
    BY <1>5, <1>6, <1>7, <2>1
<1>9. Memory!Shrink(a, size)
  BY <1>1, <1>4, <1>5, <1>8 DEF Memory!Shrink
<1>. QED
  BY <1>4, <1>9 DEF Memory!AllocatorNext

\* At the start nothing is handed out.
LEMMA InitRefines == Init => Memory!AllocatorInit
<1> SUFFICES ASSUME Init PROVE Memory!AllocatorInit
  OBVIOUS
<1>1. DOMAIN heap = {0, End}
  BY DEF Init
<1>2. heap[0] = [next |-> End, prev |-> 0, used |-> FALSE]
  BY DEF Init
<1>3. ~heap[0].used
  BY <1>2
<1>4. {q \in Blocks : heap[q].used} = {}
  BY <1>1, <1>3 DEF Blocks
<1>5. {p + Hdr : p \in {q \in Blocks : heap[q].used}} = {}
  BY <1>4
<1>6. Owned = [a \in {} |-> Room(heap, a - Hdr)]
  BY <1>5 DEF Owned
<1>7. [a \in {} |-> Room(heap, a - Hdr)] = [a \in {} |-> 0]
  OBVIOUS
<1>. QED
  BY <1>6, <1>7 DEF Memory!AllocatorInit

\* The memory handed out depends on the heap only.
LEMMA SameOwned == heap' = heap => Owned' = Owned
BY DEF Owned, Blocks, Room

\* Every step is one of the allocator's, or leaves the memory handed out as it is.
LEMMA StepRefines == HeapInv /\ UserInv /\ [Next]_vars => [Memory!AllocatorNext]_Owned
<1> SUFFICES ASSUME HeapInv, UserInv, [Next]_vars
             PROVE  Memory!AllocatorNext \/ Owned' = Owned
  OBVIOUS
<1>1. HeapInv'
  BY NextInv
<1>2. ASSUME NEW size \in Nat \ {0}, rt_malloc(size)
      PROVE  Memory!AllocatorNext \/ Owned' = Owned
  <2>1. CASE Found(size) = NULL
    BY <1>2, <2>1, SameOwned DEF rt_malloc
  <2>2. CASE Found(size) # NULL
    <3>1. Taken(Found(size), size)
      BY <1>2, <2>2, MallocInv
    <3>. QED
      BY <1>1, <3>1, TakenRefines
  <2>. QED
    BY <2>1, <2>2
<1>3. ASSUME NEW size \in Sizes, Malloc(size)
      PROVE  Memory!AllocatorNext \/ Owned' = Owned
  <2>1. size \in Nat \ {0} /\ rt_malloc(size)
    BY <1>3, UserAssumption DEF Malloc
  <2>. QED
    BY <1>2, <2>1
<1>4. ASSUME NEW p \in DOMAIN theirs, Free(p)
      PROVE  Memory!AllocatorNext
  <2>1. p \in DOMAIN heap \ {End} /\ heap[p].used /\ rt_free(p)
    BY <1>4 DEF UserInv, Free
  <2>2. SameUsedBut(heap', heap, p) /\ ~InUse(heap', p)
    BY <2>1, FreeInv DEF InUse
  <2>3. InUse(heap, p)
    BY <2>1 DEF InUse
  <2>. QED
    BY <1>1, <2>2, <2>3, FreedRefines
<1>5. ASSUME NEW p \in DOMAIN theirs, NEW size \in Sizes, Realloc(p, size)
      PROVE  Memory!AllocatorNext
  <2>1. /\ p \in DOMAIN heap \ {End} /\ heap[p].used /\ size \in Nat \ {0}
        /\ rt_realloc(p, size)
    BY <1>5, UserAssumption DEF UserInv, Realloc
  <2>2. /\ SameUsedBut(heap', heap, p) /\ InUse(heap', p)
        /\ Room(heap', p) = size /\ heap'[p].next < heap[p].next
    BY <2>1, ReallocInv DEF InUse
  <2>3. InUse(heap, p)
    BY <2>1 DEF InUse
  <2>. QED
    BY <1>1, <2>1, <2>2, <2>3, ShrunkRefines
<1>6. CASE TimeMalloc
  BY <1>2, <1>6, UserAssumption DEF TimeMalloc
<1>7. CASE UNCHANGED vars
  BY <1>7, SameOwned DEF vars
<1>. QED
  BY <1>3, <1>4, <1>5, <1>6, <1>7 DEF Next

(***************************************************************************)
(* The heap implements the allocator: rt_malloc hands out memory that      *)
(* nobody has and that lies within the heap, rt_free and rt_realloc take   *)
(* back what they are given, and no other memory changes its owner or its  *)
(* size, in particular not when plug_holes joins free blocks.              *)
(***************************************************************************)
THEOREM HeapImplementsAllocator == Spec => ImplementsAllocator
<1>1. Init => Memory!AllocatorInit
  BY InitRefines
<1>2. (HeapInv /\ UserInv) /\ [Next]_vars => [Memory!AllocatorNext]_Owned
  BY StepRefines
<1>. QED
  BY <1>1, <1>2, HeapInvariant, PTL DEF Spec, ImplementsAllocator, Memory!AllocatorSpec
=============================================================================
