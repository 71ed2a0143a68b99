--------------------------- MODULE SimpleAllocator ---------------------------
(***************************************************************************)
(* SimpleAllocator of the compiler back end, on which the allocation of    *)
(* registers and of scratch memory rests: a doubly linked list of free     *)
(* blocks and a map of the allocated ones.                                 *)
(*                                                                         *)
(* The pointers are modelled: heap is the list and its nodes, and every    *)
(* assignment to a link of the code is one here.                           *)
(***************************************************************************)
EXTENDS Integers, FiniteSets

CONSTANTS
  Start, End,  \* the pool, bytes Start .. End - 1
  Sizes,       \* the sizes asked for
  Aligns,      \* the alignments asked for
  Reg,         \* GEN_REG_SIZE, the size of a super register
  Nodes        \* the pool newBlock takes nodes from, positive numbers

Null == 0

(* The search from the tail skips blocks near offset 0; the pool of the    *)
(* register file starts above every alignment.                             *)
ASSUME AllocatorConstants ==
  /\ Nodes \subseteq Nat \ {0} /\ Start \in Nat /\ End \in Nat /\ Reg \in Nat \ {0}
  /\ \A a \in Aligns : a \in Nat \ {0} /\ a <= Start + 1

VARIABLES
  heap,         \* [offset, size, next, prev : of each node; head, tail; used]
  allocated,    \* allocatedBlocks, as a set of <<offset, size>>
  maxOffset,    \* the end of the highest block ever allocated
  setup         \* the blocks of the kernel's arguments, as long as
                \* allocateSpecialRegs may split them, then {}

vars == <<heap, allocated, maxOffset, setup>>

ALIGN(x, a) == IF x % a = 0 THEN x ELSE (x + a) - (x % a)

NewBlock(h, n, o, s) ==
  [h EXCEPT !.offset[n] = o, !.size[n] = s, !.next[n] = Null, !.prev[n] = Null,
            !.used = @ \cup {n}]

(* What is left in a deleted node is never read, so it is cleared.         *)
deleteBlock(h, n) ==
  [h EXCEPT !.offset[n] = 0, !.size[n] = 0, !.next[n] = Null, !.prev[n] = Null,
            !.used = @ \ {n}]

Fresh(h) == CHOOSE n \in Nodes \ h.used : \A m \in Nodes \ h.used : n <= m

(* if (l) l->next = r;  if (r) r->prev = l;                                *)
SetNext(h, l, r) == IF l = Null THEN h ELSE [h EXCEPT !.next[l] = r]
SetPrev(h, r, l) == IF r = Null THEN h ELSE [h EXCEPT !.prev[r] = l]
Join(h, l, r)    == SetPrev(SetNext(h, l, r), r, l)

Init ==
  /\ LET zero == [n \in Nodes |-> 0]
         h == [offset |-> zero, size |-> zero, next |-> zero, prev |-> zero,
               head |-> Null, tail |-> Null, used |-> {}]
         n == Fresh(h)
     IN heap = [NewBlock(h, n, Start, End - Start) EXCEPT !.head = n, !.tail = n]
  /\ allocated = {}
  /\ maxOffset = 0
  /\ setup = {}

-----------------------------------------------------------------------------
(* allocate                                                                *)

(* Mutant of Aligned: the tail search aligns upwards without leaving room. *)
AlignedUp(h, n, size, a, fwd) ==
  IF fwd THEN ALIGN(h.offset[n], a)
         ELSE ALIGN(h.offset[n] + h.size[n] - size, a)

(* Where a block of size would go in free block n.                         *)
Aligned(h, n, size, a, fwd) ==
  IF fwd THEN ALIGN(h.offset[n], a)
         ELSE ALIGN(h.offset[n] + h.size[n] - size - (a - 1), a)

SpaceOnLeft(h, n, size, a, fwd)  == Aligned(h, n, size, a, fwd) - h.offset[n]
SpaceOnRight(h, n, size, a, fwd) == h.size[n] - size - SpaceOnLeft(h, n, size, a, fwd)

Fits(h, n, size, a, fwd) ==
  IF fwd THEN SpaceOnRight(h, n, size, a, fwd) >= 0
         ELSE /\ h.offset[n] + h.size[n] - size - (a - 1) >= 0
              /\ SpaceOnLeft(h, n, size, a, fwd) >= 0

(* The first free block that is large enough, from the head or the tail.   *)
FirstFit(h, size, a, fwd) ==
  LET Search[n \in Nodes \cup {Null}] ==
        IF n = Null \/ Fits(h, n, size, a, fwd) THEN n
        ELSE Search[IF fwd THEN h.next[n] ELSE h.prev[n]]
  IN Search[IF fwd THEN h.head ELSE h.tail]

(* Mutant of Cut: the block after a hole on the left is not linked back.   *)
CutNoPrev(h, n, at, size) ==
  LET left == h.prev[n]
      right == h.next[n]
      onLeft == at - h.offset[n]
      onRight == h.size[n] - size - onLeft
      l == Fresh(h)
      h1 == IF onLeft = 0 THEN h
            ELSE SetNext(Join(NewBlock(h, l, h.offset[n], onLeft), left, l), l, right)
      left1 == IF onLeft = 0 THEN left ELSE l
      r == Fresh(h1)
      h2 == IF onRight = 0 THEN h1
            ELSE Join(Join(NewBlock(h1, r, at + size, onRight), left1, r), r, right)
      right1 == IF onRight = 0 THEN right ELSE r
      h3 == IF onLeft = 0 /\ onRight = 0 THEN Join(h2, left, right) ELSE h2
      h4 == IF h.head = n THEN [h3 EXCEPT !.head = IF left1 # Null THEN left1 ELSE right1] ELSE h3
      h5 == IF h.tail = n THEN [h4 EXCEPT !.tail = IF right1 # Null THEN right1 ELSE left1] ELSE h4
  IN deleteBlock(h5, n)

(* Take size bytes at offset at out of free block n: a hole on the left    *)
(* and one on the right become free blocks.                                *)
Cut(h, n, at, size) ==
  LET left == h.prev[n]
      right == h.next[n]
      onLeft == at - h.offset[n]
      onRight == h.size[n] - size - onLeft
      l == Fresh(h)
      h1 == IF onLeft = 0 THEN h
            ELSE Join(Join(NewBlock(h, l, h.offset[n], onLeft), left, l), l, right)
      left1 == IF onLeft = 0 THEN left ELSE l
      r == Fresh(h1)
      h2 == IF onRight = 0 THEN h1
            ELSE Join(Join(NewBlock(h1, r, at + size, onRight), left1, r), r, right)
      right1 == IF onRight = 0 THEN right ELSE r
      h3 == IF onLeft = 0 /\ onRight = 0 THEN Join(h2, left, right) ELSE h2
      h4 == IF h.head = n THEN [h3 EXCEPT !.head = IF left1 # Null THEN left1 ELSE right1] ELSE h3
      h5 == IF h.tail = n THEN [h4 EXCEPT !.tail = IF right1 # Null THEN right1 ELSE left1] ELSE h4
  IN deleteBlock(h5, n)

Insert(m, o, s) == IF \E b \in m : b[1] = o THEN m ELSE m \cup {<<o, s>>}

(* allocate for newCurbeEntry (arguments, forward, before any splitting),  *)
(* or for allocateReg and allocateScratchMem.                              *)
allocate(size, a, fwd, arg) ==
  LET n == FirstFit(heap, size, a, fwd)
      at == Aligned(heap, n, size, a, fwd)
  IN
  /\ n # Null
  /\ heap' = Cut(heap, n, at, size)
  /\ allocated' = Insert(allocated, at, size)
  /\ maxOffset' = IF at + size > maxOffset THEN at + size ELSE maxOffset
  /\ setup' = IF arg THEN setup \cup {<<at, size>>} ELSE {}

-----------------------------------------------------------------------------
(* deallocate                                                              *)

(* Adjacent blocks l and r become one, r.                                  *)
coalesce(h, l, r) ==
  IF l = Null \/ r = Null \/ h.offset[l] + h.size[l] # h.offset[r] THEN h
  ELSE LET h1 == [h EXCEPT !.offset[r] = h.offset[l], !.size[r] = @ + h.size[l]]
           h2 == SetPrev(SetNext(h1, h.prev[l], r), r, h.prev[l])
       IN deleteBlock(IF h.head = l THEN [h2 EXCEPT !.head = r] ELSE h2, l)

(* The free blocks before and after offset o, found from the tail.         *)
Around(h, o) ==
  LET Search[list \in Nodes \cup {Null}, next \in Nodes \cup {Null}] ==
        IF list = Null \/ h.offset[list] < o THEN <<list, next>>
        ELSE Search[h.prev[list], list]
  IN Search[h.tail, Null]

deallocate(b) ==
  LET list == Around(heap, b[1])[1]
      next == Around(heap, b[1])[2]
      n == Fresh(heap)
      h1 == NewBlock(heap, n, b[1], b[2])
      h2 == IF list = Null THEN [h1 EXCEPT !.head = n] ELSE Join(h1, list, n)
      h3 == IF next = Null THEN [h2 EXCEPT !.tail = n] ELSE Join(h2, n, next)
  IN
  /\ b \in allocated
  /\ heap' = coalesce(coalesce(h3, list, n), n, next)
  /\ allocated' = allocated \ {b}
  /\ setup' = {}
  /\ UNCHANGED maxOffset

(* The allocated piece that byte o + sub falls in or follows.              *)
Piece(o, sub) ==
  LET Search[p \in Start .. End] ==
        LET s == (CHOOSE b \in allocated : b[1] = p)[2] IN
        IF o + sub > p + s THEN Search[p + s] ELSE <<p, s>>
  IN Search[o]

(* Mutant of splitBlock: the second piece keeps the size of the whole.     *)
splitBlockWhole(arg, sub) ==
  LET p == Piece(arg[1], sub)
      k == arg[1] + sub - p[1]
  IN
  /\ k # 0
  /\ allocated' = Insert(Insert(allocated \ {p}, p[1], k), p[1] + k, p[2])
  /\ UNCHANGED <<heap, maxOffset, setup>>

(* splitBlock, for a register pushed at sub in argument arg.               *)
splitBlock(arg, sub) ==
  LET p == Piece(arg[1], sub)
      k == arg[1] + sub - p[1]
  IN
  /\ k # 0
  /\ allocated' = Insert(Insert(allocated \ {p}, p[1], k), p[1] + k, p[2] - k)
  /\ UNCHANGED <<heap, maxOffset, setup>>

Next ==
  \/ \E s \in Sizes, a \in Aligns :
       \/ setup = allocated /\ allocate(s, a, TRUE, TRUE)
       \/ \E fwd \in BOOLEAN : allocate(s, a, fwd, FALSE)
  \/ \E b \in allocated : deallocate(b)
  \/ \E arg \in setup : \E sub \in 0 .. arg[2] - 1 : splitBlock(arg, sub)

Spec == Init /\ [][Next]_vars

-----------------------------------------------------------------------------
(* Mutant of isSuperRegisterFree: the search stops at the first block that *)
(* does not start after o.                                                 *)
isSuperRegisterFreeFirst(h, o) ==
  LET Search[n \in Nodes \cup {Null}] ==
        /\ n # Null
        /\ h.offset[n] <= o
        /\ h.offset[n] + h.size[n] >= o + Reg
  IN Search[h.head]

(* Whether super register o is free: the search stops at the first block   *)
(* beyond o.                                                               *)
isSuperRegisterFree(h, o) ==
  LET Search[n \in Nodes \cup {Null}] ==
        /\ n # Null
        /\ h.offset[n] <= o
        /\ h.offset[n] + h.size[n] >= o + Reg \/ Search[h.next[n]]
  IN Search[h.head]

-----------------------------------------------------------------------------
(* Properties.                                                             *)

(* The free list, from the head.                                           *)
Forward ==
  LET From[n \in Nodes \cup {Null}] == IF n = Null THEN {} ELSE {n} \cup From[heap.next[n]]
  IN From[heap.head]

NodeBytes(n) == heap.offset[n] .. heap.offset[n] + heap.size[n] - 1

FreeBytes == UNION {NodeBytes(n) : n \in Forward}

(* The links of the free list agree in both directions, its ends are the   *)
(* head and the tail, it is sorted by offset, adjacent blocks have been    *)
(* coalesced, and every node in use is on it (the asserts of allocate and  *)
(* coalesce test this at one node only).                                   *)
ListOK ==
  /\ Forward = heap.used
  /\ (heap.head = Null <=> heap.tail = Null)
  /\ heap.head # Null => heap.prev[heap.head] = Null /\ heap.next[heap.tail] = Null
  /\ \A n \in Forward :
       /\ heap.size[n] > 0
       /\ n # heap.tail =>
            LET r == heap.next[n] IN
            /\ r # Null /\ heap.prev[r] = n
            /\ heap.offset[n] + heap.size[n] < heap.offset[r]

(* allocate finds a place exactly when one exists, and what it finds is    *)
(* free and aligned, whichever end it searches from: a register is spilled,*)
(* or compilation fails, only when it must.                                *)
PlacedIfPossible ==
  \A s \in Sizes, a \in Aligns, fwd \in BOOLEAN :
    LET Good(o) == o % a = 0 /\ o .. o + s - 1 \subseteq FreeBytes
        n == FirstFit(heap, s, a, fwd)
    IN IF n = Null THEN \A o \in Start .. End - s : ~ Good(o)
                   ELSE Good(Aligned(heap, n, s, a, fwd))

(* isSuperRegisterFree tells whether every byte of the register is free,   *)
(* which it sees in a single block only because frees are coalesced.       *)
SuperRegisterFree ==
  \A o \in {x \in Start .. End - Reg : x % Reg = 0} :
    isSuperRegisterFree(heap, o) <=> o .. o + Reg - 1 \subseteq FreeBytes

Region == INSTANCE RegionAllocator WITH free <- FreeBytes, blocks <- allocated

(* The free list and the map of allocated blocks implement RegionAllocator.*)
ImplementsRegion == Region!Spec

=============================================================================
