--------------------------- MODULE RegionAllocator ---------------------------
(***************************************************************************)
(* What the register file and scratch memory allocator promises: blocks of *)
(* the pool that do not overlap.                    *)
(***************************************************************************)
EXTENDS Integers

CONSTANTS Start, End   \* the pool is the bytes Start .. End - 1

VARIABLES
  free,         \* the bytes that are free
  blocks        \* allocated blocks, <<offset, size>>

vars == <<free, blocks>>

Pool == Start .. End - 1

Bytes(b) == b[1] .. b[1] + b[2] - 1

Blocks == {<<o, s>> : o \in Pool, s \in 1 .. End - Start}

Init ==
  /\ free = Pool
  /\ blocks = {}

Allocate(b) ==
  /\ Bytes(b) \subseteq free
  /\ free' = free \ Bytes(b)
  /\ blocks' = blocks \cup {b}

Deallocate(b) ==
  /\ b \in blocks
  /\ free' = free \cup Bytes(b)
  /\ blocks' = blocks \ {b}

(* Two blocks take the place of one.                                       *)
Split(b, k) ==
  /\ b \in blocks
  /\ k \in 1 .. b[2] - 1
  /\ blocks' = (blocks \ {b}) \cup {<<b[1], k>>, <<b[1] + k, b[2] - k>>}
  /\ UNCHANGED free

Next ==
  \/ \E b \in Blocks : Allocate(b)
  \/ \E b \in Blocks : Deallocate(b)
  \/ \E b \in Blocks, k \in 1 .. End - Start : Split(b, k)

Spec == Init /\ [][Next]_vars

-----------------------------------------------------------------------------

(* No byte belongs to two blocks, or to a block and the free list: two     *)
(* virtual registers that are live together never share a byte.            *)
Exclusive ==
  /\ \A b, c \in blocks : b # c => Bytes(b) \cap Bytes(c) = {}
  /\ \A b \in blocks : Bytes(b) \cap free = {}

(* No byte of the pool is lost.                                            *)
Complete == free \cup UNION {Bytes(b) : b \in blocks} = Pool

=============================================================================
