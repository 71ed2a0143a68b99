------------------------ MODULE RegionAllocatorProofs ------------------------
(***************************************************************************)
(* The blocks RegionAllocator hands out never overlap and cover, with the  *)
(* free bytes, the pool, whatever the pool's bounds.  SimpleAllocator      *)
(* implements RegionAllocator (checked by TLC), so this holds of it too.   *)
(***************************************************************************)
EXTENDS RegionAllocator, TLAPS

TypeOK == free \subseteq Pool /\ blocks \subseteq Blocks

Inv == TypeOK /\ Exclusive /\ Complete

(* A block has a positive size.                                            *)
LEMMA BlockType ==
  ASSUME Start \in Nat, End \in Nat, NEW b \in Blocks
  PROVE  b[1] \in Int /\ b[2] \in Nat \ {0} /\ b = <<b[1], b[2]>>
BY DEF Blocks, Pool

(* The two pieces of a block do not overlap and cover it.                  *)
LEMMA Pieces ==
  ASSUME Start \in Nat, End \in Nat, NEW b \in Blocks, NEW k \in 1 .. b[2] - 1
  PROVE  /\ Bytes(<<b[1], k>>) \cup Bytes(<<b[1] + k, b[2] - k>>) = Bytes(b)
         /\ Bytes(<<b[1], k>>) \cap Bytes(<<b[1] + k, b[2] - k>>) = {}
BY BlockType DEF Bytes

(* A block in the pool is not empty.                                       *)
LEMMA NonEmpty ==
  ASSUME Start \in Nat, End \in Nat, NEW b \in Blocks
  PROVE  b[1] \in Bytes(b)
BY BlockType DEF Bytes

(* Allocating free bytes.                                                  *)
LEMMA AllocateStep ==
  ASSUME Start \in Nat, End \in Nat, Inv, NEW b \in Blocks, Allocate(b)
  PROVE  Inv'
<1>1. TypeOK'
  BY DEF Inv, TypeOK, Allocate
<1>2. Exclusive'
  BY DEF Inv, Exclusive, Allocate, Bytes
<1>3. Complete'
  BY DEF Inv, Complete, Allocate
<1> QED BY <1>1, <1>2, <1>3 DEF Inv

(* Returning a block's bytes.                                              *)
LEMMA DeallocateStep ==
  ASSUME Start \in Nat, End \in Nat, Inv, NEW b \in Blocks, Deallocate(b)
  PROVE  Inv'
<1>1. TypeOK'
  BY DEF Inv, TypeOK, Deallocate, Complete
<1>2. Exclusive'
  BY DEF Inv, Exclusive, Deallocate, Bytes
<1>3. Complete'
  BY DEF Inv, Complete, Deallocate
<1> QED BY <1>1, <1>2, <1>3 DEF Inv

(* Cutting a block in two.                                                 *)
LEMMA SplitStep ==
  ASSUME Start \in Nat, End \in Nat, Inv, NEW b \in Blocks,
         NEW k \in 1 .. End - Start, Split(b, k)
  PROVE  Inv'
<1> DEFINE l == <<b[1], k>>
           r == <<b[1] + k, b[2] - k>>
<1>1. /\ Bytes(l) \cup Bytes(r) = Bytes(b)
      /\ Bytes(l) \cap Bytes(r) = {}
  BY Pieces DEF Split
<1>2. b \in blocks /\ Bytes(b) \subseteq Pool
  BY DEF Split, Inv, Complete
<1>3. blocks' = (blocks \ {b}) \cup {l, r} /\ free' = free
  BY DEF Split
<1>4. l \in Blocks /\ r \in Blocks
  <2>1. b[1] + k \in Bytes(b)
    BY BlockType DEF Split, Bytes
  <2>2. b[1] + k \in Pool
    BY <2>1, <1>2
  <2> QED BY <2>2, BlockType DEF Split, Blocks, Pool
<1> HIDE DEF l, r
<1>5. TypeOK'
  BY <1>3, <1>4 DEF Inv, TypeOK
<1>6. Exclusive'
  <2>1. \A c \in blocks \ {b} : Bytes(c) \cap Bytes(l) = {} /\ Bytes(c) \cap Bytes(r) = {}
    BY <1>1, <1>2 DEF Inv, Exclusive
  <2>2. \A c \in blocks' : Bytes(c) \cap free' = {}
    BY <1>1, <1>2, <1>3 DEF Inv, Exclusive
  <2>3. \A c, d \in blocks' : c # d => Bytes(c) \cap Bytes(d) = {}
    BY <1>1, <1>3, <2>1 DEF Inv, Exclusive
  <2> QED BY <2>2, <2>3 DEF Exclusive, Bytes
<1>7. Complete'
  BY <1>1, <1>2, <1>3 DEF Inv, Complete
<1> QED BY <1>5, <1>6, <1>7 DEF Inv

(* Allocation, deallocation and splitting (SimpleAllocator's operations)   *)
(* keep blocks apart and lose no byte.                                     *)
THEOREM RegionTheorem == Start \in Nat /\ End \in Nat /\ Spec => [](Exclusive /\ Complete)
<1> SUFFICES ASSUME Start \in Nat, End \in Nat
             PROVE  Spec => [](Exclusive /\ Complete)
  OBVIOUS
<1>1. Init => Inv
  BY DEF Init, Inv, TypeOK, Exclusive, Complete
<1>2. Inv /\ [Next]_vars => Inv'
  <2> SUFFICES ASSUME Inv, [Next]_vars PROVE Inv'
    OBVIOUS
  <2>1. CASE UNCHANGED vars
    BY <2>1 DEF vars, Inv, TypeOK, Exclusive, Complete
  <2>2. CASE Next
    BY <2>2, AllocateStep, DeallocateStep, SplitStep DEF Next
  <2> QED BY <2>1, <2>2
<1>3. Inv => Exclusive /\ Complete
  BY DEF Inv
<1> QED BY <1>1, <1>2, <1>3, PTL DEF Spec

=============================================================================
