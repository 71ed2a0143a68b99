----------------------------- MODULE MemMapping -----------------------------
(***************************************************************************)
(* The table of mappings of one memory object (struct _cl_mem: mapped_ptr, *)
(* mapped_ptr_sz, map_ref).  clEnqueueMapBuffer and clEnqueueMapImage      *)
(* record every pointer they hand out; an unmap command looks the pointer  *)
(* up, frees its slot and may halve the table; cl_mem_delete unmaps what   *)
(* is left.  No lock protects the table, and a map is recorded by the      *)
(* calling thread while an unmap may run in the queue's worker thread, so  *)
(* a call is several steps here: picking a slot or clearing one is one     *)
(* step, the read-modify-write of map_ref is another.                      *)
(***************************************************************************)
EXTENDS Integers, Sequences, FiniteSets, FiniteSetsExt, SequencesExt

CONSTANTS
  Procs,      \* threads that run map and unmap commands on the object
  Ptrs,       \* host addresses a mapping may have
  NULL,       \* an empty slot, and the null pointer
  UnmapArgs,  \* pointers passed to clEnqueueUnmapMemObject
  NullUnmap,  \* NULL is also unmapped from images that are mapped through a kernel
  InitSize,   \* size of the first table (16 in the code)
  MaxMaps     \* bound: mappings of the object alive at one time

ASSUME SizeAssumption == InitSize \in Nat \ {0}

VARIABLES
  is_ker_copy, \* an image that is mapped through a copy kernel
  mapped_ptr,  \* the slots; mapped_ptr_sz is its length, 0 before the first map
  map_ref,     \* the mapped count
  mpc, loc,     \* where each thread is in a call, and its local variables
  held,        \* how often the application holds each mapped pointer
  alive        \* FALSE once cl_mem_delete has run

mapVars == <<is_ker_copy, mapped_ptr, map_ref, mpc, loc, held, alive>>

mapped_ptr_sz == Len(mapped_ptr)
Used == {i \in DOMAIN mapped_ptr : mapped_ptr[i] # NULL}
HeldCount == MapThenSumSet(LAMBDA a : held[a], Ptrs)
InCall == {p \in Procs : mpc[p] # "idle"}

\* The application unmaps a pointer once for each time it mapped it.
Unmappable(a) ==
  /\ a = NULL /\ is_ker_copy => NullUnmap
  /\ a \in Ptrs => held[a] > Cardinality({p \in Procs : mpc[p] = "unmap" /\ loc[p].ptr = a})

NoLocals == [slot |-> 0, ptr |-> NULL, ref |-> 0]

MapInit ==
  /\ is_ker_copy \in BOOLEAN
  /\ mapped_ptr = <<>>
  /\ map_ref = 0
  /\ mpc = [p \in Procs |-> "idle"]
  /\ loc = [p \in Procs |-> NoLocals]
  /\ held = [a \in Ptrs |-> 0]
  /\ alive = TRUE

-----------------------------------------------------------------------------
Empty(n) == [i \in 1 .. n |-> NULL]

(* Mutant of get_mapped_address: the doubled table is not filled from the  *)
(* old one.                                                                *)
get_mapped_address_blank ==
  LET free == {i \in DOMAIN mapped_ptr : mapped_ptr[i] = NULL}
  IN IF mapped_ptr_sz = 0 THEN [slot |-> 1, tab |-> Empty(InitSize)]
     ELSE IF free # {} THEN [slot |-> Min(free), tab |-> mapped_ptr]
     ELSE [slot |-> mapped_ptr_sz + 1, tab |-> Empty(2 * mapped_ptr_sz)]

(* Mutant of get_mapped_address: a full table is not doubled, and its last *)
(* slot is taken.                                                          *)
get_mapped_address_last ==
  LET free == {i \in DOMAIN mapped_ptr : mapped_ptr[i] = NULL}
  IN IF mapped_ptr_sz = 0 THEN [slot |-> 1, tab |-> Empty(InitSize)]
     ELSE IF free # {} THEN [slot |-> Min(free), tab |-> mapped_ptr]
     ELSE [slot |-> mapped_ptr_sz, tab |-> mapped_ptr]

\* get_mapped_address: the first free slot, of a table that is created or
\* doubled when there is none.
get_mapped_address ==
  LET free == {i \in DOMAIN mapped_ptr : mapped_ptr[i] = NULL}
  IN IF mapped_ptr_sz = 0 THEN [slot |-> 1, tab |-> Empty(InitSize)]
     ELSE IF free # {} THEN [slot |-> Min(free), tab |-> mapped_ptr]
     ELSE [slot |-> mapped_ptr_sz + 1, tab |-> mapped_ptr \o Empty(mapped_ptr_sz)]

\* cl_mem_record_map_mem and cl_mem_record_map_mem_for_kernel.
RecordMap(p, ptr) ==
  /\ mpc[p] = "idle" /\ alive
  /\ HeldCount + Cardinality(InCall) < MaxMaps
  /\ mapped_ptr' = get_mapped_address.tab
  /\ loc' = [loc EXCEPT ![p] = [slot |-> get_mapped_address.slot, ptr |-> ptr, ref |-> 0]]
  /\ mpc' = [mpc EXCEPT ![p] = "store"]
  /\ UNCHANGED <<is_ker_copy, map_ref, held, alive>>

\* The slot is written in the table as it is now: one that was halved since
\* the slot was picked is written past its end, and the mapping is lost.
RecordStore(p) ==
  /\ mpc[p] = "store"
  /\ mapped_ptr' = IF loc[p].slot \in DOMAIN mapped_ptr
                     THEN [mapped_ptr EXCEPT ![loc[p].slot] = loc[p].ptr] ELSE mapped_ptr
  /\ loc' = [loc EXCEPT ![p].ref = map_ref]
  /\ mpc' = [mpc EXCEPT ![p] = "mapped"]
  /\ UNCHANGED <<is_ker_copy, map_ref, held, alive>>

RecordCount(p) ==
  /\ mpc[p] = "mapped"
  /\ map_ref' = loc[p].ref + 1
  /\ held' = [held EXCEPT ![loc[p].ptr] = @ + 1]
  /\ mpc' = [mpc EXCEPT ![p] = "idle"]
  /\ loc' = [loc EXCEPT ![p] = NoLocals]
  /\ UNCHANGED <<is_ker_copy, mapped_ptr, alive>>

\* The slots whose pointer is the one to unmap.  cl_enqueue_unmap_mem_object
\* refuses NULL first, clEnqueueUnmapMemObjectForKernel does not.
Found(ptr) ==
  IF ptr = NULL /\ ~is_ker_copy THEN {} ELSE {i \in DOMAIN mapped_ptr : mapped_ptr[i] = ptr}

(* Mutant of UnmapFind: the slot is not cleared.                           *)
UnmapFindKeep(p, ptr) ==
  /\ mpc[p] = "idle" /\ alive
  /\ Unmappable(ptr) /\ Found(ptr) # {}
  /\ loc' = [loc EXCEPT ![p] = [slot |-> 0, ptr |-> ptr, ref |-> map_ref]]
  /\ mpc' = [mpc EXCEPT ![p] = "unmap"]
  /\ UNCHANGED <<is_ker_copy, mapped_ptr, map_ref, held, alive>>

\* The search of an unmap, when it finds the pointer.
UnmapFind(p, ptr) ==
  /\ mpc[p] = "idle" /\ alive
  /\ Unmappable(ptr) /\ Found(ptr) # {}
  /\ mapped_ptr' = [mapped_ptr EXCEPT ![Min(Found(ptr))] = NULL]
  /\ loc' = [loc EXCEPT ![p] = [slot |-> 0, ptr |-> ptr, ref |-> map_ref]]
  /\ mpc' = [mpc EXCEPT ![p] = "unmap"]
  /\ UNCHANGED <<is_ker_copy, map_ref, held, alive>>

\* The search when it does not: the command fails and changes nothing.
UnmapInvalid(p, ptr) ==
  /\ mpc[p] = "idle" /\ alive
  /\ Unmappable(ptr) /\ Found(ptr) = {}
  /\ UNCHANGED mapVars

\* Halving the table when fewer than half of its slots are used.
Shrunk(tab, ref) ==
  LET kept == SelectSeq(tab, LAMBDA a : a # NULL)
  IN IF Len(tab) \div 2 > ref
       THEN [i \in 1 .. Len(tab) \div 2 |-> IF i <= Len(kept) THEN kept[i] ELSE NULL]
       ELSE tab

\* The rest of an unmap.  An image mapped through a kernel unmaps its
\* temporary buffer and never halves the table; when that call fails the slot
\* stays cleared and the application keeps a pointer it cannot unmap.
UnmapDone(p, fails) ==
  /\ mpc[p] = "unmap"
  /\ fails => is_ker_copy
  /\ map_ref' = loc[p].ref - 1
  /\ mapped_ptr' = IF is_ker_copy THEN mapped_ptr ELSE Shrunk(mapped_ptr, loc[p].ref - 1)
  /\ held' = IF fails \/ loc[p].ptr = NULL THEN held
             ELSE [held EXCEPT ![loc[p].ptr] = @ - 1]
  /\ mpc' = [mpc EXCEPT ![p] = "idle"]
  /\ loc' = [loc EXCEPT ![p] = NoLocals]
  /\ UNCHANGED <<is_ker_copy, alive>>

\* cl_mem_delete, once the last reference is gone: no call is using the object.
cl_mem_delete ==
  /\ alive /\ InCall = {}
  /\ alive' = FALSE
  /\ map_ref' = IF map_ref > 0 THEN map_ref - Cardinality(Used) ELSE map_ref
  /\ mapped_ptr' = <<>>
  /\ held' = [a \in Ptrs |-> 0]
  /\ UNCHANGED <<is_ker_copy, mpc, loc>>

MapNext ==
  \/ \E p \in Procs :
       \/ \E a \in Ptrs : RecordMap(p, a)
       \/ RecordStore(p) \/ RecordCount(p)
       \/ \E a \in UnmapArgs : UnmapFind(p, a) \/ UnmapInvalid(p, a)
       \/ \E fails \in BOOLEAN : UnmapDone(p, fails)
  \/ cl_mem_delete

MapSpec == MapInit /\ [][MapNext]_mapVars

-----------------------------------------------------------------------------
(* When no call is running, the table holds every pointer the application  *)
(* has mapped, as often as it holds it, so that every later unmap finds    *)
(* its slot; growing, clearing and halving never drop or double one.  Of   *)
(* an image that is mapped through a kernel, only a failed unmap loses one.*)
TableHoldsMappings ==
  alive /\ InCall = {} =>
    \A a \in Ptrs :
      LET slots == Cardinality({i \in DOMAIN mapped_ptr : mapped_ptr[i] = a})
      IN slots <= held[a] /\ (~is_ker_copy => slots = held[a])

(* When no call is running, map_ref is the number of used slots.           *)
MapRefCounts == alive /\ InCall = {} => map_ref = Cardinality(Used)

(* assert(j < memobj->mapped_ptr_sz / 2) in the halving (cl_enqueue.c:454):*)
(* the used slots fit in the smaller table with one to spare.              *)
ShrinkFits ==
  \A p \in Procs :
    mpc[p] = "unmap" /\ mapped_ptr_sz \div 2 > loc[p].ref - 1
      => Cardinality(Used) < mapped_ptr_sz \div 2

(* assert(mem->map_ref == 0) at the end of cl_mem_delete (cl_mem.c:1507).  *)
DeleteUnmapsAll == [][alive /\ ~alive' /\ map_ref > 0 => map_ref' = 0]_mapVars

=============================================================================
