------------------------------ MODULE NDRange -------------------------------
(***************************************************************************)
(* clEnqueueNDRangeKernel: one call becomes up to 8 kernels on the GPU,    *)
(* the groups of full size and, in each dimension, the smaller ones that   *)
(* are left over.  Each piece has an event of its own; the application     *)
(* gets the last one.  The worker of the queue takes the pieces that are   *)
(* ready out of the list and runs them.                                    *)
(***************************************************************************)
EXTENDS Integers, Sequences, FiniteSets, FiniteSetsExt, SequencesExt

CONSTANTS
  Calls,         \* calls: [gen, simd, vme, dim, glb, lcl, off, req, ooo, wait, event];
                 \* lcl and off are << >> for NULL, req is the required group size
  MaxDimSize,    \* maxDimSize (64)
  MaxGroupSize,  \* maxGroupSize (256)
  MaxWorkGroup,  \* cl_get_kernel_max_wg_sz
  Block,         \* edge of a macroblock of motion estimation (16)
  NoPiece

ASSUME NDRangeConstants ==
  /\ {MaxDimSize, MaxGroupSize, MaxWorkGroup, Block} \subseteq Nat \ {0}
  /\ NoPiece \notin 0 .. 7

VARIABLES
  call,     \* the arguments
  at,       \* "enter", "pieces" or "returned"
  piece,    \* the next of the pieces 0 .. 7, numbered 4 * i + 2 * j + k
  count,    \* count
  err,      \* the call fails
  e,        \* e, the piece whose event was created last
  out,      \* the piece whose event the application gets
  ev,       \* the events: [ref, mid, st], st "none" before its creation
  dep,      \* the event of the wait list: "complete", "pending" or "failed"
  list,     \* enqueued_events of the queue
  batch,    \* ready_list of the worker
  scan      \* position of the worker's scan in the list, 0 outside of it

ndVars == <<call, at, piece, count, err, e, out, ev, dep, list, batch, scan>>

Dims == 1 .. 3
Pieces == 0 .. 7
Volume(s) == s[1] * s[2] * s[3]
Fill(s, d) == [i \in Dims |-> IF i \in DOMAIN s THEN s[i] ELSE d]

NDInit ==
  /\ call \in Calls
  /\ at = "enter" /\ piece = 0 /\ count = 0 /\ err = FALSE
  /\ e = NoPiece /\ out = NoPiece
  /\ ev = [n \in Pieces |-> [ref |-> 0, mid |-> FALSE, st |-> "none"]]
  /\ dep = call.wait
  /\ list = << >> /\ batch = << >> /\ scan = 0

-----------------------------------------------------------------------------
(* The sizes                                                               *)

(* The largest divisor of a dimension that the limits still allow.         *)
ChosenSize(acc, g) ==
  LET fit == {j \in 2 .. acc.maxDim : g % j = 0 /\ j <= acc.maxGroup}
      j == Max(fit)
  IN IF fit = {} THEN [acc EXCEPT !.sz = Append(@, 1)]
     ELSE [sz |-> Append(acc.sz, j), maxGroup |-> acc.maxGroup \div j,
           maxDim |-> Min({acc.maxGroup \div j, acc.maxDim})]

ChosenLocal ==
  FoldLeft(ChosenSize, [sz |-> << >>, maxGroup |-> MaxGroupSize, maxDim |-> MaxDimSize],
           call.glb).sz

fixed_local_sz ==
  Fill(IF call.lcl # << >> THEN call.lcl
       ELSE IF call.vme THEN <<Block>> ELSE ChosenLocal, 1)

fixed_global_sz ==
  LET blocks(x) == (x + Block - 1) \div Block
  IN Fill(IF call.vme THEN <<blocks(call.glb[1]) * Block, blocks(call.glb[2])>> ELSE call.glb, 1)

fixed_global_off == Fill(call.off, 0)

global_wk_sz_div == [d \in Dims |-> (fixed_global_sz[d] \div fixed_local_sz[d]) * fixed_local_sz[d]]
global_wk_sz_rem == [d \in Dims |-> fixed_global_sz[d] % fixed_local_sz[d]]

(* Piece n takes the remainder in dimension d.                             *)
Rest(n, d) == (n \div 2^(d - 1)) % 2 = 1

global_wk_sz_use(n) ==
  [d \in Dims |-> IF Rest(n, d) THEN global_wk_sz_rem[d] ELSE global_wk_sz_div[d]]

(* Mutant of global_dim_off: the remainder starts at the first group.      *)
global_dim_off_zero(n) == [d \in Dims |-> 0]

global_dim_off(n) ==
  [d \in Dims |-> IF Rest(n, d) THEN global_wk_sz_div[d] \div fixed_local_sz[d] ELSE 0]

local_wk_sz_use(n) ==
  [d \in Dims |-> IF Rest(n, d) THEN global_wk_sz_rem[d] ELSE fixed_local_sz[d]]

(* Mutant of PieceCount: a dimension has two pieces when it has full groups.*)
PieceCountDiv == 2 ^ Cardinality({d \in Dims : global_wk_sz_div[d] > 0})

PieceCount == 2 ^ Cardinality({d \in Dims : global_wk_sz_rem[d] # 0})

-----------------------------------------------------------------------------
(* The call                                                                *)

Refused ==
  \/ call.dim \notin Dims
  \/ call.vme /\ (call.dim # 2 \/ call.lcl # << >>)
  \/ call.req # <<0, 0, 0>> /\ fixed_local_sz # call.req

(* The checks at the start of the call.                                    *)
Enter ==
  /\ at = "enter"
  /\ IF Refused THEN at' = "returned" /\ err' = TRUE /\ UNCHANGED count
                ELSE at' = "pieces" /\ count' = PieceCount /\ UNCHANGED err
  /\ UNCHANGED <<call, piece, e, out, ev, dep, list, batch, scan>>

Work(n) == Volume(local_wk_sz_use(n)) > 0

SkipPiece ==
  /\ at = "pieces" /\ piece < 8 /\ ~Work(piece)
  /\ piece' = piece + 1
  /\ UNCHANGED <<call, at, count, err, e, out, ev, dep, list, batch, scan>>

(* cl_kernel_work_group_sz refuses the size of the group.                  *)
GroupRefused(n) ==
  \/ \E d \in Dims : call.req[d] \notin {0, local_wk_sz_use(n)[d]}
  \/ Volume(local_wk_sz_use(n)) > MaxWorkGroup

(* No memory for the event, or for the state of the GPU; a group size the  *)
(* kernel does not support; or an event of the wait list has failed.  The  *)
(* loops are left and the event of the piece is deleted.                   *)
PieceFails ==
  /\ at = "pieces" /\ piece < 8 /\ Work(piece)
  /\ at' = "returned" /\ err' = TRUE /\ e' = NoPiece
  /\ UNCHANGED <<call, piece, count, out, ev, dep, list, batch, scan>>

(* The piece is executed as far as it is ready and put to the list; the    *)
(* API's reference to an event of the middle is dropped.  A flush that     *)
(* fails leaves the event failed and is not reported.                      *)
EnqueuePiece ==
  /\ at = "pieces" /\ piece < 8 /\ Work(piece) /\ ~GroupRefused(piece)
  /\ dep # "failed" /\ scan = 0
  /\ \E st \in {"queued"} \cup (IF dep = "complete" THEN {"failed"} ELSE {}) :
       ev' = [ev EXCEPT ![piece] =
                [ref |-> IF count > 1 THEN 1 ELSE 2, mid |-> count > 1, st |-> st]]
  /\ count' = count - 1
  /\ list' = Append(list, piece)
  /\ e' = piece /\ piece' = piece + 1
  /\ UNCHANGED <<call, at, err, out, dep, batch, scan>>

(* *event = e, or cl_event_delete(e).                                      *)
Return ==
  /\ at = "pieces" /\ piece = 8
  /\ at' = "returned"
  /\ IF call.event
       THEN out' = e /\ UNCHANGED ev
       ELSE ev' = [ev EXCEPT ![e].ref = @ - 1] /\ UNCHANGED out
  /\ UNCHANGED <<call, piece, count, err, e, dep, list, batch, scan>>

-----------------------------------------------------------------------------
(* The worker of the queue, and the event of the wait list                 *)

StartScan ==
  /\ scan = 0 /\ batch = << >> /\ list # << >>
  /\ scan' = 1
  /\ UNCHANGED <<call, at, piece, count, err, e, out, ev, dep, list, batch>>

ScanPiece ==
  /\ scan \in DOMAIN list
  /\ IF dep # "pending"
       THEN /\ list' = RemoveAt(list, scan) /\ batch' = Append(batch, list[scan])
            /\ UNCHANGED scan
       ELSE /\ scan' = IF call.ooo THEN scan + 1 ELSE Len(list) + 1
            /\ UNCHANGED <<list, batch>>
  /\ UNCHANGED <<call, at, piece, count, err, e, out, ev, dep>>

EndScan ==
  /\ scan > Len(list)
  /\ scan' = 0
  /\ UNCHANGED <<call, at, piece, count, err, e, out, ev, dep, list, batch>>

(* The kernel is flushed and waited for, or fails, and the worker drops    *)
(* its reference, which the code does when the batch has run.              *)
RunPiece ==
  /\ scan = 0 /\ batch # << >>
  /\ \E st \in {"complete", "failed"} :
       /\ dep = "failed" \/ ev[Head(batch)].st = "failed" => st = "failed"
       /\ ev' = [ev EXCEPT ![Head(batch)].st = st, ![Head(batch)].ref = @ - 1]
  /\ batch' = Tail(batch)
  /\ UNCHANGED <<call, at, piece, count, err, e, out, dep, list, scan>>

DepFinishes ==
  /\ dep = "pending"
  /\ dep' \in {"complete", "failed"}
  /\ UNCHANGED <<call, at, piece, count, err, e, out, ev, list, batch, scan>>

NDNext ==
  \/ Enter \/ SkipPiece \/ PieceFails \/ EnqueuePiece \/ Return
  \/ StartScan \/ ScanPiece \/ EndScan \/ RunPiece \/ DepFinishes

NDSpec == NDInit /\ [][NDNext]_ndVars

-----------------------------------------------------------------------------
(* What the GPU executes for a piece                                       *)

(* The groups the walker starts.  That of gen 7 starts at 0.               *)
Groups(n) ==
  LET start(d) == IF call.gen >= 8 THEN global_dim_off(n)[d] ELSE 0
      num(d)   == global_wk_sz_use(n)[d] \div local_wk_sz_use(n)[d]
      range(d) == start(d) .. start(d) + num(d) - 1
  IN range(1) \X range(2) \X range(3)

thread_n(n) == (Volume(local_wk_sz_use(n)) + call.simd - 1) \div call.simd

(* The lanes that run: those of the payload with a block IP of 0, of the   *)
(* last thread those in right_mask.                                        *)
Lanes(n) ==
  LET sz == Volume(local_wk_sz_use(n))
      shift == IF sz % call.simd = 0 THEN call.simd ELSE sz % call.simd
  IN {c \in 0 .. thread_n(n) * call.simd - 1 :
        c < sz /\ (c \div call.simd = thread_n(n) - 1 => c % call.simd < shift)}

(* The local IDs in the payload of a lane.                                 *)
LocalId(n, c) ==
  LET l == local_wk_sz_use(n)
  IN <<c % l[1], (c \div l[1]) % l[2], c \div (l[1] * l[2])>>

get_global_id(n, g, c) ==
  [d \in Dims |-> LocalId(n, c)[d] + fixed_local_sz[d] * g[d] + fixed_global_off[d]]

get_num_groups ==
  [d \in Dims |-> fixed_global_sz[d] \div fixed_local_sz[d]
                    + (IF fixed_global_sz[d] % fixed_local_sz[d] # 0 THEN 1 ELSE 0)]

-----------------------------------------------------------------------------
(* Properties                                                              *)

WorkItems ==
  LET range(d) == fixed_global_off[d] .. fixed_global_off[d] + fixed_global_sz[d] - 1
  IN {[d \in Dims |-> x[d]] : x \in range(1) \X range(2) \X range(3)}

Finished == {n \in Pieces : ev[n].st = "complete"}
Failed == \E n \in Pieces : ev[n].st = "failed"
Created == {n \in Pieces : ev[n].st # "none"}

(* When the event of the call is complete and no piece has failed, every   *)
(* work item of the index space has run, once, in a group whose number is  *)
(* below get_num_groups: the pieces neither overlap nor leave a gap, and   *)
(* none of them is still to come.  The walker of gen 7 cannot start at a   *)
(* group other than 0, so there the sizes have to divide.                  *)
NDRangeCovered ==
  (\E n \in Finished : ~ev[n].mid) /\ ~Failed /\ (call.gen < 8 => PieceCount = 1)
    => /\ UNION {{get_global_id(n, g, c) : g \in Groups(n), c \in Lanes(n)} : n \in Finished}
            = WorkItems
       /\ MapThenSumSet(LAMBDA n : Cardinality(Groups(n)) * Cardinality(Lanes(n)), Finished)
            = Cardinality(WorkItems)
       /\ \A n \in Finished : \A g \in Groups(n), d \in Dims : g[d] < get_num_groups[d]

(* After the call every event is held by the queue as long as it is in its *)
(* lists and by the application if it got it, and by nobody else; the      *)
(* application gets an event exactly when the call succeeds and asks for   *)
(* one, and it is that of the last piece.                                  *)
EventsSettled ==
  at = "returned" =>
    /\ \A n \in Created :
         ev[n].ref = Cardinality({n} \cap (ToSet(list) \cup ToSet(batch)))
                       + Cardinality({n} \cap {out})
    /\ (out # NoPiece) = (~err /\ call.event)
    /\ ~err => ~ev[e].mid /\ \A n \in Created : n <= e

=============================================================================
