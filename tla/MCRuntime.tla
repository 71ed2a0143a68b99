----------------------------- MODULE MCRuntime ------------------------------
(* Four parts of the runtime, each on its inputs: a behaviour is about one *)
(* context, one memory object, one kernel call or one profiled command.    *)
EXTENDS ContextLife, MemMapping, NDRange, TimeStamps, TLC

CONSTANTS t1, t2, h1, h2, h3, k1, k2, q1, q2, a, b, c, app, worker

Symmetry == Permutations({t1, t2}) \cup Permutations({h2, h3})
              \cup Permutations({k1, k2}) \cup Permutations({q1, q2})

(* Calls: sizes that divide and that leave a rest in one, two and three    *)
(* dimensions, given and chosen group sizes, kernels that require a size,  *)
(* motion estimation, and the walkers of gen 7 and gen 8.  A call on an    *)
(* out-of-order queue has no wait list.                                    *)
Call(dim, glb, lcl) ==
  [gen |-> 8, simd |-> 8, vme |-> FALSE, dim |-> dim, glb |-> glb, lcl |-> lcl,
   off |-> << >>, req |-> <<0, 0, 0>>, ooo |-> FALSE, wait |-> "complete", event |-> TRUE]
Shapes ==
  {Call(1, <<g>>, <<l>>) : g \in {1, 8, 9, 17}, l \in {1, 3, 8, 16}}
    \cup {Call(2, g, <<3, 2>>) : g \in {2, 3, 5} \X {1, 4, 5}}
    \cup {Call(3, <<3, 3, g>>, <<2, l, 3>>) : g \in {2, 5}, l \in {1, 2}}
    \cup {Call(2, g, << >>) : g \in {7, 12} \X {4, 6, 15}}
    \cup {Call(0, << >>, << >>), Call(3, <<4, 4, 4>>, <<4, 4, 2>>)}
    \cup {[Call(d, <<17, g>>, l) EXCEPT !.vme = TRUE] :
            d \in 1 .. 2, g \in {5, 17}, l \in {<< >>, <<16, 1>>}}
    \cup {[Call(1, <<g>>, <<l>>) EXCEPT !.req = <<4, 1, 1>>] : g \in {8, 9}, l \in {3, 4}}
MCCalls ==
  LET flat == {s \in Shapes : s.dim < 3}
  IN Shapes
       \cup {[s EXCEPT !.gen = 7, !.simd = 16] : s \in flat}
       \cup {[s EXCEPT !.off = [d \in 1 .. s.dim |-> 2 * d], !.ooo = TRUE, !.event = FALSE] : s \in flat}
       \cup {[s EXCEPT !.wait = w] : s \in flat, w \in {"pending", "failed"}}

(* The parts that are not looked at have come to their end.                *)
ContextOver ==
  /\ ref = 0 /\ live = {} /\ internal = [k \in Kernels |-> "none"]
  /\ queues = {} /\ image_queue = None /\ owner = None
  /\ pc = [t \in Threads |-> "idle"] /\ arg = [t \in Threads |-> None] /\ ker = arg
  /\ seen = [t \in Threads |-> 0] /\ freed = 1 /\ lost = FALSE
MapOver ==
  /\ is_ker_copy = FALSE /\ mapped_ptr = << >> /\ map_ref = 0
  /\ mpc = [p \in Procs |-> "idle"] /\ loc = [p \in Procs |-> NoLocals]
  /\ held = [x \in Ptrs |-> 0] /\ alive = FALSE
CallOver ==
  /\ call = Call(0, << >>, << >>) /\ at = "returned" /\ piece = 0 /\ count = 0 /\ err = TRUE
  /\ e = NoPiece /\ out = NoPiece
  /\ ev = [n \in Pieces |-> [ref |-> 0, mid |-> FALSE, st |-> "none"]]
  /\ dep = "complete" /\ list = << >> /\ batch = << >> /\ scan = 0
TimeOver ==
  /\ clock = 0 /\ onGpu = FALSE /\ step = "done"
  /\ timestamp = [i \in 0 .. 4 |-> 0]
  /\ when = [queued |-> 0, submit |-> 0, start |-> 0, end |-> 0]

RtInit ==
  \/ Init /\ MapOver /\ CallOver /\ TimeOver
  \/ MapInit /\ ContextOver /\ CallOver /\ TimeOver
  \/ NDInit /\ ContextOver /\ MapOver /\ TimeOver
  \/ TimeInit /\ ContextOver /\ MapOver /\ CallOver
RtNext ==
  \/ Next /\ UNCHANGED <<mapVars, ndVars, timeVars>>
  \/ MapNext /\ UNCHANGED <<vars, ndVars, timeVars>>
  \/ NDNext /\ UNCHANGED <<vars, mapVars, timeVars>>
  \/ TimeNext /\ UNCHANGED <<vars, mapVars, ndVars>>
RtSpec == RtInit /\ [][RtNext]_<<vars, mapVars, ndVars, timeVars>>
=============================================================================
