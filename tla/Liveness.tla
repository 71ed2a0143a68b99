------------------------------ MODULE Liveness ------------------------------
(***************************************************************************)
(* The liveness analysis of the intermediate representation: the backward  *)
(* data-flow iteration over the blocks of a function, and the extension of *)
(* registers that leave a loop to the whole loop, which the register       *)
(* allocator needs because lanes leave the loop at different times.        *)
(*                                                                         *)
(* The sets of blocks of the code are ordered by address, so the first of  *)
(* a set is any of it.                                                     *)
(***************************************************************************)
EXTENDS Integers, Sequences, FiniteSets

CONSTANTS
  Functions,  \* flow graphs, with their loops
  Bodies,     \* what a block may hold: sequences of instructions, each with
              \* the registers src it reads and dst it writes
  Regs,       \* the registers,
  retVal      \* the one that holds the value returned

(* A flow graph: its blocks and edges, the entry and the blocks that end in *)
(* a return, undefPhiRegs and liveout (what the structurizer asks to keep)  *)
(* of each block, and loops, outer ones first: [preheader, bbs, exits].     *)
ASSUME LivenessConstants ==
  /\ retVal \in Regs
  /\ \A f \in Functions :
       /\ f.edges \subseteq f.blocks \X f.blocks
       /\ f.entry \in f.blocks /\ f.returns \subseteq f.blocks
       /\ f.undefPhiRegs \in [f.blocks -> SUBSET Regs]
       /\ f.liveout \in [f.blocks -> SUBSET Regs]
       /\ \A i \in DOMAIN f.loops :
            /\ f.loops[i].bbs \subseteq f.blocks
            /\ f.loops[i].preheader \in f.blocks \ f.loops[i].bbs
            /\ f.loops[i].exits = {e \in f.edges : e[1] \in f.loops[i].bbs
                                                  /\ e[2] \notin f.loops[i].bbs}
  /\ \A insns \in Bodies : \A i \in DOMAIN insns :
       insns[i].src \subseteq Regs /\ insns[i].dst \subseteq Regs

VARIABLES
  fn, body,       \* the function, and what each of its blocks holds
  stage,          \* "init", "flow", "extend" or "done"
  upwardUsed,     \* UEVar, and then what is live in, of each block
  varKill, liveOut,
  workSet, unvisitBlocks,
  loopID, exits,  \* the loop to extend over next, and those of its exits left
  extentRegs      \* the registers extended over a loop

liveVars == <<fn, body, stage, upwardUsed, varKill, liveOut, workSet,
              unvisitBlocks, loopID, exits, extentRegs>>

Preds(b) == {p \in fn.blocks : <<p, b>> \in fn.edges}
-----------------------------------------------------------------------------
(* initInstruction, from the first instruction of a block to the last: a   *)
(* read is an upward use unless an earlier instruction killed the register. *)
Killed(insns) == UNION {insns[i].dst : i \in DOMAIN insns}
Exposed(insns) ==
  UNION {insns[i].src \ Killed(SubSeq(insns, 1, i - 1)) : i \in DOMAIN insns}

LiveInit ==
  /\ fn \in Functions
  /\ body \in [fn.blocks -> Bodies]
  /\ stage = "init"
  /\ upwardUsed = [b \in fn.blocks |-> {}]
  /\ varKill = upwardUsed /\ liveOut = upwardUsed
  /\ workSet = {} /\ unvisitBlocks = {}
  /\ loopID = 0 /\ exits = {} /\ extentRegs = {}

(* initBlock of every block; those that return start the iteration.        *)
initBlocks ==
  /\ stage = "init"
  /\ upwardUsed' = [b \in fn.blocks |-> Exposed(body[b])]
  /\ varKill' = [b \in fn.blocks |-> Killed(body[b])]
  /\ liveOut' = [b \in fn.blocks |->
                   fn.liveout[b] \cup (IF b \in fn.returns THEN {retVal} ELSE {})]
  /\ workSet' = fn.returns
  /\ unvisitBlocks' = fn.blocks
  /\ stage' = "flow"
  /\ UNCHANGED <<fn, body, loopID, exits, extentRegs>>

(* The predecessors of b that a round puts back to the work set: those     *)
(* that changed, and every one it looks at after one that changed.         *)
RequeuedUnvisited(b, changed) == {changed \cap unvisitBlocks}
RequeuedAlways(b, changed)    == {Preds(b)}
Requeued(b, changed) ==
  IF changed = {} THEN {{}} ELSE {changed \cup more : more \in SUBSET Preds(b)}

(* A round of computeLiveInOut. What is live into b is live out of its     *)
(* predecessors.                                                           *)
visit(b) ==
  /\ stage = "flow" /\ b \in workSet
  /\ upwardUsed' = [upwardUsed EXCEPT ![b] = @ \cup (liveOut[b] \ varKill[b])]
  /\ liveOut' = [p \in fn.blocks |-> IF p \in Preds(b)
                   THEN liveOut[p] \cup (upwardUsed'[b] \ fn.undefPhiRegs[p])
                   ELSE liveOut[p]]
  /\ LET changed == {p \in Preds(b) : liveOut'[p] # liveOut[p]}
     IN \E again \in Requeued(b, changed) : workSet' = (workSet \ {b}) \cup again
  /\ unvisitBlocks' = unvisitBlocks \ {b}
  /\ UNCHANGED <<fn, body, stage, varKill, loopID, exits, extentRegs>>

(* A block nothing led to, as in a loop without end, starts the iteration  *)
(* again.                                                                  *)
seed(b) ==
  /\ stage = "flow" /\ workSet = {} /\ b \in unvisitBlocks
  /\ workSet' = {b}
  /\ UNCHANGED <<fn, body, stage, upwardUsed, varKill, liveOut, unvisitBlocks,
                 loopID, exits, extentRegs>>

(* computeExtraLiveInOut goes through the loops,                           *)
nextLoop ==
  /\ \/ stage = "flow" /\ workSet = {} /\ unvisitBlocks = {}
     \/ stage = "extend" /\ exits = {}
  /\ loopID' = loopID + 1
  /\ IF loopID < Len(fn.loops)
       THEN stage' = "extend" /\ exits' = fn.loops[loopID'].exits
       ELSE stage' = "done" /\ UNCHANGED exits
  /\ UNCHANGED <<fn, body, upwardUsed, varKill, liveOut, workSet, unvisitBlocks,
                 extentRegs>>

(* and through the exits of each, in the order they were found in.         *)
Leaving(e, loop) ==
  (IF Cardinality(Preds(e[2])) <= 1 THEN upwardUsed[e[2]]
                                    ELSE liveOut[e[1]] \cap upwardUsed[e[2]])
    \ liveOut[loop.preheader]

ExtendedAtExits(live, loop, regs) ==
  [b \in fn.blocks |-> IF \E e \in loop.exits : e[1] = b THEN live[b] \cup regs ELSE live[b]]
Extended(live, loop, regs) ==
  [b \in fn.blocks |-> IF b \in loop.bbs THEN live[b] \cup regs ELSE live[b]]

extend(e) ==
  /\ stage = "extend" /\ e \in exits
  /\ LET loop == fn.loops[loopID]
         toExtend == Leaving(e, loop)
     IN /\ upwardUsed' = Extended(upwardUsed, loop, toExtend)
        /\ liveOut' = Extended(liveOut, loop, toExtend)
        /\ extentRegs' = extentRegs \cup toExtend
  /\ exits' = exits \ {e}
  /\ UNCHANGED <<fn, body, stage, varKill, workSet, unvisitBlocks, loopID>>

Analysed == stage = "done" /\ UNCHANGED liveVars

LiveNext ==
  \/ initBlocks
  \/ \E b \in fn.blocks : visit(b) \/ seed(b)
  \/ nextLoop
  \/ \E e \in fn.edges : extend(e)
  \/ Analysed

LiveSpec == LiveInit /\ [][LiveNext]_liveVars

(* The analysis is a loop of one thread.                                   *)
LiveFair == WF_liveVars(LiveNext)
-----------------------------------------------------------------------------
(* The definition of liveness the analysis has to meet: r is live into b   *)
(* when some path from b reaches a use of r, or a block that keeps r, and  *)
(* no block on the way writes r or hands an undefined value to r's phi.    *)
Wanted(r, b) ==
  \/ r \in Exposed(body[b])
  \/ r \notin Killed(body[b]) /\ (r \in fn.liveout[b] \/ (r = retVal /\ b \in fn.returns))
Carries(r, b) == r \notin Killed(body[b]) /\ r \notin fn.undefPhiRegs[b]
LiveIn(r) ==
  LET within[n \in 0 .. Cardinality(fn.blocks)] ==  \* by a path of at most n edges
        IF n = 0 THEN {b \in fn.blocks : Wanted(r, b)}
        ELSE LET reach == within[n - 1]
             IN reach \cup {e[1] : e \in {x \in fn.edges : x[2] \in reach /\ Carries(r, x[1])}}
  IN within[Cardinality(fn.blocks)]

(* In whatever order blocks are visited, the iteration ends with the sets  *)
(* that the paths define, those of blocks no return is reached from too.   *)
FlowExact ==
  stage = "flow" /\ workSet = {} /\ unvisitBlocks = {} =>
    \A r \in Regs : LiveIn(r) = {b \in fn.blocks : r \in upwardUsed[b]}

(* A register a loop computes and the code after it needs is live all over *)
(* that loop at the end, nested loops in whatever order: its inactive      *)
(* lanes hold values that no other register may be given the place of.     *)
DefinedOnlyIn(r, bbs) == \A b \in fn.blocks : r \in Killed(body[b]) => b \in bbs
LoopsCovered ==
  stage = "done" =>
    \A i \in DOMAIN fn.loops, r \in Regs :
      /\ DefinedOnlyIn(r, fn.loops[i].bbs) /\ fn.entry \notin LiveIn(r)
      /\ \E e \in fn.loops[i].exits : e[2] \in LiveIn(r) /\ r \notin fn.undefPhiRegs[e[1]]
      => /\ r \in extentRegs
         /\ \A b \in fn.loops[i].bbs : r \in upwardUsed[b] /\ r \in liveOut[b]

(* The iteration comes to an end: a block is put back to the work set only *)
(* with one whose set has grown, or blocks that feed each other would be   *)
(* visited for ever.                                                       *)
AnalysisEnds == <>(stage = "done")
=============================================================================
