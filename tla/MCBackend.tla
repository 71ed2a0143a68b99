----------------------------- MODULE MCBackend ------------------------------
(* Passes of the back end, each on its inputs: a behaviour analyses one    *)
(* function, its liveness and then its values, or schedules one block.     *)
EXTENDS InsnScheduling, ValueDefs

CONSTANTS x1, ret

(* Registers: A and B are one value per lane, of 32 bits, Q one of 64 bits *)
(* over A, and W one of 16 bits in the second GRF.                         *)
A == [id |-> 1, nr |-> 0, type |-> "UD"]
B == [id |-> 2, nr |-> 2, type |-> "UD"]
Q == [id |-> 3, nr |-> 0, type |-> "UL"]
W == [id |-> 4, nr |-> 1, type |-> "UW"]

Insn(op, dst, src) ==
  [op |-> op, dst |-> dst, src |-> src, predicate |-> FALSE, modFlag |-> FALSE]
Label == Insn("LABEL", {}, {})
Jump  == [Insn("JMPI", {}, {}) EXCEPT !.predicate = TRUE]
Insns ==
  {Insn("ALU", {A}, {B}), Insn("ALU", {B}, {A}), Insn("ALU", {W}, {Q}),
   Insn("UNSPILL_REG", {Q}, {}), Insn("SPILL_REG", {}, {Q}), Insn("READ", {B}, {A}),
   Insn("WRITE", {}, {A, B}), Insn("ATOMIC", {A}, {B}), Insn("MACH", {B}, {W}),
   Insn("CMP", {}, {A}), Insn("FENCE", {}, {}), Insn("BARRIER", {}, {}),
   [Insn("ALU", {A}, {W}) EXCEPT !.predicate = TRUE],
   [Insn("ALU", {W}, {}) EXCEPT !.modFlag = TRUE]}
MCPrograms ==
  {<<Label, a, b, c>> : a, b, c \in Insns}
    \cup {<<Label, a, b, c, d, Jump>> :
            a, b, c, d \in {Insn("ALU", {A}, {B}), Insn("ALU", {B}, {A}), Insn("CMP", {}, {A})}}

(* Flow graphs: a branch that joins, a loop with two exits to one block,     *)
(* a loop in a loop, and a loop without an exit.                           *)
Graph(blocks, edges, returns, bbs) ==
  [blocks |-> blocks, edges |-> edges, entry |-> 1, returns |-> returns,
   undefPhiRegs |-> [b \in blocks |-> {}], liveout |-> [b \in blocks |-> {}],
   loops |-> [i \in DOMAIN bbs |->
     [preheader |-> bbs[i][1], bbs |-> bbs[i][2],
      exits |-> {e \in edges : e[1] \in bbs[i][2] /\ e[2] \notin bbs[i][2]}]]]
Branch  == Graph(1 .. 4, {<<1, 2>>, <<1, 3>>, <<2, 4>>, <<3, 4>>}, {4}, << >>)
Loop    == Graph(1 .. 4, {<<1, 2>>, <<2, 3>>, <<3, 2>>, <<3, 4>>, <<2, 4>>}, {4},
                 << <<1, {2, 3}>> >>)
Nested  == Graph(1 .. 5, {<<1, 2>>, <<2, 3>>, <<3, 3>>, <<3, 4>>, <<4, 2>>, <<4, 5>>}, {5},
                 << <<1, {2, 3, 4}>>, <<2, {3}>> >>)
Endless == Graph(1 .. 4, {<<1, 2>>, <<1, 3>>, <<2, 4>>, <<4, 2>>}, {3}, << <<1, {2, 4}>> >>)
MCFunctions ==
  {Branch, Loop, Nested, Endless, [Branch EXCEPT !.undefPhiRegs[2] = {x1}],
   [Branch EXCEPT !.liveout[2] = {x1}], [Loop EXCEPT !.undefPhiRegs[3] = {x1}]}

Step(src, dst) == [src |-> src, dst |-> dst]
MCBodies ==
  {<< >>, <<Step({x1}, {})>>, <<Step({}, {x1})>>, <<Step({x1}, {x1})>>,
   <<Step({}, {x1}), Step({x1}, {})>>, <<Step({x1}, {ret})>>}

(* The map of blocks is ordered by address: up or down.                    *)
MCOrders(f) ==
  LET n == Cardinality(f.blocks)
  IN {[i \in 1 .. n |-> i], [i \in 1 .. n |-> n + 1 - i]}
MCInputSets == {{ret}, {ret, x1}}

(* The pass that does not run has come to its end.                         *)
ScheduleOver ==
  /\ prog = << >> /\ policy = "POST_ALLOC" /\ simd = 8 /\ phase = "retire"
  /\ depMode = << >> /\ refNum = << >> /\ order = << >>
  /\ ready = {} /\ active = {} /\ preRetired = {}
LiveOver ==
  /\ fn = Branch /\ stage = "done" /\ loopID = 1
  /\ body = [b \in fn.blocks |-> << >>]
  /\ upwardUsed = [b \in fn.blocks |-> {}] /\ varKill = upwardUsed /\ liveOut = upwardUsed
  /\ workSet = {} /\ unvisitBlocks = {} /\ exits = {} /\ extentRegs = {}

ValueOver == inputs = {} /\ dag = "built" /\ defMap = << >> /\ udGraph = << >>

Init ==
  \/ ScheduleInit /\ LiveOver /\ ValueOver
  \/ LiveInit /\ ValueInit /\ ScheduleOver
Next ==
  \/ ScheduleNext /\ UNCHANGED <<liveVars, valueVars>>
  \/ LiveNext /\ UNCHANGED <<scheduleVars, valueVars>>
  \/ ValueNext /\ UNCHANGED scheduleVars
Spec == Init /\ [][Next]_<<scheduleVars, liveVars, valueVars>> /\ LiveFair
=============================================================================
