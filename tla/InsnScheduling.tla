--------------------------- MODULE InsnScheduling ---------------------------
(***************************************************************************)
(* The instruction scheduler of the compiler back end: buildDAG finds the  *)
(* dependences of one basic block, postScheduleDAG issues the instructions *)
(* from first to last after the registers are allocated, preScheduleDAG    *)
(* from last to first before.                                              *)
(*                                                                         *)
(* Which ready instruction is taken, and when one in flight retires, is a  *)
(* choice here: what is shown holds for every cost, latency and throughput *)
(* the tables of the code could give.                                      *)
(***************************************************************************)
EXTENDS Integers, Sequences, FiniteSets

CONSTANTS
  Programs,    \* the basic blocks: sequences of instructions
  Policies,    \* of {"PRE_ALLOC", "POST_ALLOC"}
  SimdWidths   \* of {8, 16}

(* An instruction: op, the registers src and dst, predicate (it reads the  *)
(* flag) and modFlag (it writes it). A register: id, the virtual register, *)
(* nr, the first 32-byte GRF allocated to it, and type.                    *)
Types == {"UW", "UD", "UL"}

Bytes(type) == CASE type = "UW" -> 2 [] type = "UD" -> 4 [] type = "UL" -> 8

(* What a register with one value per lane fills, in GRFs.                 *)
Size(type, width) == (width * Bytes(type) + 31) \div 32

(* The allocator aligns a register to its size.                            *)
ASSUME SchedulerConstants ==
  /\ Programs \subseteq Seq([op : STRING, src : SUBSET [id : Nat, nr : Nat, type : Types],
                             dst : SUBSET [id : Nat, nr : Nat, type : Types],
                             predicate : BOOLEAN, modFlag : BOOLEAN])
  /\ Policies \subseteq {"PRE_ALLOC", "POST_ALLOC"}
  /\ SimdWidths \subseteq {8, 16}
  /\ \A p \in Programs, width \in SimdWidths : \A n \in DOMAIN p :
       \A r \in p[n].src \cup p[n].dst : r.nr % Size(r.type, width) = 0

VARIABLES
  prog, policy, simd,  \* the block, and how the scheduler was made
  phase,      \* "build", then the loop of postScheduleDAG as "retire" and
              \* "issue", or the loop of preScheduleDAG as "pre"
  depMode,    \* depMode[p][n]: how n, a child of p, depends on p, or "none"
  refNum,     \* what keeps each node waiting: parents (POST_ALLOC), or
              \* children, the depNum of the code (PRE_ALLOC)
  ready,      \* the ready list, or readySet
  active,     \* the instructions in flight
  preRetired, \* the nodes whose write-after-read children were told
  order       \* bb.insnList, as far as it is built again

scheduleVars == <<prog, policy, simd, phase, depMode, refNum, ready, active,
                  preRetired, order>>

Nodes   == 1 .. Len(prog)
Issued  == {order[i] : i \in 1 .. Len(order)}
-----------------------------------------------------------------------------
(* What DependencyTracker keeps one last writer for.                       *)
FLAG == <<"arf", 0>>
ACC  == <<"arf", 1>>
MEM  == <<"mem", 0>>

isRead(op)  == op \in {"READ", "ATOMIC"}
isWrite(op) == op \in {"WRITE", "ATOMIC"}
modAcc(op)  == op = "MACH"

(* getIndex and the index + 1 of the addDependency functions.              *)
IndexNarrow(r) ==
  IF policy = "PRE_ALLOC" THEN {<<"vreg", r.id>>}
  ELSE {<<"grf", IF simd = 8 THEN r.nr ELSE r.nr \div 2>>}
Index(r) ==
  IF policy = "PRE_ALLOC" THEN {<<"vreg", r.id>>}
  ELSE LET index == IF simd = 8 THEN r.nr ELSE r.nr \div 2
       IN {<<"grf", index>>} \cup (IF r.type = "UL" THEN {<<"grf", index + 1>>} ELSE {})

Reads(n) ==
  UNION {Index(r) : r \in prog[n].src}
    \cup (IF prog[n].predicate THEN {FLAG} ELSE {})
    \cup (IF isRead(prog[n].op) \/ prog[n].op \in {"UNSPILL_REG", "BARRIER", "FENCE"}
            THEN {MEM} ELSE {})

Writes(n) ==
  UNION {Index(r) : r \in prog[n].dst}
    \cup (IF prog[n].op = "CMP" \/ prog[n].modFlag THEN {FLAG} ELSE {})
    \cup (IF modAcc(prog[n].op) THEN {ACC} ELSE {})
    \cup (IF isWrite(prog[n].op) \/ prog[n].op \in {"SPILL_REG", "BARRIER", "FENCE"}
            THEN {MEM} ELSE {})

(* Labels and branches, and what is kept in place like them.               *)
IsBarrier(n) == prog[n].op \in {"LABEL", "JMPI", "BARRIER"}

(* nodes[x] = p when the pass reaches n: nobody between them writes x.     *)
NearestWriter(x, w, n) ==
  /\ x \in Writes(w)
  /\ \A q \in Nodes : x \in Writes(q) => ~(w < q /\ q < n) /\ ~(n < q /\ q < w)

(* The first of the passes that finds a dependence settles its mode.       *)
DependsOn(p, n) ==
  IF ~(p < n) THEN "none"
  ELSE IF \E x \in Reads(n)  : NearestWriter(x, p, n) THEN "READ_AFTER_WRITE"
  ELSE IF \E x \in Writes(n) : NearestWriter(x, p, n) THEN "WRITE_AFTER_WRITE"
  ELSE IF \E x \in Reads(p)  : NearestWriter(x, n, p) THEN "WRITE_AFTER_READ"
  ELSE IF IsBarrier(p) \/ IsBarrier(n) THEN "WRITE_AFTER_WRITE"
  ELSE "none"
-----------------------------------------------------------------------------
Modes == {"none", "READ_AFTER_WRITE", "WRITE_AFTER_WRITE", "WRITE_AFTER_READ"}

Parents(n)  == {p \in Nodes : depMode[p][n] # "none"}
Children(n) == {c \in Nodes : depMode[n][c] # "none"}

ScheduleInit ==
  /\ prog \in Programs /\ policy \in Policies /\ simd \in SimdWidths
  /\ phase = "build"
  /\ depMode = [p \in Nodes |-> [n \in Nodes |-> "none"]]
  /\ refNum = [n \in Nodes |-> 0]
  /\ ready = {} /\ active = {} /\ preRetired = {}
  /\ order = << >>

buildDAG ==
  /\ phase = "build"
  /\ UNCHANGED <<prog, policy, simd, active, preRetired, order>>
  /\ depMode' = [p \in Nodes |-> [n \in Nodes |-> DependsOn(p, n)]]
  /\ refNum' = [n \in Nodes |-> Cardinality(IF policy = "POST_ALLOC" THEN Parents(n)'
                                                                     ELSE Children(n)')]
  /\ ready' = {n \in Nodes : refNum'[n] = 0}
  /\ phase' = IF policy = "POST_ALLOC" THEN "retire" ELSE "pre"

(* A round of the loop first tells the write-after-read children of what   *)
(* was issued, then the other children of what has finished.               *)
ToldAgain(done, c) ==
  {p \in active : depMode[p][c] = "WRITE_AFTER_READ"}
    \cup {p \in done : depMode[p][c] \notin {"none", "WRITE_AFTER_READ"}}
ToldLate(done, c) == {p \in done : depMode[p][c] \notin {"none", "WRITE_AFTER_READ"}}
Told(done, c) ==
  {p \in active \ preRetired : depMode[p][c] = "WRITE_AFTER_READ"}
    \cup {p \in done : depMode[p][c] \notin {"none", "WRITE_AFTER_READ"}}

Retire(done) ==
  /\ phase = "retire" /\ Len(order) < Len(prog)
  /\ refNum' = [c \in Nodes |-> refNum[c] - Cardinality(Told(done, c))]
  /\ ready' = ready \cup {c \in Nodes : Told(done, c) # {} /\ refNum'[c] = 0}
  /\ active' = active \ done
  /\ preRetired' = preRetired \cup active
  /\ phase' = "issue"
  /\ UNCHANGED <<prog, policy, simd, depMode, order>>

(* The round ends by issuing one instruction,                              *)
Issue(n) ==
  /\ phase = "issue" /\ n \in ready
  /\ ready' = ready \ {n}
  /\ active' = active \cup {n}
  /\ order' = Append(order, n)
  /\ phase' = "retire"
  /\ UNCHANGED <<prog, policy, simd, depMode, refNum, preRetired>>

(* or by letting a cycle pass.                                             *)
Idle ==
  /\ phase = "issue" /\ ready = {}
  /\ phase' = "retire"
  /\ UNCHANGED <<prog, policy, simd, depMode, refNum, ready, active, preRetired, order>>

(* A round of preScheduleDAG. The code looks the node up in deps, which has *)
(* no entry for a node without parents: what follows the end of the map is  *)
(* taken for its list, and the round may not come back.                     *)
preSchedule(n) ==
  /\ phase = "pre" /\ n \in ready
  /\ refNum' = [p \in Nodes |-> IF p \in Parents(n) THEN refNum[p] - 1 ELSE refNum[p]]
  /\ ready' = (ready \ {n}) \cup {p \in Parents(n) \ Issued : refNum'[p] = 0}
  /\ order' = <<n>> \o order
  /\ \/ UNCHANGED phase
     \/ Parents(n) = {} /\ phase' = "crashed"
  /\ UNCHANGED <<prog, policy, simd, depMode, active, preRetired>>

Finished ==
  \/ phase = "crashed"
  \/ phase = "retire" /\ Len(order) = Len(prog)
  \/ phase = "pre" /\ ready = {}

Scheduled == Finished /\ UNCHANGED scheduleVars

ScheduleNext ==
  \/ buildDAG
  \/ \E done \in SUBSET active : Retire(done)
  \/ \E n \in Nodes : Issue(n)
  \/ Idle
  \/ \E n \in Nodes : preSchedule(n)
  \/ Scheduled

ScheduleSpec == ScheduleInit /\ [][ScheduleNext]_scheduleVars
-----------------------------------------------------------------------------
(* Instruction a must stay before b: one writes a byte of the register     *)
(* file, the flag, the accumulator or memory that the other reads or       *)
(* writes, or one of them may not be passed at all.                        *)
Filled(r) == IF policy = "PRE_ALLOC" THEN {<<"vreg", r.id>>}
             ELSE {<<"grf", r.nr + k>> : k \in 0 .. Size(r.type, simd) - 1}
Uses(regs, n) == UNION {Filled(r) : r \in regs} \cup {x \in Reads(n) \cup Writes(n) : x[1] \in {"arf", "mem"}}
Changes(n) == UNION {Filled(r) : r \in prog[n].dst} \cup {x \in Writes(n) : x[1] \in {"arf", "mem"}}
Conflict(a, b) ==
  \/ IsBarrier(a) \/ IsBarrier(b)
  \/ Changes(a) \cap Uses(prog[b].src \cup prog[b].dst, b) # {}
  \/ Changes(b) \cap Uses(prog[a].src \cup prog[a].dst, a) # {}

KeepsOrder(a, b) ==
  IF policy = "POST_ALLOC"
    THEN \A j \in 1 .. Len(order) : order[j] = b => \E i \in 1 .. j - 1 : order[i] = a
    ELSE \A i \in 1 .. Len(order) : order[i] = a => \E j \in i + 1 .. Len(order) : order[j] = b

(* Scheduling never changes what a block computes: an instruction is placed *)
(* after all it conflicts with that came before it (postScheduleDAG), or    *)
(* before all it conflicts with that came after it (preScheduleDAG). The    *)
(* conflicts are those of the GRFs that registers fill, where buildDAG      *)
(* compares indices and keeps one last writer of each.                      *)
ConflictsKept == \A a, b \in Nodes : a < b /\ Conflict(a, b) => KeepsOrder(a, b)

(* The same of the edges of the graph: the counting of refNum, which the    *)
(* two kinds of children reach in two places, lets no instruction go early. *)
EdgesKept == \A p, n \in Nodes : depMode[p][n] # "none" => KeepsOrder(p, n)

(* No instruction is lost or placed twice: the loop of postScheduleDAG,     *)
(* which only ends with the last instruction, always has one to issue or to *)
(* retire, and preScheduleDAG runs out of ready nodes with all of them      *)
(* placed, as it asserts.                                                   *)
NeverStuck ==
  /\ \A i, j \in 1 .. Len(order) : order[i] = order[j] => i = j
  /\ phase \in {"retire", "issue"} /\ Len(order) < Len(prog) => ready \cup active # {}
  /\ phase = "pre" /\ ready = {} => Issued = Nodes
=============================================================================
