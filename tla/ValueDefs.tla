----------------------------- MODULE ValueDefs ------------------------------
(***************************************************************************)
(* The graph of values of a function, built on the result of Liveness:     *)
(* first, for each block and each register live out of it, the definitions *)
(* that may be its value there (LiveOutSet), and from these the definitions *)
(* each use may see (FunctionDAG).                                         *)
(*                                                                         *)
(* A definition is <<b, i, r>>, register r written by instruction i of     *)
(* block b, or Input(r), the value r has when the function is entered.     *)
(***************************************************************************)
EXTENDS Liveness, SequencesExt

CONSTANTS
  InputSets,   \* the registers with arguments, special or pushed values
  Orders(_),   \* the orders a map of blocks may be gone through in
  Unset        \* what getDefSet finds for a register that is not live out

ASSUME ValueConstants ==
  /\ \A s \in InputSets : s \subseteq Regs
  /\ \A f \in Functions : \A o \in Orders(f) : ToSet(o) = f.blocks

VARIABLES
  inputs,   \* the input registers of fn, chosen where they are first looked at
  dag,      \* "none", "transfer" or "built"
  defMap,   \* the definitions of each register at the end of each block
  udGraph   \* the definitions of each use

valueVars == <<inputs, dag, defMap, udGraph>>

Input(r) == <<0, 0, r>>

(* The instruction of b that writes r last before instruction i.           *)
Writers(b, i, r) == {j \in 1 .. i - 1 : r \in body[b][j].dst}
LastDef(b, i, r) == <<b, Max(Writers(b, i, r)), r>>

ValueInit ==
  /\ inputs = {} /\ dag = "none" /\ defMap = << >> /\ udGraph = << >>

-----------------------------------------------------------------------------
(* initializeInstructionDef and initializeOtherDef.                        *)
initializeDefs ==
  /\ stage = "done" /\ dag = "none"
  /\ inputs' \in InputSets
  /\ defMap' = [b \in fn.blocks |-> [r \in liveOut[b] |->
       IF r \in varKill[b] THEN {LastDef(b, Len(body[b]) + 1, r)}
       ELSE IF b = fn.entry /\ r \in inputs' THEN {Input(r)}
       ELSE {}]]
  /\ dag' = "transfer"
  /\ UNCHANGED udGraph

(* Mutant of Transfer: a block that writes the register takes them too.    *)
TransferKilled(defs, b) ==
  [defs EXCEPT ![b] = [r \in liveOut[b] |->
     @[r] \cup UNION {defs[p][r] : p \in {q \in Preds(b) : r \in liveOut[q]}}]]

(* What a block takes from its predecessors in a round.                    *)
Transfer(defs, b) ==
  [defs EXCEPT ![b] = [r \in liveOut[b] |->
     IF r \in varKill[b] THEN @[r]
     ELSE @[r] \cup UNION {defs[p][r] : p \in {q \in Preds(b) : r \in liveOut[q]}}]]

(* A round of iterateLiveOut that changes something.                       *)
iterateLiveOut ==
  /\ dag = "transfer"
  /\ \E order \in Orders(fn) : defMap' = FoldLeft(Transfer, defMap, order)
  /\ defMap' # defMap
  /\ UNCHANGED <<inputs, dag, udGraph>>

getDefSet(b, r) == IF r \in liveOut[b] THEN defMap[b][r] ELSE {Unset}

makeDefSet(b, r) ==
  UNION {getDefSet(p, r) : p \in {q \in Preds(b) : r \notin fn.undefPhiRegs[q]}}
    \cup (IF b = fn.entry /\ r \in inputs THEN {Input(r)} ELSE {})

ValueUses ==
  UNION {UNION {{<<b, i, r>> : r \in body[b][i].src} : i \in DOMAIN body[b]} : b \in fn.blocks}

(* After the round that changes nothing the chains are built: a use sees   *)
(* the definition before it in its block or else those of the predecessors. *)
buildChains ==
  /\ dag = "transfer"
  /\ \E order \in Orders(fn) : FoldLeft(Transfer, defMap, order) = defMap
  /\ udGraph' = [u \in ValueUses |->
       IF Writers(u[1], u[2], u[3]) # {} THEN {LastDef(u[1], u[2], u[3])}
       ELSE makeDefSet(u[1], u[3])]
  /\ dag' = "built"
  /\ UNCHANGED <<inputs, defMap>>

ValueNext ==
  /\ initializeDefs \/ iterateLiveOut \/ buildChains
  /\ UNCHANGED liveVars

-----------------------------------------------------------------------------
(* The blocks a definition reaches the start of: along any path on which   *)
(* no block writes the register or hands an undefined value to its phi.    *)
Reaches(d) ==
  LET r == d[3]
      leaves(b) == r \notin fn.undefPhiRegs[b]
      next(from) == {e[2] : e \in {x \in fn.edges : x[1] \in from /\ leaves(x[1])}}
      through(from) == next({b \in from : r \notin Killed(body[b])})
      within[n \in 0 .. Cardinality(fn.blocks)] ==
        IF n > 0 THEN within[n - 1] \cup through(within[n - 1])
        ELSE IF d = Input(r) THEN {fn.entry}
        ELSE IF Writers(d[1], Len(body[d[1]]) + 1, r) = Writers(d[1], d[2], r) \cup {d[2]}
             THEN next({d[1]}) ELSE {}
  IN within[Cardinality(fn.blocks)]

Definitions(r) ==
  {Input(x) : x \in inputs \cap {r}}
    \cup UNION {{<<b, i, r>> : i \in Writers(b, Len(body[b]) + 1, r)} : b \in fn.blocks}

(* The chain of every use holds exactly the definitions that reach it by   *)
(* some path, although it is built from what is live only, in whatever     *)
(* order the blocks come; and getDefSet is never asked for a register that *)
(* is not live out, which its assertion forbids.                           *)
ChainsExact ==
  dag = "built" =>
    \A u \in ValueUses :
      udGraph[u] = IF Writers(u[1], u[2], u[3]) # {} THEN {LastDef(u[1], u[2], u[3])}
                   ELSE {d \in Definitions(u[3]) : u[1] \in Reaches(d)}
=============================================================================
