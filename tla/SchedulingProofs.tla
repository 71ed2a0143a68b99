-------------------------- MODULE SchedulingProofs --------------------------
(***************************************************************************)
(* Proofs about InsnScheduling, for every block of instructions.           *)
(***************************************************************************)
EXTENDS InsnScheduling, FiniteSetTheorems, WellFoundedInduction, TLAPS

-----------------------------------------------------------------------------
(* The parents that have lowered the counter of n: those it must only not  *)
(* overtake once they are issued and a round has begun, the others once    *)
(* they have retired.                                                      *)
ToldParents(n) ==
  {p \in preRetired : depMode[p][n] = "WRITE_AFTER_READ"}
    \cup {p \in Issued \ active : depMode[p][n] # "WRITE_AFTER_READ"}

(* What n waits for.                                                       *)
Waiting(n) == IF policy = "POST_ALLOC" THEN Parents(n) \ ToldParents(n)
                                       ELSE Children(n) \ Issued

TypeInv ==
  /\ prog \in Programs /\ policy \in {"PRE_ALLOC", "POST_ALLOC"}
  /\ phase \in {"build", "retire", "issue", "pre", "crashed"}
  /\ phase \in {"retire", "issue"} => policy = "POST_ALLOC"
  /\ phase \in {"pre", "crashed"} => policy = "PRE_ALLOC"
  /\ depMode \in [Nodes -> [Nodes -> Modes]]
  /\ refNum \in [Nodes -> Int]
  /\ order \in Seq(Nodes)
  /\ active \subseteq Issued /\ preRetired \subseteq Issued
  /\ phase = "build" => order = << >>

(* The edges lead forward; a node that is not in flight has told its       *)
(* write-after-read children, and one in flight has from the middle of the *)
(* round.                                                                  *)
FlowInv ==
  /\ \A p, n \in Nodes : depMode[p][n] # "none" => p < n
  /\ policy = "POST_ALLOC" => Issued \ active \subseteq preRetired
  /\ phase = "issue" => active \subseteq preRetired

(* The counters count what is waited for, the nodes that are ready are     *)
(* those with a counter of 0 not issued yet, and what is issued waits for  *)
(* nothing.                                                                *)
CountInv ==
  phase # "build" =>
    /\ \A n \in Nodes : refNum[n] = Cardinality(Waiting(n))
    /\ ready = {n \in Nodes \ Issued : refNum[n] = 0}
    /\ \A n \in Issued : Waiting(n) = {}

Injective == \A i, j \in 1 .. Len(order) : order[i] = order[j] => i = j

SchedInv == TypeInv /\ FlowInv /\ CountInv /\ Injective /\ EdgesKept

-----------------------------------------------------------------------------
(* A nonempty set of naturals has a least element.                         *)
LEMMA LeastElement ==
  ASSUME NEW T, T \subseteq Nat, T # {}
  PROVE  \E x \in T : \A y \in T : x <= y
<1>1. IsWellFoundedOn(OpToRel(<, Nat), Nat)
  BY NatLessThanWellFounded
<1>2. \E x \in T : \A y \in T : ~(<<y, x>> \in OpToRel(<, Nat))
  <2> DEFINE R == OpToRel(<, Nat)
  <2>1. IsWellFoundedOn(R, Nat) BY <1>1
  <2> HIDE DEF R
  <2>2. \E x \in T : \A y \in T : ~(<<y, x>> \in R) BY <2>1, WFMin
  <2> QED BY <2>2 DEF R
<1>3. PICK x \in T : \A y \in T : ~(<<y, x>> \in OpToRel(<, Nat))
  BY <1>2
<1>4. ASSUME NEW y \in T PROVE x <= y
  <2>1. ~(<<y, x>> \in OpToRel(<, Nat)) BY <1>3
  <2>2. ~(y < x) BY <2>1 DEF OpToRel
  <2> QED BY <2>2
<1> QED BY <1>4

(* The numbers up to k are k.                                              *)
LEMMA UpTo ==
  ASSUME NEW k \in Nat
  PROVE  IsFiniteSet(1 .. k) /\ Cardinality(1 .. k) = k
<1>1. IsFiniteSet(1 .. k) BY FS_Interval
<1>2. Cardinality(1 .. k) = IF 1 > k THEN 0 ELSE k - 1 + 1 BY FS_Interval
<1> QED BY <1>1, <1>2

(* A block is a sequence, and its nodes are a finite set of naturals.      *)
LEMMA NodesFinite ==
  ASSUME prog \in Programs
  PROVE  /\ Len(prog) \in Nat
         /\ Nodes \subseteq Nat
         /\ IsFiniteSet(Nodes)
         /\ Cardinality(Nodes) = Len(prog)
<1>1. Len(prog) \in Nat BY SchedulerConstants
<1> QED BY <1>1, UpTo DEF Nodes

(* Taking D out of a finite set lowers its cardinality by that of D.       *)
LEMMA Lowered ==
  ASSUME NEW S, IsFiniteSet(S), NEW D, D \subseteq S
  PROVE  /\ Cardinality(S \ D) = Cardinality(S) - Cardinality(D)
         /\ Cardinality(S) \in Nat /\ Cardinality(D) \in Nat
         /\ Cardinality(D) = 0 <=> D = {}
<1>1. S \cap D = D OBVIOUS
<1>2. Cardinality(S \ D) = Cardinality(S) - Cardinality(S \cap D) BY FS_Difference
<1>3. IsFiniteSet(D) BY FS_Subset
<1> QED BY <1>1, <1>2, <1>3, FS_CardinalityType, FS_EmptySet

(* The nodes that have been placed are those of the list.                  *)
LEMMA Placed ==
  ASSUME order \in Seq(Nodes)
  PROVE  /\ Len(order) \in Nat
         /\ Issued \subseteq Nodes
         /\ \A i \in 1 .. Len(order) : order[i] \in Issued
         /\ \A n \in Issued : \E i \in 1 .. Len(order) : order[i] = n
BY DEF Issued

(* What is waited for is a set of nodes.                                   *)
LEMMA WaitingFinite ==
  ASSUME TypeInv, NEW n \in Nodes
  PROVE  Waiting(n) \subseteq Nodes /\ IsFiniteSet(Waiting(n))
<1>1. Waiting(n) \subseteq Nodes BY DEF Waiting, Parents, Children
<1>2. IsFiniteSet(Nodes) BY NodesFinite DEF TypeInv
<1> QED BY <1>1, <1>2, FS_Subset

-----------------------------------------------------------------------------
(* The steps                                                               *)

(* The invariant holds before the graph is built.                          *)
LEMMA InitInv == ScheduleInit => SchedInv
<1> SUFFICES ASSUME ScheduleInit PROVE SchedInv OBVIOUS
<1> USE DEF ScheduleInit
<1>1. Issued = {} /\ Len(order) = 0 BY DEF Issued
<1>2. TypeInv
  <2>1. policy \in {"PRE_ALLOC", "POST_ALLOC"} BY SchedulerConstants
  <2>2. depMode \in [Nodes -> [Nodes -> Modes]] BY DEF Modes
  <2>3. order \in Seq(Nodes) OBVIOUS
  <2> QED BY <1>1, <2>1, <2>2, <2>3 DEF TypeInv
<1>3. FlowInv BY <1>1 DEF FlowInv
<1>4. CountInv BY DEF CountInv
<1>5. Injective BY <1>1 DEF Injective
<1>6. EdgesKept BY DEF EdgesKept
<1> QED BY <1>2, <1>3, <1>4, <1>5, <1>6 DEF SchedInv

(* buildDAG sets the counters to the numbers of parents or children.       *)
LEMMA BuildInv == SchedInv /\ buildDAG => SchedInv'
<1> SUFFICES ASSUME SchedInv, buildDAG PROVE SchedInv' OBVIOUS
<1> USE DEF SchedInv
<1>1. order = << >> /\ order' = << >> /\ Nodes' = Nodes /\ Issued = {} /\ Issued' = {}
  BY DEF buildDAG, TypeInv, Issued, Nodes
<1>2. \A p, n \in Nodes : DependsOn(p, n) \in Modes /\ (DependsOn(p, n) # "none" => p < n)
  BY DEF DependsOn, Modes
<1>3. depMode' = [p \in Nodes |-> [n \in Nodes |-> DependsOn(p, n)]]
  BY DEF buildDAG
<1>4. \A n \in Nodes : Waiting(n)' = IF policy = "POST_ALLOC" THEN Parents(n)' ELSE Children(n)'
  BY <1>1 DEF Waiting, ToldParents, buildDAG, TypeInv
<1>5. \A n \in Nodes : refNum'[n] = Cardinality(Waiting(n)')
  BY <1>4 DEF buildDAG
<1>6. TypeInv'
  <2>1. depMode' \in [Nodes -> [Nodes -> Modes]] BY <1>2, <1>3
  <2>2. \A n \in Nodes : Waiting(n)' \subseteq Nodes
    BY <1>1, <1>4 DEF Parents, Children
  <2>3. IsFiniteSet(Nodes) BY NodesFinite DEF TypeInv
  <2>4. \A n \in Nodes : Cardinality(Waiting(n)') \in Int
    BY <2>2, <2>3, FS_Subset, FS_CardinalityType
  <2>5. refNum' \in [Nodes -> Int] BY <1>4, <2>4 DEF buildDAG
  <2> QED BY <1>1, <2>1, <2>5 DEF buildDAG, TypeInv
<1>7. FlowInv' BY <1>1, <1>2, <1>3 DEF FlowInv, buildDAG
<1>8. CountInv' BY <1>1, <1>5 DEF CountInv, buildDAG
<1>9. Injective' BY <1>1 DEF Injective
<1>10. EdgesKept' BY <1>1 DEF EdgesKept, KeepsOrder
<1> QED BY <1>6, <1>7, <1>8, <1>9, <1>10

(* A round lowers each counter by what is waited for no longer, once.      *)
LEMMA RetireInv ==
  ASSUME SchedInv, NEW done \in SUBSET active, Retire(done)
  PROVE  SchedInv'
<1> USE DEF SchedInv
<1>1. /\ order' = order /\ depMode' = depMode /\ policy' = policy /\ prog' = prog
      /\ Nodes' = Nodes /\ Issued' = Issued
      /\ policy = "POST_ALLOC" /\ phase = "retire" /\ phase' = "issue"
      /\ active' = active \ done /\ preRetired' = preRetired \cup active
  BY DEF Retire, TypeInv, Issued, Nodes
<1>2. Issued \subseteq Nodes BY Placed DEF TypeInv
<1>3. ASSUME NEW n \in Nodes
      PROVE  /\ Told(done, n) \subseteq Waiting(n)
             /\ Waiting(n)' = Waiting(n) \ Told(done, n)
  BY <1>1, <1>2 DEF Told, Waiting, ToldParents, Parents, TypeInv, Modes
<1>4. ASSUME NEW n \in Nodes
      PROVE  /\ refNum'[n] = Cardinality(Waiting(n)')
             /\ refNum'[n] \in Int
             /\ Told(done, n) = {} => refNum'[n] = refNum[n]
             /\ Told(done, n) # {} => refNum[n] # 0
  <2>1. IsFiniteSet(Waiting(n)) BY WaitingFinite
  <2>2. refNum'[n] = refNum[n] - Cardinality(Told(done, n)) BY DEF Retire
  <2>3. refNum[n] = Cardinality(Waiting(n)) BY <1>1 DEF CountInv
  <2>4. /\ Cardinality(Waiting(n) \ Told(done, n)) = Cardinality(Waiting(n)) - Cardinality(Told(done, n))
        /\ Cardinality(Waiting(n)) \in Nat /\ Cardinality(Told(done, n)) \in Nat
        /\ Cardinality(Told(done, n)) = 0 <=> Told(done, n) = {}
    BY <2>1, <1>3, Lowered
  <2>5. Cardinality(Waiting(n)) = 0 <=> Waiting(n) = {} BY <2>1, FS_EmptySet
  <2>6. Waiting(n)' = Waiting(n) \ Told(done, n) BY <1>3
  <2>7. refNum'[n] = Cardinality(Waiting(n)') BY <2>2, <2>3, <2>4, <2>6
  <2>8. Told(done, n) # {} => Waiting(n) # {} BY <1>3
  <2> QED BY <2>2, <2>3, <2>4, <2>5, <2>7, <2>8
<1>5. TypeInv'
  <2>1. refNum' \in [Nodes -> Int] BY <1>4 DEF Retire
  <2> QED BY <1>1, <2>1 DEF TypeInv
<1>6. FlowInv' BY <1>1 DEF FlowInv
<1>7. CountInv'
  <2>1. \A n \in Nodes' : refNum'[n] = Cardinality(Waiting(n)') BY <1>1, <1>4
  <2>2. \A n \in Issued : Waiting(n) = {} BY <1>1 DEF CountInv
  <2>3. \A n \in Issued' : Waiting(n)' = {} BY <1>1, <1>2, <1>3, <2>2
  <2>4. \A n \in Issued : Told(done, n) = {} BY <1>2, <1>3, <2>2
  <2>5. ready = {n \in Nodes \ Issued : refNum[n] = 0} BY <1>1 DEF CountInv
  <2>6. ready' = ready \cup {n \in Nodes : Told(done, n) # {} /\ refNum'[n] = 0} BY DEF Retire
  <2>7. ready' = {n \in Nodes \ Issued : refNum'[n] = 0}
    BY <1>4, <2>4, <2>5, <2>6
  <2> QED BY <1>1, <2>1, <2>3, <2>7 DEF CountInv
<1>8. Injective' BY <1>1 DEF Injective
<1>9. EdgesKept' BY <1>1 DEF EdgesKept, KeepsOrder
<1> QED BY <1>5, <1>6, <1>7, <1>8, <1>9

(* A node appended to the list.                                            *)
LEMMA Appended ==
  ASSUME order \in Seq(Nodes), NEW n \in Nodes, order' = Append(order, n)
  PROVE  /\ order' \in Seq(Nodes) /\ Len(order') = Len(order) + 1
         /\ \A i \in 1 .. Len(order) : order'[i] = order[i]
         /\ order'[Len(order) + 1] = n
         /\ Issued' = Issued \cup {n}
<1>1. /\ order' \in Seq(Nodes) /\ Len(order') = Len(order) + 1 /\ Len(order) \in Nat
      /\ \A i \in 1 .. Len(order) : order'[i] = order[i]
      /\ order'[Len(order) + 1] = n
  OBVIOUS
<1>2. 1 .. Len(order') = (1 .. Len(order)) \cup {Len(order) + 1} BY <1>1
<1>3. Issued' = Issued \cup {n} BY <1>1, <1>2 DEF Issued
<1> QED BY <1>1, <1>3

(* An instruction is issued after all it waited for.                       *)
LEMMA IssueInv ==
  ASSUME SchedInv, NEW n \in Nodes, Issue(n)
  PROVE  SchedInv'
<1> USE DEF SchedInv
<1>1. /\ depMode' = depMode /\ policy' = policy /\ prog' = prog /\ refNum' = refNum
      /\ Nodes' = Nodes /\ preRetired' = preRetired
      /\ policy = "POST_ALLOC" /\ phase = "issue" /\ phase' = "retire"
      /\ active' = active \cup {n} /\ order' = Append(order, n) /\ ready' = ready \ {n}
  BY DEF Issue, TypeInv, Nodes
<1>2. /\ order' \in Seq(Nodes) /\ Len(order') = Len(order) + 1
      /\ \A i \in 1 .. Len(order) : order'[i] = order[i]
      /\ order'[Len(order) + 1] = n
      /\ Issued' = Issued \cup {n}
  BY <1>1, Appended DEF TypeInv
<1>3. /\ Issued \subseteq Nodes /\ Len(order) \in Nat
      /\ \A i \in 1 .. Len(order) : order[i] \in Issued
      /\ \A m \in Issued : \E i \in 1 .. Len(order) : order[i] = m
  BY Placed DEF TypeInv
<1>4. n \notin Issued /\ refNum[n] = 0 BY <1>1 DEF Issue, CountInv
<1>5. Waiting(n) = {}
  <2>1. IsFiniteSet(Waiting(n)) BY WaitingFinite
  <2>2. Cardinality(Waiting(n)) = 0 BY <1>1, <1>4 DEF CountInv
  <2> QED BY <2>1, <2>2, FS_EmptySet
<1>6. \A m \in Nodes : Waiting(m)' = Waiting(m)
  <2>1. Issued' \ active' = Issued \ active BY <1>1, <1>2, <1>4 DEF TypeInv
  <2> QED BY <1>1, <2>1 DEF Waiting, ToldParents, Parents
<1>7. Parents(n) \subseteq Issued BY <1>1, <1>5 DEF Waiting, ToldParents, TypeInv
<1>8. TypeInv' BY <1>1, <1>2 DEF TypeInv
<1>9. FlowInv' BY <1>1, <1>2, <1>4 DEF FlowInv
<1>10. CountInv'
  <2>1. \A m \in Nodes' : refNum'[m] = Cardinality(Waiting(m)') BY <1>1, <1>6 DEF CountInv
  <2>2. ready' = {m \in Nodes' \ Issued' : refNum'[m] = 0} BY <1>1, <1>2 DEF CountInv
  <2>3. \A m \in Issued' : Waiting(m)' = {} BY <1>1, <1>2, <1>3, <1>5, <1>6 DEF CountInv
  <2> QED BY <2>1, <2>2, <2>3 DEF CountInv
<1>11. Injective' BY <1>2, <1>3, <1>4 DEF Injective
<1>12. EdgesKept'
  <2> SUFFICES ASSUME NEW p \in Nodes, NEW m \in Nodes, depMode[p][m] # "none",
                      NEW j \in 1 .. Len(order'), order'[j] = m
               PROVE  \E i \in 1 .. j - 1 : order'[i] = p
    BY <1>1 DEF EdgesKept, KeepsOrder
  <2>1. CASE j \in 1 .. Len(order)
    <3>1. KeepsOrder(p, m) BY DEF EdgesKept
    <3>2. PICK i \in 1 .. j - 1 : order[i] = p BY <1>1, <1>2, <2>1, <3>1 DEF KeepsOrder
    <3> QED BY <1>2, <1>3, <2>1, <3>2
  <2>2. CASE j = Len(order) + 1
    <3>1. p \in Issued BY <1>2, <1>7, <2>2 DEF Parents
    <3>2. PICK i \in 1 .. Len(order) : order[i] = p BY <1>3, <3>1
    <3> QED BY <1>2, <1>3, <2>2, <3>2
  <2> QED BY <1>2, <1>3, <2>1, <2>2
<1> QED BY <1>8, <1>9, <1>10, <1>11, <1>12

(* A node put before the list.                                             *)
LEMMA Prepended ==
  ASSUME order \in Seq(Nodes), NEW n \in Nodes, order' = <<n>> \o order
  PROVE  /\ order' \in Seq(Nodes) /\ Len(order') = Len(order) + 1
         /\ order'[1] = n
         /\ \A i \in 1 .. Len(order) : order'[i + 1] = order[i]
         /\ \A i \in 2 .. Len(order') : order'[i] = order[i - 1] /\ i - 1 \in 1 .. Len(order)
         /\ Issued' = Issued \cup {n}
<1>1. /\ order' \in Seq(Nodes) /\ Len(order') = Len(order) + 1 /\ Len(order) \in Nat
      /\ order'[1] = n
  OBVIOUS
<1>2. \A i \in 1 .. Len(order) : order'[i + 1] = order[i] BY <1>1
<1>3. \A i \in 2 .. Len(order') : order'[i] = order[i - 1] /\ i - 1 \in 1 .. Len(order) BY <1>1, <1>2
<1>4. Issued' \subseteq Issued \cup {n}
  <2> SUFFICES ASSUME NEW i \in 1 .. Len(order') PROVE order'[i] \in Issued \cup {n}
    BY DEF Issued
  <2>1. i = 1 \/ i \in 2 .. Len(order') BY <1>1
  <2> QED BY <1>1, <1>3, <2>1 DEF Issued
<1>5. Issued \cup {n} \subseteq Issued'
  <2>1. n \in Issued' BY <1>1 DEF Issued
  <2>2. ASSUME NEW i \in 1 .. Len(order) PROVE order[i] \in Issued'
    <3>1. i + 1 \in 1 .. Len(order') BY <1>1
    <3> QED BY <1>2, <3>1 DEF Issued
  <2> QED BY <2>1, <2>2 DEF Issued
<1> QED BY <1>1, <1>2, <1>3, <1>4, <1>5

(* An instruction is placed before all it waited for.                      *)
LEMMA PreScheduleInv ==
  ASSUME SchedInv, NEW n \in Nodes, preSchedule(n)
  PROVE  SchedInv'
<1> USE DEF SchedInv
<1>1. /\ depMode' = depMode /\ policy' = policy /\ prog' = prog
      /\ Nodes' = Nodes /\ preRetired' = preRetired /\ active' = active
      /\ policy = "PRE_ALLOC" /\ phase = "pre" /\ phase' \in {"pre", "crashed"}
      /\ order' = <<n>> \o order
  BY DEF preSchedule, TypeInv, Nodes
<1>2. /\ order' \in Seq(Nodes) /\ Len(order') = Len(order) + 1
      /\ order'[1] = n
      /\ \A i \in 1 .. Len(order) : order'[i + 1] = order[i]
      /\ \A i \in 2 .. Len(order') : order'[i] = order[i - 1] /\ i - 1 \in 1 .. Len(order)
      /\ Issued' = Issued \cup {n}
  BY <1>1, Prepended DEF TypeInv
<1>3. /\ Issued \subseteq Nodes /\ Len(order) \in Nat
      /\ \A i \in 1 .. Len(order) : order[i] \in Issued
      /\ \A m \in Issued : \E i \in 1 .. Len(order) : order[i] = m
  BY Placed DEF TypeInv
<1>4. n \notin Issued /\ refNum[n] = 0 BY <1>1 DEF preSchedule, CountInv
<1>5. Waiting(n) = {}
  <2>1. IsFiniteSet(Waiting(n)) BY WaitingFinite
  <2>2. Cardinality(Waiting(n)) = 0 BY <1>1, <1>4 DEF CountInv
  <2> QED BY <2>1, <2>2, FS_EmptySet
<1>6. n \notin Parents(n)
  <2>1. depMode[n][n] # "none" => n < n BY DEF FlowInv
  <2>2. n \in Nat BY NodesFinite DEF TypeInv
  <2> QED BY <2>1, <2>2 DEF Parents
<1>7. ASSUME NEW m \in Nodes
      PROVE  /\ Waiting(m)' = Waiting(m) \ {n}
             /\ n \in Waiting(m) <=> m \in Parents(n)
  BY <1>1, <1>2, <1>4 DEF Waiting, Children, Parents
<1>8. ASSUME NEW m \in Nodes
      PROVE  /\ refNum'[m] = Cardinality(Waiting(m)') /\ refNum'[m] \in Int
             /\ m \notin Parents(n) => refNum'[m] = refNum[m]
             /\ m \in Parents(n) => refNum[m] # 0
  <2>1. IsFiniteSet(Waiting(m)) BY WaitingFinite
  <2>2. refNum[m] = Cardinality(Waiting(m)) BY <1>1 DEF CountInv
  <2>3. Cardinality(Waiting(m)) \in Nat BY <2>1, FS_CardinalityType
  <2>4. Cardinality(Waiting(m) \ {n})
          = IF n \in Waiting(m) THEN Cardinality(Waiting(m)) - 1 ELSE Cardinality(Waiting(m))
    BY <2>1, FS_RemoveElement
  <2>5. refNum'[m] = IF m \in Parents(n) THEN refNum[m] - 1 ELSE refNum[m]
    BY DEF preSchedule
  <2>6. Cardinality(Waiting(m)') = Cardinality(Waiting(m) \ {n}) BY <1>7
  <2>7. n \in Waiting(m) => Cardinality(Waiting(m)) # 0 BY <2>1, FS_EmptySet
  <2> QED BY <1>7, <2>2, <2>3, <2>4, <2>5, <2>6, <2>7
<1>9. TypeInv'
  <2>1. refNum' \in [Nodes -> Int] BY <1>8 DEF preSchedule
  <2> QED BY <1>1, <1>2, <2>1 DEF TypeInv
<1>10. FlowInv' BY <1>1 DEF FlowInv
<1>11. CountInv'
  <2>1. \A m \in Nodes' : refNum'[m] = Cardinality(Waiting(m)') BY <1>1, <1>8
  <2>2. ready = {m \in Nodes \ Issued : refNum[m] = 0} BY <1>1 DEF CountInv
  <2>3. ready' = (ready \ {n}) \cup {p \in Parents(n) \ Issued : refNum'[p] = 0}
    BY DEF preSchedule
  <2>4. Parents(n) \subseteq Nodes BY DEF Parents
  <2>5. ready' = {m \in Nodes' \ Issued' : refNum'[m] = 0}
    BY <1>1, <1>2, <1>6, <1>8, <2>2, <2>3, <2>4
  <2>6. \A m \in Issued' : Waiting(m)' = {} BY <1>1, <1>2, <1>3, <1>5, <1>7 DEF CountInv
  <2> QED BY <2>1, <2>5, <2>6 DEF CountInv
<1>12. Injective'
  <2> SUFFICES ASSUME NEW i \in 1 .. Len(order'), NEW j \in 1 .. Len(order'), order'[i] = order'[j]
               PROVE  i = j
    BY DEF Injective
  <2>1. /\ i = 1 \/ i \in 2 .. Len(order')
        /\ j = 1 \/ j \in 2 .. Len(order')
    BY <1>2, <1>3
  <2>2. CASE i \in 2 .. Len(order') /\ j \in 2 .. Len(order')
    <3>1. order[i - 1] = order[j - 1] /\ i - 1 \in 1 .. Len(order) /\ j - 1 \in 1 .. Len(order)
      BY <1>2, <2>2
    <3>2. i - 1 = j - 1 BY <3>1 DEF Injective
    <3> QED BY <2>2, <3>2
  <2>3. \A k \in 2 .. Len(order') : order'[k] # n BY <1>2, <1>3, <1>4
  <2> QED BY <1>2, <2>1, <2>2, <2>3
<1>13. EdgesKept'
  <2> SUFFICES ASSUME NEW p \in Nodes, NEW m \in Nodes, depMode[p][m] # "none",
                      NEW i \in 1 .. Len(order'), order'[i] = p
               PROVE  \E j \in i + 1 .. Len(order') : order'[j] = m
    BY <1>1 DEF EdgesKept, KeepsOrder
  <2>1. CASE i = 1
    <3>1. m \in Issued BY <1>1, <1>2, <1>5, <2>1 DEF Waiting, Children
    <3>2. PICK j \in 1 .. Len(order) : order[j] = m BY <1>3, <3>1
    <3>3. order'[j + 1] = m /\ j + 1 \in i + 1 .. Len(order') BY <1>2, <1>3, <2>1, <3>2
    <3> QED BY <3>3
  <2>2. CASE i \in 2 .. Len(order')
    <3>1. order[i - 1] = p /\ i - 1 \in 1 .. Len(order) BY <1>2, <2>2
    <3>2. KeepsOrder(p, m) BY DEF EdgesKept
    <3>3. PICK j \in (i - 1) + 1 .. Len(order) : order[j] = m
      BY <1>1, <3>1, <3>2 DEF KeepsOrder
    <3>4. order'[j + 1] = m /\ j + 1 \in i + 1 .. Len(order') BY <1>2, <1>3, <2>2, <3>3
    <3> QED BY <3>4
  <2> QED BY <1>2, <1>3, <2>1, <2>2
<1> QED BY <1>9, <1>10, <1>11, <1>12, <1>13

(* Steps that change nothing the invariant speaks of but the phase.        *)
LEMMA IdleInv == SchedInv /\ Idle => SchedInv'
<1> SUFFICES ASSUME SchedInv, Idle PROVE SchedInv' OBVIOUS
<1> USE DEF SchedInv
<1>1. /\ Nodes' = Nodes /\ Issued' = Issued /\ order' = order /\ depMode' = depMode
      /\ prog' = prog /\ policy' = policy /\ refNum' = refNum /\ ready' = ready
      /\ active' = active /\ preRetired' = preRetired
      /\ phase = "issue" /\ phase' = "retire" /\ policy = "POST_ALLOC"
  BY DEF Idle, Nodes, Issued, TypeInv
<1>2. \A n \in Nodes : Waiting(n)' = Waiting(n)
  BY <1>1 DEF Waiting, ToldParents, Parents
<1>3. Issued \subseteq Nodes BY Placed DEF TypeInv
<1>4. TypeInv' BY <1>1 DEF TypeInv
<1>5. FlowInv' BY <1>1 DEF FlowInv
<1>6. CountInv' BY <1>1, <1>2, <1>3 DEF CountInv
<1>7. Injective' /\ EdgesKept' BY <1>1 DEF Injective, EdgesKept, KeepsOrder
<1> QED BY <1>4, <1>5, <1>6, <1>7

(* A step that changes nothing.                                            *)
LEMMA StutterInv == SchedInv /\ UNCHANGED scheduleVars => SchedInv'
<1> SUFFICES ASSUME SchedInv, UNCHANGED scheduleVars PROVE SchedInv' OBVIOUS
<1> USE DEF SchedInv
<1>1. /\ Nodes' = Nodes /\ Issued' = Issued /\ order' = order /\ depMode' = depMode
      /\ prog' = prog /\ policy' = policy /\ refNum' = refNum /\ ready' = ready
      /\ active' = active /\ preRetired' = preRetired /\ phase' = phase
  BY DEF scheduleVars, Nodes, Issued
<1>2. \A n \in Nodes : Waiting(n)' = Waiting(n)
  BY <1>1 DEF Waiting, ToldParents, Parents, Children
<1>3. Issued \subseteq Nodes BY Placed DEF TypeInv
<1>4. TypeInv' BY <1>1 DEF TypeInv
<1>5. FlowInv' BY <1>1 DEF FlowInv
<1>6. CountInv' BY <1>1, <1>2, <1>3 DEF CountInv
<1>7. Injective' /\ EdgesKept' BY <1>1 DEF Injective, EdgesKept, KeepsOrder
<1> QED BY <1>4, <1>5, <1>6, <1>7

(* Every step preserves the invariant.                                     *)
LEMMA StepInv == SchedInv /\ [ScheduleNext]_scheduleVars => SchedInv'
<1> SUFFICES ASSUME SchedInv, [ScheduleNext]_scheduleVars PROVE SchedInv' OBVIOUS
<1>1. CASE buildDAG BY <1>1, BuildInv
<1>2. CASE \E done \in SUBSET active : Retire(done) BY <1>2, RetireInv
<1>3. CASE \E n \in Nodes : Issue(n) BY <1>3, IssueInv
<1>4. CASE Idle BY <1>4, IdleInv
<1>5. CASE \E n \in Nodes : preSchedule(n) BY <1>5, PreScheduleInv
<1>6. CASE Scheduled BY <1>6, StutterInv DEF Scheduled
<1>7. CASE UNCHANGED scheduleVars BY <1>7, StutterInv
<1> QED BY <1>1, <1>2, <1>3, <1>4, <1>5, <1>6, <1>7 DEF ScheduleNext

-----------------------------------------------------------------------------
(* As long as the list is shorter than the block, a node is missing.       *)
LEMMA SomeMissing ==
  ASSUME TypeInv, Len(order) < Len(prog)
  PROVE  Nodes \ Issued # {}
<1>1. /\ Issued \subseteq Nodes /\ Len(order) \in Nat
      /\ \A i \in 1 .. Len(order) : order[i] \in Issued
      /\ \A n \in Issued : \E i \in 1 .. Len(order) : order[i] = n
  BY Placed DEF TypeInv
<1>2. DEFINE f == [i \in 1 .. Len(order) |-> order[i]]
<1>3. f \in Surjection(1 .. Len(order), Issued)
  BY <1>1 DEF Surjection
<1>4. IsFiniteSet(1 .. Len(order)) /\ Cardinality(1 .. Len(order)) = Len(order)
  BY <1>1, UpTo
<1>5. Cardinality(Issued) <= Len(order)
  <2> HIDE DEF f
  <2>1. Cardinality(Issued) <= Cardinality(1 .. Len(order)) BY <1>3, <1>4, FS_Surjection
  <2> QED BY <1>4, <2>1
<1>6. Cardinality(Nodes) = Len(prog) /\ Len(prog) \in Nat BY NodesFinite DEF TypeInv
<1>7. Issued # Nodes BY <1>1, <1>5, <1>6
<1> QED BY <1>1, <1>7

(* The first missing node of postScheduleDAG waits for nothing once        *)
(* nothing is in flight; neither does the last one of preScheduleDAG.      *)
LEMMA Progress == SchedInv => NeverStuck
<1> SUFFICES ASSUME SchedInv PROVE NeverStuck OBVIOUS
<1> USE DEF SchedInv
<1>1. /\ Issued \subseteq Nodes /\ Nodes \subseteq Nat /\ Len(prog) \in Nat
  BY Placed, NodesFinite DEF TypeInv
<1>2. ASSUME NEW n \in Nodes \ Issued, Waiting(n) = {}, phase # "build" PROVE n \in ready
  <2>1. refNum[n] = Cardinality({}) BY <1>2 DEF CountInv
  <2>2. refNum[n] = 0 BY <2>1, FS_EmptySet
  <2> QED BY <1>2, <2>2 DEF CountInv
<1>3. ASSUME phase \in {"retire", "issue"}, Len(order) < Len(prog), active = {}
      PROVE  ready # {}
  <2>1. Nodes \ Issued # {} BY <1>3, SomeMissing
  <2>2. PICK n \in Nodes \ Issued : \A m \in Nodes \ Issued : n <= m
    BY <1>1, <2>1, LeastElement
  <2>3. ASSUME NEW p \in Parents(n) PROVE p \in ToldParents(n)
    <3>1. p \in Nodes /\ p < n BY DEF Parents, FlowInv
    <3>2. p \in Issued BY <1>1, <2>2, <3>1
    <3>3. p \in preRetired BY <1>3, <3>2 DEF FlowInv, TypeInv
    <3> QED BY <1>3, <3>2, <3>3 DEF ToldParents
  <2>4. Waiting(n) = {} BY <1>3, <2>3 DEF Waiting, TypeInv
  <2> QED BY <1>2, <1>3, <2>4
<1>4. ASSUME phase = "pre", ready = {} PROVE Issued = Nodes
  <2> SUFFICES ASSUME Nodes \ Issued # {} PROVE FALSE BY <1>1
  <2> DEFINE T == {k \in Nat : \E m \in Nodes \ Issued : k = Len(prog) - m}
  <2>1. T # {} /\ T \subseteq Nat
    <3>1. PICK m \in Nodes \ Issued : TRUE OBVIOUS
    <3>2. Len(prog) - m \in Nat BY <1>1 DEF Nodes
    <3> QED BY <3>2
  <2>2. \E k \in T : \A j \in T : k <= j
    <3> HIDE DEF T
    <3> QED BY <2>1, LeastElement
  <2>3. PICK k \in T : \A j \in T : k <= j BY <2>2
  <2>4. PICK n \in Nodes \ Issued : k = Len(prog) - n OBVIOUS
  <2>5. ASSUME NEW m \in Nodes \ Issued PROVE m <= n
    <3>1. Len(prog) - m \in T BY <1>1 DEF Nodes
    <3>2. Len(prog) - n <= Len(prog) - m BY <2>3, <2>4, <3>1
    <3> QED BY <1>1, <3>2
  <2>6. Children(n) \subseteq Issued
    <3> SUFFICES ASSUME NEW c \in Children(n) PROVE c \in Issued OBVIOUS
    <3>1. c \in Nodes /\ n < c BY DEF Children, FlowInv
    <3> QED BY <1>1, <2>5, <3>1
  <2>7. Waiting(n) = {} BY <1>4, <2>6 DEF Waiting, TypeInv
  <2> QED BY <1>2, <1>4, <2>7
<1>5. phase \in {"retire", "issue"} /\ Len(order) < Len(prog) => ready \cup active # {}
  BY <1>3
<1> QED BY <1>4, <1>5 DEF NeverStuck, Injective

(* Whatever the block, the costs and the latencies, neither scheduler      *)
(* places an instruction on the wrong side of one it depends on.           *)
THEOREM EdgesTheorem == ScheduleSpec => []EdgesKept
<1>1. SchedInv => EdgesKept BY DEF SchedInv
<1> QED BY <1>1, InitInv, StepInv, PTL DEF ScheduleSpec

(* Neither scheduler places an instruction twice, or is left without one   *)
(* to issue or to wait for before all have been placed.                    *)
THEOREM NeverStuckTheorem == ScheduleSpec => []NeverStuck
BY Progress, InitInv, StepInv, PTL DEF ScheduleSpec
=============================================================================
