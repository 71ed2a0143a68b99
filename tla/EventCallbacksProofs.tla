------------------------ MODULE EventCallbacksProofs ------------------------
(***************************************************************************)
(* Proofs about EventCallbacks, for any setters, callbacks and waiters:    *)
(* the inductive invariant IInv, and that the lists of the code keep the   *)
(* promise of clSetEventCallback.                                          *)
(***************************************************************************)
EXTENDS EventCallbacks, TLAPS

USE SMTT(30) DEF cbVars, COMPLETE, SUBMITTED, QUEUED, UNKNOWN, ERROR, Status, Levels, Goals

(* The registered callbacks, list by list.                                 *)
LEMMA RegisteredDef ==
  \A c : c \in Registered <=> c \in callbacks \/ c \in imm \/ \E p \in Setters : c \in tmp[p]
BY DEF Registered

(* The same in the next state.                                             *)
LEMMA RegisteredDefNext ==
  \A c : c \in Registered' <=> c \in callbacks' \/ c \in imm' \/ \E p \in Setters : c \in tmp'[p]
BY DEF Registered

(* The invariant holds when the event is created.                          *)
LEMMA InvInit ==
  ASSUME Init
  PROVE  IInv
<1>1. TypeOK
  BY CallbackConstants DEF Init, TypeOK
<1>2. Disjoint
  BY DEF Init, Disjoint
<1>3. \A c : c \notin Registered
  BY RegisteredDef DEF Init
<1>4. \A c \in Callbacks : CallbackInv(c)
  BY <1>3 DEF Init, CallbackInv
<1>5. (\A p \in Setters : SetterInv(p)) /\ NoLostSignal
  BY DEF Init, SetterInv, NoLostSignal
<1> QED
  BY <1>1, <1>2, <1>4, <1>5 DEF IInv

-----------------------------------------------------------------------------
(* One lemma per action; each also gives the step of the promise.          *)

(* cl_event_set_status: a fall of the status is the only step of the       *)
(* promise it takes, and it moves callbacks without losing one.            *)
LEMMA SetStatusStep ==
  ASSUME IInv, NEW p \in Setters, SetStatus(p)
  PROVE  IInv' /\ Registered' = Registered /\ \E s \in Status : Promise!Advance(s)
<1>0. TypeOK /\ Disjoint /\ (\A c \in Callbacks : CallbackInv(c)) /\ (\A q \in Setters : SetterInv(q))
  BY DEF IInv
<1>1. PICK s \in Targets : MaySet(s) /\ status' = s
  BY DEF SetStatus
<1>2. s \in Status /\ s < status /\ status > COMPLETE /\ status \in Int
  BY <1>0, <1>1 DEF Targets, MaySet, TypeOK
<1>3. UNCHANGED <<imm, level, calls, told, back>> /\ tmp[p] = {} /\ p \notin active
  BY <1>0 DEF SetStatus, SetterInv
<1>4. CASE callbacks = {}
  <2>1. asleep' = {} /\ UNCHANGED <<callbacks, active, st, tmp>>
    BY <1>4 DEF SetStatus, WakeAll
  <2>2. Registered' = Registered
    BY <1>3, <2>1 DEF Registered
  <2>3. TypeOK' /\ Disjoint'
    BY <1>0, <1>1, <1>2, <1>3, <2>1 DEF TypeOK, Disjoint
  <2>4. \A c \in Callbacks : CallbackInv(c)'
    <3>1. \A c \in Callbacks : level[c] \in Levels \cup {Unset}
      BY <1>0 DEF TypeOK
    <3>2. \A c \in Callbacks : c \in imm => level[c] \in Levels
      BY <1>0, <3>1, RegisteredDef DEF CallbackInv
    <3> QED
      BY <1>0, <1>1, <1>2, <1>3, <1>4, <2>1, <2>2, <3>2 DEF CallbackInv
  <2>5. \A q \in Setters : SetterInv(q)'
    BY <1>0, <1>1, <1>2, <2>1 DEF SetterInv, TypeOK
  <2>6. NoLostSignal'
    BY <2>1 DEF NoLostSignal
  <2> QED
    BY <1>1, <1>2, <1>3, <2>2, <2>3, <2>4, <2>5, <2>6 DEF IInv, Promise!Advance
<1>5. CASE callbacks # {}
  <2>1. /\ active' = active \cup {p} /\ st' = [st EXCEPT ![p] = s]
        /\ tmp' = [tmp EXCEPT ![p] = callbacks] /\ callbacks' = {} /\ UNCHANGED asleep
    BY <1>1, <1>5 DEF SetStatus
  <2>2. tmp'[p] = callbacks /\ (\A q \in Setters \ {p} : tmp'[q] = tmp[q])
        /\ st'[p] = s /\ (\A q \in Setters \ {p} : st'[q] = st[q])
    BY <1>0, <2>1 DEF TypeOK
  <2>3. \A c : c \in Registered' <=> c \in Registered
    BY <1>3, <2>1, <2>2, RegisteredDef, RegisteredDefNext
  <2>4. Registered' = Registered
    BY <2>3
  <2>5. TypeOK'
    BY <1>0, <1>1, <1>2, <1>3, <2>1 DEF TypeOK
  <2>6. Disjoint'
    BY <1>0, <1>3, <2>1, <2>2 DEF Disjoint
  <2>7. \A c \in Callbacks : CallbackInv(c)'
    <3>1. \A c \in Callbacks : level[c] \in Levels \cup {Unset}
      BY <1>0 DEF TypeOK
    <3>2. \A c \in Callbacks : c \in imm => level[c] \in Levels
      BY <1>0, <3>1, RegisteredDef DEF CallbackInv
    <3> QED
      BY <1>0, <1>1, <1>2, <1>3, <2>1, <2>4, <3>2 DEF CallbackInv
  <2>8. \A q \in Setters : SetterInv(q)'
    BY <1>0, <1>1, <1>2, <2>1, <2>2 DEF SetterInv, TypeOK
  <2>9. NoLostSignal'
    BY <2>1 DEF NoLostSignal
  <2> QED
    BY <1>1, <1>2, <1>3, <2>4, <2>5, <2>6, <2>7, <2>8, <2>9 DEF IInv, Promise!Advance
<1> QED
  BY <1>4, <1>5

(* A call: c is in one list, and is called for the first time.             *)
LEMMA CallOneStep ==
  ASSUME IInv, NEW p \in Setters, CallOne(p)
  PROVE  IInv' /\ \E c \in Callbacks : Promise!Deliver(c)
<1>0. TypeOK /\ Disjoint /\ (\A c \in Callbacks : CallbackInv(c)) /\ (\A q \in Setters : SetterInv(q))
  BY DEF IInv
<1>1. PICK c \in tmp[p] : Due(p, c) /\ tmp' = [tmp EXCEPT ![p] = @ \ {c}] /\ Call(c, st[p])
  BY Zenon DEF CallOne
<1>2. c \in Callbacks /\ p \in active /\ UNCHANGED <<status, callbacks, active, st, imm, level, asleep, back>>
  BY <1>0 DEF CallOne, TypeOK
<1>3. c \in Registered /\ level[c] # Unset /\ calls[c] = 0 /\ told[c] = Unset
  BY <1>0, <1>2, RegisteredDef DEF CallbackInv
<1>4. level[c] \in Levels /\ st[p] \in Status /\ status \in Status /\ status <= st[p] /\ st[p] <= level[c]
  BY <1>0, <1>1, <1>2, <1>3 DEF TypeOK, Due, SetterInv
<1>5. /\ calls'[c] = 1 /\ told' = [told EXCEPT ![c] = st[p]]
      /\ \A d \in Callbacks \ {c} : calls'[d] = calls[d] /\ told'[d] = told[d]
  BY <1>0, <1>1, <1>2, <1>3 DEF Call, TypeOK
<1>6. tmp'[p] = tmp[p] \ {c} /\ \A q \in Setters \ {p} : tmp'[q] = tmp[q]
  BY <1>0, <1>1 DEF TypeOK
<1>7. c \notin callbacks /\ c \notin imm /\ \A q \in Setters \ {p} : c \notin tmp[q]
  BY <1>0 DEF Disjoint
<1>8. \A d : d \in Registered' <=> d \in Registered /\ d # c
  BY <1>2, <1>6, <1>7, RegisteredDef, RegisteredDefNext
<1>9. TypeOK'
  <2>1. calls' \in [Callbacks -> Nat] /\ told' \in [Callbacks -> Status \cup {Unset}]
    BY <1>0, <1>1, <1>2, <1>4 DEF TypeOK, Call
  <2>2. tmp' \in [Setters -> SUBSET Callbacks]
    BY <1>0, <1>1 DEF TypeOK
  <2> QED
    BY <1>0, <1>2, <2>1, <2>2 DEF TypeOK
<1>10. Disjoint'
  BY <1>0, <1>2, <1>6 DEF Disjoint
<1>11. \A d \in Callbacks : CallbackInv(d)'
  <2>1. CallbackInv(c)'
    BY <1>2, <1>3, <1>5, <1>7, <1>8 DEF CallbackInv
  <2>2. ASSUME NEW d \in Callbacks \ {c} PROVE CallbackInv(d)'
    BY <1>0, <1>2, <1>5, <1>8 DEF CallbackInv
  <2> QED
    BY <2>1, <2>2
<1>12. \A q \in Setters : SetterInv(q)'
  BY <1>0, <1>2, <1>6 DEF SetterInv
<1>13. NoLostSignal'
  BY <1>2 DEF IInv, NoLostSignal
<1>14. Promise!Deliver(c)
  <2>1. st[p] \in status .. level[c]
    BY <1>4
  <2>2. Registered' = Registered \ {c}
    BY <1>8
  <2> QED
    BY Zenon, <1>2, <1>3, <1>5, <2>1, <2>2 DEF Promise!Deliver
<1> QED
  BY <1>2, <1>9, <1>10, <1>11, <1>12, <1>13, <1>14 DEF IInv

(* A callback called without the lock is delivered once.                   *)
LEMMA CallNowStep ==
  ASSUME IInv, NEW c \in Callbacks, CallNow(c)
  PROVE  IInv' /\ Promise!Deliver(c)
<1>0. TypeOK /\ Disjoint /\ (\A d \in Callbacks : CallbackInv(d)) /\ (\A q \in Setters : SetterInv(q))
  BY DEF IInv
<1>1. /\ c \in imm /\ imm' = imm \ {c} /\ Call(c, status)
      /\ UNCHANGED <<status, callbacks, active, st, tmp, level, asleep, back>>
  BY DEF CallNow
<1>2. c \in Registered /\ level[c] # Unset /\ calls[c] = 0 /\ told[c] = Unset /\ status <= level[c]
  BY <1>0, <1>1, RegisteredDef DEF CallbackInv
<1>3. level[c] \in Levels /\ status \in Status
  BY <1>0, <1>2 DEF TypeOK
<1>4. /\ calls'[c] = 1 /\ told' = [told EXCEPT ![c] = status]
      /\ \A d \in Callbacks \ {c} : calls'[d] = calls[d] /\ told'[d] = told[d]
  BY <1>0, <1>1, <1>2 DEF Call, TypeOK
<1>5. c \notin callbacks /\ \A q \in Setters : c \notin tmp[q]
  BY <1>0, <1>1 DEF Disjoint
<1>6. \A d : d \in Registered' <=> d \in Registered /\ d # c
  BY <1>1, <1>5, RegisteredDef, RegisteredDefNext
<1>7. TypeOK'
  <2>1. calls' \in [Callbacks -> Nat] /\ told' \in [Callbacks -> Status \cup {Unset}]
    BY <1>0, <1>1, <1>3 DEF TypeOK, Call
  <2> QED
    BY <1>0, <1>1, <2>1 DEF TypeOK
<1>8. Disjoint' /\ \A q \in Setters : SetterInv(q)'
  BY <1>0, <1>1 DEF Disjoint, SetterInv
<1>9. \A d \in Callbacks : CallbackInv(d)'
  <2>1. CallbackInv(c)'
    BY <1>1, <1>2, <1>4, <1>5, <1>6 DEF CallbackInv
  <2>2. ASSUME NEW d \in Callbacks \ {c} PROVE CallbackInv(d)'
    BY <1>0, <1>1, <1>4, <1>6 DEF CallbackInv
  <2> QED
    BY <2>1, <2>2
<1>10. NoLostSignal'
  BY Zenon, <1>1 DEF IInv, NoLostSignal
<1>11. Promise!Deliver(c)
  <2>1. status \in status .. level[c]
    BY <1>2, <1>3
  <2>2. Registered' = Registered \ {c}
    BY <1>6
  <2> QED
    BY Zenon, <1>1, <1>2, <1>4, <2>1, <2>2 DEF Promise!Deliver
<1> QED
  BY <1>7, <1>8, <1>9, <1>10, <1>11 DEF IInv

(* The uncalled callbacks go back to the event, or are taken once more.    *)
LEMMA MergeStep ==
  ASSUME IInv, NEW p \in Setters, Merge(p)
  PROVE  IInv' /\ Registered' = Registered
<1>0. TypeOK /\ Disjoint /\ (\A d \in Callbacks : CallbackInv(d)) /\ (\A q \in Setters : SetterInv(q))
  BY DEF IInv
<1>1. p \in active /\ (\A c \in tmp[p] : ~Due(p, c)) /\ UNCHANGED <<status, imm, level, calls, told, back>>
  BY DEF Merge
<1>2. status \in Status /\ \A c \in Callbacks : level[c] \in Levels \cup {Unset}
  BY <1>0 DEF TypeOK
<1>3. \A c \in tmp[p] : c \in Callbacks /\ level[c] \in Levels
  BY <1>0, <1>2, RegisteredDef DEF CallbackInv, TypeOK
<1>4. CASE Changed(p)
  <2>1. /\ st' = [st EXCEPT ![p] = status] /\ tmp' = [tmp EXCEPT ![p] = @ \cup callbacks]
        /\ callbacks' = {} /\ UNCHANGED <<active, asleep>>
    BY <1>4 DEF Merge
  <2>2. /\ tmp'[p] = tmp[p] \cup callbacks /\ \A q \in Setters \ {p} : tmp'[q] = tmp[q]
        /\ st'[p] = status /\ \A q \in Setters \ {p} : st'[q] = st[q]
    BY <1>0, <2>1 DEF TypeOK
  <2>3. \A c : c \in Registered' <=> c \in Registered
    BY <1>1, <2>1, <2>2, RegisteredDef, RegisteredDefNext
  <2>4. TypeOK'
    BY <1>0, <1>1, <2>1 DEF TypeOK
  <2>5. Disjoint'
    BY <1>0, <1>1, <2>1, <2>2 DEF Disjoint
  <2>6. \A c \in Callbacks : CallbackInv(c)'
    BY <1>0, <1>1, <2>1, <2>3 DEF CallbackInv
  <2>7. \A q \in Setters : SetterInv(q)'
    BY <1>0, <1>1, <1>2, <2>1, <2>2 DEF SetterInv
  <2>8. NoLostSignal'
    BY <1>1, <2>1 DEF IInv, NoLostSignal
  <2> QED
    BY <2>3, <2>4, <2>5, <2>6, <2>7, <2>8 DEF IInv
<1>5. CASE ~Changed(p)
  <2>1. /\ callbacks' = callbacks \cup tmp[p] /\ tmp' = [tmp EXCEPT ![p] = {}]
        /\ active' = active \ {p} /\ asleep' = {} /\ UNCHANGED st
    BY <1>5 DEF Merge, WakeAll
  <2>2. tmp'[p] = {} /\ \A q \in Setters \ {p} : tmp'[q] = tmp[q]
    BY <1>0, <2>1 DEF TypeOK
  <2>3. \A c : c \in Registered' <=> c \in Registered
    BY <1>1, <2>1, <2>2, RegisteredDef, RegisteredDefNext
  <2>4. TypeOK'
    BY <1>0, <1>1, <2>1 DEF TypeOK
  <2>5. Disjoint'
    BY <1>0, <1>1, <2>1, <2>2 DEF Disjoint
  <2>6. \A c \in tmp[p] : level[c] < status
    BY <1>1, <1>2, <1>3, <1>5 DEF Changed, Due
  <2>7. \A c \in Callbacks : CallbackInv(c)'
    BY <1>0, <1>1, <2>1, <2>3, <2>6 DEF CallbackInv
  <2>8. \A q \in Setters : SetterInv(q)'
    BY <1>0, <1>1, <2>1, <2>2 DEF SetterInv
  <2>9. NoLostSignal'
    BY <2>1 DEF NoLostSignal
  <2> QED
    BY <2>3, <2>4, <2>5, <2>7, <2>8, <2>9 DEF IInv
<1> QED
  BY <1>4, <1>5

(* clSetEventCallback registers the callback in one of the lists.          *)
LEMMA SetCallbackStep ==
  ASSUME IInv, NEW c \in Callbacks, SetCallback(c)
  PROVE  IInv' /\ \E l \in Levels : Promise!Register(c, l)
<1>0. TypeOK /\ Disjoint /\ (\A d \in Callbacks : CallbackInv(d)) /\ (\A q \in Setters : SetterInv(q))
  BY DEF IInv
<1>1. PICK l \in Levels :
        /\ level' = [level EXCEPT ![c] = l]
        /\ IF Reached(l)
             THEN imm' = imm \cup {c} /\ UNCHANGED callbacks
             ELSE callbacks' = callbacks \cup {c} /\ UNCHANGED imm
  BY Zenon DEF SetCallback
<1>2. level[c] = Unset /\ UNCHANGED <<status, active, st, tmp, calls, told, asleep, back>>
  BY DEF SetCallback
<1>3. /\ level'[c] = l /\ l # Unset /\ \A d \in Callbacks \ {c} : level'[d] = level[d]
      /\ calls[c] = 0 /\ told[c] = Unset /\ status \in Status
  BY <1>0, <1>1, <1>2, CallbackConstants DEF TypeOK, CallbackInv
<1>4. c \notin Registered
  BY <1>0, <1>2 DEF CallbackInv
<1>5. c \notin callbacks /\ c \notin imm /\ \A q \in Setters : c \notin tmp[q]
  BY <1>4, RegisteredDef
<1>6. \A d : d \in Registered' <=> d \in Registered \/ d = c
  BY <1>1, <1>2, RegisteredDef, RegisteredDefNext
<1>7. TypeOK'
  BY <1>0, <1>1, <1>2 DEF TypeOK
<1>8. Disjoint' /\ \A q \in Setters : SetterInv(q)'
  BY <1>0, <1>1, <1>2, <1>5 DEF Disjoint, SetterInv
<1>9. \A d \in Callbacks : CallbackInv(d)'
  <2>1. CallbackInv(c)'
    BY <1>1, <1>2, <1>3, <1>5, <1>6 DEF CallbackInv, Reached
  <2>2. ASSUME NEW d \in Callbacks \ {c} PROVE CallbackInv(d)'
    <3>1. /\ d \in Registered' <=> d \in Registered
          /\ d \in imm' <=> d \in imm
          /\ d \in callbacks' <=> d \in callbacks
      BY <1>1, <1>6
    <3> QED
      BY <1>0, <1>2, <1>3, <3>1 DEF CallbackInv
  <2> QED
    BY <2>1, <2>2
<1>10. NoLostSignal'
  BY Zenon, <1>2 DEF IInv, NoLostSignal
<1>11. Promise!Register(c, l)
  <2>1. Registered' = Registered \cup {c}
    BY <1>6
  <2> QED
    BY <1>1, <1>2, <2>1 DEF Promise!Register
<1> QED
  BY <1>7, <1>8, <1>9, <1>10, <1>11 DEF IInv

(* cl_event_wait_for leaves the callbacks alone.                           *)
LEMMA WaitForStep ==
  ASSUME IInv, NEW w \in Waiters, WaitFor(w)
  PROVE  IInv' /\ Registered' = Registered
<1>0. TypeOK /\ Disjoint /\ (\A d \in Callbacks : CallbackInv(d)) /\ (\A q \in Setters : SetterInv(q))
  BY DEF IInv
<1>1. UNCHANGED <<status, callbacks, active, st, tmp, imm, level, calls, told>>
  BY DEF WaitFor
<1>2. PICK g \in Goals : IF status > g
         THEN asleep' = asleep \cup {<<w, g>>} /\ UNCHANGED back
         ELSE back' = back \cup {w} /\ UNCHANGED asleep
  BY DEF WaitFor
<1>3. Registered' = Registered
  BY <1>1 DEF Registered
<1>4. TypeOK'
  BY <1>0, <1>1, <1>2 DEF TypeOK
<1>5. Disjoint' /\ \A q \in Setters : SetterInv(q)'
  BY <1>0, <1>1 DEF Disjoint, SetterInv
<1>6. \A d \in Callbacks : CallbackInv(d)'
  BY <1>0, <1>1, <1>3 DEF CallbackInv
<1>7. NoLostSignal'
  <2>1. status \in Int /\ \A x \in Goals : x \in Int
    BY <1>0 DEF TypeOK
  <2>2. SUFFICES ASSUME NEW v \in Waiters, NEW x \in Goals, <<v, x>> \in asleep', status <= x
                 PROVE  active # {}
    BY Zenon, <1>1 DEF NoLostSignal
  <2>3. <<v, x>> \in asleep
    BY <1>2, <2>1, <2>2
  <2> QED
    BY Zenon, <2>2, <2>3 DEF IInv, NoLostSignal
<1> QED
  BY <1>3, <1>4, <1>5, <1>6, <1>7 DEF IInv

-----------------------------------------------------------------------------

(* Every step keeps the invariant and is a step of the promise or a        *)
(* stutter.                                                                *)
LEMMA InvStep ==
  ASSUME IInv, [Next]_vars
  PROVE  IInv' /\ [Promise!Next]_(Promise!vars)
<1>1. CASE UNCHANGED vars
  <2>1. IInv'
    BY <1>1 DEF vars, IInv, TypeOK, Disjoint, CallbackInv, SetterInv, NoLostSignal, Registered
  <2>2. UNCHANGED Promise!vars
    BY <1>1 DEF vars, Promise!vars, Registered
  <2> QED
    BY <2>1, <2>2
<1>2. ASSUME NEW p \in Setters, SetStatus(p) PROVE IInv' /\ Promise!Next
  BY <1>2, SetStatusStep DEF Promise!Next, Promise!Status
<1>3. ASSUME NEW p \in Setters, CallOne(p) PROVE IInv' /\ Promise!Next
  BY <1>3, CallOneStep DEF Promise!Next
<1>4. ASSUME NEW p \in Setters, Merge(p) PROVE IInv' /\ UNCHANGED Promise!vars
  <2>1. UNCHANGED <<status, level, told>>
    BY <1>4 DEF Merge
  <2> QED
    BY <1>4, <2>1, MergeStep DEF Promise!vars
<1>5. ASSUME NEW c \in Callbacks, SetCallback(c) PROVE IInv' /\ Promise!Next
  BY <1>5, SetCallbackStep DEF Promise!Next, Promise!Levels
<1>6. ASSUME NEW c \in Callbacks, CallNow(c) PROVE IInv' /\ Promise!Next
  BY <1>6, CallNowStep DEF Promise!Next
<1>7. ASSUME NEW w \in Waiters, WaitFor(w) PROVE IInv' /\ UNCHANGED Promise!vars
  <2>1. UNCHANGED <<status, level, told>>
    BY <1>7 DEF WaitFor
  <2> QED
    BY <1>7, <2>1, WaitForStep DEF Promise!vars
<1> QED
  BY <1>1, <1>2, <1>3, <1>4, <1>5, <1>6, <1>7 DEF Next

(* The invariant holds in every state of every execution.                  *)
LEMMA Invariant == Spec => []IInv
<1>1. Init => IInv
  BY InvInit
<1>2. IInv /\ [Next]_vars => IInv'
  BY InvStep
<1> QED
  BY <1>1, <1>2, PTL DEF Spec

(* However many threads set statuses and register callbacks, no callback   *)
(* of cl_event_set_status or cl_event_set_callback is called twice.        *)
THEOREM CalledOnceTheorem == Spec => []CalledOnce
<1>1. IInv => CalledOnce
  BY DEF IInv, CallbackInv, CalledOnce
<1> QED
  BY <1>1, Invariant, PTL

(* A callback whose status is reached is never left on the event's list    *)
(* without a thread that will call it.                                     *)
THEOREM NoneStrandedTheorem == Spec => []NoneStranded
<1>1. ASSUME IInv PROVE NoneStranded
  <2>1. SUFFICES ASSUME NEW c \in Callbacks, level[c] # Unset, calls[c] = 0, status <= level[c]
                 PROVE  c \in imm \/ \E p \in active : c \in tmp[p]
    BY DEF NoneStranded
  <2>2. c \in Registered /\ (c \in callbacks => level[c] < status)
    BY <1>1, <2>1 DEF IInv, CallbackInv
  <2>3. level[c] \in Levels /\ status \in Status
    BY <1>1, <2>1 DEF IInv, TypeOK
  <2>4. c \in imm \/ \E p \in Setters : c \in tmp[p]
    BY <2>1, <2>2, <2>3, RegisteredDef
  <2> QED
    BY <1>1, <2>4 DEF IInv, SetterInv
<1> QED
  BY <1>1, Invariant, PTL

(* No waiter sleeps through the status it waits for.                       *)
THEOREM NoLostSignalTheorem == Spec => []NoLostSignal
<1>1. IInv => NoLostSignal
  BY DEF IInv
<1> QED
  BY <1>1, Invariant, PTL

(* The lists of cl_event_set_status and cl_event_set_callback implement    *)
(* the promise of clSetEventCallback (its safety part).                    *)
THEOREM PromiseTheorem == Spec => Promise!Safe
<1>1. Init => Promise!Init
  <2>1. SUFFICES ASSUME Init PROVE Promise!Init
    OBVIOUS
  <2>2. \A c : c \notin Registered
    BY <2>1, RegisteredDef DEF Init
  <2>3. Registered = {}
    BY <2>2
  <2> QED
    BY <2>1, <2>3 DEF Init, Promise!Init
<1>2. IInv /\ [Next]_vars => [Promise!Next]_(Promise!vars)
  BY InvStep
<1> QED
  BY <1>1, <1>2, Invariant, PTL DEF Spec, Promise!Safe

=============================================================================
