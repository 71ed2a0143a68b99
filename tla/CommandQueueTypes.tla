------------------------- MODULE CommandQueueTypes --------------------------
(***************************************************************************)
(* Type correctness of CommandQueue: the control invariant, which says     *)
(* which locals are set at which label, is kept by every step.  Then what  *)
(* every step leaves alone, on which the proofs about wait lists rest.     *)
(***************************************************************************)
EXTENDS CommandQueueCalls

USE SMTT(30) DEF At, evVars, qVars, ctxVars, appVars

-----------------------------------------------------------------------------
(* The entry points of the calls.                                          *)
LEMMA AppStepType ==
  ASSUME TypeOK, ControlOK, NEW t \in Threads, AppStep(t)
  PROVE  TypeOK' /\ ControlOK'
<1>t. t \in Procs /\ t \notin Queues /\ Queues \subseteq Procs
  BY ConstantsOK DEF Procs
<1>f. f \in [Procs -> Frames]
  BY DEF TypeOK
<1>n. COMPLETE \in COMPLETE .. QUEUED /\ SUBMITTED \in COMPLETE .. QUEUED
      /\ COMPLETE \in Status /\ SUBMITTED \in Status /\ ERROR \in Status
  BY DEF COMPLETE, SUBMITTED, QUEUED, Status, ERROR, UNKNOWN
<1>w. \A wl \in WaitLists : wl \subseteq Events
  BY DEF WaitLists, TypeOK
<1>h. holds[t] \subseteq Queues
  BY DEF TypeOK
<1>u. \A g \in Frames : [f EXCEPT ![t] = g] \in [Procs -> Frames]
  BY <1>t, <1>f
<1>1. CASE clCreateUserEvent(t)
  <2>1. New \in Events
    BY Zenon, <1>1 DEF clCreateUserEvent, HasNew, New, Free
  <2>2. /\ kind' \in [Events -> CommandKinds \cup {"none", "user"}]
        /\ issued' \subseteq Events
    BY <1>1, <2>1 DEF TypeOK, clCreateUserEvent
  <2>3. status' \in [Events -> Status]
    BY Zenon, <1>1, <1>n DEF TypeOK, clCreateUserEvent
  <2>4. ControlOK'
    BY Zenon, <1>1 DEF clCreateUserEvent, ControlOK, ThreadControl, WorkerControl, HasEvent, HasQueue
  <2> QED
    BY <1>1, <2>2, <2>3, <2>4 DEF TypeOK, clCreateUserEvent
<1>2. CASE clSetUserEventStatus(t)
  <2>1. PICK e \in issued, s \in {COMPLETE, ERROR} :
          /\ SetStatus(e, s)
          /\ f' = [f EXCEPT ![t] = [Idle EXCEPT !.pc = AfterStatus(e), !.ret = "done",
                                                !.kind = "set", !.e = e]]
    BY Zenon, <1>2 DEF clSetUserEventStatus
  <2> DEFINE g == [Idle EXCEPT !.pc = AfterStatus(e), !.ret = "done", !.kind = "set", !.e = e]
  <2>2. e \in Events
    BY DEF TypeOK
  <2>3. g \in Frames /\ g.pc \in {"rmbar", "disable"} /\ g.ret = "done" /\ g.e = e
    BY Zenon, <2>2, <1>n DEF Idle, AfterStatus, Frames, Labels
  <2>4. f' = [f EXCEPT ![t] = g]
    BY <2>1
  <2> HIDE DEF g
  <2>5. f' \in [Procs -> Frames] /\ f'[t] = g /\ \A r \in Procs \ {t} : f'[r] = f[r]
    BY <2>3, <2>4, <1>t, <1>f
  <2>6. /\ status' \in [Events -> Status]
        /\ asleep' \in [Procs -> Events \cup Queues \cup {Ctx, None}]
    BY <2>1, <2>2, <1>n, SetStatusType
  <2>7. ThreadControl(t)'
    BY <2>2, <2>3, <2>5 DEF ThreadControl, EventLabels, ExecLabels, QueueLabels, HasEvent, HasQueue
  <2> QED
    BY <1>2, <1>t, <2>5, <2>6, <2>7, ControlLocal DEF TypeOK, clSetUserEventStatus
<1>3. CASE clEnqueue(t)
  <2>1. PICK k \in CommandKinds, q \in holds[t], wl \in WaitLists, b \in Blocking :
          f' = [f EXCEPT ![t] = EnqueueFrame(k, q, wl, b)]
    BY Zenon, <1>3 DEF clEnqueue
  <2> DEFINE g == EnqueueFrame(k, q, wl, b)
             now == IF k = "nd" THEN cl_command_queue_allow_bypass_submit(q) ELSE b
             l == IF k \in WaitAll THEN "record" ELSE "create"
  <2>2. now \in BOOLEAN
    BY Zenon, ConstantsOK DEF cl_command_queue_allow_bypass_submit
  <2>3. l \in Labels /\ l \in {"record", "create"} /\ "idle" \in Labels
    BY DEF Labels
  <2>4. wl \in SUBSET Events /\ q \in Queues /\ issued \in SUBSET Events
    BY <1>w, <1>h DEF TypeOK
  <2>5. g = [pc |-> l, e |-> None, q |-> q, kind |-> k, to |-> COMPLETE,
             ret |-> "idle", todo |-> wl, flag |-> now, since |-> issued]
    BY DEF EnqueueFrame
  <2> HIDE DEF g, now, l
  <2>6. g \in Frames
    BY <2>2, <2>3, <2>4, <2>5, <1>n DEF Frames
  <2>7. f' \in [Procs -> Frames] /\ f'[t] = g /\ \A r \in Procs \ {t} : f'[r] = f[r]
    BY <2>1, <2>6, <1>t, <1>f DEF g
  <2>8. g.pc \in {"record", "create"} /\ g.kind \in CommandKinds /\ g.q \in Queues /\ g.todo \subseteq Events
    BY <2>3, <2>4, <2>5
  <2>9. ThreadControl(t)'
    BY <2>7, <2>8 DEF ThreadControl, EventLabels, ExecLabels, QueueLabels, HasEvent, HasQueue
  <2> QED
    BY <1>3, <1>t, <2>7, <2>9, ControlLocal DEF TypeOK, clEnqueue
<1>4. CASE clFlushOrFinish(t)
  <2>1. PICK c \in SyncCalls, q \in holds[t] :
          f' = [f EXCEPT ![t] =
            [Idle EXCEPT !.pc = "sync", !.kind = c, !.q = q, !.since = issued, !.ret = "done",
                         !.to = IF c = "flush" THEN SUBMITTED ELSE COMPLETE]]
    BY Zenon, <1>4 DEF clFlushOrFinish
  <2> DEFINE g == [Idle EXCEPT !.pc = "sync", !.kind = c, !.q = q, !.since = issued, !.ret = "done",
                         !.to = IF c = "flush" THEN SUBMITTED ELSE COMPLETE]
  <2>2. f' = [f EXCEPT ![t] = g]
    BY <2>1
  <2>3. g \in Frames
    BY ZenonT(60), <1>n, <1>h DEF Idle, Frames, Labels, TypeOK
  <2>4. g.pc = "sync" /\ g.q \in Queues /\ g.ret = "done"
    BY <1>h DEF Idle
  <2> HIDE DEF g
  <2>5. f' \in [Procs -> Frames] /\ f'[t] = g /\ \A r \in Procs \ {t} : f'[r] = f[r]
    BY <2>2, <2>3, <1>t, <1>f
  <2>6. ThreadControl(t)'
    BY <2>4, <2>5 DEF ThreadControl, EventLabels, ExecLabels, QueueLabels, HasEvent, HasQueue
  <2> QED
    BY <1>4, <1>t, <2>5, <2>6, ControlLocal DEF TypeOK, clFlushOrFinish
<1>5. CASE clWaitForEvents(t)
  <2>1. PICK wl \in WaitLists \ {{}} :
          f' = [f EXCEPT ![t] =
            [Idle EXCEPT !.pc = "await", !.kind = "wait", !.todo = wl, !.ret = "done"]]
    BY Zenon, <1>5 DEF clWaitForEvents
  <2> DEFINE g == [Idle EXCEPT !.pc = "await", !.kind = "wait", !.todo = wl, !.ret = "done"]
  <2>2. f' = [f EXCEPT ![t] = g]
    BY <2>1
  <2>3. g \in Frames
    BY Zenon, <1>n, <1>w DEF Idle, Frames, Labels
  <2>4. g.pc = "await" /\ g.todo \subseteq Events /\ g.ret = "done"
    BY <1>w DEF Idle
  <2> HIDE DEF g
  <2>5. f' \in [Procs -> Frames] /\ f'[t] = g /\ \A r \in Procs \ {t} : f'[r] = f[r]
    BY <2>2, <2>3, <1>t, <1>f
  <2>6. ThreadControl(t)'
    BY <2>4, <2>5 DEF ThreadControl, EventLabels, ExecLabels, QueueLabels, HasEvent, HasQueue
  <2> QED
    BY <1>5, <1>t, <2>5, <2>6, ControlLocal DEF TypeOK, clWaitForEvents
<1>6. CASE clCreateCommandQueue(t)
  <2>1. PICK q \in Queues :
          /\ f' = [f EXCEPT ![q] = Idle, ![t] = [Idle EXCEPT !.pc = "addqueue", !.q = q]]
          /\ ref' = [ref EXCEPT ![q] = 1]
    BY Zenon, <1>6 DEF clCreateCommandQueue
  <2> DEFINE g == [Idle EXCEPT !.pc = "addqueue", !.q = q]
  <2>2. Idle \in Frames /\ g \in Frames
    BY Zenon, <1>n DEF Idle, Frames, Labels
  <2>3. g.pc = "addqueue" /\ g.q = q /\ Idle.pc = "idle"
    BY DEF Idle
  <2>4. f' = [[f EXCEPT ![q] = Idle] EXCEPT ![t] = g]
    BY <2>1
  <2> HIDE DEF g
  <2>5. /\ f' \in [Procs -> Frames] /\ f'[t] = g /\ f'[q] = Idle
        /\ \A r \in Procs \ {t, q} : f'[r] = f[r]
    BY <2>2, <2>4, <1>t, <1>f
  <2>6. ThreadControl(t)' /\ WorkerControl(q)'
    BY <2>3, <2>5 DEF ThreadControl, WorkerControl, WorkerLabels,
       EventLabels, ExecLabels, QueueLabels, HasEvent, HasQueue
  <2>7. ControlOK'
    BY <2>5, <2>6, ControlLocal2
  <2>8. ref' \in [Queues -> Int]
    BY <2>1 DEF TypeOK
  <2>9. UNCHANGED <<evVars, enq, barriers, batch, at, seen, inExec, quit, ctxVars, asleep, appVars>>
    BY <1>6 DEF clCreateCommandQueue
  <2> QED
    BY <2>5, <2>7, <2>8, <2>9 DEF TypeOK
<1>7. CASE clReleaseCommandQueue(t)
  <2>1. PICK q \in holds[t] :
          /\ holds' = [holds EXCEPT ![t] = @ \ {q}]
          /\ f' = [f EXCEPT ![t] =
               [Idle EXCEPT !.pc = "sync", !.kind = "release", !.q = q, !.since = issued,
                            !.to = SUBMITTED, !.ret = "unref"]]
    BY Zenon, <1>7 DEF clReleaseCommandQueue
  <2> DEFINE g == [Idle EXCEPT !.pc = "sync", !.kind = "release", !.q = q, !.since = issued,
                               !.to = SUBMITTED, !.ret = "unref"]
  <2>2. f' = [f EXCEPT ![t] = g]
    BY <2>1
  <2>3. g \in Frames
    BY Zenon, <1>n, <1>h DEF Idle, Frames, Labels, TypeOK
  <2>4. g.pc = "sync" /\ g.q \in Queues /\ g.ret = "unref"
    BY <1>h DEF Idle
  <2> HIDE DEF g
  <2>5. f' \in [Procs -> Frames] /\ f'[t] = g /\ \A r \in Procs \ {t} : f'[r] = f[r]
    BY <2>2, <2>3, <1>t, <1>f
  <2>6. ThreadControl(t)'
    BY <2>4, <2>5 DEF ThreadControl, EventLabels, ExecLabels, QueueLabels, HasEvent, HasQueue
  <2>7. holds' \in [Threads -> SUBSET Queues]
    BY <2>1 DEF TypeOK
  <2> QED
    BY <1>7, <1>t, <2>5, <2>6, <2>7, ControlLocal DEF TypeOK, clReleaseCommandQueue
<1> QED
  BY <1>1, <1>2, <1>3, <1>4, <1>5, <1>6, <1>7 DEF AppStep

-----------------------------------------------------------------------------
(* Every reachable state has the types and the control invariant.          *)

(* The initial state has the types, and every process is idle.             *)
LEMMA TypeInit ==
  ASSUME Init
  PROVE  TypeOK /\ ControlOK
<1>n. COMPLETE \in COMPLETE .. QUEUED /\ UNKNOWN \in Status
  BY DEF COMPLETE, QUEUED, Status, ERROR, UNKNOWN
<1>1. Idle \in Frames /\ [Idle EXCEPT !.pc = "none"] \in Frames
  BY Zenon, <1>n DEF Idle, Frames, Labels
<1>2. Idle.pc = "idle" /\ [Idle EXCEPT !.pc = "none"].pc = "none"
  BY DEF Idle
<1>3. f \in [Procs -> Frames]
  BY <1>1 DEF Init
<1>4. ref \in [Queues -> Int]
  <2> DEFINE n == Cardinality(Threads \ Hosts)
  <2>1. n \in Nat
    BY ConstantsOK
  <2>2. ref = [q \in Queues |-> IF q \in InitQueues THEN n ELSE 0]
    BY DEF Init
  <2> HIDE DEF n
  <2> QED
    BY <2>1, <2>2
<1>5. enq \in [Queues -> Seq(Events)] /\ batch \in [Queues -> Seq(Events)]
  BY DEF Init
<1>6. ControlOK
  <2>1. \A t \in Threads : f[t].pc = "idle"
    BY <1>2, ConstantsOK DEF Init, Procs
  <2>2. \A q \in Queues : f[q].pc \in {"idle", "none"}
    BY <1>2 DEF Init, Procs
  <2> QED
    BY <2>1, <2>2 DEF ControlOK, ThreadControl, WorkerControl, WorkerLabels,
       EventLabels, ExecLabels, QueueLabels
<1>7. inExec \in [Queues -> COMPLETE .. QUEUED] /\ status \in [Events -> Status]
  BY <1>n DEF Init
<1>8. /\ kind \in [Events -> CommandKinds \cup {"none", "user"}]
      /\ queue \in [Events -> Queues \cup {None}]
      /\ deps \in [Events -> SUBSET Events]
      /\ needs \in [Events -> SUBSET Events]
      /\ prior \in [Events -> SUBSET Events]
      /\ barriers \in [Queues -> SUBSET Events]
  BY DEF Init
<1>9. /\ at \in [Queues -> Nat \ {0}] /\ seen \in [Queues -> BOOLEAN]
      /\ quit \in [Queues -> BOOLEAN] /\ listed \subseteq Queues /\ disable \in Int
  BY ConstantsOK DEF Init
<1>10. /\ asleep \in [Procs -> Events \cup Queues \cup {Ctx, None}]
       /\ holds \in [Threads -> SUBSET Queues] /\ issued \subseteq Events
  BY ConstantsOK DEF Init
<1> QED
  BY <1>3, <1>4, <1>5, <1>6, <1>7, <1>8, <1>9, <1>10 DEF TypeOK

(* Every step keeps the types and the control invariant.                   *)
LEMMA TypeStep ==
  ASSUME TypeOK, ControlOK, [Next]_vars
  PROVE  TypeOK' /\ ControlOK'
<1>1. CASE UNCHANGED vars
  BY Zenon, <1>1 DEF vars, TypeOK, ControlOK, ThreadControl, WorkerControl, HasEvent, HasQueue
<1>2. CASE \E t \in Threads : CallStep(t)
  BY <1>2, EventStepType, CallStepType1, CallStepType2, CallStepType3 DEF CallStep, Procs
<1>3. CASE \E t \in Threads : AppStep(t)
  BY <1>3, AppStepType
<1>4. CASE \E q \in Queues : WorkerStep(q)
  BY <1>4, WorkerStepType
<1> QED
  BY <1>1, <1>2, <1>3, <1>4 DEF Next

(* In every state of every execution the variables have the types of the   *)
(* fields and locals they stand for, for any number of threads, queues and *)
(* events.                                                                 *)
THEOREM TypeCorrect == Spec => []TypeOK
<1>1. Init => TypeOK /\ ControlOK
  BY TypeInit
<1>2. TypeOK /\ ControlOK /\ [Next]_vars => (TypeOK /\ ControlOK)'
  BY TypeStep
<1> QED
  BY <1>1, <1>2, PTL DEF Spec

-----------------------------------------------------------------------------
(* What every step leaves alone.                                           *)

StatusKeep == \A e \in Events : Created(e) /\ status'[e] # status[e] =>
                status[e] > COMPLETE /\ status'[e] < status[e]

CreatedKeep == \A e \in Events : Created(e) =>
                 kind'[e] = kind[e] /\ needs'[e] = needs[e] /\ deps'[e] \subseteq deps[e]

FreeKeep == \A e \in Events : kind'[e] \in {"none", "user"} =>
              /\ kind[e] \in {"none", "user"} /\ needs'[e] = needs[e]
              /\ kind'[e] = "none" => status'[e] = status[e]

Keep == StatusKeep /\ CreatedKeep /\ FreeKeep

(* A dependency that is final stays final.                                 *)
LEMMA FinalKeep ==
  ASSUME TypeOK, \A e \in Events : EventInv(e), Keep, NEW e \in Events, status[e] <= COMPLETE
  PROVE  status'[e] = status[e]
<1>1. Created(e)
  BY DEF EventInv, UNKNOWN, COMPLETE
<1>2. status[e] \in Status
  BY DEF TypeOK
<1> QED
  BY <1>1, <1>2 DEF Keep, StatusKeep, COMPLETE, Status, ERROR, UNKNOWN

(* An event that has no unfinished dependency never has one again.         *)
LEMMA PendingKeep ==
  ASSUME TypeOK, \A e \in Events : EventInv(e), Keep,
         NEW e \in Events, Created(e), ~Pending(e)
  PROVE  ~Pending(e)'
<1>1. SUFFICES ASSUME NEW d \in deps'[e], status'[d] > COMPLETE
               PROVE  FALSE
  BY DEF Pending
<1>2. d \in deps[e] /\ d \in Events
  BY DEF Keep, CreatedKeep, TypeOK
<1>3. status[d] \in Status /\ ~(status[d] > COMPLETE)
  BY <1>2 DEF Pending, TypeOK
<1>4. status[d] <= COMPLETE
  BY <1>3 DEF Status, ERROR, UNKNOWN, COMPLETE
<1>5. status'[d] = status[d]
  BY Zenon, <1>2, <1>4, FinalKeep
<1> QED
  BY <1>1, <1>3, <1>5

(* Steps that do not touch a frame, or a list, keep its invariant.         *)
LEMMA FrameKeep ==
  ASSUME TypeOK, ControlOK, DepsInv, Keep, NEW p \in Procs, f'[p] = f[p]
  PROVE  FrameInv(p)'
<1> DEFINE e == f[p].e
<1>1. FrameInv(p) /\ \A x \in Events : EventInv(x)
  BY DEF DepsInv
<1>2. /\ f[p].pc \in EventLabels => e \in Events
      /\ f[p].pc \in {"sync", "syncwait", "await"} /\ f[p].ret \in {"decide", "flush"} => e \in Events
  BY DEF ControlOK, ThreadControl, WorkerControl, WorkerLabels, EventLabels, ExecLabels, HasEvent, Procs
<1>3. \A x \in Events : Created(x) => Created(x)'
  BY DEF Keep, CreatedKeep, Created
<1>4. {"exec", "insbar", "step"} \subseteq EventLabels
  BY DEF EventLabels, ExecLabels
<1>5. f[p].pc = "exec" /\ f[p].to < SUBMITTED => ~Pending(e)'
  BY <1>1, <1>2, <1>4, PendingKeep DEF FrameInv
<1>6. f[p].pc = "insbar" /\ f[p].ret = "exec" => ~Pending(e)'
  BY <1>1, <1>2, <1>4, PendingKeep DEF FrameInv
<1>7. f[p].pc = "step" /\ f[p].to < SUBMITTED => \A d \in needs'[e] : status'[d] = COMPLETE
  <2>1. SUFFICES ASSUME f[p].pc = "step", f[p].to < SUBMITTED, NEW d \in needs'[e]
                 PROVE  status'[d] = COMPLETE
    OBVIOUS
  <2>2. e \in Events /\ Created(e)
    BY <1>1, <1>2, <1>4, <2>1 DEF FrameInv
  <2>3. d \in needs[e] /\ d \in Events
    BY <2>2 DEF Keep, CreatedKeep, TypeOK
  <2>4. status[d] = COMPLETE
    BY <1>1, <2>1, <2>3 DEF FrameInv
  <2> QED
    BY <1>1, <2>3, <2>4, FinalKeep DEF COMPLETE
<1>8. e' = e
  OBVIOUS
<1> HIDE DEF e
<1> QED
  BY Zenon, <1>1, <1>2, <1>3, <1>5, <1>6, <1>7, <1>8 DEF FrameInv, e

(* A list of events the step leaves alone keeps its invariant.             *)
LEMMA ListKeep ==
  ASSUME TypeOK, DepsInv, Keep, NEW q \in Queues, UNCHANGED <<enq[q], batch[q]>>
  PROVE  ListInv(q)'
<1>1. ListInv(q) /\ \A x \in Events : EventInv(x)
  BY DEF DepsInv
<1>2. /\ \A i \in DOMAIN enq[q] : enq[q][i] \in Events
      /\ \A i \in DOMAIN batch[q] : batch[q][i] \in Events
  BY DEF TypeOK
<1>3. \A x \in Events : Created(x) => Created(x)'
  BY DEF Keep, CreatedKeep, Created
<1>4. \A i \in DOMAIN batch[q] : ~Pending(batch[q][i])'
  BY <1>1, <1>2, PendingKeep DEF ListInv
<1> QED
  BY <1>1, <1>2, <1>3, <1>4 DEF ListInv

(* Steps that leave the events alone.                                      *)
LEMMA QuietKeep ==
  ASSUME TypeOK, DepsInv, UNCHANGED <<status, kind, deps, needs>>
  PROVE  Keep /\ \A e \in Events : EventInv(e)'
<1>1. Keep
  BY DEF Keep, StatusKeep, CreatedKeep, FreeKeep
<1>2. \A e \in Events : EventInv(e)'
  BY DEF DepsInv, EventInv, Created, Started
<1> QED
  BY <1>1, <1>2

(* A step of p alone that leaves the lists alone.                          *)
LEMMA DepsLocal ==
  ASSUME TypeOK, ControlOK, DepsInv, Keep, \A e \in Events : EventInv(e)',
         NEW p \in Procs, FrameInv(p)', \A r \in Procs \ {p} : f'[r] = f[r],
         UNCHANGED <<enq, batch>>
  PROVE  DepsInv'
<1>1. \A r \in Procs : FrameInv(r)'
  BY FrameKeep
<1>2. \A q \in Queues : ListInv(q)'
  BY ListKeep
<1> QED
  BY <1>1, <1>2 DEF DepsInv

(* A status change allowed by cl_event_set_status.                         *)
LEMMA SetStatusKeep ==
  ASSUME TypeOK, DepsInv, NEW e \in Events, Created(e), NEW s \in Status, SetStatus(e, s),
         UNCHANGED <<kind, needs>>, \A x \in Events : deps'[x] \subseteq deps[x]
  PROVE  Keep /\ status'[e] = (IF MaySet(e, s) THEN s ELSE status[e])
              /\ \A x \in Events \ {e} : status'[x] = status[x]
<1>1. /\ status'[e] = (IF MaySet(e, s) THEN s ELSE status[e])
      /\ \A x \in Events \ {e} : status'[x] = status[x]
  BY DEF TypeOK, SetStatus
<1>2. StatusKeep
  BY <1>1 DEF StatusKeep, MaySet
<1>3. CreatedKeep
  BY DEF CreatedKeep
<1>4. FreeKeep
  BY <1>1 DEF FreeKeep, Created
<1> QED
  BY Zenon, <1>1, <1>2, <1>3, <1>4 DEF Keep

=============================================================================
