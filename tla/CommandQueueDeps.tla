-------------------------- MODULE CommandQueueDeps --------------------------
(***************************************************************************)
(* The wait lists of CommandQueue, first part: the steps of                *)
(* cl_event_exec and of the worker keep the invariant DepsInv.             *)
(***************************************************************************)
EXTENDS CommandQueueTypes

USE SMTT(30) DEF At, evVars, qVars, ctxVars, appVars

-----------------------------------------------------------------------------
(* cl_event_exec and cl_event_set_status.                                  *)

(* cl_event_exec records that an event may run, or fails it because an     *)
(* event it waits for has failed.                                          *)
LEMMA ExecEnterDeps ==
  ASSUME TypeOK, ControlOK, DepsInv, NEW p \in Procs, ExecEnter(p)
  PROVE  Keep /\ DepsInv'
<1> PICK e \in Events : e = f[p].e
  BY DEF ControlOK, ThreadControl, WorkerControl, EventLabels, ExecLabels, HasEvent, Procs, ExecEnter
<1>0. /\ f \in [Procs -> Frames] /\ f[p] \in Frames /\ f[p].ret \in Labels
      /\ status \in [Events -> Status] /\ deps \in [Events -> SUBSET Events]
  BY DEF TypeOK, Frames
<1>1. EventInv(e) /\ FrameInv(p) /\ Created(e) /\ f[p].pc = "exec"
  BY DEF DepsInv, FrameInv, EventLabels, ExecLabels, ExecEnter
<1>2. UNCHANGED <<enq, batch, kind, needs>> /\ \A r \in Procs \ {p} : f'[r] = f[r]
  BY <1>0 DEF ExecEnter, Goto
<1>r. f[p].ret \in {"done", "fail", "enqueue", "submit", "run"}
  BY <1>1 DEF ControlOK, ThreadControl, WorkerControl, ExecLabels, Procs
<1>3. CASE status[e] < COMPLETE /\ Goto(p, f[p].ret) /\ UNCHANGED evVars
  <2>1. Keep /\ \A x \in Events : EventInv(x)'
    BY <1>2, <1>3, QuietKeep
  <2>2. f'[p].pc = f[p].ret /\ f'[p].e = e
    BY <1>3, <1>0 DEF Goto, Frames
  <2>3. FrameInv(p)'
    BY <1>1, <1>2, <1>r, <2>2 DEF FrameInv, EventLabels, ExecLabels, Created
  <2> QED
    BY <1>2, <2>1, <2>3, DepsLocal
<1>4. CASE /\ status[e] >= COMPLETE /\ Failed(e) /\ SetStatus(e, ERROR)
           /\ deps' = [deps EXCEPT ![e] = {}]
           /\ f'[p].pc \in {"rmbar", "disable", "fail", f[p].ret} /\ f'[p].e = e
  <2>1. ERROR \in Status
    BY DEF Status, ERROR, UNKNOWN
  <2>2. \A x \in Events : deps'[x] \subseteq deps[x]
    BY <1>0, <1>4
  <2>3. /\ Keep
        /\ status'[e] = (IF MaySet(e, ERROR) THEN ERROR ELSE status[e])
        /\ \A x \in Events \ {e} : status'[x] = status[x]
    BY <1>1, <1>2, <1>4, <2>1, <2>2, SetStatusKeep
  <2>4. \A x \in Events \ {e} : EventInv(x)'
    <3>1. SUFFICES ASSUME NEW x \in Events \ {e}
                   PROVE  EventInv(x)'
      OBVIOUS
    <3>2. EventInv(x) /\ UNCHANGED <<status[x], kind[x], needs[x], deps[x]>>
      BY <1>0, <1>2, <1>4, <2>3 DEF DepsInv
    <3>3. \A d \in needs[x] : status[d] = COMPLETE => status'[d] = COMPLETE
      BY <2>3, FinalKeep DEF TypeOK, DepsInv, COMPLETE
    <3> QED
      BY <3>2, <3>3 DEF EventInv, Created, Started
  <2>5. EventInv(e)'
    <3>1. ~(Created(e)') => FALSE
      BY <1>1, <1>2 DEF Created
    <3>2. kind'[e] \in {"none", "user"} => needs'[e] = {}
      BY <1>1, <1>2 DEF EventInv
    <3>3. status'[e] >= COMPLETE => \A d \in needs'[e] : status'[d] = COMPLETE
      <4>1. SUFFICES ASSUME status'[e] >= COMPLETE, NEW d \in needs[e]
                     PROVE  status'[d] = COMPLETE
        BY <1>2
      <4>2. status[e] = COMPLETE
        BY <1>4, <1>0, <2>3, <4>1 DEF MaySet, ERROR, COMPLETE, Status, UNKNOWN
      <4>3. status[d] = COMPLETE /\ d \in Events
        BY <1>1, <4>2 DEF EventInv, Started, TypeOK
      <4> QED
        BY <2>3, <4>3, FinalKeep DEF DepsInv, COMPLETE
    <3> QED
      BY <3>1, <3>2, <3>3 DEF EventInv, Started, COMPLETE, RUNNING
  <2>6. FrameInv(p)'
    BY <1>1, <1>2, <1>4, <1>r DEF FrameInv, EventLabels, ExecLabels, Created
  <2> QED
    BY <1>2, <2>3, <2>4, <2>5, <2>6, DepsLocal
<1>5. CASE /\ status[e] >= COMPLETE /\ ~Failed(e)
           /\ deps' = [deps EXCEPT ![e] = IF Ready(e) THEN {} ELSE @]
           /\ Goto(p, IF status[e] > f[p].to THEN "step" ELSE f[p].ret)
           /\ UNCHANGED <<status, kind, queue, asleep>>
  <2>1. \A x \in Events : deps'[x] \subseteq deps[x]
    BY <1>0, <1>5
  <2>2. Keep
    BY <1>2, <1>5, <2>1 DEF Keep, StatusKeep, CreatedKeep, FreeKeep
  <2>3. \A d \in needs[e] : d \in deps'[e] \/ status[d] = COMPLETE
    BY <1>0, <1>1, <1>5 DEF EventInv, Ready
  <2>4. \A x \in Events : EventInv(x)'
    BY Zenon, <1>0, <1>2, <1>5, <2>3 DEF DepsInv, EventInv, Created, Started
  <2>5. f'[p] = [f[p] EXCEPT !.pc = IF status[e] > f[p].to THEN "step" ELSE f[p].ret]
    BY <1>5, <1>0 DEF Goto
  <2>6. f'[p].pc \in {"step", f[p].ret} /\ f'[p].e = e /\ f'[p].to = f[p].to
    BY <2>5, <1>0 DEF Frames
  <2>7. f[p].to < SUBMITTED => \A d \in needs[e] : status[d] = COMPLETE
    <3>1. SUFFICES ASSUME f[p].to < SUBMITTED
                   PROVE  \A d \in needs[e] : status[d] = COMPLETE
      OBVIOUS
    <3>2. ~Pending(e)
      BY <1>1, <3>1 DEF FrameInv
    <3>3. \A d \in deps[e] : status[d] \in Status /\ ~(status[d] > COMPLETE) /\ ~(status[d] < COMPLETE)
      BY <3>2, <1>5, <1>0 DEF Pending, Failed
    <3>4. \A d \in deps[e] : status[d] = COMPLETE
      BY <3>3 DEF Status, ERROR, UNKNOWN, COMPLETE
    <3> QED
      BY <3>4, <1>1, <1>5 DEF EventInv
  <2>8. FrameInv(p)'
    BY Zenon, <1>1, <1>2, <1>5, <1>r, <2>6, <2>7 DEF FrameInv, EventLabels, ExecLabels, Created
  <2> QED
    BY <1>2, <2>2, <2>4, <2>8, DepsLocal
<1>6. \/ status[e] < COMPLETE /\ Goto(p, f[p].ret) /\ UNCHANGED evVars
      \/ /\ status[e] >= COMPLETE /\ Failed(e) /\ SetStatus(e, ERROR)
         /\ deps' = [deps EXCEPT ![e] = {}]
         /\ f'[p].pc \in {"rmbar", "disable", "fail", f[p].ret} /\ f'[p].e = e
      \/ /\ status[e] >= COMPLETE /\ ~Failed(e)
         /\ deps' = [deps EXCEPT ![e] = IF Ready(e) THEN {} ELSE @]
         /\ Goto(p, IF status[e] > f[p].to THEN "step" ELSE f[p].ret)
         /\ UNCHANGED <<status, kind, queue, asleep>>
  BY <1>0 DEF ExecEnter, AfterStatus, Frames
<1> QED
  BY <1>3, <1>4, <1>5, <1>6

(* A dependency that has completed stays complete.                         *)
LEMMA CompleteKeep ==
  ASSUME TypeOK, DepsInv, Keep, NEW e \in Events
  PROVE  \A d \in needs[e] : status[d] = COMPLETE => status'[d] = COMPLETE
<1>1. needs[e] \subseteq Events
  BY DEF TypeOK
<1>2. \A x \in Events : EventInv(x)
  BY DEF DepsInv
<1>3. ASSUME NEW d \in Events, status[d] = COMPLETE
      PROVE  status'[d] = COMPLETE
  <2>1. status[d] <= COMPLETE
    BY <1>3 DEF COMPLETE
  <2> QED
    BY <1>2, <1>3, <2>1, FinalKeep
<1> QED
  BY <1>1, <1>3

(* A status change of e keeps the invariant of the other events.           *)
LEMMA OtherEvents ==
  ASSUME TypeOK, DepsInv, Keep, NEW e \in Events, UNCHANGED <<kind, needs, deps>>,
         \A x \in Events \ {e} : status'[x] = status[x]
  PROVE  \A x \in Events \ {e} : EventInv(x)'
<1>1. SUFFICES ASSUME NEW x \in Events \ {e}
               PROVE  EventInv(x)'
  BY Zenon
<1>2. EventInv(x) /\ \A y \in Events : EventInv(y)
  BY DEF DepsInv
<1>3. \A d \in needs[x] : status[d] = COMPLETE => status'[d] = COMPLETE
  BY Zenon, CompleteKeep
<1> QED
  BY <1>2, <1>3 DEF EventInv, Created, Started

(* cl_event_set_status lowers the status of the event cl_event_exec runs,  *)
(* one level at a time.                                                    *)
LEMMA ExecStepDeps ==
  ASSUME TypeOK, ControlOK, DepsInv, NEW p \in Procs, ExecStep(p)
  PROVE  Keep /\ DepsInv'
<1> PICK e \in Events : e = f[p].e
  BY DEF ControlOK, ThreadControl, WorkerControl, EventLabels, ExecLabels, HasEvent, Procs, ExecStep
<1>0. /\ f \in [Procs -> Frames] /\ f[p] \in Frames /\ f[p].to \in COMPLETE .. QUEUED
      /\ status \in [Events -> Status] /\ status[e] \in Status
  BY DEF TypeOK, Frames
<1>1. /\ EventInv(e) /\ FrameInv(p) /\ Created(e) /\ f[p].pc = "step"
      /\ status[e] - 1 >= f[p].to
  BY DEF DepsInv, FrameInv, EventLabels, ExecLabels, ExecStep
<1>2. UNCHANGED <<enq, batch, kind, needs, deps>> /\ \A r \in Procs \ {p} : f'[r] = f[r]
  BY <1>0 DEF ExecStep, Goto
<1>r. f[p].ret \in {"done", "fail", "enqueue", "submit", "run"}
  BY <1>1 DEF ControlOK, ThreadControl, WorkerControl, ExecLabels, Procs
<1>3. PICK s \in {status[e] - 1, ERROR} : SetStatus(e, s)
  BY DEF ExecStep
<1>4. s \in Status /\ MaySet(e, s)
  BY <1>0, <1>1 DEF Status, MaySet, ERROR, UNKNOWN, COMPLETE, QUEUED
<1>5. Keep /\ status'[e] = s /\ \A x \in Events \ {e} : status'[x] = status[x]
  BY <1>1, <1>2, <1>3, <1>4, SetStatusKeep
<1>6. \A d \in needs[e] : status[d] = COMPLETE => status'[d] = COMPLETE
  BY <1>5, CompleteKeep
<1>7. s \in {COMPLETE, RUNNING} => f[p].to < SUBMITTED
  BY <1>0, <1>1 DEF COMPLETE, RUNNING, SUBMITTED, QUEUED, ERROR, Status, UNKNOWN
<1>8. EventInv(e)'
  <2>1. Created(e)'
    BY <1>1, <1>2 DEF Created
  <2>2. kind'[e] \in {"none", "user"} => needs'[e] = {}
    BY <1>1, <1>2 DEF EventInv
  <2>3. status[e] >= COMPLETE
    BY <1>0, <1>1 DEF COMPLETE, QUEUED, Status, ERROR, UNKNOWN
  <2>4. \A d \in needs'[e] : d \in deps'[e] \/ status'[d] = COMPLETE
    BY <1>1, <1>2, <1>6, <2>3 DEF EventInv
  <2>5. status'[e] \in {COMPLETE, RUNNING} => \A d \in needs'[e] : status'[d] = COMPLETE
    BY <1>1, <1>2, <1>5, <1>6, <1>7 DEF FrameInv
  <2> QED
    BY <2>1, <2>2, <2>4, <2>5 DEF EventInv, Started
<1>9. \A x \in Events : EventInv(x)'
  BY <1>2, <1>5, <1>8, OtherEvents
<1>10. f'[p].pc \in {"rmbar", "disable", "step", f[p].ret} /\ f'[p].e = e /\ f'[p].to = f[p].to
  BY <1>0 DEF ExecStep, Goto, AfterStatus, Frames
<1>11. FrameInv(p)'
  BY <1>1, <1>2, <1>6, <1>r, <1>10 DEF FrameInv, EventLabels, ExecLabels, Created
<1> QED
  BY <1>2, <1>5, <1>9, <1>11, DepsLocal

(* The rest of cl_event_set_status only moves the program counter.         *)
LEMMA NotifyDeps ==
  ASSUME TypeOK, ControlOK, DepsInv, NEW p \in Procs,
         RemoveBarrier(p) \/ DisableModify(p) \/ NotifyQueue(p) \/ EnableModify(p)
  PROVE  Keep /\ DepsInv'
<1>0. f \in [Procs -> Frames] /\ f[p] \in Frames
  BY DEF TypeOK
<1>1. FrameInv(p) /\ f[p].pc \in {"rmbar", "disable", "notify"} /\ Created(f[p].e)
  BY DEF DepsInv, FrameInv, EventLabels, ExecLabels, RemoveBarrier, DisableModify, NotifyQueue, EnableModify
<1>r. f[p].ret \in {"done", "fail", "enqueue", "submit", "run"}
  BY <1>1 DEF ControlOK, ThreadControl, WorkerControl, ExecLabels, Procs
<1>2. UNCHANGED <<enq, batch, status, kind, needs, deps>>
  BY DEF RemoveBarrier, DisableModify, NotifyQueue, EnableModify
<1>3. \A r \in Procs \ {p} : f'[r] = f[r]
  BY Zenon, <1>0 DEF RemoveBarrier, DisableModify, NotifyQueue, EnableModify, Goto
<1>4. f'[p].pc \in {"disable", "notify", f[p].ret} /\ f'[p].e = f[p].e
  <2>1. CASE RemoveBarrier(p)
    BY <2>1, <1>0 DEF RemoveBarrier, Goto, Frames
  <2>2. CASE DisableModify(p)
    BY <2>2, <1>0 DEF DisableModify, Frames
  <2>3. CASE NotifyQueue(p)
    BY <2>3, <1>0, <1>1 DEF NotifyQueue, Frames
  <2>4. CASE EnableModify(p)
    BY <2>4, <1>0 DEF EnableModify, Goto, Frames
  <2> QED
    BY <2>1, <2>2, <2>3, <2>4
<1>5. FrameInv(p)'
  BY <1>1, <1>r, <1>2, <1>4 DEF FrameInv, EventLabels, ExecLabels, Created
<1> QED
  BY <1>2, <1>3, <1>5, QuietKeep, DepsLocal

(* Every step inside cl_event_exec and cl_event_set_status.                *)
LEMMA EventStepDeps ==
  ASSUME TypeOK, ControlOK, DepsInv, NEW p \in Procs, EventStep(p)
  PROVE  Keep /\ DepsInv'
BY ExecEnterDeps, ExecStepDeps, NotifyDeps DEF EventStep

(* A frame that holds no event promises nothing about one.                 *)
LEMMA FrameVoid ==
  ASSUME NEW p \in Procs, f'[p].pc \notin EventLabels,
         f'[p].pc \in {"sync", "syncwait", "await"} => f'[p].ret \notin {"decide", "flush"}
  PROVE  FrameInv(p)'
BY DEF FrameInv, EventLabels, ExecLabels

(* A step of the worker of q that leaves the events alone.                 *)
LEMMA WorkerLocal ==
  ASSUME TypeOK, ControlOK, DepsInv, NEW q \in Queues, UNCHANGED <<status, kind, deps, needs>>,
         FrameInv(q)', ListInv(q)',
         \A r \in Procs \ {q} : f'[r] = f[r],
         \A r \in Queues \ {q} : enq'[r] = enq[r] /\ batch'[r] = batch[r]
  PROVE  Keep /\ DepsInv'
<1>1. Keep /\ \A e \in Events : EventInv(e)'
  BY QuietKeep
<1>2. \A r \in Procs : FrameInv(r)'
  BY <1>1, FrameKeep
<1>3. \A r \in Queues : ListInv(r)'
  BY <1>1, ListKeep
<1> QED
  BY <1>1, <1>2, <1>3 DEF DepsInv

(* What the elements of an extended list are.                              *)
LEMMA AppendElements ==
  ASSUME NEW S, NEW s \in Seq(S), NEW x \in S
  PROVE  \A j \in DOMAIN Append(s, x) :
           Append(s, x)[j] = x \/ (j \in DOMAIN s /\ Append(s, x)[j] = s[j])
<1>1. Len(s) \in Nat /\ DOMAIN s = 1 .. Len(s) /\ DOMAIN Append(s, x) = 1 .. Len(s) + 1
  OBVIOUS
<1>2. Append(s, x)[Len(s) + 1] = x /\ \A j \in 1 .. Len(s) : Append(s, x)[j] = s[j]
  OBVIOUS
<1>3. \A j \in 1 .. Len(s) + 1 : j = Len(s) + 1 \/ j \in 1 .. Len(s)
  BY <1>1
<1> QED
  BY <1>1, <1>2, <1>3

(* A ready list that is left alone or emptied.                             *)
LEMMA ListQuiet ==
  ASSUME NEW q \in Queues, ListInv(q), UNCHANGED <<status, kind, deps, enq>>,
         batch'[q] = batch[q] \/ batch'[q] = <<>>
  PROVE  ListInv(q)'
<1>1. (\A i \in DOMAIN enq[q] : Created(enq[q][i]))'
  BY DEF ListInv, Created
<1>2. CASE batch'[q] = batch[q]
  BY <1>1, <1>2 DEF ListInv, Created, Pending
<1>3. CASE batch'[q] = <<>>
  BY <1>1, <1>3 DEF ListInv
<1> QED
  BY <1>2, <1>3

(* The worker moves to its own list only events whose dependencies are     *)
(* final.                                                                  *)
LEMMA WorkerScanDeps ==
  ASSUME TypeOK, ControlOK, DepsInv, NEW q \in Queues, WorkerScan(q)
  PROVE  Keep /\ DepsInv'
<1> DEFINE i == at[q]
           e == enq[q][i]
<1>0. /\ enq \in [Queues -> Seq(Events)] /\ batch \in [Queues -> Seq(Events)]
      /\ at[q] \in Nat \ {0} /\ i \in 1 .. Len(enq[q]) /\ q \in Procs
  BY DEF TypeOK, WorkerScan, Procs
<1>1. UNCHANGED <<status, kind, deps, needs, f>>
  BY DEF WorkerScan
<1>2. ListInv(q)
  BY DEF DepsInv
<1>3. FrameInv(q)'
  <2>1. Keep
    BY <1>1, QuietKeep
  <2> QED
    BY <1>0, <1>1, <2>1, FrameKeep
<1>4. \A r \in Queues \ {q} : enq'[r] = enq[r] /\ batch'[r] = batch[r]
  BY <1>0 DEF WorkerScan
<1>5. CASE ~Takes(e)
  <2>1. UNCHANGED <<enq, batch>>
    BY <1>5 DEF WorkerScan
  <2>2. ListInv(q)'
    BY <1>1, <1>2, <2>1 DEF ListInv, Created, Pending
  <2> QED
    BY <1>1, <1>3, <1>4, <2>2, WorkerLocal
<1>6. CASE Takes(e)
  <2>1. enq'[q] = Without(enq[q], i) /\ batch'[q] = Append(batch[q], e)
    BY <1>0, <1>6 DEF WorkerScan
  <2>2. Created(e) /\ ~Pending(e) /\ e \in Events
    BY <1>0, <1>2, <1>6 DEF ListInv, Takes
  <2>3. \A j \in DOMAIN Without(enq[q], i) :
           \E k \in DOMAIN enq[q] : Without(enq[q], i)[j] = enq[q][k]
    BY <1>0, WithoutType
  <2>4. \A j \in DOMAIN enq'[q] : Created(enq'[q][j])
    BY <1>2, <2>1, <2>3 DEF ListInv
  <2>5. \A j \in DOMAIN batch'[q] : batch'[q][j] = e \/ (j \in DOMAIN batch[q] /\ batch'[q][j] = batch[q][j])
    BY <1>0, <2>1, <2>2, AppendElements
  <2>6. \A j \in DOMAIN batch'[q] : Created(batch'[q][j]) /\ ~Pending(batch'[q][j])
    BY <1>2, <2>2, <2>5 DEF ListInv
  <2>7. ListInv(q)'
    BY <1>1, <2>4, <2>6 DEF ListInv, Created, Pending
  <2> QED
    BY <1>1, <1>3, <1>4, <2>7, WorkerLocal
<1> QED
  BY <1>5, <1>6

-----------------------------------------------------------------------------
(* The worker runs the ready list.                                         *)

(* An event of the ready list is ready when the worker hands it to         *)
(* cl_event_exec.                                                          *)
LEMMA WorkerExecDeps ==
  ASSUME TypeOK, ControlOK, DepsInv, NEW q \in Queues, WorkerSubmit(q) \/ WorkerRun(q)
  PROVE  Keep /\ DepsInv'
<1>0. /\ f \in [Procs -> Frames] /\ q \in Procs /\ at[q] \in Nat \ {0}
      /\ batch \in [Queues -> Seq(Events)] /\ ListInv(q)
  BY DEF TypeOK, Procs, DepsInv
<1>1. UNCHANGED <<status, kind, deps, needs, enq>>
  BY DEF WorkerSubmit, WorkerRun
<1>2. \A r \in Procs \ {q} : f'[r] = f[r]
  BY <1>0 DEF WorkerSubmit, WorkerRun, CallExec, Goto
<1>3. \A r \in Queues \ {q} : enq'[r] = enq[r] /\ batch'[r] = batch[r]
  BY <1>0 DEF WorkerSubmit, WorkerRun
<1>4. ListInv(q)'
  <2>1. batch'[q] = batch[q] \/ batch'[q] = <<>>
    BY <1>0 DEF WorkerSubmit, WorkerRun
  <2> QED
    BY <1>0, <1>1, <2>1, ListQuiet
<1>5. FrameInv(q)'
  <2>1. CASE at[q] <= Len(batch[q])
    <3>1. PICK e \in Events : e = batch[q][at[q]] /\ Created(e) /\ ~Pending(e)
      BY <1>0, <2>1 DEF ListInv
    <3>2. f'[q].pc = "exec" /\ f'[q].e = e
      BY <1>0, <2>1, <3>1 DEF WorkerSubmit, WorkerRun, CallExec, Frames
    <3> QED
      BY <1>1, <3>1, <3>2 DEF FrameInv, Created, Pending
  <2>2. CASE ~(at[q] <= Len(batch[q]))
    <3>1. f'[q].pc \in {"run", "top"}
      BY <1>0, <2>2 DEF WorkerSubmit, WorkerRun, Goto, Frames, Idle
    <3> QED
      BY <1>0, <3>1, FrameVoid DEF EventLabels, ExecLabels
  <2> QED
    BY <2>1, <2>2
<1> QED
  BY <1>1, <1>2, <1>3, <1>4, <1>5, WorkerLocal

(* Every step of worker_thread_function.                                   *)
LEMMA WorkerStepDeps ==
  ASSUME TypeOK, ControlOK, DepsInv, NEW q \in Queues, WorkerStep(q)
  PROVE  Keep /\ DepsInv'
<1>1. CASE WorkerTop(q) \/ WorkerScanned(q)
  <2>0. f \in [Procs -> Frames] /\ q \in Procs /\ batch \in [Queues -> Seq(Events)] /\ ListInv(q)
    BY DEF TypeOK, Procs, DepsInv
  <2>1. UNCHANGED <<status, kind, deps, needs, enq>>
    BY <1>1 DEF WorkerTop, WorkerScanned
  <2>2. \A r \in Procs \ {q} : f'[r] = f[r]
    BY <1>1, <2>0 DEF WorkerTop, WorkerScanned, Goto
  <2>3. \A r \in Queues \ {q} : enq'[r] = enq[r] /\ batch'[r] = batch[r]
    BY Zenon, <1>1, <2>0 DEF WorkerTop, WorkerScanned
  <2>4. batch'[q] = batch[q] \/ batch'[q] = <<>>
    BY Zenon, <1>1, <2>0 DEF WorkerTop, WorkerScanned
  <2>5. ListInv(q)'
    BY <2>0, <2>1, <2>4, ListQuiet
  <2>6. f'[q].pc \in {"dead", "idle", "scan", "top", "submit", "run"}
    BY <1>1, <2>0 DEF WorkerTop, WorkerScanned, Goto, Frames
  <2>7. FrameInv(q)'
    BY <2>0, <2>6, FrameVoid DEF EventLabels, ExecLabels
  <2> QED
    BY <2>1, <2>2, <2>3, <2>5, <2>7, WorkerLocal
<1>2. q \in Procs
  BY DEF Procs
<1> QED
  BY <1>1, <1>2, EventStepDeps, WorkerScanDeps, WorkerExecDeps DEF WorkerStep

=============================================================================
