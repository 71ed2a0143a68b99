------------------------- MODULE CommandQueueProofs -------------------------
(***************************************************************************)
(* Proofs about CommandQueue: a status is final, and a command runs only   *)
(* after the events of its wait list have completed.                       *)
(***************************************************************************)
EXTENDS CommandQueueDeps

USE SMTT(30) DEF At, evVars, qVars, ctxVars, appVars

-----------------------------------------------------------------------------
(* The steps of a call.                                                    *)

(* A thread step that leaves the events and the lists alone.               *)
LEMMA QuietLocal ==
  ASSUME TypeOK, ControlOK, DepsInv, NEW t \in Threads, UNCHANGED <<status, kind, deps, needs, enq, batch>>,
         FrameInv(t)', \A r \in Procs \ {t} : f'[r] = f[r]
  PROVE  Keep /\ DepsInv'
BY Zenon, QuietKeep, DepsLocal DEF Procs

(* Recording the event of the queue, and waiting for events.               *)
LEMMA SyncDeps ==
  ASSUME TypeOK, ControlOK, DepsInv, NEW t \in Threads,
         RecordInQueue(t) \/ AwaitEvents(t) \/ SyncRecord(t) \/ SyncWait(t)
  PROVE  Keep /\ DepsInv'
<1>0. f \in [Procs -> Frames] /\ t \in Procs /\ f[t] \in Frames /\ FrameInv(t) /\ ThreadControl(t)
  BY DEF TypeOK, Procs, DepsInv, ControlOK
<1>1. UNCHANGED <<status, kind, deps, needs, enq, batch>>
  BY DEF RecordInQueue, AwaitEvents, SyncRecord, SyncWait
<1>2. \A r \in Procs \ {t} : f'[r] = f[r]
  BY <1>0 DEF RecordInQueue, AwaitEvents, SyncRecord, SyncWait, Sleep, Goto, CallSync
<1>3. CASE RecordInQueue(t)
  <2>1. f'[t].pc \in {"record", "create"}
    BY <1>0, <1>3 DEF RecordInQueue, Sleep, Frames
  <2> QED
    BY <1>0, <1>1, <1>2, <2>1, FrameVoid, QuietLocal DEF EventLabels, ExecLabels
<1>4. CASE SyncRecord(t) \/ SyncWait(t)
  <2>1. /\ f'[t].pc \in {"syncwait", "await"} /\ f'[t].e = f[t].e /\ f'[t].ret = f[t].ret
        /\ f[t].pc \in {"sync", "syncwait"}
    BY <1>0, <1>4 DEF SyncRecord, SyncWait, Sleep, Goto, Frames
  <2>2. FrameInv(t)'
    BY Zenon, <1>0, <1>1, <2>1 DEF FrameInv, Created, EventLabels, ExecLabels
  <2> QED
    BY <1>1, <1>2, <2>2, QuietLocal
<1>5. CASE AwaitEvents(t)
  <2>1. f[t].pc = "await" /\ f'[t].e = f[t].e
    BY <1>0, <1>5 DEF AwaitEvents, Sleep, Goto, CallSync, Frames
  <2>2. \/ f'[t].pc = "await" /\ f'[t].ret = f[t].ret
        \/ f'[t].pc = f[t].ret /\ f[t].ret # "flush"
        \/ f'[t].pc \in {"fail", "sync"} /\ f[t].ret = "flush"
    BY <1>0, <1>5 DEF AwaitEvents, Sleep, Goto, CallSync, Frames
  <2>3. f[t].ret \in {"decide", "done", "remove", "unref", "flush"}
    BY Zenon, <1>0, <2>1 DEF ThreadControl
  <2>4. f[t].ret \in {"decide", "flush"} => Created(f[t].e)
    BY Zenon, <1>0, <2>1 DEF FrameInv
  <2>5. FrameInv(t)'
    BY <1>1, <2>1, <2>2, <2>3, <2>4 DEF FrameInv, Created, EventLabels, ExecLabels
  <2> QED
    BY <1>1, <1>2, <2>5, QuietLocal
<1> QED
  BY <1>3, <1>4, <1>5

(* A ready event has no unfinished dependency.                             *)
LEMMA ReadyNotPending ==
  ASSUME NEW e \in Events, Ready(e)
  PROVE  ~Pending(e)
BY DEF Ready, Pending, COMPLETE

(* cl_event_is_ready is answered here; a ready event stays ready.          *)
LEMMA DecideDeps ==
  ASSUME TypeOK, ControlOK, DepsInv, NEW t \in Threads, Decide(t) \/ InsertBarrier(t)
  PROVE  Keep /\ DepsInv'
<1>0. f \in [Procs -> Frames] /\ t \in Procs /\ f[t] \in Frames /\ FrameInv(t) /\ ThreadControl(t)
  BY DEF TypeOK, Procs, DepsInv, ControlOK
<1> PICK e \in Events : e = f[t].e
  BY Zenon, <1>0 DEF ThreadControl, EventLabels, HasEvent, Decide, InsertBarrier
<1>1. UNCHANGED <<status, kind, deps, needs, enq, batch>>
  BY Zenon DEF Decide, InsertBarrier
<1>2. Created(e) /\ f[t].pc \in {"decide", "insbar"}
  BY Zenon, <1>0 DEF FrameInv, EventLabels, Decide, InsertBarrier
<1>3. Ready(e) => ~Pending(e)
  BY ReadyNotPending
<1>4. /\ \A r \in Procs \ {t} : f'[r] = f[r]
      /\ f'[t].e = e
      /\ \/ f'[t].pc \in {"fail", "enqueue"}
         \/ f'[t].pc = "insbar" /\ (f'[t].ret = "exec" => ~Pending(e))
         \/ f'[t].pc = "exec" /\ (f'[t].to < SUBMITTED => ~Pending(e))
  <2>1. CASE InsertBarrier(t)
    <3>1. f[t].pc = "insbar" /\ (f[t].ret = "exec" => ~Pending(e))
      BY Zenon, <1>0, <2>1 DEF InsertBarrier, FrameInv
    <3>2. (f[t].ret = "exec" /\ CallExec(t, e, COMPLETE, "done")) \/ Goto(t, "enqueue")
      BY Zenon, <2>1 DEF InsertBarrier
    <3> QED
      BY <1>0, <3>1, <3>2 DEF CallExec, Goto, Frames
  <2>2. CASE \E l \in {"fail", "enqueue"} : Goto(t, l)
    BY <1>0, <2>2 DEF Goto, Frames
  <2>3. CASE \E s \in {COMPLETE, SUBMITTED, QUEUED}, l \in {"done", "enqueue"} :
               CallExec(t, f[t].e, s, l) /\ (s = COMPLETE => Ready(f[t].e))
    BY <1>0, <1>3, <2>3 DEF CallExec, Frames, COMPLETE, SUBMITTED, QUEUED
  <2>4. CASE \E l \in {"exec", "enqueue"} :
               /\ f' = [f EXCEPT ![t].pc = "insbar", ![t].ret = l]
               /\ l = "exec" => Ready(f[t].e)
    BY <1>0, <1>3, <2>4 DEF Frames
  <2> QED
    BY <2>1, <2>2, <2>3, <2>4, DecideShape
<1>5. Created(e)' /\ (~Pending(e) => ~Pending(e)')
  BY <1>1, <1>2 DEF Created, Pending
<1>6. FrameInv(t)'
  BY Zenon, <1>4, <1>5 DEF FrameInv, EventLabels, ExecLabels
<1> QED
  BY <1>1, <1>4, <1>6, QuietLocal

(* A new event is not finished, and lists its whole wait list.             *)
LEMMA CreateEventDeps ==
  ASSUME TypeOK, ControlOK, DepsInv, NEW t \in Threads, CreateEvent(t)
  PROVE  Keep /\ DepsInv'
<1>0. /\ f \in [Procs -> Frames] /\ t \in Procs /\ f[t] \in Frames /\ ThreadControl(t)
      /\ kind \in [Events -> CommandKinds \cup {"none", "user"}]
      /\ deps \in [Events -> SUBSET Events] /\ needs \in [Events -> SUBSET Events]
      /\ \A x \in Events : EventInv(x)
  BY DEF TypeOK, Procs, ControlOK, DepsInv
<1> PICK n \in Free : n = New
  BY Zenon DEF CreateEvent, New
<1>1. n \in Events /\ ~Created(n) /\ status[n] = UNKNOWN
  BY <1>0 DEF Free, Created, EventInv
<1>2. f[t].kind \in CommandKinds /\ f[t].kind \notin {"none", "user"}
  BY <1>0 DEF CreateEvent, ThreadControl, CommandKinds, Markers, Barriers
<1>3. /\ kind'[n] = f[t].kind /\ needs'[n] = f[t].todo /\ needs'[n] \subseteq deps'[n]
      /\ \A x \in Events \ {n} : kind'[x] = kind[x] /\ needs'[x] = needs[x] /\ deps'[x] = deps[x]
      /\ UNCHANGED <<status, enq, batch>>
  BY <1>0, <1>1 DEF CreateEvent
<1>4. Keep
  BY <1>1, <1>2, <1>3 DEF Keep, StatusKeep, CreatedKeep, FreeKeep, Created
<1>5. EventInv(n)'
  BY <1>1, <1>2, <1>3 DEF EventInv, Created, Started, UNKNOWN, COMPLETE, RUNNING
<1>6. \A x \in Events : EventInv(x)'
  BY <1>0, <1>3, <1>5 DEF EventInv, Created, Started
<1>7. \A r \in Procs \ {t} : f'[r] = f[r]
  BY <1>0 DEF CreateEvent
<1>8. f'[t].pc \in {"await", "decide"} /\ f'[t].e = n
  BY <1>0 DEF CreateEvent, Frames
<1>9. FrameInv(t)'
  BY <1>2, <1>3, <1>8 DEF FrameInv, Created, EventLabels, ExecLabels
<1> QED
  BY Zenon, <1>0, <1>3, <1>4, <1>6, <1>7, <1>9, DepsLocal

(* cl_command_queue_enqueue_event appends the event to the list of its     *)
(* queue.                                                                  *)
LEMMA EnqueueEventDeps ==
  ASSUME TypeOK, ControlOK, DepsInv, NEW t \in Threads, EnqueueEvent(t)
  PROVE  Keep /\ DepsInv'
<1>0. /\ f \in [Procs -> Frames] /\ t \in Procs /\ f[t] \in Frames /\ ThreadControl(t) /\ FrameInv(t)
      /\ enq \in [Queues -> Seq(Events)]
  BY DEF TypeOK, Procs, ControlOK, DepsInv
<1> PICK e \in Events, q \in Queues : e = f[t].e /\ q = f[t].q
  BY Zenon, <1>0 DEF ThreadControl, EventLabels, QueueLabels, HasEvent, HasQueue, EnqueueEvent
<1>1. UNCHANGED <<status, kind, deps, needs, batch>> /\ Created(e)
  BY Zenon, <1>0 DEF EnqueueEvent, FrameInv, EventLabels
<1>2. Keep /\ \A x \in Events : EventInv(x)'
  BY <1>1, QuietKeep
<1>3. enq'[q] = Append(enq[q], e) /\ \A r \in Queues \ {q} : enq'[r] = enq[r]
  BY <1>0 DEF EnqueueEvent
<1>4. \A r \in Queues \ {q} : ListInv(r)'
  BY Zenon, <1>1, <1>2, <1>3, ListKeep
<1>5. \A j \in DOMAIN enq'[q] : enq'[q][j] = e \/ (j \in DOMAIN enq[q] /\ enq'[q][j] = enq[q][j])
  <2>1. enq[q] \in Seq(Events)
    BY <1>0
  <2>2. \A j \in DOMAIN Append(enq[q], e) :
          Append(enq[q], e)[j] = e \/ (j \in DOMAIN enq[q] /\ Append(enq[q], e)[j] = enq[q][j])
    BY <2>1, AppendElements
  <2> QED
    BY Zenon, <1>3, <2>2
<1>6. ListInv(q)
  BY DEF DepsInv
<1>7. ListInv(q)'
  BY Zenon, <1>1, <1>5, <1>6 DEF ListInv, Created, Pending
<1>8. /\ \A r \in Procs \ {t} : f'[r] = f[r]
      /\ f'[t].pc \in {"await", "done"} /\ (f'[t].pc = "await" => f'[t].ret = "done")
  BY <1>0 DEF EnqueueEvent, CallAwait, Goto, Frames
<1>9. FrameInv(t)'
  BY <1>0, <1>8, FrameVoid DEF EventLabels, ExecLabels
<1>10. \A r \in Procs : FrameInv(r)'
  BY <1>2, <1>8, <1>9, FrameKeep
<1> QED
  BY <1>2, <1>4, <1>7, <1>10 DEF DepsInv

(* The steps that hold no event.                                           *)
LEMMA QueueLifeDeps ==
  ASSUME TypeOK, ControlOK, DepsInv, NEW t \in Threads,
         Return(t) \/ AddQueue(t) \/ ReleaseRef(t) \/ RemoveQueue(t) \/ StopWorker(t)
  PROVE  Keep /\ DepsInv'
<1>0. f \in [Procs -> Frames] /\ t \in Procs /\ f[t] \in Frames
  BY DEF TypeOK, Procs
<1>1. UNCHANGED <<status, kind, deps, needs, enq, batch>>
  BY Zenon DEF Return, AddQueue, ReleaseRef, RemoveQueue, StopWorker
<1>2. \A r \in Procs \ {t} : f'[r] = f[r]
  BY <1>0 DEF Return, AddQueue, ReleaseRef, RemoveQueue, StopWorker, Goto, Sleep, CallSync
<1>3. /\ f'[t].pc \in {"idle", "addqueue", "done", "sync", "remove", "quit", "join"}
      /\ f'[t].pc = "sync" => f'[t].ret = "remove"
  <2>1. CASE Return(t) \/ StopWorker(t)
    BY <1>0, <2>1 DEF Return, StopWorker, Goto, Frames, Idle
  <2>2. CASE AddQueue(t) \/ RemoveQueue(t)
    BY <1>0, <2>2 DEF AddQueue, RemoveQueue, Goto, Sleep, Frames
  <2>3. CASE ReleaseRef(t)
    BY <1>0, <2>3 DEF ReleaseRef, Goto, CallSync, Frames
  <2> QED
    BY Zenon, <2>1, <2>2, <2>3
<1>4. FrameInv(t)'
  BY <1>0, <1>3, FrameVoid DEF EventLabels, ExecLabels
<1> QED
  BY Zenon, <1>1, <1>2, <1>4, QuietLocal

(* A queue's worker is started by one thread and joined by another.        *)
LEMMA TwoFrames ==
  ASSUME TypeOK, ControlOK, DepsInv, NEW t \in Threads, NEW q \in Queues,
         UNCHANGED <<status, kind, deps, needs, enq, batch>>,
         \A r \in Procs \ {t, q} : f'[r] = f[r],
         f'[t].pc \notin EventLabels \cup {"sync", "syncwait", "await"},
         f'[q].pc \notin EventLabels \cup {"sync", "syncwait", "await"}
  PROVE  Keep /\ DepsInv'
<1>1. Keep /\ \A x \in Events : EventInv(x)'
  BY QuietKeep
<1>2. FrameInv(t)' /\ FrameInv(q)'
  BY FrameVoid DEF Procs
<1>3. \A r \in Procs : FrameInv(r)'
  BY <1>1, <1>2, FrameKeep
<1>4. \A r \in Queues : ListInv(r)'
  BY <1>1, ListKeep
<1> QED
  BY Zenon, <1>1, <1>3, <1>4 DEF DepsInv

(* Every step of a thread inside a call.                                   *)
LEMMA CallStepDeps ==
  ASSUME TypeOK, ControlOK, DepsInv, NEW t \in Threads, CallStep(t)
  PROVE  Keep /\ DepsInv'
<1>1. CASE JoinWorker(t)
  <2>1. PICK q \in Queues : q = f[t].q
    BY <1>1 DEF JoinWorker, ControlOK, ThreadControl, QueueLabels, HasQueue
  <2>2. f \in [Procs -> Frames] /\ t \in Procs /\ q \in Procs /\ t # q
    BY ConstantsOK DEF TypeOK, Procs
  <2>3. /\ \A r \in Procs \ {t, q} : f'[r] = f[r]
        /\ f'[t].pc = "done" /\ f'[q].pc = "freed"
    BY <1>1, <2>1, <2>2 DEF JoinWorker, Frames
  <2>4. UNCHANGED <<status, kind, deps, needs, enq, batch>>
    BY <1>1 DEF JoinWorker
  <2>5. /\ f'[t].pc \notin EventLabels \cup {"sync", "syncwait", "await"}
        /\ f'[q].pc \notin EventLabels \cup {"sync", "syncwait", "await"}
    BY <2>3 DEF EventLabels, ExecLabels
  <2> QED
    BY Zenon, <2>3, <2>4, <2>5, TwoFrames
<1>2. t \in Procs
  BY DEF Procs
<1> QED
  BY <1>1, <1>2, EventStepDeps, SyncDeps, DecideDeps, CreateEventDeps, EnqueueEventDeps, QueueLifeDeps DEF CallStep

-----------------------------------------------------------------------------
(* The calls the application makes.                                        *)

(* clCreateUserEvent creates an event that waits for nothing.              *)
LEMMA CreateUserDeps ==
  ASSUME TypeOK, ControlOK, DepsInv, NEW t \in Threads, clCreateUserEvent(t)
  PROVE  Keep /\ DepsInv'
<1>0. /\ kind \in [Events -> CommandKinds \cup {"none", "user"}] /\ status \in [Events -> Status]
      /\ needs \in [Events -> SUBSET Events] /\ \A x \in Events : EventInv(x)
  BY DEF TypeOK, DepsInv
<1> PICK n \in Free : n = New
  BY DEF clCreateUserEvent, HasNew, New
<1>1. n \in Events /\ ~Created(n) /\ status[n] = UNKNOWN /\ needs[n] = {} /\ kind[n] = "none"
  BY <1>0 DEF Free, Created, EventInv
<1>2. /\ kind'[n] = "user" /\ status'[n] = SUBMITTED
      /\ \A x \in Events \ {n} : kind'[x] = kind[x] /\ status'[x] = status[x]
      /\ UNCHANGED <<needs, deps, enq, batch, f>>
  BY <1>0, <1>1 DEF clCreateUserEvent
<1>3. Keep
  BY <1>1, <1>2 DEF Keep, StatusKeep, CreatedKeep, FreeKeep, Created
<1>4. EventInv(n)'
  BY <1>1, <1>2 DEF EventInv, Created, Started, SUBMITTED, COMPLETE, RUNNING
<1>6. ASSUME NEW x \in Events \ {n} PROVE EventInv(x)'
  <2>1. EventInv(x)
    BY <1>0
  <2>2. \A d \in needs[x] : status[d] = COMPLETE => status'[d] = COMPLETE
    BY Zenon, <1>3, CompleteKeep
  <2>3. kind'[x] = kind[x] /\ status'[x] = status[x] /\ needs' = needs /\ deps' = deps
    BY Zenon, <1>2
  <2> QED
    BY <2>1, <2>2, <2>3 DEF EventInv, Created, Started
<1>7. \A x \in Events : EventInv(x)'
  BY <1>4, <1>6
<1>8. \A r \in Procs : FrameInv(r)'
  BY <1>2, <1>3, FrameKeep
<1>9. \A q \in Queues : ListInv(q)'
  BY <1>2, <1>3, ListKeep
<1> QED
  BY <1>3, <1>7, <1>8, <1>9 DEF DepsInv

(* clSetUserEventStatus lowers the status of a user event.                 *)
LEMMA SetUserDeps ==
  ASSUME TypeOK, ControlOK, DepsInv, NEW t \in Threads, clSetUserEventStatus(t)
  PROVE  Keep /\ DepsInv'
<1>0. f \in [Procs -> Frames] /\ t \in Procs /\ \A x \in Events : EventInv(x)
  BY DEF TypeOK, Procs, DepsInv
<1>1. PICK e \in Events, s \in {COMPLETE, ERROR} :
        /\ kind[e] = "user" /\ MaySet(e, s) /\ SetStatus(e, s)
        /\ f' = [f EXCEPT ![t] = [Idle EXCEPT !.pc = AfterStatus(e), !.ret = "done",
                                              !.kind = "set", !.e = e]]
  BY Zenon DEF clSetUserEventStatus, TypeOK
<1>2. s \in Status /\ Created(e) /\ needs[e] = {} /\ UNCHANGED <<kind, needs, deps, enq, batch>>
  BY <1>0, <1>1 DEF Status, ERROR, COMPLETE, UNKNOWN, Created, EventInv, clSetUserEventStatus
<1>3. Keep /\ \A x \in Events \ {e} : status'[x] = status[x]
  BY <1>1, <1>2, SetStatusKeep
<1>4. EventInv(e)'
  BY <1>2 DEF EventInv, Created
<1>5. \A x \in Events : EventInv(x)'
  BY <1>2, <1>3, <1>4, OtherEvents
<1>6. /\ \A r \in Procs \ {t} : f'[r] = f[r]
      /\ f'[t].pc \in {"rmbar", "disable"} /\ f'[t].e = e
  BY <1>0, <1>1 DEF AfterStatus, Idle
<1>7. FrameInv(t)'
  BY Zenon, <1>2, <1>6 DEF FrameInv, Created, EventLabels, ExecLabels
<1> QED
  BY Zenon, <1>0, <1>2, <1>3, <1>5, <1>6, <1>7, DepsLocal

(* A command starts by recording the events it must wait for, or by        *)
(* creating its event.                                                     *)
LEMMA EnqueueFramePc ==
  ASSUME NEW k, NEW q, NEW wl, NEW b
  PROVE  EnqueueFrame(k, q, wl, b).pc \in {"record", "create"}
BY DEF EnqueueFrame

(* Every call the application may make.                                    *)
LEMMA AppStepDeps ==
  ASSUME TypeOK, ControlOK, DepsInv, NEW t \in Threads, AppStep(t)
  PROVE  Keep /\ DepsInv'
<1>0. f \in [Procs -> Frames] /\ t \in Procs
  BY DEF TypeOK, Procs
<1>1. CASE clEnqueue(t) \/ clFlushOrFinish(t) \/ clWaitForEvents(t) \/ clReleaseCommandQueue(t)
  <2>1. UNCHANGED <<status, kind, deps, needs, enq, batch>>
    BY Zenon, <1>1 DEF clEnqueue, clFlushOrFinish, clWaitForEvents, clReleaseCommandQueue
  <2>2. \A r \in Procs \ {t} : f'[r] = f[r]
    BY Zenon, <1>0, <1>1 DEF clEnqueue, clFlushOrFinish, clWaitForEvents, clReleaseCommandQueue
  <2>3. /\ f'[t].pc \in {"record", "create", "sync", "await"}
        /\ f'[t].pc \in {"sync", "await"} => f'[t].ret \in {"done", "unref"}
    <3>1. CASE clEnqueue(t)
      <4>1. PICK k \in CommandKinds, q \in holds[t], wl \in WaitLists, b \in Blocking :
              f' = [f EXCEPT ![t] = EnqueueFrame(k, q, wl, b)]
        BY Zenon, <3>1 DEF clEnqueue
      <4>2. f'[t] = EnqueueFrame(k, q, wl, b)
        BY <1>0, <4>1
      <4>3. f'[t].pc \in {"record", "create"}
        BY Zenon, <4>2, EnqueueFramePc
      <4> QED
        BY Zenon, <4>3
    <3>2. CASE clFlushOrFinish(t)
      BY <1>0, <3>2 DEF clFlushOrFinish, Idle
    <3>3. CASE clWaitForEvents(t)
      BY <1>0, <3>3 DEF clWaitForEvents, Idle
    <3>4. CASE clReleaseCommandQueue(t)
      BY <1>0, <3>4 DEF clReleaseCommandQueue, Idle
    <3> QED
      BY <1>1, <3>1, <3>2, <3>3, <3>4
  <2>4. FrameInv(t)'
    BY <1>0, <2>3, FrameVoid DEF EventLabels, ExecLabels
  <2> QED
    BY Zenon, <2>1, <2>2, <2>4, QuietLocal
<1>2. CASE clCreateCommandQueue(t)
  <2>1. PICK q \in Queues :
          f' = [f EXCEPT ![q] = Idle, ![t] = [Idle EXCEPT !.pc = "addqueue", !.q = q]]
    BY Zenon, <1>2 DEF clCreateCommandQueue
  <2>2. q \in Procs /\ t # q
    BY ConstantsOK DEF Procs
  <2>3. /\ \A r \in Procs \ {t, q} : f'[r] = f[r]
        /\ f'[t].pc = "addqueue" /\ f'[q].pc = "idle"
    BY <1>0, <2>1, <2>2 DEF Idle
  <2>4. UNCHANGED <<status, kind, deps, needs, enq, batch>>
    BY <1>2 DEF clCreateCommandQueue
  <2>5. /\ f'[t].pc \notin EventLabels \cup {"sync", "syncwait", "await"}
        /\ f'[q].pc \notin EventLabels \cup {"sync", "syncwait", "await"}
    BY <2>3 DEF EventLabels, ExecLabels
  <2> QED
    BY <2>3, <2>4, <2>5, TwoFrames
<1> QED
  BY <1>1, <1>2, CreateUserDeps, SetUserDeps DEF AppStep

-----------------------------------------------------------------------------

(* Every step keeps the invariant.                                         *)
LEMMA DepsStep ==
  ASSUME TypeOK, ControlOK, DepsInv, Next
  PROVE  Keep /\ DepsInv'
BY CallStepDeps, AppStepDeps, WorkerStepDeps DEF Next

(* The invariant holds before the first call.                              *)
LEMMA DepsInit ==
  ASSUME Init
  PROVE  DepsInv
<1>1. \A e \in Events : EventInv(e)
  BY DEF Init, EventInv, Created, Started, UNKNOWN, COMPLETE, RUNNING
<1>2. \A p \in Procs : f[p].pc \in {"idle", "none"}
  BY DEF Init, Idle
<1>3. \A p \in Procs : FrameInv(p)
  BY <1>2 DEF FrameInv, EventLabels, ExecLabels
<1>4. \A q \in Queues : ListInv(q)
  BY DEF Init, ListInv
<1> QED
  BY <1>1, <1>3, <1>4 DEF DepsInv

(* The invariant holds in every state of every execution.                  *)
LEMMA DepsInvariant == Spec => [](TypeOK /\ ControlOK /\ DepsInv)
<1>1. Init => TypeOK /\ ControlOK /\ DepsInv
  BY TypeInit, DepsInit
<1>2. TypeOK /\ ControlOK /\ DepsInv /\ [Next]_vars => (TypeOK /\ ControlOK /\ DepsInv)'
  <2>1. CASE Next
    BY <2>1, TypeStep, DepsStep
  <2>2. CASE UNCHANGED vars
    <3>1. UNCHANGED <<status, kind, deps, needs, enq, batch, f, queue, barriers, at, seen, inExec, quit, ref,
                      listed, disable, asleep, holds, issued, prior>>
      BY <2>2 DEF vars
    <3>2. TypeOK /\ ControlOK => (TypeOK /\ ControlOK)'
      BY Zenon, <3>1 DEF TypeOK, ControlOK, ThreadControl, WorkerControl, HasEvent, HasQueue
    <3>3. TypeOK /\ ControlOK /\ DepsInv => DepsInv'
      BY Zenon, <3>1, QuietKeep, FrameKeep, ListKeep DEF DepsInv
    <3> QED
      BY <3>2, <3>3
  <2> QED
    BY <2>1, <2>2
<1> QED
  BY <1>1, <1>2, PTL DEF Spec

(* A command of any number of threads, queues and events runs only when    *)
(* every event of its wait list has completed without error: what          *)
(* cl_event_is_ready answered stays true until cl_event_exec relies on it. *)
THEOREM DepsTheorem == Spec => []DepsRespected
<1>1. DepsInv => DepsRespected
  BY DEF DepsInv, EventInv, DepsRespected
<1> QED
  BY <1>1, DepsInvariant, PTL

(* cl_event_set_status is the only writer of a status, and it never raises *)
(* one nor changes one that is CL_COMPLETE or an error.                    *)
THEOREM StatusTheorem == Spec => StatusForward
<1>1. TypeOK /\ ControlOK /\ DepsInv /\ [Next]_vars =>
        [\A e \in Events : kind[e] # "none" /\ status'[e] # status[e] =>
           status[e] > COMPLETE /\ status'[e] < status[e]]_vars
  <2>1. CASE Next
    BY <2>1, DepsStep DEF Keep, StatusKeep, Created
  <2>2. CASE UNCHANGED vars
    BY <2>2
  <2> QED
    BY <2>1, <2>2
<1> QED
  BY <1>1, DepsInvariant, PTL DEF Spec, StatusForward

=============================================================================
