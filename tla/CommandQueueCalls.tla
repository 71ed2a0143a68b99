------------------------- MODULE CommandQueueCalls --------------------------
(***************************************************************************)
(* Type correctness of the steps of a call that has entered the runtime:   *)
(* creating its event, waiting, running or queueing the command, and the   *)
(* creation and the release of a queue.                                    *)
(***************************************************************************)
EXTENDS CommandQueueTypeSteps

USE SMTT(30) DEF At, evVars, qVars, ctxVars, appVars

-----------------------------------------------------------------------------
(* The steps of a thread inside a call, up to the decision to run or queue. *)
LEMMA CallStepType1 ==
  ASSUME TypeOK, ControlOK, NEW t \in Threads,
         \/ RecordInQueue(t) \/ CreateEvent(t) \/ AwaitEvents(t) \/ SyncRecord(t) \/ SyncWait(t)
  PROVE  TypeOK' /\ ControlOK'
<1>t. t \in Procs /\ t \notin Queues
  BY ConstantsOK DEF Procs
<1>f. /\ f \in [Procs -> Frames] /\ f[t] \in Frames
      /\ f[t].ret \in Labels /\ f[t].kind \in CommandKinds \cup SyncCalls \cup {"none", "set", "wait", "release"}
      /\ f[t].q \in Queues \cup {None} /\ f[t].since \in SUBSET Events
  BY <1>t DEF TypeOK, Frames
<1>c. ThreadControl(t)
  BY DEF ControlOK
<1>l. {"create", "flush", "await", "decide", "fail", "sync", "syncwait"} \subseteq Labels
  BY DEF Labels
<1>n. SUBMITTED \in COMPLETE .. QUEUED /\ COMPLETE \in COMPLETE .. QUEUED
  BY DEF SUBMITTED, COMPLETE, QUEUED
<1>r. \A q \in Queues : Recorded(q) \subseteq Events
  BY DEF TypeOK, Recorded, Range
<1>1. CASE RecordInQueue(t)
  <2>1. f[t].q \in Queues
    BY <1>1, <1>c DEF RecordInQueue, ThreadControl, QueueLabels, HasQueue
  <2>2. f' \in [Procs -> Frames]
    <3>1. Recorded(f[t].q) \in SUBSET (Events \cup Queues) /\ "create" \in Labels
      BY <1>r, <1>l, <2>1
    <3>2. [f EXCEPT ![t].pc = "create", ![t].todo = Recorded(f[t].q)] \in [Procs -> Frames]
      BY Zenon, <3>1, <1>t, <1>f, ListType
    <3> QED
      BY Zenon, <1>1, <3>2, <1>f DEF RecordInQueue, Sleep
  <2>3. asleep' \in [Procs -> Events \cup Queues \cup {Ctx, None}]
    BY Zenon, <1>1, <2>1 DEF TypeOK, RecordInQueue, Sleep
  <2>4. ThreadControl(t)'
    BY <1>1, <1>t, <1>f, <1>c, <1>r, <2>1 DEF RecordInQueue, Sleep, ThreadControl,
       EventLabels, ExecLabels, QueueLabels, HasEvent, HasQueue, Frames
  <2>5. \A r \in Procs \ {t} : f'[r] = f[r]
    BY <1>1, <1>f DEF RecordInQueue, Sleep
  <2> QED
    BY <1>1, <1>t, <2>2, <2>3, <2>4, <2>5, ControlLocal DEF TypeOK, RecordInQueue
<1>2. CASE CreateEvent(t)
  <2>1. f[t].q \in Queues /\ f[t].todo \subseteq Events /\ f[t].kind \in CommandKinds
    BY <1>2, <1>c DEF CreateEvent, ThreadControl, QueueLabels, HasQueue
  <2>2. New \in Events
    BY Zenon, <1>2 DEF CreateEvent, New, Free
  <2>3. f[t].todo \cup barriers[f[t].q] \in SUBSET Events
    BY <2>1 DEF TypeOK
  <2>4. f' \in [Procs -> Frames]
    <3> DEFINE l == IF f[t].kind # "nd" /\ f[t].flag THEN "await" ELSE "decide"
               es == f[t].todo \cup barriers[f[t].q]
    <3>1. /\ l \in Labels /\ "flush" \in Labels /\ New \in Events \cup {None}
          /\ es \in SUBSET (Events \cup Queues)
      BY <1>l, <2>2, <2>3
    <3>2. f' = [f EXCEPT ![t].e = New, ![t].todo = es, ![t].to = COMPLETE, ![t].ret = "flush", ![t].pc = l]
      BY <1>2 DEF CreateEvent
    <3> HIDE DEF l, es
    <3>3. [f EXCEPT ![t].e = New, ![t].todo = es, ![t].to = COMPLETE, ![t].ret = "flush", ![t].pc = l]
            \in [Procs -> Frames]
      BY Zenon, <3>1, <1>t, <1>f, <1>n, CreateType
    <3> QED
      BY <3>2, <3>3
  <2>5. /\ kind' \in [Events -> CommandKinds \cup {"none", "user"}]
        /\ queue' \in [Events -> Queues \cup {None}]
    BY Zenon, <1>2, <2>1 DEF TypeOK, CreateEvent
  <2>6. /\ deps' \in [Events -> SUBSET Events]
        /\ needs' \in [Events -> SUBSET Events]
    BY Zenon, <1>2, <2>1, <2>3 DEF TypeOK, CreateEvent
  <2>7. prior' \in [Events -> SUBSET Events]
    BY Zenon, <1>2, <1>f DEF TypeOK, CreateEvent
  <2>8. ThreadControl(t)'
    <3>1. f'[t] = [f[t] EXCEPT !.e = New, !.todo = f[t].todo \cup barriers[f[t].q],
                    !.to = COMPLETE, !.ret = "flush",
                    !.pc = IF f[t].kind # "nd" /\ f[t].flag THEN "await" ELSE "decide"]
      BY <1>2, <1>t, <1>f DEF CreateEvent
    <3>2. /\ f'[t].pc \in {"await", "decide"} /\ f'[t].e = New /\ f'[t].q = f[t].q
          /\ f'[t].ret = "flush" /\ f'[t].todo = f[t].todo \cup barriers[f[t].q]
      BY <3>1, <1>f DEF Frames
    <3> QED
      BY <3>2, <2>1, <2>2, <2>3 DEF ThreadControl,
         EventLabels, ExecLabels, QueueLabels, HasEvent, HasQueue
  <2>9. \A r \in Procs \ {t} : f'[r] = f[r]
    BY <1>2, <1>f DEF CreateEvent
  <2> QED
    BY <1>2, <1>t, <2>4, <2>5, <2>6, <2>7, <2>8, <2>9, ControlLocal DEF TypeOK, CreateEvent
<1>3. CASE AwaitEvents(t)
  <2>1. f[t].todo \subseteq Events
    BY <1>3, <1>c DEF AwaitEvents, ThreadControl
  <2>2. f' \in [Procs -> Frames]
    <3>1. "fail" \in Labels /\ "sync" \in Labels /\ "decide" \in Labels /\ {} \in SUBSET (Events \cup Queues)
      BY <1>l
    <3>2. [f EXCEPT ![t].todo = {}, ![t].to = COMPLETE, ![t].pc = f[t].ret] \in [Procs -> Frames]
      BY Zenon, <3>1, <1>t, <1>f, <1>n, AwaitedType
    <3>3. [f EXCEPT ![t].pc = "fail"] \in [Procs -> Frames]
      BY <3>1, <1>t, <1>f, GotoType
    <3>4. [f EXCEPT ![t].pc = "sync", ![t].to = SUBMITTED, ![t].ret = "decide"] \in [Procs -> Frames]
      BY Zenon, <3>1, <1>t, <1>f, <1>n, CallSyncType
    <3> QED
      BY Zenon, <1>3, <1>f, <3>2, <3>3, <3>4 DEF AwaitEvents, Sleep, Goto, CallSync
  <2>3. asleep' \in [Procs -> Events \cup Queues \cup {Ctx, None}]
    BY Zenon, <1>3, <2>1 DEF TypeOK, AwaitEvents, Sleep
  <2>4. ThreadControl(t)'
    BY <1>3, <1>t, <1>f, <1>c, <2>1 DEF AwaitEvents, Sleep, Goto, CallSync, ThreadControl,
       EventLabels, ExecLabels, QueueLabels, HasEvent, HasQueue, Frames
  <2>5. \A r \in Procs \ {t} : f'[r] = f[r]
    BY <1>3, <1>f DEF AwaitEvents, Sleep, Goto, CallSync
  <2> QED
    BY <1>3, <1>t, <2>2, <2>3, <2>4, <2>5, ControlLocal DEF TypeOK, AwaitEvents
<1>4. CASE SyncRecord(t)
  <2>1. f[t].q \in Queues
    BY <1>4, <1>c DEF SyncRecord, ThreadControl, QueueLabels, HasQueue
  <2>2. f' \in [Procs -> Frames]
    BY Zenon, <1>4, <1>t, <1>f, <1>l, <1>r, <2>1, ListType DEF SyncRecord
  <2>3. ThreadControl(t)'
    BY <1>4, <1>t, <1>f, <1>c, <1>r, <2>1 DEF SyncRecord, ThreadControl,
       EventLabels, ExecLabels, QueueLabels, HasEvent, HasQueue, Frames
  <2>4. \A r \in Procs \ {t} : f'[r] = f[r]
    BY <1>4, <1>f DEF SyncRecord
  <2> QED
    BY <1>4, <1>t, <2>2, <2>3, <2>4, ControlLocal DEF TypeOK, SyncRecord
<1>5. CASE SyncWait(t)
  <2>1. f[t].q \in Queues
    BY <1>5, <1>c DEF SyncWait, ThreadControl, QueueLabels, HasQueue
  <2>2. f' \in [Procs -> Frames]
    BY <1>5, <1>t, <1>f, <1>l, GotoType DEF SyncWait, Sleep, Goto
  <2>3. asleep' \in [Procs -> Events \cup Queues \cup {Ctx, None}]
    BY Zenon, <1>5, <2>1 DEF TypeOK, SyncWait, Sleep
  <2>4. ThreadControl(t)'
    BY <1>5, <1>t, <1>f, <1>c, <2>1 DEF SyncWait, Sleep, Goto, ThreadControl,
       EventLabels, ExecLabels, QueueLabels, HasEvent, HasQueue, Frames
  <2>5. \A r \in Procs \ {t} : f'[r] = f[r]
    BY <1>5, <1>f DEF SyncWait, Sleep, Goto
  <2> QED
    BY <1>5, <1>t, <2>2, <2>3, <2>4, <2>5, ControlLocal DEF TypeOK, SyncWait
<1> QED
  BY <1>1, <1>2, <1>3, <1>4, <1>5

(* Decide only enters cl_event_exec on the event of the call, or goes on.  *)
LEMMA DecideShape ==
  ASSUME NEW t \in Threads, Decide(t)
  PROVE  \/ \E l \in {"fail", "enqueue"} : Goto(t, l)
         \/ \E s \in {COMPLETE, SUBMITTED, QUEUED}, l \in {"done", "enqueue"} :
              CallExec(t, f[t].e, s, l) /\ (s = COMPLETE => Ready(f[t].e))
         \/ \E l \in {"exec", "enqueue"} :
              /\ f' = [f EXCEPT ![t].pc = "insbar", ![t].ret = l]
              /\ l = "exec" => Ready(f[t].e)
<1>s. SUBMITTED # COMPLETE /\ QUEUED # COMPLETE
  BY DEF COMPLETE, SUBMITTED, QUEUED
<1>1. CASE DecideFail(t)
  BY <1>1 DEF DecideFail
<1>2. CASE DecideCommand(t) \/ DecideMap(t)
  BY <1>2, <1>s DEF DecideCommand, DecideMap
<1>3. CASE DecideKernel(t) \/ DecideCopy(t)
  BY <1>3, <1>s DEF DecideKernel, DecideCopy
<1>4. CASE DecideNative(t)
  BY <1>4, <1>s DEF DecideNative
<1>5. CASE DecideMarker(t)
  BY <1>5 DEF DecideMarker
<1>6. CASE DecideBarrier(t)
  BY Zenon, <1>6 DEF DecideBarrier
<1> QED
  BY <1>1, <1>2, <1>3, <1>4, <1>5, <1>6 DEF Decide

(* The rest of a clEnqueue* call.                                          *)
LEMMA CallStepType2 ==
  ASSUME TypeOK, ControlOK, NEW t \in Threads,
         Decide(t) \/ InsertBarrier(t) \/ EnqueueEvent(t) \/ Return(t)
  PROVE  TypeOK' /\ ControlOK'
<1>t. t \in Procs /\ t \notin Queues
  BY ConstantsOK DEF Procs
<1>f. f \in [Procs -> Frames] /\ f[t] \in Frames /\ f[t].e \in Events \cup {None}
  BY <1>t DEF TypeOK, Frames
<1>c. ThreadControl(t)
  BY DEF ControlOK
<1>l. /\ "fail" \in Labels /\ "enqueue" \in Labels /\ "done" \in Labels
      /\ "exec" \in Labels /\ "insbar" \in Labels /\ "await" \in Labels
  BY DEF Labels
<1>n. {COMPLETE, SUBMITTED, QUEUED} \subseteq COMPLETE .. QUEUED
  BY DEF SUBMITTED, COMPLETE, QUEUED
<1>x. \A s \in {COMPLETE, SUBMITTED, QUEUED}, l \in {"done", "enqueue"} :
        [f EXCEPT ![t].pc = "exec", ![t].e = f[t].e, ![t].to = s, ![t].ret = l] \in [Procs -> Frames]
  <2> SUFFICES ASSUME NEW s \in {COMPLETE, SUBMITTED, QUEUED}, NEW l \in {"done", "enqueue"}
               PROVE  [f EXCEPT ![t].pc = "exec", ![t].e = f[t].e, ![t].to = s, ![t].ret = l]
                        \in [Procs -> Frames]
    BY Zenon
  <2>1. s \in COMPLETE .. QUEUED /\ l \in Labels
    BY <1>l, <1>n
  <2> QED
    BY Zenon, <2>1, <1>t, <1>f, <1>l, CallExecType
<1>g. \A l \in {"fail", "enqueue", "done"} : [f EXCEPT ![t].pc = l] \in [Procs -> Frames]
  BY <1>t, <1>f, <1>l, GotoType
<1>1. CASE Decide(t)
  <2>1. f[t].e \in Events /\ f[t].q \in Queues
    BY <1>1, <1>c DEF Decide, ThreadControl, EventLabels, QueueLabels, HasEvent, HasQueue
  <2>2. CASE \E l \in {"fail", "enqueue"} : Goto(t, l)
    <3>1. f' \in [Procs -> Frames]
      BY <2>2, <1>g DEF Goto
    <3>2. ThreadControl(t)' /\ \A r \in Procs \ {t} : f'[r] = f[r]
      BY <2>1, <2>2, <1>t, <1>f DEF Goto, ThreadControl,
         EventLabels, ExecLabels, QueueLabels, HasEvent, HasQueue, Frames
    <3> QED
      BY <1>1, <1>t, <3>1, <3>2, ControlLocal DEF TypeOK, Decide
  <2>3. CASE \E s \in {COMPLETE, SUBMITTED, QUEUED}, l \in {"done", "enqueue"} :
                CallExec(t, f[t].e, s, l)
    <3>1. f' \in [Procs -> Frames]
      <4>1. PICK s \in {COMPLETE, SUBMITTED, QUEUED}, l \in {"done", "enqueue"} :
               CallExec(t, f[t].e, s, l)
        BY <2>3
      <4> QED
        BY Zenon, <4>1, <1>x DEF CallExec
    <3>2. ThreadControl(t)' /\ \A r \in Procs \ {t} : f'[r] = f[r]
      BY <2>1, <2>3, <1>t, <1>f DEF CallExec, ThreadControl,
         EventLabels, ExecLabels, QueueLabels, HasEvent, HasQueue, Frames
    <3> QED
      BY <1>1, <1>t, <3>1, <3>2, ControlLocal DEF TypeOK, Decide
  <2>4. CASE \E l \in {"exec", "enqueue"} : f' = [f EXCEPT ![t].pc = "insbar", ![t].ret = l]
    <3>1. f' \in [Procs -> Frames]
      <4>1. PICK l \in {"exec", "enqueue"} : f' = [f EXCEPT ![t].pc = "insbar", ![t].ret = l]
        BY Zenon, <2>4
      <4>2. l \in Labels
        BY <1>l
      <4>3. [f EXCEPT ![t].pc = "insbar", ![t].ret = l] \in [Procs -> Frames]
        BY Zenon, <4>2, <1>t, <1>f, <1>l, FailType
      <4> QED
        BY <4>1, <4>3
    <3>2. ThreadControl(t)' /\ \A r \in Procs \ {t} : f'[r] = f[r]
      BY <2>1, <2>4, <1>t, <1>f DEF ThreadControl,
         EventLabels, ExecLabels, QueueLabels, HasEvent, HasQueue, Frames
    <3> QED
      BY <1>1, <1>t, <3>1, <3>2, ControlLocal DEF TypeOK, Decide
  <2> QED
    BY <1>1, <2>2, <2>3, <2>4, DecideShape
<1>2. CASE InsertBarrier(t)
  <2>1. f[t].e \in Events /\ f[t].q \in Queues /\ f[t].ret \in {"exec", "enqueue"}
    BY Zenon, <1>2, <1>c DEF InsertBarrier, ThreadControl, EventLabels, QueueLabels, HasEvent, HasQueue
  <2>2. f' \in [Procs -> Frames]
    BY Zenon, <1>2, <1>x, <1>g DEF InsertBarrier, CallExec, Goto
  <2>3. barriers' \in [Queues -> SUBSET Events]
    BY Zenon, <1>2, <2>1 DEF TypeOK, InsertBarrier
  <2>4. ThreadControl(t)' /\ \A r \in Procs \ {t} : f'[r] = f[r]
    BY <1>2, <1>t, <1>f, <2>1 DEF InsertBarrier, CallExec, Goto, ThreadControl,
       EventLabels, ExecLabels, QueueLabels, HasEvent, HasQueue, Frames
  <2> QED
    BY Zenon, <1>2, <1>t, <2>2, <2>3, <2>4, ControlLocal DEF TypeOK, InsertBarrier
<1>3. CASE EnqueueEvent(t)
  <2>1. f[t].e \in Events /\ f[t].q \in Queues
    BY Zenon, <1>3, <1>c DEF EnqueueEvent, ThreadControl, EventLabels, QueueLabels, HasEvent, HasQueue
  <2>2. [f EXCEPT ![t].pc = "await", ![t].todo = {f[t].e}, ![t].to = COMPLETE, ![t].ret = "done"]
           \in [Procs -> Frames]
    <3>1. {f[t].e} \in SUBSET (Events \cup Queues) /\ COMPLETE \in COMPLETE .. QUEUED
      BY <1>n, <2>1
    <3> QED
      BY Zenon, <3>1, <1>t, <1>f, <1>l, CallAwaitType
  <2>3. f' \in [Procs -> Frames]
    BY Zenon, <1>3, <2>2, <1>g DEF EnqueueEvent, CallAwait, Goto
  <2>4. enq' \in [Queues -> Seq(Events)]
    <3>0. enq \in [Queues -> Seq(Events)] /\ enq[f[t].q] \in Seq(Events)
      BY Zenon, <2>1 DEF TypeOK
    <3>1. Append(enq[f[t].q], f[t].e) \in Seq(Events)
      BY Zenon, <2>1, <3>0, AppendType
    <3>2. enq' = [enq EXCEPT ![f[t].q] = Append(enq[f[t].q], f[t].e)]
      BY Zenon, <1>3 DEF EnqueueEvent
    <3> QED
      BY Zenon, <2>1, <3>0, <3>1, <3>2, ExceptType
  <2>5. seen' \in [Queues -> BOOLEAN]
    BY Zenon, <1>3 DEF TypeOK, EnqueueEvent, Touch
  <2>6. asleep' \in [Procs -> Events \cup Queues \cup {Ctx, None}]
    BY Zenon, <1>3, WakeType DEF EnqueueEvent
  <2>7. ThreadControl(t)' /\ \A r \in Procs \ {t} : f'[r] = f[r]
    BY <1>3, <1>t, <1>f, <2>1 DEF EnqueueEvent, CallAwait, Goto, ThreadControl,
       EventLabels, ExecLabels, QueueLabels, HasEvent, HasQueue, Frames
  <2> QED
    BY Zenon, <1>3, <1>t, <2>3, <2>4, <2>5, <2>6, <2>7, ControlLocal DEF TypeOK, EnqueueEvent
<1>4. CASE Return(t)
  <2>1. Idle \in Frames
    BY Zenon, <1>n DEF Idle, Frames, Labels
  <2>2. f' \in [Procs -> Frames]
    BY Zenon, <1>4, <1>t, <1>f, <2>1, ExceptType DEF Return
  <2>3. issued' \subseteq Events
    BY Zenon, <1>4, <1>f DEF TypeOK, Return
  <2>4. ThreadControl(t)' /\ \A r \in Procs \ {t} : f'[r] = f[r]
    BY Zenon, <1>4, <1>t, <1>f DEF Return, Idle, ThreadControl,
       EventLabels, ExecLabels, QueueLabels, HasEvent, HasQueue
  <2> QED
    BY Zenon, <1>4, <1>t, <2>2, <2>3, <2>4, ControlLocal DEF TypeOK, Return
<1> QED
  BY <1>1, <1>2, <1>3, <1>4

(* The creation and destruction of a queue.                                *)
LEMMA CallStepType3 ==
  ASSUME TypeOK, ControlOK, NEW t \in Threads,
         \/ AddQueue(t) \/ ReleaseRef(t) \/ RemoveQueue(t) \/ StopWorker(t) \/ JoinWorker(t)
  PROVE  TypeOK' /\ ControlOK'
<1>t. t \in Procs /\ t \notin Queues /\ Queues \subseteq Procs
  BY ConstantsOK DEF Procs
<1>f. f \in [Procs -> Frames] /\ f[t] \in Frames
  BY <1>t DEF TypeOK
<1>q. f[t].q \in Queues
  BY DEF AddQueue, ReleaseRef, RemoveQueue, StopWorker, JoinWorker,
     ControlOK, ThreadControl, QueueLabels, HasQueue
<1>l. /\ "done" \in Labels /\ "sync" \in Labels /\ "remove" \in Labels
      /\ "quit" \in Labels /\ "join" \in Labels /\ "freed" \in Labels
  BY DEF Labels
<1>n. COMPLETE \in COMPLETE .. QUEUED
  BY DEF COMPLETE, QUEUED
<1>g. \A l \in Labels : [f EXCEPT ![t].pc = l] \in [Procs -> Frames]
  BY <1>t, <1>f, GotoType
<1>1. CASE AddQueue(t)
  <2>1. f' \in [Procs -> Frames]
    BY <1>1, <1>f, <1>g, <1>l DEF AddQueue, Sleep, Goto
  <2>2. asleep' \in [Procs -> Events \cup Queues \cup {Ctx, None}]
    BY Zenon, <1>1 DEF TypeOK, AddQueue, Sleep
  <2>3. listed' \subseteq Queues
    BY <1>1, <1>q DEF TypeOK, AddQueue
  <2>4. holds' \in [Threads -> SUBSET Queues]
    <3>1. holds[t] \cup {f[t].q} \in SUBSET Queues /\ holds \in [Threads -> SUBSET Queues]
      BY <1>q DEF TypeOK
    <3>2. holds' = holds \/ holds' = [holds EXCEPT ![t] = holds[t] \cup {f[t].q}]
      BY Zenon, <1>1 DEF AddQueue
    <3> QED
      BY <3>1, <3>2, ExceptType
  <2>5. ThreadControl(t)' /\ \A r \in Procs \ {t} : f'[r] = f[r]
    BY <1>1, <1>t, <1>f DEF AddQueue, Sleep, Goto, ControlOK, ThreadControl,
       EventLabels, ExecLabels, QueueLabels, HasEvent, HasQueue, Frames
  <2> QED
    BY <1>1, <1>t, <2>1, <2>2, <2>3, <2>4, <2>5, ControlLocal DEF TypeOK, AddQueue
<1>2. CASE ReleaseRef(t)
  <2>1. [f EXCEPT ![t].pc = "sync", ![t].to = COMPLETE, ![t].ret = "remove"] \in [Procs -> Frames]
    BY Zenon, <1>t, <1>f, <1>l, <1>n, CallSyncType
  <2>2. f' \in [Procs -> Frames]
    BY <1>2, <2>1, <1>g, <1>l DEF ReleaseRef, CallSync, Goto
  <2>3. ref' \in [Queues -> Int]
    BY <1>2, <1>q DEF TypeOK, ReleaseRef
  <2>4. ThreadControl(t)' /\ \A r \in Procs \ {t} : f'[r] = f[r]
    BY <1>2, <1>t, <1>f, <1>q DEF ReleaseRef, CallSync, Goto, ThreadControl,
       EventLabels, ExecLabels, QueueLabels, HasEvent, HasQueue, Frames
  <2> QED
    BY <1>2, <1>t, <2>2, <2>3, <2>4, ControlLocal DEF TypeOK, ReleaseRef
<1>3. CASE RemoveQueue(t)
  <2>1. f' \in [Procs -> Frames]
    BY <1>3, <1>f, <1>g, <1>l DEF RemoveQueue, Sleep, Goto
  <2>2. asleep' \in [Procs -> Events \cup Queues \cup {Ctx, None}]
    BY Zenon, <1>3 DEF TypeOK, RemoveQueue, Sleep
  <2>3. listed' \subseteq Queues
    BY <1>3 DEF TypeOK, RemoveQueue
  <2>4. ThreadControl(t)' /\ \A r \in Procs \ {t} : f'[r] = f[r]
    BY <1>3, <1>t, <1>f, <1>q DEF RemoveQueue, Sleep, Goto, ControlOK, ThreadControl,
       EventLabels, ExecLabels, QueueLabels, HasEvent, HasQueue, Frames
  <2> QED
    BY <1>3, <1>t, <2>1, <2>2, <2>3, <2>4, ControlLocal DEF TypeOK, RemoveQueue
<1>4. CASE StopWorker(t)
  <2>1. f' \in [Procs -> Frames]
    BY <1>4, <1>g, <1>l DEF StopWorker, Goto
  <2>2. asleep' \in [Procs -> Events \cup Queues \cup {Ctx, None}]
    BY Zenon, <1>4, WakeType DEF StopWorker
  <2>3. quit' \in [Queues -> BOOLEAN]
    BY Zenon, <1>4 DEF TypeOK, StopWorker
  <2>4. ThreadControl(t)' /\ \A r \in Procs \ {t} : f'[r] = f[r]
    BY <1>4, <1>t, <1>f, <1>q DEF StopWorker, Goto, ControlOK, ThreadControl,
       EventLabels, ExecLabels, QueueLabels, HasEvent, HasQueue, Frames
  <2> QED
    BY <1>4, <1>t, <2>1, <2>2, <2>3, <2>4, ControlLocal DEF TypeOK, StopWorker
<1>5. CASE JoinWorker(t)
  <2> PICK q \in Queues : q = f[t].q
    BY <1>q
  <2> DEFINE g == [f EXCEPT ![q].pc = "freed"]
  <2>1. g \in [Procs -> Frames]
    BY <1>t, <1>f, <1>q, <1>l, GotoType
  <2>2. f' = [g EXCEPT ![t].pc = "done"]
    BY <1>5 DEF JoinWorker
  <2>3. f' \in [Procs -> Frames]
    <3> HIDE DEF g
    <3> QED
      BY <2>1, <2>2, <1>t, <1>l, GotoType
  <2>4. /\ f'[t].pc = "done" /\ f'[q].pc = "freed"
        /\ \A r \in Procs \ {t, q} : f'[r] = f[r]
    BY <1>5, <1>t, <1>f, <1>q DEF JoinWorker, Frames
  <2>5. ControlOK'
    <3>1. ThreadControl(t)' /\ WorkerControl(q)'
      BY <2>4 DEF ThreadControl, WorkerControl, WorkerLabels, EventLabels, ExecLabels, QueueLabels
    <3> QED
      BY <2>4, <3>1, ControlLocal2
  <2> QED
    BY Zenon, <1>5, <2>3, <2>5 DEF TypeOK, JoinWorker
<1> QED
  BY <1>1, <1>2, <1>3, <1>4, <1>5

=============================================================================
