----------------------- MODULE CommandQueueTypeSteps ------------------------
(***************************************************************************)
(* Type correctness of CommandQueue, first part: the updates of a frame,   *)
(* the steps of cl_event_exec, of the worker, and of a call up to the      *)
(* creation of its event keep the types and the control invariant.         *)
(***************************************************************************)
EXTENDS CommandQueue, TLAPS

USE SMTT(30) DEF At, evVars, qVars, ctxVars, appVars

-----------------------------------------------------------------------------
(* Updates of the frame of one process.                                    *)

(* Replacing one value of a function keeps its type.                       *)
LEMMA ExceptType ==
  ASSUME NEW S, NEW P, NEW g \in [P -> S], NEW p \in P, NEW r \in S
  PROVE  [g EXCEPT ![p] = r] \in [P -> S]
OBVIOUS

(* Appending an event to a list of events.                                 *)
LEMMA AppendType ==
  ASSUME NEW S, NEW s \in Seq(S), NEW x \in S
  PROVE  Append(s, x) \in Seq(S)
OBVIOUS

(* The frame updates of the module yield frames.                           *)

(* Goto: the program counter is set.                                       *)
LEMMA GotoType ==
  ASSUME NEW g \in [Procs -> Frames], NEW p \in Procs,
         NEW l \in Labels
  PROVE  [g EXCEPT ![p].pc = l] \in [Procs -> Frames]
<1>1. g[p] \in Frames
  OBVIOUS
<1>2. [g[p] EXCEPT !.pc = l] \in Frames
  BY <1>1 DEF Frames
<1> QED
  BY <1>2, ExceptType

(* One element less to do.                                                 *)
LEMMA TodoType ==
  ASSUME NEW g \in [Procs -> Frames], NEW p \in Procs,
         NEW es \in SUBSET (Events \cup Queues)
  PROVE  [g EXCEPT ![p].todo = es] \in [Procs -> Frames]
<1>1. g[p] \in Frames
  OBVIOUS
<1>2. [g[p] EXCEPT !.todo = es] \in Frames
  BY <1>1 DEF Frames
<1> QED
  BY <1>2, ExceptType

(* The program counter and the return label are set.                       *)
LEMMA FailType ==
  ASSUME NEW g \in [Procs -> Frames], NEW p \in Procs,
         NEW l \in Labels, NEW m \in Labels
  PROVE  [g EXCEPT ![p].pc = l, ![p].ret = m] \in [Procs -> Frames]
<1>1. g[p] \in Frames
  OBVIOUS
<1>2. [g[p] EXCEPT !.pc = l, !.ret = m] \in Frames
  BY Zenon, <1>1 DEF Frames
<1> QED
  BY <1>2, ExceptType

(* Continue at a label with a list of events or queues.                    *)
LEMMA ListType ==
  ASSUME NEW g \in [Procs -> Frames], NEW p \in Procs,
         NEW l \in Labels, NEW es \in SUBSET (Events \cup Queues)
  PROVE  [g EXCEPT ![p].pc = l, ![p].todo = es] \in [Procs -> Frames]
<1>1. g[p] \in Frames
  OBVIOUS
<1>2. [g[p] EXCEPT !.pc = l, !.todo = es] \in Frames
  BY Zenon, <1>1 DEF Frames
<1> QED
  BY <1>2, ExceptType

(* The wait is over.                                                       *)
LEMMA AwaitedType ==
  ASSUME NEW g \in [Procs -> Frames], NEW p \in Procs,
         NEW l \in Labels, NEW s \in COMPLETE .. QUEUED, NEW es \in SUBSET (Events \cup Queues)
  PROVE  [g EXCEPT ![p].todo = es, ![p].to = s, ![p].pc = l] \in [Procs -> Frames]
<1>1. g[p] \in Frames
  OBVIOUS
<1>2. [g[p] EXCEPT !.todo = es, !.to = s, !.pc = l] \in Frames
  BY Zenon, <1>1 DEF Frames
<1> QED
  BY <1>2, ExceptType

(* CallSync.                                                               *)
LEMMA CallSyncType ==
  ASSUME NEW g \in [Procs -> Frames], NEW p \in Procs,
         NEW l \in Labels, NEW s \in COMPLETE .. QUEUED, NEW m \in Labels
  PROVE  [g EXCEPT ![p].pc = l, ![p].to = s, ![p].ret = m] \in [Procs -> Frames]
<1>1. g[p] \in Frames
  OBVIOUS
<1>2. [g[p] EXCEPT !.pc = l, !.to = s, !.ret = m] \in Frames
  BY Zenon, <1>1 DEF Frames
<1> QED
  BY <1>2, ExceptType

(* CallExec.                                                               *)
LEMMA CallExecType ==
  ASSUME NEW g \in [Procs -> Frames], NEW p \in Procs,
         NEW l \in Labels, NEW e \in Events \cup {None}, NEW s \in COMPLETE .. QUEUED, NEW m \in Labels
  PROVE  [g EXCEPT ![p].pc = l, ![p].e = e, ![p].to = s, ![p].ret = m] \in [Procs -> Frames]
<1>1. g[p] \in Frames
  OBVIOUS
<1>2. [g[p] EXCEPT !.pc = l, !.e = e, !.to = s, !.ret = m] \in Frames
  BY Zenon, <1>1 DEF Frames
<1> QED
  BY <1>2, ExceptType

(* CallAwait.                                                              *)
LEMMA CallAwaitType ==
  ASSUME NEW g \in [Procs -> Frames], NEW p \in Procs,
         NEW l \in Labels, NEW s \in COMPLETE .. QUEUED, NEW m \in Labels, NEW es \in SUBSET (Events \cup Queues)
  PROVE  [g EXCEPT ![p].pc = l, ![p].todo = es, ![p].to = s, ![p].ret = m] \in [Procs -> Frames]
<1>1. g[p] \in Frames
  OBVIOUS
<1>2. [g[p] EXCEPT !.pc = l, !.todo = es, !.to = s, !.ret = m] \in Frames
  BY Zenon, <1>1 DEF Frames
<1> QED
  BY <1>2, ExceptType

(* The event of the call is created.                                       *)
LEMMA CreateType ==
  ASSUME NEW g \in [Procs -> Frames], NEW p \in Procs,
         NEW l \in Labels, NEW e \in Events \cup {None}, NEW s \in COMPLETE .. QUEUED, NEW m \in Labels, NEW es \in SUBSET (Events \cup Queues)
  PROVE  [g EXCEPT ![p].e = e, ![p].todo = es, ![p].to = s, ![p].ret = m, ![p].pc = l] \in [Procs -> Frames]
<1>1. g[p] \in Frames
  OBVIOUS
<1>2. [g[p] EXCEPT !.e = e, !.todo = es, !.to = s, !.ret = m, !.pc = l] \in Frames
  BY Zenon, <1>1 DEF Frames
<1> QED
  BY <1>2, ExceptType

(* A step that changes the frame of p only keeps ControlOK if it does for p. *)
LEMMA ControlLocal ==
  ASSUME ControlOK, NEW p \in Procs,
         \A r \in Procs \ {p} : f'[r] = f[r],
         p \in Threads => ThreadControl(p)',
         p \in Queues => WorkerControl(p)'
  PROVE  ControlOK'
BY ConstantsOK DEF ControlOK, ThreadControl, WorkerControl, HasEvent, HasQueue, Procs

(* The same for a step of t that also changes the frame of the worker q.   *)
LEMMA ControlLocal2 ==
  ASSUME ControlOK, NEW t \in Threads, NEW q \in Queues,
         \A r \in Procs \ {t, q} : f'[r] = f[r],
         ThreadControl(t)', WorkerControl(q)'
  PROVE  ControlOK'
<1>1. \A r \in Threads \ {t} : f'[r] = f[r]
  BY ConstantsOK DEF Procs
<1>2. \A r \in Queues \ {q} : f'[r] = f[r]
  BY ConstantsOK DEF Procs
<1>3. \A r \in Threads : ThreadControl(r)'
  BY <1>1 DEF ControlOK, ThreadControl, HasEvent, HasQueue
<1>4. \A r \in Queues : WorkerControl(r)'
  BY <1>2 DEF ControlOK, WorkerControl, HasEvent
<1> QED
  BY <1>3, <1>4 DEF ControlOK

-----------------------------------------------------------------------------
(* Type correctness.                                                       *)

(* A broadcast keeps the types.                                            *)
LEMMA WakeType ==
  ASSUME TypeOK, NEW objs, Wake(objs)
  PROVE  asleep' \in [Procs -> Events \cup Queues \cup {Ctx, None}]
BY DEF TypeOK, Wake

(* cl_event_set_status, up to the unlock, keeps the types.                 *)
LEMMA SetStatusType ==
  ASSUME TypeOK, NEW e \in Events, NEW s \in Status, SetStatus(e, s)
  PROVE  /\ status' \in [Events -> Status]
         /\ asleep' \in [Procs -> Events \cup Queues \cup {Ctx, None}]
BY WakeType DEF TypeOK, SetStatus

(* The steps of cl_event_exec and cl_event_set_status keep the types and   *)
(* the control invariant, whoever runs them.                               *)
LEMMA EventStepType ==
  ASSUME TypeOK, ControlOK, NEW p \in Procs, EventStep(p)
  PROVE  TypeOK' /\ ControlOK'
<1> DEFINE e == f[p].e
<1>f. f \in [Procs -> Frames] /\ f[p].ret \in Labels /\ f[p].to \in COMPLETE .. QUEUED
  BY DEF TypeOK, Frames
<1>l. /\ {"fail", "step", "disable", "notify"} \subseteq Labels
      /\ \A x : AfterStatus(x) \in Labels
      /\ \A x : AfterStatus(x) \in {"rmbar", "disable"}
  BY DEF Labels, AfterStatus
<1>e. f[p].pc \in ExecLabels => e \in Events
  BY DEF ControlOK, ThreadControl, WorkerControl, EventLabels, HasEvent, Procs
<1>1. CASE ExecEnter(p)
  <2>1. e \in Events
    BY <1>1, <1>e DEF ExecEnter, ExecLabels
  <2>2. f' \in [Procs -> Frames]
    BY <1>1, <1>f, <1>l, GotoType, FailType DEF ExecEnter, Goto
  <2>3. /\ status' \in [Events -> Status]
        /\ asleep' \in [Procs -> Events \cup Queues \cup {Ctx, None}]
        /\ deps' \in [Events -> SUBSET Events]
    <3>1. ERROR \in Status
      BY DEF Status, ERROR, UNKNOWN
    <3>2. SetStatus(e, ERROR) \/ UNCHANGED <<status, asleep>>
      BY <1>1 DEF ExecEnter
    <3>3. deps' = deps \/ deps' = [deps EXCEPT ![e] = {}]
                       \/ deps' = [deps EXCEPT ![e] = IF Ready(e) THEN {} ELSE @]
      BY <1>1 DEF ExecEnter
    <3>4. deps' \in [Events -> SUBSET Events]
      BY <3>3 DEF TypeOK
    <3> QED
      BY <2>1, <3>1, <3>2, <3>4, SetStatusType DEF TypeOK
  <2>4. p \in Threads => ThreadControl(p)'
    BY <1>1, <1>f, <1>l, <2>1 DEF ExecEnter, Goto, ControlOK, ThreadControl,
       EventLabels, ExecLabels, QueueLabels, HasEvent, HasQueue, Frames
  <2>5. p \in Queues => WorkerControl(p)'
    BY <1>1, <1>f, <1>l, <2>1, ConstantsOK DEF ExecEnter, Goto, ControlOK, WorkerControl,
       ExecLabels, WorkerLabels, HasEvent, Frames
  <2>6. \A r \in Procs \ {p} : f'[r] = f[r]
    BY <1>1, <1>f DEF ExecEnter, Goto
  <2> QED
    BY <1>1, <2>2, <2>3, <2>4, <2>5, <2>6, ControlLocal DEF TypeOK, ExecEnter
<1>2. CASE ExecStep(p)
  <2>1. e \in Events
    BY <1>2, <1>e DEF ExecStep, ExecLabels
  <2>2. f' \in [Procs -> Frames]
    BY <1>2, <1>f, <1>l, GotoType DEF ExecStep, Goto
  <2>3. /\ status' \in [Events -> Status]
        /\ asleep' \in [Procs -> Events \cup Queues \cup {Ctx, None}]
    <3>1. ERROR \in Status /\ status[e] - 1 \in Status
      BY <1>2, <1>f, <2>1 DEF TypeOK, ExecStep, Status, ERROR, UNKNOWN, COMPLETE, QUEUED
    <3> QED
      BY <1>2, <2>1, <3>1, SetStatusType DEF ExecStep
  <2>4. p \in Threads => ThreadControl(p)'
    BY <1>2, <1>f, <1>l, <2>1 DEF ExecStep, Goto, ControlOK, ThreadControl,
       EventLabels, ExecLabels, QueueLabels, HasEvent, HasQueue, Frames
  <2>5. p \in Queues => WorkerControl(p)'
    BY <1>2, <1>f, <1>l, <2>1, ConstantsOK DEF ExecStep, Goto, ControlOK, WorkerControl,
       ExecLabels, WorkerLabels, HasEvent, Frames
  <2>6. \A r \in Procs \ {p} : f'[r] = f[r]
    BY <1>2, <1>f DEF ExecStep, Goto
  <2> QED
    BY <1>2, <2>2, <2>3, <2>4, <2>5, <2>6, ControlLocal DEF TypeOK, ExecStep
<1>3. CASE RemoveBarrier(p)
  <2>1. f' \in [Procs -> Frames]
    BY <1>3, <1>f, <1>l, GotoType DEF RemoveBarrier, Goto
  <2>2. barriers' \in [Queues -> SUBSET Events]
    BY Zenon, <1>3 DEF TypeOK, RemoveBarrier
  <2>3. p \in Threads => ThreadControl(p)'
    BY <1>3, <1>f DEF RemoveBarrier, Goto, ControlOK, ThreadControl,
       EventLabels, ExecLabels, QueueLabels, HasEvent, HasQueue, Frames
  <2>4. p \in Queues => WorkerControl(p)'
    BY <1>3, <1>f DEF RemoveBarrier, Goto, ControlOK, WorkerControl,
       ExecLabels, WorkerLabels, HasEvent, Frames
  <2>5. \A r \in Procs \ {p} : f'[r] = f[r]
    BY <1>3, <1>f DEF RemoveBarrier, Goto
  <2> QED
    BY <1>3, <2>1, <2>2, <2>3, <2>4, <2>5, ControlLocal DEF TypeOK, RemoveBarrier
<1>4. CASE DisableModify(p)
  <2>1. f' \in [Procs -> Frames]
    BY Zenon, <1>4, <1>f, <1>l, ListType DEF DisableModify, TypeOK
  <2>2. disable' \in Int
    BY <1>4 DEF TypeOK, DisableModify
  <2>3. p \in Threads => ThreadControl(p)'
    BY <1>4, <1>f DEF DisableModify, ControlOK, ThreadControl,
       EventLabels, ExecLabels, QueueLabels, HasEvent, HasQueue, Frames
  <2>4. p \in Queues => WorkerControl(p)'
    BY <1>4, <1>f DEF DisableModify, ControlOK, WorkerControl,
       ExecLabels, WorkerLabels, HasEvent, Frames
  <2>5. \A r \in Procs \ {p} : f'[r] = f[r]
    BY <1>4, <1>f DEF DisableModify
  <2> QED
    BY <1>4, <2>1, <2>2, <2>3, <2>4, <2>5, ControlLocal DEF TypeOK, DisableModify
<1>5. CASE NotifyQueue(p)
  <2>1. PICK q \in f[p].todo : f' = [f EXCEPT ![p].todo = @ \ {q}]
    BY Zenon, <1>5 DEF NotifyQueue
  <2>2. f' \in [Procs -> Frames]
    <3>1. f[p].todo \ {q} \in SUBSET (Events \cup Queues)
      BY <1>f DEF Frames
    <3> QED
      BY Zenon, <2>1, <3>1, <1>f, TodoType
  <2>3. seen' \in [Queues -> BOOLEAN] /\ asleep' \in [Procs -> Events \cup Queues \cup {Ctx, None}]
    BY ZenonT(60), <1>5 DEF TypeOK, NotifyQueue, Touch, Wake
  <2>4. p \in Threads => ThreadControl(p)'
    BY <1>5, <1>f, <2>1 DEF NotifyQueue, ControlOK, ThreadControl,
       EventLabels, ExecLabels, QueueLabels, HasEvent, HasQueue, Frames
  <2>5. p \in Queues => WorkerControl(p)'
    BY <1>5, <1>f, <2>1 DEF NotifyQueue, ControlOK, WorkerControl,
       ExecLabels, WorkerLabels, HasEvent, Frames
  <2>6. \A r \in Procs \ {p} : f'[r] = f[r]
    BY <2>1, <1>f
  <2> QED
    BY <1>5, <2>2, <2>3, <2>4, <2>5, <2>6, ControlLocal DEF TypeOK, NotifyQueue
<1>6. CASE EnableModify(p)
  <2>1. f' \in [Procs -> Frames]
    BY <1>6, <1>f, <1>l, GotoType DEF EnableModify, Goto
  <2>2. disable' \in Int /\ asleep' \in [Procs -> Events \cup Queues \cup {Ctx, None}]
    BY <1>6 DEF TypeOK, EnableModify, Wake
  <2>3. p \in Threads => ThreadControl(p)'
    BY <1>6, <1>f DEF EnableModify, Goto, ControlOK, ThreadControl,
       EventLabels, ExecLabels, QueueLabels, HasEvent, HasQueue, Frames
  <2>4. p \in Queues => WorkerControl(p)'
    BY <1>6, <1>f DEF EnableModify, Goto, ControlOK, WorkerControl,
       ExecLabels, WorkerLabels, HasEvent, Frames
  <2>5. \A r \in Procs \ {p} : f'[r] = f[r]
    BY <1>6, <1>f DEF EnableModify, Goto
  <2> QED
    BY <1>6, <2>1, <2>2, <2>3, <2>4, <2>5, ControlLocal DEF TypeOK, EnableModify
<1> QED
  BY <1>1, <1>2, <1>3, <1>4, <1>5, <1>6 DEF EventStep

(* Removing an element of a list of events leaves a list of events.        *)
LEMMA WithoutType ==
  ASSUME NEW S, NEW s \in Seq(S), NEW i \in 1 .. Len(s)
  PROVE  /\ s[i] \in S
         /\ Without(s, i) \in Seq(S)
         /\ \A j \in DOMAIN Without(s, i) : \E k \in DOMAIN s : Without(s, i)[j] = s[k]
<1>1. Len(s) \in Nat /\ DOMAIN s = 1 .. Len(s) /\ \A j \in 1 .. Len(s) : s[j] \in S
  OBVIOUS
<1>2. Len(s) - 1 \in Nat
  BY <1>1
<1>3. \A j \in 1 .. Len(s) - 1 : j \in 1 .. Len(s) /\ j + 1 \in 1 .. Len(s)
  BY <1>1
<1>4. Without(s, i) \in [1 .. Len(s) - 1 -> S]
  BY <1>1, <1>3 DEF Without
<1>5. Without(s, i) \in Seq(S)
  BY <1>2, <1>4
<1>6. \A j \in DOMAIN Without(s, i) : \E k \in DOMAIN s : Without(s, i)[j] = s[k]
  BY Zenon, <1>1, <1>3 DEF Without
<1> QED
  BY <1>1, <1>5, <1>6

(* The steps of worker_thread_function.                                    *)
LEMMA WorkerStepType ==
  ASSUME TypeOK, ControlOK, NEW q \in Queues, WorkerStep(q)
  PROVE  TypeOK' /\ ControlOK'
<1>q. q \in Procs /\ q \notin Threads
  BY ConstantsOK DEF Procs
<1>f. f \in [Procs -> Frames] /\ f[q] \in Frames
  BY <1>q DEF TypeOK
<1>l. {"dead", "idle", "scan", "top", "submit", "run", "exec"} \subseteq Labels
  BY DEF Labels
<1>n. /\ Front \in Nat \ {0} /\ SUBMITTED \in COMPLETE .. QUEUED /\ COMPLETE \in COMPLETE .. QUEUED
      /\ QUEUED \in COMPLETE .. QUEUED
  BY DEF Front, SUBMITTED, COMPLETE, QUEUED
<1>s. /\ at[q] \in Nat \ {0} /\ enq[q] \in Seq(Events) /\ batch[q] \in Seq(Events)
      /\ <<>> \in Seq(Events)
  BY DEF TypeOK
<1>t. /\ enq \in [Queues -> Seq(Events)] /\ batch \in [Queues -> Seq(Events)]
      /\ inExec \in [Queues -> COMPLETE .. QUEUED]
  BY DEF TypeOK
<1>1. CASE EventStep(q)
  BY <1>1, <1>q, EventStepType
<1>2. CASE WorkerTop(q)
  <2>1. f' \in [Procs -> Frames]
    BY <1>2, <1>q, <1>f, <1>l, GotoType DEF WorkerTop, Goto
  <2>2. asleep' \in [Procs -> Events \cup Queues \cup {Ctx, None}]
    BY Zenon, <1>2 DEF WorkerTop, TypeOK
  <2>3. at' \in [Queues -> Nat \ {0}] /\ batch' \in [Queues -> Seq(Events)]
    <3>1. at' \in [Queues -> Nat \ {0}]
      BY Zenon, <1>2, <1>n DEF WorkerTop, TypeOK
    <3>2. batch' \in [Queues -> Seq(Events)]
      <4>1. batch' = batch \/ batch' = [batch EXCEPT ![q] = <<>>]
        BY <1>2 DEF WorkerTop
      <4> QED
        BY Zenon, <4>1, <1>s, <1>t, ExceptType
    <3> QED
      BY <3>1, <3>2
  <2>4. WorkerControl(q)' /\ \A r \in Procs \ {q} : f'[r] = f[r]
    BY <1>2, <1>q, <1>f DEF WorkerTop, Goto, WorkerControl, WorkerLabels, ExecLabels, Frames
  <2> QED
    BY Zenon, <1>2, <1>q, <2>1, <2>2, <2>3, <2>4, ControlLocal DEF WorkerTop, TypeOK
<1>3. CASE WorkerScan(q)
  <2>1. at[q] \in 1 .. Len(enq[q])
    BY <1>3, <1>s DEF WorkerScan
  <2>2. enq[q][at[q]] \in Events /\ Without(enq[q], at[q]) \in Seq(Events)
    BY <2>1, <1>s, WithoutType
  <2>3. enq' \in [Queues -> Seq(Events)] /\ batch' \in [Queues -> Seq(Events)]
    <3>1. Append(batch[q], enq[q][at[q]]) \in Seq(Events)
      BY <1>s, <2>2
    <3>2. \/ enq' = [enq EXCEPT ![q] = Without(@, at[q])]
             /\ batch' = [batch EXCEPT ![q] = Append(@, enq[q][at[q]])]
          \/ UNCHANGED <<enq, batch>>
      BY <1>3 DEF WorkerScan
    <3>3. /\ [enq EXCEPT ![q] = Without(@, at[q])] \in [Queues -> Seq(Events)]
          /\ [batch EXCEPT ![q] = Append(@, enq[q][at[q]])] \in [Queues -> Seq(Events)]
      BY <3>1, <2>2, <1>t
    <3> QED
      BY Zenon, <3>2, <3>3, <1>t
  <2>4. at' \in [Queues -> Nat \ {0}]
    BY <1>3, <1>s DEF WorkerScan, SkipTo, TypeOK
  <2>5. ControlOK'
    BY <1>3 DEF WorkerScan, ControlOK, ThreadControl, WorkerControl, HasEvent, HasQueue
  <2> QED
    BY <1>3, <2>3, <2>4, <2>5 DEF WorkerScan, TypeOK
<1>4. CASE WorkerScanned(q)
  <2>1. f' \in [Procs -> Frames]
    BY <1>4, <1>q, <1>f, <1>l, GotoType DEF WorkerScanned, Goto
  <2>2. asleep' \in [Procs -> Events \cup Queues \cup {Ctx, None}]
    BY <1>4, WakeType DEF WorkerScanned, TypeOK
  <2>3. at' \in [Queues -> Nat \ {0}] /\ seen' \in [Queues -> BOOLEAN]
    <3>1. /\ at' = at \/ at' = [at EXCEPT ![q] = Front]
          /\ seen' = seen \/ seen' = [seen EXCEPT ![q] = TRUE]
      BY Zenon, <1>4 DEF WorkerScanned
    <3>2. at \in [Queues -> Nat \ {0}] /\ seen \in [Queues -> BOOLEAN]
      BY DEF TypeOK
    <3>3. at' \in [Queues -> Nat \ {0}]
      BY <3>1, <3>2, <1>n, ExceptType
    <3>4. seen' \in [Queues -> BOOLEAN]
      BY Zenon, <3>1, <3>2
    <3> QED
      BY <3>3, <3>4
  <2>x. inExec' \in [Queues -> COMPLETE .. QUEUED]
    <3>1. inExec' = inExec \/ inExec' = [inExec EXCEPT ![q] = QUEUED]
      BY Zenon, <1>4 DEF WorkerScanned
    <3> QED
      BY Zenon, <3>1, <1>n, <1>t, ExceptType
  <2>4. WorkerControl(q)' /\ \A r \in Procs \ {q} : f'[r] = f[r]
    BY <1>4, <1>q, <1>f DEF WorkerScanned, Goto, WorkerControl, WorkerLabels, ExecLabels, Frames
  <2> QED
    BY <1>4, <1>q, <2>1, <2>2, <2>3, <2>x, <2>4, ControlLocal DEF WorkerScanned, TypeOK
<1>5. CASE WorkerSubmit(q)
  <2>1. at[q] <= Len(batch[q]) => batch[q][at[q]] \in Events
    BY <1>s
  <2>2. f' \in [Procs -> Frames]
    <3>1. CASE Goto(q, "run")
      BY <3>1, <1>q, <1>f, <1>l, GotoType DEF Goto
    <3>2. CASE at[q] <= Len(batch[q]) /\ CallExec(q, batch[q][at[q]], SUBMITTED, "submit")
      <4>1. /\ batch[q][at[q]] \in Events \cup {None}
            /\ "exec" \in Labels /\ "submit" \in Labels
        BY <3>2, <2>1, <1>l
      <4>2. \A s \in COMPLETE .. QUEUED :
              [f EXCEPT ![q].pc = "exec", ![q].e = batch[q][at[q]], ![q].to = s, ![q].ret = "submit"]
                \in [Procs -> Frames]
        BY ZenonT(60), <4>1, <1>q, <1>f, CallExecType
      <4> QED
        BY Zenon, <3>2, <4>2, <1>n DEF CallExec
    <3> QED
      BY Zenon, <1>5, <3>1, <3>2 DEF WorkerSubmit
  <2>3. asleep' \in [Procs -> Events \cup Queues \cup {Ctx, None}]
    BY <1>5, WakeType DEF WorkerSubmit, TypeOK
  <2>4. at' \in [Queues -> Nat \ {0}]
    <3>1. at' = [at EXCEPT ![q] = Front] \/ at' = [at EXCEPT ![q] = @ + 1]
      BY Zenon, <1>5 DEF WorkerSubmit
    <3>2. at[q] + 1 \in Nat \ {0} /\ at \in [Queues -> Nat \ {0}]
      BY <1>s DEF TypeOK
    <3> QED
      BY <3>1, <3>2, <1>n, ExceptType
  <2>x. inExec' \in [Queues -> COMPLETE .. QUEUED]
    <3>1. inExec' = inExec \/ inExec' = [inExec EXCEPT ![q] = SUBMITTED]
      BY <1>5 DEF WorkerSubmit
    <3> QED
      BY Zenon, <3>1, <1>n, <1>t, ExceptType
  <2>5. WorkerControl(q)' /\ \A r \in Procs \ {q} : f'[r] = f[r]
    BY <1>5, <1>q, <1>f, <2>1
       DEF WorkerSubmit, Goto, CallExec, WorkerControl, WorkerLabels, ExecLabels, HasEvent, Frames
  <2> QED
    BY <1>5, <1>q, <2>2, <2>3, <2>4, <2>x, <2>5, ControlLocal DEF WorkerSubmit, TypeOK
<1>6. CASE WorkerRun(q)
  <2>1. at[q] <= Len(batch[q]) => batch[q][at[q]] \in Events
    BY <1>s
  <2>2. f' \in [Procs -> Frames]
    <3>1. CASE f' = [f EXCEPT ![q] = [Idle EXCEPT !.pc = "top"]]
      <4> DEFINE top == [Idle EXCEPT !.pc = "top"]
      <4>1. top \in Frames
        BY Zenon, <1>l, <1>n DEF Idle, Frames, Labels
      <4>2. f' = [f EXCEPT ![q] = top]
        BY <3>1
      <4> HIDE DEF top
      <4> QED
        BY <4>1, <4>2, <1>q, <1>f, ExceptType
    <3>2. CASE at[q] <= Len(batch[q]) /\ CallExec(q, batch[q][at[q]], COMPLETE, "run")
      <4>1. /\ batch[q][at[q]] \in Events \cup {None}
            /\ "exec" \in Labels /\ "run" \in Labels
        BY <3>2, <2>1, <1>l
      <4>2. \A s \in COMPLETE .. QUEUED :
              [f EXCEPT ![q].pc = "exec", ![q].e = batch[q][at[q]], ![q].to = s, ![q].ret = "run"]
                \in [Procs -> Frames]
        BY ZenonT(60), <4>1, <1>q, <1>f, CallExecType
      <4> QED
        BY Zenon, <3>2, <4>2, <1>n DEF CallExec
    <3> QED
      BY <1>6, <3>1, <3>2 DEF WorkerRun
  <2>3. asleep' \in [Procs -> Events \cup Queues \cup {Ctx, None}]
    BY <1>6, WakeType DEF WorkerRun, TypeOK
  <2>4. at' \in [Queues -> Nat \ {0}]
    <3>1. at' = [at EXCEPT ![q] = Front] \/ at' = [at EXCEPT ![q] = @ + 1]
      BY <1>6 DEF WorkerRun
    <3>2. at[q] + 1 \in Nat \ {0} /\ at \in [Queues -> Nat \ {0}]
      BY <1>s DEF TypeOK
    <3> QED
      BY <3>1, <3>2, <1>n, ExceptType
  <2>x. inExec' \in [Queues -> COMPLETE .. QUEUED]
    <3>1. inExec' = inExec \/ inExec' = [inExec EXCEPT ![q] = COMPLETE]
      BY <1>6 DEF WorkerRun
    <3> QED
      BY Zenon, <3>1, <1>n, <1>t, ExceptType
  <2>b. batch' \in [Queues -> Seq(Events)]
    <3>1. batch' = batch \/ batch' = [batch EXCEPT ![q] = <<>>]
      BY <1>6 DEF WorkerRun
    <3> QED
      BY Zenon, <3>1, <1>s, <1>t, ExceptType
  <2>5. WorkerControl(q)' /\ \A r \in Procs \ {q} : f'[r] = f[r]
    BY <1>6, <1>q, <1>f, <2>1
       DEF WorkerRun, CallExec, Idle, WorkerControl, WorkerLabels, ExecLabels, HasEvent, Frames
  <2> QED
    BY <1>6, <1>q, <2>2, <2>3, <2>4, <2>x, <2>b, <2>5, ControlLocal DEF WorkerRun, TypeOK
<1> QED
  BY <1>1, <1>2, <1>3, <1>4, <1>5, <1>6 DEF WorkerStep

=============================================================================
