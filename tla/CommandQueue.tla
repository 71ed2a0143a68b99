---------------------------- MODULE CommandQueue ----------------------------
(***************************************************************************)
(* The command queues of one OpenCL context: application threads inside    *)
(* the clEnqueue* / clFlush / clFinish / clRelease* entry points, and one  *)
(* worker thread per queue (worker_thread_function).                       *)
(*                                                                         *)
(* A step is what the code does while it holds one lock, or one unlocked   *)
(* read.  The only lock held across several steps is the queue mutex that  *)
(* the worker keeps from retiring a batch to the end of its next scan; see *)
(* LockFree.  A process blocked in pthread_cond_wait is "asleep" on the    *)
(* object whose condition variable it waits on and runs again only after a *)
(* broadcast on that object.  Spurious wake-ups are not modelled: every    *)
(* wait of this code re-tests its condition, so they add no behaviour.     *)
(***************************************************************************)
EXTENDS Integers, Sequences, FiniteSets

CONSTANTS
  Threads,      \* application threads
  Hosts,        \* the threads among them that create and set user events
  Queues,       \* command queues; a queue also names its worker thread
  Events,       \* the pool cl_event_create allocates from (the bound)
  InitQueues,   \* queues that exist initially, held by every other thread
  OutOfOrder,   \* queues with CL_QUEUE_OUT_OF_ORDER_EXEC_MODE_ENABLE
  Calls,        \* the entry points the application uses
  Blocking,     \* values of the blocking_* argument the application passes
  MaxWaitList,  \* bound on num_events_in_wait_list
  MayFail,      \* whether a command handler may return an error
  None,         \* no event, no queue, or awake
  Ctx           \* the context, as an object with a condition variable

COMPLETE  == 0
RUNNING   == 1
SUBMITTED == 2
QUEUED    == 3
UNKNOWN   == 4      \* CL_EVENT_STATE_UNKNOWN
ERROR     == -1     \* every negative execution status

Status == ERROR .. UNKNOWN

Procs == Threads \cup Queues

(* "cmd": read, write, unmap, SVM commands; "map": map buffer or image;    *)
(* "nd": clEnqueueNDRangeKernel; "copy": copies and fills, which run as    *)
(* kernels; "native": clEnqueueNativeKernel;                               *)
(* "marker", "barrier": with a wait list; "..._all": without one.          *)
Markers  == {"marker", "marker_all"}
Barriers == {"barrier", "barrier_all"}
WaitAll  == {"marker_all", "barrier_all"}
CommandKinds == {"cmd", "map", "nd", "copy", "native"} \cup Markers \cup Barriers
SyncCalls    == {"flush", "finish"}
OtherCalls   == {"user", "wait", "release", "newqueue"}

ASSUME ConstantsOK ==
  /\ Hosts \subseteq Threads /\ InitQueues \subseteq Queues /\ OutOfOrder \subseteq Queues
  /\ Calls \subseteq CommandKinds \cup SyncCalls \cup OtherCalls
  /\ Blocking \subseteq BOOLEAN /\ MayFail \in BOOLEAN
  /\ MaxWaitList \in Nat
  /\ Cardinality(Threads \ Hosts) \in Nat
  /\ Threads \cap Queues = {} /\ Procs \cap Events = {}
  /\ None \notin Procs \cup Events \cup {Ctx} /\ Ctx \notin Procs \cup Events

VARIABLES
  (* cl_event *)
  status, kind, queue, deps,
  (* cl_command_queue and its worker *)
  enq,        \* worker.enqueued_events
  barriers,   \* barrier_events
  batch,      \* the worker's ready_list
  at,         \* the worker's position in the list it is walking
  seen,       \* the worker's local cookie equals worker.cookie
  inExec,     \* worker.in_exec_status
  quit, ref,
  (* cl_context *)
  listed,     \* ctx->queues
  disable,    \* ctx->queue_modify_disable
  (* threads *)
  f,          \* program counter and locals of each process
  asleep,     \* the object each process waits on, or None
  holds,      \* queue references the application threads own
  issued,     \* events returned by a successful call
  (* history, read by properties only *)
  needs,      \* the wait list an event was created with
  prior       \* events of its queue issued before its call began

evVars  == <<status, kind, queue, deps>>
qVars   == <<enq, barriers, batch, at, seen, inExec, quit, ref>>
ctxVars == <<listed, disable>>
appVars == <<holds, issued, needs, prior>>
vars    == <<evVars, qVars, ctxVars, f, asleep, appVars>>

Idle == [pc |-> "idle", e |-> None, q |-> None, kind |-> "none", to |-> COMPLETE,
         ret |-> "idle", todo |-> {}, flag |-> FALSE, since |-> {}]

Init ==
  /\ status = [e \in Events |-> UNKNOWN]
  /\ kind = [e \in Events |-> "none"]
  /\ queue = [e \in Events |-> None]
  /\ deps = [e \in Events |-> {}]
  /\ enq = [q \in Queues |-> <<>>]
  /\ barriers = [q \in Queues |-> {}]
  /\ batch = [q \in Queues |-> <<>>]
  /\ at = [q \in Queues |-> 1]
  /\ seen = [q \in Queues |-> FALSE]
  /\ inExec = [q \in Queues |-> COMPLETE]
  /\ quit = [q \in Queues |-> FALSE]
  /\ ref = [q \in Queues |-> IF q \in InitQueues THEN Cardinality(Threads \ Hosts) ELSE 0]
  /\ listed = InitQueues
  /\ disable = 0
  /\ f = [p \in Procs |-> IF p \in Queues \ InitQueues
                          THEN [Idle EXCEPT !.pc = "none"] ELSE Idle]
  /\ asleep = [p \in Procs |-> None]
  /\ holds = [t \in Threads |-> IF t \in Hosts THEN {} ELSE InitQueues]
  /\ issued = {}
  /\ needs = [e \in Events |-> {}]
  /\ prior = [e \in Events |-> {}]

-----------------------------------------------------------------------------
(* Locks, condition variables and control.                                 *)

At(p, label) == asleep[p] = None /\ f[p].pc = label

LockFree(q) == f[q].pc \notin {"top", "scan"}

(* pthread_cond_broadcast on each of objs.                                 *)
Wake(objs) == asleep' = [p \in Procs |-> IF asleep[p] \in objs THEN None ELSE asleep[p]]

Sleep(p, obj) ==
  /\ asleep' = [asleep EXCEPT ![p] = obj]
  /\ UNCHANGED f

Goto(p, label) == f' = [f EXCEPT ![p].pc = label]

(* cl_event_exec(e, s, _), returning to label.                             *)
CallExec(p, e, s, label) ==
  f' = [f EXCEPT ![p].pc = "exec", ![p].e = e, ![p].to = s, ![p].ret = label]

(* Wait until every event of es has reached s, then continue at label.     *)
CallAwait(p, es, s, label) ==
  f' = [f EXCEPT ![p].pc = "await", ![p].todo = es, ![p].to = s, ![p].ret = label]

(* cl_command_queue_wait_flush (s = SUBMITTED), wait_finish (COMPLETE).    *)
CallSync(p, s, label) ==
  f' = [f EXCEPT ![p].pc = "sync", ![p].to = s, ![p].ret = label]

(* Mutant of Pending: one finished dependency is taken for all.            *)
PendingIfAll(e) == deps[e] # {} /\ \A d \in deps[e] : status[d] > COMPLETE

(* cl_event_is_ready: not ready, ready, or a dependency has failed.        *)
Pending(e) == \E d \in deps[e] : status[d] > COMPLETE
Ready(e)   == \A d \in deps[e] : status[d] = COMPLETE
Failed(e)  == ~Pending(e) /\ \E d \in deps[e] : status[d] < COMPLETE

cl_command_queue_allow_bypass_submit(q) == q \in OutOfOrder \/ enq[q] = <<>>

(* Mutant of Touch: the cookie is not incremented.                         *)
TouchNot(q) == UNCHANGED seen

(* worker.cookie++.  Only its equality with the worker's local copy counts,*)
(* which a change breaks until the worker copies the cookie again.         *)
Touch(q) == seen' = [seen EXCEPT ![q] = FALSE]

(* Mutant of Busy: the batch in execution is not waited for.               *)
NeverBusy(q, s) == FALSE

(* The batch the worker has taken off the list has not reached s.          *)
Busy(q, s) == inExec[q] > s

(* Mutant of CanModifyQueues: queue_modify_disable is not tested.          *)
AlwaysModify == TRUE

CanModifyQueues == disable = 0

Range(s) == {s[i] : i \in DOMAIN s}

(* cl_command_queue_record_in_queue_events.                                *)
Recorded(q) == Range(enq[q])

Without(s, i) == [j \in 1 .. Len(s) - 1 |-> IF j < i THEN s[j] ELSE s[j + 1]]

-----------------------------------------------------------------------------
(* cl_event_exec and cl_event_set_status, run by threads and workers.      *)

(* Mutant of AfterStatus: a barrier without a wait list is not removed.    *)
AfterStatusKeep(e) == IF kind[e] = "barrier" THEN "rmbar" ELSE "disable"

(* Where cl_event_set_status continues once the new status is written.     *)
AfterStatus(e) == IF kind[e] \in Barriers THEN "rmbar" ELSE "disable"

(* Mutant of MaySet: a finished event may be set again.                    *)
MaySetAgain(e, s) == TRUE

(* Already error or completed, or going back: CL_INVALID_OPERATION.        *)
MaySet(e, s) == status[e] > COMPLETE /\ s < status[e]

(* cl_event_set_status up to the unlock: write the status, wake waiters.   *)
SetStatus(e, s) ==
  /\ status' = [status EXCEPT ![e] = IF MaySet(e, s) THEN s ELSE @]
  /\ Wake(IF MaySet(e, s) THEN {e} ELSE {})

ExecEnter(p) ==
  LET e == f[p].e
      fail == IF p \in Threads THEN "fail" ELSE f[p].ret
  IN
  /\ At(p, "exec")
  /\ \/ (* already failed: nothing to run *)
        /\ status[e] < COMPLETE
        /\ Goto(p, f[p].ret)
        /\ UNCHANGED <<evVars, asleep>>
     \/ (* a dependency failed: take over its error *)
        /\ status[e] >= COMPLETE /\ Failed(e)
        /\ SetStatus(e, ERROR)
        /\ deps' = [deps EXCEPT ![e] = {}]
        /\ f' = [f EXCEPT ![p].pc = IF MaySet(e, ERROR) THEN AfterStatus(e) ELSE fail,
                          ![p].ret = fail]
        /\ UNCHANGED <<kind, queue>>
     \/ (* run, ready or (map, or queueing only) not *)
        /\ status[e] >= COMPLETE /\ ~Failed(e)
        /\ deps' = [deps EXCEPT ![e] = IF Ready(e) THEN {} ELSE @]
        /\ Goto(p, IF status[e] > f[p].to THEN "step" ELSE f[p].ret)
        /\ UNCHANGED <<status, kind, queue, asleep>>
  /\ UNCHANGED <<qVars, ctxVars, appVars>>

(* cl_enqueue_handle: only map and ndrange act at CL_SUBMITTED, and every  *)
(* handler of a real command may fail at CL_COMPLETE.  A map that fails at *)
(* CL_SUBMITTED aborts the process in clEnqueueMap*.                       *)
HandlerMayFail(e, s) ==
  MayFail /\ \/ s = SUBMITTED /\ kind[e] \in {"nd", "copy"}
             \/ s = COMPLETE /\ kind[e] \in {"cmd", "map", "nd", "copy", "native"}

ExecStep(p) ==
  LET e == f[p].e
      s == status[e] - 1
  IN
  /\ At(p, "step")
  /\ s >= f[p].to
  /\ \/ /\ SetStatus(e, s)
        /\ Goto(p, CASE s = COMPLETE -> AfterStatus(e)
                     [] s > COMPLETE /\ s = f[p].to -> f[p].ret
                     [] OTHER -> "step")
     \/ /\ HandlerMayFail(e, s)
        /\ SetStatus(e, ERROR)
        /\ Goto(p, AfterStatus(e))
  /\ UNCHANGED <<kind, queue, deps, qVars, ctxVars, appVars>>

RemoveBarrier(p) ==
  LET e == f[p].e
      q == queue[e]
  IN
  /\ At(p, "rmbar")
  /\ LockFree(q)
  /\ barriers' = [barriers EXCEPT ![q] = @ \ {e}]
  /\ Goto(p, "disable")
  /\ UNCHANGED <<evVars, enq, batch, at, seen, inExec, quit, ref, ctxVars, asleep, appVars>>

DisableModify(p) ==
  /\ At(p, "disable")
  /\ disable' = disable + 1
  /\ f' = [f EXCEPT ![p].pc = "notify", ![p].todo = listed]
  /\ UNCHANGED <<evVars, qVars, listed, asleep, appVars>>

(* cl_command_queue_notify, for each queue of the context in turn.         *)
NotifyQueue(p) ==
  /\ At(p, "notify")
  /\ \E q \in f[p].todo :
       /\ f' = [f EXCEPT ![p].todo = @ \ {q}]
       /\ \/ /\ ref[q] < 1
             /\ UNCHANGED <<seen, asleep>>
          \/ /\ ref[q] >= 1 /\ LockFree(q)
             /\ Touch(q)
             /\ Wake({q})
  /\ UNCHANGED <<evVars, enq, barriers, batch, at, inExec, quit, ref, ctxVars, appVars>>

EnableModify(p) ==
  /\ At(p, "notify")
  /\ f[p].todo = {}
  /\ disable' = disable - 1
  /\ Wake({Ctx})
  /\ Goto(p, f[p].ret)
  /\ UNCHANGED <<evVars, qVars, listed, appVars>>

-----------------------------------------------------------------------------
(* worker_thread_function of queue q, run by process q.                    *)

(* Mutant of Front: the walk starts one off the list.                      *)
FrontOff == 0

(* Where a walk of a list starts.                                          *)
Front == 1

(* Mutant of Takes: a dependency that is submitted is taken for complete.  *)
TakesSubmitted(e) == \A d \in deps[e] : status[d] <= SUBMITTED

(* cl_event_is_ready(e) <= CL_COMPLETE, as the worker tests it.            *)
Takes(e) == ~Pending(e)

(* Mutant of SkipTo: no break, an in-order queue skips events too.         *)
SkipToNext(q, i) == i + 1

(* After an event that is not ready: out of order, the next one; an        *)
(* in-order queue can't skip over it and leaves the list.                  *)
SkipTo(q, i) == IF q \in OutOfOrder THEN i + 1 ELSE Len(enq[q]) + 1

(* The head of the loop: quit, wait, or start a scan of the list.          *)
WorkerTop(q) ==
  /\ At(q, "idle") \/ At(q, "top")
  /\ \/ /\ quit[q]
        /\ Goto(q, "dead")
        /\ UNCHANGED <<batch, at, asleep>>
     \/ /\ ~quit[q]
        /\ enq[q] = <<>> \/ seen[q]
        /\ asleep' = [asleep EXCEPT ![q] = q]
        /\ Goto(q, "idle")
        /\ UNCHANGED <<batch, at>>
     \/ /\ ~quit[q]
        /\ enq[q] # <<>> /\ ~seen[q]
        /\ at' = [at EXCEPT ![q] = Front]
        /\ batch' = [batch EXCEPT ![q] = <<>>]
        /\ Goto(q, "scan")
        /\ UNCHANGED asleep
  /\ UNCHANGED <<evVars, enq, barriers, seen, inExec, quit, ref, ctxVars, appVars>>

(* One event of enqueued_events is tested: a ready one moves to the ready  *)
(* list.                                                                   *)
WorkerScan(q) ==
  LET i == at[q]
      e == enq[q][i]
  IN
  /\ At(q, "scan")
  /\ i <= Len(enq[q])
  /\ IF Takes(e)
       THEN /\ enq' = [enq EXCEPT ![q] = Without(@, i)]
            /\ batch' = [batch EXCEPT ![q] = Append(@, e)]
            /\ UNCHANGED at
       ELSE /\ at' = [at EXCEPT ![q] = SkipTo(q, i)]
            /\ UNCHANGED <<enq, batch>>
  /\ UNCHANGED <<evVars, barriers, seen, inExec, quit, ref, ctxVars, f, asleep, appVars>>

WorkerScanned(q) ==
  /\ At(q, "scan")
  /\ at[q] > Len(enq[q])
  /\ \/ /\ batch[q] = <<>>
        /\ seen' = [seen EXCEPT ![q] = TRUE]
        /\ Goto(q, "top")
        /\ UNCHANGED <<at, inExec, asleep>>
     \/ /\ batch[q] # <<>>
        /\ Wake({q})
        /\ inExec' = [inExec EXCEPT ![q] = QUEUED]
        /\ at' = [at EXCEPT ![q] = Front]
        /\ Goto(q, IF q \in OutOfOrder THEN "submit" ELSE "run")
        /\ UNCHANGED seen
  /\ UNCHANGED <<evVars, enq, barriers, batch, quit, ref, ctxVars, appVars>>

(* Out of order only: every ready event is submitted before any completes. *)
WorkerSubmit(q) ==
  /\ At(q, "submit")
  /\ \/ /\ at[q] <= Len(batch[q])
        /\ CallExec(q, batch[q][at[q]], SUBMITTED, "submit")
        /\ at' = [at EXCEPT ![q] = @ + 1]
        /\ UNCHANGED <<inExec, asleep>>
     \/ /\ at[q] > Len(batch[q]) /\ LockFree(q)
        /\ inExec' = [inExec EXCEPT ![q] = SUBMITTED]
        /\ Wake({q})
        /\ at' = [at EXCEPT ![q] = Front]
        /\ Goto(q, "run")
  /\ UNCHANGED <<evVars, enq, barriers, batch, seen, quit, ref, ctxVars, appVars>>

WorkerRun(q) ==
  /\ At(q, "run")
  /\ \/ /\ at[q] <= Len(batch[q])
        /\ CallExec(q, batch[q][at[q]], COMPLETE, "run")
        /\ at' = [at EXCEPT ![q] = @ + 1]
        /\ UNCHANGED <<batch, inExec, asleep>>
     \/ /\ at[q] > Len(batch[q])
        /\ batch' = [batch EXCEPT ![q] = <<>>]
        /\ at' = [at EXCEPT ![q] = Front]
        /\ inExec' = [inExec EXCEPT ![q] = COMPLETE]
        /\ Wake({q})
        /\ f' = [f EXCEPT ![q] = [Idle EXCEPT !.pc = "top"]]
  /\ UNCHANGED <<evVars, enq, barriers, seen, quit, ref, ctxVars, appVars>>

-----------------------------------------------------------------------------
(* The entry points, run by application thread t.                          *)

Free == {e \in Events : kind[e] = "none"}
New  == CHOOSE e \in Free : TRUE

(* The pool has an event for every call that is about to create one.       *)
HasNew ==
  /\ Free # {}
  /\ Cardinality(Free) > Cardinality({t \in Threads : f[t].pc \in {"record", "create"}})

Begin(t, call) ==
  /\ At(t, "idle")
  /\ call \in Calls
  /\ (t \in Hosts) <=> (call = "user")

clCreateUserEvent(t) ==
  /\ Begin(t, "user")
  /\ HasNew
  /\ kind' = [kind EXCEPT ![New] = "user"]
  /\ status' = [status EXCEPT ![New] = SUBMITTED]
  /\ issued' = issued \cup {New}
  /\ UNCHANGED <<queue, deps, qVars, ctxVars, f, asleep, holds, needs, prior>>

(* CL_COMPLETE or a negative status.                                       *)
clSetUserEventStatus(t) ==
  /\ Begin(t, "user")
  /\ \E e \in issued, s \in IF MayFail THEN {COMPLETE, ERROR} ELSE {COMPLETE} :
       /\ kind[e] = "user" /\ MaySet(e, s)
       /\ SetStatus(e, s)
       /\ f' = [f EXCEPT ![t] = [Idle EXCEPT !.pc = AfterStatus(e), !.ret = "done",
                                             !.kind = "set", !.e = e]]
  /\ UNCHANGED <<kind, queue, deps, qVars, ctxVars, appVars>>

WaitLists == {wl \in SUBSET issued : Cardinality(wl) <= MaxWaitList}

(* A clEnqueue* call on q.  A marker or barrier without a wait list first  *)
(* records the events of the queue; clEnqueueNDRangeKernel decides here    *)
(* whether it may submit at once (flag), the blocking flag of the others.  *)
EnqueueFrame(k, q, wl, b) ==
  [pc |-> IF k \in WaitAll THEN "record" ELSE "create",
   e |-> None, q |-> q, kind |-> k, to |-> COMPLETE, ret |-> "idle", todo |-> wl,
   flag |-> IF k = "nd" THEN cl_command_queue_allow_bypass_submit(q) ELSE b,
   since |-> issued]

clEnqueue(t) ==
  \E k \in CommandKinds, q \in holds[t], wl \in WaitLists, b \in Blocking :
    /\ Begin(t, k)
    /\ HasNew
    /\ b => k \in {"cmd", "map"}
    /\ k \in WaitAll => wl = {}
    /\ k \in {"marker", "barrier"} => wl # {}
    /\ f' = [f EXCEPT ![t] = EnqueueFrame(k, q, wl, b)]
    /\ UNCHANGED <<evVars, qVars, ctxVars, asleep, appVars>>

(* cl_event_create_marker_or_barrier without a wait list: once the worker  *)
(* has retired its batch, the new event depends on all enqueued events.    *)
RecordInQueue(t) ==
  LET q == f[t].q IN
  /\ At(t, "record")
  /\ LockFree(q)
  /\ \/ /\ Busy(q, COMPLETE)
        /\ Sleep(t, q)
     \/ /\ ~Busy(q, COMPLETE)
        /\ f' = [f EXCEPT ![t].pc = "create", ![t].todo = Recorded(q)]
        /\ UNCHANGED asleep
  /\ UNCHANGED <<evVars, qVars, ctxVars, appVars>>

(* cl_event_create: the wait list and the queue's barriers become the      *)
(* dependencies.  A blocking call then waits for them and flushes.         *)
CreateEvent(t) ==
  LET q == f[t].q IN
  /\ At(t, "create")
  /\ Free # {}
  /\ LockFree(q)
  /\ kind' = [kind EXCEPT ![New] = f[t].kind]
  /\ queue' = [queue EXCEPT ![New] = q]
  /\ deps' = [deps EXCEPT ![New] = f[t].todo \cup barriers[q]]
  /\ needs' = [needs EXCEPT ![New] = f[t].todo]
  /\ prior' = [prior EXCEPT ![New] = {e \in f[t].since : queue[e] = q}]
  /\ f' = [f EXCEPT ![t].e = New, ![t].todo = f[t].todo \cup barriers[q],
                    ![t].to = COMPLETE, ![t].ret = "flush",
                    ![t].pc = IF f[t].kind # "nd" /\ f[t].flag THEN "await" ELSE "decide"]
  /\ UNCHANGED <<status, qVars, ctxVars, asleep, holds, issued>>

(* cl_event_wait_for_events_list, and the loops over recorded events of    *)
(* wait_flush and wait_finish.  The list order is left open: t sleeps on   *)
(* any event that is late.  A blocking call that has waited for its        *)
(* dependencies returns an error when one failed, else it flushes.         *)
AwaitEvents(t) ==
  LET late == {e \in f[t].todo : status[e] > f[t].to}
      dead == {e \in f[t].todo : status[e] < COMPLETE}
  IN
  /\ At(t, "await")
  /\ \/ \E e \in late : Sleep(t, e)
     \/ /\ late = {}
        /\ f' = [f EXCEPT ![t].todo = {}, ![t].to = COMPLETE, ![t].pc = f[t].ret]
        /\ f[t].ret # "flush"
        /\ UNCHANGED asleep
     \/ /\ late = {} /\ f[t].ret = "flush"
        /\ IF dead # {} THEN Goto(t, "fail") ELSE CallSync(t, SUBMITTED, "decide")
        /\ UNCHANGED asleep
  /\ UNCHANGED <<evVars, qVars, ctxVars, appVars>>

(* cl_command_queue_wait_flush / wait_finish: record the enqueued events.. *)
SyncRecord(t) ==
  LET q == f[t].q IN
  /\ At(t, "sync")
  /\ LockFree(q)
  /\ f' = [f EXCEPT ![t].pc = "syncwait", ![t].todo = Recorded(q)]
  /\ UNCHANGED <<evVars, qVars, ctxVars, asleep, appVars>>

(* ..wait for the batch in execution, then for the recorded events.        *)
SyncWait(t) ==
  LET q == f[t].q IN
  /\ At(t, "syncwait")
  /\ LockFree(q)
  /\ \/ /\ Busy(q, f[t].to)
        /\ Sleep(t, q)
     \/ /\ ~Busy(q, f[t].to)
        /\ Goto(t, "await")
        /\ UNCHANGED asleep
  /\ UNCHANGED <<evVars, qVars, ctxVars, appVars>>

(* cl_event_is_ready, then run the command here or queue it.  If a         *)
(* dependency has failed the call returns an error.                        *)
DecideFail(t) ==
  /\ Failed(f[t].e)
  /\ Goto(t, "fail")

(* Read, write, unmap, SVM: run at once, or queue.                         *)
DecideCommand(t) ==
  LET now == cl_command_queue_allow_bypass_submit(f[t].q) /\ Ready(f[t].e) IN
  /\ f[t].kind = "cmd"
  /\ IF now THEN CallExec(t, f[t].e, COMPLETE, "done")
            ELSE CallExec(t, f[t].e, QUEUED, "enqueue")

(* Map: a map that has to wait is submitted first, to get the address.     *)
DecideMap(t) ==
  LET now == cl_command_queue_allow_bypass_submit(f[t].q) /\ Ready(f[t].e) IN
  /\ f[t].kind = "map"
  /\ IF now THEN CallExec(t, f[t].e, COMPLETE, "done")
            ELSE CallExec(t, f[t].e, SUBMITTED, "enqueue")

(* Kernels complete in the worker only.                                    *)
DecideKernel(t) ==
  /\ f[t].kind = "nd"
  /\ CallExec(t, f[t].e, IF f[t].flag /\ Ready(f[t].e) THEN SUBMITTED ELSE QUEUED, "enqueue")

DecideCopy(t) ==
  LET now == cl_command_queue_allow_bypass_submit(f[t].q) /\ Ready(f[t].e) IN
  /\ f[t].kind = "copy"
  /\ CallExec(t, f[t].e, IF now THEN SUBMITTED ELSE QUEUED, "enqueue")

DecideNative(t) ==
  /\ f[t].kind = "native"
  /\ IF Ready(f[t].e) THEN CallExec(t, f[t].e, COMPLETE, "done")
                      ELSE CallExec(t, f[t].e, QUEUED, "enqueue")

DecideMarker(t) ==
  /\ f[t].kind \in Markers
  /\ IF Ready(f[t].e) THEN CallExec(t, f[t].e, COMPLETE, "done") ELSE Goto(t, "enqueue")

DecideBarrier(t) ==
  /\ f[t].kind \in Barriers
  /\ f' = [f EXCEPT ![t].pc = "insbar", ![t].ret = IF Ready(f[t].e) THEN "exec" ELSE "enqueue"]

Decide(t) ==
  /\ At(t, "decide")
  /\ \/ DecideFail(t)
     \/ /\ ~Failed(f[t].e)
        /\ \/ DecideCommand(t) \/ DecideMap(t) \/ DecideKernel(t) \/ DecideCopy(t)
           \/ DecideNative(t) \/ DecideMarker(t) \/ DecideBarrier(t)
  /\ UNCHANGED <<evVars, qVars, ctxVars, asleep, appVars>>

(* Mutant of InsertBarrier: a barrier that is run here is enqueued too.    *)
InsertBarrierTwice(t) ==
  LET q == f[t].q IN
  /\ At(t, "insbar")
  /\ LockFree(q)
  /\ barriers' = [barriers EXCEPT ![q] = @ \cup {f[t].e}]
  /\ enq' = [enq EXCEPT ![q] = Append(@, f[t].e)]
  /\ Touch(q)
  /\ Wake({q})
  /\ IF f[t].ret = "exec" THEN CallExec(t, f[t].e, COMPLETE, "done") ELSE Goto(t, "done")
  /\ UNCHANGED <<evVars, batch, at, inExec, quit, ref, ctxVars, appVars>>

(* cl_command_queue_insert_barrier_event, before the barrier runs or is    *)
(* enqueued.                                                               *)
InsertBarrier(t) ==
  LET q == f[t].q IN
  /\ At(t, "insbar")
  /\ LockFree(q)
  /\ barriers' = [barriers EXCEPT ![q] = @ \cup {f[t].e}]
  /\ IF f[t].ret = "exec" THEN CallExec(t, f[t].e, COMPLETE, "done") ELSE Goto(t, "enqueue")
  /\ UNCHANGED <<evVars, enq, batch, at, seen, inExec, quit, ref, ctxVars, asleep, appVars>>

(* cl_command_queue_enqueue_event; a blocking call then waits for e.       *)
EnqueueEvent(t) ==
  LET q == f[t].q
      e == f[t].e
  IN
  /\ At(t, "enqueue")
  /\ LockFree(q)
  /\ enq' = [enq EXCEPT ![q] = Append(@, e)]
  /\ Touch(q)
  /\ Wake({q})
  /\ IF f[t].kind # "nd" /\ f[t].flag THEN CallAwait(t, {e}, COMPLETE, "done") ELSE Goto(t, "done")
  /\ UNCHANGED <<evVars, barriers, batch, at, inExec, quit, ref, ctxVars, appVars>>

(* The call returns; on an error the event is deleted and never seen.      *)
Return(t) ==
  /\ At(t, "done") \/ At(t, "fail")
  /\ issued' = issued \cup (IF f[t].pc = "done" THEN {f[t].e} \ {None} ELSE {})
  /\ f' = [f EXCEPT ![t] = Idle]
  /\ UNCHANGED <<evVars, qVars, ctxVars, asleep, holds, needs, prior>>

-----------------------------------------------------------------------------
(* clFlush, clFinish, clWaitForEvents, and the life of a queue.            *)

clFlushOrFinish(t) ==
  \E c \in SyncCalls, q \in holds[t] :
    /\ Begin(t, c)
    /\ f' = [f EXCEPT ![t] =
         [Idle EXCEPT !.pc = "sync", !.kind = c, !.q = q, !.since = issued, !.ret = "done",
                      !.to = IF c = "flush" THEN SUBMITTED ELSE COMPLETE]]
    /\ UNCHANGED <<evVars, qVars, ctxVars, asleep, appVars>>

(* An event that has already failed is reported at once.                   *)
clWaitForEvents(t) ==
  \E wl \in WaitLists \ {{}} :
    /\ Begin(t, "wait")
    /\ \A e \in wl : status[e] >= COMPLETE
    /\ f' = [f EXCEPT ![t] =
         [Idle EXCEPT !.pc = "await", !.kind = "wait", !.todo = wl, !.ret = "done"]]
    /\ UNCHANGED <<evVars, qVars, ctxVars, asleep, appVars>>

(* clCreateCommandQueueWithProperties: the worker starts before the queue  *)
(* enters the context's list.                                              *)
clCreateCommandQueue(t) ==
  \E q \in Queues :
    /\ Begin(t, "newqueue")
    /\ f[q].pc = "none"
    /\ f' = [f EXCEPT ![q] = Idle, ![t] = [Idle EXCEPT !.pc = "addqueue", !.q = q]]
    /\ ref' = [ref EXCEPT ![q] = 1]
    /\ UNCHANGED <<evVars, enq, barriers, batch, at, seen, inExec, quit, ctxVars, asleep, appVars>>

(* cl_context_add_queue waits while some cl_event_set_status walks the     *)
(* list.                                                                   *)
AddQueue(t) ==
  /\ At(t, "addqueue")
  /\ \/ /\ ~CanModifyQueues
        /\ Sleep(t, Ctx)
        /\ UNCHANGED <<listed, holds>>
     \/ /\ CanModifyQueues
        /\ listed' = listed \cup {f[t].q}
        /\ holds' = [holds EXCEPT ![t] = @ \cup {f[t].q}]
        /\ Goto(t, "done")
        /\ UNCHANGED asleep
  /\ UNCHANGED <<evVars, qVars, disable, issued, needs, prior>>

clReleaseCommandQueue(t) ==
  \E q \in holds[t] :
    /\ Begin(t, "release")
    /\ holds' = [holds EXCEPT ![t] = @ \ {q}]
    /\ f' = [f EXCEPT ![t] =
         [Idle EXCEPT !.pc = "sync", !.kind = "release", !.q = q, !.since = issued,
                      !.to = SUBMITTED, !.ret = "unref"]]
    /\ UNCHANGED <<evVars, qVars, ctxVars, asleep, issued, needs, prior>>

(* cl_command_queue_delete: the last reference waits for all commands..    *)
ReleaseRef(t) ==
  LET q == f[t].q IN
  /\ At(t, "unref")
  /\ ref' = [ref EXCEPT ![q] = @ - 1]
  /\ IF ref[q] > 1 THEN Goto(t, "done") ELSE CallSync(t, COMPLETE, "remove")
  /\ UNCHANGED <<evVars, enq, barriers, batch, at, seen, inExec, quit, ctxVars, asleep, appVars>>

(* ..leaves the context's list (cl_context_remove_queue)..                 *)
RemoveQueue(t) ==
  /\ At(t, "remove")
  /\ \/ /\ ~CanModifyQueues
        /\ Sleep(t, Ctx)
        /\ UNCHANGED listed
     \/ /\ CanModifyQueues
        /\ listed' = listed \ {f[t].q}
        /\ Goto(t, "quit")
        /\ UNCHANGED asleep
  /\ UNCHANGED <<evVars, qVars, disable, appVars>>

(* ..and stops and joins the worker (cl_command_queue_destroy_enqueue).    *)
StopWorker(t) ==
  LET q == f[t].q IN
  /\ At(t, "quit")
  /\ LockFree(q)
  /\ quit' = [quit EXCEPT ![q] = TRUE]
  /\ Wake({q})
  /\ Goto(t, "join")
  /\ UNCHANGED <<evVars, enq, barriers, batch, at, seen, inExec, ref, ctxVars, appVars>>

JoinWorker(t) ==
  LET q == f[t].q IN
  /\ At(t, "join")
  /\ f[q].pc = "dead"
  /\ f' = [f EXCEPT ![q].pc = "freed", ![t].pc = "done"]
  /\ UNCHANGED <<evVars, qVars, ctxVars, asleep, appVars>>

-----------------------------------------------------------------------------
(* cl_event_exec, cl_event_set_status: common to threads and workers.      *)
EventStep(p) ==
  \/ ExecEnter(p) \/ ExecStep(p)
  \/ RemoveBarrier(p) \/ DisableModify(p) \/ NotifyQueue(p) \/ EnableModify(p)

WorkerStep(q) ==
  \/ EventStep(q)
  \/ WorkerTop(q) \/ WorkerScan(q) \/ WorkerScanned(q)
  \/ WorkerSubmit(q) \/ WorkerRun(q)

(* The steps of a thread inside a call..                                   *)
CallStep(t) ==
  \/ EventStep(t)
  \/ RecordInQueue(t) \/ CreateEvent(t) \/ AwaitEvents(t)
  \/ SyncRecord(t) \/ SyncWait(t)
  \/ Decide(t) \/ InsertBarrier(t) \/ EnqueueEvent(t) \/ Return(t)
  \/ AddQueue(t) \/ ReleaseRef(t) \/ RemoveQueue(t) \/ StopWorker(t) \/ JoinWorker(t)

(* ..and the calls the application chooses to make.                        *)
AppStep(t) ==
  \/ clCreateUserEvent(t) \/ clSetUserEventStatus(t)
  \/ clEnqueue(t) \/ clFlushOrFinish(t) \/ clWaitForEvents(t)
  \/ clCreateCommandQueue(t) \/ clReleaseCommandQueue(t)

Next ==
  \/ \E t \in Threads : CallStep(t) \/ AppStep(t)
  \/ \E q \in Queues : WorkerStep(q)

(* Every thread that is inside the library keeps running, and the          *)
(* application sets its user events; it need not make any other call.      *)
Fairness ==
  /\ \A t \in Threads : WF_vars(CallStep(t))
  /\ \A t \in Hosts : WF_vars(clSetUserEventStatus(t))
  /\ \A q \in Queues : WF_vars(WorkerStep(q))

Spec == Init /\ [][Next]_vars

FairSpec == Spec /\ Fairness

-----------------------------------------------------------------------------
(* Properties.                                                             *)

Labels == {"idle", "none", "exec", "step", "rmbar", "disable", "notify",
           "top", "scan", "submit", "run", "dead", "freed",
           "record", "create", "await", "flush", "sync", "syncwait", "decide",
           "insbar", "enqueue", "done", "fail",
           "addqueue", "unref", "remove", "quit", "join"}

Frames == [pc : Labels, e : Events \cup {None}, q : Queues \cup {None},
           kind : CommandKinds \cup SyncCalls \cup {"none", "set", "wait", "release"},
           to : COMPLETE .. QUEUED, ret : Labels,
           todo : SUBSET (Events \cup Queues), flag : BOOLEAN, since : SUBSET Events]

(* Every variable keeps the type of the field or local it stands for.      *)
TypeOK ==
  /\ status \in [Events -> Status]
  /\ kind \in [Events -> CommandKinds \cup {"none", "user"}]
  /\ queue \in [Events -> Queues \cup {None}]
  /\ deps \in [Events -> SUBSET Events]
  /\ enq \in [Queues -> Seq(Events)]
  /\ barriers \in [Queues -> SUBSET Events]
  /\ batch \in [Queues -> Seq(Events)]
  /\ at \in [Queues -> Nat \ {0}]
  /\ seen \in [Queues -> BOOLEAN]
  /\ inExec \in [Queues -> COMPLETE .. QUEUED]
  /\ quit \in [Queues -> BOOLEAN]
  /\ ref \in [Queues -> Int]
  /\ listed \subseteq Queues
  /\ disable \in Int
  /\ f \in [Procs -> Frames]
  /\ asleep \in [Procs -> Events \cup Queues \cup {Ctx, None}]
  /\ holds \in [Threads -> SUBSET Queues]
  /\ issued \subseteq Events
  /\ needs \in [Events -> SUBSET Events]
  /\ prior \in [Events -> SUBSET Events]

Started(e) == status[e] \in {COMPLETE, RUNNING}

(* A command runs only when every event of its wait list has completed     *)
(* without error (the contract of event_wait_list; cl_event_is_ready is    *)
(* tested by the caller or the worker long before cl_event_exec runs).     *)
DepsRespected ==
  \A e \in Events : Started(e) => \A d \in needs[e] : status[d] = COMPLETE

(* A marker or barrier completes only after every command issued to its    *)
(* queue before it has finished, and a command issued after a barrier runs *)
(* only once the barrier has finished (cl_event_create_marker_or_barrier,  *)
(* the barrier list of cl_event_create).                                   *)
FencesRespected ==
  \A e \in Events : Started(e) =>
    \A d \in prior[e] :
      kind[d] \in Barriers \/ kind[e] \in WaitAll => status[d] <= COMPLETE

(* On an in-order queue a command starts only after every command issued   *)
(* before it has finished ("need to get each all the way to CL_COMPLETE    *)
(* before starting the next one", worker_thread_function).                 *)
InOrder ==
  \A e \in Events : Started(e) /\ queue[e] \notin OutOfOrder =>
    \A d \in prior[e] : status[d] <= COMPLETE

(* What cl_event_exec assumes of its callers: the dependencies are final   *)
(* unless the event is only being queued or is a map that ignores them.    *)
ExecReady ==
  \A p \in Procs : f[p].pc = "exec" =>
    \/ ~Pending(f[p].e) \/ f[p].to = QUEUED
    \/ p \in Threads /\ f[p].kind = "map" /\ f[p].to = SUBMITTED

(* "no one should call this at the same time" (cl_event_exec): an event in *)
(* execution is in no other hands: not run by a second process, not still  *)
(* enqueued, and in a ready list only if that list's worker runs it.       *)
ExecExclusive ==
  \A p \in Procs : f[p].pc \in {"exec", "step"} =>
    /\ \A r \in Procs \ {p} : f[r].pc \in {"exec", "step"} => f[r].e # f[p].e
    /\ \A q \in Queues : f[p].e \notin Range(enq[q])
    /\ \A q \in Queues \ {p} : f[p].e \notin Range(batch[q])

(* When clFlush (clFinish) returns, every command issued to the queue      *)
(* before the call is submitted (finished), whoever runs it.               *)
SyncPost ==
  \A t \in Threads : f[t].pc = "done" /\ f[t].kind \in SyncCalls =>
    \A e \in f[t].since : queue[e] = f[t].q =>
      status[e] <= IF f[t].kind = "flush" THEN SUBMITTED ELSE COMPLETE

(* The barrier list holds only barriers that still hold commands back, or  *)
(* whose removal is under way (cl_command_queue_remove_barrier_event).     *)
NoStaleBarrier ==
  \A q \in Queues : \A b \in barriers[q] :
    status[b] > COMPLETE \/ \E p \in Procs : f[p].pc = "rmbar" /\ f[p].e = b

(* The worker of q would take an event if it scanned the list now.         *)
Runnable(q) ==
  \E i \in DOMAIN enq[q] : ~Pending(enq[q][i]) /\ (q \in OutOfOrder \/ i = 1)

(* p has completed an event and has yet to notify q.                       *)
WillNotify(p, q) ==
  \/ f[p].pc \in {"rmbar", "disable"}
  \/ f[p].pc = "notify" /\ q \in f[p].todo

(* No lost wake-up: a worker sleeps beside a runnable event only while the *)
(* process that made it runnable is still on its way to notify the queue   *)
(* ("we hold lock to check event status, to avoid missing the status       *)
(* notify").  A queue whose last reference is gone is not notified.        *)
NoLostWakeup ==
  \A q \in listed :
    asleep[q] = q /\ Runnable(q) /\ ref[q] >= 1 => \E p \in Procs : WillNotify(p, q)

(* cl_event_set_status: an event's status only falls, and is final once    *)
(* CL_COMPLETE or an error.                                                *)
StatusForward ==
  [][\A e \in Events : kind[e] # "none" /\ status'[e] # status[e] =>
       status[e] > COMPLETE /\ status'[e] < status[e]]_vars

(* A destroyed queue is out of the context's list, nothing is left on it,  *)
(* and nobody is about to notify it (queue_modify_disable, wait_finish and *)
(* the join of cl_command_queue_delete).                                   *)
FreedClean ==
  \A q \in Queues :
    /\ quit[q] => enq[q] = <<>>
    /\ f[q].pc = "freed" =>
         /\ q \notin listed
         /\ batch[q] = <<>> /\ barriers[q] = {}
         /\ \A p \in Procs : f[p].pc = "notify" => q \notin f[p].todo

(* Every command the application got an event for finishes.                *)
CommandsFinish == \A e \in Events : (e \in issued) ~> (status[e] <= COMPLETE)

(* Every call into the library returns.                                    *)
CallsReturn == \A t \in Threads : (f[t].pc # "idle") ~> (f[t].pc = "idle")

-----------------------------------------------------------------------------
(* The inductive invariant behind TypeOK and DepsRespected.                *)

ExecLabels   == {"exec", "step", "rmbar", "disable", "notify"}
WorkerLabels == {"idle", "none", "top", "scan", "submit", "run", "dead", "freed"}
EventLabels  == ExecLabels \cup {"decide", "insbar", "enqueue"}
QueueLabels  == {"record", "create", "sync", "syncwait", "decide", "insbar", "enqueue",
                 "addqueue", "unref", "remove", "quit", "join"}

(* Which locals are set at each label, and where a routine may return to.  *)
HasEvent(p) == f[p].e \in Events
HasQueue(p) == f[p].q \in Queues

ThreadControl(t) ==
  /\ f[t].pc \notin {"none", "top", "scan", "submit", "run", "dead", "freed", "flush"}
  /\ f[t].pc \in EventLabels => HasEvent(t)
  /\ f[t].pc \in QueueLabels => HasQueue(t)
  /\ f[t].pc \in ExecLabels => f[t].ret \in {"done", "fail", "enqueue"}
  /\ f[t].pc \in ExecLabels /\ f[t].ret = "enqueue" => HasQueue(t)
  /\ f[t].pc \in {"sync", "syncwait", "await"} => f[t].ret \in {"decide", "done", "remove", "unref", "flush"}
  /\ f[t].pc \in {"sync", "syncwait"} => f[t].ret # "flush"
  /\ f[t].pc \in {"sync", "syncwait", "await"} /\ f[t].ret \in {"decide", "flush"} => HasEvent(t)
  /\ f[t].pc = "await" /\ f[t].ret # "done" => HasQueue(t)
  /\ f[t].pc \in {"create", "syncwait", "await"} => f[t].todo \subseteq Events
  /\ f[t].pc \in {"record", "create"} => f[t].kind \in CommandKinds
  /\ f[t].pc = "insbar" => f[t].ret \in {"exec", "enqueue"}

WorkerControl(q) ==
  /\ f[q].pc \in WorkerLabels \cup ExecLabels
  /\ f[q].pc \in ExecLabels => HasEvent(q) /\ f[q].ret \in {"submit", "run"}

ControlOK ==
  /\ \A t \in Threads : ThreadControl(t)
  /\ \A q \in Queues : WorkerControl(q)

Created(e) == kind[e] # "none"

(* The dependencies of e that it has not outlived are still listed.        *)
EventInv(e) ==
  /\ ~Created(e) => status[e] = UNKNOWN
  /\ kind[e] \in {"none", "user"} => needs[e] = {}
  /\ status[e] >= COMPLETE => \A d \in needs[e] : d \in deps[e] \/ status[d] = COMPLETE
  /\ Started(e) => \A d \in needs[e] : status[d] = COMPLETE

(* What a process has tested of its event stays true until it relies on it. *)
FrameInv(p) ==
  LET e == f[p].e IN
  /\ f[p].pc \in EventLabels => Created(e)
  /\ f[p].pc \in {"sync", "syncwait", "await"} /\ f[p].ret \in {"decide", "flush"} => Created(e)
  /\ f[p].pc = "exec" /\ f[p].to < SUBMITTED => ~Pending(e)
  /\ f[p].pc = "insbar" /\ f[p].ret = "exec" => ~Pending(e)
  /\ f[p].pc = "step" /\ f[p].to < SUBMITTED => \A d \in needs[e] : status[d] = COMPLETE

(* The lists of q hold created events, its ready list events that are ready. *)
ListInv(q) ==
  /\ \A i \in DOMAIN enq[q] : Created(enq[q][i])
  /\ \A i \in DOMAIN batch[q] : Created(batch[q][i]) /\ ~Pending(batch[q][i])

(* What cl_event_is_ready tells a thread or the worker is still true when  *)
(* cl_event_exec relies on it.                                             *)
DepsInv ==
  /\ \A e \in Events : EventInv(e)
  /\ \A p \in Procs : FrameInv(p)
  /\ \A q \in Queues : ListInv(q)

=============================================================================
