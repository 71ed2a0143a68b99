--------------------------- MODULE EventCallbacks ---------------------------
(***************************************************************************)
(* The callbacks and the waiters of one event (cl_event_set_status,        *)
(* cl_event_set_callback, cl_event_wait_for_events_list).                  *)
(*                                                                         *)
(* cl_event_set_status takes the callbacks off the event and runs them     *)
(* without the event's lock: meanwhile other threads register callbacks,   *)
(* wait, or (as the code allows for: "Status may changed because we        *)
(* unlock") set a lower status.  A step is what a thread does while it     *)
(* holds the lock, or one call of a callback.  The notification of the     *)
(* queues that follows is in CommandQueue.                                 *)
(***************************************************************************)
EXTENDS Integers

CONSTANTS
  Setters,     \* threads that call cl_event_set_status
  Callbacks,   \* callbacks the application registers
  Waiters,     \* threads that wait for the event
  Unset        \* not registered, not called

COMPLETE  == 0
SUBMITTED == 2
QUEUED    == 3
UNKNOWN   == 4
ERROR     == -1

Status == ERROR .. UNKNOWN

(* The types clSetEventCallback accepts.                                   *)
Levels == COMPLETE .. SUBMITTED

(* What waiters wait for: wait_flush, or all the other waits.              *)
Goals == {COMPLETE, SUBMITTED}

ASSUME CallbackConstants == Unset \notin Int

VARIABLES
  status,     \* event->status
  callbacks,  \* event->callbacks
  active,     \* the setters that run callbacks, unlocked
  st,         \* their local copy of the status
  tmp,        \* their tmp_callbacks
  imm,        \* callbacks about to be called by cl_event_set_callback
  level,      \* cb->status
  calls,      \* how often each callback was called
  told,       \* the status it was last called with
  asleep,     \* <<waiter, goal>>: in CL_OBJECT_WAIT_ON_COND
  back        \* waiters that have returned

cbVars  == <<callbacks, active, st, tmp, imm, level, calls, told>>
vars    == <<status, cbVars, asleep, back>>

Init ==
  /\ status \in {SUBMITTED, UNKNOWN}       \* a user event, a command
  /\ callbacks = {}
  /\ active = {}
  /\ st = [p \in Setters |-> UNKNOWN]
  /\ tmp = [p \in Setters |-> {}]
  /\ imm = {}
  /\ level = [c \in Callbacks |-> Unset]
  /\ calls = [c \in Callbacks |-> 0]
  /\ told = [c \in Callbacks |-> Unset]
  /\ asleep = {}
  /\ back = {}

-----------------------------------------------------------------------------
(* The statuses set by clSetUserEventStatus or by cl_event_exec.           *)
Targets == ERROR .. QUEUED

Call(c, s) ==
  /\ calls' = [calls EXCEPT ![c] = @ + 1]
  /\ told' = [told EXCEPT ![c] = s]

(* Mutant of WakeAll: the waiters are not signalled.                       *)
WakeNone == UNCHANGED asleep

(* CL_OBJECT_NOTIFY_COND.                                                  *)
WakeAll == asleep' = {}

MaySet(s) == status > COMPLETE /\ s < status

(* cl_event_set_status: write the status and take the callbacks.           *)
SetStatus(p) ==
  /\ p \notin active
  /\ \E s \in Targets :
       /\ MaySet(s)
       /\ status' = s
       /\ IF callbacks = {}
            THEN /\ WakeAll
                 /\ UNCHANGED <<callbacks, active, st, tmp>>
            ELSE /\ active' = active \cup {p}
                 /\ st' = [st EXCEPT ![p] = s]
                 /\ tmp' = [tmp EXCEPT ![p] = callbacks]
                 /\ callbacks' = {}
                 /\ UNCHANGED asleep
  /\ UNCHANGED <<imm, level, calls, told, back>>

(* Mutant of Due: a callback is called one status too early.               *)
DueEarly(p, c) == st[p] <= level[c] + 1

(* Whether the walk over tmp_callbacks calls c.                            *)
Due(p, c) == st[p] <= level[c]

CallOne(p) ==
  /\ p \in active
  /\ \E c \in tmp[p] :
       /\ Due(p, c)
       /\ tmp' = [tmp EXCEPT ![p] = @ \ {c}]
       /\ Call(c, st[p])
  /\ UNCHANGED <<status, callbacks, active, st, imm, level, asleep, back>>

(* Mutant of Changed: the status is not tested again after the callbacks.  *)
NotChanged(p) == FALSE

(* "Status may changed because we unlock. need to check again."            *)
Changed(p) == status # st[p]

(* Mutant of Merge: callbacks taken for the new status stay in the list.   *)
MergeKeep(p) ==
  /\ p \in active
  /\ \A c \in tmp[p] : ~Due(p, c)
  /\ \/ /\ Changed(p)
        /\ st' = [st EXCEPT ![p] = status]
        /\ tmp' = [tmp EXCEPT ![p] = @ \cup callbacks]
        /\ UNCHANGED <<callbacks, active, asleep>>
     \/ /\ ~Changed(p)
        /\ callbacks' = callbacks \cup tmp[p]
        /\ tmp' = [tmp EXCEPT ![p] = {}]
        /\ active' = active \ {p}
        /\ WakeAll
        /\ UNCHANGED st
  /\ UNCHANGED <<status, imm, level, calls, told, back>>

(* Back under the lock: restore the uncalled callbacks, then take them     *)
(* again for the new status, or wake the waiters.                          *)
Merge(p) ==
  /\ p \in active
  /\ \A c \in tmp[p] : ~Due(p, c)
  /\ \/ /\ Changed(p)
        /\ st' = [st EXCEPT ![p] = status]
        /\ tmp' = [tmp EXCEPT ![p] = @ \cup callbacks]
        /\ callbacks' = {}
        /\ UNCHANGED <<active, asleep>>
     \/ /\ ~Changed(p)
        /\ callbacks' = callbacks \cup tmp[p]
        /\ tmp' = [tmp EXCEPT ![p] = {}]
        /\ active' = active \ {p}
        /\ WakeAll
        /\ UNCHANGED st
  /\ UNCHANGED <<status, imm, level, calls, told, back>>

Reached(l) == status <= l

(* cl_event_set_callback: the test and the insertion are under the lock..  *)
SetCallback(c) ==
  /\ level[c] = Unset
  /\ \E l \in Levels :
       /\ level' = [level EXCEPT ![c] = l]
       /\ IF Reached(l)
            THEN imm' = imm \cup {c} /\ UNCHANGED callbacks
            ELSE callbacks' = callbacks \cup {c} /\ UNCHANGED imm
  /\ UNCHANGED <<status, active, st, tmp, calls, told, asleep, back>>

(* ..an immediate call is not, and reads the status again.                 *)
CallNow(c) ==
  /\ c \in imm
  /\ imm' = imm \ {c}
  /\ Call(c, status)
  /\ UNCHANGED <<status, callbacks, active, st, tmp, level, asleep, back>>

(* The loop of cl_event_wait_for_events_list and cl_command_queue_wait_*.  *)
WaitFor(w) ==
  /\ w \notin back /\ \A g \in Goals : <<w, g>> \notin asleep
  /\ \E g \in Goals :
       IF status > g
         THEN asleep' = asleep \cup {<<w, g>>} /\ UNCHANGED back
         ELSE back' = back \cup {w} /\ UNCHANGED asleep
  /\ UNCHANGED <<status, cbVars>>

Next ==
  \/ \E p \in Setters : SetStatus(p) \/ CallOne(p) \/ Merge(p)
  \/ \E c \in Callbacks : SetCallback(c) \/ CallNow(c)
  \/ \E w \in Waiters : WaitFor(w)

(* A thread inside the library, or inside a callback, keeps running.       *)
Fairness ==
  /\ \A p \in Setters : WF_vars(CallOne(p) \/ Merge(p))
  /\ \A c \in Callbacks : WF_vars(CallNow(c))

Spec == Init /\ [][Next]_vars

FairSpec == Spec /\ Fairness

-----------------------------------------------------------------------------
(* Properties.                                                             *)

TypeOK ==
  /\ status \in Status
  /\ callbacks \subseteq Callbacks
  /\ active \subseteq Setters
  /\ st \in [Setters -> Status]
  /\ tmp \in [Setters -> SUBSET Callbacks]
  /\ imm \subseteq Callbacks
  /\ level \in [Callbacks -> Levels \cup {Unset}]
  /\ calls \in [Callbacks -> Nat]
  /\ told \in [Callbacks -> Status \cup {Unset}]
  /\ asleep \subseteq Waiters \X Goals
  /\ back \subseteq Waiters

(* A callback is never called twice (cb->executed of cl_event_set_status), *)
(* although it moves between the event's list and the setters' copies.     *)
CalledOnce == \A c \in Callbacks : calls[c] <= 1

(* No callback is left behind: one whose status has been reached is in the *)
(* copy some cl_event_set_status still works on, or is called at once.     *)
NoneStranded ==
  \A c \in Callbacks : level[c] # Unset /\ calls[c] = 0 /\ status <= level[c] =>
    c \in imm \/ \E p \in active : c \in tmp[p]

(* No waiter sleeps on a status that has been reached, unless a            *)
(* cl_event_set_status is still to signal the event.                       *)
NoLostSignal ==
  \A w \in Waiters, g \in Goals : <<w, g>> \in asleep /\ status <= g => active # {}

(* The lists keep the promise of clSetEventCallback.                       *)
Registered == callbacks \cup imm \cup UNION {tmp[p] : p \in Setters}

Promise == INSTANCE CallbackPromise WITH waiting <- Registered

(* clSetEventCallback keeps its promise, the delivery included.            *)
KeepsPromise == Promise!Spec

-----------------------------------------------------------------------------
(* The inductive invariant: a callback is in one list at most, and only    *)
(* those in a setter's copy may be due.                                    *)

Disjoint ==
  /\ callbacks \cap imm = {}
  /\ \A p \in Setters : tmp[p] \cap (callbacks \cup imm) = {}
  /\ \A p, q \in Setters : p # q => tmp[p] \cap tmp[q] = {}

CallbackInv(c) ==
  /\ c \in Registered => level[c] # Unset /\ calls[c] = 0 /\ told[c] = Unset
  /\ level[c] = Unset => calls[c] = 0 /\ told[c] = Unset
  /\ level[c] # Unset /\ calls[c] = 0 => c \in Registered
  /\ c \in imm => status <= level[c]
  /\ c \in callbacks => level[c] < status
  /\ calls[c] <= 1

SetterInv(p) ==
  /\ p \in active => status <= st[p]
  /\ p \notin active => tmp[p] = {}

IInv ==
  /\ TypeOK /\ Disjoint
  /\ \A c \in Callbacks : CallbackInv(c)
  /\ \A p \in Setters : SetterInv(p)
  /\ NoLostSignal

=============================================================================
