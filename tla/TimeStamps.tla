----------------------------- MODULE TimeStamps -----------------------------
(***************************************************************************)
(* The five time stamps of an event of a profiling queue.  They are read   *)
(* from a counter of the GPU that wraps around: by the host when the       *)
(* command is queued and submitted, and, for commands the GPU executes, by *)
(* the GPU when it starts and ends.  The host reads the counter after it   *)
(* has flushed the command, so the GPU may be faster.                      *)
(***************************************************************************)
EXTENDS Integers

CONSTANTS
  Period,    \* the counter's range, in its units (2^32 ticks of 80 ns)
  Word,      \* the range of a cl_ulong (2^64)
  Limit,     \* 0x0FFFFFFFFFF, above which a difference counts as overflow
  MaxSpan    \* bound: the time from queueing a command to its end

(* The largest stamp is below the limit, and this below the word.          *)
ASSUME TimeConstants ==
  /\ {Period, Word, Limit, MaxSpan} \subseteq Nat \ {0}
  /\ Period <= Limit /\ 4 * Limit < Word /\ MaxSpan < Period

Invalid == Word - 1     \* CL_EVENT_INVALID_TIMESTAMP

VARIABLES
  clock,      \* time, the counter being clock % Period
  onGpu,      \* a kernel, copy or fill, which the GPU executes
  step,       \* the host's step in cl_event_exec
  timestamp,  \* the stamps, numbered 0 .. 4
  when        \* the times of the events: "queued", "submit", "start", "end"; -1 before

timeVars == <<clock, onGpu, step, timestamp, when>>

Counter == clock % Period

TimeInit ==
  /\ clock \in 0 .. Period - 1
  /\ onGpu \in BOOLEAN
  /\ step = "new"
  /\ timestamp = [i \in 0 .. 4 |-> IF i < 4 THEN Invalid ELSE 0]
  /\ when = [queued |-> -1, submit |-> -1, start |-> -1, end |-> -1]

Tick ==
  /\ step # "done"
  /\ when.queued >= 0 => clock < when.queued + MaxSpan
  /\ clock' = clock + 1
  /\ clock' < 2 * Period
  /\ UNCHANGED <<onGpu, step, timestamp, when>>

(* cl_event_update_timestamp(event, CL_QUEUED).                            *)
Queue ==
  /\ step = "new"
  /\ step' = "queued"
  /\ timestamp' = [timestamp EXCEPT ![0] = Counter]
  /\ when' = [when EXCEPT !.queued = clock]
  /\ UNCHANGED <<clock, onGpu>>

(* cl_enqueue_handle(data, CL_SUBMITTED): the batch is flushed.            *)
Flush ==
  /\ step = "queued"
  /\ step' = "flushed"
  /\ UNCHANGED <<clock, onGpu, timestamp, when>>

GpuStart ==
  /\ onGpu /\ step \notin {"new", "queued"} /\ when.start < 0
  /\ when' = [when EXCEPT !.start = clock]
  /\ UNCHANGED <<clock, onGpu, step, timestamp>>

GpuEnd ==
  /\ onGpu /\ when.start >= 0 /\ when.end < 0
  /\ when' = [when EXCEPT !.end = clock]
  /\ UNCHANGED <<clock, onGpu, step, timestamp>>

(* cl_event_update_timestamp(event, CL_SUBMITTED).                         *)
Submit ==
  /\ step = "flushed"
  /\ step' = "submitted"
  /\ timestamp' = [timestamp EXCEPT ![1] = Counter]
  /\ when' = [when EXCEPT !.submit = clock]
  /\ UNCHANGED <<clock, onGpu>>

(* cl_event_update_timestamp(event, CL_RUNNING), which leaves the stamp of *)
(* a command of the GPU to the end.                                        *)
Run ==
  /\ step = "submitted"
  /\ step' = "running"
  /\ IF onGpu THEN UNCHANGED <<timestamp, when>>
     ELSE /\ timestamp' = [timestamp EXCEPT ![2] = Counter]
          /\ when' = [when EXCEPT !.start = clock]
  /\ UNCHANGED <<clock, onGpu>>

(* Mutant of Stamped: a submit time after the start is kept.               *)
StampedLate ==
  IF onGpu THEN [timestamp EXCEPT ![2] = when.start % Period, ![3] = when.end % Period]
           ELSE [timestamp EXCEPT ![3] = Counter]

(* The stamps when the command is complete: a submit time later than the   *)
(* start is set to it.                                                     *)
Stamped ==
  LET t == [timestamp EXCEPT ![2] = when.start % Period, ![3] = when.end % Period]
  IN IF ~onGpu THEN [timestamp EXCEPT ![3] = Counter]
     ELSE IF t[1] > t[2] \/ t[2] - t[1] > Limit THEN [t EXCEPT ![1] = t[2]]
     ELSE t

(* The time between two stamps, in 64 bits.                                *)
Elapsed(a, b) == IF b < a THEN (b + (Invalid - a)) % Word ELSE b - a

(* When a stamp is below the one before it, all are counted from 0.        *)
Recalculated(t) ==
  IF \A i \in 0 .. 3 : t[i] <= t[i + 1] THEN t
  ELSE LET sum[i \in 0 .. 4] ==
             IF i = 0 THEN 0 ELSE (sum[i - 1] + Elapsed(t[i - 1], t[i])) % Word
       IN sum

(* cl_event_update_timestamp(event, CL_COMPLETE), once a command of the    *)
(* GPU has been waited for.                                                *)
Finish ==
  /\ step = "running"
  /\ onGpu => when.end >= 0
  /\ step' = "done"
  /\ timestamp' = LET t == Stamped IN Recalculated([t EXCEPT ![4] = t[3]])
  /\ when' = IF onGpu THEN when ELSE [when EXCEPT !.end = clock]
  /\ UNCHANGED <<clock, onGpu>>

TimeNext == Tick \/ Queue \/ Flush \/ GpuStart \/ GpuEnd \/ Submit \/ Run \/ Finish

TimeSpec == TimeInit /\ [][TimeNext]_timeVars

-----------------------------------------------------------------------------
(* The GPU has started the command in one period of the counter and the    *)
(* host has read its submit time in the next.                              *)
SubmitWrapped ==
  onGpu /\ when.start < when.submit /\ when.start \div Period # when.submit \div Period

(* The stamps of a complete command never decrease, although the counter   *)
(* may wrap between any two of them and the GPU may start before the host  *)
(* has read the submit time.  Both at once are excluded: the submit time   *)
(* is then small, is not corrected, and a second wrap is counted.          *)
StampsOrdered ==
  step = "done" /\ ~SubmitWrapped => \A i \in 0 .. 3 : timestamp[i] <= timestamp[i + 1]

(* What utests/profiling_exec.cpp asserts of a command: the stamps are     *)
(* ordered, and no interval is longer than the command can have taken.     *)
check_profiling_time ==
  step = "done" =>
    \A i \in 0 .. 2 : timestamp[i] <= timestamp[i + 1] /\ timestamp[i + 1] - timestamp[i] <= MaxSpan

=============================================================================
