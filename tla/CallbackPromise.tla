--------------------------- MODULE CallbackPromise ---------------------------
(***************************************************************************)
(* What clSetEventCallback promises: a callback registered for a status is *)
(* called once, after the event has reached that status, with a status the *)
(* event has reached; and it is called if the event gets there.            *)
(***************************************************************************)
EXTENDS Integers

CONSTANTS Callbacks, Unset

VARIABLES
  status,   \* execution status of the event
  level,    \* the status each callback is registered for, or Unset
  waiting,  \* callbacks registered and not yet called
  told      \* the status each callback was called with, or Unset

vars == <<status, level, waiting, told>>

Levels == 0 .. 2
Status == -1 .. 4

Init ==
  /\ status \in {2, 4}
  /\ level = [c \in Callbacks |-> Unset]
  /\ waiting = {}
  /\ told = [c \in Callbacks |-> Unset]

Register(c, l) ==
  /\ level[c] = Unset
  /\ level' = [level EXCEPT ![c] = l]
  /\ waiting' = waiting \cup {c}
  /\ UNCHANGED <<status, told>>

Advance(s) ==
  /\ status > 0 /\ s < status
  /\ status' = s
  /\ UNCHANGED <<level, waiting, told>>

Deliver(c) ==
  /\ c \in waiting
  /\ told[c] = Unset
  /\ \E s \in status .. level[c] : told' = [told EXCEPT ![c] = s]
  /\ waiting' = waiting \ {c}
  /\ UNCHANGED <<status, level>>

Next ==
  \/ \E c \in Callbacks, l \in Levels : Register(c, l)
  \/ \E s \in Status : Advance(s)
  \/ \E c \in Callbacks : Deliver(c)

Safe == Init /\ [][Next]_vars

Spec == Safe /\ \A c \in Callbacks : WF_vars(Deliver(c))

=============================================================================
