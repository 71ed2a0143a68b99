---------------------------- MODULE ContextLife -----------------------------
(***************************************************************************)
(* The life of a context (cl_context.c).  Every object of the application, *)
(* and every clRetainContext, holds a reference on the context; so do the  *)
(* programs of the internal kernels and the image queue, which the context *)
(* itself creates when they are first needed.  cl_context_delete therefore *)
(* counts the references its own objects hold, without a lock, and         *)
(* destroys the context when the last other reference is dropped.          *)
(* A reference of the application is a handle here: the context itself, a  *)
(* queue, a memory object, a sampler, an event or a program.               *)
(***************************************************************************)
EXTENDS Integers, FiniteSets

CONSTANTS
  Threads,        \* threads of the application
  Handles,        \* references the application may hold
  First,          \* the handle returned by clCreateContext
  Kernels,        \* indices of internal kernels (CL_INTERNAL_KERNEL_...)
  ImageQueues,    \* names for the queues created as image queue
  None

ASSUME FirstAssumption == First \in Handles
ASSUME FiniteAssumption ==
  /\ IsFiniteSet(Threads) /\ IsFiniteSet(Handles)
  /\ IsFiniteSet(Kernels) /\ IsFiniteSet(ImageQueues)
ASSUME NoneAssumption == None \notin Threads \cup Handles \cup ImageQueues

VARIABLES
  ref,          \* the reference count of the context
  live,         \* the handles the application holds
  internal,     \* internal[k]: "none", "loaded" (a program only) or "built" (and a kernel)
  queues,       \* image queues that exist
  image_queue,  \* ctx->image_queue
  owner,        \* the thread that owns the context (TAKE_OWNERSHIP)
  pc, arg, ker, \* each thread: its place in a call, the handle and the kernel it is about
  seen,         \* each thread: internal_ctx_refs
  freed,        \* how often the context has been destroyed
  lost          \* a failed creation has reset the image queue of another thread

vars == <<ref, live, internal, queues, image_queue, owner, pc, arg, ker, seen, freed, lost>>

Loaded == {k \in Kernels : internal[k] # "none"}
Built == {k \in Kernels : internal[k] = "built"}
Destroying == {t \in Threads : pc[t] \in {"relqueue", "relkernels"}}

Goto(t, l) == pc' = [pc EXCEPT ![t] = l]

Init ==
  /\ ref = 1
  /\ live = {First}
  /\ internal = [k \in Kernels |-> "none"]
  /\ queues = {}
  /\ image_queue = None
  /\ owner = None
  /\ pc = [t \in Threads |-> "idle"]
  /\ arg = [t \in Threads |-> None]
  /\ ker = [t \in Threads |-> None]
  /\ seen = [t \in Threads |-> 0]
  /\ freed = 0
  /\ lost = FALSE

-----------------------------------------------------------------------------
\* The application calls with handles it holds, and releases none that a call
\* of another thread is using.
InUse(h) == \E t \in Threads : pc[t] # "idle" /\ arg[t] = h
Released(h) == \E t \in Threads : pc[t] = "dec" /\ arg[t] = h
Usable(h) == h \in live /\ ~Released(h)

\* clRetainContext, cl_context_add_queue, _mem, _sampler, _event, _program.
AddRef(h) ==
  /\ \E g \in live : Usable(g)
  /\ h \notin live
  /\ ref' = ref + 1
  /\ live' = live \cup {h}
  /\ UNCHANGED <<internal, queues, image_queue, owner, pc, arg, ker, seen, freed, lost>>

\* What cl_context_delete counts, before it drops its own reference.
internal_ctx_refs ==
  1 + Cardinality(Built) + (IF image_queue # None THEN 1 ELSE 0)

\* cl_context_delete, called by clReleaseContext and cl_context_remove_...
Delete(t, h) ==
  /\ pc[t] = "idle" /\ Usable(h) /\ ~InUse(h)
  /\ seen' = [seen EXCEPT ![t] = internal_ctx_refs]
  /\ arg' = [arg EXCEPT ![t] = h]
  /\ Goto(t, "dec")
  /\ UNCHANGED <<ref, live, internal, queues, image_queue, owner, ker, freed, lost>>

(* Mutant of LastRef: the context is destroyed one reference early.        *)
LastRefEarly(t) == ref <= seen[t] + 1

\* The context is destroyed unless its count was above internal_ctx_refs.
LastRef(t) == ref <= seen[t]

(* Mutant of DeleteDec: no temporary reference is taken.                   *)
DeleteDecNoTemp(t) ==
  /\ pc[t] = "dec"
  /\ live' = live \ {arg[t]}
  /\ arg' = [arg EXCEPT ![t] = None]
  /\ Goto(t, IF LastRef(t) THEN "relqueue" ELSE "idle")
  /\ ref' = ref - 1
  /\ UNCHANGED <<internal, queues, image_queue, owner, ker, seen, freed, lost>>

\* The last one takes a temporary reference, so that the nested deletes of
\* the internal objects do not destroy the context as well.
DeleteDec(t) ==
  /\ pc[t] = "dec"
  /\ live' = live \ {arg[t]}
  /\ arg' = [arg EXCEPT ![t] = None]
  /\ Goto(t, IF LastRef(t) THEN "relqueue" ELSE "idle")
  /\ ref' = IF LastRef(t) THEN (ref - 1) + 1 ELSE ref - 1
  /\ UNCHANGED <<internal, queues, image_queue, owner, ker, seen, freed, lost>>

\* The cl_context_delete of an internal queue or program inside the outer one.
NestedDelete ==
  /\ ref' = ref - 1
  /\ freed' = IF ref <= internal_ctx_refs' THEN freed + 1 ELSE freed

\* clReleaseCommandQueue(ctx->image_queue).
ReleaseImageQueue(t) ==
  /\ pc[t] = "relqueue"
  /\ Goto(t, "relkernels")
  /\ IF image_queue # None
       THEN /\ queues' = queues \ {image_queue}
            /\ image_queue' = None
            /\ UNCHANGED internal
            /\ NestedDelete
       ELSE UNCHANGED <<queues, image_queue, internal, ref, freed>>
  /\ UNCHANGED <<live, owner, arg, ker, seen, lost>>

\* cl_kernel_delete and cl_program_delete of one internal kernel.
ReleaseKernel(t, k) ==
  /\ pc[t] = "relkernels" /\ k \in Built
  /\ internal' = [internal EXCEPT ![k] = "none"]
  /\ UNCHANGED image_queue
  /\ NestedDelete
  /\ UNCHANGED <<live, queues, owner, pc, arg, ker, seen, lost>>

\* The temporary reference is dropped and the context freed.
FreeContext(t) ==
  /\ pc[t] = "relkernels" /\ Built = {}
  /\ ref' = ref - 1
  /\ freed' = freed + 1
  /\ Goto(t, "idle")
  /\ UNCHANGED <<live, internal, queues, image_queue, owner, arg, ker, seen, lost>>

-----------------------------------------------------------------------------
(* Mutant of CanOwn: ownership is not exclusive.                           *)
CanOwnAlways == TRUE

\* cl_object_take_ownership(ctx, 1) waits until nobody owns the context.
CanOwn == owner = None

\* cl_context_get_static_kernel_from_bin.
GetStaticKernel(t, h, k) ==
  /\ pc[t] = "idle" /\ Usable(h) /\ CanOwn
  /\ owner' = t
  /\ arg' = [arg EXCEPT ![t] = h]
  /\ ker' = [ker EXCEPT ![t] = k]
  /\ Goto(t, IF internal[k] = "none" THEN "create" ELSE "disown")
  /\ UNCHANGED <<ref, live, internal, queues, image_queue, seen, freed, lost>>

\* cl_program_create_from_binary adds a reference, or fails.
CreateProgram(t, ok) ==
  /\ pc[t] = "create"
  /\ IF ok THEN /\ ref' = ref + 1
                /\ internal' = [internal EXCEPT ![ker[t]] = "loaded"]
                /\ Goto(t, "build")
           ELSE UNCHANGED <<ref, internal>> /\ Goto(t, "disown")
  /\ UNCHANGED <<live, queues, image_queue, owner, arg, ker, seen, freed, lost>>

\* cl_program_build, and the creation of the kernel when it succeeds.
BuildProgram(t, ok) ==
  /\ pc[t] = "build"
  /\ internal' = IF ok THEN [internal EXCEPT ![ker[t]] = "built"] ELSE internal
  /\ Goto(t, "disown")
  /\ UNCHANGED <<ref, live, queues, image_queue, owner, arg, ker, seen, freed, lost>>

Disown(t) ==
  /\ pc[t] = "disown"
  /\ owner' = None
  /\ arg' = [arg EXCEPT ![t] = None]
  /\ ker' = [ker EXCEPT ![t] = None]
  /\ Goto(t, "idle")
  /\ UNCHANGED <<ref, live, internal, queues, image_queue, seen, freed, lost>>

-----------------------------------------------------------------------------
\* _cl_new_image_copy_from_host_ptr: the image queue is created when there is
\* none, then used.  Nothing protects the test.
NewImage(t, h) ==
  /\ pc[t] = "idle" /\ Usable(h) /\ image_queue = None
  /\ arg' = [arg EXCEPT ![t] = h]
  /\ Goto(t, "newqueue")
  /\ UNCHANGED <<ref, live, internal, queues, image_queue, owner, ker, seen, freed, lost>>

\* clCreateCommandQueueWithProperties adds the queue to the context.
NewImageQueue(t, q) ==
  /\ pc[t] = "newqueue" /\ q \notin queues
  /\ ref' = ref + 1
  /\ queues' = queues \cup {q}
  /\ ker' = [ker EXCEPT ![t] = q]
  /\ Goto(t, "setqueue")
  /\ UNCHANGED <<live, internal, image_queue, owner, arg, seen, freed, lost>>

NewImageQueueFails(t) ==
  /\ pc[t] = "newqueue"
  /\ image_queue' = None
  /\ lost' = (lost \/ image_queue # None)
  /\ arg' = [arg EXCEPT ![t] = None]
  /\ Goto(t, "idle")
  /\ UNCHANGED <<ref, live, internal, queues, owner, ker, seen, freed>>

SetImageQueue(t) ==
  /\ pc[t] = "setqueue"
  /\ image_queue' = ker[t]
  /\ arg' = [arg EXCEPT ![t] = None]
  /\ ker' = [ker EXCEPT ![t] = None]
  /\ Goto(t, "idle")
  /\ UNCHANGED <<ref, live, internal, queues, owner, seen, freed, lost>>

ThreadStep(t) ==
  \/ \E h \in Handles : Delete(t, h) \/ NewImage(t, h)
  \/ \E h \in Handles, k \in Kernels : GetStaticKernel(t, h, k)
  \/ DeleteDec(t) \/ ReleaseImageQueue(t) \/ FreeContext(t)
  \/ \E k \in Kernels : ReleaseKernel(t, k)
  \/ \E ok \in BOOLEAN : CreateProgram(t, ok) \/ BuildProgram(t, ok)
  \/ Disown(t)
  \/ \E q \in ImageQueues : NewImageQueue(t, q)
  \/ NewImageQueueFails(t) \/ SetImageQueue(t)

Next == (\E h \in Handles : AddRef(h)) \/ \E t \in Threads : ThreadStep(t)

Spec == Init /\ [][Next]_vars

-----------------------------------------------------------------------------
(* The count of the context is the number of its holders: handles of the   *)
(* application, internal programs, image queues, and the thread that is    *)
(* destroying it.  In particular two threads never create the program of   *)
(* one internal kernel twice.                                              *)
RefExact ==
  ref = Cardinality(live) + Cardinality(Loaded) + Cardinality(queues) + Cardinality(Destroying)

(* A context is destroyed only when nothing refers to it any more: no      *)
(* handle, no internal program, no image queue and no call in progress,    *)
(* whatever threads created between the count of cl_context_delete and its *)
(* decrement.  The exception is a thread that failed to create the image   *)
(* queue and reset the pointer to the one of another thread.               *)
FreedAlone ==
  freed > 0 /\ ~lost =>
    live = {} /\ Loaded = {} /\ queues = {} /\ \A t \in Threads : pc[t] = "idle"

(* The deletes of the internal queue and programs, which drop references   *)
(* of the context inside cl_context_delete, never destroy it a second time.*)
FreedOnce == freed <= 1

=============================================================================
