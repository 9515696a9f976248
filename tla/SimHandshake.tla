---------------------------- MODULE SimHandshake ----------------------------
(***************************************************************************)
(* The simulation of SteamAudioServer: tick() on the main thread submits a *)
(* direct-sim job to the worker pool, the job commits what changed and     *)
(* wakes the reflection thread, the mixing thread applies the pending      *)
(* operations, and finish() stops them all.                                *)
(*                                                                         *)
(* collections_mutex is a reader/writer lock; like the lock the comment in *)
(* tick() fears, it lets no reader past a waiting writer.  refl_mux is     *)
(* only held over several steps by a commit.                               *)
(***************************************************************************)
EXTENDS Integers, FiniteSets

CONSTANTS Listener      \* the listeners ever created, a simulator each

VARIABLES
  running,      \* is_running
  listeners,    \* the server's collection
  created,      \* listeners that were ever queued for it
  pending,      \* pending_ops: listeners to add, to remove; geometry or sources
  batch,        \* the operations apply_pending_ops() has taken from them
  dirty,        \* listeners with dirty set
  sceneDirty,
  waitForCommit,    \* refl_thread_wait_for_commit
  processing,       \* is_refl_thread_processing
  newInputs,        \* new_inputs_set
  reflMux,          \* refl_mux: "free", or "job" while it commits
  readers,          \* threads with a shared lock of collections_mutex
  jobPending,       \* direct_job_pending
  pcMain, pcJob, pcRefl, pcMix,
  sims              \* simulators the reflection thread has retained

ops == <<created, pending, batch>>
stale == <<dirty, sceneDirty>>
handshake == <<waitForCommit, processing, newInputs, reflMux>>
vars == <<running, listeners, ops, stale, handshake, readers, jobPending,
          pcMain, pcJob, pcRefl, pcMix, sims>>

NoOps == [add |-> {}, remove |-> {}, touch |-> FALSE]

Init ==
  /\ running = TRUE /\ listeners = {} /\ created = {}
  /\ pending = NoOps /\ batch = NoOps
  /\ dirty = {} /\ sceneDirty = FALSE
  /\ waitForCommit = FALSE /\ processing = FALSE /\ newInputs = FALSE /\ reflMux = "free"
  /\ readers = {} /\ jobPending = FALSE
  /\ pcMain = "idle" /\ pcJob = "none" /\ pcRefl = "check" /\ pcMix = "top" /\ sims = {}

(* collections_mutex                                                       *)

WriterWaits == pcMix \in {"queued", "applying"} \/ pcMain = "material"

LockShared(thread) == ~WriterWaits /\ readers' = readers \cup {thread}
Unlock(thread) == readers' = readers \ {thread}

\* No reader and no other writer.
Exclusive == readers = {} /\ pcMix # "applying"

\* refl_cv.notify_one() and notify_all(): nobody else waits on it.
NotifyRefl == pcRefl' = IF pcRefl = "asleep" THEN "check" ELSE pcRefl

-----------------------------------------------------------------------------
(* Main thread: the API and tick().                                        *)

\* Main may call the API between two ticks and, except to create, after finish().
Callable == pcMain \in {"idle", "finished"}

CreateListener(l) ==
  /\ pcMain = "idle" /\ running /\ l \notin created
  /\ created' = created \cup {l} /\ pending' = [pending EXCEPT !.add = @ \cup {l}]
  /\ UNCHANGED <<running, listeners, batch, stale, handshake, readers, jobPending,
                 pcMain, pcJob, pcRefl, pcMix, sims>>

FreeListener(l) ==
  /\ Callable /\ l \in created
  /\ pending' = [pending EXCEPT !.remove = @ \cup {l}]
  /\ UNCHANGED <<running, listeners, created, batch, stale, handshake, readers,
                 jobPending, pcMain, pcJob, pcRefl, pcMix, sims>>

\* Geometry created or freed, a source freed.
QueueOther ==
  /\ Callable /\ pending' = [pending EXCEPT !.touch = TRUE]
  /\ UNCHANGED <<running, listeners, created, batch, stale, handshake, readers,
                 jobPending, pcMain, pcJob, pcRefl, pcMix, sims>>

\* geometry_set_material() locks collections_mutex uniquely, and does nothing
\* for a RID that is not valid.
LockMaterial ==
  /\ pcMain = "idle" /\ running /\ pcMain' = "material"
  /\ UNCHANGED <<running, listeners, ops, stale, handshake, readers, jobPending,
                 pcJob, pcRefl, pcMix, sims>>

SetMaterial ==
  /\ pcMain = "material" /\ Exclusive /\ pcMain' = "idle"
  /\ sceneDirty' \in {sceneDirty, TRUE}
  /\ UNCHANGED <<running, listeners, ops, dirty, handshake, readers, jobPending,
                 pcJob, pcRefl, pcMix, sims>>

\* Step 1 of tick(): a job that is not done yet makes it skip this frame.
BarrierUnchecked ==
  /\ pcMain = "idle" /\ running /\ pcMain' = "lock"
  /\ jobPending' = FALSE /\ UNCHANGED pcJob
  /\ UNCHANGED <<running, listeners, ops, stale, handshake, readers, pcRefl, pcMix, sims>>
Barrier ==
  /\ pcMain = "idle" /\ running /\ pcMain' = "lock"
  /\ jobPending => pcJob = "done"
  /\ jobPending' = FALSE /\ pcJob' = "none"
  /\ UNCHANGED <<running, listeners, ops, stale, handshake, readers, pcRefl, pcMix, sims>>

TickLock ==
  /\ pcMain = "lock" /\ pcMain' = "update" /\ LockShared("main")
  /\ UNCHANGED <<running, listeners, ops, stale, handshake, jobPending,
                 pcJob, pcRefl, pcMix, sims>>

\* Steps 2 to 5: sources come into or leave range, geometry moves; then the
\* job is submitted.
Update ==
  /\ pcMain = "update" /\ pcMain' = "unlock"
  /\ \E more \in SUBSET listeners : dirty' = dirty \cup more
  /\ sceneDirty' \in {sceneDirty, TRUE}
  /\ pcJob' = "queued" /\ jobPending' = TRUE
  /\ UNCHANGED <<running, listeners, ops, handshake, readers, pcRefl, pcMix, sims>>

TickUnlock ==
  /\ pcMain = "unlock" /\ pcMain' = "idle" /\ Unlock("main")
  /\ UNCHANGED <<running, listeners, ops, stale, handshake, jobPending,
                 pcJob, pcRefl, pcMix, sims>>

-----------------------------------------------------------------------------
(* finish()                                                                *)

Finish ==
  /\ pcMain = "idle" /\ running /\ running' = FALSE /\ pcMain' = "notify"
  /\ UNCHANGED <<listeners, ops, stale, handshake, readers, jobPending,
                 pcJob, pcRefl, pcMix, sims>>

FinishNotifyNobody ==
  /\ pcMain = "notify" /\ reflMux = "free" /\ pcMain' = "join_sim"
  /\ UNCHANGED <<running, listeners, ops, stale, handshake, readers, jobPending,
                 pcJob, pcRefl, pcMix, sims>>
FinishNotify ==
  /\ pcMain = "notify" /\ reflMux = "free" /\ pcMain' = "join_sim" /\ NotifyRefl
  /\ UNCHANGED <<running, listeners, ops, stale, handshake, readers, jobPending,
                 pcJob, pcMix, sims>>

\* wait_to_finish() of both threads, then of a job in flight.
Join ==
  /\ \/ pcMain = "join_sim" /\ pcRefl = "ended" /\ pcMain' = "join_mix"
     \/ pcMain = "join_mix" /\ pcMix = "ended" /\ pcMain' = "await_job"
  /\ UNCHANGED <<running, listeners, ops, stale, handshake, readers, jobPending,
                 pcJob, pcRefl, pcMix, sims>>

AwaitNoJob ==
  /\ pcMain = "await_job" /\ pcMain' = "release"
  /\ jobPending' = FALSE
  /\ UNCHANGED <<running, listeners, ops, stale, handshake, readers,
                 pcJob, pcRefl, pcMix, sims>>
AwaitJob ==
  /\ pcMain = "await_job" /\ pcMain' = "release"
  /\ jobPending => pcJob = "done"
  /\ jobPending' = FALSE /\ pcJob' = "none"
  /\ UNCHANGED <<running, listeners, ops, stale, handshake, readers, pcRefl, pcMix, sims>>

Release ==
  /\ pcMain = "release" /\ pcMain' = "finished"
  /\ listeners' = {} /\ pending' = NoOps
  /\ UNCHANGED <<running, created, batch, stale, handshake, readers, jobPending,
                 pcJob, pcRefl, pcMix, sims>>

\* tick() after finish() returns at once.
TickStopped == pcMain = "finished" /\ UNCHANGED vars

-----------------------------------------------------------------------------
(* run_direct_job()                                                        *)

JobStart ==
  /\ pcJob = "queued" /\ pcJob' = "decide" /\ LockShared("job")
  /\ UNCHANGED <<running, listeners, ops, stale, handshake, jobPending,
                 pcMain, pcRefl, pcMix, sims>>

NeedCommit == sceneDirty \/ dirty \cap listeners # {}

\* Commits if the reflection thread is idle, or else asks it to wait.
DecideAlways ==
  /\ pcJob = "decide" /\ reflMux = "free"
  /\ IF NeedCommit
     THEN waitForCommit' = TRUE /\ reflMux' = "job" /\ pcJob' = "commit"
     ELSE pcJob' = "direct" /\ UNCHANGED <<waitForCommit, reflMux>>
  /\ UNCHANGED <<running, listeners, ops, stale, processing, newInputs, readers, jobPending,
                 pcMain, pcRefl, pcMix, sims>>
Decide ==
  /\ pcJob = "decide"
  /\ \/ ~NeedCommit /\ pcJob' = "direct" /\ UNCHANGED <<waitForCommit, reflMux>>
     \/ NeedCommit /\ reflMux = "free" /\ waitForCommit' = TRUE
        /\ IF processing THEN pcJob' = "direct" /\ UNCHANGED reflMux
                         ELSE pcJob' = "commit" /\ reflMux' = "job"
  /\ UNCHANGED <<running, listeners, ops, stale, processing, newInputs, readers, jobPending,
                 pcMain, pcRefl, pcMix, sims>>

\* The scene and the dirty simulators are committed with refl_mux held.
CommitScene ==
  /\ pcJob = "commit" /\ pcJob' = "direct"
  /\ sceneDirty' = FALSE /\ UNCHANGED dirty
  /\ waitForCommit' = FALSE /\ reflMux' = "free"
  /\ UNCHANGED <<running, listeners, ops, processing, newInputs, readers, jobPending,
                 pcMain, pcRefl, pcMix, sims>>
Commit ==
  /\ pcJob = "commit" /\ pcJob' = "direct"
  /\ sceneDirty' = FALSE /\ dirty' = dirty \ listeners
  /\ waitForCommit' = FALSE /\ reflMux' = "free"
  /\ UNCHANGED <<running, listeners, ops, processing, newInputs, readers, jobPending,
                 pcMain, pcRefl, pcMix, sims>>

\* After the direct simulation: new_inputs_set, under refl_mux.
SetInputs ==
  /\ pcJob = "direct" /\ reflMux = "free" /\ pcJob' = "notify" /\ newInputs' = TRUE
  /\ UNCHANGED <<running, listeners, ops, stale, waitForCommit, processing, reflMux, readers,
                 jobPending, pcMain, pcRefl, pcMix, sims>>

JobEndNotifyNobody ==
  /\ pcJob = "notify" /\ pcJob' = "done" /\ Unlock("job")
  /\ UNCHANGED <<running, listeners, ops, stale, handshake, jobPending, pcMain, pcRefl, pcMix, sims>>
JobEnd ==
  /\ pcJob = "notify" /\ pcJob' = "done" /\ NotifyRefl /\ Unlock("job")
  /\ UNCHANGED <<running, listeners, ops, stale, handshake, jobPending, pcMain, pcMix, sims>>

-----------------------------------------------------------------------------
(* simulation_thread_func()                                                *)

Ready == ~waitForCommit /\ newInputs

\* The loop's test of is_running and refl_cv.wait(): under refl_mux the
\* predicate holds or the thread sleeps.
ReflCheck ==
  /\ pcRefl = "check" /\ reflMux = "free"
  /\ \/ ~running /\ pcRefl' = "ended" /\ UNCHANGED <<processing, newInputs>>
     \/ running /\ Ready /\ pcRefl' = "retain" /\ processing' = TRUE /\ newInputs' = FALSE
     \/ running /\ ~Ready /\ pcRefl' = "asleep" /\ UNCHANGED <<processing, newInputs>>
  /\ UNCHANGED <<running, listeners, ops, stale, waitForCommit, reflMux, readers, jobPending,
                 pcMain, pcJob, pcMix, sims>>

Retain ==
  /\ pcRefl = "retain" /\ pcRefl' = "simulate" /\ ~WriterWaits
  /\ sims' = listeners
  /\ UNCHANGED <<running, listeners, ops, stale, handshake, readers, jobPending,
                 pcMain, pcJob, pcMix>>

\* iplSimulatorRunReflections() runs without a lock, then all are released.
Simulate ==
  /\ pcRefl = "simulate" /\ pcRefl' = "leave" /\ sims' = {}
  /\ UNCHANGED <<running, listeners, ops, stale, handshake, readers, jobPending,
                 pcMain, pcJob, pcMix>>

ReflLeave ==
  /\ pcRefl = "leave" /\ reflMux = "free" /\ pcRefl' = "check" /\ processing' = FALSE
  /\ UNCHANGED <<running, listeners, ops, stale, waitForCommit, newInputs, reflMux, readers,
                 jobPending, pcMain, pcJob, pcMix, sims>>

-----------------------------------------------------------------------------
(* mixing_thread_func(), as far as it takes collections_mutex.             *)

MixTop ==
  /\ pcMix = "top"
  /\ pcMix' = IF ~running THEN "ended" ELSE IF pending = NoOps THEN "process" ELSE "queued"
  /\ IF running THEN batch' = pending /\ pending' = NoOps ELSE UNCHANGED <<batch, pending>>
  /\ UNCHANGED <<running, listeners, created, stale, handshake, readers, jobPending,
                 pcMain, pcJob, pcRefl, sims>>

LockUniqueAnyway ==
  /\ pcMix = "queued" /\ pcMix' = "applying"
  /\ UNCHANGED <<running, listeners, ops, stale, handshake, readers, jobPending,
                 pcMain, pcJob, pcRefl, sims>>
LockUnique ==
  /\ pcMix = "queued" /\ Exclusive /\ pcMix' = "applying"
  /\ UNCHANGED <<running, listeners, ops, stale, handshake, readers, jobPending,
                 pcMain, pcJob, pcRefl, sims>>

\* apply_pending_ops(): a new listener is dirty, freed sources leave their
\* listeners dirty, geometry the scene.
ApplyOps ==
  /\ pcMix = "applying" /\ pcMix' = "process"
  /\ listeners' = (listeners \cup batch.add) \ batch.remove
  /\ \E more \in SUBSET listeners' :
       /\ more # {} => batch.touch
       /\ dirty' = (dirty \cup batch.add \cup more) \cap listeners'
  /\ sceneDirty' \in {sceneDirty, batch.touch \/ sceneDirty}
  /\ batch' = NoOps
  /\ UNCHANGED <<running, created, pending, handshake, readers, jobPending,
                 pcMain, pcJob, pcRefl, sims>>

Process ==
  /\ \/ pcMix = "process" /\ pcMix' = "mixing" /\ LockShared("mix")
     \/ pcMix = "mixing" /\ pcMix' = "top" /\ Unlock("mix")
  /\ UNCHANGED <<running, listeners, ops, stale, handshake, jobPending,
                 pcMain, pcJob, pcRefl, sims>>

-----------------------------------------------------------------------------
Api == (\E l \in Listener : CreateListener(l) \/ FreeListener(l)) \/ QueueOther \/ LockMaterial
Tick == TickLock \/ Update \/ TickUnlock \/ SetMaterial
Finishing == FinishNotify \/ Join \/ AwaitJob \/ Release
Job == JobStart \/ Decide \/ Commit \/ SetInputs \/ JobEnd
Refl == ReflCheck \/ Retain \/ Simulate \/ ReflLeave
Mix == MixTop \/ LockUnique \/ ApplyOps \/ Process

Next == Api \/ Barrier \/ Tick \/ Finish \/ Finishing \/ TickStopped \/ Job \/ Refl \/ Mix

Spec == Init /\ [][Next]_vars

\* Every thread goes on, a mutex that becomes free again and again is won at
\* last, and the engine goes on calling tick().
Fairness ==
  /\ SF_vars(Barrier) /\ SF_vars(Tick) /\ WF_vars(Finishing)
  /\ SF_vars(Job) /\ SF_vars(Refl) /\ SF_vars(Mix)

FairSpec == Spec /\ Fairness

-----------------------------------------------------------------------------
(* Properties.                                                             *)

FlagsOK ==
  /\ running \in BOOLEAN /\ sceneDirty \in BOOLEAN
  /\ waitForCommit \in BOOLEAN /\ processing \in BOOLEAN /\ newInputs \in BOOLEAN
  /\ jobPending \in BOOLEAN

OpsOK ==
  /\ created \subseteq Listener /\ listeners \subseteq created
  /\ pending \in [add : SUBSET created, remove : SUBSET created, touch : BOOLEAN]
  /\ batch \in [add : SUBSET created, remove : SUBSET created, touch : BOOLEAN]
  /\ dirty \subseteq Listener /\ sims \subseteq Listener

PlacesOK ==
  /\ reflMux \in {"free", "job"} /\ readers \subseteq {"main", "job", "mix"}
  /\ pcMain \in {"idle", "material", "lock", "update", "unlock", "notify", "join_sim",
                 "join_mix", "await_job", "release", "finished"}
  /\ pcJob \in {"none", "queued", "decide", "commit", "direct", "notify", "done"}
  /\ pcRefl \in {"check", "asleep", "retain", "simulate", "leave", "ended"}
  /\ pcMix \in {"top", "queued", "applying", "process", "mixing", "ended"}

TypeOK == FlagsOK /\ OpsOK /\ PlacesOK

\* A commit and a reflection pass never run at the same time.
CommitExcludesPass == pcJob = "commit" => pcRefl \notin {"retain", "simulate"}

\* tick() writes the inputs, ranges and dirty flags only while no job reads
\* and clears them.
TickExcludesJob == pcMain = "update" => pcJob = "none"

\* The collections do not change under a job or a mixing cycle.
CollectionsStable ==
  [][\/ pcJob \notin {"decide", "commit", "direct", "notify"} /\ pcMix # "mixing" /\ pcMain # "update"
     \/ listeners' = listeners]_vars

\* finish() frees the simulators after the last thread that uses them.
ReleasedLast ==
  pcMain \in {"release", "finished"} =>
    pcRefl = "ended" /\ pcMix = "ended" /\ pcJob = "none" /\ sims = {}

\* A sleeping reflection thread misses nothing: finish() has yet to notify it,
\* and so has the job whenever there is something to simulate.
NoLostWakeup ==
  pcRefl = "asleep" =>
    /\ running \/ pcMain = "notify"
    /\ Ready => pcJob \in {"direct", "notify"}

\* finish() comes to its end, whatever each thread was doing.
FinishEnds == ~running ~> pcMain = "finished"

\* What is dirty is committed, although a commit that meets a pass is put off
\* to a later job.
DirtyCommitted ==
  \A l \in Listener : l \in dirty ~> l \notin dirty \/ l \notin listeners \/ ~running

\* NOT so, though run_direct_job() says that a later job commits: with its
\* last dirty listener removed nothing needs a commit, and the request that
\* keeps the reflection thread waiting is not taken back.
WaitTakenBack == waitForCommit ~> ~waitForCommit \/ ~running

=============================================================================
