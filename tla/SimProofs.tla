------------------------------ MODULE SimProofs ------------------------------
(***************************************************************************)
(* The exclusion that SimHandshake relies on, for every set of listeners.  *)
(***************************************************************************)
EXTENDS SimHandshake, TLAPS

-----------------------------------------------------------------------------
(* Types.                                                                  *)

LEMMA TypeInit == Init => TypeOK
<1> SUFFICES ASSUME Init PROVE TypeOK
  OBVIOUS
<1>1. FlagsOK
  BY DEF Init, FlagsOK
<1>2. OpsOK
  BY DEF Init, OpsOK, NoOps
<1>3. PlacesOK
  BY DEF Init, PlacesOK
<1>4. QED
  BY <1>1, <1>2, <1>3 DEF TypeOK

LEMMA OpsStep == OpsOK /\ [Next]_vars => OpsOK'
<1> SUFFICES ASSUME OpsOK, [Next]_vars PROVE OpsOK'
  OBVIOUS
<1> USE DEF OpsOK, ops, stale, handshake
<1>1. ASSUME NEW l \in Listener, CreateListener(l) PROVE OpsOK'
  BY <1>1 DEF CreateListener
<1>2. ASSUME NEW l \in Listener, FreeListener(l) PROVE OpsOK'
  BY <1>2 DEF FreeListener
<1>3. CASE QueueOther
  BY <1>3 DEF QueueOther
<1>4. CASE LockMaterial \/ SetMaterial \/ Barrier \/ TickLock \/ TickUnlock
  BY <1>4 DEF LockMaterial, SetMaterial, Barrier, TickLock, TickUnlock
<1>5. CASE Update
  BY <1>5 DEF Update
<1>6. CASE Finish \/ FinishNotify \/ Join \/ AwaitJob \/ TickStopped \/ UNCHANGED vars
  BY <1>6 DEF Finish, FinishNotify, Join, AwaitJob, TickStopped, vars
<1>7. CASE Release
  BY <1>7 DEF Release, NoOps
<1>8. CASE Job
  BY <1>8 DEF Job, JobStart, Decide, Commit, SetInputs, JobEnd
<1>9. CASE Refl
  BY <1>9 DEF Refl, ReflCheck, Retain, Simulate, ReflLeave
<1>10. CASE MixTop
  <2>1. batch' \in {batch, pending} /\ pending' \in {pending, NoOps}
    BY <1>10 DEF MixTop
  <2>2. UNCHANGED <<created, listeners, dirty, sims>>
    BY <1>10 DEF MixTop
  <2>3. NoOps \in [add : SUBSET created, remove : SUBSET created, touch : BOOLEAN]
    BY DEF NoOps
  <2>4. QED
    BY <2>1, <2>2, <2>3
<1>11. CASE ApplyOps
  BY <1>11 DEF ApplyOps, NoOps
<1>12. CASE LockUnique \/ Process
  BY <1>12 DEF LockUnique, Process
<1>13. QED
  BY <1>1, <1>2, <1>3, <1>4, <1>5, <1>6, <1>7, <1>8, <1>9, <1>10, <1>11, <1>12
     DEF Next, Api, Tick, Finishing, Mix

LEMMA FlagsStep == FlagsOK /\ OpsOK /\ [Next]_vars => FlagsOK'
<1> SUFFICES ASSUME FlagsOK, OpsOK, [Next]_vars PROVE FlagsOK'
  OBVIOUS
<1> USE DEF FlagsOK, ops, stale, handshake
<1>1. CASE Api
  BY <1>1 DEF Api, CreateListener, FreeListener, QueueOther, LockMaterial
<1>2. CASE Tick \/ Barrier
  BY <1>2 DEF Tick, SetMaterial, Barrier, TickLock, TickUnlock, Update
<1>3. CASE Finish \/ Finishing \/ TickStopped \/ UNCHANGED vars
  BY <1>3 DEF Finish, Finishing, FinishNotify, Join, AwaitJob, Release, TickStopped, vars
<1>4. CASE Job
  BY <1>4 DEF Job, JobStart, Decide, Commit, SetInputs, JobEnd
<1>5. CASE Refl
  BY <1>5 DEF Refl, ReflCheck, Retain, Simulate, ReflLeave
<1>6. CASE MixTop \/ LockUnique \/ Process
  BY <1>6 DEF MixTop, LockUnique, Process
<1>7. CASE ApplyOps
  BY <1>7 DEF ApplyOps, OpsOK
<1>8. QED
  BY <1>1, <1>2, <1>3, <1>4, <1>5, <1>6, <1>7 DEF Next, Mix

LEMMA PlacesStep == PlacesOK /\ [Next]_vars => PlacesOK'
<1> SUFFICES ASSUME PlacesOK, [Next]_vars PROVE PlacesOK'
  OBVIOUS
<1> USE DEF PlacesOK, handshake
<1>1. CASE Api
  BY <1>1 DEF Api, CreateListener, FreeListener, QueueOther, LockMaterial
<1>2. CASE SetMaterial \/ Barrier
  BY <1>2 DEF SetMaterial, Barrier
<1>3. CASE TickLock
  BY <1>3 DEF TickLock, LockShared
<1>4. CASE Update
  BY <1>4 DEF Update
<1>5. CASE TickUnlock
  BY <1>5 DEF TickUnlock, Unlock
<1>6a. CASE Finish
  BY <1>6a DEF Finish
<1>6b. CASE Release
  BY <1>6b DEF Release
<1>7. CASE FinishNotify
  BY <1>7 DEF FinishNotify, NotifyRefl
<1>8. CASE Join
  BY <1>8 DEF Join
<1>9. CASE AwaitJob
  BY <1>9 DEF AwaitJob
<1>10. CASE JobStart
  BY <1>10 DEF JobStart, LockShared
<1>11. CASE Decide
  BY <1>11 DEF Decide
<1>12. CASE Commit \/ SetInputs
  BY <1>12 DEF Commit, SetInputs
<1>13. CASE JobEnd
  BY <1>13 DEF JobEnd, Unlock, NotifyRefl
<1>14. CASE ReflCheck
  BY <1>14 DEF ReflCheck
<1>15. CASE Retain \/ Simulate \/ ReflLeave
  BY <1>15 DEF Retain, Simulate, ReflLeave
<1>16. CASE MixTop
  BY <1>16 DEF MixTop
<1>17. CASE LockUnique \/ ApplyOps
  BY <1>17 DEF LockUnique, ApplyOps
<1>18. CASE Process
  <2>1. readers' \in {readers \cup {"mix"}, readers \ {"mix"}}
    BY <1>18 DEF Process, LockShared, Unlock
  <2>2. pcMix' \in {"mixing", "top"} /\ UNCHANGED <<reflMux, pcMain, pcJob, pcRefl>>
    BY <1>18 DEF Process
  <2>3. QED
    BY <2>1, <2>2
<1>19. CASE TickStopped \/ UNCHANGED vars
  <2>1. UNCHANGED vars
    BY <1>19 DEF TickStopped
  <2>2. UNCHANGED <<reflMux, readers, pcMain, pcJob, pcRefl, pcMix>>
    BY <2>1 DEF vars
  <2>3. QED
    BY <2>2
<1>20. QED
  BY <1>1, <1>2, <1>3, <1>4, <1>5, <1>6a, <1>6b, <1>7, <1>8, <1>9, <1>10, <1>11, <1>12, <1>13,
     <1>14, <1>15, <1>16, <1>17, <1>18, <1>19 DEF Next, Tick, Finishing, Job, Refl, Mix

LEMMA TypeStep == TypeOK /\ [Next]_vars => TypeOK'
BY OpsStep, FlagsStep, PlacesStep DEF TypeOK

\* Type correctness: only listeners that were created are in the collection
\* or queued, and every thread is at one of its places.
THEOREM TypeCorrect == Spec => []TypeOK
BY TypeInit, TypeStep, PTL DEF Spec

-----------------------------------------------------------------------------
(* Exclusion.                                                              *)

JobRuns == pcJob \in {"decide", "commit", "direct", "notify"}

\* refl_mux and is_refl_thread_processing say where the two threads are.
HandshakeInv ==
  /\ reflMux = "job" <=> pcJob = "commit"
  /\ processing <=> pcRefl \in {"retain", "simulate", "leave"}
  /\ pcJob = "commit" => ~processing

\* direct_job_pending says when there may be a job.
BarrierInv ==
  /\ ~jobPending => pcJob = "none"
  /\ pcMain \in {"lock", "update"} => ~jobPending

\* The shared locks of collections_mutex, and what a unique lock excludes.
LockInv ==
  /\ "job" \in readers <=> JobRuns
  /\ "mix" \in readers <=> pcMix = "mixing"
  /\ "main" \in readers <=> pcMain \in {"update", "unlock"}
  /\ pcMix = "applying" => readers = {}

\* finish() waits for one thread after the other.
FinishInv ==
  /\ pcMain \in {"notify", "join_sim", "join_mix", "await_job", "release", "finished"} => ~running
  /\ pcMain \in {"join_mix", "await_job", "release", "finished"} => pcRefl = "ended"
  /\ pcMain \in {"await_job", "release", "finished"} => pcMix = "ended"
  /\ pcMain \in {"release", "finished"} => pcJob = "none"
  /\ pcRefl # "simulate" => sims = {}

SimInv == HandshakeInv /\ BarrierInv /\ LockInv /\ FinishInv

LEMMA SimInit == Init => SimInv
BY DEF Init, SimInv, HandshakeInv, BarrierInv, LockInv, FinishInv, JobRuns

\* Each conjunct by the actions that touch its variables.
LEMMA MainStep == SimInv /\ (Api \/ Barrier \/ Tick) => SimInv'
<1> SUFFICES ASSUME SimInv, Api \/ Barrier \/ Tick PROVE SimInv'
  OBVIOUS
<1> USE DEF SimInv, HandshakeInv, BarrierInv, LockInv, FinishInv, JobRuns, ops, stale, handshake
<1>1. ASSUME NEW l \in Listener, CreateListener(l) \/ FreeListener(l) PROVE SimInv'
  BY <1>1 DEF CreateListener, FreeListener
<1>2. CASE QueueOther \/ LockMaterial
  BY <1>2 DEF QueueOther, LockMaterial
<1>3. CASE SetMaterial
  BY <1>3 DEF SetMaterial
<1>4. CASE Barrier
  BY <1>4 DEF Barrier
<1>5. CASE TickLock
  BY <1>5 DEF TickLock, LockShared, WriterWaits
<1>6. CASE Update
  BY <1>6 DEF Update
<1>7. CASE TickUnlock
  BY <1>7 DEF TickUnlock, Unlock
<1>8. QED
  BY <1>1, <1>2, <1>3, <1>4, <1>5, <1>6, <1>7 DEF Api, Tick

LEMMA FinishStep == SimInv /\ (Finish \/ Finishing \/ TickStopped) => SimInv'
<1> SUFFICES ASSUME SimInv, Finish \/ Finishing \/ TickStopped PROVE SimInv'
  OBVIOUS
<1> USE DEF SimInv, HandshakeInv, BarrierInv, LockInv, FinishInv, JobRuns, ops, stale, handshake
<1>1. CASE Finish
  BY <1>1 DEF Finish
<1>2. CASE FinishNotify
  BY <1>2 DEF FinishNotify, NotifyRefl
<1>3. CASE Join
  BY <1>3 DEF Join
<1>4. CASE AwaitJob
  BY <1>4 DEF AwaitJob
<1>5. CASE Release
  BY <1>5 DEF Release
<1>6. CASE TickStopped
  BY <1>6 DEF TickStopped, vars
<1>7. QED
  BY <1>1, <1>2, <1>3, <1>4, <1>5, <1>6 DEF Finishing

LEMMA JobStep == SimInv /\ Job => SimInv'
<1> SUFFICES ASSUME SimInv, Job PROVE SimInv'
  OBVIOUS
<1> USE DEF SimInv, HandshakeInv, BarrierInv, LockInv, FinishInv, JobRuns, ops, stale, handshake
<1>1. CASE JobStart
  BY <1>1 DEF JobStart, LockShared, WriterWaits
<1>2. CASE Decide
  BY <1>2 DEF Decide
<1>3. CASE Commit
  BY <1>3 DEF Commit
<1>4. CASE SetInputs
  BY <1>4 DEF SetInputs
<1>5. CASE JobEnd
  BY <1>5 DEF JobEnd, Unlock, NotifyRefl
<1>6. QED
  BY <1>1, <1>2, <1>3, <1>4, <1>5 DEF Job

LEMMA ReflStep == SimInv /\ Refl => SimInv'
<1> SUFFICES ASSUME SimInv, Refl PROVE SimInv'
  OBVIOUS
<1> USE DEF SimInv, HandshakeInv, BarrierInv, LockInv, FinishInv, JobRuns, ops, stale, handshake
<1>1. CASE ReflCheck
  BY <1>1 DEF ReflCheck
<1>2. CASE Retain
  BY <1>2 DEF Retain
<1>3. CASE Simulate
  BY <1>3 DEF Simulate
<1>4. CASE ReflLeave
  BY <1>4 DEF ReflLeave
<1>5. QED
  BY <1>1, <1>2, <1>3, <1>4 DEF Refl

LEMMA MixStep == SimInv /\ Mix => SimInv'
<1> SUFFICES ASSUME SimInv, Mix PROVE SimInv'
  OBVIOUS
<1> USE DEF SimInv, HandshakeInv, BarrierInv, LockInv, FinishInv, JobRuns, ops, stale, handshake
<1>1. CASE MixTop
  BY <1>1 DEF MixTop
<1>2. CASE LockUnique
  BY <1>2 DEF LockUnique, Exclusive
<1>3. CASE ApplyOps
  BY <1>3 DEF ApplyOps
<1>4. CASE Process
  BY <1>4 DEF Process, LockShared, Unlock, WriterWaits
<1>5. QED
  BY <1>1, <1>2, <1>3, <1>4 DEF Mix

LEMMA SimStep == SimInv /\ [Next]_vars => SimInv'
<1>1. SimInv /\ UNCHANGED vars => SimInv'
  BY DEF SimInv, HandshakeInv, BarrierInv, LockInv, FinishInv, JobRuns, vars, handshake
<1>2. QED
  BY <1>1, MainStep, FinishStep, JobStep, ReflStep, MixStep DEF Next

\* No commit while the reflection thread runs a pass.
THEOREM CommitsAlone == Spec => []CommitExcludesPass
<1>1. SimInv => CommitExcludesPass
  BY DEF SimInv, HandshakeInv, CommitExcludesPass
<1>2. QED
  BY <1>1, SimInit, SimStep, PTL DEF Spec

\* tick() never updates what a job reads.
THEOREM TicksAlone == Spec => []TickExcludesJob
<1>1. SimInv => TickExcludesJob
  BY DEF SimInv, BarrierInv, TickExcludesJob
<1>2. QED
  BY <1>1, SimInit, SimStep, PTL DEF Spec

\* finish() frees the simulators after every thread that uses them has ended.
THEOREM ReleasesLast == Spec => []ReleasedLast
<1>1. SimInv => ReleasedLast
  BY DEF SimInv, FinishInv, ReleasedLast
<1>2. QED
  BY <1>1, SimInit, SimStep, PTL DEF Spec

\* The set of listeners changes under nobody who holds a shared lock.
THEOREM CollectionsAreStable == Spec => CollectionsStable
<1>1. ASSUME SimInv, [Next]_vars, JobRuns \/ pcMix = "mixing" \/ pcMain = "update"
      PROVE  listeners' = listeners
  <2>1. ~ApplyOps /\ ~Release
    BY <1>1 DEF SimInv, LockInv, FinishInv, ApplyOps, Release, JobRuns
  <2>2. QED
    BY <1>1, <2>1 DEF Next, Api, Tick, Finishing, Job, Refl, Mix, CreateListener, FreeListener,
       QueueOther, LockMaterial, SetMaterial, Barrier, TickLock, Update, TickUnlock, Finish,
       FinishNotify, Join, AwaitJob, TickStopped, JobStart, Decide, Commit, SetInputs, JobEnd,
       ReflCheck, Retain, Simulate, ReflLeave, MixTop, LockUnique, Process, vars
<1>2. SimInv /\ [Next]_vars =>
        [\/ pcJob \notin {"decide", "commit", "direct", "notify"} /\ pcMix # "mixing"
                                                            /\ pcMain # "update"
         \/ listeners' = listeners]_vars
  BY <1>1 DEF JobRuns
<1>3. QED
  BY <1>2, SimInit, SimStep, PTL DEF Spec, CollectionsStable

-----------------------------------------------------------------------------
(* Waiting.                                                                *)

\* Places from which the job, or whoever has collections_mutex or is next to
\* have it alone, goes on.
JobGoesOn ==
  \/ pcJob = "queued" /\ ~WriterWaits
  \/ pcJob \in {"decide", "direct"} /\ reflMux = "free"
  \/ pcJob \in {"commit", "notify"}
LockMoves ==
  \/ pcMain = "material" /\ Exclusive
  \/ pcMix = "queued" /\ Exclusive
  \/ pcMix = "applying"
  \/ pcMain \in {"update", "unlock"}
  \/ "job" \in readers /\ JobGoesOn
  \/ pcMix = "mixing"

\* Nobody waits for somebody who waits for him: a writer of collections_mutex
\* holds the others up only while it or a holder goes on, refl_mux is held by
\* a commit alone, and what finish() waits for is on its way.
NobodyStuck ==
  /\ WriterWaits => LockMoves
  /\ reflMux # "free" => pcJob = "commit"
  /\ "job" \in readers => JobGoesOn
  /\ pcMain = "join_sim" => pcRefl # "asleep"
  /\ pcMain = "await_job" /\ jobPending => pcJob = "done" \/ JobGoesOn

\* A job that tick() submitted is there until a barrier takes it back.
JobKnown == jobPending => pcJob # "none"

LEMMA WakeupStep == SimInv /\ NoLostWakeup /\ [Next]_vars => NoLostWakeup'
<1> SUFFICES ASSUME BarrierInv, NoLostWakeup, [Next]_vars PROVE NoLostWakeup'
  BY DEF SimInv
<1> USE DEF BarrierInv, NoLostWakeup, Ready, handshake
<1>1. CASE Api
  BY <1>1 DEF Api, CreateListener, FreeListener, QueueOther, LockMaterial
<1>2. CASE SetMaterial \/ TickLock \/ TickUnlock
  BY <1>2 DEF SetMaterial, TickLock, TickUnlock
<1>3. CASE Barrier
  BY <1>3 DEF Barrier
<1>4. CASE Update
  BY <1>4 DEF Update
<1>5. CASE Finish \/ FinishNotify
  BY <1>5 DEF Finish, FinishNotify, NotifyRefl
<1>6. CASE Join \/ AwaitJob \/ Release
  BY <1>6 DEF Join, AwaitJob, Release
<1>7. CASE JobStart \/ Decide
  BY <1>7 DEF JobStart, Decide
<1>8. CASE Commit \/ SetInputs
  BY <1>8 DEF Commit, SetInputs
<1>9. CASE JobEnd
  BY <1>9 DEF JobEnd, NotifyRefl
<1>10. CASE Refl
  BY <1>10 DEF Refl, ReflCheck, Retain, Simulate, ReflLeave
<1>11. CASE Mix
  BY <1>11 DEF Mix, MixTop, LockUnique, ApplyOps, Process
<1>12. CASE TickStopped \/ UNCHANGED vars
  BY <1>12 DEF TickStopped, vars
<1>13. QED
  BY <1>1, <1>2, <1>3, <1>4, <1>5, <1>6, <1>7, <1>8, <1>9, <1>10, <1>11, <1>12
     DEF Next, Tick, Finishing, Job

LEMMA JobKnownStep == JobKnown /\ [Next]_vars => JobKnown'
<1> SUFFICES ASSUME JobKnown, [Next]_vars PROVE JobKnown'
  OBVIOUS
<1> USE DEF JobKnown
<1>1. CASE Job
  BY <1>1 DEF Job, JobStart, Decide, Commit, SetInputs, JobEnd
<1>2. CASE Barrier \/ Update \/ AwaitJob
  BY <1>2 DEF Barrier, Update, AwaitJob
<1>3. CASE UNCHANGED <<jobPending, pcJob>>
  BY <1>3
<1>4. Job \/ Barrier \/ Update \/ AwaitJob \/ UNCHANGED <<jobPending, pcJob>>
  BY DEF Next, Api, CreateListener, FreeListener, QueueOther, LockMaterial, Tick, TickLock,
     TickUnlock, SetMaterial, Finish, Finishing, FinishNotify, Join, Release, TickStopped, Refl,
     ReflCheck, Retain, Simulate, ReflLeave, Mix, MixTop, LockUnique, ApplyOps, Process, vars
<1>5. QED
  BY <1>1, <1>2, <1>3, <1>4

\* No notification of the reflection thread is lost.
THEOREM WakeupsArrive == Spec => []NoLostWakeup
<1>1. Init => NoLostWakeup
  BY DEF Init, NoLostWakeup
<1>2. QED
  BY <1>1, SimInit, SimStep, WakeupStep, PTL DEF Spec

\* Threads wait in one order: for collections_mutex before refl_mux, and for
\* another thread with neither.
THEOREM WaitsAreServed == Spec => []NobodyStuck
<1> DEFINE Inv == PlacesOK /\ SimInv /\ NoLostWakeup /\ JobKnown
<1>1. Init => Inv
  BY TypeInit, SimInit DEF TypeOK, Init, NoLostWakeup, JobKnown
<1>2. Inv /\ [Next]_vars => Inv'
  BY PlacesStep, SimStep, WakeupStep, JobKnownStep
<1>3. ASSUME Inv PROVE NobodyStuck
  <2> USE DEF SimInv
  <2>1. "job" \in readers => JobGoesOn
    BY <1>3 DEF LockInv, JobRuns, HandshakeInv, JobGoesOn, PlacesOK
  <2>2. reflMux # "free" => pcJob = "commit"
    BY <1>3 DEF HandshakeInv, PlacesOK
  <2>3. ASSUME WriterWaits PROVE LockMoves
    <3>1. CASE pcMix = "applying"
      BY <3>1 DEF LockMoves
    <3>2. CASE pcMix # "applying" /\ readers = {}
      BY <2>3, <3>2 DEF WriterWaits, LockMoves, Exclusive
    <3>3. CASE readers # {}
      <4>1. "main" \in readers \/ "job" \in readers \/ "mix" \in readers
        BY <1>3, <3>3 DEF PlacesOK
      <4>2. QED
        BY <1>3, <2>1, <4>1 DEF LockInv, LockMoves
    <3>4. QED
      BY <3>1, <3>2, <3>3
  <2>4. pcMain = "join_sim" => pcRefl # "asleep"
    BY <1>3 DEF NoLostWakeup, FinishInv
  <2>5. ASSUME pcMain = "await_job", jobPending PROVE pcJob = "done" \/ JobGoesOn
    <3>1. ~WriterWaits
      BY <1>3, <2>5 DEF FinishInv, WriterWaits
    <3>2. reflMux = "free" \/ pcJob = "commit"
      BY <2>2
    <3>3. pcJob # "none"
      BY <1>3, <2>5 DEF JobKnown
    <3>4. QED
      BY <1>3, <3>1, <3>2, <3>3 DEF PlacesOK, JobGoesOn
  <2>6. QED
    BY <2>1, <2>2, <2>3, <2>4, <2>5 DEF NobodyStuck
<1> HIDE DEF Inv
<1>4. QED
  BY <1>1, <1>2, <1>3, PTL DEF Spec

=============================================================================
