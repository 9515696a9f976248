# Formal models of godot-steam-audio

godot-steam-audio connects Godot's audio engine with Steam Audio: sources and
listeners are registered on a server, a mixing thread mixes every source for
every listener, a worker job and a reflection thread simulate the propagation of
sound, and each listener's result is played through ordinary Godot playbacks.
This directory holds TLA+ models of that program, the TLC configurations that
check them and TLAPS proofs about them. Paths below are relative to the
repository; `server.cpp` is `src/server.cpp`.

## 1. The system

| Component | State | Operations | Threads |
|---|---|---|---|
| Mixing pipeline (`server.cpp` 1503-2152) | per source: `mixed_frames`, `mixed_frames_ready`, `mix_generation`, playbacks; per listener: `push_buffer`, `generation`, playbacks with `remaining_from_push_buffer`; per pair: the two stamps, `out_of_range`, `direct_simulated_once` | `process_audio()`: apply operations, phase 1 (drain), phase 2 (mix), phase 3 (collect and push) | mixing |
| Output ring (`RingBuffer.h`, `AudioStreamSteamAudioListener.cpp`) | slots, `read_pos`, `write_pos`, `reset_requested` | `push_buffer()`, `_mix()`, `clear()`, `_start()`, `_stop()`, occupancy | mixing writes, audio (or mixing) reads, main measures |
| Simulation handshake (`server.cpp` 558-1132) | `is_running`, `refl_mux`/`refl_cv`, `refl_thread_wait_for_commit`, `is_refl_thread_processing`, `new_inputs_set`, `direct_job_pending`, dirty flags, `collections_mutex` | `tick()`, `run_direct_job()`, `simulation_thread_func()`, `finish()` | main, worker pool, reflection, mixing |
| Operations and RIDs (`server.cpp` 1259-1501, 2158-2638) | RID owners, `pending_ops`, the collections | create, free, set; applied in batches by the mixing thread | main queues, mixing applies |
| Direct simulation of a pair (`server.cpp` 680-959) | range flag, IPLSource, distance, dB level | hysteresis, deferred creation, level snapshot | main, job |
| Audio settings (`server.cpp` 408-500) | frame size, rates, ring capacity | derived once | main |
| Listener node (`listener.cpp`) | sensor slots, snapshot version | `update_sensor_slots()`, `play...` | main |
| Source node (`source.cpp`) | RID, registration timeout | register, unregister, `play_stream()` | main |
| Geometry nodes (`geometry.cpp`) | RIDs of meshes | register, material, transform | main |
| Parameterized stream (`parameterized_audio_stream.cpp`) | inputs, outputs, grains | `trigger()`, `_mix()` | main, mixing |
| Stress mitigation (`server.cpp` 1166-1206) | skip counters | skip reflections under load | mixing |

How they interact: the main thread never changes the collections; it queues
operations, which the mixing thread applies under a unique lock of
`collections_mutex` before a cycle. Everybody else iterates the collections under
a shared lock, or takes no lock at all (the reflection thread during a pass, the
scalar setters). Flow control of audio has no counters of outstanding work: each
cycle *derives* from stamps who still has to contribute, to consume or to drain.
Ring buffers push back: a full ring leaves frames in `remaining_from_push_buffer`,
which holds up the listener's next round, which holds up the sources it hears.

What is hard: setters and playbacks change between two phases; a round spans many
cycles; listeners share one mix; a listener may play *through a source* (walkie
talkie), so that the mixing thread is both ends of a ring; commits must avoid
reflection passes without blocking the main thread; shutdown must outlast four
threads. `PROJECT.json` lists these hazards at their lines.

What makes each component correct:

- *pipeline*: no source enters a buffer twice per round; a buffer is not touched
  while it drains and is handed out once; a mix is whole; no mix is cleared before
  an active listener took it; nobody is stalled for good;
- *ring*: a bounded queue without data races; the two occupancy checks hold until
  they are used; the reported latency is real;
- *handshake*: commits, passes, ticks and releases exclude each other as
  intended; what is dirty is committed; no deadlock; `finish()` returns;
- *operations*: a live object or no effect; *pair*: each in-range pair is
  simulated, each out-of-range one released; *settings*: powers of two, capacity
  at least one device block; *sensor slots*: sorted, no source twice; *source
  node*: never unregistered while it plays; *granular output*: reads inside the
  input, no grain again before eight others, a search that ends.

## 2. Modules

| Module | Content |
|---|---|
| `BlockStream` | what the pipeline promises the only playback of a listener: block after block |
| `MixPipeline` | the mixing thread against main and audio threads; implements `BlockStream` |
| `MixHistory` | the same with history variables, for properties about the past, the fairness, and the steady states some runs start from |
| `MCMix` | instances for TLC |
| `MixProofs`, `MixHistoryProofs` | proofs about them |
| `BoundedFifo` | what a ring promises: a bounded queue that can be cleared |
| `RingBuffer` | the ring, one access to shared memory per step; implements `BoundedFifo` |
| `RingProofs` | proofs about it |
| `SimHandshake` | tick, job, reflection thread, mixing thread's locks, finish |
| `SimProofs` | proofs about it |
| `DirectSim` | what tick and job do for each pair of a source and a listener, on top of `SimHandshake` |
| `MCDirect` | its symmetry for TLC |
| `DirectProofs` | proofs about it |
| `RidLife` | what a RID promises its holder, without the queue |
| `ServerOps` | RIDs, the queue of operations and a source node that uses them; implements `RidLife` |
| `ServerOpsProofs` | proofs about it |
| `SensorSlots` | the sensor slots of a listener node |
| `SensorProofs` | proofs about it |
| `GrainSweep` | the granular output of a parameterized stream |
| `GrainProofs` | proofs about it |

### MixPipeline

A step is one operation of `apply_pending_ops()`, one iteration of a loop of
`process_audio()` (`Phase1(l)`, `Phase2Scan(s)`, `Phase2Mix(s)`,
`Phase3Begin(l)`, `Phase3Collect(l)`, `Phase3Push(l)`), or a step of another
thread. The loops take listeners and sources in any order (`todo`), which covers
the order of the collections. Steps are split where a lock is released or
another thread can intervene: between phase 2's decision that a source is needed
and its mixing, and in phase 3 between the check for pending drains, collecting
and pushing, since `playbacks_mutex` is taken anew for each. Phase 1 is one step
per listener because it holds `playbacks_mutex` throughout.

| Model | Code |
|---|---|
| `contributed` | pairs with `last_contributed_generation == generation` |
| `owes` | pairs with `last_consumed_mix != mix_generation` |
| `matching`, `outOfRange`, `simulated` | `layers & mask`, `out_of_range`, `direct_simulated_once` |
| `pushBuffer[l]` | how often each source's mix was added to `push_buffer` since `fill(0)`, counted to 2 |
| `mixed`, `ready` | `num_mixed_in_current_mixed_frames`, `mixed_frames_ready` |
| `feeding`, `attached`, `viaSource` | playbacks of sources, of listeners, with `is_playback_of_source` |
| `remaining`, `ring`, `resetting` | `remaining_from_push_buffer`, frames in the ring, `reset_requested` |
| `skipping` | `is_skipping_mixing` |
| `pushed`, and in `MixHistory` `due`, `heard`, `held` | history: no step reads them |

Sample values, effects, volume and pitch are left out; frames are counted. A
stream delivers any number of frames up to what is asked; a listener's playback
always fills up with silence. Sensor pacing is a free choice to mix or not.
Creating a pair may fail, so the adding operations choose which pairs exist.

The generation of a listener is a `uint32_t` and only compared for equality. A pair
whose masks match is stamped anew in every round, out of range or not (1913-1915); a
pair whose masks do not match (1885) keeps its old stamp, which after a lap of 2^32
rounds would cost it its part in one round. That lap is left out.

`KeepsBlocks` is the promise of `BlockStream`. There a playback has a block, which
counts the mixes of each source in it, what is left to be given, and a ring. A block
is collected from sources that are not in it, while nothing of the last one is left;
its F frames are put in the ring in turn, as they fit; when the last is there the block
is cleared, and no sooner, unless the full ring is played by nobody or the playback
stops. So a source added twice, a block handed out twice or cleared before its frames
were given, and frames given twice or not at all are steps that `BlockStream` does not
have. The mapping takes `push_buffer` and `remaining_from_push_buffer` of an attached
playback and the ring as they are. It holds while no listener has two playbacks
attached (`OneAttached`): one is what a listener node makes for its first child, but a
script may call `play_on_audiostreamplayer()` again, and `push_twice` shows how two
playbacks break it.

### RingBuffer

A step reads or writes one shared location: the other side's position, a slot,
or a position stored with release order. The reader is `_mix()` with its
resampler path (several reads in one call) and the clearing of a requested
reset; the writer is the mixing thread under `playbacks_mutex`; the main thread's
occupancy query takes that mutex and loads the two positions in two steps.
The main thread also sets the playback up: `setup` follows play(), after which `_mix()`
may run, `set_buffer_size()`, which reallocates and clears, and
`listener_add_playback()`, after which the mixing thread knows the playback.
Interleaving single accesses is faithful because positions are release/acquire
atomics and `NoRace` shows that plain slots are never shared.

### SimHandshake

One step per critical section; `collections_mutex` is a reader/writer lock that
lets no reader pass a waiting writer, as the comment in `tick()` expects of the
platform. `refl_mux` is held over more than one step only while a job commits.
The condition variable is the state `asleep`: the predicate is evaluated and the
thread goes to sleep in one step under `refl_mux`. A listener stands for its
simulator. What `tick()` computes is reduced to which listeners it makes dirty.

### DirectSim

Extends `SimHandshake`: its steps are the steps of the handshake, and `Update`,
`JobStart`, `Commit`, `SetInputs`, `ApplyOps` and `Release` also change the pairs.
A pair is a `SourceListenerData`; `outOfRange`, `pendingCreate` and `simulated`
are its flags, `source` the pairs whose IPLSource exists. `added` counts how often
a pair's source was added to its simulator more than removed, `committed` says
what the simulator had at its last commit, since `iplSourceAdd()` and
`iplSourceRemove()` only take effect with the next one. `leftover` marks a
simulator that still has a source whose pair is gone. `ran` is history: the
pairs some direct simulation computed. In a tick any pairs have matching masks and
any of their sources a transform, and distances and ranges are chosen anew:
`Distance` and `Reach` hold one distance inside a range of 10, one in the band of
hysteresis and one beyond it, and a range of 0, which means none. As `MIN` is
taken before the test for zero, a source without reflections whose maximal distance
is 0 has no range either. Creating a source may fail, which makes a later tick
try again; simulators are assumed to be created.

### ServerOps

`alive` is what the RID owners hold, `linked` what the collections hold, `queue`
is `pending_ops` and `batch` what `apply_pending_ops()` swapped out and has not
applied yet. Swap and unique lock are two steps, as in the code: in between, the
main thread still gets shared locks. The operations of a batch are applied one by
one; `finish()` applies the last batch without the mixing thread. A source node
(`node`, `dynamic`, `inTree`, `expired`) is a full client: it registers, plays,
sets volumes, times out. Listeners and geometry are clients that create and free.
Mixing is reduced to dropping ended playbacks, which it may also put off. `asked`,
`playedOn` and `missed` are history. Nodes call the server while it runs only:
`finish()` is called when the extension is unloaded (`register_types.cpp`
56-63), after the scene tree is gone. Pitch takes the same way as volume.
`KeepsLife` is the promise of `RidLife`, in which there is no queue: a RID's data
enters the collections once and leaves them once, and after that.

### SensorSlots

The listener node, `tick()` and the registration run on the main thread, so the
interleaving is only that of their calls: `Tick` rebuilds the snapshot with any
levels, or does not happen in a frame, `Process` is a frame of the node,
`SetNumSlots(n)`, `EnterTree` and `ExitTree` may come between. A frame that takes
in a snapshot is `Process` followed by one `TakeIn(s)` per source, with nothing
else in between (`Idle`): the sources come in any order, and the proof can speak
of a snapshot half taken in. Levels are steps above -60 dB and `Silent` is
everything below: the code treats that as absent. A frame decays by one step; the
decay is the same for all slots, whatever the frame took. The bubbling of a slot
that became louder and the shift for a new one are the same `Insert`, up to the
slot that makes room. `loud`, `ticked` and `current` are history. Positions are
left out: they are written with their source in each place.

### GrainSweep

A step is an iteration of the search in `spawn_new_grain()`, or half a frame of
`mix_output_into_buffer()`: the test whether a new grain is due, and the reads. The
floating point arithmetic of starts and sizes is exact: sizes grow by the fraction
`SizeStep / Slack` per grain, and floor is integer division. The parameter and its
jitter are a free choice among the grain numbers that fractions from 0 to 1 give.
`GrainConstants` says what the code takes for granted: there is more than one
grain, the last is not smaller than the first, and the first has at least
`2 * Window - 1` samples. Shorter ones would miss the only frame in which the next
grain is spawned; with the window of 50 that is a grain below 2.3 milliseconds,
where the default is 20.

## 3. Runs

| Run | Instance | Checks |
|---|---|---|
| `mix_lifecycle` | from the empty server: 2 sources, one with two streams and one with none, 1 listener with 1 playback, 1 reconfiguration | `TypeOK`, `RoundSound`, `DrainBeforeCollect`, `RoundPushedOnce`, `WholeMix` |
| `mix_listeners` | steady start, 1 reconfiguration, fair threads: 2 sources, 2 listeners; `l1` plays through `s2`, which has a stream besides that may starve; both listeners, `l2` a sensor, hear both sources; `s2` is not freed | `NoLostMix`, `KeepsBlocks`, `ReplayNeedsHeldGate`, `GateReleased`, `NeverDry` |
| `ring` | one playback from play() on: 4 slots, 2 frame values, batches up to 3 | `NoRace`, `NoShortPush`, `NoShortRead`, `LatencyHonest`, `ResizedInQuiet`, `IsFifo` |
| `sim_handshake` | 1 listener, all threads, fair | `CommitExcludesPass`, `TickExcludesJob`, `ReleasedLast`, `CollectionsStable`, `NoLostWakeup`, `FinishEnds`, `DirtyCommitted` and freedom from deadlock |
| `direct_sim` | 2 sources and a listener that may be removed and replaced, 3 distances, 2 ranges | `InSimulator`, `StagedIsDirty`, `ResultsAreReal` |
| `rid_ops` | 2 RIDs of sources, 1 of a listener or geometry, 1 playback | `HeldIsAlive`, `NothingLeaks`, `KeepsLife` |
| `node_ops` | a node that registers up to twice, 2 playbacks, 2 volumes, fair | `NeverDropped`, `VolumeKept`, `IdleWhenRemoved`, `IdleTimesOut` |
| `sensor_slots` | 3 sources, up to 3 slots, levels of 3 steps, 2 snapshots per registration | `Sorted`, `NoTwice`, `FadesOut`, `HoldsLoudest` |
| `grains` | 29 samples, 4 grains of 5 or 6 samples, 3 remembered, window of 3, fair | `ReadsInGrain`, `NoRepeat`, `SearchEnds` |
| `push_twice`, `freed_walkie`, `sim_wait` | see section 5 | one property each that the code's comments state and the code violates |

Bounds. `F = 2` frames per block and rings of `Cap = 3` frames make a push fit,
fit in part or not fit, and make a mix complete, partial or empty; those are the
only cases the code distinguishes. `Cap = 2 * F - 1` is also what the default settings
give: frames of 1024 at 48 kHz and a mix buffer of 15 ms make a ring of 2048 slots, of
which one stays free. `MaxChanges` bounds the changes of masks,
ranges and playback states and the removals; one suffices to put a change between
any two phases, and the proofs hold for every number. Two streams on one source
are the smallest instance where a mix is complete for one stream and not for
another, two listeners on one source the smallest where a mix is shared, and two
sources on one listener the smallest where a round waits. In the ring, four slots
wrap with every batch size, and a batch of three is the largest that fits. One
listener in the handshake is enough for every flag to be raised and to lose its
reason; the liveness check of two listeners takes longer than is practical, while
the safety properties are proved for any set of listeners. Two RIDs of sources
let a node register again while the removal of the first is still queued; two
playbacks let one be queued while another plays or has ended; two volumes tell the
one asked for from another. Three sources and three slots
let one source move up past another, shift a third and push one out; a second
snapshot, or a registration whose version starts anew, meets slots that hold
something. Two sources on one listener are enough
for one to leave and come back while the other is created, and for a commit that
is put off to be owed to both; distances and ranges enter only through the
comparisons named above. The four grains with three remembered are the fewest for
which the search ends, the smallest size is the smallest that the window allows,
and 29 samples leave a partial grain at the end that must not be played.
`CHECK_DEADLOCK` is off for `ServerOps`, whose system
stops after `finish()`.

Fairness. The mixing thread loops until `is_running` is cleared, so its
`ProcessAudio` steps are weakly fair; operations of the main thread are not
fair. An audio device calls `_mix()` of what it plays over and over: `Drain(p)` is
weakly fair. In the handshake the threads wait for mutexes that others take again
and again; that such a wait ends is the assumption that mutexes and the
reader/writer lock starve nobody, stated as strong fairness of each thread. The
engine calls `tick()` every frame, which is the strong fairness of the barrier;
nobody has to call `finish()` or the API. In `GrainSweep` the search goes on while the
audio thread runs, and of the random numbers it is only assumed that from a grain
which comes up again and again the steps +1 and -1 are both drawn again and again.
In `ServerOps` the mixing loop, the
process notification of the frame loop and time are weakly fair. `Expire` also
states an assumption: within the second that a dynamic node waits, the mixing
thread, which goes round every millisecond, applies what was queued.

## 4. Proofs

All theorems hold for arbitrary constants that satisfy the named assumptions
`MixConstants`, `RingConstants`, `OpsConstants`, `SlotConstants`, `DirectConstants`
and `GrainConstants`: any sets of sources, listeners and
playbacks, any block size, ring size and number of changes.

- `TypeCorrect`: `TypeOK` is inductive. Its interesting conjuncts are that pairs
  join live objects only, stamps exist for pairs only, and the ring bound.
- `RoundsAreSound`: `RoundSound` alone is not inductive: a pair created later could
  find audio of its source in a buffer it never contributed to. `BufferKnown`
  excludes it: buffers hold audio only of sources that are or were registered,
  and the buffer of a listener that is not registered is empty.
- `DrainedBeforeCollect`: inductive with `TypeOK`; between the check in phase 3
  and the push only the mixing thread could make a playback drain.
- `PushedOnce`: while no listener has two attached playbacks, a push_buffer is handed
  out once per round. `OneAttached` speaks of states, not of constants, so it is
  assumed of the behaviour (`[]OneAttached`): a listener may have any number of
  playbacks, one after the other. The strengthening says that while a buffer is out,
  its playback drains or was dropped (`PushedDrains`). Without the hypothesis the
  statement is false, which `push_twice` shows.
- `MixesAreWhole`: inductive with `TypeOK`.
- `BlocksAreKept`: under the same hypothesis the pipeline implements `BlockStream`.
  Each phase has to be one of its steps: phase 3 collects only candidates, which
  `RoundInv` shows not to be in the buffer; it hands out when nothing is left to be
  given (`DrainBeforeCollect`); phase 1 goes on with what is left, and clears the
  buffer when all of it is in the ring or the full ring is given up
  (`ListenerBlocks`). That an untouched buffer is not cleared under a playback, when
  another one of its listener comes or goes, is where `OneAttached` is needed
  (`MappedTo` and its kin); phase 2 only empties rings (`RingsDrain`).
- `NoMixIsLost`: from `DueOwes`, that a pair which has been active since the mix
  completed and did not take it still owes it; the gate of phase 2 looks at
  exactly these pairs.
- `ReplaysAreHeld`: while nothing is reconfigured, a mix is taken again only if phase 2
  held the source's gate. The strengthening `Undisturbed` says that a pair that took a mix goes
  on hearing the source, and that the mix, until it is replaced, is `Settled`: the
  listener's round still holds it, or phase 2 has yet to look at it, or found its gate
  closed, or the listener has had its turn in phase 3. It needs `RoundInv`, and that a
  listener collects once per cycle (`CollectOnce`).
- `SteadyIsSound`, `SteadyKeepsBlocks`: the same from `Steady`, which is where
  `mix_listeners` starts: a steady state satisfies the inductive invariants, too, so that
  what that run checks is proved for the states it starts from.
- `RingHasNoRace`, `PushIsWhole`, `ReadIsWhole`, `LatencyIsHonest`, `ResizeIsSafe`: from
  `RingInv`, what each of the three threads may rely on: the reader only moves
  towards the write position it knows, the writer towards the read position it
  knows, and the mutex stops the writer between the two loads of the main thread.
  For any size of the ring.
- `RingIsFifo`: the ring implements `BoundedFifo` under the mapping that reads the
  frames between the two positions. The queue changes in three steps only: the
  store of `write_pos` appends one frame (`BetweenGrows`), the stores of `read_pos`
  by a read and by a clear drop a prefix (`BetweenShrinks`), and the plain write of a
  frame stutters because the frame lies outside what is stored (`Apart`, the fact
  behind `RingHasNoRace`). `Copying` adds to `RingInv` that what the reader has
  copied is still in the ring until `read_pos` moves. `RingProofs.TypeCorrect` comes
  with the same invariant. For any size of the ring and any frames.
- `CommitsAlone`, `TicksAlone`, `ReleasesLast`, `CollectionsAreStable`: from
  `SimInv`, which ties each flag to the place of the thread that owns it
  (`HandshakeInv`, `BarrierInv`), the shared locks to their holders (`LockInv`)
  and the stages of `finish()` to what has ended (`FinishInv`). `TypeCorrect` is
  its first part.
- `WakeupsArrive`, `WaitsAreServed`: `NoLostWakeup` says that when the reflection
  thread sleeps although there is something to do, the job or `finish()` is just about
  to notify it. `NobodyStuck` states the lock order behind the freedom from deadlock:
  while a writer waits for `collections_mutex`, some holder of it can go on, or the writer
  itself; `refl_mux` is held for a commit only, which waits for nothing; and the job
  and the thread that `finish()` waits for are on their way. TLC finds no deadlock
  for one listener; this says why there is none for any number of them.
- `DirectProofs`: the steps of `DirectSim` are steps of `SimHandshake` with more done in
  them, so `SimInv` carries over (`StepsOfHandshake`): the pairs are changed by tick,
  job and mixing thread, and only because these exclude each other is
  `InRangeInSimulator` inductive. `PairTypeCorrect` and `StagedStaysDirty` go with it,
  and `RealResults` needs them all: what is committed is in range unless its listener
  is dirty. For any sets of sources and listeners, distances and ranges.
- `ServerOpsProofs`: `TypeCorrect`, `HeldRidsAreAlive`, `NoRidLeaks`, from `RidInv`:
  only what was created is removed (`RemovesCreated`, so a new RID meets no old
  removal), what is alive is in a collection or on its way there
  (`LinkedOrQueued`, so that `finish()` finds everything), and operations are left
  only where somebody applies them (`Stages`, so that no swap overwrites a batch).
  `RidsKeepLife` shows that the server implements `RidLife`. It needs one invariant
  more, `OrderInv`: a RID waits to be added once at most, before any removal of it,
  and not when it is linked already.
  `NothingIsDropped`, `VolumesAreKept` and `IdleNodesTimeOut` follow from `PlayInv`,
  which says where a playback can be: before it is played nowhere, then in exactly one
  place, with the RID it was played on and the volume asked for last. It needs
  `RidInv`: an operation for the registered node never meets a freed RID or an old
  removal. For any numbers of RIDs, playbacks and operations.
- `SensorProofs`: `TypeCorrect`, `SlotsInOrder`, `SlotsUnique`, `SlotsFade`,
  `SlotsHoldLoudest`,
  from an invariant that adds to the properties what a snapshot half taken in
  still owes (`Pending`, `Done`). The lemma `TakeInMoves` reduces both branches of
  the loop to one move of a slot, `MovedSlots` says what a move does to each slot,
  and the order is needed for both others: only because the slots are sorted does
  the last one lose its place to a louder source. For any number of sources,
  slots and levels.
- `GrainProofs`: the lemma `GrainFits` shows by arithmetic that a grain accepted by
  the search is at least as long as the first and ends inside the buffer.
  `ReadsCorrect` follows from `FadeInv`, which says how far the next grain has got
  when so many samples of the current one remain, and so that the grain that takes
  over has the whole window before it. `NoRepeatCorrect` is inductive with the
  type of the array. For any length, sizes, window and number of remembered grains.

Proved and left out of the runs: `TypeOK` of `SimHandshake`, `SensorSlots`,
`RingBuffer` and `ServerOps`, `PairTypeOK` of `DirectSim`, and `NobodyStuck`.

Only model-checked: the liveness properties (`GateReleased`, `NeverDry`, `FinishEnds`,
`DirtyCommitted`, `IdleTimesOut`, `SearchEnds`), which are outside what the prover does:
it has no rules for fairness and ENABLED.

## 5. Where the code differs from its comments

- `push_twice`: phase 3 drops a playback that stopped while draining. If it was
  the last to drain, the round looks finished without phase 1 having cleared the
  buffer, and the other playbacks get the same block again (`server.cpp` 1855-1880).
- `freed_walkie`: when the source that a listener plays through is freed, nobody
  pulls the listener's playback any more, and phase 1, which looks for the source to
  learn whether it still mixes, finds none and never gives the frames up
  (1546-1558). The listener drains for ever, takes no mix, and strands every other
  source it hears, in spite of the comment at 1691-1692. While the source stays,
  `mix_listeners` shows that gates are stranded only as long as that source is held up
  itself (`HeldUp`); the observations below describe how.
- `sim_wait`: a request to wait for a commit outlives the last dirty listener,
  and the reflection thread sleeps until something else becomes dirty (1024
  against 1039-1040).

Observations that no run states, since no text of the code promises otherwise or
since what is heard lies outside the models:

- A source nobody hears is skipped before its completed mix is reset (1664-1669), so
  the mix survives and is played when a listener returns; the comment at 1908-1909
  takes it to be reset.
- A stream that starves keeps the source incomplete, which is what the deadline
  override at 2065 is for. A listener that plays *through* that source has drains
  pending all the while: the source, still short of frames, has pulled what its mix
  takes from the listener's playback and pulls no more (1752-1794), phase 1 does not
  give the rest up, since the source is mixed (1552), and phase 3 leaves at 1879 before it
  comes to the override. So the listener's other playbacks run dry, and it owes every
  other source it hears its mix for as long as the stream starves: their gates stay
  closed, for other listeners too.
- A listener that hears the very source it plays through can hold itself up for good,
  without a stream that starves for ever. If a stream delivers the last frames of the
  mix late, the override has meanwhile handed out a block without that source and
  filled the ring, with frames left over. Now the mix is complete and owed by the
  listener, which leaves at 1879 because it drains; it drains because nobody pulls the
  full ring; and the source does not pull before its mix is taken (1693-1720). TLC finds
  this with a ring of `2 * F - 1` frames. The comment at 1691-1692 does not
  speak of such a listener, so `GateReleased` excludes the case by name: the second
  disjunct of `HeldUp`.
- A volume or pitch set between the swap of `pending_ops` (1265) and the unique lock
  (1271) finds its playback neither attached nor queued and is ignored.
  `VolumeKept` states that this is the only window.
- The comment at 707-708 says that a simulation has run when results are taken. While
  a commit is put off because of a reflection pass, `iplSimulatorRunDirect()` does not
  see a new source yet, and the next tick takes its results nevertheless;
  `ResultsAreReal` states that this is the only case.
- The comment at 1002-1003 counts additions among what conflicts with a running
  simulation, but 993, 869, 879 and 887 add and remove during a pass. They only take
  effect with a commit, which `StagedIsDirty` relies on.
- `iplSimulatorCommit()` at 1033 has no test for a missing simulator, as the loops
  at 983 and 1047 have.
- `RingBuffer.h` 216 wants `resize()` before the ring is shared, but
  `set_buffer_size()` (`listener.cpp` 263) follows play(), so `_mix()` may run
  meanwhile. `ResizedInQuiet` shows why it does no harm: the ring is empty until
  `listener_add_playback()`. Resizing a playback in use would break it.
- On the line before, `set_rates()` may replace the resampler while `_mix()`, which
  calls `set_rates()` itself when no rate is set
  (`AudioStreamSteamAudioListener.cpp` 108-111), creates or uses one on the audio
  thread. Nothing orders the two.
- With eight grains or fewer `spawn_new_grain()` does not return, and with one grain or
  less its number becomes negative.

## 6. Not modelled yet, and the plan

Order of the remaining work, the most consequential first:

1. The resampler of a listener's playback and `set_rates()`, on top of the set-up in
   `RingBuffer`.
2. `ParameterizedStream`: outputs against runtime outputs, triggers and buffer
   references.
3. `AudioSettings`: block sizes and capacities as operators checked over bounded
   inputs.
4. Meshes of the geometry operations, in `SimHandshake`.

Theorem to add: an abstract life of a source's playback, which `ServerOps`
implements as it implements `RidLife`.

Out of scope: signal processing (Steam Audio, resampler, effects), logging and
statistics, class registration, editor code, and the vendored libraries under
`src/lib`. The profiler tracy and the oboe resampler make up most of the lines under
`src`; no definition stands for any of them, so that the models cover a
small share of all lines, though most of the control of the program's own files.
