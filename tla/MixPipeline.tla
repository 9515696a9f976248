---------------------------- MODULE MixPipeline ----------------------------
(***************************************************************************)
(* The mixing thread of SteamAudioServer: one process_audio() after the    *)
(* other, against the threads that touch what it reads.                    *)
(*                                                                         *)
(* Sources pull frames from their stream playbacks into a mix of F frames  *)
(* (phase 2).  A listener collects one complete mix of every relevant      *)
(* source in its push_buffer (phase 3), pushes the F frames of that buffer *)
(* to the ring buffers of its playbacks, waits until they have taken all   *)
(* of it (phase 1) and starts the next round.                              *)
(*                                                                         *)
(* The code keeps a counter per listener (generation) and per source       *)
(* (mix_generation) and a stamp of each per pair.  Only their comparisons  *)
(* matter here, so an up-to-date stamp is membership in a set of pairs:    *)
(*   contributed   last_contributed_generation = generation                *)
(*   owes          last_consumed_mix < mix_generation                      *)
(***************************************************************************)
EXTENDS Integers, FiniteSets

CONSTANTS
  Source, Listener,
  Speaker,      \* playbacks of AudioStreamSteamAudioListener
  Stream,       \* every other AudioStreamPlayback a source may play
  NoSource,
  Owner,        \* the listener a speaker was made for
  Feeds,        \* the source that plays a playback, or NoSource
  Sensors,      \* the listeners with cfg.is_sensor
  F,            \* cached_audio_settings.frameSize
  Cap,          \* frames a playback's ring buffer holds
  MaxChanges    \* bound: changes of masks, ranges and playback states, frees

Playback == Speaker \cup Stream
Pair == Source \X Listener

\* What fill(0) leaves of a push_buffer, and how far its contents are counted.
Silence == [s \in Source |-> 0]
Often == 2

ASSUME MixConstants ==
  /\ F \in Nat \ {0} /\ Cap \in Nat \ {0} /\ MaxChanges \in Nat
  /\ Owner \in [Speaker -> Listener]
  /\ Feeds \in [Playback -> Source \cup {NoSource}]
  /\ NoSource \notin Source
  /\ Sensors \subseteq Listener
  /\ Speaker \cap Stream = {}

VARIABLES
  sources, listeners,   \* the server's collections
  freed,                \* sources and listeners whose RID was freed
  pairs,                \* SourceListenerData that exist
  matching,             \* pairs with cfg.layers & cfg.mask # 0
  outOfRange,           \* pairs with out_of_range
  simulated,            \* pairs with direct_simulated_once
  contributed, owes,
  pushBuffer,           \* how many mixes of each source push_buffer adds up
  pushed,               \* history: listeners that handed this push_buffer out
  playing,              \* playbacks for which is_playing()
  feeding,              \* playbacks in the playbacks of their source
  attached,             \* speakers in the playbacks of their listener
  viaSource,            \* speakers with is_playback_of_source set
  fresh,                \* playbacks not handed to the server yet, per use
  mixed,                \* num_mixed_in_current_mixed_frames
  ready,                \* mixed_frames_ready
  skipping,             \* sources with is_skipping_mixing
  remaining,            \* remaining_from_push_buffer
  ring,                 \* frames in a speaker's ring buffer
  resetting,            \* speakers with reset_requested
  pc, cur, todo,        \* the mixing thread: place, entry of the loop, rest
  changes

world   == <<sources, listeners, freed, pairs, viaSource, fresh>>
setting == <<matching, outOfRange, simulated, playing, changes>>
rounds  == <<contributed, pushBuffer, pushed>>
mixing  == <<feeding, mixed, ready, skipping>>
output  == <<attached, remaining, ring, resetting>>
thread  == <<pc, cur, todo>>
vars    == <<world, setting, rounds, owes, mixing, output, thread>>

Init ==
  /\ sources = {} /\ listeners = {} /\ freed = {} /\ pairs = {}
  /\ matching = Pair /\ outOfRange = {} /\ simulated = {}
  /\ contributed = {} /\ owes = {}
  /\ pushBuffer = [l \in Listener |-> Silence] /\ pushed = {}
  /\ playing = Playback
  /\ feeding = {} /\ attached = {} /\ viaSource = {}
  /\ fresh = [feed |-> {p \in Playback : Feeds[p] # NoSource}, out |-> Speaker]
  /\ mixed = [p \in Playback |-> 0]
  /\ ready = [s \in Source |-> 0]
  /\ skipping = {}
  /\ remaining = [p \in Speaker |-> 0]
  /\ ring = [p \in Speaker |-> 0] /\ resetting = Speaker
  /\ pc = "apply" /\ cur = NoSource /\ todo = {}
  /\ changes = 0

-----------------------------------------------------------------------------
(* What the loops of process_audio compute.                                *)

Least(m, n) == IF m < n THEN m ELSE n

StreamsOf(s)  == {p \in feeding : Feeds[p] = s}
SpeakersOf(l) == {p \in attached : Owner[p] = l}

\* The listener has a playing playback.
Playing(l) == SpeakersOf(l) \cap playing # {}

Draining(l) == {p \in SpeakersOf(l) : remaining[p] > 0}

\* Phase 3 finds a playback that has not taken the whole push_buffer yet.
DrainsPendingOffByOne(l) == \E p \in SpeakersOf(l) \cap playing : remaining[p] > 1
DrainsPending(l) == \E p \in SpeakersOf(l) \cap playing : remaining[p] > 0

\* Pairs whose audio the source mixes for: mask, range, one simulation done.
Audible(s) ==
  {l \in listeners : <<s, l>> \in ((pairs \cap matching) \ outOfRange) \cap simulated}

\* Mutants of the gate: a listener that still drains, or one that has stopped,
\* counts wrongly.
ConsumersPendingIfIdle(s) ==
  \E l \in listeners :
    /\ <<s, l>> \in ((pairs \cap matching) \ outOfRange) \cap owes
    /\ Playing(l) /\ Draining(l) = {}
ConsumersPendingIfStopped(s) ==
  \E l \in listeners : <<s, l>> \in ((pairs \cap matching) \ outOfRange) \cap owes

\* The mix-reset gate: an active consumer still owes the completed mix.
ConsumersPending(s) ==
  \E l \in listeners :
    /\ <<s, l>> \in ((pairs \cap matching) \ outOfRange) \cap owes
    /\ Playing(l)

\* The completed mix of s would be cleared now.
Resets(s) == ready[s] = F /\ ~ConsumersPending(s)

\* Phase 1 on a full ring: a speaker that feeds a source which is not being
\* mixed would never drain, so its frames are dropped.
Discards(p) ==
  ring[p] = Cap /\ p \in viaSource /\ Feeds[p] \in sources \cap skipping

\* get_available_buffer_size() of the most drained playing playback is down
\* to one callback.
DeadlineOnFree(l) == \E p \in SpeakersOf(l) \cap playing : Cap - ring[p] <= F
Deadline(l) == \E p \in SpeakersOf(l) \cap playing : ring[p] <= F

EndRoundUncleared(l) ==
  /\ contributed' = {q \in contributed : q[2] # l}
  /\ pushed' = pushed \ {l}
  /\ UNCHANGED pushBuffer

\* The end of a round of l: push_buffer.fill(0) and generation++.
EndRound(l) ==
  /\ contributed' = {q \in contributed : q[2] # l}
  /\ pushBuffer' = [pushBuffer EXCEPT ![l] = Silence]
  /\ pushed' = pushed \ {l}

Change == changes < MaxChanges /\ changes' = changes + 1

-----------------------------------------------------------------------------
(* apply_pending_ops: the operations the main thread queued, under a       *)
(* unique lock of collections_mutex and in between two mixing cycles.      *)

AddSource(s) ==
  /\ pc = "apply" /\ s \notin sources \cup freed
  /\ sources' = sources \cup {s}
  /\ \E made \in SUBSET ({s} \X listeners) : pairs' = pairs \cup made
  /\ UNCHANGED <<listeners, freed, viaSource, fresh, setting, rounds, owes, mixing, output, thread>>

AddListener(l) ==
  /\ pc = "apply" /\ l \notin listeners \cup freed
  /\ listeners' = listeners \cup {l}
  /\ \E made \in SUBSET (sources \X {l}) : pairs' = pairs \cup made
  /\ UNCHANGED <<sources, freed, viaSource, fresh, setting, rounds, owes, mixing, output, thread>>

RemoveSource(s) ==
  /\ pc = "apply" /\ s \in sources /\ Change
  /\ sources' = sources \ {s} /\ freed' = freed \cup {s}
  /\ pairs' = {q \in pairs : q[1] # s}
  /\ contributed' = {q \in contributed : q[1] # s}
  /\ owes' = {q \in owes : q[1] # s}
  /\ UNCHANGED <<pushBuffer, pushed>>
  /\ feeding' = feeding \ StreamsOf(s)
  /\ UNCHANGED <<listeners, viaSource, fresh, matching, outOfRange, simulated, playing,
                 mixed, ready, skipping, output, thread>>

RemoveListener(l) ==
  /\ pc = "apply" /\ l \in listeners /\ Change
  /\ listeners' = listeners \ {l} /\ freed' = freed \cup {l}
  /\ pairs' = {q \in pairs : q[2] # l}
  /\ contributed' = {q \in contributed : q[2] # l}
  /\ owes' = {q \in owes : q[2] # l}
  /\ pushBuffer' = [pushBuffer EXCEPT ![l] = Silence] /\ pushed' = pushed \ {l}
  /\ attached' = attached \ SpeakersOf(l)
  /\ UNCHANGED <<sources, viaSource, fresh, matching, outOfRange, simulated, playing,
                 mixing, remaining, ring, resetting, thread>>

AddPlaybackToSource(p) ==
  /\ pc = "apply" /\ p \in fresh.feed /\ Feeds[p] \in sources
  /\ fresh' = [fresh EXCEPT !.feed = @ \ {p}]
  /\ feeding' = feeding \cup {p} /\ mixed' = [mixed EXCEPT ![p] = 0]
  /\ UNCHANGED <<sources, listeners, freed, pairs, viaSource, setting, rounds, owes,
                 ready, skipping, output, thread>>

\* The first playback of an inactive listener starts a new round.
AddPlaybackToListener(p) ==
  LET l == Owner[p] IN
  /\ pc = "apply" /\ p \in fresh.out /\ l \in listeners
  /\ fresh' = [fresh EXCEPT !.out = @ \ {p}]
  /\ attached' = attached \cup {p} /\ remaining' = [remaining EXCEPT ![p] = 0]
  /\ viaSource' = IF p \in feeding THEN viaSource \cup {p} ELSE viaSource
  /\ IF SpeakersOf(l) = {} THEN EndRound(l) ELSE UNCHANGED rounds
  /\ UNCHANGED <<sources, listeners, freed, pairs, setting, owes, mixing, ring, resetting, thread>>

-----------------------------------------------------------------------------
(* process_audio                                                           *)

BeginCycle ==
  /\ pc = "apply" /\ pc' = "phase1" /\ todo' = listeners
  /\ UNCHANGED <<world, setting, rounds, owes, mixing, output, cur>>

\* How many of its remaining frames a speaker takes in phase 1.
TakesAll(p) == remaining[p]
Takes(p) == Least(remaining[p], Cap - ring[p])

\* Phase 1 for one listener, under its playbacks_mutex.
Phase1(l) ==
  LET live  == SpeakersOf(l) \cap playing
      left  == [p \in Speaker |->
                  IF p \notin live THEN remaining[p]
                  ELSE IF Discards(p) THEN 0 ELSE remaining[p] - Takes(p)]
      done  == \A p \in live : left[p] = 0
  IN
  /\ pc = "phase1" /\ l \in todo /\ todo' = todo \ {l}
  /\ IF Draining(l) = {} THEN UNCHANGED <<output, rounds>> ELSE
       /\ attached' = attached \ (SpeakersOf(l) \ playing)
       /\ remaining' = left
       /\ ring' = [p \in Speaker |-> IF p \in live THEN ring[p] + Takes(p) ELSE ring[p]]
       /\ IF done THEN EndRound(l) ELSE UNCHANGED rounds
       /\ UNCHANGED resetting
  /\ UNCHANGED <<world, setting, owes, mixing, pc, cur>>

BeginPhase2 ==
  /\ pc = "phase1" /\ todo = {} /\ pc' = "phase2" /\ todo' = sources
  /\ UNCHANGED <<world, setting, rounds, owes, mixing, output, cur>>

\* Who needs the source this cycle.  A source wanted by sensors alone is
\* paced by sensor_pacing_accumulator, here a free choice.
Phase2Scan(s) ==
  LET heard  == \E l \in Audible(s) : Playing(l)
      sensed == Audible(s) \cap Sensors # {}
  IN
  /\ pc = "phase2" /\ s \in todo /\ todo' = todo \ {s}
  /\ skipping' = IF heard \/ sensed THEN skipping \ {s} ELSE skipping \cup {s}
  /\ \/ (heard \/ sensed) /\ pc' = "mix" /\ cur' = s
     \/ ~heard /\ UNCHANGED <<pc, cur>>
  /\ UNCHANGED <<world, setting, rounds, owes, feeding, mixed, ready, output>>

\* A stream gives what it has; a listener's playback fills up with silence.
Pulls(s, got) ==
  \A p \in DOMAIN got :
    LET have == IF ready[s] = F THEN 0 ELSE mixed[p] IN
    IF p \in Speaker THEN got[p] = F - have ELSE got[p] <= F - have

\* mixed_frames_ready: the least of what the unfinished streams have now.
ReadyAtMost(r, ends) == r \in {F} \cup ends /\ (ends # {} => r \in ends) /\ \A n \in ends : r >= n
ReadyNow(r, ends) == r \in {F} \cup ends /\ \A n \in ends : r <= n

\* Reset a finished and consumed mix, drop finished playbacks, pull.
Phase2Mix(s) ==
  LET live == StreamsOf(s) \cap playing
      have == [p \in live |-> IF ready[s] = F THEN 0 ELSE mixed[p]]
      open == {p \in live : have[p] < F}
  IN
  /\ pc = "mix" /\ cur = s /\ pc' = "phase2" /\ cur' = NoSource
  /\ IF ready[s] = F /\ ConsumersPending(s)
     THEN UNCHANGED <<feeding, mixed, ready, ring, resetting, owes>>
     ELSE \E got \in [live -> 0..F] : \E r \in 0..F :
       /\ Pulls(s, got)
       /\ ReadyNow(r, {have[p] + got[p] : p \in open})
       /\ feeding' = feeding \ (StreamsOf(s) \ playing)
       /\ mixed' = [p \in Playback |-> IF p \in live THEN have[p] + got[p] ELSE mixed[p]]
       /\ ring' = [p \in Speaker |->
                    IF p \notin open THEN ring[p]
                    ELSE IF p \in resetting THEN 0 ELSE ring[p] - Least(ring[p], got[p])]
       /\ resetting' = resetting \ open
       /\ ready' = [ready EXCEPT ![s] = r]
       /\ owes' = IF r = F THEN owes \cup {q \in pairs : q[1] = s} ELSE owes
  /\ UNCHANGED <<world, setting, rounds, skipping, attached, remaining, todo>>

BeginPhase3 ==
  /\ pc = "phase2" /\ todo = {} /\ pc' = "phase3" /\ todo' = listeners
  /\ UNCHANGED <<world, setting, rounds, owes, mixing, output, cur>>

\* Drop dead playbacks; an inactive or still draining listener waits.
Phase3Begin(l) ==
  LET live == SpeakersOf(l) \cap playing IN
  /\ pc = "phase3" /\ l \in todo /\ todo' = todo \ {l}
  /\ attached' = attached \ (SpeakersOf(l) \ playing)
  /\ IF live # {} /\ ~DrainsPending(l)
     THEN pc' = "collect" /\ cur' = l
     ELSE UNCHANGED <<pc, cur>>
  /\ UNCHANGED <<world, setting, rounds, owes, mixing, remaining, ring, resetting>>

(* The scan of phase 3, each source of a round in one of four classes.     *)
CandidatesAgain(l) == {s \in sources : <<s, l>> \in pairs \cap matching}
Candidates(l) ==
  {s \in sources : <<s, l>> \in (pairs \cap matching) \ contributed}
Far(l)      == {s \in Candidates(l) : <<s, l>> \in outOfRange}
Raw(l)      == {s \in Candidates(l) \ Far(l) : <<s, l>> \notin simulated}
Unready(l)  == {s \in (Candidates(l) \ Far(l)) \ Raw(l) : ready[s] < F}
CompleteOrNot(l) == {s \in (Candidates(l) \ Far(l)) \ Raw(l) : ready[s] <= F}
Complete(l) == {s \in (Candidates(l) \ Far(l)) \ Raw(l) : ready[s] = F}

\* A push_buffer with one more mix of some sources added.
Plus(buffer, more) ==
  [s \in Source |-> IF s \in more THEN Least(buffer[s] + 1, Often) ELSE buffer[s]]

Phase3Collect(l) ==
  /\ pc = "collect" /\ cur = l
  /\ contributed' = contributed \cup ((Far(l) \cup Raw(l) \cup Complete(l)) \X {l})
  /\ pushBuffer' = [pushBuffer EXCEPT ![l] = Plus(@, Complete(l))]
  /\ owes' = owes \ ((Raw(l) \cup Complete(l)) \X {l})
  /\ IF Unready(l) = {} \/ Deadline(l)
     THEN pc' = "push" /\ UNCHANGED cur
     ELSE pc' = "phase3" /\ cur' = NoSource
  /\ UNCHANGED <<world, setting, pushed, mixing, output, todo>>

\* Start draining the push_buffer; a round taken at once ends here.
Phase3Push(l) ==
  LET live == SpeakersOf(l) \cap playing
      take == [p \in live |-> Least(F, Cap - ring[p])]
      done == \A p \in live : take[p] = F
  IN
  /\ pc = "push" /\ cur = l /\ pc' = "phase3" /\ cur' = NoSource
  /\ attached' = attached \ (SpeakersOf(l) \ playing)
  /\ remaining' = [p \in Speaker |-> IF p \in live THEN F - take[p] ELSE remaining[p]]
  /\ ring' = [p \in Speaker |-> IF p \in live THEN ring[p] + take[p] ELSE ring[p]]
  /\ IF done THEN EndRound(l)
     ELSE pushed' = pushed \cup {l} /\ UNCHANGED <<contributed, pushBuffer>>
  /\ UNCHANGED <<world, setting, owes, mixing, resetting, todo>>

EndCycle ==
  /\ pc = "phase3" /\ todo = {} /\ pc' = "apply" /\ UNCHANGED todo
  /\ UNCHANGED <<world, setting, rounds, owes, mixing, output, cur>>

-----------------------------------------------------------------------------
(* The other threads.                                                      *)

\* Main: layers of a source or mask of a listener.
SetMask(q) ==
  /\ Change
  /\ matching' = IF q \in matching THEN matching \ {q} ELSE matching \cup {q}
  /\ UNCHANGED <<world, outOfRange, simulated, playing, rounds, owes, mixing, output, thread>>

\* Main, tick(): the range hysteresis of a pair flips.
SetRange(q) ==
  /\ q \in pairs /\ Change
  /\ outOfRange' = IF q \in outOfRange THEN outOfRange \ {q} ELSE outOfRange \cup {q}
  /\ UNCHANGED <<world, matching, simulated, playing, rounds, owes, mixing, output, thread>>

\* The direct simulation of a pair has run.
Simulated(q) ==
  /\ q \in (pairs \cap matching) \ (outOfRange \cup simulated)
  /\ simulated' = simulated \cup {q}
  /\ UNCHANGED <<world, matching, outOfRange, playing, changes, rounds, owes, mixing, output, thread>>

\* A playback is started or stopped, or reaches its end.
SetPlaying(p) ==
  /\ Change
  /\ playing' = IF p \in playing THEN playing \ {p} ELSE playing \cup {p}
  /\ resetting' = resetting \cup ({p} \cap Speaker)
  /\ UNCHANGED <<world, matching, outOfRange, simulated, rounds, owes, mixing, attached,
                 remaining, ring, thread>>

\* Audio: AudioStreamSteamAudioListenerPlayback::_mix takes frames, or first
\* clears the ring if a start or stop asked for it.
Drain(p) ==
  /\ p \in playing /\ Feeds[p] = NoSource
  /\ IF p \in resetting THEN ring' = [ring EXCEPT ![p] = 0]
     ELSE \E n \in 1..ring[p] : ring' = [ring EXCEPT ![p] = @ - n]
  /\ resetting' = resetting \ {p}
  /\ UNCHANGED <<world, setting, rounds, owes, mixing, attached, remaining, thread>>

-----------------------------------------------------------------------------
ApplyPendingOps ==
  \/ \E s \in Source : AddSource(s) \/ RemoveSource(s)
  \/ \E l \in Listener : AddListener(l) \/ RemoveListener(l)
  \/ \E p \in Playback : AddPlaybackToSource(p)
  \/ \E p \in Speaker : AddPlaybackToListener(p)

ProcessAudio ==
  \/ BeginCycle \/ BeginPhase2 \/ BeginPhase3 \/ EndCycle
  \/ \E s \in Source : Phase2Scan(s) \/ Phase2Mix(s)
  \/ \E l \in Listener : Phase1(l) \/ Phase3Begin(l) \/ Phase3Collect(l) \/ Phase3Push(l)

OtherThreads ==
  \/ \E q \in Pair : SetMask(q) \/ SetRange(q) \/ Simulated(q)
  \/ \E p \in Playback : SetPlaying(p)
  \/ \E p \in Speaker : Drain(p)

Next == ApplyPendingOps \/ ProcessAudio \/ OtherThreads

Spec == Init /\ [][Next]_vars

-----------------------------------------------------------------------------
(* Properties.                                                             *)

TypeOK ==
  /\ sources \subseteq Source /\ listeners \subseteq Listener
  /\ freed \subseteq Source \cup Listener
  /\ pairs \subseteq sources \X listeners
  /\ matching \subseteq Pair /\ outOfRange \subseteq Pair /\ simulated \subseteq Pair
  /\ contributed \subseteq pairs /\ owes \subseteq pairs
  /\ pushBuffer \in [Listener -> [Source -> 0..Often]] /\ pushed \subseteq Listener
  /\ playing \subseteq Playback /\ feeding \subseteq Playback
  /\ attached \subseteq Speaker /\ viaSource \subseteq Speaker /\ resetting \subseteq Speaker
  /\ fresh \in [feed : SUBSET Playback, out : SUBSET Speaker]
  /\ mixed \in [Playback -> 0..F] /\ ready \in [Source -> 0..F] /\ skipping \subseteq Source
  /\ remaining \in [Speaker -> 0..F] /\ ring \in [Speaker -> 0..Cap]
  /\ pc \in {"apply", "phase1", "phase2", "mix", "phase3", "collect", "push"}
  /\ cur \in Source \cup Listener \cup {NoSource}
  /\ todo \subseteq Source \cup Listener
  /\ changes \in 0..MaxChanges

\* The audio of a source is added to the push_buffer of a listener at most
\* once per round: whatever the buffer holds it holds once and stamped with the
\* current generation, so that no later pass of phase 3 adds it again.
RoundSound ==
  \A l \in Listener : \A s \in Source : pushBuffer[l][s] > 0 =>
    pushBuffer[l][s] = 1 /\ (<<s, l>> \in pairs => <<s, l>> \in contributed)

\* While a playback still drains a push_buffer, phase 3 neither mixes into
\* that buffer nor hands it out again.
DrainBeforeCollect ==
  pc \in {"collect", "push"} => Draining(cur) = {}

\* A push_buffer is handed to the playbacks once; the next contribution goes
\* into a cleared buffer.
RoundPushedOnce ==
  pc \in {"collect", "push"} => cur \notin pushed

\* The frames a mix reports as ready hold every stream of the source that
\* did not join since: no stream lags behind mixed_frames_ready.
WholeMix ==
  \A s \in Source : \A p \in StreamsOf(s) : mixed[p] = 0 \/ mixed[p] >= ready[s]

\* The only playback of a listener is given its blocks as BlockStream promises:
\* each with a source once at most, handed out once, F frames put in the ring
\* one after the other, and cleared then and not before.  What of a block was
\* given when its playback stopped is forgotten.
Unplayed == {p \in viaSource : Feeds[p] \in sources \cap skipping}
BlockOf == [p \in Speaker |-> IF p \in attached THEN pushBuffer[Owner[p]] ELSE Silence]
LeftOf == [p \in Speaker |-> IF p \in attached THEN remaining[p] ELSE 0]
Blocks == INSTANCE BlockStream WITH
            active <- attached, idle <- Unplayed, block <- BlockOf, left <- LeftOf, buffered <- ring
KeepsBlocks == Blocks!Spec

\* A listener cannot hand on its block: the ring it plays through t is full, and
\* t pulls no more of it, as its mix waits for frames of a stream, or is complete
\* and waits for that very listener to take it.
HeldUp(t) ==
  \E p \in attached \cap viaSource :
    /\ Feeds[p] = t /\ t \in sources \ skipping
    /\ ring[p] = Cap /\ remaining[p] > 0
    /\ \/ \E v \in StreamsOf(t) \cap Stream : mixed[v] < F
       \/ ready[t] = F /\ <<t, Owner[p]>> \in owes

\* The gate lets go: no listener, removed, stopped, out of range or not yet
\* simulated, holds a finished mix of a source for good, unless it plays through
\* a source that is held up for good.
GateReleased ==
  \A s \in Source :
    \/ []<>~(s \in sources /\ ready[s] = F /\ ConsumersPending(s))
    \/ \E t \in Source : <>[]HeldUp(t)

\* A starved source does not freeze a listener: a playback the audio device
\* drains is refilled as long as it plays and stays with its listener.
NeverDry ==
  \A p \in Speaker : Feeds[p] = NoSource =>
    []<>(ring[p] > 0 \/ p \notin playing \/ p \notin attached)

=============================================================================
