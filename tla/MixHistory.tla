---------------------------- MODULE MixHistory ----------------------------
(***************************************************************************)
(* MixPipeline with history variables that no step of the program reads.   *)
(***************************************************************************)
EXTENDS MixPipeline

VARIABLES
  due,      \* pairs that have been active since the source's mix completed
            \* and did not take that mix into a push_buffer yet
  heard,    \* pairs that took the source's current mix into a push_buffer
  held      \* sources whose gate was closed in phase 2 of this cycle

hvars == <<vars, due, heard, held>>

\* The listener of the pair hears the source.
ActivePairs == {q \in Pair : q[2] \in Audible(q[1]) /\ Playing(q[2])}

\* Phase2Mix works on s, phase 3 collects for l.
Mixes(s) == pc = "mix" /\ cur = s /\ pc' # "mix"
Collects(l) == pc = "collect" /\ cur = l /\ pc' # "collect"

\* The step makes a new mix of s complete, the pair takes the mix.
Completes(s) == Mixes(s) /\ ready'[s] = F /\ (ready[s] < F \/ Resets(s))
Took(q) ==
  /\ Collects(q[2]) /\ q \in contributed' \ contributed
  /\ pushBuffer'[q[2]][q[1]] > pushBuffer[q[2]][q[1]]

HInit == Init /\ due = {} /\ heard = {} /\ held = {}

HNext ==
  /\ Next
  /\ due' = {q \in ActivePairs' \cap ActivePairs :
               Completes(q[1]) \/ (q \in due /\ ~Took(q) /\ ~(Mixes(q[1]) /\ Resets(q[1])))}
  /\ heard' = {q \in Pair : Took(q) \/ (q \in heard /\ ~Completes(q[1]))}
  /\ held' = IF pc = "phase1" /\ pc' = "phase2" THEN {}
             ELSE held \cup {s \in Source : Mixes(s) /\ ready[s] = F /\ ~Resets(s)}

HSpec == HInit /\ [][HNext]_hvars

\* The program after its setup: everything is linked, attached and simulated
\* once, and the mixing thread starts its next cycle.
Steady ==
  /\ sources = Source /\ listeners = Listener /\ freed = {} /\ pairs = Pair
  /\ matching = Pair /\ outOfRange = {} /\ simulated = Pair
  /\ contributed = {} /\ owes = {}
  /\ pushBuffer = [l \in Listener |-> Silence] /\ pushed = {}
  /\ playing = Playback
  /\ feeding = {p \in Playback : Feeds[p] # NoSource} /\ attached = Speaker
  /\ viaSource = {p \in Speaker : Feeds[p] # NoSource}
  /\ fresh = [feed |-> {}, out |-> {}]
  /\ mixed = [p \in Playback |-> 0] /\ ready = [s \in Source |-> 0] /\ skipping = {}
  /\ remaining = [p \in Speaker |-> 0] /\ ring = [p \in Speaker |-> 0]
  /\ resetting = Speaker
  /\ pc = "apply" /\ cur = NoSource /\ todo = {} /\ changes = 0
  /\ due = {} /\ heard = {} /\ held = {}

SteadySpec == Steady /\ [][HNext]_hvars

\* The mixing thread loops until is_running is cleared, and the audio device
\* keeps calling the mixers of the playbacks it plays.
Fairness ==
  /\ WF_hvars(ProcessAudio /\ HNext)
  /\ \A p \in Speaker : WF_hvars(Drain(p) /\ HNext)

\* No lost mix: phase 2 never clears a completed mix that a listener, hearing
\* the source ever since the mix completed, did not contribute to its own
\* push_buffer.
NoLostMix == \A q \in due : ~(pc = "mix" /\ cur = q[1] /\ Resets(q[1]))

\* A listener plays the same mix twice only if the source's gate was closed
\* in this cycle, that is if another listener is behind.  Without that every
\* round takes a new mix of the source.  (While nothing is reconfigured.)
ReplayNeedsHeldGate ==
  [][changes' = 0 => \A q \in heard : Took(q) => q[1] \in held]_hvars

=============================================================================
