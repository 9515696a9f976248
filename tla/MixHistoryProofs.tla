-------------------------- MODULE MixHistoryProofs --------------------------
(***************************************************************************)
(* No completed mix is lost, for all sets of sources, listeners and        *)
(* playbacks.                                                              *)
(***************************************************************************)
EXTENDS MixHistory, MixProofs

\* The strengthening of NoLostMix: a pair that is due still hears its source,
\* and the stamp of phase 3 says so, that is owes tells the gate of phase 2
\* about every due pair.
DueOwes == due \subseteq owes \cap ActivePairs

\* What the gate sees of an active pair that owes.
LEMMA GateHolds ==
  ASSUME NEW q \in Pair, q \in ActivePairs, q \in owes
  PROVE  ~Resets(q[1])
BY DEF ActivePairs, Audible, Resets, ConsumersPending, Pair

\* Completing a mix makes every pair of the source owe it.
LEMMA CompletingOwes ==
  ASSUME TypeOK, NEW s \in Source, NEW t \in Source, Phase2Mix(t), Completes(s)
  PROVE  \A q \in pairs : q[1] = s => q \in owes'
<1>1. t = s
  BY DEF Completes, Mixes, Phase2Mix
<1>2. ~(ready[s] = F /\ ConsumersPending(s))
  <2>1. ASSUME ready[s] = F, ConsumersPending(s) PROVE FALSE
    BY <1>1, <2>1 DEF Completes, Resets, TypeOK
  <2>2. QED
    BY <2>1
<1>3. PICK r \in 0..F : /\ ready' = [ready EXCEPT ![s] = r]
                        /\ owes' = IF r = F THEN owes \cup {q \in pairs : q[1] = s} ELSE owes
  BY <1>1, <1>2 DEF Phase2Mix
<1>4. r = F
  BY <1>3 DEF Completes, TypeOK
<1>5. QED
  BY <1>3, <1>4

\* An active pair stops owing only by taking the mix.
LEMMA OwesUntilTook ==
  ASSUME RoundInv, [Next]_vars, NEW q \in Pair, q \in owes, q \in ActivePairs, q \in ActivePairs',
         ~Took(q)
  PROVE  q \in owes'
<1> USE DEF world, setting, rounds, mixing, output, thread
<1>1. q \in pairs'
  BY DEF ActivePairs, Audible, Pair
<1>2. CASE \/ \E s \in Source : RemoveSource(s)
           \/ \E l \in Listener : RemoveListener(l)
  <2>1. ASSUME NEW s \in Source, RemoveSource(s) PROVE q \in owes'
    BY <1>1, <2>1 DEF RemoveSource
  <2>2. ASSUME NEW l \in Listener, RemoveListener(l) PROVE q \in owes'
    BY <1>1, <2>2 DEF RemoveListener
  <2>3. QED
    BY <1>2, <2>1, <2>2
<1>3. ASSUME NEW s \in Source, Phase2Mix(s) PROVE q \in owes'
  BY <1>3 DEF Phase2Mix
<1>4. ASSUME NEW l \in Listener, Phase3Collect(l) PROVE q \in owes'
  <2>1. /\ contributed' = contributed \cup ((Far(l) \cup Raw(l) \cup Complete(l)) \X {l})
        /\ pushBuffer' = [pushBuffer EXCEPT ![l] = Plus(@, Complete(l))]
        /\ owes' = owes \ ((Raw(l) \cup Complete(l)) \X {l})
        /\ pc = "collect" /\ cur = l /\ pc' # "collect"
    BY <1>4 DEF Phase3Collect
  <2>2. q[1] \notin Raw(l) \/ q[2] # l
    BY DEF ActivePairs, Audible, Raw, Candidates, Far, Pair
  <2>3. q[1] \notin Complete(l) \/ q[2] # l
    <3>1. SUFFICES ASSUME q[1] \in Complete(l), q[2] = l PROVE Took(q)
      OBVIOUS
    <3>2. q = <<q[1], l>> /\ q \notin contributed
      BY <3>1 DEF Complete, Candidates, Pair
    <3>3. q[1] \in Source /\ pushBuffer[l][q[1]] = 0
      BY <3>1, CollectsNew
    <3>4. pushBuffer'[l][q[1]] = 1
      BY <2>1, <3>1, <3>3 DEF TypeOK, RoundInv, Plus, Least, Often
    <3>5. QED
      BY <2>1, <3>1, <3>2, <3>3, <3>4 DEF Took, Collects
  <2>4. QED
    BY <2>1, <2>2, <2>3
<1>5. CASE owes' = owes
  BY <1>5
<1>6. \/ owes' = owes
      \/ \E s \in Source : RemoveSource(s) \/ Phase2Mix(s)
      \/ \E l \in Listener : RemoveListener(l) \/ Phase3Collect(l)
  BY DEF Next, ApplyPendingOps, ProcessAudio, OtherThreads, AddSource, AddListener,
     AddPlaybackToSource, AddPlaybackToListener, Phase2Scan, Phase1, Phase3Begin, Phase3Push,
     BeginCycle, BeginPhase2, BeginPhase3, EndCycle, SetMask, SetRange, Simulated, SetPlaying,
     Drain, vars
<1>7. QED
  BY <1>2, <1>3, <1>4, <1>5, <1>6

LEMMA DueStep == RoundInv /\ DueOwes /\ [HNext]_hvars => DueOwes'
<1>1. ASSUME RoundInv, DueOwes, HNext, NEW q \in due' PROVE q \in owes' /\ q \in ActivePairs'
  <2>1. /\ q \in ActivePairs' /\ q \in ActivePairs
        /\ Completes(q[1]) \/ (q \in due /\ ~Took(q))
    BY <1>1 DEF HNext
  <2>2. q \in Pair /\ q[1] \in Source /\ q \in pairs
    BY <2>1 DEF ActivePairs, Audible, Pair
  <2>3. CASE q \in due /\ ~Took(q)
    BY <1>1, <2>1, <2>2, <2>3, OwesUntilTook DEF DueOwes, HNext
  <2>4. CASE Completes(q[1])
    <3>1. PICK t \in Source : Phase2Mix(t)
      BY <1>1, <2>4 DEF HNext, Completes, Mixes, Next, ApplyPendingOps, ProcessAudio, OtherThreads,
         AddSource, RemoveSource, AddListener, RemoveListener,
         AddPlaybackToSource, AddPlaybackToListener, Phase2Scan, Phase1, Phase3Begin,
         Phase3Collect, Phase3Push, BeginCycle, BeginPhase2, BeginPhase3, EndCycle,
         SetMask, SetRange, Simulated, SetPlaying, Drain, thread
    <3>2. QED
      BY <1>1, <2>1, <2>2, <2>4, <3>1, CompletingOwes DEF RoundInv
  <2>5. QED
    BY <2>1, <2>3, <2>4
<1>2. ASSUME DueOwes, UNCHANGED hvars PROVE DueOwes'
  <2>1. UNCHANGED <<vars, due>>
    BY <1>2 DEF hvars
  <2>2. QED
    BY <1>2, <2>1 DEF DueOwes, ActivePairs, Audible, Playing, SpeakersOf, vars, world, setting,
       output, mixing, rounds, thread
<1>3. QED
  BY <1>1, <1>2 DEF DueOwes

\* No lost mix: a listener that hears a source from the moment its mix is
\* complete contributes that mix to its push_buffer before phase 2 clears it.
THEOREM NoMixIsLost == HSpec => []NoLostMix
<1>1. HInit => RoundInv /\ DueOwes
  BY InitType DEF HInit, Init, DueOwes, RoundInv, RoundSound, BufferKnown, Silence
<1>2. RoundInv /\ [HNext]_hvars => RoundInv'
  BY TypeStep, RoundStep DEF HNext, hvars, RoundInv
<1>3. DueOwes => NoLostMix
  BY GateHolds DEF DueOwes, NoLostMix, ActivePairs
<1>4. QED
  BY <1>1, <1>2, <1>3, DueStep, PTL DEF HSpec

-----------------------------------------------------------------------------
(* Replays.                                                                *)

\* The listener collects at most once in a pass of phase 3.
CollectOnce == pc \in {"collect", "push"} => cur \notin todo

\* The round of the listener still holds the mix, or phase 2 has yet to decide
\* about it, or found its gate closed, or the listener has had its turn.
Settled(q) ==
  \/ q \in contributed
  \/ pc \in {"apply", "phase1"}
  \/ pc = "phase2" /\ q[1] \in todo
  \/ pc = "mix" /\ (q[1] \in todo \/ cur = q[1])
  \/ q[1] \in held
  \/ pc \in {"phase3", "collect", "push"} /\ q[2] \notin todo /\ (pc = "collect" => cur # q[2])

\* The strengthening of ReplayNeedsHeldGate: while nothing is reconfigured a
\* pair that took a mix keeps hearing the source, and so the mix it took, as
\* long as it is not replaced, is settled.
Undisturbed ==
  /\ playing = Playback
  /\ pc = "collect" => Playing(cur)
  /\ heard \subseteq ActivePairs
  /\ \A q \in heard : ready[q[1]] = F => Settled(q)

ReplayInv == RoundInv /\ CollectOnce /\ (changes = 0 => Undisturbed)

LEMMA CollectOnceStep == CollectOnce /\ [Next]_vars => CollectOnce'
<1> SUFFICES ASSUME CollectOnce, [Next]_vars PROVE CollectOnce'
  OBVIOUS
<1> USE DEF CollectOnce, thread
<1>1. CASE UNCHANGED thread
  BY <1>1
<1>2. CASE pc' \notin {"collect", "push"}
  BY <1>2
<1>3. ASSUME NEW l \in Listener, Phase3Begin(l) PROVE CollectOnce'
  BY <1>3 DEF Phase3Begin
<1>4. ASSUME NEW l \in Listener, Phase3Collect(l) PROVE CollectOnce'
  BY <1>4 DEF Phase3Collect
<1>5. \/ UNCHANGED thread \/ pc' \notin {"collect", "push"}
      \/ \E l \in Listener : Phase3Begin(l) \/ Phase3Collect(l)
  BY DEF vars, Next, ApplyPendingOps, ProcessAudio, OtherThreads, AddSource, RemoveSource,
     AddListener, RemoveListener, AddPlaybackToSource, AddPlaybackToListener, Phase2Scan,
     Phase2Mix, Phase1, Phase3Push, BeginCycle, BeginPhase2, BeginPhase3, EndCycle, SetMask,
     SetRange, Simulated, SetPlaying, Drain
<1>6. QED
  BY <1>1, <1>2, <1>3, <1>4, <1>5

\* A step that is no change of the configuration.
Quiet ==
  \/ \E s \in Source : AddSource(s) \/ Phase2Scan(s) \/ Phase2Mix(s)
  \/ \E l \in Listener :
       AddListener(l) \/ Phase1(l) \/ Phase3Begin(l) \/ Phase3Collect(l) \/ Phase3Push(l)
  \/ \E p \in Playback : AddPlaybackToSource(p)
  \/ \E p \in Speaker : AddPlaybackToListener(p) \/ Drain(p)
  \/ \E q \in Pair : Simulated(q)
  \/ BeginCycle \/ BeginPhase2 \/ BeginPhase3 \/ EndCycle

LEMMA QuietSteps ==
  ASSUME TypeOK, Next, changes' = 0
  PROVE  Quiet /\ changes = 0
<1>1. ~Change
  BY DEF Change, TypeOK
<1>2. Quiet
  BY <1>1 DEF Quiet, Next, ApplyPendingOps, ProcessAudio, OtherThreads, RemoveSource,
     RemoveListener, SetMask, SetRange, SetPlaying
<1>3. QED
  BY <1>2 DEF Quiet, AddSource, AddListener, AddPlaybackToSource, AddPlaybackToListener,
     Phase2Scan, Phase2Mix, Phase1, Phase3Begin, Phase3Collect, Phase3Push, BeginCycle,
     BeginPhase2, BeginPhase3, EndCycle, Simulated, Drain, setting, vars

\* What only grows while nothing is reconfigured.
LEMMA QuietGrows ==
  ASSUME TypeOK, Quiet, playing = Playback
  PROVE  /\ UNCHANGED <<matching, outOfRange, playing>>
         /\ listeners \subseteq listeners' /\ pairs \subseteq pairs'
         /\ simulated \subseteq simulated' /\ attached \subseteq attached'
<1> USE DEF world, setting, output
<1>1. attached \subseteq Playback
  BY DEF TypeOK, Playback
<1>2. ASSUME NEW l \in Listener, Phase1(l) \/ Phase3Begin(l) \/ Phase3Push(l)
      PROVE  attached' = attached
  BY <1>1, <1>2 DEF Phase1, Phase3Begin, Phase3Push, SpeakersOf
<1>3. attached \subseteq attached'
  BY <1>2 DEF Quiet, AddSource, AddListener, AddPlaybackToSource, AddPlaybackToListener,
     Phase2Scan, Phase2Mix, Phase3Collect, BeginCycle, BeginPhase2, BeginPhase3, EndCycle,
     Simulated, Drain
<1>4. QED
  BY <1>3 DEF Quiet, AddSource, AddListener, AddPlaybackToSource, AddPlaybackToListener,
     Phase2Scan, Phase2Mix, Phase1, Phase3Begin, Phase3Collect, Phase3Push, BeginCycle,
     BeginPhase2, BeginPhase3, EndCycle, Simulated, Drain

LEMMA QuietActive ==
  ASSUME TypeOK, Quiet, playing = Playback
  PROVE  ActivePairs \subseteq ActivePairs' /\ \A l : Playing(l) => Playing(l)'
<1>1. \A l : Playing(l) => Playing(l)'
  BY QuietGrows DEF Playing, SpeakersOf
<1>2. QED
  BY <1>1, QuietGrows DEF ActivePairs, Audible

\* A listener that takes a mix finds it complete, and hears its source.
LEMMA TookComplete ==
  ASSUME RoundInv, NEW q \in Pair, NEW l \in Listener, Phase3Collect(l), Took(q)
  PROVE  q[2] = l /\ q[1] \in Complete(l) /\ q \in contributed'
<1>1. /\ q[2] = l /\ q \notin contributed /\ q \in contributed'
      /\ pushBuffer'[l][q[1]] > pushBuffer[l][q[1]]
  BY DEF Took, Collects, Phase3Collect
<1>2. q \in pairs /\ q = <<q[1], l>>
  BY <1>1 DEF Phase3Collect, Far, Raw, Complete, Candidates, Pair
<1>3. pushBuffer' = [pushBuffer EXCEPT ![l] = Plus(@, Complete(l))]
  BY DEF Phase3Collect
<1>4. pushBuffer'[l] = Plus(pushBuffer[l], Complete(l)) /\ q[1] \in Source
  BY <1>3 DEF RoundInv, TypeOK, Pair
<1>5. q[1] \notin Complete(l) => pushBuffer'[l][q[1]] = pushBuffer[l][q[1]]
  BY <1>4 DEF Plus
<1>6. pushBuffer[l][q[1]] \in Nat
  BY <1>4 DEF RoundInv, TypeOK, Often
<1>7. QED
  BY <1>1, <1>5, <1>6

\* What a quiet step does to a mix that was taken and is still there.
LEMMA SettledStep ==
  ASSUME RoundInv, CollectOnce, Quiet, HNext, NEW q \in Pair, q \in ActivePairs, Settled(q),
         ready[q[1]] = F, ready'[q[1]] = F, ~Completes(q[1])
  PROVE  Settled(q)'
<1> USE DEF Settled, thread, rounds, world, setting, mixing, output
<1>1. q[1] \in Source /\ q[2] \in Listener /\ q \in pairs /\ q[1] \in sources
  BY DEF ActivePairs, Audible, Pair, RoundInv, TypeOK
<1>2. pc # "phase1" => held \subseteq held'
  BY DEF HNext
<1>3. ASSUME NEW s \in Source, AddSource(s) PROVE Settled(q)'
  BY <1>3 DEF AddSource
<1>4. ASSUME NEW l \in Listener, AddListener(l) PROVE Settled(q)'
  BY <1>4 DEF AddListener
<1>5. ASSUME NEW p \in Playback, AddPlaybackToSource(p) PROVE Settled(q)'
  BY <1>5 DEF AddPlaybackToSource
<1>6. ASSUME NEW p \in Speaker, AddPlaybackToListener(p) PROVE Settled(q)'
  BY <1>6 DEF AddPlaybackToListener
<1>7. ASSUME BeginCycle \/ EndCycle PROVE Settled(q)'
  BY <1>7 DEF BeginCycle, EndCycle
<1>8. ASSUME NEW l \in Listener, Phase1(l) PROVE Settled(q)'
  BY <1>8 DEF Phase1
<1>9. ASSUME BeginPhase2 PROVE Settled(q)'
  BY <1>1, <1>9 DEF BeginPhase2
<1>10. ASSUME NEW s \in Source, Phase2Scan(s) PROVE Settled(q)'
  <2>1. CASE s = q[1]
    <3>1. q[2] \in Audible(s) /\ Playing(q[2])
      BY <2>1 DEF ActivePairs
    <3>2. pc' = "mix" /\ cur' = s
      BY <1>10, <3>1 DEF Phase2Scan
    <3>3. QED
      BY <2>1, <3>2
  <2>2. CASE s # q[1]
    <3>1. pc = "phase2" /\ pc' \in {"phase2", "mix"} /\ todo' = todo \ {s} /\ contributed' = contributed
      BY <1>10 DEF Phase2Scan
    <3>2. QED
      BY <1>1, <1>2, <2>2, <3>1
  <2>3. QED
    BY <2>1, <2>2
<1>11. ASSUME NEW s \in Source, Phase2Mix(s) PROVE Settled(q)'
  <2>1. pc = "mix" /\ cur = s /\ pc' = "phase2" /\ todo' = todo /\ contributed' = contributed
    BY <1>11 DEF Phase2Mix
  <2>2. CASE s = q[1]
    <3>1. Mixes(s)
      BY <2>1 DEF Mixes
    <3>2. ~Resets(s)
      BY <2>2, <3>1 DEF Completes
    <3>3. s \in held'
      BY <2>1, <2>2, <3>1, <3>2 DEF HNext
    <3>4. QED
      BY <2>2, <3>3
  <2>3. CASE s # q[1]
    BY <1>2, <2>1, <2>3
  <2>4. QED
    BY <2>2, <2>3
<1>12. ASSUME BeginPhase3 PROVE Settled(q)'
  BY <1>2, <1>12 DEF BeginPhase3
<1>13. ASSUME NEW l \in Listener, Phase3Begin(l) PROVE Settled(q)'
  <2>1. /\ pc = "phase3" /\ l \in todo /\ todo' = todo \ {l} /\ contributed' = contributed
        /\ (pc' = "collect" /\ cur' = l) \/ pc' = "phase3"
    BY <1>13 DEF Phase3Begin
  <2>2. QED
    BY <1>2, <2>1
<1>14. ASSUME NEW l \in Listener, Phase3Collect(l) PROVE Settled(q)'
  <2>1. /\ pc = "collect" /\ cur = l /\ pc' \in {"push", "phase3"} /\ todo' = todo
        /\ contributed \subseteq contributed'
    BY <1>14 DEF Phase3Collect
  <2>2. QED
    BY <1>2, <2>1
<1>15. ASSUME NEW l \in Listener, Phase3Push(l) PROVE Settled(q)'
  <2>1. /\ pc = "push" /\ cur = l /\ pc' = "phase3" /\ todo' = todo
        /\ \A r \in contributed : r[2] # l => r \in contributed'
    BY <1>15 DEF Phase3Push, EndRound
  <2>2. l \notin todo
    BY <2>1 DEF CollectOnce
  <2>3. QED
    BY <1>2, <2>1, <2>2
<1>16. ASSUME NEW r \in Pair, Simulated(r) PROVE Settled(q)'
  BY <1>2, <1>16 DEF Simulated
<1>17. ASSUME NEW p \in Speaker, Drain(p) PROVE Settled(q)'
  BY <1>2, <1>17 DEF Drain
<1>18. QED
  BY <1>3, <1>4, <1>5, <1>6, <1>7, <1>8, <1>9, <1>10, <1>11, <1>12, <1>13, <1>14, <1>15, <1>16,
     <1>17 DEF Quiet

\* A mix that is complete after a step and was not completed by it was
\* complete before.
LEMMA StaysComplete ==
  ASSUME TypeOK, Quiet, NEW s \in Source, ready'[s] = F, ~Completes(s)
  PROVE  ready[s] = F
<1> USE DEF mixing
<1>1. CASE ready' = ready
  BY <1>1
<1>2. ASSUME NEW t \in Source, Phase2Mix(t) PROVE ready[s] = F
  <2>1. CASE t = s
    <3>1. Mixes(s)
      BY <1>2, <2>1 DEF Phase2Mix, Mixes
    <3>2. ready[s] \in 0..F
      BY DEF TypeOK
    <3>3. QED
      BY <3>1, <3>2, MixConstants DEF Completes
  <2>2. CASE t # s
    BY <1>2, <2>2 DEF Phase2Mix, TypeOK
  <2>3. QED
    BY <2>1, <2>2
<1>3. ready' = ready \/ \E t \in Source : Phase2Mix(t)
  BY DEF Quiet, AddSource, AddListener, AddPlaybackToSource, AddPlaybackToListener,
     Phase2Scan, Phase1, Phase3Begin, Phase3Collect, Phase3Push, BeginCycle, BeginPhase2,
     BeginPhase3, EndCycle, Simulated, Drain
<1>4. QED
  BY <1>1, <1>2, <1>3

LEMMA UndisturbedStep ==
  ASSUME RoundInv, CollectOnce, Undisturbed, Quiet, HNext
  PROVE  Undisturbed'
<1>1. TypeOK /\ playing = Playback
  BY DEF RoundInv, Undisturbed
<1>2. playing' = Playback
  BY <1>1, QuietGrows
<1>3. pc' = "collect" => Playing(cur)'
  <2>1. ASSUME NEW l \in Listener, Phase3Begin(l), pc' = "collect" PROVE Playing(cur)'
    <3>1. Playing(l) /\ cur' = l
      BY <2>1 DEF Phase3Begin, Playing
    <3>2. QED
      BY <1>1, <3>1, QuietActive DEF Playing, SpeakersOf
  <2>2. CASE UNCHANGED <<pc, cur>>
    BY <1>1, <2>2, QuietActive DEF Undisturbed, Playing, SpeakersOf
  <2>3. \/ \E l \in Listener : Phase3Begin(l)
        \/ UNCHANGED <<pc, cur>>
        \/ pc' # "collect"
    BY DEF Quiet, AddSource, AddListener, AddPlaybackToSource, AddPlaybackToListener,
       Phase2Scan, Phase2Mix, Phase1, Phase3Collect, Phase3Push, BeginCycle, BeginPhase2,
       BeginPhase3, EndCycle, Simulated, Drain, thread
  <2>4. QED
    BY <2>1, <2>2, <2>3
<1>4. ASSUME NEW q \in heard' PROVE q \in ActivePairs' /\ (ready'[q[1]] = F => Settled(q)')
  <2>1. q \in Pair /\ q[1] \in Source /\ (Took(q) \/ (q \in heard /\ ~Completes(q[1])))
    BY DEF HNext, Pair
  <2>2. CASE Took(q)
    <3>1. PICK l \in Listener : Phase3Collect(l)
      BY <2>2 DEF Quiet, Took, Collects, AddSource, AddListener, AddPlaybackToSource,
         AddPlaybackToListener, Phase2Scan, Phase2Mix, Phase1, Phase3Begin, Phase3Push,
         BeginCycle, BeginPhase2, BeginPhase3, EndCycle, Simulated, Drain, thread
    <3>2. q[2] = l /\ q[1] \in Complete(l) /\ q \in contributed'
      BY <2>1, <2>2, <3>1, TookComplete
    <3>3. Playing(l)
      BY <3>1 DEF Undisturbed, Phase3Collect
    <3>4. l \in listeners
      BY <1>1, <3>2, <2>1 DEF Complete, Candidates, TypeOK, Pair
    <3>5. q = <<q[1], l>>
      BY <2>1, <3>2 DEF Pair
    <3>6. l \in Audible(q[1])
      BY <3>2, <3>4 DEF Audible, Complete, Raw, Far, Candidates
    <3>7. q \in ActivePairs
      BY <2>1, <3>2, <3>3, <3>6 DEF ActivePairs
    <3>8. QED
      BY <1>1, <3>2, <3>7, QuietActive DEF Settled
  <2>3. CASE q \in heard /\ ~Completes(q[1])
    <3>1. q \in ActivePairs
      BY <2>3 DEF Undisturbed
    <3>2. q \in ActivePairs'
      BY <1>1, <3>1, QuietActive
    <3>3. ASSUME ready'[q[1]] = F PROVE Settled(q)'
      <4>1. ready[q[1]] = F
        BY <1>1, <2>1, <2>3, <3>3, StaysComplete
      <4>2. Settled(q)
        BY <2>3, <4>1 DEF Undisturbed
      <4>3. QED
        BY <2>1, <2>3, <3>1, <3>3, <4>1, <4>2, SettledStep
    <3>4. QED
      BY <3>2, <3>3
  <2>4. QED
    BY <2>1, <2>2, <2>3
<1>5. QED
  BY <1>2, <1>3, <1>4 DEF Undisturbed

LEMMA ReplayStep == ReplayInv /\ [HNext]_hvars => ReplayInv'
<1> SUFFICES ASSUME ReplayInv, [HNext]_hvars PROVE ReplayInv'
  OBVIOUS
<1>1. [Next]_vars /\ TypeOK
  BY DEF HNext, hvars, ReplayInv, RoundInv
<1>2. RoundInv'
  BY <1>1, TypeStep, RoundStep DEF ReplayInv
<1>3. CollectOnce'
  BY <1>1, CollectOnceStep DEF ReplayInv
<1>4. ASSUME changes' = 0 PROVE Undisturbed'
  <2>1. CASE HNext
    <3>1. Quiet /\ changes = 0
      BY <1>1, <1>4, <2>1, QuietSteps DEF HNext
    <3>2. QED
      BY <2>1, <3>1, UndisturbedStep DEF ReplayInv
  <2>2. CASE UNCHANGED hvars
    <3>1. Undisturbed
      BY <1>4, <2>2 DEF ReplayInv, hvars, vars, setting
    <3>2. QED
      BY <2>2, <3>1 DEF Undisturbed, Settled, Playing, SpeakersOf, ActivePairs, Audible, hvars,
         vars, world, setting, rounds, mixing, output, thread
  <2>3. QED
    BY <2>1, <2>2
<1>5. QED
  BY <1>2, <1>3, <1>4 DEF ReplayInv

\* From the invariant: a mix taken again is one that phase 2 held.
LEMMA ReplayHeld ==
  ReplayInv /\ [HNext]_hvars => [changes' = 0 => \A q \in heard : Took(q) => q[1] \in held]_hvars
<1>1. SUFFICES ASSUME ReplayInv, HNext, changes' = 0, NEW q \in heard, Took(q)
               PROVE  q[1] \in held
  BY DEF hvars
<1>2. Quiet /\ changes = 0
  BY <1>1, QuietSteps DEF HNext, ReplayInv, RoundInv
<1>3. Undisturbed
  BY <1>1, <1>2 DEF ReplayInv
<1>4. q \in Pair
  BY <1>3 DEF Undisturbed, ActivePairs
<1>5. PICK l \in Listener : Phase3Collect(l)
  BY <1>1, <1>2 DEF Quiet, Took, Collects, AddSource, AddListener, AddPlaybackToSource,
     AddPlaybackToListener, Phase2Scan, Phase2Mix, Phase1, Phase3Begin, Phase3Push,
     BeginCycle, BeginPhase2, BeginPhase3, EndCycle, Simulated, Drain, thread
<1>6. q[2] = l /\ q[1] \in Complete(l)
  BY <1>1, <1>4, <1>5, TookComplete DEF ReplayInv
<1>7. Settled(q)
  BY <1>3, <1>6 DEF Undisturbed, Complete
<1>8. pc = "collect" /\ cur = q[2] /\ q \notin contributed
  BY <1>1 DEF Took, Collects
<1>9. QED
  BY <1>7, <1>8 DEF Settled

\* A listener gets the same mix of a source twice only if phase 2 found the
\* source's gate closed for another one, as long as nothing is reconfigured.
THEOREM ReplaysAreHeld == HSpec => ReplayNeedsHeldGate
<1>1. HInit => ReplayInv
  BY InitType DEF HInit, Init, RoundInv, RoundSound, BufferKnown, Silence, ReplayInv, CollectOnce,
     Undisturbed
<1>2. QED
  BY <1>1, ReplayHeld, ReplayStep, PTL DEF HSpec, ReplayNeedsHeldGate

-----------------------------------------------------------------------------
(* The program after its setup.                                            *)

LEMMA SteadyStart == Steady => ReplayInv /\ DrainBeforeCollect /\ WholeMix /\ DueOwes
<1> SUFFICES ASSUME Steady PROVE ReplayInv /\ DrainBeforeCollect /\ WholeMix /\ DueOwes
  OBVIOUS
<1>1. TypeOK
  BY MixConstants, SilenceType DEF Steady, TypeOK, Playback, Pair
<1>2. RoundSound /\ BufferKnown
  BY DEF Steady, RoundSound, BufferKnown, Silence
<1>3. CollectOnce /\ DrainBeforeCollect /\ Undisturbed /\ DueOwes
  BY DEF Steady, CollectOnce, DrainBeforeCollect, Undisturbed, DueOwes
<1>4. WholeMix
  BY DEF Steady, WholeMix, StreamsOf
<1>5. QED
  BY <1>1, <1>2, <1>3, <1>4 DEF ReplayInv, RoundInv

\* What holds from an empty server holds from the moment everything is set up:
\* rounds, drains, mixes and their delivery, and replays.
THEOREM SteadyIsSound ==
  SteadySpec => /\ [](TypeOK /\ RoundSound /\ DrainBeforeCollect /\ WholeMix /\ NoLostMix)
                /\ ReplayNeedsHeldGate
<1> DEFINE Inv == ReplayInv /\ DrainBeforeCollect /\ WholeMix /\ DueOwes
<1>1. Inv => TypeOK /\ RoundSound /\ DrainBeforeCollect /\ WholeMix /\ NoLostMix
  BY GateHolds DEF ReplayInv, RoundInv, DueOwes, NoLostMix, ActivePairs
<1>2. Inv /\ [HNext]_hvars => Inv'
  <2>1. [HNext]_hvars => [Next]_vars
    BY DEF HNext, hvars
  <2>2. QED
    BY <1>1, <2>1, ReplayStep, DrainStep, WholeStep, DueStep DEF ReplayInv
<1>3. Steady => Inv
  BY SteadyStart
<1>4. Inv /\ [HNext]_hvars => [changes' = 0 => \A q \in heard : Took(q) => q[1] \in held]_hvars
  BY ReplayHeld
<1> HIDE DEF Inv
<1>5. QED
  BY <1>1, <1>2, <1>3, <1>4, PTL DEF SteadySpec, ReplayNeedsHeldGate

\* While no listener has a second playback attached, its blocks are kept from
\* there, too, and handed out once per round.
THEOREM SteadyKeepsBlocks == SteadySpec /\ []OneAttached => KeepsBlocks /\ []RoundPushedOnce
<1>1. Steady => BlocksInv
  BY SteadyStart DEF Steady, ReplayInv, RoundInv, BlocksInv, PushInv, PushedDrains
<1>2. Steady => Blocks!Init
  <2>1. Steady => BlockOf = [p \in Speaker |-> Silence] /\ LeftOf = [p \in Speaker |-> 0]
    BY MixConstants DEF Steady, BlockOf, LeftOf
  <2>2. QED
    BY <2>1 DEF Steady, Blocks!Init, Blocks!Empty, Unplayed, Silence
<1>3. [HNext]_hvars => [Next]_vars
  BY DEF HNext, hvars
<1>4. BlocksInv => RoundPushedOnce
  BY DEF BlocksInv, PushInv, PushedDrains, DrainBeforeCollect, RoundPushedOnce
<1>5. QED
  BY <1>1, <1>2, <1>3, <1>4, BlocksInvStep, BlocksRefined, PTL
  DEF SteadySpec, KeepsBlocks, Blocks!Spec

=============================================================================
