----------------------------- MODULE MixProofs -----------------------------
(***************************************************************************)
(* Theorems about MixPipeline, for all sets of sources, listeners and      *)
(* playbacks, every frame size and every ring capacity.                    *)
(***************************************************************************)
EXTENDS MixPipeline, TLAPS

\* What both operands bound, the lesser one is bounded by.
LEMMA LeastBounds ==
  ASSUME NEW m \in Nat, NEW n \in Nat
  PROVE  Least(m, n) \in Nat /\ Least(m, n) <= m /\ Least(m, n) <= n
BY DEF Least

\* A cleared push_buffer, and one that a mix is added to, count what they hold.
LEMMA SilenceType == Silence \in [Source -> 0..Often]
BY DEF Silence, Often

LEMMA PlusType ==
  ASSUME NEW buffer \in [Source -> 0..Often], NEW more
  PROVE  Plus(buffer, more) \in [Source -> 0..Often]
BY DEF Plus, Least, Often

LEMMA EndRoundType ==
  ASSUME TypeOK, NEW l, EndRound(l)
  PROVE  /\ contributed' \subseteq contributed /\ pushed' \subseteq pushed
         /\ pushBuffer' \in [Listener -> [Source -> 0..Often]]
BY SilenceType DEF TypeOK, EndRound

LEMMA InitType == Init => TypeOK
BY MixConstants, SilenceType DEF Init, TypeOK, Playback, Pair

\* The operations of apply_pending_ops keep the types.
LEMMA OpsType == TypeOK /\ ApplyPendingOps => TypeOK'
<1> SUFFICES ASSUME TypeOK, ApplyPendingOps PROVE TypeOK'
  OBVIOUS
<1> USE DEF world, setting, rounds, mixing, output, thread
<1>1. ASSUME NEW s \in Source, AddSource(s) PROVE TypeOK'
  BY <1>1 DEF AddSource, TypeOK
<1>2. ASSUME NEW s \in Source, RemoveSource(s) PROVE TypeOK'
  BY <1>2, MixConstants DEF RemoveSource, TypeOK, Change, StreamsOf
<1>3. ASSUME NEW l \in Listener, AddListener(l) PROVE TypeOK'
  BY <1>3 DEF AddListener, TypeOK
<1>4. ASSUME NEW l \in Listener, RemoveListener(l) PROVE TypeOK'
  BY <1>4, MixConstants, SilenceType DEF RemoveListener, TypeOK, Change, SpeakersOf
<1>5. ASSUME NEW p \in Playback, AddPlaybackToSource(p) PROVE TypeOK'
  <2>1. mixed' \in [Playback -> 0..F]
    BY <1>5, MixConstants DEF AddPlaybackToSource, TypeOK
  <2>2. fresh' \in [feed : SUBSET Playback, out : SUBSET Speaker]
    BY <1>5 DEF AddPlaybackToSource, TypeOK
  <2>3. QED
    BY <1>5, <2>1, <2>2 DEF AddPlaybackToSource, TypeOK
<1>6. ASSUME NEW p \in Speaker, AddPlaybackToListener(p) PROVE TypeOK'
  <2>1. /\ contributed' \subseteq contributed /\ pushed' \subseteq pushed
        /\ pushBuffer' \in [Listener -> [Source -> 0..Often]]
    BY <1>6, EndRoundType DEF AddPlaybackToListener, TypeOK
  <2>2. remaining' \in [Speaker -> 0..F]
    BY <1>6, MixConstants DEF AddPlaybackToListener, TypeOK
  <2>3. fresh' \in [feed : SUBSET Playback, out : SUBSET Speaker]
    BY <1>6 DEF AddPlaybackToListener, TypeOK
  <2>4. attached' \subseteq Speaker /\ viaSource' \subseteq Speaker
    BY <1>6 DEF AddPlaybackToListener, TypeOK
  <2>5. QED
    BY <1>6, <2>1, <2>2, <2>3, <2>4 DEF AddPlaybackToListener, TypeOK
<1>7. QED
  BY <1>1, <1>2, <1>3, <1>4, <1>5, <1>6 DEF ApplyPendingOps

\* What the main thread, the simulation and the audio thread do keeps the types.
LEMMA OthersType == TypeOK /\ OtherThreads => TypeOK'
<1> SUFFICES ASSUME TypeOK, OtherThreads PROVE TypeOK'
  OBVIOUS
<1> USE DEF world, setting, rounds, mixing, output, thread
<1>1. ASSUME NEW q \in Pair, SetMask(q) PROVE TypeOK'
  BY <1>1, MixConstants DEF SetMask, TypeOK, Change
<1>2. ASSUME NEW q \in Pair, SetRange(q) PROVE TypeOK'
  BY <1>2, MixConstants DEF SetRange, TypeOK, Change
<1>3. ASSUME NEW q \in Pair, Simulated(q) PROVE TypeOK'
  BY <1>3 DEF Simulated, TypeOK
<1>4. ASSUME NEW p \in Playback, SetPlaying(p) PROVE TypeOK'
  BY <1>4, MixConstants DEF SetPlaying, TypeOK, Change
<1>5. ASSUME NEW p \in Speaker, Drain(p) PROVE TypeOK'
  BY <1>5, MixConstants DEF Drain, TypeOK
<1>6. QED
  BY <1>1, <1>2, <1>3, <1>4, <1>5 DEF OtherThreads

\* The steps of process_audio keep the types.
LEMMA MixingType == TypeOK /\ ProcessAudio => TypeOK'
<1> SUFFICES ASSUME TypeOK, ProcessAudio PROVE TypeOK'
  OBVIOUS
<1> USE MixConstants DEF world, setting, rounds, mixing, output, thread
<1>1. ASSUME BeginCycle \/ BeginPhase2 \/ BeginPhase3 \/ EndCycle PROVE TypeOK'
  BY <1>1 DEF BeginCycle, BeginPhase2, BeginPhase3, EndCycle, TypeOK
<1>2. ASSUME NEW s \in Source, Phase2Scan(s) PROVE TypeOK'
  BY <1>2 DEF Phase2Scan, TypeOK
<1>3. ASSUME NEW s \in Source, Phase2Mix(s) PROVE TypeOK'
  <2>1. CASE UNCHANGED <<feeding, mixed, ready, ring, resetting, owes>>
    BY <1>3, <2>1 DEF Phase2Mix, TypeOK
  <2>2. CASE ~(ready[s] = F /\ ConsumersPending(s))
    <3> DEFINE live == StreamsOf(s) \cap playing
               have == [p \in live |-> IF ready[s] = F THEN 0 ELSE mixed[p]]
               open == {p \in live : have[p] < F}
    <3>1. PICK got \in [live -> 0..F] : \E r \in 0..F :
            /\ Pulls(s, got)
            /\ feeding' = feeding \ (StreamsOf(s) \ playing)
            /\ mixed' = [p \in Playback |-> IF p \in live THEN have[p] + got[p] ELSE mixed[p]]
            /\ ring' = [p \in Speaker |->
                         IF p \notin open THEN ring[p]
                         ELSE IF p \in resetting THEN 0 ELSE ring[p] - Least(ring[p], got[p])]
            /\ resetting' = resetting \ open
            /\ ready' = [ready EXCEPT ![s] = r]
            /\ owes' = IF r = F THEN owes \cup {q \in pairs : q[1] = s} ELSE owes
      BY <1>3, <2>2 DEF Phase2Mix
    <3>2. \A p \in live : have[p] \in 0..F /\ have[p] + got[p] \in 0..F
      <4> SUFFICES ASSUME NEW p \in live PROVE have[p] \in 0..F /\ have[p] + got[p] \in 0..F
        OBVIOUS
      <4>1. p \in Playback
        BY DEF StreamsOf, TypeOK
      <4>2. have[p] \in 0..F /\ got[p] \in 0..F
        BY <4>1 DEF TypeOK
      <4>3. have[p] = (IF ready[s] = F THEN 0 ELSE mixed[p])
        OBVIOUS
      <4>4. got[p] <= F - have[p]
        BY <3>1, <4>2, <4>3 DEF Pulls
      <4>5. QED
        BY <4>2, <4>4
    <3>3. mixed' \in [Playback -> 0..F]
      <4> HIDE DEF live, have
      <4>1. QED
        BY <3>1, <3>2 DEF TypeOK
    <3>4. ring' \in [Speaker -> 0..Cap]
      <4> SUFFICES ASSUME NEW p \in Speaker, p \in open
                   PROVE  ring[p] - Least(ring[p], got[p]) \in 0..Cap
        <5> HIDE DEF open
        <5>1. QED
          BY <3>1 DEF TypeOK
      <4>1. ring[p] \in 0..Cap /\ got[p] \in Nat
        BY DEF TypeOK
      <4>2. QED
        BY <4>1 DEF Least
    <3>5. /\ feeding' \subseteq Playback /\ resetting' \subseteq Speaker
          /\ ready' \in [Source -> 0..F] /\ owes' \subseteq pairs
      <4> HIDE DEF open, live, have
      <4>1. QED
        BY <3>1 DEF TypeOK
    <3>6. QED
      BY <1>3, <3>3, <3>4, <3>5 DEF Phase2Mix, TypeOK
  <2>3. QED
    BY <1>3, <2>1, <2>2 DEF Phase2Mix
<1>4. ASSUME NEW l \in Listener, Phase1(l) PROVE TypeOK'
  <2>1. CASE Draining(l) = {}
    BY <1>4, <2>1 DEF Phase1, TypeOK
  <2>2. CASE Draining(l) # {}
    <3>1. \A p \in Speaker : /\ Takes(p) \in Nat
                             /\ Takes(p) <= remaining[p] /\ Takes(p) <= Cap - ring[p]
      BY DEF Takes, Least, TypeOK
    <3>2. remaining' \in [Speaker -> 0..F]
      <4> HIDE DEF Takes
      <4>1. QED
        BY <1>4, <2>2, <3>1 DEF Phase1, TypeOK
    <3>3. ring' \in [Speaker -> 0..Cap]
      BY <1>4, <2>2, <3>1 DEF Phase1, TypeOK
    <3>4. /\ contributed' \subseteq pairs /\ pushed' \subseteq Listener
          /\ pushBuffer' \in [Listener -> [Source -> 0..Often]]
      BY <1>4, <2>2, EndRoundType DEF Phase1, TypeOK
    <3>5. attached' \subseteq Speaker /\ resetting' = resetting
      BY <1>4, <2>2 DEF Phase1, TypeOK
    <3>6. QED
      BY <1>4, <3>2, <3>3, <3>4, <3>5 DEF Phase1, TypeOK
  <2>3. QED
    BY <2>1, <2>2
<1>5. ASSUME NEW l \in Listener, Phase3Begin(l) PROVE TypeOK'
  BY <1>5 DEF Phase3Begin, TypeOK
<1>6. ASSUME NEW l \in Listener, Phase3Collect(l) PROVE TypeOK'
  <2>1. pushBuffer' \in [Listener -> [Source -> 0..Often]]
    BY <1>6, PlusType DEF Phase3Collect, TypeOK
  <2>2. (Far(l) \cup Raw(l) \cup Complete(l)) \X {l} \subseteq pairs
    BY DEF Far, Raw, Complete, Candidates
  <2>3. contributed' \subseteq pairs /\ owes' \subseteq pairs
    BY <1>6, <2>2 DEF Phase3Collect, TypeOK
  <2>4. QED
    BY <1>6, <2>1, <2>3 DEF Phase3Collect, TypeOK
<1>7. ASSUME NEW l \in Listener, Phase3Push(l) PROVE TypeOK'
  <2> DEFINE live == SpeakersOf(l) \cap playing
             take == [p \in live |-> Least(F, Cap - ring[p])]
  <2>1. \A p \in live : /\ p \in Speaker /\ take[p] \in Nat
                        /\ take[p] <= F /\ take[p] <= Cap - ring[p]
    BY DEF Least, TypeOK, SpeakersOf
  <2>2. remaining' = [p \in Speaker |-> IF p \in live THEN F - take[p] ELSE remaining[p]]
    BY <1>7 DEF Phase3Push
  <2>3. ring' = [p \in Speaker |-> IF p \in live THEN ring[p] + take[p] ELSE ring[p]]
    BY <1>7 DEF Phase3Push
  <2>4. remaining' \in [Speaker -> 0..F] /\ ring' \in [Speaker -> 0..Cap]
    <3> HIDE DEF live, take
    <3>1. QED
      BY <2>1, <2>2, <2>3 DEF TypeOK
  <2>5. /\ contributed' \subseteq pairs /\ pushed' \subseteq Listener
        /\ pushBuffer' \in [Listener -> [Source -> 0..Often]]
    BY <1>7, EndRoundType DEF Phase3Push, TypeOK
  <2>6. QED
    BY <1>7, <2>4, <2>5 DEF Phase3Push, TypeOK
<1>8. QED
  BY <1>1, <1>2, <1>3, <1>4, <1>5, <1>6, <1>7 DEF ProcessAudio

LEMMA TypeStep == TypeOK /\ [Next]_vars => TypeOK'
<1>1. TypeOK /\ UNCHANGED vars => TypeOK'
  BY DEF TypeOK, vars, world, setting, rounds, mixing, output, thread
<1>2. QED
  BY <1>1, OpsType, OthersType, MixingType DEF Next

\* Every variable keeps its type: among the rest no ring buffer is pushed
\* beyond its capacity and no mix grows beyond frameSize.
THEOREM TypeCorrect == Spec => []TypeOK
BY InitType, TypeStep, PTL DEF Spec

-----------------------------------------------------------------------------
(* Rounds.                                                                 *)

\* What RoundSound needs to be inductive: a pair that is created later finds
\* no audio of its source in the push_buffer of its listener.
BufferKnown ==
  \A l \in Listener :
    /\ \A s \in Source : pushBuffer[l][s] > 0 => s \in sources \cup freed
    /\ l \notin listeners => pushBuffer[l] = Silence

RoundInv == TypeOK /\ RoundSound /\ BufferKnown

\* Ending the round of a listener keeps RoundSound.
LEMMA EndRoundSound ==
  ASSUME RoundInv, NEW l \in Listener, EndRound(l),
         UNCHANGED <<sources, listeners, freed, pairs>>
  PROVE  RoundSound' /\ BufferKnown'
BY DEF RoundInv, RoundSound, BufferKnown, EndRound, TypeOK, Silence

\* A step that leaves the rounds and the collections alone keeps both parts.
LEMMA RoundsKept ==
  ASSUME RoundInv, UNCHANGED <<sources, listeners, freed, pairs, contributed, pushBuffer>>
  PROVE  RoundSound' /\ BufferKnown'
BY DEF RoundInv, RoundSound, BufferKnown

\* Phase 3 adds mixes of sources that the push_buffer has nothing of.
LEMMA CollectsNew ==
  ASSUME RoundInv, NEW l \in Listener, NEW s \in Complete(l)
  PROVE  s \in Source /\ pushBuffer[l][s] = 0
BY DEF RoundInv, RoundSound, TypeOK, Complete, Candidates

LEMMA RoundStep == RoundInv /\ TypeOK' /\ [Next]_vars => RoundInv'
<1> SUFFICES ASSUME RoundInv, TypeOK', [Next]_vars PROVE RoundSound' /\ BufferKnown'
  BY DEF RoundInv
<1> USE DEF world, rounds
<1>1. ASSUME NEW s \in Source, AddSource(s) PROVE RoundSound' /\ BufferKnown'
  BY <1>1 DEF AddSource, RoundInv, RoundSound, BufferKnown, TypeOK, Silence
<1>2. ASSUME NEW s \in Source, RemoveSource(s) PROVE RoundSound' /\ BufferKnown'
  BY <1>2 DEF RemoveSource, RoundInv, RoundSound, BufferKnown, TypeOK
<1>3. ASSUME NEW l \in Listener, AddListener(l) PROVE RoundSound' /\ BufferKnown'
  BY <1>3 DEF AddListener, RoundInv, RoundSound, BufferKnown, TypeOK, Silence
<1>4. ASSUME NEW l \in Listener, RemoveListener(l) PROVE RoundSound' /\ BufferKnown'
  BY <1>4 DEF RemoveListener, RoundInv, RoundSound, BufferKnown, TypeOK, Silence
<1>5. ASSUME NEW p \in Speaker, AddPlaybackToListener(p) PROVE RoundSound' /\ BufferKnown'
  <2>1. Owner[p] \in Listener
    BY MixConstants
  <2>2. EndRound(Owner[p]) \/ UNCHANGED rounds
    BY <1>5 DEF AddPlaybackToListener
  <2>3. UNCHANGED <<sources, listeners, freed, pairs>>
    BY <1>5 DEF AddPlaybackToListener
  <2>4. QED
    BY <2>1, <2>2, <2>3, EndRoundSound, RoundsKept
<1>6. ASSUME NEW l \in Listener, Phase1(l) \/ Phase3Push(l) PROVE RoundSound' /\ BufferKnown'
  <2>1. EndRound(l) \/ UNCHANGED <<contributed, pushBuffer>>
    BY <1>6 DEF Phase1, Phase3Push
  <2>2. UNCHANGED <<sources, listeners, freed, pairs>>
    BY <1>6 DEF Phase1, Phase3Push
  <2>3. QED
    BY <2>1, <2>2, EndRoundSound, RoundsKept
<1>7. ASSUME NEW l \in Listener, Phase3Collect(l) PROVE RoundSound' /\ BufferKnown'
  <2>1. \A s \in Complete(l) : s \in sources /\ <<s, l>> \in pairs
    BY DEF Complete, Candidates, Far, Raw
  <2>2. /\ contributed' = contributed \cup ((Far(l) \cup Raw(l) \cup Complete(l)) \X {l})
        /\ pushBuffer' = [pushBuffer EXCEPT ![l] = Plus(@, Complete(l))]
        /\ UNCHANGED <<sources, listeners, freed, pairs>>
    BY <1>7 DEF Phase3Collect
  <2>3. Complete(l) # {} => l \in listeners
    <3>1. pairs \subseteq sources \X listeners
      BY DEF RoundInv, TypeOK
    <3>2. QED
      BY <2>1, <3>1
  <2>4. /\ \A m \in Listener \ {l} : pushBuffer'[m] = pushBuffer[m]
        /\ pushBuffer'[l] = Plus(pushBuffer[l], Complete(l))
        /\ \A m \in Listener : pushBuffer[m] \in [Source -> 0..Often]
    BY <2>2 DEF RoundInv, TypeOK
  <2>5. \A s \in Source : pushBuffer'[l][s] = IF s \in Complete(l) THEN 1 ELSE pushBuffer[l][s]
    BY <2>4, CollectsNew DEF Plus, Least, Often
  <2>6. Complete(l) = {} => pushBuffer'[l] = pushBuffer[l]
    BY <2>4 DEF Plus
  <2>7. BufferKnown'
    <3>1. ASSUME NEW m \in Listener, NEW s \in Source, pushBuffer'[m][s] > 0
          PROVE  s \in sources \cup freed
      BY <2>1, <2>4, <2>5, <3>1 DEF RoundInv, BufferKnown
    <3>2. \A m \in Listener : m \notin listeners => pushBuffer'[m] = Silence
      BY <2>3, <2>4, <2>6 DEF RoundInv, BufferKnown
    <3>3. QED
      BY <2>2, <3>1, <3>2 DEF BufferKnown
  <2>8. ASSUME NEW m \in Listener, NEW s \in Source, pushBuffer'[m][s] > 0
        PROVE  pushBuffer'[m][s] = 1 /\ (<<s, m>> \in pairs => <<s, m>> \in contributed')
    BY <2>2, <2>4, <2>5, <2>8 DEF RoundInv, RoundSound
  <2>9. QED
    BY <2>2, <2>7, <2>8 DEF RoundSound
<1>8. ASSUME \/ \E p \in Playback : AddPlaybackToSource(p) \/ SetPlaying(p)
             \/ \E q \in Pair : SetMask(q) \/ SetRange(q) \/ Simulated(q)
             \/ \E p \in Speaker : Drain(p)
             \/ \E s \in Source : Phase2Scan(s) \/ Phase2Mix(s)
             \/ \E l \in Listener : Phase3Begin(l)
             \/ BeginCycle \/ BeginPhase2 \/ BeginPhase3 \/ EndCycle
             \/ UNCHANGED vars
      PROVE  RoundSound' /\ BufferKnown'
  <2>1. UNCHANGED <<sources, listeners, freed, pairs, contributed, pushBuffer>>
    BY <1>8 DEF AddPlaybackToSource, SetPlaying, SetMask, SetRange, Simulated, Drain, Phase2Scan,
                Phase2Mix, Phase3Begin, BeginCycle, BeginPhase2, BeginPhase3, EndCycle, vars
  <2>2. QED
    BY <2>1, RoundsKept
<1>9. QED
  BY <1>1, <1>2, <1>3, <1>4, <1>5, <1>6, <1>7, <1>8
  DEF Next, ApplyPendingOps, ProcessAudio, OtherThreads

\* Whatever a push_buffer holds it holds once, and stamped with the listener's
\* generation: no source is mixed into it twice between two fill(0).
THEOREM RoundsAreSound == Spec => []RoundSound
<1>1. Init => RoundInv
  BY InitType DEF Init, RoundInv, RoundSound, BufferKnown, Silence
<1>2. RoundInv /\ [Next]_vars => TypeOK'
  BY TypeStep DEF RoundInv
<1>3. RoundInv /\ [Next]_vars => RoundInv'
  BY <1>2, RoundStep
<1>4. RoundInv => RoundSound
  BY DEF RoundInv
<1>5. QED
  BY <1>1, <1>3, <1>4, PTL DEF Spec

-----------------------------------------------------------------------------
(* Draining.                                                               *)

LEMMA DrainStep == TypeOK /\ DrainBeforeCollect /\ [Next]_vars => DrainBeforeCollect'
<1> SUFFICES ASSUME TypeOK, DrainBeforeCollect, [Next]_vars PROVE DrainBeforeCollect'
  OBVIOUS
<1> USE DEF world, setting, rounds, mixing, output, thread
<1>1. ASSUME ApplyPendingOps PROVE DrainBeforeCollect'
  BY <1>1 DEF ApplyPendingOps, AddSource, RemoveSource, AddListener, RemoveListener,
              AddPlaybackToSource, AddPlaybackToListener, DrainBeforeCollect
<1>2. ASSUME UNCHANGED <<pc, cur, attached, remaining>> PROVE DrainBeforeCollect'
  BY <1>2 DEF DrainBeforeCollect, Draining, SpeakersOf
<1>3. ASSUME OtherThreads \/ UNCHANGED vars PROVE DrainBeforeCollect'
  BY <1>2, <1>3 DEF OtherThreads, SetMask, SetRange, Simulated, SetPlaying, Drain, vars
<1>4. ASSUME NEW l \in Listener, Phase3Begin(l) PROVE DrainBeforeCollect'
  <2>1. CASE pc' = "collect" /\ cur' = l /\ ~DrainsPending(l)
    <3>1. \A p \in SpeakersOf(l) \cap playing : ~(remaining[p] > 0)
      BY <2>1 DEF DrainsPending
    <3>2. SpeakersOf(l)' \subseteq SpeakersOf(l) \cap playing /\ remaining' = remaining
      BY <1>4 DEF Phase3Begin, SpeakersOf
    <3>3. QED
      BY <2>1, <3>1, <3>2 DEF DrainBeforeCollect, Draining
  <2>2. CASE UNCHANGED <<pc, cur>>
    BY <1>4, <2>2 DEF Phase3Begin, DrainBeforeCollect
  <2>3. QED
    BY <1>4, <2>1, <2>2 DEF Phase3Begin
<1>5. ASSUME NEW l \in Listener, Phase3Collect(l) PROVE DrainBeforeCollect'
  BY <1>5 DEF Phase3Collect, DrainBeforeCollect, Draining, SpeakersOf
<1>6. ASSUME \/ BeginCycle \/ BeginPhase2 \/ BeginPhase3 \/ EndCycle
             \/ \E s \in Source : Phase2Scan(s) \/ Phase2Mix(s)
             \/ \E l \in Listener : Phase1(l) \/ Phase3Push(l)
      PROVE  DrainBeforeCollect'
  BY <1>6 DEF BeginCycle, BeginPhase2, BeginPhase3, EndCycle, Phase2Scan, Phase2Mix,
              Phase1, Phase3Push, DrainBeforeCollect
<1>7. QED
  BY <1>1, <1>3, <1>4, <1>5, <1>6 DEF Next, ProcessAudio

\* Nothing is mixed into a push_buffer, nor is it handed out, while a
\* playback has frames of it left to take.
THEOREM DrainedBeforeCollect == Spec => []DrainBeforeCollect
<1>1. Init => DrainBeforeCollect
  BY DEF Init, DrainBeforeCollect
<1>2. QED
  BY <1>1, TypeCorrect, DrainStep, PTL DEF Spec

-----------------------------------------------------------------------------
(* One push per round, while no listener has more than one playback.       *)

OneAttached == \A p, q \in attached : Owner[p] = Owner[q] => p = q

\* A listener whose push_buffer is out still drains it, or lost its playback;
\* a playback is attached once.
PushedDrains ==
  /\ \A l \in pushed : SpeakersOf(l) = {} \/ Draining(l) # {}
  /\ pc \in {"collect", "push"} => SpeakersOf(cur) # {}
  /\ fresh.out \cap attached = {}

PushInv == TypeOK /\ DrainBeforeCollect /\ PushedDrains

LEMMA PushStep ==
  PushInv /\ OneAttached /\ OneAttached' /\ [Next]_vars => PushedDrains'
<1> SUFFICES ASSUME PushInv, OneAttached, OneAttached', [Next]_vars PROVE PushedDrains'
  OBVIOUS
<1> USE DEF world, setting, rounds, mixing, output, thread
<1>1. \A l \in Listener : \A p, q \in SpeakersOf(l) : p = q
  BY DEF OneAttached, SpeakersOf
<1>2. ASSUME UNCHANGED <<pc, cur, attached, remaining, fresh>>, pushed' \subseteq pushed
      PROVE  PushedDrains'
  BY <1>2 DEF PushInv, PushedDrains, Draining, SpeakersOf
<1>3. ASSUME NEW l \in Listener, RemoveListener(l) PROVE PushedDrains'
  <2>1. /\ pushed' = pushed \ {l} /\ attached' = attached \ SpeakersOf(l)
        /\ pc' = "apply" /\ remaining' = remaining /\ fresh' = fresh
    BY <1>3 DEF RemoveListener, EndRound
  <2>2. \A m \in Listener \ {l} : SpeakersOf(m)' = SpeakersOf(m)
    BY <2>1 DEF SpeakersOf
  <2>3. QED
    BY <2>1, <2>2 DEF PushInv, PushedDrains, Draining, TypeOK
<1>4. ASSUME NEW p \in Speaker, AddPlaybackToListener(p) PROVE PushedDrains'
  <2>1. Owner[p] \in Listener
    BY MixConstants
  <2>2. /\ pc' = "apply" /\ attached' = attached \cup {p}
        /\ fresh'.out = fresh.out \ {p}
        /\ p \in fresh.out
    BY <1>4 DEF AddPlaybackToListener, PushInv, TypeOK
  <2>3. \A q \in Speaker : q # p => remaining'[q] = remaining[q]
    BY <1>4 DEF AddPlaybackToListener, PushInv, TypeOK
  <2>4. \A m \in Listener : m # Owner[p] =>
          SpeakersOf(m)' = SpeakersOf(m) /\ Draining(m)' = Draining(m)
    BY <2>2, <2>3 DEF SpeakersOf, Draining, PushInv, TypeOK
  <2>5. SpeakersOf(Owner[p]) = {}
    BY <2>2 DEF SpeakersOf, PushInv, PushedDrains, OneAttached
  <2>6. pushed' = pushed \ {Owner[p]}
    BY <1>4, <2>5 DEF AddPlaybackToListener, EndRound
  <2>7. \A m \in pushed' : SpeakersOf(m)' = {} \/ Draining(m)' # {}
    BY <2>4, <2>6 DEF PushInv, PushedDrains, TypeOK
  <2>8. QED
    BY <2>2, <2>7 DEF PushInv, PushedDrains
<1>5. ASSUME NEW l \in Listener, Phase1(l) PROVE PushedDrains'
  <2>1. CASE Draining(l) = {}
    BY <1>5, <2>1, <1>2 DEF Phase1
  <2>2. CASE Draining(l) # {}
    <3> DEFINE live == SpeakersOf(l) \cap playing
               left == [p \in Speaker |->
                          IF p \notin live THEN remaining[p]
                          ELSE IF Discards(p) THEN 0 ELSE remaining[p] - Takes(p)]
    <3>1. /\ pc' = "phase1" /\ fresh' = fresh
          /\ attached' = attached \ (SpeakersOf(l) \ playing)
          /\ remaining' = left
          /\ IF \A p \in live : left[p] = 0 THEN EndRound(l) ELSE UNCHANGED pushed
      BY <1>5, <2>2 DEF Phase1
    <3>2. \A m \in Listener : m # l =>
            SpeakersOf(m)' = SpeakersOf(m) /\ Draining(m)' = Draining(m)
      BY <3>1 DEF SpeakersOf, Draining, PushInv, TypeOK
    <3>3. SpeakersOf(l)' = live
      BY <3>1 DEF SpeakersOf
    <3>4. CASE \A p \in live : left[p] = 0
      <4>1. pushed' = pushed \ {l}
        BY <3>1, <3>4 DEF EndRound
      <4>2. QED
        BY <4>1, <3>1, <3>2 DEF PushInv, PushedDrains, TypeOK
    <3>5. CASE \E p \in live : left[p] # 0
      <4>1. PICK p \in live : left[p] # 0
        BY <3>5
      <4>2. remaining[p] \in 0..F /\ Takes(p) \in Nat /\ Takes(p) <= remaining[p]
        BY MixConstants DEF PushInv, TypeOK, SpeakersOf, Takes, Least
      <4>3. left[p] = 0 \/ left[p] = remaining[p] - Takes(p)
        BY DEF SpeakersOf, PushInv, TypeOK
      <4>4. left[p] > 0
        BY <4>1, <4>2, <4>3
      <4>5. p \in Draining(l)'
        BY <4>1, <4>4, <3>1, <3>3 DEF Draining
      <4>6. pushed' = pushed
        BY <3>1, <3>5
      <4>7. QED
        BY <4>5, <4>6, <3>1, <3>2 DEF PushInv, PushedDrains, TypeOK
    <3>6. QED
      BY <3>4, <3>5
  <2>3. QED
    BY <2>1, <2>2
<1>6. ASSUME NEW l \in Listener, Phase3Begin(l) PROVE PushedDrains'
  <2>1. /\ attached' = attached \ (SpeakersOf(l) \ playing)
        /\ remaining' = remaining /\ pushed' = pushed /\ fresh' = fresh
        /\ \/ SpeakersOf(l) \cap playing # {} /\ pc' = "collect" /\ cur' = l
           \/ pc' = "phase3"
    BY <1>6 DEF Phase3Begin
  <2>2. /\ SpeakersOf(l)' = SpeakersOf(l) \cap playing
        /\ \A m \in Listener : m # l =>
             SpeakersOf(m)' = SpeakersOf(m) /\ Draining(m)' = Draining(m)
    BY <2>1 DEF SpeakersOf, Draining, PushInv, TypeOK
  <2>3. l \in pushed => SpeakersOf(l)' = {} \/ Draining(l)' # {}
    BY <2>1, <2>2, <1>1 DEF PushInv, PushedDrains, Draining
  <2>4. QED
    BY <2>1, <2>2, <2>3 DEF PushInv, PushedDrains, TypeOK
<1>7. ASSUME NEW l \in Listener, Phase3Collect(l) PROVE PushedDrains'
  BY <1>7 DEF Phase3Collect, PushInv, PushedDrains, Draining, SpeakersOf
<1>8. ASSUME NEW l \in Listener, Phase3Push(l) PROVE PushedDrains'
  <2> DEFINE live == SpeakersOf(l) \cap playing
             take == [p \in live |-> Least(F, Cap - ring[p])]
  <2>1. /\ pc' = "phase3" /\ fresh' = fresh
        /\ attached' = attached \ (SpeakersOf(l) \ playing)
        /\ remaining' = [p \in Speaker |-> IF p \in live THEN F - take[p] ELSE remaining[p]]
        /\ IF \A p \in live : take[p] = F THEN EndRound(l) ELSE pushed' = pushed \cup {l}
    BY <1>8 DEF Phase3Push
  <2>2. SpeakersOf(l)' = live
    BY <2>1 DEF SpeakersOf
  <2>3. \A m \in Listener : m # l =>
          SpeakersOf(m)' = SpeakersOf(m) /\ Draining(m)' = Draining(m)
    BY <2>1 DEF SpeakersOf, Draining, PushInv, TypeOK
  <2>4. CASE \A p \in live : take[p] = F
    <3>1. pushed' = pushed \ {l}
      BY <2>1, <2>4 DEF EndRound
    <3>2. QED
      BY <3>1, <2>1, <2>3 DEF PushInv, PushedDrains, TypeOK
  <2>5. CASE \E p \in live : take[p] # F
    <3>1. PICK p \in live : take[p] # F
      BY <2>5
    <3>2. take[p] \in Nat /\ take[p] <= F /\ F \in Nat
      BY MixConstants DEF Least, PushInv, TypeOK, SpeakersOf
    <3>3. p \in Speaker /\ remaining'[p] = F - take[p]
      BY <2>1 DEF SpeakersOf, PushInv, TypeOK
    <3>4. p \in Draining(l)'
      BY <3>1, <3>2, <3>3, <2>2 DEF Draining
    <3>5. pushed' = pushed \cup {l}
      BY <2>1, <2>5
    <3>6. QED
      BY <3>4, <3>5, <2>1, <2>3 DEF PushInv, PushedDrains, TypeOK
  <2>6. QED
    BY <2>4, <2>5
<1>9. ASSUME \/ \E s \in Source : AddSource(s) \/ RemoveSource(s)
             \/ \E l \in Listener : AddListener(l)
             \/ \E p \in Playback : AddPlaybackToSource(p) \/ SetPlaying(p)
             \/ \E q \in Pair : SetMask(q) \/ SetRange(q) \/ Simulated(q)
             \/ \E p \in Speaker : Drain(p)
             \/ \E s \in Source : Phase2Scan(s) \/ Phase2Mix(s)
             \/ BeginCycle \/ BeginPhase2 \/ BeginPhase3 \/ EndCycle
             \/ UNCHANGED vars
      PROVE  PushedDrains'
  <2>1. /\ UNCHANGED <<attached, remaining, pushed>> /\ fresh'.out = fresh.out
        /\ pc' \in {"collect", "push"} => pc' = pc /\ cur' = cur
    BY <1>9 DEF AddSource, RemoveSource, AddListener, AddPlaybackToSource, SetPlaying, SetMask,
       SetRange, Simulated, Drain, Phase2Scan, Phase2Mix, BeginCycle, BeginPhase2, BeginPhase3,
       EndCycle, vars, PushInv, TypeOK
  <2>2. QED
    BY <2>1 DEF PushInv, PushedDrains, Draining, SpeakersOf
<1>10. QED
  BY <1>3, <1>4, <1>5, <1>6, <1>7, <1>8, <1>9
  DEF Next, ApplyPendingOps, ProcessAudio, OtherThreads

\* While no listener ever has a second playback attached, a push_buffer is handed
\* out once; the run push_twice shows what a second one may bring.
THEOREM PushedOnce == Spec /\ []OneAttached => []RoundPushedOnce
<1>1. Init => PushedDrains
  BY DEF Init, PushedDrains
<1>2. PushInv /\ OneAttached /\ OneAttached' /\ [Next]_vars => PushInv'
  BY PushStep, TypeStep, DrainStep DEF PushInv
<1>3. Init => PushInv
  BY <1>1, InitType DEF PushInv, Init, DrainBeforeCollect
<1>4. PushInv => RoundPushedOnce
  BY DEF PushInv, PushedDrains, DrainBeforeCollect, RoundPushedOnce
<1>5. QED
  BY <1>2, <1>3, <1>4, PTL DEF Spec

-----------------------------------------------------------------------------
(* Mixes.                                                                  *)

LEMMA WholeStep == TypeOK /\ WholeMix /\ [Next]_vars => WholeMix'
<1> SUFFICES ASSUME TypeOK, WholeMix, [Next]_vars PROVE WholeMix'
  OBVIOUS
<1> USE DEF mixing
<1>1. ASSUME feeding' \subseteq feeding, UNCHANGED <<mixed, ready>> PROVE WholeMix'
  BY <1>1 DEF WholeMix, StreamsOf
<1>2. ASSUME NEW p \in Playback, AddPlaybackToSource(p) PROVE WholeMix'
  <2>1. feeding' = feeding \cup {p} /\ mixed' = [mixed EXCEPT ![p] = 0] /\ ready' = ready
    BY <1>2 DEF AddPlaybackToSource
  <2>2. ASSUME NEW s \in Source, NEW q \in StreamsOf(s)' PROVE mixed'[q] = 0 \/ mixed'[q] >= ready'[s]
    BY <2>1, <2>2 DEF TypeOK, WholeMix, StreamsOf
  <2>3. QED
    BY <2>2 DEF WholeMix
<1>3. ASSUME NEW s \in Source, Phase2Mix(s) PROVE WholeMix'
  <2>1. CASE UNCHANGED <<feeding, mixed, ready>>
    BY <2>1, <1>1
  <2>2. CASE ~(ready[s] = F /\ ConsumersPending(s))
    <3> DEFINE live == StreamsOf(s) \cap playing
               have == [p \in live |-> IF ready[s] = F THEN 0 ELSE mixed[p]]
               open == {p \in live : have[p] < F}
    <3>1. PICK got \in [live -> 0..F], r \in 0..F :
            /\ Pulls(s, got)
            /\ ReadyNow(r, {have[p] + got[p] : p \in open})
            /\ feeding' = feeding \ (StreamsOf(s) \ playing)
            /\ mixed' = [p \in Playback |-> IF p \in live THEN have[p] + got[p] ELSE mixed[p]]
            /\ ready' = [ready EXCEPT ![s] = r]
      BY <1>3, <2>2 DEF Phase2Mix
    <3>2. \A p \in live : p \in Playback /\ have[p] \in 0..F /\ got[p] \in 0..F
      BY MixConstants DEF StreamsOf, TypeOK
    <3>3. ASSUME NEW p \in live PROVE have[p] + got[p] >= r
      <4>1. CASE p \in open
        BY <3>1, <4>1 DEF ReadyNow
      <4>2. CASE p \notin open
        BY <3>2, <4>2, MixConstants
      <4>3. QED
        BY <4>1, <4>2
    <3>4. ASSUME NEW p \in StreamsOf(s)' PROVE mixed'[p] >= ready'[s]
      <4>1. p \in live
        BY <3>1, <3>4 DEF StreamsOf
      <4>2. mixed'[p] = have[p] + got[p] /\ ready'[s] = r
        BY <3>1, <3>2, <4>1 DEF TypeOK
      <4>3. QED
        BY <3>3, <4>1, <4>2
    <3>5. ASSUME NEW t \in Source, t # s, NEW p \in StreamsOf(t)'
          PROVE  mixed'[p] = 0 \/ mixed'[p] >= ready'[t]
      <4>1. p \in StreamsOf(t) /\ p \notin live /\ p \in Playback
        BY <3>1, <3>5 DEF StreamsOf, TypeOK
      <4>2. mixed'[p] = mixed[p] /\ ready'[t] = ready[t]
        BY <3>1, <3>5, <4>1 DEF TypeOK
      <4>3. QED
        BY <4>1, <4>2 DEF WholeMix
    <3>6. QED
      BY <3>4, <3>5 DEF WholeMix
  <2>3. QED
    BY <1>3, <2>1, <2>2 DEF Phase2Mix
<1>4. ASSUME \/ \E s \in Source : AddSource(s) \/ RemoveSource(s) \/ Phase2Scan(s)
             \/ \E l \in Listener : AddListener(l) \/ RemoveListener(l)
             \/ \E p \in Speaker : AddPlaybackToListener(p) \/ Drain(p)
             \/ \E l \in Listener : Phase1(l) \/ Phase3Begin(l) \/ Phase3Collect(l) \/ Phase3Push(l)
             \/ BeginCycle \/ BeginPhase2 \/ BeginPhase3 \/ EndCycle
             \/ OtherThreads
             \/ UNCHANGED vars
      PROVE  WholeMix'
  <2>1. feeding' \subseteq feeding /\ UNCHANGED <<mixed, ready>>
    BY <1>4 DEF AddSource, RemoveSource, AddListener, RemoveListener, AddPlaybackToListener,
       Phase2Scan, Phase1, Phase3Begin, Phase3Collect, Phase3Push, BeginCycle, BeginPhase2,
       BeginPhase3, EndCycle, OtherThreads, SetMask, SetRange, Simulated, SetPlaying, Drain, vars
  <2>2. QED
    BY <1>1, <2>1
<1>5. QED
  BY <1>2, <1>3, <1>4 DEF Next, ApplyPendingOps, ProcessAudio

\* No stream of a source lags behind mixed_frames_ready, except one that
\* joined since.
THEOREM MixesAreWhole == Spec => []WholeMix
<1>1. Init => WholeMix
  BY DEF Init, WholeMix, StreamsOf
<1>2. QED
  BY <1>1, TypeCorrect, WholeStep, PTL DEF Spec

-----------------------------------------------------------------------------
(* The blocks of a listener.                                               *)

BlocksInv == RoundInv /\ PushInv

\* What the mapping shows of a listener's only playback, and of the others.
LEMMA MappedTo ==
  ASSUME TypeOK
  PROVE  /\ DOMAIN BlockOf = Speaker /\ DOMAIN LeftOf = Speaker
         /\ \A p \in attached : /\ p \in Speaker /\ Owner[p] \in Listener
                                /\ BlockOf[p] = pushBuffer[Owner[p]] /\ LeftOf[p] = remaining[p]
         /\ \A p \in Speaker \ attached : BlockOf[p] = Silence /\ LeftOf[p] = 0
BY MixConstants DEF TypeOK, BlockOf, LeftOf

\* A step that drops a playback clears what it had, and no other's.
LEMMA MappedStop ==
  ASSUME TypeOK, TypeOK', OneAttached, NEW p \in attached, attached' = attached \ {p},
         \A l \in Listener \ {Owner[p]} : pushBuffer'[l] = pushBuffer[l],
         \A q \in Speaker \ {p} : remaining'[q] = remaining[q],
         ring' = ring, Unplayed' = Unplayed
  PROVE  Blocks!Stop(p)
<1>1. \A q \in attached' : Owner[q] # Owner[p]
  BY DEF OneAttached
<1>2. \A q \in Speaker : /\ BlockOf'[q] = IF q = p THEN Silence ELSE BlockOf[q]
                         /\ LeftOf'[q] = IF q = p THEN 0 ELSE LeftOf[q]
  BY <1>1, MappedTo, MixConstants DEF BlockOf, LeftOf
<1>3. BlockOf' = [BlockOf EXCEPT ![p] = Silence] /\ LeftOf' = [LeftOf EXCEPT ![p] = 0]
  BY <1>2 DEF BlockOf, LeftOf
<1>4. QED
  BY <1>3 DEF Blocks!Stop, Blocks!Empty, Silence

\* A step that changes nothing of an attached playback, nor who is attached.
LEMMA MappedKept ==
  ASSUME UNCHANGED <<attached, ring, remaining>>, Unplayed' = Unplayed, TypeOK,
         \A p \in attached : pushBuffer'[Owner[p]] = pushBuffer[Owner[p]]
  PROVE  UNCHANGED Blocks!vars
<1>1. BlockOf' = BlockOf /\ LeftOf' = LeftOf
  BY DEF BlockOf, LeftOf
<1>2. QED
  BY <1>1 DEF Blocks!vars

\* The end of a push or of a drain of some n frames out of rest.
LEMMA MappedGive ==
  ASSUME TypeOK, TypeOK', OneAttached, NEW p \in attached,
         NEW rest \in Nat, NEW n \in 0..rest,
         UNCHANGED <<attached>>, Unplayed' = Unplayed,
         ring' = [ring EXCEPT ![p] = @ + n], remaining' = [remaining EXCEPT ![p] = rest - n],
         pushBuffer' = IF n = rest THEN [pushBuffer EXCEPT ![Owner[p]] = Silence] ELSE pushBuffer
  PROVE  Blocks!Give(p, rest)
<1>1. p \in Speaker /\ Owner[p] \in Listener /\ \A q \in attached \ {p} : Owner[q] # Owner[p]
  BY MappedTo DEF OneAttached
<1>2. \A q \in Speaker : LeftOf'[q] = IF q = p THEN rest - n ELSE LeftOf[q]
  BY <1>1 DEF LeftOf, TypeOK
<1>3. LeftOf' = [LeftOf EXCEPT ![p] = rest - n]
  BY <1>2 DEF LeftOf
<1>4. \A q \in Speaker : BlockOf'[q] = IF q = p /\ n = rest THEN Silence ELSE BlockOf[q]
  BY <1>1, MixConstants DEF BlockOf, TypeOK
<1>5. BlockOf' = IF n = rest THEN [BlockOf EXCEPT ![p] = Silence] ELSE BlockOf
  BY <1>4 DEF BlockOf
<1>6. ring[p] + n <= Cap
  BY <1>1, MixConstants DEF TypeOK
<1>7. QED
  BY <1>3, <1>5, <1>6 DEF Blocks!Give, Blocks!Empty, Silence

\* With one playback attached, the steps of a listener are those of BlockStream.
LEMMA ListenerBlocks ==
  ASSUME BlocksInv, TypeOK', OneAttached, NEW p \in attached, NEW l \in Listener, Owner[p] = l,
         Phase1(l) \/ Phase3Begin(l) \/ Phase3Collect(l) \/ Phase3Push(l)
  PROVE  \/ Blocks!Stop(p) \/ Blocks!GiveUp(p) \/ Blocks!Continue(p)
         \/ Blocks!HandOut(p) \/ Blocks!Collect(p) \/ UNCHANGED Blocks!vars
<1> USE DEF world, rounds, mixing, output
<1>1. TypeOK /\ RoundInv /\ F \in Nat \ {0}
  BY MixConstants DEF BlocksInv, RoundInv
<1>2. p \in Speaker /\ SpeakersOf(l) = {p} /\ remaining[p] \in 0..F /\ ring[p] \in 0..Cap
  BY <1>1 DEF SpeakersOf, OneAttached, TypeOK
<1>3. BlockOf[p] = pushBuffer[l] /\ LeftOf[p] = remaining[p]
  BY <1>1, MappedTo
<1>4. Unplayed' = Unplayed
  BY DEF Unplayed, Phase1, Phase3Begin, Phase3Collect, Phase3Push
<1>5. Draining(l) = IF remaining[p] > 0 THEN {p} ELSE {}
  BY <1>2 DEF Draining
<1>6. ASSUME Phase1(l)
      PROVE  Blocks!Stop(p) \/ Blocks!GiveUp(p) \/ Blocks!Continue(p) \/ UNCHANGED Blocks!vars
  <2>1. CASE Draining(l) = {}
    BY <1>1, <1>4, <1>6, <2>1, MappedKept DEF Phase1
  <2>2. CASE Draining(l) # {} /\ p \notin playing
    <3>1. attached' = attached \ {p} /\ EndRound(l)
      BY <1>2, <1>6, <2>2 DEF Phase1
    <3>2. \A m \in Listener \ {l} : pushBuffer'[m] = pushBuffer[m]
      BY <1>1, <3>1 DEF EndRound, TypeOK
    <3>3. remaining' = remaining /\ ring' = ring
      BY <1>1, <1>2, <1>6, <2>2 DEF Phase1, TypeOK
    <3>4. Blocks!Stop(p)
      BY <1>1, <1>4, <3>1, <3>2, <3>3, MappedStop
    <3>5. QED
      BY <3>4
  <2>3. CASE Draining(l) # {} /\ p \in playing
    <3> DEFINE n == Takes(p)
               rest == IF Discards(p) THEN 0 ELSE remaining[p] - n
    <3>1. n \in 0..remaining[p] /\ n = Least(remaining[p], Cap - ring[p]) /\ remaining[p] > 0
      BY <1>1, <1>2, <1>5, <2>3, MixConstants DEF Takes, Least
    <3> HIDE DEF n
    <3>2. /\ attached' = attached
          /\ ring' = [ring EXCEPT ![p] = @ + n]
          /\ remaining' = [remaining EXCEPT ![p] = rest]
          /\ IF rest = 0 THEN EndRound(l) ELSE UNCHANGED rounds
      <4>1. SpeakersOf(l) \cap playing = {p}
        BY <1>2, <2>3
      <4>2. /\ attached' = attached \ ({p} \ playing)
            /\ remaining' = [q \in Speaker |->
                               IF q \notin {p} THEN remaining[q]
                               ELSE IF Discards(q) THEN 0 ELSE remaining[q] - Takes(q)]
            /\ ring' = [q \in Speaker |-> IF q \in {p} THEN ring[q] + Takes(q) ELSE ring[q]]
            /\ IF remaining'[p] = 0 THEN EndRound(l) ELSE UNCHANGED rounds
        BY <1>2, <1>6, <2>3, <4>1 DEF Phase1
      <4>3. remaining'[p] = rest
        BY <1>2, <4>2 DEF n
      <4>4. attached' = attached
        BY <2>3, <4>2
      <4>5. \A q \in Speaker : ring'[q] = IF q = p THEN ring[p] + n ELSE ring[q]
        BY <4>2 DEF n
      <4>6. \A q \in Speaker : remaining'[q] = IF q = p THEN rest ELSE remaining[q]
        <5> HIDE DEF rest
        <5>1. QED
          BY <4>2, <4>3
      <4>7. ring' = [ring EXCEPT ![p] = @ + n] /\ remaining' = [remaining EXCEPT ![p] = rest]
        <5> HIDE DEF rest
        <5>1. QED
          BY <1>1, <4>2, <4>5, <4>6 DEF TypeOK
      <4>8. QED
        BY <4>2, <4>3, <4>4, <4>7
    <3>3. pushBuffer' = IF rest = 0 THEN [pushBuffer EXCEPT ![l] = Silence] ELSE pushBuffer
      BY <3>2 DEF EndRound
    <3>4. CASE Discards(p)
      <4>1. n = 0 /\ ring' = ring
        BY <1>1, <1>2, <3>1, <3>2, <3>4 DEF Discards, Least, TypeOK
      <4>2. p \in Unplayed /\ ring[p] = Cap
        BY <3>4 DEF Discards, Unplayed
      <4>3. LeftOf' = [LeftOf EXCEPT ![p] = 0]
        BY <1>1, <1>2, <3>2, <3>4 DEF LeftOf, TypeOK
      <4>4. \A q \in Speaker : BlockOf'[q] = IF q = p THEN Silence ELSE BlockOf[q]
        BY <1>1, <1>2, <3>2, <3>3, <3>4, MixConstants DEF BlockOf, SpeakersOf, TypeOK
      <4>5. BlockOf' = [BlockOf EXCEPT ![p] = Silence]
        BY <4>4 DEF BlockOf
      <4>6. Blocks!GiveUp(p)
        BY <1>3, <1>4, <3>1, <3>2, <4>1, <4>2, <4>3, <4>5 DEF Blocks!GiveUp, Blocks!Empty, Silence
      <4>7. QED
        BY <4>6
    <3>5. CASE ~Discards(p)
      <4>1. rest = remaining[p] - n /\ (rest = 0 <=> n = remaining[p])
        BY <1>2, <3>1, <3>5
      <4>2. pushBuffer' = IF n = remaining[p] THEN [pushBuffer EXCEPT ![Owner[p]] = Silence]
                          ELSE pushBuffer
        BY <3>3, <4>1
      <4>3. remaining[p] \in Nat /\ remaining' = [remaining EXCEPT ![p] = remaining[p] - n]
        <5> HIDE DEF rest
        <5>1. QED
          BY <1>2, <3>2, <4>1
      <4> HIDE DEF rest
      <4>4. Blocks!Give(p, remaining[p])
        BY <1>1, <1>4, <3>1, <3>2, <4>2, <4>3, MappedGive
      <4>5. Blocks!Continue(p)
        BY <1>3, <3>1, <4>4 DEF Blocks!Continue
      <4>6. QED
        BY <4>5
    <3>6. QED
      BY <3>4, <3>5
  <2>4. QED
    BY <2>1, <2>2, <2>3
<1>7. ASSUME Phase3Begin(l) PROVE Blocks!Stop(p) \/ UNCHANGED Blocks!vars
  <2>1. attached' = attached \ ({p} \ playing) /\ UNCHANGED <<ring, remaining, pushBuffer>>
    BY <1>2, <1>7 DEF Phase3Begin
  <2>2. CASE p \in playing
    BY <1>1, <1>4, <2>1, <2>2, MappedKept
  <2>3. CASE p \notin playing
    <3>1. attached' = attached \ {p}
      BY <2>1, <2>3
    <3>2. Blocks!Stop(p)
      BY <1>1, <1>4, <2>1, <3>1, MappedStop
    <3>3. QED
      BY <3>2
  <2>4. QED
    BY <2>2, <2>3
<1>8. ASSUME Phase3Collect(l) \/ Phase3Push(l) PROVE remaining[p] = 0
  <2>1. pc \in {"collect", "push"} /\ cur = l
    BY <1>8 DEF Phase3Collect, Phase3Push
  <2>2. QED
    BY <1>2, <1>5, <2>1 DEF BlocksInv, PushInv, DrainBeforeCollect
<1>9. ASSUME Phase3Collect(l) PROVE Blocks!Collect(p)
  <2>1. /\ pushBuffer' = [pushBuffer EXCEPT ![l] = Plus(@, Complete(l))]
        /\ UNCHANGED <<attached, ring, remaining>>
    BY <1>9 DEF Phase3Collect
  <2>2. pushBuffer'[l] = Plus(pushBuffer[l], Complete(l))
        /\ \A m \in Listener \ {l} : pushBuffer'[m] = pushBuffer[m]
    BY <1>1, <2>1 DEF TypeOK
  <2>3. Complete(l) \in SUBSET {s \in Source : pushBuffer[l][s] = 0}
    BY <1>1, CollectsNew
  <2>4. Plus(pushBuffer[l], Complete(l))
          = [s \in Source |-> IF s \in Complete(l) THEN 1 ELSE pushBuffer[l][s]]
    BY <2>3 DEF Plus, Least, Often
  <2>5. \A q \in Speaker \ {p} : BlockOf'[q] = BlockOf[q]
    BY <1>2, <2>1, <2>2, MixConstants DEF BlockOf, SpeakersOf
  <2>6. BlockOf'[p] = [s \in Source |-> IF s \in Complete(l) THEN 1 ELSE BlockOf[p][s]]
    BY <1>2, <1>3, <2>1, <2>2, <2>4 DEF BlockOf
  <2>7. BlockOf' = [BlockOf EXCEPT
                      ![p] = [s \in Source |-> IF s \in Complete(l) THEN 1 ELSE @[s]]]
    BY <2>5, <2>6 DEF BlockOf
  <2>8. LeftOf' = LeftOf
    BY <2>1 DEF LeftOf
  <2>9. QED
    BY <1>3, <1>4, <1>8, <1>9, <2>1, <2>3, <2>7, <2>8 DEF Blocks!Collect
<1>10. ASSUME Phase3Push(l) PROVE Blocks!Stop(p) \/ Blocks!HandOut(p)
  <2>1. CASE p \in playing
    <3> DEFINE n == Least(F, Cap - ring[p])
    <3>1. n \in 0..F
      BY <1>1, <1>2, MixConstants DEF Least
    <3> HIDE DEF n
    <3>2. /\ attached' = attached
          /\ ring' = [ring EXCEPT ![p] = @ + n]
          /\ remaining' = [remaining EXCEPT ![p] = F - n]
          /\ IF n = F THEN EndRound(l) ELSE UNCHANGED pushBuffer
      <4>1. SpeakersOf(l) \cap playing = {p}
        BY <1>2, <2>1
      <4>2. /\ attached' = attached \ ({p} \ playing)
            /\ remaining' = [q \in Speaker |->
                               IF q \in {p} THEN F - Least(F, Cap - ring[q]) ELSE remaining[q]]
            /\ ring' = [q \in Speaker |->
                          IF q \in {p} THEN ring[q] + Least(F, Cap - ring[q]) ELSE ring[q]]
            /\ IF n = F THEN EndRound(l) ELSE UNCHANGED pushBuffer
        BY <1>2, <1>10, <4>1 DEF Phase3Push, n
      <4>3. attached' = attached
        BY <2>1, <4>2
      <4>4. \A q \in Speaker : /\ ring'[q] = IF q = p THEN ring[p] + n ELSE ring[q]
                               /\ remaining'[q] = IF q = p THEN F - n ELSE remaining[q]
        BY <4>2 DEF n
      <4>5. ring' = [ring EXCEPT ![p] = @ + n] /\ remaining' = [remaining EXCEPT ![p] = F - n]
        BY <1>1, <4>2, <4>4 DEF TypeOK
      <4>6. QED
        BY <4>2, <4>3, <4>5
    <3>3. pushBuffer' = IF n = F THEN [pushBuffer EXCEPT ![Owner[p]] = Silence] ELSE pushBuffer
      BY <3>2 DEF EndRound
    <3>4. Blocks!Give(p, F)
      BY <1>1, <1>4, <3>1, <3>2, <3>3, MappedGive
    <3>5. QED
      BY <1>3, <1>8, <1>10, <3>4 DEF Blocks!HandOut
  <2>2. CASE p \notin playing
    <3>1. attached' = attached \ {p} /\ EndRound(l)
      BY <1>2, <1>10, <2>2 DEF Phase3Push
    <3>2. \A m \in Listener \ {l} : pushBuffer'[m] = pushBuffer[m]
      BY <1>1, <3>1 DEF EndRound, TypeOK
    <3>3. remaining' = remaining /\ ring' = ring
      BY <1>1, <1>2, <1>10, <2>2 DEF Phase3Push, TypeOK
    <3>4. QED
      BY <1>1, <1>4, <3>1, <3>2, <3>3, MappedStop
  <2>3. QED
    BY <2>1, <2>2
<1>11. QED
  BY <1>6, <1>7, <1>9, <1>10

\* Whoever mixes a source takes frames out of the rings it plays.
LEMMA RingsDrain ==
  ASSUME TypeOK, NEW s \in Source, Phase2Mix(s)
  PROVE  \A p \in Speaker : ring'[p] <= ring[p]
<1> SUFFICES ASSUME NEW p \in Speaker PROVE ring'[p] <= ring[p]
  OBVIOUS
<1> DEFINE live == StreamsOf(s) \cap playing
<1>1. ring[p] \in 0..Cap /\ live \subseteq Playback
  BY DEF TypeOK, StreamsOf
<1>2. CASE ring' = ring
  BY <1>1, <1>2, MixConstants
<1>3. CASE ~(ring' = ring)
  <2>1. PICK got \in [live -> 0..F] :
          ring'[p] \in {ring[p], 0} \/ (p \in live /\ ring'[p] = ring[p] - Least(ring[p], got[p]))
    BY <1>3 DEF Phase2Mix
  <2>2. CASE p \in live
    <3>1. got[p] \in 0..F
      BY <2>2
    <3>2. QED
      BY <1>1, <2>1, <3>1, MixConstants DEF Least
  <2>3. QED
    BY <1>1, <2>1, <2>2, MixConstants
<1>4. QED
  BY <1>2, <1>3

LEMMA BlocksStep ==
  ASSUME BlocksInv, BlocksInv', OneAttached, OneAttached', [Next]_vars
  PROVE  Blocks!Next \/ UNCHANGED Blocks!vars
<1> USE DEF world, setting, rounds, mixing, output, thread
<1>1. TypeOK /\ TypeOK'
  BY DEF BlocksInv, RoundInv
<1>2. ASSUME NEW l \in Listener, RemoveListener(l) PROVE Blocks!Next \/ UNCHANGED Blocks!vars
  <2>1. /\ attached' = attached \ SpeakersOf(l) /\ UNCHANGED <<ring, remaining>>
        /\ Unplayed' = Unplayed /\ pushBuffer' = [pushBuffer EXCEPT ![l] = Silence]
    BY <1>2 DEF RemoveListener, Unplayed
  <2>2. \A m \in Listener \ {l} : pushBuffer'[m] = pushBuffer[m]
    BY <1>1, <2>1 DEF TypeOK
  <2>3. CASE SpeakersOf(l) = {}
    <3>1. \A p \in attached : pushBuffer'[Owner[p]] = pushBuffer[Owner[p]]
      BY <1>1, <2>2, <2>3, MappedTo DEF SpeakersOf
    <3>2. QED
      BY <1>1, <2>1, <2>3, <3>1, MappedKept
  <2>4. ASSUME NEW p \in SpeakersOf(l) PROVE Blocks!Next
    <3>1. p \in attached /\ Owner[p] = l /\ SpeakersOf(l) = {p}
      BY DEF SpeakersOf, OneAttached
    <3>2. Blocks!Stop(p)
      BY <1>1, <2>1, <2>2, <3>1, MappedStop
    <3>3. QED
      BY <1>1, <3>1, <3>2 DEF Blocks!Next, TypeOK
  <2>5. QED
    BY <2>3, <2>4
<1>3. ASSUME NEW p \in Speaker, AddPlaybackToListener(p) PROVE Blocks!Next
  <2>1. /\ attached' = attached \cup {p} /\ p \notin attached /\ Owner[p] \in Listener
        /\ remaining' = [remaining EXCEPT ![p] = 0] /\ ring' = ring
    BY <1>3, MixConstants DEF AddPlaybackToListener, BlocksInv, PushInv, PushedDrains
  <2>2. SpeakersOf(Owner[p]) = {}
    BY <2>1 DEF SpeakersOf, OneAttached
  <2>3. pushBuffer' = [pushBuffer EXCEPT ![Owner[p]] = Silence]
    BY <1>3, <2>2 DEF AddPlaybackToListener, EndRound
  <2>4. \A q \in attached : /\ pushBuffer'[Owner[q]] = pushBuffer[Owner[q]]
                           /\ remaining'[q] = remaining[q]
    BY <1>1, <2>1, <2>2, <2>3, MappedTo DEF SpeakersOf, TypeOK
  <2>5. pushBuffer'[Owner[p]] = Silence /\ remaining'[p] = 0
    BY <1>1, <2>1, <2>3 DEF TypeOK
  <2>6. BlockOf' = BlockOf /\ LeftOf' = LeftOf
    BY <2>1, <2>4, <2>5 DEF BlockOf, LeftOf
  <2>7. Unplayed' \in SUBSET Speaker
    BY <1>1 DEF Unplayed, TypeOK
  <2>8. Blocks!Start(p)
    BY <2>1, <2>6, <2>7 DEF Blocks!Start
  <2>9. QED
    BY <2>8 DEF Blocks!Next
<1>4. ASSUME NEW l \in Listener, Phase1(l) \/ Phase3Begin(l) \/ Phase3Collect(l) \/ Phase3Push(l)
      PROVE  Blocks!Next \/ UNCHANGED Blocks!vars
  <2>1. ASSUME NEW p \in SpeakersOf(l) PROVE Blocks!Next \/ UNCHANGED Blocks!vars
    <3>1. p \in attached /\ p \in Speaker /\ Owner[p] = l
      BY <1>1 DEF SpeakersOf, TypeOK
    <3>2. QED
      BY <1>1, <1>4, <3>1, ListenerBlocks DEF Blocks!Next
  <2>2. CASE SpeakersOf(l) = {}
    <3>1. ~Phase3Collect(l) /\ ~Phase3Push(l)
      BY <2>2 DEF Phase3Collect, Phase3Push, BlocksInv, PushInv, PushedDrains
    <3>2. UNCHANGED <<attached, ring, remaining, pushBuffer>> /\ Unplayed' = Unplayed
      BY <1>4, <2>2, <3>1 DEF Phase1, Phase3Begin, Draining, Unplayed
    <3>3. QED
      BY <1>1, <3>2, MappedKept
  <2>3. QED
    BY <2>1, <2>2
<1>5. ASSUME UNCHANGED <<attached, pushBuffer, remaining>>, ring' = ring \/ Unplayed' = Unplayed,
             \A p \in Speaker : ring'[p] <= ring[p]
      PROVE  Blocks!Next
  <2>1. BlockOf' = BlockOf /\ LeftOf' = LeftOf
    BY <1>5 DEF BlockOf, LeftOf
  <2>2. Unplayed' \in SUBSET Speaker /\ ring' \in [Speaker -> 0..Cap]
    BY <1>1 DEF Unplayed, TypeOK
  <2>3. CASE ring' = ring
    BY <1>5, <2>1, <2>2, <2>3 DEF Blocks!Next, Blocks!Idle
  <2>4. CASE Unplayed' = Unplayed
    BY <1>5, <2>1, <2>2, <2>4 DEF Blocks!Next, Blocks!Play
  <2>5. QED
    BY <1>5, <2>3, <2>4
<1>6. ASSUME \/ \E s \in Source : AddSource(s) \/ RemoveSource(s) \/ Phase2Scan(s) \/ Phase2Mix(s)
             \/ \E l \in Listener : AddListener(l)
             \/ \E p \in Playback : AddPlaybackToSource(p)
             \/ BeginCycle \/ BeginPhase2 \/ BeginPhase3 \/ EndCycle
             \/ OtherThreads \/ UNCHANGED vars
      PROVE  Blocks!Next
  <2>1. /\ UNCHANGED <<attached, pushBuffer, remaining>>
        /\ ring' = ring \/ UNCHANGED <<viaSource, sources, skipping>>
    BY <1>6 DEF AddSource, RemoveSource, AddListener, AddPlaybackToSource, Phase2Scan, Phase2Mix,
       BeginCycle, BeginPhase2, BeginPhase3, EndCycle, OtherThreads, SetMask, SetRange, Simulated,
       SetPlaying, Drain, vars
  <2>2. \A p \in Speaker : ring'[p] <= ring[p]
    <3>1. ASSUME NEW s \in Source, Phase2Mix(s) PROVE \A p \in Speaker : ring'[p] <= ring[p]
      BY <1>1, <3>1, RingsDrain
    <3>2. ASSUME NEW q \in Speaker, Drain(q) PROVE \A p \in Speaker : ring'[p] <= ring[p]
      <4>1. \/ ring' = [ring EXCEPT ![q] = 0]
            \/ \E n \in 1..ring[q] : ring' = [ring EXCEPT ![q] = @ - n]
        BY <3>2 DEF Drain
      <4>2. \A p \in Speaker : ring[p] \in 0..Cap
        BY <1>1 DEF TypeOK
      <4>3. \A p \in Speaker : \/ ring'[p] \in {ring[p], 0}
                               \/ \E n \in 1..ring[p] : ring'[p] = ring[p] - n
        BY <1>1, <4>1 DEF TypeOK
      <4>4. QED
        BY <4>2, <4>3, MixConstants
    <3>3. CASE ring' = ring
      BY <1>1, <3>3, MixConstants DEF TypeOK
    <3>4. ring' = ring \/ (\E s \in Source : Phase2Mix(s)) \/ (\E q \in Speaker : Drain(q))
      BY <1>6 DEF AddSource, RemoveSource, AddListener, AddPlaybackToSource, Phase2Scan,
         BeginCycle, BeginPhase2, BeginPhase3, EndCycle, OtherThreads, SetMask, SetRange, Simulated,
         SetPlaying, vars
    <3>5. QED
      BY <3>1, <3>2, <3>3, <3>4
  <2>3. QED
    BY <1>5, <2>1, <2>2 DEF Unplayed
<1>7. QED
  BY <1>2, <1>3, <1>4, <1>6 DEF Next, ApplyPendingOps, ProcessAudio

LEMMA BlocksInvStep ==
  BlocksInv /\ OneAttached /\ OneAttached' /\ [Next]_vars => BlocksInv'
BY TypeStep, RoundStep, PushStep, DrainStep DEF BlocksInv, RoundInv, PushInv

LEMMA BlocksRefined ==
  BlocksInv /\ OneAttached /\ OneAttached' /\ [Next]_vars => [Blocks!Next]_(Blocks!vars)
BY BlocksInvStep, BlocksStep

\* While no listener has a second playback attached, a playback is given its
\* blocks as BlockStream promises: with one mix of a source at most, handed out
\* once, all frames of it one after the other before the next, or given up only
\* when its full ring is played by nobody.
THEOREM BlocksAreKept == Spec /\ []OneAttached => KeepsBlocks
<1>1. Init => BlocksInv
  BY InitType DEF Init, BlocksInv, RoundInv, RoundSound, BufferKnown, Silence, PushInv,
     PushedDrains, DrainBeforeCollect
<1>2. Init => Blocks!Init
  BY DEF Init, Blocks!Init, Blocks!Empty, Unplayed, BlockOf, LeftOf, Silence
<1>3. QED
  BY <1>1, <1>2, BlocksInvStep, BlocksRefined, PTL DEF Spec, KeepsBlocks, Blocks!Spec

=============================================================================
