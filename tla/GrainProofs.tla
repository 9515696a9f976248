---------------------------- MODULE GrainProofs ----------------------------
(***************************************************************************)
(* Every grain that may be chosen lies in the buffer, the mixer reads each *)
(* between its ends, and none comes back too soon, for every length of the *)
(* buffer, sizes of the grains, window and number of remembered grains.    *)
(***************************************************************************)
EXTENDS GrainSweep, TLAPS

-----------------------------------------------------------------------------
(* Arithmetic                                                              *)

LEMMA Quotient ==
  ASSUME NEW x \in Nat, NEW y \in Nat \ {0}
  PROVE  x \div y \in Nat /\ y * (x \div y) <= x /\ x < y * (x \div y) + y
OBVIOUS

LEMMA TimesMonotone ==
  ASSUME NEW x \in Nat, NEW y \in Nat, NEW z \in Nat, x <= y
  PROVE  z * x <= z * y
OBVIOUS

LEMMA TimesReflects ==
  ASSUME NEW x \in Int, NEW y \in Int, NEW z \in Nat \ {0}, z * x <= z * y
  PROVE  x <= y
OBVIOUS

LEMMA ConstantsType ==
  /\ Span \in Nat \ {0} /\ Slack \in Nat \ {0} /\ SizeStep \in Nat
  /\ MinSize \in Nat \ {0} /\ MaxSize - MinSize \in Nat
  /\ Slack + Span = 2 * Samples
<1>1. Span \in Nat \ {0} /\ Slack \in Nat \ {0} /\ MinSize \in Nat \ {0}
      /\ MaxSize - MinSize \in Nat /\ Slack + Span = 2 * Samples
  BY GrainConstants DEF Span, Slack
<1>2. SizeStep \in Nat
  BY <1>1 DEF SizeStep
<1> QED BY <1>1, <1>2

\* get_grain_start_index() and get_grain_size(): a grain the search accepts is no
\* shorter than the first one and ends in the buffer.
LEMMA GrainFits ==
  ASSUME NEW g \in Nat, ~PastLast(g)
  PROVE  /\ GrainStart(g) \in Nat /\ GrainSize(g) \in Nat
         /\ MinSize <= GrainSize(g)
         /\ GrainStart(g) + GrainSize(g) <= Samples
<1> DEFINE b == Slack
           a == SizeStep
           m == MinSize
           x == a * (g * (g - 1)) + 2 * m * b * g
           y == m * b + g * a
           q == x \div (2 * b)
           r == y \div b
<1>0. /\ b \in Nat \ {0} /\ 2 * b \in Nat \ {0} /\ a \in Nat /\ m \in Nat \ {0}
      /\ Samples \in Nat
  BY ConstantsType, GrainConstants
<1>1. y \in Nat /\ m * b <= y
  <2>1. m * b \in Nat /\ g * a \in Nat
    BY <1>0
  <2> QED BY <2>1
<1>2. x \in Nat
  <2>1. g * (g - 1) \in Nat
    BY SMT
  <2>2. a * (g * (g - 1)) \in Nat
    BY <1>0, <2>1
  <2>3. 2 * m * b * g \in Nat
    BY <1>0
  <2> QED BY <2>2, <2>3
<1> HIDE DEF b, a, m
<1>3. q \in Nat /\ (2 * b) * q <= x
  <2> HIDE DEF x
  <2> QED BY <1>0, <1>2, Quotient
<1>4. r \in Nat /\ b * r <= y /\ y < b * r + b
  <2> HIDE DEF y
  <2> QED BY <1>0, <1>1, Quotient
<1> HIDE DEF q, r
<1>5. m <= r
  <2>1. b * m < b * r + b
    BY <1>0, <1>1, <1>4
  <2>2. b * m < b * (r + 1)
    BY <1>0, <1>4, <2>1
  <2> SUFFICES ASSUME r + 1 <= m PROVE FALSE
    BY <1>0, <1>4
  <2>3. b * (r + 1) <= b * m
    BY <1>0, <1>4, TimesMonotone
  <2> QED BY <1>0, <1>4, <2>2, <2>3
<1>6. x + 2 * y = (g + 1) * (a * g + 2 * m * b)
  BY <1>0
<1>7. a * g + 2 * m * b <= Span * b
  <2>0. Span \in Nat /\ MaxSize - MinSize \in Nat
    BY ConstantsType
  <2>1. g * Span \in Nat /\ g * Span <= b
    BY <1>0, <2>0 DEF PastLast, b
  <2>2. (MaxSize - MinSize) * (g * Span) <= (MaxSize - MinSize) * b
    BY <1>0, <2>0, <2>1, TimesMonotone
  <2>3. a * g = (MaxSize - MinSize) * (g * Span)
    BY <2>0, GrainConstants DEF a, SizeStep, Span
  <2>4. (MaxSize - MinSize) * b + 2 * m * b = Span * b
    BY <1>0, GrainConstants DEF Span, m
  <2>5. a * g \in Int /\ 2 * m * b \in Int /\ (MaxSize - MinSize) * b \in Int
    BY <1>0, <2>0
  <2> QED BY <2>2, <2>3, <2>4, <2>5
<1>8. (g + 1) * Span <= 2 * Samples
  BY ConstantsType, GrainConstants DEF PastLast
<1>9. (2 * b) * (q + r) <= (2 * b) * Samples
  <2>0. Span \in Nat
    BY ConstantsType
  <2>1. (2 * b) * (q + r) <= x + 2 * y
    BY <1>0, <1>1, <1>2, <1>3, <1>4
  <2>2. (g + 1) * (a * g + 2 * m * b) <= (g + 1) * (Span * b)
    <3>1. a * g + 2 * m * b \in Nat /\ Span * b \in Nat /\ g + 1 \in Nat
      BY <1>0, <2>0
    <3> QED BY <1>7, <3>1, TimesMonotone
  <2>3. b * ((g + 1) * Span) <= b * (2 * Samples)
    <3>1. (g + 1) * Span \in Nat /\ 2 * Samples \in Nat
      BY <1>0, <2>0
    <3> QED BY <1>0, <1>8, <3>1, TimesMonotone
  <2>4. (g + 1) * (Span * b) = b * ((g + 1) * Span) /\ b * (2 * Samples) = (2 * b) * Samples
    BY <1>0, <2>0
  <2>5. (2 * b) * (q + r) \in Int /\ (g + 1) * (a * g + 2 * m * b) \in Int
        /\ (g + 1) * (Span * b) \in Int /\ (2 * b) * Samples \in Int
    BY <1>0, <1>3, <1>4, <2>0
  <2> QED BY <1>6, <2>1, <2>2, <2>3, <2>4, <2>5
<1>10. q + r <= Samples
  BY <1>0, <1>3, <1>4, <1>9, TimesReflects
<1>11. q = GrainStart(g) /\ r = GrainSize(g)
  BY DEF q, r, x, y, a, b, m, GrainStart, GrainSize
<1> QED BY <1>3, <1>4, <1>5, <1>10, <1>11 DEF m

-----------------------------------------------------------------------------
(* The invariant: where the two grains are in their lives.                 *)

Grains == [number : Nat, start : Nat, size : Nat, elapsed : Nat]

Fits(grain) ==
  /\ grain \in Grains
  /\ MinSize <= grain.size /\ grain.start + grain.size <= Samples

Playing == Fits(current) /\ current.elapsed < current.size

\* The next grain runs along from the second frame of the window on.
NextRuns ==
  /\ Fits(next)
  /\ next.elapsed = IF Remaining = Window THEN 0 ELSE Window - 1 - Remaining

StateInv ==
  /\ pc \in {"search", "frame", "read"}
  /\ played \in [1..Repeats -> Nat] /\ wanted \in Nat

FadeInv ==
  /\ pc = "search" => current = NoGrain \/ (Playing /\ Remaining = Window)
  /\ pc \in {"frame", "read"} => Playing
  /\ pc = "frame" /\ Remaining < Window => NextRuns
  /\ pc = "read" /\ Remaining <= Window => NextRuns

GrainInv == StateInv /\ FadeInv /\ NoRepeat

LEMMA InitInv == Init => GrainInv
<1> SUFFICES ASSUME Init PROVE GrainInv
  OBVIOUS
<1>1. Pickable \subseteq Nat
  BY DEF Pickable
<1>2. StateInv
  BY <1>1 DEF Init, StateInv
<1>3. FadeInv
  BY DEF Init, FadeInv
<1>4. NoRepeat
  BY DEF Init, NoRepeat
<1> QED BY <1>2, <1>3, <1>4 DEF GrainInv

LEMMA SpawnedFits ==
  ASSUME NEW g \in Nat, ~PastLast(g)
  PROVE  Fits(Grain(g)) /\ Grain(g).elapsed = 0 /\ Grain(g).size = GrainSize(g)
BY GrainFits DEF Fits, Grain, Grains

\* The search gives a number that may be looked at again.
LEMMA StateStep == GrainInv /\ [Next]_vars => StateInv'
<1> SUFFICES ASSUME GrainInv, [Next]_vars PROVE StateInv'
  OBVIOUS
<1> USE DEF GrainInv, StateInv
<1>0. Pickable \subseteq Nat
  BY DEF Pickable
<1>1. CASE LowerWanted
  <2>1. wanted # 0
    BY <1>1, ConstantsType DEF LowerWanted, PastLast
  <2> QED BY <1>1, <2>1 DEF LowerWanted
<1>2. ASSUME NEW g \in Pickable, NEW d \in Jitters, JitterWanted(g, d) PROVE StateInv'
  BY <1>0, <1>2 DEF JitterWanted, Jittered, Jitters
<1>3. CASE Spawn
  <2>1. played' \in [1..Repeats -> Nat]
    BY <1>3, GrainConstants DEF Spawn, Shifted
  <2> QED BY <1>3, <2>1 DEF Spawn
<1>4. CASE StartFrame
  BY <1>0, <1>4 DEF StartFrame
<1>5. CASE ReadFrame
  BY <1>5 DEF ReadFrame
<1>6. CASE UNCHANGED vars
  BY <1>6 DEF vars
<1> QED BY <1>1, <1>2, <1>3, <1>4, <1>5, <1>6 DEF Next

\* The read is where the grains move on: the current one by a sample, the next
\* one with it once the fade has begun, and the next takes over at the end.
LEMMA ReadFades == GrainInv /\ ReadFrame => FadeInv'
<1> SUFFICES ASSUME GrainInv, ReadFrame PROVE FadeInv'
  OBVIOUS
<1>0. /\ pc = "read" /\ pc' = "frame" /\ Playing /\ Remaining = current.size - current.elapsed
      /\ Window \in Nat \ {0} /\ 2 * Window - 1 <= MinSize /\ MinSize \in Nat
      /\ next' = NextAfter
  BY GrainConstants DEF GrainInv, FadeInv, ReadFrame, Remaining
<1>1. /\ current \in Grains /\ current.size \in Nat /\ current.elapsed \in Nat
      /\ Remaining \in Nat \ {0} /\ MinSize <= current.size
  BY <1>0 DEF Playing, Fits, Grains
<1>2. Remaining <= Window => NextRuns /\ next \in Grains /\ next.elapsed \in Nat
  BY <1>0 DEF GrainInv, FadeInv, NextRuns, Fits, Grains
<1>3. ASSUME NEW grain \in Grains
      PROVE  /\ Advanced(grain) \in Grains /\ Advanced(grain).size = grain.size
             /\ Advanced(grain).start = grain.start
             /\ Advanced(grain).elapsed = grain.elapsed + 1
  BY DEF Advanced, Grains
<1>4. CASE Remaining = 1
  <2>1. current' = NextAfter
    BY <1>0, <1>1, <1>4 DEF ReadFrame
  <2>2. NextRuns /\ next \in Grains
    BY <1>0, <1>2, <1>4
  <2>3. CASE Window = 1
    <3>1. current' = next /\ next.elapsed = 0
      BY <1>0, <1>4, <2>1, <2>2, <2>3 DEF NextAfter, Fading, NextRuns
    <3>2. Fits(current') /\ current'.elapsed = 0 /\ current'.size \in Nat /\ MinSize <= current'.size
      BY <2>2, <3>1 DEF NextRuns, Fits, Grains
    <3>3. Playing' /\ Remaining' >= Window
      BY <1>0, <2>3, <3>2 DEF Playing, Remaining, Fits
    <3>4. ~(Remaining' < Window)
      BY <1>0, <3>2, <3>3 DEF Remaining
    <3> QED BY <1>0, <3>3, <3>4 DEF FadeInv
  <2>4. CASE Window > 1
    <3>1. current' = Advanced(next) /\ next.elapsed = Window - 2
      BY <1>0, <1>4, <2>1, <2>2, <2>4 DEF NextAfter, Fading, NextRuns
    <3>2. /\ current' \in Grains /\ current'.size = next.size
          /\ current'.start = next.start /\ current'.elapsed = Window - 1
      BY <1>0, <1>3, <2>2, <3>1
    <3>3. /\ next.size \in Nat /\ MinSize <= next.size /\ next.start + next.size <= Samples
      BY <2>2 DEF NextRuns, Fits, Grains
    <3>4. Playing'
      BY <1>0, <3>2, <3>3 DEF Playing, Fits
    <3>5. ~(Remaining' < Window)
      BY <1>0, <3>2, <3>3 DEF Remaining
    <3> QED BY <1>0, <3>4, <3>5 DEF FadeInv
  <2> QED BY <1>0, <2>3, <2>4
<1>5. CASE Remaining > 1
  <2>1. current' = Advanced(current)
    BY <1>0, <1>1, <1>5 DEF ReadFrame
  <2>2. /\ current' \in Grains /\ current'.size = current.size
        /\ current'.start = current.start /\ current'.elapsed = current.elapsed + 1
    BY <1>1, <1>3, <2>1
  <2>3. Playing'
    BY <1>0, <1>1, <1>5, <2>2 DEF Playing, Fits
  <2>4. Remaining' = Remaining - 1
    BY <1>1, <2>2 DEF Remaining
  <2>5. ASSUME Remaining' < Window PROVE NextRuns'
    <3>1. NextRuns /\ next \in Grains /\ next.elapsed \in Nat
      BY <1>0, <1>1, <1>2, <2>4, <2>5
    <3>2. Fits(next') /\ next'.elapsed = IF Fading THEN next.elapsed + 1 ELSE next.elapsed
      BY <1>0, <1>3, <3>1 DEF NextAfter, NextRuns, Fits
    <3>3. next'.elapsed = Window - 1 - Remaining'
      <4>1. CASE Remaining = Window
        BY <1>0, <2>4, <3>1, <3>2, <4>1 DEF Fading, NextRuns
      <4>2. CASE Remaining < Window
        BY <1>0, <1>1, <2>4, <3>1, <3>2, <4>2 DEF Fading, NextRuns
      <4> QED BY <1>0, <1>1, <2>4, <2>5, <4>1, <4>2
    <3>4. Remaining' # Window
      BY <1>0, <1>1, <2>4, <2>5
    <3> QED BY <3>2, <3>3, <3>4 DEF NextRuns
  <2> QED BY <1>0, <2>3, <2>5 DEF FadeInv
<1> QED BY <1>1, <1>4, <1>5

LEMMA FadeStep == GrainInv /\ [Next]_vars => FadeInv'
<1> SUFFICES ASSUME GrainInv, [Next]_vars PROVE FadeInv'
  OBVIOUS
<1> USE DEF GrainInv
<1>1. CASE LowerWanted
  BY <1>1 DEF LowerWanted, FadeInv, Playing, Remaining
<1>2. ASSUME NEW g \in Pickable, NEW d \in Jitters, JitterWanted(g, d) PROVE FadeInv'
  BY <1>2 DEF JitterWanted, FadeInv, Playing, Remaining
<1>3. CASE Spawn
  <2>0. /\ pc = "search" /\ wanted \in Nat /\ ~PastLast(wanted)
    BY <1>3 DEF Spawn, StateInv
  <2>1. Fits(Grain(wanted)) /\ Grain(wanted).elapsed = 0
    BY <2>0, SpawnedFits
  <2>2. /\ Window \in Nat \ {0} /\ 2 * Window - 1 <= MinSize /\ MinSize \in Nat
    BY GrainConstants
  <2>3. CASE current.size = 0
    <3>1. current' = Grain(wanted) /\ pc' = "frame"
      BY <1>3, <2>3 DEF Spawn
    <3>2. Fits(current') /\ current'.elapsed = 0
      BY <2>1, <3>1
    <3>3. current'.size \in Nat /\ MinSize <= current'.size
      BY <3>2 DEF Fits, Grains
    <3>4. Playing' /\ ~(Remaining' < Window)
      BY <2>2, <3>2, <3>3 DEF Playing, Remaining, Fits
    <3> QED BY <3>1, <3>4 DEF FadeInv
  <2>4. CASE current.size # 0
    <3>1. next' = Grain(wanted) /\ pc' = "read" /\ current' = current
      BY <1>3, <2>4 DEF Spawn
    <3>2. Playing /\ Remaining = Window
      BY <2>0, <2>4 DEF FadeInv, NoGrain
    <3>3. Playing' /\ Remaining' = Window
      BY <3>1, <3>2 DEF Playing, Remaining
    <3>4. NextRuns'
      BY <2>1, <3>1, <3>3 DEF NextRuns
    <3> QED BY <3>1, <3>3, <3>4 DEF FadeInv
  <2> QED BY <2>3, <2>4
<1>4. CASE StartFrame
  <2>1. pc = "frame" /\ current' = current /\ next' = next /\ Playing
    BY <1>4 DEF StartFrame, FadeInv
  <2>2. Playing' /\ Remaining' = Remaining
    BY <2>1 DEF Playing, Remaining
  <2>3. CASE NeedsNext
    BY <1>4, <2>2, <2>3 DEF StartFrame, NeedsNext, FadeInv
  <2>4. CASE ~NeedsNext
    <3>1. pc' = "read"
      BY <1>4, <2>4 DEF StartFrame
    <3>2. ASSUME Remaining' <= Window PROVE NextRuns'
      <4>1. Remaining \in Int /\ Window \in Int
        BY <2>1, GrainConstants DEF Playing, Fits, Grains, Remaining
      <4>2. Remaining < Window
        BY <2>2, <2>4, <3>2, <4>1 DEF NeedsNext
      <4> QED BY <2>1, <2>2, <4>2 DEF FadeInv, NextRuns
    <3> QED BY <2>2, <3>1, <3>2 DEF FadeInv
  <2> QED BY <2>3, <2>4
<1>5. CASE ReadFrame
  BY <1>5, ReadFades
<1>6. CASE UNCHANGED vars
  BY <1>6 DEF vars, FadeInv, Playing, NextRuns, Remaining
<1> QED BY <1>1, <1>2, <1>3, <1>4, <1>5, <1>6 DEF Next

LEMMA RepeatStep == GrainInv /\ [Next]_vars => NoRepeat'
<1> SUFFICES ASSUME GrainInv, [Next]_vars PROVE NoRepeat'
  OBVIOUS
<1>1. CASE Spawn
  <2>0. /\ played \in [1..Repeats -> Nat] /\ ~IsRepeat(wanted) /\ played' = Shifted(wanted)
        /\ Repeats \in Nat \ {0} /\ NoRepeat
    BY <1>1, GrainConstants DEF Spawn, GrainInv, StateInv
  <2>1. \A i \in 1..Repeats : played'[i] = IF i < Repeats THEN played[i + 1] ELSE wanted
    BY <2>0 DEF Shifted
  <2> SUFFICES ASSUME NEW i \in 1..Repeats, NEW j \in 1..Repeats, i < j,
                      played'[i] = played'[j], NEW h \in 1..Repeats, h <= j
               PROVE  played'[h] = 0
    BY DEF NoRepeat
  <2>2. i < Repeats /\ i + 1 \in 1..Repeats /\ played'[i] = played[i + 1]
    BY <2>0, <2>1
  <2>3. j < Repeats
    BY <2>0, <2>1, <2>2 DEF IsRepeat
  <2>4. j + 1 \in 1..Repeats /\ h + 1 \in 1..Repeats /\ i + 1 < j + 1 /\ h + 1 <= j + 1
    BY <2>0, <2>3
  <2>5. played'[j] = played[j + 1] /\ played'[h] = played[h + 1]
    BY <2>0, <2>1, <2>3
  <2>6. played[i + 1] = played[j + 1]
    BY <2>2, <2>5
  <2> QED BY <2>0, <2>2, <2>4, <2>5, <2>6 DEF NoRepeat
<1>2. CASE played' = played
  BY <1>2 DEF GrainInv, NoRepeat
<1>3. \/ Spawn \/ played' = played
  BY DEF Next, LowerWanted, JitterWanted, StartFrame, ReadFrame, vars
<1> QED BY <1>1, <1>2, <1>3

\* The grains' invariant holds of every behaviour.
LEMMA GrainsInvariant == Spec => []GrainInv
<1>1. GrainInv /\ [Next]_vars => GrainInv'
  BY StateStep, FadeStep, RepeatStep DEF GrainInv
<1> QED BY <1>1, InitInv, PTL DEF Spec

-----------------------------------------------------------------------------
(* The theorems                                                            *)

\* mix_output_into_buffer() never reads past a grain, before its first sample or
\* outside the input, and has a next grain whenever it fades.
THEOREM ReadsCorrect == Spec => []ReadsInGrain
<1>1. GrainInv => ReadsInGrain
  <2> SUFFICES ASSUME GrainInv, pc = "read" PROVE Inside(current) /\ (Fading => Inside(next))
    BY DEF ReadsInGrain
  <2>1. Playing /\ (Remaining <= Window => NextRuns)
    BY DEF GrainInv, FadeInv
  <2>2. Inside(current)
    BY <2>1 DEF Playing, Fits, Grains, Inside
  <2>3. /\ Window \in Nat \ {0} /\ 2 * Window - 1 <= MinSize /\ MinSize \in Nat
    BY GrainConstants
  <2>4. Remaining \in Nat \ {0}
    BY <2>1 DEF Playing, Fits, Grains, Remaining
  <2>5. ASSUME Fading PROVE Inside(next)
    <3>1. Remaining < Window /\ Fits(next) /\ next.elapsed = Window - 1 - Remaining
      BY <2>1, <2>3, <2>4, <2>5 DEF Fading, NextRuns
    <3>2. next.size \in Nat /\ next.start \in Nat /\ MinSize <= next.size
          /\ next.start + next.size <= Samples
      BY <3>1 DEF Fits, Grains
    <3> QED BY <2>3, <2>4, <3>1, <3>2 DEF Inside
  <2> QED BY <2>2, <2>5
<1> QED BY <1>1, GrainsInvariant, PTL

\* spawn_new_grain() never gives a grain that is among the ones remembered.
THEOREM NoRepeatCorrect == Spec => []NoRepeat
<1>1. GrainInv => NoRepeat
  BY DEF GrainInv
<1> QED BY <1>1, GrainsInvariant, PTL
=============================================================================
