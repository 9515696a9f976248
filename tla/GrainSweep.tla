----------------------------- MODULE GrainSweep -----------------------------
(***************************************************************************)
(* The granular output of an AudioStreamParameterized.  Its input is cut   *)
(* into grains whose size grows evenly; the mixer plays one grain after    *)
(* another, chosen near the value of a parameter, and cross-fades over the *)
(* last samples of each.                                                   *)
(*                                                                         *)
(* Floating point numbers are exact fractions here: the size of a grain    *)
(* grows by SizeStep / Slack from each to the next, and there are          *)
(* 2 * Samples / Span grains.                                              *)
(***************************************************************************)
EXTENDS Integers

CONSTANTS
  Samples,   \* length of the input buffer
  MinSize,   \* size of the first grain
  MaxSize,   \* size of the last
  Window,    \* grain_fade_window_samples
  Repeats    \* NUM_NO_REPEAT_GRAINS

Span     == MinSize + MaxSize
Slack    == 2 * Samples - Span
SizeStep == (MaxSize - MinSize) * Span

\* There is more than one grain, and none is so short that it starts inside
\* the window of its own end.
ASSUME GrainConstants ==
  /\ Samples \in Nat /\ MinSize \in Nat /\ MaxSize \in Nat
  /\ Window \in Nat \ {0} /\ Repeats \in Nat \ {0}
  /\ 2 * Window - 1 <= MinSize /\ MinSize <= MaxSize
  /\ 0 < Slack

\* get_grain_start_index() and get_grain_size()
GrainStart(g) == (SizeStep * (g * (g - 1)) + 2 * MinSize * Slack * g) \div (2 * Slack)
GrainSize(g)  == (MinSize * Slack + g * SizeStep) \div Slack

\* What get_grain_number() returns for the fractions 0 to 1.
Pickable == 0 .. (2 * Samples) \div Span

\* g >= total_num_grains_in_input - 1
PastLastButOne(g) == g * Span >= Slack - Span
PastLast(g)       == g * Span >= Slack

VARIABLES
  pc,        \* "search": in spawn_new_grain(); "frame", "read": in a frame
  current,   \* CurrentGrain; of size 0 before the first
  next,      \* NextGrain
  played,    \* last_played_grains, the latest last
  wanted     \* grain_number, while it is searched for

vars == <<pc, current, next, played, wanted>>

NoGrain == [number |-> 0, start |-> 0, size |-> 0, elapsed |-> 0]

Init ==
  /\ pc = "search" /\ current = NoGrain /\ next = NoGrain
  /\ played = [i \in 1..Repeats |-> 0]
  /\ wanted \in Pickable

-----------------------------------------------------------------------------
(* spawn_new_grain()                                                       *)

IsRepeatButLast(g) == \E i \in 1..Repeats : i < Repeats /\ played[i] = g
IsRepeat(g)        == \E i \in 1..Repeats : played[i] = g

LowerWanted ==
  /\ pc = "search" /\ PastLast(wanted)
  /\ wanted' = wanted - 1
  /\ UNCHANGED <<pc, current, next, played>>

Jitters == -2 .. 2

Jittered(g, d) == IF g + d < 0 THEN 1 ELSE g + d

JitterWanted(g, d) ==
  /\ pc = "search" /\ wanted = g
  /\ ~PastLast(g) /\ IsRepeat(g)
  /\ wanted' = Jittered(g, d)
  /\ UNCHANGED <<pc, current, next, played>>

Shifted(g) == [i \in 1..Repeats |-> IF i < Repeats THEN played[i + 1] ELSE g]

Grain(g) == [number |-> g, start |-> GrainStart(g), size |-> GrainSize(g), elapsed |-> 0]

\* create_runtime_instance() searches for the first grain, the mixer for the next.
Spawn ==
  /\ pc = "search"
  /\ ~PastLast(wanted) /\ ~IsRepeat(wanted)
  /\ played' = Shifted(wanted)
  /\ \/ /\ current.size = 0
        /\ current' = Grain(wanted) /\ pc' = "frame"
        /\ UNCHANGED next
     \/ /\ current.size > 0
        /\ next' = Grain(wanted) /\ pc' = "read"
        /\ UNCHANGED current
  /\ UNCHANGED wanted

-----------------------------------------------------------------------------
(* mix_output_into_buffer(), one frame.                                    *)

Remaining == current.size - current.elapsed

NeedsNextSooner == Remaining = Window + 1
NeedsNext       == Remaining = Window

StartFrame ==
  /\ pc = "frame"
  /\ \/ NeedsNext /\ pc' = "search" /\ wanted' \in Pickable
     \/ ~NeedsNext /\ pc' = "read" /\ UNCHANGED wanted
  /\ UNCHANGED <<current, next, played>>

\* next_volume > 0
Fading == Remaining < Window

Advanced(grain) == [grain EXCEPT !.elapsed = @ + 1]
NextAfter       == IF Fading THEN Advanced(next) ELSE next

ReadFrame ==
  /\ pc = "read"
  /\ next' = NextAfter
  /\ current' = IF current.elapsed + 1 >= current.size THEN NextAfter ELSE Advanced(current)
  /\ pc' = "frame"
  /\ UNCHANGED <<played, wanted>>

Next ==
  \/ LowerWanted \/ Spawn \/ StartFrame \/ ReadFrame
  \/ \E g \in Pickable, d \in Jitters : JitterWanted(g, d)

Spec == Init /\ [][Next]_vars

\* The search goes on while the thread runs, and of the generator's numbers it is
\* only assumed that a grain whose turn keeps coming is left again and again by a
\* step of one upwards and by a step of one downwards.
Fairness ==
  /\ WF_vars(LowerWanted \/ Spawn)
  /\ \A g \in {h \in Pickable : ~PastLast(h)}, d \in {-1, 1} : SF_vars(JitterWanted(g, d))

FairSpec == Spec /\ Fairness

-----------------------------------------------------------------------------
(* Properties                                                              *)

Inside(grain) ==
  /\ 0 <= grain.elapsed /\ grain.elapsed < grain.size
  /\ 0 <= grain.start /\ grain.start + grain.size <= Samples

\* The mixer reads a grain only between its first sample and its last, and both
\* lie in the buffer: it has spawned the next grain when it fades into it, and
\* has moved to it when the current one is used up.
ReadsInGrain == pc = "read" => Inside(current) /\ (Fading => Inside(next))

\* A grain is not heard again before Repeats others were: the array holds the
\* latest grains, all different but for the zeros it starts with.
NoRepeat ==
  \A i \in 1..Repeats : \A j \in 1..Repeats :
     i < j /\ played[i] = played[j] => \A h \in 1..Repeats : h <= j => played[h] = 0

\* When there are more grains than are remembered, spawn_new_grain() returns.
SearchEnds == pc = "search" ~> pc /= "search"
=============================================================================
