------------------------------- MODULE MCMix -------------------------------
(* Instances of MixHistory: who owns and who plays which playback.         *)
EXTENDS MixHistory

CONSTANTS s1, s2, l1, l2, p1, p2, v1, v2

\* Two sources, one listener with one playback: both streams on the first
\* source, while the second mixes silence.
TwoSourcesOwner == [p \in {p1} |-> l1]
TwoStreamsFeeds == [p \in {p1, v1, v2} |-> IF p \in {v1, v2} THEN s1 ELSE NoSource]

\* One source, two listeners with a playback each.
TwoListenersOwner == [p \in {p1, p2} |-> IF p = p1 THEN l1 ELSE l2]
TwoListenersFeeds == [p \in {p1, p2, v1} |-> IF p = v1 THEN s1 ELSE NoSource]

\* One source, one listener with two playbacks.
TwoPlaybacksOwner == [p \in {p1, p2} |-> l1]

\* A walkie talkie: l1 plays through the source s2, which l2 hears.  A stream
\* that may starve shares s2, while s1 mixes silence.
WalkieFeeds == [p \in {p1, p2, v1} |-> IF p = p2 THEN NoSource ELSE s2]

SteadyFairSpec == SteadySpec /\ Fairness

\* The source a listener plays through stays as long as the listener does.
WalkieKeptSpec == Steady /\ [][HNext /\ s2 \in sources']_hvars /\ Fairness

=============================================================================
