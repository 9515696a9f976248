---------------------------- MODULE BlockStream ----------------------------
(***************************************************************************)
(* What the mixing thread promises to the only playback of a listener: it  *)
(* is given block after block.  A block adds up one mix of each source at  *)
(* most.  It is collected while nothing of the last one is left, is handed *)
(* out once, and its F frames go to the playback's ring in turn, as many   *)
(* at a time as fit.  It is cleared when all of them are there, or when    *)
(* the rest is given up: the ring is full, and nobody plays it.            *)
(***************************************************************************)
EXTENDS Integers

CONSTANTS
  Source, Speaker,
  F,            \* frames of a block
  Cap           \* frames a playback's ring holds

VARIABLES
  active,       \* playbacks attached to their listener
  idle,         \* playbacks played by a source that is not mixed
  block,        \* how many mixes of each source the block of a playback has
  left,         \* frames of the block handed out and not given yet
  buffered      \* frames in the ring of a playback

vars == <<active, idle, block, left, buffered>>

Empty == [s \in Source |-> 0]

Init ==
  /\ active \in SUBSET Speaker /\ idle \in SUBSET Speaker
  /\ block = [p \in Speaker |-> Empty]
  /\ left = [p \in Speaker |-> 0] /\ buffered = [p \in Speaker |-> 0]

\* More sources join the block, none of which is in it.
Collect(p) ==
  /\ p \in active /\ left[p] = 0
  /\ \E more \in SUBSET {s \in Source : block[p][s] = 0} :
       block' = [block EXCEPT ![p] = [s \in Source |-> IF s \in more THEN 1 ELSE @[s]]]
  /\ UNCHANGED <<active, idle, left, buffered>>

\* So many of the frames that are to be given are given.
Give(p, rest) ==
  \E n \in 0..rest :
    /\ buffered[p] + n <= Cap
    /\ buffered' = [buffered EXCEPT ![p] = @ + n]
    /\ left' = [left EXCEPT ![p] = rest - n]
    /\ block' = IF n = rest THEN [block EXCEPT ![p] = Empty] ELSE block
    /\ UNCHANGED <<active, idle>>

HandOut(p)  == p \in active /\ left[p] = 0 /\ Give(p, F)
Continue(p) == p \in active /\ left[p] > 0 /\ Give(p, left[p])

GiveUp(p) ==
  /\ p \in active \cap idle /\ left[p] > 0 /\ buffered[p] = Cap
  /\ left' = [left EXCEPT ![p] = 0] /\ block' = [block EXCEPT ![p] = Empty]
  /\ UNCHANGED <<active, idle, buffered>>

\* A playback begins with an empty block, and what it leaves is lost.
Start(p) ==
  /\ p \notin active /\ active' = active \cup {p} /\ idle' \in SUBSET Speaker
  /\ UNCHANGED <<block, left, buffered>>
Stop(p) ==
  /\ p \in active /\ active' = active \ {p}
  /\ left' = [left EXCEPT ![p] = 0] /\ block' = [block EXCEPT ![p] = Empty]
  /\ UNCHANGED <<idle, buffered>>

\* Rings are emptied by whoever plays them.
Play ==
  /\ buffered' \in [Speaker -> 0..Cap] /\ \A p \in Speaker : buffered'[p] <= buffered[p]
  /\ UNCHANGED <<active, idle, block, left>>

Idle == idle' \in SUBSET Speaker /\ UNCHANGED <<active, block, left, buffered>>

Next ==
  \/ Play \/ Idle
  \/ \E p \in Speaker :
       Collect(p) \/ HandOut(p) \/ Continue(p) \/ GiveUp(p) \/ Start(p) \/ Stop(p)

Spec == Init /\ [][Next]_vars

=============================================================================
