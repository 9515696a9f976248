---------------------------- MODULE BoundedFifo ----------------------------
(***************************************************************************)
(* What the ring buffer of a listener's playback promises to its two       *)
(* threads: frames come out in the order they went in, none is lost,       *)
(* repeated or torn, and only clear() drops any.                           *)
(***************************************************************************)
EXTENDS Integers, Sequences

CONSTANTS Frame, Room

VARIABLES
  queue,    \* frames written and not read
  out       \* the frames the last read() handed out, <<>> after a clear()

Init == queue = <<>> /\ out = <<>>

Rest(n) == SubSeq(queue, n + 1, Len(queue))

Write ==
  \E n \in 1..(Room - Len(queue)) : \E new \in [1..n -> Frame] :
    queue' = queue \o new /\ UNCHANGED out

Read == \E n \in 1..Len(queue) : out' = SubSeq(queue, 1, n) /\ queue' = Rest(n)

\* The frames that were there when clear() looked; later ones stay.
Clear == \E n \in 0..Len(queue) : queue' = Rest(n) /\ out' = <<>>

Next == Write \/ Read \/ Clear

Spec == Init /\ [][Next]_<<queue, out>>

=============================================================================
