------------------------------ MODULE RidLife ------------------------------
(***************************************************************************)
(* What the handles of SteamAudioServer promise, without the queue behind  *)
(* them: a RID is made once, its data enters the collections once and      *)
(* leaves them once, after its holder gave the RID up; finish() finds      *)
(* everything that is left in the collections.                             *)
(***************************************************************************)
CONSTANT Rid

VARIABLES
  made,     \* RIDs handed out so far
  usable,   \* RIDs that a node holds and the server knows
  dropped,  \* RIDs given up whose data is not deleted yet
  linked    \* RIDs whose data is in a collection

Init == made = {} /\ usable = {} /\ dropped = {} /\ linked = {}

Make(r) ==
  /\ r \notin made /\ made' = made \cup {r} /\ usable' = usable \cup {r}
  /\ UNCHANGED <<dropped, linked>>

Link(r) ==
  /\ r \in (usable \cup dropped) \ linked /\ linked' = linked \cup {r}
  /\ UNCHANGED <<made, usable, dropped>>

Drop(r) ==
  /\ r \in usable /\ usable' = usable \ {r} /\ dropped' = dropped \cup {r}
  /\ UNCHANGED <<made, linked>>

\* Never before the data was linked: the queue keeps the order of the calls.
Delete(r) ==
  /\ r \in dropped \cap linked /\ dropped' = dropped \ {r} /\ linked' = linked \ {r}
  /\ UNCHANGED <<made, usable>>

\* Everything dropped is deleted by then, and what is usable is linked.
Finish ==
  /\ dropped = {} /\ usable = linked /\ usable' = {} /\ linked' = {}
  /\ UNCHANGED <<made, dropped>>

Next == Finish \/ \E r \in Rid : Make(r) \/ Link(r) \/ Drop(r) \/ Delete(r)

Spec == Init /\ [][Next]_<<made, usable, dropped, linked>>

=============================================================================
