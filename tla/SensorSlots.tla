---------------------------- MODULE SensorSlots ----------------------------
(***************************************************************************)
(* The sensor slots of a SteamAudioListener node: the loudest sources it   *)
(* hears, loudest first.  tick() rebuilds a snapshot of the levels of all  *)
(* sources that reach the listener, or skips a frame; the node's process   *)
(* notification lets its slots decay and takes in a snapshot it has not    *)
(* seen.  Both run on the main thread, in any order and number.            *)
(*                                                                         *)
(* Levels are steps above -60 dB; Silent stands for everything below, the  *)
(* -500 dB of an empty slot and the absence from the snapshot included.    *)
(***************************************************************************)
EXTENDS Integers, Sequences

CONSTANTS
  Source, NoSource,     \* RIDs of sources; RID()
  MaxLevel,             \* bound of the levels
  MaxSlots,             \* bound of num_source_db_sensor_slots
  MaxTicks              \* bound of the ticks per registration

ASSUME SlotConstants ==
  NoSource \notin Source /\ MaxLevel \in Nat /\ MaxSlots \in Nat /\ MaxTicks \in Nat

Silent == -1
Level  == Silent..MaxLevel

VARIABLES
  slots,        \* sensor_slots
  registered,   \* rid.is_valid()
  levels,       \* source_db_levels of the current RID
  version,      \* source_db_levels_version
  lastApplied,  \* last_applied_db_levels_version
  todo,         \* sources of the snapshot that are still to be taken in
  ticked,       \* history: tick() rebuilt levels since the last frame
  loud,         \* history: how loud each source may be, had it every snapshot once
  current       \* history: the slots hold the current snapshot

server  == <<levels, version>>
history == <<ticked, loud, current>>
vars    == <<slots, registered, server, lastApplied, todo, history>>

Cleared == [source |-> NoSource, level |-> Silent]
Slot    == [source : Source \cup {NoSource}, level : Level]
Quiet   == [s \in Source |-> Silent]

Init ==
  /\ slots = <<>> /\ registered = FALSE
  /\ levels = Quiet /\ version = 0 /\ lastApplied = 0 /\ todo = {}
  /\ ticked = FALSE /\ loud = Quiet /\ current = FALSE

\* update_sensor_slots() is not half way through a snapshot.
Idle == todo = {}

-----------------------------------------------------------------------------
EnterTree ==
  /\ Idle /\ ~registered /\ registered' = TRUE
  /\ levels' = Quiet /\ version' = 0 /\ ticked' = FALSE /\ current' = FALSE
  /\ UNCHANGED <<slots, lastApplied, todo, loud>>

ExitTree ==
  /\ Idle /\ registered /\ registered' = FALSE /\ current' = FALSE
  /\ UNCHANGED <<slots, server, lastApplied, todo, ticked, loud>>

\* set_num_source_db_sensor_slots(): the loudest slots stay, new ones are silent.
SetNumSlots(n) ==
  /\ Idle /\ n # Len(slots)
  /\ slots' = [i \in 1..n |-> IF i <= Len(slots) THEN slots[i] ELSE Cleared]
  /\ current' = FALSE
  /\ UNCHANGED <<registered, server, lastApplied, todo, ticked, loud>>

\* tick(), when it rebuilds the snapshot.
Tick ==
  /\ Idle /\ registered /\ version < MaxTicks /\ version' = version + 1
  /\ levels' \in [Source -> Level] /\ ticked' = TRUE /\ current' = FALSE
  /\ UNCHANGED <<slots, registered, lastApplied, todo, loud>>

-----------------------------------------------------------------------------
(* update_sensor_slots()                                                   *)

Louder(a, b) == IF a > b THEN a ELSE b
Faded(db)    == IF db = Silent THEN Silent ELSE db - 1

Decay(slot) ==
  IF Faded(slot.level) = Silent THEN Cleared ELSE [slot EXCEPT !.level = Faded(slot.level)]

\* A snapshot is applied once; the mutant applies it every frame.
AlwaysFresh == TRUE
Fresh == version # lastApplied

\* Every slot decays; a snapshot that is new is taken in.
Process ==
  /\ Idle /\ registered /\ slots # <<>>
  /\ slots' = [i \in DOMAIN slots |-> Decay(slots[i])]
  /\ lastApplied' = version
  /\ todo' = IF Fresh THEN {s \in Source : levels[s] # Silent} ELSE {}
  /\ current' = Fresh
  /\ loud' = [s \in Source |-> Louder(Faded(loud[s]), IF ticked THEN levels[s] ELSE Silent)]
  /\ ticked' = FALSE
  /\ UNCHANGED <<registered, server>>

\* Where s is found already; the mutant looks at the first slot only.
HoldingFirst(s) == {i \in DOMAIN slots : i = 1 /\ slots[i].source = s}
Holding(s) == {i \in DOMAIN slots : slots[i].source = s}

\* Where the loop that moves slot i up stops: below the first that is as loud.
StopsAt(i, db) ==
  {j \in 1..i : /\ \A k \in j..(i - 1) : db > slots[k].level
                /\ j > 1 => db <= slots[j - 1].level}

\* The slot at which the loop that looks for a place stops; the mutant goes on.
AnyQuieter(db) == {j \in DOMAIN slots : db > slots[j].level}
FirstQuieter(db) ==
  {j \in DOMAIN slots : db > slots[j].level /\ \A k \in 1..(j - 1) : db <= slots[k].level}

\* slots[j..i - 1] move down by one, over slots[i]; the mutant does not shift.
InsertOver(slot, j, i) == [slots EXCEPT ![j] = slot]
Insert(slot, j, i) ==
  [k \in DOMAIN slots |-> IF k = j THEN slot ELSE IF j < k /\ k <= i THEN slots[k - 1] ELSE slots[k]]

\* One iteration of the loop over the snapshot.
TakeIn(s) ==
  /\ s \in todo /\ todo' = todo \ {s}
  /\ \/ \E i \in Holding(s) :
          /\ \A k \in Holding(s) : i <= k
          /\ \/ /\ levels[s] > slots[i].level
                /\ \E j \in StopsAt(i, levels[s]) :
                     slots' = Insert([source |-> s, level |-> levels[s]], j, i)
             \/ levels[s] <= slots[i].level /\ UNCHANGED slots
     \/ /\ Holding(s) = {}
        /\ \/ \E j \in FirstQuieter(levels[s]) :
                slots' = Insert([source |-> s, level |-> levels[s]], j, Len(slots))
           \/ (\A k \in DOMAIN slots : levels[s] <= slots[k].level) /\ UNCHANGED slots
  /\ UNCHANGED <<registered, server, lastApplied, history>>

-----------------------------------------------------------------------------
Next ==
  \/ EnterTree \/ ExitTree \/ Tick \/ Process
  \/ \E n \in 0..MaxSlots : SetNumSlots(n)
  \/ \E s \in Source : TakeIn(s)

Spec == Init /\ [][Next]_vars

-----------------------------------------------------------------------------
\* Type correctness.
TypeOK ==
  /\ slots \in Seq(Slot) /\ Len(slots) <= MaxSlots
  /\ registered \in BOOLEAN
  /\ levels \in [Source -> Level] /\ version \in 0..MaxTicks
  /\ lastApplied \in 0..MaxTicks /\ todo \subseteq Source
  /\ ticked \in BOOLEAN /\ loud \in [Source -> Level] /\ current \in BOOLEAN

\* The slots are sorted, whatever has been decayed, shifted, moved up or resized,
\* and a slot is empty just when it is silent.
Sorted ==
  /\ \A i, j \in DOMAIN slots : i < j => slots[i].level >= slots[j].level
  /\ \A i \in DOMAIN slots : slots[i].source = NoSource <=> slots[i].level = Silent

\* No source has two slots.
NoTwice ==
  \A i, j \in DOMAIN slots :
    slots[i].source = slots[j].source /\ i # j => slots[i].source = NoSource

\* A slot is never louder than the snapshots of its source, each heard once and
\* decaying since: a snapshot that a skipped tick() leaves in place is not heard
\* again, so that a sound that has stopped fades.
FadesOut ==
  \A i \in DOMAIN slots :
    slots[i].source # NoSource => slots[i].level <= loud[slots[i].source]

\* No slot is quieter than s was in the snapshot, or its own is not if it has one.
Heard(s) ==
  IF Holding(s) = {} THEN \A i \in DOMAIN slots : levels[s] <= slots[i].level
                     ELSE \A i \in Holding(s) : levels[s] <= slots[i].level

\* When a snapshot has been taken in, the slots hold the loudest: no source of the
\* snapshot is louder than its slot, or than any slot if it has none.
HoldsLoudest == current /\ Idle => \A s \in Source : Heard(s)

=============================================================================
