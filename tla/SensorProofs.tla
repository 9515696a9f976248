---------------------------- MODULE SensorProofs ----------------------------
(***************************************************************************)
(* Proofs about SensorSlots, for any sources and any number of slots: the  *)
(* slots are sorted and hold each source once, fade, and hold the loudest. *)
(***************************************************************************)
EXTENDS SensorSlots, TLAPS

USE DEF Level, Silent

\* What a slot is, how it decays.
LEMMA DecaySlot ==
  ASSUME NEW slot \in Slot
  PROVE  /\ Decay(slot) \in Slot
         /\ Decay(slot).level = Faded(slot.level)
         /\ Decay(slot).source = IF Faded(slot.level) = Silent THEN NoSource ELSE slot.source
         /\ Faded(slot.level) <= slot.level
  BY SlotConstants DEF Slot, Decay, Faded, Cleared

\* The slots, seen slot by slot.
SlotsTyped == /\ Len(slots) \in 0..MaxSlots /\ DOMAIN slots = 1..Len(slots)
              /\ \A i \in DOMAIN slots : slots[i] \in Slot /\ slots[i].level \in Level
                                         /\ slots[i].source \in Source \cup {NoSource}

LEMMA TypedSlots == TypeOK => SlotsTyped
  <1> SUFFICES ASSUME TypeOK PROVE SlotsTyped
    OBVIOUS
  <1>1. Len(slots) \in 0..MaxSlots /\ DOMAIN slots = 1..Len(slots) BY SlotConstants DEF TypeOK
  <1>2. \A i \in DOMAIN slots : slots[i] \in Slot BY DEF TypeOK
  <1>3. QED BY <1>1, <1>2 DEF SlotsTyped, Slot

\* A function that has a slot for every slot number is a sequence of slots.
LEMMA SlotSequence ==
  ASSUME NEW n \in Nat, NEW f \in [1..n -> Slot]
  PROVE  f \in Seq(Slot) /\ Len(f) = n /\ DOMAIN f = 1..n
  OBVIOUS

\* What Insert does to slots, with x moving up from (or falling in above) slot i to
\* slot j: x is louder than what it moves past, not louder than what stays above it.
Moves(x, j, i) ==
  /\ x \in Slot /\ x.source \in Source
  /\ j \in DOMAIN slots /\ i \in DOMAIN slots /\ j <= i
  /\ \A k \in j..i : x.level > slots[k].level
  /\ \A k \in 1..(j - 1) : x.level <= slots[k].level
  /\ \A k \in DOMAIN slots : k # i => slots[k].source # x.source
  /\ slots[i].source = x.source \/ i = Len(slots)
  /\ slots' = Insert(x, j, i)

\* Every source taken in leaves the slots as they are, or is moved in.
LEMMA TakeInMoves ==
  ASSUME TypeOK, Sorted, NoTwice, NEW s \in Source, TakeIn(s)
  PROVE  \/ /\ UNCHANGED slots
            /\ \/ \E i \in Holding(s) : levels[s] <= slots[i].level
               \/ Holding(s) = {} /\ \A k \in DOMAIN slots : levels[s] <= slots[k].level
         \/ \E i, j \in DOMAIN slots : Moves([source |-> s, level |-> levels[s]], j, i)
  <1> DEFINE x == [source |-> s, level |-> levels[s]]
  <1>t. SlotsTyped BY TypedSlots
  <1>x. x \in Slot /\ x.source = s /\ x.level = levels[s] /\ levels[s] \in Level /\ s # NoSource
    BY SlotConstants DEF TypeOK, Slot
  <1> HIDE DEF x
  <1>1. ASSUME NEW i \in Holding(s), levels[s] > slots[i].level,
               NEW j \in StopsAt(i, levels[s]), slots' = Insert(x, j, i)
        PROVE  Moves(x, j, i)
    <2>1. i \in DOMAIN slots /\ slots[i].source = s BY DEF Holding
    <2>2. j \in DOMAIN slots /\ j <= i /\ i \in Nat /\ j \in Nat /\ j >= 1
      BY <1>t, <2>1 DEF StopsAt, SlotsTyped
    <2>3. \A k \in j..i : levels[s] > slots[k].level BY <1>1, <2>2 DEF StopsAt
    <2>4. \A k \in 1..(j - 1) : levels[s] <= slots[k].level
      <3> SUFFICES ASSUME NEW k \in 1..(j - 1) PROVE levels[s] <= slots[k].level
        OBVIOUS
      <3>1. j > 1 /\ j - 1 \in DOMAIN slots /\ k \in DOMAIN slots /\ k <= j - 1
        BY <1>t, <2>2 DEF SlotsTyped
      <3>2. levels[s] <= slots[j - 1].level BY <3>1 DEF StopsAt
      <3>3. slots[k].level >= slots[j - 1].level \/ k = j - 1
        BY <3>1, <2>2 DEF Sorted
      <3>4. slots[k].level \in Int /\ slots[j - 1].level \in Int BY <3>1, <1>t DEF SlotsTyped
      <3>5. QED BY <3>2, <3>3, <3>4, <1>x
    <2>5. \A k \in DOMAIN slots : k # i => slots[k].source # s BY <2>1, <1>x DEF NoTwice
    <2>6. QED BY <1>1, <1>x, <2>1, <2>2, <2>3, <2>4, <2>5 DEF Moves
  <1>2. ASSUME Holding(s) = {}, NEW j \in FirstQuieter(levels[s]), slots' = Insert(x, j, Len(slots))
        PROVE  Moves(x, j, Len(slots)) /\ Len(slots) \in DOMAIN slots /\ j \in DOMAIN slots
    <2>1. j \in DOMAIN slots /\ levels[s] > slots[j].level
          /\ \A k \in 1..(j - 1) : levels[s] <= slots[k].level
      BY DEF FirstQuieter
    <2>2. Len(slots) \in DOMAIN slots /\ j \in Nat /\ j >= 1 /\ j <= Len(slots)
      BY <2>1, <1>t DEF SlotsTyped
    <2>3. \A k \in j..Len(slots) : levels[s] > slots[k].level
      <3> SUFFICES ASSUME NEW k \in j..Len(slots) PROVE levels[s] > slots[k].level
        OBVIOUS
      <3>1. k \in DOMAIN slots /\ j <= k BY <2>2, <1>t DEF SlotsTyped
      <3>2. slots[j].level >= slots[k].level \/ k = j BY <3>1, <2>1, <2>2 DEF Sorted
      <3>3. slots[k].level \in Int /\ slots[j].level \in Int BY <3>1, <2>1, <1>t DEF SlotsTyped
      <3>4. QED BY <3>2, <3>3, <2>1, <1>x
    <2>4. \A k \in DOMAIN slots : slots[k].source # s BY <1>2 DEF Holding
    <2>5. QED BY <1>2, <1>x, <2>1, <2>2, <2>3, <2>4 DEF Moves
  <1>3. CASE \E i \in Holding(s) :
               /\ \/ /\ levels[s] > slots[i].level
                     /\ \E j \in StopsAt(i, levels[s]) : slots' = Insert(x, j, i)
                  \/ levels[s] <= slots[i].level /\ UNCHANGED slots
    <2>1. \A i \in Holding(s) : i \in DOMAIN slots BY DEF Holding
    <2>2. QED BY <1>3, <1>1, <2>1 DEF Moves, x
  <1>4. CASE /\ Holding(s) = {}
             /\ \/ \E j \in FirstQuieter(levels[s]) : slots' = Insert(x, j, Len(slots))
                \/ (\A k \in DOMAIN slots : levels[s] <= slots[k].level) /\ UNCHANGED slots
    BY <1>4, <1>2 DEF x
  <1>5. QED BY <1>3, <1>4 DEF TakeIn, x

\* The slots after a move: x at j; those from j on moved down, slot i is gone.
From(k, j, i) == IF j < k /\ k <= i THEN k - 1 ELSE k

LEMMA MovedSlots ==
  ASSUME TypeOK, Sorted, NEW x, NEW j, NEW i, Moves(x, j, i)
  PROVE  /\ slots' \in Seq(Slot) /\ Len(slots') = Len(slots) /\ DOMAIN slots' = DOMAIN slots
         /\ slots'[j] = x
         /\ \A k \in DOMAIN slots : k # j => /\ From(k, j, i) \in DOMAIN slots
                                             /\ From(k, j, i) # i
                                             /\ slots'[k] = slots[From(k, j, i)]
         /\ \A k \in DOMAIN slots : slots[k].level <= slots'[k].level
  <1>t. SlotsTyped BY TypedSlots
  <1>1. /\ j \in 1..Len(slots) /\ i \in 1..Len(slots) /\ j <= i /\ x \in Slot
        /\ Len(slots) \in Nat /\ DOMAIN slots = 1..Len(slots)
        /\ slots' = [k \in 1..Len(slots) |->
                       IF k = j THEN x ELSE IF j < k /\ k <= i THEN slots[k - 1] ELSE slots[k]]
    BY <1>t DEF Moves, SlotsTyped, Insert
  <1>2. \A k \in DOMAIN slots : k # j => /\ From(k, j, i) \in DOMAIN slots /\ From(k, j, i) # i
                                         /\ slots'[k] = slots[From(k, j, i)]
    BY <1>1 DEF From
  <1>3. slots'[j] = x BY <1>1
  <1>4. \A k \in 1..Len(slots) : slots'[k] \in Slot
    <2> SUFFICES ASSUME NEW k \in 1..Len(slots) PROVE slots'[k] \in Slot
      OBVIOUS
    <2>1. CASE k = j BY <2>1, <1>1, <1>3
    <2>2. CASE k # j BY <2>2, <1>1, <1>2, <1>t DEF SlotsTyped
    <2>3. QED BY <2>1, <2>2
  <1>5. slots' \in [1..Len(slots) -> Slot] BY <1>1, <1>4
  <1>6. slots' \in Seq(Slot) /\ Len(slots') = Len(slots) /\ DOMAIN slots' = DOMAIN slots
    BY <1>1, <1>5, SlotSequence
  <1>7. \A k \in DOMAIN slots : slots[k].level <= slots'[k].level
    <2> SUFFICES ASSUME NEW k \in DOMAIN slots PROVE slots[k].level <= slots'[k].level
      OBVIOUS
    <2>1. \A l \in DOMAIN slots : slots[l].level \in Int BY <1>t DEF SlotsTyped
    <2>2. x.level \in Int BY <1>1, SlotConstants DEF Slot
    <2>3. CASE k = j
      <3>1. x.level > slots[j].level BY <1>1 DEF Moves
      <3>2. QED BY <2>3, <3>1, <2>1, <2>2, <1>3
    <2>4. CASE j < k /\ k <= i
      <3>1. k - 1 \in DOMAIN slots /\ slots'[k] = slots[k - 1] BY <2>4, <1>1
      <3>2. slots[k - 1].level >= slots[k].level BY <3>1, <1>1 DEF Sorted
      <3>3. QED BY <3>1, <3>2, <2>1
    <2>5. CASE k < j \/ k > i
      <3>1. slots'[k] = slots[k] BY <2>5, <1>1
      <3>2. QED BY <3>1, <2>1
    <2>6. QED BY <2>3, <2>4, <2>5, <1>1
  <1>8. QED BY <1>2, <1>3, <1>6, <1>7

\* A move keeps the slots sorted.
LEMMA MoveSorts ==
  ASSUME TypeOK, Sorted, NEW x, NEW j, NEW i, Moves(x, j, i)
  PROVE  Sorted'
  <1>t. SlotsTyped BY TypedSlots
  <1>m. /\ DOMAIN slots' = DOMAIN slots /\ slots'[j] = x
        /\ \A k \in DOMAIN slots : k # j => /\ From(k, j, i) \in DOMAIN slots
                                            /\ slots'[k] = slots[From(k, j, i)]
    BY MovedSlots
  <1>1. /\ j \in DOMAIN slots /\ i \in DOMAIN slots /\ j <= i /\ DOMAIN slots \subseteq Int
        /\ x.level \in Int /\ \A k \in DOMAIN slots : slots[k].level \in Int
    BY <1>t, SlotConstants DEF Moves, SlotsTyped, Slot
  <1>2. ASSUME NEW a \in DOMAIN slots, NEW b \in DOMAIN slots, a < b
        PROVE  slots'[a].level >= slots'[b].level
    <2>1. CASE a = j
      <3>1. b # j /\ From(b, j, i) \in DOMAIN slots /\ From(b, j, i) >= j
            /\ slots'[b] = slots[From(b, j, i)]
        BY <2>1, <1>m, <1>1, <1>2 DEF From
      <3>2. x.level > slots[j].level BY <1>1 DEF Moves
      <3>3. From(b, j, i) = j \/ slots[j].level >= slots[From(b, j, i)].level
        BY <3>1, <1>1 DEF Sorted
      <3>4. slots[From(b, j, i)].level \in Int /\ slots[j].level \in Int BY <3>1, <1>1
      <3>5. x.level >= slots[From(b, j, i)].level BY <3>2, <3>3, <3>4, <1>1
      <3>6. QED BY <3>1, <3>5, <2>1, <1>m
    <2>2. CASE b = j
      <3>1. slots'[a] = slots[a] /\ a \in 1..(j - 1)
        BY <2>2, <1>m, <1>1, <1>2, <1>t DEF From, SlotsTyped
      <3>2. x.level <= slots[a].level BY <3>1 DEF Moves
      <3>3. QED BY <3>1, <3>2, <2>2, <1>m, <1>1
    <2>3. CASE a # j /\ b # j
      <3>1. From(a, j, i) \in DOMAIN slots /\ From(b, j, i) \in DOMAIN slots
            /\ slots'[a] = slots[From(a, j, i)] /\ slots'[b] = slots[From(b, j, i)]
        BY <2>3, <1>m
      <3>2. From(a, j, i) < From(b, j, i) BY <2>3, <1>1, <1>2 DEF From
      <3>3. QED BY <3>1, <3>2 DEF Sorted
    <2>4. QED BY <2>1, <2>2, <2>3
  <1>3. \A k \in DOMAIN slots : slots'[k].source = NoSource <=> slots'[k].level = Silent
    <2> SUFFICES ASSUME NEW k \in DOMAIN slots
                 PROVE  slots'[k].source = NoSource <=> slots'[k].level = Silent
      OBVIOUS
    <2>1. CASE k = j
      <3>1. x.source # NoSource BY SlotConstants DEF Moves
      <3>2. x.level > slots[j].level /\ slots[j].level \in -1..MaxLevel
        BY <1>1, <1>t DEF Moves, SlotsTyped
      <3>3. x.level # -1 BY <3>2, <1>1, SlotConstants
      <3>4. QED BY <3>1, <3>3, <2>1, <1>m
    <2>2. CASE k # j BY <2>2, <1>m DEF Sorted
    <2>3. QED BY <2>1, <2>2
  <1>4. QED BY <1>2, <1>3, <1>m DEF Sorted

\* A move leaves no source in two slots.
LEMMA MoveOnce ==
  ASSUME TypeOK, Sorted, NoTwice, NEW x, NEW j, NEW i, Moves(x, j, i)
  PROVE  NoTwice'
  <1>m. /\ DOMAIN slots' = DOMAIN slots /\ slots'[j] = x
        /\ \A k \in DOMAIN slots : k # j => /\ From(k, j, i) \in DOMAIN slots
                                            /\ From(k, j, i) # i
                                            /\ slots'[k] = slots[From(k, j, i)]
    BY MovedSlots
  <1>t. DOMAIN slots \subseteq Int /\ j \in Int /\ i \in Int BY TypedSlots DEF SlotsTyped, Moves
  <1>1. \A k \in DOMAIN slots : k # j => slots'[k].source # x.source BY <1>m DEF Moves
  <1>2. ASSUME NEW a \in DOMAIN slots, NEW b \in DOMAIN slots, a # j, b # j, a # b,
               slots'[a].source = slots'[b].source
        PROVE  slots'[a].source = NoSource
    <2>1. From(a, j, i) # From(b, j, i)
      <3>1. From(a, j, i) # i /\ From(b, j, i) # i BY <1>2, <1>m
      <3>2. QED BY <3>1, <1>2, <1>t DEF From
    <2>2. QED BY <2>1, <1>2, <1>m DEF NoTwice
  <1>3. QED BY <1>1, <1>2, <1>m DEF NoTwice

-----------------------------------------------------------------------------
(* The inductive invariant: what TLC checks, with what a snapshot half     *)
(* taken in still owes.                                                    *)

\* A source that is still to be taken in may be as loud as the snapshot has it, and
\* a snapshot that was not rebuilt since the last frame is either applied or empty.
Pending == /\ \A s \in todo : levels[s] <= loud[s]
           /\ Fresh /\ ~ticked => levels = Quiet

\* While a snapshot is being taken in, the sources already taken in are heard.
Done == current => \A s \in Source \ todo : Heard(s)

IInv == TypeOK /\ Sorted /\ NoTwice /\ Pending /\ FadesOut /\ Done

LEMMA InitIInv == Init => IInv
  <1> SUFFICES ASSUME Init PROVE IInv
    OBVIOUS
  <1>1. slots = <<>> /\ todo = {} /\ current = FALSE /\ levels = Quiet BY DEF Init
  <1>2. DOMAIN slots = {} /\ slots \in Seq(Slot) /\ Len(slots) = 0 BY <1>1
  <1>3. TypeOK
    <2>1. Quiet \in [Source -> Level] BY SlotConstants DEF Quiet
    <2>2. 0 \in 0..MaxTicks /\ 0 <= MaxSlots BY SlotConstants
    <2>3. QED BY <1>2, <2>1, <2>2 DEF Init, TypeOK
  <1>4. Sorted /\ NoTwice /\ FadesOut BY <1>2 DEF Sorted, NoTwice, FadesOut
  <1>5. QED BY <1>1, <1>3, <1>4 DEF IInv, Pending, Done

\* Entering and leaving the tree, and tick(), leave the slots alone.
LEMMA OutsideStep ==
  ASSUME IInv, EnterTree \/ ExitTree \/ Tick
  PROVE  IInv'
  <1>1. UNCHANGED <<slots, lastApplied, todo, loud>> /\ todo = {} /\ current' = FALSE
    BY DEF EnterTree, ExitTree, Tick, Idle
  <1>2. TypeOK'
    <2>1. levels' \in [Source -> Level]
      BY SlotConstants DEF IInv, TypeOK, EnterTree, ExitTree, Tick, server, Quiet
    <2>2. version' \in 0..MaxTicks
      BY SlotConstants DEF IInv, TypeOK, EnterTree, ExitTree, Tick, server
    <2>3. registered' \in BOOLEAN /\ ticked' \in BOOLEAN
      BY DEF IInv, TypeOK, EnterTree, ExitTree, Tick, server
    <2>4. QED BY <1>1, <2>1, <2>2, <2>3 DEF IInv, TypeOK
  <1>3. Sorted' /\ NoTwice' /\ FadesOut'
    BY <1>1 DEF IInv, Sorted, NoTwice, FadesOut
  <1>4. Pending'
    BY <1>1 DEF IInv, Pending, Fresh, EnterTree, ExitTree, Tick, server, Quiet
  <1>5. QED BY <1>1, <1>2, <1>3, <1>4 DEF IInv, Done

\* Changing their number drops the last slots or adds empty ones.
LEMMA SetNumSlotsStep ==
  ASSUME IInv, NEW n \in 0..MaxSlots, SetNumSlots(n)
  PROVE  IInv'
  <1>t. SlotsTyped BY TypedSlots DEF IInv
  <1>1. /\ DOMAIN slots' = 1..n
        /\ \A i \in 1..n : \/ i \in DOMAIN slots /\ slots'[i] = slots[i]
                           \/ i > Len(slots) /\ slots'[i] = Cleared
    <2>1. slots' = [i \in 1..n |-> IF i <= Len(slots) THEN slots[i] ELSE Cleared]
      BY DEF SetNumSlots
    <2>2. \A i \in 1..n : i <= Len(slots) => i \in DOMAIN slots BY <1>t DEF SlotsTyped
    <2>3. \A i \in 1..n : i <= Len(slots) \/ i > Len(slots) BY <1>t DEF SlotsTyped
    <2>4. QED BY <2>1, <2>2, <2>3
  <1>2. Cleared \in Slot /\ Cleared.source = NoSource /\ Cleared.level = Silent
    BY SlotConstants DEF Cleared, Slot
  <1>3. slots' \in [1..n -> Slot]
    <2>1. \A i \in 1..n : slots'[i] \in Slot BY <1>1, <1>2, <1>t DEF SlotsTyped
    <2>2. slots' = [i \in 1..n |-> slots'[i]] BY DEF SetNumSlots
    <2>3. QED BY <2>1, <2>2
  <1>4. slots' \in Seq(Slot) /\ Len(slots') = n BY <1>3, SlotSequence
  <1>u. /\ registered' = registered /\ levels' = levels /\ version' = version
        /\ lastApplied' = lastApplied /\ todo' = todo /\ ticked' = ticked /\ loud' = loud
        /\ current' = FALSE
    BY DEF SetNumSlots, server
  <1>5. TypeOK'
    <2>1. slots' \in Seq(Slot) /\ Len(slots') <= MaxSlots BY <1>4, SlotConstants
    <2>2. QED BY <2>1, <1>u DEF IInv, TypeOK
  <1>6. Sorted'
    <2>1. \A i \in DOMAIN slots : slots[i].level >= Silent BY <1>t, SlotConstants DEF SlotsTyped
    <2>2. QED BY <1>1, <1>2, <1>t, <2>1 DEF IInv, Sorted, SlotsTyped
  <1>7. NoTwice' BY <1>1, <1>2 DEF IInv, NoTwice
  <1>8. FadesOut' BY <1>1, <1>2, <1>u DEF IInv, FadesOut
  <1>9. Pending' /\ Done' BY <1>u DEF IInv, Pending, Done, Fresh
  <1>10. QED BY <1>5, <1>6, <1>7, <1>8, <1>9 DEF IInv

\* A frame lets every slot decay.
LEMMA ProcessStep ==
  ASSUME IInv, Process
  PROVE  IInv'
  <1>t. SlotsTyped BY TypedSlots DEF IInv
  <1>1. /\ DOMAIN slots' = DOMAIN slots
        /\ \A i \in DOMAIN slots :
             /\ slots'[i] \in Slot /\ slots'[i].level = Faded(slots[i].level)
             /\ slots'[i].source = IF Faded(slots[i].level) = Silent THEN NoSource
                                                                    ELSE slots[i].source
    BY <1>t, DecaySlot DEF Process, SlotsTyped
  <1>2. slots' \in [1..Len(slots) -> Slot] BY <1>1, <1>t DEF Process, SlotsTyped
  <1>3. slots' \in Seq(Slot) /\ Len(slots') = Len(slots)
    BY <1>2, <1>t, SlotSequence DEF SlotsTyped
  <1>f. \A a, b \in Level : /\ Faded(a) \in Level /\ Louder(a, b) \in Level
                            /\ Louder(a, b) >= a /\ Louder(a, b) >= b
                            /\ a >= b => Faded(a) >= Faded(b)
    BY SlotConstants DEF Faded, Louder
  <1>l. loud \in [Source -> Level] /\ levels \in [Source -> Level] /\ levels' = levels
    BY DEF IInv, TypeOK, Process, server
  <1>m. \A s \in Source :
          /\ loud'[s] = Louder(Faded(loud[s]), IF ticked THEN levels[s] ELSE Silent)
          /\ loud'[s] \in Level /\ loud'[s] >= Faded(loud[s]) /\ (ticked => loud'[s] >= levels[s])
    <2> SUFFICES ASSUME NEW s \in Source
                 PROVE  /\ loud'[s] = Louder(Faded(loud[s]), IF ticked THEN levels[s] ELSE Silent)
                        /\ loud'[s] \in Level /\ loud'[s] >= Faded(loud[s])
                        /\ (ticked => loud'[s] >= levels[s])
      OBVIOUS
    <2>1. loud'[s] = Louder(Faded(loud[s]), IF ticked THEN levels[s] ELSE Silent) BY DEF Process
    <2>2. Faded(loud[s]) \in Level /\ levels[s] \in Level /\ Silent \in Level
      BY <1>l, <1>f, SlotConstants
    <2>3. QED BY <2>1, <2>2, <1>f
  <1>5. TypeOK'
    <2>1. loud' \in [Source -> Level] BY <1>m DEF Process
    <2>2. QED BY <1>3, <2>1 DEF IInv, TypeOK, Process, server, Fresh
  <1>6. Sorted'
    <2>1. \A i, j \in DOMAIN slots : i < j => slots'[i].level >= slots'[j].level
      BY <1>1, <1>f, <1>t DEF IInv, Sorted, SlotsTyped
    <2>2. \A i \in DOMAIN slots : slots'[i].source = NoSource <=> slots'[i].level = Silent
      BY <1>1 DEF IInv, Sorted, Faded
    <2>3. QED BY <1>1, <2>1, <2>2 DEF Sorted
  <1>7. NoTwice' BY <1>1 DEF IInv, NoTwice
  <1>8. FadesOut'
    <2> SUFFICES ASSUME NEW i \in DOMAIN slots, slots'[i].source # NoSource
                 PROVE  slots'[i].level <= loud'[slots'[i].source]
      BY <1>1 DEF FadesOut
    <2> DEFINE s == slots[i].source
    <2>1. slots'[i].source = s /\ s # NoSource /\ s \in Source /\ slots[i].level \in Level
      BY <1>1, <1>t DEF SlotsTyped
    <2>2. loud[s] >= slots[i].level BY <2>1, <1>l DEF IInv, FadesOut
    <2>3. loud[s] \in Level BY <2>1, <1>l
    <2> HIDE DEF s
    <2>4. Faded(loud[s]) >= Faded(slots[i].level) BY <2>1, <2>2, <2>3, <1>f
    <2>5. /\ loud'[s] >= Faded(loud[s]) /\ loud'[s] \in Level /\ Faded(loud[s]) \in Level
          /\ Faded(slots[i].level) \in Level
      BY <2>1, <2>3, <1>m, <1>f
    <2>6. QED BY <2>1, <2>4, <2>5, <1>1
  <1>9. Pending'
    <2>1. ~Fresh' BY DEF Process, server, Fresh
    <2>2. ~ticked => todo' = {} BY DEF IInv, Pending, Process, Quiet
    <2>3. todo' \subseteq Source BY <1>5 DEF TypeOK
    <2>4. QED BY <2>1, <2>2, <2>3, <1>m, <1>l DEF Pending
  <1>10. Done'
    <2> SUFFICES ASSUME current', NEW s \in Source \ todo' PROVE Heard(s)'
      BY DEF Done
    <2>1. levels'[s] = Silent BY <1>l DEF Process
    <2>2. \A i \in DOMAIN slots' : slots'[i].level >= Silent BY <1>1, SlotConstants DEF Slot
    <2>3. QED BY <2>1, <2>2, <1>1, SlotConstants DEF Heard, Holding, Slot
  <1>11. QED BY <1>5, <1>6, <1>7, <1>8, <1>9, <1>10 DEF IInv

\* What taking in one source leaves of HoldsLoudest: it is heard itself, and every
\* source that was heard before still is.
LEMMA TakeInHeard ==
  ASSUME TypeOK, Sorted, NoTwice, NEW s \in Source, TakeIn(s)
  PROVE  Heard(s)' /\ \A r \in Source \ {s} : Heard(r) => Heard(r)'
  <1> DEFINE x == [source |-> s, level |-> levels[s]]
  <1>t. SlotsTyped /\ levels \in [Source -> Level] /\ levels' = levels
    BY TypedSlots DEF TypeOK, TakeIn, server
  <1>x. x.source = s /\ x.level = levels[s] OBVIOUS
  <1> HIDE DEF x
  <1>1. CASE /\ UNCHANGED slots
             /\ \/ \E i \in Holding(s) : levels[s] <= slots[i].level
                \/ Holding(s) = {} /\ \A k \in DOMAIN slots : levels[s] <= slots[k].level
    <2>1. \A r \in Source : Heard(r)' <=> Heard(r) BY <1>1, <1>t DEF Heard, Holding
    <2>2. Heard(s)
      <3>1. \A a, b \in Holding(s) : a = b BY SlotConstants DEF NoTwice, Holding
      <3>2. QED BY <1>1, <3>1 DEF Heard
    <2>3. QED BY <2>1, <2>2
  <1>2. ASSUME NEW i \in DOMAIN slots, NEW j \in DOMAIN slots, Moves(x, j, i)
        PROVE  Heard(s)' /\ \A r \in Source \ {s} : Heard(r) => Heard(r)'
    <2>m. /\ DOMAIN slots' = DOMAIN slots /\ slots'[j] = x
          /\ \A k \in DOMAIN slots : k # j => /\ From(k, j, i) \in DOMAIN slots
                                              /\ From(k, j, i) # i
                                              /\ slots'[k] = slots[From(k, j, i)]
          /\ \A k \in DOMAIN slots : slots[k].level <= slots'[k].level
          /\ \A k \in DOMAIN slots : slots[k].level \in Int /\ slots'[k].level \in Int
      <3>1. slots' \in Seq(Slot) /\ DOMAIN slots' = DOMAIN slots BY <1>2, MovedSlots
      <3>2. \A k \in DOMAIN slots : slots'[k] \in Slot BY <3>1
      <3>3. \A k \in DOMAIN slots : slots'[k].level \in Int BY <3>2, SlotConstants DEF Slot
      <3>4. QED BY <1>2, <3>1, <3>3, <1>t, MovedSlots DEF SlotsTyped
    <2>1. Heard(s)'
      <3>1. \A k \in DOMAIN slots : k # j => slots'[k].source # s
        BY <1>2, <2>m, <1>x DEF Moves
      <3>2. \A k \in DOMAIN slots' : slots'[k].source = s <=> k = j BY <3>1, <2>m, <1>x, <1>2
      <3>3. levels'[s] <= slots'[j].level BY <2>m, <1>x, <1>t, <1>2
      <3>4. QED BY <3>2, <3>3, <2>m DEF Heard, Holding
    <2>2. ASSUME NEW r \in Source \ {s}, Heard(r)
          PROVE  Heard(r)'
      <3>1. CASE Holding(r) = {}
        <4>1. \A k \in DOMAIN slots : levels[r] <= slots[k].level BY <3>1, <2>2 DEF Heard
        <4>2. \A k \in DOMAIN slots' : levels'[r] <= slots'[k].level
          BY <4>1, <2>m, <1>t, SlotConstants
        <4>3. QED BY <4>2 DEF Heard, Holding
      <3>2. CASE Holding(r) # {} /\ Holding(r)' # {}
        <4>1. \A k \in Holding(r) : levels[r] <= slots[k].level BY <3>2, <2>2 DEF Heard
        <4>2. \A k \in DOMAIN slots' : slots'[k].source = r => levels'[r] <= slots'[k].level
          <5> SUFFICES ASSUME NEW k \in DOMAIN slots, slots'[k].source = r
                       PROVE  levels[r] <= slots'[k].level
            BY <2>m, <1>t
          <5>1. k # j BY <2>m, <1>x
          <5>2. From(k, j, i) \in Holding(r) BY <5>1, <2>m DEF Holding
          <5>3. QED BY <5>1, <5>2, <4>1, <2>m
        <4>3. QED BY <3>2, <4>2 DEF Heard, Holding
      <3>3. CASE Holding(r) # {} /\ Holding(r)' = {}
        <4>1. PICK k \in DOMAIN slots : slots[k].source = r BY <3>3 DEF Holding
        <4>2. levels[r] <= slots[k].level BY <4>1, <3>3, <2>2 DEF Heard, Holding
        <4>3. k = i
          <5> SUFFICES ASSUME k # i PROVE FALSE
            OBVIOUS
          <5>1. DOMAIN slots = 1..Len(slots) /\ Len(slots) \in Nat BY <1>t DEF SlotsTyped
          <5>2. PICK l \in DOMAIN slots : l # j /\ From(l, j, i) = k
            <6>1. CASE j <= k /\ k < i
              <7>1. k + 1 \in DOMAIN slots /\ k + 1 # j /\ From(k + 1, j, i) = k
                BY <6>1, <5>1, <4>1, <1>2 DEF From
              <7>2. QED BY <7>1
            <6>2. CASE k < j \/ k > i BY <6>2, <5>1, <4>1, <1>2 DEF From, Moves
            <6>3. QED BY <6>1, <6>2, <5>1, <4>1, <1>2
          <5>3. slots'[l].source = r BY <5>2, <4>1, <2>m
          <5>4. QED BY <5>3, <3>3, <2>m DEF Holding
        <4>4. i = Len(slots) BY <4>3, <4>1, <1>2, <1>x DEF Moves
        <4>5. \A l \in DOMAIN slots : levels[r] <= slots[l].level
          <5> SUFFICES ASSUME NEW l \in DOMAIN slots PROVE levels[r] <= slots[l].level
            OBVIOUS
          <5>1. l = i \/ slots[l].level >= slots[i].level
            BY <4>4, <1>t DEF Sorted, SlotsTyped
          <5>2. levels[r] \in Int BY <1>t, SlotConstants
          <5>3. QED BY <5>1, <5>2, <4>2, <4>3, <2>m
        <4>6. \A l \in DOMAIN slots' : levels'[r] <= slots'[l].level
          BY <4>5, <2>m, <1>t, SlotConstants
        <4>7. QED BY <4>6, <3>3 DEF Heard, Holding
      <3>4. QED BY <3>1, <3>2, <3>3
    <2>3. QED BY <2>1, <2>2
  <1>3. QED BY <1>1, <1>2, TakeInMoves DEF x

\* A source is taken in.
LEMMA TakeInStep ==
  ASSUME IInv, NEW s \in Source, TakeIn(s)
  PROVE  IInv'
  <1> DEFINE x == [source |-> s, level |-> levels[s]]
  <1>i. TypeOK /\ Sorted /\ NoTwice /\ Pending /\ FadesOut /\ Done BY DEF IInv
  <1>u. /\ registered' = registered /\ levels' = levels /\ version' = version
        /\ lastApplied' = lastApplied /\ ticked' = ticked /\ loud' = loud
        /\ current' = current /\ s \in todo /\ todo' = todo \ {s}
    BY DEF TakeIn, server, history
  <1>x. x.source = s /\ x.level = levels[s] OBVIOUS
  <1> HIDE DEF x
  <1>1. Done' /\ Pending'
    <2>1. Heard(s)' /\ \A r \in Source \ {s} : Heard(r) => Heard(r)' BY <1>i, TakeInHeard
    <2>2. QED BY <2>1, <1>i, <1>u DEF Done, Pending, Fresh
  <1>2. CASE UNCHANGED slots
    BY <1>1, <1>2, <1>i, <1>u DEF IInv, TypeOK, Sorted, NoTwice, FadesOut
  <1>3. ASSUME NEW i \in DOMAIN slots, NEW j \in DOMAIN slots, Moves(x, j, i)
        PROVE  IInv'
    <2>1. Sorted' /\ NoTwice' BY <1>3, <1>i, MoveSorts, MoveOnce
    <2>2. TypeOK'
      <3>1. slots' \in Seq(Slot) /\ Len(slots') = Len(slots) BY <1>3, <1>i, MovedSlots
      <3>2. QED BY <3>1, <1>u, <1>i DEF TypeOK
    <2>3. FadesOut'
      <3>1. /\ DOMAIN slots' = DOMAIN slots /\ slots'[j] = x
            /\ \A k \in DOMAIN slots : k # j => /\ From(k, j, i) \in DOMAIN slots
                                                /\ slots'[k] = slots[From(k, j, i)]
        BY <1>3, <1>i, MovedSlots
      <3>2. x.level <= loud[x.source] BY <1>x, <1>u, <1>i DEF Pending
      <3>3. QED BY <3>1, <3>2, <1>u, <1>i DEF FadesOut
    <2>4. QED BY <2>1, <2>2, <2>3, <1>1 DEF IInv
  <1>4. QED BY <1>2, <1>3, <1>i, TakeInMoves DEF x

LEMMA NextIInv == IInv /\ [Next]_vars => IInv'
  <1> SUFFICES ASSUME IInv, [Next]_vars PROVE IInv'
    OBVIOUS
  <1>1. CASE UNCHANGED vars
    BY <1>1 DEF vars, server, history, IInv, TypeOK, Sorted, NoTwice, Pending, Fresh, FadesOut,
                Done, Heard, Holding
  <1>2. QED
    BY <1>1, OutsideStep, SetNumSlotsStep, ProcessStep, TakeInStep DEF Next

\* The variables keep their types.
THEOREM TypeCorrect == Spec => []TypeOK
  <1>1. IInv => TypeOK BY DEF IInv
  <1>2. QED BY InitIInv, NextIInv, <1>1, PTL DEF Spec

\* Whatever decays, is moved up or shifted down, the slots are sorted and hold every
\* source at most once.
THEOREM SlotsInOrder == Spec => [](Sorted /\ NoTwice)
  <1>1. IInv => Sorted /\ NoTwice BY DEF IInv
  <1>2. QED BY InitIInv, NextIInv, <1>1, PTL DEF Spec

\* No source holds two slots, whatever the order of the snapshots.
THEOREM SlotsUnique == Spec => []NoTwice
  <1>1. IInv => NoTwice BY DEF IInv
  <1>2. QED BY InitIInv, NextIInv, <1>1, PTL DEF Spec

\* A snapshot that tick() did not rebuild is not heard again: every slot fades.
THEOREM SlotsFade == Spec => []FadesOut
  <1>1. IInv => FadesOut BY DEF IInv
  <1>2. QED BY InitIInv, NextIInv, <1>1, PTL DEF Spec

\* When a snapshot has been taken in, in whatever order its sources come, the slots
\* hold the loudest of it.
THEOREM SlotsHoldLoudest == Spec => []HoldsLoudest
  <1>1. IInv => HoldsLoudest BY DEF IInv, Done, HoldsLoudest, Idle
  <1>2. QED BY InitIInv, NextIInv, <1>1, PTL DEF Spec

=============================================================================
