---------------------------- MODULE DirectProofs ----------------------------
(***************************************************************************)
(* The pairs and their simulators, for every set of sources and listeners. *)
(***************************************************************************)
EXTENDS DirectSim, SimProofs

\* A pair whose source is in range was simulated, or it will be: the commit
\* is due, or done in this very job.
Due ==
  \A q \in source \ outOfRange :
    q \in ran \/ q[2] \in dirty \/ (pcJob = "direct" /\ q \in committed)

\* Creations wait only for the job of the tick that asked for them.
Pending ==
  /\ pendingCreate # {} => pcJob = "queued"
  /\ \A q \in pendingCreate : q[2] \in dirty /\ q \notin outOfRange

\* A pair that does not exist left nothing behind that a new one could find.
Blank == \A q \in Pair \ pairs : added[q] = 0

PairInv == PairsOK /\ InSimulator /\ StagedIsDirty /\ Due /\ Pending /\ Blank
DInv == TypeOK /\ SimInv /\ PairInv

-----------------------------------------------------------------------------
\* Every step is a step of the handshake.
LEMMA StepsOfHandshake == DNext => Next
BY DEF DNext, Others, Next, Api, Tick, Finishing, Job, Refl, Mix

\* What the other steps leave alone.
LEMMA OthersKeep ==
  ASSUME SimInv, Others
  PROVE  /\ UNCHANGED <<dirty, listeners>>
         /\ pcJob \in {"queued", "direct"} => pcJob' = pcJob
<1> USE DEF ops, stale, handshake
<1>1. CASE Api
  BY <1>1 DEF Api, CreateListener, FreeListener, QueueOther, LockMaterial
<1>2. CASE Barrier \/ AwaitJob
  BY <1>2 DEF Barrier, AwaitJob, SimInv, BarrierInv
<1>3. CASE TickLock \/ TickUnlock \/ SetMaterial
  BY <1>3 DEF TickLock, TickUnlock, SetMaterial
<1>4. CASE Finish \/ FinishNotify \/ Join
  BY <1>4 DEF Finish, FinishNotify, Join
<1>5. CASE TickStopped
  BY <1>5 DEF TickStopped, vars
<1>6. CASE Decide \/ JobEnd
  BY <1>6 DEF Decide, JobEnd
<1>7. CASE Refl
  BY <1>7 DEF Refl, ReflCheck, Retain, Simulate, ReflLeave
<1>8. CASE MixTop \/ LockUnique \/ Process
  BY <1>8 DEF MixTop, LockUnique, Process
<1>9. QED
  BY <1>1, <1>2, <1>3, <1>4, <1>5, <1>6, <1>7, <1>8 DEF Others

LEMMA PairsArePairs == DInv => pairs \subseteq Pair
BY DEF DInv, PairInv, PairsOK, Pair, TypeOK, OpsOK

LEMMA OthersStep ==
  ASSUME DInv, Others \/ UNCHANGED vars, UNCHANGED pairVars
  PROVE  PairInv'
<1>1. /\ UNCHANGED <<dirty, listeners>>
      /\ pcJob \in {"queued", "direct"} => pcJob' = pcJob
  <2>1. CASE Others
    BY <2>1, OthersKeep DEF DInv
  <2>2. CASE UNCHANGED vars
    BY <2>2 DEF vars, stale
  <2>3. QED
    BY <2>1, <2>2
<1>2. QED
  BY <1>1 DEF DInv, PairInv, PairsOK, InSimulator, StagedIsDirty, Due, Pending, Blank, pairVars

\* tick(): what comes into and leaves range is staged and leaves its listener
\* dirty.  There is no job, so no creation is waiting.
LEMMA TickStep ==
  ASSUME DInv, Update, TickPairs
  PROVE  PairInv'
<1>0. pairs \subseteq Pair
  BY PairsArePairs
<1> USE DEF DInv, PairInv, PairsOK
<1>1. pcJob = "none" /\ pcJob' = "queued" /\ UNCHANGED listeners
  BY DEF Update, SimInv, BarrierInv, ops
<1>2. pendingCreate = {}
  BY <1>1 DEF Pending
<1>3. PICK matching, placed, leaving, returning \in SUBSET pairs :
        /\ leaving \subseteq placed \ outOfRange /\ returning \subseteq placed \cap outOfRange
        /\ Reconsider(matching, placed, leaving, returning)
  <2>1. PICK matching \in SUBSET pairs, d \in [pairs -> Distance], limit \in [pairs -> Limits] :
          \E placed \in SUBSET matching :
            Reconsider(matching, placed, {q \in placed \ outOfRange : Leaves(d[q], limit[q])},
                                 {q \in placed \cap outOfRange : Returns(d[q], limit[q])})
    BY DEF TickPairs
  <2>2. PICK placed \in SUBSET matching :
          Reconsider(matching, placed, {q \in placed \ outOfRange : Leaves(d[q], limit[q])},
                                 {q \in placed \cap outOfRange : Returns(d[q], limit[q])})
    BY <2>1
  <2> DEFINE leaving == {q \in placed \ outOfRange : Leaves(d[q], limit[q])}
             returning == {q \in placed \cap outOfRange : Returns(d[q], limit[q])}
  <2>3. /\ leaving \in SUBSET pairs /\ returning \in SUBSET pairs
        /\ leaving \subseteq placed \ outOfRange /\ returning \subseteq placed \cap outOfRange
    OBVIOUS
  <2> HIDE DEF leaving, returning
  <2>4. Reconsider(matching, placed, leaving, returning)
    BY <2>2 DEF leaving, returning
  <2>5. QED
    BY <2>3, <2>4
<1> DEFINE wanting == Wanting(placed, outOfRange')
<1>4. /\ simulated' = simulated \cup Consumed(matching)
      /\ outOfRange' = (outOfRange \cup leaving) \ returning
      /\ pendingCreate' = wanting
      /\ dirty' = dirty \cup Touched(leaving, returning, wanting)
      /\ UNCHANGED <<pairs, source, committed, leftover, ran>>
  BY <1>2, <1>3 DEF Reconsider
<1>5. /\ added' \in [Pair -> Int]
      /\ \A q \in Pair :
           added'[q] = IF q \in leaving \cap source THEN added[q] - 1
                       ELSE IF q \in returning \cap source THEN added[q] + 1
                       ELSE added[q]
  BY <1>3 DEF Reconsider
<1>6. wanting = placed \ (outOfRange' \cup source)
  BY DEF Wanting
<1>7. /\ \A q \in (leaving \cup returning) \cap source : q[2] \in dirty'
      /\ \A q \in wanting : q[2] \in dirty'
      /\ dirty \subseteq dirty'
  BY <1>4 DEF Touched, ListenersOf
<1>8. PairsOK'
  BY <1>1, <1>4, <1>5, <1>6 DEF Consumed
<1>9. InSimulator'
  <2> SUFFICES ASSUME NEW q \in pairs
               PROVE  added'[q] = IF q \in source \ outOfRange' THEN 1 ELSE 0
    BY <1>4 DEF InSimulator
  <2>1. added[q] = IF q \in source \ outOfRange THEN 1 ELSE 0
    BY DEF InSimulator
  <2>2. CASE q \in leaving
    BY <1>0, <1>3, <1>4, <1>5, <2>1, <2>2
  <2>3. CASE q \in returning
    BY <1>0, <1>3, <1>4, <1>5, <2>1, <2>3
  <2>4. CASE q \notin leaving \cup returning
    BY <1>0, <1>4, <1>5, <2>1, <2>4
  <2>5. QED
    BY <2>2, <2>3, <2>4
<1>10. StagedIsDirty'
  <2> SUFFICES ASSUME NEW q \in pairs, q[2] \notin dirty'
               PROVE  added'[q] > 0 <=> q \in committed
    BY <1>4, <1>7 DEF StagedIsDirty
  <2>1. added[q] > 0 <=> q \in committed
    BY <1>7 DEF StagedIsDirty
  <2>2. added'[q] = added[q]
    BY <1>0, <1>5, <1>7
  <2>3. QED
    BY <2>1, <2>2
<1>11. Due'
  BY <1>1, <1>4, <1>7 DEF Due
<1>12. Pending'
  BY <1>1, <1>4, <1>6, <1>7 DEF Pending
<1>13. Blank'
  BY <1>4, <1>5 DEF Blank
<1>14. QED
  BY <1>8, <1>9, <1>10, <1>11, <1>12, <1>13

\* The job creates what waits, in range all of it.
LEMMA CreateStep ==
  ASSUME DInv, JobStart, CreateSources
  PROVE  PairInv'
<1>0. pairs \subseteq Pair
  BY PairsArePairs
<1> USE DEF DInv, PairInv, PairsOK
<1>1. pcJob = "queued" /\ pcJob' = "decide" /\ UNCHANGED <<listeners, dirty>>
  BY DEF JobStart, ops, stale
<1>2. PICK made \in SUBSET pendingCreate :
        /\ source' = source \cup made
        /\ added' = [q \in Pair |-> IF q \in made THEN added[q] + 1 ELSE added[q]]
        /\ pendingCreate' = {}
        /\ UNCHANGED <<pairs, outOfRange, simulated, committed, leftover, ran>>
  BY DEF CreateSources
<1>3. /\ added' \in [Pair -> Int]
      /\ \A q \in Pair : added'[q] = IF q \in made THEN added[q] + 1 ELSE added[q]
  BY <1>2
<1>4. PairsOK'
  BY <1>1, <1>2, <1>3
<1>5. InSimulator'
  <2> SUFFICES ASSUME NEW q \in pairs
               PROVE  added'[q] = IF q \in source' \ outOfRange THEN 1 ELSE 0
    BY <1>2 DEF InSimulator
  <2>1. added[q] = IF q \in source \ outOfRange THEN 1 ELSE 0
    BY DEF InSimulator
  <2>2. q \in made => q \notin source /\ q \notin outOfRange
    BY DEF Pending
  <2>3. QED
    BY <1>0, <1>2, <1>3, <2>1, <2>2
<1>6. StagedIsDirty'
  <2> SUFFICES ASSUME NEW q \in pairs, q[2] \notin dirty
               PROVE  added'[q] > 0 <=> q \in committed
    BY <1>1, <1>2 DEF StagedIsDirty
  <2>1. added[q] > 0 <=> q \in committed
    BY DEF StagedIsDirty
  <2>2. q \notin made
    BY DEF Pending
  <2>3. QED
    BY <1>0, <1>3, <2>1, <2>2
<1>7. Due' /\ Pending'
  BY <1>1, <1>2 DEF Due, Pending
<1>8. Blank'
  BY <1>2, <1>3 DEF Blank
<1>9. QED
  BY <1>4, <1>5, <1>6, <1>7, <1>8

\* A commit takes over what was staged, in every listener that is dirty.
LEMMA CommitStep ==
  ASSUME DInv, Commit, CommitPairs
  PROVE  PairInv'
<1>0. pairs \subseteq Pair
  BY PairsArePairs
<1> USE DEF DInv, PairInv, PairsOK
<1>1. /\ pcJob = "commit" /\ pcJob' = "direct"
      /\ dirty' = dirty \ listeners /\ UNCHANGED listeners
  BY DEF Commit, ops
<1>2. /\ committed' = {q \in pairs : IF q[2] \in dirty \cap listeners THEN added[q] > 0
                                                                     ELSE q \in committed}
      /\ leftover' = leftover \ (dirty \cap listeners)
      /\ UNCHANGED <<pairs, source, outOfRange, pendingCreate, simulated, added, ran>>
  BY DEF CommitPairs
<1>3. \A q \in pairs : q[2] \in listeners
  OBVIOUS
<1>4. \A q \in pairs : added[q] > 0 <=> q \in source \ outOfRange
  BY DEF InSimulator
<1>5. PairsOK'
  BY <1>1, <1>2, <1>4
<1>6. InSimulator' /\ Blank'
  BY <1>2 DEF InSimulator, Blank
<1>7. StagedIsDirty'
  BY <1>1, <1>2, <1>3 DEF StagedIsDirty
<1>8. Due'
  BY <1>1, <1>2, <1>3, <1>4 DEF Due
<1>9. Pending'
  BY <1>1, <1>2 DEF Pending
<1>10. QED
  BY <1>5, <1>6, <1>7, <1>8, <1>9

\* The simulation runs on what is committed.
LEMMA DirectStep ==
  ASSUME DInv, SetInputs, RunDirect
  PROVE  PairInv'
<1> USE DEF DInv, PairInv, PairsOK
<1>1. pcJob = "direct" /\ pcJob' = "notify" /\ UNCHANGED <<listeners, dirty>>
  BY DEF SetInputs, ops, stale
<1>2. /\ ran' = ran \cup committed
      /\ UNCHANGED <<pairs, source, outOfRange, pendingCreate, simulated, added,
                     committed, leftover>>
  BY DEF RunDirect
<1>3. QED
  BY <1>1, <1>2 DEF InSimulator, StagedIsDirty, Due, Pending, Blank

\* Operations: what goes leaves its listener dirty if that listener stays,
\* what comes is blank.
LEMMA ApplyStep ==
  ASSUME DInv, ApplyOps, ApplyPairs
  PROVE  PairInv'
<1>0. pairs \subseteq Pair
  BY PairsArePairs
<1> USE DEF DInv, PairInv, PairsOK
<1>1. UNCHANGED pcJob
  BY DEF ApplyOps
<1>2. PICK freed \in SUBSET Source :
        \E made \in SUBSET {q \in Pair : q[2] \in listeners' /\ q \notin pairs \ {r \in pairs : r[1] \in freed \/ r[2] \notin listeners'}} :
          Replace({r \in pairs : r[1] \in freed \/ r[2] \notin listeners'}, made)
  BY DEF ApplyPairs
<1> DEFINE gone == {r \in pairs : r[1] \in freed \/ r[2] \notin listeners'}
<1>3. PICK made \in SUBSET {q \in Pair : q[2] \in listeners' /\ q \notin pairs \ gone} :
        Replace(gone, made)
  BY <1>2
<1>4. /\ gone \subseteq pairs /\ \A q \in pairs \ gone : q[2] \in listeners'
      /\ \A q \in made : q \in Pair /\ q[2] \in listeners' /\ q \notin pairs \ gone
  BY <1>3
<1> HIDE DEF gone
<1>5. /\ pairs' = (pairs \ gone) \cup made
      /\ source' = source \ gone /\ outOfRange' = outOfRange \ gone
      /\ pendingCreate' = pendingCreate \ gone /\ simulated' = simulated \ gone
      /\ committed' = committed \ gone /\ ran' = ran \ gone
  BY <1>3 DEF Replace
<1>6. /\ added' \in [Pair -> Int]
      /\ \A q \in Pair : added'[q] = IF q \in gone THEN 0 ELSE added[q]
  BY <1>3 DEF Replace
<1>7. /\ leftover' = (leftover \cup ListenersOf(gone \cap committed)) \cap listeners'
      /\ dirty' = (dirty \cup batch.add \cup ListenersOf(gone \cap source)) \cap listeners'
  BY <1>3 DEF Replace
<1>8. PairsOK'
  <2>1. pairs \ gone \subseteq Source \X listeners'
    BY <1>4
  <2>2. made \subseteq Source \X listeners'
    BY <1>4 DEF Pair
  <2>3. source' \cap made = {}
    BY <1>4, <1>5
  <2>4. QED
    BY <1>4, <1>5, <1>6, <1>7, <2>1, <2>2, <2>3
<1>9. InSimulator'
  <2> SUFFICES ASSUME NEW q \in pairs'
               PROVE  added'[q] = IF q \in source' \ outOfRange' THEN 1 ELSE 0
    BY DEF InSimulator
  <2>1. CASE q \in pairs \ gone
    <3>1. added[q] = IF q \in source \ outOfRange THEN 1 ELSE 0
      BY <2>1 DEF InSimulator
    <3>2. QED
      BY <1>0, <1>5, <1>6, <2>1, <3>1
  <2>2. CASE q \in made
    <3>1. added'[q] = 0 /\ q \notin source'
      BY <1>4, <1>5, <1>6, <2>2 DEF Blank
    <3>2. QED
      BY <3>1
  <2>3. QED
    BY <1>5, <2>1, <2>2
<1>10. StagedIsDirty'
  <2>1. leftover' \subseteq dirty'
    BY <1>7 DEF StagedIsDirty, ListenersOf
  <2>2. ASSUME NEW q \in pairs \ gone, q[2] \notin dirty'
        PROVE  added'[q] > 0 <=> q \in committed'
    <3>1. added[q] > 0 <=> q \in committed
      BY <1>4, <1>7, <2>2 DEF StagedIsDirty
    <3>2. added'[q] = added[q]
      BY <1>0, <1>6
    <3>3. QED
      BY <1>5, <3>1, <3>2
  <2>3. ASSUME NEW q \in made
        PROVE  added'[q] = 0 /\ q \notin committed'
    BY <1>4, <1>5, <1>6 DEF Blank
  <2>4. \A q \in pairs' : q[2] \in dirty' \/ (added'[q] > 0 <=> q \in committed')
    BY <1>5, <2>2, <2>3
  <2>5. QED
    BY <2>1, <2>4 DEF StagedIsDirty
<1>11. Due'
  BY <1>1, <1>4, <1>5, <1>7 DEF Due
<1>12. Pending'
  BY <1>1, <1>4, <1>5, <1>7 DEF Pending
<1>13. Blank'
  BY <1>4, <1>5, <1>6 DEF Blank
<1>14. QED
  BY <1>8, <1>9, <1>10, <1>11, <1>12, <1>13

LEMMA ReleaseStep ==
  ASSUME DInv, Release, ReleasePairs
  PROVE  PairInv'
BY DEF ReleasePairs, PairInv, PairsOK, InSimulator, StagedIsDirty, Due, Pending, Blank, Pair

-----------------------------------------------------------------------------
LEMMA DirectInit == DInit => DInv
<1>1. DInit => PairInv
  BY DEF DInit, PairInv, PairsOK, InSimulator, StagedIsDirty, Due, Pending, Blank, Pair
<1>2. QED
  BY <1>1, TypeInit, SimInit DEF DInit, DInv

LEMMA DirectSteps == DInv /\ [DNext]_dvars => DInv'
<1> SUFFICES ASSUME DInv, [DNext]_dvars PROVE DInv'
  OBVIOUS
<1>1. [Next]_vars
  BY StepsOfHandshake DEF dvars
<1>2. TypeOK' /\ SimInv'
  BY <1>1, TypeStep, SimStep DEF DInv
<1>3. PairInv'
  BY TickStep, CreateStep, CommitStep, DirectStep, ApplyStep, ReleaseStep, OthersStep
     DEF DNext, dvars
<1>4. QED
  BY <1>2, <1>3 DEF DInv

\* Type correctness; among others, results are only taken from sources that
\* exist, and no creation is asked for twice.
THEOREM PairTypeCorrect == DSpec => []PairTypeOK
<1>1. DInv => PairTypeOK
  BY DEF DInv, PairInv, PairTypeOK
<1>2. QED
  BY <1>1, DirectInit, DirectSteps, PTL DEF DSpec

\* A pair's source is in its simulator, once, exactly while it is in range.
THEOREM InRangeInSimulator == DSpec => []InSimulator
<1>1. DInv => InSimulator
  BY DEF DInv, PairInv
<1>2. QED
  BY <1>1, DirectInit, DirectSteps, PTL DEF DSpec

\* What was added or removed and is not committed yet leaves its listener
\* dirty.
THEOREM StagedStaysDirty == DSpec => []StagedIsDirty
<1>1. DInv => StagedIsDirty
  BY DEF DInv, PairInv
<1>2. QED
  BY <1>1, DirectInit, DirectSteps, PTL DEF DSpec

\* Results of a pair in range that no simulation computed are only taken
\* while a commit of its simulator is put off.
THEOREM RealResults == DSpec => []ResultsAreReal
<1>1. DInv => ResultsAreReal
  BY DEF DInv, PairInv, PairsOK, Due, ResultsAreReal
<1>2. QED
  BY <1>1, DirectInit, DirectSteps, PTL DEF DSpec

=============================================================================
