----------------------------- MODULE DirectSim -----------------------------
(***************************************************************************)
(* What tick() and its job do for each pair of a source and a listener, on *)
(* top of SimHandshake: the pair comes into and leaves range, its          *)
(* IPLSource is created by the job, added to and removed from the          *)
(* listener's simulator, committed, simulated, and its results are used.   *)
(*                                                                         *)
(* iplSourceAdd() and iplSourceRemove() only take effect with the next     *)
(* commit of the simulator.                                                *)
(***************************************************************************)
EXTENDS SimHandshake

CONSTANTS
  Source,       \* the sources
  Distance,     \* bound: distances of a source from a listener
  Reach         \* bound: ranges of listeners, maximal distances of sources

ASSUME DirectConstants == Distance \subseteq Int /\ Reach \subseteq Int

Pair == Source \X Listener

VARIABLES
  pairs,          \* existing SourceListenerData
  source,         \* pairs whose IPLSource exists
  outOfRange,     \* pairs with out_of_range
  pendingCreate,  \* pairs with pending_create
  simulated,      \* pairs with direct_simulated_once
  added,          \* how often a pair's source was added more than removed
  committed,      \* pairs whose source its simulator has had since its commit
  leftover,       \* listeners whose simulator has a source no pair has any more
  ran             \* history: pairs whose source was in a direct simulation

pairVars == <<pairs, source, outOfRange, pendingCreate, simulated, added,
              committed, leftover, ran>>
dvars == <<vars, pairVars>>

DInit ==
  /\ Init
  /\ pairs = {} /\ source = {} /\ outOfRange = {} /\ pendingCreate = {}
  /\ simulated = {} /\ added = [q \in Pair |-> 0] /\ committed = {}
  /\ leftover = {} /\ ran = {}

ListenersOf(ps) == {q[2] : q \in ps}

-----------------------------------------------------------------------------
(* tick(): steps 2 and 4.                                                  *)

\* The results of the last job are taken for the pairs it may have simulated.
ConsumedAnyway(matching) == matching \ outOfRange
Consumed(matching) == (matching \ outOfRange) \cap source

\* The range of a pair; without reflections the source has its own limit.
Limit(range, max, reflections) ==
  IF reflections \/ range <= max THEN range ELSE max
Limits == {Limit(range, max, reflections) : range, max \in Reach, reflections \in BOOLEAN}

\* Hysteresis of a tenth; a limit of zero means none.
Leaves(d, limit)  == limit > 0 /\ 10 * d > 11 * limit
Returns(d, limit) == limit <= 0 \/ d <= limit

\* Pairs that are in range now get an IPLSource if they have none.
WantingAnywhere(placed, out) == placed \ source
Wanting(placed, out) == (placed \ out) \ source

\* Listeners whose simulator has something to commit.
TouchedByNew(leaving, returning, wanting) == ListenersOf(wanting)
Touched(leaving, returning, wanting) ==
  ListenersOf(((leaving \cup returning) \cap source) \cup wanting)

Reconsider(matching, placed, leaving, returning) ==
  /\ simulated' = simulated \cup Consumed(matching)
  /\ outOfRange' = (outOfRange \cup leaving) \ returning
  /\ added' = [q \in Pair |-> IF q \in leaving \cap source THEN added[q] - 1
                              ELSE IF q \in returning \cap source THEN added[q] + 1
                              ELSE added[q]]
  /\ pendingCreate' = pendingCreate \cup Wanting(placed, outOfRange')
  /\ dirty' = dirty \cup Touched(leaving, returning, Wanting(placed, outOfRange') \ pendingCreate)
  /\ UNCHANGED <<pairs, source, committed, leftover, ran>>

\* Pairs with matching masks report their level, and those whose source has
\* a transform are updated.
TickPairs ==
  \E matching \in SUBSET pairs, d \in [pairs -> Distance], limit \in [pairs -> Limits] :
  \E placed \in SUBSET matching :
    Reconsider(matching, placed, {q \in placed \ outOfRange : Leaves(d[q], limit[q])},
                                 {q \in placed \cap outOfRange : Returns(d[q], limit[q])})

-----------------------------------------------------------------------------
(* run_direct_job()                                                        *)

\* Step 1: the sources that are to be created; creating one may fail.
CreateSources ==
  \E made \in SUBSET pendingCreate :
    /\ source' = source \cup made
    /\ added' = [q \in Pair |-> IF q \in made THEN added[q] + 1 ELSE added[q]]
    /\ pendingCreate' = {}
    /\ UNCHANGED <<pairs, outOfRange, simulated, committed, leftover, ran>>

\* Step 2: the dirty simulators are committed.
CommitPairs ==
  LET done == dirty \cap listeners IN
  /\ committed' = {q \in pairs : IF q[2] \in done THEN added[q] > 0 ELSE q \in committed}
  /\ leftover' = leftover \ done
  /\ UNCHANGED <<pairs, source, outOfRange, pendingCreate, simulated, added, ran>>

\* Step 3: all simulators run.
RunDirect ==
  /\ ran' = ran \cup committed
  /\ UNCHANGED <<pairs, source, outOfRange, pendingCreate, simulated, added,
                 committed, leftover>>

-----------------------------------------------------------------------------
(* apply_pending_ops() and finish()                                        *)

\* Pairs of sources and listeners that are removed go, new ones come.
Replace(gone, made) ==
  /\ pairs' = (pairs \ gone) \cup made
  /\ source' = source \ gone /\ outOfRange' = outOfRange \ gone
  /\ pendingCreate' = pendingCreate \ gone /\ simulated' = simulated \ gone
  /\ added' = [q \in Pair |-> IF q \in gone THEN 0 ELSE added[q]]
  /\ committed' = committed \ gone /\ ran' = ran \ gone
  /\ leftover' = (leftover \cup ListenersOf(gone \cap committed)) \cap listeners'
  /\ dirty' = (dirty \cup batch.add \cup ListenersOf(gone \cap source)) \cap listeners'

\* A new source or listener is paired with what is there already; creating a
\* pair may fail.
ApplyPairs ==
  \E freed \in SUBSET Source :
  LET gone == {q \in pairs : q[1] \in freed \/ q[2] \notin listeners'}
      free == {q \in Pair : /\ q[2] \in listeners' /\ q \notin pairs \ gone
                            /\ batch.touch \/ q[2] \notin listeners}
  IN /\ freed # {} => batch.touch
     /\ \E made \in SUBSET free : Replace(gone, made)

ReleasePairs ==
  /\ pairs' = {} /\ source' = {} /\ outOfRange' = {} /\ pendingCreate' = {}
  /\ simulated' = {} /\ added' = [q \in Pair |-> 0]
  /\ committed' = {} /\ leftover' = {} /\ ran' = {}

-----------------------------------------------------------------------------
Others ==
  \/ Api \/ Barrier \/ TickLock \/ TickUnlock \/ SetMaterial \/ Finish \/ FinishNotify
  \/ Join \/ AwaitJob \/ TickStopped \/ Decide \/ JobEnd \/ Refl \/ MixTop \/ LockUnique
  \/ Process

DNext ==
  \/ Update /\ TickPairs
  \/ JobStart /\ CreateSources
  \/ Commit /\ CommitPairs
  \/ SetInputs /\ RunDirect
  \/ ApplyOps /\ ApplyPairs
  \/ Release /\ ReleasePairs
  \/ Others /\ UNCHANGED pairVars

DSpec == DInit /\ [][DNext]_dvars

-----------------------------------------------------------------------------
(* Properties.                                                             *)

PairsOK ==
  /\ pairs \subseteq Source \X listeners
  /\ source \subseteq pairs /\ outOfRange \subseteq pairs
  /\ simulated \subseteq source /\ pendingCreate \subseteq pairs \ source
  /\ added \in [Pair -> Int]
  /\ committed \subseteq source /\ leftover \subseteq listeners /\ ran \subseteq source

PairTypeOK == TypeOK /\ PairsOK

\* The source of a pair is in its simulator, once, if and only if the pair is
\* in range: wherever it was when it was created, whatever became of its
\* range, and whether creating it took several attempts.
InSimulator ==
  \A q \in pairs : added[q] = IF q \in source \ outOfRange THEN 1 ELSE 0

\* A simulator that differs from what was added and removed is dirty, so that
\* a later job commits it: commits that meet a reflection pass are put off,
\* and pairs vanish meanwhile.
StagedIsDirty ==
  /\ leftover \subseteq dirty
  /\ \A q \in pairs : q[2] \in dirty \/ (added[q] > 0 <=> q \in committed)

\* tick() takes results of a pair ("simulation has now run at least once")
\* that no simulation computed only while a commit of its simulator is put
\* off.
ResultsAreReal ==
  \A q \in simulated \ outOfRange : q \in ran \/ q[2] \in dirty \/ pcJob = "direct"

=============================================================================
