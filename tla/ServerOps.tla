----------------------------- MODULE ServerOps -----------------------------
(***************************************************************************)
(* The handles of SteamAudioServer and the queue behind them.  The main    *)
(* thread allocates and hands out RIDs and queues operations; the mixing   *)
(* thread takes the whole queue, waits for collections_mutex and applies   *)
(* one operation after the other; finish() applies the rest.  The callers  *)
(* are a SteamAudioSource node, with or without dynamic registration, and  *)
(* the nodes of listeners and geometry.                                    *)
(***************************************************************************)
EXTENDS Integers, Sequences

CONSTANTS
  Source,       \* RIDs of sources
  Other,        \* RIDs of listeners and geometry
  NoRid,        \* RID()
  Playback,     \* playbacks, each of them played once
  Volumes       \* bound: how many volumes there are

ASSUME OpsConstants ==
  /\ NoRid \notin Source \cup Other
  /\ Source \cap Other = {}
  /\ Volumes \in Nat

Rid    == Source \cup Other
Volume == 1..Volumes

VARIABLES
  phase,        \* of the server: running, stopping, draining, finished
  alive,        \* RIDs in the RID owners
  linked,       \* RIDs whose data is in a collection
  created,      \* RIDs made so far
  held,         \* RIDs of the other nodes
  node,         \* RID of the source node
  dynamic,      \* its dynamic_registration, set before it enters the tree
  inTree,
  expired,      \* timeout_registration_at has passed
  queue, batch, \* pending_ops; what was swapped out and is left to apply
  pcMix,        \* the mixing thread: top, queued, applying, process, ended
  playing,      \* playbacks for which is_playing()
  at,           \* the source in whose playbacks a playback is
  level,        \* volume_linear of that entry
  playedOn,     \* history: the RID a playback was played on
  asked,        \* history: the volume last asked for, 0 before it is played
  missed        \* history: playbacks that were swapped out when it was

rids     == <<alive, linked, created, held>>
source   == <<node, dynamic, inTree, expired>>
playback == <<playing, at, level>>
history  == <<playedOn, asked, missed>>
vars     == <<phase, rids, source, queue, batch, pcMix, playback, history>>

Add(r)        == [do |-> "add", rid |-> r]
Remove(r)     == [do |-> "remove", rid |-> r]
Play(r, p, v) == [do |-> "play", rid |-> r, playback |-> p, volume |-> v]

Init ==
  /\ phase = "running" /\ alive = {} /\ linked = {} /\ created = {} /\ held = {}
  /\ node = NoRid /\ dynamic \in BOOLEAN /\ inTree = FALSE /\ expired = FALSE
  /\ queue = <<>> /\ batch = <<>> /\ pcMix = "top"
  /\ playing = {}
  /\ at = [p \in Playback |-> NoRid] /\ level = [p \in Playback |-> 0]
  /\ playedOn = [p \in Playback |-> NoRid] /\ asked = level /\ missed = {}

\* A shared lock of collections_mutex is to be had.
Shared == pcMix # "applying"

Plays(op, p)  == op.do = "play" /\ op.playback = p
Waits(ops, p) == \E i \in DOMAIN ops : Plays(ops[i], p)

-----------------------------------------------------------------------------
(* Nodes of listeners and geometry.                                        *)

Create(r) ==
  /\ phase = "running" /\ r \in Other \ created
  /\ created' = created \cup {r} /\ alive' = alive \cup {r} /\ held' = held \cup {r}
  /\ queue' = Append(queue, Add(r))
  /\ UNCHANGED <<phase, linked, source, batch, pcMix, playback, history>>

Free(r) ==
  /\ phase = "running" /\ r \in held
  /\ held' = held \ {r} /\ queue' = Append(queue, Remove(r))
  /\ UNCHANGED <<phase, alive, linked, created, source, batch, pcMix, playback, history>>

-----------------------------------------------------------------------------
(* The source node.                                                        *)

\* register_on_server(); the nodes are gone when the extension calls finish().
Register(r) ==
  /\ node = NoRid /\ r \in Source \ created
  /\ node' = r /\ created' = created \cup {r} /\ alive' = alive \cup {r}

EnterTree ==
  /\ phase = "running" /\ ~inTree /\ inTree' = TRUE
  /\ \/ \E r \in Source : ~dynamic /\ Register(r) /\ queue' = Append(queue, Add(r))
     \/ /\ dynamic \/ node # NoRid
        /\ UNCHANGED <<node, alive, created, queue>>
  /\ UNCHANGED <<phase, linked, held, dynamic, expired, batch, pcMix, playback, history>>

UnregisterKeepsRid ==
  node # NoRid /\ queue' = Append(queue, Remove(node)) /\ UNCHANGED node
Unregister ==
  node # NoRid /\ queue' = Append(queue, Remove(node)) /\ node' = NoRid

ExitTree ==
  /\ phase = "running" /\ inTree /\ inTree' = FALSE
  /\ Unregister \/ (node = NoRid /\ UNCHANGED <<node, queue>>)
  /\ UNCHANGED <<phase, rids, dynamic, expired, batch, pcMix, playback, history>>

\* source_add_playback() starts p and queues it for r behind ops.
AddPlayback(r, p, v, ops) ==
  /\ queue' = Append(ops, Play(r, p, v)) /\ playing' = playing \cup {p}
  /\ playedOn' = [playedOn EXCEPT ![p] = r] /\ asked' = [asked EXCEPT ![p] = v]

\* play_stream() registers a dynamic node that is not registered.
PlayOnNode(p, v) ==
  /\ phase = "running" /\ asked[p] = 0
  /\ \/ /\ \E r \in Source :
              dynamic /\ Register(r) /\ AddPlayback(r, p, v, Append(queue, Add(r)))
        /\ UNCHANGED <<linked, held>>
     \/ /\ node # NoRid \/ ~dynamic
        /\ AddPlayback(node, p, v, queue) /\ UNCHANGED <<node, rids>>
  /\ UNCHANGED <<phase, dynamic, inTree, batch, pcMix, at, level, missed>>

\* Whichever it was, the timeout is put off.
PlayStreamNoTimer(p) == \E v \in Volume : PlayOnNode(p, v) /\ UNCHANGED expired
PlayStream(p) == \E v \in Volume : PlayOnNode(p, v) /\ expired' = FALSE

\* source_set_playback_volume() looks for the playback in the source, then in
\* the operations that are still queued; it misses one that was swapped out.
RequeuedAsIs(p, v) == queue
Requeued(p, v) ==
  [i \in DOMAIN queue |-> IF Plays(queue[i], p) THEN Play(node, p, v) ELSE queue[i]]

SetVolume(p, v) ==
  /\ phase = "running" /\ node # NoRid /\ playedOn[p] = node /\ Shared
  /\ asked' = [asked EXCEPT ![p] = v]
  /\ \/ /\ node \notin alive /\ UNCHANGED <<queue, level, missed>>
     \/ /\ node \in alive /\ at[p] = node
        /\ level' = [level EXCEPT ![p] = v] /\ missed' = missed \ {p} /\ UNCHANGED queue
     \/ /\ node \in alive /\ at[p] # node
        /\ queue' = Requeued(p, v) /\ UNCHANGED level
        /\ missed' = IF Waits(batch, p) THEN missed \cup {p} ELSE missed
  /\ UNCHANGED <<phase, rids, source, batch, pcMix, playing, at, playedOn>>

\* source_get_num_active_playbacks() # 0
ActiveOrStale == node \in alive /\ \E p \in Playback : at[p] = node
Active == node \in alive /\ \E p \in playing : at[p] = node

\* The process notification of a dynamic node.
KeepAlive ==
  /\ phase = "running" /\ inTree /\ dynamic /\ node # NoRid /\ Shared
  /\ Active /\ expired' = FALSE
  /\ UNCHANGED <<phase, rids, node, dynamic, inTree, queue, batch, pcMix, playback, history>>

TimeOut ==
  /\ phase = "running" /\ inTree /\ dynamic /\ node # NoRid /\ Shared
  /\ ~Active /\ expired /\ Unregister
  /\ UNCHANGED <<phase, rids, dynamic, inTree, expired, batch, pcMix, playback, history>>

\* A second has passed.  That the mixing thread applies within it what was
\* queued is an assumption: the code does not check it.
Expire ==
  /\ dynamic /\ ~expired /\ expired' = TRUE /\ queue = <<>> /\ batch = <<>>
  /\ UNCHANGED <<phase, rids, node, dynamic, inTree, queue, batch, pcMix, playback, history>>

\* A playback ends.
Stop(p) ==
  /\ p \in playing /\ playing' = playing \ {p}
  /\ UNCHANGED <<phase, rids, source, queue, batch, pcMix, at, level, history>>

-----------------------------------------------------------------------------
(* The mixing thread.                                                      *)

SwapNewestFirst ==
  /\ pcMix = "top" /\ phase = "running" /\ queue' = <<>>
  /\ batch' = [i \in DOMAIN queue |-> queue[Len(queue) + 1 - i]]
  /\ pcMix' = IF queue = <<>> THEN "process" ELSE "queued"
  /\ UNCHANGED <<phase, rids, source, playback, history>>

\* apply_pending_ops() swaps the queue under pending_ops_mutex, and only then
\* asks for the unique lock.
Swap ==
  /\ pcMix = "top" /\ phase = "running" /\ batch' = queue /\ queue' = <<>>
  /\ pcMix' = IF queue = <<>> THEN "process" ELSE "queued"
  /\ UNCHANGED <<phase, rids, source, playback, history>>

Lock ==
  /\ pcMix = "queued" /\ pcMix' = "applying"
  /\ UNCHANGED <<phase, rids, source, queue, batch, playback, history>>

Unlink(r) == linked \ {r}

\* get_or_null() finds nothing for a RID that is not alive.
Apply(op) ==
  \/ /\ op.rid \notin alive /\ UNCHANGED <<alive, linked, at, level>>
  \/ /\ op.rid \in alive /\ op.do = "add"
     /\ linked' = linked \cup {op.rid} /\ UNCHANGED <<alive, at, level>>
  \/ /\ op.rid \in alive /\ op.do = "remove"
     /\ linked' = Unlink(op.rid) /\ alive' = alive \ {op.rid}
     /\ at' = [p \in Playback |-> IF at[p] = op.rid THEN NoRid ELSE at[p]]
     /\ UNCHANGED level
  \/ /\ op.rid \in alive /\ op.do = "play"
     /\ at' = [at EXCEPT ![op.playback] = op.rid]
     /\ level' = [level EXCEPT ![op.playback] = op.volume]
     /\ UNCHANGED <<alive, linked>>

ApplyPendingOps ==
  /\ pcMix = "applying" \/ phase = "draining"
  /\ batch # <<>> /\ Apply(Head(batch)) /\ batch' = Tail(batch)
  /\ UNCHANGED <<phase, created, held, source, queue, pcMix, playing, history>>

ReleaseLock ==
  /\ pcMix = "applying" /\ batch = <<>> /\ pcMix' = "process"
  /\ UNCHANGED <<phase, rids, source, queue, batch, playback, history>>

\* process_audio() drops the playbacks that ended, of a source that is mixed.
PrunedAll == [p \in Playback |-> NoRid]
Pruned == [p \in Playback |-> IF p \in playing THEN at[p] ELSE NoRid]

ProcessAudio ==
  /\ pcMix = "process" /\ pcMix' = "top" /\ at' \in {at, Pruned}
  /\ UNCHANGED <<phase, rids, source, queue, batch, playing, level, history>>

MixEnds ==
  /\ pcMix = "top" /\ phase = "stopping" /\ pcMix' = "ended"
  /\ UNCHANGED <<phase, rids, source, queue, batch, playback, history>>

-----------------------------------------------------------------------------
(* finish()                                                                *)

Finish ==
  /\ phase = "running" /\ phase' = "stopping"
  /\ UNCHANGED <<rids, source, queue, batch, pcMix, playback, history>>

DrainNothing ==
  /\ phase = "stopping" /\ pcMix = "ended" /\ phase' = "draining"
  /\ UNCHANGED <<rids, source, queue, batch, pcMix, playback, history>>
Drain ==
  /\ phase = "stopping" /\ pcMix = "ended" /\ phase' = "draining"
  /\ batch' = queue /\ queue' = <<>>
  /\ UNCHANGED <<rids, source, pcMix, playback, history>>

ReleaseAll ==
  /\ phase = "draining" /\ batch = <<>> /\ phase' = "finished"
  /\ alive' = alive \ linked /\ linked' = {}
  /\ at' = [p \in Playback |-> IF at[p] \in linked THEN NoRid ELSE at[p]]
  /\ UNCHANGED <<created, held, source, queue, batch, pcMix, playing, level, history>>

-----------------------------------------------------------------------------
Nodes ==
  \/ \E r \in Other : Create(r) \/ Free(r)
  \/ EnterTree \/ ExitTree \/ KeepAlive \/ TimeOut \/ Expire
  \/ \E p \in Playback : PlayStream(p) \/ Stop(p)
  \/ \E p \in Playback, v \in Volume : SetVolume(p, v)
Mixing    == Swap \/ Lock \/ ApplyPendingOps \/ ReleaseLock \/ ProcessAudio \/ MixEnds
Finishing == Finish \/ Drain \/ ReleaseAll

Next == Nodes \/ Mixing \/ Finishing

Spec == Init /\ [][Next]_vars

\* The mixing thread goes round, frames are processed and time passes.
FairSpec ==
  Spec /\ WF_vars(Mixing) /\ WF_vars(KeepAlive \/ TimeOut) /\ WF_vars(Expire)

-----------------------------------------------------------------------------
Op ==
  [do : {"add"}, rid : Rid] \cup [do : {"remove"}, rid : Rid]
    \cup [do : {"play"}, rid : Rid \cup {NoRid}, playback : Playback, volume : Volume]

\* Type correctness.  What is in a collection is alive in its RID owner, so the
\* threads that iterate find no freed data, and so are the sources of playbacks.
TypeOK ==
  /\ phase \in {"running", "stopping", "draining", "finished"}
  /\ linked \subseteq alive /\ alive \subseteq created /\ created \subseteq Rid
  /\ held \subseteq Other /\ node \in Source \cup {NoRid}
  /\ dynamic \in BOOLEAN /\ inTree \in BOOLEAN /\ expired \in BOOLEAN
  /\ queue \in Seq(Op) /\ batch \in Seq(Op)
  /\ pcMix \in {"top", "queued", "applying", "process", "ended"}
  /\ playing \subseteq Playback /\ missed \subseteq Playback
  /\ at \in [Playback -> alive \cup {NoRid}]
  /\ playedOn \in [Playback -> Source \cup {NoRid}]
  /\ level \in [Playback -> 0..Volumes] /\ asked \in [Playback -> 0..Volumes]

Owned == held \cup ({node} \ {NoRid})

In(ops, op) == \E i \in DOMAIN ops : ops[i] = op

\* Until finish() is through, the RID a node holds is alive and nobody is about
\* to remove it: the setters that call get_or_null() without a lock never work
\* on data that the mixing thread deletes.
HeldIsAlive ==
  phase # "finished" =>
    \A r \in Owned : r \in alive /\ ~In(queue, Remove(r)) /\ ~In(batch, Remove(r))

\* No data is leaked: what no node holds any more has its removal under way, and
\* finish() leaves nothing in the RID owners.
NothingLeaks ==
  \A r \in alive :
    /\ phase # "finished"
    /\ r \in Owned \/ In(queue, Remove(r)) \/ In(batch, Remove(r))

\* The RIDs keep the promise of RidLife, whatever waits in the queue: it is
\* applied in the order of the calls, all of it, and once.
Life == INSTANCE RidLife WITH
  made <- created, usable <- Owned \cap alive, dropped <- alive \ Owned
KeepsLife == Life!Spec

\* A playback that plays on the registered node is queued, swapped out or in
\* the source: registering, swapping and pruning lose none.
NeverDropped ==
  phase # "finished" =>
    \A p \in playing :
      playedOn[p] = node /\ node # NoRid =>
        at[p] = node \/ Waits(queue, p) \/ Waits(batch, p)

\* The source plays at the volume asked for last, whether it was asked for
\* before or after the playback got there; except when it was asked for between
\* the swap and the unique lock, where the call finds the playback nowhere.
VolumeKept ==
  \A p \in Playback \ missed : at[p] # NoRid => level[p] = asked[p]

\* A dynamic node never times out under a playback that still plays on it, not
\* even under one that was just started and waits in the queue.
IdleWhenRemoved ==
  [][TimeOut => \A p \in playing : playedOn[p] # node]_vars

\* A dynamic node whose playbacks have all ended leaves the server in the end,
\* also when no listener hears it and the ended playbacks are never pruned.
IdleTimesOut ==
  (dynamic /\ inTree /\ node # NoRid /\ playing = {})
    ~> (node = NoRid \/ ~inTree \/ playing # {} \/ phase # "running")

=============================================================================
