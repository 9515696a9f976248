-------------------------- MODULE ServerOpsProofs --------------------------
(***************************************************************************)
(* Proofs about ServerOps: types, and that the RIDs of the nodes, the      *)
(* queued operations and the RID owners agree.                             *)
(***************************************************************************)
EXTENDS ServerOps, TLAPS

\* What Append leaves in a queue.
LEMMA InAppend ==
  ASSUME NEW ops \in Seq(Op), NEW op \in Op, NEW x
  PROVE  /\ Append(ops, op) \in Seq(Op)
         /\ In(Append(ops, op), x) <=> In(ops, x) \/ x = op
  <1>1. /\ Append(ops, op) \in Seq(Op) /\ DOMAIN ops = 1..Len(ops) /\ Len(ops) \in Nat
        /\ DOMAIN Append(ops, op) = 1..(Len(ops) + 1)
        /\ \A i \in 1..Len(ops) : Append(ops, op)[i] = ops[i]
        /\ Append(ops, op)[Len(ops) + 1] = op
    OBVIOUS
  <1>2. QED BY <1>1, SMT DEF In

\* What the head and the tail of a queue hold together.
LEMMA InTail ==
  ASSUME NEW ops \in Seq(Op), ops # <<>>, NEW x
  PROVE  /\ Head(ops) \in Op /\ Tail(ops) \in Seq(Op)
         /\ In(ops, x) <=> x = Head(ops) \/ In(Tail(ops), x)
  <1>1. /\ Head(ops) \in Op /\ Tail(ops) \in Seq(Op)
        /\ Len(ops) \in Nat \ {0} /\ DOMAIN ops = 1..Len(ops)
        /\ DOMAIN Tail(ops) = 1..(Len(ops) - 1) /\ Head(ops) = ops[1]
        /\ \A i \in 1..(Len(ops) - 1) : Tail(ops)[i] = ops[i + 1]
    OBVIOUS
  <1>2. ASSUME In(ops, x), x # Head(ops) PROVE In(Tail(ops), x)
    <2>1. PICK i \in 1..Len(ops) : ops[i] = x BY <1>1, <1>2 DEF In
    <2>2. i - 1 \in 1..(Len(ops) - 1) /\ Tail(ops)[i - 1] = x BY <1>1, <1>2, <2>1
    <2>3. QED BY <1>1, <2>2 DEF In
  <1>3. ASSUME In(Tail(ops), x) PROVE In(ops, x)
    <2>1. PICK i \in 1..(Len(ops) - 1) : Tail(ops)[i] = x BY <1>1, <1>3 DEF In
    <2>2. i + 1 \in 1..Len(ops) /\ ops[i + 1] = x BY <1>1, <2>1
    <2>3. QED BY <1>1, <2>2 DEF In
  <1>4. ASSUME x = Head(ops) PROVE In(ops, x) BY <1>1, <1>4 DEF In
  <1>5. QED BY <1>1, <1>2, <1>3, <1>4

\* A changed volume leaves everything but the plays of that playback in place.
LEMMA InRequeued ==
  ASSUME queue \in Seq(Op), NEW p \in Playback, NEW v \in Volume, node \in Rid \cup {NoRid}
  PROVE  /\ Requeued(p, v) \in Seq(Op)
         /\ \A r : In(Requeued(p, v), Add(r)) <=> In(queue, Add(r))
         /\ \A r : In(Requeued(p, v), Remove(r)) <=> In(queue, Remove(r))
  <1>1. Play(node, p, v) \in Op BY DEF Op, Play
  <1>2. /\ DOMAIN queue = 1..Len(queue) /\ Len(queue) \in Nat
        /\ \A i \in 1..Len(queue) : queue[i] \in Op
    OBVIOUS
  <1>3. DOMAIN Requeued(p, v) = DOMAIN queue BY DEF Requeued
  <1>4. \A i \in DOMAIN queue :
          Requeued(p, v)[i] = IF Plays(queue[i], p) THEN Play(node, p, v) ELSE queue[i]
    BY DEF Requeued
  <1>5. Requeued(p, v) \in Seq(Op)
    <2>1. Requeued(p, v) \in [1..Len(queue) -> Op] BY <1>1, <1>2 DEF Requeued
    <2>2. QED BY <1>2, <2>1
  <1>6. ASSUME NEW r, NEW i \in DOMAIN queue
        PROVE  /\ Requeued(p, v)[i] = Add(r) <=> queue[i] = Add(r)
               /\ Requeued(p, v)[i] = Remove(r) <=> queue[i] = Remove(r)
    BY <1>4 DEF Plays, Add, Remove, Play
  <1>7. QED BY <1>3, <1>5, <1>6 DEF In

\* What is appended to the queue are operations.
LEMMA OpsAreTyped ==
  /\ \A r \in Rid : Add(r) \in Op /\ Remove(r) \in Op
  /\ \A r \in Rid \cup {NoRid}, p \in Playback, v \in Volume : Play(r, p, v) \in Op
  BY DEF Op, Add, Remove, Play

\* Type correctness; what the threads iterate over is alive.
LEMMA TypeOKStep == TypeOK /\ [Next]_vars => TypeOK'
  <1> SUFFICES ASSUME TypeOK, [Next]_vars PROVE TypeOK' OBVIOUS
  <1> USE DEF TypeOK, rids, source, playback, history
  <1>0. /\ Source \subseteq Rid /\ Other \subseteq Rid /\ node \in Rid \cup {NoRid}
        /\ Volume \subseteq 0..Volumes
    BY DEF Rid, Volume
  <1>a. \A r \in Rid : Append(queue, Add(r)) \in Seq(Op) /\ Append(queue, Remove(r)) \in Seq(Op)
    BY OpsAreTyped, InAppend
  <1>1. ASSUME NEW r \in Other, Create(r) \/ Free(r) PROVE TypeOK'
    <2>1. queue' \in Seq(Op) BY <1>0, <1>a, <1>1 DEF Create, Free
    <2>2. QED BY <1>0, <1>1, <2>1 DEF Create, Free
  <1>2. CASE EnterTree
    <2>1. queue' \in Seq(Op) BY <1>0, <1>a, <1>2 DEF EnterTree, Register
    <2>2. QED BY <1>0, <1>2, <2>1 DEF EnterTree, Register
  <1>3. CASE ExitTree \/ TimeOut
    <2>1. queue' \in Seq(Op) BY <1>0, <1>a, <1>3 DEF ExitTree, TimeOut, Unregister
    <2>2. QED BY <1>0, <1>3, <2>1 DEF ExitTree, TimeOut, Unregister
  <1>4. CASE KeepAlive \/ Expire BY <1>4 DEF KeepAlive, Expire
  <1>5. ASSUME NEW p \in Playback, PlayStream(p) PROVE TypeOK'
    <2>1. PICK v \in Volume : PlayOnNode(p, v) /\ expired' = FALSE BY <1>5 DEF PlayStream
    <2>2. CASE node # NoRid \/ ~dynamic
      <3>1. CASE AddPlayback(node, p, v, queue) /\ UNCHANGED <<node, rids>>
        <4>1. queue' \in Seq(Op) BY <1>0, <3>1, OpsAreTyped, InAppend DEF AddPlayback
        <4>2. QED BY <1>0, <2>1, <3>1, <4>1 DEF PlayOnNode, AddPlayback
      <3>2. QED BY <2>1, <2>2, <3>1 DEF PlayOnNode, Register
    <2>3. CASE node = NoRid /\ dynamic
      <3>1. PICK r \in Source : /\ Register(r) /\ AddPlayback(r, p, v, Append(queue, Add(r)))
                                /\ UNCHANGED <<linked, held>>
        BY <2>1, <2>3 DEF PlayOnNode
      <3>2. Append(queue, Add(r)) \in Seq(Op) BY <1>0, OpsAreTyped, InAppend
      <3>3. queue' \in Seq(Op) BY <1>0, <3>1, <3>2, OpsAreTyped, InAppend DEF AddPlayback
      <3>4. QED BY <1>0, <2>1, <3>1, <3>3 DEF PlayOnNode, AddPlayback, Register
    <2>4. QED BY <2>2, <2>3
  <1>6. ASSUME NEW p \in Playback, Stop(p) PROVE TypeOK' BY <1>6 DEF Stop
  <1>7. ASSUME NEW p \in Playback, NEW v \in Volume, SetVolume(p, v) PROVE TypeOK'
    <2>1. queue' \in Seq(Op) BY <1>0, <1>7, InRequeued DEF SetVolume
    <2>2. QED BY <1>0, <1>7, <2>1 DEF SetVolume
  <1>8. CASE Swap BY <1>8 DEF Swap
  <1>9. CASE Lock \/ ReleaseLock \/ MixEnds \/ Finish
    BY <1>9 DEF Lock, ReleaseLock, MixEnds, Finish
  <1>10. CASE ApplyPendingOps
    <2>1. Head(batch) \in Op /\ batch' \in Seq(Op) BY <1>10, InTail DEF ApplyPendingOps
    <2>2. Apply(Head(batch)) BY <1>10 DEF ApplyPendingOps
    <2>3. /\ linked' \subseteq alive' /\ alive' \subseteq alive
          /\ at' \in [Playback -> alive' \cup {NoRid}] /\ level' \in [Playback -> 0..Volumes]
      <3> DEFINE op == Head(batch)
      <3>1. CASE op.rid \notin alive BY <2>2, <3>1 DEF Apply
      <3>2. CASE op.rid \in alive /\ op.do = "add" BY <2>2, <3>2 DEF Apply
      <3>3. CASE op.rid \in alive /\ op.do = "remove" BY <2>2, <3>3 DEF Apply, Unlink
      <3>4. CASE op.rid \in alive /\ op.do = "play"
        <4>1. op.playback \in Playback /\ op.volume \in Volume BY <2>1, <3>4 DEF Op
        <4>2. QED BY <1>0, <2>2, <3>4, <4>1 DEF Apply
      <3>5. QED BY <2>2, <3>1, <3>2, <3>3, <3>4 DEF Apply
    <2>4. QED BY <1>10, <2>1, <2>3 DEF ApplyPendingOps
  <1>11. CASE ProcessAudio BY <1>11 DEF ProcessAudio, Pruned
  <1>12. CASE Drain BY <1>12 DEF Drain
  <1>13. CASE ReleaseAll BY <1>13 DEF ReleaseAll
  <1>14. CASE UNCHANGED vars BY <1>14 DEF vars
  <1>15. QED
    BY <1>1, <1>2, <1>3, <1>4, <1>5, <1>6, <1>7, <1>8, <1>9, <1>10, <1>11, <1>12, <1>13, <1>14
    DEF Next, Nodes, Mixing, Finishing

\* Type correctness; what the threads iterate over is alive.
THEOREM TypeCorrect == Spec => []TypeOK
  <1>1. Init => TypeOK
    <2> SUFFICES ASSUME Init PROVE TypeOK OBVIOUS
    <2>1. queue \in Seq(Op) /\ batch \in Seq(Op) BY DEF Init
    <2>2. level \in [Playback -> 0..Volumes] /\ asked = level BY OpsConstants DEF Init
    <2>3. QED BY <2>1, <2>2 DEF Init, TypeOK
  <1>2. QED BY <1>1, TypeOKStep, PTL DEF Spec

\* What a queued creation or removal adds to a queue.
LEMMA QueuedRid ==
  ASSUME NEW ops \in Seq(Op), NEW s \in Rid, NEW r
  PROVE  /\ In(Append(ops, Add(s)), Add(r)) <=> In(ops, Add(r)) \/ r = s
         /\ In(Append(ops, Add(s)), Remove(r)) <=> In(ops, Remove(r))
         /\ In(Append(ops, Remove(s)), Add(r)) <=> In(ops, Add(r))
         /\ In(Append(ops, Remove(s)), Remove(r)) <=> In(ops, Remove(r)) \/ r = s
  <1>1. Add(s) \in Op /\ Remove(s) \in Op BY OpsAreTyped
  <1>2. /\ Add(r) = Add(s) <=> r = s
        /\ Remove(r) = Remove(s) <=> r = s
        /\ Add(r) # Remove(s) /\ Remove(r) # Add(s)
    BY DEF Add, Remove
  <1>3. QED BY <1>1, <1>2, InAppend

\* A queued playback creates and removes nothing.
LEMMA QueuedPlay ==
  ASSUME NEW ops \in Seq(Op), NEW s \in Rid \cup {NoRid},
         NEW p \in Playback, NEW v \in Volume, NEW r
  PROVE  /\ In(Append(ops, Play(s, p, v)), Add(r)) <=> In(ops, Add(r))
         /\ In(Append(ops, Play(s, p, v)), Remove(r)) <=> In(ops, Remove(r))
  <1>1. Play(s, p, v) \in Op BY OpsAreTyped
  <1>2. Add(r) # Play(s, p, v) /\ Remove(r) # Play(s, p, v) BY DEF Add, Remove, Play
  <1>3. QED BY <1>1, <1>2, InAppend

\* Where operations are left to apply, and by whom.
Stages ==
  /\ batch # <<>> => pcMix \in {"queued", "applying"} \/ phase = "draining"
  /\ phase \in {"draining", "finished"} => queue = <<>> /\ pcMix = "ended"

\* What is alive is in a collection or on its way there.
LinkedOrQueued ==
  \A r \in alive : r \in linked \/ In(queue, Add(r)) \/ In(batch, Add(r))

\* Only what was created is removed.
RemovesCreated ==
  \A r : In(queue, Remove(r)) \/ In(batch, Remove(r)) => r \in created

RidInv == Stages /\ LinkedOrQueued /\ RemovesCreated /\ HeldIsAlive /\ NothingLeaks

LEMMA RidInvStep == TypeOK /\ RidInv /\ [Next]_vars => RidInv'
  <1> SUFFICES ASSUME TypeOK, RidInv, [Next]_vars PROVE RidInv' OBVIOUS
  <1> USE DEF rids, source, playback, history, RidInv, Stages, LinkedOrQueued,
              RemovesCreated, HeldIsAlive, NothingLeaks, Owned
  <1>0. /\ Source \subseteq Rid /\ Other \subseteq Rid /\ Source \cap Other = {}
        /\ NoRid \notin Rid /\ node \in Source \cup {NoRid} /\ held \subseteq Other
        /\ linked \subseteq alive /\ alive \subseteq created /\ created \subseteq Rid
        /\ queue \in Seq(Op) /\ batch \in Seq(Op)
    BY OpsConstants DEF Rid, TypeOK
  <1>a. \A s \in Rid : \A r :
          /\ In(Append(queue, Add(s)), Add(r)) <=> In(queue, Add(r)) \/ r = s
          /\ In(Append(queue, Add(s)), Remove(r)) <=> In(queue, Remove(r))
          /\ In(Append(queue, Remove(s)), Add(r)) <=> In(queue, Add(r))
          /\ In(Append(queue, Remove(s)), Remove(r)) <=> In(queue, Remove(r)) \/ r = s
    BY <1>0, QueuedRid
  <1>b. \A x : ~In(<<>>, x) BY DEF In
  <1>1. ASSUME NEW r \in Other, Create(r) PROVE RidInv' BY <1>0, <1>a, <1>1 DEF Create
  <1>2. ASSUME NEW r \in Other, Free(r) PROVE RidInv' BY <1>0, <1>a, <1>2 DEF Free
  <1>3. CASE EnterTree
    <2>1. UNCHANGED <<phase, linked, held, batch, pcMix>> BY <1>3 DEF EnterTree
    <2>2. CASE UNCHANGED <<node, alive, created, queue>> BY <2>1, <2>2
    <2>3. ASSUME NEW s \in Source, Register(s), queue' = Append(queue, Add(s)) PROVE RidInv'
      <3>1. \A r : /\ In(queue', Add(r)) <=> In(queue, Add(r)) \/ r = s
                   /\ In(queue', Remove(r)) <=> In(queue, Remove(r))
        BY <1>0, <1>a, <2>3
      <3>2. QED BY <1>0, <2>1, <2>3, <3>1, <1>3 DEF Register, EnterTree
    <2>4. QED BY <1>3, <2>2, <2>3 DEF EnterTree
  <1>4. CASE ExitTree \/ TimeOut
    <2>1. /\ UNCHANGED <<phase, alive, linked, created, held, batch, pcMix>> /\ phase = "running"
          /\ Unregister \/ UNCHANGED <<node, queue>>
      BY <1>4 DEF ExitTree, TimeOut
    <2>2. CASE UNCHANGED <<node, queue>> BY <2>1, <2>2
    <2>3. CASE Unregister
      <3>1. node \in Rid /\ node' = NoRid /\ queue' = Append(queue, Remove(node))
        BY <1>0, <2>3 DEF Unregister
      <3>2. \A r : /\ In(queue', Add(r)) <=> In(queue, Add(r))
                   /\ In(queue', Remove(r)) <=> In(queue, Remove(r)) \/ r = node
        BY <1>0, <1>a, <3>1
      <3>3. QED BY <1>0, <2>1, <3>1, <3>2
    <2>4. QED BY <2>1, <2>2, <2>3
  <1>5. CASE KeepAlive \/ Expire BY <1>5 DEF KeepAlive, Expire
  <1>6. ASSUME NEW p \in Playback, PlayStream(p) PROVE RidInv'
    <2>1. PICK v \in Volume : PlayOnNode(p, v) BY <1>6 DEF PlayStream
    <2>2. CASE node # NoRid \/ ~dynamic
      <3>1. CASE AddPlayback(node, p, v, queue) /\ UNCHANGED <<node, rids>>
        <4>1. \A r : /\ In(queue', Add(r)) <=> In(queue, Add(r))
                     /\ In(queue', Remove(r)) <=> In(queue, Remove(r))
          BY <1>0, <3>1, QueuedPlay DEF AddPlayback
        <4>2. QED BY <1>0, <2>1, <3>1, <4>1 DEF PlayOnNode
      <3>2. QED BY <2>1, <2>2, <3>1 DEF PlayOnNode, Register
    <2>3. CASE node = NoRid /\ dynamic
      <3>1. PICK s \in Source : /\ Register(s) /\ AddPlayback(s, p, v, Append(queue, Add(s)))
                                /\ UNCHANGED <<linked, held>>
        BY <2>1, <2>3 DEF PlayOnNode
      <3>2. Append(queue, Add(s)) \in Seq(Op) BY <1>0, OpsAreTyped, InAppend
      <3> DEFINE added == Append(queue, Add(s))
      <3>a. \A r : /\ In(added, Add(r)) <=> In(queue, Add(r)) \/ r = s
                   /\ In(added, Remove(r)) <=> In(queue, Remove(r))
        BY <1>a DEF Rid
      <3>b. queue' = Append(added, Play(s, p, v)) BY <3>1 DEF AddPlayback
      <3>c. added \in Seq(Op) /\ s \in Rid \cup {NoRid} BY <3>2 DEF Rid
      <3> HIDE DEF added
      <3>d. \A r : /\ In(queue', Add(r)) <=> In(added, Add(r))
                   /\ In(queue', Remove(r)) <=> In(added, Remove(r))
        BY <3>b, <3>c, QueuedPlay
      <3>3. \A r : /\ In(queue', Add(r)) <=> In(queue, Add(r)) \/ r = s
                   /\ In(queue', Remove(r)) <=> In(queue, Remove(r))
        BY <3>a, <3>d
      <3>4. QED BY <1>0, <2>1, <3>1, <3>3 DEF PlayOnNode, Register
    <2>4. QED BY <2>2, <2>3
  <1>7. ASSUME NEW p \in Playback, Stop(p) PROVE RidInv' BY <1>7 DEF Stop
  <1>8. ASSUME NEW p \in Playback, NEW v \in Volume, SetVolume(p, v) PROVE RidInv'
    <2>1. \A r : /\ In(queue', Add(r)) <=> In(queue, Add(r))
                 /\ In(queue', Remove(r)) <=> In(queue, Remove(r))
      BY <1>0, <1>8, InRequeued DEF SetVolume
    <2>2. QED BY <1>0, <1>8, <2>1 DEF SetVolume
  <1>9. CASE Swap BY <1>0, <1>b, <1>9 DEF Swap
  <1>10. CASE Lock \/ ReleaseLock \/ MixEnds \/ Finish
    BY <1>10 DEF Lock, ReleaseLock, MixEnds, Finish
  <1>11. CASE ApplyPendingOps
    <2> DEFINE op == Head(batch)
    <2>1. /\ op \in Op /\ Apply(op) /\ batch # <<>> /\ batch' = Tail(batch)
          /\ UNCHANGED <<phase, created, held, source, queue, pcMix>>
      BY <1>0, <1>11, InTail DEF ApplyPendingOps
    <2>2. \A x : In(batch, x) <=> x = op \/ In(batch', x) BY <1>0, <2>1, InTail
    <2>3. op.do = "remove" => op = Remove(op.rid) BY <2>1 DEF Op, Remove
    <2>4. op = Add(op.rid) => op.do = "add" BY DEF Add
    <2>5. \A r : Add(r).rid = r /\ Remove(r).rid = r /\ Add(r).do = "add" /\ Remove(r).do = "remove"
      BY DEF Add, Remove
    <2> HIDE DEF op
    <2>6. CASE op.rid \notin alive BY <1>0, <2>1, <2>2, <2>5, <2>6 DEF Apply
    <2>7. CASE op.rid \in alive /\ op.do = "add" BY <1>0, <2>1, <2>2, <2>5, <2>7 DEF Apply
    <2>8. CASE op.rid \in alive /\ op.do = "remove" BY <1>0, <2>1, <2>2, <2>3, <2>5, <2>8 DEF Apply, Unlink
    <2>9. CASE op.rid \in alive /\ op.do = "play" BY <1>0, <2>1, <2>2, <2>5, <2>9 DEF Apply
    <2>10. QED BY <2>1, <2>6, <2>7, <2>8, <2>9 DEF Apply
  <1>12. CASE ProcessAudio BY <1>12 DEF ProcessAudio
  <1>13. CASE Drain BY <1>0, <1>b, <1>13 DEF Drain
  <1>14. CASE ReleaseAll BY <1>0, <1>b, <1>14 DEF ReleaseAll
  <1>15. CASE UNCHANGED vars BY <1>15 DEF vars
  <1>16. QED
    BY <1>1, <1>2, <1>3, <1>4, <1>5, <1>6, <1>7, <1>8, <1>9, <1>10, <1>11, <1>12, <1>13, <1>14, <1>15
    DEF Next, Nodes, Mixing, Finishing

LEMMA RidInvInvariant == Spec => []RidInv
  <1>1. Init => RidInv
    BY DEF Init, RidInv, Stages, LinkedOrQueued, RemovesCreated, HeldIsAlive, NothingLeaks, Owned, In
  <1>2. QED BY <1>1, TypeCorrect, RidInvStep, PTL DEF Spec

\* Until finish() is through, the RID of a node is alive and stays so until the
\* node gives it up.
THEOREM HeldRidsAreAlive == Spec => []HeldIsAlive
  <1>1. RidInv => HeldIsAlive BY DEF RidInv
  <1>2. QED BY <1>1, RidInvInvariant, PTL

\* What no node holds has its removal under way; finish() leaves nothing.
THEOREM NoRidLeaks == Spec => []NothingLeaks
  <1>1. RidInv => NothingLeaks BY DEF RidInv
  <1>2. QED BY <1>1, RidInvInvariant, PTL

-----------------------------------------------------------------------------
(* Order: creations come before removals, and take effect once.            *)

InOrder(ops) ==
  \A r : \A i, j \in DOMAIN ops :
    ops[j] = Add(r) => /\ ops[i] = Add(r) => i = j
                       /\ ops[i] = Remove(r) => j < i

\* What waits to be linked is not linked yet, and waits once; a removal that was
\* swapped out has no creation behind it.
OrderInv ==
  /\ InOrder(queue) /\ InOrder(batch)
  /\ \A r : In(queue, Add(r)) =>
       r \in created \ linked /\ ~In(batch, Add(r)) /\ ~In(batch, Remove(r))
  /\ \A r : In(batch, Add(r)) => r \in created \ linked

\* A creation that is new to a queue, and what is no creation, keep its order.
LEMMA AppendInOrder ==
  ASSUME NEW ops \in Seq(Op), NEW op \in Op, InOrder(ops),
         \A r : op = Add(r) => ~In(ops, Add(r)) /\ ~In(ops, Remove(r))
  PROVE  InOrder(Append(ops, op))
  <1> DEFINE new == Append(ops, op)
  <1>1. /\ DOMAIN ops = 1..Len(ops) /\ Len(ops) \in Nat /\ DOMAIN new = 1..(Len(ops) + 1)
        /\ \A i \in 1..Len(ops) : new[i] = ops[i]
        /\ new[Len(ops) + 1] = op
    OBVIOUS
  <1> HIDE DEF new
  <1> SUFFICES ASSUME NEW r, NEW i \in DOMAIN new, NEW j \in DOMAIN new, new[j] = Add(r)
               PROVE  /\ new[i] = Add(r) => i = j
                      /\ new[i] = Remove(r) => j < i
    BY DEF InOrder, new
  <1>2. Add(r) # Remove(r) BY DEF Add, Remove
  <1>3. CASE i \in DOMAIN ops /\ j \in DOMAIN ops BY <1>1, <1>3 DEF InOrder
  <1>4. CASE i \in DOMAIN ops /\ j \notin DOMAIN ops
    <2>1. op = Add(r) BY <1>1, <1>4
    <2>2. new[i] = ops[i] BY <1>1, <1>4
    <2>3. QED BY <1>4, <2>1, <2>2 DEF In
  <1>5. CASE i \notin DOMAIN ops /\ j \in DOMAIN ops
    <2>1. i = Len(ops) + 1 /\ j < i BY <1>1, <1>5
    <2>2. new[i] = op /\ new[j] = ops[j] BY <1>1, <1>5, <2>1
    <2>3. In(ops, Add(r)) BY <1>5, <2>2 DEF In
    <2>4. QED BY <2>1, <2>2, <2>3
  <1>6. CASE i \notin DOMAIN ops /\ j \notin DOMAIN ops
    <2>1. i = j BY <1>1, <1>6
    <2>2. QED BY <1>2, <2>1
  <1>7. QED BY <1>3, <1>4, <1>5, <1>6

LEMMA RequeuedInOrder ==
  ASSUME InOrder(queue), NEW p, NEW v
  PROVE  InOrder(Requeued(p, v))
  <1> DEFINE new == Requeued(p, v)
  <1>1. /\ DOMAIN new = DOMAIN queue
        /\ \A i \in DOMAIN queue : new[i] = queue[i] \/ new[i] = Play(node, p, v)
    BY DEF Requeued
  <1>2. \A r : Add(r) # Play(node, p, v) /\ Remove(r) # Play(node, p, v)
    BY DEF Add, Remove, Play
  <1> HIDE DEF new
  <1>3. InOrder(new) BY <1>1, <1>2 DEF InOrder
  <1>4. QED BY <1>3 DEF new

LEMMA TailInOrder ==
  ASSUME NEW ops \in Seq(Op), ops # <<>>, InOrder(ops)
  PROVE  /\ InOrder(Tail(ops))
         /\ \A r : Head(ops) = Add(r) \/ Head(ops) = Remove(r) => ~In(Tail(ops), Add(r))
  <1> DEFINE rest == Tail(ops)
  <1>1. /\ Len(ops) \in Nat \ {0} /\ DOMAIN ops = 1..Len(ops)
        /\ DOMAIN rest = 1..(Len(ops) - 1) /\ Head(ops) = ops[1]
        /\ \A i \in 1..(Len(ops) - 1) : rest[i] = ops[i + 1]
    OBVIOUS
  <1> HIDE DEF rest
  <1>2. \A i \in DOMAIN rest : i + 1 \in DOMAIN ops /\ rest[i] = ops[i + 1] /\ i \in Int /\ i > 0
    BY <1>1
  <1>3. InOrder(rest)
    <2> SUFFICES ASSUME NEW r, NEW i \in DOMAIN rest, NEW j \in DOMAIN rest, rest[j] = Add(r)
                 PROVE  /\ rest[i] = Add(r) => i = j
                        /\ rest[i] = Remove(r) => j < i
      BY DEF InOrder
    <2>1. /\ ops[i + 1] = Add(r) => i + 1 = j + 1
          /\ ops[i + 1] = Remove(r) => j + 1 < i + 1
      BY <1>2 DEF InOrder
    <2>2. QED BY <1>2, <2>1
  <1>4. ASSUME NEW r, ops[1] = Add(r) \/ ops[1] = Remove(r), NEW j \in DOMAIN rest, rest[j] = Add(r)
        PROVE  FALSE
    <2>1. 1 \in DOMAIN ops /\ j + 1 \in DOMAIN ops /\ ops[j + 1] = Add(r) /\ j \in Int /\ j > 0
      BY <1>1, <1>2, <1>4
    <2>2. (ops[1] = Add(r) => 1 = j + 1) /\ (ops[1] = Remove(r) => j + 1 < 1)
      BY <2>1 DEF InOrder
    <2>3. QED BY <1>4, <2>1, <2>2
  <1>5. QED BY <1>1, <1>3, <1>4 DEF In, rest

LEMMA OrderInvStep == TypeOK /\ RidInv /\ OrderInv /\ [Next]_vars => OrderInv'
  <1> SUFFICES ASSUME TypeOK, RidInv, OrderInv, [Next]_vars PROVE OrderInv' OBVIOUS
  <1> USE DEF rids, source, playback, history, OrderInv
  <1>0. /\ Source \subseteq Rid /\ Other \subseteq Rid /\ node \in Rid \cup {NoRid}
        /\ queue \in Seq(Op) /\ batch \in Seq(Op)
        /\ \A r : In(queue, Remove(r)) \/ In(batch, Remove(r)) => r \in created
    BY DEF Rid, TypeOK, RidInv, RemovesCreated
  <1>a. \A r, s : /\ Add(r) = Add(s) => r = s
                  /\ Add(r) # Remove(s)
    BY DEF Add, Remove
  <1>b. \A x : ~In(<<>>, x) BY DEF In
  <1>c. InOrder(<<>>) BY DEF InOrder
  \* What a step of the main thread may do to the queue.
  <1> DEFINE Kept == /\ InOrder(queue')
                     /\ \A r : In(queue', Add(r)) <=> In(queue, Add(r))
             Added(s) == /\ InOrder(queue')
                         /\ \A r : In(queue', Add(r)) <=> In(queue, Add(r)) \/ r = s
                         /\ s \notin created /\ created' = created \cup {s}
  <1>d. \A s \in Rid : queue' = Append(queue, Remove(s)) => Kept
    <2> SUFFICES ASSUME NEW s \in Rid, queue' = Append(queue, Remove(s)) PROVE Kept OBVIOUS
    <2>1. InOrder(queue') BY <1>0, <1>a, OpsAreTyped, AppendInOrder
    <2>2. QED BY <1>0, <2>1, QueuedRid
  <1>e. \A s \in Rid \ created : /\ InOrder(Append(queue, Add(s)))
                                 /\ \A r : In(Append(queue, Add(s)), Add(r)) <=> In(queue, Add(r)) \/ r = s
    <2> SUFFICES ASSUME NEW s \in Rid \ created
                 PROVE  /\ InOrder(Append(queue, Add(s)))
                        /\ \A r : In(Append(queue, Add(s)), Add(r)) <=> In(queue, Add(r)) \/ r = s
      OBVIOUS
    <2>1. \A r : Add(s) = Add(r) => ~In(queue, Add(r)) /\ ~In(queue, Remove(r)) BY <1>0, <1>a
    <2>2. InOrder(Append(queue, Add(s))) BY <1>0, <2>1, OpsAreTyped, AppendInOrder
    <2>3. QED BY <1>0, <2>2, QueuedRid
  <1>f. \A ops \in Seq(Op) : \A s \in Rid \cup {NoRid}, p \in Playback, v \in Volume :
          InOrder(ops) => /\ InOrder(Append(ops, Play(s, p, v)))
                          /\ \A r : In(Append(ops, Play(s, p, v)), Add(r)) <=> In(ops, Add(r))
    <2> SUFFICES ASSUME NEW ops \in Seq(Op), NEW s \in Rid \cup {NoRid}, NEW p \in Playback,
                        NEW v \in Volume, InOrder(ops)
                 PROVE  /\ InOrder(Append(ops, Play(s, p, v)))
                        /\ \A r : In(Append(ops, Play(s, p, v)), Add(r)) <=> In(ops, Add(r))
      OBVIOUS
    <2>1. \A r : Play(s, p, v) # Add(r) BY DEF Play, Add
    <2>2. InOrder(Append(ops, Play(s, p, v))) BY <2>1, OpsAreTyped, AppendInOrder
    <2>3. QED BY <2>2, QueuedPlay
  <1>g. CASE Kept /\ UNCHANGED <<batch, linked>> /\ created' = created
    BY <1>g
  <1>h. ASSUME NEW s, Added(s), UNCHANGED <<batch, linked>> PROVE OrderInv'
    <2>1. s \notin linked BY <1>h DEF TypeOK
    <2>2. ~In(batch, Add(s)) /\ ~In(batch, Remove(s)) BY <1>0, <1>h
    <2>3. QED BY <1>h, <2>1, <2>2
  <1> HIDE DEF OrderInv
  <1>1. ASSUME NEW r \in Other, Create(r) PROVE OrderInv'
    <2>1. Added(r) BY <1>0, <1>1, <1>e DEF Create
    <2>2. QED BY <1>1, <1>h, <2>1 DEF Create
  <1>2. ASSUME NEW r \in Other, Free(r) PROVE OrderInv'
    <2>1. Kept BY <1>0, <1>2, <1>d DEF Free
    <2>2. QED BY <1>2, <1>g, <2>1 DEF Free
  <1>3. CASE EnterTree
    <2>1. UNCHANGED <<batch, linked>> BY <1>3 DEF EnterTree
    <2>2. CASE UNCHANGED <<created, queue>> BY <1>g, <2>1, <2>2 DEF OrderInv
    <2>3. ASSUME NEW s \in Source, Register(s), queue' = Append(queue, Add(s)) PROVE OrderInv'
      <3>1. Added(s) BY <1>0, <1>e, <2>3 DEF Register
      <3>2. QED BY <1>h, <2>1, <3>1
    <2>4. QED BY <1>3, <2>2, <2>3 DEF EnterTree
  <1>4. CASE ExitTree \/ TimeOut
    <2>1. /\ UNCHANGED <<batch, linked>> /\ created' = created
          /\ Unregister \/ UNCHANGED queue
      BY <1>4 DEF ExitTree, TimeOut
    <2>2. CASE UNCHANGED queue BY <1>g, <2>1, <2>2 DEF OrderInv
    <2>3. CASE Unregister
      <3>1. Kept BY <1>0, <1>d, <2>3 DEF Unregister
      <3>2. QED BY <1>g, <2>1, <3>1
    <2>4. QED BY <2>1, <2>2, <2>3
  <1>5. CASE UNCHANGED <<queue, batch, linked, created>> BY <1>5 DEF OrderInv
  <1>6. ASSUME NEW p \in Playback, PlayStream(p) PROVE OrderInv'
    <2>1. PICK v \in Volume : PlayOnNode(p, v) BY <1>6 DEF PlayStream
    <2>2. UNCHANGED <<batch, linked>> BY <2>1 DEF PlayOnNode
    <2>3. CASE AddPlayback(node, p, v, queue) /\ UNCHANGED <<node, rids>>
      <3>1. Kept BY <1>0, <1>f, <2>3 DEF AddPlayback, OrderInv
      <3>2. QED BY <1>g, <2>2, <2>3, <3>1
    <2>4. ASSUME NEW s \in Source, Register(s), AddPlayback(s, p, v, Append(queue, Add(s)))
          PROVE  OrderInv'
      <3>1. s \in Rid \ created /\ created' = created \cup {s} BY <1>0, <2>4 DEF Register
      <3> DEFINE added == Append(queue, Add(s))
      <3>2. InOrder(added) /\ \A r : In(added, Add(r)) <=> In(queue, Add(r)) \/ r = s
        BY <1>e, <3>1
      <3>3. added \in Seq(Op) BY <1>0, <3>1, OpsAreTyped, InAppend
      <3>4. queue' = Append(added, Play(s, p, v)) BY <2>4 DEF AddPlayback
      <3> HIDE DEF added
      <3>5. InOrder(queue') /\ \A r : In(queue', Add(r)) <=> In(added, Add(r))
        BY <1>f, <3>1, <3>2, <3>3, <3>4
      <3>6. Added(s) BY <3>1, <3>2, <3>5
      <3>7. QED BY <1>h, <2>2, <3>6
    <2>5. QED BY <2>1, <2>3, <2>4 DEF PlayOnNode
  <1>7. ASSUME NEW p \in Playback, NEW v \in Volume, SetVolume(p, v) PROVE OrderInv'
    <2>1. UNCHANGED <<batch, linked>> /\ created' = created /\ (queue' = queue \/ queue' = Requeued(p, v))
      BY <1>7 DEF SetVolume
    <2>2. InOrder(queue) BY DEF OrderInv
    <2>3. Kept BY <1>0, <2>1, <2>2, InRequeued, RequeuedInOrder
    <2>4. QED BY <1>g, <2>1, <2>3
  <1>8. CASE Swap \/ Drain
    <2>1. batch' = queue /\ queue' = <<>> /\ UNCHANGED <<linked, created>>
      BY <1>8 DEF Swap, Drain
    <2>2. QED BY <1>b, <1>c, <2>1 DEF OrderInv
  <1>9. CASE ApplyPendingOps
    <2> DEFINE op == Head(batch)
    <2>1. /\ op \in Op /\ Apply(op) /\ batch # <<>> /\ batch' = Tail(batch)
          /\ UNCHANGED <<created, queue>>
      BY <1>0, <1>9, InTail DEF ApplyPendingOps
    <2>2. \A x : In(batch, x) <=> x = op \/ In(batch', x) BY <1>0, <2>1, InTail
    <2>3. InOrder(batch') /\ \A r : op = Add(r) => ~In(batch', Add(r))
      BY <1>0, <2>1, TailInOrder DEF OrderInv
    <2>4. op.do = "add" => op = Add(op.rid) BY <2>1 DEF Op, Add
    <2> HIDE DEF op
    <2>5. linked' \subseteq linked \/ (op = Add(op.rid) /\ linked' = linked \cup {op.rid})
      BY <2>1, <2>4 DEF Apply, Unlink
    <2>6. CASE linked' \subseteq linked BY <2>1, <2>2, <2>3, <2>6 DEF OrderInv
    <2>7. CASE op = Add(op.rid) /\ linked' = linked \cup {op.rid}
      <3>1. ~In(batch', Add(op.rid)) /\ ~In(queue, Add(op.rid)) BY <2>2, <2>3, <2>7 DEF OrderInv
      <3>2. QED BY <2>1, <2>2, <2>3, <2>7, <3>1 DEF OrderInv
    <2>8. QED BY <2>5, <2>6, <2>7
  <1>10. CASE ReleaseAll BY <1>10 DEF ReleaseAll, OrderInv
  <1>11. QED
    BY <1>1, <1>2, <1>3, <1>4, <1>5, <1>6, <1>7, <1>8, <1>9, <1>10
    DEF Next, Nodes, Mixing, Finishing, vars, KeepAlive, Expire, Stop, Lock, ReleaseLock,
        MixEnds, Finish, ProcessAudio

LEMMA OrderInvInvariant == Spec => []OrderInv
  <1>1. Init => OrderInv BY DEF Init, OrderInv, InOrder, In
  <1>2. QED BY <1>1, TypeCorrect, RidInvInvariant, OrderInvStep, PTL DEF Spec

\* What the data of the handles does in a step that is not one of RidLife.
SameLife == UNCHANGED <<created, Owned \cap alive, alive \ Owned, linked>>

LEMMA LifeStep == TypeOK /\ RidInv /\ OrderInv /\ [Next]_vars => Life!Next \/ SameLife
  <1> SUFFICES ASSUME TypeOK, RidInv, OrderInv, [Next]_vars PROVE Life!Next \/ SameLife OBVIOUS
  <1> USE DEF rids, source, playback, history, SameLife
  <1>0. /\ Source \subseteq Rid /\ Other \subseteq Rid /\ Source \cap Other = {}
        /\ NoRid \notin Rid /\ node \in Source \cup {NoRid} /\ held \subseteq Other
        /\ linked \subseteq alive /\ alive \subseteq created /\ created \subseteq Rid
        /\ queue \in Seq(Op) /\ batch \in Seq(Op)
    BY OpsConstants DEF Rid, TypeOK
  <1>a. phase = "running" => Owned \subseteq alive BY DEF RidInv, HeldIsAlive
  <1>1. ASSUME NEW r \in Other, Create(r) PROVE Life!Make(r)
    <2>1. r \notin alive /\ Owned' = Owned \cup {r} BY <1>0, <1>1 DEF Create, Owned
    <2>2. QED BY <1>1, <2>1 DEF Create, Life!Make
  <1>2. ASSUME NEW r \in Other, Free(r) PROVE Life!Drop(r)
    <2>1. r \in Owned /\ Owned' = Owned \ {r} BY <1>0, <1>2 DEF Free, Owned
    <2>2. r \in alive BY <1>2, <1>a, <2>1 DEF Free
    <2>3. QED BY <1>2, <2>1, <2>2 DEF Free, Life!Drop
  <1>3. ASSUME NEW s \in Source, Register(s), UNCHANGED <<held, linked>>
        PROVE  Life!Make(s)
    <2>1. s \notin alive /\ Owned' = Owned \cup {s} BY <1>0, <1>3 DEF Register, Owned
    <2>2. QED BY <1>3, <2>1 DEF Register, Life!Make
  <1>4. ASSUME phase = "running", Unregister, UNCHANGED rids PROVE Life!Drop(node)
    <2>1. node \in Owned /\ Owned' = Owned \ {node} BY <1>0, <1>4 DEF Unregister, Owned
    <2>2. node \in alive BY <1>4, <1>a, <2>1
    <2>3. QED BY <1>4, <2>1, <2>2 DEF Life!Drop
  <1>5. CASE UNCHANGED <<rids, node>> BY <1>5 DEF Owned
  <1>6. CASE EnterTree
    <2>1. \/ \E s \in Source : Register(s) /\ UNCHANGED <<held, linked>>
          \/ UNCHANGED <<rids, node>>
      BY <1>6 DEF EnterTree
    <2>2. QED BY <1>0, <1>3, <1>5, <2>1 DEF Life!Next
  <1>7. CASE ExitTree \/ TimeOut
    <2>1. phase = "running" /\ UNCHANGED rids /\ (Unregister \/ UNCHANGED node)
      BY <1>7 DEF ExitTree, TimeOut
    <2>2. CASE Unregister
      <3>1. node \in Rid BY <1>0, <2>2 DEF Unregister
      <3>2. QED BY <1>4, <2>1, <2>2, <3>1 DEF Life!Next
    <2>3. QED BY <1>5, <2>1, <2>2
  <1>8. ASSUME NEW p \in Playback, PlayStream(p) PROVE Life!Next \/ SameLife
    <2>1. \/ \E s \in Source : Register(s) /\ UNCHANGED <<held, linked>>
          \/ UNCHANGED <<rids, node>>
      BY <1>8 DEF PlayStream, PlayOnNode
    <2>2. QED BY <1>0, <1>3, <1>5, <2>1 DEF Life!Next
  <1>9. CASE ApplyPendingOps
    <2> DEFINE op == Head(batch)
    <2>1. op \in Op /\ Apply(op) /\ batch # <<>> /\ UNCHANGED <<created, held, node>>
      BY <1>0, <1>9, InTail DEF ApplyPendingOps
    <2>2. In(batch, op) /\ \A x : In(Tail(batch), x) => In(batch, x)
      BY <1>0, <2>1, InTail
    <2>3. \A r : op = Remove(r) => ~In(Tail(batch), Add(r))
      BY <1>0, <2>1, TailInOrder DEF OrderInv
    <2>4. \A r : In(batch, Add(r)) <=> Add(r) = op \/ In(Tail(batch), Add(r))
      BY <1>0, <2>1, InTail
    <2>5. /\ op.do = "add" => op = Add(op.rid)
          /\ op.do = "remove" => op = Remove(op.rid)
          /\ \A r, s : Add(r) # Remove(s)
      BY <2>1 DEF Op, Add, Remove
    <2> HIDE DEF op
    <2>6. Owned' = Owned BY <2>1 DEF Owned
    <2>7. CASE UNCHANGED <<alive, linked>> BY <2>1, <2>6, <2>7
    <2>8. CASE op.rid \in alive /\ op.do = "add" /\ linked' = linked \cup {op.rid} /\ alive' = alive
      <3>1. op.rid \notin linked BY <2>2, <2>5, <2>8 DEF OrderInv
      <3>2. Life!Link(op.rid) BY <2>1, <2>6, <2>8, <3>1 DEF Life!Link
      <3>3. QED BY <1>0, <2>8, <3>2 DEF Life!Next
    <2>9. CASE /\ op.rid \in alive /\ op.do = "remove"
               /\ linked' = linked \ {op.rid} /\ alive' = alive \ {op.rid}
      <3>1. op = Remove(op.rid) /\ In(batch, Remove(op.rid)) BY <2>2, <2>5, <2>9
      <3>2. ~In(batch, Add(op.rid)) BY <2>3, <2>4, <2>5, <3>1
      <3>3. ~In(queue, Add(op.rid)) BY <3>1 DEF OrderInv
      <3>4. op.rid \in linked BY <2>9, <3>2, <3>3 DEF RidInv, LinkedOrQueued
      <3>5. phase # "finished"
        BY <2>9 DEF RidInv, NothingLeaks
      <3>6. op.rid \notin Owned BY <3>1, <3>5 DEF RidInv, HeldIsAlive
      <3>7. Life!Delete(op.rid) BY <2>1, <2>6, <2>9, <3>4, <3>6 DEF Life!Delete
      <3>8. QED BY <1>0, <2>9, <3>7 DEF Life!Next
    <2>10. QED BY <2>1, <2>7, <2>8, <2>9 DEF Apply, Unlink
  <1>10. CASE ReleaseAll
    <2>1. /\ phase = "draining" /\ batch = <<>> /\ alive' = alive \ linked /\ linked' = {}
          /\ UNCHANGED <<created, held, node>>
      BY <1>10 DEF ReleaseAll
    <2>2. queue = <<>> BY <2>1 DEF RidInv, Stages
    <2>3. \A x : ~In(queue, x) /\ ~In(batch, x) BY <2>1, <2>2 DEF In
    <2>4. alive = linked BY <1>0, <2>3 DEF RidInv, LinkedOrQueued
    <2>5. alive \subseteq Owned BY <2>3 DEF RidInv, NothingLeaks
    <2>6. Owned' = Owned BY <2>1 DEF Owned
    <2>7. Life!Finish BY <2>1, <2>4, <2>5, <2>6 DEF Life!Finish
    <2>8. QED BY <2>7 DEF Life!Next
  <1>11. QED
    <2>1. \/ \E r \in Other : Create(r) \/ Free(r)
          \/ EnterTree \/ ExitTree \/ TimeOut \/ \E p \in Playback : PlayStream(p)
          \/ ApplyPendingOps \/ ReleaseAll \/ UNCHANGED <<rids, node>>
      BY DEF Next, Nodes, Mixing, Finishing, vars, KeepAlive, Expire, Stop, SetVolume, Swap,
         Lock, ReleaseLock, ProcessAudio, MixEnds, Finish, Drain
    <2>2. QED BY <1>0, <1>1, <1>2, <1>5, <1>6, <1>7, <1>8, <1>9, <1>10, <2>1 DEF Life!Next

\* Behind the queue a RID lives as RidLife says: it is made once, linked once,
\* and deleted once, only after that and only when its holder gave it up.
THEOREM RidsKeepLife == Spec => KeepsLife
  <1>1. Init => Life!Init BY DEF Init, Life!Init, Owned
  <1>2. TypeOK /\ RidInv /\ OrderInv /\ [Next]_vars
          => [Life!Next]_<<created, Owned \cap alive, alive \ Owned, linked>>
    BY LifeStep DEF SameLife
  <1>3. QED
    BY <1>1, <1>2, TypeCorrect, RidInvInvariant, OrderInvInvariant, PTL
    DEF Spec, KeepsLife, Life!Spec

-----------------------------------------------------------------------------
(* Playbacks: each is queued once, for the node it was played on.          *)

Once(ops, p) ==
  \A i, j \in DOMAIN ops : Plays(ops[i], p) /\ Plays(ops[j], p) => i = j

Says(ops, p, r) == \A i \in DOMAIN ops : Plays(ops[i], p) => ops[i].rid = r

At(ops, p, v) == \A i \in DOMAIN ops : Plays(ops[i], p) => ops[i].volume = v

\* Two queues that agree on a playback.
Alike(ops, old, p) ==
  /\ Waits(ops, p) <=> Waits(old, p)
  /\ Once(old, p) => Once(ops, p)
  /\ \A r : Says(old, p, r) => Says(ops, p, r)
  /\ \A v : At(old, p, v) => At(ops, p, v)

LEMMA AppendOther ==
  ASSUME NEW ops \in Seq(Op), NEW op \in Op, NEW p, ~Plays(op, p)
  PROVE  Alike(Append(ops, op), ops, p)
  <1> DEFINE new == Append(ops, op)
  <1>1. /\ DOMAIN ops = 1..Len(ops) /\ Len(ops) \in Nat /\ DOMAIN new = 1..(Len(ops) + 1)
        /\ \A i \in 1..Len(ops) : new[i] = ops[i]
        /\ new[Len(ops) + 1] = op
    OBVIOUS
  <1> HIDE DEF new
  <1>2. /\ \A i \in DOMAIN ops : i \in DOMAIN new /\ new[i] = ops[i]
        /\ \A i \in DOMAIN new : Plays(new[i], p) => i \in DOMAIN ops
    BY <1>1
  <1>3. Waits(new, p) <=> Waits(ops, p) BY <1>2, Zenon DEF Waits
  <1>4. Once(ops, p) => Once(new, p) BY <1>2, Zenon DEF Once
  <1>5. \A r : Says(ops, p, r) => Says(new, p, r) BY <1>2, Zenon DEF Says
  <1>6. \A v : At(ops, p, v) => At(new, p, v) BY <1>2, Zenon DEF At
  <1>7. QED BY <1>3, <1>4, <1>5, <1>6 DEF Alike, new

LEMMA AppendPlay ==
  ASSUME NEW ops \in Seq(Op), NEW p \in Playback, NEW r \in Rid \cup {NoRid}, NEW v \in Volume,
         ~Waits(ops, p)
  PROVE  LET new == Append(ops, Play(r, p, v)) IN
         Waits(new, p) /\ Once(new, p) /\ Says(new, p, r) /\ At(new, p, v)
  <1> DEFINE op == Play(r, p, v)
             new == Append(ops, op)
  <1>1. op \in Op /\ Plays(op, p) /\ op.rid = r /\ op.volume = v
    BY OpsAreTyped DEF Play, Plays
  <1> HIDE DEF op
  <1>2. /\ DOMAIN ops = 1..Len(ops) /\ Len(ops) \in Nat /\ DOMAIN new = 1..(Len(ops) + 1)
        /\ \A i \in 1..Len(ops) : new[i] = ops[i]
        /\ new[Len(ops) + 1] = op
    BY <1>1
  <1> HIDE DEF new
  <1>3. \A i \in DOMAIN new : Plays(new[i], p) => i = Len(ops) + 1
    BY <1>2 DEF Waits
  <1>4. Len(ops) + 1 \in DOMAIN new BY <1>2
  <1>5. Waits(new, p) BY <1>1, <1>2, <1>4, Zenon DEF Waits
  <1>6. Once(new, p) BY <1>3, Zenon DEF Once
  <1>7. Says(new, p, r) /\ At(new, p, v) BY <1>1, <1>2, <1>3, Zenon DEF Says, At
  <1>8. QED BY <1>5, <1>6, <1>7 DEF new, op

LEMMA TailPlays ==
  ASSUME NEW ops \in Seq(Op), ops # <<>>, NEW p
  PROVE  /\ Waits(ops, p) <=> Plays(Head(ops), p) \/ Waits(Tail(ops), p)
         /\ Once(ops, p) => Once(Tail(ops), p) /\ ~(Plays(Head(ops), p) /\ Waits(Tail(ops), p))
         /\ \A r : Says(ops, p, r)
                    => Says(Tail(ops), p, r) /\ (Plays(Head(ops), p) => Head(ops).rid = r)
         /\ \A v : At(ops, p, v)
                    => At(Tail(ops), p, v) /\ (Plays(Head(ops), p) => Head(ops).volume = v)
  <1> DEFINE rest == Tail(ops)
  <1>1. /\ Len(ops) \in Nat \ {0} /\ DOMAIN ops = 1..Len(ops)
        /\ DOMAIN rest = 1..(Len(ops) - 1) /\ Head(ops) = ops[1]
        /\ \A i \in 1..(Len(ops) - 1) : rest[i] = ops[i + 1]
    OBVIOUS
  <1> HIDE DEF rest
  <1>2. /\ \A i \in DOMAIN rest : i + 1 \in DOMAIN ops /\ rest[i] = ops[i + 1]
        /\ \A i \in DOMAIN ops : i = 1 \/ (i - 1 \in DOMAIN rest /\ ops[i] = rest[i - 1])
        /\ 1 \in DOMAIN ops
    <2>1. ASSUME NEW i \in DOMAIN ops, i # 1 PROVE i - 1 \in DOMAIN rest /\ ops[i] = rest[i - 1]
      <3>1. i - 1 \in 1..(Len(ops) - 1) /\ (i - 1) + 1 = i BY <1>1, <2>1
      <3>2. QED BY <1>1, <3>1
    <2>2. QED BY <1>1, <2>1
  <1>3. Waits(ops, p) <=> Plays(ops[1], p) \/ Waits(rest, p) BY <1>2, Zenon DEF Waits
  <1>4. ASSUME Once(ops, p) PROVE Once(rest, p) /\ ~(Plays(ops[1], p) /\ Waits(rest, p))
    <2>1. \A i \in DOMAIN rest, j \in DOMAIN rest :
             /\ i + 1 # 1
             /\ i + 1 = j + 1 => i = j
      BY <1>1
    <2>2. Once(rest, p) BY <1>2, <1>4, <2>1, Zenon DEF Once
    <2>3. \A i \in DOMAIN rest : ~(Plays(ops[1], p) /\ Plays(rest[i], p))
      BY <1>2, <1>4, <2>1, Zenon DEF Once
    <2>4. QED BY <2>2, <2>3, Zenon DEF Waits
  <1>5. ASSUME NEW r, Says(ops, p, r)
        PROVE  Says(rest, p, r) /\ (Plays(ops[1], p) => ops[1].rid = r)
    <2>1. \A i \in DOMAIN rest : Plays(rest[i], p) => rest[i].rid = r BY <1>2, <1>5 DEF Says
    <2>2. QED BY <1>2, <1>5, <2>1 DEF Says
  <1>6. ASSUME NEW v, At(ops, p, v)
        PROVE  At(rest, p, v) /\ (Plays(ops[1], p) => ops[1].volume = v)
    <2>1. \A i \in DOMAIN rest : Plays(rest[i], p) => rest[i].volume = v BY <1>2, <1>6 DEF At
    <2>2. QED BY <1>2, <1>6, <2>1 DEF At
  <1>7. QED BY <1>1, <1>3, <1>4, <1>5, <1>6 DEF rest

LEMMA RequeuedPlays ==
  ASSUME queue \in Seq(Op), NEW p \in Playback, NEW v \in Volume, NEW q
  PROVE  /\ q # p => Alike(Requeued(p, v), queue, q)
         /\ Waits(Requeued(p, v), p) <=> Waits(queue, p)
         /\ Once(queue, p) => Once(Requeued(p, v), p)
         /\ Says(Requeued(p, v), p, node) /\ At(Requeued(p, v), p, v)
  <1> DEFINE new == Requeued(p, v)
  <1>1. /\ DOMAIN new = DOMAIN queue
        /\ \A i \in DOMAIN queue :
             new[i] = IF Plays(queue[i], p) THEN Play(node, p, v) ELSE queue[i]
    BY DEF Requeued
  <1>2. /\ Plays(Play(node, p, v), p)
        /\ Play(node, p, v).rid = node /\ Play(node, p, v).volume = v
        /\ q # p => ~Plays(Play(node, p, v), q)
    BY DEF Plays, Play
  <1>3. \A op : q # p /\ Plays(op, p) => ~Plays(op, q) BY DEF Plays
  <1> HIDE DEF new
  <1>4. ASSUME q # p, NEW i \in DOMAIN queue
        PROVE  (Plays(new[i], q) <=> Plays(queue[i], q)) /\ (Plays(queue[i], q) => new[i] = queue[i])
    BY <1>1, <1>2, <1>3, <1>4
  <1>5. ASSUME q # p PROVE Alike(new, queue, q)
    <2>1. Waits(new, q) <=> Waits(queue, q) BY <1>1, <1>4, <1>5, Zenon DEF Waits
    <2>2. Once(queue, q) => Once(new, q) BY <1>1, <1>4, <1>5, Zenon DEF Once
    <2>3. \A r : Says(queue, q, r) => Says(new, q, r) BY <1>1, <1>4, <1>5, Zenon DEF Says
    <2>4. \A w : At(queue, q, w) => At(new, q, w) BY <1>1, <1>4, <1>5, Zenon DEF At
    <2>5. QED BY <2>1, <2>2, <2>3, <2>4 DEF Alike
  <1>6. \A i \in DOMAIN queue : Plays(new[i], p) <=> Plays(queue[i], p)
    BY <1>1, <1>2
  <1>a. \A i \in DOMAIN queue : Plays(new[i], p) => new[i] = Play(node, p, v)
    BY <1>1, <1>2
  <1>b. DOMAIN new = DOMAIN queue BY <1>1
  <1>7. Waits(new, p) <=> Waits(queue, p) BY <1>b, <1>6, Zenon DEF Waits
  <1>8. Once(queue, p) => Once(new, p) BY <1>b, <1>6, Zenon DEF Once
  <1>9. Says(new, p, node) /\ At(new, p, v) BY <1>b, <1>2, <1>a, Zenon DEF Says, At
  <1>10. QED BY <1>5, <1>7, <1>8, <1>9 DEF new

LEMMA AlikeItself == \A ops, p : Alike(ops, ops, p)
  BY DEF Alike

LEMMA AlikeTwice ==
  \A new, mid, old, p : Alike(new, mid, p) /\ Alike(mid, old, p) => Alike(new, old, p)
  BY DEF Alike

LEMMA NotWaiting ==
  ASSUME NEW ops, NEW p, ~Waits(ops, p)
  PROVE  Once(ops, p) /\ (\A r : Says(ops, p, r)) /\ (\A v : At(ops, p, v))
  BY DEF Waits, Once, Says, At

\* A playback that was not played is nowhere, one in a source waits nowhere.
Unplayed(p) == asked[p] = 0 => at[p] = NoRid /\ ~Waits(queue, p) /\ ~Waits(batch, p)
Placed(p) == at[p] # NoRid => at[p] = playedOn[p] /\ ~Waits(queue, p) /\ ~Waits(batch, p)

\* What waits, waits once, for the node it was played on.
Queued(p) ==
  /\ Once(queue, p) /\ Once(batch, p) /\ ~(Waits(queue, p) /\ Waits(batch, p))
  /\ Says(queue, p, playedOn[p]) /\ Says(batch, p, playedOn[p])
  /\ playedOn[p] \in created \cup {NoRid}
  /\ expired => ~Waits(queue, p) /\ ~Waits(batch, p)

Audible(p) ==
  phase # "finished" /\ p \in playing /\ playedOn[p] = node /\ node # NoRid
    => at[p] = node \/ Waits(queue, p) \/ Waits(batch, p)

\* Its volume is the one asked for, before and after it is applied.
Loud(p) ==
  /\ At(queue, p, asked[p])
  /\ p \notin missed => At(batch, p, asked[p]) /\ (at[p] # NoRid => level[p] = asked[p])

Facts(p) == Unplayed(p) /\ Placed(p) /\ Queued(p) /\ Audible(p) /\ Loud(p)

PlayInv == \A p \in Playback : Facts(p)

\* What leaves a playback alone, and what a node's new RID does to it.
LEMMA Steady ==
  ASSUME NEW p \in Playback, Facts(p),
         Alike(queue', queue, p), batch' = batch, at'[p] = at[p], level'[p] = level[p],
         playedOn'[p] = playedOn[p], asked'[p] = asked[p], p \in missed' <=> p \in missed,
         created \subseteq created', p \in playing' => p \in playing, expired' => expired,
         phase = "finished" => phase' = "finished",
         node' = node \/ node' = NoRid \/ node' \notin created
  PROVE  Facts(p)'
  <1>1. Unplayed(p)' /\ Placed(p)' BY DEF Facts, Unplayed, Placed, Alike
  <1>2. Queued(p)'
    <2>1. Once(queue', p) /\ Says(queue', p, playedOn[p]) /\ (Waits(queue', p) <=> Waits(queue, p))
      BY DEF Facts, Queued, Alike
    <2>2. QED BY <2>1 DEF Facts, Queued
  <1>3. Audible(p)' BY DEF Facts, Audible, Queued, Alike
  <1>4. Loud(p)'
    <2>1. At(queue', p, asked[p]) BY DEF Facts, Loud, Alike
    <2>2. QED BY <2>1 DEF Facts, Loud
  <1>5. QED BY <1>1, <1>2, <1>3, <1>4 DEF Facts

LEMMA PlayedStep ==
  ASSUME TypeOK, RidInv, PlayInv, NEW p \in Playback, PlayStream(p), NEW q \in Playback
  PROVE  Facts(q)'
  <1> USE DEF rids, history, playback
  <1>0. /\ Source \subseteq Rid /\ node \in Rid \cup {NoRid} /\ NoRid \notin Rid
        /\ queue \in Seq(Op) /\ asked \in [Playback -> 0..Volumes] /\ created \subseteq Rid
        /\ playedOn \in [Playback -> Source \cup {NoRid}] /\ playing \subseteq Playback
    BY OpsConstants DEF Rid, TypeOK
  <1>1. PICK v \in Volume : PlayOnNode(p, v) /\ expired' = FALSE BY DEF PlayStream
  <1>2. PICK r \in Rid \cup {NoRid}, ops \in Seq(Op) :
          /\ AddPlayback(r, p, v, ops) /\ r = node'
          /\ \A x : Alike(ops, queue, x)
          /\ node' = node \/ node' \notin created
          /\ created \subseteq created' /\ r \in created' \cup {NoRid}
    <2>1. CASE node # NoRid \/ ~dynamic
      <3>1. AddPlayback(node, p, v, queue) /\ node' = node /\ created' = created
        BY <1>1, <2>1 DEF PlayOnNode, Register
      <3>2. node \in created \cup {NoRid}
        BY <1>1 DEF PlayOnNode, RidInv, HeldIsAlive, Owned, TypeOK
      <3>3. QED BY <1>0, <3>1, <3>2, AlikeItself
    <2>2. CASE node = NoRid /\ dynamic
      <3>1. PICK r \in Source : Register(r) /\ AddPlayback(r, p, v, Append(queue, Add(r)))
        BY <1>1, <2>2 DEF PlayOnNode
      <3>2. r \in Rid /\ Add(r) \in Op /\ \A x : ~Plays(Add(r), x)
        BY <1>0, <3>1, OpsAreTyped DEF Plays, Add
      <3>3. Append(queue, Add(r)) \in Seq(Op) BY <1>0, <3>2
      <3>4. \A x : Alike(Append(queue, Add(r)), queue, x) BY <1>0, <3>2, AppendOther
      <3>5. node' = r /\ node' \notin created /\ created \subseteq created' /\ r \in created'
        BY <3>1 DEF Register
      <3>6. QED BY <3>1, <3>2, <3>3, <3>4, <3>5
    <2>3. QED BY <2>1, <2>2
  <1>3. /\ queue' = Append(ops, Play(r, p, v)) /\ playing' = playing \cup {p}
        /\ playedOn' = [playedOn EXCEPT ![p] = r] /\ asked' = [asked EXCEPT ![p] = v]
    BY <1>2 DEF AddPlayback
  <1>4. asked[p] = 0 /\ UNCHANGED <<phase, dynamic, batch, at, level, missed>>
    BY <1>1 DEF PlayOnNode
  <1>5. CASE q # p
    <2>1. Play(r, p, v) \in Op /\ ~Plays(Play(r, p, v), q)
      BY <1>5, OpsAreTyped DEF Plays, Play
    <2>2. Alike(queue', ops, q) BY <1>3, <2>1, AppendOther
    <2>3. Alike(queue', queue, q) BY <1>2, <2>2, AlikeTwice
    <2>4. playedOn'[q] = playedOn[q] /\ asked'[q] = asked[q] /\ (q \in playing' => q \in playing)
      BY <1>0, <1>3, <1>5
    <2>5. Facts(q) BY DEF PlayInv
    <2>6. QED BY <1>1, <1>2, <1>4, <2>3, <2>4, <2>5, Steady
  <1>6. CASE q = p
    <2>1. at[p] = NoRid /\ ~Waits(queue, p) /\ ~Waits(batch, p)
      BY <1>4 DEF PlayInv, Facts, Unplayed
    <2>2. ~Waits(ops, p) BY <1>2, <2>1 DEF Alike
    <2>3. Waits(queue', p) /\ Once(queue', p) /\ Says(queue', p, r) /\ At(queue', p, v)
      BY <1>3, <2>2, AppendPlay
    <2>4. playedOn'[p] = r /\ asked'[p] = v /\ v # 0 BY <1>0, <1>3 DEF Volume
    <2>5. batch' = batch /\ at'[p] = NoRid /\ expired' = FALSE BY <1>1, <1>4, <2>1
    <2>6. r \in created' \cup {NoRid} BY <1>2
    <2>7. Once(batch, p) /\ Says(batch, p, r) /\ At(batch, p, v) BY <2>1, NotWaiting
    <2>8. Unplayed(p)' /\ Placed(p)' BY <2>4, <2>5 DEF Unplayed, Placed
    <2>9. Queued(p)' BY <2>1, <2>3, <2>4, <2>5, <2>6, <2>7 DEF Queued
    <2>10. Audible(p)' /\ Loud(p)' BY <2>3, <2>4, <2>5, <2>7 DEF Audible, Loud
    <2>11. QED BY <1>6, <2>8, <2>9, <2>10 DEF Facts
  <1>7. QED BY <1>5, <1>6

\* A volume goes to where the playback is, or to nowhere.
LEMMA VolumeStep ==
  ASSUME TypeOK, RidInv, PlayInv, NEW p \in Playback, NEW v \in Volume, SetVolume(p, v),
         NEW q \in Playback
  PROVE  Facts(q)'
  <1> USE DEF rids, source
  <1>0. /\ queue \in Seq(Op) /\ asked \in [Playback -> 0..Volumes] /\ v # 0
        /\ level \in [Playback -> 0..Volumes] /\ Facts(q)
    BY DEF TypeOK, PlayInv, Volume
  <1>1. /\ UNCHANGED <<phase, created, node, expired, batch, playing, at, playedOn>>
        /\ asked' = [asked EXCEPT ![p] = v] /\ playedOn[p] = node /\ node # NoRid
    BY DEF SetVolume
  <1>2. node \in alive BY DEF SetVolume, RidInv, HeldIsAlive, Owned
  <1>3. CASE at[p] = node
    <2>1. level' = [level EXCEPT ![p] = v] /\ missed' = missed \ {p} /\ queue' = queue
      BY <1>2, <1>3 DEF SetVolume
    <2>2. CASE q # p
      <3>1. Alike(queue', queue, q) BY <2>1, AlikeItself
      <3>2. level'[q] = level[q] /\ asked'[q] = asked[q] /\ (q \in missed' <=> q \in missed)
        BY <1>0, <1>1, <2>1, <2>2
      <3>3. QED BY <1>0, <1>1, <3>1, <3>2, Steady
    <2>3. CASE q = p
      <3>1. ~Waits(queue, p) /\ ~Waits(batch, p)
        BY <1>0, <1>1, <1>3, <2>3 DEF Facts, Placed
      <3>2. At(queue, p, v) /\ At(batch, p, v) BY <3>1, NotWaiting
      <3>3. asked'[p] = v /\ level'[p] = v BY <1>0, <1>1, <2>1
      <3>4. Unplayed(p)' /\ Placed(p)' /\ Queued(p)' /\ Audible(p)'
        BY <1>0, <1>1, <2>1, <2>3, <3>3 DEF Facts, Unplayed, Placed, Queued, Audible
      <3>5. Loud(p)' BY <1>1, <2>1, <3>2, <3>3 DEF Loud
      <3>6. QED BY <2>3, <3>4, <3>5 DEF Facts
    <2>4. QED BY <2>2, <2>3
  <1>4. CASE at[p] # node
    <2>1. /\ queue' = Requeued(p, v) /\ level' = level
          /\ missed' = IF Waits(batch, p) THEN missed \cup {p} ELSE missed
      BY <1>2, <1>4 DEF SetVolume
    <2>2. CASE q # p
      <3>1. Alike(queue', queue, q) BY <1>0, <2>1, <2>2, RequeuedPlays
      <3>2. asked'[q] = asked[q] /\ (q \in missed' <=> q \in missed)
        BY <1>0, <1>1, <2>1, <2>2
      <3>3. QED BY <1>0, <1>1, <2>1, <3>1, <3>2, Steady
    <2>3. CASE q = p
      <3>1. at[p] = NoRid BY <1>0, <1>1, <1>4, <2>3 DEF Facts, Placed
      <3>2. /\ Waits(queue', p) <=> Waits(queue, p)
            /\ Once(queue, p) => Once(queue', p)
            /\ Says(queue', p, node) /\ At(queue', p, v)
        BY <1>0, <2>1, RequeuedPlays
      <3>3. asked'[p] = v BY <1>0, <1>1
      <3>4. Unplayed(p)' /\ Placed(p)' BY <1>0, <1>1, <3>1, <3>3 DEF Unplayed, Placed
      <3>5. Queued(p)' BY <1>0, <1>1, <2>3, <3>2 DEF Facts, Queued
      <3>6. Audible(p)' BY <1>0, <1>1, <2>3, <3>2 DEF Facts, Audible
      <3>7. p \notin missed' => At(batch, p, v) BY <2>1, NotWaiting
      <3>8. Loud(p)' BY <1>1, <3>1, <3>2, <3>3, <3>7 DEF Loud
      <3>9. QED BY <2>3, <3>4, <3>5, <3>6, <3>8 DEF Facts
    <2>4. QED BY <2>2, <2>3
  <1>5. QED BY <1>3, <1>4

\* One operation moves from the batch into the source it is for.
LEMMA AppliedStep ==
  ASSUME TypeOK, RidInv, PlayInv, ApplyPendingOps, NEW q \in Playback
  PROVE  Facts(q)'
  <1> USE DEF rids, source, history
  <1> DEFINE op == Head(batch)
  <1>0. Facts(q) BY DEF PlayInv
  <1>1. /\ op \in Op /\ Apply(op) /\ batch' = Tail(batch) /\ batch # <<>> /\ batch \in Seq(Op)
        /\ UNCHANGED <<phase, created, node, expired, queue, playing, playedOn, asked, missed>>
    BY InTail DEF ApplyPendingOps, TypeOK
  <1>2. /\ Waits(batch, q) <=> Plays(op, q) \/ Waits(batch', q)
        /\ Once(batch, q) => Once(batch', q) /\ ~(Plays(op, q) /\ Waits(batch', q))
        /\ \A r : Says(batch, q, r) => Says(batch', q, r) /\ (Plays(op, q) => op.rid = r)
        /\ \A v : At(batch, q, v) => At(batch', q, v) /\ (Plays(op, q) => op.volume = v)
    BY <1>1, TailPlays
  <1>3. op.do = "remove" => op = Remove(op.rid) BY <1>1 DEF Op, Remove
  <1>4. phase # "finished"
    BY <1>1 DEF RidInv, Stages, ApplyPendingOps
  <1>5. In(batch, op) BY <1>1, InTail
  <1>6. /\ at \in [Playback -> alive \cup {NoRid}] /\ level \in [Playback -> 0..Volumes]
        /\ NoRid \notin alive /\ node \in Source \cup {NoRid}
    BY OpsConstants DEF TypeOK, Rid
  <1>7. node # NoRid => node \in alive /\ ~In(batch, Remove(node))
    BY <1>4 DEF RidInv, HeldIsAlive, Owned
  <1> HIDE DEF op
  <1>8. Queued(q)' BY <1>0, <1>1, <1>2 DEF Facts, Queued
  <1>9. At(queue, q, asked[q]) /\ (q \notin missed => At(batch', q, asked[q]))
    BY <1>0, <1>2 DEF Facts, Loud
  <1>10. CASE Plays(op, q) /\ op.rid \in alive
    <2>1. op.do = "play" /\ op.playback = q BY <1>10 DEF Plays
    <2>2. at' = [at EXCEPT ![q] = op.rid] /\ level' = [level EXCEPT ![q] = op.volume]
      BY <1>1, <1>10, <2>1 DEF Apply
    <2>3. at'[q] = op.rid /\ level'[q] = op.volume /\ op.rid = playedOn[q]
      BY <1>0, <1>2, <1>6, <1>10, <2>2 DEF Facts, Queued
    <2>4. ~Waits(queue, q) /\ ~Waits(batch', q)
      BY <1>0, <1>2, <1>10 DEF Facts, Queued
    <2>5. asked[q] # 0 BY <1>0, <1>2, <1>10 DEF Facts, Unplayed
    <2>6. q \notin missed => level'[q] = asked[q]
      BY <1>0, <1>2, <1>10, <2>3 DEF Facts, Loud
    <2>7. Unplayed(q)' /\ Placed(q)' /\ Audible(q)'
      BY <1>1, <2>3, <2>4, <2>5 DEF Unplayed, Placed, Audible
    <2>8. Loud(q)' BY <1>1, <1>9, <2>6 DEF Loud
    <2>9. QED BY <1>8, <2>7, <2>8 DEF Facts
  <1>11. CASE ~(Plays(op, q) /\ op.rid \in alive)
    <2>1. level'[q] = level[q] /\ (at'[q] = at[q] \/ (at'[q] = NoRid /\ In(batch, Remove(at[q]))))
      <3>1. CASE op.rid \notin alive \/ op.do = "add" BY <1>1, <3>1 DEF Apply
      <3>2. CASE op.rid \in alive /\ op.do = "remove"
        BY <1>1, <1>3, <1>5, <1>6, <3>2 DEF Apply
      <3>3. CASE op.rid \in alive /\ op.do = "play"
        <4>1. op.playback # q BY <1>11, <3>3 DEF Plays
        <4>2. QED BY <1>1, <1>6, <3>3, <4>1 DEF Apply
      <3>4. QED BY <1>1, <3>1, <3>2, <3>3 DEF Apply
    <2>2. Plays(op, q) => playedOn[q] # node \/ node = NoRid
      BY <1>0, <1>2, <1>7, <1>11 DEF Facts, Queued
    <2>3. at'[q] # NoRid => at'[q] = at[q] BY <2>1
    <2>4. Unplayed(q)' BY <1>0, <1>1, <1>2, <2>1 DEF Facts, Unplayed
    <2>5. Placed(q)' BY <1>0, <1>1, <1>2, <2>3 DEF Facts, Placed
    <2>6. Audible(q)' BY <1>0, <1>1, <1>2, <1>4, <1>7, <2>1, <2>2 DEF Facts, Audible
    <2>7. Loud(q)' BY <1>0, <1>1, <1>9, <2>1, <2>3 DEF Facts, Loud
    <2>8. QED BY <1>8, <2>4, <2>5, <2>6, <2>7 DEF Facts
  <1>12. QED BY <1>10, <1>11

LEMMA PlayInvStep == TypeOK /\ RidInv /\ PlayInv /\ [Next]_vars => PlayInv'
  <1> SUFFICES ASSUME TypeOK, RidInv, PlayInv, [Next]_vars, NEW q \in Playback PROVE Facts(q)'
    BY DEF PlayInv
  <1> USE DEF rids, source, playback, history
  <1>0. /\ Facts(q) /\ queue \in Seq(Op) /\ Source \subseteq Rid /\ Other \subseteq Rid
        /\ node \in Rid \cup {NoRid} /\ Alike(queue, queue, q)
    BY AlikeItself DEF PlayInv, TypeOK, Rid
  <1>a. \A r \in Rid : /\ Alike(Append(queue, Add(r)), queue, q)
                       /\ Alike(Append(queue, Remove(r)), queue, q)
    <2>1. \A r : ~Plays(Add(r), q) /\ ~Plays(Remove(r), q) BY DEF Plays, Add, Remove
    <2>2. QED BY <1>0, <2>1, OpsAreTyped, AppendOther
  <1>b. \A x : ~Waits(<<>>, x) BY DEF Waits
  <1>1. ASSUME NEW r \in Other, Create(r) \/ Free(r) PROVE Facts(q)'
    <2>1. /\ UNCHANGED <<source, phase, batch, playback, history>> /\ created \subseteq created'
          /\ queue' = Append(queue, Add(r)) \/ queue' = Append(queue, Remove(r))
      BY <1>1 DEF Create, Free
    <2>2. Alike(queue', queue, q) BY <1>0, <1>a, <2>1
    <2>3. QED BY <1>0, <2>1, <2>2, Steady
  <1>2. CASE EnterTree
    <2>1. /\ UNCHANGED <<expired, phase, batch, playback, history>> /\ created \subseteq created'
          /\ Alike(queue', queue, q) /\ (node' = node \/ node' \notin created)
      <3>1. UNCHANGED <<expired, phase, batch, playback, history>> BY <1>2 DEF EnterTree
      <3>2. CASE UNCHANGED <<node, alive, created, queue>> BY <1>0, <3>1, <3>2
      <3>3. ASSUME NEW r \in Source, Register(r), queue' = Append(queue, Add(r))
            PROVE  created \subseteq created' /\ Alike(queue', queue, q) /\ node' \notin created
        BY <1>0, <1>a, <3>3 DEF Register
      <3>4. QED BY <1>2, <3>1, <3>2, <3>3 DEF EnterTree
    <2>2. QED BY <1>0, <2>1, Steady
  <1>3. CASE ExitTree \/ TimeOut
    <2>1. /\ UNCHANGED <<expired, created, phase, batch, playback, history>>
          /\ Unregister \/ UNCHANGED <<node, queue>>
      BY <1>3 DEF ExitTree, TimeOut
    <2>2. Alike(queue', queue, q) /\ (node' = node \/ node' = NoRid)
      BY <1>0, <1>a, <2>1 DEF Unregister
    <2>3. QED BY <1>0, <2>1, <2>2, Steady
  <1>4. CASE KeepAlive
    <2>1. UNCHANGED <<phase, rids, node, queue, batch, playback, history>> /\ ~expired'
      BY <1>4 DEF KeepAlive
    <2>2. QED BY <1>0, <2>1, Steady
  <1>5. CASE Expire
    <2>1. /\ UNCHANGED <<phase, rids, node, queue, batch, playback, history>>
          /\ queue = <<>> /\ batch = <<>>
      BY <1>5 DEF Expire
    <2>2. QED BY <1>0, <1>b, <2>1 DEF Facts, Unplayed, Placed, Queued, Audible, Loud
  <1>6. ASSUME NEW p \in Playback, PlayStream(p) PROVE Facts(q)' BY <1>6, PlayedStep
  <1>7. ASSUME NEW p \in Playback, Stop(p) PROVE Facts(q)'
    <2>1. /\ UNCHANGED <<phase, rids, source, queue, batch, at, level, history>>
          /\ q \in playing' => q \in playing
      BY <1>7 DEF Stop
    <2>2. QED BY <1>0, <2>1, Steady
  <1>8. ASSUME NEW p \in Playback, NEW v \in Volume, SetVolume(p, v) PROVE Facts(q)'
    BY <1>8, VolumeStep
  <1>9. CASE Swap
    <2>1. /\ UNCHANGED <<phase, rids, source, playback, history>>
          /\ batch' = queue /\ queue' = <<>> /\ batch = <<>>
      BY <1>9 DEF Swap, RidInv, Stages
    <2>2. ~Waits(queue', q) /\ ~Waits(batch, q) BY <1>b, <2>1
    <2>3. Once(queue', q) /\ (\A r : Says(queue', q, r)) /\ (\A v : At(queue', q, v))
      BY <2>2, NotWaiting
    <2>4. QED BY <1>0, <2>1, <2>2, <2>3 DEF Facts, Unplayed, Placed, Queued, Audible, Loud
  <1>10. CASE Lock \/ ReleaseLock \/ MixEnds \/ Finish
    <2>1. /\ UNCHANGED <<rids, source, queue, batch, playback, history>>
          /\ phase = "finished" => phase' = "finished"
      BY <1>10 DEF Lock, ReleaseLock, MixEnds, Finish
    <2>2. QED BY <1>0, <2>1, Steady
  <1>11. CASE ApplyPendingOps BY <1>11, AppliedStep
  <1>12. CASE ProcessAudio
    <2>1. /\ UNCHANGED <<phase, rids, source, queue, batch, playing, level, history>>
          /\ at'[q] = at[q] \/ (at'[q] = NoRid /\ q \notin playing)
      BY <1>12 DEF ProcessAudio, Pruned
    <2>2. QED BY <1>0, <2>1 DEF Facts, Unplayed, Placed, Queued, Audible, Loud
  <1>13. CASE Drain
    <2>1. /\ UNCHANGED <<rids, source, playback, history>>
          /\ phase # "finished" /\ phase' = "draining"
          /\ batch' = queue /\ queue' = <<>> /\ batch = <<>>
      BY <1>13 DEF Drain, RidInv, Stages
    <2>2. ~Waits(queue', q) /\ ~Waits(batch, q) BY <1>b, <2>1
    <2>3. Once(queue', q) /\ (\A r : Says(queue', q, r)) /\ (\A v : At(queue', q, v))
      BY <2>2, NotWaiting
    <2>4. QED BY <1>0, <2>1, <2>2, <2>3 DEF Facts, Unplayed, Placed, Queued, Audible, Loud
  <1>14. CASE ReleaseAll
    <2>1. /\ UNCHANGED <<created, source, queue, batch, playing, level, history>>
          /\ phase' = "finished" /\ (at'[q] = at[q] \/ at'[q] = NoRid)
      BY <1>14 DEF ReleaseAll
    <2>2. QED BY <1>0, <2>1 DEF Facts, Unplayed, Placed, Queued, Audible, Loud
  <1>15. CASE UNCHANGED vars BY <1>0, <1>15 DEF vars, Facts, Unplayed, Placed, Queued, Audible, Loud
  <1>16. QED
    BY <1>1, <1>2, <1>3, <1>4, <1>5, <1>6, <1>7, <1>8, <1>9, <1>10, <1>11, <1>12, <1>13, <1>14, <1>15
    DEF Next, Nodes, Mixing, Finishing

LEMMA PlayInvInvariant == Spec => []PlayInv
  <1>1. Init => PlayInv
    <2> SUFFICES ASSUME Init, NEW p \in Playback PROVE Facts(p) BY DEF PlayInv
    <2>1. /\ queue = <<>> /\ batch = <<>> /\ at[p] = NoRid /\ playedOn[p] = NoRid
          /\ node = NoRid /\ ~expired
      BY DEF Init
    <2>2. ~Waits(queue, p) /\ ~Waits(batch, p) BY <2>1 DEF Waits
    <2>3. QED BY <2>1, <2>2, NotWaiting DEF Facts, Unplayed, Placed, Queued, Audible, Loud
  <1>2. QED BY <1>1, TypeCorrect, RidInvInvariant, PlayInvStep, PTL DEF Spec

\* However registering, swapping, pruning and volume changes interleave: what
\* plays on the registered node is queued, swapped out or in its source.
THEOREM NothingIsDropped == Spec => []NeverDropped
  <1>1. TypeOK /\ PlayInv => NeverDropped
    BY DEF TypeOK, PlayInv, Facts, Audible, NeverDropped
  <1>2. QED BY <1>1, TypeCorrect, PlayInvInvariant, PTL

\* A playback in a source has the volume asked for last, save one that was
\* asked for between the swap and the lock.
THEOREM VolumesAreKept == Spec => []VolumeKept
  <1>1. PlayInv => VolumeKept BY DEF PlayInv, Facts, Loud, VolumeKept
  <1>2. QED BY <1>1, PlayInvInvariant, PTL

\* A dynamic node that times out has no playback left, in the source or on the
\* way there.
THEOREM IdleNodesTimeOut == Spec => IdleWhenRemoved
  <1>1. TypeOK /\ RidInv /\ PlayInv /\ [Next]_vars
          => [TimeOut => \A p \in playing : playedOn[p] # node]_vars
    <2> SUFFICES ASSUME TypeOK, RidInv, PlayInv, TimeOut, NEW p \in playing, playedOn[p] = node
                 PROVE  FALSE
      OBVIOUS
    <2>1. /\ p \in Playback /\ expired /\ ~Active /\ node # NoRid /\ phase = "running"
      BY DEF TypeOK, TimeOut
    <2>2. node \in alive BY <2>1 DEF RidInv, HeldIsAlive, Owned
    <2>3. ~Waits(queue, p) /\ ~Waits(batch, p) BY <2>1 DEF PlayInv, Facts, Queued
    <2>4. at[p] = node BY <2>1, <2>3 DEF PlayInv, Facts, Audible
    <2>5. QED BY <2>1, <2>2, <2>4 DEF Active
  <1>2. QED BY <1>1, TypeCorrect, RidInvInvariant, PlayInvInvariant, PTL DEF Spec, IdleWhenRemoved

=============================================================================
