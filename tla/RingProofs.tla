----------------------------- MODULE RingProofs -----------------------------
(***************************************************************************)
(* The two threads of a ring buffer never meet on a frame and never find   *)
(* less room or fewer frames than they were told, and the ring implements  *)
(* a bounded queue, for every size.                                        *)
(***************************************************************************)
EXTENDS RingBuffer, SequenceTheorems, TLAPS

\* Masking a position that is less than two rounds ahead.
LEMMA MaskOnce ==
  ASSUME NEW n \in Nat, n < Size + Size
  PROVE  Mask(n) = IF n < Size THEN n ELSE n - Size
<1>1. CASE n < Size
  BY <1>1, RingConstants DEF Mask
<1>2. CASE n >= Size
  BY <1>2, RingConstants DEF Mask
<1>3. QED
  BY <1>1, <1>2, RingConstants

\* What each place of a thread knows about the positions.
Positions == readPos \in Slot /\ writePos \in Slot /\ seen \in Slot

WriterKnows ==
  /\ left \in Nat /\ wanted \in Nat /\ sizeR \in Nat /\ Len(buf) \in Nat
  /\ pcW \in {"idle", "push_buffer", "write", "frame", "store"}
  /\ pcW # "idle" <=> mutex = "mixing"
  /\ pcW # "idle" => left <= SpaceLeft
  /\ pcW \in {"write", "frame", "store"} => left >= 1

ReaderKnows ==
  /\ pcR = "clear" => sizeR \in Slot /\ Filled(sizeR, readPos) <= DataLeft
  /\ pcR = "read" => wanted <= DataLeft
  /\ pcR = "copy" => sizeR <= DataLeft

MainKnows == mutex = "main" => seen = writePos

\* Until the mixing thread knows the playback, the ring is empty and at rest.
SetupKnows ==
  setup # "added" =>
    /\ readPos = 0 /\ writePos = 0 /\ seen = 0 /\ sizeR = 0
    /\ mutex = "free" /\ pcW = "idle" /\ pcR \notin {"read", "copy"}

RingInv == Positions /\ WriterKnows /\ ReaderKnows /\ MainKnows /\ SetupKnows

LEMMA RingInit == Init => RingInv
BY RingConstants DEF Init, RingInv, Positions, WriterKnows, ReaderKnows, MainKnows, SetupKnows,
       Slot

\* What the mixing thread does.
LEMMA ProducerStep == RingInv /\ Producer => RingInv'
<1> SUFFICES ASSUME RingInv, Producer PROVE RingInv'
  OBVIOUS
<1> USE RingConstants DEF RingInv, Positions, WriterKnows, ReaderKnows, MainKnows, SetupKnows,
        Slot, main, consumer, SpaceLeft, DataLeft, Filled
<1>1. CASE Offer
  BY <1>1 DEF Offer
<1>2. CASE PushBuffer
  BY <1>2 DEF PushBuffer
<1>3. CASE BeginWrite
  BY <1>3 DEF BeginWrite
<1>4. CASE WriteFrame
  BY <1>4 DEF WriteFrame
<1>5. CASE StoreWrite
  <2>1. writePos' = IF writePos + 1 < Size THEN writePos + 1 ELSE 0
    BY <1>5, MaskOnce DEF StoreWrite
  <2>2. /\ pcW = "store" /\ pcW' = "push_buffer" /\ left' = left - 1 /\ left >= 1
        /\ UNCHANGED <<readPos, mutex, consumer, main>> /\ mutex = "mixing"
    BY <1>5 DEF StoreWrite
  <2>3. QED
    BY <2>1, <2>2
<1>6. QED
  BY <1>1, <1>2, <1>3, <1>4, <1>5 DEF Producer

\* What the reader does.
LEMMA ConsumerStep == RingInv /\ Consumer => RingInv'
<1> SUFFICES ASSUME RingInv, Consumer PROVE RingInv'
  OBVIOUS
<1> USE RingConstants DEF RingInv, Positions, WriterKnows, ReaderKnows, MainKnows, SetupKnows,
        Slot, main, producer, SpaceLeft, DataLeft, Filled
<1>1. CASE BeginMix
  BY <1>1 DEF BeginMix
<1>2. CASE StoreClear
  BY <1>2 DEF StoreClear
<1>3. CASE Ask
  BY <1>3 DEF Ask, Least
<1>4. CASE BeginRead
  BY <1>4 DEF BeginRead, Least
<1>5. CASE CopyOut
  BY <1>5 DEF CopyOut
<1>6. CASE StoreRead
  <2>1. readPos' = IF readPos + sizeR < Size THEN readPos + sizeR ELSE readPos + sizeR - Size
    BY <1>6, MaskOnce DEF StoreRead
  <2>2. QED
    BY <1>6, <2>1 DEF StoreRead
<1>7. QED
  BY <1>1, <1>2, <1>3, <1>4, <1>5, <1>6 DEF Consumer

LEMMA RingStep == RingInv /\ [Next]_vars => RingInv'
<1> SUFFICES ASSUME RingInv, [Next]_vars PROVE RingInv'
  OBVIOUS
<1> USE DEF RingInv, Positions, WriterKnows, ReaderKnows, MainKnows, SetupKnows, main,
        SpaceLeft, DataLeft, Filled
<1>1. CASE RequestReset
  BY <1>1 DEF RequestReset, producer, consumer
<1>2. CASE Latency \/ LatencyReturns
  <2>1. UNCHANGED <<readPos, writePos, producer, consumer>> /\ mutex \in {"free", "main"}
        /\ mutex' \in {"free", "main"}
    BY <1>2 DEF Latency, LatencyReturns
  <2>2. (mutex' = "main" => seen' = writePos) /\ seen' \in Slot
    BY <1>2, RingConstants DEF Latency, LatencyReturns, Slot
  <2>3. setup = "added" /\ setup' = setup
    BY <1>2 DEF Latency, LatencyReturns
  <2> QED BY <2>1, <2>2, <2>3 DEF producer, consumer
<1>3. CASE UNCHANGED vars
  BY <1>3 DEF vars, producer, consumer
<1>4. CASE Play \/ Resize \/ AddPlayback
  BY <1>4 DEF Play, Resize, AddPlayback, producer, consumer
<1>5. CASE ResizeEnds
  <2>1. writePos' = 0 /\ readPos' = 0
    BY <1>5, MaskOnce, RingConstants DEF ResizeEnds
  <2> QED BY <1>5, <2>1 DEF ResizeEnds, producer, consumer
<1>6. QED
  BY <1>1, <1>2, <1>3, <1>4, <1>5, ProducerStep, ConsumerStep DEF Next, Setup

\* The frames a reader was promised end before the frame being written.
LEMMA Apart ==
  ASSUME RingInv, pcW \in {"frame", "store"},
         NEW n \in Nat, n <= DataLeft, NEW i \in 0..n - 1
  PROVE  Mask(readPos + i) # writePos
<1>1. PICK j \in Nat : j = readPos + i /\ i \in Nat /\ i < n /\ j < Size + Size
  BY RingConstants DEF RingInv, Positions, Slot, DataLeft, Filled
<1>2. Mask(j) = IF j < Size THEN j ELSE j - Size
  BY <1>1, MaskOnce
<1>3. (IF j < Size THEN j ELSE j - Size) # writePos
  BY <1>1, RingConstants DEF RingInv, WriterKnows, Positions, Slot, DataLeft, SpaceLeft, Filled
<1>4. QED
  BY <1>1, <1>2, <1>3

\* For every size of the ring and of the reads and pushes: no frame is
\* accessed by both threads at once, which is what the plain accesses to the
\* frames rely on.
THEOREM RingHasNoRace == Spec => []NoRace
<1>1. RingInv => NoRace
  BY Apart DEF NoRace, RingInv, ReaderKnows, WriterKnows
<1>2. QED
  BY <1>1, RingInit, RingStep, PTL DEF Spec

\* push_buffer() writes every frame it is given.
THEOREM PushIsWhole == Spec => []NoShortPush
<1>1. RingInv => NoShortPush
  BY DEF RingInv, NoShortPush, WriterKnows
<1>2. QED
  BY <1>1, RingInit, RingStep, PTL DEF Spec

\* read() finds every frame data_left() announced.
THEOREM ReadIsWhole == Spec => []NoShortRead
<1>1. RingInv => NoShortRead
  BY DEF RingInv, NoShortRead, ReaderKnows
<1>2. QED
  BY <1>1, RingInit, RingStep, PTL DEF Spec

\* The occupancy the main thread reports was the occupancy.
THEOREM LatencyIsHonest == Spec => []LatencyHonest
<1>1. RingInv => LatencyHonest
  BY DEF RingInv, LatencyHonest, MainKnows, DataLeft
<1>2. QED
  BY <1>1, RingInit, RingStep, PTL DEF Spec

\* set_buffer_size() may come after play(), for the ring is empty and at rest.
THEOREM ResizeIsSafe == Spec => []ResizedInQuiet
<1>1. RingInv => ResizedInQuiet
  BY DEF RingInv, ResizedInQuiet, SetupKnows, DataLeft, Filled
<1>2. QED
  BY <1>1, RingInit, RingStep, PTL DEF Spec

-----------------------------------------------------------------------------
(* The frames between two positions, as a sequence.                        *)

Frames == Frame \cup {Blank}

Between(d, r, w) == [i \in 1..Filled(w, r) |-> d[Mask(r + i - 1)]]

\* The place of the frame that is k ahead of a position.
LEMMA Ahead ==
  ASSUME NEW r \in Slot, NEW k \in Nat, k < Size
  PROVE  Mask(r + k) = (IF r + k < Size THEN r + k ELSE r + k - Size) /\ Mask(r + k) \in Slot
<1>1. PICK j \in Nat : j = r + k /\ j < Size + Size
  BY RingConstants DEF Slot
<1>2. Mask(j) = IF j < Size THEN j ELSE j - Size
  BY <1>1, MaskOnce
<1> QED BY <1>1, <1>2, RingConstants DEF Slot

LEMMA FilledIs ==
  ASSUME NEW r \in Slot, NEW w \in Slot
  PROVE  Filled(w, r) \in 0..Size - 1
BY RingConstants DEF Filled, Slot

LEMMA BetweenIs ==
  ASSUME NEW d \in [Slot -> Frames], NEW r \in Slot, NEW w \in Slot
  PROVE  /\ Filled(w, r) \in 0..Size - 1
         /\ Between(d, r, w) \in Seq(Frames) /\ Len(Between(d, r, w)) = Filled(w, r)
         /\ \A i \in 1..Filled(w, r) : Between(d, r, w)[i] = d[Mask(r + i - 1)]
<1>1. Filled(w, r) \in 0..Size - 1
  BY FilledIs
<1>2. ASSUME NEW i \in 1..Filled(w, r) PROVE Mask(r + i - 1) \in Slot
  <2>1. i - 1 \in Nat /\ i - 1 < Size /\ r + (i - 1) = r + i - 1
    BY <1>1, RingConstants DEF Slot
  <2> QED BY <2>1, Ahead
<1>3. Between(d, r, w) \in [1..Filled(w, r) -> Frames]
  BY <1>2 DEF Between
<1>4. Between(d, r, w) \in Seq(Frames) /\ Len(Between(d, r, w)) = Filled(w, r)
  BY <1>1, <1>3
<1> QED BY <1>1, <1>4 DEF Between

\* A frame stored at the write position goes to the end.
LEMMA BetweenGrows ==
  ASSUME NEW d \in [Slot -> Frames], NEW r \in Slot, NEW w \in Slot,
         Filled(w, r) < Size - 1
  PROVE  /\ Mask(w + 1) \in Slot
         /\ Between(d, r, Mask(w + 1)) = Between(d, r, w) \o <<d[w]>>
<1> DEFINE v == Mask(w + 1)
           n == Filled(w, r)
<1>0. n \in Nat /\ n < Size - 1 /\ Size \in Nat
  BY FilledIs, RingConstants
<1>1. v = (IF w + 1 < Size THEN w + 1 ELSE w + 1 - Size) /\ v \in Slot
  BY <1>0, Ahead
<1>2. Filled(v, r) = n + 1
  BY <1>0, <1>1 DEF Filled, Slot
<1>3. Mask(r + n) = w
  <2>1. Mask(r + n) = IF r + n < Size THEN r + n ELSE r + n - Size
    BY <1>0, Ahead
  <2> QED BY <1>0, <2>1 DEF Filled, Slot
<1> HIDE DEF v, n
<1>4. /\ Between(d, r, v) \in Seq(Frames) /\ Len(Between(d, r, v)) = n + 1
      /\ \A i \in 1..(n + 1) : Between(d, r, v)[i] = d[Mask(r + i - 1)]
  <2>1. v \in Slot
    BY <1>1
  <2>2. /\ Between(d, r, v) \in Seq(Frames) /\ Len(Between(d, r, v)) = Filled(v, r)
        /\ \A i \in 1..Filled(v, r) : Between(d, r, v)[i] = d[Mask(r + i - 1)]
    BY <2>1, BetweenIs
  <2> QED BY <1>2, <2>2, Zenon
<1>5. /\ Between(d, r, w) \in Seq(Frames) /\ Len(Between(d, r, w)) = n
      /\ \A i \in 1..n : Between(d, r, w)[i] = d[Mask(r + i - 1)]
  BY BetweenIs DEF n
<1>6. <<d[w]>> \in Seq(Frames) /\ Len(<<d[w]>>) = 1 /\ <<d[w]>>[1] = d[w]
  BY DEF Slot
<1> DEFINE longer == Between(d, r, w) \o <<d[w]>>
<1>7. /\ longer \in Seq(Frames) /\ Len(longer) = n + 1
      /\ \A i \in 1..(n + 1) : longer[i] = IF i <= n THEN Between(d, r, w)[i] ELSE <<d[w]>>[i - n]
  BY <1>5, <1>6, ConcatProperties
<1> HIDE DEF longer
<1>8. ASSUME NEW i \in 1..(n + 1) PROVE Between(d, r, v)[i] = longer[i]
  <2>1. CASE i <= n
    BY <1>0, <1>4, <1>5, <1>7, <2>1
  <2>2. CASE i = n + 1
    <3>1. r + i - 1 = r + n /\ i - n = 1 /\ ~(i <= n)
      BY <1>0, <2>2 DEF Slot
    <3> QED BY <1>3, <1>4, <1>6, <1>7, <3>1
  <2> QED BY <1>0, <2>1, <2>2
<1>9. Between(d, r, v) = longer
  BY <1>4, <1>7, <1>8, SeqEqual
<1> QED BY <1>1, <1>9 DEF v, longer

\* A read position that moves forward leaves the rest.
LEMMA BetweenShrinks ==
  ASSUME NEW d \in [Slot -> Frames], NEW r \in Slot, NEW w \in Slot, NEW q \in Slot,
         Filled(q, r) <= Filled(w, r)
  PROVE  /\ Filled(q, r) \in 0..Filled(w, r)
         /\ Between(d, q, w) = SubSeq(Between(d, r, w), Filled(q, r) + 1, Filled(w, r))
<1> DEFINE n == Filled(q, r)
           m == Filled(w, r)
           k == Filled(w, q)
<1>0. n \in Nat /\ m \in Nat /\ n <= m /\ m < Size /\ Size \in Nat
  BY FilledIs, RingConstants
<1>1. k = m - n
  BY <1>0 DEF Filled, Slot
<1>2. ASSUME NEW i \in 1..k PROVE Mask(q + i - 1) = Mask(r + (n + i) - 1)
  <2>1. q \in Int /\ r \in Int /\ 0 <= q /\ q < Size /\ 0 <= r /\ r < Size
        /\ i \in Int /\ 1 <= i /\ n + i < Size + 1
        /\ q = IF r + n < Size THEN r + n ELSE r + n - Size
    BY <1>0, <1>1 DEF Filled, Slot
  <2> HIDE DEF n, m, k
  <2>2. PICK a \in Nat : a = q + i - 1 /\ a < Size + Size
    BY <1>0, <2>1
  <2>3. PICK b \in Nat : b = r + (n + i) - 1 /\ b < Size + Size
    BY <1>0, <2>1
  <2>4. Mask(a) = (IF a < Size THEN a ELSE a - Size) /\ Mask(b) = IF b < Size THEN b ELSE b - Size
    BY <2>2, <2>3, MaskOnce
  <2>5. (IF a < Size THEN a ELSE a - Size) = IF b < Size THEN b ELSE b - Size
    BY <1>0, <2>1, <2>2, <2>3
  <2> QED BY <2>2, <2>3, <2>4, <2>5
<1>3. /\ Between(d, q, w) \in Seq(Frames) /\ Len(Between(d, q, w)) = k
      /\ \A i \in 1..k : Between(d, q, w)[i] = d[Mask(q + i - 1)]
  BY BetweenIs
<1>4. /\ Between(d, r, w) \in Seq(Frames) /\ Len(Between(d, r, w)) = m
      /\ \A i \in 1..m : Between(d, r, w)[i] = d[Mask(r + i - 1)]
  BY BetweenIs
<1> DEFINE rest == SubSeq(Between(d, r, w), n + 1, m)
<1> HIDE DEF n, m, k
<1>5. /\ rest \in Seq(Frames) /\ Len(rest) = k
      /\ \A i \in 1..k : rest[i] = Between(d, r, w)[n + i]
  <2>1. \A i \in (n + 1)..m : Between(d, r, w)[i] \in Frames
    BY <1>0, <1>4, ElementOfSeq
  <2>2. /\ rest \in Seq(Frames) /\ Len(rest) = IF n + 1 <= m THEN m - (n + 1) + 1 ELSE 0
        /\ \A i \in 1..(m - (n + 1) + 1) : rest[i] = Between(d, r, w)[n + 1 + i - 1]
    <3>1. n + 1 \in Int /\ m \in Int
      BY <1>0
    <3> QED BY <2>1, <3>1, SubSeqProperties
  <2>3. Len(rest) = k /\ m - (n + 1) + 1 = k
    BY <1>0, <1>1, <2>2
  <2>4. \A i \in 1..k : n + 1 + i - 1 = n + i
    BY <1>0
  <2> QED BY <2>2, <2>3, <2>4
<1> HIDE DEF rest
<1>6. ASSUME NEW i \in 1..k PROVE Between(d, q, w)[i] = rest[i]
  <2>1. n + i \in 1..m
    BY <1>0, <1>1
  <2> QED BY <1>2, <1>3, <1>4, <1>5, <2>1
<1>7. Between(d, q, w) = rest
  BY <1>3, <1>5, <1>6, SeqEqual
<1> QED BY <1>0, <1>7 DEF rest, n, m

-----------------------------------------------------------------------------
(* The ring implements the bounded queue.                                  *)

Kinds ==
  /\ resetRequested \in BOOLEAN /\ mutex \in {"free", "mixing", "main"}
  /\ pcR \in {"idle", "clear", "mix", "read", "copy"}
  /\ setup \in {"new", "played", "resizing", "sized", "added"}
  /\ left \in 0..MaxBatch /\ wanted \in 0..MaxBatch

Contents ==
  /\ data \in [Slot -> Frames]
  /\ pcW = "store" => data[writePos] \in Frame

\* What is copied is still in the ring, until read_pos moves.
Copying ==
  /\ buf \in Seq(Frames) /\ out \in Seq(Frames)
  /\ pcR # "copy" => buf = <<>>
  /\ pcR = "read" => wanted >= 1
  /\ pcR = "copy" => /\ sizeR >= 1 /\ Len(buf) <= sizeR
                     /\ \A i \in 1..Len(buf) : buf[i] = data[Mask(readPos + i - 1)]

QueueInv == RingInv /\ Kinds /\ Contents /\ Copying

LEMMA QueueInit == Init => QueueInv
<1> SUFFICES ASSUME Init PROVE QueueInv
  OBVIOUS
<1>1. RingInv
  BY RingInit
<1>2. Kinds
  <2>1. /\ resetRequested = FALSE /\ mutex = "free" /\ pcR = "idle" /\ setup = "new"
        /\ left = 0 /\ wanted = 0
    BY DEF Init
  <2>2. 0 \in 0..MaxBatch
    BY RingConstants
  <2> QED BY <2>1, <2>2, Zenon DEF Kinds
<1>3. Contents
  BY DEF Init, Contents, Frames
<1>4. Copying
  <2>1. buf = <<>> /\ out = <<>> /\ pcR = "idle"
    BY DEF Init
  <2>2. <<>> \in Seq(Frames)
    OBVIOUS
  <2> QED BY <2>1, <2>2 DEF Copying
<1> QED BY <1>1, <1>2, <1>3, <1>4 DEF QueueInv

LEMMA KindsStep == QueueInv /\ [Next]_vars => Kinds'
<1> SUFFICES ASSUME QueueInv, [Next]_vars PROVE Kinds'
  OBVIOUS
<1> USE RingConstants DEF QueueInv, RingInv, Positions, WriterKnows, Kinds, producer, consumer, main
<1>1. CASE Producer
  <2>1. CASE Offer
    BY <2>1 DEF Offer
  <2>2. CASE PushBuffer
    BY <2>2 DEF PushBuffer
  <2>3. CASE BeginWrite
    BY <2>3 DEF BeginWrite
  <2>4. CASE WriteFrame
    BY <2>4 DEF WriteFrame
  <2>5. CASE StoreWrite
    BY <2>5 DEF StoreWrite
  <2> QED BY <1>1, <2>1, <2>2, <2>3, <2>4, <2>5 DEF Producer
<1>2. CASE Consumer
  <2>1. CASE BeginMix
    BY <2>1 DEF BeginMix
  <2>2. CASE StoreClear
    BY <2>2 DEF StoreClear
  <2>3. CASE Ask
    BY <2>3 DEF Ask, Least, DataLeft, Filled, Slot
  <2>4. CASE BeginRead
    BY <2>4 DEF BeginRead
  <2>5. CASE CopyOut
    BY <2>5 DEF CopyOut
  <2>6. CASE StoreRead
    BY <2>6 DEF StoreRead
  <2> QED BY <1>2, <2>1, <2>2, <2>3, <2>4, <2>5, <2>6 DEF Consumer
<1>3. CASE RequestReset
  BY <1>3 DEF RequestReset
<1>4. CASE Latency \/ LatencyReturns
  BY <1>4 DEF Latency, LatencyReturns
<1>5. CASE Setup
  BY <1>5 DEF Setup, Play, Resize, ResizeEnds, AddPlayback
<1>6. CASE UNCHANGED vars
  BY <1>6 DEF vars
<1> QED BY <1>1, <1>2, <1>3, <1>4, <1>5, <1>6 DEF Next

\* The frame being written is outside what is stored.
LEMMA WriteFrameIsApart ==
  ASSUME QueueInv, WriteFrame
  PROVE  /\ data' \in [Slot -> Frames] /\ data'[writePos] \in Frame
         /\ \A i \in 1..DataLeft : data'[Mask(readPos + i - 1)] = data[Mask(readPos + i - 1)]
<1>1. PICK f \in Frame : data' = [data EXCEPT ![writePos] = f]
  BY DEF WriteFrame
<1>2. data \in [Slot -> Frames] /\ writePos \in Slot /\ readPos \in Slot
  BY DEF QueueInv, Contents, RingInv, Positions
<1>3. DataLeft \in 0..Size - 1
  BY <1>2, FilledIs DEF DataLeft
<1>4. ASSUME NEW i \in 1..DataLeft
      PROVE  data'[Mask(readPos + i - 1)] = data[Mask(readPos + i - 1)]
  <2>1. i - 1 \in 0..DataLeft - 1 /\ i - 1 \in Nat /\ i - 1 < Size
        /\ readPos + (i - 1) = readPos + i - 1
    BY <1>2, <1>3, RingConstants DEF Slot
  <2>2. DataLeft \in Nat /\ DataLeft <= DataLeft
    BY <1>3, RingConstants
  <2>3. Mask(readPos + (i - 1)) # writePos
    BY <2>1, <2>2, Apart DEF QueueInv, WriteFrame
  <2>4. Mask(readPos + (i - 1)) \in Slot
    BY <1>2, <2>1, Ahead
  <2> DEFINE p == Mask(readPos + i - 1)
  <2>5. p \in Slot /\ p # writePos
    BY <2>1, <2>3, <2>4
  <2> HIDE DEF p
  <2>6. data'[p] = data[p]
    BY <1>1, <1>2, <2>5
  <2> QED BY <2>6 DEF p
<1> QED BY <1>1, <1>2, <1>4 DEF Frames

LEMMA ContentsStep == QueueInv /\ [Next]_vars => Contents'
<1> SUFFICES ASSUME QueueInv, [Next]_vars PROVE Contents'
  OBVIOUS
<1> USE DEF QueueInv, Contents
<1>1. CASE WriteFrame
  BY <1>1, WriteFrameIsApart DEF WriteFrame
<1>2. CASE Offer \/ PushBuffer \/ BeginWrite \/ StoreWrite
  BY <1>2 DEF Offer, PushBuffer, BeginWrite, StoreWrite
<1>3. CASE Consumer
  <2>1. UNCHANGED <<data, writePos, producer>>
    BY <1>3 DEF Consumer, BeginMix, StoreClear, Ask, BeginRead, CopyOut, StoreRead
  <2> QED BY <2>1 DEF producer
<1>4. CASE RequestReset \/ Latency \/ LatencyReturns \/ UNCHANGED vars
  BY <1>4 DEF RequestReset, Latency, LatencyReturns, vars, producer
<1>5. CASE Setup
  <2>1. data' = data /\ pcW' = pcW /\ (pcW = "idle" \/ writePos' = writePos)
    BY <1>5 DEF Setup, Play, Resize, ResizeEnds, AddPlayback, producer, RingInv, SetupKnows
  <2> QED BY <2>1
<1> QED BY <1>1, <1>2, <1>3, <1>4, <1>5 DEF Next, Producer

LEMMA CopyingStep == QueueInv /\ [Next]_vars => Copying'
<1> SUFFICES ASSUME QueueInv, [Next]_vars PROVE Copying'
  OBVIOUS
<1>0. /\ readPos \in Slot /\ writePos \in Slot /\ sizeR \in Nat
      /\ data \in [Slot -> Frames] /\ DataLeft \in 0..Size - 1 /\ Size \in Nat
  BY FilledIs, RingConstants DEF QueueInv, RingInv, Positions, WriterKnows, Contents, DataLeft
<1>1. CASE WriteFrame
  <2>1. pcR = "copy" => Len(buf) \in Nat /\ Len(buf) <= DataLeft
    BY <1>0 DEF QueueInv, RingInv, ReaderKnows, WriterKnows, Copying
  <2>2. \A i \in 1..DataLeft : data'[Mask(readPos + i - 1)] = data[Mask(readPos + i - 1)]
    BY <1>1, WriteFrameIsApart
  <2>3. UNCHANGED <<readPos, consumer>>
    BY <1>1 DEF WriteFrame
  <2>4. CASE pcR # "copy"
    BY <2>3, <2>4 DEF consumer, QueueInv, Copying
  <2>5. CASE pcR = "copy"
    <3>1. \A i \in 1..Len(buf) : i \in 1..DataLeft
      BY <1>0, <2>1, <2>5
    <3>2. \A i \in 1..Len(buf) : buf[i] = data'[Mask(readPos + i - 1)]
      BY <2>2, <2>5, <3>1 DEF QueueInv, Copying
    <3> QED BY <2>3, <2>5, <3>2 DEF consumer, QueueInv, Copying
  <2> QED BY <2>4, <2>5
<1>2. CASE Offer \/ PushBuffer \/ BeginWrite \/ StoreWrite
  <2>1. UNCHANGED <<data, readPos, consumer>>
    BY <1>2 DEF Offer, PushBuffer, BeginWrite, StoreWrite
  <2> QED BY <2>1 DEF consumer, QueueInv, Copying
<1>3. CASE Consumer
  <2>1. CASE BeginMix
    BY <2>1 DEF BeginMix, QueueInv, Copying
  <2>2. CASE StoreClear
    BY <2>2 DEF StoreClear, QueueInv, Copying
  <2>3. CASE Ask
    BY <1>0, <2>3, RingConstants DEF Ask, Least, QueueInv, Copying
  <2>4. CASE BeginRead
    BY <1>0, <2>4 DEF BeginRead, Least, QueueInv, RingInv, ReaderKnows, WriterKnows, Copying
  <2>5. CASE CopyOut
    <3> DEFINE n == Len(buf)
    <3>1. n \in Nat /\ n < sizeR /\ sizeR <= DataLeft /\ pcR = "copy" /\ buf \in Seq(Frames)
      BY <2>5 DEF CopyOut, QueueInv, RingInv, ReaderKnows, WriterKnows, Copying
    <3>2. Mask(readPos + n) \in Slot
      BY <1>0, <3>1, Ahead
    <3>3. data[Mask(readPos + n)] \in Frames
      BY <1>0, <3>2
    <3>4. buf' = Append(buf, data[Mask(readPos + n)])
      BY <2>5 DEF CopyOut
    <3>5. readPos + n = readPos + (n + 1) - 1
      BY <1>0, <3>1 DEF Slot
    <3> HIDE DEF n
    <3>6. /\ buf' \in Seq(Frames) /\ Len(buf') = n + 1
          /\ \A i \in 1..n : buf'[i] = buf[i]
          /\ buf'[n + 1] = data[Mask(readPos + n)]
      BY <3>1, <3>3, <3>4, AppendProperties DEF n
    <3>7. \A i \in 1..n : buf[i] = data[Mask(readPos + i - 1)]
      BY <3>1 DEF n, QueueInv, Copying
    <3>8. ASSUME NEW i \in 1..(n + 1) PROVE buf'[i] = data[Mask(readPos + i - 1)]
      <4>1. CASE i \in 1..n
        BY <3>6, <3>7, <4>1
      <4>2. CASE i = n + 1
        BY <3>5, <3>6, <4>2
      <4> QED BY <3>1, <4>1, <4>2
    <3>9. UNCHANGED <<data, readPos, pcR, sizeR, out>>
      BY <2>5 DEF CopyOut
    <3>10. sizeR >= 1 /\ n + 1 <= sizeR /\ out \in Seq(Frames)
      BY <1>0, <3>1 DEF QueueInv, Copying
    <3>11. \A i \in 1..Len(buf') : buf'[i] = data'[Mask(readPos' + i - 1)]
      BY <3>6, <3>8, <3>9
    <3> QED BY <3>1, <3>6, <3>9, <3>10, <3>11 DEF Copying
  <2>6. CASE StoreRead
    BY <2>6 DEF StoreRead, QueueInv, Copying
  <2> QED BY <1>3, <2>1, <2>2, <2>3, <2>4, <2>5, <2>6 DEF Consumer
<1>4. CASE RequestReset \/ Latency \/ LatencyReturns \/ UNCHANGED vars
  <2>1. UNCHANGED <<data, readPos, consumer>>
    BY <1>4 DEF RequestReset, Latency, LatencyReturns, vars
  <2> QED BY <2>1 DEF consumer, QueueInv, Copying
<1>5. CASE Setup
  <2>1. data' = data /\ UNCHANGED consumer /\ (pcR # "copy" \/ readPos' = readPos)
    BY <1>5 DEF Setup, Play, Resize, ResizeEnds, AddPlayback, QueueInv, RingInv, SetupKnows
  <2> QED BY <2>1 DEF consumer, QueueInv, Copying
<1> QED BY <1>1, <1>2, <1>3, <1>4, <1>5 DEF Next, Producer

LEMMA QueueStep == QueueInv /\ [Next]_vars => QueueInv'
BY RingStep, KindsStep, ContentsStep, CopyingStep DEF QueueInv

\* For every size of the ring: positions stay in the ring, and what the reader
\* has copied or handed out are whole frames.
THEOREM TypeCorrect == Spec => []TypeOK
<1>1. QueueInv => TypeOK
  BY DEF QueueInv, RingInv, Positions, WriterKnows, Kinds, Contents, Copying, TypeOK, Frames
<1>2. QED
  BY <1>1, QueueInit, QueueStep, PTL DEF Spec

LEMMA StoredIs == Stored = Between(data, readPos, writePos)
BY DEF Stored, Between, DataLeft

LEMMA StoredIsNext == Stored' = Between(data', readPos', writePos')
BY DEF Stored, Between, DataLeft

\* A frame enters the queue when write_pos is stored.
LEMMA StoreWriteWrites == QueueInv /\ StoreWrite => Fifo!Write
<1> SUFFICES ASSUME QueueInv, StoreWrite PROVE Fifo!Write
  OBVIOUS
<1>1. /\ data \in [Slot -> Frames] /\ readPos \in Slot /\ writePos \in Slot /\ Size \in Nat
      /\ data' = data /\ readPos' = readPos /\ out' = out
      /\ writePos' = Mask(writePos + 1) /\ data[writePos] \in Frame
  BY RingConstants DEF QueueInv, RingInv, Positions, Contents, StoreWrite, consumer
<1>2. Filled(writePos, readPos) < Size - 1 /\ Filled(writePos, readPos) \in Nat
  BY <1>1, FilledIs DEF QueueInv, RingInv, WriterKnows, StoreWrite, SpaceLeft, Filled, Slot
<1>3. Between(data, readPos, Mask(writePos + 1))
        = Between(data, readPos, writePos) \o <<data[writePos]>>
  BY <1>1, <1>2, BetweenGrows
<1>4. Stored' = Stored \o <<data[writePos]>>
  BY <1>1, <1>3, StoredIs, StoredIsNext
<1>5. Len(Stored) = Filled(writePos, readPos)
  BY <1>1, BetweenIs, StoredIs
<1>6. 1 \in 1..(Size - 1 - Len(Stored))
  BY <1>1, <1>2, <1>5
<1>7. <<data[writePos]>> \in [1..1 -> Frame]
  BY <1>1
<1> QED BY <1>1, <1>4, <1>6, <1>7 DEF Fifo!Write

\* What the reader copied is the head of the queue, which it then leaves.
LEMMA StoreReadReads == QueueInv /\ StoreRead => Fifo!Read
<1> SUFFICES ASSUME QueueInv, StoreRead PROVE Fifo!Read
  OBVIOUS
<1> DEFINE n == sizeR
           m == Filled(writePos, readPos)
<1>1. /\ data \in [Slot -> Frames] /\ readPos \in Slot /\ writePos \in Slot /\ Size \in Nat
      /\ data' = data /\ writePos' = writePos /\ out' = buf /\ readPos' = Mask(readPos + n)
      /\ buf \in Seq(Frames) /\ Len(buf) = n /\ n \in Nat /\ n >= 1 /\ n <= m
  BY RingConstants
     DEF QueueInv, RingInv, Positions, WriterKnows, ReaderKnows, Contents, Copying, StoreRead,
         DataLeft
<1>2. m \in 0..Size - 1
  BY <1>1, FilledIs
<1>3. /\ Stored \in Seq(Frames) /\ Len(Stored) = m
      /\ \A i \in 1..m : Stored[i] = data[Mask(readPos + i - 1)]
  BY <1>1, BetweenIs, StoredIs
<1>4. \A i \in 1..n : buf[i] = data[Mask(readPos + i - 1)]
  BY <1>1 DEF QueueInv, Copying, StoreRead
<1>5. /\ readPos' = (IF readPos + n < Size THEN readPos + n ELSE readPos + n - Size)
      /\ readPos' \in Slot
  BY <1>1, <1>2, Ahead
<1>6. Filled(readPos', readPos) = n
  BY <1>1, <1>2, <1>5 DEF Filled, Slot
<1> HIDE DEF n, m
<1>7. buf = SubSeq(Stored, 1, n)
  <2>1. \A i \in 1..n : Stored[i] \in Frames
    BY <1>1, <1>2, <1>3, ElementOfSeq
  <2>2. /\ SubSeq(Stored, 1, n) \in Seq(Frames) /\ Len(SubSeq(Stored, 1, n)) = n
        /\ \A i \in 1..n : SubSeq(Stored, 1, n)[i] = Stored[i]
    BY <1>1, <1>3, <2>1, SubSeqProperties
  <2>3. \A i \in 1..n : buf[i] = SubSeq(Stored, 1, n)[i]
    BY <1>1, <1>2, <1>3, <1>4, <2>2
  <2> QED BY <1>1, <2>2, <2>3, SeqEqual
<1>8. Stored' = SubSeq(Stored, n + 1, Len(Stored))
  <2>1. Filled(readPos', readPos) <= Filled(writePos, readPos)
    BY <1>1, <1>6 DEF m
  <2>2. Between(data, readPos', writePos)
          = SubSeq(Between(data, readPos, writePos), Filled(readPos', readPos) + 1,
                   Filled(writePos, readPos))
    BY <1>1, <1>5, <2>1, BetweenShrinks
  <2> QED BY <1>1, <1>3, <1>6, <2>2, StoredIs, StoredIsNext DEF m
<1>9. n \in 1..Len(Stored)
  BY <1>1, <1>2, <1>3
<1> QED BY <1>1, <1>7, <1>8, <1>9 DEF Fifo!Read, Fifo!Rest

\* The frames that were there when clear() loaded write_pos go.
LEMMA StoreClearClears == QueueInv /\ StoreClear => Fifo!Clear
<1> SUFFICES ASSUME QueueInv, StoreClear PROVE Fifo!Clear
  OBVIOUS
<1>1. /\ data \in [Slot -> Frames] /\ readPos \in Slot /\ writePos \in Slot /\ sizeR \in Slot
      /\ data' = data /\ writePos' = writePos /\ out' = <<>> /\ readPos' = sizeR
      /\ Filled(sizeR, readPos) <= Filled(writePos, readPos)
  BY DEF QueueInv, RingInv, Positions, ReaderKnows, Contents, StoreClear, DataLeft
<1>2. /\ Filled(sizeR, readPos) \in 0..Filled(writePos, readPos)
      /\ Between(data, sizeR, writePos)
           = SubSeq(Between(data, readPos, writePos), Filled(sizeR, readPos) + 1,
                    Filled(writePos, readPos))
  BY <1>1, BetweenShrinks
<1>3. Len(Stored) = Filled(writePos, readPos)
  BY <1>1, BetweenIs, StoredIs
<1>4. Stored' = SubSeq(Stored, Filled(sizeR, readPos) + 1, Len(Stored))
  BY <1>1, <1>2, <1>3, StoredIs, StoredIsNext
<1> QED BY <1>1, <1>2, <1>3, <1>4 DEF Fifo!Clear, Fifo!Rest

\* Storing the contents of a frame changes nothing that is in the queue.
LEMMA WriteFrameStutters == QueueInv /\ WriteFrame => UNCHANGED <<Stored, out>>
<1> SUFFICES ASSUME QueueInv, WriteFrame PROVE UNCHANGED <<Stored, out>>
  OBVIOUS
<1>1. readPos' = readPos /\ writePos' = writePos /\ out' = out
  BY DEF WriteFrame, consumer
<1>2. \A i \in 1..DataLeft : data'[Mask(readPos + i - 1)] = data[Mask(readPos + i - 1)]
  BY WriteFrameIsApart
<1>3. Stored' = [i \in 1..DataLeft |-> data'[Mask(readPos + i - 1)]]
  BY <1>1 DEF Stored, DataLeft
<1> QED BY <1>1, <1>2, <1>3 DEF Stored

\* For every size of the ring, every frame and every interleaving: the ring
\* hands out the frames in the order push_buffer() wrote them, none lost,
\* repeated or torn, and only a clear() drops any.
THEOREM RingIsFifo == Spec => IsFifo
<1>1. Init => Fifo!Init
  <2> SUFFICES ASSUME Init PROVE Fifo!Init
    OBVIOUS
  <2>1. Filled(writePos, readPos) = 0 /\ out = <<>>
    BY DEF Init, Filled
  <2>2. Stored = <<>>
    BY <2>1 DEF Stored, DataLeft
  <2> QED BY <2>1, <2>2 DEF Fifo!Init
<1>2. QueueInv /\ [Next]_vars => [Fifo!Next]_<<Stored, out>>
  <2> SUFFICES ASSUME QueueInv, [Next]_vars PROVE Fifo!Next \/ UNCHANGED <<Stored, out>>
    OBVIOUS
  <2>1. CASE StoreWrite \/ StoreRead \/ StoreClear
    BY <2>1, StoreWriteWrites, StoreReadReads, StoreClearClears DEF Fifo!Next
  <2>2. CASE WriteFrame
    BY <2>2, WriteFrameStutters
  <2>3. CASE UNCHANGED <<data, readPos, writePos, out>>
    BY <2>3 DEF Stored, DataLeft
  <2>4. Offer \/ PushBuffer \/ BeginWrite \/ BeginMix \/ Ask \/ BeginRead \/ CopyOut
        \/ RequestReset \/ Latency \/ LatencyReturns \/ Play \/ Resize \/ AddPlayback
        \/ UNCHANGED vars
        => UNCHANGED <<data, readPos, writePos, out>>
    BY DEF Offer, PushBuffer, BeginWrite, BeginMix, Ask, BeginRead, CopyOut, RequestReset,
           Latency, LatencyReturns, Play, Resize, AddPlayback, vars, consumer
  <2>5. ResizeEnds => UNCHANGED <<data, readPos, writePos, out>>
    <3> SUFFICES ASSUME ResizeEnds PROVE UNCHANGED <<data, readPos, writePos, out>>
      OBVIOUS
    <3>1. readPos = 0 /\ writePos = 0 /\ 0 \in Nat /\ 0 < Size + Size /\ 0 < Size
      BY RingConstants DEF ResizeEnds, QueueInv, RingInv, SetupKnows
    <3>2. Mask(0) = 0
      BY <3>1, MaskOnce
    <3> QED BY <3>1, <3>2 DEF ResizeEnds, consumer
  <2> QED BY <2>1, <2>2, <2>3, <2>4, <2>5 DEF Next, Producer, Consumer, Setup
<1>3. QED
  BY <1>1, <1>2, QueueInit, QueueStep, PTL DEF Spec, IsFifo, Fifo!Spec
=============================================================================
