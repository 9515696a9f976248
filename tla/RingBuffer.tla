----------------------------- MODULE RingBuffer -----------------------------
(***************************************************************************)
(* The ring buffer of AudioStreamSteamAudioListenerPlayback, load by load  *)
(* and frame by frame: the mixing thread pushes, the thread that calls     *)
(* _mix() reads and clears, the main thread sets it up when it is already  *)
(* shared and asks for the occupancy, and any thread requests a reset.     *)
(*                                                                         *)
(* The stores to the two positions release and the loads of the other      *)
(* side's position acquire, so a thread that sees a position also sees     *)
(* the frames behind it; the frames themselves are plain memory.  The      *)
(* model interleaves single accesses.  NoRace, that no frame is accessed   *)
(* by two threads at once, is what makes this faithful.                    *)
(***************************************************************************)
EXTENDS Integers, Sequences

CONSTANTS
  Frame,      \* contents of a frame
  Blank,      \* what a frame holds that was never written
  Size,       \* frames allocated, one of which stays unused
  MaxBatch    \* bound: frames of one push or one read

ASSUME RingConstants ==
  Size \in Nat \ {0} /\ MaxBatch \in Nat \ {0} /\ Blank \notin Frame

Slot == 0..Size - 1

VARIABLES
  data, readPos, writePos,
  resetRequested,
  mutex,      \* playbacks_mutex: free, mixing, main
  pcW,        \* mixing thread: idle, push_buffer, write, frame, store
  left,       \* frames push_buffer() has still to write
  pcR,        \* reader: idle, clear, mix, read, copy
  wanted,     \* to_mix
  sizeR,      \* p_size of the read; of a clear the write_pos it loaded
  buf,        \* frames copied so far
  out,        \* history: frames of the last read
  seen,       \* write_pos the main thread has loaded
  setup       \* of the playback: new, played, resizing, sized, added

producer == <<pcW, left>>
consumer == <<pcR, wanted, sizeR, buf, out>>
main     == <<seen, setup>>
vars == <<data, readPos, writePos, resetRequested, mutex, producer, consumer, main>>

Init ==
  /\ data = [i \in Slot |-> Blank] /\ readPos = 0 /\ writePos = 0
  /\ resetRequested = FALSE /\ mutex = "free"
  /\ pcW = "idle" /\ left = 0
  /\ pcR = "idle" /\ wanted = 0 /\ sizeR = 0 /\ buf = <<>> /\ out = <<>>
  /\ seen = 0 /\ setup = "new"

Least(m, n) == IF m < n THEN m ELSE n

\* mask(): & size_mask in the code, where Size is a power of two.
Mask(n) == n % Size

\* data_left(), from a write_pos and a read_pos that were loaded.
Filled(w, r) == IF w < r THEN w - r + Size ELSE w - r
DataLeft == Filled(writePos, readPos)

\* space_left(): one frame stays free, or a full ring would look empty.
SpaceLeftAll == IF readPos <= writePos THEN Size + readPos - writePos ELSE readPos - writePos
SpaceLeft ==
  IF readPos <= writePos THEN Size + readPos - writePos - 1 ELSE readPos - writePos - 1

-----------------------------------------------------------------------------
(* The mixing thread, phases 1 and 3 of process_audio.                     *)

\* get_free_buffer_size(): as many frames are taken off
\* remaining_from_push_buffer and handed to push_buffer().
OfferRegardless ==
  /\ setup = "added"
  /\ pcW = "idle" /\ pcW' = "push_buffer" /\ mutex = "free" /\ mutex' = "mixing"
  /\ \E n \in 1..MaxBatch : n <= Size - 1 /\ left' = n
  /\ UNCHANGED <<data, readPos, writePos, resetRequested, consumer, main>>
Offer ==
  /\ setup = "added"
  /\ pcW = "idle" /\ pcW' = "push_buffer" /\ mutex = "free" /\ mutex' = "mixing"
  /\ \E n \in 1..MaxBatch : n <= SpaceLeft /\ left' = n
  /\ UNCHANGED <<data, readPos, writePos, resetRequested, consumer, main>>

\* push_buffer() gives up when the ring is full.
PushBuffer ==
  /\ pcW = "push_buffer"
  /\ IF left = 0 \/ SpaceLeft < 1
     THEN pcW' = "idle" /\ left' = 0 /\ mutex' = "free"
     ELSE pcW' = "write" /\ UNCHANGED <<left, mutex>>
  /\ UNCHANGED <<data, readPos, writePos, resetRequested, consumer, main>>

\* write() of a frame checks again, and drops the frame if the ring is full.
BeginWrite ==
  /\ pcW = "write"
  /\ IF SpaceLeft < 1 THEN pcW' = "push_buffer" /\ left' = left - 1
     ELSE pcW' = "frame" /\ UNCHANGED left
  /\ UNCHANGED <<data, readPos, writePos, resetRequested, mutex, consumer, main>>

WriteFrameAfter ==
  /\ pcW = "frame" /\ pcW' = "store"
  /\ \E f \in Frame : data' = [data EXCEPT ![Mask(writePos + 1)] = f]
  /\ UNCHANGED <<left, readPos, writePos, resetRequested, mutex, consumer, main>>
WriteFrame ==
  /\ pcW = "frame" /\ pcW' = "store"
  /\ \E f \in Frame : data' = [data EXCEPT ![writePos] = f]
  /\ UNCHANGED <<left, readPos, writePos, resetRequested, mutex, consumer, main>>

StoreWrite ==
  /\ pcW = "store" /\ pcW' = "push_buffer" /\ left' = left - 1
  /\ writePos' = Mask(writePos + 1)
  /\ UNCHANGED <<data, readPos, resetRequested, mutex, consumer, main>>

-----------------------------------------------------------------------------
(* The thread that mixes the playback.                                     *)

\* _mix() begins: a requested reset is taken and the ring cleared first.
BeginMix ==
  /\ setup # "new" /\ pcR = "idle" /\ resetRequested' = FALSE
  /\ IF resetRequested THEN pcR' = "clear" /\ sizeR' = writePos
     ELSE pcR' = "mix" /\ UNCHANGED sizeR
  /\ UNCHANGED <<wanted, buf, out, data, readPos, writePos, mutex, producer, main>>

StoreClear ==
  /\ pcR = "clear" /\ pcR' = "mix"
  /\ readPos' = sizeR /\ sizeR' = 0 /\ out' = <<>>
  /\ UNCHANGED <<wanted, buf, data, writePos, resetRequested, mutex, producer, main>>

\* data_left() before the read: nothing there, nothing read.
Ask ==
  /\ pcR = "mix"
  /\ \E n \in 1..MaxBatch : wanted' = Least(DataLeft, n)
  /\ pcR' = IF wanted' = 0 THEN "idle" ELSE "read"
  /\ UNCHANGED <<sizeR, buf, out, data, readPos, writePos, resetRequested, mutex, producer, main>>

BeginRead ==
  /\ pcR = "read" /\ pcR' = "copy"
  /\ sizeR' = Least(DataLeft, wanted)
  /\ UNCHANGED <<wanted, buf, out, data, readPos, writePos, resetRequested, mutex, producer, main>>

CopyOut ==
  /\ pcR = "copy" /\ Len(buf) < sizeR
  /\ buf' = Append(buf, data[Mask(readPos + Len(buf))])
  /\ UNCHANGED <<pcR, wanted, sizeR, out, data, readPos, writePos, resetRequested, mutex,
                 producer, main>>

\* The read returns; the resampler goes on in the same _mix().
StoreRead ==
  /\ pcR = "copy" /\ Len(buf) = sizeR /\ pcR' \in {"idle", "mix"}
  /\ readPos' = Mask(readPos + sizeR) /\ out' = buf
  /\ buf' = <<>> /\ wanted' = 0 /\ sizeR' = 0
  /\ UNCHANGED <<data, writePos, resetRequested, mutex, producer, main>>

\* _start() and _stop(), on any thread: they leave the clearing to _mix(), for
\* only the reader may move read_pos.
RequestResetClears ==
  /\ readPos' = writePos
  /\ UNCHANGED <<data, writePos, resetRequested, mutex, producer, consumer, main>>
RequestReset ==
  /\ resetRequested' = TRUE
  /\ UNCHANGED <<data, readPos, writePos, mutex, producer, consumer, main>>

-----------------------------------------------------------------------------
(* Main: listener_get_output_latency_frames().                             *)

LatencyUnlocked ==
  /\ setup = "added" /\ mutex # "main" /\ mutex' = "main" /\ seen' = writePos
  /\ UNCHANGED <<data, readPos, writePos, resetRequested, producer, consumer, setup>>
Latency ==
  /\ setup = "added" /\ mutex = "free" /\ mutex' = "main" /\ seen' = writePos
  /\ UNCHANGED <<data, readPos, writePos, resetRequested, producer, consumer, setup>>

\* The second load, of read_pos, gives the result.
LatencyReturns ==
  /\ mutex = "main" /\ mutex' = "free" /\ seen' = 0
  /\ UNCHANGED <<data, readPos, writePos, resetRequested, producer, consumer, setup>>

-----------------------------------------------------------------------------
(* Main: play_on_audiostreamplayer(), once for each playback.  The ring    *)
(* has another size before, which no step tells apart: it is empty.        *)

\* play(), from where on the audio thread may be in _mix().
Play ==
  /\ setup = "new" /\ setup' = "played"
  /\ UNCHANGED <<data, readPos, writePos, resetRequested, mutex, producer, consumer, seen>>

\* set_buffer_size(): the frames are reallocated while the state is resizing.
ResizeAgain ==
  /\ setup \in {"played", "added"} /\ setup' = "resizing"
  /\ UNCHANGED <<data, readPos, writePos, resetRequested, mutex, producer, consumer, seen>>
Resize ==
  /\ setup = "played" /\ setup' = "resizing"
  /\ UNCHANGED <<data, readPos, writePos, resetRequested, mutex, producer, consumer, seen>>

\* The positions are masked anew and the ring cleared.
ResizeEnds ==
  /\ setup = "resizing" /\ setup' = "sized"
  /\ writePos' = Mask(writePos) /\ readPos' = writePos'
  /\ UNCHANGED <<data, resetRequested, mutex, producer, consumer, seen>>

\* listener_add_playback(): from here on the mixing thread knows the playback.
AddPlayback ==
  /\ setup = "sized" /\ setup' = "added"
  /\ UNCHANGED <<data, readPos, writePos, resetRequested, mutex, producer, consumer, seen>>

-----------------------------------------------------------------------------
Producer == Offer \/ PushBuffer \/ BeginWrite \/ WriteFrame \/ StoreWrite
Consumer == BeginMix \/ StoreClear \/ Ask \/ BeginRead \/ CopyOut \/ StoreRead

Setup == Play \/ Resize \/ ResizeEnds \/ AddPlayback

Next == Producer \/ Consumer \/ RequestReset \/ Latency \/ LatencyReturns \/ Setup

Spec == Init /\ [][Next]_vars

-----------------------------------------------------------------------------
(* Properties.                                                             *)

TypeOK ==
  /\ data \in [Slot -> Frame \cup {Blank}] /\ readPos \in Slot /\ writePos \in Slot
  /\ resetRequested \in BOOLEAN /\ mutex \in {"free", "mixing", "main"}
  /\ pcW \in {"idle", "push_buffer", "write", "frame", "store"} /\ left \in 0..MaxBatch
  /\ pcR \in {"idle", "clear", "mix", "read", "copy"}
  /\ wanted \in 0..MaxBatch /\ sizeR \in Nat
  /\ buf \in Seq(Frame \cup {Blank}) /\ out \in Seq(Frame \cup {Blank})
  /\ seen \in Slot /\ setup \in {"new", "played", "resizing", "sized", "added"}

\* The frame the mixing thread writes is none of those the reader has been
\* promised, neither in a read nor in the data_left() before it.
NoRace ==
  pcW \in {"frame", "store"} =>
    /\ pcR = "read" => \A i \in 0..wanted - 1 : Mask(readPos + i) # writePos
    /\ pcR = "copy" => \A i \in 0..sizeR - 1 : Mask(readPos + i) # writePos

\* The frames taken off remaining_from_push_buffer fit until the last one is
\* written, although other threads read and clear meanwhile: push_buffer()
\* never gives up with frames left, and no frame of a mix is lost.
NoShortPush == pcW \in {"push_buffer", "write"} => left <= SpaceLeft

\* The reader finds what data_left() promised it, so read() is never clipped
\* and every frame of p_buffer is filled.
NoShortRead == pcR = "read" => wanted <= DataLeft

\* The latency reported is the occupancy at the second load, in spite of the
\* two loads: playbacks_mutex keeps the writer out in between.
LatencyHonest == mutex = "main" => Filled(seen, readPos) = DataLeft

\* set_buffer_size() reallocates when the audio thread may already be in _mix(),
\* and takes no lock.  Yet no thread is at a frame meanwhile, and none is lost:
\* the ring stays empty until listener_add_playback(), which comes after it.
ResizedInQuiet ==
  setup = "resizing" => DataLeft = 0 /\ pcW = "idle" /\ pcR \notin {"read", "copy"}

\* The ring is a bounded queue.
Stored == [i \in 1..DataLeft |-> data[Mask(readPos + i - 1)]]
Fifo == INSTANCE BoundedFifo WITH Room <- Size - 1, queue <- Stored
IsFifo == Fifo!Spec

=============================================================================
