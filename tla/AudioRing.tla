------------------------------ MODULE AudioRing ------------------------------
(***************************************************************************)
(* The audio replay buffer of audio/abuffer.c: a ring of Capacity samples  *)
(* the audio thread writes into, and rsAudioBufferWrite, which the main    *)
(* thread runs to encode what the ring holds from a given time on.  Both   *)
(* hold the audio mutex (module Recorder), so a frame is added between two *)
(* saves, never during one.                                                *)
(*                                                                         *)
(* The k-th sample ever captured is the number k; 0 stands for memory that *)
(* has not been written.  Time is counted in sample periods.               *)
(***************************************************************************)
EXTENDS Integers, Sequences

CONSTANTS
    Capacity,    \* recordSeconds * sample_rate
    FrameSizes,  \* nb_samples of the frames the device delivers
    Gaps,        \* frame->pts minus the end of the frame before
    FrameSize,   \* frame_size of the audio encoder
    StartTimes,  \* times a save may ask for
    MaxDelay,    \* frames the encoder may hold back
    MaxTotal     \* bound on the samples captured in a behaviour

ASSUME CapacityAssumption == Capacity \in Nat \ {0}
\* The device's fragments are shorter than the ring.
ASSUME FramesFit == FrameSizes \subseteq 1..Capacity
ASSUME TimeAssumption == Gaps \subseteq Int /\ StartTimes \subseteq Int
ASSUME EncoderAssumption == FrameSize \in Nat \ {0} /\ MaxDelay \in Nat
ASSUME BoundAssumption == MaxTotal \in Nat

VARIABLES
    data, index, size, endTime,  \* RSAudioBuffer
    encoder,    \* buffer->encoder: not created, fresh, given frames, flushed
    queued,     \* frames the encoder has taken and not yet returned as packets
    pc,         \* idle, or in the loop of rsAudioBufferWrite
    startTime,  \* rsAudioBufferWrite's argument
    wIndex,     \* its index
    wPts,       \* its pts
    sent,       \* history: the samples sent to the encoder by this write
    frames,     \* history: pts and nb_samples of the frames sent by this write
    clip,       \* history: the samples of the last write that returned 0
    times       \* history: the capture time of every sample ever captured

ring == <<data, index, size, endTime>>
coder == <<encoder, queued>>
locals == <<startTime, wIndex, wPts, sent, frames>>
vars == <<data, index, size, endTime, encoder, queued, pc, startTime, wIndex,
          wPts, sent, frames, clip, times>>

Slots == 0..(Capacity - 1)
Total == Len(times)
Least(a, b) == IF a < b THEN a ELSE b
Most(a, b) == IF a > b THEN a ELSE b

Init ==
    /\ data = [slot \in Slots |-> 0]
    /\ index = 0 /\ size = 0 /\ endTime = 0
    /\ encoder = "none" /\ queued = 0
    /\ pc = "idle"
    /\ startTime = 0 /\ wIndex = 0 /\ wPts = 0
    /\ sent = <<>> /\ frames = <<>>
    /\ clip = <<>> /\ times = <<>>

-----------------------------------------------------------------------------
(***************************************************************************)
(* rsAudioBufferAddFrame: the frame's samples go into the ring from index  *)
(* on, those past its end to its beginning.                                *)
(***************************************************************************)
NextIndexUnwrapped(nb) == index + nb            \* mutant: no modulo
NextIndex(nb) == (index + nb) % Capacity

FrameEndAtStart(pts, nb) == pts                 \* mutant: the length is forgotten
FrameEnd(pts, nb) == pts + nb

AddFrame(nb, gap) ==
    LET prefix == Least(nb, Capacity - index)
        pts == endTime + gap
    IN
    /\ pc = "idle"
    /\ Total + nb <= MaxTotal
    /\ data' = [slot \in Slots |->
                   IF slot \in index..(index + prefix - 1)
                   THEN Total + 1 + (slot - index)
                   ELSE IF slot \in 0..(nb - prefix - 1)
                   THEN Total + 1 + prefix + slot
                   ELSE data[slot]]
    /\ index' = NextIndex(nb)
    /\ size' = Least(size + nb, Capacity)
    /\ endTime' = FrameEnd(pts, nb)
    /\ times' = times \o [k \in 1..nb |-> pts + k - 1]
    /\ UNCHANGED <<coder, pc, locals, clip>>

-----------------------------------------------------------------------------
\* audioBufferGetEncoder: an encoder is created when there is none.
EncoderCreated == IF encoder = "none" THEN "fresh" ELSE encoder

\* rsAudioBufferGetParams, before the output is opened.
GetParams ==
    /\ pc = "idle"
    /\ encoder' = EncoderCreated
    /\ UNCHANGED <<ring, queued, pc, locals, clip, times>>

BufStartTime == endTime - size

\* How many samples of the ring are older than time.
IndexSwapped(time) == Most(BufStartTime - time, 0)  \* mutant: swapped operands
IndexAt(time) == Most(time - BufStartTime, 0)

\* rsAudioBufferWrite up to its loop.
BeginWrite(time) ==
    /\ pc = "idle"
    /\ encoder' = EncoderCreated
    /\ queued' = 0
    /\ pc' = "encode"
    /\ startTime' = time
    /\ wIndex' = IndexAt(time)
    /\ wPts' = 0
    /\ sent' = <<>> /\ frames' = <<>>
    /\ UNCHANGED <<ring, clip, times>>

\* The encoder asks for input (EAGAIN). It holds back at most MaxDelay frames.
WantsInput ==
    /\ pc = "encode"
    /\ encoder \in {"fresh", "used"}
    /\ queued <= MaxDelay

\* The position in the ring of the sample index places after the oldest one.
BufIndexOfRing(i) == (index + i) % Capacity     \* mutant: modulo the capacity
BufIndex(i) == (index + i) % size

FrameLengthToWrap == Least(Least(FrameSize, size - wIndex), size - BufIndex(wIndex))
    \* mutant: a frame stops at the end of the ring
FrameLength == Least(FrameSize, size - wIndex)

PastEndLate == wIndex > size                    \* mutant: > for >=
PastEnd == wIndex >= size

\* audioBufferSendFrame when samples are left.
SendFrame ==
    LET nb == FrameLength
        bufIndex == BufIndex(wIndex)
        prefix == Least(nb, size - bufIndex)
    IN
    /\ WantsInput
    /\ wIndex < size
    /\ sent' = sent \o [k \in 1..nb |->
                           IF k <= prefix THEN data[bufIndex + k - 1]
                           ELSE data[k - 1 - prefix]]
    /\ frames' = Append(frames, [pts |-> wPts, nb |-> nb])
    /\ encoder' = "used"
    /\ queued' = queued + 1
    /\ wIndex' = wIndex + nb
    /\ wPts' = wPts + nb
    /\ UNCHANGED <<ring, pc, startTime, clip, times>>

\* audioBufferSendFrame past the end: the encoder is flushed.
SendFlush ==
    /\ WantsInput
    /\ PastEnd
    /\ encoder' = "flushed"
    /\ UNCHANGED <<ring, queued, pc, locals, clip, times>>

\* The encoder returns a packet, and rsOutputWrite takes it.
WritePacket ==
    /\ pc = "encode"
    /\ queued > 0
    /\ queued' = queued - 1
    /\ UNCHANGED <<ring, encoder, pc, locals, clip, times>>

\* Every write ends with rsEncoderDestroy, and its local variables are gone.
ReturnKeeping ==                                \* mutant: the encoder is kept
    /\ UNCHANGED coder
    /\ pc' = "idle"
    /\ startTime' = 0 /\ wIndex' = 0 /\ wPts' = 0
    /\ sent' = <<>> /\ frames' = <<>>
Return ==
    /\ encoder' = "none" /\ queued' = 0
    /\ pc' = "idle"
    /\ startTime' = 0 /\ wIndex' = 0 /\ wPts' = 0
    /\ sent' = <<>> /\ frames' = <<>>

\* The encoder, a frame's allocation or the output fails.
WriteFailed ==
    /\ pc = "encode"
    /\ Return
    /\ UNCHANGED <<ring, clip, times>>

\* A flushed encoder with nothing left returns AVERROR_EOF.
WriteDone ==
    /\ pc = "encode"
    /\ encoder = "flushed" /\ queued = 0
    /\ Return
    /\ clip' = sent
    /\ UNCHANGED <<ring, times>>

Next ==
    \/ \E nb \in FrameSizes, gap \in Gaps : AddFrame(nb, gap)
    \/ GetParams
    \/ \E time \in StartTimes : BeginWrite(time)
    \/ SendFrame
    \/ SendFlush
    \/ WritePacket
    \/ WriteFailed
    \/ WriteDone

\* The write loop is main thread code that nothing blocks; nothing has to fail.
Encode == SendFrame \/ SendFlush \/ WritePacket \/ WriteDone

Spec == Init /\ [][Next]_vars /\ WF_vars(Encode)

-----------------------------------------------------------------------------
\* Every variable has a value of its C type, positions lie in the ring.
TypeOK ==
    /\ data \in [Slots -> Nat]
    /\ index \in Slots /\ size \in 0..Capacity /\ endTime \in Int
    /\ encoder \in {"none", "fresh", "used", "flushed"} /\ queued \in Nat
    /\ pc \in {"idle", "encode"}
    /\ startTime \in Int /\ wIndex \in Nat /\ wPts \in Nat
    /\ sent \in Seq(Nat) /\ clip \in Seq(Nat)
    /\ frames \in Seq([pts : Nat, nb : Nat \ {0}])
    /\ times \in Seq(Int)

(***************************************************************************)
(* The reader counts positions modulo size, the writer modulo Capacity:    *)
(* until the ring is full the two differ, and still the reader finds the   *)
(* last size samples, oldest first, and no unwritten memory.               *)
(***************************************************************************)
RingHoldsNewest ==
    /\ size = Least(Total, Capacity)
    /\ \A i \in 0..(size - 1) : data[BufIndex(i)] = Total - size + i + 1

(***************************************************************************)
(* Between saves the encoder has never been given a frame: each replay is  *)
(* encoded by an encoder of its own, whatever way the last save ended.     *)
(***************************************************************************)
EncoderFresh == pc = "idle" => encoder \in {"none", "fresh"}

(***************************************************************************)
(* What an audio encoder demands of its input: only the last frame before  *)
(* the flush may be short, and the frames follow each other without gap.   *)
(***************************************************************************)
FramesInOrder ==
    pc = "encode" =>
        \A i \in 1..Len(frames) :
            /\ i < Len(frames) => frames[i].nb = FrameSize
            /\ frames[i].pts = (i - 1) * FrameSize

\* No sample captured since the oldest kept one came after a gap.
Contiguous ==
    \A k \in (Total - size + 1)..(Total - 1) : times[k + 1] = times[k] + 1

(***************************************************************************)
(* Audio and video line up: when the ring reaches back to the replay's     *)
(* start and the device delivered without gaps, the sample at offset k of  *)
(* the replay was captured k periods after its start.                      *)
(***************************************************************************)
SentOnTime ==
    pc = "encode" /\ startTime >= BufStartTime /\ Contiguous =>
        \A k \in 1..Len(sent) : times[sent[k]] = startTime + k - 1

\* The ring implements the window of the last Capacity samples.
SW == INSTANCE SampleWindow WITH total <- Total, kept <- size
WindowSpec == SW!Spec

\* rsAudioBufferWrite returns, whatever the encoder does.
WriteReturns == pc = "encode" ~> pc = "idle"
=============================================================================
