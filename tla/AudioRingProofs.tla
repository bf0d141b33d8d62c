--------------------------- MODULE AudioRingProofs ---------------------------
(***************************************************************************)
(* Theorems about AudioRing for any capacity, any frames of the device and *)
(* of the encoder, and any times: the ring holds the newest samples, what  *)
(* a save sends to the encoder is right in content, order and time, and    *)
(* the ring implements SampleWindow.                                       *)
(***************************************************************************)
EXTENDS AudioRing, SequenceTheorems, TLAPS

-----------------------------------------------------------------------------
(* Sequences                                                               *)

\* A number of elements put behind a sequence at once.
LEMMA ConcatFacts ==
    ASSUME NEW S, NEW s \in Seq(S), NEW n \in Nat, NEW f \in [1..n -> S]
    PROVE  /\ s \o f \in Seq(S)
           /\ Len(s) \in Nat
           /\ Len(s \o f) = Len(s) + n
           /\ \A i \in 1..Len(s) : (s \o f)[i] = s[i]
           /\ \A i \in (Len(s) + 1)..(Len(s) + n) : (s \o f)[i] = f[i - Len(s)]
  <1>1. f \in Seq(S) /\ Len(f) = n
    OBVIOUS
  <1>2. Len(s) \in Nat
    BY LenProperties
  <1>3. s \o f \in Seq(S) /\ Len(s \o f) = Len(s) + n
    BY <1>1, ConcatProperties
  <1>4. \A i \in 1..(Len(s) + n) : (s \o f)[i] = IF i <= Len(s) THEN s[i] ELSE f[i - Len(s)]
    BY <1>1, ConcatProperties
  <1> QED
    BY <1>2, <1>3, <1>4

-----------------------------------------------------------------------------

\* What a slot holds: before index the samples added last, from index on those a
\* round earlier, or memory that has not been written.
SlotHolds(slot) ==
    IF slot < index THEN Total - index + slot + 1
    ELSE Most(Total - index + slot + 1 - Capacity, 0)

\* The ring as the writer sees it, without a modulo.
RingInv ==
    /\ size = Least(Total, Capacity)
    /\ Total < Capacity => index = Total
    /\ \A slot \in Slots : data[slot] = SlotHolds(slot)

\* Where no gap follows a sample, its time is told by endTime.
TimeInv ==
    \A j \in 1..Total :
        (\A k \in j..(Total - 1) : times[k + 1] = times[k] + 1)
            => times[j] = endTime - 1 - (Total - j)

\* What a save has sent to the encoder: the samples from the one asked for to
\* wIndex, in frames of which only the last may be short.
SentInv ==
    pc = "encode" =>
        /\ startTime \in StartTimes
        /\ wIndex >= IndexAt(startTime) /\ (wIndex = IndexAt(startTime) \/ wIndex <= size)
        /\ Len(sent) = wIndex - IndexAt(startTime)
        /\ \A k \in 1..Len(sent) : sent[k] = Total - size + IndexAt(startTime) + k
        /\ encoder = "flushed" => wIndex >= size

FramesInv ==
    pc = "encode" =>
        /\ wIndex < size =>
             /\ wPts = Len(frames) * FrameSize
             /\ \A i \in 1..Len(frames) : frames[i].nb = FrameSize
        /\ FramesInOrder

\* The inductive invariant.
IInv == TypeOK /\ EncoderFresh /\ RingInv /\ TimeInv /\ SentInv /\ FramesInv

-----------------------------------------------------------------------------
\* A position moved on by at most one round.
LEMMA SumAround ==
    ASSUME NEW n \in Nat \ {0}, NEW a \in 0..(n - 1), NEW b \in 0..n
    PROVE  (a + b) % n = IF a + b < n THEN a + b ELSE a + b - n
  <1>1. CASE a + b < n
    BY <1>1
  <1>2. CASE a + b >= n
    <2>1. (a + b) % n = (a + b - n) % n
      BY <1>2
    <2> QED
      BY <1>2, <2>1
  <1> QED
    BY <1>1, <1>2

\* Least and Most are the minimum and the maximum.
LEMMA LeastMost ==
    ASSUME NEW a \in Int, NEW b \in Int
    PROVE  /\ Least(a, b) \in {a, b} /\ Least(a, b) <= a /\ Least(a, b) <= b
           /\ Most(a, b) \in {a, b} /\ Most(a, b) >= a /\ Most(a, b) >= b
  BY DEF Least, Most

\* Where the reader looks for the sample i places after the oldest one: the modulo
\* by size is right for the ring that is not full as well as for the full one.
LEMMA ReadFacts ==
    ASSUME TypeOK, RingInv, NEW i \in 0..(size - 1)
    PROVE  /\ BufIndex(i) \in 0..(size - 1)
           /\ BufIndex(i) = IF Total < Capacity THEN i
                            ELSE IF index + i < Capacity THEN index + i ELSE index + i - Capacity
           /\ data[BufIndex(i)] = Total - size + i + 1
  <1>1. /\ Capacity \in Nat \ {0} /\ Total \in Nat /\ index \in 0..(Capacity - 1)
        /\ size \in Nat \ {0} /\ i \in Nat /\ i < size
    BY CapacityAssumption DEF TypeOK, Total, Slots
  <1>2. CASE Total < Capacity
    <2>1. size = Total /\ index = Total
      BY <1>1, <1>2 DEF RingInv, Least
    <2>2. (index + i) % size = i
      <3>1. (size + i) % size = (size + i - size) % size
        BY <1>1
      <3> QED
        BY <1>1, <2>1, <3>1
    <2>3. data[i] = Total - index + i + 1
      BY <1>1, <1>2, <2>1 DEF RingInv, SlotHolds, Slots
    <2> QED
      BY <1>1, <1>2, <2>1, <2>2, <2>3 DEF BufIndex
  <1>3. CASE Total >= Capacity
    <2>1. size = Capacity
      BY <1>1, <1>3 DEF RingInv, Least
    <2>2. (index + i) % size = IF index + i < Capacity THEN index + i ELSE index + i - Capacity
      <3>1. index \in 0..(Capacity - 1) /\ i \in 0..Capacity
        BY <1>1, <2>1
      <3>2. (index + i) % Capacity = IF index + i < Capacity THEN index + i ELSE index + i - Capacity
        BY <3>1, SumAround, CapacityAssumption, Zenon
      <3> QED
        BY <2>1, <3>2
    <2>3. (index + i) % size \in Slots
      BY <1>1, <2>1, <2>2 DEF Slots
    <2>4. data[(index + i) % size] = SlotHolds((index + i) % size)
      BY <2>3 DEF RingInv
    <2>5. SlotHolds((index + i) % size) = Total - size + i + 1
      BY <1>1, <1>3, <2>1, <2>2 DEF SlotHolds, Most
    <2> QED
      BY <1>1, <1>3, <2>1, <2>2, <2>3, <2>4, <2>5 DEF BufIndex, Slots
  <1> QED
    BY <1>1, <1>2, <1>3

-----------------------------------------------------------------------------
LEMMA InitInv == Init => IInv
  <1> SUFFICES ASSUME Init PROVE IInv
    OBVIOUS
  <1>1. Total = 0 /\ Len(<<>>) = 0 /\ \A S : <<>> \in Seq(S)
    BY DEF Init, Total
  <1>2. 0 \in Slots /\ 0 \in 0..Capacity
    BY CapacityAssumption DEF Slots
  <1>3. TypeOK
    BY <1>1, <1>2 DEF Init, TypeOK
  <1>4. RingInv
    <2>1. \A slot \in Slots : data[slot] = 0 /\ SlotHolds(slot) = 0
      BY <1>1, CapacityAssumption DEF Init, Slots, SlotHolds, Most
    <2> QED
      BY <1>1, <2>1, CapacityAssumption DEF Init, RingInv, Least
  <1>5. TimeInv
    BY <1>1 DEF TimeInv
  <1>6. EncoderFresh /\ SentInv /\ FramesInv
    BY DEF Init, EncoderFresh, SentInv, FramesInv
  <1> QED
    BY <1>3, <1>4, <1>5, <1>6 DEF IInv

\* The times of a frame's samples follow each other.
LEMMA TimesAdded ==
    ASSUME IInv, NEW nb \in FrameSizes, NEW gap \in Gaps, AddFrame(nb, gap)
    PROVE  /\ times' \in Seq(Int) /\ Total' = Total + nb
           /\ \A k \in 1..Total : times'[k] = times[k]
           /\ \A k \in (Total + 1)..(Total + nb) : times'[k] = endTime + gap + (k - Total) - 1
  <1> DEFINE f == [k \in 1..nb |-> endTime + gap + k - 1]
  <1>1. /\ nb \in Nat /\ gap \in Int /\ Total \in Nat /\ endTime \in Int /\ times \in Seq(Int)
        /\ times' = times \o f
    BY FramesFit, TimeAssumption, CapacityAssumption DEF IInv, TypeOK, Total, AddFrame
  <1>2. f \in [1..nb -> Int] /\ \A k \in 1..nb : f[k] = endTime + gap + k - 1
    BY <1>1
  <1> HIDE DEF f
  <1>3. PICK S : S = Int
    OBVIOUS
  <1>4. times \in Seq(S) /\ f \in [1..nb -> S]
    BY <1>1, <1>2, <1>3
  <1>5. /\ times \o f \in Seq(S) /\ Len(times \o f) = Len(times) + nb
        /\ \A i \in 1..Len(times) : (times \o f)[i] = times[i]
        /\ \A i \in (Len(times) + 1)..(Len(times) + nb) : (times \o f)[i] = f[i - Len(times)]
    BY <1>1, <1>4, ConcatFacts
  <1>6. \A k \in (Total + 1)..(Total + nb) : k - Total \in 1..nb
    BY <1>1
  <1> QED
    BY <1>1, <1>2, <1>3, <1>5, <1>6 DEF Total

\* A frame of the device is added: the slots of the invariant move on with index,
\* and a gap before the frame ends the run of times that endTime tells.
LEMMA AddKeeps ==
    ASSUME IInv, NEW nb \in FrameSizes, NEW gap \in Gaps, AddFrame(nb, gap)
    PROVE  IInv'
  <1> DEFINE prefix == Least(nb, Capacity - index)
  <1>1. /\ Capacity \in Nat \ {0} /\ nb \in 1..Capacity /\ gap \in Int
        /\ Total \in Nat /\ index \in 0..(Capacity - 1) /\ size \in 0..Capacity
        /\ endTime \in Int /\ times \in Seq(Int) /\ data \in [Slots -> Nat]
    BY CapacityAssumption, FramesFit, TimeAssumption DEF IInv, TypeOK, Total, Slots
  <1>2. /\ pc = "idle"
        /\ data' = [slot \in Slots |->
                      IF slot \in index..(index + prefix - 1)
                      THEN Total + 1 + (slot - index)
                      ELSE IF slot \in 0..(nb - prefix - 1)
                      THEN Total + 1 + prefix + slot
                      ELSE data[slot]]
        /\ index' = (index + nb) % Capacity
        /\ size' = Least(size + nb, Capacity)
        /\ endTime' = endTime + gap + nb
        /\ UNCHANGED <<encoder, queued, pc, startTime, wIndex, wPts, sent, frames, clip>>
    BY DEF AddFrame, NextIndex, FrameEnd, coder, locals
  <1>3. prefix \in 1..nb /\ prefix = (IF nb < Capacity - index THEN nb ELSE Capacity - index)
    BY <1>1 DEF Least
  <1> HIDE DEF prefix
  <1>4. /\ times' \in Seq(Int) /\ Total' = Total + nb
        /\ \A k \in 1..Total : times'[k] = times[k]
        /\ \A k \in (Total + 1)..(Total + nb) : times'[k] = endTime + gap + (k - Total) - 1
    BY TimesAdded
  <1>5. index' = IF index + nb < Capacity THEN index + nb ELSE index + nb - Capacity
    <2>1. index \in 0..(Capacity - 1) /\ nb \in 0..Capacity
      BY <1>1
    <2>2. (index + nb) % Capacity = IF index + nb < Capacity THEN index + nb ELSE index + nb - Capacity
      BY <2>1, SumAround, CapacityAssumption, Zenon
    <2> QED
      BY <1>2, <2>2
  <1>6. index' \in Slots /\ index' \in Nat /\ size' \in 0..Capacity /\ endTime' \in Int
    BY <1>1, <1>2, <1>5 DEF Slots, Least
  <1>7. ASSUME NEW slot \in Slots
        PROVE  data'[slot] = SlotHolds(slot)' /\ data'[slot] \in Nat
    <2>1. /\ slot \in Int /\ 0 <= slot /\ slot < Capacity
          /\ data[slot] = SlotHolds(slot)
          /\ Total < Capacity => index = Total
      BY <1>1 DEF Slots, IInv, RingInv
    <2>2. data'[slot] = IF slot \in index..(index + prefix - 1)
                        THEN Total + 1 + (slot - index)
                        ELSE IF slot \in 0..(nb - prefix - 1)
                        THEN Total + 1 + prefix + slot
                        ELSE data[slot]
      BY <1>2
    <2>3. SlotHolds(slot)' = IF slot < index' THEN Total + nb - index' + slot + 1
                             ELSE Most(Total + nb - index' + slot + 1 - Capacity, 0)
      BY <1>1, <1>4, <1>6, <2>1, SMTT(30) DEF SlotHolds
    <2>4. CASE index + nb < Capacity
      BY <1>1, <1>3, <1>5, <2>1, <2>2, <2>3, <2>4 DEF SlotHolds, Most
    <2>5. CASE index + nb >= Capacity
      BY <1>1, <1>3, <1>5, <2>1, <2>2, <2>3, <2>5 DEF SlotHolds, Most
    <2> QED
      BY <1>1, <2>4, <2>5
  <1>8. data' \in [Slots -> Nat]
    BY <1>2, <1>7
  <1>9. TypeOK'
    BY <1>2, <1>4, <1>6, <1>8 DEF IInv, TypeOK
  <1>10. RingInv'
    <2>1. size = Least(Total, Capacity) /\ (Total < Capacity => index = Total)
      BY DEF IInv, RingInv
    <2>2. size' = Least(Total', Capacity)
      BY <1>1, <1>2, <1>4, <2>1 DEF Least
    <2>3. Total' < Capacity => index' = Total'
      BY <1>1, <1>4, <1>5, <2>1
    <2> QED
      BY <1>7, <2>2, <2>3 DEF RingInv
  <1>11. TimeInv'
    <2> SUFFICES ASSUME NEW j \in 1..Total',
                        \A k \in j..(Total' - 1) : times'[k + 1] = times'[k] + 1
                 PROVE  times'[j] = endTime' - 1 - (Total' - j)
      BY DEF TimeInv
    <2>0. j \in 1..(Total + nb) /\ Total' - 1 = Total + nb - 1
      BY <1>1, <1>4
    <2>1. CASE j > Total
      <3>1. j \in (Total + 1)..(Total + nb)
        BY <1>1, <2>0, <2>1
      <3>2. times'[j] = endTime + gap + (j - Total) - 1
        BY <1>4, <3>1
      <3>3. endTime' - 1 - (Total' - j) = endTime + gap + nb - 1 - (Total + nb - j)
        BY <1>1, <1>2, <1>4, <2>0
      <3> QED
        BY <1>1, <3>1, <3>2, <3>3
    <2>2. CASE j <= Total
      <3>1. j \in 1..Total /\ Total \in 1..Total /\ Total \in j..(Total' - 1)
        BY <1>1, <1>4, <2>0, <2>2
      <3>2. \A k \in j..(Total - 1) : times[k + 1] = times[k] + 1
        <4> TAKE k \in j..(Total - 1)
        <4>1. k \in 1..Total /\ k + 1 \in 1..Total /\ k \in j..(Total' - 1)
          BY <1>1, <1>4, <3>1
        <4> QED
          BY <1>4, <4>1
      <3>3. times[j] = endTime - 1 - (Total - j)
        BY <3>1, <3>2 DEF IInv, TimeInv
      <3>4. times[Total] = endTime - 1
        <4>1. \A k \in Total..(Total - 1) : times[k + 1] = times[k] + 1
          BY <1>1
        <4>2. times[Total] = endTime - 1 - (Total - Total)
          BY <3>1, <4>1 DEF IInv, TimeInv
        <4> QED
          BY <1>1, <4>2
      <3>5. times'[Total + 1] = times[Total] + 1 /\ times'[Total + 1] = endTime + gap
        <4>1. Total + 1 \in (Total + 1)..(Total + nb)
          BY <1>1
        <4>2. times'[Total + 1] = times'[Total] + 1
          BY <3>1
        <4> QED
          BY <1>1, <1>4, <3>1, <4>1, <4>2
      <3>6. gap = 0
        BY <1>1, <3>4, <3>5
      <3>7. endTime' - 1 - (Total' - j) = endTime + gap + nb - 1 - (Total + nb - j)
        BY <1>1, <1>2, <1>4, <2>0
      <3>8. times'[j] = times[j]
        BY <1>4, <3>1
      <3> QED
        BY <1>1, <3>1, <3>3, <3>6, <3>7, <3>8
    <2> QED
      BY <1>1, <2>0, <2>1, <2>2
  <1>12. EncoderFresh' /\ SentInv' /\ FramesInv'
    BY <1>2 DEF IInv, EncoderFresh, SentInv, FramesInv
  <1> QED
    BY <1>9, <1>10, <1>11, <1>12 DEF IInv

\* What audioBufferSendFrame reads: the samples that follow the one at wIndex.
LEMMA FrameRead ==
    ASSUME IInv, pc = "encode", wIndex < size,
           NEW k \in 1..FrameLength
    PROVE  LET bufIndex == BufIndex(wIndex)
               prefix == Least(FrameLength, size - bufIndex)
           IN (IF k <= prefix THEN data[bufIndex + k - 1] ELSE data[k - 1 - prefix])
                = Total - size + wIndex + k
  <1> DEFINE bufIndex == BufIndex(wIndex)
             prefix == Least(FrameLength, size - bufIndex)
             i == wIndex + k - 1
  <1>1. /\ Capacity \in Nat \ {0} /\ Total \in Nat /\ index \in 0..(Capacity - 1)
        /\ size \in Nat \ {0} /\ wIndex \in Nat /\ FrameSize \in Nat \ {0}
        /\ size <= Capacity /\ (Total < Capacity => size = Total)
    BY CapacityAssumption, EncoderAssumption DEF IInv, TypeOK, RingInv, Total, Slots, Least
  <1>2. FrameLength \in 1..(size - wIndex)
    BY <1>1 DEF FrameLength, Least
  <1>3. wIndex \in 0..(size - 1) /\ i \in 0..(size - 1) /\ i = wIndex + k - 1
    BY <1>1, <1>2
  <1> HIDE DEF i
  <1>4. /\ bufIndex \in 0..(size - 1)
        /\ bufIndex = IF Total < Capacity THEN wIndex
                      ELSE IF index + wIndex < Capacity THEN index + wIndex ELSE index + wIndex - Capacity
    BY <1>3, ReadFacts DEF IInv
  <1>5. /\ BufIndex(i) = IF Total < Capacity THEN i
                         ELSE IF index + i < Capacity THEN index + i ELSE index + i - Capacity
        /\ data[BufIndex(i)] = Total - size + i + 1
    BY <1>3, ReadFacts DEF IInv
  <1> HIDE DEF bufIndex
  <1>6. prefix = IF FrameLength < size - bufIndex THEN FrameLength ELSE size - bufIndex
    BY DEF Least
  <1>7. Total >= Capacity => size = Capacity
    BY <1>1 DEF IInv, RingInv, Least
  <1> HIDE DEF prefix
  <1>8. BufIndex(i) = IF k <= prefix THEN bufIndex + k - 1 ELSE k - 1 - prefix
    BY <1>1, <1>2, <1>3, <1>4, <1>5, <1>6, <1>7
  <1>9. Total - size + i + 1 = Total - size + wIndex + k
    BY <1>1, <1>3
  <1> QED
    BY <1>5, <1>8, <1>9 DEF prefix, bufIndex

\* A frame is sent: it goes on where the one before ended.
LEMMA SendKeeps ==
    ASSUME IInv, SendFrame
    PROVE  IInv'
  <1> DEFINE nb == FrameLength
             bufIndex == BufIndex(wIndex)
             prefix == Least(nb, size - bufIndex)
             f == [k \in 1..nb |-> IF k <= prefix THEN data[bufIndex + k - 1] ELSE data[k - 1 - prefix]]
             first == IndexAt(startTime)
  <1>1. /\ pc = "encode" /\ wIndex < size
        /\ sent' = sent \o f
        /\ frames' = Append(frames, [pts |-> wPts, nb |-> nb])
        /\ encoder' = "used" /\ queued' = queued + 1
        /\ wIndex' = wIndex + nb /\ wPts' = wPts + nb
        /\ UNCHANGED <<data, index, size, endTime, pc, startTime, clip, times>>
    BY DEF SendFrame, WantsInput, ring
  <1>2. /\ Total \in Nat /\ size \in Nat /\ wIndex \in Nat /\ wPts \in Nat /\ queued \in Nat
        /\ FrameSize \in Nat \ {0} /\ startTime \in Int /\ endTime \in Int
        /\ sent \in Seq(Nat) /\ frames \in Seq([pts : Nat, nb : Nat \ {0}])
        /\ size <= Total
    BY EncoderAssumption DEF IInv, TypeOK, RingInv, Total, Least
  <1>3. /\ nb \in 1..(size - wIndex) /\ nb \in Nat \ {0} /\ nb <= FrameSize
        /\ wIndex + nb < size => nb = FrameSize
    BY <1>1, <1>2 DEF FrameLength, Least
  <1>4. \A k \in 1..nb : f[k] = Total - size + wIndex + k
    <2> TAKE k \in 1..nb
    <2>1. f[k] = IF k <= prefix THEN data[bufIndex + k - 1] ELSE data[k - 1 - prefix]
      OBVIOUS
    <2> QED
      BY <1>1, <2>1, FrameRead
  <1>5. f \in [1..nb -> Nat]
    <2>1. \A k \in 1..nb : Total - size + wIndex + k \in Nat
      BY <1>2, <1>3
    <2>2. f = [k \in 1..nb |-> f[k]]
      OBVIOUS
    <2> HIDE DEF f
    <2> QED
      BY <1>4, <2>1, <2>2
  <1> HIDE DEF nb, f, first
  <1>6. /\ sent' \in Seq(Nat) /\ Len(sent) \in Nat /\ Len(sent') = Len(sent) + nb
        /\ \A k \in 1..Len(sent) : sent'[k] = sent[k]
        /\ \A k \in (Len(sent) + 1)..(Len(sent) + nb) : sent'[k] = f[k - Len(sent)]
    <2>1. PICK S : S = Nat
      OBVIOUS
    <2>2. sent \in Seq(S) /\ f \in [1..nb -> S] /\ nb \in Nat
      BY <1>2, <1>3, <1>5, <2>1
    <2>3. /\ sent \o f \in Seq(S) /\ Len(sent) \in Nat /\ Len(sent \o f) = Len(sent) + nb
          /\ \A i \in 1..Len(sent) : (sent \o f)[i] = sent[i]
          /\ \A i \in (Len(sent) + 1)..(Len(sent) + nb) : (sent \o f)[i] = f[i - Len(sent)]
      BY <2>2, ConcatFacts
    <2> QED
      BY <1>1, <2>1, <2>3
  <1>7. /\ frames' \in Seq([pts : Nat, nb : Nat \ {0}])
        /\ Len(frames) \in Nat /\ Len(frames') = Len(frames) + 1
        /\ frames'[Len(frames) + 1] = [pts |-> wPts, nb |-> nb]
        /\ \A i \in 1..Len(frames) : frames'[i] = frames[i]
    <2>1. [pts |-> wPts, nb |-> nb] \in [pts : Nat, nb : Nat \ {0}]
      BY <1>2, <1>3
    <2> QED
      BY <1>1, <1>2, <2>1, AppendProperties, LenProperties
  <1>8. TypeOK'
    BY <1>1, <1>2, <1>3, <1>6, <1>7 DEF IInv, TypeOK
  <1>9. RingInv' /\ TimeInv' /\ EncoderFresh'
    BY <1>1 DEF IInv, RingInv, SlotHolds, TimeInv, EncoderFresh, Total
  <1>10. SentInv'
    <2>1. first \in Nat /\ first' = first /\ first = IndexAt(startTime)
      BY <1>1, <1>2 DEF first, IndexAt, BufStartTime, Most
    <2>2. /\ startTime \in StartTimes /\ wIndex >= first /\ Len(sent) = wIndex - first
          /\ \A k \in 1..Len(sent) : sent[k] = Total - size + first + k
      BY <1>1, <2>1 DEF IInv, SentInv
    <2>3. ASSUME NEW k \in 1..Len(sent')
          PROVE  sent'[k] = Total - size + first + k
      <3>1. CASE k <= Len(sent)
        BY <1>6, <2>2, <3>1
      <3>2. CASE k > Len(sent)
        <4>1. k \in (Len(sent) + 1)..(Len(sent) + nb) /\ k - Len(sent) \in 1..nb
          BY <1>3, <1>6, <3>2
        <4>2. sent'[k] = Total - size + wIndex + (k - Len(sent))
          BY <1>4, <1>6, <4>1
        <4>3. wIndex = first + Len(sent)
          BY <1>2, <1>6, <2>1, <2>2
        <4>4. Total - size + wIndex + (k - Len(sent)) = Total - size + first + k
          <5> DEFINE l == Len(sent)
          <5>1. l \in Nat /\ first \in Nat /\ k \in Int /\ wIndex = first + l
            BY <1>3, <1>6, <2>1, <4>1, <4>3
          <5> HIDE DEF l
          <5>2. Total - size + wIndex + (k - l) = Total - size + first + k
            BY <1>2, <5>1
          <5> QED
            BY <5>2 DEF l
        <4> QED
          BY <4>2, <4>4
      <3> QED
        BY <1>6, <3>1, <3>2
    <2>4. Total' = Total
      BY <1>1 DEF Total
    <2>6. wIndex' >= first /\ wIndex' <= size
      BY <1>1, <1>2, <1>3, <2>1, <2>2
    <2>7. Len(sent') = wIndex' - first
      BY <1>1, <1>2, <1>3, <1>6, <2>1, <2>2
    <2>5. IndexAt(startTime)' = first
      BY <2>1 DEF first
    <2> QED
      BY <1>1, <2>2, <2>3, <2>4, <2>5, <2>6, <2>7 DEF SentInv
  <1>11. FramesInv'
    <2>1. /\ wPts = Len(frames) * FrameSize
          /\ \A i \in 1..Len(frames) : /\ frames[i].nb = FrameSize
                                       /\ frames[i].pts = (i - 1) * FrameSize
      BY <1>1 DEF IInv, FramesInv, FramesInOrder
    <2>2. Len(frames) * FrameSize + FrameSize = (Len(frames) + 1) * FrameSize
      BY <1>2, <1>7
    <2>3. \A i \in 1..Len(frames') :
            /\ i < Len(frames') => frames'[i].nb = FrameSize
            /\ frames'[i].pts = (i - 1) * FrameSize
      <3> TAKE i \in 1..Len(frames')
      <3>1. CASE i \in 1..Len(frames)
        BY <1>7, <2>1, <3>1
      <3>2. CASE i = Len(frames) + 1
        BY <1>7, <2>1, <3>2
      <3> QED
        BY <1>7, <3>1, <3>2
    <2>4. wIndex' < size => wPts' = Len(frames') * FrameSize /\ \A i \in 1..Len(frames') : frames'[i].nb = FrameSize
      <3> SUFFICES ASSUME wIndex' < size
                   PROVE  wPts' = Len(frames') * FrameSize /\ \A i \in 1..Len(frames') : frames'[i].nb = FrameSize
        OBVIOUS
      <3>1. nb = FrameSize
        BY <1>1, <1>3
      <3>2. \A i \in 1..Len(frames') : i \in 1..Len(frames) \/ i = Len(frames) + 1
        BY <1>7
      <3>3. wPts' = Len(frames') * FrameSize
        BY <1>1, <1>7, <2>1, <2>2, <3>1
      <3>4. \A i \in 1..Len(frames') : frames'[i].nb = FrameSize
        <4>1. frames'[Len(frames) + 1].nb = FrameSize
          BY <1>7, <3>1
        <4>2. \A i \in 1..Len(frames) : frames'[i].nb = FrameSize
          BY <1>7, <2>1
        <4> QED
          BY <3>2, <4>1, <4>2
      <3> QED
        BY <3>3, <3>4
    <2> QED
      BY <1>1, <2>3, <2>4 DEF FramesInv, FramesInOrder
  <1> QED
    BY <1>8, <1>9, <1>10, <1>11 DEF IInv

\* The other steps of a save, and the encoder made for the output's parameters.
LEMMA OthersKeep ==
    ASSUME IInv, \/ GetParams
                 \/ \E time \in StartTimes : BeginWrite(time)
                 \/ SendFlush \/ WritePacket \/ WriteFailed \/ WriteDone
                 \/ UNCHANGED vars
    PROVE  IInv'
  <1>1. UNCHANGED <<data, index, size, endTime, times>>
    BY DEF GetParams, BeginWrite, SendFlush, WritePacket, WriteFailed, WriteDone, vars, ring
  <1>2. RingInv' /\ TimeInv'
    BY <1>1 DEF IInv, RingInv, SlotHolds, TimeInv, Total
  <1>3. Total' = Total /\ \A time : IndexAt(time)' = IndexAt(time)
    <2>1. Total' = Total
      BY <1>1 DEF Total
    <2>2. ASSUME NEW time PROVE IndexAt(time)' = IndexAt(time)
      BY <1>1, Zenon DEF IndexAt, BufStartTime
    <2> QED
      BY <2>1, <2>2
  <1>4. \A S : <<>> \in Seq(S)
    OBVIOUS
  <1> USE <1>1, <1>2, <1>3 DEF IInv, TypeOK, EncoderFresh, SentInv, FramesInv, FramesInOrder, locals, coder
  <1>5. CASE GetParams
    BY <1>5 DEF GetParams, EncoderCreated
  <1>6. ASSUME NEW time \in StartTimes, BeginWrite(time)
        PROVE  IInv'
    <2>1. time \in Int /\ IndexAt(time) \in Nat /\ Len(<<>>) = 0
      <3>1. time \in Int /\ time - BufStartTime \in Int /\ Len(<<>>) = 0
        BY TimeAssumption, CapacityAssumption DEF BufStartTime
      <3> QED
        BY <3>1, LeastMost DEF IndexAt, Most
    <2>2. /\ pc' = "encode" /\ encoder' = "fresh" /\ queued' = 0
          /\ startTime' = time /\ wIndex' = IndexAt(time) /\ wPts' = 0
          /\ sent' = <<>> /\ frames' = <<>> /\ UNCHANGED clip
      BY <1>6 DEF BeginWrite, EncoderCreated
    <2>3. TypeOK' /\ EncoderFresh'
      BY <1>4, <2>1, <2>2
    <2>4. SentInv'
      BY <2>1, <2>2
    <2>5. FramesInv'
      BY <2>1, <2>2, EncoderAssumption
    <2> QED
      BY <2>3, <2>4, <2>5
  <1>7. CASE SendFlush
    BY <1>7 DEF SendFlush, WantsInput, PastEnd
  <1>8. CASE WritePacket
    BY <1>8 DEF WritePacket
  <1>9. CASE WriteFailed \/ WriteDone
    <2>1. /\ pc' = "idle" /\ encoder' = "none" /\ queued' = 0
          /\ startTime' = 0 /\ wIndex' = 0 /\ wPts' = 0 /\ sent' = <<>> /\ frames' = <<>>
          /\ clip' \in Seq(Nat)
      BY <1>9 DEF WriteFailed, WriteDone, Return
    <2> QED
      BY <1>4, <2>1
  <1>10. CASE UNCHANGED vars
    BY <1>10 DEF vars
  <1> QED
    BY <1>5, <1>6, <1>7, <1>8, <1>9, <1>10

LEMMA InvStep == IInv /\ [Next]_vars => IInv'
  BY AddKeeps, SendKeeps, OthersKeep DEF Next

-----------------------------------------------------------------------------
\* abuffer.c: every variable has a value of its C type, positions lie in the ring.
THEOREM TypeCorrect == Spec => []TypeOK
  <1>1. IInv => TypeOK
    BY DEF IInv
  <1> QED
    BY <1>1, InitInv, InvStep, PTL DEF Spec

\* However often the ring has wrapped, and before it is full, the reader finds the
\* last size samples, oldest first, though it counts modulo size where the writer
\* counts modulo the capacity (abuffer.c:81-89 against 111-128).
THEOREM RingCorrect == Spec => []RingHoldsNewest
  <1>1. IInv => RingHoldsNewest
    BY ReadFacts DEF IInv, RingInv, RingHoldsNewest
  <1> QED
    BY <1>1, InitInv, InvStep, PTL DEF Spec

\* Between saves the encoder has never been given a frame, whatever way the last
\* save ended (abuffer.c:138-169).
THEOREM EncoderAlwaysFresh == Spec => []EncoderFresh
  <1>1. IInv => EncoderFresh
    BY DEF IInv
  <1> QED
    BY <1>1, InitInv, InvStep, PTL DEF Spec

\* Only the last frame before the flush may be short, and the frames follow each
\* other without gap (abuffer.c:104-135).
THEOREM FramesFollow == Spec => []FramesInOrder
  <1>1. IInv => FramesInOrder
    BY DEF IInv, FramesInv, FramesInOrder
  <1> QED
    BY <1>1, InitInv, InvStep, PTL DEF Spec

\* In a replay the ring reaches back for, of audio delivered without gaps, every
\* sample is at the time of its capture (abuffer.c:142-145).
THEOREM SavedOnTime == Spec => []SentOnTime
  <1>1. ASSUME IInv, pc = "encode", startTime >= BufStartTime, Contiguous,
               NEW k \in 1..Len(sent)
        PROVE  times[sent[k]] = startTime + k - 1
    <2>1. /\ Total \in Nat /\ size \in Nat /\ size <= Total /\ wIndex \in Nat
          /\ startTime \in Int /\ endTime \in Int /\ Len(sent) \in Nat
      BY <1>1, CapacityAssumption DEF IInv, TypeOK, RingInv, Total, Least
    <2>2. IndexAt(startTime) = startTime - (endTime - size)
      BY <1>1, <2>1 DEF IndexAt, BufStartTime, Most
    <2>3. /\ sent[k] = Total - size + IndexAt(startTime) + k
          /\ Len(sent) = wIndex - IndexAt(startTime)
          /\ wIndex = IndexAt(startTime) \/ wIndex <= size
      BY <1>1 DEF IInv, SentInv
    <2> DEFINE j == Total - size + IndexAt(startTime) + k
    <2>4. j \in 1..Total /\ j >= Total - size + 1
      BY <1>1, <2>1, <2>2, <2>3 DEF BufStartTime
    <2>5. \A n \in j..(Total - 1) : times[n + 1] = times[n] + 1
      <3> TAKE n \in j..(Total - 1)
      <3>1. n \in (Total - size + 1)..(Total - 1)
        BY <2>1, <2>4
      <3> QED
        BY <1>1, <3>1 DEF Contiguous
    <2>6. times[j] = endTime - 1 - (Total - j)
      BY <1>1, <2>4, <2>5 DEF IInv, TimeInv
    <2> QED
      BY <2>1, <2>2, <2>3, <2>4, <2>6
  <1>2. IInv => SentOnTime
    BY <1>1 DEF SentOnTime
  <1> QED
    BY <1>2, InitInv, InvStep, PTL DEF Spec

-----------------------------------------------------------------------------
\* Every step of the ring is a step of the window, or none.
LEMMA WindowStep == IInv /\ [Next]_vars => [SW!Next]_SW!vars
  <1> SUFFICES ASSUME IInv, [Next]_vars PROVE [SW!Next]_SW!vars
    OBVIOUS
  <1> USE DEF SW!vars
  <1>1. ASSUME NEW nb \in FrameSizes, NEW gap \in Gaps, AddFrame(nb, gap)
        PROVE  SW!Next
    <2>1. /\ Capacity \in Nat \ {0} /\ nb \in Nat /\ gap \in Int /\ size \in Nat
      BY CapacityAssumption, FramesFit, TimeAssumption DEF IInv, TypeOK, Total
    <2>2. Total' = Total + nb
      BY <1>1, TimesAdded
    <2>3. /\ size' = Least(size + nb, Capacity) /\ UNCHANGED clip
          /\ endTime' = endTime + gap + nb
      BY <1>1 DEF AddFrame, FrameEnd
    <2>4. size' = IF size + nb > Capacity THEN Capacity ELSE size + nb
      BY <2>1, <2>3 DEF Least
    <2> QED
      BY <2>2, <2>3, <2>4 DEF SW!Next, SW!Capture
  <1>2. CASE WriteDone
    <2>1. /\ clip' = sent /\ UNCHANGED <<data, index, size, endTime, times>>
          /\ pc = "encode" /\ encoder = "flushed"
      BY <1>2 DEF WriteDone, ring
    <2>2. /\ Total \in Nat /\ size \in Nat /\ wIndex \in Nat /\ Len(sent) \in Nat
          /\ startTime \in Int /\ endTime \in Int /\ sent \in Seq(Nat)
      BY DEF IInv, TypeOK, Total
    <2>3. /\ startTime \in StartTimes /\ wIndex >= size
          /\ wIndex = IndexAt(startTime) \/ wIndex <= size
          /\ Len(sent) = wIndex - IndexAt(startTime)
          /\ \A k \in 1..Len(sent) : sent[k] = Total - size + IndexAt(startTime) + k
      BY <2>1 DEF IInv, SentInv
    <2>4. SW!Skipped(startTime) = IndexAt(startTime) /\ IndexAt(startTime) \in Nat
      BY <2>2 DEF SW!Skipped, IndexAt, BufStartTime, Most
    <2> DEFINE first == Total - size + 1 + IndexAt(startTime)
    <2>5. 1..Len(sent) = 1..(Total - first + 1)
      BY <2>2, <2>3, <2>4
    <2>6. \A k \in 1..Len(sent) : sent[k] = first + k - 1
      BY <2>2, <2>3, <2>4
    <2>7. sent = [k \in 1..Len(sent) |-> sent[k]]
      BY <2>2
    <2>8. sent = SW!ClipFrom(first)
      BY <2>5, <2>6, <2>7 DEF SW!ClipFrom
    <2>9. SW!Cut(startTime)
      BY <2>1, <2>4, <2>8 DEF SW!Cut, Total
    <2> QED
      BY <2>3, <2>9 DEF SW!Next
  <1>3. CASE \/ GetParams \/ \E time \in StartTimes : BeginWrite(time)
             \/ SendFrame \/ SendFlush \/ WritePacket \/ WriteFailed \/ UNCHANGED vars
    BY <1>3 DEF GetParams, BeginWrite, SendFrame, SendFlush, WritePacket, WriteFailed, vars, ring, Total
  <1> QED
    BY <1>1, <1>2, <1>3 DEF Next

\* The ring and the loop over the encoder implement what the audio buffer promises:
\* the last Capacity samples are kept, and a clip that is complete holds each kept
\* sample from the requested time on, in order and once.
THEOREM RingImplementsWindow == Spec => WindowSpec
  <1>1. Init => SW!Init
    BY DEF Init, SW!Init, Total
  <1> QED
    BY <1>1, InitInv, InvStep, WindowStep, PTL DEF Spec, WindowSpec, SW!Spec
=============================================================================
