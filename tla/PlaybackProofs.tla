--------------------------- MODULE PlaybackProofs ---------------------------
(***************************************************************************)
(* Proofs about Playback: its queue stays short and in order, and it       *)
(* implements LossyStream.                                                 *)
(***************************************************************************)
EXTENDS Playback, SequenceTheorems, TLAPS

PlaybackInv ==
    /\ PlaybackTypeOK
    /\ BacklogIsBounded
    /\ NewestWait
-----------------------------------------------------------------------------
\* Sequences of numbers.

LEMMA SuffixFacts ==
    ASSUME NEW q \in Seq(Nat), NEW k \in Nat, k <= Len(q)
    PROVE  /\ SubSeq(q, k + 1, Len(q)) \in Seq(Nat)
           /\ Len(SubSeq(q, k + 1, Len(q))) = Len(q) - k
           /\ \A i \in 1..Len(q) - k : SubSeq(q, k + 1, Len(q))[i] = q[k + i]
  OBVIOUS

LEMMA PlaybackTypes ==
    ASSUME PlaybackInv
    PROVE  /\ samples \in Nat /\ outputQueue \in Seq(Nat) /\ Len(outputQueue) \in Nat
           /\ Len(outputQueue) <= MaxQueued + MaxChunk
           /\ played \in Seq(Numbered) /\ output \in {"new", "on", "stopping", "off"}
           /\ MaxQueued \in Nat /\ Cut \in Nat /\ MaxChunk \in Nat /\ MaxBuffer \in Nat
  BY SizesAreNat DEF PlaybackInv, PlaybackTypeOK, BacklogIsBounded

\* The queue after a cut: no longer than it may be, and the newest part of it.
LEMMA BacklogFacts ==
    ASSUME PlaybackInv
    PROVE  /\ Backlog \in Seq(Nat)
           /\ Len(Backlog) <= MaxQueued /\ Len(Backlog) <= Len(outputQueue)
           /\ \A i \in 1..Len(Backlog) : Backlog[i] = samples - Len(Backlog) + i
<1> USE SizesAreNat, CutIsInRange DEF PlaybackInv, PlaybackTypeOK
<1>1. CASE Len(outputQueue) > MaxQueued
  <2>1. /\ Backlog = SubSeq(outputQueue, Cut + 1, Len(outputQueue))
        /\ Cut <= Len(outputQueue)
    BY <1>1 DEF Backlog
  <2>2. /\ Backlog \in Seq(Nat) /\ Len(Backlog) = Len(outputQueue) - Cut
        /\ \A i \in 1..Len(Backlog) : Backlog[i] = outputQueue[Cut + i]
    BY <2>1, SuffixFacts
  <2>3. ASSUME NEW i \in 1..Len(Backlog)
        PROVE  Backlog[i] = samples - Len(Backlog) + i
    <3>1. Cut + i \in DOMAIN outputQueue
      BY <2>1, <2>2
    <3>2. outputQueue[Cut + i] = samples - Len(outputQueue) + (Cut + i)
      BY <3>1 DEF NewestWait
    <3>3. Backlog[i] = samples - Len(outputQueue) + (Cut + i)
      BY <2>2, <3>2
    <3>4. Len(outputQueue) \in Nat /\ i \in Nat
      OBVIOUS
    <3> HIDE DEF PlaybackInv, PlaybackTypeOK
    <3> QED
      BY <2>2, <3>3, <3>4, PlaybackTypes
  <2> QED
    BY <2>2, <2>3 DEF BacklogIsBounded
<1>2. CASE Len(outputQueue) <= MaxQueued
  <2>1. Backlog = outputQueue
    BY <1>2 DEF Backlog
  <2> QED
    BY <1>2, <2>1 DEF NewestWait
<1> QED
  BY <1>1, <1>2

\* The queue after new samples have come in.
LEMMA PushFacts ==
    ASSUME PlaybackInv, NEW k \in 1..MaxChunk, PushIncomingAudio(k)
    PROVE  /\ samples' = samples + k
           /\ outputQueue' \in Seq(Nat) /\ Len(outputQueue') = Len(Backlog) + k
           /\ \A i \in 1..Len(outputQueue') :
                 outputQueue'[i] = samples' - Len(outputQueue') + i
<1> USE SizesAreNat DEF PlaybackInv, PlaybackTypeOK
<1>1. /\ Chunk(k) \in Seq(Nat) /\ Len(Chunk(k)) = k
      /\ \A i \in 1..k : Chunk(k)[i] = samples + i
  BY DEF Chunk
<1>2. /\ outputQueue' \in Seq(Nat) /\ Len(outputQueue') = Len(Backlog) + k
      /\ \A i \in 1..Len(outputQueue') :
            outputQueue'[i] = IF i <= Len(Backlog) THEN Backlog[i]
                              ELSE Chunk(k)[i - Len(Backlog)]
  <2> DEFINE B == Backlog
             C == Chunk(k)
  <2>1. outputQueue' = B \o C
    BY DEF PushIncomingAudio
  <2>2. B \in Seq(Nat) /\ C \in Seq(Nat) /\ Len(C) = k
    BY <1>1, BacklogFacts
  <2> HIDE DEF B, C
  <2>3. /\ B \o C \in Seq(Nat) /\ Len(B \o C) = Len(B) + Len(C)
        /\ \A i \in 1..Len(B) + Len(C) :
              (B \o C)[i] = IF i <= Len(B) THEN B[i] ELSE C[i - Len(B)]
    BY <2>2, ConcatProperties
  <2>4. /\ outputQueue' \in Seq(Nat) /\ Len(outputQueue') = Len(B) + k
        /\ \A i \in 1..Len(outputQueue') :
              outputQueue'[i] = IF i <= Len(B) THEN B[i] ELSE C[i - Len(B)]
    BY <2>1, <2>2, <2>3
  <2> QED
    BY <2>4 DEF B, C
<1>3. samples' = samples + k
  BY DEF PushIncomingAudio
<1>4. ASSUME NEW i \in 1..Len(outputQueue')
      PROVE  outputQueue'[i] = samples' - Len(outputQueue') + i
  <2>1. CASE i <= Len(Backlog)
    <3>1. i \in 1..Len(Backlog)
      BY <2>1, BacklogFacts
    <3>2. outputQueue'[i] = Backlog[i] /\ Backlog[i] = samples - Len(Backlog) + i
      BY <1>2, <2>1, <3>1, BacklogFacts
    <3> HIDE DEF PlaybackInv, PlaybackTypeOK
    <3> QED
      BY <1>2, <1>3, <3>2, BacklogFacts, PlaybackTypes
  <2>2. CASE i > Len(Backlog)
    <3>1. i - Len(Backlog) \in 1..k
      BY <1>2, <2>2, BacklogFacts
    <3> QED
      BY <1>1, <1>2, <1>3, <2>2, <3>1, BacklogFacts
  <2> QED
    BY <1>2, <2>1, <2>2, BacklogFacts
<1> QED
  BY <1>2, <1>3, <1>4

\* The queue after the speaker has taken a buffer.
LEMMA FillFacts ==
    ASSUME PlaybackInv, NEW n \in 1..MaxBuffer, FillBuffer(n)
    PROVE  /\ outputQueue' \in Seq(Nat)
           /\ Len(outputQueue') = IF n <= Len(outputQueue) THEN Len(outputQueue) - n ELSE 0
           /\ \A i \in 1..Len(outputQueue') :
                 outputQueue'[i] = samples' - Len(outputQueue') + i
           /\ played' \in Seq(Numbered)
<1> USE SizesAreNat DEF PlaybackInv, PlaybackTypeOK
<1>1. played' \in Seq(Numbered)
  <2>1. \A i \in 1..n : (IF i <= Len(outputQueue) THEN outputQueue[i] ELSE Silence) \in Numbered
    BY DEF Numbered
  <2> QED
    BY <2>1 DEF FillBuffer
<1>2. samples' = samples
  BY DEF FillBuffer
<1>3. CASE n <= Len(outputQueue)
  <2>1. outputQueue' = SubSeq(outputQueue, n + 1, Len(outputQueue))
    BY <1>3 DEF FillBuffer
  <2>2. /\ outputQueue' \in Seq(Nat) /\ Len(outputQueue') = Len(outputQueue) - n
        /\ \A i \in 1..Len(outputQueue') : outputQueue'[i] = outputQueue[n + i]
    BY <1>3, <2>1, SuffixFacts
  <2>3. ASSUME NEW i \in 1..Len(outputQueue')
        PROVE  outputQueue'[i] = samples' - Len(outputQueue') + i
    <3>1. n + i \in DOMAIN outputQueue
      BY <1>3, <2>2, SMTT(40)
    <3>2. outputQueue[n + i] = samples - Len(outputQueue) + (n + i)
      BY <3>1 DEF NewestWait
    <3>3. outputQueue'[i] = samples - Len(outputQueue) + (n + i)
      BY <2>2, <3>2
    <3>4. Len(outputQueue) \in Nat /\ i \in Nat
      OBVIOUS
    <3> HIDE DEF PlaybackInv, PlaybackTypeOK
    <3> QED
      BY <1>2, <2>2, <3>3, <3>4, PlaybackTypes
  <2> QED
    BY <1>1, <1>3, <2>2, <2>3
<1>4. CASE n > Len(outputQueue)
  <2>1. outputQueue' = <<>>
    BY <1>4 DEF FillBuffer
  <2> QED
    BY <1>1, <1>4, <2>1
<1> QED
  BY <1>3, <1>4
-----------------------------------------------------------------------------
LEMMA PlaybackInitInv == PlaybackInit => PlaybackInv
  BY SizesAreNat
     DEF PlaybackInit, PlaybackInv, PlaybackTypeOK, BacklogIsBounded, NewestWait

LEMMA PlaybackStep == PlaybackInv /\ [PlaybackNext]_playbackVars => PlaybackInv'
<1> SUFFICES ASSUME PlaybackInv, [PlaybackNext]_playbackVars PROVE PlaybackInv'
  OBVIOUS
<1> USE SizesAreNat
<1>1. CASE StartOutput \/ OutputEnds \/ UNCHANGED playbackVars
  BY <1>1 DEF StartOutput, OutputEnds, playbackVars, PlaybackInv, PlaybackTypeOK,
              BacklogIsBounded, NewestWait
<1>2. CASE StopOutput
  BY <1>2 DEF StopOutput, PlaybackInv, PlaybackTypeOK, BacklogIsBounded, NewestWait
<1>3. ASSUME NEW k \in 1..MaxChunk, PushIncomingAudio(k)
      PROVE  PlaybackInv'
  <2>1. samples' = samples + k /\ UNCHANGED <<output, played>>
    BY <1>3 DEF PushIncomingAudio
  <2>2. Len(Backlog) \in Nat
    BY BacklogFacts
  <2>3. PlaybackTypeOK'
    BY <1>3, <2>1, PushFacts, PlaybackTypes DEF PlaybackTypeOK
  <2>4. BacklogIsBounded'
    BY <1>3, <2>2, PushFacts, BacklogFacts, PlaybackTypes DEF BacklogIsBounded
  <2>5. NewestWait'
    <3>1. DOMAIN outputQueue' = 1..Len(outputQueue')
      BY <1>3, PushFacts, LenProperties
    <3> QED
      BY <1>3, <3>1, PushFacts DEF NewestWait
  <2> QED
    BY <2>3, <2>4, <2>5 DEF PlaybackInv
<1>4. ASSUME NEW n \in 1..MaxBuffer, FillBuffer(n)
      PROVE  PlaybackInv'
  <2>1. UNCHANGED <<samples, output>>
    BY <1>4 DEF FillBuffer
  <2>2. PlaybackTypeOK'
    BY <1>4, <2>1, FillFacts, PlaybackTypes DEF PlaybackTypeOK
  <2>3. BacklogIsBounded'
    BY <1>4, FillFacts, PlaybackTypes DEF BacklogIsBounded
  <2>4. NewestWait'
    <3>1. DOMAIN outputQueue' = 1..Len(outputQueue')
      BY <1>4, FillFacts, LenProperties
    <3> QED
      BY <1>4, <3>1, FillFacts DEF NewestWait
  <2> QED
    BY <2>2, <2>3, <2>4 DEF PlaybackInv
<1> QED
  BY <1>1, <1>2, <1>3, <1>4 DEF PlaybackNext

THEOREM PlaybackInvariance == PlaybackSpec => []PlaybackInv
  BY PlaybackInitInv, PlaybackStep, PTL DEF PlaybackSpec

\* The queue never holds more than one message above its limit, with or without
\* a speaker that empties it.
THEOREM QueueStaysShort == PlaybackSpec => []BacklogIsBounded
<1>1. PlaybackInv => BacklogIsBounded
  BY DEF PlaybackInv
<1> QED
  BY <1>1, PlaybackInvariance, PTL
-----------------------------------------------------------------------------
\* A step of the engine is a step of the stream, or none.
LEMMA StreamStep ==
    ASSUME PlaybackInv, [PlaybackNext]_playbackVars
    PROVE  \/ Stream!StreamNext
           \/ UNCHANGED <<samples, samples - Len(outputQueue), played>>
<1> USE SizesAreNat DEF PlaybackInv, PlaybackTypeOK
<1>1. CASE StartOutput \/ OutputEnds \/ UNCHANGED playbackVars
  BY <1>1 DEF StartOutput, OutputEnds, playbackVars
<1>2. CASE StopOutput
  <2>1. Stream!GiveUp
    BY <1>2 DEF StopOutput, Stream!GiveUp
  <2> QED
    BY <2>1 DEF Stream!StreamNext
<1>3. ASSUME NEW k \in 1..MaxChunk, PushIncomingAudio(k)
      PROVE  Stream!StreamNext
  <2>1. /\ samples' = samples + k /\ Len(outputQueue') = Len(Backlog) + k
        /\ UNCHANGED played
    BY <1>3, PushFacts DEF PushIncomingAudio
  <2>2. Len(Backlog) \in Nat /\ Len(Backlog) <= Len(outputQueue)
    BY BacklogFacts
  <2>3. Stream!Arrive
    BY <2>1, <2>2 DEF Stream!Arrive
  <2> QED
    BY <2>3 DEF Stream!StreamNext
<1>4. ASSUME NEW n \in 1..MaxBuffer, FillBuffer(n)
      PROVE  Stream!StreamNext
  <2>1. /\ samples' = samples
        /\ Len(outputQueue') = IF n <= Len(outputQueue) THEN Len(outputQueue) - n ELSE 0
    BY <1>4, FillFacts DEF FillBuffer
  <2>2. played' = [i \in 1..n |-> IF samples - Len(outputQueue) + i <= samples
                                  THEN samples - Len(outputQueue) + i ELSE Silence]
    <3>1. ASSUME NEW i \in 1..n
          PROVE  (IF i <= Len(outputQueue) THEN outputQueue[i] ELSE Silence)
                   = IF samples - Len(outputQueue) + i <= samples
                     THEN samples - Len(outputQueue) + i ELSE Silence
      BY DEF NewestWait
    <3> QED
      BY <1>4, <3>1 DEF FillBuffer
  <2>3. Stream!Hear(n)
    BY <2>1, <2>2 DEF Stream!Hear
  <2> QED
    BY <2>3 DEF Stream!StreamNext
<1> QED
  BY <1>1, <1>2, <1>3, <1>4 DEF PlaybackNext

\* What the speaker plays is a stream without reordering, repetition or gaps
\* that nobody gave up, for every size of the queue, the messages and the
\* buffers that CutIsInRange admits.
THEOREM StreamImplemented == PlaybackSpec => HeardInOrder
<1>1. PlaybackInit => Stream!StreamInit
  <2> SUFFICES ASSUME PlaybackInit PROVE Stream!StreamInit
    OBVIOUS
  <2>1. samples = 0 /\ outputQueue = <<>> /\ played = <<>>
    BY DEF PlaybackInit
  <2>2. Len(outputQueue) = 0
    BY <2>1
  <2>3. samples = 0
    BY <2>1
  <2>4. samples - Len(outputQueue) = 0
    BY <2>2, <2>3
  <2> QED
    BY <2>1, <2>4 DEF Stream!StreamInit
<1>2. PlaybackInv /\ [PlaybackNext]_playbackVars => [Stream!StreamNext]_Stream!streamVars
  BY StreamStep DEF Stream!streamVars
<1> QED
  BY <1>1, <1>2, PlaybackInvariance, PTL
     DEF PlaybackSpec, HeardInOrder, Stream!StreamSpec
=============================================================================
