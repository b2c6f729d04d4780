------------------------------ MODULE Playback ------------------------------
(***************************************************************************)
(* The speaker's side of the audio engine of one meeting (audio.rs): the   *)
(* queue of incoming samples that the callbacks of every peer's audio      *)
(* channel fill (webrtc_session.rs) and the output stream empties.  Both   *)
(* hold the queue's lock throughout.  The device may be missing, and the   *)
(* channels deliver until they are closed, after the engine was stopped.   *)
(***************************************************************************)
EXTENDS Integers, Sequences

CONSTANTS
    Silence,
    MaxQueued,      \* samples a queue may hold before it is cut (24000)
    Cut,            \* oldest samples then dropped (12000)
    MaxChunk,       \* samples of one message
    MaxBuffer,      \* frames of the device's buffer
    MaxArrived      \* bound: samples that arrive

ASSUME SilenceIsSilent == Silence \notin Nat
ASSUME SizesAreNat == /\ MaxQueued \in Nat /\ Cut \in Nat
                      /\ MaxChunk \in Nat /\ MaxBuffer \in Nat

\* The drain of the queue finds what it drops (audio.rs:242), and one message
\* is shorter than what is dropped: 12000 samples are a quarter of a second.
ASSUME CutIsInRange == Cut <= MaxQueued /\ MaxChunk <= Cut

VARIABLES
    samples,        \* samples that have arrived, numbered from 1
    outputQueue,    \* output_queue
    output,         \* the output stream and its thread
    played          \* what the last callback wrote into the device's buffer

playbackVars == <<samples, outputQueue, output, played>>

Numbered == Nat \cup {Silence}

PlaybackTypeOK ==
    /\ samples \in Nat
    /\ outputQueue \in Seq(Nat)
    /\ output \in {"new", "on", "stopping", "off"}
    /\ played \in Seq(Numbered)

PlaybackInit ==
    /\ samples = 0
    /\ outputQueue = <<>>
    /\ output = "new"
    /\ played = <<>>

\* start_output, which fails without a device that suits.
StartOutput ==
    /\ output = "new"
    /\ output' \in {"on", "off"}
    /\ UNCHANGED <<samples, outputQueue, played>>

\* The next k samples.
Chunk(k) == [i \in 1..k |-> samples + i]

\* Faulty variant of Backlog: the newest samples go instead of the oldest.
DropNewest ==
    IF Len(outputQueue) > MaxQueued
    THEN SubSeq(outputQueue, 1, Len(outputQueue) - Cut)
    ELSE outputQueue

\* Faulty variant of Backlog: the queue is never cut.
NeverCut == outputQueue

\* What of the queue is kept when more arrives.
Backlog ==
    IF Len(outputQueue) > MaxQueued
    THEN SubSeq(outputQueue, Cut + 1, Len(outputQueue))
    ELSE outputQueue

PushIncomingAudio(k) ==
    /\ output # "new" /\ samples + k <= MaxArrived
    /\ samples' = samples + k
    /\ outputQueue' = Backlog \o Chunk(k)
    /\ UNCHANGED <<output, played>>

\* The output callback fills a buffer of n frames.
FillBuffer(n) ==
    /\ output \in {"on", "stopping"}
    /\ played' = [i \in 1..n |-> IF i <= Len(outputQueue) THEN outputQueue[i]
                                 ELSE Silence]
    /\ outputQueue' = IF n <= Len(outputQueue)
                      THEN SubSeq(outputQueue, n + 1, Len(outputQueue))
                      ELSE <<>>
    /\ UNCHANGED <<samples, output>>

\* The engine's stop: the stream is told to stop, then the queue is cleared.
StopOutput ==
    /\ output \in {"on", "off"}
    /\ output' = IF output = "on" THEN "stopping" ELSE output
    /\ outputQueue' = <<>>
    /\ UNCHANGED <<samples, played>>

\* The thread hears of it and drops its stream.
OutputEnds ==
    /\ output = "stopping"
    /\ output' = "off"
    /\ UNCHANGED <<samples, outputQueue, played>>

PlaybackNext ==
    \/ StartOutput \/ StopOutput \/ OutputEnds
    \/ \E k \in 1..MaxChunk : PushIncomingAudio(k)
    \/ \E n \in 1..MaxBuffer : FillBuffer(n)

PlaybackSpec == PlaybackInit /\ [][PlaybackNext]_playbackVars
-----------------------------------------------------------------------------
\* Properties.

\* The queue stays short with no consumer at all, which is when the device is
\* missing or the stream has gone (audio.rs:239).
BacklogIsBounded == Len(outputQueue) <= MaxQueued + MaxChunk

\* What waits is the newest samples, in the order of their arrival, none
\* missing: cutting and clearing give up the oldest.
NewestWait ==
    \A i \in DOMAIN outputQueue :
        outputQueue[i] = samples - Len(outputQueue) + i

Stream == INSTANCE LossyStream WITH
    arrived <- samples, gone <- samples - Len(outputQueue), heard <- played

\* The engine keeps the promise of LossyStream, whatever arrives when
\* (audio.rs:195, 239).
HeardInOrder == Stream!StreamSpec
=============================================================================
