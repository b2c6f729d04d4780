---------------------------- MODULE LossyStream ----------------------------
(***************************************************************************)
(* What a listener may count on, whatever the buffering: samples are heard *)
(* in the order in which they arrived, each at most once, and there is     *)
(* silence only when nothing is waiting.  Some may never be heard.         *)
(*                                                                         *)
(* Samples are numbered as they arrive.                                    *)
(***************************************************************************)
EXTENDS Integers, Sequences

CONSTANTS
    Silence,
    MaxBuffer       \* samples the speaker takes at a time

VARIABLES
    arrived,        \* samples that have arrived
    gone,           \* of these, the number of the last one heard or given up
    heard           \* what the speaker was last given to play

streamVars == <<arrived, gone, heard>>

StreamInit == arrived = 0 /\ gone = 0 /\ heard = <<>>

\* Samples arrive, and some that were waiting may be given up.
Arrive ==
    /\ arrived' \in Nat /\ arrived' > arrived
    /\ gone' \in gone..arrived
    /\ UNCHANGED heard

\* The speaker takes the next n samples, or silence where there are no more.
Hear(n) ==
    /\ heard' = [i \in 1..n |-> IF gone + i <= arrived THEN gone + i ELSE Silence]
    /\ gone' = IF gone + n <= arrived THEN gone + n ELSE arrived
    /\ UNCHANGED arrived

\* All that is waiting is given up.
GiveUp ==
    /\ gone' = arrived
    /\ UNCHANGED <<arrived, heard>>

StreamNext == Arrive \/ GiveUp \/ \E n \in 1..MaxBuffer : Hear(n)

StreamSpec == StreamInit /\ [][StreamNext]_streamVars
=============================================================================
