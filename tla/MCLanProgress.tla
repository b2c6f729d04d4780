---------------------------- MODULE MCLanProgress ----------------------------
(***************************************************************************)
(* Instances of Meeting, MeetingMedia and Playback in one run, each        *)
(* explored by itself as in MCLanSafety.  None of the actions under        *)
(* fairness is enabled in the initial state of its part.                   *)
(***************************************************************************)
EXTENDS MCMeeting, MCMedia, Playback

VARIABLE part   \* which of the three takes steps

AllInit ==
    /\ part \in {"meeting", "media", "playback"}
    /\ Init /\ MediaInit /\ PlaybackInit

AllNext ==
    /\ UNCHANGED part
    /\ \/ part = "meeting" /\ Next /\ UNCHANGED <<mediaVars, playbackVars>>
       \/ part = "media" /\ MediaNext /\ UNCHANGED <<vars, playbackVars>>
       \/ part = "playback" /\ PlaybackNext /\ UNCHANGED <<vars, mediaVars>>

AllSpec == /\ AllInit /\ [][AllNext]_<<part, vars, mediaVars, playbackVars>>
           /\ Fairness /\ MediaFairness
=============================================================================
