----------------------------- MODULE MCLanSafety -----------------------------
(***************************************************************************)
(* An instance of Meeting and one of MeetingMedia in one run.  They share  *)
(* no variable and no action, so each is explored by itself: the other     *)
(* stays in its initial state.                                             *)
(***************************************************************************)
EXTENDS MCMeeting, MCMedia

VARIABLE part   \* which of the two takes steps

AllInit == part \in {"meeting", "media"} /\ Init /\ MediaInit

AllNext ==
    /\ UNCHANGED part
    /\ \/ part = "meeting" /\ Next /\ UNCHANGED mediaVars
       \/ part = "media" /\ MediaNext /\ UNCHANGED vars

AllSpec == AllInit /\ [][AllNext]_<<part, vars, mediaVars>>
=============================================================================
