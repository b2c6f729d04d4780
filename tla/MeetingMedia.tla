---------------------------- MODULE MeetingMedia ----------------------------
(***************************************************************************)
(* What a LAN meeting captures and plays on a machine, and how it lets go: *)
(* the commands that enter and leave a meeting or share the screen         *)
(* (commands.rs), the capture loop (screen_capture.rs), the threads of the *)
(* microphone and the speaker (audio.rs), the control messages of the mesh *)
(* (webrtc_session.rs) and the presenter the pages show (meeting.ts).      *)
(*                                                                         *)
(* A peer is one meeting of one machine, as in Meeting; the peers here     *)
(* meet in one room, and the door and the mesh's negotiation are reduced   *)
(* to Admit and OpenChannels.  Frames and samples carry no state, so a     *)
(* thread that loops is a thread that captures.                            *)
(***************************************************************************)
EXTENDS LanPeers, Integers, SequencesExt

CONSTANTS
    Microphones,    \* machines whose microphone,
    Speakers,       \*   whose speaker can be opened
    Entering,       \* peers that enter the meeting in this instance,
    Sharers,        \*   of which the users of these may share
    MaxToggles,     \* bounds: presses of the share buttons,
    MaxExits        \*   meetings left by the user

ASSUME BoundsAreNatural == MaxToggles \in Nat /\ MaxExits \in Nat

VARIABLES
    \* The meeting of a machine.
    stage,          \* peer -> how far the commands have got with its meeting
    took,           \* peer -> the meeting its command has left first
    slot,           \* machine -> active_meeting
    \* What it captures and plays.
    mic, speaker,   \* peer -> the threads of its audio engine
    sharing,        \* peer -> is_sharing_screen
    capturing,      \* peer -> is_capturing
    captures,       \* peer -> capture threads, by the toggle that started them
    \* The room and the mesh.
    inside,         \* the peers in the room, as the server sees it
    departed,       \* peer -> peers whose peer-left is on its way to it
    channels,       \* peer -> peers it has open data channels to
    tasks,          \* peer -> control messages being broadcast
    wire,           \* <<from, to>> -> control messages on the chat channel
    \* Pages.
    presenter,      \* machine -> presenterPeerId
    toggles, exits  \* how many so far

commandVars == <<stage, took, slot>>
captureVars == <<mic, speaker, sharing, capturing, captures>>
meshVars == <<inside, departed, channels, tasks, wire>>
mediaCounters == <<toggles, exits>>
mediaVars == <<commandVars, captureVars, meshVars, presenter, mediaCounters>>

Toggles == 1..MaxToggles
Control == {"start", "stop"}
Waiting == {"waiting", "in"}                \* its meeting may be active
Leaving == {"capture", "audio", "mesh"}     \* what do_leave lets go of next

\* A task first takes its list of channels, then sends on one after the other.
Task == [control: Control, listed: BOOLEAN, to: SUBSET Peers]
Broadcast(c) == [control |-> c, listed |-> FALSE, to |-> {}]

MediaTypeOK ==
    /\ stage \in [Peers -> {"idle", "starting", "gone"} \cup Waiting \cup Leaving]
    /\ took \in [Peers -> Peers \cup {NoPeer}]
    /\ slot \in [Machines -> Peers \cup {NoPeer}]
    /\ mic \in [Peers -> {"off", "on", "stopping"}]
    /\ speaker \in [Peers -> {"off", "on", "stopping"}]
    /\ sharing \in [Peers -> BOOLEAN]
    /\ capturing \in [Peers -> BOOLEAN]
    /\ captures \in [Peers -> [Toggles -> {"none", "resolving", "looping"}]]
    /\ inside \in SUBSET Peers
    /\ departed \in [Peers -> SUBSET Peers]
    /\ channels \in [Peers -> SUBSET Peers]
    /\ tasks \in [Peers -> Seq(Task)]
    /\ wire \in [Peers \X Peers -> Seq(Control)]
    /\ presenter \in [Machines -> Peers \cup {NoPeer}]
    /\ toggles \in 0..MaxToggles /\ exits \in 0..MaxExits

NoCaptures == [t \in Toggles |-> "none"]

MediaInit ==
    /\ stage = [p \in Peers |-> "idle"]
    /\ took = [p \in Peers |-> NoPeer]
    /\ slot = [m \in Machines |-> NoPeer]
    /\ mic = [p \in Peers |-> "off"]
    /\ speaker = [p \in Peers |-> "off"]
    /\ sharing = [p \in Peers |-> FALSE]
    /\ capturing = [p \in Peers |-> FALSE]
    /\ captures = [p \in Peers |-> NoCaptures]
    /\ inside = {}
    /\ departed = [p \in Peers |-> {}]
    /\ channels = [p \in Peers |-> {}]
    /\ tasks = [p \in Peers |-> <<>>]
    /\ wire = [pq \in Peers \X Peers |-> <<>>]
    /\ presenter = [m \in Machines |-> NoPeer]
    /\ toggles = 0 /\ exits = 0
-----------------------------------------------------------------------------
\* Entering and leaving a meeting.

\* do_leave_meeting, its first step: whatever meeting is in the slot is taken
\* out under the lock, so that no command finds it any more.
TakeMeeting(m) == slot' = [slot EXCEPT ![m] = NoPeer]

\* stage after that, and a command for meeting p has begun.
AfterTaking(m) ==
    [q \in Peers |-> IF q = slot[m] THEN "capture" ELSE stage[q]]

\* create_lan_meeting, join_lan_meeting: leave, then await a connection.
EnterMeeting(p) ==
    LET m == MachineOf[p] IN
    /\ stage[p] = "idle"
    /\ stage' = [AfterTaking(m) EXCEPT ![p] = "starting"]
    /\ took' = [took EXCEPT ![p] = slot[m]]
    /\ TakeMeeting(m)
    /\ UNCHANGED <<captureVars, meshVars, presenter, mediaCounters>>

LeaveMeetingNow(m) ==
    /\ slot[m] # NoPeer
    /\ exits < MaxExits
    /\ exits' = exits + 1
    /\ stage' = AfterTaking(m)
    /\ TakeMeeting(m)
    /\ UNCHANGED <<took, captureVars, meshVars, presenter, toggles>>

\* start_input and start_output: no meeting fails for want of a device.
StreamOf(m, devices) == IF m \in devices THEN "on" ELSE "off"

\* The connection is there, the audio starts as far as it can, and
\* active_meeting is overwritten, whatever it holds.
EnterConnected(p) ==
    /\ stage[p] = "starting"
    /\ took[p] # NoPeer => stage[took[p]] = "gone"
    /\ stage' = [stage EXCEPT ![p] = "waiting"]
    /\ slot' = [slot EXCEPT ![MachineOf[p]] = p]
    /\ mic' = [mic EXCEPT ![p] = StreamOf(MachineOf[p], Microphones)]
    /\ speaker' = [speaker EXCEPT ![p] = StreamOf(MachineOf[p], Speakers)]
    /\ UNCHANGED <<took, sharing, capturing, captures, meshVars, presenter, mediaCounters>>

EnterFails(p) ==
    /\ stage[p] = "starting"
    /\ took[p] # NoPeer => stage[took[p]] = "gone"
    /\ stage' = [stage EXCEPT ![p] = "gone"]
    /\ UNCHANGED <<took, slot, captureVars, meshVars, presenter, mediaCounters>>

\* The rest of do_leave_meeting: the screen, the audio, the mesh and the page.
LeaveCapture(p) ==
    /\ stage[p] = "capture"
    /\ stage' = [stage EXCEPT ![p] = "audio"]
    /\ capturing' = [capturing EXCEPT ![p] = FALSE]
    /\ UNCHANGED <<took, slot, mic, speaker, sharing, captures, meshVars,
                   presenter, mediaCounters>>

\* Faulty variant of StopEngine: the microphone is forgotten.
StopSpeaker(p) ==
    /\ speaker' = [speaker EXCEPT ![p] = IF @ = "on" THEN "stopping" ELSE @]
    /\ UNCHANGED mic

StopEngine(p) ==
    /\ mic' = [mic EXCEPT ![p] = IF @ = "on" THEN "stopping" ELSE @]
    /\ speaker' = [speaker EXCEPT ![p] = IF @ = "on" THEN "stopping" ELSE @]

LeaveAudio(p) ==
    /\ stage[p] = "audio"
    /\ stage' = [stage EXCEPT ![p] = "mesh"]
    /\ StopEngine(p)
    /\ UNCHANGED <<took, slot, sharing, capturing, captures, meshVars,
                   presenter, mediaCounters>>

\* The channels between p and the peers in qs are closed; what is on them is lost.
Between(p, qs) == ({p} \X qs) \cup (qs \X {p})

Close(p, qs) ==
    /\ channels' = [x \in Peers |-> {y \in channels[x] : <<x, y>> \notin Between(p, qs)}]
    /\ wire' = [xy \in Peers \X Peers |->
                  IF xy \in Between(p, qs) THEN <<>> ELSE wire[xy]]

LeaveMesh(p) ==
    /\ stage[p] = "mesh"
    /\ stage' = [stage EXCEPT ![p] = "gone"]
    /\ Close(p, Peers)
    /\ presenter' = [presenter EXCEPT ![MachineOf[p]] = NoPeer]
    /\ UNCHANGED <<took, slot, captureVars, inside, departed, tasks, mediaCounters>>
-----------------------------------------------------------------------------
\* The threads of the audio engine: told to stop, each drops its stream.

MicEnds(p) ==
    /\ mic[p] = "stopping"
    /\ mic' = [mic EXCEPT ![p] = "off"]
    /\ UNCHANGED <<commandVars, speaker, sharing, capturing, captures, meshVars,
                   presenter, mediaCounters>>

SpeakerEnds(p) ==
    /\ speaker[p] = "stopping"
    /\ speaker' = [speaker EXCEPT ![p] = "off"]
    /\ UNCHANGED <<commandVars, mic, sharing, capturing, captures, meshVars,
                   presenter, mediaCounters>>
-----------------------------------------------------------------------------
\* Sharing the screen.

\* The page's reaction to screen-share-started and -stopped of peer p.
ShowControl(m, c, p) ==
    presenter' = [presenter EXCEPT ![m] = CASE c = "start" -> p
                                            [] c = "stop" /\ @ = p -> NoPeer
                                            [] OTHER -> @]

\* start_capture: nothing to do if the flag is up already.
StartCapture(p) ==
    /\ capturing' = [capturing EXCEPT ![p] = TRUE]
    /\ captures' = IF capturing[p] THEN captures
                   ELSE [captures EXCEPT ![p][toggles + 1] = "resolving"]

\* Faulty variant of StopCapture: the flag stays up.
LeaveFlagUp(p) == UNCHANGED <<capturing, captures>>

StopCapture(p) ==
    /\ capturing' = [capturing EXCEPT ![p] = FALSE]
    /\ UNCHANGED captures

\* The toggle itself, on a meeting the command has found.
Toggle(p, c) ==
    /\ toggles < MaxToggles
    /\ toggles' = toggles + 1
    /\ sharing' = [sharing EXCEPT ![p] = ~@]
    /\ c = IF sharing[p] THEN "stop" ELSE "start"
    /\ IF sharing[p] THEN StopCapture(p) ELSE StartCapture(p)
    /\ tasks' = [tasks EXCEPT ![p] = Append(@, Broadcast(c))]
    /\ ShowControl(MachineOf[p], c, p)
    /\ UNCHANGED <<commandVars, mic, speaker, inside, departed, channels, wire, exits>>

\* Faulty variant of ToggleShare: the command lets go of the slot's lock before
\* it toggles, so that the meeting may have been left meanwhile.
ToggleShareUnlocked(p) ==
    /\ stage[p] \in Waiting \cup Leaving
    /\ \E c \in Control : Toggle(p, c)

\* toggle_meeting_screen_share: the slot's lock is held to the end.
ToggleShare(p) ==
    /\ slot[MachineOf[p]] = p
    /\ \E c \in Control : Toggle(p, c)

\* A capture thread looks for its monitor or window; when that is gone it
\* lowers the flag, whoever has raised it.
CaptureResolves(p, t) ==
    /\ captures[p][t] = "resolving"
    /\ \/ /\ captures' = [captures EXCEPT ![p][t] = "looping"]
          /\ UNCHANGED capturing
       \/ /\ captures' = [captures EXCEPT ![p][t] = "none"]
          /\ capturing' = [capturing EXCEPT ![p] = FALSE]
    /\ UNCHANGED <<commandVars, mic, speaker, sharing, meshVars, presenter, mediaCounters>>

\* The loop ends when it finds the flag down; one that sleeps while the flag
\* goes down and up again goes on.
CaptureEnds(p, t) ==
    /\ captures[p][t] = "looping" /\ ~capturing[p]
    /\ captures' = [captures EXCEPT ![p][t] = "none"]
    /\ UNCHANGED <<commandVars, mic, speaker, sharing, capturing, meshVars,
                   presenter, mediaCounters>>
-----------------------------------------------------------------------------
\* broadcast_control: every message is broadcast by a task of its own.

\* The i-th task of p has still to send to the peers in qs.
Remaining(p, i, qs) ==
    LET rest == [tasks[p][i] EXCEPT !.listed = TRUE, !.to = qs] IN
    tasks' = [tasks EXCEPT ![p] = IF qs = {} THEN RemoveAt(tasks[p], i)
                                  ELSE [tasks[p] EXCEPT ![i] = rest]]

TaskLists(p) ==
    \E i \in DOMAIN tasks[p] :
      /\ ~tasks[p][i].listed
      /\ Remaining(p, i, channels[p])
      /\ UNCHANGED <<commandVars, captureVars, inside, departed, channels, wire,
                     presenter, mediaCounters>>

\* Sending on a channel that has closed fails, and nobody minds.
TaskSends(p) ==
    \E i \in DOMAIN tasks[p] : \E q \in tasks[p][i].to :
      /\ Remaining(p, i, tasks[p][i].to \ {q})
      /\ wire' = IF q \in channels[p]
                 THEN [wire EXCEPT ![<<p, q>>] = Append(@, tasks[p][i].control)]
                 ELSE wire
      /\ UNCHANGED <<commandVars, captureVars, inside, departed, channels,
                     presenter, mediaCounters>>

\* on_message of the chat channel.
ControlArrives(p, q) ==
    /\ wire[<<p, q>>] # <<>>
    /\ wire' = [wire EXCEPT ![<<p, q>>] = Tail(@)]
    /\ ShowControl(MachineOf[q], Head(wire[<<p, q>>]), p)
    /\ UNCHANGED <<commandVars, captureVars, inside, departed, channels, tasks, mediaCounters>>
-----------------------------------------------------------------------------
\* The room.

\* The peer gets in, and its page enters the meeting.
Admit(p) ==
    /\ stage[p] = "waiting"
    /\ stage' = [stage EXCEPT ![p] = "in"]
    /\ inside' = inside \cup {p}
    /\ presenter' = [presenter EXCEPT ![MachineOf[p]] = NoPeer]
    /\ UNCHANGED <<took, slot, captureVars, departed, channels, tasks, wire, mediaCounters>>

OpenChannels(p, q) ==
    /\ p # q /\ {p, q} \subseteq inside
    /\ stage[p] = "in" /\ stage[q] = "in"
    /\ q \notin channels[p]
    /\ channels' = [channels EXCEPT ![p] = @ \cup {q}, ![q] = @ \cup {p}]
    /\ UNCHANGED <<commandVars, captureVars, inside, departed, tasks, wire,
                   presenter, mediaCounters>>

\* The server ends the session of a peer that has left, and tells those who are
\* still in the room.  (That a connection may be lost instead is in Meeting.)
SessionEnds(p) ==
    /\ p \in inside /\ stage[p] # "in"
    /\ inside' = inside \ {p}
    /\ departed' = [q \in Peers |->
                      IF q \in inside \ {p} THEN departed[q] \cup {p} ELSE departed[q]]
    /\ UNCHANGED <<commandVars, captureVars, channels, tasks, wire,
                   presenter, mediaCounters>>

\* Faulty variant of ClearPresenter: the page keeps whom it shows.
KeepPresenter(m, p) == UNCHANGED presenter

\* The page's reaction to participant-left.
ClearPresenter(m, p) ==
    presenter' = [presenter EXCEPT ![m] = IF @ = p THEN NoPeer ELSE @]

\* peer-left: remove_peer, then participant-left.
HearLeft(q, p) ==
    /\ p \in departed[q]
    /\ departed' = [departed EXCEPT ![q] = @ \ {p}]
    /\ Close(q, {p})
    /\ ClearPresenter(MachineOf[q], p)
    /\ UNCHANGED <<commandVars, captureVars, inside, tasks, mediaCounters>>
-----------------------------------------------------------------------------
Release(p) == LeaveCapture(p) \/ LeaveAudio(p) \/ LeaveMesh(p)
CaptureThread(p, t) == CaptureResolves(p, t) \/ CaptureEnds(p, t)

MediaNext ==
    \/ \E p \in Peers :
         \/ (p \in Entering /\ EnterMeeting(p)) \/ EnterConnected(p) \/ EnterFails(p) \/ Release(p)
         \/ MicEnds(p) \/ SpeakerEnds(p) \/ (p \in Sharers /\ ToggleShare(p))
         \/ TaskLists(p) \/ TaskSends(p) \/ Admit(p) \/ SessionEnds(p)
    \/ \E p \in Peers, t \in Toggles : CaptureThread(p, t)
    \/ \E p, q \in Peers : \/ ControlArrives(p, q) \/ OpenChannels(p, q)
                           \/ HearLeft(p, q)
    \/ \E m \in Machines : LeaveMeetingNow(m)

MediaSpec == MediaInit /\ [][MediaNext]_mediaVars

\* What goes on by itself in the process of a peer's machine.
Work(p) ==
    \/ Release(p) \/ MicEnds(p) \/ SpeakerEnds(p)
    \/ \E t \in Toggles : CaptureThread(p, t)

\* A command that has begun to leave goes on, and threads run: a capture loop
\* looks at its flag at every frame, an audio thread waits for nothing but its
\* stop signal.  Each is fair; that one of them goes on is enough here, for none
\* can keep the others back for ever.  What users do, and what the network does,
\* is up to them.
MediaFairness == \A p \in Peers : WF_mediaVars(Work(p))
-----------------------------------------------------------------------------
\* Properties.

\* The screen is captured only for a meeting that is still there and whose user
\* is sharing: the flag is never up in a meeting that was left, however toggles
\* and exits of both windows interleave (commands.rs:84, 93, 662, 710).
CapturedOpenly ==
    \A p \in Peers : capturing[p] => sharing[p] /\ stage[p] \in Waiting \cup {"capture"}

\* A page shows as presenter only its own peer or one that is in the room or
\* whose departure it is still to hear of: the notice takes the presenter off
\* the page, and no control message comes after it (meeting.ts:830,
\* webrtc_session.rs:297, 428).  Once out of the room itself, a peer gets no
\* notices and clears the page when it is gone.
PresenterIsHere ==
    \A m \in Machines : LET p == presenter[m] IN
        p # NoPeer => \/ MachineOf[p] = m \/ p \in inside
                      \/ \E q \in Peers : /\ MachineOf[q] = m
                                          /\ p \in departed[q] \/ stage[q] \in Leaving

AtRest(p) ==
    /\ mic[p] = "off" /\ speaker[p] = "off"
    /\ captures[p] = NoCaptures

\* "Leaves the current meeting and releases all media resources"
\* (commands.rs:600): once a meeting is taken out of the slot its microphone,
\* its speaker and every thread that captures the screen for it come to an end.
LeavingReleasesMedia ==
    \A p \in Entering : stage[p] = "capture" ~> stage[p] = "gone" /\ AtRest(p)

\* When the user has stopped sharing for good, every capture thread ends: also
\* one that a quick stop and start has left running, and one that was still
\* looking for its window (screen_capture.rs:178, 235, 276).
SharingStops ==
    \A p \in Sharers : ~sharing[p] ~> captures[p] = NoCaptures \/ sharing[p]

\* The same as LeavingReleasesMedia, of the machine: with no meeting active and
\* no command under way, none of its meetings captures anything.
NoMediaOutsideMeetings ==
    \A m \in Machines :
        /\ slot[m] = NoPeer
        /\ \A p \in Peers : MachineOf[p] = m =>
              stage[p] \notin Leaving \cup {"starting"}
        => \A p \in Peers : MachineOf[p] = m => mic[p] # "on" /\ ~capturing[p]
=============================================================================
