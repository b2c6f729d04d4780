------------------------- MODULE MeetingMediaProofs -------------------------
(***************************************************************************)
(* Proofs about MeetingMedia: the screen is captured openly, and nobody    *)
(* is shown as presenter who is not there.                                 *)
(***************************************************************************)
EXTENDS MeetingMedia, SequenceTheorems, TLAPS

\* A meeting in the slot of a machine is one of its own, and not left yet.
SlotInv ==
    \A m \in Machines : slot[m] # NoPeer =>
        MachineOf[slot[m]] = m /\ stage[slot[m]] \in Waiting

\* Channels have two ends, at peers that have not let go of the mesh; a peer in
\* the meeting has channels only to those in the room, or whose departure it is
\* still to hear of.  Messages are on open channels only.
MeshInv ==
    /\ \A p \in Peers : stage[p] = "in" => p \in inside
    /\ \A p, q \in Peers : q \in channels[p] =>
          /\ p \in channels[q]
          /\ stage[q] \in Leaving \cup {"in"}
          /\ stage[q] = "in" => p \in inside \/ p \in departed[q]
    /\ \A p, q \in Peers : wire[<<p, q>>] # <<>> => q \in channels[p]

\* A machine has a meeting that can still take p off its page.
WillClear(m, p) ==
    \E q \in Peers :
        /\ MachineOf[q] = m
        /\ \/ stage[q] \in Leaving
           \/ stage[q] = "in" /\ (p \in inside \/ p \in departed[q])

PresenterInv ==
    \A m \in Machines : LET p == presenter[m] IN
        p # NoPeer /\ MachineOf[p] # m => WillClear(m, p)

MediaInv ==
    /\ MediaTypeOK
    /\ SlotInv
    /\ CapturedOpenly
    /\ MeshInv
    /\ PresenterInv

\* The variables of each part of the invariant.
slotParts == <<stage, slot>>
captureParts == <<stage, sharing, capturing>>
meshParts == <<stage, inside, departed, channels, wire>>
presenterParts == <<stage, inside, departed, presenter>>

LEMMA Distinct ==
    /\ \A p \in Peers : p # NoPeer
    /\ "idle" \notin Waiting \cup Leaving /\ "starting" \notin Waiting \cup Leaving
    /\ "gone" \notin Waiting \cup Leaving
    /\ Waiting \cap Leaving = {} /\ "in" \in Waiting /\ "waiting" \in Waiting
    /\ "capture" \in Leaving /\ "audio" \in Leaving /\ "mesh" \in Leaving
  BY PeersAreFinite DEF Waiting, Leaving

LEMMA SlotKept == SlotInv /\ UNCHANGED slotParts => SlotInv'
  BY DEF SlotInv, slotParts

LEMMA CapturedKept == CapturedOpenly /\ UNCHANGED captureParts => CapturedOpenly'
  BY DEF CapturedOpenly, captureParts

LEMMA MeshKept == MeshInv /\ UNCHANGED meshParts => MeshInv'
  BY DEF MeshInv, meshParts

LEMMA PresenterKept == PresenterInv /\ UNCHANGED presenterParts => PresenterInv'
  BY DEF PresenterInv, WillClear, presenterParts
-----------------------------------------------------------------------------
\* Types.

LEMMA TaskTypes ==
    ASSUME NEW ts \in Seq(Task)
    PROVE  /\ \A c \in Control : Append(ts, Broadcast(c)) \in Seq(Task)
           /\ \A i \in DOMAIN ts : RemoveAt(ts, i) \in Seq(Task)
           /\ \A i \in DOMAIN ts, qs \in SUBSET Peers :
                 [ts EXCEPT ![i] = [ts[i] EXCEPT !.listed = TRUE, !.to = qs]] \in Seq(Task)
<1>1. ASSUME NEW c \in Control
      PROVE  Append(ts, Broadcast(c)) \in Seq(Task)
  BY DEF Broadcast, Task
<1>2. ASSUME NEW i \in DOMAIN ts
      PROVE  RemoveAt(ts, i) \in Seq(Task)
  <2>1. SubSeq(ts, 1, i - 1) \in Seq(Task) /\ SubSeq(ts, i + 1, Len(ts)) \in Seq(Task)
    OBVIOUS
  <2> QED
    BY <2>1, ConcatProperties DEF RemoveAt
<1>3. ASSUME NEW i \in DOMAIN ts, NEW qs \in SUBSET Peers
      PROVE  [ts EXCEPT ![i] = [ts[i] EXCEPT !.listed = TRUE, !.to = qs]] \in Seq(Task)
  <2>1. ts[i] \in Task
    OBVIOUS
  <2>2. [ts[i] EXCEPT !.listed = TRUE, !.to = qs] \in Task
    BY <2>1 DEF Task
  <2> QED
    BY <2>2, ExceptSeq
<1> QED
  BY <1>1, <1>2, <1>3

LEMMA CaptureSet ==
    ASSUME MediaTypeOK, NEW p \in Peers, NEW t \in Toggles,
           NEW s \in {"none", "resolving", "looping"}
    PROVE  [captures EXCEPT ![p][t] = s]
               \in [Peers -> [Toggles -> {"none", "resolving", "looping"}]]
<1>1. captures \in [Peers -> [Toggles -> {"none", "resolving", "looping"}]]
  BY DEF MediaTypeOK
<1>2. [captures[p] EXCEPT ![t] = s] \in [Toggles -> {"none", "resolving", "looping"}]
  BY <1>1
<1>3. [captures EXCEPT ![p] = [captures[p] EXCEPT ![t] = s]]
          \in [Peers -> [Toggles -> {"none", "resolving", "looping"}]]
  BY <1>1, <1>2
<1> QED
  BY <1>3

LEMMA CloseTypes ==
    ASSUME MediaTypeOK, NEW p \in Peers, NEW qs \in SUBSET Peers, Close(p, qs)
    PROVE  channels' \in [Peers -> SUBSET Peers] /\ wire' \in [Peers \X Peers -> Seq(Control)]
<1>1. channels' \in [Peers -> SUBSET Peers]
  BY DEF MediaTypeOK, Close
<1>2. \A pq \in Peers \X Peers : wire[pq] \in Seq(Control) /\ <<>> \in Seq(Control)
  BY DEF MediaTypeOK
<1>3. wire' \in [Peers \X Peers -> Seq(Control)]
  BY <1>2 DEF Close
<1> QED
  BY <1>1, <1>3

LEMMA ShowTypes ==
    ASSUME MediaTypeOK, NEW m \in Machines, NEW c \in Control, NEW p \in Peers,
           ShowControl(m, c, p)
    PROVE  presenter' \in [Machines -> Peers \cup {NoPeer}]
  BY DEF MediaTypeOK, ShowControl

LEMMA StageTypes ==
    ASSUME MediaTypeOK, NEW m \in Machines
    PROVE  AfterTaking(m) \in
               [Peers -> {"idle", "starting", "gone"} \cup Waiting \cup Leaving]
  BY DEF MediaTypeOK, AfterTaking, Leaving

LEMMA RemainingTypes ==
    ASSUME MediaTypeOK, NEW p \in Peers, NEW i \in DOMAIN tasks[p],
           NEW qs \in SUBSET Peers, Remaining(p, i, qs)
    PROVE  tasks' \in [Peers -> Seq(Task)]
<1>1. tasks[p] \in Seq(Task) /\ tasks \in [Peers -> Seq(Task)]
  BY DEF MediaTypeOK
<1> DEFINE rest == [tasks[p][i] EXCEPT !.listed = TRUE, !.to = qs]
           rests == IF qs = {} THEN RemoveAt(tasks[p], i)
                    ELSE [tasks[p] EXCEPT ![i] = rest]
<1>2. rests \in Seq(Task)
  BY <1>1, TaskTypes
<1>3. tasks' = [tasks EXCEPT ![p] = rests]
  BY DEF Remaining
<1> HIDE DEF rests
<1> QED
  BY <1>1, <1>2, <1>3

LEMMA CommandTypes ==
    ASSUME MediaTypeOK, NEW p \in Peers,
           \/ EnterMeeting(p) \/ EnterConnected(p) \/ EnterFails(p) \/ Admit(p)
           \/ LeaveCapture(p) \/ LeaveAudio(p) \/ LeaveMesh(p)
    PROVE  MediaTypeOK'
<1> USE MachineOfIsFunction
<1>1. MachineOf[p] \in Machines
  OBVIOUS
<1>2. CASE EnterMeeting(p)
  <2>1. AfterTaking(MachineOf[p]) \in
            [Peers -> {"idle", "starting", "gone"} \cup Waiting \cup Leaving]
    BY <1>1, StageTypes
  <2> QED
    BY <1>1, <1>2, <2>1 DEF EnterMeeting, TakeMeeting, MediaTypeOK, captureVars,
       meshVars, mediaCounters
<1>3. CASE EnterConnected(p)
  BY <1>1, <1>3 DEF EnterConnected, StreamOf, Waiting, MediaTypeOK, meshVars, mediaCounters
<1>4. CASE EnterFails(p)
  BY <1>4 DEF EnterFails, MediaTypeOK, captureVars, meshVars, mediaCounters
<1>5. CASE Admit(p)
  BY <1>1, <1>5 DEF Admit, Waiting, MediaTypeOK, captureVars, mediaCounters
<1>6. CASE LeaveCapture(p)
  BY <1>6 DEF LeaveCapture, Leaving, MediaTypeOK, meshVars, mediaCounters
<1>7. CASE LeaveAudio(p)
  BY <1>7 DEF LeaveAudio, StopEngine, Leaving, MediaTypeOK, meshVars, mediaCounters
<1>8. CASE LeaveMesh(p)
  <2>1. channels' \in [Peers -> SUBSET Peers] /\ wire' \in [Peers \X Peers -> Seq(Control)]
    BY <1>8, CloseTypes DEF LeaveMesh
  <2> QED
    BY <1>1, <1>8, <2>1 DEF LeaveMesh, MediaTypeOK, captureVars, mediaCounters
<1> QED
  BY <1>2, <1>3, <1>4, <1>5, <1>6, <1>7, <1>8

LEMMA ThreadTypes ==
    ASSUME MediaTypeOK, NEW p \in Peers,
           \/ MicEnds(p) \/ SpeakerEnds(p) \/ ToggleShare(p)
           \/ \E t \in Toggles : CaptureThread(p, t)
    PROVE  MediaTypeOK'
<1>1. MachineOf[p] \in Machines
  BY MachineOfIsFunction
<1>2. CASE MicEnds(p)
  BY <1>2 DEF MicEnds, MediaTypeOK, commandVars, meshVars, mediaCounters
<1>3. CASE SpeakerEnds(p)
  BY <1>3 DEF SpeakerEnds, MediaTypeOK, commandVars, meshVars, mediaCounters
<1>4. CASE ToggleShare(p)
  <2>1. PICK c \in Control : Toggle(p, c)
    BY <1>4 DEF ToggleShare
  <2>2. toggles + 1 \in Toggles /\ toggles' \in 0..MaxToggles
    BY <2>1, BoundsAreNatural DEF Toggle, Toggles, MediaTypeOK
  <2>3. sharing' \in [Peers -> BOOLEAN] /\ capturing' \in [Peers -> BOOLEAN]
    BY <2>1 DEF Toggle, StartCapture, StopCapture, MediaTypeOK
  <2>4. captures' \in [Peers -> [Toggles -> {"none", "resolving", "looping"}]]
    <3>1. [captures EXCEPT ![p][toggles + 1] = "resolving"]
              \in [Peers -> [Toggles -> {"none", "resolving", "looping"}]]
      BY <2>2, CaptureSet
    <3>2. captures' = captures \/ captures' = [captures EXCEPT ![p][toggles + 1] = "resolving"]
      BY <2>1 DEF Toggle, StartCapture, StopCapture
    <3> QED
      BY <3>1, <3>2 DEF MediaTypeOK
  <2>5. tasks' \in [Peers -> Seq(Task)]
    <3>1. tasks[p] \in Seq(Task) /\ tasks \in [Peers -> Seq(Task)]
      BY DEF MediaTypeOK
    <3>2. Append(tasks[p], Broadcast(c)) \in Seq(Task)
      BY <3>1, TaskTypes
    <3> QED
      BY <2>1, <3>1, <3>2 DEF Toggle
  <2>6. presenter' \in [Machines -> Peers \cup {NoPeer}]
    BY <1>1, <2>1, ShowTypes DEF Toggle
  <2> QED
    BY <2>1, <2>2, <2>3, <2>4, <2>5, <2>6 DEF Toggle, MediaTypeOK, commandVars
<1>5. ASSUME NEW t \in Toggles, CaptureThread(p, t)
      PROVE  MediaTypeOK'
  <2>1. captures' \in [Peers -> [Toggles -> {"none", "resolving", "looping"}]]
    <3>1. \E s \in {"none", "resolving", "looping"} :
              captures' = [captures EXCEPT ![p][t] = s]
      BY <1>5 DEF CaptureThread, CaptureResolves, CaptureEnds
    <3> QED
      BY <3>1, CaptureSet
  <2>2. capturing' \in [Peers -> BOOLEAN]
    BY <1>5 DEF CaptureThread, CaptureResolves, CaptureEnds, MediaTypeOK
  <2> QED
    BY <1>5, <2>1, <2>2 DEF CaptureThread, CaptureResolves, CaptureEnds, MediaTypeOK,
       commandVars, meshVars, mediaCounters
<1> QED
  BY <1>2, <1>3, <1>4, <1>5

LEMMA MeshTypes ==
    ASSUME MediaTypeOK, NEW p \in Peers, NEW q \in Peers,
           \/ TaskLists(p) \/ TaskSends(p) \/ SessionEnds(p)
           \/ ControlArrives(p, q) \/ OpenChannels(p, q) \/ HearLeft(q, p)
    PROVE  MediaTypeOK'
<1>1. MachineOf[q] \in Machines
  BY MachineOfIsFunction
<1>2. CASE TaskLists(p)
  <2>1. PICK i \in DOMAIN tasks[p] : Remaining(p, i, channels[p])
    BY <1>2 DEF TaskLists
  <2>2. tasks' \in [Peers -> Seq(Task)]
    BY <2>1, RemainingTypes DEF MediaTypeOK
  <2> QED
    BY <1>2, <2>2 DEF TaskLists, MediaTypeOK, commandVars, captureVars, mediaCounters
<1>3. CASE TaskSends(p)
  <2>0. PICK i \in DOMAIN tasks[p] : \E x \in tasks[p][i].to :
            /\ Remaining(p, i, tasks[p][i].to \ {x})
            /\ wire' = IF x \in channels[p]
                       THEN [wire EXCEPT ![<<p, x>>] = Append(@, tasks[p][i].control)]
                       ELSE wire
    BY <1>3 DEF TaskSends
  <2>1. PICK x \in tasks[p][i].to :
            /\ Remaining(p, i, tasks[p][i].to \ {x})
            /\ wire' = IF x \in channels[p]
                       THEN [wire EXCEPT ![<<p, x>>] = Append(@, tasks[p][i].control)]
                       ELSE wire
    BY <2>0
  <2>2. tasks[p] \in Seq(Task)
    BY DEF MediaTypeOK
  <2>3. tasks[p][i] \in Task
    BY <2>2
  <2>4. tasks[p][i].control \in Control /\ tasks[p][i].to \in SUBSET Peers
    BY <2>3 DEF Task
  <2>5. tasks' \in [Peers -> Seq(Task)]
    BY <2>1, <2>4, RemainingTypes
  <2>6. wire' \in [Peers \X Peers -> Seq(Control)]
    <3> DEFINE c == tasks[p][i].control
    <3>1. c \in Control
      BY <2>4
    <3> HIDE DEF c
    <3>2. x \in Peers /\ wire \in [Peers \X Peers -> Seq(Control)]
      BY <2>4 DEF MediaTypeOK
    <3>3. wire[<<p, x>>] \in Seq(Control)
      BY <3>2
    <3>4. Append(wire[<<p, x>>], c) \in Seq(Control)
      BY <3>1, <3>3
    <3>5. wire' = IF x \in channels[p]
                  THEN [wire EXCEPT ![<<p, x>>] = Append(@, c)] ELSE wire
      BY <2>1 DEF c
    <3> QED
      BY <3>2, <3>4, <3>5
  <2> QED
    BY <1>3, <2>5, <2>6 DEF TaskSends, MediaTypeOK, commandVars, captureVars, mediaCounters
<1>4. CASE SessionEnds(p)
  BY <1>4 DEF SessionEnds, MediaTypeOK, commandVars, captureVars, mediaCounters
<1>5. CASE ControlArrives(p, q)
  <2>1. wire[<<p, q>>] \in Seq(Control) /\ wire[<<p, q>>] # <<>>
    BY <1>5 DEF ControlArrives, MediaTypeOK
  <2>2. Head(wire[<<p, q>>]) \in Control /\ Tail(wire[<<p, q>>]) \in Seq(Control)
    BY <2>1
  <2>3. presenter' \in [Machines -> Peers \cup {NoPeer}]
    BY <1>1, <1>5, <2>2, ShowTypes DEF ControlArrives
  <2> QED
    BY <1>5, <2>2, <2>3 DEF ControlArrives, MediaTypeOK, commandVars, captureVars, mediaCounters
<1>6. CASE OpenChannels(p, q)
  BY <1>6 DEF OpenChannels, MediaTypeOK, commandVars, captureVars, mediaCounters
<1>7. CASE HearLeft(q, p)
  <2>1. channels' \in [Peers -> SUBSET Peers] /\ wire' \in [Peers \X Peers -> Seq(Control)]
    BY <1>7, CloseTypes DEF HearLeft
  <2> QED
    BY <1>1, <1>7, <2>1 DEF HearLeft, ClearPresenter, MediaTypeOK, commandVars,
       captureVars, mediaCounters
<1> QED
  BY <1>2, <1>3, <1>4, <1>5, <1>6, <1>7

LEMMA LeaveNowTypes ==
    ASSUME MediaTypeOK, NEW m \in Machines, LeaveMeetingNow(m)
    PROVE  MediaTypeOK'
<1>1. stage' \in [Peers -> {"idle", "starting", "gone"} \cup Waiting \cup Leaving]
  BY StageTypes DEF LeaveMeetingNow
<1>2. exits' \in 0..MaxExits
  BY BoundsAreNatural DEF LeaveMeetingNow, MediaTypeOK
<1> QED
  BY <1>1, <1>2 DEF LeaveMeetingNow, TakeMeeting, MediaTypeOK, captureVars, meshVars

LEMMA MediaTypesKept ==
    ASSUME MediaTypeOK, MediaNext
    PROVE  MediaTypeOK'
  BY CommandTypes, ThreadTypes, MeshTypes, LeaveNowTypes
  DEF MediaNext, Release
-----------------------------------------------------------------------------
\* The slot.

LEMMA SlotKeptByAll ==
    ASSUME MediaTypeOK, SlotInv, MediaNext
    PROVE  SlotInv'
<1> USE Distinct, MachineOfIsFunction
<1>1. ASSUME NEW p \in Peers, EnterMeeting(p)
      PROVE  SlotInv'
  <2>1. \A n \in Machines : slot'[n] # NoPeer =>
            n # MachineOf[p] /\ slot'[n] = slot[n] /\ slot[n] \in Peers
    BY <1>1 DEF EnterMeeting, TakeMeeting, MediaTypeOK
  <2>2. \A q \in Peers : q # p /\ q # slot[MachineOf[p]] => stage'[q] = stage[q]
    BY <1>1 DEF EnterMeeting, AfterTaking, MediaTypeOK
  <2>3. MachineOf[p] \in Machines /\ stage[p] \notin Waiting
    BY <1>1 DEF EnterMeeting
  <2>4. ASSUME NEW n \in Machines, slot'[n] # NoPeer
        PROVE  MachineOf[slot'[n]] = n /\ stage'[slot'[n]] \in Waiting
    <3>1. slot'[n] = slot[n] /\ slot[n] \in Peers /\ n # MachineOf[p]
      BY <2>1, <2>4
    <3>2. MachineOf[slot[n]] = n /\ stage[slot[n]] \in Waiting
      BY <2>4, <3>1 DEF SlotInv
    <3>3. slot[n] # p /\ slot[n] # slot[MachineOf[p]]
      BY <2>3, <3>1, <3>2 DEF SlotInv
    <3> QED
      BY <2>2, <3>1, <3>2, <3>3
  <2> QED
    BY <2>4 DEF SlotInv
<1>2. ASSUME NEW p \in Peers, EnterConnected(p)
      PROVE  SlotInv'
  BY <1>2 DEF EnterConnected, SlotInv, MediaTypeOK
<1>3. ASSUME NEW p \in Peers, EnterFails(p)
      PROVE  SlotInv'
  BY <1>3 DEF EnterFails, SlotInv, MediaTypeOK
<1>4. ASSUME NEW p \in Peers, Release(p)
      PROVE  SlotInv'
  <2>1. stage[p] \in Leaving /\ slot' = slot
    BY <1>4 DEF Release, LeaveCapture, LeaveAudio, LeaveMesh
  <2>2. \A q \in Peers : q # p => stage'[q] = stage[q]
    BY <1>4 DEF Release, LeaveCapture, LeaveAudio, LeaveMesh, MediaTypeOK
  <2>3. \A m \in Machines : slot[m] # p /\ slot[m] \in Peers \cup {NoPeer}
    BY <2>1 DEF SlotInv, MediaTypeOK
  <2> QED
    BY <2>1, <2>2, <2>3 DEF SlotInv
<1>5. ASSUME NEW p \in Peers, Admit(p)
      PROVE  SlotInv'
  BY <1>5 DEF Admit, SlotInv, MediaTypeOK
<1>6. ASSUME NEW m \in Machines, LeaveMeetingNow(m)
      PROVE  SlotInv'
  BY <1>6 DEF LeaveMeetingNow, TakeMeeting, AfterTaking, SlotInv, MediaTypeOK
<1>7. ASSUME NEW p \in Peers,
             \/ MicEnds(p) \/ SpeakerEnds(p) \/ ToggleShare(p)
             \/ \E t \in Toggles : CaptureThread(p, t)
      PROVE  SlotInv'
  BY <1>7, SlotKept DEF MicEnds, SpeakerEnds, ToggleShare, Toggle, CaptureThread,
     CaptureResolves, CaptureEnds, commandVars, slotParts
<1>8. ASSUME NEW p \in Peers, NEW q \in Peers,
             \/ TaskLists(p) \/ TaskSends(p) \/ SessionEnds(p)
             \/ ControlArrives(p, q) \/ OpenChannels(p, q) \/ HearLeft(p, q)
      PROVE  SlotInv'
  BY <1>8, SlotKept DEF TaskLists, TaskSends, SessionEnds, ControlArrives,
     OpenChannels, HearLeft, commandVars, slotParts
<1> QED
  BY <1>1, <1>2, <1>3, <1>4, <1>5, <1>6, <1>7, <1>8 DEF MediaNext
-----------------------------------------------------------------------------
\* What is captured.

LEMMA CapturedKeptByAll ==
    ASSUME MediaTypeOK, SlotInv, CapturedOpenly, MediaNext
    PROVE  CapturedOpenly'
<1> USE Distinct, MachineOfIsFunction
<1>1. ASSUME NEW p \in Peers, EnterMeeting(p)
      PROVE  CapturedOpenly'
  BY <1>1 DEF EnterMeeting, AfterTaking, CapturedOpenly, MediaTypeOK, captureVars
<1>2. ASSUME NEW p \in Peers, EnterConnected(p)
      PROVE  CapturedOpenly'
  BY <1>2 DEF EnterConnected, CapturedOpenly, MediaTypeOK
<1>3. ASSUME NEW p \in Peers, EnterFails(p)
      PROVE  CapturedOpenly'
  BY <1>3 DEF EnterFails, CapturedOpenly, MediaTypeOK, captureVars
<1>4. ASSUME NEW p \in Peers, LeaveCapture(p)
      PROVE  CapturedOpenly'
  BY <1>4 DEF LeaveCapture, CapturedOpenly, MediaTypeOK
<1>5. ASSUME NEW p \in Peers, LeaveAudio(p) \/ LeaveMesh(p)
      PROVE  CapturedOpenly'
  <2>1. ~capturing[p]
    BY <1>5 DEF LeaveAudio, LeaveMesh, CapturedOpenly, Waiting
  <2>2. capturing' = capturing /\ sharing' = sharing
    BY <1>5 DEF LeaveAudio, LeaveMesh, captureVars
  <2>3. \A q \in Peers : q # p => stage'[q] = stage[q]
    BY <1>5 DEF LeaveAudio, LeaveMesh, MediaTypeOK
  <2> QED
    BY <2>1, <2>2, <2>3 DEF CapturedOpenly
<1>6. ASSUME NEW p \in Peers, Admit(p)
      PROVE  CapturedOpenly'
  BY <1>6 DEF Admit, CapturedOpenly, MediaTypeOK, captureVars
<1>7. ASSUME NEW m \in Machines, LeaveMeetingNow(m)
      PROVE  CapturedOpenly'
  BY <1>7 DEF LeaveMeetingNow, AfterTaking, CapturedOpenly, MediaTypeOK, captureVars
<1>8. ASSUME NEW p \in Peers, ToggleShare(p)
      PROVE  CapturedOpenly'
  <2>1. PICK c \in Control : Toggle(p, c)
    BY <1>8 DEF ToggleShare
  <2>2. stage[p] \in Waiting
    BY <1>8 DEF ToggleShare, SlotInv
  <2>3. stage' = stage
    BY <2>1 DEF Toggle, commandVars
  <2>4. sharing'[p] = ~sharing[p] /\ \A q \in Peers \ {p} : sharing'[q] = sharing[q]
    BY <2>1 DEF Toggle, MediaTypeOK
  <2>5. capturing'[p] = ~sharing[p] /\ \A q \in Peers \ {p} : capturing'[q] = capturing[q]
    BY <2>1, ZenonT(60) DEF Toggle, StartCapture, StopCapture, MediaTypeOK
  <2> QED
    BY <2>2, <2>3, <2>4, <2>5 DEF CapturedOpenly
<1>9. ASSUME NEW p \in Peers, NEW t \in Toggles, CaptureThread(p, t)
      PROVE  CapturedOpenly'
  BY <1>9, ZenonT(60) DEF CaptureThread, CaptureResolves, CaptureEnds, CapturedOpenly, MediaTypeOK,
     commandVars
<1>10. ASSUME NEW p \in Peers, MicEnds(p) \/ SpeakerEnds(p)
       PROVE  CapturedOpenly'
  BY <1>10, CapturedKept DEF MicEnds, SpeakerEnds, commandVars, captureParts
<1>11. ASSUME NEW p \in Peers, NEW q \in Peers,
              \/ TaskLists(p) \/ TaskSends(p) \/ SessionEnds(p)
              \/ ControlArrives(p, q) \/ OpenChannels(p, q) \/ HearLeft(p, q)
       PROVE  CapturedOpenly'
  BY <1>11, CapturedKept DEF TaskLists, TaskSends, SessionEnds, ControlArrives,
     OpenChannels, HearLeft, commandVars, captureVars, captureParts
<1> QED
  BY <1>1, <1>2, <1>3, <1>4, <1>5, <1>6, <1>7, <1>8, <1>9, <1>10, <1>11
  DEF MediaNext, Release
-----------------------------------------------------------------------------
\* The mesh.

\* What Close does to a mesh whose channels have two ends.
LEMMA CloseKeepsMesh ==
    ASSUME MediaTypeOK, MeshInv, NEW p \in Peers, NEW qs \in SUBSET Peers, Close(p, qs)
    PROVE  /\ \A x, y \in Peers : y \in channels'[x] =>
                /\ x \in channels'[y] /\ y \in channels[x]
                /\ ~(x = p /\ y \in qs) /\ ~(y = p /\ x \in qs)
           /\ \A x, y \in Peers : wire'[<<x, y>>] # <<>> => y \in channels'[x]
<1>1. \A x, y \in Peers :
          y \in channels'[x] <=> y \in channels[x] /\ <<x, y>> \notin Between(p, qs)
  BY DEF Close
<1>2. \A x, y \in Peers :
          <<x, y>> \in Between(p, qs) <=> (x = p /\ y \in qs) \/ (y = p /\ x \in qs)
  BY DEF Between
<1>3. \A x, y \in Peers : wire'[<<x, y>>] # <<>> =>
          wire[<<x, y>>] # <<>> /\ <<x, y>> \notin Between(p, qs)
  BY DEF Close
<1> QED
  BY <1>1, <1>2, <1>3 DEF MeshInv

\* Steps that leave the mesh alone, and change nobody's stage in a way it minds.
LEMMA MeshKeptByStages ==
    ASSUME MeshInv, UNCHANGED <<inside, departed, channels, wire>>,
           \A q \in Peers : stage'[q] # stage[q] =>
               /\ stage'[q] # "in"
               /\ stage[q] \in Leaving \cup {"in"} => stage'[q] \in Leaving
    PROVE  MeshInv'
  BY DEF MeshInv

LEMMA MeshKeptByAll ==
    ASSUME MediaTypeOK, SlotInv, MeshInv, MediaNext
    PROVE  MeshInv'
<1> USE Distinct, MachineOfIsFunction
<1>1. ASSUME NEW p \in Peers, EnterMeeting(p)
      PROVE  MeshInv'
  <2>1. stage[p] = "idle" /\ stage'[p] = "starting"
    BY <1>1 DEF EnterMeeting, AfterTaking, MediaTypeOK
  <2>2. \A q \in Peers : q # p => stage'[q] = stage[q] \/ stage'[q] = "capture"
    BY <1>1 DEF EnterMeeting, AfterTaking, MediaTypeOK
  <2> QED
    BY <1>1, <2>1, <2>2, MeshKeptByStages DEF EnterMeeting, meshVars, Leaving
<1>2. ASSUME NEW p \in Peers, EnterConnected(p) \/ EnterFails(p)
      PROVE  MeshInv'
  <2>1. stage[p] = "starting" /\ stage'[p] \in {"waiting", "gone"}
    BY <1>2 DEF EnterConnected, EnterFails, MediaTypeOK
  <2>2. \A q \in Peers : q # p => stage'[q] = stage[q]
    BY <1>2 DEF EnterConnected, EnterFails, MediaTypeOK
  <2> QED
    BY <1>2, <2>1, <2>2, MeshKeptByStages DEF EnterConnected, EnterFails, meshVars, Leaving
<1>3. ASSUME NEW p \in Peers, LeaveCapture(p) \/ LeaveAudio(p)
      PROVE  MeshInv'
  <2>1. stage[p] \in Leaving /\ stage'[p] \in Leaving /\ stage'[p] # "in"
    BY <1>3 DEF LeaveCapture, LeaveAudio, MediaTypeOK, Leaving
  <2>2. \A q \in Peers : q # p => stage'[q] = stage[q]
    BY <1>3 DEF LeaveCapture, LeaveAudio, MediaTypeOK
  <2> QED
    BY <1>3, <2>1, <2>2, MeshKeptByStages DEF LeaveCapture, LeaveAudio, meshVars
<1>4. ASSUME NEW m \in Machines, LeaveMeetingNow(m)
      PROVE  MeshInv'
  <2>1. \A q \in Peers : stage'[q] = stage[q] \/ stage'[q] = "capture"
    BY <1>4 DEF LeaveMeetingNow, AfterTaking, MediaTypeOK
  <2> QED
    BY <1>4, <2>1, MeshKeptByStages DEF LeaveMeetingNow, meshVars, Leaving
<1>5. ASSUME NEW p \in Peers, LeaveMesh(p)
      PROVE  MeshInv'
  <2>1. \A q \in Peers : q # p => stage'[q] = stage[q]
    BY <1>5 DEF LeaveMesh, MediaTypeOK
  <2>2. stage'[p] = "gone"
    BY <1>5 DEF LeaveMesh, MediaTypeOK
  <2>3. inside' = inside /\ departed' = departed
    BY <1>5 DEF LeaveMesh
  <2>4. Close(p, Peers)
    BY <1>5 DEF LeaveMesh
  <2>5. \A x, y \in Peers : y \in channels'[x] =>
            x \in channels'[y] /\ y \in channels[x] /\ x # p /\ y # p
    BY <2>4, CloseKeepsMesh
  <2>6. \A x, y \in Peers : wire'[<<x, y>>] # <<>> => y \in channels'[x]
    BY <2>4, CloseKeepsMesh
  <2> QED
    BY <2>1, <2>2, <2>3, <2>5, <2>6 DEF MeshInv
<1>6. ASSUME NEW p \in Peers, Admit(p)
      PROVE  MeshInv'
  <2>1. stage[p] = "waiting" /\ stage'[p] = "in" /\ inside' = inside \cup {p}
    BY <1>6 DEF Admit, MediaTypeOK
  <2>2. \A q \in Peers : q # p => stage'[q] = stage[q]
    BY <1>6 DEF Admit, MediaTypeOK
  <2>3. departed' = departed /\ channels' = channels /\ wire' = wire
    BY <1>6 DEF Admit
  <2>4. \A x \in Peers : p \notin channels[x]
    BY <2>1 DEF MeshInv, Leaving
  <2> QED
    BY <2>1, <2>2, <2>3, <2>4 DEF MeshInv
<1>7. ASSUME NEW p \in Peers, NEW q \in Peers, OpenChannels(p, q)
      PROVE  MeshInv'
  <2>1. stage' = stage /\ inside' = inside /\ departed' = departed /\ wire' = wire
    BY <1>7 DEF OpenChannels, commandVars
  <2>2. {p, q} \subseteq inside /\ stage[p] = "in" /\ stage[q] = "in"
    BY <1>7 DEF OpenChannels
  <2>3. \A x \in Peers : channels'[x] = channels[x] \cup (IF x = p THEN {q} ELSE {})
                                                     \cup (IF x = q THEN {p} ELSE {})
    BY <1>7 DEF OpenChannels, MediaTypeOK
  <2>4. \A x, y \in Peers : y \in channels'[x] <=>
            y \in channels[x] \/ (x = p /\ y = q) \/ (x = q /\ y = p)
    BY <2>3
  <2> QED
    BY <2>1, <2>2, <2>4 DEF MeshInv
<1>8. ASSUME NEW p \in Peers, SessionEnds(p)
      PROVE  MeshInv'
  <2>1. stage' = stage /\ channels' = channels /\ wire' = wire
    BY <1>8 DEF SessionEnds, commandVars
  <2>2. inside' = inside \ {p} /\ stage[p] # "in"
    BY <1>8 DEF SessionEnds
  <2>3. \A q \in Peers : departed'[q] = IF q \in inside \ {p}
                                        THEN departed[q] \cup {p} ELSE departed[q]
    BY <1>8 DEF SessionEnds
  <2>4. \A q \in Peers : stage[q] = "in" => q \in inside \ {p}
    BY <2>2 DEF MeshInv
  <2> QED
    BY <2>1, <2>2, <2>3, <2>4, ZenonT(60) DEF MeshInv
<1>9. ASSUME NEW p \in Peers, NEW q \in Peers, HearLeft(q, p)
      PROVE  MeshInv'
  <2>1. stage' = stage /\ inside' = inside /\ Close(q, {p})
    BY <1>9 DEF HearLeft, commandVars
  <2>2. \A x \in Peers : departed'[x] = IF x = q THEN departed[x] \ {p} ELSE departed[x]
    BY <1>9 DEF HearLeft, MediaTypeOK
  <2>3. \A x, y \in Peers : y \in channels'[x] =>
            /\ x \in channels'[y] /\ y \in channels[x]
            /\ ~(x = q /\ y = p) /\ ~(y = q /\ x = p)
    BY <2>1, CloseKeepsMesh
  <2>4. \A x, y \in Peers : wire'[<<x, y>>] # <<>> => y \in channels'[x]
    BY <2>1, CloseKeepsMesh
  <2> QED
    BY <2>1, <2>2, <2>3, <2>4 DEF MeshInv
<1>10. ASSUME NEW p \in Peers, TaskSends(p)
       PROVE  MeshInv'
  <2>1. UNCHANGED <<stage, inside, departed, channels>>
    BY <1>10 DEF TaskSends, commandVars
  <2>2. PICK i \in DOMAIN tasks[p] : \E x \in tasks[p][i].to :
            wire' = IF x \in channels[p]
                    THEN [wire EXCEPT ![<<p, x>>] = Append(@, tasks[p][i].control)]
                    ELSE wire
    BY <1>10 DEF TaskSends
  <2>3. PICK x \in tasks[p][i].to :
            wire' = IF x \in channels[p]
                    THEN [wire EXCEPT ![<<p, x>>] = Append(@, tasks[p][i].control)]
                    ELSE wire
    BY <2>2
  <2> DEFINE longer == Append(wire[<<p, x>>], tasks[p][i].control)
  <2>4. wire' = IF x \in channels[p] THEN [wire EXCEPT ![<<p, x>>] = longer] ELSE wire
    BY <2>3
  <2> HIDE DEF longer
  <2>5. \A y, z \in Peers : wire'[<<y, z>>] # <<>> =>
            wire[<<y, z>>] # <<>> \/ (y = p /\ z = x /\ x \in channels[p])
    BY <2>4 DEF MediaTypeOK
  <2> QED
    BY <2>1, <2>5 DEF MeshInv
<1>11. ASSUME NEW p \in Peers, NEW q \in Peers, ControlArrives(p, q)
       PROVE  MeshInv'
  <2>1. UNCHANGED <<stage, inside, departed, channels>>
    BY <1>11 DEF ControlArrives, commandVars
  <2> DEFINE rest == Tail(wire[<<p, q>>])
  <2>2. wire' = [wire EXCEPT ![<<p, q>>] = rest] /\ wire[<<p, q>>] # <<>>
    BY <1>11 DEF ControlArrives
  <2> HIDE DEF rest
  <2>3. \A y, z \in Peers : wire'[<<y, z>>] # <<>> => wire[<<y, z>>] # <<>>
    BY <2>2 DEF MediaTypeOK
  <2> QED
    BY <2>1, <2>3 DEF MeshInv
<1>12. ASSUME NEW p \in Peers,
              \/ MicEnds(p) \/ SpeakerEnds(p) \/ ToggleShare(p) \/ TaskLists(p)
              \/ \E t \in Toggles : CaptureThread(p, t)
       PROVE  MeshInv'
  BY <1>12, MeshKept DEF MicEnds, SpeakerEnds, ToggleShare, Toggle, TaskLists,
     CaptureThread, CaptureResolves, CaptureEnds, commandVars, meshVars, meshParts
<1> QED
  BY <1>1, <1>2, <1>3, <1>4, <1>5, <1>6, <1>7, <1>8, <1>9, <1>10, <1>11, <1>12
  DEF MediaNext, Release
-----------------------------------------------------------------------------
\* The presenter.

LEMMA PresenterKeptByStages ==
    ASSUME PresenterInv, UNCHANGED <<departed, presenter>>, inside \subseteq inside',
           \A q \in Peers :
               stage'[q] # stage[q] /\ stage[q] \in Leaving \cup {"in"}
                   => stage'[q] \in Leaving
    PROVE  PresenterInv'
  BY DEF PresenterInv, WillClear

LEMMA PresenterKeptByAll ==
    ASSUME MediaTypeOK, SlotInv, MeshInv, PresenterInv, MediaNext
    PROVE  PresenterInv'
<1> USE Distinct, MachineOfIsFunction
<1>1. ASSUME NEW p \in Peers, EnterMeeting(p)
      PROVE  PresenterInv'
  <2>1. stage[p] = "idle"
    BY <1>1 DEF EnterMeeting
  <2>2. \A q \in Peers : q # p => stage'[q] = stage[q] \/ stage'[q] = "capture"
    BY <1>1 DEF EnterMeeting, AfterTaking, MediaTypeOK
  <2>3. UNCHANGED <<inside, departed, presenter>>
    BY <1>1 DEF EnterMeeting, meshVars
  <2> QED
    BY <2>1, <2>2, <2>3, PresenterKeptByStages DEF Leaving
<1>2. ASSUME NEW p \in Peers, EnterConnected(p) \/ EnterFails(p)
      PROVE  PresenterInv'
  <2>1. stage[p] = "starting"
    BY <1>2 DEF EnterConnected, EnterFails
  <2>2. \A q \in Peers : q # p => stage'[q] = stage[q]
    BY <1>2 DEF EnterConnected, EnterFails, MediaTypeOK
  <2>3. UNCHANGED <<inside, departed, presenter>>
    BY <1>2 DEF EnterConnected, EnterFails, meshVars
  <2> QED
    BY <2>1, <2>2, <2>3, PresenterKeptByStages DEF Leaving
<1>3. ASSUME NEW p \in Peers, LeaveCapture(p) \/ LeaveAudio(p)
      PROVE  PresenterInv'
  <2>1. stage'[p] \in Leaving
    BY <1>3 DEF LeaveCapture, LeaveAudio, MediaTypeOK, Leaving
  <2>2. \A q \in Peers : q # p => stage'[q] = stage[q]
    BY <1>3 DEF LeaveCapture, LeaveAudio, MediaTypeOK
  <2>3. UNCHANGED <<inside, departed, presenter>>
    BY <1>3 DEF LeaveCapture, LeaveAudio, meshVars
  <2> QED
    BY <2>1, <2>2, <2>3, PresenterKeptByStages
<1>4. ASSUME NEW m \in Machines, LeaveMeetingNow(m)
      PROVE  PresenterInv'
  <2>1. \A q \in Peers : stage'[q] = stage[q] \/ stage'[q] = "capture"
    BY <1>4 DEF LeaveMeetingNow, AfterTaking, MediaTypeOK
  <2>2. UNCHANGED <<inside, departed, presenter>>
    BY <1>4 DEF LeaveMeetingNow, meshVars
  <2> QED
    BY <2>1, <2>2, PresenterKeptByStages DEF Leaving
<1>5. ASSUME NEW p \in Peers, LeaveMesh(p) \/ Admit(p)
      PROVE  PresenterInv'
  <2>1. presenter' = [presenter EXCEPT ![MachineOf[p]] = NoPeer]
    BY <1>5 DEF LeaveMesh, Admit
  <2>2. \A q \in Peers : q # p => stage'[q] = stage[q]
    BY <1>5 DEF LeaveMesh, Admit, MediaTypeOK
  <2>3. departed' = departed /\ inside \subseteq inside'
    BY <1>5 DEF LeaveMesh, Admit
  <2>4. ASSUME NEW n \in Machines, presenter'[n] # NoPeer, MachineOf[presenter'[n]] # n
        PROVE  WillClear(n, presenter[n])'
    <3>1. n # MachineOf[p] /\ presenter'[n] = presenter[n]
      BY <2>1, <2>4 DEF MediaTypeOK
    <3>2. PICK q \in Peers :
              /\ MachineOf[q] = n
              /\ \/ stage[q] \in Leaving
                 \/ stage[q] = "in" /\ (presenter[n] \in inside \/ presenter[n] \in departed[q])
      BY <2>4, <3>1 DEF PresenterInv, WillClear
    <3>3. stage'[q] = stage[q]
      BY <2>2, <3>1, <3>2
    <3> QED
      BY <2>3, <3>1, <3>2, <3>3 DEF WillClear
  <2> QED
    BY <2>4 DEF PresenterInv
<1>6. ASSUME NEW p \in Peers, SessionEnds(p)
      PROVE  PresenterInv'
  <2>1. stage' = stage /\ presenter' = presenter
    BY <1>6 DEF SessionEnds, commandVars
  <2>2. inside' = inside \ {p} /\ stage[p] # "in"
    BY <1>6 DEF SessionEnds
  <2>3. \A q \in Peers : departed'[q] = IF q \in inside \ {p}
                                        THEN departed[q] \cup {p} ELSE departed[q]
    BY <1>6 DEF SessionEnds
  <2>4. \A q \in Peers : stage[q] = "in" => q \in inside \ {p}
    BY <2>2 DEF MeshInv
  <2>5. ASSUME NEW n \in Machines, presenter'[n] # NoPeer, MachineOf[presenter'[n]] # n
        PROVE  WillClear(n, presenter[n])'
    <3>1. PICK q \in Peers :
              /\ MachineOf[q] = n
              /\ \/ stage[q] \in Leaving
                 \/ stage[q] = "in" /\ (presenter[n] \in inside \/ presenter[n] \in departed[q])
      BY <2>1, <2>5 DEF PresenterInv, WillClear
    <3>2. stage[q] = "in" => presenter[n] \in inside' \/ presenter[n] \in departed'[q]
      BY <2>2, <2>3, <2>4, <3>1
    <3> QED
      BY <2>1, <3>1, <3>2 DEF WillClear
  <2> QED
    BY <2>5 DEF PresenterInv
<1>7. ASSUME NEW p \in Peers, NEW q \in Peers, HearLeft(q, p)
      PROVE  PresenterInv'
  <2>1. stage' = stage /\ inside' = inside
    BY <1>7 DEF HearLeft, commandVars
  <2>2. \A x \in Peers : departed'[x] = IF x = q THEN departed[x] \ {p} ELSE departed[x]
    BY <1>7 DEF HearLeft, MediaTypeOK
  <2>3. \A n \in Machines :
            presenter'[n] = IF n = MachineOf[q] /\ presenter[n] = p THEN NoPeer
                            ELSE presenter[n]
    BY <1>7 DEF HearLeft, ClearPresenter, MediaTypeOK
  <2>4. ASSUME NEW n \in Machines, presenter'[n] # NoPeer, MachineOf[presenter'[n]] # n
        PROVE  WillClear(n, presenter[n])'
    <3>1. presenter'[n] = presenter[n] /\ (n = MachineOf[q] => presenter[n] # p)
      BY <2>3, <2>4
    <3>2. PICK x \in Peers :
              /\ MachineOf[x] = n
              /\ \/ stage[x] \in Leaving
                 \/ stage[x] = "in" /\ (presenter[n] \in inside \/ presenter[n] \in departed[x])
      BY <2>4, <3>1 DEF PresenterInv, WillClear
    <3>3. presenter[n] \in departed[x] => presenter[n] \in departed'[x]
      BY <2>2, <3>1, <3>2
    <3> QED
      BY <2>1, <3>1, <3>2, <3>3 DEF WillClear
  <2> QED
    BY <2>4 DEF PresenterInv
<1>8. ASSUME NEW p \in Peers, ToggleShare(p)
      PROVE  PresenterInv'
  <2>1. PICK c \in Control : Toggle(p, c)
    BY <1>8 DEF ToggleShare
  <2>2. UNCHANGED <<stage, inside, departed>>
    BY <2>1 DEF Toggle, commandVars
  <2>3. \A n \in Machines : \/ presenter'[n] = presenter[n] \/ presenter'[n] = NoPeer
                            \/ presenter'[n] = p /\ n = MachineOf[p]
    BY <2>1 DEF Toggle, ShowControl, MediaTypeOK
  <2> QED
    BY <2>2, <2>3 DEF PresenterInv, WillClear
<1>9. ASSUME NEW p \in Peers, NEW q \in Peers, ControlArrives(p, q)
      PROVE  PresenterInv'
  <2>1. UNCHANGED <<stage, inside, departed>>
    BY <1>9 DEF ControlArrives, commandVars
  <2>2. \A n \in Machines : \/ presenter'[n] = presenter[n] \/ presenter'[n] = NoPeer
                            \/ presenter'[n] = p /\ n = MachineOf[q]
    BY <1>9 DEF ControlArrives, ShowControl, MediaTypeOK
  <2>3. q \in channels[p]
    BY <1>9 DEF ControlArrives, MeshInv
  <2>4. /\ stage[q] \in Leaving \cup {"in"}
        /\ stage[q] = "in" => p \in inside \/ p \in departed[q]
    BY <2>3 DEF MeshInv
  <2>5. WillClear(MachineOf[q], p)
    BY <2>4 DEF WillClear
  <2> QED
    BY <2>1, <2>2, <2>5 DEF PresenterInv, WillClear
<1>10. ASSUME NEW p \in Peers, NEW q \in Peers,
              \/ MicEnds(p) \/ SpeakerEnds(p) \/ TaskLists(p) \/ TaskSends(p)
              \/ OpenChannels(p, q) \/ \E t \in Toggles : CaptureThread(p, t)
       PROVE  PresenterInv'
  BY <1>10, PresenterKept DEF MicEnds, SpeakerEnds, TaskLists, TaskSends, OpenChannels,
     CaptureThread, CaptureResolves, CaptureEnds, commandVars, meshVars, presenterParts
<1> QED
  BY <1>1, <1>2, <1>3, <1>4, <1>5, <1>6, <1>7, <1>8, <1>9, <1>10
  DEF MediaNext, Release
-----------------------------------------------------------------------------
\* The invariant and what it gives.

\* A meeting's media, with its room and its pages, stay in their invariant.
THEOREM MediaInvariance == MediaSpec => []MediaInv
<1>1. MediaInit => MediaInv
  <2> SUFFICES ASSUME MediaInit PROVE MediaInv
    OBVIOUS
  <2>1. MediaTypeOK
    BY BoundsAreNatural DEF MediaInit, MediaTypeOK, NoCaptures
  <2>2. SlotInv /\ CapturedOpenly /\ PresenterInv
    BY DEF MediaInit, SlotInv, CapturedOpenly, PresenterInv
  <2>3. MeshInv
    BY DEF MediaInit, MeshInv
  <2> QED
    BY <2>1, <2>2, <2>3 DEF MediaInv
<1>2. MediaInv /\ [MediaNext]_mediaVars => MediaInv'
  <2> SUFFICES ASSUME MediaInv, [MediaNext]_mediaVars PROVE MediaInv'
    OBVIOUS
  <2>1. CASE MediaNext
    BY <2>1, MediaTypesKept, SlotKeptByAll, CapturedKeptByAll, MeshKeptByAll,
       PresenterKeptByAll DEF MediaInv
  <2>2. CASE UNCHANGED mediaVars
    <3>1. MediaTypeOK'
      BY <2>2 DEF MediaInv, MediaTypeOK, mediaVars, commandVars, captureVars, meshVars,
         mediaCounters
    <3>2. UNCHANGED <<slotParts, captureParts, meshParts, presenterParts>>
      BY <2>2 DEF mediaVars, commandVars, captureVars, meshVars, slotParts, captureParts,
         meshParts, presenterParts
    <3> QED
      BY <3>1, <3>2, SlotKept, CapturedKept, MeshKept, PresenterKept DEF MediaInv
  <2> QED
    BY <2>1, <2>2
<1> QED
  BY <1>1, <1>2, PTL DEF MediaSpec

\* The variables of a meeting's media keep their types.
THEOREM MediaTypeCorrect == MediaSpec => []MediaTypeOK
<1>1. MediaInv => MediaTypeOK
  BY DEF MediaInv
<1> QED
  BY <1>1, MediaInvariance, PTL

\* The screen is captured only for a meeting that is there and whose user shares
\* it, whatever the number of peers, machines and toggles (commands.rs:654).
THEOREM NothingCapturedUnseen == MediaSpec => []CapturedOpenly
<1>1. MediaInv => CapturedOpenly
  BY DEF MediaInv
<1> QED
  BY <1>1, MediaInvariance, PTL

\* No page shows a presenter of whose departure it has heard (meeting.ts:830).
THEOREM PresentersThere == MediaSpec => []PresenterIsHere
<1>1. MediaInv => PresenterIsHere
  BY DEF MediaInv, PresenterInv, WillClear, PresenterIsHere
<1> QED
  BY <1>1, MediaInvariance, PTL
=============================================================================
