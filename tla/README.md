# Verification of forest-chat

TLA+ models of the forest-chat server, its clients and its LAN meetings, their
TLC configurations, and TLAPS proofs.

## The system

forest-chat is a chat server in Rust (actix-web, a Turso/SQLite database), a
web client in TypeScript, and a Tauri desktop application that embeds both and
adds LAN meetings (a signaling server, WebRTC between peers).

| component | state it keeps | operations | interacts with |
| --- | --- | --- | --- |
| chat session task (`src/session.rs`) | locals of one async task per WebSocket | connect, greet, one arm per `ClientMsg`, heartbeat, disconnect | calls hub and store, writes to its socket directly and through its outbox |
| hub (`src/hub.rs`) | `users`: name to outbox; `rooms`: room to online members; one mutex | connect, disconnect, join, leave, send_to_* | every session; does not know the database |
| store (`src/db.rs`) | tables rooms, room_members, room_requests, users, messages, files | one method per question or change; no transactions but the writer's | sessions (awaited statements), writer thread (queue) |
| web client (`web/src/socket.ts`, `state.ts`) | users online, joined, pending and managed groups, timelines | one handler per `ServerMsg` | one socket; retries every 2 s |
| message log (`src/db.rs` writer) | unbounded queue, batches of 512 | save_message, history | read by History while writes are queued |
| accounts (`src/lib.rs`, `views/auth.ts`) | one token per user | register, login (rotates the token), verify | a session starts with a verified token |
| attachments (`src/files.rs`) | a file and its row | upload, download | messages refer to the row |
| meeting rooms (`lan_meeting/rooms.rs`) | per room host, peers, pending | join, approve, reject, route, leave | one RwLock, used by all signaling sessions |
| signaling session (`lan_meeting/signaling.rs`) | `joined_peer`, a queue | one arm per `SignalingMessage`, cleanup | sends after the lock is released |
| desktop meeting (`lan_meeting/commands.rs`) | active meeting, participants, advertised room | create, join, leave, respond; a handler task per meeting | signaling client, WebRTC mesh, discovery |
| WebRTC mesh (`lan_meeting/webrtc_session.rs`) | connections of one meeting by peer | offers, answers, candidates; broadcasts on the data channels | signaling, audio, the meeting view |
| audio (`lan_meeting/audio.rs`) | threads of microphone and speaker, the playback queue | start, stop, push, the device's callbacks | the commands, the mesh's audio channels |
| screen capture (`lan_meeting/screen_capture.rs`) | one flag for all capture threads of a meeting | start, stop, the thread's loop | the commands, the mesh's screen channels |
| discovery (`lan_meeting/discovery.rs`) | the advertised room, the responder's flag | answer a probe, scan | the commands, the local network |
| views, composer, desktop shell | what is on the screen | rendering | the state above |

What is hard to get right: session tasks interleave at every `await` and at
every use of the hub's lock; a check (member, admin, name free) is made one or
more awaits before the change it allows; the statements of one method can fail
one by one; answers written straight to a socket overtake frames queued for it;
presence and statuses are read, then sent. In a meeting, frames about joins and
leaves of different peers are sent after the room's lock is released, so they
cross each other; leaving is announced twice; the host may go while guests wait.
Commands of two windows overlap, threads share one flag, and control messages travel
another way than the departures they race.
The list `hazards` in `PROJECT.json` names each of them at its line.

What makes the parts correct:

- hub: its tables are the live sessions, and its rooms hold members only;
- groups: who gets in was let in by an admin; roles are never lost; one creator;
- sessions: group messages and pending requests reach only those who may see
  them; what a client shows is true now, and complete when nothing is in flight;
- meetings: a room is never over capacity; whoever is in was first or was let in
  by the host; who left is gone everywhere; nobody waits for ever;
- media: nothing is captured but for a meeting that is there and by the user's wish; what was
  started ends; what arrives is heard in order; a scan lists what is open.

## The chat server

Modules, bottom up:

- **ChatNames**: the constants `Names`, `Rooms`, `General` (the strings that
  `valid_name` and `valid_room` let through).
- **Hub**: the hub's two tables and the outboxes; one operator per critical
  section of `hub.rs`.
- **Membership**: the three group tables; one operator per SQL statement of
  `db.rs`, because a method's statements are awaited one by one and share no
  transaction.
- **ClientView**: the frames a client gets and, as one function, what its
  handlers do to the state the sidebar shows. `heard` and `managed` remember of
  which groups a client was shown messages or pending requests.
- **ChatServer**: composes them. A session is a program counter `pc`, the locals
  `task` of the handler it is in, the `user` it is logged in as and the `client`
  at the other end. Each action is the code between two points where another
  task can run: an await of the store, an acquisition of the hub's lock. `Ask`
  is the select loop taking the next client message; `Accept` to `Unregister`
  are `run`; the other actions are the arms of `handle`, split at their awaits.
  `UpdateStatuses` and `SendStatus` are the loop that sends rooms updates, which
  reads members and requests in two statements.
- **Groups**: what the memberships promise, with no sessions, statements or failures: a group
  has its founder as creator, only admins let others in and promote them, one at a time, and
  nobody is thrown out or loses an admin's rights. `ChatServer` implements it (`GroupsKept`) with
  `rank` read as the table `room_members`.
- **ChatServerProofs**: the theorems. **MCChatServer**: TLC's instances.

Abstractions. A refused request only writes an Error frame to its own socket and
has no action. Message texts, times and attachments are left out: a message
frame is its room and sender. A direct message is its two ends. A session ends
at any point where the select loop or a write to the socket may break
(`Drop`), which covers closing, heartbeat timeouts and write errors. A client
that reconnects is a new session. A crash loses every session, the hub and the
outboxes and keeps the tables. The server starts on one of the databases in `Boots`, which an
instance gives as records of the three tables; each is one the server itself has left behind.
A request that `approve_join` deletes before its INSERT fails is gone, and a `rooms` update may
arrive after a newer one: both are in the model, and no property excludes them, since the
memberships stay lawful and no text of the repository promises more.

Fairness: none. No property of the chat server is a liveness property: clients
may stop reading and sessions may block on the database for as long as they like,
and what must hold "in the end" (presence) is stated of the states in
which everything was delivered.

| run | instance | what it shows |
| --- | --- | --- |
| `chat_groups` | two users, one session each, started on an empty database, on a group that one of them founded, or on one that has let the other in while a second request of theirs was open | creates, requests, looks at the details, approvals, rejections and promotions cross: memberships implement `Groups`; whoever lets in or promotes is an admin of that group when the row is written (`AdminsGrantRoles`); a group has one creator; those who see who asks are admins; no client shows a group as joined that is not |
| `chat_routing` | an existing group with one member and one outsider, one failing statement, one crash | the hub's tables follow the sessions and the memberships; messages and typing of a group reach members only, in whatever order joins, approvals and sends interleave |
| `chat_orphan` | one user, one failing statement | *violated*: `create_room` inserts the group and its creator in two statements without a transaction, so a group can stay without an admin |
| `chat_presence` | two sessions that only connect and end | *violated*: two presence broadcasts of lists read earlier can be delivered in the opposite order |

Two users and one group are enough for every race of the
handlers: each handler names at most one other user and one group, and the
races are between two sessions of which one changes what the other has checked.
The passing runs leave General out, which everybody is in and nobody can create, ask for or
leave for good. The bounds on requests, faults and crashes are constants of the module
(`MaxAsked`, `MaxFaults`, `MaxCrashes`), named in each configuration; outboxes are bounded by
them. Where a violation needs three actors the run has three.

Proved (`ChatServerProofs`), for any names, groups and sessions: the inductive
invariant is `IndInv`: types; `TaskOK`, what each program counter says of the
locals of its handler (the row an action is about to change was asked for, the
admin it acts for is one); `ClientOK`, that every frame written or queued was true
of the database when it was made and, because memberships and admin rights only
grow, still is; and the two invariants of the hub. It is needed because a session acts on
what it read one or more awaits ago: the invariants of the hub are not
inductive without knowing that a session at "about to join" belongs to a member.
`CreationInv` adds that a group without members is being created by one session
only. From them follow the types, both hub invariants, who messages and requests
are shown to, what clients show, that admins stay, that every change of a role is made by a session whose user may make it
(`AdmissionSound`) and that a group has one creator. `GroupsImplemented` puts the last ones together: under the refinement every action is a step of `Groups`
or a stutter. Groups knows of no sessions: an approval or a promotion there needs a group that has
an admin, and whose session it was is said by `AdmissionSound`. For both, the tasks say more than the checks they made: a `promote_update` is only reached on behalf
of an admin, and an UPDATE of a row that is not there is a stutter (`OneRow`, `GroupStep`). TLC checks the
same refinement on the two users without failing statements; the theorem has failures and crashes too.

## LAN meetings

Modules:

- **MeetingRooms**: `RoomManager`. One operator per method, because every method
  takes the lock once and does not await under it.
- **Meeting**: composes the rooms with the signaling sessions, the connections,
  the desktop client's commands and signaling handler, and the part of the web
  view that the events change.
- **MeetingDoor**: what the meetings promise of who is in them, with no sessions, connections, frames or
  clients: a room's host is the one who opened it as long as anybody is inside; the host alone lets others in or turns them
  away, and does so from inside; the last one out closes the door on those who wait; who is gone
  stays gone. `Meeting` implements it (`RoomsAreKept`), with the `Place` of a peer read off the rooms and its session.
- **MeetingProofs**: the theorems. **MCMeeting**: TLC's instances.

A *peer* is one meeting of one machine, since a client draws a new peer id for
each; `MachineOf` says whose meeting it is. A room is named by the peer that
created it, for a code is drawn by the creating client. The actions:

| action | code |
| --- | --- |
| `JoinRoom` | the `JoinRoom` arm of `run_server_session`: `join_peer` under the lock, then the sends it decides on |
| `SendNext` | one `send_to_peer` of a loop over recipients; others run between two |
| `JoinDecision` | the `JoinDecision` arm: `is_host`, `approve_peer` or `reject_peer` |
| `LeaveRoom`, `Timeout`, `Cleanup` | the `LeaveRoom` arm, the end of the loop by error or heartbeat, the code after the loop |
| `CreateMeeting`, `JoinMeeting`, `Connected` | the commands up to their await of the connection, and what follows it |
| `LeaveMeeting`, `AnswerKnock` | `do_leave_meeting`; `respond_to_join` through the active meeting |
| `HandleFrame` | one turn of the task `spawn_signaling_handler` starts, with the events it emits to the view |
| `LoseConnection` | the connection stops working; the server finds out by an error or the heartbeat |

`sends` holds what a session has decided under the lock and not yet sent: this is
where arrivals and departures cross each other.

Abstractions. Error frames, `JoinPending` and the waiting dialog are left out:
they open a notice. The order of the knock queue is left out, a verdict may be
given on any guest in it. `is_host` and `approve_peer` are two critical sections
and one action: what `is_host` answers can only be changed by the very session
that asks. What is still unread when a loop ends is an arbitrary prefix of what
was queued (`EndLoop`). The handler that turns a participant's name into a row of
the list, offers, answers, candidates and media are not in the module. The server
runs on its own machine and does not crash in the model: with it every room is
gone.

Fairness (`FairSpec`, used by the liveness properties only): a session with
something to do, its heartbeat's tick included, does it; so does a handler task
with a frame to handle; a connection attempt comes to an end. The code justifies each: they
are tasks of a runtime that wait on channels and timers alone, and the client's connect has an
outcome. Nothing is assumed of users or of the network.

| run | instance | what it shows |
| --- | --- | --- |
| `meeting_safety` | a host and two guests on their own machines, room for three, one departure, one lost connection | who is in a room or at its door has a live session that asked for it; the rooms implement `MeetingDoor`; nobody enters without the host's word; whoever is turned away is out; whoever is inside is known to the others or about to be, however the frames cross |
| `meeting_progress` | a host that later knocks at its own room from a second meeting, a guest, room for two | the capacity is kept though guests are counted at the door and admitted later; sessions of those who left or were lost end; whoever is inside gets to know everybody who is |
| `meeting_count` | a guest lost while it is admitted | *violated*: its `PeerLeft` overtakes its `PeerJoined`; the host counts it for ever. Each machine has one meeting here: a handler that outlives its meeting and counts into the next is not exercised |

The two passing runs also hold instances of the modules of the next section, whose state and actions
are separate: in **MCLanSafety** and **MCLanProgress** a variable `part`, chosen once, says which module takes
steps while the others stay in their initial states. One run then explores each of them by itself, as
separate runs would. No action under fairness is enabled in a part that rests, so that fairness asks nothing of it.

Three peers are the fewest in which the frames about two of them can cross on
their way to the third; a room for three lets all be inside, a room for two makes
the bound bite. One departure and one loss let each happen in every state; a
second of either meets a room whose state one already produced. Guests are
interchangeable, so the safety runs use symmetry; the liveness run does not.

Proved (`MeetingProofs`), for any finite set of peers, machines, capacity and
number of departures and losses. `IndInv` consists of the types; `Located` (a
meeting that has a session has a room, and one without a connection has no
session); `RoomsFollowSessions`, `NobodyWaitsAtAnEmptyRoom`, `RoomWithinCapacity`; and
`HostsAreInside`: the host of a room asked for that room, and is in it while its session
is open. `HostsAreInside` is what makes the others inductive: a newcomer must not be the host
of a room already (`Admitted` would let it in over the heads of those at the door), and a
verdict must come from somebody inside. The theorems: types, the three
invariants, and the action property `AdmittedByHost`. `NobodyWaitsAtAnEmptyRoom` is in no run by itself: it is a
part of the invariant that the refinement below needs. The capacity needs that a room and its door are
disjoint, for `Full` adds their sizes.

Two more are about what the clients hear, and rest on `MailInv` (`MailInvariance`), an invariant about the frames
that wait in notices, queues and inboxes. Whatever is still on its way is true: who is rejected, or announced to
have left, is gone and does not come back, and a welcome that lists others reaches only the guest that it lets in. A
client that is inside knows itself; a session that has not joined has nothing to send; and everybody in a room is,
for each other client in it, known already or in a frame on its way there (`EverybodyIsHeardOf`). When nothing is
on its way, the last part is `NobodyIsMissing` (`NobodyMissed`); the first gives `RejectedStayOut` (`RejectionsHold`).

That Meeting implements MeetingDoor (`MeetingImplemented`) is proved step by step. `PlaceTable` follows from `IndInv`
(`PlacesAreListed`): a place depends on the rooms, and for those in none on how far their session is. `DoorInv` adds that a meeting has
no room before its command and an empty room no host, so that the cleanup of somebody who has left already finds nothing to
take away. Then one lemma per action says which step of MeetingDoor it is: a `JoinRoom` opens, knocks or gives up; a
verdict answers a guest who still waits, and is a stutter if the guest has gone; `LeaveRoom` and `Cleanup` are a departure, or
a stutter the second time; a command chooses a room; the rest moves nobody.

## What a meeting captures, plays and finds

Modules:

- **LanPeers**: the peers and their machines, shared with Meeting. **MCPeers**: those of the instances.
- **MeetingMedia**: the meeting of a machine from its commands to its threads: `active_meeting`, the
  audio engine's and the capture's threads, the control messages of the mesh, and the presenter the page shows.
- **Playback**: the queue of incoming samples between the audio channels and the output stream.
  **LossyStream**: what a listener may count on; Playback implements it (`HeardInOrder`).
- **Discovery**: the advertised room, the responder and its port, scans and their datagrams.
- **MeetingMediaProofs**, **PlaybackProofs**, **DiscoveryProofs**: the theorems.
  **MCMedia**, **MCLanSafety**, **MCLanProgress**, **MCMeshDiscovery**: TLC's instances.

| action | code |
| --- | --- |
| `EnterMeeting`, `EnterConnected`, `EnterFails` | `create_lan_meeting` and `join_lan_meeting`: up to the await of a connection, and what follows it, with `start_input`, `start_output` and the assignment of `active_meeting` |
| `LeaveMeetingNow`, `LeaveCapture`, `LeaveAudio`, `LeaveMesh` | `leave_lan_meeting`, and `do_leave_meeting` step by step; entering runs it first |
| `ToggleShare` | `toggle_meeting_screen_share`, all of it under the lock of `active_meeting` |
| `CaptureResolves`, `CaptureEnds` | the capture thread: its monitor or window found or gone, and the loop's look at the flag |
| `MicEnds`, `SpeakerEnds` | an audio thread that was told to stop drops its stream |
| `TaskLists`, `TaskSends`, `ControlArrives` | the task that runs `broadcast_control`, channel by channel; `on_message` of the chat channel and the page's handlers of sharing |
| `Admit`, `OpenChannels`, `SessionEnds`, `HearLeft` | the room and the mesh, reduced to who is inside, whose channels are open and whose `PeerLeft` is on its way |
| `PushIncomingAudio`, `FillBuffer`, `StartOutput`, `StopOutput`, `OutputEnds` | `push_incoming_audio`, the output stream's callback, `start_output`, `stop`, the end of the thread |
| `CreateRoom`, `CreateReturns`, `CloseRoom`, `EnterRoom` | what the commands do to `advertised` and to the responder, with the await of the host's own connection |
| `Answer`, `StartScan`, `Receive`, `EndScan` | the responder's loop; `discover_lan_meetings` and `scan` |
| `PortChanges` | another process takes the discovery port or gives it back |

Abstractions. Frames and samples have no state of their own in MeetingMedia: a thread that loops is one that
captures. A sample is the number of its arrival in Playback. A control message is its kind; its sender is the peer whose channel it is on,
for a client broadcasts of itself only. Capture threads are told apart by the toggle that started
them, as the loop does not: they share the flag. A datagram stays on the wire
when it is read, so that it may be read again or never. A host creates one meeting at a time, so the test of
the responder's flag, the bind and the reset of the flag are one step (`StartResponder`). Replies carry the room; the count in them is the subject of
Meeting. Whether a device opens is fixed for a machine (`Microphones`, `Speakers`) in MeetingMedia and
open in Playback. In Playback a message is no longer than what is cut (`CutIsInRange`): 12000 samples
are a quarter of a second, and a device's buffer some hundredths of it.

Fairness (`MediaFairness`, for `LeavingReleasesMedia` and `SharingStops`): of what goes on by itself in the
process of a machine for one meeting (`Work`) something happens in the end: a command that is leaving goes on, a capture
thread looks at its flag, an audio thread gets its signal. The code's steps wait for no user and no peer; each is
a step that can be taken a bounded number of times before another must be, so it is enough
that some step of them is taken. Nothing is assumed of users, who may toggle
and never stop, or of the network.

| run | instance | what it shows |
| --- | --- | --- |
| `meeting_safety` | two peers that share, three toggles, one departure | nothing is captured but for a meeting that is there and whose user shares; no page shows a presenter of whose departure it has heard |
| `meeting_progress` | one machine with both devices, three toggles, one departure; a queue of three samples cut by two, messages and buffers of up to two, eight samples | whoever leaves stops what it captures and plays; sharing that was stopped ends in every thread; the queue stays short and implements `LossyStream` |
| `media_overlap` | a machine whose user enters two meetings, then leaves | *violated*: the commands overlap, the second overwrites the first meeting, and its microphone stays on |
| `mesh_offers` | two machines, two meetings, two scans of one of them, the port taken once | a scan lists a room once, and none that was closed before the scan began, whatever replies are late; a host that found the port free at its last creation answers |

Three toggles are a start, a stop and a start again, which is what revives a thread. Two scans let the replies to
one reach the machine during the other; two meetings let a host close a room and open another between them. Eight samples
fill the queue over its bound twice.

Proved (`MeetingMediaProofs`), for any peers, machines, devices and bounds: types, `CapturedOpenly` and
`PresenterIsHere`, from `MediaInv`. A capture is open because of the slot: a meeting found there has not begun to
leave (`SlotInv`), and a toggle holds the lock. A presenter is there because of the mesh (`MeshInv`): a channel to a peer that is
in the meeting is from one who is in the room, or whose departure it is still to hear, and the departure closes the channel with what is on it; so a
control message never comes too late. `PresenterInv` says of every page that it has a meeting that can still
clear it. (`PlaybackProofs`): the bound of the queue (`QueueStaysShort`), and that Playback
implements `LossyStream` (`StreamImplemented`), from `NewestWait`: the queue is the last samples in order, so its length says
which was given up last. (`DiscoveryProofs`): types, `RoomsListedOnce`, `ListedWasOpen` and `HostsAnswer`. A probe
answered names a room advertised since the scan began, for the probe carries the scan's own port; the
responder is there exactly if its flag is up, which keeps the port its own.

## Message log

Modules:

- **DurableLog**: what the store promises of one chat, as a specification of two
  variables, what was said and the log: the log only grows, holds what was said,
  nothing twice, and each sender's messages in the order in which they were said.
  A message may be missing.
- **MessageLog**: the two ways of a message, through the hub to open pages and
  through the writer's queue into the store, with uploads, pages that ask for
  history and reconnect, failed statements and crashes.
- **MessageLogProofs**: the theorems. **MCMessageLog**: TLC's instances.

| action | code |
| --- | --- |
| `Say`, `Enqueue` | the `Send` arm: route through the hub; then `save_message`, after another await |
| `Take` | `recv_many` in `writer_loop`, at most `BatchSize` at once |
| `Commit`, `FailBatch` | `write_batch` as one transaction; or its failure, the `ROLLBACK` after it, which may fail too, and the batch dropped |
| `BeginUpload`, `WriteFile`, `RecordFile`, `FailUpload` | `upload`: file created, bytes written, row inserted; or cleaned up |
| `Connect`, `Forward`, `Serve` | a viewer's session: greeting, outbox, and the arms `Join` and `History` |
| `OpenChat`, `HandleFrame` | `openChat` and the handlers of `socket.ts` on one chat's timeline |
| `LoseConnection`, `Crash` | the socket closes; the server stops and is started again |

Abstractions. One chat, because the writer and the index treat all alike; every user is
a member of it. Those who send are not looked at as viewers. A message is its sender, its
how manieth and its file: no two have sender, text and millisecond in common, which
is what the client's merge compares. `History` answers from one state: the session
handles nothing else between its query and its reply. Rows of a transaction become visible
together. After a failed `ROLLBACK` the transaction stays open (`inTxn`), so the next `BEGIN`
fails and that batch is dropped too. Typing and unread counters are left out.

Fairness (`FairSpec`, for `SaidIsSaved`): a session that has routed a message goes on
to queue it, and the writer's loop goes on. Neither waits for anybody. Nothing is assumed of pages.

| run | instance | what it shows |
| --- | --- | --- |
| `log_durable` | a sender with an upload and two messages, one page, batches of two, answers of one message, two failures | the store implements `DurableLog`; stored and shown messages name complete files; what was said is stored unless its transaction fails or the server stops; a page never forgets what it showed |

Two messages make a batch of two, two batches of one, and an order to get wrong. A
history of one message is shorter than the log, so answers cut off. Two failures let a
`ROLLBACK` fail and take the next batch along, or a crash follow a lost connection.

Proved (`MessageLogProofs`), for any users, viewers, batch and history sizes and
any number of failures, from an invariant of three parts, `FullInv` (`PagesSound`):

- `IndInv`, the pipeline: the stages of the way to the store, log, batch and queue, are each in order, each
  ahead of the next, and all ahead of what a session still holds; the messages in them were said, and
  refer to recorded files. That the log alone is in order is not inductive: a commit
  appends the batch, so the batch must be ahead of the queue long before. It gives `StoreIsDurable` (the store
  implements `DurableLog`) and `StoredAttachmentsResolve`.
- `AccountInv`, where the messages are: each that was said is in a hand, the queue, the batch, the log or
  `lost`, with one file, and no lost one is anywhere else. With the order of the pipeline, which keeps the stages apart, it gives
  `EveryMessageIsSomewhere`: a message is in exactly one place, so none disappears but by a failed
  transaction or a crash. `lost` is a history variable; no run states this theorem's invariant, but its parts were
  checked by TLC on the instance of `log_durable` before they were proved.
- `PageInv`, the sessions and pages: what they hold has its type, and frames and timelines carry only
  known messages. It gives the rest of the types (`TypesStay`), the files of what pages show
  (`ShownAttachmentsResolve`) and `NothingShownIsLost` (`PagesForgetNothing`).

The last rests on `MergeMembers`: a merge shows the answer and all that was shown. `Live` is a recursive
function over the positions of a timeline of any length; that its equation has a solution, and what it holds at each position, is
proved by induction, taken as "a set of numbers that holds 0 and with each number the next is `Nat`"
(`CountingUp`, from the library's theorem that a set of numbers has a least one).

## The WebRTC mesh

Modules: **Mesh**, its theorems in **MeshProofs**, TLC's instances in **MCMesh**.

Whoever is inside a room is told of a newcomer and offers it a connection; the newcomer answers.
The client's signaling handler gives every frame but `PeerLeft` to a task of its own, so frames that
came in one order are handled in any. An end of a connection is named by its peer, the other
peer and its role; `table` is the map `peers` of `WebRtcMeshSession`, which holds one end per other peer, and
`pc` the state of the descriptions of each end, kept or not.

| action | code |
| --- | --- |
| `Enter`, `SendNotice` | a newcomer in the room, and the sends of `PeerJoined` and `PeerLeft`, one by one |
| `LoseConnection`, `HandleLeave` | the end of a session (`EndSession`), which drops what was not read |
| `Leave` | `do_leave_meeting` with `close_all` |
| `HandleFrame` | one turn of `spawn_signaling_handler`: `remove_peer` itself, or a task for the rest |
| `Initiate`, `Describe` | `initiate_peer_connection` up to the table, and the offer |
| `TakeOffer`, `Accept` | `handle_offer` up to the table, and the answer |
| `TakeAnswer`, `TakeCandidate` | `handle_answer`, `handle_ice_candidate` on the end that is kept now |
| `SendCandidate` | the callback `on_ice_candidate` |
| `Fail` | any of the tasks returns an error, which is logged and no more |

Abstractions. Doors and verdicts are the subject of Meeting; here a peer just enters, at most one
arrival being announced at a time, as the host's session does it. An end finds one candidate, and
only those of `Gatherers`, so that an instance may say whose candidates matter. The library's
calls on an end that no other task advances are one action with the send that follows. The
library is external: it refuses a candidate without a remote description, and two ends
that have both descriptions can connect if one has a candidate of the other. Data
channels and what they carry are left out. A session's first meeting with itself is kept: a host is
told of its own arrival and calls itself.

Fairness: none; what must hold in the end is stated of the states in which nothing is in flight.

| run | instance | what it shows |
| --- | --- | --- |
| `mesh_offers` | in MCMeshDiscovery, apart from Discovery: a host that sends candidates, two guests, one of the three leaves or is lost | of two peers one offers and the other answers, though both learn of each other from frames that cross; once nothing is in flight those who are in have exchanged descriptions on the ends they keep |
| `mesh_complete` | a host and a guest, nobody leaves | *violated*: the tasks of the candidates run before the description is set, the candidates are refused, and the two cannot connect |

Three peers let two newcomers cross, one of them while the third goes. A second departure would
leave one peer, of which nothing is asked.

Proved (`MeshProofs`), for any peers, host, candidates and number of endings: the types, and that
nobody's offer meets an offer (`OnlyOneSideOffers`). The inductive invariant is `IndInv`: types; an
end that is kept has been made (`KeptAreMade`); and `CallsGoOneWay`: whatever is on the way between
two peers, a notice, a frame, a task or an end, makes one of them the caller, and never the other.
The property itself is only about ends, and says nothing of the notice from which one will be made.

`EveryPairNegotiates` (`PairsNegotiate`) is about states in which nothing is in flight, and its invariant
`PairInv` (`ExchangesProgress`) about all the others. Of any two peers that are in, one is told of the other, and
from then on their exchange is at one of ten stages (`Stages`), from the notice that is not sent yet to both ends
done. `InStage` says of a stage what there is between the two: which frame is on the way, once; which task
goes on; which ends are kept and how far they are; and nothing else. So a step of one pair takes it to the next
stage, and a step of others leaves it alone. It needs that no call goes the other way (`IndInv`), that
only the gone are said to have left (`LeftAreGone`: the handler drops their end), and that an answer on
the way comes from an end that has been made (`AnswersAreMade`: a newcomer has none to send).

## Accounts

Modules: **Accounts**, its proofs in **AccountsProofs**, TLC's instances in **MCAccounts**.

A name has a password and one token, the last one that a registration or a login wrote; tokens are
numbered by name. A device stores accounts with their tokens and the one to start with; its page
shows the login screen or the application, and has requests and connections under way. A connection has two
ends that notice its end separately.

| action | code |
| --- | --- |
| `FindName`, `InsertUser` | the two statements of `register_user` |
| `CheckPassword`, `UpdateToken` | the two of `authenticate_user` |
| `Verify`, `VerifyLine` | `verify_token`, asked by `api_verify` and by `chat_ws` |
| `FailCall` | a statement fails or an answer is lost; `verify_token` takes the first for an invalid token |
| `HearSubmit`, `HearVerify`, `HearBoot` | what the page does with an answer: the form, a saved account, the start of the page |
| `Submit`, `ClickSaved`, `BackToSaved`, `RemoveSaved`, `Logout`, `Reload` | what users do |
| `EnterHub`, `EndSession` | `session::run` as far as the hub's table of names |
| `Welcome`, `SeeEnd`, `Retry` | `handlers.welcome`, `onclose` and its timer |
| `LoseLine`, `Crash` | the network, the server |

Abstractions. Hashing: a password is equal to what was stored or not. The order of the list of saved
accounts and its limit of ten. Several pages of one device. Chats in general: a session is online or not.
A connection that the page forgets, because `connect` is called again, stays open, as in the code.
A statement that fails in `verify_token` makes it answer no. For `api_verify` that is part of `FailCall`; in
`chat_ws` the connection is refused, as one that is lost is (`LoseLine`), and the same retry answers it, so it
has no branch of its own.

Fairness (`FairSpec`, for `NobodyStaysOffline`): a request gets an answer and the page handles it; both
ends of a connection go on, and notice its end by a close or the heartbeat; the two seconds of a retry
pass. Users need do nothing, and faults need not stop, though the instance bounds them.

| run | instance | what it shows |
| --- | --- | --- |
| `accounts` | one name, two devices, two passwords, nobody registered or one device remembering the account; two acts of the users and one fault | of two registrations that cross one is told yes, and passwords open what they belong to; no two devices have a working token; the account to start with is a saved one, with the token that was saved; a page with a working token comes online again |

Two requests and two connections per device let answers cross and a forgotten connection live beside the
new one. Two acts make every race of two requests, on one device or two; the fault then breaks a request,
a connection or the server at any point. The hub turns away who is online already: the page's own retry
meets that as long as the old session is not yet ended. One name is enough, for no statement reads two rows.

Proved, for any names, passwords, devices, requests, connections, acts and faults, from the assumptions
that nobody is no name, that the accounts of a past state have a token of one device each, and that the
bounds are numbers:

- `AccountTypes`: the types.
- `StartIsSaved`: `ActiveIsSaved`. What is stored changes in three ways only (`StorageSteps`), each of
  which keeps the account to start with among the saved ones.
- `PasswordsOpenTheirs`: `OwnersGetIn`. A row is never overwritten, so what a request found right stays
  right while it waits for its second statement; the one request that writes a row finds none.
- `OneDeviceAtATime`: `OneDeviceHolds`, which is not inductive: a token that works no more is still
  saved, shown or asked about, and nothing but its number keeps it from working again. The invariant
  `TokensIssued` is about every token a device has in any place (`Has`), of now or before: none has a
  higher number than the table, no two devices have the same one, and a name has a token when it has a
  row. Every step but two gives no device a token it had not (`NothingNew`); the two (`Issues`) give
  the next number to one request of one device. That a login only rotates the token of a row that is
  there rests on `OwnersGetIn`.

## What is checked only by TLC

Liveness (`LeaversAreReleased`, `EveryoneIsIntroduced`, `LeavingReleasesMedia`, `SharingStops`, `SaidIsSaved`,
`NobodyStaysOffline`), which is beyond the prover: every safety property of a passing run, invariant, action property or refinement, is a
theorem. The violated properties have no proof, of course; each is a finding in
`PROJECT.json` with the line that disagrees with it.

## Not modelled

Device input and output, the WebRTC stack, rendering, the composer's DOM editing,
window management, mDNS: they are libraries or pure presentation. A session of
ChatServer starts after its token was verified, which Accounts models; the hash of a password is
left out there. `create_room`, `broadcast_except` and `list_peers` of the meeting rooms have no
caller outside the tests. Of a meeting, the mute flag, chat messages, screen frames and
`get_meeting_status` are left out: nothing else reads what they change.

Known of the code and left without a property, because nothing says what it should do: a peer that
comes in while somebody shares, or is muted, is not told so (the frames come all the same); a creation whose connection
fails leaves its room advertised until the next command; a room of one's own whose creation ends during a scan is listed by it;
frames that a task sends late can show the canvas again after the stop. The button of the
small window calls the toggle although "this only stops an active share" (`src/web/src/pip.ts:114`): pressed
when nothing is shared, it starts sharing the first monitor. Toggles in MeetingMedia come from either window and
`CapturedOpenly` holds of both: a share that is started this way is announced like any other.

## Plan

Done, in this order: the chat server (Hub, Membership, ClientView, ChatServer, Groups), the meetings
(MeetingRooms, Meeting, MeetingDoor), the message log (DurableLog, MessageLog), the mesh (Mesh), the accounts
(Accounts), and what a meeting captures, plays and finds (MeetingMedia, Playback, LossyStream, Discovery), each with its runs and
its proofs. What is left:

1. The meeting view: the waiting dialog against the welcome, the list of participants, guests whose
   host has gone; the order of status updates of one user, and runs that show where these go wrong.
2. The composer's draft and its upload callback.
