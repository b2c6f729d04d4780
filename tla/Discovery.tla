----------------------------- MODULE Discovery -----------------------------
(***************************************************************************)
(* How machines find each other's meetings (discovery.rs, and the commands *)
(* that advertise and scan, commands.rs): a host's responder thread answers*)
(* probes with the room the host advertises, and a scan broadcasts one     *)
(* probe from a socket of its own and collects what answers.  Datagrams    *)
(* are lost, late, reordered and duplicated: one stays on the wire when it *)
(* is read, and nobody has to read it.                                     *)
(*                                                                         *)
(* A room is the pair of its host and the number of its creation.          *)
(* The count of participants in a reply is in Meeting.                     *)
(***************************************************************************)
EXTENDS Integers, SequencesExt

CONSTANTS
    Hosts,          \* machines
    MaxScans,       \* scans, each with its socket
    ScannerOf,      \* scan -> the machine it runs on
    NoRoom,
    MaxMeetings,    \* bounds: meetings that are created,
    MaxTakings      \*   times another process takes the discovery port

Rooms == Hosts \X (1..MaxMeetings)
Scans == 1..MaxScans

ASSUME BoundsAreNat ==
    MaxScans \in Nat /\ MaxMeetings \in Nat /\ MaxTakings \in Nat
ASSUME ScannerOfIsFunction == ScannerOf \in [Scans -> Hosts]
ASSUME NoRoomIsNoRoom == NoRoom \notin Rooms

VARIABLES
    \* Hosts.
    created,        \* meetings that were begun so far, of all hosts
    opening,        \* host -> the room whose connection create_lan_meeting awaits
    own,            \* host -> the room of active_meeting
    advert,         \* host -> advertised
    \* Responders.
    portFree,       \* host -> no process but this has the discovery port
    running,        \* host -> discovery_running
    answering,      \* host -> its responder thread is there
    \* Scans and the network.
    scan,           \* scan -> "no", "listening" or "done"
    hidden,         \* scan -> own_room, as read before the scan
    probes,         \* <<scan, host>>: probes in the host's socket
    replies,        \* <<scan, room>>: replies on their way
    found,          \* scan -> the rooms collected
    \* History.
    open,           \* scan -> rooms that were advertised while it listened
    couldBind,      \* host -> its last creation found the port free
    takings

hostVars == <<created, opening, own, advert>>
responderVars == <<portFree, running, answering>>
scanVars == <<scan, hidden, probes, replies, found>>
history == <<open, couldBind, takings>>
discoveryVars == <<hostVars, responderVars, scanVars, history>>

DiscoveryTypeOK ==
    /\ created \in 0..MaxMeetings
    /\ opening \in [Hosts -> Rooms \cup {NoRoom}]
    /\ own \in [Hosts -> Rooms \cup {NoRoom}]
    /\ advert \in [Hosts -> Rooms \cup {NoRoom}]
    /\ portFree \in [Hosts -> BOOLEAN]
    /\ running \in [Hosts -> BOOLEAN]
    /\ answering \in [Hosts -> BOOLEAN]
    /\ scan \in [Scans -> {"no", "listening", "done"}]
    /\ hidden \in [Scans -> Rooms \cup {NoRoom}]
    /\ probes \in SUBSET (Scans \X Hosts)
    /\ replies \in SUBSET (Scans \X Rooms)
    /\ found \in [Scans -> Seq(Rooms)]
    /\ open \in [Scans -> SUBSET Rooms]
    /\ couldBind \in [Hosts -> BOOLEAN]
    /\ takings \in 0..MaxTakings

DiscoveryInit ==
    /\ created = 0
    /\ opening = [h \in Hosts |-> NoRoom]
    /\ own = [h \in Hosts |-> NoRoom]
    /\ advert = [h \in Hosts |-> NoRoom]
    /\ portFree = [h \in Hosts |-> TRUE]
    /\ running = [h \in Hosts |-> FALSE]
    /\ answering = [h \in Hosts |-> FALSE]
    /\ scan = [s \in Scans |-> "no"]
    /\ hidden = [s \in Scans |-> NoRoom]
    /\ probes = {}
    /\ replies = {}
    /\ found = [s \in Scans |-> <<>>]
    /\ open = [s \in Scans |-> {}]
    /\ couldBind = [h \in Hosts |-> FALSE]
    /\ takings = 0
-----------------------------------------------------------------------------
\* Hosts.

\* Faulty variant of StartResponder: a failed bind leaves the flag up.
StartResponderOnce(h) ==
    /\ running' = [running EXCEPT ![h] = TRUE]
    /\ answering' = [answering EXCEPT ![h] = @ \/ (~running[h] /\ portFree[h])]

\* start_responder: the flag goes up, and down again if the port is taken.
StartResponder(h) ==
    /\ running' = [running EXCEPT ![h] = @ \/ portFree[h]]
    /\ answering' = [answering EXCEPT ![h] = @ \/ (~running[h] /\ portFree[h])]

NoteOpen(room) ==
    open' = [s \in Scans |-> IF scan[s] = "listening" THEN open[s] \cup {room}
                             ELSE open[s]]

\* create_lan_meeting: leave, start the responder and advertise the room, then
\* await the connection to the server of one's own.
CreateRoom(h) ==
    /\ created < MaxMeetings /\ opening[h] = NoRoom
    /\ created' = created + 1
    /\ opening' = [opening EXCEPT ![h] = <<h, created'>>]
    /\ own' = [own EXCEPT ![h] = NoRoom]
    /\ advert' = [advert EXCEPT ![h] = <<h, created'>>]
    /\ StartResponder(h)
    /\ NoteOpen(<<h, created'>>)
    /\ couldBind' = [couldBind EXCEPT ![h] = portFree[h] \/ answering[h]]
    /\ UNCHANGED <<portFree, scanVars, takings>>

\* The command returns: with the meeting active, or with an error that leaves
\* the room advertised.
CreateReturns(h) ==
    /\ opening[h] # NoRoom
    /\ opening' = [opening EXCEPT ![h] = NoRoom]
    /\ \/ own' = [own EXCEPT ![h] = opening[h]]
       \/ UNCHANGED own
    /\ UNCHANGED <<created, advert, responderVars, scanVars, history>>

\* do_leave_meeting, of a room that is active or was never opened.
CloseRoom(h) ==
    /\ opening[h] = NoRoom
    /\ own' = [own EXCEPT ![h] = NoRoom]
    /\ advert' = [advert EXCEPT ![h] = NoRoom]
    /\ UNCHANGED <<created, opening, responderVars, scanVars, history>>

\* join_lan_meeting: leave, and be in a room that somebody else advertises.
EnterRoom(h, room) ==
    /\ opening[h] = NoRoom /\ room[1] # h /\ advert[room[1]] = room
    /\ own' = [own EXCEPT ![h] = room]
    /\ advert' = [advert EXCEPT ![h] = NoRoom]
    /\ UNCHANGED <<created, opening, responderVars, scanVars, history>>

\* Another process on the machine takes the port, or gives it back.
PortChanges(h) ==
    /\ ~answering[h]
    /\ \/ portFree[h] /\ takings < MaxTakings /\ takings' = takings + 1
       \/ ~portFree[h] /\ UNCHANGED takings
    /\ portFree' = [portFree EXCEPT ![h] = ~@]
    /\ UNCHANGED <<hostVars, running, answering, scanVars, open, couldBind>>

\* The responder reads a probe.
Answer(s, h) ==
    /\ answering[h] /\ <<s, h>> \in probes
    /\ replies' = IF advert[h] = NoRoom THEN replies ELSE replies \cup {<<s, advert[h]>>}
    /\ UNCHANGED <<hostVars, responderVars, scan, hidden, probes, found, history>>
-----------------------------------------------------------------------------
\* Scans.

\* discover_lan_meetings reads its own room, then scan sends the probe; it
\* is for the machines that have a responder now.  Scans are numbered as they
\* start; a refresh starts one while another listens.
StartScan(s) ==
    /\ scan[s] = "no" /\ \A r \in 1..s-1 : scan[r] # "no"
    /\ scan' = [scan EXCEPT ![s] = "listening"]
    /\ hidden' = [hidden EXCEPT ![s] = own[ScannerOf[s]]]
    /\ probes' = probes \cup ({s} \X {h \in Hosts : answering[h]})
    /\ open' = [open EXCEPT ![s] = {advert[h] : h \in Hosts} \ {NoRoom}]
    /\ UNCHANGED <<hostVars, responderVars, replies, found, couldBind, takings>>

\* Faulty variant of ForScan: the scans of a machine share a socket.
ForMachine(s, reply) == ScannerOf[reply[1]] = ScannerOf[s]

\* A reply that comes in at the scan's socket.
ForScan(s, reply) == reply[1] = s

\* Faulty variant of Collect: rooms that are there already are pushed again.
CollectAll(rooms, room) == Append(rooms, room)

Collect(rooms, room) ==
    IF Contains(rooms, room) THEN rooms ELSE Append(rooms, room)

Receive(s) ==
    /\ scan[s] = "listening"
    /\ \E reply \in replies :
         /\ ForScan(s, reply)
         /\ found' = [found EXCEPT ![s] = Collect(@, reply[2])]
    /\ UNCHANGED <<hostVars, responderVars, scan, hidden, probes, replies, history>>

EndScan(s) ==
    /\ scan[s] = "listening"
    /\ scan' = [scan EXCEPT ![s] = "done"]
    /\ UNCHANGED <<hostVars, responderVars, hidden, probes, replies, found, history>>

\* What the command returns: its own room is filtered out.
Listed(s) == {found[s][i] : i \in DOMAIN found[s]} \ {hidden[s]}

DiscoveryNext ==
    \/ \E h \in Hosts : \/ CreateRoom(h) \/ CreateReturns(h) \/ CloseRoom(h)
                        \/ PortChanges(h)
                        \/ \E room \in Rooms : EnterRoom(h, room)
    \/ \E s \in Scans : \/ StartScan(s) \/ Receive(s) \/ EndScan(s)
                        \/ \E h \in Hosts : Answer(s, h)

DiscoverySpec == DiscoveryInit /\ [][DiscoveryNext]_discoveryVars
-----------------------------------------------------------------------------
\* Properties.

\* A room is listed once, though datagrams may be duplicated and a host may
\* answer with one room to a probe and its copies (discovery.rs:120).
RoomsListedOnce ==
    \A s \in Scans : \A i, j \in DOMAIN found[s] :
        found[s][i] = found[s][j] => i = j

\* "Nothing is remembered between scans, so a room disappears from the list as
\* soon as its host stops answering" (discovery.rs:5): a scan lists only rooms
\* that were advertised at some moment while it listened, late replies to
\* earlier probes notwithstanding.
ListedWasOpen ==
    \A s \in Scans : Listed(s) \subseteq open[s]

\* A host whose last creation found the port free answers probes: an earlier
\* creation that did not leaves nothing behind (discovery.rs:44, 52).
HostsAnswer == \A h \in Hosts : couldBind[h] => answering[h]
=============================================================================
