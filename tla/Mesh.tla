-------------------------------- MODULE Mesh --------------------------------
(***************************************************************************)
(* The WebRTC mesh of one meeting (webrtc_session.rs, commands.rs): who is *)
(* told of a newcomer offers it a connection; descriptions and candidates  *)
(* travel through the signaling server and are handled by tasks of their   *)
(* own.  Doors and verdicts are in Meeting: here a peer just enters.       *)
(*                                                                         *)
(* A connection has two ends.  An end is named by its peer, the other peer *)
(* and its role.  The WebRTC library is external: an end refuses a         *)
(* candidate as long as it has no remote description, and two ends with    *)
(* both descriptions connect if one of them has a candidate of the other.  *)
(***************************************************************************)
EXTENDS Naturals, Sequences

CONSTANTS
    Peers,
    Host,           \* the first in the room, its own arrival dealt with; or
    NoPeer,         \*   NoPeer: the room is not open yet
    Gatherers,      \* those who find a candidate to send (in this instance)
    MaxEndings      \* bound: peers that leave or lose their signaling connection

ASSUME NoPeerIsNone == NoPeer \notin Peers
ASSUME HostIsAPeer == Host \in Peers \cup {NoPeer}
ASSUME GatherersArePeers == Gatherers \subseteq Peers
ASSUME BoundIsNatural == MaxEndings \in Nat

Roles == {"offerer", "answerer"}
Ends == Peers \X Peers \X Roles

VARIABLES
    place,      \* peer -> how the signaling server and its client see it
    host,       \* whose session lets others in
    notices,    \* what a loop over the senders of a room has not sent yet
    inbox,      \* peer -> frames on the way to its signaling handler
    jobs,       \* peer -> its tasks, each at its next step
    table,      \* peer -> other peer -> role of the end it keeps for it
    pc,         \* end -> the state of its descriptions
    reached,    \* end -> it has a candidate of the other
    endings     \* how many so far

vars == <<place, host, notices, inbox, jobs, table, pc, reached, endings>>
serverVars == <<place, host, notices, endings>>
endVars == <<table, pc, reached>>

News == [type: {"joined", "left"}, who: Peers]
Frame == News \cup [type: {"offer", "answer"}, who: Peers]
           \cup [type: {"candidate"}, who: Peers, role: Roles]
Job == [does: {"initiate", "describe", "offer", "accept", "answer"}, with: Peers]
         \cup [does: {"gather", "candidate"}, with: Peers, role: Roles]

\* Every variable has its type: a place, frames with known senders, jobs and
\* ends in their states (webrtc_session.rs, protocol.rs).
TypeOK ==
    /\ place \in [Peers -> {"out", "in", "leaving", "gone"}]
    /\ host \in Peers \cup {NoPeer}
    /\ notices \subseteq [to: Peers, frame: News]
    /\ inbox \in [Peers -> Seq(Frame)]
    /\ jobs \in [Peers -> SUBSET Job]
    /\ table \in [Peers -> [Peers -> Roles \cup {"none"}]]
    /\ pc \in [Ends -> {"none", "new", "offered", "stable", "closed"}]
    /\ reached \in [Ends -> BOOLEAN]
    /\ endings \in 0..MaxEndings

\* The host called itself, answered itself and refused its own answer: of the
\* two ends it keeps the second.
Init ==
    /\ place = [p \in Peers |-> IF p = Host THEN "in" ELSE "out"]
    /\ host = Host
    /\ notices = {}
    /\ inbox = [p \in Peers |-> <<>>]
    /\ jobs = [p \in Peers |-> {}]
    /\ table = [p \in Peers |-> [q \in Peers |-> IF p = Host /\ q = Host THEN "answerer" ELSE "none"]]
    /\ pc = [e \in Ends |-> IF e = <<Host, Host, "offerer">> THEN "offered"
                            ELSE IF e = <<Host, Host, "answerer">> THEN "stable" ELSE "none"]
    /\ reached = [e \in Ends |-> FALSE]
    /\ endings = 0
-----------------------------------------------------------------------------
\* The signaling server.

\* Faulty variant of F: the fields are swapped.
FSwapped(type, who) == [type |-> who, who |-> type]

F(type, who) == [type |-> type, who |-> who]
Inside == {p \in Peers : place[p] \in {"in", "leaving"}}

Tell(others, frame) == notices \cup {[to |-> q, frame |-> frame] : q \in others}

\* The host's session announces one arrival after the other.
Announced == \A n \in notices : n.frame.type # "joined"

\* Faulty variant of Enter: the newcomer is told of those inside, one by one.
EnterTellsBoth(p) ==
    /\ place[p] = "out"
    /\ place' = [place EXCEPT ![p] = "in"]
    /\ host \in Inside /\ Announced
    /\ notices' = Tell(Inside, F("joined", p)) \cup {[to |-> p, frame |-> F("joined", q)] : q \in Inside}
    /\ UNCHANGED <<host, inbox, jobs, endVars, endings>>

\* Who opens the room is its host; it is told of its own arrival and takes
\* itself for a newcomer.  The others are let in by the host's session.
Enter(p) ==
    /\ place[p] = "out"
    /\ place' = [place EXCEPT ![p] = "in"]
    /\ \/ /\ Inside = {}
          /\ host' = p
          /\ inbox' = [inbox EXCEPT ![p] = <<F("joined", p)>>]
          /\ UNCHANGED notices
       \/ /\ host \in Inside /\ Announced
          /\ notices' = Tell(Inside, F("joined", p))
          /\ UNCHANGED <<host, inbox>>
    /\ UNCHANGED <<jobs, endVars, endings>>

SendNotice(n) ==
    /\ notices' = notices \ {n}
    /\ IF n.to \in Inside
         THEN inbox' = [inbox EXCEPT ![n.to] = Append(@, n.frame)]
         ELSE UNCHANGED inbox
    /\ UNCHANGED <<place, host, jobs, endVars, endings>>

\* What the client has not read yet when its session ends may be lost.  The
\* second announcement of one who left (see Meeting) finds nothing to remove.
EndSession(p) ==
    /\ p = host => Announced
    /\ place' = [place EXCEPT ![p] = "gone"]
    /\ notices' = Tell(Inside \ {p}, F("left", p))
    /\ \E n \in 0..Len(inbox[p]) : inbox' = [inbox EXCEPT ![p] = SubSeq(@, 1, n)]
    /\ UNCHANGED <<host, jobs, endVars>>

LoseConnection(p) ==
    /\ place[p] = "in" /\ endings < MaxEndings
    /\ endings' = endings + 1
    /\ EndSession(p)

HandleLeave(p) == place[p] = "leaving" /\ EndSession(p) /\ UNCHANGED endings

\* route_to_peer, from p: the server reads nothing of p after its LeaveRoom.
Route(p, q, frame) ==
    inbox' = IF place[p] = "in" /\ q \in Inside
               THEN [inbox EXCEPT ![q] = Append(@, frame)] ELSE inbox
-----------------------------------------------------------------------------
\* The client's handler.

Close(ends) == pc' = [e \in Ends |-> IF e \in ends THEN "closed" ELSE pc[e]]
Kept(p, q) == {<<p, q, r>> : r \in Roles \cap {table[p][q]}}

\* do_leave_meeting: the mesh is closed, tasks that run go on.
Leave(p) ==
    /\ place[p] = "in" /\ endings < MaxEndings
    /\ endings' = endings + 1
    /\ place' = [place EXCEPT ![p] = "leaving"]
    /\ Close(UNION {Kept(p, q) : q \in Peers})
    /\ table' = [table EXCEPT ![p] = [q \in Peers |-> "none"]]
    /\ UNCHANGED <<host, notices, inbox, jobs, reached>>

RemovePeer(p, q) ==
    /\ Close(Kept(p, q))
    /\ table' = [table EXCEPT ![p][q] = "none"]

J(does, with) == [does |-> does, with |-> with]
Spawn(p, job) == jobs' = [jobs EXCEPT ![p] = @ \cup {job}]

HandleFrame(p) ==
    /\ inbox[p] # <<>>
    /\ inbox' = [inbox EXCEPT ![p] = Tail(@)]
    /\ LET f == Head(inbox[p]) IN
         \/ /\ f.type = "left"
            /\ RemovePeer(p, f.who)
            /\ UNCHANGED <<jobs, reached>>
         \/ /\ f.type = "joined"
            /\ Spawn(p, J("initiate", f.who))
            /\ UNCHANGED endVars
         \/ /\ f.type \in {"offer", "answer"}
            /\ Spawn(p, J(f.type, f.who))
            /\ UNCHANGED endVars
         \/ /\ f.type = "candidate"
            /\ Spawn(p, [does |-> "candidate", with |-> f.who, role |-> f.role])
            /\ UNCHANGED endVars
    /\ UNCHANGED serverVars
-----------------------------------------------------------------------------
\* The tasks.  The library's calls on an end that only this task advances are
\* one action with the send after them: if the end is closed in between, the
\* description still goes to a peer that no longer keeps the other end, or
\* comes from one that has left, as if it was closed just after or before.

Continue(p, job, next) == jobs' = [jobs EXCEPT ![p] = (@ \ {job}) \cup next]
Gather(p, q, role) ==
    {[does |-> "gather", with |-> q, role |-> role] : g \in Gatherers \cap {p}}

\* Faulty variant of NewEnd: the end is not kept for later frames.
NewEndUnkept(p, q, role) ==
    /\ pc' = [pc EXCEPT ![<<p, q, role>>] = "new"]
    /\ UNCHANGED <<table, reached>>

\* A new end replaces the one kept for that peer, which stays open.
NewEnd(p, q, role) ==
    /\ pc' = [pc EXCEPT ![<<p, q, role>>] = "new"]
    /\ table' = [table EXCEPT ![p][q] = role]
    /\ UNCHANGED reached

\* A step of the library on an end: refused once it is closed.
Step(e, from, to) ==
    /\ pc[e] = from
    /\ pc' = [pc EXCEPT ![e] = to]
    /\ UNCHANGED <<table, reached>>

\* initiate_peer_connection.
Initiate(p, job) ==
    /\ job.does = "initiate"
    /\ NewEnd(p, job.with, "offerer")
    /\ Continue(p, job, {J("describe", job.with)})
    /\ UNCHANGED inbox

Describe(p, job) ==
    /\ job.does = "describe"
    /\ Step(<<p, job.with, "offerer">>, "new", "offered")
    /\ Route(p, job.with, F("offer", p))
    /\ Continue(p, job, Gather(p, job.with, "offerer"))

\* handle_offer.
TakeOffer(p, job) ==
    /\ job.does = "offer"
    /\ NewEnd(p, job.with, "answerer")
    /\ Continue(p, job, {J("accept", job.with)})
    /\ UNCHANGED inbox

Accept(p, job) ==
    /\ job.does = "accept"
    /\ Step(<<p, job.with, "answerer">>, "new", "stable")
    /\ Route(p, job.with, F("answer", p))
    /\ Continue(p, job, Gather(p, job.with, "answerer"))

\* handle_answer, on the end that is kept now.
TakeAnswer(p, job) ==
    /\ job.does = "answer"
    /\ \E e \in Kept(p, job.with) : Step(e, "offered", "stable")
    /\ Continue(p, job, {})
    /\ UNCHANGED inbox

\* on_ice_candidate: gathering starts with the local description and does not
\* wait for that to be sent.
SendCandidate(p, job) ==
    /\ job.does = "gather"
    /\ Route(p, job.with, [type |-> "candidate", who |-> p, role |-> job.role])
    /\ Continue(p, job, {})
    /\ UNCHANGED endVars

\* handle_ice_candidate.
TakeCandidate(p, job) ==
    /\ job.does = "candidate"
    /\ \E e \in Kept(p, job.with) :
         /\ pc[e] = "stable"
         /\ reached' = [reached EXCEPT ![e] = TRUE]
    /\ Continue(p, job, {})
    /\ UNCHANGED <<inbox, table, pc>>

\* A task ends with an error: its end is closed, not there, or not ready.
Fail(p, job) ==
    /\ \/ /\ job.does \in {"describe", "accept"}
          /\ LET role == IF job.does = "describe" THEN "offerer" ELSE "answerer"
             IN  pc[<<p, job.with, role>>] = "closed"
       \/ /\ job.does = "answer"
          /\ \A e \in Kept(p, job.with) : pc[e] # "offered"
       \/ /\ job.does = "candidate"
          /\ \A e \in Kept(p, job.with) : pc[e] # "stable"
    /\ Continue(p, job, {})
    /\ UNCHANGED <<inbox, endVars>>

Run(p, job) ==
    /\ \/ Initiate(p, job) \/ Describe(p, job)
       \/ TakeOffer(p, job) \/ Accept(p, job) \/ TakeAnswer(p, job)
       \/ SendCandidate(p, job) \/ TakeCandidate(p, job)
       \/ Fail(p, job)
    /\ UNCHANGED serverVars
-----------------------------------------------------------------------------
Next ==
    \/ \E p \in Peers : \/ Enter(p) \/ LoseConnection(p) \/ HandleLeave(p)
                        \/ Leave(p) \/ HandleFrame(p)
                        \/ \E job \in jobs[p] : Run(p, job)
    \/ \E n \in notices : SendNotice(n)

Spec == Init /\ [][Next]_vars
-----------------------------------------------------------------------------
\* Properties.

\* Of two peers one offers and the other answers, though both learn of each
\* other from frames that cross: nobody's offer meets an offer (commands.rs:487).
OneSideOffers ==
    \A p, q \in Peers : p # q =>
        \A r \in Roles : pc[<<p, q, r>>] = "none" \/ pc[<<q, p, r>>] = "none"

Settled ==
    /\ notices = {}
    /\ \A p \in Peers : inbox[p] = <<>> /\ jobs[p] = {} /\ place[p] # "leaving"

Present == {p \in Peers : place[p] = "in"}

\* The two ends that p and q keep for each other have both descriptions.
Negotiated(p, q) ==
    /\ {table[p][q], table[q][p]} = Roles
    /\ pc[<<p, q, table[p][q]>>] = "stable"
    /\ pc[<<q, p, table[q][p]>>] = "stable"

\* Once nothing is in flight, every two peers that are in the meeting have
\* exchanged offer and answer, whoever came and went meanwhile
\* (webrtc_session.rs:131, 205).
EveryPairNegotiates ==
    Settled => \A p, q \in Present : p # q => Negotiated(p, q)

\* "a direct WebRTC peer-to-peer mesh connection is established between all
\* participants in the room" (README.md:179): every two of them can connect.
MeshIsComplete ==
    Settled => \A p, q \in Present : p # q =>
        /\ Negotiated(p, q)
        /\ reached[<<p, q, table[p][q]>>] \/ reached[<<q, p, table[q][p]>>]
=============================================================================
