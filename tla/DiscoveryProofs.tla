--------------------------- MODULE DiscoveryProofs ---------------------------
(***************************************************************************)
(* Proofs about Discovery, for any number of machines, meetings and scans. *)
(***************************************************************************)
EXTENDS Discovery, SequenceTheorems, TLAPS

\* A scan that listens has noted every advertised room; only a scan that was
\* started has probes and replies, and what may come in or has come in was open.
ScanInv ==
    /\ \A s \in Scans : scan[s] = "no" => found[s] = <<>>
    /\ \A s \in Scans : scan[s] = "listening" =>
          \A h \in Hosts : advert[h] # NoRoom => advert[h] \in open[s]
    /\ \A probe \in probes : scan[probe[1]] # "no"
    /\ \A reply \in replies :
          /\ scan[reply[1]] # "no"
          /\ scan[reply[1]] = "listening" => reply[2] \in open[reply[1]]
    /\ \A s \in Scans : \A i \in DOMAIN found[s] : found[s][i] \in open[s]

\* The flag of the responder tells whether there is one.
ResponderInv ==
    \A h \in Hosts : /\ running[h] = answering[h]
                     /\ couldBind[h] => answering[h]

DiscoveryInv ==
    /\ DiscoveryTypeOK
    /\ RoomsListedOnce
    /\ ScanInv
    /\ ResponderInv

ScanActions == \E s \in Scans : \/ StartScan(s) \/ Receive(s) \/ EndScan(s)
                                \/ \E h \in Hosts : Answer(s, h)
HostActions == \E h \in Hosts : \/ CreateRoom(h) \/ CreateReturns(h) \/ CloseRoom(h)
                                \/ PortChanges(h)
                                \/ \E room \in Rooms : EnterRoom(h, room)
-----------------------------------------------------------------------------
\* Types.

LEMMA CollectFacts ==
    ASSUME NEW rooms \in Seq(Rooms), NEW room \in Rooms
    PROVE  /\ Collect(rooms, room) \in Seq(Rooms)
           /\ \A i \in DOMAIN Collect(rooms, room) :
                 \/ i \in DOMAIN rooms /\ Collect(rooms, room)[i] = rooms[i]
                 \/ /\ i = Len(rooms) + 1 /\ Collect(rooms, room)[i] = room
                    /\ \A j \in DOMAIN rooms : rooms[j] # room
<1>1. CASE Contains(rooms, room)
  BY <1>1 DEF Collect
<1>2. CASE ~Contains(rooms, room)
  <2>1. Collect(rooms, room) = Append(rooms, room)
    BY <1>2 DEF Collect
  <2>2. \A j \in DOMAIN rooms : rooms[j] # room
    BY <1>2 DEF Contains
  <2> QED
    BY <2>1, <2>2, AppendProperties
<1> QED
  BY <1>1, <1>2

LEMMA HostTypes ==
    ASSUME DiscoveryTypeOK, HostActions
    PROVE  DiscoveryTypeOK'
<1> USE DEF DiscoveryTypeOK
<1>1. ASSUME NEW h \in Hosts, CreateRoom(h)
      PROVE  DiscoveryTypeOK'
  <2>1. /\ created' = created + 1 /\ created' \in 1..MaxMeetings /\ <<h, created'>> \in Rooms
    BY <1>1, BoundsAreNat DEF CreateRoom, Rooms
  <2>2. /\ opening' = [opening EXCEPT ![h] = <<h, created'>>]
        /\ own' = [own EXCEPT ![h] = NoRoom]
        /\ advert' = [advert EXCEPT ![h] = <<h, created'>>]
    BY <1>1 DEF CreateRoom
  <2>3. /\ running' = [running EXCEPT ![h] = running[h] \/ portFree[h]]
        /\ answering' = [answering EXCEPT ![h] = answering[h] \/ (~running[h] /\ portFree[h])]
        /\ couldBind' = [couldBind EXCEPT ![h] = portFree[h] \/ answering[h]]
    BY <1>1 DEF CreateRoom, StartResponder
  <2>4. open' \in [Scans -> SUBSET Rooms]
    BY <1>1, <2>1 DEF CreateRoom, NoteOpen
  <2>5. opening' \in [Hosts -> Rooms \cup {NoRoom}] /\ own' \in [Hosts -> Rooms \cup {NoRoom}]
          /\ advert' \in [Hosts -> Rooms \cup {NoRoom}]
    BY <2>1, <2>2
  <2>6. running' \in [Hosts -> BOOLEAN] /\ answering' \in [Hosts -> BOOLEAN]
          /\ couldBind' \in [Hosts -> BOOLEAN]
    BY <2>3
  <2> QED
    BY <1>1, <2>1, <2>4, <2>5, <2>6 DEF CreateRoom, scanVars
<1>2. ASSUME NEW h \in Hosts, CreateReturns(h) \/ CloseRoom(h)
      PROVE  DiscoveryTypeOK'
  BY <1>2 DEF CreateReturns, CloseRoom, scanVars, responderVars, history
<1>3. ASSUME NEW h \in Hosts, NEW room \in Rooms, EnterRoom(h, room)
      PROVE  DiscoveryTypeOK'
  BY <1>3 DEF EnterRoom, scanVars, responderVars, history
<1>4. ASSUME NEW h \in Hosts, PortChanges(h)
      PROVE  DiscoveryTypeOK'
  <2>1. portFree' \in [Hosts -> BOOLEAN]
    BY <1>4 DEF PortChanges
  <2>2. takings' \in 0..MaxTakings
    BY <1>4, BoundsAreNat DEF PortChanges
  <2> QED
    BY <1>4, <2>1, <2>2 DEF PortChanges, hostVars, scanVars
<1> QED
  BY <1>1, <1>2, <1>3, <1>4 DEF HostActions

LEMMA ScanTypes ==
    ASSUME DiscoveryTypeOK, ScanActions
    PROVE  DiscoveryTypeOK'
<1> USE DEF DiscoveryTypeOK
<1>1. ASSUME NEW s \in Scans, StartScan(s)
      PROVE  DiscoveryTypeOK'
  <2>1. ScannerOf[s] \in Hosts
    BY ScannerOfIsFunction
  <2>2. /\ scan' \in [Scans -> {"no", "listening", "done"}]
        /\ hidden' \in [Scans -> Rooms \cup {NoRoom}]
        /\ probes' \in SUBSET (Scans \X Hosts)
        /\ open' \in [Scans -> SUBSET Rooms]
    BY <1>1, <2>1 DEF StartScan
  <2> QED
    BY <1>1, <2>2 DEF StartScan, hostVars, responderVars
<1>2. ASSUME NEW s \in Scans, Receive(s)
      PROVE  DiscoveryTypeOK'
  <2>1. PICK reply \in replies :
             /\ ForScan(s, reply)
             /\ found' = [found EXCEPT ![s] = Collect(found[s], reply[2])]
    BY <1>2 DEF Receive
  <2>2. Collect(found[s], reply[2]) \in Seq(Rooms)
    BY <2>1, CollectFacts
  <2>3. found' \in [Scans -> Seq(Rooms)]
    BY <2>1, <2>2
  <2> QED
    BY <1>2, <2>3 DEF Receive, hostVars, responderVars, history
<1>3. ASSUME NEW s \in Scans, EndScan(s)
      PROVE  DiscoveryTypeOK'
  BY <1>3 DEF EndScan, hostVars, responderVars, history
<1>4. ASSUME NEW s \in Scans, NEW h \in Hosts, Answer(s, h)
      PROVE  DiscoveryTypeOK'
  <2>1. replies' \in SUBSET (Scans \X Rooms)
    BY <1>4 DEF Answer
  <2> QED
    BY <1>4, <2>1 DEF Answer, hostVars, responderVars, history
<1> QED
  BY <1>1, <1>2, <1>3, <1>4 DEF ScanActions

LEMMA DiscoveryTypes == DiscoveryTypeOK /\ [DiscoveryNext]_discoveryVars => DiscoveryTypeOK'
<1>1. DiscoveryTypeOK /\ UNCHANGED discoveryVars => DiscoveryTypeOK'
  BY DEF DiscoveryTypeOK, discoveryVars, hostVars, responderVars, scanVars, history
<1> QED
  BY <1>1, HostTypes, ScanTypes DEF DiscoveryNext, HostActions, ScanActions
-----------------------------------------------------------------------------
\* Scans.

LEMMA ListedOnceStep ==
    ASSUME DiscoveryTypeOK, RoomsListedOnce, [DiscoveryNext]_discoveryVars
    PROVE  RoomsListedOnce'
<1>1. CASE UNCHANGED found
  BY <1>1 DEF RoomsListedOnce
<1>2. ASSUME NEW s \in Scans, Receive(s)
      PROVE  RoomsListedOnce'
  <2>1. PICK reply \in replies :
             found' = [found EXCEPT ![s] = Collect(found[s], reply[2])]
    BY <1>2 DEF Receive
  <2>2. found[s] \in Seq(Rooms) /\ reply[2] \in Rooms
    BY DEF DiscoveryTypeOK
  <2> DEFINE rooms == Collect(found[s], reply[2])
  <2>3. /\ rooms \in Seq(Rooms)
        /\ \A i \in DOMAIN rooms :
              \/ i \in DOMAIN found[s] /\ rooms[i] = found[s][i]
              \/ /\ i = Len(found[s]) + 1 /\ rooms[i] = reply[2]
                 /\ \A j \in DOMAIN found[s] : found[s][j] # reply[2]
    BY <2>2, CollectFacts, ZenonT(60)
  <2>4. \A r \in Scans : found'[r] = IF r = s THEN rooms ELSE found[r]
    BY <2>1 DEF DiscoveryTypeOK
  <2> HIDE DEF rooms
  <2>5. ASSUME NEW i \in DOMAIN rooms, NEW j \in DOMAIN rooms, rooms[i] = rooms[j]
        PROVE  i = j
    BY <2>3, <2>5 DEF RoomsListedOnce
  <2> QED
    BY <2>4, <2>5 DEF RoomsListedOnce
<1>3. UNCHANGED found \/ \E s \in Scans : Receive(s)
  BY DEF DiscoveryNext, CreateRoom, CreateReturns, CloseRoom, PortChanges, EnterRoom,
         StartScan, EndScan, Answer, discoveryVars, scanVars
<1> QED
  BY <1>1, <1>2, <1>3

\* What a host does only adds to what the listening scans have noted.
LEMMA ScanKeptByHosts ==
    ASSUME DiscoveryTypeOK, ScanInv, HostActions
    PROVE  ScanInv'
<1> USE DEF DiscoveryTypeOK
<1>1. UNCHANGED <<scan, probes, replies, found>>
  BY DEF HostActions, CreateRoom, CreateReturns, CloseRoom, PortChanges, EnterRoom, scanVars
<1>2. \A s \in Scans : open[s] \subseteq open'[s]
  <2>1. CASE UNCHANGED open
    BY <2>1
  <2>2. ASSUME NEW h \in Hosts, CreateRoom(h)
        PROVE  \A s \in Scans : open[s] \subseteq open'[s]
    BY <2>2 DEF CreateRoom, NoteOpen
  <2> QED
    BY <2>1, <2>2 DEF HostActions, CreateReturns, CloseRoom, PortChanges, EnterRoom, history
<1>3. ASSUME NEW s \in Scans, scan[s] = "listening", NEW h \in Hosts, advert'[h] # NoRoom
      PROVE  advert'[h] \in open'[s]
  <2>1. CASE advert'[h] = advert[h]
    BY <1>2, <1>3, <2>1 DEF ScanInv
  <2>2. CASE advert'[h] # advert[h]
    <3>1. PICK g \in Hosts : CreateRoom(g) /\ advert' = [advert EXCEPT ![g] = <<g, created'>>]
      BY <1>3, <2>2 DEF HostActions, CreateRoom, CreateReturns, CloseRoom, PortChanges,
                        EnterRoom, hostVars
    <3>2. g = h
      BY <2>2, <3>1
    <3> QED
      BY <1>3, <3>1, <3>2 DEF CreateRoom, NoteOpen
  <2> QED
    BY <2>1, <2>2
<1> QED
  BY <1>1, <1>2, <1>3 DEF ScanInv

LEMMA ScanKeptByScans ==
    ASSUME DiscoveryTypeOK, ScanInv, ScanActions
    PROVE  ScanInv'
<1> USE DEF DiscoveryTypeOK
<1>1. ASSUME NEW s \in Scans, StartScan(s)
      PROVE  ScanInv'
  <2>1. /\ scan[s] = "no" /\ scan' = [scan EXCEPT ![s] = "listening"]
        /\ open' = [open EXCEPT ![s] = {advert[h] : h \in Hosts} \ {NoRoom}]
        /\ \A probe \in probes' : probe \in probes \/ probe[1] = s
        /\ UNCHANGED <<replies, found, advert>>
    BY <1>1 DEF StartScan, hostVars
  <2>2. /\ \A probe \in probes' : scan'[probe[1]] # "no"
        /\ \A reply \in replies : reply[1] # s
    BY <2>1 DEF ScanInv
  <2>3. \A r \in Scans : \A i \in DOMAIN found'[r] : found'[r][i] \in open'[r]
    BY <2>1 DEF ScanInv
  <2> QED
    BY <2>1, <2>2, <2>3 DEF ScanInv
<1>2. ASSUME NEW s \in Scans, Receive(s)
      PROVE  ScanInv'
  <2>1. PICK reply \in replies :
             /\ reply[1] = s
             /\ found' = [found EXCEPT ![s] = Collect(found[s], reply[2])]
    BY <1>2 DEF Receive, ForScan
  <2>2. /\ scan[s] = "listening" /\ reply[2] \in open[s]
        /\ UNCHANGED <<scan, probes, replies, open, advert>>
    BY <1>2, <2>1 DEF Receive, ScanInv, hostVars, history
  <2>3. found[s] \in Seq(Rooms) /\ reply[2] \in Rooms
    OBVIOUS
  <2> DEFINE rooms == Collect(found[s], reply[2])
  <2>4. \A i \in DOMAIN rooms : rooms[i] \in open[s]
    <3>1. \A i \in DOMAIN found[s] : found[s][i] \in open[s]
      BY DEF ScanInv
    <3>2. \A i \in DOMAIN rooms :
             \/ i \in DOMAIN found[s] /\ rooms[i] = found[s][i]
             \/ rooms[i] = reply[2]
      BY <2>3, CollectFacts
    <3> HIDE DEF rooms
    <3> QED
      BY <2>2, <3>1, <3>2
  <2>5. found'[s] = rooms
    BY <2>1
  <2>6. \A r \in Scans : r # s => found'[r] = found[r]
    BY <2>1
  <2> QED
    BY <2>2, <2>4, <2>5, <2>6 DEF ScanInv
<1>3. ASSUME NEW s \in Scans, EndScan(s)
      PROVE  ScanInv'
  BY <1>3 DEF EndScan, ScanInv, hostVars, history
<1>4. ASSUME NEW s \in Scans, NEW h \in Hosts, Answer(s, h)
      PROVE  ScanInv'
  <2>1. /\ <<s, h>> \in probes
        /\ \A reply \in replies' :
              reply \in replies \/ (advert[h] # NoRoom /\ reply = <<s, advert[h]>>)
        /\ UNCHANGED <<scan, probes, found, open, advert>>
    BY <1>4 DEF Answer, hostVars, history
  <2>2. scan[s] # "no" /\ (scan[s] = "listening" /\ advert[h] # NoRoom => advert[h] \in open[s])
    BY <2>1 DEF ScanInv
  <2> QED
    BY <2>1, <2>2 DEF ScanInv
<1> QED
  BY <1>1, <1>2, <1>3, <1>4 DEF ScanActions
-----------------------------------------------------------------------------
\* Responders.

LEMMA ResponderStep ==
    ASSUME DiscoveryTypeOK, ResponderInv, [DiscoveryNext]_discoveryVars
    PROVE  ResponderInv'
<1> USE DEF DiscoveryTypeOK
<1>1. ASSUME NEW h \in Hosts, CreateRoom(h)
      PROVE  ResponderInv'
  <2>1. /\ running' = [running EXCEPT ![h] = running[h] \/ portFree[h]]
        /\ answering' = [answering EXCEPT ![h] = answering[h] \/ (~running[h] /\ portFree[h])]
        /\ couldBind' = [couldBind EXCEPT ![h] = portFree[h] \/ answering[h]]
    BY <1>1 DEF CreateRoom, StartResponder
  <2> QED
    BY <2>1 DEF ResponderInv
<1>2. CASE UNCHANGED <<running, answering, couldBind>>
  BY <1>2 DEF ResponderInv
<1>3. \/ UNCHANGED <<running, answering, couldBind>>
      \/ \E h \in Hosts : CreateRoom(h)
  BY DEF DiscoveryNext, CreateReturns, CloseRoom, PortChanges, EnterRoom, StartScan,
         Receive, EndScan, Answer, discoveryVars, responderVars, history
<1> QED
  BY <1>1, <1>2, <1>3
-----------------------------------------------------------------------------
LEMMA DiscoveryInitInv == DiscoveryInit => DiscoveryInv
<1> SUFFICES ASSUME DiscoveryInit PROVE DiscoveryInv
  OBVIOUS
<1>1. DiscoveryTypeOK
  <2>1. <<>> \in Seq(Rooms)
    OBVIOUS
  <2> QED
    BY <2>1, BoundsAreNat DEF DiscoveryInit, DiscoveryTypeOK
<1>2. RoomsListedOnce /\ ScanInv
  BY DEF DiscoveryInit, RoomsListedOnce, ScanInv
<1>3. ResponderInv
  BY DEF DiscoveryInit, ResponderInv
<1> QED
  BY <1>1, <1>2, <1>3 DEF DiscoveryInv

LEMMA DiscoveryStep == DiscoveryInv /\ [DiscoveryNext]_discoveryVars => DiscoveryInv'
<1> SUFFICES ASSUME DiscoveryInv, [DiscoveryNext]_discoveryVars PROVE DiscoveryInv'
  OBVIOUS
<1>1. ScanInv /\ UNCHANGED discoveryVars => ScanInv'
  BY DEF ScanInv, discoveryVars, hostVars, scanVars, history
<1>2. HostActions \/ ScanActions \/ UNCHANGED discoveryVars
  BY DEF DiscoveryNext, HostActions, ScanActions
<1>3. ScanInv'
  BY <1>1, <1>2, ScanKeptByHosts, ScanKeptByScans DEF DiscoveryInv
<1> QED
  BY <1>3, DiscoveryTypes, ListedOnceStep, ResponderStep DEF DiscoveryInv

THEOREM DiscoveryInvariance == DiscoverySpec => []DiscoveryInv
  BY DiscoveryInitInv, DiscoveryStep, PTL DEF DiscoverySpec

\* Every variable has its type.
THEOREM DiscoveryTypeCorrect == DiscoverySpec => []DiscoveryTypeOK
<1>1. DiscoveryInv => DiscoveryTypeOK
  BY DEF DiscoveryInv
<1> QED
  BY <1>1, DiscoveryInvariance, PTL

\* No scan returns a room twice.
THEOREM NoDuplicates == DiscoverySpec => []RoomsListedOnce
<1>1. DiscoveryInv => RoomsListedOnce
  BY DEF DiscoveryInv
<1> QED
  BY <1>1, DiscoveryInvariance, PTL

\* A scan returns no room that nobody advertised while it listened.
THEOREM ScansFresh == DiscoverySpec => []ListedWasOpen
<1>1. DiscoveryInv => ListedWasOpen
  BY DEF DiscoveryInv, ScanInv, ListedWasOpen, Listed
<1> QED
  BY <1>1, DiscoveryInvariance, PTL

\* A host whose last creation found the port free has a responder.
THEOREM RespondersThere == DiscoverySpec => []HostsAnswer
<1>1. DiscoveryInv => HostsAnswer
  BY DEF DiscoveryInv, ResponderInv, HostsAnswer
<1> QED
  BY <1>1, DiscoveryInvariance, PTL
=============================================================================
