----------------------------- MODULE MeshProofs -----------------------------
(***************************************************************************)
(* Proofs about Mesh, for any peers and any number of endings: the types,  *)
(* that of two peers only one ever offers, and that every two that stay    *)
(* finish their exchange.                                                  *)
(***************************************************************************)
EXTENDS Mesh, SequenceTheorems, TLAPS

-----------------------------------------------------------------------------
\* Frames on the way, as sets.

Elements(s) == {s[i] : i \in DOMAIN s}

LEMMA AppendElements ==
    ASSUME NEW S, NEW s \in Seq(S), NEW e \in S
    PROVE  Append(s, e) \in Seq(S) /\ Elements(Append(s, e)) \subseteq Elements(s) \cup {e}
<1>1. /\ Append(s, e) \in Seq(S)
      /\ Len(Append(s, e)) = Len(s) + 1
      /\ \A i \in 1..Len(s) : Append(s, e)[i] = s[i]
      /\ Append(s, e)[Len(s) + 1] = e
  BY AppendProperties
<1>2. DOMAIN s = 1..Len(s) /\ DOMAIN Append(s, e) = 1..(Len(s) + 1) /\ Len(s) \in Nat
  BY <1>1, LenProperties
<1>3. \A i \in 1..(Len(s) + 1) : i \in 1..Len(s) \/ i = Len(s) + 1
  BY <1>2
<1> QED  BY <1>1, <1>2, <1>3 DEF Elements

LEMMA HeadTailElements ==
    ASSUME NEW S, NEW s \in Seq(S), s # <<>>
    PROVE  /\ Head(s) \in S /\ Head(s) \in Elements(s)
           /\ Tail(s) \in Seq(S) /\ Elements(Tail(s)) \subseteq Elements(s)
<1>1. /\ Head(s) \in S
      /\ Tail(s) \in Seq(S)
      /\ Len(Tail(s)) = Len(s) - 1
      /\ \A i \in 1..Len(Tail(s)) : Tail(s)[i] = s[i + 1]
  BY HeadTailProperties
<1>2. DOMAIN s = 1..Len(s) /\ DOMAIN Tail(s) = 1..(Len(s) - 1) /\ Len(s) \in Nat /\ Len(s) # 0
  BY <1>1, LenProperties, EmptySeq
<1>3. \A i \in 1..(Len(s) - 1) : i + 1 \in 1..Len(s)
  BY <1>2
<1>4. Elements(Tail(s)) \subseteq Elements(s)
  BY <1>1, <1>2, <1>3 DEF Elements
<1>5. 1 \in DOMAIN s /\ Head(s) = s[1]
  BY <1>2
<1> QED  BY <1>1, <1>4, <1>5 DEF Elements

LEMMA PrefixElements ==
    ASSUME NEW S, NEW s \in Seq(S), NEW n \in 0..Len(s)
    PROVE  SubSeq(s, 1, n) \in Seq(S) /\ Elements(SubSeq(s, 1, n)) \subseteq Elements(s)
<1>1. DOMAIN s = 1..Len(s) /\ Len(s) \in Nat /\ n \in Int
  BY LenProperties
<1>2. \A i \in 1..n : s[i] \in S /\ i \in DOMAIN s
  BY <1>1, ElementOfSeq
<1>3. /\ SubSeq(s, 1, n) \in Seq(S)
      /\ Len(SubSeq(s, 1, n)) = IF 1 <= n THEN n - 1 + 1 ELSE 0
      /\ \A i \in 1..n - 1 + 1 : SubSeq(s, 1, n)[i] = s[1 + i - 1]
  BY <1>1, <1>2, SubSeqProperties
<1>4. DOMAIN SubSeq(s, 1, n) = 1..n /\ \A i \in 1..n : SubSeq(s, 1, n)[i] = s[i]
  BY <1>1, <1>3, LenProperties
<1> QED  BY <1>2, <1>3, <1>4 DEF Elements

\* The senders' frames have their type.
LEMMA FrameTypes ==
    /\ \A t \in {"joined", "left"}, p \in Peers : F(t, p) \in News
    /\ News \subseteq Frame
    /\ \A t \in {"joined", "left", "offer", "answer"}, p \in Peers : F(t, p) \in Frame
    /\ \A p \in Peers, r \in Roles : [type |-> "candidate", who |-> p, role |-> r] \in Frame
    /\ \A p \in Peers, t \in {"initiate", "describe", "offer", "accept", "answer"} : J(t, p) \in Job
    /\ \A p \in Peers, r \in Roles : /\ [does |-> "gather", with |-> p, role |-> r] \in Job
                                     /\ [does |-> "candidate", with |-> p, role |-> r] \in Job
    /\ \A f \in Frame : f.who \in Peers /\ (f.type = "candidate" => f.role \in Roles)
    /\ \A j \in Job : /\ j.with \in Peers
                      /\ j.does \in {"gather", "candidate"} => j.role \in Roles
    /\ \A p, q \in Peers, r \in Roles : Gather(p, q, r) \subseteq Job
  BY DEF F, News, Frame, J, Job, Gather
-----------------------------------------------------------------------------
\* Types.

LEMMA TypeInit == Init => TypeOK
<1> SUFFICES ASSUME Init PROVE TypeOK
  OBVIOUS
<1> USE NoPeerIsNone, HostIsAPeer, BoundIsNatural DEF Init
<1>1. /\ place \in [Peers -> {"out", "in", "leaving", "gone"}]
      /\ host \in Peers \cup {NoPeer}
      /\ notices \subseteq [to: Peers, frame: News]
      /\ jobs \in [Peers -> SUBSET Job]
      /\ endings \in 0..MaxEndings
  OBVIOUS
<1>2. inbox \in [Peers -> Seq(Frame)]
  BY EmptySeq
<1>3. table \in [Peers -> [Peers -> Roles \cup {"none"}]]
  BY DEF Roles
<1>4. /\ pc \in [Ends -> {"none", "new", "offered", "stable", "closed"}]
      /\ reached \in [Ends -> BOOLEAN]
  OBVIOUS
<1> QED  BY <1>1, <1>2, <1>3, <1>4 DEF TypeOK

\* What is routed, or not, keeps the type of the inboxes and adds no other frame.
LEMMA RouteAdds ==
    ASSUME TypeOK, NEW p \in Peers, NEW q \in Peers, NEW f \in Frame, Route(p, q, f)
    PROVE  /\ inbox' \in [Peers -> Seq(Frame)]
           /\ \A x \in Peers : Elements(inbox'[x]) \subseteq
                 Elements(inbox[x]) \cup (IF x = q THEN {f} ELSE {})
<1> USE DEF TypeOK
<1>1. CASE inbox' = inbox
  BY <1>1
<1>2. CASE inbox' = [inbox EXCEPT ![q] = Append(@, f)]
  <2>1. /\ Append(inbox[q], f) \in Seq(Frame)
        /\ Elements(Append(inbox[q], f)) \subseteq Elements(inbox[q]) \cup {f}
    BY AppendElements
  <2>2. inbox' \in [Peers -> Seq(Frame)]
    BY <1>2, <2>1
  <2>3. \A x \in Peers : inbox'[x] = IF x = q THEN Append(inbox[q], f) ELSE inbox[x]
    BY <1>2
  <2> QED  BY <2>1, <2>2, <2>3
<1> QED  BY <1>1, <1>2 DEF Route

LEMMA EndsAreEnds ==
    ASSUME NEW p \in Peers, NEW q \in Peers, NEW r \in Roles
    PROVE  <<p, q, r>> \in Ends
  BY DEF Ends

\* Closing and removing.
LEMMA CloseType ==
    ASSUME TypeOK, NEW ends, Close(ends)
    PROVE  pc' \in [Ends -> {"none", "new", "offered", "stable", "closed"}]
  BY DEF TypeOK, Close

LEMMA NewEndType ==
    ASSUME TypeOK, NEW p \in Peers, NEW q \in Peers, NEW r \in Roles, NewEnd(p, q, r)
    PROVE  /\ pc' \in [Ends -> {"none", "new", "offered", "stable", "closed"}]
           /\ table' \in [Peers -> [Peers -> Roles \cup {"none"}]]
           /\ reached' \in [Ends -> BOOLEAN]
  BY EndsAreEnds DEF TypeOK, NewEnd

\* The server's actions keep the types.
LEMMA EndSessionType ==
    ASSUME TypeOK, NEW p \in Peers, EndSession(p)
    PROVE  /\ place' \in [Peers -> {"out", "in", "leaving", "gone"}]
           /\ notices' \subseteq [to: Peers, frame: News]
           /\ inbox' \in [Peers -> Seq(Frame)]
           /\ \A x \in Peers : Elements(inbox'[x]) \subseteq Elements(inbox[x])
<1> USE DEF TypeOK, EndSession
<1>1. F("left", p) \in News
  BY FrameTypes
<1>2. notices' \subseteq [to: Peers, frame: News]
  BY <1>1 DEF Tell, Inside
<1>3. PICK n \in 0..Len(inbox[p]) : inbox' = [inbox EXCEPT ![p] = SubSeq(@, 1, n)]
  OBVIOUS
<1>4. /\ SubSeq(inbox[p], 1, n) \in Seq(Frame)
      /\ Elements(SubSeq(inbox[p], 1, n)) \subseteq Elements(inbox[p])
  BY PrefixElements
<1>5. inbox' \in [Peers -> Seq(Frame)]
  BY <1>3, <1>4
<1>6. \A x \in Peers : inbox'[x] = IF x = p THEN SubSeq(inbox[p], 1, n) ELSE inbox[x]
  BY <1>3
<1> QED  BY <1>2, <1>4, <1>5, <1>6

LEMMA EnterType ==
    ASSUME TypeOK, NEW p \in Peers, Enter(p)
    PROVE  TypeOK'
<1> USE DEF TypeOK, Enter
<1>1. F("joined", p) \in News /\ F("joined", p) \in Frame
  BY FrameTypes
<1>2. notices' \subseteq [to: Peers, frame: News]
  BY <1>1 DEF Tell, Inside
<1>3. <<F("joined", p)>> \in Seq(Frame)
  BY <1>1
<1>4. inbox' \in [Peers -> Seq(Frame)]
  BY <1>3
<1> QED  BY <1>2, <1>4 DEF endVars

LEMMA SendNoticeType ==
    ASSUME TypeOK, NEW n \in notices, SendNotice(n)
    PROVE  /\ TypeOK'
           /\ \A x \in Peers : Elements(inbox'[x]) \subseteq
                 Elements(inbox[x]) \cup (IF x = n.to THEN {n.frame} ELSE {})
<1> USE DEF TypeOK, SendNotice
<1>1. n.to \in Peers /\ n.frame \in Frame
  BY FrameTypes
<1>2. /\ Append(inbox[n.to], n.frame) \in Seq(Frame)
      /\ Elements(Append(inbox[n.to], n.frame)) \subseteq Elements(inbox[n.to]) \cup {n.frame}
  BY <1>1, AppendElements
<1>3. inbox' \in [Peers -> Seq(Frame)]
  BY <1>1, <1>2
<1>4. \A x \in Peers : inbox'[x] = inbox[x] \/ (x = n.to /\ inbox'[x] = Append(inbox[n.to], n.frame))
  BY <1>1
<1>5. TypeOK'
  BY <1>3 DEF endVars
<1> QED  BY <1>2, <1>4, <1>5

LEMMA LeaveType ==
    ASSUME TypeOK, NEW p \in Peers, Leave(p)
    PROVE  TypeOK'
<1>1. pc' \in [Ends -> {"none", "new", "offered", "stable", "closed"}]
  BY CloseType DEF Leave
<1>2. table' \in [Peers -> [Peers -> Roles \cup {"none"}]]
  BY DEF TypeOK, Leave
<1> QED  BY <1>1, <1>2, BoundIsNatural DEF TypeOK, Leave

LEMMA FrameShapes ==
    \A f \in Frame : f.type # "candidate" => f = F(f.type, f.who)
  BY DEF News, Frame, F

\* A frame is taken from the inbox; only an arrival makes a call, only an offer
\* an answer.
LEMMA HandleFrameType ==
    ASSUME TypeOK, NEW p \in Peers, HandleFrame(p)
    PROVE  /\ TypeOK'
           /\ \A x \in Peers : Elements(inbox'[x]) \subseteq Elements(inbox[x])
           /\ \A x \in Peers : x # p => jobs'[x] = jobs[x]
           /\ \A j \in jobs'[p] :
                 \/ j \in jobs[p]
                 \/ j.does = "candidate"
                 \/ /\ j.does = "initiate"
                    /\ F("joined", j.with) \in Elements(inbox[p])
                 \/ /\ j.does \in {"offer", "answer"}
                    /\ F(j.does, j.with) \in Elements(inbox[p])
<1> DEFINE f == Head(inbox[p])
<1>1. inbox[p] \in Seq(Frame) /\ inbox[p] # <<>>
  BY DEF TypeOK, HandleFrame
<1>2. /\ f \in Frame /\ f \in Elements(inbox[p])
      /\ Tail(inbox[p]) \in Seq(Frame) /\ Elements(Tail(inbox[p])) \subseteq Elements(inbox[p])
  BY <1>1, HeadTailElements
<1>3. inbox' = [inbox EXCEPT ![p] = Tail(@)]
  BY DEF HandleFrame
<1>4. inbox' \in [Peers -> Seq(Frame)]
  BY <1>2, <1>3 DEF TypeOK
<1>5. \A x \in Peers : inbox'[x] = IF x = p THEN Tail(inbox[p]) ELSE inbox[x]
  BY <1>3 DEF TypeOK
<1>6. \A x \in Peers : Elements(inbox'[x]) \subseteq Elements(inbox[x])
  BY <1>2, <1>5
<1>7. f.who \in Peers /\ (f.type = "candidate" => f.role \in Roles)
  BY <1>2, FrameTypes
<1>8. UNCHANGED <<place, host, notices, endings>>
  BY DEF HandleFrame, serverVars
<1> HIDE DEF f
<1>9. CASE f.type = "left" /\ RemovePeer(p, f.who) /\ UNCHANGED <<jobs, reached>>
  <2>1. pc' \in [Ends -> {"none", "new", "offered", "stable", "closed"}]
    BY <1>9, CloseType DEF RemovePeer
  <2>2. table' \in [Peers -> [Peers -> Roles \cup {"none"}]]
    BY <1>7, <1>9 DEF TypeOK, RemovePeer
  <2>3. TypeOK'
    BY <1>4, <1>8, <1>9, <2>1, <2>2 DEF TypeOK
  <2> QED  BY <1>6, <1>9, <2>3
<1>10. CASE f.type = "joined" /\ Spawn(p, J("initiate", f.who)) /\ UNCHANGED endVars
  <2>1. J("initiate", f.who) \in Job /\ F("joined", f.who) \in Elements(inbox[p])
    BY <1>2, <1>7, <1>10, FrameTypes, FrameShapes
  <2>2. jobs' \in [Peers -> SUBSET Job]
    BY <1>10, <2>1 DEF TypeOK, Spawn
  <2>3. \A x \in Peers : jobs'[x] = IF x = p THEN jobs[p] \cup {J("initiate", f.who)} ELSE jobs[x]
    BY <1>10 DEF TypeOK, Spawn
  <2>4. TypeOK'
    BY <1>4, <1>8, <1>10, <2>2 DEF TypeOK, endVars
  <2>5. J("initiate", f.who).does = "initiate" /\ J("initiate", f.who).with = f.who
    BY DEF J
  <2> QED  BY <1>6, <2>1, <2>3, <2>4, <2>5
<1>11. CASE f.type \in {"offer", "answer"} /\ Spawn(p, J(f.type, f.who)) /\ UNCHANGED endVars
  <2>1. J(f.type, f.who) \in Job /\ F(f.type, f.who) \in Elements(inbox[p])
    BY <1>2, <1>7, <1>11, FrameTypes, FrameShapes
  <2>2. jobs' \in [Peers -> SUBSET Job]
    BY <1>11, <2>1 DEF TypeOK, Spawn
  <2>3. \A x \in Peers : jobs'[x] = IF x = p THEN jobs[p] \cup {J(f.type, f.who)} ELSE jobs[x]
    BY <1>11 DEF TypeOK, Spawn
  <2>4. J(f.type, f.who).does = f.type /\ J(f.type, f.who).with = f.who
    BY DEF J
  <2>5. TypeOK'
    BY <1>4, <1>8, <1>11, <2>2 DEF TypeOK, endVars
  <2> QED  BY <1>6, <1>11, <2>1, <2>3, <2>4, <2>5
<1>12. CASE /\ f.type = "candidate"
            /\ Spawn(p, [does |-> "candidate", with |-> f.who, role |-> f.role])
            /\ UNCHANGED endVars
  <2> DEFINE job == [does |-> "candidate", with |-> f.who, role |-> f.role]
  <2>1. job \in Job /\ job.does = "candidate"
    BY <1>7, <1>12, FrameTypes
  <2>2. jobs' \in [Peers -> SUBSET Job]
    BY <1>12, <2>1 DEF TypeOK, Spawn
  <2>3. \A x \in Peers : jobs'[x] = IF x = p THEN jobs[p] \cup {job} ELSE jobs[x]
    BY <1>12 DEF TypeOK, Spawn
  <2>4. TypeOK'
    BY <1>4, <1>8, <1>12, <2>2 DEF TypeOK, endVars
  <2> QED  BY <1>6, <2>1, <2>3, <2>4
<1> QED  BY <1>9, <1>10, <1>11, <1>12 DEF HandleFrame, f

\* A step of a task: what it leaves to do.
LEMMA ContinueType ==
    ASSUME TypeOK, NEW p \in Peers, NEW job, NEW next \in SUBSET Job, Continue(p, job, next)
    PROVE  /\ jobs' \in [Peers -> SUBSET Job]
           /\ \A x \in Peers : x # p => jobs'[x] = jobs[x]
           /\ jobs'[p] \subseteq jobs[p] \cup next
  BY DEF TypeOK, Continue

LEMMA StepType ==
    ASSUME TypeOK, NEW e \in Ends, NEW from, NEW to \in {"offered", "stable"}, Step(e, from, to)
    PROVE  /\ pc' \in [Ends -> {"none", "new", "offered", "stable", "closed"}]
           /\ table' \in [Peers -> [Peers -> Roles \cup {"none"}]]
           /\ reached' \in [Ends -> BOOLEAN]
  BY DEF TypeOK, Step

LEMMA KeptAreEnds ==
    ASSUME NEW p \in Peers, NEW q \in Peers PROVE Kept(p, q) \subseteq Ends
  BY EndsAreEnds DEF Kept

LEMMA RunType ==
    ASSUME TypeOK, NEW p \in Peers, NEW job \in jobs[p], Run(p, job)
    PROVE  TypeOK'
<1>1. job \in Job /\ job.with \in Peers /\ (job.does \in {"gather", "candidate"} => job.role \in Roles)
  BY FrameTypes DEF TypeOK
<1>2. place' = place /\ host' = host /\ notices' = notices /\ endings' = endings
  BY DEF Run, serverVars
<1>3. "offerer" \in Roles /\ "answerer" \in Roles
  BY DEF Roles
<1> DEFINE Rest ==
        /\ inbox' \in [Peers -> Seq(Frame)]
        /\ jobs' \in [Peers -> SUBSET Job]
        /\ pc' \in [Ends -> {"none", "new", "offered", "stable", "closed"}]
        /\ table' \in [Peers -> [Peers -> Roles \cup {"none"}]]
        /\ reached' \in [Ends -> BOOLEAN]
<1>4. ASSUME Initiate(p, job) PROVE Rest
  <2>1. {J("describe", job.with)} \in SUBSET Job
    BY <1>1, FrameTypes
  <2> QED  BY <1>1, <1>3, <1>4, <2>1, NewEndType, ContinueType DEF Initiate, TypeOK
<1>5. ASSUME Describe(p, job) PROVE Rest
  <2>1. F("offer", p) \in Frame /\ Gather(p, job.with, "offerer") \in SUBSET Job
    BY <1>1, <1>3, FrameTypes
  <2>2. <<p, job.with, "offerer">> \in Ends
    BY <1>1, <1>3, EndsAreEnds
  <2> QED  BY <1>1, <1>5, <2>1, <2>2, StepType, RouteAdds, ContinueType DEF Describe
<1>6. ASSUME TakeOffer(p, job) PROVE Rest
  <2>1. {J("accept", job.with)} \in SUBSET Job
    BY <1>1, FrameTypes
  <2> QED  BY <1>1, <1>3, <1>6, <2>1, NewEndType, ContinueType DEF TakeOffer, TypeOK
<1>7. ASSUME Accept(p, job) PROVE Rest
  <2>1. F("answer", p) \in Frame /\ Gather(p, job.with, "answerer") \in SUBSET Job
    BY <1>1, <1>3, FrameTypes
  <2>2. <<p, job.with, "answerer">> \in Ends
    BY <1>1, <1>3, EndsAreEnds
  <2> QED  BY <1>1, <1>7, <2>1, <2>2, StepType, RouteAdds, ContinueType DEF Accept
<1>8. ASSUME TakeAnswer(p, job) PROVE Rest
  <2>1. PICK e \in Kept(p, job.with) : Step(e, "offered", "stable")
    BY <1>8 DEF TakeAnswer
  <2>2. e \in Ends
    BY <1>1, KeptAreEnds
  <2> QED  BY <1>8, <2>1, <2>2, StepType, ContinueType DEF TakeAnswer, TypeOK
<1>9. ASSUME SendCandidate(p, job) PROVE Rest
  <2>1. [type |-> "candidate", who |-> p, role |-> job.role] \in Frame
    BY <1>1, <1>9, FrameTypes DEF SendCandidate
  <2> QED  BY <1>1, <1>9, <2>1, RouteAdds, ContinueType DEF SendCandidate, TypeOK, endVars
<1>10. ASSUME TakeCandidate(p, job) PROVE Rest
  <2>1. PICK e \in Kept(p, job.with) : reached' = [reached EXCEPT ![e] = TRUE]
    BY <1>10 DEF TakeCandidate
  <2>2. reached' \in [Ends -> BOOLEAN]
    BY <2>1 DEF TypeOK
  <2> QED  BY <1>10, <2>2, ContinueType DEF TakeCandidate, TypeOK
<1>11. ASSUME Fail(p, job) PROVE Rest
  <2>1. Continue(p, job, {}) /\ UNCHANGED <<inbox, table, pc, reached>>
    BY <1>11 DEF Fail, endVars
  <2> QED  BY <2>1, ContinueType DEF TypeOK
<1>12. Rest
  BY <1>4, <1>5, <1>6, <1>7, <1>8, <1>9, <1>10, <1>11 DEF Run
<1> QED  BY <1>2, <1>12 DEF TypeOK

LEMMA TypeStep == TypeOK /\ [Next]_vars => TypeOK'
<1> SUFFICES ASSUME TypeOK, [Next]_vars PROVE TypeOK'
  OBVIOUS
<1>1. CASE \E p \in Peers : Enter(p)
  BY <1>1, EnterType
<1>2. ASSUME NEW p \in Peers, LoseConnection(p) PROVE TypeOK'
  <2>1. EndSession(p) /\ UNCHANGED <<host, jobs, table, pc, reached>>
    BY <1>2 DEF LoseConnection, EndSession, endVars
  <2>2. endings' \in 0..MaxEndings
    BY <1>2, BoundIsNatural DEF LoseConnection, TypeOK
  <2> QED  BY <2>1, <2>2, EndSessionType DEF TypeOK
<1>3. ASSUME NEW p \in Peers, HandleLeave(p) PROVE TypeOK'
  <2>1. EndSession(p) /\ UNCHANGED <<host, jobs, table, pc, reached, endings>>
    BY <1>3 DEF HandleLeave, EndSession, endVars
  <2> QED  BY <2>1, EndSessionType DEF TypeOK
<1>4. CASE \E p \in Peers : Leave(p)
  BY <1>4, LeaveType
<1>5. CASE \E p \in Peers : HandleFrame(p)
  BY <1>5, HandleFrameType
<1>6. CASE \E p \in Peers : \E job \in jobs[p] : Run(p, job)
  BY <1>6, RunType
<1>7. CASE \E n \in notices : SendNotice(n)
  BY <1>7, SendNoticeType
<1>8. CASE UNCHANGED vars
  BY <1>8 DEF TypeOK, vars
<1> QED  BY <1>1, <1>2, <1>3, <1>4, <1>5, <1>6, <1>7, <1>8 DEF Next

\* Frames, tasks and ends keep their types, whoever comes and goes
\* (webrtc_session.rs, protocol.rs).
THEOREM MeshTypes == Spec => []TypeOK
  BY TypeInit, TypeStep, PTL DEF Spec
-----------------------------------------------------------------------------
\* Who offers to whom.

\* p offers q a connection, or is about to, or did: its being told of q, its
\* task, its end, its offer on the way, the task at q and the end there.
Calls(p, q) ==
    \/ [to |-> p, frame |-> F("joined", q)] \in notices
    \/ F("joined", q) \in Elements(inbox[p])
    \/ \E j \in jobs[p] : j.does \in {"initiate", "describe"} /\ j.with = q
    \/ pc[<<p, q, "offerer">>] # "none"
    \/ F("offer", p) \in Elements(inbox[q])
    \/ \E j \in jobs[q] : j.does \in {"offer", "accept"} /\ j.with = p
    \/ pc[<<q, p, "answerer">>] # "none"

CallsGoOneWay ==
    \A p, q \in Peers : p # q /\ Calls(p, q) =>
        place[p] # "out" /\ place[q] # "out" /\ ~Calls(q, p)

\* Only ends that exist are kept, so that closing them makes no new one.
KeptAreMade ==
    \A p, q \in Peers, r \in Roles : table[p][q] = r => pc[<<p, q, r>>] # "none"

IndInv == TypeOK /\ KeptAreMade /\ CallsGoOneWay

\* A step that starts no call and lets nobody be outside again.
Quiet ==
    /\ \A x \in Peers : place[x] # "out" => place'[x] # "out"
    /\ \A x, y \in Peers : x # y /\ Calls(x, y)' => Calls(x, y)

LEMMA QuietKeeps == CallsGoOneWay /\ Quiet => CallsGoOneWay'
  BY DEF CallsGoOneWay, Quiet

LEMMA CallsInit == Init => KeptAreMade /\ CallsGoOneWay
<1> SUFFICES ASSUME Init PROVE KeptAreMade /\ CallsGoOneWay
  OBVIOUS
<1>1. KeptAreMade
  BY EndsAreEnds DEF Init, KeptAreMade, Roles
<1>2. ASSUME NEW p \in Peers, NEW q \in Peers, p # q PROVE ~Calls(p, q)
  <2>1. pc[<<p, q, "offerer">>] = "none" /\ pc[<<q, p, "answerer">>] = "none"
    BY <1>2, EndsAreEnds DEF Init, Roles
  <2>2. Elements(inbox[p]) = {} /\ Elements(inbox[q]) = {}
    BY EmptySeq, LenProperties DEF Init, Elements
  <2> QED  BY <2>1, <2>2 DEF Init, Calls
<1> QED  BY <1>1, <1>2 DEF CallsGoOneWay

LEMMA FramesDiffer ==
    \A p, q : /\ F("left", p) # F("joined", q) /\ F("left", p) # F("offer", q)
              /\ F("offer", p) # F("joined", q)
              /\ F("answer", p) # F("joined", q) /\ F("answer", p) # F("offer", q)
              /\ F("joined", p) = F("joined", q) => p = q
              /\ F("offer", p) = F("offer", q) => p = q
              /\ \A r : [type |-> "candidate", who |-> p, role |-> r]
                          \notin {F("joined", q), F("offer", q)}
  BY DEF F

\* Closing kept ends.
LEMMA CloseKept ==
    ASSUME TypeOK, KeptAreMade, NEW p \in Peers, NEW qs \in SUBSET Peers,
           Close(UNION {Kept(p, q) : q \in qs})
    PROVE  \A e \in Ends : pc'[e] # "none" <=> pc[e] # "none"
<1> SUFFICES ASSUME NEW e \in Ends PROVE pc'[e] # "none" <=> pc[e] # "none"
  OBVIOUS
<1> DEFINE ends == UNION {Kept(p, q) : q \in qs}
<1>1. pc'[e] = IF e \in ends THEN "closed" ELSE pc[e]
  BY DEF Close
<1>2. e \in ends => pc[e] # "none"
  BY DEF Kept, KeptAreMade
<1> QED  BY <1>1, <1>2

LEMMA EnterCalls ==
    ASSUME IndInv, NEW n \in Peers, Enter(n)
    PROVE  KeptAreMade' /\ CallsGoOneWay'
<1> USE DEF IndInv
<1>1. /\ place[n] = "out"
      /\ \A x \in Peers : place'[x] = IF x = n THEN "in" ELSE place[x]
      /\ jobs' = jobs /\ table' = table /\ pc' = pc
  BY DEF Enter, TypeOK, endVars
<1>2. KeptAreMade'
  BY <1>1 DEF KeptAreMade
<1>3. \A x, y \in Peers : x # y /\ Calls(x, y)' =>
          Calls(x, y) \/ (y = n /\ x \in Inside)
  <2> SUFFICES ASSUME NEW x \in Peers, NEW y \in Peers, x # y, Calls(x, y)'
               PROVE  Calls(x, y) \/ (y = n /\ x \in Inside)
    OBVIOUS
  <2>1. CASE inbox' = [inbox EXCEPT ![n] = <<F("joined", n)>>] /\ notices' = notices
    <3>1. \A z \in Peers : inbox'[z] = IF z = n THEN <<F("joined", n)>> ELSE inbox[z]
      BY <2>1 DEF TypeOK
    <3>2. Elements(<<F("joined", n)>>) = {F("joined", n)}
      BY DEF Elements
    <3>3. F("joined", y) \in Elements(inbox'[x]) => F("joined", y) \in Elements(inbox[x])
      BY <3>1, <3>2, FramesDiffer
    <3>4. F("offer", x) \in Elements(inbox'[y]) => F("offer", x) \in Elements(inbox[y])
      BY <3>1, <3>2, FramesDiffer
    <3> QED  BY <1>1, <2>1, <3>3, <3>4 DEF Calls
  <2>2. CASE notices' = Tell(Inside, F("joined", n)) /\ inbox' = inbox
    <3>1. [to |-> x, frame |-> F("joined", y)] \in notices' =>
            \/ [to |-> x, frame |-> F("joined", y)] \in notices
            \/ y = n /\ x \in Inside
      BY <2>2, FramesDiffer DEF Tell
    <3> QED  BY <1>1, <2>2, <3>1 DEF Calls
  <2> QED  BY <2>1, <2>2 DEF Enter
<1>4. \A x \in Peers : x \in Inside => place[x] # "out"
  BY DEF Inside
<1>5. CallsGoOneWay'
  BY <1>1, <1>3, <1>4 DEF CallsGoOneWay
<1> QED  BY <1>2, <1>5

LEMMA EndSessionCalls ==
    ASSUME IndInv, NEW p \in Peers, EndSession(p)
    PROVE  KeptAreMade' /\ CallsGoOneWay'
<1> USE DEF IndInv
<1>1. /\ \A x \in Peers : place'[x] = IF x = p THEN "gone" ELSE place[x]
      /\ jobs' = jobs /\ table' = table /\ pc' = pc
      /\ notices' = Tell(Inside \ {p}, F("left", p))
  BY DEF EndSession, TypeOK, endVars
<1>2. KeptAreMade'
  BY <1>1 DEF KeptAreMade
<1>3. \A x, y \in Peers : [to |-> x, frame |-> F("joined", y)] \in notices' =>
          [to |-> x, frame |-> F("joined", y)] \in notices
  BY <1>1, FramesDiffer DEF Tell
<1>4. \A x \in Peers : Elements(inbox'[x]) \subseteq Elements(inbox[x])
  BY EndSessionType
<1>5. \A x, y \in Peers : Calls(x, y)' => Calls(x, y)
  BY <1>1, <1>3, <1>4 DEF Calls
<1> QED  BY <1>1, <1>2, <1>5, QuietKeeps DEF Quiet

LEMMA SendNoticeCalls ==
    ASSUME IndInv, NEW n \in notices, SendNotice(n)
    PROVE  KeptAreMade' /\ CallsGoOneWay'
<1> USE DEF IndInv
<1>1. /\ place' = place /\ jobs' = jobs /\ table' = table /\ pc' = pc
      /\ notices' \subseteq notices
  BY DEF SendNotice, endVars
<1>2. KeptAreMade'
  BY <1>1 DEF KeptAreMade
<1>3. n = [to |-> n.to, frame |-> n.frame]
  BY DEF TypeOK
<1>4. \A x \in Peers : Elements(inbox'[x]) \subseteq
          Elements(inbox[x]) \cup (IF x = n.to THEN {n.frame} ELSE {})
  BY SendNoticeType
<1>5. n.frame.type \in {"joined", "left"}
  BY DEF TypeOK, News
<1>6. \A x, y \in Peers : Calls(x, y)' => Calls(x, y)
  BY <1>1, <1>3, <1>4, <1>5 DEF Calls, F
<1> QED  BY <1>1, <1>2, <1>6, QuietKeeps DEF Quiet

LEMMA LeaveCalls ==
    ASSUME IndInv, NEW p \in Peers, Leave(p)
    PROVE  KeptAreMade' /\ CallsGoOneWay'
<1> USE DEF IndInv
<1>1. /\ \A x \in Peers : place[x] # "out" => place'[x] # "out"
      /\ jobs' = jobs /\ inbox' = inbox /\ notices' = notices
      /\ \A x, y \in Peers : table'[x][y] = IF x = p THEN "none" ELSE table[x][y]
  BY DEF Leave, TypeOK
<1>2. \A e \in Ends : pc'[e] # "none" <=> pc[e] # "none"
  BY CloseKept DEF Leave
<1>3. KeptAreMade'
  BY <1>1, <1>2, EndsAreEnds DEF KeptAreMade, Roles
<1>4. \A x, y \in Peers : Calls(x, y)' => Calls(x, y)
  <2> SUFFICES ASSUME NEW x \in Peers, NEW y \in Peers, Calls(x, y)' PROVE Calls(x, y)
    OBVIOUS
  <2>1. <<x, y, "offerer">> \in Ends /\ <<y, x, "answerer">> \in Ends
    BY EndsAreEnds DEF Roles
  <2> QED  BY <1>1, <1>2, <2>1 DEF Calls
<1> QED  BY <1>1, <1>3, <1>4, QuietKeeps DEF Quiet

LEMMA HandleFrameCalls ==
    ASSUME IndInv, NEW p \in Peers, HandleFrame(p)
    PROVE  KeptAreMade' /\ CallsGoOneWay'
<1> USE DEF IndInv
<1>1. place' = place /\ notices' = notices
  BY DEF HandleFrame, serverVars
<1>2. /\ \A x \in Peers : Elements(inbox'[x]) \subseteq Elements(inbox[x])
      /\ \A x \in Peers : x # p => jobs'[x] = jobs[x]
      /\ \A j \in jobs'[p] :
            \/ j \in jobs[p]
            \/ j.does = "candidate"
            \/ /\ j.does = "initiate"
               /\ F("joined", j.with) \in Elements(inbox[p])
            \/ /\ j.does \in {"offer", "answer"}
               /\ F(j.does, j.with) \in Elements(inbox[p])
  BY HandleFrameType
<1>3. /\ \A e \in Ends : pc'[e] # "none" <=> pc[e] # "none"
      /\ \A x, y \in Peers, r \in Roles : table'[x][y] = r => table[x][y] = r
  <2>1. CASE UNCHANGED endVars
    BY <2>1 DEF endVars
  <2>2. CASE RemovePeer(p, Head(inbox[p]).who)
    <3>1. Head(inbox[p]).who \in Peers
      <4>1. inbox[p] \in Seq(Frame) /\ inbox[p] # <<>>
        BY DEF TypeOK, HandleFrame
      <4> QED  BY <4>1, HeadTailElements, FrameTypes
    <3> DEFINE qs == {Head(inbox[p]).who}
    <3>2. qs \in SUBSET Peers /\ Close(UNION {Kept(p, q) : q \in qs})
      BY <2>2, <3>1 DEF RemovePeer, Close
    <3> HIDE DEF qs
    <3>3. \A e \in Ends : pc'[e] # "none" <=> pc[e] # "none"
      BY <3>2, CloseKept
    <3>4. \A x, y \in Peers, r \in Roles : table'[x][y] = r => table[x][y] = r
      BY <2>2 DEF RemovePeer, TypeOK, Roles
    <3> QED  BY <3>3, <3>4
  <2> QED  BY <2>1, <2>2 DEF HandleFrame
<1>4. KeptAreMade'
  BY <1>3, EndsAreEnds DEF KeptAreMade
<1>5. \A x, y \in Peers : Calls(x, y)' => Calls(x, y)
  <2> SUFFICES ASSUME NEW x \in Peers, NEW y \in Peers, Calls(x, y)' PROVE Calls(x, y)
    OBVIOUS
  <2>1. <<x, y, "offerer">> \in Ends /\ <<y, x, "answerer">> \in Ends
    BY EndsAreEnds DEF Roles
  <2>2. (\E j \in jobs'[x] : j.does \in {"initiate", "describe"} /\ j.with = y) =>
          \/ \E j \in jobs[x] : j.does \in {"initiate", "describe"} /\ j.with = y
          \/ F("joined", y) \in Elements(inbox[x])
    BY <1>2
  <2>3. (\E j \in jobs'[y] : j.does \in {"offer", "accept"} /\ j.with = x) =>
          \/ \E j \in jobs[y] : j.does \in {"offer", "accept"} /\ j.with = x
          \/ F("offer", x) \in Elements(inbox[y])
    BY <1>2
  <2> QED  BY <1>1, <1>2, <1>3, <2>1, <2>2, <2>3 DEF Calls
<1> QED  BY <1>1, <1>4, <1>5, QuietKeeps DEF Quiet

\* The end that a task makes or advances belongs to a call that goes on.
LEMMA RunCalls ==
    ASSUME IndInv, NEW p \in Peers, NEW job \in jobs[p], Run(p, job)
    PROVE  KeptAreMade' /\ CallsGoOneWay'
<1> USE DEF IndInv
<1>1. job \in Job /\ job.with \in Peers /\ (job.does \in {"gather", "candidate"} => job.role \in Roles)
  BY FrameTypes DEF TypeOK
<1>2. place' = place /\ notices' = notices
  BY DEF Run, serverVars
<1>3. /\ \A q \in Peers, r \in Roles : <<p, q, r>> \in Ends
      /\ "offerer" \in Roles /\ "answerer" \in Roles
  BY EndsAreEnds DEF Roles
<1> DEFINE Goal == KeptAreMade' /\ \A x, y \in Peers : Calls(x, y)' => Calls(x, y)
<1>4. ASSUME Initiate(p, job) PROVE Goal
  <2>1. /\ Calls(p, job.with) /\ inbox' = inbox
        /\ \A e \in Ends : pc'[e] = IF e = <<p, job.with, "offerer">> THEN "new" ELSE pc[e]
        /\ \A x, y \in Peers : table'[x][y] =
              IF x = p /\ y = job.with THEN "offerer" ELSE table[x][y]
    BY <1>1, <1>4 DEF Initiate, NewEnd, TypeOK, Calls
  <2>2. KeptAreMade'
    BY <2>1, EndsAreEnds, ZenonT(60) DEF KeptAreMade, Roles
  <2>3. \A x \in Peers : \A j \in jobs'[x] : j \in jobs[x] \/ (x = p /\ j = J("describe", job.with))
    BY <1>4 DEF Initiate, Continue, TypeOK
  <2>4. \A x, y \in Peers : Calls(x, y)' => Calls(x, y)
    <3> SUFFICES ASSUME NEW x \in Peers, NEW y \in Peers, Calls(x, y)' PROVE Calls(x, y)
      OBVIOUS
    <3>1. <<x, y, "offerer">> \in Ends /\ <<y, x, "answerer">> \in Ends
      BY EndsAreEnds DEF Roles
    <3> QED  BY <1>2, <2>1, <2>3, <3>1 DEF Calls, J
  <2> QED  BY <2>2, <2>4
<1>5. ASSUME Describe(p, job) PROVE Goal
  <2>1. /\ Calls(p, job.with) /\ table' = table
        /\ pc[<<p, job.with, "offerer">>] = "new"
        /\ \A e \in Ends : pc'[e] = IF e = <<p, job.with, "offerer">> THEN "offered" ELSE pc[e]
    BY <1>1, <1>3, <1>5 DEF Describe, Step, TypeOK, Calls
  <2>2. KeptAreMade'
    BY <2>1, EndsAreEnds DEF KeptAreMade
  <2>3. \A x \in Peers : \A j \in jobs'[x] : j \in jobs[x] \/ j.does = "gather"
    BY <1>5 DEF Describe, Continue, Gather, TypeOK
  <2>4. \A x \in Peers : Elements(inbox'[x]) \subseteq
            Elements(inbox[x]) \cup (IF x = job.with THEN {F("offer", p)} ELSE {})
    BY <1>1, <1>5, FrameTypes, RouteAdds DEF Describe
  <2>5. \A x, y \in Peers : Calls(x, y)' => Calls(x, y)
    <3> SUFFICES ASSUME NEW x \in Peers, NEW y \in Peers, Calls(x, y)' PROVE Calls(x, y)
      OBVIOUS
    <3>1. <<x, y, "offerer">> \in Ends /\ <<y, x, "answerer">> \in Ends
      BY EndsAreEnds DEF Roles
    <3>2. F("joined", y) \in Elements(inbox'[x]) => F("joined", y) \in Elements(inbox[x])
      BY <2>4, FramesDiffer
    <3>3. F("offer", x) \in Elements(inbox'[y]) => F("offer", x) \in Elements(inbox[y])
                                                    \/ (x = p /\ y = job.with)
      BY <2>4, FramesDiffer
    <3> QED  BY <1>2, <2>1, <2>3, <3>1, <3>2, <3>3 DEF Calls
  <2> QED  BY <2>2, <2>5
<1>6. ASSUME TakeOffer(p, job) PROVE Goal
  <2>1. /\ Calls(job.with, p) /\ inbox' = inbox
        /\ \A e \in Ends : pc'[e] = IF e = <<p, job.with, "answerer">> THEN "new" ELSE pc[e]
        /\ \A x, y \in Peers : table'[x][y] =
              IF x = p /\ y = job.with THEN "answerer" ELSE table[x][y]
    BY <1>1, <1>6 DEF TakeOffer, NewEnd, TypeOK, Calls
  <2>2. KeptAreMade'
    BY <2>1, EndsAreEnds, ZenonT(60) DEF KeptAreMade, Roles
  <2>3. \A x \in Peers : \A j \in jobs'[x] : j \in jobs[x] \/ (x = p /\ j = J("accept", job.with))
    BY <1>6 DEF TakeOffer, Continue, TypeOK
  <2>4. \A x, y \in Peers : Calls(x, y)' => Calls(x, y)
    <3> SUFFICES ASSUME NEW x \in Peers, NEW y \in Peers, Calls(x, y)' PROVE Calls(x, y)
      OBVIOUS
    <3>1. <<x, y, "offerer">> \in Ends /\ <<y, x, "answerer">> \in Ends
      BY EndsAreEnds DEF Roles
    <3> QED  BY <1>2, <2>1, <2>3, <3>1 DEF Calls, J
  <2> QED  BY <2>2, <2>4
<1>7. ASSUME Accept(p, job) PROVE Goal
  <2>1. /\ table' = table
        /\ pc[<<p, job.with, "answerer">>] = "new"
        /\ \A e \in Ends : pc'[e] = IF e = <<p, job.with, "answerer">> THEN "stable" ELSE pc[e]
    BY <1>1, <1>3, <1>7 DEF Accept, Step, TypeOK
  <2>2. KeptAreMade'
    BY <2>1, EndsAreEnds DEF KeptAreMade
  <2>3. \A x \in Peers : \A j \in jobs'[x] : j \in jobs[x] \/ j.does = "gather"
    BY <1>7 DEF Accept, Continue, Gather, TypeOK
  <2>4. \A x \in Peers : Elements(inbox'[x]) \subseteq
            Elements(inbox[x]) \cup (IF x = job.with THEN {F("answer", p)} ELSE {})
    BY <1>1, <1>7, FrameTypes, RouteAdds DEF Accept
  <2>5. \A x, y \in Peers : Calls(x, y)' => Calls(x, y)
    <3> SUFFICES ASSUME NEW x \in Peers, NEW y \in Peers, Calls(x, y)' PROVE Calls(x, y)
      OBVIOUS
    <3>1. <<x, y, "offerer">> \in Ends /\ <<y, x, "answerer">> \in Ends
      BY EndsAreEnds DEF Roles
    <3>2. F("joined", y) \in Elements(inbox'[x]) => F("joined", y) \in Elements(inbox[x])
      BY <2>4, FramesDiffer
    <3>3. F("offer", x) \in Elements(inbox'[y]) => F("offer", x) \in Elements(inbox[y])
      BY <2>4, FramesDiffer
    <3> QED  BY <1>2, <2>1, <2>3, <3>1, <3>2, <3>3 DEF Calls
  <2> QED  BY <2>2, <2>5
<1>8. ASSUME TakeAnswer(p, job) PROVE Goal
  <2>1. PICK e \in Kept(p, job.with) : Step(e, "offered", "stable")
    BY <1>8 DEF TakeAnswer
  <2>2. /\ table' = table /\ inbox' = inbox
        /\ \A d \in Ends : pc'[d] # "none" <=> pc[d] # "none"
    BY <1>8, <2>1 DEF TakeAnswer, Step, TypeOK
  <2>3. \A x \in Peers : jobs'[x] \subseteq jobs[x]
    BY <1>8 DEF TakeAnswer, Continue, TypeOK
  <2>4. KeptAreMade'
    BY <2>2, EndsAreEnds DEF KeptAreMade
  <2>5. \A x, y \in Peers : Calls(x, y)' => Calls(x, y)
    BY <1>2, <1>3, <2>2, <2>3, EndsAreEnds DEF Calls
  <2> QED  BY <2>4, <2>5
<1>9. ASSUME SendCandidate(p, job) PROVE Goal
  <2>1. /\ table' = table /\ pc' = pc
        /\ \A x \in Peers : jobs'[x] \subseteq jobs[x]
    BY <1>9 DEF SendCandidate, Continue, TypeOK, endVars
  <2> DEFINE f == [type |-> "candidate", who |-> p, role |-> job.role]
  <2>2. \A x \in Peers : Elements(inbox'[x]) \subseteq
            Elements(inbox[x]) \cup (IF x = job.with THEN {f} ELSE {})
    <3>1. f \in Frame /\ Route(p, job.with, f)
      BY <1>1, <1>9, FrameTypes DEF SendCandidate
    <3> HIDE DEF f
    <3>2. PICK q \in Peers : q = job.with
      BY <1>1
    <3>3. TypeOK /\ Route(p, q, f)
      BY <3>1, <3>2
    <3>4. \A x \in Peers : Elements(inbox'[x]) \subseteq
              Elements(inbox[x]) \cup (IF x = q THEN {f} ELSE {})
      BY ONLY <3>1, <3>3, RouteAdds, p \in Peers, q \in Peers, ZenonT(60)
    <3> QED  BY <3>2, <3>4
  <2>3. \A y : f # F("joined", y) /\ f # F("offer", y)
    BY FramesDiffer
  <2>4. KeptAreMade'
    BY <2>1 DEF KeptAreMade
  <2> HIDE DEF f
  <2>5. \A x, y \in Peers : Calls(x, y)' => Calls(x, y)
    BY <1>2, <2>1, <2>2, <2>3 DEF Calls
  <2> QED  BY <2>4, <2>5
<1>10. ASSUME TakeCandidate(p, job) \/ Fail(p, job) PROVE Goal
  <2>1. /\ table' = table /\ pc' = pc /\ inbox' = inbox
        /\ \A x \in Peers : jobs'[x] \subseteq jobs[x]
    BY <1>10 DEF TakeCandidate, Fail, Continue, TypeOK, endVars
  <2>2. KeptAreMade'
    BY <2>1 DEF KeptAreMade
  <2>3. \A x, y \in Peers : Calls(x, y)' => Calls(x, y)
    BY <1>2, <2>1 DEF Calls
  <2> QED  BY <2>2, <2>3
<1>11. Goal
  BY <1>4, <1>5, <1>6, <1>7, <1>8, <1>9, <1>10 DEF Run
<1> QED  BY <1>2, <1>11, QuietKeeps DEF Quiet

LEMMA CallsStep == IndInv /\ [Next]_vars => IndInv'
<1> SUFFICES ASSUME IndInv, [Next]_vars PROVE IndInv'
  OBVIOUS
<1>1. TypeOK'
  BY TypeStep DEF IndInv
<1>2. CASE \E p \in Peers : Enter(p)
  BY <1>1, <1>2, EnterCalls DEF IndInv
<1>3. CASE \E p \in Peers : LoseConnection(p) \/ HandleLeave(p)
  BY <1>1, <1>3, EndSessionCalls DEF LoseConnection, HandleLeave, IndInv
<1>4. CASE \E p \in Peers : Leave(p)
  BY <1>1, <1>4, LeaveCalls DEF IndInv
<1>5. CASE \E p \in Peers : HandleFrame(p)
  BY <1>1, <1>5, HandleFrameCalls DEF IndInv
<1>6. CASE \E p \in Peers : \E job \in jobs[p] : Run(p, job)
  BY <1>1, <1>6, RunCalls DEF IndInv
<1>7. CASE \E n \in notices : SendNotice(n)
  BY <1>1, <1>7, SendNoticeCalls DEF IndInv
<1>8. CASE UNCHANGED vars
  <2>1. KeptAreMade'
    BY <1>8 DEF IndInv, KeptAreMade, vars
  <2>2. Quiet
    BY <1>8 DEF Quiet, Calls, vars
  <2> QED  BY <1>1, <2>1, <2>2, QuietKeeps DEF IndInv
<1> QED  BY <1>2, <1>3, <1>4, <1>5, <1>6, <1>7, <1>8 DEF Next

\* Calls between two peers only ever go one way, from the one who was inside to
\* the one who came: the inductive invariant (commands.rs:511).
THEOREM CallsAreOneWay == Spec => []IndInv
<1>1. Init => IndInv
  BY TypeInit, CallsInit DEF IndInv
<1> QED  BY <1>1, CallsStep, PTL DEF Spec

\* Of two peers one offers and the other answers, for any number of peers and
\* whoever leaves or is lost (commands.rs:511, webrtc_session.rs:141).
THEOREM OnlyOneSideOffers == Spec => []OneSideOffers
<1>1. IndInv => OneSideOffers
  <2> SUFFICES ASSUME IndInv, NEW p \in Peers, NEW q \in Peers, p # q, NEW r \in Roles
               PROVE  pc[<<p, q, r>>] = "none" \/ pc[<<q, p, r>>] = "none"
    BY DEF OneSideOffers
  <2>1. ~(Calls(p, q) /\ Calls(q, p))
    BY DEF IndInv, CallsGoOneWay
  <2>2. CASE r = "offerer"
    BY <2>1, <2>2 DEF Calls
  <2>3. CASE r = "answerer"
    BY <2>1, <2>3 DEF Calls
  <2> QED  BY <2>2, <2>3 DEF Roles
<1> QED  BY <1>1, CallsAreOneWay, PTL
-----------------------------------------------------------------------------
\* How far the exchange of x, which offers, and y has got.

Never(s, f) == f \notin Elements(s)
Once(s, f) == \E i \in DOMAIN s : s[i] = f /\ \A j \in DOMAIN s : s[j] = f => j = i
Holds(s, f, b) == IF b THEN Once(s, f) ELSE Never(s, f)

Stages == {"told", "joined", "initiate", "describe", "offered",
           "offer", "accept", "answered", "answer", "done"}

\* What is on the way at stage s, each frame at most once.
Mail(x, y, s) ==
    /\ [to |-> x, frame |-> F("joined", y)] \in notices <=> s = "told"
    /\ Holds(inbox[x], F("joined", y), s = "joined")
    /\ Holds(inbox[y], F("offer", x), s = "offered")
    /\ Holds(inbox[x], F("answer", y), s = "answered")

\* The tasks that go on.
Tasks(x, y, s) ==
    /\ \A d \in {"initiate", "describe", "answer"} : J(d, y) \in jobs[x] <=> s = d
    /\ \A d \in {"offer", "accept"} : J(d, x) \in jobs[y] <=> s = d

Offerer(s) == IF s \in {"told", "joined", "initiate"} THEN "none"
              ELSE IF s = "describe" THEN "new" ELSE IF s = "done" THEN "stable" ELSE "offered"
Answerer(s) == IF s \in {"answered", "answer", "done"} THEN "stable"
               ELSE IF s = "accept" THEN "new" ELSE "none"

\* The two ends that are kept.
EndsAt(x, y, s) ==
    /\ table[x][y] = (IF Offerer(s) = "none" THEN "none" ELSE "offerer")
    /\ table[y][x] = (IF Answerer(s) = "none" THEN "none" ELSE "answerer")
    /\ pc[<<x, y, "offerer">>] = Offerer(s)
    /\ pc[<<y, x, "answerer">>] = Answerer(s)

InStage(x, y, s) == Mail(x, y, s) /\ Tasks(x, y, s) /\ EndsAt(x, y, s)

\* Any two that are in have an exchange that goes on, or is done.
Progress ==
    \A x, y \in Peers : x # y /\ place[x] = "in" /\ place[y] = "in" =>
        \E s \in Stages : InStage(x, y, s) \/ InStage(y, x, s)

\* Nobody is said to have left that may still be in.
LeftAreGone ==
    \A x, y \in Peers :
        \/ F("left", y) \in Elements(inbox[x])
        \/ [to |-> x, frame |-> F("left", y)] \in notices
        => place[y] = "gone"

AnswersAreMade ==
    \A x, y \in Peers : F("answer", y) \in Elements(inbox[x]) \/ J("answer", y) \in jobs[x]
                            => pc[<<y, x, "answerer">>] # "none"

PairInv == Progress /\ LeftAreGone /\ AnswersAreMade

\* Sequences that hold a frame once or never.
LEMMA AppendHolds ==
    ASSUME NEW S, NEW s \in Seq(S), NEW e \in S, NEW f, e # f, NEW b, Holds(s, f, b)
    PROVE  Holds(Append(s, e), f, b)
<1>1. /\ Len(Append(s, e)) = Len(s) + 1
      /\ \A i \in 1..Len(s) : Append(s, e)[i] = s[i]
      /\ Append(s, e)[Len(s) + 1] = e
      /\ Append(s, e) \in Seq(S)
  BY AppendProperties
<1>2. DOMAIN s = 1..Len(s) /\ DOMAIN Append(s, e) = 1..(Len(s) + 1) /\ Len(s) \in Nat
  BY <1>1, LenProperties
<1>3. \A i \in DOMAIN Append(s, e) : i \in DOMAIN s \/ i = Len(s) + 1
  BY <1>2
<1>4. \A i \in DOMAIN s : i \in DOMAIN Append(s, e) /\ Append(s, e)[i] = s[i]
  BY <1>1, <1>2
<1>5. \A i \in DOMAIN Append(s, e) : Append(s, e)[i] = f => i \in DOMAIN s /\ s[i] = f
  BY <1>1, <1>3, <1>4
<1>6. Never(s, f) => Never(Append(s, e), f)
  BY <1>5 DEF Never, Elements
<1>7. Once(s, f) => Once(Append(s, e), f)
  BY <1>4, <1>5 DEF Once
<1> QED  BY <1>6, <1>7 DEF Holds

LEMMA AppendOnce ==
    ASSUME NEW S, NEW s \in Seq(S), NEW f \in S, Never(s, f)
    PROVE  Once(Append(s, f), f)
<1>1. /\ Len(Append(s, f)) = Len(s) + 1
      /\ \A i \in 1..Len(s) : Append(s, f)[i] = s[i]
      /\ Append(s, f)[Len(s) + 1] = f
      /\ Append(s, f) \in Seq(S)
  BY AppendProperties
<1>2. DOMAIN s = 1..Len(s) /\ DOMAIN Append(s, f) = 1..(Len(s) + 1) /\ Len(s) \in Nat
  BY <1>1, LenProperties
<1>3. \A i \in DOMAIN Append(s, f) : i \in 1..Len(s) \/ i = Len(s) + 1
  BY <1>2
<1>4. Len(s) + 1 \in DOMAIN Append(s, f)
  BY <1>2
<1>5. \A i \in DOMAIN Append(s, f) : Append(s, f)[i] = f => i = Len(s) + 1
  BY <1>1, <1>2, <1>3 DEF Never, Elements
<1> QED  BY <1>1, <1>4, <1>5 DEF Once

LEMMA TailHolds ==
    ASSUME NEW S, NEW s \in Seq(S), s # <<>>, NEW f, NEW b, Holds(s, f, b)
    PROVE  /\ Head(s) # f => Holds(Tail(s), f, b)
           /\ Head(s) = f => b /\ Never(Tail(s), f)
<1>1. /\ Tail(s) \in Seq(S)
      /\ Len(Tail(s)) = Len(s) - 1
      /\ \A i \in 1..Len(Tail(s)) : Tail(s)[i] = s[i + 1]
  BY HeadTailProperties
<1>2. DOMAIN s = 1..Len(s) /\ DOMAIN Tail(s) = 1..(Len(s) - 1) /\ Len(s) \in Nat /\ Len(s) # 0
  BY <1>1, LenProperties, EmptySeq
<1>3. 1 \in DOMAIN s /\ Head(s) = s[1]
  BY <1>2
<1>4. \A i \in DOMAIN Tail(s) : i + 1 \in DOMAIN s /\ Tail(s)[i] = s[i + 1] /\ i + 1 # 1 /\ i \in Int
  BY <1>1, <1>2
<1>5. \A i \in DOMAIN s : i # 1 => i - 1 \in DOMAIN Tail(s) /\ (i - 1) + 1 = i
  BY <1>2
<1>6. Never(s, f) => Never(Tail(s), f) /\ Head(s) # f
  BY <1>3, <1>4 DEF Never, Elements
<1>7. ASSUME Once(s, f) PROVE /\ Head(s) # f => Once(Tail(s), f)
                              /\ Head(s) = f => Never(Tail(s), f)
  <2>1. PICK i \in DOMAIN s : s[i] = f /\ \A j \in DOMAIN s : s[j] = f => j = i
    BY <1>7 DEF Once
  <2>2. CASE Head(s) = f
    <3>1. i = 1
      BY <1>3, <2>1, <2>2
    <3>2. \A j \in DOMAIN Tail(s) : Tail(s)[j] # f
      BY <1>4, <2>1, <3>1
    <3> QED  BY <2>2, <3>2 DEF Never, Elements
  <2>3. CASE Head(s) # f
    <3>1. i # 1
      BY <1>3, <2>1, <2>3
    <3>2. i - 1 \in DOMAIN Tail(s) /\ Tail(s)[i - 1] = f
      BY <1>4, <1>5, <2>1, <3>1
    <3>3. \A j \in DOMAIN Tail(s) : Tail(s)[j] = f => j = i - 1
      <4> SUFFICES ASSUME NEW j \in DOMAIN Tail(s), Tail(s)[j] = f PROVE j = i - 1
        OBVIOUS
      <4>1. j + 1 = i /\ j \in Int
        BY <1>4, <2>1
      <4> QED  BY <4>1
    <3> QED  BY <2>3, <3>2, <3>3 DEF Once
  <2> QED  BY <2>2, <2>3
<1> QED  BY <1>6, <1>7 DEF Holds

LEMMA OnceIsThere == \A s, f : Once(s, f) => ~Never(s, f)
  BY DEF Once, Never, Elements
-----------------------------------------------------------------------------
\* What a step does to the exchange of x and y.

\* The step neither sends nor takes frame f at z.
Passes(z, f) == \A b \in BOOLEAN : Holds(inbox[z], f, b) => Holds(inbox'[z], f, b)

LEMMA PassesAppend ==
    ASSUME TypeOK, NEW z \in Peers, NEW f, NEW e \in Frame, e # f,
           inbox'[z] = inbox[z] \/ inbox'[z] = Append(inbox[z], e)
    PROVE  Passes(z, f)
<1>1. inbox[z] \in Seq(Frame)
  BY DEF TypeOK
<1>2. CASE inbox'[z] = inbox[z]
  BY <1>2 DEF Passes
<1>3. CASE inbox'[z] = Append(inbox[z], e)
  <2> SUFFICES ASSUME NEW b \in BOOLEAN, Holds(inbox[z], f, b) PROVE Holds(inbox'[z], f, b)
    BY DEF Passes
  <2>1. Holds(Append(inbox[z], e), f, b)
    BY <1>1, AppendHolds
  <2> QED  BY <1>3, <2>1
<1> QED  BY <1>2, <1>3

LEMMA PassesTail ==
    ASSUME TypeOK, NEW z \in Peers, NEW f,
           \/ inbox'[z] = inbox[z]
           \/ inbox[z] # <<>> /\ Head(inbox[z]) # f /\ inbox'[z] = Tail(inbox[z])
    PROVE  Passes(z, f)
<1>1. inbox[z] \in Seq(Frame)
  BY DEF TypeOK
<1>2. CASE inbox'[z] = inbox[z]
  BY <1>2 DEF Passes
<1>3. CASE inbox[z] # <<>> /\ Head(inbox[z]) # f /\ inbox'[z] = Tail(inbox[z])
  <2> SUFFICES ASSUME NEW b \in BOOLEAN, Holds(inbox[z], f, b) PROVE Holds(inbox'[z], f, b)
    BY DEF Passes
  <2>1. Holds(Tail(inbox[z]), f, b)
    BY <1>1, <1>3, TailHolds
  <2> QED  BY <1>3, <2>1
<1> QED  BY <1>2, <1>3

LEMMA MailSame ==
    ASSUME NEW x, NEW y, NEW s, Mail(x, y, s),
           Passes(x, F("joined", y)), Passes(y, F("offer", x)), Passes(x, F("answer", y)),
           [to |-> x, frame |-> F("joined", y)] \in notices' <=>
               [to |-> x, frame |-> F("joined", y)] \in notices
    PROVE  Mail(x, y, s)'
<1>1. (s = "joined") \in BOOLEAN /\ (s = "offered") \in BOOLEAN /\ (s = "answered") \in BOOLEAN
  OBVIOUS
<1> QED  BY <1>1 DEF Mail, Passes

LEMMA TasksSame ==
    ASSUME NEW x, NEW y, NEW s, Tasks(x, y, s),
           \A d \in {"initiate", "describe", "answer"} : J(d, y) \in jobs'[x] <=> J(d, y) \in jobs[x],
           \A d \in {"offer", "accept"} : J(d, x) \in jobs'[y] <=> J(d, x) \in jobs[y]
    PROVE  Tasks(x, y, s)'
  BY DEF Tasks

LEMMA EndsSame ==
    ASSUME NEW x, NEW y, NEW s, EndsAt(x, y, s),
           table'[x][y] = table[x][y], table'[y][x] = table[y][x],
           pc'[<<x, y, "offerer">>] = pc[<<x, y, "offerer">>],
           pc'[<<y, x, "answerer">>] = pc[<<y, x, "answerer">>]
    PROVE  EndsAt(x, y, s)'
  BY DEF EndsAt

LEMMA JobsDiffer ==
    \A c, d, p, q : J(c, p) = J(d, q) <=> c = d /\ p = q
  BY DEF J

LEMMA FramesEqual ==
    \A c, d, p, q : F(c, p) = F(d, q) <=> c = d /\ p = q
  BY DEF F

LEMMA JobShapes ==
    \A j \in Job : j.does \notin {"gather", "candidate"} => j = J(j.does, j.with)
  BY DEF Job, J

\* Whatever its stage, an exchange is a call, so that there is none the other way.
LEMMA StageCalls ==
    ASSUME IndInv, AnswersAreMade, NEW x \in Peers, NEW y \in Peers, x # y,
           NEW s \in Stages, InStage(x, y, s)
    PROVE  /\ \A d \in {"initiate", "describe", "answer"} : J(d, x) \notin jobs[y]
           /\ \A d \in {"offer", "accept"} : J(d, y) \notin jobs[x]
           /\ F("joined", x) \notin Elements(inbox[y])
           /\ F("answer", x) \notin Elements(inbox[y])
           /\ F("offer", y) \notin Elements(inbox[x])
<1>1. Calls(x, y)
  <2>1. CASE s = "told"
    BY <2>1 DEF InStage, Mail, Calls
  <2>2. CASE s = "joined"
    <3>1. Once(inbox[x], F("joined", y))
      BY <2>2 DEF InStage, Mail, Holds
    <3> QED  BY <3>1, OnceIsThere DEF Never, Calls
  <2>3. CASE s = "initiate"
    <3>1. J("initiate", y) \in jobs[x]
      BY <2>3 DEF InStage, Tasks
    <3>2. J("initiate", y).does = "initiate" /\ J("initiate", y).with = y
      BY DEF J
    <3> QED  BY <3>1, <3>2 DEF Calls
  <2>4. CASE s \notin {"told", "joined", "initiate"}
    <3>1. pc[<<x, y, "offerer">>] # "none"
      BY <2>4 DEF InStage, EndsAt, Offerer
    <3> QED  BY <3>1 DEF Calls
  <2> QED  BY <2>1, <2>2, <2>3, <2>4
<1>2. ~Calls(y, x)
  BY <1>1 DEF IndInv, CallsGoOneWay
<1>3. \A d, z : J(d, z).does = d /\ J(d, z).with = z
  BY DEF J
<1>4. pc[<<x, y, "answerer">>] = "none"
  BY <1>2 DEF Calls
<1>5. /\ J("answer", x) \notin jobs[y]
      /\ F("answer", x) \notin Elements(inbox[y])
  BY <1>4 DEF AnswersAreMade
<1>6. /\ \A d \in {"initiate", "describe"} : J(d, x) \notin jobs[y]
      /\ \A d \in {"offer", "accept"} : J(d, y) \notin jobs[x]
      /\ F("joined", x) \notin Elements(inbox[y])
      /\ F("offer", y) \notin Elements(inbox[x])
  BY <1>2, <1>3 DEF Calls
<1> QED  BY <1>5, <1>6

-----------------------------------------------------------------------------
\* No step takes the exchange of two that stay back, or ends it before it is done.

Steady(x, y) == \A s \in Stages : InStage(x, y, s) => \E t \in Stages : InStage(x, y, t)'

LEMMA TellAdds ==
    ASSUME NEW others, NEW f, NEW z, NEW g
    PROVE  [to |-> z, frame |-> g] \in Tell(others, f) <=>
               [to |-> z, frame |-> g] \in notices \/ (z \in others /\ g = f)
<1>1. \A q : [to |-> z, frame |-> g] = [to |-> q, frame |-> f] <=> z = q /\ g = f
  <2> SUFFICES ASSUME NEW q, [to |-> z, frame |-> g] = [to |-> q, frame |-> f]
               PROVE  z = q /\ g = f
    OBVIOUS
  <2>1. /\ [to |-> z, frame |-> g].to = z /\ [to |-> q, frame |-> f].to = q
        /\ [to |-> z, frame |-> g].frame = g /\ [to |-> q, frame |-> f].frame = f
    OBVIOUS
  <2> QED  BY <2>1
<1> QED  BY <1>1 DEF Tell

LEMMA EnterSteady ==
    ASSUME IndInv, NEW n \in Peers, Enter(n), NEW x \in Peers, NEW y \in Peers,
           x # y, x # n, y # n, place[x] = "in"
    PROVE  Steady(x, y)
<1> SUFFICES ASSUME NEW s \in Stages, InStage(x, y, s) PROVE InStage(x, y, s)'
  BY DEF Steady
<1>1. Inside # {}
  BY DEF Inside
<1>2. /\ notices' = Tell(Inside, F("joined", n)) /\ inbox' = inbox
      /\ jobs' = jobs /\ table' = table /\ pc' = pc
  BY <1>1 DEF Enter, endVars
<1>3. [to |-> x, frame |-> F("joined", y)] \in notices' <=>
          [to |-> x, frame |-> F("joined", y)] \in notices
  BY <1>2, FramesEqual, TellAdds
<1>4. /\ Passes(x, F("joined", y)) /\ Passes(y, F("offer", x)) /\ Passes(x, F("answer", y))
  BY <1>2 DEF Passes
<1> QED  BY <1>2, <1>3, <1>4, MailSame, TasksSame, EndsSame DEF InStage

\* A newcomer is told to all inside, and to none of them twice.
LEMMA EnterStarts ==
    ASSUME IndInv, AnswersAreMade, NEW n \in Peers, Enter(n), NEW x \in Peers,
           x # n, place[x] = "in"
    PROVE  InStage(x, n, "told")'
<1>1. x \in Inside /\ place[n] = "out"
  BY DEF Inside, Enter
<1>2. /\ notices' = Tell(Inside, F("joined", n)) /\ inbox' = inbox
      /\ jobs' = jobs /\ table' = table /\ pc' = pc
  BY <1>1 DEF Enter, endVars
<1>3. ~Calls(x, n) /\ ~Calls(n, x)
  BY <1>1 DEF IndInv, CallsGoOneWay
<1>4. [to |-> x, frame |-> F("joined", n)] \in notices'
  BY <1>1, <1>2 DEF Tell
<1>5. \A d, z : J(d, z).does = d /\ J(d, z).with = z
  BY DEF J
<1>6. /\ pc[<<x, n, "offerer">>] = "none" /\ pc[<<n, x, "answerer">>] = "none"
      /\ pc[<<n, x, "offerer">>] = "none" /\ pc[<<x, n, "answerer">>] = "none"
  BY <1>3 DEF Calls
<1>7. table[x][n] = "none" /\ table[n][x] = "none"
  <2>1. /\ table[x][n] \in {"offerer", "answerer", "none"}
        /\ table[n][x] \in {"offerer", "answerer", "none"}
    BY DEF IndInv, TypeOK, Roles
  <2> QED  BY <1>6, <2>1 DEF IndInv, KeptAreMade, Roles
<1>8. /\ F("joined", n) \notin Elements(inbox[x])
      /\ F("offer", x) \notin Elements(inbox[n])
      /\ F("answer", n) \notin Elements(inbox[x])
  BY <1>3, <1>6 DEF Calls, AnswersAreMade
<1>9. /\ \A d \in {"initiate", "describe", "answer"} : J(d, n) \notin jobs[x]
      /\ \A d \in {"offer", "accept"} : J(d, x) \notin jobs[n]
  BY <1>3, <1>5, <1>6 DEF Calls, AnswersAreMade
<1>10. Mail(x, n, "told")'
  BY <1>2, <1>4, <1>8 DEF Mail, Holds, Never
<1>11. Tasks(x, n, "told")'
  BY <1>2, <1>9 DEF Tasks
<1>12. EndsAt(x, n, "told")'
  BY <1>2, <1>6, <1>7 DEF EndsAt, Offerer, Answerer
<1> QED  BY <1>10, <1>11, <1>12 DEF InStage

LEMMA EndSessionSteady ==
    ASSUME IndInv, NEW p \in Peers, EndSession(p), NEW x \in Peers, NEW y \in Peers,
           x # y, x # p, y # p
    PROVE  Steady(x, y)
<1> SUFFICES ASSUME NEW s \in Stages, InStage(x, y, s) PROVE InStage(x, y, s)'
  BY DEF Steady
<1>1. /\ notices' = Tell(Inside \ {p}, F("left", p))
      /\ jobs' = jobs /\ table' = table /\ pc' = pc
      /\ inbox'[x] = inbox[x] /\ inbox'[y] = inbox[y]
  BY DEF EndSession, endVars, IndInv, TypeOK
<1>2. [to |-> x, frame |-> F("joined", y)] \in notices' <=>
          [to |-> x, frame |-> F("joined", y)] \in notices
  BY <1>1, FramesEqual, TellAdds
<1>3. /\ Passes(x, F("joined", y)) /\ Passes(y, F("offer", x)) /\ Passes(x, F("answer", y))
  BY <1>1 DEF Passes
<1> QED  BY <1>1, <1>2, <1>3, MailSame, TasksSame, EndsSame DEF InStage

LEMMA LeaveSteady ==
    ASSUME IndInv, NEW p \in Peers, Leave(p), NEW x \in Peers, NEW y \in Peers,
           x # y, x # p, y # p
    PROVE  Steady(x, y)
<1> SUFFICES ASSUME NEW s \in Stages, InStage(x, y, s) PROVE InStage(x, y, s)'
  BY DEF Steady
<1>1. /\ notices' = notices /\ inbox' = inbox /\ jobs' = jobs
      /\ table'[x][y] = table[x][y] /\ table'[y][x] = table[y][x]
  BY DEF Leave, IndInv, TypeOK
<1>2. <<x, y, "offerer">> \in Ends /\ <<y, x, "answerer">> \in Ends
  BY EndsAreEnds DEF Roles
<1>3. \A e \in Ends : e[1] # p => pc'[e] = pc[e]
  BY DEF Leave, Close, Kept
<1>4. /\ pc'[<<x, y, "offerer">>] = pc[<<x, y, "offerer">>]
      /\ pc'[<<y, x, "answerer">>] = pc[<<y, x, "answerer">>]
  BY <1>2, <1>3
<1>5. /\ Passes(x, F("joined", y)) /\ Passes(y, F("offer", x)) /\ Passes(x, F("answer", y))
  BY <1>1 DEF Passes
<1> QED  BY <1>1, <1>4, <1>5, MailSame, TasksSame, EndsSame DEF InStage

LEMMA SendNoticeSteady ==
    ASSUME IndInv, NEW n \in notices, SendNotice(n), NEW x \in Peers, NEW y \in Peers,
           x # y, place[x] = "in"
    PROVE  Steady(x, y)
<1> SUFFICES ASSUME NEW s \in Stages, InStage(x, y, s)
             PROVE  \E t \in Stages : InStage(x, y, t)'
  BY DEF Steady
<1> USE DEF IndInv
<1>1. /\ notices' = notices \ {n}
      /\ jobs' = jobs /\ table' = table /\ pc' = pc
  BY DEF SendNotice, endVars
<1>2. n.to \in Peers /\ n.frame \in Frame /\ n.frame.type \in {"joined", "left"}
      /\ n = [to |-> n.to, frame |-> n.frame] /\ n.frame = F(n.frame.type, n.frame.who)
  BY FrameTypes DEF TypeOK, News, F
<1>3. \A z \in Peers : \/ inbox'[z] = inbox[z]
                       \/ z = n.to /\ inbox'[z] = Append(inbox[z], n.frame)
  BY DEF SendNotice, TypeOK
<1>4. n.frame # F("offer", x) /\ n.frame # F("answer", y)
  BY <1>2, FramesEqual
<1>5. Passes(y, F("offer", x)) /\ Passes(x, F("answer", y))
  BY <1>2, <1>3, <1>4, PassesAppend
<1>6. CASE n = [to |-> x, frame |-> F("joined", y)]
  <2>1. n.to = x /\ n.frame = F("joined", y)
    BY <1>6
  <2>2. s = "told"
    BY <1>6 DEF InStage, Mail
  <2>3. x \in Inside
    BY DEF Inside
  <2>4. inbox'[x] = Append(inbox[x], F("joined", y))
    BY <2>1, <2>3 DEF SendNotice, TypeOK
  <2>5. Never(inbox[x], F("joined", y))
    BY <2>2 DEF InStage, Mail, Holds
  <2>6. inbox[x] \in Seq(Frame) /\ F("joined", y) \in Frame
    BY <1>2, <2>1 DEF TypeOK
  <2>7. Once(inbox'[x], F("joined", y))
    BY <2>4, <2>5, <2>6, AppendOnce
  <2>8. Never(inbox'[y], F("offer", x)) /\ Never(inbox'[x], F("answer", y))
    <3>1. Holds(inbox[y], F("offer", x), FALSE) /\ Holds(inbox[x], F("answer", y), FALSE)
      BY <2>2 DEF InStage, Mail, Holds
    <3>2. Holds(inbox'[y], F("offer", x), FALSE) /\ Holds(inbox'[x], F("answer", y), FALSE)
      BY <1>5, <3>1 DEF Passes
    <3> QED  BY <3>2 DEF Holds
  <2>9. [to |-> x, frame |-> F("joined", y)] \notin notices'
    BY <1>1, <1>6
  <2>10. Mail(x, y, "joined")'
    BY <2>7, <2>8, <2>9 DEF Mail, Holds
  <2>11. Tasks(x, y, "joined")'
    BY <1>1, <2>2 DEF InStage, Tasks
  <2>12. EndsAt(x, y, "joined")'
    BY <1>1, <2>2 DEF InStage, EndsAt, Offerer, Answerer
  <2> QED  BY <2>10, <2>11, <2>12 DEF InStage, Stages
<1>7. CASE n # [to |-> x, frame |-> F("joined", y)]
  <2>1. Passes(x, F("joined", y))
    <3>1. CASE n.to = x
      <4>1. n.frame # F("joined", y)
        BY <1>2, <1>7, <3>1
      <4> QED  BY <1>2, <1>3, <4>1, PassesAppend
    <3>2. CASE n.to # x
      BY <1>3, <3>2 DEF Passes
    <3> QED  BY <3>1, <3>2
  <2>2. InStage(x, y, s)'
    BY <1>1, <1>5, <1>7, <2>1, MailSame, TasksSame, EndsSame DEF InStage
  <2> QED  BY <2>2
<1> QED  BY <1>6, <1>7

\* The tasks after a frame: the one that the frame asks for is new.
LEMMA HandleFrameJobs ==
    ASSUME IndInv, NEW p \in Peers, HandleFrame(p), NEW f \in Frame, f = Head(inbox[p])
    PROVE  /\ notices' = notices
           /\ \A z \in Peers : inbox'[z] = IF z = p THEN Tail(inbox[p]) ELSE inbox[z]
           /\ \A z \in Peers : z # p => jobs'[z] = jobs[z]
           /\ \A z, d : d # "candidate" =>
                 (J(d, z) \in jobs'[p] <=>
                     \/ J(d, z) \in jobs[p]
                     \/ d = "initiate" /\ f = F("joined", z)
                     \/ d = "offer" /\ f = F("offer", z)
                     \/ d = "answer" /\ f = F("answer", z))
           /\ f.type # "left" => table' = table /\ pc' = pc
           /\ f.type = "left" => /\ f = F("left", f.who)
                                 /\ \A x, y \in Peers : ~(x = p /\ y = f.who) =>
                                      /\ table'[x][y] = table[x][y]
                                      /\ \A r \in Roles : pc'[<<x, y, r>>] = pc[<<x, y, r>>]
<1> USE DEF IndInv
<1>1. /\ notices' = notices
      /\ \A z \in Peers : inbox'[z] = IF z = p THEN Tail(inbox[p]) ELSE inbox[z]
  BY DEF HandleFrame, serverVars, TypeOK
<1>2. f.type # "candidate" => f = F(f.type, f.who)
  BY FrameShapes
<1>3. \A d, z : F(d, z).type = d /\ F(d, z).who = z
  BY DEF F
<1>4. \A d, z : J(d, z).does = d
  BY DEF J
<1>5. CASE f.type = "left" /\ RemovePeer(p, f.who) /\ UNCHANGED <<jobs, reached>>
  <2>1. \A x, y \in Peers : ~(x = p /\ y = f.who) => table'[x][y] = table[x][y]
    BY <1>5 DEF RemovePeer, TypeOK
  <2>2. \A e \in Ends : e \notin Kept(p, f.who) => pc'[e] = pc[e]
    BY <1>5 DEF RemovePeer, Close
  <2>3. ASSUME NEW x \in Peers, NEW y \in Peers, ~(x = p /\ y = f.who), NEW r \in Roles
        PROVE  pc'[<<x, y, r>>] = pc[<<x, y, r>>]
    <3>1. <<x, y, r>> \in Ends
      BY EndsAreEnds
    <3>2. <<x, y, r>> \notin Kept(p, f.who)
      BY <2>3 DEF Kept
    <3> QED  BY <2>2, <3>1, <3>2
  <2>4. \A d, z : d # "candidate" => (J(d, z) \in jobs'[p] <=> J(d, z) \in jobs[p])
    BY <1>5
  <2> QED  BY <1>1, <1>2, <1>3, <1>5, <2>1, <2>3, <2>4
<1>6. CASE f.type = "joined" /\ Spawn(p, J("initiate", f.who)) /\ UNCHANGED endVars
  <2>1. \A z \in Peers : jobs'[z] = IF z = p THEN jobs[p] \cup {J("initiate", f.who)} ELSE jobs[z]
    BY <1>6 DEF Spawn, TypeOK
  <2>2. \A z, d : J(d, z) \in jobs'[p] <=> J(d, z) \in jobs[p] \/ (d = "initiate" /\ z = f.who)
    BY <2>1, JobsDiffer
  <2>3. \A z : f = F("joined", z) <=> z = f.who
    BY <1>2, <1>3, <1>6
  <2>4. \A z : f # F("offer", z) /\ f # F("answer", z)
    BY <1>3, <1>6
  <2>5. table' = table /\ pc' = pc
    BY <1>6 DEF endVars
  <2> QED  BY <1>1, <1>6, <2>1, <2>2, <2>3, <2>4, <2>5
<1>7. CASE f.type \in {"offer", "answer"} /\ Spawn(p, J(f.type, f.who)) /\ UNCHANGED endVars
  <2>1. \A z \in Peers : jobs'[z] = IF z = p THEN jobs[p] \cup {J(f.type, f.who)} ELSE jobs[z]
    BY <1>7 DEF Spawn, TypeOK
  <2>2. \A z, d : J(d, z) \in jobs'[p] <=> J(d, z) \in jobs[p] \/ (d = f.type /\ z = f.who)
    BY <2>1, JobsDiffer
  <2>3. \A z : /\ f = F("offer", z) <=> f.type = "offer" /\ z = f.who
               /\ f = F("answer", z) <=> f.type = "answer" /\ z = f.who
    BY <1>2, <1>3, <1>7
  <2>4. \A z : f # F("joined", z)
    BY <1>3, <1>7
  <2>5. table' = table /\ pc' = pc
    BY <1>7 DEF endVars
  <2>6. \A z, d : J(d, z) \in jobs'[p] <=>
                     \/ J(d, z) \in jobs[p]
                     \/ d = "initiate" /\ f = F("joined", z)
                     \/ d = "offer" /\ f = F("offer", z)
                     \/ d = "answer" /\ f = F("answer", z)
    BY <1>7, <2>2, <2>3, <2>4
  <2> QED  BY <1>1, <1>7, <2>1, <2>5, <2>6
<1>8. CASE /\ f.type = "candidate"
           /\ Spawn(p, [does |-> "candidate", with |-> f.who, role |-> f.role])
           /\ UNCHANGED endVars
  <2>1. PICK c : c = [does |-> "candidate", with |-> f.who, role |-> f.role]
    OBVIOUS
  <2>2. \A z \in Peers : jobs'[z] = IF z = p THEN jobs[p] \cup {c} ELSE jobs[z]
    BY <1>8, <2>1 DEF Spawn, TypeOK
  <2>3. c.does = "candidate"
    BY <2>1
  <2>4. \A z, d : d # "candidate" => (J(d, z) \in jobs'[p] <=> J(d, z) \in jobs[p])
    BY <1>4, <2>2, <2>3
  <2>5. \A z : f # F("joined", z) /\ f # F("offer", z) /\ f # F("answer", z)
    BY <1>3, <1>8
  <2>6. table' = table /\ pc' = pc
    BY <1>8 DEF endVars
  <2> QED  BY <1>1, <1>8, <2>2, <2>4, <2>5, <2>6
<1> QED  BY <1>5, <1>6, <1>7, <1>8 DEF HandleFrame

\* What the frame does to an exchange: it goes on where the frame is awaited.
LEMMA HandleFrameSteady ==
    ASSUME IndInv, LeftAreGone, AnswersAreMade, NEW p \in Peers, HandleFrame(p),
           NEW x \in Peers, NEW y \in Peers, x # y, place[x] = "in", place[y] = "in"
    PROVE  Steady(x, y)
<1> SUFFICES ASSUME NEW s \in Stages, InStage(x, y, s)
             PROVE  \E t \in Stages : InStage(x, y, t)'
  BY DEF Steady
<1> USE DEF IndInv
<1>1. inbox[p] \in Seq(Frame) /\ inbox[p] # <<>>
  BY DEF TypeOK, HandleFrame
<1>2. PICK f \in Frame : f = Head(inbox[p]) /\ f \in Elements(inbox[p])
  BY <1>1, HeadTailElements
<1>3. /\ notices' = notices
      /\ \A z \in Peers : inbox'[z] = IF z = p THEN Tail(inbox[p]) ELSE inbox[z]
      /\ \A z \in Peers : z # p => jobs'[z] = jobs[z]
      /\ \A z, d : d # "candidate" =>
            (J(d, z) \in jobs'[p] <=>
                \/ J(d, z) \in jobs[p]
                \/ d = "initiate" /\ f = F("joined", z)
                \/ d = "offer" /\ f = F("offer", z)
                \/ d = "answer" /\ f = F("answer", z))
      /\ f.type # "left" => table' = table /\ pc' = pc
      /\ f.type = "left" => /\ f = F("left", f.who)
                            /\ \A u, v \in Peers : ~(u = p /\ v = f.who) =>
                                 /\ table'[u][v] = table[u][v]
                                 /\ \A r \in Roles : pc'[<<u, v, r>>] = pc[<<u, v, r>>]
  BY <1>2, HandleFrameJobs
<1>4. \A z \in Peers : \A g : z # p \/ f # g => Passes(z, g)
  BY <1>1, <1>2, <1>3, PassesTail
<1>5. /\ table'[x][y] = table[x][y] /\ table'[y][x] = table[y][x]
      /\ pc'[<<x, y, "offerer">>] = pc[<<x, y, "offerer">>]
      /\ pc'[<<y, x, "answerer">>] = pc[<<y, x, "answerer">>]
  <2>1. CASE f.type # "left"
    BY <1>3, <2>1
  <2>2. CASE f.type = "left"
    <3>1. f.who \in Peers /\ f = F("left", f.who)
      BY <1>2, <1>3, <2>2, FrameTypes
    <3>2. place[f.who] = "gone"
      BY <1>2, <3>1 DEF LeftAreGone
    <3>3. f.who # x /\ f.who # y /\ "offerer" \in Roles /\ "answerer" \in Roles
      BY <3>2 DEF Roles
    <3> QED  BY <1>3, <2>2, <3>3
  <2> QED  BY <2>1, <2>2
<1>6. \A c, d, u, v : F(c, u) = F(d, v) <=> c = d /\ u = v
  BY FramesEqual
<1>7. CASE p = x /\ f = F("joined", y)
  <2>1. s = "joined" /\ Never(inbox'[x], F("joined", y))
    <3>1. PICK b : b = (s = "joined")
      OBVIOUS
    <3>2. Holds(inbox[p], f, b)
      BY <1>7, <3>1 DEF InStage, Mail
    <3>3. b /\ Never(Tail(inbox[p]), f)
      BY <1>1, <1>2, <3>2, TailHolds
    <3> QED  BY <1>3, <1>7, <3>1, <3>3
  <2>2. Passes(y, F("offer", x)) /\ Passes(x, F("answer", y))
    BY <1>4, <1>6, <1>7
  <2>3. Holds(inbox'[y], F("offer", x), FALSE) /\ Holds(inbox'[x], F("answer", y), FALSE)
    <3>1. Holds(inbox[y], F("offer", x), FALSE) /\ Holds(inbox[x], F("answer", y), FALSE)
      BY <2>1 DEF InStage, Mail, Holds
    <3> QED  BY <2>2, <3>1 DEF Passes
  <2>4. Mail(x, y, "initiate")'
    BY <1>3, <2>1, <2>3 DEF InStage, Mail, Holds
  <2>5. Tasks(x, y, "initiate")'
    BY <1>3, <1>6, <1>7, <2>1 DEF InStage, Tasks
  <2>6. EndsAt(x, y, "initiate")'
    BY <1>5, <2>1 DEF InStage, EndsAt, Offerer, Answerer
  <2> QED  BY <2>4, <2>5, <2>6 DEF InStage, Stages
<1>8. CASE p = y /\ f = F("offer", x)
  <2>1. s = "offered" /\ Never(inbox'[y], F("offer", x))
    <3>1. PICK b : b = (s = "offered")
      OBVIOUS
    <3>2. Holds(inbox[p], f, b)
      BY <1>8, <3>1 DEF InStage, Mail
    <3>3. b /\ Never(Tail(inbox[p]), f)
      BY <1>1, <1>2, <3>2, TailHolds
    <3> QED  BY <1>3, <1>8, <3>1, <3>3
  <2>2. Passes(x, F("joined", y)) /\ Passes(x, F("answer", y))
    BY <1>4, <1>8
  <2>3. Holds(inbox'[x], F("joined", y), FALSE) /\ Holds(inbox'[x], F("answer", y), FALSE)
    <3>1. Holds(inbox[x], F("joined", y), FALSE) /\ Holds(inbox[x], F("answer", y), FALSE)
      BY <2>1 DEF InStage, Mail, Holds
    <3> QED  BY <2>2, <3>1 DEF Passes
  <2>4. Mail(x, y, "offer")'
    BY <1>3, <2>1, <2>3 DEF InStage, Mail, Holds
  <2>5. Tasks(x, y, "offer")'
    BY <1>3, <1>6, <1>8, <2>1 DEF InStage, Tasks
  <2>6. EndsAt(x, y, "offer")'
    BY <1>5, <2>1 DEF InStage, EndsAt, Offerer, Answerer
  <2> QED  BY <2>4, <2>5, <2>6 DEF InStage, Stages
<1>9. CASE p = x /\ f = F("answer", y)
  <2>1. s = "answered" /\ Never(inbox'[x], F("answer", y))
    <3>1. PICK b : b = (s = "answered")
      OBVIOUS
    <3>2. Holds(inbox[p], f, b)
      BY <1>9, <3>1 DEF InStage, Mail
    <3>3. b /\ Never(Tail(inbox[p]), f)
      BY <1>1, <1>2, <3>2, TailHolds
    <3> QED  BY <1>3, <1>9, <3>1, <3>3
  <2>2. Passes(x, F("joined", y)) /\ Passes(y, F("offer", x))
    BY <1>4, <1>6, <1>9
  <2>3. Holds(inbox'[x], F("joined", y), FALSE) /\ Holds(inbox'[y], F("offer", x), FALSE)
    <3>1. Holds(inbox[x], F("joined", y), FALSE) /\ Holds(inbox[y], F("offer", x), FALSE)
      BY <2>1 DEF InStage, Mail, Holds
    <3> QED  BY <2>2, <3>1 DEF Passes
  <2>4. Mail(x, y, "answer")'
    BY <1>3, <2>1, <2>3 DEF InStage, Mail, Holds
  <2>5. Tasks(x, y, "answer")'
    BY <1>3, <1>6, <1>9, <2>1 DEF InStage, Tasks
  <2>6. EndsAt(x, y, "answer")'
    BY <1>5, <2>1 DEF InStage, EndsAt, Offerer, Answerer
  <2> QED  BY <2>4, <2>5, <2>6 DEF InStage, Stages
<1>10. CASE /\ ~(p = x /\ f = F("joined", y)) /\ ~(p = y /\ f = F("offer", x))
            /\ ~(p = x /\ f = F("answer", y))
  <2>1. /\ Passes(x, F("joined", y)) /\ Passes(y, F("offer", x)) /\ Passes(x, F("answer", y))
    BY <1>4, <1>10
  <2>2. \A d \in {"initiate", "describe", "answer"} : J(d, y) \in jobs'[x] <=> J(d, y) \in jobs[x]
    BY <1>3, <1>10
  <2>3. \A d \in {"offer", "accept"} : J(d, x) \in jobs'[y] <=> J(d, x) \in jobs[y]
    BY <1>3, <1>10
  <2>4. InStage(x, y, s)'
    BY <1>3, <1>5, <2>1, <2>2, <2>3, MailSame, TasksSame, EndsSame DEF InStage
  <2> QED  BY <2>4
<1> QED  BY <1>7, <1>8, <1>9, <1>10

\* A task that is not about x and y, or not of this kind.
LEMMA ContinueOther ==
    ASSUME TypeOK, NEW p \in Peers, NEW job, NEW next, Continue(p, job, next),
           NEW x \in Peers, NEW y \in Peers, NEW s, Tasks(x, y, s),
           p = x => \A d \in {"initiate", "describe", "answer"} : J(d, y) # job /\ J(d, y) \notin next,
           p = y => \A d \in {"offer", "accept"} : J(d, x) # job /\ J(d, x) \notin next
    PROVE  Tasks(x, y, s)'
<1>1. \A z \in Peers : jobs'[z] = IF z = p THEN (jobs[p] \ {job}) \cup next ELSE jobs[z]
  BY DEF TypeOK, Continue
<1>2. \A d \in {"initiate", "describe", "answer"} : J(d, y) \in jobs'[x] <=> J(d, y) \in jobs[x]
  BY <1>1
<1>3. \A d \in {"offer", "accept"} : J(d, x) \in jobs'[y] <=> J(d, x) \in jobs[y]
  BY <1>1
<1> QED  BY <1>2, <1>3, TasksSame

LEMMA ContinueMembers ==
    ASSUME TypeOK, NEW p \in Peers, NEW job, NEW next, Continue(p, job, next)
    PROVE  \A z \in Peers : jobs'[z] = IF z = p THEN (jobs[p] \ {job}) \cup next ELSE jobs[z]
  BY DEF TypeOK, Continue

LEMMA RoutePasses ==
    ASSUME TypeOK, NEW p \in Peers, NEW q \in Peers, NEW f \in Frame, Route(p, q, f)
    PROVE  /\ \A z \in Peers : \A g : z # q \/ f # g => Passes(z, g)
           /\ place[p] = "in" /\ place[q] = "in" => inbox'[q] = Append(inbox[q], f)
<1>1. \A z \in Peers : inbox'[z] = inbox[z] \/ (z = q /\ inbox'[z] = Append(inbox[z], f))
  BY DEF Route, TypeOK
<1>2. ASSUME NEW z \in Peers, NEW g, z # q \/ f # g PROVE Passes(z, g)
  <2>1. CASE inbox'[z] = inbox[z]
    BY <2>1 DEF Passes
  <2>2. CASE f # g
    BY <1>1, <2>2, PassesAppend
  <2> QED  BY <1>1, <1>2, <2>1, <2>2
<1>3. place[p] = "in" /\ place[q] = "in" => inbox'[q] = Append(inbox[q], f)
  BY DEF Route, Inside, TypeOK
<1> QED  BY <1>2, <1>3

\* An end that is not one of these two.
LEMMA NewEndOther ==
    ASSUME TypeOK, NEW p \in Peers, NEW q \in Peers, NEW r \in Roles, NewEnd(p, q, r),
           NEW x \in Peers, NEW y \in Peers, NEW s, EndsAt(x, y, s),
           ~(p = x /\ q = y), ~(p = y /\ q = x)
    PROVE  EndsAt(x, y, s)'
<1>1. table'[x][y] = table[x][y] /\ table'[y][x] = table[y][x]
  BY DEF NewEnd, TypeOK
<1>2. <<x, y, "offerer">> # <<p, q, r>> /\ <<y, x, "answerer">> # <<p, q, r>>
  OBVIOUS
<1>3. <<x, y, "offerer">> \in Ends /\ <<y, x, "answerer">> \in Ends
  BY EndsAreEnds DEF Roles
<1>4. /\ pc'[<<x, y, "offerer">>] = pc[<<x, y, "offerer">>]
      /\ pc'[<<y, x, "answerer">>] = pc[<<y, x, "answerer">>]
  BY <1>2, <1>3 DEF NewEnd, TypeOK
<1> QED  BY <1>1, <1>4, EndsSame

LEMMA StepOther ==
    ASSUME TypeOK, NEW e \in Ends, NEW from, NEW to, Step(e, from, to),
           NEW x \in Peers, NEW y \in Peers, NEW s, EndsAt(x, y, s),
           e # <<x, y, "offerer">>, e # <<y, x, "answerer">>
    PROVE  EndsAt(x, y, s)'
<1>1. <<x, y, "offerer">> \in Ends /\ <<y, x, "answerer">> \in Ends
  BY EndsAreEnds DEF Roles
<1>2. /\ pc'[<<x, y, "offerer">>] = pc[<<x, y, "offerer">>]
      /\ pc'[<<y, x, "answerer">>] = pc[<<y, x, "answerer">>]
      /\ table' = table
  BY <1>1 DEF Step, TypeOK
<1> QED  BY <1>2, EndsSame

\* A new end, where the stage asks for one.
LEMMA InitiateSteady ==
    ASSUME IndInv, AnswersAreMade, NEW p \in Peers, NEW job \in jobs[p], Initiate(p, job),
           notices' = notices, NEW x \in Peers, NEW y \in Peers, x # y
    PROVE  Steady(x, y)
<1> SUFFICES ASSUME NEW s \in Stages, InStage(x, y, s)
             PROVE  \E t \in Stages : InStage(x, y, t)'
  BY DEF Steady
<1> USE DEF IndInv
<1>1. PICK q \in Peers : q = job.with /\ job = J("initiate", q)
  BY FrameTypes, JobShapes DEF TypeOK, Initiate
<1>2. PICK next : next = {J("describe", q)}
  OBVIOUS
<1>3. NewEnd(p, q, "offerer") /\ Continue(p, job, next) /\ inbox' = inbox
  BY <1>1, <1>2 DEF Initiate
<1>4. "offerer" \in Roles
  BY DEF Roles
<1>5. \A z, g : Passes(z, g)
  BY <1>3 DEF Passes
<1>6. CASE p = x /\ q = y
  <2>1. s = "initiate"
    BY <1>1, <1>6 DEF InStage, Tasks
  <2>2. Mail(x, y, "describe")'
    BY <1>3, <2>1 DEF InStage, Mail, Holds
  <2>3. \A z \in Peers : jobs'[z] = IF z = p THEN (jobs[p] \ {job}) \cup next ELSE jobs[z]
    BY <1>3, ContinueMembers
  <2>4. Tasks(x, y, "describe")'
    BY <1>1, <1>2, <1>6, <2>1, <2>3, JobsDiffer DEF InStage, Tasks
  <2>5. <<x, y, "offerer">> \in Ends /\ <<y, x, "answerer">> \in Ends
    BY EndsAreEnds DEF Roles
  <2>6. <<x, y, "offerer">> # <<y, x, "answerer">>
    OBVIOUS
  <2>7. /\ table'[x][y] = "offerer" /\ table'[y][x] = table[y][x]
        /\ pc'[<<x, y, "offerer">>] = "new" /\ pc'[<<y, x, "answerer">>] = pc[<<y, x, "answerer">>]
    BY <1>3, <1>6, <2>5, <2>6 DEF NewEnd, TypeOK
  <2>8. EndsAt(x, y, "describe")'
    BY <2>1, <2>7 DEF InStage, EndsAt, Offerer, Answerer
  <2> QED  BY <2>2, <2>4, <2>8 DEF InStage, Stages
<1>7. ~(p = y /\ q = x)
  BY <1>1, StageCalls
<1>8. CASE ~(p = x /\ q = y)
  <2>1. EndsAt(x, y, s)'
    BY <1>3, <1>4, <1>7, <1>8, NewEndOther DEF InStage
  <2>2. p = x => \A d \in {"initiate", "describe", "answer"} : J(d, y) # job /\ J(d, y) \notin next
    BY <1>1, <1>2, <1>8, JobsDiffer
  <2>3. p = y => \A d \in {"offer", "accept"} : J(d, x) # job /\ J(d, x) \notin next
    BY <1>1, <1>2, JobsDiffer
  <2>4. Tasks(x, y, s)'
    BY <1>3, <2>2, <2>3, ContinueOther DEF InStage
  <2> QED  BY <1>5, <2>1, <2>4, MailSame DEF InStage
<1> QED  BY <1>6, <1>8

LEMMA TakeOfferSteady ==
    ASSUME IndInv, AnswersAreMade, NEW p \in Peers, NEW job \in jobs[p], TakeOffer(p, job),
           notices' = notices, NEW x \in Peers, NEW y \in Peers, x # y
    PROVE  Steady(x, y)
<1> SUFFICES ASSUME NEW s \in Stages, InStage(x, y, s)
             PROVE  \E t \in Stages : InStage(x, y, t)'
  BY DEF Steady
<1> USE DEF IndInv
<1>1. PICK q \in Peers : q = job.with /\ job = J("offer", q)
  BY FrameTypes, JobShapes DEF TypeOK, TakeOffer
<1>2. PICK next : next = {J("accept", q)}
  OBVIOUS
<1>3. NewEnd(p, q, "answerer") /\ Continue(p, job, next) /\ inbox' = inbox
  BY <1>1, <1>2 DEF TakeOffer
<1>4. "answerer" \in Roles
  BY DEF Roles
<1>5. \A z, g : Passes(z, g)
  BY <1>3 DEF Passes
<1>6. CASE p = y /\ q = x
  <2>1. s = "offer"
    BY <1>1, <1>6 DEF InStage, Tasks
  <2>2. Mail(x, y, "accept")'
    BY <1>3, <2>1 DEF InStage, Mail, Holds
  <2>3. \A z \in Peers : jobs'[z] = IF z = p THEN (jobs[p] \ {job}) \cup next ELSE jobs[z]
    BY <1>3, ContinueMembers
  <2>4. Tasks(x, y, "accept")'
    BY <1>1, <1>2, <1>6, <2>1, <2>3, JobsDiffer DEF InStage, Tasks
  <2>5. <<x, y, "offerer">> \in Ends /\ <<y, x, "answerer">> \in Ends
    BY EndsAreEnds DEF Roles
  <2>6. <<x, y, "offerer">> # <<y, x, "answerer">>
    OBVIOUS
  <2>7. /\ table'[y][x] = "answerer" /\ table'[x][y] = table[x][y]
        /\ pc'[<<y, x, "answerer">>] = "new" /\ pc'[<<x, y, "offerer">>] = pc[<<x, y, "offerer">>]
    BY <1>3, <1>6, <2>5, <2>6 DEF NewEnd, TypeOK
  <2>8. EndsAt(x, y, "accept")'
    BY <2>1, <2>7 DEF InStage, EndsAt, Offerer, Answerer
  <2> QED  BY <2>2, <2>4, <2>8 DEF InStage, Stages
<1>7. ~(p = x /\ q = y)
  BY <1>1, StageCalls
<1>8. CASE ~(p = y /\ q = x)
  <2>1. EndsAt(x, y, s)'
    BY <1>3, <1>4, <1>7, <1>8, NewEndOther DEF InStage
  <2>2. p = x => \A d \in {"initiate", "describe", "answer"} : J(d, y) # job /\ J(d, y) \notin next
    BY <1>1, <1>2, JobsDiffer
  <2>3. p = y => \A d \in {"offer", "accept"} : J(d, x) # job /\ J(d, x) \notin next
    BY <1>1, <1>2, <1>8, JobsDiffer
  <2>4. Tasks(x, y, s)'
    BY <1>3, <2>2, <2>3, ContinueOther DEF InStage
  <2> QED  BY <1>5, <2>1, <2>4, MailSame DEF InStage
<1> QED  BY <1>6, <1>8

LEMMA GatherJobs ==
    \A p, q, r : \A j \in Gather(p, q, r) : j.does = "gather"
  BY DEF Gather

\* A description is made and sent, where the stage asks for it.
LEMMA DescribeSteady ==
    ASSUME IndInv, AnswersAreMade, NEW p \in Peers, NEW job \in jobs[p], Describe(p, job),
           notices' = notices, NEW x \in Peers, NEW y \in Peers, x # y,
           place[x] = "in", place[y] = "in"
    PROVE  Steady(x, y)
<1> SUFFICES ASSUME NEW s \in Stages, InStage(x, y, s)
             PROVE  \E t \in Stages : InStage(x, y, t)'
  BY DEF Steady
<1> USE DEF IndInv
<1>1. PICK q \in Peers : q = job.with /\ job = J("describe", q)
  BY FrameTypes, JobShapes DEF TypeOK, Describe
<1>2. PICK next : next = Gather(p, q, "offerer")
  OBVIOUS
<1>3. PICK e \in Ends : e = <<p, q, "offerer">>
  BY EndsAreEnds DEF Roles
<1>4. PICK f \in Frame : f = F("offer", p)
  BY FrameTypes
<1>5. Step(e, "new", "offered") /\ Route(p, q, f) /\ Continue(p, job, next)
  BY <1>1, <1>2, <1>3, <1>4 DEF Describe
<1>6. /\ \A z \in Peers : \A g : z # q \/ f # g => Passes(z, g)
      /\ place[p] = "in" /\ place[q] = "in" => inbox'[q] = Append(inbox[q], f)
  BY <1>5, RoutePasses
<1>7. Passes(x, F("joined", y)) /\ Passes(x, F("answer", y))
  BY <1>4, <1>6, FramesEqual
<1>8. \A d, z : J(d, z) \notin next \/ d = "gather"
  BY <1>2, GatherJobs DEF J
<1>9. CASE p = x /\ q = y
  <2>1. s = "describe"
    BY <1>1, <1>9 DEF InStage, Tasks
  <2>2. Once(inbox'[y], F("offer", x))
    <3>1. inbox[y] \in Seq(Frame) /\ Never(inbox[y], f)
      BY <1>4, <1>9, <2>1 DEF InStage, Mail, Holds, TypeOK
    <3> QED  BY <1>4, <1>6, <1>9, <3>1, AppendOnce
  <2>3. Holds(inbox'[x], F("joined", y), FALSE) /\ Holds(inbox'[x], F("answer", y), FALSE)
    <3>1. Holds(inbox[x], F("joined", y), FALSE) /\ Holds(inbox[x], F("answer", y), FALSE)
      BY <2>1 DEF InStage, Mail, Holds
    <3> QED  BY <1>7, <3>1 DEF Passes
  <2>4. Mail(x, y, "offered")'
    BY <2>1, <2>2, <2>3 DEF InStage, Mail, Holds
  <2>5. \A z \in Peers : jobs'[z] = IF z = p THEN (jobs[p] \ {job}) \cup next ELSE jobs[z]
    BY <1>5, ContinueMembers
  <2>6. Tasks(x, y, "offered")'
    BY <1>1, <1>8, <1>9, <2>1, <2>5, JobsDiffer DEF InStage, Tasks
  <2>7. <<y, x, "answerer">> \in Ends /\ <<y, x, "answerer">> # e
    BY <1>3, <1>9, EndsAreEnds DEF Roles
  <2>8. /\ table' = table /\ pc'[e] = "offered"
        /\ pc'[<<y, x, "answerer">>] = pc[<<y, x, "answerer">>]
    BY <1>5, <2>7 DEF Step, TypeOK
  <2>9. EndsAt(x, y, "offered")'
    BY <1>3, <1>9, <2>1, <2>8 DEF InStage, EndsAt, Offerer, Answerer
  <2> QED  BY <2>4, <2>6, <2>9 DEF InStage, Stages
<1>10. CASE ~(p = x /\ q = y)
  <2>1. e # <<x, y, "offerer">> /\ e # <<y, x, "answerer">>
    BY <1>3, <1>10
  <2>2. EndsAt(x, y, s)'
    BY <1>5, <2>1, StepOther DEF InStage
  <2>3. p = x => \A d \in {"initiate", "describe", "answer"} : J(d, y) # job /\ J(d, y) \notin next
    BY <1>1, <1>8, <1>10, JobsDiffer
  <2>4. p = y => \A d \in {"offer", "accept"} : J(d, x) # job /\ J(d, x) \notin next
    BY <1>1, <1>8, JobsDiffer
  <2>5. Tasks(x, y, s)'
    BY <1>5, <2>3, <2>4, ContinueOther DEF InStage
  <2>6. Passes(y, F("offer", x))
    BY <1>4, <1>6, <1>10, FramesEqual
  <2> QED  BY <1>7, <2>2, <2>5, <2>6, MailSame DEF InStage
<1> QED  BY <1>9, <1>10

LEMMA AcceptSteady ==
    ASSUME IndInv, AnswersAreMade, NEW p \in Peers, NEW job \in jobs[p], Accept(p, job),
           notices' = notices, NEW x \in Peers, NEW y \in Peers, x # y,
           place[x] = "in", place[y] = "in"
    PROVE  Steady(x, y)
<1> SUFFICES ASSUME NEW s \in Stages, InStage(x, y, s)
             PROVE  \E t \in Stages : InStage(x, y, t)'
  BY DEF Steady
<1> USE DEF IndInv
<1>1. PICK q \in Peers : q = job.with /\ job = J("accept", q)
  BY FrameTypes, JobShapes DEF TypeOK, Accept
<1>2. PICK next : next = Gather(p, q, "answerer")
  OBVIOUS
<1>3. PICK e \in Ends : e = <<p, q, "answerer">>
  BY EndsAreEnds DEF Roles
<1>4. PICK f \in Frame : f = F("answer", p)
  BY FrameTypes
<1>5. Step(e, "new", "stable") /\ Route(p, q, f) /\ Continue(p, job, next)
  BY <1>1, <1>2, <1>3, <1>4 DEF Accept
<1>6. /\ \A z \in Peers : \A g : z # q \/ f # g => Passes(z, g)
      /\ place[p] = "in" /\ place[q] = "in" => inbox'[q] = Append(inbox[q], f)
  BY <1>5, RoutePasses
<1>7. Passes(x, F("joined", y)) /\ Passes(y, F("offer", x))
  BY <1>4, <1>6, FramesEqual
<1>8. \A d, z : J(d, z) \notin next \/ d = "gather"
  BY <1>2, GatherJobs DEF J
<1>9. CASE p = y /\ q = x
  <2>1. s = "accept"
    BY <1>1, <1>9 DEF InStage, Tasks
  <2>2. Once(inbox'[x], F("answer", y))
    <3>1. inbox[x] \in Seq(Frame) /\ Never(inbox[x], f)
      BY <1>4, <1>9, <2>1 DEF InStage, Mail, Holds, TypeOK
    <3> QED  BY <1>4, <1>6, <1>9, <3>1, AppendOnce
  <2>3. Holds(inbox'[x], F("joined", y), FALSE) /\ Holds(inbox'[y], F("offer", x), FALSE)
    <3>1. Holds(inbox[x], F("joined", y), FALSE) /\ Holds(inbox[y], F("offer", x), FALSE)
      BY <2>1 DEF InStage, Mail, Holds
    <3> QED  BY <1>7, <3>1 DEF Passes
  <2>4. Mail(x, y, "answered")'
    BY <2>1, <2>2, <2>3 DEF InStage, Mail, Holds
  <2>5. \A z \in Peers : jobs'[z] = IF z = p THEN (jobs[p] \ {job}) \cup next ELSE jobs[z]
    BY <1>5, ContinueMembers
  <2>6. Tasks(x, y, "answered")'
    BY <1>1, <1>8, <1>9, <2>1, <2>5, JobsDiffer DEF InStage, Tasks
  <2>7. <<x, y, "offerer">> \in Ends /\ <<x, y, "offerer">> # e
    BY <1>3, <1>9, EndsAreEnds DEF Roles
  <2>8. /\ table' = table /\ pc'[e] = "stable"
        /\ pc'[<<x, y, "offerer">>] = pc[<<x, y, "offerer">>]
    BY <1>5, <2>7 DEF Step, TypeOK
  <2>9. EndsAt(x, y, "answered")'
    BY <1>3, <1>9, <2>1, <2>8 DEF InStage, EndsAt, Offerer, Answerer
  <2> QED  BY <2>4, <2>6, <2>9 DEF InStage, Stages
<1>10. CASE ~(p = y /\ q = x)
  <2>1. e # <<x, y, "offerer">> /\ e # <<y, x, "answerer">>
    BY <1>3, <1>10
  <2>2. EndsAt(x, y, s)'
    BY <1>5, <2>1, StepOther DEF InStage
  <2>3. p = x => \A d \in {"initiate", "describe", "answer"} : J(d, y) # job /\ J(d, y) \notin next
    BY <1>1, <1>8, JobsDiffer
  <2>4. p = y => \A d \in {"offer", "accept"} : J(d, x) # job /\ J(d, x) \notin next
    BY <1>1, <1>8, <1>10, JobsDiffer
  <2>5. Tasks(x, y, s)'
    BY <1>5, <2>3, <2>4, ContinueOther DEF InStage
  <2>6. Passes(x, F("answer", y))
    BY <1>4, <1>6, <1>10, FramesEqual
  <2> QED  BY <1>7, <2>2, <2>5, <2>6, MailSame DEF InStage
<1> QED  BY <1>9, <1>10

LEMMA TakeAnswerSteady ==
    ASSUME IndInv, AnswersAreMade, NEW p \in Peers, NEW job \in jobs[p], TakeAnswer(p, job),
           notices' = notices, NEW x \in Peers, NEW y \in Peers, x # y
    PROVE  Steady(x, y)
<1> SUFFICES ASSUME NEW s \in Stages, InStage(x, y, s)
             PROVE  \E t \in Stages : InStage(x, y, t)'
  BY DEF Steady
<1> USE DEF IndInv
<1>1. PICK q \in Peers : q = job.with /\ job = J("answer", q)
  BY FrameTypes, JobShapes DEF TypeOK, TakeAnswer
<1>2. PICK r \in Roles \cap {table[p][q]} : Step(<<p, q, r>>, "offered", "stable")
  BY <1>1 DEF TakeAnswer, Kept
<1>3. PICK next : next = {}
  OBVIOUS
<1>4. Continue(p, job, next) /\ inbox' = inbox
  BY <1>3 DEF TakeAnswer
<1>5. PICK e \in Ends : e = <<p, q, r>>
  BY EndsAreEnds
<1>6. Step(e, "offered", "stable")
  BY <1>2, <1>5
<1>7. \A z, g : Passes(z, g)
  BY <1>4 DEF Passes
<1>8. CASE p = x /\ q = y
  <2>1. s = "answer"
    BY <1>1, <1>8 DEF InStage, Tasks
  <2>2. r = "offerer"
    BY <1>2, <1>8, <2>1 DEF InStage, EndsAt, Offerer
  <2>3. Mail(x, y, "done")'
    BY <1>4, <2>1 DEF InStage, Mail, Holds
  <2>4. \A z \in Peers : jobs'[z] = IF z = p THEN (jobs[p] \ {job}) \cup next ELSE jobs[z]
    BY <1>4, ContinueMembers
  <2>5. Tasks(x, y, "done")'
    BY <1>1, <1>3, <1>8, <2>1, <2>4, JobsDiffer DEF InStage, Tasks
  <2>6. <<y, x, "answerer">> \in Ends /\ <<y, x, "answerer">> # e
    BY <1>5, <1>8, EndsAreEnds DEF Roles
  <2>7. /\ table' = table /\ pc'[e] = "stable"
        /\ pc'[<<y, x, "answerer">>] = pc[<<y, x, "answerer">>]
    BY <1>6, <2>6 DEF Step, TypeOK
  <2>8. EndsAt(x, y, "done")'
    BY <1>5, <1>8, <2>1, <2>2, <2>7 DEF InStage, EndsAt, Offerer, Answerer
  <2> QED  BY <2>3, <2>5, <2>8 DEF InStage, Stages
<1>9. ~(p = y /\ q = x)
  BY <1>1, StageCalls
<1>10. CASE ~(p = x /\ q = y)
  <2>1. e # <<x, y, "offerer">> /\ e # <<y, x, "answerer">>
    BY <1>5, <1>9, <1>10
  <2>2. EndsAt(x, y, s)'
    BY <1>6, <2>1, StepOther DEF InStage
  <2>3. p = x => \A d \in {"initiate", "describe", "answer"} : J(d, y) # job /\ J(d, y) \notin next
    BY <1>1, <1>3, <1>10, JobsDiffer
  <2>4. p = y => \A d \in {"offer", "accept"} : J(d, x) # job /\ J(d, x) \notin next
    BY <1>1, <1>3, JobsDiffer
  <2>5. Tasks(x, y, s)'
    BY <1>4, <2>3, <2>4, ContinueOther DEF InStage
  <2> QED  BY <1>7, <2>2, <2>5, MailSame DEF InStage
<1> QED  BY <1>8, <1>10

\* Candidates are of no stage.
LEMMA CandidateSteady ==
    ASSUME IndInv, NEW p \in Peers, NEW job \in jobs[p],
           SendCandidate(p, job) \/ TakeCandidate(p, job),
           notices' = notices, NEW x \in Peers, NEW y \in Peers, x # y
    PROVE  Steady(x, y)
<1> SUFFICES ASSUME NEW s \in Stages, InStage(x, y, s) PROVE InStage(x, y, s)'
  BY DEF Steady
<1> USE DEF IndInv
<1>1. /\ job.does \in {"gather", "candidate"} /\ job.with \in Peers /\ job.role \in Roles
      /\ table' = table /\ pc' = pc
  BY FrameTypes DEF SendCandidate, TakeCandidate, endVars, TypeOK
<1>2. \A d, z : J(d, z).does = d
  BY DEF J
<1>3. PICK next : next = {}
  OBVIOUS
<1>4. Continue(p, job, next)
  BY <1>3 DEF SendCandidate, TakeCandidate
<1>5. \A d, z : d \notin {"gather", "candidate"} => J(d, z) # job /\ J(d, z) \notin next
  BY <1>1, <1>2, <1>3
<1>6. Tasks(x, y, s)'
  <2>1. p = x => \A d \in {"initiate", "describe", "answer"} : J(d, y) # job /\ J(d, y) \notin next
    BY <1>5
  <2>2. p = y => \A d \in {"offer", "accept"} : J(d, x) # job /\ J(d, x) \notin next
    BY <1>5
  <2> QED  BY <1>4, <2>1, <2>2, ContinueOther DEF InStage
<1>7. Passes(x, F("joined", y)) /\ Passes(x, F("answer", y)) /\ Passes(y, F("offer", x))
  <2>1. CASE inbox' = inbox
    BY <2>1 DEF Passes
  <2>2. CASE SendCandidate(p, job)
    <3>1. PICK f \in Frame : f = [type |-> "candidate", who |-> p, role |-> job.role]
      BY <1>1, FrameTypes
    <3>2. PICK q \in Peers : q = job.with
      BY <1>1
    <3>3. Route(p, q, f)
      BY <2>2, <3>1, <3>2 DEF SendCandidate
    <3>4. \A d, z : d # "candidate" => f # F(d, z)
      <4>1. \A d, z : F(d, z).type = d
        BY DEF F
      <4>2. f.type = "candidate"
        BY <3>1
      <4> QED  BY <4>1, <4>2
    <3> QED  BY <3>3, <3>4, RoutePasses
  <2> QED  BY <2>1, <2>2 DEF TakeCandidate
<1>8. EndsAt(x, y, s)'
  BY <1>1, EndsSame DEF InStage
<1> QED  BY <1>6, <1>7, <1>8, MailSame DEF InStage

\* No task of an exchange between two that are in fails.
LEMMA FailSteady ==
    ASSUME IndInv, AnswersAreMade, NEW p \in Peers, NEW job \in jobs[p], Fail(p, job),
           notices' = notices, NEW x \in Peers, NEW y \in Peers, x # y
    PROVE  Steady(x, y)
<1> SUFFICES ASSUME NEW s \in Stages, InStage(x, y, s) PROVE InStage(x, y, s)'
  BY DEF Steady
<1> USE DEF IndInv
<1>1. PICK next : next = {}
  OBVIOUS
<1>2. /\ Continue(p, job, next) /\ inbox' = inbox /\ table' = table /\ pc' = pc
      /\ job.does \in {"describe", "accept", "answer", "candidate"}
  BY <1>1 DEF Fail, endVars
<1>3. job.with \in Peers /\ (job.does # "candidate" => job = J(job.does, job.with))
  BY <1>2, FrameTypes, JobShapes DEF TypeOK
<1>4. \A d, z : J(d, z).does = d /\ J(d, z).with = z
  BY DEF J
<1>5. p = x => \A d \in {"initiate", "describe", "answer"} : J(d, y) # job /\ J(d, y) \notin next
  <2> SUFFICES ASSUME p = x, NEW d \in {"initiate", "describe", "answer"}, J(d, y) = job
               PROVE  FALSE
    BY <1>1
  <2>1. s = d /\ job.does = d /\ job.with = y
    BY <1>4 DEF InStage, Tasks
  <2>2. CASE d = "describe"
    <3>1. pc[<<x, y, "offerer">>] = "new"
      BY <2>1, <2>2 DEF InStage, EndsAt, Offerer
    <3> QED  BY <2>1, <2>2, <3>1 DEF Fail
  <2>3. CASE d = "answer"
    <3>1. pc[<<x, y, "offerer">>] = "offered" /\ table[x][y] = "offerer"
      BY <2>1, <2>3 DEF InStage, EndsAt, Offerer
    <3>2. <<x, y, "offerer">> \in Kept(x, y)
      BY <3>1 DEF Kept, Roles
    <3> QED  BY <2>1, <2>3, <3>1, <3>2 DEF Fail
  <2>4. CASE d = "initiate"
    BY <1>2, <2>1, <2>4
  <2> QED  BY <2>2, <2>3, <2>4
<1>6. p = y => \A d \in {"offer", "accept"} : J(d, x) # job /\ J(d, x) \notin next
  <2> SUFFICES ASSUME p = y, NEW d \in {"offer", "accept"}, J(d, x) = job
               PROVE  FALSE
    BY <1>1
  <2>1. s = d /\ job.does = d /\ job.with = x
    BY <1>4 DEF InStage, Tasks
  <2>2. CASE d = "accept"
    <3>1. pc[<<y, x, "answerer">>] = "new"
      BY <2>1, <2>2 DEF InStage, EndsAt, Answerer
    <3> QED  BY <2>1, <2>2, <3>1 DEF Fail
  <2>3. CASE d = "offer"
    BY <1>2, <2>1, <2>3
  <2> QED  BY <2>2, <2>3
<1>7. Tasks(x, y, s)'
  BY <1>2, <1>5, <1>6, ContinueOther DEF InStage
<1>8. \A z, g : Passes(z, g)
  BY <1>2 DEF Passes
<1> QED  BY <1>2, <1>7, <1>8, MailSame, EndsSame DEF InStage

LEMMA RunSteady ==
    ASSUME IndInv, AnswersAreMade, NEW p \in Peers, NEW job \in jobs[p], Run(p, job),
           NEW x \in Peers, NEW y \in Peers, x # y, place[x] = "in", place[y] = "in"
    PROVE  Steady(x, y)
<1>1. notices' = notices
  BY DEF Run, serverVars
<1> QED  BY <1>1, InitiateSteady, DescribeSteady, TakeOfferSteady, AcceptSteady,
            TakeAnswerSteady, CandidateSteady, FailSteady DEF Run

-----------------------------------------------------------------------------
\* Who is said to have left, and what is answered.

LEMMA FactsKeep ==
    ASSUME LeftAreGone, AnswersAreMade,
           \A z \in Peers : place[z] = "gone" => place'[z] = "gone",
           \A e \in Ends : pc[e] # "none" => pc'[e] # "none",
           \A x, y \in Peers : F("left", y) \in Elements(inbox'[x]) =>
               \/ F("left", y) \in Elements(inbox[x])
               \/ [to |-> x, frame |-> F("left", y)] \in notices,
           \A x, y \in Peers : [to |-> x, frame |-> F("left", y)] \in notices' =>
               [to |-> x, frame |-> F("left", y)] \in notices \/ place'[y] = "gone",
           \A x, y \in Peers : F("answer", y) \in Elements(inbox'[x]) =>
               F("answer", y) \in Elements(inbox[x]) \/ pc'[<<y, x, "answerer">>] # "none",
           \A x, y \in Peers : J("answer", y) \in jobs'[x] =>
               J("answer", y) \in jobs[x] \/ F("answer", y) \in Elements(inbox[x])
    PROVE  LeftAreGone' /\ AnswersAreMade'
<1>1. LeftAreGone'
  BY DEF LeftAreGone
<1>2. \A x, y \in Peers : <<y, x, "answerer">> \in Ends
  BY EndsAreEnds DEF Roles
<1>3. AnswersAreMade'
  BY <1>2 DEF AnswersAreMade
<1> QED  BY <1>1, <1>3

LEMMA EnterFacts ==
    ASSUME IndInv, LeftAreGone, AnswersAreMade, NEW n \in Peers, Enter(n)
    PROVE  LeftAreGone' /\ AnswersAreMade'
<1>1. /\ \A z \in Peers : place[z] = "gone" => place'[z] = "gone"
      /\ jobs' = jobs /\ pc' = pc
  BY DEF Enter, endVars, IndInv, TypeOK
<1>2. \A x \in Peers : inbox'[x] = inbox[x] \/ inbox'[x] = <<F("joined", n)>>
  BY DEF Enter, IndInv, TypeOK
<1>3. Elements(<<F("joined", n)>>) = {F("joined", n)}
  BY DEF Elements
<1>4. \A x, y \in Peers : /\ F("left", y) \in Elements(inbox'[x]) => F("left", y) \in Elements(inbox[x])
                          /\ F("answer", y) \in Elements(inbox'[x]) => F("answer", y) \in Elements(inbox[x])
  BY <1>2, <1>3, FramesEqual
<1>5. \A x, y \in Peers : [to |-> x, frame |-> F("left", y)] \in notices' =>
                              [to |-> x, frame |-> F("left", y)] \in notices
  BY TellAdds, FramesEqual DEF Enter
<1> QED  BY <1>1, <1>4, <1>5, FactsKeep

LEMMA EndSessionFacts ==
    ASSUME IndInv, LeftAreGone, AnswersAreMade, NEW p \in Peers, EndSession(p)
    PROVE  LeftAreGone' /\ AnswersAreMade'
<1>1. /\ \A z \in Peers : place'[z] = IF z = p THEN "gone" ELSE place[z]
      /\ notices' = Tell(Inside \ {p}, F("left", p))
      /\ jobs' = jobs /\ pc' = pc
  BY DEF EndSession, endVars, IndInv, TypeOK
<1>2. \A x \in Peers : Elements(inbox'[x]) \subseteq Elements(inbox[x])
  BY EndSessionType DEF IndInv
<1>3. \A x, y \in Peers : [to |-> x, frame |-> F("left", y)] \in notices' =>
          [to |-> x, frame |-> F("left", y)] \in notices \/ place'[y] = "gone"
  BY <1>1, TellAdds, FramesEqual
<1> QED  BY <1>1, <1>2, <1>3, FactsKeep

LEMMA SendNoticeFacts ==
    ASSUME IndInv, LeftAreGone, AnswersAreMade, NEW n \in notices, SendNotice(n)
    PROVE  LeftAreGone' /\ AnswersAreMade'
<1>1. /\ place' = place /\ jobs' = jobs /\ pc' = pc /\ notices' \subseteq notices
  BY DEF SendNotice, endVars
<1>2. \A x \in Peers : Elements(inbox'[x]) \subseteq
          Elements(inbox[x]) \cup (IF x = n.to THEN {n.frame} ELSE {})
  BY SendNoticeType DEF IndInv
<1>3. n = [to |-> n.to, frame |-> n.frame] /\ n.frame.type \in {"joined", "left"}
  BY DEF IndInv, TypeOK, News
<1>4. \A y : F("answer", y) # n.frame
  BY <1>3 DEF F
<1>5. \A x, y \in Peers : F("left", y) \in Elements(inbox'[x]) =>
          \/ F("left", y) \in Elements(inbox[x])
          \/ [to |-> x, frame |-> F("left", y)] \in notices
  BY <1>2, <1>3
<1> QED  BY <1>1, <1>2, <1>4, <1>5, FactsKeep

LEMMA LeaveFacts ==
    ASSUME IndInv, LeftAreGone, AnswersAreMade, NEW p \in Peers, Leave(p)
    PROVE  LeftAreGone' /\ AnswersAreMade'
<1>1. /\ \A z \in Peers : place[z] = "gone" => place'[z] = "gone"
      /\ notices' = notices /\ inbox' = inbox /\ jobs' = jobs
  BY DEF Leave, IndInv, TypeOK
<1>2. \A e \in Ends : pc[e] # "none" => pc'[e] # "none"
  BY DEF Leave, Close
<1> QED  BY <1>1, <1>2, FactsKeep

LEMMA HandleFrameFacts ==
    ASSUME IndInv, LeftAreGone, AnswersAreMade, NEW p \in Peers, HandleFrame(p)
    PROVE  LeftAreGone' /\ AnswersAreMade'
<1>1. place' = place /\ notices' = notices
  BY DEF HandleFrame, serverVars
<1>2. /\ \A x \in Peers : Elements(inbox'[x]) \subseteq Elements(inbox[x])
      /\ \A x \in Peers : x # p => jobs'[x] = jobs[x]
      /\ \A j \in jobs'[p] :
            \/ j \in jobs[p]
            \/ j.does = "candidate"
            \/ /\ j.does = "initiate"
               /\ F("joined", j.with) \in Elements(inbox[p])
            \/ /\ j.does \in {"offer", "answer"}
               /\ F(j.does, j.with) \in Elements(inbox[p])
  BY HandleFrameType DEF IndInv
<1>3. \A y : J("answer", y).does = "answer" /\ J("answer", y).with = y
  BY DEF J
<1>4. \A x, y \in Peers : J("answer", y) \in jobs'[x] =>
          J("answer", y) \in jobs[x] \/ F("answer", y) \in Elements(inbox[x])
  BY <1>2, <1>3
<1>5. \A e \in Ends : pc[e] # "none" => pc'[e] # "none"
  BY DEF HandleFrame, RemovePeer, Close, endVars
<1> QED  BY <1>1, <1>2, <1>4, <1>5, FactsKeep

LEMMA RunFacts ==
    ASSUME IndInv, LeftAreGone, AnswersAreMade, NEW p \in Peers, NEW job \in jobs[p], Run(p, job)
    PROVE  LeftAreGone' /\ AnswersAreMade'
<1> USE DEF IndInv
<1>1. place' = place /\ notices' = notices
  BY DEF Run, serverVars
<1>2. \A e \in Ends : pc[e] # "none" => pc'[e] # "none"
  BY DEF Run, Initiate, Describe, TakeOffer, Accept, TakeAnswer, SendCandidate, TakeCandidate, Fail,
         NewEnd, Step, endVars, TypeOK
<1>3. \A x, y \in Peers : J("answer", y) \in jobs'[x] => J("answer", y) \in jobs[x]
  <2>1. PICK next : Continue(p, job, next) /\ \A y : J("answer", y) \notin next
    <3>1. \A y : J("answer", y).does = "answer"
      BY DEF J
    <3>2. \A q : J("describe", q).does = "describe" /\ J("accept", q).does = "accept"
      BY DEF J
    <3>3. CASE Initiate(p, job)
      BY <3>1, <3>2, <3>3 DEF Initiate
    <3>4. CASE TakeOffer(p, job)
      BY <3>1, <3>2, <3>4 DEF TakeOffer
    <3>5. CASE Describe(p, job)
      BY <3>1, <3>5, GatherJobs DEF Describe
    <3>6. CASE Accept(p, job)
      BY <3>1, <3>6, GatherJobs DEF Accept
    <3>7. CASE TakeAnswer(p, job) \/ SendCandidate(p, job) \/ TakeCandidate(p, job) \/ Fail(p, job)
      BY <3>7 DEF TakeAnswer, SendCandidate, TakeCandidate, Fail
    <3> QED  BY <3>3, <3>4, <3>5, <3>6, <3>7 DEF Run
  <2>2. \A z \in Peers : jobs'[z] = IF z = p THEN (jobs[p] \ {job}) \cup next ELSE jobs[z]
    <3>1. TypeOK
      OBVIOUS
    <3> QED  BY <2>1, <3>1, ContinueMembers
  <2> QED  BY <2>1, <2>2
<1>4. job \in Job /\ job.with \in Peers /\ (job.does \in {"gather", "candidate"} => job.role \in Roles)
  BY FrameTypes DEF TypeOK
<1>5. \A f \in Frame : Route(p, job.with, f) =>
          \A x \in Peers : Elements(inbox'[x]) \subseteq
              Elements(inbox[x]) \cup (IF x = job.with THEN {f} ELSE {})
  <2>1. PICK q \in Peers : q = job.with
    BY <1>4
  <2> SUFFICES ASSUME NEW f \in Frame, Route(p, q, f)
               PROVE  \A x \in Peers : Elements(inbox'[x]) \subseteq
                          Elements(inbox[x]) \cup (IF x = q THEN {f} ELSE {})
    BY <2>1
  <2> QED  BY RouteAdds, ZenonT(60)
<1>6. \A x, y \in Peers : F("left", y) \in Elements(inbox'[x]) => F("left", y) \in Elements(inbox[x])
  <2>1. CASE inbox' = inbox
    BY <2>1
  <2>2. CASE inbox' # inbox
    <3>1. PICK f \in Frame : Route(p, job.with, f) /\ f.type \in {"offer", "answer", "candidate"}
      <4>1. \A d, z : F(d, z).type = d
        BY DEF F
      <4>2. CASE Describe(p, job)
        BY <4>1, <4>2, FrameTypes DEF Describe
      <4>3. CASE Accept(p, job)
        BY <4>1, <4>3, FrameTypes DEF Accept
      <4>4. CASE SendCandidate(p, job)
        BY <1>4, <4>4, FrameTypes DEF SendCandidate
      <4> QED  BY <2>2, <4>2, <4>3, <4>4
               DEF Run, Initiate, TakeOffer, TakeAnswer, TakeCandidate, Fail
    <3>2. \A x \in Peers : Elements(inbox'[x]) \subseteq
              Elements(inbox[x]) \cup (IF x = job.with THEN {f} ELSE {})
      BY <1>5, <3>1
    <3>3. \A y : f # F("left", y)
      BY <3>1 DEF F
    <3> QED  BY <3>2, <3>3
  <2> QED  BY <2>1, <2>2
<1>7. \A x, y \in Peers : F("answer", y) \in Elements(inbox'[x]) =>
          F("answer", y) \in Elements(inbox[x]) \/ pc'[<<y, x, "answerer">>] # "none"
  <2>1. CASE inbox' = inbox
    BY <2>1
  <2>2. CASE Accept(p, job)
    <3>1. Route(p, job.with, F("answer", p)) /\ F("answer", p) \in Frame
      BY <2>2, FrameTypes DEF Accept
    <3>2. \A x \in Peers : Elements(inbox'[x]) \subseteq
              Elements(inbox[x]) \cup (IF x = job.with THEN {F("answer", p)} ELSE {})
      BY <1>5, <3>1
    <3>3. <<p, job.with, "answerer">> \in Ends
      BY <1>4, EndsAreEnds DEF Roles
    <3>4. pc'[<<p, job.with, "answerer">>] = "stable"
      BY <2>2, <3>3 DEF Accept, Step, TypeOK
    <3> QED  BY <3>2, <3>4, FramesEqual
  <2>3. CASE Describe(p, job) \/ SendCandidate(p, job)
    <3>1. PICK f \in Frame : Route(p, job.with, f) /\ f.type \in {"offer", "candidate"}
      <4>1. \A d, z : F(d, z).type = d
        BY DEF F
      <4>2. CASE Describe(p, job)
        BY <4>1, <4>2, FrameTypes DEF Describe
      <4>3. CASE SendCandidate(p, job)
        BY <1>4, <4>3, FrameTypes DEF SendCandidate
      <4> QED  BY <2>3, <4>2, <4>3
    <3>2. \A x \in Peers : Elements(inbox'[x]) \subseteq
              Elements(inbox[x]) \cup (IF x = job.with THEN {f} ELSE {})
      BY <1>5, <3>1
    <3>3. \A y : f # F("answer", y)
      BY <3>1 DEF F
    <3> QED  BY <3>2, <3>3
  <2> QED  BY <2>1, <2>2, <2>3 DEF Run, Initiate, TakeOffer, TakeAnswer, TakeCandidate, Fail
<1> QED  BY <1>1, <1>2, <1>3, <1>6, <1>7, FactsKeep
-----------------------------------------------------------------------------
\* Every two that are in finish.

LEMMA SteadyKeeps ==
    ASSUME PairInv,
           \A x, y \in Peers : x # y /\ place'[x] = "in" /\ place'[y] = "in" =>
               /\ place[x] = "in" /\ place[y] = "in"
               /\ Steady(x, y)
    PROVE  Progress'
  BY DEF PairInv, Progress, Steady

LEMMA PairStep == IndInv /\ PairInv /\ [Next]_vars => PairInv'
<1> SUFFICES ASSUME IndInv, PairInv, [Next]_vars PROVE PairInv'
  OBVIOUS
<1> USE DEF PairInv
<1>1. ASSUME NEW n \in Peers, Enter(n) PROVE PairInv'
  <2>1. \A z \in Peers : place'[z] = IF z = n THEN "in" ELSE place[z]
    BY <1>1 DEF Enter, IndInv, TypeOK
  <2>2. ASSUME NEW x \in Peers, NEW y \in Peers, x # y, place'[x] = "in", place'[y] = "in"
        PROVE  \E s \in Stages : InStage(x, y, s)' \/ InStage(y, x, s)'
    <3>1. CASE x # n /\ y # n
      <4>1. place[x] = "in" /\ place[y] = "in"
        BY <2>1, <2>2, <3>1
      <4>2. Steady(x, y) /\ Steady(y, x)
        BY <1>1, <2>2, <3>1, <4>1, EnterSteady
      <4> QED  BY <2>2, <4>1, <4>2 DEF Progress, Steady
    <3>2. CASE y = n
      <4>1. place[x] = "in"
        BY <2>1, <2>2, <3>2
      <4>2. InStage(x, n, "told")'
        BY <1>1, <2>2, <3>2, <4>1, EnterStarts
      <4> QED  BY <3>2, <4>2 DEF Stages
    <3>3. CASE x = n
      <4>1. place[y] = "in"
        BY <2>1, <2>2, <3>3
      <4>2. InStage(y, n, "told")'
        BY <1>1, <2>2, <3>3, <4>1, EnterStarts
      <4> QED  BY <3>3, <4>2 DEF Stages
    <3> QED  BY <3>1, <3>2, <3>3
  <2>3. Progress'
    BY <2>2 DEF Progress
  <2> QED  BY <1>1, <2>3, EnterFacts
<1>2. ASSUME NEW p \in Peers, EndSession(p) PROVE PairInv'
  <2>1. \A z \in Peers : place'[z] = IF z = p THEN "gone" ELSE place[z]
    BY <1>2 DEF EndSession, IndInv, TypeOK
  <2>2. \A x, y \in Peers : x # y /\ place'[x] = "in" /\ place'[y] = "in" =>
            place[x] = "in" /\ place[y] = "in" /\ Steady(x, y)
    BY <1>2, <2>1, EndSessionSteady
  <2> QED  BY <1>2, <2>2, SteadyKeeps, EndSessionFacts
<1>3. ASSUME NEW p \in Peers, Leave(p) PROVE PairInv'
  <2>1. \A z \in Peers : place'[z] = IF z = p THEN "leaving" ELSE place[z]
    BY <1>3 DEF Leave, IndInv, TypeOK
  <2>2. \A x, y \in Peers : x # y /\ place'[x] = "in" /\ place'[y] = "in" =>
            place[x] = "in" /\ place[y] = "in" /\ Steady(x, y)
    BY <1>3, <2>1, LeaveSteady
  <2> QED  BY <1>3, <2>2, SteadyKeeps, LeaveFacts
<1>4. ASSUME NEW p \in Peers, HandleFrame(p) PROVE PairInv'
  <2>1. place' = place
    BY <1>4 DEF HandleFrame, serverVars
  <2>2. \A x, y \in Peers : x # y /\ place'[x] = "in" /\ place'[y] = "in" =>
            place[x] = "in" /\ place[y] = "in" /\ Steady(x, y)
    BY <1>4, <2>1, HandleFrameSteady
  <2> QED  BY <1>4, <2>2, SteadyKeeps, HandleFrameFacts
<1>5. ASSUME NEW p \in Peers, NEW job \in jobs[p], Run(p, job) PROVE PairInv'
  <2>1. place' = place
    BY <1>5 DEF Run, serverVars
  <2>2. \A x, y \in Peers : x # y /\ place'[x] = "in" /\ place'[y] = "in" =>
            place[x] = "in" /\ place[y] = "in" /\ Steady(x, y)
    BY <1>5, <2>1, RunSteady
  <2> QED  BY <1>5, <2>2, SteadyKeeps, RunFacts
<1>6. ASSUME NEW n \in notices, SendNotice(n) PROVE PairInv'
  <2>1. place' = place
    BY <1>6 DEF SendNotice
  <2>2. \A x, y \in Peers : x # y /\ place'[x] = "in" /\ place'[y] = "in" =>
            place[x] = "in" /\ place[y] = "in" /\ Steady(x, y)
    BY <1>6, <2>1, SendNoticeSteady
  <2> QED  BY <1>6, <2>2, SteadyKeeps, SendNoticeFacts
<1>7. CASE UNCHANGED vars
  <2>1. LeftAreGone' /\ AnswersAreMade'
    BY <1>7 DEF LeftAreGone, AnswersAreMade, vars
  <2>2. \A x, y, s : InStage(x, y, s) => InStage(x, y, s)'
    BY <1>7 DEF InStage, Mail, Tasks, EndsAt, vars
  <2>3. Progress'
    BY <1>7, <2>2 DEF Progress, vars
  <2> QED  BY <2>1, <2>3
<1> QED  BY <1>1, <1>2, <1>3, <1>4, <1>5, <1>6, <1>7 DEF Next, LoseConnection, HandleLeave

LEMMA PairInit == Init => PairInv
<1> SUFFICES ASSUME Init PROVE PairInv
  OBVIOUS
<1>1. \A x \in Peers : Elements(inbox[x]) = {}
  BY EmptySeq, LenProperties DEF Init, Elements
<1>2. Progress
  BY DEF Init, Progress
<1> QED  BY <1>1, <1>2 DEF Init, PairInv, LeftAreGone, AnswersAreMade

\* Any two that are in have one exchange, one way, and what is on the way
\* between them is what it waits for: the inductive invariant.
THEOREM ExchangesProgress == Spec => [](IndInv /\ PairInv)
<1>1. Init => IndInv /\ PairInv
  BY TypeInit, CallsInit, PairInit DEF IndInv
<1>2. IndInv /\ PairInv /\ [Next]_vars => (IndInv /\ PairInv)'
  BY CallsStep, PairStep
<1> QED  BY <1>1, <1>2, PTL DEF Spec

\* Once nothing is in flight, every two peers that are in have exchanged offer
\* and answer, for any number of peers and whoever came, left or was lost
\* meanwhile (webrtc_session.rs:131, 205).
THEOREM PairsNegotiate == Spec => []EveryPairNegotiates
<1>1. ASSUME PairInv, Settled, NEW x \in Peers, NEW y \in Peers, NEW s \in Stages, InStage(x, y, s)
      PROVE  Negotiated(x, y) /\ Negotiated(y, x)
  <2>1. Elements(<<>>) = {}
    BY EmptySeq, LenProperties DEF Elements
  <2>2. \A f : ~Once(<<>>, f)
    BY <2>1, OnceIsThere DEF Never
  <2>3. notices = {} /\ inbox[x] = <<>> /\ inbox[y] = <<>> /\ jobs[x] = {} /\ jobs[y] = {}
    BY <1>1 DEF Settled
  <2>4. s = "done"
    <3>1. s \notin {"told", "joined", "offered", "answered"}
      BY <1>1, <2>2, <2>3 DEF InStage, Mail, Holds
    <3>2. s \notin {"initiate", "describe", "answer", "offer", "accept"}
      BY <1>1, <2>3 DEF InStage, Tasks
    <3> QED  BY <1>1, <3>1, <3>2 DEF Stages
  <2>5. /\ table[x][y] = "offerer" /\ table[y][x] = "answerer"
        /\ pc[<<x, y, "offerer">>] = "stable" /\ pc[<<y, x, "answerer">>] = "stable"
    BY <1>1, <2>4 DEF InStage, EndsAt, Offerer, Answerer
  <2>6. {"offerer", "answerer"} = Roles /\ {"answerer", "offerer"} = Roles
    BY DEF Roles
  <2> QED  BY <2>5, <2>6 DEF Negotiated
<1>2. PairInv => EveryPairNegotiates
  <2> SUFFICES ASSUME PairInv, Settled, NEW x \in Present, NEW y \in Present, x # y
               PROVE  Negotiated(x, y)
    BY DEF EveryPairNegotiates
  <2>1. x \in Peers /\ y \in Peers /\ place[x] = "in" /\ place[y] = "in"
    BY DEF Present
  <2>2. PICK s \in Stages : InStage(x, y, s) \/ InStage(y, x, s)
    BY <2>1 DEF PairInv, Progress
  <2> QED  BY <1>1, <2>1, <2>2
<1> QED  BY <1>2, ExchangesProgress, PTL
=============================================================================
