----------------------------- MODULE MessageLog -----------------------------
(***************************************************************************)
(* The messages of one chat on their two ways: through the hub to the      *)
(* pages that are open, and through the queue of the database writer into  *)
(* the store, from where a page loads its history (session.rs, db.rs,      *)
(* socket.ts).  Attached files are uploaded beforehand (files.rs).         *)
(*                                                                         *)
(* Every user here is a member of the chat.  Members who only read are     *)
(* Viewers; who sends is not modelled as a viewer, it reads like any       *)
(* other.  No two messages have sender, text and millisecond in common.    *)
(***************************************************************************)
EXTENDS Naturals, SequencesExt

CONSTANTS
    Users,          \* those who send
    Viewers,        \* those whose pages are looked at
    NoFile,
    Uploaders,      \* users who upload a file in this instance
    BatchSize,      \* messages per transaction (512 in the code)
    HistoryLimit,   \* messages in an answer (100 in the code)
    MaxSaid,        \* bounds: messages of a user,
    MaxFailures     \*   failed statements, lost connections and crashes

ASSUME NoFileIsNoUser == NoFile \notin Users
ASSUME UploadersAreUsers == Uploaders \subseteq Users
ASSUME SizesArePositive == BatchSize \in Nat \ {0} /\ HistoryLimit \in Nat \ {0}

VARIABLES
    \* Sessions of senders, the writer, the store.
    said,       \* user -> how many messages it has sent
    hand,       \* user -> what its session has sent out and not yet queued
    writes,     \* the writer's queue
    batch,      \* what the writer is working on
    inTxn,      \* a ROLLBACK failed: the writer's transaction is still open
    log,        \* the table messages, in the order of its ids
    lost,       \* messages that were said and will never be in the log
    \* Uploads.
    upload,     \* user -> how far its upload has got
    file,       \* user -> its file on the disk
    rows,       \* the users whose files the table attachments holds
    \* Viewers: their sessions and pages.
    inHub,      \* viewer -> the hub's room holds it
    outbox,     \* viewer -> frames the hub has queued for its session
    stream,     \* viewer -> frames on the way to its page
    requests,   \* viewer -> what its page has asked for
    online,     \* viewer -> its page is connected
    open,       \* viewer -> the chat is open on its page
    loaded,     \* viewer -> the page has its history
    timeline,   \* viewer -> the messages on its page
    failures    \* how many so far

storeVars == <<said, hand, writes, batch, inTxn, log, lost>>
uploadVars == <<upload, file, rows>>
sessionVars == <<inHub, outbox, stream, requests, online>>
pageVars == <<open, loaded, timeline>>
vars == <<storeVars, uploadVars, sessionVars, pageVars, failures>>

Message == [from: Users, n: Nat \ {0}, file: Users \cup {NoFile}]
Frame == [type: {"welcome", "joined", "message"}, msgs: Seq(Message)]
           \cup [type: {"history"}, msgs: {h \in Seq(Message) : Len(h) <= HistoryLimit}]

TypeOK ==
    /\ said \in [Users -> Nat]
    /\ hand \in [Users -> Seq(Message)]
    /\ writes \in Seq(Message)
    /\ batch \in Seq(Message) /\ Len(batch) <= BatchSize
    /\ inTxn \in BOOLEAN
    /\ log \in Seq(Message)
    /\ lost \subseteq Message
    /\ upload \in [Users -> {"none", "writing", "written", "done", "failed"}]
    /\ file \in [Users -> {"no", "partial", "full"}]
    /\ rows \subseteq Users
    /\ inHub \in [Viewers -> BOOLEAN]
    /\ outbox \in [Viewers -> Seq(Frame)]
    /\ stream \in [Viewers -> Seq(Frame)]
    /\ requests \in [Viewers -> Seq({"join", "history"})]
    /\ online \in [Viewers -> BOOLEAN]
    /\ open \in [Viewers -> BOOLEAN]
    /\ loaded \in [Viewers -> BOOLEAN]
    /\ timeline \in [Viewers -> Seq(Message)]
    /\ failures \in Nat

Init ==
    /\ said = [u \in Users |-> 0]
    /\ hand = [u \in Users |-> <<>>]
    /\ writes = <<>> /\ batch = <<>> /\ inTxn = FALSE
    /\ log = <<>> /\ lost = {}
    /\ upload = [u \in Users |-> "none"]
    /\ file = [u \in Users |-> "no"]
    /\ rows = {}
    /\ inHub = [v \in Viewers |-> FALSE]
    /\ outbox = [v \in Viewers |-> <<>>]
    /\ stream = [v \in Viewers |-> <<>>]
    /\ requests = [v \in Viewers |-> <<>>]
    /\ online = [v \in Viewers |-> FALSE]
    /\ open = [v \in Viewers |-> FALSE]
    /\ loaded = [v \in Viewers |-> FALSE]
    /\ timeline = [v \in Viewers |-> <<>>]
    /\ failures = 0
-----------------------------------------------------------------------------
\* Sending.

F(type, msgs) == [type |-> type, msgs |-> msgs]

\* send_to_room: the message is on its way before it is queued for the store.
\* A file is what its row says, whatever the client claims.
Say(u) ==
    /\ hand[u] = <<>> /\ said[u] < MaxSaid
    /\ \E f \in rows \cup {NoFile} :
         LET m == [from |-> u, n |-> said[u] + 1, file |-> f] IN
           /\ hand' = [hand EXCEPT ![u] = <<m>>]
           /\ outbox' = [v \in Viewers |->
                 IF inHub[v] THEN Append(outbox[v], F("message", <<m>>)) ELSE outbox[v]]
    /\ said' = [said EXCEPT ![u] = @ + 1]
    /\ UNCHANGED <<writes, batch, inTxn, log, lost, uploadVars, inHub, stream,
                   requests, online, pageVars, failures>>

\* save_message.
Enqueue(u) ==
    /\ hand[u] # <<>>
    /\ writes' = writes \o hand[u]
    /\ hand' = [hand EXCEPT ![u] = <<>>]
    /\ UNCHANGED <<said, batch, inTxn, log, lost, uploadVars, sessionVars, pageVars, failures>>
-----------------------------------------------------------------------------
\* The writer.

Least(a, b) == IF a < b THEN a ELSE b

Take ==
    /\ batch = <<>> /\ writes # <<>>
    /\ LET n == Least(Len(writes), BatchSize) IN
         /\ batch' = SubSeq(writes, 1, n)
         /\ writes' = SubSeq(writes, n + 1, Len(writes))
    /\ UNCHANGED <<said, hand, inTxn, log, lost, uploadVars, sessionVars, pageVars, failures>>

\* Faulty variant of Commit: the batch is not cleared.
CommitKeepsBatch ==
    /\ batch # <<>> /\ ~inTxn
    /\ log' = log \o batch
    /\ UNCHANGED <<said, hand, writes, batch, inTxn, lost, uploadVars, sessionVars,
                   pageVars, failures>>

\* One transaction: nobody sees part of it.
Commit ==
    /\ batch # <<>> /\ ~inTxn
    /\ log' = log \o batch
    /\ batch' = <<>>
    /\ UNCHANGED <<said, hand, writes, inTxn, lost, uploadVars, sessionVars, pageVars, failures>>

\* Faulty variant of FailBatch: no ROLLBACK, and another try for ever.
FailBatchForever ==
    /\ batch # <<>> /\ (inTxn \/ failures < MaxFailures)
    /\ inTxn' = TRUE
    /\ UNCHANGED <<said, hand, writes, batch, log, lost, uploadVars, sessionVars,
                   pageVars, failures>>

\* A statement of the transaction fails, or BEGIN does because the transaction
\* before it is still open.  The batch is given up; the ROLLBACK may fail too.
FailBatch ==
    /\ batch # <<>>
    /\ \E rollback \in BOOLEAN :
         /\ inTxn' = ~rollback
         /\ failures' = failures + (IF inTxn THEN 0 ELSE 1) + (IF rollback THEN 0 ELSE 1)
    /\ failures' <= MaxFailures
    /\ batch' = <<>>
    /\ lost' = lost \cup ToSet(batch)
    /\ UNCHANGED <<said, hand, writes, log, uploadVars, sessionVars, pageVars>>

Write == Commit \/ FailBatch
-----------------------------------------------------------------------------
\* Uploads.

BeginUpload(u) ==
    /\ upload[u] = "none"
    /\ upload' = [upload EXCEPT ![u] = "writing"]
    /\ file' = [file EXCEPT ![u] = "partial"]
    /\ UNCHANGED <<storeVars, rows, sessionVars, pageVars, failures>>

WriteFile(u) ==
    /\ upload[u] = "writing"
    /\ upload' = [upload EXCEPT ![u] = "written"]
    /\ file' = [file EXCEPT ![u] = "full"]
    /\ UNCHANGED <<storeVars, rows, sessionVars, pageVars, failures>>

\* Faulty variant of RecordFile: the row comes before the bytes.
RecordFirst(u) ==
    /\ upload[u] \in {"writing", "written"}
    /\ rows' = rows \cup {u}
    /\ upload' = [upload EXCEPT ![u] = IF @ = "written" THEN "done" ELSE @]
    /\ UNCHANGED <<storeVars, file, sessionVars, pageVars, failures>>

RecordFile(u) ==
    /\ upload[u] = "written"
    /\ rows' = rows \cup {u}
    /\ upload' = [upload EXCEPT ![u] = "done"]
    /\ UNCHANGED <<storeVars, file, sessionVars, pageVars, failures>>

\* The upload is cancelled, or the disk or the INSERT fails.  The file is
\* removed if that works.
FailUpload(u) ==
    /\ upload[u] \in {"writing", "written"}
    /\ upload' = [upload EXCEPT ![u] = "failed"]
    /\ \E f \in {"no", file[u]} : file' = [file EXCEPT ![u] = f]
    /\ UNCHANGED <<storeVars, rows, sessionVars, pageVars, failures>>
-----------------------------------------------------------------------------
\* Viewers' sessions.  A handler writes to the socket itself while what the
\* hub sends waits in the outbox.

Connect(v) ==
    /\ ~online[v]
    /\ online' = [online EXCEPT ![v] = TRUE]
    /\ stream' = [stream EXCEPT ![v] = <<F("welcome", <<>>)>>]
    /\ UNCHANGED <<storeVars, uploadVars, inHub, outbox, requests, pageVars, failures>>

Forward(v) ==
    /\ outbox[v] # <<>>
    /\ stream' = [stream EXCEPT ![v] = Append(@, Head(outbox[v]))]
    /\ outbox' = [outbox EXCEPT ![v] = Tail(@)]
    /\ UNCHANGED <<storeVars, uploadVars, inHub, requests, online, pageVars, failures>>

\* Faulty variant of History: one message too many.
HistoryOneMore ==
    SubSeq(log, IF Len(log) > HistoryLimit THEN Len(log) - HistoryLimit ELSE 1, Len(log))

\* The latest messages in the store, oldest first.
History ==
    SubSeq(log, IF Len(log) > HistoryLimit THEN Len(log) - HistoryLimit + 1 ELSE 1, Len(log))

\* The arms Join and History; the reply is what the store holds when asked.
Serve(v) ==
    /\ requests[v] # <<>>
    /\ requests' = [requests EXCEPT ![v] = Tail(@)]
    /\ \/ /\ Head(requests[v]) = "join"
          /\ inHub' = [inHub EXCEPT ![v] = TRUE]
          /\ stream' = [stream EXCEPT ![v] = Append(@, F("joined", <<>>))]
       \/ /\ Head(requests[v]) = "history"
          /\ stream' = [stream EXCEPT ![v] = Append(@, F("history", History))]
          /\ UNCHANGED inHub
    /\ UNCHANGED <<storeVars, uploadVars, outbox, online, pageVars, failures>>

\* What of the last connection the page has not handled yet is gone.
Offline(lose) ==
    /\ online' = [v \in Viewers |-> online[v] /\ v \notin lose]
    /\ inHub' = [v \in Viewers |-> inHub[v] /\ v \notin lose]
    /\ outbox' = [v \in Viewers |-> IF v \in lose THEN <<>> ELSE outbox[v]]
    /\ stream' = [v \in Viewers |-> IF v \in lose THEN <<>> ELSE stream[v]]
    /\ requests' = [v \in Viewers |-> IF v \in lose THEN <<>> ELSE requests[v]]

LoseConnection(v) ==
    /\ online[v] /\ failures < MaxFailures
    /\ failures' = failures + 1
    /\ Offline({v})
    /\ UNCHANGED <<storeVars, uploadVars, pageVars>>

\* The server stops and starts again.
Crash ==
    /\ failures < MaxFailures
    /\ failures' = failures + 1
    /\ lost' = lost \cup ToSet(writes) \cup ToSet(batch) \cup UNION {ToSet(hand[u]) : u \in Users}
    /\ hand' = [u \in Users |-> <<>>]
    /\ writes' = <<>> /\ batch' = <<>> /\ inTxn' = FALSE
    /\ upload' = [u \in Users |->
                    IF upload[u] \in {"writing", "written"} THEN "failed" ELSE upload[u]]
    /\ Offline(Viewers)
    /\ UNCHANGED <<said, log, file, rows, pageVars>>
-----------------------------------------------------------------------------
\* Pages.

Ask(v, what) == requests' = [requests EXCEPT ![v] = @ \o what]

\* openChat; a request of a page that is offline goes nowhere.
OpenChat(v) ==
    /\ ~open[v]
    /\ open' = [open EXCEPT ![v] = TRUE]
    /\ IF online[v] /\ ~loaded[v] THEN Ask(v, <<"history">>) ELSE UNCHANGED requests
    /\ UNCHANGED <<storeVars, uploadVars, inHub, outbox, stream, online, loaded,
                   timeline, failures>>

\* Faulty variant of Merge: the answer replaces what was shown.
MergeReplaces(history, shown) == history

\* What was shown and is not among those seen in the answer, in its order.
Live(shown, seen) ==
    LET live[i \in 0..Len(shown)] ==
            IF i = 0 THEN <<>>
            ELSE IF shown[i] \in seen THEN live[i - 1]
            ELSE Append(live[i - 1], shown[i])
    IN  live[Len(shown)]

\* The handler of history: what the answer does not hold comes after it.
Merge(history, shown) == history \o Live(shown, ToSet(history))

HandleFrame(v) ==
    /\ stream[v] # <<>>
    /\ stream' = [stream EXCEPT ![v] = Tail(@)]
    /\ LET f == Head(stream[v]) IN
         \/ /\ f.type = "welcome"
            /\ loaded' = [loaded EXCEPT ![v] = FALSE]
            /\ Ask(v, IF open[v] THEN <<"join", "history">> ELSE <<"join">>)
            /\ UNCHANGED timeline
         \/ \* The group was joined since the welcome: only an open chat is reloaded.
            /\ f.type = "joined"
            /\ Ask(v, IF open[v] THEN <<"history">> ELSE <<>>)
            /\ UNCHANGED <<loaded, timeline>>
         \/ /\ f.type = "message"
            /\ timeline' = [timeline EXCEPT ![v] = @ \o f.msgs]
            /\ UNCHANGED <<loaded, requests>>
         \/ /\ f.type = "history"
            /\ timeline' = [timeline EXCEPT ![v] = Merge(f.msgs, @)]
            /\ loaded' = [loaded EXCEPT ![v] = TRUE]
            /\ UNCHANGED requests
    /\ UNCHANGED <<storeVars, uploadVars, inHub, outbox, online, open, failures>>
-----------------------------------------------------------------------------
Next ==
    \/ \E u \in Users : Say(u) \/ Enqueue(u)
    \/ Take \/ Write
    \/ \E u \in Uploaders : BeginUpload(u) \/ WriteFile(u) \/ RecordFile(u) \/ FailUpload(u)
    \/ \E v \in Viewers : \/ Connect(v) \/ Forward(v) \/ Serve(v) \/ OpenChat(v)
                          \/ HandleFrame(v) \/ LoseConnection(v)
    \/ Crash

Spec == Init /\ [][Next]_vars

\* A session that has sent a message out goes on to queue it, without waiting
\* for anything, and the writer's loop never stops.
Fairness ==
    /\ \A u \in Users : WF_vars(Enqueue(u))
    /\ WF_vars(Take) /\ WF_vars(Write)

FairSpec == Spec /\ Fairness
-----------------------------------------------------------------------------
\* Properties.

\* The store is the durable log: batches, failed transactions, failed
\* rollbacks and crashes lose messages, but write none twice and none of a
\* sender's out of order (db.rs:589, 601).
Durable == INSTANCE DurableLog
LogIsDurable == Durable!Spec

\* What a page has shown stays on it, whatever answers it merges and however
\* often it reconnects (socket.ts:128).
NothingShownIsLost ==
    [][\A v \in Viewers : ToSet(timeline[v]) \subseteq ToSet(timeline'[v])]_vars

\* A message names a file that is complete on the disk and has its row: an
\* upload that fails or is cut off by a crash leaves a file without a row, never
\* a row without a file (files.rs:150, 176; session.rs:374).
Resolves(msgs) == \A i \in DOMAIN msgs : msgs[i].file # NoFile => msgs[i].file \in rows

RowsHaveFiles == \A u \in rows : file[u] = "full"

AttachmentsResolve ==
    /\ RowsHaveFiles
    /\ Resolves(log)
    /\ \A v \in Viewers : Resolves(timeline[v])

\* What was said gets into the store, unless its transaction fails or the
\* server stops first: the writer never gets stuck (db.rs:592).
SaidIsSaved ==
    \A u \in Users : \A n \in 1..MaxSaid :
        said[u] >= n ~> \E m \in ToSet(log) \cup lost : m.from = u /\ m.n = n
=============================================================================
