-------------------------- MODULE MessageLogProofs --------------------------
(***************************************************************************)
(* Proofs about MessageLog, for any users and viewers, any size of a batch *)
(* and of an answer, and any number of failures: the store implements      *)
(* DurableLog, each message that was said is in one place, and pages show  *)
(* only such messages, keep what they show and name files that are there.  *)
(*                                                                         *)
(* The invariant has three parts, each kept by every step once the parts   *)
(* before it are: IndInv, the pipeline; AccountInv, where the messages     *)
(* are; PageInv, the sessions and pages.                                   *)
(***************************************************************************)
EXTENDS MessageLog, SequenceTheorems, WellFoundedInduction, TLAPS

-----------------------------------------------------------------------------
\* The inductive invariant.

StoreTypeOK ==
    /\ said \in [Users -> Nat]
    /\ hand \in [Users -> Seq(Message)]
    /\ writes \in Seq(Message)
    /\ batch \in Seq(Message)
    /\ log \in Seq(Message)
    /\ upload \in [Users -> {"none", "writing", "written", "done", "failed"}]
    /\ file \in [Users -> {"no", "partial", "full"}]
    /\ rows \in SUBSET Users

\* Of each sender, the messages of s come before those of t.
Before(s, t) ==
    \A i \in DOMAIN s, j \in DOMAIN t : s[i].from = t[j].from => s[i].n < t[j].n

\* Each stage of the pipeline is in order and ahead of those behind it.
PipelineInOrder ==
    /\ Durable!InOrder(log) /\ Durable!InOrder(batch) /\ Durable!InOrder(writes)
    /\ Before(log, batch) /\ Before(log, writes) /\ Before(batch, writes)

\* A session holds nothing or the last message of its user.
HandHoldsTheLatest ==
    \A u \in Users : hand[u] # <<>> =>
        /\ Len(hand[u]) = 1
        /\ hand[u][1].from = u
        /\ hand[u][1].n = said[u]

\* What has left the session was said, and before what is still in its hand.
Told(q) ==
    \A i \in DOMAIN q :
        /\ q[i].n <= said[q[i].from]
        /\ hand[q[i].from] # <<>> => q[i].n < said[q[i].from]

PipelineWasSaid == Told(log) /\ Told(batch) /\ Told(writes)

PipelineResolves ==
    /\ Resolves(log) /\ Resolves(batch) /\ Resolves(writes)
    /\ \A u \in Users : Resolves(hand[u])

\* An upload is recorded once the file is complete, and touches it no more.
UploadsAreRecordedWhole ==
    /\ RowsHaveFiles
    /\ \A u \in rows : upload[u] = "done"
    /\ \A u \in Users : upload[u] = "written" => file[u] = "full"

IndInv ==
    /\ StoreTypeOK
    /\ PipelineInOrder /\ HandHoldsTheLatest /\ PipelineWasSaid
    /\ PipelineResolves /\ UploadsAreRecordedWhole

\* What the invariant depends on.
pipeline == <<said, hand, writes, batch, log, uploadVars>>
-----------------------------------------------------------------------------
\* Sequences of messages.

\* An element of a concatenation is one of its parts.
LEMMA ConcatElements ==
    ASSUME NEW S, NEW s \in Seq(S), NEW t \in Seq(S)
    PROVE  /\ s \o t \in Seq(S)
           /\ DOMAIN (s \o t) = 1..(Len(s) + Len(t))
           /\ \A i \in DOMAIN (s \o t) :
                \/ i \in DOMAIN s /\ (s \o t)[i] = s[i]
                \/ i - Len(s) \in DOMAIN t /\ (s \o t)[i] = t[i - Len(s)]
<1>1. /\ s \o t \in Seq(S)
      /\ Len(s \o t) = Len(s) + Len(t)
      /\ \A i \in 1 .. Len(s) + Len(t) :
           (s \o t)[i] = IF i <= Len(s) THEN s[i] ELSE t[i - Len(s)]
  BY ConcatProperties
<1>2. DOMAIN (s \o t) = 1..(Len(s) + Len(t)) /\ DOMAIN s = 1..Len(s) /\ DOMAIN t = 1..Len(t)
  BY <1>1, LenProperties
<1> QED  BY <1>1, <1>2, LenProperties

LEMMA MessageFields ==
    ASSUME NEW q \in Seq(Message), NEW i \in DOMAIN q
    PROVE  q[i].from \in Users /\ q[i].n \in Nat
<1>1. q[i] \in Message
  BY ElementOfSeq, LenProperties
<1> QED  BY <1>1 DEF Message

\* Two sequences in order, one before the other, are in order put together.
LEMMA ConcatInOrder ==
    ASSUME NEW s \in Seq(Message), NEW t \in Seq(Message),
           Durable!InOrder(s), Durable!InOrder(t), Before(s, t)
    PROVE  Durable!InOrder(s \o t)
<1> SUFFICES ASSUME NEW i \in DOMAIN (s \o t), NEW j \in DOMAIN (s \o t), i < j,
                    (s \o t)[i].from = (s \o t)[j].from
             PROVE  (s \o t)[i].n < (s \o t)[j].n
  BY DEF Durable!InOrder
<1>1. DOMAIN s = 1..Len(s) /\ DOMAIN t = 1..Len(t) /\ Len(s) \in Nat /\ i \in Int /\ j \in Int
  BY LenProperties, ConcatElements
<1>2. /\ \/ i \in DOMAIN s /\ (s \o t)[i] = s[i]
         \/ i - Len(s) \in DOMAIN t /\ (s \o t)[i] = t[i - Len(s)]
      /\ \/ j \in DOMAIN s /\ (s \o t)[j] = s[j]
         \/ j - Len(s) \in DOMAIN t /\ (s \o t)[j] = t[j - Len(s)]
  BY ConcatElements
<1>3. CASE i \in DOMAIN s /\ j \in DOMAIN s /\ (s \o t)[i] = s[i] /\ (s \o t)[j] = s[j]
  BY <1>3 DEF Durable!InOrder
<1>4. CASE /\ i - Len(s) \in DOMAIN t /\ (s \o t)[i] = t[i - Len(s)]
           /\ j - Len(s) \in DOMAIN t /\ (s \o t)[j] = t[j - Len(s)]
  <2>1. i - Len(s) < j - Len(s)
    BY <1>1
  <2> QED  BY <1>4, <2>1 DEF Durable!InOrder
<1>5. CASE /\ i \in DOMAIN s /\ (s \o t)[i] = s[i]
           /\ j - Len(s) \in DOMAIN t /\ (s \o t)[j] = t[j - Len(s)]
  BY <1>5 DEF Before
<1>6. CASE i - Len(s) \in DOMAIN t /\ j \in DOMAIN s
  BY <1>1, <1>6
<1> QED  BY <1>2, <1>3, <1>4, <1>5, <1>6

\* Every message of two sequences put together is one of theirs.
LEMMA ConcatMembers ==
    ASSUME NEW s \in Seq(Message), NEW t \in Seq(Message)
    PROVE  \A i \in DOMAIN (s \o t) :
             \/ \E j \in DOMAIN s : (s \o t)[i] = s[j]
             \/ \E j \in DOMAIN t : (s \o t)[i] = t[j]
  BY ConcatElements

\* What comes after two sequences comes after both put together, and so on.
LEMMA ConcatBefore ==
    ASSUME NEW s \in Seq(Message), NEW t \in Seq(Message), NEW w \in Seq(Message)
    PROVE  /\ Before(s, w) /\ Before(t, w) => Before(s \o t, w)
           /\ Before(w, s) /\ Before(w, t) => Before(w, s \o t)
<1>1. \A i \in DOMAIN (s \o t) :
        \/ \E j \in DOMAIN s : (s \o t)[i] = s[j]
        \/ \E j \in DOMAIN t : (s \o t)[i] = t[j]
  BY ConcatMembers
<1> DEFINE c == s \o t
<1> HIDE DEF c
<1>2. \A i \in DOMAIN c : (\E j \in DOMAIN s : c[i] = s[j]) \/ (\E j \in DOMAIN t : c[i] = t[j])
  BY <1>1 DEF c
<1>3. ASSUME Before(s, w), Before(t, w), NEW i \in DOMAIN c, NEW j \in DOMAIN w, c[i].from = w[j].from
      PROVE  c[i].n < w[j].n
  <2>1. CASE \E k \in DOMAIN s : c[i] = s[k]
    BY <1>3, <2>1 DEF Before
  <2>2. CASE \E k \in DOMAIN t : c[i] = t[k]
    BY <1>3, <2>2 DEF Before
  <2> QED  BY <1>2, <2>1, <2>2
<1>4. ASSUME Before(w, s), Before(w, t), NEW i \in DOMAIN w, NEW j \in DOMAIN c, w[i].from = c[j].from
      PROVE  w[i].n < c[j].n
  <2>1. CASE \E k \in DOMAIN s : c[j] = s[k]
    BY <1>4, <2>1 DEF Before
  <2>2. CASE \E k \in DOMAIN t : c[j] = t[k]
    BY <1>4, <2>2 DEF Before
  <2> QED  BY <1>2, <2>1, <2>2
<1>5. /\ Before(s, w) /\ Before(t, w) => Before(c, w)
      /\ Before(w, s) /\ Before(w, t) => Before(w, c)
  BY <1>3, <1>4 DEF Before
<1> QED  BY <1>5 DEF c

\* Cutting a sequence in two.
LEMMA CutElements ==
    ASSUME NEW S, NEW s \in Seq(S), NEW n \in 0..Len(s)
    PROVE  /\ SubSeq(s, 1, n) \in Seq(S)
           /\ SubSeq(s, n + 1, Len(s)) \in Seq(S)
           /\ DOMAIN SubSeq(s, 1, n) = 1..n
           /\ DOMAIN SubSeq(s, n + 1, Len(s)) = 1..(Len(s) - n)
           /\ \A i \in 1..n : i \in DOMAIN s /\ SubSeq(s, 1, n)[i] = s[i]
           /\ \A i \in 1..(Len(s) - n) :
                n + i \in DOMAIN s /\ SubSeq(s, n + 1, Len(s))[i] = s[n + i]
<1>1. Len(s) \in Nat /\ DOMAIN s = 1..Len(s) /\ \A i \in 1..Len(s) : s[i] \in S
  BY LenProperties, ElementOfSeq
<1>2. /\ SubSeq(s, 1, n) \in Seq(S)
      /\ Len(SubSeq(s, 1, n)) = (IF 1 <= n THEN n - 1 + 1 ELSE 0)
      /\ \A i \in 1..(n - 1 + 1) : SubSeq(s, 1, n)[i] = s[1 + i - 1]
  <2>1. \A i \in 1..n : s[i] \in S
    BY <1>1
  <2> QED  BY <1>1, <2>1, SubSeqProperties
<1>3. /\ SubSeq(s, n + 1, Len(s)) \in Seq(S)
      /\ Len(SubSeq(s, n + 1, Len(s))) = (IF n + 1 <= Len(s) THEN Len(s) - (n + 1) + 1 ELSE 0)
      /\ \A i \in 1..(Len(s) - (n + 1) + 1) : SubSeq(s, n + 1, Len(s))[i] = s[n + 1 + i - 1]
  <2>1. \A i \in (n + 1)..Len(s) : s[i] \in S
    BY <1>1
  <2> QED  BY <1>1, <2>1, SubSeqProperties
<1>4. Len(SubSeq(s, 1, n)) = n /\ Len(SubSeq(s, n + 1, Len(s))) = Len(s) - n
  <2> DEFINE k == Len(s)
             p == Len(SubSeq(s, 1, n))
             q == Len(SubSeq(s, n + 1, Len(s)))
  <2>1. /\ k \in Nat /\ n \in 0..k
        /\ p = (IF 1 <= n THEN n - 1 + 1 ELSE 0)
        /\ q = (IF n + 1 <= k THEN k - (n + 1) + 1 ELSE 0)
    BY <1>1, <1>2, <1>3
  <2> HIDE DEF k, p, q
  <2>2. p = n /\ q = k - n
    BY <2>1
  <2> QED  BY <2>2 DEF k, p, q
<1>5. DOMAIN SubSeq(s, 1, n) = 1..n /\ DOMAIN SubSeq(s, n + 1, Len(s)) = 1..(Len(s) - n)
  BY <1>2, <1>3, <1>4, LenProperties
<1>6. \A i \in 1..n : i \in DOMAIN s /\ SubSeq(s, 1, n)[i] = s[i]
  BY <1>1, <1>2
<1>7. \A i \in 1..(Len(s) - n) :
        n + i \in DOMAIN s /\ SubSeq(s, n + 1, Len(s))[i] = s[n + i]
  <2>1. SUFFICES ASSUME NEW i \in 1..(Len(s) - n)
                 PROVE  n + i \in DOMAIN s /\ SubSeq(s, n + 1, Len(s))[i] = s[n + i]
    OBVIOUS
  <2>2. i \in 1..(Len(s) - (n + 1) + 1) /\ n + 1 + i - 1 = n + i /\ n + i \in 1..Len(s)
    BY <1>1
  <2> QED  BY <1>1, <1>3, <2>2
<1> QED  BY <1>2, <1>3, <1>5, <1>6, <1>7

\* The halves of a sequence in order are in order, the first before the second.
LEMMA CutInOrder ==
    ASSUME NEW s \in Seq(Message), NEW n \in 0..Len(s), Durable!InOrder(s)
    PROVE  LET a == SubSeq(s, 1, n)
               b == SubSeq(s, n + 1, Len(s))
           IN  Durable!InOrder(a) /\ Durable!InOrder(b) /\ Before(a, b)
<1> DEFINE a == SubSeq(s, 1, n)
           b == SubSeq(s, n + 1, Len(s))
<1>1. /\ DOMAIN a = 1..n /\ DOMAIN b = 1..(Len(s) - n)
      /\ \A i \in 1..n : i \in DOMAIN s /\ a[i] = s[i]
      /\ \A i \in 1..(Len(s) - n) : n + i \in DOMAIN s /\ b[i] = s[n + i]
      /\ n \in Nat /\ Len(s) \in Nat
  BY CutElements, LenProperties
<1> HIDE DEF a, b
<1>2. Durable!InOrder(a)
  BY <1>1 DEF Durable!InOrder
<1>3. Durable!InOrder(b)
  <2> SUFFICES ASSUME NEW i \in DOMAIN b, NEW j \in DOMAIN b, i < j, b[i].from = b[j].from
               PROVE  b[i].n < b[j].n
    BY DEF Durable!InOrder
  <2>1. n + i \in DOMAIN s /\ n + j \in DOMAIN s /\ b[i] = s[n + i] /\ b[j] = s[n + j]
    BY <1>1
  <2>2. n + i < n + j
    BY <1>1
  <2> QED  BY <2>1, <2>2 DEF Durable!InOrder
<1>4. Before(a, b)
  <2> SUFFICES ASSUME NEW i \in DOMAIN a, NEW j \in DOMAIN b, a[i].from = b[j].from
               PROVE  a[i].n < b[j].n
    BY DEF Before
  <2>1. i \in DOMAIN s /\ n + j \in DOMAIN s /\ a[i] = s[i] /\ b[j] = s[n + j]
    BY <1>1
  <2>2. i < n + j
    BY <1>1
  <2> QED  BY <2>1, <2>2 DEF Durable!InOrder
<1> QED  BY <1>2, <1>3, <1>4 DEF a, b
-----------------------------------------------------------------------------
\* Every step keeps the invariant.

\* A new message is numbered after all of its sender's.
LEMMA SayKeepsInd ==
    ASSUME IndInv, NEW u \in Users, Say(u)
    PROVE  IndInv'
<1>1. PICK f \in rows \cup {NoFile} :
        hand' = [hand EXCEPT ![u] = <<[from |-> u, n |-> said[u] + 1, file |-> f]>>]
  BY DEF Say
<1> DEFINE m == [from |-> u, n |-> said[u] + 1, file |-> f]
<1>2. /\ hand[u] = <<>> /\ said' = [said EXCEPT ![u] = @ + 1]
      /\ hand' = [hand EXCEPT ![u] = <<m>>]
      /\ UNCHANGED <<writes, batch, log, uploadVars>>
  BY <1>1 DEF Say
<1>3. m \in Message /\ m.from = u /\ m.n = said[u] + 1 /\ m.file = f
  BY DEF IndInv, StoreTypeOK, Message
<1> HIDE DEF m
<1>4. <<m>> \in Seq(Message) /\ Len(<<m>>) = 1 /\ <<m>>[1] = m /\ DOMAIN <<m>> = 1..1
  BY <1>3
<1>5. StoreTypeOK'
  BY <1>2, <1>4 DEF IndInv, StoreTypeOK, uploadVars
<1>6. PipelineInOrder'
  BY <1>2 DEF IndInv, PipelineInOrder, Before, Durable!InOrder
<1>7. HandHoldsTheLatest'
  <2> SUFFICES ASSUME NEW w \in Users, hand'[w] # <<>>
               PROVE  Len(hand'[w]) = 1 /\ hand'[w][1].from = w /\ hand'[w][1].n = said'[w]
    BY DEF HandHoldsTheLatest
  <2>1. CASE w = u
    BY <1>2, <1>3, <1>4, <2>1 DEF IndInv, StoreTypeOK
  <2>2. CASE w # u
    BY <1>2, <2>2 DEF IndInv, StoreTypeOK, HandHoldsTheLatest
  <2> QED  BY <2>1, <2>2
<1>8. ASSUME NEW q \in Seq(Message), Told(q), NEW i \in DOMAIN q
      PROVE  /\ q[i].n <= said'[q[i].from]
             /\ hand'[q[i].from] # <<>> => q[i].n < said'[q[i].from]
  <2>1. q[i].from \in Users /\ q[i].n \in Nat
    BY MessageFields
  <2>2. q[i].n <= said[q[i].from] /\ (hand[q[i].from] # <<>> => q[i].n < said[q[i].from])
    BY <1>8 DEF Told
  <2>3. said[q[i].from] \in Nat
    BY <2>1 DEF IndInv, StoreTypeOK
  <2>4. CASE q[i].from = u
    BY <1>2, <2>1, <2>2, <2>3, <2>4 DEF IndInv, StoreTypeOK
  <2>5. CASE q[i].from # u
    BY <1>2, <2>1, <2>2, <2>3, <2>5 DEF IndInv, StoreTypeOK
  <2> QED  BY <2>4, <2>5
<1>9. PipelineWasSaid'
  <2>1. /\ log \in Seq(Message) /\ batch \in Seq(Message) /\ writes \in Seq(Message)
        /\ Told(log) /\ Told(batch) /\ Told(writes)
    BY DEF IndInv, StoreTypeOK, PipelineWasSaid
  <2>2. log' = log /\ batch' = batch /\ writes' = writes
    BY <1>2
  <2>3. Told(log)'
    BY <1>8, <2>1, <2>2 DEF Told
  <2>4. Told(batch)'
    BY <1>8, <2>1, <2>2 DEF Told
  <2>5. Told(writes)'
    BY <1>8, <2>1, <2>2 DEF Told
  <2> QED  BY <2>3, <2>4, <2>5 DEF PipelineWasSaid
<1>10. PipelineResolves'
  <2>1. rows' = rows
    BY <1>2 DEF uploadVars
  <2>2. Resolves(log)' /\ Resolves(batch)' /\ Resolves(writes)'
    BY <1>2, <2>1 DEF IndInv, PipelineResolves, Resolves
  <2>3. ASSUME NEW w \in Users
        PROVE  Resolves(hand[w])'
    <3>1. CASE w = u
      BY <1>2, <1>3, <1>4, <2>1, <3>1 DEF IndInv, StoreTypeOK, Resolves
    <3>2. CASE w # u
      BY <1>2, <2>1, <3>2 DEF IndInv, StoreTypeOK, PipelineResolves, Resolves
    <3> QED  BY <3>1, <3>2
  <2> QED  BY <2>2, <2>3 DEF PipelineResolves
<1>11. UploadsAreRecordedWhole'
  BY <1>2 DEF IndInv, UploadsAreRecordedWhole, RowsHaveFiles, uploadVars
<1> QED  BY <1>5, <1>6, <1>7, <1>9, <1>10, <1>11 DEF IndInv

\* What a session queues comes after all of its user that it queued before.
LEMMA EnqueueKeepsInd ==
    ASSUME IndInv, NEW u \in Users, Enqueue(u)
    PROVE  IndInv'
<1>1. /\ hand[u] # <<>> /\ writes' = writes \o hand[u]
      /\ hand' = [hand EXCEPT ![u] = <<>>]
      /\ UNCHANGED <<said, batch, log, uploadVars>>
  BY DEF Enqueue
<1>2. hand[u] \in Seq(Message) /\ writes \in Seq(Message) /\ log \in Seq(Message)
      /\ batch \in Seq(Message)
  BY DEF IndInv, StoreTypeOK
<1>3. DOMAIN hand[u] = {1} /\ hand[u][1].from = u /\ hand[u][1].n = said[u]
  BY <1>1, <1>2, LenProperties DEF IndInv, HandHoldsTheLatest
<1>4. StoreTypeOK'
  <2>1. writes' \in Seq(Message)
    BY <1>1, <1>2, ConcatProperties
  <2>2. hand' \in [Users -> Seq(Message)]
    BY <1>1, EmptySeq DEF IndInv, StoreTypeOK
  <2> QED  BY <1>1, <2>1, <2>2 DEF IndInv, StoreTypeOK, uploadVars
<1>5. ASSUME NEW q \in Seq(Message), Told(q)
      PROVE  Before(q, hand[u])
  BY <1>1, <1>3, <1>5 DEF Told, Before
<1>6. PipelineInOrder'
  <2>1. Durable!InOrder(hand[u])
    BY <1>3 DEF Durable!InOrder
  <2>2. Before(log, hand[u]) /\ Before(batch, hand[u]) /\ Before(writes, hand[u])
    BY <1>2, <1>5 DEF IndInv, PipelineWasSaid
  <2>3. Durable!InOrder(writes')
    BY <1>1, <1>2, <2>1, <2>2, ConcatInOrder DEF IndInv, PipelineInOrder
  <2>4. Before(log, writes') /\ Before(batch, writes')
    BY <1>1, <1>2, <2>2, ConcatBefore DEF IndInv, PipelineInOrder
  <2>5. log' = log /\ batch' = batch
    BY <1>1
  <2>6. Durable!InOrder(log) /\ Durable!InOrder(batch) /\ Before(log, batch)
    BY DEF IndInv, PipelineInOrder
  <2>7. Durable!InOrder(log') /\ Durable!InOrder(batch') /\ Before(log', batch')
    BY <2>5, <2>6
  <2>8. Before(log', writes') /\ Before(batch', writes')
    BY <2>4, <2>5
  <2> QED  BY <2>3, <2>7, <2>8 DEF PipelineInOrder, Before, Durable!InOrder
<1>7. HandHoldsTheLatest'
  BY <1>1 DEF IndInv, StoreTypeOK, HandHoldsTheLatest
<1>8. \A i \in DOMAIN writes' :
        (\E j \in DOMAIN writes : writes'[i] = writes[j]) \/ writes'[i] = hand[u][1]
  BY <1>1, <1>2, <1>3, ConcatMembers
<1>9. PipelineWasSaid'
  <2>1. \A w \in Users : said'[w] = said[w] /\ (hand'[w] # <<>> => hand[w] # <<>> /\ w # u)
    BY <1>1 DEF IndInv, StoreTypeOK
  <2>2. ASSUME NEW q \in Seq(Message), Told(q), NEW i \in DOMAIN q
        PROVE  /\ q[i].n <= said'[q[i].from]
               /\ hand'[q[i].from] # <<>> => q[i].n < said'[q[i].from]
    <3>1. q[i].from \in Users
      BY MessageFields
    <3> QED  BY <2>1, <2>2, <3>1 DEF Told
  <2>3. Told(log)' /\ Told(batch)'
    BY <1>1, <1>2, <2>2 DEF IndInv, PipelineWasSaid, Told
  <2>4. /\ hand[u][1].n <= said'[hand[u][1].from]
        /\ hand'[hand[u][1].from] = <<>>
    BY <1>1, <1>3 DEF IndInv, StoreTypeOK
  <2>5. Told(writes)'
    <3>1. Told(writes)
      BY DEF IndInv, PipelineWasSaid
    <3> QED  BY <1>2, <1>8, <2>2, <2>4, <3>1 DEF Told
  <2> QED  BY <2>3, <2>5 DEF PipelineWasSaid
<1>10. PipelineResolves'
  <2>1. rows' = rows
    BY <1>1 DEF uploadVars
  <2>2. Resolves(log)' /\ Resolves(batch)'
    BY <1>1, <2>1 DEF IndInv, PipelineResolves, Resolves
  <2>3. Resolves(writes)'
    BY <1>3, <1>8, <2>1 DEF IndInv, PipelineResolves, Resolves
  <2>4. \A w \in Users : Resolves(hand[w])'
    BY <1>1, <2>1 DEF IndInv, StoreTypeOK, PipelineResolves, Resolves
  <2> QED  BY <2>2, <2>3, <2>4 DEF PipelineResolves
<1>11. UploadsAreRecordedWhole'
  BY <1>1 DEF IndInv, UploadsAreRecordedWhole, RowsHaveFiles, uploadVars
<1> QED  BY <1>4, <1>6, <1>7, <1>9, <1>10, <1>11 DEF IndInv

\* A batch is the first part of the queue.
LEMMA TakeKeepsInd ==
    ASSUME IndInv, Take
    PROVE  IndInv'
<1> DEFINE n == Least(Len(writes), BatchSize)
<1>1. /\ batch = <<>>
      /\ batch' = SubSeq(writes, 1, n) /\ writes' = SubSeq(writes, n + 1, Len(writes))
      /\ UNCHANGED <<said, hand, log, uploadVars>>
  BY DEF Take
<1>2. writes \in Seq(Message) /\ n \in 0..Len(writes)
  BY SizesArePositive, LenProperties DEF IndInv, StoreTypeOK, Least
<1> HIDE DEF n
<1>3. /\ batch' \in Seq(Message) /\ writes' \in Seq(Message)
      /\ \A i \in DOMAIN batch' : \E j \in DOMAIN writes : batch'[i] = writes[j]
      /\ \A i \in DOMAIN writes' : \E j \in DOMAIN writes : writes'[i] = writes[j]
  BY <1>1, <1>2, CutElements
<1>4. Durable!InOrder(batch') /\ Durable!InOrder(writes') /\ Before(batch', writes')
  BY <1>1, <1>2, CutInOrder DEF IndInv, PipelineInOrder
<1>5. StoreTypeOK'
  BY <1>1, <1>3 DEF IndInv, StoreTypeOK, uploadVars
<1>6. PipelineInOrder'
  <2>1. Before(log, batch') /\ Before(log, writes')
    BY <1>3 DEF IndInv, PipelineInOrder, Before
  <2>2. log' = log /\ Durable!InOrder(log)
    BY <1>1 DEF IndInv, PipelineInOrder
  <2>3. Durable!InOrder(log') /\ Before(log', batch') /\ Before(log', writes')
    BY <2>1, <2>2
  <2> QED  BY <1>4, <2>3 DEF PipelineInOrder, Before, Durable!InOrder
<1>7. HandHoldsTheLatest'
  BY <1>1 DEF IndInv, HandHoldsTheLatest
<1>8. PipelineWasSaid'
  BY <1>1, <1>3, SMTT(40) DEF IndInv, PipelineWasSaid, Told
<1>9. PipelineResolves'
  <2>1. rows' = rows /\ hand' = hand /\ log' = log
    BY <1>1 DEF uploadVars
  <2>2. \A i \in DOMAIN writes : writes[i].file # NoFile => writes[i].file \in rows
    BY DEF IndInv, PipelineResolves, Resolves
  <2>3. Resolves(batch)' /\ Resolves(writes)'
    BY <1>3, <2>1, <2>2 DEF Resolves
  <2>4. Resolves(log)' /\ \A u \in Users : Resolves(hand[u])'
    BY <2>1 DEF IndInv, PipelineResolves, Resolves
  <2> QED  BY <2>3, <2>4 DEF PipelineResolves
<1>10. UploadsAreRecordedWhole'
  BY <1>1 DEF IndInv, UploadsAreRecordedWhole, RowsHaveFiles, uploadVars
<1> QED  BY <1>5, <1>6, <1>7, <1>8, <1>9, <1>10 DEF IndInv

\* The batch comes after all that is in the store.
LEMMA CommitKeepsInd ==
    ASSUME IndInv, Commit
    PROVE  IndInv'
<1>1. log' = log \o batch /\ batch' = <<>> /\ UNCHANGED <<said, hand, writes, uploadVars>>
  BY DEF Commit
<1>2. log \in Seq(Message) /\ batch \in Seq(Message) /\ writes \in Seq(Message)
  BY DEF IndInv, StoreTypeOK
<1>3. /\ log' \in Seq(Message)
      /\ \A i \in DOMAIN log' :
           (\E j \in DOMAIN log : log'[i] = log[j]) \/ (\E j \in DOMAIN batch : log'[i] = batch[j])
  BY <1>1, <1>2, ConcatMembers, ConcatProperties
<1>4. batch' \in Seq(Message) /\ DOMAIN batch' = {}
  BY <1>1, EmptySeq
<1>5. StoreTypeOK'
  BY <1>1, <1>3, <1>4 DEF IndInv, StoreTypeOK, uploadVars
<1>6. PipelineInOrder'
  <2>1. Durable!InOrder(log')
    BY <1>1, <1>2, ConcatInOrder DEF IndInv, PipelineInOrder
  <2>2. Before(log', writes)
    BY <1>1, <1>2, ConcatBefore DEF IndInv, PipelineInOrder
  <2> QED  BY <1>1, <1>4, <2>1, <2>2 DEF IndInv, PipelineInOrder, Before, Durable!InOrder
<1>7. HandHoldsTheLatest'
  BY <1>1 DEF IndInv, HandHoldsTheLatest
<1>8. PipelineWasSaid'
  BY <1>1, <1>3, <1>4 DEF IndInv, PipelineWasSaid, Told
<1>9. PipelineResolves'
  BY <1>1, <1>3, <1>4 DEF IndInv, PipelineResolves, Resolves, uploadVars
<1>10. UploadsAreRecordedWhole'
  BY <1>1 DEF IndInv, UploadsAreRecordedWhole, RowsHaveFiles, uploadVars
<1> QED  BY <1>5, <1>6, <1>7, <1>8, <1>9, <1>10 DEF IndInv

\* Giving up a batch leaves the rest in order.
LEMMA FailBatchKeepsInd ==
    ASSUME IndInv, FailBatch
    PROVE  IndInv'
<1>1. batch' = <<>> /\ UNCHANGED <<said, hand, writes, log, uploadVars>>
  BY DEF FailBatch
<1>2. batch' \in Seq(Message) /\ DOMAIN batch' = {}
  BY <1>1, EmptySeq
<1> QED
  BY <1>1, <1>2 DEF IndInv, StoreTypeOK, PipelineInOrder, Before, Durable!InOrder,
     HandHoldsTheLatest, PipelineWasSaid, Told, PipelineResolves, Resolves,
     UploadsAreRecordedWhole, RowsHaveFiles, uploadVars

\* A crash leaves the store, complete files and the rows of complete uploads.
LEMMA CrashKeepsInd ==
    ASSUME IndInv, Crash
    PROVE  IndInv'
<1>1. /\ hand' = [u \in Users |-> <<>>] /\ writes' = <<>> /\ batch' = <<>>
      /\ upload' = [u \in Users |->
                      IF upload[u] \in {"writing", "written"} THEN "failed" ELSE upload[u]]
      /\ UNCHANGED <<said, log, file, rows>>
  BY DEF Crash
<1>2. \A q : q = <<>> => q \in Seq(Message) /\ DOMAIN q = {}
  BY EmptySeq
<1>3. StoreTypeOK'
  BY <1>1, <1>2 DEF IndInv, StoreTypeOK
<1>4. PipelineInOrder'
  BY <1>1, <1>2 DEF IndInv, PipelineInOrder, Before, Durable!InOrder
<1>5. HandHoldsTheLatest'
  BY <1>1 DEF HandHoldsTheLatest
<1>6. PipelineWasSaid'
  <2>1. \A u \in Users : hand'[u] = <<>>
    BY <1>1
  <2>2. Told(log)'
    <3> SUFFICES ASSUME NEW i \in DOMAIN log
                 PROVE  log[i].n <= said[log[i].from] /\ hand'[log[i].from] = <<>>
      BY <1>1 DEF Told
    <3>1. log[i].from \in Users
      BY MessageFields DEF IndInv, StoreTypeOK
    <3> QED  BY <2>1, <3>1 DEF IndInv, PipelineWasSaid, Told
  <2> QED  BY <1>1, <1>2, <2>2 DEF PipelineWasSaid, Told
<1>7. PipelineResolves'
  BY <1>1, <1>2 DEF IndInv, PipelineResolves, Resolves
<1>8. UploadsAreRecordedWhole'
  BY <1>1 DEF IndInv, StoreTypeOK, UploadsAreRecordedWhole, RowsHaveFiles
<1> QED  BY <1>3, <1>4, <1>5, <1>6, <1>7, <1>8 DEF IndInv

\* A step of an upload adds rows of complete files only.
LEMMA UploadKeepsInd ==
    ASSUME IndInv, NEW u \in Uploaders,
           BeginUpload(u) \/ WriteFile(u) \/ RecordFile(u) \/ FailUpload(u)
    PROVE  IndInv'
<1>1. u \in Users /\ UNCHANGED <<said, hand, writes, batch, log>>
  BY UploadersAreUsers DEF BeginUpload, WriteFile, RecordFile, FailUpload, storeVars
<1>2. /\ upload' \in [Users -> {"none", "writing", "written", "done", "failed"}]
      /\ file' \in [Users -> {"no", "partial", "full"}]
      /\ rows' \in SUBSET Users /\ rows \subseteq rows'
  BY <1>1 DEF BeginUpload, WriteFile, RecordFile, FailUpload, IndInv, StoreTypeOK
<1>3. StoreTypeOK'
  BY <1>1, <1>2 DEF IndInv, StoreTypeOK
<1>4. PipelineInOrder' /\ HandHoldsTheLatest' /\ PipelineWasSaid'
  BY <1>1 DEF IndInv, PipelineInOrder, Before, Durable!InOrder, HandHoldsTheLatest,
     PipelineWasSaid, Told
<1>5. PipelineResolves'
  BY <1>1, <1>2 DEF IndInv, PipelineResolves, Resolves
<1>6. UploadsAreRecordedWhole'
  <2>1. CASE BeginUpload(u)
    BY <1>1, <2>1 DEF BeginUpload, IndInv, StoreTypeOK, UploadsAreRecordedWhole, RowsHaveFiles
  <2>2. CASE WriteFile(u)
    BY <1>1, <2>2 DEF WriteFile, IndInv, StoreTypeOK, UploadsAreRecordedWhole, RowsHaveFiles
  <2>3. CASE RecordFile(u)
    BY <1>1, <2>3 DEF RecordFile, IndInv, StoreTypeOK, UploadsAreRecordedWhole, RowsHaveFiles
  <2>4. CASE FailUpload(u)
    BY <1>1, <2>4 DEF FailUpload, IndInv, StoreTypeOK, UploadsAreRecordedWhole, RowsHaveFiles
  <2> QED  BY <2>1, <2>2, <2>3, <2>4
<1> QED  BY <1>3, <1>4, <1>5, <1>6 DEF IndInv

\* Nothing else touches the pipeline.
LEMMA RestKeepsInd ==
    ASSUME IndInv, UNCHANGED pipeline
    PROVE  IndInv'
  BY DEF pipeline, uploadVars, IndInv, StoreTypeOK, PipelineInOrder, Before, Durable!InOrder,
     HandHoldsTheLatest, PipelineWasSaid, Told, PipelineResolves, Resolves,
     UploadsAreRecordedWhole, RowsHaveFiles

\* The steps of viewers leave the pipeline alone.
LEMMA ViewersLeaveThePipeline ==
    ASSUME NEW v \in Viewers,
           \/ Connect(v) \/ Forward(v) \/ Serve(v) \/ OpenChat(v)
           \/ HandleFrame(v) \/ LoseConnection(v)
    PROVE  UNCHANGED pipeline
  BY DEF Connect, Forward, Serve, OpenChat, HandleFrame, LoseConnection, pipeline, storeVars

\* In the initial state nothing was said and nothing uploaded.
LEMMA InitInd == Init => IndInv
<1> SUFFICES ASSUME Init PROVE IndInv
  OBVIOUS
<1>1. \A q : q = <<>> => q \in Seq(Message) /\ DOMAIN q = {}
  BY EmptySeq
<1>2. StoreTypeOK
  BY <1>1 DEF Init, StoreTypeOK
<1>3. PipelineInOrder
  BY <1>1 DEF Init, PipelineInOrder, Before, Durable!InOrder
<1>4. HandHoldsTheLatest /\ PipelineWasSaid
  BY <1>1 DEF Init, HandHoldsTheLatest, PipelineWasSaid, Told
<1>5. PipelineResolves
  BY <1>1 DEF Init, PipelineResolves, Resolves
<1>6. UploadsAreRecordedWhole
  BY DEF Init, UploadsAreRecordedWhole, RowsHaveFiles
<1> QED  BY <1>2, <1>3, <1>4, <1>5, <1>6 DEF IndInv

LEMMA NextKeepsInd == IndInv /\ [Next]_vars => IndInv'
<1> SUFFICES ASSUME IndInv, [Next]_vars PROVE IndInv'
  OBVIOUS
<1>1. CASE \E u \in Users : Say(u) \/ Enqueue(u)
  BY <1>1, SayKeepsInd, EnqueueKeepsInd
<1>2. CASE Take \/ Write
  BY <1>2, TakeKeepsInd, CommitKeepsInd, FailBatchKeepsInd DEF Write
<1>3. CASE \E u \in Uploaders : BeginUpload(u) \/ WriteFile(u) \/ RecordFile(u) \/ FailUpload(u)
  BY <1>3, UploadKeepsInd
<1>4. CASE \E v \in Viewers : \/ Connect(v) \/ Forward(v) \/ Serve(v) \/ OpenChat(v)
                              \/ HandleFrame(v) \/ LoseConnection(v)
  BY <1>4, ViewersLeaveThePipeline, RestKeepsInd
<1>5. CASE Crash
  BY <1>5, CrashKeepsInd
<1>6. CASE UNCHANGED vars
  <2>1. UNCHANGED pipeline
    BY <1>6 DEF vars, storeVars, pipeline
  <2> QED  BY <2>1, RestKeepsInd
<1> QED  BY <1>1, <1>2, <1>3, <1>4, <1>5, <1>6 DEF Next

\* In every reachable state the stages between a session and the store are in
\* order, hold what was said, and refer to files that were recorded.
THEOREM PipelineSound == Spec => []IndInv
  BY InitInd, NextKeepsInd, PTL DEF Spec

\* What the store holds names files whose rows and bytes are there: an upload
\* records its row last, a message takes its file from the rows, and neither
\* failures nor crashes remove one (files.rs:176, session.rs:374).
StoredFilesResolve == RowsHaveFiles /\ Resolves(log)

THEOREM StoredAttachmentsResolve == Spec => []StoredFilesResolve
<1>1. IndInv => StoredFilesResolve
  BY DEF IndInv, PipelineResolves, UploadsAreRecordedWhole, StoredFilesResolve
<1> QED  BY <1>1, PipelineSound, PTL
-----------------------------------------------------------------------------
\* The store implements DurableLog.

\* A committed batch extends the log by messages that were said, in order.
LEMMA CommitSaves ==
    ASSUME IndInv, Commit
    PROVE  Durable!Save
<1>1. /\ batch # <<>> /\ log' = log \o batch /\ said' = said
      /\ log \in Seq(Message) /\ batch \in Seq(Message)
  BY DEF Commit, IndInv, StoreTypeOK
<1>2. Durable!InOrder(log')
  BY <1>1, ConcatInOrder DEF IndInv, PipelineInOrder
<1>3. \A i \in DOMAIN log' : log'[i].n \in 1..said[log'[i].from]
  <2> SUFFICES ASSUME NEW q \in {log, batch}, NEW i \in DOMAIN q
               PROVE  q[i].n \in 1..said[q[i].from]
    BY <1>1, ConcatMembers
  <2>1. q[i].n <= said[q[i].from]
    BY DEF IndInv, PipelineWasSaid, Told
  <2>2. q[i] \in Message
    BY <1>1, ElementOfSeq, LenProperties
  <2>3. q[i].n \in Nat \ {0} /\ said[q[i].from] \in Nat
    BY <2>2 DEF Message, IndInv, StoreTypeOK
  <2> QED  BY <2>1, <2>3
<1>4. Durable!IsPrefix(log, log')
  <2>1. Len(log) \in Nat /\ Len(batch) \in Nat /\ Len(log') = Len(log) + Len(batch)
    BY <1>1, LenProperties, ConcatProperties
  <2>2. SubSeq(log, 1, Len(log)) = SubSeq(log', 1, Len(log))
    <3>1. CASE Len(log) = 0
      BY <3>1, SubSeqEmpty
    <3>2. CASE Len(log) # 0
      BY <1>1, <2>1, <3>2, SubSeqOfConcat1
    <3> QED  BY <3>1, <3>2
  <2> QED  BY <2>1, <2>2 DEF Durable!IsPrefix
<1>5. log # log'
  BY <1>1, ConcatEqualIffEmpty
<1> QED  BY <1>1, <1>2, <1>3, <1>4, <1>5 DEF Durable!Save, Durable!IsStrictPrefix

\* Every step of the server and of the pages is one of the durable log or
\* none.
LEMMA StepSimulation == IndInv /\ [Next]_vars => [Durable!Next]_<<said, log>>
<1> SUFFICES ASSUME IndInv, [Next]_vars PROVE [Durable!Next]_<<said, log>>
  OBVIOUS
<1>1. ASSUME NEW u \in Users, Say(u)
      PROVE  Durable!Next
  BY <1>1 DEF Say, Durable!Next, Durable!Say
<1>2. CASE Commit
  BY <1>2, CommitSaves DEF Durable!Next
<1>3. CASE (\E u \in Users : Enqueue(u)) \/ Take \/ FailBatch \/ Crash
  BY <1>3 DEF Enqueue, Take, FailBatch, Crash
<1>4. CASE \E u \in Uploaders : BeginUpload(u) \/ WriteFile(u) \/ RecordFile(u) \/ FailUpload(u)
  BY <1>4 DEF BeginUpload, WriteFile, RecordFile, FailUpload, storeVars
<1>5. CASE \E v \in Viewers : \/ Connect(v) \/ Forward(v) \/ Serve(v) \/ OpenChat(v)
                              \/ HandleFrame(v) \/ LoseConnection(v)
  BY <1>5, ViewersLeaveThePipeline DEF pipeline
<1>6. CASE UNCHANGED vars
  BY <1>6 DEF vars, storeVars
<1> QED  BY <1>1, <1>2, <1>3, <1>4, <1>5, <1>6 DEF Next, Write

\* Batches, failed transactions, failed rollbacks and crashes lose messages,
\* but the store never holds one twice, one that was not said, or the messages
\* of a sender in another order than they were sent in (db.rs:589, 601).
THEOREM StoreIsDurable == Spec => LogIsDurable
<1>1. Init => Durable!Init
  BY DEF Init, Durable!Init
<1> QED  BY <1>1, StepSimulation, PipelineSound, PTL DEF Spec, LogIsDurable, Durable!Spec
-----------------------------------------------------------------------------
\* Induction over a sequence, and what a page makes of an answer.

\* A set of naturals that holds 0 and with each number the next holds them all:
\* there is no least number outside.
LEMMA CountingUp ==
    ASSUME NEW T, T \subseteq Nat, 0 \in T, \A k \in T : k + 1 \in T
    PROVE  T = Nat
<1> SUFFICES ASSUME Nat \ T # {} PROVE FALSE
  OBVIOUS
<1> DEFINE less == OpToRel(<, Nat)
<1>1. \A x, y \in Nat : <<y, x>> \in less <=> y < x
  BY Zenon DEF OpToRel
<1>2. IsWellFoundedOn(less, Nat)
  BY NatLessThanWellFounded, Zenon
<1> HIDE DEF less
<1>3. PICK x \in Nat \ T : \A y \in Nat \ T : ~(<<y, x>> \in less)
  <2>1. Nat \ T \subseteq Nat
    OBVIOUS
  <2> QED  BY <1>2, <2>1, WFMin
<1>4. x \in Nat /\ x # 0 /\ x - 1 \in Nat /\ x - 1 < x /\ (x - 1) + 1 = x
  BY <1>3
<1>5. x - 1 \in T
  BY <1>1, <1>3, <1>4
<1> QED  BY <1>3, <1>4, <1>5

\* One step of the recursion of Live.
LiveStep(shown, seen, g, i) ==
    IF i = 0 THEN <<>>
    ELSE IF shown[i] \in seen THEN g[i - 1]
    ELSE Append(g[i - 1], shown[i])

\* Its equation has a solution for a sequence of any length, so that Live is
\* the last value of one.
LEMMA LiveIsDefined ==
    ASSUME NEW shown, NEW seen, Len(shown) \in Nat
    PROVE  \E g : /\ g = [i \in 0..Len(shown) |-> LiveStep(shown, seen, g, i)]
                  /\ Live(shown, seen) = g[Len(shown)]
<1> DEFINE P(k, g) == g = [i \in 0..k |-> LiveStep(shown, seen, g, i)]
           T == {k \in Nat : \E g : P(k, g)}
<1>1. 0 \in T
  <2> DEFINE g == [i \in 0..0 |-> <<>>]
  <2>1. P(0, g)
    BY DEF LiveStep
  <2> QED  BY <2>1
<1>2. ASSUME NEW k \in T
      PROVE  k + 1 \in T
  <2>1. PICK g : P(k, g)
    OBVIOUS
  <2> DEFINE h == [i \in 0..(k + 1) |-> IF i = k + 1 THEN LiveStep(shown, seen, g, k + 1) ELSE g[i]]
  <2>2. \A i \in 0..(k + 1) : h[i] = LiveStep(shown, seen, h, i)
    <3> SUFFICES ASSUME NEW i \in 0..(k + 1) PROVE h[i] = LiveStep(shown, seen, h, i)
      OBVIOUS
    <3>1. k \in Nat /\ i \in Nat
      OBVIOUS
    <3>2. i # 0 => i - 1 \in 0..k /\ h[i - 1] = g[i - 1]
      BY <3>1
    <3>3. LiveStep(shown, seen, h, i) = LiveStep(shown, seen, g, i)
      BY <3>2 DEF LiveStep
    <3>4. CASE i = k + 1
      BY <3>3, <3>4
    <3>5. CASE i # k + 1
      <4>1. i \in 0..k /\ h[i] = g[i]
        BY <3>1, <3>5
      <4>2. g[i] = LiveStep(shown, seen, g, i)
        BY <2>1, <4>1
      <4> QED  BY <3>3, <4>1, <4>2
    <3> QED  BY <3>4, <3>5
  <2>3. P(k + 1, h)
    <3> DEFINE r == [i \in 0..(k + 1) |-> LiveStep(shown, seen, h, i)]
    <3>1. \A i \in 0..(k + 1) : h[i] = r[i]
      BY <2>2
    <3> QED  BY <3>1
  <2>4. \E w : P(k + 1, w)
    BY <2>3
  <2> QED  BY <2>4
<1>3. T = Nat
  <2> HIDE DEF T
  <2>1. T \subseteq Nat
    BY DEF T
  <2> QED  BY <1>1, <1>2, <2>1, CountingUp
<1>4. \E g : P(Len(shown), g)
  BY <1>3
<1> DEFINE f == CHOOSE g : P(Len(shown), g)
<1>5. P(Len(shown), f)
  BY <1>4
<1>6. Live(shown, seen) = f[Len(shown)]
  BY DEF Live, LiveStep
<1> QED  BY <1>5, <1>6

\* The members of sequences put together, cut in two, made longer by one.
LEMMA ConcatSet ==
    ASSUME NEW S, NEW s \in Seq(S), NEW t \in Seq(S)
    PROVE  ToSet(s \o t) = ToSet(s) \cup ToSet(t)
<1>1. /\ DOMAIN (s \o t) = 1..(Len(s) + Len(t))
      /\ DOMAIN s = 1..Len(s) /\ DOMAIN t = 1..Len(t) /\ Len(s) \in Nat /\ Len(t) \in Nat
      /\ \A i \in 1..(Len(s) + Len(t)) : (s \o t)[i] = IF i <= Len(s) THEN s[i] ELSE t[i - Len(s)]
  BY ConcatProperties, ConcatElements, LenProperties
<1> DEFINE c == s \o t
<1> HIDE DEF c
<1>2. /\ DOMAIN c = 1..(Len(s) + Len(t))
      /\ \A i \in 1..(Len(s) + Len(t)) : c[i] = IF i <= Len(s) THEN s[i] ELSE t[i - Len(s)]
  BY <1>1 DEF c
<1>3. \A i \in DOMAIN c : c[i] \in ToSet(s) \cup ToSet(t)
  BY <1>1, <1>2 DEF ToSet
<1>4. \A i \in DOMAIN s : s[i] \in ToSet(c)
  <2> SUFFICES ASSUME NEW i \in DOMAIN s PROVE i \in DOMAIN c /\ c[i] = s[i]
    BY DEF ToSet
  <2> QED  BY <1>1, <1>2
<1>5. \A i \in DOMAIN t : t[i] \in ToSet(c)
  <2> SUFFICES ASSUME NEW i \in DOMAIN t PROVE Len(s) + i \in DOMAIN c /\ c[Len(s) + i] = t[i]
    BY DEF ToSet
  <2>1. Len(s) + i \in 1..(Len(s) + Len(t)) /\ ~(Len(s) + i <= Len(s)) /\ (Len(s) + i) - Len(s) = i
    BY <1>1
  <2> QED  BY <1>2, <2>1
<1>6. ToSet(c) = ToSet(s) \cup ToSet(t)
  BY <1>3, <1>4, <1>5 DEF ToSet
<1> QED  BY <1>6 DEF c

LEMMA CutSet ==
    ASSUME NEW S, NEW s \in Seq(S), NEW n \in 0..Len(s)
    PROVE  ToSet(SubSeq(s, 1, n)) \cup ToSet(SubSeq(s, n + 1, Len(s))) = ToSet(s)
<1> DEFINE a == SubSeq(s, 1, n)
           b == SubSeq(s, n + 1, Len(s))
<1>1. /\ DOMAIN a = 1..n /\ DOMAIN b = 1..(Len(s) - n)
      /\ \A i \in 1..n : i \in DOMAIN s /\ a[i] = s[i]
      /\ \A i \in 1..(Len(s) - n) : n + i \in DOMAIN s /\ b[i] = s[n + i]
      /\ n \in Nat /\ Len(s) \in Nat /\ DOMAIN s = 1..Len(s)
  BY CutElements, LenProperties
<1> HIDE DEF a, b
<1>2. ToSet(a) \subseteq ToSet(s) /\ ToSet(b) \subseteq ToSet(s)
  BY <1>1 DEF ToSet
<1>3. \A i \in DOMAIN s : s[i] \in ToSet(a) \cup ToSet(b)
  <2> SUFFICES ASSUME NEW i \in DOMAIN s PROVE s[i] \in ToSet(a) \cup ToSet(b)
    OBVIOUS
  <2>1. CASE i <= n
    BY <1>1, <2>1 DEF ToSet
  <2>2. CASE ~(i <= n)
    <3>1. i - n \in 1..(Len(s) - n) /\ n + (i - n) = i
      BY <1>1, <2>2
    <3>2. i - n \in DOMAIN b /\ b[i - n] = s[i]
      BY <1>1, <3>1
    <3> QED  BY <3>2 DEF ToSet
  <2> QED  BY <2>1, <2>2
<1>4. ToSet(a) \cup ToSet(b) = ToSet(s)
  BY <1>2, <1>3 DEF ToSet
<1> QED  BY <1>4 DEF a, b

LEMMA AppendElements ==
    ASSUME NEW S, NEW s \in Seq(S), NEW e \in S
    PROVE  /\ Append(s, e) \in Seq(S)
           /\ \A i \in DOMAIN Append(s, e) :
                (i \in DOMAIN s /\ Append(s, e)[i] = s[i]) \/ Append(s, e)[i] = e
           /\ ToSet(Append(s, e)) = ToSet(s) \cup {e}
<1>1. /\ Append(s, e) \in Seq(S) /\ DOMAIN Append(s, e) = 1..(Len(s) + 1)
      /\ Append(s, e)[Len(s) + 1] = e
      /\ \A i \in 1..Len(s) : Append(s, e)[i] = s[i]
      /\ Len(s) \in Nat /\ DOMAIN s = 1..Len(s)
  BY LenProperties
<1>2. \A i \in DOMAIN Append(s, e) :
        (i \in DOMAIN s /\ Append(s, e)[i] = s[i]) \/ Append(s, e)[i] = e
  BY <1>1
<1>3. ToSet(Append(s, e)) = ToSet(s) \cup {e}
  BY <1>1, <1>2 DEF ToSet
<1> QED  BY <1>1, <1>2, <1>3

\* What stays of the messages shown are those that were not seen.
LEMMA LiveMembers ==
    ASSUME NEW S, NEW shown \in Seq(S), NEW seen
    PROVE  Live(shown, seen) \in Seq(S) /\ ToSet(Live(shown, seen)) = ToSet(shown) \ seen
<1>1. Len(shown) \in Nat /\ DOMAIN shown = 1..Len(shown) /\ \A i \in 1..Len(shown) : shown[i] \in S
  BY LenProperties, ElementOfSeq
<1>2. PICK g : /\ g = [i \in 0..Len(shown) |-> LiveStep(shown, seen, g, i)]
               /\ Live(shown, seen) = g[Len(shown)]
  BY <1>1, LiveIsDefined
<1>3. \A i \in 0..Len(shown) : g[i] = LiveStep(shown, seen, g, i)
  BY <1>2
<1> DEFINE upTo(i) == {shown[j] : j \in 1..i}
           T == {k \in Nat : k <= Len(shown) => g[k] \in Seq(S) /\ ToSet(g[k]) = upTo(k) \ seen}
<1>4. 0 \in T
  <2>1. g[0] = <<>>
    BY <1>1, <1>3 DEF LiveStep
  <2>2. <<>> \in Seq(S) /\ ToSet(<<>>) = {} /\ upTo(0) = {}
    BY EmptySeq DEF ToSet
  <2> QED  BY <2>1, <2>2
<1>5. ASSUME NEW k \in T
      PROVE  k + 1 \in T
  <2> SUFFICES ASSUME k + 1 <= Len(shown)
               PROVE  g[k + 1] \in Seq(S) /\ ToSet(g[k + 1]) = upTo(k + 1) \ seen
    OBVIOUS
  <2>1. /\ k \in Nat /\ g[k] \in Seq(S) /\ ToSet(g[k]) = upTo(k) \ seen
        /\ k + 1 \in 0..Len(shown) /\ (k + 1) - 1 = k /\ k + 1 # 0 /\ shown[k + 1] \in S
    BY <1>1
  <2>2. g[k + 1] = IF shown[k + 1] \in seen THEN g[k] ELSE Append(g[k], shown[k + 1])
    BY <1>3, <2>1 DEF LiveStep
  <2>3. upTo(k + 1) = upTo(k) \cup {shown[k + 1]}
    BY <2>1
  <2>4. Append(g[k], shown[k + 1]) \in Seq(S) /\ ToSet(Append(g[k], shown[k + 1])) = ToSet(g[k]) \cup {shown[k + 1]}
    BY <2>1, AppendElements
  <2> HIDE DEF upTo
  <2> QED  BY <2>1, <2>2, <2>3, <2>4
<1>6. Len(shown) \in T
  <2> HIDE DEF T
  <2>1. T \subseteq Nat
    BY DEF T
  <2>2. T = Nat
    BY <1>4, <1>5, <2>1, CountingUp
  <2> QED  BY <1>1, <2>2
<1>7. upTo(Len(shown)) = ToSet(shown)
  BY <1>1 DEF ToSet
<1> QED  BY <1>1, <1>2, <1>6, <1>7

\* A page shows what an answer holds and what it showed, and no more.
LEMMA MergeMembers ==
    ASSUME NEW S, NEW history \in Seq(S), NEW shown \in Seq(S)
    PROVE  /\ Merge(history, shown) \in Seq(S)
           /\ ToSet(Merge(history, shown)) = ToSet(history) \cup ToSet(shown)
<1> DEFINE live == Live(shown, ToSet(history))
<1>1. live \in Seq(S) /\ ToSet(live) = ToSet(shown) \ ToSet(history)
  BY LiveMembers
<1> HIDE DEF live
<1>2. history \o live \in Seq(S) /\ ToSet(history \o live) = ToSet(history) \cup ToSet(live)
  BY <1>1, ConcatSet, ConcatProperties
<1> QED  BY <1>1, <1>2 DEF Merge, live
-----------------------------------------------------------------------------
\* Where the messages are.

InHands == UNION {ToSet(hand[u]) : u \in Users}

\* Not given up.
Alive == ToSet(log) \cup ToSet(batch) \cup ToSet(writes) \cup InHands

Known == Alive \cup lost

\* Each message that was said is there ...
AllAccounted == \A u \in Users : \A n \in 1..said[u] : \E m \in Known : m.from = u /\ m.n = n

\* ... and nothing else: the first file it was said with is the only one.
KnownOnce == \A m, k \in Known : m.from = k.from /\ m.n = k.n => m = k

KnownWasSaid == \A m \in Known : m \in Message /\ m.n <= said[m.from]

KnownResolves == \A m \in Known : m.file # NoFile => m.file \in rows

\* What was given up comes back nowhere.
LostForGood == Alive \cap lost = {}

AccountInv ==
    /\ lost \subseteq Message
    /\ AllAccounted /\ KnownOnce /\ KnownWasSaid /\ KnownResolves /\ LostForGood

\* The stages of the pipeline have no message in common.
StagesApart ==
    /\ ToSet(log) \cap ToSet(batch) = {} /\ ToSet(log) \cap ToSet(writes) = {}
    /\ ToSet(batch) \cap ToSet(writes) = {}
    /\ (ToSet(log) \cup ToSet(batch) \cup ToSet(writes)) \cap InHands = {}

LEMMA HandsHold == \A m : m \in InHands <=> \E u \in Users : m \in ToSet(hand[u])
  BY DEF InHands

\* A hand holds the last message of its user.
LEMMA HandMember ==
    ASSUME IndInv, NEW u \in Users, NEW m \in ToSet(hand[u])
    PROVE  m \in Message /\ hand[u] # <<>> /\ m = hand[u][1] /\ m.from = u /\ m.n = said[u]
<1>1. hand[u] \in Seq(Message) /\ DOMAIN hand[u] = 1..Len(hand[u])
  BY LenProperties DEF IndInv, StoreTypeOK
<1>2. PICK i \in DOMAIN hand[u] : m = hand[u][i]
  BY DEF ToSet
<1>3. hand[u] # <<>>
  BY <1>1, <1>2, EmptySeq
<1>4. Len(hand[u]) = 1 /\ hand[u][1].from = u /\ hand[u][1].n = said[u]
  BY <1>3 DEF IndInv, HandHoldsTheLatest
<1>5. m = hand[u][1]
  BY <1>1, <1>2, <1>4
<1>6. m \in Message
  BY <1>1, <1>2, ElementOfSeq
<1> QED  BY <1>3, <1>4, <1>5, <1>6

\* Order keeps the stages apart.
LEMMA OrderKeepsApart == IndInv => StagesApart
<1> SUFFICES ASSUME IndInv PROVE StagesApart
  OBVIOUS
<1>1. ASSUME NEW s \in Seq(Message), NEW t \in Seq(Message), Before(s, t)
      PROVE  ToSet(s) \cap ToSet(t) = {}
  <2> SUFFICES ASSUME NEW i \in DOMAIN s, NEW j \in DOMAIN t, s[i] = t[j] PROVE FALSE
    BY DEF ToSet
  <2>1. s[i].n < t[j].n /\ s[i].n \in Nat
    BY <1>1, MessageFields DEF Before
  <2> QED  BY <2>1
<1>2. ASSUME NEW s \in Seq(Message), Told(s)
      PROVE  ToSet(s) \cap InHands = {}
  <2> SUFFICES ASSUME NEW i \in DOMAIN s, s[i] \in InHands PROVE FALSE
    BY DEF ToSet
  <2>1. PICK u \in Users : s[i] \in ToSet(hand[u])
    BY HandsHold
  <2>2. hand[u] # <<>> /\ s[i].from = u /\ s[i].n = said[u]
    BY <2>1, HandMember
  <2>3. s[i].n < said[u] /\ s[i].n \in Nat
    BY <1>2, <2>2, MessageFields DEF Told
  <2> QED  BY <2>2, <2>3
<1>3. log \in Seq(Message) /\ batch \in Seq(Message) /\ writes \in Seq(Message)
  BY DEF IndInv, StoreTypeOK
<1>4. /\ ToSet(log) \cap ToSet(batch) = {} /\ ToSet(log) \cap ToSet(writes) = {}
      /\ ToSet(batch) \cap ToSet(writes) = {}
  BY <1>1, <1>3 DEF IndInv, PipelineInOrder
<1>5. ToSet(log) \cap InHands = {} /\ ToSet(batch) \cap InHands = {} /\ ToSet(writes) \cap InHands = {}
  BY <1>2, <1>3 DEF IndInv, PipelineWasSaid
<1> QED  BY <1>4, <1>5 DEF StagesApart

LEMMA EmptySet == ToSet(<<>>) = {}
  BY DEF ToSet

\* Saying adds one message, to a hand.
LEMMA SayAdds ==
    ASSUME IndInv, NEW u \in Users, Say(u)
    PROVE  \E f \in rows \cup {NoFile} :
             LET m == [from |-> u, n |-> said[u] + 1, file |-> f] IN
               /\ m \in Message /\ lost' = lost
               /\ Alive' = Alive \cup {m}
               /\ hand' = [hand EXCEPT ![u] = <<m>>]
               /\ outbox' = [v \in Viewers |->
                     IF inHub[v] THEN Append(outbox[v], F("message", <<m>>)) ELSE outbox[v]]
<1>1. PICK f \in rows \cup {NoFile} :
        LET m == [from |-> u, n |-> said[u] + 1, file |-> f] IN
          /\ hand' = [hand EXCEPT ![u] = <<m>>]
          /\ outbox' = [v \in Viewers |->
                IF inHub[v] THEN Append(outbox[v], F("message", <<m>>)) ELSE outbox[v]]
  BY DEF Say
<1> DEFINE m == [from |-> u, n |-> said[u] + 1, file |-> f]
<1>2. m \in Message
  BY DEF IndInv, StoreTypeOK, Message
<1>3. hand' = [hand EXCEPT ![u] = <<m>>]
  BY <1>1
<1> HIDE DEF m
<1>4. hand[u] = <<>> /\ log' = log /\ batch' = batch /\ writes' = writes /\ lost' = lost
  BY DEF Say
<1>5. \A w \in Users : ToSet(hand'[w]) = IF w = u THEN {m} ELSE ToSet(hand[w])
  <2>1. ToSet(<<m>>) = {m}
    BY DEF ToSet
  <2> QED  BY <1>3, <2>1 DEF IndInv, StoreTypeOK
<1>6. ToSet(hand[u]) = {}
  BY <1>4, EmptySet
<1>7. InHands' = InHands \cup {m}
  <2>1. \A k : k \in InHands' <=> \E w \in Users : k \in ToSet(hand'[w])
    BY DEF InHands
  <2>2. \A k : k \in InHands' <=> k \in InHands \/ k = m
    BY <1>5, <1>6, <2>1, HandsHold
  <2> QED  BY <2>2
<1>8. Alive' = Alive \cup {m}
  BY <1>4, <1>7 DEF Alive
<1> QED  BY <1>1, <1>2, <1>4, <1>8 DEF m

\* From the hand through the queue and a batch into the log nothing is lost on
\* the way.
LEMMA PipelineKeepsAlive ==
    ASSUME IndInv, (\E u \in Users : Enqueue(u)) \/ Take \/ Commit
    PROVE  Alive' = Alive /\ lost' = lost /\ said' = said /\ rows' = rows
<1>1. log \in Seq(Message) /\ batch \in Seq(Message) /\ writes \in Seq(Message)
  BY DEF IndInv, StoreTypeOK
<1>2. ASSUME NEW u \in Users, Enqueue(u)
      PROVE  Alive' = Alive
  <2>1. /\ writes' = writes \o hand[u] /\ hand' = [hand EXCEPT ![u] = <<>>]
        /\ log' = log /\ batch' = batch
    BY <1>2 DEF Enqueue
  <2>2. ToSet(writes') = ToSet(writes) \cup ToSet(hand[u])
    BY <1>1, <2>1, ConcatSet DEF IndInv, StoreTypeOK
  <2>3. \A w \in Users : ToSet(hand'[w]) = IF w = u THEN {} ELSE ToSet(hand[w])
    BY <2>1, EmptySet DEF IndInv, StoreTypeOK
  <2>4. \A k : k \in InHands' <=> \E w \in Users : k \in ToSet(hand'[w])
    BY DEF InHands
  <2>5. InHands' \cup ToSet(hand[u]) = InHands
    <3>1. \A k : k \in InHands' \/ k \in ToSet(hand[u]) <=> k \in InHands
      BY <2>3, <2>4, HandsHold
    <3> QED  BY <3>1
  <2> QED  BY <2>1, <2>2, <2>5 DEF Alive
<1>3. ASSUME Take
      PROVE  Alive' = Alive
  <2> DEFINE n == Least(Len(writes), BatchSize)
  <2>1. /\ batch = <<>> /\ log' = log /\ hand' = hand
        /\ batch' = SubSeq(writes, 1, n) /\ writes' = SubSeq(writes, n + 1, Len(writes))
    BY <1>3 DEF Take
  <2>2. n \in 0..Len(writes)
    BY <1>1, SizesArePositive, LenProperties DEF Least
  <2> HIDE DEF n
  <2>3. ToSet(batch') \cup ToSet(writes') = ToSet(writes)
    BY <1>1, <2>1, <2>2, CutSet
  <2>4. ToSet(batch) = {} /\ InHands' = InHands /\ ToSet(log)' = ToSet(log)
    BY <2>1, EmptySet DEF InHands
  <2> QED  BY <2>3, <2>4 DEF Alive
<1>4. ASSUME Commit
      PROVE  Alive' = Alive
  <2>1. log' = log \o batch /\ batch' = <<>> /\ hand' = hand /\ writes' = writes
    BY <1>4 DEF Commit
  <2>2. ToSet(log') = ToSet(log) \cup ToSet(batch) /\ ToSet(batch') = {}
    BY <1>1, <2>1, ConcatSet, EmptySet
  <2>3. InHands' = InHands /\ ToSet(writes)' = ToSet(writes)
    BY <2>1 DEF InHands
  <2> QED  BY <2>2, <2>3 DEF Alive
<1>5. lost' = lost /\ said' = said /\ rows' = rows
  BY DEF Enqueue, Take, Commit, uploadVars
<1> QED  BY <1>2, <1>3, <1>4, <1>5

\* A failed transaction and a crash give up what they take from the pipeline.
LEMMA FailuresMoveToLost ==
    ASSUME IndInv, LostForGood, FailBatch \/ Crash
    PROVE  /\ Alive' \cup (lost' \ lost) = Alive /\ Alive' \cap (lost' \ lost) = {}
           /\ lost \subseteq lost' /\ said' = said /\ rows' = rows
<1>1. StagesApart
  BY OrderKeepsApart
<1>2. CASE FailBatch
  <2>1. /\ batch' = <<>> /\ lost' = lost \cup ToSet(batch)
        /\ log' = log /\ writes' = writes /\ hand' = hand /\ said' = said /\ rows' = rows
    BY <1>2 DEF FailBatch, uploadVars
  <2>2. /\ ToSet(batch') = {} /\ InHands' = InHands
        /\ ToSet(log)' = ToSet(log) /\ ToSet(writes)' = ToSet(writes)
    BY <2>1, EmptySet DEF InHands
  <2> QED  BY <1>1, <2>1, <2>2 DEF Alive, StagesApart, LostForGood
<1>3. CASE Crash
  <2>1. /\ hand' = [u \in Users |-> <<>>] /\ writes' = <<>> /\ batch' = <<>>
        /\ lost' = lost \cup ToSet(writes) \cup ToSet(batch) \cup InHands
        /\ log' = log /\ said' = said /\ rows' = rows
    BY <1>3 DEF Crash, InHands
  <2>2. ToSet(batch') = {} /\ ToSet(writes') = {} /\ ToSet(log)' = ToSet(log)
    BY <2>1, EmptySet
  <2>3. InHands' = {}
    <3>1. \A k : k \in InHands' <=> \E w \in Users : k \in ToSet(hand'[w])
      BY DEF InHands
    <3>2. \A w \in Users : ToSet(hand'[w]) = {}
      BY <2>1, EmptySet
    <3> QED  BY <3>1, <3>2
  <2> QED  BY <1>1, <2>1, <2>2, <2>3 DEF Alive, StagesApart, LostForGood
<1> QED  BY <1>2, <1>3

\* All other steps leave the messages where they are.
LEMMA OthersKeepAlive ==
    ASSUME UNCHANGED <<said, hand, writes, batch, log, lost>>
    PROVE  Alive' = Alive /\ lost' = lost /\ said' = said
<1>1. InHands' = InHands
  BY DEF InHands
<1> QED  BY <1>1 DEF Alive

\* A step either says a message or leaves what is known as it was.
LEMMA StepKeepsKnown ==
    ASSUME IndInv, AccountInv, [Next]_vars
    PROVE  \/ \E u \in Users : Say(u)
           \/ /\ Known' = Known /\ said' = said /\ rows \subseteq rows'
              /\ lost \subseteq lost' /\ LostForGood'
<1>1. CASE (\E u \in Users : Enqueue(u)) \/ Take \/ Commit
  BY <1>1, PipelineKeepsAlive DEF Known, AccountInv, LostForGood
<1>2. CASE FailBatch \/ Crash
  <2>1. /\ Alive' \cup (lost' \ lost) = Alive /\ Alive' \cap (lost' \ lost) = {}
        /\ lost \subseteq lost' /\ said' = said /\ rows' = rows
    BY <1>2, FailuresMoveToLost DEF AccountInv
  <2> QED  BY <2>1 DEF Known, AccountInv, LostForGood
<1>3. CASE \/ \E u \in Uploaders : BeginUpload(u) \/ WriteFile(u) \/ RecordFile(u) \/ FailUpload(u)
           \/ \E v \in Viewers : \/ Connect(v) \/ Forward(v) \/ Serve(v) \/ OpenChat(v)
                                 \/ HandleFrame(v) \/ LoseConnection(v)
           \/ UNCHANGED vars
  <2>1. UNCHANGED <<said, hand, writes, batch, log, lost>> /\ rows \subseteq rows'
    BY <1>3 DEF BeginUpload, WriteFile, RecordFile, FailUpload, Connect, Forward, Serve, OpenChat,
       HandleFrame, LoseConnection, vars, storeVars, uploadVars
  <2> QED  BY <2>1, OthersKeepAlive DEF Known, AccountInv, LostForGood
<1> QED  BY <1>1, <1>2, <1>3 DEF Next, Write

LEMMA NextKeepsAccount ==
    ASSUME IndInv, AccountInv, [Next]_vars
    PROVE  AccountInv' /\ Known \subseteq Known'
<1>1. ASSUME NEW u \in Users, Say(u)
      PROVE  AccountInv' /\ Known \subseteq Known'
  <2>1. PICK f \in rows \cup {NoFile} :
          LET m == [from |-> u, n |-> said[u] + 1, file |-> f] IN
            m \in Message /\ lost' = lost /\ Alive' = Alive \cup {m}
    BY <1>1, SayAdds
  <2> DEFINE m == [from |-> u, n |-> said[u] + 1, file |-> f]
  <2>2. m \in Message /\ lost' = lost /\ Alive' = Alive \cup {m}
    BY <2>1
  <2>3. m.from = u /\ m.n = said[u] + 1 /\ m.file = f
    OBVIOUS
  <2> HIDE DEF m
  <2>4. said \in [Users -> Nat] /\ said' = [said EXCEPT ![u] = @ + 1] /\ rows' = rows
    BY <1>1 DEF Say, IndInv, StoreTypeOK, uploadVars
  <2>5. Known' = Known \cup {m}
    BY <2>2 DEF Known
  <2>6. \A k \in Known : k \in Message /\ k.from \in Users /\ k.n \in Nat /\ k.n <= said[k.from]
    BY DEF AccountInv, KnownWasSaid, Message
  <2>7. \A k \in Known : ~(k.from = m.from /\ k.n = m.n)
    BY <2>3, <2>4, <2>6
  <2>8. \A w \in Users : said[w] \in Nat /\ said'[w] = IF w = u THEN said[w] + 1 ELSE said[w]
    BY <2>4
  <2>9. AllAccounted'
    <3> SUFFICES ASSUME NEW w \in Users, NEW n \in 1..said'[w]
                 PROVE  \E k \in Known' : k.from = w /\ k.n = n
      BY DEF AllAccounted
    <3>1. CASE w = u /\ n = said[u] + 1
      BY <2>3, <2>5, <3>1
    <3>2. CASE ~(w = u /\ n = said[u] + 1)
      <4>1. n \in 1..said[w]
        BY <2>8, <3>2
      <4> QED  BY <2>5, <4>1 DEF AccountInv, AllAccounted
    <3> QED  BY <3>1, <3>2
  <2>10. KnownOnce'
    BY <2>5, <2>7 DEF AccountInv, KnownOnce
  <2>11. KnownWasSaid'
    BY <2>2, <2>3, <2>5, <2>6, <2>8 DEF KnownWasSaid
  <2>12. KnownResolves'
    BY <2>3, <2>4, <2>5 DEF AccountInv, KnownResolves
  <2>13. LostForGood'
    BY <2>2, <2>7 DEF AccountInv, LostForGood, Known
  <2> QED  BY <2>2, <2>5, <2>9, <2>10, <2>11, <2>12, <2>13 DEF AccountInv
<1>2. CASE /\ Known' = Known /\ said' = said /\ rows \subseteq rows'
           /\ lost \subseteq lost' /\ LostForGood'
  <2>1. AllAccounted' /\ KnownOnce' /\ KnownWasSaid' /\ KnownResolves'
    BY <1>2 DEF AccountInv, AllAccounted, KnownOnce, KnownWasSaid, KnownResolves
  <2>2. lost' \subseteq Message
    BY <1>2, <2>1 DEF KnownWasSaid, Known
  <2> QED  BY <1>2, <2>1, <2>2 DEF AccountInv
<1> QED  BY <1>1, <1>2, StepKeepsKnown

LEMMA InitAccount == Init => AccountInv
<1> SUFFICES ASSUME Init PROVE AccountInv
  OBVIOUS
<1>1. \A u \in Users : ToSet(hand[u]) = {}
  BY EmptySet DEF Init
<1>2. InHands = {}
  BY <1>1, HandsHold
<1>3. Known = {} /\ Alive = {} /\ lost = {}
  BY <1>2, EmptySet DEF Init, Known, Alive
<1> QED
  BY <1>3 DEF Init, AccountInv, AllAccounted, KnownOnce, KnownWasSaid, KnownResolves, LostForGood

\* Each message that was said is in exactly one place: in the hand of its
\* session, in the writer's queue, in its batch, in the store, or given up for
\* good, with a failed transaction or a crash (session.rs:405, db.rs:592).  None
\* is forgotten without one of these, and none that was given up turns up later.
EverySaidIsAccounted ==
    /\ AllAccounted /\ KnownOnce
    /\ StagesApart /\ LostForGood

THEOREM EveryMessageIsSomewhere == Spec => []EverySaidIsAccounted
<1>1. IndInv /\ AccountInv => EverySaidIsAccounted
  BY OrderKeepsApart DEF AccountInv, EverySaidIsAccounted
<1>2. IndInv /\ AccountInv /\ [Next]_vars => AccountInv'
  BY NextKeepsAccount
<1> QED  BY <1>1, <1>2, InitAccount, PipelineSound, PTL DEF Spec
-----------------------------------------------------------------------------
\* The pages.

\* The frames of q bring messages of K only.
Carry(q, K) == \A i \in DOMAIN q : ToSet(q[i].msgs) \subseteq K

PagesHoldKnown ==
    \A v \in Viewers :
        /\ Carry(outbox[v], Known) /\ Carry(stream[v], Known)
        /\ ToSet(timeline[v]) \subseteq Known

PageTypeOK ==
    /\ Len(batch) <= BatchSize
    /\ inTxn \in BOOLEAN
    /\ inHub \in [Viewers -> BOOLEAN]
    /\ outbox \in [Viewers -> Seq(Frame)]
    /\ stream \in [Viewers -> Seq(Frame)]
    /\ requests \in [Viewers -> Seq({"join", "history"})]
    /\ online \in [Viewers -> BOOLEAN]
    /\ open \in [Viewers -> BOOLEAN]
    /\ loaded \in [Viewers -> BOOLEAN]
    /\ timeline \in [Viewers -> Seq(Message)]
    /\ failures \in Nat

PageInv == PageTypeOK /\ PagesHoldKnown

pageAndSessions == <<sessionVars, pageVars>>

LEMMA FrameMessages == \A f \in Frame : f.msgs \in Seq(Message)
  BY DEF Frame

\* Frames the server makes.
LEMMA FrameKinds ==
    /\ \A k \in {"welcome", "joined"} : F(k, <<>>) \in Frame /\ F(k, <<>>).msgs = <<>>
    /\ \A m \in Message : F("message", <<m>>) \in Frame /\ F("message", <<m>>).msgs = <<m>>
    /\ \A h \in Seq(Message) :
         Len(h) <= HistoryLimit => F("history", h) \in Frame /\ F("history", h).msgs = h
<1>1. <<>> \in Seq(Message)
  BY EmptySeq
<1>2. \A m \in Message : <<m>> \in Seq(Message)
  OBVIOUS
<1> QED  BY <1>1, <1>2 DEF Frame, F

LEMMA CarryAppend ==
    ASSUME NEW K, NEW q \in Seq(Frame), NEW f \in Frame, Carry(q, K), ToSet(f.msgs) \subseteq K
    PROVE  Append(q, f) \in Seq(Frame) /\ Carry(Append(q, f), K)
<1>1. /\ Append(q, f) \in Seq(Frame)
      /\ \A i \in DOMAIN Append(q, f) :
           (i \in DOMAIN q /\ Append(q, f)[i] = q[i]) \/ Append(q, f)[i] = f
  BY AppendElements
<1> DEFINE a == Append(q, f)
<1> HIDE DEF a
<1>2. \A i \in DOMAIN a : (i \in DOMAIN q /\ a[i] = q[i]) \/ a[i] = f
  BY <1>1 DEF a
<1>3. Carry(a, K)
  BY <1>2 DEF Carry
<1> QED  BY <1>1, <1>3 DEF a

LEMMA CarryTail ==
    ASSUME NEW K, NEW q \in Seq(Frame), q # <<>>, Carry(q, K)
    PROVE  /\ Head(q) \in Frame /\ Tail(q) \in Seq(Frame)
           /\ ToSet(Head(q).msgs) \subseteq K /\ Carry(Tail(q), K)
<1>1. /\ Head(q) \in Frame /\ Tail(q) \in Seq(Frame) /\ Len(Tail(q)) = Len(q) - 1
      /\ \A i \in 1..Len(Tail(q)) : Tail(q)[i] = q[i + 1]
      /\ DOMAIN Tail(q) = 1..Len(Tail(q)) /\ DOMAIN q = 1..Len(q)
      /\ Len(q) \in Nat \ {0} /\ Head(q) = q[1]
  BY HeadTailProperties, LenProperties, EmptySeq
<1>2. 1 \in DOMAIN q
  BY <1>1
<1>3. ToSet(Head(q).msgs) \subseteq K
  BY <1>1, <1>2 DEF Carry
<1> DEFINE t == Tail(q)
<1> HIDE DEF t
<1>4. \A i \in DOMAIN t : i + 1 \in DOMAIN q /\ t[i] = q[i + 1]
  BY <1>1 DEF t
<1>5. Carry(t, K)
  BY <1>4 DEF Carry
<1> QED  BY <1>1, <1>3, <1>5 DEF t

LEMMA CarryEmpty ==
    ASSUME NEW K
    PROVE  <<>> \in Seq(Frame) /\ Carry(<<>>, K)
  BY EmptySeq DEF Carry

\* An answer holds at most HistoryLimit messages, all of them of the store.
LEMMA HistoryOfLog ==
    ASSUME log \in Seq(Message)
    PROVE  /\ History \in Seq(Message) /\ Len(History) <= HistoryLimit
           /\ ToSet(History) \subseteq ToSet(log)
<1> DEFINE k == Len(log)
           n == IF k > HistoryLimit THEN k - HistoryLimit ELSE 0
<1>1. k \in Nat /\ HistoryLimit \in Nat \ {0}
  BY LenProperties, SizesArePositive
<1>2. n \in 0..k /\ k - n <= HistoryLimit
  BY <1>1
<1>3. History = SubSeq(log, n + 1, Len(log))
  BY <1>1 DEF History
<1> HIDE DEF n
<1>4. /\ History \in Seq(Message) /\ DOMAIN History = 1..(k - n)
      /\ ToSet(History) \subseteq ToSet(log)
  BY <1>2, <1>3, CutElements, CutSet
<1>5. Len(History) = k - n
  <2>1. Len(History) \in Nat /\ DOMAIN History = 1..Len(History)
    BY <1>4, LenProperties
  <2> DEFINE l == Len(History)
             d == k - n
  <2>2. l \in Nat /\ d \in Nat /\ 1..l = 1..d
    BY <1>1, <1>2, <1>4, <2>1
  <2> HIDE DEF l, d
  <2>3. l = d
    BY <2>2
  <2> QED  BY <2>3 DEF l, d
<1> QED  BY <1>2, <1>4, <1>5

\* What the store and the sessions do to a page's view: Known only grows.
LEMMA CarryMore ==
    ASSUME NEW q, NEW K, NEW M, K \subseteq M, Carry(q, K)
    PROVE  Carry(q, M)
  BY DEF Carry

\* A step that leaves sessions and pages alone.
LEMMA PagesStay ==
    ASSUME PagesHoldKnown, Known \subseteq Known', UNCHANGED pageAndSessions
    PROVE  PagesHoldKnown'
<1> SUFFICES ASSUME NEW v \in Viewers
             PROVE  /\ Carry(outbox[v], Known') /\ Carry(stream[v], Known')
                    /\ ToSet(timeline[v]) \subseteq Known'
  BY DEF PagesHoldKnown, pageAndSessions, sessionVars, pageVars
<1>1. Carry(outbox[v], Known) /\ Carry(stream[v], Known) /\ ToSet(timeline[v]) \subseteq Known
  BY DEF PagesHoldKnown
<1> QED  BY <1>1, CarryMore

\* The new message is queued for those the hub knows.
LEMMA SayKeepsPages ==
    ASSUME IndInv, AccountInv, PageInv, NEW u \in Users, Say(u), Known \subseteq Known'
    PROVE  PageInv'
<1>1. PICK f \in rows \cup {NoFile} :
        LET m == [from |-> u, n |-> said[u] + 1, file |-> f] IN
          /\ m \in Message /\ Alive' = Alive \cup {m}
          /\ outbox' = [v \in Viewers |->
                IF inHub[v] THEN Append(outbox[v], F("message", <<m>>)) ELSE outbox[v]]
  BY SayAdds
<1> DEFINE m == [from |-> u, n |-> said[u] + 1, file |-> f]
<1>2. /\ m \in Message /\ Alive' = Alive \cup {m}
      /\ outbox' = [v \in Viewers |->
            IF inHub[v] THEN Append(outbox[v], F("message", <<m>>)) ELSE outbox[v]]
  BY <1>1
<1> HIDE DEF m
<1>3. PICK g \in Frame : g = F("message", <<m>>) /\ g.msgs = <<m>>
  BY <1>2, FrameKinds
<1>4. ToSet(g.msgs) \subseteq Known'
  BY <1>2, <1>3 DEF ToSet, Known
<1>5. \A v \in Viewers : outbox[v] \in Seq(Frame) /\ Carry(outbox[v], Known')
  BY CarryMore DEF PageInv, PageTypeOK, PagesHoldKnown
<1>6. \A v \in Viewers : Append(outbox[v], g) \in Seq(Frame) /\ Carry(Append(outbox[v], g), Known')
  BY <1>3, <1>4, <1>5, CarryAppend
<1>7. outbox' = [v \in Viewers |-> IF inHub[v] THEN Append(outbox[v], g) ELSE outbox[v]]
  BY <1>2, <1>3
<1>8. \A v \in Viewers : outbox'[v] \in Seq(Frame) /\ Carry(outbox'[v], Known')
  BY <1>5, <1>6, <1>7
<1>9. outbox' \in [Viewers -> Seq(Frame)]
  BY <1>7, <1>8
<1>10. /\ stream' = stream /\ timeline' = timeline /\ batch' = batch /\ inTxn' = inTxn
       /\ inHub' = inHub /\ requests' = requests /\ online' = online /\ open' = open
       /\ loaded' = loaded /\ failures' = failures
  BY DEF Say, pageVars
<1>11. PageTypeOK'
  BY <1>9, <1>10 DEF PageInv, PageTypeOK
<1>12. PagesHoldKnown'
  <2> SUFFICES ASSUME NEW v \in Viewers
               PROVE  Carry(stream[v], Known') /\ ToSet(timeline[v]) \subseteq Known'
    BY <1>8, <1>10 DEF PagesHoldKnown
  <2> QED  BY CarryMore DEF PageInv, PagesHoldKnown
<1> QED  BY <1>11, <1>12 DEF PageInv

\* The writer and the uploads leave sessions and pages alone.
LEMMA ServerKeepsPages ==
    ASSUME IndInv, PageInv, Known \subseteq Known',
           \/ \E u \in Users : Enqueue(u)
           \/ Take \/ Write
           \/ \E u \in Uploaders : BeginUpload(u) \/ WriteFile(u) \/ RecordFile(u) \/ FailUpload(u)
           \/ UNCHANGED vars
    PROVE  PageInv'
<1>1. UNCHANGED pageAndSessions
  BY DEF Enqueue, Take, Write, Commit, FailBatch, BeginUpload, WriteFile, RecordFile, FailUpload,
     vars, pageAndSessions
<1>2. PagesHoldKnown'
  BY <1>1, PagesStay DEF PageInv
<1>3. Len(batch') <= BatchSize
  <2>1. CASE Take
    <3> DEFINE n == Least(Len(writes), BatchSize)
    <3>1. batch' = SubSeq(writes, 1, n)
      BY <2>1 DEF Take
    <3>2. writes \in Seq(Message) /\ n \in 0..Len(writes) /\ n <= BatchSize
      BY SizesArePositive, LenProperties DEF IndInv, StoreTypeOK, Least
    <3> HIDE DEF n
    <3>3. batch' \in Seq(Message) /\ DOMAIN batch' = 1..n
      BY <3>1, <3>2, CutElements
    <3> DEFINE l == Len(batch')
    <3>4. l \in Nat /\ n \in Nat /\ 1..l = 1..n
      BY <3>2, <3>3, LenProperties
    <3> HIDE DEF l
    <3>5. l = n
      BY <3>4
    <3> QED  BY <3>2, <3>5 DEF l
  <2>2. CASE Write
    BY <2>2, SizesArePositive DEF Write, Commit, FailBatch
  <2>3. CASE ~Take /\ ~Write
    BY <2>3 DEF Enqueue, BeginUpload, WriteFile, RecordFile, FailUpload, vars, storeVars,
       PageInv, PageTypeOK
  <2> QED  BY <2>1, <2>2, <2>3
<1>4. inTxn' \in BOOLEAN /\ failures' \in Nat
  <2>1. CASE FailBatch
    BY <2>1 DEF FailBatch, PageInv, PageTypeOK
  <2>2. CASE ~FailBatch
    BY <2>2 DEF Enqueue, Take, Write, Commit, BeginUpload, WriteFile, RecordFile, FailUpload,
       vars, storeVars, PageInv, PageTypeOK
  <2> QED  BY <2>1, <2>2
<1>5. PageTypeOK'
  BY <1>1, <1>3, <1>4 DEF PageInv, PageTypeOK, pageAndSessions, sessionVars, pageVars
<1> QED  BY <1>2, <1>5 DEF PageInv

\* A viewer's session and page read the messages, and change none.
LEMMA ViewersKeepKnown ==
    ASSUME NEW v \in Viewers,
           \/ Connect(v) \/ Forward(v) \/ Serve(v) \/ OpenChat(v)
           \/ HandleFrame(v) \/ LoseConnection(v)
    PROVE  /\ UNCHANGED <<said, hand, writes, batch, log, lost, inTxn>> /\ rows' = rows
           /\ Known' = Known
<1>1. UNCHANGED <<said, hand, writes, batch, log, lost, inTxn>> /\ rows' = rows
  BY DEF Connect, Forward, Serve, OpenChat, HandleFrame, LoseConnection, storeVars, uploadVars
<1> QED  BY <1>1, OthersKeepAlive DEF Known

\* Facts of one viewer, to be cited in the steps below.
LEMMA ViewerFacts ==
    ASSUME PageInv, NEW v \in Viewers
    PROVE  /\ outbox[v] \in Seq(Frame) /\ Carry(outbox[v], Known)
           /\ stream[v] \in Seq(Frame) /\ Carry(stream[v], Known)
           /\ timeline[v] \in Seq(Message) /\ ToSet(timeline[v]) \subseteq Known
           /\ requests[v] \in Seq({"join", "history"})
  BY DEF PageInv, PageTypeOK, PagesHoldKnown

\* Giving one viewer another outbox, stream and timeline.
LEMMA PagesUpdate ==
    ASSUME PageInv, NEW v \in Viewers, Known' = Known,
           \A w \in Viewers \ {v} :
               outbox'[w] = outbox[w] /\ stream'[w] = stream[w] /\ timeline'[w] = timeline[w],
           Carry(outbox'[v], Known), Carry(stream'[v], Known), ToSet(timeline'[v]) \subseteq Known
    PROVE  PagesHoldKnown'
<1> SUFFICES ASSUME NEW w \in Viewers
             PROVE  /\ Carry(outbox'[w], Known) /\ Carry(stream'[w], Known)
                    /\ ToSet(timeline'[w]) \subseteq Known
  BY DEF PagesHoldKnown
<1>1. CASE w = v
  BY <1>1
<1>2. CASE w # v
  BY <1>2, ViewerFacts
<1> QED  BY <1>1, <1>2

LEMMA ConnectKeepsPages ==
    ASSUME IndInv, PageInv, NEW v \in Viewers, Connect(v)
    PROVE  PageInv'
<1>1. UNCHANGED <<said, hand, writes, batch, log, lost, inTxn>> /\ Known' = Known
  BY ViewersKeepKnown
<1>2. PICK g \in Frame : g = F("welcome", <<>>) /\ g.msgs = <<>>
  BY FrameKinds
<1>3. /\ online' = [online EXCEPT ![v] = TRUE] /\ stream' = [stream EXCEPT ![v] = <<g>>]
      /\ UNCHANGED <<inHub, outbox, requests, open, loaded, timeline, failures>>
  BY <1>2 DEF Connect, pageVars
<1>4. <<g>> \in Seq(Frame) /\ Carry(<<g>>, Known)
  BY <1>2, EmptySet DEF Carry
<1>5. PageTypeOK'
  BY <1>1, <1>3, <1>4 DEF PageInv, PageTypeOK
<1>6. stream'[v] = <<g>> /\ \A w \in Viewers \ {v} : stream'[w] = stream[w]
  BY <1>3 DEF PageInv, PageTypeOK
<1>7. PagesHoldKnown'
  BY <1>1, <1>3, <1>4, <1>6, ViewerFacts, PagesUpdate
<1> QED  BY <1>5, <1>7 DEF PageInv

\* A frame moves from the outbox to the socket.
LEMMA ForwardKeepsPages ==
    ASSUME IndInv, PageInv, NEW v \in Viewers, Forward(v)
    PROVE  PageInv'
<1>1. UNCHANGED <<said, hand, writes, batch, log, lost, inTxn>> /\ Known' = Known
  BY ViewersKeepKnown
<1>2. /\ outbox[v] # <<>>
      /\ stream' = [stream EXCEPT ![v] = Append(stream[v], Head(outbox[v]))]
      /\ outbox' = [outbox EXCEPT ![v] = Tail(outbox[v])]
      /\ UNCHANGED <<inHub, requests, online, open, loaded, timeline, failures>>
  BY DEF Forward, pageVars
<1>3. /\ Head(outbox[v]) \in Frame /\ Tail(outbox[v]) \in Seq(Frame)
      /\ ToSet(Head(outbox[v]).msgs) \subseteq Known /\ Carry(Tail(outbox[v]), Known)
  BY <1>2, ViewerFacts, CarryTail
<1>4. PICK g \in Frame : g = Head(outbox[v]) /\ ToSet(g.msgs) \subseteq Known
  BY <1>3
<1>5. Append(stream[v], g) \in Seq(Frame) /\ Carry(Append(stream[v], g), Known)
  BY <1>4, ViewerFacts, CarryAppend
<1>6. stream' = [stream EXCEPT ![v] = Append(stream[v], g)]
  BY <1>2, <1>4
<1>7. PageTypeOK'
  BY <1>1, <1>2, <1>3, <1>5, <1>6 DEF PageInv, PageTypeOK
<1>8. /\ stream'[v] = Append(stream[v], g) /\ outbox'[v] = Tail(outbox[v])
      /\ \A w \in Viewers \ {v} : stream'[w] = stream[w] /\ outbox'[w] = outbox[w]
  BY <1>2, <1>6 DEF PageInv, PageTypeOK
<1>9. PagesHoldKnown'
  BY <1>1, <1>2, <1>3, <1>5, <1>8, ViewerFacts, PagesUpdate
<1> QED  BY <1>7, <1>9 DEF PageInv

\* An answer holds what the store held when it was asked.
LEMMA ServeKeepsPages ==
    ASSUME IndInv, PageInv, NEW v \in Viewers, Serve(v)
    PROVE  PageInv'
<1>1. UNCHANGED <<said, hand, writes, batch, log, lost, inTxn>> /\ Known' = Known
  BY ViewersKeepKnown
<1>2. PICK g \in Frame : /\ stream' = [stream EXCEPT ![v] = Append(stream[v], g)]
                         /\ ToSet(g.msgs) \subseteq Known
                         /\ inHub' \in [Viewers -> BOOLEAN]
  <2>1. CASE /\ inHub' = [inHub EXCEPT ![v] = TRUE]
             /\ stream' = [stream EXCEPT ![v] = Append(@, F("joined", <<>>))]
    <3>1. PICK g \in Frame : g = F("joined", <<>>) /\ g.msgs = <<>>
      BY FrameKinds
    <3>2. stream' = [stream EXCEPT ![v] = Append(stream[v], g)]
      BY <2>1, <3>1
    <3>3. ToSet(g.msgs) \subseteq Known /\ inHub' \in [Viewers -> BOOLEAN]
      BY <2>1, <3>1, EmptySet DEF PageInv, PageTypeOK
    <3> QED  BY <3>2, <3>3
  <2>2. CASE /\ stream' = [stream EXCEPT ![v] = Append(@, F("history", History))]
             /\ UNCHANGED inHub
    <3>1. /\ History \in Seq(Message) /\ Len(History) <= HistoryLimit
          /\ ToSet(History) \subseteq Known
      BY HistoryOfLog DEF IndInv, StoreTypeOK, Known, Alive
    <3>2. PICK h \in Seq(Message) : /\ h = History /\ Len(h) <= HistoryLimit
                                    /\ ToSet(h) \subseteq Known
      BY <3>1
    <3>3. PICK g \in Frame : g = F("history", h) /\ g.msgs = h
      BY <3>2, FrameKinds
    <3>4. stream' = [stream EXCEPT ![v] = Append(stream[v], g)]
      BY <2>2, <3>2, <3>3
    <3>5. ToSet(g.msgs) \subseteq Known /\ inHub' \in [Viewers -> BOOLEAN]
      BY <2>2, <3>2, <3>3 DEF PageInv, PageTypeOK
    <3> QED  BY <3>4, <3>5
  <2> QED  BY <2>1, <2>2 DEF Serve
<1>3. /\ requests[v] # <<>> /\ requests' = [requests EXCEPT ![v] = Tail(requests[v])]
      /\ UNCHANGED <<outbox, online, open, loaded, timeline, failures>>
  BY DEF Serve, pageVars
<1>4. Append(stream[v], g) \in Seq(Frame) /\ Carry(Append(stream[v], g), Known)
  BY <1>2, ViewerFacts, CarryAppend
<1>5. Tail(requests[v]) \in Seq({"join", "history"})
  BY <1>3, ViewerFacts, HeadTailProperties
<1>6. PageTypeOK'
  BY <1>1, <1>2, <1>3, <1>4, <1>5 DEF PageInv, PageTypeOK
<1>7. stream'[v] = Append(stream[v], g) /\ \A w \in Viewers \ {v} : stream'[w] = stream[w]
  BY <1>2 DEF PageInv, PageTypeOK
<1>8. PagesHoldKnown'
  BY <1>1, <1>3, <1>4, <1>7, ViewerFacts, PagesUpdate
<1> QED  BY <1>6, <1>8 DEF PageInv

\* What a page asks for joins its requests.
LEMMA AskType ==
    ASSUME PageInv, NEW v \in Viewers,
           NEW what \in {<<>>, <<"join">>, <<"history">>, <<"join", "history">>}, Ask(v, what)
    PROVE  requests' \in [Viewers -> Seq({"join", "history"})]
<1>1. requests' = [requests EXCEPT ![v] = requests[v] \o what]
  BY DEF Ask
<1>2. what \in Seq({"join", "history"})
  <2>1. /\ <<"join">> \in Seq({"join", "history"}) /\ <<"history">> \in Seq({"join", "history"})
        /\ <<"join", "history">> \in Seq({"join", "history"})
    OBVIOUS
  <2> QED  BY <2>1, EmptySeq
<1>3. requests[v] \o what \in Seq({"join", "history"})
  BY <1>2, ViewerFacts, ConcatProperties
<1> QED  BY <1>1, <1>3 DEF PageInv, PageTypeOK

LEMMA OpenChatKeepsPages ==
    ASSUME IndInv, PageInv, NEW v \in Viewers, OpenChat(v)
    PROVE  PageInv'
<1>1. UNCHANGED <<said, hand, writes, batch, log, lost, inTxn>> /\ Known' = Known
  BY ViewersKeepKnown
<1>2. /\ open' = [open EXCEPT ![v] = TRUE] /\ (Ask(v, <<"history">>) \/ UNCHANGED requests)
      /\ UNCHANGED <<inHub, outbox, stream, online, loaded, timeline, failures>>
  BY DEF OpenChat
<1>3. requests' \in [Viewers -> Seq({"join", "history"})]
  <2>1. CASE Ask(v, <<"history">>)
    BY <2>1, AskType
  <2>2. CASE UNCHANGED requests
    BY <2>2 DEF PageInv, PageTypeOK
  <2> QED  BY <1>2, <2>1, <2>2
<1>4. PageTypeOK'
  BY <1>1, <1>2, <1>3 DEF PageInv, PageTypeOK
<1>5. PagesHoldKnown'
  BY <1>1, <1>2, ViewerFacts, PagesUpdate
<1> QED  BY <1>4, <1>5 DEF PageInv

\* The page's handlers: what the timeline holds afterwards.
LEMMA HandleFrameShows ==
    ASSUME PageInv, NEW v \in Viewers, HandleFrame(v)
    PROVE  /\ timeline' \in [Viewers -> Seq(Message)]
           /\ \A w \in Viewers \ {v} : timeline'[w] = timeline[w]
           /\ \/ timeline'[v] = timeline[v]
              \/ ToSet(timeline'[v]) = ToSet(timeline[v]) \cup ToSet(Head(stream[v]).msgs)
<1>1. timeline \in [Viewers -> Seq(Message)] /\ timeline[v] \in Seq(Message)
  BY DEF PageInv, PageTypeOK
<1>2. Head(stream[v]) \in Frame /\ Head(stream[v]).msgs \in Seq(Message)
  BY ViewerFacts, CarryTail, FrameMessages DEF HandleFrame
<1>3. PICK q \in Seq(Message) : q = Head(stream[v]).msgs
  BY <1>2
<1>4. \/ timeline' = timeline
      \/ timeline' = [timeline EXCEPT ![v] = timeline[v] \o q]
      \/ timeline' = [timeline EXCEPT ![v] = Merge(q, timeline[v])]
  BY <1>3 DEF HandleFrame
<1>5. /\ timeline[v] \o q \in Seq(Message)
      /\ ToSet(timeline[v] \o q) = ToSet(timeline[v]) \cup ToSet(q)
  BY <1>1, ConcatProperties, ConcatSet
<1>6. /\ Merge(q, timeline[v]) \in Seq(Message)
      /\ ToSet(Merge(q, timeline[v])) = ToSet(q) \cup ToSet(timeline[v])
  BY <1>1, MergeMembers
<1>7. CASE timeline' = timeline
  BY <1>1, <1>7
<1>8. ASSUME NEW t \in Seq(Message), timeline' = [timeline EXCEPT ![v] = t],
             ToSet(t) = ToSet(timeline[v]) \cup ToSet(q)
      PROVE  /\ timeline' \in [Viewers -> Seq(Message)]
             /\ \A w \in Viewers \ {v} : timeline'[w] = timeline[w]
             /\ ToSet(timeline'[v]) = ToSet(timeline[v]) \cup ToSet(q)
  BY <1>1, <1>8
<1>9. ToSet(q) \cup ToSet(timeline[v]) = ToSet(timeline[v]) \cup ToSet(q)
  OBVIOUS
<1> QED  BY <1>3, <1>4, <1>5, <1>6, <1>7, <1>8, <1>9

LEMMA HandleFrameKeepsPages ==
    ASSUME IndInv, PageInv, NEW v \in Viewers, HandleFrame(v)
    PROVE  PageInv'
<1>1. UNCHANGED <<said, hand, writes, batch, log, lost, inTxn>> /\ Known' = Known
  BY ViewersKeepKnown
<1>2. /\ stream[v] # <<>> /\ stream' = [stream EXCEPT ![v] = Tail(stream[v])]
      /\ UNCHANGED <<inHub, outbox, online, open, failures>>
  BY DEF HandleFrame
<1>3. /\ Tail(stream[v]) \in Seq(Frame) /\ Carry(Tail(stream[v]), Known)
      /\ ToSet(Head(stream[v]).msgs) \subseteq Known
  BY <1>2, ViewerFacts, CarryTail
<1>4. /\ timeline' \in [Viewers -> Seq(Message)]
      /\ \A w \in Viewers \ {v} : timeline'[w] = timeline[w]
      /\ ToSet(timeline'[v]) \subseteq Known
  BY <1>3, HandleFrameShows, ViewerFacts
<1>5. requests' \in [Viewers -> Seq({"join", "history"})]
  <2>1. \/ \E what \in {<<>>, <<"join">>, <<"history">>, <<"join", "history">>} : Ask(v, what)
        \/ UNCHANGED requests
    BY DEF HandleFrame
  <2> QED  BY <2>1, AskType DEF PageInv, PageTypeOK
<1>6. loaded' \in [Viewers -> BOOLEAN]
  BY DEF HandleFrame, PageInv, PageTypeOK
<1>7. PageTypeOK'
  BY <1>1, <1>2, <1>3, <1>4, <1>5, <1>6 DEF PageInv, PageTypeOK
<1>8. stream'[v] = Tail(stream[v]) /\ \A w \in Viewers \ {v} : stream'[w] = stream[w]
  BY <1>2 DEF PageInv, PageTypeOK
<1>9. PagesHoldKnown'
  BY <1>1, <1>2, <1>3, <1>4, <1>8, ViewerFacts, PagesUpdate
<1> QED  BY <1>7, <1>9 DEF PageInv

\* A connection that ends takes its frames with it; the pages stay.
LEMMA OfflineKeepsPages ==
    ASSUME PageInv, NEW lose \in SUBSET Viewers, Offline(lose),
           Known \subseteq Known', UNCHANGED pageVars,
           Len(batch') <= BatchSize, inTxn' \in BOOLEAN, failures' \in Nat
    PROVE  PageInv'
<1>1. <<>> \in Seq(Frame) /\ Carry(<<>>, Known') /\ <<>> \in Seq({"join", "history"})
  BY CarryEmpty, EmptySeq
<1>2. PageTypeOK'
  BY <1>1 DEF Offline, PageInv, PageTypeOK, pageVars
<1>3. PagesHoldKnown'
  <2> SUFFICES ASSUME NEW v \in Viewers
               PROVE  /\ Carry(outbox'[v], Known') /\ Carry(stream'[v], Known')
                      /\ ToSet(timeline'[v]) \subseteq Known'
    BY DEF PagesHoldKnown
  <2>1. Carry(outbox[v], Known') /\ Carry(stream[v], Known')
    BY ViewerFacts, CarryMore
  <2>2. /\ outbox'[v] = IF v \in lose THEN <<>> ELSE outbox[v]
        /\ stream'[v] = IF v \in lose THEN <<>> ELSE stream[v]
        /\ timeline' = timeline
    BY DEF Offline, pageVars
  <2>3. ToSet(timeline'[v]) \subseteq Known'
    BY <2>2, ViewerFacts
  <2> QED  BY <1>1, <2>1, <2>2, <2>3
<1> QED  BY <1>2, <1>3 DEF PageInv

LEMMA NoneIsFew == \A q : q = <<>> => Len(q) <= BatchSize
<1>1. Len(<<>>) = 0 /\ BatchSize \in Nat
  BY EmptySeq, SizesArePositive
<1> QED  BY <1>1

LEMMA InitPages == Init => PageInv
<1> SUFFICES ASSUME Init PROVE PageInv
  OBVIOUS
<1>1. /\ <<>> \in Seq(Frame) /\ Carry(<<>>, Known) /\ <<>> \in Seq({"join", "history"})
      /\ <<>> \in Seq(Message) /\ Len(<<>>) = 0 /\ ToSet(<<>>) = {}
  BY CarryEmpty, EmptySeq, EmptySet
<1>2. PageTypeOK
  BY <1>1, NoneIsFew DEF Init, PageTypeOK
<1>3. PagesHoldKnown
  BY <1>1 DEF Init, PagesHoldKnown
<1> QED  BY <1>2, <1>3 DEF PageInv

LEMMA NextKeepsPages ==
    ASSUME IndInv, AccountInv, PageInv, [Next]_vars
    PROVE  PageInv'
<1>1. Known \subseteq Known'
  BY NextKeepsAccount
<1>2. ASSUME NEW u \in Users, Say(u)
      PROVE  PageInv'
  BY <1>1, <1>2, SayKeepsPages
<1>3. CASE \/ \E u \in Users : Enqueue(u)
           \/ Take \/ Write
           \/ \E u \in Uploaders : BeginUpload(u) \/ WriteFile(u) \/ RecordFile(u) \/ FailUpload(u)
           \/ UNCHANGED vars
  BY <1>1, <1>3, ServerKeepsPages
<1>4. ASSUME NEW v \in Viewers,
             Connect(v) \/ Forward(v) \/ Serve(v) \/ OpenChat(v) \/ HandleFrame(v)
      PROVE  PageInv'
  BY <1>4, ConnectKeepsPages, ForwardKeepsPages, ServeKeepsPages, OpenChatKeepsPages,
     HandleFrameKeepsPages
<1>5. ASSUME NEW v \in Viewers, LoseConnection(v)
      PROVE  PageInv'
  <2>1. /\ Offline({v}) /\ UNCHANGED pageVars /\ batch' = batch /\ inTxn' = inTxn
        /\ failures' = failures + 1
    BY <1>5 DEF LoseConnection, storeVars
  <2>2. Len(batch') <= BatchSize /\ inTxn' \in BOOLEAN /\ failures' \in Nat
    BY <2>1 DEF PageInv, PageTypeOK
  <2>3. PICK lose \in SUBSET Viewers : lose = {v}
    OBVIOUS
  <2>4. Offline(lose)
    BY <2>1, <2>3
  <2> QED  BY <1>1, <2>1, <2>2, <2>4, OfflineKeepsPages
<1>6. CASE Crash
  <2>1. /\ Offline(Viewers) /\ UNCHANGED pageVars /\ batch' = <<>> /\ inTxn' = FALSE
        /\ failures' = failures + 1
    BY <1>6 DEF Crash
  <2>2. Len(batch') <= BatchSize
    BY <2>1, NoneIsFew
  <2>3. inTxn' \in BOOLEAN
    BY <2>1
  <2>4. failures' \in Nat
    BY <2>1 DEF PageInv, PageTypeOK
  <2>5. PICK lose \in SUBSET Viewers : lose = Viewers
    OBVIOUS
  <2>6. Offline(lose)
    BY <2>1, <2>5
  <2> QED  BY <1>1, <2>1, <2>2, <2>3, <2>4, <2>6, OfflineKeepsPages
<1> QED  BY <1>2, <1>3, <1>4, <1>5, <1>6 DEF Next

FullInv == IndInv /\ AccountInv /\ PageInv

\* In every reachable state the messages are accounted for, and pages and the
\* frames on their way show only messages the server knows.
THEOREM PagesSound == Spec => []FullInv
<1>1. Init => FullInv
  BY InitInd, InitAccount, InitPages DEF FullInv
<1>2. FullInv /\ [Next]_vars => FullInv'
  BY NextKeepsInd, NextKeepsAccount, NextKeepsPages DEF FullInv
<1> QED  BY <1>1, <1>2, PTL DEF Spec

\* The types, with the sizes of a batch and of an answer (db.rs:592, 497).
THEOREM TypesStay == Spec => []TypeOK
<1>1. FullInv => TypeOK
  BY DEF FullInv, IndInv, StoreTypeOK, AccountInv, PageInv, PageTypeOK, TypeOK
<1> QED  BY <1>1, PagesSound, PTL

\* Wherever a message is shown, its file is there: what pages show was said,
\* with a file that was recorded by then, and rows and files stay.
THEOREM ShownAttachmentsResolve == Spec => []AttachmentsResolve
<1>1. FullInv => AttachmentsResolve
  <2> SUFFICES ASSUME FullInv PROVE AttachmentsResolve
    OBVIOUS
  <2>1. RowsHaveFiles /\ Resolves(log)
    BY DEF FullInv, IndInv, UploadsAreRecordedWhole, PipelineResolves
  <2>2. \A v \in Viewers : Resolves(timeline[v])
    <3> SUFFICES ASSUME NEW v \in Viewers, NEW i \in DOMAIN timeline[v], timeline[v][i].file # NoFile
                 PROVE  timeline[v][i].file \in rows
      BY DEF Resolves
    <3>1. timeline[v][i] \in Known
      BY ViewerFacts DEF FullInv, ToSet
    <3> QED  BY <3>1 DEF FullInv, AccountInv, KnownResolves
  <2> QED  BY <2>1, <2>2 DEF AttachmentsResolve
<1> QED  BY <1>1, PagesSound, PTL

\* The page's handlers only add to what is shown, and nothing else touches it.
THEOREM PagesForgetNothing == Spec => NothingShownIsLost
<1>1. FullInv /\ [Next]_vars => [\A v \in Viewers : ToSet(timeline[v]) \subseteq ToSet(timeline'[v])]_vars
  <2> SUFFICES ASSUME FullInv, [Next]_vars, NEW v \in Viewers
               PROVE  ToSet(timeline[v]) \subseteq ToSet(timeline'[v])
    OBVIOUS
  <2>1. ASSUME NEW w \in Viewers, HandleFrame(w)
        PROVE  ToSet(timeline[v]) \subseteq ToSet(timeline'[v])
    BY <2>1, HandleFrameShows DEF FullInv
  <2>2. CASE ~(\E w \in Viewers : HandleFrame(w))
    <3>1. timeline' = timeline
      BY <2>2 DEF Next, Say, Enqueue, Take, Write, Commit, FailBatch, BeginUpload, WriteFile,
         RecordFile, FailUpload, Connect, Forward, Serve, OpenChat, LoseConnection, Crash,
         pageVars, vars
    <3> QED  BY <3>1
  <2> QED  BY <2>1, <2>2
<1> QED  BY <1>1, PagesSound, PTL DEF Spec, NothingShownIsLost
=============================================================================
