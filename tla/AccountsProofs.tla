--------------------------- MODULE AccountsProofs ---------------------------
(***************************************************************************)
(* Proofs about Accounts, for any names, passwords, devices and any number *)
(* of acts and faults: the types, that the account to start with is a      *)
(* saved one, that passwords open their own account, and that no two       *)
(* devices have a token that works.                                        *)
(***************************************************************************)
EXTENDS Accounts, TLAPS

-----------------------------------------------------------------------------
\* Requests, accounts, connections and their edits.

Ats == {"query", "write", "yes", "no", "broken"}

LEMMA Requests ==
    /\ NoCall \in Call
    /\ \A c \in Call : c # NoCall <=> c.op # "none"
    /\ \A c \in Call : c # NoCall =>
         /\ c.op \in {"register", "login", "verify", "boot"} /\ c.name \in Names
         /\ c.password \in Passwords \cup {NoOne} /\ c.token \in Tokens
         /\ c.remember \in BOOLEAN /\ c.heard \in BOOLEAN /\ c.at \in Ats
         /\ Submitted(c) => c.password \in Passwords
    /\ ~Submitted(NoCall)
  BY DEF Call, NoCall, Ats, Submitted

LEMMA RequestEdits ==
    ASSUME NEW c \in Call, c # NoCall
    PROVE  /\ \A at \in Ats : [c EXCEPT !.at = at] \in Call
           /\ \A t \in Nat : [c EXCEPT !.at = "yes", !.token = t] \in Call
           /\ [c EXCEPT !.heard = FALSE] \in Call
  BY DEF Call, NoCall, Ats, Tokens, Submitted

LEMMA AskedTypes ==
    ASSUME NEW op \in {"verify", "boot"}, NEW a \in Account, a # Nobody
    PROVE  /\ Asked(op, a) \in Call /\ Asked(op, a) # NoCall
           /\ Asked(op, a).op = op /\ Asked(op, a).name = a.name /\ Asked(op, a).token = a.token
           /\ Asked(op, a).at = "query"
  BY NoOneIsNobody DEF Asked, Call, NoCall, Account, Nobody, Tokens, Submitted

LEMMA Accounting ==
    /\ Nobody \in Account /\ Nobody.name = NoOne
    /\ \A n \in Names, t \in Nat : [name |-> n, token |-> t] \in Account /\ [name |-> n, token |-> t] # Nobody
    /\ \A a \in Account : a # Nobody => a.name \in Names /\ a.token \in Nat
                                         /\ a = [name |-> a.name, token |-> a.token]
  BY NoOneIsNobody DEF Account, Nobody, Tokens

LEMMA Connections ==
    /\ NoLine \in Line
    /\ \A l \in Line : /\ ClosedByPage(l) \in Line /\ EndedByServer(l) \in Line
                       /\ l.token \in Account
                       /\ l # NoLine => /\ l.name \in Names
                                        /\ [l EXCEPT !.server = "entering"] \in Line
                                        /\ [l EXCEPT !.server = "online"] \in Line
                                        /\ [l EXCEPT !.client = "open"] \in Line
    /\ \A n \in Names, a \in Account :
         [name |-> n, token |-> a, client |-> "connecting", server |-> "verifying"] \in Line
<1>1. NoLine \in Line
  BY DEF Line
<1>2. \A l \in Line : l # NoLine => /\ [l EXCEPT !.client = "closed"] \in Line
                                    /\ [l EXCEPT !.server = "none"] \in Line
                                    /\ l.name \in Names
                                    /\ [l EXCEPT !.server = "entering"] \in Line
                                    /\ [l EXCEPT !.server = "online"] \in Line
                                    /\ [l EXCEPT !.client = "open"] \in Line
  BY DEF Line
<1>3. \A n \in Names, a \in Account :
        [name |-> n, token |-> a, client |-> "connecting", server |-> "verifying"] \in Line
  BY DEF Line
<1>4. ClosedByPage(NoLine) = NoLine /\ EndedByServer(NoLine) = NoLine
  BY DEF ClosedByPage, EndedByServer, Left, NoLine
<1>5. \A l \in Line : l.token \in Account
  BY Accounting DEF Line, NoLine
<1>6. \A l \in Line : ClosedByPage(l) \in Line /\ EndedByServer(l) \in Line
  BY <1>1, <1>2, <1>4 DEF ClosedByPage, EndedByServer, Left
<1> QED  BY <1>1, <1>2, <1>3, <1>5, <1>6
-----------------------------------------------------------------------------
\* Types.

CallsOK == calls \in [Devices -> [Calls -> Call]]
StoreOK == password \in [Names -> Passwords \cup {NoOne}] /\ current \in [Names -> Tokens]
StorageOK == saved \in [Devices -> [Names -> Tokens]] /\ active \in [Devices -> Account]
PageOK == page \in [Devices -> Page]
LinesOK == lines \in [Devices -> [Lines -> Line]]
BoundsOK == acts \in 0..MaxActs /\ faults \in 0..MaxFaults

LEMMA TypeParts ==
    /\ TypeOK <=> /\ StoreOK /\ CallsOK /\ StorageOK /\ PageOK /\ LinesOK
                  /\ online \subseteq Names /\ BoundsOK
    /\ TypeOK' <=> /\ StoreOK' /\ CallsOK' /\ StorageOK' /\ PageOK' /\ LinesOK'
                   /\ online' \subseteq Names /\ BoundsOK'
  BY DEF TypeOK, CallsOK, StoreOK, StorageOK, PageOK, LinesOK, BoundsOK

LEMMA AnswerTypes ==
    ASSUME CallsOK, NEW d \in Devices, NEW i \in Calls, calls[d][i] # NoCall,
           \/ \E at \in Ats : Answer(d, i, at)
           \/ \E t \in Nat : AnswerToken(d, i, t)
    PROVE  CallsOK'
<1>1. calls[d][i] \in Call
  BY DEF CallsOK
<1>2. ASSUME NEW at \in Ats, Answer(d, i, at) PROVE CallsOK'
  BY <1>1, <1>2, RequestEdits DEF Answer, CallsOK
<1>3. ASSUME NEW t \in Nat, AnswerToken(d, i, t) PROVE CallsOK'
  BY <1>1, <1>3, RequestEdits DEF AnswerToken, CallsOK
<1> QED  BY <1>2, <1>3

LEMMA PageTypes ==
    ASSUME NEW g \in Page
    PROVE  /\ g.me \in Names \cup {NoOne} /\ g.token \in Account /\ g.list \in [Names -> Tokens]
           /\ \A n \in Names \cup {NoOne}, a \in Account, k \in Lines :
                [g EXCEPT !.me = n, !.token = a, !.line = k, !.retry = FALSE] \in Page
           /\ \A list \in [Names -> Tokens] :
                /\ [g EXCEPT !.screen = "login", !.me = NoOne, !.token = Nobody, !.line = 0,
                             !.list = list] \in Page
                /\ [g EXCEPT !.list = list] \in Page
           /\ \A n \in Names \cup {NoOne} : [g EXCEPT !.me = n, !.screen = "app"] \in Page
           /\ \A r \in BOOLEAN : [g EXCEPT !.retry = r] \in Page
  BY Accounting DEF Page

LEMMA ConnectTypes ==
    ASSUME PageOK, LinesOK, NEW d \in Devices, NEW n \in Names, NEW a \in Account,
           Connect(d, n, a)
    PROVE  PageOK' /\ LinesOK'
<1>1. PICK k \in Lines :
        /\ page' = [page EXCEPT ![d] = [@ EXCEPT !.me = n, !.token = a, !.line = k, !.retry = FALSE]]
        /\ lines' = [lines EXCEPT ![d][k] = [name |-> n, token |-> a,
                                             client |-> "connecting", server |-> "verifying"]]
  BY DEF Connect, FreeLine
<1>2. PageOK'
  BY <1>1, PageTypes DEF PageOK
<1>3. LinesOK'
  BY <1>1, Connections DEF LinesOK
<1> QED  BY <1>2, <1>3

LEMMA ShowLoginTypes ==
    ASSUME PageOK, LinesOK, NEW d \in Devices, NEW list \in [Names -> Tokens], ShowLogin(d, list)
    PROVE  PageOK' /\ LinesOK'
<1>1. PageOK'
  BY PageTypes DEF ShowLogin, PageOK
<1>2. LinesOK'
  BY Connections DEF ShowLogin, LinesOK
<1> QED  BY <1>1, <1>2

LEMMA StorageTypes ==
    ASSUME StorageOK, NEW d \in Devices
    PROVE  /\ \A n \in Names, t \in Nat : SaveAndActivate(d, n, t) => StorageOK'
           /\ \A n \in Names : Forget(d, n) => StorageOK'
           /\ active' = [active EXCEPT ![d] = Nobody] /\ UNCHANGED saved => StorageOK'
<1>1. ASSUME NEW n \in Names, NEW t \in Nat, SaveAndActivate(d, n, t) PROVE StorageOK'
  <2>1. [name |-> n, token |-> t] \in Account
    BY Accounting
  <2> QED  BY <1>1, <2>1 DEF StorageOK, SaveAndActivate, Tokens
<1>2. ASSUME NEW n \in Names, Forget(d, n) PROVE StorageOK'
  BY <1>2, Accounting DEF StorageOK, Forget, Tokens
<1>3. ASSUME active' = [active EXCEPT ![d] = Nobody], UNCHANGED saved PROVE StorageOK'
  BY <1>3, Accounting DEF StorageOK
<1> QED  BY <1>1, <1>2, <1>3

LEMMA HeardTypes ==
    ASSUME CallsOK, NEW d \in Devices, NEW i \in Calls, Drop(d, i)
    PROVE  CallsOK'
  BY Requests DEF Drop, CallsOK

LEMMA FirstCallTypes ==
    ASSUME NEW rest \in [Calls -> Call], NEW a \in Account
    PROVE  FirstCall(rest, a) \in [Calls -> Call]
<1>1. CASE a = Nobody
  BY <1>1 DEF FirstCall
<1>2. CASE a # Nobody
  <2>1. Asked("boot", a) \in Call
    BY <1>2, AskedTypes
  <2> QED  BY <1>2, <2>1 DEF FirstCall
<1> QED  BY <1>1, <1>2

LEMMA FirstPageTypes ==
    ASSUME NEW f \in [Devices -> [Names -> Tokens]], f = saved, NEW d \in Devices, NEW a
    PROVE  FirstPage(d, a) \in Page
<1>1. [n \in Names |-> IF a = Nobody THEN saved[d][n] ELSE 0] \in [Names -> Tokens]
  BY DEF Tokens
<1> QED  BY <1>1, Accounting DEF FirstPage, Page

\* Requests are served and fail within their types.
LEMMA ServeTypes ==
    ASSUME TypeOK, NEW d \in Devices, NEW i \in Calls, Serve(d, i)
    PROVE  CallsOK' /\ StoreOK' /\ UNCHANGED <<storage, page, lines, online, bounds>>
<1> DEFINE c == calls[d][i]
<1>1. c \in Call /\ CallsOK /\ StoreOK
  BY TypeParts DEF CallsOK
<1>2. UNCHANGED <<storage, page, lines, online, bounds>>
  BY DEF Serve
<1>3. UNCHANGED store => StoreOK'
  BY <1>1 DEF store, StoreOK
<1>4. c # NoCall => \A at \in Ats : Answer(d, i, at) => CallsOK'
  BY <1>1, AnswerTypes
<1>5. c # NoCall => \A t \in Nat : AnswerToken(d, i, t) => CallsOK'
  BY <1>1, AnswerTypes
<1>6. CASE FindName(d, i)
  <2>1. c # NoCall
    BY <1>6 DEF FindName, NoCall
  <2>2. \E at \in Ats : Answer(d, i, at)
    BY <1>6 DEF FindName, Ats
  <2> QED  BY <1>2, <1>3, <1>4, <1>6, <2>1, <2>2 DEF FindName
<1>7. CASE InsertUser(d, i)
  <2>1. c # NoCall
    BY <1>7 DEF InsertUser, NoCall
  <2>2. c.name \in Names /\ c.password \in Passwords \cup {NoOne}
    BY <1>1, <2>1, Requests
  <2>3. CASE /\ password' = [password EXCEPT ![c.name] = c.password]
             /\ current' = [current EXCEPT ![c.name] = 1]
             /\ AnswerToken(d, i, 1)
    <3>1. StoreOK'
      BY <1>1, <2>2, <2>3 DEF StoreOK, Tokens
    <3> QED  BY <1>2, <1>5, <2>1, <2>3, <3>1
  <2>4. CASE Answer(d, i, "no") /\ UNCHANGED store
    BY <1>2, <1>3, <1>4, <2>1, <2>4 DEF Ats
  <2> QED  BY <1>7, <2>3, <2>4 DEF InsertUser
<1>8. CASE CheckPassword(d, i)
  <2>1. c # NoCall
    BY <1>8 DEF CheckPassword, NoCall
  <2>2. \E at \in Ats : Answer(d, i, at)
    BY <1>8 DEF CheckPassword, Ats
  <2> QED  BY <1>2, <1>3, <1>4, <1>8, <2>1, <2>2 DEF CheckPassword
<1>9. CASE UpdateToken(d, i)
  <2>1. c # NoCall
    BY <1>9 DEF UpdateToken, NoCall
  <2>2. c.name \in Names /\ current[c.name] + 1 \in Nat
    BY <1>1, <2>1, Requests DEF StoreOK, Tokens
  <2>3. CallsOK'
    BY <1>5, <1>9, <2>1, <2>2 DEF UpdateToken
  <2>4. StoreOK'
    BY <1>1, <1>9, <2>2 DEF UpdateToken, StoreOK, Tokens
  <2> QED  BY <1>2, <2>3, <2>4
<1>10. CASE Verify(d, i)
  <2>1. c # NoCall
    BY <1>10 DEF Verify, NoCall
  <2>2. \E at \in Ats : Answer(d, i, at)
    BY <1>10 DEF Verify, Ats
  <2> QED  BY <1>2, <1>3, <1>4, <1>10, <2>1, <2>2 DEF Verify
<1> QED  BY <1>6, <1>7, <1>8, <1>9, <1>10 DEF Serve

LEMMA FailTypes ==
    ASSUME TypeOK, NEW d \in Devices, NEW i \in Calls, FailCall(d, i)
    PROVE  CallsOK' /\ BoundsOK'
<1>1. CallsOK'
  BY TypeParts, AnswerTypes DEF FailCall, Ats
<1>2. BoundsOK'
  BY BoundsAreNatural DEF TypeOK, FailCall, BoundsOK
<1> QED  BY <1>1, <1>2

\* So does what the page does with an answer.
LEMMA HearTypes ==
    ASSUME TypeOK, NEW d \in Devices, NEW i \in Calls, Hear(d, i)
    PROVE  TypeOK'
<1> DEFINE c == calls[d][i]
           a == [name |-> c.name, token |-> c.token]
<1>1. /\ CallsOK /\ StorageOK /\ PageOK /\ LinesOK /\ StoreOK /\ online \subseteq Names /\ BoundsOK
      /\ c \in Call /\ c # NoCall
  BY TypeParts DEF CallsOK, Hear, Heard
<1>2. c.name \in Names /\ c.token \in Nat /\ a \in Account
  BY <1>1, Requests, Accounting DEF Tokens
<1>3. CallsOK'
  BY <1>1, HeardTypes DEF Hear, Heard
<1>4. StoreOK' /\ online' \subseteq Names /\ BoundsOK'
  BY <1>1 DEF Hear, store, bounds, StoreOK, BoundsOK
<1>5. saved[d] \in [Names -> Tokens]
  BY <1>1 DEF StorageOK
<1>6. SUFFICES ASSUME TRUE PROVE StorageOK' /\ PageOK' /\ LinesOK'
  BY <1>3, <1>4, TypeParts
<1>7. UNCHANGED <<storage, page, lines>> => StorageOK' /\ PageOK' /\ LinesOK'
  BY <1>1 DEF storage, StorageOK, PageOK, LinesOK
<1>8. Connect(d, c.name, a) => PageOK' /\ LinesOK'
  BY <1>1, <1>2, ConnectTypes
<1>9. /\ SaveAndActivate(d, c.name, c.token) => StorageOK'
      /\ Forget(d, c.name) => StorageOK'
      /\ active' = [active EXCEPT ![d] = Nobody] /\ UNCHANGED saved => StorageOK'
  BY <1>1, <1>2, StorageTypes
<1>10. CASE HearSubmit(d, i)
  BY <1>7, <1>8, <1>10, <1>9 DEF HearSubmit
<1>11. CASE HearVerify(d, i)
  <2>1. CASE Forget(d, c.name) /\ ShowLogin(d, saved'[d])
    <3>1. StorageOK'
      BY <1>9, <2>1
    <3>2. saved'[d] \in [Names -> Tokens]
      BY <3>1 DEF StorageOK
    <3> QED  BY <1>1, <2>1, <3>1, <3>2, ShowLoginTypes
  <2> QED  BY <1>7, <1>8, <1>11, <1>9, <2>1 DEF HearVerify
<1>12. CASE HearBoot(d, i)
  <2>1. UNCHANGED storage => StorageOK'
    BY <1>1 DEF storage, StorageOK
  <2>2. ShowLogin(d, saved[d]) => PageOK' /\ LinesOK'
    BY <1>1, <1>5, ShowLoginTypes
  <2> QED  BY <1>8, <1>12, <1>9, <2>1, <2>2 DEF HearBoot
<1> QED  BY <1>10, <1>11, <1>12 DEF Hear

LEMMA AskTypes ==
    ASSUME CallsOK, NEW d \in Devices, NEW c \in Call, Ask(d, c)
    PROVE  CallsOK'
  BY DEF Ask, CallsOK

LEMMA UserTypes ==
    ASSUME TypeOK, NEW d \in Devices,
           Submit(d) \/ ClickSaved(d) \/ BackToSaved(d) \/ RemoveSaved(d) \/ Logout(d) \/ Reload(d)
    PROVE  TypeOK'
<1>1. CallsOK /\ StorageOK /\ PageOK /\ LinesOK /\ StoreOK /\ online \subseteq Names /\ BoundsOK
  BY TypeParts
<1>2. Act => BoundsOK'
  BY <1>1, BoundsAreNatural DEF Act, BoundsOK
<1>3. /\ UNCHANGED store => StoreOK'
      /\ UNCHANGED calls => CallsOK'
      /\ UNCHANGED storage => StorageOK'
      /\ UNCHANGED page => PageOK'
      /\ UNCHANGED lines => LinesOK'
      /\ UNCHANGED online => online' \subseteq Names
      /\ UNCHANGED bounds => BoundsOK'
  BY <1>1 DEF store, storage, bounds, StoreOK, CallsOK, StorageOK, PageOK, LinesOK, BoundsOK
<1>4. /\ saved[d] \in [Names -> Tokens] /\ active[d] \in Account /\ calls[d] \in [Calls -> Call]
      /\ page[d] \in Page /\ page[d].list \in [Names -> Tokens]
  BY <1>1, PageTypes DEF StorageOK, CallsOK, PageOK
<1>5. ASSUME Submit(d) PROVE TypeOK'
  <2>1. PICK op \in {"register", "login"}, n \in Names, q \in Passwords, r \in BOOLEAN :
          Ask(d, [op |-> op, name |-> n, password |-> q, token |-> 0, remember |-> r,
                  heard |-> TRUE, at |-> "query"])
    BY <1>5 DEF Submit
  <2>2. [op |-> op, name |-> n, password |-> q, token |-> 0, remember |-> r,
         heard |-> TRUE, at |-> "query"] \in Call
    BY NoOneIsNobody DEF Call, Tokens, Submitted
  <2>3. CallsOK'
    BY <1>1, <2>1, <2>2, AskTypes
  <2> QED  BY <1>2, <1>3, <1>5, <2>3, TypeParts DEF Submit
<1>6. ASSUME ClickSaved(d) PROVE TypeOK'
  <2>1. PICK n \in Names : Ask(d, Asked("verify", [name |-> n, token |-> page[d].list[n]]))
    BY <1>6 DEF ClickSaved
  <2>2. Asked("verify", [name |-> n, token |-> page[d].list[n]]) \in Call
    BY <1>4, Accounting, AskedTypes DEF Tokens
  <2>3. CallsOK'
    BY <1>1, <2>1, <2>2, AskTypes
  <2> QED  BY <1>2, <1>3, <1>6, <2>3, TypeParts DEF ClickSaved
<1>7. ASSUME BackToSaved(d) PROVE TypeOK'
  <2>1. PageOK'
    BY <1>1, <1>4, <1>7, PageTypes DEF BackToSaved, PageOK
  <2> QED  BY <1>3, <1>7, <2>1, TypeParts DEF BackToSaved
<1>8. ASSUME RemoveSaved(d) PROVE TypeOK'
  <2>1. StorageOK'
    BY <1>1, <1>8, StorageTypes DEF RemoveSaved
  <2>2. saved'[d] \in [Names -> Tokens]
    BY <2>1 DEF StorageOK
  <2>3. page' = [page EXCEPT ![d].list = saved'[d]]
    BY <1>8 DEF RemoveSaved
  <2>4. PageOK'
    BY <1>1, <1>4, <2>2, <2>3, PageTypes DEF PageOK
  <2> QED  BY <1>2, <1>3, <1>8, <2>1, <2>4, TypeParts DEF RemoveSaved
<1>9. ASSUME Logout(d) PROVE TypeOK'
  <2>1. StorageOK'
    BY <1>1, <1>9, StorageTypes DEF Logout
  <2>2. PageOK' /\ LinesOK'
    BY <1>1, <1>4, <1>9, ShowLoginTypes DEF Logout
  <2> QED  BY <1>2, <1>3, <1>9, <2>1, <2>2, TypeParts DEF Logout
<1>10. ASSUME Reload(d) PROVE TypeOK'
  <2> DEFINE rest == [i \in Calls |-> IF Submitted(calls[d][i])
                                      THEN [calls[d][i] EXCEPT !.heard = FALSE] ELSE NoCall]
  <2>1. \A i \in Calls : Submitted(calls[d][i]) => calls[d][i] # NoCall
    BY DEF Submitted, NoCall
  <2>2. rest \in [Calls -> Call]
    BY <1>4, <2>1, Requests, RequestEdits
  <2>3. FirstCall(rest, active[d]) \in [Calls -> Call]
    BY <1>4, <2>2, FirstCallTypes
  <2>4. calls' = [calls EXCEPT ![d] = FirstCall(rest, active[d])]
    BY <1>10 DEF Reload
  <2>5. CallsOK'
    BY <1>1, <2>3, <2>4 DEF CallsOK
  <2>6. FirstPage(d, active[d]) \in Page
    BY <1>1, FirstPageTypes DEF StorageOK
  <2>7. PageOK'
    BY <1>1, <1>10, <2>6 DEF Reload, PageOK
  <2>8. LinesOK'
    BY <1>1, <1>10, Connections DEF Reload, LinesOK
  <2> QED  BY <1>2, <1>3, <1>10, <2>5, <2>7, <2>8, TypeParts DEF Reload
<1> QED  BY <1>5, <1>6, <1>7, <1>8, <1>9, <1>10

LEMMA OnCloseTypes ==
    ASSUME PageOK, NEW d \in Devices, NEW k \in Lines, OnClose(d, k)
    PROVE  PageOK'
  BY PageTypes DEF OnClose, PageOK

LEMMA ConnectionTypes ==
    ASSUME TypeOK, NEW d \in Devices, NEW k \in Lines, Work(d, k) \/ LoseLine(d, k)
    PROVE  TypeOK'
<1>1. CallsOK /\ StorageOK /\ PageOK /\ LinesOK /\ StoreOK /\ online \subseteq Names /\ BoundsOK
  BY TypeParts
<1>2. /\ UNCHANGED store => StoreOK'
      /\ UNCHANGED calls => CallsOK'
      /\ UNCHANGED storage => StorageOK'
      /\ UNCHANGED page => PageOK'
      /\ UNCHANGED lines => LinesOK'
      /\ UNCHANGED online => online' \subseteq Names
      /\ UNCHANGED bounds => BoundsOK'
  BY <1>1 DEF store, storage, bounds, StoreOK, CallsOK, StorageOK, PageOK, LinesOK, BoundsOK
<1>3. lines[d][k] \in Line /\ page[d] \in Page
  BY <1>1 DEF LinesOK, PageOK
<1>4. ASSUME Work(d, k) PROVE TypeOK'
  <2>1. SUFFICES ASSUME TRUE PROVE PageOK' /\ LinesOK' /\ online' \subseteq Names
    BY <1>2, <1>4, TypeParts DEF Work
  <2>2. CASE VerifyLine(d, k)
    <3>1. lines[d][k] # NoLine
      BY <2>2 DEF VerifyLine, NoLine
    <3>2. LinesOK'
      BY <1>1, <1>3, <2>2, <3>1, Connections DEF VerifyLine, LinesOK
    <3> QED  BY <1>2, <2>2, <3>2 DEF VerifyLine
  <2>3. CASE EnterHub(d, k)
    <3>1. lines[d][k] # NoLine
      BY <2>3 DEF EnterHub, NoLine
    <3>2. lines[d][k] # NoLine /\ lines[d][k].name \in Names
      BY <1>3, <3>1, Connections
    <3>3. CASE lines' = [lines EXCEPT ![d][k] = EndedByServer(@)] /\ UNCHANGED online
      BY <1>1, <1>2, <1>3, <2>3, <3>3, Connections DEF LinesOK, EnterHub
    <3>4. CASE /\ lines' = [lines EXCEPT ![d][k].server = "online"]
               /\ online' = online \cup {lines[d][k].name}
      <4>1. [lines[d][k] EXCEPT !.server = "online"] \in Line
        BY <1>3, <3>2, Connections
      <4>2. LinesOK'
        BY <1>1, <3>4, <4>1 DEF LinesOK
      <4> QED  BY <1>1, <1>2, <2>3, <3>2, <3>4, <4>2 DEF EnterHub
    <3> QED  BY <2>3, <3>3, <3>4 DEF EnterHub
  <2>4. CASE Welcome(d, k)
    <3>1. lines[d][k] # NoLine
      BY <2>4 DEF Welcome, NoLine
    <3>2. lines[d][k] # NoLine /\ lines[d][k].name \in Names
      BY <1>3, <3>1, Connections
    <3>3. [lines[d][k] EXCEPT !.client = "open"] \in Line
      BY <1>3, <3>2, Connections
    <3>4. LinesOK'
      BY <1>1, <2>4, <3>3 DEF Welcome, LinesOK
    <3>5. PageOK'
      BY <1>1, <1>3, <2>4, <3>2, PageTypes DEF Welcome, PageOK
    <3> QED  BY <1>2, <2>4, <3>4, <3>5 DEF Welcome
  <2>5. CASE SeeEnd(d, k)
    <3>1. LinesOK'
      BY <1>1, <2>5, Connections DEF SeeEnd, LinesOK
    <3> QED  BY <1>1, <1>2, <2>5, <3>1, OnCloseTypes DEF SeeEnd
  <2>6. CASE EndSession(d, k)
    <3>1. LinesOK'
      BY <1>1, <2>6, Connections DEF EndSession, LinesOK
    <3> QED  BY <1>1, <1>2, <2>6, <3>1 DEF EndSession
  <2> QED  BY <1>4, <2>2, <2>3, <2>4, <2>5, <2>6 DEF Work
<1>5. ASSUME LoseLine(d, k) PROVE TypeOK'
  <2>1. LinesOK'
    BY <1>1, <1>3, <1>5, Connections DEF LoseLine, LinesOK
  <2>2. BoundsOK'
    BY <1>1, <1>5, BoundsAreNatural DEF LoseLine, BoundsOK
  <2> QED  BY <1>1, <1>2, <1>5, <2>1, <2>2, OnCloseTypes, TypeParts DEF LoseLine
<1> QED  BY <1>4, <1>5

LEMMA RetryTypes == ASSUME TypeOK, NEW d \in Devices, Retry(d) PROVE TypeOK'
<1>1. CallsOK /\ StorageOK /\ PageOK /\ LinesOK /\ StoreOK /\ online \subseteq Names /\ BoundsOK
  BY TypeParts
<1>2. page[d] \in Page /\ page[d].me \in Names \cup {NoOne} /\ page[d].token \in Account
  BY <1>1, PageTypes DEF PageOK
<1>3. page[d].me # NoOne /\ Connect(d, page[d].me, page[d].token) => PageOK' /\ LinesOK'
  BY <1>1, <1>2, ConnectTypes
<1>4. page' = [page EXCEPT ![d].retry = FALSE] /\ UNCHANGED lines => PageOK' /\ LinesOK'
  BY <1>1, <1>2, PageTypes DEF PageOK, LinesOK
<1>5. PageOK' /\ LinesOK'
  BY <1>3, <1>4 DEF Retry
<1>6. CallsOK' /\ StorageOK' /\ StoreOK' /\ online' \subseteq Names /\ BoundsOK'
  BY <1>1 DEF Retry, store, storage, bounds, StoreOK, CallsOK, StorageOK, BoundsOK
<1> QED  BY <1>5, <1>6, TypeParts

LEMMA CrashTypes == ASSUME TypeOK, Crash PROVE TypeOK'
<1>1. CallsOK /\ StorageOK /\ PageOK /\ LinesOK /\ StoreOK /\ BoundsOK
  BY TypeParts
<1>2. CallsOK'
  BY <1>1, RequestEdits DEF Crash, CallsOK, Ats
<1>3. LinesOK'
  BY <1>1, Connections DEF Crash, LinesOK
<1>4. BoundsOK'
  BY <1>1, BoundsAreNatural DEF Crash, BoundsOK
<1>5. StoreOK' /\ StorageOK' /\ PageOK'
  BY <1>1 DEF Crash, store, storage, StoreOK, StorageOK, PageOK
<1> QED  BY <1>2, <1>3, <1>4, <1>5, TypeParts DEF Crash

LEMMA InitTypes == ASSUME Init PROVE TypeOK
<1>1. PICK past \in Pasts :
        /\ password = [n \in Names |-> IF \E d \in Devices : <<d, n>> \in past
                                       THEN CHOOSE p \in Passwords : TRUE ELSE NoOne]
        /\ saved = [d \in Devices |-> [n \in Names |-> IF <<d, n>> \in past THEN 1 ELSE 0]]
        /\ active \in [Devices -> {[name |-> r[2], token |-> 1] : r \in past} \cup {Nobody}]
  BY DEF Init
<1>2. (CHOOSE p \in Passwords : TRUE) \in Passwords
  BY PasswordsExist
<1>3. StoreOK
  BY <1>1, <1>2 DEF Init, StoreOK, Tokens
<1>4. \A r \in past : [name |-> r[2], token |-> 1] \in Account
  BY PastsAreTokens, Accounting
<1>5. StorageOK
  BY <1>1, <1>4, Accounting DEF StorageOK, Tokens
<1>6. [i \in Calls |-> NoCall] \in [Calls -> Call]
  BY Requests
<1>7. CallsOK
  BY <1>5, <1>6, FirstCallTypes DEF Init, CallsOK, StorageOK
<1>8. PageOK
  BY <1>5, FirstPageTypes DEF Init, PageOK, StorageOK
<1>9. LinesOK
  BY Connections DEF Init, LinesOK
<1>10. BoundsOK
  BY BoundsAreNatural DEF Init, BoundsOK
<1> QED  BY <1>3, <1>5, <1>7, <1>8, <1>9, <1>10, TypeParts DEF Init

LEMMA NextTypes == ASSUME TypeOK, [Next]_vars PROVE TypeOK'
<1>1. ASSUME UNCHANGED vars PROVE TypeOK'
  BY <1>1 DEF vars, store, storage, bounds, TypeOK
<1>2. ASSUME NEW d \in Devices, NEW i \in Calls, Serve(d, i) \/ FailCall(d, i) \/ DropUnheard(d, i)
      PROVE TypeOK'
  <2>1. StoreOK /\ StorageOK /\ CallsOK /\ PageOK /\ LinesOK /\ online \subseteq Names /\ BoundsOK
    BY TypeParts
  <2>2. CASE Serve(d, i)
    BY <2>1, <2>2, ServeTypes, TypeParts DEF storage, bounds, StorageOK, PageOK, LinesOK, BoundsOK
  <2>3. CASE FailCall(d, i)
    <3>1. CallsOK' /\ BoundsOK'
      BY <2>3, FailTypes
    <3> QED  BY <2>1, <2>3, <3>1, TypeParts DEF FailCall, store, storage, StoreOK, StorageOK, PageOK, LinesOK
  <2>4. CASE DropUnheard(d, i)
    <3>1. CallsOK'
      BY <2>1, <2>4, HeardTypes DEF DropUnheard
    <3> QED  BY <2>1, <2>4, <3>1, TypeParts
             DEF DropUnheard, store, storage, bounds, StoreOK, StorageOK, PageOK, LinesOK, BoundsOK
  <2> QED  BY <1>2, <2>2, <2>3, <2>4
<1>3. ASSUME NEW d \in Devices, NEW i \in Calls, Hear(d, i) PROVE TypeOK'
  BY <1>3, HearTypes
<1> QED  BY <1>1, <1>2, <1>3, UserTypes, ConnectionTypes, RetryTypes, CrashTypes DEF Next

\* Tokens stay numbers and every request, connection and page is at one of its
\* steps, for any number of devices, acts and faults.
THEOREM AccountTypes == Spec => []TypeOK
<1> QED  BY InitTypes, NextTypes, PTL DEF Spec
-----------------------------------------------------------------------------
\* The account to start with.

Stores(d) == \/ \E n \in Names, t \in Nat : SaveAndActivate(d, n, t)
             \/ \E n \in Names : Forget(d, n)
             \/ active' = [active EXCEPT ![d] = Nobody] /\ UNCHANGED saved

\* What is stored changes in three ways only.
LEMMA StorageSteps ==
    ASSUME TypeOK, [Next]_vars
    PROVE  UNCHANGED storage \/ \E d \in Devices : Stores(d)
<1>1. ASSUME NEW d \in Devices, NEW i \in Calls, Hear(d, i)
      PROVE  UNCHANGED storage \/ Stores(d)
  <2>1. calls[d][i] \in Call /\ calls[d][i] # NoCall
    BY <1>1, TypeParts DEF CallsOK, Hear, Heard
  <2>2. calls[d][i].name \in Names /\ calls[d][i].token \in Nat
    BY <2>1, Requests DEF Tokens
  <2>3. CASE HearSubmit(d, i)
    BY <2>2, <2>3 DEF HearSubmit, Stores, storage
  <2>4. CASE HearVerify(d, i)
    BY <2>2, <2>4 DEF HearVerify, Stores, storage
  <2>5. CASE HearBoot(d, i)
    BY <2>5 DEF HearBoot, Stores, storage
  <2> QED  BY <1>1, <2>3, <2>4, <2>5 DEF Hear
<1>2. ASSUME NEW d \in Devices,
             \/ \E i \in Calls : Serve(d, i) \/ FailCall(d, i) \/ DropUnheard(d, i)
             \/ Submit(d) \/ ClickSaved(d) \/ BackToSaved(d) \/ Reload(d)
             \/ \E k \in Lines : Work(d, k) \/ LoseLine(d, k)
             \/ Retry(d)
      PROVE  UNCHANGED storage
  BY <1>2 DEF Serve, FailCall, DropUnheard, Submit, ClickSaved, BackToSaved, Reload, Work, LoseLine, Retry
<1>3. ASSUME NEW d \in Devices, RemoveSaved(d) \/ Logout(d)
      PROVE  Stores(d)
  BY <1>3 DEF RemoveSaved, Logout, Stores
<1>4. Crash \/ UNCHANGED vars => UNCHANGED storage
  BY DEF Crash, vars
<1> QED  BY <1>1, <1>2, <1>3, <1>4 DEF Next

LEMMA SavedStep ==
    ASSUME TypeOK, ActiveIsSaved, [Next]_vars
    PROVE  ActiveIsSaved'
<1>1. StorageOK
  BY TypeParts
<1>2. CASE UNCHANGED storage
  BY <1>2 DEF storage, ActiveIsSaved
<1>3. ASSUME NEW d \in Devices, Stores(d)
      PROVE  ActiveIsSaved'
  <2>1. ASSUME NEW n \in Names, NEW t \in Nat, SaveAndActivate(d, n, t) PROVE ActiveIsSaved'
    BY <1>1, <2>1 DEF SaveAndActivate, StorageOK, ActiveIsSaved
  <2>2. ASSUME NEW n \in Names, Forget(d, n) PROVE ActiveIsSaved'
    <3>1. \A e \in Devices : active[e] # Nobody => active[e].name \in Names
      BY <1>1, Accounting DEF StorageOK
    <3> QED  BY <1>1, <2>2, <3>1 DEF Forget, StorageOK, ActiveIsSaved
  <2>3. CASE active' = [active EXCEPT ![d] = Nobody] /\ UNCHANGED saved
    BY <1>1, <2>3 DEF StorageOK, ActiveIsSaved
  <2> QED  BY <1>3, <2>1, <2>2, <2>3 DEF Stores
<1> QED  BY <1>2, <1>3, StorageSteps

LEMMA SavedAtFirst == ASSUME Init PROVE ActiveIsSaved
<1>1. PICK past \in Pasts :
        /\ saved = [d \in Devices |-> [n \in Names |-> IF <<d, n>> \in past THEN 1 ELSE 0]]
        /\ active \in [Devices -> {[name |-> r[2], token |-> 1] : r \in past} \cup {Nobody}]
        /\ \A d \in Devices : active[d] # Nobody => <<d, active[d].name>> \in past
  BY DEF Init
<1>2. ASSUME NEW d \in Devices, active[d] # Nobody
      PROVE  active[d].token = 1 /\ active[d].name \in Names /\ <<d, active[d].name>> \in past
  <2>1. PICK r \in past : active[d] = [name |-> r[2], token |-> 1]
    BY <1>1, <1>2
  <2> QED  BY <1>1, <1>2, <2>1, PastsAreTokens
<1> QED  BY <1>1, <1>2 DEF ActiveIsSaved

\* Whatever answers, removals and new tokens cross, the page starts with an
\* account it has in its list, and with the token it has there (state.ts:61).
THEOREM StartIsSaved == Spec => []ActiveIsSaved
<1>1. Init => TypeOK /\ ActiveIsSaved
  BY InitTypes, SavedAtFirst
<1>2. TypeOK /\ ActiveIsSaved /\ [Next]_vars => (TypeOK /\ ActiveIsSaved)'
  BY NextTypes, SavedStep
<1> QED  BY <1>1, <1>2, PTL DEF Spec
-----------------------------------------------------------------------------
\* Passwords.

\* A request that is let in by the password it has.
Claims(c) == Submitted(c) /\ c.at \in {"write", "yes"} /\ (c.op = "login" \/ c.at = "yes")

\* No request of a step is let in that was not.
NoNewClaims ==
    \A d \in Devices, i \in Calls :
        Claims(calls'[d][i]) => /\ Claims(calls[d][i])
                                /\ calls'[d][i].name = calls[d][i].name
                                /\ calls'[d][i].password = calls[d][i].password

LEMMA ClaimParts ==
    /\ OwnersGetIn <=> \A d \in Devices, i \in Calls :
         Claims(calls[d][i]) => password[calls[d][i].name] = calls[d][i].password
    /\ OwnersGetIn' <=> \A d \in Devices, i \in Calls :
         Claims(calls'[d][i]) => password'[calls'[d][i].name] = calls'[d][i].password
  BY DEF OwnersGetIn, Claims

LEMMA ClaimsStay ==
    ASSUME OwnersGetIn, UNCHANGED password, NoNewClaims
    PROVE  OwnersGetIn'
  BY ClaimParts DEF NoNewClaims

LEMMA ClaimTypes ==
    /\ ~Claims(NoCall)
    /\ \A c \in Call : Claims(c) => c # NoCall /\ c.password \in Passwords
  BY Requests DEF Claims

LEMMA AnswerClaims ==
    ASSUME CallsOK, NEW d \in Devices, NEW i \in Calls, calls[d][i] # NoCall, NEW at \in Ats,
           Answer(d, i, at), Claims([calls[d][i] EXCEPT !.at = at]) => Claims(calls[d][i])
    PROVE  NoNewClaims
<1> DEFINE c == calls[d][i]
<1>1. /\ [c EXCEPT !.at = at].name = c.name
      /\ [c EXCEPT !.at = at].password = c.password
  BY Requests DEF CallsOK, Call, NoCall
<1>2. \A e \in Devices, j \in Calls :
        calls'[e][j] = IF e = d /\ j = i THEN [c EXCEPT !.at = at] ELSE calls[e][j]
  BY DEF Answer, CallsOK
<1> QED  BY <1>1, <1>2 DEF NoNewClaims

\* What the table holds for a name is never overwritten.
LEMMA ServeClaims ==
    ASSUME TypeOK, OwnersGetIn, NEW d \in Devices, NEW i \in Calls, Serve(d, i)
    PROVE  OwnersGetIn'
<1> DEFINE c == calls[d][i]
<1>1. c \in Call /\ CallsOK /\ StoreOK
  BY TypeParts DEF CallsOK
<1>2. c # NoCall
  BY DEF Serve, FindName, InsertUser, CheckPassword, UpdateToken, Verify, NoCall
<1>3. c.name \in Names /\ (Submitted(c) => c.password \in Passwords)
  BY <1>1, <1>2, Requests
<1>4. \A at : /\ [c EXCEPT !.at = at].op = c.op /\ [c EXCEPT !.at = at].at = at
              /\ [c EXCEPT !.at = at].name = c.name
              /\ [c EXCEPT !.at = at].password = c.password
  BY <1>1, <1>2, Requests DEF Call, NoCall
<1>5. \A at : ~Submitted(c) => ~Claims([c EXCEPT !.at = at])
  BY <1>4 DEF Claims, Submitted
<1>6. \A at \in Ats : at \notin {"write", "yes"} => ~Claims([c EXCEPT !.at = at])
  BY <1>4 DEF Claims
<1>7. CASE FindName(d, i)
  <2>1. PICK at \in Ats : Answer(d, i, at) /\ at # "yes" /\ c.op = "register"
    BY <1>7 DEF FindName, Ats
  <2>2. ~Claims([c EXCEPT !.at = at])
    BY <1>4, <2>1 DEF Claims
  <2>3. NoNewClaims
    BY <1>1, <1>2, <2>1, <2>2, AnswerClaims
  <2> QED  BY <1>7, <2>3, ClaimsStay DEF FindName, store
<1>8. CASE InsertUser(d, i)
  <2>1. c.op = "register" /\ c.at = "write" /\ c.password \in Passwords
    BY <1>3, <1>8 DEF InsertUser, Submitted
  <2>2. CASE Answer(d, i, "no") /\ UNCHANGED store
    <3>1. NoNewClaims
      BY <1>1, <1>2, <1>6, <2>2, AnswerClaims DEF Ats
    <3> QED  BY <2>2, <3>1, ClaimsStay DEF store
  <2>3. CASE /\ password[c.name] = NoOne
             /\ password' = [password EXCEPT ![c.name] = c.password]
             /\ AnswerToken(d, i, 1)
    <3>1. \A e \in Devices, j \in Calls : (e = d /\ j = i) \/ calls'[e][j] = calls[e][j]
      BY <1>1, <2>3 DEF AnswerToken, CallsOK
    <3>2. calls'[d][i].name = c.name /\ calls'[d][i].password = c.password
      <4>1. calls'[d][i] = [c EXCEPT !.at = "yes", !.token = 1]
        BY <1>1, <2>3 DEF AnswerToken, CallsOK
      <4> QED  BY <1>1, <1>2, <4>1, Requests DEF Call, NoCall
    <3>3. ASSUME NEW e \in Devices, NEW j \in Calls, Claims(calls[e][j])
          PROVE  calls[e][j].name # c.name /\ password'[calls[e][j].name] = calls[e][j].password
      <4>1. calls[e][j] \in Call /\ password[calls[e][j].name] = calls[e][j].password
        BY <1>1, <3>3, ClaimParts DEF CallsOK
      <4>2. calls[e][j].password # NoOne /\ calls[e][j].name \in Names
        BY <3>3, <4>1, ClaimTypes, Requests, NoOneIsNobody
      <4> QED  BY <1>1, <2>3, <4>1, <4>2 DEF StoreOK
    <3>4. password'[c.name] = c.password
      BY <1>1, <1>3, <2>3 DEF StoreOK
    <3> QED  BY <3>1, <3>2, <3>3, <3>4, ClaimParts
  <2> QED  BY <1>8, <2>2, <2>3 DEF InsertUser
<1>9. CASE CheckPassword(d, i)
  <2>1. CASE password[c.name] = c.password
    <3>1. \A e \in Devices, j \in Calls : calls'[e][j] =
            IF e = d /\ j = i THEN [c EXCEPT !.at = "write"] ELSE calls[e][j]
      BY <1>1, <1>9, <2>1 DEF CheckPassword, Answer, CallsOK
    <3>2. /\ calls'[d][i].name = c.name /\ calls'[d][i].password = c.password
          /\ UNCHANGED password
      <4>1. calls'[d][i] = [c EXCEPT !.at = "write"]
        BY <3>1
      <4>2. UNCHANGED password
        BY <1>9 DEF CheckPassword, store
      <4> QED  BY <1>4, <4>1, <4>2
    <3>3. \A e \in Devices, j \in Calls : (e = d /\ j = i) \/ calls'[e][j] = calls[e][j]
      BY <3>1
    <3> QED  BY <2>1, <3>2, <3>3, ClaimParts
  <2>2. CASE password[c.name] # c.password
    <3>1. NoNewClaims
      BY <1>1, <1>2, <1>6, <1>9, <2>2, AnswerClaims DEF CheckPassword, Ats
    <3> QED  BY <1>9, <3>1, ClaimsStay DEF CheckPassword, store
  <2> QED  BY <2>1, <2>2
<1>10. CASE UpdateToken(d, i)
  <2>1. Claims(c)
    BY <1>10 DEF UpdateToken, Claims, Submitted
  <2>2. \A e \in Devices, j \in Calls : (e = d /\ j = i) \/ calls'[e][j] = calls[e][j]
    BY <1>1, <1>10 DEF UpdateToken, AnswerToken, CallsOK
  <2>3. calls'[d][i].name = c.name /\ calls'[d][i].password = c.password
    <3>1. calls'[d][i] = [c EXCEPT !.at = "yes", !.token = current[c.name] + 1]
      BY <1>1, <1>10 DEF UpdateToken, AnswerToken, CallsOK
    <3> QED  BY <1>1, <1>2, <3>1, Requests DEF Call, NoCall
  <2>4. NoNewClaims
    BY <2>1, <2>2, <2>3 DEF NoNewClaims
  <2> QED  BY <1>10, <2>4, ClaimsStay DEF UpdateToken
<1>11. CASE Verify(d, i)
  <2>1. PICK at \in Ats : Answer(d, i, at)
    BY <1>11 DEF Verify, Ats
  <2>2. ~Submitted(c)
    BY <1>11 DEF Verify, Submitted
  <2>3. NoNewClaims
    BY <1>1, <1>2, <1>5, <2>1, <2>2, AnswerClaims
  <2> QED  BY <1>11, <2>3, ClaimsStay DEF Verify, store
<1> QED  BY <1>7, <1>8, <1>9, <1>10, <1>11 DEF Serve

\* Outside of the server a request is only asked, dropped or broken off.
LEMMA OtherClaims ==
    ASSUME TypeOK, [Next]_vars
    PROVE  \/ \E d \in Devices, i \in Calls : Serve(d, i)
           \/ UNCHANGED store /\ NoNewClaims
<1>1. CallsOK /\ StorageOK
  BY TypeParts
<1>2. UNCHANGED calls => NoNewClaims
  BY DEF NoNewClaims
<1>3. ASSUME NEW d \in Devices, NEW i \in Calls, FailCall(d, i) PROVE UNCHANGED store /\ NoNewClaims
  <2>1. PICK at \in {"no", "broken"} : Answer(d, i, at)
    BY <1>3 DEF FailCall
  <2>2. calls[d][i] \in Call /\ calls[d][i] # NoCall
    BY <1>1, <1>3 DEF FailCall, CallsOK
  <2>3. ~Claims([calls[d][i] EXCEPT !.at = at])
    BY <2>2 DEF Claims, Call, NoCall
  <2> QED  BY <1>1, <1>3, <2>1, <2>2, <2>3, AnswerClaims DEF FailCall, Ats
<1>4. ASSUME NEW d \in Devices, NEW i \in Calls, Drop(d, i) PROVE NoNewClaims
  BY <1>1, <1>4, ClaimTypes DEF Drop, NoNewClaims, CallsOK
<1>5. ASSUME NEW d \in Devices, NEW c \in Call, c.at = "query", Ask(d, c) PROVE NoNewClaims
  <2>1. ~Claims(c)
    BY <1>5 DEF Claims
  <2> QED  BY <1>1, <1>5, <2>1 DEF Ask, NoNewClaims, CallsOK
<1>6. ASSUME NEW d \in Devices, Submit(d) PROVE NoNewClaims
  <2>1. PICK op \in {"register", "login"}, n \in Names, q \in Passwords, r \in BOOLEAN :
          Ask(d, [op |-> op, name |-> n, password |-> q, token |-> 0, remember |-> r,
                  heard |-> TRUE, at |-> "query"])
    BY <1>6 DEF Submit
  <2>2. [op |-> op, name |-> n, password |-> q, token |-> 0, remember |-> r,
         heard |-> TRUE, at |-> "query"] \in Call
    BY NoOneIsNobody DEF Call, Tokens, Submitted
  <2> QED  BY <1>5, <2>1, <2>2
<1>7. ASSUME NEW d \in Devices, ClickSaved(d) PROVE NoNewClaims
  <2>1. PICK n \in Names : Ask(d, Asked("verify", [name |-> n, token |-> page[d].list[n]]))
    BY <1>7 DEF ClickSaved
  <2>2. page[d].list[n] \in Nat
    BY TypeParts, PageTypes DEF PageOK, Tokens
  <2>3. /\ Asked("verify", [name |-> n, token |-> page[d].list[n]]) \in Call
        /\ Asked("verify", [name |-> n, token |-> page[d].list[n]]).at = "query"
    BY <2>2, Accounting, AskedTypes
  <2> QED  BY <1>5, <2>1, <2>3
<1>8. ASSUME NEW d \in Devices, Reload(d) PROVE NoNewClaims
  <2> DEFINE rest == [i \in Calls |-> IF Submitted(calls[d][i])
                                      THEN [calls[d][i] EXCEPT !.heard = FALSE] ELSE NoCall]
  <2>1. active[d] \in Account
    BY <1>1 DEF StorageOK
  <2>2. calls' = [calls EXCEPT ![d] = FirstCall(rest, active[d])]
    BY <1>8 DEF Reload
  <2>3. \A i \in Calls : \/ FirstCall(rest, active[d])[i] = rest[i]
                         \/ active[d] # Nobody /\ FirstCall(rest, active[d])[i] = Asked("boot", active[d])
    BY DEF FirstCall
  <2>4. active[d] # Nobody => ~Claims(Asked("boot", active[d]))
    BY <2>1, AskedTypes DEF Claims
  <2>5. ASSUME NEW i \in Calls, Claims(rest[i])
        PROVE  /\ Claims(calls[d][i]) /\ rest[i].name = calls[d][i].name
               /\ rest[i].password = calls[d][i].password
    <3>1. Submitted(calls[d][i])
      BY <2>5, ClaimTypes
    <3>2. calls[d][i] \in Call /\ calls[d][i] # NoCall
      BY <1>1, <3>1, Requests DEF CallsOK
    <3>3. rest[i] = [calls[d][i] EXCEPT !.heard = FALSE]
      BY <3>1
    <3> QED  BY <2>5, <3>2, <3>3 DEF Claims, Submitted, Call, NoCall
  <2> HIDE DEF rest
  <2>6. \A e \in Devices, j \in Calls :
          calls'[e][j] = IF e = d THEN FirstCall(rest, active[d])[j] ELSE calls[e][j]
    BY <1>1, <2>2 DEF CallsOK
  <2> QED  BY <2>3, <2>4, <2>5, <2>6 DEF NoNewClaims
<1>9. ASSUME Crash PROVE NoNewClaims
  <2>1. ASSUME NEW d \in Devices, NEW i \in Calls, Claims(calls'[d][i])
        PROVE  calls'[d][i] = calls[d][i]
    <3>1. calls'[d][i] = IF calls[d][i] # NoCall /\ calls[d][i].at \in {"query", "write"}
                         THEN [calls[d][i] EXCEPT !.at = "broken"] ELSE calls[d][i]
      BY <1>9 DEF Crash
    <3>2. calls[d][i] \in Call
      BY <1>1 DEF CallsOK
    <3> QED  BY <2>1, <3>1, <3>2 DEF Claims, Call, NoCall
  <2> QED  BY <2>1 DEF NoNewClaims
<1>10. ASSUME NEW d \in Devices, NEW i \in Calls, DropUnheard(d, i) \/ Hear(d, i)
       PROVE  UNCHANGED store /\ NoNewClaims
  BY <1>4, <1>10 DEF DropUnheard, Hear, Heard
<1>11. ASSUME NEW d \in Devices,
              \/ BackToSaved(d) \/ RemoveSaved(d) \/ Logout(d) \/ Retry(d)
              \/ \E k \in Lines : Work(d, k) \/ LoseLine(d, k)
       PROVE  UNCHANGED <<store, calls>>
  BY <1>11 DEF BackToSaved, RemoveSaved, Logout, Retry, Work, LoseLine
<1>12. ASSUME NEW d \in Devices, Submit(d) \/ ClickSaved(d) \/ Reload(d)
       PROVE  UNCHANGED store
  BY <1>12 DEF Submit, ClickSaved, Reload
<1>13. UNCHANGED vars => UNCHANGED <<store, calls>>
  BY DEF vars
<1>14. Crash => UNCHANGED store
  BY DEF Crash
<1> QED  BY <1>2, <1>3, <1>6, <1>7, <1>8, <1>9, <1>10, <1>11, <1>12, <1>13, <1>14 DEF Next

LEMMA OwnersStep ==
    ASSUME TypeOK, OwnersGetIn, [Next]_vars
    PROVE  OwnersGetIn'
<1>1. CASE \E d \in Devices, i \in Calls : Serve(d, i)
  BY <1>1, ServeClaims
<1>2. CASE UNCHANGED store /\ NoNewClaims
  BY <1>2, ClaimsStay DEF store
<1> QED  BY <1>1, <1>2, OtherClaims

LEMMA OwnersAtFirst == ASSUME Init PROVE OwnersGetIn
<1>1. StorageOK
  BY InitTypes, TypeParts
<1>2. \A d \in Devices : calls[d] = FirstCall([i \in Calls |-> NoCall], active[d]) /\ active[d] \in Account
  BY <1>1 DEF Init, StorageOK
<1>3. \A d \in Devices, i \in Calls :
        \/ calls[d][i] = NoCall
        \/ active[d] # Nobody /\ calls[d][i] = Asked("boot", active[d])
  BY <1>2 DEF FirstCall
<1>4. \A d \in Devices, i \in Calls : ~Claims(calls[d][i])
  <2>1. \A a \in Account : a # Nobody => ~Claims(Asked("boot", a))
    BY AskedTypes DEF Claims
  <2> QED  BY <1>2, <1>3, <2>1, ClaimTypes
<1> QED  BY <1>4, ClaimParts

\* Passwords open their own account: of two registrations of a name that cross
\* only one is told yes (db.rs:187).
THEOREM PasswordsOpenTheirs == Spec => []OwnersGetIn
<1>1. Init => TypeOK /\ OwnersGetIn
  BY InitTypes, OwnersAtFirst
<1>2. TypeOK /\ OwnersGetIn /\ [Next]_vars => (TypeOK /\ OwnersGetIn)'
  BY NextTypes, OwnersStep
<1> QED  BY <1>1, <1>2, PTL DEF Spec
-----------------------------------------------------------------------------
\* Tokens.

\* Wherever a device has a token of a name, of now or of before.
Has(d, n, t) ==
    \/ saved[d][n] = t
    \/ active[d] = [name |-> n, token |-> t]
    \/ page[d].token = [name |-> n, token |-> t]
    \/ page[d].list[n] = t
    \/ \E i \in Calls : calls[d][i] # NoCall /\ calls[d][i].name = n /\ calls[d][i].token = t

\* Tokens are given out one after the other, each to one device, and only of
\* names with a row.
TokensIssued ==
    /\ \A n \in Names : password[n] = NoOne <=> current[n] = 0
    /\ \A d \in Devices, n \in Names, t \in Nat \ {0} : Has(d, n, t) => t <= current[n]
    /\ \A d, e \in Devices, n \in Names, t \in Nat \ {0} : Has(d, n, t) /\ Has(e, n, t) => d = e

\* A token that a device has after a step, and had before.
Had(d, n, t) == t # 0 => Has(d, n, t)

CallsHad == \A d \in Devices, i \in Calls :
    calls'[d][i] # NoCall => Had(d, calls'[d][i].name, calls'[d][i].token)
StorageHad == \A d \in Devices :
    /\ \A n \in Names : Had(d, n, saved'[d][n])
    /\ active'[d] # Nobody => Had(d, active'[d].name, active'[d].token)
PagesHad == \A d \in Devices :
    /\ page'[d].token # Nobody => Had(d, page'[d].token.name, page'[d].token.token)
    /\ \A n \in Names : Had(d, n, page'[d].list[n])

NoToken == \A d \in Devices, n \in Names, t \in Nat \ {0} : Has(d, n, t)' => Has(d, n, t)

LEMMA NothingNew ==
    ASSUME CallsHad, StorageHad, PagesHad
    PROVE  NoToken
<1> SUFFICES ASSUME NEW d \in Devices, NEW n \in Names, NEW t \in Nat \ {0}, Has(d, n, t)'
             PROVE  Has(d, n, t)
  BY DEF NoToken
<1>1. [name |-> n, token |-> t] # Nobody
  BY Accounting
<1>2. CASE saved'[d][n] = t
  BY <1>2 DEF StorageHad, Had
<1>3. CASE active'[d] = [name |-> n, token |-> t]
  BY <1>1, <1>3 DEF StorageHad, Had
<1>4. CASE page'[d].token = [name |-> n, token |-> t]
  BY <1>1, <1>4 DEF PagesHad, Had
<1>5. CASE page'[d].list[n] = t
  BY <1>5 DEF PagesHad, Had
<1>6. CASE \E i \in Calls : calls'[d][i] # NoCall /\ calls'[d][i].name = n /\ calls'[d][i].token = t
  BY <1>6 DEF CallsHad, Had
<1> QED  BY <1>2, <1>3, <1>4, <1>5, <1>6 DEF Has

LEMMA HadNow ==
    ASSUME TypeOK, NEW d \in Devices
    PROVE  /\ \A n \in Names : Had(d, n, saved[d][n]) /\ Had(d, n, page[d].list[n])
           /\ active[d] # Nobody => Had(d, active[d].name, active[d].token)
           /\ page[d].token # Nobody => Had(d, page[d].token.name, page[d].token.token)
           /\ \A i \in Calls : calls[d][i] # NoCall => Had(d, calls[d][i].name, calls[d][i].token)
<1>1. active[d] \in Account /\ page[d].token \in Account
  BY TypeParts, PageTypes DEF StorageOK, PageOK
<1>2. active[d] # Nobody => active[d] = [name |-> active[d].name, token |-> active[d].token]
  BY <1>1, Accounting
<1>3. page[d].token # Nobody => page[d].token = [name |-> page[d].token.name, token |-> page[d].token.token]
  BY <1>1, Accounting
<1> QED  BY <1>2, <1>3 DEF Had, Has

LEMMA UnchangedHad ==
    ASSUME TypeOK
    PROVE  /\ UNCHANGED calls => CallsHad
           /\ UNCHANGED storage => StorageHad
           /\ UNCHANGED page => PagesHad
<1>1. UNCHANGED calls => CallsHad
  BY HadNow DEF CallsHad
<1>2. UNCHANGED storage => StorageHad
  BY HadNow DEF StorageHad, storage
<1>3. UNCHANGED page => PagesHad
  BY HadNow DEF PagesHad
<1> QED  BY <1>1, <1>2, <1>3

\* Answers that give out no token, and requests that are dropped.
LEMMA CallsEdited ==
    ASSUME TypeOK, NEW d \in Devices, NEW i \in Calls, calls[d][i] # NoCall
    PROVE  /\ \A at : Answer(d, i, at) => CallsHad
           /\ Drop(d, i) => CallsHad
<1> DEFINE c == calls[d][i]
<1>1. CallsOK /\ c \in Call
  BY TypeParts DEF CallsOK
<1>2. ASSUME NEW at, Answer(d, i, at) PROVE CallsHad
  <2>1. [c EXCEPT !.at = at].name = c.name /\ [c EXCEPT !.at = at].token = c.token
    BY <1>1, Requests DEF Call, NoCall
  <2>2. \A e \in Devices, j \in Calls :
          calls'[e][j] = IF e = d /\ j = i THEN [c EXCEPT !.at = at] ELSE calls[e][j]
    BY <1>1, <1>2 DEF Answer, CallsOK
  <2> QED  BY <2>1, <2>2, HadNow DEF CallsHad
<1>3. ASSUME Drop(d, i) PROVE CallsHad
  BY <1>1, <1>3, HadNow DEF Drop, CallsHad, CallsOK
<1> QED  BY <1>2, <1>3

LEMMA CallAsked ==
    ASSUME TypeOK, NEW d \in Devices, NEW c \in Call, Had(d, c.name, c.token), Ask(d, c)
    PROVE  CallsHad
<1>1. CallsOK
  BY TypeParts
<1> QED  BY <1>1, HadNow DEF Ask, CallsHad, CallsOK

LEMMA StorageEdited ==
    ASSUME TypeOK, NEW d \in Devices
    PROVE  /\ \A n \in Names, t \in Nat : Had(d, n, t) /\ SaveAndActivate(d, n, t) => StorageHad
           /\ \A n \in Names : Forget(d, n) => StorageHad
           /\ active' = [active EXCEPT ![d] = Nobody] /\ UNCHANGED saved => StorageHad
<1>1. StorageOK
  BY TypeParts
<1>2. ASSUME NEW n \in Names, NEW t \in Nat, Had(d, n, t), SaveAndActivate(d, n, t) PROVE StorageHad
  <2>1. \A e \in Devices, m \in Names : saved'[e][m] = IF e = d /\ m = n THEN t ELSE saved[e][m]
    BY <1>1, <1>2 DEF SaveAndActivate, StorageOK
  <2>2. \A e \in Devices : active'[e] = IF e = d THEN [name |-> n, token |-> t] ELSE active[e]
    BY <1>1, <1>2 DEF SaveAndActivate, StorageOK
  <2> QED  BY <1>2, <2>1, <2>2, HadNow DEF StorageHad
<1>3. ASSUME NEW n \in Names, Forget(d, n) PROVE StorageHad
  <2>1. \A e \in Devices, m \in Names : saved'[e][m] = IF e = d /\ m = n THEN 0 ELSE saved[e][m]
    BY <1>1, <1>3 DEF Forget, StorageOK
  <2>2. \A e \in Devices : active'[e] = Nobody \/ active'[e] = active[e]
    BY <1>1, <1>3 DEF Forget, StorageOK
  <2>3. \A e \in Devices, m \in Names : Had(e, m, 0)
    BY DEF Had
  <2> QED  BY <2>1, <2>2, <2>3, HadNow DEF StorageHad
<1>4. ASSUME active' = [active EXCEPT ![d] = Nobody], UNCHANGED saved PROVE StorageHad
  <2>1. \A e \in Devices : active'[e] = Nobody \/ active'[e] = active[e]
    BY <1>1, <1>4 DEF StorageOK
  <2> QED  BY <1>4, <2>1, HadNow DEF StorageHad
<1> QED  BY <1>2, <1>3, <1>4

LEMMA PageEdited ==
    ASSUME TypeOK, NEW d \in Devices
    PROVE  /\ \A n : \A a \in Account :
                (a # Nobody => Had(d, a.name, a.token)) /\ Connect(d, n, a) => PagesHad
           /\ \A list : (\A m \in Names : Had(d, m, list[m])) /\ ShowLogin(d, list) => PagesHad
           /\ \A list : (\A m \in Names : Had(d, m, list[m]))
                          /\ page' = [page EXCEPT ![d].list = list] => PagesHad
           /\ \A g : g.token = Nobody /\ (\A m \in Names : Had(d, m, g.list[m]))
                       /\ page' = [page EXCEPT ![d] = g] => PagesHad
           /\ \A g : g.token = page[d].token /\ g.list = page[d].list
                       /\ page' = [page EXCEPT ![d] = g] => PagesHad
<1>1. page \in [Devices -> Page] /\ page[d] \in Page
  BY TypeParts DEF PageOK
<1>2. ASSUME NEW g, page' = [page EXCEPT ![d] = g],
             g.token # Nobody => Had(d, g.token.name, g.token.token),
             \A m \in Names : Had(d, m, g.list[m])
      PROVE  PagesHad
  <2>1. \A e \in Devices : page'[e] = IF e = d THEN g ELSE page[e]
    BY <1>1, <1>2
  <2> QED  BY <1>2, <2>1, HadNow DEF PagesHad
<1>3. ASSUME NEW n, NEW a \in Account, a # Nobody => Had(d, a.name, a.token), Connect(d, n, a)
      PROVE  PagesHad
  <2>1. PICK k : page' = [page EXCEPT ![d] = [@ EXCEPT !.me = n, !.token = a, !.line = k, !.retry = FALSE]]
    BY <1>3 DEF Connect
  <2> DEFINE g == [page[d] EXCEPT !.me = n, !.token = a, !.line = k, !.retry = FALSE]
  <2>2. g.token = a /\ g.list = page[d].list
    BY <1>1 DEF Page
  <2>3. page' = [page EXCEPT ![d] = g]
    BY <2>1
  <2> HIDE DEF g
  <2> QED  BY <1>2, <1>3, <2>2, <2>3, HadNow
<1>4. ASSUME NEW list, \A m \in Names : Had(d, m, list[m]), ShowLogin(d, list) PROVE PagesHad
  <2> DEFINE g == [page[d] EXCEPT !.screen = "login", !.me = NoOne, !.token = Nobody, !.line = 0,
                                  !.list = list]
  <2>1. g.token = Nobody /\ g.list = list
    BY <1>1 DEF Page
  <2>2. page' = [page EXCEPT ![d] = g]
    BY <1>4 DEF ShowLogin
  <2> HIDE DEF g
  <2> QED  BY <1>2, <1>4, <2>1, <2>2
<1>5. ASSUME NEW list, \A m \in Names : Had(d, m, list[m]), page' = [page EXCEPT ![d].list = list]
      PROVE  PagesHad
  <2> DEFINE g == [page[d] EXCEPT !.list = list]
  <2>1. g.token = page[d].token /\ g.list = list
    BY <1>1 DEF Page
  <2>2. page' = [page EXCEPT ![d] = g]
    BY <1>5
  <2> HIDE DEF g
  <2> QED  BY <1>2, <1>5, <2>1, <2>2, HadNow
<1>6. ASSUME NEW g, g.token = Nobody, \A m \in Names : Had(d, m, g.list[m]), page' = [page EXCEPT ![d] = g]
      PROVE  PagesHad
  BY <1>2, <1>6
<1>7. ASSUME NEW g, g.token = page[d].token, g.list = page[d].list, page' = [page EXCEPT ![d] = g]
      PROVE  PagesHad
  BY <1>2, <1>7, HadNow
<1> QED  BY <1>3, <1>4, <1>5, <1>6, <1>7

LEMMA HearGivesNone ==
    ASSUME TypeOK, NEW d \in Devices, NEW i \in Calls, Hear(d, i)
    PROVE  UNCHANGED store /\ CallsHad /\ StorageHad /\ PagesHad
<1> DEFINE c == calls[d][i]
           a == [name |-> c.name, token |-> c.token]
<1>1. c \in Call /\ c # NoCall
  BY TypeParts DEF CallsOK, Hear, Heard
<1>2. c.name \in Names /\ c.token \in Nat /\ a \in Account /\ Had(d, a.name, a.token)
  BY <1>1, Requests, Accounting, HadNow DEF Tokens
<1>3. CallsHad /\ UNCHANGED store
  BY <1>1, CallsEdited DEF Hear, Heard
<1>4. Connect(d, c.name, a) => PagesHad
  BY <1>2, PageEdited
<1>5. /\ SaveAndActivate(d, c.name, c.token) => StorageHad
      /\ Forget(d, c.name) => StorageHad
      /\ active' = [active EXCEPT ![d] = Nobody] /\ UNCHANGED saved => StorageHad
  BY <1>2, StorageEdited
<1>6. ShowLogin(d, saved[d]) => PagesHad
  BY PageEdited, HadNow
<1>7. StorageHad /\ ShowLogin(d, saved'[d]) => PagesHad
  BY PageEdited DEF StorageHad
<1>8. UNCHANGED <<storage, page, lines>> => StorageHad /\ PagesHad
  BY UnchangedHad
<1>9. UNCHANGED storage => StorageHad
  BY UnchangedHad
<1>10. CASE HearSubmit(d, i)
  BY <1>3, <1>4, <1>5, <1>8, <1>10 DEF HearSubmit
<1>11. CASE HearVerify(d, i)
  BY <1>3, <1>4, <1>5, <1>7, <1>8, <1>11 DEF HearVerify
<1>12. CASE HearBoot(d, i)
  BY <1>3, <1>4, <1>5, <1>6, <1>9, <1>12 DEF HearBoot
<1> QED  BY <1>10, <1>11, <1>12 DEF Hear

LEMMA UserGivesNone ==
    ASSUME TypeOK, NEW d \in Devices,
           Submit(d) \/ ClickSaved(d) \/ BackToSaved(d) \/ RemoveSaved(d) \/ Logout(d) \/ Reload(d)
    PROVE  UNCHANGED store /\ CallsHad /\ StorageHad /\ PagesHad
<1>1. /\ UNCHANGED calls => CallsHad
      /\ UNCHANGED storage => StorageHad
      /\ UNCHANGED page => PagesHad
  BY UnchangedHad
<1>2. ASSUME Submit(d) PROVE CallsHad
  <2>1. PICK op \in {"register", "login"}, n \in Names, q \in Passwords, r \in BOOLEAN :
          Ask(d, [op |-> op, name |-> n, password |-> q, token |-> 0, remember |-> r,
                  heard |-> TRUE, at |-> "query"])
    BY <1>2 DEF Submit
  <2> DEFINE c == [op |-> op, name |-> n, password |-> q, token |-> 0, remember |-> r,
                   heard |-> TRUE, at |-> "query"]
  <2>2. c \in Call /\ Had(d, c.name, c.token)
    BY NoOneIsNobody DEF Call, Tokens, Submitted, Had
  <2> HIDE DEF c
  <2> QED  BY <2>1, <2>2, CallAsked DEF c
<1>3. ASSUME ClickSaved(d) PROVE CallsHad
  <2>1. PICK n \in Names : Ask(d, Asked("verify", [name |-> n, token |-> page[d].list[n]]))
    BY <1>3 DEF ClickSaved
  <2> DEFINE c == Asked("verify", [name |-> n, token |-> page[d].list[n]])
  <2>2. page[d].list[n] \in Nat
    BY TypeParts, PageTypes DEF PageOK, Tokens
  <2>3. c \in Call /\ c.name = n /\ c.token = page[d].list[n]
    BY <2>2, Accounting, AskedTypes
  <2> HIDE DEF c
  <2> QED  BY <2>1, <2>3, CallAsked, HadNow DEF c
<1>4. ASSUME RemoveSaved(d) PROVE StorageHad /\ PagesHad
  <2>1. StorageHad
    BY <1>4, StorageEdited DEF RemoveSaved
  <2>2. page' = [page EXCEPT ![d].list = saved'[d]]
    BY <1>4 DEF RemoveSaved
  <2> QED  BY <2>1, <2>2, PageEdited DEF StorageHad
<1>5. ASSUME Reload(d) PROVE CallsHad /\ PagesHad
  <2> DEFINE rest == [i \in Calls |-> IF Submitted(calls[d][i])
                                      THEN [calls[d][i] EXCEPT !.heard = FALSE] ELSE NoCall]
             g == FirstPage(d, active[d])
  <2>1. active[d] \in Account /\ CallsOK
    BY TypeParts DEF StorageOK
  <2>2. calls' = [calls EXCEPT ![d] = FirstCall(rest, active[d])]
    BY <1>5 DEF Reload
  <2>3. \A i \in Calls : \/ FirstCall(rest, active[d])[i] = rest[i]
                         \/ active[d] # Nobody /\ FirstCall(rest, active[d])[i] = Asked("boot", active[d])
    BY DEF FirstCall
  <2>4. active[d] # Nobody => /\ Asked("boot", active[d]).name = active[d].name
                              /\ Asked("boot", active[d]).token = active[d].token
    BY <2>1, AskedTypes
  <2>5. ASSUME NEW i \in Calls, rest[i] # NoCall
        PROVE  Had(d, rest[i].name, rest[i].token)
    <3>1. Submitted(calls[d][i]) /\ rest[i] = [calls[d][i] EXCEPT !.heard = FALSE]
      BY <2>5
    <3>2. calls[d][i] \in Call /\ calls[d][i] # NoCall
      BY <2>1, <3>1, Requests DEF CallsOK
    <3>3. rest[i].name = calls[d][i].name /\ rest[i].token = calls[d][i].token
      BY <3>1, <3>2 DEF Call, NoCall
    <3> QED  BY <3>2, <3>3, HadNow
  <2> HIDE DEF rest
  <2>6. \A e \in Devices, j \in Calls :
          calls'[e][j] = IF e = d THEN FirstCall(rest, active[d])[j] ELSE calls[e][j]
    BY <2>1, <2>2 DEF CallsOK
  <2>7. CallsHad
    BY <2>3, <2>4, <2>5, <2>6, HadNow DEF CallsHad
  <2>8. g.token = Nobody /\ \A m \in Names : Had(d, m, g.list[m])
    BY HadNow DEF FirstPage, Had
  <2>9. page' = [page EXCEPT ![d] = g]
    BY <1>5 DEF Reload
  <2> HIDE DEF g
  <2>10. PagesHad
    BY <2>8, <2>9, PageEdited
  <2> QED  BY <2>7, <2>10
<1>6. ASSUME Logout(d) PROVE StorageHad /\ PagesHad
  BY <1>6, StorageEdited, PageEdited, HadNow DEF Logout
<1>7. ASSUME BackToSaved(d) PROVE PagesHad
  BY <1>7, PageEdited, HadNow DEF BackToSaved
<1> QED  BY <1>1, <1>2, <1>3, <1>4, <1>5, <1>6, <1>7
         DEF Submit, ClickSaved, BackToSaved, RemoveSaved, Logout, Reload

LEMMA ConnectionGivesNone ==
    ASSUME TypeOK, NEW d \in Devices, Retry(d) \/ \E k \in Lines : Work(d, k) \/ LoseLine(d, k)
    PROVE  UNCHANGED store /\ CallsHad /\ StorageHad /\ PagesHad
<1>1. /\ UNCHANGED calls => CallsHad
      /\ UNCHANGED storage => StorageHad
      /\ UNCHANGED page => PagesHad
  BY UnchangedHad
<1>2. page[d] \in Page /\ page[d].token \in Account
  BY TypeParts, PageTypes DEF PageOK
<1>3. page' = [page EXCEPT ![d].retry = TRUE] \/ page' = [page EXCEPT ![d].retry = FALSE] => PagesHad
  <2>1. ASSUME NEW r \in BOOLEAN, page' = [page EXCEPT ![d].retry = r] PROVE PagesHad
    <3> DEFINE g == [page[d] EXCEPT !.retry = r]
    <3>1. g.token = page[d].token /\ g.list = page[d].list
      BY <1>2 DEF Page
    <3>2. page' = [page EXCEPT ![d] = g]
      BY <2>1
    <3> HIDE DEF g
    <3> QED  BY <3>1, <3>2, PageEdited
  <2> QED  BY <2>1
<1>4. ASSUME NEW k \in Lines, OnClose(d, k) PROVE PagesHad
  BY <1>1, <1>3, <1>4 DEF OnClose
<1>5. ASSUME NEW k \in Lines, Welcome(d, k) PROVE PagesHad
  <2> DEFINE g == [page[d] EXCEPT !.me = lines[d][k].name, !.screen = "app"]
  <2>1. g.token = page[d].token /\ g.list = page[d].list
    BY <1>2 DEF Page
  <2>2. page' = [page EXCEPT ![d] = g]
    BY <1>5 DEF Welcome
  <2> HIDE DEF g
  <2> QED  BY <2>1, <2>2, PageEdited
<1>6. ASSUME NEW k \in Lines, Work(d, k)
      PROVE  UNCHANGED <<store, calls, storage>> /\ PagesHad
  BY <1>1, <1>4, <1>5, <1>6 DEF Work, VerifyLine, EnterHub, SeeEnd, EndSession
<1>7. ASSUME NEW k \in Lines, LoseLine(d, k)
      PROVE  UNCHANGED <<store, calls, storage>> /\ PagesHad
  BY <1>4, <1>7 DEF LoseLine
<1>8. ASSUME Retry(d)
      PROVE  UNCHANGED <<store, calls, storage>> /\ PagesHad
  <2>1. Connect(d, page[d].me, page[d].token) => PagesHad
    BY <1>2, PageEdited, HadNow
  <2> QED  BY <1>3, <1>8, <2>1 DEF Retry
<1> QED  BY <1>1, <1>6, <1>7, <1>8

LEMMA CrashGivesNone ==
    ASSUME TypeOK, Crash
    PROVE  UNCHANGED store /\ CallsHad /\ StorageHad /\ PagesHad
<1>1. ASSUME NEW d \in Devices, NEW i \in Calls, calls'[d][i] # NoCall
      PROVE  Had(d, calls'[d][i].name, calls'[d][i].token)
  <2>1. calls'[d][i] = IF calls[d][i] # NoCall /\ calls[d][i].at \in {"query", "write"}
                       THEN [calls[d][i] EXCEPT !.at = "broken"] ELSE calls[d][i]
    BY DEF Crash
  <2>2. calls[d][i] # NoCall /\ calls[d][i] \in Call
    BY <1>1, <2>1, TypeParts DEF CallsOK
  <2>3. calls'[d][i].name = calls[d][i].name /\ calls'[d][i].token = calls[d][i].token
    BY <2>1, <2>2 DEF Call, NoCall
  <2> QED  BY <2>2, <2>3, HadNow
<1> QED  BY <1>1, UnchangedHad DEF Crash, CallsHad

\* Two steps of the server give out a token, the next one of its name.
Issues(d, i) ==
    LET c == calls[d][i] IN
    /\ c # NoCall /\ password'[c.name] # NoOne
    /\ current' = [current EXCEPT ![c.name] = @ + 1]
    /\ \A n \in Names \ {c.name} : password'[n] = password[n]
    /\ AnswerToken(d, i, current[c.name] + 1)
    /\ UNCHANGED <<storage, page>>

LEMMA ServeIssues ==
    ASSUME TypeOK, OwnersGetIn, TokensIssued, NEW d \in Devices, NEW i \in Calls, Serve(d, i)
    PROVE  \/ Issues(d, i)
           \/ UNCHANGED store /\ CallsHad /\ StorageHad /\ PagesHad
<1> DEFINE c == calls[d][i]
<1>1. c \in Call /\ StoreOK
  BY TypeParts DEF CallsOK
<1>2. c # NoCall
  BY DEF Serve, FindName, InsertUser, CheckPassword, UpdateToken, Verify, NoCall
<1>3. c.name \in Names /\ (Submitted(c) => c.password \in Passwords)
  BY <1>1, <1>2, Requests
<1>4. StorageHad /\ PagesHad /\ UNCHANGED <<storage, page>>
  BY UnchangedHad DEF Serve
<1>5. \A at : Answer(d, i, at) => CallsHad
  BY <1>2, CallsEdited
<1>6. CASE InsertUser(d, i)
  <2>1. CASE Answer(d, i, "no") /\ UNCHANGED store
    BY <1>4, <1>5, <2>1
  <2>2. CASE /\ password[c.name] = NoOne
             /\ password' = [password EXCEPT ![c.name] = c.password]
             /\ current' = [current EXCEPT ![c.name] = 1]
             /\ AnswerToken(d, i, 1)
    <3>1. c.password \in Passwords
      BY <1>3, <1>6 DEF InsertUser, Submitted
    <3>2. current[c.name] = 0
      BY <1>3, <2>2 DEF TokensIssued
    <3>3. password'[c.name] # NoOne
      BY <1>1, <1>3, <2>2, <3>1, NoOneIsNobody DEF StoreOK
    <3>4. \A n \in Names \ {c.name} : password'[n] = password[n]
      BY <1>1, <2>2 DEF StoreOK
    <3>5. /\ current' = [current EXCEPT ![c.name] = current[c.name] + 1]
          /\ AnswerToken(d, i, current[c.name] + 1)
      BY <2>2, <3>2
    <3> QED  BY <1>2, <1>4, <3>3, <3>4, <3>5 DEF Issues
  <2> QED  BY <1>6, <2>1, <2>2 DEF InsertUser
<1>7. CASE UpdateToken(d, i)
  <2>1. password[c.name] = c.password /\ c.password \in Passwords
    BY <1>3, <1>7, ClaimParts DEF UpdateToken, Claims, Submitted
  <2> QED  BY <1>2, <1>4, <1>7, <2>1, NoOneIsNobody DEF UpdateToken, Issues
<1>8. CASE FindName(d, i) \/ CheckPassword(d, i) \/ Verify(d, i)
  BY <1>4, <1>5, <1>8 DEF FindName, CheckPassword, Verify
<1> QED  BY <1>6, <1>7, <1>8 DEF Serve

LEMMA TokenSteps ==
    ASSUME TypeOK, OwnersGetIn, TokensIssued, [Next]_vars
    PROVE  \/ \E d \in Devices, i \in Calls : Issues(d, i)
           \/ UNCHANGED store /\ NoToken
<1>1. ASSUME NEW d \in Devices, NEW i \in Calls, FailCall(d, i) \/ DropUnheard(d, i)
      PROVE  UNCHANGED store /\ CallsHad /\ StorageHad /\ PagesHad
  <2>1. calls[d][i] # NoCall /\ (Drop(d, i) \/ \E at : Answer(d, i, at))
    BY <1>1 DEF FailCall, DropUnheard
  <2> QED  BY <1>1, <2>1, CallsEdited, UnchangedHad DEF FailCall, DropUnheard
<1>2. ASSUME UNCHANGED vars
      PROVE  UNCHANGED store /\ CallsHad /\ StorageHad /\ PagesHad
  BY <1>2, UnchangedHad DEF vars
<1>3. \/ \E d \in Devices, i \in Calls : Issues(d, i)
      \/ UNCHANGED store /\ CallsHad /\ StorageHad /\ PagesHad
  BY <1>1, <1>2, ServeIssues, HearGivesNone, UserGivesNone, ConnectionGivesNone, CrashGivesNone DEF Next
<1> QED  BY <1>3, NothingNew

LEMMA IssuedStep ==
    ASSUME TypeOK, TokensIssued, NEW d \in Devices, NEW i \in Calls, Issues(d, i)
    PROVE  TokensIssued'
<1> DEFINE c == calls[d][i]
           t == current[c.name] + 1
<1>1. /\ c \in Call /\ c # NoCall /\ CallsOK /\ StoreOK
      /\ AnswerToken(d, i, t)
  BY TypeParts DEF CallsOK, Issues
<1>2. c.name \in Names /\ current \in [Names -> Nat] /\ t \in Nat \ {0}
  BY <1>1, Requests DEF StoreOK, Tokens
<1>3. \A n \in Names : current'[n] = IF n = c.name THEN t ELSE current[n]
  BY <1>2 DEF Issues
<1>4. \A e \in Devices, j \in Calls : (e = d /\ j = i) \/ calls'[e][j] = calls[e][j]
  BY <1>1 DEF AnswerToken, CallsOK
<1>5. calls'[d][i].name = c.name /\ calls'[d][i].token = t
  <2>1. calls'[d][i] = [c EXCEPT !.at = "yes", !.token = t]
    BY <1>1 DEF AnswerToken, CallsOK
  <2> QED  BY <1>1, <2>1 DEF Call, NoCall
<1>6. ASSUME NEW e \in Devices, NEW n \in Names, NEW u \in Nat \ {0}, Has(e, n, u)'
      PROVE  \/ Has(e, n, u)
             \/ e = d /\ n = c.name /\ u = t
  <2>1. ASSUME NEW j \in Calls, calls'[e][j] # NoCall, calls'[e][j].name = n, calls'[e][j].token = u
        PROVE  \/ Has(e, n, u)
               \/ e = d /\ n = c.name /\ u = t
    <3>1. CASE e = d /\ j = i
      BY <1>5, <2>1, <3>1
    <3>2. CASE calls'[e][j] = calls[e][j]
      BY <2>1, <3>2 DEF Has
    <3> QED  BY <1>4, <3>1, <3>2
  <2>2. UNCHANGED <<saved, active, page>>
    BY DEF Issues, storage
  <2> QED  BY <1>6, <2>1, <2>2 DEF Has
<1>7. \A e \in Devices : ~Has(e, c.name, t)
  BY <1>2 DEF TokensIssued
<1>8. \A n \in Names : password'[n] = NoOne <=> current'[n] = 0
  BY <1>2, <1>3 DEF Issues, TokensIssued
<1>9. \A e \in Devices, n \in Names, u \in Nat \ {0} : Has(e, n, u)' => u <= current'[n]
  BY <1>2, <1>3, <1>6 DEF TokensIssued
<1>10. \A e, f \in Devices, n \in Names, u \in Nat \ {0} : Has(e, n, u)' /\ Has(f, n, u)' => e = f
  BY <1>6, <1>7 DEF TokensIssued
<1> QED  BY <1>8, <1>9, <1>10 DEF TokensIssued

LEMMA TokensStep ==
    ASSUME TypeOK, OwnersGetIn, TokensIssued, [Next]_vars
    PROVE  TokensIssued'
<1>1. CASE UNCHANGED store /\ NoToken
  BY <1>1 DEF store, NoToken, TokensIssued
<1> QED  BY <1>1, TokenSteps, IssuedStep

LEMMA TokensAtFirst == ASSUME Init PROVE TokensIssued
<1>1. PICK past \in Pasts :
        /\ password = [n \in Names |-> IF \E d \in Devices : <<d, n>> \in past
                                       THEN CHOOSE p \in Passwords : TRUE ELSE NoOne]
        /\ saved = [d \in Devices |-> [n \in Names |-> IF <<d, n>> \in past THEN 1 ELSE 0]]
        /\ active \in [Devices -> {[name |-> r[2], token |-> 1] : r \in past} \cup {Nobody}]
        /\ \A d \in Devices : active[d] # Nobody => <<d, active[d].name>> \in past
  BY DEF Init
<1>2. (CHOOSE p \in Passwords : TRUE) \in Passwords
  BY PasswordsExist
<1>3. \A n \in Names : password[n] # NoOne <=> (\E d \in Devices : <<d, n>> \in past)
  BY <1>1, <1>2, NoOneIsNobody DEF Init
<1>4. ASSUME NEW n \in Names
      PROVE  \/ password[n] = NoOne /\ current[n] = 0
             \/ password[n] # NoOne /\ current[n] = 1
  BY DEF Init
<1>5. ASSUME NEW d \in Devices, NEW n \in Names, NEW t \in Nat \ {0}, active[d] = [name |-> n, token |-> t]
      PROVE  t = 1 /\ <<d, n>> \in past
  <2>1. active[d] # Nobody
    BY <1>5, Accounting
  <2>2. PICK r \in past : active[d] = [name |-> r[2], token |-> 1]
    BY <1>1, <2>1
  <2>3. active[d].name = n /\ active[d].token = t
    BY <1>5
  <2> QED  BY <1>1, <2>1, <2>2, <2>3
<1>6. ASSUME NEW d \in Devices, NEW n \in Names, NEW t \in Nat \ {0}, Has(d, n, t)
      PROVE  t = 1 /\ <<d, n>> \in past
  <2>1. active[d] \in Account
    BY InitTypes, TypeParts DEF StorageOK
  <2>2. CASE saved[d][n] = t
    BY <1>1, <2>2
  <2>3. CASE active[d] = [name |-> n, token |-> t]
    BY <1>5, <2>3
  <2>4. CASE page[d].token = [name |-> n, token |-> t]
    <3>1. page[d].token = Nobody
      BY DEF Init, FirstPage
    <3> QED  BY <2>4, <3>1, Accounting
  <2>5. CASE page[d].list[n] = t
    <3>1. page[d].list[n] = saved[d][n] \/ page[d].list[n] = 0
      BY DEF Init, FirstPage
    <3> QED  BY <2>2, <2>5, <3>1
  <2>6. ASSUME NEW i \in Calls, calls[d][i] # NoCall, calls[d][i].name = n, calls[d][i].token = t
        PROVE  t = 1 /\ <<d, n>> \in past
    <3>1. active[d] # Nobody /\ calls[d][i] = Asked("boot", active[d])
      BY <2>6 DEF Init, FirstCall
    <3>2. active[d] = [name |-> n, token |-> t]
      BY <2>1, <2>6, <3>1, AskedTypes, Accounting
    <3> QED  BY <1>5, <3>2
  <2> QED  BY <1>6, <2>2, <2>3, <2>4, <2>5, <2>6 DEF Has
<1>7. \A d, e \in Devices, n \in Names : <<d, n>> \in past /\ <<e, n>> \in past => d = e
  <2>1. \A r, t \in past : r[2] = t[2] => r = t
    BY PastsAreTokens
  <2> QED  BY <2>1
<1>8. ASSUME NEW n \in Names
      PROVE  password[n] = NoOne <=> current[n] = 0
  <2>1. CASE password[n] = NoOne /\ current[n] = 0
    BY <2>1
  <2>2. CASE password[n] # NoOne /\ current[n] = 1
    BY <2>2
  <2> QED  BY <1>4, <2>1, <2>2
<1>9. ASSUME NEW d \in Devices, NEW n \in Names, NEW t \in Nat \ {0}, Has(d, n, t)
      PROVE  t <= current[n]
  <2>1. t = 1 /\ <<d, n>> \in past
    BY <1>6, <1>9
  <2>2. current[n] = 1
    BY <1>3, <1>4, <2>1
  <2> QED  BY <2>1, <2>2
<1>10. \A d, e \in Devices, n \in Names, t \in Nat \ {0} : Has(d, n, t) /\ Has(e, n, t) => d = e
  BY <1>6, <1>7
<1> QED  BY <1>8, <1>9, <1>10 DEF TokensIssued

LEMMA IssuedToOne ==
    ASSUME TypeOK, TokensIssued
    PROVE  OneDeviceHolds
<1> SUFFICES ASSUME NEW d \in Devices, NEW e \in Devices, NEW n \in Names,
                    password[n] # NoOne, Holds(d, n), Holds(e, n)
             PROVE  d = e
  BY DEF OneDeviceHolds
<1>1. current[n] \in Nat \ {0}
  BY DEF TypeOK, Tokens, TokensIssued
<1>2. Has(d, n, current[n]) /\ Has(e, n, current[n])
  BY DEF Holds, Has
<1> QED  BY <1>1, <1>2 DEF TokensIssued

\* A login signs every other device out: at most one device has a token of a
\* name that works, saved, on its page or in an answer to it (db.rs:218).
THEOREM OneDeviceAtATime == Spec => []OneDeviceHolds
<1>1. Init => TypeOK /\ OwnersGetIn /\ TokensIssued
  BY InitTypes, OwnersAtFirst, TokensAtFirst
<1>2. TypeOK /\ OwnersGetIn /\ TokensIssued /\ [Next]_vars => (TypeOK /\ OwnersGetIn /\ TokensIssued)'
  BY NextTypes, OwnersStep, TokensStep
<1> QED  BY <1>1, <1>2, IssuedToOne, PTL DEF Spec
=============================================================================
