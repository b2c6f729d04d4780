------------------------------ MODULE Accounts ------------------------------
(***************************************************************************)
(* Accounts and signing in: the users table and the requests that read and *)
(* write it (db.rs, lib.rs), what a device stores and what its page does   *)
(* with the answers (auth.ts, state.ts, main.ts), and the connections the  *)
(* page opens, loses and retries (socket.ts) until the hub has its name.   *)
(*                                                                         *)
(* A name has one token, the last one a request wrote; tokens are numbered *)
(* by name.  The order and the limit of the list of saved accounts, and    *)
(* pages of one device that share its storage, are left out.               *)
(***************************************************************************)
EXTENDS Naturals

CONSTANTS
    Names, Passwords, Devices,
    NoOne,          \* not a name
    Pasts,          \* sets of <<device, name>>: accounts there may be at first, and
                    \*   the device that has the token of each
    Calls, Lines,   \* bounds: requests, and connections, of a device at a time
    MaxActs,        \* bound: what the users do
    MaxFaults       \* bound: failing requests, lost connections, crashes

ASSUME NoOneIsNobody == NoOne \notin Names \cup Passwords
ASSUME PastsAreTokens ==
    \A past \in Pasts : past \subseteq Devices \X Names /\ \A r, t \in past : r[2] = t[2] => r = t
ASSUME PasswordsExist == Passwords # {}
ASSUME LinesAreNumbered == Calls \subseteq Nat /\ Lines \subseteq Nat \ {0}
ASSUME BoundsAreNatural == MaxActs \in Nat /\ MaxFaults \in Nat

VARIABLES
    password,   \* the users table: name -> its password, NoOne for no row
    current,    \*   and its token
    calls,      \* device -> request -> where it is
    saved,      \* device -> name -> its saved token, or 0
    active,     \* device -> the account to sign in with on start
    page,       \* device -> what its page shows and keeps
    lines,      \* device -> connection -> both of its ends
    online,     \* the hub: names with a session
    acts, faults

store == <<password, current>>
storage == <<saved, active>>
bounds == <<acts, faults>>
vars == <<store, calls, storage, page, lines, online, bounds>>

Tokens == Nat    \* 0 is none
Nobody == [name |-> NoOne, token |-> 0]
Account == [name: Names, token: Tokens] \cup {Nobody}

Submitted(c) == c.op \in {"register", "login"}

NoCall == [op |-> "none"]
Call == {c \in [op: {"register", "login", "verify", "boot"}, name: Names,
                password: Passwords \cup {NoOne}, token: Tokens, remember: BOOLEAN, heard: BOOLEAN,
                at: {"query", "write", "yes", "no", "broken"}] :
           Submitted(c) <=> c.password # NoOne} \cup {NoCall}

\* The token of a page need not be of the name it shows, see Welcome.
Page == [screen: {"login", "app"}, me: Names \cup {NoOne}, token: Account,
         line: Lines \cup {0}, retry: BOOLEAN, list: [Names -> Tokens]]

NoLine == [name |-> NoOne, token |-> Nobody, client |-> "closed", server |-> "none"]
Line == [name: Names, token: Account, client: {"closed", "connecting", "open"},
         server: {"none", "verifying", "entering", "online"}] \cup {NoLine}

\* Every variable has its type: tokens that were issued, requests and
\* connections at one of their steps (db.rs, auth.ts, socket.ts).
TypeOK ==
    /\ password \in [Names -> Passwords \cup {NoOne}]
    /\ current \in [Names -> Tokens]
    /\ calls \in [Devices -> [Calls -> Call]]
    /\ saved \in [Devices -> [Names -> Tokens]]
    /\ active \in [Devices -> Account]
    /\ page \in [Devices -> Page]
    /\ lines \in [Devices -> [Lines -> Line]]
    /\ online \subseteq Names
    /\ acts \in 0..MaxActs /\ faults \in 0..MaxFaults

\* A page that starts: boot shows the form while it asks whether the account
\* to sign in with is still good.
FirstPage(d, account) ==
    [screen |-> "login", me |-> NoOne, token |-> Nobody, line |-> 0, retry |-> FALSE,
     list |-> [n \in Names |-> IF account = Nobody THEN saved[d][n] ELSE 0]]
Asked(op, account) ==
    [op |-> op, name |-> account.name, password |-> NoOne, token |-> account.token,
     remember |-> TRUE, heard |-> TRUE, at |-> "query"]
FirstCall(rest, account) ==
    IF account = Nobody THEN rest
    ELSE [rest EXCEPT ![CHOOSE i \in Calls : rest[i] = NoCall] = Asked("boot", account)]

Init ==
    /\ \E past \in Pasts :
         /\ password = [n \in Names |-> IF \E d \in Devices : <<d, n>> \in past
                                        THEN CHOOSE p \in Passwords : TRUE ELSE NoOne]
         /\ saved = [d \in Devices |-> [n \in Names |-> IF <<d, n>> \in past THEN 1 ELSE 0]]
         /\ active \in [Devices -> {[name |-> r[2], token |-> 1] : r \in past} \cup {Nobody}]
         /\ \A d \in Devices : active[d] # Nobody => <<d, active[d].name>> \in past
    /\ current = [n \in Names |-> IF password[n] = NoOne THEN 0 ELSE 1]
    /\ calls = [d \in Devices |-> FirstCall([i \in Calls |-> NoCall], active[d])]
    /\ page = [d \in Devices |-> FirstPage(d, active[d])]
    /\ lines = [d \in Devices |-> [k \in Lines |-> NoLine]]
    /\ online = {}
    /\ acts = 0 /\ faults = 0
-----------------------------------------------------------------------------
\* The server: requests.  A request that nobody hears any more runs on.

Answer(d, i, at) == calls' = [calls EXCEPT ![d][i] = [@ EXCEPT !.at = at]]

AnswerToken(d, i, t) == calls' = [calls EXCEPT ![d][i] = [@ EXCEPT !.at = "yes", !.token = t]]

\* register_user.
FindName(d, i) ==
    LET c == calls[d][i] IN
    /\ c.op = "register" /\ c.at = "query"
    /\ Answer(d, i, IF password[c.name] = NoOne THEN "write" ELSE "no")
    /\ UNCHANGED store

\* Faulty variant of InsertUser: the row replaces the one that is there.
InsertOrReplaceUser(d, i) ==
    LET c == calls[d][i] IN
    /\ c.op = "register" /\ c.at = "write"
    /\ password' = [password EXCEPT ![c.name] = c.password]
    /\ current' = [current EXCEPT ![c.name] = @ + 1]
    /\ AnswerToken(d, i, current[c.name] + 1)

\* The name is a primary key: a second INSERT fails.
InsertUser(d, i) ==
    LET c == calls[d][i] IN
    /\ c.op = "register" /\ c.at = "write"
    /\ \/ /\ password[c.name] = NoOne
          /\ password' = [password EXCEPT ![c.name] = c.password]
          /\ current' = [current EXCEPT ![c.name] = 1]
          /\ AnswerToken(d, i, 1)
       \/ password[c.name] # NoOne /\ Answer(d, i, "no") /\ UNCHANGED store

\* authenticate_user.
CheckPassword(d, i) ==
    LET c == calls[d][i] IN
    /\ c.op = "login" /\ c.at = "query"
    /\ Answer(d, i, IF password[c.name] = c.password THEN "write" ELSE "no")
    /\ UNCHANGED store

\* Faulty variant of UpdateToken: a login hands out the token that is there.
ReuseToken(d, i) ==
    LET c == calls[d][i] IN
    /\ c.op = "login" /\ c.at = "write"
    /\ AnswerToken(d, i, current[c.name])
    /\ UNCHANGED store

UpdateToken(d, i) ==
    LET c == calls[d][i] IN
    /\ c.op = "login" /\ c.at = "write"
    /\ current' = [current EXCEPT ![c.name] = @ + 1]
    /\ AnswerToken(d, i, current[c.name] + 1)
    /\ UNCHANGED password

VerifyToken(name, t) == password[name] # NoOne /\ current[name] = t

Verify(d, i) ==
    LET c == calls[d][i] IN
    /\ c.op \in {"verify", "boot"} /\ c.at = "query"
    /\ Answer(d, i, IF VerifyToken(c.name, c.token) THEN "yes" ELSE "no")
    /\ UNCHANGED store

Serve(d, i) ==
    /\ FindName(d, i) \/ InsertUser(d, i) \/ CheckPassword(d, i) \/ UpdateToken(d, i) \/ Verify(d, i)
    /\ UNCHANGED <<storage, page, lines, online, bounds>>

\* A statement fails, which verify_token takes for an invalid token, or the
\* answer gets lost.
FailCall(d, i) ==
    /\ faults < MaxFaults
    /\ faults' = faults + 1
    /\ \/ calls[d][i] # NoCall /\ calls[d][i].at \in {"query", "write"} /\ Answer(d, i, "no")
       \/ calls[d][i] # NoCall /\ calls[d][i].at # "broken" /\ Answer(d, i, "broken")
    /\ UNCHANGED <<store, storage, page, lines, online, acts>>
-----------------------------------------------------------------------------
\* The page.

FreeLine(d) == {k \in Lines : lines[d][k] = NoLine}

\* A connection with no end left is none.
Left(l) == IF l.client = "closed" /\ l.server = "none" THEN NoLine ELSE l
ClosedByPage(l) == Left([l EXCEPT !.client = "closed"])
EndedByServer(l) == Left([l EXCEPT !.server = "none"])

\* connect: the page forgets the connection it had, which stays open.
Connect(d, name, token) ==
    \E k \in FreeLine(d) :
        /\ \A l \in FreeLine(d) : k <= l
        /\ page' = [page EXCEPT ![d] = [@ EXCEPT !.me = name, !.token = token, !.line = k, !.retry = FALSE]]
        /\ lines' = [lines EXCEPT ![d][k] = [name |-> name, token |-> token,
                                             client |-> "connecting", server |-> "verifying"]]

\* showLogin: the list shows the accounts saved now.
ShowLogin(d, accounts) ==
    /\ page' = [page EXCEPT ![d] = [@ EXCEPT !.screen = "login", !.me = NoOne, !.token = Nobody,
                                            !.line = 0, !.list = accounts]]
    /\ lines' = [lines EXCEPT ![d] = [k \in Lines |->
                    IF k = page[d].line THEN ClosedByPage(lines[d][k]) ELSE lines[d][k]]]

SaveAndActivate(d, name, t) ==
    /\ saved' = [saved EXCEPT ![d][name] = t]
    /\ active' = [active EXCEPT ![d] = [name |-> name, token |-> t]]

\* Faulty variant of Forget: the account stays the one to sign in with.
ForgetSavedOnly(d, name) == saved' = [saved EXCEPT ![d][name] = 0] /\ UNCHANGED active

\* forgetAccount.
Forget(d, name) ==
    /\ saved' = [saved EXCEPT ![d][name] = 0]
    /\ active' = IF active[d].name = name THEN [active EXCEPT ![d] = Nobody] ELSE active

Drop(d, i) == calls' = [calls EXCEPT ![d][i] = NoCall]

Heard(d, i) ==
    /\ calls[d][i] # NoCall
    /\ calls[d][i].heard /\ calls[d][i].at \in {"yes", "no", "broken"}
    /\ Drop(d, i)

\* The page is gone that asked.
DropUnheard(d, i) ==
    /\ calls[d][i] # NoCall
    /\ ~calls[d][i].heard /\ calls[d][i].at \in {"yes", "no", "broken"}
    /\ Drop(d, i)
    /\ UNCHANGED <<store, storage, page, lines, online, bounds>>

\* The form: an error is shown and nothing else changes.
HearSubmit(d, i) ==
    LET c == calls[d][i] IN
    /\ Submitted(c)
    /\ \/ /\ c.at = "yes"
          /\ \/ c.remember /\ SaveAndActivate(d, c.name, c.token)
             \/ ~c.remember /\ active' = [active EXCEPT ![d] = Nobody] /\ UNCHANGED saved
          /\ Connect(d, c.name, [name |-> c.name, token |-> c.token])
       \/ c.at \in {"no", "broken"} /\ UNCHANGED <<storage, page, lines>>

\* loginWithSavedAccount.
HearVerify(d, i) ==
    LET c == calls[d][i] IN
    /\ c.op = "verify"
    /\ \/ /\ c.at = "yes"
          /\ SaveAndActivate(d, c.name, c.token)
          /\ Connect(d, c.name, [name |-> c.name, token |-> c.token])
       \/ c.at = "no" /\ Forget(d, c.name) /\ ShowLogin(d, saved'[d])
       \/ c.at = "broken" /\ UNCHANGED <<storage, page, lines>>

\* boot: without an answer the account is no longer signed in on start.
HearBoot(d, i) ==
    LET c == calls[d][i] IN
    /\ c.op = "boot"
    /\ \/ c.at = "yes" /\ UNCHANGED storage /\ Connect(d, c.name, [name |-> c.name, token |-> c.token])
       \/ /\ c.at \in {"no", "broken"}
          /\ active' = [active EXCEPT ![d] = Nobody] /\ UNCHANGED saved
          /\ ShowLogin(d, saved[d])

Hear(d, i) ==
    /\ Heard(d, i)
    /\ HearSubmit(d, i) \/ HearVerify(d, i) \/ HearBoot(d, i)
    /\ UNCHANGED <<store, online, bounds>>
-----------------------------------------------------------------------------
\* What the user does.

Act == acts < MaxActs /\ acts' = acts + 1 /\ UNCHANGED faults

Ask(d, c) == \E i \in Calls :
    /\ calls[d][i] = NoCall /\ \A j \in Calls : calls[d][j] = NoCall => i <= j
    /\ calls' = [calls EXCEPT ![d][i] = c]

Submitting(d) == \E i \in Calls : Submitted(calls[d][i]) /\ calls[d][i].heard

Submit(d) ==
    /\ Act
    /\ page[d].screen = "login" /\ ~Submitting(d)
    /\ \E op \in {"register", "login"}, n \in Names, p \in Passwords, r \in BOOLEAN :
         Ask(d, [op |-> op, name |-> n, password |-> p, token |-> 0, remember |-> r,
                 heard |-> TRUE, at |-> "query"])
    /\ UNCHANGED <<store, storage, page, lines, online>>

\* The list may be older than what is saved: another answer was heard since.
ClickSaved(d) ==
    /\ Act
    /\ page[d].screen = "login"
    /\ \E n \in Names : page[d].list[n] # 0 /\ Ask(d, Asked("verify", [name |-> n, token |-> page[d].list[n]]))
    /\ UNCHANGED <<store, storage, page, lines, online>>

\* The form's way back to the list, which is rendered again.
BackToSaved(d) ==
    /\ page[d].screen = "login" /\ \E n \in Names : page[d].list[n] # 0
    /\ page' = [page EXCEPT ![d].list = saved[d]]
    /\ UNCHANGED <<store, storage, calls, lines, online, bounds>>

RemoveSaved(d) ==
    /\ Act
    /\ page[d].screen = "login"
    /\ \E n \in Names : page[d].list[n] # 0 /\ Forget(d, n)
    /\ page' = [page EXCEPT ![d].list = saved'[d]]
    /\ UNCHANGED <<store, calls, lines, online>>

\* Faulty variant of Logout: what is stored is no account.
LogoutStoresNoOne(d) ==
    /\ Act
    /\ page[d].screen = "app"
    /\ active' = [active EXCEPT ![d] = NoOne] /\ UNCHANGED saved
    /\ ShowLogin(d, saved[d])
    /\ UNCHANGED <<store, calls, online>>

Logout(d) ==
    /\ Act
    /\ page[d].screen = "app"
    /\ active' = [active EXCEPT ![d] = Nobody] /\ UNCHANGED saved
    /\ ShowLogin(d, saved[d])
    /\ UNCHANGED <<store, calls, online>>

\* The page is loaded again.  What was submitted is still served; the other
\* requests change nothing.
Reload(d) ==
    /\ Act
    /\ LET rest == [i \in Calls |-> IF Submitted(calls[d][i])
                                    THEN [calls[d][i] EXCEPT !.heard = FALSE] ELSE NoCall]
       IN  /\ active[d] # Nobody => \E i \in Calls : rest[i] = NoCall
           /\ calls' = [calls EXCEPT ![d] = FirstCall(rest, active[d])]
    /\ page' = [page EXCEPT ![d] = FirstPage(d, active[d])]
    /\ lines' = [lines EXCEPT ![d] = [k \in Lines |-> ClosedByPage(lines[d][k])]]
    /\ UNCHANGED <<store, storage, online>>
-----------------------------------------------------------------------------
\* Connections.

\* chat_ws.
VerifyLine(d, k) ==
    LET l == lines[d][k] IN
    /\ l.server = "verifying"
    /\ lines' = [lines EXCEPT ![d][k] =
                   IF l.token.name = l.name /\ VerifyToken(l.name, l.token.token)
                     THEN [@ EXCEPT !.server = "entering"] ELSE EndedByServer(@)]
    /\ UNCHANGED <<page, online>>

\* session::run up to the hub; who is online elsewhere is turned away.
EnterHub(d, k) ==
    LET l == lines[d][k] IN
    /\ l.server = "entering"
    /\ \/ /\ l.name \in online
          /\ lines' = [lines EXCEPT ![d][k] = EndedByServer(@)]
          /\ UNCHANGED online
       \/ /\ l.name \notin online
          /\ lines' = [lines EXCEPT ![d][k].server = "online"]
          /\ online' = online \cup {l.name}
    /\ UNCHANGED page

\* handlers.welcome, of whichever connection of the page.
Welcome(d, k) ==
    LET l == lines[d][k] IN
    /\ l.client = "connecting" /\ l.server = "online"
    /\ lines' = [lines EXCEPT ![d][k].client = "open"]
    /\ page' = [page EXCEPT ![d] = [@ EXCEPT !.me = l.name, !.screen = "app"]]
    /\ UNCHANGED online

\* Faulty variant of OnClose: the page does not try again.
OnCloseGivesUp(d, k) == UNCHANGED page

\* ws.onclose.
OnClose(d, k) ==
    page' = IF page[d].line = k /\ page[d].me # NoOne THEN [page EXCEPT ![d].retry = TRUE] ELSE page

SeeEnd(d, k) ==
    /\ lines[d][k].client # "closed" /\ lines[d][k].server = "none"
    /\ lines' = [lines EXCEPT ![d][k] = NoLine]
    /\ OnClose(d, k)
    /\ UNCHANGED online

\* The session sees the close, or misses heartbeats.
EndSession(d, k) ==
    LET l == lines[d][k] IN
    /\ l.server = "online" /\ l.client = "closed"
    /\ lines' = [lines EXCEPT ![d][k] = NoLine]
    /\ online' = online \ {l.name}
    /\ UNCHANGED page

Work(d, k) ==
    /\ VerifyLine(d, k) \/ EnterHub(d, k) \/ Welcome(d, k) \/ SeeEnd(d, k) \/ EndSession(d, k)
    /\ UNCHANGED <<store, calls, storage, bounds>>

\* The timer fires two seconds later.
Retry(d) ==
    /\ page[d].retry
    /\ \/ page[d].me # NoOne /\ Connect(d, page[d].me, page[d].token)
       \/ page[d].me = NoOne /\ page' = [page EXCEPT ![d].retry = FALSE] /\ UNCHANGED lines
    /\ UNCHANGED <<store, calls, storage, online, bounds>>

\* The page learns of it first, the session by its heartbeat.
LoseLine(d, k) ==
    /\ faults < MaxFaults /\ faults' = faults + 1
    /\ lines[d][k].client # "closed"
    /\ lines' = [lines EXCEPT ![d][k] = ClosedByPage(@)]
    /\ OnClose(d, k)
    /\ UNCHANGED <<store, calls, storage, online, acts>>

\* Requests break off, sessions and the hub are gone, the table stays.
Crash ==
    /\ faults < MaxFaults /\ faults' = faults + 1
    /\ calls' = [d \in Devices |-> [i \in Calls |->
                   IF calls[d][i] # NoCall /\ calls[d][i].at \in {"query", "write"}
                     THEN [calls[d][i] EXCEPT !.at = "broken"] ELSE calls[d][i]]]
    /\ lines' = [d \in Devices |-> [k \in Lines |-> EndedByServer(lines[d][k])]]
    /\ online' = {}
    /\ UNCHANGED <<store, storage, page, acts>>
-----------------------------------------------------------------------------
Next ==
    \/ \E d \in Devices :
         \/ \E i \in Calls : Serve(d, i) \/ FailCall(d, i) \/ DropUnheard(d, i) \/ Hear(d, i)
         \/ Submit(d) \/ ClickSaved(d) \/ BackToSaved(d) \/ RemoveSaved(d) \/ Logout(d) \/ Reload(d)
         \/ \E k \in Lines : Work(d, k) \/ LoseLine(d, k)
         \/ Retry(d)
    \/ Crash

Spec == Init /\ [][Next]_vars

\* Requests get answered, timers fire, and an end of a connection is noticed.
FairSpec ==
    /\ Spec
    /\ \A d \in Devices :
         /\ \A i \in Calls : WF_vars(Serve(d, i)) /\ WF_vars(Hear(d, i)) /\ WF_vars(DropUnheard(d, i))
         /\ \A k \in Lines : WF_vars(Work(d, k))
         /\ WF_vars(Retry(d))
-----------------------------------------------------------------------------
\* Properties.

\* Who is let in by password has the account's: of two registrations of a name
\* that cross only one is told yes (db.rs:187).
OwnersGetIn ==
    \A d \in Devices, i \in Calls :
        LET c == calls[d][i]
        IN  Submitted(c) /\ c.at \in {"write", "yes"}
              /\ (c.op = "login" \/ c.at = "yes") => password[c.name] = c.password

Holds(d, n) ==
    \/ saved[d][n] = current[n]
    \/ page[d].token = [name |-> n, token |-> current[n]]
    \/ \E i \in Calls : /\ calls[d][i] # NoCall /\ calls[d][i].name = n
                        /\ calls[d][i].at = "yes" /\ calls[d][i].token = current[n]

\* A login signs every other device out at its next start or reconnect: no two
\* devices have a token that works (db.rs:218).
OneDeviceHolds ==
    \A d, e \in Devices, n \in Names :
        password[n] # NoOne /\ Holds(d, n) /\ Holds(e, n) => d = e

\* The account to start with is one of the saved ones, with its token, whatever
\* answers, removals and new tokens cross (state.ts:61).
ActiveIsSaved ==
    \A d \in Devices : active[d] # Nobody => saved[d][active[d].name] = active[d].token

\* A page that is signed in with a token that works comes online, again after
\* every loss, unless its name already is (socket.ts:204).
NobodyStaysOffline ==
    \A d \in Devices, n \in Names :
        []<>(page[d].me = n /\ page[d].token = [name |-> n, token |-> current[n]] => n \in online)
=============================================================================
