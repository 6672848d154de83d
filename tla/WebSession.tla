----------------------------- MODULE WebSession -----------------------------
(***************************************************************************)
(* Who a browser tab believes is signed in.  The React context of App.jsx  *)
(* is filled by the replies of GET /users/me, login, sign-up and logout,   *)
(* which the handlers of NavBar, LogInModal and SignUpModal send and which *)
(* may be on the way together; the server keeps the sessions and accounts. *)
(***************************************************************************)
EXTENDS Naturals, FiniteSets

CONSTANTS
  Emails, Passwords,
  Calls,       \* requests that may be on the way at a time
  NoOne,       \* the null user of the default context
  Blank,       \* a password the server refuses to register: too short
  Absent,      \* no row of users has the address
  Invited,     \* a row that an invitation has made, not registered
  Dead,        \* a session that the server does not know (any more)
  NoCall,
  Events,      \* what may happen besides a user who waits for each reply
  MaxRequests  \* bound: how many requests the page sends

\* "overlap" a request is sent while another is on the way
\* "lost"    the connection fails before or after the request is served
\* "expire"  the server forgets the session
\* "reload"  the page is loaded again
EventNames == {"overlap", "lost", "expire", "reload"}

ASSUME EventsKnown   == Events \subseteq EventNames
ASSUME BlankIsNoGood == Blank \notin Passwords
ASSUME RowsAreTold   == Absent \notin Passwords /\ Invited \notin Passwords
ASSUME CallsFinite   == IsFiniteSet(Calls) /\ Calls # {}
ASSUME BoundIsNat    == MaxRequests \in Nat \ {0}

Users    == Emails \cup {NoOne}
Account  == Passwords \cup {Absent, Invited}
Modals   == {"signin", "signup"}
Overlays == Modals \cup {"", "nav", "user"}
Pages    == {"dashboard", "other"}
Session  == [user : Users, custom : BOOLEAN] \cup {Dead}

\* Session ids: enough for the cookies of the browser, each request and one
\* that is being made.
Sids  == 0 .. Cardinality(Calls) + 1
NoSid == Cardinality(Calls) + 2

\* sid: the cookie of the request, then the one its reply sets, or NoSid.  row:
\* the account when a sign-up looked it up.  who, ok: user and success of the
\* reply.  dropped: the page that sent it is gone.  alone: no other request
\* has been on the way since it was sent.
Call == [kind : {"me", "login", "signup", "logout"},
         phase : {"sent", "looked", "served"}, email : Users,
         password : Passwords \cup {Blank}, sid : Sids \cup {NoSid}, row : Account,
         ok : BOOLEAN, who : Users, dropped : BOOLEAN, alone : BOOLEAN]

\* A session and a request are records.
ASSUME NoneIsNone ==
  Dead \notin [user : Users, custom : BOOLEAN] /\ NoCall \notin Call

VARIABLES
  \* the server
  account,   \* account[e]: Absent, Invited or the password registered
  session,   \* session[s]: the principal, a CustomUser after a login only
  \* the browser
  cookie,    \* the id of the session
  call,      \* call[i]: a request on the way, or NoCall
  \* the page
  context,   \* context.user
  overlay,   \* the modal or menu that is open
  alert,     \* alert[m]: retryAlert of modal m
  page,      \* the route
  grid,      \* error boundary of the dashboard's tab: "rows", "failed", "none"
  \* bookkeeping
  happened,  \* events since the page was last known to be right
  sent

server == <<account, session>>
ui     == <<overlay, alert, page>>
vars   == <<server, cookie, call, context, ui, grid, happened, sent>>

Busy(i) == call[i] # NoCall
Quiet   == \A i \in Calls : ~Busy(i)

\* Where the next request goes.
Free    == \E i \in Calls : ~Busy(i)
NextOne == CHOOSE i \in Calls : ~Busy(i)

SignedIn == IF session[cookie] = Dead THEN NoOne ELSE session[cookie].user

Request(kind, e, p) ==
  [kind |-> kind, phase |-> "sent", email |-> e, password |-> p, sid |-> cookie,
   row |-> Absent, ok |-> FALSE, who |-> NoOne, dropped |-> FALSE, alone |-> TRUE]

\* The dashboard renders a grid of the selected tab under an error boundary, which
\* catches the 'Please sign in.' that both grids throw when the context has no links.
Caught(c) == IF c = NoOne THEN "failed" ELSE "rows"

\* A boundary that is mounted has not failed before.
Mounted(c, p) == IF p = "dashboard" THEN Caught(c) ELSE "none"

\* Slip: a boundary without resetKeys keeps what it has caught.
NeverReset(c) == IF grid = "rows" THEN Caught(c) ELSE grid

\* The context becomes c.  A grid is rendered again; a boundary that has failed keeps
\* its fallback, unless the context, its resetKeys, is another one.
Updated(c) == IF grid = "rows" \/ (grid = "failed" /\ c # context) THEN Caught(c) ELSE grid

Init ==
  /\ account \in [Emails -> Account]
  /\ \E e \in {NoOne} \cup {u \in Emails : account[u] \in Passwords}, custom \in BOOLEAN :
       /\ e = NoOne => ~custom
       /\ session =
           [s \in Sids |-> IF s = 0 THEN [user |-> e, custom |-> custom] ELSE Dead]
  /\ cookie = 0
  /\ context = NoOne        \* defaultAppContext
  /\ LET first == CHOOSE i \in Calls : TRUE IN
       call = [j \in Calls |-> IF j = first THEN Request("me", NoOne, Blank) ELSE NoCall]
  /\ overlay = ""
  /\ alert = [m \in Modals |-> FALSE]
  /\ page \in Pages
  /\ grid = Mounted(NoOne, page)
  /\ happened = {}
  /\ sent = 1

-----------------------------------------------------------------------------
(***************************************************************************)
(* The page: what is offered, and the handlers of what is clicked.  An     *)
(* open modal or menu covers the rest of the page.                         *)
(***************************************************************************)

Uncovered == overlay = ""

\* fetch: a request leaves with the cookie of this moment.
Send(kind, e, p) ==
  /\ sent < MaxRequests /\ sent' = sent + 1
  /\ Quiet \/ "overlap" \in Events
  /\ Free
  /\ call' = [j \in Calls |->
       IF j = NextOne THEN [Request(kind, e, p) EXCEPT !.alone = Quiet]
       ELSE IF Busy(j) THEN [call[j] EXCEPT !.alone = FALSE] ELSE NoCall]
  /\ happened' = IF Quiet THEN happened ELSE happened \cup {"overlap"}

NoCallMade == UNCHANGED <<call, happened, sent>>

\* A route that is there already is not mounted anew.
Go(p) == page' = p /\ grid' = IF p = page THEN grid ELSE Mounted(context, p)

\* handleOpenNavMenu, handleOpenUserMenu, handleStartNowClick.
Open ==
  /\ Uncovered
  /\ overlay' \in {"nav", "user", "signin"}
  /\ UNCHANGED <<server, cookie, context, alert, page, grid>> /\ NoCallMade

\* handleCloseNavMenu is given the click event as its new page, and leaves for
\* a route that does not exist.
CloseNavMenu ==
  /\ overlay = "nav"
  /\ overlay' = ""
  /\ Go("other")
  /\ UNCHANGED <<server, cookie, context, alert>> /\ NoCallMade

\* The user menu is dismissed, or handleCloseUserMenu: Dashboard.
CloseUserMenu ==
  /\ overlay = "user"
  /\ overlay' = ""
  /\ Go("dashboard") \/ UNCHANGED <<page, grid>>
  /\ UNCHANGED <<server, cookie, context, alert>> /\ NoCallMade

\* handleCloseUserMenu: Log out, offered to anybody.
LogOut ==
  /\ overlay = "user"
  /\ overlay' = ""
  /\ Send("logout", NoOne, Blank)
  /\ UNCHANGED <<server, cookie, context, alert, page, grid>>

\* handleClose of the open modal.
CloseModal(m) ==
  /\ overlay = m
  /\ overlay' = ""
  /\ alert' = [alert EXCEPT ![m] = FALSE]
  /\ UNCHANGED <<server, cookie, context, page, grid>> /\ NoCallMade

\* The links between the modals leave the alert alone.  The one for a forgotten
\* password shows nothing: no modal is rendered for it.
SwitchModal(m) ==
  /\ overlay = m
  /\ overlay' \in IF m = "signin" THEN {"signup", ""} ELSE {"signin"}
  /\ UNCHANGED <<server, cookie, context, alert, page, grid>> /\ NoCallMade

\* handleSubmit of a modal up to its await; the form stays as it is meanwhile.
SubmitLogIn ==
  /\ overlay = "signin"
  /\ \E e \in Emails, p \in Passwords \cup {Blank} : Send("login", e, p)
  /\ UNCHANGED <<server, cookie, context, ui, grid>>

SubmitSignUp ==
  /\ overlay = "signup"
  /\ \E e \in Emails, p \in Passwords \cup {Blank} : Send("signup", e, p)
  /\ UNCHANGED <<server, cookie, context, ui, grid>>

\* Links, and the tabs of the dashboard, each of which mounts its boundary anew.
Navigate ==
  /\ Uncovered
  /\ \/ \E p \in Pages : Go(p)
     \/ page = "dashboard" /\ page' = page /\ grid' = Mounted(context, page)
  /\ UNCHANGED <<server, cookie, context, overlay, alert>> /\ NoCallMade

\* App mounts: the default context, and GET /users/me.  What the old page has
\* sent may still be served, but nobody takes the reply.
Reload ==
  /\ "reload" \in Events
  /\ sent < MaxRequests /\ sent' = sent + 1
  /\ Quiet \/ "overlap" \in Events
  /\ Free
  /\ call' = [j \in Calls |->
       IF j = NextOne THEN Request("me", NoOne, Blank)
       ELSE IF ~Busy(j) \/ call[j].phase = "served" THEN NoCall
       ELSE [call[j] EXCEPT !.dropped = TRUE, !.alone = FALSE]]
  /\ happened' = IF Quiet THEN happened ELSE happened \cup {"overlap"}
  /\ context' = NoOne
  /\ overlay' = ""
  /\ alert' = [m \in Modals |-> FALSE]
  /\ grid' = Mounted(NoOne, page)
  /\ UNCHANGED <<server, cookie, page>>

-----------------------------------------------------------------------------
(***************************************************************************)
(* The server.                                                             *)
(***************************************************************************)

Held     == {cookie} \cup {call[i].sid : i \in {j \in Calls : Busy(j)}}
FreshSid == CHOOSE s \in Sids : s \notin Held

\* A reply keeps nothing of the form.
Answer(i, ok, who, sid) ==
  [kind |-> call[i].kind, phase |-> "served", email |-> NoOne, password |-> Blank,
   sid |-> sid, row |-> Absent, ok |-> ok, who |-> who, dropped |-> FALSE,
   alone |-> call[i].alone]

\* The reply leaves, to a page that may be gone; with sid as its cookie.
Served(i, ok, who, sid) ==
  call' = [call EXCEPT ![i] = IF call[i].dropped THEN NoCall ELSE Answer(i, ok, who, sid)]

\* A session whose cookie nobody has any more is as good as dead.
ForgetSessions == session' = [s \in Sids |-> IF s \in Held' THEN session[s] ELSE Dead]

Pending(i, kind) == Busy(i) /\ call[i].kind = kind /\ call[i].phase = "sent"

PageUnchanged == UNCHANGED <<cookie, context, ui, grid, happened, sent>>

\* UserMeController: the principal is cast to CustomUser; without a session
\* the reply is the login page, which ajax refuses.
ServeMe(i) ==
  /\ Pending(i, "me")
  /\ LET s == session[call[i].sid] IN
       IF s # Dead /\ s.user # NoOne /\ s.custom
       THEN Served(i, TRUE, s.user, NoSid)
       ELSE Served(i, FALSE, NoOne, NoSid)
  /\ UNCHANGED server /\ PageUnchanged

\* formLogin: a session that was there goes on under a new id.  The success
\* handler redirects to /users/me.
ServeLogin(i) ==
  /\ Pending(i, "login")
  /\ IF account[call[i].email] = call[i].password
     THEN /\ session' = [session EXCEPT ![call[i].sid] = Dead, ![FreshSid] =
                           [user |-> call[i].email, custom |-> TRUE]]
          /\ Served(i, TRUE, call[i].email, FreshSid)
     ELSE Served(i, FALSE, NoOne, NoSid) /\ UNCHANGED session
  /\ UNCHANGED account /\ PageUnchanged

\* The session ends; the reply is the login page again.
ServeLogout(i) ==
  /\ Pending(i, "logout")
  /\ session' = [session EXCEPT ![call[i].sid] = Dead]
  /\ Served(i, FALSE, NoOne, NoSid)
  /\ UNCHANGED account /\ PageUnchanged

\* Slip: a registered user is not told from an invited one.
LookUpTrusting(i) ==
  /\ Pending(i, "signup")
  /\ IF call[i].password = Blank
     THEN Served(i, FALSE, NoOne, NoSid)
     ELSE call' = [call EXCEPT ![i].phase = "looked", ![i].row =
                     IF account[call[i].email] = Absent THEN Absent ELSE Invited]
  /\ UNCHANGED server /\ PageUnchanged

\* UserService.post, up to the look-up of the address.
LookUp(i) ==
  /\ Pending(i, "signup")
  /\ IF call[i].password = Blank \/ account[call[i].email] \in Passwords
     THEN Served(i, FALSE, NoOne, NoSid)
     ELSE call' = [call EXCEPT ![i].phase = "looked", ![i].row = account[call[i].email]]
  /\ UNCHANGED server /\ PageUnchanged

\* setSessionUser: a token with the address as its principal.
SignedUp(i, ok) ==
  LET sid == IF session[call[i].sid] = Dead THEN FreshSid ELSE call[i].sid IN
    /\ session' = [session EXCEPT ![sid] = [user |-> call[i].email, custom |-> FALSE]]
    /\ Served(i, ok, IF ok THEN call[i].email ELSE NoOne, sid)

\* UserService.post, the rest.  The row found is written over; without one a
\* row is inserted, unless the address has got one meanwhile.
SignUp(i) ==
  /\ Busy(i) /\ call[i].phase = "looked"
  /\ IF call[i].row = Absent /\ account[call[i].email] # Absent
     THEN Served(i, FALSE, NoOne, NoSid) /\ UNCHANGED server
     ELSE /\ account' = [account EXCEPT ![call[i].email] = call[i].password]
          /\ SignedUp(i, TRUE)
  /\ PageUnchanged

\* Two sign-ups of one invited address that both register its first access
\* control list: one is rolled back, its session is not.
SignUpClashes(i) ==
  /\ Busy(i) /\ call[i].phase = "looked" /\ call[i].row = Invited
  /\ \/ account[call[i].email] \in Passwords
     \/ \E j \in Calls \ {i} :
          Busy(j) /\ call[j].phase = "looked" /\ call[j].email = call[i].email
  /\ SignedUp(i, FALSE)
  /\ UNCHANGED account /\ PageUnchanged

Expire ==
  /\ "expire" \in Events
  /\ session[cookie] # Dead
  /\ session' = [session EXCEPT ![cookie] = Dead]
  /\ happened' = happened \cup {"expire"}
  /\ UNCHANGED <<account, cookie, call, context, ui, grid, sent>>

\* Somebody invites an address that nobody has used yet.
Invite(e) ==
  /\ account[e] = Absent
  /\ account' = [account EXCEPT ![e] = Invited]
  /\ UNCHANGED <<session, call>> /\ PageUnchanged

-----------------------------------------------------------------------------
(***************************************************************************)
(* Replies.                                                                *)
(***************************************************************************)

Modal(kind) == IF kind = "login" THEN "signin" ELSE "signup"

\* Slip: the reply of GET /users/me is not taken into the context.
IgnoreMe(i, ok) == call[i].kind = "me" /\ UNCHANGED <<context, ui>>

\* App: a refusal leaves the context as it is.
TakeMe(i, ok) ==
  /\ call[i].kind = "me"
  /\ context' = IF ok THEN call[i].who ELSE context
  /\ UNCHANGED ui

\* Slip: the context is cleared only when the request has succeeded.
ClearOnSuccess(i, ok) ==
  /\ call[i].kind = "logout"
  /\ context' = IF ok THEN NoOne ELSE context
  /\ UNCHANGED ui

\* handleCloseUserMenu: finally, after ajax has refused even the good reply.
Clear(i, ok) ==
  /\ call[i].kind = "logout"
  /\ context' = NoOne
  /\ UNCHANGED ui

\* Slip: a user who is there already is kept.
WelcomeFirst(i, ok) ==
  /\ call[i].kind \in {"login", "signup"} /\ ok
  /\ context' = IF context = NoOne THEN call[i].who ELSE context
  /\ alert' = [alert EXCEPT ![Modal(call[i].kind)] = FALSE]
  /\ overlay' = IF overlay \in Modals THEN "" ELSE overlay
  /\ page' = "dashboard"

\* handleSubmit: whichever modal is open now is closed.
Welcome(i, ok) ==
  /\ call[i].kind \in {"login", "signup"} /\ ok
  /\ context' = call[i].who
  /\ alert' = [alert EXCEPT ![Modal(call[i].kind)] = FALSE]
  /\ overlay' = IF overlay \in Modals THEN "" ELSE overlay
  /\ page' = "dashboard"

\* handleSubmit, catch: the alert of the modal, open or not.
Retry(i, ok) ==
  /\ call[i].kind \in {"login", "signup"} /\ ~ok
  /\ alert' = [alert EXCEPT ![Modal(call[i].kind)] = TRUE]
  /\ UNCHANGED <<context, overlay, page>>

\* What follows the await, once ajax has returned or thrown.  The new context is
\* rendered before the navigation to the dashboard.
Continue(i, ok) ==
  /\ TakeMe(i, ok) \/ Clear(i, ok) \/ Welcome(i, ok) \/ Retry(i, ok)
  /\ grid' = IF page' = page THEN Updated(context') ELSE Mounted(context', page')

\* Slip: a reply that sets no cookie takes the old one away.
CookieOfReply(i) == call[i].sid

CookieAfter(i) == IF call[i].sid = NoSid THEN cookie ELSE call[i].sid

\* The reply arrives, in any order with those of other requests.
Receive(i) ==
  /\ Busy(i) /\ call[i].phase = "served"
  /\ cookie' = CookieAfter(i)
  /\ Continue(i, call[i].ok)
  /\ call' = [call EXCEPT ![i] = NoCall]
  /\ happened' = IF /\ call[i].ok /\ call[i].kind # "me" /\ call[i].alone
                    /\ session[cookie'] # Dead
                 THEN {} ELSE happened
  /\ ForgetSessions
  /\ UNCHANGED <<account, sent>>

\* The connection fails: the reply is lost, or the request before it; or else it is
\* still on the way, or being served, and takes effect later, if it has any.
Lose(i) ==
  /\ "lost" \in Events
  /\ Busy(i) /\ ~call[i].dropped
  /\ Continue(i, FALSE)
  /\ \/ call[i].phase # "looked" /\ call' = [call EXCEPT ![i] = NoCall]
     \/ /\ call[i].phase # "served" /\ call[i].kind # "me"
        /\ call' = [call EXCEPT ![i].dropped = TRUE]
  /\ happened' = happened \cup {"lost"}
  /\ UNCHANGED <<account, cookie, sent>>
  /\ ForgetSessions

-----------------------------------------------------------------------------
Click ==
  \/ Open \/ CloseNavMenu \/ CloseUserMenu \/ LogOut \/ Navigate \/ Reload
  \/ SubmitLogIn \/ SubmitSignUp
  \/ \E m \in Modals : CloseModal(m) \/ SwitchModal(m)

Serve(i) ==
  ServeMe(i) \/ ServeLogin(i) \/ ServeLogout(i)
    \/ LookUp(i) \/ SignUp(i) \/ SignUpClashes(i)

Next ==
  \/ Click \/ Expire
  \/ \E e \in Emails : Invite(e)
  \/ \E i \in Calls : Serve(i) \/ Receive(i) \/ Lose(i)

Spec == Init /\ [][Next]_vars

\* Every request is served, and its reply or the failure of the connection
\* reaches the browser: fetch settles.  The user owes nothing.
Fairness == \A i \in Calls : WF_vars(Serve(i) \/ Receive(i) \/ Lose(i))
FairSpec == Spec /\ Fairness

-----------------------------------------------------------------------------
(***************************************************************************)
(* Properties.                                                             *)
(***************************************************************************)

\* Every variable keeps to its type.
TypeOK ==
  /\ account \in [Emails -> Account]
  /\ session \in [Sids -> Session]
  /\ cookie \in Sids
  /\ call \in [Calls -> Call \cup {NoCall}]
  /\ context \in Users
  /\ overlay \in Overlays
  /\ alert \in [Modals -> BOOLEAN]
  /\ page \in Pages
  /\ grid \in {"none", "rows", "failed"}
  /\ happened \in SUBSET EventNames
  /\ sent \in 1 .. MaxRequests

\* When no request is on the way, the page does not name a user whom the
\* server would not answer for: unless requests have overlapped (the late
\* reply of GET /users/me after a log out), a connection has failed, or the
\* session has expired since the last login or sign-up.
NobodyElse ==
  Quiet /\ happened = {} => context \in {NoOne, SignedIn}

\* When no request is on the way, a user with a session is shown as signed in,
\* unless requests have overlapped or failed, or the session was made by a
\* sign-up and the page was loaded again.
SignedInIsShown ==
  Quiet /\ happened \subseteq {"expire"} /\ session[cookie] # Dead /\ session[cookie].custom
    => context = SignedIn

\* The dashboard prompts for signing in exactly while nobody is signed in on the
\* page: what the error boundary has caught does not outlive the reply that signs a
\* user in, nor a grid the one that signs the user out, in whatever order replies,
\* failures and the ways to the dashboard follow each other.
DashboardPrompts ==
  page = "dashboard" => (grid = "failed" <=> context = NoOne)

\* A registered account is written over only in a race: by a sign-up that another
\* request has overlapped since it was sent, never by one that was alone, be its
\* page still there or not.
Registers(i) ==
  /\ Busy(i) /\ call[i].phase = "looked"
  /\ IF call[i].dropped THEN call'[i] = NoCall
     ELSE call'[i] # NoCall /\ call'[i].phase = "served" /\ call'[i].ok

PasswordKept ==
  [][\A i \in Calls :
       Registers(i) /\ account[call[i].email] \in Passwords => ~call[i].alone]_vars

\* "Clears context store": a user who logs out is signed out on the page,
\* whatever becomes of the request, as long as the page is there.
LogoutClears ==
  \A i \in Calls :
    Busy(i) /\ call[i].kind = "logout" /\ ~call[i].dropped ~> context = NoOne

-----------------------------------------------------------------------------
(***************************************************************************)
(* The invariant behind these properties, which are not inductive.         *)
(***************************************************************************)

\* What the server would not deny, and what it would have shown.
Right == context \in {NoOne, SignedIn}
Shown == session[cookie] # Dead /\ session[cookie].custom => context = SignedIn

Only(i) == \A j \in Calls : Busy(j) => j = i

\* A request: what it was sent with, that nothing happens to its account or its session
\* while it is alone, and whom its reply signs in.
CallInv(i) ==
  LET c == call[i] IN
    /\ c.phase # "served" => c.sid \in Sids
    /\ c.phase # "served" /\ c.kind \in {"login", "signup"} => c.email \in Emails
    /\ c.phase = "looked" =>
         /\ c.kind = "signup" /\ c.password \in Passwords
         /\ c.alone => account[c.email] \notin Passwords
    /\ c.kind # "me" /\ c.alone => Only(i)
    /\ c.phase = "served" /\ c.ok =>
         /\ c.kind # "logout"
         /\ c.kind # "me" =>
              /\ c.sid \in Sids
              /\ c.alone => session[c.sid] = Dead \/ session[c.sid].user = c.who

\* Without an overlap there is one request at a time, and the page that waits for it,
\* if it is not lost.
OneAtATime ==
  "overlap" \notin happened =>
    \A i \in Calls : Busy(i) =>
      /\ call[i].alone /\ Only(i)
      /\ "lost" \notin happened => ~call[i].dropped

\* What a request is to the user shown: no reply will name one whom the server would not.
Truthful(i) ==
  LET c == call[i] IN
    \/ c.phase # "served" /\ c.sid = cookie /\ Right
    \/ c.phase = "served" /\ c.kind = "logout"
    \/ /\ c.phase = "served" /\ c.kind = "me" /\ c.sid = NoSid /\ Right
       /\ c.ok => c.who = SignedIn
    \/ /\ c.phase = "served" /\ c.kind \in {"login", "signup"}
       /\ IF c.ok THEN session[c.sid] # Dead ELSE c.sid = NoSid /\ Right

\* A user with a session is shown, or will be by the reply on its way.
Telling(i) ==
  LET c == call[i] IN
    /\ c.phase # "served" => c.sid = cookie
    /\ c.phase = "served" => c.sid = NoSid \/ (c.ok /\ c.kind # "me")
    /\ c.kind = "me" =>
         /\ context = NoOne
         /\ c.phase = "served" /\ session[cookie] # Dead /\ session[cookie].custom
              => SignedIn = IF c.ok THEN c.who ELSE NoOne
    /\ c.kind = "logout" /\ c.phase = "served" => session[cookie] = Dead
    /\ c.kind \in {"login", "signup"} => (c.phase = "served" /\ c.ok) \/ Shown

\* While nothing has happened, and while at most a session has expired.
NobodyElseInv ==
  happened = {} =>
    (Quiet => Right) /\ \A i \in Calls : Busy(i) => Truthful(i)

SignedInInv ==
  happened \subseteq {"expire"} =>
    (Quiet => Shown) /\ \A i \in Calls : Busy(i) => Telling(i)

IInv ==
  /\ TypeOK /\ grid = Mounted(context, page)
  /\ \A i \in Calls : Busy(i) => CallInv(i)
  /\ OneAtATime /\ NobodyElseInv /\ SignedInInv
=============================================================================
