-------------------------- MODULE WebSession_proofs --------------------------
(***************************************************************************)
(* Proofs about WebSession, for every value of its constants.              *)
(***************************************************************************)
EXTENDS WebSession, FiniteSetTheorems, TLAPS

(***************************************************************************)
(* Session ids.                                                            *)
(***************************************************************************)

\* There is a first id, and NoSid is none.
LEMMA SidFacts == 0 \in Sids /\ NoSid \notin Sids /\ IsFiniteSet(Sids)
                  /\ Cardinality(Sids) = Cardinality(Calls) + 2 /\ Cardinality(Calls) \in Nat
<1>1. Cardinality(Calls) \in Nat
  BY CallsFinite, FS_CardinalityType
<1>2. IsFiniteSet(Sids) /\ Cardinality(Sids) = Cardinality(Calls) + 2
  <2> DEFINE n == Cardinality(Calls) + 1
  <2>1. n \in Int /\ 0 \in Int /\ ~(0 > n) /\ n - 0 + 1 = Cardinality(Calls) + 2
    BY <1>1
  <2>2. Sids = 0 .. n
    BY DEF Sids
  <2> HIDE DEF n
  <2> QED
    BY <2>1, <2>2, FS_Interval
<1>3. 0 \in Sids /\ NoSid \notin Sids
  BY <1>1 DEF Sids, NoSid
<1> QED
  BY <1>1, <1>2, <1>3

\* The ids that cookies hold are too few to be all of them.
LEMMA HeldAreFew == IsFiniteSet(Held) /\ Cardinality(Held) <= Cardinality(Calls) + 1
<1> DEFINE B == {j \in Calls : Busy(j)}
           T == {call[i].sid : i \in B}
           f == [i \in B |-> call[i].sid]
<1>1. IsFiniteSet(B) /\ Cardinality(B) <= Cardinality(Calls)
  <2>1. B \in SUBSET Calls
    OBVIOUS
  <2> QED
    BY <2>1, CallsFinite, FS_Subset
<1>2. f \in Surjection(B, T)
  BY DEF Surjection
<1>3. Held = T \cup {cookie}
  BY DEF Held
<1> HIDE DEF B, T, f
<1>4. IsFiniteSet(T) /\ Cardinality(T) <= Cardinality(B)
  BY <1>1, <1>2, FS_Surjection
<1>5. /\ IsFiniteSet(Held)
      /\ Cardinality(Held) = IF cookie \in T THEN Cardinality(T) ELSE Cardinality(T) + 1
  BY <1>3, <1>4, FS_AddElement
<1>6. Cardinality(T) \in Nat /\ Cardinality(B) \in Nat /\ Cardinality(Calls) \in Nat
  BY <1>1, <1>4, CallsFinite, FS_CardinalityType
<1> QED
  BY <1>1, <1>4, <1>5, <1>6

\* A fresh id is one that no cookie holds.
LEMMA FreshIsFree == FreshSid \in Sids /\ FreshSid \notin Held
<1>1. \E s \in Sids : s \notin Held
  <2> SUFFICES ASSUME Sids \subseteq Held PROVE FALSE
    OBVIOUS
  <2>1. Cardinality(Sids) <= Cardinality(Held)
    BY HeldAreFew, FS_Subset
  <2>2. Cardinality(Held) \in Nat
    BY HeldAreFew, FS_CardinalityType
  <2> QED
    BY <2>1, <2>2, HeldAreFew, SidFacts
<1> QED
  BY <1>1 DEF FreshSid

(***************************************************************************)
(* Steps of the page alone.                                                *)
(***************************************************************************)

LEMMA MountedType == ASSUME NEW c, NEW p PROVE Mounted(c, p) \in {"none", "rows", "failed"}
BY DEF Mounted, Caught

\* The routes that are there are mounted, the others will be.
LEMMA GoMounts == ASSUME IInv, NEW p, Go(p) PROVE grid' = Mounted(context, page') /\ page' = p
BY DEF Go, IInv

\* A boundary follows the context through its failures and its resets.
LEMMA BoundaryFollows ==
  ASSUME grid = Mounted(context, page), page' = page
  PROVE  Updated(context') = Mounted(context', page')
BY DEF Updated, Mounted, Caught

\* What is clicked without a request changes what is open and the route.
LEMMA PageStep ==
  ASSUME IInv, UNCHANGED <<server, cookie, call, context, happened, sent>>,
         overlay' \in Overlays, alert' \in [Modals -> BOOLEAN], page' \in Pages,
         grid' = Mounted(context, page')
  PROVE  IInv'
<1>1. TypeOK'
  BY MountedType DEF IInv, TypeOK, server
<1>2. (grid = Mounted(context, page))'
  BY DEF Mounted, Caught
<1>3. \A i \in Calls : Busy(i)' => CallInv(i)'
  BY DEF IInv, CallInv, Busy, Only, server
<1>4. OneAtATime'
  BY DEF IInv, OneAtATime, Busy, Only
<1>5. NobodyElseInv'
  BY DEF IInv, NobodyElseInv, Quiet, Busy, Right, SignedIn, Truthful, server
<1>6. SignedInInv'
  BY DEF IInv, SignedInInv, Quiet, Busy, Shown, SignedIn, Telling, server
<1> QED
  BY <1>1, <1>2, <1>3, <1>4, <1>5, <1>6 DEF IInv

LEMMA OpenStep == ASSUME IInv, Open PROVE IInv'
BY PageStep DEF Open, NoCallMade, IInv, TypeOK, Overlays, Modals

LEMMA CloseNavMenuStep == ASSUME IInv, CloseNavMenu PROVE IInv'
BY PageStep, GoMounts DEF CloseNavMenu, NoCallMade, IInv, TypeOK, Overlays, Pages

LEMMA CloseUserMenuStep == ASSUME IInv, CloseUserMenu PROVE IInv'
BY PageStep, GoMounts DEF CloseUserMenu, NoCallMade, IInv, TypeOK, Overlays, Pages

LEMMA NavigateStep == ASSUME IInv, Navigate PROVE IInv'
BY PageStep, GoMounts DEF Navigate, NoCallMade, IInv, TypeOK, Pages

LEMMA CloseModalStep == ASSUME IInv, NEW m \in Modals, CloseModal(m) PROVE IInv'
<1>1. alert' \in [Modals -> BOOLEAN] /\ overlay' \in Overlays
  BY DEF CloseModal, IInv, TypeOK, Overlays
<1> QED
  BY <1>1, PageStep DEF CloseModal, NoCallMade, IInv, TypeOK

LEMMA SwitchModalStep == ASSUME IInv, NEW m \in Modals, SwitchModal(m) PROVE IInv'
BY PageStep DEF SwitchModal, NoCallMade, IInv, TypeOK, Overlays, Modals

(***************************************************************************)
(* Requests that leave.                                                    *)
(***************************************************************************)

LEMMA NextIsFree == ASSUME Free PROVE NextOne \in Calls /\ ~Busy(NextOne)
BY DEF Free, NextOne

\* A request that leaves: those on the way are no longer alone, and without an overlap
\* none is.
LEMMA LeaveStep ==
  ASSUME IInv, NEW i \in Calls, ~Busy(i), NEW c \in Call, c # NoCall,
         call' \in [Calls -> Call \cup {NoCall}], call'[i] = c,
         c.phase = "sent", c.sid = cookie, c.dropped = FALSE,
         c.kind # "me" /\ c.alone => Quiet,
         Quiet => c.alone,
         c.kind \in {"login", "signup"} => c.email \in Emails,
         \A j \in Calls \ {i} : call'[j] # NoCall =>
           /\ call[j] # NoCall /\ ~call'[j].alone
           /\ call'[j].kind = call[j].kind /\ call'[j].phase = call[j].phase
           /\ call'[j].email = call[j].email /\ call'[j].password = call[j].password
           /\ call'[j].sid = call[j].sid /\ call'[j].ok = call[j].ok,
         happened' = IF Quiet THEN happened ELSE happened \cup {"overlap"},
         context' = IF c.kind = "me" THEN NoOne ELSE context,
         sent < MaxRequests, sent' = sent + 1,
         UNCHANGED <<server, cookie, page>>, overlay' \in Overlays,
         alert' \in [Modals -> BOOLEAN], grid' = Mounted(context', page)
  PROVE  IInv'
<1>1. TypeOK'
  <2>1. context' \in Users /\ sent' \in 1 .. MaxRequests /\ happened' \in SUBSET EventNames
    BY BoundIsNat DEF IInv, TypeOK, Users, EventNames
  <2> QED
    BY <2>1, MountedType DEF IInv, TypeOK, server
<1>2. (grid = Mounted(context, page))'
  BY DEF Mounted, Caught
<1>3. CallInv(i)'
  <2>1. c.kind # "me" /\ c.alone => Only(i)'
    BY DEF Quiet, Busy, Only
  <2>2. c.sid \in Sids
    BY DEF IInv, TypeOK
  <2> QED
    BY <2>1, <2>2 DEF CallInv
<1>4. ASSUME NEW j \in Calls \ {i}, Busy(j)'
      PROVE  CallInv(j)'
  <2>1. Busy(j) /\ CallInv(j)
    BY <1>4 DEF IInv, Busy
  <2> QED
    BY <1>4, <2>1 DEF CallInv, Busy
<1>5. Quiet => \A j \in Calls : Busy(j)' => j = i
  BY DEF Quiet, Busy
<1>6. OneAtATime'
  <2> SUFFICES ASSUME "overlap" \notin happened', NEW j \in Calls, Busy(j)'
               PROVE  (call[j].alone /\ ~call[j].dropped /\ Only(j))'
    BY DEF OneAtATime
  <2>1. Quiet
    OBVIOUS
  <2> QED
    BY <2>1, <1>5 DEF Only, Busy
<1>7. ~Quiet'
  BY DEF Quiet, Busy
<1>8. NobodyElseInv'
  <2> SUFFICES ASSUME happened' = {}, NEW j \in Calls, Busy(j)' PROVE Truthful(j)'
    BY <1>7 DEF NobodyElseInv
  <2>1. Quiet /\ happened = {}
    OBVIOUS
  <2>2. j = i
    BY <2>1, <1>5
  <2>3. Right
    BY <2>1 DEF IInv, NobodyElseInv
  <2>4. Right'
    BY <2>3 DEF Right, SignedIn, server
  <2> QED
    BY <2>2, <2>4 DEF Truthful
<1>9. SignedInInv'
  <2> SUFFICES ASSUME happened' \subseteq {"expire"}, NEW j \in Calls, Busy(j)' PROVE Telling(j)'
    BY <1>7 DEF SignedInInv
  <2>1. Quiet /\ happened \subseteq {"expire"}
    OBVIOUS
  <2>2. j = i
    BY <2>1, <1>5
  <2>3. Shown
    BY <2>1 DEF IInv, SignedInInv
  <2>4. c.kind # "me" => Shown'
    BY <2>3 DEF Shown, SignedIn, server
  <2> QED
    BY <2>2, <2>4 DEF Telling
<1> QED
  BY <1>1, <1>2, <1>3, <1>4, <1>6, <1>8, <1>9 DEF IInv

\* A request of the user's.
LEMMA SendStep ==
  ASSUME IInv, NEW kind \in {"login", "signup", "logout"}, NEW e \in Users,
         NEW p \in Passwords \cup {Blank}, kind # "logout" => e \in Emails,
         Send(kind, e, p), UNCHANGED <<server, cookie, context, alert, page, grid>>,
         overlay' \in Overlays
  PROVE  IInv'
<1>1. PICK i \in Calls :
        /\ ~Busy(i)
        /\ call' = [j \in Calls |-> IF j = i THEN [Request(kind, e, p) EXCEPT !.alone = Quiet]
             ELSE IF Busy(j) THEN [call[j] EXCEPT !.alone = FALSE] ELSE NoCall]
  BY NextIsFree DEF Send
<1> DEFINE c == [Request(kind, e, p) EXCEPT !.alone = Quiet]
<1>2. Quiet \in BOOLEAN
  BY DEF Quiet
<1>3. /\ c \in Call /\ c # NoCall
      /\ c.kind = kind /\ c.phase = "sent" /\ c.email = e /\ c.sid = cookie
      /\ c.dropped = FALSE /\ (c.alone <=> Quiet)
  <2>1. PICK b \in BOOLEAN : b = Quiet
    BY <1>2
  <2>2. c = [Request(kind, e, p) EXCEPT !.alone = b]
    BY <2>1
  <2> HIDE DEF c
  <2>3. c = [kind |-> kind, phase |-> "sent", email |-> e, password |-> p, sid |-> cookie,
             row |-> Absent, ok |-> FALSE, who |-> NoOne, dropped |-> FALSE, alone |-> b]
    BY <2>2 DEF Request
  <2>4. c \in Call
    BY <2>3 DEF Call, IInv, TypeOK, Account, Users
  <2>5. c # NoCall
    BY <2>4, NoneIsNone
  <2>6. /\ c.kind = kind /\ c.phase = "sent" /\ c.email = e /\ c.sid = cookie
        /\ c.dropped = FALSE /\ c.alone = b
    BY <2>3
  <2>7. (b = TRUE) <=> Quiet
    BY <2>1
  <2>8. c.alone <=> Quiet
    BY <2>6, <2>7
  <2> QED
    BY <2>4, <2>5, <2>6, <2>8
<1>4. call'[i] = c
  BY <1>1
<1>5. ASSUME NEW j \in Calls \ {i}, Busy(j)
      PROVE  call'[j] \in Call /\ call'[j] = [call[j] EXCEPT !.alone = FALSE]
  <2>1. call[j] \in Call
    BY <1>5 DEF IInv, TypeOK, Busy
  <2>2. [call[j] EXCEPT !.alone = FALSE] \in Call
    BY <2>1 DEF Call
  <2> QED
    BY <1>1, <1>5, <2>2
<1>6. \A j \in Calls \ {i} : ~Busy(j) => call'[j] = NoCall
  BY <1>1
<1> HIDE DEF c
<1>7. call' \in [Calls -> Call \cup {NoCall}]
  BY <1>1, <1>3, <1>4, <1>5, <1>6
<1>8. ASSUME NEW j \in Calls \ {i}, call'[j] # NoCall
      PROVE  /\ call[j] # NoCall /\ ~call'[j].alone
             /\ call'[j].kind = call[j].kind /\ call'[j].phase = call[j].phase
             /\ call'[j].email = call[j].email /\ call'[j].password = call[j].password
             /\ call'[j].sid = call[j].sid /\ call'[j].ok = call[j].ok
  <2>1. Busy(j)
    BY <1>6, <1>8
  <2>2. call[j] \in Call
    BY <2>1 DEF IInv, TypeOK, Busy
  <2> QED
    BY <1>5, <2>1, <2>2 DEF Busy, Call
<1>9. grid' = Mounted(context', page) /\ alert' \in [Modals -> BOOLEAN]
  BY DEF IInv, TypeOK
<1>10. /\ sent < MaxRequests /\ sent' = sent + 1
       /\ happened' = IF Quiet THEN happened ELSE happened \cup {"overlap"}
  BY DEF Send
<1>11. /\ context' = IF c.kind = "me" THEN NoOne ELSE context
       /\ c.kind \in {"login", "signup"} => c.email \in Emails
       /\ UNCHANGED <<server, cookie, page>>
  BY <1>3
<1> QED
  BY <1>1, <1>3, <1>4, <1>7, <1>8, <1>9, <1>10, <1>11, LeaveStep

LEMMA LogOutStep == ASSUME IInv, LogOut PROVE IInv'
<1>1. Send("logout", NoOne, Blank) /\ NoOne \in Users /\ Blank \in Passwords \cup {Blank}
  BY DEF LogOut, Users
<1> QED
  BY <1>1, SendStep DEF LogOut, Overlays

LEMMA SubmitLogInStep == ASSUME IInv, SubmitLogIn PROVE IInv'
<1>1. PICK e \in Emails : \E p \in Passwords \cup {Blank} : Send("login", e, p)
  BY DEF SubmitLogIn
<1>2. PICK p \in Passwords \cup {Blank} : Send("login", e, p)
  BY <1>1
<1>3. e \in Users /\ overlay' \in Overlays
  BY DEF Users, SubmitLogIn, ui, IInv, TypeOK
<1> QED
  BY <1>2, <1>3, SendStep DEF SubmitLogIn, ui

LEMMA SubmitSignUpStep == ASSUME IInv, SubmitSignUp PROVE IInv'
<1>1. PICK e \in Emails : \E p \in Passwords \cup {Blank} : Send("signup", e, p)
  BY DEF SubmitSignUp
<1>2. PICK p \in Passwords \cup {Blank} : Send("signup", e, p)
  BY <1>1
<1>3. e \in Users /\ overlay' \in Overlays
  BY DEF Users, SubmitSignUp, ui, IInv, TypeOK
<1> QED
  BY <1>2, <1>3, SendStep DEF SubmitSignUp, ui

\* The page starts afresh: nobody takes what the old one had asked for.
LEMMA ReloadStep == ASSUME IInv, Reload PROVE IInv'
<1>1. PICK i \in Calls :
        /\ ~Busy(i)
        /\ call' = [j \in Calls |->
             IF j = i THEN Request("me", NoOne, Blank)
             ELSE IF ~Busy(j) \/ call[j].phase = "served" THEN NoCall
             ELSE [call[j] EXCEPT !.dropped = TRUE, !.alone = FALSE]]
  BY NextIsFree DEF Reload
<1> DEFINE c == Request("me", NoOne, Blank)
<1>2. /\ c \in Call
      /\ c.kind = "me" /\ c.phase = "sent" /\ c.sid = cookie /\ c.dropped = FALSE /\ c.alone
  BY DEF Request, Call, IInv, TypeOK, Account, Users
<1>3. c # NoCall
  BY <1>2, NoneIsNone
<1>4. call'[i] = c
  BY <1>1
<1>5. ASSUME NEW j \in Calls \ {i}, Busy(j), call[j].phase # "served"
      PROVE  /\ call'[j] \in Call
             /\ call'[j] = [call[j] EXCEPT !.dropped = TRUE, !.alone = FALSE]
  <2>1. call[j] \in Call
    BY <1>5 DEF IInv, TypeOK, Busy
  <2>2. [call[j] EXCEPT !.dropped = TRUE, !.alone = FALSE] \in Call
    BY <2>1 DEF Call
  <2> QED
    BY <1>1, <1>5, <2>2
<1>6. \A j \in Calls \ {i} : ~Busy(j) \/ call[j].phase = "served" => call'[j] = NoCall
  BY <1>1
<1> HIDE DEF c
<1>7. call' \in [Calls -> Call \cup {NoCall}]
  BY <1>1, <1>2, <1>4, <1>5, <1>6
<1>8. ASSUME NEW j \in Calls \ {i}, call'[j] # NoCall
      PROVE  /\ call[j] # NoCall /\ ~call'[j].alone
             /\ call'[j].kind = call[j].kind /\ call'[j].phase = call[j].phase
             /\ call'[j].email = call[j].email /\ call'[j].password = call[j].password
             /\ call'[j].sid = call[j].sid /\ call'[j].ok = call[j].ok
  <2>1. Busy(j) /\ call[j].phase # "served"
    BY <1>6, <1>8
  <2>2. call[j] \in Call
    BY <2>1 DEF IInv, TypeOK, Busy
  <2> QED
    BY <1>5, <2>1, <2>2 DEF Busy, Call
<1>9. /\ context' = IF c.kind = "me" THEN NoOne ELSE context
      /\ c.kind \in {"login", "signup"} => c.email \in Emails
      /\ UNCHANGED <<server, cookie, page>>
      /\ overlay' \in Overlays /\ alert' \in [Modals -> BOOLEAN]
      /\ grid' = Mounted(context', page)
  BY <1>2 DEF Reload, Overlays
<1>10. /\ sent < MaxRequests /\ sent' = sent + 1
       /\ happened' = IF Quiet THEN happened ELSE happened \cup {"overlap"}
  BY DEF Reload
<1> QED
  BY <1>1, <1>2, <1>3, <1>4, <1>7, <1>8, <1>9, <1>10, LeaveStep

(***************************************************************************)
(* The initial states.                                                     *)
(***************************************************************************)

LEMMA InitInv == ASSUME Init PROVE IInv
<1>1. PICK e \in {NoOne} \cup {u \in Emails : account[u] \in Passwords} :
        \E custom \in BOOLEAN :
          session = [s \in Sids |-> IF s = 0 THEN [user |-> e, custom |-> custom] ELSE Dead]
  BY DEF Init
<1>2. PICK custom \in BOOLEAN :
        session = [s \in Sids |-> IF s = 0 THEN [user |-> e, custom |-> custom] ELSE Dead]
  BY <1>1
<1>3. PICK i \in Calls :
        call = [j \in Calls |-> IF j = i THEN Request("me", NoOne, Blank) ELSE NoCall]
  BY CallsFinite DEF Init
<1>4. session \in [Sids -> Session]
  BY <1>2 DEF Session, Users
<1>5. cookie \in Sids /\ context = NoOne /\ happened = {}
  BY SidFacts DEF Init
<1>6. /\ call[i] \in Call
      /\ call[i].kind = "me" /\ call[i].phase = "sent" /\ call[i].sid = cookie
      /\ call[i].dropped = FALSE /\ call[i].alone
  BY <1>3, <1>5 DEF Request, Call, Account, Users
<1>7. Busy(i) /\ \A j \in Calls : Busy(j) => j = i
  BY <1>3, <1>6, NoneIsNone DEF Busy
<1>8. TypeOK
  <2>1. call \in [Calls -> Call \cup {NoCall}]
    BY <1>3, <1>6
  <2>2. sent \in 1 .. MaxRequests /\ happened \in SUBSET EventNames
    <3>1. sent = 1
      BY DEF Init
    <3> QED
      BY <1>5, <3>1, BoundIsNat
  <2>3. /\ account \in [Emails -> Account] /\ context \in Users /\ overlay \in Overlays
        /\ alert \in [Modals -> BOOLEAN] /\ page \in Pages
    BY DEF Init, Users, Overlays
  <2>4. grid \in {"none", "rows", "failed"}
    BY MountedType DEF Init
  <2> QED
    BY <1>4, <1>5, <2>1, <2>2, <2>3, <2>4 DEF TypeOK
<1>9. grid = Mounted(context, page)
  BY <1>5 DEF Init
<1>10. \A j \in Calls : Busy(j) => CallInv(j)
  BY <1>5, <1>6, <1>7 DEF CallInv
<1>11. OneAtATime
  BY <1>6, <1>7 DEF OneAtATime, Only
<1>12. NobodyElseInv
  BY <1>5, <1>6, <1>7 DEF NobodyElseInv, Quiet, Truthful, Right
<1>13. SignedInInv
  BY <1>5, <1>6, <1>7 DEF SignedInInv, Quiet, Telling
<1> QED
  BY <1>8, <1>9, <1>10, <1>11, <1>12, <1>13 DEF IInv

(***************************************************************************)
(* The server.                                                             *)
(***************************************************************************)

\* While nothing overlaps, a request is alone and its page waits for it.
LEMMA AloneNow ==
  ASSUME IInv, "overlap" \notin happened, NEW i \in Calls, Busy(i)
  PROVE  /\ call[i].alone /\ \A j \in Calls : Busy(j) => j = i
         /\ "lost" \notin happened => ~call[i].dropped
BY DEF IInv, OneAtATime, Only

\* What happens to another request leaves one that is not alone to its fate.
LEMMA OthersKeep ==
  ASSUME IInv, NEW i \in Calls, Busy(i), NEW j \in Calls \ {i}, Busy(j),
         call'[j] = call[j], \A k \in Calls : call'[k] # NoCall => Busy(k)
  PROVE  CallInv(j)'
<1>1. CallInv(j) /\ ~Only(j)
  BY DEF IInv, Only
<1>2. call[j].kind # "me" => ~call[j].alone
  BY <1>1 DEF CallInv
<1> QED
  BY <1>1, <1>2 DEF CallInv

\* One request is served, or its page is not there to hear of it.
LEMMA AnswerStep ==
  ASSUME IInv, NEW i \in Calls, Busy(i), NEW v \in Call \cup {NoCall},
         call' = [call EXCEPT ![i] = v],
         v = NoCall => call[i].dropped,
         v # NoCall => (v.alone <=> call[i].alone) /\ (v.dropped => call[i].dropped),
         v # NoCall /\ v.kind # "me" => call[i].kind # "me",
         account' \in [Emails -> Account], session' \in [Sids -> Session],
         PageUnchanged,
         v # NoCall => CallInv(i)',
         v # NoCall /\ happened = {} => Truthful(i)',
         v # NoCall /\ happened \subseteq {"expire"} => Telling(i)'
  PROVE  IInv'
<1>1. call'[i] = v /\ \A j \in Calls \ {i} : call'[j] = call[j]
  BY DEF IInv, TypeOK
<1>2. TypeOK'
  <2>1. call' \in [Calls -> Call \cup {NoCall}]
    BY DEF IInv, TypeOK
  <2> QED
    BY <2>1 DEF PageUnchanged, ui, IInv, TypeOK
<1>3. (grid = Mounted(context, page))'
  BY DEF PageUnchanged, ui, IInv, Mounted, Caught
<1>4. \A k \in Calls : call'[k] # NoCall => Busy(k)
  BY <1>1 DEF Busy
<1>5. \A j \in Calls : Busy(j)' => CallInv(j)'
  <2> SUFFICES ASSUME NEW j \in Calls, Busy(j)' PROVE CallInv(j)'
    OBVIOUS
  <2>1. CASE j = i
    BY <1>1, <2>1 DEF Busy
  <2>2. CASE j # i
    <3>1. Busy(j) /\ call'[j] = call[j]
      BY <1>1, <2>2 DEF Busy
    <3> QED
      BY <1>4, <2>2, <3>1, OthersKeep
  <2> QED
    BY <2>1, <2>2
<1>6. ASSUME "overlap" \notin happened
      PROVE  /\ "lost" \notin happened => ~call[i].dropped /\ v # NoCall
             /\ \A j \in Calls : Busy(j)' => j = i
  BY <1>1, <1>6, AloneNow DEF Busy
<1>7. happened' = happened
  BY DEF PageUnchanged
<1>8. OneAtATime'
  BY <1>1, <1>6, <1>7, AloneNow DEF OneAtATime, Busy, Only
<1>9. ASSUME happened \subseteq {"expire"} PROVE ~Quiet' /\ Busy(i)'
  BY <1>1, <1>6, <1>9 DEF Quiet, Busy
<1>10. NobodyElseInv'
  <2> SUFFICES ASSUME happened = {}, NEW j \in Calls, Busy(j)' PROVE Truthful(j)'
    BY <1>7, <1>9 DEF NobodyElseInv
  <2>1. j = i /\ v # NoCall
    BY <1>6
  <2> QED
    BY <2>1
<1>11. SignedInInv'
  <2> SUFFICES ASSUME happened \subseteq {"expire"}, NEW j \in Calls, Busy(j)' PROVE Telling(j)'
    BY <1>7, <1>9 DEF SignedInInv
  <2>1. j = i /\ v # NoCall
    BY <1>6
  <2> QED
    BY <2>1
<1> QED
  BY <1>2, <1>3, <1>5, <1>8, <1>10, <1>11 DEF IInv

\* The reply leaves.
LEMMA ServedStep ==
  ASSUME IInv, NEW i \in Calls, Busy(i), NEW ok \in BOOLEAN, NEW who \in Users,
         NEW sid \in Sids \cup {NoSid}, Served(i, ok, who, sid),
         account' \in [Emails -> Account], session' \in [Sids -> Session], PageUnchanged,
         ok => /\ call[i].kind # "logout"
               /\ call[i].kind # "me" => /\ sid \in Sids /\ session'[sid] # Dead
                                         /\ session'[sid].user = who,
         ~ok /\ call[i].kind \in {"login", "signup"} /\ happened = {} => sid = NoSid /\ Right',
         happened \subseteq {"expire"} =>
           /\ sid = NoSid \/ (ok /\ call[i].kind # "me")
           /\ call[i].kind = "me" =>
                /\ context = NoOne
                /\ session'[cookie] # Dead /\ session'[cookie].custom
                     => SignedIn' = IF ok THEN who ELSE NoOne
           /\ call[i].kind = "logout" => session'[cookie] = Dead
           /\ call[i].kind \in {"login", "signup"} => ok \/ Shown',
         happened = {} /\ call[i].kind = "me" => Right' /\ (ok => who = SignedIn')
  PROVE  IInv'
<1> DEFINE r == Answer(i, ok, who, sid)
           v == IF call[i].dropped THEN NoCall ELSE r
<1>1. call[i] \in Call
  BY DEF IInv, TypeOK, Busy
<1>2. /\ call[i].kind \in {"me", "login", "signup", "logout"}
      /\ call[i].alone \in BOOLEAN /\ call[i].dropped \in BOOLEAN
  BY <1>1 DEF Call
<1>3. r = [kind |-> call[i].kind, phase |-> "served", email |-> NoOne, password |-> Blank,
           sid |-> sid, row |-> Absent, ok |-> ok, who |-> who, dropped |-> FALSE,
           alone |-> call[i].alone]
  BY DEF Answer
<1>4. call' = [call EXCEPT ![i] = v]
  BY DEF Served
<1> HIDE DEF r
<1>5. r \in Call
  BY <1>2, <1>3 DEF Call, Account, Users
<1>6. /\ r.kind = call[i].kind /\ r.phase = "served" /\ r.sid = sid
      /\ r.who = who /\ r.dropped = FALSE /\ r.alone = call[i].alone
  BY <1>3
<1>7. r.ok = ok
  BY <1>3
<1>8. r # NoCall
  BY <1>5, NoneIsNone
<1>9. v = IF call[i].dropped THEN NoCall ELSE r
  OBVIOUS
<1> HIDE DEF v
<1>10. v \in Call \cup {NoCall} /\ (v = NoCall => call[i].dropped) /\ (v # NoCall => v = r)
  BY <1>5, <1>8, <1>9
<1>11. call'[i] = v
  BY <1>4 DEF IInv, TypeOK
<1>12. call[i].kind # "me" /\ call[i].alone => Only(i)
  BY DEF IInv, CallInv
<1>13. Only(i) => Only(i)'
  BY <1>4 DEF Only, Busy, IInv, TypeOK
<1>14. ASSUME v # NoCall PROVE CallInv(i)'
  <2>1. call'[i] = r
    BY <1>10, <1>11, <1>14
  <2> QED
    BY <2>1, <1>6, <1>7, <1>12, <1>13 DEF CallInv
<1>15. ASSUME v # NoCall, happened = {} PROVE Truthful(i)'
  <2>1. call'[i] = r /\ cookie' = cookie
    BY <1>10, <1>11, <1>15 DEF PageUnchanged
  <2>2. CASE call[i].kind = "logout"
    BY <2>1, <2>2, <1>6 DEF Truthful
  <2>3. CASE call[i].kind = "me"
    <3>1. sid = NoSid
      BY <2>3, <1>15
    <3>2. Right' /\ (ok => who = SignedIn')
      BY <2>3, <1>15
    <3> QED
      BY <2>1, <2>3, <3>1, <3>2, <1>6, <1>7 DEF Truthful
  <2>4. CASE call[i].kind \in {"login", "signup"}
    <3>1. CASE ok
      BY <2>1, <2>4, <3>1, <1>6, <1>7 DEF Truthful
    <3>2. CASE ~ok
      <4>1. sid = NoSid /\ Right'
        BY <2>4, <3>2, <1>15
      <4> QED
        BY <2>1, <2>4, <3>2, <4>1, <1>6, <1>7 DEF Truthful
    <3> QED
      BY <3>1, <3>2
  <2> QED
    BY <1>2, <2>2, <2>3, <2>4
<1>16. ASSUME v # NoCall, happened \subseteq {"expire"} PROVE Telling(i)'
  <2>1. call'[i] = r /\ cookie' = cookie /\ context' = context
    BY <1>10, <1>11, <1>16 DEF PageUnchanged
  <2>2. /\ sid = NoSid \/ (ok /\ call[i].kind # "me")
        /\ call[i].kind = "me" =>
             /\ context = NoOne
             /\ session'[cookie] # Dead /\ session'[cookie].custom
                  => SignedIn' = IF ok THEN who ELSE NoOne
        /\ call[i].kind = "logout" => session'[cookie] = Dead
        /\ call[i].kind \in {"login", "signup"} => ok \/ Shown'
    BY <1>16
  <2> QED
    BY <2>1, <2>2, <1>6, <1>7 DEF Telling
<1>17. v # NoCall => /\ v.alone <=> call[i].alone
                     /\ v.dropped => call[i].dropped
                     /\ v.kind = call[i].kind
  BY <1>6, <1>10
<1> QED
  BY <1>4, <1>10, <1>14, <1>15, <1>16, <1>17, AnswerStep

LEMMA SignedInType == ASSUME TypeOK PROVE SignedIn \in Users
<1>1. session[cookie] \in Session
  BY DEF TypeOK
<1> QED
  BY <1>1 DEF SignedIn, Session, Users

\* A login or a sign-up that is refused changes nothing else.
LEMMA RefusedStep ==
  ASSUME IInv, NEW i \in Calls, Busy(i), call[i].phase # "served",
         call[i].kind \in {"login", "signup"},
         Served(i, FALSE, NoOne, NoSid), UNCHANGED server, PageUnchanged
  PROVE  IInv'
<1>1. account' \in [Emails -> Account] /\ session' \in [Sids -> Session]
  BY DEF IInv, TypeOK, server
<1>2. (Right' <=> Right) /\ (Shown' <=> Shown)
  BY DEF Right, Shown, SignedIn, server, PageUnchanged
<1>3. happened = {} => Right
  BY DEF IInv, NobodyElseInv, Truthful
<1>4. happened \subseteq {"expire"} => Shown
  BY DEF IInv, SignedInInv, Telling
<1>5. NoOne \in Users
  BY DEF Users
<1> QED
  BY <1>1, <1>2, <1>3, <1>4, <1>5, ServedStep

LEMMA ServeMeStep == ASSUME IInv, NEW i \in Calls, ServeMe(i) PROVE IInv'
<1> DEFINE s == session[call[i].sid]
           good == s # Dead /\ s.user # NoOne /\ s.custom
<1>1. Busy(i) /\ call[i].kind = "me" /\ call[i].phase = "sent" /\ UNCHANGED server /\ PageUnchanged
  BY DEF ServeMe, Pending
<1>2. account' \in [Emails -> Account] /\ session' \in [Sids -> Session]
  BY <1>1 DEF IInv, TypeOK, server
<1>3. (Right' <=> Right) /\ SignedIn' = SignedIn /\ cookie' = cookie
  BY <1>1 DEF Right, SignedIn, server, PageUnchanged
<1>4. happened = {} => Right
  BY <1>1 DEF IInv, NobodyElseInv, Truthful
<1>5. happened \subseteq {"expire"} => context = NoOne /\ s = session[cookie]
  BY <1>1 DEF IInv, SignedInInv, Telling
<1>6. s \in Session
  <2>1. call[i].sid \in Sids
    BY <1>1 DEF IInv, CallInv
  <2> QED
    BY <2>1 DEF IInv, TypeOK
<1>7. session' = session /\ NoOne \in Users
  BY <1>1 DEF server, Users
<1>8. CASE good
  <2>1. Served(i, TRUE, s.user, NoSid)
    BY <1>8 DEF ServeMe
  <2>2. s.user \in Users
    BY <1>6, <1>8 DEF Session
  <2>3. happened \subseteq {"expire"} => s.user = SignedIn
    BY <1>5, <1>8 DEF SignedIn
  <2> HIDE DEF s, good
  <2> QED
    BY <1>1, <1>2, <1>3, <1>4, <1>5, <2>1, <2>2, <2>3, ServedStep
<1>9. CASE ~good
  <2>1. Served(i, FALSE, NoOne, NoSid)
    BY <1>9 DEF ServeMe
  <2>2. ASSUME happened \subseteq {"expire"}, session[cookie] # Dead, session[cookie].custom
        PROVE  SignedIn = NoOne
    BY <1>5, <1>9, <2>2 DEF SignedIn
  <2> HIDE DEF s, good
  <2> QED
    BY <1>1, <1>2, <1>3, <1>4, <1>5, <1>7, <2>1, <2>2, ServedStep
<1> QED
  BY <1>8, <1>9

LEMMA ServeLoginStep == ASSUME IInv, NEW i \in Calls, ServeLogin(i) PROVE IInv'
<1> DEFINE new == [user |-> call[i].email, custom |-> TRUE]
<1>1. /\ Busy(i) /\ call[i].kind = "login" /\ call[i].phase = "sent"
      /\ UNCHANGED account /\ PageUnchanged
  BY DEF ServeLogin, Pending
<1>2. call[i].sid \in Sids /\ call[i].email \in Emails
  BY <1>1 DEF IInv, CallInv
<1>3. CASE account[call[i].email] = call[i].password
  <2>1. /\ session' = [session EXCEPT ![call[i].sid] = Dead, ![FreshSid] = new]
        /\ Served(i, TRUE, call[i].email, FreshSid)
    BY <1>3 DEF ServeLogin
  <2>2. FreshSid \in Sids
    BY FreshIsFree
  <2>3. new \in Session /\ new # Dead /\ new.user = call[i].email
    <3>1. new \in [user : Users, custom : BOOLEAN]
      BY <1>2 DEF Users
    <3>2. new.user = call[i].email
      OBVIOUS
    <3> HIDE DEF new
    <3> QED
      BY <3>1, <3>2, NoneIsNone DEF Session
  <2>4. Dead \in Session
    BY DEF Session
  <2> HIDE DEF new
  <2>5. session' \in [Sids -> Session] /\ session'[FreshSid] = new
    BY <2>1, <2>2, <2>3, <2>4, <1>2 DEF IInv, TypeOK
  <2>6. account' \in [Emails -> Account] /\ call[i].email \in Users
    BY <1>1, <1>2 DEF IInv, TypeOK, Users
  <2> QED
    BY <1>1, <2>1, <2>2, <2>3, <2>5, <2>6, ServedStep
<1>4. CASE account[call[i].email] # call[i].password
  <2>1. Served(i, FALSE, NoOne, NoSid) /\ UNCHANGED session
    BY <1>4 DEF ServeLogin
  <2> QED
    BY <1>1, <2>1, RefusedStep DEF server
<1> QED
  BY <1>3, <1>4

LEMMA ServeLogoutStep == ASSUME IInv, NEW i \in Calls, ServeLogout(i) PROVE IInv'
<1>1. /\ Busy(i) /\ call[i].kind = "logout" /\ call[i].phase = "sent"
      /\ session' = [session EXCEPT ![call[i].sid] = Dead]
      /\ Served(i, FALSE, NoOne, NoSid)
      /\ UNCHANGED account /\ PageUnchanged
  BY DEF ServeLogout, Pending
<1>2. call[i].sid \in Sids
  BY <1>1 DEF IInv, CallInv
<1>3. account' \in [Emails -> Account] /\ session' \in [Sids -> Session]
  BY <1>1 DEF IInv, TypeOK, Session
<1>4. happened \subseteq {"expire"} => session'[cookie] = Dead
  BY <1>1, <1>2 DEF IInv, TypeOK, SignedInInv, Telling
<1>5. NoOne \in Users
  BY DEF Users
<1> QED
  BY <1>1, <1>3, <1>4, <1>5, ServedStep

\* What a request that is looked up has not been told yet.
LEMMA LookUpStep == ASSUME IInv, NEW i \in Calls, LookUp(i) PROVE IInv'
<1> DEFINE bad == call[i].password = Blank \/ account[call[i].email] \in Passwords
           v == [call[i] EXCEPT !.phase = "looked", !.row = account[call[i].email]]
<1>1. /\ Busy(i) /\ call[i].kind = "signup" /\ call[i].phase = "sent"
      /\ UNCHANGED server /\ PageUnchanged
  BY DEF LookUp, Pending
<1>2. CASE bad
  <2>1. Served(i, FALSE, NoOne, NoSid)
    BY <1>2 DEF LookUp
  <2> QED
    BY <1>1, <2>1, RefusedStep
<1>3. CASE ~bad
  <2>1. call[i] \in Call
    BY <1>1 DEF IInv, TypeOK, Busy
  <2>2. call[i].email \in Emails /\ call[i].sid \in Sids
    BY <1>1 DEF IInv, CallInv
  <2>3. call[i].password \in Passwords /\ account[call[i].email] \notin Passwords
    BY <1>3, <2>1 DEF Call
  <2>4. account[call[i].email] \in Account
    BY <2>2 DEF IInv, TypeOK
  <2>5. call' = [call EXCEPT ![i] = v]
    BY <1>3 DEF LookUp
  <2>6. v \in Call
    BY <2>1, <2>4 DEF Call
  <2>7. /\ v.kind = call[i].kind /\ v.phase = "looked" /\ v.email = call[i].email
        /\ v.password = call[i].password /\ v.sid = call[i].sid
        /\ v.alone = call[i].alone /\ v.dropped = call[i].dropped
    BY <2>1 DEF Call
  <2> HIDE DEF v
  <2>8. v # NoCall
    BY <2>6, NoneIsNone
  <2>9. call'[i] = v /\ account' = account /\ session' = session /\ cookie' = cookie
    BY <1>1, <2>5 DEF IInv, TypeOK, server, PageUnchanged
  <2>10. (Right' <=> Right) /\ (Shown' <=> Shown)
    BY <1>1 DEF Right, Shown, SignedIn, server, PageUnchanged
  <2>11. CallInv(i)'
    <3>1. Only(i) => Only(i)'
      BY <2>5 DEF Only, Busy, IInv, TypeOK
    <3>2. call[i].alone => Only(i)
      BY <1>1 DEF IInv, CallInv
    <3> QED
      BY <1>1, <2>2, <2>3, <2>7, <2>9, <3>1, <3>2 DEF CallInv
  <2>12. ASSUME happened = {} PROVE Truthful(i)'
    <3>1. Right /\ call[i].sid = cookie
      BY <1>1, <2>12 DEF IInv, NobodyElseInv, Truthful
    <3> QED
      BY <2>7, <2>9, <2>10, <3>1 DEF Truthful
  <2>13. ASSUME happened \subseteq {"expire"} PROVE Telling(i)'
    <3>1. Shown /\ call[i].sid = cookie
      BY <1>1, <2>13 DEF IInv, SignedInInv, Telling
    <3> QED
      BY <1>1, <2>7, <2>9, <2>10, <3>1 DEF Telling
  <2>14. account' \in [Emails -> Account] /\ session' \in [Sids -> Session]
    BY <2>9 DEF IInv, TypeOK
  <2>15. (v.alone <=> call[i].alone) /\ (v.dropped => call[i].dropped) /\ call[i].kind # "me"
    BY <1>1, <2>7
  <2> QED
    BY <1>1, <2>5, <2>6, <2>8, <2>11, <2>12, <2>13, <2>14, <2>15, AnswerStep
<1> QED
  BY <1>2, <1>3

\* setSessionUser leaves the session of the request, or a new one, with the address.
LEMMA SessionMade ==
  ASSUME IInv, NEW i \in Calls, Busy(i), call[i].phase = "looked", NEW ok, SignedUp(i, ok)
  PROVE  \E sid \in Sids :
           /\ session' \in [Sids -> Session]
           /\ session'[sid] # Dead /\ session'[sid].user = call[i].email
           /\ Served(i, ok, IF ok THEN call[i].email ELSE NoOne, sid)
<1> DEFINE sid == IF session[call[i].sid] = Dead THEN FreshSid ELSE call[i].sid
           new == [user |-> call[i].email, custom |-> FALSE]
<1>1. sid \in Sids /\ call[i].email \in Emails
  BY FreshIsFree DEF IInv, CallInv
<1>2. new \in [user : Users, custom : BOOLEAN] /\ new.user = call[i].email
  BY <1>1 DEF Users
<1>3. /\ session' = [session EXCEPT ![sid] = new]
      /\ Served(i, ok, IF ok THEN call[i].email ELSE NoOne, sid)
  BY DEF SignedUp
<1> HIDE DEF new, sid
<1>4. new \in Session /\ new # Dead
  BY <1>2, NoneIsNone DEF Session
<1>5. session' \in [Sids -> Session] /\ session'[sid] = new
  BY <1>1, <1>3, <1>4 DEF IInv, TypeOK
<1> QED
  BY <1>1, <1>2, <1>3, <1>4, <1>5

LEMMA SignUpStep == ASSUME IInv, NEW i \in Calls, SignUp(i) PROVE IInv'
<1>1. Busy(i) /\ call[i].phase = "looked" /\ PageUnchanged
  BY DEF SignUp
<1>2. call[i].kind = "signup" /\ call[i].password \in Passwords /\ call[i].email \in Emails
  BY <1>1 DEF IInv, CallInv
<1>3. CASE call[i].row = Absent /\ account[call[i].email] # Absent
  <2>1. Served(i, FALSE, NoOne, NoSid) /\ UNCHANGED server
    BY <1>3 DEF SignUp
  <2> QED
    BY <1>1, <1>2, <2>1, RefusedStep
<1>4. CASE ~(call[i].row = Absent /\ account[call[i].email] # Absent)
  <2>1. account' = [account EXCEPT ![call[i].email] = call[i].password] /\ SignedUp(i, TRUE)
    BY <1>4 DEF SignUp
  <2>2. account' \in [Emails -> Account]
    BY <1>2, <2>1 DEF IInv, TypeOK, Account
  <2>3. PICK sid \in Sids :
          /\ session' \in [Sids -> Session]
          /\ session'[sid] # Dead /\ session'[sid].user = call[i].email
          /\ Served(i, TRUE, call[i].email, sid)
    BY <1>1, <2>1, SessionMade
  <2>4. call[i].email \in Users
    BY <1>2 DEF Users
  <2> QED
    BY <1>1, <1>2, <2>2, <2>3, <2>4, ServedStep
<1> QED
  BY <1>3, <1>4

\* Two sign-ups clash only where requests overlap.
LEMMA SignUpClashesStep == ASSUME IInv, NEW i \in Calls, SignUpClashes(i) PROVE IInv'
<1>1. /\ Busy(i) /\ call[i].phase = "looked" /\ PageUnchanged
      /\ SignedUp(i, FALSE) /\ UNCHANGED account
  BY DEF SignUpClashes
<1>2. /\ call[i].kind = "signup"
      /\ call[i].alone => account[call[i].email] \notin Passwords
  BY <1>1 DEF IInv, CallInv
<1>3. "overlap" \in happened
  <2> SUFFICES ASSUME "overlap" \notin happened PROVE FALSE
    OBVIOUS
  <2>1. call[i].alone /\ \A j \in Calls : Busy(j) => j = i
    BY <1>1, AloneNow
  <2> QED
    BY <1>2, <2>1 DEF SignUpClashes
<1>4. happened # {} /\ ~(happened \subseteq {"expire"})
  BY <1>3
<1>5. PICK sid \in Sids :
        session' \in [Sids -> Session] /\ Served(i, FALSE, NoOne, sid)
  BY <1>1, SessionMade
<1>6. account' \in [Emails -> Account] /\ NoOne \in Users
  BY <1>1 DEF IInv, TypeOK, Users
<1> QED
  BY <1>1, <1>2, <1>4, <1>5, <1>6, ServedStep

LEMMA ExpireStep == ASSUME IInv, Expire PROVE IInv'
<1>1. /\ session' = [session EXCEPT ![cookie] = Dead]
      /\ happened' = happened \cup {"expire"}
      /\ UNCHANGED <<account, cookie, call, context, ui, grid, sent>>
  BY DEF Expire
<1>2. session'[cookie] = Dead /\ \A s \in Sids : session'[s] \in {session[s], Dead}
  BY <1>1 DEF IInv, TypeOK
<1>3. TypeOK'
  <2>1. session' \in [Sids -> Session] /\ happened' \in SUBSET EventNames
    BY <1>1 DEF IInv, TypeOK, Session, EventNames
  <2> QED
    BY <1>1, <2>1 DEF IInv, TypeOK, ui
<1>4. (grid = Mounted(context, page))'
  BY <1>1 DEF IInv, Mounted, Caught, ui
<1>5. \A i \in Calls : Busy(i)' => CallInv(i)'
  <2> SUFFICES ASSUME NEW i \in Calls, Busy(i)' PROVE CallInv(i)'
    OBVIOUS
  <2>1. CallInv(i) /\ call' = call /\ account' = account
    BY <1>1 DEF IInv, Busy
  <2> QED
    BY <1>2, <2>1 DEF CallInv, Only, Busy
<1>6. OneAtATime'
  BY <1>1 DEF IInv, OneAtATime, Busy, Only
<1>7. NobodyElseInv'
  BY <1>1 DEF NobodyElseInv
<1>8. Shown'
  BY <1>1, <1>2 DEF Shown
<1>9. ASSUME happened' \subseteq {"expire"}, NEW i \in Calls, Busy(i)' PROVE Telling(i)'
  <2>1. Telling(i) /\ call' = call /\ context' = context /\ cookie' = cookie
    BY <1>1, <1>9 DEF IInv, SignedInInv, Busy
  <2> QED
    BY <1>2, <1>8, <2>1 DEF Telling
<1>10. SignedInInv'
  BY <1>8, <1>9 DEF SignedInInv
<1> QED
  BY <1>3, <1>4, <1>5, <1>6, <1>7, <1>10 DEF IInv

LEMMA InviteStep == ASSUME IInv, NEW e \in Emails, Invite(e) PROVE IInv'
<1>1. /\ account' = [account EXCEPT ![e] = Invited]
      /\ UNCHANGED <<session, call>> /\ PageUnchanged
  BY DEF Invite
<1>2. \A f \in Emails : account'[f] \in Passwords => account[f] \in Passwords
  BY <1>1, RowsAreTold DEF IInv, TypeOK
<1>3. TypeOK'
  <2>1. account' \in [Emails -> Account]
    BY <1>1 DEF IInv, TypeOK, Account
  <2> QED
    BY <1>1, <2>1 DEF IInv, TypeOK, PageUnchanged, ui
<1>4. (grid = Mounted(context, page))'
  BY <1>1 DEF IInv, Mounted, Caught, PageUnchanged, ui
<1>5. \A i \in Calls : Busy(i)' => CallInv(i)'
  <2> SUFFICES ASSUME NEW i \in Calls, Busy(i)' PROVE CallInv(i)'
    OBVIOUS
  <2>1. CallInv(i) /\ call' = call /\ session' = session
    BY <1>1 DEF IInv, Busy
  <2> QED
    BY <1>2, <2>1 DEF CallInv, Only, Busy
<1>6. OneAtATime'
  BY <1>1 DEF IInv, OneAtATime, Busy, Only, PageUnchanged
<1>7. NobodyElseInv'
  BY <1>1 DEF IInv, NobodyElseInv, Quiet, Busy, Right, SignedIn, Truthful, PageUnchanged
<1>8. SignedInInv'
  BY <1>1 DEF IInv, SignedInInv, Quiet, Busy, Shown, SignedIn, Telling, PageUnchanged
<1> QED
  BY <1>3, <1>4, <1>5, <1>6, <1>7, <1>8 DEF IInv

(***************************************************************************)
(* Replies.                                                                *)
(***************************************************************************)

\* What follows the await keeps to the types, and the boundary to the context.
LEMMA ContinueType ==
  ASSUME IInv, NEW i \in Calls, Busy(i), NEW ok, Continue(i, ok)
  PROVE  /\ context' \in Users /\ overlay' \in Overlays
         /\ alert' \in [Modals -> BOOLEAN] /\ page' \in Pages
         /\ grid' = Mounted(context', page')
<1>1. call[i].who \in Users
  <2>1. call[i] \in Call
    BY DEF IInv, TypeOK, Busy
  <2> QED
    BY <2>1 DEF Call
<1>2. /\ context \in Users /\ overlay \in Overlays
      /\ alert \in [Modals -> BOOLEAN] /\ page \in Pages /\ NoOne \in Users
  BY DEF IInv, TypeOK, Users
<1>3. /\ context' \in Users /\ overlay' \in Overlays
      /\ alert' \in [Modals -> BOOLEAN] /\ page' \in Pages
  <2>1. CASE TakeMe(i, ok) \/ Clear(i, ok)
    BY <1>1, <1>2, <2>1 DEF TakeMe, Clear, ui
  <2>2. CASE Welcome(i, ok)
    BY <1>1, <1>2, <2>2 DEF Welcome, Overlays, Pages
  <2>3. CASE Retry(i, ok)
    BY <1>1, <1>2, <2>3 DEF Retry
  <2> QED
    BY <2>1, <2>2, <2>3 DEF Continue
<1>4. grid' = Mounted(context', page')
  <2>1. grid' = IF page' = page THEN Updated(context') ELSE Mounted(context', page')
    BY DEF Continue
  <2>2. page' = page => Updated(context') = Mounted(context', page')
    BY BoundaryFollows DEF IInv
  <2> QED
    BY <2>1, <2>2
<1> QED
  BY <1>3, <1>4

\* The sessions that are left after a request is gone.
LEMMA SessionsLeft ==
  ASSUME IInv, ForgetSessions, cookie' \in Sids
  PROVE  /\ session' \in [Sids -> Session]
         /\ session'[cookie'] = session[cookie']
         /\ \A s \in Sids : session'[s] \in {session[s], Dead}
<1>1. cookie' \in Held'
  BY DEF Held
<1>2. session' = [s \in Sids |-> IF s \in Held' THEN session[s] ELSE Dead]
  BY DEF ForgetSessions
<1>3. session \in [Sids -> Session] /\ Dead \in Session
  BY DEF IInv, TypeOK, Session
<1> QED
  BY <1>1, <1>2, <1>3

\* A request is gone or given up: what Receive and Lose have in common.
LEMMA GoneStep ==
  ASSUME IInv, NEW i \in Calls, Busy(i), NEW ok, Continue(i, ok),
         NEW v \in Call \cup {NoCall}, call' = [call EXCEPT ![i] = v],
         UNCHANGED <<account, sent>>, ForgetSessions, cookie' \in Sids
  PROVE  /\ happened' \in SUBSET EventNames => TypeOK'
         /\ (grid = Mounted(context, page))'
         /\ call'[i] = v
         /\ \A j \in Calls \ {i} : Busy(j)' => Busy(j) /\ CallInv(j)' /\ call'[j] = call[j]
<1>1. /\ context' \in Users /\ overlay' \in Overlays
      /\ alert' \in [Modals -> BOOLEAN] /\ page' \in Pages
      /\ grid' = Mounted(context', page')
  BY ContinueType
<1>2. grid' \in {"none", "rows", "failed"}
  BY <1>1, MountedType
<1>3. session' \in [Sids -> Session]
  BY SessionsLeft
<1>4. call' \in [Calls -> Call \cup {NoCall}]
  BY DEF IInv, TypeOK
<1>5. \A j \in Calls : call'[j] = IF j = i THEN v ELSE call[j]
  BY DEF IInv, TypeOK
<1>6. happened' \in SUBSET EventNames => TypeOK'
  BY <1>1, <1>2, <1>3, <1>4 DEF IInv, TypeOK
<1>7. (grid = Mounted(context, page))'
  BY <1>1 DEF Mounted, Caught
<1>8. ASSUME NEW j \in Calls \ {i}, Busy(j)'
      PROVE  Busy(j) /\ CallInv(j)' /\ call'[j] = call[j]
  <2>1. Busy(j) /\ call'[j] = call[j]
    BY <1>5, <1>8 DEF Busy
  <2>2. \A k \in Calls : call'[k] # NoCall => Busy(k)
    BY <1>5 DEF Busy
  <2> QED
    BY <2>1, <2>2, OthersKeep
<1> QED
  BY <1>5, <1>6, <1>7, <1>8

LEMMA LoseStep == ASSUME IInv, NEW i \in Calls, Lose(i) PROVE IInv'
<1>1. /\ Busy(i) /\ Continue(i, FALSE)
      /\ happened' = happened \cup {"lost"}
      /\ UNCHANGED <<account, cookie, sent>> /\ ForgetSessions
  BY DEF Lose
<1>2. call[i] \in Call /\ CallInv(i)
  BY <1>1 DEF IInv, TypeOK, Busy
<1>3. PICK v \in Call \cup {NoCall} :
        /\ call' = [call EXCEPT ![i] = v]
        /\ v # NoCall => /\ call[i].phase # "served" /\ v.phase = call[i].phase
                         /\ v.kind = call[i].kind /\ v.sid = call[i].sid
                         /\ v.email = call[i].email /\ v.password = call[i].password
                         /\ v.alone = call[i].alone
  <2>1. CASE call' = [call EXCEPT ![i] = NoCall]
    BY <2>1
  <2>2. CASE call[i].phase # "served" /\ call' = [call EXCEPT ![i].dropped = TRUE]
    <3> DEFINE w == [call[i] EXCEPT !.dropped = TRUE]
    <3>1. /\ w \in Call /\ w.phase = call[i].phase /\ w.kind = call[i].kind
          /\ w.sid = call[i].sid /\ w.email = call[i].email
          /\ w.password = call[i].password /\ w.alone = call[i].alone
      BY <1>2 DEF Call
    <3>2. call' = [call EXCEPT ![i] = w]
      BY <2>2 DEF IInv, TypeOK
    <3> HIDE DEF w
    <3> QED
      BY <2>2, <3>1, <3>2
  <2> QED
    BY <2>1, <2>2 DEF Lose
<1>4. cookie' \in Sids /\ happened' \in SUBSET EventNames
  BY <1>1 DEF IInv, TypeOK, EventNames
<1>5. /\ TypeOK' /\ (grid = Mounted(context, page))' /\ call'[i] = v
      /\ \A j \in Calls \ {i} : Busy(j)' => Busy(j) /\ CallInv(j)' /\ call'[j] = call[j]
  BY <1>1, <1>3, <1>4, GoneStep
<1>6. Only(i) => Only(i)'
  BY <1>5 DEF Only
<1>7. Busy(i)' => CallInv(i)'
  <2> SUFFICES ASSUME v # NoCall PROVE CallInv(i)'
    BY <1>5 DEF Busy
  <2>1. account' = account
    BY <1>1
  <2> QED
    BY <1>2, <1>3, <1>5, <1>6, <2>1 DEF CallInv
<1>8. OneAtATime'
  <2> SUFFICES ASSUME "overlap" \notin happened', NEW j \in Calls, Busy(j)'
               PROVE  call'[j].alone /\ Only(j)'
    BY <1>1 DEF OneAtATime
  <2>1. call[i].alone /\ Only(i)
    BY <1>1, AloneNow DEF Only
  <2>2. j = i
    BY <1>6, <2>1 DEF Only
  <2>3. v # NoCall /\ call'[i] = v
    BY <1>5, <2>2 DEF Busy
  <2> QED
    BY <1>3, <1>6, <2>1, <2>2, <2>3
<1>9. NobodyElseInv' /\ SignedInInv'
  BY <1>1 DEF NobodyElseInv, SignedInInv
<1> QED
  BY <1>5, <1>7, <1>8, <1>9 DEF IInv

\* What a reply leaves behind when the browser is told nothing wrong: the context is what
\* the server would say.
LEMMA ReceivedStep ==
  ASSUME IInv, NEW i \in Calls, Receive(i)
  PROVE  /\ cookie' \in Sids /\ happened' \in {{}, happened}
         /\ "overlap" \notin happened' => Only(i)
         /\ happened' = {} => Right'
         /\ happened' \subseteq {"expire"} => Shown'
<1> DEFINE made == /\ call[i].ok /\ call[i].kind # "me" /\ call[i].alone
                   /\ session[cookie'] # Dead
<1>1. /\ Busy(i) /\ call[i].phase = "served" /\ cookie' = CookieAfter(i)
      /\ Continue(i, call[i].ok) /\ ForgetSessions
      /\ happened' = IF made THEN {} ELSE happened
  BY DEF Receive
<1>2. call[i] \in Call /\ CallInv(i)
  BY <1>1 DEF IInv, TypeOK, Busy
<1>3. cookie' \in Sids /\ (call[i].sid \in Sids => cookie' = call[i].sid)
                       /\ (call[i].sid = NoSid => cookie' = cookie)
  BY <1>1, <1>2, SidFacts DEF CookieAfter, Call, IInv, TypeOK
<1>4. session'[cookie'] = session[cookie']
  BY <1>1, <1>3, SessionsLeft
<1>5. CASE made
  <2>1. happened' = {} /\ Only(i)
    BY <1>1, <1>2, <1>5 DEF CallInv
  <2>2. call[i].kind \in {"login", "signup"} /\ call[i].sid \in Sids
    <3>1. call[i].kind \in {"me", "login", "signup", "logout"}
      BY <1>2 DEF Call
    <3>2. call[i].kind # "logout" /\ call[i].sid \in Sids
      BY <1>1, <1>2, <1>5 DEF CallInv
    <3> QED
      BY <1>5, <3>1, <3>2
  <2>3. session[cookie'] # Dead /\ session[cookie'].user = call[i].who
    BY <1>1, <1>2, <1>3, <1>5, <2>2 DEF CallInv
  <2>4. context' = call[i].who
    BY <1>1, <1>5, <2>2 DEF Continue, TakeMe, Clear, Welcome, Retry
  <2>5. SignedIn' = context'
    BY <1>4, <2>3, <2>4 DEF SignedIn
  <2> QED
    BY <1>3, <2>1, <2>5 DEF Right, Shown
<1>6. CASE ~made
  <2>1. happened' = happened
    BY <1>1, <1>6
  <2>2. ASSUME happened = {} PROVE Right'
    <3>1. call[i].alone /\ Truthful(i)
      BY <1>1, <2>2, AloneNow DEF IInv, NobodyElseInv
    <3>2. CASE call[i].kind = "logout"
      BY <1>1, <3>2 DEF Continue, TakeMe, Clear, Welcome, Retry, Right
    <3>3. CASE call[i].kind = "me"
      <4>1. call[i].sid = NoSid /\ Right /\ (call[i].ok => call[i].who = SignedIn)
        BY <1>1, <3>1, <3>3 DEF Truthful
      <4>2. cookie' = cookie /\ SignedIn' = SignedIn
        BY <1>3, <1>4, <4>1 DEF SignedIn
      <4>3. context' = IF call[i].ok THEN call[i].who ELSE context
        BY <1>1, <3>3 DEF Continue, TakeMe, Clear, Welcome, Retry
      <4> QED
        BY <4>1, <4>2, <4>3 DEF Right
    <3>4. CASE call[i].kind \in {"login", "signup"}
      <4>1. ~call[i].ok
        <5> SUFFICES ASSUME call[i].ok PROVE FALSE
          OBVIOUS
        <5>1. call[i].sid \in Sids /\ session[call[i].sid] # Dead
          BY <1>1, <1>2, <3>1, <3>4 DEF CallInv, Truthful
        <5>2. cookie' = call[i].sid
          BY <1>3, <5>1
        <5>3. session[cookie'] # Dead
          BY <5>1, <5>2
        <5> QED
          BY <1>6, <3>1, <3>4, <5>3
      <4>2. call[i].sid = NoSid /\ Right
        BY <1>1, <3>1, <3>4, <4>1 DEF Truthful
      <4>3. cookie' = cookie /\ SignedIn' = SignedIn
        BY <1>3, <1>4, <4>2 DEF SignedIn
      <4>4. context' = context
        BY <1>1, <3>4, <4>1 DEF Continue, TakeMe, Clear, Welcome, Retry
      <4> QED
        BY <4>2, <4>3, <4>4 DEF Right
    <3> QED
      BY <1>2, <3>2, <3>3, <3>4 DEF Call
  <2>3. ASSUME happened \subseteq {"expire"} PROVE Shown'
    <3>1. call[i].alone /\ Telling(i)
      BY <1>1, <2>3, AloneNow DEF IInv, SignedInInv
    <3>2. CASE call[i].kind = "logout"
      <4>1. ~call[i].ok /\ call[i].sid = NoSid /\ session[cookie] = Dead
        BY <1>1, <1>2, <3>1, <3>2 DEF Telling, CallInv
      <4> QED
        BY <1>3, <1>4, <4>1 DEF Shown
    <3>3. CASE call[i].kind = "me"
      <4>1. /\ call[i].sid = NoSid /\ context = NoOne
            /\ session[cookie] # Dead /\ session[cookie].custom
                 => SignedIn = IF call[i].ok THEN call[i].who ELSE NoOne
        BY <1>1, <3>1, <3>3 DEF Telling
      <4>2. cookie' = cookie /\ SignedIn' = SignedIn
        BY <1>3, <1>4, <4>1 DEF SignedIn
      <4>3. context' = IF call[i].ok THEN call[i].who ELSE context
        BY <1>1, <3>3 DEF Continue, TakeMe, Clear, Welcome, Retry
      <4> QED
        BY <1>4, <4>1, <4>2, <4>3 DEF Shown
    <3>4. CASE call[i].kind \in {"login", "signup"}
      <4>1. CASE call[i].ok
        <5>1. session[cookie'] = Dead
          BY <1>6, <3>1, <3>4, <4>1
        <5> QED
          BY <1>4, <5>1 DEF Shown
      <4>2. CASE ~call[i].ok
        <5>1. call[i].sid = NoSid /\ Shown
          BY <1>1, <3>1, <3>4, <4>2 DEF Telling
        <5>2. cookie' = cookie /\ SignedIn' = SignedIn
          BY <1>3, <1>4, <5>1 DEF SignedIn
        <5>3. context' = context
          BY <1>1, <3>4, <4>2 DEF Continue, TakeMe, Clear, Welcome, Retry
        <5> QED
          BY <1>4, <5>1, <5>2, <5>3 DEF Shown
      <4> QED
        BY <4>1, <4>2
    <3> QED
      BY <1>2, <3>2, <3>3, <3>4 DEF Call
  <2>4. "overlap" \notin happened => Only(i)
    BY <1>1, AloneNow DEF Only
  <2> QED
    BY <1>3, <2>1, <2>2, <2>3, <2>4
<1> QED
  BY <1>5, <1>6

LEMMA ReceiveStep == ASSUME IInv, NEW i \in Calls, Receive(i) PROVE IInv'
<1>1. /\ Busy(i) /\ Continue(i, call[i].ok)
      /\ call' = [call EXCEPT ![i] = NoCall]
      /\ ForgetSessions /\ UNCHANGED <<account, sent>>
  BY DEF Receive
<1>2. /\ cookie' \in Sids /\ happened' \in {{}, happened}
      /\ "overlap" \notin happened' => Only(i)
      /\ happened' = {} => Right'
      /\ happened' \subseteq {"expire"} => Shown'
  BY ReceivedStep
<1>3. happened' \in SUBSET EventNames
  BY <1>2 DEF IInv, TypeOK
<1>4. /\ TypeOK' /\ (grid = Mounted(context, page))'
      /\ \A j \in Calls : Busy(j)' => Busy(j) /\ j # i /\ CallInv(j)'
  BY <1>1, <1>2, <1>3, GoneStep DEF Busy
<1>5. "overlap" \notin happened' => \A j \in Calls : ~Busy(j)'
  BY <1>2, <1>4 DEF Only
<1>6. OneAtATime'
  BY <1>5 DEF OneAtATime
<1>7. NobodyElseInv'
  <2> SUFFICES ASSUME happened' = {} PROVE Right' /\ \A j \in Calls : ~Busy(j)'
    BY DEF NobodyElseInv
  <2> QED
    BY <1>2, <1>5
<1>8. SignedInInv'
  <2> SUFFICES ASSUME happened' \subseteq {"expire"}
               PROVE  Shown' /\ \A j \in Calls : ~Busy(j)'
    BY DEF SignedInInv
  <2> QED
    BY <1>2, <1>5
<1> QED
  BY <1>4, <1>6, <1>7, <1>8 DEF IInv

(***************************************************************************)
(* The theorems.                                                           *)
(***************************************************************************)

LEMMA StutterStep == ASSUME IInv, UNCHANGED vars PROVE IInv'
<1>1. /\ UNCHANGED <<server, cookie, call, context, happened, sent>>
      /\ UNCHANGED <<overlay, alert, page, grid>>
  BY DEF vars, ui
<1> QED
  BY <1>1, PageStep DEF IInv, TypeOK

LEMMA StepInv == IInv /\ [Next]_vars => IInv'
<1> SUFFICES ASSUME IInv, [Next]_vars PROVE IInv'
  OBVIOUS
<1>1. CASE Click
  <2>1. CASE \E m \in Modals : CloseModal(m) \/ SwitchModal(m)
    BY <2>1, CloseModalStep, SwitchModalStep
  <2> QED
    BY <1>1, <2>1, OpenStep, CloseNavMenuStep, CloseUserMenuStep, LogOutStep, NavigateStep,
       ReloadStep, SubmitLogInStep, SubmitSignUpStep DEF Click
<1>2. CASE Expire
  BY <1>2, ExpireStep
<1>3. CASE \E e \in Emails : Invite(e)
  BY <1>3, InviteStep
<1>4. CASE \E i \in Calls : Serve(i) \/ Receive(i) \/ Lose(i)
  <2>1. PICK i \in Calls : Serve(i) \/ Receive(i) \/ Lose(i)
    BY <1>4
  <2>2. CASE Serve(i)
    BY <2>2, ServeMeStep, ServeLoginStep, ServeLogoutStep, LookUpStep, SignUpStep,
       SignUpClashesStep DEF Serve
  <2> QED
    BY <2>1, <2>2, ReceiveStep, LoseStep
<1>5. CASE UNCHANGED vars
  BY <1>5, StutterStep
<1> QED
  BY <1>1, <1>2, <1>3, <1>4, <1>5 DEF Next

\* The inductive invariant: requests keep to their sessions, one at a time unless they
\* overlap, and the reply on its way tells the page what the server would.
THEOREM Invariance == Spec => []IInv
BY InitInv, StepInv, PTL DEF Spec

\* Every variable keeps to its type.
THEOREM Typing == Spec => []TypeOK
<1>1. IInv => TypeOK
  BY DEF IInv
<1> QED
  BY <1>1, Invariance, PTL

\* At rest, the page names no user whom the server would not answer for.
THEOREM Naming == Spec => []NobodyElse
<1>1. IInv => NobodyElse
  BY DEF IInv, NobodyElseInv, NobodyElse, Right
<1> QED
  BY <1>1, Invariance, PTL

\* At rest, a user with a session is shown as signed in.
THEOREM Showing == Spec => []SignedInIsShown
<1>1. IInv => SignedInIsShown
  BY DEF IInv, SignedInInv, SignedInIsShown, Shown
<1> QED
  BY <1>1, Invariance, PTL

\* The dashboard prompts for signing in exactly while nobody is signed in: by induction
\* over the failures and the resets of its error boundary.
THEOREM Prompting == Spec => []DashboardPrompts
<1>1. IInv => DashboardPrompts
  BY DEF IInv, DashboardPrompts, Mounted, Caught
<1> QED
  BY <1>1, Invariance, PTL

\* A sign-up that was alone never writes over a registered account.
THEOREM Keeping == Spec => PasswordKept
<1> DEFINE A == \A i \in Calls :
                  Registers(i) /\ account[call[i].email] \in Passwords => ~call[i].alone
<1>1. IInv => A
  BY DEF IInv, CallInv, Registers
<1>2. IInv /\ [Next]_vars => [A]_vars
  BY <1>1
<1> QED
  BY <1>2, Invariance, PTL DEF Spec, PasswordKept

=============================================================================
