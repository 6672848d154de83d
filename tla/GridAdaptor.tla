----------------------------- MODULE GridAdaptor -----------------------------
(***************************************************************************)
(* The grids and schedules of the client, and RestAdaptor between them and *)
(* the tables of the server: what an edit sends, what is reported of it,   *)
(* and what is shown afterwards, while other users edit the same tables.   *)
(* How the Syncfusion components call an adaptor is external: one call for *)
(* each edit, a batch for each edit of a schedule, and after a success the *)
(* rows are fetched again.  The server is that of production, which exports *)
(* the annotated methods of the repositories only: plans can be deleted,   *)
(* slots and invitations cannot, though the grids offer it.                *)
(***************************************************************************)
EXTENDS Naturals, FiniteSets

CONSTANTS
  Users,
  NoOne,       \* the user column of a table without one
  Values,      \* titles of plans and capacities of slots
  Grids,       \* those of the dashboard, of a meeting and of a copy that are opened
  Events,      \* "expire": the server forgets sessions; "batch": a user edits
               \* several time slots at once
  MaxRows,     \* bound: ids of each table
  MaxActs      \* bound: pages opened, edits and publications of all users

ASSUME GridsKnown   == Grids \subseteq
  {"events", "pending", "invitations", "guests", "solutions", "schedule"}
ASSUME EventsKnown  == Events \subseteq {"expire", "batch"}
ASSUME SomeValue    == Values # {}
ASSUME BoundsAreNat == MaxRows \in Nat \ {0, 1} /\ MaxActs \in Nat

Tables == {"rosterPlan", "rosterPlanUserInfo", "timeSlot"}
Ids    == 1 .. MaxRows

\* of: the parent of a plan or 0, the plan of a slot or an invitation.  who: the
\* owner of a plan, the user of an invitation.
Row == [table : Tables, id : 0 .. MaxRows, of : 0 .. MaxRows,
        who : Users \cup {NoOne}, val : Values]

\* A row of a table: it has an id.
Stored == {r \in Row : r.id \in Ids}

Methods == {"PUT", "POST", "DELETE"}
View    == [grid : Grids, plan : 0 .. MaxRows]
Change  == [method : Methods, row : Row]

VARIABLES
  rows,      \* the tables
  nextId,    \* nextId[t]: identity column of table t
  live,      \* live[u]: the session of the user is known to the server
  view,      \* view[u]: the grid the user looks at, and the plan of its page
  shown,     \* shown[u]: its rows
  op,        \* op[u]: the last edit of the user
  waiting,   \* waiting[u]: fetches of the grid that the server has not served
  fetched,   \* fetched[u]: fetches whose replies are on the way
  \* bookkeeping
  version,   \* how many changes the tables have seen
  at,        \* at[u]: the version that is shown
  overtaken, \* overtaken[u]: a reply has been overtaken by that of a later fetch
  acts       \* pages opened, edits and publications so far

tables == <<rows, nextId, version>>
screen == <<view, shown, at, overtaken>>
vars   == <<tables, live, screen, op, waiting, fetched, acts>>

\* What the server answers to a fetch, of the tables as they were at a version.
Reply == [ok : BOOLEAN, rows : SUBSET Stored, at : Nat]

\* seen: what was shown when the edit was made.  asked: the changes of the edit.
\* sent, served: those on the way to and from the server.  done: those it has
\* made, the last as version at.
Edit == [seen : SUBSET Stored, asked : SUBSET Change, sent : SUBSET Change,
         served : SUBSET [change : Change, status : {"ok", "loginPage", "error"}],
         done : SUBSET Change, at : Nat, saved : BOOLEAN, failed : BOOLEAN]

NoEdit == [seen |-> {}, asked |-> {}, sent |-> {}, served |-> {}, done |-> {}, at |-> 0,
           saved |-> FALSE, failed |-> FALSE]

Idle(u) == op[u].sent = {} /\ op[u].served = {}

-----------------------------------------------------------------------------
(***************************************************************************)
(* The data managers of the grids.                                         *)
(***************************************************************************)

\* GET: the rows behind the url of the grid.
Rendered(u, v) ==
  {r \in rows :
     \/ v.grid = "events"    /\ r.table = "rosterPlan" /\ r.of = 0 /\ r.who = u
     \/ v.grid = "solutions" /\ r.table = "rosterPlan" /\ r.of = v.plan
     \/ v.grid = "pending"   /\ r.table = "rosterPlanUserInfo" /\ r.who = u
     \/ /\ v.grid \in {"invitations", "guests"}
        /\ r.table = "rosterPlanUserInfo" /\ r.of = v.plan
     \/ v.grid = "schedule"  /\ r.table = "timeSlot" /\ r.of = v.plan}

\* What may be edited.  The schedule of a solution is not read-only either, nor
\* are its invitations: the grid expects the property by another name.
EventEdits(u) ==
  [method : {"POST"}, row : [table : {"rosterPlan"}, id : {0}, of : {0},
                             who : {u}, val : Values]]
  \cup [method : {"PUT"}, row : {[s EXCEPT !.val = x] : s \in shown[u], x \in Values}]
  \cup [method : {"DELETE"}, row : shown[u]]

InvitationEdits(u) ==
  [method : {"POST"}, row : [table : {"rosterPlanUserInfo"}, id : {0},
                             of : {view[u].plan}, who : Users,
                             val : {CHOOSE x \in Values : TRUE}]]
  \cup [method : {"DELETE"}, row : shown[u]]

SlotEdits(u) ==
  [method : {"POST"}, row : [table : {"timeSlot"}, id : {0}, of : {view[u].plan},
                             who : {NoOne}, val : Values]]
  \cup [method : {"PUT"}, row : {[s EXCEPT !.val = x] : s \in shown[u], x \in Values}]
  \cup [method : {"DELETE"}, row : shown[u]]

\* The key of the grid is the id of the plan, and the url is that of the plans.
PendingEdits(u) ==
  [method : {"DELETE"}, row : {[s EXCEPT !.table = "rosterPlan", !.id = s.of] :
                                 s \in shown[u]}]

Edits(u) ==
  CASE view[u].grid = "events"      -> EventEdits(u)
    [] view[u].grid = "invitations" -> InvitationEdits(u)
    [] view[u].grid = "schedule"    -> SlotEdits(u)
    [] view[u].grid = "pending"     -> PendingEdits(u)
    [] OTHER                        -> {}

\* The edits a schedule may hand over together: of different rows.
Batches(u) ==
  IF view[u].grid = "schedule" /\ "batch" \in Events
  THEN {S \in SUBSET Edits(u) : /\ Cardinality(S) \in 1 .. 2
                                /\ \A c, d \in S : c.row.id = d.row.id => c = d}
  ELSE {{c} : c \in Edits(u)}

\* batchUpdate sends the first changed, the first added and the first deleted.
FirstOfEach(asked) ==
  {S \in SUBSET asked :
     \A c \in asked : Cardinality({d \in S : d.method = c.method}) = 1}

-----------------------------------------------------------------------------
\* The pages there are: those of a plan need one.
Page(v) ==
  /\ v.plan = 0 <=> v.grid \in {"events", "pending"}
  /\ v.plan # 0 => \E r \in rows : r.table = "rosterPlan" /\ r.id = v.plan

\* A meeting with or without a slot, an invitation and a copy, which may hold none
\* of either: it may have been taken before they were added.  Every user has a page
\* before them.
Init ==
  /\ \E owner, guest \in Users, val \in Values :
       LET meeting == [table |-> "rosterPlan", id |-> 1, of |-> 0, who |-> owner, val |-> val]
           copy == [meeting EXCEPT !.id = 2, !.of = 1]
           slot == [table |-> "timeSlot", id |-> 1, of |-> 1, who |-> NoOne, val |-> val]
           invitation == [slot EXCEPT !.table = "rosterPlanUserInfo", !.who = guest]
       IN \E more \in SUBSET {copy, slot, invitation} : rows = {meeting} \cup more
  /\ nextId = [t \in Tables |-> 1 + Cardinality({r \in rows : r.table = t})]
  /\ live = [u \in Users |-> TRUE]
  /\ view \in [Users -> {v \in View : Page(v)}]
  /\ shown = [u \in Users |-> Rendered(u, view[u])]
  /\ op = [u \in Users |-> NoEdit]
  /\ waiting = [u \in Users |-> 0]
  /\ fetched = [u \in Users |-> {}]
  /\ version = 0
  /\ at = [u \in Users |-> 0]
  /\ overtaken = [u \in Users |-> FALSE]
  /\ acts = 0

\* A page is opened; replies to the page before find no grid.
OpenView(u, v) ==
  /\ Idle(u) /\ acts < MaxActs
  /\ v # view[u] /\ Page(v)
  /\ view' = [view EXCEPT ![u] = v]
  /\ shown' = [shown EXCEPT ![u] = {}]
  /\ at' = [at EXCEPT ![u] = 0]
  /\ overtaken' = [overtaken EXCEPT ![u] = FALSE]
  /\ op' = [op EXCEPT ![u] = NoEdit]
  /\ waiting' = [waiting EXCEPT ![u] = 1]
  /\ fetched' = [fetched EXCEPT ![u] = {}]
  /\ acts' = acts + 1
  /\ UNCHANGED <<tables, live>>

\* addRecord, updateRecord, deleteRecord, batchUpdate.
Begin(u) ==
  /\ Idle(u) /\ acts < MaxActs
  /\ \E asked \in Batches(u) : \E sent \in FirstOfEach(asked) :
       op' = [op EXCEPT ![u] = [NoEdit EXCEPT !.seen = shown[u], !.asked = asked, !.sent = sent]]
  /\ acts' = acts + 1
  /\ UNCHANGED <<tables, live, screen, waiting, fetched>>

-----------------------------------------------------------------------------
(***************************************************************************)
(* The server: Spring Data REST on the tables.                             *)
(***************************************************************************)

Same(r)   == {x \in rows : x.table = r.table /\ x.id = r.id}
HasPlan(r) == \E p \in rows : p.table = "rosterPlan" /\ p.id = r.of

\* Slip: only the slots of a plan refer to it.
ReferredBySlots(r) ==
  r.table = "rosterPlan" /\ \E x \in rows : x.table = "timeSlot" /\ x.of = r.id

\* The foreign keys of slots and invitations; parent_id has none.
Referred(r) ==
  /\ r.table = "rosterPlan"
  /\ \E x \in rows : x.table # "rosterPlan" /\ x.of = r.id

\* A PUT to an id that is gone inserts a slot, but no plan: it has no owner.
Inserts(c) ==
  \/ c.method = "POST"
  \/ c.method = "PUT" /\ Same(c.row) = {} /\ c.row.table = "timeSlot"

\* Slip: the row keeps the id of the request.
AsSent(c) == c.row

\* The row that is inserted: the table gives the id.
Numbered(c) == [c.row EXCEPT !.id = nextId[c.row.table]]

\* RosterPlanRepository alone exports delete.
Deletable(r) == r.table = "rosterPlan"

\* The tables with the change made, {} if it is refused.
Outcomes(c) ==
  {after \in {rows \cup {Numbered(c)}} :
     Inserts(c) /\ (c.row.table = "rosterPlan" \/ HasPlan(c.row))}
  \cup {after \in {(rows \ Same(c.row)) \cup {[x EXCEPT !.val = c.row.val] : x \in Same(c.row)}} :
     c.method = "PUT" /\ Same(c.row) # {}}
  \cup {after \in {rows \ Same(c.row)} :
     /\ c.method = "DELETE" /\ Same(c.row) # {}
     /\ Deletable(c.row) /\ ~Referred(c.row)}

Sent(u, c) == c \in op[u].sent

Served(u, c, status) ==
  op' = [op EXCEPT
    ![u].sent   = @ \ {c},
    ![u].served = @ \cup {[change |-> c, status |-> status]},
    ![u].done   = IF status = "ok" THEN @ \cup {c} ELSE @,
    ![u].at     = IF status = "ok" THEN version + 1 ELSE @]

Serve(u, c) ==
  /\ Sent(u, c) /\ live[u]
  /\ Inserts(c) => nextId[c.row.table] \in Ids
  /\ \/ /\ rows' \in Outcomes(c)
        /\ nextId' = IF Inserts(c) THEN [nextId EXCEPT ![c.row.table] = @ + 1] ELSE nextId
        /\ version' = version + 1
        /\ Served(u, c, "ok")
     \/ /\ Outcomes(c) = {}
        /\ Served(u, c, "error")
        /\ UNCHANGED tables
  /\ UNCHANGED <<live, screen, waiting, fetched, acts>>

\* Without a session a request is sent on to the login page: a POST gets that
\* page, a PUT or DELETE is not allowed there.
Redirect(u, c) ==
  /\ Sent(u, c) /\ ~live[u]
  /\ Served(u, c, IF c.method = "POST" THEN "loginPage" ELSE "error")
  /\ UNCHANGED <<tables, live, screen, waiting, fetched, acts>>

ServeFetch(u) ==
  /\ waiting[u] > 0
  /\ waiting' = [waiting EXCEPT ![u] = @ - 1]
  /\ fetched' = [fetched EXCEPT ![u] = @ \cup
       {[ok |-> live[u], rows |-> IF live[u] THEN Rendered(u, view[u]) ELSE {},
         at |-> version]}]
  /\ UNCHANGED <<tables, live, screen, op, acts>>

\* On the page of a solution somebody publishes the copy c: the slots and invitations
\* of its meeting make room for clones of its own, numbered by their tables, and both
\* plans are written back with the titles that were loaded.
Publish(c) ==
  /\ acts < MaxActs
  /\ c.table = "rosterPlan" /\ c.of # 0 /\ HasPlan(c)
  /\ LET plans == {p \in rows : p.table = "rosterPlan"}
         own   == {r \in rows \ plans : r.of = c.id}
         kept  == {r \in rows \ plans : r.of # c.of}
     IN \E id \in [own -> Ids], title \in [plans -> Values], next \in [Tables -> 1 .. MaxRows + 1] :
          /\ \A p \in plans : p.id \notin {c.id, c.of} => title[p] = p.val
          /\ \A r, s \in own : r.table = s.table /\ id[r] = id[s] => r = s
          /\ \A t \in Tables :
               /\ nextId[t] <= next[t]
               /\ {id[r] : r \in {s \in own : s.table = t}} = nextId[t] .. (next[t] - 1)
          /\ rows' = kept \cup {[r EXCEPT !.id = id[r], !.of = c.of] : r \in own}
                          \cup {[p EXCEPT !.val = title[p]] : p \in plans}
          /\ nextId' = next
  /\ version' = version + 1
  /\ acts' = acts + 1
  /\ UNCHANGED <<live, screen, op, waiting, fetched>>

Expire(u) ==
  /\ "expire" \in Events /\ live[u]
  /\ live' = [live EXCEPT ![u] = FALSE]
  /\ UNCHANGED <<tables, screen, op, waiting, fetched, acts>>

-----------------------------------------------------------------------------
(***************************************************************************)
(* makeRequest and handle: what the grid is told.                          *)
(***************************************************************************)

\* Slip: every reply is a success.
AnyStatus(a) == TRUE

\* Any status 2xx resolves, with an Error for a value if the body is not JSON.
Resolves(a) == a.status \in {"ok", "loginPage"}

\* Slip: the rows are fetched again after the first success of a batch only.
ReportOnce(u, a) ==
  /\ a \in op[u].served
  /\ op' = [op EXCEPT ![u].served = @ \ {a},
                      ![u].saved  = @ \/ Resolves(a),
                      ![u].failed = @ \/ ~Resolves(a)]
  /\ waiting' = [waiting EXCEPT ![u] = IF Resolves(a) /\ ~op[u].saved THEN @ + 1 ELSE @]
  /\ UNCHANGED <<tables, live, screen, fetched, acts>>

\* onSuccess or onFailure; after a success the grid fetches its rows again.
Report(u, a) ==
  /\ a \in op[u].served
  /\ op' = [op EXCEPT ![u].served = @ \ {a},
                      ![u].saved  = @ \/ Resolves(a),
                      ![u].failed = @ \/ ~Resolves(a)]
  /\ waiting' = [waiting EXCEPT ![u] = IF Resolves(a) THEN @ + 1 ELSE @]
  /\ UNCHANGED <<tables, live, screen, fetched, acts>>

\* The rows of a fetch are shown; out of the login page none can be taken.
TakeFetch(u, f) ==
  /\ f \in fetched[u]
  /\ fetched' = [fetched EXCEPT ![u] = @ \ {f}]
  /\ IF f.ok
     THEN /\ shown' = [shown EXCEPT ![u] = f.rows]
          /\ at' = [at EXCEPT ![u] = f.at]
          /\ overtaken' = [overtaken EXCEPT ![u] = @ \/ f.at < at[u]]
     ELSE UNCHANGED <<shown, at, overtaken>>
  /\ UNCHANGED <<tables, live, view, op, waiting, acts>>

-----------------------------------------------------------------------------
Next ==
  \/ \E c \in rows : Publish(c)
  \/ \E u \in Users :
       \/ \E v \in View : OpenView(u, v)
       \/ Begin(u) \/ ServeFetch(u) \/ Expire(u)
       \/ \E c \in op[u].sent : Serve(u, c) \/ Redirect(u, c)
       \/ \E a \in op[u].served : Report(u, a)
       \/ \E f \in fetched[u] : TakeFetch(u, f)

Spec == Init /\ [][Next]_vars

-----------------------------------------------------------------------------
(***************************************************************************)
(* Properties.                                                             *)
(***************************************************************************)

\* Every variable keeps to its type; rows are identified by their ids.
TypeOK ==
  /\ rows \in SUBSET Stored
  /\ \A r, s \in rows : r.table = s.table /\ r.id = s.id => r = s
  /\ nextId \in [Tables -> 1 .. MaxRows + 1]
  /\ live \in [Users -> BOOLEAN]
  /\ view \in [Users -> View]
  /\ shown \in [Users -> SUBSET Stored]
  /\ op \in [Users -> Edit]
  /\ waiting \in [Users -> Nat]
  /\ fetched \in [Users -> SUBSET Reply]
  /\ version \in Nat
  /\ at \in [Users -> Nat]
  /\ overtaken \in [Users -> BOOLEAN]
  /\ acts \in 0 .. MaxActs

\* "You can use the UI to CRUD and results will be persisted in database": when
\* an edit has been reported as saved and nothing of it as failed, all of it has
\* been done.  Except, silently: what a user without a session adds, and all but
\* the first of the rows changed, added or deleted in one batch.
SavedIsDone ==
  \A u \in Users :
    Idle(u) /\ op[u].saved /\ ~op[u].failed =>
      \/ op[u].done = op[u].asked
      \/ ~live[u]
      \/ \E c, d \in op[u].asked : c # d /\ c.method = d.method

\* When an edit has been reported as saved and no fetch is on the way, the grid
\* shows the tables with the edit made, unless replies overtook each other or
\* the session has expired.
OwnEditsShown ==
  \A u \in Users :
    Idle(u) /\ op[u].saved /\ waiting[u] = 0 /\ fetched[u] = {} /\ live[u]
      => overtaken[u] \/ at[u] >= op[u].at

\* A plan is deleted by its owner, or by a user who declines an invitation that
\* was shown to them and that a publication has taken away since; never while
\* somebody is invited to it.
PlansKept ==
  [][\A p \in rows : p.table = "rosterPlan" /\ (\A q \in rows' : q.id # p.id \/ q.table # p.table) =>
       /\ \A r \in rows : r.table = "rosterPlanUserInfo" => r.of # p.id
       /\ \E u \in Users :
            /\ \E c \in op[u].sent : c \notin op'[u].sent /\ c.row.id = p.id
            /\ \/ p.who = u
               \/ \E r \in op[u].seen :
                    /\ r.table = "rosterPlanUserInfo" /\ r.who = u /\ r.of = p.id
                    /\ r \notin rows]_vars

-----------------------------------------------------------------------------
(***************************************************************************)
(* The invariant behind these properties, which are not inductive.         *)
(***************************************************************************)

\* An id is not given twice, and what a row belongs to does not change: what has
\* been fetched of it stays true while the row is there.
Known(s) ==
  /\ s.id < nextId[s.table]
  /\ \A r \in rows : r.table = s.table /\ r.id = s.id => r.of = s.of /\ r.who = s.who

\* The rows of a grid are those behind its url.
Fits(u, s) ==
  /\ view[u].grid = "events"  => s.table = "rosterPlan" /\ s.who = u
  /\ view[u].grid = "pending" => s.table = "rosterPlanUserInfo" /\ s.who = u
  /\ view[u].grid = "invitations" => s.table = "rosterPlanUserInfo"
  /\ view[u].grid = "schedule"    => s.table = "timeSlot"

GridInv(u) ==
  /\ \A s \in shown[u] : Known(s) /\ Fits(u, s)
  /\ \A f \in fetched[u] : \A s \in f.rows : Known(s) /\ Fits(u, s)
  /\ \A s \in op[u].seen : Known(s)

\* What became of each change that was asked for, unless a batch had several of a kind.
Accounted(u) ==
  /\ op[u].done \subseteq op[u].asked
  /\ op[u].sent \subseteq op[u].asked
  /\ \A a \in op[u].served : a.change \in op[u].asked
  /\ \/ ~live[u] \/ op[u].failed
     \/ \E a \in op[u].served : a.status = "error"
     \/ \E c, d \in op[u].asked : c # d /\ c.method = d.method
     \/ op[u].asked \subseteq op[u].sent \cup op[u].done

\* The plan that a change deletes was shown to the user as their own, or as one they
\* are invited to.
MayDelete(u, c) ==
  c.method = "DELETE" /\ c.row.table = "rosterPlan" =>
    \E s \in op[u].seen :
      /\ s.who = u
      /\ \/ s.table = "rosterPlan" /\ s.id = c.row.id
         \/ s.table = "rosterPlanUserInfo" /\ s.of = c.row.id

\* Somebody is going to show the last change that was made.
Refreshing(u) ==
  /\ op[u].at <= version
  /\ \/ ~live[u] \/ overtaken[u] \/ at[u] >= op[u].at
     \/ waiting[u] > 0
     \/ \E f \in fetched[u] : f.ok /\ f.at >= op[u].at
     \/ \E a \in op[u].served : Resolves(a)

IInv ==
  /\ TypeOK
  /\ \A r \in rows : r.id < nextId[r.table]
  /\ \A u \in Users :
       /\ GridInv(u) /\ Accounted(u) /\ Refreshing(u)
       /\ \A c \in op[u].sent : MayDelete(u, c)
=============================================================================
