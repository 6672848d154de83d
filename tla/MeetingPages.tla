---------------------------- MODULE MeetingPages ----------------------------
(***************************************************************************)
(* The pages of a meeting and of its copies in one browser tab: MeetingEdit *)
(* and MeetingViewSolution with their forms, and MeetingRank.  useSWR caches *)
(* what was loaded by its url; the title field and the slider take their   *)
(* first value from there and keep state of their own from then on, as long *)
(* as they stay mounted.  Saves, loads and page changes may overlap, and    *)
(* the server writes whole rows: what a save does not mean to change goes   *)
(* back to what it was when the save, or the solver, read it.               *)
(***************************************************************************)
EXTENDS Naturals, FiniteSets

CONSTANTS
  Meetings, Copies,  \* plans without a parent, and ids of plans that get one
  NoPlan,
  Titles, Todo,      \* Todo: the title of each generated copy
  Counts,            \* pairs of the least and greatest number of allocations
  Calls,             \* requests that may be on the way at a time
  NoCall, NoData, NoForm,
  MaxSends           \* bound: requests

ASSUME PlansKnown  == Meetings \cap Copies = {} /\ NoPlan \notin Meetings \cup Copies
ASSUME TodoIsTitle == Todo \in Titles
ASSUME BoundIsNat  == MaxSends \in Nat

Plans  == Meetings \cup Copies
Data   == [title : Titles, counts : Counts]
Page   == [kind : {"edit", "rank"}, plan : Meetings]
            \cup [kind : {"solution"}, plan : Copies]
            \cup [kind : {"other"}, plan : {NoPlan}]
Doubts == {"stale", "carried", "typed", "overlap", "failed", "titleBack", "countsBack"}

\* title, dirty: TitleEdit.  counts: the slider, held while it is moved.
\* typedOn: the plan of the page when the title was set.
Form == [title : Titles, dirty : BOOLEAN, counts : Counts, held : BOOLEAN,
         typedOn : Plans]

\* form: as it was at the click.  row, above: what has been read of the plan and of
\* its parent, and is to be replied or written.  alive: the component that waits for
\* the reply is still mounted and has not been told that the connection failed.
Call == [kind : {"load", "title", "counts", "generate", "publish"}, plan : Plans,
         form : Form \cup {NoForm}, phase : {"sent", "read", "served"}, ok : BOOLEAN,
         row : Data \cup {NoData}, above : Data \cup {NoData},
         alive : BOOLEAN, carried : BOOLEAN]

\* A solver task: the counts of its problem, and the title once it has ended and
\* read the row again.
Task == [title : Titles \cup {NoData}, counts : Counts]

\* A request, data and a form are records.
ASSUME NoneIsNone == NoCall \notin Call /\ NoData \notin Data /\ NoForm \notin Form

VARIABLES
  \* the server
  title, counts,  \* of each plan
  parent,         \* parent[c]: NoPlan until the copy is generated
  solver,         \* solver[c]: the task of a copy, or NoData
  \* the tab
  cache,          \* cache[p]: data of the plan's url
  refused,        \* plans whose url has an error in the cache
  page,
  form,           \* the forms of the page, NoForm unless they are mounted
  call,
  \* bookkeeping
  doubt,          \* why the form need not show what the server has
  sent

server == <<title, counts, parent, solver>>
tab    == <<cache, refused, page, form>>
vars   == <<server, tab, call, doubt, sent>>

OnServer(p) == [title |-> title[p], counts |-> counts[p]]
Busy(i)     == call[i] # NoCall
OnTheWay(kind, p) == {i \in Calls : Busy(i) /\ call[i].kind = kind /\ call[i].plan = p}
Unserved(kind, p) == {i \in OnTheWay(kind, p) : call[i].phase # "served"}

\* Something on the way that will change what the server has of a plan.
ChangesAhead(p) ==
  Unserved("title", p) \cup Unserved("counts", p)
    \cup UNION {Unserved("publish", c) : c \in {d \in Copies : parent[d] = p}}

Home == [kind |-> "other", plan |-> NoPlan]

Init ==
  /\ \E t \in Titles : title = [p \in Plans |-> IF p \in Copies THEN Todo ELSE t]
  /\ counts \in [Plans -> Counts]
  /\ parent \in [Copies -> Meetings \cup {NoPlan}]
  /\ solver \in [Copies -> [title : {NoData}, counts : Counts] \cup {NoData}]
  /\ \A c \in Copies : parent[c] = NoPlan => solver[c] = NoData
  /\ cache = [p \in Plans |-> NoData]
  /\ refused = {}
  /\ page = Home
  /\ form = NoForm
  /\ call = [i \in Calls |-> NoCall]
  /\ doubt = {}
  /\ sent = 0

-----------------------------------------------------------------------------
(***************************************************************************)
(* Pages.                                                                  *)
(***************************************************************************)

\* error is thrown to the boundary of the page, without data there is a
\* spinner, with data there is the page.
Failed  == page.plan \in refused
Loading == page.plan # NoPlan /\ ~Failed /\ cache[page.plan] = NoData

Request(kind, p) ==
  [kind |-> kind, plan |-> p, form |-> form, phase |-> "sent", ok |-> FALSE,
   row |-> NoData, above |-> NoData, alive |-> TRUE, carried |-> "carried" \in doubt]

Send(kind, p) ==
  /\ sent < MaxSends /\ sent' = sent + 1
  /\ \E i \in Calls : ~Busy(i) /\ call' = [call EXCEPT ![i] = Request(kind, p)]

\* A component that is gone does not hear of the replies to its requests.
Orphaned(i) == IF Busy(i) THEN [call[i] EXCEPT !.alive = FALSE] ELSE NoCall

Fresh(d, p) ==
  [title |-> d.title, dirty |-> FALSE, counts |-> d.counts, held |-> FALSE, typedOn |-> p]

HasForm(pg) ==
  pg.kind \in {"edit", "solution"} /\ pg.plan \notin refused /\ cache[pg.plan] # NoData

\* From a page to one of the same route the same components are rendered, if
\* there is data for it at once: they keep their state.
Carried(pg) == HasForm(pg) /\ form # NoForm /\ pg.kind = page.kind

\* Slip: the state outlives a spinner between the two.
FormKept(pg) ==
  IF form # NoForm /\ pg.kind = page.kind THEN form
  ELSE IF HasForm(pg) THEN Fresh(cache[pg.plan], pg.plan) ELSE NoForm

FormOn(pg) ==
  IF Carried(pg) THEN form
  ELSE IF HasForm(pg) THEN Fresh(cache[pg.plan], pg.plan) ELSE NoForm

Stale(d, p) == IF d # OnServer(p) \/ ChangesAhead(p) # {} THEN {"stale"} ELSE {}

DoubtOn(pg) ==
  IF Carried(pg) THEN doubt \cup {"carried"}
  ELSE IF HasForm(pg) THEN Stale(cache[pg.plan], pg.plan) ELSE {}

Held == form # NoForm /\ form.held

\* A link, handleGoBack, or the history of the tab, which may hold any page.
\* useSWR loads what is shown from the cache again, together with a request of
\* the same url that is on the way; an error in the cache is thrown at once.
Open(pg) ==
  /\ pg # page
  /\ pg.kind = "solution" => parent[pg.plan] # NoPlan
  /\ ~Held
  /\ page' = pg
  /\ form' = FormOn(pg)
  /\ doubt' = DoubtOn(pg)
  /\ LET still == IF Carried(pg) THEN call ELSE [i \in Calls |-> Orphaned(i)] IN
       IF pg = Home \/ pg.plan \in refused \/ OnTheWay("load", pg.plan) # {}
       THEN call' = still /\ UNCHANGED sent
       ELSE /\ sent < MaxSends /\ sent' = sent + 1
            /\ \E i \in Calls : /\ ~Busy(i)
                                /\ call' = [still EXCEPT ![i] = Request("load", pg.plan)]
  /\ UNCHANGED <<server, cache, refused>>

\* The window gets the focus: useSWR loads the page again.
Focus ==
  /\ page # Home /\ ~Failed /\ ~Held
  /\ OnTheWay("load", page.plan) = {}
  /\ Send("load", page.plan)
  /\ UNCHANGED <<server, tab, doubt>>

-----------------------------------------------------------------------------
(***************************************************************************)
(* Handlers of the forms.                                                  *)
(***************************************************************************)

Ready(kinds) == page.kind \in kinds /\ form # NoForm /\ ~form.held

\* handleTitleChange.
Type(t) ==
  /\ Ready({"edit"}) /\ t # form.title
  /\ form' = [form EXCEPT !.title = t, !.dirty = TRUE, !.typedOn = page.plan]
  /\ doubt' = IF OnTheWay("title", page.plan) = {} THEN doubt ELSE doubt \cup {"typed"}
  /\ UNCHANGED <<server, cache, refused, page, call, sent>>

\* Slip: the button goes away with the request.
HideThenSave ==
  /\ Ready({"edit"}) /\ form.dirty
  /\ Send("title", page.plan)
  /\ form' = [form EXCEPT !.dirty = FALSE]
  /\ UNCHANGED <<server, cache, refused, page, doubt>>

\* handleTitleSave up to its await.
SaveTitle ==
  /\ Ready({"edit"}) /\ form.dirty
  /\ Send("title", page.plan)
  /\ UNCHANGED <<server, tab, doubt>>

\* handleMinMaxChange.  The page of a solution asks for a read-only slider,
\* which ScheduleOwnerConfigurer does not look at.
Slide(c) ==
  /\ form # NoForm /\ c # form.counts
  /\ form' = [form EXCEPT !.counts = c, !.held = TRUE]
  /\ UNCHANGED <<server, cache, refused, page, call, doubt, sent>>

\* handleMinMaxChangeCommitted: both counts at once.
Commit ==
  /\ Held
  /\ Send("counts", page.plan)
  /\ form' = [form EXCEPT !.held = FALSE]
  /\ doubt' = IF Unserved("counts", page.plan) = {} THEN doubt ELSE doubt \cup {"overlap"}
  /\ UNCHANGED <<server, cache, refused, page>>

\* handleGenerate, as often as it is clicked, and handlePublish.
Generate ==
  /\ Ready({"edit"})
  /\ Cardinality({c \in Copies : parent[c] = NoPlan})
       > Cardinality(UNION {Unserved("generate", p) : p \in Meetings})
  /\ Send("generate", page.plan)
  /\ UNCHANGED <<server, tab, doubt>>

Publish ==
  /\ Ready({"solution"})
  /\ Send("publish", page.plan)
  /\ doubt' = doubt
  /\ UNCHANGED <<server, tab>>

-----------------------------------------------------------------------------
(***************************************************************************)
(* The server: GET and PATCH of Spring Data REST, POST of plans, publish.  *)
(***************************************************************************)

Pending(i, kind) == Busy(i) /\ call[i].kind = kind /\ call[i].phase = "sent"

Served(i, ok, data) ==
  call' = [call EXCEPT ![i].phase = "served", ![i].ok = ok, ![i].row = data, ![i].above = NoData]

ServeLoad(i) ==
  /\ Pending(i, "load")
  /\ Served(i, TRUE, OnServer(call[i].plan))
  /\ UNCHANGED <<server, tab, doubt, sent>>

\* A request has read the row it is about, and that of the parent; what it will write.
Has(i, row, above) ==
  /\ call' = [call EXCEPT ![i].phase = "read", ![i].row = row, ![i].above = above]
  /\ UNCHANGED <<server, tab, doubt, sent>>

\* Without a change Hibernate writes nothing.
Patched(p, row) == IF row = OnServer(p) THEN NoData ELSE row

\* Slip: the button of the plan whose page is open now.
TypedNow(i) == IF form = NoForm THEN call[i].form.title ELSE form.title

\* The title that a PATCH carries.
TitleOf(i) == call[i].form.title

ReadTitle(i) ==
  /\ Pending(i, "title")
  /\ LET p == call[i].plan
     IN Has(i, Patched(p, [title |-> TitleOf(i), counts |-> counts[p]]), NoData)

\* Slip: the value before the slider was moved last.
CountsBefore(i) ==
  IF cache[call[i].plan] = NoData THEN call[i].form.counts ELSE cache[call[i].plan].counts

\* The counts that a PATCH carries.
CountsOf(i) == call[i].form.counts

ReadCounts(i) ==
  /\ Pending(i, "counts")
  /\ LET p == call[i].plan
     IN Has(i, Patched(p, [title |-> title[p], counts |-> CountsOf(i)]), NoData)

ReadGenerate(i) ==
  /\ Pending(i, "generate")
  /\ Has(i, OnServer(call[i].plan), NoData)

\* The copy and its parent are read before the transaction that writes both; the
\* parent gets the counts of the copy.
ReadPublish(i) ==
  /\ Pending(i, "publish")
  /\ LET c == call[i].plan
     IN Has(i, OnServer(c), [title |-> title[parent[c]], counts |-> counts[c]])

\* A write of somebody else takes back what the form of the page p shows.
TakenBack(kind, p, row) ==
  IF form = NoForm \/ page.plan # p THEN {}
  ELSE {d \in {"titleBack", "countsBack"} :
          \/ d = "titleBack"  /\ kind # "title"  /\ row.title # title[p]
          \/ d = "countsBack" /\ kind # "counts" /\ row.counts # counts[p]}

\* The whole row of a plan.
Write(kind, p, row) ==
  /\ title' = [title EXCEPT ![p] = row.title]
  /\ counts' = [counts EXCEPT ![p] = row.counts]
  /\ doubt' = doubt \cup TakenBack(kind, p, row)

Reading(i, kinds) == Busy(i) /\ call[i].kind \in kinds /\ call[i].phase = "read"

WritePatch(i) ==
  /\ Reading(i, {"title", "counts"})
  /\ IF call[i].row = NoData THEN UNCHANGED <<title, counts, doubt>>
     ELSE Write(call[i].kind, call[i].plan, call[i].row)
  /\ Served(i, TRUE, NoData)
  /\ UNCHANGED <<parent, solver, tab, sent>>

\* Both rows.  The reply has no body, which ajax refuses: the user is not told.
WritePublish(i) ==
  /\ Reading(i, {"publish"})
  /\ LET c == call[i].plan
         m == parent[c]
     IN /\ title' = [title EXCEPT ![c] = call[i].row.title, ![m] = call[i].above.title]
        /\ counts' = [counts EXCEPT ![c] = call[i].row.counts, ![m] = call[i].above.counts]
        /\ doubt' = doubt \cup TakenBack("publish", c, call[i].row)
                          \cup TakenBack("counts", m, call[i].above)
  /\ Served(i, FALSE, NoData)
  /\ UNCHANGED <<parent, solver, tab, sent>>

\* deepCopy takes the counts along, and the copy is handed over to the solver.
ServeGenerate(i) ==
  /\ Reading(i, {"generate"})
  /\ \E c \in {d \in Copies : parent[d] = NoPlan} :
       /\ parent' = [parent EXCEPT ![c] = call[i].plan]
       /\ counts' = [counts EXCEPT ![c] = call[i].row.counts]
       /\ solver' = [solver EXCEPT ![c] = [title |-> NoData, counts |-> call[i].row.counts]]
  /\ Served(i, TRUE, NoData)
  /\ UNCHANGED <<title, tab, doubt, sent>>

\* updateRosterPlanWith: the row of the copy is read when the task ends ...
SolverReads(c) ==
  /\ solver[c] # NoData /\ solver[c].title = NoData
  /\ solver' = [solver EXCEPT ![c].title = title[c]]
  /\ UNCHANGED <<title, counts, parent, tab, call, doubt, sent>>

\* ... and written, with the counts of the problem.
SolverWrites(c) ==
  /\ solver[c] # NoData /\ solver[c].title # NoData
  /\ Write("solver", c, solver[c])
  /\ solver' = [solver EXCEPT ![c] = NoData]
  /\ UNCHANGED <<parent, tab, call, sent>>

\* The task, or the saving of what it found, fails.
SolverFails(c) ==
  /\ solver[c] # NoData
  /\ solver' = [solver EXCEPT ![c] = NoData]
  /\ UNCHANGED <<title, counts, parent, tab, call, doubt, sent>>

-----------------------------------------------------------------------------
(***************************************************************************)
(* What follows an await, once ajax has returned or thrown.                *)
(***************************************************************************)

\* Slip: an error is not thrown while there is no data.
ShrugOff(i, ok) ==
  /\ call[i].kind = "load" /\ ~ok
  /\ UNCHANGED <<cache, refused, form, doubt>>

\* error of useSWR: the page and what was typed there are gone.
Fail(i, ok) ==
  /\ call[i].kind = "load" /\ ~ok
  /\ refused' = refused \cup {call[i].plan}
  /\ form' = IF page.plan = call[i].plan THEN NoForm ELSE form
  /\ doubt' = IF page.plan = call[i].plan THEN {} ELSE doubt
  /\ UNCHANGED cache

\* data of useSWR: state that has been initialised stays as it is.
Load(i, ok) ==
  /\ call[i].kind = "load" /\ ok
  /\ cache' = [cache EXCEPT ![call[i].plan] = call[i].row]
  /\ IF page.plan = call[i].plan /\ page.kind # "rank" /\ form = NoForm
     THEN /\ form' = Fresh(call[i].row, page.plan)
          /\ doubt' = Stale(call[i].row, page.plan)
     ELSE UNCHANGED <<form, doubt>>
  /\ UNCHANGED refused

\* handleTitleSave: the button goes away, whatever has been typed meanwhile.
TitleSaved(i, ok) ==
  /\ call[i].kind = "title"
  /\ form' = IF ok /\ call[i].alive THEN [form EXCEPT !.dirty = FALSE] ELSE form
  /\ UNCHANGED <<cache, refused, doubt>>

\* A failed commit leaves the slider where it is.
CountsSaved(i, ok) ==
  /\ call[i].kind = "counts"
  /\ doubt' = IF ok \/ ~call[i].alive THEN doubt ELSE doubt \cup {"failed"}
  /\ UNCHANGED <<cache, refused, form>>

\* The SolutionGrid is refreshed, if it is there; the alert never comes.
Acted(i, ok) ==
  /\ call[i].kind \in {"generate", "publish"}
  /\ UNCHANGED <<cache, refused, form, doubt>>

\* What becomes of the request itself: left.
Continue(i, ok, left) ==
  /\ \/ Fail(i, ok) \/ Load(i, ok) \/ TitleSaved(i, ok)
     \/ CountsSaved(i, ok) \/ Acted(i, ok)
  /\ call' = [j \in Calls |-> IF j = i THEN left
                              ELSE IF form' = NoForm THEN Orphaned(j) ELSE call[j]]
  /\ UNCHANGED <<server, page, sent>>

Receive(i) == Busy(i) /\ call[i].phase = "served" /\ Continue(i, call[i].ok, NoCall)

\* The request is refused, the session having expired, or its connection fails
\* before or after it has been served.
Lose(i) == Busy(i) /\ Continue(i, FALSE, NoCall)

\* The connection fails, and the server goes on with the request all the same.
Detach(i) ==
  /\ Busy(i) /\ call[i].kind # "load" /\ call[i].phase # "served" /\ call[i].alive
  /\ Continue(i, FALSE, Orphaned(i))

-----------------------------------------------------------------------------
Click ==
  \/ \E pg \in Page : Open(pg)
  \/ \E t \in Titles : Type(t)
  \/ \E c \in Counts : Slide(c)
  \/ Focus \/ SaveTitle \/ Commit \/ Generate \/ Publish

Serve(i) ==
  \/ ServeLoad(i) \/ ReadTitle(i) \/ ReadCounts(i) \/ ReadGenerate(i) \/ ReadPublish(i)
  \/ WritePatch(i) \/ WritePublish(i) \/ ServeGenerate(i)

Solve(c) == SolverReads(c) \/ SolverWrites(c) \/ SolverFails(c)

Next ==
  \/ Click
  \/ \E i \in Calls : Serve(i) \/ Receive(i) \/ Lose(i) \/ Detach(i)
  \/ \E c \in Copies : Solve(c)

Spec == Init /\ [][Next]_vars

-----------------------------------------------------------------------------
(***************************************************************************)
(* Properties.                                                             *)
(***************************************************************************)

\* Every variable keeps to its type, and the forms are mounted exactly while
\* their page has data and no error.
TypeOK ==
  /\ title \in [Plans -> Titles] /\ counts \in [Plans -> Counts]
  /\ parent \in [Copies -> Meetings \cup {NoPlan}]
  /\ solver \in [Copies -> Task \cup {NoData}]
  /\ cache \in [Plans -> Data \cup {NoData}]
  /\ refused \subseteq Plans
  /\ page \in Page
  /\ form \in Form \cup {NoForm}
  /\ form # NoForm <=> HasForm(page)
  /\ call \in [Calls -> Call \cup {NoCall}]
  /\ doubt \subseteq Doubts
  /\ sent \in 0 .. MaxSends

TitleAtRest ==
  /\ form # NoForm /\ page.kind = "edit" /\ ~form.dirty
  /\ OnTheWay("title", page.plan) = {}
  /\ doubt \cap {"stale", "carried", "typed", "titleBack"} = {}

CountsAtRest ==
  /\ form # NoForm /\ ~form.held
  /\ OnTheWay("counts", page.plan) = {}
  /\ doubt \cap {"stale", "carried", "overlap", "failed", "countsBack"} = {}

\* While the button of the title is hidden and no save is on the way or being served,
\* the field shows the title the server has; unless the form was filled from data
\* that were out of date or ahead of a change, came over from the page of another
\* meeting, or was typed into during a save, whose reply hides the button, or a save
\* of the counts or a publication has written back the title it had read before.
TitleSettled == TitleAtRest => form.title = title[page.plan]

\* While the slider is let go and no commit is on the way or being served, it shows
\* the counts the server has; with the same exceptions, those of commits that
\* overlapped or failed, and that of counts taken back: by a save of the title or a
\* publication of the copy that had read them before, or by the solver, which writes
\* the counts of its problem.
CountsSettled == CountsAtRest => form.counts = counts[page.plan]

\* The titles of a plan that are read and not yet written back.
ReadOf(p) ==
  {call[i].row.title : i \in {j \in Calls : Reading(j, {"counts", "publish"})
                                             /\ call[j].plan = p /\ call[j].row # NoData}}
  \cup {call[i].above.title : i \in {j \in Calls : Reading(j, {"publish"})
                                                   /\ parent[call[j].plan] = p}}
  \cup {solver[c].title : c \in {d \in Copies : d = p /\ solver[d] # NoData}}

\* The title of a plan changes only to one that was typed on its own page, or that
\* the tab has carried over from the page of another meeting; or back to one that
\* the save of something else has read before.
TitleBelongs ==
  [][\A p \in Plans : title'[p] # title[p] =>
       \/ title'[p] \in ReadOf(p)
       \/ \E i \in OnTheWay("title", p) :
            /\ title'[p] = call[i].form.title
            /\ call[i].form.typedOn = p \/ call[i].carried]_vars

\* A spinner waits for something: the load of its page is on the way, so that
\* the page gets its data or fails.
SpinnerWaits == Loading => OnTheWay("load", page.plan) # {}

-----------------------------------------------------------------------------
(***************************************************************************)
(* The invariant behind these properties, which are not inductive.         *)
(***************************************************************************)

Mounted == form # NoForm
Clear(doubts) == doubt \cap doubts = {}

\* What a request was made from.  A url is loaded once at a time and not again
\* after an error; who hears of the other replies is the mounted form.
CallInv(i) ==
  LET c == call[i] IN
    /\ c.kind = "load" =>
         /\ c.ok => c.row # NoData
         /\ c.plan \notin refused
         /\ OnTheWay("load", c.plan) = {i}
    /\ c.kind \in {"title", "counts"} => c.form # NoForm
    /\ c.kind = "title" =>
         /\ c.form.typedOn = c.plan \/ c.carried
         /\ c.phase = "read" /\ c.row # NoData => c.row.title = c.form.title
    /\ c.kind = "counts" /\ c.phase = "read" /\ c.row # NoData => c.row.counts = c.form.counts
    /\ c.kind = "generate" => c.plan \in Meetings
    /\ c.kind = "publish" => c.plan \in Copies /\ parent[c.plan] # NoPlan
    /\ c.phase = "read" /\ c.kind \in {"generate", "publish"} => c.row # NoData
    /\ c.phase = "read" /\ c.kind = "publish" => c.above # NoData
    /\ c.kind # "load" /\ c.alive => Mounted /\ (c.plan = page.plan \/ ~Clear({"carried"}))

PageInv ==
  /\ page.kind = "solution" => parent[page.plan] # NoPlan
  /\ Mounted => form.typedOn = page.plan \/ ~Clear({"carried"})

\* A PATCH that has found nothing to change.
Vain(i) == call[i].phase = "read" /\ call[i].row = NoData

\* Every save on the way is that of the title in the field, and every save that has
\* been served, or finds nothing to change, has it on the server.
TitleInv ==
  Mounted /\ page.kind = "edit" /\ Clear({"stale", "carried", "typed", "titleBack"}) =>
    /\ form.dirty \/ form.title = title[page.plan]
    /\ \A i \in Unserved("title", page.plan) :
         /\ call[i].form.title = form.title
         /\ Vain(i) => form.title = title[page.plan]
    /\ \A i \in OnTheWay("title", page.plan) \ Unserved("title", page.plan) :
         call[i].alive => form.title = title[page.plan]

\* A commit on the way is the only one, and that of the slider unless it is being
\* moved; no copy is about to be published over what the slider shows.
CountsInv ==
  Mounted /\ Clear({"stale", "carried", "overlap", "failed", "countsBack"}) =>
    /\ \A i, j \in Unserved("counts", page.plan) : i = j
    /\ \A i \in Unserved("counts", page.plan) :
         /\ call[i].alive /\ (form.held \/ call[i].form.counts = form.counts)
         /\ Vain(i) => call[i].form.counts = counts[page.plan]
    /\ \/ form.held \/ Unserved("counts", page.plan) # {}
       \/ form.counts = counts[page.plan]
    /\ \A c \in Copies : parent[c] = page.plan => Unserved("publish", c) = {}

IInv ==
  /\ TypeOK /\ SpinnerWaits
  /\ \A i \in Calls : Busy(i) => CallInv(i)
  /\ PageInv /\ TitleInv /\ CountsInv
=============================================================================
