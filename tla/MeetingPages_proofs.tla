-------------------------- MODULE MeetingPages_proofs --------------------------
(***************************************************************************)
(* Proofs about MeetingPages, for every value of its constants.            *)
(***************************************************************************)
EXTENDS MeetingPages, TLAPS

(***************************************************************************)
(* The invariant, request by request.                                      *)
(***************************************************************************)

\* What a request keeps from when it was made.
Sound(c) ==
  /\ c.kind = "load" /\ c.ok => c.row # NoData
  /\ c.kind \in {"title", "counts"} => c.form # NoForm
  /\ c.kind = "title" => c.form.typedOn = c.plan \/ c.carried
  /\ c.kind = "title" /\ c.phase = "read" /\ c.row # NoData => c.row.title = c.form.title
  /\ c.kind = "counts" /\ c.phase = "read" /\ c.row # NoData => c.row.counts = c.form.counts
  /\ c.kind \in {"generate", "publish"} /\ c.phase = "read" => c.row # NoData
  /\ c.kind = "publish" /\ c.phase = "read" => c.above # NoData
  /\ c.kind = "generate" => c.plan \in Meetings
  /\ c.kind = "publish" => c.plan \in Copies

\* How it relates to the state it is in.
Placed(c) ==
  /\ c.kind = "load" => c.plan \notin refused
  /\ c.kind = "publish" => parent[c.plan] # NoPlan
  /\ c.kind # "load" /\ c.alive => Mounted /\ (c.plan = page.plan \/ "carried" \in doubt)

Once ==
  \A i, j \in Calls :
    /\ Busy(i) /\ call[i].kind = "load"
    /\ Busy(j) /\ call[j].kind = "load"
    /\ call[i].plan = call[j].plan
    => i = j

CallsOK == \A i \in Calls : Busy(i) => Sound(call[i]) /\ Placed(call[i])

PageOK ==
  /\ page.kind = "solution" => parent[page.plan] # NoPlan
  /\ Mounted => form.typedOn = page.plan \/ "carried" \in doubt

TitleClear ==
  /\ Mounted /\ page.kind = "edit"
  /\ "stale" \notin doubt /\ "carried" \notin doubt /\ "typed" \notin doubt
  /\ "titleBack" \notin doubt

TitleCall(c) ==
  c.kind = "title" /\ c.plan = page.plan =>
    /\ c.phase # "served" => c.form.title = form.title
    /\ c.phase = "read" /\ c.row = NoData => form.title = title[page.plan]
    /\ c.phase = "served" /\ c.alive => form.title = title[page.plan]

TitleOK ==
  TitleClear =>
    /\ form.dirty \/ form.title = title[page.plan]
    /\ \A i \in Calls : Busy(i) => TitleCall(call[i])

CountsClear ==
  /\ Mounted
  /\ "stale" \notin doubt /\ "carried" \notin doubt
  /\ "overlap" \notin doubt /\ "failed" \notin doubt /\ "countsBack" \notin doubt

Committing(i) ==
  /\ Busy(i) /\ call[i].kind = "counts" /\ call[i].plan = page.plan
  /\ call[i].phase # "served"

CountsCall(c) ==
  /\ c.kind = "counts" /\ c.plan = page.plan /\ c.phase # "served" =>
       /\ c.alive /\ (form.held \/ c.form.counts = form.counts)
       /\ c.phase = "read" /\ c.row = NoData => c.form.counts = counts[page.plan]
  /\ c.kind = "publish" /\ c.phase # "served" => parent[c.plan] # page.plan

CountsOK ==
  CountsClear =>
    /\ \A i, j \in Calls : Committing(i) /\ Committing(j) => i = j
    /\ \/ form.held \/ form.counts = counts[page.plan]
       \/ \E i \in Calls : Committing(i)
    /\ \A i \in Calls : Busy(i) => CountsCall(call[i])

SpinnerOK ==
  Loading => \E i \in Calls : Busy(i) /\ call[i].kind = "load" /\ call[i].plan = page.plan

AllOK == SpinnerOK /\ CallsOK /\ Once /\ PageOK /\ TitleOK /\ CountsOK

LEMMA CallsParts ==
  ASSUME TypeOK
  PROVE  (\A i \in Calls : Busy(i) => CallInv(i)) <=> CallsOK /\ Once
<1>1. ASSUME \A i \in Calls : Busy(i) => CallInv(i)
      PROVE  CallsOK /\ Once
  <2>1. CallsOK
    BY <1>1 DEF CallsOK, CallInv, Sound, Placed, Clear
  <2>2. Once
    BY <1>1 DEF Once, CallInv, OnTheWay
  <2> QED
    BY <2>1, <2>2
<1>2. ASSUME CallsOK, Once, NEW i \in Calls, Busy(i)
      PROVE  CallInv(i)
  <2>1. Sound(call[i]) /\ Placed(call[i])
    BY <1>2 DEF CallsOK
  <2>2. call[i].kind = "load" => OnTheWay("load", call[i].plan) = {i}
    BY <1>2 DEF Once, OnTheWay
  <2> QED
    BY <2>1, <2>2 DEF CallInv, Sound, Placed, Clear
<1> QED
  BY <1>1, <1>2

LEMMA TitleParts == TitleInv <=> TitleOK
<1>1. Mounted /\ page.kind = "edit" /\ Clear({"stale", "carried", "typed", "titleBack"}) <=> TitleClear
  BY DEF TitleClear, Clear
<1>2. (/\ \A i \in Unserved("title", page.plan) :
            /\ call[i].form.title = form.title
            /\ Vain(i) => form.title = title[page.plan]
       /\ \A i \in OnTheWay("title", page.plan) \ Unserved("title", page.plan) :
            call[i].alive => form.title = title[page.plan])
      <=> \A i \in Calls : Busy(i) => TitleCall(call[i])
  BY DEF Unserved, OnTheWay, TitleCall, Vain
<1> QED
  BY <1>1, <1>2 DEF TitleInv, TitleOK

LEMMA CountsParts == CallsOK => (CountsInv <=> CountsOK)
<1> SUFFICES ASSUME CallsOK PROVE CountsInv <=> CountsOK
  OBVIOUS
<1>1. Mounted /\ Clear({"stale", "carried", "overlap", "failed", "countsBack"}) <=> CountsClear
  BY DEF CountsClear, Clear
<1>2. Unserved("counts", page.plan) # {} <=> \E i \in Calls : Committing(i)
  BY DEF Unserved, OnTheWay, Committing
<1>4. (\A i, j \in Unserved("counts", page.plan) : i = j)
        <=> \A i, j \in Calls : Committing(i) /\ Committing(j) => i = j
  BY DEF Unserved, OnTheWay, Committing
<1>3. (/\ \A i \in Unserved("counts", page.plan) :
            /\ call[i].alive /\ (form.held \/ call[i].form.counts = form.counts)
            /\ Vain(i) => call[i].form.counts = counts[page.plan]
       /\ \A c \in Copies : parent[c] = page.plan => Unserved("publish", c) = {})
      <=> \A i \in Calls : Busy(i) => CountsCall(call[i])
  BY DEF Unserved, OnTheWay, CountsCall, CallsOK, Sound, Vain
<1> QED
  BY <1>1, <1>2, <1>3, <1>4 DEF CountsInv, CountsOK

LEMMA Parts == IInv <=> TypeOK /\ AllOK
<1>1. PageInv <=> PageOK
  BY DEF PageInv, PageOK, Clear
<1>2. SpinnerWaits <=> SpinnerOK
  BY DEF SpinnerWaits, SpinnerOK, OnTheWay
<1> QED
  BY <1>1, <1>2, CallsParts, TitleParts, CountsParts DEF IInv, AllOK

(***************************************************************************)
(* The records.                                                            *)
(***************************************************************************)

Kinds == {"load", "title", "counts", "generate", "publish"}

LEMMA PlanIsPlan ==
  NoPlan \notin Plans /\ Meetings \subseteq Plans /\ Copies \subseteq Plans
    /\ \A p \in Meetings : p \notin Copies
BY PlansKnown DEF Plans

LEMMA PageFacts ==
  ASSUME NEW pg \in Page
  PROVE  /\ pg.kind \in {"edit", "rank", "solution", "other"}
         /\ pg.kind \in {"edit", "rank"} <=> pg.plan \in Meetings
         /\ pg.kind = "solution" <=> pg.plan \in Copies
         /\ pg.kind = "other" <=> pg.plan = NoPlan
         /\ pg = Home <=> pg.plan = NoPlan
BY PlansKnown DEF Page, Home

LEMMA CallFacts ==
  ASSUME NEW c \in Call
  PROVE  /\ c.kind \in Kinds /\ c.plan \in Plans /\ c.form \in Form \cup {NoForm}
         /\ c.phase \in {"sent", "read", "served"} /\ c.ok \in BOOLEAN
         /\ c.row \in Data \cup {NoData} /\ c.above \in Data \cup {NoData}
         /\ c.alive \in BOOLEAN /\ c.carried \in BOOLEAN
         /\ c # NoCall
BY NoneIsNone DEF Call, Kinds

LEMMA FormFacts ==
  ASSUME NEW f \in Form
  PROVE  /\ f.title \in Titles /\ f.dirty \in BOOLEAN /\ f.counts \in Counts
         /\ f.held \in BOOLEAN /\ f.typedOn \in Plans /\ f # NoForm
BY NoneIsNone DEF Form

\* A request as it was, though nobody may be waiting for it any more.
Like(c, d) ==
  /\ d.kind = c.kind /\ d.plan = c.plan /\ d.form = c.form /\ d.phase = c.phase
  /\ d.ok = c.ok /\ d.row = c.row /\ d.above = c.above /\ d.carried = c.carried
  /\ d.alive => c.alive

LEMMA OrphanedFacts ==
  ASSUME TypeOK, NEW i \in Calls
  PROVE  /\ ~Busy(i) => Orphaned(i) = NoCall
         /\ Busy(i) => /\ Orphaned(i) \in Call /\ Like(call[i], Orphaned(i))
                       /\ ~Orphaned(i).alive
<1>1. CASE Busy(i)
  <2>1. call[i] \in Call
    BY <1>1 DEF TypeOK, Busy
  <2>2. [call[i] EXCEPT !.alive = FALSE] \in Call
    BY <2>1 DEF Call
  <2>3. Like(call[i], [call[i] EXCEPT !.alive = FALSE]) /\ ~[call[i] EXCEPT !.alive = FALSE].alive
    BY <2>1 DEF Call, Like
  <2> QED
    BY <1>1, <2>2, <2>3 DEF Orphaned
<1>2. CASE ~Busy(i)
  BY <1>2 DEF Orphaned
<1> QED
  BY <1>1, <1>2

LEMMA RequestFacts ==
  ASSUME TypeOK, NEW kind \in Kinds, NEW p \in Plans
  PROVE  LET c == Request(kind, p) IN
         /\ c \in Call
         /\ c.kind = kind /\ c.plan = p /\ c.form = form /\ c.phase = "sent"
         /\ ~c.ok /\ c.alive
         /\ c.carried <=> "carried" \in doubt
<1> DEFINE carried == "carried" \in doubt
<1>1. form \in Form \cup {NoForm} /\ carried \in BOOLEAN
  BY DEF TypeOK
<1> HIDE DEF carried
<1>2. Request(kind, p) = [kind |-> kind, plan |-> p, form |-> form, phase |-> "sent", ok |-> FALSE,
                          row |-> NoData, above |-> NoData, alive |-> TRUE, carried |-> carried]
  BY DEF Request, carried
<1>3. /\ Request(kind, p) \in Call
      /\ Request(kind, p).kind = kind /\ Request(kind, p).plan = p /\ Request(kind, p).form = form
      /\ Request(kind, p).phase = "sent" /\ ~Request(kind, p).ok
      /\ Request(kind, p).alive
      /\ Request(kind, p).carried = carried
  BY <1>1, <1>2 DEF Call, Kinds
<1> QED
  BY <1>3 DEF carried

\* What is different when a request is sent.
LEMMA SendFacts ==
  ASSUME TypeOK, NEW kind \in Kinds, NEW p \in Plans, Send(kind, p)
  PROVE  /\ call' \in [Calls -> Call \cup {NoCall}] /\ sent' \in 0 .. MaxSends
         /\ \E i \in Calls :
              /\ ~Busy(i) /\ Busy(i)'
              /\ call'[i] = Request(kind, p)
              /\ \A j \in Calls : j # i => call'[j] = call[j]
<1>1. PICK i \in Calls : ~Busy(i) /\ call' = [call EXCEPT ![i] = Request(kind, p)]
  BY DEF Send
<1>2. Request(kind, p) \in Call
  BY RequestFacts
<1>3. call' \in [Calls -> Call \cup {NoCall}] /\ call'[i] = Request(kind, p)
      /\ \A j \in Calls : j # i => call'[j] = call[j]
  BY <1>1, <1>2 DEF TypeOK
<1>4. sent' \in 0 .. MaxSends
  BY BoundIsNat DEF Send, TypeOK
<1>5. Busy(i)'
  BY <1>2, <1>3, CallFacts DEF Busy
<1> QED
  BY <1>1, <1>3, <1>4, <1>5

\* A request is served as far as the phase.
Moves(i, phase, row, above) ==
  /\ call' \in [Calls -> Call \cup {NoCall}]
  /\ Busy(i)' /\ \A j \in Calls : j # i => call'[j] = call[j]
  /\ call'[i].kind = call[i].kind /\ call'[i].plan = call[i].plan
  /\ call'[i].form = call[i].form /\ call'[i].carried = call[i].carried
  /\ call'[i].alive = call[i].alive
  /\ call'[i].phase = phase /\ call'[i].row = row /\ call'[i].above = above

LEMMA ServedFacts ==
  ASSUME TypeOK, NEW i \in Calls, Busy(i), NEW ok \in BOOLEAN, NEW data \in Data \cup {NoData},
         Served(i, ok, data)
  PROVE  Moves(i, "served", data, NoData)
<1> DEFINE c == [call[i] EXCEPT !.phase = "served", !.ok = ok, !.row = data, !.above = NoData]
<1>1. call[i] \in Call
  BY DEF TypeOK, Busy
<1>2. call' = [call EXCEPT ![i] = c]
  BY DEF Served
<1>3. /\ c \in Call
      /\ c.kind = call[i].kind /\ c.plan = call[i].plan /\ c.form = call[i].form
      /\ c.carried = call[i].carried /\ c.alive = call[i].alive
      /\ c.phase = "served" /\ c.row = data /\ c.above = NoData
  BY <1>1 DEF Call
<1> HIDE DEF c
<1>4. call' \in [Calls -> Call \cup {NoCall}] /\ call'[i] = c
      /\ \A j \in Calls : j # i => call'[j] = call[j]
  BY <1>2, <1>3 DEF TypeOK
<1>5. Busy(i)'
  BY <1>3, <1>4, CallFacts DEF Busy
<1> QED
  BY <1>3, <1>4, <1>5 DEF Moves

LEMMA HasFacts ==
  ASSUME TypeOK, NEW i \in Calls, Busy(i), NEW row \in Data \cup {NoData},
         NEW above \in Data \cup {NoData}, Has(i, row, above)
  PROVE  /\ Moves(i, "read", row, above)
         /\ UNCHANGED <<title, counts, parent, solver, cache, refused, page, form, doubt, sent>>
<1> DEFINE c == [call[i] EXCEPT !.phase = "read", !.row = row, !.above = above]
<1>1. call[i] \in Call
  BY DEF TypeOK, Busy
<1>2. call' = [call EXCEPT ![i] = c]
  BY DEF Has
<1>3. /\ c \in Call
      /\ c.kind = call[i].kind /\ c.plan = call[i].plan /\ c.form = call[i].form
      /\ c.carried = call[i].carried /\ c.alive = call[i].alive
      /\ c.phase = "read" /\ c.row = row /\ c.above = above
  BY <1>1 DEF Call
<1> HIDE DEF c
<1>4. call' \in [Calls -> Call \cup {NoCall}] /\ call'[i] = c
      /\ \A j \in Calls : j # i => call'[j] = call[j]
  BY <1>2, <1>3 DEF TypeOK
<1>5. Busy(i)'
  BY <1>3, <1>4, CallFacts DEF Busy
<1>6. UNCHANGED <<title, counts, parent, solver, cache, refused, page, form, doubt, sent>>
  BY DEF Has, server, tab
<1> QED
  BY <1>3, <1>4, <1>5, <1>6 DEF Moves

LEMMA FreshFacts ==
  ASSUME NEW d \in Data, NEW p \in Plans
  PROVE  /\ Fresh(d, p) \in Form
         /\ Fresh(d, p).title = d.title /\ Fresh(d, p).counts = d.counts
         /\ ~Fresh(d, p).dirty /\ ~Fresh(d, p).held /\ Fresh(d, p).typedOn = p
BY DEF Fresh, Form, Data

\* Data that are not stale are what the server has and is going to have.
LEMMA StaleFacts ==
  ASSUME TypeOK, CallsOK, NEW d \in Data, NEW p \in Plans
  PROVE  /\ Stale(d, p) \subseteq {"stale"}
         /\ "stale" \notin Stale(d, p) =>
              /\ d.title = title[p] /\ d.counts = counts[p]
              /\ \A i \in Calls : Busy(i) /\ call[i].kind \in {"title", "counts"} /\ call[i].plan = p
                   => call[i].phase = "served"
              /\ \A i \in Calls : Busy(i) /\ call[i].kind = "publish" /\ parent[call[i].plan] = p
                   => call[i].phase = "served"
<1>1. Stale(d, p) \subseteq {"stale"}
  BY DEF Stale
<1>2. ASSUME "stale" \notin Stale(d, p)
      PROVE  d = OnServer(p) /\ ChangesAhead(p) = {}
  BY <1>2 DEF Stale
<1>3. d = OnServer(p) => d.title = title[p] /\ d.counts = counts[p]
  BY DEF OnServer
<1>4. ASSUME ChangesAhead(p) = {}, NEW i \in Calls, Busy(i), call[i].kind \in {"title", "counts"},
             call[i].plan = p, call[i].phase # "served"
      PROVE  FALSE
  <2>1. i \in Unserved("title", p) \cup Unserved("counts", p)
    BY <1>4 DEF Unserved, OnTheWay
  <2> QED
    BY <1>4, <2>1 DEF ChangesAhead
<1>5. ASSUME ChangesAhead(p) = {}, NEW i \in Calls, Busy(i), call[i].kind = "publish",
             parent[call[i].plan] = p, call[i].phase # "served"
      PROVE  FALSE
  <2>1. call[i].plan \in {e \in Copies : parent[e] = p}
    BY <1>5 DEF CallsOK, Sound
  <2>2. i \in Unserved("publish", call[i].plan)
    BY <1>5 DEF Unserved, OnTheWay
  <2> QED
    BY <1>5, <2>1, <2>2 DEF ChangesAhead
<1> QED
  BY <1>1, <1>2, <1>3, <1>4, <1>5

(***************************************************************************)
(* The first state.                                                        *)
(***************************************************************************)

LEMMA InitInv == Init => IInv
<1> SUFFICES ASSUME Init PROVE IInv
  OBVIOUS
<1>1. /\ page = Home /\ form = NoForm /\ doubt = {} /\ refused = {} /\ sent = 0
      /\ \A i \in Calls : ~Busy(i)
  BY DEF Init, Busy
<1>2. Home \in Page /\ Home.kind = "other" /\ Home.plan = NoPlan
  BY DEF Home, Page
<1>3. /\ title \in [Plans -> Titles] /\ counts \in [Plans -> Counts]
      /\ parent \in [Copies -> Meetings \cup {NoPlan}]
      /\ solver \in [Copies -> Task \cup {NoData}]
      /\ cache \in [Plans -> Data \cup {NoData}]
      /\ call \in [Calls -> Call \cup {NoCall}]
  BY TodoIsTitle DEF Init, Task
<1>4. TypeOK
  BY <1>1, <1>2, <1>3, BoundIsNat DEF TypeOK, HasForm
<1>5. AllOK
  BY <1>1, <1>2 DEF AllOK, SpinnerOK, Loading, CallsOK, Once, PageOK, Mounted, TitleOK, TitleClear,
                    CountsOK, CountsClear, Committing
<1> QED
  BY <1>4, <1>5, Parts

(***************************************************************************)
(* Steps on a page: the forms, and the requests they send.                 *)
(***************************************************************************)

\* A request is added to those on the way.
Adds(c) ==
  \E i \in Calls :
    /\ ~Busy(i) /\ Busy(i)' /\ call'[i] = c
    /\ \A j \in Calls : j # i => call'[j] = call[j]
    /\ Sound(c) /\ Placed(c)
    /\ c.kind = "load" =>
         \A j \in Calls : Busy(j) /\ call[j].kind = "load" => call[j].plan # c.plan

LEMMA Sending ==
  ASSUME TypeOK, AllOK, NEW kind \in Kinds, Send(kind, page.plan), page # Home,
         kind = "load" => /\ OnTheWay("load", page.plan) = {}
                          /\ page.plan \notin refused,
         kind # "load" => Mounted,
         kind = "generate" => page.kind = "edit", kind = "publish" => page.kind = "solution"
  PROVE  /\ call' \in [Calls -> Call \cup {NoCall}] /\ sent' \in 0 .. MaxSends
         /\ \E c \in Call :
              /\ Adds(c) /\ c.kind = kind /\ c.plan = page.plan /\ c.form = form
              /\ c.phase = "sent" /\ c.alive
<1> DEFINE c == Request(kind, page.plan)
<1>1. page \in Page /\ page.plan \in Plans
  BY PageFacts, PlanIsPlan DEF TypeOK
<1>2. /\ c \in Call
      /\ c.kind = kind /\ c.plan = page.plan /\ c.form = form /\ c.phase = "sent"
      /\ ~c.ok /\ c.alive /\ (c.carried <=> "carried" \in doubt)
  BY <1>1, RequestFacts
<1>3. /\ call' \in [Calls -> Call \cup {NoCall}] /\ sent' \in 0 .. MaxSends
      /\ \E i \in Calls :
              /\ ~Busy(i) /\ Busy(i)' /\ call'[i] = c
              /\ \A j \in Calls : j # i => call'[j] = call[j]
  BY <1>1, SendFacts
<1> HIDE DEF c
<1>4. Sound(c)
  <2>1. c.kind = "title" => c.form.typedOn = c.plan \/ c.carried
    BY <1>2 DEF AllOK, PageOK
  <2>2. c.kind = "generate" => c.plan \in Meetings
    BY <1>1, <1>2, PageFacts
  <2>3. c.kind = "publish" => c.plan \in Copies
    BY <1>1, <1>2, PageFacts
  <2> QED
    BY <1>2, <2>1, <2>2, <2>3 DEF Sound, Mounted
<1>5. Placed(c)
  BY <1>2 DEF Placed, AllOK, PageOK
<1>6. c.kind = "load" => \A j \in Calls : Busy(j) /\ call[j].kind = "load" => call[j].plan # c.plan
  BY <1>2 DEF OnTheWay
<1> QED
  BY <1>2, <1>3, <1>4, <1>5, <1>6 DEF Adds

\* A step that changes at most the state of the forms and sends at most one request.
FormStep ==
  /\ UNCHANGED <<server, cache, refused, page>>
  /\ form' \in Form \cup {NoForm} /\ (Mounted' <=> Mounted)
  /\ Mounted => form'.typedOn \in {form.typedOn, page.plan}
  /\ doubt \subseteq doubt' /\ doubt' \subseteq Doubts
  /\ sent' \in 0 .. MaxSends
  /\ \/ call' = call
     \/ /\ call' \in [Calls -> Call \cup {NoCall}]
        /\ \E c \in Call : Adds(c) /\ c.form = form /\ c.phase = "sent" /\ c.alive

LEMMA FormStepCalls ==
  ASSUME TypeOK, AllOK, FormStep
  PROVE  /\ TypeOK' /\ SpinnerOK' /\ CallsOK' /\ Once' /\ PageOK'
<1>1. /\ title' = title /\ counts' = counts /\ parent' = parent /\ cache' = cache
      /\ solver' = solver
      /\ refused' = refused /\ page' = page
  BY DEF FormStep, server
<1>2. TypeOK'
  <2>1. HasForm(page)' <=> HasForm(page)
    BY <1>1 DEF HasForm
  <2> QED
    BY <1>1, <2>1 DEF TypeOK, FormStep, Mounted
<1>3. \A c : Placed(c) => Placed(c)'
  BY <1>1 DEF Placed, FormStep
<1>4. PageOK'
  BY <1>1 DEF AllOK, PageOK, FormStep
<1>5. Loading' <=> Loading
  BY <1>1 DEF Loading, Failed
<1>6. CASE call' = call
  <2>1. \A i \in Calls : Busy(i)' <=> Busy(i)
    BY <1>6 DEF Busy
  <2> QED
    BY <1>1, <1>2, <1>3, <1>4, <1>5, <1>6, <2>1 DEF AllOK, SpinnerOK, CallsOK, Once
<1>7. ASSUME NEW c \in Call, Adds(c)
      PROVE  SpinnerOK' /\ CallsOK' /\ Once'
  <2>1. PICK i \in Calls :
          /\ ~Busy(i) /\ Busy(i)' /\ call'[i] = c
          /\ \A j \in Calls : j # i => call'[j] = call[j]
          /\ Sound(c) /\ Placed(c)
          /\ c.kind = "load" =>
               \A j \in Calls : Busy(j) /\ call[j].kind = "load" => call[j].plan # c.plan
    BY <1>7 DEF Adds
  <2>2. \A j \in Calls : j # i => (Busy(j)' <=> Busy(j))
    BY <2>1 DEF Busy
  <2>3. CallsOK'
    BY <1>3, <2>1, <2>2 DEF AllOK, CallsOK
  <2>4. Once'
    BY <2>1, <2>2 DEF AllOK, Once
  <2>5. SpinnerOK'
    BY <1>1, <1>5, <2>1, <2>2 DEF AllOK, SpinnerOK
  <2> QED
    BY <2>3, <2>4, <2>5
<1> QED
  BY <1>2, <1>4, <1>6, <1>7 DEF FormStep

\* The title and its field are left alone.
LEMMA FormStepTitle ==
  ASSUME TypeOK, AllOK, FormStep, Mounted => form'.title = form.title /\ form'.dirty = form.dirty
  PROVE  TitleOK'
<1> SUFFICES ASSUME TitleClear'
             PROVE  /\ form'.dirty \/ form'.title = title'[page'.plan]
                    /\ \A i \in Calls : Busy(i)' => TitleCall(call[i])'
  BY DEF TitleOK
<1>1. title' = title /\ page' = page /\ doubt \subseteq doubt' /\ (Mounted' <=> Mounted)
  BY DEF FormStep, server
<1>2. TitleClear
  BY <1>1 DEF TitleClear
<1>3. /\ form.dirty \/ form.title = title[page.plan]
      /\ \A i \in Calls : Busy(i) => TitleCall(call[i])
  BY <1>2 DEF AllOK, TitleOK
<1>4. form'.title = form.title /\ form'.dirty = form.dirty
  BY <1>2 DEF TitleClear
<1>5. \A c : TitleCall(c) => TitleCall(c)'
  BY <1>1, <1>4 DEF TitleCall
<1>6. ASSUME NEW i \in Calls, Busy(i)'
      PROVE  TitleCall(call[i])'
  <2>1. CASE call'[i] = call[i]
    <3>1. Busy(i)
      BY <1>6, <2>1 DEF Busy
    <3> QED
      BY <1>3, <1>5, <2>1, <3>1
  <2>2. CASE call'[i] # call[i]
    <3>1. call'[i].form = form /\ call'[i].phase = "sent" /\ call'[i].alive
      BY <2>2 DEF FormStep, Adds
    <3> QED
      BY <1>4, <3>1 DEF TitleCall
  <2> QED
    BY <2>1, <2>2
<1> QED
  BY <1>1, <1>3, <1>4, <1>6

\* The counts and the slider are left alone, and no commit is sent.
LEMMA FormStepCounts ==
  ASSUME TypeOK, AllOK, FormStep, Mounted => form'.counts = form.counts /\ form'.held = form.held,
         \A i \in Calls : call'[i] # call[i] => call'[i].kind # "counts"
  PROVE  CountsOK'
<1> SUFFICES ASSUME CountsClear'
             PROVE  /\ \A i, j \in Calls : Committing(i)' /\ Committing(j)' => i = j
                    /\ \/ form'.held \/ form'.counts = counts'[page'.plan]
                       \/ \E i \in Calls : Committing(i)'
                    /\ \A i \in Calls : Busy(i)' => CountsCall(call[i])'
  BY DEF CountsOK
<1>1. /\ counts' = counts /\ parent' = parent /\ page' = page
      /\ doubt \subseteq doubt' /\ (Mounted' <=> Mounted)
  BY DEF FormStep, server
<1>2. CountsClear
  BY <1>1 DEF CountsClear
<1>3. /\ \/ form.held \/ form.counts = counts[page.plan]
         \/ \E i \in Calls : Committing(i)
      /\ \A i \in Calls : Busy(i) => CountsCall(call[i])
      /\ \A i, j \in Calls : Committing(i) /\ Committing(j) => i = j
  BY <1>2 DEF AllOK, CountsOK
<1>4. form'.counts = form.counts /\ form'.held = form.held
  BY <1>2 DEF CountsClear
<1>5. \A c : CountsCall(c) => CountsCall(c)'
  BY <1>1, <1>4 DEF CountsCall
<1>6. ASSUME NEW i \in Calls, Busy(i)'
      PROVE  CountsCall(call[i])'
  <2>1. CASE call'[i] = call[i]
    <3>1. Busy(i)
      BY <1>6, <2>1 DEF Busy
    <3> QED
      BY <1>3, <1>5, <2>1, <3>1
  <2>2. CASE call'[i] # call[i]
    <3>1. /\ call'[i].form = form /\ call'[i].phase = "sent" /\ call'[i].alive
          /\ Sound(call'[i]) /\ Placed(call'[i])
      BY <2>2 DEF FormStep, Adds
    <3>2. call'[i].kind = "publish" => call'[i].plan \in Copies /\ call'[i].plan = page.plan
      BY <1>2, <3>1 DEF Sound, Placed, CountsClear
    <3>3. \A c \in Copies : parent[c] # c
      BY PlansKnown DEF TypeOK
    <3> QED
      BY <1>1, <1>4, <2>2, <3>1, <3>2, <3>3 DEF CountsCall
  <2> QED
    BY <2>1, <2>2
<1>8. \A i \in Calls : Committing(i)' => Committing(i)
  BY <1>1 DEF Committing, Busy
<1>7. \A i \in Calls : Committing(i) => Committing(i)'
  <2>1. ASSUME NEW i \in Calls, Busy(i) PROVE call'[i] = call[i]
    BY <2>1 DEF FormStep, Adds
  <2> QED
    BY <1>1, <2>1 DEF Committing, Busy
<1> QED
  BY <1>1, <1>3, <1>4, <1>6, <1>7, <1>8

LEMMA Mounts ==
  ASSUME TypeOK, form # NoForm
  PROVE  /\ form \in Form /\ Mounted /\ page \in Page
         /\ page.kind \in {"edit", "solution"} /\ page # Home /\ page.plan \in Plans
         /\ page.plan \notin refused
BY PageFacts, PlanIsPlan DEF TypeOK, HasForm, Mounted

\* A request that leaves the forms and the doubts as they are.
LEMMA PlainSend ==
  ASSUME TypeOK, AllOK, NEW kind \in Kinds, Send(kind, page.plan), page # Home,
         UNCHANGED <<server, tab, doubt>>,
         kind = "load" => /\ OnTheWay("load", page.plan) = {}
                          /\ page.plan \notin refused,
         kind # "load" => Mounted, kind # "counts",
         kind = "generate" => page.kind = "edit", kind = "publish" => page.kind = "solution"
  PROVE  TypeOK' /\ AllOK'
<1>1. FormStep
  <2>1. form' = form /\ doubt' = doubt /\ UNCHANGED <<server, cache, refused, page>>
    BY DEF tab
  <2> QED
    BY <2>1, Sending DEF FormStep, TypeOK, Mounted
<1>2. form' = form
  BY DEF tab
<1>3. \A i \in Calls : call'[i] # call[i] => call'[i].kind # "counts"
  BY Sending DEF Adds
<1> QED
  BY <1>1, <1>2, <1>3, FormStepCalls, FormStepTitle, FormStepCounts DEF AllOK

LEMMA FocusInv ==
  ASSUME TypeOK, AllOK, Focus
  PROVE  TypeOK' /\ AllOK'
BY PlainSend DEF Focus, Failed, Kinds

LEMMA SaveTitleInv ==
  ASSUME TypeOK, AllOK, SaveTitle
  PROVE  TypeOK' /\ AllOK'
BY PlainSend, Mounts DEF SaveTitle, Ready, Kinds

LEMMA GenerateInv ==
  ASSUME TypeOK, AllOK, Generate
  PROVE  TypeOK' /\ AllOK'
BY PlainSend, Mounts DEF Generate, Ready, Kinds

LEMMA PublishInv ==
  ASSUME TypeOK, AllOK, Publish
  PROVE  TypeOK' /\ AllOK'
BY PlainSend, Mounts DEF Publish, Ready, Kinds

LEMMA TypeInv ==
  ASSUME TypeOK, AllOK, NEW t \in Titles, Type(t)
  PROVE  TypeOK' /\ AllOK'
<1>1. form \in Form /\ Mounted /\ page.plan \in Plans
  BY Mounts DEF Type, Ready
<1>2. /\ form' = [form EXCEPT !.title = t, !.dirty = TRUE, !.typedOn = page.plan]
      /\ call' = call /\ UNCHANGED <<server, cache, refused, page, sent>>
  BY DEF Type
<1>3. /\ form' \in Form /\ form'.dirty /\ form'.typedOn = page.plan
      /\ form'.counts = form.counts /\ form'.held = form.held
  BY <1>1, <1>2 DEF Form
<1>4. doubt \subseteq doubt' /\ doubt' \subseteq Doubts
  BY DEF Type, TypeOK, Doubts
<1>5. FormStep
  BY <1>1, <1>2, <1>3, <1>4, FormFacts DEF FormStep, Mounted, TypeOK
<1>6. TitleOK'
  <2> SUFFICES ASSUME TitleClear', NEW i \in Calls, Busy(i)'
               PROVE  TitleCall(call[i])'
    BY <1>3 DEF TitleOK
  <2>1. Busy(i) /\ call'[i] = call[i] /\ page' = page
    BY <1>2 DEF Busy
  <2>2. TitleClear
    BY <1>1, <1>2, <1>4 DEF TitleClear
  <2>3. TitleCall(call[i])
    BY <2>1, <2>2 DEF AllOK, TitleOK
  <2>4. OnTheWay("title", page.plan) = {}
    BY DEF Type, TitleClear
  <2>5. ~(call[i].kind = "title" /\ call[i].plan = page.plan)
    BY <2>1, <2>4 DEF OnTheWay
  <2> QED
    BY <2>1, <2>5 DEF TitleCall
<1> QED
  BY <1>2, <1>3, <1>5, <1>6, FormStepCalls, FormStepCounts DEF AllOK

LEMMA SlideInv ==
  ASSUME TypeOK, AllOK, NEW c \in Counts, Slide(c)
  PROVE  TypeOK' /\ AllOK'
<1>1. form \in Form /\ Mounted
  BY Mounts DEF Slide
<1>2. /\ form' = [form EXCEPT !.counts = c, !.held = TRUE]
      /\ call' = call /\ UNCHANGED <<server, cache, refused, page, doubt, sent>>
  BY DEF Slide
<1>3. /\ form' \in Form /\ form'.held /\ form'.typedOn = form.typedOn
      /\ form'.title = form.title /\ form'.dirty = form.dirty
  BY <1>1, <1>2 DEF Form
<1>4. FormStep
  BY <1>1, <1>2, <1>3, FormFacts DEF FormStep, Mounted, TypeOK
<1>5. CountsOK'
  <2>4. \A i \in Calls : Committing(i)' <=> Committing(i)
    BY <1>2 DEF Committing, Busy
  <2>5. CountsClear' => CountsClear
    BY <1>1, <1>2 DEF CountsClear
  <2> SUFFICES ASSUME CountsClear', NEW i \in Calls, Busy(i)'
               PROVE  CountsCall(call[i])'
    BY <1>3, <2>4, <2>5 DEF CountsOK, AllOK
  <2>1. Busy(i) /\ call'[i] = call[i] /\ page' = page /\ parent' = parent /\ counts' = counts
    BY <1>2 DEF Busy, server
  <2>2. CountsClear
    BY <1>1, <1>2 DEF CountsClear
  <2>3. CountsCall(call[i])
    BY <2>1, <2>2 DEF AllOK, CountsOK
  <2> QED
    BY <1>3, <2>1, <2>3 DEF CountsCall
<1> QED
  BY <1>3, <1>4, <1>5, FormStepCalls, FormStepTitle DEF AllOK

LEMMA CommitInv ==
  ASSUME TypeOK, AllOK, Commit
  PROVE  TypeOK' /\ AllOK'
<1>1. form \in Form /\ Mounted /\ page # Home /\ form.held
  BY Mounts DEF Commit, Held
<1>2. /\ form' = [form EXCEPT !.held = FALSE]
      /\ Send("counts", page.plan) /\ UNCHANGED <<server, cache, refused, page>>
  BY DEF Commit
<1>3. /\ form' \in Form /\ form'.typedOn = form.typedOn
      /\ form'.title = form.title /\ form'.dirty = form.dirty
      /\ form'.counts = form.counts
  BY <1>1, <1>2 DEF Form
<1>4. doubt \subseteq doubt' /\ doubt' \subseteq Doubts
  BY DEF Commit, TypeOK, Doubts
<1>5. /\ call' \in [Calls -> Call \cup {NoCall}] /\ sent' \in 0 .. MaxSends
      /\ \E c \in Call :
           /\ Adds(c) /\ c.kind = "counts" /\ c.plan = page.plan /\ c.form = form
           /\ c.phase = "sent" /\ c.alive
  BY <1>1, <1>2, Sending DEF Kinds
<1>6. FormStep
  BY <1>1, <1>2, <1>3, <1>4, <1>5, FormFacts DEF FormStep, Mounted
<1>7. CountsOK'
  <2> SUFFICES ASSUME CountsClear'
               PROVE  /\ \A i, j \in Calls : Committing(i)' /\ Committing(j)' => i = j
                      /\ \E i \in Calls : Committing(i)'
                      /\ \A i \in Calls : Busy(i)' => CountsCall(call[i])'
    BY DEF CountsOK
  <2>1. page' = page /\ parent' = parent /\ counts' = counts /\ CountsClear
    BY <1>1, <1>2, <1>4 DEF CountsClear, server
  <2>2. Unserved("counts", page.plan) = {}
    BY DEF Commit, CountsClear
  <2>3. \A i \in Calls : Busy(i) => CountsCall(call[i]) /\ ~Committing(i)
    BY <2>1, <2>2 DEF AllOK, CountsOK, Unserved, OnTheWay, Committing
  <2>4. PICK c \in Call :
           /\ Adds(c) /\ c.kind = "counts" /\ c.plan = page.plan /\ c.form = form
           /\ c.phase = "sent" /\ c.alive
    BY <1>5
  <2>5. PICK i \in Calls :
          /\ Busy(i)' /\ call'[i] = c
          /\ \A j \in Calls : j # i => call'[j] = call[j]
    BY <2>4 DEF Adds
  <2>6. Committing(i)'
    BY <2>1, <2>4, <2>5 DEF Committing
  <2>7. CountsCall(call[i])'
    BY <1>3, <2>4, <2>5 DEF CountsCall
  <2>8. ASSUME NEW j \in Calls, j # i, Busy(j)'
        PROVE  CountsCall(call[j])'
    <3>1. Busy(j) /\ call'[j] = call[j]
      BY <2>5, <2>8 DEF Busy
    <3> QED
      BY <2>1, <2>3, <3>1 DEF CountsCall, Committing
  <2>9. ASSUME NEW j \in Calls, Committing(j)' PROVE j = i
    BY <2>1, <2>3, <2>5, <2>9 DEF Committing, Busy
  <2> QED
    BY <2>6, <2>7, <2>8, <2>9
<1> QED
  BY <1>3, <1>6, <1>7, FormStepCalls, FormStepTitle DEF AllOK

(***************************************************************************)
(* From page to page.                                                      *)
(***************************************************************************)

\* The load of a page that is opened.
Loads(j, pg) ==
  /\ ~Busy(j) /\ Busy(j)'
  /\ call'[j].kind = "load" /\ call'[j].plan = pg.plan /\ ~call'[j].ok
  /\ pg # Home /\ pg.plan \notin refused /\ OnTheWay("load", pg.plan) = {}
  /\ \A k \in Calls : ~Busy(k) /\ Busy(k)' => k = j

\* What becomes of the requests of the page before.
Left(j, pg) ==
  /\ Busy(j) /\ Busy(j)' /\ Like(call[j], call'[j])
  /\ call'[j].alive => Carried(pg)

LEMMA OpenCalls ==
  ASSUME TypeOK, AllOK, NEW pg \in Page, Open(pg)
  PROVE  /\ call' \in [Calls -> Call \cup {NoCall}] /\ sent' \in 0 .. MaxSends
         /\ \A j \in Calls : Busy(j) => Left(j, pg)
         /\ \A j \in Calls : Busy(j)' => Left(j, pg) \/ Loads(j, pg)
         /\ \/ pg = Home \/ pg.plan \in refused
            \/ \E j \in Calls : Busy(j)' /\ call'[j].kind = "load" /\ call'[j].plan = pg.plan
<1> DEFINE still == IF Carried(pg) THEN call ELSE [i \in Calls |-> Orphaned(i)]
<1>1. /\ still \in [Calls -> Call \cup {NoCall}]
      /\ \A j \in Calls : ~Busy(j) => still[j] = NoCall
      /\ \A j \in Calls : Busy(j) => /\ still[j] \in Call /\ Like(call[j], still[j])
                                     /\ still[j].alive => Carried(pg)
  <2>1. CASE Carried(pg)
    BY <2>1 DEF TypeOK, Busy, Like
  <2>2. CASE ~Carried(pg)
    BY <2>2, OrphanedFacts
  <2> QED
    BY <2>1, <2>2
<1>2. IF pg = Home \/ pg.plan \in refused \/ OnTheWay("load", pg.plan) # {}
      THEN call' = still /\ UNCHANGED sent
      ELSE /\ sent < MaxSends /\ sent' = sent + 1
           /\ \E i \in Calls : ~Busy(i) /\ call' = [still EXCEPT ![i] = Request("load", pg.plan)]
  BY DEF Open
<1> HIDE DEF still
<1>3. sent' \in 0 .. MaxSends
  BY <1>2, BoundIsNat DEF TypeOK
<1>4. CASE pg = Home \/ pg.plan \in refused \/ OnTheWay("load", pg.plan) # {}
  <2>1. call' = still
    BY <1>2, <1>4
  <2>2. \A j \in Calls : Busy(j) => Left(j, pg)
    BY <1>1, <2>1, CallFacts DEF Busy, Left
  <2>3. \A j \in Calls : Busy(j)' => Busy(j)
    BY <1>1, <2>1 DEF Busy
  <2>4. ASSUME NEW j \in OnTheWay("load", pg.plan)
        PROVE  \E k \in Calls : Busy(k)' /\ call'[k].kind = "load" /\ call'[k].plan = pg.plan
    <3>1. j \in Calls /\ Busy(j) /\ call[j].kind = "load" /\ call[j].plan = pg.plan
      BY DEF OnTheWay
    <3> QED
      BY <2>2, <3>1 DEF Left, Like
  <2> QED
    BY <1>1, <1>3, <1>4, <2>1, <2>2, <2>3, <2>4
<1>5. CASE ~(pg = Home \/ pg.plan \in refused \/ OnTheWay("load", pg.plan) # {})
  <2>1. PICK i \in Calls : ~Busy(i) /\ call' = [still EXCEPT ![i] = Request("load", pg.plan)]
    BY <1>2, <1>5
  <2>2. pg.plan \in Plans
    BY <1>5, PageFacts, PlanIsPlan
  <2> DEFINE c == Request("load", pg.plan)
  <2>3. c \in Call /\ c.kind = "load" /\ c.plan = pg.plan /\ ~c.ok
    BY <2>2, RequestFacts DEF Kinds
  <2> HIDE DEF c
  <2>4. call' = [still EXCEPT ![i] = c]
    BY <2>1 DEF c
  <2>5. /\ call' \in [Calls -> Call \cup {NoCall}] /\ call'[i] = c
        /\ \A j \in Calls : j # i => call'[j] = still[j]
    BY <1>1, <2>3, <2>4
  <2>6. Busy(i)' /\ \A k \in Calls : ~Busy(k) /\ Busy(k)' => k = i
    BY <1>1, <2>3, <2>5, CallFacts DEF Busy
  <2>7. Loads(i, pg)
    BY <1>5, <2>1, <2>3, <2>5, <2>6 DEF Loads
  <2>8. \A j \in Calls : Busy(j) => Left(j, pg)
    BY <1>1, <2>1, <2>5, CallFacts DEF Busy, Left
  <2> QED
    BY <1>3, <2>3, <2>5, <2>6, <2>7, <2>8
<1> QED
  BY <1>4, <1>5

LEMMA OpenForm ==
  ASSUME TypeOK, AllOK, NEW pg \in Page, Open(pg)
  PROVE  /\ UNCHANGED <<server, cache, refused>> /\ page' = pg
         /\ form' \in Form \cup {NoForm} /\ doubt' \subseteq Doubts
         /\ form' # NoForm <=> HasForm(page)'
         /\ Carried(pg) => Mounted' /\ "carried" \in doubt'
         /\ ~Carried(pg) /\ Mounted' =>
              /\ form'.typedOn = pg.plan /\ ~form'.dirty /\ ~form'.held
              /\ pg.plan \in Plans /\ cache[pg.plan] \in Data
              /\ form'.title = cache[pg.plan].title /\ form'.counts = cache[pg.plan].counts
              /\ doubt' = Stale(cache[pg.plan], pg.plan)
<1>1. /\ UNCHANGED <<server, cache, refused>> /\ page' = pg
      /\ form' = FormOn(pg) /\ doubt' = DoubtOn(pg)
  BY DEF Open
<1>2. HasForm(page)' <=> HasForm(pg)
  BY <1>1 DEF HasForm
<1>3. CASE Carried(pg)
  <2>1. form' = form /\ form # NoForm /\ HasForm(pg) /\ doubt' = doubt \cup {"carried"}
    BY <1>1, <1>3 DEF FormOn, DoubtOn, Carried
  <2> QED
    BY <1>1, <1>2, <1>3, <2>1 DEF TypeOK, Mounted, Doubts
<1>4. CASE ~Carried(pg) /\ HasForm(pg)
  <2>1. /\ form' = Fresh(cache[pg.plan], pg.plan)
        /\ doubt' = Stale(cache[pg.plan], pg.plan)
    BY <1>1, <1>4 DEF FormOn, DoubtOn
  <2>2. pg.plan \in Plans /\ cache[pg.plan] \in Data
    BY <1>4, PageFacts, PlanIsPlan DEF HasForm, TypeOK
  <2>3. Stale(cache[pg.plan], pg.plan) \subseteq Doubts
    BY DEF Stale, Doubts
  <2> QED
    BY <1>1, <1>2, <1>4, <2>1, <2>2, <2>3, FreshFacts, FormFacts DEF Mounted
<1>5. CASE ~Carried(pg) /\ ~HasForm(pg)
  BY <1>1, <1>2, <1>5 DEF FormOn, DoubtOn, Mounted
<1> QED
  BY <1>3, <1>4, <1>5

LEMMA OpenInv ==
  ASSUME TypeOK, AllOK, NEW pg \in Page, Open(pg)
  PROVE  TypeOK' /\ AllOK'
<1>1. /\ title' = title /\ counts' = counts /\ parent' = parent /\ cache' = cache
      /\ refused' = refused /\ page' = pg /\ solver' = solver
  BY OpenForm DEF server
<1>2. TypeOK'
  BY <1>1, OpenForm, OpenCalls DEF TypeOK
<1>3. CallsOK'
  <2> SUFFICES ASSUME NEW j \in Calls, Busy(j)'
               PROVE  Sound(call'[j]) /\ Placed(call[j])'
    BY DEF CallsOK, Sound
  <2>1. CASE Left(j, pg)
    <3>1. Sound(call[j]) /\ Placed(call[j]) /\ Like(call[j], call'[j])
      BY <2>1 DEF AllOK, CallsOK, Left
    <3>2. call'[j].alive => Mounted' /\ "carried" \in doubt'
      BY <2>1, OpenForm DEF Left
    <3> QED
      BY <1>1, <3>1, <3>2 DEF Sound, Placed, Like
  <2>2. CASE Loads(j, pg)
    BY <1>1, <2>2 DEF Loads, Sound, Placed
  <2> QED
    BY <2>1, <2>2, OpenCalls
<1>4. Once'
  <2> SUFFICES ASSUME NEW i \in Calls, Busy(i)', call'[i].kind = "load",
                      NEW j \in Calls, Busy(j)', call'[j].kind = "load",
                      call'[i].plan = call'[j].plan
               PROVE  i = j
    BY DEF Once
  <2>1. /\ Left(i, pg) \/ Loads(i, pg)
        /\ Left(j, pg) \/ Loads(j, pg)
    BY OpenCalls
  <2>2. ASSUME NEW k \in Calls, Left(k, pg), call'[k].kind = "load"
        PROVE  /\ Busy(k) /\ call[k].kind = "load" /\ call[k].plan = call'[k].plan
               /\ k \in OnTheWay("load", call'[k].plan)
    BY <2>2 DEF Left, Like, OnTheWay
  <2> QED
    BY <2>1, <2>2 DEF Loads, AllOK, Once
<1>5. PageOK'
  BY <1>1, OpenForm DEF PageOK, Open
<1>6. ASSUME ~Carried(pg), Mounted', "stale" \notin doubt'
      PROVE  /\ form'.title = title'[page'.plan] /\ form'.counts = counts'[page'.plan]
             /\ \A j \in Calls : Busy(j)' => TitleCall(call[j])' /\ CountsCall(call[j])'
             /\ \A j \in Calls : ~Committing(j)'
  <2>1. /\ pg.plan \in Plans /\ cache[pg.plan] \in Data
        /\ form'.title = cache[pg.plan].title /\ form'.counts = cache[pg.plan].counts
        /\ doubt' = Stale(cache[pg.plan], pg.plan)
    BY <1>6, OpenForm
  <2>2. /\ cache[pg.plan].title = title[pg.plan] /\ cache[pg.plan].counts = counts[pg.plan]
        /\ \A i \in Calls : Busy(i) /\ call[i].kind \in {"title", "counts"} /\ call[i].plan = pg.plan
                   => call[i].phase = "served"
        /\ \A i \in Calls : Busy(i) /\ call[i].kind = "publish" /\ parent[call[i].plan] = pg.plan
                   => call[i].phase = "served"
    BY <1>6, <2>1, StaleFacts DEF AllOK
  <2>3. ASSUME NEW j \in Calls, Busy(j)'
        PROVE  TitleCall(call[j])' /\ CountsCall(call[j])'
    <3>1. CASE Left(j, pg)
      <4>1. Busy(j) /\ Like(call[j], call'[j]) /\ ~call'[j].alive
        BY <1>6, <3>1 DEF Left
      <4> QED
        BY <1>1, <2>2, <4>1 DEF Like, TitleCall, CountsCall
    <3>2. CASE Loads(j, pg)
      BY <3>2 DEF Loads, TitleCall, CountsCall
    <3> QED
      BY <2>3, <3>1, <3>2, OpenCalls
  <2>4. ASSUME NEW j \in Calls, Committing(j)' PROVE FALSE
    <3>1. Busy(j)' /\ call'[j].kind = "counts" /\ call'[j].plan = pg.plan /\ call'[j].phase # "served"
      BY <1>1, <2>4 DEF Committing
    <3>2. Left(j, pg)
      BY <3>1, OpenCalls DEF Loads
    <3> QED
      BY <2>2, <3>1, <3>2 DEF Left, Like
  <2> QED
    BY <1>1, <2>1, <2>2, <2>3, <2>4
<1>7. TitleOK'
  BY <1>6, OpenForm DEF TitleOK, TitleClear
<1>8. CountsOK'
  BY <1>6, OpenForm DEF CountsOK, CountsClear
<1>9. SpinnerOK'
  <2>1. Loading' => pg # Home /\ pg.plan \notin refused
    BY <1>1 DEF Loading, Failed, Home
  <2> QED
    BY <1>1, <2>1, OpenCalls DEF SpinnerOK
<1> QED
  BY <1>2, <1>3, <1>4, <1>5, <1>7, <1>8, <1>9 DEF AllOK

(***************************************************************************)
(* The server.                                                             *)
(***************************************************************************)

\* The server goes on with requests and tasks; the page sees nothing of it.
ServerStep ==
  /\ UNCHANGED <<cache, refused, page, form, sent>>
  /\ doubt \subseteq doubt' /\ doubt' \subseteq Doubts
  /\ title' \in [Plans -> Titles] /\ counts' \in [Plans -> Counts]
  /\ parent' \in [Copies -> Meetings \cup {NoPlan}]
  /\ solver' \in [Copies -> Task \cup {NoData}]
  /\ \A c \in Copies : parent[c] # NoPlan => parent'[c] = parent[c]
  /\ call' \in [Calls -> Call \cup {NoCall}]
  /\ \A j \in Calls : Busy(j)' <=> Busy(j)
  /\ \A j \in Calls : Busy(j) =>
       /\ call'[j].kind = call[j].kind /\ call'[j].plan = call[j].plan
       /\ call'[j].form = call[j].form /\ call'[j].carried = call[j].carried
       /\ call'[j].alive = call[j].alive
       /\ call[j].phase = "served" => call'[j] = call[j]
       /\ Sound(call'[j])

\* No request of a kind is served further.
Rests(kind) == \A j \in Calls : Busy(j) /\ call[j].kind = kind => call'[j] = call[j]

LEMMA ServerStepCalls ==
  ASSUME TypeOK, AllOK, ServerStep
  PROVE  TypeOK' /\ SpinnerOK' /\ CallsOK' /\ Once' /\ PageOK'
<1>1. /\ cache' = cache /\ refused' = refused /\ page' = page /\ form' = form
      /\ (Mounted' <=> Mounted) /\ doubt \subseteq doubt'
  BY DEF ServerStep, Mounted
<1>2. TypeOK'
  <2>1. HasForm(page)' <=> HasForm(page)
    BY <1>1 DEF HasForm
  <2> QED
    BY <1>1, <2>1 DEF TypeOK, ServerStep
<1>3. ASSUME NEW c \in Copies, parent[c] # NoPlan PROVE parent'[c] = parent[c] /\ parent'[c] # NoPlan
  BY <1>3 DEF ServerStep
<1>4. CallsOK'
  <2> SUFFICES ASSUME NEW j \in Calls, Busy(j)'
               PROVE  Sound(call'[j]) /\ Placed(call[j])'
    BY DEF CallsOK, Sound
  <2>1. Busy(j) /\ Sound(call[j]) /\ Placed(call[j]) /\ Sound(call'[j])
    BY DEF AllOK, CallsOK, ServerStep
  <2>2. /\ call'[j].kind = call[j].kind /\ call'[j].plan = call[j].plan
        /\ call'[j].alive = call[j].alive
    BY <2>1 DEF ServerStep
  <2>3. Placed(call[j])'
    BY <1>1, <1>3, <2>1, <2>2 DEF Placed, Sound
  <2> QED
    BY <2>1, <2>3
<1>5. Once' /\ SpinnerOK'
  BY <1>1 DEF AllOK, Once, SpinnerOK, Loading, Failed, ServerStep
<1>6. PageOK'
  BY <1>1, <1>3, PageFacts DEF AllOK, PageOK, TypeOK
<1> QED
  BY <1>2, <1>4, <1>5, <1>6

LEMMA TitleStays ==
  ASSUME TypeOK, AllOK, ServerStep, Rests("title"),
         TitleClear' => title'[page.plan] = title[page.plan]
  PROVE  TitleOK'
<1> SUFFICES ASSUME TitleClear'
             PROVE  /\ form'.dirty \/ form'.title = title'[page'.plan]
                    /\ \A j \in Calls : Busy(j)' => TitleCall(call[j])'
  BY DEF TitleOK
<1>1. /\ form' = form /\ page' = page /\ TitleClear /\ title'[page.plan] = title[page.plan]
  BY DEF ServerStep, TitleClear, Mounted
<1>2. /\ form.dirty \/ form.title = title[page.plan]
      /\ \A j \in Calls : Busy(j) => TitleCall(call[j])
  BY <1>1 DEF AllOK, TitleOK
<1>3. ASSUME NEW j \in Calls, Busy(j)'
      PROVE  TitleCall(call[j])'
  <2>1. Busy(j) /\ call'[j].kind = call[j].kind
    BY <1>3 DEF ServerStep
  <2>2. CASE call[j].kind = "title"
    BY <1>1, <1>2, <2>1, <2>2 DEF Rests, TitleCall
  <2>3. CASE call[j].kind # "title"
    BY <2>1, <2>3 DEF TitleCall
  <2> QED
    BY <2>2, <2>3
<1> QED
  BY <1>1, <1>2, <1>3

LEMMA CountsStay ==
  ASSUME TypeOK, AllOK, ServerStep, Rests("counts"),
         CountsClear' => counts'[page.plan] = counts[page.plan]
  PROVE  CountsOK'
<1> SUFFICES ASSUME CountsClear'
             PROVE  /\ \A i, j \in Calls : Committing(i)' /\ Committing(j)' => i = j
                    /\ \/ form'.held \/ form'.counts = counts'[page'.plan]
                       \/ \E j \in Calls : Committing(j)'
                    /\ \A j \in Calls : Busy(j)' => CountsCall(call[j])'
  BY DEF CountsOK
<1>1. form' = form /\ page' = page /\ CountsClear /\ counts'[page.plan] = counts[page.plan]
  BY DEF ServerStep, CountsClear, Mounted
<1>2. /\ \A i, j \in Calls : Committing(i) /\ Committing(j) => i = j
      /\ \/ form.held \/ form.counts = counts[page.plan]
         \/ \E j \in Calls : Committing(j)
      /\ \A j \in Calls : Busy(j) => CountsCall(call[j])
  BY <1>1 DEF AllOK, CountsOK
<1>3. \A j \in Calls : Committing(j)' <=> Committing(j)
  BY <1>1 DEF Committing, Rests, ServerStep
<1>4. ASSUME NEW j \in Calls, Busy(j)'
      PROVE  CountsCall(call[j])'
  <2>1. /\ Busy(j) /\ call'[j].kind = call[j].kind /\ call'[j].plan = call[j].plan
        /\ call[j].phase = "served" => call'[j].phase = "served"
    BY <1>4 DEF ServerStep
  <2>2. CASE call[j].kind = "counts"
    BY <1>1, <1>2, <2>1, <2>2 DEF Rests, CountsCall
  <2>3. CASE call[j].kind = "publish"
    <3>1. call[j].plan \in Copies /\ parent'[call[j].plan] = parent[call[j].plan]
      BY <2>1, <2>3 DEF AllOK, CallsOK, Sound, Placed, ServerStep
    <3> QED
      BY <1>1, <1>2, <2>1, <2>3, <3>1 DEF CountsCall
  <2>4. CASE call[j].kind \notin {"counts", "publish"}
    BY <2>1, <2>4 DEF CountsCall
  <2> QED
    BY <2>2, <2>3, <2>4
<1> QED
  BY <1>1, <1>2, <1>3, <1>4

\* One request is served further, and becomes one that is sound.
LEMMA MovesStep ==
  ASSUME TypeOK, AllOK, NEW i \in Calls, Busy(i), call[i].phase # "served",
         NEW phase, NEW row, NEW above, Moves(i, phase, row, above), Sound(call'[i]),
         UNCHANGED <<cache, refused, page, form, sent>>,
         doubt \subseteq doubt', doubt' \subseteq Doubts,
         title' \in [Plans -> Titles], counts' \in [Plans -> Counts],
         parent' \in [Copies -> Meetings \cup {NoPlan}],
         solver' \in [Copies -> Task \cup {NoData}],
         \A c \in Copies : parent[c] # NoPlan => parent'[c] = parent[c]
  PROVE  /\ ServerStep
         /\ \A kind : kind # call[i].kind => Rests(kind)
<1>1. \A j \in Calls : Busy(j)' <=> Busy(j)
  BY DEF Moves, Busy
<1>2. ASSUME NEW j \in Calls, Busy(j)
      PROVE  /\ call'[j].kind = call[j].kind /\ call'[j].plan = call[j].plan
             /\ call'[j].form = call[j].form /\ call'[j].carried = call[j].carried
             /\ call'[j].alive = call[j].alive
             /\ call[j].phase = "served" => call'[j] = call[j]
             /\ Sound(call'[j])
  <2>1. CASE j = i
    BY <2>1 DEF Moves
  <2>2. CASE j # i
    BY <1>2, <2>2 DEF Moves, AllOK, CallsOK
  <2> QED
    BY <2>1, <2>2
<1>3. \A kind : kind # call[i].kind => Rests(kind)
  BY DEF Rests, Moves
<1> QED
  BY <1>1, <1>2, <1>3 DEF ServerStep, Moves

LEMMA RowsAreData ==
  ASSUME TypeOK, NEW p \in Plans
  PROVE  /\ OnServer(p) \in Data /\ OnServer(p) # NoData
         /\ OnServer(p).title = title[p] /\ OnServer(p).counts = counts[p]
         /\ title[p] \in Titles /\ counts[p] \in Counts
BY NoneIsNone DEF TypeOK, OnServer, Data

LEMMA ServeLoadInv ==
  ASSUME TypeOK, AllOK, NEW i \in Calls, ServeLoad(i)
  PROVE  TypeOK' /\ AllOK'
<1>1. Busy(i) /\ call[i] \in Call /\ call[i].plan \in Plans /\ call[i].kind = "load"
      /\ call[i].phase = "sent"
  BY CallFacts DEF ServeLoad, Pending, TypeOK, Busy
<1> DEFINE d == OnServer(call[i].plan)
<1>2. d \in Data /\ d # NoData
  BY <1>1, RowsAreData
<1>3. Served(i, TRUE, d) /\ UNCHANGED <<server, tab, doubt, sent>>
  BY DEF ServeLoad
<1> HIDE DEF d
<1>4. Moves(i, "served", d, NoData)
  BY <1>1, <1>2, <1>3, ServedFacts
<1>5. Sound(call'[i])
  BY <1>1, <1>2, <1>4 DEF Moves, Sound
<1>6. UNCHANGED <<title, counts, parent, solver, cache, refused, page, form, doubt, sent>>
  BY <1>3 DEF server, tab
<1>7. ServerStep /\ Rests("title") /\ Rests("counts")
  BY <1>1, <1>4, <1>5, <1>6, MovesStep DEF TypeOK
<1> QED
  BY <1>6, <1>7, ServerStepCalls, TitleStays, CountsStay DEF AllOK

LEMMA ReadTitleInv ==
  ASSUME TypeOK, AllOK, NEW i \in Calls, ReadTitle(i)
  PROVE  TypeOK' /\ AllOK'
<1>1. /\ Busy(i) /\ call[i] \in Call /\ call[i].plan \in Plans /\ call[i].form \in Form
      /\ call[i].kind = "title" /\ call[i].phase = "sent"
  BY CallFacts DEF ReadTitle, Pending, TypeOK, Busy, AllOK, CallsOK, Sound
<1> DEFINE p == call[i].plan
           d == [title |-> call[i].form.title, counts |-> counts[p]]
           row == Patched(p, d)
<1>2. d \in Data /\ d # NoData /\ d.title = call[i].form.title
  BY <1>1, FormFacts, RowsAreData, NoneIsNone DEF Data
<1>3. Has(i, row, NoData)
  BY DEF ReadTitle, TitleOf
<1> HIDE DEF d
<1>4. /\ row \in Data \cup {NoData} /\ (row # NoData => row.title = call[i].form.title)
      /\ row = NoData => title[p] = call[i].form.title
  BY <1>1, <1>2, RowsAreData DEF Patched
<1> HIDE DEF row
<1>5. Moves(i, "read", row, NoData)
      /\ UNCHANGED <<title, counts, parent, solver, cache, refused, page, form, doubt, sent>>
  BY <1>1, <1>3, <1>4, HasFacts
<1>6. Sound(call'[i])
  BY <1>1, <1>4, <1>5 DEF Moves, Sound, AllOK, CallsOK
<1>7. ServerStep /\ Rests("counts")
  BY <1>1, <1>5, <1>6, MovesStep DEF TypeOK
<1>8. TitleOK'
  <2> SUFFICES ASSUME TitleClear'
               PROVE  /\ form.dirty \/ form.title = title[page.plan]
                      /\ \A j \in Calls : Busy(j)' => TitleCall(call[j])'
    BY <1>5 DEF TitleOK
  <2>1. TitleClear
    BY <1>5 DEF TitleClear, Mounted
  <2>2. /\ form.dirty \/ form.title = title[page.plan]
        /\ \A j \in Calls : Busy(j) => TitleCall(call[j])
    BY <2>1 DEF AllOK, TitleOK
  <2>3. ASSUME NEW j \in Calls, Busy(j)'
        PROVE  TitleCall(call[j])'
    <3>1. CASE j = i
      BY <1>1, <1>4, <1>5, <2>2, <3>1 DEF Moves, TitleCall
    <3>2. CASE j # i
      BY <1>5, <2>2, <2>3, <3>2 DEF Moves, TitleCall, Busy
    <3> QED
      BY <3>1, <3>2
  <2> QED
    BY <2>2, <2>3
<1> QED
  BY <1>5, <1>7, <1>8, ServerStepCalls, CountsStay DEF AllOK

LEMMA ReadCountsInv ==
  ASSUME TypeOK, AllOK, NEW i \in Calls, ReadCounts(i)
  PROVE  TypeOK' /\ AllOK'
<1>1. /\ Busy(i) /\ call[i] \in Call /\ call[i].plan \in Plans /\ call[i].form \in Form
      /\ call[i].kind = "counts" /\ call[i].phase = "sent"
  BY CallFacts DEF ReadCounts, Pending, TypeOK, Busy, AllOK, CallsOK, Sound
<1> DEFINE p == call[i].plan
           d == [title |-> title[p], counts |-> call[i].form.counts]
           row == Patched(p, d)
<1>2. d \in Data /\ d # NoData /\ d.counts = call[i].form.counts
  BY <1>1, FormFacts, RowsAreData, NoneIsNone DEF Data
<1>3. Has(i, row, NoData)
  BY DEF ReadCounts, CountsOf
<1> HIDE DEF d
<1>4. /\ row \in Data \cup {NoData} /\ (row # NoData => row.counts = call[i].form.counts)
      /\ row = NoData => counts[p] = call[i].form.counts
  BY <1>1, <1>2, RowsAreData DEF Patched
<1> HIDE DEF row
<1>5. Moves(i, "read", row, NoData)
      /\ UNCHANGED <<title, counts, parent, solver, cache, refused, page, form, doubt, sent>>
  BY <1>1, <1>3, <1>4, HasFacts
<1>6. Sound(call'[i])
  BY <1>1, <1>4, <1>5 DEF Moves, Sound, AllOK, CallsOK
<1>7. ServerStep /\ Rests("title")
  BY <1>1, <1>5, <1>6, MovesStep DEF TypeOK
<1>8. CountsOK'
  <2> SUFFICES ASSUME CountsClear'
               PROVE  /\ \A j, k \in Calls : Committing(j)' /\ Committing(k)' => j = k
                      /\ \/ form.held \/ form.counts = counts[page.plan]
                         \/ \E j \in Calls : Committing(j)'
                      /\ \A j \in Calls : Busy(j)' => CountsCall(call[j])'
    BY <1>5 DEF CountsOK
  <2>1. CountsClear
    BY <1>5 DEF CountsClear, Mounted
  <2>2. /\ \A j, k \in Calls : Committing(j) /\ Committing(k) => j = k
        /\ \/ form.held \/ form.counts = counts[page.plan]
           \/ \E j \in Calls : Committing(j)
        /\ \A j \in Calls : Busy(j) => CountsCall(call[j])
    BY <2>1 DEF AllOK, CountsOK
  <2>3. \A j \in Calls : Committing(j)' <=> Committing(j)
    BY <1>1, <1>5 DEF Committing, Moves, Busy
  <2>4. ASSUME NEW j \in Calls, Busy(j)'
        PROVE  CountsCall(call[j])'
    <3>1. CASE j = i
      BY <1>1, <1>4, <1>5, <2>2, <3>1 DEF Moves, CountsCall
    <3>2. CASE j # i
      BY <1>5, <2>2, <2>4, <3>2 DEF Moves, CountsCall, Busy
    <3> QED
      BY <3>1, <3>2
  <2> QED
    BY <2>2, <2>3, <2>4
<1> QED
  BY <1>5, <1>7, <1>8, ServerStepCalls, TitleStays DEF AllOK

LEMMA ReadRestInv ==
  ASSUME TypeOK, AllOK, NEW i \in Calls, ReadGenerate(i) \/ ReadPublish(i)
  PROVE  TypeOK' /\ AllOK'
<1>1. /\ Busy(i) /\ call[i] \in Call /\ call[i].plan \in Plans
      /\ call[i].kind \in {"generate", "publish"} /\ call[i].phase = "sent"
  BY CallFacts DEF ReadGenerate, ReadPublish, Pending, TypeOK, Busy
<1>2. OnServer(call[i].plan) \in Data /\ OnServer(call[i].plan) # NoData
  BY <1>1, RowsAreData
<1>3. PICK above \in Data \cup {NoData} :
        /\ Has(i, OnServer(call[i].plan), above)
        /\ call[i].kind = "publish" => above # NoData
  <2>1. CASE ReadGenerate(i)
    BY <2>1 DEF ReadGenerate, Pending
  <2>2. CASE ReadPublish(i)
    <3> DEFINE c == call[i].plan
               d == [title |-> title[parent[c]], counts |-> counts[c]]
    <3>1. c \in Copies /\ parent[c] # NoPlan
      BY <2>2 DEF ReadPublish, Pending, AllOK, CallsOK, Sound, Placed
    <3>2. parent[c] \in Plans /\ c \in Plans
      BY <3>1, PlanIsPlan DEF TypeOK
    <3>3. d \in Data /\ d # NoData
      BY <3>2, RowsAreData, NoneIsNone DEF Data
    <3> QED
      BY <2>2, <3>3 DEF ReadPublish
  <2> QED
    BY <2>1, <2>2
<1>4. Moves(i, "read", OnServer(call[i].plan), above)
      /\ UNCHANGED <<title, counts, parent, solver, cache, refused, page, form, doubt, sent>>
  BY <1>1, <1>2, <1>3, HasFacts
<1>5. Sound(call'[i])
  BY <1>1, <1>2, <1>3, <1>4 DEF Moves, Sound, AllOK, CallsOK
<1>6. ServerStep /\ Rests("title") /\ Rests("counts")
  BY <1>1, <1>4, <1>5, MovesStep DEF TypeOK
<1> QED
  BY <1>4, <1>6, ServerStepCalls, TitleStays, CountsStay DEF AllOK

\* What somebody else's write of a row does to the page: nothing, or it is told of.
LEMMA TakenBackFacts ==
  ASSUME TypeOK, NEW kind, NEW p \in Plans, NEW row \in Data, Mounted, page.plan = p
  PROVE  /\ TakenBack(kind, p, row) \subseteq Doubts
         /\ kind # "title" /\ "titleBack" \notin TakenBack(kind, p, row) => row.title = title[p]
         /\ kind # "counts" /\ "countsBack" \notin TakenBack(kind, p, row) => row.counts = counts[p]
BY DEF TakenBack, Mounted, Doubts

LEMMA TakenBackDoubts ==
  ASSUME NEW kind, NEW p, NEW row
  PROVE  TakenBack(kind, p, row) \subseteq Doubts
BY DEF TakenBack, Doubts

LEMMA WriteFacts ==
  ASSUME TypeOK, NEW kind, NEW p \in Plans, NEW row \in Data, Write(kind, p, row)
  PROVE  /\ title' \in [Plans -> Titles] /\ counts' \in [Plans -> Counts]
         /\ doubt \subseteq doubt' /\ doubt' \subseteq Doubts
         /\ title'[p] = row.title /\ counts'[p] = row.counts
         /\ \A q \in Plans : q # p => title'[q] = title[q] /\ counts'[q] = counts[q]
         /\ Mounted /\ kind # "title" /\ "titleBack" \notin doubt' =>
              title'[page.plan] = title[page.plan]
         /\ Mounted /\ kind # "counts" /\ "countsBack" \notin doubt' =>
              counts'[page.plan] = counts[page.plan]
<1>1. row.title \in Titles /\ row.counts \in Counts
  BY DEF Data
<1>2. /\ title' \in [Plans -> Titles] /\ counts' \in [Plans -> Counts]
      /\ title'[p] = row.title /\ counts'[p] = row.counts
      /\ \A q \in Plans : q # p => title'[q] = title[q] /\ counts'[q] = counts[q]
  BY <1>1 DEF Write, TypeOK
<1>3. doubt' = doubt \cup TakenBack(kind, p, row)
  BY DEF Write
<1>4. doubt \subseteq doubt' /\ doubt' \subseteq Doubts
  BY <1>3, TakenBackDoubts DEF TypeOK
<1>5. Mounted => page.plan \in Plans
  BY Mounts DEF Mounted
<1>6. CASE Mounted /\ page.plan = p
  BY <1>2, <1>3, <1>4, <1>6, TakenBackFacts
<1>7. CASE Mounted /\ page.plan # p
  BY <1>2, <1>4, <1>5, <1>7
<1>8. CASE ~Mounted
  BY <1>2, <1>4, <1>8
<1> QED
  BY <1>6, <1>7, <1>8

LEMMA WritePatchInv ==
  ASSUME TypeOK, AllOK, NEW i \in Calls, WritePatch(i)
  PROVE  TypeOK' /\ AllOK'
<1>1. /\ Busy(i) /\ call[i] \in Call /\ call[i].plan \in Plans
      /\ call[i].kind \in {"title", "counts"} /\ call[i].phase = "read"
      /\ call[i].row \in Data \cup {NoData}
      /\ Sound(call[i])
  BY CallFacts DEF WritePatch, Reading, TypeOK, Busy, AllOK, CallsOK
<1>2. /\ Served(i, TRUE, NoData)
      /\ UNCHANGED <<parent, solver, cache, refused, page, form, sent>>
  BY DEF WritePatch, tab
<1>3. Moves(i, "served", NoData, NoData)
  BY <1>1, <1>2, ServedFacts
<1>4. /\ title' \in [Plans -> Titles] /\ counts' \in [Plans -> Counts]
      /\ doubt \subseteq doubt' /\ doubt' \subseteq Doubts
      /\ \/ title' = title /\ counts' = counts /\ call[i].row = NoData
         \/ /\ title'[call[i].plan] = call[i].row.title /\ counts'[call[i].plan] = call[i].row.counts
            /\ call[i].row # NoData
            /\ \A q \in Plans : q # call[i].plan => title'[q] = title[q] /\ counts'[q] = counts[q]
      /\ Mounted /\ call[i].kind # "title" /\ "titleBack" \notin doubt' =>
           title'[page.plan] = title[page.plan]
      /\ Mounted /\ call[i].kind # "counts" /\ "countsBack" \notin doubt' =>
           counts'[page.plan] = counts[page.plan]
  <2>1. CASE call[i].row = NoData
    <3>1. title' = title /\ counts' = counts /\ doubt' = doubt
      BY <2>1 DEF WritePatch
    <3> QED
      BY <2>1, <3>1 DEF TypeOK
  <2>2. CASE call[i].row # NoData
    <3>1. Write(call[i].kind, call[i].plan, call[i].row) /\ call[i].row \in Data
      BY <1>1, <2>2 DEF WritePatch
    <3> QED
      BY <1>1, <2>2, <3>1, WriteFacts
  <2> QED
    BY <2>1, <2>2
<1>5. Sound(call'[i])
  BY <1>1, <1>3 DEF Moves, Sound
<1>6. ServerStep /\ \A kind : kind # call[i].kind => Rests(kind)
  BY <1>1, <1>2, <1>3, <1>4, <1>5, MovesStep DEF TypeOK
<1>7. CASE call[i].kind = "title"
  <2>1. CountsOK'
    BY <1>2, <1>4, <1>6, <1>7, CountsStay DEF CountsClear, Mounted
  <2>2. TitleOK'
    <3> SUFFICES ASSUME TitleClear'
                 PROVE  /\ form.dirty \/ form.title = title'[page.plan]
                        /\ \A j \in Calls : Busy(j)' => TitleCall(call[j])'
      BY <1>2 DEF TitleOK
    <3>1. TitleClear
      BY <1>2, <1>4 DEF TitleClear, Mounted
    <3>2. /\ form.dirty \/ form.title = title[page.plan]
          /\ \A j \in Calls : Busy(j) => TitleCall(call[j])
      BY <3>1 DEF AllOK, TitleOK
    <3>3. page.plan \in Plans
      BY <3>1, Mounts DEF TitleClear, Mounted
    <3>4. /\ title'[page.plan] \in {title[page.plan], form.title}
          /\ call[i].plan = page.plan => title'[page.plan] = form.title
      <4>1. TitleCall(call[i])
        BY <1>1, <3>2
      <4> QED
        BY <1>1, <1>4, <1>7, <3>3, <4>1 DEF TitleCall, Sound
    <3>5. ASSUME NEW j \in Calls, Busy(j)'
          PROVE  TitleCall(call[j])'
      <4>1. CASE j = i
        BY <1>1, <1>2, <1>3, <3>4, <4>1 DEF Moves, TitleCall
      <4>2. CASE j # i
        <5>1. Busy(j) /\ call'[j] = call[j]
          BY <1>3, <3>5, <4>2 DEF Moves, Busy
        <5> QED
          BY <1>2, <3>2, <3>4, <5>1 DEF TitleCall
      <4> QED
        BY <4>1, <4>2
    <3> QED
      BY <3>2, <3>4, <3>5
  <2> QED
    BY <1>6, <2>1, <2>2, ServerStepCalls DEF AllOK
<1>8. CASE call[i].kind = "counts"
  <2>1. TitleOK'
    BY <1>2, <1>4, <1>6, <1>8, TitleStays DEF TitleClear, Mounted
  <2>2. CountsOK'
    <3> SUFFICES ASSUME CountsClear'
                 PROVE  /\ \A j, k \in Calls : Committing(j)' /\ Committing(k)' => j = k
                        /\ \/ form.held \/ form.counts = counts'[page.plan]
                           \/ \E j \in Calls : Committing(j)'
                        /\ \A j \in Calls : Busy(j)' => CountsCall(call[j])'
      BY <1>2 DEF CountsOK
    <3>1. CountsClear
      BY <1>2, <1>4 DEF CountsClear, Mounted
    <3>2. /\ \A j, k \in Calls : Committing(j) /\ Committing(k) => j = k
          /\ \/ form.held \/ form.counts = counts[page.plan]
             \/ \E j \in Calls : Committing(j)
          /\ \A j \in Calls : Busy(j) => CountsCall(call[j])
      BY <3>1 DEF AllOK, CountsOK
    <3>3. page.plan \in Plans
      BY <3>1, Mounts DEF CountsClear, Mounted
    <3>4. \A j \in Calls : Committing(j)' <=> Committing(j) /\ j # i
      BY <1>1, <1>2, <1>3 DEF Committing, Moves, Busy
    <3>5. CASE call[i].plan = page.plan
      <4>1. Committing(i) /\ CountsCall(call[i])
        BY <1>1, <1>8, <3>2, <3>5 DEF Committing
      <4>2. form.held \/ form.counts = counts'[page.plan]
        BY <1>1, <1>4, <1>8, <3>3, <3>5, <4>1 DEF CountsCall, Sound
      <4>3. \A j \in Calls : ~Committing(j)'
        BY <3>2, <3>4, <4>1
      <4>4. ASSUME NEW j \in Calls, Busy(j)'
            PROVE  CountsCall(call[j])'
        <5>1. CASE call'[j].kind = "counts" /\ call'[j].plan = page.plan
          BY <1>2, <4>3, <4>4, <5>1 DEF CountsCall, Committing
        <5>2. CASE call'[j].kind = "publish"
          <6>1. Busy(j) /\ call'[j] = call[j]
            BY <1>3, <1>8, <4>4, <5>2 DEF Moves, Busy
          <6> QED
            BY <1>2, <3>2, <5>2, <6>1 DEF CountsCall
        <5>3. CASE ~(call'[j].kind = "counts" /\ call'[j].plan = page.plan) /\ call'[j].kind # "publish"
          BY <1>2, <5>3 DEF CountsCall
        <5> QED
          BY <5>1, <5>2, <5>3
      <4> QED
        BY <4>2, <4>3, <4>4
    <3>6. CASE call[i].plan # page.plan
      <4>1. counts'[page.plan] = counts[page.plan]
        BY <1>4, <3>3, <3>6
      <4>2. ~Committing(i)
        BY <3>6 DEF Committing
      <4>3. ASSUME NEW j \in Calls, Busy(j)'
            PROVE  CountsCall(call[j])'
        <5>1. CASE j = i
          BY <1>2, <1>3, <1>8, <3>6, <5>1 DEF Moves, CountsCall
        <5>2. CASE j # i
          BY <1>2, <1>3, <3>2, <4>1, <4>3, <5>2 DEF Moves, CountsCall, Busy
        <5> QED
          BY <5>1, <5>2
      <4> QED
        BY <3>2, <3>4, <4>1, <4>2, <4>3
    <3> QED
      BY <3>5, <3>6
  <2> QED
    BY <1>6, <2>1, <2>2, ServerStepCalls DEF AllOK
<1> QED
  BY <1>1, <1>7, <1>8

LEMMA ServeGenerateInv ==
  ASSUME TypeOK, AllOK, NEW i \in Calls, ServeGenerate(i)
  PROVE  TypeOK' /\ AllOK'
<1>1. /\ Busy(i) /\ call[i].plan \in Meetings /\ call[i].plan \in Plans
      /\ call[i].kind = "generate" /\ call[i].phase = "read" /\ call[i].row \in Data
  BY PlanIsPlan, CallFacts DEF ServeGenerate, Reading, AllOK, CallsOK, Sound, TypeOK, Busy
<1>2. PICK c \in Copies :
        /\ parent[c] = NoPlan
        /\ parent' = [parent EXCEPT ![c] = call[i].plan]
        /\ counts' = [counts EXCEPT ![c] = call[i].row.counts]
        /\ solver' = [solver EXCEPT ![c] = [title |-> NoData, counts |-> call[i].row.counts]]
  BY DEF ServeGenerate
<1>3. c \in Plans /\ call[i].row.counts \in Counts
  BY <1>1, PlanIsPlan DEF Data
<1>4. /\ Served(i, TRUE, NoData)
      /\ title' = title /\ UNCHANGED <<cache, refused, page, form, doubt, sent>>
  BY DEF ServeGenerate, tab
<1>5. Moves(i, "served", NoData, NoData)
  BY <1>1, <1>4, ServedFacts
<1>6. /\ counts' \in [Plans -> Counts] /\ parent' \in [Copies -> Meetings \cup {NoPlan}]
      /\ \A d \in Copies : parent[d] # NoPlan => parent'[d] = parent[d]
      /\ \A p \in Plans : p # c => counts'[p] = counts[p]
  BY <1>1, <1>2, <1>3 DEF TypeOK
<1>7. solver' \in [Copies -> Task \cup {NoData}]
  <2> DEFINE t == [title |-> NoData, counts |-> call[i].row.counts]
  <2>1. t \in Task /\ solver' = [solver EXCEPT ![c] = t]
    BY <1>2, <1>3 DEF Task
  <2> HIDE DEF t
  <2> QED
    BY <2>1 DEF TypeOK
<1>8. Sound(call'[i])
  BY <1>1, <1>5 DEF Moves, Sound
<1>9. ServerStep /\ Rests("title") /\ Rests("counts")
  BY <1>1, <1>4, <1>5, <1>6, <1>7, <1>8, MovesStep DEF TypeOK
<1>10. CountsClear' => counts'[page.plan] = counts[page.plan]
  <2>1. Mounted => page.plan \in Plans /\ page.plan # c
    BY <1>2, Mounts, PageFacts, PlanIsPlan DEF Mounted, AllOK, PageOK
  <2> QED
    BY <1>4, <1>6, <2>1 DEF CountsClear, Mounted
<1> QED
  BY <1>4, <1>9, <1>10, ServerStepCalls, TitleStays, CountsStay DEF AllOK

LEMMA WritePublishInv ==
  ASSUME TypeOK, AllOK, NEW i \in Calls, WritePublish(i)
  PROVE  TypeOK' /\ AllOK'
<1> DEFINE c == call[i].plan
           m == parent[c]
           row == call[i].row
           above == call[i].above
<1>1. /\ Busy(i) /\ call[i].kind = "publish" /\ call[i].phase = "read"
      /\ c \in Copies /\ parent[c] # NoPlan
      /\ row \in Data /\ above \in Data
  BY CallFacts DEF WritePublish, Reading, AllOK, CallsOK, Sound, Placed, TypeOK, Busy
<1>2. c \in Plans /\ m \in Plans /\ c # m
  BY <1>1, PlanIsPlan DEF TypeOK
<1>3. /\ title' = [title EXCEPT ![c] = row.title, ![m] = above.title]
      /\ counts' = [counts EXCEPT ![c] = row.counts, ![m] = above.counts]
      /\ doubt' = doubt \cup TakenBack("publish", c, row) \cup TakenBack("counts", m, above)
      /\ Served(i, FALSE, NoData)
      /\ UNCHANGED <<parent, solver, cache, refused, page, form, sent>>
  BY DEF WritePublish, tab
<1> HIDE DEF c, m, row, above
<1>4. row.title \in Titles /\ row.counts \in Counts /\ above.title \in Titles /\ above.counts \in Counts
  BY <1>1 DEF Data
<1>5. /\ title' \in [Plans -> Titles] /\ counts' \in [Plans -> Counts]
      /\ \A p \in Plans : p \notin {c, m} => title'[p] = title[p] /\ counts'[p] = counts[p]
      /\ title'[c] = row.title /\ title'[m] = above.title
      /\ counts'[c] = row.counts
  BY <1>2, <1>3, <1>4 DEF TypeOK
<1>6. doubt \subseteq doubt' /\ doubt' \subseteq Doubts
  BY <1>3, TakenBackDoubts DEF TypeOK
<1>7. Moves(i, "served", NoData, NoData)
  BY <1>1, <1>3, ServedFacts
<1>8. Sound(call'[i])
  BY <1>1, <1>7 DEF Moves, Sound, c
<1>9. ServerStep /\ Rests("title") /\ Rests("counts")
  BY <1>1, <1>3, <1>5, <1>6, <1>7, <1>8, MovesStep DEF TypeOK
<1>10. TitleClear' => title'[page.plan] = title[page.plan]
  <2> SUFFICES ASSUME TitleClear' PROVE title'[page.plan] = title[page.plan]
    OBVIOUS
  <2>1. Mounted /\ "titleBack" \notin doubt' /\ page.plan \in Plans
    BY <1>3, Mounts DEF TitleClear, Mounted
  <2>2. CASE page.plan = c
    BY <1>1, <1>2, <1>3, <1>5, <2>1, <2>2, TakenBackFacts
  <2>3. CASE page.plan = m
    BY <1>1, <1>2, <1>3, <1>5, <2>1, <2>3, TakenBackFacts
  <2> QED
    BY <1>5, <2>1, <2>2, <2>3
<1>11. CountsClear' => counts'[page.plan] = counts[page.plan]
  <2> SUFFICES ASSUME CountsClear' PROVE counts'[page.plan] = counts[page.plan]
    OBVIOUS
  <2>1. Mounted /\ "countsBack" \notin doubt' /\ page.plan \in Plans /\ CountsClear
    BY <1>3, <1>6, Mounts DEF CountsClear, Mounted
  <2>2. page.plan # m
    BY <1>1, <2>1 DEF AllOK, CountsOK, CountsCall, m, c
  <2>3. CASE page.plan = c
    BY <1>1, <1>2, <1>3, <1>5, <2>1, <2>3, TakenBackFacts
  <2> QED
    BY <1>5, <2>1, <2>2, <2>3
<1> QED
  BY <1>9, <1>10, <1>11, ServerStepCalls, TitleStays, CountsStay DEF AllOK

LEMMA SolveInv ==
  ASSUME TypeOK, AllOK, NEW c \in Copies, Solve(c)
  PROVE  TypeOK' /\ AllOK'
<1>1. /\ solver[c] \in Task /\ c \in Plans
      /\ UNCHANGED <<parent, cache, refused, page, form, call, sent>>
  BY PlanIsPlan DEF Solve, SolverReads, SolverWrites, SolverFails, TypeOK, tab
<1>2. solver[c].title \in Titles \cup {NoData} /\ solver[c].counts \in Counts
  BY <1>1 DEF Task
<1>3. solver' \in [Copies -> Task \cup {NoData}]
  <2>1. CASE SolverReads(c)
    <3> DEFINE t == [solver[c] EXCEPT !.title = title[c]]
    <3>1. t \in Task /\ solver' = [solver EXCEPT ![c] = t]
      BY <1>1, <2>1, RowsAreData DEF SolverReads, Task
    <3> HIDE DEF t
    <3> QED
      BY <3>1 DEF TypeOK
  <2>2. CASE SolverWrites(c) \/ SolverFails(c)
    BY <2>2 DEF SolverWrites, SolverFails, TypeOK
  <2> QED
    BY <2>1, <2>2 DEF Solve
<1>4. /\ title' \in [Plans -> Titles] /\ counts' \in [Plans -> Counts]
      /\ doubt \subseteq doubt' /\ doubt' \subseteq Doubts
      /\ Mounted /\ "titleBack" \notin doubt' => title'[page.plan] = title[page.plan]
      /\ Mounted /\ "countsBack" \notin doubt' => counts'[page.plan] = counts[page.plan]
  <2>1. CASE SolverWrites(c)
    <3>1. PICK kind : kind = "solver"
      OBVIOUS
    <3>2. solver[c] \in Data
      BY <1>1, <1>2, <2>1 DEF SolverWrites, Task, Data
    <3>3. /\ title' \in [Plans -> Titles] /\ counts' \in [Plans -> Counts]
          /\ doubt \subseteq doubt' /\ doubt' \subseteq Doubts
          /\ Mounted /\ "titleBack" \notin doubt' => title'[page.plan] = title[page.plan]
          /\ Mounted /\ "countsBack" \notin doubt' => counts'[page.plan] = counts[page.plan]
      <4>1. Write(kind, c, solver[c])
        BY <2>1, <3>1 DEF SolverWrites
      <4>2. kind # "title" /\ kind # "counts"
        BY <3>1
      <4> QED
        BY <1>1, <3>2, <4>1, <4>2, WriteFacts
    <3> QED
      BY <3>3
  <2>2. CASE SolverReads(c) \/ SolverFails(c)
    <3>1. title' = title /\ counts' = counts /\ doubt' = doubt
      BY <2>2 DEF SolverReads, SolverFails
    <3> QED
      BY <3>1 DEF TypeOK
  <2> QED
    BY <2>1, <2>2 DEF Solve
<1>5. ServerStep
  <2>1. \A j \in Calls : (Busy(j)' <=> Busy(j)) /\ (Busy(j) => Sound(call'[j]))
    BY <1>1 DEF Busy, AllOK, CallsOK
  <2> QED
    BY <1>1, <1>3, <1>4, <2>1 DEF ServerStep, TypeOK
<1>6. Rests("title") /\ Rests("counts")
  BY <1>1 DEF Rests
<1> QED
  BY <1>1, <1>4, <1>5, <1>6, ServerStepCalls, TitleStays, CountsStay
     DEF AllOK, TitleClear, CountsClear, Mounted

(***************************************************************************)
(* The replies.                                                            *)
(***************************************************************************)

\* A request is over; the others stay, though without the form nobody waits for them.
Drops(i) ==
  /\ ~Busy(i)'
  /\ call' \in [Calls -> Call \cup {NoCall}]
  /\ \A j \in Calls : j # i => (Busy(j)' <=> Busy(j))
  /\ \A j \in Calls : j # i /\ Busy(j) =>
       /\ Like(call[j], call'[j])
       /\ Mounted' => call'[j] = call[j]
       /\ ~Mounted' => ~call'[j].alive
  /\ UNCHANGED <<server, page, sent>>

LEMMA ContinueDrops ==
  ASSUME TypeOK, NEW i \in Calls, Busy(i), NEW ok \in BOOLEAN, Continue(i, ok, NoCall)
  PROVE  Drops(i)
<1>1. /\ call' = [j \in Calls |-> IF j = i THEN NoCall
                                  ELSE IF form' = NoForm THEN Orphaned(j) ELSE call[j]]
      /\ UNCHANGED <<server, page, sent>>
  BY DEF Continue
<1>2. ASSUME NEW j \in Calls, j # i
      PROVE  /\ call'[j] \in Call \cup {NoCall}
             /\ Busy(j)' <=> Busy(j)
             /\ Busy(j) => /\ Like(call[j], call'[j])
                           /\ Mounted' => call'[j] = call[j]
                           /\ ~Mounted' => ~call'[j].alive
  <2>1. call'[j] = IF form' = NoForm THEN Orphaned(j) ELSE call[j]
    BY <1>1, <1>2
  <2>2. CASE form' = NoForm
    BY <2>1, <2>2, OrphanedFacts, CallFacts DEF Busy, Mounted
  <2>3. CASE form' # NoForm
    BY <2>1, <2>3 DEF Busy, Mounted, TypeOK, Like
  <2> QED
    BY <2>2, <2>3
<1>3. call'[i] = NoCall
  BY <1>1
<1>4. call' = [j \in Calls |-> call'[j]]
  BY <1>1
<1>5. call' \in [Calls -> Call \cup {NoCall}]
  BY <1>2, <1>3, <1>4
<1> QED
  BY <1>1, <1>2, <1>3, <1>5 DEF Drops, Busy

LEMMA DropsCalls ==
  ASSUME TypeOK, AllOK, NEW i \in Calls, Busy(i), Drops(i),
         refused' = refused \/ (call[i].kind = "load" /\ refused' = refused \cup {call[i].plan}),
         Mounted /\ Mounted' => doubt \subseteq doubt'
  PROVE  CallsOK' /\ Once'
<1>1. /\ ~Busy(i)'
      /\ \A j \in Calls : j # i => (Busy(j)' <=> Busy(j))
      /\ \A j \in Calls : j # i /\ Busy(j) =>
           /\ Like(call[j], call'[j]) /\ (call'[j].alive => Mounted')
      /\ parent' = parent /\ page' = page
  BY DEF Drops, server
<1>2. CallsOK'
  <2> SUFFICES ASSUME NEW j \in Calls, Busy(j)'
               PROVE  Sound(call'[j]) /\ Placed(call[j])'
    BY DEF CallsOK, Sound
  <2>1. /\ j # i /\ Busy(j) /\ Sound(call[j]) /\ Placed(call[j])
        /\ Like(call[j], call'[j]) /\ (call'[j].alive => Mounted')
    BY <1>1 DEF AllOK, CallsOK
  <2>2. call[j].kind = "load" => call[j].plan \notin refused'
    BY <2>1 DEF Placed, AllOK, Once
  <2>3. Sound(call'[j])
    BY <2>1 DEF Sound, Like
  <2>4. Placed(call[j])'
    BY <1>1, <2>1, <2>2 DEF Placed, Like
  <2> QED
    BY <2>3, <2>4
<1>3. Once'
  BY <1>1 DEF AllOK, Once, Like
<1> QED
  BY <1>2, <1>3

\* A reply that leaves the forms as they are: they keep showing what they showed.
LEMMA DropsForm ==
  ASSUME TypeOK, AllOK, NEW i \in Calls, Busy(i), Drops(i),
         form' = form, doubt \subseteq doubt', Committing(i) => "failed" \in doubt'
  PROVE  PageOK' /\ TitleOK' /\ CountsOK'
<1>1. /\ title' = title /\ counts' = counts /\ parent' = parent /\ page' = page
      /\ (Mounted' <=> Mounted)
      /\ \A j \in Calls : Busy(j)' => j # i /\ Busy(j)
      /\ \A j \in Calls : j # i => (Busy(j)' <=> Busy(j))
      /\ \A j \in Calls : Mounted /\ j # i /\ Busy(j) => call'[j] = call[j]
  BY DEF Drops, server, Mounted
<1>2. PageOK'
  BY <1>1 DEF AllOK, PageOK
<1>3. TitleOK'
  BY <1>1 DEF AllOK, TitleOK, TitleClear, TitleCall
<1>4. CountsOK'
  <2> SUFFICES ASSUME CountsClear'
               PROVE  /\ \A j, k \in Calls : Committing(j)' /\ Committing(k)' => j = k
                      /\ \/ form.held \/ form.counts = counts[page.plan]
                         \/ \E j \in Calls : Committing(j)'
                      /\ \A j \in Calls : Busy(j)' => CountsCall(call[j])'
    BY <1>1 DEF CountsOK
  <2>1. CountsClear /\ Mounted /\ ~Committing(i)
    BY <1>1 DEF CountsClear
  <2>5. /\ \A j, k \in Calls : Committing(j) /\ Committing(k) => j = k
        /\ \A j \in Calls : Committing(j)' => Committing(j)
    BY <1>1, <2>1 DEF AllOK, CountsOK, Committing
  <2>2. /\ \/ form.held \/ form.counts = counts[page.plan]
           \/ \E j \in Calls : Committing(j)
        /\ \A j \in Calls : Busy(j) => CountsCall(call[j])
    BY <2>1 DEF AllOK, CountsOK
  <2>3. ASSUME NEW j \in Calls, Committing(j)
        PROVE  Committing(j)'
    <3>1. j # i /\ Busy(j)
      BY <2>1, <2>3 DEF Committing
    <3> QED
      BY <1>1, <2>1, <2>3, <3>1 DEF Committing
  <2>4. ASSUME NEW j \in Calls, Busy(j)'
        PROVE  CountsCall(call[j])'
    BY <1>1, <2>1, <2>2, <2>4 DEF CountsCall
  <2> QED
    BY <2>2, <2>3, <2>4, <2>5
<1> QED
  BY <1>2, <1>3, <1>4

\* A spinner that does not wait for the load that is over.
LEMMA DropsSpinner ==
  ASSUME TypeOK, AllOK, NEW i \in Calls, Busy(i), Drops(i),
         Loading' => Loading /\ ~(call[i].kind = "load" /\ call[i].plan = page.plan)
  PROVE  SpinnerOK'
<1> SUFFICES ASSUME Loading'
             PROVE  \E j \in Calls : Busy(j)' /\ call'[j].kind = "load" /\ call'[j].plan = page'.plan
  BY DEF SpinnerOK
<1>1. PICK j \in Calls : Busy(j) /\ call[j].kind = "load" /\ call[j].plan = page.plan
  BY DEF AllOK, SpinnerOK
<1>2. j # i /\ page' = page
  BY <1>1 DEF Drops
<1>3. Busy(j)' /\ Like(call[j], call'[j])
  BY <1>1, <1>2 DEF Drops
<1> QED
  BY <1>1, <1>2, <1>3 DEF Like

LEMMA FailInv ==
  ASSUME TypeOK, AllOK, NEW i \in Calls, Busy(i), NEW ok \in BOOLEAN, Fail(i, ok), Drops(i)
  PROVE  TypeOK' /\ AllOK'
<1>1. /\ call[i].kind = "load" /\ call[i].plan \in Plans
      /\ refused' = refused \cup {call[i].plan} /\ cache' = cache
      /\ page' = page /\ title' = title /\ counts' = counts /\ parent' = parent
      /\ solver' = solver /\ sent' = sent
      /\ call' \in [Calls -> Call \cup {NoCall}]
  BY CallFacts DEF Fail, Drops, server, TypeOK, Busy
<1>2. CASE page.plan = call[i].plan
  <2>1. form' = NoForm /\ doubt' = {}
    BY <1>2 DEF Fail
  <2>2. ~HasForm(page)' /\ ~Loading'
    BY <1>1, <1>2 DEF HasForm, Loading, Failed
  <2>3. TypeOK'
    BY <1>1, <2>1, <2>2 DEF TypeOK
  <2>4. CallsOK' /\ Once'
    BY <1>1, <2>1, DropsCalls DEF Mounted
  <2>5. SpinnerOK' /\ TitleOK' /\ CountsOK'
    BY <2>1, <2>2 DEF SpinnerOK, TitleOK, TitleClear, CountsOK, CountsClear, Mounted
  <2>6. PageOK'
    BY <1>1, <2>1 DEF AllOK, PageOK, Mounted
  <2> QED
    BY <2>3, <2>4, <2>5, <2>6 DEF AllOK
<1>3. CASE page.plan # call[i].plan
  <2>1. form' = form /\ doubt' = doubt
    BY <1>3 DEF Fail
  <2>2. (HasForm(page)' <=> HasForm(page)) /\ (Loading' <=> Loading)
    BY <1>1, <1>3 DEF HasForm, Loading, Failed
  <2>3. TypeOK'
    BY <1>1, <2>1, <2>2 DEF TypeOK
  <2>4. CallsOK' /\ Once'
    BY <1>1, <2>1, DropsCalls
  <2>5. SpinnerOK'
    BY <1>3, <2>2, DropsSpinner
  <2>6. PageOK' /\ TitleOK' /\ CountsOK'
    BY <1>1, <2>1, DropsForm DEF Committing
  <2> QED
    BY <2>3, <2>4, <2>5, <2>6 DEF AllOK
<1> QED
  BY <1>2, <1>3

LEMMA LoadInv ==
  ASSUME TypeOK, AllOK, NEW i \in Calls, Busy(i), NEW ok \in BOOLEAN, ok => call[i].ok,
         Load(i, ok), Drops(i)
  PROVE  TypeOK' /\ AllOK'
<1>1. /\ call[i].kind = "load" /\ call[i].plan \in Plans
      /\ call[i].plan \notin refused
      /\ refused' = refused
      /\ page' = page /\ title' = title /\ counts' = counts /\ parent' = parent
      /\ solver' = solver /\ sent' = sent
      /\ call' \in [Calls -> Call \cup {NoCall}]
  BY CallFacts DEF Load, Drops, server, TypeOK, Busy, AllOK, CallsOK, Placed
<1>2. call[i].row \in Data
  BY CallFacts DEF Load, TypeOK, Busy, AllOK, CallsOK, Sound
<1>3. /\ cache' \in [Plans -> Data \cup {NoData}] /\ cache'[call[i].plan] # NoData
      /\ \A p \in Plans : p # call[i].plan => cache'[p] = cache[p]
  BY <1>1, <1>2, NoneIsNone DEF Load, TypeOK
<1>4. page \in Page /\ (page.plan # NoPlan => page.plan \in Plans)
  BY PageFacts, PlanIsPlan DEF TypeOK
<1>5. SpinnerOK'
  <2>1. Loading' => Loading /\ page.plan # call[i].plan
    BY <1>1, <1>3, <1>4 DEF Loading, Failed
  <2> QED
    BY <2>1, DropsSpinner
<1>6. CASE page.plan = call[i].plan /\ page.kind # "rank" /\ form = NoForm
  <2>1. form' = Fresh(call[i].row, page.plan) /\ doubt' = Stale(call[i].row, page.plan)
    BY <1>6 DEF Load
  <2>2. /\ form' \in Form /\ Mounted' /\ ~Mounted
        /\ form'.title = call[i].row.title /\ form'.counts = call[i].row.counts
        /\ form'.typedOn = page.plan
    BY <1>1, <1>2, <1>6, <2>1, FreshFacts, FormFacts DEF Mounted
  <2>3. HasForm(page)'
    BY <1>1, <1>3, <1>4, <1>6, PageFacts, PlanIsPlan DEF HasForm
  <2>4. doubt' \subseteq Doubts
    BY <2>1 DEF Stale, Doubts
  <2>5. TypeOK'
    BY <1>1, <1>3, <2>2, <2>3, <2>4, FormFacts DEF TypeOK
  <2>6. CallsOK' /\ Once'
    BY <1>1, <2>2, DropsCalls
  <2>7. PageOK'
    BY <1>1, <2>2 DEF AllOK, PageOK
  <2>8. ASSUME "stale" \notin doubt'
        PROVE  /\ form'.title = title[page.plan] /\ form'.counts = counts[page.plan]
               /\ \A j \in Calls : Busy(j)' => TitleCall(call[j])' /\ CountsCall(call[j])'
               /\ \A j \in Calls : ~Committing(j)'
    <3>1. /\ form'.title = title[page.plan] /\ form'.counts = counts[page.plan]
          /\ \A j \in Calls : Busy(j) /\ call[j].kind \in {"title", "counts"}
                                      /\ call[j].plan = page.plan => call[j].phase = "served"
          /\ \A j \in Calls : Busy(j) /\ call[j].kind = "publish"
                                      /\ parent[call[j].plan] = page.plan => call[j].phase = "served"
      BY <1>1, <1>2, <1>6, <2>1, <2>2, <2>8, StaleFacts DEF AllOK
    <3>2. ASSUME NEW j \in Calls, Busy(j)'
          PROVE  Busy(j) /\ call'[j] = call[j]
      BY <2>2, <3>2 DEF Drops
    <3>3. ASSUME NEW j \in Calls, Busy(j)'
          PROVE  TitleCall(call[j])' /\ CountsCall(call[j])'
      <4>1. TitleCall(call[j])'
        BY <1>1, <3>1, <3>2, <3>3 DEF TitleCall
      <4>2. CountsCall(call[j])'
        BY <1>1, <3>1, <3>2, <3>3 DEF CountsCall
      <4> QED
        BY <4>1, <4>2
    <3>4. \A j \in Calls : ~Committing(j)'
      BY <1>1, <3>1, <3>2 DEF Committing
    <3> QED
      BY <3>1, <3>3, <3>4
  <2>9. TitleOK' /\ CountsOK'
    BY <1>1, <2>8 DEF TitleOK, TitleClear, CountsOK, CountsClear
  <2> QED
    BY <1>5, <2>5, <2>6, <2>7, <2>9 DEF AllOK
<1>7. CASE ~(page.plan = call[i].plan /\ page.kind # "rank" /\ form = NoForm)
  <2>1. form' = form /\ doubt' = doubt
    BY <1>7 DEF Load
  <2>2. HasForm(page)' <=> HasForm(page)
    <3>1. CASE page.plan = call[i].plan /\ form # NoForm
      BY <1>1, <1>3, <3>1 DEF HasForm, TypeOK
    <3>2. CASE page.kind = "rank" \/ page.plan = NoPlan
      BY <1>1, <1>4, <3>2, PageFacts DEF HasForm
    <3>3. CASE page.plan # call[i].plan /\ page.plan # NoPlan
      BY <1>1, <1>3, <1>4, <3>3 DEF HasForm
    <3> QED
      BY <1>7, <3>1, <3>2, <3>3
  <2>3. TypeOK'
    BY <1>1, <1>3, <2>1, <2>2 DEF TypeOK
  <2>4. CallsOK' /\ Once'
    BY <1>1, <2>1, DropsCalls
  <2>5. PageOK' /\ TitleOK' /\ CountsOK'
    BY <1>1, <2>1, DropsForm DEF Committing
  <2> QED
    BY <1>5, <2>3, <2>4, <2>5 DEF AllOK
<1> QED
  BY <1>6, <1>7

\* A reply that is not of a load changes nothing of the data and the page.
LEMMA DropsOther ==
  ASSUME TypeOK, AllOK, NEW i \in Calls, Busy(i), Drops(i), call[i].kind # "load",
         cache' = cache, refused' = refused, doubt \subseteq doubt', doubt' \subseteq Doubts,
         form' \in Form \cup {NoForm}, Mounted' <=> Mounted
  PROVE  TypeOK' /\ SpinnerOK' /\ CallsOK' /\ Once'
<1>1. /\ page' = page /\ title' = title /\ counts' = counts /\ parent' = parent
      /\ solver' = solver /\ sent' = sent
      /\ call' \in [Calls -> Call \cup {NoCall}]
  BY DEF Drops, server
<1>2. (HasForm(page)' <=> HasForm(page)) /\ (Loading' <=> Loading)
  BY <1>1 DEF HasForm, Loading, Failed
<1>3. TypeOK'
  BY <1>1, <1>2 DEF TypeOK, Mounted
<1>4. CallsOK' /\ Once'
  BY DropsCalls
<1>5. SpinnerOK'
  BY <1>2, DropsSpinner
<1> QED
  BY <1>3, <1>4, <1>5

LEMMA TitleSavedInv ==
  ASSUME TypeOK, AllOK, NEW i \in Calls, Busy(i), NEW ok \in BOOLEAN,
         ok => call[i].phase = "served", TitleSaved(i, ok), Drops(i)
  PROVE  TypeOK' /\ AllOK'
<1>1. /\ call[i].kind = "title" /\ cache' = cache /\ refused' = refused /\ doubt' = doubt
      /\ page' = page /\ title' = title /\ counts' = counts /\ parent' = parent
  BY DEF TitleSaved, Drops, server
<1>2. CASE ok /\ call[i].alive
  <2>1. Mounted /\ form \in Form /\ form' = [form EXCEPT !.dirty = FALSE]
    <3>1. form # NoForm
      BY <1>1, <1>2 DEF AllOK, CallsOK, Placed, Mounted
    <3>2. form \in Form
      BY <3>1, Mounts
    <3>3. form' = [form EXCEPT !.dirty = FALSE]
      BY <1>2 DEF TitleSaved
    <3> QED
      BY <3>1, <3>2, <3>3 DEF Mounted
  <2>2. /\ form' \in Form /\ Mounted' /\ ~form'.dirty
        /\ form'.title = form.title /\ form'.counts = form.counts /\ form'.held = form.held
        /\ form'.typedOn = form.typedOn
    <3>1. /\ form' \in Form /\ ~form'.dirty
          /\ form'.title = form.title /\ form'.counts = form.counts /\ form'.held = form.held
          /\ form'.typedOn = form.typedOn
      BY <2>1 DEF Form
    <3> QED
      BY <3>1, FormFacts DEF Mounted
  <2>3. TypeOK' /\ SpinnerOK' /\ CallsOK' /\ Once'
    BY <1>1, <2>1, <2>2, DropsOther DEF TypeOK
  <2>4. \A j \in Calls : Busy(j)' => j # i /\ Busy(j) /\ call'[j] = call[j]
    BY <2>2 DEF Drops
  <2>5. \A j \in Calls : j # i /\ Busy(j) => Busy(j)' /\ call'[j] = call[j]
    BY <2>2 DEF Drops
  <2>6. PageOK'
    BY <1>1, <2>1, <2>2 DEF AllOK, PageOK
  <2>7. TitleOK'
    <3> SUFFICES ASSUME TitleClear'
                 PROVE  /\ form'.title = title[page.plan]
                        /\ \A j \in Calls : Busy(j)' => TitleCall(call[j])'
      BY <1>1 DEF TitleOK
    <3>1. TitleClear
      BY <1>1, <2>1 DEF TitleClear
    <3>2. call[i].plan = page.plan
      BY <1>1, <1>2, <3>1 DEF AllOK, CallsOK, Placed, TitleClear
    <3>3. form.title = title[page.plan]
      BY <1>1, <1>2, <3>1, <3>2 DEF AllOK, TitleOK, TitleCall
    <3>4. ASSUME NEW j \in Calls, Busy(j)'
          PROVE  TitleCall(call[j])'
      BY <1>1, <2>2, <2>4, <3>1, <3>4 DEF AllOK, TitleOK, TitleCall
    <3> QED
      BY <2>2, <3>3, <3>4
  <2>8. CountsOK'
    <3> SUFFICES ASSUME CountsClear'
                 PROVE  /\ \A j, k \in Calls : Committing(j)' /\ Committing(k)' => j = k
                        /\ \/ form.held \/ form.counts = counts[page.plan]
                           \/ \E j \in Calls : Committing(j)'
                        /\ \A j \in Calls : Busy(j)' => CountsCall(call[j])'
      BY <1>1, <2>2 DEF CountsOK
    <3>1. CountsClear
      BY <1>1, <2>1 DEF CountsClear
    <3>4. \A j \in Calls : Committing(j)' => Committing(j)
      BY <1>1, <2>4 DEF Committing
    <3>2. ASSUME NEW j \in Calls, Committing(j)
          PROVE  Committing(j)'
      BY <1>1, <2>5, <3>2 DEF Committing
    <3>3. ASSUME NEW j \in Calls, Busy(j)'
          PROVE  CountsCall(call[j])'
      BY <1>1, <2>2, <2>4, <3>1, <3>3 DEF AllOK, CountsOK, CountsCall
    <3> QED
      BY <3>1, <3>2, <3>3, <3>4 DEF AllOK, CountsOK
  <2> QED
    BY <2>3, <2>6, <2>7, <2>8 DEF AllOK
<1>3. CASE ~(ok /\ call[i].alive)
  <2>1. form' = form
    BY <1>3 DEF TitleSaved
  <2>2. TypeOK' /\ SpinnerOK' /\ CallsOK' /\ Once'
    BY <1>1, <2>1, DropsOther DEF TypeOK, Mounted
  <2>3. PageOK' /\ TitleOK' /\ CountsOK'
    BY <1>1, <2>1, DropsForm DEF Committing
  <2> QED
    BY <2>2, <2>3 DEF AllOK
<1> QED
  BY <1>2, <1>3

LEMMA CountsSavedInv ==
  ASSUME TypeOK, AllOK, NEW i \in Calls, Busy(i), NEW ok \in BOOLEAN,
         ok => call[i].phase = "served", CountsSaved(i, ok), Drops(i)
  PROVE  TypeOK' /\ AllOK'
<1>1. /\ call[i].kind = "counts" /\ cache' = cache /\ refused' = refused /\ form' = form
      /\ doubt \subseteq doubt' /\ doubt' \subseteq Doubts
  BY DEF CountsSaved, TypeOK, Doubts
<1>2. TypeOK' /\ SpinnerOK' /\ CallsOK' /\ Once'
  BY <1>1, DropsOther DEF TypeOK, Mounted
<1>3. CASE Committing(i) => "failed" \in doubt'
  <2>1. PageOK' /\ TitleOK' /\ CountsOK'
    BY <1>1, <1>3, DropsForm
  <2> QED
    BY <1>2, <2>1 DEF AllOK
<1>4. CASE Committing(i) /\ "failed" \notin doubt'
  <2>1. call[i].phase # "served" /\ ~ok /\ ~call[i].alive
    BY <1>4 DEF Committing, CountsSaved
  <2>2. CountsClear => FALSE
    BY <1>4, <2>1 DEF AllOK, CountsOK, CountsCall, Committing
  <2>3. /\ title' = title /\ counts' = counts /\ parent' = parent /\ page' = page
        /\ (Mounted' <=> Mounted)
        /\ \A j \in Calls : Busy(j)' => j # i /\ Busy(j)
        /\ \A j \in Calls : Mounted /\ j # i /\ Busy(j) => call'[j] = call[j]
    BY <1>1 DEF Drops, server, Mounted
  <2>4. ~CountsClear'
    BY <1>1, <2>2, <2>3 DEF CountsClear
  <2>5. PageOK' /\ CountsOK'
    BY <1>1, <2>3, <2>4 DEF AllOK, PageOK, CountsOK
  <2>6. TitleOK'
    BY <1>1, <2>3 DEF AllOK, TitleOK, TitleClear, TitleCall
  <2> QED
    BY <1>2, <2>5, <2>6 DEF AllOK
<1> QED
  BY <1>3, <1>4

LEMMA ActedInv ==
  ASSUME TypeOK, AllOK, NEW i \in Calls, Busy(i), NEW ok \in BOOLEAN, Acted(i, ok), Drops(i)
  PROVE  TypeOK' /\ AllOK'
<1>1. /\ call[i].kind \in {"generate", "publish"}
      /\ cache' = cache /\ refused' = refused /\ form' = form /\ doubt' = doubt
  BY DEF Acted
<1>2. TypeOK' /\ SpinnerOK' /\ CallsOK' /\ Once'
  BY <1>1, DropsOther DEF TypeOK, Mounted
<1>3. PageOK' /\ TitleOK' /\ CountsOK'
  BY <1>1, DropsForm DEF Committing
<1> QED
  BY <1>2, <1>3 DEF AllOK

LEMMA ContinueInv ==
  ASSUME TypeOK, AllOK, NEW i \in Calls, Busy(i), NEW ok \in BOOLEAN,
         ok => call[i].phase = "served" /\ call[i].ok, Continue(i, ok, NoCall)
  PROVE  TypeOK' /\ AllOK'
<1>1. Drops(i)
  BY ContinueDrops
<1> QED
  BY <1>1, FailInv, LoadInv, TitleSavedInv, CountsSavedInv, ActedInv DEF Continue

\* A request of which the page has given up stays on its way.
LEMMA DetachInv ==
  ASSUME TypeOK, AllOK, NEW i \in Calls, Detach(i)
  PROVE  TypeOK' /\ AllOK'
<1>1. /\ Busy(i) /\ call[i].kind # "load" /\ call[i].phase # "served" /\ call[i].alive
      /\ Mounted
  BY DEF Detach, AllOK, CallsOK, Placed
<1>2. /\ UNCHANGED <<title, counts, parent, solver, cache, refused, page, form, sent>>
      /\ doubt \subseteq doubt' /\ doubt' \subseteq Doubts
      /\ call[i].kind = "counts" => "failed" \in doubt'
      /\ call' = [j \in Calls |-> IF j = i THEN Orphaned(i)
                                  ELSE IF form' = NoForm THEN Orphaned(j) ELSE call[j]]
  <2>1. Fail(i, FALSE) \/ TitleSaved(i, FALSE) \/ CountsSaved(i, FALSE) \/ Acted(i, FALSE)
    BY DEF Detach, Continue, Load
  <2>2. UNCHANGED <<cache, refused, form>> /\ doubt' \in {doubt, doubt \cup {"failed"}}
        /\ (call[i].kind = "counts" => "failed" \in doubt')
    BY <1>1, <2>1 DEF Fail, TitleSaved, CountsSaved, Acted
  <2> QED
    BY <2>2 DEF Detach, Continue, server, TypeOK, Doubts
<1>3. /\ Orphaned(i) \in Call /\ Like(call[i], Orphaned(i)) /\ ~Orphaned(i).alive
  BY <1>1, OrphanedFacts
<1>4. /\ call' \in [Calls -> Call \cup {NoCall}] /\ call'[i] = Orphaned(i)
      /\ \A j \in Calls : j # i => call'[j] = call[j]
  <2>1. form' # NoForm
    BY <1>1, <1>2 DEF Mounted
  <2>2. \A j \in Calls : call'[j] = IF j = i THEN Orphaned(i) ELSE call[j]
    BY <1>2, <2>1
  <2> QED
    BY <1>2, <1>3, <2>1, <2>2 DEF TypeOK
<1>5. /\ \A j \in Calls : Busy(j)' <=> Busy(j)
      /\ \A j \in Calls : Busy(j) => Like(call[j], call'[j])
      /\ (Mounted' <=> Mounted)
  BY <1>1, <1>2, <1>3, <1>4, CallFacts DEF Busy, Like, Mounted
<1>6. TypeOK' /\ SpinnerOK'
  <2>1. (HasForm(page)' <=> HasForm(page)) /\ (Loading' <=> Loading)
    BY <1>2 DEF HasForm, Loading, Failed
  <2>2. TypeOK'
    BY <1>2, <1>4, <2>1 DEF TypeOK
  <2> QED
    BY <1>2, <1>5, <2>1, <2>2 DEF AllOK, SpinnerOK, Like
<1>7. CallsOK'
  <2> SUFFICES ASSUME NEW j \in Calls, Busy(j)'
               PROVE  Sound(call'[j]) /\ Placed(call[j])'
    BY DEF CallsOK, Sound
  <2>1. Busy(j) /\ Like(call[j], call'[j]) /\ Sound(call[j]) /\ Placed(call[j])
    BY <1>5 DEF AllOK, CallsOK
  <2> QED
    BY <1>2, <1>5, <2>1 DEF Like, Sound, Placed
<1>8. Once' /\ PageOK'
  BY <1>2, <1>5 DEF AllOK, Once, PageOK, Like
<1>9. TitleOK'
  <2> SUFFICES ASSUME TitleClear'
               PROVE  /\ form.dirty \/ form.title = title[page.plan]
                      /\ \A j \in Calls : Busy(j)' => TitleCall(call[j])'
    BY <1>2 DEF TitleOK
  <2>1. TitleClear
    BY <1>2, <1>5 DEF TitleClear
  <2>2. ASSUME NEW j \in Calls, Busy(j)'
        PROVE  TitleCall(call[j])'
    <3>1. Busy(j) /\ Like(call[j], call'[j]) /\ TitleCall(call[j])
      BY <1>5, <2>1, <2>2 DEF AllOK, TitleOK
    <3> QED
      BY <1>2, <3>1 DEF Like, TitleCall
  <2> QED
    BY <2>1, <2>2 DEF AllOK, TitleOK
<1>10. CountsOK'
  <2> SUFFICES ASSUME CountsClear'
               PROVE  /\ \A j, k \in Calls : Committing(j)' /\ Committing(k)' => j = k
                      /\ \/ form.held \/ form.counts = counts[page.plan]
                         \/ \E j \in Calls : Committing(j)'
                      /\ \A j \in Calls : Busy(j)' => CountsCall(call[j])'
    BY <1>2 DEF CountsOK
  <2>1. CountsClear /\ call[i].kind # "counts"
    BY <1>2, <1>5 DEF CountsClear
  <2>2. \A j \in Calls : Committing(j)' <=> Committing(j)
    BY <1>2, <1>5 DEF Committing, Like
  <2>3. ASSUME NEW j \in Calls, Busy(j)'
        PROVE  CountsCall(call[j])'
    <3>1. Busy(j) /\ Like(call[j], call'[j]) /\ CountsCall(call[j])
      BY <1>5, <2>1, <2>3 DEF AllOK, CountsOK
    <3>2. call[j].kind = "counts" => call'[j] = call[j]
      BY <1>4, <2>1
    <3> QED
      BY <1>2, <3>1, <3>2 DEF Like, CountsCall
  <2> QED
    BY <2>1, <2>2, <2>3 DEF AllOK, CountsOK
<1> QED
  BY <1>6, <1>7, <1>8, <1>9, <1>10 DEF AllOK

LEMMA StepInv == IInv /\ [Next]_vars => IInv'
<1> SUFFICES ASSUME TypeOK, AllOK, [Next]_vars PROVE TypeOK' /\ AllOK'
  BY Parts, PTL
<1>1. CASE Click
  BY <1>1, OpenInv, TypeInv, SlideInv, FocusInv, SaveTitleInv, CommitInv, GenerateInv, PublishInv
     DEF Click
<1>2. ASSUME NEW i \in Calls, Serve(i) PROVE TypeOK' /\ AllOK'
  BY <1>2, ServeLoadInv, ReadTitleInv, ReadCountsInv, ReadRestInv, WritePatchInv, WritePublishInv,
     ServeGenerateInv DEF Serve
<1>3. ASSUME NEW i \in Calls, Receive(i) PROVE TypeOK' /\ AllOK'
  <2>1. Busy(i) /\ call[i].ok \in BOOLEAN /\ call[i].phase = "served" /\ Continue(i, call[i].ok, NoCall)
    BY <1>3, CallFacts DEF Receive, TypeOK, Busy
  <2> QED
    BY <2>1, ContinueInv
<1>4. ASSUME NEW i \in Calls, Lose(i) \/ Detach(i) PROVE TypeOK' /\ AllOK'
  BY <1>4, ContinueInv, DetachInv DEF Lose
<1>6. ASSUME NEW c \in Copies, Solve(c) PROVE TypeOK' /\ AllOK'
  BY <1>6, SolveInv
<1>5. CASE UNCHANGED vars
  BY <1>5 DEF vars, server, tab, TypeOK, HasForm, AllOK, SpinnerOK, Loading, Failed, CallsOK, Once,
              PageOK, TitleOK, TitleClear, TitleCall, CountsOK, CountsClear, CountsCall, Committing,
              Busy, Placed, Mounted
<1> QED
  BY <1>1, <1>2, <1>3, <1>4, <1>5, <1>6 DEF Next

(***************************************************************************)
(* The theorems.                                                           *)
(***************************************************************************)

\* The invariant behind the properties of the pages holds in every reachable state.
THEOREM Invariance == Spec => []IInv
BY InitInv, StepInv, PTL DEF Spec

\* Every variable keeps to its type, and the forms are mounted exactly while their
\* page has data and no error.
THEOREM Typing == Spec => []TypeOK
<1>1. IInv => TypeOK
  BY DEF IInv
<1> QED
  BY <1>1, Invariance, PTL

\* A title field at rest shows the title the server has, unless a save of something
\* else has taken it back, or for one of the other exceptions.
THEOREM TitlesRest == Spec => []TitleSettled
<1>1. IInv => TitleSettled
  BY DEF IInv, TitleInv, TitleSettled, TitleAtRest, Mounted, Clear
<1> QED
  BY <1>1, Invariance, PTL

\* A slider at rest shows the counts the server has, unless a save of something else,
\* a publication or the solver has taken them back, or for one of the other exceptions.
THEOREM SlidersRest == Spec => []CountsSettled
<1>1. IInv => CountsSettled
  BY DEF IInv, CountsInv, CountsSettled, CountsAtRest, Mounted, Clear, Unserved
<1> QED
  BY <1>1, Invariance, PTL

\* A spinner always waits for a load of its page.
THEOREM Waiting == Spec => []SpinnerWaits
<1>1. IInv => SpinnerWaits
  BY DEF IInv
<1> QED
  BY <1>1, Invariance, PTL

\* A title goes to the plan it was typed on, unless the tab carried it over, or comes
\* back from a save that had read it.
THEOREM Belonging == Spec => TitleBelongs
<1> DEFINE Given(p) == \E i \in OnTheWay("title", p) :
                         /\ title'[p] = call[i].form.title
                         /\ call[i].form.typedOn = p \/ call[i].carried
<1>1. ASSUME IInv, Next, NEW p \in Plans, title'[p] # title[p]
      PROVE  title'[p] \in ReadOf(p) \/ Given(p)
  <2>1. \/ \E i \in Calls : WritePatch(i) \/ WritePublish(i)
        \/ \E c \in Copies : SolverWrites(c)
    BY <1>1 DEF Next, Click, Open, Focus, Type, Slide, SaveTitle, Commit, Generate, Publish,
                Serve, ServeLoad, ReadTitle, ReadCounts, ReadGenerate, ReadPublish, Has,
                ServeGenerate, Receive, Lose, Detach, Continue, Solve, SolverReads, SolverFails,
                server
  <2>2. TypeOK /\ AllOK
    BY <1>1, Parts
  <2>3. ASSUME NEW i \in Calls, WritePatch(i) PROVE title'[p] \in ReadOf(p) \/ Given(p)
    <3>1. /\ Reading(i, {"title", "counts"}) /\ call[i].row # NoData
          /\ title' = [title EXCEPT ![call[i].plan] = call[i].row.title]
      BY <1>1, <2>3 DEF WritePatch, Write
    <3>2. call[i].plan = p /\ title'[p] = call[i].row.title
      BY <1>1, <2>2, <3>1 DEF TypeOK
    <3>3. CASE call[i].kind = "counts"
      BY <3>1, <3>2, <3>3 DEF ReadOf, Reading
    <3>4. CASE call[i].kind = "title"
      <4>1. i \in OnTheWay("title", p) /\ Sound(call[i]) /\ call[i].phase = "read"
        BY <2>2, <3>1, <3>2, <3>4 DEF OnTheWay, Reading, AllOK, CallsOK
      <4> QED
        BY <3>1, <3>2, <3>4, <4>1 DEF Sound
    <3> QED
      BY <3>1, <3>3, <3>4 DEF Reading
  <2>4. ASSUME NEW i \in Calls, WritePublish(i) PROVE title'[p] \in ReadOf(p) \/ Given(p)
    <3>1. /\ Reading(i, {"publish"})
          /\ title' = [title EXCEPT ![call[i].plan] = call[i].row.title,
                                     ![parent[call[i].plan]] = call[i].above.title]
      BY <2>4 DEF WritePublish
    <3>2. Sound(call[i]) /\ call[i].row # NoData
      BY <2>2, <3>1 DEF Reading, AllOK, CallsOK, Sound
    <3>3. \/ parent[call[i].plan] = p /\ title'[p] = call[i].above.title
          \/ call[i].plan = p /\ title'[p] = call[i].row.title
      BY <1>1, <2>2, <3>1 DEF TypeOK
    <3> QED
      BY <3>1, <3>2, <3>3 DEF ReadOf, Reading
  <2>5. ASSUME NEW c \in Copies, SolverWrites(c) PROVE title'[p] \in ReadOf(p) \/ Given(p)
    <3>1. c = p /\ title'[p] = solver[c].title /\ solver[c] # NoData
      BY <1>1, <2>2, <2>5 DEF SolverWrites, Write, TypeOK
    <3> QED
      BY <3>1 DEF ReadOf
  <2> QED
    BY <2>1, <2>3, <2>4, <2>5
<1>2. IInv /\ [Next]_vars =>
        [\A p \in Plans : title'[p] # title[p] =>
           \/ title'[p] \in ReadOf(p)
           \/ \E i \in OnTheWay("title", p) :
                /\ title'[p] = call[i].form.title
                /\ call[i].form.typedOn = p \/ call[i].carried]_vars
  BY <1>1
<1> QED
  BY <1>2, Invariance, PTL DEF Spec, TitleBelongs
=============================================================================
