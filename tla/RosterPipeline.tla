--------------------------- MODULE RosterPipeline ---------------------------
(***************************************************************************)
(* The generate / solve / publish pipeline of WeMeet: how a meeting is     *)
(* copied, how the copy is solved on another thread, how the result is     *)
(* persisted in several transactions, and how it is published back over    *)
(* the meeting, while users keep answering, inviting and configuring.      *)
(*                                                                         *)
(* A roster plan posted without a parent is a meeting; one posted with a   *)
(* parent is a copy that the solver fills.  Both are rows of the same      *)
(* table.  Meetings are set up, and may have been published over, before   *)
(* the behaviour starts.                                                   *)
(***************************************************************************)
EXTENDS Integers, FiniteSets

CONSTANTS
  Meetings,    \* ids of the plans without a parent
  Copies,      \* ids for the plans that will be posted with a parent
  Users,
  Slots,       \* contents of a time slot row: its start, end and capacity
  Rows,        \* tells apart the invitation rows of one plan
  Ranks,       \* the ranks a user may give a slot, null among them
  Counts,      \* pairs of allocation counts a plan may be configured with
  NoPlan,      \* the null parent
  Events,      \* which of the events below the environment may cause
  MaxEdits,    \* bound: how many requests users send besides generating
  MaxCrashes   \* bound: how often the server process may die

\* "crash"      the process dies and is started again
\* "abort"      the commit of the copying transaction fails
\* "slowCommit" that commit takes longer than the solver's spent limit
\* "earlyStop"  the spent limit ends the solver before every assignment
\*              has been given a value
\* "reinvite"   somebody invites a user who is already invited
EventNames == {"crash", "abort", "slowCommit", "earlyStop", "reinvite"}

ASSUME DisjointPlans == Meetings \cap Copies = {} /\ NoPlan \notin Meetings
ASSUME EventsKnown   == Events \subseteq EventNames
ASSUME SomeCount     == Counts # {}
ASSUME BoundsAreNat  == MaxEdits \in Nat /\ MaxCrashes \in Nat

Plans == Meetings \cup Copies

(***************************************************************************)
(* Rows.  An answer is a row of time_slot_user_info, an invitation one of  *)
(* roster_plan_user_info.  Content is everything deepCopy copies, the two  *)
(* counts of the plan's own row as one value among it.                     *)
(***************************************************************************)
Answer     == [slot : Slots, user : Users, rank : Ranks,
               available : BOOLEAN, picked : BOOLEAN]
Invitation == [row : Rows, user : Users, locked : BOOLEAN]
Content    == [slots : SUBSET Slots, answers : SUBSET Answer,
               invitations : SUBSET Invitation, config : Counts]
Assignment == [slot : Slots, user : Users, rank : Ranks, locked : BOOLEAN]

\* A PATCH and a publication load the row of a plan in one transaction and
\* write all its columns in a later one.  A publication moreover copies the
\* rows of the copy, after it has read those of the meeting to delete them.
Patch       == [id : 1..MaxEdits, plan : Plans, solved : BOOLEAN, config : Counts]
Publication == [id : 1..MaxEdits, plan : Copies, solved : BOOLEAN, config : Counts,
                begun : BOOLEAN, slots : SUBSET Slots, answers : SUBSET Answer,
                oldSlots : SUBSET Slots, oldAnswers : SUBSET Answer]

VARIABLES
  \* the database, which survives a crash
  parent,    \* parent[c]: the meeting copy c was posted for, NoPlan before
  solved,    \* solved[c]: the column of that name
  content,   \* content[p]: the committed rows that hang on plan p
  \* the memory of the server process
  request,   \* request[c]: how far the POST that creates c has come
  copied,    \* copied[c]: rows its transaction has written, not committed
  unread,    \* unread[c]: slots of the meeting whose answers it has yet to read
  dirty,     \* copies posted with counts that deepCopy changes
  patches,   \* PATCHes that have loaded a row and not saved it yet
  publications, \* publications that have not committed yet
  job,       \* job[c]: how far the solver thread has come with c
  problem,   \* problem[c]: the assignments handed to the solver
  picks,     \* picks[c]: those the solver decided to consider
  blank,     \* blank[c]: some assignment of the result has no value
  \* bookkeeping of the model
  edited,    \* copies below which a user has written
  withdrawn, \* copies whose label a row read before it has written over
  torn,      \* plans whose rows were copied from two different publications
  edits, crashes

database == <<parent, solved, content>>
server   == <<request, copied, unread, dirty>>
users    == <<patches, publications>>
solver   == <<job, problem, picks, blank>>
history  == <<edited, withdrawn, torn>>
bounds   == <<history, edits, crashes>>
vars     == <<database, server, users, solver, bounds>>

RequestStates == {"none", "posted", "reading", "copied", "done", "failed"}
JobStates == {"none", "queued", "found", "picked", "locked", "done", "failed"}

-----------------------------------------------------------------------------
\* Two rows answer the same question when slot and user agree.
SameKey(a, b) == a.slot = b.slot /\ a.user = b.user

Invited(c, u) == \E i \in c.invitations : i.user = u

Empty(config) ==
  [slots |-> {}, answers |-> {}, invitations |-> {}, config |-> config]
NoContent == Empty(CHOOSE config \in Counts : TRUE)

\* Contents an owner and the users may have set up before the first POST here,
\* with the allocation of a copy that was published before.
SetUps ==
  {c \in [slots : SUBSET Slots,
          answers : {A \in SUBSET Answer : \A a, b \in A : SameKey(a, b) => a = b},
          invitations : {I \in SUBSET Invitation :
                           \A i, j \in I : \/ i = j
                                           \/ /\ i.row # j.row
                                              /\ \/ i.user # j.user
                                                 \/ "reinvite" \in Events},
          config : Counts] :
     \A a \in c.answers : /\ a.slot \in c.slots
                          /\ a.picked => a.available /\ Invited(c, a.user)}

Init ==
  /\ parent = [c \in Copies |-> NoPlan]
  /\ solved = [c \in Copies |-> FALSE]
  /\ \E setUp \in [Meetings -> SetUps] :
       content = [p \in Plans |-> IF p \in Meetings THEN setUp[p] ELSE NoContent]
  /\ request = [c \in Copies |-> "none"]
  /\ copied = [c \in Copies |-> NoContent]
  /\ unread = [c \in Copies |-> {}]
  /\ dirty = {}
  /\ patches = {}
  /\ publications = {}
  /\ job = [c \in Copies |-> "none"]
  /\ problem = [c \in Copies |-> {}]
  /\ picks = [c \in Copies |-> {}]
  /\ blank = [c \in Copies |-> FALSE]
  /\ edited = {}
  /\ withdrawn = {}
  /\ torn = {}
  /\ edits = 0
  /\ crashes = 0

-----------------------------------------------------------------------------
(***************************************************************************)
(* The request thread of POST /rosterPlan.  RosterPlanController calls two *)
(* transactional services in a row: the row of the copy is committed by    *)
(* the first before the second copies the meeting into it.                 *)
(***************************************************************************)

\* Slip: neither the request's count nor the parent's is filled in.
PostWithoutDefaults(c, m) ==
  /\ parent[c] = NoPlan
  /\ content' = [content EXCEPT ![c] = Empty(NoPlan)]
  /\ parent' = [parent EXCEPT ![c] = m]
  /\ solved' = [solved EXCEPT ![c] = FALSE]
  /\ request' = [request EXCEPT ![c] = "posted"]
  /\ copied' = [copied EXCEPT ![c] = Empty(content[m].config)]
  /\ UNCHANGED <<unread, dirty, users, solver, bounds>>

\* RosterPlanService.post, with the row of the parent loaded for it.  A request
\* that names a minimum gets it as the maximum too; one that does not inherits
\* both counts.  The second service sets those of the parent as it was loaded.
Post(c, m) ==
  /\ parent[c] = NoPlan
  /\ \E config \in Counts :
       /\ content' = [content EXCEPT ![c] = Empty(config)]
       /\ dirty' = IF config = content[m].config THEN dirty ELSE dirty \cup {c}
  /\ parent' = [parent EXCEPT ![c] = m]
  /\ solved' = [solved EXCEPT ![c] = FALSE]
  /\ request' = [request EXCEPT ![c] = "posted"]
  /\ copied' = [copied EXCEPT ![c] = Empty(content[m].config)]
  /\ UNCHANGED <<unread, users, solver, bounds>>

\* deepCopy reads the slots of the meeting, then the answers slot by slot, and
\* the invitations last, each in a statement that sees what is committed then.
CopySlots(c) ==
  /\ request[c] = "posted"
  /\ request' = [request EXCEPT ![c] = "reading"]
  /\ copied' = [copied EXCEPT ![c].slots = content[parent[c]].slots]
  /\ unread' = [unread EXCEPT ![c] = content[parent[c]].slots]
  /\ torn' = IF parent[c] \in torn THEN torn \cup {c} ELSE torn
  /\ UNCHANGED <<database, dirty, users, solver, edited, withdrawn, edits, crashes>>

CopyAnswers(c) ==
  /\ request[c] = "reading"
  /\ \E s \in unread[c] :
       /\ copied' = [copied EXCEPT ![c].answers =
            @ \cup {a \in content[parent[c]].answers : a.slot = s}]
       /\ unread' = [unread EXCEPT ![c] = @ \ {s}]
  /\ UNCHANGED <<database, request, dirty, users, solver, bounds>>

\* Slip: every answer of the plan, whether its user is invited or not.
ProblemOfAnyone(x) ==
  {b \in Assignment : ~b.locked /\ \E a \in x.answers :
     a.available /\ SameKey(a, b) /\ a.rank = b.rank}

\* createRosterPlanSolutionFrom: one assignment for each available answer of
\* each invitation's user.  A user invited twice contributes them twice, as
\* equal assignments when both invitations are locked or both are not.
ProblemOf(x) ==
  {b \in Assignment : \E a \in x.answers, i \in x.invitations :
     /\ a.available
     /\ SameKey(a, b) /\ a.rank = b.rank
     /\ i.user = b.user /\ i.locked = b.locked}

\* The rest of SolverService.solve up to the end of its transaction: the copy
\* of the invitations, and the hand over of all that was copied to the solver.
Solve(c) ==
  /\ request[c] = "reading"
  /\ unread[c] = {}
  /\ LET x == [copied[c] EXCEPT !.invitations = content[parent[c]].invitations]
     IN  /\ copied' = [copied EXCEPT ![c] = x]
         /\ problem' = [problem EXCEPT ![c] = ProblemOf(x)]
  /\ job' = [job EXCEPT ![c] = "queued"]
  /\ request' = [request EXCEPT ![c] = "copied"]
  /\ UNCHANGED <<database, unread, dirty, users, picks, blank, bounds>>

\* The commit at the end of solve.  If its counts have changed, the copy's own
\* row is written with every column as loaded, the unsolved flag among them.
Commit(c) ==
  /\ request[c] = "copied"
  /\ content' = [content EXCEPT ![c] = copied[c]]
  /\ solved' = [solved EXCEPT ![c] = @ /\ c \notin dirty]
  /\ request' = [request EXCEPT ![c] = "done"]
  /\ UNCHANGED <<parent, copied, unread, dirty, users, solver, bounds>>

\* The commit fails: the rows are gone, the solver keeps the problem.
Abort(c) ==
  /\ "abort" \in Events
  /\ request[c] = "copied"
  /\ request' = [request EXCEPT ![c] = "failed"]
  /\ UNCHANGED <<database, copied, unread, dirty, users, solver, bounds>>

-----------------------------------------------------------------------------
(***************************************************************************)
(* The solver thread.  OptaPlanner hands its best solution to              *)
(* updateRosterPlanWith when the spent limit is over, at once when there   *)
(* is nothing to assign.  The repository calls below are transactions of   *)
(* their own: the method is called on `this`, past the service's proxy.    *)
(***************************************************************************)

\* Two assignments with one @PlanningId: one row, two different lock flags.
Clash(c) == \E a, b \in problem[c] : a # b /\ SameKey(a, b)

\* OptaPlanner rejects the problem; nobody is told.
SolverFail(c) ==
  /\ job[c] = "queued"
  /\ Clash(c)
  /\ job' = [job EXCEPT ![c] = "failed"]
  /\ UNCHANGED <<database, server, users, problem, picks, blank, bounds>>

\* Any set of assignments may be the best solution found in the given time.
SolverFinish(c) ==
  /\ job[c] = "queued"
  /\ ~Clash(c)
  /\ \/ problem[c] = {}
     \/ request[c] # "copied"
     \/ "slowCommit" \in Events
  /\ \E chosen \in SUBSET problem[c] :
       /\ picks' = [picks EXCEPT ![c] = chosen]
       /\ \/ UNCHANGED blank
          \/ /\ "earlyStop" \in Events
             /\ chosen # problem[c]
             /\ blank' = [blank EXCEPT ![c] = TRUE]
  /\ job' = [job EXCEPT ![c] = "found"]
  /\ UNCHANGED <<database, server, users, problem, bounds>>

\* The rows the problem was built from can be seen by other transactions.
RowsVisible(c) == problem[c] = {} \/ request[c] = "done"

\* Slip: the mapper forgets that `considered` is `picked`.
SavePicksUnmapped(c) ==
  /\ job[c] = "found"
  /\ RowsVisible(c)
  /\ content' = [content EXCEPT ![c].answers =
       {a \in @ : \A b \in problem[c] : ~SameKey(a, b)} \cup
       {[slot |-> b.slot, user |-> b.user, rank |-> b.rank,
         available |-> TRUE, picked |-> FALSE] : b \in problem[c]}]
  /\ job' = [job EXCEPT ![c] = "picked"]
  /\ UNCHANGED <<parent, solved, server, users, problem, picks, blank, bounds>>

\* Slip: the clones keep the ids of the meeting's rows.
SavePicksInSource(c) ==
  /\ job[c] = "found"
  /\ RowsVisible(c)
  /\ content' = [content EXCEPT ![parent[c]].answers =
       {a \in @ : \A b \in problem[c] : ~SameKey(a, b)} \cup
       {[slot |-> b.slot, user |-> b.user, rank |-> b.rank,
         available |-> TRUE, picked |-> b \in picks[c]] : b \in problem[c]}]
  /\ job' = [job EXCEPT ![c] = "picked"]
  /\ UNCHANGED <<parent, solved, server, users, problem, picks, blank, bounds>>

\* updateFromAssignments: every assignment becomes its answer's row again,
\* with the rank it was read with, the default availability and the pick.
SavePicks(c) ==
  /\ job[c] = "found"
  /\ RowsVisible(c)
  /\ content' = [content EXCEPT ![c].answers =
       {a \in @ : \A b \in problem[c] : ~SameKey(a, b)} \cup
       {[slot |-> b.slot, user |-> b.user, rank |-> b.rank,
         available |-> TRUE, picked |-> b \in picks[c]] : b \in problem[c]}]
  /\ job' = [job EXCEPT ![c] = "picked"]
  /\ UNCHANGED <<parent, solved, server, users, problem, picks, blank, bounds>>

SavePicksFail(c) ==
  /\ job[c] = "found"
  /\ ~RowsVisible(c)
  /\ job' = [job EXCEPT ![c] = "failed"]
  /\ UNCHANGED <<database, server, users, problem, picks, blank, bounds>>

\* lockUsersWithPicks asks for the one invitation of each picked user, and
\* for a value of every assignment.
PickedUsers(c) == {b.user : b \in picks[c]}
Lockable(c) ==
  /\ ~blank[c]
  /\ \A u \in PickedUsers(c) :
       /\ Invited(content[c], u)
       /\ \A i, j \in content[c].invitations : i.user = u /\ j.user = u => i = j

SaveLocks(c) ==
  /\ job[c] = "picked"
  /\ Lockable(c)
  /\ content' = [content EXCEPT ![c].invitations =
       {[i EXCEPT !.locked = @ \/ i.user \in PickedUsers(c)] : i \in @}]
  /\ job' = [job EXCEPT ![c] = "locked"]
  /\ UNCHANGED <<parent, solved, server, users, problem, picks, blank, bounds>>

SaveLocksFail(c) ==
  /\ job[c] = "picked"
  /\ ~Lockable(c)
  /\ job' = [job EXCEPT ![c] = "failed"]
  /\ UNCHANGED <<database, server, users, problem, picks, blank, bounds>>

\* Slips: the query does not flush; the request's connection is never released.
RowNeverLocked(c) == FALSE
RowLockedForEver(c) ==
  request[c] \in {"copied", "done"} /\ c \in dirty /\ copied[c].invitations # {}

\* The query that looks up an invitation's answers flushes the copy's row if
\* it is dirty, so it is locked until the commit; without an invitation there
\* is no such query.
RowLocked(c) ==
  request[c] = "copied" /\ c \in dirty /\ copied[c].invitations # {}

\* Slip: the label is saved before the locks.
SaveSolvedFirst(c) ==
  /\ job[c] \in {"picked", "locked"}
  /\ ~RowLocked(c)
  /\ solved' = [solved EXCEPT ![c] = TRUE]
  /\ content' = [content EXCEPT ![c].config = copied[c].config]
  /\ job' = [job EXCEPT ![c] = "done"]
  /\ UNCHANGED <<parent, server, users, problem, picks, blank, bounds>>

\* The configuration of the problem goes over the one in the row.
SaveSolved(c) ==
  /\ job[c] = "locked"
  /\ ~RowLocked(c)
  /\ solved' = [solved EXCEPT ![c] = TRUE]
  /\ content' = [content EXCEPT ![c].config = copied[c].config]
  /\ job' = [job EXCEPT ![c] = "done"]
  /\ UNCHANGED <<parent, server, users, problem, picks, blank, bounds>>

-----------------------------------------------------------------------------
(***************************************************************************)
(* The users.  Pages show a plan once the POST that creates it has been    *)
(* answered or has died; until then nobody writes to it.                   *)
(***************************************************************************)
Open(p) ==
  p \in Copies => parent[p] # NoPlan /\ request[p] \in {"done", "failed"}

Access(p) ==
  /\ Open(p)
  /\ edits < MaxEdits
  /\ edits' = edits + 1
  /\ UNCHANGED <<parent, server, solver, torn, crashes>>

\* A request that writes below the plan in one transaction.
Edit(p) ==
  /\ Access(p)
  /\ edited' = edited \cup ({p} \cap Copies)
  /\ UNCHANGED <<solved, users, withdrawn>>

\* Slip: the pick of the row that is replaced is kept.
RankKeepingPick(p, u) ==
  /\ Edit(p)
  /\ \E s \in content[p].slots, r \in Ranks, yes \in BOOLEAN :
       content' = [content EXCEPT ![p].answers =
         {a \in @ : ~(a.slot = s /\ a.user = u)} \cup
         {[slot |-> s, user |-> u, rank |-> r, available |-> yes,
           picked |-> \E a \in @ : a.slot = s /\ a.user = u /\ a.picked]}]

\* POST /timeSlotUserInfo.  The user's row for the slot is replaced, with the
\* default for what the request leaves out: not picked.
Rank(p, u) ==
  /\ Edit(p)
  /\ \E s \in content[p].slots, r \in Ranks, yes \in BOOLEAN :
       content' = [content EXCEPT ![p].answers =
         {a \in @ : ~(a.slot = s /\ a.user = u)} \cup
         {[slot |-> s, user |-> u, rank |-> r, available |-> yes, picked |-> FALSE]}]

\* POST /rosterPlanUserInfo.  Nothing asks whether the user has a row already.
Invite(p, u) ==
  /\ Edit(p)
  /\ Invited(content[p], u) => "reinvite" \in Events
  /\ \E r \in Rows, locked \in BOOLEAN :
       /\ \A i \in content[p].invitations : i.row # r
       /\ content' = [content EXCEPT ![p].invitations =
            @ \cup {[row |-> r, user |-> u, locked |-> locked]}]

\* POST /timeSlot.
AddTimeSlot(p) ==
  /\ Edit(p)
  /\ \E s \in Slots \ content[p].slots :
       content' = [content EXCEPT ![p].slots = @ \cup {s}]

Labelled(p) == p \in Copies /\ solved[p]

\* PATCH /rosterPlan of the title or of the counts, which are written whatever
\* they have become meanwhile, and so is the label.
Configure(p) ==
  /\ Access(p)
  /\ \E config \in Counts :
       patches' = patches \cup {[id |-> edits + 1, plan |-> p,
                                solved |-> Labelled(p), config |-> config]}
  /\ UNCHANGED <<solved, content, publications, edited, withdrawn>>

\* The columns of a copy's row as they were loaded.
WriteLabel(c, label) ==
  /\ solved' = [solved EXCEPT ![c] = label]
  /\ withdrawn' = IF solved[c] /\ ~label THEN withdrawn \cup {c} ELSE withdrawn

SavePatch(u) ==
  /\ patches' = patches \ {u}
  /\ content' = [content EXCEPT ![u.plan].config = u.config]
  /\ \/ u.plan \in Copies /\ WriteLabel(u.plan, u.solved)
     \/ u.plan \in Meetings /\ UNCHANGED <<solved, withdrawn>>
  /\ UNCHANGED <<parent, server, publications, solver, edited, torn, edits, crashes>>

\* POST /rosterPlan/publish: both plans are loaded when the body of the request
\* is read, before the transaction.
Publish(c) ==
  /\ parent[c] # NoPlan
  /\ Access(c)
  /\ publications' = publications \cup
       {[id |-> edits + 1, plan |-> c, solved |-> solved[c], config |-> content[c].config,
         begun |-> FALSE, slots |-> {}, answers |-> {},
         oldSlots |-> {}, oldAnswers |-> {}]}
  /\ UNCHANGED <<solved, content, patches, edited, withdrawn>>

\* deepCopy in the other direction, up to the invitations: the meeting's slots
\* and answers, for their deletion, and those of the copy.
CopyBack(u) ==
  /\ ~u.begun
  /\ publications' = (publications \ {u}) \cup
       {[id |-> u.id, plan |-> u.plan, solved |-> u.solved, config |-> u.config,
         begun |-> TRUE,
         slots |-> content[u.plan].slots, answers |-> content[u.plan].answers,
         oldSlots |-> content[parent[u.plan]].slots,
         oldAnswers |-> content[parent[u.plan]].answers]}
  /\ UNCHANGED <<database, server, patches, solver, bounds>>

\* Slots added to the meeting since it was read stay, with their answers.
Kept(u) == {a \in content[parent[u.plan]].answers : a.slot \notin u.oldSlots}

\* A foreign key refuses the deletion of a slot that has got an answer more.
Deletable(u) ==
  \A a \in content[parent[u.plan]].answers \ Kept(u) :
    \E b \in u.oldAnswers : SameKey(a, b)

\* A publication that is to delete what another one has deleted fails.
Overtaken(u) ==
  {v \in publications : /\ parent[v.plan] = parent[u.plan]
                        /\ v.oldSlots \cap u.oldSlots # {}}

\* POSTs of copies that are reading the meeting.
Reading(m) == {c \in Copies : parent[c] = m /\ request[c] = "reading"}

\* The invitations, and the commit, which writes the rows of both plans too.
\* The meeting now has what the copy had, and slots that are read are gone.
FinishPublish(u) ==
  /\ u.begun
  /\ Deletable(u)
  /\ publications' = (publications \ {u}) \ Overtaken(u)
  /\ LET m == parent[u.plan] IN
       /\ content' = [content EXCEPT
            ![m] = [slots |-> u.slots \cup (content[m].slots \ u.oldSlots),
                    answers |-> u.answers \cup Kept(u),
                    invitations |-> content[u.plan].invitations,
                    config |-> u.config],
            ![u.plan].config = u.config]
       /\ unread' = [c \in Copies |-> IF c \in Reading(m)
                                       THEN unread[c] \ u.oldSlots ELSE unread[c]]
       /\ torn' = (torn \ {m}) \cup Reading(m) \cup
            (IF u.plan \in torn \/ \E a \in Kept(u) : a.picked THEN {m} ELSE {})
  /\ WriteLabel(u.plan, u.solved)
  /\ UNCHANGED <<parent, request, copied, dirty, patches, solver, edited, edits, crashes>>

-----------------------------------------------------------------------------
(***************************************************************************)
(* The process dies and is started again.  Transactions in flight are      *)
(* rolled back, the solver's tasks were only in memory, and no code looks  *)
(* for unsolved copies at startup.                                         *)
(***************************************************************************)
Crash ==
  /\ "crash" \in Events
  /\ crashes < MaxCrashes
  /\ crashes' = crashes + 1
  /\ request' = [c \in Copies |-> IF request[c] \in {"posted", "reading", "copied"}
                                    THEN "failed" ELSE request[c]]
  /\ job' = [c \in Copies |-> IF job[c] \in {"none", "done"}
                                THEN job[c] ELSE "failed"]
  /\ patches' = {}
  /\ publications' = {}
  /\ UNCHANGED <<database, copied, unread, dirty, problem, picks, blank, history, edits>>

-----------------------------------------------------------------------------
UserStep ==
  \/ \E p \in Plans : AddTimeSlot(p) \/ Configure(p)
  \/ \E p \in Plans, u \in Users : Rank(p, u) \/ Invite(p, u)
  \/ \E u \in patches : SavePatch(u)
  \/ \E c \in Copies : Publish(c)
  \/ \E u \in publications : CopyBack(u) \/ FinishPublish(u)

RequestStep(c) ==
  CopySlots(c) \/ CopyAnswers(c) \/ Solve(c) \/ Commit(c) \/ Abort(c)
SolverStep(c) ==
  \/ SolverFinish(c) \/ SolverFail(c)
  \/ SavePicks(c) \/ SavePicksFail(c)
  \/ SaveLocks(c) \/ SaveLocksFail(c)
  \/ SaveSolved(c)

Next ==
  \/ \E c \in Copies, m \in Meetings : Post(c, m)
  \/ \E c \in Copies : RequestStep(c) \/ SolverStep(c)
  \/ UserStep
  \/ Crash

Spec == Init /\ [][Next]_vars

\* Threads that run keep running: the request thread finishes its POST and
\* the solver thread its task.  Nobody has to send another request.
Fairness == \A c \in Copies : WF_vars(RequestStep(c)) /\ WF_vars(SolverStep(c))
FairSpec == Spec /\ Fairness

-----------------------------------------------------------------------------
(***************************************************************************)
(* Properties.                                                             *)
(***************************************************************************)

\* Every variable keeps to its type: the columns of the tables, the phases
\* of a request and of a task, the solver's problem and result.
TypeOK ==
  /\ parent \in [Copies -> Meetings \cup {NoPlan}]
  /\ solved \in [Copies -> BOOLEAN]
  /\ content \in [Plans -> Content]
  /\ request \in [Copies -> RequestStates]
  /\ copied \in [Copies -> Content]
  /\ unread \in [Copies -> SUBSET Slots]
  /\ dirty \in SUBSET Copies
  /\ patches \in SUBSET Patch
  /\ publications \in SUBSET Publication
  /\ job \in [Copies -> JobStates]
  /\ problem \in [Copies -> SUBSET Assignment]
  /\ picks \in [Copies -> SUBSET Assignment]
  /\ blank \in [Copies -> BOOLEAN]
  /\ edited \in SUBSET Copies
  /\ withdrawn \in SUBSET Copies
  /\ torn \in SUBSET Plans
  /\ edits \in Nat
  /\ crashes \in Nat

\* Nobody is allocated a slot they are unavailable for.  A user may mark the
\* slot unavailable on the copy while it is being solved, or on the meeting
\* before the copy is published: the pick and the mark never meet in a row.
PickedIsAvailable ==
  \A p \in Plans : \A a \in content[p].answers : a.picked => a.available

\* Nobody is allocated who was not invited: anybody may answer, but only the
\* answers of invitations enter the problem, and a copy brings the invitations
\* along with the picks whichever way it is made.  The exceptions are a copy
\* whose meeting was published between the reads of the answers and of the
\* invitations, a meeting over which two publications overlapped, and what is
\* copied from them.
AllocatedAreInvited ==
  \A p \in Plans \ torn : \A a \in content[p].answers :
    a.picked => Invited(content[p], a.user)

\* A copy is labelled solved only when every user it allocates is locked, so
\* that the next roster generated from it is held to the allocation.  Picks,
\* locks and label are three transactions; a crash, a failure or the commit
\* of the POST may fall between any two of them.  A pick of nobody invited, in
\* a copy torn as above, stays without a lock.
SolvedPicksAreLocked ==
  \A c \in Copies \ torn : solved[c] =>
    \A a \in content[c].answers : a.picked =>
      \E i \in content[c].invitations : i.user = a.user /\ i.locked

\* What a content allocates, and what a result decides.
Allocation(x) == {<<a.slot, a.user, a.rank>> : a \in {b \in x.answers : b.picked}}
Decision(bs)  == {<<b.slot, b.user, b.rank>> : b \in bs}

\* "Once it is solved, the AI allocations are persisted in the copy": the
\* picked rows of a solved copy that no user has written to are exactly the
\* solver's picks, with the ranks it was given, unless the copy is torn.
SolvedIsPersisted ==
  \A c \in Copies \ (edited \cup torn) : solved[c] =>
    Allocation(content[c]) = Decision(picks[c])

\* Generating a roster never writes to the meeting: changes made to it while
\* a copy is being solved survive the end of the task, and a crash.
SourceKept ==
  [][(\E c \in Copies : RequestStep(c) \/ SolverStep(c)) \/ Crash =>
        \A m \in Meetings : content'[m] = content[m]]_vars

\* Two kinds of steps take the label off a solved copy: the commit of the POST
\* that made it, when it changes the counts and the copy came without
\* invitations; and a PATCH or a publication that loaded the row before the
\* label was there and writes it only now.
RevertsOnlyBy ==
  [][\A c \in Copies : solved[c] /\ ~solved'[c] =>
        \/ /\ Commit(c)
           /\ c \in dirty /\ problem[c] = {} /\ copied[c].invitations = {}
        \/ \E u \in patches : SavePatch(u) /\ u.plan = c /\ ~u.solved
        \/ \E u \in publications : FinishPublish(u) /\ u.plan = c /\ ~u.solved]_vars

\* The POST or the task of a copy has failed, or died with the process.
Broken(c) == request[c] = "failed" \/ job[c] = "failed"

\* Whatever happens, a copy that is posted is eventually labelled solved, unless
\* its request or its task fails: nothing is forgotten on the way between them.
SolvedOrBroken ==
  \A c \in Copies : request[c] = "posted" ~> solved[c] \/ Broken(c)

\* Its label then stays, if the counts were those of the meeting or anybody had
\* been invited to it, until a row loaded before the label is written over it.
StaysSolved ==
  \A c \in Copies :
    request[c] = "copied" /\ (c \in dirty => copied[c].invitations # {})
      ~> [](solved[c] \/ c \in withdrawn) \/ Broken(c)

\* No task hangs, whatever happens around it: the solver thread waits for
\* the row of the copy, but the request that holds it waits for nobody.
TasksEnd ==
  \A c \in Copies : job[c] = "queued" ~> job[c] \in {"done", "failed"}

-----------------------------------------------------------------------------
(***************************************************************************)
(* The invariant behind the three safety properties, inductive where they  *)
(* are not.                                                                *)
(***************************************************************************)

\* Picks are of available users; picks are of users invited in y.
Available(answers) == \A a \in answers : a.picked => a.available
InvitedPick(answers, y) == \A a \in answers : a.picked => Invited(y, a.user)

\* The contents copy c has, or will have once its POST commits.
Written(c) == {content[c]} \cup (IF request[c] = "copied" THEN {copied[c]} ELSE {})

\* Every pick of x is on a question that the assignments bs answer.
PicksAmong(x, bs) == \A a \in x.answers : a.picked => \E b \in bs : SameKey(a, b)

HasResult == {"found", "picked", "locked", "done"}
HasPicks  == {"picked", "locked", "done"}
Over      == {"done", "failed"}

\* How far the two threads of a copy may be apart.
Phases(c) ==
  /\ parent[c] = NoPlan <=> request[c] = "none"
  /\ request[c] \in {"none", "posted", "reading"} => job[c] = "none"
  /\ request[c] \in {"none", "posted", "reading", "copied"} => content[c].answers = {}
  /\ request[c] \in {"none", "posted"} => copied[c].answers = {}
  /\ solved[c] => job[c] = "done"
  /\ job[c] \in HasResult => picks[c] \subseteq problem[c]
  /\ job[c] \in HasPicks /\ request[c] = "copied" => problem[c] = {}
  /\ job[c] = "done" /\ request[c] = "copied" /\ c \in dirty =>
       copied[c].invitations = {}

\* Whatever a copy has read so far, a pick is of an available user who is still
\* invited, unless the meeting has been published since.
Copied(c) ==
  /\ Available(copied[c].answers)
  /\ c \notin torn =>
       /\ request[c] = "reading" =>
            /\ parent[c] \notin torn
            /\ InvitedPick(copied[c].answers, content[parent[c]])
       /\ request[c] \in {"copied", "done"} => InvitedPick(copied[c].answers, copied[c])

\* Until the picks are saved, a row that is already picked, copied from an
\* allocation published earlier, is one the solver decides on, and the users
\* it decides on are invited.
Undecided(c) ==
  job[c] \in {"queued", "found"} =>
    /\ c \notin torn => \A x \in Written(c) : PicksAmong(x, problem[c])
    /\ request[c] = "copied" => \A b \in problem[c] : Invited(copied[c], b.user)
    /\ request[c] = "done" => \A b \in problem[c] : Invited(content[c], b.user)

\* Once they are saved, the picked rows are the solver's; once the locks are,
\* the users it picked are locked.
Decided(c) ==
  /\ job[c] \in HasPicks /\ c \notin torn =>
       \A x \in Written(c) : PicksAmong(x, picks[c])
  /\ job[c] \in {"locked", "done"} =>
       \A b \in picks[c] : \E i \in content[c].invitations :
         i.user = b.user /\ i.locked

CopyInv(c) == Phases(c) /\ Copied(c) /\ Undecided(c) /\ Decided(c)

\* A row is labelled in memory only if the task is over; a publication has read
\* picks of users who are still invited to the copy, whose POST is over.
PatchInv(u) == u.plan \in Copies =>
  /\ request[u.plan] \in Over
  /\ u.solved => job[u.plan] = "done"
PublicationInv(u) ==
  /\ PatchInv(u)
  /\ Available(u.answers)
  /\ u.plan \notin torn => InvitedPick(u.answers, content[u.plan])

PlanInv(p) ==
  /\ Available(content[p].answers)
  /\ p \notin torn => InvitedPick(content[p].answers, content[p])

IInv ==
  /\ TypeOK
  /\ \A p \in Plans : PlanInv(p)
  /\ \A c \in Copies : CopyInv(c)
  /\ \A u \in patches : PatchInv(u)
  /\ \A u \in publications : PublicationInv(u)

-----------------------------------------------------------------------------
(***************************************************************************)
(* The pipeline as an implementation of RosterDelivery, in which a roster  *)
(* appears in one step.  A copy's roster is what its rows say while it is  *)
(* labelled solved and nobody has written to it.                           *)
(***************************************************************************)
InvitedIn(x) == {i.user : i \in x.invitations}
LockedIn(x)  == {i.user : i \in {j \in x.invitations : j.locked}}
AllocatedIn(x) == {a.user : a \in {b \in x.answers : b.picked}}

TaskOf(c) ==
  IF job[c] = "none"
    THEN [asked |-> FALSE, eligible |-> {}, invited |-> {}]
    ELSE [asked |-> TRUE, eligible |-> Decision(problem[c]),
          invited |-> InvitedIn(copied[c])]

\* Nothing is promised of a copy that users have written to, whose label has
\* been written over, or that mixes two publications.
RosterOf(c) ==
  IF c \in edited \cup withdrawn \cup torn
    THEN [status |-> "touched", allocation |-> {}, locked |-> {}]
    ELSE IF solved[c]
      THEN [status |-> "delivered", allocation |-> Allocation(content[c]),
            locked |-> LockedIn(content[c]) \cap AllocatedIn(content[c])]
      ELSE [status |-> "none", allocation |-> {}, locked |-> {}]

Delivery == INSTANCE RosterDelivery WITH
  task   <- [c \in Copies |-> TaskOf(c)],
  roster <- [c \in Copies |-> RosterOf(c)]

\* What makes it so: on a copy nobody has written to, the picked rows are the
\* solver's choice from the moment they are saved.
Intact(c) ==
  c \notin edited \cup torn /\ job[c] \in HasPicks =>
    \A x \in Written(c) : Allocation(x) = Decision(picks[c])
\* A label in memory is still in the table, or has been written over.
Remembered(u) ==
  u.plan \in Copies /\ u.solved => solved[u.plan] \/ u.plan \in withdrawn
DeliveryInv ==
  /\ IInv
  /\ \A c \in Copies : Intact(c)
  /\ \A u \in patches \cup publications : Remembered(u)

\* Three transactions on another thread deliver a roster as if in one: nobody
\* who reads the label sees a part of it, and neither the end of the POST, nor
\* another copy's task, nor a PATCH or publication begun later, nor a crash
\* changes it afterwards.
DeliversAtOnce == Delivery!Spec

-----------------------------------------------------------------------------
(***************************************************************************)
(* What the developer guide says and the code does not do.                 *)
(***************************************************************************)

\* "Durability. If the task is still being solved, when the server fails, it will
\* still be marked unsolved and can be handled later": a copy that is posted is
\* eventually labelled solved.
Generated ==
  \A c \in Copies : request[c] = "posted" ~> solved[c]

\* "If any user modify their preferences or meeting configurations, the server
\* will not overwrite these changes after the solver task is completed": the
\* end of a task keeps the counts, and the rank and the availability of every
\* answer, of every plan that users have access to.
EditsKept ==
  [][(\E c \in Copies : SolverStep(c)) =>
        \A p \in Plans : Open(p) =>
          /\ content'[p].config = content[p].config
          /\ \A a \in content[p].answers : \E b \in content'[p].answers :
               SameKey(a, b) /\ a.rank = b.rank /\ a.available = b.available]_vars
=============================================================================
