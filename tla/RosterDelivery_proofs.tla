------------------------ MODULE RosterDelivery_proofs ------------------------
(***************************************************************************)
(* The proof that RosterPipeline implements RosterDelivery: an invariant,  *)
(* and one lemma for each way in which a step of the pipeline looks to     *)
(* those who read the label.                                               *)
(***************************************************************************)
EXTENDS RosterPipeline_proofs

(***************************************************************************)
(* The invariant: copies are intact, and labels in memory are remembered.  *)
(***************************************************************************)

AllIntact == \A c \in Copies : Intact(c)
AllRemembered == \A u \in patches \cup publications : Remembered(u)

\* What a step does not write about a copy keeps it intact.
LEMMA LeftAlone ==
  ASSUME NEW c \in Copies, Intact(c), Same(c), SameRows(c),
         edited \subseteq edited', c \in torn => c \in torn'
  PROVE  Intact(c)'
<1>1. Allocation(content'[c]) = Allocation(content[c])
  BY DEF SameRows, Allocation
<1>2. ASSUME c \notin edited' \cup torn', job'[c] \in HasPicks
      PROVE  /\ Allocation(content'[c]) = Decision(picks'[c])
             /\ request'[c] = "copied" => Allocation(copied'[c]) = Decision(picks'[c])
  BY <1>1, <1>2 DEF Intact, Written, Same
<1> QED
  BY <1>2 DEF Intact, Written

LEMMA InitIntact == Init => AllIntact /\ AllRemembered
BY DEF Init, AllIntact, AllRemembered, Intact, HasPicks

LEMMA RequestIntact ==
  ASSUME TypeOK, Safe, NEW c \in Copies, Intact(c),
         RequestStep(c) \/ \E m \in Meetings : Post(c, m)
  PROVE  Intact(c)'
<1>0. CopyInv(c) /\ c \in Plans
  BY DEF Safe, Plans
<1>1. ASSUME (\E m \in Meetings : Post(c, m)) \/ CopySlots(c) \/ CopyAnswers(c)
      PROVE  Intact(c)'
  <2>1. job'[c] = "none"
    BY <1>0, <1>1 DEF Post, CopySlots, CopyAnswers, solver, CopyInv, Phases
  <2> QED
    BY <2>1 DEF Intact, HasPicks
<1>2. CASE Solve(c)
  <2>1. job'[c] = "queued"
    BY <1>2 DEF Solve, TypeOK
  <2> QED
    BY <2>1 DEF Intact, HasPicks
<1>3. CASE Commit(c)
  <2>1. content'[c] = copied[c]
    BY <1>3, CopyingWrites
  <2>2. request[c] = "copied" /\ request'[c] = "done" /\ UNCHANGED <<job, picks, edited, torn>>
    BY <1>3 DEF Commit, TypeOK, solver, bounds, history
  <2> QED
    BY <2>1, <2>2 DEF Intact, Written
<1>4. CASE Abort(c)
  <2>1. request'[c] = "failed" /\ UNCHANGED <<content, job, picks, edited, torn>>
    BY <1>4 DEF Abort, TypeOK, database, solver, bounds, history
  <2> QED
    BY <2>1 DEF Intact, Written
<1> QED
  BY <1>1, <1>2, <1>3, <1>4 DEF RequestStep

\* Saving the picks leaves exactly the solver's choice picked: rows that are
\* not of the problem were not picked before.
LEMMA PicksSaved ==
  ASSUME NEW c \in Copies, PicksAmong(content[c], problem[c]),
         picks[c] \subseteq problem[c], NEW x, x.answers = SavedAnswers(c)
  PROVE  Allocation(x) = Decision(picks[c])
<1>1. ASSUME NEW a \in x.answers, a.picked
      PROVE  <<a.slot, a.user, a.rank>> \in Decision(picks[c])
  <2>1. PICK b \in problem[c] :
          a = [slot |-> b.slot, user |-> b.user, rank |-> b.rank,
               available |-> TRUE, picked |-> b \in picks[c]]
    BY <1>1 DEF SavedAnswers, PicksAmong
  <2>2. b \in picks[c] /\ <<a.slot, a.user, a.rank>> = <<b.slot, b.user, b.rank>>
    BY <1>1, <2>1
  <2> QED
    BY <2>2 DEF Decision
<1>2. ASSUME NEW b \in picks[c]
      PROVE  <<b.slot, b.user, b.rank>> \in Allocation(x)
  <2> DEFINE a == [slot |-> b.slot, user |-> b.user, rank |-> b.rank,
                   available |-> TRUE, picked |-> b \in picks[c]]
  <2>1. a \in x.answers
    BY DEF SavedAnswers
  <2>2. a.picked /\ <<a.slot, a.user, a.rank>> = <<b.slot, b.user, b.rank>>
    OBVIOUS
  <2> HIDE DEF a
  <2> QED
    BY <2>1, <2>2 DEF Allocation
<1> QED
  BY <1>1, <1>2 DEF Allocation, Decision

LEMMA SolverIntact ==
  ASSUME TypeOK, Safe, NEW c \in Copies, Intact(c), SolverStep(c)
  PROVE  Intact(c)'
<1>0. CopyInv(c) /\ c \in Plans
  BY DEF Safe, Plans
<1>1. UNCHANGED <<request, copied, edited, torn>>
  BY DEF SolverStep, SolverFinish, SolverFail, SavePicks, SavePicksFail,
         SaveLocks, SaveLocksFail, SaveSolved, server, bounds, history
<1>2. CASE SolverFinish(c) \/ SolverFail(c) \/ SavePicksFail(c) \/ SaveLocksFail(c)
  <2>1. job'[c] \in {"found", "failed"}
    BY <1>2 DEF SolverFinish, SolverFail, SavePicksFail, SaveLocksFail, TypeOK
  <2> QED
    BY <2>1 DEF Intact, HasPicks
<1>3. CASE SavePicks(c)
  <2> SUFFICES ASSUME c \notin torn PROVE Intact(c)'
    BY <1>1 DEF Intact
  <2>1. /\ job[c] = "found" /\ RowsVisible(c) /\ UNCHANGED <<problem, picks>>
        /\ content'[c].answers = SavedAnswers(c)
    BY <1>3, SavePicksWrites DEF SavePicks
  <2>2. /\ picks[c] \subseteq problem[c]
        /\ \A x \in Written(c) : PicksAmong(x, problem[c])
    BY <1>0, <2>1 DEF CopyInv, Phases, Undecided, HasResult
  <2>3. Allocation(content'[c]) = Decision(picks[c])
    BY <2>1, <2>2, PicksSaved DEF Written
  <2>4. request[c] = "copied" => Allocation(copied[c]) = Decision(picks[c])
    <3>1. SUFFICES ASSUME request[c] = "copied"
                   PROVE  Allocation(copied[c]) = Decision(picks[c])
      OBVIOUS
    <3>2. problem[c] = {} /\ picks[c] = {}
      BY <2>1, <2>2, <3>1 DEF RowsVisible
    <3>3. \A a \in copied[c].answers : ~a.picked
      BY <2>2, <3>1, <3>2 DEF Written, PicksAmong
    <3> QED
      BY <3>2, <3>3 DEF Allocation, Decision
  <2> QED
    BY <1>1, <2>1, <2>3, <2>4 DEF Intact, Written
<1>4. CASE SaveLocks(c) \/ SaveSolved(c)
  <2>1. content'[c].answers = content[c].answers
    BY <1>4, SaveLocksWrites, SaveSolvedWrites
  <2>2. job[c] \in HasPicks /\ UNCHANGED picks
    BY <1>4 DEF SaveLocks, SaveSolved, HasPicks
  <2>3. Allocation(content'[c]) = Allocation(content[c])
    BY <2>1 DEF Allocation
  <2> QED
    BY <1>1, <2>2, <2>3 DEF Intact, Written
<1> QED
  BY <1>2, <1>3, <1>4 DEF SolverStep

\* No user writes answers of a copy without making it theirs.
LEMMA UsersKeep ==
  ASSUME TypeOK, Safe, UserStep
  PROVE  /\ edited \subseteq edited' /\ withdrawn \subseteq withdrawn'
         /\ \A c \in Copies : /\ c \in torn => c \in torn'
                              /\ SameRows(c) \/ c \in edited'
<1>1. ASSUME NEW p \in Plans, WritesTo(p)
      PROVE  /\ edited \subseteq edited' /\ withdrawn \subseteq withdrawn'
             /\ \A c \in Copies : /\ c \in torn => c \in torn'
                                  /\ SameRows(c) \/ c \in edited'
  BY <1>1, UserRest, UserWrites DEF OnlyAdds, SameRows, Plans
<1>2. ASSUME NEW u \in patches, SavePatch(u)
      PROVE  /\ edited \subseteq edited' /\ withdrawn \subseteq withdrawn'
             /\ \A c \in Copies : (c \in torn => c \in torn') /\ SameRows(c)
  <2>1. \A c \in Copies : SameRows(c)
    BY <1>2, SavePatchWrites DEF SameRows, Plans
  <2> QED
    BY <1>2, <2>1 DEF SavePatch, WriteLabel
<1>3. ASSUME NEW u \in publications, FinishPublish(u)
      PROVE  /\ edited \subseteq edited' /\ withdrawn \subseteq withdrawn'
             /\ \A c \in Copies : (c \in torn => c \in torn') /\ SameRows(c)
  <2>1. PublicationInv(u) /\ u.plan \in Copies
    BY DEF Safe, TypeOK, Publication
  <2>2. parent[u.plan] \in Meetings
    BY <2>1, ParentKnown DEF PublicationInv, PatchInv, Over, Safe, CopyInv
  <2>3. \A c \in Copies : c # parent[u.plan] /\ c \in Plans
    BY <2>2, DisjointPlans DEF Plans
  <2>4. \A c \in Copies : SameRows(c)
    BY <1>3, <2>2, <2>3, FinishPublishWrites DEF SameRows
  <2> QED
    BY <1>3, <2>3, <2>4 DEF FinishPublish, WriteLabel
<1>4. ASSUME \/ \E p \in Plans : Configure(p)
             \/ \E c \in Copies : Publish(c)
             \/ \E u \in publications : CopyBack(u)
      PROVE  UNCHANGED <<content, edited, withdrawn, torn>>
  BY <1>4 DEF Configure, Publish, Access, CopyBack, database, bounds, history
<1> QED
  BY <1>1, <1>2, <1>3, <1>4 DEF UserStep, WritesTo, SameRows

\* A label that is remembered stays so: the commit of the POST is over, and
\* whatever else takes it off remembers that it was there.
LEMMA LabelsRemembered ==
  ASSUME TypeOK, Safe, [Next]_vars, NEW c \in Copies, request[c] \in Over,
         solved[c] \/ c \in withdrawn
  PROVE  solved'[c] \/ c \in withdrawn'
<1>0. Phases(c) /\ \A d \in Copies : Phases(d)
  BY DEF Safe, CopyInv
<1>1. ASSUME NEW d \in Copies, RequestStep(d) \/ SolverStep(d) \/ \E m \in Meetings : Post(d, m)
      PROVE  solved'[c] \/ c \in withdrawn'
  <2>1. UNCHANGED withdrawn
    BY <1>0, <1>1, Elsewhere
  <2>2. CASE d # c
    BY <1>0, <1>1, <2>1, <2>2, Elsewhere
  <2>3. CASE d = c
    <3>1. ~RequestStep(c)
      BY DEF RequestStep, CopySlots, CopyAnswers, Solve, Commit, Abort, Over
    <3>2. ~ \E m \in Meetings : Post(c, m)
      BY <1>0 DEF Post, Phases, Over
    <3>3. solved[c] => solved'[c]
      BY <1>1, <2>3, <3>1, <3>2
      DEF SolverStep, SolverFinish, SolverFail, SavePicks, SavePicksFail,
          SaveLocks, SaveLocksFail, SaveSolved, TypeOK, database
    <3> QED
      BY <2>1, <3>3
  <2> QED
    BY <2>2, <2>3
<1>2. ASSUME NEW u, SavePatch(u) \/ FinishPublish(u)
      PROVE  solved'[c] \/ c \in withdrawn'
  <2>1. \/ UNCHANGED <<solved, withdrawn>>
        \/ WriteLabel(u.plan, u.solved)
    BY <1>2 DEF SavePatch, FinishPublish
  <2> QED
    BY <2>1 DEF WriteLabel, TypeOK
<1>3. ASSUME \/ \E p \in Plans : AddTimeSlot(p) \/ Configure(p)
             \/ \E p \in Plans, v \in Users : Rank(p, v) \/ Invite(p, v)
             \/ \E d \in Copies : Publish(d)
             \/ \E u \in publications : CopyBack(u)
             \/ Crash \/ UNCHANGED vars
      PROVE  UNCHANGED <<solved, withdrawn>>
  BY <1>3 DEF AddTimeSlot, Configure, Rank, Invite, Edit, Publish, CopyBack, Crash, vars,
              database, bounds, history
<1> QED
  BY <1>1, <1>2, <1>3 DEF Next, UserStep

LEMMA RememberedKept ==
  ASSUME TypeOK, Safe, AllRemembered, [Next]_vars
  PROVE  AllRemembered'
<1>1. ASSUME NEW u \in patches \cup publications
      PROVE  Remembered(u)'
  <2>1. Remembered(u) /\ PatchInv(u)
    BY DEF AllRemembered, Safe, PublicationInv
  <2> QED
    BY <2>1, LabelsRemembered DEF Remembered, PatchInv
<1>2. ASSUME NEW p \in Plans, Configure(p), NEW u \in patches'
      PROVE  Remembered(u)'
  <2>1. PICK config \in Counts :
          patches' = patches \cup {[id |-> edits + 1, plan |-> p,
                                   solved |-> Labelled(p), config |-> config]}
    BY <1>2 DEF Configure
  <2>2. CASE u \in patches
    BY <1>1, <2>2
  <2>3. CASE u \notin patches
    <3>1. u.plan = p /\ u.solved = Labelled(p)
      BY <1>2, <2>1, <2>3
    <3> QED
      BY <1>2, <3>1 DEF Configure, Remembered, Labelled
  <2> QED
    BY <2>2, <2>3
<1>3. ASSUME NEW c \in Copies, Publish(c), NEW u \in publications'
      PROVE  Remembered(u)'
  <2>1. publications' = publications \cup
          {[id |-> edits + 1, plan |-> c, solved |-> solved[c],
            config |-> content[c].config, begun |-> FALSE, slots |-> {},
            answers |-> {}, oldSlots |-> {}, oldAnswers |-> {}]}
    BY <1>3 DEF Publish
  <2>2. CASE u \in publications
    BY <1>1, <2>2
  <2>3. CASE u \notin publications
    <3>1. u.plan = c /\ u.solved = solved[c]
      BY <1>3, <2>1, <2>3
    <3> QED
      BY <1>3, <3>1 DEF Publish, Remembered
  <2> QED
    BY <2>2, <2>3
<1>4. ASSUME NEW v \in publications, CopyBack(v), NEW u \in publications'
      PROVE  Remembered(u)'
  <2>1. publications' = (publications \ {v}) \cup
          {[id |-> v.id, plan |-> v.plan, solved |-> v.solved, config |-> v.config,
            begun |-> TRUE, slots |-> content[v.plan].slots,
            answers |-> content[v.plan].answers,
            oldSlots |-> content[parent[v.plan]].slots,
            oldAnswers |-> content[parent[v.plan]].answers]}
    BY <1>4 DEF CopyBack
  <2>2. CASE u \in publications
    BY <1>1, <2>2
  <2>3. CASE u \notin publications
    <3>1. u.plan = v.plan /\ u.solved = v.solved
      BY <1>4, <2>1, <2>3
    <3> QED
      BY <1>1, <3>1 DEF Remembered
  <2> QED
    BY <2>2, <2>3
<1>5. ASSUME ~ \E p \in Plans : Configure(p)
      PROVE  patches' \subseteq patches
  <2>1. ASSUME NEW c \in Copies, RequestStep(c) \/ SolverStep(c) \/ \E m \in Meetings : Post(c, m)
        PROVE  patches' \subseteq patches
    BY <2>1, Elsewhere DEF Safe, CopyInv
  <2>2. ASSUME NEW p \in Plans, WritesTo(p)
        PROVE  patches' \subseteq patches
    BY <2>2, UserRest
  <2>3. ASSUME \/ \E u \in patches : SavePatch(u)
               \/ \E c \in Copies : Publish(c)
               \/ \E u \in publications : CopyBack(u) \/ FinishPublish(u)
               \/ Crash \/ UNCHANGED vars
        PROVE  patches' \subseteq patches
    BY <2>3 DEF SavePatch, Publish, CopyBack, FinishPublish, Crash, vars, users
  <2> QED
    BY <1>5, <2>1, <2>2, <2>3 DEF Next, UserStep, WritesTo
<1>6. ASSUME ~ \E c \in Copies : Publish(c), ~ \E u \in publications : CopyBack(u)
      PROVE  publications' \subseteq publications
  <2>1. ASSUME NEW c \in Copies, RequestStep(c) \/ SolverStep(c) \/ \E m \in Meetings : Post(c, m)
        PROVE  publications' \subseteq publications
    BY <2>1, Elsewhere DEF Safe, CopyInv
  <2>2. ASSUME NEW p \in Plans, WritesTo(p)
        PROVE  publications' \subseteq publications
    BY <2>2, UserRest
  <2>3. ASSUME \/ \E u \in patches : SavePatch(u)
               \/ \E p \in Plans : Configure(p)
               \/ \E u \in publications : FinishPublish(u)
               \/ Crash \/ UNCHANGED vars
        PROVE  publications' \subseteq publications
    BY <2>3 DEF SavePatch, Configure, FinishPublish, Crash, vars, users
  <2> QED
    BY <1>6, <2>1, <2>2, <2>3 DEF Next, UserStep, WritesTo
<1> QED
  BY <1>1, <1>2, <1>3, <1>4, <1>5, <1>6 DEF AllRemembered

LEMMA CrashIntact ==
  ASSUME AllIntact, Crash
  PROVE  AllIntact'
<1> SUFFICES ASSUME NEW c \in Copies PROVE Intact(c)'
  BY DEF AllIntact
<1>1. UNCHANGED <<content, copied, picks, edited, torn>>
  BY DEF Crash, database, history
<1>2. /\ request'[c] = "copied" => request[c] = "copied"
      /\ job'[c] \in HasPicks => job[c] = "done"
  BY DEF Crash, HasPicks
<1> QED
  BY <1>1, <1>2 DEF AllIntact, Intact, Written, HasPicks

LEMMA DeliveryInductive ==
  /\ Init => DeliveryInv
  /\ DeliveryInv /\ [Next]_vars => DeliveryInv'
<1>1. Init => DeliveryInv
  BY Inductive, InitIntact DEF DeliveryInv, AllIntact, AllRemembered
<1>2. ASSUME DeliveryInv, [Next]_vars
      PROVE  AllIntact' /\ AllRemembered'
  <2>0. TypeOK /\ Safe /\ AllIntact /\ AllRemembered
    BY <1>2 DEF DeliveryInv, IInv, Safe, AllIntact, AllRemembered
  <2>1. ASSUME NEW c \in Copies, RequestStep(c) \/ SolverStep(c) \/ \E m \in Meetings : Post(c, m)
        PROVE  AllIntact'
    <3>1. Intact(c)'
      BY <2>0, <2>1, RequestIntact, SolverIntact DEF AllIntact
    <3>2. ASSUME NEW d \in Copies, d # c PROVE Intact(d)'
      <4>1. Same(d) /\ SameRows(d) /\ UNCHANGED edited /\ (d \in torn => d \in torn')
        BY <2>0, <2>1, <3>2, Elsewhere DEF Safe, CopyInv, SameRows, Plans
      <4> QED
        BY <2>0, <4>1, LeftAlone DEF AllIntact
    <3> QED
      BY <3>1, <3>2 DEF AllIntact
  <2>2. ASSUME UserStep PROVE AllIntact'
    <3>1. ASSUME NEW c \in Copies PROVE Intact(c)'
      <4>1. CASE c \in edited'
        BY <4>1 DEF Intact
      <4>2. CASE c \notin edited'
        BY <2>0, <2>2, <4>2, UsersKeep, UsersSame, LeftAlone DEF AllIntact
      <4> QED
        BY <4>1, <4>2
    <3> QED
      BY <3>1 DEF AllIntact
  <2>3. ASSUME UNCHANGED vars PROVE AllIntact'
    BY <2>0, <2>3 DEF vars, database, server, solver, bounds, history, AllIntact, Intact, Written
  <2>4. AllIntact'
    BY <1>2, <2>0, <2>1, <2>2, <2>3, CrashIntact DEF Next
  <2> QED
    BY <1>2, <2>0, <2>4, RememberedKept
<1> QED
  BY <1>1, <1>2, Inductive DEF DeliveryInv, AllIntact, AllRemembered

THEOREM Intactness == Spec => []DeliveryInv
BY DeliveryInductive, PTL DEF Spec

\* The picked rows of a solved copy that no user has written to, and that does
\* not mix two publications, are exactly what the solver decided, however many
\* copies are solved and published at once.
THEOREM Persisting == Spec => []SolvedIsPersisted
<1>1. ASSUME DeliveryInv, NEW c \in Copies \ (edited \cup torn), solved[c]
      PROVE  Allocation(content[c]) = Decision(picks[c])
  BY <1>1 DEF DeliveryInv, IInv, CopyInv, Phases, Intact, HasPicks, Written
<1>2. DeliveryInv => SolvedIsPersisted
  BY <1>1 DEF SolvedIsPersisted
<1> QED
  BY <1>2, Intactness, PTL

(***************************************************************************)
(* The steps.  What readers see of a copy changes only with what TaskOf    *)
(* and RosterOf mention.                                                   *)
(***************************************************************************)

SameTask(c)   == TaskOf(c)' = TaskOf(c)
SameRoster(c) == RosterOf(c)' = RosterOf(c)

\* Nothing is promised of the copy.
Marked(c) == c \in edited \cup withdrawn \cup torn

LEMMA TaskKept ==
  ASSUME NEW c \in Copies, job'[c] = "none" <=> job[c] = "none",
         job[c] # "none" => problem'[c] = problem[c] /\ copied'[c] = copied[c]
  PROVE  SameTask(c)
BY DEF SameTask, TaskOf

LEMMA RosterKept ==
  ASSUME NEW c \in Copies, Marked(c) => Marked(c)',
         ~Marked(c)' => /\ solved'[c] = solved[c]
                        /\ solved[c] => SameRows(c)
  PROVE  SameRoster(c) \/ RosterOf(c)' = Delivery!Touched
<1>1. CASE Marked(c)'
  BY <1>1 DEF Marked, RosterOf, Delivery!Touched
<1>2. CASE ~Marked(c)' /\ ~solved[c]
  BY <1>2 DEF Marked, RosterOf, SameRoster
<1>3. CASE ~Marked(c)' /\ solved[c]
  <2>1. /\ Allocation(content'[c]) = Allocation(content[c])
        /\ LockedIn(content'[c]) = LockedIn(content[c])
        /\ AllocatedIn(content'[c]) = AllocatedIn(content[c])
    BY <1>3 DEF SameRows, Allocation, LockedIn, AllocatedIn
  <2> QED
    BY <1>3, <2>1 DEF Marked, RosterOf, SameRoster
<1> QED
  BY <1>1, <1>2, <1>3

\* Whatever else a step does, readers see it as a touch, perhaps of no copy.
LEMMA Touching ==
  ASSUME \A c \in Copies : /\ SameTask(c)
                           /\ SameRoster(c) \/ RosterOf(c)' = Delivery!Touched
  PROVE  Delivery!Touch
<1> DEFINE touched == {c \in Copies : RosterOf(c)' = Delivery!Touched}
           rosters == [c \in Copies |-> RosterOf(c)]
<1>1. touched \in SUBSET Copies
  OBVIOUS
<1>2. rosters' = [c \in Copies |-> IF c \in touched THEN Delivery!Touched ELSE rosters[c]]
  BY DEF SameRoster
<1>3. UNCHANGED [c \in Copies |-> TaskOf(c)]
  BY DEF SameTask
<1> QED
  BY <1>1, <1>2, <1>3 DEF Delivery!Touch

\* A step on one copy, as readers of the others see it.
LEMMA ElsewhereUnseen ==
  ASSUME TypeOK, Safe, NEW c \in Copies,
         RequestStep(c) \/ SolverStep(c) \/ \E m \in Meetings : Post(c, m),
         NEW d \in Copies, d # c
  PROVE  SameTask(d) /\ SameRoster(d)
<1>1. /\ content'[d] = content[d] /\ solved'[d] = solved[d] /\ Same(d)
      /\ UNCHANGED <<edited, withdrawn>> /\ (d \in torn' <=> d \in torn)
  BY Elsewhere DEF Safe, CopyInv, Plans
<1>2. SameTask(d)
  BY <1>1, TaskKept DEF Same
<1>3. SameRoster(d)
  BY <1>1 DEF SameRoster, RosterOf
<1> QED
  BY <1>2, <1>3

\* The copying transaction asks the solver for the copy.
LEMMA SolveAsks ==
  ASSUME DeliveryInv, NEW c \in Copies, Solve(c)
  PROVE  Delivery!Ask(c)
<1>0. TypeOK /\ Safe /\ CopyInv(c)
  BY DEF DeliveryInv, IInv, Safe
<1> DEFINE x == [copied[c] EXCEPT !.invitations = content[parent[c]].invitations]
<1>1. /\ request[c] = "reading"
      /\ copied' = [copied EXCEPT ![c] = x]
      /\ problem' = [problem EXCEPT ![c] = ProblemOf(x)]
      /\ job' = [job EXCEPT ![c] = "queued"]
      /\ UNCHANGED <<solved, content, edited, withdrawn, torn>>
  BY DEF Solve, database, bounds, history
<1>2. parent[c] \in Plans /\ job[c] = "none"
  BY <1>0, <1>1, ParentKnown DEF CopyInv, Phases
<1>3. copied[c] \in Content /\ content[parent[c]] \in Content
  BY <1>0, <1>2 DEF TypeOK
<1>4. x \in Content /\ x.answers = copied[c].answers
  BY <1>3 DEF Content
<1>5. Available(x.answers)
  BY <1>0, <1>4 DEF CopyInv, Copied
<1> HIDE DEF x
<1>6. TaskOf(c)' = [asked |-> TRUE, eligible |-> Decision(ProblemOf(x)),
                    invited |-> InvitedIn(x)]
  <2>1. job'[c] = "queued" /\ problem'[c] = ProblemOf(x) /\ copied'[c] = x
    BY <1>0, <1>1 DEF TypeOK
  <2> QED
    BY <2>1 DEF TaskOf
<1>7. TaskOf(c)' \in Delivery!Task
  <2>1. ProblemOf(x) \subseteq Assignment
    BY DEF ProblemOf
  <2>2. Decision(ProblemOf(x)) \subseteq Slots \X Users \X Ranks
    BY <2>1 DEF Decision, Assignment
  <2>3. InvitedIn(x) \subseteq Users
    BY <1>4 DEF InvitedIn, Content, Invitation
  <2> QED
    BY <1>6, <2>2, <2>3 DEF Delivery!Task, Delivery!Choices
<1>8. Delivery!UsersOf(Decision(ProblemOf(x))) \subseteq InvitedIn(x)
  BY <1>4, <1>5, ProblemCovers DEF Delivery!UsersOf, Decision, InvitedIn, Invited
<1>9. SameRoster(c)
  BY <1>1 DEF SameRoster, RosterOf
<1>10. ASSUME NEW d \in Copies
       PROVE  SameRoster(d) /\ (d # c => SameTask(d))
  BY <1>0, <1>9, ElsewhereUnseen DEF RequestStep
<1>11. ~TaskOf(c).asked
  BY <1>2 DEF TaskOf
<1> DEFINE tasks == [d \in Copies |-> TaskOf(d)]
<1>12. tasks[c] = TaskOf(c) /\ tasks'[c] = TaskOf(c)'
  OBVIOUS
<1>13. tasks' = [tasks EXCEPT ![c] = tasks'[c]]
  BY <1>10 DEF SameTask
<1>14. UNCHANGED [d \in Copies |-> RosterOf(d)]
  BY <1>10 DEF SameRoster
<1>15. TaskOf(c)'.asked /\ Delivery!UsersOf(TaskOf(c)'.eligible) \subseteq TaskOf(c)'.invited
  BY <1>6, <1>8
<1> QED
  BY <1>7, <1>11, <1>12, <1>13, <1>14, <1>15 DEF Delivery!Ask

\* Saving the label delivers the roster, unless nothing is promised of it.
LEMMA SaveSolvedDelivers ==
  ASSUME DeliveryInv, NEW c \in Copies, SaveSolved(c), ~Marked(c)
  PROVE  Delivery!Deliver(c)
<1>0. TypeOK /\ Safe /\ CopyInv(c) /\ Intact(c)
  BY DEF DeliveryInv, IInv, Safe
<1>1. /\ job[c] = "locked" /\ ~solved[c] /\ solved'[c] /\ job'[c] = "done"
      /\ UNCHANGED <<copied, problem, picks, edited, withdrawn, torn>>
  BY <1>0 DEF SaveSolved, TypeOK, server, bounds, history, CopyInv, Phases
<1>2. /\ content'[c].answers = content[c].answers
      /\ content'[c].invitations = content[c].invitations
  BY <1>0, SaveSolvedWrites
<1> DEFINE allocation == Decision(picks[c])
           locked == LockedIn(content'[c]) \cap AllocatedIn(content'[c])
<1>3. Allocation(content'[c]) = allocation
  BY <1>0, <1>1, <1>2 DEF Intact, HasPicks, Written, Allocation, Marked
<1>4. RosterOf(c)' = [status |-> "delivered", allocation |-> allocation,
                      locked |-> locked]
  BY <1>1, <1>3 DEF RosterOf, Marked
<1>5. allocation \subseteq Decision(problem[c])
  BY <1>0, <1>1 DEF CopyInv, Phases, HasResult, Decision
<1>6. AllocatedIn(content'[c]) = Delivery!UsersOf(allocation)
  <2>1. ASSUME NEW x PROVE Delivery!UsersOf(Allocation(x)) = AllocatedIn(x)
    <3>1. ASSUME NEW a \in {b \in x.answers : b.picked}
          PROVE  <<a.slot, a.user, a.rank>>[2] = a.user
      OBVIOUS
    <3> QED
      BY <3>1 DEF Delivery!UsersOf, Allocation, AllocatedIn
  <2> QED
    BY <1>3, <2>1
<1>7. Delivery!UsersOf(allocation) \subseteq LockedIn(content'[c])
  BY <1>0, <1>1, <1>2 DEF Delivery!UsersOf, Decision, LockedIn, CopyInv, Decided
<1>8. locked = Delivery!UsersOf(allocation)
  BY <1>6, <1>7
<1>9. TaskOf(c) = [asked |-> TRUE, eligible |-> Decision(problem[c]),
                   invited |-> InvitedIn(copied[c])]
  BY <1>1 DEF TaskOf
<1>10. RosterOf(c) = Delivery!NoRoster
  BY <1>1 DEF RosterOf, Delivery!NoRoster, Marked
<1>11. SameTask(c)
  BY <1>1, TaskKept
<1>12. ASSUME NEW d \in Copies
       PROVE  SameTask(d) /\ (d # c => SameRoster(d))
  BY <1>0, <1>11, ElsewhereUnseen DEF SolverStep
<1> DEFINE tasks == [d \in Copies |-> TaskOf(d)]
           rosters == [d \in Copies |-> RosterOf(d)]
           new == [status |-> "delivered", allocation |-> allocation,
                   locked |-> Delivery!UsersOf(allocation)]
<1>13. rosters' = [rosters EXCEPT ![c] = new]
  BY <1>4, <1>8, <1>12 DEF SameRoster
<1>14. UNCHANGED tasks
  BY <1>12 DEF SameTask
<1>15. tasks[c].asked /\ rosters[c] = Delivery!NoRoster
  BY <1>9, <1>10
<1>16. allocation \in SUBSET tasks[c].eligible
  BY <1>5, <1>9
<1> HIDE DEF allocation
<1> QED
  BY <1>13, <1>14, <1>15, <1>16 DEF Delivery!Deliver

\* The commit of the POST is seen only when it takes the label off: a labelled
\* copy that is not committed yet allocates nobody.
LEMMA CommitWithdraws ==
  ASSUME DeliveryInv, NEW c \in Copies, Commit(c)
  PROVE  Delivery!Withdraw(c) \/ Delivery!Touch
<1>0. TypeOK /\ Safe /\ CopyInv(c) /\ Intact(c)
  BY DEF DeliveryInv, IInv, Safe
<1>1. /\ request[c] = "copied" /\ solved'[c] = (solved[c] /\ c \notin dirty)
      /\ content'[c] = copied[c]
      /\ UNCHANGED <<copied, problem, picks, job, edited, withdrawn, torn>>
  BY <1>0, CopyingWrites DEF Commit, TypeOK, solver, bounds, history
<1>2. SameTask(c)
  BY <1>1, TaskKept
<1>3. ASSUME NEW d \in Copies
      PROVE  SameTask(d) /\ (d # c => SameRoster(d))
  BY <1>0, <1>2, ElsewhereUnseen DEF RequestStep
<1>4. CASE Marked(c) \/ ~solved[c]
  <2>1. SameRoster(c)
    BY <1>1, <1>4 DEF Marked, RosterOf, SameRoster
  <2> QED
    BY <1>3, <2>1, Touching
<1>5. CASE ~Marked(c) /\ solved[c]
  <2>1. job[c] = "done" /\ problem[c] = {} /\ picks[c] = {}
    BY <1>0, <1>1, <1>5 DEF CopyInv, Phases, HasPicks, HasResult
  <2>2. CASE c \in dirty
    <3>1. copied[c].invitations = {}
      BY <1>0, <1>1, <2>1, <2>2 DEF CopyInv, Phases
    <3>2. TaskOf(c).invited = {}
      BY <2>1, <3>1 DEF TaskOf, InvitedIn
    <3>3. RosterOf(c)' = Delivery!NoRoster
      BY <1>1, <1>5, <2>2 DEF Marked, RosterOf, Delivery!NoRoster
    <3>4. RosterOf(c).status = "delivered"
      BY <1>5 DEF Marked, RosterOf
    <3> QED
      BY <1>3, <3>2, <3>3, <3>4 DEF Delivery!Withdraw, SameTask, SameRoster
  <2>3. CASE c \notin dirty
    <3>1. ASSUME NEW x \in Written(c)
          PROVE  Allocation(x) = {} /\ AllocatedIn(x) = {}
      <4>1. Allocation(x) = {}
        BY <1>0, <1>5, <2>1, <3>1 DEF Intact, Marked, HasPicks, Decision
      <4>2. \A a \in x.answers : ~a.picked
        BY <4>1 DEF Allocation
      <4> QED
        BY <4>1, <4>2 DEF AllocatedIn
    <3>2. content[c] \in Written(c) /\ copied[c] \in Written(c)
      BY <1>1 DEF Written
    <3>3. SameRoster(c)
      BY <1>1, <1>5, <2>3, <3>1, <3>2 DEF Marked, RosterOf, SameRoster
    <3> QED
      BY <1>3, <3>3, Touching
  <2> QED
    BY <2>2, <2>3
<1> QED
  BY <1>4, <1>5

\* Everything else that generating does goes unseen, or touches a copy that is
\* read from a meeting published meanwhile.
LEMMA OthersUnseen ==
  ASSUME DeliveryInv, NEW c \in Copies,
         \/ \E m \in Meetings : Post(c, m)
         \/ RequestStep(c) /\ ~Solve(c) /\ ~Commit(c)
         \/ SolverStep(c) /\ (SaveSolved(c) => Marked(c))
  PROVE  Delivery!Touch
<1>0. TypeOK /\ Safe /\ CopyInv(c) /\ c \in Plans
  BY DEF DeliveryInv, IInv, Safe, Plans
<1>1. UNCHANGED <<edited, withdrawn>> /\ (c \in torn => c \in torn')
  BY <1>0, Elsewhere DEF CopyInv
<1>2. Marked(c) => Marked(c)'
  BY <1>1 DEF Marked
<1>3. SameTask(c) /\ (SameRoster(c) \/ RosterOf(c)' = Delivery!Touched)
  <2>1. ASSUME (\E m \in Meetings : Post(c, m)) \/ CopySlots(c) \/ CopyAnswers(c)
        PROVE  SameTask(c) /\ ~solved[c] /\ solved'[c] = solved[c]
    <3>1. job[c] = "none" /\ job'[c] = "none" /\ ~solved[c]
      BY <1>0, <2>1 DEF Post, CopySlots, CopyAnswers, solver, CopyInv, Phases
    <3>2. solved'[c] \in {solved[c], FALSE}
      BY <1>0, <2>1 DEF Post, CopySlots, CopyAnswers, database, TypeOK
    <3>3. solved[c] = FALSE
      BY <1>0, <3>1 DEF TypeOK
    <3> QED
      BY <3>1, <3>2, <3>3, TaskKept
  <2>2. ASSUME Abort(c) \/ SolverFinish(c) \/ SolverFail(c) \/ SavePicksFail(c) \/ SaveLocksFail(c)
        PROVE  SameTask(c) /\ solved'[c] = solved[c] /\ SameRows(c)
    <3>1. UNCHANGED <<solved, content, problem, copied>>
      BY <2>2 DEF Abort, SolverFinish, SolverFail, SavePicksFail, SaveLocksFail,
                  database, server, solver
    <3>2. job'[c] = "none" <=> job[c] = "none"
      BY <1>0, <2>2 DEF Abort, SolverFinish, SolverFail, SavePicksFail, SaveLocksFail,
                        TypeOK, solver
    <3> QED
      BY <3>1, <3>2, TaskKept DEF SameRows
  <2>3. ASSUME SavePicks(c) \/ SaveLocks(c)
        PROVE  SameTask(c) /\ ~solved[c] /\ solved'[c] = solved[c]
    <3>1. /\ UNCHANGED <<solved, problem, copied>> /\ job[c] \in {"found", "picked"}
          /\ job'[c] # "none"
      BY <1>0, <2>3 DEF SavePicks, SaveLocks, server, TypeOK
    <3>2. ~solved[c]
      BY <1>0, <3>1 DEF CopyInv, Phases
    <3> QED
      BY <3>1, <3>2, TaskKept
  <2>4. ASSUME SaveSolved(c), Marked(c)
        PROVE  SameTask(c)
    <3>1. UNCHANGED <<problem, copied>> /\ job[c] = "locked" /\ job'[c] = "done"
      BY <1>0, <2>4 DEF SaveSolved, server, TypeOK
    <3> QED
      BY <3>1, TaskKept
  <2>5. SameTask(c)
    BY <2>1, <2>2, <2>3, <2>4 DEF RequestStep, SolverStep
  <2>6. ~Marked(c)' => /\ solved'[c] = solved[c]
                       /\ solved[c] => SameRows(c)
    BY <1>2, <2>1, <2>2, <2>3 DEF RequestStep, SolverStep
  <2> QED
    BY <1>2, <2>5, <2>6, RosterKept
<1>4. ASSUME NEW d \in Copies, d # c PROVE SameTask(d) /\ SameRoster(d)
  BY <1>0, <1>4, ElsewhereUnseen
<1> QED
  BY <1>3, <1>4, Touching

\* A label that a row in memory brings back had been written over.
LEMMA NoLabelAppears ==
  ASSUME DeliveryInv, UserStep, NEW c \in Copies, ~Marked(c)'
  PROVE  solved'[c] = solved[c]
<1>0. TypeOK /\ Safe /\ AllRemembered
  BY DEF DeliveryInv, IInv, Safe, AllRemembered
<1>1. ASSUME NEW u \in patches \cup publications, WriteLabel(u.plan, u.solved),
             u.solved \in BOOLEAN, u.plan \in Copies
      PROVE  solved'[c] = solved[c]
  <2>1. Remembered(u)
    BY <1>0 DEF AllRemembered
  <2>2. c # u.plan => solved'[c] = solved[c]
    BY <1>0, <1>1 DEF WriteLabel, TypeOK
  <2>3. c = u.plan => solved'[c] = u.solved
    BY <1>0, <1>1 DEF WriteLabel, TypeOK
  <2>4. c = u.plan /\ solved[c] => u.solved
    BY <1>0, <1>1 DEF WriteLabel, Marked, TypeOK
  <2>5. c = u.plan /\ u.solved => solved[c]
    BY <1>1, <2>1 DEF Remembered, WriteLabel, Marked
  <2>6. solved[c] \in BOOLEAN
    BY <1>0 DEF TypeOK
  <2> QED
    BY <1>1, <2>2, <2>3, <2>4, <2>5, <2>6
<1>2. ASSUME NEW u \in patches, SavePatch(u) PROVE solved'[c] = solved[c]
  <2>1. u.solved \in BOOLEAN
    BY <1>0 DEF TypeOK, Patch
  <2> QED
    BY <1>1, <1>2, <2>1 DEF SavePatch
<1>3. ASSUME NEW u \in publications, FinishPublish(u) PROVE solved'[c] = solved[c]
  <2>1. u.solved \in BOOLEAN /\ u.plan \in Copies
    BY <1>0 DEF TypeOK, Publication
  <2> QED
    BY <1>1, <1>3, <2>1 DEF FinishPublish
<1>4. ASSUME \/ \E p \in Plans : AddTimeSlot(p) \/ Configure(p)
             \/ \E p \in Plans, v \in Users : Rank(p, v) \/ Invite(p, v)
             \/ \E d \in Copies : Publish(d)
             \/ \E u \in publications : CopyBack(u)
      PROVE  UNCHANGED solved
  BY <1>4 DEF AddTimeSlot, Configure, Rank, Invite, Edit, Publish, CopyBack, database
<1> QED
  BY <1>2, <1>3, <1>4 DEF UserStep

\* A user who writes to a copy makes it theirs, and so does one who writes over
\* its label; a publication touches the copies being made of its meeting.
LEMMA UsersTouch ==
  ASSUME DeliveryInv, UserStep
  PROVE  Delivery!Touch
<1>0. TypeOK /\ Safe
  BY DEF DeliveryInv, IInv, Safe
<1>1. ASSUME NEW c \in Copies
      PROVE  /\ SameTask(c)
             /\ SameRoster(c) \/ RosterOf(c)' = Delivery!Touched
  <2>1. SameTask(c)
    BY UsersSame, TaskKept DEF Same
  <2>2. Marked(c) => Marked(c)'
    BY <1>0, UsersKeep DEF Marked
  <2>3. ~Marked(c)' => solved'[c] = solved[c] /\ SameRows(c)
    BY <1>0, UsersKeep, NoLabelAppears DEF Marked
  <2> QED
    BY <2>1, <2>2, <2>3, RosterKept
<1> QED
  BY <1>1, Touching

LEMMA CrashUnseen ==
  ASSUME Crash
  PROVE  Delivery!Touch
<1>1. UNCHANGED <<solved, content, problem, copied, edited, withdrawn, torn>>
  BY DEF Crash, database, history
<1>2. ASSUME NEW c \in Copies PROVE SameTask(c) /\ SameRoster(c)
  <2>1. job'[c] = "none" <=> job[c] = "none"
    BY DEF Crash
  <2>2. SameTask(c)
    BY <1>1, <2>1, TaskKept
  <2> QED
    BY <1>1, <2>2 DEF SameRoster, RosterOf
<1> QED
  BY <1>2, Touching

LEMMA StartsEmpty == Init => Delivery!Init
BY DEF Init, Delivery!Init, Delivery!NoTask, Delivery!NoRoster, TaskOf, RosterOf

LEMMA StepsDeliver ==
  ASSUME DeliveryInv, [Next]_vars
  PROVE  [Delivery!Next]_(Delivery!vars)
<1>1. CASE UNCHANGED vars
  BY <1>1 DEF vars, database, server, solver, bounds, history, Delivery!vars, TaskOf, RosterOf
<1>2. ASSUME NEW c \in Copies, RequestStep(c)
      PROVE  Delivery!Next
  BY <1>2, SolveAsks, CommitWithdraws, OthersUnseen DEF Delivery!Next
<1>3. ASSUME NEW c \in Copies, SolverStep(c)
      PROVE  Delivery!Next
  BY <1>3, SaveSolvedDelivers, OthersUnseen DEF Delivery!Next
<1>4. ASSUME NEW c \in Copies, NEW m \in Meetings, Post(c, m)
      PROVE  Delivery!Next
  BY <1>4, OthersUnseen DEF Delivery!Next
<1>5. ASSUME UserStep \/ Crash
      PROVE  Delivery!Next
  BY <1>5, UsersTouch, CrashUnseen DEF Delivery!Next
<1> QED
  BY <1>1, <1>2, <1>3, <1>4, <1>5 DEF Next

\* Generating a roster, three transactions on a thread of its own with the
\* POST, users, other copies and crashes in between, implements the promise
\* that a roster appears in one piece and stays until somebody writes to it,
\* or over its label with a row loaded before.
THEOREM Delivering == Spec => DeliversAtOnce
<1>1. Spec => [][Delivery!Next]_(Delivery!vars)
  BY StepsDeliver, Intactness, PTL DEF Spec
<1>2. Spec => Delivery!Init
  BY StartsEmpty DEF Spec
<1> QED
  BY <1>1, <1>2, PTL DEF DeliversAtOnce, Delivery!Spec
=============================================================================
