------------------------ MODULE RosterPipeline_proofs ------------------------
(***************************************************************************)
(* Proofs about RosterPipeline, for every value of its constants.          *)
(***************************************************************************)
EXTENDS RosterPipeline, TLAPS

(***************************************************************************)
(* Contents, and writing one field of one plan's content.                  *)
(***************************************************************************)

LEMMA EmptyType ==
  ASSUME NEW config \in Counts
  PROVE  Empty(config) \in Content
BY DEF Empty, Content

LEMMA NoContentType == NoContent \in Content /\ NoContent.answers = {}
<1>1. (CHOOSE config \in Counts : TRUE) \in Counts
  BY SomeCount
<1> QED
  BY <1>1, EmptyType DEF NoContent, Empty

LEMMA WriteAnswers ==
  ASSUME content \in [Plans -> Content], NEW p \in Plans, NEW A \in SUBSET Answer,
         content' = [content EXCEPT ![p].answers = A]
  PROVE  /\ content' \in [Plans -> Content]
         /\ \A q \in Plans : q # p => content'[q] = content[q]
         /\ content'[p].answers = A
         /\ content'[p].slots = content[p].slots
         /\ content'[p].invitations = content[p].invitations
         /\ content'[p].config = content[p].config
BY DEF Content

LEMMA WriteInvitations ==
  ASSUME content \in [Plans -> Content], NEW p \in Plans, NEW I \in SUBSET Invitation,
         content' = [content EXCEPT ![p].invitations = I]
  PROVE  /\ content' \in [Plans -> Content]
         /\ \A q \in Plans : q # p => content'[q] = content[q]
         /\ content'[p].answers = content[p].answers
         /\ content'[p].slots = content[p].slots
         /\ content'[p].invitations = I
         /\ content'[p].config = content[p].config
BY DEF Content

LEMMA WriteConfig ==
  ASSUME content \in [Plans -> Content], NEW p \in Plans, NEW g \in Counts,
         content' = [content EXCEPT ![p].config = g]
  PROVE  /\ content' \in [Plans -> Content]
         /\ \A q \in Plans : q # p => content'[q] = content[q]
         /\ content'[p].answers = content[p].answers
         /\ content'[p].slots = content[p].slots
         /\ content'[p].invitations = content[p].invitations
         /\ content'[p].config = g
BY DEF Content

LEMMA WriteSlots ==
  ASSUME content \in [Plans -> Content], NEW p \in Plans, NEW S \in SUBSET Slots,
         content' = [content EXCEPT ![p].slots = S]
  PROVE  /\ content' \in [Plans -> Content]
         /\ \A q \in Plans : q # p => content'[q] = content[q]
         /\ content'[p].answers = content[p].answers
         /\ content'[p].slots = S
         /\ content'[p].invitations = content[p].invitations
         /\ content'[p].config = content[p].config
BY DEF Content

(***************************************************************************)
(* What users do to the plan they write to: they add rows, and replace     *)
(* answers by ones that are not picked.                                    *)
(***************************************************************************)

WritesTo(p) == AddTimeSlot(p) \/ \E u \in Users : Rank(p, u) \/ Invite(p, u)

OnlyAdds(p) ==
  /\ content' \in [Plans -> Content]
  /\ \A q \in Plans : q # p => content'[q] = content[q]
  /\ \A a \in content'[p].answers : a.picked => a \in content[p].answers
  /\ content[p].invitations \subseteq content'[p].invitations

LEMMA UserWrites ==
  ASSUME TypeOK, NEW p \in Plans, WritesTo(p)
  PROVE  OnlyAdds(p)
<1>0. content \in [Plans -> Content] /\ content[p] \in Content
  BY DEF TypeOK
<1>1. CASE AddTimeSlot(p)
  <2>1. PICK s \in Slots \ content[p].slots :
          content' = [content EXCEPT ![p].slots = content[p].slots \cup {s}]
    BY <1>1 DEF AddTimeSlot
  <2>2. content[p].slots \cup {s} \in SUBSET Slots
    BY <1>0 DEF Content
  <2> QED
    BY <1>0, <2>1, <2>2, WriteSlots DEF OnlyAdds
<1>2. ASSUME NEW u \in Users, Rank(p, u)
      PROVE  OnlyAdds(p)
  <2>1. PICK s \in content[p].slots, r \in Ranks, yes \in BOOLEAN :
          content' = [content EXCEPT ![p].answers =
            {a \in content[p].answers : ~(a.slot = s /\ a.user = u)} \cup
            {[slot |-> s, user |-> u, rank |-> r, available |-> yes, picked |-> FALSE]}]
    BY <1>2 DEF Rank
  <2> DEFINE new == [slot |-> s, user |-> u, rank |-> r, available |-> yes,
                     picked |-> FALSE]
             A == {a \in content[p].answers : ~(a.slot = s /\ a.user = u)} \cup {new}
  <2>2. content[p].answers \subseteq Answer /\ s \in Slots
    BY <1>0 DEF Content
  <2>3. new \in Answer
    BY <1>2, <2>1, <2>2 DEF Answer
  <2>4. A \in SUBSET Answer
    BY <2>2, <2>3
  <2>5. \A a \in A : a.picked => a \in content[p].answers
    OBVIOUS
  <2> HIDE DEF A
  <2>6. content' = [content EXCEPT ![p].answers = A]
    BY <2>1 DEF A
  <2> QED
    BY <1>0, <2>4, <2>5, <2>6, WriteAnswers DEF OnlyAdds
<1>3. ASSUME NEW u \in Users, Invite(p, u)
      PROVE  OnlyAdds(p)
  <2>1. PICK r \in Rows, locked \in BOOLEAN :
          content' = [content EXCEPT ![p].invitations = content[p].invitations \cup
                        {[row |-> r, user |-> u, locked |-> locked]}]
    BY <1>3 DEF Invite
  <2> DEFINE I == content[p].invitations \cup
                    {[row |-> r, user |-> u, locked |-> locked]}
  <2>2. I \in SUBSET Invitation
    BY <1>0, <1>3 DEF Content, Invitation
  <2>3. content[p].invitations \subseteq I
    OBVIOUS
  <2> HIDE DEF I
  <2>4. content' = [content EXCEPT ![p].invitations = I]
    BY <2>1 DEF I
  <2> QED
    BY <1>0, <2>2, <2>3, <2>4, WriteInvitations DEF OnlyAdds
<1> QED
  BY <1>1, <1>2, <1>3 DEF WritesTo

\* Everything else such a request leaves alone.
LEMMA UserRest ==
  ASSUME NEW p \in Plans, WritesTo(p)
  PROVE  /\ Open(p) /\ edits' = edits + 1 /\ edited' = edited \cup ({p} \cap Copies)
         /\ UNCHANGED <<parent, solved, request, copied, unread, dirty, patches,
                        publications, job, problem, picks, blank, withdrawn, torn,
                        crashes>>
BY DEF WritesTo, AddTimeSlot, Rank, Invite, Edit, Access, server, users, solver

(***************************************************************************)
(* What the solver's thread writes to the copy it works on.                *)
(***************************************************************************)

SavedAnswers(c) ==
  {a \in content[c].answers : \A b \in problem[c] : ~SameKey(a, b)} \cup
  {[slot |-> b.slot, user |-> b.user, rank |-> b.rank,
    available |-> TRUE, picked |-> b \in picks[c]] : b \in problem[c]}

LEMMA SavePicksWrites ==
  ASSUME TypeOK, NEW c \in Copies, SavePicks(c)
  PROVE  /\ content' \in [Plans -> Content]
         /\ \A q \in Plans : q # c => content'[q] = content[q]
         /\ content'[c].answers = SavedAnswers(c)
         /\ content'[c].invitations = content[c].invitations
<1>1. content \in [Plans -> Content] /\ c \in Plans /\ content[c] \in Content
  BY DEF TypeOK, Plans
<1>2. SavedAnswers(c) \in SUBSET Answer
  <2>1. content[c].answers \subseteq Answer /\ problem[c] \subseteq Assignment
    BY <1>1 DEF TypeOK, Content
  <2>2. ASSUME NEW b \in Assignment, NEW yes \in BOOLEAN
        PROVE  [slot |-> b.slot, user |-> b.user, rank |-> b.rank,
                available |-> TRUE, picked |-> yes] \in Answer
    BY DEF Assignment, Answer
  <2>3. \A b : (b \in picks[c]) \in BOOLEAN
    OBVIOUS
  <2> QED
    BY <2>1, <2>2, <2>3 DEF SavedAnswers
<1>3. content' = [content EXCEPT ![c].answers = SavedAnswers(c)]
  BY DEF SavePicks, SavedAnswers
<1> QED
  BY <1>1, <1>2, <1>3, WriteAnswers

LEMMA SaveLocksWrites ==
  ASSUME TypeOK, NEW c \in Copies, SaveLocks(c)
  PROVE  /\ content' \in [Plans -> Content]
         /\ \A q \in Plans : q # c => content'[q] = content[q]
         /\ content'[c].answers = content[c].answers
         /\ content'[c].invitations =
              {[i EXCEPT !.locked = i.locked \/ i.user \in PickedUsers(c)] :
                 i \in content[c].invitations}
<1>1. content \in [Plans -> Content] /\ c \in Plans /\ content[c] \in Content
  BY DEF TypeOK, Plans
<1> DEFINE I == {[i EXCEPT !.locked = i.locked \/ i.user \in PickedUsers(c)] :
                   i \in content[c].invitations}
<1>2. I \in SUBSET Invitation
  <2>1. ASSUME NEW i \in Invitation
        PROVE  [i EXCEPT !.locked = i.locked \/ i.user \in PickedUsers(c)] \in Invitation
    BY DEF Invitation
  <2>2. content[c].invitations \subseteq Invitation
    BY <1>1 DEF Content
  <2> QED
    BY <2>1, <2>2
<1>3. content' = [content EXCEPT ![c].invitations = I]
  BY DEF SaveLocks
<1> HIDE DEF I
<1>4. /\ content' \in [Plans -> Content]
      /\ \A q \in Plans : q # c => content'[q] = content[q]
      /\ content'[c].answers = content[c].answers
      /\ content'[c].invitations = I
  BY <1>1, <1>2, <1>3, WriteInvitations
<1> QED
  BY <1>4 DEF I

LEMMA SaveSolvedWrites ==
  ASSUME TypeOK, NEW c \in Copies, SaveSolved(c)
  PROVE  /\ content' \in [Plans -> Content]
         /\ \A q \in Plans : q # c => content'[q] = content[q]
         /\ content'[c].answers = content[c].answers
         /\ content'[c].invitations = content[c].invitations
<1>1. content \in [Plans -> Content] /\ c \in Plans /\ copied[c].config \in Counts
  BY DEF TypeOK, Plans, Content
<1>2. content' = [content EXCEPT ![c].config = copied[c].config]
  BY DEF SaveSolved
<1> QED
  BY <1>1, <1>2, WriteConfig

LEMMA CopyingWrites ==
  ASSUME TypeOK, NEW c \in Copies
  PROVE  /\ \A m \in Meetings : Post(c, m) =>
              /\ content' \in [Plans -> Content]
              /\ \A q \in Plans : q # c => content'[q] = content[q]
              /\ content'[c].answers = {}
              /\ copied' = [copied EXCEPT ![c] = copied'[c]]
              /\ copied'[c] \in Content /\ copied'[c].answers = {}
              /\ dirty' \in SUBSET Copies
              /\ \A d \in Copies : d # c => (d \in dirty' <=> d \in dirty)
         /\ Commit(c) =>
              /\ content' \in [Plans -> Content]
              /\ \A q \in Plans : q # c => content'[q] = content[q]
              /\ content'[c] = copied[c]
<1>1. content \in [Plans -> Content] /\ c \in Plans /\ copied[c] \in Content
  BY DEF TypeOK, Plans
<1>2. ASSUME NEW m \in Meetings, Post(c, m)
      PROVE  /\ content' \in [Plans -> Content]
             /\ \A q \in Plans : q # c => content'[q] = content[q]
             /\ content'[c].answers = {}
             /\ copied' = [copied EXCEPT ![c] = copied'[c]]
             /\ copied'[c] \in Content /\ copied'[c].answers = {}
             /\ dirty' \in SUBSET Copies
             /\ \A d \in Copies : d # c => (d \in dirty' <=> d \in dirty)
  <2>1. PICK config \in Counts :
          /\ content' = [content EXCEPT ![c] = Empty(config)]
          /\ dirty' = IF config = content[m].config THEN dirty ELSE dirty \cup {c}
    BY <1>2 DEF Post
  <2>2. content[m].config \in Counts
    BY <1>1, <1>2 DEF Content, Plans
  <2>3. /\ Empty(config) \in Content /\ Empty(config).answers = {}
        /\ Empty(content[m].config) \in Content /\ Empty(content[m].config).answers = {}
    BY <2>2, EmptyType DEF Empty
  <2>4. copied' = [copied EXCEPT ![c] = Empty(content[m].config)]
    BY <1>2 DEF Post
  <2>5. copied \in [Copies -> Content] /\ dirty \in SUBSET Copies
    BY DEF TypeOK
  <2>6. copied'[c] = Empty(content[m].config)
    BY <2>4, <2>5
  <2>7. dirty' \in SUBSET Copies /\ \A d \in Copies : d # c => (d \in dirty' <=> d \in dirty)
    BY <2>1, <2>5
  <2>8. /\ content' \in [Plans -> Content]
        /\ \A q \in Plans : q # c => content'[q] = content[q]
        /\ content'[c] = Empty(config)
    BY <1>1, <2>1, <2>3
  <2> QED
    BY <2>3, <2>4, <2>6, <2>7, <2>8
<1> QED
  BY <1>1, <1>2 DEF Commit

(***************************************************************************)
(* What a PATCH and a publication write.                                   *)
(***************************************************************************)

LEMMA SavePatchWrites ==
  ASSUME TypeOK, NEW u \in patches, SavePatch(u)
  PROVE  /\ u.plan \in Plans /\ u.config \in Counts /\ u.solved \in BOOLEAN
         /\ content' \in [Plans -> Content]
         /\ \A q \in Plans : /\ content'[q].answers = content[q].answers
                             /\ content'[q].invitations = content[q].invitations
<1>1. u \in Patch /\ content \in [Plans -> Content]
  BY DEF TypeOK
<1>2. u.plan \in Plans /\ u.config \in Counts /\ u.solved \in BOOLEAN
  BY <1>1 DEF Patch
<1>3. content' = [content EXCEPT ![u.plan].config = u.config]
  BY DEF SavePatch
<1> QED
  BY <1>1, <1>2, <1>3, WriteConfig

LEMMA FinishPublishWrites ==
  ASSUME TypeOK, NEW u \in publications, parent[u.plan] \in Meetings, FinishPublish(u)
  PROVE  /\ u.plan \in Copies /\ u.plan \in Plans /\ u.solved \in BOOLEAN
         /\ parent[u.plan] # u.plan /\ parent[u.plan] \in Plans
         /\ content' \in [Plans -> Content]
         /\ \A q \in Plans : q # parent[u.plan] =>
              /\ content'[q].answers = content[q].answers
              /\ content'[q].invitations = content[q].invitations
         /\ content'[parent[u.plan]].answers = u.answers \cup Kept(u)
         /\ content'[parent[u.plan]].invitations = content[u.plan].invitations
<1> DEFINE m == parent[u.plan]
           new == [slots |-> u.slots \cup (content[m].slots \ u.oldSlots),
                   answers |-> u.answers \cup Kept(u),
                   invitations |-> content[u.plan].invitations,
                   config |-> u.config]
           mid == [content EXCEPT ![m] = new]
<1>1. u \in Publication /\ content \in [Plans -> Content]
  BY DEF TypeOK
<1>2. /\ u.plan \in Copies /\ u.plan \in Plans /\ u.solved \in BOOLEAN /\ u.config \in Counts
      /\ u.slots \in SUBSET Slots /\ u.answers \in SUBSET Answer
  BY <1>1 DEF Publication, Plans
<1>3. m \in Plans /\ m # u.plan
  BY <1>2, DisjointPlans DEF Plans
<1>4. /\ content[m].slots \in SUBSET Slots /\ content[m].answers \in SUBSET Answer
      /\ content[u.plan].invitations \in SUBSET Invitation
  BY <1>1, <1>2, <1>3 DEF Content
<1>5. Kept(u) \in SUBSET Answer
  BY <1>4 DEF Kept
<1>6. new \in Content
  BY <1>2, <1>4, <1>5 DEF Content
<1>7. content' = [mid EXCEPT ![u.plan].config = u.config]
  BY DEF FinishPublish
<1>8. new.answers = u.answers \cup Kept(u) /\ new.invitations = content[u.plan].invitations
  OBVIOUS
<1> HIDE DEF new
<1>9. mid \in [Plans -> Content] /\ mid[m] = new /\ \A q \in Plans : q # m => mid[q] = content[q]
  BY <1>1, <1>3, <1>6
<1> HIDE DEF mid
<1>10. /\ content' \in [Plans -> Content]
       /\ \A q \in Plans : q # u.plan => content'[q] = mid[q]
       /\ content'[u.plan].answers = mid[u.plan].answers
       /\ content'[u.plan].invitations = mid[u.plan].invitations
  BY <1>2, <1>7, <1>9 DEF Content
<1> QED
  BY <1>2, <1>3, <1>8, <1>9, <1>10

(***************************************************************************)
(* Type correctness.                                                       *)
(***************************************************************************)

LEMMA InitType == Init => TypeOK
<1> SUFFICES ASSUME Init PROVE TypeOK
  OBVIOUS
<1>1. SetUps \subseteq Content
  BY DEF SetUps, Content
<1>2. content \in [Plans -> Content]
  BY <1>1, NoContentType DEF Init, Plans
<1> QED
  BY <1>2, NoContentType DEF Init, TypeOK, RequestStates, JobStates

\* The meeting of a copy whose POST has begun.
LEMMA ParentKnown ==
  ASSUME TypeOK, NEW c \in Copies, Phases(c), request[c] # "none"
  PROVE  parent[c] \in Meetings /\ parent[c] \in Plans /\ parent[c] # c
BY DisjointPlans DEF TypeOK, Phases, Plans

\* deepCopy takes rows of the meeting, and the solver gets those it copied.
LEMMA RequestType ==
  ASSUME TypeOK, NEW c \in Copies, Phases(c),
         RequestStep(c) \/ \E m \in Meetings : Post(c, m)
  PROVE  TypeOK'
<1>0. copied \in [Copies -> Content] /\ copied[c] \in Content
  BY DEF TypeOK
<1>1. ASSUME NEW m \in Meetings, Post(c, m)
      PROVE  TypeOK'
  <2>1. /\ content' \in [Plans -> Content]
        /\ copied' \in [Copies -> Content]
        /\ dirty' \in SUBSET Copies
    BY <1>0, <1>1, CopyingWrites
  <2> QED
    BY <1>1, <2>1 DEF Post, TypeOK, RequestStates, users, solver, bounds, history
<1>2. CASE CopySlots(c)
  <2>1. request[c] = "posted"
    BY <1>2 DEF CopySlots
  <2>2. parent[c] \in Plans /\ content[parent[c]] \in Content
    BY <2>1, ParentKnown DEF TypeOK
  <2>3. content[parent[c]].slots \in SUBSET Slots
    BY <2>2 DEF Content
  <2> DEFINE S == content[parent[c]].slots
  <2>4. copied' = [copied EXCEPT ![c].slots = S] /\ unread' = [unread EXCEPT ![c] = S]
    BY <1>2 DEF CopySlots
  <2> HIDE DEF S
  <2>5. copied' \in [Copies -> Content] /\ unread' \in [Copies -> SUBSET Slots]
    BY <1>0, <2>3, <2>4 DEF Content, TypeOK, S
  <2>6. torn' \in SUBSET Plans
    BY <1>2 DEF CopySlots, TypeOK, Plans
  <2> QED
    BY <1>2, <2>5, <2>6 DEF CopySlots, TypeOK, RequestStates, database, users, solver
<1>3. CASE CopyAnswers(c)
  <2>1. PICK s \in unread[c] :
          /\ copied' = [copied EXCEPT ![c].answers =
               copied[c].answers \cup {a \in content[parent[c]].answers : a.slot = s}]
          /\ unread' = [unread EXCEPT ![c] = unread[c] \ {s}]
    BY <1>3 DEF CopyAnswers
  <2>2. request[c] = "reading"
    BY <1>3 DEF CopyAnswers
  <2>3. parent[c] \in Plans /\ content[parent[c]] \in Content
    BY <2>2, ParentKnown DEF TypeOK
  <2> DEFINE A == copied[c].answers \cup {a \in content[parent[c]].answers : a.slot = s}
  <2>4. A \in SUBSET Answer
    BY <1>0, <2>3 DEF Content
  <2>5. copied' = [copied EXCEPT ![c].answers = A]
    BY <2>1
  <2> HIDE DEF A
  <2>6. copied' \in [Copies -> Content]
    BY <1>0, <2>4, <2>5 DEF Content
  <2>7. unread' \in [Copies -> SUBSET Slots]
    BY <2>1 DEF TypeOK
  <2> QED
    BY <1>3, <2>6, <2>7 DEF CopyAnswers, TypeOK, database, users, solver, bounds, history
<1>4. CASE Solve(c)
  <2> DEFINE I == content[parent[c]].invitations
             x == [copied[c] EXCEPT !.invitations = I]
  <2>1. request[c] = "reading"
    BY <1>4 DEF Solve
  <2>2. parent[c] \in Plans /\ content[parent[c]] \in Content
    BY <2>1, ParentKnown DEF TypeOK
  <2>3. I \in SUBSET Invitation
    BY <2>2 DEF Content
  <2>4. x \in Content
    BY <1>0, <2>3 DEF Content
  <2>5. ProblemOf(x) \in SUBSET Assignment
    BY DEF ProblemOf
  <2>6. copied' = [copied EXCEPT ![c] = x] /\ problem' = [problem EXCEPT ![c] = ProblemOf(x)]
    BY <1>4 DEF Solve
  <2> HIDE DEF x
  <2> QED
    BY <1>4, <2>4, <2>5, <2>6
    DEF Solve, TypeOK, RequestStates, JobStates, database, users, bounds, history
<1>5. CASE Commit(c)
  <2>1. content' \in [Plans -> Content]
    BY <1>5, CopyingWrites
  <2>2. solved' \in [Copies -> BOOLEAN]
    BY <1>5 DEF Commit, TypeOK
  <2> QED
    BY <1>5, <2>1, <2>2 DEF Commit, TypeOK, RequestStates, users, solver, bounds, history
<1>6. CASE Abort(c)
  BY <1>6 DEF Abort, TypeOK, RequestStates, database, users, solver, bounds, history
<1> QED
  BY <1>1, <1>2, <1>3, <1>4, <1>5, <1>6 DEF RequestStep

LEMMA SolverType ==
  ASSUME TypeOK, NEW c \in Copies, SolverStep(c)
  PROVE  TypeOK'
<1>1. CASE SolverFinish(c)
  <2>1. PICK chosen \in SUBSET problem[c] :
          /\ picks' = [picks EXCEPT ![c] = chosen]
          /\ \/ UNCHANGED blank
             \/ blank' = [blank EXCEPT ![c] = TRUE]
    BY <1>1 DEF SolverFinish
  <2>2. chosen \in SUBSET Assignment
    BY DEF TypeOK
  <2> QED
    BY <1>1, <2>1, <2>2
    DEF SolverFinish, TypeOK, JobStates, database, server, users, bounds, history
<1>2. CASE SolverFail(c) \/ SavePicksFail(c) \/ SaveLocksFail(c)
  BY <1>2 DEF SolverFail, SavePicksFail, SaveLocksFail, TypeOK, JobStates,
              database, server, users, bounds, history
<1>3. CASE SavePicks(c)
  BY <1>3, SavePicksWrites DEF SavePicks, TypeOK, JobStates, server, users, bounds, history
<1>4. CASE SaveLocks(c)
  BY <1>4, SaveLocksWrites DEF SaveLocks, TypeOK, JobStates, server, users, bounds, history
<1>5. CASE SaveSolved(c)
  BY <1>5, SaveSolvedWrites
  DEF SaveSolved, TypeOK, JobStates, server, users, bounds, history
<1> QED
  BY <1>1, <1>2, <1>3, <1>4, <1>5 DEF SolverStep

\* A request's row in memory is one of the bounded number of requests.
LEMMA PatchType ==
  ASSUME TypeOK, NEW p \in Plans, Access(p)
  PROVE  /\ edits + 1 \in 1..MaxEdits /\ edits' \in Nat
         /\ Open(p)
         /\ UNCHANGED <<parent, request, copied, unread, dirty, job, problem, picks,
                        blank, torn, crashes>>
BY BoundsAreNat DEF Access, TypeOK, server, solver

LEMMA UserType ==
  ASSUME TypeOK, \A c \in Copies : Phases(c),
         \A u \in patches \cup publications : PatchInv(u), UserStep
  PROVE  TypeOK'
<1>1. ASSUME NEW p \in Plans, WritesTo(p)
      PROVE  TypeOK'
  BY <1>1, UserWrites, UserRest DEF OnlyAdds, TypeOK
<1>2. ASSUME NEW p \in Plans, Configure(p)
      PROVE  TypeOK'
  <2>1. PICK config \in Counts :
          patches' = patches \cup {[id |-> edits + 1, plan |-> p,
                                   solved |-> Labelled(p), config |-> config]}
    BY <1>2 DEF Configure
  <2>2. Labelled(p) \in BOOLEAN
    BY DEF Labelled, TypeOK
  <2>3. Access(p) /\ UNCHANGED <<solved, content, publications, edited, withdrawn>>
    BY <1>2 DEF Configure
  <2>4. [id |-> edits + 1, plan |-> p, solved |-> Labelled(p), config |-> config] \in Patch
    BY <2>2, <2>3, PatchType DEF Patch
  <2>5. patches' \in SUBSET Patch
    BY <2>1, <2>4 DEF TypeOK
  <2> QED
    BY <2>3, <2>5, PatchType DEF TypeOK
<1>3. ASSUME NEW u \in patches, SavePatch(u)
      PROVE  TypeOK'
  <2>1. /\ u.plan \in Plans /\ u.solved \in BOOLEAN
        /\ content' \in [Plans -> Content]
    BY <1>3, SavePatchWrites
  <2>2. patches' \in SUBSET Patch
    BY <1>3 DEF SavePatch, TypeOK
  <2>3. solved' \in [Copies -> BOOLEAN] /\ withdrawn' \in SUBSET Copies
    BY <1>3, <2>1 DEF SavePatch, WriteLabel, TypeOK
  <2> QED
    BY <1>3, <2>1, <2>2, <2>3 DEF SavePatch, TypeOK, server, solver
<1>4. ASSUME NEW c \in Copies, Publish(c)
      PROVE  TypeOK'
  <2> DEFINE new == [id |-> edits + 1, plan |-> c, solved |-> solved[c],
                     config |-> content[c].config, begun |-> FALSE, slots |-> {},
                     answers |-> {}, oldSlots |-> {}, oldAnswers |-> {}]
  <2>1. /\ Access(c) /\ publications' = publications \cup {new}
        /\ UNCHANGED <<solved, content, patches, edited, withdrawn>>
    BY <1>4 DEF Publish
  <2>2. c \in Plans /\ content[c].config \in Counts /\ solved[c] \in BOOLEAN
    BY DEF TypeOK, Content, Plans
  <2>3. new \in Publication
    BY <2>1, <2>2, PatchType DEF Publication
  <2> HIDE DEF new
  <2>4. publications' \in SUBSET Publication
    BY <2>1, <2>3 DEF TypeOK
  <2> QED
    BY <2>1, <2>2, <2>4, PatchType DEF TypeOK
<1>5. ASSUME NEW u \in publications, CopyBack(u)
      PROVE  TypeOK'
  <2>1. u \in Publication /\ u.plan \in Copies
    BY DEF TypeOK, Publication
  <2>2. parent[u.plan] \in Plans /\ u.plan \in Plans
    BY <2>1, ParentKnown DEF PatchInv, Over, Plans
  <2>3. content[u.plan] \in Content /\ content[parent[u.plan]] \in Content
    BY <2>2 DEF TypeOK
  <2> DEFINE new == [id |-> u.id, plan |-> u.plan, solved |-> u.solved, config |-> u.config,
                     begun |-> TRUE, slots |-> content[u.plan].slots,
                     answers |-> content[u.plan].answers,
                     oldSlots |-> content[parent[u.plan]].slots,
                     oldAnswers |-> content[parent[u.plan]].answers]
  <2>4. new \in Publication
    BY <2>1, <2>3 DEF Publication, Content
  <2>5. publications' = (publications \ {u}) \cup {new}
    BY <1>5 DEF CopyBack
  <2> HIDE DEF new
  <2>6. publications' \in SUBSET Publication
    BY <2>4, <2>5 DEF TypeOK
  <2> QED
    BY <1>5, <2>6 DEF CopyBack, TypeOK, database, server, solver, bounds, history
<1>6. ASSUME NEW u \in publications, FinishPublish(u)
      PROVE  TypeOK'
  <2>1. u.plan \in Copies
    BY DEF TypeOK, Publication
  <2>2. parent[u.plan] \in Meetings
    BY <2>1, ParentKnown DEF PatchInv, Over
  <2>3. u.solved \in BOOLEAN /\ content' \in [Plans -> Content]
    BY <1>6, <2>2, FinishPublishWrites
  <2>4. solved' \in [Copies -> BOOLEAN] /\ withdrawn' \in SUBSET Copies
    BY <1>6, <2>1, <2>3 DEF FinishPublish, WriteLabel, TypeOK
  <2>5. publications' \in SUBSET Publication
    BY <1>6 DEF FinishPublish, TypeOK
  <2>6. unread' \in [Copies -> SUBSET Slots]
    BY <1>6 DEF FinishPublish, TypeOK
  <2>7. torn' \in SUBSET Plans
    BY <1>6, <2>2 DEF FinishPublish, TypeOK, Reading, Plans
  <2> QED
    BY <1>6, <2>3, <2>4, <2>5, <2>6, <2>7 DEF FinishPublish, TypeOK, solver
<1> QED
  BY <1>1, <1>2, <1>3, <1>4, <1>5, <1>6 DEF UserStep, WritesTo

LEMMA CrashType ==
  ASSUME TypeOK, Crash
  PROVE  TypeOK'
BY DEF Crash, TypeOK, RequestStates, JobStates, database, history

LEMMA NextType ==
  ASSUME IInv, [Next]_vars
  PROVE  TypeOK'
<1>1. /\ TypeOK /\ \A c \in Copies : Phases(c)
      /\ \A u \in patches \cup publications : PatchInv(u)
  BY DEF IInv, CopyInv, PublicationInv
<1>2. CASE UNCHANGED vars
  BY <1>1, <1>2 DEF vars, database, server, users, solver, bounds, history, TypeOK
<1> QED
  BY <1>1, <1>2, RequestType, SolverType, UserType, CrashType DEF Next

(***************************************************************************)
(* The safety invariants.                                                  *)
(***************************************************************************)

Safe ==
  /\ \A p \in Plans : PlanInv(p)
  /\ \A c \in Copies : CopyInv(c)
  /\ \A u \in patches : PatchInv(u)
  /\ \A u \in publications : PublicationInv(u)

\* A step leaves the POST and the task of a copy alone.
Same(c) ==
  /\ parent'[c] = parent[c] /\ request'[c] = request[c] /\ copied'[c] = copied[c]
  /\ job'[c] = job[c] /\ problem'[c] = problem[c] /\ picks'[c] = picks[c]
  /\ (c \in dirty' <=> c \in dirty)

SameRows(p) ==
  /\ content'[p].answers = content[p].answers
  /\ content'[p].invitations = content[p].invitations

\* Nobody is uninvited.
Grows(p) == \A v : Invited(content[p], v) => Invited(content'[p], v)

\* Unless it is published over, a meeting that is being read loses nobody.
SourceGrows(c) ==
  request[c] = "reading" /\ c \notin torn' /\ parent[c] \notin torn =>
    parent[c] \notin torn' /\ Grows(parent[c])

\* What patches and publications in flight rely on.
Onward(c) ==
  /\ request[c] \in Over => request'[c] \in Over /\ Grows(c)
  /\ job[c] = "done" => job'[c] = "done"
  /\ c \in torn => c \in torn'

LEMMA RowsGrow ==
  ASSUME NEW p, SameRows(p)
  PROVE  Grows(p)
BY DEF SameRows, Grows, Invited

\* What a step does not write about a copy keeps its invariant.
LEMMA Untouched ==
  ASSUME NEW c \in Copies, CopyInv(c), Same(c), SameRows(c), SourceGrows(c),
         solved'[c] => job[c] = "done", c \in torn => c \in torn'
  PROVE  CopyInv(c)'
<1>1. Phases(c)'
  BY DEF CopyInv, Phases, Same, SameRows
<1>2. Copied(c)'
  <2>1. Available(copied'[c].answers)
    BY DEF CopyInv, Copied, Same
  <2>2. ASSUME c \notin torn', request'[c] = "reading"
        PROVE  /\ parent'[c] \notin torn'
               /\ InvitedPick(copied'[c].answers, content'[parent'[c]])
    BY <2>2 DEF CopyInv, Copied, Same, SourceGrows, Grows, InvitedPick
  <2>3. ASSUME c \notin torn', request'[c] \in {"copied", "done"}
        PROVE  InvitedPick(copied'[c].answers, copied'[c])
    BY <2>3 DEF CopyInv, Copied, Same
  <2> QED
    BY <2>1, <2>2, <2>3 DEF Copied
<1>3. ASSUME NEW bs, \A x \in Written(c) : PicksAmong(x, bs)
      PROVE  \A x \in Written(c)' : PicksAmong(x, bs)
  <2>1. PicksAmong(content'[c], bs)
    BY <1>3 DEF Written, PicksAmong, SameRows
  <2>2. request'[c] = "copied" => PicksAmong(copied'[c], bs)
    BY <1>3 DEF Written, Same
  <2> QED
    BY <2>1, <2>2 DEF Written
<1>4. Undecided(c)'
  <2>1. ASSUME job'[c] \in {"queued", "found"}
        PROVE  /\ c \notin torn' => \A x \in Written(c)' : PicksAmong(x, problem'[c])
               /\ request'[c] = "copied" => \A b \in problem'[c] : Invited(copied'[c], b.user)
               /\ request'[c] = "done" => \A b \in problem'[c] : Invited(content'[c], b.user)
    BY <1>3, <2>1 DEF CopyInv, Undecided, Same, SameRows, Invited
  <2> QED
    BY <2>1 DEF Undecided
<1>5. Decided(c)'
  <2>1. job'[c] \in HasPicks /\ c \notin torn' =>
          \A x \in Written(c)' : PicksAmong(x, picks'[c])
    BY <1>3 DEF CopyInv, Decided, Same
  <2>2. job'[c] \in {"locked", "done"} =>
          \A b \in picks'[c] : \E i \in content'[c].invitations : i.user = b.user /\ i.locked
    BY DEF CopyInv, Decided, Same, SameRows
  <2> QED
    BY <2>1, <2>2 DEF Decided
<1> QED
  BY <1>1, <1>2, <1>4, <1>5 DEF CopyInv

LEMMA PatchKept ==
  ASSUME NEW u, PatchInv(u), u.plan \in Copies => Onward(u.plan)
  PROVE  PatchInv(u)'
BY DEF PatchInv, Onward

LEMMA PublicationKept ==
  ASSUME NEW u, PublicationInv(u), u.plan \in Copies, Onward(u.plan)
  PROVE  PublicationInv(u)'
<1>1. PatchInv(u)'
  BY PatchKept DEF PublicationInv
<1>2. request[u.plan] \in Over
  BY DEF PublicationInv, PatchInv
<1>3. u.plan \notin torn' => InvitedPick(u.answers, content'[u.plan])
  BY <1>2 DEF Onward, Grows, InvitedPick, PublicationInv
<1> QED
  BY <1>1, <1>3 DEF PublicationInv

\* A step of the POST or of the task of one copy is no other plan's.
LEMMA Elsewhere ==
  ASSUME TypeOK, NEW c \in Copies, Phases(c),
         RequestStep(c) \/ SolverStep(c) \/ \E m \in Meetings : Post(c, m)
  PROVE  /\ UNCHANGED <<patches, publications, edited, withdrawn>>
         /\ \A q \in Plans : q # c =>
              content'[q] = content[q] /\ (q \in torn' <=> q \in torn)
         /\ c \in torn => c \in torn'
         /\ \A d \in Copies : d # c => Same(d) /\ solved'[d] = solved[d]
<1>1. /\ UNCHANGED <<patches, publications, edited, withdrawn>>
      /\ \A q : q # c => (q \in torn' <=> q \in torn)
      /\ c \in torn => c \in torn'
  BY DEF RequestStep, SolverStep, Post, CopySlots, CopyAnswers, Solve, Commit, Abort,
         SolverFinish, SolverFail, SavePicks, SavePicksFail, SaveLocks, SaveLocksFail,
         SaveSolved, users, bounds, history
<1>2. \A q \in Plans : q # c => content'[q] = content[q]
  <2>1. CASE CopySlots(c) \/ CopyAnswers(c) \/ Solve(c) \/ Abort(c)
    BY <2>1 DEF CopySlots, CopyAnswers, Solve, Abort, database
  <2>2. CASE SolverFinish(c) \/ SolverFail(c) \/ SavePicksFail(c) \/ SaveLocksFail(c)
    BY <2>2 DEF SolverFinish, SolverFail, SavePicksFail, SaveLocksFail, database
  <2> QED
    BY <2>1, <2>2, CopyingWrites, SavePicksWrites, SaveLocksWrites, SaveSolvedWrites
    DEF RequestStep, SolverStep
<1>3. ASSUME NEW d \in Copies, d # c
      PROVE  Same(d) /\ solved'[d] = solved[d]
  <2>1. CASE \E m \in Meetings : Post(c, m)
    <3>1. PICK m \in Meetings : Post(c, m)
      BY <2>1
    <3>2. (d \in dirty' <=> d \in dirty) /\ copied'[d] = copied[d]
      BY <1>3, <3>1, CopyingWrites DEF TypeOK
    <3> QED
      BY <1>3, <3>1, <3>2 DEF Post, Same, TypeOK, solver
  <2>2. CASE RequestStep(c)
    BY <1>3, <2>2
    DEF RequestStep, CopySlots, CopyAnswers, Solve, Commit, Abort, Same, TypeOK,
        database, server, solver
  <2>3. CASE SolverStep(c)
    BY <1>3, <2>3
    DEF SolverStep, SolverFinish, SolverFail, SavePicks, SavePicksFail, SaveLocks,
        SaveLocksFail, SaveSolved, Same, TypeOK, database, server, solver
  <2> QED
    BY <2>1, <2>2, <2>3
<1> QED
  BY <1>1, <1>2, <1>3

LEMMA ElsewhereSafe ==
  ASSUME TypeOK, Safe, NEW c \in Copies,
         RequestStep(c) \/ SolverStep(c) \/ \E m \in Meetings : Post(c, m),
         PlanInv(c)', CopyInv(c)', Onward(c)
  PROVE  Safe'
<1>1. Phases(c)
  BY DEF Safe, CopyInv
<1>2. /\ UNCHANGED <<patches, publications, edited, withdrawn>>
      /\ \A q \in Plans : q # c =>
           content'[q] = content[q] /\ (q \in torn' <=> q \in torn)
      /\ \A d \in Copies : d # c => Same(d) /\ solved'[d] = solved[d]
  BY <1>1, Elsewhere
<1>3. ASSUME NEW p \in Plans
      PROVE  PlanInv(p)'
  BY <1>2 DEF Safe, PlanInv
<1>4. ASSUME NEW d \in Copies, d # c
      PROVE  Onward(d)
  BY <1>2, <1>4 DEF Onward, Same, Grows, Plans
<1>5. ASSUME NEW d \in Copies, d # c
      PROVE  CopyInv(d)'
  <2>1. CopyInv(d) /\ d \in Plans
    BY DEF Safe, Plans
  <2>2. SourceGrows(d)
    <3>1. request[d] = "reading" => parent[d] \in Plans /\ parent[d] \in Meetings
      BY <2>1, ParentKnown DEF CopyInv
    <3> QED
      BY <1>2, <3>1, DisjointPlans DEF SourceGrows, Grows
  <2>3. SameRows(d)
    BY <1>2, <1>5, <2>1 DEF SameRows
  <2>4. Same(d) /\ (solved'[d] => job[d] = "done") /\ (d \in torn => d \in torn')
    BY <1>2, <1>5, <2>1 DEF CopyInv, Phases
  <2> QED
    BY <2>1, <2>2, <2>3, <2>4, Untouched
<1>6. ASSUME NEW u \in patches'
      PROVE  PatchInv(u)'
  <2>1. PatchInv(u) /\ (u.plan \in Copies => Onward(u.plan))
    BY <1>2, <1>4 DEF Safe
  <2> QED
    BY <2>1, PatchKept
<1>7. ASSUME NEW u \in publications'
      PROVE  PublicationInv(u)'
  <2>1. PublicationInv(u) /\ u.plan \in Copies
    BY <1>2 DEF Safe, TypeOK, Publication
  <2>2. Onward(u.plan)
    BY <1>4, <2>1
  <2> QED
    BY <2>1, <2>2, PublicationKept
<1> QED
  BY <1>3, <1>5, <1>6, <1>7 DEF Safe

\* A slot is set up for available, invited users.
LEMMA InitSafe == Init => Safe
<1> SUFFICES ASSUME Init PROVE Safe
  OBVIOUS
<1>1. \A x \in SetUps : Available(x.answers) /\ InvitedPick(x.answers, x)
  BY DEF SetUps, Available, InvitedPick
<1>2. ASSUME NEW p \in Plans
      PROVE  PlanInv(p)
  BY <1>1, NoContentType DEF Init, PlanInv, Available, InvitedPick
<1>3. ASSUME NEW c \in Copies
      PROVE  CopyInv(c)
  <2>1. content[c].answers = {} /\ copied[c].answers = {}
    BY NoContentType, DisjointPlans DEF Init, Plans
  <2>2. /\ parent[c] = NoPlan /\ request[c] = "none" /\ job[c] = "none" /\ ~solved[c]
    BY DEF Init
  <2> QED
    BY <2>1, <2>2 DEF CopyInv, Phases, Copied, Available, Undecided, Decided,
                      HasResult, HasPicks
<1> QED
  BY <1>2, <1>3 DEF Init, Safe

\* The picks a copy inherits are all up for decision again: there is an
\* assignment for each of them if their users are invited.
LEMMA ProblemCovers ==
  ASSUME NEW x \in Content, Available(x.answers)
  PROVE  /\ InvitedPick(x.answers, x) => PicksAmong(x, ProblemOf(x))
         /\ \A b \in ProblemOf(x) : Invited(x, b.user)
<1>1. ASSUME InvitedPick(x.answers, x), NEW a \in x.answers, a.picked
      PROVE  \E b \in ProblemOf(x) : SameKey(a, b)
  <2>1. PICK i \in x.invitations : i.user = a.user
    BY <1>1 DEF InvitedPick, Invited
  <2>2. a \in Answer /\ i \in Invitation /\ a.available
    BY <1>1 DEF Available, Content
  <2> DEFINE b == [slot |-> a.slot, user |-> a.user, rank |-> a.rank,
                   locked |-> i.locked]
  <2>3. b \in Assignment
    BY <2>2 DEF Answer, Invitation, Assignment
  <2>4. SameKey(a, b) /\ a.rank = b.rank /\ i.user = b.user /\ i.locked = b.locked
    BY <2>1 DEF SameKey
  <2> QED
    BY <2>2, <2>3, <2>4, <1>1 DEF ProblemOf
<1>2. InvitedPick(x.answers, x) => PicksAmong(x, ProblemOf(x))
  BY <1>1 DEF PicksAmong
<1> QED
  BY <1>2 DEF ProblemOf, Invited

\* What the lemmas below show of the copy a step works on.
Own(c) == PlanInv(c)' /\ CopyInv(c)' /\ Onward(c)

LEMMA PostSafe ==
  ASSUME TypeOK, Safe, NEW c \in Copies, NEW m \in Meetings, Post(c, m)
  PROVE  Own(c)
<1>0. CopyInv(c) /\ c \in Plans
  BY DEF Safe, Plans
<1>1. content'[c].answers = {} /\ copied'[c].answers = {}
  BY CopyingWrites
<1>2. /\ parent[c] = NoPlan /\ parent'[c] = m /\ ~solved'[c] /\ request'[c] = "posted"
      /\ UNCHANGED <<job, problem, picks, torn>>
  BY DEF Post, TypeOK, solver, bounds, history
<1>3. request[c] = "none" /\ job[c] = "none"
  BY <1>0, <1>2 DEF CopyInv, Phases
<1>4. CopyInv(c)'
  BY <1>1, <1>2, <1>3, DisjointPlans
  DEF CopyInv, Phases, Copied, Available, Undecided, Decided, HasResult, HasPicks
<1>5. PlanInv(c)'
  BY <1>1 DEF PlanInv, Available, InvitedPick
<1> QED
  BY <1>2, <1>3, <1>4, <1>5 DEF Own, Onward, Over

LEMMA ReadingSafe ==
  ASSUME TypeOK, Safe, NEW c \in Copies, CopySlots(c) \/ CopyAnswers(c)
  PROVE  Own(c)
<1>0. CopyInv(c) /\ c \in Plans /\ PlanInv(c) /\ request[c] \in {"posted", "reading"}
  BY DEF Safe, Plans, CopySlots, CopyAnswers
<1>1. /\ parent[c] \in Plans /\ parent[c] # c /\ PlanInv(parent[c])
  BY <1>0, ParentKnown DEF Safe, CopyInv
<1>2. /\ request'[c] = "reading" /\ job[c] = "none"
      /\ UNCHANGED <<parent, solved, content, job, problem, picks>>
  BY <1>0 DEF CopySlots, CopyAnswers, TypeOK, CopyInv, Phases, database, solver, bounds
<1>3. \/ copied'[c].answers = {} /\ (c \in torn' <=> c \in torn \/ parent[c] \in torn)
      \/ /\ request[c] = "reading" /\ torn' = torn
         /\ copied'[c].answers \subseteq copied[c].answers \cup content[parent[c]].answers
  <2>1. CASE CopySlots(c)
    <3>1. copied'[c].answers = copied[c].answers
      BY <2>1 DEF CopySlots, TypeOK, Content
    <3> QED
      BY <1>0, <2>1, <3>1 DEF CopySlots, CopyInv, Phases
  <2>2. CASE CopyAnswers(c)
    <3>1. PICK s \in unread[c] :
            copied' = [copied EXCEPT ![c].answers =
               copied[c].answers \cup {a \in content[parent[c]].answers : a.slot = s}]
      BY <2>2 DEF CopyAnswers
    <3>2. copied'[c].answers =
            copied[c].answers \cup {a \in content[parent[c]].answers : a.slot = s}
      BY <3>1 DEF TypeOK, Content
    <3> QED
      BY <2>2, <3>2 DEF CopyAnswers, bounds, history
  <2> QED
    BY <2>1, <2>2
<1>4. \A p \in Plans : p # c => (p \in torn' <=> p \in torn)
  BY DEF CopySlots, CopyAnswers, bounds, history
<1>5. c \in torn => c \in torn'
  BY <1>3
<1>6. Available(copied'[c].answers)
  BY <1>0, <1>1, <1>3 DEF CopyInv, Copied, PlanInv, Available
<1>7. ASSUME c \notin torn'
      PROVE  parent[c] \notin torn' /\ InvitedPick(copied'[c].answers, content[parent[c]])
  BY <1>0, <1>1, <1>3, <1>4, <1>5, <1>7 DEF CopyInv, Copied, PlanInv, InvitedPick
<1>8. CopyInv(c)'
  <2>1. Phases(c)'
    BY <1>0, <1>2 DEF CopyInv, Phases, HasResult, HasPicks
  <2>2. Copied(c)'
    BY <1>2, <1>6, <1>7 DEF Copied
  <2>3. Undecided(c)' /\ Decided(c)'
    BY <1>2 DEF Undecided, Decided, HasPicks
  <2> QED
    BY <2>1, <2>2, <2>3 DEF CopyInv
<1>9. PlanInv(c)'
  BY <1>0, <1>2, <1>5 DEF PlanInv
<1> QED
  BY <1>0, <1>2, <1>5, <1>8, <1>9 DEF Own, Onward, Over

LEMMA SolveSafe ==
  ASSUME TypeOK, Safe, NEW c \in Copies, Solve(c)
  PROVE  Own(c)
<1> DEFINE x == [copied[c] EXCEPT !.invitations = content[parent[c]].invitations]
<1>0. CopyInv(c) /\ c \in Plans /\ PlanInv(c)
  BY DEF Safe, Plans
<1>1. /\ request[c] = "reading"
      /\ copied' = [copied EXCEPT ![c] = x]
      /\ problem' = [problem EXCEPT ![c] = ProblemOf(x)]
      /\ job' = [job EXCEPT ![c] = "queued"]
      /\ request' = [request EXCEPT ![c] = "copied"]
      /\ UNCHANGED <<parent, solved, content, picks, torn>>
  BY DEF Solve, database, bounds, history
<1>2. parent[c] \in Plans
  BY <1>0, <1>1, ParentKnown DEF CopyInv
<1>3. copied[c] \in Content /\ content[parent[c]] \in Content
  BY <1>2 DEF TypeOK
<1>4. /\ x \in Content /\ x.answers = copied[c].answers
      /\ x.invitations = content[parent[c]].invitations
  BY <1>3 DEF Content
<1>5. Available(x.answers)
  BY <1>0, <1>4 DEF CopyInv, Copied
<1>6. c \notin torn => InvitedPick(x.answers, x)
  BY <1>0, <1>1, <1>4 DEF CopyInv, Copied, InvitedPick, Invited
<1> HIDE DEF x
<1>7. /\ c \notin torn => PicksAmong(x, ProblemOf(x))
      /\ \A b \in ProblemOf(x) : Invited(x, b.user)
  BY <1>4, <1>5, <1>6, ProblemCovers
<1>8. /\ copied'[c] = x /\ problem'[c] = ProblemOf(x)
      /\ job'[c] = "queued" /\ request'[c] = "copied"
  BY <1>1 DEF TypeOK
<1>9. content[c].answers = {} /\ ~solved[c] /\ parent[c] # NoPlan /\ job[c] = "none"
  BY <1>0, <1>1 DEF CopyInv, Phases
<1>10. Phases(c)'
  BY <1>1, <1>8, <1>9 DEF Phases, HasResult, HasPicks
<1>11. Copied(c)'
  BY <1>1, <1>5, <1>6, <1>8 DEF Copied
<1>12. Undecided(c)'
  BY <1>1, <1>7, <1>8, <1>9 DEF Undecided, Written, PicksAmong
<1>13. Decided(c)'
  BY <1>8 DEF Decided, HasPicks
<1> QED
  BY <1>0, <1>1, <1>8, <1>9, <1>10, <1>11, <1>12, <1>13 DEF Own, CopyInv, PlanInv, Onward, Over

LEMMA CommitSafe ==
  ASSUME TypeOK, Safe, NEW c \in Copies, Commit(c)
  PROVE  Own(c)
<1>0. CopyInv(c) /\ c \in Plans
  BY DEF Safe, Plans
<1>1. content'[c] = copied[c]
  BY CopyingWrites
<1>2. /\ request[c] = "copied" /\ request'[c] = "done" /\ (solved'[c] => solved[c])
      /\ UNCHANGED <<parent, copied, dirty, job, problem, picks, torn>>
  BY DEF Commit, TypeOK, solver, bounds, history
<1>3. Phases(c)'
  BY <1>0, <1>2 DEF CopyInv, Phases
<1>4. Copied(c)'
  BY <1>0, <1>2 DEF CopyInv, Copied
<1>5. Undecided(c)'
  BY <1>0, <1>1, <1>2 DEF CopyInv, Undecided, Written
<1>6. job[c] \in HasPicks => picks[c] = {}
  BY <1>0, <1>2 DEF CopyInv, Phases, HasPicks, HasResult
<1>7. Decided(c)'
  BY <1>0, <1>1, <1>2, <1>6 DEF CopyInv, Decided, Written, HasPicks
<1>8. PlanInv(c)'
  BY <1>0, <1>1, <1>2 DEF CopyInv, Copied, PlanInv
<1> QED
  BY <1>2, <1>3, <1>4, <1>5, <1>7, <1>8 DEF Own, CopyInv, Onward, Over

\* A request or a task that fails claims nothing any more.
LEMMA FailingSafe ==
  ASSUME TypeOK, Safe, NEW c \in Copies,
         Abort(c) \/ SolverFail(c) \/ SavePicksFail(c) \/ SaveLocksFail(c)
  PROVE  Own(c)
<1>0. CopyInv(c) /\ c \in Plans /\ PlanInv(c)
  BY DEF Safe, Plans
<1>1. /\ UNCHANGED <<parent, solved, content, copied, dirty, problem, picks, torn>>
      /\ \/ request[c] = "copied" /\ request'[c] = "failed" /\ job'[c] = job[c]
         \/ /\ request'[c] = request[c] /\ job'[c] = "failed"
            /\ job[c] # "done" /\ job[c] # "none"
  BY DEF Abort, SolverFail, SavePicksFail, SaveLocksFail, TypeOK, database, server, solver,
         bounds, history
<1>2. Phases(c)'
  BY <1>0, <1>1 DEF CopyInv, Phases, HasResult, HasPicks
<1>3. Copied(c)'
  BY <1>0, <1>1 DEF CopyInv, Copied
<1>4. Undecided(c)' /\ Decided(c)'
  BY <1>0, <1>1 DEF CopyInv, Undecided, Decided, Written, PicksAmong, HasPicks
<1> QED
  BY <1>0, <1>1, <1>2, <1>3, <1>4 DEF Own, CopyInv, PlanInv, Onward, Over, Grows

LEMMA FinishSafe ==
  ASSUME TypeOK, Safe, NEW c \in Copies, SolverFinish(c)
  PROVE  Own(c)
<1>0. CopyInv(c) /\ c \in Plans /\ PlanInv(c)
  BY DEF Safe, Plans
<1>1. PICK chosen \in SUBSET problem[c] : picks' = [picks EXCEPT ![c] = chosen]
  BY DEF SolverFinish
<1>2. /\ job[c] = "queued" /\ job'[c] = "found" /\ picks'[c] \subseteq problem[c]
      /\ UNCHANGED <<parent, solved, content, request, copied, dirty, problem, torn>>
  BY <1>1 DEF SolverFinish, TypeOK, database, server, bounds, history
<1>3. Phases(c)'
  BY <1>0, <1>2 DEF CopyInv, Phases, HasResult, HasPicks
<1>4. Copied(c)'
  BY <1>0, <1>2 DEF CopyInv, Copied
<1>5. Undecided(c)' /\ Decided(c)'
  BY <1>0, <1>2 DEF CopyInv, Undecided, Decided, Written, PicksAmong, HasPicks
<1> QED
  BY <1>0, <1>2, <1>3, <1>4, <1>5 DEF Own, CopyInv, PlanInv, Onward, Over, Grows

LEMMA SavePicksSafe ==
  ASSUME TypeOK, Safe, NEW c \in Copies, SavePicks(c)
  PROVE  Own(c)
<1>0. CopyInv(c) /\ c \in Plans /\ PlanInv(c)
  BY DEF Safe, Plans
<1>1. /\ job[c] = "found" /\ job'[c] = "picked" /\ RowsVisible(c)
      /\ UNCHANGED <<parent, solved, request, copied, dirty, problem, picks, torn>>
  BY DEF SavePicks, TypeOK, server, bounds, history
<1>2. /\ content'[c].answers = SavedAnswers(c)
      /\ content'[c].invitations = content[c].invitations
  BY SavePicksWrites
<1>3. /\ picks[c] \subseteq problem[c]
      /\ problem[c] # {} => /\ request[c] = "done"
                            /\ \A b \in problem[c] : Invited(content[c], b.user)
      /\ c \notin torn => \A x \in Written(c) : PicksAmong(x, problem[c])
  BY <1>0, <1>1 DEF CopyInv, Phases, Undecided, HasResult, RowsVisible
<1>4. ASSUME NEW a \in SavedAnswers(c), a.picked
      PROVE  \/ a \in content[c].answers /\ \A b \in problem[c] : ~SameKey(a, b)
             \/ \E b \in picks[c] : SameKey(a, b) /\ a.available
  <2>1. ASSUME NEW b \in problem[c],
               a = [slot |-> b.slot, user |-> b.user, rank |-> b.rank,
                    available |-> TRUE, picked |-> b \in picks[c]]
        PROVE  \E e \in picks[c] : SameKey(a, e) /\ a.available
    BY <1>4, <2>1 DEF SameKey
  <2> QED
    BY <1>4, <2>1 DEF SavedAnswers
<1>5. PlanInv(c)'
  <2>1. Available(content'[c].answers)
    BY <1>0, <1>2, <1>4 DEF PlanInv, Available
  <2>2. c \notin torn => InvitedPick(content'[c].answers, content[c])
    BY <1>0, <1>2, <1>3, <1>4 DEF PlanInv, InvitedPick, SameKey
  <2>3. c \notin torn => InvitedPick(content'[c].answers, content'[c])
    BY <1>2, <2>2 DEF InvitedPick, Invited
  <2> QED
    BY <1>1, <2>1, <2>3 DEF PlanInv
<1>6. c \notin torn => PicksAmong(content'[c], picks[c])
  BY <1>2, <1>3, <1>4 DEF PicksAmong, Written
<1>7. request[c] = "copied" => problem[c] = {} /\ picks[c] = {}
  BY <1>1, <1>3 DEF RowsVisible
<1>8. c \notin torn /\ request[c] = "copied" => PicksAmong(copied[c], picks[c])
  BY <1>3, <1>7 DEF Written, PicksAmong
<1>9. request[c] \in {"none", "posted", "reading", "copied"} => content'[c].answers = {}
  <2>1. request[c] # "done" => problem[c] = {}
    BY <1>3
  <2> QED
    BY <1>0, <1>2, <2>1 DEF CopyInv, Phases, SavedAnswers
<1>10. Phases(c)'
  BY <1>0, <1>1, <1>3, <1>7, <1>9 DEF CopyInv, Phases
<1>11. Copied(c)'
  BY <1>0, <1>1 DEF CopyInv, Copied, Phases
<1>12. Undecided(c)' /\ Decided(c)'
  BY <1>1, <1>6, <1>8 DEF Undecided, Decided, Written
<1>13. Onward(c)
  BY <1>1, <1>2, RowsGrow DEF Onward, Grows, Invited
<1> QED
  BY <1>5, <1>10, <1>11, <1>12, <1>13 DEF Own, CopyInv

LEMMA SaveLocksSafe ==
  ASSUME TypeOK, Safe, NEW c \in Copies, SaveLocks(c)
  PROVE  Own(c)
<1>0. CopyInv(c) /\ c \in Plans /\ PlanInv(c)
  BY DEF Safe, Plans
<1>1. /\ job[c] = "picked" /\ job'[c] = "locked" /\ Lockable(c)
      /\ UNCHANGED <<parent, solved, request, copied, dirty, problem, picks, torn>>
  BY DEF SaveLocks, TypeOK, server, bounds, history
<1>2. /\ content'[c].answers = content[c].answers
      /\ content'[c].invitations =
           {[i EXCEPT !.locked = i.locked \/ i.user \in PickedUsers(c)] :
              i \in content[c].invitations}
  BY SaveLocksWrites
<1>3. ASSUME NEW i \in content[c].invitations
      PROVE  \E j \in content'[c].invitations :
               j.user = i.user /\ (i.user \in PickedUsers(c) => j.locked)
  <2> DEFINE j == [i EXCEPT !.locked = i.locked \/ i.user \in PickedUsers(c)]
  <2>1. i \in Invitation
    BY <1>0 DEF TypeOK, Content
  <2>2. j \in content'[c].invitations
    BY <1>2
  <2>3. j.user = i.user /\ (i.user \in PickedUsers(c) => j.locked)
    BY <2>1 DEF Invitation
  <2> QED
    BY <2>2, <2>3
<1>4. Grows(c)
  BY <1>3 DEF Grows, Invited
<1>5. PlanInv(c)'
  BY <1>0, <1>1, <1>2, <1>4 DEF PlanInv, InvitedPick, Grows
<1>6. ASSUME NEW b \in picks[c]
      PROVE  \E i \in content'[c].invitations : i.user = b.user /\ i.locked
  <2>1. b.user \in PickedUsers(c)
    BY <1>6 DEF PickedUsers
  <2>2. PICK i \in content[c].invitations : i.user = b.user
    BY <1>1, <2>1 DEF Lockable, Invited
  <2> QED
    BY <1>3, <2>1, <2>2
<1>7. Phases(c)'
  BY <1>0, <1>1, <1>2 DEF CopyInv, Phases, HasResult, HasPicks
<1>8. Copied(c)'
  BY <1>0, <1>1 DEF CopyInv, Copied, Phases
<1>9. Undecided(c)' /\ Decided(c)'
  BY <1>0, <1>1, <1>2, <1>6
  DEF CopyInv, Undecided, Decided, Written, PicksAmong, HasPicks
<1> QED
  BY <1>1, <1>4, <1>5, <1>7, <1>8, <1>9 DEF Own, CopyInv, Onward

LEMMA SaveSolvedSafe ==
  ASSUME TypeOK, Safe, NEW c \in Copies, SaveSolved(c)
  PROVE  Own(c)
<1>0. CopyInv(c) /\ c \in Plans /\ PlanInv(c)
  BY DEF Safe, Plans
<1>1. /\ job[c] = "locked" /\ job'[c] = "done" /\ ~RowLocked(c)
      /\ UNCHANGED <<parent, request, copied, dirty, problem, picks, torn>>
  BY DEF SaveSolved, TypeOK, server, bounds, history
<1>2. SameRows(c)
  BY SaveSolvedWrites DEF SameRows
<1>3. Phases(c)'
  BY <1>0, <1>1, <1>2 DEF CopyInv, Phases, HasResult, HasPicks, RowLocked, SameRows
<1>4. Copied(c)'
  BY <1>0, <1>1 DEF CopyInv, Copied, Phases
<1>5. Undecided(c)' /\ Decided(c)'
  BY <1>0, <1>1, <1>2
  DEF CopyInv, Undecided, Decided, Written, PicksAmong, HasPicks, SameRows
<1>6. PlanInv(c)'
  BY <1>0, <1>1, <1>2 DEF PlanInv, InvitedPick, Invited, SameRows
<1> QED
  BY <1>1, <1>2, <1>3, <1>4, <1>5, <1>6, RowsGrow DEF Own, CopyInv, Onward

(***************************************************************************)
(* Users' steps.                                                           *)
(***************************************************************************)

\* No user's step is a step of a POST or of a task.
LEMMA UsersSame ==
  ASSUME UserStep
  PROVE  /\ \A c \in Copies : Same(c)
         /\ UNCHANGED <<parent, request, copied, dirty, solver>>
BY DEF UserStep, AddTimeSlot, Rank, Invite, Edit, Configure, Publish, Access, SavePatch,
       CopyBack, FinishPublish, Same, database, server, solver

\* Patches and publications that go on, given how the rows have changed.
LEMMA InFlightKept ==
  ASSUME TypeOK, Safe, \A c \in Copies : Onward(c)
  PROVE  /\ \A u \in patches : PatchInv(u)'
         /\ \A u \in publications : PublicationInv(u)'
<1>1. ASSUME NEW u \in patches PROVE PatchInv(u)'
  BY PatchKept DEF Safe
<1>2. ASSUME NEW u \in publications PROVE PublicationInv(u)'
  <2>1. u.plan \in Copies /\ PublicationInv(u)
    BY DEF TypeOK, Publication, Safe
  <2> QED
    BY <2>1, PublicationKept
<1> QED
  BY <1>1, <1>2

\* A step that changes no answer, no invitation and no label of copies, and of
\* the rows in flight only adds those whose invariant holds.
LEMMA ColumnsSafe ==
  ASSUME TypeOK, Safe, UserStep, UNCHANGED torn,
         \A p \in Plans : SameRows(p),
         \A c \in Copies : solved'[c] => job[c] = "done",
         \A u \in patches' \ patches : PatchInv(u)',
         \A u \in publications' \ publications : PublicationInv(u)'
  PROVE  Safe'
<1>1. \A c \in Copies : Same(c)
  BY UsersSame
<1>2. ASSUME NEW c \in Copies PROVE CopyInv(c)'
  <2>1. CopyInv(c) /\ SameRows(c)
    BY DEF Safe, Plans
  <2>2. SourceGrows(c)
    <3>1. request[c] = "reading" => SameRows(parent[c])
      BY <2>1, ParentKnown DEF CopyInv
    <3> QED
      BY <3>1, RowsGrow DEF SourceGrows
  <2> QED
    BY <1>1, <2>1, <2>2, Untouched
<1>3. ASSUME NEW c \in Copies PROVE Onward(c)
  <2>1. Grows(c)
    BY RowsGrow DEF Plans
  <2> QED
    BY <1>1, <2>1 DEF Onward, Same
<1>4. /\ \A u \in patches : PatchInv(u)'
      /\ \A u \in publications : PublicationInv(u)'
  BY <1>3, InFlightKept
<1>5. ASSUME NEW p \in Plans PROVE PlanInv(p)'
  BY DEF Safe, PlanInv, SameRows, InvitedPick, Invited
<1> QED
  BY <1>2, <1>4, <1>5 DEF Safe

LEMMA WritesToSafe ==
  ASSUME TypeOK, Safe, NEW p \in Plans, WritesTo(p)
  PROVE  Safe'
<1>0. UserStep /\ PlanInv(p)
  BY DEF UserStep, WritesTo, Safe
<1>1. OnlyAdds(p)
  BY UserWrites
<1>2. /\ Open(p)
      /\ UNCHANGED <<parent, solved, request, copied, dirty, patches,
                     publications, job, problem, picks, torn>>
  BY UserRest
<1>3. \A q \in Plans : Grows(q)
  BY <1>1 DEF OnlyAdds, Grows, Invited
<1>4. ASSUME NEW q \in Plans PROVE PlanInv(q)'
  <2>1. CASE q = p
    BY <1>0, <1>1, <1>2, <1>3, <2>1 DEF OnlyAdds, PlanInv, Available, InvitedPick, Grows
  <2>2. CASE q # p
    BY <1>1, <1>2, <2>2 DEF OnlyAdds, PlanInv, Safe
  <2> QED
    BY <2>1, <2>2
<1>5. ASSUME NEW c \in Copies PROVE CopyInv(c) /\ Same(c) /\ SourceGrows(c) /\ Onward(c)
  <2>1. CopyInv(c) /\ c \in Plans
    BY DEF Safe, Plans
  <2>2. Same(c)
    BY <1>2 DEF Same
  <2>3. SourceGrows(c)
    BY <1>2, <1>3, <2>1, ParentKnown DEF SourceGrows, CopyInv
  <2>4. Onward(c)
    BY <1>2, <1>3, <2>1 DEF Onward
  <2> QED
    BY <2>1, <2>2, <2>3, <2>4
<1>6. ASSUME NEW c \in Copies, c # p PROVE CopyInv(c)'
  <2>1. SameRows(c)
    BY <1>1, <1>6 DEF OnlyAdds, SameRows, Plans
  <2>2. solved'[c] => job[c] = "done"
    BY <1>2, <1>5 DEF CopyInv, Phases
  <2> QED
    BY <1>2, <1>5, <2>1, <2>2, Untouched
<1>7. ASSUME p \in Copies PROVE CopyInv(p)'
  <2>0. CopyInv(p)
    BY <1>5, <1>7
  <2>1. request[p] \in {"done", "failed"}
    BY <1>2, <1>7 DEF Open
  <2>2. ASSUME NEW bs, PicksAmong(content[p], bs) PROVE PicksAmong(content'[p], bs)
    BY <1>1, <2>2 DEF OnlyAdds, PicksAmong
  <2>3. Written(p)' = {content'[p]} /\ content[p] \in Written(p)
    BY <1>2, <2>1 DEF Written
  <2>4. Phases(p)'
    BY <1>2, <2>0, <2>1 DEF CopyInv, Phases
  <2>5. Copied(p)'
    BY <1>2, <2>0, <2>1 DEF CopyInv, Copied
  <2>6. Undecided(p)'
    <3>1. ASSUME job[p] \in {"queued", "found"}
          PROVE  /\ p \notin torn => PicksAmong(content'[p], problem[p])
                 /\ request[p] = "done" => \A b \in problem[p] : Invited(content'[p], b.user)
      BY <1>3, <2>0, <2>2, <2>3, <3>1 DEF CopyInv, Undecided, Grows
    <3> QED
      BY <1>2, <2>1, <2>3, <3>1 DEF Undecided
  <2>7. Decided(p)'
    <3>1. job[p] \in HasPicks /\ p \notin torn => PicksAmong(content'[p], picks[p])
      BY <2>0, <2>2, <2>3 DEF CopyInv, Decided
    <3>2. job[p] \in {"locked", "done"} =>
            \A b \in picks[p] : \E i \in content'[p].invitations : i.user = b.user /\ i.locked
      BY <1>1, <2>0 DEF OnlyAdds, CopyInv, Decided
    <3> QED
      BY <1>2, <2>3, <3>1, <3>2 DEF Decided
  <2> QED
    BY <2>4, <2>5, <2>6, <2>7 DEF CopyInv
<1>8. /\ \A u \in patches : PatchInv(u)'
      /\ \A u \in publications : PublicationInv(u)'
  BY <1>5, InFlightKept
<1> QED
  BY <1>2, <1>4, <1>6, <1>7, <1>8 DEF Safe

LEMMA LoadingSafe ==
  ASSUME TypeOK, Safe,
         \/ \E p \in Plans : Configure(p)
         \/ \E c \in Copies : Publish(c)
         \/ \E u \in publications : CopyBack(u)
  PROVE  Safe'
<1>0. UserStep /\ \A c \in Copies : CopyInv(c) /\ c \in Plans
  BY DEF UserStep, Safe, Plans
<1>1. UNCHANGED <<parent, request, job, content, solved, torn>>
  BY DEF Configure, Publish, Access, CopyBack, database, server, solver, bounds, history
<1>2. \A p \in Plans : SameRows(p)
  BY <1>1 DEF SameRows
<1>3. \A c \in Copies : solved'[c] => job[c] = "done"
  BY <1>0, <1>1 DEF CopyInv, Phases
<1>4. ASSUME NEW u \in patches' \ patches PROVE PatchInv(u)'
  <2>1. PICK p \in Plans : Configure(p)
    BY <1>4 DEF Publish, CopyBack
  <2>2. PICK config \in Counts :
          patches' = patches \cup {[id |-> edits + 1, plan |-> p,
                                   solved |-> Labelled(p), config |-> config]}
    BY <2>1 DEF Configure
  <2>3. u.plan = p /\ u.solved = Labelled(p)
    BY <1>4, <2>2
  <2>4. Open(p)
    BY <2>1 DEF Configure, Access
  <2> QED
    BY <1>0, <1>1, <2>3, <2>4 DEF PatchInv, Open, Labelled, Over, CopyInv, Phases
<1>5. ASSUME NEW u \in publications' \ publications PROVE PublicationInv(u)'
  <2>1. ASSUME NEW c \in Copies, Publish(c) PROVE PublicationInv(u)'
    <3>1. publications' = publications \cup
            {[id |-> edits + 1, plan |-> c, solved |-> solved[c],
              config |-> content[c].config, begun |-> FALSE, slots |-> {},
              answers |-> {}, oldSlots |-> {}, oldAnswers |-> {}]}
      BY <2>1 DEF Publish
    <3>2. u.plan = c /\ u.solved = solved[c] /\ u.answers = {}
      BY <1>5, <3>1
    <3>3. Open(c) /\ parent[c] # NoPlan
      BY <2>1 DEF Publish, Access
    <3>4. PatchInv(u)'
      BY <1>0, <1>1, <3>2, <3>3 DEF PatchInv, Open, Over, CopyInv, Phases
    <3> QED
      BY <3>2, <3>4 DEF PublicationInv, Available, InvitedPick
  <2>2. ASSUME NEW v \in publications, CopyBack(v) PROVE PublicationInv(u)'
    <3>1. publications' = (publications \ {v}) \cup
            {[id |-> v.id, plan |-> v.plan, solved |-> v.solved, config |-> v.config,
              begun |-> TRUE, slots |-> content[v.plan].slots,
              answers |-> content[v.plan].answers,
              oldSlots |-> content[parent[v.plan]].slots,
              oldAnswers |-> content[parent[v.plan]].answers]}
      BY <2>2 DEF CopyBack
    <3>2. /\ u.plan = v.plan /\ u.solved = v.solved
          /\ u.answers = content[v.plan].answers
      BY <1>5, <3>1
    <3>3. PublicationInv(v) /\ v.plan \in Plans /\ PlanInv(v.plan)
      BY DEF Safe, TypeOK, Publication, Plans
    <3>4. PatchInv(u)'
      BY <1>1, <3>2, <3>3 DEF PatchInv, PublicationInv
    <3> QED
      BY <1>1, <3>2, <3>3, <3>4 DEF PublicationInv, PlanInv
  <2>3. ~ \E p \in Plans : Configure(p)
    BY <1>5 DEF Configure
  <2> QED
    BY <2>1, <2>2, <2>3
<1> QED
  BY <1>0, <1>1, <1>2, <1>3, <1>4, <1>5, ColumnsSafe

LEMMA SavePatchSafe ==
  ASSUME TypeOK, Safe, NEW u \in patches, SavePatch(u)
  PROVE  Safe'
<1>0. UserStep /\ PatchInv(u) /\ u \in Patch
  BY DEF UserStep, Safe, TypeOK
<1>1. \A p \in Plans : SameRows(p)
  BY SavePatchWrites DEF SameRows
<1>2. patches' \subseteq patches /\ UNCHANGED <<publications, torn>>
  BY DEF SavePatch
<1>3. ASSUME NEW c \in Copies, solved'[c] PROVE job[c] = "done"
  <2>1. solved[c] => job[c] = "done"
    BY DEF Safe, CopyInv, Phases
  <2>2. \/ solved' = solved
        \/ u.plan \in Copies /\ solved' = [solved EXCEPT ![u.plan] = u.solved]
    BY DEF SavePatch, WriteLabel
  <2> QED
    BY <1>0, <1>3, <2>1, <2>2 DEF TypeOK, PatchInv
<1> QED
  BY <1>0, <1>1, <1>2, <1>3, ColumnsSafe

LEMMA FinishPublishSafe ==
  ASSUME TypeOK, Safe, NEW u \in publications, FinishPublish(u)
  PROVE  Safe'
<1>m. PICK m : m = parent[u.plan]
  OBVIOUS
<1>0. UserStep /\ PublicationInv(u) /\ u.plan \in Copies /\ u.plan \in Plans
  BY DEF UserStep, Safe, TypeOK, Publication, Plans
<1>1. m \in Meetings
  BY <1>m, <1>0, ParentKnown DEF PublicationInv, PatchInv, Over, Safe, CopyInv
<1>2. /\ m \in Plans /\ m \notin Copies
      /\ \A q \in Plans : q # m => SameRows(q)
      /\ content'[m].answers = u.answers \cup Kept(u)
      /\ content'[m].invitations = content[u.plan].invitations
  BY <1>m, <1>1, FinishPublishWrites, DisjointPlans DEF SameRows
<1>3. /\ publications' \subseteq publications
      /\ solved' = [solved EXCEPT ![u.plan] = u.solved]
      /\ torn' = (torn \ {m}) \cup Reading(m) \cup
           (IF u.plan \in torn \/ \E a \in Kept(u) : a.picked THEN {m} ELSE {})
      /\ UNCHANGED <<parent, request, copied, dirty, patches, job, problem, picks>>
  BY <1>m DEF FinishPublish, WriteLabel, solver
<1>4. \A q \in Plans : q # m => (q \in torn => q \in torn') /\ (q \in Meetings => (q \in torn' <=> q \in torn))
  BY <1>3, DisjointPlans DEF Reading
<1>5. PlanInv(m)'
  <2>1. Available(content'[m].answers)
    BY <1>m, <1>0, <1>2 DEF PublicationInv, Safe, PlanInv, Available, Kept
  <2>2. ASSUME m \notin torn' PROVE InvitedPick(content'[m].answers, content'[m])
    <3>1. u.plan \notin torn /\ \A a \in Kept(u) : ~a.picked
      BY <1>3, <2>2
    <3>2. InvitedPick(u.answers, content[u.plan])
      BY <1>0, <3>1 DEF PublicationInv
    <3> QED
      BY <1>2, <3>1, <3>2 DEF InvitedPick, Invited
  <2> QED
    BY <2>1, <2>2 DEF PlanInv
<1>6. ASSUME NEW q \in Plans, q # m PROVE PlanInv(q)'
  <2>1. PlanInv(q) /\ SameRows(q) /\ (q \in torn => q \in torn')
    BY <1>2, <1>4, <1>6 DEF Safe
  <2> QED
    BY <2>1 DEF PlanInv, SameRows, InvitedPick, Invited
<1>7. ASSUME NEW c \in Copies PROVE CopyInv(c)' /\ Onward(c)
  <2>1. CopyInv(c) /\ c \in Plans /\ c # m
    BY <1>2 DEF Safe, Plans
  <2>2. Same(c) /\ SameRows(c) /\ (c \in torn => c \in torn') /\ Grows(c)
    BY <1>2, <1>3, <1>4, <2>1, RowsGrow DEF Same
  <2>3. SourceGrows(c)
    <3>1. ASSUME request[c] = "reading", c \notin torn', parent[c] \notin torn
          PROVE  parent[c] \notin torn' /\ Grows(parent[c])
      <4>1. parent[c] \in Meetings /\ parent[c] \in Plans
        BY <2>1, <3>1, ParentKnown DEF CopyInv
      <4>2. parent[c] # m
        BY <1>3, <3>1 DEF Reading
      <4> QED
        BY <1>2, <1>4, <3>1, <4>1, <4>2, RowsGrow
    <3> QED
      BY <3>1 DEF SourceGrows
  <2>4. solved'[c] => job[c] = "done"
    BY <1>0, <1>3, <2>1 DEF TypeOK, CopyInv, Phases, PublicationInv, PatchInv
  <2>5. Onward(c)
    BY <1>3, <2>2 DEF Onward
  <2> QED
    BY <2>1, <2>2, <2>3, <2>4, <2>5, Untouched
<1>8. /\ \A v \in patches : PatchInv(v)'
      /\ \A v \in publications : PublicationInv(v)'
  BY <1>7, InFlightKept
<1> QED
  BY <1>3, <1>5, <1>6, <1>7, <1>8 DEF Safe

LEMMA CrashSafe ==
  ASSUME TypeOK, Safe, Crash
  PROVE  Safe'
<1>1. /\ UNCHANGED <<parent, solved, content, copied, dirty, problem, picks, torn>>
      /\ patches' = {} /\ publications' = {}
  BY DEF Crash, database, history
<1>2. ASSUME NEW c \in Copies PROVE CopyInv(c)'
  <2>0. CopyInv(c)
    BY DEF Safe
  <2>1. /\ request'[c] = IF request[c] \in {"posted", "reading", "copied"}
                           THEN "failed" ELSE request[c]
        /\ job'[c] = IF job[c] \in {"none", "done"} THEN job[c] ELSE "failed"
    BY DEF Crash
  <2>2. Phases(c)'
    BY <1>1, <2>0, <2>1 DEF CopyInv, Phases, HasResult, HasPicks
  <2>3. Copied(c)'
    BY <1>1, <2>0, <2>1 DEF CopyInv, Copied
  <2>4. Undecided(c)' /\ Decided(c)'
    BY <1>1, <2>0, <2>1 DEF CopyInv, Undecided, Decided, HasPicks, Written, PicksAmong
  <2> QED
    BY <2>2, <2>3, <2>4 DEF CopyInv
<1>3. ASSUME NEW p \in Plans PROVE PlanInv(p)'
  BY <1>1 DEF Safe, PlanInv
<1> QED
  BY <1>1, <1>2, <1>3 DEF Safe

LEMMA Inductive ==
  /\ Init => IInv
  /\ IInv /\ [Next]_vars => IInv'
<1>1. Init => IInv
  BY InitType, InitSafe DEF IInv, Safe
<1>2. ASSUME IInv, [Next]_vars PROVE Safe'
  <2>0. TypeOK /\ Safe
    BY <1>2 DEF IInv, Safe
  <2>1. CASE UNCHANGED vars
    BY <2>0, <2>1
    DEF vars, database, server, users, solver, bounds, history, Safe, PlanInv, CopyInv,
        Phases, Copied, Undecided, Decided, Written, PatchInv, PublicationInv
  <2>2. ASSUME NEW c \in Copies, NEW m \in Meetings, Post(c, m) PROVE Safe'
    BY <2>0, <2>2, PostSafe, ElsewhereSafe DEF Own
  <2>3. ASSUME NEW c \in Copies, RequestStep(c) PROVE Safe'
    <3>1. Own(c)
      BY <2>0, <2>3, ReadingSafe, SolveSafe, CommitSafe, FailingSafe DEF RequestStep
    <3> QED
      BY <2>0, <2>3, <3>1, ElsewhereSafe DEF Own
  <2>4. ASSUME NEW c \in Copies, SolverStep(c) PROVE Safe'
    <3>1. Own(c)
      BY <2>0, <2>4, FinishSafe, FailingSafe, SavePicksSafe, SaveLocksSafe, SaveSolvedSafe
      DEF SolverStep
    <3> QED
      BY <2>0, <2>4, <3>1, ElsewhereSafe DEF Own
  <2>5. CASE UserStep
    BY <2>0, <2>5, WritesToSafe, LoadingSafe, SavePatchSafe, FinishPublishSafe
    DEF UserStep, WritesTo
  <2> QED
    BY <1>2, <2>0, <2>1, <2>2, <2>3, <2>4, <2>5, CrashSafe DEF Next
<1>3. IInv /\ [Next]_vars => TypeOK'
  BY NextType
<1> QED
  BY <1>1, <1>2, <1>3 DEF IInv, Safe

THEOREM Invariance == Spec => []IInv
BY Inductive, PTL DEF Spec

\* Every variable keeps to its type in every reachable state, whatever the
\* number of meetings, copies, users and slots and whatever events happen.
THEOREM Typing == Spec => []TypeOK
<1>1. IInv => TypeOK
  BY DEF IInv
<1> QED
  BY <1>1, Invariance, PTL

\* No reachable plan, meeting or copy, allocates a user a slot they have
\* marked unavailable.
THEOREM AvailablePicks == Spec => []PickedIsAvailable
<1>1. IInv => PickedIsAvailable
  BY DEF IInv, PlanInv, Available, PickedIsAvailable
<1> QED
  BY <1>1, Invariance, PTL

\* No reachable plan allocates a user who has no invitation to it, unless its
\* answers and its invitations come from two different publications.
THEOREM InvitedPicks == Spec => []AllocatedAreInvited
<1>1. IInv => AllocatedAreInvited
  BY DEF IInv, PlanInv, InvitedPick, AllocatedAreInvited
<1> QED
  BY <1>1, Invariance, PTL

\* A copy labelled solved has locked every user it allocates, whatever falls
\* between the three transactions that save picks, locks and label, unless a
\* publication fell between the reads that made the copy.
THEOREM LockedPicks == Spec => []SolvedPicksAreLocked
<1>1. ASSUME IInv PROVE SolvedPicksAreLocked
  <2>1. SUFFICES ASSUME NEW c \in Copies \ torn, solved[c],
                        NEW a \in content[c].answers, a.picked
                 PROVE  \E i \in content[c].invitations : i.user = a.user /\ i.locked
    BY DEF SolvedPicksAreLocked
  <2>2. CopyInv(c) /\ job[c] = "done"
    BY <1>1, <2>1 DEF IInv, CopyInv, Phases
  <2>3. PICK b \in picks[c] : SameKey(a, b)
    BY <2>1, <2>2 DEF CopyInv, Decided, Written, PicksAmong, HasPicks
  <2> QED
    BY <2>2, <2>3 DEF CopyInv, Decided, SameKey
<1> QED
  BY <1>1, Invariance, PTL

(***************************************************************************)
(* What a step may never do.                                               *)
(***************************************************************************)

\* Generating a roster, from its POST to the label, and a crash in the middle
\* of it, leave every meeting as its users have left it.
THEOREM SourceUntouched == Spec => SourceKept
<1> DEFINE A == (\E c \in Copies : RequestStep(c) \/ SolverStep(c)) \/ Crash =>
                  \A m \in Meetings : content'[m] = content[m]
<1>1. ASSUME IInv, [Next]_vars PROVE A
  <2>0. \A m \in Meetings, c \in Copies : m \in Plans /\ m # c
    BY DisjointPlans DEF Plans
  <2>1. ASSUME NEW c \in Copies, RequestStep(c) \/ SolverStep(c), NEW m \in Meetings
        PROVE  content'[m] = content[m]
    BY <1>1, <2>0, <2>1, Elsewhere DEF IInv, CopyInv
  <2>2. Crash => content' = content
    BY DEF Crash, database
  <2> QED
    BY <2>1, <2>2
<1>2. IInv /\ [Next]_vars => [A]_vars
  BY <1>1
<1> QED
  BY <1>2, Invariance, PTL DEF Spec, SourceKept

\* The label comes off a copy in two ways only: the POST that made it commits
\* counts after the solver's thread has labelled it, which without invitations
\* it does not wait for; or a row that was loaded unlabelled is written back.
THEOREM Reverting == Spec => RevertsOnlyBy
<1> DEFINE B(c) == \/ /\ Commit(c)
                      /\ c \in dirty /\ problem[c] = {} /\ copied[c].invitations = {}
                   \/ \E u \in patches : SavePatch(u) /\ u.plan = c /\ ~u.solved
                   \/ \E u \in publications : FinishPublish(u) /\ u.plan = c /\ ~u.solved
           A == \A c \in Copies : solved[c] /\ ~solved'[c] => B(c)
<1>1. ASSUME IInv, [Next]_vars, NEW c \in Copies, solved[c], ~solved'[c]
      PROVE  B(c)
  <2>0. TypeOK /\ Phases(c) /\ \A d \in Copies : Phases(d)
    BY <1>1 DEF IInv, CopyInv
  <2>1. job[c] = "done" /\ solved' # solved
    BY <1>1, <2>0 DEF Phases
  <2>2. ~ UNCHANGED vars /\ ~ Crash
    BY <2>1 DEF vars, database, Crash
  <2>3. ASSUME NEW d \in Copies, RequestStep(d) \/ SolverStep(d) \/ \E m \in Meetings : Post(d, m)
        PROVE  B(c)
    <3>1. d = c
      BY <1>1, <2>0, <2>3, Elsewhere
    <3>2. ~ \E m \in Meetings : Post(c, m)
      BY <2>0, <2>1 DEF Post, Phases
    <3>3. ~ SolverStep(c)
      BY <2>1 DEF SolverStep, SolverFinish, SolverFail, SavePicks, SavePicksFail,
                  SaveLocks, SaveLocksFail, SaveSolved
    <3>4. Commit(c) /\ c \in dirty
      BY <1>1, <2>0, <2>1, <2>3, <3>1, <3>2, <3>3
      DEF RequestStep, CopySlots, CopyAnswers, Solve, Commit, Abort, TypeOK, database
    <3>5. request[c] = "copied"
      BY <3>4 DEF Commit
    <3> QED
      BY <2>0, <2>1, <3>4, <3>5 DEF Phases, HasPicks
  <2>4. ASSUME NEW u \in patches, SavePatch(u) PROVE B(c)
    <3>1. u.plan \in Copies /\ solved' = [solved EXCEPT ![u.plan] = u.solved]
      BY <2>1, <2>4 DEF SavePatch, WriteLabel
    <3>2. u.plan = c /\ ~u.solved
      BY <1>1, <2>0, <3>1 DEF TypeOK
    <3> QED
      BY <2>4, <3>2
  <2>5. ASSUME NEW u \in publications, FinishPublish(u) PROVE B(c)
    <3>1. solved' = [solved EXCEPT ![u.plan] = u.solved]
      BY <2>5 DEF FinishPublish, WriteLabel
    <3>2. u.plan = c /\ ~u.solved
      BY <1>1, <2>0, <3>1 DEF TypeOK
    <3> QED
      BY <2>5, <3>2
  <2>6. ASSUME NEW p \in Plans, AddTimeSlot(p) \/ Configure(p) PROVE B(c)
    BY <2>1, <2>6 DEF AddTimeSlot, Configure, Edit
  <2>7. ASSUME NEW p \in Plans, NEW v \in Users, Rank(p, v) \/ Invite(p, v) PROVE B(c)
    BY <2>1, <2>7 DEF Rank, Invite, Edit
  <2>8. ASSUME NEW d \in Copies, Publish(d) PROVE B(c)
    BY <2>1, <2>8 DEF Publish
  <2>9. ASSUME NEW u \in publications, CopyBack(u) PROVE B(c)
    BY <2>1, <2>9 DEF CopyBack, database
  <2> QED
    BY <1>1, <2>2, <2>3, <2>4, <2>5, <2>6, <2>7, <2>8, <2>9 DEF Next, UserStep
<1>2. IInv /\ [Next]_vars => [A]_vars
  BY <1>1
<1> QED
  BY <1>2, Invariance, PTL DEF Spec, RevertsOnlyBy
=============================================================================
