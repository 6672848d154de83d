----------------------------- MODULE RosterScore -----------------------------
(***************************************************************************)
(* How a roster is scored while the solver builds and improves it:         *)
(* RosterPlanConstraintProvider over the assignments of RosterPlanSolution.*)
(*                                                                         *)
(* A problem is fixed at the start.  The construction heuristic gives the  *)
(* assignments a value one after the other, local search then changes one  *)
(* value at a time; which of the values it prefers is left open.           *)
(***************************************************************************)
EXTENDS Integers, FiniteSets, FiniteSetsExt

CONSTANTS
  Users, Slots,
  Ranks,      \* the ranks users give, NoRank among them
  NoRank,     \* the null rank
  MaxCount    \* bound: the largest capacity and allocation count tried

ASSUME RanksAreNat  == Ranks \subseteq Nat \cup {NoRank}
ASSUME CountIsNat   == MaxCount \in Nat
ASSUME SmallProblem == IsFiniteSet(Users) /\ IsFiniteSet(Slots) /\ IsFiniteSet(Ranks)

Counts == 1 .. MaxCount

\* previous: the answer was picked already; locked: its user's invitation is.
Assignment == [slot : Slots, user : Users, rank : Ranks,
               previous : BOOLEAN, locked : BOOLEAN]

VARIABLES
  assignments,  \* the available answers of the users invited
  capacity,     \* capacity[s]
  limits,       \* the allocation counts of the plan's configuration
  valued,       \* assignments whose planning variable is not null
  considered    \* those of them that are considered

problem == <<assignments, capacity, limits>>
vars    == <<problem, valued, considered>>

\* The assignments for some answers, one per slot and user: their ranks,
\* which are picked, and whose users are locked.
AssignmentsFor(answers, rank, picked, lockedUsers) ==
  {[slot |-> x[1], user |-> x[2], rank |-> rank[x],
    previous |-> x \in picked, locked |-> x[2] \in lockedUsers] : x \in answers}

Init ==
  /\ \E answers \in SUBSET (Slots \X Users), lockedUsers \in SUBSET Users :
       \E rank \in [answers -> Ranks], picked \in SUBSET answers :
         assignments = AssignmentsFor(answers, rank, picked, lockedUsers)
  /\ capacity \in [Slots -> Counts]
  /\ limits \in [min : Counts, max : Counts]
  /\ valued = {}
  /\ considered = {}

\* Slip: the value is set and not recorded.
ConstructUnrecorded ==
  \E a \in assignments \ valued :
    /\ considered' \in {considered, considered \cup {a}}
    /\ UNCHANGED <<problem, valued>>

\* The construction heuristic initializes an assignment.
Construct ==
  \E a \in assignments \ valued :
    /\ valued' = valued \cup {a}
    /\ considered' \in {considered, considered \cup {a}}
    /\ UNCHANGED problem

\* A change move of local search, which starts from an initialized solution.
ChangeMove ==
  /\ valued = assignments
  /\ \E a \in assignments :
       considered' = IF a \in considered THEN considered \ {a}
                                         ELSE considered \cup {a}
  /\ UNCHANGED <<problem, valued>>

Next == Construct \/ ChangeMove
Spec == Init /\ [][Next]_vars

-----------------------------------------------------------------------------
(***************************************************************************)
(* The constraint streams.  forEach skips an assignment without a value;   *)
(* groupBy yields one tuple for each distinct key, and so do the groups of *)
(* the groups.                                                             *)
(***************************************************************************)

\* assignmentUserLockedConstraint.
LockedOut == {a \in valued \ considered : a.previous /\ a.locked}

\* userSizeConstraint.  Range.between takes its bounds in either order.
CountOf(u)  == Cardinality({a \in considered : a.user = u})
UserCounts  == {<<u, CountOf(u)>> : u \in {a.user : a \in valued}}
Within(n)   == \/ limits.min <= n /\ n <= limits.max
               \/ limits.max <= n /\ n <= limits.min
WrongCounts == {t \in UserCounts : ~Within(t[2])}

\* timeSlotCapacityConstraint.  Slots exceeded by the same number share a
\* tuple after the second groupBy.
Attendance(s) == Cardinality({a \in considered : a.slot = s})
Exceeds       == {Attendance(s) - capacity[s] : s \in {a.slot : a \in considered}}
OverfullByTwo == {e \in Exceeds : e > 1}   \* Slip: off by one.
Overfull      == {e \in Exceeds : e > 0}

HardPenalty ==
  Cardinality(LockedOut) + Cardinality(WrongCounts) + Cardinality(Overfull)

\* assignmentRankConstraint: the rank, 10 if there is none.
RankCost(a) == IF a.rank = NoRank THEN 10 ELSE a.rank
SoftPenaltyOfRanks == SumSet({RankCost(a) : a \in considered})   \* Slip: by group.
SoftPenalty == MapThenSumSet(RankCost, considered)

-----------------------------------------------------------------------------
(***************************************************************************)
(* Properties.                                                             *)
(***************************************************************************)

\* Values of the right type; only initialized assignments are considered.
TypeOK ==
  /\ assignments \in SUBSET Assignment
  /\ capacity \in [Slots -> Counts]
  /\ limits \in [min : Counts, max : Counts]
  /\ valued \in SUBSET assignments
  /\ considered \in SUBSET valued

\* What the four constraints are there for.
AllocationsKept == \A a \in assignments : a.previous /\ a.locked => a \in considered
CountsWithin    == \A a \in assignments : Within(CountOf(a.user))
NobodyExtra     == \A s \in Slots : Attendance(s) <= capacity[s]

\* A schedule has no hard penalty exactly when every locked allocation is
\* kept, every user with an answer is within the limits and no slot is over
\* its capacity: no group is lost, though slots may share one.
HardIsFeasible ==
  valued = assignments =>
    (HardPenalty = 0 <=> AllocationsKept /\ CountsWithin /\ NobodyExtra)

\* The soft penalty counts every assignment by itself: considering one more
\* costs its rank, also when others of the same rank are considered.
SoftIsByRank ==
  [][\A a \in considered' \ considered :
        SoftPenalty' = SoftPenalty + RankCost(a)]_vars
=============================================================================
