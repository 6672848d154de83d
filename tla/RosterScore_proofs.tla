------------------------- MODULE RosterScore_proofs -------------------------
(***************************************************************************)
(* Proofs about RosterScore: no hard penalty means a feasible roster, for  *)
(* any number of users, slots and answers.                                 *)
(***************************************************************************)
EXTENDS RosterScore, FiniteSetTheorems, TLAPS

\* A set of images of a finite set is finite, given the function.
LEMMA ImageFinite ==
  ASSUME NEW S, IsFiniteSet(S), NEW T, NEW f \in [S -> T],
         \A t \in T : \E s \in S : f[s] = t
  PROVE  IsFiniteSet(T)
BY FS_Surjection DEF Surjection

LEMMA AssignmentsFinite ==
  ASSUME NEW answers \in SUBSET (Slots \X Users), NEW lockedUsers,
         NEW rank, NEW picked
  PROVE  IsFiniteSet(AssignmentsFor(answers, rank, picked, lockedUsers))
<1> DEFINE row(x) == [slot |-> x[1], user |-> x[2], rank |-> rank[x],
                      previous |-> x \in picked, locked |-> x[2] \in lockedUsers]
           T == AssignmentsFor(answers, rank, picked, lockedUsers)
           f == [x \in answers |-> row(x)]
<1>1. IsFiniteSet(answers)
  BY SmallProblem, FS_Product, FS_Subset
<1>2. T = {row(x) : x \in answers}
  BY DEF AssignmentsFor
<1>3. f \in [answers -> T] /\ \A t \in T : \E x \in answers : f[x] = t
  BY <1>2
<1> HIDE DEF f, T
<1>4. IsFiniteSet(T)
  BY <1>1, <1>3, ImageFinite
<1> QED
  BY <1>4 DEF T

LEMMA AssignmentsType ==
  ASSUME NEW answers \in SUBSET (Slots \X Users), NEW lockedUsers,
         NEW rank \in [answers -> Ranks], NEW picked
  PROVE  AssignmentsFor(answers, rank, picked, lockedUsers) \in SUBSET Assignment
<1>1. ASSUME NEW x \in answers, NEW p \in BOOLEAN, NEW q \in BOOLEAN
      PROVE  [slot |-> x[1], user |-> x[2], rank |-> rank[x],
              previous |-> p, locked |-> q] \in Assignment
  BY DEF Assignment
<1>2. \A x : (x \in picked) \in BOOLEAN /\ (x[2] \in lockedUsers) \in BOOLEAN
  OBVIOUS
<1> QED
  BY <1>1, <1>2 DEF AssignmentsFor

\* Typing, with the finiteness that the counts need.
Typed == TypeOK /\ IsFiniteSet(assignments)

LEMMA TypedInvariant == Spec => []Typed
<1>1. Init => Typed
  <2> SUFFICES ASSUME Init PROVE Typed
    OBVIOUS
  <2>1. PICK answers \in SUBSET (Slots \X Users), lockedUsers \in SUBSET Users :
          \E rank \in [answers -> Ranks], picked \in SUBSET answers :
            assignments = AssignmentsFor(answers, rank, picked, lockedUsers)
    BY DEF Init
  <2>2. PICK rank \in [answers -> Ranks], picked \in SUBSET answers :
          assignments = AssignmentsFor(answers, rank, picked, lockedUsers)
    BY <2>1
  <2>3. assignments \in SUBSET Assignment /\ IsFiniteSet(assignments)
    BY <2>2, AssignmentsFinite, AssignmentsType
  <2> QED
    BY <2>3 DEF Init, Typed, TypeOK
<1>2. Typed /\ [Next]_vars => Typed'
  <2> SUFFICES ASSUME Typed, [Next]_vars PROVE Typed'
    OBVIOUS
  <2>1. CASE Construct
    BY <2>1 DEF Construct, Typed, TypeOK, problem
  <2>2. CASE ChangeMove
    BY <2>2 DEF ChangeMove, Typed, TypeOK, problem
  <2>3. CASE UNCHANGED vars
    BY <2>3 DEF vars, problem, Typed, TypeOK
  <2> QED
    BY <2>1, <2>2, <2>3 DEF Next
<1> QED
  BY <1>1, <1>2, PTL DEF Spec

\* Every value keeps to its type: an assignment is never considered before it
\* has been initialized.
THEOREM ScoreTyping == Spec => []TypeOK
<1>1. Typed => TypeOK
  BY DEF Typed
<1> QED
  BY <1>1, TypedInvariant, PTL

\* The counts are natural numbers.
LEMMA CountsAreNat ==
  ASSUME Typed
  PROVE  /\ IsFiniteSet(considered)
         /\ \A u : CountOf(u) \in Nat
         /\ \A s : Attendance(s) \in Nat
         /\ \A s : {a \in considered : a.slot = s} = {} => Attendance(s) = 0
<1>1. IsFiniteSet(considered)
  BY FS_Subset DEF Typed, TypeOK
<1>2. \A u : IsFiniteSet({a \in considered : a.user = u})
  BY <1>1, FS_Subset
<1>3. \A s : IsFiniteSet({a \in considered : a.slot = s})
  BY <1>1, FS_Subset
<1> QED
  BY <1>1, <1>2, <1>3, FS_CardinalityType, FS_EmptySet DEF CountOf, Attendance

\* Each of the three hard penalties counts a finite set.
LEMMA PenaltiesFinite ==
  ASSUME Typed
  PROVE  IsFiniteSet(LockedOut) /\ IsFiniteSet(WrongCounts) /\ IsFiniteSet(Overfull)
<1>0. IsFiniteSet(valued) /\ IsFiniteSet(considered)
  BY CountsAreNat, FS_Subset DEF Typed, TypeOK
<1>1. IsFiniteSet(LockedOut)
  BY <1>0, FS_Subset DEF LockedOut
<1>2. IsFiniteSet(UserCounts)
  <2> DEFINE f == [a \in valued |-> <<a.user, CountOf(a.user)>>]
             T == UserCounts
  <2>1. f \in [valued -> T] /\ \A t \in T : \E a \in valued : f[a] = t
    BY DEF UserCounts
  <2> HIDE DEF f, T
  <2>2. IsFiniteSet(T)
    BY <1>0, <2>1, ImageFinite
  <2> QED
    BY <2>2 DEF T
<1>3. IsFiniteSet(Exceeds)
  <2> DEFINE f == [a \in considered |-> Attendance(a.slot) - capacity[a.slot]]
             T == Exceeds
  <2>1. f \in [considered -> T] /\ \A t \in T : \E a \in considered : f[a] = t
    BY DEF Exceeds
  <2> HIDE DEF f, T
  <2>2. IsFiniteSet(T)
    BY <1>0, <2>1, ImageFinite
  <2> QED
    BY <2>2 DEF T
<1> QED
  BY <1>1, <1>2, <1>3, FS_Subset DEF WrongCounts, Overfull

LEMMA NoPenaltyMeansEmpty ==
  ASSUME Typed
  PROVE  HardPenalty = 0 <=> LockedOut = {} /\ WrongCounts = {} /\ Overfull = {}
<1>1. /\ Cardinality(LockedOut) \in Nat
      /\ Cardinality(WrongCounts) \in Nat
      /\ Cardinality(Overfull) \in Nat
  BY PenaltiesFinite, FS_CardinalityType
<1>2. /\ Cardinality(LockedOut) = 0 <=> LockedOut = {}
      /\ Cardinality(WrongCounts) = 0 <=> WrongCounts = {}
      /\ Cardinality(Overfull) = 0 <=> Overfull = {}
  BY PenaltiesFinite, FS_EmptySet
<1> QED
  BY <1>1, <1>2 DEF HardPenalty

\* No hard penalty exactly when the roster is feasible, for every problem and
\* every schedule: grouping slots by how far they are exceeded loses none.
THEOREM FeasibleRosters == Spec => []HardIsFeasible
<1>1. ASSUME Typed, valued = assignments
      PROVE  HardPenalty = 0 <=> AllocationsKept /\ CountsWithin /\ NobodyExtra
  <2>1. LockedOut = {} <=> AllocationsKept
    BY <1>1 DEF LockedOut, AllocationsKept
  <2>2. WrongCounts = {} <=> CountsWithin
    <3>1. ASSUME WrongCounts = {}, NEW a \in assignments
          PROVE  Within(CountOf(a.user))
      <4>1. <<a.user, CountOf(a.user)>> \in UserCounts
        BY <1>1, <3>1 DEF UserCounts
      <4> QED
        BY <3>1, <4>1 DEF WrongCounts
    <3>2. ASSUME CountsWithin, NEW t \in UserCounts
          PROVE  Within(t[2])
      <4>1. PICK a \in valued : t = <<a.user, CountOf(a.user)>>
        BY DEF UserCounts
      <4>2. t[2] = CountOf(a.user)
        BY <4>1
      <4> QED
        BY <1>1, <3>2, <4>2 DEF CountsWithin
    <3> QED
      BY <3>1, <3>2 DEF CountsWithin, WrongCounts
  <2>3. Overfull = {} <=> NobodyExtra
    <3>1. \A s \in Slots : Attendance(s) \in Nat /\ capacity[s] \in Nat
      BY <1>1, CountsAreNat, CountIsNat DEF Typed, TypeOK, Counts
    <3>2. ASSUME NobodyExtra PROVE Overfull = {}
      <4>1. \A a \in considered : a.slot \in Slots
        BY <1>1 DEF Typed, TypeOK, Assignment
      <4>2. \A e \in Exceeds : ~(e > 0)
        <5>1. \A s \in Slots : ~(Attendance(s) - capacity[s] > 0)
          BY <3>1, <3>2 DEF NobodyExtra
        <5> QED
          BY <4>1, <5>1 DEF Exceeds
      <4> QED
        BY <4>2 DEF Overfull
    <3>3. ASSUME Overfull = {}, NEW s \in Slots
          PROVE  Attendance(s) <= capacity[s]
      <4>1. CASE {a \in considered : a.slot = s} = {}
        BY <1>1, <3>1, <4>1, CountsAreNat
      <4>2. CASE \E a \in considered : a.slot = s
        <5>1. Attendance(s) - capacity[s] \in Exceeds
          BY <4>2 DEF Exceeds
        <5> QED
          BY <3>1, <3>3, <5>1 DEF Overfull
      <4> QED
        BY <4>1, <4>2
    <3> QED
      BY <3>2, <3>3 DEF NobodyExtra
  <2> QED
    BY <1>1, <2>1, <2>2, <2>3, NoPenaltyMeansEmpty
<1>2. Typed => HardIsFeasible
  BY <1>1 DEF HardIsFeasible
<1> QED
  BY <1>2, TypedInvariant, PTL
=============================================================================
