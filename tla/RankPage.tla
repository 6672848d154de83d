------------------------------ MODULE RankPage ------------------------------
(***************************************************************************)
(* The schedule on which a respondent ranks time slots: what it shows of   *)
(* the answers of all, what its editor offers and sends, and what becomes  *)
(* of it while others answer and the owner publishes.  One user's page is  *)
(* modelled step by step.  A PUT is one step here, its interleavings are   *)
(* in Preferences; so is publishing, of a copy made a moment before.       *)
(***************************************************************************)
EXTENDS Naturals, FiniteSets

CONSTANTS
  Users, Self,   \* Self: the user of the page
  Ranks,         \* what may be typed as a rank
  NoRank,        \* an empty field, and the null rank
  NoEditor, NoCall,
  MaxId,         \* bound: ids of slots and of answers
  MaxPuts        \* bound: answers sent by all

ASSUME SelfIsUser  == Self \in Users
ASSUME RanksAreNat == Ranks \subseteq Nat /\ NoRank \notin Ranks
ASSUME BoundsAreNat == MaxId \in Nat \ {0} /\ MaxPuts \in Nat

Ids    == 1 .. MaxId
Typed  == Ranks \cup {NoRank}
Answer == [id : Ids, slot : Ids, user : Users, rank : Typed,
           available : BOOLEAN, picked : BOOLEAN]

VARIABLES
  slot,      \* the id of the meeting's time slot: publishing replaces the row
  rows,      \* the answers
  nextId,    \* identity column of the answers
  shown,     \* the slot and the answers on the page
  loading,   \* a fetch is on the way
  editor,    \* the open editor
  call,      \* the PUT of the page on the way
  puts       \* bookkeeping: answers sent so far

server == <<slot, rows, nextId>>
vars   == <<server, shown, loading, editor, call, puts>>

\* own: the user's answer as it was shown when the editor was opened.
Editor == [slot : Ids, rank : Typed, enabled : BOOLEAN, touched : BOOLEAN,
           own : SUBSET Answer]
Put    == [slot : Ids, rank : Typed, touched : BOOLEAN, own : SUBSET Answer,
           served : BOOLEAN, ok : BOOLEAN]
Shown  == [slot : Ids, infos : SUBSET Answer]

-----------------------------------------------------------------------------
(***************************************************************************)
(* What is rendered of the answers to a slot.                              *)
(***************************************************************************)

InfosOf(s) == {x \in rows : x.slot = s}

\* getSelfInfoColor; 2 and 3 are shades of one colour.
Colour(u, infos) ==
  LET own == {x \in infos : x.user = u /\ x.available} IN
    IF own = {} THEN "primary"
    ELSE LET x == CHOOSE y \in own : TRUE IN
      IF x.picked THEN "success"
      ELSE IF x.rank = 0 THEN "primary"
      ELSE IF x.rank \in 1 .. 3 THEN "warning"
      ELSE "error"

\* Slip: whoever has given a rank is counted.
CountedRanked(infos) == {x.user : x \in {y \in infos : y.rank \notin {NoRank, 0}}}

\* getInfoSummary: the users whom the footer counts.
Counted(infos) ==
  {x.user : x \in {y \in infos : y.available /\ y.rank \notin {NoRank, 0}}}

\* The lists of the owner's editor.
PickedList(infos)    == {x.user : x \in {y \in infos : y.available}}
AllocatedList(infos) == {x.user : x \in {y \in infos : y.picked}}

\* Slip: the rank of the first answer, whoever gave it.
AnyRank(u, infos) ==
  IF infos = {} THEN NoRank ELSE (CHOOSE x \in infos : TRUE).rank

\* getSelfRank, be the answer available or not.
SelfRank(u, infos) ==
  LET own == {x \in infos : x.user = u} IN
    IF own = {} THEN NoRank ELSE (CHOOSE x \in own : TRUE).rank

-----------------------------------------------------------------------------
Init ==
  /\ slot \in Ids
  /\ \/ rows = {} /\ nextId = 1
     \/ /\ \E x \in [id : {1}, slot : {slot}, user : Users, rank : Ranks,
                     available : BOOLEAN, picked : {FALSE}] : rows = {x}
        /\ nextId = 2
  /\ shown = [slot |-> slot, infos |-> rows]
  /\ loading = FALSE
  /\ editor = NoEditor
  /\ call = NoCall
  /\ puts = 0

-----------------------------------------------------------------------------
(***************************************************************************)
(* The editor.                                                             *)
(***************************************************************************)

\* The rank starts disabled: the events have no property available.
OpenEditor ==
  /\ editor = NoEditor
  /\ editor' = [slot |-> shown.slot, rank |-> SelfRank(Self, shown.infos),
                enabled |-> FALSE, touched |-> FALSE,
                own |-> {x \in shown.infos : x.user = Self}]
  /\ UNCHANGED <<server, shown, loading, call, puts>>

\* onAvailableChange.
Toggle ==
  /\ editor # NoEditor
  /\ editor' = [editor EXCEPT !.enabled = ~@]
  /\ UNCHANGED <<server, shown, loading, call, puts>>

Enter(r) ==
  /\ editor # NoEditor /\ editor.enabled
  /\ editor' = [editor EXCEPT !.rank = r, !.touched = TRUE]
  /\ UNCHANGED <<server, shown, loading, call, puts>>

Cancel ==
  /\ editor # NoEditor
  /\ editor' = NoEditor
  /\ UNCHANGED <<server, shown, loading, call, puts>>

\* The PUT has the slot and the rank only: whether the switch was on is lost.
Save ==
  /\ editor # NoEditor /\ call = NoCall /\ puts < MaxPuts
  /\ call' = [slot |-> editor.slot, rank |-> editor.rank, touched |-> editor.touched,
              own |-> editor.own, served |-> FALSE, ok |-> FALSE]
  /\ editor' = NoEditor
  /\ puts' = puts + 1
  /\ UNCHANGED <<server, shown, loading>>

-----------------------------------------------------------------------------
(***************************************************************************)
(* The server.                                                             *)
(***************************************************************************)

\* The answer of the id of the slot, which is taken for the one that is meant.
Addressed(s) == {x \in rows : x.id = s}

\* The slot whose answer is saved: an answer that is there keeps its own.
Target(s) == IF Addressed(s) = {} THEN s ELSE (CHOOSE x \in Addressed(s) : TRUE).slot

\* Slip: anybody's answer to the slot.
OwnOfAnyone(u, s) == {x \in rows : x.slot = Target(s)}

Own(u, s) == {x \in rows : x.slot = Target(s) /\ x.user = u}

\* A slot that publishing has replaced can have no new answer; an answer found
\* by its id must not get that of another.
Refused(u, s) ==
  \/ Addressed(s) = {} /\ s # slot
  \/ Addressed(s) # {} /\ Own(u, s) \ Addressed(s) # {}

\* Slip: the row of the user is left beside the new one.
OverwrittenById(u, s) == Addressed(s)

\* The row that is written over.
Overwritten(u, s) == Addressed(s) \cup Own(u, s)

\* Properties the body leaves out take their defaults.
Stored(u, s, r, id) ==
  [id |-> id, slot |-> Target(s), user |-> u, rank |-> r, available |-> TRUE, picked |-> FALSE]

Write(u, s, r) ==
  LET old == Overwritten(u, s) IN
    /\ ~Refused(u, s)
    /\ IF old = {}
       THEN /\ nextId \in Ids
            /\ rows' = rows \cup {Stored(u, s, r, nextId)}
            /\ nextId' = nextId + 1
       ELSE /\ rows' = (rows \ old) \cup {Stored(u, s, r, (CHOOSE x \in old : TRUE).id)}
            /\ UNCHANGED nextId
    /\ UNCHANGED slot

ServePut ==
  /\ call # NoCall /\ ~call.served
  /\ \/ /\ Write(Self, call.slot, call.rank)
        /\ call' = [call EXCEPT !.served = TRUE, !.ok = TRUE]
     \/ /\ Refused(Self, call.slot)
        /\ call' = [call EXCEPT !.served = TRUE]
        /\ UNCHANGED server
  /\ UNCHANGED <<shown, loading, editor, puts>>

\* Another user's page, which may show a slot that has been replaced.
OtherPut(u) ==
  /\ u # Self /\ puts < MaxPuts
  /\ \E s \in 1 .. slot, r \in Typed : Write(u, s, r)
  /\ puts' = puts + 1
  /\ UNCHANGED <<shown, loading, editor, call>>

\* The slot and its answers are inserted anew, with picks of available answers.
Publish ==
  /\ slot + 1 \in Ids /\ nextId + Cardinality(rows) <= MaxId + 1
  /\ slot' = slot + 1
  /\ \E f \in [rows -> nextId .. nextId + Cardinality(rows) - 1] :
       /\ \A x, y \in rows : f[x] = f[y] => x = y
       /\ \E picks \in SUBSET {x \in rows : x.available} :
            rows' = {[x EXCEPT !.id = f[x], !.slot = slot', !.picked = x \in picks] : x \in rows}
  /\ nextId' = nextId + Cardinality(rows)
  /\ UNCHANGED <<shown, loading, editor, call, puts>>

-----------------------------------------------------------------------------
(***************************************************************************)
(* Replies.                                                                *)
(***************************************************************************)

TakePut ==
  /\ call # NoCall /\ call.served
  /\ call' = NoCall
  /\ loading' = (loading \/ call.ok)
  /\ UNCHANGED <<server, shown, editor, puts>>

\* The page is opened again.
Revisit ==
  /\ ~loading /\ editor = NoEditor
  /\ loading' = TRUE
  /\ UNCHANGED <<server, shown, editor, call, puts>>

\* The projection of an answer has an int for its rank: one answer without a
\* rank, and the schedule of the meeting cannot be fetched any more.
Loadable == \A x \in InfosOf(slot) : x.rank # NoRank

Fetch ==
  /\ loading
  /\ loading' = FALSE
  /\ shown' = IF Loadable THEN [slot |-> slot, infos |-> InfosOf(slot)] ELSE shown
  /\ UNCHANGED <<server, editor, call, puts>>

-----------------------------------------------------------------------------
Next ==
  \/ OpenEditor \/ Toggle \/ Cancel \/ Save \/ Revisit
  \/ \E r \in Typed : Enter(r)
  \/ ServePut \/ TakePut \/ Fetch \/ Publish
  \/ \E u \in Users : OtherPut(u)

Spec == Init /\ [][Next]_vars

-----------------------------------------------------------------------------
(***************************************************************************)
(* Properties.                                                             *)
(***************************************************************************)

\* Every variable keeps to its type; nobody has two answers to a slot.
TypeOK ==
  /\ slot \in Ids
  /\ rows \subseteq Answer
  /\ \A x, y \in rows : x.id = y.id \/ (x.slot = y.slot /\ x.user = y.user) => x = y
  /\ nextId \in 1 .. MaxId + 1
  /\ shown \in Shown
  /\ loading \in BOOLEAN
  /\ editor \in Editor \cup {NoEditor}
  /\ call \in Put \cup {NoCall}
  /\ puts \in 0 .. MaxPuts

\* The page does not contradict itself: the footer counts the user exactly when
\* the colour says that a rank was given, or an allocation with a rank; the
\* colour says allocated exactly when the owner's editor lists the user so; and
\* all who are counted are in the owner's list of those who picked the slot.
PageAgrees ==
  LET infos == shown.infos IN
    /\ Colour(Self, infos) \in {"warning", "error"} => Self \in Counted(infos)
    /\ Colour(Self, infos) = "primary" => Self \notin Counted(infos)
    /\ Colour(Self, infos) = "success" <=> Self \in AllocatedList(infos)
    /\ Counted(infos) \subseteq PickedList(infos)

\* Opening the editor and saving without entering a rank leaves the answer with
\* the rank it was shown with, unless the answer has changed since: an answer
\* that was shown is not blanked by a look at it.
UntouchedKeepsRank ==
  [][call # NoCall /\ call' # NoCall /\ call' # call /\ ~call.touched =>
       \A x \in rows \cap call.own : \A y \in rows' :
         y.id = x.id => y.rank = x.rank]_vars

\* An allocation is lost only when its user answers again, when a roster is
\* published, or when somebody's PUT is addressed to it by the id of a slot.
PicksKept ==
  [][slot' = slot =>
       \A x \in {y \in rows : y.picked} : x \notin rows' =>
         \/ \E y \in rows' : y.id = x.id /\ y.user = x.user
         \/ IF call' = call THEN x.id \in 1 .. slot ELSE x.id = call.slot]_vars

-----------------------------------------------------------------------------
(***************************************************************************)
(* The invariant behind these properties, which are not inductive.         *)
(***************************************************************************)

\* Of the answers there are: an id is not given twice, publishing takes all of
\* them to the new slot, and only who is available is allocated.
RowsInv ==
  \A x \in rows : /\ x.id < nextId
                  /\ x.slot = slot
                  /\ x.picked => x.available

\* Of those that are shown: one of each user, each with a rank.
ShownInv ==
  /\ \A x, y \in shown.infos : x.user = y.user => x = y
  /\ \A x \in shown.infos : (x.picked => x.available) /\ x.rank # NoRank

\* A rank that nobody has typed is the one that was shown.
Unchanged(form) == ~form.touched => \A x \in form.own : x.rank = form.rank

IInv ==
  /\ TypeOK
  /\ RowsInv
  /\ ShownInv
  /\ editor # NoEditor => Unchanged(editor)
  /\ call # NoCall => Unchanged(call)
=============================================================================
