---------------------------- MODULE RankPage_proofs ----------------------------
(***************************************************************************)
(* Proofs about RankPage, for every value of its constants.                *)
(***************************************************************************)
EXTENDS RankPage, FiniteSetTheorems, TLAPS

(***************************************************************************)
(* The table of answers.                                                   *)
(***************************************************************************)

\* What the invariant says of the table alone.
TableOK ==
  /\ slot \in Ids
  /\ rows \subseteq Answer
  /\ \A x, y \in rows : x.id = y.id \/ (x.slot = y.slot /\ x.user = y.user) => x = y
  /\ nextId \in 1 .. MaxId + 1
  /\ RowsInv

\* What it says of the rest.
PageOK ==
  /\ shown \in Shown
  /\ loading \in BOOLEAN
  /\ editor \in Editor \cup {NoEditor}
  /\ call \in Put \cup {NoCall}
  /\ puts \in 0 .. MaxPuts
  /\ ShownInv
  /\ editor # NoEditor => Unchanged(editor)
  /\ call # NoCall => Unchanged(call)

LEMMA Parts == IInv <=> TableOK /\ PageOK
BY DEF IInv, TypeOK, TableOK, PageOK

\* A PUT writes one row, over the one it is addressed to or that its user has.
Writes(u, s, r, n) ==
  /\ n \in Answer
  /\ n.slot = slot /\ n.user = u /\ n.rank = r /\ n.available /\ ~n.picked
  /\ slot' = slot
  /\ \A x : x \in rows' <=> (x \in rows /\ x.id # n.id) \/ x = n
  /\ \A x \in rows : x.user = u => x.id = n.id
  /\ \A x \in rows : x.id = n.id => x.id = s \/ x.user = u
  /\ \/ n.id = nextId /\ nextId' = nextId + 1
     \/ n.id < nextId /\ nextId' = nextId

LEMMA WriteWrites ==
  ASSUME TableOK, NEW u \in Users, NEW s \in Ids, NEW r \in Typed, Write(u, s, r)
  PROVE  \E n : Writes(u, s, r, n)
<1> DEFINE old == Overwritten(u, s)
<1>1. /\ nextId \in Nat /\ MaxId \in Nat /\ slot' = slot
      /\ \A x \in rows : x \in Answer /\ x.id \in Nat /\ x.id < nextId /\ x.slot = slot
  BY BoundsAreNat DEF TableOK, RowsInv, Answer, Ids, Write
<1>2. Target(s) = slot
  <2>1. CASE Addressed(s) = {}
    BY <2>1 DEF Target, Write, Refused
  <2>2. CASE Addressed(s) # {}
    <3>1. (CHOOSE x \in Addressed(s) : TRUE) \in Addressed(s)
      BY <2>2
    <3> QED
      BY <1>1, <2>2, <3>1 DEF Target, Addressed
  <2> QED
    BY <2>1, <2>2
<1>3. old \subseteq rows /\ \A x \in old : x.id = s \/ x.user = u
  BY DEF Overwritten, Addressed, Own
<1>4. \A x, y \in old : x = y
  <2>1. \A x, y \in Addressed(s) : x = y
    BY DEF TableOK, Addressed
  <2>2. \A x, y \in Own(u, s) : x = y
    BY DEF TableOK, Own
  <2>3. Addressed(s) = {} \/ Own(u, s) \subseteq Addressed(s)
    BY DEF Write, Refused
  <2> QED
    BY <2>1, <2>2, <2>3 DEF Overwritten
<1>5. \A x \in rows : x.user = u => x \in old
  BY <1>1, <1>2 DEF Overwritten, Own
<1>6. ASSUME NEW i \in Ids
      PROVE  LET n == Stored(u, s, r, i) IN
               /\ n \in Answer
               /\ n.slot = slot /\ n.user = u /\ n.rank = r /\ n.available /\ ~n.picked
               /\ n.id = i
  BY <1>2 DEF Stored, Answer, TableOK
<1>7. CASE old = {}
  <2> DEFINE n == Stored(u, s, r, nextId)
  <2>1. nextId \in Ids /\ rows' = rows \cup {n} /\ nextId' = nextId + 1
    BY <1>7 DEF Write
  <2>2. /\ n \in Answer /\ n.slot = slot /\ n.user = u /\ n.rank = r
        /\ n.available /\ ~n.picked /\ n.id = nextId
    BY <1>6, <2>1
  <2>3. \A x \in rows : x.id # nextId /\ x.user # u
    BY <1>1, <1>5, <1>7
  <2> HIDE DEF n, old
  <2> QED
    BY <1>1, <2>1, <2>2, <2>3 DEF Writes
<1>8. CASE old # {}
  <2>1. PICK x \in old : x = CHOOSE y \in old : TRUE
    BY <1>8
  <2> DEFINE n == Stored(u, s, r, x.id)
  <2>2. rows' = (rows \ old) \cup {n} /\ nextId' = nextId
    BY <1>8, <2>1 DEF Write
  <2>3. x \in rows /\ x.id \in Ids /\ old = {x}
    BY <1>1, <1>3, <1>4 DEF Answer
  <2>4. /\ n \in Answer /\ n.slot = slot /\ n.user = u /\ n.rank = r
        /\ n.available /\ ~n.picked /\ n.id = x.id
    BY <1>6, <2>3
  <2>5. \A y \in rows : y.id = x.id => y = x
    BY <2>3 DEF TableOK
  <2> HIDE DEF n, old
  <2> QED
    BY <1>1, <1>3, <1>5, <2>2, <2>3, <2>4, <2>5 DEF Writes
<1> QED
  BY <1>7, <1>8

LEMMA WriteTable ==
  ASSUME TableOK, NEW u \in Users, NEW s \in Ids, NEW r \in Typed, Write(u, s, r)
  PROVE  TableOK'
<1>1. PICK n : Writes(u, s, r, n)
  BY WriteWrites
<1>2. nextId \in Nat /\ MaxId \in Nat /\ n.id \in Ids /\ n.id \in Nat
  BY <1>1, BoundsAreNat DEF Writes, TableOK, Answer, Ids
<1>3. rows' \subseteq Answer /\ slot' \in Ids
  BY <1>1 DEF Writes, TableOK
<1>4. nextId' \in 1 .. MaxId + 1
  BY <1>1, <1>2 DEF Writes, TableOK, Ids
<1>5. ASSUME NEW x \in rows', NEW y \in rows',
             x.id = y.id \/ (x.slot = y.slot /\ x.user = y.user)
      PROVE  x = y
  BY <1>1, <1>5 DEF Writes, TableOK
<1>6. ASSUME NEW x \in rows'
      PROVE  x.id < nextId' /\ x.slot = slot' /\ (x.picked => x.available)
  <2>1. CASE x = n
    BY <1>1, <1>2, <2>1 DEF Writes
  <2>2. CASE x \in rows
    <3>1. x.id \in Nat /\ x.id < nextId /\ x.slot = slot /\ (x.picked => x.available)
      BY <2>2 DEF TableOK, RowsInv, Answer, Ids
    <3> QED
      BY <1>1, <1>2, <3>1 DEF Writes
  <2> QED
    BY <1>1, <2>1, <2>2 DEF Writes
<1> QED
  BY <1>3, <1>4, <1>5, <1>6 DEF TableOK, RowsInv

\* There are no more answers than ids.
LEMMA RowsFinite ==
  ASSUME TableOK
  PROVE  IsFiniteSet(rows) /\ Cardinality(rows) \in Nat
<1> DEFINE f == [x \in rows |-> x.id]
<1>1. IsFiniteSet(Ids)
  BY FS_Interval, BoundsAreNat DEF Ids
<1>2. f \in Injection(rows, Ids)
  BY DEF TableOK, Answer, Injection, IsInjective
<1>3. IsFiniteSet(rows)
  BY <1>1, <1>2, FS_Injection
<1> QED
  BY <1>3, FS_CardinalityType

\* Publishing numbers the answers anew, for another slot.
LEMMA PublishTable ==
  ASSUME TableOK, Publish
  PROVE  TableOK'
<1> DEFINE k == Cardinality(rows)
<1>1. k \in Nat /\ nextId \in Nat /\ nextId >= 1 /\ MaxId \in Nat
  BY RowsFinite, BoundsAreNat DEF TableOK
<1> HIDE DEF k
<1>2. PICK f \in [rows -> nextId .. nextId + k - 1] :
        /\ \A x, y \in rows : f[x] = f[y] => x = y
        /\ \E picks \in SUBSET {x \in rows : x.available} :
             rows' = {[x EXCEPT !.id = f[x], !.slot = slot', !.picked = x \in picks] : x \in rows}
  BY DEF Publish, k
<1>3. PICK picks \in SUBSET {x \in rows : x.available} :
        rows' = {[x EXCEPT !.id = f[x], !.slot = slot', !.picked = x \in picks] : x \in rows}
  BY <1>2
<1>4. slot' \in Ids /\ nextId' = nextId + k /\ nextId + k <= MaxId + 1
  BY DEF Publish, k, Ids, TableOK
<1>5. ASSUME NEW x \in rows
      PROVE  f[x] \in Ids /\ f[x] < nextId' /\ f[x] \in Nat
  <2>1. f[x] \in nextId .. nextId + k - 1
    BY <1>2
  <2> QED
    BY <1>1, <1>4, <2>1 DEF Ids
<1> DEFINE new(x) == [x EXCEPT !.id = f[x], !.slot = slot', !.picked = x \in picks]
<1>6. ASSUME NEW x \in rows
      PROVE  /\ new(x) \in Answer /\ new(x).id = f[x] /\ new(x).slot = slot'
             /\ new(x).user = x.user /\ (new(x).picked => x \in picks)
             /\ new(x).available = x.available
  <2>1. \E b \in BOOLEAN : /\ new(x) = [x EXCEPT !.id = f[x], !.slot = slot', !.picked = b]
                           /\ b => x \in picks
    <3>1. CASE x \in picks
      <4>1. (x \in picks) = TRUE
        BY <3>1
      <4>2. new(x) = [x EXCEPT !.id = f[x], !.slot = slot', !.picked = TRUE]
        BY <4>1
      <4> QED
        BY <3>1, <4>2
    <3>2. CASE x \notin picks
      <4>1. (x \in picks) = FALSE
        BY <3>2
      <4>2. new(x) = [x EXCEPT !.id = f[x], !.slot = slot', !.picked = FALSE]
        BY <4>1
      <4> QED
        BY <4>2
    <3> QED
      BY <3>1, <3>2
  <2> HIDE DEF new
  <2> QED
    BY <1>4, <1>5, <2>1 DEF TableOK, Answer
<1>7. \A y \in rows' : \E x \in rows : y = new(x)
  BY <1>3
<1> HIDE DEF new
<1>8. rows' \subseteq Answer
  BY <1>6, <1>7
<1>9. ASSUME NEW v \in rows', NEW w \in rows', v.id = w.id \/ v.user = w.user
      PROVE  v = w
  <2>1. PICK x \in rows, y \in rows : v = new(x) /\ w = new(y)
    BY <1>7
  <2>2. f[x] = f[y] \/ x.user = y.user
    BY <1>6, <1>9, <2>1
  <2>3. x.slot = y.slot
    BY DEF TableOK, RowsInv
  <2>4. x = y
    BY <1>2, <2>2, <2>3 DEF TableOK
  <2> QED
    BY <2>1, <2>4
<1>10. ASSUME NEW v \in rows'
       PROVE  v.id < nextId' /\ v.slot = slot' /\ (v.picked => v.available)
  <2>1. PICK x \in rows : v = new(x)
    BY <1>7
  <2>2. x \in picks => x.available
    BY <1>3
  <2>3. v.id = f[x] /\ v.slot = slot'
    BY <1>6, <2>1
  <2>4. v.picked => v.available
    BY <1>6, <2>1, <2>2
  <2> QED
    BY <1>5, <2>3, <2>4
<1>11. nextId' \in 1 .. MaxId + 1
  BY <1>1, <1>4
<1> QED
  BY <1>4, <1>8, <1>9, <1>10, <1>11 DEF TableOK, RowsInv

(***************************************************************************)
(* Invariance.                                                             *)
(***************************************************************************)

LEMMA InitInv == Init => IInv
<1> SUFFICES ASSUME Init PROVE IInv
  OBVIOUS
<1>1. slot \in Ids /\ 1 \in Ids
  BY BoundsAreNat DEF Init, Ids
<1>2. TableOK /\ \A x \in rows : x.rank \in Ranks /\ \A y \in rows : x = y
  <2>1. CASE rows = {} /\ nextId = 1
    BY <1>1, <2>1, BoundsAreNat DEF TableOK, RowsInv
  <2>2. ASSUME NEW x \in [id : {1}, slot : {slot}, user : Users, rank : Ranks,
                          available : BOOLEAN, picked : {FALSE}],
               rows = {x}, nextId = 2
        PROVE  TableOK /\ \A y \in rows : y.rank \in Ranks /\ \A z \in rows : y = z
    <3>1. x \in Answer /\ x.id = 1 /\ x.slot = slot /\ ~x.picked /\ x.rank \in Ranks
      BY <1>1, <2>2 DEF Answer, Typed
    <3>2. nextId \in 1 .. MaxId + 1
      BY <2>2, BoundsAreNat
    <3>3. RowsInv
      BY <2>2, <3>1 DEF RowsInv
    <3>4. rows \subseteq Answer /\ \A y, z \in rows : y = z
      BY <2>2, <3>1
    <3>5. TableOK
      BY <1>1, <3>2, <3>3, <3>4 DEF TableOK
    <3> QED
      BY <2>2, <3>1, <3>5
  <2> QED
    BY <2>1, <2>2 DEF Init
<1>3. PageOK
  <2>1. shown = [slot |-> slot, infos |-> rows]
    BY DEF Init
  <2>2. shown.infos = rows /\ rows \subseteq Answer /\ shown \in Shown
    BY <1>1, <1>2, <2>1 DEF Shown, TableOK
  <2>3. ShownInv
    BY <1>2, <2>2, RanksAreNat DEF ShownInv, TableOK, RowsInv
  <2>4. puts \in 0 .. MaxPuts
    BY BoundsAreNat DEF Init
  <2> QED
    BY <2>2, <2>3, <2>4 DEF PageOK, Init
<1> QED
  BY <1>2, <1>3, Parts

\* The editor opens with the rank that is shown.
LEMMA OpenEditorInv ==
  ASSUME PageOK, OpenEditor
  PROVE  PageOK'
<1> DEFINE own == {x \in shown.infos : x.user = Self}
<1>1. shown.slot \in Ids /\ shown.infos \subseteq Answer /\ own \subseteq shown.infos
  BY DEF PageOK, Shown
<1>2. SelfRank(Self, shown.infos) \in Typed /\ \A x \in own : x.rank = SelfRank(Self, shown.infos)
  <2>1. CASE own = {}
    BY <2>1 DEF SelfRank, Typed
  <2>2. CASE own # {}
    <3>1. PICK x \in own : x = CHOOSE y \in own : TRUE
      BY <2>2
    <3>2. \A y \in own : y = x
      BY <1>1 DEF PageOK, ShownInv
    <3> QED
      BY <1>1, <2>2, <3>1, <3>2 DEF SelfRank, Answer
  <2> QED
    BY <2>1, <2>2
<1>3. /\ editor' = [slot |-> shown.slot, rank |-> SelfRank(Self, shown.infos),
                    enabled |-> FALSE, touched |-> FALSE, own |-> own]
      /\ UNCHANGED <<server, shown, loading, call, puts>>
  BY DEF OpenEditor
<1> HIDE DEF own
<1>4. editor' \in Editor /\ Unchanged(editor)'
  BY <1>1, <1>2, <1>3 DEF Editor, Unchanged
<1> QED
  BY <1>3, <1>4 DEF PageOK, ShownInv, Unchanged

\* The other steps of the editor, and the replies, but for a fetch.
LEMMA EditorInv ==
  ASSUME PageOK,
         \/ Toggle \/ Cancel \/ Save \/ TakePut \/ Revisit
         \/ \E r \in Typed : Enter(r)
  PROVE  PageOK'
<1>1. CASE Toggle
  <2>1. editor \in Editor /\ editor' = [editor EXCEPT !.enabled = ~@]
    BY <1>1 DEF Toggle, PageOK
  <2>2. /\ editor' \in Editor /\ editor'.touched = editor.touched
        /\ editor'.own = editor.own /\ editor'.rank = editor.rank
    BY <2>1 DEF Editor
  <2> QED
    BY <1>1, <2>2 DEF PageOK, ShownInv, Unchanged, Toggle
<1>2. ASSUME NEW r \in Typed, Enter(r)
      PROVE  PageOK'
  <2>1. editor \in Editor /\ editor' = [editor EXCEPT !.rank = r, !.touched = TRUE]
    BY <1>2 DEF Enter, PageOK
  <2>2. editor' \in Editor /\ editor'.touched
    BY <2>1 DEF Editor
  <2> QED
    BY <1>2, <2>2 DEF PageOK, ShownInv, Unchanged, Enter
<1>3. CASE Cancel
  BY <1>3 DEF PageOK, ShownInv, Unchanged, Cancel
<1>4. CASE Save
  <2>1. editor \in Editor /\ editor # NoEditor
    BY <1>4 DEF Save, PageOK
  <2>2. call' = [slot |-> editor.slot, rank |-> editor.rank, touched |-> editor.touched,
                 own |-> editor.own, served |-> FALSE, ok |-> FALSE]
    BY <1>4 DEF Save
  <2>3. call' \in Put
    BY <2>1, <2>2 DEF Editor, Put
  <2>4. Unchanged(call)'
    BY <2>1, <2>2 DEF PageOK, Unchanged
  <2>5. puts' \in 0 .. MaxPuts
    BY <1>4, BoundsAreNat DEF PageOK, Save
  <2> QED
    BY <1>4, <2>3, <2>4, <2>5 DEF PageOK, ShownInv, Save
<1>5. CASE TakePut
  BY <1>5 DEF PageOK, ShownInv, Unchanged, TakePut, Put
<1>6. CASE Revisit
  BY <1>6 DEF PageOK, ShownInv, Unchanged, Revisit
<1> QED
  BY <1>1, <1>2, <1>3, <1>4, <1>5, <1>6

\* Only answers that all have a rank are shown.
LEMMA FetchInv ==
  ASSUME TableOK, PageOK, Fetch
  PROVE  PageOK'
<1>1. CASE Loadable
  <2>1. InfosOf(slot) = rows
    BY DEF InfosOf, TableOK, RowsInv
  <2>2. shown' = [slot |-> slot, infos |-> rows]
    BY <1>1, <2>1 DEF Fetch
  <2>3. shown' \in Shown
    BY <2>2 DEF Shown, TableOK
  <2>4. ShownInv'
    BY <1>1, <2>1, <2>2 DEF ShownInv, Loadable, TableOK, RowsInv
  <2> QED
    BY <2>3, <2>4 DEF PageOK, Unchanged, Fetch
<1>2. CASE ~Loadable
  BY <1>2 DEF PageOK, ShownInv, Unchanged, Fetch
<1> QED
  BY <1>1, <1>2

LEMMA ServePutInv ==
  ASSUME TableOK, PageOK, ServePut
  PROVE  TableOK' /\ PageOK'
<1>1. call \in Put /\ call.slot \in Ids /\ call.rank \in Typed
  BY DEF ServePut, PageOK, Put
<1>2. TableOK'
  <2>1. CASE Write(Self, call.slot, call.rank)
    BY <1>1, <2>1, WriteTable, SelfIsUser
  <2>2. CASE UNCHANGED server
    BY <2>2 DEF TableOK, RowsInv, server
  <2> QED
    BY <2>1, <2>2 DEF ServePut
<1>3. /\ call' \in Put /\ call'.touched = call.touched
      /\ call'.own = call.own /\ call'.rank = call.rank
  <2>1. \/ call' = [call EXCEPT !.served = TRUE, !.ok = TRUE]
        \/ call' = [call EXCEPT !.served = TRUE]
    BY DEF ServePut
  <2> QED
    BY <1>1, <2>1 DEF Put
<1>4. call # NoCall /\ UNCHANGED <<shown, loading, editor, puts>>
  BY DEF ServePut
<1>5. PageOK'
  BY <1>3, <1>4 DEF PageOK, ShownInv, Unchanged
<1> QED
  BY <1>2, <1>5

LEMMA OtherPutInv ==
  ASSUME TableOK, PageOK, NEW u \in Users, OtherPut(u)
  PROVE  TableOK' /\ PageOK'
<1>1. PICK s \in 1 .. slot, r \in Typed : Write(u, s, r)
  BY DEF OtherPut
<1>2. s \in Ids
  BY BoundsAreNat DEF TableOK, Ids
<1>3. puts' \in 0 .. MaxPuts
  BY BoundsAreNat DEF PageOK, OtherPut
<1> QED
  BY <1>1, <1>2, <1>3, WriteTable DEF OtherPut, PageOK, ShownInv, Unchanged

LEMMA StepInv == IInv /\ [Next]_vars => IInv'
<1> SUFFICES ASSUME IInv, [Next]_vars PROVE IInv'
  OBVIOUS
<1>1. TableOK /\ PageOK
  BY Parts
<1>2. (UNCHANGED server) => TableOK'
  BY <1>1 DEF TableOK, RowsInv, server
<1>3. CASE \/ OpenEditor \/ Toggle \/ Cancel \/ Save \/ Revisit \/ TakePut \/ Fetch
           \/ \E r \in Typed : Enter(r)
  <2>1. UNCHANGED server
    BY <1>3 DEF OpenEditor, Toggle, Cancel, Save, Revisit, TakePut, Fetch, Enter
  <2>2. PageOK'
    BY <1>1, <1>3, OpenEditorInv, EditorInv, FetchInv
  <2> QED
    BY <1>2, <2>1, <2>2 DEF IInv, TypeOK, TableOK, PageOK
<1>4. CASE Publish
  <2>1. PageOK'
    BY <1>1, <1>4 DEF Publish, PageOK, ShownInv, Unchanged
  <2> QED
    BY <1>1, <1>4, <2>1, PublishTable DEF IInv, TypeOK, TableOK, PageOK
<1>5. CASE ServePut \/ \E u \in Users : OtherPut(u)
  <2>1. TableOK' /\ PageOK'
    BY <1>1, <1>5, ServePutInv, OtherPutInv
  <2> QED
    BY <2>1 DEF IInv, TypeOK, TableOK, PageOK
<1>6. CASE UNCHANGED vars
  <2>1. TableOK' /\ PageOK'
    BY <1>1, <1>2, <1>6 DEF vars, PageOK, ShownInv, Unchanged
  <2> QED
    BY <2>1 DEF IInv, TypeOK, TableOK, PageOK
<1> QED
  BY <1>3, <1>4, <1>5, <1>6 DEF Next

(***************************************************************************)
(* The theorems.                                                           *)
(***************************************************************************)

\* However many respondents, slots, ranks and answers there are, what is shown was
\* once the table, and what is sent untouched was shown.
THEOREM Invariance == Spec => []IInv
BY InitInv, StepInv, PTL DEF Spec

\* Every variable keeps to its type; nobody has two answers to a slot.
THEOREM Typing == Spec => []TypeOK
<1>1. IInv => TypeOK
  BY DEF IInv
<1> QED
  BY <1>1, Invariance, PTL

\* The colour, the footer and the owner's lists of any page agree, though each
\* filters the answers in its own way.
THEOREM Agreement == Spec => []PageAgrees
<1>1. ASSUME IInv
      PROVE  PageAgrees
  <2> DEFINE infos == shown.infos
             own   == {x \in infos : x.user = Self /\ x.available}
  <2>1. /\ infos \subseteq Answer
        /\ \A x, y \in infos : x.user = y.user => x = y
        /\ \A x \in infos : (x.picked => x.available) /\ x.rank \in Nat
    BY <1>1, RanksAreNat DEF IInv, TypeOK, Shown, ShownInv, Answer, Typed
  <2>2. Counted(infos) \subseteq PickedList(infos)
    BY DEF Counted, PickedList
  <2>3. Self \in Counted(infos) <=> \E x \in own : x.rank \notin {NoRank, 0}
    BY DEF Counted
  <2>4. Self \in AllocatedList(infos) <=> \E x \in own : x.picked
    BY <2>1 DEF AllocatedList
  <2>5. \A x \in infos : x.rank # NoRank
    BY <1>1 DEF IInv, ShownInv
  <2>6. CASE own = {}
    <3>1. Colour(Self, infos) = "primary"
      BY <2>6 DEF Colour
    <3> QED
      BY <2>2, <2>3, <2>4, <2>6, <3>1 DEF PageAgrees
  <2>7. CASE own # {}
    <3>1. PICK x \in own : x = CHOOSE y \in own : TRUE
      BY <2>7
    <3>2. own = {x} /\ x.rank \in Nat /\ x.rank # NoRank
      BY <2>1, <2>5
    <3>3. Colour(Self, infos) = IF x.picked THEN "success"
                                ELSE IF x.rank = 0 THEN "primary"
                                ELSE IF x.rank \in 1 .. 3 THEN "warning"
                                ELSE "error"
      BY <2>7, <3>1 DEF Colour
    <3>4. (Self \in Counted(infos) <=> x.rank # 0) /\ (Self \in AllocatedList(infos) <=> x.picked)
      BY <2>3, <2>4, <3>2
    <3> QED
      BY <2>2, <3>3, <3>4 DEF PageAgrees
  <2> QED
    BY <2>6, <2>7
<1> QED
  BY <1>1, Invariance, PTL

\* What the page sends untouched leaves the answer with the rank it was shown with.
THEOREM Untouched == Spec => UntouchedKeepsRank
<1> DEFINE A == call # NoCall /\ call' # NoCall /\ call' # call /\ ~call.touched =>
                  \A x \in rows \cap call.own : \A y \in rows' : y.id = x.id => y.rank = x.rank
<1>1. ASSUME IInv, [Next]_vars, call # NoCall, call' # NoCall, call' # call, ~call.touched,
             NEW x \in rows, x \in call.own, NEW y \in rows', y.id = x.id
      PROVE  y.rank = x.rank
  <2>1. TableOK /\ PageOK
    BY <1>1, Parts
  <2>2. ServePut
    BY <1>1 DEF Next, OpenEditor, Toggle, Cancel, Save, Revisit, Enter, TakePut, Fetch,
                Publish, OtherPut, vars
  <2>3. x.rank = call.rank
    BY <1>1, <2>1 DEF PageOK, Unchanged
  <2>4. CASE UNCHANGED server
    BY <1>1, <2>1, <2>4 DEF server, TableOK
  <2>5. CASE Write(Self, call.slot, call.rank)
    <3>1. call.slot \in Ids /\ call.rank \in Typed
      BY <1>1, <2>1 DEF PageOK, Put
    <3>2. PICK n : Writes(Self, call.slot, call.rank, n)
      BY <2>1, <2>5, <3>1, SelfIsUser, WriteWrites
    <3>3. y = n \/ y \in rows
      BY <3>2 DEF Writes
    <3> QED
      BY <1>1, <2>1, <2>3, <3>2, <3>3 DEF Writes, TableOK
  <2> QED
    BY <2>2, <2>4, <2>5 DEF ServePut
<1>2. IInv /\ [Next]_vars => [A]_vars
  BY <1>1
<1> QED
  BY <1>2, Invariance, PTL DEF Spec, UntouchedKeepsRank

\* An allocation is lost to its user's own answer, to a roster that is published, or
\* to a PUT that has the id of a slot for the answer's.
THEOREM Picks == Spec => PicksKept
<1> DEFINE Lost(x) == /\ ~\E y \in rows' : y.id = x.id /\ y.user = x.user
                      /\ ~(IF call' = call THEN x.id \in 1 .. slot ELSE x.id = call.slot)
           A == slot' = slot =>
                  \A x \in {y \in rows : y.picked} : x \notin rows' =>
                    \/ \E y \in rows' : y.id = x.id /\ y.user = x.user
                    \/ IF call' = call THEN x.id \in 1 .. slot ELSE x.id = call.slot
<1>1. ASSUME TableOK, NEW u \in Users, NEW s \in Ids, NEW r \in Typed, Write(u, s, r),
             NEW x \in rows, x \notin rows'
      PROVE  x.id = s \/ \E y \in rows' : y.id = x.id /\ y.user = x.user
  <2>1. PICK n : Writes(u, s, r, n)
    BY <1>1, WriteWrites
  <2> QED
    BY <1>1, <2>1 DEF Writes
<1>2. ASSUME IInv, [Next]_vars, slot' = slot, NEW x \in rows, x \notin rows', Lost(x)
      PROVE  FALSE
  <2>1. TableOK /\ PageOK
    BY <1>2, Parts
  <2>2. slot \in Nat /\ slot \in Ids
    BY <2>1, BoundsAreNat DEF TableOK, Ids
  <2>3. ServePut \/ \E u \in Users : OtherPut(u)
    <3>1. ~Publish
      <4>1. Publish => slot' = slot + 1
        BY DEF Publish
      <4> QED
        BY <1>2, <2>2, <4>1
    <3>2. rows' # rows
      BY <1>2
    <3> QED
      BY <1>2, <3>1, <3>2 DEF Next, OpenEditor, Toggle, Cancel, Save, Revisit, Enter, TakePut,
                              Fetch, vars, server
  <2>4. ASSUME NEW u \in Users, OtherPut(u)
        PROVE  FALSE
    <3>1. PICK s \in 1 .. slot, r \in Typed : Write(u, s, r)
      BY <2>4 DEF OtherPut
    <3>2. s \in Ids /\ call' = call
      BY <2>2, <2>4, BoundsAreNat DEF Ids, OtherPut
    <3> QED
      BY <1>1, <1>2, <2>1, <3>1, <3>2
  <2>5. CASE ServePut
    <3>1. call \in Put /\ call.slot \in Ids /\ call.rank \in Typed /\ ~call.served
      BY <2>1, <2>5 DEF ServePut, PageOK, Put
    <3>2. call' # call
      <4>1. \/ call' = [call EXCEPT !.served = TRUE, !.ok = TRUE]
            \/ call' = [call EXCEPT !.served = TRUE]
        BY <2>5 DEF ServePut
      <4> QED
        BY <3>1, <4>1 DEF Put
    <3>3. Write(Self, call.slot, call.rank)
      BY <1>2, <2>5 DEF ServePut, server
    <3> QED
      BY <1>1, <1>2, <2>1, <3>1, <3>2, <3>3, SelfIsUser
  <2> QED
    BY <2>3, <2>4, <2>5
<1>3. IInv /\ [Next]_vars => [A]_vars
  BY <1>2
<1> QED
  BY <1>3, Invariance, PTL DEF Spec, PicksKept
=============================================================================
