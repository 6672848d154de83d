-------------------------- MODULE Preferences_proofs --------------------------
(***************************************************************************)
(* Proofs about Preferences, for every value of its constants.             *)
(***************************************************************************)
EXTENDS Preferences, FiniteSetTheorems, TLAPS

(***************************************************************************)
(* Typing.                                                                 *)
(***************************************************************************)

LEMMA ThreadType ==
  ASSUME TypeOK, NEW t \in Threads, Busy(t)
  PROVE  thread[t] \in Entity
BY DEF TypeOK, Busy

LEMMA RowType ==
  ASSUME TypeOK, NEW x \in rows
  PROVE  x \in Row /\ x.id \in Ids /\ x.id \in Nat /\ x.id > 0
BY BoundsAreNat DEF TypeOK, Row, Ids

LEMMA SlotType ==
  ASSUME TypeOK
  PROVE  /\ nextSlot \in Nat /\ nextSlot <= MaxSlots + 1 /\ nextId \in Nat
         /\ \A s \in slots : s \in SlotIds /\ s < nextSlot
         /\ \A s \in 1 .. nextSlot - 1 : s \in SlotIds /\ s \in Nat /\ s < nextSlot
BY BoundsAreNat DEF TypeOK, SlotIds

LEMMA InitType == Init => TypeOK
BY BoundsAreNat DEF Init, TypeOK, AclStates, Ids, Row

LEMMA AcceptType ==
  ASSUME TypeOK, NEW t \in Threads, NEW u \in Users, NEW e \in Entity, Accept(t, u, e)
  PROVE  TypeOK'
BY DEF TypeOK, Accept, table

LEMMA LoadedFacts ==
  ASSUME NEW u \in Users, NEW i \in Nat, NEW s \in SlotIds, NEW a \in SlotIds, NEW r \in Ranks
  PROVE  LET e == Loaded(u, i, s, a, r) IN
           /\ e \in Entity /\ e.phase = "loaded" /\ e.user = u /\ e.id = i /\ e.slot = s
           /\ e.rank = r /\ ~e.put /\ ~e.managed /\ ~e.vain
BY DEF Loaded, Entity

LEMMA PostAccepts ==
  ASSUME TypeOK, NEW t \in Threads, NEW u \in Users, Post(t, u)
  PROVE  \E e \in Entity :
           /\ Accept(t, u, e) /\ e.phase = "loaded" /\ e.user = u /\ e.slot < nextSlot
           /\ ~e.put /\ ~e.managed /\ ~e.vain /\ e.id = 0
<1>1. PICK s \in slots, r \in Ranks : Accept(t, u, Loaded(u, 0, s, s, r))
  BY DEF Post
<1>2. s \in SlotIds /\ s < nextSlot
  BY SlotType
<1> DEFINE e == Loaded(u, 0, s, s, r)
<1>3. /\ e \in Entity /\ e.phase = "loaded" /\ e.user = u /\ e.id = 0 /\ e.slot = s
      /\ ~e.put /\ ~e.managed /\ ~e.vain
  BY <1>2, LoadedFacts
<1> HIDE DEF e
<1> QED
  BY <1>1, <1>2, <1>3 DEF e

\* What a PUT starts with: if it is vain, a row says already what it asks for.
LEMMA PutAccepts ==
  ASSUME TypeOK, Keys, NEW t \in Threads, NEW u \in Users, Put(t, u)
  PROVE  \E e \in Entity :
           /\ Accept(t, u, e) /\ e.phase = "loaded" /\ e.user = u /\ e.slot < nextSlot /\ e.put
           /\ e.vain => \E x \in rows : /\ x.id = e.id /\ x.slot = e.slot
                                        /\ x.user = e.user /\ x.rank = e.rank
<1>1. PICK s \in 1 .. nextSlot - 1, r \in Ranks :
        \/ Accept(t, u, [Loaded(u, s, s, s, r) EXCEPT !.put = TRUE])
        \/ \E x \in {y \in rows : y.id = s} :
             Accept(t, u, [Loaded(u, s, x.slot, s, r) EXCEPT
                             !.put = TRUE, !.managed = TRUE,
                             !.vain = x.user = u /\ x.rank = r])
  BY DEF Put
<1>2. s \in SlotIds /\ s \in Nat /\ s < nextSlot
  BY SlotType
<1>3. CASE Accept(t, u, [Loaded(u, s, s, s, r) EXCEPT !.put = TRUE])
  <2> DEFINE e == [Loaded(u, s, s, s, r) EXCEPT !.put = TRUE]
  <2>1. e \in Entity /\ e.phase = "loaded" /\ e.user = u /\ e.slot = s /\ e.put /\ ~e.vain
    BY <1>2 DEF Loaded, Entity
  <2> HIDE DEF e
  <2> QED
    BY <1>2, <1>3, <2>1 DEF e
<1>4. ASSUME NEW x \in rows, x.id = s,
             Accept(t, u, [Loaded(u, s, x.slot, s, r) EXCEPT
                             !.put = TRUE, !.managed = TRUE,
                             !.vain = x.user = u /\ x.rank = r])
      PROVE  \E e \in Entity :
               /\ Accept(t, u, e) /\ e.phase = "loaded" /\ e.user = u /\ e.slot < nextSlot /\ e.put
               /\ e.vain => \E y \in rows : /\ y.id = e.id /\ y.slot = e.slot
                                            /\ y.user = e.user /\ y.rank = e.rank
  <2>1. x.slot \in SlotIds /\ x.slot < nextSlot
    BY SlotType DEF Keys
  <2>2. PICK v \in BOOLEAN : v <=> (x.user = u /\ x.rank = r)
    OBVIOUS
  <2> DEFINE e == [Loaded(u, s, x.slot, s, r) EXCEPT
                     !.put = TRUE, !.managed = TRUE, !.vain = v]
  <2>3. e \in Entity
    BY <1>2, <2>1 DEF Loaded, Entity
  <2>4. v = (x.user = u /\ x.rank = r)
    BY <2>2
  <2>5. Accept(t, u, e)
    BY <1>4, <2>4
  <2>6. /\ e.phase = "loaded" /\ e.user = u /\ e.slot = x.slot /\ e.put /\ e.id = s /\ e.rank = r
        /\ e.vain <=> v
    BY DEF Loaded
  <2> HIDE DEF e
  <2> QED
    BY <1>4, <2>1, <2>2, <2>3, <2>5, <2>6
<1> QED
  BY <1>1, <1>3, <1>4

\* handleBeforeSave goes on with the same entity, or with that of the row it has found.
LEMMA CheckWrites ==
  ASSUME TypeOK, NEW t \in Threads, Check(t)
  PROVE  /\ thread[t] \in Entity /\ thread'[t] \in Entity
         /\ thread' = [thread EXCEPT ![t] = thread'[t]]
         /\ \A o \in Threads \ {t} : thread'[o] = thread[o]
         /\ thread'[t].phase = "checked" /\ thread[t].phase = "loaded"
         /\ thread'[t].put = thread[t].put /\ thread'[t].slot = thread[t].slot
         /\ thread'[t].user = thread[t].user /\ thread'[t].rank = thread[t].rank
         /\ \/ /\ RowsOf(thread[t].slot, thread[t].user) = {}
               /\ thread'[t].id = thread[t].id /\ thread'[t].managed = thread[t].managed
               /\ thread'[t].vain = thread[t].vain
            \/ \E x \in rows :
                 /\ RowsOf(thread[t].slot, thread[t].user) = {x}
                 /\ thread[t].managed => x.id = thread[t].id
                 /\ thread'[t].id = x.id /\ thread'[t].managed
                 /\ thread[t].managed => thread'[t].vain = thread[t].vain
                 /\ ~thread[t].managed => (thread'[t].vain => x.rank = thread[t].rank)
<1> DEFINE e == thread[t]
<1>1. e \in Entity /\ e.phase = "loaded"
  BY ThreadType DEF Check
<1>2. CASE /\ RowsOf(e.slot, e.user) = {}
           /\ thread' = [thread EXCEPT ![t].phase = "checked"]
  <2> DEFINE f == [e EXCEPT !.phase = "checked"]
  <2>1. /\ f \in Entity /\ f.phase = "checked" /\ f.put = e.put /\ f.slot = e.slot
        /\ f.user = e.user /\ f.rank = e.rank /\ f.id = e.id /\ f.managed = e.managed
        /\ f.vain = e.vain
    BY <1>1 DEF Entity
  <2>2. thread' = [thread EXCEPT ![t] = f]
    BY <1>2 DEF TypeOK
  <2> HIDE DEF f
  <2>3. thread'[t] = f /\ \A o \in Threads \ {t} : thread'[o] = thread[o]
    BY <2>2 DEF TypeOK
  <2> QED
    BY <1>1, <1>2, <2>1, <2>2, <2>3
<1>3. ASSUME NEW x \in rows, RowsOf(e.slot, e.user) = {x}, e.managed => x.id = e.id,
             thread' = [thread EXCEPT ![t] = Found(@, x)]
      PROVE  /\ thread'[t] \in Entity
             /\ thread' = [thread EXCEPT ![t] = thread'[t]]
             /\ \A o \in Threads \ {t} : thread'[o] = thread[o]
             /\ thread'[t].phase = "checked"
             /\ thread'[t].put = e.put /\ thread'[t].slot = e.slot
             /\ thread'[t].user = e.user /\ thread'[t].rank = e.rank
             /\ thread'[t].id = x.id /\ thread'[t].managed
             /\ e.managed => thread'[t].vain = e.vain
             /\ ~e.managed => (thread'[t].vain => x.rank = e.rank)
  <2>1. x.id \in Nat
    BY RowType
  <2>2. PICK v \in BOOLEAN : v = IF e.managed THEN e.vain ELSE x.rank = e.rank
    BY <1>1 DEF Entity
  <2> DEFINE f == [e EXCEPT !.phase = "checked", !.id = x.id, !.managed = TRUE, !.vain = v]
  <2>3. f = Found(e, x)
    BY <2>2 DEF Found
  <2>4. /\ f \in Entity /\ f.phase = "checked" /\ f.put = e.put /\ f.slot = e.slot
        /\ f.user = e.user /\ f.rank = e.rank /\ f.id = x.id /\ f.managed /\ f.vain = v
    BY <1>1, <2>1 DEF Entity
  <2>5. thread' = [thread EXCEPT ![t] = f]
    BY <1>3, <2>3 DEF TypeOK
  <2> HIDE DEF f
  <2>6. thread'[t] = f /\ \A o \in Threads \ {t} : thread'[o] = thread[o]
    BY <2>5 DEF TypeOK
  <2>7. /\ e.managed => v = e.vain
        /\ ~e.managed => (v => x.rank = e.rank)
    BY <2>2
  <2> QED
    BY <2>4, <2>5, <2>6, <2>7
<1>4. \A x \in RowsOf(e.slot, e.user) : x \in rows
  BY DEF RowsOf
<1>5. \/ /\ RowsOf(e.slot, e.user) = {}
         /\ thread' = [thread EXCEPT ![t].phase = "checked"]
      \/ \E x \in rows :
           /\ RowsOf(e.slot, e.user) = {x}
           /\ e.managed => x.id = e.id
           /\ thread' = [thread EXCEPT ![t] = Found(@, x)]
  BY <1>4 DEF Check
<1>6. CASE \E x \in rows :
             /\ RowsOf(e.slot, e.user) = {x}
             /\ e.managed => x.id = e.id
             /\ thread' = [thread EXCEPT ![t] = Found(@, x)]
  <2>1. PICK x \in rows :
             /\ RowsOf(e.slot, e.user) = {x}
             /\ e.managed => x.id = e.id
             /\ thread' = [thread EXCEPT ![t] = Found(@, x)]
    BY <1>6
  <2> QED
    BY <1>1, <1>3, <2>1
<1> QED
  BY <1>2, <1>5, <1>6

LEMMA CheckType ==
  ASSUME TypeOK, NEW t \in Threads, Check(t)
  PROVE  TypeOK'
<1>1. thread' \in [Threads -> Entity \cup {NoThread}]
  BY CheckWrites DEF TypeOK
<1> QED
  BY <1>1 DEF TypeOK, Check, table

LEMMA SaveWrites ==
  ASSUME TypeOK, NEW t \in Threads, Save(t)
  PROVE  /\ thread[t] \in Entity /\ thread[t].slot \in slots
         /\ \E i \in Ids :
              LET old == WithId(thread[t].id) IN
                /\ i = IF old = {} THEN nextId ELSE thread[t].id
                /\ RowFor(thread[t], i) \in Row
                /\ rows' = (rows \ old) \cup {RowFor(thread[t], i)}
                /\ nextId' = IF old = {} THEN nextId + 1 ELSE nextId
                /\ thread' = [thread EXCEPT ![t] = [@ EXCEPT !.phase = "saved", !.id = i]]
                /\ [thread[t] EXCEPT !.phase = "saved", !.id = i] \in Entity
                /\ taken' = IF /\ thread[t].put
                               /\ \E x \in old : \/ x.user # thread[t].user
                                                 \/ x.slot # thread[t].slot
                            THEN taken \cup {i} ELSE taken
<1>1. thread[t] \in Entity /\ thread[t].slot \in slots
  BY ThreadType DEF Save, Unsavable
<1> DEFINE old == WithId(thread[t].id)
           i   == IF old = {} THEN nextId ELSE thread[t].id
<1>2. /\ i \in Ids
      /\ rows' = (rows \ old) \cup {RowFor(thread[t], i)}
      /\ nextId' = IF old = {} THEN nextId + 1 ELSE nextId
      /\ thread' = [thread EXCEPT ![t].phase = "saved", ![t].id = i]
      /\ taken' = IF /\ thread[t].put
                     /\ \E x \in old : x.user # thread[t].user \/ x.slot # thread[t].slot
                  THEN taken \cup {i} ELSE taken
  BY DEF Save
<1>3. i \in Nat
  BY <1>2 DEF Ids
<1>4. RowFor(thread[t], i) \in Row
  <2> HIDE DEF i, old
  <2> QED
    BY <1>1, <1>2 DEF RowFor, Row, Entity
<1>5. [thread[t] EXCEPT !.phase = "saved", !.id = i] \in Entity
  <2> HIDE DEF i, old
  <2> QED
    BY <1>1, <1>3 DEF Entity
<1>6. thread' = [thread EXCEPT ![t] = [@ EXCEPT !.phase = "saved", !.id = i]]
  <2> HIDE DEF i, old
  <2> QED
    BY <1>1, <1>2 DEF TypeOK
<1> QED
  BY <1>1, <1>2, <1>4, <1>5, <1>6

LEMMA SaveType ==
  ASSUME TypeOK, NEW t \in Threads, Save(t)
  PROVE  TypeOK'
<1> DEFINE old == WithId(thread[t].id)
<1>1. PICK i \in Ids :
        /\ i = IF old = {} THEN nextId ELSE thread[t].id
        /\ RowFor(thread[t], i) \in Row
        /\ rows' = (rows \ old) \cup {RowFor(thread[t], i)}
        /\ nextId' = IF old = {} THEN nextId + 1 ELSE nextId
        /\ thread' = [thread EXCEPT ![t] = [@ EXCEPT !.phase = "saved", !.id = i]]
        /\ [thread[t] EXCEPT !.phase = "saved", !.id = i] \in Entity
        /\ taken' \subseteq taken \cup {i}
  BY SaveWrites
<1>2. rows' \in SUBSET Row
  BY <1>1 DEF TypeOK
<1>3. nextId' \in 1 .. MaxRows + 1
  BY <1>1, BoundsAreNat DEF TypeOK, Ids
<1>4. thread' \in [Threads -> Entity \cup {NoThread}]
  BY <1>1 DEF TypeOK
<1>5. taken' \subseteq Ids
  BY <1>1 DEF TypeOK
<1>6. slots' = slots /\ nextSlot' = nextSlot /\ acl' = acl /\ seen' = seen /\ reply' = reply
      /\ sent' = sent
  BY DEF Save
<1> QED
  BY <1>2, <1>3, <1>4, <1>5, <1>6 DEF TypeOK

\* A thread goes to another phase with the same entity.
LEMMA PhaseFacts ==
  ASSUME TypeOK, NEW t \in Threads, Busy(t), NEW p \in {"checked", "saved", "registering"},
         NEW b \in BOOLEAN,
         \/ thread' = [thread EXCEPT ![t].phase = p]
         \/ thread' = [thread EXCEPT ![t].phase = p, ![t].first = b]
  PROVE  /\ thread' \in [Threads -> Entity \cup {NoThread}]
         /\ thread'[t] \in Entity /\ thread'[t].phase = p /\ thread'[t].id = thread[t].id
         /\ thread'[t].put = thread[t].put /\ thread'[t].managed = thread[t].managed
         /\ thread'[t].vain = thread[t].vain /\ thread'[t].slot = thread[t].slot
         /\ thread'[t].user = thread[t].user /\ thread'[t].rank = thread[t].rank
         /\ \A o \in Threads \ {t} : thread'[o] = thread[o]
<1>1. thread[t] \in Entity
  BY ThreadType
<1>2. PICK f : /\ thread' = [thread EXCEPT ![t] = f]
               /\ \/ f = [thread[t] EXCEPT !.phase = p]
                  \/ f = [thread[t] EXCEPT !.phase = p, !.first = b]
  BY <1>1 DEF TypeOK
<1>3. /\ f \in Entity /\ f.phase = p /\ f.id = thread[t].id /\ f.put = thread[t].put
      /\ f.managed = thread[t].managed /\ f.vain = thread[t].vain
      /\ f.slot = thread[t].slot /\ f.user = thread[t].user /\ f.rank = thread[t].rank
  BY <1>1, <1>2 DEF Entity
<1>4. thread'[t] = f /\ \A o \in Threads \ {t} : thread'[o] = thread[o]
  BY <1>2 DEF TypeOK
<1> QED
  BY <1>2, <1>3, <1>4 DEF TypeOK

LEMMA AnswerType ==
  ASSUME TypeOK, NEW t \in Threads, NEW status \in {"ok", "error"}, Answer(t, status)
  PROVE  /\ thread' \in [Threads -> Entity \cup {NoThread}]
         /\ reply' \in [Threads -> {"none", "ok", "error"}]
         /\ \A o \in Threads \ {t} : thread'[o] = thread[o]
         /\ ~Busy(t)'
BY DEF TypeOK, Answer, Busy

(***************************************************************************)
(* Steps that leave the tables alone.                                      *)
(***************************************************************************)

\* The conjuncts of the invariant that are about the tables and the entries.
TableOK == Keys /\ OneAnswerEach /\ OnlyOwnerGranted

\* What a request has looked up or saved is a row of its user.
RowFound(t) ==
  \E x \in rows : /\ x.id = thread[t].id
                  /\ x.slot = thread[t].slot /\ x.user = thread[t].user
                  /\ Said(t) => x.rank = thread[t].rank

LEMMA InitInv == Init => IInv
<1> SUFFICES ASSUME Init PROVE IInv
  OBVIOUS
<1>1. TypeOK
  BY InitType
<1>2. \A t \in Threads : ~Busy(t)
  BY DEF Init, Busy
<1>3. Keys /\ OneAnswerEach /\ OnlyOwnerGranted
  BY DEF Init, Keys, OneAnswerEach, OnlyOwnerGranted
<1> QED
  BY <1>1, <1>2, <1>3 DEF IInv, OneRequestEach, OneOwnerEach, Stands

\* The row of a request that has just found it is as the invariant wants it.
LEMMA FoundHolds ==
  ASSUME IInv, NEW t \in Threads, UNCHANGED <<table, acl, taken>>, RowFound(t)',
         thread'[t].phase # "registering"
  PROVE  StillSaved(t)' /\ EntriesRead(t)'
<1>1. rows' = rows /\ nextId' = nextId /\ slots' = slots /\ acl' = acl /\ taken' = taken
  BY DEF table
<1>2. PICK x \in rows : /\ x.id = thread'[t].id
                        /\ x.slot = thread'[t].slot /\ x.user = thread'[t].user
                        /\ Said(t)' => x.rank = thread'[t].rank
  BY <1>1 DEF RowFound
<1>3. x.id \in Ids /\ x.id < nextId /\ \A y \in rows : y.id = x.id => y = x
  BY RowType DEF IInv, Keys
<1>4. StillSaved(t)'
  BY <1>1, <1>2, <1>3 DEF StillSaved, WithId
<1>5. EntriesRead(t)'
  BY <1>1, <1>2 DEF EntriesRead, IInv, OnlyOwnerGranted
<1> QED
  BY <1>4, <1>5

\* The parts of the invariant after a step of t that leaves the tables alone.
LEMMA StepOfOne ==
  ASSUME IInv, TypeOK', NEW t \in Threads,
         \A o \in Threads \ {t} : thread'[o] = thread[o] /\ seen'[o] = seen[o],
         UNCHANGED <<table, acl, taken>>,
         OneRequestEach',
         Busy(t)' => RequestInv(t)',
         Stands(t)' => \/ RowFound(t)'
                       \/ Stands(t) /\ thread'[t].id = thread[t].id /\ thread'[t].user = thread[t].user
  PROVE  IInv'
<1>1. /\ rows' = rows /\ nextId' = nextId /\ slots' = slots /\ nextSlot' = nextSlot
      /\ acl' = acl /\ taken' = taken
  BY DEF table
<1>2. TableOK'
  BY <1>1 DEF IInv, TableOK, Keys, OneAnswerEach, OnlyOwnerGranted
<1>3. ASSUME NEW o \in Threads \ {t}
      PROVE  /\ Busy(o)' <=> Busy(o)
             /\ Backed(o)' <=> Backed(o)
             /\ Said(o)' <=> Said(o)
             /\ thread'[o] = thread[o]
  BY DEF Busy, Backed, Said
<1>4. ASSUME NEW o \in Threads \ {t}, Busy(o)'
      PROVE  RequestInv(o)'
  <2>1. RequestInv(o) /\ thread'[o] = thread[o] /\ seen'[o] = seen[o]
    BY <1>3, <1>4 DEF IInv
  <2>2. OwnId(o)' /\ LookUpHolds(o)'
    BY <1>1, <2>1 DEF RequestInv, OwnId, LookUpHolds, RowsOf
  <2>3. StillSaved(o)' /\ EntriesRead(o)'
    BY <1>1, <1>3, <2>1 DEF RequestInv, StillSaved, EntriesRead, WithId
  <2> QED
    BY <2>2, <2>3 DEF RequestInv
<1>5. OneOwnerEach'
  <2>1. \A o \in Threads \ {t} : Stands(o)' <=> Stands(o)
    BY <1>1, <1>3 DEF Stands
  <2>2. ASSUME NEW o \in Threads \ {t}, Stands(t)', Stands(o), thread[o].id = thread'[t].id
        PROVE  thread[o].user = thread'[t].user
    <3>1. CASE RowFound(t)'
      <4>1. PICK x \in rows : x.id = thread'[t].id /\ x.user = thread'[t].user
        BY <1>1, <3>1 DEF RowFound
      <4>2. x \in WithId(thread[o].id) /\ StillSaved(o)
        BY <2>2, <4>1 DEF WithId, IInv, RequestInv, Stands
      <4> QED
        BY <2>2, <4>1, <4>2 DEF StillSaved, Stands
    <3>2. CASE Stands(t) /\ thread'[t].id = thread[t].id /\ thread'[t].user = thread[t].user
      BY <2>2, <3>2 DEF IInv, OneOwnerEach
    <3> QED
      BY <2>2, <3>1, <3>2
  <2>3. ASSUME NEW o \in Threads, NEW q \in Threads, Stands(o)', Stands(q)',
               thread'[o].id = thread'[q].id
        PROVE  thread'[o].user = thread'[q].user
    <3>1. CASE o = t /\ q # t
      BY <1>3, <2>1, <2>2, <2>3, <3>1
    <3>2. CASE q = t /\ o # t
      BY <1>3, <2>1, <2>2, <2>3, <3>2
    <3>3. CASE o # t /\ q # t
      BY <1>3, <2>1, <2>3, <3>3 DEF IInv, OneOwnerEach
    <3> QED
      BY <3>1, <3>2, <3>3
  <2> QED
    BY <2>3 DEF OneOwnerEach
<1> QED
  BY <1>2, <1>4, <1>5 DEF IInv, TableOK

\* A thread that goes on serving the same user, or stops, is still the only one.
LEMMA OneRequestKept ==
  ASSUME IInv, NEW t \in Threads,
         \A o \in Threads \ {t} : thread'[o] = thread[o],
         Busy(t)' => Busy(t) /\ thread'[t].user = thread[t].user
  PROVE  OneRequestEach'
BY DEF IInv, OneRequestEach, Busy

\* A new request has looked nothing up and saved nothing, but may have loaded a row
\* that says already what it asks for.
LEMMA AcceptInv ==
  ASSUME IInv, NEW t \in Threads, NEW u \in Users, NEW e \in Entity, Accept(t, u, e),
         e.phase = "loaded", e.user = u, e.slot < nextSlot,
         ~e.put => ~e.managed /\ e.id = 0,
         e.vain => \E x \in rows : /\ x.id = e.id /\ x.slot = e.slot
                                   /\ x.user = e.user /\ x.rank = e.rank
  PROVE  IInv'
<1>1. TypeOK /\ TypeOK'
  BY AcceptType DEF IInv
<1>2. /\ thread'[t] = e /\ \A o \in Threads \ {t} : thread'[o] = thread[o]
      /\ UNCHANGED <<table, acl, taken>> /\ seen' = seen
  BY <1>1 DEF Accept, TypeOK
<1>3. OneRequestEach'
  BY <1>2 DEF IInv, OneRequestEach, Accept, Busy
<1>4. OwnId(t)'
  <2>1. \A x \in rows : x.id # 0
    BY <1>1, RowType
  <2>2. 0 < nextId
    BY <1>1, BoundsAreNat DEF TypeOK
  <2> QED
    BY <1>2, <2>1, <2>2 DEF OwnId, table
<1>5. Backed(t)' => RowFound(t)'
  BY <1>2 DEF Backed, Said, RowFound, table
<1>6. StillSaved(t)' /\ EntriesRead(t)'
  <2>1. CASE RowFound(t)'
    BY <1>2, <2>1, FoundHolds
  <2>2. CASE ~Backed(t)'
    BY <2>2 DEF StillSaved, EntriesRead
  <2> QED
    BY <1>5, <2>1, <2>2
<1>7. RequestInv(t)'
  BY <1>2, <1>4, <1>6 DEF RequestInv, LookUpHolds
<1> QED
  BY <1>1, <1>2, <1>3, <1>5, <1>7, StepOfOne DEF Stands

LEMMA PostInv ==
  ASSUME IInv, NEW t \in Threads, NEW u \in Users, Post(t, u)
  PROVE  IInv'
BY PostAccepts, AcceptInv DEF IInv

LEMMA PutInv ==
  ASSUME IInv, NEW t \in Threads, NEW u \in Users, Put(t, u)
  PROVE  IInv'
BY PutAccepts, AcceptInv DEF IInv

\* The look-up finds at most one row of a user who waits, and a POST takes its id over.
LEMMA CheckInv ==
  ASSUME IInv, NEW t \in Threads, Check(t)
  PROVE  IInv'
<1> DEFINE e == thread[t]
           f == thread'[t]
<1>1. TypeOK /\ TypeOK' /\ Busy(t) /\ Keys
  BY CheckType DEF IInv, Check
<1>2. /\ e \in Entity /\ f \in Entity /\ f.phase = "checked" /\ e.phase = "loaded"
      /\ f.put = e.put /\ f.slot = e.slot /\ f.user = e.user /\ f.rank = e.rank
      /\ \A o \in Threads \ {t} : thread'[o] = thread[o]
      /\ \/ RowsOf(e.slot, e.user) = {} /\ f.id = e.id /\ f.managed = e.managed /\ f.vain = e.vain
         \/ \E x \in rows :
              /\ RowsOf(e.slot, e.user) = {x}
              /\ e.managed => x.id = e.id
              /\ f.id = x.id /\ f.managed
              /\ e.managed => f.vain = e.vain
              /\ ~e.managed => (f.vain => x.rank = e.rank)
  BY <1>1, CheckWrites
<1>3. UNCHANGED <<table, acl, taken>> /\ seen' = seen
  BY DEF Check
<1>4. rows' = rows /\ nextId' = nextId /\ nextSlot' = nextSlot /\ taken' = taken
  BY <1>3 DEF table
<1>5. RequestInv(t)
  BY <1>1 DEF IInv
<1>6. OneRequestEach'
  BY <1>1, <1>2, OneRequestKept DEF Busy
<1>7. CASE RowsOf(e.slot, e.user) = {} /\ f.id = e.id /\ f.managed = e.managed /\ f.vain = e.vain
  <2>1. OwnId(t)'
    BY <1>2, <1>4, <1>5, <1>7 DEF RequestInv, OwnId
  <2>2. LookUpHolds(t)'
    BY <1>2, <1>4, <1>7 DEF LookUpHolds, RowsOf
  <2>3. (Backed(t)' <=> Backed(t)) /\ (Said(t)' <=> Said(t))
    BY <1>2, <1>5, <1>7 DEF Backed, Said, RequestInv, OwnId
  <2>4. StillSaved(t)' /\ EntriesRead(t)'
    BY <1>2, <1>3, <1>4, <1>5, <1>7, <2>3 DEF RequestInv, StillSaved, EntriesRead, WithId, table
  <2>5. Stands(t)' => Stands(t)
    BY <1>1, <1>4, <1>7, <2>3 DEF Stands
  <2> QED
    BY <1>1, <1>2, <1>3, <1>6, <1>7, <2>1, <2>2, <2>4, <2>5, StepOfOne DEF RequestInv
<1>8. ASSUME NEW x \in rows, RowsOf(e.slot, e.user) = {x}, e.managed => x.id = e.id,
             f.id = x.id, f.managed, e.managed => f.vain = e.vain,
             ~e.managed => (f.vain => x.rank = e.rank)
      PROVE  IInv'
  <2>1. x.slot = e.slot /\ x.user = e.user
    BY <1>8 DEF RowsOf
  <2>2. x.id < nextId /\ \A y \in rows : y.id = x.id => y = x
    BY <1>1 DEF Keys
  <2>3. OwnId(t)'
    BY <1>2, <1>4, <1>5, <1>8, <2>1, <2>2 DEF RequestInv, OwnId
  <2>4. LookUpHolds(t)'
    BY <1>2, <1>4, <1>8 DEF LookUpHolds, RowsOf
  <2>5. CASE f.vain => x.rank = e.rank
    <3>1. RowFound(t)'
      BY <1>2, <1>4, <1>8, <2>1, <2>5 DEF RowFound, Said
    <3>2. StillSaved(t)' /\ EntriesRead(t)'
      BY <1>2, <1>3, <3>1, FoundHolds
    <3> QED
      BY <1>1, <1>2, <1>3, <1>6, <2>3, <2>4, <3>1, <3>2, StepOfOne DEF RequestInv
  <2>6. CASE e.managed /\ f.vain
    <3>1. f.vain = e.vain /\ f.id = e.id
      BY <1>8, <2>6
    <3>2. Said(t) /\ Said(t)' /\ Backed(t) /\ Backed(t)'
      BY <2>6, <3>1 DEF Said, Backed
    <3>3. StillSaved(t)' /\ EntriesRead(t)'
      BY <1>2, <1>3, <1>4, <1>5, <3>1, <3>2
         DEF RequestInv, StillSaved, EntriesRead, WithId, table
    <3>4. Stands(t)' => Stands(t)
      BY <1>1, <1>4, <3>1, <3>2 DEF Stands
    <3> QED
      BY <1>1, <1>2, <1>3, <1>6, <2>3, <2>4, <3>1, <3>3, <3>4, StepOfOne DEF RequestInv
  <2> QED
    BY <1>8, <2>5, <2>6
<1> QED
  BY <1>2, <1>7, <1>8

\* A thread that has answered is free.
LEMMA AnswerInv ==
  ASSUME IInv, NEW t \in Threads, NEW status \in {"ok", "error"}, Answer(t, status),
         UNCHANGED <<table, acl, seen, taken, sent>>
  PROVE  IInv'
<1>1. TypeOK'
  BY AnswerType DEF IInv, TypeOK, table
<1>2. ~Busy(t)' /\ \A o \in Threads \ {t} : thread'[o] = thread[o]
  BY AnswerType DEF IInv
<1> QED
  BY <1>1, <1>2, OneRequestKept, StepOfOne DEF Stands

\* What the look-up, or the loading, has found is still there when nothing is written.
LEMMA SaveVainInv ==
  ASSUME IInv, NEW t \in Threads, SaveVain(t)
  PROVE  IInv'
<1>1. TypeOK /\ Busy(t) /\ thread[t].vain /\ thread[t].phase = "checked"
  BY DEF IInv, SaveVain
<1>2. /\ thread' \in [Threads -> Entity \cup {NoThread}]
      /\ thread'[t].phase = "saved" /\ thread'[t].id = thread[t].id
      /\ thread'[t].put = thread[t].put /\ thread'[t].managed = thread[t].managed
      /\ thread'[t].vain = thread[t].vain /\ thread'[t].slot = thread[t].slot
      /\ thread'[t].user = thread[t].user /\ thread'[t].rank = thread[t].rank
      /\ \A o \in Threads \ {t} : thread'[o] = thread[o]
  BY <1>1, PhaseFacts DEF SaveVain
<1>3. UNCHANGED <<table, acl, taken>> /\ seen' = seen /\ reply' = reply /\ sent' = sent
  BY DEF SaveVain
<1>4. /\ rows' = rows /\ nextId' = nextId /\ slots' = slots /\ nextSlot' = nextSlot
      /\ acl' = acl /\ taken' = taken
  BY <1>3 DEF table
<1>5. TypeOK'
  BY <1>1, <1>2, <1>3, <1>4 DEF TypeOK
<1>6. RequestInv(t) /\ Said(t) /\ Said(t)' /\ Backed(t) /\ Backed(t)'
  BY <1>1, <1>2 DEF IInv, Said, Backed
<1>7. OwnId(t)'
  BY <1>1, <1>2, <1>4, <1>6 DEF RequestInv, OwnId
<1>8. StillSaved(t)' /\ EntriesRead(t)'
  BY <1>2, <1>3, <1>4, <1>6 DEF RequestInv, StillSaved, EntriesRead, WithId
<1>9. RequestInv(t)'
  BY <1>2, <1>7, <1>8 DEF RequestInv, LookUpHolds
<1>10. OneRequestEach'
  BY <1>1, <1>2, OneRequestKept
<1>11. Stands(t)' => Stands(t)
  BY <1>1, <1>2, <1>4, <1>6 DEF Stands
<1> QED
  BY <1>2, <1>3, <1>5, <1>9, <1>10, <1>11, StepOfOne

\* No row of another user has entries to be read.
LEMMA ReadAclInv ==
  ASSUME IInv, NEW t \in Threads, ReadAcl(t)
  PROVE  IInv'
<1>1. TypeOK /\ Busy(t) /\ thread[t].phase = "saved"
  BY DEF IInv, ReadAcl
<1>2. /\ thread' \in [Threads -> Entity \cup {NoThread}]
      /\ thread'[t].phase = "registering" /\ thread'[t].id = thread[t].id
      /\ thread'[t].put = thread[t].put /\ thread'[t].managed = thread[t].managed
      /\ thread'[t].vain = thread[t].vain /\ thread'[t].slot = thread[t].slot
      /\ thread'[t].user = thread[t].user /\ thread'[t].rank = thread[t].rank
      /\ \A o \in Threads \ {t} : thread'[o] = thread[o]
  <2>1. NoneRegistered \in BOOLEAN
    BY DEF NoneRegistered
  <2> QED
    BY <1>1, <2>1, PhaseFacts DEF ReadAcl
<1>3. /\ UNCHANGED <<table, acl, taken>> /\ reply' = reply /\ sent' = sent
      /\ seen' = [seen EXCEPT ![t] = acl[thread[t].id]]
  BY DEF ReadAcl
<1>4. /\ rows' = rows /\ nextId' = nextId /\ slots' = slots /\ nextSlot' = nextSlot
      /\ acl' = acl /\ taken' = taken
  BY <1>3 DEF table
<1>5. RequestInv(t) /\ Said(t) /\ Said(t)' /\ Backed(t) /\ Backed(t)'
  BY <1>1, <1>2 DEF IInv, Said, Backed
<1>6. thread[t].id \in Ids
  BY <1>5 DEF RequestInv, StillSaved
<1>7. /\ seen' \in [Threads -> AclStates] /\ seen'[t] = acl[thread[t].id]
      /\ \A o \in Threads \ {t} : seen'[o] = seen[o]
  BY <1>1, <1>3, <1>6 DEF TypeOK
<1>8. TypeOK'
  BY <1>1, <1>2, <1>3, <1>4, <1>7 DEF TypeOK
<1>9. OwnId(t)'
  BY <1>1, <1>2, <1>4, <1>5 DEF RequestInv, OwnId
<1>10. StillSaved(t)' /\ EntriesRead(t)'
  BY <1>2, <1>4, <1>5, <1>7 DEF RequestInv, StillSaved, EntriesRead, WithId
<1>11. RequestInv(t)'
  BY <1>2, <1>9, <1>10 DEF RequestInv, LookUpHolds
<1>12. OneRequestEach'
  BY <1>1, <1>2, OneRequestKept
<1>13. Stands(t)' => Stands(t)
  BY <1>1, <1>2, <1>4, <1>5 DEF Stands
<1> QED
  BY <1>2, <1>3, <1>7, <1>8, <1>11, <1>12, <1>13, StepOfOne

\* The entries that are written are the owner's, and nobody who waits is between
\* reading and writing those of the same row.
LEMMA WriteAclInv ==
  ASSUME IInv, NEW t \in Threads, WriteAcl(t)
  PROVE  IInv'
<1> DEFINE i == thread[t].id
           entries == {thread[t].user} \cup (IF seen[t] = NoThread THEN {} ELSE seen[t])
<1>1. TypeOK /\ Busy(t) /\ thread[t].phase = "registering" /\ thread[t] \in Entity
  BY ThreadType DEF IInv, WriteAcl
<1>2. RequestInv(t) /\ Backed(t)
  BY <1>1 DEF IInv, Backed, Said
<1>3. i \in Ids /\ i < nextId
  BY <1>2 DEF RequestInv, StillSaved
<1>4. acl' = [acl EXCEPT ![i] = entries] /\ UNCHANGED <<table, seen, taken, sent>>
  BY DEF WriteAcl
<1>5. rows' = rows /\ nextId' = nextId /\ slots' = slots /\ nextSlot' = nextSlot
  BY <1>4 DEF table
<1>6. /\ thread' \in [Threads -> Entity \cup {NoThread}]
      /\ reply' \in [Threads -> {"none", "ok", "error"}]
      /\ \A o \in Threads \ {t} : thread'[o] = thread[o]
      /\ ~Busy(t)'
  BY <1>1, AnswerType DEF WriteAcl
<1>7. entries \in SUBSET Users
  BY <1>1 DEF TypeOK, AclStates, Entity
<1>8. i \notin taken => entries \subseteq {thread[t].user}
  BY <1>1, <1>2 DEF RequestInv, EntriesRead
<1> HIDE DEF entries
<1>9. acl' \in [Ids -> AclStates] /\ acl'[i] = entries /\ \A j \in Ids \ {i} : acl'[j] = acl[j]
  BY <1>1, <1>3, <1>4, <1>7 DEF TypeOK, AclStates
<1>10. TypeOK'
  BY <1>1, <1>4, <1>5, <1>6, <1>9 DEF TypeOK
<1>11. Keys'
  <2>1. \A j \in Ids : j >= nextId => j # i
    BY <1>1, <1>3 DEF TypeOK, Ids
  <2> QED
    BY <1>5, <1>9, <2>1 DEF IInv, Keys
<1>12. OneAnswerEach'
  BY <1>5 DEF IInv, OneAnswerEach
<1>13. OneRequestEach'
  BY <1>6, OneRequestKept
<1>14. OnlyOwnerGranted'
  <2>1. ASSUME NEW x \in rows, acl'[x.id] # NoThread, x.id \notin taken
        PROVE  acl'[x.id] \subseteq {x.user}
    <3>1. CASE x.id = i
      <4>1. x.user = thread[t].user
        BY <1>2, <2>1, <3>1 DEF RequestInv, StillSaved, WithId
      <4> QED
        BY <1>8, <1>9, <2>1, <3>1, <4>1
    <3>2. CASE x.id # i
      BY <1>1, <1>9, <2>1, <3>2, RowType DEF IInv, OnlyOwnerGranted
    <3> QED
      BY <3>1, <3>2
  <2> QED
    BY <1>4, <1>5, <2>1 DEF OnlyOwnerGranted
<1>15. \A o \in Threads : Busy(o)' => o # t /\ thread'[o] = thread[o] /\ Busy(o)
  BY <1>6 DEF Busy
<1>16. \A o \in Threads : Busy(o)' => (Backed(o)' <=> Backed(o)) /\ (Said(o)' <=> Said(o))
  BY <1>15 DEF Backed, Said
<1>17. OneOwnerEach'
  <2>1. \A o \in Threads : Stands(o)' => Stands(o) /\ thread'[o] = thread[o]
    BY <1>4, <1>15, <1>16 DEF Stands
  <2> QED
    BY <2>1 DEF IInv, OneOwnerEach
<1>18. ASSUME NEW o \in Threads, Busy(o)'
       PROVE  RequestInv(o)'
  <2>1. o # t /\ thread'[o] = thread[o] /\ Busy(o) /\ RequestInv(o)
    BY <1>15, <1>18 DEF IInv
  <2>2. OwnId(o)' /\ LookUpHolds(o)'
    BY <1>4, <1>5, <2>1 DEF RequestInv, OwnId, LookUpHolds, RowsOf
  <2>3. StillSaved(o)'
    BY <1>4, <1>5, <1>16, <1>18, <2>1 DEF RequestInv, StillSaved, WithId
  <2>4. EntriesRead(o)'
    <3> SUFFICES ASSUME Backed(o), thread[o].id \notin taken
                 PROVE  /\ acl'[thread[o].id] # NoThread =>
                             acl'[thread[o].id] \subseteq {thread[o].user}
                        /\ thread[o].phase = "registering" =>
                             /\ seen[o] # NoThread => seen[o] \subseteq {thread[o].user}
                             /\ thread[o].user \in Patient => seen[o] = acl'[thread[o].id]
      BY <1>4, <1>16, <1>18, <2>1 DEF EntriesRead
    <3>1. thread[o].id \in Ids
      BY <2>1 DEF RequestInv, StillSaved
    <3>2. CASE thread[o].id # i
      BY <1>9, <2>1, <3>1, <3>2 DEF RequestInv, EntriesRead
    <3>3. CASE thread[o].id = i
      <4>1. Stands(t) /\ Stands(o)
        BY <1>1, <1>2, <2>1, <3>3 DEF Stands
      <4>2. thread[o].user = thread[t].user
        BY <3>3, <4>1 DEF IInv, OneOwnerEach
      <4>3. thread[o].user \notin Patient
        BY <1>1, <2>1, <4>2 DEF IInv, OneRequestEach
      <4>4. acl'[i] \subseteq {thread[o].user}
        BY <1>8, <1>9, <3>3, <4>2
      <4> QED
        BY <2>1, <3>3, <4>3, <4>4 DEF RequestInv, EntriesRead
    <3> QED
      BY <3>2, <3>3
  <2> QED
    BY <2>2, <2>3, <2>4 DEF RequestInv
<1> QED
  BY <1>10, <1>11, <1>12, <1>13, <1>14, <1>17, <1>18 DEF IInv

(***************************************************************************)
(* The save.                                                               *)
(***************************************************************************)

\* What a save does to the table, said of single rows: the row is new, or it
\* replaces the one of its id.
Replaces(t, i) ==
  LET n == RowFor(thread[t], i) IN
    /\ i \in Ids
    /\ n \in rows' /\ n.id = i /\ n.slot = thread[t].slot
    /\ n.user = thread[t].user /\ n.rank = thread[t].rank
    /\ \A x \in rows' : x = n \/ (x \in rows /\ x.id # thread[t].id)
    /\ \A x \in rows : x.id # thread[t].id => x \in rows'
    /\ \/ i = nextId /\ nextId' = nextId + 1 /\ \A x \in rows : x.id # thread[t].id
       \/ i = thread[t].id /\ nextId' = nextId /\ \E x \in rows : x.id = i
    /\ taken \subseteq taken' /\ taken' \subseteq taken \cup {i}
    \* a row that is replaced had the slot and the user, unless it is taken over
    /\ \A x \in rows : x.id = thread[t].id =>
         \/ x.slot = thread[t].slot /\ x.user = thread[t].user
         \/ i \in taken'
    /\ thread'[t] \in Entity
    /\ thread'[t] = [thread[t] EXCEPT !.phase = "saved", !.id = i]
    /\ \A o \in Threads \ {t} : thread'[o] = thread[o]

LEMMA SaveReplaces ==
  ASSUME IInv, NEW t \in Threads, Save(t)
  PROVE  \E i \in Ids : Replaces(t, i)
<1> DEFINE old == WithId(thread[t].id)
<1>1. TypeOK /\ Busy(t)
  BY DEF IInv, Save
<1>2. PICK i \in Ids :
        /\ i = IF old = {} THEN nextId ELSE thread[t].id
        /\ rows' = (rows \ old) \cup {RowFor(thread[t], i)}
        /\ nextId' = IF old = {} THEN nextId + 1 ELSE nextId
        /\ thread' = [thread EXCEPT ![t] = [@ EXCEPT !.phase = "saved", !.id = i]]
        /\ [thread[t] EXCEPT !.phase = "saved", !.id = i] \in Entity
        /\ taken' = IF /\ thread[t].put
                       /\ \E x \in old : x.user # thread[t].user \/ x.slot # thread[t].slot
                    THEN taken \cup {i} ELSE taken
  BY <1>1, SaveWrites
<1> DEFINE n == RowFor(thread[t], i)
<1>3. n.id = i /\ n.slot = thread[t].slot /\ n.user = thread[t].user /\ n.rank = thread[t].rank
  BY DEF RowFor
<1> HIDE DEF n
<1>4. \A x : x \in old <=> x \in rows /\ x.id = thread[t].id
  BY DEF WithId
<1>5. /\ n \in rows'
      /\ \A x \in rows' : x = n \/ (x \in rows /\ x.id # thread[t].id)
      /\ \A x \in rows : x.id # thread[t].id => x \in rows'
  <2>1. \A x : x \in rows' <=> (x \in rows /\ x \notin old) \/ x = n
    <3> HIDE DEF old
    <3> QED
      BY <1>2 DEF n
  <2> QED
    BY <1>4, <2>1
<1>6. \/ i = nextId /\ nextId' = nextId + 1 /\ \A x \in rows : x.id # thread[t].id
      \/ i = thread[t].id /\ nextId' = nextId /\ \E x \in rows : x.id = i
  BY <1>2, <1>4
<1>7. taken \subseteq taken' /\ taken' \subseteq taken \cup {i}
  BY <1>2
<1>8. ASSUME NEW x \in rows, x.id = thread[t].id
      PROVE  \/ x.slot = thread[t].slot /\ x.user = thread[t].user
             \/ i \in taken'
  <2>1. x \in old /\ i = thread[t].id
    BY <1>2, <1>4, <1>8
  <2>2. CASE thread[t].put
    <3>1. \/ ~\E y \in old : y.user # thread[t].user \/ y.slot # thread[t].slot
          \/ taken' = taken \cup {i}
      BY <1>2, <2>2
    <3> HIDE DEF old
    <3> QED
      BY <2>1, <3>1
  <2>3. CASE ~thread[t].put
    <3>1. OwnId(t)
      BY <1>1 DEF IInv, RequestInv
    <3> HIDE DEF old
    <3> QED
      BY <1>7, <1>8, <2>1, <2>3, <3>1 DEF OwnId
  <2> QED
    BY <2>2, <2>3
<1>9. /\ thread'[t] \in Entity
      /\ thread'[t] = [thread[t] EXCEPT !.phase = "saved", !.id = i]
      /\ \A o \in Threads \ {t} : thread'[o] = thread[o]
  BY <1>1, <1>2 DEF TypeOK
<1> QED
  BY <1>3, <1>5, <1>6, <1>7, <1>8, <1>9 DEF Replaces, n

LEMMA SaveTable ==
  ASSUME IInv, NEW t \in Threads, Save(t)
  PROVE  TableOK'
<1>1. /\ TypeOK /\ Busy(t) /\ thread[t].phase = "checked" /\ acl' = acl /\ slots' = slots
      /\ nextId \in Nat /\ thread[t].slot \in slots
  BY BoundsAreNat DEF IInv, Save, TypeOK, Unsavable
<1>2. PICK i \in Ids : Replaces(t, i)
  BY SaveReplaces
<1> DEFINE n == RowFor(thread[t], i)
<1>3. i < nextId'
  BY <1>1, <1>2, RowType DEF Replaces, IInv, Keys
<1>4. Keys'
  <2>1. \A x \in rows : x.id # thread[t].id => x.id # i
    BY <1>1, <1>2, RowType DEF Replaces, IInv, Keys
  <2>2. \A x, y \in rows' : x.id = y.id => x = y
    BY <1>2, <2>1 DEF Replaces, IInv, Keys
  <2>3. \A x \in rows' : x.id < nextId'
    BY <1>1, <1>2, <1>3, RowType DEF Replaces, IInv, Keys
  <2>4. nextId' >= nextId
    BY <1>1, <1>2 DEF Replaces
  <2>5. \A j \in Ids : j >= nextId' => acl'[j] = NoThread
    BY <1>1, <1>2, <2>4 DEF Ids, IInv, Keys, Replaces
  <2>6. \A x \in rows' : x.slot \in slots'
    BY <1>1, <1>2 DEF Replaces, IInv, Keys
  <2> QED
    BY <2>2, <2>3, <2>5, <2>6 DEF Keys
<1>5. OneAnswerEach'
  <2>1. ASSUME NEW x \in rows, x.id # thread[t].id, thread[t].user \in Patient
        PROVE  ~(x.user = thread[t].user /\ x.slot = thread[t].slot)
    BY <1>1, <2>1 DEF IInv, RequestInv, LookUpHolds, RowsOf
  <2>2. ASSUME NEW x \in rows', NEW y \in rows',
               x.user \in Patient, x.user = y.user, x.slot = y.slot
        PROVE  x = y
    <3>1. CASE x = n \/ y = n
      BY <1>2, <2>1, <2>2, <3>1 DEF Replaces
    <3>2. CASE x # n /\ y # n
      BY <1>2, <2>2, <3>2 DEF Replaces, IInv, OneAnswerEach
    <3> QED
      BY <3>1, <3>2
  <2> QED
    BY <2>2 DEF OneAnswerEach
<1>6. OnlyOwnerGranted'
  <2>1. ASSUME NEW x \in rows', acl'[x.id] # NoThread, x.id \notin taken'
        PROVE  acl'[x.id] \subseteq {x.user}
    <3>1. CASE x # n
      BY <1>1, <1>2, <2>1, <3>1 DEF Replaces, IInv, OnlyOwnerGranted
    <3>2. CASE x = n /\ i = nextId
      BY <1>1, <1>2, <2>1, <3>2 DEF Replaces, IInv, Keys
    <3>3. CASE x = n /\ i # nextId
      <4>1. PICK y \in rows : y.id = i /\ i = thread[t].id
        BY <1>2, <3>3 DEF Replaces
      <4>2. y.user = x.user
        BY <1>2, <2>1, <3>3, <4>1 DEF Replaces
      <4>3. y.id \notin taken /\ acl[y.id] # NoThread /\ y.id = x.id
        BY <1>1, <1>2, <2>1, <3>3, <4>1 DEF Replaces
      <4> QED
        BY <1>1, <4>2, <4>3 DEF IInv, OnlyOwnerGranted
    <3> QED
      BY <3>1, <3>2, <3>3
  <2> QED
    BY <2>1 DEF OnlyOwnerGranted
<1> QED
  BY <1>4, <1>5, <1>6 DEF TableOK

\* What other requests know of the table stays true of it.
LEMMA SaveOthers ==
  ASSUME IInv, NEW t \in Threads, Save(t), NEW o \in Threads \ {t}, Busy(o)'
  PROVE  RequestInv(o)'
<1>1. /\ TypeOK /\ Busy(t) /\ thread[t] \in Entity
      /\ acl' = acl /\ seen' = seen /\ slots' = slots /\ nextSlot' = nextSlot
      /\ nextId \in Nat
  BY BoundsAreNat, ThreadType DEF IInv, Save, TypeOK
<1>2. PICK i \in Ids : Replaces(t, i)
  BY SaveReplaces
<1> DEFINE n == RowFor(thread[t], i)
<1>3. thread'[o] = thread[o] /\ Busy(o)
  BY <1>2 DEF Replaces, Busy
<1>4. RequestInv(o) /\ thread[o] \in Entity /\ thread[o].id \in Nat
  BY <1>1, <1>3, ThreadType DEF IInv, Entity
<1>5. thread[o].user = thread[t].user => thread[o].user \notin Patient
  BY <1>1, <1>3 DEF IInv, OneRequestEach
<1>6. OwnId(o)'
  <2>1. ASSUME ~thread[o].put
        PROVE  /\ thread[o].id < nextId /\ nextId <= nextId'
               /\ \A x \in rows : x.id = thread[o].id =>
                    \/ x.slot = thread[o].slot /\ x.user = thread[o].user
                    \/ thread[o].id \in taken
    BY <1>1, <1>2, <1>4, <2>1 DEF RequestInv, OwnId, Replaces
  <2>2. ASSUME ~thread[o].put, NEW x \in rows', x.id = thread[o].id
        PROVE  \/ x.slot = thread[o].slot /\ x.user = thread[o].user
               \/ thread[o].id \in taken'
    <3>1. CASE x # n
      BY <1>2, <2>1, <2>2, <3>1 DEF Replaces
    <3>2. CASE x = n
      <4>1. x.id = i /\ i = thread[o].id
        BY <1>2, <2>2, <3>2 DEF Replaces
      <4>2. i # nextId
        BY <1>1, <1>4, <2>1, <2>2, <4>1
      <4>3. PICK y \in rows : y.id = i /\ i = thread[t].id
        BY <1>2, <4>2 DEF Replaces
      <4>4. \/ y.slot = x.slot /\ y.user = x.user
            \/ i \in taken'
        BY <1>2, <3>2, <4>3 DEF Replaces
      <4>5. \/ y.slot = thread[o].slot /\ y.user = thread[o].user
            \/ thread[o].id \in taken
        BY <2>1, <2>2, <4>1, <4>3
      <4> QED
        BY <1>2, <4>1, <4>4, <4>5 DEF Replaces
    <3> QED
      BY <3>1, <3>2
  <2>3. thread[o].id \in Nat /\ nextId' \in Nat
    BY <1>1, <1>2, <1>4 DEF Replaces
  <2> QED
    BY <1>1, <1>3, <1>4, <2>1, <2>2, <2>3 DEF RequestInv, OwnId
<1>7. LookUpHolds(o)'
  <2>1. ASSUME thread[o].phase = "checked", thread[o].user \in Patient, NEW x \in rows',
               x.slot = thread[o].slot, x.user = thread[o].user
        PROVE  x.id = thread[o].id
    BY <1>2, <1>4, <1>5, <2>1 DEF Replaces, RequestInv, LookUpHolds, RowsOf
  <2> QED
    BY <1>3, <2>1 DEF LookUpHolds, RowsOf
<1>8. (Backed(o)' <=> Backed(o)) /\ (Said(o)' <=> Said(o))
  BY <1>3 DEF Backed, Said
<1>9. StillSaved(o)'
  <2> SUFFICES ASSUME Backed(o)
               PROVE  /\ thread[o].id \in Ids /\ thread[o].id < nextId'
                      /\ thread[o].id \notin taken' =>
                           /\ thread[o].slot \in slots =>
                                \E x \in rows' : x.id = thread[o].id
                           /\ \A x \in rows' : x.id = thread[o].id =>
                                /\ x.slot = thread[o].slot /\ x.user = thread[o].user
                                /\ Said(o) /\ thread[o].user \in Patient =>
                                     x.rank = thread[o].rank
    BY <1>1, <1>3, <1>8 DEF StillSaved, WithId
  <2>1. /\ thread[o].id \in Ids /\ thread[o].id < nextId
        /\ thread[o].id \notin taken =>
             /\ thread[o].slot \in slots => \E x \in rows : x.id = thread[o].id
             /\ \A x \in rows : x.id = thread[o].id =>
                  /\ x.slot = thread[o].slot /\ x.user = thread[o].user
                  /\ Said(o) /\ thread[o].user \in Patient => x.rank = thread[o].rank
    BY <1>4 DEF RequestInv, StillSaved, WithId
  <2>2. thread[o].id < nextId'
    BY <1>1, <1>2, <1>4, <2>1 DEF Replaces
  <2>3. ASSUME thread[o].id \notin taken', thread[o].slot \in slots
        PROVE  \E x \in rows' : x.id = thread[o].id
    <3>1. PICK x \in rows : x.id = thread[o].id
      BY <1>2, <2>1, <2>3 DEF Replaces
    <3>2. CASE x.id = thread[t].id
      BY <1>2, <3>1, <3>2 DEF Replaces
    <3>3. CASE x.id # thread[t].id
      BY <1>2, <3>1, <3>3 DEF Replaces
    <3> QED
      BY <3>2, <3>3
  <2>4. ASSUME thread[o].id \notin taken', NEW x \in rows', x.id = thread[o].id
        PROVE  /\ x.slot = thread[o].slot /\ x.user = thread[o].user
               /\ Said(o) /\ thread[o].user \in Patient => x.rank = thread[o].rank
    <3>1. CASE x # n
      BY <1>2, <2>1, <2>4, <3>1 DEF Replaces
    <3>2. CASE x = n
      <4>1. i = thread[o].id /\ i # nextId
        BY <1>1, <1>2, <1>4, <2>1, <2>4, <3>2 DEF Replaces
      <4>2. PICK y \in rows : y.id = i /\ i = thread[t].id
        BY <1>2, <4>1 DEF Replaces
      <4>3. y.slot = x.slot /\ y.user = x.user
        BY <1>2, <2>4, <3>2, <4>1, <4>2 DEF Replaces
      <4>4. y.slot = thread[o].slot /\ y.user = thread[o].user
        BY <1>2, <2>1, <2>4, <4>1, <4>2 DEF Replaces
      <4>5. x.user = thread[t].user
        BY <1>2, <3>2 DEF Replaces
      <4> QED
        BY <1>5, <4>3, <4>4, <4>5
    <3> QED
      BY <3>1, <3>2
  <2> QED
    BY <2>1, <2>2, <2>3, <2>4
<1>10. EntriesRead(o)'
  BY <1>1, <1>2, <1>3, <1>4, <1>8 DEF RequestInv, EntriesRead, Replaces
<1> QED
  BY <1>6, <1>7, <1>9, <1>10 DEF RequestInv

LEMMA SaveInv ==
  ASSUME IInv, NEW t \in Threads, Save(t)
  PROVE  IInv'
<1>1. /\ TypeOK /\ TypeOK' /\ Busy(t) /\ thread[t] \in Entity /\ thread[t].phase = "checked"
      /\ acl' = acl /\ nextSlot' = nextSlot /\ slots' = slots
  BY SaveType, ThreadType DEF IInv, Save
<1>2. PICK i \in Ids : Replaces(t, i)
  BY SaveReplaces
<1> DEFINE n == RowFor(thread[t], i)
<1>3. /\ thread'[t].phase = "saved" /\ thread'[t].id = i
      /\ thread'[t].put = thread[t].put /\ thread'[t].managed = thread[t].managed
      /\ thread'[t].slot = thread[t].slot /\ thread'[t].user = thread[t].user
      /\ thread'[t].rank = thread[t].rank
  BY <1>1, <1>2 DEF Replaces, Entity
<1>4. OneRequestEach'
  BY <1>1, <1>2, <1>3, OneRequestKept DEF Replaces
<1>5. TableOK'
  BY SaveTable
<1>6. /\ n \in rows' /\ n.id = i
      /\ n.slot = thread[t].slot /\ n.user = thread[t].user
      /\ n.rank = thread[t].rank
  BY <1>2 DEF Replaces
<1>7. i < nextId' /\ \A x \in rows' : x.id = i => x = n
  BY <1>5, <1>6 DEF TableOK, Keys
<1> HIDE DEF n
<1>8. OwnId(t)'
  BY <1>1, <1>3, <1>6, <1>7 DEF OwnId, IInv, RequestInv
<1>9. StillSaved(t)'
  BY <1>3, <1>6, <1>7 DEF StillSaved, WithId
<1>10. EntriesRead(t)'
  BY <1>3, <1>5, <1>6 DEF EntriesRead, TableOK, OnlyOwnerGranted
<1>11. RequestInv(t)'
  BY <1>3, <1>8, <1>9, <1>10 DEF RequestInv, LookUpHolds
<1>12. ASSUME NEW o \in Threads \ {t}, Stands(o)'
       PROVE  /\ thread'[o] = thread[o] /\ Stands(o)
              /\ thread[o].id = i => thread[o].user = thread[t].user
  <2>1. thread'[o] = thread[o] /\ Stands(o)
    BY <1>2, <1>12 DEF Replaces, Stands, Backed, Said, Busy
  <2>2. StillSaved(o)' /\ Backed(o)' /\ thread'[o].id \notin taken'
    BY <1>12, SaveOthers DEF Stands, RequestInv
  <2>3. thread[o].id = i => n.user = thread[o].user
    BY <1>6, <2>1, <2>2 DEF StillSaved, WithId
  <2> QED
    BY <1>6, <2>1, <2>3
<1>13. OneOwnerEach'
  <2> SUFFICES ASSUME NEW q \in Threads, NEW o \in Threads, Stands(q)', Stands(o)',
                      thread'[o].id = thread'[q].id
               PROVE  thread'[o].user = thread'[q].user
    BY DEF OneOwnerEach
  <2>1. CASE q = t /\ o # t
    BY <1>3, <1>12, <2>1
  <2>2. CASE o = t /\ q # t
    BY <1>3, <1>12, <2>2
  <2>3. CASE o # t /\ q # t
    BY <1>12, <2>3 DEF IInv, OneOwnerEach
  <2> QED
    BY <2>1, <2>2, <2>3
<1> QED
  BY <1>1, <1>4, <1>5, <1>11, <1>13, SaveOthers DEF IInv, TableOK

(***************************************************************************)
(* Copying.                                                                *)
(***************************************************************************)

\* A row that is there already, and stays.
Left(x, gone) == x \in rows /\ x.slot \notin gone

\* A row of the identity column's new range, for one of the new time slots.
New(x) == /\ x \in Row /\ nextId <= x.id /\ x.id < nextId'
          /\ nextSlot <= x.slot /\ x.slot < nextSlot' /\ x.slot \in slots'

LEMMA CopyWrites ==
  ASSUME IInv, NEW from \in SUBSET slots, NEW gone \in SUBSET slots, DeepCopy(from, gone)
  PROVE  /\ nextSlot' \in nextSlot .. MaxSlots + 1 /\ nextId' \in nextId .. MaxRows + 1
         /\ slots \ gone \subseteq slots'
         /\ \A s \in slots' : s \in slots \ gone \/ s \in nextSlot .. nextSlot' - 1
         /\ \A x \in rows : x.slot \notin gone => x \in rows'
         /\ \A x \in rows' : Left(x, gone) \/ New(x)
         /\ \A x, y \in rows' : New(x) /\ New(y) =>
              /\ x.id = y.id => x = y
              /\ x.user = y.user /\ x.slot = y.slot /\ x.user \in Patient => x = y
         /\ UNCHANGED <<acl, seen, thread, reply, taken, sent>>
<1> DEFINE copied == {x \in rows : x.slot \in from}
<1>1. PICK nextS \in nextSlot .. MaxSlots + 1, nextI \in nextId .. MaxRows + 1 :
        \E at \in Bijection(from, nextSlot .. nextS - 1),
           as \in Bijection(copied, nextId .. nextI - 1) :
             /\ rows' = {x \in rows : x.slot \notin gone}
                           \cup {[x EXCEPT !.id = as[x], !.slot = at[x.slot]] : x \in copied}
             /\ slots' = (slots \ gone) \cup {at[s] : s \in from}
             /\ nextSlot' = nextS /\ nextId' = nextI
  BY DEF DeepCopy
<1>2. PICK at \in Bijection(from, nextSlot .. nextS - 1),
           as \in Bijection(copied, nextId .. nextI - 1) :
        /\ rows' = {x \in rows : x.slot \notin gone}
                      \cup {[x EXCEPT !.id = as[x], !.slot = at[x.slot]] : x \in copied}
        /\ slots' = (slots \ gone) \cup {at[s] : s \in from}
        /\ nextSlot' = nextS /\ nextId' = nextI
  BY <1>1
<1>3. /\ TypeOK /\ nextSlot \in Nat /\ nextId \in Nat /\ nextSlot > 0 /\ nextId > 0
      /\ nextSlot' \in nextSlot .. MaxSlots + 1 /\ nextId' \in nextId .. MaxRows + 1
      /\ nextSlot' \in Nat /\ nextId' \in Nat /\ nextSlot' <= MaxSlots + 1 /\ nextId' <= MaxRows + 1
  <2>1. nextSlot' \in nextSlot .. MaxSlots + 1 /\ nextId' \in nextId .. MaxRows + 1
    BY <1>2
  <2>2. TypeOK /\ nextSlot \in 1 .. MaxSlots + 1 /\ nextId \in 1 .. MaxRows + 1
    BY DEF IInv, TypeOK
  <2>3. nextSlot \in Nat /\ nextId \in Nat /\ nextSlot > 0 /\ nextId > 0
    BY <2>2, BoundsAreNat
  <2>4. nextSlot' \in Nat /\ nextId' \in Nat /\ nextSlot' <= MaxSlots + 1 /\ nextId' <= MaxRows + 1
    BY <2>1, <2>3, BoundsAreNat
  <2> HIDE DEF copied
  <2> QED
    BY <2>1, <2>2, <2>3, <2>4
<1>4. /\ \A s \in from : at[s] \in nextSlot .. nextSlot' - 1
      /\ \A s, r \in from : at[s] = at[r] => s = r
  BY <1>2 DEF Bijection, Injection, IsInjective
<1>5. /\ \A x \in copied : as[x] \in nextId .. nextId' - 1
      /\ \A x, y \in copied : as[x] = as[y] => x = y
  <2> HIDE DEF copied
  <2> QED
    BY <1>2 DEF Bijection, Injection, IsInjective
<1> DEFINE new(x) == [x EXCEPT !.id = as[x], !.slot = at[x.slot]]
<1>6. ASSUME NEW x \in copied
      PROVE  /\ x \in rows /\ x.slot \in from
             /\ new(x).id = as[x] /\ new(x).slot = at[x.slot]
             /\ new(x).user = x.user /\ New(new(x))
  <2>1. x \in rows /\ x \in Row /\ x.slot \in from
    BY <1>3, RowType
  <2>2. /\ new(x).id = as[x] /\ new(x).slot = at[x.slot] /\ new(x).user = x.user
    BY <2>1 DEF Row
  <2>3. as[x] \in Ids /\ as[x] \in Nat /\ as[x] >= nextId /\ as[x] < nextId'
    <3>1. PICK i \in nextId .. nextId' - 1 : as[x] = i
      BY <1>5
    <3>2. i \in 1 .. MaxRows /\ i \in Nat /\ i >= nextId /\ i < nextId'
      BY <1>3, BoundsAreNat
    <3> QED
      BY <3>1, <3>2 DEF Ids
  <2>4. at[x.slot] \in SlotIds /\ at[x.slot] >= nextSlot /\ at[x.slot] < nextSlot'
    BY <1>3, <1>4, <2>1, BoundsAreNat DEF SlotIds
  <2>5. new(x) \in Row
    <3> HIDE DEF copied
    <3> QED
      BY <2>1, <2>3, <2>4 DEF Row
  <2>6. at[x.slot] \in slots'
    BY <1>2, <2>1
  <2> HIDE DEF new, copied
  <2> QED
    BY <2>1, <2>2, <2>3, <2>4, <2>5, <2>6 DEF New
<1>7. ASSUME NEW y \in rows'
      PROVE  Left(y, gone) \/ \E x \in copied : y = new(x)
  BY <1>2 DEF Left
<1>8. ASSUME NEW y \in rows', New(y)
      PROVE  \E x \in copied : y = new(x)
  <2>1. ~Left(y, gone)
    BY <1>3, <1>8, RowType DEF Left, New, IInv, Keys, Row, Ids
  <2> QED
    BY <1>7, <2>1
<1>9. ASSUME NEW y \in rows', NEW z \in rows', New(y), New(z)
      PROVE  /\ y.id = z.id => y = z
             /\ y.user = z.user /\ y.slot = z.slot /\ y.user \in Patient => y = z
  <2>1. PICK x \in copied : y = new(x)
    BY <1>8, <1>9
  <2>2. PICK w \in copied : z = new(w)
    BY <1>8, <1>9
  <2>3. /\ y.id = as[x] /\ y.slot = at[x.slot] /\ y.user = x.user /\ x.slot \in from /\ x \in rows
        /\ z.id = as[w] /\ z.slot = at[w.slot] /\ z.user = w.user /\ w.slot \in from /\ w \in rows
    BY <1>6, <2>1, <2>2
  <2>4. y.id = z.id => x = w
    <3> HIDE DEF new, copied
    <3> QED
      BY <1>5, <2>3
  <2>5. y.user = z.user /\ y.slot = z.slot /\ y.user \in Patient => x = w
    <3> HIDE DEF new, copied
    <3> QED
      BY <1>4, <2>3 DEF IInv, OneAnswerEach
  <2> HIDE DEF new, copied
  <2> QED
    BY <2>1, <2>2, <2>4, <2>5
<1>10. \A y \in rows' : Left(y, gone) \/ New(y)
  BY <1>6, <1>7
<1>11. /\ slots \ gone \subseteq slots'
       /\ \A s \in slots' : s \in slots \ gone \/ s \in nextSlot .. nextSlot' - 1
       /\ \A x \in rows : x.slot \notin gone => x \in rows'
  BY <1>2, <1>4
<1>12. UNCHANGED <<acl, seen, thread, reply, taken, sent>>
  BY DEF DeepCopy
<1> HIDE DEF new, copied
<1> QED
  BY <1>3, <1>9, <1>10, <1>11, <1>12

LEMMA CopyTable ==
  ASSUME IInv, NEW from \in SUBSET slots, NEW gone \in SUBSET slots, DeepCopy(from, gone)
  PROVE  TypeOK' /\ TableOK'
<1>1. /\ TypeOK /\ nextSlot \in Nat /\ nextId \in Nat /\ nextSlot > 0 /\ nextId > 0
      /\ \A s \in slots : s < nextSlot /\ s \in Nat /\ s > 0
      /\ UNCHANGED <<acl, seen, thread, reply, taken, sent>>
  <2>1. TypeOK /\ nextSlot \in 1 .. MaxSlots + 1 /\ nextId \in 1 .. MaxRows + 1
    BY DEF IInv, TypeOK
  <2>2. nextSlot \in Nat /\ nextId \in Nat /\ nextSlot > 0 /\ nextId > 0
    BY <2>1, BoundsAreNat
  <2>3. \A s \in slots : s < nextSlot /\ s \in Nat /\ s > 0
    BY <2>1, <2>2 DEF TypeOK
  <2>4. UNCHANGED <<acl, seen, thread, reply, taken, sent>>
    BY CopyWrites
  <2> QED
    BY <2>1, <2>2, <2>3, <2>4
<1>2. /\ nextSlot' \in nextSlot .. MaxSlots + 1 /\ nextId' \in nextId .. MaxRows + 1
      /\ nextSlot' \in Nat /\ nextId' \in Nat
  <2>1. nextSlot' \in nextSlot .. MaxSlots + 1 /\ nextId' \in nextId .. MaxRows + 1
    BY CopyWrites
  <2> QED
    BY <1>1, <2>1, BoundsAreNat
<1>3. ASSUME NEW x \in rows'
      PROVE  Left(x, gone) \/ New(x)
  BY CopyWrites
<1>4. ASSUME NEW x, Left(x, gone)
      PROVE  x \in Row /\ x.id \in Nat /\ x.id < nextId /\ x.slot < nextSlot /\ x.slot \in slots \ gone
             /\ x.slot \in Nat
  BY <1>1, <1>4, RowType DEF Left, IInv, Keys
<1>5. ASSUME NEW x, New(x)
      PROVE  x \in Row /\ x.id \in Nat /\ x.slot \in Nat /\ x.id >= nextId /\ x.slot >= nextSlot
             /\ x.id < nextId' /\ x.slot \in slots'
  BY <1>1, <1>2, <1>5 DEF New, Row, Ids, SlotIds
<1>6. TypeOK'
  <2>1. rows' \in SUBSET Row
    BY <1>3, <1>4, <1>5
  <2>2. slots' \subseteq 1 .. nextSlot' - 1
    <3> SUFFICES ASSUME NEW s \in slots' PROVE s \in 1 .. nextSlot' - 1
      OBVIOUS
    <3>1. s \in slots \/ s \in nextSlot .. nextSlot' - 1
      BY CopyWrites
    <3> QED
      BY <1>1, <1>2, <3>1
  <2>3. nextId' \in 1 .. MaxRows + 1 /\ nextSlot' \in 1 .. MaxSlots + 1
    BY <1>1, <1>2, BoundsAreNat
  <2> QED
    BY <1>1, <2>1, <2>2, <2>3 DEF TypeOK
<1>7. Keys'
  <2>1. ASSUME NEW x \in rows', NEW y \in rows', x.id = y.id
        PROVE  x = y
    <3>1. CASE Left(x, gone) /\ Left(y, gone)
      BY <2>1, <3>1 DEF Left, IInv, Keys
    <3>2. CASE New(x) /\ New(y)
      BY <2>1, <3>2, CopyWrites
    <3>3. ~(Left(x, gone) /\ New(y)) /\ ~(New(x) /\ Left(y, gone))
      BY <1>1, <1>4, <1>5, <2>1
    <3> QED
      BY <1>3, <3>1, <3>2, <3>3
  <2>2. ASSUME NEW x \in rows'
        PROVE  x.id < nextId' /\ x.slot \in slots'
    <3>1. slots \ gone \subseteq slots'
      BY CopyWrites
    <3> QED
      BY <1>1, <1>2, <1>3, <1>4, <1>5, <3>1
  <2>3. \A i \in Ids : i >= nextId' => acl'[i] = NoThread
    BY <1>1, <1>2 DEF IInv, Keys, Ids
  <2> QED
    BY <2>1, <2>2, <2>3 DEF Keys
<1>8. OneAnswerEach'
  <2> SUFFICES ASSUME NEW x \in rows', NEW y \in rows',
                      x.user \in Patient, x.user = y.user, x.slot = y.slot
               PROVE  x = y
    BY DEF OneAnswerEach
  <2>1. CASE Left(x, gone) /\ Left(y, gone)
    BY <2>1 DEF Left, IInv, OneAnswerEach
  <2>2. CASE New(x) /\ New(y)
    BY <2>2, CopyWrites
  <2>3. ~(Left(x, gone) /\ New(y)) /\ ~(New(x) /\ Left(y, gone))
    BY <1>1, <1>4, <1>5
  <2> QED
    BY <1>3, <2>1, <2>2, <2>3
<1>9. OnlyOwnerGranted'
  <2> SUFFICES ASSUME NEW x \in rows', acl[x.id] # NoThread, x.id \notin taken
               PROVE  acl[x.id] \subseteq {x.user}
    BY <1>1 DEF OnlyOwnerGranted
  <2>1. CASE Left(x, gone)
    BY <2>1 DEF Left, IInv, OnlyOwnerGranted
  <2>2. ~New(x)
    BY <1>5 DEF New, Row, IInv, Keys
  <2> QED
    BY <1>3, <2>1, <2>2
<1> QED
  BY <1>6, <1>7, <1>8, <1>9 DEF TableOK

\* What requests know of the table stays true of it: a row goes with its slot.
LEMMA CopyOthers ==
  ASSUME IInv, NEW from \in SUBSET slots, NEW gone \in SUBSET slots, DeepCopy(from, gone),
         NEW t \in Threads, Busy(t)
  PROVE  RequestInv(t)'
<1>1. /\ TypeOK /\ nextSlot \in Nat /\ nextId \in Nat /\ RequestInv(t)
      /\ thread[t] \in Entity /\ thread[t].id \in Nat /\ thread[t].slot \in Nat
      /\ acl' = acl /\ seen' = seen /\ thread' = thread /\ taken' = taken
  <2>1. TypeOK /\ RequestInv(t)
    BY DEF IInv
  <2>2. nextSlot \in Nat /\ nextId \in Nat
    BY <2>1, SlotType
  <2>3. thread[t] \in Entity
    BY <2>1, ThreadType
  <2>4. thread[t].id \in Nat /\ thread[t].slot \in Nat
    BY <2>3 DEF Entity, SlotIds
  <2>5. acl' = acl /\ seen' = seen /\ thread' = thread /\ taken' = taken
    BY CopyWrites
  <2> QED
    BY <2>1, <2>2, <2>3, <2>4, <2>5
<1>2. nextSlot' \in Nat /\ nextSlot' >= nextSlot /\ nextId' \in Nat /\ nextId' >= nextId
  <2>1. nextSlot' \in nextSlot .. MaxSlots + 1 /\ nextId' \in nextId .. MaxRows + 1
    BY CopyWrites
  <2> QED
    BY <1>1, <2>1, BoundsAreNat
<1>3. ASSUME NEW x \in rows'
      PROVE  \/ x \in rows /\ x.slot \notin gone
             \/ x.id \in Nat /\ x.id >= nextId /\ x.slot \in Nat /\ x.slot >= nextSlot
  <2>1. Left(x, gone) \/ New(x)
    BY CopyWrites
  <2>2. CASE Left(x, gone)
    BY <2>2 DEF Left
  <2>3. CASE New(x)
    <3>1. x \in Row /\ nextId <= x.id /\ nextSlot <= x.slot
      BY <2>3 DEF New
    <3>2. x.id \in Nat /\ x.slot \in Nat
      BY <3>1 DEF Row, Ids, SlotIds
    <3> QED
      BY <1>1, <3>1, <3>2
  <2> QED
    BY <2>1, <2>2, <2>3
<1>4. OwnId(t)'
  BY <1>1, <1>2, <1>3 DEF RequestInv, OwnId
<1>5. LookUpHolds(t)'
  BY <1>1, <1>3 DEF RequestInv, OwnId, LookUpHolds, RowsOf
<1>6. (Backed(t)' <=> Backed(t)) /\ (Said(t)' <=> Said(t))
  BY <1>1 DEF Backed, Said
<1>7. StillSaved(t)'
  <2> SUFFICES ASSUME Backed(t)
               PROVE  /\ thread[t].id \in Ids /\ thread[t].id < nextId'
                      /\ thread[t].id \notin taken =>
                           /\ thread[t].slot \in slots' =>
                                \E x \in rows' : x.id = thread[t].id
                           /\ \A x \in rows' : x.id = thread[t].id =>
                                /\ x.slot = thread[t].slot /\ x.user = thread[t].user
                                /\ Said(t) /\ thread[t].user \in Patient =>
                                     x.rank = thread[t].rank
    BY <1>1, <1>6 DEF StillSaved, WithId
  <2>1. /\ thread[t].id \in Ids /\ thread[t].id < nextId
        /\ thread[t].id \notin taken =>
             /\ thread[t].slot \in slots => \E x \in rows : x.id = thread[t].id
             /\ \A x \in rows : x.id = thread[t].id =>
                  /\ x.slot = thread[t].slot /\ x.user = thread[t].user
                  /\ Said(t) /\ thread[t].user \in Patient => x.rank = thread[t].rank
    BY <1>1 DEF RequestInv, StillSaved, WithId
  <2>2. ASSUME thread[t].slot \in slots', thread[t].id \notin taken
        PROVE  \E x \in rows' : x.id = thread[t].id
    <3>1. thread[t].slot < nextSlot
      BY <1>1 DEF RequestInv, OwnId
    <3>2. thread[t].slot \in slots \ gone
      <4>1. thread[t].slot \in slots \ gone \/ thread[t].slot \in nextSlot .. nextSlot' - 1
        BY <2>2, CopyWrites
      <4> QED
        BY <1>1, <1>2, <3>1, <4>1
    <3>3. PICK x \in rows : x.id = thread[t].id /\ x.slot = thread[t].slot
      BY <2>1, <2>2, <3>2
    <3> QED
      BY <3>2, <3>3, CopyWrites
  <2>3. ASSUME NEW x \in rows', x.id = thread[t].id
        PROVE  x \in rows
    BY <1>1, <1>3, <2>1, <2>3
  <2> QED
    BY <1>1, <1>2, <2>1, <2>2, <2>3
<1>8. EntriesRead(t)'
  BY <1>1, <1>6 DEF RequestInv, EntriesRead
<1> QED
  BY <1>4, <1>5, <1>7, <1>8 DEF RequestInv

LEMMA DeepCopyInv ==
  ASSUME IInv, NEW from \in SUBSET slots, NEW gone \in SUBSET slots, DeepCopy(from, gone)
  PROVE  IInv'
<1>1. TypeOK' /\ TableOK'
  BY CopyTable
<1>2. thread' = thread /\ taken' = taken
  BY CopyWrites
<1>3. \A t \in Threads : Busy(t)' => RequestInv(t)'
  BY <1>2, CopyOthers DEF Busy
<1>4. OneRequestEach'
  BY <1>2 DEF IInv, OneRequestEach, Busy
<1>5. OneOwnerEach'
  BY <1>2 DEF IInv, OneOwnerEach, Stands, Backed, Said, Busy
<1> QED
  BY <1>1, <1>3, <1>4, <1>5 DEF IInv, TableOK

(***************************************************************************)
(* The theorems.                                                           *)
(***************************************************************************)

LEMMA StepInv == IInv /\ [Next]_vars => IInv'
<1> SUFFICES ASSUME IInv, [Next]_vars PROVE IInv'
  OBVIOUS
<1>1. ASSUME NEW t \in Threads, Aspect(t)
      PROVE  IInv'
  <2>1. CheckFails(t) => IInv'
    BY AnswerInv DEF CheckFails
  <2>2. SaveFails(t) => IInv'
    BY AnswerInv DEF SaveFails
  <2>3. WriteAclFails(t) => IInv'
    BY AnswerInv DEF WriteAclFails
  <2> QED
    BY <1>1, <2>1, <2>2, <2>3, CheckInv, SaveInv, SaveVainInv, ReadAclInv, WriteAclInv DEF Aspect
<1>2. CASE UNCHANGED vars
  <2>1. /\ UNCHANGED <<table, acl, seen, thread, reply, taken, sent>>
        /\ rows' = rows /\ nextId' = nextId /\ slots' = slots /\ nextSlot' = nextSlot
    BY <1>2 DEF vars, table
  <2>2. TypeOK' /\ TableOK'
    BY <2>1 DEF IInv, TypeOK, TableOK, Keys, OneAnswerEach, OnlyOwnerGranted
  <2>3. OneRequestEach' /\ OneOwnerEach'
    BY <2>1 DEF IInv, OneRequestEach, OneOwnerEach, Stands, Busy, Backed, Said
  <2>4. ASSUME NEW t \in Threads, Busy(t)'
        PROVE  RequestInv(t)'
    <3>1. RequestInv(t)
      BY <2>1, <2>4 DEF IInv, Busy
    <3> QED
      BY <2>1, <3>1 DEF RequestInv, OwnId, LookUpHolds, StillSaved, EntriesRead, RowsOf,
                        WithId, Backed, Said
  <2> QED
    BY <2>2, <2>3, <2>4 DEF IInv, TableOK
<1> QED
  BY <1>1, <1>2, PostInv, PutInv, DeepCopyInv DEF Next

\* The invariant holds whatever number of requests, users, threads, rows and time
\* slots there are.
THEOREM Invariance == Spec => []IInv
BY InitInv, StepInv, PTL DEF Spec

\* Rows, entities and access control lists are well formed.
THEOREM Typing == Spec => []TypeOK
<1>1. IInv => TypeOK
  BY DEF IInv
<1> QED
  BY <1>1, Invariance, PTL

\* The look-up for a user who waits never finds two rows.
LEMMA AtMostOne ==
  ASSUME IInv, NEW s \in SlotIds, NEW u \in Patient
  PROVE  Cardinality(RowsOf(s, u)) \in {0, 1}
<1>1. \A x, y \in RowsOf(s, u) : x = y
  BY DEF IInv, OneAnswerEach, RowsOf
<1>2. CASE RowsOf(s, u) = {}
  BY <1>2, FS_EmptySet
<1>3. ASSUME NEW x \in RowsOf(s, u)
      PROVE  Cardinality(RowsOf(s, u)) \in {0, 1}
  <2>1. RowsOf(s, u) = {x}
    BY <1>1, <1>3
  <2> QED
    BY <2>1, FS_Singleton
<1> QED
  BY <1>2, <1>3

\* A user who waits for the reply has one answer to a time slot at most.
THEOREM OneAnswer == Spec => []Unique
<1>1. IInv => Unique
  BY AtMostOne DEF Unique
<1> QED
  BY <1>1, Invariance, PTL

\* No interleaving of registrations grants an answer to somebody it never was of.
THEOREM Granted == Spec => []OnlyOwnerGranted
<1>1. IInv => OnlyOwnerGranted
  BY DEF IInv
<1> QED
  BY <1>1, Invariance, PTL

\* The reply is given when a request ends.
Waiting == \A t \in Threads : Busy(t) => reply[t] = "none"

LEMMA WaitingInit == Init => Waiting
BY DEF Init, Waiting, Busy

\* The steps of a thread that give no reply.
LEMMA SilentStep ==
  ASSUME IInv, NEW t \in Threads, Check(t) \/ Save(t) \/ SaveVain(t) \/ ReadAcl(t)
  PROVE  Busy(t) /\ reply' = reply /\ \A o \in Threads \ {t} : thread'[o] = thread[o]
<1>1. TypeOK
  BY DEF IInv
<1>2. CASE Check(t)
  BY <1>1, <1>2, CheckWrites DEF Check
<1>3. CASE Save(t)
  <2>1. PICK i \in Ids : Replaces(t, i)
    BY <1>3, SaveReplaces
  <2> QED
    BY <1>3, <2>1 DEF Save, Replaces
<1>4. CASE SaveVain(t) \/ ReadAcl(t)
  BY <1>1, <1>4 DEF SaveVain, ReadAcl, TypeOK
<1> QED
  BY <1>2, <1>3, <1>4

\* Only the thread of the step is answered.
LEMMA WaitingStep == IInv /\ Waiting /\ [Next]_vars => Waiting'
<1> SUFFICES ASSUME IInv, Waiting, [Next]_vars PROVE Waiting'
  OBVIOUS
<1>0. TypeOK /\ Keys
  BY DEF IInv
<1>1. ASSUME NEW t \in Threads, NEW u \in Users, NEW e \in Entity, Accept(t, u, e)
      PROVE  Waiting'
  BY <1>0, <1>1 DEF Accept, Waiting, Busy, TypeOK
<1>2. ASSUME NEW t \in Threads, NEW u \in Users, Post(t, u) \/ Put(t, u)
      PROVE  Waiting'
  <2>1. \E e \in Entity : Accept(t, u, e)
    BY <1>0, <1>2, PostAccepts, PutAccepts
  <2> QED
    BY <1>1, <2>1
<1>3. ASSUME NEW t \in Threads, NEW status \in {"ok", "error"}, Answer(t, status)
      PROVE  Waiting'
  BY <1>0, <1>3, AnswerType DEF Answer, Waiting, Busy, TypeOK
<1>4. ASSUME NEW t \in Threads, Check(t) \/ Save(t) \/ SaveVain(t) \/ ReadAcl(t)
      PROVE  Waiting'
  BY <1>4, SilentStep DEF Waiting, Busy
<1>5. ASSUME NEW from \in SUBSET slots, NEW gone \in SUBSET slots, DeepCopy(from, gone)
      PROVE  Waiting'
  BY <1>5 DEF DeepCopy, Waiting, Busy
<1>6. CASE UNCHANGED vars
  BY <1>6 DEF vars, Waiting, Busy
<1> QED
  BY <1>2, <1>3, <1>4, <1>5, <1>6
     DEF Next, Aspect, CheckFails, SaveFails, WriteAcl, WriteAclFails

LEMMA WaitingHolds == Spec => []Waiting
BY Invariance, WaitingInit, WaitingStep, PTL DEF Spec

\* A reply is given by the steps that end a request.
LEMMA ReplyStep ==
  ASSUME IInv, Waiting, [Next]_vars, NEW t \in Threads, Busy(t)
  PROVE  /\ reply'[t] = "ok" => WriteAcl(t)
         /\ reply'[t] = "error" => CheckFails(t) \/ SaveFails(t) \/ WriteAclFails(t)
<1>0. TypeOK /\ Keys /\ reply[t] = "none"
  BY DEF IInv, Waiting
<1>1. ASSUME NEW o \in Threads, NEW u \in Users, Post(o, u) \/ Put(o, u)
      PROVE  reply'[t] = "none"
  <2>1. PICK e \in Entity : Accept(o, u, e)
    BY <1>0, <1>1, PostAccepts, PutAccepts
  <2> QED
    BY <1>0, <2>1 DEF Accept, TypeOK
<1>2. ASSUME NEW o \in Threads, Check(o) \/ Save(o) \/ SaveVain(o) \/ ReadAcl(o)
      PROVE  reply'[t] = "none"
  BY <1>0, <1>2, SilentStep
<1>3. ASSUME NEW o \in Threads, WriteAcl(o)
      PROVE  reply'[t] = IF o = t THEN "ok" ELSE "none"
  BY <1>0, <1>3 DEF WriteAcl, Answer, TypeOK
<1>4. ASSUME NEW o \in Threads, CheckFails(o) \/ SaveFails(o) \/ WriteAclFails(o)
      PROVE  reply'[t] = IF o = t THEN "error" ELSE "none"
  BY <1>0, <1>4 DEF CheckFails, SaveFails, WriteAclFails, Answer, TypeOK
<1>5. ASSUME NEW from \in SUBSET slots, NEW gone \in SUBSET slots, DeepCopy(from, gone)
      PROVE  reply'[t] = "none"
  BY <1>0, <1>5 DEF DeepCopy
<1>6. CASE UNCHANGED vars
  BY <1>0, <1>6 DEF vars
<1> QED
  BY <1>1, <1>2, <1>3, <1>4, <1>5, <1>6 DEF Next, Aspect

\* No request takes over the answer of somebody else, but for a PUT; a publication
\* deletes answers with their slot only.
THEOREM Owners == Spec => OwnersKept
<1> DEFINE A == \A x \in rows : x.id \notin taken' /\ x.slot \in slots' =>
                  \E y \in rows' : x.id = y.id /\ x.slot = y.slot /\ x.user = y.user
<1>1. ASSUME IInv, [Next]_vars, NEW x \in rows, x.id \notin taken', x.slot \in slots'
      PROVE  \E y \in rows' : x.id = y.id /\ x.slot = y.slot /\ x.user = y.user
  <2>1. CASE rows' = rows
    BY <2>1
  <2>2. ASSUME NEW t \in Threads, Save(t)
        PROVE  \E y \in rows' : x.id = y.id /\ x.slot = y.slot /\ x.user = y.user
    <3>1. PICK i \in Ids : Replaces(t, i)
      BY <1>1, <2>2, SaveReplaces
    <3>2. CASE x.id # thread[t].id
      BY <3>1, <3>2 DEF Replaces
    <3>3. CASE x.id = thread[t].id
      BY <1>1, <3>1, <3>3 DEF Replaces
    <3> QED
      BY <3>2, <3>3
  <2>3. ASSUME NEW from \in SUBSET slots, NEW gone \in SUBSET slots, DeepCopy(from, gone)
        PROVE  x \in rows'
    <3>1. x.slot \in slots /\ x.slot \in Nat /\ x.slot < nextSlot /\ nextSlot \in Nat
      BY <1>1, SlotType DEF IInv, Keys, SlotIds
    <3>2. x.slot \in slots \ gone \/ x.slot \in nextSlot .. nextSlot' - 1
      BY <1>1, <2>3, CopyWrites
    <3>3. nextSlot' \in nextSlot .. MaxSlots + 1
      BY <1>1, <2>3, CopyWrites
    <3>4. x.slot \notin gone
      BY <3>1, <3>2, <3>3, BoundsAreNat
    <3> QED
      BY <1>1, <2>3, <3>4, CopyWrites
  <2>4. \/ rows' = rows \/ \E t \in Threads : Save(t)
        \/ \E from, gone \in SUBSET slots : DeepCopy(from, gone)
    <3>1. ASSUME NEW t \in Threads, NEW u \in Users, Post(t, u) \/ Put(t, u)
          PROVE  rows' = rows
      BY <1>1, <3>1, PostAccepts, PutAccepts DEF Accept, IInv, table
    <3> QED
      BY <1>1, <3>1 DEF Next, Aspect, Check, CheckFails, SaveVain, SaveFails, ReadAcl, WriteAcl,
                        WriteAclFails, vars, table
  <2> QED
    BY <2>1, <2>2, <2>3, <2>4
<1>2. IInv /\ [Next]_vars => [A]_vars
  BY <1>1
<1> QED
  BY <1>2, Invariance, PTL DEF Spec, OwnersKept

\* What a user who waits has been told is saved is in the table, unless a PUT has
\* taken it over or a publication has deleted the time slot.
THEOREM Posts == Spec => PostsSaved
<1> DEFINE A == \A t \in Threads :
                  Busy(t) /\ thread[t].user \in Patient /\ reply'[t] = "ok" =>
                    \/ SavedBy(t)
                    \/ thread[t].slot # thread[t].asked
                    \/ thread[t].id \in taken
                    \/ thread[t].slot \notin slots
<1>1. ASSUME IInv, Waiting, [Next]_vars, NEW t \in Threads,
             Busy(t), thread[t].user \in Patient, reply'[t] = "ok",
             thread[t].id \notin taken, thread[t].slot \in slots
      PROVE  SavedBy(t) \/ thread[t].slot # thread[t].asked
  <2>1. thread[t].phase = "registering"
    BY <1>1, ReplyStep DEF WriteAcl
  <2>2. StillSaved(t) /\ Said(t) /\ Backed(t)
    BY <1>1, <2>1 DEF IInv, RequestInv, Said, Backed
  <2>3. PICK x \in WithId(thread[t].id) :
          x.slot = thread[t].slot /\ x.user = thread[t].user /\ x.rank = thread[t].rank
    BY <1>1, <2>2 DEF StillSaved
  <2> QED
    BY <2>3 DEF SavedBy, WithId
<1>2. IInv /\ Waiting /\ [Next]_vars => [A]_vars
  BY <1>1
<1> QED
  BY <1>2, Invariance, WaitingHolds, PTL DEF Spec, PostsSaved

\* A POST of a user who waits fails only for a PUT that has taken its row, for a
\* publication that has deleted its slot, or among the first of all answers.
THEOREM Served == Spec => PatientAreServed
<1> DEFINE A == \A t \in Threads :
                  Busy(t) /\ thread[t].user \in Patient /\ reply'[t] = "error" =>
                    \/ thread[t].put
                    \/ thread[t].id \in taken
                    \/ thread[t].slot \notin slots
                    \/ thread[t].first
<1>1. ASSUME IInv, Waiting, [Next]_vars, NEW t \in Threads,
             Busy(t), thread[t].user \in Patient, reply'[t] = "error",
             ~thread[t].put, thread[t].id \notin taken, thread[t].slot \in slots,
             ~thread[t].first
      PROVE  FALSE
  <2>1. RequestInv(t) /\ thread[t] \in Entity
    BY <1>1, ThreadType DEF IInv
  <2>2. CASE CheckFails(t)
    <3>1. ~thread[t].managed
      BY <1>1, <2>1, <2>2 DEF RequestInv, OwnId, CheckFails
    <3>2. Cardinality(RowsOf(thread[t].slot, thread[t].user)) > 1
      BY <2>2, <3>1 DEF CheckFails
    <3>3. thread[t].slot \in SlotIds
      BY <2>1 DEF Entity
    <3> QED
      BY <1>1, <3>2, <3>3, AtMostOne
  <2>3. CASE SaveFails(t)
    <3>1. thread[t].phase = "checked" /\ thread[t].managed /\ WithId(thread[t].id) = {}
      BY <1>1, <2>3 DEF SaveFails, Unsavable
    <3> QED
      BY <1>1, <2>1, <3>1 DEF RequestInv, StillSaved, Backed
  <2>4. CASE WriteAclFails(t)
    <3>1. thread[t].phase = "registering" /\ Stands(t)
      BY <1>1, <2>4 DEF WriteAclFails, Stands, Backed, Said
    <3>2. seen[t] = acl[thread[t].id]
      BY <1>1, <2>1, <3>1 DEF RequestInv, EntriesRead, Stands
    <3>3. PICK o \in Threads \ {t} : /\ Busy(o)
                                     /\ thread[o].phase = "registering"
                                     /\ thread[o].id = thread[t].id
      BY <1>1, <2>4, <3>2 DEF WriteAclFails
    <3>4. Stands(o)
      BY <1>1, <3>3 DEF Stands, Backed, Said
    <3>5. thread[o].user = thread[t].user
      BY <1>1, <3>1, <3>3, <3>4 DEF IInv, OneOwnerEach
    <3> QED
      BY <1>1, <3>3, <3>5 DEF IInv, OneRequestEach
  <2> QED
    BY <1>1, <2>2, <2>3, <2>4, ReplyStep
<1>2. IInv /\ Waiting /\ [Next]_vars => [A]_vars
  BY <1>1
<1> QED
  BY <1>2, Invariance, WaitingHolds, PTL DEF Spec, PatientAreServed
=============================================================================
