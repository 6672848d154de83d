-------------------------- MODULE GridAdaptor_proofs --------------------------
(***************************************************************************)
(* Proofs about GridAdaptor, for every value of its constants.             *)
(***************************************************************************)
EXTENDS GridAdaptor, FiniteSetTheorems, TLAPS

(***************************************************************************)
(* The tables.                                                             *)
(***************************************************************************)

\* What the invariant says of the tables alone.
TablesOK ==
  /\ rows \in SUBSET Stored
  /\ \A r, s \in rows : r.table = s.table /\ r.id = s.id => r = s
  /\ nextId \in [Tables -> 1 .. MaxRows + 1]
  /\ \A r \in rows : r.id < nextId[r.table]

LEMMA StoredType ==
  ASSUME NEW r \in Stored
  PROVE  /\ r \in Row /\ r.id \in Ids /\ r.id \in Nat /\ r.table \in Tables
         /\ r.of \in 0 .. MaxRows /\ r.who \in Users \cup {NoOne} /\ r.val \in Values
BY BoundsAreNat DEF Stored, Row, Ids

\* The fields of a row with another id, value or table.
LEMMA RowFields ==
  ASSUME NEW r \in Row, NEW i \in 0 .. MaxRows, NEW x \in Values
  PROVE  /\ [r EXCEPT !.id = i] \in Row
         /\ [r EXCEPT !.id = i].id = i /\ [r EXCEPT !.id = i].table = r.table
         /\ [r EXCEPT !.id = i].of = r.of /\ [r EXCEPT !.id = i].who = r.who
         /\ [r EXCEPT !.val = x] \in Row
         /\ [r EXCEPT !.val = x].id = r.id /\ [r EXCEPT !.val = x].table = r.table
         /\ [r EXCEPT !.val = x].of = r.of /\ [r EXCEPT !.val = x].who = r.who
         /\ [r EXCEPT !.table = "rosterPlan", !.id = i] \in Row
         /\ [r EXCEPT !.table = "rosterPlan", !.id = i].id = i
BY DEF Row, Tables

LEMMA InitTables == Init => TablesOK
<1> SUFFICES ASSUME Init PROVE TablesOK
  OBVIOUS
<1> DEFINE Meeting(o, v) == [table |-> "rosterPlan", id |-> 1, of |-> 0, who |-> o, val |-> v]
           Copy(o, v)    == [Meeting(o, v) EXCEPT !.id = 2, !.of = 1]
           Slot(v)       == [table |-> "timeSlot", id |-> 1, of |-> 1, who |-> NoOne, val |-> v]
           Guest(g, v)   == [Slot(v) EXCEPT !.table = "rosterPlanUserInfo", !.who = g]
<1>1. PICK o \in Users, g \in Users, v \in Values :
        \E more \in SUBSET {Copy(o, v), Slot(v), Guest(g, v)} : rows = {Meeting(o, v)} \cup more
  BY Zenon DEF Init
<1> DEFINE a == Meeting(o, v)
           b == Copy(o, v)
           c == Slot(v)
           d == Guest(g, v)
<1>2. /\ a \in Stored /\ a.table = "rosterPlan" /\ a.id = 1
      /\ b \in Stored /\ b.table = "rosterPlan" /\ b.id = 2
      /\ c \in Stored /\ c.table = "timeSlot" /\ c.id = 1
      /\ d \in Stored /\ d.table = "rosterPlanUserInfo" /\ d.id = 1
      /\ a \in rows /\ rows \subseteq {a, b, c, d}
  <2>1. Meeting(o, v) \in Stored /\ Copy(o, v) \in Stored /\ Slot(v) \in Stored /\ Guest(g, v) \in Stored
    <3>1. {0, 1, 2} \subseteq 0 .. MaxRows /\ {1, 2} \subseteq Ids
      BY BoundsAreNat DEF Ids
    <3>2. Meeting(o, v) \in Row /\ Slot(v) \in Row
      BY <3>1 DEF Row, Tables
    <3>3. Copy(o, v) \in Row
      BY <3>1, <3>2 DEF Row
    <3>4. Guest(g, v) \in Row
      BY <3>2 DEF Row, Tables
    <3>5. Meeting(o, v).id \in Ids /\ Copy(o, v).id \in Ids /\ Slot(v).id \in Ids
          /\ Guest(g, v).id \in Ids
      BY <3>1
    <3> QED
      BY <3>2, <3>3, <3>4, <3>5 DEF Stored
  <2>2. /\ Meeting(o, v) \in rows
        /\ rows \subseteq {Meeting(o, v), Copy(o, v), Slot(v), Guest(g, v)}
    BY <1>1
  <2>3. /\ Meeting(o, v).table = "rosterPlan" /\ Meeting(o, v).id = 1
        /\ Copy(o, v).table = "rosterPlan" /\ Copy(o, v).id = 2
        /\ Slot(v).table = "timeSlot" /\ Slot(v).id = 1
        /\ Guest(g, v).table = "rosterPlanUserInfo" /\ Guest(g, v).id = 1
    OBVIOUS
  <2> HIDE DEF Meeting, Copy, Slot, Guest
  <2> QED
    BY <2>1, <2>2, <2>3
<1> HIDE DEF a, b, c, d
<1> DEFINE of(t) == {r \in rows : r.table = t}
<1>3. IsFiniteSet({a}) /\ Cardinality({a}) = 1 /\ Cardinality({c}) = 1 /\ Cardinality({d}) = 1
  BY FS_Singleton
<1>4. Cardinality({a} \cup {b}) = 2
  <2>1. b \notin {a}
    BY <1>2
  <2>2. Cardinality({a} \cup {b}) = Cardinality({a}) + 1
    BY <1>3, <2>1, FS_AddElement, Zenon
  <2> QED
    BY <1>3, <2>2
<1>5. of("rosterPlan") = IF b \in rows THEN {a} \cup {b} ELSE {a}
  <2>1. \A x : x \in of("rosterPlan") <=> x \in rows /\ x.table = "rosterPlan"
    OBVIOUS
  <2>4. \A x \in rows : x.table = "rosterPlan" <=> x = a \/ x = b
    BY <1>2
  <2> HIDE DEF of
  <2>2. CASE b \in rows
    <3>1. \A x : x \in of("rosterPlan") <=> x \in {a} \cup {b}
      BY <1>2, <2>1, <2>2, <2>4
    <3> QED
      BY <2>2, <3>1
  <2>3. CASE b \notin rows
    <3>1. \A x : x \in of("rosterPlan") <=> x \in {a}
      BY <1>2, <2>1, <2>3, <2>4
    <3> QED
      BY <2>3, <3>1
  <2> QED
    BY <2>2, <2>3
<1>6. of("timeSlot") = (IF c \in rows THEN {c} ELSE {})
  BY <1>2
<1>7. of("rosterPlanUserInfo") = (IF d \in rows THEN {d} ELSE {})
  BY <1>2
<1>8. /\ Cardinality(of("rosterPlan")) = IF b \in rows THEN 2 ELSE 1
      /\ Cardinality(of("timeSlot")) = IF c \in rows THEN 1 ELSE 0
      /\ Cardinality(of("rosterPlanUserInfo")) = IF d \in rows THEN 1 ELSE 0
  BY <1>3, <1>4, <1>5, <1>6, <1>7, FS_EmptySet
<1>9. /\ nextId \in [Tables -> 1 .. 3]
      /\ nextId["rosterPlan"] = IF b \in rows THEN 3 ELSE 2
      /\ nextId["timeSlot"] = IF c \in rows THEN 2 ELSE 1
      /\ nextId["rosterPlanUserInfo"] = IF d \in rows THEN 2 ELSE 1
  <2>1. nextId = [t \in Tables |-> 1 + Cardinality(of(t))]
    BY DEF Init
  <2> HIDE DEF of
  <2> QED
    BY <1>8, <2>1 DEF Tables
<1>10. nextId \in [Tables -> 1 .. MaxRows + 1]
  BY <1>9, BoundsAreNat
<1> QED
  BY <1>2, <1>9, <1>10 DEF TablesOK

\* Another row, with the next id of its table.
LEMMA InsertTables ==
  ASSUME TablesOK, NEW c \in Change, Inserts(c), nextId[c.row.table] \in Ids,
         rows' = rows \cup {Numbered(c)}, nextId' = [nextId EXCEPT ![c.row.table] = @ + 1]
  PROVE  /\ TablesOK'
         /\ Numbered(c).table = c.row.table /\ Numbered(c).id = nextId[c.row.table]
         /\ \A t \in Tables : nextId[t] <= nextId'[t]
<1>1. c.row \in Row /\ c.row.table \in Tables
  BY DEF Change, Row
<1>2. Numbered(c) \in Row /\ Numbered(c).table = c.row.table /\ Numbered(c).id = nextId[c.row.table]
  BY <1>1 DEF Numbered, Row, Ids
<1>3. \A t \in Tables : nextId[t] \in Nat
  BY DEF TablesOK
<1>4. Numbered(c) \in Stored
  BY <1>2 DEF Stored
<1>5. nextId' \in [Tables -> 1 .. MaxRows + 1]
  BY <1>1, BoundsAreNat DEF TablesOK, Ids
<1>6. \A t \in Tables : nextId'[t] = IF t = c.row.table THEN nextId[t] + 1 ELSE nextId[t]
  BY <1>1 DEF TablesOK
<1>7. ASSUME NEW r \in rows', NEW s \in rows', r.table = s.table, r.id = s.id
      PROVE  r = s
  <2>1. \A x \in rows : x.table = c.row.table => x.id # nextId[c.row.table]
    BY <1>1, <1>3, StoredType DEF TablesOK
  <2> QED
    BY <1>2, <1>7, <2>1 DEF TablesOK
<1>8. ASSUME NEW r \in rows'
      PROVE  r.id < nextId'[r.table]
  <2>1. CASE r \in rows
    <3>1. r.table \in Tables /\ r.id \in Nat /\ r.id < nextId[r.table]
      BY <2>1, StoredType DEF TablesOK
    <3> QED
      BY <1>3, <1>6, <3>1
  <2>2. CASE r = Numbered(c)
    BY <1>1, <1>2, <1>3, <1>6, <2>2
  <2> QED
    BY <2>1, <2>2
<1> QED
  BY <1>2, <1>3, <1>4, <1>5, <1>6, <1>7, <1>8 DEF TablesOK

\* A PUT to a row that is there changes its value alone.
LEMMA UpdateTables ==
  ASSUME TablesOK, NEW c \in Change, nextId' = nextId,
         rows' = (rows \ Same(c.row)) \cup {[x EXCEPT !.val = c.row.val] : x \in Same(c.row)}
  PROVE  /\ TablesOK'
         /\ \A r \in rows' : \E x \in rows :
              r.table = x.table /\ r.id = x.id /\ r.of = x.of /\ r.who = x.who
         /\ \A x \in rows : \E r \in rows' : r.table = x.table /\ r.id = x.id
<1> DEFINE New(x) == [x EXCEPT !.val = c.row.val]
<1>1. c.row.val \in Values
  BY DEF Change, Row
<1>2. ASSUME NEW x \in rows
      PROVE  /\ New(x) \in Stored
             /\ New(x).table = x.table /\ New(x).id = x.id
             /\ New(x).of = x.of /\ New(x).who = x.who
  <2>1. x \in Row /\ x.id \in Ids /\ x.id \in 0 .. MaxRows
    BY StoredType, BoundsAreNat DEF TablesOK, Ids
  <2> QED
    BY <1>1, <2>1, RowFields DEF Stored
<1> HIDE DEF New
<1>3. /\ \A x : x \in Same(c.row) <=> x \in rows /\ x.table = c.row.table /\ x.id = c.row.id
      /\ \A r : r \in rows' <=> (r \in rows /\ r \notin Same(c.row))
                                  \/ \E x \in Same(c.row) : r = New(x)
  BY DEF Same, New
<1>4. ASSUME NEW r \in rows'
      PROVE  \E x \in rows : /\ r.table = x.table /\ r.id = x.id /\ r.of = x.of /\ r.who = x.who
                             /\ r \in Stored
                             /\ (r = x /\ x \notin Same(c.row)) \/ (r = New(x) /\ x \in Same(c.row))
  <2>1. CASE r \in rows /\ r \notin Same(c.row)
    BY <2>1 DEF TablesOK
  <2>2. CASE \E x \in Same(c.row) : r = New(x)
    BY <1>2, <1>3, <2>2
  <2> QED
    BY <1>3, <2>1, <2>2
<1>5. ASSUME NEW x \in rows
      PROVE  \E r \in rows' : r.table = x.table /\ r.id = x.id
  BY <1>2, <1>3
<1>6. ASSUME NEW r \in rows', NEW s \in rows', r.table = s.table, r.id = s.id
      PROVE  r = s
  <2>1. PICK x \in rows : /\ r.table = x.table /\ r.id = x.id
                          /\ (r = x /\ x \notin Same(c.row)) \/ (r = New(x) /\ x \in Same(c.row))
    BY <1>4
  <2>2. PICK y \in rows : /\ s.table = y.table /\ s.id = y.id
                          /\ (s = y /\ y \notin Same(c.row)) \/ (s = New(y) /\ y \in Same(c.row))
    BY <1>4
  <2>3. x = y
    BY <1>6, <2>1, <2>2 DEF TablesOK
  <2> QED
    BY <2>1, <2>2, <2>3
<1>7. rows' \in SUBSET Stored /\ \A r \in rows' : r.id < nextId'[r.table]
  BY <1>4 DEF TablesOK
<1> QED
  BY <1>4, <1>5, <1>6, <1>7 DEF TablesOK

\* Known facts stay known: ids are not given twice and rows stay where they belong.
LEMMA KnownStays ==
  ASSUME TablesOK, TablesOK', NEW s \in Stored, Known(s),
         \A t \in Tables : nextId[t] <= nextId'[t],
         \A r \in rows' :
           \/ r.table \in Tables /\ r.id >= nextId[r.table]
           \/ \E x \in rows : r.table = x.table /\ r.id = x.id /\ r.of = x.of /\ r.who = x.who
  PROVE  Known(s)'
<1>1. s.table \in Tables /\ s.id \in Nat
  BY StoredType
<1>2. nextId[s.table] \in Nat /\ nextId'[s.table] \in Nat
  BY <1>1, BoundsAreNat DEF TablesOK
<1>3. s.id < nextId[s.table] /\ nextId[s.table] <= nextId'[s.table]
  BY <1>1 DEF Known
<1>4. ASSUME NEW r \in rows', r.table = s.table, r.id = s.id
      PROVE  r.of = s.of /\ r.who = s.who
  <2>1. PICK x \in rows : r.table = x.table /\ r.id = x.id /\ r.of = x.of /\ r.who = x.who
    BY <1>1, <1>2, <1>3, <1>4
  <2> QED
    BY <1>4, <2>1 DEF Known
<1>5. s.id < nextId'[s.table]
  BY <1>1, <1>2, <1>3
<1> QED
  BY <1>4, <1>5 DEF Known

\* What the server does to the tables, whatever the change.
LEMMA ServeTables ==
  ASSUME TablesOK, NEW c \in Change, rows' \in Outcomes(c),
         Inserts(c) => nextId[c.row.table] \in Ids,
         nextId' = IF Inserts(c) THEN [nextId EXCEPT ![c.row.table] = @ + 1] ELSE nextId
  PROVE  /\ TablesOK'
         /\ \A s \in Stored : Known(s) => Known(s)'
         /\ \A p \in rows : (\A q \in rows' : q.id # p.id \/ q.table # p.table) =>
              /\ c.method = "DELETE" /\ Deletable(c.row) /\ ~Referred(c.row)
              /\ p.table = c.row.table /\ p.id = c.row.id /\ rows' \subseteq rows
<1>1. \/ rows' = rows \cup {Numbered(c)} /\ Inserts(c)
      \/ /\ rows' = (rows \ Same(c.row)) \cup {[x EXCEPT !.val = c.row.val] : x \in Same(c.row)}
         /\ c.method = "PUT" /\ Same(c.row) # {}
      \/ /\ rows' = (rows \ Same(c.row)) /\ c.method = "DELETE"
         /\ Deletable(c.row) /\ ~Referred(c.row)
  BY DEF Outcomes
<1>2. CASE rows' = rows \cup {Numbered(c)} /\ Inserts(c)
  <2>1. /\ TablesOK' /\ \A t \in Tables : nextId[t] <= nextId'[t]
        /\ Numbered(c).table = c.row.table /\ Numbered(c).id = nextId[c.row.table]
        /\ c.row.table \in Tables
    BY <1>2, InsertTables DEF Change, Row
  <2>2. \A r \in rows' :
           \/ r.table \in Tables /\ r.id >= nextId[r.table]
           \/ \E x \in rows : r.table = x.table /\ r.id = x.id /\ r.of = x.of /\ r.who = x.who
    <3>1. nextId[c.row.table] \in Nat
      BY <2>1, BoundsAreNat DEF TablesOK
    <3>2. Numbered(c).id >= nextId[Numbered(c).table]
      BY <2>1, <3>1
    <3> QED
      BY <1>2, <2>1, <3>2
  <2>3. \A s \in Stored : Known(s) => Known(s)'
    BY <2>1, <2>2, KnownStays
  <2>4. \A p \in rows : p \in rows'
    BY <1>2
  <2> QED
    BY <2>1, <2>3, <2>4
<1>3. CASE /\ rows' = (rows \ Same(c.row)) \cup {[x EXCEPT !.val = c.row.val] : x \in Same(c.row)}
           /\ c.method = "PUT" /\ Same(c.row) # {}
  <2>1. nextId' = nextId
    BY <1>3 DEF Inserts
  <2>2. /\ TablesOK'
        /\ \A r \in rows' : \E x \in rows :
             r.table = x.table /\ r.id = x.id /\ r.of = x.of /\ r.who = x.who
        /\ \A x \in rows : \E r \in rows' : r.table = x.table /\ r.id = x.id
    BY <1>3, <2>1, UpdateTables
  <2>3. \A t \in Tables : nextId[t] <= nextId'[t]
    BY <2>1, BoundsAreNat DEF TablesOK
  <2>4. \A s \in Stored : Known(s) => Known(s)'
    BY <2>2, <2>3, KnownStays
  <2> QED
    BY <2>2, <2>4
<1>4. CASE /\ rows' = (rows \ Same(c.row)) /\ c.method = "DELETE"
           /\ Deletable(c.row) /\ ~Referred(c.row)
  <2>1. nextId' = nextId
    BY <1>4 DEF Inserts
  <2>2. rows' \subseteq rows /\ \A x \in rows : x \notin rows' => x.table = c.row.table /\ x.id = c.row.id
    BY <1>4 DEF Same
  <2>3. \A t \in Tables : nextId[t] <= nextId'[t]
    BY <2>1, BoundsAreNat DEF TablesOK
  <2>4. TablesOK'
    BY <2>1, <2>2 DEF TablesOK
  <2>5. \A s \in Stored : Known(s) => Known(s)'
    BY <2>2, <2>3, <2>4, KnownStays
  <2> QED
    BY <1>4, <2>2, <2>4, <2>5
<1> QED
  BY <1>1, <1>2, <1>3, <1>4

\* A publication gives new ids to the rows it inserts and leaves every plan.
LEMMA PublishTables ==
  ASSUME TablesOK, NEW c \in rows, Publish(c)
  PROVE  /\ TablesOK'
         /\ \A s \in Stored : Known(s) => Known(s)'
         /\ \A p \in rows : p.table = "rosterPlan" => \E q \in rows' : q.id = p.id /\ q.table = p.table
<1> DEFINE plans == {p \in rows : p.table = "rosterPlan"}
           own   == {r \in rows \ plans : r.of = c.id}
           kept  == {r \in rows \ plans : r.of # c.of}
<1>1. PICK id \in [own -> Ids], title \in [plans -> Values], next \in [Tables -> 1 .. MaxRows + 1] :
        /\ \A r, s \in own : r.table = s.table /\ id[r] = id[s] => r = s
        /\ \A t \in Tables :
             /\ nextId[t] <= next[t]
             /\ {id[r] : r \in {s \in own : s.table = t}} = nextId[t] .. (next[t] - 1)
        /\ rows' = kept \cup {[r EXCEPT !.id = id[r], !.of = c.of] : r \in own}
                        \cup {[p EXCEPT !.val = title[p]] : p \in plans}
        /\ nextId' = next
  BY DEF Publish
<1> DEFINE Clone(r) == [r EXCEPT !.id = id[r], !.of = c.of]
           Titled(p) == [p EXCEPT !.val = title[p]]
<1>2. /\ \A t \in Tables : nextId[t] \in Nat /\ nextId'[t] \in Nat /\ nextId[t] <= nextId'[t]
      /\ nextId' \in [Tables -> 1 .. MaxRows + 1]
  <2>1. nextId' = next /\ \A t \in Tables : nextId[t] <= next[t]
    BY <1>1
  <2> HIDE DEF plans, own, kept
  <2> QED
    BY <2>1, BoundsAreNat DEF TablesOK
<1>3. /\ plans \subseteq rows /\ own \subseteq rows /\ kept \subseteq rows
      /\ \A p \in rows : p \in plans <=> p.table = "rosterPlan"
      /\ \A r \in own : r.table # "rosterPlan"
      /\ \A r \in kept : r.table # "rosterPlan"
  OBVIOUS
<1>4. \A x : x \in rows' <=> \/ x \in kept
                             \/ \E r \in own : x = Clone(r)
                             \/ \E p \in plans : x = Titled(p)
  BY <1>1
<1>5. ASSUME NEW r \in own
      PROVE  /\ Clone(r) \in Stored /\ Clone(r).table = r.table /\ Clone(r).id = id[r]
             /\ r.table \in Tables /\ id[r] \in Nat
             /\ nextId[r.table] <= id[r] /\ id[r] < nextId'[r.table]
  <2>1. r \in Stored /\ c \in Stored
    BY <1>3 DEF TablesOK
  <2>2. r \in Row /\ r.table \in Tables /\ c.of \in 0 .. MaxRows /\ id[r] \in Ids /\ id[r] \in 0 .. MaxRows
    BY <2>1, BoundsAreNat DEF Stored, Row, Ids
  <2>3. id[r] \in nextId[r.table] .. (next[r.table] - 1)
    <3>1. r \in {s \in own : s.table = r.table}
      OBVIOUS
    <3> HIDE DEF own
    <3> QED
      BY <1>1, <2>2, <3>1
  <2>4. Clone(r) \in Row /\ Clone(r).table = r.table /\ Clone(r).id = id[r]
    BY <2>2 DEF Row
  <2>5. nextId[r.table] \in Nat /\ next[r.table] \in Nat /\ id[r] \in Nat
    <3>1. nextId' = next
      BY <1>1
    <3> QED
      BY <1>2, <2>2, <3>1 DEF Ids
  <2>6. nextId[r.table] <= id[r] /\ id[r] < nextId'[r.table]
    <3>1. nextId' = next
      BY <1>1
    <3> HIDE DEF own
    <3> QED
      BY <2>3, <2>5, <3>1
  <2>7. Clone(r) \in Stored
    BY <2>2, <2>4 DEF Stored
  <2> HIDE DEF own, Clone
  <2> QED
    BY <2>2, <2>4, <2>5, <2>6, <2>7
<1>6. ASSUME NEW p \in plans
      PROVE  /\ Titled(p) \in Stored /\ Titled(p).table = p.table /\ Titled(p).id = p.id
             /\ Titled(p).of = p.of /\ Titled(p).who = p.who
  <2>1. p \in Stored /\ title[p] \in Values
    BY <1>1, <1>3 DEF TablesOK
  <2>2. p \in Row /\ p.id \in Ids /\ p.id \in 0 .. MaxRows
    BY <2>1, BoundsAreNat DEF Stored, Ids
  <2> QED
    BY <2>1, <2>2, RowFields DEF Stored
<1> HIDE DEF plans, own, kept, Clone, Titled
<1>7. ASSUME NEW x \in rows'
      PROVE  /\ x \in Stored
             /\ \/ \E r \in own : x = Clone(r)
                \/ \E y \in rows : /\ x.table = y.table /\ x.id = y.id /\ x.of = y.of /\ x.who = y.who
                                   /\ \/ x = y /\ x.table # "rosterPlan"
                                      \/ x = Titled(y) /\ x.table = "rosterPlan"
  BY <1>3, <1>4, <1>5, <1>6 DEF TablesOK
<1>8. ASSUME NEW x \in rows', NEW y \in rows', x.table = y.table, x.id = y.id
      PROVE  x = y
  <2>1. \A z \in rows : z.table \in Tables /\ z.id \in Nat /\ z.id < nextId[z.table]
    BY StoredType DEF TablesOK
  <2>2. ASSUME NEW v, NEW w, v.table = w.table, v.id = w.id,
               \E r \in own : v = Clone(r), \E z \in rows : w.table = z.table /\ w.id = z.id
        PROVE  FALSE
    BY <1>2, <1>5, <2>1, <2>2
  <2>3. CASE \E r \in own : x = Clone(r)
    <3>1. PICK r \in own : x = Clone(r)
      BY <2>3
    <3>2. PICK s \in own : y = Clone(s)
      BY <1>7, <1>8, <2>2, <2>3
    <3>3. r = s
      BY <1>1, <1>5, <1>8, <3>1, <3>2
    <3> QED
      BY <3>1, <3>2, <3>3
  <2>4. CASE ~ \E r \in own : x = Clone(r)
    <3>1. PICK v \in rows : /\ x.table = v.table /\ x.id = v.id
                            /\ \/ x = v /\ x.table # "rosterPlan"
                               \/ x = Titled(v) /\ x.table = "rosterPlan"
      BY <1>7, <2>4
    <3>2. PICK w \in rows : /\ y.table = w.table /\ y.id = w.id
                            /\ \/ y = w /\ y.table # "rosterPlan"
                               \/ y = Titled(w) /\ y.table = "rosterPlan"
      BY <1>7, <1>8, <2>2, <3>1
    <3>3. v = w
      BY <1>8, <3>1, <3>2 DEF TablesOK
    <3> QED
      BY <1>8, <3>1, <3>2, <3>3
  <2> QED
    BY <2>3, <2>4
<1>9. ASSUME NEW x \in rows' PROVE x.id < nextId'[x.table]
  <2>1. CASE \E r \in own : x = Clone(r)
    BY <1>5, <2>1
  <2>2. CASE \E y \in rows : x.table = y.table /\ x.id = y.id
    <3>1. PICK y \in rows : x.table = y.table /\ x.id = y.id
      BY <2>2
    <3>2. y.table \in Tables /\ y.id \in Nat /\ y.id < nextId[y.table]
      BY StoredType DEF TablesOK
    <3> QED
      BY <1>2, <3>1, <3>2
  <2> QED
    BY <1>7, <2>1, <2>2
<1>10. TablesOK'
  BY <1>2, <1>7, <1>8, <1>9 DEF TablesOK
<1>11. \A x \in rows' :
         \/ x.table \in Tables /\ x.id >= nextId[x.table]
         \/ \E y \in rows : x.table = y.table /\ x.id = y.id /\ x.of = y.of /\ x.who = y.who
  BY <1>2, <1>5, <1>7
<1>12. \A s \in Stored : Known(s) => Known(s)'
  BY <1>2, <1>10, <1>11, KnownStays
<1>13. ASSUME NEW p \in rows, p.table = "rosterPlan"
       PROVE  \E q \in rows' : q.id = p.id /\ q.table = p.table
  BY <1>3, <1>4, <1>6, <1>13
<1> QED
  BY <1>10, <1>12, <1>13

(***************************************************************************)
(* The edits of a grid.                                                    *)
(***************************************************************************)

LEMMA FirstOfAll ==
  ASSUME NEW asked, NEW sent \in FirstOfEach(asked),
         ~ \E c, d \in asked : c # d /\ c.method = d.method
  PROVE  asked \subseteq sent
<1> SUFFICES ASSUME NEW c \in asked, c \notin sent PROVE FALSE
  OBVIOUS
<1>1. sent \subseteq asked /\ Cardinality({d \in sent : d.method = c.method}) = 1
  BY DEF FirstOfEach
<1>2. {d \in sent : d.method = c.method} = {}
  BY <1>1
<1> QED
  BY <1>1, <1>2, FS_EmptySet

\* What a grid edits is a row it shows, or a new one.
LEMMA EditsTyped ==
  ASSUME NEW u \in Users, view[u] \in View, shown[u] \subseteq Stored
  PROVE  Edits(u) \subseteq Change
<1>1. /\ view[u].plan \in 0 .. MaxRows /\ 0 \in 0 .. MaxRows
      /\ (CHOOSE x \in Values : TRUE) \in Values
  BY SomeValue, BoundsAreNat DEF View
<1>2. \A s \in shown[u] : s \in Row
  BY DEF Stored
<1>3. \A s \in shown[u], x \in Values : [s EXCEPT !.val = x] \in Row
  BY <1>2 DEF Row
<1>4. \A s \in shown[u] : [s EXCEPT !.table = "rosterPlan", !.id = s.of] \in Row
  BY <1>2 DEF Row, Tables
<1>5. ASSUME NEW c \in EventEdits(u) PROVE c \in Change
  BY <1>1, <1>2, <1>3, <1>5 DEF EventEdits, Change, Methods, Row, Tables
<1>6. ASSUME NEW c \in InvitationEdits(u) PROVE c \in Change
  <2> DEFINE x == CHOOSE x \in Values : TRUE
  <2>1. x \in Values
    BY <1>1
  <2> HIDE DEF x
  <2>2. c \in [method : {"POST"}, row : [table : {"rosterPlanUserInfo"}, id : {0},
                             of : {view[u].plan}, who : Users, val : {x}]]
        \/ c \in [method : {"DELETE"}, row : shown[u]]
    BY <1>6 DEF InvitationEdits, x
  <2> QED
    BY <1>1, <1>2, <2>1, <2>2 DEF Change, Methods, Row, Tables
<1>7. ASSUME NEW c \in SlotEdits(u) PROVE c \in Change
  BY <1>1, <1>2, <1>3, <1>7 DEF SlotEdits, Change, Methods, Row, Tables
<1>8. ASSUME NEW c \in PendingEdits(u) PROVE c \in Change
  BY <1>4, <1>8 DEF PendingEdits, Change, Methods
<1>9. ASSUME NEW c \in Edits(u)
      PROVE  c \in EventEdits(u) \/ c \in InvitationEdits(u) \/ c \in SlotEdits(u) \/ c \in PendingEdits(u)
  BY <1>9 DEF Edits
<1> QED
  BY <1>5, <1>6, <1>7, <1>8, <1>9

\* A plan is deleted from the row of it, or from that of an invitation to it.
LEMMA EditsMayDelete ==
  ASSUME NEW u \in Users, view[u] \in View, shown[u] \subseteq Stored,
         \A s \in shown[u] : Fits(u, s), NEW c \in Edits(u),
         c.method = "DELETE", c.row.table = "rosterPlan"
  PROVE  \E s \in shown[u] :
           /\ s.who = u
           /\ \/ s.table = "rosterPlan" /\ s.id = c.row.id
              \/ s.table = "rosterPlanUserInfo" /\ s.of = c.row.id
<1>1. \/ view[u].grid = "events" /\ c \in EventEdits(u)
      \/ view[u].grid = "invitations" /\ c \in InvitationEdits(u)
      \/ view[u].grid = "schedule" /\ c \in SlotEdits(u)
      \/ view[u].grid = "pending" /\ c \in PendingEdits(u)
  BY DEF Edits
<1>2. CASE view[u].grid = "events" /\ c \in EventEdits(u)
  <2>1. c.row \in shown[u]
    BY <1>2 DEF EventEdits
  <2> QED
    BY <1>2, <2>1 DEF Fits
<1>3. CASE view[u].grid = "invitations" /\ c \in InvitationEdits(u)
  <2>1. c.row \in shown[u]
    BY <1>3 DEF InvitationEdits
  <2> QED
    BY <1>3, <2>1 DEF Fits
<1>4. CASE view[u].grid = "schedule" /\ c \in SlotEdits(u)
  <2>1. c.row \in shown[u]
    BY <1>4 DEF SlotEdits
  <2> QED
    BY <1>4, <2>1 DEF Fits
<1>5. CASE view[u].grid = "pending" /\ c \in PendingEdits(u)
  <2>1. PICK s \in shown[u] : c.row = [s EXCEPT !.table = "rosterPlan", !.id = s.of]
    BY <1>5 DEF PendingEdits
  <2>2. c.row.id = s.of
    BY <2>1, RowFields DEF Stored, Row
  <2> QED
    BY <1>5, <2>2 DEF Fits
<1> QED
  BY <1>1, <1>2, <1>3, <1>4, <1>5

LEMMA BatchesAreEdits ==
  ASSUME NEW u \in Users, NEW asked \in Batches(u)
  PROVE  asked \subseteq Edits(u)
BY DEF Batches

(***************************************************************************)
(* The state: the tables, the types of the rest, and what holds of a user. *)
(***************************************************************************)

RestOK ==
  /\ live \in [Users -> BOOLEAN]
  /\ view \in [Users -> View]
  /\ shown \in [Users -> SUBSET Stored]
  /\ op \in [Users -> Edit]
  /\ waiting \in [Users -> Nat]
  /\ fetched \in [Users -> SUBSET Reply]
  /\ version \in Nat
  /\ at \in [Users -> Nat]
  /\ overtaken \in [Users -> BOOLEAN]
  /\ acts \in 0 .. MaxActs

UserOK(u) ==
  /\ GridInv(u) /\ Accounted(u) /\ Refreshing(u)
  /\ \A c \in op[u].sent : MayDelete(u, c)

LEMMA Parts == IInv <=> TablesOK /\ RestOK /\ \A u \in Users : UserOK(u)
BY DEF IInv, TypeOK, TablesOK, RestOK, UserOK

\* What a step leaves of a user to whom it does nothing.
Quiet(u) ==
  /\ live'[u] = live[u] /\ view'[u] = view[u] /\ shown'[u] = shown[u] /\ op'[u] = op[u]
  /\ waiting'[u] = waiting[u] /\ fetched'[u] = fetched[u]
  /\ at'[u] = at[u] /\ overtaken'[u] = overtaken[u]

LEMMA RowsStored ==
  ASSUME RestOK, NEW u \in Users
  PROVE  /\ shown[u] \subseteq Stored /\ op[u].seen \subseteq Stored
         /\ \A f \in fetched[u] : f.rows \subseteq Stored /\ f.at \in Nat /\ f.ok \in BOOLEAN
         /\ op[u].at \in Nat /\ op[u].sent \subseteq Change /\ view[u] \in View
         /\ waiting[u] \in Nat /\ at[u] \in Nat /\ op[u] \in Edit
BY DEF RestOK, Edit, Reply

LEMMA QuietStays ==
  ASSUME RestOK, NEW u \in Users, UserOK(u), Quiet(u), version' \in Nat, version <= version',
         \A s \in Stored : Known(s) => Known(s)'
  PROVE  UserOK(u)'
<1>1. GridInv(u)'
  <2>1. \A s : Fits(u, s) => Fits(u, s)'
    BY DEF Fits, Quiet
  <2>2. \A s \in shown'[u] : Known(s)' /\ Fits(u, s)'
    BY <2>1, RowsStored DEF UserOK, GridInv, Quiet
  <2>3. \A f \in fetched'[u] : \A s \in f.rows : Known(s)' /\ Fits(u, s)'
    BY <2>1, RowsStored DEF UserOK, GridInv, Quiet
  <2>4. \A s \in op'[u].seen : Known(s)'
    BY RowsStored DEF UserOK, GridInv, Quiet
  <2> QED
    BY <2>2, <2>3, <2>4 DEF GridInv
<1>2. Accounted(u)'
  BY DEF UserOK, Accounted, Quiet
<1>3. Refreshing(u)'
  <2>1. op'[u].at <= version'
    BY RowsStored DEF UserOK, Refreshing, Quiet, RestOK
  <2> QED
    BY <2>1 DEF UserOK, Refreshing, Resolves, Quiet
<1>4. \A c \in op'[u].sent : MayDelete(u, c)'
  BY DEF UserOK, MayDelete, Quiet
<1> QED
  BY <1>1, <1>2, <1>3, <1>4 DEF UserOK

\* What is known of the rows of the tables, and of those behind the url of a grid.
LEMMA RenderedFits ==
  ASSUME TablesOK, NEW u \in Users
  PROVE  /\ Rendered(u, view[u]) \subseteq Stored
         /\ \A s \in Rendered(u, view[u]) : Known(s) /\ Fits(u, s)
<1>1. ASSUME NEW s \in Rendered(u, view[u])
      PROVE  s \in Stored /\ Known(s) /\ Fits(u, s)
  <2>1. s \in rows
    BY <1>1 DEF Rendered
  <2>2. s \in Stored /\ Known(s)
    BY <2>1 DEF TablesOK, Known
  <2>3. Fits(u, s)
    BY <1>1 DEF Rendered, Fits
  <2> QED
    BY <2>2, <2>3
<1> QED
  BY <1>1

LEMMA NoEditTyped == NoEdit \in Edit
BY DEF NoEdit, Edit

LEMMA InitInv == Init => IInv
<1> SUFFICES ASSUME Init PROVE IInv
  OBVIOUS
<1>1. TablesOK
  BY InitTables
<1>2. /\ live = [u \in Users |-> TRUE]
      /\ view \in [Users -> View]
      /\ shown = [u \in Users |-> Rendered(u, view[u])]
      /\ op = [u \in Users |-> NoEdit]
      /\ waiting = [u \in Users |-> 0] /\ fetched = [u \in Users |-> {}]
      /\ version = 0 /\ at = [u \in Users |-> 0]
      /\ overtaken = [u \in Users |-> FALSE] /\ acts = 0
  BY DEF Init
<1>3. RestOK
  <2>1. shown \in [Users -> SUBSET Stored]
    BY <1>1, <1>2, RenderedFits
  <2> QED
    BY <1>2, <2>1, NoEditTyped, BoundsAreNat DEF RestOK
<1>4. ASSUME NEW u \in Users PROVE UserOK(u)
  <2>1. GridInv(u)
    BY <1>1, <1>2, RenderedFits DEF GridInv, NoEdit
  <2>2. Accounted(u) /\ Refreshing(u) /\ \A c \in op[u].sent : MayDelete(u, c)
    BY <1>2 DEF Accounted, Refreshing, NoEdit
  <2> QED
    BY <2>1, <2>2 DEF UserOK
<1> QED
  BY <1>1, <1>3, <1>4, Parts

(***************************************************************************)
(* The steps.                                                              *)
(***************************************************************************)

LEMMA TablesStay ==
  ASSUME TablesOK, rows' = rows, nextId' = nextId
  PROVE  TablesOK' /\ \A s \in Stored : Known(s) => Known(s)'
<1>1. TablesOK'
  BY DEF TablesOK
<1>2. \A s \in Stored : Known(s) => Known(s)'
  BY DEF Known
<1> QED
  BY <1>1, <1>2

\* A step of one user: it is enough to look at them.
LEMMA OneUser ==
  ASSUME TablesOK', RestOK, RestOK', \A w \in Users : UserOK(w),
         version <= version', \A s \in Stored : Known(s) => Known(s)',
         NEW u \in Users, UserOK(u)', \A w \in Users \ {u} : Quiet(w)
  PROVE  IInv'
<1>1. ASSUME NEW w \in Users PROVE UserOK(w)'
  <2>1. CASE w = u
    BY <2>1
  <2>2. CASE w # u
    BY <2>2, QuietStays DEF RestOK
  <2> QED
    BY <2>1, <2>2
<1> QED
  BY <1>1 DEF IInv, TypeOK, TablesOK, RestOK, UserOK

LEMMA OpenViewInv ==
  ASSUME IInv, NEW u \in Users, NEW v \in View, OpenView(u, v)
  PROVE  IInv'
<1> USE Parts
<1>1. TablesOK' /\ \A s \in Stored : Known(s) => Known(s)'
  BY TablesStay DEF OpenView, tables
<1>2. RestOK' /\ version <= version'
  BY NoEditTyped, BoundsAreNat DEF OpenView, RestOK, tables
<1>3. \A w \in Users \ {u} : Quiet(w)
  BY DEF OpenView, RestOK, Quiet, tables
<1>4. UserOK(u)'
  <2>1. /\ shown'[u] = {} /\ at'[u] = 0 /\ op'[u] = NoEdit /\ fetched'[u] = {}
        /\ version' \in Nat
    BY <1>2 DEF OpenView, RestOK
  <2>2. GridInv(u)'
    BY <2>1 DEF GridInv, NoEdit
  <2>3. Accounted(u)' /\ Refreshing(u)' /\ \A c \in op'[u].sent : MayDelete(u, c)'
    BY <2>1 DEF Accounted, Refreshing, NoEdit
  <2> QED
    BY <2>2, <2>3 DEF UserOK
<1> QED
  BY <1>1, <1>2, <1>3, <1>4, OneUser

LEMMA BeginInv ==
  ASSUME IInv, NEW u \in Users, Begin(u)
  PROVE  IInv'
<1> USE Parts
<1>1. TablesOK' /\ \A s \in Stored : Known(s) => Known(s)'
  BY TablesStay DEF Begin, tables
<1>2. PICK asked \in Batches(u) : \E sent \in FirstOfEach(asked) :
        op' = [op EXCEPT ![u] = [NoEdit EXCEPT !.seen = shown[u], !.asked = asked, !.sent = sent]]
  BY DEF Begin
<1>3. PICK sent \in FirstOfEach(asked) :
        op' = [op EXCEPT ![u] = [NoEdit EXCEPT !.seen = shown[u], !.asked = asked, !.sent = sent]]
  BY <1>2
<1> DEFINE e == [NoEdit EXCEPT !.seen = shown[u], !.asked = asked, !.sent = sent]
<1>4. /\ e.seen = shown[u] /\ e.asked = asked /\ e.sent = sent
      /\ e.served = {} /\ e.done = {} /\ e.at = 0
  BY DEF NoEdit
<1>5. asked \subseteq Edits(u) /\ sent \subseteq asked
  BY BatchesAreEdits DEF FirstOfEach
<1>6. asked \subseteq Change /\ shown[u] \subseteq Stored
  BY <1>5, RowsStored, EditsTyped
<1>7. e \in Edit
  BY <1>5, <1>6, NoEditTyped DEF NoEdit, Edit
<1> HIDE DEF e
<1>8. /\ op' = [op EXCEPT ![u] = e]
      /\ UNCHANGED <<version, live, screen, waiting, fetched>> /\ acts' = acts + 1 /\ acts < MaxActs
  BY <1>3 DEF Begin, tables, e
<1>9. RestOK' /\ version <= version'
  BY <1>7, <1>8, BoundsAreNat DEF RestOK, screen
<1>10. \A w \in Users \ {u} : Quiet(w)
  BY <1>8 DEF RestOK, Quiet, screen
<1>11. UserOK(u)'
  <2>1. op'[u] = e
    BY <1>8 DEF RestOK
  <2>2. GridInv(u)'
    <3>1. \A s : Fits(u, s) => Fits(u, s)'
      BY <1>8 DEF Fits, screen
    <3>2. \A s \in shown'[u] : Known(s)' /\ Fits(u, s)'
      BY <1>1, <1>6, <1>8, <3>1 DEF UserOK, GridInv, screen
    <3>3. \A f \in fetched'[u] : \A s \in f.rows : Known(s)' /\ Fits(u, s)'
      BY <1>1, <1>8, <3>1, RowsStored DEF UserOK, GridInv
    <3>4. \A s \in op'[u].seen : Known(s)'
      BY <1>1, <1>4, <1>6, <2>1 DEF UserOK, GridInv
    <3> QED
      BY <3>2, <3>3, <3>4 DEF GridInv
  <2>3. Accounted(u)'
    <3>1. (\E c, d \in asked : c # d /\ c.method = d.method) \/ asked \subseteq sent
      BY FirstOfAll
    <3> QED
      BY <1>4, <1>5, <2>1, <3>1 DEF Accounted
  <2>4. Refreshing(u)'
    BY <1>4, <1>9, <2>1 DEF Refreshing, RestOK
  <2>5. \A c \in op'[u].sent : MayDelete(u, c)'
    <3>1. ASSUME NEW c \in Edits(u), c.method = "DELETE", c.row.table = "rosterPlan"
          PROVE  \E s \in shown[u] :
                   /\ s.who = u
                   /\ \/ s.table = "rosterPlan" /\ s.id = c.row.id
                      \/ s.table = "rosterPlanUserInfo" /\ s.of = c.row.id
      BY <1>6, <3>1, EditsMayDelete, RowsStored DEF UserOK, GridInv
    <3> QED
      BY <1>4, <1>5, <2>1, <3>1 DEF MayDelete
  <2> QED
    BY <2>2, <2>3, <2>4, <2>5 DEF UserOK
<1> QED
  BY <1>1, <1>9, <1>10, <1>11, OneUser

LEMMA ServeFetchInv ==
  ASSUME IInv, NEW u \in Users, ServeFetch(u)
  PROVE  IInv'
<1> USE Parts
<1>1. TablesOK' /\ \A s \in Stored : Known(s) => Known(s)'
  BY TablesStay DEF ServeFetch, tables
<1> DEFINE f == [ok |-> live[u], rows |-> IF live[u] THEN Rendered(u, view[u]) ELSE {},
                 at |-> version]
<1>2. /\ f.ok = live[u] /\ f.rows = (IF live[u] THEN Rendered(u, view[u]) ELSE {})
      /\ f.at = version
  OBVIOUS
<1>3. \A s \in f.rows : s \in Stored /\ Known(s) /\ Fits(u, s)
  BY <1>2, RenderedFits
<1>4. f \in Reply
  BY <1>3 DEF Reply, RestOK
<1> HIDE DEF f
<1>5. /\ waiting[u] > 0 /\ waiting' = [waiting EXCEPT ![u] = @ - 1]
      /\ fetched' = [fetched EXCEPT ![u] = @ \cup {f}]
      /\ UNCHANGED <<version, live, screen, op, acts>>
  BY DEF ServeFetch, tables, f
<1>6. RestOK' /\ version <= version'
  BY <1>4, <1>5 DEF RestOK, screen
<1>7. \A w \in Users \ {u} : Quiet(w)
  BY <1>5 DEF RestOK, Quiet, screen
<1>8. UserOK(u)'
  <2>1. fetched'[u] = fetched[u] \cup {f}
    BY <1>5 DEF RestOK
  <2>2. GridInv(u)'
    <3>1. \A s : Fits(u, s) => Fits(u, s)'
      BY <1>5 DEF Fits, screen
    <3>2. \A s \in shown'[u] : Known(s)' /\ Fits(u, s)'
      BY <1>1, <1>5, <3>1, RowsStored DEF UserOK, GridInv, screen
    <3>3. \A g \in fetched'[u] : \A s \in g.rows : Known(s)' /\ Fits(u, s)'
      BY <1>1, <1>3, <2>1, <3>1, RowsStored DEF UserOK, GridInv
    <3>4. \A s \in op'[u].seen : Known(s)'
      BY <1>1, <1>5, RowsStored DEF UserOK, GridInv
    <3> QED
      BY <3>2, <3>3, <3>4 DEF GridInv
  <2>3. Accounted(u)'
    BY <1>5 DEF UserOK, Accounted
  <2>4. Refreshing(u)'
    <3>1. op'[u].at = op[u].at /\ op[u].at <= version /\ version' = version
      BY <1>5 DEF UserOK, Refreshing
    <3>2. CASE live[u]
      <4>1. f.ok /\ f.at >= op[u].at
        BY <1>2, <3>1, <3>2, RowsStored DEF RestOK
      <4> QED
        BY <2>1, <3>1, <4>1 DEF Refreshing
    <3>3. CASE ~live[u]
      BY <1>5, <3>1, <3>3 DEF Refreshing
    <3> QED
      BY <3>2, <3>3
  <2>5. \A c \in op'[u].sent : MayDelete(u, c)'
    BY <1>5 DEF UserOK, MayDelete
  <2> QED
    BY <2>2, <2>3, <2>4, <2>5 DEF UserOK
<1> QED
  BY <1>1, <1>6, <1>7, <1>8, OneUser

LEMMA ExpireInv ==
  ASSUME IInv, NEW u \in Users, Expire(u)
  PROVE  IInv'
<1> USE Parts
<1>1. TablesOK' /\ \A s \in Stored : Known(s) => Known(s)'
  BY TablesStay DEF Expire, tables
<1>2. live' = [live EXCEPT ![u] = FALSE] /\ UNCHANGED <<version, screen, op, waiting, fetched, acts>>
  BY DEF Expire, tables
<1>3. RestOK' /\ version <= version'
  BY <1>2 DEF RestOK, screen
<1>4. \A w \in Users \ {u} : Quiet(w)
  BY <1>2 DEF RestOK, Quiet, screen
<1>5. UserOK(u)'
  <2>1. ~live'[u]
    BY <1>2 DEF RestOK
  <2>2. GridInv(u)'
    <3>1. \A s : Fits(u, s) => Fits(u, s)'
      BY <1>2 DEF Fits, screen
    <3> QED
      BY <1>1, <1>2, <3>1, RowsStored DEF UserOK, GridInv, screen
  <2>3. Accounted(u)' /\ Refreshing(u)' /\ \A c \in op'[u].sent : MayDelete(u, c)'
    BY <1>2, <2>1 DEF UserOK, Accounted, Refreshing, MayDelete
  <2> QED
    BY <2>2, <2>3 DEF UserOK
<1> QED
  BY <1>1, <1>3, <1>4, <1>5, OneUser

\* What the reply to a change does to the edit of its user.
LEMMA ServedOp ==
  ASSUME RestOK, NEW u \in Users, NEW c \in op[u].sent,
         NEW status \in {"ok", "loginPage", "error"}, Served(u, c, status)
  PROVE  LET a == [change |-> c, status |-> status] IN
         /\ op' \in [Users -> Edit]
         /\ \A w \in Users \ {u} : op'[w] = op[w]
         /\ a.change = c /\ a.status = status
         /\ op'[u].seen = op[u].seen /\ op'[u].asked = op[u].asked
         /\ op'[u].sent = op[u].sent \ {c}
         /\ op'[u].served = op[u].served \cup {a}
         /\ op'[u].saved = op[u].saved /\ op'[u].failed = op[u].failed
         /\ status = "ok" =>
              op'[u].done = op[u].done \cup {c} /\ op'[u].at = version + 1
         /\ status # "ok" => op'[u].done = op[u].done /\ op'[u].at = op[u].at
<1> DEFINE a == [change |-> c, status |-> status]
           d == IF status = "ok" THEN op[u].done \cup {c} ELSE op[u].done
           n == IF status = "ok" THEN version + 1 ELSE op[u].at
           e == [op[u] EXCEPT !.sent = op[u].sent \ {c}, !.served = op[u].served \cup {a},
                              !.done = d, !.at = n]
<1>1. /\ op[u] \in Edit /\ c \in Change /\ version \in Nat
  BY DEF RestOK, Edit
<1>2. a.change = c /\ a.status = status /\ a \in [change : Change, status : {"ok", "loginPage", "error"}]
  BY <1>1
<1>3. op' = [op EXCEPT ![u] = e]
  BY DEF Served
<1>4. d \in SUBSET Change /\ n \in Nat
  BY <1>1 DEF Edit
<1> HIDE DEF a, d, n
<1>5. /\ e \in Edit
      /\ e.seen = op[u].seen /\ e.asked = op[u].asked
      /\ e.sent = op[u].sent \ {c} /\ e.served = op[u].served \cup {a}
      /\ e.saved = op[u].saved /\ e.failed = op[u].failed /\ e.done = d /\ e.at = n
  BY <1>1, <1>2, <1>4 DEF Edit
<1> HIDE DEF e
<1>6. op' \in [Users -> Edit] /\ op'[u] = e /\ \A w \in Users \ {u} : op'[w] = op[w]
  BY <1>3, <1>5 DEF RestOK
<1> QED
  BY <1>2, <1>5, <1>6 DEF a, d, n

LEMMA ServeInv ==
  ASSUME IInv, NEW u \in Users, NEW c \in op[u].sent, Serve(u, c)
  PROVE  IInv'
<1> USE Parts
<1>1. /\ UNCHANGED <<live, view, shown, at, overtaken, waiting, fetched, acts>>
      /\ c \in Change /\ version \in Nat
  BY RowsStored DEF Serve, screen, RestOK
<1> DEFINE ok == rows' \in Outcomes(c) /\ version' = version + 1 /\ Served(u, c, "ok")
           no == rows' = rows /\ nextId' = nextId /\ version' = version /\ Served(u, c, "error")
<1>2. ok \/ no
  BY DEF Serve, tables
<1>3. TablesOK' /\ \A s \in Stored : Known(s) => Known(s)'
  <2>1. CASE no
    BY <2>1, TablesStay
  <2>2. CASE ok /\ nextId' = IF Inserts(c) THEN [nextId EXCEPT ![c.row.table] = @ + 1] ELSE nextId
    BY <1>1, <2>2, ServeTables DEF Serve
  <2> QED
    BY <2>1, <2>2 DEF Serve, tables
<1>4. /\ op' \in [Users -> Edit]
      /\ \A w \in Users \ {u} : op'[w] = op[w]
      /\ op'[u].seen = op[u].seen /\ op'[u].asked = op[u].asked
      /\ op'[u].sent = op[u].sent \ {c}
      /\ op'[u].saved = op[u].saved /\ op'[u].failed = op[u].failed
      /\ \E a : /\ a.change = c /\ op'[u].served = op[u].served \cup {a}
                /\ \/ /\ a.status = "ok" /\ op'[u].done = op[u].done \cup {c}
                      /\ op'[u].at = version' /\ version' = version + 1
                   \/ /\ a.status = "error" /\ op'[u].done = op[u].done
                      /\ op'[u].at = op[u].at /\ version' = version
  <2>1. CASE ok
    <3> DEFINE a == [change |-> c, status |-> "ok"]
    <3>1. a.change = c /\ a.status = "ok" /\ op'[u].served = op[u].served \cup {a}
      BY <2>1, ServedOp
    <3> HIDE DEF a
    <3> QED
      BY <2>1, <3>1, ServedOp
  <2>2. CASE no
    <3> DEFINE a == [change |-> c, status |-> "error"]
    <3>1. a.change = c /\ a.status = "error" /\ op'[u].served = op[u].served \cup {a}
      BY <2>2, ServedOp
    <3> HIDE DEF a
    <3> QED
      BY <2>2, <3>1, ServedOp
  <2> QED
    BY <1>2, <2>1, <2>2
<1>5. PICK a : /\ a.change = c /\ op'[u].served = op[u].served \cup {a}
               /\ \/ /\ a.status = "ok" /\ op'[u].done = op[u].done \cup {c}
                     /\ op'[u].at = version' /\ version' = version + 1
                  \/ /\ a.status = "error" /\ op'[u].done = op[u].done
                     /\ op'[u].at = op[u].at /\ version' = version
  BY <1>4
<1>6. version' \in Nat /\ version <= version'
  BY <1>1, <1>5
<1>7. RestOK'
  BY <1>1, <1>4, <1>6 DEF RestOK
<1>8. \A w \in Users \ {u} : Quiet(w)
  BY <1>1, <1>4 DEF Quiet
<1>9. UserOK(u)'
  <2>1. GridInv(u)'
    <3>1. \A s : Fits(u, s) => Fits(u, s)'
      BY <1>1 DEF Fits
    <3> QED
      BY <1>1, <1>3, <1>4, <3>1, RowsStored DEF UserOK, GridInv
  <2>2. Accounted(u)'
    BY <1>1, <1>4, <1>5 DEF UserOK, Accounted
  <2>3. Refreshing(u)'
    <3>1. CASE a.status = "ok" /\ op'[u].at = version'
      BY <1>5, <1>6, <3>1 DEF Refreshing, Resolves
    <3>2. CASE op'[u].at = op[u].at /\ version' = version
      BY <1>1, <1>5, <3>2 DEF UserOK, Refreshing, Resolves
    <3> QED
      BY <1>5, <3>1, <3>2
  <2>4. \A d \in op'[u].sent : MayDelete(u, d)'
    BY <1>4 DEF UserOK, MayDelete
  <2> QED
    BY <2>1, <2>2, <2>3, <2>4 DEF UserOK
<1> QED
  BY <1>3, <1>6, <1>7, <1>8, <1>9, OneUser

LEMMA RedirectInv ==
  ASSUME IInv, NEW u \in Users, NEW c \in op[u].sent, Redirect(u, c)
  PROVE  IInv'
<1> USE Parts
<1>1. TablesOK' /\ \A s \in Stored : Known(s) => Known(s)'
  BY TablesStay DEF Redirect, tables
<1>2. /\ UNCHANGED <<version, live, view, shown, at, overtaken, waiting, fetched, acts>>
      /\ ~live[u]
  BY DEF Redirect, screen, tables
<1>3. PICK status \in {"loginPage", "error"} : Served(u, c, status)
  BY DEF Redirect
<1>4. /\ op' \in [Users -> Edit]
      /\ \A w \in Users \ {u} : op'[w] = op[w]
      /\ op'[u].seen = op[u].seen /\ op'[u].asked = op[u].asked
      /\ op'[u].sent = op[u].sent \ {c}
      /\ op'[u].done = op[u].done /\ op'[u].at = op[u].at
      /\ \E a : a.change = c /\ op'[u].served = op[u].served \cup {a}
  <2> DEFINE a == [change |-> c, status |-> status]
  <2>1. a.change = c /\ op'[u].served = op[u].served \cup {a}
    BY <1>3, ServedOp
  <2> HIDE DEF a
  <2> QED
    BY <1>3, <2>1, ServedOp
<1>5. RestOK' /\ version <= version'
  BY <1>2, <1>4 DEF RestOK
<1>6. \A w \in Users \ {u} : Quiet(w)
  BY <1>2, <1>4 DEF Quiet
<1>7. UserOK(u)'
  <2>1. GridInv(u)'
    <3>1. \A s : Fits(u, s) => Fits(u, s)'
      BY <1>2 DEF Fits
    <3> QED
      BY <1>1, <1>2, <1>4, <3>1, RowsStored DEF UserOK, GridInv
  <2>2. Accounted(u)' /\ Refreshing(u)' /\ \A d \in op'[u].sent : MayDelete(u, d)'
    BY <1>2, <1>4 DEF UserOK, Accounted, Refreshing, MayDelete
  <2> QED
    BY <2>1, <2>2 DEF UserOK
<1> QED
  BY <1>1, <1>5, <1>6, <1>7, OneUser

LEMMA ReportInv ==
  ASSUME IInv, NEW u \in Users, NEW a \in op[u].served, Report(u, a)
  PROVE  IInv'
<1> USE Parts
<1>1. TablesOK' /\ \A s \in Stored : Known(s) => Known(s)'
  BY TablesStay DEF Report, tables
<1>2. UNCHANGED <<version, live, view, shown, at, overtaken, fetched, acts>>
  BY DEF Report, screen, tables
<1> DEFINE saved == op[u].saved \/ Resolves(a)
           failed == op[u].failed \/ ~Resolves(a)
           e == [op[u] EXCEPT !.served = op[u].served \ {a}, !.saved = saved, !.failed = failed]
<1>3. op' = [op EXCEPT ![u] = e]
  BY DEF Report
<1>4. op[u] \in Edit /\ saved \in BOOLEAN /\ failed \in BOOLEAN
  BY DEF RestOK, Edit
<1> HIDE DEF saved, failed
<1>5. /\ e \in Edit
      /\ e.seen = op[u].seen /\ e.asked = op[u].asked /\ e.sent = op[u].sent
      /\ e.done = op[u].done /\ e.at = op[u].at
      /\ e.served = op[u].served \ {a} /\ e.failed = failed
  BY <1>4 DEF Edit
<1> HIDE DEF e
<1>6. /\ op' \in [Users -> Edit] /\ op'[u] = e /\ \A w \in Users \ {u} : op'[w] = op[w]
  BY <1>3, <1>5 DEF RestOK
<1>7. /\ waiting' \in [Users -> Nat] /\ \A w \in Users \ {u} : waiting'[w] = waiting[w]
      /\ waiting'[u] = IF Resolves(a) THEN waiting[u] + 1 ELSE waiting[u]
  BY DEF RestOK, Report
<1>8. RestOK' /\ version <= version'
  BY <1>2, <1>6, <1>7 DEF RestOK
<1>9. \A w \in Users \ {u} : Quiet(w)
  BY <1>2, <1>6, <1>7 DEF Quiet
<1>10. UserOK(u)'
  <2>1. GridInv(u)'
    <3>1. \A s : Fits(u, s) => Fits(u, s)'
      BY <1>2 DEF Fits
    <3> QED
      BY <1>1, <1>2, <1>5, <1>6, <3>1, RowsStored DEF UserOK, GridInv
  <2>2. Accounted(u)'
    <3>1. CASE Resolves(a)
      <4>1. a.status # "error" /\ (op[u].failed => failed)
        BY <3>1 DEF Resolves, failed
      <4> QED
        BY <1>2, <1>5, <1>6, <4>1 DEF UserOK, Accounted
    <3>2. CASE ~Resolves(a)
      <4>1. op'[u].failed
        BY <1>5, <1>6, <3>2 DEF failed
      <4> QED
        BY <1>5, <1>6, <4>1 DEF UserOK, Accounted
    <3> QED
      BY <3>1, <3>2
  <2>3. Refreshing(u)'
    <3>1. CASE Resolves(a)
      <4>1. waiting'[u] > 0
        BY <1>7, <3>1, RowsStored
      <4> QED
        BY <1>2, <1>5, <1>6, <4>1 DEF UserOK, Refreshing
    <3>2. CASE ~Resolves(a)
      <4>1. waiting'[u] = waiting[u]
        BY <1>7, <3>2
      <4>2. \A b : Resolves(b) => Resolves(b)'
        BY DEF Resolves
      <4> QED
        BY <1>2, <1>5, <1>6, <3>2, <4>1, <4>2 DEF UserOK, Refreshing
    <3> QED
      BY <3>1, <3>2
  <2>4. \A d \in op'[u].sent : MayDelete(u, d)'
    BY <1>5, <1>6 DEF UserOK, MayDelete
  <2> QED
    BY <2>1, <2>2, <2>3, <2>4 DEF UserOK
<1> QED
  BY <1>1, <1>8, <1>9, <1>10, OneUser

LEMMA TakeFetchInv ==
  ASSUME IInv, NEW u \in Users, NEW f \in fetched[u], TakeFetch(u, f)
  PROVE  IInv'
<1> USE Parts
<1>1. TablesOK' /\ \A s \in Stored : Known(s) => Known(s)'
  BY TablesStay DEF TakeFetch, tables
<1>2. UNCHANGED <<version, live, view, op, waiting, acts>>
  BY DEF TakeFetch, tables
<1>3. /\ fetched' \in [Users -> SUBSET Reply] /\ fetched'[u] = fetched[u] \ {f}
      /\ \A w \in Users \ {u} : fetched'[w] = fetched[w]
  BY DEF TakeFetch, RestOK
<1>4. f.rows \subseteq Stored /\ f.at \in Nat /\ at[u] \in Nat /\ op[u].at \in Nat
  BY RowsStored
<1>5. /\ shown' \in [Users -> SUBSET Stored] /\ shown'[u] = IF f.ok THEN f.rows ELSE shown[u]
      /\ \A w \in Users \ {u} : shown'[w] = shown[w]
  <2>1. CASE f.ok
    BY <1>4, <2>1 DEF TakeFetch, RestOK
  <2>2. CASE ~f.ok
    BY <2>2 DEF TakeFetch, RestOK
  <2> QED
    BY <2>1, <2>2
<1>6. /\ at' \in [Users -> Nat] /\ at'[u] = IF f.ok THEN f.at ELSE at[u]
      /\ \A w \in Users \ {u} : at'[w] = at[w]
  <2>1. CASE f.ok
    BY <1>4, <2>1 DEF TakeFetch, RestOK
  <2>2. CASE ~f.ok
    BY <2>2 DEF TakeFetch, RestOK
  <2> QED
    BY <2>1, <2>2
<1>7. /\ overtaken' \in [Users -> BOOLEAN]
      /\ f.ok => (overtaken'[u] <=> overtaken[u] \/ f.at < at[u])
      /\ ~f.ok => overtaken'[u] = overtaken[u]
      /\ \A w \in Users \ {u} : overtaken'[w] = overtaken[w]
  <2>1. CASE f.ok
    <3> DEFINE o == overtaken[u] \/ f.at < at[u]
    <3>1. overtaken' = [overtaken EXCEPT ![u] = o]
      BY <2>1 DEF TakeFetch
    <3>2. o \in BOOLEAN
      OBVIOUS
    <3> HIDE DEF o
    <3>3. /\ overtaken' \in [Users -> BOOLEAN] /\ overtaken'[u] = o
          /\ \A w \in Users \ {u} : overtaken'[w] = overtaken[w]
      BY <3>1, <3>2 DEF RestOK
    <3> QED
      BY <2>1, <3>3 DEF o
  <2>2. CASE ~f.ok
    BY <2>2 DEF TakeFetch, RestOK
  <2> QED
    BY <2>1, <2>2
<1>8. RestOK' /\ version <= version'
  BY <1>2, <1>3, <1>5, <1>6, <1>7 DEF RestOK
<1>9. \A w \in Users \ {u} : Quiet(w)
  BY <1>2, <1>3, <1>5, <1>6, <1>7 DEF Quiet
<1>10. UserOK(u)'
  <2>1. GridInv(u)'
    <3>1. \A s : Fits(u, s) => Fits(u, s)'
      BY <1>2 DEF Fits
    <3>2. \A s \in shown'[u] : Known(s)' /\ Fits(u, s)'
      BY <1>1, <1>5, <3>1, RowsStored DEF UserOK, GridInv
    <3>3. \A g \in fetched'[u] : \A s \in g.rows : Known(s)' /\ Fits(u, s)'
      BY <1>1, <1>3, <3>1, RowsStored DEF UserOK, GridInv
    <3>4. \A s \in op'[u].seen : Known(s)'
      BY <1>1, <1>2, RowsStored DEF UserOK, GridInv
    <3> QED
      BY <3>2, <3>3, <3>4 DEF GridInv
  <2>2. Accounted(u)'
    BY <1>2 DEF UserOK, Accounted
  <2>3. Refreshing(u)'
    <3>1. op[u].at <= version' /\ op'[u] = op[u] /\ waiting'[u] = waiting[u] /\ live'[u] = live[u]
      BY <1>2 DEF UserOK, Refreshing
    <3>2. CASE f.ok /\ f.at >= op[u].at
      BY <1>6, <3>1, <3>2 DEF Refreshing
    <3>3. CASE f.ok /\ ~(f.at >= op[u].at)
      <4>1. at[u] >= op[u].at => overtaken'[u]
        BY <1>4, <1>7, <3>3
      <4>2. overtaken[u] => overtaken'[u]
        BY <1>7, <3>3
      <4>3. \A b : Resolves(b) => Resolves(b)'
        BY DEF Resolves
      <4> QED
        BY <1>3, <3>1, <3>3, <4>1, <4>2, <4>3 DEF UserOK, Refreshing
    <3>4. CASE ~f.ok
      <4>1. at'[u] = at[u] /\ overtaken'[u] = overtaken[u]
        BY <1>6, <1>7, <3>4
      <4>2. \A b : Resolves(b) => Resolves(b)'
        BY DEF Resolves
      <4> QED
        BY <1>3, <3>1, <3>4, <4>1, <4>2 DEF UserOK, Refreshing
    <3> QED
      BY <3>2, <3>3, <3>4
  <2>4. \A d \in op'[u].sent : MayDelete(u, d)'
    BY <1>2 DEF UserOK, MayDelete
  <2> QED
    BY <2>1, <2>2, <2>3, <2>4 DEF UserOK
<1> QED
  BY <1>1, <1>8, <1>9, <1>10, OneUser

\* A publication is a step of no user of the grids.
LEMMA PublishInv ==
  ASSUME IInv, NEW c \in rows, Publish(c)
  PROVE  IInv'
<1> USE Parts
<1>1. TablesOK' /\ \A s \in Stored : Known(s) => Known(s)'
  BY PublishTables
<1>2. /\ UNCHANGED <<live, view, shown, at, overtaken, op, waiting, fetched>>
      /\ version' = version + 1 /\ acts' = acts + 1 /\ acts < MaxActs
  BY DEF Publish, screen
<1>3. RestOK' /\ version <= version' /\ version' \in Nat
  BY <1>2, BoundsAreNat DEF RestOK
<1>4. ASSUME NEW u \in Users PROVE UserOK(u)'
  <2>1. Quiet(u)
    BY <1>2 DEF Quiet
  <2> QED
    BY <1>1, <1>3, <2>1, QuietStays
<1> QED
  BY <1>1, <1>3, <1>4 DEF IInv, TypeOK, TablesOK, RestOK, UserOK

LEMMA StepInv == IInv /\ [Next]_vars => IInv'
<1> SUFFICES ASSUME IInv, [Next]_vars PROVE IInv'
  OBVIOUS
<1>1. ASSUME NEW u \in Users, NEW v \in View, OpenView(u, v) PROVE IInv'
  BY <1>1, OpenViewInv
<1>2. ASSUME NEW u \in Users, Begin(u) PROVE IInv'
  BY <1>2, BeginInv
<1>3. ASSUME NEW u \in Users, ServeFetch(u) PROVE IInv'
  BY <1>3, ServeFetchInv
<1>4. ASSUME NEW u \in Users, Expire(u) PROVE IInv'
  BY <1>4, ExpireInv
<1>5. ASSUME NEW u \in Users, NEW c \in op[u].sent, Serve(u, c) PROVE IInv'
  BY <1>5, ServeInv
<1>6. ASSUME NEW u \in Users, NEW c \in op[u].sent, Redirect(u, c) PROVE IInv'
  BY <1>6, RedirectInv
<1>7. ASSUME NEW u \in Users, NEW a \in op[u].served, Report(u, a) PROVE IInv'
  BY <1>7, ReportInv
<1>8. ASSUME NEW u \in Users, NEW f \in fetched[u], TakeFetch(u, f) PROVE IInv'
  BY <1>8, TakeFetchInv
<1>9. ASSUME NEW c \in rows, Publish(c) PROVE IInv'
  BY <1>9, PublishInv
<1>10. CASE UNCHANGED vars
  BY <1>10 DEF vars, tables, screen, IInv, TypeOK, GridInv, Accounted, Refreshing, MayDelete,
              Known, Fits, Resolves
<1> QED
  BY <1>1, <1>2, <1>3, <1>4, <1>5, <1>6, <1>7, <1>8, <1>10, <1>9 DEF Next

(***************************************************************************)
(* The theorems.                                                           *)
(***************************************************************************)

\* The invariant behind the properties of the grids holds in every reachable state.
THEOREM Invariance == Spec => []IInv
BY InitInv, StepInv, PTL DEF Spec

\* Every variable keeps to its type, and rows are identified by their ids.
THEOREM Typing == Spec => []TypeOK
<1>1. IInv => TypeOK
  BY DEF IInv
<1> QED
  BY <1>1, Invariance, PTL

\* An edit that is reported as saved, and of which nothing is reported as failed, has
\* been done, except without a session or in a batch of several of a kind.
THEOREM Saving == Spec => []SavedIsDone
<1>1. IInv => SavedIsDone
  BY DEF IInv, Accounted, SavedIsDone, Idle
<1> QED
  BY <1>1, Invariance, PTL

\* Once an edit is reported and the fetches are over, the grid shows what it did,
\* unless replies overtook each other or the session is gone.
THEOREM Showing == Spec => []OwnEditsShown
<1>1. IInv => OwnEditsShown
  BY DEF IInv, Refreshing, OwnEditsShown, Idle
<1> QED
  BY <1>1, Invariance, PTL

\* A plan that is deleted has no invitation left, and goes by its owner or by a user
\* whose invitation was shown to them and has been taken away by a publication.
THEOREM Keeping == Spec => PlansKept
<1> DEFINE Gone(p) == p.table = "rosterPlan" /\ (\A q \in rows' : q.id # p.id \/ q.table # p.table)
           Rightly(p) ==
             /\ \A r \in rows : r.table = "rosterPlanUserInfo" => r.of # p.id
             /\ \E u \in Users :
                  /\ \E c \in op[u].sent : c \notin op'[u].sent /\ c.row.id = p.id
                  /\ \/ p.who = u
                     \/ \E r \in op[u].seen :
                          /\ r.table = "rosterPlanUserInfo" /\ r.who = u /\ r.of = p.id
                          /\ r \notin rows
<1>1. ASSUME IInv, Next, NEW p \in rows, Gone(p)
      PROVE  Rightly(p)
  <2>1. PICK u \in Users : \E c \in op[u].sent : Serve(u, c) /\ rows' # rows
    <3>1. rows' # rows
      BY <1>1
    <3>2. ~ \E d \in rows : Publish(d)
      BY <1>1, PublishTables, Parts
    <3> QED
      BY <1>1, <3>1, <3>2 DEF Next, OpenView, Begin, ServeFetch, Expire, Redirect, Report, TakeFetch, tables
  <2>2. PICK c \in op[u].sent : Serve(u, c) /\ rows' # rows
    BY <2>1
  <2>3. TablesOK /\ RestOK /\ UserOK(u) /\ c \in Change
    BY <1>1, <2>2, Parts, RowsStored
  <2>4. /\ rows' \in Outcomes(c) /\ Served(u, c, "ok")
        /\ Inserts(c) => nextId[c.row.table] \in Ids
        /\ nextId' = IF Inserts(c) THEN [nextId EXCEPT ![c.row.table] = @ + 1] ELSE nextId
    BY <2>2 DEF Serve, tables
  <2>5. /\ c.method = "DELETE" /\ ~Referred(c.row)
        /\ p.table = c.row.table /\ p.id = c.row.id
    BY <1>1, <2>3, <2>4, ServeTables
  <2>6. \A r \in rows : r.table = "rosterPlanUserInfo" => r.of # p.id
    BY <1>1, <2>5 DEF Referred
  <2>7. c \notin op'[u].sent
    BY <2>3, <2>4, ServedOp
  <2>8. PICK s \in op[u].seen :
          /\ s.who = u
          /\ \/ s.table = "rosterPlan" /\ s.id = p.id
             \/ s.table = "rosterPlanUserInfo" /\ s.of = p.id
    BY <1>1, <2>3, <2>5 DEF UserOK, MayDelete
  <2>9. CASE s.table = "rosterPlan" /\ s.id = p.id
    <3>1. p.who = u
      BY <1>1, <2>3, <2>8, <2>9 DEF UserOK, GridInv, Known
    <3> QED
      BY <2>5, <2>6, <2>7, <3>1
  <2>10. CASE s.table = "rosterPlanUserInfo" /\ s.of = p.id
    <3>1. s \notin rows
      BY <2>6, <2>10
    <3> QED
      BY <2>5, <2>6, <2>7, <2>8, <2>10, <3>1
  <2> QED
    BY <2>8, <2>9, <2>10
<1> DEFINE A == \A p \in rows : Gone(p) => Rightly(p)
<1>2. IInv /\ [Next]_vars => [A]_vars
  BY <1>1
<1> QED
  BY <1>2, Invariance, PTL DEF Spec, PlansKept
=============================================================================
