----------------------------- MODULE Preferences -----------------------------
(***************************************************************************)
(* How a user's answer to a time slot is stored: the requests to           *)
(* /timeSlotUserInfo, the aspect around TimeSlotUserInfoRepository.save,   *)
(* and the access control entries it registers.  Each request runs on a    *)
(* thread of the server; loading, checking, saving and registering are     *)
(* transactions of their own, and the table has no unique key on           *)
(* (time slot, user).  Meanwhile plans are copied and published, which     *)
(* copies answers to new time slots and deletes those of old ones.         *)
(***************************************************************************)
EXTENDS Integers, FiniteSets, Functions

CONSTANTS
  Threads,      \* request threads of the server
  Users,
  Ranks,        \* what an answer says: its rank, its availability goes along
  NoThread,     \* the state of a thread without a request
  Methods,      \* the methods clients use, of "POST" and "PUT"
  Patient,      \* users who wait for the reply before they send again
  MaxSlots,     \* bound: how many time slots there ever are
  MaxRows,      \* bound: how many answer rows are ever inserted
  MaxRequests   \* bound: how many requests are ever sent

ASSUME MethodsKnown       == Methods \subseteq {"POST", "PUT"}
ASSUME PatientAreUsers    == Patient \subseteq Users
ASSUME BoundsAreNat       == MaxSlots \in Nat /\ MaxRows \in Nat /\ MaxRequests \in Nat

\* Ids of the time slots are numbers like those of the answers.
SlotIds == 1 .. MaxSlots
Ids     == 1 .. MaxRows

\* Nobody solves here, so that no answer is picked.
Row == [id : Ids, slot : SlotIds, user : Users, rank : Ranks]

\* An entity on its way into the table.  id is 0 while none is set; put says
\* how it was sent, managed that a row was loaded for it, vain that nothing differs
\* from that row; asked is the slot the user meant; first that there was no ACL of
\* any answer when its own was looked for.
Entity == [phase : {"loaded", "checked", "saved", "registering"},
           id : Nat, put : BOOLEAN, managed : BOOLEAN, vain : BOOLEAN, first : BOOLEAN,
           slot : SlotIds, asked : SlotIds, user : Users, rank : Ranks]

VARIABLES
  rows,     \* the table time_slot_user_info
  nextId,   \* its identity column
  slots,    \* the ids in the table time_slot
  nextSlot, \* its identity column
  acl,      \* acl[i]: the users with entries on row i, NoThread for no ACL
  seen,     \* seen[t]: the ACL that thread t has read
  thread,   \* thread[t]: the entity a thread is saving, or NoThread
  reply,    \* reply[t]: how the last request of the thread was answered
  \* bookkeeping
  taken,    \* answers that a PUT has written over for another user or slot
  sent      \* number of requests sent

table == <<rows, nextId, slots, nextSlot>>
vars  == <<table, acl, seen, thread, reply, taken, sent>>

Busy(t)       == thread[t] # NoThread
AclStates     == (SUBSET Users) \cup {NoThread}

\* Slip: findByTimeSlot.
RowsOfAnyone(s, u) == {x \in rows : x.slot = s}

\* findByTimeSlotAndUser.
RowsOf(s, u) == {x \in rows : x.slot = s /\ x.user = u}

Init ==
  /\ rows = {}
  /\ nextId = 1
  /\ \E k \in 0 .. MaxSlots : slots = 1 .. k /\ nextSlot = k + 1
  /\ acl = [i \in Ids |-> NoThread]
  /\ seen = [t \in Threads |-> NoThread]
  /\ thread = [t \in Threads |-> NoThread]
  /\ reply = [t \in Threads |-> "none"]
  /\ taken = {}
  /\ sent = 0

-----------------------------------------------------------------------------
(***************************************************************************)
(* A request arrives.  One about a time slot that is not there is refused. *)
(***************************************************************************)

Accept(t, u, entity) ==
  /\ ~Busy(t)
  /\ sent < MaxRequests
  /\ u \in Patient => \A o \in Threads : Busy(o) => thread[o].user # u
  /\ thread' = [thread EXCEPT ![t] = entity]
  /\ reply' = [reply EXCEPT ![t] = "none"]
  /\ sent' = sent + 1
  /\ UNCHANGED <<table, acl, seen, taken>>

\* What a request starts with.
Loaded(u, id, slot, asked, rank) ==
  [phase |-> "loaded", id |-> id, put |-> FALSE, managed |-> FALSE, vain |-> FALSE,
   first |-> FALSE, slot |-> slot, asked |-> asked, user |-> u, rank |-> rank]

\* POST: a new entity from the body.
Post(t, u) ==
  /\ "POST" \in Methods
  /\ \E s \in slots, r \in Ranks : Accept(t, u, Loaded(u, 0, s, s, r))

\* PUT from the rank page, which may be out of date.  The adaptor addresses the
\* answer by the id of the time slot.  Is there an answer of that id, it is loaded
\* and the body is written over it, except for its links to a time slot and a user;
\* is there none, a new entity with that id is made.
Put(t, u) ==
  /\ "PUT" \in Methods
  /\ \E s \in 1 .. nextSlot - 1, r \in Ranks :
       LET found == {x \in rows : x.id = s} IN
         \/ /\ found = {} /\ s \in slots
            /\ Accept(t, u, [Loaded(u, s, s, s, r) EXCEPT !.put = TRUE])
         \/ \E x \in found :
              Accept(t, u, [Loaded(u, s, x.slot, s, r) EXCEPT
                              !.put = TRUE, !.managed = TRUE,
                              !.vain = x.user = u /\ x.rank = r])

-----------------------------------------------------------------------------
(***************************************************************************)
(* TimeSlotUserInfoSaveAspect around the save.                             *)
(***************************************************************************)

Answer(t, status) ==
  /\ thread' = [thread EXCEPT ![t] = NoThread]
  /\ reply' = [reply EXCEPT ![t] = status]

\* Slip: an answer that came without an id is taken for a new one.
CheckTrusting(t) ==
  /\ Busy(t) /\ thread[t].phase = "loaded"
  /\ thread' = [thread EXCEPT ![t].phase = "checked"]
  /\ UNCHANGED <<table, acl, seen, reply, taken, sent>>

\* The look-up has found the row x for the entity e.
Found(e, x) ==
  [e EXCEPT !.phase = "checked", !.id = x.id, !.managed = TRUE,
            !.vain = IF e.managed THEN e.vain ELSE x.rank = e.rank]

\* handleBeforeSave: take over the id of the row the user has for the slot, which
\* is loaded.
Check(t) ==
  /\ Busy(t) /\ thread[t].phase = "loaded"
  /\ \/ /\ RowsOf(thread[t].slot, thread[t].user) = {}
        /\ thread' = [thread EXCEPT ![t].phase = "checked"]
     \/ \E x \in RowsOf(thread[t].slot, thread[t].user) :
          /\ RowsOf(thread[t].slot, thread[t].user) = {x}
          /\ thread[t].managed => x.id = thread[t].id
          /\ thread' = [thread EXCEPT ![t] = Found(@, x)]
  /\ UNCHANGED <<table, acl, seen, reply, taken, sent>>

\* More than one row is an incorrect result size; a managed entity must not
\* be given another id.
CheckFails(t) ==
  /\ Busy(t) /\ thread[t].phase = "loaded"
  /\ \/ Cardinality(RowsOf(thread[t].slot, thread[t].user)) > 1
     \/ /\ thread[t].managed
        /\ \E x \in RowsOf(thread[t].slot, thread[t].user) : x.id # thread[t].id
  /\ Answer(t, "error")
  /\ UNCHANGED <<table, acl, seen, taken, sent>>

RowFor(e, i) == [id |-> i, slot |-> e.slot, user |-> e.user, rank |-> e.rank]

WithId(i) == {x \in rows : x.id = i}

\* Slip: the row is inserted with the id of the body.
SaveWithoutIdentity(t) ==
  /\ Busy(t) /\ thread[t].phase = "checked"
  /\ rows' = (rows \ WithId(thread[t].id)) \cup {RowFor(thread[t], thread[t].id)}
  /\ thread' = [thread EXCEPT ![t].phase = "saved"]
  /\ UNCHANGED <<nextId, slots, nextSlot, acl, seen, reply, taken, sent>>

\* The row to be updated, or the time slot to be referred to, is there no more.
Unsavable(e) == e.slot \notin slots \/ (e.managed /\ WithId(e.id) = {})

\* SimpleJpaRepository.save: the row of that id is overwritten; without such a
\* row one is inserted.
Save(t) ==
  /\ Busy(t) /\ thread[t].phase = "checked" /\ ~thread[t].vain /\ ~Unsavable(thread[t])
  /\ LET e    == thread[t]
         old  == WithId(e.id)
         id   == IF old = {} THEN nextId ELSE e.id
     IN /\ id \in Ids
        /\ rows' = (rows \ old) \cup {RowFor(e, id)}
        /\ nextId' = IF old = {} THEN nextId + 1 ELSE nextId
        /\ thread' = [thread EXCEPT ![t].phase = "saved", ![t].id = id]
        /\ taken' = IF e.put /\ \E x \in old : x.user # e.user \/ x.slot # e.slot
                    THEN taken \cup {id} ELSE taken
  /\ UNCHANGED <<slots, nextSlot, acl, seen, reply, sent>>

\* Hibernate writes nothing when the entity is as the row was when it was loaded.
SaveVain(t) ==
  /\ Busy(t) /\ thread[t].phase = "checked" /\ thread[t].vain
  /\ thread' = [thread EXCEPT ![t].phase = "saved"]
  /\ UNCHANGED <<table, acl, seen, reply, taken, sent>>

SaveFails(t) ==
  /\ Busy(t) /\ thread[t].phase = "checked" /\ ~thread[t].vain /\ Unsavable(thread[t])
  /\ Answer(t, "error")
  /\ UNCHANGED <<table, acl, seen, taken, sent>>

-----------------------------------------------------------------------------
(***************************************************************************)
(* AclRegisterService.register, called by handleAfterSave.  updateAcl      *)
(* writes back all the entries that were read, the new ones among them.    *)
(***************************************************************************)

\* The class of the answers is stored with the ACL of the first.
NoneRegistered == \A i \in Ids : acl[i] = NoThread

\* Slip: what the thread read for an earlier row is kept for a new one.
ReadAclKeepingLast(t) ==
  /\ Busy(t) /\ thread[t].phase = "saved"
  /\ seen' = [seen EXCEPT ![t] =
       IF acl[thread[t].id] = NoThread THEN @ ELSE acl[thread[t].id]]
  /\ thread' = [thread EXCEPT ![t].phase = "registering", ![t].first = NoneRegistered]
  /\ UNCHANGED <<table, acl, reply, taken, sent>>

ReadAcl(t) ==
  /\ Busy(t) /\ thread[t].phase = "saved"
  /\ seen' = [seen EXCEPT ![t] = acl[thread[t].id]]
  /\ thread' = [thread EXCEPT ![t].phase = "registering", ![t].first = NoneRegistered]
  /\ UNCHANGED <<table, acl, reply, taken, sent>>

WriteAcl(t) ==
  /\ Busy(t) /\ thread[t].phase = "registering"
  /\ seen[t] = NoThread => acl[thread[t].id] = NoThread
  /\ acl' = [acl EXCEPT ![thread[t].id] =
       {thread[t].user} \cup (IF seen[t] = NoThread THEN {} ELSE seen[t])]
  /\ Answer(t, "ok")
  /\ UNCHANGED <<table, seen, taken, sent>>

\* Another request has created the ACL in between, or the class of all ACLs of
\* answers, or numbers the same entries at the same time: a key is a duplicate.
WriteAclFails(t) ==
  /\ Busy(t) /\ thread[t].phase = "registering"
  /\ \/ seen[t] = NoThread /\ acl[thread[t].id] # NoThread
     \/ thread[t].first /\ ~NoneRegistered
     \/ \E o \in Threads \ {t} :
          Busy(o) /\ thread[o].phase = "registering" /\ thread[o].id = thread[t].id
  /\ Answer(t, "error")
  /\ UNCHANGED <<table, acl, seen, taken, sent>>

-----------------------------------------------------------------------------
(***************************************************************************)
(* RosterPlanService.deepCopy.                                             *)
(***************************************************************************)

\* A plan gets copies of the time slots of another and of their answers, in place
\* of its own, gone, with theirs: a publication, or a new copy of a meeting, which
\* has none.  The copied answers get no access control entries.
DeepCopy(from, gone) ==
  /\ from \cap gone = {} /\ from \cup gone # {}
  /\ LET copied == {x \in rows : x.slot \in from} IN
       \E nextS \in nextSlot .. MaxSlots + 1, nextI \in nextId .. MaxRows + 1 :
         \E at \in Bijection(from, nextSlot .. nextS - 1),
            as \in Bijection(copied, nextId .. nextI - 1) :
              /\ rows' = {x \in rows : x.slot \notin gone}
                            \cup {[x EXCEPT !.id = as[x], !.slot = at[x.slot]] : x \in copied}
              /\ slots' = (slots \ gone) \cup {at[s] : s \in from}
              /\ nextSlot' = nextS /\ nextId' = nextI
  /\ UNCHANGED <<acl, seen, thread, reply, taken, sent>>

-----------------------------------------------------------------------------
Aspect(t) ==
  \/ Check(t) \/ CheckFails(t) \/ Save(t) \/ SaveVain(t) \/ SaveFails(t)
  \/ ReadAcl(t) \/ WriteAcl(t) \/ WriteAclFails(t)

Next ==
  \/ \E t \in Threads : Aspect(t) \/ \E u \in Users : Post(t, u) \/ Put(t, u)
  \/ \E from, gone \in SUBSET slots : DeepCopy(from, gone)

Spec == Init /\ [][Next]_vars

-----------------------------------------------------------------------------
(***************************************************************************)
(* Properties.                                                             *)
(***************************************************************************)

\* Rows, entities and access control lists are well formed.
TypeOK ==
  /\ rows \in SUBSET Row
  /\ nextId \in 1 .. MaxRows + 1
  /\ slots \subseteq 1 .. nextSlot - 1
  /\ nextSlot \in 1 .. MaxSlots + 1
  /\ acl \in [Ids -> AclStates]
  /\ seen \in [Threads -> AclStates]
  /\ thread \in [Threads -> Entity \cup {NoThread}]
  /\ reply \in [Threads -> {"none", "ok", "error"}]
  /\ taken \subseteq Ids
  /\ sent \in Nat

\* "Enforce uniqueness": a user has at most one answer to a time slot.  It
\* takes two requests of one user, each of which checks before the other
\* saves, to break it; a user who waits for the answer never does, even when
\* others do not wait, when their PUTs take rows over, or when answers are copied.
Unique == \A s \in SlotIds, u \in Patient : Cardinality(RowsOf(s, u)) <= 1

\* "All results are saved automatically": what a request has been told is saved.
SavedBy(t) ==
  \E x \in rows : /\ x.slot = thread[t].asked /\ x.user = thread[t].user
                  /\ x.rank = thread[t].rank

\* When a user who waits is answered with success, the answer to the slot that
\* was meant is in the table, whatever other requests have done between the steps
\* of this one; unless it was a PUT to an answer of another slot, or a PUT has
\* taken the answer over, or a publication has deleted the slot meanwhile.
PostsSaved ==
  [][\A t \in Threads : Busy(t) /\ thread[t].user \in Patient /\ reply'[t] = "ok" =>
        \/ SavedBy(t)
        \/ thread[t].slot # thread[t].asked
        \/ thread[t].id \in taken
        \/ thread[t].slot \notin slots]_vars

\* A row stays with the user it was inserted for and the slot it answers, as long
\* as that slot is there: no request takes over the answer of somebody else, but
\* for a PUT.
OwnersKept ==
  [][\A x \in rows : x.id \notin taken' /\ x.slot \in slots' =>
        \E y \in rows' : x.id = y.id /\ x.slot = y.slot /\ x.user = y.user]_vars

\* The entries on a row are its owner's: no interleaving of registrations
\* leaves somebody with a permission on an answer that was never theirs.
OnlyOwnerGranted ==
  \A x \in rows : acl[x.id] # NoThread /\ x.id \notin taken => acl[x.id] \subseteq {x.user}

\* A POST of a user who waits for the reply before sending again fails for three
\* reasons only: a PUT has taken its row, a publication has deleted its slot, or
\* it is among the first of all answers, which register their class at once.
PatientAreServed ==
  [][\A t \in Threads : Busy(t) /\ thread[t].user \in Patient /\ reply'[t] = "error" =>
        \/ thread[t].put
        \/ thread[t].id \in taken
        \/ thread[t].slot \notin slots
        \/ thread[t].first]_vars

-----------------------------------------------------------------------------
(***************************************************************************)
(* The invariant behind these properties, which are not inductive.         *)
(***************************************************************************)

\* A row is known by its id, answers a slot that is there, and has no access control
\* list before it is there.
Keys ==
  /\ \A x, y \in rows : x.id = y.id => x = y
  /\ \A x \in rows : x.id < nextId /\ x.slot \in slots
  /\ \A i \in Ids : i >= nextId => acl[i] = NoThread

\* Two answers of a user who waits are to different slots.
OneAnswerEach ==
  \A x, y \in rows : x.user \in Patient /\ x.user = y.user /\ x.slot = y.slot => x = y

\* A user who waits has one request at a time.
OneRequestEach ==
  \A t, o \in Threads :
    Busy(t) /\ Busy(o) /\ thread[t].user = thread[o].user /\ thread[t].user \in Patient
      => t = o

\* The id of a POST is none, or that of a row with its slot and user, until a PUT
\* takes that row over.
OwnId(t) ==
  /\ thread[t].slot < nextSlot
  /\ ~thread[t].put =>
       /\ thread[t].phase = "loaded" => ~thread[t].managed /\ thread[t].id = 0
       /\ thread[t].id < nextId
       /\ \A x \in rows : x.id = thread[t].id =>
            \/ x.slot = thread[t].slot /\ x.user = thread[t].user
            \/ thread[t].id \in taken

\* What the look-up has told a user who waits is still so when the row is saved.
LookUpHolds(t) ==
  thread[t].phase = "checked" /\ thread[t].user \in Patient =>
    \A x \in RowsOf(thread[t].slot, thread[t].user) : x.id = thread[t].id

\* The table says what the request asks for, without its doing or by it.
Said(t)   == thread[t].vain \/ thread[t].phase \in {"saved", "registering"}
Backed(t) == Said(t) \/ (thread[t].phase = "checked" /\ thread[t].managed /\ ~thread[t].put)

\* The row that a request has found or saved is there as long as its slot, and
\* keeps its slot and its user, until a PUT takes it over; and its rank if the user
\* waits.
StillSaved(t) ==
  Backed(t) =>
    /\ thread[t].id \in Ids /\ thread[t].id < nextId
    /\ thread[t].id \notin taken =>
         /\ thread[t].slot \in slots => WithId(thread[t].id) # {}
         /\ \A x \in WithId(thread[t].id) :
              /\ x.slot = thread[t].slot /\ x.user = thread[t].user
              /\ Said(t) /\ thread[t].user \in Patient => x.rank = thread[t].rank

\* The entries of that row name nobody else, nor does what a thread has read of
\* them, which is up to date if the user waits.
EntriesRead(t) ==
  Backed(t) /\ thread[t].id \notin taken =>
    /\ acl[thread[t].id] # NoThread => acl[thread[t].id] \subseteq {thread[t].user}
    /\ thread[t].phase = "registering" =>
         /\ seen[t] # NoThread => seen[t] \subseteq {thread[t].user}
         /\ thread[t].user \in Patient => seen[t] = acl[thread[t].id]

\* Two threads with the same row serve the same user.
Stands(t) == Busy(t) /\ Backed(t) /\ thread[t].id \notin taken

OneOwnerEach ==
  \A t, o \in Threads :
    Stands(t) /\ Stands(o) /\ thread[o].id = thread[t].id => thread[o].user = thread[t].user

RequestInv(t) == OwnId(t) /\ LookUpHolds(t) /\ StillSaved(t) /\ EntriesRead(t)

IInv ==
  /\ TypeOK
  /\ Keys
  /\ OneAnswerEach
  /\ OneRequestEach
  /\ OneOwnerEach
  /\ OnlyOwnerGranted
  /\ \A t \in Threads : Busy(t) => RequestInv(t)

-----------------------------------------------------------------------------
(***************************************************************************)
(* What the user guide says and the code does not do.                      *)
(***************************************************************************)

=============================================================================
