--------------------------- MODULE RosterDelivery ---------------------------
(***************************************************************************)
(* What generating a roster promises to whoever reads the label of a copy: *)
(* the solver is asked once, and the roster then appears in one piece, the *)
(* allocation together with the locks of the users allocated, and stays as *)
(* it is until somebody writes to the copy, or to its label.  Nothing      *)
(* promises that it appears.                                               *)
(***************************************************************************)
CONSTANTS Copies, Slots, Users, Ranks

VARIABLES
  task,     \* task[c]: what the solver has been asked for copy c
  roster    \* roster[c]: what the label of c vouches for

vars == <<task, roster>>

Choices == Slots \X Users \X Ranks
Task    == [asked : BOOLEAN, eligible : SUBSET Choices, invited : SUBSET Users]
Roster  == [status : {"none", "delivered", "touched"},
            allocation : SUBSET Choices, locked : SUBSET Users]

NoTask   == [asked |-> FALSE, eligible |-> {}, invited |-> {}]
NoRoster == [status |-> "none", allocation |-> {}, locked |-> {}]
Touched  == [status |-> "touched", allocation |-> {}, locked |-> {}]

UsersOf(choices) == {x[2] : x \in choices}

Init ==
  /\ task = [c \in Copies |-> NoTask]
  /\ roster = [c \in Copies |-> NoRoster]

\* The choices are those of users who are invited.
Ask(c) ==
  /\ ~task[c].asked
  /\ task' = [task EXCEPT ![c] = task'[c]]
  /\ task'[c] \in Task
  /\ task'[c].asked
  /\ UsersOf(task'[c].eligible) \subseteq task'[c].invited
  /\ UNCHANGED roster

\* Any of the choices are allocated, and their users are locked.
Deliver(c) ==
  /\ task[c].asked
  /\ roster[c] = NoRoster
  /\ \E allocation \in SUBSET task[c].eligible :
       roster' = [roster EXCEPT ![c] = [status |-> "delivered",
                    allocation |-> allocation, locked |-> UsersOf(allocation)]]
  /\ UNCHANGED task

\* The label is taken back, from a roster of nobody.
Withdraw(c) ==
  /\ roster[c].status = "delivered"
  /\ task[c].invited = {}
  /\ roster' = [roster EXCEPT ![c] = NoRoster]
  /\ UNCHANGED task

\* Somebody writes to copies, or over their labels, or over the meeting they
\* are still read from: nothing is promised of them from then on.
Touch ==
  /\ \E touched \in SUBSET Copies :
       roster' = [c \in Copies |-> IF c \in touched THEN Touched ELSE roster[c]]
  /\ UNCHANGED task

Next == \/ \E c \in Copies : Ask(c) \/ Deliver(c) \/ Withdraw(c)
        \/ Touch
Spec == Init /\ [][Next]_vars
=============================================================================
