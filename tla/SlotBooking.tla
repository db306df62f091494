----------------------------- MODULE SlotBooking -----------------------------
(***************************************************************************)
(* What the volunteering module promises about one shift, each use case    *)
(* being one atomic step: a slot is taken exactly while its application is *)
(* accepted, a freed slot goes to the earliest waitlisted application, and *)
(* a cancelled shift has no live application.  ShiftApplications is shown  *)
(* to implement it when its requests do not overlap.                       *)
(***************************************************************************)
EXTENDS Integers, FiniteSets, FiniteSetsExt

CONSTANTS App, Person, NoPerson, Trained, Capacity

VARIABLES status, owner, shiftStatus, taken
vars == <<status, owner, shiftStatus, taken>>

Live == {"pending", "accepted", "waitlisted"}
Having(s) == {a \in App : status[a] = s}

Init ==
    /\ status = [a \in App |-> "absent"]
    /\ owner = [a \in App |-> NoPerson]
    /\ shiftStatus = "scheduled"
    /\ taken = 0

Move(a, s) == status' = [status EXCEPT ![a] = s]

Submit(p) ==
    /\ shiftStatus = "scheduled"
    /\ \A b \in App : owner[b] = p => status[b] \notin Live
    /\ \E a \in Having("absent") :
          /\ \A b \in App : b < a => status[b] # "absent"
          /\ Move(a, "pending")
          /\ owner' = [owner EXCEPT ![a] = p]
    /\ UNCHANGED <<shiftStatus, taken>>

\* A slot is taken when there is one and the applicant is trained; otherwise
\* the application is waitlisted.
Accept(a) ==
    /\ status[a] = "pending"
    /\ IF owner[a] \in Trained /\ taken < Capacity
       THEN Move(a, "accepted") /\ taken' = taken + 1
       ELSE Move(a, "waitlisted") /\ UNCHANGED taken
    /\ UNCHANGED <<owner, shiftStatus>>

Waitlist(a) ==
    /\ status[a] = "pending"
    /\ Move(a, "waitlisted")
    /\ UNCHANGED <<owner, shiftStatus, taken>>

Decline(a) ==
    /\ status[a] \in {"pending", "waitlisted"}
    /\ Move(a, "declined")
    /\ UNCHANGED <<owner, shiftStatus, taken>>

\* The slot of a withdrawn acceptance passes to the earliest waitlisted one.
Withdraw(a) ==
    /\ status[a] \in Live
    /\ IF status[a] # "accepted"
       THEN Move(a, "withdrawn") /\ UNCHANGED taken
       ELSE IF Having("waitlisted") = {}
       THEN Move(a, "withdrawn") /\ taken' = taken - 1
       ELSE /\ status' = [status EXCEPT ![a] = "withdrawn",
                                        ![Min(Having("waitlisted"))] = "accepted"]
            /\ UNCHANGED taken
    /\ UNCHANGED <<owner, shiftStatus>>

Cancel ==
    /\ shiftStatus = "scheduled"
    /\ shiftStatus' = "cancelled"
    /\ taken' = 0
    /\ status' = [a \in App |-> IF status[a] \in Live THEN "declined" ELSE status[a]]
    /\ UNCHANGED owner

Next ==
    \/ \E p \in Person : Submit(p)
    \/ \E a \in App : Accept(a) \/ Waitlist(a) \/ Decline(a) \/ Withdraw(a)
    \/ Cancel

Spec == Init /\ [][Next]_vars

=============================================================================
