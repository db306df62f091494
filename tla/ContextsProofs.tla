--------------------------- MODULE ContextsProofs ---------------------------
(***************************************************************************)
(* Theorems about Contexts, for any persons, roles, ids, bounds and number *)
(* of overlapping requests.  A step of the composition is one of the part  *)
(* in focus and a stutter of the others, so each part has an invariant of  *)
(* its own; those of moderation are proved where their modules are.        *)
(***************************************************************************)
EXTENDS Contexts, SequenceTheorems, FiniteSetTheorems, WellFoundedInduction, TLAPS

LEMMA PartsOfBehaviour == Spec => R!Spec /\ S!Spec /\ O!Spec /\ A!Spec /\ C!Spec /\ N!Spec /\ G!Spec /\ P!Spec /\ L!Spec
  <1>1. Init => R!Init /\ S!Init /\ O!Init /\ A!Init /\ C!Init /\ N!Init /\ G!Init /\ P!Init /\ L!Init
    BY DEF Init
  <1>2. [Next]_vars => [R!Next]_(R!vars)
    BY DEF Next, vars, reportVars, R!vars
  <1>3. [Next]_vars => [S!Next]_(S!vars)
    BY DEF Next, vars, sanctionVars, S!vars
  <1>4. [Next]_vars => [O!Next]_(O!vars)
    BY DEF Next, vars, volunteeringVars, O!vars
  <1>5. [Next]_vars => [A!Next]_(A!vars)
    BY DEF Next, vars, courseVars, A!vars
  <1>6. [Next]_vars => [C!Next]_(C!vars)
    BY DEF Next, vars, communityVars, C!vars
  <1>7. [Next]_vars => [N!Next]_(N!vars)
    BY DEF Next, vars, noticeVars, N!vars
  <1>8. [Next]_vars => [G!Next]_(G!vars)
    BY DEF Next, vars, gamificationVars, G!vars
  <1>9. [Next]_vars => [P!Next]_(P!vars)
    BY DEF Next, vars, pageVars, P!vars
  <1>10. [Next]_vars => [L!Next]_(L!vars)
    BY DEF Next, vars, boardVars, L!vars
  <1> QED
    BY <1>1, <1>2, <1>3, <1>4, <1>5, <1>6, <1>7, <1>8, <1>9, <1>10, PTL
    DEF Spec, R!Spec, S!Spec, O!Spec, A!Spec, C!Spec, N!Spec, G!Spec, P!Spec, L!Spec

LEMMA ReportIdentifiers == R!Identifiers
  BY NameAssumption, SanctionAssumption DEF R!Identifiers, R!Nobody

LEMMA SanctionIdentifiers == S!Identifiers
  BY NameAssumption, SanctionAssumption
  DEF S!Identifiers, S!Nobody, S!Anonymous, S!ActionType, S!Scope, S!Ends, S!Global, Global

\* An open report has no holder and a reviewed one has, whatever claims,
\* releases and decisions overlap, except where the sweep wrote over a row.
THEOREM ReportsHeld == Spec => []HolderMatchesStatus
  BY PartsOfBehaviour, ReportIdentifiers, R!HoldersMatch, PTL DEF HolderMatchesStatus

\* The last event about a report that is terminal tells how it ended.
THEOREM ReportsAnnounced == Spec => []OutcomeAnnounced
  BY PartsOfBehaviour, ReportIdentifiers, R!OutcomesAnnounced, PTL DEF OutcomeAnnounced

\* A terminal report that no request is about any more stays as it is.
THEOREM ReportsSettled == Spec => SettledForGood
  BY PartsOfBehaviour, ReportIdentifiers, R!SettledStays, PTL DEF SettledForGood

\* Whoever is named as the one who revoked a sanction was allowed to.
THEOREM SanctionsRevoked == Spec => []RevocationAttributed
  BY PartsOfBehaviour, SanctionIdentifiers, S!RevocationsAttributed, PTL DEF RevocationAttributed

\* Who is banned, or suspended everywhere, publishes nothing any more.
THEOREM SanctionsSilence == Spec => SilencedStaySilent
  BY PartsOfBehaviour, SanctionIdentifiers, S!SilenceKept, PTL DEF SilencedStaySilent

\* The events told of each email are what became of it, none goes out that was
\* switched off before its run, and a sent one is not sent again.
THEOREM NotificationsTold == Spec => []NotificationsAgree
  BY PartsOfBehaviour, NoticeAssumption, N!DeliveryTold, N!ConsentKept, N!SentStays, PTL DEF NotificationsAgree
-----------------------------------------------------------------------------
(* Volunteering: what is decided about hours, and which events are told. *)

OpportunityRow == [scope : Place, status : {"draft", "published", "closed", "archived"}]
HourRow == [person : Person, opportunity : OpportunityId, shift : ShiftId \cup {O!None},
            durationMinutes : 1..O!MAX_DURATION_MINUTES,
            status : {"submitted"} \cup O!Decision, approver : Person \cup {O!Nobody}]
Command == [op : DOMAIN O!To, opportunity : OpportunityId]
           \cup [op : {"schedule"}, opportunity : OpportunityId]
           \cup [op : {"cancel"}, shift : ShiftId]
           \cup [op : O!Decision, by : Person, entry : EntryId]

\* TypeOK with its witnesses, and with what a call holds.
VolunteeringTyped ==
    /\ DOMAIN opportunities \subseteq OpportunityId /\ DOMAIN shifts \subseteq ShiftId
    /\ DOMAIN hours \subseteq EntryId
    /\ opportunities \in [DOMAIN opportunities -> OpportunityRow]
    /\ shifts \in [DOMAIN shifts -> [opportunity : OpportunityId, status : {"scheduled", "cancelled"}]]
    /\ hours \in [DOMAIN hours -> HourRow]
    /\ events \in [O!EventKey -> Nat]
    /\ command \in [Worker -> Command \cup {O!Idle}]

\* A row names rows that exist, and so does a call: nothing is deleted.
NamesExist ==
    /\ \A s \in DOMAIN shifts : shifts[s].opportunity \in DOMAIN opportunities
    /\ \A e \in DOMAIN hours :
         /\ hours[e].opportunity \in DOMAIN opportunities
         /\ hours[e].shift # O!None => hours[e].shift \in DOMAIN shifts
    /\ \A w \in Worker :
         /\ command[w].op \in DOMAIN O!To \cup {"schedule"} => command[w].opportunity \in DOMAIN opportunities
         /\ command[w].op = "cancel" => command[w].shift \in DOMAIN shifts
         /\ command[w].op \in O!Decision => command[w].entry \in DOMAIN hours

\* Who decides is not who submitted, and what is not submitted is not decided.
DecidersDiffer ==
    /\ \A w \in Worker : command[w].op \in O!Decision => command[w].by # hours[command[w].entry].person
    /\ \A e \in EntryId \ DOMAIN hours, d \in O!Decision : events[<<d, e>>] = 0

VolunteeringInv ==
    /\ VolunteeringTyped /\ NamesExist /\ DecidersDiffer
    /\ O!HoursDecidedOnce /\ O!TransitionsToldOnce

LEMMA CommandFields ==
  ASSUME NEW c \in Command \cup {O!Idle}
  PROVE  /\ c.op \in DOMAIN O!To \cup {"schedule"} => c.opportunity \in OpportunityId
         /\ c.op = "cancel" => c.shift \in ShiftId
         /\ c.op \in O!Decision => c.by \in Person /\ c.entry \in EntryId
         /\ c = O!Idle <=> c.op = "idle"
         /\ c.op \in {"idle", "schedule", "cancel"} \cup DOMAIN O!To \cup O!Decision
  <1>1. DOMAIN O!To = {"publish", "close", "archive"}
    BY DEF O!To
  <1> QED
    BY <1>1 DEF Command, O!Idle, O!Decision

\* A call that reads, ends or is abandoned: the tables stay.
LEMMA CommandGiven ==
  ASSUME VolunteeringInv, NEW w \in Worker, NEW c \in Command \cup {O!Idle},
         command' = [command EXCEPT ![w] = c],
         UNCHANGED <<opportunities, shifts, hours, events>>,
         c.op \in DOMAIN O!To \cup {"schedule"} => c.opportunity \in DOMAIN opportunities,
         c.op = "cancel" => c.shift \in DOMAIN shifts,
         c.op \in O!Decision => c.entry \in DOMAIN hours /\ c.by # hours[c.entry].person
  PROVE  VolunteeringInv'
  <1>1. /\ command' \in [Worker -> Command \cup {O!Idle}] /\ command'[w] = c
        /\ \A v \in Worker \ {w} : command'[v] = command[v]
    BY DEF VolunteeringInv, VolunteeringTyped
  <1>2. VolunteeringTyped' /\ NamesExist'
    BY <1>1 DEF VolunteeringInv, VolunteeringTyped, NamesExist
  <1>3. DecidersDiffer' /\ O!HoursDecidedOnce' /\ O!TransitionsToldOnce'
    BY <1>1 DEF VolunteeringInv, DecidersDiffer, O!HoursDecidedOnce, O!TransitionsToldOnce
  <1> QED
    BY <1>2, <1>3 DEF VolunteeringInv

LEMMA CommandRead ==
  ASSUME VolunteeringInv, NEW w \in Worker, NEW p \in Person,
         \/ O!ShiftRequest(w, p) \/ O!HourRequest(w, p)
         \/ \E o \in DOMAIN opportunities : O!OpportunityRequest(w, p, o)
  PROVE  VolunteeringInv'
  <1>1. DOMAIN O!To = {"publish", "close", "archive"}
    BY DEF O!To
  <1>2. ASSUME NEW o \in DOMAIN opportunities, NEW op \in DOMAIN O!To, O!ReadToMove(w, p, o, op)
        PROVE  VolunteeringInv'
    <2> DEFINE c == [op |-> op, opportunity |-> o]
    <2>1. /\ command' = [command EXCEPT ![w] = c] /\ UNCHANGED <<opportunities, shifts, hours, events>>
      BY <1>2 DEF O!ReadToMove, O!Read
    <2>2. c \in Command /\ c.op = op /\ c.opportunity = o /\ o \in OpportunityId
      BY DEF Command, VolunteeringInv, VolunteeringTyped
    <2>3. c.op \notin {"schedule", "cancel"} \cup O!Decision
      BY <1>1 DEF O!Decision
    <2> HIDE DEF c
    <2> QED
      BY <2>1, <2>2, <2>3, CommandGiven
  <1>3. ASSUME NEW o \in DOMAIN opportunities, O!ReadToSchedule(w, p, o)
        PROVE  VolunteeringInv'
    <2> DEFINE c == [op |-> "schedule", opportunity |-> o]
    <2>1. command' = [command EXCEPT ![w] = c] /\ UNCHANGED <<opportunities, shifts, hours, events>>
      BY <1>3 DEF O!ReadToSchedule, O!Read
    <2>2. c \in Command /\ c.op = "schedule" /\ c.opportunity = o
      BY DEF Command, VolunteeringInv, VolunteeringTyped
    <2> HIDE DEF c
    <2> QED
      BY <2>1, <2>2, CommandGiven DEF O!Decision
  <1>4. ASSUME NEW s \in DOMAIN shifts, O!ReadToCancel(w, p, s)
        PROVE  VolunteeringInv'
    <2> DEFINE c == [op |-> "cancel", shift |-> s]
    <2>1. command' = [command EXCEPT ![w] = c] /\ UNCHANGED <<opportunities, shifts, hours, events>>
      BY <1>4 DEF O!ReadToCancel, O!Read
    <2>2. c \in Command /\ c.op = "cancel" /\ c.shift = s
      BY DEF Command, VolunteeringInv, VolunteeringTyped
    <2> HIDE DEF c
    <2> QED
      BY <1>1, <2>1, <2>2, CommandGiven DEF O!Decision
  <1>5. ASSUME NEW e \in DOMAIN hours, NEW d \in O!Decision, NEW action, O!ReadToDecide(w, p, e, d, action)
        PROVE  VolunteeringInv'
    <2> DEFINE c == [op |-> d, by |-> p, entry |-> e]
    <2>1. /\ command' = [command EXCEPT ![w] = c] /\ UNCHANGED <<opportunities, shifts, hours, events>>
          /\ p # hours[e].person
      BY <1>5 DEF O!ReadToDecide, O!Read
    <2>2. c \in Command /\ c.op = d /\ c.by = p /\ c.entry = e
      BY DEF Command, VolunteeringInv, VolunteeringTyped
    <2>3. c.op \notin DOMAIN O!To \cup {"schedule", "cancel"}
      BY <1>1, <2>2 DEF O!Decision
    <2> HIDE DEF c
    <2> QED
      BY <1>1, <2>1, <2>2, <2>3, CommandGiven
  <1>6. ASSUME NEW o \in DOMAIN opportunities, O!OpportunityRequest(w, p, o)
        PROVE  VolunteeringInv'
    BY <1>1, <1>2, <1>6 DEF O!OpportunityRequest, O!ReadToPublish, O!ReadToClose, O!ReadToArchive
  <1>7. CASE O!ShiftRequest(w, p)
    BY <1>3, <1>4, <1>7 DEF O!ShiftRequest
  <1>8. CASE O!HourRequest(w, p)
    BY <1>5, <1>8 DEF O!HourRequest, O!ReadToApprove, O!ReadToReject, O!Decision
  <1> QED
    BY <1>6, <1>7, <1>8

LEMMA OpportunityCreated ==
  ASSUME VolunteeringInv, NEW p \in Person, NEW o \in OpportunityId, NEW scope \in Place,
         O!createOpportunity(p, o, scope)
  PROVE  VolunteeringInv'
  <1> DEFINE row == [scope |-> scope, status |-> "draft"]
  <1>1. /\ o \notin DOMAIN opportunities
        /\ opportunities' = [x \in DOMAIN opportunities \cup {o} |-> IF x = o THEN row ELSE opportunities[x]]
        /\ UNCHANGED <<shifts, hours, events, command>>
    BY DEF O!createOpportunity, O!With
  <1>2. row \in OpportunityRow /\ row.status = "draft"
    BY DEF OpportunityRow
  <1> HIDE DEF row
  <1>3. /\ DOMAIN opportunities' = DOMAIN opportunities \cup {o} /\ opportunities'[o] = row
        /\ \A x \in DOMAIN opportunities : opportunities'[x] = opportunities[x]
        /\ opportunities' \in [DOMAIN opportunities \cup {o} -> OpportunityRow]
    BY <1>1, <1>2 DEF VolunteeringInv, VolunteeringTyped
  <1>4. VolunteeringTyped'
    BY <1>1, <1>3 DEF VolunteeringInv, VolunteeringTyped
  <1>8. NamesExist'
    <2>1. NamesExist /\ DOMAIN opportunities \subseteq DOMAIN opportunities'
      BY <1>3 DEF VolunteeringInv
    <2>2. UNCHANGED <<shifts, hours, command>>
      BY <1>1
    <2> QED
      BY ONLY <2>1, <2>2 DEF NamesExist, O!To, O!Decision
  <1>5. DecidersDiffer' /\ O!HoursDecidedOnce'
    BY <1>1 DEF VolunteeringInv, DecidersDiffer, O!HoursDecidedOnce
  <1>6. O!TransitionsToldOnce'
    BY <1>1, <1>2, <1>3 DEF VolunteeringInv, O!TransitionsToldOnce
  <1> QED
    BY <1>4, <1>5, <1>6, <1>8 DEF VolunteeringInv

\* A step of the lifecycle leaves and reaches what From and To say.
LEMMA OpportunityMoved ==
  ASSUME VolunteeringInv, NEW w \in Worker, NEW op \in DOMAIN O!To, O!Move(w, op),
         \/ op # "publish" /\ UNCHANGED events
         \/ op = "publish" /\ O!Publish("OpportunityPublished", command[w].opportunity)
  PROVE  VolunteeringInv'
  <1>1. PICK o : o = command[w].opportunity
    OBVIOUS
  <1>2. /\ command[w].op = op /\ opportunities[o].status = O!From[op]
        /\ opportunities' = [opportunities EXCEPT ![o].status = O!To[op]]
        /\ command' = [command EXCEPT ![w] = O!Idle] /\ UNCHANGED <<shifts, hours>>
    BY <1>1 DEF O!Move, O!StillFrom, O!Done
  <1>3. DOMAIN O!To = {"publish", "close", "archive"}
    BY DEF O!To
  <1>4. o \in DOMAIN opportunities
    BY <1>1, <1>2 DEF VolunteeringInv, NamesExist
  <1>5. /\ DOMAIN opportunities' = DOMAIN opportunities /\ opportunities'[o].status = O!To[op]
        /\ \A x \in DOMAIN opportunities \ {o} : opportunities'[x] = opportunities[x]
        /\ opportunities' \in [DOMAIN opportunities -> OpportunityRow]
    <2>1. O!To[op] \in {"draft", "published", "closed", "archived"}
      BY <1>3 DEF O!To
    <2>2. opportunities \in [DOMAIN opportunities -> OpportunityRow]
      BY DEF VolunteeringInv, VolunteeringTyped
    <2>3. PICK row : row = [opportunities[o] EXCEPT !.status = O!To[op]]
      OBVIOUS
    <2>4. row \in OpportunityRow /\ row.status = O!To[op]
      BY <1>4, <2>1, <2>2, <2>3 DEF OpportunityRow
    <2>5. opportunities' = [opportunities EXCEPT ![o] = row]
      BY <1>2, <2>3
    <2> QED
      BY <1>4, <2>2, <2>4, <2>5
  <1>6. /\ command' \in [Worker -> Command \cup {O!Idle}] /\ command'[w].op = "idle"
        /\ \A v \in Worker \ {w} : command'[v] = command[v]
    BY <1>2 DEF VolunteeringInv, VolunteeringTyped, O!Idle
  <1>7. events' \in [O!EventKey -> Nat] /\ \A e \in EntryId, d \in O!Decision : events'[<<d, e>>] = events[<<d, e>>]
    BY <1>4 DEF O!Publish, VolunteeringInv, VolunteeringTyped, O!EventKey, O!Decision
  <1>8. VolunteeringTyped' /\ NamesExist'
    BY <1>2, <1>3, <1>5, <1>6, <1>7 DEF VolunteeringInv, VolunteeringTyped, NamesExist, O!Decision
  <1>9. DecidersDiffer' /\ O!HoursDecidedOnce'
    BY <1>2, <1>6, <1>7 DEF VolunteeringInv, VolunteeringTyped, DecidersDiffer, O!HoursDecidedOnce, O!Decision
  <1>10. /\ \A s \in ShiftId : events'[<<"ShiftCancelled", s>>] = events[<<"ShiftCancelled", s>>]
         /\ \A x \in OpportunityId \ {o} : events'[<<"OpportunityPublished", x>>] = events[<<"OpportunityPublished", x>>]
         /\ events'[<<"OpportunityPublished", o>>] =
              events[<<"OpportunityPublished", o>>] + (IF op = "publish" THEN 1 ELSE 0)
    BY <1>1, <1>4 DEF O!Publish, VolunteeringInv, VolunteeringTyped, O!EventKey
  <1>11. /\ opportunities[o].status = "draft" <=> op = "publish"
         /\ opportunities'[o].status # "draft" /\ o \in OpportunityId
    BY <1>2, <1>3, <1>4, <1>5 DEF O!From, O!To, VolunteeringInv, VolunteeringTyped
  <1>12. O!TransitionsToldOnce'
    BY <1>2, <1>4, <1>5, <1>10, <1>11 DEF VolunteeringInv, O!TransitionsToldOnce
  <1> QED
    BY <1>8, <1>9, <1>12 DEF VolunteeringInv

LEMMA ShiftScheduled ==
  ASSUME VolunteeringInv, NEW w \in Worker, NEW s \in ShiftId, O!scheduleShift(w, s)
  PROVE  VolunteeringInv'
  <1>1. PICK o : o = command[w].opportunity
    OBVIOUS
  <1>2. PICK row : row = [opportunity |-> o, status |-> "scheduled"]
    OBVIOUS
  <1>3. /\ command[w].op = "schedule" /\ s \notin DOMAIN shifts
        /\ shifts' = [x \in DOMAIN shifts \cup {s} |-> IF x = s THEN row ELSE shifts[x]]
        /\ events' = [events EXCEPT ![<<"ShiftScheduled", s>>] = @ + 1]
        /\ command' = [command EXCEPT ![w] = O!Idle] /\ UNCHANGED <<opportunities, hours>>
    BY <1>1, <1>2 DEF O!scheduleShift, O!With, O!Publish, O!Done
  <1>4. o \in DOMAIN opportunities /\ o \in OpportunityId
    BY <1>1, <1>3 DEF VolunteeringInv, VolunteeringTyped, NamesExist
  <1>5. /\ DOMAIN shifts' = DOMAIN shifts \cup {s} /\ shifts'[s].opportunity = o
        /\ \A x \in DOMAIN shifts : shifts'[x] = shifts[x]
        /\ shifts' \in [DOMAIN shifts \cup {s} -> [opportunity : OpportunityId, status : {"scheduled", "cancelled"}]]
    BY <1>2, <1>3, <1>4 DEF VolunteeringInv, VolunteeringTyped
  <1>6. /\ command' \in [Worker -> Command \cup {O!Idle}] /\ command'[w].op = "idle"
        /\ \A v \in Worker \ {w} : command'[v] = command[v]
    BY <1>3 DEF VolunteeringInv, VolunteeringTyped, O!Idle
  <1>7. events' \in [O!EventKey -> Nat] /\ \A e \in EntryId, d \in O!Decision : events'[<<d, e>>] = events[<<d, e>>]
    BY <1>3 DEF VolunteeringInv, VolunteeringTyped, O!EventKey, O!Decision
  <1>9. VolunteeringTyped'
    BY <1>3, <1>5, <1>6, <1>7 DEF VolunteeringInv, VolunteeringTyped
  <1>10. NamesExist'
    <2>1. /\ NamesExist /\ \A x \in DOMAIN shifts' : shifts'[x].opportunity \in DOMAIN opportunities
          /\ DOMAIN shifts \subseteq DOMAIN shifts'
      BY <1>4, <1>5 DEF VolunteeringInv, NamesExist
    <2> QED
      BY ONLY <1>3, <1>6, <2>1 DEF NamesExist, O!To, O!Decision
  <1>11. DecidersDiffer' /\ O!HoursDecidedOnce'
    BY <1>3, <1>6, <1>7 DEF VolunteeringInv, VolunteeringTyped, DecidersDiffer, O!HoursDecidedOnce, O!Decision
  <1>12. shifts'[s].status = "scheduled" /\ s \notin DOMAIN shifts
    BY <1>2, <1>3, <1>5
  <1>13. \A k \in ({"OpportunityPublished"} \X OpportunityId) \cup ({"ShiftCancelled"} \X ShiftId) : events'[k] = events[k]
    BY <1>3 DEF VolunteeringInv, VolunteeringTyped, O!EventKey
  <1>14. O!TransitionsToldOnce'
    BY <1>3, <1>5, <1>12, <1>13 DEF VolunteeringInv, O!TransitionsToldOnce
  <1> QED
    BY <1>9, <1>10, <1>11, <1>14 DEF VolunteeringInv

LEMMA ShiftCancelled ==
  ASSUME VolunteeringInv, NEW w \in Worker, O!cancelShift(w)
  PROVE  VolunteeringInv'
  <1>1. PICK s : s = command[w].shift
    OBVIOUS
  <1>2. PICK row : row = [shifts[s] EXCEPT !.status = "cancelled"]
    OBVIOUS
  <1>3. /\ command[w].op = "cancel" /\ shifts[s].status = "scheduled"
        /\ shifts' = [shifts EXCEPT ![s] = row]
        /\ events' = [events EXCEPT ![<<"ShiftCancelled", s>>] = @ + 1]
        /\ command' = [command EXCEPT ![w] = O!Idle] /\ UNCHANGED <<opportunities, hours>>
    BY <1>1, <1>2 DEF O!cancelShift, O!Publish, O!Done
  <1>4. s \in DOMAIN shifts /\ s \in ShiftId
    BY <1>1, <1>3 DEF VolunteeringInv, VolunteeringTyped, NamesExist
  <1>5. /\ DOMAIN shifts' = DOMAIN shifts /\ shifts'[s].opportunity = shifts[s].opportunity
        /\ shifts'[s].status = "cancelled" /\ \A x \in DOMAIN shifts \ {s} : shifts'[x] = shifts[x]
        /\ shifts' \in [DOMAIN shifts -> [opportunity : OpportunityId, status : {"scheduled", "cancelled"}]]
    BY <1>2, <1>3, <1>4 DEF VolunteeringInv, VolunteeringTyped
  <1>6. /\ command' \in [Worker -> Command \cup {O!Idle}] /\ command'[w].op = "idle"
        /\ \A v \in Worker \ {w} : command'[v] = command[v]
    BY <1>3 DEF VolunteeringInv, VolunteeringTyped, O!Idle
  <1>7. events' \in [O!EventKey -> Nat] /\ \A e \in EntryId, d \in O!Decision : events'[<<d, e>>] = events[<<d, e>>]
    BY <1>3, <1>4 DEF VolunteeringInv, VolunteeringTyped, O!EventKey, O!Decision
  <1>8. VolunteeringTyped'
    BY <1>3, <1>5, <1>6, <1>7 DEF VolunteeringInv, VolunteeringTyped
  <1>9. NamesExist'
    <2>1. NamesExist /\ \A x \in DOMAIN shifts' : shifts'[x].opportunity \in DOMAIN opportunities
      BY <1>4, <1>5 DEF VolunteeringInv, NamesExist
    <2> QED
      BY ONLY <1>3, <1>5, <1>6, <2>1 DEF NamesExist, O!To, O!Decision
  <1>10. DecidersDiffer' /\ O!HoursDecidedOnce'
    BY <1>3, <1>6, <1>7 DEF VolunteeringInv, VolunteeringTyped, DecidersDiffer, O!HoursDecidedOnce, O!Decision
  <1>11. /\ events'[<<"ShiftCancelled", s>>] = events[<<"ShiftCancelled", s>>] + 1
         /\ \A k \in ({"OpportunityPublished"} \X OpportunityId) \cup ({"ShiftCancelled"} \X (ShiftId \ {s})) :
              events'[k] = events[k]
    BY <1>3, <1>4 DEF VolunteeringInv, VolunteeringTyped, O!EventKey
  <1>12. O!TransitionsToldOnce'
    BY <1>3, <1>4, <1>5, <1>11 DEF VolunteeringInv, O!TransitionsToldOnce
  <1> QED
    BY <1>8, <1>9, <1>10, <1>12 DEF VolunteeringInv

LEMMA HoursSubmitted ==
  ASSUME VolunteeringInv, NEW p \in Person, NEW e \in EntryId, NEW o \in DOMAIN opportunities,
         NEW s \in DOMAIN shifts \cup {O!None}, NEW span \in Span, O!submitHours(p, e, o, s, span)
  PROVE  VolunteeringInv'
  <1>1. PICK row : row = [person |-> p, opportunity |-> o, shift |-> s, durationMinutes |-> span[2] - span[1],
                          status |-> "submitted", approver |-> O!Nobody]
    OBVIOUS
  <1>2. /\ e \notin DOMAIN hours /\ O!Fits(span, s)
        /\ hours' = [x \in DOMAIN hours \cup {e} |-> IF x = e THEN row ELSE hours[x]]
        /\ events' = [events EXCEPT ![<<"HoursSubmitted", e>>] = @ + 1]
        /\ UNCHANGED <<opportunities, shifts, command>>
    BY <1>1 DEF O!submitHours, O!With, O!Publish
  <1>3. /\ row \in HourRow /\ row.person = p /\ row.opportunity = o /\ row.shift = s
        /\ row.status = "submitted" /\ row.approver = O!Nobody
    <2>1. span[2] - span[1] \in 1..O!MAX_DURATION_MINUTES
      BY <1>2 DEF O!Fits
    <2>2. o \in OpportunityId /\ s \in ShiftId \cup {O!None}
      BY DEF VolunteeringInv, VolunteeringTyped
    <2> QED
      BY <1>1, <2>1, <2>2 DEF HourRow
  <1>4. /\ DOMAIN hours' = DOMAIN hours \cup {e} /\ hours'[e] = row
        /\ \A x \in DOMAIN hours : hours'[x] = hours[x]
        /\ hours' \in [DOMAIN hours \cup {e} -> HourRow]
    BY <1>2, <1>3 DEF VolunteeringInv, VolunteeringTyped
  <1>5. events' \in [O!EventKey -> Nat] /\ \A x \in EntryId, d \in O!Decision : events'[<<d, x>>] = events[<<d, x>>]
    BY <1>2 DEF VolunteeringInv, VolunteeringTyped, O!EventKey, O!Decision
  <1>6. VolunteeringTyped'
    BY <1>2, <1>4, <1>5 DEF VolunteeringInv, VolunteeringTyped
  <1>7. NamesExist'
    <2>1. /\ NamesExist /\ DOMAIN hours \subseteq DOMAIN hours'
          /\ \A x \in DOMAIN hours' : /\ hours'[x].opportunity \in DOMAIN opportunities
                                      /\ hours'[x].shift # O!None => hours'[x].shift \in DOMAIN shifts
      BY <1>3, <1>4 DEF VolunteeringInv, NamesExist
    <2> QED
      BY ONLY <1>2, <2>1 DEF NamesExist, O!To, O!Decision
  <1>8. DecidersDiffer'
    <2>1. \A w \in Worker : command[w].op \in O!Decision => command[w].entry \in DOMAIN hours
      BY DEF VolunteeringInv, NamesExist
    <2> QED
      BY <1>2, <1>4, <1>5, <2>1 DEF VolunteeringInv, DecidersDiffer, O!Decision
  <1>9. O!HoursDecidedOnce'
    <2>1. SUFFICES ASSUME NEW x \in DOMAIN hours'
                   PROVE  /\ hours'[x].approver # hours'[x].person
                          /\ hours'[x].status = "submitted" <=> hours'[x].approver = O!Nobody
                          /\ \A d \in O!Decision : events'[<<d, x>>] = (IF hours'[x].status = d THEN 1 ELSE 0)
      BY DEF O!HoursDecidedOnce, O!Decision, O!Nobody
    <2>2. CASE x = e
      BY <1>2, <1>3, <1>4, <1>5, <2>2, NameAssumption DEF VolunteeringInv, DecidersDiffer, O!Decision, O!Nobody
    <2>3. CASE x # e
      BY <1>4, <1>5, <2>1, <2>3 DEF VolunteeringInv, VolunteeringTyped, O!HoursDecidedOnce
    <2> QED
      BY <2>2, <2>3
  <1>10. O!TransitionsToldOnce'
    <2>1. \A k \in ({"OpportunityPublished"} \X OpportunityId) \cup ({"ShiftCancelled"} \X ShiftId) : events'[k] = events[k]
      BY <1>2 DEF VolunteeringInv, VolunteeringTyped, O!EventKey
    <2> QED
      BY <1>2, <2>1 DEF VolunteeringInv, O!TransitionsToldOnce
  <1> QED
    BY <1>6, <1>7, <1>8, <1>9, <1>10 DEF VolunteeringInv

LEMMA HoursDecided ==
  ASSUME VolunteeringInv, NEW w \in Worker, NEW d \in O!Decision, O!Decide(w, d)
  PROVE  VolunteeringInv'
  <1>1. PICK e, p : e = command[w].entry /\ p = command[w].by
    OBVIOUS
  <1>2. PICK row : row = [hours[e] EXCEPT !.status = d, !.approver = p]
    OBVIOUS
  <1>3. /\ command[w].op = d /\ hours[e].status = "submitted" /\ hours' = [hours EXCEPT ![e] = row]
        /\ events' = [events EXCEPT ![<<d, e>>] = @ + 1]
        /\ command' = [command EXCEPT ![w] = O!Idle] /\ UNCHANGED <<opportunities, shifts>>
    BY <1>1, <1>2 DEF O!Decide, O!StillSubmitted, O!Publish, O!Done
  <1>4. e \in DOMAIN hours /\ e \in EntryId /\ p \in Person /\ p # hours[e].person
    <2>1. command[w] \in Command \cup {O!Idle}
      BY DEF VolunteeringInv, VolunteeringTyped
    <2> QED
      BY <1>1, <1>3, <2>1, CommandFields DEF VolunteeringInv, NamesExist, DecidersDiffer
  <1>5. /\ row \in HourRow /\ row.person = hours[e].person /\ row.opportunity = hours[e].opportunity
        /\ row.shift = hours[e].shift /\ row.status = d /\ row.approver = p
    <2>1. hours[e] \in HourRow
      BY <1>4 DEF VolunteeringInv, VolunteeringTyped
    <2> QED
      BY <1>2, <1>4, <2>1 DEF HourRow
  <1>6. /\ DOMAIN hours' = DOMAIN hours /\ hours'[e] = row
        /\ \A x \in DOMAIN hours \ {e} : hours'[x] = hours[x]
        /\ hours' \in [DOMAIN hours -> HourRow]
    BY <1>3, <1>4, <1>5 DEF VolunteeringInv, VolunteeringTyped
  <1>7. /\ command' \in [Worker -> Command \cup {O!Idle}] /\ command'[w].op = "idle"
        /\ \A v \in Worker \ {w} : command'[v] = command[v]
    BY <1>3 DEF VolunteeringInv, VolunteeringTyped, O!Idle
  <1>8. /\ events' \in [O!EventKey -> Nat] /\ events'[<<d, e>>] = events[<<d, e>>] + 1
        /\ \A x \in EntryId, c \in O!Decision : <<c, x>> # <<d, e>> => events'[<<c, x>>] = events[<<c, x>>]
    BY <1>3, <1>4 DEF VolunteeringInv, VolunteeringTyped, O!EventKey, O!Decision
  <1>9. VolunteeringTyped'
    BY <1>3, <1>6, <1>7, <1>8 DEF VolunteeringInv, VolunteeringTyped
  <1>10. NamesExist'
    <2>1. /\ NamesExist /\ DOMAIN hours = DOMAIN hours'
          /\ \A x \in DOMAIN hours' : /\ hours'[x].opportunity \in DOMAIN opportunities
                                      /\ hours'[x].shift # O!None => hours'[x].shift \in DOMAIN shifts
      BY <1>4, <1>5, <1>6 DEF VolunteeringInv, NamesExist
    <2> QED
      BY ONLY <1>3, <1>7, <2>1 DEF NamesExist, O!To, O!Decision
  <1>11. DecidersDiffer'
    <2>1. \A x \in DOMAIN hours : hours'[x].person = hours[x].person
      BY <1>5, <1>6
    <2>2. \A v \in Worker : command[v].op \in O!Decision => command[v].entry \in DOMAIN hours
      BY DEF VolunteeringInv, NamesExist
    <2>3. \A x \in EntryId \ DOMAIN hours, c \in O!Decision : events'[<<c, x>>] = events[<<c, x>>]
      BY <1>4, <1>8
    <2> QED
      BY <1>6, <1>7, <2>1, <2>2, <2>3 DEF VolunteeringInv, DecidersDiffer, O!Decision
  <1>12. O!HoursDecidedOnce'
    <2>1. SUFFICES ASSUME NEW x \in DOMAIN hours'
                   PROVE  /\ hours'[x].approver # hours'[x].person
                          /\ hours'[x].status = "submitted" <=> hours'[x].approver = O!Nobody
                          /\ \A c \in O!Decision : events'[<<c, x>>] = (IF hours'[x].status = c THEN 1 ELSE 0)
      BY DEF O!HoursDecidedOnce, O!Decision, O!Nobody
    <2>2. CASE x = e
      <3>1. p # O!Nobody /\ d # "submitted"
        BY <1>4, NameAssumption DEF O!Nobody, O!Decision
      <3>2. \A c \in O!Decision : events[<<c, e>>] = 0
        BY <1>3, <1>4 DEF VolunteeringInv, O!HoursDecidedOnce, O!Decision
      <3>3. \A c \in O!Decision : c # d => events'[<<c, e>>] = 0
        BY <1>4, <1>8, <3>2
      <3>4. events'[<<d, e>>] = 1
        BY <1>8, <3>2
      <3> QED
        BY <1>4, <1>5, <1>6, <2>2, <3>1, <3>3, <3>4
    <2>3. CASE x # e
      <3>1. x \in EntryId /\ x \in DOMAIN hours /\ hours'[x] = hours[x]
        BY <1>6, <2>1, <2>3 DEF VolunteeringInv, VolunteeringTyped
      <3>2. \A c \in O!Decision : events'[<<c, x>>] = events[<<c, x>>]
        BY <1>8, <2>3, <3>1
      <3> QED
        BY <3>1, <3>2 DEF VolunteeringInv, O!HoursDecidedOnce
    <2> QED
      BY <2>2, <2>3
  <1>13. O!TransitionsToldOnce'
    <2>1. \A k \in ({"OpportunityPublished"} \X OpportunityId) \cup ({"ShiftCancelled"} \X ShiftId) : events'[k] = events[k]
      BY <1>3 DEF VolunteeringInv, VolunteeringTyped, O!EventKey, O!Decision
    <2> QED
      BY <1>3, <2>1 DEF VolunteeringInv, O!TransitionsToldOnce
  <1> QED
    BY <1>9, <1>10, <1>11, <1>12, <1>13 DEF VolunteeringInv

LEMMA VolunteeringStart == O!Init => VolunteeringInv
  <1> SUFFICES ASSUME O!Init PROVE VolunteeringInv
    OBVIOUS
  <1>1. /\ DOMAIN opportunities = {} /\ DOMAIN shifts = {} /\ DOMAIN hours = {}
        /\ opportunities \in [{} -> OpportunityRow] /\ hours \in [{} -> HourRow]
        /\ shifts \in [{} -> [opportunity : OpportunityId, status : {"scheduled", "cancelled"}]]
    BY DEF O!Init
  <1>2. command \in [Worker -> {O!Idle}] /\ \A w \in Worker : command[w].op = "idle"
    BY DEF O!Init, O!Idle
  <1>3. events \in [O!EventKey -> Nat] /\ \A e \in EntryId, d \in O!Decision : events[<<d, e>>] = 0
    BY DEF O!Init, O!EventKey, O!Decision
  <1>4. VolunteeringTyped
    BY <1>1, <1>2, <1>3 DEF VolunteeringTyped, O!Init
  <1>5. NamesExist /\ DecidersDiffer
    BY <1>1, <1>2, <1>3 DEF NamesExist, DecidersDiffer, O!To, O!Decision
  <1>6. O!HoursDecidedOnce /\ O!TransitionsToldOnce
    BY <1>1 DEF O!HoursDecidedOnce, O!TransitionsToldOnce, O!Init, O!EventKey
  <1> QED
    BY <1>4, <1>5, <1>6 DEF VolunteeringInv

LEMMA VolunteeringStep ==
  ASSUME VolunteeringInv, [O!Next]_(O!vars)
  PROVE  VolunteeringInv'
  <1>1. CASE UNCHANGED O!vars
    <2>1. UNCHANGED <<opportunities, shifts, hours, events, command>>
      BY <1>1 DEF O!vars
    <2> QED
      BY <2>1 DEF VolunteeringInv, VolunteeringTyped, NamesExist, DecidersDiffer,
                  O!HoursDecidedOnce, O!TransitionsToldOnce
  <1>2. ASSUME NEW w \in Worker, O!publishOpportunity(w) \/ O!closeOpportunity(w) \/ O!archiveOpportunity(w)
        PROVE  VolunteeringInv'
    <2>1. {"publish", "close", "archive"} = DOMAIN O!To
      BY DEF O!To
    <2> QED
      BY <1>2, <2>1, OpportunityMoved DEF O!publishOpportunity, O!closeOpportunity, O!archiveOpportunity
  <1>3. ASSUME NEW w \in Worker, O!approveHours(w) \/ O!rejectHours(w)
        PROVE  VolunteeringInv'
    BY <1>3, HoursDecided DEF O!approveHours, O!rejectHours, O!Decision
  <1>4. ASSUME NEW w \in Worker, O!Abandon(w)
        PROVE  VolunteeringInv'
    BY <1>4, CommandGiven DEF O!Abandon, O!Done, O!Idle, O!To, O!Decision
  <1>5. ASSUME NEW w \in Worker, \/ (\E s \in ShiftId : O!scheduleShift(w, s)) \/ O!cancelShift(w)
        PROVE  VolunteeringInv'
    BY <1>5, ShiftScheduled, ShiftCancelled
  <1>6. CASE O!Next
    <2>1. \/ \E p \in Person, o \in OpportunityId, scope \in Place : O!createOpportunity(p, o, scope)
          \/ \E p \in Person, e \in EntryId, o \in DOMAIN opportunities, s \in DOMAIN shifts \cup {O!None}, span \in Span :
               O!submitHours(p, e, o, s, span)
          \/ \E w \in Worker, p \in Person :
               \/ O!ShiftRequest(w, p) \/ O!HourRequest(w, p)
               \/ \E o \in DOMAIN opportunities : O!OpportunityRequest(w, p, o)
          \/ \E w \in Worker :
               \/ O!publishOpportunity(w) \/ O!closeOpportunity(w) \/ O!archiveOpportunity(w)
               \/ (\E s \in ShiftId : O!scheduleShift(w, s)) \/ O!cancelShift(w)
               \/ O!approveHours(w) \/ O!rejectHours(w) \/ O!Abandon(w)
      BY <1>6 DEF O!Next
    <2> QED
      BY <1>2, <1>3, <1>4, <1>5, <2>1, OpportunityCreated, HoursSubmitted, CommandRead
  <1> QED
    BY <1>1, <1>6

LEMMA VolunteeringInvariant == Spec => []VolunteeringInv
  BY PartsOfBehaviour, VolunteeringStart, VolunteeringStep, PTL DEF O!Spec

LEMMA VolunteeringTypeOK ==
  ASSUME VolunteeringInv
  PROVE  O!TypeOK
  <1>1. \E ids \in SUBSET OpportunityId : opportunities \in [ids -> OpportunityRow]
    BY DEF VolunteeringInv, VolunteeringTyped
  <1>2. /\ DOMAIN shifts \in SUBSET ShiftId
        /\ shifts \in [DOMAIN shifts -> [opportunity : DOMAIN opportunities, status : {"scheduled", "cancelled"}]]
    BY DEF VolunteeringInv, VolunteeringTyped, NamesExist
  <1>3. /\ DOMAIN hours \in SUBSET EntryId
        /\ hours \in [DOMAIN hours ->
                        [person : Person, opportunity : DOMAIN opportunities, shift : DOMAIN shifts \cup {O!None},
                         durationMinutes : 1..O!MAX_DURATION_MINUTES,
                         status : {"submitted"} \cup O!Decision, approver : Person \cup {O!Nobody}]]
    BY DEF VolunteeringInv, VolunteeringTyped, NamesExist, HourRow
  <1>4. events \in [O!EventKey -> Nat]
    BY DEF VolunteeringInv, VolunteeringTyped
  <1>5. \A w \in Worker : command[w].op \in {"idle", "schedule", "cancel"} \cup DOMAIN O!To \cup O!Decision
    BY CommandFields DEF VolunteeringInv, VolunteeringTyped
  <1> QED
    BY <1>1, <1>2, <1>3, <1>4, <1>5 DEF O!TypeOK, OpportunityRow

\* Hours are decided once and by somebody else, and each decision, publication
\* and cancellation is told once: for any volunteers, ids and overlapping
\* requests.
THEOREM VolunteeringDecided == Spec => []VolunteeringAgrees
  <1>1. VolunteeringInv => VolunteeringAgrees
    BY DEF VolunteeringInv, VolunteeringAgrees
  <1> QED
    BY <1>1, VolunteeringInvariant, PTL

-----------------------------------------------------------------------------
(* Course authoring: approvals of captions, and which are asked for. *)

VideoRow == [encode : A!EncodeStatus, caption : A!CaptionStatus]
AuthoringCall ==
    [op : {"upload", "captions", "approve"}, module : ModuleId]
    \cup [op : {"webhook"}, module : ModuleId, state : {"processing", "ready", "error"}]
    \cup [op : {"publish"}]

\* TypeOK with its witnesses, and with what a request holds.
CoursesTyped ==
    /\ course \in {"none", "draft", "published"}
    /\ DOMAIN modules \subseteq ModuleId /\ modules \in [DOMAIN modules -> SUBSET DOMAIN modules]
    /\ DOMAIN videos \subseteq DOMAIN modules /\ videos \in [DOMAIN videos -> VideoRow]
    /\ completed \in [ModuleId -> Nat] /\ approvals \in [ModuleId -> Nat]
    /\ request \in [Worker -> AuthoringCall \cup {A!Idle}]
    /\ abandoned \subseteq DOMAIN modules

\* A request is about what it has found, and nothing is deleted.
FoundExist ==
    \A w \in Worker :
        /\ request[w].op = "upload" => request[w].module \in DOMAIN modules
        /\ request[w].op \in {"webhook", "captions", "approve"} => request[w].module \in DOMAIN videos

\* A module without a video has no events about one.
NoEventsBefore == \A m \in ModuleId \ DOMAIN videos : completed[m] = 0 /\ approvals[m] = 0

CoursesInv ==
    CoursesTyped /\ FoundExist /\ NoEventsBefore /\ A!ApprovalsStand /\ A!CaptionsRequested

LEMMA AuthoringFields ==
  ASSUME NEW c \in AuthoringCall \cup {A!Idle}
  PROVE  /\ c.op \in {"upload", "captions", "approve", "webhook"} => c.module \in ModuleId
         /\ c.op = "webhook" => c.state \in {"processing", "ready", "error"}
         /\ c.op \in {"idle", "upload", "webhook", "captions", "approve", "publish"}
  BY DEF AuthoringCall, A!Idle

\* A request that reads, ends or is abandoned: the tables stay.
LEMMA AuthoringGiven ==
  ASSUME CoursesInv, NEW w \in Worker, NEW c \in AuthoringCall \cup {A!Idle},
         request' = [request EXCEPT ![w] = c], UNCHANGED <<course, modules, videos, completed, approvals>>,
         abandoned \subseteq abandoned', abandoned' \subseteq DOMAIN modules,
         c.op = "upload" => c.module \in DOMAIN modules,
         c.op \in {"webhook", "captions", "approve"} => c.module \in DOMAIN videos,
         request[w].op = "captions" => request[w].module \in abandoned'
  PROVE  CoursesInv'
  <1>1. /\ request' \in [Worker -> AuthoringCall \cup {A!Idle}] /\ request'[w] = c
        /\ \A v \in Worker \ {w} : request'[v] = request[v]
    BY DEF CoursesInv, CoursesTyped
  <1>2. CoursesTyped'
    BY <1>1 DEF CoursesInv, CoursesTyped
  <1>3. FoundExist' /\ NoEventsBefore'
    BY <1>1 DEF CoursesInv, FoundExist, NoEventsBefore
  <1>5. A!ApprovalsStand'
    BY DEF CoursesInv, A!ApprovalsStand
  <1>6. A!CaptionsRequested'
    BY <1>1 DEF CoursesInv, A!CaptionsRequested
  <1> QED
    BY <1>2, <1>3, <1>5, <1>6 DEF CoursesInv

LEMMA AuthoringAsked ==
  ASSUME CoursesInv, NEW p \in Author, A!AuthoringRequest(p)
  PROVE  CoursesInv'
  <1>1. ASSUME A!createCourse(p)
        PROVE  CoursesInv'
    <2>1. course = "none" /\ course' = "draft" /\ UNCHANGED <<modules, videos, completed, approvals, request, abandoned>>
      BY <1>1 DEF A!createCourse
    <2> QED
      BY <2>1 DEF CoursesInv, CoursesTyped, FoundExist, NoEventsBefore, A!ApprovalsStand, A!CaptionsRequested
  <1>2. ASSUME NEW m \in ModuleId, NEW prerequisites \in SUBSET DOMAIN modules, A!addModule(p, m, prerequisites)
        PROVE  CoursesInv'
    <2>1. /\ m \notin DOMAIN modules /\ UNCHANGED <<course, videos, completed, approvals, request, abandoned>>
          /\ modules' = [k \in DOMAIN modules \cup {m} |-> IF k = m THEN prerequisites ELSE modules[k]]
      BY <1>2 DEF A!addModule, A!With
    <2>2. DOMAIN modules' = DOMAIN modules \cup {m} /\ modules' \in [DOMAIN modules \cup {m} -> SUBSET (DOMAIN modules \cup {m})]
      BY <2>1 DEF CoursesInv, CoursesTyped
    <2>4. UNCHANGED <<course, videos, completed, approvals, request, abandoned>>
      BY <2>1
    <2>5. CoursesTyped'
      BY <2>2, <2>4 DEF CoursesInv, CoursesTyped
    <2>6. FoundExist' /\ NoEventsBefore' /\ A!CaptionsRequested' /\ A!ApprovalsStand'
      BY <2>2, <2>4 DEF CoursesInv, FoundExist, NoEventsBefore, A!CaptionsRequested, A!ApprovalsStand
    <2> QED
      BY <2>5, <2>6 DEF CoursesInv
  <1>3. ASSUME NEW w \in Worker, NEW c, A!Read(w, c), c \in AuthoringCall,
               c.op = "upload" => c.module \in DOMAIN modules,
               c.op \in {"webhook", "captions", "approve"} => c.module \in DOMAIN videos
        PROVE  CoursesInv'
    <2>1. /\ request[w].op = "idle" /\ request' = [request EXCEPT ![w] = c]
          /\ UNCHANGED <<course, modules, videos, completed, approvals>> /\ UNCHANGED abandoned
      BY <1>3 DEF A!Read, A!Goto, A!Idle
    <2>2. abandoned \subseteq DOMAIN modules
      BY DEF CoursesInv, CoursesTyped
    <2> QED
      BY <1>3, <2>1, <2>2, AuthoringGiven
  <1>4. ASSUME NEW w \in Worker, A!ReadToPublish(w, p)
        PROVE  CoursesInv'
    BY <1>3, <1>4 DEF A!ReadToPublish, AuthoringCall
  <1>5. ASSUME NEW w \in Worker, NEW m \in DOMAIN modules, A!ReadToUpload(w, p, m)
        PROVE  CoursesInv'
    <2>1. [op |-> "upload", module |-> m] \in AuthoringCall
      BY DEF AuthoringCall, CoursesInv, CoursesTyped
    <2> QED
      BY <1>3, <1>5, <2>1 DEF A!ReadToUpload
  <1>6. ASSUME NEW w \in Worker, NEW m \in DOMAIN videos, A!ReadToApprove(w, p, m)
        PROVE  CoursesInv'
    <2>1. [op |-> "approve", module |-> m] \in AuthoringCall
      BY DEF AuthoringCall, CoursesInv, CoursesTyped
    <2> QED
      BY <1>3, <1>6, <2>1 DEF A!ReadToApprove
  <1> QED
    BY <1>1, <1>2, <1>4, <1>5, <1>6 DEF A!AuthoringRequest

LEMMA UploadInitiated ==
  ASSUME CoursesInv, NEW w \in Worker, A!initiateVideoUpload(w)
  PROVE  CoursesInv'
  <1>1. PICK m : m = request[w].module
    OBVIOUS
  <1>2. PICK row : row = [encode |-> "uploading", caption |-> "pending"]
    OBVIOUS
  <1>3. /\ request[w].op = "upload" /\ m \notin DOMAIN videos
        /\ videos' = [k \in DOMAIN videos \cup {m} |-> IF k = m THEN row ELSE videos[k]]
        /\ request' = [request EXCEPT ![w] = A!Idle] /\ UNCHANGED <<course, modules, completed, approvals, abandoned>>
    BY <1>1, <1>2 DEF A!initiateVideoUpload, A!With, A!Goto
  <1>4. m \in DOMAIN modules /\ m \in ModuleId
    BY <1>1, <1>3 DEF CoursesInv, CoursesTyped, FoundExist
  <1>5. row \in VideoRow /\ row.caption = "pending"
    BY <1>2 DEF VideoRow, A!EncodeStatus, A!CaptionStatus
  <1>6. /\ DOMAIN videos' = DOMAIN videos \cup {m} /\ videos'[m].caption = "pending"
        /\ \A k \in DOMAIN videos : videos'[k] = videos[k]
        /\ videos' \in [DOMAIN videos \cup {m} -> VideoRow]
    BY <1>3, <1>5 DEF CoursesInv, CoursesTyped
  <1>7. /\ request' \in [Worker -> AuthoringCall \cup {A!Idle}] /\ request'[w].op = "idle"
        /\ \A v \in Worker \ {w} : request'[v] = request[v]
    BY <1>3 DEF CoursesInv, CoursesTyped, A!Idle
  <1>8. CoursesTyped' /\ NoEventsBefore'
    BY <1>3, <1>4, <1>6, <1>7 DEF CoursesInv, CoursesTyped, NoEventsBefore
  <1>9. FoundExist'
    BY <1>3, <1>6, <1>7 DEF CoursesInv, FoundExist
  <1>10. completed[m] = 0 /\ approvals[m] = 0
    BY <1>3, <1>4 DEF CoursesInv, NoEventsBefore
  <1>11. A!ApprovalsStand'
    BY <1>3, <1>6, <1>10 DEF CoursesInv, A!ApprovalsStand
  <1>12. A!CaptionsRequested'
    BY <1>3, <1>6, <1>7, <1>10 DEF CoursesInv, CoursesTyped, A!CaptionsRequested
  <1> QED
    BY <1>8, <1>9, <1>11, <1>12 DEF CoursesInv

\* An update of the row of a video that a request found, when an approval
\* and its event belong together.
LEMMA VideoUpdated ==
  ASSUME CoursesInv, NEW w \in Worker, NEW m \in DOMAIN videos, NEW row \in VideoRow,
         NEW c \in AuthoringCall \cup {A!Idle},
         videos' = [videos EXCEPT ![m] = row], request' = [request EXCEPT ![w] = c],
         c.op \in {"idle", "captions"}, c.op = "captions" => c.module = m,
         UNCHANGED <<course, modules, abandoned>>,
         completed' \in [ModuleId -> Nat], approvals' \in [ModuleId -> Nat],
         \A k \in ModuleId \ {m} : completed'[k] = completed[k] /\ approvals'[k] = approvals[k],
         approvals'[m] = (IF row.caption = "approved" THEN 1 ELSE 0),
         row.caption = "pending" => /\ videos[m].caption = "pending" /\ request[w].op # "captions"
                                    /\ completed'[m] = completed[m] \/ c.op = "captions",
         request[w].op = "captions" => request[w].module = m
  PROVE  CoursesInv'
  <1>1. /\ DOMAIN videos' = DOMAIN videos /\ videos'[m] = row
        /\ \A k \in DOMAIN videos \ {m} : videos'[k] = videos[k]
        /\ videos' \in [DOMAIN videos -> VideoRow]
    BY DEF CoursesInv, CoursesTyped
  <1>2. /\ request' \in [Worker -> AuthoringCall \cup {A!Idle}] /\ request'[w] = c
        /\ \A v \in Worker \ {w} : request'[v] = request[v]
    BY DEF CoursesInv, CoursesTyped
  <1>3. CoursesTyped'
    BY <1>1, <1>2 DEF CoursesInv, CoursesTyped
  <1>4. FoundExist' /\ NoEventsBefore'
    BY <1>1, <1>2 DEF CoursesInv, FoundExist, NoEventsBefore
  <1>6. A!ApprovalsStand'
    BY <1>1 DEF CoursesInv, CoursesTyped, A!ApprovalsStand
  <1>7. A!CaptionsRequested'
    <2>1. SUFFICES ASSUME NEW k \in DOMAIN videos, completed'[k] > 0, videos'[k].caption = "pending", k \notin abandoned
                   PROVE  \E v \in Worker : request'[v].op = "captions" /\ request'[v].module = k
      BY <1>1 DEF A!CaptionsRequested
    <2>2. CASE k = m /\ c.op = "captions"
      BY <1>2, <2>2
    <2>3. CASE ~(k = m /\ c.op = "captions")
      <3>1. completed[k] > 0 /\ videos[k].caption = "pending"
        BY <1>1, <2>1, <2>3 DEF CoursesInv, CoursesTyped
      <3>2. PICK v \in Worker : request[v].op = "captions" /\ request[v].module = k
        BY <2>1, <3>1 DEF CoursesInv, A!CaptionsRequested
      <3>3. v # w
        BY <1>1, <2>1, <3>2
      <3> QED
        BY <1>2, <3>2, <3>3
    <2> QED
      BY <2>2, <2>3
  <1> QED
    BY <1>3, <1>4, <1>6, <1>7 DEF CoursesInv

\* The rows that the requests about a video have found.
LEMMA VideoFound ==
  ASSUME CoursesInv, NEW w \in Worker, NEW m, m = request[w].module,
         request[w].op \in {"webhook", "captions", "approve"}
  PROVE  /\ m \in DOMAIN videos /\ m \in ModuleId /\ videos[m] \in VideoRow
         /\ approvals[m] = (IF videos[m].caption = "approved" THEN 1 ELSE 0)
         /\ completed \in [ModuleId -> Nat] /\ approvals \in [ModuleId -> Nat]
  BY DEF CoursesInv, CoursesTyped, FoundExist, A!ApprovalsStand

LEMMA WebhookIngested ==
  ASSUME CoursesInv, NEW w \in Worker, A!ingestVideoWebhook(w)
  PROVE  CoursesInv'
  <1>1. PICK m, state : m = request[w].module /\ state = request[w].state
    OBVIOUS
  <1>2. PICK row : row = [videos[m] EXCEPT !.encode = state]
    OBVIOUS
  <1>3. PICK c : c = IF state = "ready" THEN [op |-> "captions", module |-> m] ELSE A!Idle
    OBVIOUS
  <1>4. /\ request[w].op = "webhook" /\ videos' = [videos EXCEPT ![m] = row]
        /\ request' = [request EXCEPT ![w] = c] /\ UNCHANGED <<course, modules, approvals, abandoned>>
        /\ completed' = IF state = "ready" THEN [completed EXCEPT ![m] = @ + 1] ELSE completed
    BY <1>1, <1>2, <1>3 DEF A!ingestVideoWebhook, A!Goto
  <1>5. /\ m \in DOMAIN videos /\ m \in ModuleId /\ videos[m] \in VideoRow
        /\ approvals[m] = (IF videos[m].caption = "approved" THEN 1 ELSE 0)
        /\ completed \in [ModuleId -> Nat] /\ approvals \in [ModuleId -> Nat]
    BY <1>1, <1>4, VideoFound
  <1>6. state \in {"processing", "ready", "error"}
    BY <1>1, <1>4, AuthoringFields DEF CoursesInv, CoursesTyped
  <1>7. row \in VideoRow /\ row.caption = videos[m].caption
    BY <1>2, <1>5, <1>6 DEF VideoRow, A!EncodeStatus
  <1>8. /\ c \in AuthoringCall \cup {A!Idle} /\ c.op \in {"idle", "captions"}
        /\ c.op = "captions" <=> state = "ready"
        /\ c.op = "captions" => c.module = m
    BY <1>3, <1>5 DEF AuthoringCall, A!Idle
  <1>9. /\ completed' \in [ModuleId -> Nat] /\ \A k \in ModuleId \ {m} : completed'[k] = completed[k]
        /\ completed'[m] = completed[m] \/ state = "ready"
    BY <1>4, <1>5
  <1> QED
    BY <1>4, <1>5, <1>7, <1>8, <1>9, VideoUpdated

LEMMA CaptionsAsked ==
  ASSUME CoursesInv, NEW w \in Worker, A!RequestCaptions(w)
  PROVE  CoursesInv'
  <1>1. PICK m : m = request[w].module
    OBVIOUS
  <1>2. PICK row : row = [videos[m] EXCEPT !.caption = "auto_generated"]
    OBVIOUS
  <1>3. /\ request[w].op = "captions" /\ videos[m].caption = "pending" /\ videos' = [videos EXCEPT ![m] = row]
        /\ request' = [request EXCEPT ![w] = A!Idle] /\ UNCHANGED <<course, modules, completed, approvals, abandoned>>
    BY <1>1, <1>2 DEF A!RequestCaptions, A!StillPending, A!Goto
  <1>4. /\ m \in DOMAIN videos /\ m \in ModuleId /\ videos[m] \in VideoRow
        /\ approvals[m] = (IF videos[m].caption = "approved" THEN 1 ELSE 0)
        /\ completed \in [ModuleId -> Nat] /\ approvals \in [ModuleId -> Nat]
    BY <1>1, <1>3, VideoFound
  <1>5. row \in VideoRow /\ row.caption = "auto_generated"
    BY <1>2, <1>4 DEF VideoRow, A!CaptionStatus
  <1> QED
    BY <1>1, <1>3, <1>4, <1>5, VideoUpdated DEF A!Idle

LEMMA CaptionsApproved ==
  ASSUME CoursesInv, NEW w \in Worker, A!approveCaptions(w)
  PROVE  CoursesInv'
  <1>1. PICK m : m = request[w].module
    OBVIOUS
  <1>2. PICK row : row = [videos[m] EXCEPT !.caption = "approved"]
    OBVIOUS
  <1>3. /\ request[w].op = "approve" /\ videos[m].caption = "auto_generated" /\ videos' = [videos EXCEPT ![m] = row]
        /\ request' = [request EXCEPT ![w] = A!Idle] /\ UNCHANGED <<course, modules, completed, abandoned>>
        /\ approvals' = [approvals EXCEPT ![m] = @ + 1]
    BY <1>1, <1>2 DEF A!approveCaptions, A!APPROVABLE_FROM, A!Goto
  <1>4. /\ m \in DOMAIN videos /\ m \in ModuleId /\ videos[m] \in VideoRow
        /\ approvals[m] = (IF videos[m].caption = "approved" THEN 1 ELSE 0)
        /\ completed \in [ModuleId -> Nat] /\ approvals \in [ModuleId -> Nat]
    BY <1>1, <1>3, VideoFound
  <1>5. row \in VideoRow /\ row.caption = "approved"
    BY <1>2, <1>4 DEF VideoRow, A!CaptionStatus
  <1>6. /\ approvals' \in [ModuleId -> Nat] /\ approvals'[m] = 1
        /\ \A k \in ModuleId \ {m} : approvals'[k] = approvals[k]
    BY <1>3, <1>4
  <1> QED
    BY <1>3, <1>4, <1>5, <1>6, VideoUpdated DEF A!Idle

LEMMA CoursePublished ==
  ASSUME CoursesInv, NEW w \in Worker, A!publishCourse(w)
  PROVE  CoursesInv'
  <1>1. /\ request[w].op = "publish" /\ course' = "published" /\ request' = [request EXCEPT ![w] = A!Idle]
        /\ UNCHANGED <<modules, videos, completed, approvals, abandoned>>
    BY DEF A!publishCourse, A!Goto
  <1>2. /\ request' \in [Worker -> AuthoringCall \cup {A!Idle}] /\ request'[w].op = "idle"
        /\ \A v \in Worker \ {w} : request'[v] = request[v]
    BY <1>1 DEF CoursesInv, CoursesTyped, A!Idle
  <1>3. CoursesTyped' /\ FoundExist' /\ NoEventsBefore'
    BY <1>1, <1>2 DEF CoursesInv, CoursesTyped, FoundExist, NoEventsBefore
  <1>4. A!ApprovalsStand'
    BY <1>1 DEF CoursesInv, A!ApprovalsStand
  <1>5. A!CaptionsRequested'
    BY <1>1, <1>2 DEF CoursesInv, A!CaptionsRequested
  <1> QED
    BY <1>3, <1>4, <1>5 DEF CoursesInv

LEMMA WebhookRead ==
  ASSUME CoursesInv, NEW w \in Worker, NEW m \in DOMAIN videos, NEW state \in {"processing", "ready", "error"},
         A!ReadWebhook(w, m, state)
  PROVE  CoursesInv'
  <1>1. PICK c : c = [op |-> "webhook", module |-> m, state |-> state]
    OBVIOUS
  <1>2. /\ request[w].op = "idle" /\ request' = [request EXCEPT ![w] = c]
        /\ UNCHANGED <<course, modules, videos, completed, approvals>> /\ UNCHANGED abandoned
    BY <1>1 DEF A!ReadWebhook, A!Read, A!Goto, A!Idle
  <1>3. c \in AuthoringCall /\ c.op = "webhook" /\ c.module = m /\ abandoned \subseteq DOMAIN modules
    BY <1>1 DEF AuthoringCall, CoursesInv, CoursesTyped
  <1> QED
    BY <1>2, <1>3, AuthoringGiven

LEMMA AuthoringAbandoned ==
  ASSUME CoursesInv, NEW w \in Worker, A!Abandon(w)
  PROVE  CoursesInv'
  <1>1. /\ request' = [request EXCEPT ![w] = A!Idle] /\ UNCHANGED <<course, modules, videos, completed, approvals>>
        /\ abandoned' = IF request[w].op = "captions" THEN abandoned \cup {request[w].module} ELSE abandoned
    BY DEF A!Abandon, A!Goto
  <1>2. /\ abandoned \subseteq abandoned' /\ abandoned' \subseteq DOMAIN modules
        /\ request[w].op = "captions" => request[w].module \in abandoned'
    BY <1>1 DEF CoursesInv, CoursesTyped, FoundExist
  <1> QED
    BY <1>1, <1>2, AuthoringGiven DEF A!Idle

LEMMA CoursesStart == A!Init => CoursesInv
  <1> SUFFICES ASSUME A!Init PROVE CoursesInv
    OBVIOUS
  <1>1. /\ DOMAIN modules = {} /\ DOMAIN videos = {} /\ modules \in [{} -> SUBSET {}] /\ videos \in [{} -> VideoRow]
        /\ course = "none" /\ abandoned = {}
    BY DEF A!Init
  <1>2. request \in [Worker -> {A!Idle}] /\ \A w \in Worker : request[w].op = "idle"
    BY DEF A!Init, A!Idle
  <1>3. completed = [m \in ModuleId |-> 0] /\ approvals = [m \in ModuleId |-> 0]
    BY DEF A!Init
  <1>4. CoursesTyped /\ NoEventsBefore
    BY <1>1, <1>2, <1>3 DEF CoursesTyped, NoEventsBefore
  <1>5. FoundExist /\ A!ApprovalsStand /\ A!CaptionsRequested
    BY <1>1, <1>2 DEF FoundExist, A!ApprovalsStand, A!CaptionsRequested
  <1> QED
    BY <1>4, <1>5 DEF CoursesInv

LEMMA CoursesStep ==
  ASSUME CoursesInv, [A!Next]_(A!vars)
  PROVE  CoursesInv'
  <1>1. CASE UNCHANGED A!vars
    <2>1. UNCHANGED <<course, modules, videos, completed, approvals, request, abandoned>>
      BY <1>1 DEF A!vars
    <2> QED
      BY <2>1 DEF CoursesInv, CoursesTyped, FoundExist, NoEventsBefore, A!ApprovalsStand, A!CaptionsRequested
  <1>2. CASE A!Next
    BY <1>2, AuthoringAsked, WebhookRead, UploadInitiated, WebhookIngested, CaptionsAsked, CaptionsApproved,
       CoursePublished, AuthoringAbandoned DEF A!Next
  <1> QED
    BY <1>1, <1>2

LEMMA CoursesInvariant == Spec => []CoursesInv
  BY PartsOfBehaviour, CoursesStart, CoursesStep, PTL DEF A!Spec

LEMMA CoursesTypeOK ==
  ASSUME CoursesInv
  PROVE  A!TypeOK
  <1>1. DOMAIN modules \in SUBSET ModuleId /\ modules \in [DOMAIN modules -> SUBSET DOMAIN modules]
    BY DEF CoursesInv, CoursesTyped
  <1>2. \E ids \in SUBSET DOMAIN modules : videos \in [ids -> [encode : A!EncodeStatus, caption : A!CaptionStatus]]
    BY DEF CoursesInv, CoursesTyped, VideoRow
  <1>3. \A w \in Worker : request[w].op \in {"idle", "upload", "webhook", "captions", "approve", "publish"}
    BY AuthoringFields DEF CoursesInv, CoursesTyped
  <1> QED
    BY <1>1, <1>2, <1>3 DEF A!TypeOK, CoursesInv, CoursesTyped

\* The approval of captions is announced once and never taken back, and an
\* encoded video has captions, a request for them under way, or one that was
\* lost: for any modules, repeated and reordered webhooks, and overlapping
\* requests.
THEOREM CoursesCaptioned == Spec => []CoursesAgree
  <1>1. CoursesInv => CoursesAgree
    BY DEF CoursesInv, CoursesAgree
  <1> QED
    BY <1>1, CoursesInvariant, PTL

-----------------------------------------------------------------------------
(* Community: who leads, joins and mentors, and what the feed tells. *)

\* TypeOK with its witnesses.
CommunityTyped ==
    /\ DOMAIN teams \subseteq TeamId /\ teams \in [DOMAIN teams -> [name : Name, by : Peer]]
    /\ DOMAIN memberships \subseteq MembershipId
    /\ memberships \in [DOMAIN memberships -> [team : TeamId, person : Peer, role : {"lead", "member"}]]
    /\ DOMAIN mentorships \subseteq MentorshipId
    /\ mentorships \in [DOMAIN mentorships -> [mentor : Peer, mentee : Peer, status : {"requested", "active"}]]
    /\ consumed \subseteq DOMAIN Noted /\ call \in [Worker -> C!Call \cup {C!Idle}]

\* A membership and a call name rows that exist: nothing is deleted.
TeamsExist ==
    /\ \A m \in DOMAIN memberships : memberships[m].team \in DOMAIN teams
    /\ \A w \in Worker : /\ call[w].op = "join" => call[w].team \in DOMAIN teams
                         /\ call[w].op = "accept" => call[w].mentorship \in DOMAIN mentorships

\* DecidedOnce over rows instead of sets of rows.
NamesDiffer == \A t, u \in DOMAIN teams : teams[t].name = teams[u].name => t = u
CreatorsLead ==
    \A t \in DOMAIN teams :
        /\ \E m \in DOMAIN memberships :
             memberships[m].team = t /\ memberships[m].role = "lead" /\ memberships[m].person = teams[t].by
        /\ \A m \in DOMAIN memberships :
             memberships[m].team = t /\ memberships[m].role = "lead" => memberships[m].person = teams[t].by
MembersDiffer ==
    \A m, k \in DOMAIN memberships :
        memberships[m].team = memberships[k].team /\ memberships[m].person = memberships[k].person => m = k
MenteesDiffer == \A m, k \in DOMAIN mentorships : mentorships[m].mentee = mentorships[k].mentee => m = k

\* FeedMatchesFacts, entry by entry.
Told(x) ==
    \/ \E m \in DOMAIN memberships : memberships[m].role = "member" /\ x = <<"team_joined", m>>
    \/ \E m \in DOMAIN mentorships : mentorships[m].status = "active" /\ x = <<"mentorship_started", m>>
    \/ \E e \in consumed : x \in C!dispatchInboundEvent(e)
FeedTells == \A x : x \in feed <=> Told(x)

CommunityInv ==
    CommunityTyped /\ TeamsExist /\ NamesDiffer /\ CreatorsLead /\ MembersDiffer /\ MenteesDiffer /\ FeedTells

LEMMA CallFields ==
  ASSUME NEW c \in C!Call \cup {C!Idle}
  PROVE  /\ c.op \in {"create", "join", "request"} => c.by \in Peer
         /\ c.op = "create" => c.name \in Name
         /\ c.op = "join" => c.team \in TeamId
         /\ c.op = "request" => c.mentor \in Peer
         /\ c.op = "accept" => c.mentorship \in MentorshipId
         /\ c.op = "project" => c.event \in DOMAIN Noted
  BY DEF C!Call, C!Idle

LEMMA CallsGiven ==
  ASSUME CommunityInv, NEW w \in Worker, NEW c \in C!Call \cup {C!Idle},
         call' = [call EXCEPT ![w] = c], UNCHANGED <<teams, memberships, mentorships, consumed, feed>>,
         c.op = "join" => c.team \in DOMAIN teams, c.op = "accept" => c.mentorship \in DOMAIN mentorships
  PROVE  CommunityInv'
  <1>1. /\ call' \in [Worker -> C!Call \cup {C!Idle}] /\ call'[w] = c
        /\ \A v \in Worker \ {w} : call'[v] = call[v]
    BY DEF CommunityInv, CommunityTyped
  <1>2. CommunityTyped' /\ TeamsExist'
    BY <1>1 DEF CommunityInv, CommunityTyped, TeamsExist
  <1>3. NamesDiffer' /\ CreatorsLead' /\ MembersDiffer' /\ MenteesDiffer' /\ FeedTells'
    BY DEF CommunityInv, NamesDiffer, CreatorsLead, MembersDiffer, MenteesDiffer, FeedTells, Told
  <1> QED
    BY <1>2, <1>3 DEF CommunityInv

LEMMA CommunityAsked ==
  ASSUME CommunityInv, NEW w \in Worker,
         C!TeamRequest(w) \/ C!MentorshipRequest(w) \/ \E e \in DOMAIN Noted : C!ReadToProject(w, e)
  PROVE  CommunityInv'
  <1>1. ASSUME NEW c \in C!Call, C!Read(w, c), c.op = "join" => c.team \in DOMAIN teams,
               c.op = "accept" => c.mentorship \in DOMAIN mentorships
        PROVE  CommunityInv'
    BY <1>1, CallsGiven DEF C!Read, C!team
  <1>2. ASSUME NEW p \in Peer, NEW name \in Name, C!ReadToCreateTeam(w, p, name)
        PROVE  CommunityInv'
    <2>1. [op |-> "create", by |-> p, name |-> name] \in C!Call
      BY DEF C!Call
    <2> QED
      BY <1>1, <1>2, <2>1 DEF C!ReadToCreateTeam
  <1>3. ASSUME NEW p \in Peer, NEW t \in DOMAIN teams, C!ReadToJoinTeam(w, p, t)
        PROVE  CommunityInv'
    <2>1. [op |-> "join", by |-> p, team |-> t] \in C!Call
      BY DEF C!Call, CommunityInv, CommunityTyped
    <2> QED
      BY <1>1, <1>3, <2>1 DEF C!ReadToJoinTeam
  <1>4. ASSUME NEW p \in Peer, NEW mentor \in Peer, C!ReadToRequestMentorship(w, p, mentor)
        PROVE  CommunityInv'
    <2>1. [op |-> "request", by |-> p, mentor |-> mentor] \in C!Call
      BY DEF C!Call
    <2> QED
      BY <1>1, <1>4, <2>1 DEF C!ReadToRequestMentorship
  <1>5. ASSUME NEW p \in Peer, NEW m \in DOMAIN mentorships, C!ReadToAcceptMentorship(w, p, m)
        PROVE  CommunityInv'
    <2>1. [op |-> "accept", mentorship |-> m] \in C!Call
      BY DEF C!Call, CommunityInv, CommunityTyped
    <2> QED
      BY <1>1, <1>5, <2>1 DEF C!ReadToAcceptMentorship
  <1>6. ASSUME NEW e \in DOMAIN Noted, C!ReadToProject(w, e)
        PROVE  CommunityInv'
    <2>1. [op |-> "project", event |-> e] \in C!Call
      BY DEF C!Call
    <2> QED
      BY <1>1, <1>6, <2>1 DEF C!ReadToProject
  <1> QED
    BY <1>2, <1>3, <1>4, <1>5, <1>6 DEF C!TeamRequest, C!MentorshipRequest

\* The end of a call leaves the other calls as they are.
LEMMA CallDone ==
  ASSUME CommunityInv, NEW w \in Worker, C!Done(w)
  PROVE  /\ call' \in [Worker -> C!Call \cup {C!Idle}] /\ call'[w].op = "idle"
         /\ \A v \in Worker \ {w} : call'[v] = call[v]
  BY DEF CommunityInv, CommunityTyped, C!Done, C!Idle

\* A membership is inserted that nobody had, and a lead's only with the team.
LEMMA MemberInserted ==
  ASSUME CommunityInv, NEW m \in MembershipId \ DOMAIN memberships,
         NEW row \in [team : TeamId, person : Peer, role : {"lead", "member"}],
         memberships' = C!Inserted(memberships, m, row), C!MembershipsOf(row.team, row.person) = {}
  PROVE  /\ DOMAIN memberships' = DOMAIN memberships \cup {m} /\ memberships'[m] = row
         /\ \A k \in DOMAIN memberships : memberships'[k] = memberships[k]
         /\ DOMAIN memberships' \subseteq MembershipId
         /\ memberships' \in [DOMAIN memberships' -> [team : TeamId, person : Peer, role : {"lead", "member"}]]
         /\ MembersDiffer'
  <1>1. /\ DOMAIN memberships' = DOMAIN memberships \cup {m} /\ memberships'[m] = row
        /\ \A k \in DOMAIN memberships : memberships'[k] = memberships[k]
        /\ memberships' \in [DOMAIN memberships \cup {m} -> [team : TeamId, person : Peer, role : {"lead", "member"}]]
    BY DEF C!Inserted, CommunityInv, CommunityTyped
  <1>2. \A k \in DOMAIN memberships : ~(memberships[k].team = row.team /\ memberships[k].person = row.person)
    BY DEF C!MembershipsOf
  <1>3. MembersDiffer'
    BY <1>1, <1>2 DEF CommunityInv, MembersDiffer
  <1> QED
    BY <1>1, <1>3 DEF CommunityInv, CommunityTyped

LEMMA TeamCreated ==
  ASSUME CommunityInv, NEW w \in Worker, NEW t \in TeamId, NEW m \in MembershipId, C!CreateTeam(w, t, m)
  PROVE  CommunityInv'
  <1>1. PICK c : c = call[w]
    OBVIOUS
  <1>2. PICK row, lead : /\ row = [name |-> c.name, by |-> c.by]
                         /\ lead = [team |-> t, person |-> c.by, role |-> "lead"]
    OBVIOUS
  <1>3. /\ c.op = "create" /\ C!Named(c.name) = {} /\ t \notin DOMAIN teams /\ m \notin DOMAIN memberships
        /\ teams' = C!Inserted(teams, t, row) /\ memberships' = C!Inserted(memberships, m, lead)
        /\ C!Done(w) /\ UNCHANGED <<mentorships, consumed, feed>>
    BY <1>1, <1>2 DEF C!CreateTeam
  <1>4. c.name \in Name /\ c.by \in Peer
    BY <1>1, <1>3, CallFields DEF CommunityInv, CommunityTyped
  <1>5. /\ row \in [name : Name, by : Peer] /\ row.name = c.name /\ row.by = c.by
        /\ lead \in [team : TeamId, person : Peer, role : {"lead", "member"}]
        /\ lead.team = t /\ lead.person = c.by /\ lead.role = "lead"
    BY <1>2, <1>4
  <1>6. /\ DOMAIN teams' = DOMAIN teams \cup {t} /\ teams'[t] = row
        /\ \A u \in DOMAIN teams : teams'[u] = teams[u]
        /\ teams' \in [DOMAIN teams' -> [name : Name, by : Peer]] /\ DOMAIN teams' \subseteq TeamId
    <2>1. /\ DOMAIN teams' = DOMAIN teams \cup {t} /\ teams'[t] = row
          /\ \A u \in DOMAIN teams : teams'[u] = teams[u]
          /\ teams' \in [DOMAIN teams \cup {t} -> [name : Name, by : Peer]]
      BY <1>3, <1>5 DEF C!Inserted, CommunityInv, CommunityTyped
    <2> QED
      BY <2>1 DEF CommunityInv, CommunityTyped
  <1>7. \A k \in DOMAIN memberships : memberships[k].team # t
    BY <1>3 DEF CommunityInv, TeamsExist
  <1>8. C!MembershipsOf(lead.team, lead.person) = {}
    BY <1>5, <1>7 DEF C!MembershipsOf
  <1>9. /\ DOMAIN memberships' = DOMAIN memberships \cup {m} /\ memberships'[m] = lead
        /\ \A k \in DOMAIN memberships : memberships'[k] = memberships[k]
        /\ DOMAIN memberships' \subseteq MembershipId
        /\ memberships' \in [DOMAIN memberships' -> [team : TeamId, person : Peer, role : {"lead", "member"}]]
        /\ MembersDiffer'
    BY <1>3, <1>5, <1>8, MemberInserted
  <1>10. /\ call' \in [Worker -> C!Call \cup {C!Idle}] /\ call'[w].op = "idle"
         /\ \A v \in Worker \ {w} : call'[v] = call[v]
    BY <1>3, CallDone
  <1>11. CommunityTyped'
    BY <1>3, <1>6, <1>9, <1>10 DEF CommunityInv, CommunityTyped
  <1>12. TeamsExist'
    BY <1>3, <1>5, <1>6, <1>9, <1>10 DEF CommunityInv, TeamsExist
  <1>13. NamesDiffer'
    <2>1. \A u \in DOMAIN teams : teams[u].name # row.name
      BY <1>3, <1>5 DEF C!Named
    <2> QED
      BY <1>6, <2>1 DEF CommunityInv, NamesDiffer
  <1>14. CreatorsLead'
    <2>1. SUFFICES ASSUME NEW u \in DOMAIN teams'
                   PROVE  /\ \E k \in DOMAIN memberships' : /\ memberships'[k].team = u /\ memberships'[k].role = "lead"
                                                            /\ memberships'[k].person = teams'[u].by
                          /\ \A k \in DOMAIN memberships' : memberships'[k].team = u /\ memberships'[k].role = "lead"
                                                              => memberships'[k].person = teams'[u].by
      BY DEF CreatorsLead
    <2>2. CASE u = t
      BY <1>5, <1>6, <1>7, <1>9, <2>2
    <2>3. CASE u # t
      BY <1>5, <1>6, <1>9, <2>1, <2>3 DEF CommunityInv, CreatorsLead
    <2> QED
      BY <2>2, <2>3
  <1>15. MenteesDiffer'
    BY <1>3 DEF CommunityInv, MenteesDiffer
  <1>16. FeedTells'
    <2>1. \A x : Told(x)' <=> Told(x)
      BY <1>3, <1>5, <1>9 DEF Told
    <2> QED
      BY <1>3, <2>1 DEF CommunityInv, FeedTells
  <1> QED
    BY <1>9, <1>11, <1>12, <1>13, <1>14, <1>15, <1>16 DEF CommunityInv

LEMMA TeamJoined ==
  ASSUME CommunityInv, NEW w \in Worker, NEW m \in MembershipId, C!JoinTeam(w, m)
  PROVE  CommunityInv'
  <1>1. PICK c : c = call[w]
    OBVIOUS
  <1>2. PICK row : row = [team |-> c.team, person |-> c.by, role |-> "member"]
    OBVIOUS
  <1>3. /\ c.op = "join" /\ C!MembershipsOf(c.team, c.by) = {} /\ m \notin DOMAIN memberships
        /\ memberships' = C!Inserted(memberships, m, row) /\ feed' = feed \cup {<<"team_joined", m>>}
        /\ C!Done(w) /\ UNCHANGED <<teams, mentorships, consumed>>
    BY <1>1, <1>2 DEF C!JoinTeam
  <1>4. c.team \in TeamId /\ c.by \in Peer /\ c.team \in DOMAIN teams
    BY <1>1, <1>3, CallFields DEF CommunityInv, CommunityTyped, TeamsExist
  <1>5. /\ row \in [team : TeamId, person : Peer, role : {"lead", "member"}]
        /\ row.team = c.team /\ row.person = c.by /\ row.role = "member"
    BY <1>2, <1>4
  <1>6. /\ DOMAIN memberships' = DOMAIN memberships \cup {m} /\ memberships'[m] = row
        /\ \A k \in DOMAIN memberships : memberships'[k] = memberships[k]
        /\ DOMAIN memberships' \subseteq MembershipId
        /\ memberships' \in [DOMAIN memberships' -> [team : TeamId, person : Peer, role : {"lead", "member"}]]
        /\ MembersDiffer'
    BY <1>3, <1>5, MemberInserted
  <1>7. /\ call' \in [Worker -> C!Call \cup {C!Idle}] /\ call'[w].op = "idle"
        /\ \A v \in Worker \ {w} : call'[v] = call[v]
    BY <1>3, CallDone
  <1>8. CommunityTyped' /\ TeamsExist'
    BY <1>3, <1>4, <1>5, <1>6, <1>7 DEF CommunityInv, CommunityTyped, TeamsExist
  <1>9. NamesDiffer' /\ MenteesDiffer'
    BY <1>3 DEF CommunityInv, NamesDiffer, MenteesDiffer
  <1>10. CreatorsLead'
    BY <1>3, <1>5, <1>6 DEF CommunityInv, CreatorsLead
  <1>11. FeedTells'
    <2>1. \A x : Told(x)' <=> Told(x) \/ x = <<"team_joined", m>>
      BY <1>3, <1>5, <1>6 DEF Told
    <2> QED
      BY <1>3, <2>1 DEF CommunityInv, FeedTells
  <1> QED
    BY <1>6, <1>8, <1>9, <1>10, <1>11 DEF CommunityInv

LEMMA MentorshipRequested ==
  ASSUME CommunityInv, NEW w \in Worker, NEW m \in MentorshipId, C!RequestMentorship(w, m)
  PROVE  CommunityInv'
  <1>1. PICK c : c = call[w]
    OBVIOUS
  <1>2. PICK row : row = [mentor |-> c.mentor, mentee |-> c.by, status |-> "requested"]
    OBVIOUS
  <1>3. /\ c.op = "request" /\ C!Conflicts(c.by) = {} /\ m \in MentorshipId \ DOMAIN mentorships
        /\ mentorships' = C!Inserted(mentorships, m, row)
        /\ C!Done(w) /\ UNCHANGED <<teams, memberships, consumed, feed>>
    BY <1>1, <1>2 DEF C!RequestMentorship, C!team
  <1>4. c.mentor \in Peer /\ c.by \in Peer
    BY <1>1, <1>3, CallFields DEF CommunityInv, CommunityTyped
  <1>5. /\ row \in [mentor : Peer, mentee : Peer, status : {"requested", "active"}]
        /\ row.mentee = c.by /\ row.status = "requested"
    BY <1>2, <1>4
  <1>6. /\ DOMAIN mentorships' = DOMAIN mentorships \cup {m} /\ mentorships'[m] = row
        /\ \A k \in DOMAIN mentorships : mentorships'[k] = mentorships[k]
        /\ mentorships' \in [DOMAIN mentorships \cup {m} -> [mentor : Peer, mentee : Peer, status : {"requested", "active"}]]
    BY <1>3, <1>5 DEF C!Inserted, CommunityInv, CommunityTyped
  <1>7. /\ call' \in [Worker -> C!Call \cup {C!Idle}] /\ call'[w].op = "idle"
        /\ \A v \in Worker \ {w} : call'[v] = call[v]
    BY <1>3, CallDone
  <1>8. CommunityTyped' /\ TeamsExist'
    BY <1>3, <1>6, <1>7 DEF CommunityInv, CommunityTyped, TeamsExist
  <1>9. NamesDiffer' /\ MembersDiffer' /\ CreatorsLead'
    BY <1>3 DEF CommunityInv, NamesDiffer, MembersDiffer, CreatorsLead
  <1>10. MenteesDiffer'
    <2>1. \A k \in DOMAIN mentorships : mentorships[k].mentee # row.mentee
      BY <1>3, <1>5 DEF C!Conflicts, C!OpenFor
    <2> QED
      BY <1>6, <2>1 DEF CommunityInv, MenteesDiffer
  <1>11. FeedTells'
    <2>1. \A x : Told(x)' <=> Told(x)
      BY <1>3, <1>5, <1>6 DEF Told
    <2> QED
      BY <1>3, <2>1 DEF CommunityInv, FeedTells
  <1> QED
    BY <1>8, <1>9, <1>10, <1>11 DEF CommunityInv

LEMMA MentorshipAccepted ==
  ASSUME CommunityInv, NEW w \in Worker, C!AcceptMentorship(w)
  PROVE  CommunityInv'
  <1>1. PICK m : m = call[w].mentorship
    OBVIOUS
  <1>2. PICK row : row = [mentorships[m] EXCEPT !.status = "active"]
    OBVIOUS
  <1>3. /\ call[w].op = "accept" /\ mentorships' = [mentorships EXCEPT ![m] = row]
        /\ feed' = feed \cup {<<"mentorship_started", m>>}
        /\ C!Done(w) /\ UNCHANGED <<teams, memberships, consumed>>
    BY <1>1, <1>2 DEF C!AcceptMentorship, C!team
  <1>4. m \in DOMAIN mentorships
    BY <1>1, <1>3 DEF CommunityInv, TeamsExist
  <1>5. /\ row \in [mentor : Peer, mentee : Peer, status : {"requested", "active"}]
        /\ row.mentee = mentorships[m].mentee /\ row.status = "active"
    BY <1>2, <1>4 DEF CommunityInv, CommunityTyped
  <1>6. /\ DOMAIN mentorships' = DOMAIN mentorships /\ mentorships'[m] = row
        /\ \A k \in DOMAIN mentorships \ {m} : mentorships'[k] = mentorships[k]
        /\ mentorships' \in [DOMAIN mentorships -> [mentor : Peer, mentee : Peer, status : {"requested", "active"}]]
    BY <1>3, <1>4, <1>5 DEF CommunityInv, CommunityTyped
  <1>7. /\ call' \in [Worker -> C!Call \cup {C!Idle}] /\ call'[w].op = "idle"
        /\ \A v \in Worker \ {w} : call'[v] = call[v]
    BY <1>3, CallDone
  <1>8. CommunityTyped' /\ TeamsExist'
    BY <1>3, <1>6, <1>7 DEF CommunityInv, CommunityTyped, TeamsExist
  <1>9. NamesDiffer' /\ MembersDiffer' /\ CreatorsLead'
    BY <1>3 DEF CommunityInv, NamesDiffer, MembersDiffer, CreatorsLead
  <1>10. MenteesDiffer'
    <2>1. \A k \in DOMAIN mentorships : mentorships'[k].mentee = mentorships[k].mentee
      BY <1>5, <1>6
    <2> QED
      BY <1>6, <2>1 DEF CommunityInv, MenteesDiffer
  <1>11. FeedTells'
    <2>1. \A x : Told(x)' <=> Told(x) \/ x = <<"mentorship_started", m>>
      BY <1>3, <1>4, <1>5, <1>6 DEF Told
    <2> QED
      BY <1>3, <2>1 DEF CommunityInv, FeedTells
  <1> QED
    BY <1>8, <1>9, <1>10, <1>11 DEF CommunityInv

LEMMA EventProjected ==
  ASSUME CommunityInv, NEW w \in Worker, C!Project(w)
  PROVE  CommunityInv'
  <1>1. PICK e : e = call[w].event
    OBVIOUS
  <1>2. PICK told : told = C!dispatchInboundEvent(e)
    OBVIOUS
  <1>3. /\ call[w].op = "project" /\ consumed' = consumed \cup {e} /\ feed' = feed \cup told
        /\ C!Done(w) /\ UNCHANGED <<teams, memberships, mentorships>>
    BY <1>1, <1>2 DEF C!Project, C!team
  <1>4. e \in DOMAIN Noted
    BY <1>1, <1>3, CallFields DEF CommunityInv, CommunityTyped
  <1>5. /\ call' \in [Worker -> C!Call \cup {C!Idle}] /\ call'[w].op = "idle"
        /\ \A v \in Worker \ {w} : call'[v] = call[v]
    BY <1>3, CallDone
  <1>6. CommunityTyped' /\ TeamsExist'
    BY <1>3, <1>4, <1>5 DEF CommunityInv, CommunityTyped, TeamsExist
  <1>7. NamesDiffer' /\ MembersDiffer' /\ CreatorsLead' /\ MenteesDiffer'
    BY <1>3 DEF CommunityInv, NamesDiffer, MembersDiffer, CreatorsLead, MenteesDiffer
  <1>8. FeedTells'
    <2>1. \A x : Told(x)' <=> Told(x) \/ x \in told
      BY <1>2, <1>3 DEF Told
    <2> QED
      BY <1>3, <2>1 DEF CommunityInv, FeedTells
  <1> QED
    BY <1>6, <1>7, <1>8 DEF CommunityInv

LEMMA CommunityStart == C!Init => CommunityInv
  <1> SUFFICES ASSUME C!Init PROVE CommunityInv
    OBVIOUS
  <1>1. /\ DOMAIN teams = {} /\ DOMAIN memberships = {} /\ DOMAIN mentorships = {}
        /\ teams \in [{} -> [name : Name, by : Peer]] /\ consumed = {} /\ feed = {}
        /\ memberships \in [{} -> [team : TeamId, person : Peer, role : {"lead", "member"}]]
        /\ mentorships \in [{} -> [mentor : Peer, mentee : Peer, status : {"requested", "active"}]]
    BY DEF C!Init
  <1>2. call \in [Worker -> {C!Idle}] /\ \A w \in Worker : call[w].op = "idle"
    BY DEF C!Init, C!Idle
  <1>3. CommunityTyped /\ TeamsExist
    BY <1>1, <1>2 DEF CommunityTyped, TeamsExist
  <1>4. NamesDiffer /\ CreatorsLead /\ MembersDiffer /\ MenteesDiffer /\ FeedTells
    BY <1>1 DEF NamesDiffer, CreatorsLead, MembersDiffer, MenteesDiffer, FeedTells, Told
  <1> QED
    BY <1>3, <1>4 DEF CommunityInv

LEMMA CommunityStep ==
  ASSUME CommunityInv, [C!Next]_(C!vars)
  PROVE  CommunityInv'
  <1>1. CASE UNCHANGED C!vars
    <2>1. UNCHANGED <<teams, memberships, mentorships, consumed, feed, call>>
      BY <1>1 DEF C!vars
    <2> QED
      BY <2>1 DEF CommunityInv, CommunityTyped, TeamsExist, NamesDiffer, CreatorsLead, MembersDiffer, MenteesDiffer,
                  FeedTells, Told
  <1>2. ASSUME NEW w \in Worker, C!Abandon(w)
        PROVE  CommunityInv'
    BY <1>2, CallsGiven DEF C!Abandon, C!Done, C!team, C!Idle
  <1>3. CASE C!Next
    BY <1>2, <1>3, CommunityAsked, TeamCreated, TeamJoined, MentorshipRequested, MentorshipAccepted, EventProjected
    DEF C!Next
  <1> QED
    BY <1>1, <1>3

LEMMA CommunityInvariant == Spec => []CommunityInv
  BY PartsOfBehaviour, CommunityStart, CommunityStep, PTL DEF C!Spec

LEMMA CommunityTypeOK ==
  ASSUME CommunityInv
  PROVE  C!TypeOK
  <1>1. /\ DOMAIN memberships \in SUBSET MembershipId
        /\ memberships \in [DOMAIN memberships -> [team : DOMAIN teams, person : Peer, role : {"lead", "member"}]]
    BY DEF CommunityInv, CommunityTyped, TeamsExist
  <1>2. DOMAIN teams \in SUBSET TeamId /\ DOMAIN mentorships \in SUBSET MentorshipId
    BY DEF CommunityInv, CommunityTyped
  <1> QED
    BY <1>1, <1>2 DEF CommunityInv, CommunityTyped, C!TypeOK

\* A name is one team's, led by its creator alone; a person joins a team once
\* and has one mentor; and the feed tells just what happened: for any persons,
\* events and overlapping requests.
THEOREM CommunityDecided == Spec => []CommunityAgrees
  <1> SUFFICES ASSUME CommunityInv PROVE CommunityAgrees
    BY CommunityInvariant, PTL
  <1>1. ASSUME NEW t \in DOMAIN teams
        PROVE  /\ C!Named(teams[t].name) = {t}
               /\ {memberships[m].person : m \in {k \in DOMAIN memberships :
                     memberships[k].team = t /\ memberships[k].role = "lead"}} = {teams[t].by}
               /\ \A m, k \in DOMAIN memberships : m # k =>
                    <<memberships[m].team, memberships[m].person>> # <<memberships[k].team, memberships[k].person>>
    <2>1. C!Named(teams[t].name) = {t}
      BY DEF CommunityInv, NamesDiffer, C!Named
    <2>2. {memberships[m].person : m \in {k \in DOMAIN memberships :
             memberships[k].team = t /\ memberships[k].role = "lead"}} = {teams[t].by}
      BY DEF CommunityInv, CreatorsLead
    <2>3. \A m, k \in DOMAIN memberships : m # k =>
            <<memberships[m].team, memberships[m].person>> # <<memberships[k].team, memberships[k].person>>
      BY DEF CommunityInv, MembersDiffer
    <2> QED
      BY <2>1, <2>2, <2>3
  <1>2. C!DecidedOnce
    BY <1>1 DEF C!DecidedOnce, CommunityInv, MenteesDiffer
  <1>3. C!FeedMatchesFacts
    BY DEF C!FeedMatchesFacts, CommunityInv, FeedTells, Told
  <1> QED
    BY <1>2, <1>3 DEF CommunityAgrees
-----------------------------------------------------------------------------
(* Gamification: streaks and badges, in whatever order the events come.    *)

\* A streak s is earned by activities in the weeks W.
EarnedBy(s, W) ==
    /\ IsFiniteSet(W) /\ W \subseteq Nat \ {0}
    /\ s.last \in W \cup {0} /\ \A x \in W : x <= s.last
    /\ s.currentLength <= s.longestLength /\ s.longestLength <= Cardinality(W)
    /\ s.freezesUsedTotal + s.freezesAvailable = G!MAX_FREEZES

RewardsTyped ==
    /\ processed \subseteq DOMAIN Earning
    /\ streak \in [Earner -> [G!Activity -> G!StreakState]]
    /\ announced \in [Earner \X Badge -> Nat]
    /\ awards \subseteq Earner \X Badge /\ given \subseteq awards
    /\ tx \in [Worker -> {G!Idle} \cup [op : {"handle"}, event : DOMAIN Earning]]
RewardsInv ==
    /\ RewardsTyped
    /\ \A p \in Earner, a \in G!Activity : EarnedBy(streak[p][a], G!WeeksOf(p, a))
    /\ G!BadgesAreEarned

LEMMA MaxOfTwo ==
  ASSUME NEW m \in Nat, NEW n \in Nat
  PROVE  G!Max({m, n}) \in {m, n} /\ G!Max({m, n}) >= m /\ G!Max({m, n}) >= n
  <1>1. \E x \in {m, n} : \A y \in {m, n} : x >= y
    OBVIOUS
  <1>2. G!Max({m, n}) \in {m, n} /\ \A y \in {m, n} : G!Max({m, n}) >= y
    BY <1>1 DEF G!Max
  <1> QED
    BY <1>2

LEMMA StreakUpdates ==
  ASSUME NEW s \in G!StreakState, NEW x \in Nat
  PROVE  /\ \A c, g \in Nat : [s EXCEPT !.currentLength = c, !.last = x, !.longestLength = g] \in G!StreakState
         /\ \A f \in 0..2, u \in Nat : [s EXCEPT !.freezesAvailable = f, !.freezesUsedTotal = u, !.last = x] \in G!StreakState
         /\ [s EXCEPT !.currentLength = 0, !.last = x] \in G!StreakState
  <1>1. ASSUME NEW c \in Nat, NEW g \in Nat
        PROVE  [s EXCEPT !.currentLength = c, !.last = x, !.longestLength = g] \in G!StreakState
    BY DEF G!StreakState
  <1>2. ASSUME NEW f \in 0..2, NEW u \in Nat
        PROVE  [s EXCEPT !.freezesAvailable = f, !.freezesUsedTotal = u, !.last = x] \in G!StreakState
    BY DEF G!StreakState, G!MAX_FREEZES
  <1>3. [s EXCEPT !.currentLength = 0, !.last = x] \in G!StreakState
    BY DEF G!StreakState
  <1> QED
    BY <1>1, <1>2, <1>3

\* One activity more.  A week after the last one is new, so the longest streak
\* grows no faster than the weeks do; an earlier week changes nothing.
LEMMA StreakGoesOn ==
  ASSUME NEW s \in G!StreakState, NEW W, EarnedBy(s, W), NEW week \in Nat \ {0}
  PROVE  /\ G!applyStreakActivity(s, week) \in G!StreakState
         /\ G!applyStreakActivity(s, week).longestLength >= s.longestLength
         /\ EarnedBy(G!applyStreakActivity(s, week), W \cup {week})
  <1> DEFINE longer == s.currentLength + 1
             longest == G!Max({s.longestLength, longer})
             next == G!applyStreakActivity(s, week)
  <1>1. /\ s.currentLength \in Nat /\ s.longestLength \in Nat /\ s.last \in Nat
        /\ s.freezesAvailable \in 0..2 /\ s.freezesUsedTotal \in Nat
    BY DEF G!StreakState, G!MAX_FREEZES
  <1>2. longest \in {s.longestLength, longer} /\ longest >= s.longestLength /\ longest >= longer
    BY <1>1, MaxOfTwo
  <1>3. /\ IsFiniteSet(W \cup {week}) /\ Cardinality(W) \in Nat
        /\ Cardinality(W \cup {week}) = IF week \in W THEN Cardinality(W) ELSE Cardinality(W) + 1
    BY FS_AddElement, FS_CardinalityType DEF EarnedBy
  <1>4. CASE s.last # 0 /\ week <= s.last
    <2>1. next = s
      BY <1>4 DEF G!applyStreakActivity, G!None
    <2>2. Cardinality(W) <= Cardinality(W \cup {week})
      BY <1>3
    <2> QED
      BY <1>1, <1>3, <1>4, <2>1, <2>2 DEF EarnedBy
  <1>5. CASE ~(s.last # 0 /\ week <= s.last)
    <2>1. week > s.last /\ week \notin W
      BY <1>1, <1>5 DEF EarnedBy
    <2>2. Cardinality(W \cup {week}) = Cardinality(W) + 1 /\ \A x \in W \cup {week} : x <= week
      BY <1>1, <1>3, <2>1 DEF EarnedBy
    <2>3. CASE s.last = 0 \/ week = s.last + 1
      <3>1. next = [s EXCEPT !.currentLength = longer, !.last = week, !.longestLength = longest]
        BY <1>5, <2>3 DEF G!applyStreakActivity, G!None
      <3> HIDE DEF longest, longer
      <3>2. /\ next.currentLength = longer /\ next.last = week /\ next.longestLength = longest
            /\ next.freezesAvailable = s.freezesAvailable /\ next.freezesUsedTotal = s.freezesUsedTotal
        BY <3>1 DEF G!StreakState
      <3>3. next \in G!StreakState
        <4>1. longest \in Nat /\ longer \in Nat /\ week \in Nat
          BY <1>1, <1>2 DEF longer
        <4>2. [s EXCEPT !.currentLength = longer, !.last = week, !.longestLength = longest] \in G!StreakState
          BY <4>1, StreakUpdates
        <4> QED
          BY <3>1, <4>2
      <3> QED
        BY <1>1, <1>2, <1>3, <2>2, <3>2, <3>3 DEF EarnedBy, longer
    <2>4. CASE ~(s.last = 0 \/ week = s.last + 1) /\ s.freezesAvailable > 0
      <3>1. next = [s EXCEPT !.freezesAvailable = @ - 1, !.freezesUsedTotal = @ + 1, !.last = week]
        BY <1>5, <2>4 DEF G!applyStreakActivity, G!None
      <3>2. /\ next.currentLength = s.currentLength /\ next.last = week /\ next.longestLength = s.longestLength
            /\ next.freezesAvailable = s.freezesAvailable - 1 /\ next.freezesUsedTotal = s.freezesUsedTotal + 1
        BY <3>1 DEF G!StreakState
      <3>3. next \in G!StreakState
        <4>1. PICK f \in 0..2, u \in Nat : f = s.freezesAvailable - 1 /\ u = s.freezesUsedTotal + 1
          BY <1>1, <2>4
        <4>2. next = [s EXCEPT !.freezesAvailable = f, !.freezesUsedTotal = u, !.last = week]
          BY <3>1, <4>1
        <4>3. [s EXCEPT !.freezesAvailable = f, !.freezesUsedTotal = u, !.last = week] \in G!StreakState
          BY StreakUpdates
        <4> QED
          BY <4>2, <4>3
      <3>4. next.freezesUsedTotal + next.freezesAvailable = s.freezesUsedTotal + s.freezesAvailable
        BY <1>1, <3>2
      <3> QED
        BY <1>1, <1>3, <2>2, <3>2, <3>3, <3>4 DEF EarnedBy
    <2>5. CASE ~(s.last = 0 \/ week = s.last + 1) /\ ~(s.freezesAvailable > 0)
      <3>1. next = [s EXCEPT !.currentLength = 0, !.last = week]
        BY <1>5, <2>5 DEF G!applyStreakActivity, G!None
      <3>2. /\ next.currentLength = 0 /\ next.last = week /\ next.longestLength = s.longestLength
            /\ next.freezesAvailable = s.freezesAvailable /\ next.freezesUsedTotal = s.freezesUsedTotal
        BY <3>1 DEF G!StreakState
      <3>3. next \in G!StreakState
        <4>1. [s EXCEPT !.currentLength = 0, !.last = week] \in G!StreakState
          BY StreakUpdates
        <4> QED
          BY <3>1, <4>1
      <3> QED
        BY <1>1, <1>3, <2>2, <3>2, <3>3 DEF EarnedBy
    <2> QED
      BY <2>3, <2>4, <2>5
  <1> QED
    BY <1>4, <1>5

LEMMA RewardsStart ==
  ASSUME G!Init
  PROVE  RewardsInv
  <1>1. \A p \in Earner, a \in G!Activity : G!WeeksOf(p, a) = {} /\ streak[p][a] = G!initialStreakState
    BY DEF G!Init, G!WeeksOf
  <1>2. G!initialStreakState \in G!StreakState
    BY DEF G!initialStreakState, G!StreakState, G!None, G!MAX_FREEZES
  <1>3. EarnedBy(G!initialStreakState, {})
    BY FS_EmptySet DEF EarnedBy, G!initialStreakState, G!None, G!MAX_FREEZES
  <1>4. RewardsTyped
    BY <1>2 DEF RewardsTyped, G!Init
  <1>5. G!BadgesAreEarned
    BY DEF G!BadgesAreEarned, G!Init
  <1> QED
    BY <1>1, <1>3, <1>4, <1>5 DEF RewardsInv

\* A badge is announced with the insert of its row, and for no other.
LEMMA BadgesAwarded ==
  ASSUME RewardsInv, NEW new \in SUBSET (Earner \X Badge), G!AwardBadges(new)
  PROVE  /\ announced' \in [Earner \X Badge -> Nat]
         /\ awards' \subseteq Earner \X Badge /\ awards \subseteq awards' /\ new \subseteq awards'
         /\ \A p \in Earner, b \in Badge : announced'[p, b] = IF <<p, b>> \in awards' THEN 1 ELSE 0
  <1>1. /\ announced \in [Earner \X Badge -> Nat]
        /\ \A p \in Earner, b \in Badge : announced[<<p, b>>] = IF <<p, b>> \in awards THEN 1 ELSE 0
    BY DEF RewardsInv, RewardsTyped, G!BadgesAreEarned
  <1>2. announced' = [x \in Earner \X Badge |-> announced[x] + IF x \in new \ awards THEN 1 ELSE 0]
    BY <1>1 DEF G!AwardBadges
  <1>3. \A x \in Earner \X Badge : announced[x] \in Nat /\ announced[x] + (IF x \in new \ awards THEN 1 ELSE 0) \in Nat
    BY <1>1
  <1>4. announced' \in [Earner \X Badge -> Nat]
    BY <1>2, <1>3
  <1>5. ASSUME NEW p \in Earner, NEW b \in Badge
        PROVE  announced'[<<p, b>>] = IF <<p, b>> \in awards' THEN 1 ELSE 0
    <2>1. announced'[<<p, b>>] = announced[<<p, b>>] + IF <<p, b>> \in new \ awards THEN 1 ELSE 0
      BY <1>2
    <2> QED
      BY <1>1, <2>1 DEF G!AwardBadges
  <1>6. awards' \subseteq Earner \X Badge /\ awards \subseteq awards' /\ new \subseteq awards'
    BY DEF G!AwardBadges, RewardsInv, RewardsTyped
  <1> QED
    BY <1>4, <1>5, <1>6

\* What a commit of Handle adds, spelled out.
LEMMA EventHandled ==
  ASSUME RewardsInv, NEW w \in Worker, G!Handle(w)
  PROVE  RewardsInv'
  <1>1. RewardsTyped /\ tx[w] \in [op : {"handle"}, event : DOMAIN Earning]
    <2>1. RewardsTyped /\ tx[w] \in {G!Idle} \cup [op : {"handle"}, event : DOMAIN Earning]
      BY DEF RewardsInv, RewardsTyped
    <2>2. tx[w].op = "handle" /\ G!Idle.op # "handle"
      BY DEF G!Handle, G!Handling, G!Idle
    <2> QED
      BY <2>1, <2>2
  <1>2. PICK e \in DOMAIN Earning : e = tx[w].event
    BY <1>1
  <1>3. PICK p \in Earner, week \in Nat \ {0} : p = Earning[e].person /\ week = Earning[e].week
    BY EarningAssumption
  <1> DEFINE goesOn == [a \in G!Activity |-> IF a \in G!ActivityOf(e)
                                             THEN G!applyStreakActivity(streak[p][a], week)
                                             ELSE streak[p][a]]
             total == balance[p] + (IF G!IsNew(e) THEN G!PointsOf(e) ELSE 0)
             new == {<<p, b>> : b \in {c \in Badge : G!isCriteriaSatisfied(c, e, total, goesOn)}}
  <1>4. /\ processed' = processed \cup {e}
        /\ streak' = [streak EXCEPT ![p] = goesOn]
        /\ G!AwardBadges(new) /\ tx' = [tx EXCEPT ![w] = G!Idle] /\ given' = given
    BY <1>2, <1>3 DEF G!Handle, G!Goto
  <1>5. \A q \in Earner, a \in G!Activity :
          G!WeeksOf(q, a)' = IF q = p /\ a \in G!ActivityOf(e) THEN G!WeeksOf(q, a) \cup {week} ELSE G!WeeksOf(q, a)
    BY <1>3, <1>4 DEF G!WeeksOf, G!ActivityOf
  <1>6. \A a \in G!Activity : streak[p][a] \in G!StreakState /\ EarnedBy(streak[p][a], G!WeeksOf(p, a))
    BY <1>1 DEF RewardsInv, RewardsTyped
  <1>7. \A a \in G!Activity :
          /\ goesOn[a] \in G!StreakState /\ goesOn[a].longestLength >= streak[p][a].longestLength
          /\ EarnedBy(goesOn[a], G!WeeksOf(p, a)')
    <2> SUFFICES ASSUME NEW a \in G!Activity
                 PROVE  /\ goesOn[a] \in G!StreakState /\ goesOn[a].longestLength >= streak[p][a].longestLength
                        /\ EarnedBy(goesOn[a], G!WeeksOf(p, a)')
      OBVIOUS
    <2>1. CASE a \in G!ActivityOf(e)
      BY <1>5, <1>6, <2>1, StreakGoesOn
    <2>2. CASE a \notin G!ActivityOf(e)
      BY <1>5, <1>6, <2>2 DEF G!StreakState
    <2> QED
      BY <2>1, <2>2
  <1> HIDE DEF goesOn, total
  <1>8. new \in SUBSET (Earner \X Badge)
    OBVIOUS
  <1> HIDE DEF new
  <1>9. /\ streak' \in [Earner -> [G!Activity -> G!StreakState]]
        /\ streak'[p] = goesOn /\ \A q \in Earner \ {p} : streak'[q] = streak[q]
    <2>1. goesOn \in [G!Activity -> G!StreakState]
      BY <1>7 DEF goesOn
    <2> QED
      BY <1>1, <1>4, <2>1 DEF RewardsTyped
  <1>10. RewardsTyped'
    BY <1>1, <1>4, <1>8, <1>9, BadgesAwarded DEF RewardsTyped
  <1>11. ASSUME NEW q \in Earner, NEW a \in G!Activity
         PROVE  EarnedBy(streak[q][a], G!WeeksOf(q, a))'
    <2>1. CASE q = p
      BY <1>7, <1>9, <2>1 DEF EarnedBy
    <2>2. CASE q # p
      BY <1>5, <1>9, <2>2 DEF EarnedBy, RewardsInv
    <2> QED
      BY <2>1, <2>2
  <1>12. ASSUME NEW q \in Earner, NEW b \in Badge, <<q, b>> \in awards' \ given', b.type = "streak_length"
         PROVE  streak'[q][b.activity].longestLength >= b.length
    <2>1. b.activity \in G!Activity /\ b.length \in Nat
      BY <1>12, BadgeAssumption DEF G!Activity
    <2>2. /\ streak[q][b.activity].longestLength \in Nat /\ streak'[q][b.activity].longestLength \in Nat
          /\ streak'[q][b.activity].currentLength \in Nat
      BY <1>1, <1>9, <2>1 DEF RewardsTyped, G!StreakState
    <2>3. CASE <<q, b>> \in awards
      <3>1. streak[q][b.activity].longestLength >= b.length
        BY <1>4, <1>12, <2>3 DEF RewardsInv, G!BadgesAreEarned
      <3>2. streak'[q][b.activity].longestLength >= streak[q][b.activity].longestLength
        BY <1>7, <1>9, <2>1, <2>2
      <3> QED
        BY <2>1, <2>2, <3>1, <3>2
    <2>4. CASE <<q, b>> \notin awards
      <3>1. q = p /\ G!isCriteriaSatisfied(b, e, total, goesOn)
        BY <1>4, <1>12, <2>4 DEF new, G!AwardBadges
      <3>2. goesOn[b.activity].currentLength >= b.length
        BY <1>12, <3>1 DEF G!isCriteriaSatisfied, G!Completes
      <3>3. goesOn[b.activity].currentLength <= goesOn[b.activity].longestLength
        BY <1>7, <2>1 DEF EarnedBy
      <3> QED
        BY <1>9, <2>1, <2>2, <3>1, <3>2, <3>3
    <2> QED
      BY <2>3, <2>4
  <1>13. ASSUME NEW q \in Earner, NEW b \in Badge, NEW d \in processed', Earning[d].person = q, G!Completes(d, b)
         PROVE  <<q, b>> \in awards'
    <2>1. CASE d = e
      BY <1>3, <1>4, <1>13, <2>1 DEF new, G!isCriteriaSatisfied, G!AwardBadges
    <2>2. CASE d # e
      <3>1. <<q, b>> \in awards
        BY <1>4, <1>13, <2>2 DEF RewardsInv, G!BadgesAreEarned
      <3> QED
        BY <1>4, <3>1 DEF G!AwardBadges
    <2> QED
      BY <2>1, <2>2
  <1> QED
    BY <1>4, <1>8, <1>10, <1>11, <1>12, <1>13, BadgesAwarded DEF RewardsInv, G!BadgesAreEarned, G!Completes

LEMMA RewardsStep ==
  ASSUME RewardsInv, [G!Next]_(G!vars)
  PROVE  RewardsInv'
  <1> DEFINE Streaks == \A p \in Earner, a \in G!Activity : EarnedBy(streak[p][a], G!WeeksOf(p, a))
  <1>1. RewardsTyped /\ Streaks /\ G!BadgesAreEarned
    BY DEF RewardsInv
  <1>2. UNCHANGED <<processed, streak>> => Streaks'
    BY <1>1 DEF EarnedBy, G!WeeksOf
  <1>3. CASE UNCHANGED <<processed, streak, awards, announced, tx, given>>
    BY <1>1, <1>2, <1>3 DEF RewardsInv, RewardsTyped, G!BadgesAreEarned, G!Completes
  <1>4. CASE UNCHANGED <<processed, streak, awards, announced, given>>
             /\ tx' \in [Worker -> {G!Idle} \cup [op : {"handle"}, event : DOMAIN Earning]]
    BY <1>1, <1>2, <1>4 DEF RewardsInv, RewardsTyped, G!BadgesAreEarned, G!Completes
  <1>5. ASSUME NEW c \in Earner, NEW p \in Earner, NEW b \in Awardable, G!adminAwardBadge(c, p, b)
        PROVE  RewardsInv'
    <2>1. /\ G!AwardBadges({<<p, b>>}) /\ UNCHANGED <<processed, streak, tx>>
          /\ given' = given \cup ({<<p, b>>} \ awards)
      BY <1>5 DEF G!adminAwardBadge
    <2> {<<p, b>>} \in SUBSET (Earner \X Badge)
      BY BadgeAssumption
    <2>2. awards' \ given' = awards \ given /\ awards \subseteq awards'
      BY <2>1 DEF G!AwardBadges
    <2>3. RewardsTyped'
      BY <1>1, <2>1, BadgesAwarded DEF RewardsTyped
    <2>4. G!BadgesAreEarned'
      BY <1>1, <2>1, <2>2, BadgesAwarded DEF G!BadgesAreEarned, G!Completes
    <2> QED
      BY <1>2, <2>1, <2>3, <2>4 DEF RewardsInv
  <1>6. ASSUME NEW w \in Worker, NEW e \in DOMAIN Earning, G!RecordPoints(w, e)
        PROVE  RewardsInv'
    <2>1. [op |-> "handle", event |-> e] \in [op : {"handle"}, event : DOMAIN Earning]
      OBVIOUS
    <2> QED
      BY <1>1, <1>4, <1>6, <2>1 DEF G!RecordPoints, G!Goto, RewardsTyped
  <1>7. ASSUME NEW w \in Worker, G!Rollback(w)
        PROVE  RewardsInv'
    BY <1>1, <1>4, <1>7 DEF G!Rollback, G!Goto, RewardsTyped
  <1>8. CASE UNCHANGED G!vars
    BY <1>3, <1>8 DEF G!vars
  <1>9. CASE G!Next
    BY <1>3, <1>5, <1>6, <1>7, <1>9, EventHandled DEF G!Next, G!AdminRequest, G!adminAdjustPoints
  <1> QED
    BY <1>8, <1>9

LEMMA SameCardinality == \A T : G!Cardinality(T) = Cardinality(T)
  BY DEF G!Cardinality, Cardinality

\* A streak ends in the latest week with an activity and is no longer than the
\* weeks that had one, and a badge is announced once and is earned or given:
\* for any events, in any order, repeated, rolled back and handled together.
THEOREM RewardsAreEarned == Spec => []RewardsEarned
  <1>1. RewardsInv => RewardsEarned
    <2> SUFFICES ASSUME RewardsInv PROVE G!StreakIsEarned
      BY DEF RewardsInv, RewardsEarned
    <2>1. ASSUME NEW p \in Earner, NEW a \in G!Activity
          PROVE  streak[p][a].last = IF G!WeeksOf(p, a) = {} THEN G!None ELSE G!Max(G!WeeksOf(p, a))
      <3> DEFINE s == streak[p][a]
                 W == G!WeeksOf(p, a)
      <3>1. EarnedBy(s, W)
        BY DEF RewardsInv
      <3> HIDE DEF s, W
      <3>2. W = {} => s.last = 0
        BY <3>1 DEF EarnedBy
      <3>3. CASE W # {}
        <4>1. W \subseteq Nat \ {0} /\ s.last \in W \cup {0} /\ \A x \in W : x <= s.last
          BY <3>1 DEF EarnedBy
        <4>2. PICK x \in W : TRUE
          BY <3>3
        <4>3. x \in Nat \ {0} /\ x <= s.last
          BY <4>1, <4>2
        <4>4. s.last \in W
          BY <4>1, <4>3
        <4>5. ASSUME NEW z \in W, \A y \in W : z >= y PROVE z = s.last
          <5>1. z >= s.last /\ z <= s.last /\ z \in Nat /\ s.last \in Nat
            BY <4>1, <4>4, <4>5
          <5> QED
            BY <5>1
        <4>6. \A y \in W : s.last >= y
          BY <4>1, <4>4
        <4> QED
          BY <3>3, <4>4, <4>5, <4>6 DEF G!Max, s, W
      <3> QED
        BY <3>2, <3>3 DEF G!None, s, W
    <2>2. ASSUME NEW p \in Earner, NEW a \in G!Activity
          PROVE  /\ streak[p][a].last = IF G!WeeksOf(p, a) = {} THEN G!None ELSE G!Max(G!WeeksOf(p, a))
                 /\ streak[p][a].currentLength <= streak[p][a].longestLength
                 /\ streak[p][a].longestLength <= Cardinality(G!WeeksOf(p, a))
                 /\ streak[p][a].freezesUsedTotal + streak[p][a].freezesAvailable = G!MAX_FREEZES
      BY <2>1 DEF RewardsInv, EarnedBy
    <2> QED
      BY <2>2, SameCardinality DEF G!StreakIsEarned
  <1>2. RewardsInv /\ [G!Next]_(G!vars) => RewardsInv'
    BY RewardsStep
  <1>3. G!Init => RewardsInv
    BY RewardsStart
  <1> QED
    BY <1>1, <1>2, <1>3, PartsOfBehaviour, PTL DEF G!Spec

-----------------------------------------------------------------------------
(* Orders. *)

\* The members of a finite set can be written down in the order of any strict
\* total order on it: each at its rank.
LEMMA Enumerated ==
  ASSUME NEW T, IsFiniteSet(T), NEW Before,
         \A x \in T : <<x, x>> \notin Before,
         \A x, y \in T : x # y => <<x, y>> \in Before \/ <<y, x>> \in Before,
         \A x, y, z \in T : <<x, y>> \in Before /\ <<y, z>> \in Before => <<x, z>> \in Before
  PROVE  \E s \in [1..Cardinality(T) -> T] :
            \A i, k \in 1..Cardinality(T) : i < k => <<s[i], s[k]>> \in Before
  <1> DEFINE n == Cardinality(T)
             UpTo(x) == {y \in T : y = x \/ <<y, x>> \in Before}
  <1>1. n \in Nat /\ IsFiniteSet(1..n) /\ Cardinality(1..n) = n
    BY FS_CardinalityType, FS_Interval
  <1>2. \A x \in T : IsFiniteSet(UpTo(x)) /\ Cardinality(UpTo(x)) \in 1..n
    <2> SUFFICES ASSUME NEW x \in T PROVE IsFiniteSet(UpTo(x)) /\ Cardinality(UpTo(x)) \in 1..n
      OBVIOUS
    <2>1. UpTo(x) \in SUBSET T /\ x \in UpTo(x)
      OBVIOUS
    <2>2. IsFiniteSet(UpTo(x)) /\ Cardinality(UpTo(x)) <= n
      BY <2>1, FS_Subset
    <2>3. Cardinality(UpTo(x)) \in Nat /\ Cardinality(UpTo(x)) # 0
      BY <2>1, <2>2, FS_CardinalityType, FS_EmptySet
    <2> QED
      BY <1>1, <2>2, <2>3
  <1>3. \A x, y \in T : <<x, y>> \in Before => Cardinality(UpTo(x)) < Cardinality(UpTo(y))
    <2> SUFFICES ASSUME NEW x \in T, NEW y \in T, <<x, y>> \in Before
                 PROVE  Cardinality(UpTo(x)) < Cardinality(UpTo(y))
      OBVIOUS
    <2>1. <<y, x>> \notin Before /\ x # y
      OBVIOUS
    <2>2. y \in UpTo(y) /\ y \notin UpTo(x)
      BY <2>1
    <2>3. UpTo(x) \in SUBSET UpTo(y)
      OBVIOUS
    <2>4. Cardinality(UpTo(x)) <= Cardinality(UpTo(y))
      BY <1>2, <2>3, FS_Subset
    <2>5. Cardinality(UpTo(y)) # Cardinality(UpTo(x))
      BY <1>2, <2>2, <2>3, FS_Subset
    <2> HIDE DEF UpTo, n
    <2>6. Cardinality(UpTo(x)) \in Int /\ Cardinality(UpTo(y)) \in Int
      BY <1>1, <1>2
    <2> QED
      BY <2>4, <2>5, <2>6
  <1> DEFINE rank == [x \in T |-> Cardinality(UpTo(x))]
  <1>4. rank \in [T -> 1..n] /\ \A x, y \in T : <<x, y>> \in Before => rank[x] < rank[y]
    BY <1>2, <1>3
  <1> HIDE DEF rank, UpTo
  <1>5. \A x \in T : rank[x] \in Int
    BY <1>1, <1>4
  <1>6. rank \in Injection(T, 1..n)
    <2>1. ASSUME NEW x \in T, NEW y \in T, rank[x] = rank[y] PROVE x = y
      <3>1. rank[x] \in Int /\ ~(rank[x] < rank[y]) /\ ~(rank[y] < rank[x])
        BY <1>5, <2>1
      <3> QED
        BY <1>4, <3>1
    <2> QED
      BY <1>4, <2>1 DEF Injection, IsInjective
  <1>7. rank \in Surjection(T, 1..n)
    BY <1>1, <1>6, FS_Injection
  <1> DEFINE named == [i \in 1..n |-> CHOOSE x \in T : rank[x] = i]
  <1>8. \A i \in 1..n : named[i] \in T /\ rank[named[i]] = i
    BY <1>7 DEF Surjection
  <1>9. named \in [1..n -> T]
    BY <1>8
  <1> HIDE DEF named
  <1>10. ASSUME NEW i \in 1..n, NEW k \in 1..n, i < k PROVE <<named[i], named[k]>> \in Before
    <2>1. i \in Int /\ k \in Int /\ i # k /\ ~(k < i)
      BY <1>1, <1>10
    <2>2. named[i] \in T /\ rank[named[i]] = i
      BY <1>8
    <2>3. named[k] \in T /\ rank[named[k]] = k
      BY <1>8
    <2>4. named[i] # named[k]
      BY <2>1, <2>2, <2>3
    <2>5. <<named[k], named[i]>> \notin Before
      BY <1>4, <2>1, <2>2, <2>3
    <2> QED
      BY <2>2, <2>3, <2>4, <2>5
  <1> QED
    BY <1>9, <1>10

-----------------------------------------------------------------------------
(***************************************************************************)
(* A walk over a list.                                                     *)
(***************************************************************************)

\* ORDER BY id DESC: a finite set of ids has one sequence that names each of
\* them, in descending order.
LEMMA DescendingNamesAll ==
  ASSUME NEW ids \in SUBSET Int, IsFiniteSet(ids)
  PROVE  /\ P!Descending(ids) \in [1..Cardinality(ids) -> ids]
         /\ \A i, k \in 1..Cardinality(ids) : i < k => P!Descending(ids)[i] > P!Descending(ids)[k]
         /\ \A x \in ids : \E i \in 1..Cardinality(ids) : P!Descending(ids)[i] = x
  <1> DEFINE n == Cardinality(ids)
             Decreases(s) == \A i, k \in 1..n : i < k => s[i] > s[k]
             Before == {z \in ids \X ids : z[1] > z[2]}
  <1>1. n \in Nat /\ IsFiniteSet(1..n) /\ Cardinality(1..n) = n
    BY FS_CardinalityType, FS_Interval
  <1>2. \A x \in ids : x \in Int
    OBVIOUS
  <1>3. \A x, y \in ids : <<x, y>> \in Before <=> x > y
    OBVIOUS
  <1> HIDE DEF Before
  <1>4. PICK s \in [1..n -> ids] : \A i, k \in 1..n : i < k => <<s[i], s[k]>> \in Before
    <2>1. \A x \in ids : <<x, x>> \notin Before
      BY <1>2, <1>3
    <2>2. \A x, y \in ids : x # y => <<x, y>> \in Before \/ <<y, x>> \in Before
      BY <1>2, <1>3
    <2>3. \A x, y, z \in ids : <<x, y>> \in Before /\ <<y, z>> \in Before => <<x, z>> \in Before
      BY <1>2, <1>3
    <2> QED
      BY <2>1, <2>2, <2>3, Enumerated
  <1>5. Decreases(s)
    BY <1>3, <1>4
  <1>6. P!Descending(ids) = CHOOSE r \in [1..n -> ids] : Decreases(r)
    <2>1. \A r \in [1..n -> ids] : DOMAIN r = 1..n
      OBVIOUS
    <2>2. P!Cardinality(ids) = n
      BY DEF P!Cardinality, Cardinality
    <2> QED
      BY <2>1, <2>2 DEF P!Descending
  <1> DEFINE d == P!Descending(ids)
  <1>7. d \in [1..n -> ids] /\ Decreases(d)
    BY <1>4, <1>5, <1>6
  <1> HIDE DEF d
  <1>8. d \in Injection(1..n, ids)
    <2>1. \A i, k \in 1..n : d[i] = d[k] => i = k
      <3> SUFFICES ASSUME NEW i \in 1..n, NEW k \in 1..n, d[i] = d[k], i # k PROVE FALSE
        OBVIOUS
      <3>1. i < k \/ k < i
        OBVIOUS
      <3>2. d[i] \in Int /\ d[k] \in Int
        BY <1>7
      <3> QED
        BY <1>7, <3>1, <3>2
    <2> QED
      BY <1>7, <2>1 DEF Injection, IsInjective
  <1>9. d \in Surjection(1..n, ids)
    BY <1>1, <1>8, FS_Injection
  <1> QED
    BY <1>7, <1>9 DEF Surjection, d

\* While a walk goes on, what was shown is not below its cursor, and every row
\* that is due was shown or is below it.
WalkInv ==
    /\ list \in P!Lists /\ walk \in {"going", "ended"}
    /\ rows = [i \in DOMAIN rows |-> rows[i]] /\ DOMAIN rows \subseteq 1..MaxId
    /\ \A i \in DOMAIN rows : rows[i] \in P!State
    /\ cursor \in Nat /\ cursor \in 1..(MaxId + 1)
    /\ shown \in Seq(Nat) /\ \A i \in DOMAIN shown : shown[i] \in 1..MaxId
    /\ \A i, k \in DOMAIN shown : i < k => shown[i] > shown[k]
    /\ walk = "going" => \A i \in DOMAIN shown : shown[i] >= cursor
    /\ due \subseteq DOMAIN rows /\ \A i \in due : rows[i] \in list.shows
    /\ \A i \in due : (walk = "going" /\ i < cursor) \/ \E k \in DOMAIN shown : shown[k] = i

\* A list shows nothing that it does not query.
LEMMA ShownIsQueried == \A l \in P!Lists : l.shows \subseteq l.queries
  BY DEF P!Lists, P!State, P!queryFeedPage, P!listUnread, P!listOpportunities, P!listExportJobs,
         P!listNotifications, P!queryModerationHistory, P!getKudosReceived, P!searchAuditLog

LEMMA LesserOfTwo == \A a, b \in Nat : P!Min({a, b}) = IF a <= b THEN a ELSE b
  <1> SUFFICES ASSUME NEW a \in Nat, NEW b \in Nat PROVE P!Min({a, b}) = IF a <= b THEN a ELSE b
    OBVIOUS
  <1> DEFINE c == IF a <= b THEN a ELSE b
  <1>1. c \in {a, b} /\ \A y \in {a, b} : c <= y
    OBVIOUS
  <1>2. \A x \in {a, b} : (\A y \in {a, b} : x <= y) => x = c
    OBVIOUS
  <1> QED
    BY <1>1, <1>2 DEF P!Min

\* A page is the first rows below the cursor; when there are more, the cursor
\* goes to the last of them, and when not, they are all.
LEMMA PageRead ==
  ASSUME WalkInv, NEW limit \in Limit, P!NextPage(limit)
  PROVE  \E page \in Seq(Nat), added \in Seq(Nat) :
           /\ walk = "going" /\ shown' = shown \o added
           /\ \A i \in DOMAIN page : page[i] \in 1..MaxId /\ page[i] < cursor
           /\ \A i, k \in DOMAIN page : i < k => page[i] > page[k]
           /\ \A i, k \in DOMAIN added : i < k => added[i] > added[k]
           /\ \A i \in DOMAIN added : \E k \in DOMAIN page : added[i] = page[k]
           /\ \A k \in DOMAIN page : rows[page[k]] \in list.shows => \E i \in DOMAIN added : added[i] = page[k]
           /\ \/ /\ walk' = "going" /\ page # <<>> /\ cursor' = page[Len(page)]
                 /\ \A x \in DOMAIN rows : (x < cursor /\ rows[x] \in list.queries) =>
                      (x < cursor' \/ \E k \in DOMAIN page : page[k] = x)
              \/ /\ walk' = "ended" /\ cursor' = cursor
                 /\ \A x \in DOMAIN rows : (x < cursor /\ rows[x] \in list.queries) =>
                      \E k \in DOMAIN page : page[k] = x
  <1> DEFINE below == {i \in DOMAIN rows : i < cursor /\ rows[i] \in list.queries}
             found == P!Descending(below)
             n == Cardinality(below)
             kept == P!Min({limit, Len(found)})
             slice == SubSeq(found, 1, kept)
             wanted == {i \in P!Range(slice) : rows[i] \in list.shows}
             fresh == P!Descending(wanted)
             m == Cardinality(wanted)
             more == IF list.tells THEN Len(found) > limit ELSE slice # <<>>
  <1>1. limit \in Nat /\ limit # 0 /\ MaxId \in Nat
    BY PageAssumption
  <1>2. below \in SUBSET (1..MaxId) /\ below \subseteq Nat /\ \A x \in below : x < cursor
    BY <1>1 DEF WalkInv
  <1>3. IsFiniteSet(below) /\ n \in Nat
    <2>1. IsFiniteSet(1..MaxId)
      BY <1>1, FS_Interval
    <2>2. IsFiniteSet(below)
      BY <1>2, <2>1, FS_Subset
    <2> HIDE DEF below
    <2> QED
      BY <2>2, FS_CardinalityType
  <1>4. /\ walk = "going" /\ shown' = shown \o fresh
        /\ IF more THEN walk' = walk ELSE walk' = "ended"
        /\ cursor' = IF ~more THEN cursor ELSE IF list.tells THEN found[limit] ELSE P!Last(slice)
    BY DEF P!NextPage, P!NextCursor
  <1> HIDE DEF below
  <1>5. /\ found \in [1..n -> below]
        /\ \A i, k \in 1..n : i < k => found[i] > found[k]
        /\ \A x \in below : \E i \in 1..n : found[i] = x
    BY <1>2, <1>3, DescendingNamesAll
  <1> HIDE DEF found, n
  <1>6. found \in Seq(below) /\ Len(found) = n /\ DOMAIN found = 1..n
    BY <1>3, <1>5, IsASeq, LenProperties
  <1>7. kept = IF limit <= n THEN limit ELSE n
    BY <1>1, <1>3, <1>6, LesserOfTwo
  <1>8. kept \in Nat /\ kept <= n
    BY <1>1, <1>3, <1>7
  <1> HIDE DEF kept
  <1>9. slice \in Seq(below) /\ Len(slice) = kept /\ DOMAIN slice = 1..kept /\ \A i \in 1..kept : slice[i] = found[i]
    <2>1. \A i \in 1..kept : found[i] \in below
      BY <1>3, <1>5, <1>8
    <2>2. /\ slice \in Seq(below)
          /\ Len(slice) = IF 1 <= kept THEN kept - 1 + 1 ELSE 0
          /\ \A i \in 1..(kept - 1 + 1) : slice[i] = found[1 + i - 1]
      BY <1>8, <2>1, SubSeqProperties
    <2>3. kept - 1 + 1 = kept /\ \A i \in 1..kept : 1 + i - 1 = i
      BY <1>8
    <2>4. Len(slice) = kept /\ \A i \in 1..kept : slice[i] = found[i]
      BY <1>8, <2>2, <2>3
    <2> QED
      BY <2>2, <2>4, LenProperties
  <1> HIDE DEF slice
  <1>10. \A i, k \in DOMAIN slice : i < k => slice[i] > slice[k]
    BY <1>3, <1>5, <1>8, <1>9
  <1>11. wanted \in SUBSET below
    BY <1>9, ElementOfSeq DEF P!Range
  <1>12. \A k \in DOMAIN slice : slice[k] \in P!Range(slice)
    BY DEF P!Range
  <1>13. \A x \in P!Range(slice) : \E k \in DOMAIN slice : x = slice[k]
    BY DEF P!Range
  <1>14. \A k \in DOMAIN slice : rows[slice[k]] \in list.shows => slice[k] \in wanted
    BY <1>12
  <1>15. \A x \in wanted : \E k \in DOMAIN slice : x = slice[k]
    BY <1>13
  <1> HIDE DEF wanted
  <1>16. wanted \subseteq Nat /\ wanted \in SUBSET Int /\ IsFiniteSet(wanted) /\ m \in Nat
    <2>1. IsFiniteSet(wanted)
      BY <1>3, <1>11, FS_Subset
    <2>2. m \in Nat
      BY <2>1, FS_CardinalityType
    <2> QED
      BY <1>2, <1>11, <2>1, <2>2
  <1>17. /\ fresh \in [1..m -> wanted]
         /\ \A i, k \in 1..m : i < k => fresh[i] > fresh[k]
         /\ \A x \in wanted : \E i \in 1..m : fresh[i] = x
    BY <1>16, DescendingNamesAll
  <1> HIDE DEF fresh, m
  <1>18. fresh \in Seq(wanted) /\ DOMAIN fresh = 1..m
    BY <1>16, <1>17, IsASeq
  <1>19. fresh \in Seq(Nat) /\ slice \in Seq(Nat)
    BY <1>2, <1>9, <1>16, <1>18, SeqMonotonic
  <1>20. \A i \in DOMAIN slice : slice[i] \in 1..MaxId /\ slice[i] < cursor
    BY <1>2, <1>9, ElementOfSeq
  <1>21. \A i \in DOMAIN fresh : \E k \in DOMAIN slice : fresh[i] = slice[k]
    BY <1>15, <1>17, <1>18
  <1>22. \A k \in DOMAIN slice : rows[slice[k]] \in list.shows => \E i \in DOMAIN fresh : fresh[i] = slice[k]
    BY <1>14, <1>17, <1>18
  <1>23. \A x \in DOMAIN rows : (x < cursor /\ rows[x] \in list.queries) => x \in below
    BY DEF below
  <1>24. CASE more
    <2>1. kept # 0 /\ slice # <<>>
      <3>1. CASE list.tells
        BY <1>1, <1>3, <1>6, <1>7, <1>9, <1>24, <3>1, EmptySeq
      <3>2. CASE ~list.tells
        BY <1>9, <1>24, <3>2, EmptySeq
      <3> QED
        BY <3>1, <3>2
    <2>2. cursor' = slice[Len(slice)]
      <3>1. CASE list.tells
        <4>1. kept = limit
          BY <1>1, <1>3, <1>6, <1>7, <1>24, <3>1
        <4>2. limit \in 1..kept
          BY <1>1, <4>1
        <4> QED
          BY <1>4, <1>9, <1>24, <3>1, <4>1, <4>2
      <3>2. CASE ~list.tells
        BY <1>4, <1>24, <3>2 DEF P!Last
      <3> QED
        BY <3>1, <3>2
    <2>3. \A x \in below : x < cursor' \/ \E k \in DOMAIN slice : slice[k] = x
      <3> SUFFICES ASSUME NEW x \in below PROVE x < cursor' \/ \E k \in DOMAIN slice : slice[k] = x
        OBVIOUS
      <3>1. PICK i \in 1..n : found[i] = x
        BY <1>5
      <3>2. CASE i <= kept
        BY <1>3, <1>8, <1>9, <3>1, <3>2
      <3>3. CASE kept < i
        <4>1. kept \in 1..n /\ kept \in 1..kept
          BY <1>3, <1>8, <2>1
        <4>2. found[kept] > found[i] /\ cursor' = found[kept]
          BY <1>5, <1>9, <2>2, <3>1, <3>3, <4>1
        <4>3. found[kept] \in below /\ x \in below
          BY <1>5, <4>1
        <4>4. found[kept] \in Nat /\ x \in Nat
          BY <1>2, <4>3
        <4> QED
          BY <3>1, <4>2, <4>4
      <3> QED
        BY <1>3, <1>8, <3>1, <3>2, <3>3
    <2>4. walk' = "going"
      BY <1>4, <1>24
    <2> slice \in Seq(Nat) /\ fresh \in Seq(Nat)
      BY <1>19
    <2> WITNESS slice \in Seq(Nat), fresh \in Seq(Nat)
    <2> QED
      BY <1>4, <1>10, <1>17, <1>18, <1>19, <1>20, <1>21, <1>22, <1>23, <2>1, <2>2, <2>3, <2>4
  <1>25. CASE ~more
    <2>1. kept = n
      <3>1. CASE list.tells
        BY <1>1, <1>3, <1>6, <1>7, <1>25, <3>1
      <3>2. CASE ~list.tells
        <4>1. kept = 0
          BY <1>9, <1>25, <3>2, EmptySeq
        <4> QED
          BY <1>1, <1>3, <1>7, <4>1
      <3> QED
        BY <3>1, <3>2
    <2>2. \A x \in below : \E k \in DOMAIN slice : slice[k] = x
      BY <1>5, <1>9, <2>1
    <2>3. walk' = "ended" /\ cursor' = cursor
      BY <1>4, <1>25
    <2> slice \in Seq(Nat) /\ fresh \in Seq(Nat)
      BY <1>19
    <2> WITNESS slice \in Seq(Nat), fresh \in Seq(Nat)
    <2> QED
      BY <1>4, <1>10, <1>17, <1>18, <1>19, <1>20, <1>21, <1>22, <1>23, <2>2, <2>3
  <1> QED
    BY <1>24, <1>25

LEMMA WalkGoesOn == WalkInv /\ (\E limit \in Limit : P!NextPage(limit)) => WalkInv'
  <1> SUFFICES ASSUME WalkInv, NEW limit \in Limit, P!NextPage(limit) PROVE WalkInv'
    OBVIOUS
  <1>1. UNCHANGED <<list, rows, due>>
    BY DEF P!NextPage
  <1>2. PICK page \in Seq(Nat), added \in Seq(Nat) :
           /\ walk = "going" /\ shown' = shown \o added
           /\ \A i \in DOMAIN page : page[i] \in 1..MaxId /\ page[i] < cursor
           /\ \A i, k \in DOMAIN page : i < k => page[i] > page[k]
           /\ \A i, k \in DOMAIN added : i < k => added[i] > added[k]
           /\ \A i \in DOMAIN added : \E k \in DOMAIN page : added[i] = page[k]
           /\ \A k \in DOMAIN page : rows[page[k]] \in list.shows => \E i \in DOMAIN added : added[i] = page[k]
           /\ \/ /\ walk' = "going" /\ page # <<>> /\ cursor' = page[Len(page)]
                 /\ \A x \in DOMAIN rows : (x < cursor /\ rows[x] \in list.queries) =>
                      (x < cursor' \/ \E k \in DOMAIN page : page[k] = x)
              \/ /\ walk' = "ended" /\ cursor' = cursor
                 /\ \A x \in DOMAIN rows : (x < cursor /\ rows[x] \in list.queries) =>
                      \E k \in DOMAIN page : page[k] = x
    BY PageRead
  <1> DEFINE before == Len(shown)
             more == Len(added)
  <1>3. /\ shown \in Seq(Nat) /\ before \in Nat /\ DOMAIN shown = 1..before
        /\ more \in Nat /\ DOMAIN added = 1..more
        /\ \A i \in DOMAIN shown : shown[i] \in Nat
        /\ \A i \in DOMAIN added : added[i] \in Nat
        /\ \A i \in DOMAIN page : page[i] \in Nat
    BY LenProperties, ElementOfSeq DEF WalkInv
  <1>4. /\ shown' \in Seq(Nat) /\ DOMAIN shown' = 1..(before + more)
        /\ \A i \in 1..before : shown'[i] = shown[i]
        /\ \A i \in (before + 1)..(before + more) : shown'[i] = added[i - before]
    <2>1. /\ shown' \in Seq(Nat) /\ Len(shown') = before + more
          /\ \A i \in 1..(before + more) : shown'[i] = IF i <= before THEN shown[i] ELSE added[i - before]
      BY <1>2, <1>3, ConcatProperties
    <2>2. DOMAIN shown' = 1..(before + more)
      BY <2>1, LenProperties
    <2> HIDE DEF before, more
    <2>3. \A i \in 1..before : i \in 1..(before + more) /\ i <= before
      BY <1>3
    <2>4. \A i \in (before + 1)..(before + more) : i \in 1..(before + more) /\ ~(i <= before)
      BY <1>3
    <2>5. \A i \in 1..before : shown'[i] = shown[i]
      BY <2>1, <2>3
    <2>6. \A i \in (before + 1)..(before + more) : shown'[i] = added[i - before]
      BY <2>1, <2>4
    <2> QED
      BY <2>1, <2>2, <2>5, <2>6
  <1> HIDE DEF before, more
  <1>5. \A i \in (before + 1)..(before + more) : i - before \in DOMAIN added
    BY <1>3
  <1>6. \A i \in DOMAIN added : added[i] < cursor
    BY <1>2
  <1>7. cursor \in Nat /\ \A i \in DOMAIN shown : shown[i] >= cursor
    BY <1>2 DEF WalkInv
  <1>8. \A i, k \in DOMAIN shown' : i < k => shown'[i] > shown'[k]
    <2> SUFFICES ASSUME NEW i \in DOMAIN shown', NEW k \in DOMAIN shown', i < k PROVE shown'[i] > shown'[k]
      OBVIOUS
    <2>1. CASE k <= before
      <3>1. i \in DOMAIN shown /\ k \in DOMAIN shown /\ shown'[i] = shown[i] /\ shown'[k] = shown[k]
        BY <1>3, <1>4, <2>1
      <3> QED
        BY <3>1 DEF WalkInv
    <2>2. CASE i <= before /\ before < k
      <3>1. i \in DOMAIN shown /\ shown'[i] = shown[i]
        BY <1>3, <1>4, <2>2
      <3>2. k - before \in DOMAIN added /\ shown'[k] = added[k - before]
        BY <1>3, <1>4, <1>5, <2>2
      <3>3. shown[i] >= cursor /\ added[k - before] < cursor /\ shown[i] \in Nat /\ added[k - before] \in Nat
        BY <1>3, <1>6, <1>7, <3>1, <3>2
      <3> QED
        BY <1>7, <3>1, <3>2, <3>3
    <2>3. CASE before < i
      <3>1. i - before \in DOMAIN added /\ shown'[i] = added[i - before]
        BY <1>3, <1>4, <1>5, <2>3
      <3>2. k - before \in DOMAIN added /\ shown'[k] = added[k - before]
        BY <1>3, <1>4, <1>5, <2>3
      <3>3. i - before < k - before
        BY <1>3, <1>4
      <3> QED
        BY <1>2, <3>1, <3>2, <3>3
    <2> QED
      BY <1>3, <1>4, <2>1, <2>2, <2>3
  <1>9. walk' = "going" => cursor' \in Nat /\ \A i \in DOMAIN shown' : shown'[i] >= cursor'
    <2> SUFFICES ASSUME walk' = "going" PROVE cursor' \in Nat /\ \A i \in DOMAIN shown' : shown'[i] >= cursor'
      OBVIOUS
    <2>1. cursor' = page[Len(page)] /\ Len(page) \in DOMAIN page /\ DOMAIN page = 1..Len(page) /\ Len(page) \in Nat
      <3>1. page # <<>> /\ cursor' = page[Len(page)]
        BY <1>2
      <3>2. Len(page) \in Nat /\ DOMAIN page = 1..Len(page) /\ Len(page) # 0
        BY <3>1, LenProperties, EmptySeq
      <3> QED
        BY <3>1, <3>2
    <2>2. cursor' \in Nat /\ cursor' < cursor
      BY <1>2, <1>3, <2>1
    <2>3. \A k \in DOMAIN page : page[k] >= cursor'
      <3> SUFFICES ASSUME NEW k \in DOMAIN page PROVE page[k] >= cursor'
        OBVIOUS
      <3>1. CASE k = Len(page)
        BY <1>3, <2>1, <3>1
      <3>2. CASE k < Len(page)
        <4>1. page[k] > cursor'
          BY <1>2, <2>1, <3>2
        <4>2. page[k] \in Nat
          BY <1>3
        <4> QED
          BY <2>2, <4>1, <4>2
      <3> QED
        BY <2>1, <3>1, <3>2
    <2>4. ASSUME NEW i \in DOMAIN shown' PROVE shown'[i] >= cursor'
      <3>1. CASE i <= before
        <4>1. i \in DOMAIN shown /\ shown'[i] = shown[i]
          BY <1>3, <1>4, <2>4, <3>1
        <4>2. shown[i] \in Nat /\ shown[i] >= cursor
          BY <1>3, <1>7, <4>1
        <4> QED
          BY <1>7, <2>2, <4>1, <4>2
      <3>2. CASE before < i
        <4>1. i - before \in DOMAIN added /\ shown'[i] = added[i - before]
          BY <1>3, <1>4, <1>5, <2>4, <3>2
        <4>2. PICK k \in DOMAIN page : added[i - before] = page[k]
          BY <1>2, <4>1
        <4> QED
          BY <2>3, <4>1, <4>2
      <3> QED
        BY <1>3, <1>4, <2>4, <3>1, <3>2
    <2> QED
      BY <2>2, <2>4
  <1>10. \A x : (\E k \in DOMAIN shown : shown[k] = x) => \E k \in DOMAIN shown' : shown'[k] = x
    <2>1. \A k \in DOMAIN shown : k \in DOMAIN shown' /\ shown'[k] = shown[k]
      BY <1>3, <1>4
    <2> QED
      BY <2>1
  <1>11. ASSUME NEW i \in DOMAIN added PROVE \E k \in DOMAIN shown' : shown'[k] = added[i]
    <2>1. before + i \in (before + 1)..(before + more) /\ before + i \in 1..(before + more) /\ before + i - before = i
      BY <1>3, <1>11
    <2>2. PICK k : k = before + i
      OBVIOUS
    <2>3. k \in DOMAIN shown' /\ shown'[k] = added[k - before] /\ k - before = i
      <3>1. k \in (before + 1)..(before + more) /\ k \in 1..(before + more)
        BY <2>1, <2>2
      <3>2. k - before = i
        BY <1>3, <1>11, <2>2
      <3> QED
        BY ONLY <1>4, <3>1, <3>2
    <2> QED
      BY <2>3
  <1>12. ASSUME NEW x \in due PROVE (walk' = "going" /\ x < cursor') \/ \E k \in DOMAIN shown' : shown'[k] = x
    <2>1. CASE \E k \in DOMAIN shown : shown[k] = x
      BY <1>10, <2>1
    <2>2. CASE x < cursor
      <3>1. x \in DOMAIN rows /\ rows[x] \in list.shows /\ rows[x] \in list.queries
        BY <1>12, ShownIsQueried DEF WalkInv
      <3>2. (walk' = "going" /\ x < cursor') \/ \E k \in DOMAIN page : page[k] = x
        BY <1>2, <2>2, <3>1
      <3>3. ASSUME NEW k \in DOMAIN page, page[k] = x PROVE \E j \in DOMAIN shown' : shown'[j] = x
        <4>1. PICK i \in DOMAIN added : added[i] = page[k]
          BY <1>2, <3>1, <3>3
        <4> QED
          BY <1>11, <3>3, <4>1
      <3> QED
        BY <3>2, <3>3
    <2> QED
      BY <1>12, <2>1, <2>2 DEF WalkInv
  <1>13. walk' \in {"going", "ended"} /\ cursor' \in Nat /\ cursor' \in 1..(MaxId + 1)
    <2>1. CASE cursor' = cursor
      BY <1>2, <2>1 DEF WalkInv
    <2>2. CASE walk' = "going" /\ page # <<>> /\ cursor' = page[Len(page)]
      <3>1. Len(page) \in DOMAIN page
        BY <2>2, LenProperties, EmptySeq
      <3>2. cursor' \in 1..MaxId
        BY <1>2, <2>2, <3>1
      <3> QED
        BY <2>2, <3>2, PageAssumption
    <2> QED
      BY <1>2, <2>1, <2>2
  <1>14. \A i \in DOMAIN shown' : shown'[i] \in 1..MaxId
    <2>1. ASSUME NEW i \in DOMAIN added PROVE added[i] \in 1..MaxId
      BY <1>2
    <2>2. \A i \in DOMAIN shown : shown[i] \in 1..MaxId
      BY DEF WalkInv
    <2>3. \A i \in DOMAIN shown' : i \in 1..before \/ i \in (before + 1)..(before + more)
      BY <1>3, <1>4
    <2> QED
      BY <1>3, <1>4, <1>5, <2>1, <2>2, <2>3
  <1> QED
    BY <1>1, <1>4, <1>8, <1>9, <1>12, <1>13, <1>14 DEF WalkInv

LEMMA WalkStep == WalkInv /\ [P!Next]_(P!vars) => WalkInv'
  <1> SUFFICES ASSUME WalkInv, [P!Next]_(P!vars) PROVE WalkInv'
    OBVIOUS
  <1>1. CASE \E limit \in Limit : P!NextPage(limit)
    BY <1>1, WalkGoesOn
  <1>2. ASSUME NEW i \in 1..MaxId, P!Insert(i) PROVE WalkInv'
    BY <1>2 DEF P!Insert, P!State, WalkInv
  <1>3. ASSUME NEW i \in DOMAIN rows, P!Change(i) PROVE WalkInv'
    <2>1. /\ rows[i] = "fresh" /\ rows' = [rows EXCEPT ![i] = "changed"]
          /\ due' = IF "changed" \in list.shows THEN due ELSE due \ {i}
          /\ UNCHANGED <<list, cursor, walk, shown>>
      BY <1>3 DEF P!Change
    <2>2. DOMAIN rows' = DOMAIN rows /\ rows' = [x \in DOMAIN rows' |-> rows'[x]]
      BY <2>1
    <2>3. due' \subseteq due /\ \A x \in due' : rows'[x] \in list.shows
      BY <2>1 DEF WalkInv
    <2>4. \A x \in DOMAIN rows' : rows'[x] \in P!State
      BY <2>1 DEF WalkInv, P!State
    <2> QED
      BY <2>1, <2>2, <2>3, <2>4 DEF WalkInv
  <1>4. CASE UNCHANGED P!vars
    BY <1>4 DEF P!vars, WalkInv
  <1> QED
    BY <1>1, <1>2, <1>3, <1>4 DEF P!Next

LEMMA WalkStart == P!Init => WalkInv
  <1> SUFFICES ASSUME P!Init PROVE WalkInv
    OBVIOUS
  <1>1. PICK ids \in SUBSET (1..MaxId) : rows \in [ids -> P!State]
    BY DEF P!Init
  <1>2. /\ rows = [i \in DOMAIN rows |-> rows[i]] /\ DOMAIN rows \subseteq 1..MaxId
        /\ \A i \in DOMAIN rows : rows[i] \in P!State
    BY <1>1
  <1>3. shown = <<>> /\ shown \in Seq(Nat) /\ DOMAIN shown = {}
    BY DEF P!Init
  <1>4. \A i \in DOMAIN rows : i < MaxId + 1
    BY <1>2, PageAssumption
  <1> QED
    BY <1>2, <1>3, <1>4, PageAssumption DEF P!Init, P!Due, WalkInv

LEMMA WalkInvariant == Spec => []WalkInv
  BY WalkStart, WalkStep, PartsOfBehaviour, PTL DEF P!Spec

\* A walk shows no row twice, in the order of ids, and when it ends it has shown
\* every row that was there when it began and still belongs to it: for each of
\* the lists, pages of any sizes, and any rows inserted or changed meanwhile.
THEOREM WalksShowAll == Spec => []WalkShowsAll
  <1>1. WalkInv => WalkShowsAll
    <2> SUFFICES ASSUME WalkInv PROVE P!WalkShowsAll
      BY DEF WalkShowsAll
    <2>1. \A i, k \in DOMAIN shown : i < k => shown[i] > shown[k]
      BY DEF WalkInv
    <2>2. walk = "ended" => due \subseteq P!Range(shown)
      BY DEF WalkInv, P!Range
    <2> QED
      BY <2>1, <2>2 DEF P!WalkShowsAll
  <1> QED
    BY <1>1, WalkInvariant, PTL

-----------------------------------------------------------------------------
(***************************************************************************)
(* Sums.  SumFunction adds the values of a function, element by element,   *)
(* in some order; the lemmas show that there is such a sum and that the    *)
(* order does not matter.  Each is by the smallest set that would refute   *)
(* it.                                                                     *)
(***************************************************************************)

Element(s) == CHOOSE x \in s : TRUE
\* g is the sum of f over each subset of T.
Adds(g, f, T) == g = [s \in SUBSET T |-> IF s = {} THEN 0 ELSE f[Element(s)] + g[s \ {Element(s)}]]
Sum(f) == (CHOOSE g : Adds(g, f, DOMAIN f))[DOMAIN f]

LEMMA SumFunctionIsSum == \A f : G!SumFunction(f) = Sum(f) /\ L!SumFunction(f) = Sum(f)
  <1>1. \A f : G!SumFunction(f) = Sum(f)
    BY DEF G!SumFunction, G!SumFunctionOnSet, G!FoldFunctionOnSet, G!MapThenFoldSet, Adds, Element, Sum
  <1>2. \A f : L!SumFunction(f) = Sum(f)
    BY DEF L!SumFunction, L!SumFunctionOnSet, L!FoldFunctionOnSet, L!MapThenFoldSet, Adds, Element, Sum
  <1> QED
    BY <1>1, <1>2

LEMMA LeastNumber ==
  ASSUME NEW B, B \subseteq Nat, B # {}
  PROVE  \E n \in B : \A m \in B : n <= m
  <1>1. PICK n \in B : \A m \in B : ~(<<m, n>> \in OpToRel(<, Nat))
    BY NatLessThanWellFounded, WFMin
  <1>2. \A m \in B : ~(m < n)
    BY <1>1 DEF OpToRel
  <1> QED
    BY <1>2

\* Among some subsets of a finite set there is one with the fewest members.
LEMMA FewestMembers ==
  ASSUME NEW T, IsFiniteSet(T), NEW B, B \subseteq SUBSET T, B # {}
  PROVE  \E s \in B : \A u \in B : Cardinality(s) <= Cardinality(u)
  <1> DEFINE sizes == {Cardinality(s) : s \in B}
  <1>1. \A s \in B : Cardinality(s) \in Nat
    BY FS_Subset, FS_CardinalityType
  <1>2. sizes \subseteq Nat /\ sizes # {}
    BY <1>1
  <1>3. PICK n \in sizes : \A m \in sizes : n <= m
    <2> HIDE DEF sizes
    <2> QED
      BY <1>2, LeastNumber
  <1> QED
    BY <1>3

\* One member less.
LEMMA OneLess ==
  ASSUME NEW T, IsFiniteSet(T), NEW s, s \in SUBSET T, NEW x \in s
  PROVE  /\ s \ {x} \in SUBSET T /\ Cardinality(s) \in Nat \ {0}
         /\ Cardinality(s \ {x}) = Cardinality(s) - 1
  <1>1. IsFiniteSet(s)
    BY FS_Subset
  <1>2. Cardinality(s) \in Nat /\ Cardinality(s) # 0
    BY <1>1, FS_CardinalityType, FS_EmptySet
  <1>3. Cardinality(s \ {x}) = Cardinality(s) - 1
    BY <1>1, FS_RemoveElement
  <1> QED
    BY <1>2, <1>3

LEMMA ElementIsMember == \A s : s # {} => Element(s) \in s
  BY DEF Element

LEMMA SumStep ==
  ASSUME NEW T, NEW f, NEW g, Adds(g, f, T)
  PROVE  \A s \in SUBSET T : g[s] = IF s = {} THEN 0 ELSE f[Element(s)] + g[s \ {Element(s)}]
  <1> HIDE DEF Element
  <1>1. g = [u \in SUBSET T |-> IF u = {} THEN 0 ELSE f[Element(u)] + g[u \ {Element(u)}]]
    BY DEF Adds
  <1> QED
    BY <1>1

LEMMA SumTyped ==
  ASSUME NEW T, IsFiniteSet(T), NEW f, \A x \in T : f[x] \in Int, NEW g, Adds(g, f, T)
  PROVE  \A s \in SUBSET T : g[s] \in Int
  <1>0. \A s \in SUBSET T : g[s] = IF s = {} THEN 0 ELSE f[Element(s)] + g[s \ {Element(s)}]
    BY SumStep
  <1> DEFINE B == {s \in SUBSET T : g[s] \notin Int}
  <1> SUFFICES ASSUME B # {} PROVE FALSE
    OBVIOUS
  <1>1. PICK s \in B : \A u \in B : Cardinality(s) <= Cardinality(u)
    BY FewestMembers
  <1>2. g[s] = IF s = {} THEN 0 ELSE f[Element(s)] + g[s \ {Element(s)}]
    BY <1>0
  <1>3. CASE s = {}
    BY <1>2, <1>3
  <1>4. CASE s # {}
    <2>1. Element(s) \in s /\ f[Element(s)] \in Int
      BY <1>4, ElementIsMember
    <2>2. s \ {Element(s)} \in SUBSET T /\ ~(Cardinality(s) <= Cardinality(s \ {Element(s)}))
      BY <2>1, OneLess
    <2>3. g[s \ {Element(s)}] \in Int
      BY <1>1, <2>2
    <2> QED
      BY <1>2, <1>4, <2>1, <2>3
  <1> QED
    BY <1>3, <1>4

\* Any member may be the one that is added last.
LEMMA SumInAnyOrder ==
  ASSUME NEW T, IsFiniteSet(T), NEW f, \A x \in T : f[x] \in Int, NEW g, Adds(g, f, T),
         NEW all \in SUBSET T, NEW e \in all
  PROVE  g[all] = f[e] + g[all \ {e}]
  <1> DEFINE B == {s \in SUBSET T : \E x \in s : g[s] # f[x] + g[s \ {x}]}
  <1> SUFFICES ASSUME B # {} PROVE FALSE
    OBVIOUS
  <1>1. PICK s \in B : \A u \in B : Cardinality(s) <= Cardinality(u)
    BY FewestMembers
  <1>2. PICK x \in s : g[s] # f[x] + g[s \ {x}]
    OBVIOUS
  <1>3. PICK c \in s : g[s] = f[c] + g[s \ {c}]
    <2>1. s \in SUBSET T /\ s # {} /\ Element(s) \in s
      BY <1>2, ElementIsMember
    <2>2. g[s] = IF s = {} THEN 0 ELSE f[Element(s)] + g[s \ {Element(s)}]
      BY ONLY <2>1, SumStep, Adds(g, f, T)
    <2> QED
      BY <2>1, <2>2
  <1>4. c # x
    BY <1>2, <1>3
  <1> DEFINE rest == (s \ {c}) \ {x}
  <1>5. \A u \in SUBSET T : Cardinality(u) < Cardinality(s) => \A y \in u : g[u] = f[y] + g[u \ {y}]
    <2> SUFFICES ASSUME NEW u \in SUBSET T, Cardinality(u) < Cardinality(s), u \in B PROVE FALSE
      OBVIOUS
    <2>1. Cardinality(s) <= Cardinality(u) /\ Cardinality(s) \in Nat /\ Cardinality(u) \in Nat
      BY <1>1, FS_Subset, FS_CardinalityType
    <2> QED
      BY <2>1
  <1>6. g[s \ {c}] = f[x] + g[rest]
    <2>1. s \ {c} \in SUBSET T /\ Cardinality(s \ {c}) < Cardinality(s) /\ x \in s \ {c}
      BY <1>4, OneLess
    <2> QED
      BY <1>5, <2>1
  <1>7. g[s \ {x}] = f[c] + g[rest]
    <2>1. s \ {x} \in SUBSET T /\ Cardinality(s \ {x}) < Cardinality(s) /\ c \in s \ {x}
      BY <1>4, OneLess
    <2>2. (s \ {x}) \ {c} = rest
      OBVIOUS
    <2> QED
      BY <1>5, <2>1, <2>2
  <1>8. f[x] \in Int /\ f[c] \in Int /\ g[rest] \in Int
    BY SumTyped
  <1> QED
    BY <1>2, <1>3, <1>6, <1>7, <1>8

\* Sums over what two functions have in common are the same.
LEMMA SumsAgree ==
  ASSUME NEW T, IsFiniteSet(T), NEW f, NEW g, Adds(g, f, T),
         NEW U, NEW h, NEW k, Adds(k, h, U), T \subseteq U, \A x \in T : f[x] = h[x]
  PROVE  \A s \in SUBSET T : g[s] = k[s]
  <1> DEFINE B == {s \in SUBSET T : g[s] # k[s]}
  <1> SUFFICES ASSUME B # {} PROVE FALSE
    OBVIOUS
  <1>1. PICK s \in B : \A u \in B : Cardinality(s) <= Cardinality(u)
    BY FewestMembers
  <1>2. g[s] = IF s = {} THEN 0 ELSE f[Element(s)] + g[s \ {Element(s)}]
    <2>1. s \in SUBSET T
      OBVIOUS
    <2> QED
      BY ONLY <2>1, SumStep, Adds(g, f, T)
  <1>3. k[s] = IF s = {} THEN 0 ELSE h[Element(s)] + k[s \ {Element(s)}]
    <2>1. s \in SUBSET U
      OBVIOUS
    <2> QED
      BY ONLY <2>1, SumStep, Adds(k, h, U)
  <1>4. s # {} /\ Element(s) \in s
    BY <1>2, <1>3, ElementIsMember
  <1>5. s \ {Element(s)} \in SUBSET T /\ ~(Cardinality(s) <= Cardinality(s \ {Element(s)}))
    BY <1>4, OneLess
  <1>6. g[s \ {Element(s)}] = k[s \ {Element(s)}]
    BY <1>1, <1>5
  <1> QED
    BY <1>2, <1>3, <1>4, <1>6

\* There is a sum: one over the sets of at most n members extends to those of
\* n + 1.
LEMMA SumExists ==
  ASSUME NEW T, IsFiniteSet(T), NEW f, \A x \in T : f[x] \in Int
  PROVE  \E g : Adds(g, f, T)
  <1> DEFINE Sized(n) == {s \in SUBSET T : Cardinality(s) <= n}
             Value(g, s) == IF s = {} THEN 0 ELSE f[Element(s)] + g[s \ {Element(s)}]
             Part(n, g) == g = [s \in Sized(n) |-> Value(g, s)]
             B == {n \in Nat : ~\E g : Part(n, g)}
  <1>1. Cardinality(T) \in Nat
    BY FS_CardinalityType
  <1>2. \A s \in SUBSET T : Cardinality(s) \in Nat /\ Cardinality(s) <= Cardinality(T)
    BY FS_Subset, FS_CardinalityType
  <1>3. B = {}
    <2> SUFFICES ASSUME B # {} PROVE FALSE
      OBVIOUS
    <2>1. PICK n \in B : \A m \in B : n <= m
      <3>1. B \subseteq Nat
        OBVIOUS
      <3> HIDE DEF B
      <3> QED
        BY <3>1, LeastNumber
    <2>2. CASE n = 0
      <3> DEFINE g == [s \in Sized(0) |-> 0]
      <3>1. \A s \in Sized(0) : s = {}
        <4>1. \A s \in SUBSET T : Cardinality(s) = 0 => s = {}
          BY FS_Subset, FS_EmptySet
        <4> QED
          BY <1>2, <4>1
      <3>2. g = [s \in Sized(0) |-> Value(g, s)]
        BY <3>1
      <3> QED
        BY <2>2, <3>2
    <2>3. CASE n # 0
      <3>1. n - 1 \in Nat /\ n \in Nat /\ n - 1 \notin B
        <4>1. n \in Nat
          BY <2>1
        <4>2. n - 1 \in Nat /\ ~(n <= n - 1)
          BY <2>3, <4>1
        <4> QED
          BY <2>1, <4>1, <4>2
      <3>2. PICK g : Part(n - 1, g)
        BY <3>1
      <3>3. \A s \in Sized(n - 1) : g[s] = Value(g, s)
        <4> HIDE DEF Value, Sized
        <4> QED
          BY <3>2
      <3> DEFINE h == [s \in Sized(n) |-> Value(g, s)]
      <3>4. \A s \in Sized(n) : s # {} => s \ {Element(s)} \in Sized(n - 1)
        <4> SUFFICES ASSUME NEW s \in Sized(n), s # {} PROVE s \ {Element(s)} \in Sized(n - 1)
          OBVIOUS
        <4>1. Element(s) \in s
          BY ElementIsMember
        <4>2. s \ {Element(s)} \in SUBSET T /\ Cardinality(s \ {Element(s)}) = Cardinality(s) - 1
          BY <4>1, OneLess
        <4> QED
          BY <1>2, <3>1, <4>2
      <3>5. \A s \in Sized(n - 1) : s \in Sized(n)
        BY <1>2, <3>1
      <3> HIDE DEF Sized
      <3>6. \A s \in Sized(n - 1) : h[s] = g[s]
        BY <3>3, <3>5
      <3>7. \A s \in Sized(n) : Value(g, s) = Value(h, s)
        BY <3>4, <3>6
      <3>8. h = [s \in Sized(n) |-> Value(h, s)]
        BY <3>7
      <3>9. Part(n, h)
        BY <3>8
      <3> QED
        BY <2>1, <3>9
    <2> QED
      BY <2>2, <2>3
  <1>4. PICK g : Part(Cardinality(T), g)
    BY <1>1, <1>3
  <1>5. Sized(Cardinality(T)) = SUBSET T
    BY <1>2
  <1> QED
    BY <1>4, <1>5 DEF Adds

LEMMA SumChosen ==
  ASSUME NEW T, IsFiniteSet(T), NEW f \in [T -> Int]
  PROVE  \E g : Adds(g, f, T) /\ Sum(f) = g[T]
  <1>1. \E g : Adds(g, f, T)
    BY SumExists
  <1>2. DOMAIN f = T
    OBVIOUS
  <1> QED
    BY <1>1, <1>2 DEF Sum

LEMMA SumOfInts ==
  ASSUME NEW T, IsFiniteSet(T), NEW f \in [T -> Int]
  PROVE  Sum(f) \in Int
  <1>1. PICK g : Adds(g, f, T) /\ Sum(f) = g[T]
    BY SumChosen
  <1>2. \A s \in SUBSET T : g[s] \in Int
    BY <1>1, SumTyped
  <1> QED
    BY <1>1, <1>2

LEMMA SumOfNone ==
  ASSUME NEW f \in [{} -> Int]
  PROVE  Sum(f) = 0
  <1>1. PICK g : Adds(g, f, {}) /\ Sum(f) = g[{}]
    BY SumChosen, FS_EmptySet
  <1>2. \A s \in SUBSET {} : g[s] = IF s = {} THEN 0 ELSE f[Element(s)] + g[s \ {Element(s)}]
    BY <1>1, SumStep
  <1> QED
    BY <1>1, <1>2

\* What is added to the domain is added to the sum.
LEMMA SumGrows ==
  ASSUME NEW T, IsFiniteSet(T), NEW f \in [T -> Int], NEW e, e \notin T,
         NEW h \in [T \cup {e} -> Int], \A x \in T : h[x] = f[x]
  PROVE  Sum(h) = Sum(f) + h[e]
  <1>1. PICK g : Adds(g, f, T) /\ Sum(f) = g[T]
    BY SumChosen
  <1>2. IsFiniteSet(T \cup {e})
    BY FS_AddElement
  <1>3. PICK k : Adds(k, h, T \cup {e}) /\ Sum(h) = k[T \cup {e}]
    BY <1>2, SumChosen
  <1>4. \A s \in SUBSET T : g[s] = k[s]
    BY <1>1, <1>3, SumsAgree
  <1>5. \A x \in T \cup {e} : h[x] \in Int
    OBVIOUS
  <1>6. k[T \cup {e}] = h[e] + k[T]
    <2>1. (T \cup {e}) \ {e} = T /\ e \in T \cup {e} /\ T \cup {e} \in SUBSET (T \cup {e})
      OBVIOUS
    <2>2. k[T \cup {e}] = h[e] + k[(T \cup {e}) \ {e}]
      BY ONLY <1>2, <1>3, <1>5, <2>1, SumInAnyOrder
    <2> QED
      BY <2>1, <2>2
  <1>7. g[T] \in Int /\ h[e] \in Int /\ k[T] = g[T]
    BY <1>1, <1>4, SumTyped
  <1> QED
    BY <1>1, <1>3, <1>6, <1>7

-----------------------------------------------------------------------------
(* Gamification: balances. *)

PointsFor(p) == [i \in DOMAIN entries |-> IF entries[i].person = p THEN entries[i].points ELSE 0]
LedgerInv ==
    /\ IsFiniteSet(DOMAIN entries) /\ DOMAIN entries \subseteq DOMAIN Earning \cup AdjustId
    /\ entries \in [DOMAIN entries -> [person : Earner, points : Int]]
    /\ balance \in [Earner -> Int] /\ \A p \in Earner : balance[p] = Sum(PointsFor(p))

LEMMA BalancesAreSums == G!BalanceIsLedgerSum <=> balance = [p \in Earner |-> Sum(PointsFor(p))]
  BY SumFunctionIsSum DEF G!BalanceIsLedgerSum, G!Sums, PointsFor

LEMMA LedgerRecorded ==
  ASSUME LedgerInv, NEW id \in DOMAIN Earning \cup AdjustId, NEW p \in Earner, NEW points \in Int, G!Record(id, p, points)
  PROVE  LedgerInv'
  <1>1. CASE id \in DOMAIN entries
    <2>1. UNCHANGED <<entries, balance>>
      BY <1>1 DEF G!Record, G!IsNew
    <2> QED
      BY <2>1 DEF LedgerInv, PointsFor
  <1>2. CASE id \notin DOMAIN entries
    <2> DEFINE T == DOMAIN entries
    <2>1. /\ entries' = [x \in T \cup {id} |-> IF x = id THEN [person |-> p, points |-> points] ELSE entries[x]]
          /\ balance' = [balance EXCEPT ![p] = @ + points]
      BY <1>2 DEF G!Record, G!IsNew, G!Inserted
    <2>2. DOMAIN entries' = T \cup {id} /\ entries'[id] = [person |-> p, points |-> points]
      BY <2>1
    <2>3. \A x \in T : entries'[x] = entries[x]
      BY <1>2, <2>1
    <2>4. IsFiniteSet(T) /\ IsFiniteSet(T \cup {id})
      BY FS_AddElement DEF LedgerInv
    <2>5. \A x \in T : entries[x] \in [person : Earner, points : Int]
      BY DEF LedgerInv
    <2>6. entries' \in [T \cup {id} -> [person : Earner, points : Int]]
      BY <2>1, <2>5
    <2>7. balance' \in [Earner -> Int]
      BY <2>1 DEF LedgerInv
    <2>8. ASSUME NEW q \in Earner PROVE balance'[q] = Sum(PointsFor(q)')
      <3> PICK f : f = PointsFor(q)
        OBVIOUS
      <3> PICK h : h = PointsFor(q)'
        OBVIOUS
      <3>1. f \in [T -> Int]
        BY <2>5 DEF PointsFor
      <3>2. h \in [T \cup {id} -> Int] /\ h[id] = (IF p = q THEN points ELSE 0)
        BY <2>2, <2>3, <2>5 DEF PointsFor
      <3>3. \A x \in T : h[x] = f[x]
        BY <2>2, <2>3 DEF PointsFor
      <3> HIDE DEF T
      <3>4. Sum(h) = Sum(f) + h[id]
        BY ONLY <1>2, <2>4, <3>1, <3>2, <3>3, SumGrows DEF T
      <3>5. balance[q] = Sum(f) /\ balance[q] \in Int
        BY DEF LedgerInv
      <3> QED
        BY <2>1, <3>2, <3>4, <3>5 DEF LedgerInv
    <2> QED
      BY <2>2, <2>4, <2>6, <2>7, <2>8 DEF LedgerInv
  <1> QED
    BY <1>1, <1>2

LEMMA EventPoints == \A e \in DOMAIN Earning : Earning[e].person \in Earner /\ G!PointsOf(e) \in Int
  BY EarningAssumption DEF G!PointsOf, G!dispatchInboundEvent, G!handleHoursApproved, G!handleModuleCompleted,
     G!handleCourseCompleted, G!computeHoursApprovedPoints, G!POINTS_PER_HOUR, G!POINTS_FOR_MODULE_COMPLETED,
     G!POINTS_FOR_COURSE_COMPLETED

LEMMA LedgerStep ==
  ASSUME LedgerInv, RewardsInv, [G!Next]_(G!vars)
  PROVE  LedgerInv'
  <1>1. CASE UNCHANGED <<entries, balance>>
    BY <1>1 DEF LedgerInv, PointsFor
  <1>2. ASSUME NEW c \in Earner, NEW p \in Earner, NEW id \in AdjustId, NEW n \in Adjustment,
               G!adminAdjustPoints(c, p, id, n)
        PROVE  LedgerInv'
    BY <1>2, PointsAssumption, LedgerRecorded DEF G!adminAdjustPoints
  <1>3. ASSUME NEW w \in Worker, G!Handle(w)
        PROVE  LedgerInv'
    <2>1. tx[w] \in {G!Idle} \cup [op : {"handle"}, event : DOMAIN Earning]
      BY DEF RewardsInv, RewardsTyped
    <2>2. tx[w].op = "handle" /\ G!Idle.op # "handle"
      BY <1>3 DEF G!Handle, G!Handling, G!Idle
    <2>3. PICK e \in DOMAIN Earning : e = tx[w].event
      BY <2>1, <2>2
    <2>4. G!Record(e, Earning[e].person, G!PointsOf(e))
      BY <1>3, <2>3 DEF G!Handle
    <2> QED
      BY <2>4, EventPoints, LedgerRecorded
  <1>4. CASE UNCHANGED G!vars
    BY <1>1, <1>4 DEF G!vars
  <1>5. CASE G!Next
    BY <1>1, <1>2, <1>3, <1>5 DEF G!Next, G!AdminRequest, G!adminAwardBadge, G!RecordPoints, G!Rollback
  <1> QED
    BY <1>4, <1>5

LEMMA LedgerStart == G!Init => LedgerInv
  <1> SUFFICES ASSUME G!Init PROVE LedgerInv
    OBVIOUS
  <1>1. DOMAIN entries = {} /\ entries \in [{} -> [person : Earner, points : Int]]
    BY DEF G!Init
  <1>2. \A p \in Earner : PointsFor(p) \in [{} -> Int]
    BY <1>1 DEF PointsFor
  <1>3. \A p \in Earner : Sum(PointsFor(p)) = 0
    BY <1>2, SumOfNone
  <1> QED
    BY <1>1, <1>3, FS_EmptySet DEF G!Init, LedgerInv

-----------------------------------------------------------------------------
(* Leaderboard. *)

LEMMA MembersFinite ==
    /\ IsFiniteSet(L!Member) /\ Cardinality(L!Member) \in Nat /\ Cardinality(L!Member) <= Len(Roster)
    /\ L!Cardinality(L!Member) = Cardinality(L!Member)
  <1>1. Len(Roster) \in Nat /\ DOMAIN Roster = 1..Len(Roster)
    BY RosterAssumption, LenProperties
  <1>2. L!Member = {Roster[i] : i \in 1..Len(Roster)}
    BY <1>1 DEF L!Member, L!Range
  <1>3. Roster \in Surjection(1..Len(Roster), L!Member)
    <2>1. Roster = [i \in 1..Len(Roster) |-> Roster[i]]
      BY <1>1, RosterAssumption
    <2>2. Roster \in [1..Len(Roster) -> L!Member]
      BY <1>2, <2>1
    <2> QED
      BY <1>2, <2>2 DEF Surjection
  <1>4. IsFiniteSet(1..Len(Roster)) /\ Cardinality(1..Len(Roster)) = Len(Roster)
    <2>1. ASSUME NEW len \in Nat PROVE IsFiniteSet(1..len) /\ Cardinality(1..len) = len
      BY FS_Interval
    <2> QED
      BY <1>1, <2>1
  <1>5. IsFiniteSet(L!Member) /\ Cardinality(L!Member) <= Len(Roster)
    BY <1>3, <1>4, FS_Surjection
  <1> QED
    BY <1>5, FS_CardinalityType DEF L!Cardinality, Cardinality

\* The ranking names every member once, and nobody behind one with fewer points.
LEMMA RankedSorted ==
  ASSUME NEW sums \in [L!Member -> Int]
  PROVE  /\ L!Ranked(sums) \in Bijection(1..Cardinality(L!Member), L!Member)
         /\ \A i, k \in 1..Cardinality(L!Member) :
               i < k => sums[L!Ranked(sums)[i]] >= sums[L!Ranked(sums)[k]]
  <1> DEFINE T == L!Member
             n == Cardinality(T)
             Sorted(s) == L!IsInjective(s) /\ \A i, k \in DOMAIN s : i < k => sums[s[i]] >= sums[s[k]]
  <1>1. IsFiniteSet(T) /\ n \in Nat /\ IsFiniteSet(1..n) /\ Cardinality(1..n) = n
    BY MembersFinite, FS_Interval
  <1>2. PICK pos \in Bijection(T, 1..n) : TRUE
    BY <1>1, FS_SameCardinalityBij DEF ExistsBijection
  <1>3. pos \in [T -> 1..n] /\ \A x, y \in T : pos[x] = pos[y] => x = y
    BY <1>2 DEF Bijection, Injection, IsInjective
  <1>4. \A x \in T : pos[x] \in Int /\ sums[x] \in Int
    BY <1>1, <1>3
  <1> DEFINE Above(x, y) == sums[x] > sums[y] \/ (sums[x] = sums[y] /\ pos[x] < pos[y])
             Before == {z \in T \X T : Above(z[1], z[2])}
  <1>5. \A x, y \in T : <<x, y>> \in Before <=> Above(x, y)
    OBVIOUS
  <1>6. \A x \in T : ~Above(x, x)
    BY <1>4
  <1>7. ASSUME NEW x \in T, NEW y \in T, x # y PROVE Above(x, y) \/ Above(y, x)
    <2>1. pos[x] # pos[y] /\ pos[x] \in Int /\ pos[y] \in Int /\ sums[x] \in Int /\ sums[y] \in Int
      BY <1>3, <1>4, <1>7
    <2> QED
      BY <2>1
  <1>8. ASSUME NEW x \in T, NEW y \in T, NEW z \in T, Above(x, y), Above(y, z) PROVE Above(x, z)
    <2>1. /\ pos[x] \in Int /\ pos[y] \in Int /\ pos[z] \in Int
          /\ sums[x] \in Int /\ sums[y] \in Int /\ sums[z] \in Int
      BY <1>4
    <2> QED
      BY <1>8, <2>1
  <1> HIDE DEF Above, Before
  <1>9. PICK s \in [1..n -> T] : \A i, k \in 1..n : i < k => <<s[i], s[k]>> \in Before
    <2>1. \A x \in T : <<x, x>> \notin Before
      BY <1>5, <1>6
    <2>2. \A x, y \in T : x # y => <<x, y>> \in Before \/ <<y, x>> \in Before
      BY <1>5, <1>7
    <2>3. \A x, y, z \in T : <<x, y>> \in Before /\ <<y, z>> \in Before => <<x, z>> \in Before
      BY <1>5, <1>8
    <2> QED
      BY <1>1, <2>1, <2>2, <2>3, Enumerated
  <1>10. Sorted(s)
    <2>1. DOMAIN s = 1..n
      OBVIOUS
    <2>2. ASSUME NEW i \in 1..n, NEW k \in 1..n, i < k PROVE s[i] # s[k] /\ sums[s[i]] >= sums[s[k]]
      <3>1. s[i] \in T /\ s[k] \in T /\ Above(s[i], s[k])
        BY <1>5, <1>9, <2>2
      <3> QED
        BY <1>4, <1>6, <3>1 DEF Above
    <2>3. ASSUME NEW i \in 1..n, NEW k \in 1..n, s[i] = s[k] PROVE i = k
      <3>1. ~(i < k) /\ ~(k < i)
        BY <2>2, <2>3
      <3> QED
        BY <1>1, <3>1
    <2> QED
      BY <2>1, <2>2, <2>3 DEF L!IsInjective
  <1> HIDE DEF Sorted
  <1>11. L!Ranked(sums) = CHOOSE r \in [1..n -> T] : Sorted(r)
    BY MembersFinite DEF L!Ranked, Sorted
  <1> PICK r : r = L!Ranked(sums)
    OBVIOUS
  <1>12. r \in [1..n -> T] /\ Sorted(r)
    BY <1>10, <1>11
  <1>13. DOMAIN r = 1..n
    BY <1>12
  <1>14. r \in Injection(1..n, T)
    BY <1>12, <1>13 DEF Sorted, L!IsInjective, Injection, IsInjective
  <1>15. r \in Surjection(1..n, T)
    BY <1>1, <1>14, FS_Injection
  <1> QED
    BY <1>12, <1>13, <1>14, <1>15 DEF Sorted, Bijection

\* The rows of a ranking.
RightRanking(table, sums) ==
    \A p \in L!Member :
        /\ table[p].points = sums[p] /\ table[p].rank \in 1..Len(Roster)
        /\ table[p].rank = 1 + Cardinality({q \in L!Member : sums[q] > sums[p]})

\* Who has the i-th place of a list gets the rank of the first place with the
\* same points, and those who have more are those before that place.
LEMMA RankingIsRight ==
  ASSUME NEW sums \in [L!Member -> Int]
  PROVE  /\ L!Ranking(sums) \in [L!Member -> [rank : 1..Len(Roster), points : Int]]
         /\ RightRanking(L!Ranking(sums), sums)
  <1> DEFINE T == L!Member
             n == Cardinality(T)
             s == L!Ranked(sums)
             ranks == L!Ranks(s, sums)
  <1>1. IsFiniteSet(T) /\ n \in Nat /\ n <= Len(Roster) /\ Len(Roster) \in Nat
    BY MembersFinite, RosterAssumption, LenProperties
  <1>2. /\ s \in Bijection(1..n, T)
        /\ \A i, k \in 1..n : i < k => sums[s[i]] >= sums[s[k]]
    BY RankedSorted
  <1>3. L!Ranking(sums) = [p \in T |-> [rank |-> ranks[CHOOSE i \in DOMAIN s : s[i] = p], points |-> sums[p]]]
    BY DEF L!Ranking
  <1> HIDE DEF s, ranks
  <1>4. /\ s \in [1..n -> T] /\ DOMAIN s = 1..n
        /\ \A i, k \in 1..n : s[i] = s[k] => i = k
        /\ \A p \in T : \E i \in 1..n : s[i] = p
    BY <1>2 DEF Bijection, Injection, Surjection, IsInjective
  <1>5. \A i \in 1..n : i \in Int /\ s[i] \in T /\ sums[s[i]] \in Int
    BY <1>1, <1>4
  <1> HIDE DEF n
  <1>6. ASSUME NEW i \in 1..n
        PROVE  /\ ranks[i] \in 1..n
               /\ ranks[i] = 1 + Cardinality({q \in T : sums[q] > sums[s[i]]})
    <2> DEFINE Same == {k \in 1..n : sums[s[k]] = sums[s[i]]}
               Changes == {k \in 1..i : k = 1 \/ sums[s[k]] # sums[s[k - 1]]}
    <2>1. PICK m \in Same : \A k \in Same : m <= k
      <3>1. Same \subseteq Nat /\ Same # {}
        BY <1>1
      <3> HIDE DEF Same
      <3> QED
        BY <3>1, LeastNumber
    <2>2. m \in 1..n /\ m \in Int /\ n \in Int /\ m <= i /\ i <= n /\ i \in Int /\ 1 <= m
      BY <1>1, <2>1
    <2>3. \A k \in 1..n : k < m => sums[s[k]] > sums[s[i]]
      <3> SUFFICES ASSUME NEW k \in 1..n, k < m PROVE sums[s[k]] > sums[s[i]]
        OBVIOUS
      <3>1. k \in Int /\ ~(m <= k) /\ k < i
        BY <2>2
      <3>2. sums[s[k]] >= sums[s[i]] /\ sums[s[k]] # sums[s[i]]
        BY <1>2, <2>1, <3>1
      <3> QED
        BY <1>5, <3>2
    <2>4. \A k \in 1..n : m <= k => sums[s[i]] >= sums[s[k]]
      <3> SUFFICES ASSUME NEW k \in 1..n, m <= k PROVE sums[s[i]] >= sums[s[k]]
        OBVIOUS
      <3>1. m = k \/ m < k
        BY <2>2
      <3> QED
        BY <1>2, <1>5, <2>1, <3>1
    <2>5. \A k \in 1..n : m <= k /\ k <= i => sums[s[k]] = sums[s[i]]
      <3> SUFFICES ASSUME NEW k \in 1..n, m <= k, k <= i PROVE sums[s[k]] = sums[s[i]]
        OBVIOUS
      <3>1. k = i \/ k < i
        BY <2>2
      <3>2. k < i => sums[s[k]] >= sums[s[i]]
        BY <1>2
      <3> QED
        BY <1>5, <2>4, <3>1, <3>2
    <2>6. ranks[i] = L!Max(Changes)
      BY <1>4 DEF ranks, L!Ranks
    <2>7. m \in Changes
      <3>1. CASE m = 1
        BY <2>2, <3>1
      <3>2. CASE m # 1
        <4>1. m - 1 \in 1..n /\ m - 1 < m
          BY <2>2, <3>2
        <4>2. sums[s[m - 1]] > sums[s[i]] /\ sums[s[m]] = sums[s[i]]
          BY <2>1, <2>3, <4>1
        <4>3. sums[s[m]] # sums[s[m - 1]]
          BY <1>5, <4>1, <4>2
        <4> QED
          BY <2>2, <4>3
      <3> QED
        BY <3>1, <3>2
    <2>8. \A k \in Changes : k \in Int /\ m >= k
      <3> SUFFICES ASSUME NEW k \in Changes PROVE k \in Int /\ m >= k
        OBVIOUS
      <3>1. k \in 1..i /\ k \in Int /\ (k = 1 \/ sums[s[k]] # sums[s[k - 1]])
        BY <2>2
      <3>2. SUFFICES ASSUME k > m PROVE FALSE
        BY <2>2, <3>1
      <3>3. k \in 1..n /\ k - 1 \in 1..n /\ m <= k - 1 /\ k - 1 <= i /\ m <= k /\ k <= i /\ k # 1
        BY <2>2, <3>1, <3>2
      <3> QED
        BY <2>5, <3>1, <3>3
    <2>9. ranks[i] = m
      <3> HIDE DEF Changes
      <3>1. L!Max(Changes) \in Changes /\ \A k \in Changes : L!Max(Changes) >= k
        BY <2>7, <2>8 DEF L!Max
      <3>2. L!Max(Changes) \in Int /\ m >= L!Max(Changes) /\ L!Max(Changes) >= m
        BY <2>7, <2>8, <3>1
      <3> QED
        BY <2>2, <2>6, <3>2
    <2> DEFINE More == {q \in T : sums[q] > sums[s[i]]}
               first == [k \in 1..(m - 1) |-> s[k]]
    <2>10. first \in Bijection(1..(m - 1), More)
      <3>1. \A k \in 1..(m - 1) : k \in 1..n /\ k < m
        BY <2>2
      <3>2. first \in [1..(m - 1) -> More]
        BY <1>5, <2>3, <3>1
      <3>3. \A j, k \in 1..(m - 1) : first[j] = first[k] => j = k
        BY <1>4, <3>1
      <3>4. ASSUME NEW q \in More PROVE \E k \in 1..(m - 1) : first[k] = q
        <4>1. PICK k \in 1..n : s[k] = q
          BY <1>4
        <4>2. ~(m <= k)
          BY <1>5, <2>4, <4>1
        <4>3. k \in 1..(m - 1)
          BY <2>2, <4>2
        <4> QED
          BY <4>1, <4>3
      <3> HIDE DEF first, More
      <3> QED
        BY <3>2, <3>3, <3>4 DEF Bijection, Injection, Surjection, IsInjective
    <2>11. IsFiniteSet(1..(m - 1)) /\ Cardinality(1..(m - 1)) = m - 1
      BY <2>2, FS_Interval
    <2>12. Cardinality(More) = m - 1
      <3> HIDE DEF first, More
      <3> QED
        BY <2>10, <2>11, FS_Bijection DEF ExistsBijection
    <2> QED
      BY <2>2, <2>9, <2>12
  <1> PICK table : table = L!Ranking(sums)
    OBVIOUS
  <1>7. ASSUME NEW p \in T
        PROVE  /\ table[p] \in [rank : 1..Len(Roster), points : Int] /\ table[p].points = sums[p]
               /\ table[p].rank \in 1..Len(Roster)
               /\ table[p].rank = 1 + Cardinality({q \in T : sums[q] > sums[p]})
    <2>1. PICK i : i = CHOOSE k \in DOMAIN s : s[k] = p
      OBVIOUS
    <2>2. i \in 1..n /\ s[i] = p
      BY <1>4, <2>1
    <2>3. table[p] = [rank |-> ranks[i], points |-> sums[p]]
      BY <1>3, <2>1
    <2>4. ranks[i] \in 1..Len(Roster)
      <3>1. PICK len \in Nat : len = Len(Roster) /\ n <= len
        BY <1>1
      <3>2. ranks[i] \in 1..n
        BY <1>6, <2>2
      <3>3. ranks[i] \in 1..len
        BY <1>1, <3>1, <3>2
      <3> QED
        BY <3>1, <3>3
    <2> QED
      BY <1>6, <2>2, <2>3, <2>4
  <1>8. DOMAIN table = T /\ table = [p \in T |-> table[p]]
    BY <1>3
  <1> QED
    BY <1>7, <1>8 DEF RightRanking

\* What the members had when there were m entries.
SumsAt(m) == [p \in L!Member |-> L!Total(SubSeq(ledger, 1, m), p)]
OfOneMoment(rank) == \E m \in 0..Len(ledger) : rank = L!Ranking(SumsAt(m))
\* What is shown, and what a rebuild is about to show, was right at one moment.
BoardInv ==
    /\ ledger \in Seq([person : L!Member, points : Points])
    /\ board = <<>> \/ OfOneMoment(board)
    /\ rebuild = [w \in Worker |-> rebuild[w]]
    /\ \A w \in Worker : \/ rebuild[w] = L!Idle
                         \/ rebuild[w].stage \in {"ranked", "deleted"} /\ OfOneMoment(rebuild[w].rows)

LEMMA SumsTyped ==
  ASSUME BoardInv, NEW m \in 0..Len(ledger)
  PROVE  SumsAt(m) \in [L!Member -> Int]
  <1> DEFINE E == [person : L!Member, points : Points]
             before == SubSeq(ledger, 1, m)
  <1>1. ledger \in Seq(E) /\ Len(ledger) \in Nat /\ m \in Nat /\ m <= Len(ledger)
    BY LenProperties DEF BoardInv
  <1>2. \A i \in 1..m : ledger[i] \in E
    <2>1. \A i \in 1..Len(ledger) : ledger[i] \in E
      BY <1>1, ElementOfSeq
    <2>2. \A i \in 1..m : i \in 1..Len(ledger)
      BY <1>1
    <2> QED
      BY <2>1, <2>2
  <1>3. before \in Seq(E)
    <2> HIDE DEF E
    <2> QED
      BY <1>1, <1>2, SubSeqProperties
  <1> HIDE DEF before
  <1>4. Len(before) \in Nat /\ DOMAIN before = 1..Len(before)
    BY <1>3, LenProperties
  <1>5. \A i \in 1..Len(before) : before[i] \in E
    BY <1>3, ElementOfSeq
  <1>6. IsFiniteSet(1..Len(before))
    BY <1>4, FS_Interval
  <1>7. ASSUME NEW p \in L!Member PROVE L!Total(before, p) \in Int
    <2> DEFINE f == [i \in 1..Len(before) |-> IF before[i].person = p THEN before[i].points ELSE 0]
    <2>1. \A i \in 1..Len(before) : before[i].points \in Int
      <3>1. \A z \in Points : z \in Int
        BY PointsAssumption
      <3> QED
        BY <1>5, <3>1
    <2>2. f \in [1..Len(before) -> Int]
      BY <2>1
    <2>3. L!Total(before, p) = Sum(f)
      BY <1>4, SumFunctionIsSum DEF L!Total
    <2> HIDE DEF f
    <2>4. Sum(f) \in Int
      BY <1>6, <2>2, SumOfInts
    <2> QED
      BY <2>3, <2>4
  <1> QED
    BY <1>7 DEF SumsAt, before

\* What was right at some moment stays so when entries are appended.
LEMMA MomentsStay ==
  ASSUME BoardInv, NEW p \in L!Member, NEW n \in Points, ledger' = Append(ledger, [person |-> p, points |-> n])
  PROVE  /\ ledger' \in Seq([person : L!Member, points : Points])
         /\ \A rank : OfOneMoment(rank) => OfOneMoment(rank)'
  <1> DEFINE E == [person : L!Member, points : Points]
             e == [person |-> p, points |-> n]
  <1>1. ledger \in Seq(E) /\ Len(ledger) \in Nat /\ e \in E
    BY LenProperties DEF BoardInv
  <1>2. ledger' = Append(ledger, e)
    OBVIOUS
  <1> HIDE DEF E, e
  <1>3. ledger' \in Seq(E) /\ Len(ledger') = Len(ledger) + 1 /\ ledger' = ledger \o <<e>>
    BY <1>1, <1>2, AppendProperties, AppendIsConcat
  <1>4. <<e>> \in Seq(E)
    BY <1>1
  <1>5. ASSUME NEW m \in 0..Len(ledger) PROVE SubSeq(ledger', 1, m) = SubSeq(ledger, 1, m)
    <2>1. CASE m = 0
      BY <2>1, SubSeqEmpty
    <2>2. CASE m # 0
      <3>1. m \in 1..Len(ledger) /\ 1 \in 1..Len(ledger)
        BY <1>1, <2>2
      <3> QED
        BY <1>1, <1>3, <1>4, <3>1, SubSeqOfConcat1
    <2> QED
      BY <2>1, <2>2
  <1>6. \A m \in 0..Len(ledger) : SumsAt(m)' = SumsAt(m) /\ m \in 0..Len(ledger')
    <2> SUFFICES ASSUME NEW m \in 0..Len(ledger) PROVE SumsAt(m)' = SumsAt(m) /\ m \in 0..Len(ledger')
      OBVIOUS
    <2>1. SubSeq(ledger, 1, m)' = SubSeq(ledger, 1, m)
      BY <1>5
    <2>2. SumsAt(m)' = SumsAt(m)
      BY <2>1 DEF SumsAt, L!Total
    <2> QED
      BY <1>1, <1>3, <2>2
  <1>7. ASSUME NEW rank, OfOneMoment(rank) PROVE OfOneMoment(rank)'
    BY <1>6, <1>7 DEF OfOneMoment
  <1> QED
    BY <1>3, <1>7 DEF E

LEMMA BoardStart == L!Init => BoardInv
  BY DEF L!Init, BoardInv

LEMMA BoardStep == BoardInv /\ [L!Next]_(L!vars) => BoardInv'
  <1> SUFFICES ASSUME BoardInv, [L!Next]_(L!vars) PROVE BoardInv'
    OBVIOUS
  <1>1. CASE UNCHANGED L!vars
    BY <1>1 DEF L!vars, BoardInv, OfOneMoment, SumsAt
  <1>2. ASSUME NEW p \in L!Member, NEW n \in Points, L!Earn(p, n)
        PROVE  BoardInv'
    <2>1. UNCHANGED <<board, rebuild>> /\ ledger' = Append(ledger, [person |-> p, points |-> n])
      BY <1>2 DEF L!Earn
    <2>2. /\ ledger' \in Seq([person : L!Member, points : Points])
          /\ \A rank : OfOneMoment(rank) => OfOneMoment(rank)'
      BY <2>1, MomentsStay
    <2> QED
      BY <2>1, <2>2 DEF BoardInv
  <1>3. ASSUME UNCHANGED ledger, NEW w \in Worker, NEW to, rebuild' = [rebuild EXCEPT ![w] = to],
               to = L!Idle \/ (to.stage \in {"ranked", "deleted"} /\ OfOneMoment(to.rows)),
               board' = board \/ OfOneMoment(board')
        PROVE  BoardInv'
    <2>1. \A rank : OfOneMoment(rank) => OfOneMoment(rank)'
      BY <1>3 DEF OfOneMoment, SumsAt
    <2>2. board' = <<>> \/ OfOneMoment(board)'
      BY <1>3, <2>1 DEF BoardInv
    <2>3. rebuild' = [v \in Worker |-> rebuild'[v]] /\ rebuild'[w] = to
          /\ \A v \in Worker : v # w => rebuild'[v] = rebuild[v]
      BY <1>3 DEF BoardInv
    <2>4. ASSUME NEW v \in Worker
          PROVE  \/ rebuild'[v] = L!Idle
                 \/ rebuild'[v].stage \in {"ranked", "deleted"} /\ OfOneMoment(rebuild[v].rows)'
      <3>1. CASE v = w
        BY <1>3, <2>1, <2>3, <3>1
      <3>2. CASE v # w
        BY <2>1, <2>3, <3>2 DEF BoardInv
      <3> QED
        BY <3>1, <3>2
    <2> QED
      BY <1>3, <2>2, <2>3, <2>4 DEF BoardInv
  <1>4. ASSUME NEW w \in Worker, L!ReadTotals(w)
        PROVE  BoardInv'
    <2> DEFINE now == L!Ranking([p \in L!Member |-> L!Total(ledger, p)])
    <2>1. OfOneMoment(now)
      <3>1. Len(ledger) \in 0..Len(ledger) /\ SubSeq(ledger, 1, Len(ledger)) = ledger
        BY LenProperties, SubSeqFull DEF BoardInv
      <3>2. now = L!Ranking(SumsAt(Len(ledger)))
        BY <3>1 DEF SumsAt
      <3> QED
        BY <3>1, <3>2 DEF OfOneMoment
    <2>2. UNCHANGED <<ledger, board>> /\ rebuild' = [rebuild EXCEPT ![w] = [stage |-> "ranked", rows |-> now]]
      BY <1>4 DEF L!ReadTotals
    <2> HIDE DEF now
    <2> QED
      BY <1>3, <2>1, <2>2
  <1>5. ASSUME NEW w \in Worker, rebuild[w].stage \in {"ranked", "deleted"}
        PROVE  OfOneMoment(rebuild[w].rows)
    BY <1>5 DEF BoardInv, L!Idle
  <1>6. ASSUME NEW w \in Worker, L!DeleteRows(w)
        PROVE  BoardInv'
    BY <1>3, <1>5, <1>6 DEF L!DeleteRows
  <1>7. ASSUME NEW w \in Worker, L!InsertRows(w)
        PROVE  BoardInv'
    <2>1. board' = board \/ OfOneMoment(board')
      BY <1>5, <1>7 DEF L!InsertRows
    <2> QED
      BY <1>3, <1>7, <2>1 DEF L!InsertRows
  <1>8. ASSUME NEW w \in Worker, L!Abandon(w)
        PROVE  BoardInv'
    BY <1>3, <1>8 DEF L!Abandon
  <1> QED
    BY <1>1, <1>2, <1>4, <1>6, <1>7, <1>8 DEF L!Next

LEMMA BoardInvariant == Spec => []BoardInv
  BY PartsOfBehaviour, BoardStart, BoardStep, PTL DEF L!Spec

LEMMA BoardRanks ==
  ASSUME BoardInv
  PROVE  L!BoardRanksLedger
  <1> SUFFICES ASSUME board # <<>>
               PROVE  /\ \E m \in 0..Len(ledger) :
                           \A p \in L!Member : board[p].points = L!Total(SubSeq(ledger, 1, m), p)
                      /\ \A p \in L!Member :
                           board[p].rank = 1 + Cardinality({q \in L!Member : board[q].points > board[p].points})
    BY DEF L!BoardRanksLedger, L!Cardinality, Cardinality
  <1>1. PICK m \in 0..Len(ledger) : board = L!Ranking(SumsAt(m))
    BY DEF BoardInv, OfOneMoment
  <1> PICK sums : sums = SumsAt(m)
    OBVIOUS
  <1>2. sums \in [L!Member -> Int] /\ \A p \in L!Member : sums[p] = L!Total(SubSeq(ledger, 1, m), p)
    BY SumsTyped DEF SumsAt
  <1>3. RightRanking(board, sums)
    BY <1>1, <1>2, RankingIsRight
  <1>4. \A p \in L!Member : board[p].points = sums[p]
    BY <1>3 DEF RightRanking
  <1>5. ASSUME NEW p \in L!Member
        PROVE  board[p].rank = 1 + Cardinality({q \in L!Member : board[q].points > board[p].points})
    <2>1. {q \in L!Member : board[q].points > board[p].points} = {q \in L!Member : sums[q] > sums[p]}
      BY <1>4
    <2> QED
      BY <1>3, <2>1 DEF RightRanking
  <1> QED
    BY <1>2, <1>4, <1>5

LEMMA LedgerInvariant == Spec => [](RewardsInv /\ LedgerInv)
  <1>1. G!Init => RewardsInv /\ LedgerInv
    BY RewardsStart, LedgerStart
  <1>2. RewardsInv /\ LedgerInv /\ [G!Next]_(G!vars) => RewardsInv' /\ LedgerInv'
    BY RewardsStep, LedgerStep
  <1> QED
    BY <1>1, <1>2, PartsOfBehaviour, PTL DEF G!Spec

\* The balance that is shown is the sum of the ledger, and a leaderboard is one
\* competition ranking of what the ledger held at one moment: for any events and
\* adjustments, repeated, rolled back and handled together, and any number of
\* rebuilds that overlap.
THEOREM RewardsSum == Spec => []RewardsAddUp
  <1>1. LedgerInv => G!BalanceIsLedgerSum
    BY BalancesAreSums DEF LedgerInv
  <1>2. LedgerInv /\ BoardInv => RewardsAddUp
    BY <1>1, BoardRanks DEF RewardsAddUp
  <1> QED
    BY <1>2, BoardInvariant, LedgerInvariant, PTL

-----------------------------------------------------------------------------
(* Types. *)

LEMMA RewardsTypeOK ==
  ASSUME RewardsInv, LedgerInv
  PROVE  G!TypeOK
  <1>1. \A w \in Worker : tx[w].op \in {"idle", "handle"}
    <2>1. \A w \in Worker : tx[w] \in {G!Idle} \cup [op : {"handle"}, event : DOMAIN Earning]
      BY DEF RewardsInv, RewardsTyped
    <2> QED
      BY <2>1 DEF G!Idle
  <1>2. \A p \in Earner, a \in G!Activity : streak[p][a] \in G!StreakState
    BY DEF RewardsInv, RewardsTyped
  <1> QED
    BY <1>1, <1>2 DEF RewardsInv, RewardsTyped, LedgerInv, G!TypeOK

LEMMA BoardTypeOK ==
  ASSUME BoardInv
  PROVE  L!TypeOK
  <1>1. board \in L!Board \/ board = <<>>
    <2> SUFFICES ASSUME board # <<>> PROVE board \in L!Board
      OBVIOUS
    <2>1. PICK m \in 0..Len(ledger) : board = L!Ranking(SumsAt(m))
      BY DEF BoardInv, OfOneMoment
    <2> QED
      BY <2>1, SumsTyped, RankingIsRight DEF L!Board
  <1>2. \A w \in Worker : rebuild[w].stage \in {"idle", "ranked", "deleted"}
    BY DEF BoardInv, L!Idle
  <1> QED
    BY <1>1, <1>2 DEF BoardInv, L!TypeOK

LEMMA WalkTypeOK ==
  ASSUME WalkInv
  PROVE  P!TypeOK
  <1>1. DOMAIN rows \in SUBSET (1..MaxId) /\ rows \in [DOMAIN rows -> P!State]
    BY DEF WalkInv
  <1>2. shown \in Seq(1..MaxId)
    <2>1. Len(shown) \in Nat /\ shown \in [1..Len(shown) -> 1..MaxId]
      <3>1. Len(shown) \in Nat /\ shown \in [1..Len(shown) -> Nat] /\ DOMAIN shown = 1..Len(shown)
        BY LenProperties DEF WalkInv
      <3> QED
        BY <3>1 DEF WalkInv
    <2>2. ASSUME NEW T, NEW n \in Nat, NEW s \in [1..n -> T] PROVE s \in Seq(T)
      BY IsASeq
    <2> QED
      BY <2>1, <2>2
  <1> QED
    BY <1>1, <1>2 DEF WalkInv, P!TypeOK

\* The rows are what the schema allows and calls are well formed, in each of
\* the contexts: what the database holds at any time fits its columns.
THEOREM TypeCorrect == Spec => []TypeOK
  <1>1. Spec => [](G!TypeOK /\ L!TypeOK)
    BY LedgerInvariant, BoardInvariant, RewardsTypeOK, BoardTypeOK, PTL
  <1>2. Spec => [](C!TypeOK /\ P!TypeOK)
    BY CommunityInvariant, CommunityTypeOK, WalkInvariant, WalkTypeOK, PTL
  <1>3. Spec => [](O!TypeOK /\ A!TypeOK)
    BY VolunteeringInvariant, VolunteeringTypeOK, CoursesInvariant, CoursesTypeOK, PTL
  <1>4. Spec => [](N!TypeOK /\ R!TypeOK /\ S!TypeOK)
    BY PartsOfBehaviour, NoticeAssumption, ReportIdentifiers, SanctionIdentifiers, N!TypeCorrect,
       R!TypeCorrect, S!TypeCorrect, PTL
  <1> QED
    BY <1>1, <1>2, <1>3, <1>4, PTL DEF TypeOK
=============================================================================
