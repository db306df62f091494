--------------------------- MODULE Opportunities ---------------------------
(***************************************************************************)
(* Opportunities, the shifts scheduled and cancelled under them, and the   *)
(* hours that volunteers submit and others decide.  A request reads and    *)
(* asks the policy, then writes in a transaction whose update names the    *)
(* status it read; reads of other rows are not repeated.  What cancelling  *)
(* does to applications is ShiftApplications' subject.                     *)
(***************************************************************************)
EXTENDS Integers, Authz

CONSTANTS
    Person, Facts,                  \* persons, and [Person -> set of Authz facts]
    Scope, Active,                  \* Global and the chapters; those open for publishing
    OpportunityId, ShiftId, EntryId,  \* bounds: ids
    Window,                         \* the minutes in which every shift takes place
    Span,                           \* bound: submitted <<startAt, endAt>>, in minutes
    Worker                          \* requests that may overlap

VARIABLES
    opportunities,  \* [ids -> scope and status]
    shifts,         \* [ids -> opportunity and status]
    entries,        \* [ids -> person, opportunity, shift, duration, status, approver]
    events,         \* [<<event type, id>> -> how often it was published]
    call            \* [Worker -> what it read and is about to write]

vars == <<opportunities, shifts, entries, events, call>>

Idle == [op |-> "idle"]
None == "none"
Nobody == "nobody"
MAX_DURATION_MINUTES == 1440
SHIFT_WINDOW_TOLERANCE_MINUTES == 120
\* What each transition of an opportunity leaves and reaches.
From == [publish |-> "draft", close |-> "published", archive |-> "closed"]
To == [publish |-> "published", close |-> "closed", archive |-> "archived"]
Decision == {"approved", "rejected"}
EventKey == ({"OpportunityPublished"} \X OpportunityId) \cup ({"ShiftScheduled", "ShiftCancelled"} \X ShiftId)
            \cup (({"HoursSubmitted"} \cup Decision) \X EntryId)

TypeOK ==
    /\ \E ids \in SUBSET OpportunityId :
         opportunities \in [ids -> [scope : Scope, status : {"draft", "published", "closed", "archived"}]]
    /\ \E ids \in SUBSET ShiftId :
         shifts \in [ids -> [opportunity : DOMAIN opportunities, status : {"scheduled", "cancelled"}]]
    /\ \E ids \in SUBSET EntryId :
         entries \in [ids -> [person : Person, opportunity : DOMAIN opportunities, shift : DOMAIN shifts \cup {None},
                              durationMinutes : 1..MAX_DURATION_MINUTES,
                              status : {"submitted"} \cup Decision, approver : Person \cup {Nobody}]]
    /\ events \in [EventKey -> Nat]
    /\ \A w \in Worker : call[w].op \in {"idle", "schedule", "cancel"} \cup DOMAIN To \cup Decision

Init ==
    /\ opportunities = <<>> /\ shifts = <<>> /\ entries = <<>>
    /\ events = [k \in EventKey |-> 0]
    /\ call = [w \in Worker |-> Idle]

With(f, id, row) == [k \in DOMAIN f \cup {id} |-> IF k = id THEN row ELSE f[k]]
Publish(type, id) == events' = [events EXCEPT ![<<type, id>>] = @ + 1]
Done(w) == call' = [call EXCEPT ![w] = Idle]
Read(w, c) == /\ call[w] = Idle /\ call' = [call EXCEPT ![w] = c]
              /\ UNCHANGED <<opportunities, shifts, entries, events>>

\* assertVolunteeringAuthority
Allowed(p, action, scope) == Can([id |-> p, status |-> "active"], action, InScope(scope), Facts[p])
-----------------------------------------------------------------------------
createOpportunity(p, o, scope) ==
    /\ o \notin DOMAIN opportunities /\ Allowed(p, "opportunity.create", scope)
    /\ opportunities' = With(opportunities, o, [scope |-> scope, status |-> "draft"])
    /\ UNCHANGED <<shifts, entries, events, call>>

\* Each step of the lifecycle reads a status, and its update asks for it again.
ReadToMove(w, p, o, op) ==
    /\ opportunities[o].status = From[op]
    /\ Allowed(p, "opportunity.manage", opportunities[o].scope)
    /\ Read(w, [op |-> op, opportunity |-> o])
\* Mutant: the update finds the opportunity by its id alone.
AnyStatus(o, op) == TRUE
StillFrom(o, op) == opportunities[o].status = From[op]
Move(w, op) == LET o == call[w].opportunity IN
    /\ call[w].op = op /\ StillFrom(o, op)
    /\ opportunities' = [opportunities EXCEPT ![o].status = To[op]]
    /\ Done(w) /\ UNCHANGED <<shifts, entries>>

\* Publishing asks for an open chapter.
ReadToPublish(w, p, o) == opportunities[o].scope \in Active \cup {Global} /\ ReadToMove(w, p, o, "publish")
publishOpportunity(w) == Move(w, "publish") /\ Publish("OpportunityPublished", call[w].opportunity)

ReadToClose(w, p, o) == ReadToMove(w, p, o, "close")
closeOpportunity(w) == Move(w, "close") /\ UNCHANGED events

\* Archiving asks for no scheduled shift; a shift may still come after that.
NoShiftScheduled(o) == \A s \in DOMAIN shifts : shifts[s].opportunity = o => shifts[s].status # "scheduled"
ReadToArchive(w, p, o) == NoShiftScheduled(o) /\ ReadToMove(w, p, o, "archive")
archiveOpportunity(w) == Move(w, "archive") /\ UNCHANGED events
-----------------------------------------------------------------------------
ReadToSchedule(w, p, o) ==
    /\ opportunities[o].status = "published" /\ Allowed(p, "shift.manage", opportunities[o].scope)
    /\ Read(w, [op |-> "schedule", opportunity |-> o])
\* An insert that nothing guards.
scheduleShift(w, s) == LET o == call[w].opportunity IN
    /\ call[w].op = "schedule" /\ s \notin DOMAIN shifts
    /\ shifts' = With(shifts, s, [opportunity |-> o, status |-> "scheduled"])
    /\ Publish("ShiftScheduled", s) /\ Done(w) /\ UNCHANGED <<opportunities, entries>>

Approved(s) == {e \in DOMAIN entries : entries[e].shift = s /\ entries[e].status = "approved"}
ReadToCancel(w, p, s) ==
    /\ shifts[s].status = "scheduled" /\ Approved(s) = {}
    /\ Allowed(p, "shift.manage", opportunities[shifts[s].opportunity].scope)
    /\ Read(w, [op |-> "cancel", shift |-> s])
cancelShift(w) == LET s == call[w].shift IN
    /\ call[w].op = "cancel" /\ shifts[s].status = "scheduled"
    /\ shifts' = [shifts EXCEPT ![s].status = "cancelled"]
    /\ Publish("ShiftCancelled", s) /\ Done(w) /\ UNCHANGED <<opportunities, entries>>
-----------------------------------------------------------------------------
\* Mutant: only a span that ends before it starts is refused.
FitsAnyLength(span, s) ==
    /\ span[2] > span[1]
    /\ s # None => /\ span[1] >= Window[1] - SHIFT_WINDOW_TOLERANCE_MINUTES
                   /\ span[2] <= Window[2] + SHIFT_WINDOW_TOLERANCE_MINUTES
Fits(span, s) ==
    LET minutes == span[2] - span[1] IN
    /\ minutes \in 1..MAX_DURATION_MINUTES
    /\ s # None => /\ span[1] >= Window[1] - SHIFT_WINDOW_TOLERANCE_MINUTES
                   /\ span[2] <= Window[2] + SHIFT_WINDOW_TOLERANCE_MINUTES

\* For any opportunity and shift, whatever their status.
submitHours(p, e, o, s, span) ==
    /\ e \notin DOMAIN entries /\ Fits(span, s)
    /\ s # None => shifts[s].opportunity = o
    /\ entries' = With(entries, e, [person |-> p, opportunity |-> o, shift |-> s,
                                    durationMinutes |-> span[2] - span[1],
                                    status |-> "submitted", approver |-> Nobody])
    /\ Publish("HoursSubmitted", e) /\ UNCHANGED <<opportunities, shifts, call>>

\* Nobody decides about their own hours.
ReadToDecide(w, p, e, decision, action) ==
    /\ entries[e].status = "submitted" /\ p # entries[e].person
    /\ Allowed(p, action, opportunities[entries[e].opportunity].scope)
    /\ Read(w, [op |-> decision, by |-> p, entry |-> e])
ReadToApprove(w, p, e) == ReadToDecide(w, p, e, "approved", "hour_entry.approve")
ReadToReject(w, p, e) == ReadToDecide(w, p, e, "rejected", "hour_entry.reject")

\* Mutant: the update finds the entry by its id alone.
Exists(e) == e \in DOMAIN entries
StillSubmitted(e) == entries[e].status = "submitted"
Decide(w, decision) == LET c == call[w] IN
    /\ c.op = decision /\ StillSubmitted(c.entry)
    /\ entries' = [entries EXCEPT ![c.entry] = [@ EXCEPT !.status = decision, !.approver = c.by]]
    /\ Publish(decision, c.entry) /\ Done(w) /\ UNCHANGED <<opportunities, shifts>>
approveHours(w) == Decide(w, "approved")
rejectHours(w) == Decide(w, "rejected")

\* The row is no longer as it was read, the request fails or its server dies.
Abandon(w) == call[w] # Idle /\ Done(w) /\ UNCHANGED <<opportunities, shifts, entries, events>>
-----------------------------------------------------------------------------
\* The mutations of the volunteering router, up to their transactions;
\* closing and archiving have no procedure there.
OpportunityRequest(w, p, o) ==
    ReadToPublish(w, p, o) \/ ReadToClose(w, p, o) \/ ReadToArchive(w, p, o)
ShiftRequest(w, p) ==
    \/ \E o \in DOMAIN opportunities : ReadToSchedule(w, p, o)
    \/ \E s \in DOMAIN shifts : ReadToCancel(w, p, s)
HourRequest(w, p) == \E e \in DOMAIN entries : ReadToApprove(w, p, e) \/ ReadToReject(w, p, e)

Next ==
    \/ \E p \in Person, o \in OpportunityId, scope \in Scope : createOpportunity(p, o, scope)
    \/ \E p \in Person, e \in EntryId, o \in DOMAIN opportunities, s \in DOMAIN shifts \cup {None}, span \in Span :
         submitHours(p, e, o, s, span)
    \/ \E w \in Worker, p \in Person :
         ShiftRequest(w, p) \/ HourRequest(w, p) \/ \E o \in DOMAIN opportunities : OpportunityRequest(w, p, o)
    \/ \E w \in Worker :
         \/ publishOpportunity(w) \/ closeOpportunity(w) \/ archiveOpportunity(w)
         \/ (\E s \in ShiftId : scheduleShift(w, s)) \/ cancelShift(w)
         \/ approveHours(w) \/ rejectHours(w) \/ Abandon(w)

Spec == Init /\ [][Next]_vars
-----------------------------------------------------------------------------
\* Hours are decided once, by someone else, and each decision told to the
\* other contexts once, however many approvers read the same entry; they are
\* never more than a day.
HoursDecidedOnce ==
    \A e \in DOMAIN entries : LET r == entries[e] IN
        /\ r.approver # r.person /\ (r.status = "submitted" <=> r.approver = Nobody)
        /\ \A d \in Decision : events[<<d, e>>] = (IF r.status = d THEN 1 ELSE 0)

\* The other contexts hear once that an opportunity was published and that a
\* shift was cancelled, and nothing of those that were not, however many
\* requests had found them as they were before.
TransitionsToldOnce ==
    /\ \A o \in OpportunityId : events[<<"OpportunityPublished", o>>] =
         (IF o \in DOMAIN opportunities /\ opportunities[o].status # "draft" THEN 1 ELSE 0)
    /\ \A s \in ShiftId : events[<<"ShiftCancelled", s>>] =
         (IF s \in DOMAIN shifts /\ shifts[s].status = "cancelled" THEN 1 ELSE 0)
=============================================================================
