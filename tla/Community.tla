------------------------------ MODULE Community ------------------------------
(***************************************************************************)
(* Teams and mentorships, and the feed: entries written with what they are *)
(* about, and entries projected from the events of other contexts.  A      *)
(* request decides from what it reads and writes in a later transaction,   *)
(* which a unique index may refuse.                                        *)
(***************************************************************************)
EXTENDS Naturals, Tables

CONSTANTS
    Person,        \* registered persons
    TeamId, Name,  \* bound: teams of a chapter, and their names
    MemberId,      \* bound: ids of memberships
    MentorshipId,  \* bound: ids of mentorships
    EventId,       \* bound: inbound events that the feed recognises
    Inbound,       \* [EventId -> type, and the length of an extended streak]
    Worker         \* requests and consumers that may overlap

VARIABLES
    teams,        \* [created ids -> name and creator]
    memberships,  \* [ids -> team, person and role], never left
    mentorships,  \* [ids -> mentor, mentee and status]
    consumed,     \* event ids in the ledger of processed events
    feed,         \* the feed's entries: <<kind, id of the source>>
    call          \* [Worker -> what it read and is about to write]

vars == <<teams, memberships, mentorships, consumed, feed, call>>
team == <<teams, memberships>>

Idle == [op |-> "idle"]
Call == [op : {"create"}, by : Person, name : Name]
        \cup [op : {"join"}, by : Person, team : TeamId]
        \cup [op : {"request"}, by : Person, mentor : Person]
        \cup [op : {"accept"}, mentorship : MentorshipId]
        \cup [op : {"project"}, event : EventId]

TypeOK ==
    /\ \E ids \in SUBSET TeamId : teams \in [ids -> [name : Name, by : Person]]
    /\ \E ids \in SUBSET MemberId :
         memberships \in [ids -> [team : DOMAIN teams, person : Person, role : {"lead", "member"}]]
    /\ \E ids \in SUBSET MentorshipId :
         mentorships \in [ids -> [mentor : Person, mentee : Person, status : {"requested", "active"}]]
    /\ consumed \subseteq EventId
    /\ call \in [Worker -> Call \cup {Idle}]

Init ==
    /\ teams = <<>> /\ memberships = <<>> /\ mentorships = <<>>
    /\ consumed = {} /\ feed = {}
    /\ call = [w \in Worker |-> Idle]

Read(w, c) == call[w] = Idle /\ call' = [call EXCEPT ![w] = c] /\ UNCHANGED <<team, mentorships, consumed, feed>>
Done(w) == call' = [call EXCEPT ![w] = Idle]
-----------------------------------------------------------------------------
Named(name) == {t \in DOMAIN teams : teams[t].name = name}
MembershipsOf(t, p) == {m \in DOMAIN memberships : memberships[m].team = t /\ memberships[m].person = p}
OpenFor(mentee) == {m \in DOMAIN mentorships : mentorships[m].mentee = mentee}

\* Mutant: the index counts active mentorships only.
ConflictsWhenActive(mentee) == {m \in OpenFor(mentee) : mentorships[m].status = "active"}
\* uq_mentorship_open_mentee: requested or active, and nothing else occurs.
Conflicts(mentee) == OpenFor(mentee)

ReadToCreateTeam(w, p, name) == Named(name) = {} /\ Read(w, [op |-> "create", by |-> p, name |-> name])
\* uq_team_chapter_name_active refuses the second of two.
CreateTeam(w, t, m) == LET c == call[w] IN
    /\ c.op = "create" /\ Named(c.name) = {}
    /\ t \notin DOMAIN teams /\ m \notin DOMAIN memberships
    /\ teams' = Inserted(teams, t, [name |-> c.name, by |-> c.by])
    /\ memberships' = Inserted(memberships, m, [team |-> t, person |-> c.by, role |-> "lead"])
    /\ Done(w) /\ UNCHANGED <<mentorships, consumed, feed>>

ReadToJoinTeam(w, p, t) == MembershipsOf(t, p) = {} /\ Read(w, [op |-> "join", by |-> p, team |-> t])
\* uq_team_membership_open
JoinTeam(w, m) == LET c == call[w] IN
    /\ c.op = "join" /\ MembershipsOf(c.team, c.by) = {} /\ m \notin DOMAIN memberships
    /\ memberships' = Inserted(memberships, m, [team |-> c.team, person |-> c.by, role |-> "member"])
    /\ feed' = feed \cup {<<"team_joined", m>>}
    /\ Done(w) /\ UNCHANGED <<teams, mentorships, consumed>>

ReadToRequestMentorship(w, p, mentor) ==
    /\ p # mentor /\ OpenFor(p) = {}
    /\ Read(w, [op |-> "request", by |-> p, mentor |-> mentor])
RequestMentorship(w, m) == LET c == call[w] IN
    /\ c.op = "request" /\ Conflicts(c.by) = {} /\ m \notin DOMAIN mentorships
    /\ mentorships' = Inserted(mentorships, m, [mentor |-> c.mentor, mentee |-> c.by, status |-> "requested"])
    /\ Done(w) /\ UNCHANGED <<team, consumed, feed>>

ReadToAcceptMentorship(w, p, m) ==
    /\ mentorships[m].mentor = p /\ mentorships[m].status = "requested"
    /\ Read(w, [op |-> "accept", mentorship |-> m])
\* The update asks for the status again.
AcceptMentorship(w) == LET m == call[w].mentorship IN
    /\ call[w].op = "accept" /\ mentorships[m].status = "requested"
    /\ mentorships' = [mentorships EXCEPT ![m].status = "active"]
    /\ feed' = feed \cup {<<"mentorship_started", m>>}
    /\ Done(w) /\ UNCHANGED <<team, consumed>>

\* The entry of each event; a streak has one at a milestone only.
STREAK_MILESTONE_LENGTHS == {7, 30, 100}
handleBadgeAwarded(id) == {<<"badge_awarded", id>>}
handleHoursApproved(id) == {<<"hours_approved", id>>}
handleCourseCompleted(id) == {<<"course_completed", id>>}
handleStreakExtended(id) ==
    IF Inbound[id].currentLength \in STREAK_MILESTONE_LENGTHS THEN {<<"streak_extended", id>>} ELSE {}
dispatchInboundEvent(id) == LET type == Inbound[id].type IN
    CASE type = "BadgeAwarded" -> handleBadgeAwarded(id)
      [] type = "HoursApproved" -> handleHoursApproved(id)
      [] type = "CourseCompleted" -> handleCourseCompleted(id)
      [] type = "StreakExtended" -> handleStreakExtended(id)

\* consumeInboundEvent reads the person and the source record, then records
\* the event and inserts the entry; a redelivered one conflicts and changes
\* nothing.
ReadToProject(w, e) == Read(w, [op |-> "project", event |-> e])
Project(w) == LET e == call[w].event IN
    /\ call[w].op = "project" /\ e \notin consumed
    /\ consumed' = consumed \cup {e}
    /\ feed' = feed \cup dispatchInboundEvent(e)
    /\ Done(w) /\ UNCHANGED <<team, mentorships>>

\* Refused by an index, failed, or dead: nothing of it stays.
Abandon(w) == call[w] # Idle /\ Done(w) /\ UNCHANGED <<team, mentorships, consumed, feed>>
-----------------------------------------------------------------------------
\* The mutations of the community router.
TeamRequest(w) ==
    \E p \in Person : \/ \E name \in Name : ReadToCreateTeam(w, p, name)
                      \/ \E t \in DOMAIN teams : ReadToJoinTeam(w, p, t)
MentorshipRequest(w) ==
    \E p \in Person : \/ \E mentor \in Person : ReadToRequestMentorship(w, p, mentor)
                      \/ \E m \in DOMAIN mentorships : ReadToAcceptMentorship(w, p, m)

Next ==
    \E w \in Worker :
        \/ TeamRequest(w) \/ MentorshipRequest(w) \/ (\E e \in EventId : ReadToProject(w, e))
        \/ (\E t \in TeamId, m \in MemberId : CreateTeam(w, t, m)) \/ (\E m \in MemberId : JoinTeam(w, m))
        \/ (\E m \in MentorshipId : RequestMentorship(w, m)) \/ AcceptMentorship(w)
        \/ Project(w) \/ Abandon(w)

Spec == Init /\ [][Next]_vars
-----------------------------------------------------------------------------
\* Decisions that two overlapping requests take from the same reading: a
\* person leads or joins a team once, a name is one team's, and a mentee has
\* one mentorship; each team is led by its creator alone.
DecidedOnce ==
    /\ \A t \in DOMAIN teams :
         /\ Named(teams[t].name) = {t}
         /\ {memberships[m].person : m \in {k \in DOMAIN memberships :
               memberships[k].team = t /\ memberships[k].role = "lead"}} = {teams[t].by}
         /\ \A m, k \in DOMAIN memberships : m # k =>
              <<memberships[m].team, memberships[m].person>> # <<memberships[k].team, memberships[k].person>>
    /\ \A m, k \in DOMAIN mentorships : mentorships[m].mentee = mentorships[k].mentee => m = k

\* The feed tells what happened and nothing else: who joined, which
\* mentorships started, and every event that was consumed.
FeedMatchesFacts ==
    feed = {<<"team_joined", m>> : m \in {k \in DOMAIN memberships : memberships[k].role = "member"}}
           \cup {<<"mentorship_started", m>> : m \in {k \in DOMAIN mentorships : mentorships[k].status = "active"}}
           \cup UNION {dispatchInboundEvent(e) : e \in consumed}
=============================================================================
