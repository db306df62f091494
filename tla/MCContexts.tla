----------------------------- MODULE MCContexts -----------------------------
(***************************************************************************)
(* Small instances of Contexts for TLC.                                    *)
(***************************************************************************)
EXTENDS Contexts, TLC

CONSTANTS admin, member, guest

ActiveStatus == [p \in Person |-> "active"]
HomeChapter == [p \in Person |-> "c1"]

\* Weeks in a row, and gaps enough to use both freezes and break a streak.
Hours(week) == [type |-> "HoursApproved", person |-> member, durationMinutes |-> 57, week |-> week]
EarningEvents ==
    << Hours(1), Hours(2), Hours(4), Hours(6), Hours(8),
       [type |-> "CourseCompleted", person |-> admin, course |-> "k1", week |-> 1],
       [type |-> "ModuleCompleted", person |-> admin, module |-> "m1", week |-> 1] >>
AdminFacts == (admin :> {Fact("org_admin", Global)}) @@ (member :> {})
CourseBadge == [type |-> "course_completed", course |-> "k1"]
Badges == {[type |-> "points_total", threshold |-> 20],
           [type |-> "streak_length", activity |-> "shift_cadence", length |-> 2],
           CourseBadge}
Given == {CourseBadge}
Penalty == {-15}

Listed == <<admin, member, guest>>
EntryPoints == {-5, 5}

Streaks == <<[type |-> "StreakExtended", currentLength |-> 7], [type |-> "StreakExtended", currentLength |-> 8]>>

\* One may switch both channels; the other is told in the app only.
Notices == <<[type |-> "BadgeAwarded", person |-> member], [type |-> "CourseCompleted", person |-> guest]>>
Switches == {member} \X {"badge_awarded"} \X {"email", "in_app"}

\* An admin, the lead of c1, and a volunteer; c2 is not open.  The spans fit,
\* are too long, and begin too early for a shift from 10:00 to 12:00.
LeadFacts == (admin :> {Fact("org_admin", Global)}) @@ (member :> {Fact("chapter_lead", "c1")}) @@ (guest :> {})
ShiftWindow == <<600, 720>>
Spans == {<<480, 840>>, <<0, 1441>>, <<300, 600>>}

ContentFacts == (member :> {Fact("content_admin", Global)}) @@ (guest :> {})

\* A volunteer who reports and is sanctioned, a moderator of c1, and an admin.
ModeratorFacts == (admin :> {Fact("org_admin", Global)}) @@ (guest :> {Fact("moderator", "c1")})
                    @@ (member :> {Fact("volunteer", "c1")})
PostOf == [p \in Post |-> "c1"]
\* One that blocks nothing, one that ends, one of the chapter, one for good,
\* and one the rules refuse.
Sanctions ==
    {[type |-> "mute", scope |-> Global, ends |-> "never"],
     [type |-> "suspend", scope |-> Global, ends |-> "later"],
     [type |-> "suspend", scope |-> "c1", ends |-> "never"],
     [type |-> "ban", scope |-> Global, ends |-> "never"],
     [type |-> "ban", scope |-> "c1", ends |-> "never"]}

Symmetry == Permutations(Worker) \cup Permutations(ActionId)
=============================================================================
