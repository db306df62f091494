------------------------------ MODULE Contexts ------------------------------
(***************************************************************************)
(* The contexts that react to others, hold content or moderate it.  Each   *)
(* keeps its own tables: a behaviour explores one of them, `focus`, and    *)
(* leaves the others in their initial states.                              *)
(***************************************************************************)
EXTENDS Integers, Sequences, Authz

CONSTANTS
    Person, AccountStatus, Facts,        \* accounts, their status and roles
    Chapter, ChapterOf, Place, Active,   \* Place: where there are opportunities
    Worker, Hook,
    Earner, EarnerFacts, Earning, AdjustId, Adjustment, Badge, Awardable,
    Roster, Points, MaxEntries,
    Peer, TeamId, Name, MembershipId, MentorshipId, Noted,
    MaxId, Limit,
    Recipient, Notice, Settable, MaxMails, MaxPublished,
    VolunteerFacts, OpportunityId, ShiftId, EntryId, Window, Span,
    Author, AuthorFacts, ModuleId, MaxCompleted,
    Reporter, Post, PostScope, ReportId,
    Target, Sanction, ActionId, ContentId

\* Ids are generated: none is a word that a column has for nobody.
ASSUME NameAssumption == "nobody" \notin Person \cup ReportId /\ "anonymous" \notin Person
ASSUME SanctionAssumption ==
    /\ Reporter \subseteq Person /\ Target \subseteq Person
    /\ Sanction \subseteq [type : {"warn", "mute", "suspend", "ban"}, scope : {Global} \cup Chapter,
                           ends : {"never", "later", "past"}]
\* What the consumers of gamification dispatch on, and the criteria in weeks.
ASSUME EarningAssumption == \A e \in DOMAIN Earning :
    /\ Earning[e].type \in {"HoursApproved", "ModuleCompleted", "CourseCompleted"}
    /\ Earning[e].person \in Earner /\ Earning[e].week \in Nat \ {0}
    /\ Earning[e].type = "HoursApproved" => Earning[e].durationMinutes \in Nat
ASSUME PointsAssumption == Adjustment \subseteq Int /\ Points \subseteq Int
ASSUME RosterAssumption == Roster \in Seq(Person)
ASSUME BadgeAssumption ==
    /\ Awardable \subseteq Badge
    /\ \A b \in Badge : b.type = "streak_length" =>
         b.activity \in {"shift_cadence", "training_cadence"} /\ b.length \in Nat
\* The routers refuse a page of no rows (that of listOpportunities does not).
ASSUME PageAssumption == MaxId \in Nat /\ Limit \subseteq Nat \ {0}

VARIABLES focus, entries, balance, processed, streak, awards, announced, tx, given,
          ledger, board, rebuild,
          teams, memberships, mentorships, consumed, feed, call,
          list, rows, cursor, walk, shown, due,
          preference, handled, notifications, attempts, published, mails, job, hook, behind,
          opportunities, shifts, hours, events, command,
          course, modules, videos, completed, approvals, request, abandoned,
          reports, last, claim, swept, clobbered,
          actions, content, writing, sweptActions, lostRevokers

G == INSTANCE Gamification WITH
       Person <- Earner, Facts <- EarnerFacts, EventId <- DOMAIN Earning, Inbound <- Earning
L == INSTANCE Leaderboard
C == INSTANCE Community WITH Person <- Peer, MemberId <- MembershipId, EventId <- DOMAIN Noted, Inbound <- Noted
P == INSTANCE KeysetPaging
N == INSTANCE NotificationDeliveryProofs WITH
       Person <- Recipient, EventId <- DOMAIN Notice, Inbound <- Notice, processed <- handled,
       MaxEvents <- MaxPublished
O == INSTANCE Opportunities WITH Facts <- VolunteerFacts, Scope <- Place, entries <- hours, call <- command
A == INSTANCE CourseAuthoring WITH Person <- Author, Facts <- AuthorFacts
ASSUME NoticeAssumption == N!Recipients
R == INSTANCE ModerationReportsProofs WITH Status <- AccountStatus, job <- claim
S == INSTANCE ModerationActionsProofs WITH Status <- AccountStatus, request <- writing
gamificationVars == <<entries, balance, processed, streak, awards, announced, tx, given>>
boardVars == <<ledger, board, rebuild>>
communityVars == <<teams, memberships, mentorships, consumed, feed, call>>
pageVars == <<list, rows, cursor, walk, shown, due>>
noticeVars == <<preference, handled, notifications, attempts, published, mails, job, hook, behind>>
volunteeringVars == <<opportunities, shifts, hours, events, command>>
courseVars == <<course, modules, videos, completed, approvals, request, abandoned>>
reportVars == <<reports, last, claim, swept, clobbered>>
sanctionVars == <<actions, content, writing, sweptActions, lostRevokers>>
vars == <<focus, gamificationVars, boardVars, communityVars, pageVars, noticeVars, volunteeringVars,
          courseVars, reportVars, sanctionVars>>

Init ==
    /\ focus \in {"gamification", "leaderboard", "community", "paging", "notifications", "opportunities", "courses",
                 "reports", "sanctions"}
    /\ G!Init /\ L!Init /\ C!Init /\ P!Init /\ N!Init /\ O!Init /\ A!Init /\ R!Init /\ S!Init
    /\ focus # "paging" => rows = <<>> /\ list = P!listUnread

Next ==
    /\ UNCHANGED focus
    /\ \/ /\ focus = "gamification" /\ G!Next
          /\ UNCHANGED <<boardVars, communityVars, pageVars, noticeVars,
                         volunteeringVars, courseVars, reportVars, sanctionVars>>
       \/ /\ focus = "leaderboard" /\ L!Next
          /\ UNCHANGED <<gamificationVars, communityVars, pageVars, noticeVars,
                         volunteeringVars, courseVars, reportVars, sanctionVars>>
       \/ /\ focus = "community" /\ C!Next
          /\ UNCHANGED <<gamificationVars, boardVars, pageVars, noticeVars,
                         volunteeringVars, courseVars, reportVars, sanctionVars>>
       \/ /\ focus = "paging" /\ P!Next
          /\ UNCHANGED <<gamificationVars, boardVars, communityVars, noticeVars,
                         volunteeringVars, courseVars, reportVars, sanctionVars>>
       \/ /\ focus = "notifications" /\ N!Next
          /\ UNCHANGED <<gamificationVars, boardVars, communityVars, pageVars,
                         volunteeringVars, courseVars, reportVars, sanctionVars>>
       \/ /\ focus = "opportunities" /\ O!Next
          /\ UNCHANGED <<gamificationVars, boardVars, communityVars, pageVars,
                         noticeVars, courseVars, reportVars, sanctionVars>>
       \/ /\ focus = "courses" /\ A!Next
          /\ UNCHANGED <<gamificationVars, boardVars, communityVars, pageVars,
                         noticeVars, volunteeringVars, reportVars, sanctionVars>>
       \/ /\ focus = "reports" /\ R!Next
          /\ UNCHANGED <<gamificationVars, boardVars, communityVars, pageVars,
                         noticeVars, volunteeringVars, courseVars, sanctionVars>>
       \/ /\ focus = "sanctions" /\ S!Next
          /\ UNCHANGED <<gamificationVars, boardVars, communityVars, pageVars,
                         noticeVars, volunteeringVars, courseVars, reportVars>>

Spec == Init /\ [][Next]_vars
-----------------------------------------------------------------------------
\* The rows are what the schema allows, and calls well formed.
TypeOK == G!TypeOK /\ L!TypeOK /\ C!TypeOK /\ P!TypeOK /\ N!TypeOK /\ O!TypeOK /\ A!TypeOK
          /\ R!TypeOK /\ S!TypeOK
\* The properties of the modules.
RewardsAddUp == G!BalanceIsLedgerSum /\ L!BoardRanksLedger
RewardsEarned == G!StreakIsEarned /\ G!BadgesAreEarned
CommunityAgrees == C!DecidedOnce /\ C!FeedMatchesFacts
NotificationsAgree == N!EventsTellDelivery /\ N!ConsentAtDelivery /\ N!SentIsFinal
VolunteeringAgrees == O!HoursDecidedOnce /\ O!TransitionsToldOnce
CoursesAgree == A!ApprovalsStand /\ A!CaptionsRequested
WalkShowsAll == P!WalkShowsAll
HolderMatchesStatus == R!HolderMatchesStatus
OutcomeAnnounced == R!OutcomeAnnounced
TerminalIsFinal == R!TerminalIsFinal
SettledForGood == R!SettledForGood
RevocationAttributed == S!RevocationAttributed
SilencedStaySilent == S!SilencedStaySilent
=============================================================================
