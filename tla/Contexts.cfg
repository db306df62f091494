\* Two overlapping requests in each context.
CONSTANTS
    admin = admin
    member = member
    guest = guest
    Person = {admin, member, guest}
    AccountStatus <- ActiveStatus
    Facts <- ModeratorFacts
    Chapter = {"c1"}
    ChapterOf <- HomeChapter
    Place = {"c1", "c2"}
    Active = {"c1"}
    Worker = {w1, w2}
    Hook = {h1, h2}
    Earner = {admin, member}
    EarnerFacts <- AdminFacts
    Earning <- EarningEvents
    AdjustId = {j1}
    Adjustment <- Penalty
    Badge <- Badges
    Awardable <- Given
    Roster <- Listed
    Points <- EntryPoints
    MaxEntries = 3
    Peer = {member, guest}
    TeamId = {t1, t2}
    Name = {n1}
    MembershipId = {m1, m2, m3}
    MentorshipId = {s1, s2}
    Noted <- Streaks
    MaxId = 4
    Limit = {1, 2}
    Recipient = {member, guest}
    Notice <- Notices
    Settable <- Switches
    MaxMails = 3
    MaxPublished = 5
    VolunteerFacts <- LeadFacts
    OpportunityId = {"o1"}
    ShiftId = {"s1", "s2"}
    EntryId = {"e1"}
    Window <- ShiftWindow
    Span <- Spans
    Author = {member, guest}
    AuthorFacts <- ContentFacts
    ModuleId = {"m1", "m2"}
    MaxCompleted = 2
    Reporter = {member}
    Post = {"p1"}
    PostScope <- PostOf
    ReportId = {r1}
    Target = {member}
    Sanction <- Sanctions
    ActionId = {a1, a2}
    ContentId = {k1}
SPECIFICATION Spec
INVARIANTS TypeOK RewardsAddUp RewardsEarned CommunityAgrees WalkShowsAll CoursesAgree VolunteeringAgrees NotificationsAgree
INVARIANTS HolderMatchesStatus OutcomeAnnounced RevocationAttributed
PROPERTIES SettledForGood SilencedStaySilent
SYMMETRY Symmetry
CHECK_DEADLOCK FALSE
