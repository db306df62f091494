# A verification development for the volunteer portal

TLA+ modules that model the portal's core use cases, TLC configurations that
check them on small instances, and TLAPS proofs of the properties that matter
most. All source paths below are relative to the repository.

The portal is a modular monolith: a Next.js web server whose bounded contexts
(`apps/web/src/modules/*`) share one PostgreSQL database, one schema per
context, and a graphile-worker process (`apps/worker`). What is hard about it is
the same in every context. A use case reads on the connection pool, decides, and
then opens a Prisma interactive transaction at READ COMMITTED in which it
writes; requests overlap, so what was read may be stale when it is used. Events
leave a context through a `domain_events` table that others poll. The models are
about exactly that: **each read before the transaction and each statement of
the transaction is a step of its own**, other requests run in between, and a
transaction may be lost at any statement.

## Inventory

| Component | State | Operations | Interacts with | Hard behaviour |
|---|---|---|---|---|
| volunteering: applications (`applyToShift`, `decideApplication`, `withdrawApplication`, `cancelShift`) | `shifts.accepted_count`, shift status, applications with their status | apply, accept / waitlist / decline, withdraw (promoting a waitlisted application), cancel | training (completed courses), notifications and gamification (events) | check outside the transaction, lock orders that cross, partial unique index, last slot |
| volunteering: opportunities, shifts | opportunity and shift status | create, publish, close, archive, schedule | applications, hours | archive counts open shifts before it writes |
| volunteering: hour entries | entry status, minutes | submit, approve, reject | cancelShift counts approved hours, gamification | approval against cancellation |
| training: enrolment and completion (`enrollInCourse`, `recordProgress`, `submitQuizAttempt`, `moduleCompletion`) | enrolments, progress per module, attempts, certificates | enrol, heartbeat, submit a quiz; completion of modules and course | volunteering reads completed courses, gamification (events) | overlapping heartbeats, two modules completed at once, one certificate |
| training: authoring and video | courses, modules, video assets, captions | create, add module, upload, encoding webhook, approve captions, publish | video provider | repeated and reordered webhooks, caption gate read before the update |
| moderation | reports with status and claim, actions with status | file, claim, release, resolve, dismiss; take, revoke | community asks for active actions before it writes, notifications | two moderators on one report, unconditional updates by id |
| identity and admin: data-subject requests | DSAR rows in `identity`, export jobs in `admin`, bundles on disk | request export or erasure, orchestrate, run the job, retention sweeps | admin consumes identity's events and the reverse | two schemas without a common transaction, completion event before the job's row |
| identity: persons, roles, consent | persons, role assignments, consents | register, grant, revoke, assign lead, consent, erase | authorization | a grant that overlaps an erasure, two leads |
| gamification | points ledger, streaks, badges, leaderboards | consume an event, adjust, award, rebuild | events of volunteering, training, community | redelivery, lost update of a streak, snapshot of sums read before |
| community | posts, kudos, teams, mentorships, feed | create, join, request, accept, project events | moderation, events | idempotent projection |
| notifications | notifications, deliveries, preferences | queue, deliver, provider webhook, read | events of all contexts, mail provider | mail sent between check and write, webhook before the message id |
| outbox relay (`packages/outbox`, `audit-log-writer`) | `domain_events`, `processed_events`, `admin.audit_log` | poll, handle, mark, retry | every context | crash between handler and mark, overlapping jobs, late commits, several consumers |
| authorization policy (`packages/authz`) | none (pure) | `can` | every use case | scopes and ownership |
| admin reports, audit recording, ulid, observability, web adapters | little or none | queries, inserts, I/O | | |

What makes each of them correct: a shift's counter stays within its capacity and
counts its accepted applications, with one live application per person; a
learner's course completes exactly when it was earned, with one certificate; a
report ends once, by whoever holds it; a data-subject request ends, and its data
is complete, or gone, in all contexts; a person has no role after erasure; an
event counts once for points, streaks and notifications; a mail is sent at most
as often as the code says; an event is handled once by every consumer it
concerns.

`PROJECT.json` lists every component with its sources and status, and every
hazard at its line.

## Plan

1. `ShiftApplications` with the abstract `SlotBooking` -- **done**, proofs in `ShiftApplicationsProofs`.
2. `Outbox` -- **done**, proofs in `OutboxProofs`.
3. `TrainingProgress` on `ReadCommitted` -- **done**, proofs in `TrainingProgressProofs`.
4. `Authz`, and the use cases that ask it: `ModerationReports`, `ModerationActions`,
   `RoleAssignments`, `ConsentRecords`, `DsarRequests`, `ReportExports` -- **done**, proofs in
   `ModerationReportsProofs`, `ModerationActionsProofs`, `IdentityProofs`.
5. Consumers of other contexts' events: `Gamification`, `Leaderboard`, `Community`,
   `NotificationDelivery` -- **done**, proofs in `ContextsProofs`, `NotificationDeliveryProofs`.
6. `Opportunities` (with hour entries), `CourseAuthoring`, `KeysetPaging` -- **done**, proofs in `ContextsProofs`.

Every safety property of a passing run has its theorem, and so has the refinement of
`SlotBooking` by requests that do not overlap; overlapping ones do not implement it
(`shift_withdraw_race`, and ids that commit in another order than they were
drawn). Further modelling: the job queue under
the audit writer and the delivery jobs (retries that end), and the rendering of
certificates after the commit.

## What the modules model

Modules that keep their own tables share a run where they ask the same kind of
question: `Identity` and `Contexts` take them by `INSTANCE`, choose one of them
in the initial state (`focus`) and explore it alone, since no statement of one
touches a table of another. Such a run is the sum of its parts, not their product.
The theorems are about these compositions, too; `MCIdentity` and `MCContexts`
only define the values of their constants. `Tables` has the `INSERT` the modules
share.

### Transactions (all modules)

A row has a committed version and, while a transaction that wrote it is open, a
working version owned by the worker that holds its lock. A statement sees its own
worker's versions and the committed version of everything else. An `UPDATE`
whose `WHERE` the committed version does not satisfy touches nothing and does not
wait; otherwise it waits for the lock. `Commit` publishes all rows of a worker,
`Lose` / `Fail` drops them. Locals of a request (`req`) hold what it read before
its transaction, which is where staleness comes from. `ShiftApplications` has
these operators written out; `ReadCommitted` is the same for any set of rows, and
`TrainingProgress` takes it by `INSTANCE`.

### ShiftApplications, SlotBooking

One shift, applications `1 .. MaxApps` in order of insertion. Each action is a
statement of `applyToShift.ts`, `decideApplication.ts`, `withdrawApplication.ts`
or `cancelShift.ts` (`map` in `PROJECT.json` gives the lines): the read before the
transaction (`ApplyReadShift`, `DecideRead`, `WithdrawRead`, `CancelRead`), the
conditional counter update (`TakeSlot`), the update by id and status
(`DecideWrite`) or by id alone (`WithdrawWrite`), the promotion (`FindWaitlisted`,
`ReclaimSlot`, `Promote`), and the paths on which they find no row. Status and
outbox event of an application are one row: they are written in one
transaction, and no statement depends on the order of the two. PostgreSQL's
deadlock detector (`DeadlockVictim`) and the partial unique index
(`UniqueIndexAllows`, waiting for uncommitted entries) are part of the model.

`SlotBooking` is what the documentation promises of a shift, one atomic step per
use case.

### Outbox

The rows of one schema's `domain_events`, consumers that poll it, and overlapping
jobs. `Poll` selects a batch; `InsertLedger`, `Handle`, `MarkProcessed` and
`Commit` are the per-event transaction of `drainOutbox.ts` and of
`audit-log-writer.ts`; `SkipUnhandled` is the branch for a type without a handler,
`FailEvent` the `catch`, `Crash` a worker that dies. `Publish` makes rows visible
in any order of their ids, `Reset` clears `processed_at` for a replay.
`audit_log_writer` has no `processed_events`: its ledger is `admin.audit_log`,
which is why the ledger is kept per consumer.

### TrainingProgress, ReadCommitted

One learner, one course. `recordProgress.ts` is `ReadProgress`,
`CheckPrerequisites` (both before the transaction), `Beat`; `submitQuizAttempt.ts`
is `CountAttempts` (before it), `InsertAttempt`; both go on to
`moduleCompletion.ts`: `Evaluate`, `CheckQuiz`, `CompleteModule`,
`ReadEnrollment`, `CountModules`, `CompleteCourse`. `AddModule` runs at any time,
as `addModule.ts` looks neither at the course's status nor at enrolments, so a
module may have no progress row (`EvaluateWithoutRow`, and `ReadProgress` then has
no step). Watched percentage and resume position are one level: none, some,
enough (90 percent). Rows that are only inserted (attempts, certificates,
events) are counted. `overlapped` remembers the quizzes two submissions of which
were at once between their count of the attempts and their commit.

### Requests in the other modules

The modules below take one step for a transaction whose statements touch one
aggregate, and keep apart what the code separates: the read and the decision
(`ReadTo...`), the transaction that writes, and each further transaction, file or
call to a provider. A write re-checks only what the statement's `WHERE` re-checks:
an update by id alone overwrites whatever has happened since the read, one with
the old status in its `WHERE` does nothing and ends the request. `Abandon`,
`Rollback`, `Dies` and `Die` end a request anywhere. Where a transaction of several
statements can be overtaken between two of them (the erasure that revokes roles,
a snapshot that is deleted and inserted, an event handler that fails half way) it
has a step for each.

### Authz

`packages/authz`: `Can` and the rules it combines, as operators over a set of role
facts. Modules pass the facts that the caller's request reads, and guard each
`ReadTo...` with the action and resource the use case names. The procedures of the
tRPC routers that only forward a call map to these request operators.

### ModerationReports, ModerationActions

`ModerationReports`: a report is filed, claimed, released, resolved or dismissed
by overlapping requests, each updating by id from a status it read
(`claimReport.ts:45`); old rows are anonymized by `sweepModerationLogs.ts`, row by
row from a list read before, and it may die in between. `clobbered` remembers the
rows the sweep wrote after they had changed. `ModerationActions`: sanctions are
taken and revoked, by their moderator or an org admin, end, and grow old; posts
and kudos look for a sanction of their author before they write. `lostRevokers`
are actions whose revoker the sweep overwrote.

### RoleAssignments, ConsentRecords

`RoleAssignments`: grants, revocations, chapters and their leads, the erasure that
locks the person and the active roles (`TakeRoles`) and commits (`CommitErasure`),
and the sweep of inactive persons, which names no revoker and so is refused where
there is an active role (`SweepRefused`). A grant waits for the lock on the person its
foreign key names, and does not look at the status afterwards: `late` are the
grants inserted for a person who was anonymized by then. `ConsentRecords`: registration behind the age
gate; decisions are rows that are only added, and a withdrawal reads the latest
one of the purpose that is not revoked (`LatestOpen`) and marks that row.

### DsarRequests, ReportExports

`DsarRequests`: identity's requests and bundles, admin's jobs and event ledger, and
the two ways in (self service, and an administrator on behalf of a person). An
export is `ReadToExport`, `InsertExport`, `StartExport`, `WriteBundle`,
`CompleteExport`; then `PublishCompletion` and only after it `QueueJob`, which is
the order of `orchestrateDsarRequest.ts:56`. `Recover` is the `catch` of
`submitDsarRequest.ts`. Events are consumed in any order and again;
the sweep deletes a bundle and then clears its link (`DeleteBundle`, `ClearUrl`),
and may die in between. `ReportExports`: definitions whose rate is copied into a
job when it is queued; the job runs, may run twice, and a commit whose
acknowledgement is lost is followed by the failure path.

### Gamification, Leaderboard

Each event consumer runs in one transaction; `RecordPoints` (the ledger row that
makes a redelivery a no-op) and `Handle` (the rest) are two steps of it, `Rollback` undoes
both. Streaks count weeks, use freezes, and take events in any order of
their weeks. `Leaderboard`: the sum is read before the transaction that deletes
and inserts the ranking; points arrive and other rebuilds run in between. `Ranked` is the
sort, whose order of ties decides no row, and `Ranks` the counter that goes up
to the place in the list when the points change.

### Community, KeysetPaging

`Community`: teams, memberships, mentorships and the feed entries projected from
events, with the partial unique indexes that refuse the second of two requests.
`KeysetPaging`: all cursor lists of the portal as eight shapes (what they query,
what they drop from a page, whether they say that there is more), walked while
rows are inserted below and above the cursor and change. `Descending` is the `ORDER BY`: the
one sequence that names each id of a set, the latest first.

### NotificationDelivery

`Consume` queues a notification per recipient who wants a channel and an attempt
for the mail; a job reads the attempt (`StartJob`), asks consent again, sends
(`Send`) and records the answer (`RecordSent`, `RecordFailure`), and may die after
sending (`Die`). `ReadBounce` and `Bounce` are the webhook, in any order, twice,
and for mails of an earlier try. `behind` are mails whose consent changed after the
run had read it. The preferences of the two channels are read in one step.

### Opportunities, CourseAuthoring

`Opportunities`: the lifecycle of opportunities, shifts scheduled and cancelled
under them, hours submitted against a shift's window and decided by another
person; each update asks for the status again (`StillFrom`, `StillSubmitted`), and the
look for scheduled shifts before archiving is not repeated. `CourseAuthoring`: modules, uploads, the encoder's
webhooks (repeated, in any order, compared with a status read before), the caption
request that follows one and may be lost (`abandoned`), approval, and the
publication gate, which looks at the modules before the transaction while others
may be added.

## Runs

| Run | Instance | Shows |
|---|---|---|
| `shift_concurrent` | 2 requests, 2 applicants (1 trained), 2 applications, 1 slot, fairness | under every interleaving, rollback and lost transaction: capacity, one live application per person, terminal is terminal, event = status, acceptance takes a slot, the counter exact until a withdrawal; and every request ends in spite of crossing lock orders |
| `shift_serial` | 1 request at a time, 3 applicants, 4 applications | the statements add up to `SlotBooking` (refinement, `BookingSpec`) and the counter is exact |
| `shift_withdraw_race` | as `shift_concurrent`, 3 applications | **violated**: the counter of a scheduled shift counts its accepted applications |
| `outbox_delivery` | 1 consumer, 2 jobs, 3 rows, batches of 2, 1 replay, fairness | each handler at most once, ledger = effects, processed means handled, every row in the end |
| `outbox_fanout` | 2 consumers on one table | **violated**: processed means handled, for each consumer |
| `training` | 2 requests, 2 required modules, the second depending on the first and with a quiz of one attempt, fairness | one certificate per completed enrolment, completion only after what it depends on, no attempt over the limit until two submissions overlap and a bounded excess then, an earned course completes |
| `training_stale_heartbeat` | as `training`, heartbeats of all levels | **violated**: what was watched only moves forward |
| `identity` | 2 requests, 2 roles, 3 consent rows, 2 data-subject requests with 2 jobs and 2 events, 2 report exports | who grants a role had been given the authority, and an erased person holds only roles inserted after the erasure; a withdrawal ends all the decisions it was to end; admin's jobs end as identity's requests did and queued ones are awaited; a cleared link serves nothing |
| `inactive_sweep` | as `identity` | **violated**: the retention sweep can erase whomever it lists |
| `dsar_recovery` | as `identity` | **violated**: the recovery takes up only the request this call created |
| `contexts` | 2 requests; 7 events of 2 persons and one adjustment; 3 ledger rows; 2 teams, 2 mentorships; 4 listed rows; 2 notified events, 3 mails, 2 webhooks; 1 opportunity, 2 shifts, 1 hour entry; 2 modules; 1 report; 2 sanctions of five kinds, 1 post or kudos | balances, streaks, badges and ranking follow from the ledger; teams, mentorships and feed are decided once; delivery events agree with attempts and consent; hours are decided once, and what happened to hours, shifts and opportunities is told once; an approval of captions stands, and captions are asked for; a walk shows every row once; a report has a holder exactly while it is reviewed, its last event tells its end, nothing takes back a settled one; a revocation is attributed; who is silenced publishes nothing once running requests ended |
| `report_reopened` | as `contexts` | **violated**: a report that is resolved or dismissed stays so |

### Bounds, and why they are enough

Two workers: every hazard here is between two requests (a stale read needs one
reader and one writer; a deadlock of these use cases needs two lock orders). The
proofs hold for any number. One slot, and more applicants than slots:
the counter is at 0, at its limit, and would be beyond it. Two applications where
requests overlap: one accepted, the other promoted, refused the slot or
cancelled with it. Three for the race of a withdrawal and four for the order of the
waitlist, with one request at a time. Three outbox rows in batches of two: one that always fails in
front of, between or behind others, and a row that commits late; one replay.
One report and two sanctions: a report's races are between requests, a sanction may be taken while another ends. Two data-subject requests of
one person, two jobs and two events: an older failed request beside a refused
one, one event for two jobs. Seven inbound events: weeks in a row, gaps that use
both freezes and one more that breaks the streak, in any order. Four rows and
pages of one or two: a page in the middle, a short one, an empty one. Three mails
of two attempts: one is sent twice and the bounce of the first comes late. `MaxRows`,
`MaxRequests`, `MaxEvents`, `MaxEntries`, `MaxMails`, `MaxPublished` (the `MaxEvents` of
notifications), `MaxCompleted`, `MaxId` and the sets of
ids are the bounds' names there.
Two modules: the least at which "the last two at once" and a prerequisite
exist. `MaxApps`, `MaxEvents`, `MaxResets`, `Reported` and `Many` are the names
of the bounds; `Many` stops counting a kind of row one above what a property
distinguishes. `Reported` leaves out, in `training`, heartbeats that report some
but not enough progress: one that reports none takes a row back further, one
that reports enough completes it. The symmetry of workers and of the
ids of sanctions (`contexts`) and of rows (`identity`) is used only in runs without
liveness. The runs of shifts, outbox and training check for deadlock. In `identity`
and `contexts` ids run out and everything may have been done, so the system may
really stop, and they do not.

### Fairness, and why the code justifies it

- A request awaits its statements one after the other and does nothing else:
  `Statement(w)` is fair. It is strongly fair in `ShiftApplications`, where a
  waiter of a row lock may be overtaken: PostgreSQL queues waiters. The deadlock
  detector acts (`WF` of `DeadlockVictim`).
- The audit task queues its own next run at the end of a run
  (`audit-log-writer.ts:190`), so each consumer is polled again and again. Rows
  are promised to be processed only if, from some time on, no fault happens.
  A handler that always fails is no such fault: it fails for ever.
- `EarnedCourseCompletes` assumes a player that goes on sending heartbeats for
  each module; without them the code does not complete a course whose last two
  modules were finished at once, as nothing else evaluates it again.

The other runs check safety only: their use cases end by a timeout of the client or
of the transaction, and most liveness one would like to state there is not promised
by the code (see below: what is never retried or ended).

These assumptions on faults name *steps*, and where a fault leaves the same state
behind as a step of the program (the end of an empty transaction), the step is
taken to be the program's; otherwise the assumption would rule out runs that the
properties are about.

## What is proved

`tlapm` checks every theorem below to the last leaf, for every value of the
constants that the named assumptions allow: any number of overlapping requests,
persons, rows and ids. Of the properties the passing runs check, all have a
theorem but those listed at the end of this chapter.

The arguments have one shape. A property speaks of committed rows, but a request
that is under way decides what the next committed rows are. So each invariant
adds what a request *knows* between its steps: what it read and cannot have
become false, and what the row it writes will look like when it commits.

**Assumptions.** Sentinels (`NoWorker`, `NoPerson`, `"nobody"`, `"anonymous"`,
`"seed"`) are not ids, because ids are generated; capacity, batch, page and
bounds are natural numbers, positive where zero makes no sense; what is asked
for names chapters, persons, roles and purposes there are (`SanctionAssumption`,
`GrantAssumption`, `ConsentAssumption`, `PersonAssumption`, `NoticeAssumption`);
events are of the kinds the consumers dispatch on (`EarningAssumption`,
`BadgeAssumption`), points are integers (`PointsAssumption`), and the members of
a leaderboard come as a list (`RosterAssumption`). Workers, modules and prerequisites of training are finite sets.
TLC evaluates each of them on the instances of the runs. The modules
that are instantiated state theirs as a hypothesis (`Identifiers`, `Recipients`),
and `ContextsProofs` derives it from the assumptions of `Contexts`.

### Applications (`ShiftApplicationsProofs`)

`TypeCorrect`, `CapacityRespected`, `NoDoubleApplication`, `EventsFollowStatus` and
`NoRevival` come from `IInv`. A statement acts on working versions that become
committed ones later, so it adds: a row nobody holds has one version (`OneVersion`);
a request that decides holds a status its decision may leave (`DecisionLocals`); a
working version never takes back an insertion or an end (`NoWayBack`); the unique
index holds over everything that is or may be in it (`UniqueIndex`); events fit
statuses in both versions (`EventsFit`).

`SlotsCounted` (the counter of a scheduled shift is the number of accepted
applications until one is withdrawn) and `AcceptanceIsCounted` (an acceptance commits
together with a slot) need to know what each transaction holds, by
the statement it has come to: that is `Account`. A decision to accept holds the shift
with the counter one higher and then one application; a withdrawal holds exactly
the row it withdrew; a promotion has taken the slot for the row it moves. The
step is a case per statement, and only a commit changes the two sides of the
equation, both by what `Account` says.

`SlotsCountedSerially` and `ImplementsBooking` are about requests that do not
overlap (`OneRequest`, the hypothesis that there is one worker): then the counter is
exact for ever, and `ShiftApplications` implements `SlotBooking`. `SerialInv` adds what
only holds then: what a request read still is so when it writes (`Serial`), and by
the commit the transaction has become one of six things: a submission, an
acceptance, another decision, a withdrawal, a withdrawal that passes its slot to
the earliest waitlisted application, a cancellation of all live ones. Each of these
maps to the action of `SlotBooking` of that use case, every other step to a stutter. That the
hypothesis is needed is what `shift_withdraw_race` shows.

### Outbox (`OutboxProofs`)

`TypeCorrect`, `HandlerRunsAtMostOnce`, `LedgerIsFaithful` and
`OneConsumerLosesNothing`. The invariant adds what an open transaction knows: a
job that inserted a ledger entry finds none committed (`KeyOpen`), one that did not
finds one (`KeySeen`), and two open insertions never have the same key
(`KeyExclusive`, which is what the wait for an uncommitted key gives).
`OneConsumerLosesNothing` has the hypothesis that the table has one consumer;
`outbox_fanout` shows that it is needed.

### Training (`TrainingProgressProofs`)

`TypeCorrect`, `OneCertificate`, `CompletedAfterModules`, `PrerequisitesRespected`,
`QuizRespected` and `AttemptsLimited`, for any prerequisites, quizzes and limits.
Published facts are only added and rows only appear (`Forward`), so what a request
has found out stays true (`Knows`). What it wrote agrees with what will be
committed along with it: a working row that is completed comes with its event in
`inserted` or published before (`CompletionsPublished`, `QuizzesPassed`), a completed
working enrolment with all its modules and the certificate, by whoever holds its
lock (`CourseEarned`, `Certified`). `AttemptsBounded` follows from two stronger counts. At a quiz whose submissions never
overlapped, committed attempts and the one request that may still add one are
together within the limit (`AttemptsAlone`); at any quiz, committed attempts and requests that may still add one are
together fewer than the limit and the number of workers (`AttemptsCounted`).

### Moderation (`ModerationReportsProofs`, `ModerationActionsProofs`)

`HoldersMatch` and `OutcomesAnnounced` are inductive once rows and requests are typed,
because the status each update requires is in its `WHERE` or its row is marked as
overwritten by the sweep. `SettledStays` is the action property: a terminal report that no running
request has read is never taken back or even attempted. `report_reopened` shows why
it cannot speak of every terminal report.
`RevocationsAttributed` needs `RevokersMay`: from the read of a revocation on, its
caller is the moderator of the action, or that moderator has been erased since, or
the caller is an org admin. `SilenceKept` says that, once no request of a silenced person is under way, none
starts and nothing of theirs appears; a ban is org-wide in every row (`RowChecks`), so
the check before a post finds it.

### Identity (`IdentityProofs`)

`TypeCorrect` for the composition, and:

- `AuthorityHasSource`: whoever an assignment names as its granter had been given the
  authority by an earlier assignment, and what an anonymized person holds was
  inserted after the erasure was committed. `RolesInv` adds that a decision
  taken before a write was taken for a reason that history keeps
  (`DecisionsHaveSource`), that at most one row of a role is active (`OneActive`), and
  that an erasure under way has taken every active role of its person but the late
  ones (`ErasureHasRoles`), which is what the lock on the person is for.
- `ConsentWithdrawalSticks`: when a withdrawal is written, the decision it marks and every
  later one of the purpose that it had seen are revoked. The rows it had seen behind
  the one it read are withdrawn ones of the same purpose (`Latest`), because only the
  latest in force is read, rows are only added and no revocation is undone.
- `JobsEnd`: a job of admin ends as the request of identity did, an export's event
  tells its status, and a queued job is awaited. Calls work on open requests, each on one
  of its own (`CallsPoint`), so what an event says of an ended request stays true
  (`AdminAgrees`); a caller about to queue a job has published an event that is not
  consumed yet or was too early (`JobsAwaited`).
- `ClearedLinks`: a cleared link serves nothing, over the sweep's position between
  deleting a bundle and clearing its link (`SweepAgrees`).

### The contexts (`ContextsProofs`, `NotificationDeliveryProofs`)

A behaviour of `Contexts` is one of each part (`PartsOfBehaviour`), so each part has an
invariant of its own.

- `VolunteeringDecided`: hours are decided once, by somebody else than who submitted
  them (`DecidersDiffer`, kept from the read to the write), and each decision, publication and
  cancellation is told once, which is the work of the status in each `WHERE`.
- `CoursesCaptioned`: a module without a video has had no events (`NoEventsBefore`), an
  approval comes with its event and nothing takes it back, and who has
  announced an encoding goes on to ask for captions unless the request is lost.
- `CommunityDecided`: the unique indexes hold over rows only (`NamesDiffer`,
  `MembersDiffer`, `MenteesDiffer`), each team has its creator as lead, and the
  feed is exactly what consumed events, kudos, teams and mentorships tell (`FeedTells`).
- `RewardsAreEarned`: `EarnedBy` relates a streak to the weeks of the events that the ledger has: its
  last week is the latest of them, its length at most their number, freezes used
  and left add up. It is kept by a case for a repeated week, the next one, a gap that freezes
  bridge, a gap that breaks, and a week before the last. A badge is awarded and
  announced by the same transaction, once.
- `RewardsSum`: an entry and its addition to a balance are one commit (`LedgerInv`), and
  what is shown, or a rebuild holds, is the ranking of a prefix of the ledger
  (`BoardInv`, `MomentsStay`: appending leaves prefixes alone), so two rebuilds that
  overlap cannot mix. That a balance keeps equal to a sum is arithmetic over
  `SumFunction`: there is such a sum over any finite set (`SumExists`), it does not
  depend on the order in which its recursion takes elements (`SumInAnyOrder`), and it grows
  by what is added (`SumGrows`). Each is shown by the smallest set that would
  refute it. That a ranking is right (`RankingIsRight`) rests on `Enumerated`: the members of a
  finite set can be written down in any strict total order, here points and then
  the place in any fixed list. The rank of a place is the first place with the same
  points, and exactly those before it have more.
- `TypeCorrect`: the rows of all nine parts fit the schema.
- `WalksShowAll`: while a walk goes on, everything shown is not below the cursor and
  everything due was shown or is below it (`WalkInv`). The page is a prefix of the
  sequence of the rows below the cursor (`DescendingNamesAll`: such a sequence exists,
  is unique in its members and misses none), and the new cursor is its last row.
  The assumption that pages are positive is one that a procedure does not enforce
  (see "Lists" below).
- `ReportsHeld`, `ReportsAnnounced`, `ReportsSettled`, `SanctionsRevoked`,
  `SanctionsSilence` and `NotificationsTold` carry the theorems of the modules over to the composition.
- `DeliveryTold`, `ConsentKept`, `SentStays`: the events published of an attempt are counted over
  their whole sequence (`Tells`), and a job that runs has an attempt that is not ended and knows no
  mail (`AttemptAgrees`), so a second job cannot end what a first one ended.

### Only model-checked

- `RequestsEnd`, `EventuallyProcessed` and `EarnedCourseCompletes`: liveness under
  fairness is out of the prover's reach.
- The violated properties are refuted by TLC, and no theorem speaks of them except by
  the hypothesis that excludes the case.

## Where code and documentation differ

- **A withdrawal may leak a slot** (`withdrawApplication.ts:52`): it decides from
  a status read before its transaction and updates by id alone, so an acceptance
  committed in between is overwritten and its slot never given back; two
  withdrawals of one accepted application free two slots.
- **Consumers of one outbox table hide rows from each other**
  (`drainOutbox.ts:78`): `processed_at` belongs to the row. The package's README
  promises several consumers per table. Only one is deployed.
- **A heartbeat may take progress back** (`recordProgress.ts:108`): the maximum is
  taken with a row read before the transaction; a completed module becomes
  `in_progress` again. `CourseCompletedAfterModules` and `PrerequisitesFirst` are
  therefore stated with the `ModuleCompleted` events, not with the rows.
- **A recovery may take up an older request** (`submitDsarRequest.ts:75`, run
  `dsar_recovery`): after any error it looks for the latest failed request of the
  person, so a call refused because a request is open publishes the older one's
  completion again and queues a second job for it.
- **The retention sweep cannot erase who has a role** (`sweepInactivePersons.ts:62`,
  run `inactive_sweep`): it sets `revokedAt` without a `revokedBy`, and
  `chk_role_assignments_revocation` allows neither without the other. The comment of the
  sweep promises the same outcome as an erasure by request. Such a person is never
  anonymized, and the error ends the sweep for those after, and for the policies after.
- **The encoder's webhook has no terminal states** (`ingestVideoWebhook.ts:82`): the
  comment above calls `error` and `ready` terminal, later deliveries being no-ops; a
  late `processing` or `error` takes a ready video back, and a `ready` revives one in
  error. `CourseAuthoring` has these steps, and no run is spent on them; its
  properties hold in spite of them.
- **A report that has ended may be reopened** (`claimReport.ts:45`, run
  `report_reopened`): `reportStateMachine.ts:8-10` says that `resolved` and `dismissed`
  are terminal, "never a transition out of either", and so do
  `docs/ddd/moderation-trust-safety.md:42` and `:55`. Each use case asks the state
  machine before its transaction and then updates by id alone, so a claim or a
  release that read the report before takes it back, and one that ended twice has
  two events. For the same reason a moderator whose claim was released meanwhile still
  resolves it, against invariant 4 (`:43`). `SettledForGood` is what remains: from the moment on at
  which no request that read the report before is under way.

The following contradict their documentation as well, and no run is spent on
them: each follows from one read, by the definitions in the modules. What a passing
run says nearby is the part of the promise that the code does keep.

- **Attempts may exceed `maxAttempts`** (`submitQuizAttempt.ts:81`): the comment at `:20-21`
  has as its precondition that "the learner has not already reached `Quiz.maxAttempts`", and
  `docs/ddd/training-learning.md:73` and `:107` say that failed attempts count against the
  limit and that it is enforced. The attempts are counted before the transaction and nothing
  in the database repeats the count: two submissions at once both pass at the last
  attempt. `AttemptsBounded` has the limit itself for a quiz as long as
  no two submissions of it overlapped, and a bound on the excess afterwards.
- **A chapter's lead need not hold the role** (`assignChapterLead.ts:51`): invariant 2 of a
  chapter (`docs/ddd/identity-access.md:106-110`) says that `leadPersonId` "must correspond
  to a Person holding an active `chapter_lead` role assignment", enforced by the use
  case, whose comment at `:49-50` repeats it, and `:102` says that the column is "kept
  correct by consuming this context's own `RoleGranted`/`RoleRevoked` events". Nothing
  consumes them for it: the lead stays when the role is revoked or the person
  erased, and an appointment decided before such a revocation is still written.
  No property speaks of leads.
- **Two definitions of current consent** (`getConsentForPerson.ts:6-11`): there it is the
  newest row of the purpose, revoked or not; `revokeConsent.ts:23-24` and
  `docs/ddd/identity-access.md:164-166` say "the most recent non-revoked row". They differ
  when consent was given twice and the newer decision withdrawn: by the code's
  reading consent is withdrawn, by the documented one the older decision is in
  force, and a second withdrawal revokes it. `WithdrawalSticks` says which rows a
  withdrawal has ended, and takes no side.
- **A published course may lack captions** (`publishCourse.ts:42`): the comment at `:11-15`
  says of the gate that "no code path in this module bypasses it: a Course cannot
  become `published` while any Module's Video has `captionStatus != 'approved'`", and
  `docs/ddd/training-learning.md:59` (invariant 3) has the same. The modules are read at `:36-44`, before the
  transaction of `:63`, whose update asks only that the course is a draft: a module that is added
  in between is published without a video. `addModule` does not ask for the
  status either, so a published course gets such modules at any later time, too.
  `CoursesAgree` keeps what the gate rests on: that approvals stand.
- **An archived opportunity may have a scheduled shift** (`archiveOpportunity.ts:49`): invariant 4
  (`docs/ddd/volunteering-opportunities.md:91-92`, quoted at `:17-18` of the use
  case) rules it out. The shifts are counted before the transaction, and
  `scheduleShift` inserts from an opportunity it read as published, whatever has become
  of it. No property speaks of archived opportunities.
- **A cancelled shift may keep a live application** (`cancelShift.ts:62`): the comment at `:18-21` says that
  every non-terminal application is declined. One that is inserted after the
  `findMany`, or accepted after the shift's row was read by its decision, stays. So
  `SlotsAccounted` speaks of scheduled shifts.
- **Two open data-subject requests of one person** (`requestDataExport.ts:60`):
  `docs/ddd/identity-access.md:192-193` allows one open request of a type. The migration says that the
  application layer enforces it (`20260810202935_add_identity_aggregates/migration.sql:255-260`),
  which looks before it inserts: two at once both find none.
- **Freezes are never replenished** and **nothing declines, completes or cancels a
  mentorship**, though `docs/ddd/gamification.md:55` and `docs/ddd/community-social.md:77` name these
  steps. Comments in the code leave both to a later phase (`streakRules.ts:22`,
  `routers/community.ts:33`); until then an unanswered request blocks the mentee.

For the following gaps we found no text that promises more, or a comment accepts
them. Where a property is stated around one of them it names the rows concerned in
a history variable (in parentheses), and so does not catch the damage itself.

- *Shifts and hours.* Hours may be approved on a cancelled shift: `approveHours` does
  not ask for its status. Closing and archiving have no router procedure.
- *Training.* A learner enrolled before a required module was added has no row for
  it, and can never complete the course. A caption request that fails or is lost is never made again,
  because the repeated webhook finds the video ready, and the course cannot
  be published (`abandoned`). `CourseCompleted` may be published twice
  (`moduleCompletion.ts:143`). A certificate that fails to render is logged as
  retried, and nothing retries it.
- *Moderation.* The sweep may write a holder or a revoker it read before (`clobbered`,
  `lostRevokers`); rows it has anonymized are skipped afterwards, so a
  later claimer stays named. Who was banned while a post of theirs was being written
  still publishes it.
- *Roles.* A grant may land after the erasure that revoked the person's roles
  (`late`); `grantRole` does not ask for the person's status, so one may also be asked for
  after it. `can()` is asked before the transaction: who has just lost a role still
  grants what it allowed (`AuthorityHasSource` says "had been given").
- *Data-subject requests and exports.* A crash while processing leaves the request
  there, and it blocks the person's later ones. A completion consumed before its
  job's row exists leaves the job queued for ever (`missed`). A failed or dead
  export leaves its bundle on disk. A job's file key is an application URL with a
  24-hour token, which the download signs as an object key while the job says
  seven days.
- *Gamification.* A slow rebuild may put an older ranking back. An adjustment
  does not look at badges again.
- *Community.* The losers of a unique index get a server error, not the domain
  error. Nothing leaves a team. Feed entries keep the name read before, also of
  persons erased later.
- *Lists.* `opportunities.list` (`volunteering.ts:223`) accepts a limit of zero,
  which its sibling procedures refuse and `queryFeedPage` raises to one: when there are rows the
  page is then empty, and `page[page.length - 1].id` (`listOpportunities.ts:90`) throws.
- *Notifications.* A death or a lost answer sends again, and a bounce of an earlier
  mail matches no attempt.
- *Audit search.* With both sources one cursor walks two lists, so rows of the
  other source below the last id are lost; the model walks one list.

## Not modelled

Audit recording is one insert into the caller's transaction, ulid a pure function
whose uniqueness and unordered commits the models use, observability keeps no
state, and the web adapters (sessions, cookies, keys, upload URLs) are I/O: their
procedures are mapped where they are the request of an action.

Within the modelled components: validation of inputs, wording and templates,
rendering of certificates after the commit, new enrolments after a completed
one, the quiz editor, the contents of reports and the rates' arithmetic, which
retention policies are enabled, events that nothing consumes, the column
`attempts` of the outbox, which no statement reads, and the notification of two
recipients of one event, which `NotificationDelivery` defines and the instance leaves
out for its size. A handler whose lookup throws is left to redelivery, which the
`Outbox` module has. A lost acknowledgement of a commit is modelled in
`ReportExports` and, for the completion of an export, in `DsarRequests`, where the code
reacts to it, and elsewhere is the same as a client
that does not hear the answer. One job of a delivery attempt runs at a time. That is an assumption:
no task of `apps/worker` runs `processDeliveryJob` yet, the queue the
documentation names for it locks a job while it runs, and the updates of the job (`:81-84`, `:102-105`, `:135-138`)
go by id alone, so two runs of one attempt at once are not covered. The scope `team` of
`packages/authz` is left out: no use case modelled here asks for it. A set stands for
the feed in `Community`, so a post projected twice would not show there. In the modules of shifts and training a request that is
refused for want of authority ends like any other and is not distinguished.
