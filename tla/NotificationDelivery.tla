------------------------ MODULE NotificationDelivery ------------------------
(***************************************************************************)
(* Notifications queued for the events of other contexts, and the delivery *)
(* of their emails.  A job sends between two transactions, so a death or a *)
(* lost answer sends again; the provider reports bounces at any time, also *)
(* repeatedly and for emails of an earlier try.  The queue runs one job of *)
(* a delivery attempt at a time.                                           *)
(***************************************************************************)
EXTENDS Naturals, FiniteSets, SequencesExt, Authz

CONSTANTS
    Person,     \* recipients
    EventId,    \* bound: inbound events
    Inbound,    \* [EventId -> event type and the persons it names]
    Settable,   \* bound: the <<person, type, channel>> that are set
    MaxMails,   \* bound: emails that the provider accepts
    MaxEvents,  \* bound: domain events of a notification before a job starts
    Hook        \* webhook requests that may overlap

VARIABLES
    preference,     \* explicit rows, [<<person, type, channel>> -> BOOLEAN]
    processed,      \* ids of processed events
    notifications,  \* [<<event, person>> -> effective channels and inAppReadAt]
    attempts,       \* [<<event, person>> -> the email's delivery attempt]
    published,      \* [<<event, person>> -> its domain events, in order]
    mails,          \* the accepted emails' <<event, person>>; the place is the id
    job,            \* [<<event, person>> -> stage of processDeliveryJob]
    hook,           \* [Hook -> the notification it found bounced, if any]
    behind          \* history: runs under way when the email was switched off

vars == <<preference, processed, notifications, attempts, published, mails, job, hook, behind>>
rowVars == <<processed, notifications, attempts, published>>

Channel == {"email", "in_app"}
\* Whom each handler tells, and the type of the notification.
handleHoursApproved(e) == [to |-> {e.person}, type |-> "hours_approved"]
handleBadgeAwarded(e) == [to |-> {e.person}, type |-> "badge_awarded"]
handleStreakBroken(e) == [to |-> {e.person}, type |-> "streak_broken"]
handleCourseCompleted(e) == [to |-> {e.person}, type |-> "course_completed"]
handleCertificateIssued(e) == [to |-> {e.person}, type |-> "certificate_issued"]
handleKudosGiven(e) == [to |-> {e.toPerson}, type |-> "kudos_given"]
handleMentorshipStarted(e) == [to |-> {e.mentor, e.mentee}, type |-> "mentorship_started"]
handleModerationActionTaken(e) == [to |-> {e.target}, type |-> "moderation_action"]

consumeVolunteeringEvent(e) == handleHoursApproved(e)
consumeTrainingEvent(e) ==
    IF e.type = "CourseCompleted" THEN handleCourseCompleted(e) ELSE handleCertificateIssued(e)
consumeGamificationEvent(e) ==
    IF e.type = "BadgeAwarded" THEN handleBadgeAwarded(e) ELSE handleStreakBroken(e)
consumeCommunityEvent(e) ==
    IF e.type = "KudosGiven" THEN handleKudosGiven(e) ELSE handleMentorshipStarted(e)
consumeModerationEvent(e) == handleModerationActionTaken(e)
Told(e) ==
    CASE e.type = "HoursApproved" -> consumeVolunteeringEvent(e)
      [] e.type \in {"CourseCompleted", "CertificateIssued"} -> consumeTrainingEvent(e)
      [] e.type \in {"BadgeAwarded", "StreakBroken"} -> consumeGamificationEvent(e)
      [] e.type \in {"KudosGiven", "MentorshipStarted"} -> consumeCommunityEvent(e)
      [] e.type = "ModerationActionTaken" -> consumeModerationEvent(e)

NotificationId == {<<e, p>> : e \in EventId, p \in Person}
Type(n) == Told(Inbound[n[1]]).type
NoMail == 0   \* providerMessageId = null
Status == {"pending", "sent", "failed", "bounced"}

TypeOK ==
    /\ \E s \in SUBSET Settable : preference \in [s -> BOOLEAN]
    /\ processed \subseteq EventId /\ DOMAIN notifications \subseteq NotificationId
    /\ \A n \in DOMAIN notifications : notifications[n].channels \in (SUBSET Channel) \ {{}}
    /\ \A n \in DOMAIN attempts : attempts[n].status \in Status /\ attempts[n].provider \in DOMAIN mails \cup {NoMail}
    /\ DOMAIN attempts = {n \in DOMAIN notifications : "email" \in notifications[n].channels}
    /\ mails \in BoundedSeq(DOMAIN attempts, MaxMails)
    /\ \A h \in Hook : hook[h] \in DOMAIN attempts \cup {<<>>}

Init ==
    /\ preference = <<>> /\ processed = {} /\ notifications = <<>> /\ attempts = <<>>
    /\ published = <<>> /\ mails = <<>> /\ behind = {}
    /\ job = [n \in NotificationId |-> "none"]
    /\ hook = [h \in Hook |-> <<>>]

getNotificationTypeDefault(type, channel) == ~(type = "course_completed" /\ channel = "email")
getEffectivePreference(p, type, channel) ==
    IF <<p, type, channel>> \in DOMAIN preference THEN preference[<<p, type, channel>>]
    ELSE getNotificationTypeDefault(type, channel)
EmailWanted(n) == getEffectivePreference(n[2], Type(n), "email")

Publish(n, event) == published' = [published EXCEPT ![n] = Append(@, event)]
-----------------------------------------------------------------------------
setNotificationPreference(p, type, channel, enabled) ==
    LET key == <<p, type, channel>> IN
    /\ Can([id |-> p, status |-> "active"], "notification.preference.manage", OwnedBy(p), {})
    /\ preference' = [k \in DOMAIN preference \cup {key} |-> IF k = key THEN enabled ELSE preference[k]]
    /\ behind' = IF channel = "email" /\ ~enabled
                 THEN behind \cup {n \in NotificationId : n[2] = p /\ Type(n) = type /\ job[n] # "none"}
                 ELSE behind
    /\ UNCHANGED <<rowVars, mails, job, hook>>

\* queueNotification: nothing is written for a recipient who wants no channel.
Effective(n) == {c \in Channel : getEffectivePreference(n[2], Type(n), c)}
Queued(n) ==
    <<"NotificationQueued">> \o (IF "in_app" \in Effective(n) THEN <<"NotificationDelivered_in_app">> ELSE <<>>)

Pending == [status |-> "pending", provider |-> NoMail, retryCount |-> 0]
With(table, rows) == [n \in DOMAIN table \cup DOMAIN rows |-> IF n \in DOMAIN rows THEN rows[n] ELSE table[n]]

\* Every handler: one transaction records the event and queues for each
\* recipient; a redelivered event conflicts and changes nothing.
Consume(e) ==
    LET new == {n \in {e} \X Told(Inbound[e]).to : Effective(n) # {}}
        mailed == {n \in new : "email" \in Effective(n)}
    IN /\ e \notin processed /\ processed' = processed \cup {e}
       /\ notifications' = With(notifications, [n \in new |-> [channels |-> Effective(n), read |-> FALSE]])
       /\ published' = With(published, [n \in new |-> Queued(n)])
       /\ attempts' = With(attempts, [n \in mailed |-> Pending])
       /\ UNCHANGED <<preference, mails, job, hook, behind>>

\* markAsRead takes any notification of the person, markAllAsRead those that
\* are shown in the app.
MarkRead(p, found) ==
    /\ found # {}
    /\ notifications' = [n \in DOMAIN notifications |->
         IF n \in found THEN [notifications[n] EXCEPT !.read = TRUE] ELSE notifications[n]]
    /\ UNCHANGED <<preference, processed, attempts, published, mails, job, hook, behind>>
Unread(p) == {n \in DOMAIN notifications : n[2] = p /\ ~notifications[n].read}
markAsRead(p) == \E n \in Unread(p) : MarkRead(p, {n})
markAllAsRead(p) == MarkRead(p, {n \in Unread(p) : "in_app" \in notifications[n].channels})
-----------------------------------------------------------------------------
At(n, stage) == job[n] = stage
Goto(n, stage) == /\ job' = [job EXCEPT ![n] = stage]
                  /\ behind' = IF stage = "none" THEN behind \ {n} ELSE behind

\* Mutant: a try of a failed attempt relies on the decision of queue time.
DecidedWhenQueued(n) == attempts[n].status = "failed" \/ EmailWanted(n)
\* Mutant: a bounced email is sent again.
AlsoBounced(status) == status # "sent"
Deliverable(status) == status \in {"pending", "failed"}
StillEnabled(n) == EmailWanted(n)

\* processDeliveryJob: reads the attempt, then the preference again.
StartJob(n) ==
    /\ At(n, "none") /\ Deliverable(attempts[n].status) /\ Len(published[n]) < MaxEvents
    /\ Goto(n, IF StillEnabled(n) THEN "send" ELSE "revoked")
    /\ UNCHANGED <<preference, rowVars, mails, hook>>

Tried(a, status, more) == [status |-> status, provider |-> a.provider, retryCount |-> a.retryCount + more]
Update(n, status, more) == attempts' = [attempts EXCEPT ![n] = Tried(@, status, more)]

SuppressRevoked(n) ==
    /\ At(n, "revoked") /\ Update(n, "failed", 0) /\ Publish(n, "NotificationFailed")
    /\ Goto(n, "none") /\ UNCHANGED <<preference, processed, notifications, mails, hook>>

\* sendTransactionalEmail: refused, accepted, or accepted with a lost answer.
Send(n) ==
    /\ At(n, "send")
    /\ \/ Goto(n, "fail") /\ UNCHANGED mails
       \/ /\ Len(mails) < MaxMails /\ mails' = Append(mails, n)
          /\ \E stage \in {"record", "fail"} : Goto(n, stage)
    /\ UNCHANGED <<preference, rowVars, hook>>

RecordFailure(n) ==
    /\ At(n, "fail") /\ Update(n, "failed", 1) /\ Publish(n, "NotificationFailed")
    /\ Goto(n, "none") /\ UNCHANGED <<preference, processed, notifications, mails, hook>>

LastMail(n) == Max({id \in DOMAIN mails : mails[id] = n})
\* The answer of this run's email.
RecordSent(n) ==
    /\ At(n, "record")
    /\ attempts' = [attempts EXCEPT ![n] = [@ EXCEPT !.status = "sent", !.provider = LastMail(n)]]
    /\ Publish(n, "NotificationDelivered_email")
    /\ Goto(n, "none") /\ UNCHANGED <<preference, processed, notifications, mails, hook>>

\* The worker dies; the queue starts the job again.
Die(n) == job[n] # "none" /\ Goto(n, "none") /\ UNCHANGED <<preference, rowVars, mails, hook>>
-----------------------------------------------------------------------------
\* handleResendWebhook: finds the attempt by the email's id, in any order and
\* again; an email of an earlier try is not known.
ReadBounce(h, id) ==
    /\ hook[h] = <<>> /\ attempts[mails[id]].provider = id /\ attempts[mails[id]].status = "sent"
    /\ hook' = [hook EXCEPT ![h] = mails[id]]
    /\ UNCHANGED <<preference, rowVars, mails, job, behind>>

\* Mutant: the update does not ask for the status.
StillThere(n) == TRUE
StillSent(n) == attempts[n].status = "sent"
\* The update asks for the status again; a second one fails.
Bounce(h) == LET n == hook[h] IN
    /\ n # <<>> /\ hook' = [hook EXCEPT ![h] = <<>>]
    /\ \/ StillSent(n) /\ Update(n, "bounced", 0) /\ Publish(n, "NotificationFailed_bounced")
       \/ UNCHANGED <<attempts, published>>
    /\ UNCHANGED <<preference, processed, notifications, mails, job, behind>>
-----------------------------------------------------------------------------
Next ==
    \/ \E k \in Settable, enabled \in BOOLEAN : setNotificationPreference(k[1], k[2], k[3], enabled)
    \/ \E e \in EventId : Consume(e)
    \/ \E p \in Person : markAsRead(p) \/ markAllAsRead(p)
    \/ \E n \in DOMAIN attempts :
         StartJob(n) \/ SuppressRevoked(n) \/ Send(n) \/ RecordFailure(n) \/ RecordSent(n) \/ Die(n)
    \/ \E h \in Hook : (\E id \in DOMAIN mails : ReadBounce(h, id)) \/ Bounce(h)

Spec == Init /\ [][Next]_vars
-----------------------------------------------------------------------------
Published(n, event) == Cardinality({i \in DOMAIN published[n] : published[n][i] = event})

\* The events that others consume tell what became of each email: delivered
\* once when it was sent, bounced once after that, and failed at least as
\* often as a retry was counted; nothing is told after a bounce.
EventsTellDelivery ==
    \A n \in DOMAIN attempts : LET s == attempts[n].status IN
        /\ Published(n, "NotificationDelivered_email") = (IF s \in {"sent", "bounced"} THEN 1 ELSE 0)
        /\ Published(n, "NotificationFailed_bounced") = (IF s = "bounced" THEN 1 ELSE 0)
        /\ s = "bounced" => Last(published[n]) = "NotificationFailed_bounced"
        /\ attempts[n].retryCount <= Published(n, "NotificationFailed")

\* No email is about to go out to someone who had switched it off before the
\* run began, however long the notification waited or was retried.
ConsentAtDelivery == \A n \in DOMAIN attempts : At(n, "send") => EmailWanted(n) \/ n \in behind

\* An email known to be sent is not sent again, nor is it once it bounced.
SentIsFinal ==
    \A n \in DOMAIN attempts : attempts[n].provider # NoMail =>
        attempts[n].status \in {"sent", "bounced"} /\ job[n] = "none"
=============================================================================
