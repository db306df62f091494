---------------------- MODULE NotificationDeliveryProofs ----------------------
(***************************************************************************)
(* Theorems about NotificationDelivery, for any recipients, events, bounds *)
(* and number of overlapping webhooks.  That events name recipients, what  *)
(* can be set and that a bound is a number is the hypothesis Recipients.   *)
(***************************************************************************)
EXTENDS NotificationDelivery, FiniteSetTheorems, SequenceTheorems, WellFoundedInduction, TLAPS

Recipients ==
    /\ Settable \subseteq Person \X STRING \X Channel
    /\ \A e \in EventId : Told(Inbound[e]).to \subseteq Person
    /\ MaxMails \in Nat

DomainEvent == {"NotificationQueued", "NotificationDelivered_in_app", "NotificationDelivered_email",
                "NotificationFailed", "NotificationFailed_bounced"}
Notification == [channels : (SUBSET Channel) \ {{}}, read : BOOLEAN]
Attempt == [status : Status, provider : Nat, retryCount : Nat]
Stage == {"none", "send", "revoked", "record", "fail"}

\* TypeOK with its witnesses.  What is queued is of processed events, and only
\* an attempt has a job, a mail or a bounce.
Typed ==
    /\ \E s \in SUBSET Settable : preference \in [s -> BOOLEAN]
    /\ processed \subseteq EventId /\ DOMAIN notifications \subseteq NotificationId
    /\ \A n \in DOMAIN notifications : n[1] \in processed
    /\ notifications \in [DOMAIN notifications -> Notification]
    /\ DOMAIN attempts = {n \in DOMAIN notifications : "email" \in notifications[n].channels}
    /\ attempts \in [DOMAIN attempts -> Attempt]
    /\ DOMAIN published = DOMAIN notifications /\ published \in [DOMAIN published -> Seq(DomainEvent)]
    /\ mails \in Seq(DOMAIN attempts) /\ Len(mails) <= MaxMails
    /\ job \in [NotificationId -> Stage] /\ \A n \in NotificationId : job[n] # "none" => n \in DOMAIN attempts
    /\ hook \in [Hook -> DOMAIN attempts \cup {<<>>}]

\* What the events s tell of an attempt a, as EventsTellDelivery says.
Count(s, event) == Cardinality({i \in DOMAIN s : s[i] = event})
Tells(s, a) ==
    /\ Count(s, "NotificationDelivered_email") = (IF a.status \in {"sent", "bounced"} THEN 1 ELSE 0)
    /\ Count(s, "NotificationFailed_bounced") = (IF a.status = "bounced" THEN 1 ELSE 0)
    /\ a.status = "bounced" => Last(s) = "NotificationFailed_bounced"
    /\ a.retryCount <= Count(s, "NotificationFailed")

\* A job works on an attempt that no mail is known of, and has sent one before
\* it records it; a mail that is known was accepted.
AttemptAgrees(n) ==
    LET a == attempts[n] IN
    /\ Tells(published[n], a)
    /\ job[n] # "none" => a.status \in {"pending", "failed"} /\ a.provider = NoMail
    /\ job[n] = "record" => \E id \in DOMAIN mails : mails[id] = n
    /\ job[n] = "send" => EmailWanted(n) \/ n \in behind
    /\ a.provider # NoMail => a.status \in {"sent", "bounced"} /\ a.provider \in DOMAIN mails

IInv == Typed /\ \A n \in DOMAIN attempts : AttemptAgrees(n)

-----------------------------------------------------------------------------
(* Counting the events of a sequence. *)

LEMMA CountIsNatural ==
  ASSUME NEW s \in Seq(DomainEvent), NEW event
  PROVE  Count(s, event) \in Nat /\ IsFiniteSet({i \in DOMAIN s : s[i] = event})
  <1>1. IsFiniteSet(1..Len(s)) /\ DOMAIN s = 1..Len(s) /\ Len(s) \in Nat
    BY FS_Interval
  <1>2. IsFiniteSet({i \in DOMAIN s : s[i] = event})
    BY <1>1, FS_Subset
  <1> QED
    BY <1>2, FS_CardinalityType DEF Count

LEMMA CountAppended ==
  ASSUME NEW s \in Seq(DomainEvent), NEW x \in DomainEvent, NEW event
  PROVE  Count(Append(s, x), event) = Count(s, event) + (IF x = event THEN 1 ELSE 0)
  <1> DEFINE more == Append(s, x)
  <1> DEFINE before == {i \in DOMAIN s : s[i] = event}
  <1> DEFINE after == {i \in DOMAIN more : more[i] = event}
  <1>1. /\ DOMAIN s = 1..Len(s) /\ Len(s) \in Nat /\ DOMAIN more = 1..(Len(s) + 1)
        /\ more[Len(s) + 1] = x /\ \A i \in 1..Len(s) : more[i] = s[i]
    OBVIOUS
  <1>2. IsFiniteSet(before) /\ Cardinality(before) \in Nat
    BY CountIsNatural DEF Count
  <1>3. Count(s, event) = Cardinality(before) /\ Count(more, event) = Cardinality(after)
    BY DEF Count
  <1> HIDE DEF more
  <1>4. CASE x = event
    <2>1. after = before \cup {Len(s) + 1} /\ Len(s) + 1 \notin before
      BY <1>1, <1>4
    <2> HIDE DEF before, after
    <2>2. Cardinality(after) = Cardinality(before) + 1
      BY <1>2, <2>1, FS_AddElement
    <2> QED
      BY <1>3, <1>4, <2>2 DEF more
  <1>5. CASE x # event
    <2>1. \A i : i \in after <=> i \in before
      BY <1>1, <1>5
    <2>2. after = before
      BY <2>1
    <2> HIDE DEF before, after
    <2>3. Count(more, event) = Count(s, event) /\ Count(s, event) \in Nat
      BY <1>2, <1>3, <2>2
    <2> QED
      BY <1>5, <2>3 DEF more
  <1> QED
    BY <1>4, <1>5

\* What is published when a notification is queued says nothing of a mail.
LEMMA QueuedEvents ==
  ASSUME NEW n
  PROVE  /\ Queued(n) \in Seq(DomainEvent) /\ Queued(n) # <<>>
         /\ \A event \in DomainEvent \ {"NotificationQueued", "NotificationDelivered_in_app"} : Count(Queued(n), event) = 0
  <1> DEFINE First == {"NotificationQueued", "NotificationDelivered_in_app"}
  <1>1. /\ <<"NotificationQueued">> \in Seq(First) /\ Len(<<"NotificationQueued">>) = 1
        /\ <<"NotificationDelivered_in_app">> \in Seq(First) /\ <<>> \in Seq(First)
    OBVIOUS
  <1>2. PICK told \in Seq(First) : Queued(n) = <<"NotificationQueued">> \o told
    BY <1>1 DEF Queued
  <1> DEFINE s == <<"NotificationQueued">> \o told
  <1>3. s \in Seq(First) /\ Len(s) = 1 + Len(told) /\ Len(told) \in Nat
    <2> HIDE DEF First
    <2>1. <<"NotificationQueued">> \o told \in Seq(First) /\ Len(<<"NotificationQueued">> \o told) = Len(<<"NotificationQueued">>) + Len(told)
      BY <1>1, ConcatProperties, Zenon
    <2> QED
      BY <1>1, <2>1
  <1> HIDE DEF s
  <1>5. s \in Seq(DomainEvent) /\ s # <<>>
    <2>1. First \subseteq DomainEvent
      BY DEF DomainEvent
    <2>2. s \in Seq(DomainEvent)
      BY <1>3, <2>1, SeqMonotonic
    <2>3. Len(s) # 0
      BY <1>3
    <2> QED
      BY <2>2, <2>3, EmptySeq
  <1>6. \A i \in DOMAIN s : s[i] \in First
    <2> HIDE DEF First
    <2> QED
      BY <1>3, LenProperties, ElementOfSeq
  <1>4. ASSUME NEW event \in DomainEvent \ First PROVE Count(s, event) = 0
    <2>1. {i \in DOMAIN s : s[i] = event} = {}
      BY <1>6
    <2> QED
      BY <2>1, FS_EmptySet DEF Count
  <1> QED
    BY <1>2, <1>4, <1>5 DEF s

-----------------------------------------------------------------------------
(* What an event of a try tells of the attempt. *)

LEMMA FailureTold ==
  ASSUME NEW s \in Seq(DomainEvent), NEW a \in Attempt, Tells(s, a), a.status \in {"pending", "failed"},
         NEW more \in {0, 1}
  PROVE  Tells(Append(s, "NotificationFailed"), Tried(a, "failed", more))
  <1> DEFINE b == Tried(a, "failed", more)
  <1>1. b.status = "failed" /\ b.retryCount = a.retryCount + more /\ a.retryCount \in Nat
    BY DEF Attempt, Status, Tried
  <1>2. \A event : Count(s, event) \in Nat
    BY CountIsNatural
  <1>3. \A event : Count(Append(s, "NotificationFailed"), event) =
                     Count(s, event) + (IF "NotificationFailed" = event THEN 1 ELSE 0)
    BY CountAppended DEF DomainEvent
  <1> HIDE DEF b
  <1> DEFINE t == Append(s, "NotificationFailed")
  <1>4. /\ Count(s, "NotificationDelivered_email") = 0 /\ Count(s, "NotificationFailed_bounced") = 0
        /\ a.retryCount <= Count(s, "NotificationFailed")
    BY DEF Tells
  <1>5. /\ Count(t, "NotificationDelivered_email") = (IF b.status = "sent" THEN 1 ELSE 0)
        /\ Count(t, "NotificationFailed_bounced") = 0
    BY <1>1, <1>3, <1>4
  <1>6. b.retryCount <= Count(t, "NotificationFailed")
    BY <1>1, <1>2, <1>3, <1>4
  <1> HIDE DEF t
  <1>7. Tells(t, b)
    BY <1>1, <1>5, <1>6 DEF Tells
  <1> QED
    BY <1>7 DEF b, t

LEMMA SuccessTold ==
  ASSUME NEW s \in Seq(DomainEvent), NEW a \in Attempt, Tells(s, a), a.status \in {"pending", "failed"}, NEW id
  PROVE  Tells(Append(s, "NotificationDelivered_email"), [a EXCEPT !.status = "sent", !.provider = id])
  <1> DEFINE b == [a EXCEPT !.status = "sent", !.provider = id]
  <1>1. b.status = "sent" /\ b.retryCount = a.retryCount /\ a.retryCount \in Nat
    BY DEF Attempt, Status
  <1>2. \A event : Count(s, event) \in Nat
    BY CountIsNatural
  <1>3. \A event : Count(Append(s, "NotificationDelivered_email"), event) =
                     Count(s, event) + (IF "NotificationDelivered_email" = event THEN 1 ELSE 0)
    BY CountAppended DEF DomainEvent
  <1> HIDE DEF b
  <1> DEFINE t == Append(s, "NotificationDelivered_email")
  <1>4. /\ Count(s, "NotificationDelivered_email") = 0 /\ Count(s, "NotificationFailed_bounced") = 0
        /\ a.retryCount <= Count(s, "NotificationFailed")
    BY DEF Tells
  <1>5. /\ Count(t, "NotificationDelivered_email") = (IF b.status = "sent" THEN 1 ELSE 0)
        /\ Count(t, "NotificationFailed_bounced") = 0
    BY <1>1, <1>3, <1>4
  <1>6. b.retryCount <= Count(t, "NotificationFailed")
    BY <1>1, <1>2, <1>3, <1>4
  <1> HIDE DEF t
  <1>7. Tells(t, b)
    BY <1>1, <1>5, <1>6 DEF Tells
  <1> QED
    BY <1>7 DEF b, t

LEMMA BounceTold ==
  ASSUME NEW s \in Seq(DomainEvent), NEW a \in Attempt, Tells(s, a), a.status = "sent"
  PROVE  Tells(Append(s, "NotificationFailed_bounced"), Tried(a, "bounced", 0))
  <1> DEFINE b == Tried(a, "bounced", 0)
  <1>1. b.status = "bounced" /\ b.retryCount = a.retryCount /\ a.retryCount \in Nat
    BY DEF Attempt, Status, Tried
  <1>2. \A event : Count(s, event) \in Nat
    BY CountIsNatural
  <1>3. \A event : Count(Append(s, "NotificationFailed_bounced"), event) =
                     Count(s, event) + (IF "NotificationFailed_bounced" = event THEN 1 ELSE 0)
    BY CountAppended DEF DomainEvent
  <1>4. Last(Append(s, "NotificationFailed_bounced")) = "NotificationFailed_bounced"
    BY AppendProperties DEF Last, DomainEvent
  <1> HIDE DEF b
  <1>5. Tells(Append(s, "NotificationFailed_bounced"), b)
    BY <1>1, <1>2, <1>3, <1>4 DEF Tells
  <1> QED
    BY <1>5 DEF b

LEMMA QueuedTold == ASSUME NEW n PROVE Tells(Queued(n), Pending)
  <1>1. \A event \in {"NotificationDelivered_email", "NotificationFailed_bounced", "NotificationFailed"} :
          Count(Queued(n), event) = 0
    BY QueuedEvents DEF DomainEvent
  <1> QED
    BY <1>1 DEF Tells, Pending

-----------------------------------------------------------------------------
(* The steps. *)

LEMMA SameWish == preference' = preference => \A n : EmailWanted(n)' = EmailWanted(n)
  BY DEF EmailWanted, getEffectivePreference

LEMMA InitIInv == ASSUME Recipients PROVE Init => IInv
  <1> SUFFICES ASSUME Init PROVE IInv
    OBVIOUS
  <1>1. /\ DOMAIN notifications = {} /\ DOMAIN attempts = {} /\ DOMAIN published = {} /\ DOMAIN preference = {}
        /\ Len(mails) = 0 /\ mails \in Seq(DOMAIN attempts)
    BY DEF Init
  <1>2. preference \in [{} -> BOOLEAN] /\ {} \in SUBSET Settable
    BY <1>1 DEF Init
  <1>3. /\ notifications \in [DOMAIN notifications -> Notification]
        /\ attempts \in [DOMAIN attempts -> Attempt]
        /\ published \in [DOMAIN published -> Seq(DomainEvent)]
    BY <1>1 DEF Init
  <1>4. job \in [NotificationId -> Stage] /\ hook \in [Hook -> {<<>>}] /\ \A n \in NotificationId : job[n] = "none"
    BY DEF Init, Stage
  <1>5. hook \in [Hook -> DOMAIN attempts \cup {<<>>}]
    BY <1>4
  <1>6. processed = {} /\ Len(mails) <= MaxMails
    BY <1>1 DEF Recipients, Init
  <1>7. Typed
    BY <1>1, <1>2, <1>3, <1>4, <1>5, <1>6 DEF Typed
  <1> QED
    BY <1>1, <1>7 DEF IInv

\* A step about one attempt need only say what becomes of that one.
LEMMA OneAttempt ==
  ASSUME IInv, Typed', NEW n \in DOMAIN attempts, AttemptAgrees(n)',
         preference' = preference, DOMAIN attempts' = DOMAIN attempts,
         \/ mails' = mails
         \/ mails' = Append(mails, n),
         \A m \in DOMAIN attempts : m # n =>
           /\ attempts'[m] = attempts[m] /\ published'[m] = published[m] /\ job'[m] = job[m]
           /\ m \in behind => m \in behind'
  PROVE  IInv'
  <1>1. mails \in Seq(DOMAIN attempts)
    BY DEF IInv, Typed
  <1>2. \A id \in DOMAIN mails : id \in DOMAIN mails' /\ mails'[id] = mails[id]
    BY <1>1
  <1>3. ASSUME NEW m \in DOMAIN attempts, m # n PROVE AttemptAgrees(m)'
    <2>1. AttemptAgrees(m)
      BY DEF IInv
    <2>2. EmailWanted(m)' = EmailWanted(m)
      BY SameWish
    <2>3. attempts'[m] = attempts[m] /\ published'[m] = published[m] /\ job'[m] = job[m] /\ (m \in behind => m \in behind')
      BY <1>3
    <2> QED
      BY <1>2, <2>1, <2>2, <2>3 DEF AttemptAgrees, Tells, Count
  <1> QED
    BY <1>3 DEF IInv

LEMMA PreferenceStep ==
  ASSUME IInv, Recipients, NEW k \in Settable, NEW enabled \in BOOLEAN, setNotificationPreference(k[1], k[2], k[3], enabled)
  PROVE  IInv'
  <1>1. k = <<k[1], k[2], k[3]>>
    BY DEF Recipients
  <1>2. /\ preference' = [x \in DOMAIN preference \cup {k} |-> IF x = k THEN enabled ELSE preference[x]]
        /\ UNCHANGED <<rowVars, mails, job, hook>>
    BY <1>1 DEF setNotificationPreference
  <1>3. PICK s \in SUBSET Settable : preference \in [s -> BOOLEAN]
    BY DEF IInv, Typed
  <1>4. preference' \in [s \cup {k} -> BOOLEAN] /\ s \cup {k} \in SUBSET Settable
    BY <1>2, <1>3
  <1>5. Typed'
    BY <1>2, <1>4 DEF IInv, Typed, rowVars
  <1>6. ASSUME NEW n \in DOMAIN attempts PROVE AttemptAgrees(n)'
    <2>1. AttemptAgrees(n) /\ n \in NotificationId /\ n = <<n[1], n[2]>>
      BY DEF IInv, Typed, NotificationId
    <2>2. ASSUME job[n] = "send" PROVE EmailWanted(n)' \/ n \in behind'
      <3>1. behind \subseteq behind'
        BY DEF setNotificationPreference
      <3>2. EmailWanted(n) \/ n \in behind
        BY <2>1, <2>2 DEF AttemptAgrees
      <3> DEFINE mine == <<n[2], Type(n), "email">>
      <3>3. CASE k # mine
        <4>1. EmailWanted(n)' = EmailWanted(n)
          BY <1>2, <3>3 DEF EmailWanted, getEffectivePreference
        <4> QED
          BY <3>1, <3>2, <4>1
      <3>4. CASE k = mine /\ enabled
        BY <1>2, <3>4 DEF EmailWanted, getEffectivePreference
      <3>5. CASE k = mine /\ ~enabled
        <4>1. k[1] = n[2] /\ k[2] = Type(n) /\ k[3] = "email"
          BY <3>5
        <4>2. n \in behind'
          BY <2>1, <2>2, <3>5, <4>1 DEF setNotificationPreference
        <4> QED
          BY <4>2
      <3> QED
        BY <3>3, <3>4, <3>5
    <2> QED
      BY <1>2, <2>1, <2>2 DEF AttemptAgrees, Tells, Count, rowVars
  <1> QED
    BY <1>2, <1>5, <1>6 DEF IInv, rowVars

LEMMA ConsumeStep ==
  ASSUME IInv, Recipients, NEW e \in EventId, Consume(e)
  PROVE  IInv'
  <1> DEFINE new == {n \in {e} \X Told(Inbound[e]).to : Effective(n) # {}}
  <1> DEFINE mailed == {n \in new : "email" \in Effective(n)}
  <1> DEFINE notes == [n \in new |-> [channels |-> Effective(n), read |-> FALSE]]
  <1> DEFINE told == [n \in new |-> Queued(n)]
  <1> DEFINE tries == [n \in mailed |-> Pending]
  <1>1. /\ e \notin processed /\ processed' = processed \cup {e}
        /\ notifications' = With(notifications, notes) /\ published' = With(published, told)
        /\ attempts' = With(attempts, tries)
        /\ UNCHANGED <<preference, mails, job, hook, behind>>
    BY DEF Consume
  <1>2. Typed
    BY DEF IInv
  <1>3. \A n \in new : n[1] = e /\ n \in NotificationId /\ Effective(n) \in (SUBSET Channel) \ {{}}
    BY DEF Recipients, NotificationId, Effective
  <1>4. /\ DOMAIN notes = new /\ \A n \in new : notes[n] = [channels |-> Effective(n), read |-> FALSE]
        /\ DOMAIN told = new /\ \A n \in new : told[n] = Queued(n)
        /\ DOMAIN tries = mailed /\ \A n \in mailed : tries[n] = Pending
    OBVIOUS
  <1>5. mailed \subseteq new /\ \A n \in new : n \in mailed <=> "email" \in Effective(n)
    OBVIOUS
  <1>6. DOMAIN notifications \cap new = {} /\ DOMAIN attempts \subseteq DOMAIN notifications
    BY <1>1, <1>2, <1>3 DEF Typed
  <1> HIDE DEF new, mailed, notes, told, tries
  <1>7. /\ DOMAIN notifications' = DOMAIN notifications \cup new
        /\ \A n \in DOMAIN notifications' : notifications'[n] =
             IF n \in new THEN [channels |-> Effective(n), read |-> FALSE] ELSE notifications[n]
        /\ notifications' = [n \in DOMAIN notifications' |-> notifications'[n]]
    BY <1>1, <1>4 DEF With
  <1>8. /\ DOMAIN published' = DOMAIN published \cup new
        /\ \A n \in DOMAIN published' : published'[n] = IF n \in new THEN Queued(n) ELSE published[n]
        /\ published' = [n \in DOMAIN published' |-> published'[n]]
    BY <1>1, <1>4 DEF With
  <1>9. /\ DOMAIN attempts' = DOMAIN attempts \cup mailed
        /\ \A n \in DOMAIN attempts' : attempts'[n] = IF n \in mailed THEN Pending ELSE attempts[n]
        /\ attempts' = [n \in DOMAIN attempts' |-> attempts'[n]]
    BY <1>1, <1>4 DEF With
  <1>10. Typed'
    <2>1. /\ \E s \in SUBSET Settable : preference' \in [s -> BOOLEAN]
          /\ processed' \subseteq EventId /\ DOMAIN notifications' \subseteq NotificationId
          /\ \A n \in DOMAIN notifications' : n[1] \in processed'
      BY <1>1, <1>2, <1>3, <1>7 DEF Typed
    <2>2. notifications' \in [DOMAIN notifications' -> Notification]
      <3>1. \A n \in new : [channels |-> Effective(n), read |-> FALSE] \in Notification
        BY <1>3 DEF Notification
      <3>2. \A n \in DOMAIN notifications : notifications[n] \in Notification
        BY <1>2 DEF Typed
      <3>3. \A n \in DOMAIN notifications' : notifications'[n] \in Notification
        BY <1>7, <3>1, <3>2
      <3> QED
        BY <1>7, <3>3
    <2>3. DOMAIN attempts' = {n \in DOMAIN notifications' : "email" \in notifications'[n].channels}
      <3>1. ASSUME NEW n \in DOMAIN notifications' PROVE n \in DOMAIN attempts' <=> "email" \in notifications'[n].channels
        <4>1. CASE n \in new
          <5>1. notifications'[n] = [channels |-> Effective(n), read |-> FALSE]
            BY <1>7, <4>1
          <5>2. n \notin DOMAIN attempts
            BY <1>6, <4>1
          <5>3. notifications'[n].channels = Effective(n)
            BY <5>1
          <5> QED
            BY <1>5, <1>9, <4>1, <5>2, <5>3
        <4>2. CASE n \notin new
          <5>1. n \in DOMAIN notifications /\ notifications'[n] = notifications[n]
            BY <1>7, <4>2
          <5>2. n \in DOMAIN attempts <=> "email" \in notifications[n].channels
            BY <1>2, <5>1 DEF Typed
          <5> QED
            BY <1>5, <1>9, <4>2, <5>1, <5>2
        <4> QED
          BY <4>1, <4>2
      <3>2. DOMAIN attempts' \subseteq DOMAIN notifications'
        BY <1>5, <1>6, <1>7, <1>9
      <3> QED
        BY <3>1, <3>2
    <2>4. attempts' \in [DOMAIN attempts' -> Attempt]
      <3>1. Pending \in Attempt
        BY DEF Pending, Attempt, Status, NoMail
      <3>2. \A n \in DOMAIN attempts' : attempts'[n] \in Attempt
        BY <1>2, <1>9, <3>1 DEF Typed
      <3> QED
        BY <1>9, <3>2
    <2>5. DOMAIN published' = DOMAIN notifications' /\ published' \in [DOMAIN published' -> Seq(DomainEvent)]
      <3>1. \A n \in DOMAIN published' : published'[n] \in Seq(DomainEvent)
        BY <1>2, <1>8, QueuedEvents DEF Typed
      <3> QED
        BY <1>2, <1>7, <1>8, <3>1 DEF Typed
    <2>6. mails' \in Seq(DOMAIN attempts') /\ Len(mails') <= MaxMails
      <3>1. mails \in Seq(DOMAIN attempts) /\ DOMAIN attempts \subseteq DOMAIN attempts'
        BY <1>2, <1>9 DEF Typed
      <3>2. mails \in Seq(DOMAIN attempts')
        BY <3>1, SeqMonotonic
      <3> QED
        BY <1>1, <1>2, <3>2 DEF Typed
    <2>7. /\ job' \in [NotificationId -> Stage] /\ \A n \in NotificationId : job'[n] # "none" => n \in DOMAIN attempts'
          /\ hook' \in [Hook -> DOMAIN attempts' \cup {<<>>}]
      BY <1>1, <1>2, <1>9 DEF Typed
    <2> QED
      BY <2>1, <2>2, <2>3, <2>4, <2>5, <2>6, <2>7 DEF Typed
  <1>11. ASSUME NEW n \in DOMAIN attempts' PROVE AttemptAgrees(n)'
    <2>1. EmailWanted(n)' = EmailWanted(n)
      BY <1>1, SameWish
    <2>2. CASE n \in mailed
      <3>1. attempts'[n] = Pending /\ published'[n] = Queued(n) /\ job'[n] = job[n]
        BY <1>1, <1>2, <1>5, <1>6, <1>7, <1>8, <1>9, <2>2 DEF Typed
      <3>2. job[n] = "none"
        BY <1>2, <1>3, <1>5, <1>6, <2>2 DEF Typed
      <3>3. Tells(published'[n], attempts'[n])
        BY <3>1, QueuedTold
      <3>4. attempts'[n].provider = NoMail
        BY <3>1 DEF Pending
      <3> QED
        BY <3>1, <3>2, <3>3, <3>4 DEF AttemptAgrees, Tells, Count
    <2>3. CASE n \notin mailed
      <3>1. n \in DOMAIN attempts /\ n \notin new
        BY <1>6, <1>9, <2>3
      <3>2. attempts'[n] = attempts[n] /\ published'[n] = published[n] /\ job'[n] = job[n]
        BY <1>1, <1>2, <1>6, <1>8, <1>9, <2>3, <3>1 DEF Typed
      <3>3. AttemptAgrees(n)
        BY <3>1 DEF IInv
      <3> QED
        BY <1>1, <2>1, <3>2, <3>3 DEF AttemptAgrees, Tells, Count
    <2> QED
      BY <2>2, <2>3
  <1> QED
    BY <1>10, <1>11 DEF IInv

LEMMA ReadStep ==
  ASSUME IInv, NEW p, NEW found, found \subseteq DOMAIN notifications, MarkRead(p, found)
  PROVE  IInv'
  <1>1. /\ DOMAIN notifications' = DOMAIN notifications
        /\ \A n \in DOMAIN notifications : notifications'[n] =
             IF n \in found THEN [notifications[n] EXCEPT !.read = TRUE] ELSE notifications[n]
        /\ notifications' = [n \in DOMAIN notifications' |-> notifications'[n]]
        /\ UNCHANGED <<preference, processed, attempts, published, mails, job, hook, behind>>
    BY DEF MarkRead
  <1>2. Typed
    BY DEF IInv
  <1>3. \A n \in DOMAIN notifications : notifications'[n] \in Notification /\ notifications'[n].channels = notifications[n].channels
    BY <1>1, <1>2 DEF Typed, Notification
  <1>4. Typed'
    <2>1. notifications' \in [DOMAIN notifications' -> Notification]
      BY <1>1, <1>3
    <2>2. DOMAIN attempts' = {n \in DOMAIN notifications' : "email" \in notifications'[n].channels}
      BY <1>1, <1>2, <1>3 DEF Typed
    <2> QED
      BY <1>1, <1>2, <2>1, <2>2 DEF Typed
  <1>5. ASSUME NEW n \in DOMAIN attempts PROVE AttemptAgrees(n)'
    <2>1. AttemptAgrees(n) /\ EmailWanted(n)' = EmailWanted(n)
      BY <1>1, SameWish DEF IInv
    <2> QED
      BY <1>1, <2>1 DEF AttemptAgrees, Tells, Count
  <1> QED
    BY <1>1, <1>4, <1>5 DEF IInv

LEMMA StartStep ==
  ASSUME IInv, NEW n \in DOMAIN attempts, StartJob(n)
  PROVE  IInv'
  <1> DEFINE stage == IF StillEnabled(n) THEN "send" ELSE "revoked"
  <1>1. /\ job[n] = "none" /\ attempts[n].status \in {"pending", "failed"}
        /\ job' = [job EXCEPT ![n] = stage] /\ behind' = behind
        /\ UNCHANGED <<preference, rowVars, mails, hook>>
    BY DEF StartJob, At, Goto, Deliverable
  <1>2. Typed /\ AttemptAgrees(n) /\ n \in NotificationId
    BY DEF IInv, Typed
  <1>3. Typed'
    BY <1>1, <1>2 DEF Typed, rowVars, Stage
  <1>4. AttemptAgrees(n)'
    <2>1. attempts[n].provider = NoMail
      BY <1>1, <1>2 DEF AttemptAgrees
    <2>2. job'[n] = stage /\ (stage = "send" => EmailWanted(n))
      BY <1>1, <1>2 DEF Typed, StillEnabled
    <2>3. stage # "record"
      OBVIOUS
    <2>4. EmailWanted(n)' = EmailWanted(n)
      BY <1>1, SameWish
    <2> HIDE DEF stage
    <2> QED
      BY <1>1, <1>2, <2>1, <2>2, <2>3, <2>4 DEF AttemptAgrees, Tells, Count, rowVars
  <1>5. \A m \in DOMAIN attempts : m # n => job'[m] = job[m]
    BY <1>1, <1>2 DEF Typed
  <1> QED
    BY <1>1, <1>3, <1>4, <1>5, OneAttempt DEF rowVars

\* What ends a job: a try that failed, and one that was suppressed.
LEMMA FailedStep ==
  ASSUME IInv, NEW n \in DOMAIN attempts, NEW more \in {0, 1}, job[n] # "none",
         Update(n, "failed", more), Publish(n, "NotificationFailed"),
         Goto(n, "none"), UNCHANGED <<preference, processed, notifications, mails, hook>>
  PROVE  IInv'
  <1> DEFINE a == attempts[n]
  <1> DEFINE b == Tried(a, "failed", more)
  <1>1. /\ attempts' = [attempts EXCEPT ![n] = b]
        /\ published' = [published EXCEPT ![n] = Append(published[n], "NotificationFailed")]
        /\ job' = [job EXCEPT ![n] = "none"] /\ behind' = behind \ {n}
    <2>1. attempts' = [attempts EXCEPT ![n] = b]
      BY DEF Update
    <2>2. published' = [published EXCEPT ![n] = Append(published[n], "NotificationFailed")]
      BY DEF Publish
    <2>3. job' = [job EXCEPT ![n] = "none"] /\ behind' = behind \ {n}
      BY DEF Goto
    <2> QED
      BY <2>1, <2>2, <2>3
  <1>2. Typed /\ AttemptAgrees(n) /\ n \in NotificationId /\ n \in DOMAIN published
    BY DEF IInv, Typed
  <1>3. a \in Attempt /\ published[n] \in Seq(DomainEvent)
    BY <1>2 DEF Typed
  <1>4. a.status \in {"pending", "failed"} /\ a.provider = NoMail /\ Tells(published[n], a)
    BY <1>2 DEF AttemptAgrees
  <1>5. Tells(Append(published[n], "NotificationFailed"), b)
    BY <1>3, <1>4, FailureTold
  <1>6. b \in Attempt /\ b.provider = NoMail
    <2>1. a.retryCount + more \in Nat /\ "failed" \in Status
      BY <1>3 DEF Attempt, Status
    <2> QED
      BY <1>3, <1>4, <2>1 DEF Attempt, Tried
  <1>7. Append(published[n], "NotificationFailed") \in Seq(DomainEvent)
    BY <1>3, AppendProperties DEF DomainEvent
  <1> HIDE DEF a, b
  <1>8. DOMAIN attempts' = DOMAIN attempts /\ DOMAIN published' = DOMAIN published
    BY <1>1
  <1>9. Typed'
    BY <1>1, <1>2, <1>6, <1>7, <1>8 DEF Typed, Stage
  <1>10. AttemptAgrees(n)'
    <2>1. attempts'[n] = b /\ published'[n] = Append(published[n], "NotificationFailed") /\ job'[n] = "none"
      BY <1>1, <1>2 DEF Typed
    <2>2. Tells(published[n], attempts[n])'
      BY <1>5, <2>1 DEF Tells, Count
    <2> QED
      BY <1>6, <2>1, <2>2 DEF AttemptAgrees
  <1>11. \A m \in DOMAIN attempts : m # n =>
           /\ attempts'[m] = attempts[m] /\ published'[m] = published[m] /\ job'[m] = job[m]
           /\ m \in behind => m \in behind'
    BY <1>1, <1>2 DEF Typed
  <1> QED
    BY <1>8, <1>9, <1>10, <1>11, OneAttempt

LEMMA SendStep ==
  ASSUME IInv, Recipients, NEW n \in DOMAIN attempts, Send(n)
  PROVE  IInv'
  <1>1. PICK stage \in {"record", "fail"} :
          /\ job[n] = "send" /\ job' = [job EXCEPT ![n] = stage] /\ behind' = behind
          /\ \/ mails' = mails /\ stage = "fail"
             \/ mails' = Append(mails, n) /\ Len(mails) < MaxMails
    BY DEF Send, At, Goto
  <1>2. UNCHANGED <<preference, rowVars, hook>>
    BY DEF Send
  <1>3. Typed /\ AttemptAgrees(n) /\ n \in NotificationId /\ mails \in Seq(DOMAIN attempts)
    BY DEF IInv, Typed
  <1>4. /\ mails' \in Seq(DOMAIN attempts) /\ Len(mails') <= MaxMails
        /\ mails' # mails => mails'[Len(mails) + 1] = n /\ Len(mails) + 1 \in DOMAIN mails'
        /\ DOMAIN mails \subseteq DOMAIN mails'
    <2>1. CASE mails' = mails
      BY <1>3, <2>1 DEF Typed
    <2>2. CASE mails' = Append(mails, n) /\ Len(mails) < MaxMails
      <3>1. /\ mails' \in Seq(DOMAIN attempts) /\ Len(mails') = Len(mails) + 1 /\ mails'[Len(mails) + 1] = n
            /\ DOMAIN mails' = 1..Len(mails') /\ DOMAIN mails = 1..Len(mails) /\ Len(mails) \in Nat
        BY <1>3, <2>2, AppendProperties, LenProperties
      <3>2. Len(mails) + 1 <= MaxMails
        BY <2>2, <3>1 DEF Recipients
      <3> QED
        BY <3>1, <3>2
    <2> QED
      BY <1>1, <2>1, <2>2
  <1>5. Typed'
    BY <1>1, <1>2, <1>3, <1>4 DEF Typed, rowVars, Stage
  <1>6. AttemptAgrees(n)'
    <2>1. job'[n] = stage /\ stage # "send" /\ stage # "none"
      BY <1>1, <1>3 DEF Typed
    <2>2. stage = "record" => \E id \in DOMAIN mails' : mails'[id] = n
      <3>1. CASE stage = "record"
        <4>1. mails'[Len(mails) + 1] = n /\ Len(mails) + 1 \in DOMAIN mails'
          BY <1>1, <1>3, <3>1, AppendProperties, LenProperties
        <4> QED
          BY <4>1
      <3> QED
        BY <3>1
    <2> QED
      BY <1>1, <1>2, <1>3, <1>4, <2>1, <2>2 DEF AttemptAgrees, Tells, Count, rowVars
  <1>7. \A m \in DOMAIN attempts : m # n => job'[m] = job[m]
    BY <1>1, <1>3 DEF Typed
  <1> QED
    BY <1>1, <1>2, <1>5, <1>6, <1>7, OneAttempt DEF rowVars

LEMMA LastMailWasOurs ==
  ASSUME IInv, NEW n \in DOMAIN attempts, job[n] = "record"
  PROVE  LastMail(n) \in DOMAIN mails /\ LastMail(n) \in Nat \ {0}
  <1> DEFINE ours == {id \in DOMAIN mails : mails[id] = n}
  <1>1. ours # {} /\ mails \in Seq(DOMAIN attempts)
    BY DEF IInv, AttemptAgrees, Typed
  <1>2. ours \subseteq 1..Len(mails) /\ Len(mails) \in Nat
    BY <1>1, LenProperties
  <1> DEFINE fromEnd == {Len(mails) - id : id \in ours}
  <1>3. fromEnd \subseteq Nat /\ fromEnd # {}
    <2>1. \A id \in ours : Len(mails) - id \in Nat
      BY <1>2
    <2> QED
      BY <1>1, <2>1
  <1>4. PICK m \in fromEnd : \A y \in fromEnd : ~(<<y, m>> \in OpToRel(<, Nat))
    BY <1>3, NatLessThanWellFounded, WFMin
  <1>5. \A y \in fromEnd : ~(y < m)
    BY <1>3, <1>4 DEF OpToRel
  <1>6. PICK last \in ours : m = Len(mails) - last
    BY <1>4
  <1>7. \A id \in ours : last >= id
    <2>1. \A id \in ours : ~(Len(mails) - id < Len(mails) - last)
      BY <1>5, <1>6
    <2>2. \A id \in ours : id \in Nat
      BY <1>2
    <2> HIDE DEF ours
    <2> QED
      BY <1>2, <1>6, <2>1, <2>2
  <1>8. LastMail(n) \in ours
    BY <1>6, <1>7 DEF LastMail, Max
  <1> QED
    BY <1>2, <1>8

LEMMA RecordSentStep ==
  ASSUME IInv, NEW n \in DOMAIN attempts, RecordSent(n)
  PROVE  IInv'
  <1> DEFINE b == [attempts[n] EXCEPT !.status = "sent", !.provider = LastMail(n)]
  <1> DEFINE s == Append(published[n], "NotificationDelivered_email")
  <1>1. /\ attempts' = [attempts EXCEPT ![n] = b] /\ published' = [published EXCEPT ![n] = s]
        /\ job[n] = "record" /\ job' = [job EXCEPT ![n] = "none"] /\ behind' = behind \ {n}
        /\ UNCHANGED <<preference, processed, notifications, mails, hook>>
    BY DEF RecordSent, Publish, Goto, At
  <1>2. Typed /\ AttemptAgrees(n) /\ n \in NotificationId /\ n \in DOMAIN published
    BY DEF IInv, Typed
  <1>3. attempts[n] \in Attempt /\ published[n] \in Seq(DomainEvent)
    BY <1>2 DEF Typed
  <1>4. attempts[n].status \in {"pending", "failed"} /\ Tells(published[n], attempts[n])
    BY <1>1, <1>2 DEF AttemptAgrees
  <1>5. LastMail(n) \in DOMAIN mails /\ LastMail(n) \in Nat
    BY <1>1, LastMailWasOurs
  <1>6. Tells(s, b)
    BY <1>3, <1>4, SuccessTold
  <1>7. b \in Attempt /\ b.provider = LastMail(n) /\ b.status = "sent"
    BY <1>3, <1>5 DEF Attempt, Status
  <1>8. s \in Seq(DomainEvent)
    BY <1>3, AppendProperties DEF DomainEvent
  <1> HIDE DEF b, s
  <1>9. DOMAIN attempts' = DOMAIN attempts /\ DOMAIN published' = DOMAIN published
    BY <1>1
  <1>10. Typed'
    BY <1>1, <1>2, <1>7, <1>8, <1>9 DEF Typed, Stage
  <1>11. AttemptAgrees(n)'
    <2>1. attempts'[n] = b /\ published'[n] = s /\ job'[n] = "none" /\ mails' = mails
      BY <1>1, <1>2 DEF Typed
    <2>2. Tells(published[n], attempts[n])'
      BY <1>6, <2>1 DEF Tells, Count
    <2> QED
      BY <1>5, <1>7, <2>1, <2>2 DEF AttemptAgrees
  <1>12. \A m \in DOMAIN attempts : m # n =>
           /\ attempts'[m] = attempts[m] /\ published'[m] = published[m] /\ job'[m] = job[m]
           /\ m \in behind => m \in behind'
    BY <1>1, <1>2 DEF Typed
  <1> QED
    BY <1>1, <1>9, <1>10, <1>11, <1>12, OneAttempt

LEMMA DieStep ==
  ASSUME IInv, NEW n \in DOMAIN attempts, Die(n)
  PROVE  IInv'
  <1>1. /\ job' = [job EXCEPT ![n] = "none"] /\ behind' = behind \ {n}
        /\ UNCHANGED <<preference, rowVars, mails, hook>>
    BY DEF Die, Goto
  <1>2. Typed /\ AttemptAgrees(n) /\ n \in NotificationId
    BY DEF IInv, Typed
  <1>3. Typed'
    BY <1>1, <1>2 DEF Typed, rowVars, Stage
  <1>4. job'[n] = "none" /\ \A m \in DOMAIN attempts : m # n => job'[m] = job[m]
    BY <1>1, <1>2 DEF Typed
  <1>5. AttemptAgrees(n)'
    BY <1>1, <1>2, <1>4 DEF AttemptAgrees, Tells, Count, rowVars
  <1> QED
    BY <1>1, <1>3, <1>4, <1>5, OneAttempt DEF rowVars

LEMMA ReadBounceStep ==
  ASSUME IInv, NEW h \in Hook, NEW id \in DOMAIN mails, ReadBounce(h, id)
  PROVE  IInv'
  <1>1. hook' = [hook EXCEPT ![h] = mails[id]] /\ UNCHANGED <<preference, rowVars, mails, job, behind>>
    BY DEF ReadBounce
  <1>2. Typed /\ mails[id] \in DOMAIN attempts
    BY ElementOfSeq, LenProperties DEF IInv, Typed
  <1>3. Typed'
    BY <1>1, <1>2 DEF Typed, rowVars
  <1>4. ASSUME NEW n \in DOMAIN attempts PROVE AttemptAgrees(n)'
    <2>1. AttemptAgrees(n) /\ EmailWanted(n)' = EmailWanted(n)
      BY <1>1, SameWish DEF IInv
    <2> QED
      BY <1>1, <2>1 DEF AttemptAgrees, Tells, Count, rowVars
  <1> QED
    BY <1>1, <1>3, <1>4 DEF IInv, rowVars

LEMMA BounceStep ==
  ASSUME IInv, NEW h \in Hook, Bounce(h)
  PROVE  IInv'
  <1>0. PICK n : n = hook[h]
    OBVIOUS
  <1>1. hook' = [hook EXCEPT ![h] = <<>>] /\ UNCHANGED <<preference, processed, notifications, mails, job, behind>>
    BY DEF Bounce
  <1>2. Typed /\ n \in DOMAIN attempts
    BY <1>0 DEF IInv, Typed, Bounce
  <1>3. hook' \in [Hook -> DOMAIN attempts \cup {<<>>}]
    BY <1>1, <1>2 DEF Typed
  <1>4. CASE UNCHANGED <<attempts, published>>
    <2>1. Typed'
      BY <1>1, <1>2, <1>3, <1>4 DEF Typed
    <2>2. ASSUME NEW m \in DOMAIN attempts PROVE AttemptAgrees(m)'
      <3>1. AttemptAgrees(m) /\ EmailWanted(m)' = EmailWanted(m)
        BY <1>1, SameWish DEF IInv
      <3> QED
        BY <1>1, <1>4, <3>1 DEF AttemptAgrees, Tells, Count
    <2> QED
      BY <1>4, <2>1, <2>2 DEF IInv
  <1>5. CASE StillSent(n) /\ Update(n, "bounced", 0) /\ Publish(n, "NotificationFailed_bounced")
    <2> DEFINE b == Tried(attempts[n], "bounced", 0)
    <2> DEFINE s == Append(published[n], "NotificationFailed_bounced")
    <2>1. attempts' = [attempts EXCEPT ![n] = b] /\ published' = [published EXCEPT ![n] = s] /\ attempts[n].status = "sent"
      BY <1>5 DEF Update, Publish, StillSent
    <2>2. AttemptAgrees(n) /\ n \in NotificationId /\ n \in DOMAIN published
      BY <1>2 DEF IInv, Typed
    <2>3. attempts[n] \in Attempt /\ published[n] \in Seq(DomainEvent)
      BY <1>2, <2>2 DEF Typed
    <2>4. job[n] = "none" /\ Tells(published[n], attempts[n])
      BY <2>1, <2>2 DEF AttemptAgrees
    <2>5. Tells(s, b)
      BY <2>1, <2>3, <2>4, BounceTold
    <2>6. b \in Attempt /\ b.status = "bounced" /\ b.provider = attempts[n].provider
      BY <2>3 DEF Attempt, Status, Tried
    <2>7. s \in Seq(DomainEvent)
      BY <2>3, AppendProperties DEF DomainEvent
    <2> HIDE DEF b, s
    <2>8. DOMAIN attempts' = DOMAIN attempts /\ DOMAIN published' = DOMAIN published
      BY <2>1
    <2>9. Typed'
      BY <1>1, <1>2, <1>3, <2>1, <2>6, <2>7, <2>8 DEF Typed
    <2>10. AttemptAgrees(n)'
      <3>1. attempts'[n] = b /\ published'[n] = s
        BY <1>2, <2>1, <2>2
      <3>2. Tells(published[n], attempts[n])'
        BY <2>5, <3>1 DEF Tells, Count
      <3>3. mails' = mails /\ job'[n] = "none"
        BY <1>1, <2>4
      <3> QED
        BY <2>2, <2>6, <3>1, <3>2, <3>3 DEF AttemptAgrees
    <2>11. \A m \in DOMAIN attempts : m # n =>
             /\ attempts'[m] = attempts[m] /\ published'[m] = published[m] /\ job'[m] = job[m]
             /\ m \in behind => m \in behind'
      BY <1>1, <1>2, <2>1 DEF Typed
    <2> QED
      BY <1>1, <1>2, <2>8, <2>9, <2>10, <2>11, OneAttempt
  <1> QED
    BY <1>0, <1>4, <1>5 DEF Bounce

-----------------------------------------------------------------------------
(* The theorems. *)

LEMMA StepIInv == ASSUME Recipients PROVE IInv /\ [Next]_vars => IInv'
  <1> SUFFICES ASSUME IInv, [Next]_vars PROVE IInv'
    OBVIOUS
  <1>1. ASSUME NEW k \in Settable, NEW enabled \in BOOLEAN, setNotificationPreference(k[1], k[2], k[3], enabled)
        PROVE  IInv'
    BY <1>1, PreferenceStep
  <1>2. ASSUME NEW e \in EventId, Consume(e) PROVE IInv'
    BY <1>2, ConsumeStep
  <1>3. ASSUME NEW p \in Person, markAsRead(p) \/ markAllAsRead(p) PROVE IInv'
    <2>1. \A n \in Unread(p) : n \in DOMAIN notifications
      BY DEF Unread
    <2>2. PICK found : found \subseteq DOMAIN notifications /\ MarkRead(p, found)
      <3>1. CASE markAsRead(p)
        BY <2>1, <3>1 DEF markAsRead
      <3>2. CASE markAllAsRead(p)
        BY <2>1, <3>2 DEF markAllAsRead
      <3> QED
        BY <1>3, <3>1, <3>2
    <2> QED
      BY <2>2, ReadStep
  <1>4. ASSUME NEW n \in DOMAIN attempts,
               StartJob(n) \/ SuppressRevoked(n) \/ Send(n) \/ RecordFailure(n) \/ RecordSent(n) \/ Die(n)
        PROVE  IInv'
    <2>1. CASE StartJob(n)
      BY <2>1, StartStep
    <2>2. CASE SuppressRevoked(n)
      <3>1. job[n] # "none" /\ 0 \in {0, 1}
        BY <2>2 DEF SuppressRevoked, At
      <3> QED
        BY <2>2, <3>1, FailedStep DEF SuppressRevoked
    <2>3. CASE Send(n)
      BY <2>3, SendStep
    <2>4. CASE RecordFailure(n)
      <3>1. job[n] # "none" /\ 1 \in {0, 1}
        BY <2>4 DEF RecordFailure, At
      <3> QED
        BY <2>4, <3>1, FailedStep DEF RecordFailure
    <2>5. CASE RecordSent(n)
      BY <2>5, RecordSentStep
    <2>6. CASE Die(n)
      BY <2>6, DieStep
    <2> QED
      BY <1>4, <2>1, <2>2, <2>3, <2>4, <2>5, <2>6
  <1>5. ASSUME NEW h \in Hook, (\E id \in DOMAIN mails : ReadBounce(h, id)) \/ Bounce(h) PROVE IInv'
    BY <1>5, ReadBounceStep, BounceStep
  <1>6. CASE UNCHANGED vars
    <2>1. Typed'
      BY <1>6 DEF IInv, Typed, vars, rowVars
    <2>2. ASSUME NEW n \in DOMAIN attempts PROVE AttemptAgrees(n)'
      <3>1. AttemptAgrees(n) /\ EmailWanted(n)' = EmailWanted(n)
        BY <1>6, SameWish DEF IInv, vars
      <3> QED
        BY <1>6, <3>1 DEF AttemptAgrees, Tells, Count, vars, rowVars
    <2> QED
      BY <1>6, <2>1, <2>2 DEF IInv, vars, rowVars
  <1> QED
    BY <1>1, <1>2, <1>3, <1>4, <1>5, <1>6 DEF Next

LEMMA Invariant == ASSUME Recipients PROVE Spec => []IInv
  BY InitIInv, StepIInv, PTL DEF Spec

\* The rows are what the schema allows, and a mail is an attempt's.
THEOREM TypeCorrect == ASSUME Recipients PROVE Spec => []TypeOK
  <1>1. IInv => TypeOK
    <2> SUFFICES ASSUME IInv PROVE TypeOK
      OBVIOUS
    <2>1. Typed /\ \A n \in DOMAIN attempts : AttemptAgrees(n)
      BY DEF IInv
    <2>2. \A n \in DOMAIN notifications : notifications[n].channels \in (SUBSET Channel) \ {{}}
      BY <2>1 DEF Typed, Notification
    <2>3. \A n \in DOMAIN attempts : attempts[n].status \in Status /\ attempts[n].provider \in DOMAIN mails \cup {NoMail}
      BY <2>1 DEF Typed, Attempt, AttemptAgrees
    <2>4. mails \in BoundedSeq(DOMAIN attempts, MaxMails)
      <3>1. Len(mails) \in 0..MaxMails /\ mails \in [1..Len(mails) -> DOMAIN attempts]
        BY <2>1, LenProperties DEF Typed, Recipients
      <3> QED
        BY <3>1 DEF BoundedSeq, SeqOf
    <2> QED
      BY <2>1, <2>2, <2>3, <2>4 DEF TypeOK, Typed
  <1> QED
    BY <1>1, Invariant, PTL

\* The events tell what became of each email, however tries, deaths, lost
\* answers and webhooks interleave.
THEOREM DeliveryTold == ASSUME Recipients PROVE Spec => []EventsTellDelivery
  <1>1. IInv => EventsTellDelivery
    BY DEF IInv, AttemptAgrees, Tells, Count, EventsTellDelivery, Published
  <1> QED
    BY <1>1, Invariant, PTL

\* No email is about to go out to someone who had switched it off before the
\* run began.
THEOREM ConsentKept == ASSUME Recipients PROVE Spec => []ConsentAtDelivery
  <1>1. IInv => ConsentAtDelivery
    BY DEF IInv, AttemptAgrees, ConsentAtDelivery, At
  <1> QED
    BY <1>1, Invariant, PTL

\* An email known to be sent is not sent again.
THEOREM SentStays == ASSUME Recipients PROVE Spec => []SentIsFinal
  <1>1. IInv => SentIsFinal
    BY DEF IInv, AttemptAgrees, SentIsFinal
  <1> QED
    BY <1>1, Invariant, PTL
=============================================================================
