--------------------------- MODULE ConsentRecords ---------------------------
(***************************************************************************)
(* Registration behind the age gate, and the consent a person gives and    *)
(* takes back.  Decisions are rows that are only ever added, in the order  *)
(* of their commits, which recorded_at is taken to agree with; a withdrawal*)
(* marks the latest row that is not withdrawn, which it read before.       *)
(***************************************************************************)
EXTENDS Naturals, SequencesExt

CONSTANTS
    Person,          \* verified sessions, one person each once registered
    Asked,           \* bound: purposes that are decided on after registration
    MaxRows,         \* bound: consent rows of a person
    Worker           \* requests that may overlap

VARIABLES
    standing,  \* [Person -> "visitor", "active" or "anonymized"]
    rows,      \* [Person -> consent rows in the order of recorded_at]
    request    \* [Worker -> Request], requests between their read and their write

vars == <<standing, rows, request>>

Purpose == {"terms_of_service", "guardian_consent", "newsletter"}
Application == [born : {"unknown", "minor", "adult"}, attested : BOOLEAN, guardian : BOOLEAN]
ConsentRow == [purpose : Purpose, granted : BOOLEAN, revoked : BOOLEAN]
Idle == [op |-> "idle"]
Request == [op : {"register"}, person : Person, guardian : BOOLEAN]
           \cup [op : {"record"}, person : Person, purpose : Purpose, granted : BOOLEAN]
           \cup [op : {"revoke"}, person : Person, row : 1..MaxRows, seen : 1..MaxRows]

TypeOK ==
    /\ standing \in [Person -> {"visitor", "active", "anonymized"}]
    /\ \A p \in Person :
         /\ Len(rows[p]) <= MaxRows /\ Range(rows[p]) \subseteq ConsentRow
         /\ standing[p] = "visitor" <=> rows[p] = <<>>
    /\ request \in [Worker -> Request \cup {Idle}]

Init ==
    /\ standing = [p \in Person |-> "visitor"]
    /\ rows = [p \in Person |-> <<>>]
    /\ request = [w \in Worker |-> Idle]

Decision(purpose, granted) == [purpose |-> purpose, granted |-> granted, revoked |-> FALSE]
Ask(w, r) == request[w] = Idle /\ request' = [request EXCEPT ![w] = r] /\ UNCHANGED <<standing, rows>>
Answered(w) == request' = [request EXCEPT ![w] = Idle]
-----------------------------------------------------------------------------
\* Sixteen by a date of birth or an attestation, or a guardian who agrees.
PassesAgeGate(a) ==
    /\ a.born # "unknown" \/ a.attested
    /\ a.born = "minor" => a.guardian

ReadToRegister(w, p, a) ==
    /\ standing[p] = "visitor"
    /\ PassesAgeGate(a)
    /\ Ask(w, [op |-> "register", person |-> p, guardian |-> a.guardian])

\* persons_supabase_auth_id_key refuses the second of two registrations.
RegisterPerson(w) == LET p == request[w].person IN
    /\ request[w].op = "register"
    /\ IF standing[p] # "visitor"
       THEN UNCHANGED <<standing, rows>>
       ELSE /\ standing' = [standing EXCEPT ![p] = "active"]
            /\ rows' = [rows EXCEPT ![p] =
                 <<Decision("terms_of_service", TRUE)>>
                   \o IF request[w].guardian THEN <<Decision("guardian_consent", TRUE)>> ELSE <<>>]
    /\ Answered(w)

ReadToRecordConsent(w, p, purpose, granted) ==
    /\ standing[p] = "active"
    /\ Ask(w, [op |-> "record", person |-> p, purpose |-> purpose, granted |-> granted])

RecordConsent(w) == LET r == request[w] IN
    /\ r.op = "record" /\ Len(rows[r.person]) < MaxRows
    /\ rows' = [rows EXCEPT ![r.person] = Append(@, Decision(r.purpose, r.granted))]
    /\ Answered(w) /\ UNCHANGED standing

\* Indices of a person's rows of a purpose.
Of(p, purpose) == {i \in 1..Len(rows[p]) : rows[p][i].purpose = purpose}

\* Mutant: the oldest row that is not withdrawn (ascending order).
EarliestFirst(p, purpose) ==
    LET open == {i \in Of(p, purpose) : ~rows[p][i].revoked} IN {i \in open : \A k \in open : i <= k}

\* findFirst, newest first: empty when nothing is there to withdraw.
LatestOpen(p, purpose) ==
    LET open == {i \in Of(p, purpose) : ~rows[p][i].revoked} IN {i \in open : \A k \in open : k <= i}

ReadToRevokeConsent(w, p, purpose) ==
    \E i \in LatestOpen(p, purpose) :
        Ask(w, [op |-> "revoke", person |-> p, row |-> i, seen |-> Len(rows[p])])

\* A withdrawal that came first makes the update not find the row.
RevokeConsent(w) == LET r == request[w] IN
    /\ r.op = "revoke"
    /\ rows' = [rows EXCEPT ![r.person][r.row].revoked = TRUE]
    /\ Answered(w) /\ UNCHANGED standing

\* Erasure keeps the consent rows (requestErasure, sweepInactivePersons).
Anonymize(p) ==
    /\ standing[p] = "active"
    /\ standing' = [standing EXCEPT ![p] = "anonymized"]
    /\ UNCHANGED <<rows, request>>

Abandon(w) == request[w] # Idle /\ Answered(w) /\ UNCHANGED <<standing, rows>>
-----------------------------------------------------------------------------
\* The procedures of the identity router, for the person or an org admin.
RegisterRequest(w) == \E p \in Person, a \in Application : ReadToRegister(w, p, a)
ConsentRequest(w) ==
    \E p \in Person, purpose \in Asked :
        \/ \E granted \in BOOLEAN : ReadToRecordConsent(w, p, purpose, granted)
        \/ ReadToRevokeConsent(w, p, purpose)

Next ==
    \/ \E w \in Worker :
         \/ RegisterRequest(w) \/ ConsentRequest(w)
         \/ RegisterPerson(w) \/ RecordConsent(w) \/ RevokeConsent(w) \/ Abandon(w)
    \/ \E p \in Person : Anonymize(p)

Spec == Init /\ [][Next]_vars
-----------------------------------------------------------------------------
\* A withdrawal leaves none of the decisions it had seen on the purpose in
\* force, from the one it marks on, whatever else was recorded or withdrawn
\* since it read them.  So getConsentForPerson, which reports the newest
\* decision, reports the consent withdrawn until a newer one is recorded.  An
\* older decision may still be in force, and is the current one by the
\* definition that revokeConsent.ts and the documents give (README).
WithdrawalSticks ==
    [][rows' # rows => \A w \in Worker : LET r == request[w] IN
         r.op = "revoke" /\ request'[w] = Idle =>
           \A k \in Of(r.person, rows[r.person][r.row].purpose) :
             r.row <= k /\ k <= r.seen => rows'[r.person][k].revoked]_vars
=============================================================================
