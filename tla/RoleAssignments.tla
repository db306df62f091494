-------------------------- MODULE RoleAssignments --------------------------
(***************************************************************************)
(* Who may do what: role assignments, chapters and their leads, and the    *)
(* erasure of persons, which takes their roles.  A use case decides from   *)
(* what it reads and writes in a later transaction.                        *)
(*                                                                         *)
(* Grants, revocations and appointments write one row: each is one step.   *)
(* The transaction of an erasure is two: it locks the person and the       *)
(* active roles, others wait for it or go on meanwhile, and it commits.    *)
(***************************************************************************)
EXTENDS Naturals, Authz, Tables

CONSTANTS
    Person,          \* registered persons
    Founder,         \* the person whose org_admin role is seeded
    Dormant,         \* persons not updated since the retention cutoff
    Chapter,         \* chapters by their slug, whether created yet or not
    Grantable,       \* bound: the [role, scope] pairs that are asked for
    RoleId,          \* bound: ids of assignments
    Worker           \* requests and jobs that may overlap

VARIABLES
    status,  \* [Person -> "active" or "anonymized"]
    roles,   \* [granted ids -> Row], never deleted
    lead,    \* [created chapters -> a person or Nobody]
    job,     \* [Worker -> Job], what they read before they write
    late     \* history: ids granted to a person who was anonymized by then

vars == <<status, roles, lead, job, late>>

Nobody == "nobody"
Seed == "seed"   \* the id of the founder's assignment
Row == [person : Person, role : {g.role : g \in Grantable} \cup {"org_admin"},
        scope : {Global} \cup Chapter, by : Person \cup {Seed}, active : BOOLEAN]
Idle == [op |-> "idle"]
Job == [op : {"grant"}, caller : Person, person : Person, grant : Grantable]
       \cup [op : {"revoke"}, id : RoleId \cup {Seed}]
       \cup [op : {"create"}, chapter : Chapter]
       \cup [op : {"appoint"}, person : Person, chapter : Chapter]
       \cup [op : {"erase"}, left : SUBSET Person, revoker : BOOLEAN]
       \cup [op : {"erasing"}, left : SUBSET Person, revoker : BOOLEAN,
             person : Person, taken : SUBSET (RoleId \cup {Seed})]

TypeOK ==
    /\ status \in [Person -> {"active", "anonymized"}]
    /\ \E ids \in SUBSET RoleId : roles \in [ids \cup {Seed} -> Row] /\ late \subseteq ids
    /\ \E made \in SUBSET Chapter : lead \in [made -> Person \cup {Nobody}]
    /\ job \in [Worker -> Job \cup {Idle}]
    /\ \A i, k \in DOMAIN roles :   \* uq_role_assignments_active
         i # k /\ roles[i].active /\ roles[k].active =>
           <<roles[i].person, roles[i].role, roles[i].scope>> # <<roles[k].person, roles[k].role, roles[k].scope>>

Init ==
    /\ status = [p \in Person |-> "active"]
    /\ roles = [i \in {Seed} |-> [person |-> Founder, role |-> "org_admin", scope |-> Global,
                                  by |-> Seed, active |-> TRUE]]
    /\ lead = <<>>
    /\ job = [w \in Worker |-> Idle]
    /\ late = {}
-----------------------------------------------------------------------------
ActiveOf(p) == {i \in DOMAIN roles : roles[i].active /\ roles[i].person = p}
FactsOf(p) == {Fact(roles[i].role, roles[i].scope) : i \in ActiveOf(p)}
Subject(p) == [id |-> p, status |-> status[p]]
Holding(p, g) == {i \in ActiveOf(p) : roles[i].role = g.role /\ roles[i].scope = g.scope}

\* Mutant: the index before its fix, in which no two NULL scopes are equal.
ConflictsUnlessNull(p, g) == IF g.scope = Global THEN {} ELSE Holding(p, g)
\* uq_role_assignments_active: the rows an insert would conflict with.
Conflicts(p, g) == Holding(p, g)

\* Rows and persons that an erasure has updated and not committed.
Erasing(p) == \E w \in Worker : job[w].op = "erasing" /\ job[w].person = p
Locked == UNION {job[w].taken : w \in {v \in Worker : job[v].op = "erasing"}}
\* The update of a person changes the unique email, unless it is anonymized
\* already, and keeps out inserts that refer to the row.
KeyLocked(p) == Erasing(p) /\ status[p] = "active"

Start(w, j) == job[w] = Idle /\ job' = [job EXCEPT ![w] = j] /\ UNCHANGED <<status, roles, lead, late>>
End(w) == job' = [job EXCEPT ![w] = Idle]

\* Mutant: the policy is asked for no more than the role.
ReadToGrantUnscoped(w, c, p, g) ==
    /\ \E scope \in {Global} \cup Chapter :
          Can(Subject(c), "role.grant", AssignmentOf("mentor", scope), FactsOf(c))
    /\ Holding(p, g) = {}
    /\ Start(w, [op |-> "grant", caller |-> c, person |-> p, grant |-> g])

\* Returns early when the person already holds the role.
ReadToGrant(w, c, p, g) ==
    /\ Can(Subject(c), "role.grant", AssignmentOf(g.role, g.scope), FactsOf(c))
    /\ Holding(p, g) = {}
    /\ Start(w, [op |-> "grant", caller |-> c, person |-> p, grant |-> g])

\* The insert waits for an erasure that has updated a row it conflicts with
\* or one of the persons its foreign keys name, and does not look at their
\* status then; a grant of the same role that came first is reported.
Grant(w, i) == LET j == job[w] IN
    /\ j.op = "grant"
    /\ Conflicts(j.person, j.grant) \cap Locked = {}
    /\ ~KeyLocked(j.person) /\ ~KeyLocked(j.caller)
    /\ IF Conflicts(j.person, j.grant) # {}
       THEN UNCHANGED <<roles, late>>
       ELSE /\ i \notin DOMAIN roles
            /\ roles' = Inserted(roles, i, [person |-> j.person, role |-> j.grant.role,
                                            scope |-> j.grant.scope, by |-> j.caller, active |-> TRUE])
            /\ late' = IF status[j.person] = "anonymized" THEN late \cup {i} ELSE late
    /\ End(w) /\ UNCHANGED <<status, lead>>

ReadToRevoke(w, c, i) ==
    /\ roles[i].active
    /\ Can(Subject(c), "role.revoke", AssignmentOf(roles[i].role, roles[i].scope), FactsOf(c))
    /\ Start(w, [op |-> "revoke", id |-> i])

\* The update asks for revokedAt = null again: one that came first makes it
\* not find the row.
Revoke(w) ==
    /\ job[w].op = "revoke" /\ job[w].id \notin Locked
    /\ roles' = [roles EXCEPT ![job[w].id].active = FALSE]
    /\ End(w) /\ UNCHANGED <<status, lead, late>>
-----------------------------------------------------------------------------
ReadToCreateChapter(w, c, ch) ==
    /\ Can(Subject(c), "chapter.create", InScope(Global), FactsOf(c))
    /\ Start(w, [op |-> "create", chapter |-> ch])

\* chapters_slug_key refuses the second of two.
CreateChapter(w) ==
    /\ job[w].op = "create"
    /\ lead' = IF job[w].chapter \in DOMAIN lead THEN lead
               ELSE Inserted(lead, job[w].chapter, Nobody)
    /\ End(w) /\ UNCHANGED <<status, roles, late>>

ReadToAssignLead(w, c, p, ch) ==
    /\ Can(Subject(c), "chapter.assign_lead", InScope(ch), FactsOf(c))
    /\ ch \in DOMAIN lead
    /\ Fact("chapter_lead", ch) \in FactsOf(p)
    /\ Start(w, [op |-> "appoint", person |-> p, chapter |-> ch])

\* By the chapter's id; the role may be gone by now.
AssignLead(w) ==
    /\ job[w].op = "appoint"
    /\ lead' = [lead EXCEPT ![job[w].chapter] = job[w].person]
    /\ End(w) /\ UNCHANGED <<status, roles, late>>
-----------------------------------------------------------------------------
\* requestErasure.  An erasure request is never seen open: its transaction
\* creates and completes it, so the look for an open one finds none.
ReadToErase(w, c, p) ==
    /\ Can(Subject(c), "dsar.erasure.request", OwnedBy(p), FactsOf(c))
    /\ status[p] # "anonymized"
    /\ Start(w, [op |-> "erase", left |-> {p}, revoker |-> TRUE])

\* sweepInactivePersons lists the persons once and erases them one by one;
\* it names nobody as the one who revokes.
SweepRead(w) == LET stale == {p \in Dormant : status[p] = "active"} IN
    stale # {} /\ Start(w, [op |-> "erase", left |-> stale, revoker |-> FALSE])

\* chk_role_assignments_revocation: a revoked assignment names its revoker.
RevocationAllowed(w, p) == job[w].revoker \/ ActiveOf(p) = {}

EraseNext(w, p, ids) ==
    /\ job[w].op = "erase" /\ p \in job[w].left /\ ~Erasing(p)
    /\ RevocationAllowed(w, p)
    /\ job' = [job EXCEPT ![w] = [op |-> "erasing", left |-> job[w].left \ {p}, revoker |-> job[w].revoker,
                                  person |-> p, taken |-> ids]]
    /\ UNCHANGED <<status, roles, lead, late>>

\* Mutant: the erasure forgets the roles that are not org-wide.
TakeGlobalRoles(w, p) == EraseNext(w, p, {i \in ActiveOf(p) : roles[i].scope = Global})

\* The transaction updates the person, waiting for another that has, by id
\* and whatever the person's status is by now, and then every active role.
TakeRoles(w, p) == EraseNext(w, p, ActiveOf(p))

\* The update of the roles is refused: the person's is rolled back with it,
\* and the sweep ends with those it has not reached.
SweepRefused(w, p) ==
    /\ job[w].op = "erase" /\ p \in job[w].left /\ ~Erasing(p)
    /\ ~RevocationAllowed(w, p)
    /\ End(w) /\ UNCHANGED <<status, roles, lead, late>>

CommitErasure(w) == LET j == job[w] IN
    /\ j.op = "erasing"
    /\ status' = [status EXCEPT ![j.person] = "anonymized"]
    /\ roles' = [i \in DOMAIN roles |->
                   IF i \in j.taken THEN [roles[i] EXCEPT !.active = FALSE] ELSE roles[i]]
    /\ job' = [job EXCEPT ![w] = IF j.left = {} THEN Idle
                                  ELSE [op |-> "erase", left |-> j.left, revoker |-> j.revoker]]
    /\ UNCHANGED <<lead, late>>

\* The request fails, rolls back or dies before its commit.
Abandon(w) == job[w] # Idle /\ End(w) /\ UNCHANGED <<status, roles, lead, late>>
-----------------------------------------------------------------------------
\* The mutations of the identity router, and the erasure route of the API.
RoleRequest(w) ==
    \E c \in Person :
        \/ \E p \in Person, g \in Grantable : ReadToGrant(w, c, p, g)
        \/ \E i \in DOMAIN roles : ReadToRevoke(w, c, i)
ChapterRequest(w) ==
    \E c \in Person, ch \in Chapter :
        \/ ReadToCreateChapter(w, c, ch)
        \/ \E p \in Person : ReadToAssignLead(w, c, p, ch)
ErasureRequest(w) == \E c, p \in Person : ReadToErase(w, c, p)

Next ==
    \E w \in Worker :
        \/ RoleRequest(w) \/ ChapterRequest(w) \/ ErasureRequest(w) \/ SweepRead(w)
        \/ (\E i \in RoleId : Grant(w, i)) \/ Revoke(w)
        \/ CreateChapter(w) \/ AssignLead(w)
        \/ (\E p \in Person : TakeRoles(w, p) \/ SweepRefused(w, p)) \/ CommitErasure(w) \/ Abandon(w)

Spec == Init /\ [][Next]_vars
-----------------------------------------------------------------------------
EverHeld(p, role, scope) ==
    \E i \in DOMAIN roles : roles[i].person = p /\ roles[i].role = role /\ roles[i].scope = scope
MayGrant(p, role, scope) ==
    \/ EverHeld(p, "org_admin", Global)
    \/ role \in {"mentor", "volunteer"} /\ scope # Global /\ EverHeld(p, "chapter_lead", scope)

\* Erasure takes every role that was there: what an anonymized person holds
\* was inserted after the erasure was committed, by a grant that had been
\* decided before or that was asked for later (grantRole looks at the status
\* of the caller only).
ErasureTakesRoles ==
    \A p \in Person : status[p] = "anonymized" => ActiveOf(p) \subseteq late

\* An assignment that comes from nowhere is an escalation.  Whoever it names
\* as its granter had been given the authority by an earlier assignment: an
\* org admin's, or for a mentor or volunteer of a chapter its lead's.  That
\* one may have been revoked between the decision and the insert.  And every
\* step leaves erased persons without what they held before.
AuthorityHasSource ==
    [][/\ \A i \in DOMAIN roles' \ DOMAIN roles :
             MayGrant(roles'[i].by, roles'[i].role, roles'[i].scope)
       /\ ErasureTakesRoles']_vars

\* sweepInactivePersons says of itself that it is an erasure triggered by
\* policy, with the same revocation of active roles: whoever it listed can be
\* erased.
SweepCanErase ==
    \A w \in Worker : job[w].op = "erase" => \A p \in job[w].left : RevocationAllowed(w, p)
=============================================================================
