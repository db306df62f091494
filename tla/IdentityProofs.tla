--------------------------- MODULE IdentityProofs ---------------------------
(***************************************************************************)
(* Theorems about Identity, for any persons, roles, facts, ids and number  *)
(* of overlapping requests.  Each part has an invariant of its own; a step *)
(* of the composition is a step of one part and a stutter of the others.   *)
(***************************************************************************)
EXTENDS Identity, Sequences, FiniteSetTheorems, WellFoundedInduction, TLAPS

LEMMA PartsOfBehaviour == Spec => R!Spec /\ C!Spec /\ D!Spec /\ E!Spec
  <1>1. Init => R!Init /\ C!Init /\ D!Init /\ E!Init
    BY DEF Init
  <1>2. [Next]_vars => [R!Next]_(R!vars)
    BY DEF Next, vars, roleVars, R!vars
  <1>3. [Next]_vars => [C!Next]_(C!vars)
    BY DEF Next, vars, consentVars, C!vars
  <1>4. [Next]_vars => [D!Next]_(D!vars)
    BY DEF Next, vars, dsarVars, D!vars
  <1>5. [Next]_vars => [E!Next]_(E!vars)
    BY DEF Next, vars, exportVars, E!vars
  <1> QED
    BY <1>1, <1>2, <1>3, <1>4, <1>5, PTL DEF Spec, R!Spec, C!Spec, D!Spec, E!Spec

-----------------------------------------------------------------------------
(* Roles: what the tables hold, and where authority comes from. *)

Granted == DOMAIN roles
Holds(i, p, role, scope) == roles[i].person = p /\ roles[i].role = role /\ roles[i].scope = scope

RolesTyped ==
    /\ status \in [Person -> {"active", "anonymized"}]
    /\ "seed" \in Granted /\ Granted \subseteq RowId \cup {"seed"}
    /\ roles \in [Granted -> R!Row] /\ late \subseteq Granted \ {"seed"}
    /\ DOMAIN lead \subseteq Chapter /\ lead \in [DOMAIN lead -> Person \cup {"nobody"}]
    /\ job \in [Worker -> R!Job \cup {R!Idle}]

OneActive ==
    \A i, k \in Granted :
        roles[i].active /\ roles[k].active /\ Holds(i, roles[k].person, roles[k].role, roles[k].scope) => i = k

\* What was decided before a write was decided for a reason.
DecisionsHaveSource ==
    \A w \in Worker :
        job[w].op = "grant" => R!MayGrant(job[w].caller, job[w].grant.role, job[w].grant.scope)

\* An erasure under way has every active role of its person, but those that
\* were inserted when the person was anonymized already.
ErasureHasRoles ==
    \A w \in Worker : job[w].op = "erasing" => R!ActiveOf(job[w].person) \subseteq job[w].taken \cup late

RolesInv ==
    RolesTyped /\ OneActive /\ DecisionsHaveSource /\ R!ErasureTakesRoles /\ ErasureHasRoles

LEMMA JobFields ==
  ASSUME NEW j \in R!Job \cup {R!Idle}
  PROVE  /\ j.op = "grant" => j.caller \in Person /\ j.person \in Person /\ j.grant \in Grantable
         /\ j.op = "revoke" => j.id \in RowId \cup {"seed"}
         /\ j.op = "create" => j.chapter \in Chapter
         /\ j.op = "appoint" => j.person \in Person /\ j.chapter \in Chapter
         /\ j.op = "erase" => j.left \in SUBSET Person /\ j.revoker \in BOOLEAN
         /\ j.op = "erasing" => /\ j.left \in SUBSET Person /\ j.revoker \in BOOLEAN /\ j.person \in Person
                                /\ j.taken \in SUBSET (RowId \cup {"seed"})
  BY DEF R!Job, R!Idle, R!Seed

LEMMA JobSet ==
  ASSUME RolesTyped, NEW w \in Worker, NEW j \in R!Job \cup {R!Idle}, job' = [job EXCEPT ![w] = j]
  PROVE  /\ job' \in [Worker -> R!Job \cup {R!Idle}] /\ job'[w] = j
         /\ \A v \in Worker : v # w => job'[v] = job[v]
  BY DEF RolesTyped

\* Nothing that was held is forgotten: rows are added and made inactive.
RolesGrow ==
    \A i \in Granted :
        /\ i \in Granted'
        /\ roles'[i].person = roles[i].person /\ roles'[i].role = roles[i].role
        /\ roles'[i].scope = roles[i].scope /\ roles'[i].by = roles[i].by
        /\ roles'[i].active => roles[i].active

LEMMA HeldStaysHeld ==
  ASSUME RolesGrow, NEW p, NEW role, NEW scope, R!EverHeld(p, role, scope)
  PROVE  R!EverHeld(p, role, scope)'
  BY DEF RolesGrow, Granted, R!EverHeld

LEMMA MayGrantStays ==
  ASSUME RolesGrow, NEW c, NEW role, NEW scope, R!MayGrant(c, role, scope)
  PROVE  R!MayGrant(c, role, scope)'
  BY HeldStaysHeld DEF R!MayGrant

\* A decision to grant, by the policy from the active roles of the caller.
LEMMA PolicyHasSource ==
  ASSUME NEW c, NEW role, NEW scope,
         R!Can(R!Subject(c), "role.grant", R!AssignmentOf(role, scope), R!FactsOf(c))
  PROVE  R!MayGrant(c, role, scope)
  <1> DEFINE facts == R!FactsOf(c)
  <1>1. \A r, s : R!HasRoleInScope(facts, r, s) => R!EverHeld(c, r, s)
    BY DEF R!HasRoleInScope, R!FactsOf, R!ActiveOf, R!Fact, R!EverHeld
  <1> HIDE DEF facts
  <1>2. R!IsOrgAdmin(facts) \/ R!ChapterLeadMayGrantOrRevoke(R!AssignmentOf(role, scope), facts)
    BY DEF facts, R!Can, R!Allows, R!OrgAdminOnly, R!ChapterManagement, R!Approval, R!Content,
           R!OwnerOrOrgAdmin
  <1>3. R!AssignmentOf(role, scope).scope = scope /\ R!AssignmentOf(role, scope).role = role
    BY DEF R!AssignmentOf
  <1> QED
    BY <1>1, <1>2, <1>3 DEF R!MayGrant, R!IsOrgAdmin, R!ChapterLeadMayGrantOrRevoke, R!HoldsInChapter

-----------------------------------------------------------------------------
(* Steps that write no table: decisions, and the first half of an erasure. *)

LEMMA OnlyJob ==
  ASSUME RolesInv, NEW w \in Worker, NEW j \in R!Job \cup {R!Idle},
         job' = [job EXCEPT ![w] = j], UNCHANGED <<status, roles, lead, late>>,
         j.op = "grant" => R!MayGrant(j.caller, j.grant.role, j.grant.scope),
         j.op = "erasing" => R!ActiveOf(j.person) \subseteq j.taken
  PROVE  RolesInv'
  <1>1. /\ job' \in [Worker -> R!Job \cup {R!Idle}] /\ job'[w] = j
        /\ \A v \in Worker : v # w => job'[v] = job[v]
    BY JobSet DEF RolesInv
  <1>2. RolesTyped' /\ OneActive'
    BY <1>1 DEF RolesInv, RolesTyped, OneActive, Holds, Granted
  <1>3. R!ErasureTakesRoles'
    BY DEF RolesInv, R!ErasureTakesRoles, R!ActiveOf
  <1>4. DecisionsHaveSource'
    BY <1>1 DEF RolesInv, DecisionsHaveSource, R!MayGrant, R!EverHeld
  <1>5. ErasureHasRoles'
    <2>1. ASSUME NEW v \in Worker, job'[v].op = "erasing"
          PROVE  (R!ActiveOf(job[v].person) \subseteq job[v].taken \cup late)'
      BY <1>1, <2>1 DEF RolesInv, ErasureHasRoles, R!ActiveOf
    <2> QED
      BY <2>1 DEF ErasureHasRoles
  <1> QED
    BY <1>2, <1>3, <1>4, <1>5 DEF RolesInv

LEMMA Decided ==
  ASSUME RolesInv, NEW w \in Worker,
         R!RoleRequest(w) \/ R!ChapterRequest(w) \/ R!ErasureRequest(w) \/ R!SweepRead(w)
  PROVE  RolesInv'
  <1>1. ASSUME NEW c \in Person, NEW p \in Person, NEW g \in Grantable, R!ReadToGrant(w, c, p, g)
        PROVE  RolesInv'
    <2> DEFINE j == [op |-> "grant", caller |-> c, person |-> p, grant |-> g]
    <2>1. j \in R!Job \cup {R!Idle} /\ j.op = "grant" /\ j.caller = c /\ j.grant = g
      BY DEF R!Job
    <2>2. R!MayGrant(c, g.role, g.scope)
      BY <1>1, PolicyHasSource DEF R!ReadToGrant
    <2>3. job' = [job EXCEPT ![w] = j] /\ UNCHANGED <<status, roles, lead, late>>
      BY <1>1 DEF R!ReadToGrant, R!Start
    <2> HIDE DEF j
    <2> QED
      BY <2>1, <2>2, <2>3, OnlyJob
  <1>2. ASSUME NEW c \in Person, NEW i \in DOMAIN roles, R!ReadToRevoke(w, c, i)
        PROVE  RolesInv'
    <2> DEFINE j == [op |-> "revoke", id |-> i]
    <2>1. i \in RowId \cup {"seed"}
      BY DEF RolesInv, RolesTyped, Granted
    <2>2. j \in R!Job \cup {R!Idle} /\ j.op = "revoke"
      BY <2>1 DEF R!Job, R!Seed
    <2>3. job' = [job EXCEPT ![w] = j] /\ UNCHANGED <<status, roles, lead, late>>
      BY <1>2 DEF R!ReadToRevoke, R!Start
    <2> HIDE DEF j
    <2> QED
      BY <2>2, <2>3, OnlyJob
  <1>3. ASSUME NEW c \in Person, NEW ch \in Chapter, R!ReadToCreateChapter(w, c, ch)
        PROVE  RolesInv'
    <2> DEFINE j == [op |-> "create", chapter |-> ch]
    <2>1. j \in R!Job \cup {R!Idle} /\ j.op = "create"
      BY DEF R!Job
    <2>2. job' = [job EXCEPT ![w] = j] /\ UNCHANGED <<status, roles, lead, late>>
      BY <1>3 DEF R!ReadToCreateChapter, R!Start
    <2> HIDE DEF j
    <2> QED
      BY <2>1, <2>2, OnlyJob
  <1>4. ASSUME NEW c \in Person, NEW ch \in Chapter, NEW p \in Person, R!ReadToAssignLead(w, c, p, ch)
        PROVE  RolesInv'
    <2> DEFINE j == [op |-> "appoint", person |-> p, chapter |-> ch]
    <2>1. j \in R!Job \cup {R!Idle} /\ j.op = "appoint"
      BY DEF R!Job
    <2>2. job' = [job EXCEPT ![w] = j] /\ UNCHANGED <<status, roles, lead, late>>
      BY <1>4 DEF R!ReadToAssignLead, R!Start
    <2> HIDE DEF j
    <2> QED
      BY <2>1, <2>2, OnlyJob
  <1>5. ASSUME NEW left \in SUBSET Person, NEW revoker \in BOOLEAN,
               R!Start(w, [op |-> "erase", left |-> left, revoker |-> revoker])
        PROVE  RolesInv'
    <2> DEFINE j == [op |-> "erase", left |-> left, revoker |-> revoker]
    <2>1. j \in R!Job \cup {R!Idle} /\ j.op = "erase"
      BY DEF R!Job
    <2>2. job' = [job EXCEPT ![w] = j] /\ UNCHANGED <<status, roles, lead, late>>
      BY <1>5 DEF R!Start
    <2> HIDE DEF j
    <2> QED
      BY <2>1, <2>2, OnlyJob
  <1>6. CASE R!ErasureRequest(w)
    BY <1>5, <1>6 DEF R!ErasureRequest, R!ReadToErase
  <1>7. CASE R!SweepRead(w)
    <2>1. PICK left \in SUBSET Person : R!Start(w, [op |-> "erase", left |-> left, revoker |-> FALSE])
      <3> DEFINE stale == {p \in Dormant : status[p] = "active"}
      <3>1. R!Start(w, [op |-> "erase", left |-> stale, revoker |-> FALSE])
        BY <1>7 DEF R!SweepRead
      <3>2. stale \in SUBSET Person
        BY PersonAssumption
      <3> QED
        BY <3>1, <3>2
    <2> QED
      BY <1>5, <2>1
  <1> QED
    BY <1>1, <1>2, <1>3, <1>4, <1>6, <1>7 DEF R!RoleRequest, R!ChapterRequest

LEMMA Ended ==
  ASSUME RolesInv, NEW w \in Worker, R!End(w), UNCHANGED <<status, roles, lead, late>>
  PROVE  RolesInv'
  <1>1. R!Idle \in R!Job \cup {R!Idle} /\ R!Idle.op = "idle"
    BY DEF R!Idle
  <1> QED
    BY <1>1, OnlyJob DEF R!End

LEMMA RolesTaken ==
  ASSUME RolesInv, NEW w \in Worker, NEW p \in Person, R!TakeRoles(w, p)
  PROVE  RolesInv'
  <1> DEFINE j == [op |-> "erasing", left |-> job[w].left \ {p}, revoker |-> job[w].revoker,
                   person |-> p, taken |-> R!ActiveOf(p)]
  <1>1. job[w].op = "erase" /\ job' = [job EXCEPT ![w] = j] /\ UNCHANGED <<status, roles, lead, late>>
    BY DEF R!TakeRoles, R!EraseNext
  <1>2. job[w].left \in SUBSET Person /\ job[w].revoker \in BOOLEAN
    <2>1. job[w] \in R!Job \cup {R!Idle}
      BY DEF RolesInv, RolesTyped
    <2> QED
      BY <1>1, <2>1, JobFields
  <1>3. R!ActiveOf(p) \in SUBSET (RowId \cup {"seed"})
    BY DEF RolesInv, RolesTyped, Granted, R!ActiveOf
  <1>4. j \in R!Job \cup {R!Idle} /\ j.op = "erasing" /\ j.person = p /\ j.taken = R!ActiveOf(p)
    BY <1>2, <1>3 DEF R!Job, R!Seed
  <1> HIDE DEF j
  <1> QED
    BY <1>1, <1>4, OnlyJob

-----------------------------------------------------------------------------
(* Steps that write a table. *)

\* What a step keeps of the invariant when it adds no row.
LEMMA RowsMadeInactive ==
  ASSUME RolesInv, RolesGrow, roles' \in [Granted -> R!Row]
  PROVE  OneActive' /\ \A p : R!ActiveOf(p)' \subseteq R!ActiveOf(p)
  <1>1. DOMAIN roles' = Granted
    OBVIOUS
  <1>2. OneActive'
    BY <1>1 DEF RolesInv, RolesGrow, OneActive, Holds, Granted
  <1>3. \A p : R!ActiveOf(p)' \subseteq R!ActiveOf(p)
    BY <1>1 DEF RolesGrow, R!ActiveOf, Granted
  <1> QED
    BY <1>2, <1>3

LEMMA Revoked ==
  ASSUME RolesInv, NEW w \in Worker, R!Revoke(w)
  PROVE  RolesInv'
  <1>1. PICK k : k = job[w].id
    OBVIOUS
  <1>2. /\ roles' = [roles EXCEPT ![k].active = FALSE] /\ job' = [job EXCEPT ![w] = R!Idle]
        /\ UNCHANGED <<status, lead, late>>
    BY <1>1 DEF R!Revoke, R!End
  <1>3. R!Idle \in R!Job \cup {R!Idle} /\ R!Idle.op = "idle"
    BY DEF R!Idle
  <1>4. /\ job' \in [Worker -> R!Job \cup {R!Idle}] /\ job'[w] = R!Idle
        /\ \A v \in Worker : v # w => job'[v] = job[v]
    BY <1>2, <1>3, JobSet DEF RolesInv
  <1>5. roles' \in [Granted -> R!Row]
    <2>1. roles \in [Granted -> R!Row]
      BY DEF RolesInv, RolesTyped
    <2>2. \A i \in Granted : [roles[i] EXCEPT !.active = FALSE] \in R!Row
      BY <2>1 DEF R!Row
    <2> QED
      BY <1>2, <2>1, <2>2
  <1>6. RolesGrow
    BY <1>2 DEF RolesInv, RolesTyped, RolesGrow, Granted, R!Row
  <1>7. OneActive' /\ \A p : R!ActiveOf(p)' \subseteq R!ActiveOf(p)
    BY <1>2, <1>5, <1>6, RowsMadeInactive
  <1>8. RolesTyped'
    BY <1>2, <1>4, <1>5 DEF RolesInv, RolesTyped, Granted
  <1>9. DecisionsHaveSource'
    <2>1. ASSUME NEW v \in Worker
          PROVE  job'[v].op = "grant" =>
                     R!MayGrant(job[v].caller, job[v].grant.role, job[v].grant.scope)'
      <3>1. CASE v = w
        BY <1>3, <1>4, <3>1
      <3>2. CASE v # w
        <4>1. job'[v] = job[v]
          BY <1>4, <3>2
        <4>2. job[v].op = "grant" => R!MayGrant(job[v].caller, job[v].grant.role, job[v].grant.scope)
          BY DEF RolesInv, DecisionsHaveSource
        <4> QED
          BY <1>6, <4>1, <4>2, MayGrantStays
      <3> QED
        BY <3>1, <3>2
    <2> QED
      BY <2>1 DEF DecisionsHaveSource
  <1>10. R!ErasureTakesRoles'
    BY <1>2, <1>7 DEF RolesInv, R!ErasureTakesRoles, R!ActiveOf
  <1>11. ErasureHasRoles'
    BY <1>2, <1>3, <1>4, <1>7 DEF RolesInv, ErasureHasRoles, R!ActiveOf
  <1> QED
    BY <1>7, <1>8, <1>9, <1>10, <1>11 DEF RolesInv

LEMMA ErasureCommitted ==
  ASSUME RolesInv, NEW w \in Worker, R!CommitErasure(w)
  PROVE  RolesInv'
  <1>1. PICK j : j = job[w]
    OBVIOUS
  <1> DEFINE next == IF j.left = {} THEN R!Idle ELSE [op |-> "erase", left |-> j.left, revoker |-> j.revoker]
  <1>2. /\ j.op = "erasing" /\ status' = [status EXCEPT ![j.person] = "anonymized"]
        /\ roles' = [i \in Granted |->
                       IF i \in j.taken THEN [roles[i] EXCEPT !.active = FALSE] ELSE roles[i]]
        /\ job' = [job EXCEPT ![w] = next] /\ UNCHANGED <<lead, late>>
    BY <1>1 DEF R!CommitErasure, Granted
  <1>3. j \in R!Job \cup {R!Idle}
    BY <1>1 DEF RolesInv, RolesTyped
  <1>4. j.person \in Person /\ j.left \in SUBSET Person /\ j.revoker \in BOOLEAN
    BY <1>2, <1>3, JobFields
  <1>5. next \in R!Job \cup {R!Idle} /\ next.op \in {"idle", "erase"}
    BY <1>4 DEF R!Job, R!Idle
  <1> HIDE DEF next
  <1>6. /\ job' \in [Worker -> R!Job \cup {R!Idle}] /\ job'[w] = next
        /\ \A v \in Worker : v # w => job'[v] = job[v]
    BY <1>2, <1>5, JobSet DEF RolesInv
  <1>7. roles \in [Granted -> R!Row] /\ roles' \in [Granted -> R!Row]
    <2>1. roles \in [Granted -> R!Row]
      BY DEF RolesInv, RolesTyped
    <2>2. \A i \in Granted : [roles[i] EXCEPT !.active = FALSE] \in R!Row
      BY <2>1 DEF R!Row
    <2> QED
      BY <1>2, <2>1, <2>2
  <1>8. RolesGrow
    BY <1>2, <1>7 DEF RolesGrow, Granted, R!Row
  <1>9. OneActive' /\ \A p : R!ActiveOf(p)' \subseteq R!ActiveOf(p)
    BY <1>2, <1>7, <1>8, RowsMadeInactive
  <1>10. status \in [Person -> {"active", "anonymized"}] /\ status' \in [Person -> {"active", "anonymized"}]
    BY <1>2 DEF RolesInv, RolesTyped
  <1>11. RolesTyped'
    BY <1>2, <1>6, <1>7, <1>10 DEF RolesInv, RolesTyped, Granted
  <1>12. DecisionsHaveSource'
    <2>1. ASSUME NEW v \in Worker
          PROVE  job'[v].op = "grant" =>
                     R!MayGrant(job[v].caller, job[v].grant.role, job[v].grant.scope)'
      <3>1. CASE v = w
        BY <1>5, <1>6, <3>1
      <3>2. CASE v # w
        <4>1. job'[v] = job[v]
          BY <1>6, <3>2
        <4>2. job[v].op = "grant" => R!MayGrant(job[v].caller, job[v].grant.role, job[v].grant.scope)
          BY DEF RolesInv, DecisionsHaveSource
        <4> QED
          BY <1>8, <4>1, <4>2, MayGrantStays
      <3> QED
        BY <3>1, <3>2
    <2> QED
      BY <2>1 DEF DecisionsHaveSource
  <1>13. R!ErasureTakesRoles'
    <2>1. ASSUME NEW p \in Person, status'[p] = "anonymized", NEW i \in R!ActiveOf(p)'
          PROVE  i \in late'
      <3>1. i \in R!ActiveOf(p)
        BY <1>9, <2>1
      <3>2. CASE p = j.person
        <4>1. R!ActiveOf(p) \subseteq j.taken \cup late
          BY <1>1, <1>2, <3>2 DEF RolesInv, ErasureHasRoles
        <4>2. i \notin j.taken
          BY <1>2, <1>7, <2>1 DEF R!ActiveOf, R!Row
        <4> QED
          BY <1>2, <3>1, <4>1, <4>2
      <3>3. CASE p # j.person
        BY <1>2, <1>10, <2>1, <3>1, <3>3 DEF RolesInv, R!ErasureTakesRoles
      <3> QED
        BY <3>2, <3>3
    <2> QED
      BY <2>1 DEF R!ErasureTakesRoles, R!ActiveOf
  <1>14. ErasureHasRoles'
    <2>1. ASSUME NEW v \in Worker, job'[v].op = "erasing"
          PROVE  (R!ActiveOf(job[v].person) \subseteq job[v].taken \cup late)'
      <3>1. v # w
        BY <1>5, <1>6, <2>1
      <3>2. job'[v] = job[v]
        BY <1>6, <3>1
      <3>3. R!ActiveOf(job[v].person) \subseteq job[v].taken \cup late
        BY <2>1, <3>2 DEF RolesInv, ErasureHasRoles
      <3> QED
        BY <1>2, <1>9, <3>2, <3>3 DEF R!ActiveOf
    <2> QED
      BY <2>1 DEF ErasureHasRoles
  <1> QED
    BY <1>9, <1>11, <1>12, <1>13, <1>14 DEF RolesInv

LEMMA ChapterWritten ==
  ASSUME RolesInv, NEW w \in Worker, R!CreateChapter(w) \/ R!AssignLead(w)
  PROVE  RolesInv'
  <1>1. PICK j : j = job[w]
    OBVIOUS
  <1>2. job' = [job EXCEPT ![w] = R!Idle] /\ UNCHANGED <<status, roles, late>>
    BY DEF R!CreateChapter, R!AssignLead, R!End
  <1>3. R!Idle \in R!Job \cup {R!Idle} /\ R!Idle.op = "idle"
    BY DEF R!Idle
  <1>4. /\ job' \in [Worker -> R!Job \cup {R!Idle}] /\ job'[w] = R!Idle
        /\ \A v \in Worker : v # w => job'[v] = job[v]
    BY <1>2, <1>3, JobSet DEF RolesInv
  <1>5. j \in R!Job \cup {R!Idle} /\ lead \in [DOMAIN lead -> Person \cup {"nobody"}] /\ DOMAIN lead \subseteq Chapter
    BY <1>1 DEF RolesInv, RolesTyped
  <1>6. /\ DOMAIN lead' \subseteq Chapter /\ lead' \in [DOMAIN lead' -> Person \cup {"nobody"}]
    <2>1. CASE R!CreateChapter(w)
      <3>1. j.op = "create" /\ j.chapter \in Chapter
        BY <1>1, <1>5, <2>1, JobFields DEF R!CreateChapter
      <3>2. lead' = IF j.chapter \in DOMAIN lead THEN lead ELSE R!Inserted(lead, j.chapter, R!Nobody)
        BY <1>1, <2>1 DEF R!CreateChapter
      <3>3. CASE j.chapter \in DOMAIN lead
        BY <1>5, <3>2, <3>3
      <3>4. CASE j.chapter \notin DOMAIN lead
        <4>1. lead' = [ch \in DOMAIN lead \cup {j.chapter} |-> IF ch = j.chapter THEN R!Nobody ELSE lead[ch]]
          BY <3>2, <3>4 DEF R!Inserted
        <4> QED
          BY <1>5, <3>1, <4>1 DEF R!Nobody
      <3> QED
        BY <3>3, <3>4
    <2>2. CASE R!AssignLead(w)
      <3>1. j.op = "appoint" /\ lead' = [lead EXCEPT ![j.chapter] = j.person]
        BY <1>1, <2>2 DEF R!AssignLead
      <3>2. j.person \in Person
        BY <1>5, <3>1, JobFields
      <3> QED
        BY <1>5, <3>1, <3>2
    <2> QED
      BY <2>1, <2>2
  <1>7. RolesTyped' /\ OneActive'
    BY <1>2, <1>4, <1>6 DEF RolesInv, RolesTyped, OneActive, Holds, Granted
  <1>8. R!ErasureTakesRoles'
    BY <1>2 DEF RolesInv, R!ErasureTakesRoles, R!ActiveOf
  <1>9. DecisionsHaveSource'
    BY <1>2, <1>3, <1>4 DEF RolesInv, DecisionsHaveSource, R!MayGrant, R!EverHeld
  <1>10. ErasureHasRoles'
    BY <1>2, <1>3, <1>4 DEF RolesInv, ErasureHasRoles, R!ActiveOf
  <1> QED
    BY <1>7, <1>8, <1>9, <1>10 DEF RolesInv

\* Of the conjuncts, only the first is a matter of the inserted row itself:
\* the second needs that nothing conflicts, the last two that no erasure of an
\* active person is under way.
LEMMA RowGranted ==
  ASSUME RolesInv, NEW w \in Worker, NEW i \in RowId, R!Grant(w, i)
  PROVE  RolesInv'
  <1>1. PICK j : j = job[w]
    OBVIOUS
  <1>2. /\ j.op = "grant" /\ job' = [job EXCEPT ![w] = R!Idle] /\ UNCHANGED <<status, lead>>
        /\ ~R!KeyLocked(j.person)
    BY <1>1 DEF R!Grant, R!End
  <1>3. R!Idle \in R!Job \cup {R!Idle} /\ R!Idle.op = "idle"
    BY DEF R!Idle
  <1>4. /\ job' \in [Worker -> R!Job \cup {R!Idle}] /\ job'[w] = R!Idle
        /\ \A v \in Worker : v # w => job'[v] = job[v]
    BY <1>2, <1>3, JobSet DEF RolesInv
  <1>5. CASE R!Conflicts(j.person, j.grant) # {}
    <2>1. UNCHANGED <<roles, late>>
      BY <1>1, <1>5 DEF R!Grant
    <2> QED
      BY <1>2, <2>1, Ended DEF R!End
  <1>6. CASE R!Conflicts(j.person, j.grant) = {}
    <2> DEFINE r == [person |-> j.person, role |-> j.grant.role, scope |-> j.grant.scope,
                     by |-> j.caller, active |-> TRUE]
    <2>1. /\ i \notin Granted /\ roles' = R!Inserted(roles, i, r)
          /\ late' = IF status[j.person] = "anonymized" THEN late \cup {i} ELSE late
      BY <1>1, <1>6 DEF R!Grant, Granted
    <2>2. j.caller \in Person /\ j.person \in Person /\ j.grant \in Grantable
      <3>1. j \in R!Job \cup {R!Idle}
        BY <1>1 DEF RolesInv, RolesTyped
      <3> QED
        BY <1>2, <3>1, JobFields
    <2>3. r \in R!Row /\ r.active
      BY <2>2, GrantAssumption DEF R!Row, R!Global, Global
    <2>4. r.person = j.person /\ r.role = j.grant.role /\ r.scope = j.grant.scope /\ r.by = j.caller
      OBVIOUS
    <2> HIDE DEF r
    <2>5. /\ Granted' = Granted \cup {i} /\ roles' \in [Granted' -> R!Row] /\ roles'[i] = r
          /\ \A k \in Granted : roles'[k] = roles[k]
      BY <2>1, <2>3 DEF RolesInv, RolesTyped, Granted, R!Inserted
    <2>6. RolesGrow
      BY <2>5 DEF RolesGrow
    <2>7. i # "seed"
      BY PersonAssumption
    <2>8. RolesTyped'
      BY <1>2, <1>4, <2>1, <2>5, <2>7 DEF RolesInv, RolesTyped
    <2>9. OneActive'
      <3>1. \A k \in Granted : ~(roles[k].active /\ Holds(k, r.person, r.role, r.scope))
        BY <1>6, <2>4 DEF R!Conflicts, R!Holding, R!ActiveOf, Holds, Granted
      <3> QED
        BY <2>5, <3>1 DEF RolesInv, OneActive, Holds
    <2>10. DecisionsHaveSource'
      BY <1>3, <1>4, <2>6, MayGrantStays DEF RolesInv, DecisionsHaveSource
    <2>11. \A p : \A k \in R!ActiveOf(p)' : k \in R!ActiveOf(p) \/ (k = i /\ p = j.person)
      BY <2>4, <2>5 DEF R!ActiveOf, Granted
    <2>12. R!ErasureTakesRoles'
      BY <1>2, <2>1, <2>11 DEF RolesInv, R!ErasureTakesRoles, R!ActiveOf
    <2>13. ErasureHasRoles'
      <3>1. ASSUME NEW v \in Worker, job'[v].op = "erasing"
            PROVE  (R!ActiveOf(job[v].person) \subseteq job[v].taken \cup late)'
        <4>1. job'[v] = job[v]
          BY <1>3, <1>4, <3>1
        <4>2. R!ActiveOf(job[v].person) \subseteq job[v].taken \cup late
          BY <3>1, <4>1 DEF RolesInv, ErasureHasRoles
        <4>3. CASE job[v].person # j.person
          BY <2>1, <2>11, <4>1, <4>2, <4>3 DEF R!ActiveOf
        <4>4. CASE job[v].person = j.person
          <5>1. status[j.person] # "active"
            BY <1>2, <3>1, <4>1, <4>4 DEF R!KeyLocked, R!Erasing
          <5>2. status[j.person] = "anonymized"
            BY <2>2, <5>1 DEF RolesInv, RolesTyped
          <5> QED
            BY <2>1, <2>11, <4>1, <4>2, <5>2 DEF R!ActiveOf
        <4> QED
          BY <4>3, <4>4
      <3> QED
        BY <3>1 DEF ErasureHasRoles
    <2> QED
      BY <2>8, <2>9, <2>10, <2>11, <2>12, <2>13 DEF RolesInv
  <1> QED
    BY <1>5, <1>6

LEMMA RolesStart ==
  ASSUME R!Init
  PROVE  RolesInv
  <1>1. roles = [i \in {"seed"} |-> [person |-> Founder, role |-> "org_admin", scope |-> R!Global,
                                     by |-> "seed", active |-> TRUE]]
    BY DEF R!Init, R!Seed
  <1>2. /\ status = [p \in Person |-> "active"] /\ job = [w \in Worker |-> R!Idle]
        /\ lead = <<>> /\ late = {} /\ R!Idle.op = "idle"
    BY DEF R!Init, R!Idle
  <1>3. Granted = {"seed"} /\ roles["seed"] \in R!Row
    BY <1>1, PersonAssumption DEF Granted, R!Row, R!Seed
  <1>4. RolesTyped
    BY <1>1, <1>2, <1>3 DEF RolesTyped
  <1>5. OneActive
    BY <1>3 DEF OneActive
  <1>6. DecisionsHaveSource /\ R!ErasureTakesRoles /\ ErasureHasRoles
    BY <1>2 DEF DecisionsHaveSource, R!ErasureTakesRoles, ErasureHasRoles
  <1> QED
    BY <1>4, <1>5, <1>6 DEF RolesInv

LEMMA RolesStep ==
  ASSUME RolesInv, [R!Next]_(R!vars)
  PROVE  RolesInv'
  <1>1. CASE UNCHANGED R!vars
    BY <1>1 DEF R!vars, RolesInv, RolesTyped, OneActive, Holds, Granted,
                DecisionsHaveSource, R!MayGrant, R!ErasureTakesRoles, ErasureHasRoles, R!EverHeld, R!ActiveOf
  <1>2. ASSUME NEW w \in Worker, NEW p \in Person, R!SweepRefused(w, p)
        PROVE  RolesInv'
    BY <1>2, Ended DEF R!SweepRefused
  <1>3. ASSUME NEW w \in Worker, R!Abandon(w)
        PROVE  RolesInv'
    BY <1>3, Ended DEF R!Abandon
  <1>4. CASE R!Next
    BY <1>2, <1>3, <1>4, Decided, RowGranted, Revoked, ChapterWritten, RolesTaken, ErasureCommitted
       DEF R!Next
  <1> QED
    BY <1>1, <1>4

LEMMA RolesTypeOK ==
  ASSUME RolesInv
  PROVE  R!TypeOK
  <1>1. /\ Granted \ {"seed"} \in SUBSET RowId
        /\ roles \in [(Granted \ {"seed"}) \cup {R!Seed} -> R!Row] /\ late \subseteq Granted \ {"seed"}
    BY DEF RolesInv, RolesTyped, R!Seed
  <1>2. \E ids \in SUBSET RowId : roles \in [ids \cup {R!Seed} -> R!Row] /\ late \subseteq ids
    BY <1>1
  <1>3. \E made \in SUBSET Chapter : lead \in [made -> Person \cup {R!Nobody}]
    BY DEF RolesInv, RolesTyped, R!Nobody
  <1>4. \A i, k \in DOMAIN roles :
          i # k /\ roles[i].active /\ roles[k].active =>
            <<roles[i].person, roles[i].role, roles[i].scope>> # <<roles[k].person, roles[k].role, roles[k].scope>>
    BY DEF RolesInv, OneActive, Holds, Granted
  <1> QED
    BY <1>2, <1>3, <1>4 DEF RolesInv, RolesTyped, R!TypeOK

LEMMA RolesInvariant == Spec => []RolesInv
  <1> QED
    BY PartsOfBehaviour, RolesStart, RolesStep, PTL DEF R!Spec

\* Nobody is granted a role but by somebody whose authority comes from an
\* earlier assignment, and erasure leaves no active role that was there when
\* it was committed: for every number of persons, chapters and requests.
THEOREM AuthorityHasSource == Spec => RolesHaveSource
  <1>1. ASSUME RolesInv, R!Next, NEW i \in DOMAIN roles' \ DOMAIN roles
        PROVE  R!MayGrant(roles'[i].by, roles'[i].role, roles'[i].scope)
    <2>1. PICK w \in Worker : R!Grant(w, i)
      <3>1. ASSUME NEW w \in Worker, R!CommitErasure(w) \/ R!Revoke(w)
            PROVE  FALSE
        BY <1>1, <3>1 DEF R!CommitErasure, R!Revoke
      <3>2. ASSUME NEW w \in Worker, NEW k \in RowId, R!Grant(w, k)
            PROVE  k = i
        BY <1>1, <3>2 DEF R!Grant, R!Inserted
      <3>3. PICK w \in Worker :
              \/ \E k \in RowId : R!Grant(w, k)
              \/ R!CommitErasure(w) \/ R!Revoke(w)
        BY <1>1 DEF R!Next, R!RoleRequest, R!ChapterRequest, R!ErasureRequest, R!ReadToGrant,
             R!ReadToRevoke, R!ReadToCreateChapter, R!ReadToAssignLead, R!ReadToErase, R!SweepRead,
             R!Start, R!CreateChapter, R!AssignLead, R!TakeRoles, R!EraseNext, R!SweepRefused, R!Abandon
      <3> QED
        BY <3>1, <3>2, <3>3
    <2>2. PICK j : j = job[w]
      OBVIOUS
    <2>3. /\ j.op = "grant"
          /\ roles'[i].by = j.caller /\ roles'[i].role = j.grant.role /\ roles'[i].scope = j.grant.scope
      BY <1>1, <2>1, <2>2 DEF R!Grant, R!Inserted
    <2> QED
      BY <1>1, <2>2, <2>3 DEF RolesInv, DecisionsHaveSource
  <1>2. RolesInv /\ RolesInv' /\ [R!Next]_(R!vars) =>
          [/\ \A i \in DOMAIN roles' \ DOMAIN roles :
                R!MayGrant(roles'[i].by, roles'[i].role, roles'[i].scope)
           /\ R!ErasureTakesRoles']_(R!vars)
    BY <1>1 DEF RolesInv
  <1> QED
    BY <1>2, RolesInvariant, PartsOfBehaviour, PTL DEF R!Spec, RolesHaveSource, R!AuthorityHasSource

-----------------------------------------------------------------------------
(* Report exports: the calls that run point at rows, and the last event    *)
(* agrees with the row.                                                    *)

Running == {"start", "render", "catch"}

ExportsTyped ==
    /\ DOMAIN definitions \subseteq DefinitionId
    /\ definitions \in [DOMAIN definitions -> [active : BOOLEAN, rate : Rate]]
    /\ DOMAIN exports \subseteq RowId /\ exports \in [DOMAIN exports -> E!Export]
    /\ told \in [DOMAIN exports -> {"ExportJobQueued", "ExportJobCompleted", "ExportJobFailed"}]
    /\ running \in [Worker -> {E!Idle} \cup [stage : {"queue"}, by : Person, rate : Rate \cup {E!Custom}]
                                       \cup [stage : Running, export : RowId]]

ToldAsEnded ==
    \A x \in DOMAIN exports :
        /\ exports[x].status = "completed" <=> told[x] = "ExportJobCompleted"
        /\ exports[x].status = "failed" <=> told[x] = "ExportJobFailed"

CallsHaveExport == \A w \in Worker : running[w].stage \in Running => running[w].export \in DOMAIN exports

ExportsInv == ExportsTyped /\ ToldAsEnded /\ CallsHaveExport

LEMMA ExportsStart ==
  ASSUME E!Init
  PROVE  ExportsInv
  <1>1. /\ definitions = <<>> /\ exports = <<>> /\ told = <<>>
        /\ running = [w \in Worker |-> E!Idle] /\ E!Idle.stage = "idle"
    BY DEF E!Init, E!Idle
  <1> QED
    BY <1>1 DEF ExportsInv, ExportsTyped, ToldAsEnded, CallsHaveExport, Running

\* A call that goes on, or a new one, and no table written.
LEMMA OnlyRunning ==
  ASSUME ExportsInv, NEW w \in Worker,
         NEW s \in {E!Idle} \cup [stage : {"queue"}, by : Person, rate : Rate \cup {E!Custom}]
                   \cup [stage : Running, export : RowId],
         running' = [running EXCEPT ![w] = s],
         s.stage \in Running => s.export \in DOMAIN exports',
         ExportsTyped => /\ DOMAIN exports' \subseteq RowId /\ exports' \in [DOMAIN exports' -> E!Export]
                         /\ told' \in [DOMAIN exports' -> {"ExportJobQueued", "ExportJobCompleted", "ExportJobFailed"}],
         ToldAsEnded', DOMAIN exports \subseteq DOMAIN exports', UNCHANGED definitions
  PROVE  ExportsInv'
  <1>1. ExportsTyped'
    BY DEF ExportsInv, ExportsTyped
  <1>2. CallsHaveExport'
    BY DEF ExportsInv, ExportsTyped, CallsHaveExport
  <1> QED
    BY <1>1, <1>2 DEF ExportsInv

LEMMA DefinitionWritten ==
  ASSUME ExportsInv, E!DefinitionRequest
  PROVE  ExportsInv'
  <1>1. PICK c \in Person, d \in DefinitionId, rate \in Rate :
          \/ E!CreateDefinition(c, d, rate)
          \/ d \in DOMAIN definitions /\ \E active \in BOOLEAN : E!UpdateDefinition(c, d, active, rate)
    BY DEF E!DefinitionRequest
  <1>2. UNCHANGED <<exports, told, running>>
    BY <1>1 DEF E!CreateDefinition, E!UpdateDefinition
  <1>3. /\ DOMAIN definitions' \subseteq DefinitionId
        /\ definitions' \in [DOMAIN definitions' -> [active : BOOLEAN, rate : Rate]]
    <2>1. CASE E!CreateDefinition(c, d, rate)
      BY <2>1 DEF E!CreateDefinition, E!Inserted, ExportsInv, ExportsTyped
    <2>2. CASE d \in DOMAIN definitions /\ \E active \in BOOLEAN : E!UpdateDefinition(c, d, active, rate)
      BY <2>2 DEF E!UpdateDefinition, ExportsInv, ExportsTyped
    <2> QED
      BY <1>1, <2>1, <2>2
  <1> QED
    BY <1>2, <1>3 DEF ExportsInv, ExportsTyped, ToldAsEnded, CallsHaveExport

LEMMA ExportRequested ==
  ASSUME ExportsInv, NEW w \in Worker, E!ExportRequest(w)
  PROVE  ExportsInv'
  <1>1. PICK c \in Person : E!ReadToRequestCustom(w, c) \/ \E d \in DOMAIN definitions : E!ReadToRequest(w, c, d)
    BY DEF E!ExportRequest
  <1>2. PICK rate \in Rate \cup {E!Custom} : E!Request(w, c, rate)
    <2>1. CASE E!ReadToRequestCustom(w, c)
      BY <2>1 DEF E!ReadToRequestCustom
    <2>2. ASSUME NEW d \in DOMAIN definitions, E!ReadToRequest(w, c, d)
          PROVE  \E rate \in Rate \cup {E!Custom} : E!Request(w, c, rate)
      <3>1. definitions[d].rate \in Rate
        BY DEF ExportsInv, ExportsTyped
      <3> QED
        BY <2>2, <3>1 DEF E!ReadToRequest
    <2> QED
      BY <1>1, <2>1, <2>2
  <1> DEFINE s == [stage |-> "queue", by |-> c, rate |-> rate]
  <1>3. running' = [running EXCEPT ![w] = s] /\ UNCHANGED <<definitions, exports, told>>
    BY <1>2 DEF E!Request, E!Goto
  <1>4. s \in [stage : {"queue"}, by : Person, rate : Rate \cup {E!Custom}] /\ s.stage \notin Running
    BY DEF Running
  <1> HIDE DEF s
  <1>5. ToldAsEnded'
    BY <1>3 DEF ExportsInv, ToldAsEnded
  <1> QED
    BY <1>3, <1>4, <1>5, OnlyRunning DEF ExportsTyped

LEMMA ExportQueued ==
  ASSUME ExportsInv, NEW w \in Worker, NEW x \in RowId, E!QueueExport(w, x)
  PROVE  ExportsInv'
  <1>1. PICK r : r = running[w]
    OBVIOUS
  <1> DEFINE s == [stage |-> "start", export |-> x]
  <1> DEFINE row == [status |-> "queued", by |-> r.by, rate |-> r.rate, file |-> "none"]
  <1>2. /\ r.stage = "queue" /\ x \notin DOMAIN exports
        /\ exports' = E!Inserted(exports, x, row) /\ told' = E!Inserted(told, x, "ExportJobQueued")
        /\ running' = [running EXCEPT ![w] = s] /\ UNCHANGED definitions
    BY <1>1 DEF E!QueueExport, E!Goto
  <1>3. r.by \in Person /\ r.rate \in Rate \cup {E!Custom}
    <2>1. r \in {E!Idle} \cup [stage : {"queue"}, by : Person, rate : Rate \cup {E!Custom}]
                \cup [stage : Running, export : RowId]
      BY <1>1 DEF ExportsInv, ExportsTyped
    <2> QED
      BY <1>2, <2>1 DEF E!Idle, Running
  <1>4. row \in E!Export /\ row.status = "queued"
    BY <1>3 DEF E!Export
  <1>5. s \in [stage : Running, export : RowId] /\ s.stage \in Running /\ s.export = x
    BY DEF Running
  <1> HIDE DEF s, row
  <1>6. /\ DOMAIN exports' = DOMAIN exports \cup {x} /\ DOMAIN told' = DOMAIN exports'
        /\ exports'[x] = row /\ told'[x] = "ExportJobQueued"
        /\ \A y \in DOMAIN exports : exports'[y] = exports[y] /\ told'[y] = told[y]
    BY <1>2 DEF E!Inserted, ExportsInv, ExportsTyped
  <1>7. ToldAsEnded'
    BY <1>4, <1>6 DEF ExportsInv, ToldAsEnded
  <1>8. ExportsTyped => /\ DOMAIN exports' \subseteq RowId /\ exports' \in [DOMAIN exports' -> E!Export]
                        /\ told' \in [DOMAIN exports' -> {"ExportJobQueued", "ExportJobCompleted", "ExportJobFailed"}]
    BY <1>2, <1>4, <1>6 DEF E!Inserted, ExportsTyped
  <1> QED
    BY <1>2, <1>5, <1>6, <1>7, <1>8, OnlyRunning

LEMMA ExportGoesOn ==
  ASSUME ExportsInv, NEW w \in Worker,
         E!StartExport(w) \/ E!CompleteExport(w) \/ E!FailExport(w) \/ E!Dies(w)
  PROVE  ExportsInv'
  <1>1. PICK r : r = running[w]
    OBVIOUS
  <1>2. r \in {E!Idle} \cup [stage : {"queue"}, by : Person, rate : Rate \cup {E!Custom}]
              \cup [stage : Running, export : RowId]
    BY <1>1 DEF ExportsInv, ExportsTyped
  <1>3. CASE E!Dies(w)
    <2>1. running' = [running EXCEPT ![w] = E!Idle] /\ UNCHANGED <<definitions, exports, told>>
      BY <1>3 DEF E!Dies, E!Goto
    <2>2. E!Idle.stage \notin Running
      BY DEF E!Idle, Running
    <2>3. ToldAsEnded'
      BY <2>1 DEF ExportsInv, ToldAsEnded
    <2> QED
      BY <2>1, <2>2, <2>3, OnlyRunning DEF ExportsTyped
  <1>4. ASSUME r.stage \in Running, UNCHANGED definitions,
               NEW s, running' = [running EXCEPT ![w] = s],
               s = E!Idle \/ \E stage \in Running : s = [r EXCEPT !.stage = stage],
               NEW row \in E!Export, exports' = [exports EXCEPT ![r.export] = row],
               NEW event \in {"ExportJobQueued", "ExportJobCompleted", "ExportJobFailed"},
               told' = [told EXCEPT ![r.export] = event],
               row.status = "completed" <=> event = "ExportJobCompleted",
               row.status = "failed" <=> event = "ExportJobFailed"
        PROVE  ExportsInv'
    <2>1. r \in [stage : Running, export : RowId] /\ r.export \in DOMAIN exports
      <3>1. r \in [stage : Running, export : RowId]
        BY <1>2, <1>4 DEF E!Idle, Running
      <3> QED
        BY <1>1, <1>4, <3>1 DEF ExportsInv, CallsHaveExport
    <2>2. s \in {E!Idle} \cup [stage : Running, export : RowId]
      BY <1>4, <2>1
    <2>3. DOMAIN exports' = DOMAIN exports
      BY <1>4
    <2>4. s.stage \in Running => s.export \in DOMAIN exports
      BY <1>4, <2>1 DEF E!Idle, Running
    <2>5. ToldAsEnded'
      BY <1>4, <2>1 DEF ExportsInv, ExportsTyped, ToldAsEnded
    <2>6. ExportsTyped => /\ DOMAIN exports' \subseteq RowId /\ exports' \in [DOMAIN exports' -> E!Export]
                          /\ told' \in [DOMAIN exports' -> {"ExportJobQueued", "ExportJobCompleted", "ExportJobFailed"}]
      BY <1>4, <2>3 DEF ExportsTyped
    <2> QED
      BY <1>4, <2>2, <2>3, <2>4, <2>5, <2>6, OnlyRunning
  <1>5. ASSUME r.stage \in Running
        PROVE  r.export \in DOMAIN exports /\ exports[r.export] \in E!Export /\ told[r.export] \in
                 {"ExportJobQueued", "ExportJobCompleted", "ExportJobFailed"}
    BY <1>1, <1>5 DEF ExportsInv, CallsHaveExport, ExportsTyped
  <1>6. CASE E!StartExport(w)
    <2>1. /\ r.stage = "start" /\ exports[r.export].status = "queued"
          /\ exports' = [exports EXCEPT ![r.export].status = "running"]
          /\ running' = [running EXCEPT ![w] = [r EXCEPT !.stage = "render"]]
          /\ UNCHANGED <<definitions, told>>
      BY <1>1, <1>6 DEF E!StartExport, E!Goto
    <2> DEFINE row == [exports[r.export] EXCEPT !.status = "running"]
    <2>2. "start" \in Running /\ "render" \in Running
      BY DEF Running
    <2>3. row \in E!Export /\ row.status = "running"
      BY <1>5, <2>1, <2>2 DEF E!Export
    <2>4. exports' = [exports EXCEPT ![r.export] = row]
      BY <2>1
    <2> HIDE DEF row
    <2>5. told' = [told EXCEPT ![r.export] = told[r.export]]
      BY <2>1 DEF ExportsInv, ExportsTyped
    <2>6. told[r.export] \notin {"ExportJobCompleted", "ExportJobFailed"}
      BY <1>5, <2>1, <2>2 DEF ExportsInv, ToldAsEnded
    <2> QED
      BY <1>4, <1>5, <2>1, <2>2, <2>3, <2>4, <2>5, <2>6
  <1>7. CASE E!CompleteExport(w)
    <2> DEFINE row == [exports[r.export] EXCEPT !.status = "completed", !.file = "kept"]
    <2>1. /\ r.stage = "render" /\ exports' = [exports EXCEPT ![r.export] = row]
          /\ told' = [told EXCEPT ![r.export] = "ExportJobCompleted"]
          /\ \/ running' = [running EXCEPT ![w] = E!Idle]
             \/ running' = [running EXCEPT ![w] = [r EXCEPT !.stage = "catch"]]
          /\ UNCHANGED definitions
      BY <1>1, <1>7 DEF E!CompleteExport, E!Goto
    <2>2. "render" \in Running /\ "catch" \in Running
      BY DEF Running
    <2>3. row \in E!Export /\ row.status = "completed"
      BY <1>5, <2>1, <2>2 DEF E!Export
    <2> HIDE DEF row
    <2> QED
      BY <1>4, <2>1, <2>2, <2>3
  <1>8. CASE E!FailExport(w)
    <2> DEFINE row == [exports[r.export] EXCEPT !.status = "failed"]
    <2>1. /\ r.stage \in {"render", "catch"} /\ exports' = [exports EXCEPT ![r.export] = row]
          /\ told' = [told EXCEPT ![r.export] = "ExportJobFailed"]
          /\ running' = [running EXCEPT ![w] = E!Idle] /\ UNCHANGED definitions
      BY <1>1, <1>8 DEF E!FailExport, E!Goto
    <2>2. r.stage \in Running
      BY <2>1 DEF Running
    <2>3. row \in E!Export /\ row.status = "failed"
      BY <1>5, <2>2 DEF E!Export
    <2> HIDE DEF row
    <2> QED
      BY <1>4, <2>1, <2>2, <2>3
  <1> QED
    BY <1>3, <1>6, <1>7, <1>8

LEMMA ExportExpired ==
  ASSUME ExportsInv, NEW x \in DOMAIN exports, E!Expire(x)
  PROVE  ExportsInv'
  <1> DEFINE row == [exports[x] EXCEPT !.file = "expired"]
  <1>1. exports' = [exports EXCEPT ![x] = row] /\ UNCHANGED <<definitions, told, running>>
    BY DEF E!Expire
  <1>2. row \in E!Export /\ row.status = exports[x].status
    BY DEF ExportsInv, ExportsTyped, E!Export
  <1> HIDE DEF row
  <1>3. DOMAIN exports' = DOMAIN exports
    BY <1>1
  <1>4. ExportsTyped'
    BY <1>1, <1>2, <1>3 DEF ExportsInv, ExportsTyped
  <1>5. ToldAsEnded' /\ CallsHaveExport'
    BY <1>1, <1>2, <1>3 DEF ExportsInv, ToldAsEnded, CallsHaveExport
  <1> QED
    BY <1>4, <1>5 DEF ExportsInv

LEMMA ExportsStep ==
  ASSUME ExportsInv, [E!Next]_(E!vars)
  PROVE  ExportsInv'
  <1>1. CASE UNCHANGED E!vars
    BY <1>1 DEF E!vars, ExportsInv, ExportsTyped, ToldAsEnded, CallsHaveExport
  <1>2. CASE E!Next
    BY <1>2, DefinitionWritten, ExportRequested, ExportQueued, ExportGoesOn, ExportExpired DEF E!Next
  <1> QED
    BY <1>1, <1>2

LEMMA ExportsInvariant == Spec => []ExportsInv
  <1> QED
    BY PartsOfBehaviour, ExportsStart, ExportsStep, PTL DEF E!Spec

LEMMA ExportsHold ==
  ASSUME ExportsInv
  PROVE  E!TypeOK /\ E!ExportEndsAsTold
  <1>1. E!TypeOK
    BY DEF ExportsInv, ExportsTyped, E!TypeOK, Running
  <1>2. E!ExportEndsAsTold
    BY DEF ExportsInv, ToldAsEnded, E!ExportEndsAsTold, E!Downloadable
  <1> QED
    BY <1>1, <1>2

-----------------------------------------------------------------------------
(* Consent: what a withdrawal has read stays true of the rows it has seen. *)

ConsentTyped ==
    /\ standing \in [Registrant -> {"visitor", "active", "anonymized"}]
    /\ rows \in [Registrant -> Seq(C!ConsentRow)]
    /\ \A p \in Registrant : Len(rows[p]) <= MaxRows /\ (standing[p] = "visitor" <=> Len(rows[p]) = 0)
    /\ request \in [Worker -> C!Request \cup {C!Idle}]

\* The rows a withdrawal has seen are still there, and it is only behind rows
\* of the same purpose that are withdrawn.
Latest(r) ==
    /\ r.row <= r.seen /\ r.seen <= Len(rows[r.person])
    /\ \A k \in 1..r.seen : k > r.row /\ rows[r.person][k].purpose = rows[r.person][r.row].purpose =>
         rows[r.person][k].revoked

RequestsInForce ==
    \A w \in Worker :
        /\ request[w].op = "record" => standing[request[w].person] # "visitor"
        /\ request[w].op = "revoke" => Latest(request[w])

ConsentInv == ConsentTyped /\ RequestsInForce

LEMMA RequestFields ==
  ASSUME NEW r \in C!Request \cup {C!Idle}
  PROVE  /\ r.op = "register" => r.person \in Registrant /\ r.guardian \in BOOLEAN
         /\ r.op = "record" => r.person \in Registrant /\ r.purpose \in C!Purpose /\ r.granted \in BOOLEAN
         /\ r.op = "revoke" => r.person \in Registrant /\ r.row \in 1..MaxRows /\ r.seen \in 1..MaxRows
  BY DEF C!Request, C!Idle

LEMMA RequestSet ==
  ASSUME ConsentTyped, NEW w \in Worker, NEW r \in C!Request \cup {C!Idle},
         request' = [request EXCEPT ![w] = r]
  PROVE  /\ request' \in [Worker -> C!Request \cup {C!Idle}] /\ request'[w] = r
         /\ \A v \in Worker : v # w => request'[v] = request[v]
  BY DEF ConsentTyped

LEMMA ConsentStart ==
  ASSUME C!Init
  PROVE  ConsentInv
  <1>1. /\ standing = [p \in Registrant |-> "visitor"] /\ rows = [p \in Registrant |-> <<>>]
        /\ request = [w \in Worker |-> C!Idle] /\ C!Idle.op = "idle"
    BY DEF C!Init, C!Idle
  <1> QED
    BY <1>1, BoundAssumption DEF ConsentInv, ConsentTyped, RequestsInForce

\* A request that only reads, or ends without writing.
LEMMA OnlyRequest ==
  ASSUME ConsentInv, NEW w \in Worker, NEW r \in C!Request \cup {C!Idle},
         request' = [request EXCEPT ![w] = r], UNCHANGED <<standing, rows>>,
         r.op = "record" => standing[r.person] # "visitor",
         r.op = "revoke" => Latest(r)
  PROVE  ConsentInv'
  <1>1. /\ request' \in [Worker -> C!Request \cup {C!Idle}] /\ request'[w] = r
        /\ \A v \in Worker : v # w => request'[v] = request[v]
    BY RequestSet DEF ConsentInv
  <1>2. ConsentTyped'
    BY <1>1 DEF ConsentInv, ConsentTyped
  <1>3. RequestsInForce'
    BY <1>1 DEF ConsentInv, RequestsInForce, Latest
  <1> QED
    BY <1>2, <1>3 DEF ConsentInv

LEMMA ConsentAsked ==
  ASSUME ConsentInv, NEW w \in Worker, C!RegisterRequest(w) \/ C!ConsentRequest(w)
  PROVE  ConsentInv'
  <1>1. ASSUME NEW p \in Registrant, NEW a \in C!Application, C!ReadToRegister(w, p, a)
        PROVE  ConsentInv'
    <2> DEFINE r == [op |-> "register", person |-> p, guardian |-> a.guardian]
    <2>1. r \in C!Request \cup {C!Idle} /\ r.op = "register"
      BY DEF C!Request, C!Application
    <2>2. request' = [request EXCEPT ![w] = r] /\ UNCHANGED <<standing, rows>>
      BY <1>1 DEF C!ReadToRegister, C!Ask
    <2> HIDE DEF r
    <2> QED
      BY <2>1, <2>2, OnlyRequest
  <1>2. ASSUME NEW p \in Registrant, NEW purpose \in Asked, NEW granted \in BOOLEAN,
               C!ReadToRecordConsent(w, p, purpose, granted)
        PROVE  ConsentInv'
    <2> DEFINE r == [op |-> "record", person |-> p, purpose |-> purpose, granted |-> granted]
    <2>1. r \in C!Request \cup {C!Idle} /\ r.op = "record" /\ r.person = p
      BY ConsentAssumption DEF C!Request, C!Purpose
    <2>2. request' = [request EXCEPT ![w] = r] /\ UNCHANGED <<standing, rows>> /\ standing[p] # "visitor"
      BY <1>2 DEF C!ReadToRecordConsent, C!Ask
    <2> HIDE DEF r
    <2> QED
      BY <2>1, <2>2, OnlyRequest
  <1>3. ASSUME NEW p \in Registrant, NEW purpose \in Asked, C!ReadToRevokeConsent(w, p, purpose)
        PROVE  ConsentInv'
    <2>1. PICK i \in C!LatestOpen(p, purpose) :
            C!Ask(w, [op |-> "revoke", person |-> p, row |-> i, seen |-> Len(rows[p])])
      BY <1>3 DEF C!ReadToRevokeConsent
    <2> DEFINE r == [op |-> "revoke", person |-> p, row |-> i, seen |-> Len(rows[p])]
    <2>2. Len(rows[p]) \in Nat /\ Len(rows[p]) <= MaxRows /\ rows[p] \in Seq(C!ConsentRow)
      BY DEF ConsentInv, ConsentTyped
    <2>3. /\ i \in 1..Len(rows[p]) /\ rows[p][i].purpose = purpose
          /\ \A k \in 1..Len(rows[p]) : rows[p][k].purpose = purpose /\ ~rows[p][k].revoked => k <= i
      BY <2>1 DEF C!LatestOpen, C!Of
    <2>4. i \in 1..MaxRows /\ Len(rows[p]) \in 1..MaxRows
      BY <2>2, <2>3, BoundAssumption
    <2>5. r \in C!Request \cup {C!Idle} /\ r.op = "revoke"
      BY <2>4 DEF C!Request
    <2>6. r.person = p /\ r.row = i /\ r.seen = Len(rows[p])
      OBVIOUS
    <2>7. request' = [request EXCEPT ![w] = r] /\ UNCHANGED <<standing, rows>>
      BY <2>1 DEF C!Ask
    <2> HIDE DEF r
    <2>8. \A k \in 1..Len(rows[p]) : k > i => ~(k <= i)
      BY <2>2, <2>3
    <2>9. Latest(r)
      BY <2>2, <2>3, <2>6, <2>8 DEF Latest
    <2> QED
      BY <2>5, <2>7, <2>9, OnlyRequest
  <1> QED
    BY <1>1, <1>2, <1>3 DEF C!RegisterRequest, C!ConsentRequest

LEMMA ConsentAnswered ==
  ASSUME ConsentInv, NEW w \in Worker, C!Answered(w), UNCHANGED <<standing, rows>>
  PROVE  ConsentInv'
  <1>1. C!Idle \in C!Request \cup {C!Idle} /\ C!Idle.op = "idle"
    BY DEF C!Idle
  <1> QED
    BY <1>1, OnlyRequest DEF C!Answered

\* Rows are added behind those that were there, and only ever withdrawn.
LEMMA RowsWritten ==
  ASSUME ConsentInv, NEW w \in Worker, C!Answered(w),
         NEW p \in Registrant, NEW s \in Seq(C!ConsentRow), rows' = [rows EXCEPT ![p] = s],
         Len(rows[p]) <= Len(s), Len(s) <= MaxRows, Len(s) # 0,
         \A k \in 1..Len(rows[p]) : /\ s[k].purpose = rows[p][k].purpose
                                    /\ rows[p][k].revoked => s[k].revoked,
         \/ UNCHANGED standing /\ standing[p] # "visitor"
         \/ standing' = [standing EXCEPT ![p] = "active"]
  PROVE  ConsentInv'
  <1>1. C!Idle \in C!Request \cup {C!Idle} /\ C!Idle.op = "idle"
    BY DEF C!Idle
  <1>2. /\ request' \in [Worker -> C!Request \cup {C!Idle}] /\ request'[w] = C!Idle
        /\ \A v \in Worker : v # w => request'[v] = request[v]
    BY <1>1, RequestSet DEF ConsentInv, C!Answered
  <1>3. rows' \in [Registrant -> Seq(C!ConsentRow)] /\ rows'[p] = s
        /\ \A q \in Registrant : q # p => rows'[q] = rows[q]
    BY DEF ConsentInv, ConsentTyped
  <1>4. /\ standing' \in [Registrant -> {"visitor", "active", "anonymized"}] /\ standing'[p] # "visitor"
        /\ \A q \in Registrant : q # p => standing'[q] = standing[q]
    BY DEF ConsentInv, ConsentTyped
  <1>5. ConsentTyped'
    BY <1>2, <1>3, <1>4 DEF ConsentInv, ConsentTyped
  <1>6. ASSUME NEW v \in Worker, v # w
        PROVE  /\ request[v].op = "record" => standing'[request[v].person] # "visitor"
               /\ request[v].op = "revoke" => Latest(request[v])'
    <2>1. PICK r : r = request[v]
      OBVIOUS
    <2>2. r \in C!Request \cup {C!Idle}
      BY <2>1 DEF ConsentInv, ConsentTyped
    <2>3. /\ r.op = "record" => standing[r.person] # "visitor"
          /\ r.op = "revoke" => Latest(r)
      BY <2>1 DEF ConsentInv, RequestsInForce
    <2>4. r.op = "record" => standing'[r.person] # "visitor"
      BY <1>4, <2>2, <2>3, RequestFields
    <2>5. ASSUME r.op = "revoke"
          PROVE  Latest(r)'
      <3>1. r.person \in Registrant /\ r.row \in 1..MaxRows /\ r.seen \in 1..MaxRows /\ MaxRows \in Nat
        BY <2>2, <2>5, RequestFields, BoundAssumption
      <3>2. CASE r.person # p
        BY <1>3, <2>3, <2>5, <3>1, <3>2 DEF Latest
      <3>3. CASE r.person = p
        <4>1. Len(rows[p]) \in Nat /\ Len(s) \in Nat
          BY DEF ConsentInv, ConsentTyped
        <4>2. r.row <= r.seen /\ r.seen <= Len(rows[p]) /\ r.row \in 1..Len(rows[p])
          BY <2>3, <2>5, <3>1, <3>3, <4>1 DEF Latest
        <4>3. \A k \in 1..r.seen : k \in 1..Len(rows[p])
          BY <3>1, <4>1, <4>2
        <4>4. \A k \in 1..r.seen : k > r.row /\ s[k].purpose = s[r.row].purpose => s[k].revoked
          BY <2>3, <2>5, <3>3, <4>2, <4>3 DEF Latest
        <4> QED
          BY <1>3, <3>1, <3>3, <4>1, <4>2, <4>4 DEF Latest
      <3> QED
        BY <3>2, <3>3
    <2> QED
      BY <2>1, <2>4, <2>5, <1>2, <1>6 DEF Latest
  <1>7. RequestsInForce'
    BY <1>1, <1>2, <1>6 DEF RequestsInForce, Latest
  <1> QED
    BY <1>5, <1>7 DEF ConsentInv

LEMMA PersonRegistered ==
  ASSUME ConsentInv, NEW w \in Worker, C!RegisterPerson(w)
  PROVE  ConsentInv'
  <1>1. PICK p : p = request[w].person
    OBVIOUS
  <1>2. p \in Registrant /\ C!Answered(w)
    <2>1. request[w] \in C!Request \cup {C!Idle}
      BY DEF ConsentInv, ConsentTyped
    <2> QED
      BY <1>1, <2>1, RequestFields DEF C!RegisterPerson
  <1>3. CASE standing[p] # "visitor"
    BY <1>1, <1>2, <1>3, ConsentAnswered DEF C!RegisterPerson
  <1>4. CASE standing[p] = "visitor"
    <2> DEFINE terms == C!Decision("terms_of_service", TRUE)
               guardian == C!Decision("guardian_consent", TRUE)
               s == <<terms>> \o IF request[w].guardian THEN <<guardian>> ELSE <<>>
    <2>1. standing' = [standing EXCEPT ![p] = "active"] /\ rows' = [rows EXCEPT ![p] = s]
      BY <1>1, <1>4 DEF C!RegisterPerson
    <2>2. terms \in C!ConsentRow /\ guardian \in C!ConsentRow
      BY DEF C!Decision, C!ConsentRow, C!Purpose
    <2> HIDE DEF terms, guardian
    <2>3. s \in Seq(C!ConsentRow) /\ Len(s) \in 1..2
      BY <2>2
    <2> HIDE DEF s
    <2>4. Len(s) <= MaxRows /\ Len(s) # 0 /\ 0 <= Len(s)
      <3>1. MaxRows \in Nat /\ MaxRows >= 2
        BY BoundAssumption
      <3>2. \A n \in 1..2 : n <= MaxRows /\ n # 0 /\ 0 <= n
        BY <3>1
      <3> QED
        BY <2>3, <3>2
    <2>5. Len(rows[p]) = 0
      BY <1>2, <1>4 DEF ConsentInv, ConsentTyped
    <2>6. \A k \in 1..Len(rows[p]) : FALSE
      BY <2>5
    <2> QED
      BY <1>2, <2>1, <2>3, <2>4, <2>5, <2>6, RowsWritten
  <1> QED
    BY <1>3, <1>4

LEMMA ConsentRecorded ==
  ASSUME ConsentInv, NEW w \in Worker, C!RecordConsent(w)
  PROVE  ConsentInv'
  <1>1. PICK r : r = request[w]
    OBVIOUS
  <1> DEFINE d == C!Decision(r.purpose, r.granted)
  <1> DEFINE s == Append(rows[r.person], d)
  <1>2. /\ r.op = "record" /\ Len(rows[r.person]) < MaxRows
        /\ rows' = [rows EXCEPT ![r.person] = s] /\ C!Answered(w) /\ UNCHANGED standing
    BY <1>1 DEF C!RecordConsent
  <1>3. r.person \in Registrant /\ r.purpose \in C!Purpose /\ r.granted \in BOOLEAN
    <2>1. r \in C!Request \cup {C!Idle}
      BY <1>1 DEF ConsentInv, ConsentTyped
    <2> QED
      BY <1>2, <2>1, RequestFields
  <1>4. rows[r.person] \in Seq(C!ConsentRow) /\ standing[r.person] # "visitor"
    BY <1>1, <1>2, <1>3 DEF ConsentInv, ConsentTyped, RequestsInForce
  <1>5. d \in C!ConsentRow
    BY <1>3 DEF C!Decision, C!ConsentRow
  <1> HIDE DEF d
  <1>6. /\ s \in Seq(C!ConsentRow) /\ Len(s) = Len(rows[r.person]) + 1
        /\ \A k \in 1..Len(rows[r.person]) : s[k] = rows[r.person][k]
    BY <1>4, <1>5
  <1> HIDE DEF s
  <1>7. Len(rows[r.person]) <= Len(s) /\ Len(s) <= MaxRows /\ Len(s) # 0
    BY <1>2, <1>4, <1>6, BoundAssumption
  <1> QED
    BY <1>2, <1>3, <1>4, <1>6, <1>7, RowsWritten

\* What a withdrawal does: it marks the row it has read.
LEMMA ConsentWithdrawn ==
  ASSUME ConsentInv, NEW w \in Worker, C!RevokeConsent(w)
  PROVE  \E r, s : /\ r = request[w] /\ r.person \in Registrant /\ s \in Seq(C!ConsentRow)
                   /\ r.row \in 1..Len(s) /\ r.seen \in Nat /\ Latest(r)
                   /\ rows' = [rows EXCEPT ![r.person] = s]
                   /\ Len(s) = Len(rows[r.person]) /\ s[r.row].revoked
                   /\ \A k \in 1..Len(s) : /\ s[k].purpose = rows[r.person][k].purpose
                                           /\ rows[r.person][k].revoked => s[k].revoked
                   /\ C!Answered(w) /\ UNCHANGED standing /\ standing[r.person] # "visitor"
  <1>1. PICK r : r = request[w]
    OBVIOUS
  <1>2. /\ r.op = "revoke" /\ rows' = [rows EXCEPT ![r.person][r.row].revoked = TRUE]
        /\ C!Answered(w) /\ UNCHANGED standing
    BY <1>1 DEF C!RevokeConsent
  <1>3. r.person \in Registrant /\ r.row \in 1..MaxRows /\ r.seen \in 1..MaxRows
    <2>1. r \in C!Request \cup {C!Idle}
      BY <1>1 DEF ConsentInv, ConsentTyped
    <2> QED
      BY <1>2, <2>1, RequestFields
  <1>4. Latest(r)
    BY <1>1, <1>2 DEF ConsentInv, RequestsInForce
  <1> DEFINE old == rows[r.person]
  <1> DEFINE s == [old EXCEPT ![r.row].revoked = TRUE]
  <1>5. rows' = [rows EXCEPT ![r.person] = s]
    BY <1>2
  <1>6. old \in Seq(C!ConsentRow) /\ (standing[r.person] = "visitor" <=> Len(old) = 0)
    BY <1>3 DEF ConsentInv, ConsentTyped
  <1>7. r.row \in 1..Len(old) /\ Len(old) # 0
    BY <1>3, <1>4, <1>6, BoundAssumption DEF Latest
  <1> HIDE DEF old
  <1>8. [old[r.row] EXCEPT !.revoked = TRUE] \in C!ConsentRow
    <2>1. old[r.row] \in C!ConsentRow
      BY <1>6, <1>7
    <2> QED
      BY <2>1 DEF C!ConsentRow
  <1>9. s \in Seq(C!ConsentRow) /\ Len(s) = Len(old)
    BY <1>6, <1>7, <1>8
  <1>10. s[r.row].revoked /\ \A k \in 1..Len(s) : /\ s[k].purpose = old[k].purpose
                                                  /\ old[k].revoked => s[k].revoked
    <2>1. \A k \in 1..Len(old) : old[k] \in C!ConsentRow
      BY <1>6
    <2> QED
      BY <1>6, <1>7, <1>9, <2>1 DEF C!ConsentRow
  <1> HIDE DEF s
  <1>11. /\ r.row \in 1..Len(s) /\ r.seen \in Nat /\ Len(s) = Len(rows[r.person])
         /\ \A k \in 1..Len(s) : /\ s[k].purpose = rows[r.person][k].purpose
                                 /\ rows[r.person][k].revoked => s[k].revoked
         /\ standing[r.person] # "visitor"
    BY <1>3, <1>6, <1>7, <1>9, <1>10, BoundAssumption DEF old
  <1> QED
    BY <1>1, <1>2, <1>3, <1>4, <1>5, <1>9, <1>10, <1>11

LEMMA ConsentRevoked ==
  ASSUME ConsentInv, NEW w \in Worker, C!RevokeConsent(w)
  PROVE  ConsentInv'
  <1>1. PICK r, s : /\ r = request[w] /\ r.person \in Registrant /\ s \in Seq(C!ConsentRow)
                    /\ r.row \in 1..Len(s) /\ r.seen \in Nat /\ Latest(r)
                    /\ rows' = [rows EXCEPT ![r.person] = s]
                    /\ Len(s) = Len(rows[r.person]) /\ s[r.row].revoked
                    /\ \A k \in 1..Len(s) : /\ s[k].purpose = rows[r.person][k].purpose
                                            /\ rows[r.person][k].revoked => s[k].revoked
                    /\ C!Answered(w) /\ UNCHANGED standing /\ standing[r.person] # "visitor"
    BY ConsentWithdrawn
  <1>2. Len(s) # 0 /\ Len(rows[r.person]) <= Len(s) /\ Len(s) <= MaxRows
    BY <1>1 DEF ConsentInv, ConsentTyped
  <1> QED
    BY <1>1, <1>2, RowsWritten

LEMMA ConsentStep ==
  ASSUME ConsentInv, [C!Next]_(C!vars)
  PROVE  ConsentInv'
  <1>1. CASE UNCHANGED C!vars
    BY <1>1 DEF C!vars, ConsentInv, ConsentTyped, RequestsInForce, Latest
  <1>2. ASSUME NEW w \in Worker, C!Abandon(w)
        PROVE  ConsentInv'
    BY <1>2, ConsentAnswered DEF C!Abandon
  <1>3. ASSUME NEW p \in Registrant, C!Anonymize(p)
        PROVE  ConsentInv'
    <2>1. /\ standing[p] = "active" /\ standing' = [standing EXCEPT ![p] = "anonymized"]
          /\ UNCHANGED <<rows, request>>
      BY <1>3 DEF C!Anonymize
    <2>2. /\ standing' \in [Registrant -> {"visitor", "active", "anonymized"}]
          /\ \A q : standing'[q] = "visitor" <=> standing[q] = "visitor"
      BY <2>1 DEF ConsentInv, ConsentTyped
    <2> QED
      BY <2>1, <2>2 DEF ConsentInv, ConsentTyped, RequestsInForce, Latest
  <1>4. CASE C!Next
    BY <1>2, <1>3, <1>4, ConsentAsked, PersonRegistered, ConsentRecorded, ConsentRevoked DEF C!Next
  <1> QED
    BY <1>1, <1>4

LEMMA ConsentInvariant == Spec => []ConsentInv
  <1> QED
    BY PartsOfBehaviour, ConsentStart, ConsentStep, PTL DEF C!Spec

LEMMA ConsentTypeOK ==
  ASSUME ConsentInv
  PROVE  C!TypeOK
  <1>1. ASSUME NEW p \in Registrant
        PROVE  /\ Len(rows[p]) <= MaxRows /\ C!Range(rows[p]) \subseteq C!ConsentRow
               /\ standing[p] = "visitor" <=> rows[p] = <<>>
    <2>1. rows[p] \in Seq(C!ConsentRow) /\ Len(rows[p]) <= MaxRows /\ (standing[p] = "visitor" <=> Len(rows[p]) = 0)
      BY DEF ConsentInv, ConsentTyped
    <2>2. C!Range(rows[p]) \subseteq C!ConsentRow
      BY <2>1 DEF C!Range
    <2> QED
      BY <2>1, <2>2
  <1> QED
    BY <1>1 DEF ConsentInv, ConsentTyped, C!TypeOK

\* A withdrawal leaves none of the decisions it had seen on the purpose in force,
\* from the one it marks on, whatever was recorded, withdrawn or erased since.
THEOREM ConsentWithdrawalSticks == Spec => WithdrawalSticks
  <1>1. ASSUME ConsentInv, [C!Next]_(C!vars), rows' # rows, NEW w \in Worker, NEW q, q = request[w],
               q.op = "revoke", request'[w] = C!Idle,
               NEW k \in C!Of(q.person, rows[q.person][q.row].purpose), q.row <= k, k <= q.seen
        PROVE  rows'[q.person][k].revoked
    <2>1. C!Next
      BY <1>1 DEF C!vars
    <2>2. C!RevokeConsent(w)
      <3>1. q # C!Idle
        BY <1>1 DEF C!Idle
      <3>2. ASSUME NEW v \in Worker, C!Answered(v)
            PROVE  v = w
        BY <1>1, <3>1, <3>2 DEF C!Answered, ConsentInv, ConsentTyped
      <3>3. PICK v \in Worker : C!RegisterPerson(v) \/ C!RecordConsent(v) \/ C!RevokeConsent(v)
        BY <1>1, <2>1 DEF C!Next, C!RegisterRequest, C!ConsentRequest, C!ReadToRegister,
             C!ReadToRecordConsent, C!ReadToRevokeConsent, C!Ask, C!Abandon, C!Anonymize
      <3>4. v = w
        BY <3>2, <3>3 DEF C!RegisterPerson, C!RecordConsent, C!RevokeConsent
      <3> QED
        BY <1>1, <3>3, <3>4 DEF C!RegisterPerson, C!RecordConsent
    <2>3. PICK r, s : /\ r = request[w] /\ r.person \in Registrant /\ s \in Seq(C!ConsentRow)
                      /\ r.row \in 1..Len(s) /\ r.seen \in Nat /\ Latest(r)
                      /\ rows' = [rows EXCEPT ![r.person] = s]
                      /\ Len(s) = Len(rows[r.person]) /\ s[r.row].revoked
                      /\ \A n \in 1..Len(s) : /\ s[n].purpose = rows[r.person][n].purpose
                                              /\ rows[r.person][n].revoked => s[n].revoked
      BY <1>1, <2>2, ConsentWithdrawn
    <2>4. r = q /\ rows'[q.person] = s
      BY <1>1, <2>3 DEF ConsentInv, ConsentTyped
    <2>5. k \in 1..Len(s) /\ k \in 1..q.seen /\ rows[q.person][k].purpose = rows[q.person][q.row].purpose
      BY <1>1, <2>3, <2>4 DEF C!Of
    <2>6. CASE k = q.row
      BY <2>3, <2>4, <2>6
    <2>7. CASE k # q.row
      <3>1. rows[q.person][k].revoked
        BY <1>1, <2>3, <2>4, <2>5, <2>7 DEF Latest
      <3> QED
        BY <2>3, <2>4, <2>5, <3>1
    <2> QED
      BY <2>6, <2>7
  <1>2. ConsentInv /\ [C!Next]_(C!vars) => [rows' # rows => \A w \in Worker : LET r == request[w] IN
          r.op = "revoke" /\ request'[w] = C!Idle =>
            \A k \in C!Of(r.person, rows[r.person][r.row].purpose) :
              r.row <= k /\ k <= r.seen => rows'[r.person][k].revoked]_(C!vars)
    BY <1>1
  <1> QED
    BY <1>2, ConsentInvariant, PartsOfBehaviour, PTL DEF C!Spec, WithdrawalSticks, C!WithdrawalSticks

-----------------------------------------------------------------------------
(* Data-subject requests: a call under way works on an open request of its *)
(* own, so whatever admin or the sweep knows of an ended one stays true.   *)

Working == {"start", "bundle", "complete"}
IsOpen(d) == requests[d].status \in {"pending", "processing"}
IsEnded(d) == requests[d].status \in {"completed", "failed"}

DsarTyped ==
    /\ \E n \in 0..MaxRequests : requests \in [1..n -> D!Request]
    /\ bundles \subseteq DOMAIN requests /\ erased \subseteq Person
    /\ DOMAIN jobs \subseteq RowId /\ jobs \in [DOMAIN jobs -> D!ExportJob]
    /\ \E n \in 0..MaxEvents : /\ events \in [1..n -> [dsar : D!Id, status : {"completed", "failed"}]]
                               /\ ledger \subseteq 1..n
    /\ call \in [Worker -> D!Call \cup {D!Idle}]
    /\ sweep \in [left : SUBSET DOMAIN requests, deleted : SUBSET DOMAIN requests]
    /\ missed \subseteq DOMAIN requests

CallsPoint ==
    /\ \A w \in Worker :
         /\ call[w].stage \in Working => call[w].dsar \in DOMAIN requests /\ IsOpen(call[w].dsar)
         /\ call[w].stage \in {"publish", "queue"} => call[w].dsar \in DOMAIN requests /\ IsEnded(call[w].dsar)
    /\ \A v, w \in Worker :
         call[v].stage \in Working /\ call[w].stage \in Working /\ call[v].dsar = call[w].dsar => v = w

\* Events and jobs name requests, and those that tell an end tell the truth.
AdminAgrees ==
    /\ \A e \in DOMAIN events : events[e].dsar \in DOMAIN requests /\ events[e].status = requests[events[e].dsar].status
    /\ \A j \in DOMAIN jobs : jobs[j].dsar \in DOMAIN requests
    /\ D!JobEndsAsRequest

\* Somebody waits to be told of the request d, or a job of it is there.
Awaited(d) ==
    \/ \E e \in DOMAIN events \ ledger : events[e].dsar = d
    \/ d \in missed

JobsAwaited ==
    /\ D!QueuedJobAwaited
    /\ \A w \in Worker : call[w].stage = "queue" => Awaited(call[w].dsar) \/ D!JobsOf(call[w].dsar) # {}

\* What the sweep listed is completed, and what it deleted is not on the disk.
SweepAgrees ==
    /\ sweep.deleted \subseteq sweep.left /\ sweep.deleted \cap bundles = {}
    /\ \A d \in sweep.left : requests[d].status = "completed"

DsarInv ==
    DsarTyped /\ CallsPoint /\ AdminAgrees /\ JobsAwaited /\ SweepAgrees /\ D!ClearedLinkServesNothing

LEMMA DsarSizes ==
  ASSUME DsarTyped
  PROVE  /\ D!NextId \in Nat /\ DOMAIN requests = 1..(D!NextId - 1) /\ DOMAIN requests \subseteq D!Id
         /\ D!NextEvent \in Nat \ {0} /\ DOMAIN events = 1..(D!NextEvent - 1)
  <1>1. \A n \in Nat : D!Cardinality(1..n) = n
    <2>1. \A S : D!Cardinality(S) = Cardinality(S)
      BY DEF D!Cardinality, Cardinality
    <2> QED
      BY <2>1, FS_Interval
  <1>2. PICK n \in 0..MaxRequests : requests \in [1..n -> D!Request]
    BY DEF DsarTyped
  <1>3. PICK m \in 0..MaxEvents : events \in [1..m -> [dsar : D!Id, status : {"completed", "failed"}]]
    BY DEF DsarTyped
  <1>4. n \in Nat /\ m \in Nat /\ n <= MaxRequests
    BY <1>2, <1>3, BoundAssumption
  <1>5. DOMAIN requests = 1..n /\ D!NextId = n + 1
    BY <1>1, <1>2, <1>4 DEF D!NextId
  <1>6. DOMAIN events = 1..m /\ D!NextEvent = m + 1
    BY <1>1, <1>3, <1>4 DEF D!NextEvent
  <1> QED
    BY <1>4, <1>5, <1>6, BoundAssumption DEF D!Id

LEMMA CallFields ==
  ASSUME NEW c \in D!Call \cup {D!Idle}, c.stage # "idle"
  PROVE  /\ c \in D!Call /\ c.person \in Person /\ c.by \in Person /\ c.type \in {"export", "erasure"}
         /\ c.orchestrated \in BOOLEAN /\ c.dsar \in D!Id \cup {D!None}
         /\ \A stage \in {"insert", "start", "bundle", "complete", "recover", "publish", "queue"} :
              [c EXCEPT !.stage = stage] \in D!Call
         /\ \A stage \in {"start", "publish"}, d \in D!Id :
              /\ [c EXCEPT !.stage = stage, !.dsar = d] \in D!Call
              /\ [c EXCEPT !.stage = stage, !.dsar = d, !.own = d] \in D!Call
  <1>1. c \in D!Call
    BY DEF D!Idle
  <1>2. /\ c.person \in Person /\ c.by \in Person /\ c.type \in {"export", "erasure"}
        /\ c.orchestrated \in BOOLEAN /\ c.dsar \in D!Id \cup {D!None}
    BY <1>1 DEF D!Call
  <1>3. \A stage \in {"insert", "start", "bundle", "complete", "recover", "publish", "queue"} :
          [c EXCEPT !.stage = stage] \in D!Call
    BY <1>1 DEF D!Call
  <1>4. \A stage \in {"start", "publish"}, d \in D!Id :
          /\ [c EXCEPT !.stage = stage, !.dsar = d] \in D!Call
          /\ [c EXCEPT !.stage = stage, !.dsar = d, !.own = d] \in D!Call
    BY <1>1 DEF D!Call
  <1> QED
    BY <1>1, <1>2, <1>3, <1>4

LEMMA CallSet ==
  ASSUME DsarTyped, NEW w \in Worker, NEW c \in D!Call \cup {D!Idle}, call' = [call EXCEPT ![w] = c]
  PROVE  /\ call' \in [Worker -> D!Call \cup {D!Idle}] /\ call'[w] = c
         /\ \A v \in Worker : v # w => call'[v] = call[v]
  BY DEF DsarTyped

LEMMA DsarStart ==
  ASSUME D!Init
  PROVE  DsarInv
  <1>1. /\ requests = <<>> /\ bundles = {} /\ erased = {} /\ jobs = <<>> /\ events = <<>> /\ ledger = {}
        /\ missed = {} /\ call = [w \in Worker |-> D!Idle] /\ D!Idle.stage = "idle"
        /\ sweep = [left |-> {}, deleted |-> {}]
    BY DEF D!Init, D!Idle
  <1>2. DOMAIN requests = {} /\ DOMAIN jobs = {} /\ DOMAIN events = {}
    BY <1>1
  <1>3. DsarTyped
    <2>1. requests \in [1..0 -> D!Request] /\ 0 \in 0..MaxRequests
      BY <1>1, BoundAssumption
    <2>2. events \in [1..0 -> [dsar : D!Id, status : {"completed", "failed"}]] /\ 0 \in 0..MaxEvents
      BY <1>1, BoundAssumption
    <2>3. jobs \in [DOMAIN jobs -> D!ExportJob]
      BY <1>1
    <2> QED
      BY <1>1, <1>2, <2>1, <2>2, <2>3 DEF DsarTyped
  <1>4. CallsPoint
    BY <1>1 DEF CallsPoint, Working
  <1>5. AdminAgrees /\ JobsAwaited /\ SweepAgrees /\ D!ClearedLinkServesNothing
    BY <1>1, <1>2 DEF AdminAgrees, JobsAwaited, SweepAgrees, D!ClearedLinkServesNothing,
                      D!JobEndsAsRequest, D!QueuedJobAwaited
  <1> QED
    BY <1>3, <1>4, <1>5 DEF DsarInv

\* A call that goes on, and at most a file that is written for its request.
LEMMA OnlyCall ==
  ASSUME DsarInv, NEW w \in Worker, NEW c \in D!Call \cup {D!Idle}, call' = [call EXCEPT ![w] = c],
         UNCHANGED <<requests, erased, sweep, jobs, events, ledger, missed>>,
         \/ UNCHANGED bundles
         \/ call[w].stage \in Working /\ bundles' = bundles \cup {call[w].dsar},
         c.stage \in Working => call[w].stage \in Working /\ c.dsar = call[w].dsar,
         c.stage = "publish" => c.dsar \in DOMAIN requests /\ IsEnded(c.dsar),
         c.stage # "queue"
  PROVE  DsarInv'
  <1>1. /\ call' \in [Worker -> D!Call \cup {D!Idle}] /\ call'[w] = c
        /\ \A v \in Worker : v # w => call'[v] = call[v]
    BY CallSet DEF DsarInv
  <1>2. \A d : d \in bundles' => d \in bundles \/ (d \in DOMAIN requests /\ IsOpen(d))
    BY DEF DsarInv, CallsPoint
  <1>3. DsarTyped'
    BY <1>1, <1>2 DEF DsarInv, DsarTyped
  <1>4. CallsPoint'
    BY <1>1 DEF DsarInv, CallsPoint, IsOpen, IsEnded
  <1>5. AdminAgrees'
    BY DEF DsarInv, AdminAgrees, D!JobEndsAsRequest
  <1>6. JobsAwaited'
    BY <1>1 DEF DsarInv, JobsAwaited, D!QueuedJobAwaited, Awaited, D!JobsOf
  <1>7. SweepAgrees'
    BY <1>2 DEF DsarInv, SweepAgrees, IsOpen
  <1>8. D!ClearedLinkServesNothing'
    BY <1>2 DEF DsarInv, D!ClearedLinkServesNothing, D!Served, IsOpen
  <1> QED
    BY <1>3, <1>4, <1>5, <1>6, <1>7, <1>8 DEF DsarInv

\* A row is created, or the one that the call works on is written.
LEMMA RequestsWritten ==
  ASSUME DsarInv, NEW w \in Worker, NEW c \in D!Call \cup {D!Idle}, call' = [call EXCEPT ![w] = c],
         UNCHANGED <<bundles, sweep, jobs, events, ledger, missed>>, erased' \subseteq Person,
         NEW d, d \in DOMAIN requests => call[w].stage \in Working /\ call[w].dsar = d,
         DOMAIN requests' = DOMAIN requests \cup {d},
         \E n \in 0..MaxRequests : requests' \in [1..n -> D!Request],
         \A k \in DOMAIN requests : k # d => requests'[k] = requests[k],
         requests'[d].status = "completed" => requests'[d].url \/ requests'[d].type = "erasure",
         c.stage \in Working => c.dsar = d /\ IsOpen(d)',
         c.stage = "publish" => c.dsar = d /\ IsEnded(d)',
         c.stage # "queue"
  PROVE  DsarInv'
  <1>1. /\ call' \in [Worker -> D!Call \cup {D!Idle}] /\ call'[w] = c
        /\ \A v \in Worker : v # w => call'[v] = call[v]
    BY CallSet DEF DsarInv
  <1>2. d \in DOMAIN requests => IsOpen(d)
    BY DEF DsarInv, CallsPoint
  <1>3. \A k \in DOMAIN requests : ~IsOpen(k) => k \in DOMAIN requests' /\ requests'[k] = requests[k]
    BY <1>2
  <1>4. DsarTyped'
    <2>1. sweep' \in [left : SUBSET DOMAIN requests', deleted : SUBSET DOMAIN requests']
      BY DEF DsarInv, DsarTyped
    <2> QED
      BY <1>1, <2>1 DEF DsarInv, DsarTyped
  <1>5. CallsPoint'
    <2>1. ASSUME NEW v \in Worker, v # w
          PROVE  /\ call'[v] = call[v]
                 /\ call[v].stage \in Working =>
                      call[v].dsar \in DOMAIN requests /\ call[v].dsar # d /\ IsOpen(call[v].dsar)
                 /\ call[v].stage \in {"publish", "queue"} =>
                      call[v].dsar \in DOMAIN requests /\ call[v].dsar # d /\ IsEnded(call[v].dsar)
      BY <1>1, <1>2, <2>1 DEF DsarInv, CallsPoint, IsOpen, IsEnded
    <2>2. ASSUME NEW v \in Worker
          PROVE  /\ call'[v].stage \in Working => call'[v].dsar \in DOMAIN requests' /\ IsOpen(call[v].dsar)'
                 /\ call'[v].stage \in {"publish", "queue"} =>
                      call'[v].dsar \in DOMAIN requests' /\ IsEnded(call[v].dsar)'
      BY <1>1, <2>1 DEF IsOpen, IsEnded
    <2>3. ASSUME NEW u \in Worker, NEW v \in Worker, call'[u].stage \in Working, call'[v].stage \in Working,
                 call'[u].dsar = call'[v].dsar
          PROVE  u = v
      BY <1>1, <2>1, <2>3 DEF DsarInv, CallsPoint
    <2> QED
      BY <2>2, <2>3 DEF CallsPoint
  <1>6. AdminAgrees'
    <2>1. \A e \in DOMAIN events : /\ events[e].dsar \in DOMAIN requests /\ ~IsOpen(events[e].dsar)
                                   /\ events[e].status = requests[events[e].dsar].status
      BY DEF DsarInv, DsarTyped, AdminAgrees, IsOpen
    <2>2. \A j \in DOMAIN jobs : jobs[j].status \in {"queued", "completed", "failed"}
      BY DEF DsarInv, DsarTyped, D!ExportJob
    <2>3. \A j \in DOMAIN jobs :
            /\ jobs[j].dsar \in DOMAIN requests
            /\ jobs[j].status # "queued" => /\ jobs[j].status = requests[jobs[j].dsar].status
                                            /\ ~IsOpen(jobs[j].dsar)
      BY <2>2 DEF DsarInv, AdminAgrees, D!JobEndsAsRequest, IsOpen
    <2> QED
      BY <1>3, <2>1, <2>3 DEF AdminAgrees, D!JobEndsAsRequest
  <1>7. JobsAwaited'
    BY <1>1 DEF DsarInv, JobsAwaited, D!QueuedJobAwaited, Awaited, D!JobsOf
  <1>8. SweepAgrees'
    BY <1>3 DEF DsarInv, DsarTyped, SweepAgrees, IsOpen
  <1>9. D!ClearedLinkServesNothing'
    BY DEF DsarInv, D!ClearedLinkServesNothing, D!Served
  <1> QED
    BY <1>4, <1>5, <1>6, <1>7, <1>8, <1>9 DEF DsarInv

-----------------------------------------------------------------------------
(* The steps of a call. *)

LEMMA DsarAsked ==
  ASSUME DsarInv, NEW w \in Worker, D!SelfServiceRequest(w) \/ D!OrchestrateRequest(w)
  PROVE  DsarInv'
  <1>1. ASSUME NEW c \in Person, NEW p \in Person, NEW stage \in {"insert", "recover"},
               NEW type \in {"export", "erasure"}, NEW orchestrated \in BOOLEAN,
               D!Begin(w, stage, c, p, type, orchestrated)
        PROVE  DsarInv'
    <2> DEFINE new == [stage |-> stage, by |-> c, person |-> p, type |-> type,
                       orchestrated |-> orchestrated, dsar |-> D!None, own |-> D!None]
    <2>1. call' = [call EXCEPT ![w] = new]
          /\ UNCHANGED <<requests, erased, bundles, sweep, jobs, events, ledger, missed>>
      BY <1>1 DEF D!Begin, D!files, D!adminTables
    <2>2. new \in D!Call /\ new.stage \notin Working /\ new.stage # "publish" /\ new.stage # "queue"
      BY DEF D!Call, Working
    <2> HIDE DEF new
    <2> QED
      BY <2>1, <2>2, OnlyCall
  <1>2. DataSubject \subseteq Person /\ SelfService \subseteq Person
    BY PersonAssumption
  <1>3. CASE D!SelfServiceRequest(w)
    <2>1. PICK c \in SelfService, p \in DataSubject : D!ReadToExport(w, c, p, FALSE) \/ D!ReadToErase(w, c, p, FALSE)
      BY <1>3 DEF D!SelfServiceRequest
    <2>2. D!Begin(w, "insert", c, p, "export", FALSE) \/ D!Begin(w, "insert", c, p, "erasure", FALSE)
      BY <2>1 DEF D!ReadToExport, D!ReadToErase
    <2> QED
      BY <1>1, <1>2, <2>2
  <1>4. CASE D!OrchestrateRequest(w)
    <2>1. PICK c \in Person, p \in DataSubject :
            D!ReadToExport(w, c, p, TRUE) \/ D!RefuseExport(w, c, p) \/ D!ReadToErase(w, c, p, TRUE)
      BY <1>4 DEF D!OrchestrateRequest
    <2>2. \/ D!Begin(w, "insert", c, p, "export", TRUE) \/ D!Begin(w, "recover", c, p, "export", TRUE)
          \/ D!Begin(w, "insert", c, p, "erasure", TRUE)
      BY <2>1 DEF D!ReadToExport, D!RefuseExport, D!ReadToErase
    <2> QED
      BY <1>1, <1>2, <2>2
  <1> QED
    BY <1>3, <1>4

LEMMA CallEnded ==
  ASSUME DsarInv, NEW w \in Worker, D!End(w),
         UNCHANGED <<requests, erased, bundles, sweep, jobs, events, ledger, missed>>
  PROVE  DsarInv'
  <1>1. D!Idle \in D!Call \cup {D!Idle} /\ D!Idle.stage = "idle"
    BY DEF D!Idle
  <1> QED
    BY <1>1, OnlyCall DEF D!End, Working

\* Where a call returns to: nowhere, or the stage its orchestration goes on with.
LEMMA Returning ==
  ASSUME DsarTyped, NEW w \in Worker, call[w].stage # "idle", NEW stage \in {"recover", "publish"},
         D!Returns(w, stage)
  PROVE  \E c \in D!Call \cup {D!Idle} : /\ call' = [call EXCEPT ![w] = c]
                                         /\ c.stage \in {"idle", stage}
                                         /\ c.stage = stage => c.dsar = call[w].dsar
  <1>1. D!Idle.stage = "idle"
    BY DEF D!Idle
  <1>2. CASE D!End(w)
    BY <1>1, <1>2 DEF D!End
  <1>3. CASE D!To(w, stage)
    <2> DEFINE c == [call[w] EXCEPT !.stage = stage]
    <2>1. call[w] \in D!Call
      BY CallFields DEF DsarTyped
    <2>2. c \in D!Call /\ c.stage = stage /\ c.dsar = call[w].dsar
      BY <2>1 DEF D!Call
    <2>3. call' = [call EXCEPT ![w] = c]
      BY <1>3 DEF D!To
    <2> HIDE DEF c
    <2> QED
      BY <2>2, <2>3
  <1> QED
    BY <1>2, <1>3 DEF D!Returns

LEMMA StatementFailed ==
  ASSUME DsarInv, NEW w \in Worker, D!StatementFails(w)
  PROVE  DsarInv'
  <1>1. UNCHANGED <<requests, erased, bundles, sweep, jobs, events, ledger, missed>>
    BY DEF D!StatementFails, D!files, D!adminTables
  <1>2. call[w].stage # "idle" /\ D!Returns(w, "recover") /\ DsarTyped
    BY DEF D!StatementFails, DsarInv
  <1>3. PICK c \in D!Call \cup {D!Idle} : call' = [call EXCEPT ![w] = c] /\ c.stage \in {"idle", "recover"}
    BY <1>2, Returning
  <1> QED
    BY <1>1, <1>3, OnlyCall DEF Working

LEMMA RowInserted ==
  ASSUME DsarTyped, NEW w \in Worker, NEW type \in {"export", "erasure"}, NEW state \in {"pending", "completed"},
         D!Insert(w, type, state)
  PROVE  LET d == D!NextId IN
         /\ d \in D!Id /\ d \notin DOMAIN requests /\ DOMAIN requests' = DOMAIN requests \cup {d}
         /\ \E n \in 0..MaxRequests : requests' \in [1..n -> D!Request]
         /\ \A k \in DOMAIN requests : requests'[k] = requests[k]
         /\ requests'[d].status = state /\ requests'[d].type = type
  <1>1. PICK d : d = D!NextId
    OBVIOUS
  <1> DEFINE row == [person |-> call[w].person, type |-> type, by |-> call[w].by, url |-> FALSE, status |-> state]
  <1>2. call[w].stage = "insert" /\ d \in D!Id /\ requests' = D!Inserted(requests, d, row)
    BY <1>1 DEF D!Insert, D!Is
  <1>3. call[w].person \in Person /\ call[w].by \in Person
    BY <1>2, CallFields DEF DsarTyped
  <1>4. row \in D!Request /\ row.status = state /\ row.type = type
    BY <1>3 DEF D!Request
  <1> HIDE DEF row
  <1>5. d \in Nat /\ d \in 1..MaxRequests /\ DOMAIN requests = 1..(d - 1)
    BY <1>1, <1>2, DsarSizes DEF D!Id
  <1>6. d \notin DOMAIN requests /\ DOMAIN requests \cup {d} = 1..d
    BY <1>5
  <1>7. requests' = [k \in 1..d |-> IF k = d THEN row ELSE requests[k]]
    BY <1>2, <1>6 DEF D!Inserted
  <1>8. \A k \in DOMAIN requests : requests[k] \in D!Request
    BY DEF DsarTyped
  <1>9. requests' \in [1..d -> D!Request] /\ d \in 0..MaxRequests
    BY <1>4, <1>5, <1>6, <1>7, <1>8, BoundAssumption
  <1> QED
    BY <1>1, <1>2, <1>4, <1>6, <1>7, <1>9

LEMMA ExportInserted ==
  ASSUME DsarInv, NEW w \in Worker, D!InsertExport(w)
  PROVE  DsarInv'
  <1>1. PICK d : d = D!NextId
    OBVIOUS
  <1> DEFINE c == [call[w] EXCEPT !.stage = "start", !.dsar = d, !.own = d]
  <1>2. /\ d \in D!Id /\ d \notin DOMAIN requests /\ DOMAIN requests' = DOMAIN requests \cup {d}
        /\ \E n \in 0..MaxRequests : requests' \in [1..n -> D!Request]
        /\ \A k \in DOMAIN requests : requests'[k] = requests[k]
        /\ requests'[d].status = "pending"
    BY <1>1, RowInserted DEF DsarInv, D!InsertExport
  <1>3. UNCHANGED <<erased, bundles, sweep, jobs, events, ledger, missed>> /\ call' = [call EXCEPT ![w] = c]
    BY <1>1 DEF D!InsertExport, D!files, D!adminTables
  <1>4. call[w].stage = "insert" /\ call[w] \in D!Call
    BY CallFields DEF D!InsertExport, D!Insert, D!Is, DsarInv, DsarTyped
  <1>5. c \in D!Call /\ c.stage = "start" /\ c.dsar = d
    <2>1. c \in D!Call
      BY <1>2, <1>4, CallFields
    <2> QED
      BY <1>4, <2>1 DEF D!Call
  <1> HIDE DEF c
  <1>6. IsOpen(d)' /\ erased' \subseteq Person
    BY <1>2, <1>3 DEF IsOpen, DsarInv, DsarTyped
  <1> QED
    BY <1>2, <1>3, <1>5, <1>6, RequestsWritten

LEMMA PersonErased ==
  ASSUME DsarInv, NEW w \in Worker, D!Erase(w)
  PROVE  DsarInv'
  <1>1. PICK d : d = D!NextId
    OBVIOUS
  <1>2. /\ d \in D!Id /\ d \notin DOMAIN requests /\ DOMAIN requests' = DOMAIN requests \cup {d}
        /\ \E n \in 0..MaxRequests : requests' \in [1..n -> D!Request]
        /\ \A k \in DOMAIN requests : requests'[k] = requests[k]
        /\ requests'[d].status = "completed" /\ requests'[d].type = "erasure"
    BY <1>1, RowInserted DEF DsarInv, D!Erase
  <1>3. call[w].stage = "insert" /\ call[w] \in D!Call /\ call[w].person \in Person
    BY CallFields DEF D!Erase, D!Insert, D!Is, DsarInv, DsarTyped
  <1>4. UNCHANGED <<bundles, sweep, jobs, events, ledger, missed>> /\ erased' \subseteq Person
    BY <1>3 DEF D!Erase, D!files, D!adminTables, DsarInv, DsarTyped
  <1>5. PICK c \in D!Call \cup {D!Idle} : /\ call' = [call EXCEPT ![w] = c] /\ c.stage \in {"idle", "publish"}
                                          /\ c.stage = "publish" => c.dsar = d
    <2>1. CASE call[w].orchestrated
      <3> DEFINE c == [call[w] EXCEPT !.stage = "publish", !.dsar = d, !.own = d]
      <3>1. call' = [call EXCEPT ![w] = c]
        BY <1>1, <2>1 DEF D!Erase
      <3>2. c \in D!Call /\ c.stage = "publish" /\ c.dsar = d
        <4>1. c \in D!Call
          BY <1>2, <1>3, CallFields
        <4> QED
          BY <1>3, <4>1 DEF D!Call
      <3> HIDE DEF c
      <3> QED
        BY <3>1, <3>2
    <2>2. CASE ~call[w].orchestrated
      <3>1. D!Idle \in D!Call \cup {D!Idle} /\ D!Idle.stage = "idle"
        BY DEF D!Idle
      <3> QED
        BY <2>2, <3>1 DEF D!Erase, D!End
    <2> QED
      BY <2>1, <2>2
  <1>6. IsEnded(d)'
    BY <1>2 DEF IsEnded
  <1> QED
    BY <1>2, <1>4, <1>5, <1>6, RequestsWritten DEF Working

\* The row of a call under way is written, and the call goes on.
LEMMA OwnRowWritten ==
  ASSUME DsarInv, NEW w \in Worker, call[w].stage \in Working,
         NEW row \in D!Request, requests' = [requests EXCEPT ![call[w].dsar] = row],
         UNCHANGED <<erased, bundles, sweep, jobs, events, ledger, missed>>,
         row.status = "completed" => row.url,
         NEW c \in D!Call \cup {D!Idle}, call' = [call EXCEPT ![w] = c],
         c.stage \in {"bundle", "publish"} => c.dsar = call[w].dsar,
         c.stage = "bundle" => row.status = "processing",
         c.stage = "publish" => row.status \in {"completed", "failed"},
         c.stage \in {"idle", "bundle", "recover", "publish"}
  PROVE  DsarInv'
  <1>1. PICK d : d = call[w].dsar
    OBVIOUS
  <1>2. d \in DOMAIN requests /\ requests' = [requests EXCEPT ![d] = row]
    BY <1>1 DEF DsarInv, CallsPoint
  <1>3. DOMAIN requests' = DOMAIN requests \cup {d} /\ requests'[d] = row
    BY <1>2
  <1>4. \A k \in DOMAIN requests : k # d => requests'[k] = requests[k]
    BY <1>2
  <1>5. \E n \in 0..MaxRequests : requests' \in [1..n -> D!Request]
    <2>1. PICK n \in 0..MaxRequests : requests \in [1..n -> D!Request]
      BY DEF DsarInv, DsarTyped
    <2>2. requests' \in [1..n -> D!Request]
      BY <1>2, <2>1
    <2> QED
      BY <2>2
  <1>6. c.stage \in Working => c.dsar = d /\ IsOpen(d)'
    BY <1>1, <1>3 DEF Working, IsOpen
  <1>7. c.stage = "publish" => c.dsar = d /\ IsEnded(d)'
    BY <1>1, <1>3 DEF IsEnded
  <1>8. erased' \subseteq Person /\ c.stage # "queue"
    BY DEF DsarInv, DsarTyped
  <1>9. requests'[d].status = "completed" => requests'[d].url \/ requests'[d].type = "erasure"
    BY <1>3
  <1>10. d \in DOMAIN requests => call[w].stage \in Working /\ call[w].dsar = d
    BY <1>1
  <1>11. /\ DsarInv /\ w \in Worker /\ c \in D!Call \cup {D!Idle} /\ call' = [call EXCEPT ![w] = c]
         /\ UNCHANGED <<bundles, sweep, jobs, events, ledger, missed>> /\ DOMAIN requests' = DOMAIN requests \cup {d}
    BY <1>3
  <1> QED
    BY ONLY <1>4, <1>5, <1>6, <1>7, <1>8, <1>9, <1>10, <1>11, RequestsWritten

LEMMA ExportProcessed ==
  ASSUME DsarInv, NEW w \in Worker, D!StartExport(w) \/ D!CompleteExport(w) \/ D!FailExport(w)
  PROVE  DsarInv'
  <1>1. call[w].stage \in Working /\ call[w].stage # "idle"
    BY DEF D!StartExport, D!CompleteExport, D!FailExport, D!Is, Working
  <1>2. call[w].dsar \in DOMAIN requests
    BY <1>1 DEF DsarInv, CallsPoint
  <1>3. UNCHANGED <<erased, bundles, sweep, jobs, events, ledger, missed>>
    BY DEF D!StartExport, D!CompleteExport, D!FailExport, D!files, D!adminTables
  <1>4. PICK old \in D!Request : old = requests[call[w].dsar]
    BY <1>2 DEF DsarInv, DsarTyped
  <1>5. CASE D!StartExport(w)
    <2> DEFINE row == [old EXCEPT !.status = "processing"]
               c == [call[w] EXCEPT !.stage = "bundle"]
    <2>1. requests' = [requests EXCEPT ![call[w].dsar] = row]
      BY <1>4, <1>5 DEF D!StartExport, D!SetStatus
    <2>2. call' = [call EXCEPT ![w] = c]
      BY <1>5 DEF D!StartExport, D!To
    <2>3. row \in D!Request /\ row.status = "processing"
      BY DEF D!Request
    <2>4. call[w] \in D!Call
      BY <1>1, CallFields DEF DsarInv, DsarTyped
    <2>5. c \in D!Call /\ c.stage = "bundle" /\ c.dsar = call[w].dsar
      BY <2>4 DEF D!Call
    <2> HIDE DEF row, c
    <2> QED
      BY <1>1, <1>3, <2>1, <2>2, <2>3, <2>5, OwnRowWritten
  <1>6. CASE D!CompleteExport(w)
    <2> DEFINE row == [old EXCEPT !.status = "completed", !.url = TRUE]
    <2>1. requests' = [requests EXCEPT ![call[w].dsar] = row] /\ D!Returns(w, "publish")
      BY <1>4, <1>6 DEF D!CompleteExport
    <2>2. row \in D!Request /\ row.status = "completed" /\ row.url
      BY DEF D!Request
    <2>3. PICK c \in D!Call \cup {D!Idle} : /\ call' = [call EXCEPT ![w] = c] /\ c.stage \in {"idle", "publish"}
                                            /\ c.stage = "publish" => c.dsar = call[w].dsar
      BY <1>1, <2>1, Returning DEF DsarInv
    <2> HIDE DEF row
    <2> QED
      BY <1>1, <1>3, <2>1, <2>2, <2>3, OwnRowWritten
  <1>7. CASE D!FailExport(w)
    <2>1. PICK url \in BOOLEAN :
            requests' = [requests EXCEPT ![call[w].dsar] = [@ EXCEPT !.status = "failed", !.url = url]]
      BY <1>7 DEF D!FailExport, D!Is
    <2> DEFINE row == [old EXCEPT !.status = "failed", !.url = url]
    <2>2. requests' = [requests EXCEPT ![call[w].dsar] = row] /\ D!Returns(w, "recover")
      BY <1>4, <1>7, <2>1 DEF D!FailExport
    <2>3. row \in D!Request /\ row.status = "failed"
      BY DEF D!Request
    <2>4. PICK c \in D!Call \cup {D!Idle} : call' = [call EXCEPT ![w] = c] /\ c.stage \in {"idle", "recover"}
      BY <1>1, <2>2, Returning DEF DsarInv
    <2> HIDE DEF row
    <2> QED
      BY <1>1, <1>3, <2>2, <2>3, <2>4, OwnRowWritten
  <1> QED
    BY <1>5, <1>6, <1>7

LEMMA BundleWritten ==
  ASSUME DsarInv, NEW w \in Worker, D!WriteBundle(w)
  PROVE  DsarInv'
  <1> DEFINE c == [call[w] EXCEPT !.stage = "complete"]
  <1>1. /\ call[w].stage = "bundle" /\ bundles' = bundles \cup {call[w].dsar} /\ call' = [call EXCEPT ![w] = c]
        /\ UNCHANGED <<requests, erased, sweep, jobs, events, ledger, missed>>
    BY DEF D!WriteBundle, D!Is, D!To, D!adminTables
  <1>2. call[w] \in D!Call
    BY <1>1, CallFields DEF DsarInv, DsarTyped
  <1>3. c \in D!Call /\ c.stage = "complete" /\ c.dsar = call[w].dsar
    BY <1>2 DEF D!Call
  <1> HIDE DEF c
  <1> QED
    BY <1>1, <1>3, OnlyCall DEF Working

\* A finite set of row numbers has a last one.
LEMMA LastOne ==
  ASSUME NEW n \in Nat, NEW T, T \subseteq 1..n, T # {}
  PROVE  \E i \in T : \A k \in T : k <= i
  <1> DEFINE fromTop == {n - i : i \in T}
  <1>1. fromTop \subseteq Nat /\ fromTop # {}
    <2>1. \A i \in T : n - i \in Nat
      OBVIOUS
    <2> QED
      BY <2>1
  <1>2. PICK m \in fromTop : \A y \in fromTop : ~(<<y, m>> \in OpToRel(<, Nat))
    BY <1>1, NatLessThanWellFounded, WFMin
  <1>3. \A y \in fromTop : ~(y < m)
    BY <1>1, <1>2 DEF OpToRel
  <1>4. PICK i \in T : m = n - i
    BY <1>2
  <1>5. \A k \in T : k <= i
    BY <1>1, <1>3, <1>4
  <1> QED
    BY <1>4, <1>5

\* The latest failed request exists whenever one does: what is published next
\* is a request that has ended.
LEMMA RequestRecovered ==
  ASSUME DsarInv, NEW w \in Worker, D!Recover(w)
  PROVE  DsarInv'
  <1> DEFINE failed == {d \in DOMAIN requests :
                          /\ requests[d].person = call[w].person /\ requests[d].type = call[w].type
                          /\ requests[d].by = call[w].by /\ requests[d].status = "failed"}
  <1>1. /\ call[w].stage = "recover" /\ failed # {}
        /\ call' = [call EXCEPT ![w] = [@ EXCEPT !.stage = "publish", !.dsar = D!Max(failed)]]
        /\ UNCHANGED <<requests, erased, bundles, sweep, jobs, events, ledger, missed>>
    BY DEF D!Recover, D!Is, D!files, D!adminTables
  <1>2. /\ D!NextId - 1 \in Nat /\ failed \subseteq 1..(D!NextId - 1) /\ DOMAIN requests \subseteq D!Id
        /\ \A d \in failed : d \in DOMAIN requests /\ requests[d].status = "failed"
    <2>1. DOMAIN requests = 1..(D!NextId - 1) /\ D!NextId \in Nat /\ DOMAIN requests \subseteq D!Id
      BY DsarSizes DEF DsarInv
    <2>2. 1 <= D!NextId - 1
      BY <1>1, <2>1
    <2> QED
      BY <2>1, <2>2
  <1> HIDE DEF failed
  <1>3. \E d \in failed : \A k \in failed : k <= d
    BY <1>1, <1>2, LastOne
  <1>4. \E d \in failed : \A k \in failed : d >= k
    BY <1>2, <1>3
  <1>5. D!Max(failed) \in failed
    BY <1>4 DEF D!Max
  <1>6. PICK d \in DOMAIN requests : d = D!Max(failed) /\ d \in D!Id /\ requests[d].status = "failed"
    BY <1>2, <1>5
  <1> DEFINE c == [call[w] EXCEPT !.stage = "publish", !.dsar = d]
  <1>7. call' = [call EXCEPT ![w] = c]
    BY <1>1, <1>6
  <1>8. call[w] \in D!Call
    BY <1>1, CallFields DEF DsarInv, DsarTyped
  <1>9. c \in D!Call /\ c.stage = "publish" /\ c.dsar = d
    <2>1. c \in D!Call
      BY <1>1, <1>6, <1>8, CallFields
    <2> QED
      BY <1>8, <2>1 DEF D!Call
  <1> HIDE DEF c
  <1>10. IsEnded(d)
    BY <1>6 DEF IsEnded
  <1> QED
    BY <1>1, <1>7, <1>9, <1>10, OnlyCall DEF Working

-----------------------------------------------------------------------------
(* What admin is told, and the retention sweep. *)

LEMMA CompletionPublished ==
  ASSUME DsarInv, NEW w \in Worker, D!PublishCompletion(w)
  PROVE  DsarInv'
  <1>1. PICK e : e = D!NextEvent
    OBVIOUS
  <1>2. PICK d : d = call[w].dsar
    OBVIOUS
  <1> DEFINE told1 == [dsar |-> d, status |-> requests[d].status]
             c == [call[w] EXCEPT !.stage = "queue"]
  <1>3. /\ call[w].stage = "publish" /\ e <= MaxEvents /\ events' = D!Inserted(events, e, told1)
        /\ call' = [call EXCEPT ![w] = c]
        /\ UNCHANGED <<requests, erased, bundles, sweep, jobs, ledger, missed>>
    BY <1>1, <1>2 DEF D!PublishCompletion, D!Is, D!To, D!files
  <1>4. d \in DOMAIN requests /\ IsEnded(d)
    BY <1>2, <1>3 DEF DsarInv, CallsPoint
  <1>5. call[w] \in D!Call
    BY <1>3, CallFields DEF DsarInv, DsarTyped
  <1>6. c \in D!Call /\ c.stage = "queue" /\ c.dsar = d
    BY <1>2, <1>5 DEF D!Call
  <1>7. /\ told1 \in [dsar : D!Id, status : {"completed", "failed"}]
        /\ told1.dsar = d /\ told1.status = requests[d].status
    BY <1>4, DsarSizes DEF DsarInv, IsEnded
  <1> HIDE DEF c, told1
  <1>8. e \in Nat /\ DOMAIN events = 1..(e - 1)
    BY <1>1, DsarSizes DEF DsarInv
  <1>9. e \notin DOMAIN events /\ DOMAIN events \cup {e} = 1..e /\ e \in 0..MaxEvents
    <2>1. e # 0
      BY <1>1, DsarSizes DEF DsarInv
    <2> QED
      BY <1>3, <1>8, <2>1, BoundAssumption
  <1>10. events' = [k \in 1..e |-> IF k = e THEN told1 ELSE events[k]]
    BY <1>3, <1>9 DEF D!Inserted
  <1>11. /\ DOMAIN events' = DOMAIN events \cup {e} /\ events'[e] = told1
         /\ \A k \in DOMAIN events : events'[k] = events[k]
    BY <1>9, <1>10
  <1>12. ledger \subseteq DOMAIN events
    BY DEF DsarInv, DsarTyped
  <1>13. /\ call' \in [Worker -> D!Call \cup {D!Idle}] /\ call'[w] = c
         /\ \A v \in Worker : v # w => call'[v] = call[v]
    BY <1>3, <1>6, CallSet DEF DsarInv
  <1>14. DsarTyped'
    <2>1. \A k \in DOMAIN events : events[k] \in [dsar : D!Id, status : {"completed", "failed"}]
      BY DEF DsarInv, DsarTyped
    <2>2. events' \in [1..e -> [dsar : D!Id, status : {"completed", "failed"}]]
      BY <1>7, <1>9, <1>10, <2>1
    <2>3. ledger' \subseteq 1..e
      BY <1>3, <1>9, <1>12
    <2> QED
      BY <1>3, <1>9, <1>13, <2>2, <2>3 DEF DsarInv, DsarTyped
  <1>15. CallsPoint'
    BY <1>3, <1>4, <1>6, <1>13 DEF DsarInv, CallsPoint, IsOpen, IsEnded, Working
  <1>16. AdminAgrees'
    BY <1>3, <1>4, <1>7, <1>11 DEF DsarInv, AdminAgrees, D!JobEndsAsRequest
  <1>17. JobsAwaited'
    <2>1. \A x : Awaited(x) => Awaited(x)'
      BY <1>3, <1>11 DEF Awaited
    <2>2. Awaited(d)'
      BY <1>3, <1>7, <1>9, <1>11, <1>12 DEF Awaited
    <2>3. D!QueuedJobAwaited'
      BY <1>3, <2>1 DEF DsarInv, JobsAwaited, D!QueuedJobAwaited, Awaited, D!JobsOf
    <2>4. ASSUME NEW v \in Worker, call'[v].stage = "queue", NEW x, x = call'[v].dsar
          PROVE  Awaited(x)' \/ D!JobsOf(x)' # {}
      <3>1. CASE v = w
        BY <1>6, <1>13, <2>2, <2>4, <3>1
      <3>2. CASE v # w
        <4>1. Awaited(x) \/ D!JobsOf(x) # {}
          BY <1>13, <2>4, <3>2 DEF DsarInv, JobsAwaited
        <4> QED
          BY <1>3, <2>1, <4>1 DEF D!JobsOf
      <3> QED
        BY <3>1, <3>2
    <2> QED
      BY <2>3, <2>4 DEF JobsAwaited, Awaited, D!JobsOf
  <1>18. SweepAgrees' /\ D!ClearedLinkServesNothing'
    BY <1>3 DEF DsarInv, SweepAgrees, D!ClearedLinkServesNothing, D!Served
  <1> QED
    BY <1>14, <1>15, <1>16, <1>17, <1>18 DEF DsarInv

LEMMA JobQueued ==
  ASSUME DsarInv, NEW w \in Worker, NEW j \in RowId, D!QueueJob(w, j)
  PROVE  DsarInv'
  <1>1. PICK d : d = call[w].dsar
    OBVIOUS
  <1> DEFINE row == [dsar |-> d, status |-> "queued"]
  <1>2. /\ call[w].stage = "queue" /\ j \notin DOMAIN jobs /\ jobs' = D!Inserted(jobs, j, row)
        /\ call' = [call EXCEPT ![w] = D!Idle]
        /\ UNCHANGED <<requests, erased, bundles, sweep, events, ledger, missed>>
    BY <1>1 DEF D!QueueJob, D!Is, D!End, D!files
  <1>3. d \in DOMAIN requests /\ IsEnded(d)
    BY <1>1, <1>2 DEF DsarInv, CallsPoint
  <1>4. row \in D!ExportJob /\ row.dsar = d /\ row.status = "queued"
    BY <1>3, DsarSizes DEF DsarInv, D!ExportJob
  <1>5. D!Idle \in D!Call \cup {D!Idle} /\ D!Idle.stage = "idle"
    BY DEF D!Idle
  <1> HIDE DEF row
  <1>6. /\ DOMAIN jobs' = DOMAIN jobs \cup {j} /\ jobs'[j] = row
        /\ \A k \in DOMAIN jobs : jobs'[k] = jobs[k]
    BY <1>2 DEF D!Inserted
  <1>7. /\ call' \in [Worker -> D!Call \cup {D!Idle}] /\ call'[w] = D!Idle
        /\ \A v \in Worker : v # w => call'[v] = call[v]
    BY <1>2, <1>5, CallSet DEF DsarInv
  <1>8. DsarTyped'
    <2>1. jobs' \in [DOMAIN jobs' -> D!ExportJob]
      BY <1>2, <1>4, <1>6 DEF D!Inserted, DsarInv, DsarTyped
    <2> QED
      BY <1>2, <1>6, <1>7, <2>1 DEF DsarInv, DsarTyped
  <1>9. CallsPoint'
    BY <1>2, <1>5, <1>7 DEF DsarInv, CallsPoint, IsOpen, IsEnded, Working
  <1>10. AdminAgrees'
    BY <1>2, <1>3, <1>4, <1>6 DEF DsarInv, AdminAgrees, D!JobEndsAsRequest
  <1>11. JobsAwaited'
    <2>1. \A x : /\ Awaited(x) => Awaited(x)'
                 /\ D!JobsOf(x) \subseteq D!JobsOf(x)' /\ (x = d => j \in D!JobsOf(x)')
                 /\ D!JobsOf(x)' \subseteq D!JobsOf(x) \cup {j}
      BY <1>2, <1>4, <1>6 DEF Awaited, D!JobsOf
    <2>2. ASSUME NEW k \in DOMAIN jobs', jobs'[k].status = "queued", NEW x, x = jobs'[k].dsar
          PROVE  Awaited(x)' \/ D!JobsOf(x)' # {k}
      <3>1. CASE k = j
        <4>1. x = d
          BY <1>4, <1>6, <2>2, <3>1
        <4>2. Awaited(d) \/ D!JobsOf(d) # {}
          BY <1>1, <1>2 DEF DsarInv, JobsAwaited
        <4>3. j \notin D!JobsOf(d)
          BY <1>2 DEF D!JobsOf
        <4> QED
          BY <2>1, <3>1, <4>1, <4>2, <4>3
      <3>2. CASE k # j
        <4>1. k \in DOMAIN jobs /\ jobs[k].status = "queued" /\ jobs[k].dsar = x
          BY <1>6, <2>2, <3>2
        <4>2. Awaited(x) \/ D!JobsOf(x) # {k}
          BY <4>1 DEF DsarInv, JobsAwaited, D!QueuedJobAwaited, Awaited
        <4>3. k \in D!JobsOf(x)
          BY <4>1 DEF D!JobsOf
        <4> QED
          BY <2>1, <4>2, <4>3
      <3> QED
        BY <3>1, <3>2
    <2>3. D!QueuedJobAwaited'
      BY <2>2 DEF D!QueuedJobAwaited, Awaited, D!JobsOf
    <2>4. ASSUME NEW v \in Worker, call'[v].stage = "queue", NEW x, x = call'[v].dsar
          PROVE  Awaited(x)' \/ D!JobsOf(x)' # {}
      <3>1. call'[v] = call[v]
        BY <1>5, <1>7, <2>4
      <3>2. Awaited(x) \/ D!JobsOf(x) # {}
        BY <2>4, <3>1 DEF DsarInv, JobsAwaited
      <3> QED
        BY <2>1, <3>2
    <2> QED
      BY <2>3, <2>4 DEF JobsAwaited, Awaited, D!JobsOf
  <1>12. SweepAgrees' /\ D!ClearedLinkServesNothing'
    BY <1>2 DEF DsarInv, SweepAgrees, D!ClearedLinkServesNothing, D!Served
  <1> QED
    BY <1>8, <1>9, <1>10, <1>11, <1>12 DEF DsarInv

\* The event goes to one job of its request, or finds none and is missed.
EventOutcome(e, d) ==
    /\ DOMAIN jobs' = DOMAIN jobs /\ jobs' \in [DOMAIN jobs -> D!ExportJob]
    /\ \A k \in DOMAIN jobs :
         /\ jobs'[k].dsar = jobs[k].dsar
         /\ \/ jobs'[k].status = jobs[k].status
            \/ jobs[k].dsar = d /\ jobs'[k].status = events[e].status
    /\ missed \subseteq missed' /\ missed' \subseteq missed \cup {d}
    /\ \/ d \in missed'
       \/ \E j \in D!JobsOf(d) : jobs'[j].status # "queued"

LEMMA EventTaken ==
  ASSUME DsarInv, NEW e \in DOMAIN events, NEW d, d = events[e].dsar, D!Consume(e)
  PROVE  EventOutcome(e, d)
  <1>1. jobs \in [DOMAIN jobs -> D!ExportJob]
    BY DEF DsarInv, DsarTyped
  <1>2. PICK state \in {"completed", "failed"} : state = events[e].status
    BY DEF DsarInv, DsarTyped
  <1>3. CASE missed' = missed \cup {d} /\ UNCHANGED jobs
    BY <1>1, <1>3 DEF EventOutcome
  <1>4. ASSUME NEW j \in D!JobsOf(d), UNCHANGED missed,
               jobs' = [jobs EXCEPT ![j].status = IF @ = "queued" THEN state ELSE @]
        PROVE  EventOutcome(e, d)
    <2> DEFINE row == [jobs[j] EXCEPT !.status = IF jobs[j].status = "queued" THEN state ELSE jobs[j].status]
    <2>1. jobs' = [jobs EXCEPT ![j] = row]
      BY <1>4
    <2>2. j \in DOMAIN jobs /\ jobs[j].dsar = d
      BY <1>4 DEF D!JobsOf
    <2>3. jobs[j] \in D!ExportJob
      BY <1>1, <2>2
    <2>4. /\ row \in D!ExportJob /\ row.dsar = jobs[j].dsar /\ row.status # "queued"
          /\ row.status = jobs[j].status \/ row.status = state
      BY <2>3 DEF D!ExportJob
    <2> HIDE DEF row
    <2>5. /\ DOMAIN jobs' = DOMAIN jobs /\ jobs' \in [DOMAIN jobs -> D!ExportJob] /\ jobs'[j] = row
          /\ \A k \in DOMAIN jobs : k # j => jobs'[k] = jobs[k]
      BY <1>1, <2>1, <2>2, <2>4
    <2> QED
      BY <1>2, <1>4, <2>2, <2>4, <2>5 DEF EventOutcome
  <1> QED
    BY <1>2, <1>3, <1>4 DEF D!Consume

LEMMA EventConsumed ==
  ASSUME DsarInv, NEW e \in DOMAIN events, D!Consume(e)
  PROVE  DsarInv'
  <1>1. PICK d : d = events[e].dsar
    OBVIOUS
  <1>2. ledger' = ledger \cup {e} /\ UNCHANGED <<requests, erased, bundles, sweep, events, call>>
    BY DEF D!Consume, D!files
  <1>3. /\ d \in DOMAIN requests /\ events[e].status = requests[d].status
        /\ events[e].status \in {"completed", "failed"}
    BY <1>1 DEF DsarInv, DsarTyped, AdminAgrees
  <1>4. EventOutcome(e, d)
    BY <1>1, EventTaken
  <1>5. DsarTyped'
    <2>1. DOMAIN jobs' \subseteq RowId /\ jobs' \in [DOMAIN jobs' -> D!ExportJob]
      BY <1>4 DEF DsarInv, DsarTyped, EventOutcome
    <2>2. missed' \subseteq DOMAIN requests
      BY <1>3, <1>4 DEF DsarInv, DsarTyped, EventOutcome
    <2> QED
      BY <1>2, <2>1, <2>2 DEF DsarInv, DsarTyped
  <1>6. CallsPoint'
    BY <1>2 DEF DsarInv, CallsPoint, IsOpen, IsEnded
  <1>7. AdminAgrees'
    BY <1>2, <1>3, <1>4 DEF DsarInv, AdminAgrees, D!JobEndsAsRequest, EventOutcome
  <1>8. JobsAwaited'
    <2>1. \A x : D!JobsOf(x)' = D!JobsOf(x)
      BY <1>4 DEF D!JobsOf, EventOutcome
    <2>2. \A x : x # d /\ Awaited(x) => Awaited(x)'
      BY <1>1, <1>2, <1>4 DEF Awaited, EventOutcome
    <2>3. Awaited(d)' \/ \E j \in D!JobsOf(d) : jobs'[j].status # "queued"
      BY <1>4 DEF Awaited, EventOutcome
    <2>4. ASSUME NEW k \in DOMAIN jobs', jobs'[k].status = "queued", NEW x, x = jobs'[k].dsar
          PROVE  Awaited(x)' \/ D!JobsOf(x)' # {k}
      <3>1. k \in DOMAIN jobs /\ jobs[k].status = "queued" /\ jobs[k].dsar = x
        BY <1>3, <1>4, <2>4 DEF EventOutcome
      <3>2. CASE x = d
        BY <2>1, <2>3, <2>4, <3>2
      <3>3. CASE x # d
        <4>1. Awaited(x) \/ D!JobsOf(x) # {k}
          BY <3>1 DEF DsarInv, JobsAwaited, D!QueuedJobAwaited, Awaited
        <4> QED
          BY <2>1, <2>2, <3>3, <4>1
      <3> QED
        BY <3>2, <3>3
    <2>5. D!QueuedJobAwaited'
      BY <2>4 DEF D!QueuedJobAwaited, Awaited, D!JobsOf
    <2>6. ASSUME NEW v \in Worker, call'[v].stage = "queue", NEW x, x = call'[v].dsar
          PROVE  Awaited(x)' \/ D!JobsOf(x)' # {}
      <3>1. Awaited(x) \/ D!JobsOf(x) # {}
        BY <1>2, <2>6 DEF DsarInv, JobsAwaited
      <3> QED
        BY <2>1, <2>2, <2>3, <3>1
    <2> QED
      BY <2>5, <2>6 DEF JobsAwaited, Awaited, D!JobsOf
  <1>9. SweepAgrees' /\ D!ClearedLinkServesNothing'
    BY <1>2 DEF DsarInv, SweepAgrees, D!ClearedLinkServesNothing, D!Served
  <1> QED
    BY <1>5, <1>6, <1>7, <1>8, <1>9 DEF DsarInv

LEMMA SweepSteps ==
  ASSUME DsarInv,
         D!SweepRead \/ D!SweepDies \/ \E d \in sweep.left : D!DeleteBundle(d) \/ D!ClearUrl(d)
  PROVE  DsarInv'
  <1>1. UNCHANGED <<erased, jobs, events, ledger, missed, call>>
    BY DEF D!SweepRead, D!SweepDies, D!DeleteBundle, D!ClearUrl, D!adminTables
  <1> DEFINE RowsKept ==
        /\ DOMAIN requests' = DOMAIN requests
        /\ \E n \in 0..MaxRequests : requests' \in [1..n -> D!Request]
        /\ \A d \in DOMAIN requests : /\ requests'[d].status = requests[d].status
                                      /\ requests'[d].type = requests[d].type
        /\ bundles' \subseteq bundles
  <1> DEFINE Listed ==
        /\ sweep' \in [left : SUBSET DOMAIN requests, deleted : SUBSET DOMAIN requests]
        /\ sweep'.deleted \subseteq sweep'.left /\ sweep'.deleted \cap bundles' = {}
        /\ \A d \in sweep'.left : requests[d].status = "completed"
  <1>2. RowsKept
    <2>1. PICK n \in 0..MaxRequests : requests \in [1..n -> D!Request]
      BY DEF DsarInv, DsarTyped
    <2>2. CASE UNCHANGED requests
      <3>1. bundles' \subseteq bundles
        BY <2>2 DEF D!SweepRead, D!SweepDies, D!DeleteBundle, D!ClearUrl
      <3> QED
        BY <2>1, <2>2, <3>1
    <2>3. ASSUME NEW d \in sweep.left, D!ClearUrl(d)
          PROVE  RowsKept
      <3> DEFINE row == [requests[d] EXCEPT !.url = FALSE]
      <3>1. requests' = [requests EXCEPT ![d] = row] /\ UNCHANGED bundles
        BY <2>3 DEF D!ClearUrl
      <3>2. d \in DOMAIN requests /\ d \in 1..n
        BY <2>1 DEF DsarInv, DsarTyped
      <3>3. row \in D!Request /\ row.status = requests[d].status /\ row.type = requests[d].type
        BY <2>1, <3>2 DEF D!Request
      <3> HIDE DEF row
      <3>4. requests' \in [1..n -> D!Request]
        BY <2>1, <3>1, <3>3
      <3> QED
        BY <2>1, <3>1, <3>2, <3>3, <3>4
    <2> QED
      BY <2>2, <2>3 DEF D!SweepRead, D!SweepDies, D!DeleteBundle
  <1>3. Listed
    <2>1. /\ sweep \in [left : SUBSET DOMAIN requests, deleted : SUBSET DOMAIN requests]
          /\ sweep.deleted \subseteq sweep.left /\ sweep.deleted \cap bundles = {}
          /\ \A d \in sweep.left : requests[d].status = "completed"
      BY DEF DsarInv, DsarTyped, SweepAgrees
    <2>2. CASE D!SweepRead
      <3>1. PICK old \in SUBSET {d \in DOMAIN requests : requests[d].status = "completed" /\ requests[d].url} :
              sweep' = [left |-> old, deleted |-> {}]
        BY <2>2 DEF D!SweepRead
      <3> QED
        BY <3>1
    <2>3. CASE D!SweepDies
      BY <2>3 DEF D!SweepDies
    <2>4. ASSUME NEW d \in sweep.left, D!DeleteBundle(d)
          PROVE  Listed
      <3>1. sweep' = [left |-> sweep.left, deleted |-> sweep.deleted \cup {d}] /\ bundles' = bundles \ {d}
        BY <2>1, <2>4 DEF D!DeleteBundle
      <3> QED
        BY <2>1, <3>1
    <2>5. ASSUME NEW d \in sweep.left, D!ClearUrl(d)
          PROVE  Listed
      BY <2>1, <2>5 DEF D!ClearUrl
    <2> QED
      BY <2>2, <2>3, <2>4, <2>5
  <1>4. DsarTyped'
    BY <1>1, <1>2, <1>3 DEF DsarInv, DsarTyped
  <1>5. CallsPoint'
    BY <1>1, <1>2 DEF DsarInv, CallsPoint, IsOpen, IsEnded
  <1>6. AdminAgrees'
    BY <1>1, <1>2 DEF DsarInv, AdminAgrees, D!JobEndsAsRequest
  <1>7. JobsAwaited'
    BY <1>1 DEF DsarInv, JobsAwaited, D!QueuedJobAwaited, Awaited, D!JobsOf
  <1>8. SweepAgrees'
    BY <1>2, <1>3 DEF DsarInv, DsarTyped, SweepAgrees
  <1>9. D!ClearedLinkServesNothing'
    <2>1. CASE UNCHANGED requests
      BY <1>2, <2>1 DEF DsarInv, D!ClearedLinkServesNothing, D!Served
    <2>2. ASSUME NEW d \in sweep.left, D!ClearUrl(d)
          PROVE  D!ClearedLinkServesNothing'
      <3>1. d \notin bundles'
        BY <1>2, <2>2 DEF DsarInv, SweepAgrees, D!ClearUrl
      <3>2. \A k \in DOMAIN requests : k # d => requests'[k] = requests[k]
        BY <2>2 DEF D!ClearUrl
      <3> QED
        BY <1>2, <3>1, <3>2 DEF DsarInv, D!ClearedLinkServesNothing, D!Served
    <2> QED
      BY <2>1, <2>2 DEF D!SweepRead, D!SweepDies, D!DeleteBundle
  <1> QED
    BY <1>4, <1>5, <1>6, <1>7, <1>8, <1>9 DEF DsarInv

LEMMA DsarStep ==
  ASSUME DsarInv, [D!Next]_(D!vars)
  PROVE  DsarInv'
  <1>1. CASE UNCHANGED D!vars
    <2>1. UNCHANGED <<requests, bundles, erased, jobs, events, ledger, call, sweep, missed>>
      BY <1>1 DEF D!vars
    <2>2. DsarTyped' /\ CallsPoint'
      BY <2>1 DEF DsarInv, DsarTyped, CallsPoint, IsOpen, IsEnded
    <2>3. AdminAgrees' /\ JobsAwaited'
      BY <2>1 DEF DsarInv, AdminAgrees, JobsAwaited, Awaited, D!JobEndsAsRequest, D!QueuedJobAwaited, D!JobsOf
    <2>4. SweepAgrees' /\ D!ClearedLinkServesNothing'
      BY <2>1 DEF DsarInv, SweepAgrees, D!ClearedLinkServesNothing, D!Served
    <2> QED
      BY <2>2, <2>3, <2>4 DEF DsarInv
  <1>2. ASSUME NEW w \in Worker, D!Abandon(w)
        PROVE  DsarInv'
    BY <1>2, CallEnded DEF D!Abandon, D!files, D!adminTables
  <1>3. CASE D!Next
    BY <1>2, <1>3, DsarAsked, ExportInserted, PersonErased, ExportProcessed, BundleWritten, StatementFailed,
       RequestRecovered, CompletionPublished, JobQueued, EventConsumed, SweepSteps DEF D!Next
  <1> QED
    BY <1>1, <1>3

LEMMA DsarInvariant == Spec => []DsarInv
  <1> QED
    BY PartsOfBehaviour, DsarStart, DsarStep, PTL DEF D!Spec

LEMMA DsarTypeOK ==
  ASSUME DsarInv
  PROVE  D!TypeOK
  BY DEF DsarInv, DsarTyped, SweepAgrees, D!TypeOK

\* An export job that ended tells how its request, or its file, ended; one
\* that is still queued will be told, or is one of the two cases the code
\* leaves queued: for every number of requests, jobs, events and calls.
THEOREM JobsEnd == Spec => []JobsEndAsTold
  <1>1. DsarInv /\ ExportsInv => JobsEndAsTold
    BY ExportsHold DEF DsarInv, AdminAgrees, JobsAwaited, JobsEndAsTold
  <1> QED
    BY <1>1, DsarInvariant, ExportsInvariant, PTL

\* A request whose link the retention sweep has cleared serves nothing,
\* wherever the sweep died and whatever calls were under way.
THEOREM ClearedLinks == Spec => []ClearedLinkServesNothing
  <1>1. DsarInv => ClearedLinkServesNothing
    BY DEF DsarInv, ClearedLinkServesNothing
  <1> QED
    BY <1>1, DsarInvariant, PTL

\* The tables keep their types, and the roles their unique index.
THEOREM TypeCorrect == Spec => []TypeOK
  <1>1. RolesInv /\ ConsentInv /\ DsarInv /\ ExportsInv => TypeOK
    BY RolesTypeOK, ConsentTypeOK, DsarTypeOK, ExportsHold DEF TypeOK
  <1> QED
    BY <1>1, RolesInvariant, ConsentInvariant, DsarInvariant, ExportsInvariant, PTL
=============================================================================
