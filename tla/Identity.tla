------------------------------ MODULE Identity ------------------------------
(***************************************************************************)
(* The parts of identity and admin that a person's account goes through:   *)
(* roles and erasure, consent, data-subject requests and report exports.   *)
(* Each keeps its own tables: a behaviour explores one of them, `focus`,   *)
(* and leaves the others in their initial states.                          *)
(***************************************************************************)
EXTENDS Naturals, Authz

CONSTANTS
    Person, Worker,
    RowId,                               \* bound: ids of assignments and jobs
    Founder, Dormant, Chapter, Grantable,
    Registrant, Asked, MaxRows,
    Facts, DataSubject, SelfService, MaxRequests, MaxEvents,
    DefinitionId, Rate

\* Ids are generated, never one of the words for nobody and the first row.
ASSUME PersonAssumption ==
    /\ Founder \in Person /\ Dormant \subseteq Person
    /\ DataSubject \subseteq Person /\ SelfService \subseteq Person
    /\ "nobody" \notin Person /\ "seed" \notin RowId
ASSUME GrantAssumption == \A g \in Grantable : g.scope \in {Global} \cup Chapter
ASSUME ConsentAssumption == Asked \subseteq {"terms_of_service", "guardian_consent", "newsletter"}
\* Registration writes two rows at once.
ASSUME BoundAssumption == MaxRows \in Nat \ {0, 1} /\ MaxRequests \in Nat /\ MaxEvents \in Nat

VARIABLES focus, status, roles, lead, job, late, standing, rows, request,
          requests, bundles, erased, jobs, events, ledger, call, sweep, missed,
          definitions, exports, told, running

R == INSTANCE RoleAssignments WITH RoleId <- RowId
C == INSTANCE ConsentRecords WITH Person <- Registrant
D == INSTANCE DsarRequests WITH JobId <- RowId
E == INSTANCE ReportExports WITH ExportId <- RowId
roleVars == <<status, roles, lead, job, late>>
consentVars == <<standing, rows, request>>
dsarVars == <<requests, bundles, erased, jobs, events, ledger, call, sweep, missed>>
exportVars == <<definitions, exports, told, running>>
vars == <<focus, roleVars, consentVars, dsarVars, exportVars>>

Init ==
    /\ focus \in {"roles", "consent", "requests", "exports"}
    /\ R!Init /\ C!Init /\ D!Init /\ E!Init

Next ==
    /\ UNCHANGED focus
    /\ \/ focus = "roles" /\ R!Next /\ UNCHANGED <<consentVars, dsarVars, exportVars>>
       \/ focus = "consent" /\ C!Next /\ UNCHANGED <<roleVars, dsarVars, exportVars>>
       \/ focus = "requests" /\ D!Next /\ UNCHANGED <<roleVars, consentVars, exportVars>>
       \/ focus = "exports" /\ E!Next /\ UNCHANGED <<roleVars, consentVars, dsarVars>>

Spec == Init /\ [][Next]_vars
-----------------------------------------------------------------------------
\* The rows are what the schema allows, and calls and sweeps well formed.
TypeOK == R!TypeOK /\ C!TypeOK /\ D!TypeOK /\ E!TypeOK
\* The properties of the modules.
RolesHaveSource == R!AuthorityHasSource
SweepCanErase == R!SweepCanErase
WithdrawalSticks == C!WithdrawalSticks
JobsEndAsTold == D!JobEndsAsRequest /\ D!QueuedJobAwaited /\ E!ExportEndsAsTold
ClearedLinkServesNothing == D!ClearedLinkServesNothing
RecoversItsOwnRequest == D!RecoversItsOwnRequest
=============================================================================
