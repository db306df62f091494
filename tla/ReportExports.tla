--------------------------- MODULE ReportExports ---------------------------
(***************************************************************************)
(* Grant reports: definitions that an org admin keeps, and the export jobs *)
(* made from them.  A job is queued, run and ended by the call that asked  *)
(* for it, in one transaction each; the rate of the definition is copied   *)
(* into the job when it is queued.  A custom job has no definition, and    *)
(* nothing that could render it yet.                                       *)
(***************************************************************************)
EXTENDS Naturals, Authz, Tables

CONSTANTS
    Person, Facts,   \* persons, and [Person -> set of Authz facts]
    DefinitionId,    \* bound: ids of report definitions
    Rate,            \* bound: hourly valuation rates
    ExportId,        \* bound: ids of export jobs
    Worker           \* calls that may overlap

VARIABLES
    definitions,  \* [created ids -> whether active, and the rate]
    exports,      \* [queued ids -> Export]
    told,         \* [queued ids -> type of the last event about the job]
    running       \* [Worker -> the stage of the call and its job]

vars == <<definitions, exports, told, running>>

Custom == 0   \* in the place of a rate: a job of type "custom"
Export == [status : {"queued", "running", "completed", "failed"}, by : Person,
           rate : Rate \cup {Custom}, file : {"none", "kept", "expired"}]
Idle == [stage |-> "idle"]

TypeOK ==
    /\ \E made \in SUBSET DefinitionId : definitions \in [made -> [active : BOOLEAN, rate : Rate]]
    /\ \E ids \in SUBSET ExportId :
         /\ exports \in [ids -> Export]
         /\ told \in [ids -> {"ExportJobQueued", "ExportJobCompleted", "ExportJobFailed"}]
    /\ running \in [Worker -> {Idle} \cup [stage : {"queue"}, by : Person, rate : Rate \cup {Custom}]
                                     \cup [stage : {"start", "render", "catch"}, export : ExportId]]

Init ==
    /\ definitions = <<>> /\ exports = <<>> /\ told = <<>>
    /\ running = [w \in Worker |-> Idle]

Subject(p) == [id |-> p, status |-> "active"]
Goto(w, s) == running' = [running EXCEPT ![w] = s]
-----------------------------------------------------------------------------
\* Definitions are written without a transaction around the decision.
CreateDefinition(c, d, rate) ==
    /\ Can(Subject(c), "report_definition.manage", InScope(Global), Facts[c])
    /\ d \notin DOMAIN definitions
    /\ definitions' = Inserted(definitions, d, [active |-> TRUE, rate |-> rate])
    /\ UNCHANGED <<exports, told, running>>

UpdateDefinition(c, d, active, rate) ==
    /\ Can(Subject(c), "report_definition.manage", InScope(Global), Facts[c])
    /\ definitions' = [definitions EXCEPT ![d] = [active |-> active, rate |-> rate]]
    /\ UNCHANGED <<exports, told, running>>

Request(w, c, rate) ==
    /\ running[w] = Idle
    /\ Can(Subject(c), "export.request", InScope(Global), Facts[c])
    /\ Goto(w, [stage |-> "queue", by |-> c, rate |-> rate])
    /\ UNCHANGED <<definitions, exports, told>>

ReadToRequest(w, c, d) == definitions[d].active /\ Request(w, c, definitions[d].rate)
ReadToRequestCustom(w, c) == Request(w, c, Custom)

QueueExport(w, x) == LET r == running[w] IN
    /\ r.stage = "queue" /\ x \notin DOMAIN exports
    /\ exports' = Inserted(exports, x, [status |-> "queued", by |-> r.by, rate |-> r.rate, file |-> "none"])
    /\ told' = Inserted(told, x, "ExportJobQueued")
    /\ Goto(w, [stage |-> "start", export |-> x])
    /\ UNCHANGED definitions

StartExport(w) == LET r == running[w] IN
    /\ r.stage = "start" /\ exports[r.export].status = "queued"
    /\ exports' = [exports EXCEPT ![r.export].status = "running"]
    /\ Goto(w, [r EXCEPT !.stage = "render"])
    /\ UNCHANGED <<definitions, told>>

\* The file is uploaded, then the job completed; an answer of the commit that
\* is lost is caught like any other error.
CompleteExport(w) == LET r == running[w] IN
    /\ r.stage = "render" /\ exports[r.export].rate # Custom
    /\ exports' = [exports EXCEPT ![r.export] = [@ EXCEPT !.status = "completed", !.file = "kept"]]
    /\ told' = [told EXCEPT ![r.export] = "ExportJobCompleted"]
    /\ Goto(w, Idle) \/ Goto(w, [r EXCEPT !.stage = "catch"])
    /\ UNCHANGED definitions

FailExport(w) == LET r == running[w] IN
    /\ r.stage \in {"render", "catch"}
    /\ exports' = [exports EXCEPT ![r.export].status = "failed"]
    /\ told' = [told EXCEPT ![r.export] = "ExportJobFailed"]
    /\ Goto(w, Idle)
    /\ UNCHANGED definitions

Dies(w) == running[w] # Idle /\ Goto(w, Idle) /\ UNCHANGED <<definitions, exports, told>>

Expire(x) ==
    /\ exports[x].file = "kept"
    /\ exports' = [exports EXCEPT ![x].file = "expired"]
    /\ UNCHANGED <<definitions, told, running>>
-----------------------------------------------------------------------------
\* The procedures of the admin router, for an org admin.
DefinitionRequest ==
    \E c \in Person, d \in DefinitionId, rate \in Rate :
        \/ CreateDefinition(c, d, rate)
        \/ d \in DOMAIN definitions /\ \E active \in BOOLEAN : UpdateDefinition(c, d, active, rate)
ExportRequest(w) ==
    \E c \in Person : ReadToRequestCustom(w, c) \/ \E d \in DOMAIN definitions : ReadToRequest(w, c, d)

Next ==
    \/ DefinitionRequest
    \/ \E w \in Worker :
         \/ ExportRequest(w) \/ (\E x \in ExportId : QueueExport(w, x))
         \/ StartExport(w) \/ CompleteExport(w) \/ FailExport(w) \/ Dies(w)
    \/ \E x \in DOMAIN exports : Expire(x)

Spec == Init /\ [][Next]_vars
-----------------------------------------------------------------------------
\* Whether getExportDownloadUrl signs a link: for the one who asked for the
\* export, or an org admin, until the file expires.
Downloadable(c, x) ==
    /\ Can(Subject(c), "export.download", OwnedBy(exports[x].by), Facts[c])
    /\ exports[x].status = "completed" /\ exports[x].file = "kept"

\* The last event about a job that ended tells how, also when a commit whose
\* answer was lost is followed by the failure; and nothing is downloaded that
\* was not last told to be completed.
ExportEndsAsTold ==
    \A x \in DOMAIN exports :
        /\ exports[x].status = "completed" <=> told[x] = "ExportJobCompleted"
        /\ exports[x].status = "failed" <=> told[x] = "ExportJobFailed"
        /\ \A c \in Person : Downloadable(c, x) => told[x] = "ExportJobCompleted"
=============================================================================
