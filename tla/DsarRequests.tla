---------------------------- MODULE DsarRequests ----------------------------
(***************************************************************************)
(* Data-subject requests.  Identity keeps a request per export or erasure  *)
(* and a bundle on disk per export; an org admin may orchestrate one, and  *)
(* admin then keeps an export job, which a consumer of identity's          *)
(* completion events brings to its end.  The retention sweep deletes old   *)
(* bundles.  Every write is a transaction of its own; a request may die    *)
(* between any two.                                                        *)
(***************************************************************************)
EXTENDS Naturals, FiniteSetsExt, Authz, Tables

CONSTANTS
    Person,          \* registered persons
    DataSubject,     \* bound: the persons whose data is asked for
    SelfService,     \* bound: the persons who ask without orchestration
    Facts,           \* [Person -> set of Authz facts], until they are erased
    MaxRequests,     \* bound: requests; an id is a number in the order of requestedAt
    JobId,           \* bound: export jobs
    MaxEvents,       \* bound: completion events
    Worker           \* requests that may overlap

VARIABLES
    requests,  \* [created ids -> Request]
    bundles,   \* ids whose file is on disk
    erased,    \* persons who are anonymized
    jobs,      \* [queued ids -> the dsar id and the status of the job]
    events,    \* [published event numbers -> its dsar id and the status it tells]
    ledger,    \* event numbers recorded as processed
    call,      \* [Worker -> Call]
    sweep,     \* the retention sweep: what it listed and what it deleted of it
    missed     \* history: ids whose event was consumed before their job was there

vars == <<requests, bundles, erased, jobs, events, ledger, call, sweep, missed>>
files == <<bundles, sweep>>
adminTables == <<jobs, events, ledger, missed>>

Id == 1..MaxRequests
None == 0
Request == [person : Person, type : {"export", "erasure"}, by : Person, url : BOOLEAN,
            status : {"pending", "processing", "completed", "failed"}]
ExportJob == [dsar : Id, status : {"queued", "completed", "failed"}]
Idle == [stage |-> "idle"]
\* `own` is the request this call created, `dsar` the one it goes on with.
Call == [stage : {"insert", "start", "bundle", "complete", "recover", "publish", "queue"},
         by : Person, person : Person, type : {"export", "erasure"}, orchestrated : BOOLEAN,
         dsar : Id \cup {None}, own : Id \cup {None}]

TypeOK ==
    /\ \E n \in 0..MaxRequests : requests \in [1..n -> Request]
    /\ bundles \subseteq DOMAIN requests /\ erased \subseteq Person
    /\ \E queued \in SUBSET JobId : jobs \in [queued -> ExportJob]
    /\ \E n \in 0..MaxEvents : /\ events \in [1..n -> [dsar : Id, status : {"completed", "failed"}]]
                               /\ ledger \subseteq 1..n
    /\ call \in [Worker -> Call \cup {Idle}]
    /\ sweep.deleted \subseteq sweep.left /\ sweep.left \subseteq DOMAIN requests
    /\ missed \subseteq DOMAIN requests

Init ==
    /\ requests = <<>> /\ bundles = {} /\ erased = {}
    /\ jobs = <<>> /\ events = <<>> /\ ledger = {} /\ missed = {}
    /\ call = [w \in Worker |-> Idle]
    /\ sweep = [left |-> {}, deleted |-> {}]

Subject(p) == [id |-> p, status |-> IF p \in erased THEN "anonymized" ELSE "active"]
FactsOf(p) == IF p \in erased THEN {} ELSE Facts[p]
NextId == Cardinality(DOMAIN requests) + 1
NextEvent == Cardinality(DOMAIN events) + 1
To(w, stage) == call' = [call EXCEPT ![w].stage = stage]
End(w) == call' = [call EXCEPT ![w] = Idle]
\* Where submitDsarRequest goes on, and where a self-service request ends.
Returns(w, stage) == IF call[w].orchestrated THEN To(w, stage) ELSE End(w)
Is(w, stage) == call[w].stage = stage
-----------------------------------------------------------------------------
OpenRequests(p, type) ==
    {d \in DOMAIN requests : /\ requests[d].person = p /\ requests[d].type = type
                             /\ requests[d].status \in {"pending", "processing"}}

Begin(w, stage, c, p, type, orchestrated) ==
    /\ call[w] = Idle
    /\ orchestrated => Can(Subject(c), "dsar.orchestrate", InScope(Global), FactsOf(c))
    /\ call' = [call EXCEPT ![w] = [stage |-> stage, by |-> c, person |-> p, type |-> type,
                                    orchestrated |-> orchestrated, dsar |-> None, own |-> None]]
    /\ UNCHANGED <<requests, erased, files, adminTables>>

\* requestDataExport: refused while a request of the person is open.
ReadToExport(w, c, p, orchestrated) ==
    /\ Can(Subject(c), "dsar.export.request", OwnedBy(p), FactsOf(c))
    /\ OpenRequests(p, "export") = {}
    /\ Begin(w, "insert", c, p, "export", orchestrated)

\* A refusal ends a self-service request; an orchestrated one goes to the
\* catch of submitDsarRequest.
RefuseExport(w, c, p) ==
    /\ OpenRequests(p, "export") # {}
    /\ Begin(w, "recover", c, p, "export", TRUE)

ReadToErase(w, c, p, orchestrated) ==
    /\ Can(Subject(c), "dsar.erasure.request", OwnedBy(p), FactsOf(c))
    /\ p \notin erased /\ OpenRequests(p, "erasure") = {}
    /\ Begin(w, "insert", c, p, "erasure", orchestrated)

Insert(w, type, status) == LET c == call[w] IN
    /\ Is(w, "insert") /\ c.type = type /\ NextId \in Id
    /\ requests' = Inserted(requests, NextId, [person |-> c.person, type |-> type, by |-> c.by,
                                                url |-> FALSE, status |-> status])

InsertExport(w) ==
    /\ Insert(w, "export", "pending")
    /\ call' = [call EXCEPT ![w] = [@ EXCEPT !.stage = "start", !.dsar = NextId, !.own = NextId]]
    /\ UNCHANGED <<erased, files, adminTables>>

\* requestErasure: created, person anonymized and completed in one.
Erase(w) ==
    /\ Insert(w, "erasure", "completed")
    /\ erased' = erased \cup {call[w].person}
    /\ IF call[w].orchestrated
       THEN call' = [call EXCEPT ![w] = [@ EXCEPT !.stage = "publish", !.dsar = NextId, !.own = NextId]]
       ELSE End(w)
    /\ UNCHANGED <<files, adminTables>>

SetStatus(w, status) == requests' = [requests EXCEPT ![call[w].dsar].status = status]

\* processExport, in the same call: processing, the file, completed.
StartExport(w) ==
    /\ Is(w, "start") /\ SetStatus(w, "processing") /\ To(w, "bundle")
    /\ UNCHANGED <<erased, files, adminTables>>

WriteBundle(w) ==
    /\ Is(w, "bundle") /\ bundles' = bundles \cup {call[w].dsar} /\ To(w, "complete")
    /\ UNCHANGED <<requests, erased, sweep, adminTables>>

CompleteExport(w) ==
    /\ Is(w, "complete")
    /\ requests' = [requests EXCEPT ![call[w].dsar] = [@ EXCEPT !.status = "completed", !.url = TRUE]]
    /\ Returns(w, "publish")
    /\ UNCHANGED <<erased, files, adminTables>>

\* The catch sets only the status: when the answer to the completion was
\* lost, the link it had written stays.
FailExport(w) ==
    /\ call[w].stage \in {"bundle", "complete"}
    /\ \E url \in {FALSE, Is(w, "complete")} :
         requests' = [requests EXCEPT ![call[w].dsar] = [@ EXCEPT !.status = "failed", !.url = url]]
    /\ Returns(w, "recover")
    /\ UNCHANGED <<erased, files, adminTables>>

\* The database refuses a statement before the export has its own catch:
\* what was thrown goes to the catch of submitDsarRequest.
StatementFails(w) ==
    /\ call[w].stage \in {"insert", "start"} /\ Returns(w, "recover")
    /\ UNCHANGED <<requests, erased, files, adminTables>>

\* The process dies, or an error leaves no row to recover.
Abandon(w) == call[w] # Idle /\ End(w) /\ UNCHANGED <<requests, erased, files, adminTables>>
-----------------------------------------------------------------------------
\* submitDsarRequest's catch, whatever was thrown: the latest failed request
\* of the same person, type and requester.
Recover(w) == LET c == call[w]
                  failed == {d \in DOMAIN requests :
                               /\ requests[d].person = c.person /\ requests[d].type = c.type
                               /\ requests[d].by = c.by /\ requests[d].status = "failed"}
    IN /\ Is(w, "recover") /\ failed # {}
       /\ call' = [call EXCEPT ![w] = [@ EXCEPT !.stage = "publish", !.dsar = Max(failed)]]
       /\ UNCHANGED <<requests, erased, files, adminTables>>

PublishCompletion(w) ==
    /\ Is(w, "publish") /\ NextEvent <= MaxEvents
    /\ events' = Inserted(events, NextEvent,
                         [dsar |-> call[w].dsar, status |-> requests[call[w].dsar].status])
    /\ To(w, "queue")
    /\ UNCHANGED <<requests, erased, files, jobs, ledger, missed>>

\* orchestrateDsarRequest writes the job after the event is out.
QueueJob(w, j) ==
    /\ Is(w, "queue") /\ j \notin DOMAIN jobs
    /\ jobs' = Inserted(jobs, j, [dsar |-> call[w].dsar, status |-> "queued"])
    /\ End(w)
    /\ UNCHANGED <<requests, erased, files, events, ledger, missed>>

JobsOf(d) == {j \in DOMAIN jobs : jobs[j].dsar = d}

\* Mutant: any completion event is good news.
ConsumeAsCompleted(e) ==
    /\ e \notin ledger
    /\ ledger' = ledger \cup {e}
    /\ \/ /\ JobsOf(events[e].dsar) = {} /\ missed' = missed \cup {events[e].dsar}
          /\ UNCHANGED jobs
       \/ \E j \in JobsOf(events[e].dsar) :
            jobs' = [jobs EXCEPT ![j].status = "completed"] /\ UNCHANGED missed
    /\ UNCHANGED <<requests, erased, files, events, call>>

\* consumeIdentityDsarEvents: once per event, some job of the request (there
\* is no order), and only while that job is not at its end.
Consume(e) ==
    /\ e \notin ledger
    /\ ledger' = ledger \cup {e}
    /\ \/ /\ JobsOf(events[e].dsar) = {} /\ missed' = missed \cup {events[e].dsar}
          /\ UNCHANGED jobs
       \/ \E j \in JobsOf(events[e].dsar) :
            /\ jobs' = [jobs EXCEPT ![j].status = IF @ = "queued" THEN events[e].status ELSE @]
            /\ UNCHANGED missed
    /\ UNCHANGED <<requests, erased, files, events, call>>
-----------------------------------------------------------------------------
\* sweepExpiredDsarExportBundles lists the completed requests that are older
\* than the cutoff (any of them may be), then takes them one by one.
SweepRead ==
    /\ sweep.left = {}
    /\ \E old \in SUBSET {d \in DOMAIN requests : requests[d].status = "completed" /\ requests[d].url} :
         old # {} /\ sweep' = [left |-> old, deleted |-> {}]
    /\ UNCHANGED <<requests, bundles, erased, adminTables, call>>

DeleteBundle(d) ==
    /\ d \notin sweep.deleted
    /\ bundles' = bundles \ {d} /\ sweep' = [sweep EXCEPT !.deleted = @ \cup {d}]
    /\ UNCHANGED <<requests, erased, adminTables, call>>

\* Mutant: the link is cleared before the file is deleted.
ClearUrlFirst(d) ==
    /\ requests' = [requests EXCEPT ![d].url = FALSE]
    /\ UNCHANGED <<bundles, sweep, erased, adminTables, call>>

ClearUrl(d) ==
    /\ d \in sweep.deleted
    /\ requests' = [requests EXCEPT ![d].url = FALSE]
    /\ sweep' = [left |-> sweep.left \ {d}, deleted |-> sweep.deleted \ {d}]
    /\ UNCHANGED <<bundles, erased, adminTables, call>>

SweepDies == /\ sweep.left # {} /\ sweep' = [left |-> {}, deleted |-> {}]
             /\ UNCHANGED <<requests, bundles, erased, adminTables, call>>
-----------------------------------------------------------------------------
\* dsar.requestExport, dsar.requestErasure and exportJob.orchestrateDsar.
SelfServiceRequest(w) ==
    \E c \in SelfService, p \in DataSubject : ReadToExport(w, c, p, FALSE) \/ ReadToErase(w, c, p, FALSE)
OrchestrateRequest(w) ==
    \E c \in Person, p \in DataSubject :
        ReadToExport(w, c, p, TRUE) \/ RefuseExport(w, c, p) \/ ReadToErase(w, c, p, TRUE)

Next ==
    \/ \E w \in Worker :
         \/ SelfServiceRequest(w) \/ OrchestrateRequest(w)
         \/ InsertExport(w) \/ Erase(w) \/ StartExport(w) \/ WriteBundle(w)
         \/ CompleteExport(w) \/ FailExport(w) \/ StatementFails(w) \/ Abandon(w)
         \/ Recover(w) \/ PublishCompletion(w) \/ (\E j \in JobId : QueueJob(w, j))
    \/ \E e \in DOMAIN events : Consume(e)
    \/ SweepRead \/ SweepDies
    \/ \E d \in sweep.left : DeleteBundle(d) \/ ClearUrl(d)

Spec == Init /\ [][Next]_vars
-----------------------------------------------------------------------------
\* Admin never looks into identity's table: what it learns by events must
\* agree with it.  A job that ended tells how its request ended.
JobEndsAsRequest ==
    \A j \in DOMAIN jobs : jobs[j].status # "queued" => jobs[j].status = requests[jobs[j].dsar].status

\* A queued job is still going to be told: its event is not consumed yet.  Two
\* ways out are the code's, and then it is queued for ever: the event was
\* consumed before the job's row was there, or the event went to another job
\* of the same request.
QueuedJobAwaited ==
    \A j \in DOMAIN jobs : jobs[j].status = "queued" =>
        \/ \E e \in DOMAIN events \ ledger : events[e].dsar = jobs[j].dsar
        \/ jobs[j].dsar \in missed
        \/ JobsOf(jobs[j].dsar) # {j}

\* What the download route answers with, for a link that has not expired.
Served(d) == requests[d].type = "export" /\ requests[d].status = "completed" /\ d \in bundles

\* Once the retention sweep has cleared a request's link it is not listed
\* again: its personal data must be gone from the disk, wherever the sweep
\* died, and links already given out find nothing.
ClearedLinkServesNothing ==
    \A d \in DOMAIN requests :
        requests[d].type = "export" /\ requests[d].status = "completed" /\ ~requests[d].url => ~Served(d)

\* submitDsarRequest says of the request it recovers that this call created
\* it, and that a refused call has nothing to correlate and throws again.
RecoversItsOwnRequest ==
    \A w \in Worker : Is(w, "publish") => call[w].dsar = call[w].own
=============================================================================
