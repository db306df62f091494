------------------------------- MODULE Outbox -------------------------------
(***************************************************************************)
(* One schema's transactional outbox: the table domain_events and the      *)
(* consumers that poll it, drainOutbox() of packages/outbox and the task   *)
(* audit_log_writer of apps/worker, run by overlapping jobs.               *)
(*                                                                         *)
(* A poll selects the first BatchSize unprocessed rows, then takes them in *)
(* order, each in a transaction of its own: the entry in the consumer's    *)
(* ledger, the handler's writes and processed_at commit or roll back       *)
(* together.  For drainOutbox the ledger is processed_events; for          *)
(* audit_log_writer it is admin.audit_log itself, keyed by the event's id. *)
(* Rows commit in any order of their ids.  A job may fail at an event, or  *)
(* die at any statement, and a processed row may be reset for a replay.    *)
(*                                                                         *)
(* The column `attempts` is left out: no statement reads it.               *)
(***************************************************************************)
EXTENDS Naturals, FiniteSets

CONSTANTS
    Consumer,     \* consumerName of every job that polls this table
    AuditWriter,  \* the one that is audit_log_writer, if any
    Job,          \* jobs under way at a time, of any consumer
    NoConsumer,   \* the consumer of an idle job
    Type,         \* event types
    Handled,      \* [Consumer -> SUBSET Type]: the keys of `handlers`
    Poison,       \* types whose handler never succeeds
    BatchSize,    \* LIMIT of the SELECT
    MaxEvents,    \* bound: rows ever written to the outbox
    MaxResets     \* bound: replays of a processed row

ASSUME ConsumerAssumption == NoConsumer \notin Consumer
ASSUME TypeAssumption == "none" \notin Type /\ Poison \subseteq Type
ASSUME HandledAssumption == Handled \in [Consumer -> SUBSET Type]
ASSUME BoundsAssumption == BatchSize \in Nat \ {0} /\ MaxEvents \in Nat /\ MaxResets \in Nat

\* Ids of rows: ULIDs, in their order.
Event == 1 .. MaxEvents

VARIABLES
    type,        \* the committed rows: their event type, or "none"
    processed,   \* rows with processed_at set
    ledger,      \* [Consumer -> SUBSET Event], the committed ledger entries
    effects,     \* [Consumer -> [Event -> Nat]]: committed runs of the handler
    resets,      \* replays so far
    pc,          \* each job's next statement
    consumer,    \* each job's consumer
    batch,       \* each job's rows still to take
    fresh        \* each job: has its open transaction inserted the ledger entry

table == <<type, processed, resets>>
outcome == <<ledger, effects>>
job == <<pc, consumer, batch, fresh>>
vars == <<table, outcome, job>>

InTransaction == {"handle", "mark", "commit"}

TypeOK ==
    /\ type \in [Event -> Type \cup {"none"}]
    /\ processed \in SUBSET Event
    /\ ledger \in [Consumer -> SUBSET Event]
    /\ effects \in [Consumer -> [Event -> Nat]]
    /\ resets \in 0 .. MaxResets
    /\ pc \in [Job -> {"idle", "next"} \cup InTransaction]
    /\ consumer \in [Job -> Consumer \cup {NoConsumer}]
    /\ batch \in [Job -> SUBSET Event]
    /\ fresh \in [Job -> BOOLEAN]
    /\ \A j \in Job : pc[j] = "idle" <=> batch[j] = {}

Init ==
    /\ type = [e \in Event |-> "none"]
    /\ processed = {}
    /\ ledger = [c \in Consumer |-> {}]
    /\ effects = [c \in Consumer |-> [e \in Event |-> 0]]
    /\ resets = 0
    /\ pc = [j \in Job |-> "idle"]
    /\ consumer = [j \in Job |-> NoConsumer]
    /\ batch = [j \in Job |-> {}]
    /\ fresh = [j \in Job |-> FALSE]

-----------------------------------------------------------------------------
(* The rows a poll selects. *)

\* Faulty variant: a high-water mark instead of processed_at IS NULL.
PastHighWaterMark == {e \in Event : type[e] # "none" /\ \A p \in processed : e > p}

\* WHERE processed_at IS NULL
Unprocessed == {e \in Event : type[e] # "none" /\ e \notin processed}

\* audit_log_writer selects audit-tagged rows only, drainOutbox selects all.
Selectable(c) ==
    {e \in Unprocessed : c = AuditWriter => type[e] \in Handled[c]}

\* ORDER BY id LIMIT batchSize
FirstRows(rows) == {e \in rows : Cardinality({d \in rows : d < e}) < BatchSize}

\* The row a job is at: batches are taken in the order of ids.
IsNext(j, e) == e \in batch[j] /\ \A d \in batch[j] : e <= d

\* Locks of open transactions: on the inserted ledger key and the updated row.
KeyLocked(c, e) ==
    \E j \in Job : pc[j] \in InTransaction /\ fresh[j] /\ consumer[j] = c /\ IsNext(j, e)
RowLocked(e) == \E j \in Job : pc[j] = "commit" /\ IsNext(j, e)

-----------------------------------------------------------------------------
(* Producers, and an operator who resets a row. *)

\* A use case commits with an event; its id was drawn when the row was written.
Publish(e, t) ==
    /\ type[e] = "none"
    /\ type' = [type EXCEPT ![e] = t]
    /\ UNCHANGED <<processed, resets, outcome, job>>

\* A data fix or a replay from a backup clears processed_at.
Reset(e) ==
    /\ e \in processed
    /\ ~RowLocked(e)
    /\ resets < MaxResets
    /\ resets' = resets + 1
    /\ processed' = processed \ {e}
    /\ UNCHANGED <<type, outcome, job>>

-----------------------------------------------------------------------------
(* A job. *)

\* Faulty variant: a poll that finds nothing does not return.
PollWithoutReturn(j, c) ==
    LET rows == FirstRows(Selectable(c))
    IN  /\ pc[j] = "idle"
        /\ pc' = [pc EXCEPT ![j] = "next"]
        /\ consumer' = [consumer EXCEPT ![j] = c]
        /\ batch' = [batch EXCEPT ![j] = rows]
        /\ UNCHANGED <<table, outcome, fresh>>

\* A run of the task selects its rows; with none there is nothing to do.
Poll(j, c) ==
    LET rows == FirstRows(Selectable(c))
    IN  /\ pc[j] = "idle"
        /\ pc' = [pc EXCEPT ![j] = IF rows = {} THEN "idle" ELSE "next"]
        /\ consumer' = [consumer EXCEPT ![j] = IF rows = {} THEN NoConsumer ELSE c]
        /\ batch' = [batch EXCEPT ![j] = rows]
        /\ UNCHANGED <<table, outcome, fresh>>

\* The job is through with row e.
MoveOn(j, e) ==
    /\ pc' = [pc EXCEPT ![j] = IF batch[j] = {e} THEN "idle" ELSE "next"]
    /\ consumer' = [consumer EXCEPT ![j] = IF batch[j] = {e} THEN NoConsumer ELSE @]
    /\ batch' = [batch EXCEPT ![j] = @ \ {e}]
    /\ fresh' = [fresh EXCEPT ![j] = FALSE]

\* A type without a handler: processed_at is set, outside any transaction.
SkipUnhandled(j, e) ==
    /\ pc[j] = "next" /\ IsNext(j, e)
    /\ type[e] \notin Handled[consumer[j]]
    /\ ~RowLocked(e)
    /\ processed' = processed \cup {e}
    /\ MoveOn(j, e)
    /\ UNCHANGED <<type, resets, outcome>>

\* Faulty variant: the entry is committed before the handler has run.
InsertLedgerAtOnce(j, e) ==
    /\ pc[j] = "next" /\ IsNext(j, e)
    /\ type[e] \in Handled[consumer[j]]
    /\ ~KeyLocked(consumer[j], e)
    /\ fresh' = [fresh EXCEPT ![j] = e \notin ledger[consumer[j]]]
    /\ ledger' = [ledger EXCEPT ![consumer[j]] = @ \cup {e}]
    /\ pc' = [pc EXCEPT ![j] = IF fresh'[j] THEN "handle" ELSE "mark"]
    /\ UNCHANGED <<table, effects, consumer, batch>>

\* Faulty variant: the entry is looked for, and inserted only later.
InsertLedgerUnlocked(j, e) ==
    /\ pc[j] = "next" /\ IsNext(j, e)
    /\ type[e] \in Handled[consumer[j]]
    /\ fresh' = [fresh EXCEPT ![j] = e \notin ledger[consumer[j]]]
    /\ pc' = [pc EXCEPT ![j] = IF fresh'[j] THEN "handle" ELSE "mark"]
    /\ UNCHANGED <<table, outcome, consumer, batch>>

\* BEGIN; INSERT INTO processed_events ... ON CONFLICT DO NOTHING: waits for an
\* uncommitted entry of the same key, and inserts unless one is committed.
InsertLedger(j, e) ==
    /\ pc[j] = "next" /\ IsNext(j, e)
    /\ type[e] \in Handled[consumer[j]]
    /\ ~KeyLocked(consumer[j], e)
    /\ fresh' = [fresh EXCEPT ![j] = e \notin ledger[consumer[j]]]
    /\ pc' = [pc EXCEPT ![j] = IF fresh'[j] THEN "handle" ELSE "mark"]
    /\ UNCHANGED <<table, outcome, consumer, batch>>

\* The handler's writes, on the connection of the transaction.
Handle(j, e) ==
    /\ pc[j] = "handle" /\ IsNext(j, e)
    /\ type[e] \notin Poison
    /\ pc' = [pc EXCEPT ![j] = "mark"]
    /\ UNCHANGED <<table, outcome, consumer, batch, fresh>>

MarkProcessed(j, e) ==
    /\ pc[j] = "mark" /\ IsNext(j, e)
    /\ ~RowLocked(e)
    /\ pc' = [pc EXCEPT ![j] = "commit"]
    /\ UNCHANGED <<table, outcome, consumer, batch, fresh>>

Commit(j, e) ==
    LET c == consumer[j]
    IN  /\ pc[j] = "commit" /\ IsNext(j, e)
        /\ processed' = processed \cup {e}
        /\ ledger' = [ledger EXCEPT ![c] = IF fresh[j] THEN @ \cup {e} ELSE @]
        /\ effects' = [effects EXCEPT ![c][e] = IF fresh[j] THEN @ + 1 ELSE @]
        /\ MoveOn(j, e)
        /\ UNCHANGED <<type, resets>>

\* Faulty variant: a row whose handler failed is set aside as processed.
GiveUp(j, e) ==
    /\ pc[j] \in InTransaction /\ IsNext(j, e)
    /\ ~RowLocked(e)
    /\ processed' = processed \cup {e}
    /\ MoveOn(j, e)
    /\ UNCHANGED <<type, resets, outcome>>

\* A statement or the handler throws: ROLLBACK, and on to the next row.
FailEvent(j, e) ==
    /\ IsNext(j, e)
    /\ pc[j] \in InTransaction \/ (pc[j] = "next" /\ type[e] \in Handled[consumer[j]])
    /\ MoveOn(j, e)
    /\ UNCHANGED <<table, outcome>>

\* The worker or its connection dies; PostgreSQL rolls back what was open.  An
\* unhandled row's markProcessed() that throws also ends the run like this.
Crash(j) ==
    /\ pc[j] # "idle"
    /\ pc' = [pc EXCEPT ![j] = "idle"]
    /\ consumer' = [consumer EXCEPT ![j] = NoConsumer]
    /\ batch' = [batch EXCEPT ![j] = {}]
    /\ fresh' = [fresh EXCEPT ![j] = FALSE]
    /\ UNCHANGED <<table, outcome>>

Step(j, e) ==
    \/ SkipUnhandled(j, e) \/ InsertLedger(j, e) \/ Handle(j, e)
    \/ MarkProcessed(j, e) \/ Commit(j, e)

Next ==
    \/ \E e \in Event, t \in Type : Publish(e, t)
    \/ \E e \in Event : Reset(e)
    \/ \E j \in Job, c \in Consumer : Poll(j, c)
    \/ \E j \in Job, e \in Event : Step(j, e) \/ FailEvent(j, e)
    \/ \E j \in Job : Crash(j)

\* A job takes its next step, which for a poisonous type is to fail.
Proceed(j) ==
    \E e \in Event :
        Step(j, e) \/ (type[e] \in Poison /\ pc[j] = "handle" /\ FailEvent(j, e))

\* A worker or its connection dies, or a transaction fails for no fault of its
\* event (a lost connection, a constraint, a timeout of the pool).  At the end of
\* a batch a step that proceeds leaves the same state behind: that is no fault.
Fault ==
    /\ (\E j \in Job : Crash(j)) \/ (\E j \in Job, e \in Event : FailEvent(j, e))
    /\ ~ \E j \in Job : Proceed(j)

\* A run that ends puts the task into the queue again, so each consumer is polled
\* again and again, and a job runs until it ends.  Faults are assumed to stop
\* for long enough at some time; the handler of a poisonous type fails for ever.
Fairness ==
    /\ \A c \in Consumer : WF_vars(\E j \in Job : Poll(j, c))
    /\ \A j \in Job : WF_vars(Proceed(j))
    /\ <>[][~Fault]_vars

Spec == Init /\ [][Next]_vars
FairSpec == Spec /\ Fairness

-----------------------------------------------------------------------------
(* Properties. *)

\* The package's promise: a consumer's handler takes effect at most once for an
\* event, however often the event is polled, by overlapping jobs, after a
\* crash, or after a replay of the row.
AppliedAtMostOnce == \A c \in Consumer, e \in Event : effects[c][e] <= 1

\* The ledger remembers exactly the events whose handler has taken effect: an
\* entry without the effect would make every later delivery skip it.
LedgerMatchesEffects ==
    \A c \in Consumer, e \in Event : e \in ledger[c] <=> effects[c][e] > 0

\* A row is done with only after every consumer that has a handler for it ran
\* it.  True of one consumer per table; the shared processed_at column does not
\* carry it for two.
ProcessedMeansHandled ==
    \A c \in Consumer : \A e \in processed : type[e] \in Handled[c] => e \in ledger[c]

PoisonRows == {e \in Event : type[e] \in Poison}

\* Every event is processed in the end, also one whose transaction commits after
\* events with later ids, and with failing events in front of it, as long as
\* those do not fill a whole batch.
EventuallyProcessed ==
    \A e \in Event :
        (type[e] # "none" /\ e \notin PoisonRows)
            ~> (e \in processed \/ Cardinality(PoisonRows) >= BatchSize)
=============================================================================
