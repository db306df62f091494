---------------------------- MODULE OutboxProofs ----------------------------
(***************************************************************************)
(* Proofs about the outbox, for any number of consumers, jobs, rows and    *)
(* replays, any batch size and any assignment of handlers.                 *)
(*                                                                         *)
(* The argument: an open transaction that inserted the ledger entry of a   *)
(* row is the only one that did, for its consumer (KeyExclusive), and the  *)
(* entry is not committed yet (KeyOpen); one that inserted nothing found   *)
(* the entry committed (KeySeen).  So a commit either writes the entry and *)
(* the effect together, for the first time, or neither.                    *)
(***************************************************************************)
EXTENDS Outbox, TLAPS

\* Job j has a transaction open on row e.
TxAt(j, e) == pc[j] \in InTransaction /\ IsNext(j, e)

HasConsumer == \A j \in Job : pc[j] # "idle" => consumer[j] \in Consumer

KeyOpen ==
    \A j \in Job, e \in Event : TxAt(j, e) /\ fresh[j] => e \notin ledger[consumer[j]]

KeySeen ==
    \A j \in Job, e \in Event : TxAt(j, e) /\ ~fresh[j] => e \in ledger[consumer[j]]

KeyExclusive ==
    \A j, k \in Job, e \in Event :
        /\ j # k
        /\ TxAt(j, e) /\ fresh[j]
        /\ TxAt(k, e) /\ fresh[k]
        => consumer[j] # consumer[k]

IInv ==
    /\ TypeOK
    /\ HasConsumer
    /\ KeyOpen
    /\ KeySeen
    /\ KeyExclusive
    /\ LedgerMatchesEffects
    /\ AppliedAtMostOnce

USE DEF Event, InTransaction

-----------------------------------------------------------------------------
(* The shape of a step. *)

\* The row a job is at is determined: ids are ordered.
LEMMA NextIsUnique ==
    ASSUME TypeOK, NEW j \in Job, NEW e \in Event, NEW f \in Event,
           IsNext(j, e), IsNext(j, f)
    PROVE  e = f
BY DEF IsNext, TypeOK

\* A job that moves on, dies or polls has no transaction open afterwards, and
\* leaves the other jobs alone.
Ends(j) ==
    /\ pc' \in [Job -> {"idle", "next"} \cup InTransaction]
    /\ pc'[j] \in {"idle", "next"}
    /\ \A k \in Job \ {j} :
          /\ pc'[k] = pc[k] /\ consumer'[k] = consumer[k]
          /\ batch'[k] = batch[k] /\ fresh'[k] = fresh[k]

\* Then every transaction still open was open before, on the same row.
LEMMA EndsFrame ==
    ASSUME NEW j \in Job, Ends(j)
    PROVE  \A k \in Job, e \in Event :
               TxAt(k, e)' => /\ k # j /\ TxAt(k, e)
                              /\ consumer'[k] = consumer[k]
                              /\ fresh'[k] = fresh[k]
BY DEF Ends, TxAt, IsNext

\* MoveOn keeps the types of the job's variables and ends its transaction.
LEMMA MoveOnEnds ==
    ASSUME TypeOK, HasConsumer, NEW j \in Job, NEW e \in Event,
           pc[j] # "idle", IsNext(j, e), MoveOn(j, e)
    PROVE  /\ Ends(j)
           /\ pc' \in [Job -> {"idle", "next"} \cup InTransaction]
           /\ consumer' \in [Job -> Consumer \cup {NoConsumer}]
           /\ batch' \in [Job -> SUBSET Event]
           /\ fresh' \in [Job -> BOOLEAN]
           /\ \A k \in Job : pc'[k] = "idle" <=> batch'[k] = {}
           /\ HasConsumer'
<1>1. e \in batch[j]
  BY DEF IsNext
<1>2. /\ pc' \in [Job -> {"idle", "next"} \cup InTransaction]
      /\ consumer' \in [Job -> Consumer \cup {NoConsumer}]
      /\ batch' \in [Job -> SUBSET Event]
      /\ fresh' \in [Job -> BOOLEAN]
  BY DEF MoveOn, TypeOK
<1>3. Ends(j)
  BY <1>2 DEF MoveOn, TypeOK, Ends
<1>4. \A k \in Job : pc'[k] = "idle" <=> batch'[k] = {}
  BY <1>1 DEF MoveOn, TypeOK
<1>5. HasConsumer'
  BY DEF MoveOn, TypeOK, HasConsumer
<1> QED
  BY <1>2, <1>3, <1>4, <1>5

\* A step that ends transactions and commits nothing preserves the invariant's
\* conjuncts about keys and effects.
LEMMA EndsKeepsKeys ==
    ASSUME IInv, NEW j \in Job, Ends(j), UNCHANGED outcome
    PROVE  /\ KeyOpen' /\ KeySeen' /\ KeyExclusive'
           /\ LedgerMatchesEffects' /\ AppliedAtMostOnce'
<1> USE EndsFrame DEF IInv, outcome
<1>1. KeyOpen'
  BY DEF KeyOpen
<1>2. KeySeen'
  BY DEF KeySeen
<1>3. KeyExclusive'
  BY DEF KeyExclusive
<1>4. LedgerMatchesEffects' /\ AppliedAtMostOnce'
  BY DEF LedgerMatchesEffects, AppliedAtMostOnce
<1> QED
  BY <1>1, <1>2, <1>3, <1>4

-----------------------------------------------------------------------------
(* The invariant is inductive: one lemma for each kind of step. *)

LEMMA InvariantInit == Init => IInv
<1> SUFFICES ASSUME Init PROVE IInv
  OBVIOUS
<1> USE BoundsAssumption, ConsumerAssumption DEF Init
<1>1. TypeOK
  BY DEF TypeOK
<1>2. HasConsumer /\ KeyOpen /\ KeySeen /\ KeyExclusive
  BY DEF HasConsumer, KeyOpen, KeySeen, KeyExclusive, TxAt
<1>3. LedgerMatchesEffects /\ AppliedAtMostOnce
  BY DEF LedgerMatchesEffects, AppliedAtMostOnce
<1> QED
  BY <1>1, <1>2, <1>3 DEF IInv

\* Producers and replays touch neither jobs nor ledgers.
LEMMA TableStep ==
    ASSUME IInv, NEW e \in Event,
           (\E t \in Type : Publish(e, t)) \/ Reset(e)
    PROVE  IInv'
<1>1. UNCHANGED <<outcome, job>>
  BY DEF Publish, Reset
<1>2. type' \in [Event -> Type \cup {"none"}] /\ processed' \in SUBSET Event
      /\ resets' \in 0 .. MaxResets
  <2> USE DEF IInv, TypeOK
  <2>1. CASE \E t \in Type : Publish(e, t)
    <3>1. PICK t \in Type : Publish(e, t)
      BY <2>1
    <3>2. type' = [type EXCEPT ![e] = t] /\ UNCHANGED <<processed, resets>>
      BY <3>1 DEF Publish
    <3> QED
      BY <3>2
  <2>2. CASE Reset(e)
    BY <2>2, BoundsAssumption DEF Reset
  <2> QED
    BY <2>1, <2>2
<1>3. \A j \in Job, f \in Event : TxAt(j, f)' <=> TxAt(j, f)
  BY <1>1 DEF TxAt, IsNext, job
<1> USE <1>1, <1>3 DEF IInv, outcome, job
<1>4. TypeOK'
  BY <1>2 DEF TypeOK
<1>5. HasConsumer' /\ KeyOpen' /\ KeySeen'
  BY DEF HasConsumer, KeyOpen, KeySeen
<1>6. KeyExclusive'
  BY DEF KeyExclusive
<1>7. LedgerMatchesEffects' /\ AppliedAtMostOnce'
  BY DEF LedgerMatchesEffects, AppliedAtMostOnce
<1> QED
  BY <1>4, <1>5, <1>6, <1>7

LEMMA PollStep ==
    ASSUME IInv, NEW j \in Job, NEW c \in Consumer, Poll(j, c)
    PROVE  IInv'
<1> DEFINE rows == FirstRows(Selectable(c))
<1>1. rows \subseteq Event
  BY DEF FirstRows, Selectable, Unprocessed
<1>2. UNCHANGED <<table, outcome, fresh>>
  BY DEF Poll
<1>3. /\ pc' = [pc EXCEPT ![j] = IF rows = {} THEN "idle" ELSE "next"]
      /\ consumer' = [consumer EXCEPT ![j] = IF rows = {} THEN NoConsumer ELSE c]
      /\ batch' = [batch EXCEPT ![j] = rows]
  BY DEF Poll
<1> HIDE DEF rows
<1>4. TypeOK'
  BY <1>1, <1>2, <1>3 DEF IInv, TypeOK, table, outcome
<1>5. HasConsumer'
  BY <1>3 DEF IInv, TypeOK, HasConsumer
<1>6. Ends(j)
  BY <1>2, <1>3 DEF IInv, TypeOK, Ends
<1> QED
  BY <1>2, <1>4, <1>5, <1>6, EndsKeepsKeys DEF IInv

LEMMA CrashStep ==
    ASSUME IInv, NEW j \in Job, Crash(j)
    PROVE  IInv'
<1>1. TypeOK'
  BY DEF IInv, TypeOK, Crash, table, outcome
<1>2. HasConsumer'
  BY DEF IInv, TypeOK, HasConsumer, Crash
<1>3. Ends(j)
  BY DEF IInv, TypeOK, Ends, Crash
<1> QED
  BY <1>1, <1>2, <1>3, EndsKeepsKeys DEF IInv, Crash

\* A skipped row and a failed transaction leave no trace in the ledger.
LEMMA NoEffectStep ==
    ASSUME IInv, NEW j \in Job, NEW e \in Event,
           SkipUnhandled(j, e) \/ FailEvent(j, e)
    PROVE  IInv'
<1>1. /\ pc[j] # "idle" /\ IsNext(j, e) /\ MoveOn(j, e)
      /\ UNCHANGED <<type, resets, outcome>>
      /\ processed' \in SUBSET Event
  BY DEF SkipUnhandled, FailEvent, table, IInv, TypeOK
<1>2. Ends(j) /\ HasConsumer' /\ TypeOK'
  BY <1>1, MoveOnEnds DEF IInv, TypeOK, outcome
<1> QED
  BY <1>1, <1>2, EndsKeepsKeys DEF IInv

\* INSERT ... ON CONFLICT DO NOTHING: it inserts only if no entry is committed,
\* and only after every transaction that inserted one has ended.
LEMMA InsertLedgerStep ==
    ASSUME IInv, NEW j \in Job, NEW e \in Event, InsertLedger(j, e)
    PROVE  IInv'
<1> DEFINE c == consumer[j]
<1>1. /\ pc[j] = "next" /\ IsNext(j, e)
      /\ ~KeyLocked(c, e)
      /\ fresh' = [fresh EXCEPT ![j] = e \notin ledger[c]]
      /\ pc' = [pc EXCEPT ![j] = IF fresh'[j] THEN "handle" ELSE "mark"]
      /\ UNCHANGED <<table, outcome, consumer, batch>>
  BY DEF InsertLedger
<1>2. TypeOK'
  BY <1>1 DEF IInv, TypeOK, table, outcome
<1>3. HasConsumer'
  BY <1>1 DEF IInv, TypeOK, HasConsumer
<1>4. fresh'[j] = (e \notin ledger[c])
  BY <1>1 DEF IInv, TypeOK
<1>5. \A k \in Job \ {j}, f \in Event :
          /\ TxAt(k, f)' <=> TxAt(k, f)
          /\ fresh'[k] = fresh[k]
  BY <1>1 DEF IInv, TypeOK, TxAt, IsNext
<1>6. \A f \in Event : TxAt(j, f)' => f = e
  BY <1>1, NextIsUnique DEF IInv, TxAt, IsNext
<1>7. KeyOpen'
  BY <1>1, <1>4, <1>5, <1>6 DEF IInv, KeyOpen, outcome
<1>8. KeySeen'
  BY <1>1, <1>4, <1>5, <1>6 DEF IInv, KeySeen, outcome
<1>9. \A k \in Job \ {j} : TxAt(k, e) /\ fresh[k] => consumer[k] # c
  BY <1>1 DEF KeyLocked, TxAt
<1>10. KeyExclusive'
  BY <1>1, <1>5, <1>6, <1>9 DEF IInv, KeyExclusive
<1>11. LedgerMatchesEffects' /\ AppliedAtMostOnce'
  BY <1>1 DEF IInv, LedgerMatchesEffects, AppliedAtMostOnce, outcome
<1> QED
  BY <1>2, <1>3, <1>7, <1>8, <1>10, <1>11 DEF IInv

\* Statements inside the transaction keep its key.
LEMMA InsideStep ==
    ASSUME IInv, NEW j \in Job, NEW e \in Event,
           Handle(j, e) \/ MarkProcessed(j, e)
    PROVE  IInv'
<1>1. /\ pc[j] \in InTransaction /\ IsNext(j, e)
      /\ \E s \in InTransaction : pc' = [pc EXCEPT ![j] = s]
      /\ UNCHANGED <<table, outcome, consumer, batch, fresh>>
  BY DEF Handle, MarkProcessed
<1>2. TypeOK'
  BY <1>1 DEF IInv, TypeOK, table, outcome
<1>3. HasConsumer'
  BY <1>1 DEF IInv, TypeOK, HasConsumer
<1>4. \A k \in Job, f \in Event : TxAt(k, f)' <=> TxAt(k, f)
  BY <1>1 DEF IInv, TypeOK, TxAt, IsNext
<1>5. KeyOpen' /\ KeySeen'
  BY <1>1, <1>4 DEF IInv, KeyOpen, KeySeen, outcome
<1>6. KeyExclusive'
  BY <1>1, <1>4 DEF IInv, KeyExclusive
<1>7. LedgerMatchesEffects' /\ AppliedAtMostOnce'
  BY <1>1 DEF IInv, LedgerMatchesEffects, AppliedAtMostOnce, outcome
<1> QED
  BY <1>2, <1>3, <1>5, <1>6, <1>7 DEF IInv

\* COMMIT: entry and effect together, and only for the first time.
LEMMA CommitStep ==
    ASSUME IInv, NEW j \in Job, NEW e \in Event, Commit(j, e)
    PROVE  IInv'
<1> DEFINE c == consumer[j]
<1>1. /\ pc[j] = "commit" /\ IsNext(j, e)
      /\ processed' = processed \cup {e}
      /\ ledger' = [ledger EXCEPT ![c] = IF fresh[j] THEN @ \cup {e} ELSE @]
      /\ effects' = [effects EXCEPT ![c][e] = IF fresh[j] THEN @ + 1 ELSE @]
      /\ MoveOn(j, e)
      /\ UNCHANGED <<type, resets>>
  BY DEF Commit
<1>2. c \in Consumer /\ TxAt(j, e)
  BY <1>1 DEF IInv, HasConsumer, TxAt
<1> HIDE DEF c
<1>3. ledger' \in [Consumer -> SUBSET Event] /\ effects' \in [Consumer -> [Event -> Nat]]
  <2> DEFINE entries == IF fresh[j] THEN ledger[c] \cup {e} ELSE ledger[c]
             n == IF fresh[j] THEN effects[c][e] + 1 ELSE effects[c][e]
  <2>1. /\ ledger \in [Consumer -> SUBSET Event]
        /\ effects \in [Consumer -> [Event -> Nat]]
    BY DEF IInv, TypeOK
  <2>2. entries \in SUBSET Event /\ n \in Nat
    <3>1. ledger[c] \in SUBSET Event /\ effects[c][e] \in Nat
      BY <1>2, <2>1
    <3> QED
      BY <3>1
  <2>3. /\ ledger' = [ledger EXCEPT ![c] = entries]
        /\ effects' = [effects EXCEPT ![c] = [effects[c] EXCEPT ![e] = n]]
    BY <1>1, <1>2, <2>1
  <2> HIDE DEF entries, n
  <2>4. [effects[c] EXCEPT ![e] = n] \in [Event -> Nat]
    BY <1>2, <2>1, <2>2
  <2> QED
    BY <1>2, <2>1, <2>2, <2>3, <2>4
<1>4. Ends(j) /\ HasConsumer' /\ TypeOK'
  BY <1>1, <1>3, MoveOnEnds DEF IInv, TypeOK
<1>5. CASE ~fresh[j]
  <2>1. UNCHANGED outcome
    BY <1>1, <1>2, <1>5 DEF IInv, TypeOK, outcome
  <2> QED
    BY <1>4, <2>1, EndsKeepsKeys DEF IInv
<1>6. CASE fresh[j]
  <2>1. e \notin ledger[c] /\ effects[c][e] = 0
    <3>1. e \notin ledger[c]
      BY <1>2, <1>6 DEF IInv, KeyOpen, c
    <3>2. effects \in [Consumer -> [Event -> Nat]] /\ LedgerMatchesEffects
      BY DEF IInv, TypeOK
    <3>3. effects[c][e] \in Nat
      BY <1>2, <3>2
    <3>4. ~(effects[c][e] > 0)
      BY <1>2, <3>1, <3>2 DEF LedgerMatchesEffects
    <3> QED
      BY <3>1, <3>3, <3>4
  <2>2. \A d \in Consumer, f \in Event :
            /\ f \in ledger'[d] <=> f \in ledger[d] \/ (d = c /\ f = e)
            /\ effects'[d][f] = IF d = c /\ f = e THEN 1 ELSE effects[d][f]
    <3>1. /\ ledger \in [Consumer -> SUBSET Event]
          /\ effects \in [Consumer -> [Event -> Nat]]
      BY DEF IInv, TypeOK
    <3>2. /\ ledger' = [ledger EXCEPT ![c] = ledger[c] \cup {e}]
          /\ effects' = [effects EXCEPT ![c] = [effects[c] EXCEPT ![e] = 1]]
      BY <1>1, <1>2, <1>6, <2>1, <3>1
    <3> QED
      BY <1>2, <3>1, <3>2
  <2>3. LedgerMatchesEffects' /\ AppliedAtMostOnce'
    BY <2>2 DEF IInv, LedgerMatchesEffects, AppliedAtMostOnce
  <2>4. \A k \in Job, f \in Event :
            TxAt(k, f)' => /\ k # j /\ TxAt(k, f)
                           /\ consumer[k] \in Consumer
                           /\ consumer'[k] = consumer[k]
                           /\ fresh'[k] = fresh[k]
    <3>1. \A k \in Job, f \in Event : TxAt(k, f) => consumer[k] \in Consumer
      BY DEF IInv, HasConsumer, TxAt
    <3> QED
      BY <1>4, <3>1, EndsFrame
  <2>5. KeyOpen'
    <3> SUFFICES ASSUME NEW k \in Job, NEW f \in Event, TxAt(k, f)', fresh'[k]
                 PROVE  f \notin ledger'[consumer'[k]]
      BY DEF KeyOpen
    <3>1. f \notin ledger[consumer[k]]
      BY <2>4 DEF IInv, KeyOpen
    <3>2. f = e => consumer[k] # c
      BY <1>2, <1>6, <2>4 DEF IInv, KeyExclusive, c
    <3> QED
      BY <2>2, <2>4, <3>1, <3>2
  <2>6. KeySeen'
    BY <2>2, <2>4 DEF IInv, KeySeen
  <2>7. KeyExclusive'
    BY <2>4 DEF IInv, KeyExclusive
  <2> QED
    BY <1>4, <2>3, <2>5, <2>6, <2>7 DEF IInv
<1> QED
  BY <1>5, <1>6

LEMMA InvariantStep == IInv /\ [Next]_vars => IInv'
<1> SUFFICES ASSUME IInv, [Next]_vars PROVE IInv'
  OBVIOUS
<1>1. ASSUME NEW e \in Event, NEW t \in Type, Publish(e, t) PROVE IInv'
  BY <1>1, TableStep
<1>2. ASSUME NEW e \in Event, Reset(e) PROVE IInv'
  BY <1>2, TableStep
<1>3. ASSUME NEW j \in Job, NEW c \in Consumer, Poll(j, c) PROVE IInv'
  BY <1>3, PollStep
<1>4. ASSUME NEW j \in Job, NEW e \in Event, SkipUnhandled(j, e) \/ FailEvent(j, e)
      PROVE  IInv'
  BY <1>4, NoEffectStep
<1>5. ASSUME NEW j \in Job, NEW e \in Event, InsertLedger(j, e) PROVE IInv'
  BY <1>5, InsertLedgerStep
<1>6. ASSUME NEW j \in Job, NEW e \in Event, Handle(j, e) \/ MarkProcessed(j, e)
      PROVE  IInv'
  BY <1>6, InsideStep
<1>7. ASSUME NEW j \in Job, NEW e \in Event, Commit(j, e) PROVE IInv'
  BY <1>7, CommitStep
<1>8. ASSUME NEW j \in Job, Crash(j) PROVE IInv'
  BY <1>8, CrashStep
<1>9. CASE UNCHANGED vars
  BY <1>9 DEF vars, table, outcome, job, IInv, TypeOK, HasConsumer, KeyOpen, KeySeen,
              KeyExclusive, TxAt, IsNext, LedgerMatchesEffects, AppliedAtMostOnce
<1> QED
  BY <1>1, <1>2, <1>3, <1>4, <1>5, <1>6, <1>7, <1>8, <1>9 DEF Next, Step

-----------------------------------------------------------------------------
(* Theorems. *)

THEOREM Invariant == Spec => []IInv
  BY InvariantInit, InvariantStep, PTL DEF Spec

\* Every variable keeps its type, and a job is idle exactly when it has no row
\* left: neither drainOutbox() nor audit_log_writer spins on an empty batch.
THEOREM TypeCorrect == Spec => []TypeOK
<1>1. IInv => TypeOK
  BY DEF IInv
<1> QED
  BY <1>1, Invariant, PTL

\* drainOutbox() runs a consumer's handler to effect at most once for an event,
\* with any number of overlapping jobs, crashes and replays.
THEOREM HandlerRunsAtMostOnce == Spec => []AppliedAtMostOnce
<1>1. IInv => AppliedAtMostOnce
  BY DEF IInv
<1> QED
  BY <1>1, Invariant, PTL

\* The ledger of drainOutbox(), and admin.audit_log, hold an event exactly if
\* its handler's writes are committed.
THEOREM LedgerIsFaithful == Spec => []LedgerMatchesEffects
<1>1. IInv => LedgerMatchesEffects
  BY DEF IInv
<1> QED
  BY <1>1, Invariant, PTL

-----------------------------------------------------------------------------
(* A single consumer of a table loses nothing. *)

\* Only committed rows are polled and processed.
RowsExist ==
    /\ \A e \in processed : type[e] # "none"
    /\ \A j \in Job : \A e \in batch[j] : type[e] # "none"

\* Each step leaves a row's type alone, or gives a new row one.
LEMMA RowsExistStep == IInv /\ RowsExist /\ [Next]_vars => RowsExist'
<1> SUFFICES ASSUME IInv, RowsExist, [Next]_vars PROVE RowsExist'
  OBVIOUS
<1> USE DEF RowsExist
<1>1. ASSUME NEW e \in Event, NEW t \in Type, Publish(e, t) PROVE RowsExist'
  <2>1. /\ type' = [type EXCEPT ![e] = t] /\ t # "none"
        /\ UNCHANGED <<processed, batch>>
    BY <1>1, TypeAssumption DEF Publish, job
  <2> QED
    BY <2>1 DEF IInv, TypeOK
<1>2. ASSUME NEW e \in Event, Reset(e) PROVE RowsExist'
  BY <1>2 DEF Reset, job
<1>3. ASSUME NEW j \in Job, NEW c \in Consumer, Poll(j, c) PROVE RowsExist'
  <2>1. \A e \in FirstRows(Selectable(c)) : type[e] # "none"
    BY DEF FirstRows, Selectable, Unprocessed
  <2>2. /\ UNCHANGED <<type, processed>>
        /\ batch' = [batch EXCEPT ![j] = FirstRows(Selectable(c))]
    BY <1>3 DEF Poll, table
  <2> QED
    BY <2>1, <2>2 DEF IInv, TypeOK
<1>4. ASSUME NEW j \in Job, NEW e \in Event,
             SkipUnhandled(j, e) \/ FailEvent(j, e) \/ Commit(j, e)
      PROVE  RowsExist'
  <2>1. /\ UNCHANGED type /\ e \in batch[j]
        /\ processed' \in {processed, processed \cup {e}}
        /\ batch' = [batch EXCEPT ![j] = @ \ {e}]
    BY <1>4 DEF SkipUnhandled, FailEvent, Commit, MoveOn, IsNext, table
  <2> QED
    BY <2>1 DEF IInv, TypeOK
<1>5. ASSUME NEW j \in Job, NEW e \in Event,
             InsertLedger(j, e) \/ Handle(j, e) \/ MarkProcessed(j, e)
      PROVE  RowsExist'
  BY <1>5 DEF InsertLedger, Handle, MarkProcessed, table
<1>6. ASSUME NEW j \in Job, Crash(j) PROVE RowsExist'
  BY <1>6 DEF Crash, table, IInv, TypeOK
<1>7. CASE UNCHANGED vars
  BY <1>7 DEF vars, table, job
<1> QED
  BY <1>1, <1>2, <1>3, <1>4, <1>5, <1>6, <1>7 DEF Next, Step

\* Each step that processes a row is of the one consumer, which has no handler
\* for it, or has run the handler now or before.
LEMMA HandledStep ==
    ASSUME \A c, d \in Consumer : c = d
    PROVE  IInv /\ RowsExist /\ ProcessedMeansHandled /\ [Next]_vars
               => ProcessedMeansHandled'
<1> SUFFICES ASSUME IInv, RowsExist, ProcessedMeansHandled, [Next]_vars,
                    NEW c \in Consumer, NEW f \in processed',
                    type'[f] \in Handled[c]
             PROVE  f \in ledger'[c]
  BY DEF ProcessedMeansHandled
<1> USE DEF ProcessedMeansHandled
<1>1. ASSUME f \in processed, type'[f] = type[f], UNCHANGED ledger PROVE f \in ledger'[c]
  BY <1>1
<1>2. ASSUME NEW e \in Event, NEW t \in Type, Publish(e, t) PROVE f \in ledger'[c]
  <2>1. f \in processed /\ f # e /\ UNCHANGED ledger
    BY <1>2 DEF Publish, outcome, RowsExist
  <2>2. type'[f] = type[f]
    BY <1>2, <2>1 DEF Publish, IInv, TypeOK
  <2> QED
    BY <1>1, <2>1, <2>2
<1>3. ASSUME NEW e \in Event, Reset(e) PROVE f \in ledger'[c]
  BY <1>1, <1>3 DEF Reset, outcome
<1>4. ASSUME NEW j \in Job, NEW d \in Consumer, Poll(j, d) PROVE f \in ledger'[c]
  BY <1>1, <1>4 DEF Poll, table, outcome
<1>5. ASSUME NEW j \in Job, NEW e \in Event, SkipUnhandled(j, e) PROVE f \in ledger'[c]
  <2>1. consumer[j] \in Consumer
    BY <1>5 DEF SkipUnhandled, IInv, HasConsumer
  <2>2. f # e
    BY <1>5, <2>1 DEF SkipUnhandled
  <2> QED
    BY <1>1, <1>5, <2>2 DEF SkipUnhandled, outcome
<1>6. ASSUME NEW j \in Job, NEW e \in Event, Commit(j, e) PROVE f \in ledger'[c]
  <2>1. consumer[j] = c /\ TxAt(j, e)
    BY <1>6 DEF Commit, TxAt, IInv, HasConsumer
  <2>2. ledger \in [Consumer -> SUBSET Event]
    BY DEF IInv, TypeOK
  <2>3. ledger'[c] = IF fresh[j] THEN ledger[c] \cup {e} ELSE ledger[c]
    BY <1>6, <2>1, <2>2 DEF Commit
  <2>4. ~fresh[j] => e \in ledger[c]
    BY <2>1 DEF IInv, KeySeen
  <2>5. f \in processed \cup {e} /\ type'[f] = type[f]
    BY <1>6 DEF Commit
  <2>6. f # e => f \in ledger[c]
    BY <2>5
  <2> QED
    BY <2>3, <2>4, <2>6
<1>7. ASSUME NEW j \in Job, NEW e \in Event,
             \/ InsertLedger(j, e) \/ Handle(j, e)
             \/ MarkProcessed(j, e) \/ FailEvent(j, e)
      PROVE  f \in ledger'[c]
  BY <1>1, <1>7 DEF InsertLedger, Handle, MarkProcessed, FailEvent, table, outcome
<1>8. ASSUME NEW j \in Job, Crash(j) PROVE f \in ledger'[c]
  BY <1>1, <1>8 DEF Crash, table, outcome
<1>9. CASE UNCHANGED vars
  BY <1>1, <1>9 DEF vars, table, outcome
<1> QED
  BY <1>2, <1>3, <1>4, <1>5, <1>6, <1>7, <1>8, <1>9 DEF Next, Step

\* With one consumer on a table, no event that it has a handler for is ever
\* marked processed without the handler's effect.  The assumption is needed:
\* with two consumers the shared processed_at column loses events.
THEOREM OneConsumerLosesNothing ==
    ASSUME \A c, d \in Consumer : c = d
    PROVE  Spec => []ProcessedMeansHandled
<1>1. Init => RowsExist /\ ProcessedMeansHandled
  BY DEF Init, RowsExist, ProcessedMeansHandled
<1>2. /\ IInv /\ RowsExist /\ ProcessedMeansHandled /\ [Next]_vars
      => RowsExist' /\ ProcessedMeansHandled'
  BY RowsExistStep, HandledStep
<1> QED
  BY <1>1, <1>2, Invariant, PTL DEF Spec
=============================================================================
