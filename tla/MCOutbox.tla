------------------------------ MODULE MCOutbox ------------------------------
(* Small instances of Outbox for TLC. *)
EXTENDS Outbox

CONSTANTS projector, audit_log_writer, badge, poison, audit, j1, j2

\* One drainOutbox consumer with handlers for two of the three event types; the
\* events of the third, the audit-tagged ones, it skips.
ProjectorHandles == [c \in Consumer |-> {badge, poison}]

\* The same consumer beside audit_log_writer.
BothHandle ==
    [c \in Consumer |-> IF c = AuditWriter THEN {audit} ELSE {badge, poison}]
=============================================================================
