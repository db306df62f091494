\* Two consumers of one table, each with jobs of its own.
CONSTANTS
    projector = projector
    audit_log_writer = audit_log_writer
    badge = badge
    poison = poison
    audit = audit
    j1 = j1
    j2 = j2
    Consumer = {projector, audit_log_writer}
    AuditWriter = audit_log_writer
    Job = {j1, j2}
    NoConsumer = NoConsumer
    Type = {badge, poison, audit}
    Handled <- BothHandle
    Poison = {poison}
    BatchSize = 2
    MaxEvents = 2
    MaxResets = 0
SPECIFICATION Spec
INVARIANTS ProcessedMeansHandled
