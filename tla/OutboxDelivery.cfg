\* One consumer, two overlapping jobs, three rows in batches of two, one replay.
CONSTANTS
    projector = projector
    audit_log_writer = audit_log_writer
    badge = badge
    poison = poison
    audit = audit
    j1 = j1
    j2 = j2
    Consumer = {projector}
    AuditWriter = audit_log_writer
    Job = {j1, j2}
    NoConsumer = NoConsumer
    Type = {badge, poison, audit}
    Handled <- ProjectorHandles
    Poison = {poison}
    BatchSize = 2
    MaxEvents = 3
    MaxResets = 1
SPECIFICATION FairSpec
INVARIANTS TypeOK AppliedAtMostOnce LedgerMatchesEffects ProcessedMeansHandled
PROPERTIES EventuallyProcessed
