SPECIFICATION FairAlertSpec
CONSTANTS
    Kind = {"queue_depth", "oldest_job_age", "webhook_lag", "send_reconciler", "dead_letter", "failed_send_share", "ingestion", "purge", "partition", "reputation"}
    ReputationRow = {"complaint_rate"}
    Check = {c1, c2}
    NoCheck = NoCheck
    Dedup = 2
    MaxCheck = 1
    MaxFaults = 1
    c1 = c1
    c2 = c2
INVARIANT OneAlertPerWindow
PROPERTY LastingTroubleIsReported
