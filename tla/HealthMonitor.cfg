\* Two cores whose handlers overlap, and take up to a tick.
SPECIFICATION FairSpec
CONSTANTS
    Cpus = {c1, c2}
    Timeout = 3
    max_missed = 3
    Watchdog = 2
    Arms = {1, 3}
    Mod = 16
    MaxDelay = 1
    MaxMissedCount = 4
INVARIANT VerdictIsRight
PROPERTIES OverdueIsReal ArmedHangDetected
