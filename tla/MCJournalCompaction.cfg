SPECIFICATION Spec
CONSTANTS
    r1 = r1
    r2 = r2
    Replica = {r1, r2}
    Writers = {}
    Flushers = {}
    Tickers = {r1, r2}
    Key = {1, 2, 3}
    Names <- NoWriter
    Legacy <- MCLegacy
    Age = 1
    Skew = 0
    Deadline = 0
    Attempts = 1
    Prompt = FALSE
    Seeded = FALSE
    Threshold = 1
    Sustain = 1
    MaxClock = 3
    MaxFaults = 2
    Backlog = {1, 2, 3}
    Start = 3
SYMMETRY Twins
INVARIANTS
    RollupExact
    Durable
    CompactionSound
    TypeOK
