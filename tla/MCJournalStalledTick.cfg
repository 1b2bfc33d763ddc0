SPECIFICATION Spec
CONSTANTS
    r1 = r1
    r2 = r2
    Replica = {r1, r2}
    Writers = {r1}
    Flushers = {r1}
    Tickers = {r2}
    Key = {1, 2}
    Names <- OneWriter
    Legacy <- MCLegacy
    Age = 1
    Skew = 0
    Deadline = 0
    Attempts = 1
    Prompt = FALSE
    Seeded = TRUE
    Threshold = 1
    Sustain = 1
    MaxClock = 2
    MaxFaults = 0
    Backlog = {}
    Start = 1
INVARIANTS AppliedOnce
