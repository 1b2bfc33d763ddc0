SPECIFICATION Spec
CONSTANTS
    r1 = r1
    r2 = r2
    Replica = {r1, r2}
    Writers = {r1}
    Flushers = {}
    Tickers = {r2}
    Key = {1, 2, 3, 4}
    Names <- TwoWriters
    Legacy <- MCLegacy
    Age = 2
    Skew = 0
    Deadline = 1
    Attempts = 2
    Prompt = FALSE
    Seeded = TRUE
    Threshold = 2
    Sustain = 2
    MaxClock = 4
    MaxFaults = 1
    Backlog = {2, 3}
    Start = 1
INVARIANTS JournalInv
