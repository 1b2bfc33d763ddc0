SPECIFICATION FairSpec
CONSTANTS
    r1 = r1
    r2 = r2
    Replica = {r1, r2}
    Writers = {r1}
    Flushers = {}
    Tickers = {r2}
    Key = {1, 2, 3}
    Names <- OneWriter
    Legacy <- MCLegacy
    Age = 1
    Skew = 0
    Deadline = 0
    Attempts = 1
    Prompt = FALSE
    Seeded = TRUE
    Threshold = 1
    Sustain = 1
    MaxClock = 2
    MaxFaults = 2
    Backlog = {2}
    Start = 1
PROPERTIES
    JournalProgress
