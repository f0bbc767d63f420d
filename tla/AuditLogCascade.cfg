SPECIFICATION SerialSpec
CONSTANTS
    Sessions = {s1, s2}
    Content = {a, b}
    Unhashed = {x, y}
    MaxSeq = 2
INVARIANTS BreaksEveryLaterRow
