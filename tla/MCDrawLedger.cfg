CONSTANTS
    a1 = a1
    a2 = a2
    d1 = d1
    d2 = d2
    d3 = d3
    d4 = d4
    d5 = d5
    Agent = {a1, a2}
    Draw = {d1, d2, d3, d4, d5}
    offer <- MCOffer
    NoWindow = NoWindow
    MaxMinor = 6
    MaxCount = 5
    WindowSecs = 1
    MaxTime = 6
SPECIFICATION Spec
INVARIANTS BooksBalance SumIsRepresentable
PROPERTIES SpentCountsForItsWindow AccountSpec
CHECK_DEADLOCK FALSE
