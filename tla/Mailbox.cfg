SPECIFICATION FairSpec
CONSTANTS
    gui = gui
    ai = ai
    again = again
    first = first
    last = last
    Node = {gui, ai, again}
    Topic = {first, last}
    Mortal = {ai}
    Replaces <- Restart
    Calls <- Programs
INVARIANTS
    TypeOK
    ScansMeet
    ConfirmedInOrder
    DoubledOnlyIfBothFound
PROPERTIES
    NodesMeet
    SubscriptionsAreConfirmed
CHECK_DEADLOCK FALSE
