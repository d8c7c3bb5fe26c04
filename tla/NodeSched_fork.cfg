SPECIFICATION Spec
CONSTANTS
    Node <- ForkNode
    Input <- ForkInput
    Output <- ForkOutput
    InputOf <- ForkInputOf
    OutputOf <- ForkOutputOf
    Wire <- ForkWire
    ParentsFirst = {}
    ImageInput <- ForkInput
    MustBeNew <- ForkInput
    Optional = {}
    OutputNode = {"a", "b"}
    Slow = {}
    Asynchronous = {}
    Faulty = {}
    TakeThenClear = {"src"}
    ClearThenTake = {}
    Settable = {}
    Forced = {}
    Rewired = {}
    Removable = {"b"}
    Worker = {w1, w2}
    Mailbox = mailbox
    NoOutput = NoOutput
    NoNode = NoNode

INVARIANTS
    OnlyFlagsCross
    ReadyIsQueued
SYMMETRY Symmetry
CHECK_DEADLOCK FALSE
