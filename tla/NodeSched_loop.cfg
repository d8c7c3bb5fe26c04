SPECIFICATION Spec
CONSTANTS
    Node <- LoopNode
    Input <- LoopInput
    Output <- LoopOutput
    InputOf <- LoopInputOf
    OutputOf <- LoopOutputOf
    Wire <- LoopWire
    ParentsFirst = {}
    ImageInput <- LoopInput
    MustBeNew = {}
    Optional = {}
    OutputNode = {"a", "b"}
    Slow = {}
    Asynchronous = {}
    Faulty = {}
    TakeThenClear = {}
    ClearThenTake = {}
    Settable = {}
    Forced = {}
    Rewired = {}
    Removable = {}
    Worker = {w1, w2}
    Mailbox = mailbox
    NoOutput = NoOutput
    NoNode = NoNode

INVARIANTS
    NoDeadlock
CHECK_DEADLOCK FALSE
