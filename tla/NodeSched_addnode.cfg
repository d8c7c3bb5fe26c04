SPECIFICATION Spec
CONSTANTS
    Node <- PairNode
    Input <- PairInput
    Output <- PairOutput
    InputOf <- PairInputOf
    OutputOf <- PairOutputOf
    Wire <- PairWire
    ParentsFirst <- PairInput
    ImageInput <- PairInput
    MustBeNew <- PairInput
    Optional = {}
    OutputNode = {"out"}
    Slow = {}
    Asynchronous = {}
    Faulty = {}
    TakeThenClear = {}
    ClearThenTake = {}
    Settable = {}
    Forced = {}
    Rewired = {}
    Removable = {}
    Worker = {w1, w2}
    Mailbox = mailbox
    NoOutput = NoOutput
    NoNode = NoNode

INVARIANTS
    NoDeadlock
CHECK_DEADLOCK FALSE
