SPECIFICATION Spec
CONSTANTS
    Node <- TwinNode
    Input <- TwinInput
    Output <- TwinOutput
    InputOf <- TwinInputOf
    OutputOf <- TwinOutputOf
    Wire <- TwinWire
    ParentsFirst = {}
    ImageInput = {"out.1"}
    MustBeNew = {"out.1"}
    Optional = {}
    OutputNode = {"out"}
    Slow = {}
    Asynchronous = {}
    Faulty = {}
    TakeThenClear = {}
    ClearThenTake = {}
    Settable = {}
    Forced = {}
    Rewired = {}
    Removable = {}
    Worker = {w1, w2}
    Mailbox = mailbox
    NoOutput = NoOutput
    NoNode = NoNode

INVARIANTS
    NoDeadlock
CHECK_DEADLOCK FALSE
