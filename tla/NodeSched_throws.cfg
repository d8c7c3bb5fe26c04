SPECIFICATION Spec
CONSTANTS
    Node <- ChainNode
    Input <- ChainInput
    Output <- ChainOutput
    InputOf <- ChainInputOf
    OutputOf <- ChainOutputOf
    Wire <- ChainWire
    ParentsFirst = {}
    ImageInput <- ChainInput
    MustBeNew <- ChainInput
    Optional = {}
    OutputNode = {"out"}
    Slow = {}
    Asynchronous = {}
    Faulty = {"flt"}
    TakeThenClear = {}
    ClearThenTake = {}
    Settable = {}
    Forced = {}
    Rewired = {}
    Removable = {}
    Worker = {w1, w2}
    Mailbox = mailbox
    NoOutput = NoOutput
    NoNode = NoNode

INVARIANTS
    UsedInputsAreDemanded
CHECK_DEADLOCK FALSE
