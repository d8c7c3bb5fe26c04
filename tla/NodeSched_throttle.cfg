SPECIFICATION Spec
CONSTANTS
    Node <- ChainNode
    Input <- ChainInput
    Output <- ChainOutput
    InputOf <- ChainInputOf
    OutputOf <- ChainOutputOf
    Wire <- ChainWire
    ParentsFirst = {}
    ImageInput <- ChainInput
    MustBeNew <- ChainInput
    Optional = {}
    OutputNode = {"out"}
    Slow = {"out"}
    Asynchronous = {"flt"}
    Faulty = {"out"}
    TakeThenClear = {}
    ClearThenTake = {}
    Settable = {}
    Forced = {}
    Rewired = {"flt.in"}
    Removable = {}
    Worker = {w1, w2}
    Mailbox = mailbox
    NoOutput = NoOutput
    NoNode = NoNode

INVARIANTS
    NeverStalls
SYMMETRY Symmetry
