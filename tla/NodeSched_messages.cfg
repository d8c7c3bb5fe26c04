SPECIFICATION FairSpec
CONSTANTS
    Node <- PairNode
    Input <- DialInput
    Output <- PairOutput
    InputOf <- DialInputOf
    OutputOf <- PairOutputOf
    Wire <- DialWire
    ParentsFirst = {}
    ImageInput <- PairInput
    MustBeNew <- PairInput
    Optional = {}
    OutputNode = {"out"}
    Slow = {}
    Asynchronous = {}
    Faulty = {}
    TakeThenClear = {}
    ClearThenTake = {"src"}
    Settable = {"out.par"}
    Forced = {"out"}
    Rewired = {}
    Removable = {}
    Worker = {w1, w2}
    Mailbox = mailbox
    NoOutput = NoOutput
    NoNode = NoNode

PROPERTIES
    MessagesAreTaken
CHECK_DEADLOCK FALSE
