SPECIFICATION Spec
CONSTANTS
    Node <- ThreeNodes
    Input <- ThreeInputs
    Output <- ThreeOutputs
    InputOf <- ThreeInputOf
    OutputOf <- ThreeOutputOf
    Compatible <- OfOneType
    NoOutput = NoOutput
    MaxLinks = 2
INVARIANTS
    TypeOK
    ReadersAreTold
    LinkedBothWays
    ClientsKnowTheArcs
    LinkedNodesAreRegistered
