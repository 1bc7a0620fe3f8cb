SPECIFICATION Spec
CONSTANTS
    Accounts = {a1, a2, a3}
    Outside = outside
    MaxRows = 4
    MaxTime = 3
    Kinds <- AllKinds
    MinCount = 3
    Window = 2
    MinInboundSources = 2
    InboundWindow = 1
    MaxOutboundDestinations = 1
    OutboundWindow = 1
SYMMETRY Symmetry
INVARIANT StructuringExact
INVARIANT EvidenceVerifies
