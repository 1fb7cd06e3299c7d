SPECIFICATION Spec
CONSTANTS
    Clients = {"alice"}
    Slots = {1, 2}
    MaxVersion = 4
INVARIANTS
    TypeOK
    PeerIsVerified
PROPERTY DroppedStaysOut
