SPECIFICATION Spec
CONSTANTS
    Users = {ana, bia}
    Devices = {door}
    Clients = {c1, c2}
    Null = Null
    Nobody = Nobody
    MaxInvites = 2
    MaxPairings = 2
    MaxRequests = 4
SYMMETRY Symmetry
INVARIANTS
    TypeOK
    CommandsHaveLineage
    UnpairClears
