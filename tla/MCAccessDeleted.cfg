SPECIFICATION Spec
CONSTANTS
    Users = {ana}
    Devices = {door}
    Clients = {c1}
    Null = Null
    Nobody = Nobody
    MaxInvites = 1
    MaxPairings = 1
    MaxRequests = 1
INVARIANT DeletedHoldsNothing
