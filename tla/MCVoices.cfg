SPECIFICATION Spec
CONSTANTS
    u1 = u1
    u2 = u2
    p1 = p1
    p2 = p2
    Null = Null
    Users <- MCUsers
    Persons <- MCPersons
    MaxKeys = 2
    MaxTools = 2
    MaxChanges = 4
SYMMETRY Symmetry
INVARIANTS TypeOK NamedSpoke EntitledIsHeard ProvenKeyStays
