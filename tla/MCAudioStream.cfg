SPECIFICATION Spec
CONSTANT QueueLength = 2
INVARIANTS
    TypeOK
    StreamHasOwner
    LightsRestored
PROPERTY ListensAgain
