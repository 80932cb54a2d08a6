SPECIFICATION FairChannelSpec
CONSTANTS
    MaxSends = 5
    MaxExpiries = 2
    MaxErrors = 2
INVARIANTS
    NoStrandedCommand
PROPERTIES
    ImplementsQueue
    EveryCommandFetched
