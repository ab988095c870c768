SPECIFICATION LiveSpec
CONSTANTS
    MaxSockets = 3
INVARIANTS
    SingleFlight
    OnlyCurrentListens
    ConnectedMeansSubscribed
    AttachedErrorsCaught
PROPERTIES
    DeadConnectionNoticed
    ReconnectionEnds
CHECK_DEADLOCK FALSE
