CONSTANT
    MaxFaults <- MCMaxFaults
SPECIFICATION Spec
INVARIANTS
    DriverInv
    EndedIsGone
    CallsComplete
PROPERTIES
    AlarmStays
    StartRegisters
    LossesHeal
    SignalEnds
CHECK_DEADLOCK FALSE
