CONSTANT
    MaxFaults <- MCMaxFaults
SPECIFICATION Spec
PROPERTY
    LostIsRegisteredAgain
CHECK_DEADLOCK FALSE
