\* The phone's store forgets the install key of a rotation the relay committed.
SPECIFICATION Spec
CONSTANT
    MaxTokens = 3
INVARIANT
    InForceIsRecoverable
CHECK_DEADLOCK FALSE
