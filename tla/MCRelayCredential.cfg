\* Rotation with four drawn tokens besides the first, and every fault.
SPECIFICATION Spec
CONSTANT
    MaxTokens = 5
INVARIANT
    TypeOK
    HeldIsKnown
    RevokedGone
PROPERTY
    HandoverSpec
