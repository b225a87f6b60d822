CONSTANTS
    MaxNodes = 3
    Keys = {1, 2, 3, 4}
SPECIFICATION Spec
INVARIANT NoHalfSlotVisible
