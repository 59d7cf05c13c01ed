SPECIFICATION Spec
CONSTANTS
    Bytes <- MCBytes
    MaxLength = 5
CHECK_DEADLOCK FALSE
INVARIANTS FormsAgree NearBlocksToldApart
