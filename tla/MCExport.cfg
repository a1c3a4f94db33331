SPECIFICATION Spec
CONSTANTS
    Text = {"", "x", "cut"}
    NoText = ""
    Stump = "cut"
    Sources <- Files
    Leftovers <- Earlier
    MaxLost = 1
CHECK_DEADLOCK FALSE
INVARIANTS
    TypeOK
    RoundTrip
    CountIsMessages
    ByteIdentical
    CutDamagesLast
