\* One snapshot to a pipe.
CONSTANTS
    First = a
    Second = b
    Invocations = {a, b}
    CommandLines <- MCCommandLines
    MaxQualities = 1
    MaxAttempts = 2
    BufferSize = 2
    TextLines = {1, 3}
    JsonTexts <- MCJsonTexts
    Images <- MCImages
    OldLength = 2
SPECIFICATION MCSpec
INVARIANTS
    PrintErrorsSurface
