\* A buffer of two units, images and texts around that size, a call that may be
\* carried out twice, every request for up to three qualities.
CONSTANTS
    First = a
    Second = b
    Invocations = {a, b}
    CommandLines <- MCCommandLines
    MaxQualities = 3
    MaxAttempts = 2
    BufferSize = 2
    TextLines = {1, 3}
    JsonTexts <- MCJsonTexts
    Images <- MCImages
    OldLength = 2
SPECIFICATION MCSpec
INVARIANTS
    TypeOK
    SuccessMeansDone
    OldSnapshotKept
    NoRemains
    StreamsAsRequested
