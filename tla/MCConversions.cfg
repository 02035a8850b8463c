SPECIFICATION MCSpec
CONSTANTS
    Packets <- MCPackets
    KeyBlocks = 3
    AnswerLens = {18, 16, 2, 0}
    Texts <- MCTexts
    Leftovers = {0, 55}
    Messages <- MCMessages
    Blobs <- MCBlobs
    Edits <- MCEdits
    HeapBytes <- MCHeap
    MaxLoads = 2
INVARIANTS
    ConversionsTypeOK
    LoopEncrypts
    RoundTrip
    RequestKeyed
    BytesInPlace
    FirstEight
    UpToTheNul
    SignatureBinds
PROPERTIES
    StoresChunk
CHECK_DEADLOCK FALSE
