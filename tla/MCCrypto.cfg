SPECIFICATION Spec
CONSTANTS
    Order = 7
    Field = 7
    SCAN_CHUNK = 2
    Notes = {"note", "mute", "garbled", "denied", "long"}
    NoteLen <- MCNoteLen
    Unencodable = {"mute"}
    Undecodable = {"garbled"}
    Unverified = {"denied"}
    Tag <- MCTag
    MaxCtLen = 3
    Me = 2
    OtherKeys = {5}
    Mine = "own"
    Aads = {"aad1", "aad2"}
    Aad = "aad1"
    UsualNote = "note"
    Threads = 2
    CHUNKS_PER_THREAD = 1
    MaxSeals = 5
    MaxOdd = 1
    V = 3
    O = 2
    K = 4
    Payloads = {1, 2}
    Cpks <- MCCpks
    Sigs <- MCSigs
    Aes <- MCAes
    Shake <- MCShake
    Xof <- MCXof
    Layouts <- MCLayouts
    Nothing = Nothing
INVARIANTS
    ScanAgreesWithOpen
    ReceivesOwn
    SecretsLiveOneChunk
    EvaluatesPublicMap
    ProvesExactlySignatures
    VerifiesExactlyProved
