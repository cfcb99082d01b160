SPECIFICATION Spec
CONSTANTS
    Clients = {"c1", "c2"}
    Variables = {"a", "b", "d", "big", "skipped"}
    Structures = {"S", "T", "U"}
    Members <- MCMembers
    Answered <- MCAnswered
    Unstated = Unstated
    Values = {"v0", "v1", "v2", "bad", "long"}
    Unencodable = {"bad"}
    PathLen <- MCPathLen
    ValueBytes <- MCValueBytes
    ValueLen <- MCValueLen
    EncodedLen <- MCEncodedLen
    InitialStore <- MCInitialStore
    MaxRequest = 12
    MaxResponse = 14
    Overhead = 2
    DeviceRequest = 13
    DeviceResponse = 15
    Requests <- MCRequests
    MaxCalls <- MCMaxCalls
INVARIANTS
    TypeOK
    UnsendableWritesNothing
    WritesOfOneRequestAreAtomic
    AnswersComplete
    ReadsAreFromTheCall
    ReadsOfOneRequestAreASnapshot
    AnswerHoldsLastWrite
PROPERTIES
    ImplementsContract
CHECK_DEADLOCK FALSE
