CONSTANTS
    DataXmls <- MCDataXmls
    RoomIds = {"R1", "R2"}
    BlindIds = {"S1"}
    System = "SYSTEM"
    RoomVars = {"mode", "temperature"}
    BlindVars = {"position"}
    SystemVars = {"hdo"}
    PathLen = 1
    DeviceResponse = 13
    MaxWrites = 1
    MaxRequest = 20
    MaxResponse = 12
    Overhead = 2
SPECIFICATION Spec
INVARIANTS
    TypeOK
    ShowsTheDevice
    EveryVariableHasAPlace
    RaisesOnlyForLongVariables
