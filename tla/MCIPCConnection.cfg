\* The processes may have nothing left to do.
CONSTANTS
    Endpoint = {"U-W", "W-U", "W-P", "P-W"}
    PeerOf <- MCPeerOf
    ProcessOf <- MCProcessOf
    OnlyWhenProcessing = {"W-U", "P-W"}
    Impatient = {"W-P"}
    SendsAsync = {"P-W"}
    SendsSync = {"U-W", "W-U", "W-P"}
    Invalidates = {"W-U"}
    MaxSend = 3
    MayCrash = {"P"}
    Nobody = Nobody
SPECIFICATION Spec
INVARIANTS NoMissedWakeUp NoMessageStranded RequestsTracked
CHECK_DEADLOCK FALSE
