\* disconnect() while a reconnect is scheduled; the application may connect again.
CONSTANTS
    Hints = {h1}
    MaxConns = 2
    MaxBids = 1
    BidsPerHint = 1
    Reuse = TRUE
SPECIFICATION Spec
PROPERTY NoReconnectAfterDisconnect
CHECK_DEADLOCK FALSE
