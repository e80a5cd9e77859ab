CONSTANTS
    Procs = {p1, p2}
    NoProc = NoProc
SPECIFICATION TunnelSpec
PROPERTIES
    LiveProcessStaysOnRecord
    DeadTunnelIsRestarted
CHECK_DEADLOCK FALSE
