CONSTANTS
    Conn = {"socket", "poller"}
    Poller = {"poller"}
    Chunks = 2
    MaxGeneration = 1
    MaxDials = 2
    MaxUploads = 2
    WatchQueue = 1
    MaxSpawns = 1
    MaxFailures = 2
    MaxHangs = 2
SPECIFICATION ProgressSpec
INVARIANTS CommittedWhole OneAlertPerIncident
PROPERTIES ComesIn DaemonsDieWithApp
CHECK_DEADLOCK FALSE
