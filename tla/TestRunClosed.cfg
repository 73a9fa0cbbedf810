CONSTANTS
    Runs = {1, 2}
    Procs = {p1, p2}
    Playlist <- MCPlaylist
    MaxJobs = 1
    MaxActive = 14
    MaxCrashes = 1
SPECIFICATION Spec
INVARIANTS FinishedIsClosed
CHECK_DEADLOCK FALSE
