SPECIFICATION BackupSpec
CONSTANTS
    Pages = {p1}
    Root = Root
    Subdirs = {sub}
    None = None
    Mixed = Mixed
    Limits = {1, 2}
    MaxReq = 2
    MaxMinute = 2
    MaxWrites = 1
    MaxOutside = 1
CHECK_DEADLOCK FALSE
INVARIANTS RestoreIsSafe PagesTellTruth
PROPERTIES RotationKeepsNewest
