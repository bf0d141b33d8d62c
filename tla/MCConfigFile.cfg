SPECIFICATION Spec
CONSTANTS
    LocalFiles <- MCLocalFiles
    GlobalFiles <- MCGlobalFiles
    Missing = missing
    Keys <- MCKeys
    Bad <- MCBad
    Default <- MCDefault
INVARIANT AsWritten
CHECK_DEADLOCK FALSE
