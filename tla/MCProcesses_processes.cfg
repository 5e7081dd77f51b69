SPECIFICATION FairSpec
CONSTANTS
    UDP = UDP
    TCP = TCP
    Sessions = {s1, s2}
    Nobody = Nobody
CHECK_DEADLOCK FALSE
INVARIANTS
    ProcessTypeOK
    OnlyLatecomersOutlive
PROPERTIES
    InterruptEnds
    SecondInterruptEnds
