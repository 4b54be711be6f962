CONSTANTS
    Slot = {c1}
    Mode = {"read", "login_link"}
    Faults = {"crash", "stuck"}
    NoOne = NoOne
SPECIFICATION FairSpec
PROPERTIES
    EndedCallsReturn
    OrphansStop
\* Nothing can start any more once every slot has a hung runner.
CHECK_DEADLOCK FALSE
