CONSTANTS
    Slot = {c1, c2}
    Mode = {"read", "login_link"}
    Faults = {}
    NoOne = NoOne
SPECIFICATION FairSpec
INVARIANTS
    OneServerPerProfile
    ResultMeansPersisted
PROPERTIES
    RejectedCallsReturn
