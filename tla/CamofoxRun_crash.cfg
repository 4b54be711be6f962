CONSTANTS
    Slot = {c1, c2}
    Mode = {"read"}
    Faults = {"crash"}
    NoOne = NoOne
SPECIFICATION Spec
INVARIANTS
    OneServerPerProfile
