\* One thread calling StartNetcatListener again and again.
CONSTANTS
    Callers = {c1}
    Slots = {s1, s2}
    NoSlot = NoSlot
    MaxScripts = 1
SPECIFICATION Spec
INVARIANT DeviceOpenedOnce
