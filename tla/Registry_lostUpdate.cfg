CONSTANTS
    Admins = {a1, a2}
    Builds = {}
    Keys = {k1, k2}
    Versions = {v1}
    NoKey = NoKey
    NoFile = NoFile
    Torn = Torn
    MaxLog = 3
    MaxBuilds = 0
SPECIFICATION Spec
PROPERTY LogAppendOnly
CHECK_DEADLOCK FALSE
