CONSTANTS
    Admins = {a1, a2}
    Builds = {b1}
    Keys = {k1}
    Versions = {v1}
    NoKey = NoKey
    NoFile = NoFile
    Torn = Torn
    MaxLog = 3
    MaxBuilds = 2
SPECIFICATION Spec
SYMMETRY Renamings
INVARIANTS TypeOK IndexVerifies NoPublishAfterRevocation RevocationSticks
PROPERTIES SerialLogGrows CacheGrows
CHECK_DEADLOCK FALSE
