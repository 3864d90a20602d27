SPECIFICATION Spec
CONSTANTS
    p1 = p1
    p2 = p2
    Procs = {p1, p2}
    Files = {"main", "util", "gen"}
    Walked <- MCWalked
    Roots <- MCRoots
    Tests <- MCTests
    Texts = {"one", "two", "bad"}
    Bad = "bad"
    NoFile = NoFile
    Torn = Torn
    Modes = {"debug", "release", "refused"}
    Refused = "refused"
    FirstMode = "debug"
    Imports <- MCImports
    Saved = {"main", "gen"}
    MaxEdits = 1
    MaxCommands = 2
    MaxKills = 1
INVARIANTS TypeOK ServedAsFingerprinted
PROPERTIES CommandsEnd
CHECK_DEADLOCK FALSE
