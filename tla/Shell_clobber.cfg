SPECIFICATION Spec
CONSTANTS
    f = f
    g = g
    echo = echo
    writeF = writeF
    rmF = rmF
    runF = runF
    runG = runG
    catG = catG
    execF = execF
    Newline = Newline
    Zero = Zero
    Absent = Absent
    Names = {f, g}
    Cmd <- AllCmd
    InitialFiles <- AllFiles
    BootScripts <- AllBoot
    SectorLen = 2
    BufLen = 6
    MaxLine = 2
    MaxFaults = 1
INVARIANTS
    ScriptIntact
