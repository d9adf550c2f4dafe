CONSTANTS
    Nodes = {1, 2}
    Ins <- MCIns
    Outs <- MCOuts
    Switches = {}
    Wires <- MCWires
    Values = {1, 2}
    Tuned = {1, 2}
    WiringNodes = {1, 2, 3, 4, 5}
    WiringIns <- MCWiringIns
    WiringOuts <- MCWiringOuts
    WiringWires <- MCWiringWires
    WiringSwitches = {4}
    WiringTuned = {3}
    NoPin = NoPin
    NoChain = NoChain
    Sweeps <- MCSweeps
    Cores <- MCCores
    Tones = {7, 8}
    ToneList <- MCToneList
    Generators = {1}
    Iip3Centers = {1, 2}
    Reading <- MCReading
    Projects <- MCProjects
    Requests <- MCRequests
    MaxRuns = 2
    MaxEdits = 3
    NoData = NoData
    NoValue = NoValue
    NoTone = NoTone
    Unset = Unset
    NoConfig = NoConfig
    Invalid = Invalid
    Blank = Blank
    NoKey = NoKey
SPECIFICATION MCSpec
INVARIANTS ClonesAreTheCircuit TraceIsOfTheCircuit VerdictIsSound
PROPERTIES SweepsEnd
CHECK_DEADLOCK FALSE
