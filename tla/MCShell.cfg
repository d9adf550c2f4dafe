CONSTANTS
    d0 = d0  d1 = d1
    p0 = p0  p1 = p1
    fBuilt = fBuilt  fNewer = fNewer  fHome = fHome  fOwn = fOwn  fTaken = fTaken  fBroken = fBroken
    l1 = l1  l2 = l2
    Dirs <- MCDirs
    Cwd = d0
    Folders <- MCFolders
    PlaceOf <- MCPlaceOf
    Found <- MCFound
    Release <- MCRelease
    NoFolder = NoFolder
    NoId = NoId
    Cut = Cut
    Paths <- MCPaths
    NoPath = NoPath
    DirOf <- MCDirOf
    Layouts <- MCLayouts
    NoLayout = NoLayout
    Steps = 2
    GitDirs = {a, b}  GitReadings <- MCReadings  GitWidths <- MCWidths  GitTitles = {0, 1, 9, 30}
    GitQueries = 2  GitChanges = 3
    a = a  b = b  NoReading = NoReading  Running = Running
SPECIFICATION MCSpec
INVARIANTS TrustFailsClosed ShellIsSound
PROPERTIES NothingIsLostUnasked LaunchedWasGranted StatusCatchesUp
