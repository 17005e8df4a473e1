SPECIFICATION Spec
CONSTANTS
    c1 = c1
    c2 = c2
    b1 = b1
    p1 = p1
    p2 = p2
    h1 = h1
    h2 = h2
    Contexts <- Frames
    BrowserOf <- OneBrowser
    ProcessOf <- TwoProcesses
    Handlers = {h1, h2}
    None = None
    UiThread = UiThread
    MaxQueries = 2
    MaxCalls = 0
    MaxEvents = 1
SYMMETRY HandlerSymmetry
INVARIANTS
    PendingIsAnswerable
CHECK_DEADLOCK FALSE
