SPECIFICATION Spec
CONSTANTS
    None = None
    PCs = {1, 2}
    Foreign = {1}
    HandlerPC = 9
    MAX_FRAMES = 3
    NUMBER_OF_SIGNAL_HANDLER_FRAMES = 1
    LateCallbacks = FALSE
    SIGPROF = SIGPROF
    SIGALRM = SIGALRM
    Threads = {t1}
    MainSize = 1
    Size = 1
    maxFramesToCapture = 3
    MaxLost = 1
    Syminfo <- MCSyminfo
    Pcinfo <- MCPcinfo
    Dladdr <- MCDladdr
    MAX_POLLS = 2
    MaxSessions = 2
    MaxSamples = 2
SYMMETRY Symmetry
INVARIANTS FramesIntact SampleReadable ModulesTold ScrapeExact
