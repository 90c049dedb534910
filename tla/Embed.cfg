\* Two threads of the host, one surface, a table of one, two runs.
CONSTANTS
    t1 = t1  t2 = t2  s1 = s1  win = win  b1 = b1  b2 = b2
    Threads = {t1, t2}
    Surfaces = {s1}
    Windows = {}
    NamedBy <- MCNamedBy
    X11 = {}
    Screen = screen
    Buffers = {b1, b2}
    None = None
    GPU_BIND_MAX = 1
    PipeMax = 1
    InputMax = 1
    MaxPresent = 2
    MaxRuns = 2
    Interrupts = TRUE
    Reapplies = TRUE
SPECIFICATION Spec
SYMMETRY Symmetry
INVARIANTS RefsAreCounted TablesAreLive FrameIsDue
PROPERTY KeepsPromise
\* the system stops when anlabwc_run has returned, or the process has ended
CHECK_DEADLOCK FALSE
