\* One thread, a window bound by pid or xid, a pipe that gets full.
CONSTANTS
    t1 = t1  t2 = t2  s1 = s1  win = win  b1 = b1  b2 = b2
    Threads = {t1}
    Surfaces = {s1}
    Windows = {win}
    NamedBy <- MCNamedBy
    X11 = {win}
    Screen = screen
    Buffers = {b1}
    None = None
    GPU_BIND_MAX = 3
    PipeMax = 2
    InputMax = 1
    MaxPresent = 1
    MaxRuns = 1
    Interrupts = FALSE
    Reapplies = FALSE
SPECIFICATION FairSpec
PROPERTIES AckedIsShown StopEndsRun
\* the system stops when anlabwc_run has returned, or the process has ended
CHECK_DEADLOCK FALSE
