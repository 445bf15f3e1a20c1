SPECIFICATION Spec
CONSTANTS
    BufferCount = 3
    HostCapacity = 8
    MaxFragments = 8
    StartupLag = 1
    TerminateMayInterrupt = FALSE
INVARIANT UnderrunReported
ACTION_CONSTRAINT PromptMain
CHECK_DEADLOCK FALSE
