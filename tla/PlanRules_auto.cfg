\* desktop=auto on a host with one X11 session.
CONSTANTS
    None = None
    Inputs <- MCInputs
SPECIFICATION Spec
CHECK_DEADLOCK FALSE
INVARIANT AutoDesktopUsable
