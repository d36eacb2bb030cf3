\* Applies that fail or are killed anywhere, cleanup and reinstallation.
CONSTANTS
    Passwords = {a, b}
    AdminPws = {x, y}
    VncPws = {u, v}
    Services = {s1, s2, bad}
    ValidSvcs = {s1, s2}
    Listeners = {w1, w2}
    None = None
    Default = Default
    Faults = TRUE
    Cleanup = TRUE
SPECIFICATION Spec
SYMMETRY Symmetry
INVARIANTS
    TypeOK
    RowsConverge
    NeverDefaultAdmin
    ValidatedStack
    RotationConverges
    StackConverges
PROPERTIES
    SettledNoOp
