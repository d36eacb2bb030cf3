\* An apply is interrupted while it rotates the database password.
CONSTANTS
    Passwords = {a, b}
    AdminPws = {x}
    VncPws = {v}
    Services = {s1}
    ValidSvcs = {s1}
    Listeners = {w}
    None = None
    Default = Default
    Faults = TRUE
    Cleanup = FALSE
SPECIFICATION Spec
INVARIANT RoleConverges
