----------------------------- MODULE MCLifecycle ------------------------------
(* Lifecycle for TLC: a full installation for the user the planner settles on,  *)
(* and desktop and VNC alone for one who exists and for one who does not.        *)
EXTENDS Lifecycle, TLC

Full ==
    [profile |-> "hybrid", user |-> "", create |-> FALSE, desktopOn |-> TRUE,
     environment |-> "xfce", vncOn |-> TRUE, vnc |-> "tigervnc",
     auth |-> "password", scope |-> "system", runtime |-> "auto",
     proxy |-> "nginx", tls |-> "off", webLocal |-> TRUE, proxyLocal |-> TRUE,
     gated |-> FALSE]

VncOnly == [Full EXCEPT !.profile = "vnc-only", !.proxy = "none",
                        !.environment = "mate", !.user = "ann"]

Stranger == [VncOnly EXCEPT !.user = "bob"]

MCConfigs == {Full, VncOnly, Stranger}

Symmetry == Permutations(Installers)
=============================================================================
