----------------------------- MODULE MCPlanRules ------------------------------
(* PlanCommand for TLC: three groups of hosts and configurations, each varying  *)
(* what one group of rules looks at and holding the rest at its default.        *)
EXTENDS PlanCommand

Ubuntu ==
    [id |-> "ubuntu", like |-> {"debian"}, pid1 |-> "systemd", signs |-> {"systemd"},
     commands |-> {"apt"}, desktops |-> {}, session |-> "x11",
     env |-> {"XDG_SESSION_TYPE", "DISPLAY"}, path |-> {}, invoker |-> "ann"]

\* A host of the family as it is usually found.
Usual(id, manager) == [Ubuntu EXCEPT !.id = id, !.like = {}, !.commands = {manager}]

UsualHosts ==
    {Ubuntu, Usual("rocky", "dnf"), Usual("fedora", "dnf"), Usual("arch", "pacman"),
     Usual("sles", "zypper"), Usual("nixos", "custom"),
     [Usual("alpine", "apk") EXCEPT !.pid1 = "init", !.signs = {"openrc"}],
     [Usual("alpine", "apk") EXCEPT !.pid1 = "sh", !.signs = {}],
     [Usual("alpine", "apk") EXCEPT !.pid1 = "systemd", !.signs = {"openrc"}]}

Default ==
    [profile |-> "hybrid", user |-> "", create |-> FALSE, desktopOn |-> TRUE,
     environment |-> "xfce", vncOn |-> TRUE, vnc |-> "tigervnc",
     auth |-> "password", scope |-> "system", runtime |-> "auto",
     proxy |-> "none", tls |-> "off", webLocal |-> TRUE, proxyLocal |-> TRUE,
     gated |-> FALSE]

\* Which distribution, init system and package managers.
IdentityHosts ==
    {[Ubuntu EXCEPT !.id = i, !.like = l, !.pid1 = p, !.signs = s, !.commands = c] :
        i \in {"ubuntu", "rocky", "fedora", "sles", "alpine", "other"},
        l \in SUBSET {"debian", "rhel", "fedora", "suse"},
        p \in {"systemd", "init", "sh"},
        s \in SUBSET {"systemd", "openrc", "runit", "s6"},
        c \in SUBSET {"apt", "dnf", "yum", "apk"}}

IdentityConfigs == {Default, [Default EXCEPT !.vncOn = FALSE]}

\* Desktops and VNC servers; sudo keeps DISPLAY, or no variable of the session.
DesktopHosts ==
    {[h EXCEPT !.desktops = d, !.session = s[1], !.env = s[2]] :
        h \in UsualHosts,
        d \in {{}, {"xfce"}, {"gnome"}, {"xfce", "gnome"}},
        s \in {<<"x11", {"XDG_SESSION_TYPE", "DISPLAY"}>>,
               <<"wayland", {"XDG_SESSION_TYPE", "WAYLAND_DISPLAY", "DISPLAY"}>>,
               <<"wayland", {"WAYLAND_DISPLAY", "DISPLAY"}>>,
               <<"wayland", {"DISPLAY"}>>,
               <<"none", {}>>}}

DesktopConfigs ==
    {[Default EXCEPT !.desktopOn = d, !.environment = e, !.vncOn = o, !.vnc = v,
                     !.auth = a, !.scope = s] :
        d \in BOOLEAN, e \in {"xfce", "gnome", "auto", "none", "custom"},
        o \in BOOLEAN, a \in {"password", "none"}, s \in {"system", "user"},
        v \in {"tigervnc", "tightvnc", "x11vnc", "wayvnc", "external", "custom"}}

\* Guacamole, runtimes and proxies, as the schema lets profiles combine them.
StackHosts == {[h EXCEPT !.path = r] : h \in UsualHosts, r \in SUBSET Runtimes}

StackConfigs ==
    {[Default EXCEPT !.profile = f, !.vnc = v, !.auth = a, !.runtime = r,
                     !.proxy = p, !.tls = t, !.webLocal = w, !.proxyLocal = l,
                     !.gated = g] :
        f \in {"hybrid", "native", "vnc-only", "external"},
        v \in {"tigervnc", "x11vnc", "external"}, a \in {"password", "none"},
        r \in {"auto", "docker", "podman", "none"},
        p \in {"none", "external", "nginx", "caddy", "traefik"},
        t \in {"off", "external", "acme-http-01"}, w \in BOOLEAN, l \in BOOLEAN,
        g \in BOOLEAN}

ValidStackConfigs ==
    {c \in StackConfigs :
        /\ c.profile = "vnc-only" => c.proxy = "none" /\ c.tls = "off"
        /\ c.profile = "external" => c.proxy \in {"none", "external"} /\ c.tls # "acme-http-01"}

MCInputs ==
    {[hosts |-> IdentityHosts, cfgs |-> IdentityConfigs],
     [hosts |-> DesktopHosts, cfgs |-> DesktopConfigs],
     [hosts |-> StackHosts, cfgs |-> ValidStackConfigs]}
=============================================================================
