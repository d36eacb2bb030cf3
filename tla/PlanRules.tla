------------------------------- MODULE PlanRules -------------------------------
(***************************************************************************)
(* What `detect_facts` (facts.py) finds out about a host, and what           *)
(* `build_plan` (planner.py) makes of these facts and of a configuration:   *)
(* the rules that refuse a combination (validate_combination in             *)
(* providers/vnc.py, and the planner's own), and the steps of the plan.     *)
(* Nothing here changes the host; Lifecycle executes the plans.             *)
(*                                                                          *)
(* host:   id, like  ID and ID_LIKE of os-release                           *)
(*         pid1      the name of process 1                                  *)
(*         signs     of init systems, directories of /run or commands       *)
(*         commands  package managers on PATH                               *)
(*         desktops  built-in desktops with a file in /usr/share/xsessions  *)
(*         session   display server of the graphical session, or "none"     *)
(*         env       variables of the session that the installer still has  *)
(*         path      container runtimes on PATH                             *)
(*         invoker   SUDO_USER, or else who runs the installer              *)
(* facts:  family    platform provider that os-release maps to              *)
(*         init      detected init system                                   *)
(*         display   detected display server                                *)
(*         managers, sessions, path, invoker  as on the host                *)
(* cfg:    the settings that a rule or a step depends on.  `gated` stands   *)
(*         for those with a rule of their own and no other effect here      *)
(*         (architecture, ports, firewall, features, database engine...).   *)
(***************************************************************************)
EXTENDS Naturals, Sequences, FiniteSetsExt

Families == {"debian", "rhel", "fedora", "arch", "suse", "alpine", "custom"}
Desktops == {"xfce", "mate", "lxqt", "lxde", "kde", "gnome", "cinnamon"}
Virtual == {"tigervnc", "tightvnc"}
Unmanaged == {"external", "custom"}
Runtimes == {"docker", "podman"}

\* The user an account is created for when none is configured.
Guacdesk == "guacdesk"

Environments == Desktops \cup {"auto", "none", "custom"}
Servers == Virtual \cup Unmanaged \cup {"x11vnc", "wayvnc"}
Auths == {"password", "system", "none", "custom"}
Proxies == {"nginx", "apache", "caddy", "traefik", "none", "external"}

\* What build_plan reads of a configuration that passed the schema.
Settings ==
    [profile: {"hybrid", "native", "vnc-only", "external"},
     user: STRING, create: BOOLEAN, desktopOn: BOOLEAN, environment: Environments,
     vncOn: BOOLEAN, vnc: Servers, auth: Auths,
     scope: {"system", "user", "session", "manual"},
     runtime: {"auto", "none"} \cup Runtimes, proxy: Proxies,
     tls: {"off", "acme-http-01", "acme-dns-01", "existing", "self-signed", "external"},
     webLocal: BOOLEAN, proxyLocal: BOOLEAN, gated: BOOLEAN]

-----------------------------------------------------------------------------
(* Provider catalogues *)

ServiceInit(family) ==
    CASE family = "alpine" -> {"openrc"}
      [] family = "custom" -> {"systemd", "openrc", "runit"}
      [] OTHER -> {"systemd"}

Manager(family) ==
    [debian |-> "apt", rhel |-> "dnf", fedora |-> "dnf", arch |-> "pacman",
     suse |-> "zypper", alpine |-> "apk", custom |-> "custom"][family]

\* Some of the distributions of each family.
OsIds(family) ==
    [debian |-> {"debian", "ubuntu"}, rhel |-> {"rhel", "centos", "rocky"},
     fedora |-> {"fedora"}, arch |-> {"arch"}, suse |-> {"opensuse-leap", "sles"},
     alpine |-> {"alpine"}, custom |-> {}][family]

LikeTokens(family) ==
    [debian |-> {"debian", "ubuntu"}, rhel |-> {"rhel", "centos"},
     fedora |-> {"fedora"}, arch |-> {"arch"}, suse |-> {"suse", "opensuse"},
     alpine |-> {"alpine"}, custom |-> {}][family]

HasVncPackages(vnc, family) ==
    /\ family # "custom"
    /\ vnc = "tightvnc" => family \in {"debian", "suse"}

HasRuntimePackages(runtime, family) ==
    \/ runtime = "docker" /\ family \in {"debian", "arch", "alpine"}
    \/ runtime = "podman" /\ family # "custom"

\* The command xstartup runs; "auto", "none" and "custom" have none.
HasSessionArgv(desktop) == desktop \in Desktops

-----------------------------------------------------------------------------
(* Detection *)

\* RHEL before the Fedora that its clones also name.
Precedence == <<"debian", "rhel", "fedora", "arch", "suse", "alpine">>

\* resolve_platform: the exact ID, then ID_LIKE in the order of the families.
Platform(id, like) ==
    LET own == {f \in Families : id \in OsIds(f)}
        ranks == {i \in DOMAIN Precedence : LikeTokens(Precedence[i]) \cap like # {}}
    IN  CASE own # {} -> CHOOSE f \in own : TRUE
          [] own = {} /\ ranks # {} -> Precedence[Min(ranks)]
          [] OTHER -> "custom"

\* A sign is enough, also of an init system that is installed but not running.
InitSystemOf(host) ==
    CASE host.pid1 = "systemd" \/ "systemd" \in host.signs -> "systemd"
      [] host.pid1 # "systemd" /\ "systemd" \notin host.signs
           /\ "openrc" \in host.signs -> "openrc"
      [] host.pid1 # "systemd" /\ host.signs \subseteq {"runit", "s6"}
           /\ host.signs # {} -> IF "runit" \in host.signs THEN "runit" ELSE "s6"
      [] OTHER -> "none"

\* By its variables: an X11 client finds DISPLAY in a Wayland session as well.
DisplayServerOf(host) ==
    CASE "XDG_SESSION_TYPE" \in host.env -> host.session
      [] "XDG_SESSION_TYPE" \notin host.env /\ "WAYLAND_DISPLAY" \in host.env ->
            "wayland"
      [] host.env = {"DISPLAY"} -> "x11"
      [] OTHER -> "none"

Detect(host) ==
    [family |-> Platform(host.id, host.like), init |-> InitSystemOf(host),
     managers |-> host.commands, sessions |-> host.desktops,
     display |-> DisplayServerOf(host), path |-> host.path, invoker |-> host.invoker]

-----------------------------------------------------------------------------
(* Resolution *)

User(facts, cfg) ==
    CASE cfg.user # "" -> cfg.user
      [] cfg.user = "" /\ facts.invoker # "root" -> facts.invoker
      [] OTHER -> Guacdesk

\* Only the account that the planner invents is created unasked.
CreateUser(facts, cfg) == cfg.create \/ (cfg.user = "" /\ facts.invoker = "root")

Runtime(facts, cfg) ==
    CASE cfg.runtime # "auto" -> cfg.runtime
      [] cfg.runtime = "auto" /\ "docker" \in facts.path -> "docker"
      [] cfg.runtime = "auto" /\ facts.path = {"podman"} -> "podman"
      [] OTHER -> IF facts.family \in {"debian", "arch", "alpine"} THEN "docker"
                  ELSE "podman"

\* The deployment of Guacamole follows from the profile.
Compose(cfg) == cfg.profile = "hybrid"

Proxy(cfg) ==
    CASE cfg.profile = "vnc-only" -> "none"
      [] cfg.profile = "external" -> "external"
      [] OTHER -> cfg.proxy

Selected(cfg) == IF cfg.desktopOn THEN cfg.environment ELSE "none"

\* desktop=auto: exactly one of the built-in desktops is there.
Detected(facts) ==
    IF \E d \in Desktops : facts.sessions = {d}
    THEN CHOOSE d \in Desktops : facts.sessions = {d} ELSE "auto"

Resolved(facts, cfg) ==
    IF Selected(cfg) = "auto" THEN Detected(facts) ELSE Selected(cfg)

-----------------------------------------------------------------------------
(* Rules: each is the set of objections it raises *)

Objection(name, violated) == IF violated THEN {name} ELSE {}

PlatformErrors(facts) ==
    Objection("platform", facts.family = "custom")
      \cup Objection("init", facts.init \notin ServiceInit(facts.family))

PackageErrors(facts, cfg) ==
    Objection("vnc packages",
              /\ cfg.vncOn /\ cfg.vnc \notin Unmanaged
              /\ ~HasVncPackages(cfg.vnc, facts.family))

\* Faulty variant: a virtual server is planned without a desktop.
AnyDesktopWillDo(facts, cfg) ==
    Objection("no single session",
              Selected(cfg) = "auto" /\ Detected(facts) = "auto")

DesktopErrors(facts, cfg) ==
    Objection("no single session",
              Selected(cfg) = "auto" /\ Detected(facts) = "auto")
      \cup Objection("no desktop",
                     cfg.vncOn /\ cfg.vnc \in Virtual /\ Selected(cfg) = "none")

\* The session that a VNC server would serve is `desktop`.
ModeErrors(facts, cfg, desktop) ==
    Objection("compositor", /\ cfg.vnc = "tightvnc"
                            /\ desktop \in {"gnome", "kde", "cinnamon"})
      \cup Objection("x11vnc display", /\ cfg.vnc = "x11vnc"
                                       /\ facts.display = "wayland")
      \cup Objection("wayvnc display", /\ cfg.vnc = "wayvnc"
                                       /\ facts.display = "x11")
      \cup Objection("wayvnc session", /\ cfg.vnc = "wayvnc"
                                       /\ desktop \in Desktops)

\* Faulty variant: the mode is validated against the selection, not against the
\* desktop it resolves to.
VncErrorsUnresolved(facts, cfg) ==
    IF cfg.vncOn THEN ModeErrors(facts, cfg, Selected(cfg)) ELSE {}

VncErrors(facts, cfg) ==
    IF cfg.vncOn THEN ModeErrors(facts, cfg, Resolved(facts, cfg)) ELSE {}

\* The rules on authentication ask for the server even if it is not managed.
PlannerErrors(facts, cfg) ==
    Objection("native", cfg.profile = "native")
      \cup Objection("package manager",
                     /\ Manager(facts.family) # "custom"
                     /\ Manager(facts.family) \notin facts.managers)
      \cup Objection("runtime", Compose(cfg) /\ Runtime(facts, cfg) = "none")
      \cup Objection("proxy", Proxy(cfg) \notin Proxies \ {"traefik"})
      \cup Objection("tls", cfg.tls \notin {"off", "external"})
      \cup Objection("web listener", ~cfg.webLocal /\ cfg.tls = "off")
      \cup Objection("proxy listener", /\ Proxy(cfg) \notin {"none", "external"}
                                       /\ ~cfg.proxyLocal /\ cfg.tls = "off")
      \cup Objection("caddy", Proxy(cfg) = "caddy")
      \cup Objection("scope", /\ cfg.vncOn /\ cfg.vnc \notin Unmanaged
                              /\ cfg.scope # "system")
      \cup Objection("wayvnc", cfg.vnc = "wayvnc")
      \cup Objection("x11vnc password", cfg.vnc = "x11vnc" /\ cfg.auth # "none")
      \cup Objection("virtual password", /\ cfg.vnc \in Virtual
                                         /\ cfg.auth # "password")
      \cup Objection("gated", cfg.gated)

Errors(facts, cfg) ==
    PlatformErrors(facts) \cup PackageErrors(facts, cfg)
      \cup DesktopErrors(facts, cfg) \cup VncErrors(facts, cfg)
      \cup PlannerErrors(facts, cfg)

\* The lowest tier of the providers; no combination is verified yet.
Level(facts, cfg) ==
    IF \/ Errors(facts, cfg) # {}
       \/ facts.family = "custom" \/ Selected(cfg) = "custom"
       \/ cfg.vncOn /\ cfg.vnc = "custom"
    THEN "unsupported" ELSE "experimental"

-----------------------------------------------------------------------------
(* Steps *)

When(cond, steps) == IF cond THEN steps ELSE <<>>

Managed(cfg) == cfg.vncOn /\ cfg.vnc \notin Unmanaged

StackSteps == <<"guacamole-secrets", "guacamole-schema", "guacamole-compose",
                "database-password", "guacamole-admin">>

\* Faulty variant: the connection is made for every VNC server.
ConnectionForAll(facts, cfg) ==
    <<"target-user", "packages">>
      \o When(Managed(cfg), <<"vnc-config", "vnc-service">>)
      \o When(Compose(cfg), StackSteps \o <<"guacamole-connection">>)
      \o When(Proxy(cfg) \notin {"none", "external"}, <<"reverse-proxy">>)

Steps(facts, cfg) ==
    <<"target-user", "packages">>
      \o When(Managed(cfg), <<"vnc-config", "vnc-service">>)
      \o When(Compose(cfg),
              StackSteps \o When(Managed(cfg) /\ cfg.vnc # "wayvnc",
                                 <<"guacamole-connection">>))
      \o When(Proxy(cfg) \notin {"none", "external"}, <<"reverse-proxy">>)

\* Package groups the packages step sees to.
Packages(facts, cfg) ==
    When(cfg.desktopOn /\ cfg.environment \in Desktops, <<cfg.environment>>)
      \o When(Managed(cfg), <<cfg.vnc>>)
      \o When(Compose(cfg) /\ HasRuntimePackages(Runtime(facts, cfg), facts.family),
              <<Runtime(facts, cfg)>>)
      \o When(Proxy(cfg) \in {"nginx", "apache"}, <<Proxy(cfg)>>)

Build(facts, cfg) ==
    [level |-> Level(facts, cfg),
     steps |-> IF Errors(facts, cfg) = {} THEN Steps(facts, cfg) ELSE <<>>,
     packages |-> {Packages(facts, cfg)[i] : i \in DOMAIN Packages(facts, cfg)},
     user |-> User(facts, cfg), create |-> CreateUser(facts, cfg),
     runtime |-> Runtime(facts, cfg), compose |-> Compose(cfg),
     manager |-> Manager(facts.family), init |-> facts.init, proxy |-> Proxy(cfg),
     desktop |-> cfg.environment, vnc |-> cfg.vnc, auth |-> cfg.auth]

-----------------------------------------------------------------------------
(* What a step needs, that is known before the first one is executed *)

\* A step raises at once unless its requirement holds.
CanRun(step, plan, facts) ==
    CASE step = "packages" -> plan.manager \in facts.managers
      [] step = "vnc-config" ->
            /\ plan.vnc \in Virtual => HasSessionArgv(plan.desktop)
            /\ plan.vnc # "wayvnc"
            /\ ~(plan.vnc = "x11vnc" /\ plan.auth = "password")
      [] step = "vnc-service" -> plan.init \in {"systemd", "openrc"}
      [] step = "guacamole-schema" -> plan.runtime \in Runtimes
      [] step = "guacamole-compose" -> plan.runtime \in plan.packages
      [] step = "reverse-proxy" -> plan.proxy \in {"nginx", "apache", "caddy"}
      [] OTHER -> TRUE

\* Secrets a step leaves for later ones, in memory and below install_root.
Provides(step, plan) ==
    CASE step = "vnc-config" ->
            IF plan.auth = "password" THEN {"vnc password"} ELSE {}
      [] step = "guacamole-secrets" -> {"database password", "admin password"}
      [] OTHER -> {}

Reads(step, plan) ==
    CASE step = "guacamole-schema" -> {"admin password"}
      [] step = "guacamole-compose" -> {"database password"}
      [] step = "database-password" -> {"database password"}
      [] step = "guacamole-admin" -> {"admin password"}
      [] step = "guacamole-connection" ->
            IF plan.auth = "password" THEN {"vnc password"} ELSE {}
      [] OTHER -> {}

-----------------------------------------------------------------------------
(* Properties of one plan *)

Supported(plan) == plan.level # "unsupported"

\* A supported plan has no step that is bound to raise, once earlier steps have
\* changed the host: what a step refuses, the planner has refused before.  There
\* are two gaps: desktop=auto (see AutoUsable), and a runtime that is on the host or
\* asked for although the family has no packages of it.
StepsCanRun(facts, cfg, plan) ==
    Supported(plan) =>
        \A i \in DOMAIN plan.steps :
            \/ CanRun(plan.steps[i], plan, facts)
            \/ plan.steps[i] = "vnc-config" /\ Selected(cfg) = "auto"
            \/ /\ plan.steps[i] = "guacamole-compose"
               /\ ~HasRuntimePackages(plan.runtime, facts.family)

\* Whatever secret a step reads, a step before it in the same plan has provided.
SecretsProvided(plan) ==
    \A i \in DOMAIN plan.steps :
        Reads(plan.steps[i], plan)
          \subseteq UNION {Provides(plan.steps[j], plan) : j \in 1..(i - 1)}

\* The combinations that docs/SUPPORT_MATRIX.md names as unsupported, of managed
\* VNC servers with the desktop that a session would really run, are refused.  Of
\* the display server that is known only if sudo has not removed the variables that
\* tell Wayland from X11: DISPLAY alone looks like X11.
MatrixHonoured(host, facts, cfg, plan) ==
    Supported(plan) /\ cfg.vncOn =>
        /\ facts.family # "custom"
        /\ Selected(cfg) # "custom"
        /\ cfg.vnc # "custom"
        /\ ~(facts.family = "alpine" /\ facts.init = "systemd")
        /\ cfg.vnc = "x11vnc" /\ host.env \notin {{}, {"DISPLAY"}} =>
            host.session # "wayland"
        /\ cfg.vnc = "wayvnc" => Resolved(facts, cfg) \notin Desktops
        /\ cfg.vnc \in Virtual => Resolved(facts, cfg) # "none"
        /\ cfg.vnc = "tightvnc" =>
            /\ Resolved(facts, cfg) \notin {"gnome", "kde", "cinnamon"}
            /\ facts.family \notin {"rhel", "fedora", "arch", "alpine"}

\* desktop=auto is usable when exactly one known X11 session is found
\* (docs/SUPPORT_MATRIX.md): a supported plan for it can be executed.
AutoUsable(facts, cfg, plan) ==
    Supported(plan) /\ Selected(cfg) = "auto" =>
        \A i \in DOMAIN plan.steps :
            plan.steps[i] = "vnc-config" => CanRun(plan.steps[i], plan, facts)
=============================================================================
