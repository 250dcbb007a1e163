----------------------------- MODULE NodeConfig -----------------------------
(***************************************************************************)
(* What vabbe makes of one node of vabbe.yaml: Load's expansion of         *)
(* variables, its defaults and its checks, the container createNode asks   *)
(* Docker for, and what a later up finds changed (drift) and does about it.*)
(*                                                                         *)
(* An up is one step here: what commands do to each other is VabbeLab's    *)
(* subject.  Everything an up reads - the file, the shell's environment,   *)
(* the host - may be different each time.                                  *)
(***************************************************************************)
EXTENDS Integers, Sequences

CONSTANTS
    Situations,    \* what an up may find: [file, shell, host]
    Sizes,         \* cpus or memory others give the container with docker update
    DefaultImage,
    DefaultDNS,
    Shim,          \* the command that prepares a micro-VM and hands over to systemd
    Embedded,      \* 127.0.0.11, Docker's embedded resolver
    Addrs,         \* the addresses of each subnet
    PortNum,       \* the number a port's text denotes; 0: none in 1-65535
    Lower,         \* a protocol's name in lower case
    Bytes,         \* what a memory text denotes; None: it does not parse
    Abs,           \* a bind with its source made absolute
    None           \* a setting that is not given

VARIABLES
    net,       \* the subnet of the lab's network, or None
    cont,      \* the node's container as inspect shows it, or None
    built,     \* history: the situation it was created in, or None
    tampered,  \* history: docker update changed it since
    up         \* history: the last step, when it was an up that succeeded

vars == <<net, cont, built, tampered, up>>

Or(a, b) == IF a # None THEN a ELSE b
Given(a) == a # None

-----------------------------------------------------------------------------
(* Load: variables, defaults, checks. *)

\* A reference to a variable the shell does not have stays as it is.
Expand(shell, text) == IF text \in DOMAIN shell THEN shell[text] ELSE text

\* Own kernel: everything but the default and runc.
IsVM(runtime) == runtime \notin {None, "runc"}

NodeDNS(file) == Or(file.node.dns, Or(file.defaults.dns, DefaultDNS))

\* Mutant of Privileged: the lab's default counts for micro-VMs and runners too.
PrivilegedEverywhere(n, d, runtime) ==
    IF Given(n.privileged) THEN n.privileged ELSE Or(d.privileged, TRUE)

Privileged(n, d, runtime) ==
    IF Given(n.privileged) THEN n.privileged
    ELSE IF n.runner \/ IsVM(runtime) THEN FALSE
    ELSE Or(d.privileged, TRUE)

Caps(n, vm) ==
    IF ~vm THEN n.caps
    ELSE IF n.caps = {} THEN {"ALL"} ELSE n.caps \cup {"SYS_ADMIN"}

\* The node after applyDefaults.  The file's text is expanded as a whole, and the
\* values of env once more; references are modelled in image and env.
Resolve(file, shell) ==
    LET n == file.node
        d == file.defaults
        runtime == Or(n.runtime, d.runtime)
        vm == IsVM(runtime) /\ ~n.runner
    IN [name |-> n.name, ip |-> n.ip, runner |-> n.runner, entrypoint |-> n.entrypoint,
        mounts |-> n.mounts, ports |-> n.ports,
        image |-> Or(Or(Expand(shell, n.image), d.image), DefaultImage),
        hostname |-> Or(n.hostname, n.name),
        runtime |-> runtime,
        cpus |-> Or(n.cpus, d.cpus),
        memory |-> Or(n.memory, d.memory),
        privileged |-> Privileged(n, d, runtime),
        caps |-> Caps(n, vm),
        cmd |-> IF vm /\ ~Given(n.entrypoint) /\ ~Given(n.cmd) THEN Shim ELSE n.cmd,
        env |-> [k \in DOMAIN n.env |-> Expand(shell, Expand(shell, n.env[k]))]]

\* An entry of ports, [ip:]host:node[/proto], is the parts between its colons and
\* its protocol.
WellFormed(p) == Len(p.parts) \in 1..3

ParsePort(p) ==
    LET k == Len(p.parts) IN
    [ip    |-> IF k = 3 THEN p.parts[1] ELSE None,
     host  |-> p.parts[IF k = 1 THEN 1 ELSE k - 1],
     node  |-> p.parts[k],
     proto |-> IF Given(p.proto) THEN Lower[p.proto] ELSE "tcp"]

\* Host ports are told apart by their text.
HostEnd(p) == LET s == ParsePort(p) IN <<Or(s.ip, "0.0.0.0"), s.host, s.proto>>

ValidPort(p) ==
    /\ WellFormed(p)
    /\ PortNum[ParsePort(p).host] > 0
    /\ PortNum[ParsePort(p).node] > 0
    /\ ParsePort(p).proto \in {"tcp", "udp", "sctp"}

ValidAddress(file, n) ==
    Given(n.ip) => Given(file.subnet) /\ n.ip \in Addrs[file.subnet]

\* Mutant of DNSReachable: the runtime is looked at before the defaults are applied.
DNSReachableUnresolved(file, n) == IsVM(file.node.runtime) => Embedded \notin NodeDNS(file)

\* A guest kernel does not see Docker's resolver.
DNSReachable(file, n) == IsVM(n.runtime) => Embedded \notin NodeDNS(file)

\* validate and validatePorts, of a node after applyDefaults and its peer.
Valid(file, n) ==
    LET peer == file.peer
        ports == n.ports \cup peer.ports
    IN
    /\ n.name # peer.name
    /\ Given(n.cpus) => n.cpus >= 0
    /\ Given(n.memory) => Given(Bytes[n.memory])
    /\ DNSReachable(file, n)
    /\ ValidAddress(file, n) /\ ValidAddress(file, peer)
    /\ Given(n.ip) => n.ip # peer.ip
    /\ \A p \in ports : ValidPort(p)
    /\ \A p, q \in ports : HostEnd(p) = HostEnd(q) => p = q
    /\ n.ports \cap peer.ports = {}

-----------------------------------------------------------------------------
(* The guest kernel's build config. *)

\* The kernel `kata-runtime env` names: the binary beside the runtime daemon.json
\* has, or else the one on the PATH.
RuntimeKernel(host) ==
    LET bin == IF host.known /\ host.bin["root"] # "absent" THEN "root" ELSE "path" IN
    IF host.bin[bin] \in {"absent", "broken"} THEN None ELSE host.bin[bin]

\* Mutant of KernelPlaces: the installation's own file comes before /etc.
KernelPlacesRootFirst(host) ==
    IF host.known THEN <<"root", "etc", "opt", "usr">> ELSE <<"etc", "opt", "usr">>

\* Kata's configuration files, in the order they are read.
KernelPlaces(host) ==
    IF host.known THEN <<"etc", "root", "opt", "usr">> ELSE <<"etc", "opt", "usr">>

\* The kernels in the order they are looked at.
KernelAt(host, i) ==
    IF i = 0 THEN RuntimeKernel(host) ELSE host.conf[KernelPlaces(host)[i]]

\* The first one with a build config beside it.
KernelConfig(host) ==
    LET found == {i \in 0..Len(KernelPlaces(host)) :
                    Given(KernelAt(host, i)) /\ KernelAt(host, i) \in host.configs}
    IN IF found = {} THEN None
       ELSE KernelAt(host, CHOOSE i \in found : \A j \in found : i <= j)

-----------------------------------------------------------------------------
(* The container. *)

NatPort(p) == <<ParsePort(p).node, ParsePort(p).proto>>

Bindings(ports) ==
    {[nat |-> NatPort(p), ip |-> ParsePort(p).ip, host |-> ParsePort(p).host] : p \in ports}

\* The peer in /etc/hosts, by its name and by its hostname, when its address is fixed.
ExtraHosts(peer) ==
    IF Given(peer.ip) THEN {<<h, peer.ip>> : h \in {peer.name, Or(peer.hostname, peer.name)}}
    ELSE {}

\* The host's kernel modules, for nodes that run its kernel.
Modules(n) == IF ~n.runner /\ ~Given(n.runtime) THEN {"/lib/modules"} ELSE {}

\* The user's mounts, the lab's key pair and the modules.
BindsOf(n) == {Abs[m] : m \in n.mounts} \cup {"authorized_keys", "id_ed25519"} \cup Modules(n)

\* What createNode makes of node n, at address a when the file pins none.  A setting
\* that is not given is the image's or the daemon's own: inspect shows None for the
\* first and, for the runtime, runc.
Created(file, n, host, a) ==
    [image |-> n.image, hostname |-> n.hostname, entrypoint |-> n.entrypoint, cmd |-> n.cmd,
     env |-> n.env, dns |-> NodeDNS(file), privileged |-> n.privileged,
     runtime |-> Or(n.runtime, "runc"),
     binds |-> BindsOf(n),
     kernel |-> IF IsVM(n.runtime) THEN KernelConfig(host) ELSE None,
     caps |-> IF n.privileged THEN {} ELSE n.caps,
     ports |-> Bindings(n.ports), hosts |-> ExtraHosts(file.peer),
     cpus |-> n.cpus, memory |-> IF Given(n.memory) THEN Bytes[n.memory] ELSE None,
     addr |-> Or(n.ip, a)]

\* What the node's container can show: a setting that some file asks for, or that
\* docker update gave it; Docker assigns or takes away the address.
Asked(f) == {Created(s.file, Resolve(s.file, s.shell), s.host, None)[f] : s \in Situations}

Container ==
    [image : Asked("image"), hostname : Asked("hostname"), entrypoint : Asked("entrypoint"),
     cmd : Asked("cmd"), env : Asked("env"), dns : Asked("dns"),
     privileged : Asked("privileged"), runtime : Asked("runtime"), binds : Asked("binds"),
     kernel : Asked("kernel"), caps : Asked("caps"), ports : Asked("ports"),
     hosts : Asked("hosts"), cpus : Asked("cpus") \cup Sizes,
     memory : Asked("memory") \cup Sizes,
     addr : (UNION {Addrs[s] : s \in DOMAIN Addrs}) \cup {None}]

\* The kernel a micro-VM boots: the administrator's, or the installation's.  External.
Boots(host) == Or(host.conf["etc"], host.conf["root"])

\* None is no value of anything else; `kata-runtime env` names the kernel that boots,
\* and only an installation has a configuration of its own.
ASSUME ConfigAssumption ==
    /\ None \notin Container \cup Situations \cup DOMAIN Addrs \cup {DefaultImage, "runc"}
    /\ \A s \in DOMAIN Addrs : None \notin Addrs[s]
    /\ \A s \in Situations :
          /\ Given(s.file.node.name)
          /\ s.file.node.runner \in BOOLEAN
          /\ {s.file.node.privileged, s.file.defaults.privileged} \subseteq BOOLEAN \cup {None}
          /\ None \notin s.host.configs
          /\ RuntimeKernel(s.host) \in {None, Boots(s.host)}
          /\ ~s.host.known => s.host.conf["root"] = None

-----------------------------------------------------------------------------
(* Drift. *)

\* Mutant of RuntimeDrifted: also when the node pins no runtime.
RuntimeDriftedUnpinned(c, n) == c.runtime # n.runtime

RuntimeDrifted(c, n) == Given(n.runtime) /\ c.runtime # n.runtime

\* Mutant of EnvDrifted: only missing entries count.
EnvDriftedMissing(c, n) == \E k \in DOMAIN n.env : k \notin DOMAIN c.env

EnvDrifted(c, n) ==
    \E k \in DOMAIN n.env : k \notin DOMAIN c.env \/ c.env[k] # n.env[k]

\* A port is bound when the node's side of it is.
PortBound(c, p) == \E b \in c.ports : b.nat = NatPort(p)

\* The settings node n asks for that container c does not have.
Drift(c, n) ==
    {f \in {"image", "entrypoint", "cmd", "env", "privileged", "runtime", "cpus",
            "memory", "mount", "port"} :
        \/ f = "image" /\ c.image # n.image
        \/ f = "entrypoint" /\ Given(n.entrypoint) /\ c.entrypoint # n.entrypoint
        \/ f = "cmd" /\ Given(n.cmd) /\ c.cmd # n.cmd
        \/ f = "env" /\ EnvDrifted(c, n)
        \/ f = "privileged" /\ c.privileged # n.privileged
        \/ f = "runtime" /\ RuntimeDrifted(c, n)
        \/ f = "cpus" /\ Given(n.cpus) /\ c.cpus # n.cpus
        \/ f = "memory" /\ Given(n.memory) /\ c.memory # Bytes[n.memory]
        \/ f = "mount" /\ \E m \in n.mounts : Abs[m] \notin c.binds
        \/ f = "port" /\ \E p \in n.ports : ~PortBound(c, p)}

-----------------------------------------------------------------------------
(* vabbe up: what EnsureNetwork and EnsureNode come to for this node. *)

\* Mutant of NetFor: a network that is there is taken whatever its subnet.
NetForUnchecked(file) ==
    IF net = None THEN {s \in DOMAIN Addrs : Given(file.subnet) => s = file.subnet}
    ELSE {net}

\* The network up works with: the one there is, unless the file pins another
\* subnet, or a new one.
NetFor(file) ==
    IF net = None THEN {s \in DOMAIN Addrs : Given(file.subnet) => s = file.subnet}
    ELSE {s \in {net} : Given(file.subnet) => s = file.subnet}

Succeeded(s, recreate, result, warned) ==
    up' = [file |-> s.file, shell |-> s.shell, recreate |-> recreate,
           result |-> result, warned |-> warned]

\* Load or EnsureNetwork returns an error.
UpRefused(s) ==
    /\ ~Valid(s.file, Resolve(s.file, s.shell)) \/ NetFor(s.file) = {}
    /\ up' = None
    /\ UNCHANGED <<net, cont, built, tampered>>

\* createNode, which first looks for the image, pulling it if need be: without it
\* there is no container, and with --recreate the old one is gone by then.
Create(s, n, recreate, result, warned) ==
    IF n.image \in s.host.images
      THEN /\ \E a \in Addrs[net'] : cont' = Created(s.file, n, s.host, a)
           /\ built' = s
           /\ tampered' = FALSE
           /\ Succeeded(s, recreate, result, warned)
      ELSE cont' = None /\ built' = None /\ tampered' = FALSE /\ up' = None

\* The container has no endpoint on the lab's network, or not at the pinned address.
Moves(n) == ~Given(cont.addr) \/ (Given(n.ip) /\ cont.addr # n.ip)

\* reconcile: after a new endpoint it returns before it looks for drift.
Reconcile(s, n, recreate) ==
    IF Moves(n)
      THEN /\ \E a \in Addrs[net'] : cont' = [cont EXCEPT !.addr = Or(n.ip, a)]
           /\ Succeeded(s, recreate, "moved", {})
           /\ UNCHANGED <<built, tampered>>
      ELSE /\ Succeeded(s, recreate, "kept", Drift(cont, n))
           /\ UNCHANGED <<cont, built, tampered>>

Up(s, recreate) ==
    LET n == Resolve(s.file, s.shell) IN
    /\ Valid(s.file, n)
    /\ net' \in NetFor(s.file)
    /\ \/ cont = None /\ Create(s, n, recreate, "created", {})
       \/ /\ cont # None /\ recreate /\ Drift(cont, n) # {}
          /\ Create(s, n, recreate, "recreated", Drift(cont, n))
       \/ /\ cont # None /\ (recreate => Drift(cont, n) = {})
          /\ Reconcile(s, n, recreate)

-----------------------------------------------------------------------------
(* What else happens to the container. *)

Down ==
    /\ cont # None
    /\ net' = None /\ cont' = None /\ built' = None /\ tampered' = FALSE /\ up' = None

\* docker update; once is enough to tell.
DockerUpdate ==
    /\ cont # None
    /\ ~tampered
    /\ \E f \in {"cpus", "memory"}, x \in Sizes :
          cont' = [cont EXCEPT ![f] = x] /\ cont' # cont
    /\ tampered' = TRUE
    /\ up' = None
    /\ UNCHANGED <<net, built>>

\* docker network disconnect
Unplugged ==
    /\ cont # None
    /\ Given(cont.addr)
    /\ cont' = [cont EXCEPT !.addr = None]
    /\ up' = None
    /\ UNCHANGED <<net, built, tampered>>

Init == net = None /\ cont = None /\ built = None /\ tampered = FALSE /\ up = None

Next ==
    \/ \E s \in Situations, r \in BOOLEAN : Up(s, r)
    \/ \E s \in Situations : UpRefused(s)
    \/ Down \/ DockerUpdate \/ Unplugged

Spec == Init /\ [][Next]_vars
-----------------------------------------------------------------------------
(* Properties. *)

TypeOK ==
    /\ net \in DOMAIN Addrs \cup {None}
    /\ cont \in Container \cup {None}
    /\ cont = None <=> built = None
    /\ cont # None =>
          /\ built \in Situations
          /\ cont.privileged \in BOOLEAN
          /\ Given(cont.image) /\ Given(cont.hostname) /\ Given(cont.runtime)
          /\ net # None
          /\ cont.addr \in Addrs[net] \cup {None}
    /\ tampered \in BOOLEAN
    /\ up # None => /\ cont # None
                    /\ up.result \in {"created", "recreated", "moved", "kept"}

\* An up that reads the file and the environment the container was built from finds
\* no drift, so it neither warns nor rebuilds: what inspect reports back must compare
\* equal to what was asked for, default runtime, relative mounts, parsed sizes and
\* expanded variables included.  Only docker update makes it look different.
NoFalseAlarm ==
    [][(/\ cont # None /\ ~tampered /\ up' # None
        /\ up'.file = built.file /\ up'.shell = built.shell)
       => up'.result \in {"kept", "moved"} /\ up'.warned = {}]_vars

\* Where container c is not what an up of this file would make of node n.
Differences(c, file, n) ==
    LET fresh == Created(file, n, built.host, c.addr) IN
    {f \in DOMAIN c \ {"kernel", "addr"} : c[f] # fresh[f]}

\* What up never compares, and what it compares only when the file says something.
Unseen(n) ==
    {"hostname", "dns", "caps", "hosts"}
    \cup {f \in {"entrypoint", "cmd", "runtime", "cpus", "memory"} : ~Given(n[f])}

\* Container c has what the file asks for in the settings that are compared one-sidedly;
\* it may have more.
HasAll(c, n) ==
    /\ \A k \in DOMAIN n.env : k \in DOMAIN c.env /\ c.env[k] = n.env[k]
    /\ BindsOf(n) \ {"/lib/modules"} \subseteq c.binds
    /\ {NatPort(p) : p \in n.ports} \subseteq {b.nat : b \in c.ports}

\* After an up --recreate, and after a plain up without a warning, the container is the
\* one a first up would have made, whatever the files before it said, save for settings
\* up does not look at and for what an earlier file asked for and this one no longer
\* does.  (A plain up that gave the node a new endpoint has not looked for drift.)
TellsOrApplies ==
    LET n == Resolve(up.file, up.shell) IN
    (up # None /\ (up.recreate \/ (up.result # "moved" /\ up.warned = {}))) =>
        /\ Differences(cont, up.file, n) \subseteq Unseen(n) \cup {"env", "binds", "ports"}
        /\ HasAll(cont, n)

\* A node with its own kernel gets resolvers it can reach, no modules of the host that
\* its own mounts do not name, and, when it boots by the shim, the capability the shim
\* needs: however the runtime, the defaults, caps, dns and runner of the file combine,
\* and whatever it was before.  (A runner with a cmd of its own that is the shim's has
\* opted out.)
GuestFit ==
    (cont # None /\ IsVM(cont.runtime)) =>
        /\ Embedded \notin cont.dns
        /\ "/lib/modules" \in cont.binds =>
              \E m \in built.file.node.mounts : Abs[m] = "/lib/modules"
        /\ (cont.cmd = Shim /\ ~built.file.node.runner) =>
              cont.privileged \/ cont.caps \cap {"ALL", "SYS_ADMIN"} # {}

\* A node's own entry decides whether it is privileged; a runner and a micro-VM without
\* such an entry are privileged only if the file says so at all, and never because vabbe
\* gives privileges by default.
PrivilegedOnPurpose ==
    LET own == built.file.node.privileged IN
    cont # None =>
        /\ Given(own) => cont.privileged = own
        /\ (cont.privileged /\ (built.file.node.runner \/ IsVM(cont.runtime)))
              => TRUE \in {own, built.file.defaults.privileged}

\* The build config a micro-VM is given is that of the kernel it boots, if that kernel
\* has one, wherever vabbe had to look for it.
KernelConfigFit ==
    (cont # None /\ IsVM(cont.runtime) /\ Boots(built.host) \in built.host.configs)
        => cont.kernel = Boots(built.host)

\* What `vabbe up --help` says of --recreate: "recreate nodes whose config has drifted
\* (image/env/mounts/ports/privileged/runtime/cpus/memory/entrypoint/cmd)".  The host's
\* side of a port, and whatever the file no longer asks for, are not compared.
RecreateDelivers ==
    (up # None /\ up.recreate) =>
        Differences(cont, up.file, Resolve(up.file, up.shell)) \cap
            {"image", "env", "binds", "ports", "privileged", "runtime", "cpus", "memory",
             "entrypoint", "cmd"} = {}
=============================================================================
