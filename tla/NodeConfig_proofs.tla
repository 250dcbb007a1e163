--------------------------- MODULE NodeConfig_proofs ---------------------------
(***************************************************************************)
(* Proofs about NodeConfig, for whatever files, shells and hosts an up may *)
(* find, as many of them as there are.                                     *)
(***************************************************************************)
EXTENDS NodeConfig, TLAPS

\* The node the container was made for, and what was asked for it.
BuiltFor == Resolve(built.file, built.shell)
AskedFor == Created(built.file, BuiltFor, built.host, None)

\* Container c has the settings of a, but for what docker update changes and the address.
Alike(c, a) ==
    /\ c.image = a.image
    /\ c.hostname = a.hostname
    /\ c.entrypoint = a.entrypoint
    /\ c.cmd = a.cmd
    /\ c.env = a.env
    /\ c.dns = a.dns
    /\ c.privileged = a.privileged
    /\ c.runtime = a.runtime
    /\ c.binds = a.binds
    /\ c.kernel = a.kernel
    /\ c.caps = a.caps
    /\ c.ports = a.ports
    /\ c.hosts = a.hosts

\* The container is as it was built, from a file that was valid.
Origin ==
    cont # None =>
        /\ Valid(built.file, BuiltFor)
        /\ Alike(cont, AskedFor)
        /\ ~tampered => cont.cpus = AskedFor.cpus /\ cont.memory = AskedFor.memory

IInv == TypeOK /\ Origin /\ TellsOrApplies

-----------------------------------------------------------------------------
(* What Resolve and Created come to, setting by setting. *)

LEMMA ResolvedIs ==
    ASSUME NEW file, NEW shell
    PROVE  /\ Resolve(file, shell).ip = file.node.ip
           /\ Resolve(file, shell).runner = file.node.runner
           /\ Resolve(file, shell).entrypoint = file.node.entrypoint
           /\ Resolve(file, shell).mounts = file.node.mounts
           /\ Resolve(file, shell).ports = file.node.ports
           /\ Resolve(file, shell).image =
                 Or(Or(Expand(shell, file.node.image), file.defaults.image), DefaultImage)
           /\ Resolve(file, shell).hostname = Or(file.node.hostname, file.node.name)
           /\ Resolve(file, shell).runtime = Or(file.node.runtime, file.defaults.runtime)
           /\ Resolve(file, shell).privileged =
                 Privileged(file.node, file.defaults, Or(file.node.runtime, file.defaults.runtime))
           /\ Resolve(file, shell).caps =
                 Caps(file.node, IsVM(Or(file.node.runtime, file.defaults.runtime)) /\ ~file.node.runner)
           /\ Resolve(file, shell).cmd =
                 (IF IsVM(Or(file.node.runtime, file.defaults.runtime)) /\ ~file.node.runner
                     /\ ~Given(file.node.entrypoint) /\ ~Given(file.node.cmd)
                  THEN Shim ELSE file.node.cmd)
    BY DEF Resolve

LEMMA CreatedIs ==
    ASSUME NEW file, NEW n, NEW host, NEW a
    PROVE  /\ Created(file, n, host, a).image = n.image
           /\ Created(file, n, host, a).hostname = n.hostname
           /\ Created(file, n, host, a).entrypoint = n.entrypoint
           /\ Created(file, n, host, a).cmd = n.cmd
           /\ Created(file, n, host, a).env = n.env
           /\ Created(file, n, host, a).dns = NodeDNS(file)
           /\ Created(file, n, host, a).privileged = n.privileged
           /\ Created(file, n, host, a).runtime = Or(n.runtime, "runc")
           /\ Created(file, n, host, a).binds = BindsOf(n)
           /\ Created(file, n, host, a).kernel = (IF IsVM(n.runtime) THEN KernelConfig(host) ELSE None)
           /\ Created(file, n, host, a).caps = (IF n.privileged THEN {} ELSE n.caps)
           /\ Created(file, n, host, a).ports = Bindings(n.ports)
           /\ Created(file, n, host, a).hosts = ExtraHosts(file.peer)
           /\ Created(file, n, host, a).cpus = n.cpus
           /\ Created(file, n, host, a).memory = (IF Given(n.memory) THEN Bytes[n.memory] ELSE None)
           /\ Created(file, n, host, a).addr = Or(n.ip, a)
    BY DEF Created

\* Only the address depends on the address it is given.
LEMMA CreatedAlike ==
    ASSUME NEW file, NEW n, NEW host, NEW a
    PROVE  /\ Alike(Created(file, n, host, a), Created(file, n, host, None))
           /\ Created(file, n, host, a).cpus = Created(file, n, host, None).cpus
           /\ Created(file, n, host, a).memory = Created(file, n, host, None).memory
    BY DEF Created, Alike

LEMMA CreatedContainer ==
    ASSUME NEW s \in Situations, NEW a,
           Or(Resolve(s.file, s.shell).ip, a) \in UNION {Addrs[x] : x \in DOMAIN Addrs}
    PROVE  Created(s.file, Resolve(s.file, s.shell), s.host, a) \in Container
<1> DEFINE n == Resolve(s.file, s.shell)
           e == Created(s.file, n, s.host, None)
           c == Created(s.file, n, s.host, a)
           b == Or(n.ip, a)
<1>1. c = [image |-> e.image, hostname |-> e.hostname, entrypoint |-> e.entrypoint,
           cmd |-> e.cmd, env |-> e.env, dns |-> e.dns, privileged |-> e.privileged,
           runtime |-> e.runtime, binds |-> e.binds, kernel |-> e.kernel, caps |-> e.caps,
           ports |-> e.ports, hosts |-> e.hosts, cpus |-> e.cpus, memory |-> e.memory,
           addr |-> b]
    BY DEF Created
<1>2. \A f : e[f] \in Asked(f)
    BY DEF Asked
<1>3. /\ e.image \in Asked("image") /\ e.hostname \in Asked("hostname")
      /\ e.entrypoint \in Asked("entrypoint") /\ e.cmd \in Asked("cmd")
      /\ e.env \in Asked("env") /\ e.dns \in Asked("dns")
      /\ e.privileged \in Asked("privileged") /\ e.runtime \in Asked("runtime")
      /\ e.binds \in Asked("binds") /\ e.kernel \in Asked("kernel")
      /\ e.caps \in Asked("caps") /\ e.ports \in Asked("ports")
      /\ e.hosts \in Asked("hosts") /\ e.cpus \in Asked("cpus")
      /\ e.memory \in Asked("memory")
    BY <1>2
<1>4. b \in UNION {Addrs[x] : x \in DOMAIN Addrs}
    OBVIOUS
<1> HIDE DEF e, c, n, b
<1>5. c \in Container
    BY <1>1, <1>3, <1>4 DEF Container
<1>6. QED
    BY <1>5 DEF c, n

-----------------------------------------------------------------------------
(* Drift, setting by setting. *)

NoDrift(c, n) ==
    /\ c.image = n.image
    /\ Given(n.entrypoint) => c.entrypoint = n.entrypoint
    /\ Given(n.cmd) => c.cmd = n.cmd
    /\ ~EnvDrifted(c, n)
    /\ c.privileged = n.privileged
    /\ ~RuntimeDrifted(c, n)
    /\ Given(n.cpus) => c.cpus = n.cpus
    /\ Given(n.memory) => c.memory = Bytes[n.memory]
    /\ \A m \in n.mounts : Abs[m] \in c.binds
    /\ \A p \in n.ports : PortBound(c, p)

LEMMA DriftNone ==
    ASSUME NEW c, NEW n
    PROVE  Drift(c, n) = {} <=> NoDrift(c, n)
<1>1. ASSUME NoDrift(c, n) PROVE Drift(c, n) = {}
    BY <1>1 DEF Drift, NoDrift
<1>2. ASSUME Drift(c, n) = {} PROVE NoDrift(c, n)
  <2>1. \A f : f \notin Drift(c, n)
      BY <1>2
  <2>2. c.image = n.image
      BY <2>1 DEF Drift
  <2>3. Given(n.entrypoint) => c.entrypoint = n.entrypoint
      BY <2>1 DEF Drift
  <2>4. Given(n.cmd) => c.cmd = n.cmd
      BY <2>1 DEF Drift
  <2>5. ~EnvDrifted(c, n)
      BY <2>1 DEF Drift
  <2>6. c.privileged = n.privileged
      BY <2>1 DEF Drift
  <2>7. ~RuntimeDrifted(c, n)
      BY <2>1 DEF Drift
  <2>8. Given(n.cpus) => c.cpus = n.cpus
      BY <2>1 DEF Drift
  <2>9. Given(n.memory) => c.memory = Bytes[n.memory]
      BY <2>1 DEF Drift
  <2>10. \A m \in n.mounts : Abs[m] \in c.binds
      BY <2>1 DEF Drift
  <2>11. \A p \in n.ports : PortBound(c, p)
      BY <2>1 DEF Drift
  <2>12. QED
      BY <2>2, <2>3, <2>4, <2>5, <2>6, <2>7, <2>8, <2>9, <2>10, <2>11 DEF NoDrift
<1>3. QED
    BY <1>1, <1>2

\* A container as it was created shows no drift: what inspect reports is compared
\* with what was asked for in the form Docker reports it.
LEMMA AlikeNoDrift ==
    ASSUME NEW file, NEW n, NEW host, NEW c, Alike(c, Created(file, n, host, None)),
           c.cpus = Created(file, n, host, None).cpus,
           c.memory = Created(file, n, host, None).memory
    PROVE  NoDrift(c, n)
<1>1. /\ c.image = n.image /\ c.entrypoint = n.entrypoint /\ c.cmd = n.cmd /\ c.env = n.env
      /\ c.privileged = n.privileged /\ c.runtime = Or(n.runtime, "runc")
      /\ c.binds = BindsOf(n) /\ c.ports = Bindings(n.ports) /\ c.cpus = n.cpus
      /\ c.memory = IF Given(n.memory) THEN Bytes[n.memory] ELSE None
    BY CreatedIs DEF Alike
<1>2. ~EnvDrifted(c, n)
    BY <1>1 DEF EnvDrifted
<1>3. ~RuntimeDrifted(c, n)
    BY <1>1 DEF RuntimeDrifted, Or, Given
<1>4. \A m \in n.mounts : Abs[m] \in c.binds
    BY <1>1 DEF BindsOf
<1>5. \A p \in n.ports : PortBound(c, p)
  <2> SUFFICES ASSUME NEW p \in n.ports PROVE \E b \in c.ports : b.nat = NatPort(p)
      BY DEF PortBound
  <2> DEFINE b == [nat |-> NatPort(p), ip |-> ParsePort(p).ip, host |-> ParsePort(p).host]
  <2>1. b \in c.ports /\ b.nat = NatPort(p)
      BY <1>1 DEF Bindings
  <2>2. QED
      BY <2>1
<1>6. QED
    BY <1>1, <1>2, <1>3, <1>4, <1>5 DEF NoDrift

\* A container without drift has what the file asks for, whatever it was built from:
\* the settings that drift does not look at are those that Unseen names.
LEMMA NoDriftApplied ==
    ASSUME NEW c \in Container, NEW file, NEW n, NEW host, NoDrift(c, n),
           {"authorized_keys", "id_ed25519"} \subseteq c.binds
    PROVE  /\ {f \in DOMAIN c \ {"kernel", "addr"} : c[f] # Created(file, n, host, c.addr)[f]}
                 \subseteq Unseen(n) \cup {"env", "binds", "ports"}
           /\ HasAll(c, n)
<1> DEFINE fresh == Created(file, n, host, c.addr)
<1>1. /\ fresh.image = n.image /\ fresh.entrypoint = n.entrypoint /\ fresh.cmd = n.cmd
      /\ fresh.privileged = n.privileged /\ fresh.runtime = Or(n.runtime, "runc")
      /\ fresh.cpus = n.cpus
      /\ fresh.memory = IF Given(n.memory) THEN Bytes[n.memory] ELSE None
    BY CreatedIs
<1> HIDE DEF fresh
<1>2. DOMAIN c = {"image", "hostname", "entrypoint", "cmd", "env", "dns", "privileged",
                  "runtime", "binds", "kernel", "caps", "ports", "hosts", "cpus", "memory",
                  "addr"}
    BY DEF Container
<1>3. c.image = fresh.image /\ c.privileged = fresh.privileged
    BY <1>1 DEF NoDrift
<1>4. /\ "entrypoint" \in Unseen(n) \/ c.entrypoint = fresh.entrypoint
      /\ "cmd" \in Unseen(n) \/ c.cmd = fresh.cmd
      /\ "cpus" \in Unseen(n) \/ c.cpus = fresh.cpus
    BY <1>1 DEF NoDrift, Unseen
<1>5. "memory" \in Unseen(n) \/ c.memory = fresh.memory
    BY <1>1 DEF NoDrift, Unseen
<1>6. "runtime" \in Unseen(n) \/ c.runtime = fresh.runtime
    BY <1>1 DEF NoDrift, RuntimeDrifted, Unseen, Or, Given
<1>7. {"hostname", "dns", "caps", "hosts"} \subseteq Unseen(n)
    BY DEF Unseen
<1>8. ASSUME NEW f \in DOMAIN c \ {"kernel", "addr"}, c[f] # fresh[f]
      PROVE  f \in Unseen(n) \cup {"env", "binds", "ports"}
    BY <1>2, <1>3, <1>4, <1>5, <1>6, <1>7, <1>8
<1>9. HasAll(c, n)
  <2>1. \A k \in DOMAIN n.env : k \in DOMAIN c.env /\ c.env[k] = n.env[k]
      BY DEF NoDrift, EnvDrifted
  <2>2. BindsOf(n) \ {"/lib/modules"} \subseteq c.binds
      BY DEF NoDrift, BindsOf, Modules
  <2>3. {NatPort(p) : p \in n.ports} \subseteq {b.nat : b \in c.ports}
      BY DEF NoDrift, PortBound
  <2>4. QED
      BY <2>1, <2>2, <2>3 DEF HasAll
<1>10. QED
    BY <1>8, <1>9 DEF fresh

-----------------------------------------------------------------------------
(* What the file's rules make of a node, for whatever file. *)

\* A runner or a micro-VM is privileged only by its own entry.
LEMMA PrivilegedByOwn ==
    ASSUME NEW n, NEW d, NEW runtime
    PROVE  /\ Given(n.privileged) => Privileged(n, d, runtime) = n.privileged
           /\ ~Given(n.privileged) /\ (n.runner \/ IsVM(runtime)) => ~Privileged(n, d, runtime)
    BY DEF Privileged

LEMMA PrivilegedBoolean ==
    ASSUME NEW s \in Situations
    PROVE  Resolve(s.file, s.shell).privileged \in BOOLEAN
<1>1. {s.file.node.privileged, s.file.defaults.privileged} \subseteq BOOLEAN \cup {None}
    BY ConfigAssumption
<1> DEFINE n == s.file.node
           d == s.file.defaults
           runtime == Or(n.runtime, d.runtime)
<1>2. Resolve(s.file, s.shell).privileged = Privileged(n, d, runtime)
    BY ResolvedIs
<1>3. /\ Given(n.privileged) => n.privileged \in BOOLEAN
      /\ Or(d.privileged, TRUE) \in BOOLEAN
    BY <1>1 DEF Given, Or
<1> HIDE DEF n, d, runtime
<1>4. Privileged(n, d, runtime) \in BOOLEAN
    BY <1>3 DEF Privileged
<1>5. QED
    BY <1>2, <1>4

\* The runtime of the container tells whether the node has its own kernel.
LEMMA OwnKernel ==
    ASSUME NEW runtime
    PROVE  IsVM(Or(runtime, "runc")) <=> IsVM(runtime)
    BY DEF IsVM, Or

\* The build config that is found first is that of the kernel that boots, if it has one.
LEMMA KernelFound ==
    ASSUME NEW s \in Situations, Boots(s.host) \in s.host.configs
    PROVE  KernelConfig(s.host) = Boots(s.host)
<1> DEFINE h == s.host
           k == Boots(h)
           places == KernelPlaces(h)
           found == {i \in 0..Len(places) : Given(KernelAt(h, i)) /\ KernelAt(h, i) \in h.configs}
<1>1. /\ None \notin h.configs
      /\ RuntimeKernel(h) \in {None, k}
      /\ ~h.known => h.conf["root"] = None
    BY ConfigAssumption
<1>2. k # None
    BY <1>1
<1>3. KernelAt(h, 0) \in {None, k}
    BY <1>1 DEF KernelAt
<1>4. places[1] = "etc" /\ Len(places) \in {3, 4}
      /\ (h.known => places[2] = "root")
    BY DEF KernelPlaces
<1>5. KernelAt(h, 1) = h.conf["etc"]
    BY <1>4 DEF KernelAt
<1>6. \E m \in found : /\ \A j \in found : m <= j
                       /\ KernelAt(h, m) = k
  <2>1. CASE 0 \in found
    <3>1. KernelAt(h, 0) = k
        BY <1>3, <2>1 DEF Given
    <3>2. QED
        BY <2>1, <3>1
  <2>2. CASE 0 \notin found /\ h.conf["etc"] # None
    <3>1. KernelAt(h, 1) = k
        BY <1>5, <2>2 DEF Boots, Or
    <3>2. 1 \in found
        BY <1>2, <1>4, <3>1 DEF Given
    <3>3. \A j \in found : 1 <= j
        BY <1>4, <2>2
    <3>4. QED
        BY <3>1, <3>2, <3>3
  <2>3. CASE 0 \notin found /\ h.conf["etc"] = None
    <3>1. k = h.conf["root"]
        BY <2>3 DEF Boots, Or
    <3>2. h.known /\ places[2] = "root"
        BY <1>1, <1>2, <1>4, <3>1
    <3>3. KernelAt(h, 2) = k
      <4>1. KernelAt(h, 2) = h.conf[places[2]]
          BY DEF KernelAt
      <4>2. QED
          BY <3>1, <3>2, <4>1
    <3>4. 2 \in found
      <4>1. 2 \in 0..Len(places)
          BY <1>4
      <4>2. Given(KernelAt(h, 2)) /\ KernelAt(h, 2) \in h.configs
          BY <1>2, <3>3 DEF Given
      <4> HIDE DEF places
      <4>3. QED
          BY <4>1, <4>2
    <3>5. 1 \notin found
        BY <1>5, <2>3 DEF Given
    <3>6. \A j \in found : 2 <= j
        BY <1>4, <2>3, <3>5
    <3>7. QED
        BY <3>3, <3>4, <3>6
  <2>4. QED
      BY <2>1, <2>2, <2>3
<1>7. \A i \in found, m \in found :
         (\A j \in found : i <= j) /\ (\A j \in found : m <= j) => i = m
    BY <1>4
<1>8. KernelConfig(h) = IF found = {} THEN None
                        ELSE KernelAt(h, CHOOSE i \in found : \A j \in found : i <= j)
    BY DEF KernelConfig
<1> HIDE DEF found, k, h
<1>9. KernelConfig(h) = k
    BY <1>6, <1>7, <1>8
<1>10. QED
    BY <1>9 DEF k, h

-----------------------------------------------------------------------------
(* What Origin gives. *)

LEMMA OriginFacts ==
    ASSUME TypeOK, Origin, cont # None
    PROVE  /\ built \in Situations
           /\ BuiltFor.runtime = Or(built.file.node.runtime, built.file.defaults.runtime)
           /\ cont.runtime = Or(BuiltFor.runtime, "runc")
           /\ IsVM(cont.runtime) <=> IsVM(BuiltFor.runtime)
           /\ cont.privileged = BuiltFor.privileged
<1>1. built \in Situations
    BY DEF TypeOK
<1>2. Alike(cont, AskedFor)
    BY DEF Origin
<1>3. cont.runtime = Or(BuiltFor.runtime, "runc") /\ cont.privileged = BuiltFor.privileged
    BY <1>2, CreatedIs DEF Alike, AskedFor
<1>4. BuiltFor.runtime = Or(built.file.node.runtime, built.file.defaults.runtime)
    BY ResolvedIs DEF BuiltFor
<1>5. QED
    BY <1>1, <1>3, <1>4, OwnKernel

LEMMA OriginGuest == TypeOK /\ Origin => GuestFit
<1> SUFFICES ASSUME TypeOK, Origin, cont # None, IsVM(cont.runtime)
             PROVE  /\ Embedded \notin cont.dns
                    /\ "/lib/modules" \in cont.binds =>
                          \E m \in built.file.node.mounts : Abs[m] = "/lib/modules"
                    /\ (cont.cmd = Shim /\ ~built.file.node.runner) =>
                          cont.privileged \/ cont.caps \cap {"ALL", "SYS_ADMIN"} # {}
    BY DEF GuestFit
<1>1. IsVM(BuiltFor.runtime) /\ Alike(cont, AskedFor) /\ Valid(built.file, BuiltFor)
    BY OriginFacts DEF Origin
<1>2. Embedded \notin cont.dns
  <2>1. cont.dns = NodeDNS(built.file)
      BY <1>1, CreatedIs DEF Alike, AskedFor
  <2>2. QED
      BY <1>1, <2>1 DEF Valid, DNSReachable
<1>3. "/lib/modules" \in cont.binds =>
         \E m \in built.file.node.mounts : Abs[m] = "/lib/modules"
  <2>1. cont.binds = BindsOf(BuiltFor)
      BY <1>1, CreatedIs DEF Alike, AskedFor
  <2>2. Modules(BuiltFor) = {}
      BY <1>1 DEF Modules, Given, IsVM
  <2>3. BuiltFor.mounts = built.file.node.mounts
      BY ResolvedIs DEF BuiltFor
  <2>4. "/lib/modules" \notin {"authorized_keys", "id_ed25519"}
      OBVIOUS
  <2>5. QED
      BY <2>1, <2>2, <2>3, <2>4 DEF BindsOf
<1>4. ASSUME ~built.file.node.runner, ~cont.privileged
      PROVE  cont.caps \cap {"ALL", "SYS_ADMIN"} # {}
  <2>1. cont.caps = IF BuiltFor.privileged THEN {} ELSE BuiltFor.caps
      BY <1>1, CreatedIs DEF Alike, AskedFor
  <2>2. cont.caps = BuiltFor.caps
      BY <1>4, <2>1, OriginFacts
  <2>3. BuiltFor.caps = Caps(built.file.node, TRUE)
      BY <1>1, <1>4, ResolvedIs, OriginFacts DEF BuiltFor
  <2>4. "ALL" \in cont.caps \/ "SYS_ADMIN" \in cont.caps
      BY <2>2, <2>3 DEF Caps
  <2>5. QED
      BY <2>4
<1>5. QED
    BY <1>2, <1>3, <1>4

LEMMA OriginOwn ==
    ASSUME TypeOK, Origin, cont # None
    PROVE  LET own == built.file.node.privileged IN
           /\ Given(own) => cont.privileged = own
           /\ ~Given(own) /\ (built.file.node.runner \/ IsVM(cont.runtime)) => ~cont.privileged
<1> DEFINE n == built.file.node
           d == built.file.defaults
           runtime == Or(n.runtime, d.runtime)
<1>1. cont.privileged = Privileged(n, d, runtime)
    BY OriginFacts, ResolvedIs DEF BuiltFor
<1>2. IsVM(cont.runtime) <=> IsVM(runtime)
    BY OriginFacts
<1>3. QED
    BY <1>1, <1>2, PrivilegedByOwn

LEMMA OriginPrivileged == TypeOK /\ Origin => PrivilegedOnPurpose
<1> DEFINE own == built.file.node.privileged
<1> SUFFICES ASSUME TypeOK, Origin, cont # None
             PROVE  /\ Given(own) => cont.privileged = own
                    /\ cont.privileged /\ (built.file.node.runner \/ IsVM(cont.runtime))
                          => TRUE \in {own, built.file.defaults.privileged}
    BY DEF PrivilegedOnPurpose
<1>1. own \in BOOLEAN \cup {None}
    BY ConfigAssumption, OriginFacts
<1>2. Given(own) => cont.privileged = own
    BY OriginOwn
<1>3. ASSUME cont.privileged, built.file.node.runner \/ IsVM(cont.runtime)
      PROVE  own = TRUE
  <2>1. Given(own)
      BY <1>3, OriginOwn
  <2>2. QED
      BY <1>1, <1>2, <1>3, <2>1 DEF Given
<1>4. QED
    BY <1>2, <1>3

LEMMA OriginKernel == TypeOK /\ Origin => KernelConfigFit
<1> SUFFICES ASSUME TypeOK, Origin, cont # None, IsVM(cont.runtime),
                    Boots(built.host) \in built.host.configs
             PROVE  cont.kernel = Boots(built.host)
    BY DEF KernelConfigFit
<1>1. built \in Situations /\ IsVM(BuiltFor.runtime) /\ Alike(cont, AskedFor)
    BY OriginFacts DEF Origin
<1>2. cont.kernel = KernelConfig(built.host)
    BY <1>1, CreatedIs DEF Alike, AskedFor
<1>3. QED
    BY <1>1, <1>2, KernelFound

-----------------------------------------------------------------------------
(* An up. *)

LEMMA NetTaken ==
    ASSUME TypeOK, NEW s \in Situations, net' \in NetFor(s.file)
    PROVE  /\ net' \in DOMAIN Addrs
           /\ net # None => net' = net
           /\ Given(s.file.subnet) => net' = s.file.subnet
    BY DEF TypeOK, NetFor

\* The node's address is one of its network's: a pinned one is checked against the
\* subnet the file pins, and up refuses a network with another.
LEMMA AddressFits ==
    ASSUME TypeOK, NEW s \in Situations, Valid(s.file, Resolve(s.file, s.shell)),
           net' \in NetFor(s.file), NEW a \in Addrs[net']
    PROVE  Or(Resolve(s.file, s.shell).ip, a) \in Addrs[net']
<1> DEFINE n == Resolve(s.file, s.shell)
<1>1. ValidAddress(s.file, n)
    BY DEF Valid
<1> HIDE DEF n
<1>2. Or(n.ip, a) \in Addrs[net']
    BY <1>1, NetTaken DEF ValidAddress, Or, Given
<1>3. QED
    BY <1>2 DEF n

LEMMA KeysBound ==
    ASSUME TypeOK, Origin, cont # None
    PROVE  {"authorized_keys", "id_ed25519"} \subseteq cont.binds
<1>1. cont.binds = BindsOf(BuiltFor)
    BY CreatedIs DEF Origin, Alike, AskedFor
<1>2. QED
    BY <1>1 DEF BindsOf

LEMMA TellsAfter ==
    ASSUME cont' \in Container, NoDrift(cont', Resolve(up.file, up.shell)'),
           {"authorized_keys", "id_ed25519"} \subseteq cont'.binds
    PROVE  TellsOrApplies'
<1> DEFINE n == Resolve(up.file, up.shell)'
           D == {f \in DOMAIN cont' \ {"kernel", "addr"} :
                    cont'[f] # Created(up'.file, n, built'.host, cont'.addr)[f]}
<1>1. D \subseteq Unseen(n) \cup {"env", "binds", "ports"} /\ HasAll(cont', n)
    BY NoDriftApplied
<1>2. Differences(cont, up.file, Resolve(up.file, up.shell))' = D
    BY DEF Differences
<1> HIDE DEF D
<1>3. QED
    BY <1>1, <1>2 DEF TellsOrApplies

LEMMA CreateStep ==
    ASSUME TypeOK, NEW s \in Situations, Valid(s.file, Resolve(s.file, s.shell)),
           net' \in NetFor(s.file), NEW recreate, NEW result \in {"created", "recreated"}, NEW warned,
           Create(s, Resolve(s.file, s.shell), recreate, result, warned)
    PROVE  IInv'
<1> DEFINE n == Resolve(s.file, s.shell)
<1>1. CASE n.image \notin s.host.images
  <2>1. cont' = None /\ built' = None /\ tampered' = FALSE /\ up' = None
      BY <1>1 DEF Create
  <2>2. TypeOK'
      BY <2>1, NetTaken DEF TypeOK
  <2>3. QED
      BY <2>1, <2>2 DEF IInv, Origin, TellsOrApplies
<1>2. CASE n.image \in s.host.images
  <2>1. PICK a \in Addrs[net'] : cont' = Created(s.file, n, s.host, a)
      BY <1>2 DEF Create
  <2>2. built' = s /\ tampered' = FALSE
        /\ up' = [file |-> s.file, shell |-> s.shell, recreate |-> recreate,
                  result |-> result, warned |-> warned]
      BY <1>2 DEF Create, Succeeded
  <2>3. net' \in DOMAIN Addrs /\ Or(n.ip, a) \in Addrs[net']
      BY <2>1, NetTaken, AddressFits
  <2>4. cont' \in Container
      BY <2>1, <2>3, CreatedContainer
  <2>5. /\ Given(cont'.image) /\ Given(cont'.hostname) /\ Given(cont'.runtime)
        /\ cont'.privileged \in BOOLEAN
        /\ cont'.addr \in Addrs[net'] \cup {None}
    <3>1. cont'.image = n.image /\ cont'.hostname = n.hostname /\ cont'.privileged = n.privileged
          /\ cont'.runtime = Or(n.runtime, "runc") /\ cont'.addr = Or(n.ip, a)
        BY <2>1, CreatedIs
    <3>2. Given(n.image) /\ Given(n.hostname)
        BY ResolvedIs, ConfigAssumption DEF Or, Given
    <3>3. Given(Or(n.runtime, "runc"))
        BY ConfigAssumption DEF Or, Given
    <3>4. n.privileged \in BOOLEAN
        BY PrivilegedBoolean
    <3>5. QED
        BY <2>3, <3>1, <3>2, <3>3, <3>4
  <2>6. TypeOK'
    <3>1. cont' # None /\ built' # None /\ net' # None
        BY <2>2, <2>3, <2>4, ConfigAssumption
    <3>2. up'.result \in {"created", "recreated", "moved", "kept"}
        BY <2>2
    <3>3. QED
        BY <2>2, <2>3, <2>4, <2>5, <3>1, <3>2 DEF TypeOK
  <2>7. /\ Alike(cont', Created(s.file, n, s.host, None))
        /\ cont'.cpus = Created(s.file, n, s.host, None).cpus
        /\ cont'.memory = Created(s.file, n, s.host, None).memory
      BY <2>1, CreatedAlike
  <2>8. Origin'
      BY <2>2, <2>7 DEF Origin, BuiltFor, AskedFor
  <2>9. TellsOrApplies'
    <3>1. NoDrift(cont', n)
        BY <2>7, AlikeNoDrift
    <3>2. Resolve(up.file, up.shell)' = n
        BY <2>2
    <3>3. {"authorized_keys", "id_ed25519"} \subseteq cont'.binds
        BY <2>1, CreatedIs DEF BindsOf
    <3>4. QED
        BY <2>4, <3>1, <3>2, <3>3, TellsAfter
  <2>10. QED
      BY <2>6, <2>8, <2>9 DEF IInv
<1>3. QED
    BY <1>1, <1>2

\* A new address, or none, is all that changes.
LEMMA MovedIs ==
    ASSUME NEW c \in Container,
           NEW b \in (UNION {Addrs[s] : s \in DOMAIN Addrs}) \cup {None}
    PROVE  /\ [c EXCEPT !.addr = b] \in Container
           /\ Alike([c EXCEPT !.addr = b], c)
           /\ [c EXCEPT !.addr = b].cpus = c.cpus
           /\ [c EXCEPT !.addr = b].memory = c.memory
           /\ [c EXCEPT !.addr = b].addr = b
    BY DEF Container, Alike

LEMMA ReconcileStep ==
    ASSUME TypeOK, Origin, cont # None, NEW s \in Situations,
           Valid(s.file, Resolve(s.file, s.shell)), net' \in NetFor(s.file),
           NEW recreate \in BOOLEAN, recreate => Drift(cont, Resolve(s.file, s.shell)) = {},
           Reconcile(s, Resolve(s.file, s.shell), recreate)
    PROVE  IInv'
<1> DEFINE n == Resolve(s.file, s.shell)
<1>1. net' = net /\ net' \in DOMAIN Addrs /\ cont \in Container
    BY NetTaken DEF TypeOK
<1>2. {"authorized_keys", "id_ed25519"} \subseteq cont.binds
    BY KeysBound
<1>3. CASE Moves(n)
  <2>1. PICK a \in Addrs[net'] : cont' = [cont EXCEPT !.addr = Or(n.ip, a)]
      BY <1>3 DEF Reconcile
  <2>2. UNCHANGED <<built, tampered>>
        /\ up' = [file |-> s.file, shell |-> s.shell, recreate |-> recreate,
                  result |-> "moved", warned |-> {}]
      BY <1>3 DEF Reconcile, Succeeded
  <2>3. Or(n.ip, a) \in Addrs[net']
      BY AddressFits
  <2>4. Or(n.ip, a) \in (UNION {Addrs[x] : x \in DOMAIN Addrs}) \cup {None}
      BY <1>1, <2>3
  <2>5. /\ cont' \in Container
        /\ Alike(cont', cont) /\ cont'.cpus = cont.cpus /\ cont'.memory = cont.memory
        /\ cont'.addr = Or(n.ip, a)
      BY <1>1, <2>1, <2>4, MovedIs
  <2>6. TypeOK'
    <3>1. cont' # None /\ cont'.addr \in Addrs[net']
        BY <2>3, <2>5, ConfigAssumption
    <3>2. up'.result \in {"created", "recreated", "moved", "kept"}
        BY <2>2
    <3>3. /\ cont'.privileged \in BOOLEAN
          /\ Given(cont'.image) /\ Given(cont'.hostname) /\ Given(cont'.runtime)
        BY <2>5 DEF TypeOK, Alike
    <3>4. QED
        BY <1>1, <2>2, <2>5, <3>1, <3>2, <3>3 DEF TypeOK
  <2>7. Origin'
      BY <2>2, <2>5 DEF Origin, BuiltFor, AskedFor, Alike
  <2>8. TellsOrApplies'
    <3>1. CASE recreate
      <4>1. NoDrift(cont, n)
          BY <3>1, DriftNone
      <4>2. NoDrift(cont', n)
          BY <2>5, <4>1 DEF NoDrift, Alike, EnvDrifted, RuntimeDrifted, PortBound
      <4>3. Resolve(up.file, up.shell)' = n
          BY <2>2
      <4>4. {"authorized_keys", "id_ed25519"} \subseteq cont'.binds
          BY <1>2, <2>5 DEF Alike
      <4>5. QED
          BY <2>5, <4>2, <4>3, <4>4, TellsAfter
    <3>2. CASE ~recreate
      <4>1. ~up'.recreate /\ up'.result = "moved"
          BY <2>2, <3>2
      <4>2. QED
          BY <4>1 DEF TellsOrApplies
    <3>3. QED
        BY <3>1, <3>2
  <2>9. QED
      BY <2>6, <2>7, <2>8 DEF IInv
<1>4. CASE ~Moves(n)
  <2>1. UNCHANGED <<cont, built, tampered>>
        /\ up' = [file |-> s.file, shell |-> s.shell, recreate |-> recreate,
                  result |-> "kept", warned |-> Drift(cont, n)]
      BY <1>4 DEF Reconcile, Succeeded
  <2>2. TypeOK'
      BY <1>1, <2>1 DEF TypeOK
  <2>3. Origin'
      BY <2>1 DEF Origin, BuiltFor, AskedFor
  <2>4. TellsOrApplies'
    <3>1. CASE Drift(cont, n) = {}
      <4>1. NoDrift(cont', n)
          BY <2>1, <3>1, DriftNone
      <4>2. Resolve(up.file, up.shell)' = n
          BY <2>1
      <4>3. QED
          BY <1>1, <1>2, <2>1, <4>1, <4>2, TellsAfter
    <3>2. CASE Drift(cont, n) # {}
      <4>1. ~up'.recreate /\ up'.warned # {}
          BY <2>1, <3>2
      <4>2. QED
          BY <4>1 DEF TellsOrApplies
    <3>3. QED
        BY <3>1, <3>2
  <2>5. QED
      BY <2>2, <2>3, <2>4 DEF IInv
<1>5. QED
    BY <1>3, <1>4

-----------------------------------------------------------------------------
LEMMA InitIInv == Init => IInv
    BY ConfigAssumption DEF Init, IInv, TypeOK, Origin, TellsOrApplies

LEMMA DockerUpdateStep == IInv /\ DockerUpdate => IInv'
<1> SUFFICES ASSUME IInv, DockerUpdate PROVE IInv'
    OBVIOUS
<1>1. PICK f \in {"cpus", "memory"}, x \in Sizes : cont' = [cont EXCEPT ![f] = x]
    BY DEF DockerUpdate
<1>2. cont # None /\ tampered' = TRUE /\ up' = None /\ UNCHANGED <<net, built>> /\ cont \in Container
    BY DEF DockerUpdate, IInv, TypeOK
<1>3. /\ cont' \in Container
      /\ Alike(cont', cont) /\ cont'.addr = cont.addr
    BY <1>1, <1>2 DEF Container, Alike
<1>4. TypeOK'
  <2>1. cont' # None
      BY <1>3, ConfigAssumption
  <2>2. QED
      BY <1>2, <1>3, <2>1 DEF IInv, TypeOK, Alike
<1>5. Origin'
    BY <1>2, <1>3 DEF IInv, Origin, BuiltFor, AskedFor, Alike
<1>6. QED
    BY <1>2, <1>4, <1>5 DEF IInv, TellsOrApplies

LEMMA UnpluggedStep == IInv /\ Unplugged => IInv'
<1> SUFFICES ASSUME IInv, Unplugged PROVE IInv'
    OBVIOUS
<1>1. cont # None /\ cont' = [cont EXCEPT !.addr = None] /\ up' = None
      /\ UNCHANGED <<net, built, tampered>> /\ cont \in Container
    BY DEF Unplugged, IInv, TypeOK
<1>2. /\ cont' \in Container
      /\ Alike(cont', cont) /\ cont'.addr = None
      /\ cont'.cpus = cont.cpus /\ cont'.memory = cont.memory
  <2>1. None \in (UNION {Addrs[s] : s \in DOMAIN Addrs}) \cup {None}
      OBVIOUS
  <2>2. QED
      BY <1>1, <2>1, MovedIs
<1>3. TypeOK'
  <2>1. cont' # None
      BY <1>2, ConfigAssumption
  <2>2. QED
      BY <1>1, <1>2, <2>1 DEF IInv, TypeOK, Alike
<1>4. Origin'
    BY <1>1, <1>2 DEF IInv, Origin, BuiltFor, AskedFor, Alike
<1>5. QED
    BY <1>1, <1>3, <1>4 DEF IInv, TellsOrApplies

LEMMA UpStep ==
    ASSUME IInv, NEW s \in Situations, NEW recreate \in BOOLEAN, Up(s, recreate)
    PROVE  IInv'
<1> DEFINE n == Resolve(s.file, s.shell)
<1>1. TypeOK /\ Origin /\ Valid(s.file, n) /\ net' \in NetFor(s.file)
    BY DEF Up, IInv
<1>2. CASE Create(s, n, recreate, "created", {})
    BY <1>1, <1>2, CreateStep
<1>3. CASE Create(s, n, recreate, "recreated", Drift(cont, n))
    BY <1>1, <1>3, CreateStep
<1>4. CASE cont # None /\ (recreate => Drift(cont, n) = {}) /\ Reconcile(s, n, recreate)
    BY <1>1, <1>4, ReconcileStep
<1>5. QED
    BY <1>2, <1>3, <1>4 DEF Up

LEMMA Inductive == Spec => []IInv
<1>1. IInv /\ [Next]_vars => IInv'
  <2> SUFFICES ASSUME IInv, [Next]_vars PROVE IInv'
      OBVIOUS
  <2>1. CASE \E s \in Situations : UpRefused(s)
      BY <2>1 DEF UpRefused, IInv, TypeOK, Origin, BuiltFor, AskedFor, TellsOrApplies
  <2>2. CASE Down
      BY <2>2 DEF Down, IInv, TypeOK, Origin, TellsOrApplies
  <2>3. CASE UNCHANGED vars
      BY <2>3 DEF vars, IInv, TypeOK, Origin, BuiltFor, AskedFor, TellsOrApplies, Differences
  <2>4. QED
      BY <2>1, <2>2, <2>3, UpStep, DockerUpdateStep, UnpluggedStep DEF Next
<1>2. QED
    BY <1>1, InitIInv, PTL DEF Spec

-----------------------------------------------------------------------------
(* Theorems. *)

\* The container is one that some file asks for, on the lab's network at one of its
\* addresses, and it exists exactly as long as there is something it was built from.
THEOREM TypeCorrect == Spec => []TypeOK
<1>1. IInv => TypeOK
    BY DEF IInv
<1>2. QED
    BY <1>1, Inductive, PTL

\* However a file combines runtime, defaults, caps, dns and runner, and whatever ups,
\* moves and docker updates came since, a node with its own kernel can reach its
\* resolvers, has no modules of the host and can run its shim.
THEOREM GuestsFit == Spec => []GuestFit
<1>1. IInv => GuestFit
    BY OriginGuest DEF IInv
<1>2. QED
    BY <1>1, Inductive, PTL

\* For any file, any defaults and any history of ups, a node's own entry decides its
\* privileges, and what vabbe gives to nodes by default never reaches a runner or a
\* micro-VM.
THEOREM PrivilegedOnlyOnPurpose == Spec => []PrivilegedOnPurpose
<1>1. IInv => PrivilegedOnPurpose
    BY OriginPrivileged DEF IInv
<1>2. QED
    BY <1>1, Inductive, PTL

\* The lab's defaults cannot make a runner or a micro-VM privileged, whatever the file
\* says there: lab.go:173 has it otherwise.
THEOREM DefaultsDoNotForce ==
    Spec => [](/\ cont # None
               /\ ~Given(built.file.node.privileged)
               /\ built.file.node.runner \/ IsVM(cont.runtime)
               => ~cont.privileged)
<1>1. IInv =>
         (/\ cont # None
          /\ ~Given(built.file.node.privileged)
          /\ built.file.node.runner \/ IsVM(cont.runtime)
          => ~cont.privileged)
    BY OriginOwn DEF IInv
<1>2. QED
    BY <1>1, Inductive, PTL

\* The build config a micro-VM is given belongs to the kernel it boots, whichever of
\* the places it was found from.
THEOREM KernelConfigsFit == Spec => []KernelConfigFit
<1>1. IInv => KernelConfigFit
    BY OriginKernel DEF IInv
<1>2. QED
    BY <1>1, Inductive, PTL

\* An up --recreate, and an up that warns of nothing, leaves a container with
\* everything the file asks for, whatever files it was built from before.
THEOREM TellsOrApplied == Spec => []TellsOrApplies
<1>1. IInv => TellsOrApplies
    BY DEF IInv
<1>2. QED
    BY <1>1, Inductive, PTL

\* An up that reads what the container was built from sees no drift.
THEOREM NoFalseAlarms == Spec => NoFalseAlarm
<1>1. IInv /\ [Next]_vars =>
         [(/\ cont # None /\ ~tampered /\ up' # None
           /\ up'.file = built.file /\ up'.shell = built.shell)
          => up'.result \in {"kept", "moved"} /\ up'.warned = {}]_vars
  <2> SUFFICES ASSUME IInv, Next, cont # None, ~tampered, up' # None,
                      up'.file = built.file, up'.shell = built.shell
               PROVE  up'.result \in {"kept", "moved"} /\ up'.warned = {}
      OBVIOUS
  <2>1. PICK s \in Situations, recreate \in BOOLEAN : Up(s, recreate)
      BY DEF Next, UpRefused, Down, DockerUpdate, Unplugged
  <2> DEFINE n == Resolve(s.file, s.shell)
  <2>2. CASE /\ cont # None /\ recreate /\ Drift(cont, n) # {}
             /\ Create(s, n, recreate, "recreated", Drift(cont, n))
    <3>1. up'.file = s.file /\ up'.shell = s.shell
        BY <2>2 DEF Create, Succeeded
    <3>2. n = BuiltFor
        BY <3>1 DEF BuiltFor
    <3>3. NoDrift(cont, BuiltFor)
        BY AlikeNoDrift DEF IInv, Origin, AskedFor
    <3>4. QED
        BY <2>2, <3>2, <3>3, DriftNone
  <2>3. CASE Reconcile(s, n, recreate)
    <3>1. up'.file = s.file /\ up'.shell = s.shell
          /\ \/ up'.result = "moved" /\ up'.warned = {}
             \/ up'.result = "kept" /\ up'.warned = Drift(cont, n)
        BY <2>3 DEF Reconcile, Succeeded
    <3>2. n = BuiltFor
        BY <3>1 DEF BuiltFor
    <3>3. NoDrift(cont, BuiltFor)
        BY AlikeNoDrift DEF IInv, Origin, AskedFor
    <3>4. QED
        BY <3>1, <3>2, <3>3, DriftNone
  <2>4. QED
      BY <2>1, <2>2, <2>3 DEF Up
<1>2. QED
    BY <1>1, Inductive, PTL DEF Spec, NoFalseAlarm
=============================================================================
