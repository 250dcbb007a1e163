---------------------------- MODULE MCNodeConfig ----------------------------
(* Small instances of NodeConfig: one file and what a user may change in it, *)
(* one or two settings at a time.                                            *)
EXTENDS NodeConfig, TLC

MCAddrs == "s1" :> {"a1", "a2"} @@ "s2" :> {"b1"}
MCPortNum == "80" :> 80 @@ "81" :> 81 @@ "0" :> 0
MCLower == "udp" :> "udp" @@ "UDP" :> "udp" @@ "xdp" :> "xdp"
MCBytes == "1g" :> 2 @@ "1024m" :> 2 @@ "2g" :> 4 @@ "lots" :> None
MCAbs == "./src:/src" :> "/lab/src:/src" @@ "/data:/data" :> "/data:/data"

NoEnv == <<>>
Port(parts, proto) == [parts |-> parts, proto |-> proto]

Base ==
    [net      |-> [subnet |-> None],
     defaults |-> [image |-> None, privileged |-> None, dns |-> None, runtime |-> None,
                   cpus |-> None, memory |-> None],
     node     |-> [name |-> "n1", ip |-> None, image |-> "i1", entrypoint |-> None, cmd |-> None,
                   mounts |-> {"./src:/src"}, env |-> ("E" :> "v1"), caps |-> {},
                   ports |-> {Port(<<"80">>, None)}, hostname |-> None, runner |-> FALSE,
                   privileged |-> None, dns |-> None, runtime |-> None, cpus |-> None,
                   memory |-> None],
     peer     |-> [name |-> "n2", ip |-> None, hostname |-> None, ports |-> {}]]

File(y) == [subnet |-> y.net.subnet, defaults |-> y.defaults, node |-> y.node, peer |-> y.peer]
Edit(y, e) == [y EXCEPT ![e[1]][e[2]] = e[3]]

\* Edits that decide which kernel the node runs, and with what privileges.
KindEdits ==
    {<<"node", "runtime", "kata">>, <<"node", "runtime", "runc">>,
     <<"defaults", "runtime", "kata">>, <<"node", "runner", TRUE>>}

PlainEdits ==
    {<<"node", "privileged", TRUE>>, <<"node", "privileged", FALSE>>,
     <<"defaults", "privileged", FALSE>>, <<"defaults", "privileged", TRUE>>,
     <<"node", "caps", {"NET_ADMIN"}>>, <<"node", "cmd", "c1">>, <<"node", "entrypoint", "e1">>,
     <<"node", "dns", {Embedded}>>, <<"defaults", "dns", {"d1"}>>}

OtherEdits ==
    {<<"net", "subnet", "s1">>, <<"defaults", "image", "i2">>, <<"node", "image", None>>,
     <<"node", "image", "$IMG">>, <<"node", "mounts", {}>>,
     <<"node", "mounts", {"./src:/src", "/data:/data"}>>,
     <<"node", "env", NoEnv>>, <<"node", "env", "E" :> "v2">>, <<"node", "env", "E" :> "$A">>,
     <<"node", "ports", {}>>, <<"node", "ports", {Port(<<"81", "80">>, None)}>>,
     <<"node", "ports", {Port(<<"80", "81">>, "UDP")}>>,
     <<"node", "ports", {Port(<<"l1", "80", "80">>, None)}>>,
     <<"node", "ports", {Port(<<"0", "80">>, None)}>>,
     <<"node", "ports", {Port(<<"80">>, "xdp")}>>,
     <<"peer", "ports", {Port(<<"80", "81">>, None)}>>,
     <<"node", "hostname", "h1">>, <<"node", "cpus", 2>>, <<"defaults", "cpus", 4>>,
     <<"node", "memory", "1g">>, <<"node", "memory", "1024m">>, <<"defaults", "memory", "2g">>,
     <<"node", "memory", "lots">>, <<"peer", "ip", "a2">>, <<"peer", "name", "n1">>}

Pinned == Edit(Edit(Base, <<"net", "subnet", "s1">>), <<"node", "ip", "a1">>)

Yamls ==
    {Base, Pinned, Edit(Pinned, <<"node", "ip", "a2">>),
     Edit(Pinned, <<"peer", "ip", "a1">>), Edit(Pinned, <<"peer", "ip", "a2">>),
     Edit(Pinned, <<"node", "env", "E" :> "v2">>)}
    \cup {Edit(Base, e) : e \in KindEdits \cup PlainEdits \cup OtherEdits}
    \cup {Edit(Edit(Base, e), f) :
             e \in {<<"node", "runtime", "kata">>, <<"defaults", "runtime", "kata">>}, f \in KindEdits \cup PlainEdits}
    \cup {Edit(Edit(Base, <<"node", "runner", TRUE>>), f) :
             f \in {f \in PlainEdits : f[2] = "privileged"}}

\* $A refers to another variable in the second shell; $IMG is set there.
Shells == {<<>>, "$A" :> "$B" @@ "$B" :> "v3" @@ "$IMG" :> "i2"}

NoKata ==
    [known |-> FALSE, bin |-> [b \in {"root", "path"} |-> "absent"],
     conf |-> [c \in {"etc", "root", "opt", "usr"} |-> None], configs |-> {}, images |-> {}]
Images == {"i1", "i2", DefaultImage}
\* kata-static with its runtime; without the runtime binary and with a kernel of the
\* administrator's in /etc, whose build config is there or not.
Kata(bin, etc, configs) ==
    [NoKata EXCEPT !.known = TRUE, !.bin["root"] = bin, !.conf["etc"] = etc,
                   !.conf["root"] = "k1", !.conf["opt"] = "k1", !.configs = configs,
                   !.images = Images]
Hosts == {Kata("k1", None, {"k1"}), Kata("absent", "k2", {"k1", "k2"}), Kata("broken", "k2", {"k1"})}
Plain == [NoKata EXCEPT !.images = Images]

Refs(y) == y.node.image = "$IMG" \/ y.node.env = ("E" :> "$A")
KataNode == Edit(Base, <<"node", "runtime", "kata">>)

MCSituations ==
    {[file |-> File(y), shell |-> <<>>, host |-> Kata("k1", None, {"k1"})] : y \in Yamls}
    \cup {[file |-> File(y), shell |-> sh, host |-> Plain] : y \in {y \in Yamls : Refs(y)}, sh \in Shells}
    \cup {[file |-> File(KataNode), shell |-> <<>>, host |-> h] : h \in Hosts}
    \cup {[file |-> File(Edit(Base, <<"node", "image", "i2">>)), shell |-> <<>>, host |-> NoKata]}

\* An up that leaves the container as it is leads nowhere new; neither does one that
\* builds it anew, when it could have been built first thing.
SomethingNew ==
    up # None => \/ up.result = "created" /\ up.recreate
                 \/ up.result = "moved" /\ Given(up.file.node.ip)
=============================================================================
