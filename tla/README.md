# vabbe, specified

vabbe (`src/cmd/vabbe`) turns a `vabbe.yaml` into a lab: one Docker network and
one container per node.  It keeps no daemon and no database of its own.  Its
state is what other programs keep for it - containers and networks of the Docker
daemon, a directory with a key pair, the swap devices of the host - and each
command is a short sequence of calls on that state, any of which may fail, be
cut short, or meet the calls of another command.  That is what these modules
model.

## Inventory

| part (source) | state | operations | what is hard | what must hold |
| --- | --- | --- | --- | --- |
| lab lifecycle (`cmd.go` up and down, `docker.go` EnsureNetwork, EnsureNode, createNode, reconcile, drift, removeAll) | containers and networks carrying the labels `vabbe.lab`, `vabbe.node`; what a command in flight remembers | `up`, `up --recreate`, `down`, `down --all`, `--keep-net` | look and act are separate calls; summaries and lists go stale; kills between calls; edits of `vabbe.yaml`; nodes that stop and start | success means the lab is as configured; one container per node; nothing of others is touched; repetition repairs; idempotence |
| lab key pair (`keys.go`, mounted by `docker.go` createNode) | two files under `.vabbe/<lab>`, the mounts of running nodes | EnsureKeypair (in `up`), `keygen` | two files written in turn; truncate and write; mounts that hold removed files; missing mount sources that become directories | the files are one pair; `up` keeps it; nodes reach each other |
| host-prep on Linux (`cmd_hostprep.go` prepLinux, restoreLinux) | active swap devices, the snapshot file | `host-prep --run`, `--restore --run` | snapshot read, written and used in separate calls; every failure is skipped; reboots | the prep can be undone |
| host-prep on Docker Desktop (`cmd_hostprep.go` prepDockerDesktop) | a helper container, a snapshot in the VM | the same | wait before start, forced removal of a helper in use, removals whose error is dropped | success means the script ran; every command tries to remove its helper |
| configuration (`lab.go`) | none; reads the file and the shell's environment | Load, applyDefaults, validate | defaults that depend on each other: runtime, runner, privileged, caps, cmd, dns | a micro-VM gets what its kernel needs; no privilege by accident |
| node container and drift (`docker.go` createNode, reconcile, drift; kernel config lookup) | settings of a container, its network, the host's Kata installation | compare, warn, rebuild, move | fields not compared, one-sided comparisons, values that come back in another form | a change is applied or told; no false alarm |
| readiness (`cmd.go` waitReady, `docker.go` Reachable, execCode) | deadline, address looked up, exec session | `up --wait` | slow probes, cut streams, nodes that go down again or pass on their address | ready means booted; it ends, and when |
| exec (`cmd.go` nodeExec, sshExec, `docker.go` Exec, execStatus) | exec session or ssh connection | `exec` | exit status of a session that was cut, address looked up earlier | success means it ran, there |
| node boot scripts (`image/vabbe-*`) | files in the container's own layer | run at each boot | power loss between two commands, commands that fail and whose error ends the script or is dropped | the next boot completes; pulled images stay |
| shell, ssh, logs | terminal mode | one exec session | restoring the terminal | terminal restored |
| ls, ip, dns, inventory, image build, doctor | none | read and print, one build call | - | - |

The parts meet in few places.  `up --wait` and `exec` reach into nodes that boot,
and what a node's boot does is decided by the settings `up` made it with.  `up` ensures the network, then the key pair, then
one node after the other; a node mounts the key files when it starts, so `keygen`
reaches into nodes that run.  Everything else meets in the Docker daemon.

## Modules

* `DockerDaemon` - the daemon as the calls of `docker.go` show it: containers
  with labels, names, an endpoint, a pinned and a live address; networks with a
  name, a label and a subnet.  An endpoint holds the id of its network from the
  first start on, and a container that starts looks for that one (`FindsNet`): a
  network removed under a stopped container is not replaced by a new one of the
  same name.  A call is a predicate (when it is accepted) and a
  new value of `conts` or `nets`.  External, except for the operators that build
  vabbe's requests and filters.
* `VabbeLab` - the commands.  `proc[p]` is the command terminal `p` runs: program
  counter, the configuration it loaded, the container it works on, the summary
  it was given (`seen`), the list it still has to remove (`todo`).  One action
  per API call, with the decisions taken on its answer:
  `InspectNet`/`CreateNet` are EnsureNetwork; `FindNode`, `CheckDrift`,
  `RemoveDrifted`, `CreateNode`, `StartNode` are EnsureNode and createNode;
  `RestartNode`, `DisconnectNode`, `ConnectNode`, `WarnDrift` are reconcile, with
  the branch of the code in `ReconcilePc` and `AttachPc`; `ListContainers`,
  `RemoveContainer`, `ListNetworks`, `RemoveNetwork` are Down, DownAll and
  removeAll.  `Abort` is a kill or a call that fails for its own reasons,
  `InspectFails` and `DisconnectFails` are the two errors the code drops.  The
  environment edits `vabbe.yaml`, stops and starts nodes and creates containers
  and networks that are not vabbe's.
* `LabMachines` - the abstract specification of the lab: a node is one machine that
  is built with its settings, switched on and off, plugged in at an address,
  and scrapped; a lab has one network.  No ids, lists, summaries or terminals.
* `VabbeLabMachines` - the mapping: `MachineOf(l, n)` is the container with the
  labels of that node, `NetOf(l)` the network of the lab's name, and
  `ImplementsMachines` says that every call of every command, and every
  interruption, is one step of `LabMachines` or none.
* `VabbeLabRecovery` - `VabbeLab` with a quiet end, for liveness: from some moment
  on nothing fails or interferes, and one command is repeated.
* `VabbeLab_proofs`, `LabMachines_proofs`, `VabbeLabMachines_proofs`, `LabKeys_proofs`,
  `NodeConfig_proofs`, `NodeAccess_proofs`, `HostPrepLinux_proofs`,
  `HostPrepDesktop_proofs` - theorems about the module each is
  named after, and their proofs; see Proofs.
* `NodeConfig` - one node from `vabbe.yaml` to its container.  `Resolve` is
  applyDefaults, `Valid` validate, `Created` what createNode asks for, `Drift` what
  drift finds, `KernelConfig` the lookup of the guest kernel's build config;
  `Up`, `Create` and `Reconcile` are what EnsureNode does with them.  An up is one
  step here; file, shell and host may be different at each.
* `NodeBoot` - the boot of the nodes: vabbe-kmod, vabbe-resolv and
  vabbe-containerd-store between the commands that matter, sshd after
  sysinit.target, a loss of power anywhere, and the layer that survives it.  Any
  command of the scripts may fail: `set -e` ends the script and the unit's `ExecStart=-`
  lets the boot go on (truncate, mkfs, mkdir, mknod, mount, the lists of vabbe-kmod),
  or `|| true` drops the error (findmnt, depmod, cp).
* `NodeAccess` - on top of `NodeBoot`, one command that needs the nodes: `up --wait`
  (`Probe`, `LookUpIP`, `Dial`, `ExecCreate`, `ExecAttach`, `StreamEnds`, `ExecInspect`,
  with the loop of waitReady in `Ready` and `NotReady`) and `exec` (`FindForExec`,
  `SshConnect`, `SshEnds`, and the same exec session).  Seconds are counted: a
  probe takes any time up to `MaxProbe`, a retry sleeps one.
* `LabKeys` - EnsureKeypair and RegenerateKeypair by system call, over inodes, and
  the nodes that mount them.
* `HostPrepLinux` - the swap part of host-prep on Linux.
* `HostPrepDesktop` - host-prep on Docker Desktop: the command (`ClearLeftover`,
  `CreateHelper`, `WaitHelper`, `StartHelper`, `ReadLogs`, `Judge`, `RemoveHelper`)
  and, as steps of their own, the script in the helper it starts, which goes on
  when the command is killed and stops anywhere when the helper is removed.
* `MC*` - the small instances the configurations use.

Two history variables of `VabbeLab`, and the like in the other modules, let a
property speak of a command as a whole: `clean` is the command that has run alone
and without a failed call since it started, `wasUp` says that it is an `up` which
found nothing to do.  They are written, never read, by the actions that model code.

Abstractions: a node's settings are an image and a set of abstract settings
(`NodeSpec`) in `VabbeLab`, and `Drifted` is the one-sided comparison of drift over
them; `NodeConfig` has the settings one by one.  There, an image is to be had or it
is not, sizes and ports are texts with a value, and one peer stands for the
other nodes.  An id the daemon has handed
out is not handed out again while a command still knows it.  Order in down is by
container name in the code and arbitrary in the model.

## Runs

| run | instance | what it shows |
| --- | --- | --- |
| `lab_race` | 2 terminals, 1 lab, 1 node, 3 container and 2 network ids, 2 addresses; 2 configurations | `up`, `up --recreate` and `down` interleaved call by call, with kills, failures and edits: types, one container per node, `up` removes only what it may; an `up` that ran undisturbed delivers, whatever the races before it left; all of it implements `LabMachines` |
| `lab_shapes` | 1 terminal, 2 labs whose container names collide, 2 nodes, 2 subnets, foreign containers and networks | `up` and `down` deliver over all the states a killed command can leave and over edits that pin, unpin, add and remove nodes; idempotence; isolation; every drifted node is reported; `LabMachines` again |
| `lab_recover` | 1 terminal, 2 nodes, edits, kills | repetition of `up`, `up --recreate`, `down` repairs everything |
| `lab_recover_race` | 2 terminals, 1 node, 2 network ids | the same while both repeat the command at once; `up` cannot repair a node whose network a racing `down` removed, and nothing else stops it: see Findings |
| `lab_swap` | 1 terminal, 2 nodes that exchange addresses | violated: see Findings |
| `keys` | 2 terminals and no node, or 1 terminal and 2 nodes; 3 pairs, 4 inodes | `up` and `keygen` interleaved by system call: when the two files are a pair, what a removed file or a kill may do to it; `keygen` renews; `up` keeps; nodes restarted together reach each other |
| `hostprep_once` | 2 terminals, 3 devices, 2 of them in fstab | a prep run once is undone by a restore |
| `hostprep_again` | 1 terminal | violated: see Findings |
| `hostprep_desktop` | 2 terminals, 2 devices, 1 of them in fstab | success means the script ran, although the exit code is taken before the helper starts; a restore undoes one prep over kills and forced removals; a helper that is left was left by a command cut short or by a removal that failed |
| `node_config` | a file and its variants in one or two settings, 2 environments, 5 hosts | any two ups in a row, plain or --recreate: what the file changed is applied or told, but for what drift does not look at; nothing is told that did not change; micro-VMs get resolvers, capabilities and the build config of their own kernel; a node's own entry decides its privileges, and micro-VMs get none by default |
| `config_drift` | the same | violated: see Findings |
| `ready` | 2 nodes, 2 addresses, one of them fixed; micro-VM and runc, runner and micro-VM, runc and runner; a timeout of 1 and probes of up to 1 second | `up --wait` says ready of a node that had booted, ends, and not later than it may; `exec` succeeds only if the command did; a boot in which nothing fails completes, whatever earlier boots left by a loss of power or a failing command, but for an image without a file system and a half-made module tree; pulled images stay |

Bounds.  All hazards of the lab are between two commands, or one command and
what a killed one left, over one container each, so two terminals and one node
(`lab_race`), or one terminal and two nodes (`lab_shapes`, for the order among
nodes, addresses that one node holds and another asks for, and name collisions)
reach them.  Three container ids leave room for a
container, its successor and one that a stale command still knows.  When
no id is left the daemon offers no new one: `CreateNode` waits, which hides no
safety violation.  In the runs of `VabbeLabRecovery` the ids suffice for the nodes
and one stale container, so that waiting never stands in for progress.  Three key
pairs and four inodes are what two nodes
and the directory can tell apart; `RacesWithoutNodes` keeps two terminals and two
nodes out of the same behaviour.  One swap device in fstab and one that is not
tell the two ways of a restore apart.  The files of `node_config` differ from one
in one setting, or in two where they interact (runtime, runner, privileged, caps,
dns, cmd); an up reads nothing but the file, the environment, the host and the
container, so two ups in a row are all there is to see, and `SomethingNew` does not
go on from an up that left the container as it was or built it as a first one
would.  docker update happens once per container (`tampered`).  In `ready`
the kinds of nodes are the three ways of being asked, in both places of the order;
nothing follows the end of the command, and the scripts fail in the micro-VM of one
lab at any time, in that of the other only before the command starts (`Bound`).  Terminals, container and
network ids are interchangeable and get SYMMETRY where only safety is checked;
nodes too, in `LabKeys`.  The runs with liveness use none.

Fairness.  `VabbeLabRecovery`: `WF(RunOn(p))`, because a command is an
operating-system process whose calls return, and between two calls it waits for
nothing; `WF(Repeat(p, l))`, somebody repeats the command: this is the
hypothesis of the properties and not a claim about the code.  `NodeAccess`:
`WF(CliStep)` for the same reason, and weak fairness of the one question up --wait
puts to a node, `systemctl is-active`: the exec session has no timeout, so a node in
which that never returns holds up --wait forever, past any --timeout.  There is no
fairness of failures, edits, boots or nodes, and no strong fairness.

## Proofs

Everything below holds for all values of the constants that satisfy the
assumptions of the modules: any number of terminals, labs, nodes, containers,
addresses and devices, any timeout, any configurations that validate accepts.

**The lab** (`VabbeLab_proofs`, under `DaemonAssumption` and `LabAssumption`).
`TypeCorrect`, `NoTwins` (`OneContainerPerNode`), `UpSpares` (`UpSparesNodes`) and
`Isolation` (`LabIsolation`); `UpDelivered` (`UpDelivers`), `DownDelivered`
(`DownDelivers`), `Idempotence` (`Idempotent`) and `DriftTold` (`DriftReported`).  None
of them is inductive.  `IInv` adds what the first ones rest on:

* `NamesUnique` and `NamedByNode`: existing containers have distinct names, and
  the name of one of vabbe's is made of its lab and node.  Together they give
  `OneContainerPerNode`, also where `NameOf` is not injective: colliding names make
  the second creation fail, they never produce a twin.
* `Holding(p)`: the container a command works on, as long as it exists, carries the
  labels of the command's lab and node.  `Removing(p)`: a command about to remove
  one runs with --recreate, and the container differs from its configuration:
  settings do not change during a container's life and ids are not used again, so
  what the inspection saw is still true at the removal.  `Listed(p)`: what down
  still has to remove carries the label it asked for.

The proof has a lemma for each way a step can change the daemon (`StartTouches`,
`ConnectTouches`, `RemoveTyped`, `CreateTyped`...), one for what the commands not
taking the step keep (`OthersSafe`), and then a case per action.  `UpSpares` and
`Isolation` follow from the invariant and the shape of a step.

What a command achieves needs to be known of a command nothing disturbs, and of the
daemon:

* `Addressed`: a container has an address exactly when it runs attached to its network,
  and then the one it is pinned to.  It holds of every container in every state, and it
  is why reconcile may take the pin for the address, and may judge by the summary it
  took before the restart.
* `Aware(p)`, of the command that has run alone since it started: what it may rely on at
  each program counter.  For up (`UpKnows`), that the network is there and the nodes
  before the one at hand are as wanted (`Settled`), that the node has no container or
  just the one whose id up holds (`Own`), that what findContainer returned is still so,
  and what is still missing of the node: it does not run, or it is `Fresh`, or it
  `Works`.  For down (`DownKnows`), that nothing carries its label but what it still has
  to remove.  For an up that found the lab as wanted (`FindsUp`), that it still is, and
  that up has warned of the drifted nodes among those behind it (`DriftedBefore`).

Every action of up has a lemma that takes `UpKnows` to what it is to be in the next state
(`UpAfter`); two of them, `GoAfter` and `NextAfter`, say what is needed to stay with a
node and to leave it, and `SettledStays` that a call on one node spoils no other.  The
last node's `UpAfter` is `UpDelivers`.  `UpStepFinds` is the same for `FindsUp`, and gives
`Idempotent` and `DriftReported`.  `SuccessIs` finds the one failed call after which an
undisturbed up still succeeds, the inspection of the last node's container.

**The refinement** (`VabbeLabMachines_proofs`, `LabMachines_proofs`).
`Implementation`: `Spec => ImplementsMachines`.  The mapping picks a node's container
with CHOOSE, so `NoTwins` is what makes it a function of the state: `Shown` says what
the machine of a node looks like, `SlotStays` that a call on one container leaves all
other machines alone.  `IInv` alone is not enough: a machine is plugged in only at an
address nobody has on a network that is there, so the proof strengthens it by
`Wired` - only a running, attached container has an address (`Leased`), and a network's
name is its own and, if vabbe made it, its lab's (`NetsOwned`).  Then each
kind of daemon call maps to one step of `LabMachines`, all others to none.
`AddressedAlways` is proved of the abstract machines alone; `NodesAddressed` carries
it over to `VabbeLab` through the refinement.

**The key pair** (`LabKeys_proofs`, under `KeysAssumption`, which only keeps values of
different kinds apart).  `TypeCorrect`, `PairsMatch` (`PairMatches`), `PeersReach`
(`PeersAfterRestart`), `KeygenSound` (`KeygenRenews`) and `UpKeeps` (`UpKeepsKeys`), all
from one invariant:

* `Sound`: a command has a file open exactly while it writes, two names are never one
  file, and only a running node has files mounted.
* `WholeInv`: as long as nothing is torn one command at a time runs, and at each of its
  program counters it is known what the files are.  `Writes` is the heart of it: when
  the private key has been written and the public one is still due, the private key is
  this command's, or gone.  Where the files do not match yet, not both are there
  (`Matched`): that is what makes a kill harmless in most places.
* `Renewing`: what an undisturbed keygen knows whatever the state it found - old files
  unlinked before new ones are made, and no mount and no other inode with the new key.
* `Keeping`, for an up that found both files; `Told` and `Current`: whoever is going
  to write has set `renewed`, and as long as it is not set the nodes that run have
  mounted what the directory holds.

The lemmas describe a step by what it does to inodes (`Frees`, `Fills`, `Opens`,
`Bound`) and to its command (`Becomes`), and each conjunct is proved over these.

**Node configuration** (`NodeConfig_proofs`, under `ConfigAssumption`).  `TypeCorrect`,
`GuestsFit` (`GuestFit`), `PrivilegedOnlyOnPurpose` (`PrivilegedOnPurpose`) with
`DefaultsDoNotForce`, which says what becomes of `defaults: {privileged: true}`,
`KernelConfigsFit` (`KernelConfigFit`), `TellsOrApplied` (`TellsOrApplies`) and
`NoFalseAlarms` (`NoFalseAlarm`), for any set of files, environments and hosts.
`ConfigAssumption` says that `None` is no value of anything else, that `kata-runtime
env`, if it answers, names the kernel that boots (external: Kata's own claim), and that
only a runtime found in daemon.json has a configuration of its own.  The invariant is
`TypeOK`, `TellsOrApplies` and `Origin`: the container has the settings createNode asked
for when it was built, from a file that was valid, but for what docker update changes.
`GuestFit`, `PrivilegedOnPurpose` and `KernelConfigFit` are consequences of `Origin` and
of what the operators compute (`PrivilegedByOwn`, `KernelFound`).  `NoDriftApplied` and
`AlikeNoDrift` are the two directions of `Drift = {}`: it is empty only if what is
compared is as the file asks, and it is empty for a container as createNode makes it.

**Readiness, exec and boot** (`NodeAccess_proofs`, under `BootAssumption` and
`AccessAssumption`).  `TypeCorrect`, `BootsComplete` (`BootCompletes`), `ImagesKept`
(`StoreKept`), `ReadySound` (`ReadyMeansBooted`), `ReadyTogether` (`AllReady`),
`WaitIsBounded` (`WaitBounded`) and `ExecSound` (`ExecTrue`), all from one invariant,
`AccessInv`:

* `BootSound`, what the scripts can rely on at each of their lines.  `InOrder`: sshd runs
  only in a node that is on, and it and the store come after the two early scripts.
  `StoreSound`: the store is only truncated where there is no image, and an image is
  blank only while mkfs is due, after a failure in this boot, or when an earlier boot
  has left it so.  `ModsSound` says the same of a module tree that lacks something.
  And `Addressed`, who has which address.  `KmodOnly` and `StoreOnly` say that a script
  leaves the other's part alone, the `Moves` lemmas that each command of each script,
  whether it succeeds or fails, keeps `BootSound`; `NodeStepSound` joins them.
* `Paced`: while node number `at` is asked, at most `Timeout + 1 + (at - 1) * MaxProbe`
  seconds have gone; a failed probe that is retried leaves at most `Timeout + 1`,
  whatever went before.
* `Earlier`: the nodes before are booted, as long as nothing stopped and no stream was
  cut.  `Noticed`, `Asked` and `AskedOnce`: what is still true, at each call, of the node
  that was looked up some calls ago.
* Every way a probe can be answered goes through `Probed`, so that `ProbedInv` decides
  once for all of them when "ready" is right.

**host-prep** (`HostPrepLinux_proofs`, `HostPrepDesktop_proofs`).  `UndoneOnce`
(`ReversibleOnce`): as long as commands come one at a time, their calls succeed and
there was one prep (`Orderly`), the snapshot has all that is off, and a restore that has
read it still has to do all that is off (`Undoable`).  `PrepSound` (`PrepDelivers`) and
`NoneLeft` (`NoHelperLeft`): `Minded` - a helper that nobody was cut short over, and
whose removal has not failed, has a maker who is still to try and remove it - and, for a command that runs alone (`Alone`),
`HelperSound`: the marker comes with the last line of the script, which a prep reaches
only with swap off.  `RestoreSound` (`RestoreDelivers`) needs two facts of every state,
whoever runs: `ScriptSound` - a helper runs its script once and from the start, since only
its maker starts it - and `Undoable`: after one undisturbed prep the snapshot has all that
is off, what a restore has still to turn on has it too, and at its last line nothing is
off.  `Returned` carries that from the log to the exit of the restore that runs alone.
Each with `TypeCorrect`.

Only model-checked: liveness (out of reach of the prover, like every formula with
ENABLED), that is `WaitEnds` and the three properties of `VabbeLabRecovery`.  Every
invariant and every action property of a passing run is a theorem.

## Findings

* `lab_swap`: two running nodes that exchange their addresses in `vabbe.yaml`
  cannot be brought up by any number of `up`s.  reconcile (`docker.go:327`)
  disconnects the first and cannot connect it while the second, whose turn comes
  later, holds the address; the next `up` finds the first unattached, and
  fails at the same call.
* `lab_recover_race`: a `down` lists the lab's containers, an `up` creates a node, the
  node stops, and `down` removes the network, which nothing uses by then.  The endpoint
  of the stopped container keeps that network's id.  Each later `up` makes or finds a
  network of the same name and starts the container (`docker.go:309`), the daemon looks
  for the old id, and `up` fails there, with `--recreate` too, which rebuilds only what
  has drifted.  `RecoversUnlessStranded` allows for such nodes (`Stranded`) and for
  nothing else; `RecoversUp`, which does not, is violated in this instance.  `down` and
  `up` repair it (`RecoversDown`).  With one terminal it cannot happen (`lab_recover`).
* `config_drift`: an env entry, a mount or a port that is removed from `vabbe.yaml`,
  and a port whose host side changes, are no drift: `up` does not warn and
  `up --recreate` leaves the node as it is, although its help and the README list
  env, mounts and ports.  `down` and `up` apply them.
* `hostprep_again`: a second `host-prep --run` overwrites the snapshot of the
  first with the devices that are on by then, none; the restore then falls back to
  `swapon -a` and leaves off a device that is not in fstab.

* `node_config`: the comment at `lab.go:173` says privileged can still be forced on "per
  node / in defaults" for a micro-VM, and `docs/config-reference.md:9` that defaults
  apply to every node.  `defaults.privileged` is not looked at for a micro-VM or a
  runner (`Privileged`).  `PrivilegedOnPurpose` holds under either reading, and
  `DefaultsDoNotForce` proves what the code does.

Seen while reading, with no run: the comment at `cmd_hostprep.go:136` says the
wait is issued before the start so that it "can never miss" the exit; the condition
is not-running, which a container that was only created meets, so the answer is
there at once with code 0 and the check at line 161 refuses nothing
(`WaitHelper`).  `PrepDelivers` holds all the same, because of the marker.
`sharedUnitFiles` (`main.go:25`) names neither
`vabbe-kmod` nor `vabbe-containerd-store`, which both Dockerfiles copy.
An edit of address and image moves the node and reports no drift, because
reconcile returns at `docker.go:315` and `328` before it looks; the next `up`
reports it.  `DriftReported` and `TellsOrApplies` say so: they hold of ups that did
not move the node.
After `keygen`, a node that keeps running and one that starts later hold different
pairs and cannot log in to each other; `up` compares no keys.  Stopping all nodes
together and starting them again repairs it (`PeersAfterRestart`).
`runtime: runc` given explicitly loses the bind of `/lib/modules`
that the same runtime gets as the default (`Modules`).  `up --recreate` removes the
drifted container before it knows whether the new image can be had (`Create`).  The
values of `env` are expanded twice, once with the file's text (`Resolve`).
A cut stream makes `exec` succeed and `up --wait` say ready (`StreamCut`); a fixed
address is answered for a node that is down, and ssh goes to whoever holds it by then
(`LookUpIP`, `Listening`).  A loss of power between truncate and mkfs, or an mkfs that
fails, leaves containerd without its store; a loss of power after modules.dep, or a
depmod or cp that fails there, leaves a micro-VM without the rest of the module tree or
the kernel's config; both until the container is rebuilt (`BootCompletes`).  The error
of the helper's removal is dropped (`cmd_hostprep.go:133`), so a host-prep that
succeeds may leave its helper until the next one (`NoHelperLeft`).

## Plan

Done, in this order: the lab's commands over the daemon, their recovery, their
proofs, the key pair, host-prep on Linux and on Docker Desktop; the abstract
machines and the refinement with its proof, node configuration and validation, the
boot scripts, readiness and exec, and the proofs of these, of host-prep, of the key
pair and of node configuration, and of what an undisturbed up, down and restore
achieve.  Next:

1. The terminal mode of an interactive session in `NodeAccess`.
2. Why an undisturbed up fails, as a theorem of `VabbeLab`: a network of the lab's name
   that is not usable, no free subnet, a container name that is taken, or an address
   that cannot be had; `lab_swap` is one instance of the last.

## Not modelled

ls, ip, dns, inventory and doctor read and print; image build makes one call.
logs forwards one stream.  The terminal mode of an interactive session is set and
restored on every return path of one function.  vabbe-rshared and boot-id-token run
one command each at every boot and leave nothing on disk.  What the host does with
the published ports of two nodes is the daemon's to say: validation is modelled
as it compares them (`HostEnd`).
