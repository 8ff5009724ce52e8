# Verification of ardana-dev-tools

TLA+ models, model-checking runs and machine-checked proofs for the parts of
ardana-dev-tools that keep state. The models are translated from the code;
`PROJECT.json` maps every definition to the lines it stands for.

The core is `install_package`, the Ansible module of
`ansible/library_python/packager` that puts versioned Python environments on
the nodes of a cloud. It is the one piece of this repository that runs on
production nodes, it runs again and again over what earlier runs (also killed
and failed ones) left on the disk, and its tests are the deployments
themselves.

## 1. The system

### 1.1 install_package and its neighbours

| part | state | operations | interacts with |
| --- | --- | --- | --- |
| package repository (deployer's web server) | tarballs `<package>-<suffix>.tgz`, an index file `packages` | tarballs are added and removed; `create_index` (indexer.py) rewrites the index | read by every node |
| cache (cache.py) | `/var/cache/ardana_packager`: a copy of the index, tarballs | `update`, `assert_package_present`, `_download` | HTTP from the repository |
| package directories (expand.py) | `/opt/stack/venv/<package>-<suffix>` | `explode`, `remove` | shared by all services installed from the package |
| service directories (service.py) | `/opt/stack/service/<service>-<suffix>` with `venv ->` package directory and `etc/` | `refer`, `remove`, `count_refs` | refer to package directories |
| activation (activate.py) | the link `/opt/stack/service/<service> -> <service>-<suffix>` | `active_version`, `activate`, `ensure_suffix`, `deactivate` | what the running service uses |
| dispatch (cmd.py) | none on disk; `changed` and the version it reports | `main`, `install`, `uninstall`, `activate_install` | called by playbooks, several times per node and service |
| versions (version.py, config.py) | none | the version of a tarball or directory: stamped in `META-INF/version.yml` or guessed from the suffix | every comparison above |
| `venv_edit` | a scratch directory in `/opt/stack/venv`, a new tarball in the repository | rebuilds a tarball with a new patch number, or makes one | writes where `create_index` reads and where `explode` unpacks |
| `setup_systemd`, `config_symlinks` | unit files and what systemd has loaded, links | write, daemon-reload; link | run after an install |
| module support (ansible.py) | the arguments of a call; a child process and its pipes | `AnsibleModule.__init__`, `run_command` | under every module of the packager |

What is hard here: every operation is several file system calls, a run can
stop between any two of them, and the next run decides what to do from
whether a directory is there. Several services share a package directory, so
an uninstall has to know that nobody else refers to it. Versions are compared,
but directories are named by suffixes, and the version of a directory depends
on what is in it at the moment it is asked. The repository changes while nodes
install from it.

What makes it correct:

- a package that a service directory refers to is never removed, nor a file of
  it, whatever happens to other services (`ReferredKept`,
  `ShrinksUnreferred`, `OthersKeepRunning`);
- when nothing fails, a link always leads to a complete service directory and
  a complete package (`LinkedRuns`), and the many small steps implement a
  store in which directories appear and disappear at once (`ImplementsStore`);
- removing a version spares the active directory (`RemovalSparesActive`);
- an installation that fails half way, or repeats one that did, leaves the
  running version complete until it is unlinked (`InstallSparesRunning`);
- what is reported is true (`ReportIsTrue`, `SuccessIsLinked`,
  `RemovedIsGone`) and nothing is leaked (`NoOrphanPackage`);
- an invocation ends, and so does the time without an active version during
  an upgrade (`InvocationEnds`, `UpgradeEnds`);
- the repository it installs from is what it takes it for: the index of a
  directory that does not change names every version in it
  (`IndexesTheDirectory`) and changes at once as far as a lone `create_index`
  goes (`ImplementsAtomicIndex`), an edited tarball is newer than what it was
  made from (`EditOfNewestIsNewest`), and a `venv_edit` that reports success
  leaves nothing in the way of `explode` (`ScratchIsRemoved`,
  `InstalledIsWhole`).

### 1.2 The rest of the repository

| part | state | hard behaviour | correct when |
| --- | --- | --- | --- |
| `bin/lib/exec-test-plan.py` | VMs, an ssh connection | a reboot that is only asked for, waits with retries | every plan ends (`PlanEnds`); commands go to the boot that is up (`ClientIsCurrent`) |
| `ansible/deployer_modules/nova_host_aggregate` | nova's aggregates | modules of several hosts at once, each on what it read earlier | nobody's host is lost (`HostsAreKept`) |
| `ansible/library/virsh_set_pxe_boot` | a domain's stored and running definition | failure between any two of define, destroy, create | a success runs, or will be started, as asked (`BootsAsAsked`) |
| `bin/deployer/update-non-deployer-nodes` | update status of each node | a failed query looks like "nothing to do" | success means up to date (`SuccessIsUpToDate`) |
| `ansible/roles/ardana-cache` | cached artifact, checksum, link | stopped at any task, server swaps its two files | success means what the checksum says (`CachedIsCurrent`) |
| `ansible/roles/cloud-vm`, `flag-files` | flags that outlive a playbook run | stopped between the work and the flag, or between two tasks that belong together | a flag is deserved (`FlagsAreDeserved`) |
| `bin/deployer/add-distros.py` | `servers.yml` | several runs, killed while the file is written | what is recorded of a node is what was chosen, also in a list that was cut (`RecordedIsChosen`) |
| `ansible/hosts/vagrant.py` | the block of an ssh configuration being read | lines that belong to no block | options of the box asked for (`AnswersFromItsBlock`) |
| filter plugins, lint rules | none | pure functions | not modelled |
| astack, CI drivers, vagrant, other roles | files owned by the parts above | sequences of commands and declarative tasks | not modelled |

`PROJECT.json` lists every component with its status, and under `hazards` each
of these behaviours at the line where it bites.

## 2. Modules

```
Packages ── RepoIndex ─┬─ Packager ─┬─ MCPackager ── MCStamps                  (TLC)
                       │            ├─ Store == INSTANCE PackageStore
                       │            └─ PackagerProofs ── PackagerSharing ── PackagerStore   (TLAPS)
                       ├─ RepoIndexProofs                                                   (TLAPS)
                       ├─ IndexStore
                       └─ Indexer ── Atomic == INSTANCE IndexStore
                             └─ Repository ── Edit == INSTANCE VenvEdit
                                   ├─ MCRepository                             (TLC)
                                   └─ RepositoryProofs                                      (TLAPS)

SystemdUnit ── Hosts ── INSTANCEs of ConfigSymlinks, RunCommand,
                 │      ModuleArguments, HostAggregate, CloudVm
                 ├─ MCHosts                                                    (TLC)
                 └─ AggregateProofs ── HostsProofs                                          (TLAPS)
TestPlan ── Lab ── INSTANCEs of RollingUpdate, Distros, Inventory,
             │     PxeBoot, CachedFile, Versions
             ├─ MCLab                                                          (TLC)
             └─ LabProofs                                                                   (TLAPS)
```

- **Packages**: package names, suffixes, versions, and the version of a
  tarball. `Stamp[p][x]` is what META-INF says (or `None`), `Guess[x]` what is
  guessed from the suffix. Versions are natural numbers because all that is
  done with them is comparison by a total order; **Versions** is where that is
  checked.
- **RepoIndex**: what `create_index` makes of an old index and a directory
  listing, as a set: entries of vanished files go, their package's key stays,
  new files are entered over an existing entry of the same version, and the
  order among new files of one version is arbitrary.
- **Packager**: `install_package` on one node (2.1).
- **PackageStore**: what the program promises when nothing fails: tarballs are
  unpacked and discarded, services installed and removed, versions activated
  and deactivated, each at once. A package in use is not discarded, an active
  version is not removed, and a version is activated only from an installed
  directory and when no version is active.
- **Indexer**, **IndexStore**, **VenvEdit**: the two programs that write the
  repository (2.2).
- **SystemdUnit**, **ConfigSymlinks**, **RunCommand**, **ModuleArguments**,
  **HostAggregate**, **CloudVm**: what runs on the nodes (2.3).
- **TestPlan**, **RollingUpdate**, **Distros**, **Inventory**, **PxeBoot**,
  **CachedFile**, **Versions**: programs of the developer's and the CI host
  (2.4).
- **Repository**, **Hosts**, **Lab**: programs that share no state, side by
  side. Each instance has variables of its own, and what the components promise
  is restated there under one name, which a run checks and a theorem proves. The
  assumptions on their constants are stated there too.
- **MCPackager**, **MCStamps**, **MCRepository**, **MCHosts**, **MCLab**: the
  instances that TLC checks. In the last three the initial state says which of
  the programs runs, and the variables of the others keep their initial values. Nothing is claimed there
  about programs running at once; where the code has that (hosts of one
  aggregate, writers of the repository, an install beside an edit), the
  component's own module has it.

### 2.1 How Packager corresponds to the code

| model | code |
| --- | --- |
| `files`, `index` | the repository's tarballs and its index file |
| `listing` | the node's index file; `None` missing, `Torn` truncated |
| `cached[p][x]` | the tarball in the cache: `"whole"`, `"cut"` (a prefix of it, that still opens as a tar file) or `"junk"` (anything that does not) |
| `venv[p][x]` | entries of the package directory: the directory itself, `META-INF/version.yml` (`"stamp"`), everything else (`"rest"`) |
| `svc[s][x]` | entries of the service directory: itself, `venv`, `etc` |
| `link[s]` | the suffix the service's link points to; it may dangle |
| `pc`, `req`, `spec`, `changed` | the running invocation: where it is, its parameters, its `Spec` object (a missing attribute is `None`), `changed` |
| `outcome` | how the last one ended: `"ok"` (exit_json), `"failed"` (fail_json after an InstallerError), `"crashed"` (an exception that main does not catch), `"killed"` |
| `faults` | failures so far |

Each call that changes the disk is an action: `MakeVenvDir`,
`ExtractMember`, `MakeServiceDir`, `LinkVenv`, `MakeEtcDir`, `UnlinkOld`,
`Relink`, `RemoveServiceEntry` and so on, and the code between two such calls
is folded into the action that follows. Actions of one invocation are ordered
by `pc`; invocations on one node do not overlap, as Ansible runs the tasks of a
host one after the other. `Publish` and `Withdraw` are not part of an
invocation and happen at any time.

Failures are actions too, as many as `MaxFaults` and of the kinds in `Faults`:

- `"kill"`: the process or the node stops between two calls, or while a file
  opened with mode `w` is written (`WriteInterrupted`);
- `"io"`: a call that changes the disk fails; during extraction this also
  stands for a group name that does not exist (`grp.getgrnam`, after the
  directory was made);
- `"net"`: the connection is refused, or ends during a download. `requests`
  does not compare what arrived with Content-Length, so a short body may be
  taken for a complete one (`DownloadCut`).

Two checks in the code can never fail and are named as such in the module:
`refer`'s check for the package directory, which `explode` has just found or
made, and `expand.remove`'s check for an active version, which looks for the
service's link under `/opt/stack/venv`, where there is none. The check of
`service.remove` that the version is not active has been anticipated by
`uninstall`, which unlinks exactly when it would fail.

**Python.** The package declares Python 2 (`setup.py`), and ansible.py,
indexer.py and setup_systemd.py need it. `expand.py` and `venv_edit.py`, however,
define `safe_extract(tar, path, members, *, numeric_owner)`, which Python 2
does not parse: at this commit no interpreter imports `ardana_packager.cmd`.
The model takes Python 2 and reads `safe_extract` as the extraction it was
meant to be. Where it matters: `os.unlink` raises OSError, which is not an
IOError there, so that `deactivate` does not turn it into an InstallerError
(`CallFails` ends in `"crashed"`).

**Assumptions on the parameters** (`RequestAssumption`): a request with a
state names a service, as all callers do; and a version and suffix given
together belong together, being what an earlier run returned. A request to
activate may name anything.

### 2.2 The repository: Indexer and VenvEdit

| model | code |
| --- | --- |
| `files[t]` | a tarball: `"none"`, `"cut"` (begun in place and not written to its end) or `"whole"` |
| `indexFile` | the file `packages`; `None` missing, `Torn` truncated and not written |
| `old`, `seen`, `toOpen` | what the running `create_index` has loaded, listed and has still to open in its pool of processes |
| `alone`, `quiet` | whether invocations have the directory to themselves; whether nothing has changed since the last one started |
| `repo[n][x]`, `dir[n][x]` | META-INF of a tarball, and `/opt/stack/venv/<n>-<x>`, which is `venv_edit`'s scratch directory and where `install_package` unpacks |
| `Unstamped` | a venv or tarball without `META-INF/version.yml`; `Cut` a tarball that ends early |
| `now` | the second in which an invocation runs: its tarball's suffix |
| `apart` | `install_package` does not run while an edit does |
| `unclean` | the scratch directories whose edit was killed or whose rmtree raised |

`Indexer` has a step for loading the index, for listing the directory, for each
tarball that is opened (one that vanished is passed over, one that is cut ends
the run with an exception), for truncating and for writing the index. Others
change the directory at any moment: `Copied`, `WriteBegins` (tarfile.open(...,
'w') of `venv_edit`), `Removed`. Refined to `IndexStore` when `alone`: the
abstract index is the old one until the write is complete.

`VenvEdit` has `main`'s branches for a source or none, a name, a version and a
patch, each call that may fail (`CallFails`, `UnpackFails`, `AddFails`), the
`finally` clause (`Cleanup`), which is reached through `fail_json`'s SystemExit
too and removes one file after another, an rmtree that raises half way
(`CleanupFails`), a kill at any step, and `Install`: `install_package` on the same host, which takes a directory
that is there for an unpacked package.

### 2.3 The nodes

- **SystemdUnit**: `file` is the unit on disk, `loaded` systemd's copy,
  `running` what the process was started from. One action for the comparison,
  for opening (which truncates) and writing the file, for daemon-reload and for
  the report; `Restart` is what the playbooks do on `changed`. `Fail` and `Kill`
  may come between any two. The branch that enables the unit is not taken:
  `enable` is compared with `is True`, and reaches the module as text.
- **ConfigSymlinks**: the pairs of links one request comes to, taken in any
  order; a link that is there is kept, whatever it leads to; what is there and
  is no link crashes the run.
- **RunCommand**: the select loop of `run_command`, against a child that writes
  to either pipe until it is full, closes pipes, exits, and may leave a process
  that keeps the pipes open. Output is counted in pieces of one read.
- **ModuleArguments**: the passes of `AnsibleModule.__init__` in their order
  over the dictionary that each of them changes: load, aliases, unknown keys,
  check mode, exclusion, defaults, required, choices, types, required together
  and one of, the remaining defaults. An argument is a name and a text; a
  conversion is a pair of a type and a text. A call has any words, at most
  `MaxWords` of them.
- **HostAggregate**: `aggregate` is nova's state, `seen[h]` what the module that
  runs for host `h` read last. Each request to nova is a step of its own, so
  that any number of modules interleave between them; nova may hold several
  aggregates of one name.
- **CloudVm**: load, the two task lists with their conditions, and `set` of the
  flag that follows each; `grown` are the layers under the root filesystem
  that fill the disk. A run may be stopped after any task and the VM restarted.
  lvresize fails, and with it the play, while the kernel does not know of the
  larger partition. The VM is new, its disk at least twice the root partition
  and its root volume of less than 2000 extents; for others the role has nothing
  to grow.

### 2.4 The developer's and the CI host

- **TestPlan**: `todo` is the plan's list of operations in the order of
  `main`; `power` and `boot` are the VMs, which go down and come up in
  their own time or never; `client` is the boot that the program's ssh client is
  connected to. Waits count their retries.
- **RollingUpdate**: nodes in the order of `candidate_nodes` without repetitions,
  each asked twice what it still needs. `lost` notes a node whose query failed.
- **Distros**: `servers.yml` and its copy in memory, loaded, changed and saved by
  runs with different options, any of which may be killed at any step. yaml.dump
  writes through a buffer, so a run that is stopped while it saves leaves
  (`CutShort`) a file that cannot be read, or one that can: the list up to some
  node, perhaps with a last entry that has lost its role or its id (`stub`),
  which a later run with `--nodes` passes over and saves.
- **Inventory**: one action per kind of line in each state of the parser.
- **PxeBoot**: a definition is the set of its boot elements; XMLDesc returns the
  running definition of a domain that runs, defineXML changes the stored one.
- **CachedFile**: the tasks of get-cached-file.yml, each of which ends the run
  when it fails; the server swaps checksum file and artifact one after the other.
- **Versions**: pairs of tarballs, with and without META-INF: how a file name is
  split, what is guessed, what YAML makes of a release (`SafeLoad`: one of two
  parts is a float, so 3.10 is read as 3.1), and the order of `Version.__lt__`.
  Only initial states: these are pure functions. Releases are of numbers; parts
  that are words (rc1), and the number that is kept of a suffix like
  `ardana-4.0.0`, are left out.

## 3. Model checking

| run | instance | states | what it shows |
| --- | --- | --- | --- |
| `upgrade` | 2 services of one package, two stamped tarballs, no failure | 43 thousand | the refinement of PackageStore, completeness of active versions, no leak, and that an upgrade's gap closes |
| `sharing` | the same with one failure of any kind | 852 thousand | failures of one service do not reach the other |
| `failures` | 1 service, every form of request, empty repository, one failure of any kind | 237 thousand | reports are true even so, installations do not touch what runs, and every invocation ends |
| `alike` | 1 service; three suffixes, one without a stamp, the two others of one version; no failure | 395 thousand | what is reported is what runs, and removal spares the active one of two that versions do not tell apart |
| `repository` | 3 tarballs of one package (two of one version, one not stamped), one kill; or 3 edits over 2 package names with one failure or kill | 1.84 million | the index follows the directory; edits are ordered; a success leaves nothing in `explode`'s way |
| `hosts` | 2 unit texts, 2 failures; 2 sources and 2 targets of links; pipes of 2 pieces and 3 pieces of output each; calls of up to 3 words; 2 hosts, 1 zone, 2 aggregates; 2 stops of the cloud-vm role | 244 thousand | the modules on the nodes |
| `lab` | plans over 2 VMs, 2 attempts per wait; 2 nodes, with repetitions; 2 kills of add-distros; ssh configurations of up to 5 lines; 2 failures of libvirt; 2 artifacts, 2 retries, 2 stops; pairs of tarballs of 3 names, 4 releases, 2 times, 3 patches | 258 thousand | the programs of the developer's and the CI host |

The properties of each run are in `PROJECT.json` and its `.cfg`.

**Bounds of install_package.** Two suffixes `x1`, `x2` of one package `p1`;
services `s1`, `s2` both installed from it. Two suffixes are what an upgrade, a
stale directory and two builds of one version need; `alike` has a third, so that
a tarball without a stamp stands beside two builds of one version. Two services are what sharing needs. The repository may hold any
set of the two tarballs, and changes at any step. `FullRequests` (one service)
has a request of every form of `main`'s dispatch; `SharedRequests` those of a
deployment and an upgrade of two services. One failure per behaviour: each
hazard found here takes a single one and then a legal sequence of requests. The
theorems of section 4 have none of these bounds.

**Bounds of the rest.** Three tarballs give the index an entry that is kept, one
that is overwritten and one that is guessed, at once. Three edits are an edit of
an edit of an edit, which is where patch numbers could go wrong; a clock that
stood still between edits is not considered. Pipes of two pieces and an output
of three fill either pipe and both. A call of three words (`MaxWords`) can name an option
twice, under its alias, and exclude another. Two hosts find, create, change and
dissolve one aggregate against each other. Five lines hold two blocks, or a
block, a stray line and a block.

**Fairness.** `Packager!FairSpec` adds weak fairness of `Step`, the steps of the
running invocation: a process that is not stopped goes on. Nothing is assumed
about new invocations, the repository or failures. `UpgradeEnds` is checked
without failures only, and for installs; a request that only activates may name
a version that is not there, and then leaves the service without one.
`RunCommand!Fairness`: the steps of `run_command`, and that its child goes on
when it is not blocked by a full pipe and ends at last: without the second a
command may simply run for ever. `TestPlan!Fairness`: the program's own steps;
nothing about the VMs, which may stay down, so that `PlanEnds` rests on the
retries. The other modules state no liveness: their programs are a fixed
sequence of steps.

Deadlock is checked in the runs of Packager, where an idle node can always be
given a request. The other systems may stop: failures and kills are
bounded, a test plan, an update and a parser come to their end.

### 3.1 Where the code and its documentation differ

Each of these runs checks one sentence of the code about itself, and TLC
finds a behaviour in which it does not hold.

| run | property | the sentence | what happens |
| --- | --- | --- | --- |
| `half_extracted` | `UnpackedIsWhole` | expand.py:87 "We assume there's nothing to do" | extraction fails; the next install takes the partial directory for a package |
| `removes_active` | `RemovalSparesActive` | service.py:111 "This is an error if the version's currently activated." | killed in `refer`, retried; the active directory's version is now a guess, and removing the real version deletes it under the link |
| `cut_index` | `CreatesIndex` | indexer.py:59 "Create an index file from the contents of a directory" | killed while it writes the index; every later run crashes on what is left |
| `early_reboot` | `WaitsForReboot` | exec-test-plan.py:299 "waiting for %s to come back..." | the wait connects to the system that has not gone down yet |
| `unresized_root` | `RootIsGrown` | setup-root-partition.yml:19 "grow the root filesystem to an appropriate size" | stopped after the kernel was told of the new partition; the next run grows the volume, skips the filesystem and sets the flag |

The following were met while the code was read and modelled. They are in the
models where state is concerned, but no run is spent on them.

In install_package:

- service.py:42 says how a directory "is laid out"; after a kill in `refer` the
  next install activates one without `venv` or `etc`.
- cache.py:119 "If the file's there, assume we've nothing to do": a tarball that
  is withdrawn before the download leaves the error page in the cache for good.
- service.py:112 "There's no error if the version is already not there.":
  `ensure_suffix` raises one.
- cmd.py:65, the "Backward-compatible argument munging" drops the version that
  `activate_install` goes on to read: an AttributeError.
- cmd.py:194: an uninstall stopped after its service directory is gone leaves
  the package, which nothing refers to any more.
- cmd.py:202 compares a version with VERSION_LATEST, which is a bare object: an
  AttributeError.
- cache.py:104 expects KeyError where `max()` of no versions raises ValueError.

In the repository's tools:

- two tarballs of one version take turns in the index: the one that is not
  named is "new" in the next run and replaces the other.
- indexer.py:118 "If there's a problem, return None.": a tarball that is cut
  raises instead.
- version.py:96 takes a release of two parts for what YAML makes of it, a float:
  3.10 is older than 3.2.
- venv_edit.py:263: an rmtree that raises leaves a part of the scratch directory,
  which the next install on that host takes for the package.
- venv_edit.py:261 deletes its scratch directory also when `install_package`
  has taken it for the unpacked tarball in between.
- venv_edit.py:70 documents `version` as required; with `src` it is ignored.
- `venv_edit` splits names differently from `TAR_FORMAT` where a suffix is
  `ardana-` and a dotted number; `nova-ardana-4.tgz` falls into `nova-ardana`
  and `4`. The regular expression of find_latest.py:32 allows one hyphen only.

In the module support and the modules:

- ansible.py:1566 "the pipes are completely read": what the child writes between
  the last select and its exit is lost.
- ansible.py:1470 calls the PATH of a command "temporary", and it stays in
  `os.environ`.
- defaults count as given in the checks of `required_together` and
  `required_one_of`.
- setup_systemd.py:57: without `args` the unit's command line ends with "None";
  `env` given as text has no `iteritems`; `enable` is never a bool.
- setup_systemd.py:133: when daemon-reload fails, the retry reloads but reports
  no change, and nothing restarts the service with the new unit.
- symlinks.py:71 keeps a link whose target has changed.

Elsewhere:

- virsh_set_pxe_boot:140: when `create` fails after `destroy`, the retry reads the
  stored definition, finds it as wanted, and leaves the domain off.
- virsh_set_pxe_boot:71: for a domain that already runs as asked another
  definition, stored by a run without a reset, stays for its next start.
- update-non-deployer-nodes:93: a status query that fails reads as a node that
  needs nothing.
- add-distros.py:155: a kill while servers.yml is written may leave a shorter
  list, with which later runs go on.
- flag-files/tasks/clear.yml:30 deletes `<name>_setup`, set.yml:28 writes
  `<name>_flag`.
- setup-root-partition.yml:261: stopped between fdisk and resizepart, the role
  fails at lvresize in every later run until the VM is restarted.
- setup-root-partition.yml: without LVM `root_fs_base_dev` is not set, and the
  role stops where it needs it.
- exec-test-plan.py:98 computes a log file below WORKSPACE and line 102 opens
  another; line 281 starts VMs under the prefix `minimal-vagrant_`.

### 3.2 Mutations

Each property of a passing run is accompanied by a mistake in the model of the
code that it notices. They are the definitions named `Slip...`, each before the
definition it would replace: counting only active references (`SlipRefsActive`),
dropping the reference count (`SlipDropPackage`), taking any link for the right
version (`SlipLinkIsActive`), comparing guesses instead of stamps
(`SlipServiceDirVersion`), ordering parts of a version as text (`SlipFromStr`),
and so on.

## 4. Proofs

Every invariant and every safety action property that a passing run checks is
also proved, for arbitrary finite or infinite sets of packages, suffixes,
services, requests, hosts, files and versions, any numbers of failures and
retries, and any interleaving. What is assumed of the constants are the named
ASSUMEs of Packages, Packager, RepoIndex, Indexer, Repository, Hosts, TestPlan
and Lab: that they have the types the modules give them, that the values for
"nothing" and "cut short" are none of the data, and, where the code rests on
it, what the callers give it (`RequestAssumption`). TLC evaluates all of them.

### 4.1 install_package

- `TypeCorrect` (PackagerProofs): `Spec => []TypeOK`, with any failures. The
  type of `spec` is not inductive: that the `version` and `suffix` attributes
  are there when a step reads them depends on how the step was reached, and
  the type of a directory's version on its stamp being one the tarball has.
  `WellFormed` adds these: `Attributes` says which labels imply which
  parameters and attributes, `FromTarball` that a package directory holds
  nothing its tarball does not.
- `ReferredPackagesStay` (PackagerSharing): `Spec => []ReferredKept`, with any
  failures. The inductive invariant `ReferredKeptInductive` adds that the
  package is there from `explode` to the symlink, and that nothing refers to it
  from `count_refs` to the end of the deletion. The second is what one
  invocation at a time gives; two would break it.
- `ReferredPackagesKeepTheirFiles` and `OtherServicesSurvive`: action
  properties from the same invariant. `VenvWriters`, `SvcWriters` and
  `LinkWriters` say once which steps write which directory.
- `ActiveVersionsRun` and `PackagerImplementsStore` (PackagerStore), for
  `Faults = {}`: `Spec => []LinkedRuns` and `Spec => ImplementsStore`. The
  invariant `Intact` has three parts. `PackagesIntact` and `ServicesIntact`: a
  directory is absent or complete except for the one at hand, and a link leads
  to a complete one. `RemovesInactive`: what `uninstall` passes to
  `service.remove` is not the active directory. The last one carries the
  argument that comparing versions is enough to protect a directory named by a
  suffix: if the link were still on the suffix to be removed, the directory
  would be complete, so its version would be that of its tarball, which is the
  version `uninstall` has just compared.

- `SuccessLinks` and `RemovalRemoves` (PackagerSharing), with any failures:
  `Spec => []SuccessIsLinked` and `Spec => []RemovedIsGone`. Both are about the
  steps at which an invocation may report a success; `OkEndings` and
  `RemovalEndings` find them. The second needs `RemovedSoFar`: a directory that
  holds something has an entry of its own (so that what is not seen is not
  there), a removal does not pass through the cache or the activation, and the
  service directory is gone by the time the package is looked at.
- `ActiveSpared` (PackagerStore), for `Faults = {}`:
  `Spec => RemovalSparesActive`, from `Intact`. With one kill it does not hold,
  which is the run `removes_active`.
- `NoPackageIsOrphaned`, for `Faults = {}`: `Spec => []NoOrphanPackage`. Between
  invocations every package has a reference because at any time the only one
  that has none is the one at hand (`NoOrphanSoFar`).
- `ReportedVersionRuns`, for `Faults = {}`: `Spec => []ReportIsTrue`. An index
  lists tarballs under their own versions, whatever it was made from
  (`ReindexedConsistent`); so a `Spec` with both attributes names a tarball and
  its version (`SpecConsistent`); so does the directory that `activate` links
  to, which is complete (`RelinkedVersion`).
- `AttributesAreKnown` (PackagerProofs): `Spec => []Attributes`, with any
  failures.
- `InstallationSparesRunning` (PackagerSharing), with any failures:
  `Spec => InstallSparesRunning`. In an installation a package directory that is
  whole and a service directory that is complete stay so (`StepLaidStays`):
  every step that writes one first looks that it is not there, and no step of
  `uninstall` is reached.
- `WithoutFailuresIntact` states the strengthening that the failure-free results
  lean on, `Intact`, as a result of its own: `upgrade` checks it.

### 4.2 The repository

- `ReindexedConsistent` (RepoIndexProofs): whatever index `create_index` starts
  from, the one it makes names tarballs under their own versions if the old one
  did. Packager's and Indexer's proofs both cite it.
- `DirectoryIsIndexed` (RepositoryProofs): `Spec => []IndexesTheDirectory`. The
  inductive invariant adds that every index that can be loaded is `Truthful`,
  and that the listing is still what the directory holds while nothing changes
  it (`ListingIsCurrent`). Without the first, an entry kept from an older index
  could stand under a version its tarball does not have.
- `IndexIsReplacedAtOnce`: `Spec => ImplementsAtomicIndex`. Under the mapping
  (`SeenIndex`, `SeenFiles`) the five steps of a lone `create_index` are
  stutters but the last, which is IndexStore's `Reindex`: what was loaded is in
  the file until the file is truncated, and stands for it until the write
  (`OldIsInTheFile`).
- `NewestEditIsNewest`, for any number of edits: two stamped tarballs of a
  package are compared by version, time stamp and patch, and an edit keeps the
  first two. The invariant follows the edited stamp from the tarball
  through the scratch directory to the new tarball (`ScratchHolds`), and says
  that no tarball is named after a time to come (`FutureIsOpen`), so that the
  source of an edit is not overwritten while it is edited.
- `ScratchIsTidied`, whatever fails or is killed: a directory that nobody
  installed is that of the running edit, or of one that did not come to the end
  of its rmtree; such an edit has not reported success, and its second is past
  (`UncleanIsPast`), so that no later one has its name. `InstalledAreWhole`,
  for edits that have the host to themselves while they run (`apart`): what
  `install_package` takes for an unpacked tarball is one that it unpacked
  itself, or what an edit in `unclean` has left (`InstalledApart`).
- `RepositoryTypesCorrect`: the types of both programs.

### 4.3 The nodes

- `SuccessLoads` (HostsProofs): a success has the wanted unit on disk and
  loaded, after any failures, because reload and report are only reached with
  the file as wanted (`WrittenFirst`). `ServiceRunsUnit`: until something fails,
  file, memory and process agree or a restart is due (`UntilFailure`).
  `UnitTypeCorrect`: no process is started from a torn file.
- `OutputIsRead`: a pipe that is given up is at its end (`GivenUp`), and one that
  select did not report is empty unless the child has written since
  (`NothingReady`).
- `RegrantedIsQuiet`: what a run has looked at is a link, and links are never
  taken away, so a request that was granted finds every one of its links
  (`LinksInv`).
- `FlagsStandForWork`: `VmInv` says which layers are grown at each task. The
  volume is grown whenever the flag is set, since a play that cannot grow it
  fails; the filesystem is as long as the role is not stopped, because each
  conditional task then finds `resized` as the one before left it. The run
  `unresized_root` is what happens otherwise.
- `ArgumentsAreSpecified`, for any specification and any bound on the words of a
  call (`MaxWords` is a constant of the theorem): one conjunct per pass of
  `AnsibleModule.__init__`, for what it leaves to the rest of them. The order of
  passes is in it: exclusion is checked before defaults are set
  (`OneOfExclusive` therefore speaks of options without a default), choices
  before types (`TypesAreMade` carries the choice through the conversion), and
  required options have no default (`RequiredHasNoDefault`), which the pass over
  aliases checks.
- `HostsStay` (AggregateProofs), for any number of hosts and aggregates: each
  module knows only aggregates that nova has or had, and a host is only taken
  out, or an aggregate dissolved, by a module that was asked to (`Announced`).
- `HostsTypesCorrect`: the types of all of them.

### 4.4 The developer's and the CI host

- `CommandsReachDeployer` (LabProofs), for any plan: `Spec => []ClientIsCurrent`.
  The list of operations that a plan comes to has the property that whatever
  boots the deployer is followed by a wait for it before the next command for it
  (`Waits`). It holds of each group of VM operations, is kept by `\o`
  (`WaitingConcat`) and so by `FlattenSeq` (`FlattenIn`), and what is left of
  such a list is such a list (`TailWaits`). `PlanInv` then says that a lost
  connection, or one that a reboot is about to cut, has such a wait before it.
- `NodesAreUpToDate`: the list without repetitions names every node once
  (`UniqNamesAll`), and what the present node still needs is among the actions
  that are due for it (`NeedsAreDue`), because no action creates a need
  that one before it would have met.
- `WhatIsRecordedWasChosen`: the file, and what is about to be written to it, say
  of each node that they list what was chosen, the nodes without a distro-id
  having the default (`Records`). A stop in the middle of a save leaves a
  beginning of such a list; a later run reads it, changes the nodes it is told
  of, and so leaves such a list again.
- `AnswersAreOfTheBlock`, for files of any length: `Reads` describes `config` by
  the lines read so far: for each box its last block, for each option the last
  line of that block that sets it.
- `DomainBootsAsAsked`: what the module knows of the domain at each step
  (`KnowsDomain`), whatever failed before, with a reset and without one.
- `SuccessIsCurrent`: from the checksum on, each task has ensured the one before
  (`Ensured`), whatever stopped earlier runs.
- `BuildsAreOrdered`, for any names, time stamps, patches and the releases that
  version.yml gives back as they were (`Kept`): a file name splits into the package and the suffix it was made of (`NamesSplit`), and
  the list of parts that `from_str` makes of a version orders as release,
  time stamp and patch do (`PartsInOrder`).
- `LabTypesCorrect`: the types of all of them.

What a recursive function computes is proved here from a least counterexample:
`FlattenSeq` is a recursive function over `1 .. Len`; that it exists
(`FlattenExists`) and stays in a set that is closed under `\o` (`FlattenIn`) is
shown at the least index where it would not, by `WFMin`. The same argument
finds the first mention of a node and the last word of a call that names an
option.

### 4.5 Only model-checked

The liveness properties (`InvocationEnds`, `UpgradeEnds`, `CommandReturns`,
`PlanEnds`): they need fairness and ENABLED, which are beyond the prover. And
the five sentences of 3.1, which do not hold.

The theorems with an exception (`Faults = {}`, `apart`, no `lost` node, no
`early` wait) say in their hypotheses or in the property itself what they
exclude. The runs `removes_active` and `unresized_root` show that it cannot be
left out of `ActiveSpared` and `FlagsStandForWork`.

## 5. Plan

Done: install_package with its refinement and proofs; the repository's writers;
the modules on the nodes; the programs of the developer's and the CI host.

Left, in this order:

1. A composition of `Packager` with `Indexer`, in which an install reads an index
   that is being rewritten. `ImplementsAtomicIndex` covers what a lone
   `create_index` does to it.
2. Two `create_index` at once in one directory.
3. Abstract specifications of `setup_systemd` and of the aggregate, and the
   proofs that the modules implement them.
4. `run-update` around the rolling update: the deployer's own update and its
   exit codes.

## 6. Not modelled

- File modes, ownership and the contents of packages and scripts: the
  properties do not tell them apart. The syntax of versions is in `Versions`, as
  far as it decides which of two is newer.
- Two invocations at once on one node: Ansible does not start them.
- An index that reaches the node cut short (a short body is modelled for
  tarballs), and services of which one is named like another with a suffix
  (nova and nova-api), whose links `ensure_suffix` would take for directories.
- A path under `/opt/stack/service` or `/opt/stack/venv` that is neither a
  directory nor a link of install_package's own.
- Most of ansible.py, a copy of Ansible's module support: of it the argument
  checks and `run_command` are modelled, which every module goes through; its
  helpers for files, SELinux and facts are called by none of the modelled code
  on a path that a property depends on.
- The shell wrappers of the modules (they log and exec), and the Jinja filters
  (pure functions; `find_latest_packages` is used by no playbook here).
- Cobbler's deployment: its protocol with the nodes is cobbler's.
- astack, the CI drivers, vagrant and libvirt environments, the other roles:
  sequences of commands and declarative tasks that keep no state beyond files
  the parts above own. `rsync-mirror-repos` is one rsync, `cleanup-slave`
  removes whole directories.
- Lint rules: pattern checks on text.
