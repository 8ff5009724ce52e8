------------------------------ MODULE VenvEdit -------------------------------
(***************************************************************************)
(* venv_edit (venv_edit.py): a tarball rebuilt with more wheels, or a new  *)
(* one, in a scratch directory.  The scratch directory is                  *)
(* /opt/stack/venv/<name>-<time>, which is where install_package unpacks   *)
(* the tarball that is being made, on the host that makes it.              *)
(***************************************************************************)
EXTENDS Naturals

CONSTANTS
  Name,        \* package names
  Built,       \* Built[n]: repo[n][0], from an earlier release
  Version,     \* the numbers of versions asked for
  None, Cut,   \* no directory, tarball, attribute; a tarball that was cut short
  Unstamped,   \* the META-INF of a venv or a tarball without version.yml
  Requests,    \* the arguments of invocations that are considered
  Runs,        \* bound on the invocations
  MaxFaults    \* bound on the failures

VARIABLES
  apart,      \* whether install_package runs between invocations only
  repo,       \* repo[n][x]: META-INF of tarball <<n, x>>; None or Cut
  dir,        \* dir[n][x]: /opt/stack/venv/<n>-<x>, None or [state, meta]
  installed,  \* tarballs that install_package took from the repository
  unclean,    \* scratch directories of invocations that did not come to the
              \* end of their rmtree: killed before, or it raised
  now,        \* seconds, counted in invocations: the suffix of this one
  pc, req, name, result, outcome, faults

vars == <<apart, repo, dir, installed, unclean, now, pc, req, name, result, outcome,
          faults>>

Time == 0 .. Runs
Meta == [version : Version, timestamp : Time, patch : Nat \cup {None}]
Request == [name : Name \cup {None}, src : (Name \X Time) \cup {None},
            dest : BOOLEAN, version : Version, patch : Nat \cup {None}]
Dir == [state : {"partial", "bare", "ready"}, meta : Meta \cup {Unstamped}]

Exists(n, x) == repo[n][x] \notin {None, Cut}
(* name is not the name of the venv that src holds.                        *)
Derived(r) == r.src # None /\ r.name # None /\ r.name # r.src[1]

Init ==
  /\ apart \in BOOLEAN
  /\ repo = [n \in Name |-> [x \in Time |-> IF x = 0 THEN Built[n] ELSE None]]
  /\ dir = [n \in Name |-> [x \in Time |-> None]]
  /\ installed = {} /\ unclean = {}
  /\ now = 0 /\ faults = 0
  /\ pc = "idle"
  /\ req = None /\ name = None
  /\ result = "none" /\ outcome = "none"

-----------------------------------------------------------------------------
Goto(label) == pc' = label /\ UNCHANGED <<result, outcome>>
(* An exception or fail_json (SystemExit): the finally clause comes next.  *)
Leave(how) == pc' = "cleanup" /\ result' = how /\ UNCHANGED outcome
SetDir(d) == dir' = [dir EXCEPT ![name][now] = d]
Invocation == <<apart, installed, unclean, now, req, name, faults>>

(* main up to the try: the checks on name, src and dest.                   *)
Start(r) ==
  /\ pc = "idle"
  /\ now < Runs
  /\ now' = now + 1
  /\ req' = r
  /\ result' = "none"
  /\ IF r.src = None /\ (~r.dest \/ r.name = None)
     THEN pc' = "idle" /\ name' = None /\ outcome' = "failed"
     ELSE /\ name' = IF r.name = None THEN r.src[1] ELSE r.name
          /\ outcome' = "running"
          /\ pc' = IF r.src = None THEN "create" ELSE "unpack"
  /\ UNCHANGED <<apart, repo, dir, installed, unclean, faults>>

(* create_venv: what virtualenv returns is not looked at.                  *)
CreateVenv ==
  /\ pc = "create"
  /\ \/ SetDir([state |-> "bare", meta |-> Unstamped]) /\ UNCHANGED faults
     \/ faults < MaxFaults /\ faults' = faults + 1 /\ UNCHANGED dir
  /\ Goto("wheels")
  /\ UNCHANGED <<apart, repo, installed, unclean, now, req, name>>

SlipUnpack ==
  /\ pc = "unpack"
  /\ repo[req.src[1]][req.src[2]] # None
  /\ SetDir([state |-> "bare", meta |-> repo[req.src[1]][req.src[2]]])
  /\ Goto("wheels")
  /\ UNCHANGED <<repo, Invocation>>

Unpack ==
  /\ pc = "unpack"
  /\ Exists(req.src[1], req.src[2])
  /\ SetDir([state |-> "bare", meta |-> repo[req.src[1]][req.src[2]]])
  /\ Goto("wheels")
  /\ UNCHANGED <<repo, Invocation>>

UnpackFails ==
  /\ pc = "unpack"
  /\ ~Exists(req.src[1], req.src[2])
  /\ Leave("crashed")
  /\ \/ UNCHANGED dir
     \/ repo[req.src[1]][req.src[2]] = Cut /\ SetDir([state |-> "partial", meta |-> Unstamped])
  /\ UNCHANGED <<repo, Invocation>>

(* relocate_venv, for an unpacked one, and add_to_venv: virtualenv again   *)
(* if there is no bin/activate, and pip.                                   *)
AddToVenv ==
  /\ pc = "wheels"
  /\ SetDir([state |-> "ready",
             meta |-> IF dir[name][now] = None THEN Unstamped ELSE dir[name][now].meta])
  /\ Goto("version")
  /\ UNCHANGED <<repo, Invocation>>

SlipAddFails ==
  /\ pc = "wheels"
  /\ faults < MaxFaults
  /\ faults' = faults + 1
  /\ pc' = "idle" /\ outcome' = "failed" /\ result' = "failed"
  /\ UNCHANGED <<apart, repo, dir, installed, unclean, now, req, name>>

AddFails ==
  /\ pc = "wheels"
  /\ faults < MaxFaults
  /\ faults' = faults + 1
  /\ Leave("failed")
  /\ UNCHANGED <<apart, repo, dir, installed, unclean, now, req, name>>

CreateMetadata ==
  /\ pc = "version"
  /\ req.src = None
  /\ SetDir([state |-> "ready",
             meta |-> [version |-> req.version, timestamp |-> now, patch |-> req.patch]])
  /\ Goto("pack")
  /\ UNCHANGED <<repo, Invocation>>

SlipNewPatch(r, old) ==
  IF Derived(r) /\ r.patch = None THEN None
  ELSE IF r.patch # None THEN r.patch
  ELSE IF old = None THEN 1 ELSE old

(* update_version: the patch number asked for, else one more than it was;  *)
(* a venv under another name starts without.                               *)
NewPatch(r, old) ==
  IF Derived(r) /\ r.patch = None THEN None
  ELSE IF r.patch # None THEN r.patch
  ELSE IF old = None THEN 1 ELSE old + 1

(* Without META-INF/version.yml the open raises IOError.                   *)
UpdateVersion ==
  /\ pc = "version"
  /\ req.src # None
  /\ LET meta == dir[name][now].meta
     IN  IF meta = Unstamped
         THEN Leave("crashed") /\ UNCHANGED dir
         ELSE /\ SetDir([state |-> "ready",
                         meta |-> [meta EXCEPT !.patch = NewPatch(req, @)]])
              /\ Goto("pack")
  /\ UNCHANGED <<repo, Invocation>>

(* repackage_venv: tarfile.open(new_tarball, "w:gz") ...                   *)
OpenTarball ==
  /\ pc = "pack"
  /\ repo' = [repo EXCEPT ![name][now] = Cut]
  /\ Goto("add")
  /\ UNCHANGED <<dir, Invocation>>

(* ... and tarball.add.                                                    *)
Pack ==
  /\ pc = "add"
  /\ repo' = [repo EXCEPT ![name][now] = dir[name][now].meta]
  /\ Leave("ok")
  /\ UNCHANGED <<dir, Invocation>>

SlipCleanup ==
  /\ pc = "cleanup"
  /\ IF dir[name][now] \notin {None} /\ dir[name][now].state # "partial"
     THEN /\ SetDir([dir[name][now] EXCEPT !.state = "partial"])
          /\ IF result = "ok" THEN pc' = "idle" /\ outcome' = result /\ UNCHANGED result
             ELSE UNCHANGED <<pc, result, outcome>>
     ELSE /\ SetDir(None)
          /\ pc' = "idle" /\ outcome' = result
          /\ UNCHANGED result
  /\ UNCHANGED <<repo, Invocation>>

(* shutil.rmtree of the scratch directory, whose files go one by one.      *)
Cleanup ==
  /\ pc = "cleanup"
  /\ IF dir[name][now] # None /\ dir[name][now].state # "partial"
     THEN /\ SetDir([dir[name][now] EXCEPT !.state = "partial"])
          /\ UNCHANGED <<pc, result, outcome>>
     ELSE /\ SetDir(None)
          /\ pc' = "idle" /\ outcome' = result
          /\ UNCHANGED result
  /\ UNCHANGED <<repo, Invocation>>

(* rmtree raises, at the first entry or after some: main ends with that    *)
(* exception, whatever it was about to report.                             *)
CleanupFails ==
  /\ pc = "cleanup"
  /\ dir[name][now] # None
  /\ faults < MaxFaults
  /\ faults' = faults + 1
  /\ unclean' = unclean \cup {<<name, now>>}
  /\ pc' = "idle" /\ outcome' = "crashed"
  /\ UNCHANGED <<apart, repo, dir, installed, now, req, name, result>>

(* A full disk, an unreadable file, lsb_release that is not there.         *)
CallFails ==
  /\ pc \in {"unpack", "wheels", "version", "pack", "add"}
  /\ faults < MaxFaults
  /\ faults' = faults + 1
  /\ Leave("crashed")
  /\ UNCHANGED <<apart, repo, dir, installed, unclean, now, req, name>>

Kill ==
  /\ pc # "idle"
  /\ faults < MaxFaults
  /\ faults' = faults + 1
  /\ pc' = "idle"
  /\ outcome' = "killed"
  /\ unclean' = unclean \cup {<<name, now>>}
  /\ UNCHANGED <<apart, repo, dir, installed, now, req, name, result>>

(* install_package of a tarball of the repository: explode takes a         *)
(* directory that is there for the unpacked tarball (expand.py:86).        *)
Install(n, x) ==
  /\ apart => pc = "idle"
  /\ Exists(n, x)
  /\ <<n, x>> \notin installed
  /\ installed' = installed \cup {<<n, x>>}
  /\ dir' = [dir EXCEPT ![n][x] =
               IF @ = None THEN [state |-> "ready", meta |-> repo[n][x]] ELSE @]
  /\ UNCHANGED <<apart, repo, unclean, now, pc, req, name, result, outcome, faults>>

Next ==
  \/ \E r \in Requests : Start(r)
  \/ CreateVenv \/ Unpack \/ UnpackFails \/ AddToVenv \/ AddFails
  \/ CreateMetadata \/ UpdateVersion \/ OpenTarball \/ Pack \/ Cleanup
  \/ CleanupFails \/ CallFails \/ Kill
  \/ \E n \in Name, x \in Time : Install(n, x)

Spec == Init /\ [][Next]_vars

-----------------------------------------------------------------------------
TypeOK ==
  /\ apart \in BOOLEAN
  /\ repo \in [Name -> [Time -> Meta \cup {Unstamped, None, Cut}]]
  /\ dir \in [Name -> [Time -> Dir \cup {None}]]
  /\ installed \subseteq Name \X Time /\ unclean \subseteq Name \X Time
  /\ now \in Time /\ faults \in 0 .. MaxFaults
  /\ pc \in {"idle", "create", "unpack", "wheels", "version", "pack", "add", "cleanup"}
  /\ pc # "idle" => req \in Request /\ name \in Name

(* The order of Version: a patch comes after its base.                     *)
Older(a, b) ==
  \/ a.version < b.version
  \/ /\ a.version = b.version
     /\ \/ a.timestamp < b.timestamp
        \/ /\ a.timestamp = b.timestamp
           /\ b.patch # None
           /\ a.patch = None \/ a.patch < b.patch

Others == {x \in Time \ {now} : Exists(name, x) /\ repo[name][x] # Unstamped}

(* Edits are made one from another, by patch number or not, some of them   *)
(* failing: the edit of the newest tarball of a package is newer than      *)
(* every stamped tarball of that package: an upgrade takes it.  (An edit   *)
(* of another may repeat a version; update_version, venv_edit.py:235.)     *)
EditOfNewestIsNewest ==
  /\ pc = "idle" /\ outcome = "ok"
  /\ req.src # None /\ ~Derived(req) /\ req.patch = None
  /\ \A x \in Others : ~Older(repo[name][req.src[2]], repo[name][x])
  => \A x \in Others : Older(repo[name][x], repo[name][now])

(* What is under /opt/stack/venv was put there by install_package, or is   *)
(* the scratch directory of the invocation in progress or of one that did  *)
(* not come to the end of its rmtree; and no such invocation reports       *)
(* success: the finally clause is passed on every way out of main, and     *)
(* exit_json comes after it (venv_edit.py:320).                            *)
ScratchIsRemoved ==
  /\ \A n \in Name, x \in Time :
       dir[n][x] # None =>
         \/ <<n, x>> \in installed \cup unclean
         \/ pc # "idle" /\ n = name /\ x = now
  /\ pc = "idle" /\ outcome = "ok" => <<name, now>> \notin unclean

(* On a host where it does not run beside install_package, a tarball whose *)
(* edit reported success is installed whole on that same host, whatever    *)
(* was killed or failed before or after it: what explode takes there for   *)
(* an unpacked tarball is one.  So is every other tarball in the           *)
(* repository but those of the invocations that left their scratch         *)
(* directory (expand.py:86).                                               *)
InstalledIsWhole ==
  apart => \A t \in installed \ unclean :
    dir[t[1]][t[2]] = [state |-> "ready", meta |-> repo[t[1]][t[2]]]
=============================================================================
