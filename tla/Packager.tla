------------------------------ MODULE Packager ------------------------------
(***************************************************************************)
(* install_package on one node: cmd.py with cache.py, expand.py,           *)
(* service.py and activate.py, against a package repository that is        *)
(* re-published behind its back.                                           *)
(*                                                                         *)
(* An invocation runs alone, but every call that changes the disk is a     *)
(* step of its own, so that a kill, a lost connection or an I/O error can  *)
(* fall between any two of them and leave the disk as it is for the next   *)
(* invocation.  A directory is the set of the things it holds: "dir" for   *)
(* the directory itself and one member for each entry that matters.        *)
(***************************************************************************)
EXTENDS RepoIndex, FiniteSets

CONSTANTS
  Service,     \* names of services (components), e.g. nova-api
  PackageOf,   \* PackageOf[s]: the package that service s is installed from
  Requests,    \* the parameters that install_package is run with
  Published,   \* the tarballs in the repository at the start
  Latest,      \* VERSION_LATEST
  Torn,        \* an index file that was truncated and not written
  Faults,      \* the kinds of failure considered
  MaxFaults    \* how many failures may happen in a behaviour

ASSUME PackageOfAssumption == PackageOf \in [Service -> Package]
ASSUME PublishedAssumption == Published \subseteq Tarball
ASSUME FaultAssumption == Faults \subseteq {"kill", "io", "net"}
                          /\ MaxFaults \in Nat
ASSUME TokenAssumption ==
  /\ None \notin {"update", "present", "absent", "act_on", "act_off",
                  "junk", "cut", "whole"}
  /\ Latest \notin Version \cup Suffix \cup {None}
  /\ Torn \notin Index \cup {None}

(* The parameters: `dict` says that version was given as the {'v': 1, ...} *)
(* dictionary an earlier run returned; otherwise version is a string, and  *)
(* a string may also be a suffix (the old meaning of the parameter).       *)
Parameters ==
  [cache : {"update", None}, state : {"present", "absent", None},
   service : Service \cup {None}, dict : BOOLEAN,
   version : Version \cup Suffix \cup {Latest}, suffix : Suffix \cup {None},
   activate : {"act_on", "act_off", None}]

(* Every caller that installs or removes names the service, and a version  *)
(* and a suffix given together are those an earlier run returned.          *)
ASSUME RequestAssumption ==
  /\ Requests \subseteq Parameters
  /\ \A r \in Requests :
       /\ r.state # None => r.service # None
       /\ r.suffix # None /\ r.version # Latest
          => r.service # None
             /\ r.version = TarballVersion(PackageOf[r.service], r.suffix)

VARIABLES
  files,     \* tarballs in the repository directory
  index,     \* the repository's index file
  listing,   \* the node's copy of the index, None or Torn
  cached,    \* cached[p][x]: the tarball in the node's cache
  venv,      \* venv[p][x]: what /opt/stack/venv/<p>-<x> holds
  svc,       \* svc[s][x]: what /opt/stack/service/<s>-<x> holds
  link,      \* link[s]: suffix that /opt/stack/service/<s> points to, or None
  pc,        \* the step the invocation has reached, "idle" when none runs
  req,       \* the parameters of the current or last invocation
  spec,      \* its Spec: version and suffix, None for a missing attribute
  changed,   \* its `changed`
  outcome,   \* how the last invocation ended
  faults     \* failures so far

repo == <<files, index>>
disk == <<listing, cached, venv, svc, link>>
local == <<req, spec, changed>>
vars == <<repo, disk, pc, local, outcome, faults>>

VenvParts == {"dir", "stamp", "rest"}
SvcParts == {"dir", "venv", "etc"}

(* What a completely extracted tarball and a complete service directory    *)
(* hold.                                                                   *)
Whole(p, x) == {"dir", "rest"} \cup IF Stamp[p][x] = None THEN {} ELSE {"stamp"}
Laid == SvcParts

-----------------------------------------------------------------------------
(* Reading the disk *)

(* Each definition whose name starts with Slip is a mistake that could be  *)
(* made in the definition after it; nothing uses it but the mutation runs, *)
(* which check that some property notices.                                 *)
SlipServiceDirVersion(s, x) == Guess[x]

(* from_service_dir: META-INF/version.yml seen through the venv link, else *)
(* a guess from the directory name.                                        *)
ServiceDirVersion(s, x) ==
  IF "venv" \in svc[s][x] /\ "stamp" \in venv[PackageOf[s]][x]
  THEN Stamp[PackageOf[s]][x]
  ELSE Guess[x]

(* os.path.exists follows the link: a dangling one looks like no link.     *)
ActiveVersion(s) ==
  IF link[s] # None /\ "dir" \in svc[s][link[s]]
  THEN ServiceDirVersion(s, link[s])
  ELSE None

(* No service is named like another one with a suffix (nova and nova-api): *)
(* the link of the second would match as a directory of the first.         *)
ServiceDirs(s) == {x \in Suffix : "dir" \in svc[s][x]}

SlipEnsureAnyVersion(s) ==
  IF spec.suffix # None THEN {spec.suffix} ELSE ServiceDirs(s)

SlipEnsureByGuess(s) == {x \in ServiceDirs(s) : Guess[x] = spec.version}

(* ensure_suffix: the given suffix, else that of any directory of the      *)
(* service that has the version (os.listdir has no order).                 *)
EnsuredSuffixes(s) ==
  IF spec.suffix # None
  THEN {spec.suffix}
  ELSE {x \in ServiceDirs(s) : ServiceDirVersion(s, x) = spec.version}

(* Comparing VERSION_LATEST with a Version raises AttributeError.          *)
EnsureCrashes(s) ==
  spec.suffix = None /\ spec.version = Latest /\ ServiceDirs(s) # {}

CompareCrashes(v) ==
  spec.version = None \/ (spec.version = Latest /\ v # None)

SlipRefsActive(p, x) == {s \in Service : PackageOf[s] = p /\ link[s] = x}

SlipRefsOwn(p, x) == {s \in {req.service} : "venv" \in svc[s][x]}

(* count_refs: the service directories whose venv links to the package.    *)
Refs(p, x) == {s \in Service : PackageOf[s] = p /\ "venv" \in svc[s][x]}

S == req.service
P == PackageOf[req.service]
X == spec.suffix

-----------------------------------------------------------------------------
(* Ways a step ends *)

Goto(l) == pc' = l /\ UNCHANGED outcome
End(o) == pc' = "idle" /\ outcome' = o

(* What follows the cache, present or absent phase of main: activation, or *)
(* the report, which cannot be made without a version attribute.           *)
Proceed ==
  IF req.state # "absent" /\ req.activate # "act_off" /\ req.service # None
  THEN Goto("activate")
  ELSE End(IF spec.version = None THEN "crashed" ELSE "ok")

(* The "backward-compatible argument munging" of main.                     *)
Munged(r) ==
  IF ~r.dict /\ r.activate = "act_on" /\ r.state = None /\ r.suffix = None
     /\ r.version # Latest
  THEN [version |-> None, suffix |-> r.version]
  ELSE [version |-> r.version, suffix |-> r.suffix]

FirstLabel(r) ==
  CASE r.cache = "update" -> "update"
    [] r.cache = None /\ r.state = "present" -> "lookup"
    [] r.cache = None /\ r.state = "absent" -> "uninstall"
    [] OTHER -> "proceed"

-----------------------------------------------------------------------------
Init ==
  /\ files = Published
  /\ index \in Reindexed(EmptyIndex, Published)
  /\ listing = None
  /\ cached = [p \in Package |-> [x \in Suffix |-> None]]
  /\ venv = [p \in Package |-> [x \in Suffix |-> {}]]
  /\ svc = [s \in Service |-> [x \in Suffix |-> {}]]
  /\ link = [s \in Service |-> None]
  /\ pc = "idle"
  /\ req \in Requests
  /\ spec = Munged(req)
  /\ changed = FALSE
  /\ outcome = "none"
  /\ faults = 0

(* A tarball is added to or removed from the repository, and re-indexed.   *)
Republish(new) ==
  /\ new # files
  /\ files' = new
  /\ index' \in Reindexed(index, new)
  /\ UNCHANGED <<disk, pc, local, outcome, faults>>

Publish == \E t \in Tarball : Republish(files \cup {t})
Withdraw == \E t \in Tarball : Republish(files \ {t})

(* main, up to the dispatch on cache and state.                            *)
Start(r) ==
  /\ pc = "idle"
  /\ pc' = FirstLabel(r)
  /\ req' = r
  /\ spec' = Munged(r)
  /\ changed' = FALSE
  /\ outcome' = "none"
  /\ UNCHANGED <<repo, disk, faults>>

SkipToActivation ==
  /\ pc = "proceed"
  /\ Proceed
  /\ UNCHANGED <<repo, disk, local, faults>>

-----------------------------------------------------------------------------
(* cache.update: fetch the index; rewrite the node's copy if it differs.   *)
(* The index comes whole or the request fails; a body cut short is         *)
(* modelled for tarballs only.                                             *)

IndexIsCurrent ==
  /\ pc = "update"
  /\ listing = index
  /\ Proceed
  /\ UNCHANGED <<repo, disk, local, faults>>

UpdateIndex ==
  /\ pc = "update"
  /\ listing # index
  /\ listing' = index
  /\ changed' = TRUE
  /\ Proceed
  /\ UNCHANGED <<repo, cached, venv, svc, link, req, spec, faults>>

-----------------------------------------------------------------------------
(* cache.assert_package_present *)

Available == listing[P]
Wanted ==
  IF spec.version = Latest
  THEN Newest(DOMAIN Available)
  ELSE DOMAIN Available \cap {spec.version}

(* An unreadable index, and max() of no versions, raise what main does not *)
(* catch; an unlisted package or version is an InstallerError.             *)
UnreadableIndex ==
  /\ pc = "lookup"
  /\ listing \in {None, Torn}
  /\ End("crashed")
  /\ UNCHANGED <<repo, disk, local, faults>>

UnknownPackage ==
  /\ pc = "lookup"
  /\ listing \notin {None, Torn}
  /\ Available = None
  /\ End("failed")
  /\ UNCHANGED <<repo, disk, local, faults>>

UnknownVersion ==
  /\ pc = "lookup"
  /\ listing \notin {None, Torn}
  /\ Available # None
  /\ Wanted = {}
  /\ End(IF spec.version = Latest THEN "crashed" ELSE "failed")
  /\ UNCHANGED <<repo, disk, local, faults>>

LookUp ==
  /\ pc = "lookup"
  /\ listing \notin {None, Torn}
  /\ Available # None
  /\ \E v \in Wanted :
       /\ spec' = [version |-> v, suffix |-> Available[v]]
       /\ Goto(IF cached[P][Available[v]] = None THEN "download" ELSE "unpack")
  /\ UNCHANGED <<repo, disk, req, changed, faults>>

(* _download ignores the status: what a repository without the tarball     *)
(* answers is stored under the tarball's name.                             *)
Download ==
  /\ pc = "download"
  /\ cached' = [cached EXCEPT ![P][X] =
                  IF <<P, X>> \in files THEN "whole" ELSE "junk"]
  /\ Goto("unpack")
  /\ UNCHANGED <<repo, listing, venv, svc, link, local, faults>>

-----------------------------------------------------------------------------
(* expand.explode, once the tarball is in the cache *)

NotATarball ==
  /\ pc = "unpack"
  /\ cached[P][X] = "junk"
  /\ End("failed")
  /\ UNCHANGED <<repo, disk, local, faults>>

(* "We assume there's nothing to do".                                      *)
AlreadyUnpacked ==
  /\ pc = "unpack"
  /\ cached[P][X] # "junk"
  /\ "dir" \in venv[P][X]
  /\ Goto("refer")
  /\ UNCHANGED <<repo, disk, local, faults>>

SlipMakeVenvDir ==
  /\ pc = "unpack"
  /\ cached[P][X] # "junk"
  /\ venv' = [venv EXCEPT ![P][X] = {"dir"}]
  /\ Goto("extract")
  /\ UNCHANGED <<repo, listing, cached, svc, link, local, faults>>

MakeVenvDir ==
  /\ pc = "unpack"
  /\ cached[P][X] # "junk"
  /\ "dir" \notin venv[P][X]
  /\ venv' = [venv EXCEPT ![P][X] = {"dir"}]
  /\ Goto("extract")
  /\ UNCHANGED <<repo, listing, cached, svc, link, local, faults>>

(* Members are extracted one by one, in the tarball's order.               *)
ExtractMember ==
  /\ pc = "extract"
  /\ \E m \in Whole(P, X) \ venv[P][X] :
       /\ cached[P][X] = "whole" \/ m # "rest"
       /\ venv' = [venv EXCEPT ![P][X] = @ \cup {m}]
  /\ UNCHANGED <<repo, listing, cached, svc, link, pc, local, outcome, faults>>

Extracted ==
  /\ pc = "extract"
  /\ venv[P][X] = Whole(P, X)
  /\ changed' = TRUE
  /\ Goto("refer")
  /\ UNCHANGED <<repo, disk, req, spec, faults>>

(* A truncated tarball runs out before its last member; whatever goes      *)
(* wrong, the directory stays as it is.                                    *)
ExtractFails ==
  /\ pc = "extract"
  /\ cached[P][X] = "cut"
  /\ End("failed")
  /\ UNCHANGED <<repo, disk, local, faults>>

-----------------------------------------------------------------------------
(* service.refer, and the rest of install.  explode has just found or made *)
(* the package directory, so refer's check for it never fails.             *)

AlreadyReferred ==
  /\ pc = "refer"
  /\ "dir" \in svc[S][X]
  /\ Goto("installed")
  /\ UNCHANGED <<repo, disk, local, faults>>

SlipMakeServiceDir ==
  /\ pc = "refer"
  /\ "dir" \notin svc[S][X]
  /\ svc' = [svc EXCEPT ![S][X] = {"dir", "log"}]
  /\ Goto("venvlink")
  /\ UNCHANGED <<repo, listing, cached, venv, link, local, faults>>

MakeServiceDir ==
  /\ pc = "refer"
  /\ "dir" \notin svc[S][X]
  /\ svc' = [svc EXCEPT ![S][X] = {"dir"}]
  /\ Goto("venvlink")
  /\ UNCHANGED <<repo, listing, cached, venv, link, local, faults>>

LinkVenv ==
  /\ pc = "venvlink"
  /\ svc' = [svc EXCEPT ![S][X] = @ \cup {"venv"}]
  /\ Goto("etcdir")
  /\ UNCHANGED <<repo, listing, cached, venv, link, local, faults>>

MakeEtcDir ==
  /\ pc = "etcdir"
  /\ svc' = [svc EXCEPT ![S][X] = @ \cup {"etc"}]
  /\ changed' = TRUE
  /\ Goto("installed")
  /\ UNCHANGED <<repo, listing, cached, venv, link, req, spec, faults>>

(* The second refer of install finds the directory of the first; a version *)
(* that is already active counts as no change.                             *)
Installed ==
  /\ pc = "installed"
  /\ changed' = (changed /\ ActiveVersion(S) # spec.version)
  /\ Proceed
  /\ UNCHANGED <<repo, disk, req, spec, faults>>

-----------------------------------------------------------------------------
(* activate_install.  main drops the `changed` it returns. *)

SlipAnyVersionActive ==
  /\ pc = "activate"
  /\ ActiveVersion(S) # None
  /\ End("ok")
  /\ UNCHANGED <<repo, disk, local, faults>>

SlipLinkIsActive ==
  /\ pc = "activate"
  /\ link[S] # None
  /\ End("ok")
  /\ UNCHANGED <<repo, disk, local, faults>>

AlreadyActive ==
  /\ pc = "activate"
  /\ ActiveVersion(S) = spec.version /\ ActiveVersion(S) # None
  /\ End("ok")
  /\ UNCHANGED <<repo, disk, local, faults>>

ActivationCrashes ==
  /\ pc = "activate"
  /\ CompareCrashes(ActiveVersion(S))
  /\ End("crashed")
  /\ UNCHANGED <<repo, disk, local, faults>>

SlipUnlinkOld ==
  /\ pc = "activate"
  /\ ActiveVersion(S) \notin {None, spec.version}
  /\ link' = [link EXCEPT ![S] = None]
  /\ Goto("relink")
  /\ UNCHANGED <<repo, listing, cached, venv, svc, local, faults>>

(* deactivate of whatever version is active.                               *)
UnlinkOld ==
  /\ pc = "activate"
  /\ ~CompareCrashes(ActiveVersion(S))
  /\ ActiveVersion(S) \notin {None, spec.version}
  /\ link' = [link EXCEPT ![S] = None]
  /\ Goto("relink")
  /\ UNCHANGED <<repo, listing, cached, venv, svc, local, faults>>

NothingToUnlink ==
  /\ pc = "activate"
  /\ ~CompareCrashes(ActiveVersion(S))
  /\ ActiveVersion(S) = None
  /\ Goto("relink")
  /\ UNCHANGED <<repo, disk, local, faults>>

(* activate: the directory must be there and the link must not.            *)
Relink ==
  /\ pc = "relink"
  /\ ~EnsureCrashes(S)
  /\ \E x \in EnsuredSuffixes(S) :
       /\ "dir" \in svc[S][x]
       /\ link[S] = None
       /\ link' = [link EXCEPT ![S] = x]
       /\ spec' = [spec EXCEPT !.suffix = x]
  /\ End("ok")
  /\ UNCHANGED <<repo, listing, cached, venv, svc, req, changed, faults>>

RelinkFails ==
  /\ pc = "relink"
  /\ \/ EnsureCrashes(S) /\ End("crashed")
     \/ /\ ~EnsureCrashes(S)
        /\ \/ EnsuredSuffixes(S) = {}
           \/ \E x \in EnsuredSuffixes(S) :
                "dir" \notin svc[S][x] \/ link[S] # None
        /\ End("failed")
  /\ UNCHANGED <<repo, disk, local, faults>>

-----------------------------------------------------------------------------
(* uninstall *)

UninstallActive ==
  /\ pc = "uninstall"
  /\ ActiveVersion(S) # None
  /\ spec.version \in {Latest, ActiveVersion(S)}
  /\ spec' = [spec EXCEPT !.version = ActiveVersion(S)]
  /\ link' = [link EXCEPT ![S] = None]
  /\ changed' = TRUE
  /\ Goto("unrefer")
  /\ UNCHANGED <<repo, listing, cached, venv, svc, req, faults>>

SlipUninstallInactive ==
  /\ pc = "uninstall"
  /\ ActiveVersion(S) = None
  /\ Goto("unrefer")
  /\ UNCHANGED <<repo, disk, local, faults>>

UninstallInactive ==
  /\ pc = "uninstall"
  /\ ActiveVersion(S) = None \/ spec.version \notin {Latest, ActiveVersion(S)}
  /\ Goto("unrefer")
  /\ UNCHANGED <<repo, disk, local, faults>>

(* service.remove, up to the recursive deletion.  The check that the       *)
(* version is not active has been anticipated by uninstall, which unlinks  *)
(* exactly then; what can fail is finding the directory.                   *)
UnreferFails ==
  /\ pc = "unrefer"
  /\ ActiveVersion(S) = None \/ ActiveVersion(S) # spec.version
  /\ \/ EnsureCrashes(S) /\ End("crashed")
     \/ ~EnsureCrashes(S) /\ EnsuredSuffixes(S) = {} /\ End("failed")
  /\ UNCHANGED <<repo, disk, local, faults>>

SlipUnrefer ==
  /\ pc = "unrefer"
  /\ ActiveVersion(S) = None \/ ActiveVersion(S) # spec.version
  /\ ~EnsureCrashes(S)
  /\ \E x \in EnsuredSuffixes(S) :
       /\ spec' = [spec EXCEPT !.suffix = x]
       /\ Goto(IF "etc" \in svc[S][x] THEN "rmsvc" ELSE "count")
  /\ UNCHANGED <<repo, disk, req, changed, faults>>

Unrefer ==
  /\ pc = "unrefer"
  /\ ActiveVersion(S) = None \/ ActiveVersion(S) # spec.version
  /\ ~EnsureCrashes(S)
  /\ \E x \in EnsuredSuffixes(S) :
       /\ spec' = [spec EXCEPT !.suffix = x]
       /\ Goto(IF "dir" \in svc[S][x] THEN "rmsvc" ELSE "count")
  /\ UNCHANGED <<repo, disk, req, changed, faults>>

(* rmtree: the entries in any order, then the directory.                   *)
RemoveServiceEntry ==
  /\ pc = "rmsvc"
  /\ \E e \in svc[S][X] \ {"dir"} :
       svc' = [svc EXCEPT ![S][X] = @ \ {e}]
  /\ UNCHANGED <<repo, listing, cached, venv, link, pc, local, outcome, faults>>

RemoveServiceDir ==
  /\ pc = "rmsvc"
  /\ svc[S][X] = {"dir"}
  /\ svc' = [svc EXCEPT ![S][X] = {}]
  /\ changed' = TRUE
  /\ Goto("count")
  /\ UNCHANGED <<repo, listing, cached, venv, link, req, spec, faults>>

SlipKeepPackage ==
  /\ pc = "count"
  /\ Proceed
  /\ UNCHANGED <<repo, disk, local, faults>>

(* count_refs; expand.remove looks for an active version in the wrong      *)
(* place, /opt/stack/venv, and so never finds one.                         *)
KeepPackage ==
  /\ pc = "count"
  /\ Refs(P, X) # {} \/ "dir" \notin venv[P][X]
  /\ Proceed
  /\ UNCHANGED <<repo, disk, local, faults>>

SlipDropPackage ==
  /\ pc = "count"
  /\ "dir" \in venv[P][X]
  /\ Goto("rmvenv")
  /\ UNCHANGED <<repo, disk, local, faults>>

DropPackage ==
  /\ pc = "count"
  /\ Refs(P, X) = {}
  /\ "dir" \in venv[P][X]
  /\ Goto("rmvenv")
  /\ UNCHANGED <<repo, disk, local, faults>>

RemoveVenvEntry ==
  /\ pc = "rmvenv"
  /\ \E m \in venv[P][X] \ {"dir"} :
       venv' = [venv EXCEPT ![P][X] = @ \ {m}]
  /\ UNCHANGED <<repo, listing, cached, svc, link, pc, local, outcome, faults>>

RemoveVenvDir ==
  /\ pc = "rmvenv"
  /\ venv[P][X] = {"dir"}
  /\ venv' = [venv EXCEPT ![P][X] = {}]
  /\ changed' = TRUE
  /\ Proceed
  /\ UNCHANGED <<repo, listing, cached, svc, link, req, spec, faults>>

-----------------------------------------------------------------------------
(* Failures: at most MaxFaults of them, of the kinds in Faults *)

Fault(k) == k \in Faults /\ faults < MaxFaults /\ faults' = faults + 1

(* The process or its node goes down; what is on disk stays.               *)
Kill ==
  /\ Fault("kill")
  /\ pc # "idle"
  /\ End("killed")
  /\ UNCHANGED <<repo, disk, local>>

(* A kill or a full disk while a file opened with mode 'w' is written.     *)
WriteInterrupted ==
  /\ \/ Fault("kill") /\ End("killed")
     \/ Fault("io") /\ End(IF pc = "update" THEN "failed" ELSE "crashed")
  /\ \/ /\ pc = "update"
        /\ listing # index
        /\ listing' = Torn
        /\ UNCHANGED cached
     \/ /\ pc = "download"
        /\ \E c \in {"junk", "cut"} :
             /\ c = "cut" => <<P, X>> \in files
             /\ cached' = [cached EXCEPT ![P][X] = c]
        /\ UNCHANGED listing
  /\ UNCHANGED <<repo, venv, svc, link, local>>

(* The connection fails before anything is written.                        *)
ConnectionRefused ==
  /\ Fault("net")
  /\ \/ pc = "update" /\ End("failed")
     \/ pc = "download" /\ End("crashed")
  /\ UNCHANGED <<repo, disk, local>>

(* The connection fails during a download.  requests does not compare what *)
(* arrives with Content-Length: it may raise, or just stop.                *)
DownloadCut ==
  /\ Fault("net")
  /\ pc = "download"
  /\ <<P, X>> \in files
  /\ \E c \in {"junk", "cut"} : cached' = [cached EXCEPT ![P][X] = c]
  /\ Goto("unpack") \/ End("crashed")
  /\ UNCHANGED <<repo, listing, venv, svc, link, local>>

(* A call that changes the disk fails (or, while extracting, the group of  *)
(* the request does not exist).  Only os.unlink's OSError is not caught.   *)
CallFails ==
  /\ Fault("io")
  /\ \/ /\ pc = "unpack" /\ cached[P][X] # "junk" /\ "dir" \notin venv[P][X]
        /\ End("failed")
     \/ pc = "refer" /\ "dir" \notin svc[S][X] /\ End("failed")
     \/ /\ pc \in {"extract", "venvlink", "etcdir", "rmsvc", "rmvenv"}
        /\ End("failed")
     \/ pc = "relink" /\ ~EnsureCrashes(S) /\ End("failed")
     \/ /\ pc = "activate"
        /\ ~CompareCrashes(ActiveVersion(S))
        /\ ActiveVersion(S) \notin {None, spec.version}
        /\ End("crashed")
     \/ /\ pc = "uninstall"
        /\ ActiveVersion(S) # None
        /\ spec.version \in {Latest, ActiveVersion(S)}
        /\ End("crashed")
  /\ UNCHANGED <<repo, disk, local>>

-----------------------------------------------------------------------------
InstallStep ==
  \/ UnreadableIndex \/ UnknownPackage \/ UnknownVersion \/ LookUp \/ Download
  \/ NotATarball \/ AlreadyUnpacked \/ MakeVenvDir
  \/ ExtractMember \/ Extracted \/ ExtractFails
  \/ AlreadyReferred \/ MakeServiceDir \/ LinkVenv \/ MakeEtcDir
  \/ Installed

ActivateStep ==
  \/ AlreadyActive \/ ActivationCrashes \/ UnlinkOld \/ NothingToUnlink
  \/ Relink \/ RelinkFails

UninstallStep ==
  \/ UninstallActive \/ UninstallInactive
  \/ UnreferFails \/ Unrefer \/ RemoveServiceEntry \/ RemoveServiceDir
  \/ KeepPackage \/ DropPackage \/ RemoveVenvEntry \/ RemoveVenvDir

Step ==
  \/ SkipToActivation \/ IndexIsCurrent \/ UpdateIndex
  \/ InstallStep \/ ActivateStep \/ UninstallStep

Failure ==
  Kill \/ WriteInterrupted \/ ConnectionRefused \/ DownloadCut \/ CallFails

Next ==
  \/ Publish \/ Withdraw
  \/ \E r \in Requests : Start(r)
  \/ Step
  \/ Failure

Spec == Init /\ [][Next]_vars

(* A started invocation runs on until it ends; nothing obliges anyone to   *)
(* start one, to publish a tarball, or to fail.                            *)
FairSpec == Spec /\ WF_vars(Step)

-----------------------------------------------------------------------------
Labels == {"idle", "proceed", "update", "lookup", "download", "unpack",
           "extract", "refer", "venvlink", "etcdir", "installed", "activate",
           "relink", "uninstall", "unrefer", "rmsvc", "count", "rmvenv"}

Outcomes == {"none", "ok", "failed", "crashed", "killed"}

(* The disk, the repository and the invocation's local state are what      *)
(* their types say.                                                        *)
TypeOK ==
  /\ files \subseteq Tarball
  /\ index \in Index
  /\ listing \in Index \cup {None, Torn}
  /\ cached \in [Package -> [Suffix -> {None, "junk", "cut", "whole"}]]
  /\ venv \in [Package -> [Suffix -> SUBSET VenvParts]]
  /\ svc \in [Service -> [Suffix -> SUBSET SvcParts]]
  /\ link \in [Service -> Suffix \cup {None}]
  /\ pc \in Labels
  /\ req \in Requests
  /\ spec \in [version : Version \cup Suffix \cup {Latest, None},
               suffix : Version \cup Suffix \cup {None}]
  /\ changed \in BOOLEAN
  /\ outcome \in Outcomes
  /\ faults \in 0 .. MaxFaults

(* What each step may rely on: the parameters that lead to it, and which   *)
(* attributes of the Spec are known by then.                               *)
InstallLabels == {"lookup", "download", "unpack", "extract", "refer",
                  "venvlink", "etcdir", "installed"}
RemoveLabels == {"uninstall", "unrefer", "rmsvc", "count", "rmvenv"}
ActivateLabels == {"activate", "relink"}

Attributes ==
  /\ pc \in InstallLabels => req.state = "present"
  /\ pc \in RemoveLabels => req.state = "absent"
  /\ pc \in InstallLabels \cup RemoveLabels \cup ActivateLabels
     => req.service # None
  /\ pc \in InstallLabels \ {"lookup"}
     => spec.version \in Version /\ spec.suffix \in Suffix
  /\ pc \in {"rmsvc", "count", "rmvenv"} => spec.suffix \in Suffix
  /\ pc \in RemoveLabels \cup {"lookup", "relink"} => spec.version # None
  /\ spec.version # None => spec.suffix \in Suffix \cup {None}

(* A package directory holds nothing that its tarball does not: a part of  *)
(* what the proofs build on.                                               *)
FromTarball ==
  \A p \in Package, x \in Suffix : venv[p][x] \subseteq Whole(p, x)

(* A service directory that links to a package keeps it: no kill, failure  *)
(* or uninstall of another service removes a package from under a link     *)
(* that count_refs could see.                                              *)
ReferredKept ==
  \A s \in Service, x \in Suffix :
    "venv" \in svc[s][x] => "dir" \in venv[PackageOf[s]][x]

(* ReferredKept holds because the package is there when refer links to it, *)
(* and nothing refers to it from count_refs to the end of the deletion.    *)
ReferredKeptInductive ==
  /\ ReferredKept
  /\ pc \in {"refer", "venvlink", "etcdir"} => "dir" \in venv[P][X]
  /\ pc = "rmvenv" => Refs(P, X) = {}

(* While a service directory links to it, a package loses none of its      *)
(* files either.                                                           *)
ShrinksUnreferred ==
  [][\A p \in Package, x \in Suffix :
       Refs(p, x) # {} => venv[p][x] \subseteq venv'[p][x]]_vars

(* What a running service needs: its link, the directory it points to, the *)
(* directory's venv, and every file of the package.                        *)
Runs(s) ==
  /\ link[s] # None
  /\ svc[s][link[s]] = Laid
  /\ venv[PackageOf[s]][link[s]] = Whole(PackageOf[s], link[s])

(* An invocation for one service, even one that is killed or fails half    *)
(* way, never breaks another service that shares the package.              *)
OthersKeepRunning ==
  [][\A s \in Service \ {req.service} : Runs(s) => Runs(s)']_vars

(* An installation may fail or be killed anywhere, name what is there      *)
(* already, or meet a part of an earlier one: the version that runs stays  *)
(* complete until activation unlinks it for another.  Staging a version,   *)
(* and repeating what failed, is safe while the service runs (expand.py:86,*)
(* service.py:86, cmd.py:205).                                             *)
InstallSparesRunning ==
  [][\A s \in Service :
       Runs(s) /\ req.state # "absent"
       => Runs(s)' \/ (s = S /\ pc = "activate" /\ link'[s] = None)]_vars

(* Whenever install_package reports success for a service it was to        *)
(* activate, the service's link leads to a directory.                      *)
SuccessIsLinked ==
  outcome = "ok" /\ req.service # None /\ req.state # "absent"
    /\ req.activate # "act_off"
  => link[S] # None /\ "dir" \in svc[S][link[S]]

(* A successful removal leaves neither the service directory nor, unless   *)
(* another service directory links to it, the package.                     *)
RemovedIsGone ==
  outcome = "ok" /\ req.state = "absent" /\ req.cache = None
  => svc[S][X] = {} /\ (venv[P][X] = {} \/ Refs(P, X) # {})

(* What LinkedRuns and ImplementsStore rest on when nothing fails: a       *)
(* directory is absent or complete, but for the one being built or taken   *)
(* away, and a link leads to a complete one.                               *)
PackagesIntact ==
  /\ \A p \in Package, x \in Suffix : cached[p][x] # "cut"
  /\ \A p \in Package, x \in Suffix :
       \/ venv[p][x] \in {{}, Whole(p, x)}
       \/ pc \in {"extract", "rmvenv"} /\ p = P /\ x = X
  /\ pc = "extract" => Refs(P, X) = {}

ServicesIntact ==
  /\ \A s \in Service, x \in Suffix :
       \/ svc[s][x] \in {{}, Laid}
       \/ pc \in {"venvlink", "etcdir", "rmsvc"} /\ s = S /\ x = X
  /\ pc = "venvlink" => svc[S][X] = {"dir"}
  /\ pc = "etcdir" => svc[S][X] = {"dir", "venv"}
  /\ \A s \in Service : link[s] # None => svc[s][link[s]] = Laid

(* uninstall hands service.remove a version other than that of the suffix  *)
(* the link has, so the directory that is removed is not the active one.   *)
RemovesInactive ==
  /\ pc = "uninstall" => spec = [version |-> req.version, suffix |-> req.suffix]
  /\ pc = "unrefer" /\ link[S] # None
     => /\ spec.version # Latest
        /\ spec.suffix # None => spec.version = TarballVersion(P, spec.suffix)
  /\ pc = "rmsvc" => link[S] # X

Intact == PackagesIntact /\ ServicesIntact /\ RemovesInactive

(* Without failures, a link that is there leads to a complete service.     *)
LinkedRuns == \A s \in Service : link[s] # None => Runs(s)

(* Without failures, success means that the version reported is the one    *)
(* that runs.                                                              *)
ReportIsTrue ==
  outcome = "ok" /\ req.service # None /\ req.state # "absent"
    /\ req.activate # "act_off" /\ spec.version \in Version
  => ActiveVersion(S) = spec.version

(* Without failures, a package on disk is one some service refers to.      *)
NoOrphanPackage ==
  pc = "idle" =>
    \A p \in Package, x \in Suffix : venv[p][x] # {} => Refs(p, x) # {}

(* "This is an error if the version's currently activated": a directory    *)
(* the service's link points to is not deleted.                            *)
RemovalSparesActive ==
  [][\A s \in Service, x \in Suffix :
       link[s] = x => svc[s][x] \subseteq svc'[s][x]]_vars

(* An invocation that is not stopped comes to an end.                      *)
InvocationEnds == (pc # "idle") ~> (pc = "idle")

(* The time without an active version, between the unlink and the symlink  *)
(* of an upgrade, ends.                                                    *)
UpgradeEnds ==
  \A s \in Service :
    (pc = "relink" /\ req.state = "present" /\ req.service = s)
      ~> (link[s] # None)

-----------------------------------------------------------------------------
(* Without failures, install_package implements PackageStore: a directory  *)
(* counts from its last entry until the first one is deleted.              *)
Unpacked == {t \in Tarball : venv[t[1]][t[2]] = Whole(t[1], t[2])}
LaidOut == {d \in Service \X Suffix : svc[d[1]][d[2]] = Laid}

Store == INSTANCE PackageStore WITH
  unpacked <- Unpacked, installed <- LaidOut, active <- link

ImplementsStore == Store!Spec

-----------------------------------------------------------------------------
(* What the code says about itself *)

(* "We assume there's nothing to do" (expand.py): a package directory that *)
(* is there was completely extracted.                                      *)
UnpackedIsWhole ==
  pc = "unpack" /\ "dir" \in venv[P][X] => venv[P][X] = Whole(P, X)

=============================================================================
