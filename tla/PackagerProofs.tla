--------------------------- MODULE PackagerProofs ---------------------------
(***************************************************************************)
(* Proofs about Packager, for any packages, services, requests and any     *)
(* number and kind of failures.                                            *)
(***************************************************************************)
EXTENDS Packager, RepoIndexProofs

-----------------------------------------------------------------------------
(* What the invocation's parameters and the disk say *)

WellFormed == TypeOK /\ Attributes /\ FromTarball

(* A service named by the parameters has a package.                        *)
LEMMA RequestType ==
  ASSUME TypeOK
  PROVE  /\ S \in Service \cup {None}
         /\ S # None => S \in Service /\ P \in Package
         /\ req.state # None => S # None
         /\ req.suffix \in Suffix \cup {None}
         /\ req.version \in Version \cup Suffix \cup {Latest}
BY PackageOfAssumption, RequestAssumption DEF TypeOK, Parameters, S, P

(* from_service_dir and active_version return versions.                    *)
LEMMA ActiveVersionType ==
  ASSUME WellFormed, NEW s \in Service
  PROVE  /\ \A x \in Suffix : ServiceDirVersion(s, x) \in Version
         /\ ActiveVersion(s) \in Version \cup {None}
<1> USE DEF WellFormed
<1>1. ASSUME NEW x \in Suffix
      PROVE  ServiceDirVersion(s, x) \in Version
  <2>1. PackageOf[s] \in Package
    BY PackageOfAssumption
  <2>2. CASE "stamp" \in venv[PackageOf[s]][x]
    <3>1. "stamp" \in Whole(PackageOf[s], x)
      BY <2>1, <2>2 DEF FromTarball
    <3>2. Stamp[PackageOf[s]][x] \in Version
      BY <2>1, <3>1, StampAssumption DEF Whole
    <3>3. QED
      BY <3>2, GuessAssumption DEF ServiceDirVersion
  <2>3. CASE "stamp" \notin venv[PackageOf[s]][x]
    BY <2>3, GuessAssumption DEF ServiceDirVersion
  <2>4. QED
    BY <2>2, <2>3
<1>2. link[s] \in Suffix \cup {None}
  BY DEF TypeOK
<1>3. QED
  BY <1>1, <1>2 DEF ActiveVersion

(* ensure_suffix finds suffixes.                                           *)
LEMMA EnsuredSuffixesType ==
  ASSUME WellFormed, NEW s \in Service, spec.version # None
  PROVE  EnsuredSuffixes(s) \subseteq Suffix
BY DEF WellFormed, Attributes, EnsuredSuffixes, ServiceDirs

(* main starts with well-formed attributes.                                *)
LEMMA MungedType ==
  ASSUME NEW r \in Requests
  PROVE  /\ Munged(r) \in [version : Version \cup Suffix \cup {Latest, None},
                           suffix : Version \cup Suffix \cup {None}]
         /\ Munged(r).version # None => Munged(r).suffix \in Suffix \cup {None}
         /\ r.state # None => Munged(r).version # None
<1>1. r \in Parameters
  BY RequestAssumption
<1>2. r.version # None
  BY <1>1, NoneAssumption, TokenAssumption DEF Parameters
<1>3. QED
  BY <1>1, <1>2 DEF Parameters, Munged

-----------------------------------------------------------------------------
(* Types and attributes are invariant *)

LEMMA InitWellFormed == Init => WellFormed
<1> SUFFICES ASSUME Init PROVE WellFormed
  OBVIOUS
<1>1. EmptyIndex \in Index
  BY DEF EmptyIndex, Index
<1>2. index \in Index
  BY <1>1, ReindexedType DEF Init
<1>3. TypeOK
  <2>1. /\ cached \in [Package -> [Suffix -> {None, "junk", "cut", "whole"}]]
        /\ venv \in [Package -> [Suffix -> SUBSET VenvParts]]
        /\ svc \in [Service -> [Suffix -> SUBSET SvcParts]]
        /\ link \in [Service -> Suffix \cup {None}]
    BY DEF Init
  <2>2. /\ req \in Requests
        /\ spec \in [version : Version \cup Suffix \cup {Latest, None},
                     suffix : Version \cup Suffix \cup {None}]
    BY MungedType DEF Init
  <2>3. /\ pc \in Labels /\ outcome \in Outcomes /\ changed \in BOOLEAN
        /\ listing \in Index \cup {None, Torn}
    BY DEF Init, Labels, Outcomes
  <2>4. files \subseteq Tarball /\ faults \in 0 .. MaxFaults
    BY PublishedAssumption, FaultAssumption DEF Init
  <2>5. QED
    BY <1>2, <2>1, <2>2, <2>3, <2>4 DEF TypeOK
<1>4. Attributes
  BY MungedType DEF Init, Attributes, InstallLabels, RemoveLabels, ActivateLabels
<1>5. FromTarball
  BY DEF Init, FromTarball
<1>6. QED
  BY <1>3, <1>4, <1>5 DEF WellFormed

(* A failure is counted within its bound.                                  *)
LEMMA FaultsType ==
  ASSUME TypeOK, NEW k, Fault(k)
  PROVE  faults' \in 0 .. MaxFaults
BY FaultAssumption DEF TypeOK, Fault

(* Writing one directory's contents keeps a table of directories typed.    *)
LEMMA TableUpdate ==
  ASSUME NEW A, NEW B, NEW C, NEW f \in [A -> [B -> C]],
         NEW a \in A, NEW b \in B, NEW v \in C
  PROVE  [f EXCEPT ![a][b] = v] \in [A -> [B -> C]]
OBVIOUS

(* What a lookup picks is an entry of the listing.                         *)
LEMMA LookUpType ==
  ASSUME WellFormed, LookUp
  PROVE  /\ spec' \in [version : Version, suffix : Suffix]
         /\ pc' \in {"download", "unpack"}
         /\ UNCHANGED <<files, index, listing, cached, venv, svc, link,
                        req, changed, outcome, faults>>
<1>1. P \in Package
  BY RequestType DEF WellFormed, Attributes, LookUp, InstallLabels, S
<1>2. listing \in Index
  BY DEF WellFormed, TypeOK, LookUp
<1>3. Available \in Entries
  BY <1>1, <1>2 DEF LookUp, Available, Index
<1>4. Wanted \subseteq DOMAIN Available
  BY DEF Wanted, Newest
<1>5. PICK v \in Wanted :
        /\ spec' = [version |-> v, suffix |-> Available[v]]
        /\ pc' = IF cached[P][Available[v]] = None THEN "download" ELSE "unpack"
        /\ UNCHANGED outcome
  BY DEF LookUp, Goto
<1>6. v \in Version /\ Available[v] \in Suffix
  BY <1>3, <1>4, EntriesType
<1>7. QED
  BY <1>5, <1>6 DEF LookUp, repo, disk

(* Where S, P and X are used they name a service, a package and a suffix.  *)
LEMMA InUse ==
  ASSUME WellFormed,
         pc \in InstallLabels \cup RemoveLabels \cup ActivateLabels
  PROVE  /\ S \in Service /\ P \in Package
         /\ pc \in {"download", "unpack", "extract", "refer", "venvlink",
                    "etcdir", "installed", "rmsvc", "count", "rmvenv"}
            => X \in Suffix
<1>1. S \in Service /\ P \in Package
  BY RequestType DEF WellFormed, Attributes, S
<1>2. ASSUME pc \in InstallLabels \ {"lookup"} \/ pc \in {"rmsvc", "count", "rmvenv"}
      PROVE  X \in Suffix
  BY <1>2 DEF WellFormed, Attributes, X
<1>3. QED
  BY <1>1, <1>2 DEF InstallLabels

LEMMA StepWellFormed ==
  ASSUME WellFormed, [Next]_vars
  PROVE  WellFormed'
<1> USE RequestType, NoneAssumption, TokenAssumption
    DEF WellFormed, TypeOK, Attributes, FromTarball, Goto, End, Proceed,
        Labels, Outcomes, InstallLabels, RemoveLabels, ActivateLabels,
        repo, disk, local, S, P, X
<1>1. CASE Publish \/ Withdraw
  <2>1. PICK new \in SUBSET Tarball : Republish(new)
    BY <1>1 DEF Publish, Withdraw
  <2>2. index' \in Index
    BY <2>1, ReindexedType DEF Republish
  <2>3. QED
    BY <2>1, <2>2 DEF Republish
<1>2. ASSUME NEW r \in Requests, Start(r) PROVE WellFormed'
  <2>1. /\ FirstLabel(r) \in {"update", "lookup", "uninstall", "proceed"}
        /\ FirstLabel(r) = "lookup" => r.state = "present"
        /\ FirstLabel(r) = "uninstall" => r.state = "absent"
    BY DEF FirstLabel
  <2>2. r.state # None => r.service # None
    BY RequestAssumption
  <2>3. TypeOK'
    BY <1>2, <2>1, MungedType DEF Start
  <2>4. Attributes'
    <3>1. pc' = FirstLabel(r) /\ req' = r /\ spec' = Munged(r)
      BY <1>2 DEF Start
    <3>2. /\ r.state # None => spec'.version # None
          /\ spec'.version # None => spec'.suffix \in Suffix \cup {None}
      BY <3>1, MungedType
    <3>3. CASE pc' = "lookup"
      <4>1. r.state = "present" /\ r.state # None /\ r.service # None
        BY <2>1, <2>2, <3>1, <3>3
      <4>2. QED
        BY <3>1, <3>2, <3>3, <4>1
    <3>4. CASE pc' = "uninstall"
      <4>1. r.state = "absent" /\ r.state # None /\ r.service # None
        BY <2>1, <2>2, <3>1, <3>4
      <4>2. QED
        BY <3>1, <3>2, <3>4, <4>1
    <3>5. CASE pc' \in {"update", "proceed"}
      BY <3>1, <3>2, <3>5
    <3>6. QED
      BY <2>1, <3>1, <3>3, <3>4, <3>5
  <2>5. QED
    BY <1>2, <2>3, <2>4 DEF Start
<1>3. CASE SkipToActivation
  BY <1>3 DEF SkipToActivation
<1>4. CASE IndexIsCurrent
  BY <1>4 DEF IndexIsCurrent
<1>5. CASE UpdateIndex
  BY <1>5 DEF UpdateIndex
<1>6. CASE UnreadableIndex
  BY <1>6 DEF UnreadableIndex
<1>7. CASE UnknownPackage
  BY <1>7 DEF UnknownPackage
<1>8. CASE UnknownVersion
  BY <1>8 DEF UnknownVersion
<1>9. CASE LookUp
  BY <1>9, LookUpType DEF LookUp
<1>10. CASE Download
  BY <1>10 DEF Download
<1>11. CASE NotATarball
  BY <1>11 DEF NotATarball
<1>12. CASE AlreadyUnpacked
  BY <1>12 DEF AlreadyUnpacked
<1>13. CASE MakeVenvDir
  <2>1. venv' \in [Package -> [Suffix -> SUBSET VenvParts]]
    BY <1>13, InUse, TableUpdate DEF MakeVenvDir, VenvParts
  <2>2. FromTarball'
    BY <1>13, InUse DEF MakeVenvDir, Whole
  <2>3. QED
    BY <1>13, <2>1, <2>2 DEF MakeVenvDir
<1>14. CASE ExtractMember
  <2>1. PICK m \in Whole(P, X) :
            venv' = [venv EXCEPT ![P][X] = @ \cup {m}]
    BY <1>14 DEF ExtractMember
  <2>2. P \in Package /\ X \in Suffix
    BY <1>14, InUse DEF ExtractMember
  <2>3. venv[P][X] \cup {m} \in SUBSET VenvParts
    BY <2>1, <2>2 DEF Whole, VenvParts
  <2>4. venv' \in [Package -> [Suffix -> SUBSET VenvParts]]
    BY <2>1, <2>2, <2>3, TableUpdate
  <2>5. FromTarball'
    BY <2>1, <2>2
  <2>6. QED
    BY <1>14, <2>4, <2>5 DEF ExtractMember
<1>15. CASE Extracted
  BY <1>15 DEF Extracted
<1>16. CASE ExtractFails
  BY <1>16 DEF ExtractFails
<1>17. CASE AlreadyReferred
  BY <1>17 DEF AlreadyReferred
<1>18. CASE MakeServiceDir
  <2>1. S \in Service /\ X \in Suffix
    BY <1>18, InUse DEF MakeServiceDir
  <2>2. {"dir"} \in SUBSET SvcParts
    BY <2>1 DEF SvcParts
  <2>3. svc' \in [Service -> [Suffix -> SUBSET SvcParts]]
    BY <1>18, <2>1, <2>2, TableUpdate DEF MakeServiceDir
  <2>4. QED
    BY <1>18, <2>3 DEF MakeServiceDir
<1>19. CASE LinkVenv
  <2>1. S \in Service /\ X \in Suffix
    BY <1>19, InUse DEF LinkVenv
  <2>2. svc[S][X] \cup {"venv"} \in SUBSET SvcParts
    BY <2>1 DEF SvcParts
  <2>3. svc' \in [Service -> [Suffix -> SUBSET SvcParts]]
    BY <1>19, <2>1, <2>2, TableUpdate DEF LinkVenv
  <2>4. QED
    BY <1>19, <2>3 DEF LinkVenv
<1>20. CASE MakeEtcDir
  <2>1. S \in Service /\ X \in Suffix
    BY <1>20, InUse DEF MakeEtcDir
  <2>2. svc[S][X] \cup {"etc"} \in SUBSET SvcParts
    BY <2>1 DEF SvcParts
  <2>3. svc' \in [Service -> [Suffix -> SUBSET SvcParts]]
    BY <1>20, <2>1, <2>2, TableUpdate DEF MakeEtcDir
  <2>4. QED
    BY <1>20, <2>3 DEF MakeEtcDir
<1>21. CASE Installed
  BY <1>21 DEF Installed
<1>22. CASE AlreadyActive
  BY <1>22 DEF AlreadyActive
<1>23. CASE ActivationCrashes
  BY <1>23 DEF ActivationCrashes
<1>24. CASE UnlinkOld
  BY <1>24 DEF UnlinkOld, CompareCrashes
<1>25. CASE NothingToUnlink
  BY <1>25 DEF NothingToUnlink, CompareCrashes
<1>26. CASE Relink
  BY <1>26, EnsuredSuffixesType DEF Relink
<1>27. CASE RelinkFails
  BY <1>27 DEF RelinkFails
<1>28. CASE UninstallActive
  BY <1>28, ActiveVersionType DEF UninstallActive
<1>29. CASE UninstallInactive
  BY <1>29 DEF UninstallInactive
<1>30. CASE UnreferFails
  BY <1>30 DEF UnreferFails
<1>31. CASE Unrefer
  BY <1>31, EnsuredSuffixesType DEF Unrefer
<1>32. CASE RemoveServiceEntry
  BY <1>32 DEF RemoveServiceEntry
<1>33. CASE RemoveServiceDir
  BY <1>33 DEF RemoveServiceDir
<1>34. CASE KeepPackage
  BY <1>34 DEF KeepPackage
<1>35. CASE DropPackage
  BY <1>35 DEF DropPackage
<1>36. CASE RemoveVenvEntry
  BY <1>36 DEF RemoveVenvEntry
<1>37. CASE RemoveVenvDir
  BY <1>37 DEF RemoveVenvDir
<1>38. CASE Kill
  BY <1>38, FaultsType DEF Kill
<1>39. CASE WriteInterrupted
  <2>1. cached' \in [Package -> [Suffix -> {None, "junk", "cut", "whole"}]]
    <3>1. CASE pc = "update"
      BY <1>39, <3>1 DEF WriteInterrupted
    <3>2. CASE pc = "download"
      <4>1. P \in Package /\ X \in Suffix
        BY <3>2, InUse
      <4>2. PICK c \in {"junk", "cut"} : cached' = [cached EXCEPT ![P][X] = c]
        BY <1>39, <3>2 DEF WriteInterrupted
      <4>3. QED
        BY <4>1, <4>2, TableUpdate
    <3>3. QED
      BY <1>39, <3>1, <3>2 DEF WriteInterrupted
  <2>2. listing' \in Index \cup {None, Torn} /\ pc' = "idle" /\ outcome' \in Outcomes
    BY <1>39 DEF WriteInterrupted
  <2>3. faults' \in 0 .. MaxFaults
    BY <1>39, FaultsType DEF WriteInterrupted
  <2>4. QED
    BY <1>39, <2>1, <2>2, <2>3 DEF WriteInterrupted
<1>40. CASE ConnectionRefused
  BY <1>40, FaultsType DEF ConnectionRefused
<1>41. CASE DownloadCut
  BY <1>41, FaultsType DEF DownloadCut
<1>42. CASE CallFails
  BY <1>42, FaultsType DEF CallFails
<1>43. CASE UNCHANGED vars
  BY <1>43 DEF vars
<1>44. QED
  BY <1>1, <1>2, <1>3, <1>4, <1>5, <1>6, <1>7, <1>8, <1>9, <1>10, <1>11,
     <1>12, <1>13, <1>14, <1>15, <1>16, <1>17, <1>18, <1>19, <1>20, <1>21,
     <1>22, <1>23, <1>24, <1>25, <1>26, <1>27, <1>28, <1>29, <1>30, <1>31,
     <1>32, <1>33, <1>34, <1>35, <1>36, <1>37, <1>38, <1>39, <1>40, <1>41,
     <1>42, <1>43
  DEF Next, Step, InstallStep, ActivateStep, UninstallStep, Failure

LEMMA WellFormedIsInvariant == Spec => []WellFormed
<1>1. Init => WellFormed
  BY InitWellFormed
<1>2. WellFormed /\ [Next]_vars => WellFormed'
  BY StepWellFormed
<1>3. QED
  BY <1>1, <1>2, PTL DEF Spec

(* Every state of install_package, whatever fails, is well typed.          *)
THEOREM TypeCorrect == Spec => []TypeOK
<1>1. WellFormed => TypeOK
  BY DEF WellFormed
<1>2. QED
  BY <1>1, WellFormedIsInvariant, PTL

(* Each step, whatever failed before it, finds the attributes of the Spec  *)
(* that it uses: the version and the suffix once the index was read, the   *)
(* suffix once a directory was found for a removal.                        *)
THEOREM AttributesAreKnown == Spec => []Attributes
<1>1. WellFormed => Attributes
  BY DEF WellFormed
<1>2. QED
  BY <1>1, WellFormedIsInvariant, PTL
=============================================================================
