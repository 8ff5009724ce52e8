---------------------------- MODULE PackagerStore ---------------------------
(***************************************************************************)
(* Without failures install_package keeps every active version whole and   *)
(* implements PackageStore: proofs for any packages, services, requests    *)
(* and repository.                                                         *)
(***************************************************************************)
EXTENDS PackagerSharing

LEMMA NoFailure == ASSUME Faults = {} PROVE ~Failure
  BY DEF Failure, Kill, WriteInterrupted, ConnectionRefused, DownloadCut,
         CallFails, Fault

(* A package that a service directory links to is complete.                *)
LEMMA ReferredIsWhole ==
  ASSUME Sound, Intact, NEW s \in Service, NEW x \in Suffix, "venv" \in svc[s][x]
  PROVE  venv[PackageOf[s]][x] = Whole(PackageOf[s], x)
<1> DEFINE p == PackageOf[s]
<1>1. p \in Package
  BY PackageOfAssumption
<1>2. "dir" \in venv[p][x] /\ s \in Refs(p, x)
  BY DEF Sound, ReferredKeptInductive, ReferredKept, Refs
<1>3. CASE venv[p][x] \in {{}, Whole(p, x)}
  BY <1>2, <1>3
<1>4. CASE pc \in {"extract", "rmvenv"} /\ p = P /\ x = X
  BY <1>2, <1>4 DEF Intact, PackagesIntact, Sound, ReferredKeptInductive
<1>5. QED
  BY <1>1, <1>3, <1>4 DEF Intact, PackagesIntact

(* The version of a complete service directory is that of its tarball.     *)
LEMMA LinkedVersion ==
  ASSUME Sound, Intact, NEW s \in Service, link[s] # None
  PROVE  /\ ActiveVersion(s) = TarballVersion(PackageOf[s], link[s])
         /\ ActiveVersion(s) = ServiceDirVersion(s, link[s])
<1>1. link[s] \in Suffix
  BY DEF Sound, WellFormed, TypeOK
<1>2. svc[s][link[s]] = Laid
  BY DEF Intact, ServicesIntact
<1>3. venv[PackageOf[s]][link[s]] = Whole(PackageOf[s], link[s])
  BY <1>1, <1>2, ReferredIsWhole DEF Laid, SvcParts
<1>4. ActiveVersion(s) = ServiceDirVersion(s, link[s])
  BY <1>2 DEF ActiveVersion, Laid, SvcParts
<1>5. ServiceDirVersion(s, link[s]) = TarballVersion(PackageOf[s], link[s])
  BY <1>2, <1>3 DEF ServiceDirVersion, TarballVersion, Laid, SvcParts, Whole
<1>6. QED
  BY <1>4, <1>5

LEMMA InitIntact == Init => Intact
<1> SUFFICES ASSUME Init PROVE Intact
  OBVIOUS
<1>1. PackagesIntact
  BY TokenAssumption DEF Init, PackagesIntact
<1>2. ServicesIntact
  BY DEF Init, ServicesIntact
<1>3. RemovesInactive
  BY DEF Init, RemovesInactive
<1>4. QED
  BY <1>1, <1>2, <1>3 DEF Intact

LEMMA StepPackagesIntact ==
  ASSUME Faults = {}, Sound, Intact, [Next]_vars
  PROVE  PackagesIntact'
<1> USE InUse, NoneAssumption
    DEF Sound, WellFormed, TypeOK, ReferredKeptInductive, ReferredKept, Refs,
        Intact, PackagesIntact, Goto, End, Proceed, InstallLabels,
        RemoveLabels, ActivateLabels, repo, disk, local, S, P, X
<1>1. CASE Publish \/ Withdraw
  <2>1. UNCHANGED <<disk, pc, local>>
    BY <1>1 DEF Publish, Withdraw, Republish
  <2>2. QED
    BY <2>1
<1>2. ASSUME NEW r \in Requests, Start(r) PROVE PackagesIntact'
  BY <1>2 DEF Start, FirstLabel
<1>3. CASE SkipToActivation
  BY <1>3 DEF SkipToActivation
<1>4. CASE IndexIsCurrent
  BY <1>4 DEF IndexIsCurrent
<1>5. CASE UpdateIndex
  BY <1>5 DEF UpdateIndex
<1>6. CASE UnreadableIndex
  BY <1>6 DEF UnreadableIndex
<1>7. CASE UnknownPackage
  BY <1>7 DEF UnknownPackage
<1>8. CASE UnknownVersion
  BY <1>8 DEF UnknownVersion
<1>9. CASE LookUp
  BY <1>9 DEF LookUp
<1>10. CASE Download
  BY <1>10 DEF Download
<1>11. CASE NotATarball
  BY <1>11 DEF NotATarball
<1>12. CASE AlreadyUnpacked
  BY <1>12 DEF AlreadyUnpacked
<1>13. CASE MakeVenvDir
  BY <1>13 DEF MakeVenvDir
<1>14. CASE ExtractMember
  BY <1>14 DEF ExtractMember
<1>15. CASE Extracted
  <2>1. venv' = venv /\ cached' = cached /\ pc' = "refer" /\ req' = req
        /\ spec' = spec
    BY <1>15 DEF Extracted
  <2>2. venv[P][X] = Whole(P, X)
    BY <1>15 DEF Extracted
  <2>3. QED
    BY <2>1, <2>2
<1>16. CASE ExtractFails
  BY <1>16 DEF ExtractFails
<1>17. CASE AlreadyReferred
  BY <1>17 DEF AlreadyReferred
<1>18. CASE MakeServiceDir
  BY <1>18 DEF MakeServiceDir
<1>19. CASE LinkVenv
  BY <1>19 DEF LinkVenv
<1>20. CASE MakeEtcDir
  BY <1>20 DEF MakeEtcDir
<1>21. CASE Installed
  BY <1>21 DEF Installed
<1>22. CASE AlreadyActive
  BY <1>22 DEF AlreadyActive
<1>23. CASE ActivationCrashes
  BY <1>23 DEF ActivationCrashes
<1>24. CASE UnlinkOld
  BY <1>24 DEF UnlinkOld
<1>25. CASE NothingToUnlink
  BY <1>25 DEF NothingToUnlink
<1>26. CASE Relink
  BY <1>26 DEF Relink
<1>27. CASE RelinkFails
  BY <1>27 DEF RelinkFails
<1>28. CASE UninstallActive
  BY <1>28 DEF UninstallActive
<1>29. CASE UninstallInactive
  BY <1>29 DEF UninstallInactive
<1>30. CASE UnreferFails
  BY <1>30 DEF UnreferFails
<1>31. CASE Unrefer
  BY <1>31 DEF Unrefer
<1>32. CASE RemoveServiceEntry
  BY <1>32 DEF RemoveServiceEntry
<1>33. CASE RemoveServiceDir
  BY <1>33 DEF RemoveServiceDir
<1>34. CASE KeepPackage
  BY <1>34 DEF KeepPackage
<1>35. CASE DropPackage
  BY <1>35 DEF DropPackage
<1>36. CASE RemoveVenvEntry
  BY <1>36 DEF RemoveVenvEntry
<1>37. CASE RemoveVenvDir
  BY <1>37 DEF RemoveVenvDir
<1>38. CASE UNCHANGED vars
  BY <1>38 DEF vars
<1>39. QED
  BY <1>1, <1>2, <1>3, <1>4, <1>5, <1>6, <1>7, <1>8, <1>9, <1>10, <1>11,
     <1>12, <1>13, <1>14, <1>15, <1>16, <1>17, <1>18, <1>19, <1>20, <1>21,
     <1>22, <1>23, <1>24, <1>25, <1>26, <1>27, <1>28, <1>29, <1>30, <1>31,
     <1>32, <1>33, <1>34, <1>35, <1>36, <1>37, <1>38, NoFailure
  DEF Next, Step, InstallStep, ActivateStep, UninstallStep

(* A service directory that lacks its etc directory is not complete.       *)
LEMMA HalfLaid == {"dir"} # Laid /\ {"dir", "venv"} # Laid
BY DEF Laid, SvcParts

LEMMA StepServicesIntact ==
  ASSUME Faults = {}, Sound, Intact, [Next]_vars
  PROVE  ServicesIntact'
<1> USE InUse, NoneAssumption
    DEF Sound, WellFormed, TypeOK, Intact, ServicesIntact, RemovesInactive,
        Goto, End, Proceed, InstallLabels, RemoveLabels, ActivateLabels,
        repo, disk, local, S, P, X
<1>1. CASE Publish \/ Withdraw
  BY <1>1 DEF Publish, Withdraw, Republish
<1>2. ASSUME NEW r \in Requests, Start(r) PROVE ServicesIntact'
  BY <1>2 DEF Start, FirstLabel
<1>3. CASE SkipToActivation
  BY <1>3 DEF SkipToActivation
<1>4. CASE IndexIsCurrent
  BY <1>4 DEF IndexIsCurrent
<1>5. CASE UpdateIndex
  BY <1>5 DEF UpdateIndex
<1>6. CASE UnreadableIndex
  BY <1>6 DEF UnreadableIndex
<1>7. CASE UnknownPackage
  BY <1>7 DEF UnknownPackage
<1>8. CASE UnknownVersion
  BY <1>8 DEF UnknownVersion
<1>9. CASE LookUp
  BY <1>9 DEF LookUp
<1>10. CASE Download
  BY <1>10 DEF Download
<1>11. CASE NotATarball
  BY <1>11 DEF NotATarball
<1>12. CASE AlreadyUnpacked
  BY <1>12 DEF AlreadyUnpacked
<1>13. CASE MakeVenvDir
  BY <1>13 DEF MakeVenvDir
<1>14. CASE ExtractMember
  BY <1>14 DEF ExtractMember
<1>15. CASE Extracted
  BY <1>15 DEF Extracted
<1>16. CASE ExtractFails
  BY <1>16 DEF ExtractFails
<1>17. CASE AlreadyReferred
  BY <1>17 DEF AlreadyReferred
<1>18. CASE MakeServiceDir
  BY <1>18 DEF MakeServiceDir, Laid, SvcParts
<1>19. CASE LinkVenv
  <2>1. S \in Service /\ X \in Suffix /\ svc[S][X] = {"dir"}
    BY <1>19 DEF LinkVenv
  <2>2. svc' = [svc EXCEPT ![S][X] = {"dir", "venv"}]
    BY <1>19, <2>1 DEF LinkVenv
  <2>3. pc' = "etcdir" /\ link' = link /\ req' = req /\ spec' = spec
    BY <1>19 DEF LinkVenv
  <2>4. \A s \in Service : link[s] # None => svc[s][link[s]] = Laid
    OBVIOUS
  <2>5. svc[S][X] # Laid
    BY <2>1, HalfLaid, ZenonT(20)
  <2>6. QED
    BY <1>19, <2>1, <2>2, <2>3, <2>4, <2>5, SMTT(20) DEF LinkVenv
<1>20. CASE MakeEtcDir
  <2>1. S \in Service /\ X \in Suffix /\ svc[S][X] = {"dir", "venv"}
    BY <1>20 DEF MakeEtcDir
  <2>2. svc' = [svc EXCEPT ![S][X] = Laid]
    BY <1>20, <2>1 DEF MakeEtcDir, Laid, SvcParts
  <2>3. pc' = "installed" /\ link' = link
    BY <1>20 DEF MakeEtcDir
  <2>4. QED
    BY <1>20, <2>1, <2>2, <2>3 DEF MakeEtcDir
<1>21. CASE Installed
  BY <1>21 DEF Installed
<1>22. CASE AlreadyActive
  BY <1>22 DEF AlreadyActive
<1>23. CASE ActivationCrashes
  BY <1>23 DEF ActivationCrashes
<1>24. CASE UnlinkOld
  BY <1>24 DEF UnlinkOld
<1>25. CASE NothingToUnlink
  BY <1>25 DEF NothingToUnlink
<1>26. CASE Relink
  <2>1. S \in Service /\ EnsuredSuffixes(S) \subseteq Suffix
    BY <1>26, EnsuredSuffixesType DEF Relink, Attributes
  <2>2. PICK x \in EnsuredSuffixes(S) :
            "dir" \in svc[S][x] /\ link' = [link EXCEPT ![S] = x]
    BY <1>26 DEF Relink
  <2>3. svc[S][x] = Laid
    BY <1>26, <2>1, <2>2 DEF Relink
  <2>4. svc' = svc /\ pc = "relink" /\ pc' = "idle"
    BY <1>26 DEF Relink
  <2>5. QED
    BY <2>1, <2>2, <2>3, <2>4
<1>27. CASE RelinkFails
  BY <1>27 DEF RelinkFails
<1>28. CASE UninstallActive
  BY <1>28 DEF UninstallActive
<1>29. CASE UninstallInactive
  BY <1>29 DEF UninstallInactive
<1>30. CASE UnreferFails
  BY <1>30 DEF UnreferFails
<1>31. CASE Unrefer
  BY <1>31 DEF Unrefer
<1>32. CASE RemoveServiceEntry
  BY <1>32 DEF RemoveServiceEntry, Laid, SvcParts
<1>33. CASE RemoveServiceDir
  BY <1>33 DEF RemoveServiceDir
<1>34. CASE KeepPackage
  BY <1>34 DEF KeepPackage
<1>35. CASE DropPackage
  BY <1>35 DEF DropPackage
<1>36. CASE RemoveVenvEntry
  BY <1>36 DEF RemoveVenvEntry
<1>37. CASE RemoveVenvDir
  BY <1>37 DEF RemoveVenvDir
<1>38. CASE UNCHANGED vars
  BY <1>38 DEF vars
<1>39. QED
  BY <1>1, <1>2, <1>3, <1>4, <1>5, <1>6, <1>7, <1>8, <1>9, <1>10, <1>11,
     <1>12, <1>13, <1>14, <1>15, <1>16, <1>17, <1>18, <1>19, <1>20, <1>21,
     <1>22, <1>23, <1>24, <1>25, <1>26, <1>27, <1>28, <1>29, <1>30, <1>31,
     <1>32, <1>33, <1>34, <1>35, <1>36, <1>37, <1>38, NoFailure
  DEF Next, Step, InstallStep, ActivateStep, UninstallStep

LEMMA StepRemovesInactive ==
  ASSUME Faults = {}, Sound, Intact, [Next]_vars
  PROVE  RemovesInactive'
<1> USE InUse, NoneAssumption
    DEF Sound, WellFormed, TypeOK, Intact, RemovesInactive,
        Goto, End, Proceed, InstallLabels, RemoveLabels, ActivateLabels,
        repo, disk, local, S, P, X
<1>1. CASE Publish \/ Withdraw
  BY <1>1 DEF Publish, Withdraw, Republish
<1>2. ASSUME NEW r \in Requests, Start(r) PROVE RemovesInactive'
  <2>1. r.state = "absent"
        => Munged(r) = [version |-> r.version, suffix |-> r.suffix]
    BY NoneAssumption, TokenAssumption DEF Munged
  <2>2. FirstLabel(r) = "uninstall" => r.state = "absent"
    BY DEF FirstLabel
  <2>3. FirstLabel(r) \notin {"unrefer", "rmsvc"}
    BY DEF FirstLabel
  <2>4. pc' = FirstLabel(r) /\ req' = r /\ spec' = Munged(r)
    BY <1>2 DEF Start
  <2>5. QED
    BY <2>1, <2>2, <2>3, <2>4
<1>3. CASE SkipToActivation
  BY <1>3 DEF SkipToActivation
<1>4. CASE IndexIsCurrent
  BY <1>4 DEF IndexIsCurrent
<1>5. CASE UpdateIndex
  BY <1>5 DEF UpdateIndex
<1>6. CASE UnreadableIndex
  BY <1>6 DEF UnreadableIndex
<1>7. CASE UnknownPackage
  BY <1>7 DEF UnknownPackage
<1>8. CASE UnknownVersion
  BY <1>8 DEF UnknownVersion
<1>9. CASE LookUp
  BY <1>9 DEF LookUp
<1>10. CASE Download
  BY <1>10 DEF Download
<1>11. CASE NotATarball
  BY <1>11 DEF NotATarball
<1>12. CASE AlreadyUnpacked
  BY <1>12 DEF AlreadyUnpacked
<1>13. CASE MakeVenvDir
  BY <1>13 DEF MakeVenvDir
<1>14. CASE ExtractMember
  BY <1>14 DEF ExtractMember
<1>15. CASE Extracted
  BY <1>15 DEF Extracted
<1>16. CASE ExtractFails
  BY <1>16 DEF ExtractFails
<1>17. CASE AlreadyReferred
  BY <1>17 DEF AlreadyReferred
<1>18. CASE MakeServiceDir
  BY <1>18 DEF MakeServiceDir
<1>19. CASE LinkVenv
  BY <1>19 DEF LinkVenv
<1>20. CASE MakeEtcDir
  BY <1>20 DEF MakeEtcDir
<1>21. CASE Installed
  BY <1>21 DEF Installed
<1>22. CASE AlreadyActive
  BY <1>22 DEF AlreadyActive
<1>23. CASE ActivationCrashes
  BY <1>23 DEF ActivationCrashes
<1>24. CASE UnlinkOld
  BY <1>24 DEF UnlinkOld
<1>25. CASE NothingToUnlink
  BY <1>25 DEF NothingToUnlink
<1>26. CASE Relink
  BY <1>26 DEF Relink
<1>27. CASE RelinkFails
  BY <1>27 DEF RelinkFails
<1>28. CASE UninstallActive
  BY <1>28 DEF UninstallActive
<1>29. CASE UninstallInactive
  <2>1. /\ S \in Service /\ pc' = "unrefer" /\ link' = link /\ spec' = spec
        /\ req' = req
    BY <1>29 DEF UninstallInactive
  <2>2. ASSUME link[S] # None
        PROVE  /\ spec.version # Latest
               /\ spec.suffix # None
                  => spec.version = TarballVersion(P, spec.suffix)
    <3>1. ActiveVersion(S) # None
      BY <2>1, <2>2, LinkedVersion, ActiveVersionType DEF ActiveVersion
    <3>2. spec.version # Latest
      BY <1>29, <3>1 DEF UninstallInactive
    <3>3. spec = [version |-> req.version, suffix |-> req.suffix]
      BY <1>29 DEF UninstallInactive
    <3>4. QED
      BY <3>2, <3>3, RequestAssumption
  <2>3. QED
    BY <2>1, <2>2
<1>30. CASE UnreferFails
  BY <1>30 DEF UnreferFails
<1>31. CASE Unrefer
  <2>1. S \in Service /\ spec.version # None
    BY <1>31 DEF Unrefer, Attributes
  <2>2. PICK x \in EnsuredSuffixes(S) : spec' = [spec EXCEPT !.suffix = x]
    BY <1>31 DEF Unrefer
  <2>3. /\ pc' \in {"rmsvc", "count"} /\ link' = link /\ req' = req
        /\ ActiveVersion(S) = None \/ ActiveVersion(S) # spec.version
    BY <1>31 DEF Unrefer
  <2>4. link[S] # x
    <3> SUFFICES ASSUME link[S] = x PROVE FALSE
      OBVIOUS
    <3>1. x # None
      BY <2>1, <2>2, EnsuredSuffixesType, NoneAssumption
    <3>2. /\ ActiveVersion(S) = TarballVersion(P, x)
          /\ ActiveVersion(S) = ServiceDirVersion(S, x)
          /\ ActiveVersion(S) # None
      BY <2>1, <3>1, LinkedVersion, ActiveVersionType DEF ActiveVersion
    <3>3. CASE spec.suffix # None
      BY <1>31, <2>2, <2>3, <3>1, <3>2, <3>3 DEF EnsuredSuffixes, Unrefer
    <3>4. CASE spec.suffix = None
      BY <2>2, <2>3, <3>2, <3>4 DEF EnsuredSuffixes
    <3>5. QED
      BY <3>3, <3>4
  <2>5. QED
    BY <2>2, <2>3, <2>4
<1>32. CASE RemoveServiceEntry
  BY <1>32 DEF RemoveServiceEntry
<1>33. CASE RemoveServiceDir
  BY <1>33 DEF RemoveServiceDir
<1>34. CASE KeepPackage
  BY <1>34 DEF KeepPackage
<1>35. CASE DropPackage
  BY <1>35 DEF DropPackage
<1>36. CASE RemoveVenvEntry
  BY <1>36 DEF RemoveVenvEntry
<1>37. CASE RemoveVenvDir
  BY <1>37 DEF RemoveVenvDir
<1>38. CASE UNCHANGED vars
  BY <1>38 DEF vars
<1>39. QED
  BY <1>1, <1>2, <1>3, <1>4, <1>5, <1>6, <1>7, <1>8, <1>9, <1>10, <1>11,
     <1>12, <1>13, <1>14, <1>15, <1>16, <1>17, <1>18, <1>19, <1>20, <1>21,
     <1>22, <1>23, <1>24, <1>25, <1>26, <1>27, <1>28, <1>29, <1>30, <1>31,
     <1>32, <1>33, <1>34, <1>35, <1>36, <1>37, <1>38, NoFailure
  DEF Next, Step, InstallStep, ActivateStep, UninstallStep

LEMMA IntactIsInvariant ==
  ASSUME Faults = {}
  PROVE  Spec => [](Sound /\ Intact)
<1>1. Init => Sound /\ Intact
  BY InitWellFormed, InitReferredKept, InitIntact DEF Sound
<1>2. Sound /\ Intact /\ [Next]_vars => (Sound /\ Intact)'
  BY StepWellFormed, StepReferredKept, StepPackagesIntact, StepServicesIntact,
     StepRemovesInactive
  DEF Sound, Intact
<1>3. QED
  BY <1>1, <1>2, PTL DEF Spec

(* As long as nothing fails, packages and service directories are complete *)
(* but for what the invocation is at, and what a removal names does not    *)
(* run.                                                                    *)
THEOREM WithoutFailuresIntact ==
  ASSUME Faults = {}
  PROVE  Spec => []Intact
<1>1. Sound /\ Intact => Intact
  OBVIOUS
<1>2. QED
  BY <1>1, IntactIsInvariant, PTL

(* As long as nothing fails, a service that has an active version has all  *)
(* of it: its directory, its venv link and every file of its package.      *)
THEOREM ActiveVersionsRun ==
  ASSUME Faults = {}
  PROVE  Spec => []LinkedRuns
<1>1. Sound /\ Intact => LinkedRuns
  <2> SUFFICES ASSUME Sound, Intact, NEW s \in Service, link[s] # None
               PROVE  Runs(s)
    BY DEF LinkedRuns
  <2>1. link[s] \in Suffix
    BY DEF Sound, WellFormed, TypeOK
  <2>2. svc[s][link[s]] = Laid
    BY DEF Intact, ServicesIntact
  <2>3. venv[PackageOf[s]][link[s]] = Whole(PackageOf[s], link[s])
    BY <2>1, <2>2, ReferredIsWhole DEF Laid, SvcParts
  <2>4. QED
    BY <2>2, <2>3 DEF Runs
<1>2. QED
  BY <1>1, IntactIsInvariant, PTL

-----------------------------------------------------------------------------
(* install_package implements PackageStore *)

(* A change to one package directory adds its tarball to the unpacked ones *)
(* or takes it away.                                                       *)
LEMMA UnpackedUpdate ==
  ASSUME TypeOK, NEW p \in Package, NEW x \in Suffix, NEW new,
         venv' = [venv EXCEPT ![p][x] = new]
  PROVE  /\ new = Whole(p, x) => Unpacked' = Unpacked \cup {<<p, x>>}
         /\ new # Whole(p, x) => Unpacked' = Unpacked \ {<<p, x>>}
<1>1. ASSUME NEW t \in Tarball
      PROVE  venv'[t[1]][t[2]] = IF t = <<p, x>> THEN new ELSE venv[t[1]][t[2]]
  BY DEF TypeOK, Tarball
<1>2. <<p, x>> \in Tarball
  BY DEF Tarball
<1>3. QED
  BY <1>1, <1>2 DEF Unpacked

LEMMA LaidOutUpdate ==
  ASSUME TypeOK, NEW s \in Service, NEW x \in Suffix, NEW new,
         svc' = [svc EXCEPT ![s][x] = new]
  PROVE  /\ new = Laid => LaidOut' = LaidOut \cup {<<s, x>>}
         /\ new # Laid => LaidOut' = LaidOut \ {<<s, x>>}
<1>1. ASSUME NEW d \in Service \X Suffix
      PROVE  svc'[d[1]][d[2]] = IF d = <<s, x>> THEN new ELSE svc[d[1]][d[2]]
  BY DEF TypeOK
<1>2. QED
  BY <1>1 DEF LaidOut

LEMMA InitStore == Init => Store!Init
<1> SUFFICES ASSUME Init PROVE Store!Init
  OBVIOUS
<1>1. Unpacked = {}
  BY DEF Init, Unpacked, Tarball, Whole
<1>2. LaidOut = {}
  BY DEF Init, LaidOut, Laid, SvcParts
<1>3. QED
  BY <1>1, <1>2 DEF Init, Store!Init

LEMMA StepStore ==
  ASSUME Faults = {}, Sound, Intact, [Next]_vars
  PROVE  [Store!Next]_(Store!vars)
<1> USE InUse DEF Sound, WellFormed, InstallLabels, RemoveLabels, ActivateLabels
<1>1. CASE venv' = venv /\ svc' = svc /\ link' = link
  BY <1>1 DEF Unpacked, LaidOut, Store!vars
<1>2. CASE MakeVenvDir
  <2>1. P \in Package /\ X \in Suffix
    BY <1>2 DEF MakeVenvDir
  <2>2. venv' = [venv EXCEPT ![P][X] = {"dir"}] /\ "dir" \notin venv[P][X]
        /\ svc' = svc /\ link' = link
    BY <1>2 DEF MakeVenvDir
  <2>3. Unpacked' = Unpacked \ {<<P, X>>}
    <3>1. {"dir"} # Whole(P, X)
      BY DEF Whole
    <3>2. QED
      BY <2>1, <2>2, <3>1, UnpackedUpdate
  <2>4. <<P, X>> \notin Unpacked
    BY <2>2 DEF Unpacked, Whole
  <2>5. QED
    BY <2>2, <2>3, <2>4 DEF LaidOut, Store!vars
<1>3. CASE ExtractMember
  <2>1. P \in Package /\ X \in Suffix
    BY <1>3 DEF ExtractMember
  <2>2. PICK m \in Whole(P, X) \ venv[P][X] :
            venv' = [venv EXCEPT ![P][X] = venv[P][X] \cup {m}]
    BY <1>3, <2>1 DEF ExtractMember, TypeOK
  <2>3. svc' = svc /\ link' = link
    BY <1>3 DEF ExtractMember
  <2>4. CASE venv[P][X] \cup {m} = Whole(P, X)
    <3>1. Unpacked' = Unpacked \cup {<<P, X>>}
      BY <2>1, <2>2, <2>4, UnpackedUpdate
    <3>2. Store!Unpack(P, X)
      BY <2>3, <3>1 DEF Store!Unpack, LaidOut
    <3>3. QED
      BY <2>1, <3>2 DEF Store!Next
  <2>5. CASE venv[P][X] \cup {m} # Whole(P, X)
    <3>1. Unpacked' = Unpacked \ {<<P, X>>}
      BY <2>1, <2>2, <2>5, UnpackedUpdate
    <3>2. <<P, X>> \notin Unpacked
      BY <2>2 DEF Unpacked
    <3>3. QED
      BY <2>3, <3>1, <3>2 DEF LaidOut, Store!vars
  <2>6. QED
    BY <2>4, <2>5
<1>4. CASE RemoveVenvEntry
  <2>1. P \in Package /\ X \in Suffix /\ Refs(P, X) = {}
    BY <1>4 DEF RemoveVenvEntry, ReferredKeptInductive
  <2>2. PICK m \in venv[P][X] : venv' = [venv EXCEPT ![P][X] = venv[P][X] \ {m}]
    BY <1>4, <2>1 DEF RemoveVenvEntry, TypeOK
  <2>3. svc' = svc /\ link' = link
    BY <1>4 DEF RemoveVenvEntry
  <2>4. venv[P][X] \ {m} # Whole(P, X)
    BY <2>1, <2>2 DEF FromTarball
  <2>5. Unpacked' = Unpacked \ {<<P, X>>}
    BY <2>1, <2>2, <2>4, UnpackedUpdate
  <2>6. \A s \in Service : PackageOf[s] = P => <<s, X>> \notin LaidOut
    BY <2>1 DEF Refs, LaidOut, Laid, SvcParts
  <2>7. Store!Discard(P, X)
    BY <2>3, <2>5, <2>6 DEF Store!Discard, LaidOut
  <2>8. QED
    BY <2>1, <2>7 DEF Store!Next
<1>5. CASE RemoveVenvDir
  <2>1. P \in Package /\ X \in Suffix /\ venv[P][X] = {"dir"}
    BY <1>5 DEF RemoveVenvDir
  <2>2. venv' = [venv EXCEPT ![P][X] = {}] /\ svc' = svc /\ link' = link
    BY <1>5 DEF RemoveVenvDir
  <2>3. Unpacked' = Unpacked \ {<<P, X>>}
    <3>1. {} # Whole(P, X)
      BY DEF Whole
    <3>2. QED
      BY <2>1, <2>2, <3>1, UnpackedUpdate
  <2>4. <<P, X>> \notin Unpacked
    BY <2>1 DEF Unpacked, Whole
  <2>5. QED
    BY <2>2, <2>3, <2>4 DEF LaidOut, Store!vars
<1>6. CASE MakeServiceDir
  <2>1. S \in Service /\ X \in Suffix /\ "dir" \notin svc[S][X]
    BY <1>6 DEF MakeServiceDir
  <2>2. svc' = [svc EXCEPT ![S][X] = {"dir"}] /\ venv' = venv /\ link' = link
    BY <1>6 DEF MakeServiceDir
  <2>3. LaidOut' = LaidOut \ {<<S, X>>}
    <3>1. {"dir"} # Laid
      BY DEF Laid, SvcParts
    <3>2. QED
      BY <2>1, <2>2, <3>1, LaidOutUpdate
  <2>4. <<S, X>> \notin LaidOut
    BY <2>1 DEF LaidOut, Laid, SvcParts
  <2>5. QED
    BY <2>2, <2>3, <2>4 DEF Unpacked, Store!vars
<1>7. CASE LinkVenv
  <2>1. S \in Service /\ X \in Suffix /\ svc[S][X] = {"dir"}
    BY <1>7 DEF LinkVenv, Intact, ServicesIntact
  <2>2. svc' = [svc EXCEPT ![S][X] = {"dir", "venv"}]
    BY <1>7, <2>1 DEF LinkVenv, TypeOK
  <2>3. venv' = venv /\ link' = link
    BY <1>7 DEF LinkVenv
  <2>4. LaidOut' = LaidOut \ {<<S, X>>}
    <3>1. {"dir", "venv"} # Laid
      BY DEF Laid, SvcParts
    <3>2. QED
      BY <2>1, <2>2, <3>1, LaidOutUpdate
  <2>5. <<S, X>> \notin LaidOut
    BY <2>1 DEF LaidOut, Laid, SvcParts
  <2>6. QED
    BY <2>3, <2>4, <2>5 DEF Unpacked, Store!vars
<1>8. CASE MakeEtcDir
  <2>1. S \in Service /\ X \in Suffix /\ svc[S][X] = {"dir", "venv"}
    BY <1>8 DEF MakeEtcDir, Intact, ServicesIntact
  <2>2. svc' = [svc EXCEPT ![S][X] = Laid]
    BY <1>8, <2>1 DEF MakeEtcDir, TypeOK, Laid, SvcParts
  <2>3. venv' = venv /\ link' = link
    BY <1>8 DEF MakeEtcDir
  <2>4. LaidOut' = LaidOut \cup {<<S, X>>}
    BY <2>1, <2>2, LaidOutUpdate
  <2>5. <<PackageOf[S], X>> \in Unpacked
    BY <2>1, ReferredIsWhole, PackageOfAssumption DEF Unpacked, Tarball
  <2>6. Store!Install(S, X)
    BY <2>3, <2>4, <2>5 DEF Store!Install, Unpacked
  <2>7. QED
    BY <2>1, <2>6 DEF Store!Next
<1>9. CASE RemoveServiceEntry
  <2>1. S \in Service /\ X \in Suffix /\ link[S] # X
    BY <1>9 DEF RemoveServiceEntry, Intact, RemovesInactive
  <2>2. PICK e \in svc[S][X] : svc' = [svc EXCEPT ![S][X] = svc[S][X] \ {e}]
    BY <1>9, <2>1 DEF RemoveServiceEntry, TypeOK
  <2>3. venv' = venv /\ link' = link
    BY <1>9 DEF RemoveServiceEntry
  <2>4. svc[S][X] \ {e} # Laid
    BY <2>1, <2>2 DEF TypeOK, Laid
  <2>5. LaidOut' = LaidOut \ {<<S, X>>}
    <3> DEFINE new == svc[S][X] \ {e}
    <3>1. svc' = [svc EXCEPT ![S][X] = new] /\ new # Laid
      BY <2>2, <2>4
    <3> HIDE DEF new
    <3>2. QED
      BY <2>1, <3>1, LaidOutUpdate
  <2>6. Store!Remove(S, X)
    BY <2>1, <2>3, <2>5 DEF Store!Remove, Unpacked
  <2>7. QED
    BY <2>1, <2>6 DEF Store!Next
<1>10. CASE RemoveServiceDir
  <2>1. S \in Service /\ X \in Suffix /\ svc[S][X] = {"dir"}
    BY <1>10 DEF RemoveServiceDir
  <2>2. svc' = [svc EXCEPT ![S][X] = {}] /\ venv' = venv /\ link' = link
    BY <1>10 DEF RemoveServiceDir
  <2>3. LaidOut' = LaidOut \ {<<S, X>>}
    <3>1. {} # Laid
      BY DEF Laid, SvcParts
    <3>2. QED
      BY <2>1, <2>2, <3>1, LaidOutUpdate
  <2>4. <<S, X>> \notin LaidOut
    BY <2>1 DEF LaidOut, Laid, SvcParts
  <2>5. QED
    BY <2>2, <2>3, <2>4 DEF Unpacked, Store!vars
<1>11. CASE UnlinkOld \/ UninstallActive
  <2>1. S \in Service /\ link' = [link EXCEPT ![S] = None]
        /\ venv' = venv /\ svc' = svc
    BY <1>11 DEF UnlinkOld, UninstallActive
  <2>2. Store!Deactivate(S)
    BY <2>1 DEF Store!Deactivate, Unpacked, LaidOut
  <2>3. QED
    BY <2>1, <2>2 DEF Store!Next
<1>12. CASE Relink
  <2>1. S \in Service /\ EnsuredSuffixes(S) \subseteq Suffix
    BY <1>12, EnsuredSuffixesType DEF Relink, Attributes
  <2>2. PICK x \in EnsuredSuffixes(S) :
            /\ "dir" \in svc[S][x]
            /\ link[S] = None
            /\ link' = [link EXCEPT ![S] = x]
    BY <1>12 DEF Relink
  <2>3. pc = "relink" /\ venv' = venv /\ svc' = svc
    BY <1>12 DEF Relink
  <2>4. <<S, x>> \in LaidOut
    BY <2>1, <2>2, <2>3 DEF Intact, ServicesIntact, LaidOut
  <2>5. Store!Activate(S, x)
    BY <2>2, <2>3, <2>4 DEF Store!Activate, Unpacked, LaidOut
  <2>6. QED
    BY <2>1, <2>5 DEF Store!Next
<1>13. QED
  <2>1. \/ venv' = venv /\ svc' = svc
        \/ link' = link
    BY VenvWriters, SvcWriters, LinkWriters
    DEF MakeVenvDir, ExtractMember, RemoveVenvEntry, RemoveVenvDir,
        MakeServiceDir, LinkVenv, MakeEtcDir, RemoveServiceEntry,
        RemoveServiceDir, UnlinkOld, Relink, UninstallActive
  <2>2. QED
    BY <1>1, <1>2, <1>3, <1>4, <1>5, <1>6, <1>7, <1>8, <1>9, <1>10, <1>11,
       <1>12, VenvWriters, SvcWriters, LinkWriters, <2>1

(* As long as nothing fails, install_package, with all its calls, does     *)
(* nothing that PackageStore does not: no package in use is discarded, no  *)
(* active version is removed, and a version becomes active only from a     *)
(* complete directory and when none is.                                    *)
THEOREM PackagerImplementsStore ==
  ASSUME Faults = {}
  PROVE  Spec => ImplementsStore
<1>1. Init => Store!Init
  BY InitStore
<1>2. Sound /\ Intact /\ [Next]_vars => [Store!Next]_(Store!vars)
  BY StepStore
<1>3. QED
  BY <1>1, <1>2, IntactIsInvariant, PTL DEF Spec, ImplementsStore, Store!Spec
-----------------------------------------------------------------------------
(* service.remove and the active version *)

(* Laying out a directory only adds to it, and the one that rmtree empties *)
(* is not the one the link points to.                                      *)
LEMMA StepSparesActive ==
  ASSUME Sound, Intact, [Next]_vars, NEW s \in Service, NEW x \in Suffix,
         link[s] = x
  PROVE  svc[s][x] \subseteq svc'[s][x]
<1> USE DEF Sound, WellFormed, TypeOK
<1>1. x # None /\ svc[s][x] = Laid
  BY NoneAssumption DEF Intact, ServicesIntact
<1>2. CASE svc' = svc
  BY <1>2
<1>3. CASE MakeServiceDir
  <2>1. s # S \/ x # X
    BY <1>1, <1>3 DEF MakeServiceDir, Laid, SvcParts
  <2>2. svc'[s][x] = svc[s][x]
    BY <1>3, <2>1 DEF MakeServiceDir
  <2> QED
    BY <2>2
<1>4. CASE LinkVenv \/ MakeEtcDir
  BY <1>4 DEF LinkVenv, MakeEtcDir
<1>5. CASE RemoveServiceEntry \/ RemoveServiceDir
  <2>1. s # S \/ x # X
    BY <1>5 DEF RemoveServiceEntry, RemoveServiceDir, Intact, RemovesInactive
  <2>2. svc'[s][x] = svc[s][x]
    BY <1>5, <2>1 DEF RemoveServiceEntry, RemoveServiceDir
  <2> QED
    BY <2>2
<1> QED
  BY <1>2, <1>3, <1>4, <1>5, SvcWriters

(* "This is an error if the version's currently activated" (service.py):   *)
(* without failures nothing that a service's link leads to is deleted,     *)
(* whatever version and suffix the removal was asked for.                  *)
THEOREM ActiveSpared ==
  ASSUME Faults = {}
  PROVE  Spec => RemovalSparesActive
<1>1. Sound /\ Intact /\ [Next]_vars =>
        [\A s \in Service, x \in Suffix :
           link[s] = x => svc[s][x] \subseteq svc'[s][x]]_vars
  BY StepSparesActive
<1>2. QED
  BY <1>1, SoundIsInvariant, IntactIsInvariant, PTL DEF Spec, RemovalSparesActive
-----------------------------------------------------------------------------
(* No package is left behind *)

(* A package without a reference is the one being installed or removed.    *)
AtHand == {"extract", "refer", "venvlink", "etcdir", "rmsvc", "count", "rmvenv"}
NoOrphanSoFar ==
  \A p \in Package, x \in Suffix :
    venv[p][x] # {} => Refs(p, x) # {} \/ (pc \in AtHand /\ p = P /\ x = X)

(* Where the packages and directories at hand are.                         *)
LEMMA Prepared ==
  ASSUME Sound, pc \in AtHand
  PROVE  S \in Service /\ P \in Package /\ X \in Suffix
BY RequestType DEF Sound, WellFormed, Attributes, AtHand, InstallLabels,
                   RemoveLabels, S, X

(* A step that touches at most the package and the service directory at    *)
(* hand, and is not done with them or leaves them with a reference or      *)
(* without the package.                                                    *)
LEMMA NoOrphanElsewhere ==
  ASSUME NoOrphanSoFar, UNCHANGED <<req, spec>>,
         \A p \in Package, x \in Suffix :
           p # P \/ x # X => venv'[p][x] = venv[p][x],
         \A s \in Service, x \in Suffix :
           s # S \/ x # X => svc'[s][x] = svc[s][x],
         pc' \in AtHand \/ venv'[P][X] = {} \/ Refs(P, X)' # {}
  PROVE  NoOrphanSoFar'
<1>1. S' = S /\ P' = P /\ X' = X
  BY DEF S, P, X
<1> SUFFICES ASSUME NEW p \in Package, NEW x \in Suffix, venv'[p][x] # {}
             PROVE  Refs(p, x)' # {} \/ (pc' \in AtHand /\ p = P /\ x = X)
  BY <1>1 DEF NoOrphanSoFar
<1>2. CASE p = P /\ x = X
  <2>1. Refs(P, X)' = Refs(p, x)'
    BY <1>1, <1>2 DEF Refs
  <2>2. QED
    BY <1>2, <2>1
<1>3. CASE p # P \/ x # X
  <2>1. PICK s \in Refs(p, x) : TRUE
    BY <1>3 DEF NoOrphanSoFar
  <2>2. /\ s \in Service /\ PackageOf[s] = p /\ "venv" \in svc[s][x]
        /\ s # S \/ x # X
    BY <1>3, <2>1 DEF Refs, S, P
  <2>3. s \in Refs(p, x)'
    BY <2>2 DEF Refs
  <2>4. QED
    BY <2>3
<1>4. QED
  BY <1>2, <1>3

(* A step that touches nothing, when nothing is at hand.                   *)
LEMMA NoOrphanKept ==
  ASSUME NoOrphanSoFar, UNCHANGED <<venv, svc>>, pc \notin AtHand
  PROVE  NoOrphanSoFar'
BY DEF NoOrphanSoFar, Refs

LEMMA StepNoOrphanSoFar ==
  ASSUME Faults = {}, Sound, Intact, NoOrphanSoFar, [Next]_vars
  PROVE  NoOrphanSoFar'
<1> USE DEF Goto, End, Proceed, repo, disk, local, AtHand
<1>1. CASE Publish \/ Withdraw
  <2>1. UNCHANGED <<venv, svc, pc, req, spec>>
    BY <1>1 DEF Publish, Withdraw, Republish
  <2>2. QED
    BY <2>1 DEF NoOrphanSoFar, Refs, P, X
<1>2. ASSUME NEW r \in Requests, Start(r) PROVE NoOrphanSoFar'
  BY <1>2, NoOrphanKept DEF Start
<1>3. CASE SkipToActivation
  BY <1>3, NoOrphanKept DEF SkipToActivation
<1>4. CASE IndexIsCurrent
  BY <1>4, NoOrphanKept DEF IndexIsCurrent
<1>5. CASE UpdateIndex
  BY <1>5, NoOrphanKept DEF UpdateIndex
<1>6. CASE UnreadableIndex
  BY <1>6, NoOrphanKept DEF UnreadableIndex
<1>7. CASE UnknownPackage
  BY <1>7, NoOrphanKept DEF UnknownPackage
<1>8. CASE UnknownVersion
  BY <1>8, NoOrphanKept DEF UnknownVersion
<1>9. CASE LookUp
  BY <1>9, NoOrphanKept DEF LookUp
<1>10. CASE Download
  BY <1>10, NoOrphanKept DEF Download
<1>11. CASE NotATarball
  BY <1>11, NoOrphanKept DEF NotATarball
<1>12. CASE AlreadyUnpacked
  BY <1>12, NoOrphanKept DEF AlreadyUnpacked
<1>13. CASE MakeVenvDir
  <2>1. \A p \in Package, x \in Suffix :
          p # P \/ x # X => venv'[p][x] = venv[p][x]
    BY <1>13 DEF MakeVenvDir, Sound, WellFormed, TypeOK
  <2>2. QED
    BY <1>13, <2>1, NoOrphanElsewhere DEF MakeVenvDir
<1>14. CASE ExtractMember
  <2>1. \A p \in Package, x \in Suffix :
          p # P \/ x # X => venv'[p][x] = venv[p][x]
    BY <1>14 DEF ExtractMember, Sound, WellFormed, TypeOK
  <2>2. QED
    BY <1>14, <2>1, NoOrphanElsewhere DEF ExtractMember
<1>15. CASE Extracted
  BY <1>15, NoOrphanElsewhere DEF Extracted
<1>16. CASE ExtractFails
  <2>1. P \in Package /\ X \in Suffix /\ cached[P][X] = "cut"
    BY <1>16, Prepared DEF ExtractFails
  <2>2. QED
    BY <2>1 DEF Intact, PackagesIntact
<1>17. CASE AlreadyReferred
  <2>1. S \in Service /\ P \in Package /\ X \in Suffix /\ pc = "refer"
    BY <1>17, Prepared DEF AlreadyReferred
  <2>2. svc[S][X] = Laid
    BY <1>17, <2>1 DEF AlreadyReferred, Intact, ServicesIntact
  <2>3. UNCHANGED <<venv, svc, req, spec>>
    BY <1>17 DEF AlreadyReferred
  <2>4. S \in Refs(P, X)'
    BY <2>1, <2>2, <2>3 DEF Refs, Laid, SvcParts, P, S, X
  <2>5. QED
    BY <2>3, <2>4, NoOrphanElsewhere
<1>18. CASE MakeServiceDir
  <2>1. \A s \in Service, x \in Suffix :
          s # S \/ x # X => svc'[s][x] = svc[s][x]
    BY <1>18 DEF MakeServiceDir, Sound, WellFormed, TypeOK
  <2>2. QED
    BY <1>18, <2>1, NoOrphanElsewhere DEF MakeServiceDir
<1>19. CASE LinkVenv
  <2>1. \A s \in Service, x \in Suffix :
          s # S \/ x # X => svc'[s][x] = svc[s][x]
    BY <1>19 DEF LinkVenv, Sound, WellFormed, TypeOK
  <2>2. QED
    BY <1>19, <2>1, NoOrphanElsewhere DEF LinkVenv
<1>20. CASE MakeEtcDir
  <2>1. S \in Service /\ P \in Package /\ X \in Suffix /\ pc = "etcdir"
    BY <1>20, Prepared DEF MakeEtcDir
  <2>2. svc[S][X] = {"dir", "venv"}
    BY <2>1 DEF Intact, ServicesIntact
  <2>3. "venv" \in svc'[S][X]
    BY <1>20, <2>1, <2>2 DEF MakeEtcDir, Sound, WellFormed, TypeOK
  <2>4. UNCHANGED <<venv, req, spec>>
    BY <1>20 DEF MakeEtcDir
  <2>5. S \in Refs(P, X)'
    BY <2>1, <2>3, <2>4 DEF Refs, P, S, X
  <2>6. \A s \in Service, x \in Suffix :
          s # S \/ x # X => svc'[s][x] = svc[s][x]
    BY <1>20, <2>1 DEF MakeEtcDir, Sound, WellFormed, TypeOK
  <2>7. QED
    BY <2>4, <2>5, <2>6, NoOrphanElsewhere
<1>21. CASE Installed
  BY <1>21, NoOrphanKept DEF Installed
<1>22. CASE AlreadyActive
  BY <1>22, NoOrphanKept DEF AlreadyActive
<1>23. CASE ActivationCrashes
  BY <1>23, NoOrphanKept DEF ActivationCrashes
<1>24. CASE UnlinkOld
  BY <1>24, NoOrphanKept DEF UnlinkOld
<1>25. CASE NothingToUnlink
  BY <1>25, NoOrphanKept DEF NothingToUnlink
<1>26. CASE Relink
  BY <1>26, NoOrphanKept DEF Relink
<1>27. CASE RelinkFails
  BY <1>27, NoOrphanKept DEF RelinkFails
<1>28. CASE UninstallActive
  BY <1>28, NoOrphanKept DEF UninstallActive
<1>29. CASE UninstallInactive
  BY <1>29, NoOrphanKept DEF UninstallInactive
<1>30. CASE UnreferFails
  BY <1>30, NoOrphanKept DEF UnreferFails
<1>31. CASE Unrefer
  BY <1>31, NoOrphanKept DEF Unrefer
<1>32. CASE RemoveServiceEntry
  <2>1. \A s \in Service, x \in Suffix :
          s # S \/ x # X => svc'[s][x] = svc[s][x]
    BY <1>32 DEF RemoveServiceEntry, Sound, WellFormed, TypeOK
  <2>2. QED
    BY <1>32, <2>1, NoOrphanElsewhere DEF RemoveServiceEntry
<1>33. CASE RemoveServiceDir
  <2>1. \A s \in Service, x \in Suffix :
          s # S \/ x # X => svc'[s][x] = svc[s][x]
    BY <1>33 DEF RemoveServiceDir, Sound, WellFormed, TypeOK
  <2>2. QED
    BY <1>33, <2>1, NoOrphanElsewhere DEF RemoveServiceDir
<1>34. CASE KeepPackage
  <2>1. P \in Package /\ X \in Suffix /\ pc = "count"
    BY <1>34, Prepared DEF KeepPackage
  <2>2. venv[P][X] \in {{}, Whole(P, X)}
    BY <2>1 DEF Intact, PackagesIntact
  <2>3. Refs(P, X) # {} \/ venv[P][X] = {}
    BY <1>34, <2>2 DEF KeepPackage, Whole
  <2>4. UNCHANGED <<venv, svc, req, spec>>
    BY <1>34 DEF KeepPackage
  <2>5. Refs(P, X)' = Refs(P, X)
    BY <2>4 DEF Refs, P, X
  <2>6. QED
    BY <2>3, <2>4, <2>5, NoOrphanElsewhere
<1>35. CASE DropPackage
  BY <1>35, NoOrphanElsewhere DEF DropPackage
<1>36. CASE RemoveVenvEntry
  <2>1. \A p \in Package, x \in Suffix :
          p # P \/ x # X => venv'[p][x] = venv[p][x]
    BY <1>36 DEF RemoveVenvEntry, Sound, WellFormed, TypeOK
  <2>2. QED
    BY <1>36, <2>1, NoOrphanElsewhere DEF RemoveVenvEntry
<1>37. CASE RemoveVenvDir
  <2>1. P \in Package /\ X \in Suffix
    BY <1>37, Prepared DEF RemoveVenvDir
  <2>2. /\ venv'[P][X] = {}
        /\ \A p \in Package, x \in Suffix :
             p # P \/ x # X => venv'[p][x] = venv[p][x]
    BY <1>37, <2>1 DEF RemoveVenvDir, Sound, WellFormed, TypeOK
  <2>3. QED
    BY <1>37, <2>2, NoOrphanElsewhere DEF RemoveVenvDir
<1>38. CASE UNCHANGED vars
  BY <1>38 DEF vars, NoOrphanSoFar, Refs, P, S, X
<1>39. QED
  BY <1>1, <1>2, <1>3, <1>4, <1>5, <1>6, <1>7, <1>8, <1>9, <1>10, <1>11,
     <1>12, <1>13, <1>14, <1>15, <1>16, <1>17, <1>18, <1>19, <1>20, <1>21,
     <1>22, <1>23, <1>24, <1>25, <1>26, <1>27, <1>28, <1>29, <1>30, <1>31,
     <1>32, <1>33, <1>34, <1>35, <1>36, <1>37, <1>38, NoFailure
  DEF Next, Step, InstallStep, ActivateStep, UninstallStep

(* Without failures an invocation leaves no package behind that no service *)
(* directory links to, whichever services shared it and in whatever order  *)
(* they were removed.                                                      *)
THEOREM NoPackageIsOrphaned ==
  ASSUME Faults = {}
  PROVE  Spec => []NoOrphanPackage
<1>1. Init => NoOrphanSoFar
  BY DEF Init, NoOrphanSoFar
<1>2. Sound /\ Intact /\ NoOrphanSoFar /\ [Next]_vars => NoOrphanSoFar'
  BY StepNoOrphanSoFar
<1>3. NoOrphanSoFar => NoOrphanPackage
  BY DEF NoOrphanSoFar, NoOrphanPackage, AtHand
<1>4. QED
  BY <1>1, <1>2, <1>3, IntactIsInvariant, PTL DEF Spec
-----------------------------------------------------------------------------
(* The version reported is the one that runs *)

Listings == Consistent(index)
            /\ (listing \notin {None, Torn} => Consistent(listing))

LEMMA StepListings ==
  ASSUME Faults = {}, Listings, [Next]_vars
  PROVE  Listings'
<1>1. CASE Publish \/ Withdraw
  BY <1>1, ReindexedConsistent DEF Publish, Withdraw, Republish, Listings, disk
<1>2. CASE UpdateIndex
  BY <1>2 DEF UpdateIndex, Listings, repo
<1>3. CASE UNCHANGED <<index, listing>>
  BY <1>3 DEF Listings, Consistent
<1>4. (Publish \/ Withdraw) \/ UpdateIndex \/ UNCHANGED <<index, listing>>
  BY NoFailure
  DEF Next, Step, InstallStep, ActivateStep, UninstallStep, vars, repo, disk,
      local, SkipToActivation, Start, IndexIsCurrent, UnreadableIndex,
      UnknownPackage, UnknownVersion, LookUp, Download, NotATarball,
      AlreadyUnpacked, MakeVenvDir, ExtractMember, Extracted, ExtractFails,
      AlreadyReferred, MakeServiceDir, LinkVenv, MakeEtcDir, Installed,
      AlreadyActive, ActivationCrashes, UnlinkOld, NothingToUnlink, Relink,
      RelinkFails, UninstallActive, UninstallInactive, UnreferFails, Unrefer,
      RemoveServiceEntry, RemoveServiceDir, KeepPackage, DropPackage,
      RemoveVenvEntry, RemoveVenvDir
<1>5. QED
  BY <1>1, <1>2, <1>3, <1>4

(* Until a removal changes it, a Spec with both attributes names a tarball *)
(* and its version.                                                        *)
SpecConsistent ==
  req.state # "absent" /\ S # None /\ spec.version \in Version /\ X # None
  => spec.version = TarballVersion(P, X)

(* What activate links to has the version that the Spec names.             *)
LEMMA RelinkedVersion ==
  ASSUME Sound, Intact, SpecConsistent, pc = "relink", req.state # "absent",
         spec.version \in Version,
         NEW x \in EnsuredSuffixes(S), "dir" \in svc[S][x]
  PROVE  /\ S \in Service /\ P \in Package /\ x \in Suffix /\ x # None
         /\ ServiceDirVersion(S, x) = spec.version
         /\ TarballVersion(P, x) = spec.version
<1>1. /\ S # None /\ S \in Service /\ P \in Package
      /\ EnsuredSuffixes(S) \subseteq Suffix
  BY RequestType, EnsuredSuffixesType
  DEF Sound, WellFormed, Attributes, ActivateLabels, S
<1>2. x \in Suffix /\ x # None
  BY <1>1, NoneAssumption
<1>3. svc[S][x] = Laid
  BY <1>1, <1>2 DEF Intact, ServicesIntact
<1>4. ServiceDirVersion(S, x) = TarballVersion(P, x)
  BY <1>1, <1>2, <1>3, ReferredIsWhole
  DEF ServiceDirVersion, TarballVersion, Laid, SvcParts, Whole, P, S
<1>5. CASE spec.suffix = None
  BY <1>1, <1>2, <1>4, <1>5 DEF EnsuredSuffixes
<1>6. CASE spec.suffix # None
  BY <1>1, <1>2, <1>4, <1>6, NoneAssumption
  DEF EnsuredSuffixes, SpecConsistent, S, X
<1>7. QED
  BY <1>5, <1>6

LEMMA StepSpecConsistent ==
  ASSUME Faults = {}, Sound, Intact, Listings, SpecConsistent, [Next]_vars
  PROVE  SpecConsistent'
<1> USE InUse, NoneAssumption
    DEF Sound, WellFormed, TypeOK, Attributes, SpecConsistent,
        Goto, End, Proceed, InstallLabels, RemoveLabels, ActivateLabels,
        repo, disk, local, S, P, X
<1>1. CASE Publish \/ Withdraw
  BY <1>1 DEF Publish, Withdraw, Republish
<1>2. ASSUME NEW r \in Requests, Start(r) PROVE SpecConsistent'
  <2>1. req' = r /\ spec' = Munged(r)
    BY <1>2 DEF Start
  <2>2. QED
    BY <2>1, RequestAssumption, TokenAssumption DEF Munged, Parameters
<1>3. CASE SkipToActivation
  BY <1>3 DEF SkipToActivation
<1>4. CASE IndexIsCurrent
  BY <1>4 DEF IndexIsCurrent
<1>5. CASE UpdateIndex
  BY <1>5 DEF UpdateIndex
<1>6. CASE UnreadableIndex
  BY <1>6 DEF UnreadableIndex
<1>7. CASE UnknownPackage
  BY <1>7 DEF UnknownPackage
<1>8. CASE UnknownVersion
  BY <1>8 DEF UnknownVersion
<1>9. CASE LookUp
  <2>1. S \in Service /\ P \in Package
    BY <1>9, RequestType DEF LookUp
  <2>2. PICK v \in Wanted : spec' = [version |-> v, suffix |-> listing[P][v]]
    BY <1>9 DEF LookUp, Available
  <2>3. v \in DOMAIN listing[P]
    BY DEF Wanted, Newest, Available
  <2>4. Consistent(listing) /\ listing[P] # None /\ req' = req
    BY <1>9 DEF LookUp, Listings, Available
  <2>5. TarballVersion(P, listing[P][v]) = v
    BY <2>1, <2>3, <2>4 DEF Consistent
  <2>6. QED
    BY <2>2, <2>4, <2>5
<1>10. CASE Download
  BY <1>10 DEF Download
<1>11. CASE NotATarball
  BY <1>11 DEF NotATarball
<1>12. CASE AlreadyUnpacked
  BY <1>12 DEF AlreadyUnpacked
<1>13. CASE MakeVenvDir
  BY <1>13 DEF MakeVenvDir
<1>14. CASE ExtractMember
  BY <1>14 DEF ExtractMember
<1>15. CASE Extracted
  BY <1>15 DEF Extracted
<1>16. CASE ExtractFails
  BY <1>16 DEF ExtractFails
<1>17. CASE AlreadyReferred
  BY <1>17 DEF AlreadyReferred
<1>18. CASE MakeServiceDir
  BY <1>18 DEF MakeServiceDir
<1>19. CASE LinkVenv
  BY <1>19 DEF LinkVenv
<1>20. CASE MakeEtcDir
  BY <1>20 DEF MakeEtcDir
<1>21. CASE Installed
  BY <1>21 DEF Installed
<1>22. CASE AlreadyActive
  BY <1>22 DEF AlreadyActive
<1>23. CASE ActivationCrashes
  BY <1>23 DEF ActivationCrashes
<1>24. CASE UnlinkOld
  BY <1>24 DEF UnlinkOld
<1>25. CASE NothingToUnlink
  BY <1>25 DEF NothingToUnlink
<1>26. CASE Relink
  <2>1. PICK x \in EnsuredSuffixes(S) :
            "dir" \in svc[S][x] /\ spec' = [spec EXCEPT !.suffix = x]
    BY <1>26 DEF Relink
  <2>2. pc = "relink" /\ req' = req /\ spec'.version = spec.version /\ X' = x
    BY <1>26, <2>1 DEF Relink
  <2>3. req.state # "absent" /\ spec.version \in Version
          => TarballVersion(P, x) = spec.version
    BY <2>1, <2>2, RelinkedVersion
  <2>4. QED
    BY <2>2, <2>3
<1>27. CASE RelinkFails
  BY <1>27 DEF RelinkFails
<1>28. CASE UninstallActive
  BY <1>28 DEF UninstallActive
<1>29. CASE UninstallInactive
  BY <1>29 DEF UninstallInactive
<1>30. CASE UnreferFails
  BY <1>30 DEF UnreferFails
<1>31. CASE Unrefer
  BY <1>31 DEF Unrefer
<1>32. CASE RemoveServiceEntry
  BY <1>32 DEF RemoveServiceEntry
<1>33. CASE RemoveServiceDir
  BY <1>33 DEF RemoveServiceDir
<1>34. CASE KeepPackage
  BY <1>34 DEF KeepPackage
<1>35. CASE DropPackage
  BY <1>35 DEF DropPackage
<1>36. CASE RemoveVenvEntry
  BY <1>36 DEF RemoveVenvEntry
<1>37. CASE RemoveVenvDir
  BY <1>37 DEF RemoveVenvDir
<1>38. CASE UNCHANGED vars
  BY <1>38 DEF vars
<1>39. QED
  BY <1>1, <1>2, <1>3, <1>4, <1>5, <1>6, <1>7, <1>8, <1>9, <1>10, <1>11,
     <1>12, <1>13, <1>14, <1>15, <1>16, <1>17, <1>18, <1>19, <1>20, <1>21,
     <1>22, <1>23, <1>24, <1>25, <1>26, <1>27, <1>28, <1>29, <1>30, <1>31,
     <1>32, <1>33, <1>34, <1>35, <1>36, <1>37, <1>38, NoFailure
  DEF Next, Step, InstallStep, ActivateStep, UninstallStep

LEMMA StepReportIsTrue ==
  ASSUME Sound, Intact, SpecConsistent, ReportIsTrue,
         outcome = "ok" => pc = "idle", [Next]_vars
  PROVE  ReportIsTrue'
<1> SUFFICES ASSUME outcome' = "ok", req'.service # None, req'.state # "absent",
                    req'.activate # "act_off", spec'.version \in Version
             PROVE  (ActiveVersion(S) = spec.version)'
  BY DEF ReportIsTrue
<1>1. CASE pc = "idle"
  <2>1. UNCHANGED <<venv, svc, link, req, spec, outcome>>
    BY <1>1, IdleSteps
  <2>2. QED
    BY <2>1 DEF ReportIsTrue, S, ActiveVersion, ServiceDirVersion
<1>2. CASE AlreadyActive
  BY <1>2 DEF AlreadyActive, ActiveVersion, ServiceDirVersion, S, disk, local
<1>3. CASE Relink
  <2>1. /\ pc = "relink" /\ UNCHANGED <<venv, svc, req>>
        /\ spec'.version = spec.version
    BY <1>3 DEF Relink, Sound, WellFormed, TypeOK
  <2>2. PICK x \in EnsuredSuffixes(S) :
            "dir" \in svc[S][x] /\ link' = [link EXCEPT ![S] = x]
    BY <1>3 DEF Relink
  <2>3. /\ S \in Service /\ x # None
        /\ ServiceDirVersion(S, x) = spec.version
    BY <2>1, <2>2, RelinkedVersion
  <2>4. link'[S] = x
    BY <2>2, <2>3 DEF Sound, WellFormed, TypeOK
  <2>5. QED
    BY <2>1, <2>2, <2>3, <2>4 DEF ActiveVersion, ServiceDirVersion, S
<1>4. QED
  BY <1>1, <1>2, <1>3, OkEndings

(* Without failures an invocation that was to activate a service and       *)
(* reports a version has made that version the active one, although        *)
(* activation compares versions and the repository may be re-published     *)
(* between the look-up and the download.                                   *)
THEOREM ReportedVersionRuns ==
  ASSUME Faults = {}
  PROVE  Spec => []ReportIsTrue
<1> DEFINE I == Listings /\ SpecConsistent /\ ReportIsTrue
                /\ (outcome = "ok" => pc = "idle")
<1>1. Init => I
  <2> SUFFICES ASSUME Init PROVE I
    OBVIOUS
  <2>1. Listings
    BY ReindexedConsistent DEF Init, EmptyIndex, Listings, Consistent
  <2>2. SpecConsistent
    BY RequestAssumption, TokenAssumption, NoneAssumption
    DEF Init, SpecConsistent, Munged, Parameters, S, P, X
  <2>3. QED
    BY <2>1, <2>2 DEF Init, ReportIsTrue
<1>2. Sound /\ Intact /\ I /\ [Next]_vars => I'
  BY StepListings, StepSpecConsistent, StepReportIsTrue, OkIsIdle
<1>3. QED
  BY <1>1, <1>2, IntactIsInvariant, PTL DEF Spec
=============================================================================
