-------------------------- MODULE PackagerSharing ---------------------------
(***************************************************************************)
(* Services that share a package do not hurt each other: proofs for any    *)
(* number of services and any failures.                                    *)
(***************************************************************************)
EXTENDS PackagerProofs

LEMMA InitReferredKept == Init => ReferredKeptInductive
<1> SUFFICES ASSUME Init PROVE ReferredKeptInductive
  OBVIOUS
<1>1. pc = "idle" /\ svc = [s \in Service |-> [x \in Suffix |-> {}]]
  BY DEF Init
<1>2. QED
  BY <1>1 DEF ReferredKeptInductive, ReferredKept

LEMMA StepReferredKept ==
  ASSUME WellFormed, ReferredKeptInductive, [Next]_vars
  PROVE  ReferredKeptInductive'
<1> USE InUse, NoneAssumption
    DEF WellFormed, TypeOK, ReferredKept, ReferredKeptInductive, Refs,
        Goto, End, Proceed, InstallLabels, RemoveLabels, ActivateLabels,
        repo, disk, local, S, P, X
<1>1. CASE Publish \/ Withdraw
  <2>1. UNCHANGED <<disk, pc, local>>
    BY <1>1 DEF Publish, Withdraw, Republish
  <2>2. QED
    BY <2>1
<1>2. ASSUME NEW r \in Requests, Start(r) PROVE ReferredKeptInductive'
  BY <1>2 DEF Start, FirstLabel
<1>3. CASE SkipToActivation
  BY <1>3 DEF SkipToActivation
<1>4. CASE IndexIsCurrent
  BY <1>4 DEF IndexIsCurrent
<1>5. CASE UpdateIndex
  BY <1>5 DEF UpdateIndex
<1>6. CASE UnreadableIndex
  BY <1>6 DEF UnreadableIndex
<1>7. CASE UnknownPackage
  BY <1>7 DEF UnknownPackage
<1>8. CASE UnknownVersion
  BY <1>8 DEF UnknownVersion
<1>9. CASE LookUp
  BY <1>9 DEF LookUp
<1>10. CASE Download
  BY <1>10 DEF Download
<1>11. CASE NotATarball
  BY <1>11 DEF NotATarball
<1>12. CASE AlreadyUnpacked
  BY <1>12 DEF AlreadyUnpacked
<1>13. CASE MakeVenvDir
  BY <1>13 DEF MakeVenvDir
<1>14. CASE ExtractMember
  BY <1>14 DEF ExtractMember
<1>15. CASE Extracted
  BY <1>15 DEF Extracted, Whole
<1>16. CASE ExtractFails
  BY <1>16 DEF ExtractFails
<1>17. CASE AlreadyReferred
  BY <1>17 DEF AlreadyReferred
<1>18. CASE MakeServiceDir
  BY <1>18 DEF MakeServiceDir
<1>19. CASE LinkVenv
  BY <1>19 DEF LinkVenv
<1>20. CASE MakeEtcDir
  BY <1>20 DEF MakeEtcDir
<1>21. CASE Installed
  BY <1>21 DEF Installed
<1>22. CASE AlreadyActive
  BY <1>22 DEF AlreadyActive
<1>23. CASE ActivationCrashes
  BY <1>23 DEF ActivationCrashes
<1>24. CASE UnlinkOld
  BY <1>24 DEF UnlinkOld
<1>25. CASE NothingToUnlink
  BY <1>25 DEF NothingToUnlink
<1>26. CASE Relink
  BY <1>26 DEF Relink
<1>27. CASE RelinkFails
  BY <1>27 DEF RelinkFails
<1>28. CASE UninstallActive
  BY <1>28 DEF UninstallActive
<1>29. CASE UninstallInactive
  BY <1>29 DEF UninstallInactive
<1>30. CASE UnreferFails
  BY <1>30 DEF UnreferFails
<1>31. CASE Unrefer
  BY <1>31 DEF Unrefer
<1>32. CASE RemoveServiceEntry
  BY <1>32 DEF RemoveServiceEntry
<1>33. CASE RemoveServiceDir
  BY <1>33 DEF RemoveServiceDir
<1>34. CASE KeepPackage
  BY <1>34 DEF KeepPackage
<1>35. CASE DropPackage
  BY <1>35 DEF DropPackage
<1>36. CASE RemoveVenvEntry
  BY <1>36 DEF RemoveVenvEntry
<1>37. CASE RemoveVenvDir
  BY <1>37 DEF RemoveVenvDir
<1>38. CASE Kill
  BY <1>38 DEF Kill
<1>39. CASE WriteInterrupted
  BY <1>39 DEF WriteInterrupted
<1>40. CASE ConnectionRefused
  BY <1>40 DEF ConnectionRefused
<1>41. CASE DownloadCut
  BY <1>41 DEF DownloadCut
<1>42. CASE CallFails
  BY <1>42 DEF CallFails
<1>43. CASE UNCHANGED vars
  BY <1>43 DEF vars
<1>44. QED
  BY <1>1, <1>2, <1>3, <1>4, <1>5, <1>6, <1>7, <1>8, <1>9, <1>10, <1>11,
     <1>12, <1>13, <1>14, <1>15, <1>16, <1>17, <1>18, <1>19, <1>20, <1>21,
     <1>22, <1>23, <1>24, <1>25, <1>26, <1>27, <1>28, <1>29, <1>30, <1>31,
     <1>32, <1>33, <1>34, <1>35, <1>36, <1>37, <1>38, <1>39, <1>40, <1>41,
     <1>42, <1>43
  DEF Next, Step, InstallStep, ActivateStep, UninstallStep, Failure

(* The state in which every step of install_package is taken.              *)
Sound == WellFormed /\ ReferredKeptInductive

LEMMA SoundIsInvariant == Spec => []Sound
<1>1. Init => Sound
  BY InitWellFormed, InitReferredKept DEF Sound
<1>2. Sound /\ [Next]_vars => Sound'
  BY StepWellFormed, StepReferredKept DEF Sound
<1>3. QED
  BY <1>1, <1>2, PTL DEF Spec

(* A package that a service directory links to is there, however many      *)
(* services share it and whatever was killed, cut or refused before.       *)
THEOREM ReferredPackagesStay == Spec => []ReferredKept
<1>1. Sound => ReferredKept
  BY DEF Sound, ReferredKeptInductive
<1>2. QED
  BY <1>1, SoundIsInvariant, PTL

-----------------------------------------------------------------------------
(* Which steps write where *)

LEMMA VenvWriters ==
  ASSUME [Next]_vars
  PROVE  \/ venv' = venv
         \/ MakeVenvDir \/ ExtractMember \/ RemoveVenvEntry \/ RemoveVenvDir
BY DEF Next, Step, InstallStep, ActivateStep, UninstallStep, Failure, vars,
       repo, disk, local, SkipToActivation, Publish, Withdraw, Republish,
       Start, IndexIsCurrent, UpdateIndex, UnreadableIndex, UnknownPackage,
       UnknownVersion, LookUp, Download, NotATarball, AlreadyUnpacked,
       MakeVenvDir, ExtractMember, Extracted, ExtractFails,
       AlreadyReferred, MakeServiceDir, LinkVenv, MakeEtcDir, Installed,
       AlreadyActive, ActivationCrashes, UnlinkOld, NothingToUnlink,
       Relink, RelinkFails, UninstallActive, UninstallInactive,
       UnreferFails, Unrefer, RemoveServiceEntry, RemoveServiceDir,
       KeepPackage, DropPackage, RemoveVenvEntry, RemoveVenvDir, Kill,
       WriteInterrupted, ConnectionRefused, DownloadCut, CallFails

LEMMA SvcWriters ==
  ASSUME [Next]_vars
  PROVE  \/ svc' = svc
         \/ MakeServiceDir \/ LinkVenv \/ MakeEtcDir
         \/ RemoveServiceEntry \/ RemoveServiceDir
BY DEF Next, Step, InstallStep, ActivateStep, UninstallStep, Failure, vars,
       repo, disk, local, SkipToActivation, Publish, Withdraw, Republish,
       Start, IndexIsCurrent, UpdateIndex, UnreadableIndex, UnknownPackage,
       UnknownVersion, LookUp, Download, NotATarball, AlreadyUnpacked,
       MakeVenvDir, ExtractMember, Extracted, ExtractFails,
       AlreadyReferred, MakeServiceDir, LinkVenv, MakeEtcDir, Installed,
       AlreadyActive, ActivationCrashes, UnlinkOld, NothingToUnlink,
       Relink, RelinkFails, UninstallActive, UninstallInactive,
       UnreferFails, Unrefer, RemoveServiceEntry, RemoveServiceDir,
       KeepPackage, DropPackage, RemoveVenvEntry, RemoveVenvDir, Kill,
       WriteInterrupted, ConnectionRefused, DownloadCut, CallFails

LEMMA LinkWriters ==
  ASSUME [Next]_vars
  PROVE  link' = link \/ UnlinkOld \/ Relink \/ UninstallActive
BY DEF Next, Step, InstallStep, ActivateStep, UninstallStep, Failure, vars,
       repo, disk, local, SkipToActivation, Publish, Withdraw, Republish,
       Start, IndexIsCurrent, UpdateIndex, UnreadableIndex, UnknownPackage,
       UnknownVersion, LookUp, Download, NotATarball, AlreadyUnpacked,
       MakeVenvDir, ExtractMember, Extracted, ExtractFails,
       AlreadyReferred, MakeServiceDir, LinkVenv, MakeEtcDir, Installed,
       AlreadyActive, ActivationCrashes, UnlinkOld, NothingToUnlink,
       Relink, RelinkFails, UninstallActive, UninstallInactive,
       UnreferFails, Unrefer, RemoveServiceEntry, RemoveServiceDir,
       KeepPackage, DropPackage, RemoveVenvEntry, RemoveVenvDir, Kill,
       WriteInterrupted, ConnectionRefused, DownloadCut, CallFails

(* Only extraction and the removal of an unreferred package change what a  *)
(* package directory holds, so a referred one never shrinks.               *)
LEMMA StepShrinksUnreferred ==
  ASSUME Sound, [Next]_vars, NEW p \in Package, NEW x \in Suffix, Refs(p, x) # {}
  PROVE  venv[p][x] \subseteq venv'[p][x]
<1> USE DEF Sound, WellFormed, TypeOK
<1>1. CASE venv' = venv
  BY <1>1
<1>2. CASE MakeVenvDir
  <2>1. "dir" \in venv[p][x]
    BY PackageOfAssumption DEF ReferredKeptInductive, ReferredKept, Refs
  <2>2. P # p \/ X # x
    BY <1>2, <2>1 DEF MakeVenvDir
  <2>3. QED
    BY <1>2, <2>2 DEF MakeVenvDir
<1>3. CASE ExtractMember
  BY <1>3 DEF ExtractMember
<1>4. CASE RemoveVenvEntry \/ RemoveVenvDir
  <2>1. P # p \/ X # x
    BY <1>4 DEF RemoveVenvEntry, RemoveVenvDir, ReferredKeptInductive
  <2>2. QED
    BY <1>4, <2>1 DEF RemoveVenvEntry, RemoveVenvDir
<1>5. QED
  BY <1>1, <1>2, <1>3, <1>4, VenvWriters

(* No file of a package is deleted while a service directory links to the  *)
(* package.                                                                *)
THEOREM ReferredPackagesKeepTheirFiles == Spec => ShrinksUnreferred
<1>1. Sound /\ [Next]_vars =>
        [\A p \in Package, x \in Suffix :
           Refs(p, x) # {} => venv[p][x] \subseteq venv'[p][x]]_vars
  BY StepShrinksUnreferred
<1>2. QED
  BY <1>1, SoundIsInvariant, PTL DEF Spec, ShrinksUnreferred

LEMMA StepOthersKeepRunning ==
  ASSUME Sound, Sound', [Next]_vars,
         NEW s \in Service \ {req.service}, Runs(s)
  PROVE  Runs(s)'
<1> USE DEF Sound, WellFormed, TypeOK
<1>1. s # S
  BY DEF S
<1>2. link'[s] = link[s]
  BY <1>1, LinkWriters DEF UnlinkOld, Relink, UninstallActive
<1>3. svc'[s] = svc[s]
  BY <1>1, SvcWriters
  DEF MakeServiceDir, LinkVenv, MakeEtcDir, RemoveServiceEntry, RemoveServiceDir
<1> DEFINE p == PackageOf[s]
           x == link[s]
<1>4. p \in Package /\ x \in Suffix
  BY PackageOfAssumption DEF Runs
<1>5. s \in Refs(p, x)
  BY DEF Runs, Laid, SvcParts, Refs
<1>6. venv[p][x] \subseteq venv'[p][x]
  BY <1>4, <1>5, StepShrinksUnreferred
<1>7. venv'[p][x] \subseteq Whole(p, x)
  BY <1>4 DEF FromTarball
<1>8. venv'[p][x] = Whole(p, x)
  BY <1>6, <1>7 DEF Runs
<1>9. QED
  BY <1>2, <1>3, <1>8 DEF Runs

(* An invocation for one service, wherever it is killed or fails, leaves   *)
(* every other running service running.                                    *)
THEOREM OtherServicesSurvive == Spec => OthersKeepRunning
<1>1. Sound /\ Sound' /\ [Next]_vars =>
        [\A s \in Service \ {req.service} : Runs(s) => Runs(s)']_vars
  BY StepOthersKeepRunning
<1>2. QED
  BY <1>1, SoundIsInvariant, PTL DEF Spec, OthersKeepRunning

(* In an installation, a step that changes a service directory adds what   *)
(* was missing from it.                                                    *)
LEMMA StepLaidStays ==
  ASSUME Sound, [Next]_vars, req.state # "absent",
         NEW s \in Service, NEW x \in Suffix, svc[s][x] = Laid
  PROVE  svc'[s][x] = Laid
<1> USE DEF Sound, WellFormed, TypeOK
<1>1. CASE svc' = svc
  BY <1>1
<1>2. CASE MakeServiceDir
  <2>1. "dir" \in svc[s][x]
    BY DEF Laid, SvcParts
  <2>2. S # s \/ X # x
    BY <1>2, <2>1 DEF MakeServiceDir
  <2>3. QED
    BY <1>2, <2>2 DEF MakeServiceDir
<1>3. CASE LinkVenv \/ MakeEtcDir
  BY <1>3 DEF LinkVenv, MakeEtcDir, Laid, SvcParts
<1>4. ~(RemoveServiceEntry \/ RemoveServiceDir)
  BY DEF RemoveServiceEntry, RemoveServiceDir, Attributes, RemoveLabels
<1>5. QED
  BY <1>1, <1>2, <1>3, <1>4, SvcWriters

LEMMA StepInstallSparesRunning ==
  ASSUME Sound, Sound', [Next]_vars, req.state # "absent",
         NEW s \in Service, Runs(s)
  PROVE  Runs(s)' \/ (s = S /\ pc = "activate" /\ link'[s] = None)
<1> USE DEF Sound, WellFormed, TypeOK
<1> DEFINE p == PackageOf[s]
           x == link[s]
<1>1. p \in Package /\ x \in Suffix
  BY PackageOfAssumption DEF Runs
<1>2. link'[s] = x \/ (s = S /\ pc = "activate" /\ link'[s] = None)
  <2>1. CASE link' = link
    BY <2>1
  <2>2. CASE UnlinkOld
    BY <2>2 DEF UnlinkOld
  <2>3. CASE Relink
    BY <2>3, <1>1, NoneAssumption DEF Relink, Runs
  <2>4. ~UninstallActive
    BY DEF UninstallActive, Attributes, RemoveLabels
  <2>5. QED
    BY <2>1, <2>2, <2>3, <2>4, LinkWriters
<1>3. svc'[s][x] = Laid
  BY <1>1, StepLaidStays DEF Runs
<1>4. s \in Refs(p, x)
  BY DEF Runs, Laid, SvcParts, Refs
<1>5. venv[p][x] \subseteq venv'[p][x]
  BY <1>1, <1>4, StepShrinksUnreferred
<1>6. venv'[p][x] \subseteq Whole(p, x)
  BY <1>1 DEF FromTarball
<1>7. venv'[p][x] = Whole(p, x)
  BY <1>5, <1>6 DEF Runs
<1>8. QED
  BY <1>2, <1>3, <1>7 DEF Runs

(* An installation, wherever it is killed or fails and however often it is *)
(* repeated, breaks no running service; only activation takes its link.    *)
THEOREM InstallationSparesRunning == Spec => InstallSparesRunning
<1>1. Sound /\ Sound' /\ [Next]_vars =>
        [\A s \in Service :
           Runs(s) /\ req.state # "absent"
           => Runs(s)' \/ (s = S /\ pc = "activate" /\ link'[s] = None)]_vars
  BY StepInstallSparesRunning
<1>2. QED
  BY <1>1, SoundIsInvariant, PTL DEF Spec, InstallSparesRunning
-----------------------------------------------------------------------------
(* What a success reports, with any failures before it *)

(* Between two invocations only the repository changes.                    *)
LEMMA IdleSteps ==
  ASSUME [Next]_vars, pc = "idle", outcome' = "ok"
  PROVE  UNCHANGED <<venv, svc, link, pc, req, spec, outcome>>
BY DEF Next, Step, InstallStep, ActivateStep, UninstallStep, Failure, vars,
       repo, disk, local, SkipToActivation, Publish, Withdraw, Republish,
       Start, IndexIsCurrent, UpdateIndex, UnreadableIndex, UnknownPackage,
       UnknownVersion, LookUp, Download, NotATarball, AlreadyUnpacked,
       MakeVenvDir, ExtractMember, Extracted, ExtractFails,
       AlreadyReferred, MakeServiceDir, LinkVenv, MakeEtcDir, Installed,
       AlreadyActive, ActivationCrashes, UnlinkOld, NothingToUnlink,
       Relink, RelinkFails, UninstallActive, UninstallInactive,
       UnreferFails, Unrefer, RemoveServiceEntry, RemoveServiceDir,
       KeepPackage, DropPackage, RemoveVenvEntry, RemoveVenvDir, Kill,
       WriteInterrupted, ConnectionRefused, DownloadCut, CallFails, Fault

(* The ends of an invocation that report a success.                        *)
LEMMA OkEndings ==
  ASSUME [Next]_vars, pc # "idle", outcome # "ok", outcome' = "ok"
  PROVE  /\ pc' = "idle" /\ req' = req
         /\ \/ AlreadyActive
            \/ Relink
            \/ req.state = "absent" \/ req.activate = "act_off" \/ req.service = None
BY DEF Goto, End, Proceed, Next, Step, InstallStep, ActivateStep, UninstallStep, Failure, vars,
       repo, disk, local, SkipToActivation, Publish, Withdraw, Republish,
       Start, IndexIsCurrent, UpdateIndex, UnreadableIndex, UnknownPackage,
       UnknownVersion, LookUp, Download, NotATarball, AlreadyUnpacked,
       MakeVenvDir, ExtractMember, Extracted, ExtractFails,
       AlreadyReferred, MakeServiceDir, LinkVenv, MakeEtcDir, Installed,
       AlreadyActive, ActivationCrashes, UnlinkOld, NothingToUnlink,
       Relink, RelinkFails, UninstallActive, UninstallInactive,
       UnreferFails, Unrefer, RemoveServiceEntry, RemoveServiceDir,
       KeepPackage, DropPackage, RemoveVenvEntry, RemoveVenvDir, Kill,
       WriteInterrupted, ConnectionRefused, DownloadCut, CallFails

LEMMA OkIsIdle ==
  ASSUME [Next]_vars, outcome = "ok" => pc = "idle"
  PROVE  outcome' = "ok" => pc' = "idle"
<1>1. CASE pc = "idle"
  BY <1>1, IdleSteps
<1>2. CASE pc # "idle"
  BY <1>2, OkEndings
<1> QED
  BY <1>1, <1>2

LEMMA StepSuccessIsLinked ==
  ASSUME Sound, SuccessIsLinked, outcome = "ok" => pc = "idle", [Next]_vars
  PROVE  SuccessIsLinked'
<1> USE DEF S
<1> SUFFICES ASSUME outcome' = "ok", req'.service # None, req'.state # "absent",
                    req'.activate # "act_off"
             PROVE  (link[S] # None /\ "dir" \in svc[S][link[S]])'
  BY DEF SuccessIsLinked
<1>1. CASE pc = "idle"
  <2>1. UNCHANGED <<svc, link, req, outcome>>
    BY <1>1, IdleSteps
  <2> QED
    BY <2>1 DEF SuccessIsLinked
<1>2. CASE AlreadyActive
  BY <1>2 DEF AlreadyActive, ActiveVersion, disk, local
<1>3. CASE Relink
  <2>1. req.service # None /\ req' = req
    BY <1>3 DEF Relink
  <2>2. S \in Service
    BY <2>1, RequestType DEF Sound, WellFormed
  <2> QED
    BY <1>3, <2>2, NoneAssumption
    DEF Relink, Sound, WellFormed, TypeOK, EnsuredSuffixes, ServiceDirs, Attributes,
        ActivateLabels
<1> QED
  BY <1>1, <1>2, <1>3, OkEndings

(* A success that was to activate a service leaves its link on a directory *)
(* that is there.                                                          *)
THEOREM SuccessLinks == Spec => []SuccessIsLinked
<1> DEFINE I == Sound /\ SuccessIsLinked /\ (outcome = "ok" => pc = "idle")
<1>1. Init => I
  BY InitWellFormed, InitReferredKept DEF Sound, Init, SuccessIsLinked
<1>2. I /\ [Next]_vars => I'
  BY StepWellFormed, StepReferredKept, StepSuccessIsLinked, OkIsIdle DEF Sound
<1> QED
  BY <1>1, <1>2, PTL DEF Spec
-----------------------------------------------------------------------------
(* What a removal leaves, with any failures before it *)

(* A directory that holds something is there itself; a removal does not    *)
(* pass through the cache or the activation; and once it looks at the      *)
(* package, the service directory is gone.                                 *)
RemovedSoFar ==
  /\ \A s \in Service, x \in Suffix : svc[s][x] # {} => "dir" \in svc[s][x]
  /\ \A p \in Package, x \in Suffix : venv[p][x] # {} => "dir" \in venv[p][x]
  /\ pc \in {"venvlink", "etcdir"} => "dir" \in svc[S][X]
  /\ pc = "extract" => "dir" \in venv[P][X]
  /\ pc \in {"proceed", "update"} => req.state # "absent" \/ req.cache # None
  /\ pc \in ActivateLabels => req.state # "absent"
  /\ pc \in {"count", "rmvenv"} => svc[S][X] = {}

LEMMA StepRemovedSoFar ==
  ASSUME WellFormed, RemovedSoFar, [Next]_vars
  PROVE  RemovedSoFar'
<1> USE InUse, NoneAssumption
    DEF WellFormed, TypeOK, RemovedSoFar,
        Goto, End, Proceed, InstallLabels, RemoveLabels, ActivateLabels,
        repo, disk, local, S, P, X
<1>1. CASE Publish \/ Withdraw
  BY <1>1 DEF Publish, Withdraw, Republish
<1>2. ASSUME NEW r \in Requests, Start(r) PROVE RemovedSoFar'
  BY <1>2 DEF Start, FirstLabel
<1>3. CASE SkipToActivation
  BY <1>3 DEF SkipToActivation
<1>4. CASE IndexIsCurrent
  BY <1>4 DEF IndexIsCurrent
<1>5. CASE UpdateIndex
  BY <1>5 DEF UpdateIndex
<1>6. CASE UnreadableIndex
  BY <1>6 DEF UnreadableIndex
<1>7. CASE UnknownPackage
  BY <1>7 DEF UnknownPackage
<1>8. CASE UnknownVersion
  BY <1>8 DEF UnknownVersion
<1>9. CASE LookUp
  BY <1>9 DEF LookUp
<1>10. CASE Download
  BY <1>10 DEF Download
<1>11. CASE NotATarball
  BY <1>11 DEF NotATarball
<1>12. CASE AlreadyUnpacked
  BY <1>12 DEF AlreadyUnpacked
<1>13. CASE MakeVenvDir
  BY <1>13 DEF MakeVenvDir
<1>14. CASE ExtractMember
  BY <1>14 DEF ExtractMember
<1>15. CASE Extracted
  BY <1>15 DEF Extracted
<1>16. CASE ExtractFails
  BY <1>16 DEF ExtractFails
<1>17. CASE AlreadyReferred
  BY <1>17 DEF AlreadyReferred
<1>18. CASE MakeServiceDir
  BY <1>18 DEF MakeServiceDir
<1>19. CASE LinkVenv
  BY <1>19 DEF LinkVenv
<1>20. CASE MakeEtcDir
  BY <1>20 DEF MakeEtcDir
<1>21. CASE Installed
  BY <1>21 DEF Installed
<1>22. CASE AlreadyActive
  BY <1>22 DEF AlreadyActive
<1>23. CASE ActivationCrashes
  BY <1>23 DEF ActivationCrashes
<1>24. CASE UnlinkOld
  BY <1>24 DEF UnlinkOld
<1>25. CASE NothingToUnlink
  BY <1>25 DEF NothingToUnlink
<1>26. CASE Relink
  BY <1>26 DEF Relink
<1>27. CASE RelinkFails
  BY <1>27 DEF RelinkFails
<1>28. CASE UninstallActive
  BY <1>28 DEF UninstallActive
<1>29. CASE UninstallInactive
  BY <1>29 DEF UninstallInactive
<1>30. CASE UnreferFails
  BY <1>30 DEF UnreferFails
<1>31. CASE Unrefer
  <2>1. S \in Service /\ EnsuredSuffixes(S) \subseteq Suffix
    BY <1>31, EnsuredSuffixesType DEF Unrefer, Attributes
  <2>2. PICK x \in EnsuredSuffixes(S) :
            /\ spec' = [spec EXCEPT !.suffix = x]
            /\ pc' = IF "dir" \in svc[S][x] THEN "rmsvc" ELSE "count"
    BY <1>31 DEF Unrefer
  <2>3. X' = x /\ UNCHANGED <<svc, venv, req>>
    BY <1>31, <2>2 DEF Unrefer
  <2>4. QED
    BY <2>1, <2>2, <2>3
<1>32. CASE RemoveServiceEntry
  BY <1>32 DEF RemoveServiceEntry
<1>33. CASE RemoveServiceDir
  BY <1>33 DEF RemoveServiceDir
<1>34. CASE KeepPackage
  BY <1>34 DEF KeepPackage
<1>35. CASE DropPackage
  BY <1>35 DEF DropPackage
<1>36. CASE RemoveVenvEntry
  BY <1>36 DEF RemoveVenvEntry
<1>37. CASE RemoveVenvDir
  BY <1>37 DEF RemoveVenvDir
<1>38. CASE Kill
  BY <1>38 DEF Kill
<1>39. CASE WriteInterrupted
  BY <1>39 DEF WriteInterrupted
<1>40. CASE ConnectionRefused
  BY <1>40 DEF ConnectionRefused
<1>41. CASE DownloadCut
  BY <1>41 DEF DownloadCut
<1>42. CASE CallFails
  BY <1>42 DEF CallFails
<1>43. CASE UNCHANGED vars
  BY <1>43 DEF vars
<1> HIDE DEF RemovedSoFar
<1>44. QED
  BY <1>1, <1>2, <1>3, <1>4, <1>5, <1>6, <1>7, <1>8, <1>9, <1>10, <1>11,
     <1>12, <1>13, <1>14, <1>15, <1>16, <1>17, <1>18, <1>19, <1>20, <1>21,
     <1>22, <1>23, <1>24, <1>25, <1>26, <1>27, <1>28, <1>29, <1>30, <1>31,
     <1>32, <1>33, <1>34, <1>35, <1>36, <1>37, <1>38, <1>39, <1>40, <1>41,
     <1>42, <1>43
  DEF Next, Step, InstallStep, ActivateStep, UninstallStep, Failure

(* The ends of a removal that report a success.                            *)
LEMMA RemovalEndings ==
  ASSUME RemovedSoFar, Attributes, [Next]_vars, pc # "idle", outcome # "ok",
         outcome' = "ok", req.state = "absent", req.cache = None
  PROVE  KeepPackage \/ RemoveVenvDir
BY DEF RemovedSoFar, Attributes, InstallLabels, RemoveLabels, ActivateLabels,
       Goto, End, Proceed, Next, Step, InstallStep, ActivateStep, UninstallStep, Failure, vars,
       repo, disk, local, SkipToActivation, Publish, Withdraw, Republish,
       Start, IndexIsCurrent, UpdateIndex, UnreadableIndex, UnknownPackage,
       UnknownVersion, LookUp, Download, NotATarball, AlreadyUnpacked,
       MakeVenvDir, ExtractMember, Extracted, ExtractFails,
       AlreadyReferred, MakeServiceDir, LinkVenv, MakeEtcDir, Installed,
       AlreadyActive, ActivationCrashes, UnlinkOld, NothingToUnlink,
       Relink, RelinkFails, UninstallActive, UninstallInactive,
       UnreferFails, Unrefer, RemoveServiceEntry, RemoveServiceDir,
       KeepPackage, DropPackage, RemoveVenvEntry, RemoveVenvDir, Kill,
       WriteInterrupted, ConnectionRefused, DownloadCut, CallFails

LEMMA StepRemovedIsGone ==
  ASSUME Sound, RemovedSoFar, RemovedIsGone, outcome = "ok" => pc = "idle",
         [Next]_vars
  PROVE  RemovedIsGone'
<1> SUFFICES ASSUME outcome' = "ok", req'.state = "absent", req'.cache = None
             PROVE  (svc[S][X] = {} /\ (venv[P][X] = {} \/ Refs(P, X) # {}))'
  BY DEF RemovedIsGone
<1>1. CASE pc = "idle"
  <2>1. UNCHANGED <<venv, svc, req, spec, outcome>>
    BY <1>1, IdleSteps
  <2> QED
    BY <2>1 DEF RemovedIsGone, S, P, X, Refs
<1>2. CASE pc # "idle"
  <2>1. req' = req
    BY <1>2, OkEndings
  <2>2. KeepPackage \/ RemoveVenvDir
    BY <1>2, <2>1, RemovalEndings DEF Sound, WellFormed
  <2>3. pc \in {"count", "rmvenv"} /\ UNCHANGED <<svc, req, spec>>
    BY <2>2 DEF KeepPackage, RemoveVenvDir, disk, local
  <2>4. P \in Package /\ X \in Suffix
    BY <2>3, RequestType DEF Sound, WellFormed, Attributes, RemoveLabels, S, X
  <2>5. svc[S][X] = {}
    BY <2>3 DEF RemovedSoFar
  <2>6. CASE KeepPackage
    <3>1. venv' = venv /\ (venv[P][X] = {} \/ Refs(P, X) # {})
      BY <2>4, <2>6 DEF KeepPackage, RemovedSoFar, disk
    <3> QED
      BY <2>3, <2>5, <3>1 DEF S, P, X, Refs
  <2>7. CASE RemoveVenvDir
    <3>1. venv'[P][X] = {}
      BY <2>4, <2>7 DEF RemoveVenvDir, Sound, WellFormed, TypeOK
    <3> QED
      BY <2>3, <2>5, <3>1 DEF S, P, X
  <2> QED
    BY <2>2, <2>6, <2>7
<1> QED
  BY <1>1, <1>2

(* Whatever failed before, a removal that reports success has left neither *)
(* the service directory nor, unless another service directory links to    *)
(* it, the package: what it found half removed it has removed.             *)
THEOREM RemovalRemoves == Spec => []RemovedIsGone
<1> DEFINE I == Sound /\ RemovedSoFar /\ RemovedIsGone
                /\ (outcome = "ok" => pc = "idle")
<1>1. Init => I
  BY InitWellFormed, InitReferredKept
  DEF Sound, Init, RemovedIsGone, RemovedSoFar, ActivateLabels
<1>2. I /\ [Next]_vars => I'
  BY StepWellFormed, StepReferredKept, StepRemovedSoFar, StepRemovedIsGone,
     OkIsIdle DEF Sound
<1> QED
  BY <1>1, <1>2, PTL DEF Spec
=============================================================================
