----------------------------- MODULE HostsProofs -----------------------------
(***************************************************************************)
(* Proofs about the programs on the nodes: setup_systemd, run_command,     *)
(* config_symlinks, the cloud-vm role and the argument checks, for any     *)
(* units, links, output and arguments and any number of failures.          *)
(***************************************************************************)
EXTENDS AggregateProofs, WellFoundedInduction

-----------------------------------------------------------------------------
(* setup_systemd *)

(* Where a run is, the file is what it wants to be.                        *)
WrittenFirst ==
  /\ pc = "reload" => file = want
  /\ pc = "exit" => file = want /\ loaded = want
  /\ outcome = "ok" => pc = "idle"
  /\ pc # "idle" => outcome = "running"

LoadedInv == SuccessIsLoaded /\ WrittenFirst

LEMMA LoadedInit == Init => LoadedInv
BY DEF Init, LoadedInv, SuccessIsLoaded, WrittenFirst

LEMMA LoadedStep == LoadedInv /\ [Next]_vars => LoadedInv'
<1> SUFFICES ASSUME LoadedInv, [Next]_vars PROVE LoadedInv'
  OBVIOUS
<1> USE DEF LoadedInv, SuccessIsLoaded, WrittenFirst
<1>1. ASSUME NEW u \in Unit, Start(u) PROVE LoadedInv'
  BY <1>1 DEF Start
<1>2. CASE Unchanged
  BY <1>2 DEF Unchanged
<1>3. CASE OpenUnit
  BY <1>3 DEF OpenUnit
<1>4. CASE WriteUnit
  BY <1>4 DEF WriteUnit
<1>5. CASE DaemonReload
  BY <1>5 DEF DaemonReload
<1>6. CASE Exit
  BY <1>6 DEF Exit
<1>7. CASE Fail
  BY <1>7 DEF Fail
<1>8. CASE Kill
  BY <1>8 DEF Kill
<1>9. CASE Restart
  BY <1>9 DEF Restart
<1>10. CASE UNCHANGED vars
  BY <1>10 DEF vars
<1> QED
  BY <1>1, <1>2, <1>3, <1>4, <1>5, <1>6, <1>7, <1>8, <1>9, <1>10 DEF Next

(* A run that succeeds leaves the unit that was asked for on the disk and  *)
(* in systemd's memory, whatever runs before it left half done.            *)
THEOREM SuccessLoads == Spec => []SuccessIsLoaded
<1>1. LoadedInv => SuccessIsLoaded
  BY DEF LoadedInv
<1> QED
  BY LoadedInit, LoadedStep, <1>1, PTL DEF Spec

-----------------------------------------------------------------------------
LEMMA TypeInit == Init => TypeOK
<1>1. Init => changed \in BOOLEAN /\ handler \in BOOLEAN
  BY Zenon DEF Init
<1> QED
  BY <1>1, FaultsAssumption DEF Init, TypeOK

LEMMA TypeStep == TypeOK /\ LoadedInv /\ [Next]_vars => TypeOK'
<1> SUFFICES ASSUME TypeOK, LoadedInv, [Next]_vars PROVE TypeOK'
  OBVIOUS
<1> USE FaultsAssumption, UnitAssumption DEF TypeOK
<1>1. ASSUME NEW u \in Unit, Start(u) PROVE TypeOK'
  BY <1>1 DEF Start, WriteSystemd
<1>2. CASE Unchanged
  BY <1>2 DEF Unchanged
<1>3. CASE OpenUnit
  BY <1>3 DEF OpenUnit
<1>4. CASE WriteUnit
  BY <1>4 DEF WriteUnit
<1>5. CASE DaemonReload
  BY <1>5 DEF DaemonReload
<1>6. CASE Exit
  BY <1>6 DEF Exit
<1>7. CASE Fail
  BY <1>7 DEF Fail
<1>8. CASE Kill
  <2>1. changed' \in BOOLEAN /\ handler' \in BOOLEAN
    BY <1>8, Zenon DEF Kill
  <2> QED
    BY <1>8, <2>1 DEF Kill
<1>9. CASE Restart
  BY <1>9 DEF Restart, LoadedInv, SuccessIsLoaded
<1>10. CASE UNCHANGED vars
  BY <1>10 DEF vars
<1> QED
  BY <1>1, <1>2, <1>3, <1>4, <1>5, <1>6, <1>7, <1>8, <1>9, <1>10 DEF Next

(* Every state is well typed; in particular no process is ever started     *)
(* from a unit file that was cut short.                                    *)
THEOREM UnitTypeCorrect == Spec => []TypeOK
BY LoadedInit, LoadedStep, TypeInit, TypeStep, PTL DEF Spec

-----------------------------------------------------------------------------
(* As long as nothing has failed, file, memory and process agree between   *)
(* runs or a restart is due, and a run that changes nothing keeps it so.   *)
Agree == file = loaded /\ running \in {None, loaded}
UntilFailure ==
  faults = 0 =>
    /\ pc = "idle" => file = loaded /\ (handler \/ Agree)
    /\ pc = "check" => Agree
    /\ pc = "reload" => changed \/ Agree
    /\ pc = "exit" => changed \/ Agree

LEMMA RunningStep ==
  TypeOK /\ LoadedInv /\ UntilFailure /\ [Next]_vars => UntilFailure'
<1> SUFFICES ASSUME TypeOK, LoadedInv, UntilFailure, [Next]_vars
             PROVE  UntilFailure'
  OBVIOUS
<1> USE DEF TypeOK, LoadedInv, WrittenFirst, SuccessIsLoaded, UntilFailure, Agree
<1>1. ASSUME NEW u \in Unit, Start(u) PROVE UntilFailure'
  BY <1>1 DEF Start
<1>2. CASE Unchanged
  BY <1>2 DEF Unchanged
<1>3. CASE OpenUnit
  BY <1>3 DEF OpenUnit
<1>4. CASE WriteUnit
  BY <1>4 DEF WriteUnit
<1>5. CASE DaemonReload
  BY <1>5 DEF DaemonReload
<1>6. CASE Exit
  BY <1>6 DEF Exit
<1>7. CASE Fail
  BY <1>7 DEF Fail
<1>8. CASE Kill
  BY <1>8 DEF Kill
<1>9. CASE Restart
  BY <1>9 DEF Restart
<1>10. CASE UNCHANGED vars
  BY <1>10 DEF vars
<1> QED
  BY <1>1, <1>2, <1>3, <1>4, <1>5, <1>6, <1>7, <1>8, <1>9, <1>10 DEF Next

(* The service runs what was asked for, once the restart that a change     *)
(* calls for is done and as long as nothing has failed.                    *)
THEOREM ServiceRunsUnit == Spec => []RunsWhatIsLoaded
<1>1. Init => UntilFailure
  BY DEF Init, UntilFailure, Agree
<1>2. TypeOK /\ LoadedInv /\ UntilFailure => RunsWhatIsLoaded
  BY DEF TypeOK, LoadedInv, SuccessIsLoaded, UntilFailure, Agree, RunsWhatIsLoaded
<1> QED
  BY LoadedInit, LoadedStep, TypeInit, TypeStep, RunningStep,
     <1>1, <1>2, PTL DEF Spec

-----------------------------------------------------------------------------
(* run_command *)

(* A pipe given up is at its end and stays so; one that select found ready *)
(* holds something or is at its end.  If nothing was ready and nothing was *)
(* written since, the pipes are empty.                                     *)
Reading == {"select", "read", "poll", "again", "wait"}
GivenUp == cpc \in Reading => \A s \in Command!Stream \ rpipes : Command!AtEnd(s)
FoundReady ==
  cpc = "read" => \A s \in rfd \cap Command!Stream : pipe[s] > 0 \/ Command!AtEnd(s)
NothingReady ==
  cpc \in {"read", "poll"} /\ rfd = {} /\ ~rushed =>
    \A s \in Command!Stream : pipe[s] = 0
NoPipeLeft == cpc = "wait" => rpipes = {}

ReadInv ==
  /\ pipe \in [Command!Stream -> Nat]
  /\ GivenUp /\ FoundReady /\ NothingReady /\ NoPipeLeft /\ Command!LosesOnlyTheLast

LEMMA ReadInit == Command!Init => ReadInv
BY DEF Command!Init, ReadInv, GivenUp, FoundReady, NothingReady, NoPipeLeft,
       Command!LosesOnlyTheLast, Reading

LEMMA ReadStep == ReadInv /\ [Command!Next]_Command!vars => ReadInv'
<1> SUFFICES ASSUME ReadInv, [Command!Next]_Command!vars PROVE ReadInv'
  OBVIOUS
<1> USE DEF ReadInv, GivenUp, FoundReady, NothingReady, NoPipeLeft,
           Command!LosesOnlyTheLast, Reading
<1>1. CASE Command!Popen
  BY <1>1 DEF Command!Popen, Command!AtEnd
<1>2. CASE Command!PopenFails
  BY <1>2 DEF Command!PopenFails, Command!AtEnd, Command!childVars
<1>3. CASE Command!Select
  BY <1>3 DEF Command!Select, Command!AtEnd, Command!Ready
<1>4. CASE Command!Read
  BY <1>4 DEF Command!Read, Command!AtEnd
<1>5. CASE Command!Poll
  BY <1>5 DEF Command!Poll, Command!AtEnd, Command!childVars
<1>6. CASE Command!PollAgain
  BY <1>6 DEF Command!PollAgain, Command!AtEnd, Command!childVars
<1>7. CASE Command!Wait
  BY <1>7 DEF Command!Wait, Command!AtEnd, Command!childVars
<1>8. ASSUME NEW s \in Command!Stream, Command!ChildWrites(s) PROVE ReadInv'
  BY <1>8 DEF Command!ChildWrites, Command!AtEnd
<1>9. ASSUME NEW s \in Command!Stream, Command!ChildCloses(s) PROVE ReadInv'
  BY <1>9 DEF Command!ChildCloses, Command!AtEnd
<1>10. ASSUME NEW leaves \in BOOLEAN, Command!ChildExits(leaves) PROVE ReadInv'
  BY <1>10 DEF Command!ChildExits, Command!AtEnd
<1>11. CASE UNCHANGED Command!vars
  BY <1>11 DEF Command!vars, Command!childVars, Command!AtEnd
<1> QED
  BY <1>1, <1>2, <1>3, <1>4, <1>5, <1>6, <1>7, <1>8, <1>9, <1>10, <1>11
  DEF Command!Next, Command!Step, Command!Child

(* run_command loses no output but what was written after its last select, *)
(* whatever the sizes of the pipes and of the output.                      *)
THEOREM OutputIsRead == Command!Spec => []LosesOnlyTheLast
<1>1. ReadInv => LosesOnlyTheLast
  BY DEF ReadInv, LosesOnlyTheLast
<1> QED
  BY ReadInit, ReadStep, <1>1, PTL DEF Command!Spec

(* Nothing is lost or made up between the child and what was read.         *)
CommandTypes ==
  /\ Command!TypeOK
  /\ sent \in [Command!Stream -> Nat] /\ got \in [Command!Stream -> Nat]

LEMMA CommandTypesInit == Command!Init => CommandTypes
BY CommandAssumption DEF Command!Init, CommandTypes, Command!TypeOK, Command!Stream

LEMMA CommandTypesStep == CommandTypes /\ [Command!Next]_Command!vars => CommandTypes'
<1> SUFFICES ASSUME CommandTypes, [Command!Next]_Command!vars PROVE CommandTypes'
  OBVIOUS
<1> USE CommandAssumption DEF CommandTypes, Command!TypeOK
<1>1. CASE Command!Popen
  BY <1>1 DEF Command!Popen, Command!Stream
<1>2. CASE Command!PopenFails
  BY <1>2 DEF Command!PopenFails, Command!childVars
<1>3. CASE Command!Select
  BY <1>3 DEF Command!Select, Command!Ready
<1>4. CASE Command!Read
  BY <1>4 DEF Command!Read
<1>5. CASE Command!Poll \/ Command!PollAgain \/ Command!Wait
  BY <1>5 DEF Command!Poll, Command!PollAgain, Command!Wait, Command!childVars
<1>6. ASSUME NEW s \in Command!Stream, Command!ChildWrites(s) PROVE CommandTypes'
  BY <1>6 DEF Command!ChildWrites
<1>7. ASSUME NEW s \in Command!Stream, Command!ChildCloses(s) PROVE CommandTypes'
  BY <1>7 DEF Command!ChildCloses
<1>8. ASSUME NEW leaves \in BOOLEAN, Command!ChildExits(leaves) PROVE CommandTypes'
  BY <1>8 DEF Command!ChildExits
<1>9. CASE UNCHANGED Command!vars
  BY <1>9 DEF Command!vars, Command!childVars
<1>10. QED
  BY <1>1, <1>2, <1>3, <1>4, <1>5, <1>6, <1>7, <1>8, <1>9
  DEF Command!Next, Command!Step, Command!Child

-----------------------------------------------------------------------------
(* config_symlinks *)

(* What has been looked at is a link; so is all of a request that is the   *)
(* one granted before, and nothing is linked for it.                       *)
LinksInv ==
  /\ Links!TypeOK
  /\ state = "ok" => todo = {}
  /\ state \in {"running", "ok"} =>
       /\ \A q \in wanted \ todo : at[q[1]] \in Dest
       /\ wanted # {}
       /\ last = wanted => ~linked /\ \A q \in wanted : at[q[1]] \in Dest

LEMMA LinksInit == Links!Init => LinksInv
BY DEF Links!Init, LinksInv, Links!TypeOK

LEMMA LinksStep == LinksInv /\ [Links!Next]_Links!vars => LinksInv'
<1> SUFFICES ASSUME LinksInv, [Links!Next]_Links!vars PROVE LinksInv'
  OBVIOUS
<1> USE DEF LinksInv, Links!TypeOK
<1>1. ASSUME NEW r \in Links!Requests, Links!Begin(r) PROVE LinksInv'
  <2>1. r \subseteq Src \X Dest /\ r # {}
    BY DEF Links!Requests
  <2>2. QED
    BY <1>1, <2>1 DEF Links!Begin
<1>2. ASSUME NEW s \in Src, NEW d \in Dest, Links!Link(s, d) PROVE LinksInv'
  <2>1. at' = [at EXCEPT ![s] = d] /\ <<s, d>> \in todo /\ at[s] \notin Dest
    BY <1>2, LinksAssumption DEF Links!Link
  <2>2. last # wanted
    BY <1>2, <2>1 DEF Links!Link
  <2>3. QED
    BY <1>2, <2>1, <2>2 DEF Links!Link
<1>3. ASSUME NEW s \in Src, NEW d \in Dest, Links!Keep(s, d) PROVE LinksInv'
  BY <1>3 DEF Links!Keep
<1>4. ASSUME NEW s \in Src, NEW d \in Dest, Links!Crash(s, d) PROVE LinksInv'
  BY <1>4 DEF Links!Crash
<1>5. CASE Links!Exit
  BY <1>5 DEF Links!Exit
<1>6. CASE UNCHANGED Links!vars
  BY <1>6 DEF Links!vars
<1>7. QED
  BY <1>1, <1>2, <1>3, <1>4, <1>5, <1>6 DEF Links!Next

(* A request that was just granted changes nothing when it is made again,  *)
(* for any files and keys and in whichever order they are taken.           *)
THEOREM RegrantedIsQuiet == Links!Spec => []RerunIsQuiet
<1>1. LinksInv => RerunIsQuiet
  BY DEF LinksInv, RerunIsQuiet, Links!RerunIsQuiet
<1>2. QED
  BY LinksInit, LinksStep, <1>1, PTL DEF Links!Spec

-----------------------------------------------------------------------------
(* cloud-vm and flag-files *)

(* The keys, the partition and the volume are done before their flags are  *)
(* set, and nothing undoes them; without faults the layers above the       *)
(* partition are done with it.                                             *)
VmInv ==
  /\ Vm!TypeOK
  /\ Vm!FlagsAreDeserved
  /\ vpc = "ssh_flag" => keys
  /\ vpc \in {"reread", "lv", "fs", "flag"} => "partition" \in grown
  /\ vpc \in {"fs", "flag"} => {"kernel", "lv"} \subseteq grown
  /\ "fs" \in grown => {"partition", "kernel", "lv"} \subseteq grown
  /\ vfaults = 0 =>
       /\ /\ vpc \in {"idle", "ssh", "ssh_flag", "root", "fdisk", "flag"}
          /\ "partition" \in grown
          => "fs" \in grown
       /\ vpc = "reread" => resized \/ "fs" \in grown
       /\ vpc = "lv" => (resized /\ "kernel" \in grown) \/ "fs" \in grown
       /\ vpc = "fs" => (resized /\ "lv" \in grown) \/ "fs" \in grown

LEMMA VmInit == Vm!Init => VmInv
<1>1. Vm!Init => keys \in BOOLEAN /\ resized \in BOOLEAN
  BY Zenon DEF Vm!Init
<1>2. QED
  BY <1>1, FaultsAssumption DEF Vm!Init, VmInv, Vm!TypeOK, Vm!FlagsAreDeserved

LEMMA VmStep == VmInv /\ [Vm!Next]_Vm!vars => VmInv'
<1> SUFFICES ASSUME VmInv, [Vm!Next]_Vm!vars PROVE VmInv'
  OBVIOUS
<1> USE FaultsAssumption DEF VmInv, Vm!TypeOK, Vm!FlagsAreDeserved, Vm!Flag, Vm!Layer
<1>1. ASSUME NEW clear \in BOOLEAN, Vm!Load(clear) PROVE VmInv'
  BY <1>1 DEF Vm!Load
<1>2. CASE Vm!SshAccess
  BY <1>2 DEF Vm!SshAccess
<1>3. CASE Vm!SetFlag("ssh_flag", "ssh_access", "root")
  BY <1>3 DEF Vm!SetFlag
<1>4. CASE Vm!RootPartition
  BY <1>4 DEF Vm!RootPartition
<1>5. CASE Vm!ResizePartition
  <2>1. resized' \in BOOLEAN
    BY <1>5, Zenon DEF Vm!ResizePartition
  <2>2. QED
    BY <1>5, <2>1 DEF Vm!ResizePartition
<1>6. CASE Vm!ReadPartition
  BY <1>6 DEF Vm!ReadPartition
<1>7. CASE Vm!ResizeLv
  BY <1>7 DEF Vm!ResizeLv
<1>8. CASE Vm!ResizeFs
  BY <1>8 DEF Vm!ResizeFs
<1>9. CASE Vm!SetFlag("flag", "root_partition", "idle")
  BY <1>9 DEF Vm!SetFlag
<1>10. CASE Vm!Kill
  BY <1>10 DEF Vm!Kill
<1>11. CASE Vm!Restart
  BY <1>11 DEF Vm!Restart
<1>12. CASE UNCHANGED Vm!vars
  BY <1>12 DEF Vm!vars
<1>13. QED
  BY <1>1, <1>2, <1>3, <1>4, <1>5, <1>6, <1>7, <1>8, <1>9, <1>10, <1>11, <1>12
  DEF Vm!Next

(* A flag is found set only when what it stands for was done: the keys and *)
(* the larger volume always, the filesystem if no run of the role was      *)
(* stopped half way.                                                       *)
THEOREM FlagsStandForWork == Vm!Spec => []FlagsAreDeserved
<1>1. VmInv => FlagsAreDeserved
  BY DEF VmInv, FlagsAreDeserved
<1>2. QED
  BY VmInit, VmStep, <1>1, PTL DEF Vm!Spec

-----------------------------------------------------------------------------
(* ModuleArguments *)

(* What each check leaves for the rest of them, in the order they run in.  *)
AfterExclusive == {"defaults", "required", "choices", "types", "together", "one", "rest"}
AfterDefaults == {"required", "choices", "types", "together", "one", "rest"}

TextsOnly ==
  mpc \in {"idle", "load", "aliases", "legal", "mode", "exclusive", "defaults",
           "required", "choices", "types"} =>
    \A k \in DOMAIN params : params[k] \in Text

RequiredHasNoDefault ==
  mpc \in AfterExclusive \cup {"legal", "mode", "exclusive"} =>
    \A k \in Name : Argument[k].required => Argument[k].default = None

OneOfExclusive ==
  mpc \in AfterExclusive =>
    \A s \in Exclusive : \A k, b \in s :
      /\ k # b
      /\ Argument[k].default = None /\ Argument[b].default = None
      => ~ {k, b} \subseteq DOMAIN params

DefaultsAreSet ==
  mpc \in AfterDefaults =>
    \A k \in Name : Argument[k].default # None => k \in DOMAIN params

RequiredIsGiven ==
  mpc \in {"choices", "types", "together", "one", "rest"} =>
    \A k \in Name : Argument[k].required => k \in DOMAIN params

IsAChoice(k, text) == Argument[k].choices = {} \/ text \in Argument[k].choices

ChoicesAreMade ==
  mpc = "types" => \A k \in Name \cap DOMAIN params : IsAChoice(k, params[k])

TypesAreMade ==
  mpc \in {"together", "one", "rest"} =>
    /\ \A k \in DOMAIN params : params[k] # None
    /\ \A k \in Name \cap DOMAIN params :
         IF Argument[k].type = None
         THEN IsAChoice(k, params[k])
         ELSE \E text \in Text : params[k] = <<Argument[k].type, text>> /\ IsAChoice(k, text)

OneOfIsGiven ==
  mpc = "rest" => \A s \in OneOf : s \cap DOMAIN params # {}

ArgumentsInv ==
  /\ Arguments!TypeOK
  /\ moutcome = "accepted" => mpc = "ended"
  /\ AcceptedAsSpecified
  /\ TextsOnly /\ RequiredHasNoDefault /\ OneOfExclusive /\ DefaultsAreSet
  /\ RequiredIsGiven /\ ChoicesAreMade /\ TypesAreMade /\ OneOfIsGiven

(* The last of some places in a sequence is one of them.                   *)
LEMMA LastPlace ==
  ASSUME NEW n \in Nat, NEW S, S \subseteq 1..n, S # {}
  PROVE  Arguments!Max(S) \in S
<1> DEFINE T == {n - i : i \in S}
<1>1. T \subseteq Nat /\ T # {}
  <2>1. \A i \in S : n - i \in Nat
    OBVIOUS
  <2>2. QED
    BY <2>1
<1>2. PICK x \in T : \A y \in T : ~ (<<y, x>> \in OpToRel(<, Nat))
  BY <1>1, NatLessThanWellFounded, WFMin, Zenon
<1>3. \A y \in T : ~ (y < x)
  BY <1>1, <1>2 DEF OpToRel
<1>4. PICK i \in S : x = n - i
  OBVIOUS
<1>5. \A j \in S : i >= j
  BY <1>3, <1>4
<1>6. QED
  BY <1>5 DEF Arguments!Max

LEMMA ArgumentsInit == Arguments!Init => ArgumentsInv
<1> SUFFICES ASSUME Arguments!Init PROVE ArgumentsInv
  OBVIOUS
<1>1. items = << >> /\ params = << >> /\ mpc = "idle" /\ moutcome = "running"
  BY DEF Arguments!Init
<1>2. check_mode \in BOOLEAN
  BY Zenon DEF Arguments!Init
<1>3. items \in Seq(Arguments!Item) /\ DOMAIN params = {}
  BY <1>1
<1>4. Arguments!TypeOK
  BY <1>1, <1>2, <1>3 DEF Arguments!TypeOK, Arguments!Given
<1>5. QED
  BY <1>1, <1>4 DEF ArgumentsInv, AcceptedAsSpecified, Arguments!AcceptedAsSpecified,
     TextsOnly, RequiredHasNoDefault, OneOfExclusive, DefaultsAreSet, RequiredIsGiven,
     ChoicesAreMade, TypesAreMade, OneOfIsGiven, AfterExclusive, AfterDefaults

(* What an alias stands for is a value that the caller gave.               *)
LEMMA CanonicalValues ==
  ASSUME Arguments!TypeOK
  PROVE  /\ DOMAIN params \subseteq DOMAIN Arguments!Canonical
         /\ DOMAIN Arguments!Canonical \subseteq Arguments!Key
         /\ \A k \in DOMAIN Arguments!Canonical :
              \E j \in DOMAIN params : Arguments!Canonical[k] = params[j]
<1> DEFINE G == DOMAIN params
<1> DEFINE A(k) == Arguments!GivenAliases(k)
<1>1. G \subseteq Arguments!Key /\ Name \subseteq Arguments!Key
  BY DEF Arguments!TypeOK, Arguments!Key
<1>2. DOMAIN Arguments!Canonical = G \cup {n \in Name : A(n) # {}}
  BY DEF Arguments!Canonical, Arguments!Given
<1>3. ASSUME NEW k \in DOMAIN Arguments!Canonical
      PROVE  \E j \in G : Arguments!Canonical[k] = params[j]
  <2>1. CASE k \in Name /\ A(k) # {}
    <3>1. Argument[k].aliases \in Seq(Alias)
      BY <2>1, ArgumentAssumption
    <3>2. A(k) \subseteq 1..Len(Argument[k].aliases) /\ Len(Argument[k].aliases) \in Nat
      BY <3>1 DEF Arguments!GivenAliases
    <3>3. Arguments!Max(A(k)) \in A(k)
      BY <2>1, <3>2, LastPlace
    <3>4. Argument[k].aliases[Arguments!Max(A(k))] \in G
      BY <3>3 DEF Arguments!GivenAliases, Arguments!Given
    <3>5. Arguments!Canonical[k] = params[Argument[k].aliases[Arguments!Max(A(k))]]
      BY <2>1 DEF Arguments!Canonical
    <3>6. QED
      BY <3>4, <3>5
  <2>2. CASE ~ (k \in Name /\ A(k) # {})
    <3>1. k \in G
      BY <1>2, <1>3, <2>2
    <3>2. Arguments!Canonical[k] = params[k]
      BY <1>2, <1>3, <2>2 DEF Arguments!Canonical, Arguments!Given
    <3>3. QED
      BY <3>1, <3>2
  <2>3. QED
    BY <2>1, <2>2
<1>4. QED
  BY <1>1, <1>2, <1>3

(* A step of the checks before the types keeps the values texts.           *)
LEMMA DefaultedValues ==
  ASSUME NEW which, which \subseteq Name
  PROVE  /\ DOMAIN Arguments!Defaulted(which) = DOMAIN params \cup which
         /\ \A k \in DOMAIN params : Arguments!Defaulted(which)[k] = params[k]
         /\ \A k \in which \ DOMAIN params :
              Arguments!Defaulted(which)[k] = Argument[k].default
BY DEF Arguments!Defaulted, Arguments!Given

LEMMA CheckModeIsSet ==
  ASSUME Arguments!CheckMode, ~ ("CHECKMODE" \in DOMAIN params /\ ~ChecksMode)
  PROVE  check_mode' \in BOOLEAN
<1>1. ~ ("CHECKMODE" \in Arguments!Given /\ ~ChecksMode)
  BY DEF Arguments!Given
<1>2. check_mode' = ("CHECKMODE" \in Arguments!Given)
  BY <1>1, Zenon DEF Arguments!CheckMode
<1>3. QED
  BY <1>2

LEMMA ArgumentsTypeStep ==
  ArgumentsInv /\ [Arguments!Next]_Arguments!vars => Arguments!TypeOK'
<1> SUFFICES ASSUME ArgumentsInv, [Arguments!Next]_Arguments!vars PROVE Arguments!TypeOK'
  OBVIOUS
<1> USE DEF ArgumentsInv, Arguments!TypeOK, Arguments!End, Arguments!Pass,
            Arguments!Become, Arguments!Given
<1>1. ASSUME NEW args \in Arguments!SeqOf(Arguments!Item, MaxWords), Arguments!Start(args)
      PROVE  Arguments!TypeOK'
  <2>1. PICK m \in 0..MaxWords : args \in [1..m -> Arguments!Item]
    BY <1>1 DEF Arguments!SeqOf
  <2>2. args \in Seq(Arguments!Item)
    BY <2>1, ArgumentAssumption
  <2>3. QED
    BY <1>1, <2>2 DEF Arguments!Start
<1>2. CASE Arguments!NewProcess
  <2>1. << >> \in Seq(Arguments!Item) /\ DOMAIN << >> = {}
    OBVIOUS
  <2>2. check_mode' \in BOOLEAN
    BY <1>2, Zenon DEF Arguments!NewProcess
  <2>3. QED
    BY <1>2, <2>1, <2>2 DEF Arguments!NewProcess
<1>3. CASE Arguments!LoadItem
  <2>1. CASE Head(items) = None \/ Head(items)[1] \in DOMAIN params
    BY <1>3, <2>1 DEF Arguments!LoadItem
  <2>2. CASE ~ (Head(items) = None \/ Head(items)[1] \in DOMAIN params)
    <3>1. Head(items) \in Arguments!Key \X Text
      BY <1>3, <2>2 DEF Arguments!LoadItem, Arguments!Item
    <3>2. /\ params' = Arguments!With(params, Head(items)[1], Head(items)[2])
          /\ items' = Tail(items)
          /\ UNCHANGED <<mpc, moutcome, check_mode>>
      BY <1>3, <2>2 DEF Arguments!LoadItem
    <3>3. items' \in Seq(Arguments!Item)
      BY <1>3, <3>2 DEF Arguments!LoadItem
    <3>4. DOMAIN params' \subseteq Arguments!Key
      BY <3>1, <3>2 DEF Arguments!With
    <3>5. \A k \in DOMAIN params' : params'[k] \in Arguments!Value
      BY <3>1, <3>2 DEF Arguments!With, Arguments!Value
    <3>6. QED
      BY <3>2, <3>3, <3>4, <3>5
  <2>3. QED
    BY <2>1, <2>2
<1>4. CASE Arguments!Loaded
  BY <1>4 DEF Arguments!Loaded
<1>5. CASE Arguments!HandleAliases
  BY <1>5, CanonicalValues DEF Arguments!HandleAliases
<1>6. CASE Arguments!CheckInvalid
  BY <1>6 DEF Arguments!CheckInvalid
<1>7. CASE Arguments!CheckMode
  <2>1. CASE "CHECKMODE" \in DOMAIN params /\ ~ChecksMode
    BY <1>7, <2>1 DEF Arguments!CheckMode
  <2>2. CASE ~("CHECKMODE" \in DOMAIN params /\ ~ChecksMode)
    <3>1. check_mode' \in BOOLEAN
      BY <1>7, <2>2, CheckModeIsSet
    <3>2. QED
      BY <1>7, <2>2, <3>1 DEF Arguments!CheckMode
  <2>3. QED
    BY <2>1, <2>2
<1>8. CASE Arguments!CheckExclusive
  BY <1>8 DEF Arguments!CheckExclusive
<1>9. ASSUME NEW which \in SUBSET Name, params' = Arguments!Defaulted(which)
      PROVE  /\ DOMAIN params' \subseteq Arguments!Key
             /\ \A k \in DOMAIN params' : params'[k] \in Arguments!Value
  <2>1. DOMAIN params' = DOMAIN params \cup which
    BY <1>9, DefaultedValues
  <2>2. Name \subseteq Arguments!Key
    BY DEF Arguments!Key
  <2>3. ASSUME NEW k \in which PROVE Argument[k].default \in Arguments!Value
    BY ArgumentAssumption DEF Arguments!Value
  <2>4. QED
    BY <1>9, <2>1, <2>2, <2>3, DefaultedValues
<1>10. CASE Arguments!SetDefaults
  <2>1. {k \in Name : Argument[k].default # None} \in SUBSET Name
    OBVIOUS
  <2>2. params' = Arguments!Defaulted({k \in Name : Argument[k].default # None})
    BY <1>10 DEF Arguments!SetDefaults
  <2>3. QED
    BY <1>9, <1>10, <2>1, <2>2 DEF Arguments!SetDefaults
<1>11. CASE Arguments!CheckRequired
  BY <1>11 DEF Arguments!CheckRequired
<1>12. CASE Arguments!CheckValues
  BY <1>12 DEF Arguments!CheckValues
<1>13. CASE Arguments!CheckTypes
  <2>1. ASSUME NEW how \in {"failed", "raised"}, Arguments!End(how) PROVE Arguments!TypeOK'
    BY <2>1
  <2>2. CASE Arguments!Become([k \in DOMAIN params |->
                                IF Arguments!Typed(k) THEN <<Argument[k].type, params[k]>>
                                ELSE params[k]], "together")
    <3>1. ASSUME NEW k \in DOMAIN params, Arguments!Typed(k)
          PROVE  <<Argument[k].type, params[k]>> \in Arguments!Value
      <4>1. Argument[k].type \in Arguments!Type
        BY <3>1, ArgumentAssumption DEF Arguments!Typed
      <4>2. params[k] \in Text
        BY <1>13 DEF Arguments!CheckTypes, TextsOnly
      <4>3. QED
        BY <4>1, <4>2 DEF Arguments!Value
    <3>2. QED
      BY <1>13, <2>2, <3>1 DEF Arguments!CheckTypes
  <2>3. QED
    BY <1>13, <2>1, <2>2 DEF Arguments!CheckTypes
<1>14. CASE Arguments!CheckTogether
  BY <1>14 DEF Arguments!CheckTogether
<1>15. CASE Arguments!CheckOneOf
  BY <1>15 DEF Arguments!CheckOneOf
<1>16. CASE Arguments!SetRest
  BY <1>9, <1>16 DEF Arguments!SetRest
<1>17. CASE UNCHANGED Arguments!vars
  BY <1>17 DEF Arguments!vars
<1>18. QED
  BY <1>1, <1>2, <1>3, <1>4, <1>5, <1>6, <1>7, <1>8, <1>10, <1>11, <1>12, <1>13,
     <1>14, <1>15, <1>16, <1>17 DEF Arguments!Next, Arguments!Step

LEMMA ArgumentsStep ==
  ArgumentsInv /\ [Arguments!Next]_Arguments!vars => ArgumentsInv'
<1> SUFFICES ASSUME ArgumentsInv, [Arguments!Next]_Arguments!vars PROVE ArgumentsInv'
  OBVIOUS
<1> DEFINE Rest ==
      /\ moutcome = "accepted" => mpc = "ended"
      /\ AcceptedAsSpecified
      /\ TextsOnly /\ RequiredHasNoDefault /\ OneOfExclusive /\ DefaultsAreSet
      /\ RequiredIsGiven /\ ChoicesAreMade /\ TypesAreMade /\ OneOfIsGiven
<1> SUFFICES Rest'
  BY ArgumentsTypeStep DEF ArgumentsInv
<1> USE DEF ArgumentsInv, AfterExclusive, AfterDefaults, TextsOnly, RequiredHasNoDefault,
            OneOfExclusive, DefaultsAreSet, RequiredIsGiven, ChoicesAreMade,
            TypesAreMade, OneOfIsGiven, AcceptedAsSpecified, Arguments!AcceptedAsSpecified,
            Arguments!End, Arguments!Pass, Arguments!Become, Arguments!Given
<1>1. ASSUME NEW args \in Arguments!SeqOf(Arguments!Item, MaxWords), Arguments!Start(args)
      PROVE  Rest'
  BY <1>1 DEF Arguments!Start
<1>2. CASE Arguments!NewProcess
  <2>1. DOMAIN << >> = {}
    OBVIOUS
  <2>2. QED
    BY <1>2, <2>1 DEF Arguments!NewProcess
<1>3. CASE Arguments!LoadItem
  BY <1>3 DEF Arguments!LoadItem, Arguments!With, Arguments!Item, Arguments!TypeOK
<1>4. CASE Arguments!Loaded
  BY <1>4 DEF Arguments!Loaded
<1>5. CASE Arguments!HandleAliases
  BY <1>5, CanonicalValues DEF Arguments!HandleAliases
<1>6. CASE Arguments!CheckInvalid
  BY <1>6 DEF Arguments!CheckInvalid
<1>7. CASE Arguments!CheckMode
  BY <1>7 DEF Arguments!CheckMode
<1>8. CASE Arguments!CheckExclusive
  BY <1>8 DEF Arguments!CheckExclusive
<1>9. CASE Arguments!SetDefaults
  <2> DEFINE which == {k \in Name : Argument[k].default # None}
  <2>1. /\ mpc = "defaults" /\ mpc' = "required" /\ params' = Arguments!Defaulted(which)
        /\ UNCHANGED <<items, moutcome, check_mode>>
    BY <1>9 DEF Arguments!SetDefaults
  <2>2. /\ DOMAIN params' = DOMAIN params \cup which
        /\ \A k \in DOMAIN params : params'[k] = params[k]
        /\ \A k \in which \ DOMAIN params : params'[k] = Argument[k].default
    BY <2>1, DefaultedValues
  <2>3. TextsOnly'
    BY <2>1, <2>2, ArgumentAssumption
  <2>4. OneOfExclusive'
    BY <2>1, <2>2
  <2>5. QED
    BY <2>1, <2>2, <2>3, <2>4
<1>10. CASE Arguments!CheckRequired
  BY <1>10 DEF Arguments!CheckRequired
<1>11. CASE Arguments!CheckValues
  BY <1>11 DEF Arguments!CheckValues, IsAChoice
<1>12. CASE Arguments!CheckTypes
  <2>1. ASSUME NEW how \in {"raised", "failed"}, Arguments!End(how) PROVE Rest'
    BY <2>1
  <2>2. CASE Arguments!Become([k \in DOMAIN params |->
                                IF Arguments!Typed(k) THEN <<Argument[k].type, params[k]>>
                                ELSE params[k]], "together")
    <3>1. mpc = "types"
      BY <1>12 DEF Arguments!CheckTypes
    <3>2. /\ mpc' = "together" /\ moutcome' = moutcome
          /\ DOMAIN params' = DOMAIN params
          /\ \A k \in DOMAIN params :
               params'[k] = IF Arguments!Typed(k) THEN <<Argument[k].type, params[k]>>
                            ELSE params[k]
      BY <2>2
    <3>3. ASSUME NEW k \in DOMAIN params PROVE params'[k] # None
      <4>1. CASE Arguments!Typed(k)
        BY <3>1, <3>2, <4>1, ArgumentAssumption DEF Arguments!Typed
      <4>2. CASE ~Arguments!Typed(k)
        BY <3>1, <3>2, <4>2, ArgumentAssumption
      <4>3. QED
        BY <4>1, <4>2
    <3>4. ASSUME NEW k \in Name \cap DOMAIN params, Argument[k].type = None
          PROVE  IsAChoice(k, params[k])'
      BY <3>1, <3>2, <3>4 DEF Arguments!Typed, IsAChoice
    <3>5. ASSUME NEW k \in Name \cap DOMAIN params, Argument[k].type # None
          PROVE  \E text \in Text : /\ params'[k] = <<Argument[k].type, text>>
                                    /\ IsAChoice(k, text)
      BY <3>1, <3>2, <3>5 DEF Arguments!Typed
    <3>6. TypesAreMade'
      BY <3>2, <3>3, <3>4, <3>5 DEF IsAChoice
    <3>7. QED
      BY <3>1, <3>2, <3>6
  <2>3. QED
    BY <1>12, <2>1, <2>2 DEF Arguments!CheckTypes
<1>13. CASE Arguments!CheckTogether
  BY <1>13 DEF Arguments!CheckTogether
<1>14. CASE Arguments!CheckOneOf
  BY <1>14 DEF Arguments!CheckOneOf
<1>15. CASE Arguments!SetRest
  <2>1. /\ mpc = "rest" /\ mpc' = "ended" /\ moutcome' = "accepted"
        /\ params' = Arguments!Defaulted(Name)
    BY <1>15 DEF Arguments!SetRest
  <2>2. /\ DOMAIN params' = DOMAIN params \cup Name
        /\ \A k \in DOMAIN params : params'[k] = params[k] /\ params[k] # None
        /\ \A k \in Name \ DOMAIN params : params'[k] = None
    BY <2>1, DefaultedValues
  <2>3. ASSUME NEW k \in Name
        PROVE  LET a == Argument[k]
                   text == IF a.type = None \/ params'[k] = None THEN params'[k]
                           ELSE params'[k][2]
               IN  /\ a.required => params'[k] # None
                   /\ params'[k] # None /\ a.type # None => params'[k][1] = a.type
                   /\ a.choices # {} /\ params'[k] # None => text \in a.choices
    <3>1. CASE k \in DOMAIN params /\ Argument[k].type = None
      BY <2>1, <2>2, <3>1 DEF IsAChoice
    <3>2. CASE k \in DOMAIN params /\ Argument[k].type # None
      BY <2>1, <2>2, <3>2 DEF IsAChoice
    <3>3. CASE k \notin DOMAIN params
      BY <2>1, <2>2, <3>3
    <3>4. QED
      BY <3>1, <3>2, <3>3
  <2>4. ASSUME NEW s \in Exclusive, NEW k \in s, NEW b \in s, k # b,
               Argument[k].default = None, Argument[b].default = None
        PROVE  None \in {params'[k], params'[b]}
    BY <2>1, <2>2, <2>4, ArgumentAssumption
  <2>5. ASSUME NEW s \in OneOf PROVE \E k \in s : params'[k] # None
    BY <2>1, <2>2
  <2>6. AcceptedAsSpecified'
    BY <2>2, <2>3, <2>4, <2>5
  <2>7. QED
    BY <2>1, <2>6
<1>16. CASE UNCHANGED Arguments!vars
  BY <1>16 DEF Arguments!vars
<1>17. QED
  BY <1>1, <1>2, <1>3, <1>4, <1>5, <1>6, <1>7, <1>8, <1>9, <1>10, <1>11, <1>12, <1>13,
     <1>14, <1>15, <1>16 DEF Arguments!Next, Arguments!Step

(* What a module reads once it was constructed is what its specification   *)
(* says, for any specification and any call, of however many words.        *)
THEOREM ArgumentsAreSpecified == Arguments!Spec => []AcceptedAsSpecified
<1>1. ArgumentsInv => AcceptedAsSpecified
  BY DEF ArgumentsInv
<1>2. QED
  BY ArgumentsInit, ArgumentsStep, <1>1, PTL DEF Arguments!Spec

-----------------------------------------------------------------------------
(* Every variable of every program has its type in every state.            *)
THEOREM HostsTypesCorrect ==
  Spec /\ Links!Spec /\ Command!Spec /\ Aggregate!Spec /\ Vm!Spec /\ Arguments!Spec
  => []TypesOK
<1>1. LinksInv => Links!TypeOK
  BY DEF LinksInv
<1>2. CommandTypes => Command!TypeOK
  BY DEF CommandTypes
<1>3. VmInv => Vm!TypeOK
  BY DEF VmInv
<1>4. ArgumentsInv => Arguments!TypeOK
  BY DEF ArgumentsInv
<1>5. /\ TypeOK /\ Links!TypeOK /\ Command!TypeOK
      /\ Aggregate!TypeOK /\ Vm!TypeOK /\ Arguments!TypeOK
      => TypesOK
  BY DEF TypesOK
<1>6. Links!Spec => []Links!TypeOK
  BY LinksInit, LinksStep, <1>1, PTL DEF Links!Spec
<1>7. Command!Spec => []Command!TypeOK
  BY CommandTypesInit, CommandTypesStep, <1>2, PTL DEF Command!Spec
<1>8. Vm!Spec => []Vm!TypeOK
  BY VmInit, VmStep, <1>3, PTL DEF Vm!Spec
<1>9. Arguments!Spec => []Arguments!TypeOK
  BY ArgumentsInit, ArgumentsStep, <1>4, PTL DEF Arguments!Spec
<1>10. QED
  BY UnitTypeCorrect, AggregateTypes, <1>5, <1>6, <1>7, <1>8, <1>9, PTL
=============================================================================
