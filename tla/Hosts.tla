-------------------------------- MODULE Hosts ---------------------------------
(***************************************************************************)
(* What runs on the nodes and against nova: setup_systemd, config_symlinks,*)
(* run_command, the argument checks of every module, nova_host_aggregate   *)
(* and the cloud-vm role.  They share no state: each has its own here, and *)
(* their properties are restated under names that a run can list and a     *)
(* theorem can cite.                                                       *)
(***************************************************************************)
EXTENDS SystemdUnit, Sequences

CONSTANTS
  Src, Dest,                       \* see ConfigSymlinks
  Capacity, Output,                \* see RunCommand
  Host, Zone, Id,                  \* see HostAggregate
  Name, Alias, Other, Text,        \* see ModuleArguments
  Argument, Fits, Exclusive, Together, OneOf, ChecksMode, MaxWords

VARIABLES
  at, wanted, todo, state, linked, last,
  cpc, rpipes, rfd, pipe, sent, got, child, closed, daemon, rushed, rc,
  aggregate, apc, req, seen, left, granted,
  flags, keys, grown, vpc, vloaded, resized, vfaults,
  items, params, mpc, moutcome, check_mode

Links == INSTANCE ConfigSymlinks
Command == INSTANCE RunCommand WITH pc <- cpc
Aggregate == INSTANCE HostAggregate WITH pc <- apc
Vm == INSTANCE CloudVm WITH pc <- vpc, loaded <- vloaded, faults <- vfaults
Arguments == INSTANCE ModuleArguments WITH pc <- mpc, outcome <- moutcome

ASSUME CommandAssumption == Capacity \in Nat /\ Output \in Nat

ASSUME LinksAssumption == {None, "file"} \cap Dest = {} /\ None # "file"

ASSUME HostAssumption == None \notin Host \cup [zone : Zone \cup {None}, hosts : SUBSET Host]

ASSUME ArgumentAssumption ==
  /\ Argument \in [Name -> [required : BOOLEAN, default : Text \cup {None},
                            choices : SUBSET Text, type : Arguments!Type \cup {None},
                            aliases : Seq(Alias)]]
  /\ None \notin Text \cup (Arguments!Type \X Text)
  /\ Exclusive \subseteq SUBSET Name
  /\ MaxWords \in Nat

-----------------------------------------------------------------------------
(* The types of all variables.                                             *)
TypesOK ==
  /\ TypeOK /\ Links!TypeOK /\ Command!TypeOK
  /\ Aggregate!TypeOK /\ Vm!TypeOK /\ Arguments!TypeOK

(* Asking config_symlinks again for what it has just granted changes       *)
(* nothing and reports no change (symlinks.py:71).                         *)
RerunIsQuiet == Links!RerunIsQuiet

(* run_command returns without output of the command only when that was    *)
(* written after its last select (ansible.py:1568).                        *)
LosesOnlyTheLast == Command!LosesOnlyTheLast

(* run_command returns, whatever its child writes to which pipe            *)
(* (ansible.py:1548).                                                      *)
CommandReturns == Command!CommandReturns

(* What a module reads from its parameters once it was constructed is what *)
(* its argument specification says (ansible.py:261).                       *)
AcceptedAsSpecified == Arguments!AcceptedAsSpecified

(* A host whose module reported success stays in an aggregate until a      *)
(* module is run to take it out (nova_host_aggregate:200).                 *)
HostsAreKept == Aggregate!HostsAreKept

(* A flag of the cloud-vm role stands for work that was done: the keys and *)
(* the larger root volume after any stops and failures, the filesystem if  *)
(* no run was stopped (setup-root-partition.yml:262).                      *)
FlagsAreDeserved == Vm!FlagsAreDeserved

(* "grow the root filesystem": before the role notes that it is done       *)
(* (setup-root-partition.yml:19).                                          *)
RootIsGrown == Vm!RootIsGrown
=============================================================================
