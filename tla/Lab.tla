---------------------------------- MODULE Lab ----------------------------------
(***************************************************************************)
(* The programs of the developer's and the CI host: exec-test-plan,        *)
(* update-non-deployer-nodes, add-distros, the vagrant inventory,          *)
(* virsh_set_pxe_boot, get-cached-file, and what file names and versions   *)
(* mean.  They share no state: each has its own here, and their properties *)
(* are restated under names that a run can list and a theorem can cite.    *)
(***************************************************************************)
EXTENDS TestPlan

CONSTANTS
  None, Torn,
  Node, Candidates,                             \* see RollingUpdate
  Place, Distro, Default, Role, Kills,          \* see Distros
  Box, Option, Needed, MaxLines,                \* see Inventory
  Off,                                          \* see PxeBoot
  Version, Retries,                             \* see CachedFile
  MaxFaults,
  Ardana, Package, Timestamp, Dotted, Known,    \* see Versions
  Release, Patch

VARIABLES
  needs, nodes, actions, uoutcome, lost,
  file, data, dirty, dpc, req, doutcome, killed, cut, chosen,
  lines, next, box, config, asked, ioutcome,
  stored, live, ppc, want, reset, seen, changed, poutcome, pfaults,
  sum, served, sha256, cfile, tmp, link, cpc, cwant, valid, ctries, coutcome, cfaults,
  one, other

Update == INSTANCE RollingUpdate WITH outcome <- uoutcome
Choice == INSTANCE Distros WITH pc <- dpc, outcome <- doutcome
Answers == INSTANCE Inventory WITH outcome <- ioutcome
Pxe == INSTANCE PxeBoot WITH pc <- ppc, outcome <- poutcome, faults <- pfaults
Cached == INSTANCE CachedFile WITH
  file <- cfile, pc <- cpc, want <- cwant, tries <- ctries, outcome <- coutcome,
  faults <- cfaults
Names == INSTANCE Versions

ASSUME LabAssumption == MaxFaults \in Nat /\ Retries \in Nat /\ Torn \notin Version

ASSUME DistroAssumption ==
  /\ {"sles", "rhel"} \subseteq Distro /\ Default \in Distro /\ None \notin Distro
  /\ None \notin Choice!File /\ Torn \notin Choice!File /\ None # Torn
  /\ Kills \in Nat

ASSUME LinesAssumption == None \notin Box /\ MaxLines \in Nat

ASSUME VersionsAssumption ==
  /\ \A p \in Package : p \in Seq({p[i] : i \in DOMAIN p})
  /\ Ardana \notin Timestamp /\ Timestamp \subseteq Nat /\ Timestamp \cap Dotted = {}
  /\ Release \subseteq Seq(Nat) /\ Patch \subseteq Nat
  /\ DOMAIN Known \subseteq Timestamp /\ \A t \in DOMAIN Known : Known[t] \in Seq(Nat)
  /\ None \notin [version : Release, timestamp : Timestamp, patch : Patch]

ASSUME CandidatesAssumption ==
  \A c \in Candidates : c \in Seq(Node) /\ \A n \in Node : \E i \in DOMAIN c : c[i] = n

-----------------------------------------------------------------------------
(* The types of all variables.                                             *)
TypesOK ==
  /\ TypeOK /\ Update!TypeOK /\ Choice!TypeOK
  /\ Answers!TypeOK /\ Pxe!TypeOK /\ Cached!TypeOK

(* When the rolling update is through, no node needs anything, except      *)
(* those whose status it could not read (update-non-deployer-nodes:119).   *)
SuccessIsUpToDate == Update!SuccessIsUpToDate

(* What servers.yml says of a node that it lists is what the last run of   *)
(* add-distros that was told of the node and wrote it down chose; only a   *)
(* run stopped while it writes takes nodes off the list                    *)
(* (add-distros.py:155).                                                   *)
RecordedIsChosen == Choice!RecordedIsChosen

(* What the inventory answers for a box is what the last block for the box *)
(* says, and nothing that another block says (vagrant.py:102).             *)
AnswersFromItsBlock == Answers!AnswersFromItsBlock

(* A virsh_set_pxe_boot that succeeds leaves a domain that runs with the   *)
(* device asked for or, off or not reset, will be started with it          *)
(* (virsh_set_pxe_boot:71).                                                *)
BootsAsAsked == Pxe!BootsAsAsked

(* When get-cached-file succeeds, the link leads to an artifact with the   *)
(* checksum that the server had when this run asked (get-cached-           *)
(* file.yml:140).                                                          *)
CachedIsCurrent == Cached!CachedIsCurrent

(* A file name tells the package from the suffix, and of two builds the    *)
(* later one has the greater version, unless version.yml does not give a   *)
(* release back: 3.10 is read as 3.1 (config.py:37, version.py:65,         *)
(* version.py:96).                                                         *)
LaterIsNewer == Names!LaterIsNewer
=============================================================================
