---------------------------- MODULE RollingUpdate ----------------------------
(***************************************************************************)
(* update-non-deployer-nodes: the nodes are updated one after the other.   *)
(* What a node still needs is asked with ardana-update-status.yml, whose   *)
(* output names the playbooks to run.                                      *)
(***************************************************************************)
EXTENDS Naturals, Sequences, FiniteSets

CONSTANTS
  Node,
  Candidates   \* candidate_nodes: lists that name every node, some several times

VARIABLES
  needs,    \* needs[n] \subseteq {"pkgs", "update", "reboot"}
  nodes,    \* those that remain, in order
  actions,  \* what is still to be done for the first of them
  outcome,
  lost      \* nodes of which a query has failed

vars == <<needs, nodes, actions, outcome, lost>>

(* entry_in: the first mention of a node counts.                           *)
Uniq(s) ==
  LET first == {i \in DOMAIN s : \A j \in 1 .. i - 1 : s[j] # s[i]}
      upTo(i) == Cardinality(first \cap 1 .. i)
  IN  [k \in 1 .. Cardinality(first) |-> s[CHOOSE i \in first : upTo(i) = k]]

SlipActions == <<"pkgs", "reboot", "update">>

(* for action in update reboot, after update-pkgs.                         *)
Actions == <<"pkgs", "update", "reboot">>

Init ==
  /\ needs \in [Node -> SUBSET {"pkgs", "update", "reboot"}]
  /\ nodes \in {Uniq(c) : c \in Candidates}
  /\ actions = Actions
  /\ outcome = "running"
  /\ lost = {}

Doing(what) == outcome = "running" /\ nodes # <<>> /\ actions # <<>> /\ Head(actions) = what

(* A new version of packages may call for an update and a reboot, and an   *)
(* update for a reboot.                                                    *)
Creates(what) ==
  CASE what = "pkgs" -> SUBSET {"update", "reboot"}
    [] what = "update" -> SUBSET {"reboot"}
    [] what = "reboot" -> {{}}

(* node_run_playbook: what the node needed is done.                        *)
Play(what) ==
  /\ actions' = Tail(actions)
  /\ \E more \in Creates(what) :
       needs' = [needs EXCEPT ![Head(nodes)] =
         (@ \ {what}) \cup (IF what \in @ THEN more ELSE {})]
  /\ UNCHANGED <<nodes, outcome, lost>>

UpdatePkgs == Doing("pkgs") /\ Play("pkgs")

(* node_update_needs_playbook                                              *)
RunPlaybook(what) ==
  /\ Doing(what) /\ what \in needs[Head(nodes)]
  /\ Play(what)

NotNeeded(what) ==
  /\ Doing(what) /\ what \notin needs[Head(nodes)]
  /\ actions' = Tail(actions)
  /\ UNCHANGED <<needs, nodes, outcome, lost>>

(* The query is the condition of an if: when it fails, or when grep ends   *)
(* before it has written its output (pipefail), nothing is run.            *)
QueryFails(what) ==
  /\ Doing(what)
  /\ actions' = Tail(actions)
  /\ lost' = lost \cup {Head(nodes)}
  /\ UNCHANGED <<needs, nodes, outcome>>

(* Any other playbook that fails ends the script.                          *)
PlaybookFails ==
  /\ outcome = "running" /\ nodes # <<>> /\ actions # <<>>
  /\ Head(actions) \in {"pkgs"} \cup needs[Head(nodes)]
  /\ outcome' = "failed"
  /\ UNCHANGED <<needs, nodes, actions, lost>>

NextNode ==
  /\ outcome = "running" /\ nodes # <<>> /\ actions = <<>>
  /\ nodes' = Tail(nodes)
  /\ actions' = Actions
  /\ UNCHANGED <<needs, outcome, lost>>

Finish ==
  /\ outcome = "running" /\ nodes = <<>>
  /\ outcome' = "ok"
  /\ UNCHANGED <<needs, nodes, actions, lost>>

Next ==
  \/ UpdatePkgs
  \/ \E what \in {"update", "reboot"} : RunPlaybook(what) \/ NotNeeded(what) \/ QueryFails(what)
  \/ PlaybookFails \/ NextNode \/ Finish

Spec == Init /\ [][Next]_vars

-----------------------------------------------------------------------------
TypeOK ==
  /\ needs \in [Node -> SUBSET {"pkgs", "update", "reboot"}]
  /\ nodes \in Seq(Node)
  /\ outcome \in {"running", "ok", "failed"}
  /\ lost \subseteq Node

(* When the script has gone through all nodes, none of those it listed     *)
(* needs anything, the reboot that its own update called for included,     *)
(* except the ones of which it could not read the status                   *)
(* (update-non-deployer-nodes:119).                                        *)
SuccessIsUpToDate == outcome = "ok" => \A n \in Node \ lost : needs[n] = {}
=============================================================================
