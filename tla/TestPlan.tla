------------------------------ MODULE TestPlan ------------------------------
(***************************************************************************)
(* exec-test-plan.py: a plan of VM operations and of commands that run on  *)
(* the deployer, over a connection made when the program starts.  `virsh   *)
(* reboot` and `virsh shutdown` only ask the guest: it goes down later,    *)
(* and answers ssh until then.                                             *)
(***************************************************************************)
EXTENDS Naturals, SequencesExt

CONSTANTS
  VM, Deployer,  \* Deployer \in VM
  Plans,         \* plans: sequences of tests, see Test below
  MaxRetry       \* max_retry of _wait_for_vms_to_start

VARIABLES
  power,   \* "up", "rebooting", "stopping", "off" or "booting"
  boot,    \* boot[v]: how many times v was started
  client,  \* the boot of the deployer that self.client is connected to
  todo,    \* the operations that remain, as <<what, vm>>
  tries,
  outcome,
  early    \* VMs whose wait ended before they had gone down

vars == <<power, boot, client, todo, tries, outcome, early>>

VmGroup == [reboot : Seq(VM), shutdown : Seq(VM), start : Seq(VM)]
Test == [vms : Seq(VmGroup), remote : BOOLEAN, local : BOOLEAN, tempest : BOOLEAN]
ASSUME PlanAssumption ==
  /\ Deployer \in VM /\ MaxRetry \in Nat
  /\ Plans \subseteq Seq(Test)

(* A test is [vms, remote, local, tempest]: its VM operations, each        *)
(* [reboot, shutdown, start] of sequences of VMs; whether it has playbooks,*)
(* executables or tests; local commands; tempest filters.  The order that  *)
(* main runs them in:                                                      *)
Each(what, vms) == [i \in DOMAIN vms |-> <<what, vms[i]>>]
Reboot(vms) == Each("reboot", vms) \o Each("wait", vms)
StartAll(vms) == Each("start", vms) \o Each("wait", vms)
VmOperations(vm) ==
  Reboot(vm.reboot) \o Each("shutdown", vm.shutdown) \o StartAll(vm.start)
When(condition, what) == IF condition THEN <<<<what, Deployer>>>> ELSE <<>>
Operations(test) ==
  FlattenSeq([i \in DOMAIN test.vms |-> VmOperations(test.vms[i])])
    \o When(test.remote, "remote") \o When(test.local, "local")
    \o When(test.tempest, "remote")

Init ==
  /\ power \in {p \in [VM -> {"up", "off"}] : p[Deployer] = "up"}
  /\ boot = [v \in VM |-> 1]
  /\ client = boot[Deployer]
  /\ todo \in {FlattenSeq([i \in DOMAIN plan |-> Operations(plan[i])]) : plan \in Plans}
  /\ tries = 0
  /\ outcome = "running"
  /\ early = {}

-----------------------------------------------------------------------------
Doing(what, v) == outcome = "running" /\ todo # <<>> /\ Head(todo) = <<what, v>>
Done == todo' = Tail(todo) /\ tries' = 0
(* An exception leaves main.                                               *)
Abort == outcome' = "failed" /\ UNCHANGED <<power, boot, client, todo, tries, early>>

Running(v) == power[v] # "off"

(* run_virsh_command: a status other than 0 raises an exception.           *)
VirshReboot(v) ==
  /\ Doing("reboot", v) /\ Running(v)
  /\ power' = [power EXCEPT ![v] = IF @ = "up" THEN "rebooting" ELSE @]
  /\ Done
  /\ UNCHANGED <<boot, client, outcome, early>>

VirshShutdown(v) ==
  /\ Doing("shutdown", v) /\ Running(v)
  /\ power' = [power EXCEPT ![v] = IF @ \in {"up", "rebooting"} THEN "stopping" ELSE @]
  /\ Done
  /\ UNCHANGED <<boot, client, outcome, early>>

(* It looks for minimal-vagrant_<vm>, which never runs, and starts         *)
(* project-vagrant_<vm>.                                                   *)
VirshStart(v) ==
  /\ Doing("start", v) /\ ~Running(v)
  /\ power' = [power EXCEPT ![v] = "booting"]
  /\ boot' = [boot EXCEPT ![v] = @ + 1]
  /\ Done
  /\ UNCHANGED <<client, outcome, early>>

VirshFails(v) ==
  /\ \/ Doing("reboot", v) /\ ~Running(v)
     \/ Doing("shutdown", v) /\ ~Running(v)
     \/ Doing("start", v) /\ Running(v)
  /\ Abort

SlipConnect(v) ==
  /\ Doing("wait", v)
  /\ power[v] \in {"up", "rebooting", "stopping"}
  /\ early' = IF power[v] = "up" THEN early ELSE early \cup {v}
  /\ Done
  /\ UNCHANGED <<power, boot, client, outcome>>

(* _wait_for_vms_to_start: the deployer's new connection is kept.          *)
Connect(v) ==
  /\ Doing("wait", v)
  /\ power[v] \in {"up", "rebooting", "stopping"}
  /\ early' = IF power[v] = "up" THEN early ELSE early \cup {v}
  /\ client' = IF v = Deployer THEN boot[v] ELSE client
  /\ Done
  /\ UNCHANGED <<power, boot, outcome>>

SlipRetry(v) ==
  /\ Doing("wait", v) /\ power[v] # "up"
  /\ UNCHANGED vars

Retry(v) ==
  /\ Doing("wait", v) /\ power[v] # "up"
  /\ tries < MaxRetry - 1
  /\ tries' = tries + 1
  /\ UNCHANGED <<power, boot, client, todo, outcome, early>>

TimeOut(v) ==
  /\ Doing("wait", v) /\ power[v] # "up"
  /\ tries >= MaxRetry - 1
  /\ Abort

(* run_on_deployer, run_tempest: the command may fail, and does when the   *)
(* connection is to a boot that is gone.                                   *)
Connected == client = boot[Deployer] /\ power[Deployer] \in {"up", "rebooting", "stopping"}
Remote ==
  /\ Doing("remote", Deployer)
  /\ \/ Connected /\ Done /\ UNCHANGED <<power, boot, client, outcome, early>>
     \/ Abort

(* run_locally.                                                            *)
Local ==
  /\ Doing("local", Deployer)
  /\ \/ Done /\ UNCHANGED <<power, boot, client, outcome, early>>
     \/ Abort

Finish ==
  /\ outcome = "running" /\ todo = <<>>
  /\ outcome' = "ok"
  /\ UNCHANGED <<power, boot, client, todo, tries, early>>

(* What a guest does in its own time.                                      *)
GoesDown(v) ==
  /\ \/ /\ power[v] = "rebooting"
        /\ power' = [power EXCEPT ![v] = "booting"]
        /\ boot' = [boot EXCEPT ![v] = @ + 1]
     \/ /\ power[v] = "stopping"
        /\ power' = [power EXCEPT ![v] = "off"]
        /\ UNCHANGED boot
  /\ UNCHANGED <<client, todo, tries, outcome, early>>
ComesUp(v) ==
  /\ power[v] = "booting"
  /\ power' = [power EXCEPT ![v] = "up"]
  /\ UNCHANGED <<boot, client, todo, tries, outcome, early>>

Step ==
  \/ \E v \in VM : \/ VirshReboot(v) \/ VirshShutdown(v) \/ VirshStart(v) \/ VirshFails(v)
                   \/ Connect(v) \/ Retry(v) \/ TimeOut(v)
  \/ Remote \/ Local \/ Finish
Next == Step \/ \E v \in VM : GoesDown(v) \/ ComesUp(v)

(* The program goes on; nothing is assumed of the VMs.                     *)
Fairness == WF_vars(Step)
Spec == Init /\ [][Next]_vars /\ Fairness

-----------------------------------------------------------------------------
TypeOK ==
  /\ power \in [VM -> {"up", "rebooting", "stopping", "off", "booting"}]
  /\ boot \in [VM -> Nat \ {0}] /\ client \in 1 .. boot[Deployer]
  /\ \A i \in DOMAIN todo : todo[i][2] \in VM
  /\ tries \in 0 .. MaxRetry
  /\ outcome \in {"running", "ok", "failed"} /\ early \subseteq VM

(* Commands for the deployer go to its present boot whenever it is up,     *)
(* however often the plan has rebooted, stopped and started it, unless a   *)
(* wait connected to it before it had gone down                            *)
(* (exec-test-plan.py:320).                                                *)
ClientIsCurrent ==
  Doing("remote", Deployer) /\ power[Deployer] = "up" /\ Deployer \notin early
  => client = boot[Deployer]

(* A plan ends, whatever the VMs do or do not do (exec-test-plan.py:300).  *)
PlanEnds == outcome = "running" ~> outcome # "running"

(* "waiting for %s to come back" (exec-test-plan.py:299): when the wait    *)
(* ends the VM has come back.                                              *)
WaitsForReboot == early = {}
=============================================================================
