-------------------------------- MODULE MCLab --------------------------------
(* Lab for TLC: the initial state says which of the programs runs.         *)
EXTENDS Lab, TLC

CONSTANTS v1, v2, r1, nova, api, dotted

VARIABLE program

(* Plans that reboot the deployer, stop and start it, alone and with       *)
(* another VM, and run commands in between.                                *)
Vms(reboot, shutdown, start) == [reboot |-> reboot, shutdown |-> shutdown, start |-> start]
PlayTest(vms) == [vms |-> vms, remote |-> TRUE, local |-> TRUE, tempest |-> FALSE]
MCPlans ==
  {<<PlayTest(<<Vms(<<v1, v2>>, <<>>, <<>>)>>), PlayTest(<<Vms(<<v1>>, <<v2>>, <<v2>>)>>)>>,
   <<PlayTest(<<Vms(<<>>, <<v1, v2>>, <<>>)>>),
     [PlayTest(<<Vms(<<v2>>, <<>>, <<>>), Vms(<<>>, <<>>, <<v1>>)>>) EXCEPT !.tempest = TRUE]>>,
   <<PlayTest(<<Vms(<<>>, <<v1>>, <<>>), Vms(<<v2>>, <<>>, <<v1>>)>>)>>}

MCRole == v1 :> {"control"} @@ v2 :> {"control", "compute"}
MCPlace == v1 :> 1 @@ v2 :> 2
MCKnown == 1 :> <<2, 1, 0>>
MCCandidates == {<<v1, v2, v1>>, <<v2, v2, v1>>}
MCPackage == {<<nova>>, <<nova, Ardana>>, <<nova, api>>}
MCRelease == {<<3, 2>>, <<3, 10>>, <<3, 12>>, <<3, 10, 1>>}

updateVars == <<needs, nodes, actions, uoutcome, lost>>
distroVars == <<file, data, dirty, dpc, req, doutcome, killed, cut, chosen>>
inventoryVars == <<lines, next, box, config, asked, ioutcome>>
pxeVars == <<stored, live, ppc, want, reset, seen, changed, poutcome, pfaults>>
cachedVars == <<sum, served, sha256, cfile, tmp, link, cpc, cwant, valid, ctries,
                coutcome, cfaults>>

Programs == {"exec-test-plan", "update-nodes", "add-distros", "inventory",
             "virsh_set_pxe_boot", "get-cached-file", "versions"}
(* A program that does not run has one initial state.                      *)
MCInit ==
  /\ program \in Programs
  /\ IF program = "exec-test-plan" THEN Init
     ELSE /\ power = [v \in VM |-> "up"] /\ boot = [v \in VM |-> 1] /\ client = 1
          /\ todo = <<>> /\ tries = 0 /\ outcome = "ok" /\ early = {}
  /\ Update!Init
  /\ program # "update-nodes" => nodes = <<v1, v2>> /\ needs = [n \in {v1, v2} |-> {}]
  /\ Choice!Init
  /\ program # "add-distros" => file.distro = [n \in {v1, v2} |-> None]
  /\ IF program = "inventory" THEN Answers!Init
     ELSE /\ lines = <<>> /\ next = 1 /\ box = None /\ config = <<>>
          /\ asked = v1 /\ ioutcome = "reading"
  /\ Pxe!Init
  /\ program # "virsh_set_pxe_boot" => stored = {} /\ live = Off
  /\ Cached!Init
  /\ program # "get-cached-file" => sum = r1 /\ served = r1 /\ link = "absent"
  /\ IF program = "versions" THEN Names!Init
     ELSE one = [package |-> <<nova>>, suffix |-> <<1>>, meta |-> None] /\ other = one

labVars == <<updateVars, distroVars, inventoryVars, pxeVars, cachedVars, one, other>>
MCNext ==
  /\ UNCHANGED <<program, one, other>>
  /\ \/ /\ program = "exec-test-plan" /\ Next
        /\ UNCHANGED labVars
     \/ /\ program = "update-nodes" /\ Update!Next
        /\ UNCHANGED <<vars, distroVars, inventoryVars, pxeVars, cachedVars>>
     \/ /\ program = "add-distros" /\ Choice!Next
        /\ UNCHANGED <<vars, updateVars, inventoryVars, pxeVars, cachedVars>>
     \/ /\ program = "inventory" /\ Answers!Next
        /\ UNCHANGED <<vars, updateVars, distroVars, pxeVars, cachedVars>>
     \/ /\ program = "virsh_set_pxe_boot" /\ Pxe!Next
        /\ UNCHANGED <<vars, updateVars, distroVars, inventoryVars, cachedVars>>
     \/ /\ program = "get-cached-file" /\ Cached!Next
        /\ UNCHANGED <<vars, updateVars, distroVars, inventoryVars, pxeVars>>

MCSpec == MCInit /\ [][MCNext]_<<program, vars, labVars>> /\ Fairness
=============================================================================
