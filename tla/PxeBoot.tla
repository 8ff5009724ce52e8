------------------------------- MODULE PxeBoot -------------------------------
(***************************************************************************)
(* virsh_set_pxe_boot: which device a libvirt domain boots from.  libvirt  *)
(* keeps a stored definition and, for a domain that runs, the one it was   *)
(* started with; the module reads the latter when there is one, and writes *)
(* the former.  A definition is the set of its boot elements: "os" for the *)
(* disk, "net2" for the third network interface.                           *)
(***************************************************************************)
EXTENDS Naturals

CONSTANTS
  Off,        \* nothing runs
  MaxFaults

VARIABLES
  stored, live,     \* the definitions; live is Off when nothing runs
  pc,
  want, reset,      \* the request
  seen, changed, outcome, faults

vars == <<stored, live, pc, want, reset, seen, changed, outcome, faults>>

Definition == SUBSET {"os", "net2"}

Init ==
  /\ stored \in Definition
  /\ live \in {stored, Off}
  /\ pc = "idle"
  /\ want = {} /\ reset = FALSE
  /\ seen = {} /\ changed = FALSE
  /\ outcome = "none" /\ faults = 0

Start(pxe, r) ==
  /\ pc = "idle"
  /\ want' = IF pxe THEN {"net2"} ELSE {"os"}
  /\ reset' = r
  /\ outcome' = "running"
  /\ pc' = "read"
  /\ UNCHANGED <<stored, live, seen, changed, faults>>

SlipRead ==
  /\ pc = "read"
  /\ seen' = stored
  /\ pc' = "set"
  /\ UNCHANGED <<stored, live, want, reset, changed, outcome, faults>>

(* XMLDesc.                                                                *)
Read ==
  /\ pc = "read"
  /\ seen' = IF live = Off THEN stored ELSE live
  /\ pc' = "set"
  /\ UNCHANGED <<stored, live, want, reset, changed, outcome, faults>>

(* set_pxe_boot, set_hd_boot and commit.                                   *)
Commit ==
  /\ pc = "set"
  /\ changed' = (seen # want)
  /\ stored' = IF changed' THEN want ELSE stored
  /\ pc' = IF reset /\ changed' THEN "destroy" ELSE "exit"
  /\ UNCHANGED <<live, want, reset, seen, outcome, faults>>

(* reset_instance                                                          *)
Destroy ==
  /\ pc = "destroy"
  /\ live' = Off
  /\ pc' = "create"
  /\ UNCHANGED <<stored, want, reset, seen, changed, outcome, faults>>

Create ==
  /\ pc = "create"
  /\ live = Off
  /\ live' = stored
  /\ pc' = "exit"
  /\ UNCHANGED <<stored, want, reset, seen, changed, outcome, faults>>

Exit ==
  /\ pc = "exit"
  /\ outcome' = "ok"
  /\ pc' = "idle"
  /\ UNCHANGED <<stored, live, want, reset, seen, changed, faults>>

(* libvirt raises an exception, or the module is killed.                   *)
Fail ==
  /\ pc \in {"read", "set", "destroy", "create"}
  /\ faults < MaxFaults
  /\ faults' = faults + 1
  /\ outcome' = "failed"
  /\ pc' = "idle"
  /\ UNCHANGED <<stored, live, want, reset, seen, changed>>

(* Between two runs, the domain goes off or is started.                    *)
Power ==
  /\ pc = "idle"
  /\ live' = IF live = Off THEN stored ELSE Off
  /\ outcome' = "none"
  /\ UNCHANGED <<stored, pc, want, reset, seen, changed, faults>>

Next ==
  \/ \E pxe, r \in BOOLEAN : Start(pxe, r)
  \/ Read \/ Commit \/ Destroy \/ Create \/ Exit \/ Fail \/ Power

Spec == Init /\ [][Next]_vars

-----------------------------------------------------------------------------
TypeOK ==
  /\ {stored, want, seen} \subseteq Definition
  /\ live \in Definition \cup {Off}
  /\ pc \in {"idle", "read", "set", "destroy", "create", "exit"}
  /\ reset \in BOOLEAN /\ changed \in BOOLEAN
  /\ outcome \in {"none", "running", "ok", "failed"} /\ faults \in 0 .. MaxFaults

(* When a run succeeds, a domain that is off will boot from the device     *)
(* asked for, and one that runs was booted from it, or, of a run that does *)
(* not reset, will be at its next start: also when an earlier run stored   *)
(* another definition without a reset, or failed between two calls.        *)
(* Nothing is said of the definition stored for a domain that already runs *)
(* as asked: the run does not look at it, and one left by a run without a  *)
(* reset stays for the next start (virsh_set_pxe_boot:71).                 *)
BootsAsAsked ==
  outcome = "ok" =>
    IF live = Off THEN stored = want
    ELSE live = want \/ (~reset /\ stored = want)
=============================================================================
