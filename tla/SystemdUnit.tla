----------------------------- MODULE SystemdUnit -----------------------------
(***************************************************************************)
(* setup_systemd (setup_systemd.py): one unit file, what systemd has       *)
(* loaded of it, and the process that runs.  The playbook restarts the     *)
(* service when the module reports a change, and a playbook that failed is *)
(* run again.  The text of a unit is one of the values of Unit.  `enable`  *)
(* reaches the module as text, never as a bool (ModuleArguments), so that  *)
(* the branch that enables a unit is not taken.                            *)
(***************************************************************************)
EXTENDS Naturals

CONSTANTS
  Unit,        \* the texts of a unit that a request may come to
  None, Torn,  \* no file, nothing loaded or running; a file cut short
  MaxFaults

ASSUME UnitAssumption == {None, Torn} \cap Unit = {} /\ None # Torn
ASSUME FaultsAssumption == MaxFaults \in Nat

VARIABLES
  file,      \* /etc/systemd/system/<name>.service
  loaded,    \* the unit that systemd has in memory
  running,   \* the unit the process was started from
  pc,
  want,      \* the text of this request
  changed,   \* what the module found, and reports if it succeeds
  outcome,
  handler,   \* the playbook has still to restart the service
  faults

vars == <<file, loaded, running, pc, want, changed, outcome, handler, faults>>

Init ==
  /\ file = None /\ loaded = None /\ running = None
  /\ pc = "idle"
  /\ want = None
  /\ changed = FALSE
  /\ outcome = "none"
  /\ handler = FALSE
  /\ faults = 0

(* The text that the parameters come to.                                   *)
WriteSystemd(u) == want' = u

(* main up to the call of file_write_check.                                *)
Start(u) ==
  /\ pc = "idle" /\ ~handler
  /\ pc' = "check"
  /\ WriteSystemd(u)
  /\ changed' = FALSE
  /\ outcome' = "running"
  /\ UNCHANGED <<file, loaded, running, handler, faults>>

(* file_write_check: a unit that is as wanted is left alone ...            *)
Unchanged ==
  /\ pc = "check"
  /\ file = want
  /\ pc' = "reload"
  /\ UNCHANGED <<file, loaded, running, want, changed, outcome, handler, faults>>

SlipOpenUnit ==
  /\ pc = "check"
  /\ file # want
  /\ file' = Torn
  /\ changed' = TRUE
  /\ pc' = "reload"
  /\ UNCHANGED <<loaded, running, want, outcome, handler, faults>>

(* ... any other is truncated and written.                                 *)
OpenUnit ==
  /\ pc = "check"
  /\ file # want
  /\ file' = Torn
  /\ pc' = "write"
  /\ UNCHANGED <<loaded, running, want, changed, outcome, handler, faults>>

SlipWriteUnit ==
  /\ pc = "write"
  /\ file' = want
  /\ changed' = (loaded = None)
  /\ pc' = "reload"
  /\ UNCHANGED <<loaded, running, want, outcome, handler, faults>>

WriteUnit ==
  /\ pc = "write"
  /\ file' = want
  /\ changed' = TRUE
  /\ pc' = "reload"
  /\ UNCHANGED <<loaded, running, want, outcome, handler, faults>>

SlipDaemonReload ==
  /\ pc = "reload"
  /\ loaded' = IF changed THEN file ELSE loaded
  /\ pc' = "exit"
  /\ UNCHANGED <<file, running, want, changed, outcome, handler, faults>>

(* systemctl daemon-reload, whether or not the unit has changed.           *)
DaemonReload ==
  /\ pc = "reload"
  /\ loaded' = file
  /\ pc' = "exit"
  /\ UNCHANGED <<file, running, want, changed, outcome, handler, faults>>

(* exit_json; the playbook notes the restart.                              *)
Exit ==
  /\ pc = "exit"
  /\ pc' = "idle"
  /\ outcome' = "ok"
  /\ handler' = changed
  /\ UNCHANGED <<file, loaded, running, want, changed, faults>>

(* The write fails, or daemon-reload returns an error: fail_json.          *)
Fail ==
  /\ pc \in {"check", "write", "reload"}
  /\ faults < MaxFaults
  /\ faults' = faults + 1
  /\ pc' = "idle"
  /\ outcome' = "failed"
  /\ UNCHANGED <<file, loaded, running, want, changed, handler>>

(* The process, or the playbook before its handlers, is stopped.           *)
Kill ==
  /\ pc # "idle" \/ handler
  /\ faults < MaxFaults
  /\ faults' = faults + 1
  /\ pc' = "idle"
  /\ outcome' = "killed"
  /\ handler' = FALSE
  /\ UNCHANGED <<file, loaded, running, want, changed>>

(* The playbook: restart on change, and start what does not run.           *)
Restart ==
  /\ pc = "idle" /\ outcome = "ok"
  /\ handler \/ running = None
  /\ running' = loaded
  /\ handler' = FALSE
  /\ UNCHANGED <<file, loaded, pc, want, changed, outcome, faults>>

Next ==
  \/ \E u \in Unit : Start(u)
  \/ Unchanged \/ OpenUnit \/ WriteUnit \/ DaemonReload \/ Exit
  \/ Fail \/ Kill \/ Restart

Spec == Init /\ [][Next]_vars

-----------------------------------------------------------------------------
TypeOK ==
  /\ {file, loaded} \subseteq Unit \cup {None, Torn}
  /\ running \in Unit \cup {None}
  /\ pc \in {"idle", "check", "write", "reload", "exit"}
  /\ want \in Unit \cup {None}
  /\ changed \in BOOLEAN /\ handler \in BOOLEAN
  /\ outcome \in {"none", "running", "ok", "failed", "killed"}
  /\ faults \in 0 .. MaxFaults

(* Whatever earlier runs left half done, a run that succeeds leaves the    *)
(* unit that was asked for on the disk and in systemd's memory: the reload *)
(* does not depend on whether this run wrote the file                      *)
(* (setup_systemd.py:133).                                                 *)
SuccessIsLoaded ==
  outcome = "ok" /\ pc = "idle" => file = want /\ loaded = want

(* The service runs the unit that was asked for once the restart that a    *)
(* change calls for is done, as long as nothing has failed.  After a       *)
(* failed reload it need not: the retry finds the file as wanted and       *)
(* reports no change.                                                      *)
RunsWhatIsLoaded ==
  /\ outcome = "ok" /\ pc = "idle" /\ ~handler
  /\ running # None /\ faults = 0
  => running = want
=============================================================================
