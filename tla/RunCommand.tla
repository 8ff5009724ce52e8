----------------------------- MODULE RunCommand -----------------------------
(***************************************************************************)
(* AnsibleModule.run_command (ansible.py): a child process whose two       *)
(* output pipes are read with select, one second at most at a time.  What  *)
(* is written and read is counted in pieces of up to 9000 bytes, the size  *)
(* of a read.  The child may leave a process behind that holds the pipes   *)
(* open.  No caller in the repository sends input (data) or looks for a    *)
(* prompt.                                                                 *)
(***************************************************************************)
EXTENDS Naturals

CONSTANTS
  Capacity,  \* pieces a pipe holds
  Output     \* bound on the pieces written to one pipe

Stream == {"stdout", "stderr"}

VARIABLES
  pc,
  rpipes,   \* the pipes that have not come to their end
  rfd,      \* those that the last select found ready
  pipe,     \* pipe[s]: pieces in the pipe
  sent,     \* sent[s]: pieces the child has written
  got,      \* got[s]: pieces read
  child,    \* "none", "running" or "exited"
  closed,   \* the pipes the child has closed itself
  daemon,   \* whether a process the child left holds the pipes
  rushed,   \* the child has written something since the last select
  rc

childVars == <<pipe, sent, child, closed, daemon, rushed>>
vars == <<pc, rpipes, rfd, got, rc, childVars>>

Init ==
  /\ pc = "idle"
  /\ rpipes = {} /\ rfd = {}
  /\ pipe = [s \in Stream |-> 0]
  /\ sent = [s \in Stream |-> 0] /\ got = [s \in Stream |-> 0]
  /\ child = "none" /\ closed = {} /\ daemon = FALSE /\ rushed = FALSE
  /\ rc = "none"

AtEnd(s) == pipe[s] = 0 /\ (s \in closed \/ (child = "exited" /\ ~daemon))
Ready == {s \in rpipes : pipe[s] > 0 \/ AtEnd(s)}

(* The child and what it leaves behind.                                    *)
ChildWrites(s) ==
  /\ child = "running" /\ s \notin closed
  /\ sent[s] < Output /\ pipe[s] < Capacity
  /\ sent' = [sent EXCEPT ![s] = @ + 1]
  /\ pipe' = [pipe EXCEPT ![s] = @ + 1]
  /\ rushed' = TRUE
  /\ UNCHANGED <<pc, rpipes, rfd, got, child, closed, daemon, rc>>

ChildCloses(s) ==
  /\ child = "running"
  /\ closed' = closed \cup {s}
  /\ UNCHANGED <<pc, rpipes, rfd, pipe, sent, got, child, daemon, rushed, rc>>

ChildExits(leaves) ==
  /\ child = "running"
  /\ child' = "exited" /\ daemon' = leaves
  /\ UNCHANGED <<pc, rpipes, rfd, pipe, sent, got, closed, rushed, rc>>

(* Popen; a program that cannot be started ends in fail_json.              *)
Popen ==
  /\ pc \in {"idle", "done", "failed"}
  /\ pc' = "select"
  /\ rpipes' = Stream /\ rfd' = {}
  /\ pipe' = [s \in Stream |-> 0]
  /\ sent' = pipe' /\ got' = pipe'
  /\ child' = "running" /\ closed' = {} /\ daemon' = FALSE
  /\ rushed' = FALSE /\ rc' = "none"

PopenFails ==
  /\ pc \in {"idle", "done", "failed"}
  /\ pc' = "failed"
  /\ rc' = "errno"
  /\ UNCHANGED <<rpipes, rfd, got, childVars>>

(* select.select(rpipes, [], rpipes, 1): at once if something is ready,    *)
(* after a second if not.                                                  *)
Select ==
  /\ pc = "select"
  /\ rfd' = Ready
  /\ pc' = "read"
  /\ rushed' = FALSE
  /\ UNCHANGED <<rpipes, pipe, sent, got, child, closed, daemon, rc>>

SlipRead ==
  /\ pc = "read"
  /\ LET s == IF "stdout" \in rpipes THEN "stdout" ELSE "stderr"
     IN  IF s \in rfd /\ pipe[s] > 0
         THEN /\ pipe' = [pipe EXCEPT ![s] = @ - 1]
              /\ got' = [got EXCEPT ![s] = @ + 1]
              /\ UNCHANGED rpipes
         ELSE /\ rpipes' = rpipes \ (rfd \cap {s})
              /\ UNCHANGED <<pipe, got>>
  /\ pc' = "poll"
  /\ UNCHANGED <<rfd, sent, child, closed, daemon, rushed, rc>>

(* One os.read of each pipe that was ready; an empty one ends it.          *)
Read ==
  /\ pc = "read"
  /\ pipe' = [s \in Stream |-> IF s \in rfd /\ pipe[s] > 0 THEN pipe[s] - 1 ELSE pipe[s]]
  /\ got' = [s \in Stream |-> IF s \in rfd /\ pipe[s] > 0 THEN got[s] + 1 ELSE got[s]]
  /\ rpipes' = {s \in rpipes : s \in rfd => pipe[s] > 0}
  /\ pc' = "poll"
  /\ UNCHANGED <<rfd, sent, child, closed, daemon, rushed, rc>>

SlipPoll ==
  /\ pc = "poll"
  /\ pc' = IF child = "exited" THEN "done" ELSE "again"
  /\ rc' = IF pc' = "done" THEN "exited" ELSE rc
  /\ UNCHANGED <<rpipes, rfd, got, childVars>>

(* if (not rpipes or not rfd) and cmd.poll() is not None: break            *)
Poll ==
  /\ pc = "poll"
  /\ pc' = IF (rpipes = {} \/ rfd = {}) /\ child = "exited" THEN "done" ELSE "again"
  /\ rc' = IF pc' = "done" THEN "exited" ELSE rc
  /\ UNCHANGED <<rpipes, rfd, got, childVars>>

(* elif not rpipes and cmd.poll() is None: wait; the child may have exited *)
(* since, and then there is another round.                                 *)
PollAgain ==
  /\ pc = "again"
  /\ pc' = IF rpipes = {} /\ child = "running" THEN "wait" ELSE "select"
  /\ UNCHANGED <<rpipes, rfd, got, rc, childVars>>

Wait ==
  /\ pc = "wait"
  /\ child = "exited"
  /\ pc' = "done"
  /\ rc' = "exited"
  /\ UNCHANGED <<rpipes, rfd, got, childVars>>

Step == Select \/ Read \/ Poll \/ PollAgain \/ Wait
Child == \E s \in Stream : ChildWrites(s) \/ ChildCloses(s)
Next == Popen \/ PopenFails \/ Step \/ Child \/ \E leaves \in BOOLEAN : ChildExits(leaves)

(* run_command goes on; so does the child, as long as it is not blocked,   *)
(* and it exits when it has written everything.                            *)
ChildGoesOn ==
  \/ \E s \in Stream : ChildWrites(s)
  \/ /\ \A s \in Stream : s \in closed \/ sent[s] = Output
     /\ ChildExits(FALSE)
Fairness == WF_vars(Step) /\ WF_vars(ChildGoesOn)
Spec == Init /\ [][Next]_vars /\ Fairness

-----------------------------------------------------------------------------
TypeOK ==
  /\ pc \in {"idle", "select", "read", "poll", "again", "wait", "done", "failed"}
  /\ rfd \cup rpipes \cup closed \subseteq Stream
  /\ pipe \in [Stream -> 0 .. Capacity]
  /\ \A s \in Stream : sent[s] \in 0 .. Output /\ got[s] + pipe[s] = sent[s]

(* run_command returns without output that the child wrote only when that  *)
(* was written after the last select, or the child left a process behind   *)
(* (ansible.py:1568).                                                      *)
LosesOnlyTheLast ==
  pc = "done" /\ ~rushed => \A s \in Stream : pipe[s] = 0

(* A child that writes more than the pipes hold, to both of them in any    *)
(* order, is never blocked for good, and run_command returns; that a       *)
(* process left behind keeps the pipes open does not hold it up.           *)
CommandReturns == pc = "select" ~> pc = "done"
=============================================================================
