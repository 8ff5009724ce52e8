----------------------------- MODULE MCRepository -----------------------------
(* Repository for TLC: the initial state says which of the programs runs.  *)
EXTENDS Repository, TLC

CONSTANTS x1, x2, x3, n1, n2

VARIABLE program

(* Three builds: the second a rebuild of the version of the first, the     *)
(* third not stamped.                                                      *)
Builds == [p \in Package |-> (x1 :> 1 @@ x2 :> 1 @@ x3 :> None)]
MCGuess == [x \in Suffix |-> 3]

(* A stamped tarball and one without META-INF.                             *)
MCBuilt == n1 :> [version |-> 4, timestamp |-> 0, patch |-> None] @@ n2 :> Unstamped
Asked(n, src, dest, patch) ==
  [name |-> n, src |-> src, dest |-> dest, version |-> 4, patch |-> patch]
MCEditRequests ==
  {Asked(None, <<n1, x>>, FALSE, None) : x \in 0 .. 2}
    \cup {Asked(n2, <<n1, x>>, TRUE, None) : x \in 0 .. 1}
    \cup {Asked(n2, <<n1, 1>>, FALSE, 2), Asked(n1, <<n1, 0>>, FALSE, 2),
          Asked(None, <<n2, 0>>, FALSE, None), Asked(None, <<n2, 1>>, FALSE, None),
          Asked(n2, None, TRUE, None), Asked(None, None, TRUE, None),
          Asked(n1, None, FALSE, 2), Asked(n1, None, TRUE, 2)}

editVars == <<apart, repo, dir, installed, unclean, now, at, req, name, result, ended,
              faults>>

(* What only tells the runs of the other program apart is fixed.           *)
MCInit ==
  /\ program \in {"create_index", "venv_edit"}
  /\ Init /\ (program = "venv_edit" => alone)
  /\ Edit!Init /\ (program = "create_index" => apart)
MCNext ==
  \/ program = "create_index" /\ Next /\ UNCHANGED <<program, editVars>>
  \/ program = "venv_edit" /\ Edit!Next /\ UNCHANGED <<program, vars>>
MCSpec == MCInit /\ [][MCNext]_<<program, vars, editVars>>
=============================================================================
