------------------------------ MODULE Repository ------------------------------
(***************************************************************************)
(* The two programs that write the package repository: create_index and    *)
(* venv_edit.  Each has its own state here; what venv_edit does to the     *)
(* directory that create_index reads is in Indexer: WriteBegins, Copied,   *)
(* Removed.                                                                *)
(***************************************************************************)
EXTENDS Indexer

CONSTANTS
  Name, Built, Number, Cut, Unstamped, EditRequests, Runs, EditFaults
  \* see VenvEdit

VARIABLES apart, repo, dir, installed, unclean, now, at, req, name, result, ended, faults

Edit == INSTANCE VenvEdit WITH Version <- Number, Requests <- EditRequests,
                               MaxFaults <- EditFaults, pc <- at, outcome <- ended

ASSUME EditAssumption ==
  /\ Number \subseteq Nat
  /\ Built \in [Name -> Edit!Meta \cup {Unstamped, None}]
  /\ EditRequests \subseteq Edit!Request
  /\ Runs \in Nat /\ EditFaults \in Nat

ASSUME AbsentAssumption ==
  /\ None \notin Name \cup Nat \cup Edit!Dir \cup (Name \X Nat)
  /\ None \notin Edit!Meta /\ Cut \notin Edit!Meta /\ Unstamped \notin Edit!Meta
  /\ None # Cut /\ Unstamped \notin {None, Cut}

-----------------------------------------------------------------------------
(* The types of both programs' variables.                                  *)
TypesOK == TypeOK /\ Edit!TypeOK

(* The edit of the newest stamped tarball of a package is newer than every *)
(* other, so that an upgrade takes it (venv_edit.py:235).                  *)
EditOfNewestIsNewest == Edit!EditOfNewestIsNewest

(* venv_edit leaves nothing where install_package would find it, unless it *)
(* was killed or its rmtree raised, and then it does not report success    *)
(* (venv_edit.py:320).                                                     *)
ScratchIsRemoved == Edit!ScratchIsRemoved

(* Where venv_edit does not run beside install_package, a tarball whose    *)
(* edit reported success is installed whole: explode takes no scratch      *)
(* directory of it for the unpacked tarball (expand.py:86).                *)
InstalledIsWhole == Edit!InstalledIsWhole
=============================================================================
