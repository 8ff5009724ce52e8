----------------------------- MODULE IndexStore -----------------------------
(***************************************************************************)
(* A directory of tarballs and its index, which is replaced at once: what  *)
(* Packager assumes of the repository.                                     *)
(***************************************************************************)
EXTENDS RepoIndex

VARIABLES files, index

Init == files = {} /\ index = EmptyIndex
ChangeFiles == files' \in SUBSET Tarball /\ UNCHANGED index
Reindex == index' \in Reindexed(index, files) /\ UNCHANGED files
Spec == Init /\ [][ChangeFiles \/ Reindex]_<<files, index>>
=============================================================================
