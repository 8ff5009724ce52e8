----------------------------- MODULE RepoIndex ------------------------------
(***************************************************************************)
(* What create_index makes of an existing index and a directory listing    *)
(* (indexer.py).  Entries whose file vanished are dropped but their        *)
(* package key stays; a file the old index does not name is opened and     *)
(* entered under its version, over any entry that version already has.     *)
(***************************************************************************)
EXTENDS Packages

(* The versions of p that an index lists.                                  *)
Listed(index, p) == IF index[p] = None THEN {} ELSE DOMAIN index[p]

(* Those whose file is still in the directory.                             *)
Kept(index, files, p) ==
  {v \in Listed(index, p) : <<p, index[p][v]>> \in files}

(* The suffixes of p that the index does not name (files_to_add).          *)
Unlisted(index, files, p) ==
  {x \in Suffix :
     <<p, x>> \in files /\ \A v \in Listed(index, p) : index[p][v] # x}

(* The suffixes version v of p may end up with: a newly found file wins,   *)
(* and among several of the same version the last of an arbitrary order.   *)
Winners(index, files, p, v) ==
  LET found == {x \in Unlisted(index, files, p) : TarballVersion(p, x) = v}
  IN  IF found # {} THEN found ELSE {index[p][v]}

(* The values create_index may write for package p.                        *)
EntriesAfter(index, files, p) ==
  LET found == Unlisted(index, files, p)
      versions == Kept(index, files, p) \cup {TarballVersion(p, x) : x \in found}
  IN  IF index[p] = None /\ found = {}
      THEN {None}
      ELSE {e \in [versions -> Suffix] :
              \A v \in versions : e[v] \in Winners(index, files, p, v)}

(* The indexes create_index may write over `index` for a directory that    *)
(* holds the tarballs `files`.                                             *)
Reindexed(index, files) ==
  {new \in [Package -> UNION {EntriesAfter(index, files, p) : p \in Package}] :
     \A p \in Package : new[p] \in EntriesAfter(index, files, p)}
=============================================================================
