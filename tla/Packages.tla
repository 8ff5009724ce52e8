------------------------------ MODULE Packages ------------------------------
(***************************************************************************)
(* Packages, their tarballs and their versions (version.py, config.py).    *)
(*                                                                         *)
(* A tarball <package>-<suffix>.tgz is named by the pair <<p, x>>.  Its    *)
(* version is read from META-INF/version.yml when the tarball has that     *)
(* file, and is otherwise guessed from the suffix.  Versions are compared  *)
(* component by component, a total order, so they are natural numbers      *)
(* here; a suffix is only ever compared for equality.                      *)
(***************************************************************************)
EXTENDS Naturals

CONSTANTS
  Package,   \* package names, e.g. nova
  Suffix,    \* what follows the package or service name, e.g. 20160503T082438Z
  Version,   \* the Version objects, in the order of Version.__lt__
  Stamp,     \* Stamp[p][x]: version in META-INF of tarball <<p, x>>, or None
  Guess,     \* Guess[x]: version guessed from the suffix alone
  None       \* an absent attribute, file or directory (Python's None)

ASSUME VersionAssumption == Version \subseteq Nat
ASSUME StampAssumption == Stamp \in [Package -> [Suffix -> Version \cup {None}]]
ASSUME GuessAssumption == Guess \in [Suffix -> Version]
ASSUME NoneAssumption == None \notin Package \cup Suffix \cup Version

Tarball == Package \X Suffix

(* from_tarball: the stamped version, else the guess from the file name.   *)
TarballVersion(p, x) == IF Stamp[p][x] = None THEN Guess[x] ELSE Stamp[p][x]

(* An index lists, for each package it knows, at most one tarball suffix   *)
(* per version; None stands for a package with no key in the index.        *)
Entries == UNION {[V -> Suffix] : V \in SUBSET Version}
Index == [Package -> Entries \cup {None}]

EmptyIndex == [p \in Package |-> None]

(* max(available.keys(), key=from_str), as a set: empty if nothing is      *)
(* available.                                                              *)
Newest(V) == {v \in V : \A w \in V : w <= v}
=============================================================================
