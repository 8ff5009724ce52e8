--------------------------- MODULE RepoIndexProofs ---------------------------
(***************************************************************************)
(* What create_index makes of an index, for any index and any listing of   *)
(* the directory: the lemmas about RepoIndex that the proofs about         *)
(* Packager and Indexer rest on.                                           *)
(***************************************************************************)
EXTENDS RepoIndex, TLAPS

(* An index entry maps versions to suffixes.                               *)
LEMMA EntriesType ==
  ASSUME NEW e \in Entries
  PROVE  /\ DOMAIN e \subseteq Version
         /\ \A v \in DOMAIN e : e[v] \in Suffix
<1>1. PICK V \in SUBSET Version : e \in [V -> Suffix]
  BY DEF Entries
<1>2. QED
  BY <1>1

(* The version that from_tarball finds is a version.                       *)
LEMMA TarballVersionType ==
  ASSUME NEW p \in Package, NEW x \in Suffix
  PROVE  TarballVersion(p, x) \in Version
  BY StampAssumption, GuessAssumption DEF TarballVersion

(* create_index turns an index into an index.                              *)
LEMMA ReindexedType ==
  ASSUME NEW i \in Index, NEW f
  PROVE  Reindexed(i, f) \subseteq Index
<1>1. ASSUME NEW p \in Package, NEW e \in EntriesAfter(i, f, p)
      PROVE  e \in Entries \cup {None}
  <2>1. i[p] \in Entries \cup {None}
    BY DEF Index
  <2>2. Listed(i, p) \subseteq Version
    BY <2>1, EntriesType DEF Listed
  <2> DEFINE V == Kept(i, f, p)
                    \cup {TarballVersion(p, x) : x \in Unlisted(i, f, p)}
  <2>3. V \in SUBSET Version
    BY <2>2, TarballVersionType DEF Unlisted, Kept
  <2>4. e = None \/ e \in [V -> Suffix]
    BY DEF EntriesAfter
  <2>5. QED
    BY <2>3, <2>4 DEF Entries
<1>2. QED
  BY <1>1 DEF Reindexed, Index

(* An index names every tarball under the tarball's own version.           *)
Consistent(i) ==
  \A p \in Package :
    i[p] # None => \A v \in DOMAIN i[p] : TarballVersion(p, i[p][v]) = v

LEMMA ReindexedConsistent ==
  ASSUME NEW i, Consistent(i), NEW f, NEW j \in Reindexed(i, f)
  PROVE  Consistent(j)
<1> SUFFICES ASSUME NEW p \in Package, j[p] # None, NEW v \in DOMAIN j[p]
             PROVE  TarballVersion(p, j[p][v]) = v
  BY DEF Consistent
<1> DEFINE found == Unlisted(i, f, p)
           versions == Kept(i, f, p) \cup {TarballVersion(p, x) : x \in found}
<1>1. j[p] \in EntriesAfter(i, f, p)
  BY DEF Reindexed
<1>2. /\ j[p] \in [versions -> Suffix]
      /\ \A w \in versions : j[p][w] \in Winners(i, f, p, w)
  BY <1>1 DEF EntriesAfter
<1>3. v \in versions /\ j[p][v] \in Winners(i, f, p, v)
  BY <1>2
<1> DEFINE same == {x \in found : TarballVersion(p, x) = v}
<1>4. CASE same # {}
  <2>1. j[p][v] \in same
    BY <1>3, <1>4 DEF Winners
  <2>2. QED
    BY <2>1
<1>5. CASE same = {}
  <2>1. j[p][v] = i[p][v]
    BY <1>3, <1>5 DEF Winners
  <2>2. v \in Kept(i, f, p)
    BY <1>3, <1>5
  <2>3. QED
    BY <2>1, <2>2 DEF Kept, Listed, Consistent
<1>6. QED
  BY <1>4, <1>5

(* Every tarball of the directory is listed under its version, and what is *)
(* listed is in the directory.                                             *)
LEMMA ReindexedLists ==
  ASSUME None \notin Entries,
         NEW i \in Index, Consistent(i), NEW f, NEW j \in Reindexed(i, f),
         NEW p \in Package
  PROVE  /\ \A x \in Suffix : <<p, x>> \in f => TarballVersion(p, x) \in Listed(j, p)
         /\ \A v \in Listed(j, p) : <<p, j[p][v]>> \in f
<1> DEFINE found == Unlisted(i, f, p)
           versions == Kept(i, f, p) \cup {TarballVersion(p, x) : x \in found}
<1>1. j[p] \in EntriesAfter(i, f, p)
  BY DEF Reindexed
<1>2. i[p] \in Entries \cup {None}
  BY DEF Index
<1>3. versions \in SUBSET Version
  BY <1>2, EntriesType, TarballVersionType DEF Unlisted, Kept, Listed
<1>4. ASSUME NEW x \in Suffix, <<p, x>> \in f
      PROVE  TarballVersion(p, x) \in Listed(j, p)
  <2>1. TarballVersion(p, x) \in versions
    <3>1. CASE x \in found
      BY <3>1
    <3>2. CASE x \notin found
      <4>1. PICK v \in Listed(i, p) : i[p][v] = x
        BY <1>4, <3>2 DEF Unlisted
      <4>2. TarballVersion(p, x) = v
        BY <4>1 DEF Consistent, Listed
      <4>3. v \in Kept(i, f, p)
        BY <1>4, <4>1 DEF Kept
      <4>4. QED
        BY <4>2, <4>3
    <3>3. QED
      BY <3>1, <3>2
  <2>2. i[p] # None \/ found # {}
    <3>1. CASE Listed(i, p) = {}
      BY <1>4, <3>1 DEF Unlisted
    <3>2. CASE Listed(i, p) # {}
      BY <3>2 DEF Listed
    <3>3. QED
      BY <3>1, <3>2
  <2>3. j[p] \in [versions -> Suffix]
    BY <1>1, <2>2 DEF EntriesAfter
  <2>4. j[p] # None
    BY <1>3, <2>3 DEF Entries
  <2>5. QED
    BY <2>1, <2>3, <2>4 DEF Listed
<1>5. ASSUME NEW v \in Listed(j, p)
      PROVE  <<p, j[p][v]>> \in f
  <2>1. j[p] # None /\ v \in DOMAIN j[p]
    BY <1>5 DEF Listed
  <2>2. /\ j[p] \in [versions -> Suffix]
        /\ \A w \in versions : j[p][w] \in Winners(i, f, p, w)
    BY <1>1, <2>1 DEF EntriesAfter
  <2>3. v \in versions /\ j[p][v] \in Winners(i, f, p, v)
    BY <2>1, <2>2
  <2> DEFINE same == {x \in found : TarballVersion(p, x) = v}
  <2>4. CASE same # {}
    <3>1. j[p][v] \in same
      BY <2>3, <2>4 DEF Winners
    <3>2. QED
      BY <3>1 DEF Unlisted
  <2>5. CASE same = {}
    <3>1. j[p][v] = i[p][v]
      BY <2>3, <2>5 DEF Winners
    <3>2. v \in Kept(i, f, p)
      BY <2>3, <2>5
    <3>3. QED
      BY <3>1, <3>2 DEF Kept
  <2>6. QED
    BY <2>4, <2>5
<1>6. QED
  BY <1>4, <1>5
=============================================================================
