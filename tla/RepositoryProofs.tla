-------------------------- MODULE RepositoryProofs --------------------------
(***************************************************************************)
(* Proofs about create_index and venv_edit, for any packages, any requests *)
(* and any number of invocations and kills.                                *)
(***************************************************************************)
EXTENDS Repository, RepoIndexProofs

-----------------------------------------------------------------------------
(* create_index *)

(* The index file, when it loads, and the index that was loaded name every *)
(* tarball under its own version.                                          *)
Truthful ==
  /\ Consistent(old)
  /\ indexFile \notin {None, Torn} => Consistent(indexFile)

(* Where nothing changes the directory, its listing stays what it holds.   *)
ListingIsCurrent ==
  (quiet \/ alone) /\ pc \in {"open", "write"} => seen = Present

IndexInv == TypeOK /\ Truthful /\ ListingIsCurrent /\ IndexesTheDirectory

LEMMA EmptyIndexType == EmptyIndex \in Index /\ Consistent(EmptyIndex)
BY DEF EmptyIndex, Index, Consistent

(* What a killed run wrote of an index is an index.                        *)
LEMMA PieceType ==
  ASSUME NEW new \in Index, Consistent(new), NEW V \in SUBSET Version, NEW piece,
         piece = [p \in Package |->
                    IF new[p] = None THEN None
                    ELSE [v \in V \cap DOMAIN new[p] |-> new[p][v]]]
  PROVE  piece \in Index /\ Consistent(piece)
<1>1. ASSUME NEW p \in Package, new[p] # None
      PROVE  /\ piece[p] \in Entries
             /\ DOMAIN piece[p] \subseteq DOMAIN new[p]
             /\ \A v \in DOMAIN piece[p] : piece[p][v] = new[p][v]
  <2>1. new[p] \in Entries
    BY <1>1 DEF Index
  <2>2. /\ DOMAIN new[p] \subseteq Version
        /\ \A v \in DOMAIN new[p] : new[p][v] \in Suffix
    BY <2>1, EntriesType
  <2> DEFINE D == V \cap DOMAIN new[p]
  <2>3. piece[p] = [v \in D |-> new[p][v]]
    BY <1>1
  <2>4. D \in SUBSET Version /\ piece[p] \in [D -> Suffix]
    BY <2>2, <2>3
  <2>5. QED
    BY <2>3, <2>4 DEF Entries
<1>2. ASSUME NEW p \in Package, new[p] = None
      PROVE  piece[p] = None
  BY <1>2
<1>3. piece \in Index
  <2>1. \A p \in Package : piece[p] \in Entries \cup {None}
    BY <1>1, <1>2
  <2>2. QED
    BY <2>1 DEF Index
<1>4. Consistent(piece)
  BY <1>1, <1>2 DEF Consistent
<1>5. QED
  BY <1>3, <1>4

LEMMA IndexInit == Init => IndexInv
<1> SUFFICES ASSUME Init PROVE IndexInv
  OBVIOUS
<1>1. TypeOK
  <2>1. files \in [Tarball -> {"none", "cut", "whole"}] /\ kills \in 0 .. Kills
    BY IndexerAssumption DEF Init
  <2>2. QED
    BY <2>1, EmptyIndexType DEF Init, TypeOK
<1>2. Truthful /\ ListingIsCurrent /\ IndexesTheDirectory
  BY EmptyIndexType DEF Init, Truthful, ListingIsCurrent, IndexesTheDirectory
<1>3. QED
  BY <1>1, <1>2 DEF IndexInv

(* Types and the truth of the index file.                                  *)
LEMMA IndexTypeStep ==
  ASSUME TypeOK, Truthful, [Next]_vars
  PROVE  TypeOK' /\ Truthful'
<1> USE IndexerAssumption DEF TypeOK, Truthful, Consistent
<1>1. ASSUME NEW t \in Tarball, NEW state \in {"none", "cut", "whole"}, Change(t, state)
      PROVE  TypeOK' /\ Truthful'
  BY <1>1 DEF Change
<1>2. CASE Load
  BY <1>2, EmptyIndexType DEF Load
<1>3. CASE LoadFails
  BY <1>3, EmptyIndexType DEF LoadFails, End
<1>4. CASE List
  BY <1>4 DEF List, Present
<1>5. ASSUME NEW t \in Tarball, Open(t) \/ OpenVanished(t)
      PROVE  TypeOK' /\ Truthful'
  BY <1>5 DEF Open, OpenVanished
<1>6. ASSUME NEW t \in Tarball, OpenFails(t)
      PROVE  TypeOK' /\ Truthful'
  BY <1>6, EmptyIndexType DEF OpenFails, End
<1>7. CASE Truncate
  BY <1>7 DEF Truncate
<1>8. CASE Write
  <2>1. PICK new \in Reindexed(old, seen) : indexFile' = new
    BY <1>8 DEF Write
  <2>2. new \in Index /\ Consistent(new)
    BY <2>1, ReindexedType, ReindexedConsistent DEF Truthful
  <2>3. QED
    BY <1>8, <2>1, <2>2, EmptyIndexType DEF Write, End
<1>9. CASE Kill
  <2>1. indexFile' = indexFile \/ (indexFile' \in Index /\ Consistent(indexFile'))
    <3>1. CASE UNCHANGED indexFile
      BY <3>1
    <3>2. CASE \E new \in Reindexed(old, seen), V \in SUBSET Version :
                 indexFile' = [p \in Package |->
                   IF new[p] = None THEN None
                   ELSE [v \in V \cap DOMAIN new[p] |-> new[p][v]]]
      <4>1. PICK new \in Reindexed(old, seen), V \in SUBSET Version :
                 indexFile' = [p \in Package |->
                   IF new[p] = None THEN None
                   ELSE [v \in V \cap DOMAIN new[p] |-> new[p][v]]]
        BY <3>2
      <4>2. new \in Index /\ Consistent(new)
        BY <4>1, ReindexedType, ReindexedConsistent DEF Truthful
      <4>3. QED
        BY <4>1, <4>2, PieceType
    <3>3. QED
      BY <1>9, <3>1, <3>2 DEF Kill
  <2>2. /\ kills' \in 0 .. Kills /\ outcome' = "killed" /\ pc' = "idle"
        /\ old' = EmptyIndex /\ seen' = {} /\ toOpen' = {}
        /\ UNCHANGED <<alone, files, quiet>>
    BY <1>9 DEF Kill, End
  <2>3. QED
    BY <2>1, <2>2, EmptyIndexType
<1>10. CASE UNCHANGED vars
  BY <1>10 DEF vars
<1>11. QED
  BY <1>1, <1>2, <1>3, <1>4, <1>5, <1>6, <1>7, <1>8, <1>9, <1>10
  DEF Next, Step, Copied, WriteBegins, Removed

(* What is listed of the directory, and what is written of it.             *)
LEMMA IndexStep == IndexInv /\ [Next]_vars => IndexInv'
<1> SUFFICES ASSUME IndexInv, [Next]_vars
             PROVE  ListingIsCurrent' /\ IndexesTheDirectory'
  BY IndexTypeStep DEF IndexInv
<1> USE DEF IndexInv, ListingIsCurrent
<1>1. ASSUME NEW t \in Tarball, NEW state, Change(t, state)
      PROVE  ListingIsCurrent' /\ IndexesTheDirectory'
  BY <1>1 DEF Change, IndexesTheDirectory
<1>2. CASE Load \/ Truncate
  BY <1>2 DEF Load, Truncate, IndexesTheDirectory, Present
<1>3. CASE LoadFails
  BY <1>3 DEF LoadFails, End, IndexesTheDirectory
<1>4. CASE List
  BY <1>4 DEF List, IndexesTheDirectory, Present
<1>5. ASSUME NEW t \in Tarball, Open(t)
      PROVE  ListingIsCurrent' /\ IndexesTheDirectory'
  BY <1>5 DEF Open, IndexesTheDirectory, Present
<1>6. ASSUME NEW t \in Tarball, OpenVanished(t)
      PROVE  ListingIsCurrent' /\ IndexesTheDirectory'
  <2>1. t \in seen /\ t \notin Present
    BY <1>6 DEF OpenVanished, Present, TypeOK
  <2>2. ~(quiet \/ alone)
    BY <1>6, <2>1 DEF OpenVanished
  <2>3. QED
    BY <1>6, <2>2 DEF OpenVanished, IndexesTheDirectory
<1>7. ASSUME NEW t \in Tarball, OpenFails(t)
      PROVE  ListingIsCurrent' /\ IndexesTheDirectory'
  BY <1>7 DEF OpenFails, End, IndexesTheDirectory
<1>8. CASE Write
  <2>1. ListingIsCurrent'
    BY <1>8 DEF Write, End
  <2>2. SUFFICES ASSUME quiet PROVE IndexesTheDirectory'
    BY <1>8, <2>1 DEF Write, End, IndexesTheDirectory
  <2>3. seen = Present
    BY <1>8, <2>2 DEF Write
  <2>4. PICK new \in Reindexed(old, seen) : indexFile' = new
    BY <1>8 DEF Write
  <2>5. /\ new \in Index /\ Consistent(new)
        /\ \A p \in Package :
             /\ \A x \in Suffix :
                  <<p, x>> \in seen => TarballVersion(p, x) \in Listed(new, p)
             /\ \A v \in Listed(new, p) : <<p, new[p][v]>> \in seen
    BY <2>4, IndexerAssumption, ReindexedType, ReindexedConsistent, ReindexedLists
    DEF TypeOK, Truthful
  <2>6. indexFile' \notin {None, Torn} /\ Present' = Present
    BY <1>8, <2>4, <2>5, IndexerAssumption DEF Write, Present
  <2>7. \A p \in Package : Loaded(p)' = Listed(new, p)
    BY <2>4, <2>6 DEF Loaded
  <2>8. \A t \in Present' : TarballVersion(t[1], t[2]) \in Loaded(t[1])'
    BY <2>3, <2>5, <2>6, <2>7 DEF Present, Tarball
  <2>9. ASSUME NEW p \in Package, NEW v \in Loaded(p)'
        PROVE  <<p, indexFile'[p][v]>> \in Present' /\ TarballVersion(p, indexFile'[p][v]) = v
    BY <2>3, <2>4, <2>5, <2>6, <2>7, <2>9 DEF Consistent, Listed
  <2>10. QED
    BY <2>8, <2>9 DEF IndexesTheDirectory
<1>9. CASE Kill
  BY <1>9 DEF Kill, End, IndexesTheDirectory
<1>10. CASE UNCHANGED vars
  BY <1>10 DEF vars, IndexesTheDirectory, Present, Loaded
<1>11. QED
  BY <1>1, <1>2, <1>3, <1>4, <1>5, <1>6, <1>7, <1>8, <1>9, <1>10
  DEF Next, Step, Copied, WriteBegins, Removed

LEMMA IndexInvariant == Spec => []IndexInv
BY IndexInit, IndexStep, PTL DEF Spec

(* However create_index was interrupted before, once it succeeds in a      *)
(* directory that did not change meanwhile, the index is the directory's.  *)
THEOREM DirectoryIsIndexed == Spec => []IndexesTheDirectory
<1>1. IndexInv => IndexesTheDirectory
  BY DEF IndexInv
<1>2. QED
  BY <1>1, IndexInvariant, PTL

(* The index that is loaded is the one in the file, until the file is      *)
(* truncated.                                                              *)
OldIsInTheFile ==
  /\ alone /\ pc \in {"list", "open"} =>
       old = IF indexFile = None THEN EmptyIndex ELSE indexFile
  /\ pc = "write" => indexFile = Torn

LEMMA OldStep ==
  ASSUME TypeOK, OldIsInTheFile, [Next]_vars
  PROVE  OldIsInTheFile'
<1> USE IndexerAssumption DEF OldIsInTheFile, TypeOK
<1>1. ASSUME NEW t \in Tarball, NEW state, Change(t, state) PROVE OldIsInTheFile'
  BY <1>1 DEF Change
<1>2. CASE Load \/ List \/ Truncate
  BY <1>2 DEF Load, List, Truncate
<1>3. CASE LoadFails \/ Write \/ Kill
  BY <1>3 DEF LoadFails, Write, Kill, End
<1>4. ASSUME NEW t \in Tarball, Open(t) \/ OpenVanished(t) \/ OpenFails(t)
      PROVE  OldIsInTheFile'
  BY <1>4 DEF Open, OpenVanished, OpenFails, End
<1>5. CASE UNCHANGED vars
  BY <1>5 DEF vars
<1>6. QED
  BY <1>1, <1>2, <1>3, <1>4, <1>5 DEF Next, Step, Copied, WriteBegins, Removed

(* The index and the directory that Packager would see.                    *)
SeenIndex == IF ~alone \/ indexFile = None THEN EmptyIndex
             ELSE IF pc = "write" THEN old ELSE indexFile
SeenFiles == IF alone THEN Present ELSE {}

(* IndexStore means by an index what Indexer does.                         *)
LEMMA SameIndexes ==
  /\ Atomic!Tarball = Tarball
  /\ Atomic!EmptyIndex = EmptyIndex
  /\ \A i, f : Atomic!Reindexed(i, f) = Reindexed(i, f)
<1>1. \A p, x : Atomic!TarballVersion(p, x) = TarballVersion(p, x)
  BY DEF Atomic!TarballVersion, TarballVersion
<1>2. \A i, p : Atomic!Listed(i, p) = Listed(i, p)
  BY DEF Atomic!Listed, Listed
<1>3. \A i, f, p : /\ Atomic!Kept(i, f, p) = Kept(i, f, p)
                   /\ Atomic!Unlisted(i, f, p) = Unlisted(i, f, p)
  BY <1>2 DEF Atomic!Kept, Kept, Atomic!Unlisted, Unlisted
<1>4. \A i, f, p, v : Atomic!Winners(i, f, p, v) = Winners(i, f, p, v)
  BY <1>1, <1>3 DEF Atomic!Winners, Winners
<1>5. ASSUME NEW i, NEW f, NEW p
      PROVE  Atomic!EntriesAfter(i, f, p) = EntriesAfter(i, f, p)
  <2> DEFINE found == Unlisted(i, f, p)
             versions == Kept(i, f, p) \cup {TarballVersion(p, x) : x \in found}
             afound == Atomic!Unlisted(i, f, p)
             aversions == Atomic!Kept(i, f, p)
                            \cup {Atomic!TarballVersion(p, x) : x \in afound}
  <2>1. afound = found
    BY <1>3
  <2>2. aversions = versions
    BY <1>1, <1>3, <2>1
  <2>3. {e \in [aversions -> Suffix] :
           \A v \in aversions : e[v] \in Atomic!Winners(i, f, p, v)}
        = {e \in [versions -> Suffix] :
             \A v \in versions : e[v] \in Winners(i, f, p, v)}
    <3> HIDE DEF versions, aversions
    <3> QED
      BY <1>4, <2>2
  <2>4. QED
    BY <2>1, <2>3 DEF Atomic!EntriesAfter, EntriesAfter
<1>6. QED
  BY <1>5 DEF Atomic!Tarball, Tarball, Atomic!EmptyIndex, EmptyIndex,
              Atomic!Reindexed, Reindexed

LEMMA AtomicStep ==
  ASSUME IndexInv, OldIsInTheFile, [Next]_vars
  PROVE  [Atomic!ChangeFiles \/ Atomic!Reindex]_<<SeenFiles, SeenIndex>>
<1> SUFFICES \/ SeenFiles' \in SUBSET Tarball /\ UNCHANGED SeenIndex
             \/ SeenIndex' \in Reindexed(SeenIndex, SeenFiles) /\ UNCHANGED SeenFiles
             \/ UNCHANGED <<SeenFiles, SeenIndex>>
  BY SameIndexes DEF Atomic!ChangeFiles, Atomic!Reindex, SeenFiles, SeenIndex
<1>0. alone \in BOOLEAN /\ alone' = alone
  BY DEF IndexInv, TypeOK, Next, Step, Copied, WriteBegins, Removed, Change, Load,
         LoadFails, List, Truncate, Write, Kill, Open, OpenVanished, OpenFails, vars
<1>1. CASE ~alone
  BY <1>0, <1>1 DEF SeenFiles, SeenIndex
<1>2. CASE alone
  <2> USE <1>0, <1>2 DEF SeenFiles, SeenIndex
  <2>1. ASSUME NEW t \in Tarball, NEW state, Change(t, state)
        PROVE  SeenFiles' \in SUBSET Tarball /\ UNCHANGED SeenIndex
    BY <2>1 DEF Change, Present
  <2>2. CASE Load \/ List
    BY <2>2 DEF Load, List, Present
  <2>3. CASE LoadFails
    BY <2>3 DEF LoadFails, End, Present
  <2>4. ASSUME NEW t \in Tarball, Open(t) \/ OpenVanished(t) \/ OpenFails(t)
        PROVE  UNCHANGED <<SeenFiles, SeenIndex>>
    BY <2>4 DEF Open, OpenVanished, OpenFails, End, Present
  <2>5. CASE Truncate
    BY <2>5, IndexerAssumption DEF Truncate, OldIsInTheFile, Present
  <2>6. CASE Write
    <3>1. seen = Present /\ indexFile = Torn
      BY <2>6 DEF Write, IndexInv, ListingIsCurrent, OldIsInTheFile
    <3>2. PICK new \in Reindexed(old, seen) : indexFile' = new
      BY <2>6 DEF Write
    <3>3. new \in Index
      BY <3>2, ReindexedType DEF IndexInv, TypeOK
    <3>4. SeenIndex = old /\ SeenIndex' = new
      BY <2>6, <3>1, <3>2, <3>3, IndexerAssumption DEF Write, End
    <3>5. UNCHANGED SeenFiles
      BY <2>6 DEF Write, Present
    <3>6. QED
      BY <3>1, <3>2, <3>4, <3>5
  <2>7. CASE UNCHANGED vars
    BY <2>7 DEF vars, Present
  <2>8. ~Kill
    BY DEF Kill
  <2>9. QED
    BY <2>1, <2>2, <2>3, <2>4, <2>5, <2>6, <2>7, <2>8
    DEF Next, Step, Copied, WriteBegins, Removed
<1>3. QED
  BY <1>0, <1>1, <1>2

(* With the directory to itself, create_index is one step from an index to *)
(* the next, whatever it reads and in which order: load, listing, opening, *)
(* truncation and write are the single step that Packager takes it for.    *)
THEOREM IndexIsReplacedAtOnce == Spec => ImplementsAtomicIndex
<1>1. Init => Atomic!Init
  BY SameIndexes DEF Init, Atomic!Init, Present
<1>2. Init => OldIsInTheFile
  BY DEF Init, OldIsInTheFile
<1>3. IndexInv /\ OldIsInTheFile /\ [Next]_vars => OldIsInTheFile'
  BY OldStep DEF IndexInv
<1>4. IndexInv /\ OldIsInTheFile /\ [Next]_vars
        => [Atomic!ChangeFiles \/ Atomic!Reindex]_<<SeenFiles, SeenIndex>>
  BY AtomicStep
<1>5. QED
  BY <1>1, <1>2, <1>3, <1>4, IndexInvariant, PTL
  DEF Spec, ImplementsAtomicIndex, Atomic!Spec, SeenFiles, SeenIndex

-----------------------------------------------------------------------------
(* venv_edit *)

(* The invocation in progress, or that has succeeded, has parameters that  *)
(* main accepted, and the name they give the venv.                         *)
ParametersHold ==
  /\ at # "idle" => ended = "running"
  /\ at # "idle" \/ ended = "ok" =>
       /\ req \in Edit!Request
       /\ req.src # None \/ req.name # None
       /\ name = IF req.name = None THEN req.src[1] ELSE req.name
  /\ at = "create" => req.src = None
  /\ at = "unpack" => req.src # None
  /\ name \in Name \cup {None}

(* No tarball is named after a time to come, nor after the present one     *)
(* before the invocation writes it.                                        *)
FutureIsOpen ==
  /\ \A n \in Name, x \in Edit!Time : x > now => repo[n][x] = None
  /\ at \notin {"idle", "add", "cleanup"} => \A n \in Name : repo[n][now] = None
  /\ at = "add" => repo[name][now] = Cut

(* What was installed is in the repository still.                          *)
InstalledExist ==
  \A n \in Name, x \in Edit!Time : <<n, x>> \in installed => Edit!Exists(n, x)

Source == repo[req.src[1]][req.src[2]]
Edited == [Source EXCEPT !.patch = Edit!NewPatch(req, Source.patch)]

(* The scratch directory holds what was unpacked, and from update_version  *)
(* on the venv of its patch; so does the tarball that is made of it.       *)
ScratchHolds ==
  /\ at \in {"version", "pack", "add"} => dir[name][now] # None
  /\ at \in {"wheels", "version"} /\ req.src # None =>
       /\ Edit!Exists(req.src[1], req.src[2])
       /\ dir[name][now] # None
       /\ dir[name][now].meta = Source
  /\ at \in {"pack", "add"} => dir[name][now].meta # Unstamped
  /\ at \in {"pack", "add"} /\ req.src # None =>
       Source \in Edit!Meta /\ dir[name][now].meta = Edited
  /\ (at = "cleanup" /\ result = "ok") \/ (at = "idle" /\ ended = "ok") =>
       (req.src # None => Source \in Edit!Meta /\ repo[name][now] = Edited)

EditInv ==
  /\ Edit!TypeOK /\ ParametersHold
  /\ FutureIsOpen /\ InstalledExist /\ ScratchHolds

LEMMA AcceptedParameters ==
  ASSUME ParametersHold, at # "idle" \/ ended = "ok"
  PROVE  /\ name \in Name
         /\ req.version \in Number /\ req.patch \in Nat \cup {None}
         /\ req.src # None => req.src[1] \in Name /\ req.src[2] \in Edit!Time
BY AbsentAssumption DEF ParametersHold, Edit!Request

LEMMA TimeType == 0 \in Edit!Time /\ Edit!Time \subseteq Nat
BY EditAssumption DEF Edit!Time

(* The patch number of an edit is one.                                     *)
LEMMA PatchType ==
  ASSUME NEW r, r.patch \in Nat \cup {None}, NEW old_patch \in Nat \cup {None}
  PROVE  Edit!NewPatch(r, old_patch) \in Nat \cup {None}
BY DEF Edit!NewPatch

LEMMA EditInit == Edit!Init => EditInv
<1> SUFFICES ASSUME Edit!Init PROVE EditInv
  OBVIOUS
<1> USE EditAssumption, AbsentAssumption DEF Edit!Init
<1>1. repo \in [Name -> [Edit!Time -> Edit!Meta \cup {Unstamped, None, Cut}]]
  OBVIOUS
<1>2. dir \in [Name -> [Edit!Time -> Edit!Dir \cup {None}]]
  OBVIOUS
<1>3. now \in Edit!Time /\ faults \in 0 .. EditFaults
  BY DEF Edit!Time
<1>4. Edit!TypeOK
  BY <1>1, <1>2, <1>3 DEF Edit!TypeOK
<1>5. QED
  BY <1>4, TimeType
  DEF EditInv, ParametersHold, FutureIsOpen, InstalledExist, ScratchHolds

(* One entry of a table is written.                                        *)
LEMMA CellWrite ==
  ASSUME NEW C, NEW f \in [Name -> [Edit!Time -> C]],
         NEW n \in Name, NEW x \in Edit!Time, NEW v \in C,
         NEW g, g = [f EXCEPT ![n][x] = v]
  PROVE  /\ g \in [Name -> [Edit!Time -> C]]
         /\ g[n][x] = v
         /\ \A m \in Name, y \in Edit!Time : m # n \/ y # x => g[m][y] = f[m][y]
OBVIOUS

(* A step that writes only the scratch directory, and goes on.             *)
LEMMA ScratchStep ==
  ASSUME EditInv, at \notin {"idle", "add"}, at' \notin {"idle", "create", "unpack", "add"},
         NEW d \in Edit!Dir \cup {None}, dir' = [dir EXCEPT ![name][now] = d],
         UNCHANGED <<repo, apart, installed, unclean, now, req, name, ended>>,
         faults' \in 0 .. EditFaults, at' \in {"wheels", "version", "pack", "cleanup"},
         at = "cleanup" => at' = "cleanup",
         at' = "cleanup" => result' # "ok" \/ (at = "cleanup" /\ result = "ok"),
         at' \in {"version", "pack"} => d # None,
         at' = "pack" => d.meta # Unstamped,
         at' \in {"wheels", "version"} /\ req.src # None =>
           Edit!Exists(req.src[1], req.src[2]) /\ d # None /\ d.meta = Source,
         at' = "pack" /\ req.src # None => Source \in Edit!Meta /\ d.meta = Edited
  PROVE  EditInv'
<1> USE DEF EditInv
<1>1. name \in Name /\ now \in Edit!Time
  BY AcceptedParameters DEF Edit!TypeOK
<1>2. dir' \in [Name -> [Edit!Time -> Edit!Dir \cup {None}]] /\ dir'[name][now] = d
  BY <1>1, CellWrite DEF Edit!TypeOK
<1>3. Edit!TypeOK' /\ ParametersHold'
  BY <1>1, <1>2 DEF Edit!TypeOK, ParametersHold
<1>4. FutureIsOpen' /\ InstalledExist'
  BY DEF FutureIsOpen, InstalledExist, Edit!Exists
<1>5. Source' = Source /\ Edited' = Edited
  BY DEF Source, Edited
<1>6. ScratchHolds'
  BY <1>2, <1>5 DEF ScratchHolds, Edit!Exists
<1>7. QED
  BY <1>3, <1>4, <1>6

LEMMA EditStep ==
  ASSUME EditInv, [Edit!Next]_Edit!vars
  PROVE  EditInv'
<1> USE DEF EditInv
<1>0. at # "idle" => name \in Name /\ now \in Edit!Time /\ now \in Nat
  BY AcceptedParameters, TimeType DEF Edit!TypeOK
<1>1. ASSUME NEW r \in EditRequests, Edit!Start(r) PROVE EditInv'
  <2>1. r \in Edit!Request /\ now' \in Edit!Time /\ now \in Nat /\ now' = now + 1
    BY <1>1, EditAssumption DEF Edit!Start, Edit!TypeOK, Edit!Time
  <2>2. r.src # None => r.src[1] \in Name
    BY <2>1 DEF Edit!Request
  <2>3. r.name \in Name \cup {None}
    BY <2>1 DEF Edit!Request
  <2>4. ParametersHold'
    BY <1>1, <2>1, <2>2, <2>3 DEF Edit!Start, ParametersHold
  <2>5. Edit!TypeOK'
    BY <1>1, <2>1, <2>2, <2>3 DEF Edit!Start, Edit!TypeOK
  <2>6. FutureIsOpen'
    BY <1>1, <2>1, TimeType DEF Edit!Start, FutureIsOpen
  <2>7. InstalledExist'
    BY <1>1 DEF Edit!Start, InstalledExist, Edit!Exists
  <2>8. ScratchHolds'
    BY <1>1 DEF Edit!Start, ScratchHolds
  <2>9. QED
    BY <2>4, <2>5, <2>6, <2>7, <2>8
<1>2. CASE Edit!CreateVenv
  <2>1. at = "create" /\ at' = "wheels" /\ req.src = None
    BY <1>2 DEF Edit!CreateVenv, Edit!Goto, ParametersHold
  <2>2. CASE dir' = dir
    <3>1. faults' \in 0 .. EditFaults
      BY <1>2, EditAssumption DEF Edit!CreateVenv, Edit!TypeOK
    <3>2. /\ UNCHANGED <<repo, apart, installed, unclean, now, req, name, result, ended>>
      BY <1>2 DEF Edit!CreateVenv, Edit!Goto
    <3>3. QED
      BY <2>1, <2>2, <3>1, <3>2 DEF Edit!TypeOK, ParametersHold, FutureIsOpen,
         InstalledExist, ScratchHolds, Edit!Exists
  <2>3. CASE dir' # dir
    <3> DEFINE d == [state |-> "bare", meta |-> Unstamped]
    <3>1. d \in Edit!Dir
      BY DEF Edit!Dir
    <3>2. /\ dir' = [dir EXCEPT ![name][now] = d]
          /\ UNCHANGED <<repo, apart, installed, unclean, now, req, name, ended>>
          /\ faults' \in 0 .. EditFaults
      BY <1>2, <2>3 DEF Edit!CreateVenv, Edit!SetDir, Edit!Goto, Edit!TypeOK
    <3> HIDE DEF d
    <3>3. QED
      BY <2>1, <3>1, <3>2, ScratchStep
  <2>4. QED
    BY <2>2, <2>3
<1>3. CASE Edit!Unpack
  <2> DEFINE d == [state |-> "bare", meta |-> Source]
  <2>1. at = "unpack" /\ at' = "wheels" /\ req.src # None
    BY <1>3 DEF Edit!Unpack, Edit!Goto, ParametersHold
  <2>2. Edit!Exists(req.src[1], req.src[2])
    BY <1>3 DEF Edit!Unpack
  <2>3. Source \in Edit!Meta \cup {Unstamped, None, Cut}
    BY <2>1, AcceptedParameters DEF Source, Edit!TypeOK
  <2>4. d \in Edit!Dir /\ d # None /\ d.meta = Source
    BY <2>2, <2>3, AbsentAssumption DEF Edit!Dir, Edit!Exists, Source
  <2>5. /\ dir' = [dir EXCEPT ![name][now] = d]
        /\ UNCHANGED <<repo, apart, installed, unclean, now, req, name, ended>>
        /\ faults' \in 0 .. EditFaults
    BY <1>3 DEF Edit!Unpack, Edit!SetDir, Edit!Goto, Edit!Invocation, Edit!TypeOK, Source
  <2> HIDE DEF d
  <2>6. QED
    BY <2>1, <2>2, <2>4, <2>5, ScratchStep
<1>4. CASE Edit!UnpackFails
  <2>1. /\ at = "unpack" /\ at' = "cleanup" /\ result' = "crashed"
        /\ UNCHANGED <<repo, apart, installed, unclean, now, req, name, ended>>
        /\ faults' \in 0 .. EditFaults
    BY <1>4 DEF Edit!UnpackFails, Edit!Leave, Edit!Invocation, Edit!TypeOK
  <2> DEFINE d == IF dir' = dir THEN dir[name][now]
                  ELSE [state |-> "partial", meta |-> Unstamped]
  <2>2. d \in Edit!Dir \cup {None}
    BY <1>0, <2>1 DEF Edit!TypeOK, Edit!Dir
  <2>3. dir' = [dir EXCEPT ![name][now] = d]
    <3>1. CASE dir' = dir
      BY <1>0, <2>1, <3>1 DEF Edit!TypeOK
    <3>2. CASE dir' # dir
      BY <1>4, <3>2 DEF Edit!UnpackFails, Edit!SetDir
    <3>3. QED
      BY <3>1, <3>2
  <2> HIDE DEF d
  <2>4. QED
    BY <2>1, <2>2, <2>3, ScratchStep
<1>5. CASE Edit!AddToVenv
  <2> DEFINE d == [state |-> "ready",
                   meta |-> IF dir[name][now] = None THEN Unstamped
                            ELSE dir[name][now].meta]
  <2>1. /\ at = "wheels" /\ at' = "version"
        /\ dir' = [dir EXCEPT ![name][now] = d]
        /\ UNCHANGED <<repo, apart, installed, unclean, now, req, name, ended>>
        /\ faults' \in 0 .. EditFaults
    BY <1>5 DEF Edit!AddToVenv, Edit!Goto, Edit!SetDir, Edit!Invocation, Edit!TypeOK
  <2>2. dir[name][now] \in Edit!Dir \cup {None}
    BY <1>0, <2>1 DEF Edit!TypeOK
  <2>3. d \in Edit!Dir /\ d # None
    BY <2>2, AbsentAssumption DEF Edit!Dir
  <2>4. req.src # None => Edit!Exists(req.src[1], req.src[2]) /\ d.meta = Source
    BY <2>1 DEF ScratchHolds
  <2> HIDE DEF d
  <2>5. QED
    BY <2>1, <2>3, <2>4, ScratchStep
<1>6. CASE Edit!AddFails \/ Edit!CallFails
  <2>1. /\ at \notin {"idle", "cleanup"} /\ at' = "cleanup" /\ result' # "ok"
        /\ UNCHANGED <<repo, dir, apart, installed, unclean, now, req, name, ended>>
        /\ faults' \in 0 .. EditFaults
    BY <1>6, EditAssumption
    DEF Edit!AddFails, Edit!CallFails, Edit!Leave, Edit!TypeOK
  <2>2. Edit!TypeOK' /\ ParametersHold' /\ FutureIsOpen' /\ InstalledExist'
    BY <2>1 DEF Edit!TypeOK, ParametersHold, FutureIsOpen, InstalledExist, Edit!Exists
  <2>3. ScratchHolds'
    BY <2>1 DEF ScratchHolds
  <2>4. QED
    BY <2>2, <2>3
<1>7. CASE Edit!CreateMetadata
  <2> DEFINE d == [state |-> "ready",
                   meta |-> [version |-> req.version, timestamp |-> now,
                             patch |-> req.patch]]
  <2>1. /\ at = "version" /\ at' = "pack" /\ req.src = None
        /\ dir' = [dir EXCEPT ![name][now] = d]
        /\ UNCHANGED <<repo, apart, installed, unclean, now, req, name, ended>>
        /\ faults' \in 0 .. EditFaults
    BY <1>7 DEF Edit!CreateMetadata, Edit!Goto, Edit!SetDir, Edit!Invocation, Edit!TypeOK
  <2>2. d.meta \in Edit!Meta
    BY <1>0, <2>1, AcceptedParameters DEF Edit!Meta
  <2>3. d \in Edit!Dir /\ d # None /\ d.meta # Unstamped
    BY <2>2, AbsentAssumption DEF Edit!Dir
  <2> HIDE DEF d
  <2>4. QED
    BY <2>1, <2>3, ScratchStep
<1>8. CASE Edit!UpdateVersion
  <2>1. /\ at = "version" /\ req.src # None
        /\ Edit!Exists(req.src[1], req.src[2])
        /\ dir[name][now] # None /\ dir[name][now].meta = Source
    BY <1>8 DEF Edit!UpdateVersion, ScratchHolds
  <2>2. /\ UNCHANGED <<repo, apart, installed, unclean, now, req, name, ended>>
        /\ faults' \in 0 .. EditFaults
    BY <1>8 DEF Edit!UpdateVersion, Edit!Leave, Edit!Goto, Edit!Invocation, Edit!TypeOK
  <2>3. CASE Source = Unstamped
    <3>1. at' = "cleanup" /\ result' = "crashed" /\ dir' = dir
      BY <1>8, <2>1, <2>3 DEF Edit!UpdateVersion, Edit!Leave
    <3>2. /\ dir[name][now] \in Edit!Dir \cup {None}
          /\ dir' = [dir EXCEPT ![name][now] = dir[name][now]]
      BY <1>0, <2>1, <3>1 DEF Edit!TypeOK
    <3>3. QED
      BY <2>1, <2>2, <3>1, <3>2, ScratchStep
  <2>4. CASE Source # Unstamped
    <3> DEFINE d == [state |-> "ready", meta |-> Edited]
    <3>1. at' = "pack" /\ dir' = [dir EXCEPT ![name][now] = d]
      BY <1>8, <2>1, <2>4
      DEF Edit!UpdateVersion, Edit!Goto, Edit!SetDir, Edited
    <3>2. Source \in Edit!Meta
      BY <2>1, <2>4, AcceptedParameters DEF Source, Edit!TypeOK, Edit!Exists
    <3>3. Edited \in Edit!Meta
      BY <2>1, <3>2, AcceptedParameters, PatchType DEF Edit!Meta, Edited
    <3>4. d \in Edit!Dir /\ d # None /\ d.meta = Edited /\ d.meta # Unstamped
      BY <3>3, AbsentAssumption DEF Edit!Dir
    <3> HIDE DEF d
    <3>5. QED
      BY <2>1, <2>2, <3>1, <3>2, <3>4, ScratchStep
  <2>5. QED
    BY <2>3, <2>4
<1>9. CASE Edit!OpenTarball
  <2>1. /\ at = "pack" /\ at' = "add" /\ repo' = [repo EXCEPT ![name][now] = Cut]
        /\ UNCHANGED <<dir, apart, installed, unclean, now, req, name, ended>>
        /\ faults' \in 0 .. EditFaults
    BY <1>9 DEF Edit!OpenTarball, Edit!Goto, Edit!Invocation, Edit!TypeOK
  <2> DEFINE C == Edit!Meta \cup {Unstamped, None, Cut}
  <2>2. repo \in [Name -> [Edit!Time -> C]] /\ repo[name][now] = None
    BY <1>0, <2>1 DEF Edit!TypeOK, FutureIsOpen
  <2>3. /\ repo' \in [Name -> [Edit!Time -> C]] /\ repo'[name][now] = Cut
        /\ \A m \in Name, y \in Edit!Time : m # name \/ y # now => repo'[m][y] = repo[m][y]
    BY <1>0, <2>1, <2>2, CellWrite
  <2>4. Edit!TypeOK' /\ ParametersHold'
    BY <2>1, <2>3 DEF Edit!TypeOK, ParametersHold
  <2>5. FutureIsOpen'
    BY <1>0, <2>1, <2>3, TimeType DEF FutureIsOpen
  <2>6. InstalledExist'
    BY <1>0, <2>1, <2>2, <2>3 DEF InstalledExist, Edit!Exists
  <2>7. req.src # None => Source' = Source /\ Edited' = Edited
    BY <2>1, <2>2, <2>3, AcceptedParameters, AbsentAssumption
    DEF ScratchHolds, Source, Edited
  <2>8. ScratchHolds'
    BY <2>1, <2>7 DEF ScratchHolds
  <2>9. QED
    BY <2>4, <2>5, <2>6, <2>8
<1>10. CASE Edit!Pack
  <2> DEFINE v == dir[name][now].meta
  <2>1. /\ at = "add" /\ at' = "cleanup" /\ repo' = [repo EXCEPT ![name][now] = v]
        /\ UNCHANGED <<dir, apart, installed, unclean, now, req, name, ended>>
        /\ faults' \in 0 .. EditFaults
    BY <1>10 DEF Edit!Pack, Edit!Leave, Edit!Invocation, Edit!TypeOK
  <2> DEFINE C == Edit!Meta \cup {Unstamped, None, Cut}
  <2>2. repo \in [Name -> [Edit!Time -> C]] /\ repo[name][now] = Cut
    BY <1>0, <2>1 DEF Edit!TypeOK, FutureIsOpen
  <2>3. dir[name][now] \in Edit!Dir
    BY <1>0, <2>1 DEF Edit!TypeOK, ScratchHolds
  <2>4. v \in Edit!Meta /\ v \in C /\ v \notin {None, Cut}
    BY <2>1, <2>3, AbsentAssumption DEF Edit!Dir, ScratchHolds
  <2> HIDE DEF C, v
  <2>5. /\ repo' \in [Name -> [Edit!Time -> C]] /\ repo'[name][now] = v
        /\ \A m \in Name, y \in Edit!Time : m # name \/ y # now => repo'[m][y] = repo[m][y]
    BY <1>0, <2>1, <2>2, <2>4, CellWrite
  <2>6. Edit!TypeOK' /\ ParametersHold'
    BY <2>1, <2>5 DEF Edit!TypeOK, ParametersHold, C
  <2>7. FutureIsOpen'
    BY <1>0, <2>1, <2>5, TimeType DEF FutureIsOpen
  <2>8. InstalledExist'
    BY <1>0, <2>1, <2>2, <2>4, <2>5 DEF InstalledExist, Edit!Exists
  <2>9. req.src # None => /\ Source \in Edit!Meta /\ v = Edited
                          /\ Source' = Source /\ Edited' = Edited
    <3>1. req.src # None => Source \in Edit!Meta /\ v = Edited
      BY <2>1 DEF ScratchHolds, v
    <3>2. req.src # None => Source # Cut
      BY <3>1, AbsentAssumption
    <3>3. req.src # None => repo'[req.src[1]][req.src[2]] = repo[req.src[1]][req.src[2]]
      BY <2>1, <2>2, <2>5, <3>2, AcceptedParameters DEF Source
    <3>4. QED
      BY <2>1, <3>1, <3>3 DEF Source, Edited
  <2>10. ScratchHolds'
    BY <2>1, <2>5, <2>9 DEF ScratchHolds
  <2>11. QED
    BY <2>6, <2>7, <2>8, <2>10
<1>11. CASE Edit!Cleanup
  <2>1. /\ at = "cleanup"
        /\ UNCHANGED <<repo, apart, installed, unclean, now, req, name, result>>
        /\ faults' \in 0 .. EditFaults
        /\ dir[name][now] \in Edit!Dir \cup {None}
    BY <1>0, <1>11 DEF Edit!Cleanup, Edit!Invocation, Edit!TypeOK
  <2>2. CASE dir[name][now] # None /\ dir[name][now].state # "partial"
    <3> DEFINE d == [dir[name][now] EXCEPT !.state = "partial"]
    <3>1. d \in Edit!Dir
      BY <2>1, <2>2 DEF Edit!Dir
    <3>2. /\ dir' = [dir EXCEPT ![name][now] = d]
          /\ at' = at /\ ended' = ended
      BY <1>11, <2>2 DEF Edit!Cleanup, Edit!SetDir
    <3> HIDE DEF d
    <3>3. CASE result = "ok"
      BY <2>1, <3>1, <3>2, <3>3, ScratchStep
    <3>4. CASE result # "ok"
      BY <2>1, <3>1, <3>2, <3>4, ScratchStep
    <3>5. QED
      BY <3>3, <3>4
  <2>3. CASE ~(dir[name][now] # None /\ dir[name][now].state # "partial")
    <3>1. /\ dir' = [dir EXCEPT ![name][now] = None]
          /\ at' = "idle" /\ ended' = result
      BY <1>11, <2>3 DEF Edit!Cleanup, Edit!SetDir
    <3>2. dir' \in [Name -> [Edit!Time -> Edit!Dir \cup {None}]]
      BY <1>0, <2>1, <3>1, CellWrite DEF Edit!TypeOK
    <3>3. Edit!TypeOK' /\ ParametersHold' /\ FutureIsOpen' /\ InstalledExist'
      BY <2>1, <3>1, <3>2
      DEF Edit!TypeOK, ParametersHold, FutureIsOpen, InstalledExist, Edit!Exists
    <3>4. Source' = Source /\ Edited' = Edited
      BY <2>1 DEF Source, Edited
    <3>5. ScratchHolds'
      BY <2>1, <3>1, <3>4 DEF ScratchHolds
    <3>6. QED
      BY <3>3, <3>5
  <2>4. QED
    BY <2>2, <2>3
<1>12. CASE Edit!Kill \/ Edit!CleanupFails
  <2>1. /\ at # "idle" /\ at' = "idle" /\ ended' # "ok"
        /\ UNCHANGED <<repo, dir, apart, installed, now, req, name>>
        /\ unclean' = unclean \cup {<<name, now>>}
        /\ faults' \in 0 .. EditFaults
    BY <1>12, EditAssumption DEF Edit!Kill, Edit!CleanupFails, Edit!TypeOK
  <2>2. Edit!TypeOK' /\ ParametersHold' /\ FutureIsOpen' /\ InstalledExist'
    BY <2>1 DEF Edit!TypeOK, ParametersHold, FutureIsOpen, InstalledExist, Edit!Exists
  <2>3. ScratchHolds'
    BY <2>1 DEF ScratchHolds
  <2>4. QED
    BY <2>2, <2>3
<1>13. ASSUME NEW n \in Name, NEW x \in Edit!Time, Edit!Install(n, x) PROVE EditInv'
  <2>1. /\ Edit!Exists(n, x) /\ installed' = installed \cup {<<n, x>>}
        /\ UNCHANGED <<apart, repo, unclean, now, at, req, name, result, ended, faults>>
    BY <1>13 DEF Edit!Install
  <2> DEFINE d == IF dir[n][x] = None THEN [state |-> "ready", meta |-> repo[n][x]]
                  ELSE dir[n][x]
  <2>2. dir' = [dir EXCEPT ![n][x] = d]
    BY <1>13 DEF Edit!Install, Edit!TypeOK
  <2>3. repo[n][x] \in Edit!Meta \cup {Unstamped}
    BY <2>1 DEF Edit!TypeOK, Edit!Exists
  <2>4. d \in Edit!Dir \cup {None}
    BY <2>3 DEF Edit!TypeOK, Edit!Dir
  <2>5. dir[n][x] # None => d = dir[n][x]
    OBVIOUS
  <2> HIDE DEF d
  <2>6. /\ dir' \in [Name -> [Edit!Time -> Edit!Dir \cup {None}]] /\ dir'[n][x] = d
        /\ \A m \in Name, y \in Edit!Time : m # n \/ y # x => dir'[m][y] = dir[m][y]
    BY <2>2, <2>4, CellWrite DEF Edit!TypeOK
  <2>7. Edit!TypeOK' /\ ParametersHold' /\ FutureIsOpen' /\ InstalledExist'
    BY <2>1, <2>6
    DEF Edit!TypeOK, ParametersHold, FutureIsOpen, InstalledExist, Edit!Exists
  <2>8. at # "idle" /\ dir[name][now] # None => dir'[name][now] = dir[name][now]
    BY <1>0, <2>5, <2>6
  <2>9. Source' = Source /\ Edited' = Edited
    BY <2>1 DEF Source, Edited
  <2>10. ScratchHolds'
    BY <2>1, <2>8, <2>9 DEF ScratchHolds, Edit!Exists
  <2>11. QED
    BY <2>7, <2>10
<1>14. CASE UNCHANGED Edit!vars
  <2>1. Source' = Source /\ Edited' = Edited
    BY <1>14 DEF Edit!vars, Source, Edited
  <2>2. QED
    BY <1>14, <2>1 DEF Edit!vars, Edit!TypeOK, ParametersHold, FutureIsOpen,
       InstalledExist, ScratchHolds, Edit!Exists
<1>15. QED
  BY <1>1, <1>2, <1>3, <1>4, <1>5, <1>6, <1>7, <1>8, <1>9, <1>10, <1>11, <1>12, <1>13,
     <1>14 DEF Edit!Next

LEMMA EditInvariant == Edit!Spec => []EditInv
BY EditInit, EditStep, PTL DEF Edit!Spec

(* With one patch more than a version has, an edit comes after all that    *)
(* this version comes after.                                               *)
LEMMA EditedIsNewer ==
  ASSUME NEW a \in Edit!Meta, NEW b \in Edit!Meta, ~Edit!Older(b, a),
         NEW r, r.patch = None, ~Edit!Derived(r)
  PROVE  Edit!Older(a, [b EXCEPT !.patch = Edit!NewPatch(r, b.patch)])
<1> DEFINE p == IF b.patch = None THEN 1 ELSE b.patch + 1
           e == [b EXCEPT !.patch = p]
<1>1. Edit!NewPatch(r, b.patch) = p
  BY DEF Edit!NewPatch
<1>2. /\ a.version \in Nat /\ a.timestamp \in Nat /\ a.patch \in Nat \cup {None}
      /\ b.version \in Nat /\ b.timestamp \in Nat /\ b.patch \in Nat \cup {None}
  <2>1. /\ a.version \in Number /\ a.timestamp \in Edit!Time /\ a.patch \in Nat \cup {None}
        /\ b.version \in Number /\ b.timestamp \in Edit!Time /\ b.patch \in Nat \cup {None}
    BY DEF Edit!Meta
  <2>2. QED
    BY <2>1, TimeType, EditAssumption
<1>3. e.version = b.version /\ e.timestamp = b.timestamp /\ e.patch = p
  BY DEF Edit!Meta
<1>4. p \in Nat /\ p # None
  BY <1>2, AbsentAssumption
<1> HIDE DEF e
<1>5. Edit!Older(a, e)
  BY <1>2, <1>3, <1>4 DEF Edit!Older
<1>6. QED
  BY <1>1, <1>5 DEF e

(* Edits are made one from another, by patch number or not, some of them   *)
(* failing: the edit of the newest stamped tarball of a package is newer   *)
(* than every other, so that an upgrade takes it.                          *)
THEOREM NewestEditIsNewest == Edit!Spec => []EditOfNewestIsNewest
<1>1. EditInv => EditOfNewestIsNewest
  <2> SUFFICES ASSUME EditInv, at = "idle", ended = "ok",
                      req.src # None, ~Edit!Derived(req), req.patch = None,
                      \A x \in Edit!Others : ~Edit!Older(repo[name][req.src[2]], repo[name][x]),
                      NEW x \in Edit!Others
               PROVE  Edit!Older(repo[name][x], repo[name][now])
    BY DEF EditOfNewestIsNewest, Edit!EditOfNewestIsNewest
  <2>1. name = req.src[1] /\ name \in Name
    BY AcceptedParameters DEF EditInv, ParametersHold, Edit!Derived
  <2>2. /\ Source = repo[name][req.src[2]] /\ Source \in Edit!Meta
        /\ repo[name][now] = Edited
    BY <2>1 DEF EditInv, ScratchHolds, Source
  <2>3. repo[name][x] \in Edit!Meta
    BY <2>1 DEF EditInv, Edit!TypeOK, Edit!Others, Edit!Exists
  <2>4. QED
    BY <2>2, <2>3, EditedIsNewer DEF Edited
<1>2. QED
  BY <1>1, EditInvariant, PTL

(* Invocations that left their scratch directory lie in the past, and the  *)
(* one in progress, or that has just reported success, is not among them.  *)
UncleanIsPast ==
  /\ \A n \in Name, x \in Edit!Time : <<n, x>> \in unclean => x <= now
  /\ at # "idle" \/ ended = "ok" => <<name, now>> \notin unclean

(* A step of an invocation that goes on, in its scratch directory.         *)
LEMMA ScratchStays ==
  ASSUME EditInv, ScratchIsRemoved, at # "idle", at' # "idle",
         UNCHANGED <<installed, unclean, now, name>>,
         \A n \in Name, x \in Edit!Time : n # name \/ x # now => dir'[n][x] = dir[n][x]
  PROVE  ScratchIsRemoved'
BY DEF ScratchIsRemoved, Edit!ScratchIsRemoved

LEMMA UncleanStep ==
  ASSUME EditInv, UncleanIsPast, [Edit!Next]_Edit!vars
  PROVE  UncleanIsPast'
<1> USE DEF EditInv
<1>0. at # "idle" => name \in Name /\ now \in Edit!Time /\ now \in Nat
  BY AcceptedParameters, TimeType DEF Edit!TypeOK
<1>1. ASSUME NEW r \in EditRequests, Edit!Start(r) PROVE UncleanIsPast'
  <2>1. /\ now' = now + 1 /\ now \in Nat /\ now' \in Edit!Time
        /\ unclean' = unclean /\ unclean \subseteq Name \X Edit!Time
    BY <1>1, EditAssumption DEF Edit!Start, Edit!TypeOK, Edit!Time
  <2>2. \A n \in Name, x \in Edit!Time : <<n, x>> \in unclean => x <= now /\ x \in Nat
    BY TimeType DEF UncleanIsPast
  <2>3. at' # "idle" \/ ended' = "ok" => <<name', now'>> \notin unclean
    BY <2>1, <2>2
  <2>4. QED
    BY <2>1, <2>2, <2>3 DEF UncleanIsPast
<1>2. CASE \/ Edit!CreateVenv \/ Edit!Unpack \/ Edit!UnpackFails \/ Edit!AddToVenv
           \/ Edit!AddFails \/ Edit!CreateMetadata \/ Edit!UpdateVersion
           \/ Edit!OpenTarball \/ Edit!Pack \/ Edit!Cleanup \/ Edit!CallFails
  <2>1. at # "idle" /\ UNCHANGED <<unclean, now, name>>
    BY <1>2 DEF Edit!CreateVenv, Edit!Unpack, Edit!UnpackFails, Edit!AddToVenv,
       Edit!AddFails, Edit!CreateMetadata, Edit!UpdateVersion, Edit!OpenTarball,
       Edit!Pack, Edit!Cleanup, Edit!CallFails, Edit!Invocation
  <2>2. QED
    BY <2>1 DEF UncleanIsPast
<1>3. CASE Edit!Kill \/ Edit!CleanupFails
  <2>1. /\ at # "idle" /\ at' = "idle" /\ ended' # "ok" /\ now' = now
        /\ unclean' = unclean \cup {<<name, now>>}
    BY <1>3 DEF Edit!Kill, Edit!CleanupFails
  <2>2. QED
    BY <1>0, <2>1 DEF UncleanIsPast
<1>4. ASSUME NEW n \in Name, NEW x \in Edit!Time, Edit!Install(n, x) PROVE UncleanIsPast'
  BY <1>4 DEF Edit!Install, UncleanIsPast
<1>5. CASE UNCHANGED Edit!vars
  BY <1>5 DEF Edit!vars, UncleanIsPast
<1>6. QED
  BY <1>1, <1>2, <1>3, <1>4, <1>5 DEF Edit!Next

LEMMA ScratchIsRemovedStep ==
  ASSUME EditInv, ScratchIsRemoved, UncleanIsPast', [Edit!Next]_Edit!vars
  PROVE  ScratchIsRemoved'
<1> USE DEF EditInv
<1>0. at # "idle" => name \in Name /\ now \in Edit!Time
  BY AcceptedParameters DEF Edit!TypeOK
<1>1. ASSUME NEW r \in EditRequests, Edit!Start(r) PROVE ScratchIsRemoved'
  BY <1>1 DEF Edit!Start, ScratchIsRemoved, Edit!ScratchIsRemoved
<1>2. CASE \/ Edit!CreateVenv \/ Edit!Unpack \/ Edit!UnpackFails \/ Edit!AddToVenv
           \/ Edit!AddFails \/ Edit!CreateMetadata \/ Edit!UpdateVersion
           \/ Edit!OpenTarball \/ Edit!Pack \/ Edit!CallFails
  <2>1. /\ at # "idle" /\ at' # "idle"
        /\ UNCHANGED <<installed, unclean, now, name>>
        /\ dir' = dir \/ \E d : dir' = [dir EXCEPT ![name][now] = d]
    BY <1>2 DEF Edit!CreateVenv, Edit!Unpack, Edit!UnpackFails, Edit!AddToVenv,
       Edit!AddFails, Edit!CreateMetadata, Edit!UpdateVersion, Edit!OpenTarball,
       Edit!Pack, Edit!CallFails, Edit!Goto, Edit!Leave, Edit!SetDir, Edit!Invocation
  <2>2. \A n \in Name, x \in Edit!Time : n # name \/ x # now => dir'[n][x] = dir[n][x]
    BY <1>0, <2>1 DEF Edit!TypeOK
  <2>3. QED
    BY <2>1, <2>2, ScratchStays
<1>3. CASE Edit!Cleanup
  <2>1. /\ at # "idle" /\ UNCHANGED <<installed, unclean, now, name>>
        /\ \/ at' # "idle" /\ \E d : dir' = [dir EXCEPT ![name][now] = d]
           \/ at' = "idle" /\ dir' = [dir EXCEPT ![name][now] = None]
    BY <1>3 DEF Edit!Cleanup, Edit!SetDir, Edit!Invocation
  <2>2. \A n \in Name, x \in Edit!Time : n # name \/ x # now => dir'[n][x] = dir[n][x]
    BY <1>0, <2>1 DEF Edit!TypeOK
  <2>3. CASE at' # "idle"
    BY <2>1, <2>2, <2>3, ScratchStays
  <2>4. CASE at' = "idle"
    <3>1. dir'[name][now] = None
      BY <1>0, <2>1, <2>4 DEF Edit!TypeOK
    <3>2. QED
      BY <2>1, <2>2, <2>4, <3>1
      DEF ScratchIsRemoved, Edit!ScratchIsRemoved, UncleanIsPast
  <2>5. QED
    BY <2>3, <2>4
<1>4. CASE Edit!Kill \/ Edit!CleanupFails
  <2>1. /\ at # "idle" /\ at' = "idle" /\ ended' # "ok"
        /\ UNCHANGED <<dir, installed, now, name>>
        /\ unclean' = unclean \cup {<<name, now>>}
    BY <1>4 DEF Edit!Kill, Edit!CleanupFails
  <2>2. QED
    BY <2>1 DEF ScratchIsRemoved, Edit!ScratchIsRemoved
<1>5. ASSUME NEW n \in Name, NEW x \in Edit!Time, Edit!Install(n, x)
      PROVE  ScratchIsRemoved'
  <2>1. /\ installed' = installed \cup {<<n, x>>}
        /\ UNCHANGED <<unclean, at, ended, name, now>>
        /\ \E d : dir' = [dir EXCEPT ![n][x] = d]
    BY <1>5 DEF Edit!Install
  <2>2. \A m \in Name, y \in Edit!Time : m # n \/ y # x => dir'[m][y] = dir[m][y]
    BY <2>1 DEF Edit!TypeOK
  <2>3. QED
    BY <2>1, <2>2 DEF ScratchIsRemoved, Edit!ScratchIsRemoved
<1>6. CASE UNCHANGED Edit!vars
  BY <1>6 DEF Edit!vars, ScratchIsRemoved, Edit!ScratchIsRemoved
<1>7. QED
  BY <1>1, <1>2, <1>3, <1>4, <1>5, <1>6 DEF Edit!Next

LEMMA UncleanInvariant == Edit!Spec => []UncleanIsPast
<1>1. Edit!Init => UncleanIsPast
  BY DEF Edit!Init, UncleanIsPast
<1>2. QED
  BY <1>1, UncleanStep, EditInvariant, PTL DEF Edit!Spec

(* Only an invocation that was killed, or whose rmtree raised, leaves its  *)
(* scratch directory, and it does not report success.                      *)
THEOREM ScratchIsTidied == Edit!Spec => []ScratchIsRemoved
<1>1. Edit!Init => ScratchIsRemoved
  BY DEF Edit!Init, ScratchIsRemoved, Edit!ScratchIsRemoved
<1>2. QED
  BY <1>1, ScratchIsRemovedStep, UncleanInvariant, EditInvariant, PTL DEF Edit!Spec

(* Between invocations install_package only takes for unpacked what it     *)
(* unpacked itself, or what an invocation left behind.                     *)
InstalledApart ==
  apart =>
    /\ at # "idle" => <<name, now>> \notin installed
    /\ \A n \in Name, x \in Edit!Time :
         <<n, x>> \in installed \ unclean =>
           dir[n][x] = [state |-> "ready", meta |-> repo[n][x]]

(* A step of an invocation, in its scratch directory or its tarball.       *)
LEMMA ScratchIsApart ==
  ASSUME EditInv, InstalledApart, at # "idle",
         installed' = installed, unclean \subseteq unclean',
         UNCHANGED <<apart, now, name>>,
         \A n \in Name, x \in Edit!Time : n # name \/ x # now =>
           dir'[n][x] = dir[n][x] /\ repo'[n][x] = repo[n][x]
  PROVE  InstalledApart'
BY DEF InstalledApart

LEMMA ApartStep ==
  ASSUME EditInv, ScratchIsRemoved, InstalledApart, [Edit!Next]_Edit!vars
  PROVE  InstalledApart'
<1> SUFFICES ASSUME apart PROVE InstalledApart'
  BY DEF InstalledApart, Edit!Next, Edit!Start, Edit!CreateVenv, Edit!Unpack,
     Edit!UnpackFails, Edit!AddToVenv, Edit!AddFails, Edit!CreateMetadata,
     Edit!UpdateVersion, Edit!OpenTarball, Edit!Pack, Edit!CallFails, Edit!Cleanup,
     Edit!CleanupFails, Edit!Kill, Edit!Install, Edit!Invocation, Edit!vars
<1> USE DEF EditInv
<1>0. at # "idle" => name \in Name /\ now \in Edit!Time
  BY AcceptedParameters DEF Edit!TypeOK
<1>1. ASSUME NEW r \in EditRequests, Edit!Start(r) PROVE InstalledApart'
  <2>1. /\ at = "idle" /\ now' = now + 1 /\ now' \in Edit!Time /\ now \in Nat
        /\ UNCHANGED <<apart, repo, dir, installed, unclean>>
    BY <1>1, EditAssumption DEF Edit!Start, Edit!TypeOK, Edit!Time
  <2>2. \A n \in Name : repo[n][now'] = None
    BY <2>1 DEF FutureIsOpen
  <2>3. \A n \in Name : <<n, now'>> \notin installed
    BY <2>1, <2>2 DEF InstalledExist, Edit!Exists
  <2>4. at' # "idle" => name' \in Name
    BY <1>1, EditAssumption DEF Edit!Start, Edit!Request
  <2>5. QED
    BY <2>1, <2>3, <2>4 DEF InstalledApart
<1>2. CASE \/ Edit!CreateVenv \/ Edit!Unpack \/ Edit!UnpackFails \/ Edit!AddToVenv
           \/ Edit!AddFails \/ Edit!CreateMetadata \/ Edit!UpdateVersion \/ Edit!CallFails
           \/ Edit!Cleanup \/ Edit!CleanupFails \/ Edit!Kill
  <2>1. /\ at # "idle" /\ UNCHANGED <<apart, repo, installed, now, name>>
        /\ unclean \subseteq unclean'
        /\ dir' = dir \/ \E d : dir' = [dir EXCEPT ![name][now] = d]
    BY <1>2 DEF Edit!CreateVenv, Edit!Unpack, Edit!UnpackFails, Edit!AddToVenv,
       Edit!AddFails, Edit!CreateMetadata, Edit!UpdateVersion, Edit!CallFails,
       Edit!Cleanup, Edit!CleanupFails, Edit!Kill,
       Edit!Goto, Edit!Leave, Edit!SetDir, Edit!Invocation
  <2>2. \A n \in Name, x \in Edit!Time : n # name \/ x # now => dir'[n][x] = dir[n][x]
    BY <1>0, <2>1 DEF Edit!TypeOK
  <2>3. QED
    BY <2>1, <2>2, ScratchIsApart
<1>3. CASE Edit!OpenTarball \/ Edit!Pack
  <2>1. /\ at # "idle"
        /\ UNCHANGED <<apart, dir, installed, unclean, now, name>>
        /\ \E v : repo' = [repo EXCEPT ![name][now] = v]
    BY <1>3 DEF Edit!OpenTarball, Edit!Pack, Edit!Goto, Edit!Leave, Edit!Invocation
  <2>2. \A n \in Name, x \in Edit!Time : n # name \/ x # now => repo'[n][x] = repo[n][x]
    BY <1>0, <2>1 DEF Edit!TypeOK
  <2>3. QED
    BY <2>1, <2>2, ScratchIsApart
<1>4. ASSUME NEW n \in Name, NEW x \in Edit!Time, Edit!Install(n, x) PROVE InstalledApart'
  <2>1. /\ at = "idle" /\ <<n, x>> \notin installed
        /\ installed' = installed \cup {<<n, x>>}
        /\ UNCHANGED <<apart, repo, unclean, at, name, now>>
    BY <1>4 DEF Edit!Install
  <2>2. <<n, x>> \notin unclean => dir[n][x] = None
    BY <2>1 DEF ScratchIsRemoved, Edit!ScratchIsRemoved
  <2> DEFINE w == [state |-> "ready", meta |-> repo[n][x]]
  <2>3. dir' = [dir EXCEPT ![n][x] = IF dir[n][x] = None THEN w ELSE dir[n][x]]
    BY <1>4 DEF Edit!Install, Edit!TypeOK
  <2> HIDE DEF w
  <2>4. /\ <<n, x>> \notin unclean => dir'[n][x] = w
        /\ \A m \in Name, y \in Edit!Time : m # n \/ y # x => dir'[m][y] = dir[m][y]
    BY <2>2, <2>3 DEF Edit!TypeOK
  <2>5. QED
    BY <2>1, <2>4 DEF InstalledApart, w
<1>5. CASE UNCHANGED Edit!vars
  BY <1>5 DEF Edit!vars, InstalledApart
<1>6. QED
  BY <1>1, <1>2, <1>3, <1>4, <1>5 DEF Edit!Next

(* Where venv_edit does not run beside install_package, what was installed *)
(* of a tarball is unpacked and whole, unless the edit that made it left   *)
(* its scratch directory, which no edit that reports success does.         *)
THEOREM InstalledAreWhole == Edit!Spec => []InstalledIsWhole
<1>1. Edit!Init => InstalledApart
  BY AbsentAssumption DEF Edit!Init, InstalledApart
<1>2. EditInv /\ InstalledApart => InstalledIsWhole
  <2> SUFFICES ASSUME EditInv, InstalledApart, apart, NEW t \in installed \ unclean
               PROVE  dir[t[1]][t[2]] = [state |-> "ready", meta |-> repo[t[1]][t[2]]]
    BY DEF InstalledIsWhole, Edit!InstalledIsWhole
  <2>1. t[1] \in Name /\ t[2] \in Edit!Time /\ t = <<t[1], t[2]>>
    BY DEF EditInv, Edit!TypeOK
  <2>2. QED
    BY <2>1 DEF InstalledApart
<1>3. QED
  BY <1>1, <1>2, ApartStep, ScratchIsTidied, EditInvariant, PTL DEF Edit!Spec

(* Every variable of both programs keeps its type.                         *)
THEOREM RepositoryTypesCorrect == Spec /\ Edit!Spec => []TypesOK
<1>1. IndexInv /\ EditInv => TypesOK
  BY DEF IndexInv, EditInv, TypesOK
<1>2. QED
  BY <1>1, IndexInvariant, EditInvariant, PTL
=============================================================================
