------------------------------ MODULE LabProofs ------------------------------
(***************************************************************************)
(* Proofs about the programs of the developer's and the CI host, for any   *)
(* machines, files and versions and any number of failures.                *)
(***************************************************************************)
EXTENDS Lab, FiniteSetTheorems, SequenceTheorems, WellFoundedInduction, TLAPS

-----------------------------------------------------------------------------
(* virsh_set_pxe_boot *)

(* The next boot, or the present one, is from the device asked for.        *)
BootsWanted ==
  IF live = Off THEN stored = want ELSE live = want \/ (~reset /\ stored = want)

(* What a run knows of the domain at each of its calls.                    *)
KnowsDomain ==
  /\ ppc = "set" => seen = IF live = Off THEN stored ELSE live
  /\ ppc = "destroy" => stored = want
  /\ ppc = "create" => stored = want /\ live = Off
  /\ ppc = "exit" => BootsWanted
  /\ poutcome = "ok" => ppc = "idle"

PxeInv == Pxe!TypeOK /\ Pxe!BootsAsAsked /\ KnowsDomain

LEMMA PxeInit == Pxe!Init => PxeInv
<1>1. Pxe!Init => reset \in BOOLEAN /\ changed \in BOOLEAN
  BY Zenon DEF Pxe!Init
<1> QED
  BY <1>1, LabAssumption DEF Pxe!Init, PxeInv, Pxe!TypeOK, Pxe!Definition,
     Pxe!BootsAsAsked, KnowsDomain, BootsWanted

LEMMA PxeStep == PxeInv /\ [Pxe!Next]_Pxe!vars => PxeInv'
<1> SUFFICES ASSUME PxeInv, [Pxe!Next]_Pxe!vars PROVE PxeInv'
  OBVIOUS
<1> USE LabAssumption DEF PxeInv, Pxe!TypeOK, Pxe!Definition, Pxe!BootsAsAsked, KnowsDomain, BootsWanted
<1>1. ASSUME NEW pxe \in BOOLEAN, NEW r \in BOOLEAN, Pxe!Start(pxe, r) PROVE PxeInv'
  BY <1>1 DEF Pxe!Start
<1>2. CASE Pxe!Read
  BY <1>2 DEF Pxe!Read
<1>3. CASE Pxe!Commit
  <2>1. changed' \in BOOLEAN
    BY <1>3, Zenon DEF Pxe!Commit
  <2>2. changed' <=> seen # want
    BY <1>3, Zenon DEF Pxe!Commit
  <2>3. QED
    BY <1>3, <2>1, <2>2 DEF Pxe!Commit
<1>4. CASE Pxe!Destroy
  BY <1>4 DEF Pxe!Destroy
<1>5. CASE Pxe!Create
  BY <1>5 DEF Pxe!Create
<1>6. CASE Pxe!Exit
  BY <1>6 DEF Pxe!Exit
<1>7. CASE Pxe!Fail
  BY <1>7 DEF Pxe!Fail
<1>8. CASE Pxe!Power
  BY <1>8 DEF Pxe!Power
<1>9. CASE UNCHANGED Pxe!vars
  BY <1>9 DEF Pxe!vars
<1> QED
  BY <1>1, <1>2, <1>3, <1>4, <1>5, <1>6, <1>7, <1>8, <1>9 DEF Pxe!Next

(* A run that succeeds leaves a domain that runs from the device asked     *)
(* for, or, when it is off or the run does not reset, will be started from *)
(* it, whatever failed runs and runs without a reset left behind.  Of a    *)
(* domain that already runs as asked the next start is not promised.       *)
THEOREM DomainBootsAsAsked == Pxe!Spec => []BootsAsAsked
<1>1. PxeInv => BootsAsAsked
  BY DEF PxeInv, BootsAsAsked
<1> QED
  BY PxeInit, PxeStep, <1>1, PTL DEF Pxe!Spec

-----------------------------------------------------------------------------
(* get-cached-file *)

(* What the tasks done so far have made sure of.                           *)
Ensured ==
  /\ cpc \in {"validate", "download", "move", "link", "relink"} => sha256 = cwant
  /\ cpc = "move" => tmp = cwant
  /\ cpc \in {"link", "relink"} => cfile = cwant
  /\ coutcome = "ok" => cpc = "idle"
  /\ cpc \in {"compare", "sum", "validate", "download"} => ctries <= Retries

CacheInv == Cached!TypeOK /\ Cached!CachedIsCurrent /\ Ensured

LEMMA CacheInit == Cached!Init => CacheInv
<1>1. Cached!Init => valid \in BOOLEAN
  BY Zenon DEF Cached!Init
<1> QED
  BY <1>1, LabAssumption DEF Cached!Init, CacheInv, Cached!TypeOK,
     Cached!CachedIsCurrent, Ensured

LEMMA CacheStep == CacheInv /\ [Cached!Next]_Cached!vars => CacheInv'
<1> SUFFICES ASSUME CacheInv, [Cached!Next]_Cached!vars PROVE CacheInv'
  OBVIOUS
<1> USE LabAssumption DEF CacheInv, Cached!TypeOK, Cached!CachedIsCurrent, Ensured, Cached!server, Cached!cache
<1>1. ASSUME NEW v \in Version, Cached!SwapArtifact(v) \/ Cached!SwapSum(v) PROVE CacheInv'
  BY <1>1 DEF Cached!SwapArtifact, Cached!SwapSum
<1>2. CASE Cached!FetchSum
  BY <1>2 DEF Cached!FetchSum
<1>3. CASE Cached!DeleteFile
  BY <1>3 DEF Cached!DeleteFile
<1>4. CASE Cached!UpdateSum
  BY <1>4 DEF Cached!UpdateSum
<1>5. CASE Cached!Validate
  <2>1. valid' \in BOOLEAN
    BY <1>5, Zenon DEF Cached!Validate
  <2>2. valid' <=> cfile = sha256
    BY <1>5, Zenon DEF Cached!Validate
  <2>3. QED
    BY <1>5, <2>1, <2>2 DEF Cached!Validate
<1>6. CASE Cached!Download
  BY <1>6 DEF Cached!Download
<1>7. CASE Cached!Move
  BY <1>7 DEF Cached!Move
<1>8. CASE Cached!Unlink
  BY <1>8 DEF Cached!Unlink
<1>9. CASE Cached!Link
  BY <1>9 DEF Cached!Link
<1>10. CASE Cached!Kill
  BY <1>10 DEF Cached!Kill
<1>11. CASE UNCHANGED Cached!vars
  BY <1>11 DEF Cached!vars
<1> QED
  BY <1>1, <1>2, <1>3, <1>4, <1>5, <1>6, <1>7, <1>8, <1>9, <1>10, <1>11 DEF Cached!Next

(* When the role succeeds, the cache has the artifact whose checksum it    *)
(* read in this run, however earlier runs were stopped and however the     *)
(* server's two files changed meanwhile.                                   *)
THEOREM SuccessIsCurrent == Cached!Spec => []CachedIsCurrent
<1>1. CacheInv => CachedIsCurrent
  BY DEF CacheInv, CachedIsCurrent
<1> QED
  BY CacheInit, CacheStep, <1>1, PTL DEF Cached!Spec

-----------------------------------------------------------------------------
(* add-distros *)

(* What is recorded is what was chosen until the file is cut, what is      *)
(* about to be written is what this run chose, and until then the list is  *)
(* the one that was read.                                                  *)
Records ==
  /\ file # Torn => \A n \in file.servers : chosen[n] = Choice!Says(file, n)
  /\ dpc = "choose" => file # Torn /\ data = file
  /\ dpc = "commit" =>
       /\ file # Torn /\ data # None /\ data.servers = file.servers
       /\ \A n \in data.servers :
            Choice!Says(data, n)
            = IF n \in Choice!Told THEN Choice!DistroOf(n) ELSE chosen[n]
       /\ ~dirty => \A n \in Node : data.distro[n] = file.distro[n]
  /\ dpc = "save" =>
       /\ data # None
       /\ \A n \in data.servers : chosen[n] = Choice!Says(data, n)
       /\ ~cut => data.servers = Node
  /\ ~cut => IF file = Torn THEN dpc = "save" ELSE file.servers = Node
  /\ doutcome = "ok" => dpc = "idle" /\ file # Torn

DistroInv == Choice!TypeOK /\ Records

LEMMA DistroOfType ==
  ASSUME req \in Choice!Request, NEW n \in Node
  PROVE  Choice!DistroOf(n) \in Distro
BY DistroAssumption DEF Choice!DistroOf, Choice!Request

LEMMA DistroInit == Choice!Init => DistroInv
<1> SUFFICES ASSUME Choice!Init PROVE DistroInv
  OBVIOUS
<1>1. dirty \in BOOLEAN /\ cut \in BOOLEAN
  BY Zenon DEF Choice!Init
<1>2. /\ file \in Choice!File /\ file.servers = Node
      /\ data = None /\ dpc = "idle" /\ doutcome = "none" /\ killed = 0
      /\ chosen = [n \in Node |-> Choice!Says(file, n)]
  BY DEF Choice!Init, Choice!File
<1>3. \A n \in Node : Choice!Says(file, n) \in Distro
  BY <1>2, DistroAssumption DEF Choice!Says, Choice!File
<1>4. QED
  BY <1>1, <1>2, <1>3, DistroAssumption DEF DistroInv, Choice!TypeOK, Records

(* What is left of a document says of each node that it lists what the     *)
(* document said.                                                          *)
LEMMA BeginningSays ==
  ASSUME data \in Choice!File, NEW last \in Node, NEW stub \in Node \cup {None, Torn},
         NEW f, f = Choice!Beginning(last, stub)
  PROVE  /\ f \in Choice!File
         /\ \A n \in f.servers : n \in data.servers /\ Choice!Says(f, n) = Choice!Says(data, n)
BY DEF Choice!Beginning, Choice!File, Choice!Says

LEMMA DistroStep == DistroInv /\ [Choice!Next]_Choice!vars => DistroInv'
<1> SUFFICES ASSUME DistroInv, [Choice!Next]_Choice!vars PROVE DistroInv'
  OBVIOUS
<1> USE DistroAssumption DEF DistroInv, Choice!TypeOK, Records, Choice!Stop
<1>1. ASSUME NEW r \in Choice!Request, Choice!Start(r) PROVE DistroInv'
  BY <1>1 DEF Choice!Start, Choice!Says
<1>2. CASE Choice!Load
  BY <1>2 DEF Choice!Load, Choice!Says
<1>3. CASE Choice!Choose
  <2>1. /\ dpc = "choose" /\ data = file /\ data \in Choice!File
        /\ UNCHANGED <<file, killed, cut, chosen>>
    BY <1>3 DEF Choice!Choose
  <2>2. CASE data.stub # None /\ Choice!Cobbled(data.stub)
    <3>1. /\ dpc' = "idle" /\ doutcome' = "crashed" /\ data' = None /\ dirty' = FALSE
      BY <1>3, <2>2 DEF Choice!Choose
    <3>2. \A n \in Node : Choice!Says(file', n) = Choice!Says(file, n)
      BY <2>1 DEF Choice!Says
    <3>3. \A n \in file.servers : n \in Node
      BY <2>1 DEF Choice!File
    <3>4. QED
      BY <2>1, <3>1, <3>2, <3>3
  <2>3. CASE ~(data.stub # None /\ Choice!Cobbled(data.stub))
    <3>1. /\ data' = [data EXCEPT !.distro = [n \in Node |-> Choice!DistroId(n)]]
          /\ dpc' = "commit" /\ UNCHANGED <<req, doutcome>>
      BY <1>3, <2>3 DEF Choice!Choose
    <3> DEFINE d == \E n \in Choice!Told :
                      Choice!DistroOf(n) # Default \/ data.distro[n] # None
    <3>2. dirty' = d
      BY <1>3, <2>3, Zenon DEF Choice!Choose
    <3>3. dirty' \in BOOLEAN /\ (dirty' <=> d)
      BY <3>2
    <3> HIDE DEF d
    <3>4. \A n \in Node : Choice!DistroOf(n) \in Distro
      BY <2>1, DistroOfType
    <3>5. \A n \in Node : Choice!DistroId(n) \in Distro \cup {None}
      BY <2>1, <3>4 DEF Choice!DistroId, Choice!File
    <3>6. /\ data' \in Choice!File /\ data'.servers = data.servers
          /\ \A n \in Node : data'.distro[n] = Choice!DistroId(n)
      BY <2>1, <3>1, <3>5 DEF Choice!File
    <3>7. /\ Choice!Told' = Choice!Told
          /\ \A n \in Node : Choice!DistroOf(n)' = Choice!DistroOf(n)
      BY <3>1, <3>6 DEF Choice!Told, Choice!Cobbled, Choice!DistroOf
    <3>8. ASSUME NEW n \in data.servers
          PROVE  Choice!Says(data', n)
                 = IF n \in Choice!Told THEN Choice!DistroOf(n) ELSE chosen[n]
      <4>1. n \in Node /\ chosen[n] = Choice!Says(data, n)
        BY <2>1 DEF Choice!File
      <4>2. QED
        BY <3>4, <3>6, <4>1 DEF Choice!DistroId, Choice!Says
    <3>9. ASSUME ~dirty', NEW n \in Node PROVE data'.distro[n] = file.distro[n]
      BY <2>1, <3>3, <3>6, <3>9 DEF d, Choice!DistroId
    <3>10. \A n \in Node : Choice!Says(file', n) = Choice!Says(file, n)
      BY <2>1 DEF Choice!Says
    <3>11. \A n \in data.servers : n \in Node
      BY <2>1 DEF Choice!File
    <3>12. \A n \in data'.servers :
             Choice!Says(data', n)
             = IF n \in Choice!Told' THEN Choice!DistroOf(n)' ELSE chosen'[n]
      BY <2>1, <3>6, <3>7, <3>8, <3>11
    <3>13. QED
      BY <2>1, <3>1, <3>3, <3>6, <3>9, <3>10, <3>11, <3>12
  <2>4. QED
    BY <2>2, <2>3
<1>4. ASSUME Choice!Record, dpc = "commit", data \in Choice!File
      PROVE  /\ chosen' \in [Node -> Distro]
             /\ \A n \in data.servers : chosen'[n] = Choice!Says(data, n)
  <2>1. chosen' = [n \in Node |-> IF n \in Choice!Told THEN Choice!DistroOf(n) ELSE chosen[n]]
    BY <1>4 DEF Choice!Record
  <2>2. \A n \in Node : Choice!DistroOf(n) \in Distro
    BY <1>4, DistroOfType
  <2>3. \A n \in data.servers : n \in Node
    BY <1>4 DEF Choice!File
  <2>4. QED
    BY <1>4, <2>1, <2>2, <2>3
<1>5. CASE Choice!NotDirty
  <2>1. /\ dpc = "commit" /\ ~dirty /\ data \in Choice!File /\ Choice!Record
        /\ file' = file /\ file # Torn /\ file \in Choice!File
    BY <1>5 DEF Choice!NotDirty
  <2>2. \A n \in file.servers : n \in Node /\ Choice!Says(file', n) = Choice!Says(data, n)
    BY <2>1 DEF Choice!Says, Choice!File
  <2>3. dirty' \in BOOLEAN
    BY <1>5 DEF Choice!NotDirty
  <2>4. QED
    BY <1>4, <1>5, <2>1, <2>2, <2>3 DEF Choice!NotDirty
<1>6. CASE Choice!Truncate
  <2>1. /\ dpc = "commit" /\ data \in Choice!File /\ Choice!Record /\ file' = Torn
        /\ dpc' = "save" /\ UNCHANGED <<data, dirty, req, doutcome, killed, cut>>
    BY <1>6 DEF Choice!Truncate
  <2>2. \A n \in Node : Choice!Says(data', n) = Choice!Says(data, n)
    BY <2>1 DEF Choice!Says
  <2>3. \A n \in data.servers : n \in Node
    BY <2>1 DEF Choice!File
  <2>4. QED
    BY <1>4, <2>1, <2>2, <2>3
<1>7. CASE Choice!Save
  <2>1. /\ dpc = "save" /\ data \in Choice!File /\ file' = data /\ data # Torn
        /\ dpc' = "idle" /\ data' = None /\ dirty' = FALSE /\ UNCHANGED <<killed, cut, chosen>>
    BY <1>7 DEF Choice!Save
  <2>2. \A n \in data.servers : Choice!Says(file', n) = Choice!Says(data, n)
    BY <2>1 DEF Choice!Says
  <2>3. QED
    BY <2>1, <2>2
<1>8. CASE Choice!Kill
  <2>1. /\ dpc \notin {"idle", "save"}
        /\ dpc' = "idle" /\ doutcome' = "killed" /\ data' = None /\ dirty' = FALSE
        /\ killed' \in 0 .. Kills /\ UNCHANGED <<file, cut, chosen>>
    BY <1>8 DEF Choice!Kill
  <2>2. QED
    BY <2>1 DEF Choice!Says
<1>9. CASE Choice!CutShort
  <2>1. /\ dpc = "save" /\ data \in Choice!File
        /\ dpc' = "idle" /\ doutcome' = "killed" /\ data' = None /\ dirty' = FALSE
        /\ killed' \in 0 .. Kills /\ chosen' = chosen
    BY <1>9 DEF Choice!CutShort
  <2>2. cut' = TRUE
    BY <1>9, Zenon DEF Choice!CutShort
  <2>3. /\ file' \in Choice!File \cup {Torn}
        /\ file' # Torn => \A n \in file'.servers : chosen'[n] = Choice!Says(file', n)
    <3>1. CASE file' = Torn
      BY <3>1
    <3>2. CASE file' = [servers |-> {}, distro |-> [n \in Node |-> None], stub |-> Torn]
      BY <3>2 DEF Choice!File
    <3>3. ASSUME NEW last \in data.servers, NEW stub \in Node \cup {None, Torn},
                 file' = Choice!Beginning(last, stub)
          PROVE  /\ file' \in Choice!File \cup {Torn}
                 /\ file' # Torn =>
                      \A n \in file'.servers : chosen'[n] = Choice!Says(file', n)
      <4>1. last \in Node
        BY <2>1 DEF Choice!File
      <4>2. /\ file' \in Choice!File
            /\ \A n \in file'.servers :
                 n \in data.servers /\ Choice!Says(file', n) = Choice!Says(data, n)
        BY <2>1, <3>3, <4>1, BeginningSays
      <4>3. QED
        BY <2>1, <4>2
    <3>4. QED
      BY <1>9, <3>1, <3>2, <3>3 DEF Choice!CutShort
  <2>4. QED
    BY <2>1, <2>2, <2>3
<1>10. CASE UNCHANGED Choice!vars
  BY <1>10 DEF Choice!vars, Choice!Says, Choice!Told, Choice!Cobbled, Choice!DistroOf
<1>11. QED
  BY <1>1, <1>2, <1>3, <1>5, <1>6, <1>7, <1>8, <1>9, <1>10 DEF Choice!Next

(* Between runs, servers.yml says of every node that it lists what the     *)
(* last run that was told of it and wrote it down chose, also after runs   *)
(* that were stopped while they wrote; for any nodes, distributions and    *)
(* options.                                                                *)
THEOREM WhatIsRecordedWasChosen == Choice!Spec => []RecordedIsChosen
<1>1. DistroInv => RecordedIsChosen
  BY DEF DistroInv, Records, RecordedIsChosen, Choice!RecordedIsChosen
<1>2. QED
  BY DistroInit, DistroStep, <1>1, PTL DEF Choice!Spec

-----------------------------------------------------------------------------
(* update-non-deployer-nodes *)

(* The places in a set of numbers are counted without a gap.               *)
UpTo(S, i) == Cardinality(S \cap (1 .. i))

LEMMA PlacesAreCounted ==
  ASSUME NEW n \in Nat, NEW S, S \subseteq 1 .. n
  PROVE  /\ Cardinality(S) \in Nat
         /\ \A i \in S : UpTo(S, i) \in 1 .. Cardinality(S)
         /\ \A i, j \in S : i < j => UpTo(S, i) < UpTo(S, j)
         /\ \A k \in 1 .. Cardinality(S) : \E i \in S : UpTo(S, i) = k
<1> DEFINE N == Cardinality(S)
<1> DEFINE P(i) == S \cap (1 .. i)
<1>1. IsFiniteSet(1 .. n)
  BY FS_Interval
<1>2. IsFiniteSet(S)
  BY <1>1, FS_Subset
<1>3. N \in Nat
  BY <1>2, FS_CardinalityType
<1>4. ASSUME NEW i \in S
      PROVE  /\ IsFiniteSet(P(i)) /\ Cardinality(P(i)) \in 1 .. N
             /\ \A j \in S : i < j => Cardinality(P(i)) < Cardinality(P(j))
  <2>1. IsFiniteSet(P(i)) /\ Cardinality(P(i)) <= N
    BY <1>2, FS_Subset
  <2>2. Cardinality(P(i)) \in Nat
    BY <2>1, FS_CardinalityType
  <2>3. i \in P(i)
    OBVIOUS
  <2>4. Cardinality(P(i)) # 0
    BY <2>1, <2>3, FS_EmptySet
  <2>5. ASSUME NEW j \in S, i < j PROVE Cardinality(P(i)) < Cardinality(P(j))
    <3>1. IsFiniteSet(P(j))
      BY <1>2, FS_Subset
    <3>2. Cardinality(P(j)) \in Nat
      BY <3>1, FS_CardinalityType
    <3>3. P(i) \in SUBSET P(j)
      BY <2>5
    <3>4. P(i) # P(j)
      BY <2>5
    <3>5. QED
      BY <2>2, <3>1, <3>2, <3>3, <3>4, FS_Subset
  <2>6. QED
    BY <1>3, <2>1, <2>2, <2>4, <2>5
<1> DEFINE f == [i \in S |-> Cardinality(P(i))]
<1>5. f \in Injection(S, 1 .. N)
  <2>1. f \in [S -> 1 .. N]
    BY <1>4
  <2>2. ASSUME NEW i \in S, NEW j \in S, f[i] = f[j] PROVE i = j
    <3>1. Cardinality(P(i)) = Cardinality(P(j))
      BY <2>2
    <3>2. Cardinality(P(i)) \in 1 .. N
      BY <1>4
    <3>3. /\ i < j => Cardinality(P(i)) < Cardinality(P(j))
          /\ j < i => Cardinality(P(j)) < Cardinality(P(i))
      BY <1>4
    <3>4. QED
      BY <1>3, <3>1, <3>2, <3>3
  <2>3. QED
    BY <2>1, <2>2 DEF Injection, IsInjective
<1>6. IsFiniteSet(1 .. N) /\ Cardinality(1 .. N) = N
  BY <1>3, FS_Interval
<1>7. f \in Surjection(S, 1 .. N)
  BY <1>5, <1>6, FS_Injection
<1>8. \A k \in 1 .. N : \E i \in S : f[i] = k
  BY <1>7 DEF Surjection
<1>9. QED
  BY <1>3, <1>4, <1>8 DEF UpTo

(* Dropping repeated mentions loses no node.                               *)
LEMMA UniqNamesAll ==
  ASSUME NEW c \in Seq(Node)
  PROVE  /\ Update!Uniq(c) \in Seq(Node)
         /\ \A i \in DOMAIN c : \E k \in DOMAIN Update!Uniq(c) : Update!Uniq(c)[k] = c[i]
<1> DEFINE n == Len(c)
<1> DEFINE first == {i \in DOMAIN c : \A j \in 1 .. i - 1 : c[j] # c[i]}
<1> DEFINE N == Cardinality(first)
<1> DEFINE at(k) == CHOOSE i \in first : UpTo(first, i) = k
<1>1. /\ n \in Nat /\ DOMAIN c = 1 .. n /\ first \subseteq 1 .. n
      /\ \A i \in 1 .. n : c[i] \in Node
  OBVIOUS
<1>2. Update!Uniq(c) = [k \in 1 .. N |-> c[at(k)]]
  BY DEF Update!Uniq, Update!Cardinality, Cardinality, UpTo
<1>3. ASSUME NEW i \in DOMAIN c
      PROVE  \E j \in first : c[j] = c[i]
  <2> DEFINE T == {j \in DOMAIN c : c[j] = c[i]}
  <2>1. T \subseteq Nat /\ T # {}
    BY <1>1
  <2>2. PICK j \in T : \A k \in T : ~ (<<k, j>> \in OpToRel(<, Nat))
    BY <2>1, NatLessThanWellFounded, WFMin, Zenon
  <2>3. \A k \in T : ~ (k < j)
    BY <2>1, <2>2 DEF OpToRel
  <2>4. j \in first
    BY <1>1, <2>3
  <2>5. QED
    BY <2>4
<1> HIDE DEF first
<1>4. /\ N \in Nat
      /\ \A i \in first : UpTo(first, i) \in 1 .. N
      /\ \A i, j \in first : i < j => UpTo(first, i) < UpTo(first, j)
      /\ \A k \in 1 .. N : \E i \in first : UpTo(first, i) = k
  BY <1>1, PlacesAreCounted
<1> HIDE DEF N
<1>5. \A k \in 1 .. N : at(k) \in first /\ UpTo(first, at(k)) = k
  BY <1>4
<1>6. \A i \in first : at(UpTo(first, i)) = i
  <2> SUFFICES ASSUME NEW i \in first PROVE at(UpTo(first, i)) = i
    OBVIOUS
  <2> DEFINE j == at(UpTo(first, i))
  <2>1. j \in first /\ UpTo(first, j) = UpTo(first, i)
    BY <1>4, <1>5
  <2> HIDE DEF j
  <2>2. ~ (i < j) /\ ~ (j < i)
    BY <1>4, <2>1
  <2>3. i \in Int /\ j \in Int
    BY <1>1, <2>1
  <2>4. i = j
    BY <2>2, <2>3
  <2>5. QED
    BY <2>4 DEF j
<1> HIDE DEF at
<1>7. \A k \in 1 .. N : c[at(k)] \in Node
  BY <1>1, <1>5
<1>8. Update!Uniq(c) \in Seq(Node) /\ DOMAIN Update!Uniq(c) = 1 .. N
  BY <1>2, <1>4, <1>7
<1>9. ASSUME NEW i \in DOMAIN c
      PROVE  \E k \in DOMAIN Update!Uniq(c) : Update!Uniq(c)[k] = c[i]
  <2>1. PICK j \in first : c[j] = c[i]
    BY <1>3
  <2>2. UpTo(first, j) \in 1 .. N /\ at(UpTo(first, j)) = j
    BY <1>4, <1>6
  <2>3. QED
    BY <1>2, <1>8, <2>1, <2>2
<1>10. QED
  BY <1>8, <1>9

All == {"pkgs", "update", "reboot"}

(* The actions still due for the first of the nodes.                       *)
Due ==
  CASE actions = Update!Actions -> All
    [] actions = <<"update", "reboot">> -> {"update", "reboot"}
    [] actions = <<"reboot">> -> {"reboot"}
    [] OTHER -> {}

(* A node that needs something is still to come, or nothing is known of    *)
(* it; what the present one needs is what is still due for it, because no  *)
(* action creates a need that an earlier one would have met.               *)
NeedsAreDue ==
  /\ actions \in {Update!Actions, <<"update", "reboot">>, <<"reboot">>, << >>}
  /\ \A n \in Node \ lost : needs[n] = {} \/ \E i \in DOMAIN nodes : nodes[i] = n
  /\ nodes # << >> => Head(nodes) \in lost \/ needs[Head(nodes)] \subseteq Due
  /\ uoutcome = "ok" => nodes = << >>

UpdateInv == Update!TypeOK /\ NeedsAreDue

LEMMA UpdateInit == Update!Init => UpdateInv
<1> SUFFICES ASSUME Update!Init PROVE UpdateInv
  OBVIOUS
<1>1. PICK c \in Candidates : nodes = Update!Uniq(c)
  BY DEF Update!Init
<1>2. c \in Seq(Node) /\ \A n \in Node : \E i \in DOMAIN c : c[i] = n
  BY CandidatesAssumption
<1>3. nodes \in Seq(Node) /\ \A n \in Node : \E k \in DOMAIN nodes : nodes[k] = n
  BY <1>1, <1>2, UniqNamesAll
<1>4. nodes # << >> => Head(nodes) \in Node
  BY <1>3
<1>5. Due = All
  BY DEF Update!Init, Due, Update!Actions, All
<1>6. /\ needs \in [Node -> SUBSET All] /\ actions = Update!Actions
      /\ uoutcome = "running" /\ lost = {}
  BY DEF Update!Init, All
<1>7. Update!TypeOK
  BY <1>3, <1>6 DEF Update!TypeOK, All
<1>8. NeedsAreDue
  BY <1>3, <1>4, <1>5, <1>6 DEF NeedsAreDue
<1>9. QED
  BY <1>7, <1>8 DEF UpdateInv

(* What is still due after an action, and what that action may create.     *)
LEMMA DueAfter ==
  ASSUME NeedsAreDue, actions # << >>, actions' = Tail(actions)
  PROVE  /\ Head(actions) \in All /\ Due' = Due \ {Head(actions)} /\ Head(actions) \in Due
         /\ actions' \in {<<"update", "reboot">>, <<"reboot">>, << >>}
         /\ \A more \in Update!Creates(Head(actions)) : more \subseteq Due'
<1>1. CASE actions = Update!Actions
  BY <1>1 DEF Update!Actions, Due, All, Update!Creates
<1>2. CASE actions = <<"update", "reboot">>
  BY <1>2 DEF Update!Actions, Due, All, Update!Creates
<1>3. CASE actions = <<"reboot">>
  BY <1>3 DEF Update!Actions, Due, All, Update!Creates
<1>4. QED
  BY <1>1, <1>2, <1>3 DEF NeedsAreDue

LEMMA PlayKeeps ==
  ASSUME UpdateInv, NEW what, Update!Doing(what), Update!Play(what)
  PROVE  UpdateInv'
<1> DEFINE h == Head(nodes)
<1>1. /\ nodes \in Seq(Node) /\ nodes # << >> /\ actions # << >> /\ Head(actions) = what
      /\ actions' = Tail(actions) /\ UNCHANGED <<nodes, uoutcome, lost>> /\ uoutcome = "running"
  BY DEF UpdateInv, Update!TypeOK, Update!Doing, Update!Play
<1>2. h \in Node /\ h = nodes[1] /\ 1 \in DOMAIN nodes
  BY <1>1
<1>3. /\ what \in All /\ Due' = Due \ {what}
      /\ actions' \in {<<"update", "reboot">>, <<"reboot">>, << >>}
      /\ \A more \in Update!Creates(what) : more \subseteq Due'
  BY <1>1, DueAfter DEF UpdateInv
<1>4. PICK more \in Update!Creates(what) :
        needs' = [needs EXCEPT ![h] = (@ \ {what}) \cup (IF what \in @ THEN more ELSE {})]
  BY DEF Update!Play
<1>5. more \subseteq Due' /\ more \subseteq All
  BY <1>3 DEF Due, All
<1>6. needs' \in [Node -> SUBSET All]
  BY <1>2, <1>4, <1>5 DEF UpdateInv, Update!TypeOK, All
<1>7. /\ needs'[h] = (needs[h] \ {what}) \cup (IF what \in needs[h] THEN more ELSE {})
      /\ \A n \in Node \ {h} : needs'[n] = needs[n]
  BY <1>2, <1>4 DEF UpdateInv, Update!TypeOK
<1>8. h \in lost \/ needs'[h] \subseteq Due'
  BY <1>1, <1>3, <1>5, <1>7 DEF UpdateInv, NeedsAreDue
<1>9. QED
  BY <1>1, <1>2, <1>3, <1>6, <1>7, <1>8 DEF UpdateInv, Update!TypeOK, NeedsAreDue, All

LEMMA UpdateStep == UpdateInv /\ [Update!Next]_Update!vars => UpdateInv'
<1> SUFFICES ASSUME UpdateInv, [Update!Next]_Update!vars PROVE UpdateInv'
  OBVIOUS
<1>1. CASE Update!UpdatePkgs
  BY <1>1, PlayKeeps DEF Update!UpdatePkgs
<1>2. ASSUME NEW what \in {"update", "reboot"}, Update!RunPlaybook(what) PROVE UpdateInv'
  BY <1>2, PlayKeeps DEF Update!RunPlaybook
<1>3. ASSUME NEW what \in {"update", "reboot"},
             Update!NotNeeded(what) \/ Update!QueryFails(what)
      PROVE  UpdateInv'
  <2>1. /\ nodes \in Seq(Node) /\ nodes # << >> /\ actions # << >> /\ Head(actions) = what
        /\ actions' = Tail(actions) /\ UNCHANGED <<needs, nodes, uoutcome>>
        /\ uoutcome = "running" /\ lost' \in {lost, lost \cup {Head(nodes)}}
        /\ what \notin needs[Head(nodes)] \/ Head(nodes) \in lost'
    BY <1>3 DEF UpdateInv, Update!TypeOK, Update!Doing, Update!NotNeeded, Update!QueryFails
  <2>2. Head(nodes) \in Node
    BY <2>1
  <2>3. /\ Due' = Due \ {what}
        /\ actions' \in {<<"update", "reboot">>, <<"reboot">>, << >>}
    BY <2>1, DueAfter DEF UpdateInv
  <2>4. QED
    BY <2>1, <2>2, <2>3 DEF UpdateInv, Update!TypeOK, NeedsAreDue
<1>4. CASE Update!PlaybookFails
  BY <1>4 DEF Update!PlaybookFails, UpdateInv, Update!TypeOK, NeedsAreDue, Due
<1>5. CASE Update!NextNode
  <2>1. /\ nodes \in Seq(Node) /\ nodes # << >> /\ nodes' = Tail(nodes) /\ actions = << >>
        /\ actions' = Update!Actions /\ UNCHANGED <<needs, uoutcome, lost>>
        /\ uoutcome = "running"
    BY <1>5 DEF UpdateInv, Update!TypeOK, Update!NextNode
  <2>2. Head(nodes) \in lost \/ needs[Head(nodes)] = {}
    BY <2>1 DEF UpdateInv, NeedsAreDue, Due, Update!Actions
  <2>3. ASSUME NEW i \in DOMAIN nodes
        PROVE  nodes[i] = Head(nodes) \/ \E j \in DOMAIN nodes' : nodes'[j] = nodes[i]
    <3>1. CASE i = 1
      BY <2>1, <3>1
    <3>2. CASE i # 1
      <4>1. i - 1 \in DOMAIN nodes' /\ nodes'[i - 1] = nodes[i]
        BY <2>1, <3>2
      <4>2. QED
        BY <4>1
    <3>3. QED
      BY <3>1, <3>2
  <2>4. nodes' \in Seq(Node) /\ (nodes' # << >> => Head(nodes') \in Node)
    BY <2>1
  <2>5. Due' = All
    BY <2>1 DEF Due, Update!Actions, All
  <2>6. ASSUME NEW n \in Node \ lost
        PROVE  needs[n] = {} \/ \E j \in DOMAIN nodes' : nodes'[j] = n
    BY <2>2, <2>3 DEF UpdateInv, NeedsAreDue
  <2>7. \A n \in Node : needs[n] \subseteq All
    BY DEF UpdateInv, Update!TypeOK, All
  <2>8. QED
    BY <2>1, <2>4, <2>5, <2>6, <2>7 DEF UpdateInv, Update!TypeOK, NeedsAreDue
<1>6. CASE Update!Finish
  BY <1>6 DEF Update!Finish, UpdateInv, Update!TypeOK, NeedsAreDue, Due
<1>7. CASE UNCHANGED Update!vars
  BY <1>7 DEF Update!vars, UpdateInv, Update!TypeOK, NeedsAreDue, Due
<1>8. QED
  BY <1>1, <1>2, <1>3, <1>4, <1>5, <1>6, <1>7 DEF Update!Next

(* When the script is through, no node needs anything, unless its status   *)
(* could not be read; for any number of nodes and any order, repeated      *)
(* mentions included.                                                      *)
THEOREM NodesAreUpToDate == Update!Spec => []SuccessIsUpToDate
<1>1. UpdateInv => SuccessIsUpToDate
  BY DEF UpdateInv, NeedsAreDue, SuccessIsUpToDate, Update!SuccessIsUpToDate
<1>2. QED
  BY UpdateInit, UpdateStep, <1>1, PTL DEF Update!Spec

-----------------------------------------------------------------------------
(* The vagrant inventory *)

(* The block that begins at a line is read, and no blank line has ended it.*)
IsOpen(s) ==
  /\ s \in DOMAIN lines /\ s < next /\ Answers!Begins(s)
  /\ \A k \in Answers!Blanks : ~ (s < k /\ k < next)

(* The last line read at which a block of the box begins.                  *)
IsLast(b, s) ==
  /\ s \in DOMAIN lines /\ s < next /\ Answers!Begins(s) /\ lines[s].word = b
  /\ \A i \in DOMAIN lines :
       i < next /\ Answers!Begins(i) /\ lines[i].word = b => i <= s

(* The lines read of the block that begins at s that set an option.        *)
Said(s, o) ==
  {k \in DOMAIN lines :
     /\ k >= s /\ k < next /\ lines[k].kind = "option" /\ lines[k].word = o
     /\ \A j \in Answers!Blanks : j < s \/ k < j}

Latest(s, o, at) == at \in Said(s, o) /\ \A k \in Said(s, o) : k <= at

(* Outside a block every Host line read is behind a blank one; inside, the *)
(* block is the last of its box; and config has what the last block of     *)
(* each box has said so far.                                               *)
Reads ==
  /\ \E n \in 0 .. MaxLines : lines \in [1 .. n -> Answers!Line] /\ next \in 1 .. n + 1
  /\ box = None =>
       \A j \in DOMAIN lines : j < next /\ lines[j].kind = "host" =>
         \E k \in Answers!Blanks : j < k /\ k < next
  /\ box # None => box \in DOMAIN config /\ \E s \in DOMAIN lines : IsOpen(s) /\ lines[s].word = box
  /\ \A b \in DOMAIN config : \E s \in DOMAIN lines :
       IsLast(b, s) /\ \A o \in DOMAIN config[b] \ {"Host"} : Latest(s, o, config[b][o])
  /\ ioutcome = "ok" => next \notin DOMAIN lines /\ asked \in DOMAIN config

ReadsInv == Answers!TypeOK /\ Reads

(* What one more line changes.                                             *)
ReadOn == next \in DOMAIN lines /\ next' = next + 1 /\ lines' = lines /\ asked' = asked /\ ioutcome' = "reading"
Index == \E n \in Nat : DOMAIN lines = 1 .. n /\ next \in Nat

LEMMA SaidOn ==
  ASSUME Index, ReadOn, NEW s \in DOMAIN lines, s < next, NEW o,
         \/ lines[next].kind # "option" \/ lines[next].word # o
         \/ \E k \in Answers!Blanks : s < k /\ k < next
  PROVE  Said(s, o)' = Said(s, o)
BY DEF Index, ReadOn, Said, Answers!Blanks

LEMMA SaidMore ==
  ASSUME Index, ReadOn, NEW s \in DOMAIN lines, IsOpen(s),
         lines[next].kind = "option", NEW o, lines[next].word = o
  PROVE  Said(s, o)' = Said(s, o) \cup {next}
<1>1. s \in Nat /\ next \in Nat /\ s < next /\ DOMAIN lines \subseteq Nat
  BY DEF Index, IsOpen
<1>2. ASSUME NEW j \in Answers!Blanks PROVE j < s \/ next < j
  <2>1. j \in Nat /\ lines[j].kind = "blank" /\ j # next /\ j # s
    BY <1>1 DEF Answers!Blanks, IsOpen, Answers!Begins
  <2>2. QED
    BY <1>1, <2>1 DEF IsOpen
<1>3. next \in Said(s, o)'
  BY <1>1, <1>2 DEF ReadOn, Said, Answers!Blanks
<1>4. \A k : k # next => (k \in Said(s, o)' <=> k \in Said(s, o))
  BY <1>1 DEF ReadOn, Said, Answers!Blanks
<1>5. next \notin Said(s, o)
  BY <1>1 DEF Said
<1>6. QED
  BY <1>3, <1>4, <1>5

LEMMA LastOn ==
  ASSUME Index, ReadOn, NEW b, NEW s \in DOMAIN lines, IsLast(b, s),
         ~ (Answers!Begins(next) /\ lines[next].word = b)
  PROVE  IsLast(b, s)'
BY DEF Index, ReadOn, IsLast, Answers!Begins, Answers!Blanks

(* A block that is open is the last of its box, and no other is open.      *)
LEMMA OpenIsLast ==
  ASSUME Index, NEW b, NEW s \in DOMAIN lines, IsLast(b, s),
         NEW t \in DOMAIN lines, IsOpen(t)
  PROVE  \/ lines[t].word = b /\ s = t
         \/ lines[t].word # b /\ \E k \in Answers!Blanks : s < k /\ k < next
<1>1. lines[s].kind = "host" /\ lines[t].kind = "host" /\ s \in Nat /\ t \in Nat /\ next \in Nat
  BY DEF Index, IsLast, IsOpen, Answers!Begins
<1>2. CASE s < t
  <2>1. s \in 1 .. t - 1
    BY <1>1, <1>2 DEF Index
  <2>2. PICK k \in Answers!Blanks : s < k /\ k < t
    BY <1>1, <2>1 DEF IsOpen, Answers!Begins
  <2>3. k \in Nat /\ t < next
    BY DEF Index, Answers!Blanks, IsOpen
  <2>4. lines[t].word # b
    BY <1>1, <1>2 DEF IsLast, IsOpen
  <2>5. QED
    BY <1>1, <2>2, <2>3, <2>4
<1>3. CASE t < s
  <2>1. t \in 1 .. s - 1
    BY <1>1, <1>3 DEF Index
  <2>2. PICK k \in Answers!Blanks : t < k /\ k < s
    BY <1>1, <2>1 DEF IsLast, Answers!Begins
  <2>3. k \in Nat /\ s < next
    BY DEF Index, Answers!Blanks, IsLast
  <2>4. QED
    BY <1>1, <2>2, <2>3 DEF IsOpen
<1>4. CASE s = t
  BY <1>4 DEF IsLast
<1>5. QED
  BY <1>1, <1>2, <1>3, <1>4

(* What is known of a box stays, if the line does not belong to its block. *)
LEMMA LatestOn ==
  ASSUME ReadsInv, ReadOn, Index, NEW b \in DOMAIN config, config'[b] = config[b],
         \A s \in DOMAIN lines : IsLast(b, s) =>
           /\ ~ (Answers!Begins(next) /\ lines[next].word = b)
           /\ \/ lines[next].kind # "option"
              \/ \E k \in Answers!Blanks : s < k /\ k < next
  PROVE  \E s \in DOMAIN lines :
           IsLast(b, s)' /\ \A o \in DOMAIN config[b] \ {"Host"} : Latest(s, o, config[b][o])'
<1>1. PICK s \in DOMAIN lines :
        IsLast(b, s) /\ \A o \in DOMAIN config[b] \ {"Host"} : Latest(s, o, config[b][o])
  BY DEF ReadsInv, Reads
<1>2. IsLast(b, s)'
  BY <1>1, LastOn
<1>3. \A o : Said(s, o)' = Said(s, o)
  BY <1>1, SaidOn DEF IsLast
<1>4. ASSUME NEW o \in DOMAIN config[b] \ {"Host"} PROVE Latest(s, o, config[b][o])'
  BY <1>1, <1>3 DEF Latest
<1>5. QED
  BY <1>2, <1>4

(* A Host line begins no block as long as one is open.                     *)
LEMMA NoneBegins ==
  ASSUME Index, ReadOn, NEW t \in DOMAIN lines, IsOpen(t)
  PROVE  ~ Answers!Begins(next)
<1>1. t \in 1 .. next - 1 /\ lines[t].kind = "host"
  BY DEF Index, IsOpen, Answers!Begins
<1>2. QED
  BY <1>1 DEF Answers!Begins, IsOpen

LEMMA ReadsInit == Answers!Init => ReadsInv
<1> SUFFICES ASSUME Answers!Init PROVE ReadsInv
  OBVIOUS
<1>1. PICK n \in 0 .. MaxLines : lines \in [1 .. n -> Answers!Line]
  BY DEF Answers!Init
<1>2. next = 1 /\ box = None /\ DOMAIN config = {} /\ asked \in Box /\ ioutcome = "reading"
  BY DEF Answers!Init
<1>3. 1 \in 1 .. n + 1 /\ 1 \in 1 .. MaxLines + 1
  BY LinesAssumption
<1>4. \A j \in DOMAIN lines : ~ (j < 1)
  BY <1>1
<1>5. QED
  BY <1>1, <1>2, <1>3, <1>4 DEF ReadsInv, Answers!TypeOK, Reads

(* Reading a line keeps the types and the place in the file.               *)
LEMMA ReadOnIndex ==
  ASSUME ReadsInv, ReadOn
  PROVE  /\ Index /\ next' \in 1 .. MaxLines + 1
         /\ \E n \in 0 .. MaxLines : lines' \in [1 .. n -> Answers!Line] /\ next' \in 1 .. n + 1
<1>1. PICK n \in 0 .. MaxLines : lines \in [1 .. n -> Answers!Line] /\ next \in 1 .. n + 1
  BY DEF ReadsInv, Reads
<1>2. DOMAIN lines = 1 .. n
  BY <1>1
<1>3. n \in Nat /\ next \in Nat /\ next \in 1 .. n
  BY <1>1, <1>2, LinesAssumption DEF ReadOn
<1>4. QED
  BY <1>1, <1>2, <1>3, LinesAssumption DEF Index, ReadOn

LEMMA ReadsStep == ReadsInv /\ [Answers!Next]_Answers!vars => ReadsInv'
<1> SUFFICES ASSUME ReadsInv, [Answers!Next]_Answers!vars PROVE ReadsInv'
  OBVIOUS
<1>0. PICK n \in 0 .. MaxLines : lines \in [1 .. n -> Answers!Line] /\ next \in 1 .. n + 1
  BY DEF ReadsInv, Reads
<1>1. /\ Answers!Host \/ Answers!SetOption \/ Answers!Blank \/ Answers!Skip
      => ReadOn /\ Index /\ ioutcome = "reading"
  <2>1. ASSUME Answers!Host \/ Answers!SetOption \/ Answers!Blank \/ Answers!Skip
        PROVE  ReadOn /\ ioutcome = "reading"
    BY <2>1 DEF Answers!Host, Answers!SetOption, Answers!Blank, Answers!Skip,
       Answers!Sees, Answers!Left, Answers!Advance, ReadOn
  <2>2. QED
    BY <2>1, ReadOnIndex
<1>2. CASE Answers!Host
  <2>1. /\ ReadOn /\ Index /\ box = None /\ lines[next].kind = "host" /\ box' = lines[next].word
        /\ config' = Answers!With(config, box', [option \in {"Host"} |-> next])
    BY <1>1, <1>2 DEF Answers!Host, Answers!Sees
  <2>2. PICK t \in DOMAIN lines, w \in Box \ {None} : t = next /\ w = lines[t].word
    BY <1>0, <2>1, LinesAssumption DEF ReadOn, Answers!Line
  <2>3. Answers!Begins(t)
    BY <2>1, <2>2 DEF ReadsInv, Reads, Answers!Begins, Index
  <2>4. IsOpen(t)' /\ IsLast(w, t)'
    BY <2>1, <2>2, <2>3 DEF IsOpen, IsLast, ReadOn, Index, Answers!Begins, Answers!Blanks
  <2>5. /\ DOMAIN config' = DOMAIN config \cup {w}
        /\ DOMAIN config'[w] = {"Host"}
        /\ \A b \in DOMAIN config \ {w} : config'[b] = config[b]
    BY <2>1, <2>2 DEF Answers!With
  <2>6. ASSUME NEW b \in DOMAIN config \ {w}
        PROVE  \E s \in DOMAIN lines :
                 IsLast(b, s)' /\ \A o \in DOMAIN config[b] \ {"Host"} : Latest(s, o, config[b][o])'
    <3>1. config'[b] = config[b]
      BY <2>5
    <3>2. \A s \in DOMAIN lines : IsLast(b, s) =>
            ~ (Answers!Begins(next) /\ lines[next].word = b)
      BY <2>2
    <3>3. lines[next].kind # "option"
      BY <2>1
    <3>4. QED
      BY <2>1, <3>1, <3>2, <3>3, LatestOn
  <2>7. Reads'
    <3>1. \A b \in DOMAIN config' : \E s \in DOMAIN lines :
            IsLast(b, s)' /\ \A o \in DOMAIN config'[b] \ {"Host"} : Latest(s, o, config[b][o])'
      <4>1. SUFFICES ASSUME NEW b \in DOMAIN config'
                     PROVE  \E s \in DOMAIN lines :
                              /\ IsLast(b, s)'
                              /\ \A o \in DOMAIN config'[b] \ {"Host"} : Latest(s, o, config[b][o])'
        OBVIOUS
      <4>2. CASE b = w
        BY <2>4, <2>5, <4>2
      <4>3. CASE b # w
        BY <2>5, <2>6, <4>3
      <4>4. QED
        BY <4>2, <4>3
    <3>2. box' = w /\ w # None /\ lines' = lines /\ ioutcome' = "reading"
      BY <2>1, <2>2 DEF ReadOn
    <3>3. QED
      BY <2>1, <2>2, <2>4, <2>5, <3>1, <3>2, ReadOnIndex DEF Reads
  <2>8. Answers!TypeOK'
    BY <2>1, <2>2, <2>5, ReadOnIndex DEF ReadsInv, Answers!TypeOK, ReadOn
  <2>9. QED
    BY <2>7, <2>8 DEF ReadsInv
<1>3. CASE Answers!SetOption
  <2>1. /\ ReadOn /\ Index /\ box # None /\ box' = box
        /\ lines[next].kind \in {"host", "option"}
    BY <1>1, <1>3 DEF Answers!SetOption, Answers!Sees
  <2>2. PICK t \in DOMAIN lines : IsOpen(t) /\ lines[t].word = box
    BY <2>1 DEF ReadsInv, Reads
  <2>3. ~ Answers!Begins(next)
    BY <2>1, <2>2, NoneBegins
  <2>4. PICK option : /\ option = (IF lines[next].kind = "host" THEN "Host" ELSE lines[next].word)
                      /\ config' = [config EXCEPT ![box] = Answers!With(@, option, next)]
    BY <1>3 DEF Answers!SetOption
  <2>5. /\ DOMAIN config' = DOMAIN config /\ box \in DOMAIN config
        /\ \A b \in DOMAIN config \ {box} : config'[b] = config[b]
        /\ DOMAIN config'[box] = DOMAIN config[box] \cup {option}
        /\ \A o \in DOMAIN config'[box] :
             config'[box][o] = IF o = option THEN next ELSE config[box][o]
    BY <2>1, <2>4 DEF ReadsInv, Reads, Answers!With
  <2>6. ASSUME NEW b \in DOMAIN config \ {box}
        PROVE  \E s \in DOMAIN lines :
                 IsLast(b, s)' /\ \A o \in DOMAIN config[b] \ {"Host"} : Latest(s, o, config[b][o])'
    <3>1. \A s \in DOMAIN lines : IsLast(b, s) => \E k \in Answers!Blanks : s < k /\ k < next
      BY <2>1, <2>2, OpenIsLast
    <3>2. config'[b] = config[b]
      BY <2>5
    <3>3. QED
      BY <2>1, <2>3, <3>1, <3>2, LatestOn
  <2>7. PICK s \in DOMAIN lines :
          IsLast(box, s) /\ \A o \in DOMAIN config[box] \ {"Host"} : Latest(s, o, config[box][o])
    BY <2>5 DEF ReadsInv, Reads
  <2>8. s = t
    BY <2>1, <2>2, <2>7, OpenIsLast
  <2>9. IsLast(box, s)'
    <3>1. \A b : b = box => IsLast(b, s)'
      BY <2>1, <2>3, <2>7, LastOn
    <3>2. QED
      BY <2>1, <3>1
  <2>10. ASSUME NEW o \in DOMAIN config'[box] \ {"Host"} PROVE Latest(s, o, config[box][o])'
    <3>1. CASE o = option
      <4>1. lines[next].kind = "option" /\ lines[next].word = o
        BY <2>1, <2>4, <3>1
      <4>2. Said(s, o)' = Said(s, o) \cup {next}
        BY <2>1, <2>2, <2>8, <4>1, SaidMore
      <4>3. \A k \in Said(s, o) : k <= next
        BY <2>1 DEF Said, Index
      <4>4. config'[box][o] = next /\ next <= next
        BY <2>1, <2>5, <3>1 DEF Index
      <4>5. QED
        BY <2>1, <4>2, <4>3, <4>4 DEF Latest
    <3>2. CASE o # option
      <4>1. lines[next].kind # "option" \/ lines[next].word # o
        BY <2>1, <2>4, <3>2
      <4>2. Said(s, o)' = Said(s, o)
        BY <2>1, <2>7, <4>1, SaidOn DEF IsLast
      <4>3. config'[box][o] = config[box][o] /\ o \in DOMAIN config[box]
        BY <2>5, <3>2
      <4>4. QED
        BY <2>1, <2>7, <4>2, <4>3 DEF Latest
    <3>3. QED
      BY <3>1, <3>2
  <2>11. IsOpen(t)'
    BY <2>1, <2>2 DEF IsOpen, ReadOn, Index, Answers!Begins, Answers!Blanks
  <2>12. Reads'
    <3>1. ASSUME NEW b \in DOMAIN config'
          PROVE  \E x \in DOMAIN lines :
                   /\ IsLast(b, x)'
                   /\ \A o \in DOMAIN config'[b] \ {"Host"} : Latest(x, o, config[b][o])'
      <4>1. CASE b = box
        BY <2>1, <2>9, <2>10, <4>1
      <4>2. CASE b # box
        BY <2>5, <2>6, <4>2
      <4>3. QED
        BY <4>1, <4>2
    <3>2. lines' = lines /\ ioutcome' = "reading"
      BY <2>1 DEF ReadOn
    <3>3. QED
      BY <2>1, <2>2, <2>5, <2>11, <3>1, <3>2, ReadOnIndex DEF Reads
  <2>13. option \in Option \cup {"Host"}
    BY <1>0, <2>1, <2>4 DEF ReadOn, Answers!Line
  <2>14. Answers!TypeOK'
    BY <2>1, <2>5, <2>13, ReadOnIndex DEF ReadsInv, Answers!TypeOK, ReadOn
  <2>15. QED
    BY <2>12, <2>14 DEF ReadsInv
<1>4. CASE Answers!Blank \/ Answers!Skip
  <2>1. /\ ReadOn /\ Index /\ config' = config /\ box' = None
        /\ lines[next].kind = "blank" \/ (box = None /\ lines[next].kind \in {"option", "word"})
    BY <1>1, <1>4 DEF Answers!Blank, Answers!Skip, Answers!Sees
  <2>2. lines' = lines /\ ioutcome' = "reading" /\ Answers!Blanks' = Answers!Blanks
    BY <2>1 DEF ReadOn, Answers!Blanks
  <2>3. ASSUME NEW j \in DOMAIN lines, j < next + 1, lines[j].kind = "host"
        PROVE  \E k \in Answers!Blanks : j < k /\ k < next + 1
    <3>1. j \in Nat /\ next \in Nat /\ j # next /\ j < next
      BY <2>1, <2>3 DEF Index
    <3>2. CASE lines[next].kind = "blank"
      BY <2>1, <3>1, <3>2 DEF ReadOn, Answers!Blanks
    <3>3. CASE box = None
      <4>1. PICK k \in Answers!Blanks : j < k /\ k < next
        BY <2>3, <3>1, <3>3 DEF ReadsInv, Reads
      <4>2. k \in Nat
        BY <2>1 DEF Index, Answers!Blanks
      <4>3. QED
        BY <3>1, <4>1, <4>2
    <3>4. QED
      BY <2>1, <3>2, <3>3
  <2>4. ASSUME NEW b \in DOMAIN config
        PROVE  \E s \in DOMAIN lines :
                 IsLast(b, s)' /\ \A o \in DOMAIN config[b] \ {"Host"} : Latest(s, o, config[b][o])'
    <3>1. ~ Answers!Begins(next)
      BY <2>1 DEF Answers!Begins
    <3>2. \A s \in DOMAIN lines : IsLast(b, s) =>
            \/ lines[next].kind # "option"
            \/ \E k \in Answers!Blanks : s < k /\ k < next
      BY <2>1 DEF ReadsInv, Reads, IsLast, Answers!Begins
    <3>3. QED
      BY <2>1, <3>1, <3>2, LatestOn
  <2>5. Reads'
    BY <2>1, <2>2, <2>3, <2>4, ReadOnIndex DEF Reads, ReadOn
  <2>6. Answers!TypeOK'
    BY <2>1, <2>2, ReadOnIndex DEF ReadsInv, Answers!TypeOK
  <2>7. QED
    BY <2>5, <2>6 DEF ReadsInv
<1>5. CASE \/ Answers!NoMatch \/ Answers!Unended \/ Answers!Answer
           \/ UNCHANGED Answers!vars
  <2>1. /\ UNCHANGED <<lines, next, box, config, asked>>
        /\ ioutcome' \in {"crashed", ioutcome}
           \/ (ioutcome' = "ok" /\ next \notin DOMAIN lines /\ asked \in DOMAIN config)
    BY <1>5 DEF Answers!NoMatch, Answers!Unended, Answers!Answer, Answers!Ends,
       Answers!Left, Answers!vars
  <2>2. Reads'
    <3>1. Answers!Blanks' = Answers!Blanks /\ \A s : Answers!Begins(s)' <=> Answers!Begins(s)
      BY <2>1 DEF Answers!Begins, Answers!Blanks
    <3>2. \A s : IsOpen(s)' <=> IsOpen(s)
      BY <2>1, <3>1 DEF IsOpen
    <3>3. \A b, s : IsLast(b, s)' <=> IsLast(b, s)
      BY <2>1, <3>1 DEF IsLast
    <3>4. \A s, o, v : Latest(s, o, v)' <=> Latest(s, o, v)
      BY <2>1, <3>1 DEF Latest, Said
    <3>5. QED
      BY <2>1, <3>1, <3>2, <3>3, <3>4 DEF ReadsInv, Reads
  <2>3. Answers!TypeOK'
    BY <2>1 DEF ReadsInv, Answers!TypeOK
  <2>4. QED
    BY <2>2, <2>3 DEF ReadsInv
<1>6. QED
  BY <1>2, <1>3, <1>4, <1>5 DEF Answers!Next

(* What the inventory answers for a box is what the last block of that box *)
(* says, whatever the lines of the file are and however many.              *)
THEOREM AnswersAreOfTheBlock == Answers!Spec => []AnswersFromItsBlock
<1>1. ASSUME ReadsInv PROVE AnswersFromItsBlock
  <2> SUFFICES ASSUME ioutcome = "ok", NEW o \in DOMAIN config[asked] \ {"Host"}
               PROVE  LET said == {k \in Answers!BlockOf(asked) :
                                     lines[k].kind = "option" /\ lines[k].word = o}
                      IN  /\ config[asked][o] \in said
                          /\ \A k \in said : k <= config[asked][o]
    BY DEF AnswersFromItsBlock, Answers!AnswersFromItsBlock
  <2>1. PICK n \in 0 .. MaxLines : lines \in [1 .. n -> Answers!Line] /\ next \in 1 .. n + 1
    BY <1>1 DEF ReadsInv, Reads
  <2>2. DOMAIN lines = 1 .. n /\ next = n + 1 /\ n \in Nat /\ asked \in DOMAIN config
    BY <1>1, <2>1, LinesAssumption DEF ReadsInv, Reads
  <2>3. PICK s \in DOMAIN lines :
          IsLast(asked, s) /\ Latest(s, o, config[asked][o])
    BY <1>1, <2>2 DEF ReadsInv, Reads
  <2> DEFINE starts == {i \in DOMAIN lines : lines[i].word = asked /\ Answers!Begins(i)}
  <2>4. s \in starts /\ \A i \in starts : i <= s
    BY <2>2, <2>3 DEF IsLast
  <2>5. \A i \in starts : (\A j \in starts : j <= i) => i = s
    BY <2>2, <2>4
  <2>6. (CHOOSE i \in starts : \A j \in starts : j <= i) = s
    BY <2>4, <2>5
  <2>7. Answers!BlockOf(asked) =
          {k \in DOMAIN lines : k >= s /\ \A j \in Answers!Blanks : j < s \/ k < j}
    BY <2>6, Zenon DEF Answers!BlockOf
  <2>8. {k \in Answers!BlockOf(asked) : lines[k].kind = "option" /\ lines[k].word = o}
        = Said(s, o)
    BY <2>2, <2>7 DEF Said
  <2>9. QED
    BY <2>3, <2>8 DEF Latest
<1>2. QED
  BY ReadsInit, ReadsStep, <1>1, PTL DEF Answers!Spec

-----------------------------------------------------------------------------
(* Versions *)

(* Two sequences are the same up to a place.                               *)
SameTo(s, t, n) == \A i \in 1 .. n : s[i] = t[i]

LEMMA SameSubSeq ==
  ASSUME NEW S, NEW T, NEW s \in Seq(S), NEW t \in Seq(T), NEW n \in Nat, n <= Len(s), n <= Len(t)
  PROVE  SubSeq(s, 1, n) = SubSeq(t, 1, n) <=> SameTo(s, t, n)
BY DEF SameTo

LEMMA FunctionIsSequence ==
  ASSUME NEW S, NEW n \in Nat, NEW f \in [1 .. n -> S]
  PROVE  f \in Seq(S) /\ Len(f) = n
OBVIOUS

LEMMA SameSequence ==
  ASSUME NEW S, NEW T, NEW s \in Seq(S), NEW t \in Seq(T)
  PROVE  s = t <=> Len(s) = Len(t) /\ SameTo(s, t, Len(s))
<1>1. ASSUME Len(s) = Len(t), SameTo(s, t, Len(s)) PROVE s = t
  <2>1. s = [i \in 1 .. Len(s) |-> s[i]] /\ t = [i \in 1 .. Len(t) |-> t[i]]
    OBVIOUS
  <2>2. QED
    BY <1>1, <2>1 DEF SameTo
<1>2. ASSUME s = t PROVE Len(s) = Len(t) /\ SameTo(s, t, Len(s))
  BY <1>2 DEF SameTo
<1>3. QED
  BY <1>1, <1>2

LEMMA SamePrefix ==
  ASSUME NEW S, NEW T, NEW s \in Seq(S), NEW t \in Seq(T)
  PROVE  /\ Names!IsStrictPrefix(s, t) <=> Len(s) < Len(t) /\ SameTo(s, t, Len(s))
         /\ \A i \in DOMAIN s \cap DOMAIN t :
              SubSeq(s, 1, i - 1) = SubSeq(t, 1, i - 1) <=> SameTo(s, t, i - 1)
<1>1. Len(s) \in Nat /\ Len(t) \in Nat /\ DOMAIN s = 1 .. Len(s) /\ DOMAIN t = 1 .. Len(t)
  OBVIOUS
<1>2. ASSUME Len(s) <= Len(t)
      PROVE  SubSeq(s, 1, Len(s)) = SubSeq(t, 1, Len(s)) <=> SameTo(s, t, Len(s))
  BY <1>1, <1>2, SameSubSeq
<1>3. Len(s) = Len(t) /\ SameTo(s, t, Len(s)) <=> s = t
  BY SameSequence
<1>4. Names!IsStrictPrefix(s, t) <=> Len(s) < Len(t) /\ SameTo(s, t, Len(s))
  <2>1. Names!IsStrictPrefix(s, t) <=>
          Len(s) <= Len(t) /\ SubSeq(s, 1, Len(s)) = SubSeq(t, 1, Len(s)) /\ s # t
    BY DEF Names!IsStrictPrefix, Names!IsPrefix
  <2>2. CASE Len(s) <= Len(t)
    <3>1. SubSeq(s, 1, Len(s)) = SubSeq(t, 1, Len(s)) <=> SameTo(s, t, Len(s))
      BY <1>2, <2>2
    <3>2. Len(s) < Len(t) <=> Len(s) # Len(t)
      <4>1. \A m, n \in Nat : m <= n => (m < n <=> m # n)
        OBVIOUS
      <4>2. QED
        BY <1>1, <2>2, <4>1, Zenon
    <3>3. Len(s) # Len(t) => s # t
      OBVIOUS
    <3>4. QED
      BY <1>3, <2>1, <2>2, <3>1, <3>2, <3>3, Zenon
  <2>3. CASE ~ (Len(s) <= Len(t))
    BY <1>1, <2>1, <2>3
  <2>4. QED
    BY <2>2, <2>3
<1>5. ASSUME NEW i \in DOMAIN s \cap DOMAIN t
      PROVE  SubSeq(s, 1, i - 1) = SubSeq(t, 1, i - 1) <=> SameTo(s, t, i - 1)
  <2>1. i - 1 \in Nat /\ i - 1 <= Len(s) /\ i - 1 <= Len(t)
    BY <1>1, <1>5
  <2>2. QED
    BY <2>1, SameSubSeq
<1>6. QED
  BY <1>4, <1>5

(* Lists of numbers, as Python compares them, are in the numbers' order.   *)
LEMMA NumbersInOrder ==
  ASSUME NEW s \in Seq(Nat), NEW t \in Seq(Nat)
  PROVE  /\ Names!Numbers(s) = Names!Numbers(t) <=> s = t
         /\ Names!ListLess(Names!Numbers(s), Names!Numbers(t), Names!PartLess)
            <=> Names!Earlier(s, t)
<1> DEFINE a == Names!Numbers(s)
           b == Names!Numbers(t)
           Part == [word : BOOLEAN, value : Nat]
<1>1. /\ DOMAIN a = DOMAIN s /\ DOMAIN b = DOMAIN t
      /\ \A i \in DOMAIN s : a[i] = [word |-> FALSE, value |-> s[i]]
      /\ \A i \in DOMAIN t : b[i] = [word |-> FALSE, value |-> t[i]]
  BY DEF Names!Numbers, Names!FromStr, Names!Number
<1>2. /\ DOMAIN s = 1 .. Len(s) /\ DOMAIN t = 1 .. Len(t) /\ Len(s) \in Nat /\ Len(t) \in Nat
      /\ \A i \in DOMAIN s : s[i] \in Nat
      /\ \A i \in DOMAIN t : t[i] \in Nat
  OBVIOUS
<1>3. a \in Seq(Part) /\ b \in Seq(Part) /\ Len(a) = Len(s) /\ Len(b) = Len(t)
  <2>1. a \in [1 .. Len(s) -> Part] /\ b \in [1 .. Len(t) -> Part]
    BY <1>2 DEF Names!Numbers, Names!FromStr, Names!Number
  <2>2. QED
    BY <1>2, <2>1, FunctionIsSequence
<1>4. \A i \in DOMAIN s \cap DOMAIN t :
        /\ a[i] = b[i] <=> s[i] = t[i]
        /\ Names!PartLess(a[i], b[i]) <=> s[i] < t[i]
  <2> SUFFICES ASSUME NEW i \in DOMAIN s \cap DOMAIN t
               PROVE  /\ a[i] = b[i] <=> s[i] = t[i]
                      /\ Names!PartLess(a[i], b[i]) <=> s[i] < t[i]
    OBVIOUS
  <2>1. a[i] = [word |-> FALSE, value |-> s[i]] /\ b[i] = [word |-> FALSE, value |-> t[i]]
    BY <1>1
  <2>2. a[i].word = FALSE /\ b[i].word = FALSE /\ a[i].value = s[i] /\ b[i].value = t[i]
    BY <2>1
  <2>3. Names!PartLess(a[i], b[i]) = (a[i].value < b[i].value)
    BY <2>2, Zenon DEF Names!PartLess
  <2>4. QED
    BY <2>1, <2>2, <2>3
<1> HIDE DEF a, b
<1>5. ASSUME NEW n \in Nat, n <= Len(s), n <= Len(t)
      PROVE  SameTo(a, b, n) <=> SameTo(s, t, n)
  <2>1. ASSUME NEW i \in 1 .. n PROVE a[i] = b[i] <=> s[i] = t[i]
    <3>1. i \in DOMAIN s \cap DOMAIN t
      BY <1>2, <1>5
    <3>2. QED
      BY <1>4, <3>1
  <2>2. QED
    BY <2>1 DEF SameTo
<1>6. a = b <=> s = t
  <2>1. s = t <=> Len(s) = Len(t) /\ SameTo(s, t, Len(s))
    BY SameSequence
  <2>2. a = b <=> Len(a) = Len(b) /\ SameTo(a, b, Len(a))
    BY <1>3, SameSequence
  <2>3. Len(s) = Len(t) => (SameTo(a, b, Len(s)) <=> SameTo(s, t, Len(s)))
    BY <1>2, <1>5
  <2>4. QED
    BY <1>3, <2>1, <2>2, <2>3
<1>7. Names!IsStrictPrefix(a, b) <=> Names!IsStrictPrefix(s, t)
  <2>1. Len(s) < Len(t) => (SameTo(a, b, Len(s)) <=> SameTo(s, t, Len(s)))
    BY <1>2, <1>5
  <2>2. Names!IsStrictPrefix(a, b) <=> Len(a) < Len(b) /\ SameTo(a, b, Len(a))
    BY <1>3, SamePrefix
  <2>3. Names!IsStrictPrefix(s, t) <=> Len(s) < Len(t) /\ SameTo(s, t, Len(s))
    BY SamePrefix
  <2>4. QED
    BY <1>3, <2>1, <2>2, <2>3
<1>8. ASSUME NEW i \in DOMAIN s \cap DOMAIN t
      PROVE  SubSeq(a, 1, i - 1) = SubSeq(b, 1, i - 1) <=> SubSeq(s, 1, i - 1) = SubSeq(t, 1, i - 1)
  <2>1. SubSeq(a, 1, i - 1) = SubSeq(b, 1, i - 1) <=> SameTo(a, b, i - 1)
    BY <1>1, <1>3, SamePrefix
  <2>2. SubSeq(s, 1, i - 1) = SubSeq(t, 1, i - 1) <=> SameTo(s, t, i - 1)
    BY SamePrefix
  <2>3. i - 1 \in Nat /\ i - 1 <= Len(s) /\ i - 1 <= Len(t)
    BY <1>2
  <2>4. QED
    BY <1>5, <2>1, <2>2, <2>3
<1>9. Names!ListLess(a, b, Names!PartLess) <=> Names!Earlier(s, t)
  BY <1>1, <1>4, <1>7, <1>8 DEF Names!ListLess, Names!Earlier
<1>10. QED
  BY <1>6, <1>9 DEF a, b

(* The name of a tarball falls into the package and the suffix.            *)
LEMMA NamesSplit ==
  ASSUME NEW p \in Package, NEW x \in Names!Suffix
  PROVE  Names!Split(p \o x) = <<p, x>>
<1> DEFINE W == {p[i] : i \in DOMAIN p} \cup Timestamp \cup Dotted \cup {Ardana}
           m == Len(p)
           f == p \o x
<1>1. p \in Seq(W) /\ m \in Nat
  <2>1. p \in Seq({p[i] : i \in DOMAIN p})
    BY VersionsAssumption
  <2>2. QED
    BY <2>1
<1>2. /\ x \in Seq(W) /\ Len(x) \in {1, 2}
      /\ x[Len(x)] \in Dotted <=> Len(x) = 2
  <2>1. CASE \E t \in Timestamp : x = <<t>>
    <3>1. PICK t \in Timestamp : x = <<t>>
      BY <2>1
    <3>2. t \notin Dotted
      BY VersionsAssumption
    <3>3. QED
      BY <3>1, <3>2
  <2>2. CASE \E d \in Dotted : x = <<Ardana, d>>
    BY <2>2
  <2>3. QED
    BY <2>1, <2>2 DEF Names!Suffix
<1> HIDE DEF W
<1>3. /\ f \in Seq(W) /\ Len(f) = m + Len(x)
      /\ \A i \in 1 .. m : f[i] = p[i]
      /\ \A i \in 1 .. Len(x) : f[m + i] = x[i]
  BY <1>1, <1>2
<1> HIDE DEF f
<1>4. Names!Last(f) = x[Len(x)]
  <2>1. f[m + Len(x)] = x[Len(x)]
    <3>1. Len(x) \in 1 .. Len(x)
      BY <1>2
    <3>2. QED
      BY <1>3, <3>1, Zenon
  <2>2. QED
    BY <1>3, <2>1 DEF Names!Last
<1>5. Names!Last(f) \in Dotted <=> Len(x) = 2
  BY <1>2, <1>4
<1>6. SubSeq(f, 1, m) = p
  <2>1. SubSeq(f, 1, m) \in Seq(W) /\ Len(SubSeq(f, 1, m)) = m
    BY <1>1, <1>2, <1>3
  <2>2. SameTo(SubSeq(f, 1, m), p, m)
    BY <1>1, <1>2, <1>3 DEF SameTo
  <2>3. \A g \in Seq(W) : g = p <=> Len(g) = m /\ SameTo(g, p, Len(g))
    BY <1>1, SameSequence
  <2>4. QED
    BY <2>1, <2>2, <2>3, Zenon
<1>7. SubSeq(f, m + 1, Len(f)) = x
  <2>1. SubSeq(f, m + 1, Len(f)) \in Seq(W) /\ Len(SubSeq(f, m + 1, Len(f))) = Len(x)
    BY <1>1, <1>2, <1>3
  <2>2. SameTo(SubSeq(f, m + 1, Len(f)), x, Len(x))
    BY <1>1, <1>2, <1>3 DEF SameTo
  <2>3. \A g \in Seq(W) : g = x <=> Len(g) = Len(x) /\ SameTo(g, x, Len(g))
    BY <1>2, SameSequence
  <2>4. QED
    BY <2>1, <2>2, <2>3, Zenon
<1>8. (IF Names!Last(f) \in Dotted THEN Len(f) - 2 ELSE Len(f) - 1) = m
  <2>1. CASE Len(x) = 2
    BY <1>1, <1>3, <1>5, <2>1
  <2>2. CASE Len(x) = 1
    BY <1>1, <1>3, <1>5, <2>2
  <2>3. QED
    BY <1>2, <2>1, <2>2
<1>9. QED
  BY <1>6, <1>7, <1>8 DEF Names!Split, f

(* Lists of one number, or of one word.                                    *)
Lesser(s, t) == Names!ListLess(s, t, Names!PartLess)
Single(n) == <<Names!Word(n)>>

LEMMA SinglesInOrder ==
  ASSUME NEW m \in Nat, NEW n \in Nat
  PROVE  /\ Lesser(Single(m), Single(n)) <=> m < n
         /\ Single(m) = Single(n) <=> m = n
         /\ Names!Earlier(<<m>>, <<n>>) <=> m < n
<1> DEFINE Part == [word : BOOLEAN, value : Nat]
           a == Single(m)
           b == Single(n)
<1>1. /\ a \in Seq(Part) /\ Len(a) = 1 /\ a[1] = [word |-> TRUE, value |-> m]
      /\ b \in Seq(Part) /\ Len(b) = 1 /\ b[1] = [word |-> TRUE, value |-> n]
  BY DEF Single, Names!Word
<1>2. a = b <=> m = n
  BY <1>1 DEF Single, Names!Word
<1> HIDE DEF a, b
<1>3. /\ a[1].word /\ b[1].word /\ a[1].word = b[1].word
      /\ a[1].value = m /\ b[1].value = n
  BY <1>1
<1>4. Names!PartLess(a[1], b[1]) = (a[1].value < b[1].value)
  BY <1>3, Zenon DEF Names!PartLess
<1>5. ~ Names!IsStrictPrefix(a, b) /\ DOMAIN a \cap DOMAIN b = {1}
  BY <1>1, SamePrefix
<1>6. SubSeq(a, 1, 1 - 1) = SubSeq(b, 1, 1 - 1)
  <2>1. SameTo(a, b, 1 - 1)
    BY DEF SameTo
  <2>2. QED
    BY <1>1, <1>5, <2>1, SamePrefix
<1>7. Lesser(a, b) <=> m < n
  BY <1>3, <1>4, <1>5, <1>6 DEF Lesser, Names!ListLess
<1>8. Names!Earlier(<<m>>, <<n>>) <=> m < n
  <2> DEFINE c == <<m>>
             d == <<n>>
  <2>1. /\ c \in Seq(Nat) /\ Len(c) = 1 /\ c[1] = m
        /\ d \in Seq(Nat) /\ Len(d) = 1 /\ d[1] = n
    OBVIOUS
  <2> HIDE DEF c, d
  <2>2. ~ Names!IsStrictPrefix(c, d) /\ DOMAIN c \cap DOMAIN d = {1}
    BY <2>1, SamePrefix
  <2>3. SameTo(c, d, 1 - 1)
    BY DEF SameTo
  <2>4. SubSeq(c, 1, 1 - 1) = SubSeq(d, 1, 1 - 1)
    BY <2>1, <2>2, <2>3, SamePrefix
  <2>5. Names!Earlier(c, d) <=> m < n
    BY <2>1, <2>2, <2>4 DEF Names!Earlier, Names!ListLess
  <2>6. QED
    BY <2>5 DEF c, d
<1>9. QED
  BY <1>2, <1>7, <1>8 DEF a, b

(* Sequences of such lists, of two or three each.                          *)
LEMMA LessByParts ==
  ASSUME NEW S, NEW v \in Seq(S), NEW w \in Seq(S), Len(v) \in {2, 3}, Len(w) \in {2, 3}
  PROVE  Names!Less(v, w)
         <=> \/ Lesser(v[1], w[1])
             \/ v[1] = w[1] /\ Lesser(v[2], w[2])
             \/ /\ v[1] = w[1] /\ v[2] = w[2]
                /\ \/ Len(v) = 2 /\ Len(w) = 3
                   \/ Len(v) = 3 /\ Len(w) = 3 /\ Lesser(v[3], w[3])
<1>1. Names!Less(v, w)
      <=> \/ Names!IsStrictPrefix(v, w)
          \/ \E i \in DOMAIN v \cap DOMAIN w :
               Lesser(v[i], w[i]) /\ SubSeq(v, 1, i - 1) = SubSeq(w, 1, i - 1)
  BY DEF Names!Less, Names!ListLess, Lesser
<1>2. Names!Less(v, w)
      <=> \/ Len(v) < Len(w) /\ SameTo(v, w, Len(v))
          \/ \E i \in DOMAIN v \cap DOMAIN w : Lesser(v[i], w[i]) /\ SameTo(v, w, i - 1)
  BY <1>1, SamePrefix
<1>3. /\ SameTo(v, w, 1 - 1)
      /\ SameTo(v, w, 2 - 1) <=> v[1] = w[1]
      /\ SameTo(v, w, 3 - 1) <=> v[1] = w[1] /\ v[2] = w[2]
      /\ SameTo(v, w, 2) <=> v[1] = w[1] /\ v[2] = w[2]
  BY DEF SameTo
<1>4. DOMAIN v \cap DOMAIN w = IF Len(v) = 3 /\ Len(w) = 3 THEN {1, 2, 3} ELSE {1, 2}
  OBVIOUS
<1>5. (\E i \in DOMAIN v \cap DOMAIN w : Lesser(v[i], w[i]) /\ SameTo(v, w, i - 1))
      <=> \/ Lesser(v[1], w[1]) /\ SameTo(v, w, 1 - 1)
          \/ Lesser(v[2], w[2]) /\ SameTo(v, w, 2 - 1)
          \/ Len(v) = 3 /\ Len(w) = 3 /\ Lesser(v[3], w[3]) /\ SameTo(v, w, 3 - 1)
  BY <1>4
<1>6. Len(v) < Len(w) <=> Len(v) = 2 /\ Len(w) = 3
  <2>1. \A m, n \in {2, 3} : m < n <=> m = 2 /\ n = 3
    OBVIOUS
  <2>2. QED
    BY <2>1, Zenon
<1>7. QED
  BY <1>2, <1>3, <1>5, <1>6

(* What the version of a build is made of.                                 *)
Tarballs == [package : Package, suffix : Names!Suffix, meta : Names!Meta \cup {None}]
Parts(b) ==
  <<Names!Numbers(b.version), Single(b.timestamp)>>
    \o (IF b.patch = 0 THEN << >> ELSE <<Names!Numbers(<<b.patch>>)>>)

LEMMA VersionParts ==
  ASSUME NEW t \in Tarballs, Head(t.suffix) \in Timestamp, Names!Kept(t)
  PROVE  /\ Names!FromTarball(t) = Parts(Names!Built(t))
         /\ Names!Built(t) \in [version : Seq(Nat), timestamp : Nat, patch : Nat]
<1>1. t.package \in Package /\ t.suffix \in Names!Suffix /\ t.meta \in Names!Meta \cup {None}
  BY DEF Tarballs
<1>2. PICK h \in Timestamp : t.suffix = <<h>>
  BY <1>1, VersionsAssumption DEF Names!Suffix
<1>3. CASE t.meta = None
  <2>1. Names!Split(t.package \o t.suffix)[2] = <<h>>
    BY <1>1, <1>2, NamesSplit
  <2>2. Names!FromTarball(t) = Names!BestGuess(<<h>>)
    BY <1>3, <2>1 DEF Names!FromTarball
  <2>3. Len(<<h>>) = 1 /\ Head(<<h>>) = h
    OBVIOUS
  <2> DEFINE v == IF h \in DOMAIN Known THEN Known[h] ELSE <<2, 0, 0>>
  <2>4. Names!BestGuess(<<h>>) = <<Names!Numbers(v), Single(h)>>
    BY <2>3 DEF Names!BestGuess, Single
  <2>5. Names!Built(t) = [version |-> v, timestamp |-> h, patch |-> 0]
    BY <1>2, <1>3, <2>3 DEF Names!Built
  <2>6. v \in Seq(Nat) /\ h \in Nat
    BY VersionsAssumption
  <2> HIDE DEF v
  <2>7. Parts(Names!Built(t)) = <<Names!Numbers(v), Single(h)>>
    BY <2>5 DEF Parts
  <2>8. QED
    BY <2>2, <2>4, <2>5, <2>6, <2>7
<1>4. CASE t.meta # None
  <2>1. t.meta \in [version : Seq(Nat), timestamp : Nat, patch : Nat]
    BY <1>1, <1>4, VersionsAssumption DEF Names!Meta
  <2>2. QED
    BY <1>4, <2>1 DEF Names!Kept, Names!FromTarball, Names!Built, Parts, Single
<1>5. QED
  BY <1>3, <1>4

LEMMA TwoAndOne ==
  ASSUME NEW S, NEW s \in Seq(S), NEW t \in Seq(S), Len(s) = 2, Len(t) = 1
  PROVE  /\ s \o t \in Seq(S) /\ Len(s \o t) = 3
         /\ (s \o t)[1] = s[1] /\ (s \o t)[2] = s[2] /\ (s \o t)[3] = t[1]
<1>1. /\ s \o t \in Seq(S) /\ Len(s \o t) = Len(s) + Len(t)
      /\ \A i \in 1 .. Len(s) + Len(t) :
           (s \o t)[i] = IF i <= Len(s) THEN s[i] ELSE t[i - Len(s)]
  BY ConcatProperties
<1>2. Len(s) + Len(t) = 3 /\ 3 - Len(s) = 1
  OBVIOUS
<1>3. /\ 1 \in 1 .. 3 /\ 2 \in 1 .. 3 /\ 3 \in 1 .. 3
      /\ 1 <= 2 /\ 2 <= 2 /\ ~ (3 <= 2)
  OBVIOUS
<1>4. (s \o t)[1] = s[1] /\ (s \o t)[2] = s[2] /\ (s \o t)[3] = t[3 - Len(s)]
  BY <1>1, <1>2, <1>3, Zenon
<1>5. QED
  BY <1>1, <1>2, <1>4, Zenon

LEMMA PartsLength ==
  ASSUME NEW S, NEW b, Names!Numbers(b.version) \in S, Single(b.timestamp) \in S,
         Names!Numbers(<<b.patch>>) \in S
  PROVE  /\ Parts(b) \in Seq(S)
         /\ Parts(b)[1] = Names!Numbers(b.version) /\ Parts(b)[2] = Single(b.timestamp)
         /\ b.patch = 0 => Len(Parts(b)) = 2
         /\ b.patch # 0 => /\ Len(Parts(b)) = 3
                          /\ Parts(b)[3] = Names!Numbers(<<b.patch>>)
<1> DEFINE x == Names!Numbers(b.version)
           y == Single(b.timestamp)
           z == Names!Numbers(<<b.patch>>)
<1>1. Parts(b) = <<x, y>> \o (IF b.patch = 0 THEN << >> ELSE <<z>>)
  BY DEF Parts
<1>2. x \in S /\ y \in S /\ z \in S
  OBVIOUS
<1> HIDE DEF x, y, z
<1>3. CASE b.patch = 0
  <2>1. Parts(b) = <<x, y>>
    BY <1>1, <1>3
  <2>2. QED
    BY <1>2, <1>3, <2>1 DEF x, y
<1>4. CASE b.patch # 0
  <2> DEFINE s == <<x, y>>
             t == <<z>>
  <2>1. Parts(b) = s \o t
    BY <1>1, <1>4
  <2>2. /\ s \in Seq(S) /\ Len(s) = 2 /\ s[1] = x /\ s[2] = y
        /\ t \in Seq(S) /\ Len(t) = 1 /\ t[1] = z
    BY <1>2
  <2> HIDE DEF s, t
  <2>3. /\ s \o t \in Seq(S) /\ Len(s \o t) = 3
        /\ (s \o t)[1] = x /\ (s \o t)[2] = y /\ (s \o t)[3] = z
    BY <2>2, TwoAndOne
  <2>4. QED
    BY <1>4, <2>1, <2>3 DEF x, y, z
<1>5. QED
  BY <1>3, <1>4

LEMMA PartsInOrder ==
  ASSUME NEW b \in [version : Seq(Nat), timestamp : Nat, patch : Nat],
         NEW c \in [version : Seq(Nat), timestamp : Nat, patch : Nat]
  PROVE  Names!Less(Parts(b), Parts(c))
         <=> \/ Names!Earlier(b.version, c.version)
             \/ /\ b.version = c.version
                /\ \/ b.timestamp < c.timestamp
                   \/ b.timestamp = c.timestamp /\ b.patch < c.patch
<1> DEFINE S == {Names!Numbers(b.version), Names!Numbers(c.version), Single(b.timestamp),
                 Single(c.timestamp), Names!Numbers(<<b.patch>>), Names!Numbers(<<c.patch>>)}
           v == Parts(b)
           w == Parts(c)
<1>0. /\ b.version \in Seq(Nat) /\ b.timestamp \in Nat /\ b.patch \in Nat
      /\ c.version \in Seq(Nat) /\ c.timestamp \in Nat /\ c.patch \in Nat
      /\ {Names!Numbers(b.version), Single(b.timestamp), Names!Numbers(<<b.patch>>)} \subseteq S
      /\ {Names!Numbers(c.version), Single(c.timestamp), Names!Numbers(<<c.patch>>)} \subseteq S
  OBVIOUS
<1> HIDE DEF S
<1>1. /\ v \in Seq(S) /\ v[1] = Names!Numbers(b.version) /\ v[2] = Single(b.timestamp)
      /\ b.patch = 0 => Len(v) = 2
      /\ b.patch # 0 => Len(v) = 3 /\ v[3] = Names!Numbers(<<b.patch>>)
  BY <1>0, PartsLength
<1>2. /\ w \in Seq(S) /\ w[1] = Names!Numbers(c.version) /\ w[2] = Single(c.timestamp)
      /\ c.patch = 0 => Len(w) = 2
      /\ c.patch # 0 => Len(w) = 3 /\ w[3] = Names!Numbers(<<c.patch>>)
  BY <1>0, PartsLength
<1> HIDE DEF v, w
<1>3. Len(v) \in {2, 3} /\ Len(w) \in {2, 3}
  BY <1>1, <1>2
<1>4. Names!Less(v, w)
      <=> \/ Lesser(v[1], w[1])
          \/ v[1] = w[1] /\ Lesser(v[2], w[2])
          \/ /\ v[1] = w[1] /\ v[2] = w[2]
             /\ \/ Len(v) = 2 /\ Len(w) = 3
                \/ Len(v) = 3 /\ Len(w) = 3 /\ Lesser(v[3], w[3])
  BY <1>1, <1>2, <1>3, LessByParts
<1>5. /\ v[1] = w[1] <=> b.version = c.version
      /\ Lesser(v[1], w[1]) <=> Names!Earlier(b.version, c.version)
  BY <1>1, <1>2, NumbersInOrder DEF Lesser
<1>6. /\ v[2] = w[2] <=> b.timestamp = c.timestamp
      /\ Lesser(v[2], w[2]) <=> b.timestamp < c.timestamp
  <2>1. /\ Lesser(Single(b.timestamp), Single(c.timestamp)) <=> b.timestamp < c.timestamp
        /\ Single(b.timestamp) = Single(c.timestamp) <=> b.timestamp = c.timestamp
    BY <1>0, SinglesInOrder, Zenon
  <2>2. QED
    BY <1>1, <1>2, <2>1, Zenon
<1>7. b.patch # 0 /\ c.patch # 0 => (Lesser(v[3], w[3]) <=> b.patch < c.patch)
  <2>1. <<b.patch>> \in Seq(Nat) /\ <<c.patch>> \in Seq(Nat)
    OBVIOUS
  <2>2. Lesser(Names!Numbers(<<b.patch>>), Names!Numbers(<<c.patch>>))
        <=> Names!Earlier(<<b.patch>>, <<c.patch>>)
    BY <2>1, NumbersInOrder DEF Lesser
  <2>3. Names!Earlier(<<b.patch>>, <<c.patch>>) <=> b.patch < c.patch
    BY SinglesInOrder
  <2>4. QED
    BY <1>1, <1>2, <2>2, <2>3
<1>8. (\/ Len(v) = 2 /\ Len(w) = 3
       \/ Len(v) = 3 /\ Len(w) = 3 /\ Lesser(v[3], w[3])) <=> b.patch < c.patch
  <2>1. \A m, n \in Nat :
          /\ m = 0 => (m < n <=> n # 0)
          /\ n = 0 => ~ (m < n)
    OBVIOUS
  <2>2. b.patch = 0 => (b.patch < c.patch <=> c.patch # 0)
    BY <1>0, <2>1, Zenon
  <2>3. c.patch = 0 => ~ (b.patch < c.patch)
    BY <1>0, <2>1, Zenon
  <2>4. /\ Len(v) = 2 <=> b.patch = 0
        /\ Len(v) = 3 <=> b.patch # 0
        /\ Len(w) = 3 <=> c.patch # 0
    <3>1. 2 # 3
      OBVIOUS
    <3>2. QED
      BY <1>1, <1>2, <3>1, Zenon
  <2>5. QED
    BY <1>7, <2>2, <2>3, <2>4, Zenon
<1>9. QED
  BY <1>4, <1>5, <1>6, <1>8 DEF v, w

(* The order of versions is the order in which the builds were made, and   *)
(* the name of a tarball tells the package from the suffix; for any names, *)
(* times, patches and releases, except that of a release that version.yml  *)
(* does not give back as it was nothing is said (3.10, read as 3.1).       *)
THEOREM BuildsAreOrdered == Names!Init => LaterIsNewer
<1> SUFFICES ASSUME Names!Init PROVE LaterIsNewer
  OBVIOUS
<1>1. one \in Tarballs /\ other \in Tarballs
  BY DEF Names!Init, Tarballs
<1>2. Names!Split(one.package \o one.suffix) = <<one.package, one.suffix>>
  BY <1>1, NamesSplit DEF Tarballs
<1>3. ASSUME Head(one.suffix) \in Timestamp, Head(other.suffix) \in Timestamp,
             Names!Kept(one), Names!Kept(other)
      PROVE  LET b == Names!Built(one)
                 c == Names!Built(other)
             IN  Names!Less(Names!FromTarball(one), Names!FromTarball(other))
                 <=> \/ Names!Earlier(b.version, c.version)
                     \/ /\ b.version = c.version
                        /\ \/ b.timestamp < c.timestamp
                           \/ b.timestamp = c.timestamp /\ b.patch < c.patch
  BY <1>1, <1>3, VersionParts, PartsInOrder
<1>4. \A v, w : Names!Less(v, w) \in BOOLEAN
  BY DEF Names!Less, Names!ListLess
<1>5. QED
  BY <1>2, <1>3, <1>4 DEF LaterIsNewer, Names!LaterIsNewer

-----------------------------------------------------------------------------
(* exec-test-plan *)

(* FlattenSeq stays in any set of sequences that is closed under \o.  The  *)
(* function it is defined by exists, which is shown for the least length   *)
(* at which it would not.                                                  *)
LEMMA FlattenExists ==
  ASSUME NEW seqs, NEW N \in Nat
  PROVE  \E f : f = [i \in 1 .. N |-> IF i = 1 THEN seqs[i] ELSE f[i - 1] \o seqs[i]]
<1> DEFINE Eq(f, n) == f = [i \in 1 .. n |-> IF i = 1 THEN seqs[i] ELSE f[i - 1] \o seqs[i]]
<1> DEFINE B == {n \in Nat : ~ \E f : Eq(f, n)}
<1>1. SUFFICES ASSUME B # {} PROVE FALSE
  OBVIOUS
<1>2. PICK n \in B : \A m \in B : ~ (<<m, n>> \in OpToRel(<, Nat))
  BY <1>1, B \subseteq Nat, NatLessThanWellFounded, WFMin, Zenon
<1>3. n \in Nat /\ \A m \in Nat : m < n => m \notin B
  <2> HIDE DEF B
  <2>1. B \subseteq Nat
    BY DEF B
  <2>2. QED
    BY <1>2, <2>1 DEF OpToRel
<1>4. CASE n = 0
  <2> DEFINE g == [i \in 1 .. 0 |-> <<>>]
  <2>1. Eq(g, 0)
    BY 1 .. 0 = {}
  <2>2. QED
    BY <1>2, <1>4, <2>1
<1>5. CASE n # 0
  <2>1. n \in Nat /\ n - 1 \in Nat /\ n - 1 < n
    BY <1>3, <1>5
  <2>2. PICK f : Eq(f, n - 1)
    BY <1>3, <2>1
  <2> DEFINE g == [i \in 1 .. n |-> IF i = 1 THEN seqs[i] ELSE f[i - 1] \o seqs[i]]
  <2>3. \A i \in 1 .. n - 1 : g[i] = f[i]
    <3> TAKE i \in 1 .. n - 1
    <3>1. i \in 1 .. n
      BY <2>1
    <3>2. f[i] = IF i = 1 THEN seqs[i] ELSE f[i - 1] \o seqs[i]
      BY <2>2, Zenon
    <3>3. QED
      BY <3>1, <3>2, Zenon
  <2>4. \A i \in 1 .. n : i # 1 => i - 1 \in 1 .. n - 1
    BY <2>1
  <2>5. g = [i \in 1 .. n |-> IF i = 1 THEN seqs[i] ELSE g[i - 1] \o seqs[i]]
    <3> DEFINE r == [i \in 1 .. n |-> IF i = 1 THEN seqs[i] ELSE g[i - 1] \o seqs[i]]
    <3>1. \A i \in 1 .. n : g[i] = r[i]
      BY <2>3, <2>4
    <3>2. QED
      BY <3>1
  <2>6. QED
    BY <1>2, <2>5
<1>6. QED
  BY <1>4, <1>5

LEMMA FlattenIn ==
  ASSUME NEW T, NEW S, S \subseteq Seq(T), <<>> \in S,
         \A a, b \in S : a \o b \in S, NEW seqs \in Seq(S)
  PROVE  FlattenSeq(seqs) \in S
<1> DEFINE N == Len(seqs)
<1> DEFINE f == CHOOSE f : f = [i \in 1 .. N |->
                                  IF i = 1 THEN seqs[i] ELSE f[i - 1] \o seqs[i]]
<1>1. FlattenSeq(seqs) = IF N = 0 THEN seqs ELSE f[N]
  BY DEF FlattenSeq
<1>2. f = [i \in 1 .. N |-> IF i = 1 THEN seqs[i] ELSE f[i - 1] \o seqs[i]]
  <2>1. N \in Nat
    OBVIOUS
  <2>2. \E g : g = [i \in 1 .. N |-> IF i = 1 THEN seqs[i] ELSE g[i - 1] \o seqs[i]]
    BY <2>1, FlattenExists, Zenon
  <2>3. QED
    BY <2>2, Zenon
<1>3. N \in Nat /\ \A i \in 1 .. N : seqs[i] \in S
  OBVIOUS
<1> HIDE DEF f
<1> DEFINE B == {i \in 1 .. N : f[i] \notin S}
<1>4. B = {}
  <2>1. SUFFICES ASSUME B # {} PROVE FALSE
    OBVIOUS
  <2>2. PICK i \in B : \A j \in B : ~ (<<j, i>> \in OpToRel(<, Nat))
    BY <2>1, B \subseteq Nat, NatLessThanWellFounded, WFMin, Zenon
  <2>3. \A j \in B : ~ (j < i)
    BY <2>2, B \subseteq Nat DEF OpToRel
  <2>4. CASE i = 1
    BY <1>2, <1>3, <2>2, <2>4
  <2>5. CASE i # 1
    <3>1. i - 1 \in 1 .. N /\ i - 1 < i
      <4>1. i \in 1 .. N
        BY <2>2
      <4>2. QED
        BY <1>3, <2>5, <4>1
    <3>2. f[i - 1] \in S
      BY <2>3, <3>1
    <3>3. f[i] = f[i - 1] \o seqs[i]
      BY <1>2, <2>2, <2>5
    <3>4. QED
      BY <1>3, <2>2, <3>2, <3>3
  <2>6. QED
    BY <2>4, <2>5
<1>5. CASE N = 0
  BY <1>1, <1>5, EmptySeq
<1>6. CASE N # 0
  <2>1. N \in 1 .. N
    BY <1>3, <1>6
  <2>2. QED
    BY <1>1, <1>4, <1>6, <2>1
<1>7. QED
  BY <1>5, <1>6

Operation == {"reboot", "shutdown", "start", "wait", "remote", "local"} \X VM
Boots == {<<"reboot", Deployer>>, <<"start", Deployer>>}
ForDeployer == <<"remote", Deployer>>
WaitForDeployer == <<"wait", Deployer>>

(* After whatever boots the deployer the plan waits for it before it sends *)
(* it the next command.                                                    *)
Waits(s) ==
  \A i \in 1 .. Len(s) : s[i] \in Boots =>
    \E k \in 1 .. Len(s) : /\ i < k /\ s[k] = WaitForDeployer
                           /\ \A j \in i .. k : s[j] # ForDeployer
Waiting == {s \in Seq(Operation) : Waits(s)}

(* The plan waits for the deployer before it sends it the next command.    *)
WaitIsNext(s) ==
  \E k \in 1 .. Len(s) : /\ s[k] = WaitForDeployer
                         /\ \A j \in 1 .. k : s[j] # ForDeployer

(* The connection is lost, or will be, only while a wait is to come.       *)
PlanInv ==
  /\ TypeOK
  /\ todo \in Waiting
  /\ outcome = "running" /\ Deployer \notin early
     /\ (client # boot[Deployer] \/ power[Deployer] = "rebooting")
     => WaitIsNext(todo)

LEMMA WaitingConcat ==
  ASSUME NEW a \in Waiting, NEW b \in Waiting
  PROVE  a \o b \in Waiting
<1> DEFINE c == a \o b
<1> DEFINE M == Len(a)
<1> DEFINE N == Len(b)
<1>1. a \in Seq(Operation) /\ b \in Seq(Operation) /\ Waits(a) /\ Waits(b)
  BY DEF Waiting
<1>2. /\ c \in Seq(Operation) /\ Len(c) = M + N /\ M \in Nat /\ N \in Nat
      /\ \A i \in 1 .. M : c[i] = a[i]
      /\ \A i \in M + 1 .. M + N : c[i] = b[i - M]
  BY <1>1, ConcatProperties
<1> HIDE DEF c, M, N
<1>3. ASSUME NEW i \in 1 .. Len(c), c[i] \in Boots
      PROVE  \E k \in 1 .. Len(c) : /\ i < k /\ c[k] = WaitForDeployer
                                    /\ \A j \in i .. k : c[j] # ForDeployer
  <2>1. CASE i \in 1 .. M
    <3>1. PICK k \in 1 .. M : /\ i < k /\ a[k] = WaitForDeployer
                              /\ \A j \in i .. k : a[j] # ForDeployer
      BY <1>1, <1>2, <1>3, <2>1 DEF Waits, M
    <3>2. k \in 1 .. Len(c) /\ c[k] = WaitForDeployer /\ \A j \in i .. k : c[j] # ForDeployer
      BY <1>2, <2>1, <3>1
    <3>3. QED
      BY <3>1, <3>2
  <2>2. CASE i \in M + 1 .. M + N
    <3>1. i - M \in 1 .. N /\ b[i - M] \in Boots
      BY <1>2, <1>3, <2>2
    <3>2. PICK k \in 1 .. N : /\ i - M < k /\ b[k] = WaitForDeployer
                              /\ \A j \in i - M .. k : b[j] # ForDeployer
      BY <1>1, <3>1 DEF Waits, N
    <3>3. k + M \in M + 1 .. M + N /\ (k + M) - M = k /\ i < k + M
      BY <1>2, <2>2, <3>2
    <3>4. c[k + M] = WaitForDeployer
      BY <1>2, <3>2, <3>3
    <3>5. \A j \in i .. k + M : /\ j \in M + 1 .. M + N
                                /\ j - M \in i - M .. k
      BY <1>2, <2>2, <3>3
    <3>6. \A j \in i .. k + M : c[j] # ForDeployer
      BY <1>2, <3>2, <3>5
    <3>7. k + M \in 1 .. Len(c)
      BY <1>2, <3>3
    <3>8. QED
      BY <3>3, <3>4, <3>6, <3>7
  <2>3. QED
    BY <1>2, <2>1, <2>2
<1>4. Waits(c)
  BY <1>3 DEF Waits
<1>5. QED
  BY <1>2, <1>4 DEF Waiting, c

LEMMA EachIs ==
  ASSUME NEW what \in {"reboot", "shutdown", "start", "wait"}, NEW vms \in Seq(VM)
  PROVE  /\ Each(what, vms) \in Seq(Operation) /\ Len(Each(what, vms)) = Len(vms)
         /\ \A i \in 1 .. Len(vms) : Each(what, vms)[i] = <<what, vms[i]>>
<1>1. DOMAIN vms = 1 .. Len(vms) /\ Len(vms) \in Nat /\ \A i \in 1 .. Len(vms) : vms[i] \in VM
  OBVIOUS
<1>2. \A i \in 1 .. Len(vms) : <<what, vms[i]>> \in Operation
  BY <1>1 DEF Operation
<1>3. Each(what, vms) = [i \in 1 .. Len(vms) |-> <<what, vms[i]>>]
  BY <1>1 DEF Each
<1>4. QED
  BY <1>1, <1>2, <1>3

(* What reboots or starts VMs then waits for each of them.                 *)
LEMMA WaitsForEach ==
  ASSUME NEW what \in {"reboot", "start"}, NEW vms \in Seq(VM)
  PROVE  Each(what, vms) \o Each("wait", vms) \in Waiting
<1> DEFINE a == Each(what, vms)
<1> DEFINE b == Each("wait", vms)
<1> DEFINE c == a \o b
<1> DEFINE N == Len(vms)
<1>1. /\ a \in Seq(Operation) /\ Len(a) = N
      /\ \A i \in 1 .. N : a[i] = <<what, vms[i]>>
      /\ b \in Seq(Operation) /\ Len(b) = N
      /\ \A i \in 1 .. N : b[i] = <<"wait", vms[i]>>
  BY EachIs
<1> HIDE DEF a, b
<1>2. N \in Nat
  OBVIOUS
<1> HIDE DEF N
<1>3. /\ c \in Seq(Operation) /\ Len(c) = N + N
      /\ \A i \in 1 .. N : c[i] = a[i]
      /\ \A i \in N + 1 .. N + N : c[i] = b[i - N]
  <2>1. /\ c \in Seq(Operation) /\ Len(c) = Len(a) + Len(b)
        /\ \A i \in 1 .. Len(a) + Len(b) :
             c[i] = IF i <= Len(a) THEN a[i] ELSE b[i - Len(a)]
    BY <1>1, ConcatProperties
  <2> HIDE DEF c
  <2>2. QED
    BY <1>1, <1>2, <2>1
<1> HIDE DEF c
<1>4. \A i \in 1 .. N : c[i] = <<what, vms[i]>> /\ c[i + N] = <<"wait", vms[i]>>
  <2> TAKE i \in 1 .. N
  <2>1. i + N \in N + 1 .. N + N /\ (i + N) - N = i
    BY <1>2
  <2>2. QED
    BY <1>1, <1>3, <2>1
<1>5. \A i \in N + 1 .. N + N : c[i][1] = "wait"
  <2> TAKE i \in N + 1 .. N + N
  <2>1. i - N \in 1 .. N
    BY <1>2
  <2>2. QED
    BY <1>1, <1>3, <2>1
<1>6. \A i \in 1 .. N + N : c[i] # ForDeployer
  BY <1>2, <1>4, <1>5 DEF ForDeployer
<1>7. ASSUME NEW i \in 1 .. Len(c), c[i] \in Boots
      PROVE  \E k \in 1 .. Len(c) : /\ i < k /\ c[k] = WaitForDeployer
                                    /\ \A j \in i .. k : c[j] # ForDeployer
  <2>1. i \in 1 .. N
    BY <1>2, <1>3, <1>5, <1>7 DEF Boots
  <2>2. vms[i] = Deployer
    BY <1>4, <1>7, <2>1 DEF Boots
  <2>3. i + N \in 1 .. Len(c) /\ i < i + N /\ c[i + N] = WaitForDeployer
    BY <1>2, <1>3, <1>4, <2>1, <2>2 DEF WaitForDeployer
  <2>4. \A j \in i .. i + N : j \in 1 .. N + N
    BY <1>2, <2>1
  <2>5. QED
    BY <1>6, <2>3, <2>4
<1>8. Waits(c)
  BY <1>7 DEF Waits
<1>9. QED
  BY <1>3, <1>8 DEF Waiting, c, a, b

(* The operations of a plan wait for the deployer whenever they boot it.   *)
LEMMA PlansWait ==
  ASSUME NEW plan \in Plans
  PROVE  FlattenSeq([i \in DOMAIN plan |-> Operations(plan[i])]) \in Waiting
<1>1. Waiting \subseteq Seq(Operation)
  BY DEF Waiting
<1>2. <<>> \in Waiting
  BY DEF Waiting, Waits
<1>3. \A a, b \in Waiting : a \o b \in Waiting
  BY WaitingConcat
<1>4. ASSUME NEW vm \in VmGroup PROVE VmOperations(vm) \in Waiting
  <2>1. vm.reboot \in Seq(VM) /\ vm.shutdown \in Seq(VM) /\ vm.start \in Seq(VM)
    BY DEF VmGroup
  <2>2. Reboot(vm.reboot) \in Waiting /\ StartAll(vm.start) \in Waiting
    BY <2>1, WaitsForEach DEF Reboot, StartAll
  <2>3. Each("shutdown", vm.shutdown) \in Waiting
    <3>1. /\ Each("shutdown", vm.shutdown) \in Seq(Operation)
          /\ \A i \in 1 .. Len(Each("shutdown", vm.shutdown)) :
               Each("shutdown", vm.shutdown)[i] = <<"shutdown", vm.shutdown[i]>>
      BY <2>1, EachIs
    <3>2. QED
      BY <3>1 DEF Waiting, Waits, Boots
  <2>4. QED
    BY <1>3, <2>2, <2>3 DEF VmOperations
<1>5. ASSUME NEW test \in Test PROVE Operations(test) \in Waiting
  <2>1. \A condition \in BOOLEAN : \A what \in {"remote", "local"} :
          When(condition, what) \in Waiting
    BY <1>2, PlanAssumption DEF When, Waiting, Waits, Operation, Boots
  <2>2. test.vms \in Seq(VmGroup) /\ DOMAIN test.vms = 1 .. Len(test.vms)
        /\ Len(test.vms) \in Nat
    BY DEF Test
  <2>3. [i \in DOMAIN test.vms |-> VmOperations(test.vms[i])] \in Seq(Waiting)
    BY <1>4, <2>2
  <2>4. FlattenSeq([i \in DOMAIN test.vms |-> VmOperations(test.vms[i])]) \in Waiting
    BY <1>1, <1>2, <1>3, <2>3, FlattenIn
  <2>5. test.remote \in BOOLEAN /\ test.local \in BOOLEAN /\ test.tempest \in BOOLEAN
    BY DEF Test
  <2>6. QED
    BY <1>3, <2>1, <2>4, <2>5 DEF Operations
<1>6. plan \in Seq(Test) /\ DOMAIN plan = 1 .. Len(plan) /\ Len(plan) \in Nat
  BY PlanAssumption
<1>7. [i \in DOMAIN plan |-> Operations(plan[i])] \in Seq(Waiting)
  BY <1>5, <1>6
<1>8. QED
  BY <1>1, <1>2, <1>3, <1>7, FlattenIn

LEMMA PlanInit == Init => PlanInv
<1> SUFFICES ASSUME Init PROVE PlanInv
  OBVIOUS
<1>1. todo \in Waiting
  BY PlansWait DEF Init
<1>2. TypeOK
  <2>1. \A i \in DOMAIN todo : todo[i][2] \in VM
    BY <1>1 DEF Waiting, Operation
  <2>2. /\ power \in [VM -> {"up", "off"}] /\ boot = [v \in VM |-> 1]
        /\ client = 1 /\ tries = 0 /\ outcome = "running" /\ early = {}
    BY PlanAssumption DEF Init
  <2>3. QED
    BY <2>1, <2>2, PlanAssumption DEF TypeOK
<1>3. client = boot[Deployer] /\ power[Deployer] = "up"
  BY DEF Init
<1>4. QED
  BY <1>1, <1>2, <1>3 DEF PlanInv

(* What is left of a plan still waits for the deployer.                    *)
LEMMA TailWaits ==
  ASSUME NEW s \in Waiting, s # <<>>
  PROVE  /\ Tail(s) \in Waiting
         /\ \A i \in DOMAIN Tail(s) : Tail(s)[i][2] \in VM
         /\ Head(s) \in Boots => WaitIsNext(Tail(s))
         /\ WaitIsNext(s) /\ Head(s) # WaitForDeployer => WaitIsNext(Tail(s))
<1> DEFINE N == Len(s)
<1> DEFINE t == Tail(s)
<1>1. s \in Seq(Operation) /\ Waits(s) /\ N \in Nat \ {0}
  BY EmptySeq DEF Waiting
<1>2. /\ t \in Seq(Operation) /\ Len(t) = N - 1
      /\ \A i \in 1 .. N - 1 : t[i] = s[i + 1]
  BY <1>1, HeadTailProperties
<1>3. Head(s) = s[1] /\ 1 \in 1 .. N
  BY <1>1
<1> HIDE DEF t, N
<1>4. ASSUME NEW i \in 1 .. N,
             NEW k \in 1 .. N, i < k, s[k] = WaitForDeployer,
             \A j \in i .. k : s[j] # ForDeployer
      PROVE  /\ k - 1 \in 1 .. Len(t) /\ t[k - 1] = WaitForDeployer
             /\ \A j \in 1 .. Len(t) : j >= i - 1 /\ j <= k - 1 => t[j] # ForDeployer
  <2>1. k - 1 \in 1 .. N - 1 /\ (k - 1) + 1 = k
    BY <1>1, <1>4
  <2>2. \A j \in 1 .. N - 1 : j >= i - 1 /\ j <= k - 1 => j + 1 \in i .. k
    BY <1>1, <1>4
  <2>3. t[k - 1] = s[k]
    BY <1>2, <2>1
  <2>4. \A j \in 1 .. Len(t) : j >= i - 1 /\ j <= k - 1 => t[j] # ForDeployer
    BY <1>2, <1>4, <2>2
  <2>5. QED
    BY <1>2, <1>4, <2>1, <2>3, <2>4
<1>5. Waits(t)
  <2>1. SUFFICES ASSUME NEW i \in 1 .. Len(t), t[i] \in Boots
                 PROVE  \E k \in 1 .. Len(t) : /\ i < k /\ t[k] = WaitForDeployer
                                               /\ \A j \in i .. k : t[j] # ForDeployer
    BY DEF Waits
  <2>2. i + 1 \in 1 .. N /\ s[i + 1] \in Boots
    BY <1>1, <1>2, <2>1
  <2>3. PICK k \in 1 .. N : /\ i + 1 < k /\ s[k] = WaitForDeployer
                            /\ \A j \in i + 1 .. k : s[j] # ForDeployer
    BY <1>1, <2>2 DEF Waits, N
  <2>4. /\ k - 1 \in 1 .. Len(t) /\ t[k - 1] = WaitForDeployer
        /\ \A j \in 1 .. Len(t) : j >= (i + 1) - 1 /\ j <= k - 1 => t[j] # ForDeployer
    BY <1>4, <2>2, <2>3
  <2>5. i < k - 1 /\ \A j \in i .. k - 1 : /\ j \in 1 .. Len(t)
                                           /\ j >= (i + 1) - 1 /\ j <= k - 1
    BY <1>1, <1>2, <2>1, <2>3, <2>4
  <2>6. QED
    BY <2>4, <2>5
<1>6. ASSUME Head(s) \in Boots PROVE WaitIsNext(t)
  <2>1. PICK k \in 1 .. N : /\ 1 < k /\ s[k] = WaitForDeployer
                            /\ \A j \in 1 .. k : s[j] # ForDeployer
    BY <1>1, <1>3, <1>6 DEF Waits, N
  <2>2. /\ k - 1 \in 1 .. Len(t) /\ t[k - 1] = WaitForDeployer
        /\ \A j \in 1 .. Len(t) : j >= 1 - 1 /\ j <= k - 1 => t[j] # ForDeployer
    BY <1>3, <1>4, <2>1
  <2>3. \A j \in 1 .. k - 1 : j \in 1 .. Len(t) /\ j >= 1 - 1 /\ j <= k - 1
    BY <1>1, <1>2, <2>1, <2>2
  <2>4. QED
    BY <2>2, <2>3 DEF WaitIsNext
<1>7. ASSUME WaitIsNext(s), Head(s) # WaitForDeployer PROVE WaitIsNext(t)
  <2>1. PICK k \in 1 .. N : s[k] = WaitForDeployer /\ \A j \in 1 .. k : s[j] # ForDeployer
    BY <1>7 DEF WaitIsNext, N
  <2>2. k # 1
    BY <1>3, <1>7, <2>1
  <2>3. /\ k - 1 \in 1 .. Len(t) /\ t[k - 1] = WaitForDeployer
        /\ \A j \in 1 .. Len(t) : j >= 1 - 1 /\ j <= k - 1 => t[j] # ForDeployer
    BY <1>1, <1>3, <1>4, <2>1, <2>2
  <2>4. \A j \in 1 .. k - 1 : j \in 1 .. Len(t) /\ j >= 1 - 1 /\ j <= k - 1
    BY <1>1, <1>2, <2>1, <2>3
  <2>5. QED
    BY <2>3, <2>4 DEF WaitIsNext
<1>8. \A i \in 1 .. Len(t) : t[i][2] \in VM
  BY <1>2 DEF Operation
<1>9. t \in Waiting /\ DOMAIN t = 1 .. Len(t)
  BY <1>2, <1>5 DEF Waiting
<1>10. QED
  BY <1>6, <1>7, <1>8, <1>9 DEF t

LEMMA PlanStep == PlanInv /\ [Next]_vars => PlanInv'
<1> SUFFICES ASSUME PlanInv, [Next]_vars PROVE PlanInv'
  OBVIOUS
<1> DEFINE NeedsWait == /\ outcome = "running" /\ Deployer \notin early
                        /\ client # boot[Deployer] \/ power[Deployer] = "rebooting"
<1>1. /\ TypeOK /\ todo \in Waiting /\ Deployer \in VM /\ MaxRetry \in Nat
      /\ NeedsWait => WaitIsNext(todo)
  BY PlanAssumption DEF PlanInv
<1>2. ASSUME Done, todo # <<>>
      PROVE  /\ todo' \in Waiting /\ tries' \in 0 .. MaxRetry
             /\ (\A i \in DOMAIN todo : todo[i][2] \in VM)'
             /\ Head(todo) \in Boots => WaitIsNext(todo')
             /\ WaitIsNext(todo) /\ Head(todo) # WaitForDeployer => WaitIsNext(todo')
  BY <1>1, <1>2, TailWaits DEF Done
<1>3. ASSUME NEW v \in VM, VirshReboot(v) PROVE PlanInv'
  <2>1. /\ Done /\ todo # <<>> /\ Head(todo) = <<"reboot", v>> /\ outcome = "running"
        /\ UNCHANGED <<boot, client, outcome, early>>
        /\ power' = [power EXCEPT ![v] = IF @ = "up" THEN "rebooting" ELSE @]
    BY <1>3 DEF VirshReboot, Doing
  <2>2. TypeOK'
    BY <1>1, <1>2, <2>1 DEF TypeOK
  <2>3. Head(todo) # WaitForDeployer /\ (v = Deployer => Head(todo) \in Boots)
    BY <2>1 DEF WaitForDeployer, Boots
  <2>4. NeedsWait' => NeedsWait \/ v = Deployer
    BY <1>1, <2>1 DEF TypeOK
  <2>5. QED
    BY <1>1, <1>2, <2>1, <2>2, <2>3, <2>4 DEF PlanInv
<1>4. ASSUME NEW v \in VM, VirshShutdown(v) PROVE PlanInv'
  <2>1. /\ Done /\ todo # <<>> /\ Head(todo) = <<"shutdown", v>> /\ outcome = "running"
        /\ UNCHANGED <<boot, client, outcome, early>>
        /\ power' = [power EXCEPT ![v] = IF @ \in {"up", "rebooting"} THEN "stopping" ELSE @]
    BY <1>4 DEF VirshShutdown, Doing
  <2>2. TypeOK'
    BY <1>1, <1>2, <2>1 DEF TypeOK
  <2>3. Head(todo) # WaitForDeployer
    BY <2>1 DEF WaitForDeployer
  <2>4. NeedsWait' => NeedsWait
    BY <1>1, <2>1 DEF TypeOK
  <2>5. QED
    BY <1>1, <1>2, <2>1, <2>2, <2>3, <2>4 DEF PlanInv
<1>5. ASSUME NEW v \in VM, VirshStart(v) PROVE PlanInv'
  <2>1. /\ Done /\ todo # <<>> /\ Head(todo) = <<"start", v>> /\ outcome = "running"
        /\ UNCHANGED <<client, outcome, early>>
        /\ power' = [power EXCEPT ![v] = "booting"]
        /\ boot' = [boot EXCEPT ![v] = @ + 1]
    BY <1>5 DEF VirshStart, Doing
  <2>2. boot' \in [VM -> Nat \ {0}] /\ boot'[Deployer] >= boot[Deployer]
    BY <1>1, <2>1 DEF TypeOK
  <2>3. TypeOK'
    BY <1>1, <1>2, <2>1, <2>2 DEF TypeOK
  <2>4. Head(todo) # WaitForDeployer /\ (v = Deployer => Head(todo) \in Boots)
    BY <2>1 DEF WaitForDeployer, Boots
  <2>5. NeedsWait' => NeedsWait \/ v = Deployer
    BY <1>1, <2>1 DEF TypeOK
  <2>6. QED
    BY <1>1, <1>2, <2>1, <2>3, <2>4, <2>5 DEF PlanInv
<1>6. ASSUME Abort PROVE PlanInv'
  BY <1>1, <1>6 DEF Abort, PlanInv, TypeOK
<1>7. ASSUME NEW v \in VM, Connect(v) PROVE PlanInv'
  <2>1. /\ Done /\ todo # <<>> /\ Head(todo) = <<"wait", v>> /\ outcome = "running"
        /\ UNCHANGED <<power, boot, outcome>>
        /\ early' = IF power[v] = "up" THEN early ELSE early \cup {v}
        /\ client' = IF v = Deployer THEN boot[v] ELSE client
    BY <1>7 DEF Connect, Doing
  <2>2. TypeOK'
    BY <1>1, <1>2, <2>1 DEF TypeOK
  <2>3. NeedsWait' => NeedsWait /\ v # Deployer
    BY <1>1, <2>1 DEF TypeOK
  <2>4. v # Deployer => Head(todo) # WaitForDeployer
    BY <2>1 DEF WaitForDeployer
  <2>5. QED
    BY <1>1, <1>2, <2>1, <2>2, <2>3, <2>4 DEF PlanInv
<1>8. ASSUME NEW v \in VM, Retry(v) PROVE PlanInv'
  BY <1>1, <1>8 DEF Retry, PlanInv, TypeOK
<1>9. ASSUME Remote PROVE PlanInv'
  <2>1. CASE Done /\ UNCHANGED <<power, boot, client, outcome, early>>
    <3>1. todo # <<>> /\ Head(todo) # WaitForDeployer
      BY <1>9 DEF Remote, Doing, WaitForDeployer
    <3>2. QED
      BY <1>1, <1>2, <2>1, <3>1 DEF PlanInv, TypeOK
  <2>2. QED
    BY <1>6, <1>9, <2>1 DEF Remote
<1>10. ASSUME Local PROVE PlanInv'
  <2>1. CASE Done /\ UNCHANGED <<power, boot, client, outcome, early>>
    <3>1. todo # <<>> /\ Head(todo) # WaitForDeployer
      BY <1>10 DEF Local, Doing, WaitForDeployer
    <3>2. QED
      BY <1>1, <1>2, <2>1, <3>1 DEF PlanInv, TypeOK
  <2>2. QED
    BY <1>6, <1>10, <2>1 DEF Local
<1>11. ASSUME Finish PROVE PlanInv'
  BY <1>1, <1>11 DEF Finish, PlanInv, TypeOK
<1>12. ASSUME NEW v \in VM, GoesDown(v) PROVE PlanInv'
  <2>1. UNCHANGED <<client, todo, tries, outcome, early>>
    BY <1>12 DEF GoesDown
  <2>2. CASE /\ power[v] = "rebooting"
             /\ power' = [power EXCEPT ![v] = "booting"]
             /\ boot' = [boot EXCEPT ![v] = @ + 1]
    <3>1. boot' \in [VM -> Nat \ {0}] /\ boot'[Deployer] >= boot[Deployer]
      BY <1>1, <2>2 DEF TypeOK
    <3>2. TypeOK'
      BY <1>1, <2>1, <2>2, <3>1 DEF TypeOK
    <3>3. NeedsWait' => NeedsWait
      BY <1>1, <2>1, <2>2 DEF TypeOK
    <3>4. QED
      BY <1>1, <2>1, <3>2, <3>3 DEF PlanInv
  <2>3. CASE /\ power[v] = "stopping"
             /\ power' = [power EXCEPT ![v] = "off"]
             /\ UNCHANGED boot
    BY <1>1, <2>1, <2>3 DEF PlanInv, TypeOK
  <2>4. QED
    BY <1>12, <2>2, <2>3 DEF GoesDown
<1>13. ASSUME NEW v \in VM, ComesUp(v) PROVE PlanInv'
  BY <1>1, <1>13 DEF ComesUp, PlanInv, TypeOK
<1>14. CASE UNCHANGED vars
  BY <1>1, <1>14 DEF vars, PlanInv, TypeOK
<1>15. QED
  BY <1>3, <1>4, <1>5, <1>6, <1>7, <1>8, <1>9, <1>10, <1>11, <1>12, <1>13, <1>14
  DEF Next, Step, VirshFails, TimeOut

(* Commands are sent to the present boot of the deployer, for any plan,    *)
(* unless a wait had ended before the deployer had gone down.              *)
THEOREM CommandsReachDeployer == Spec => []ClientIsCurrent
<1>1. PlanInv => ClientIsCurrent
  <2> SUFFICES ASSUME PlanInv, Doing("remote", Deployer), power[Deployer] = "up",
                      Deployer \notin early, client # boot[Deployer]
               PROVE  FALSE
    BY DEF ClientIsCurrent
  <2>1. PICK k \in 1 .. Len(todo) : \A j \in 1 .. k : todo[j] # ForDeployer
    BY DEF PlanInv, Doing, WaitIsNext
  <2>2. todo[1] = ForDeployer
    BY DEF PlanInv, Doing, ForDeployer, Waiting
  <2>3. 1 \in 1 .. k
    BY <2>1 DEF PlanInv, Waiting
  <2>4. QED
    BY <2>1, <2>2, <2>3
<1>2. QED
  BY PlanInit, PlanStep, <1>1, PTL DEF Spec

-----------------------------------------------------------------------------
(* Every variable of every program has its type in every state.            *)
THEOREM LabTypesCorrect ==
  Spec /\ Update!Spec /\ Choice!Spec /\ Answers!Spec /\ Pxe!Spec /\ Cached!Spec
  => []TypesOK
<1>1. PlanInv => TypeOK
  BY DEF PlanInv
<1>2. UpdateInv => Update!TypeOK
  BY DEF UpdateInv
<1>3. DistroInv => Choice!TypeOK
  BY DEF DistroInv
<1>4. ReadsInv => Answers!TypeOK
  BY DEF ReadsInv
<1>5. PxeInv => Pxe!TypeOK
  BY DEF PxeInv
<1>6. CacheInv => Cached!TypeOK
  BY DEF CacheInv
<1>7. Spec => []TypeOK
  BY PlanInit, PlanStep, <1>1, PTL DEF Spec
<1>8. Update!Spec => []Update!TypeOK
  BY UpdateInit, UpdateStep, <1>2, PTL DEF Update!Spec
<1>9. Choice!Spec => []Choice!TypeOK
  BY DistroInit, DistroStep, <1>3, PTL DEF Choice!Spec
<1>10. Answers!Spec => []Answers!TypeOK
  BY ReadsInit, ReadsStep, <1>4, PTL DEF Answers!Spec
<1>11. Pxe!Spec => []Pxe!TypeOK
  BY PxeInit, PxeStep, <1>5, PTL DEF Pxe!Spec
<1>12. Cached!Spec => []Cached!TypeOK
  BY CacheInit, CacheStep, <1>6, PTL DEF Cached!Spec
<1>13. /\ TypeOK /\ Update!TypeOK /\ Choice!TypeOK
       /\ Answers!TypeOK /\ Pxe!TypeOK /\ Cached!TypeOK
       => TypesOK
  BY DEF TypesOK
<1>14. QED
  BY <1>7, <1>8, <1>9, <1>10, <1>11, <1>12, <1>13, PTL
=============================================================================
