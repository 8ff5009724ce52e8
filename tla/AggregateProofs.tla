--------------------------- MODULE AggregateProofs ----------------------------
(***************************************************************************)
(* What holds of nova_host_aggregate for any number of hosts, and of       *)
(* aggregates that nova makes of one name.                                 *)
(***************************************************************************)
EXTENDS Hosts, TLAPS

Aggregates == [zone : Zone \cup {None}, hosts : SUBSET Host]

LEMMA NoneIsApart == None \notin Host /\ None \notin Aggregates
BY HostAssumption DEF Aggregates

KnownType ==
  /\ aggregate \in [Id -> Aggregates \cup {None}]
  /\ granted \subseteq Host
  /\ apc = [h \in Host |-> apc[h]] /\ req = [h \in Host |-> req[h]]
  /\ seen = [h \in Host |-> seen[h]]
  /\ \A h \in Host :
       /\ apc[h] # "idle" => req[h] \in Aggregate!Request(h)
       /\ apc[h] \in {"update", "change", "clean", "delete"} => seen[h].id \in Id

(* Who takes hosts out has said so: a module about to remove its own host  *)
(* is not counted on, and while one dissolves the aggregate none is.       *)
Announced ==
  \A h \in Host :
    /\ apc[h] # "idle" /\ req[h].state = "absent" => h \notin granted
    /\ apc[h] \in {"absent", "clean", "delete"} => Aggregate!Dissolves(h)
    /\ Aggregate!Dissolves(h) => granted = {}

KeptInv == KnownType /\ Announced /\ Aggregate!HostsAreKept

LEMMA KeptInit == Aggregate!Init => KeptInv
BY
DEF Aggregate!Init, KeptInv, KnownType, Announced, Aggregate!HostsAreKept,
    Aggregate!Dissolves, Aggregates

(* Ending a run keeps what is known of the other runs.                     *)
LEMMA EndKeeps ==
  ASSUME KeptInv, NEW h \in Host, Aggregate!End(h), granted' = granted,
         aggregate' \in [Id -> Aggregates \cup {None}]
  PROVE  KnownType' /\ Announced'
BY
DEF KeptInv, KnownType, Announced, Aggregate!End, Aggregate!Dissolves,
    Aggregate!Request

LEMMA SucceedKeeps ==
  ASSUME KeptInv, NEW h \in Host, Aggregate!Succeed(h), apc[h] # "idle",
         aggregate' \in [Id -> Aggregates \cup {None}]
  PROVE  KnownType' /\ Announced'
BY
DEF KeptInv, KnownType, Announced, Aggregate!Succeed, Aggregate!End,
    Aggregate!Dissolves, Aggregate!Request

LEMMA KeptStep ==
  ASSUME KeptInv, [Aggregate!Next]_Aggregate!vars
  PROVE  KeptInv'
<1> USE DEF KeptInv
<1> DEFINE Stays == /\ aggregate' = aggregate
                    /\ granted' \subseteq granted
<1>0. Stays => Aggregate!HostsAreKept'
  BY DEF Aggregate!HostsAreKept, Aggregate!Existing
<1>1. ASSUME NEW h \in Host, NEW r \in Aggregate!Request(h), Aggregate!Start(h, r)
      PROVE  KeptInv'
  <2>1. Stays
    BY <1>1 DEF Aggregate!Start, KnownType
  <2>2. KnownType'
    BY <1>1, <2>1 DEF Aggregate!Start, KnownType
  <2>3. Announced'
    BY <1>1, NoneIsApart
    DEF Aggregate!Start, KnownType, Announced, Aggregate!Dissolves,
        Aggregate!Request
  <2> QED
    BY <1>0, <2>1, <2>2, <2>3
<1>2. ASSUME NEW h \in Host, Aggregate!Fail(h) PROVE KeptInv'
  BY <1>0, <1>2, EndKeeps DEF Aggregate!Fail, KnownType
<1>3. ASSUME NEW h \in Host, Aggregate!EnsureExists(h) PROVE KeptInv'
  <2>1. Stays
    BY <1>3 DEF Aggregate!EnsureExists, Aggregate!Goto
  <2>2. KnownType'
    BY <1>3
    DEF Aggregate!EnsureExists, KnownType, Aggregate!Goto, Aggregate!See,
        Aggregate!Existing
  <2>3. Announced'
    BY <1>3
    DEF Aggregate!EnsureExists, KnownType, Announced, Aggregate!Dissolves,
        Aggregate!Goto
  <2> QED
    BY <1>0, <2>1, <2>2, <2>3
<1>4. ASSUME NEW h \in Host, Aggregate!Create(h) PROVE KeptInv'
  <2>1. CASE Aggregate!Fail(h)
    BY <1>2, <2>1
  <2>2. ASSUME NEW i \in Id \ Aggregate!Existing, Aggregate!Goto(h, "host"),
               apc[h] = "create",
               aggregate' = [aggregate EXCEPT ![i] = [zone |-> req[h].zone, hosts |-> {}]],
               UNCHANGED <<seen, left>>
        PROVE  KeptInv'
    <3>1. KnownType'
      <4>1. req[h].zone \in Zone \cup {None}
        BY <2>2 DEF KnownType, Aggregate!Request
      <4>2. [zone |-> req[h].zone, hosts |-> {}] \in Aggregates
        BY <4>1 DEF Aggregates
      <4> QED
        BY <2>2, <4>2
        DEF KnownType, Aggregate!Goto, Aggregate!Existing, Aggregate!Request
    <3>2. Announced'
      BY <2>2 DEF KnownType, Announced, Aggregate!Dissolves, Aggregate!Goto
    <3>3. Aggregate!HostsAreKept'
      BY <2>2 DEF Aggregate!HostsAreKept, Aggregate!Existing, KnownType, Aggregate!Goto
    <3> QED
      BY <3>1, <3>2, <3>3
  <2> QED
    BY <1>4, <2>1, <2>2 DEF Aggregate!Create
<1>5. ASSUME NEW h \in Host, Aggregate!Update(h) PROVE KeptInv'
  <2> DEFINE i == seen[h].id
  <2>1. i \in Id /\ aggregate[i] \in Aggregates
    BY <1>5 DEF Aggregate!Update, KnownType
  <2>2. req[h].zone \in Zone \cup {None}
    BY <1>5 DEF Aggregate!Update, KnownType, Aggregate!Request
  <2>3. aggregate' = [aggregate EXCEPT ![i] = [aggregate[i] EXCEPT !.zone = req[h].zone]]
    BY <1>5 DEF Aggregate!Update
  <2>4. [aggregate[i] EXCEPT !.zone = req[h].zone] \in Aggregates
    BY <2>1, <2>2 DEF Aggregates
  <2>5. [aggregate[i] EXCEPT !.zone = req[h].zone].hosts = aggregate[i].hosts
    BY <2>1 DEF Aggregates
  <2>6. KnownType'
    BY <1>5, <2>1, <2>3, <2>4 DEF Aggregate!Update, KnownType, Aggregate!Goto
  <2>7. Announced'
    BY <1>5
    DEF Aggregate!Update, KnownType, Announced, Aggregate!Dissolves, Aggregate!Goto
  <2>8. Aggregate!HostsAreKept'
    <3>1. \A j \in Aggregate!Existing :
            j \in Aggregate!Existing' /\ aggregate'[j].hosts = aggregate[j].hosts
      BY <2>1, <2>3, <2>4, <2>5, NoneIsApart DEF Aggregate!Existing, KnownType
    <3> QED
      BY <1>5, <3>1 DEF Aggregate!HostsAreKept, Aggregate!Update, Aggregate!Goto
  <2> QED
    BY <2>6, <2>7, <2>8
<1>6. ASSUME NEW h \in Host, Aggregate!EnsureHost(h) PROVE KeptInv'
  <2>1. CASE apc'[h] = "change" /\ ~Aggregate!Succeed(h)
    <3>1. Stays
      BY <1>6, <2>1 DEF Aggregate!EnsureHost, Aggregate!Goto
    <3>2. KnownType'
      BY <1>6, <2>1
      DEF Aggregate!EnsureHost, KnownType, Aggregate!Goto, Aggregate!See,
          Aggregate!Existing
    <3>3. Announced'
      BY <1>6, <2>1
      DEF Aggregate!EnsureHost, KnownType, Announced, Aggregate!Dissolves,
          Aggregate!Goto
    <3> QED
      BY <1>0, <3>1, <3>2, <3>3
  <2>2. CASE Aggregate!Succeed(h)
    <3>1. KnownType' /\ Announced'
      BY <1>6, <2>2, SucceedKeeps DEF Aggregate!EnsureHost, KnownType
    <3>2. Aggregate!HostsAreKept'
      BY <1>6, <2>2, NoneIsApart
      DEF Aggregate!EnsureHost, Aggregate!Succeed, Aggregate!HostsAreKept,
          Aggregate!Existing, Aggregate!Goto
    <3> QED
      BY <3>1, <3>2
  <2> QED
    BY <1>6, <2>1, <2>2 DEF Aggregate!EnsureHost, Aggregate!Goto, KnownType
<1>7. ASSUME NEW h \in Host, Aggregate!ChangeHost(h) PROVE KeptInv'
  <2> DEFINE i == seen[h].id
  <2> DEFINE H == IF req[h].state = "present" THEN aggregate[i].hosts \cup {h}
                  ELSE aggregate[i].hosts \ {h}
  <2>1. i \in Id /\ aggregate[i] \in Aggregates
    BY <1>7 DEF Aggregate!ChangeHost, KnownType
  <2>2. aggregate' = [aggregate EXCEPT ![i] = [aggregate[i] EXCEPT !.hosts = H]]
    BY <1>7 DEF Aggregate!ChangeHost
  <2>3. [aggregate[i] EXCEPT !.hosts = H] \in Aggregates
    BY <2>1 DEF Aggregates
  <2>4. [aggregate[i] EXCEPT !.hosts = H].hosts = H
    BY <2>1 DEF Aggregates
  <2>5. aggregate' \in [Id -> Aggregates \cup {None}]
    BY <2>1, <2>2, <2>3 DEF KnownType
  <2>6. KnownType' /\ Announced'
    BY <1>7, <2>5, SucceedKeeps DEF Aggregate!ChangeHost
  <2>7. i \in Aggregate!Existing' /\ aggregate'[i].hosts = H
    BY <2>1, <2>2, <2>3, <2>4, NoneIsApart DEF Aggregate!Existing, KnownType
  <2>8. \A j \in Aggregate!Existing \ {i} :
          j \in Aggregate!Existing' /\ aggregate'[j] = aggregate[j]
    BY <2>2 DEF Aggregate!Existing, KnownType
  <2>9. Aggregate!HostsAreKept'
    <3>1. ASSUME NEW g \in granted', g # h
          PROVE  \E j \in Aggregate!Existing' : g \in aggregate'[j].hosts
      <4>1. g \in granted
        BY <1>7, <3>1 DEF Aggregate!ChangeHost, Aggregate!Succeed
      <4>2. PICK j \in Aggregate!Existing : g \in aggregate[j].hosts
        BY <4>1 DEF Aggregate!HostsAreKept
      <4>3. CASE j = i
        BY <2>7, <3>1, <4>2, <4>3
      <4>4. CASE j # i
        BY <2>8, <4>2, <4>4
      <4> QED
        BY <4>3, <4>4
    <3>2. ASSUME h \in granted'
          PROVE  \E j \in Aggregate!Existing' : h \in aggregate'[j].hosts
      <4>1. req[h].state = "present"
        BY <1>7, <3>2
        DEF Aggregate!ChangeHost, Aggregate!Succeed, KnownType, Announced,
            Aggregate!Request
      <4> QED
        BY <2>7, <4>1
    <3> QED
      BY <3>1, <3>2 DEF Aggregate!HostsAreKept
  <2> QED
    BY <2>6, <2>9
<1>8. ASSUME NEW h \in Host, Aggregate!EnsureAbsent(h) PROVE KeptInv'
  <2>1. CASE Aggregate!Succeed(h)
    <3>1. KnownType' /\ Announced'
      BY <1>8, <2>1, SucceedKeeps DEF Aggregate!EnsureAbsent, KnownType
    <3>2. Stays
      BY <1>8, <2>1
      DEF Aggregate!EnsureAbsent, Aggregate!Succeed, Announced, Aggregate!Dissolves
    <3> QED
      BY <1>0, <3>1, <3>2
  <2>2. CASE ~Aggregate!Succeed(h)
    <3>1. Stays
      BY <1>8, <2>2 DEF Aggregate!EnsureAbsent, Aggregate!Goto
    <3>2. KnownType'
      BY <1>8, <2>2
      DEF Aggregate!EnsureAbsent, KnownType, Aggregate!Goto, Aggregate!See,
          Aggregate!Existing
    <3>3. Announced'
      BY <1>8, <2>2
      DEF Aggregate!EnsureAbsent, KnownType, Announced, Aggregate!Dissolves,
          Aggregate!Goto
    <3> QED
      BY <1>0, <3>1, <3>2, <3>3
  <2> QED
    BY <2>1, <2>2
<1>9. ASSUME NEW h \in Host, NEW o \in Host, Aggregate!RemoveHost(h, o) PROVE KeptInv'
  <2>1. CASE Aggregate!Fail(h)
    BY <1>2, <2>1
  <2>2. CASE ~Aggregate!Fail(h)
    <3> DEFINE i == seen[h].id
    <3>1. i \in Id /\ aggregate[i] \in Aggregates
      BY <1>9 DEF Aggregate!RemoveHost, KnownType
    <3>2. aggregate' = [aggregate EXCEPT ![i] =
                          [aggregate[i] EXCEPT !.hosts = aggregate[i].hosts \ {o}]]
      BY <1>9, <2>2 DEF Aggregate!RemoveHost
    <3>3. [aggregate[i] EXCEPT !.hosts = aggregate[i].hosts \ {o}] \in Aggregates
      BY <3>1 DEF Aggregates
    <3>4. aggregate' \in [Id -> Aggregates \cup {None}]
      BY <3>1, <3>2, <3>3 DEF KnownType
    <3>5. KnownType'
      BY <1>9, <2>2, <3>4 DEF Aggregate!RemoveHost, KnownType, Aggregate!Goto
    <3>6. Announced'
      BY <1>9, <2>2
      DEF Aggregate!RemoveHost, KnownType, Announced, Aggregate!Dissolves,
          Aggregate!Goto
    <3>7. granted' = {}
      BY <1>9, <2>2 DEF Aggregate!RemoveHost, Announced, Aggregate!Goto
    <3> QED
      BY <3>5, <3>6, <3>7 DEF Aggregate!HostsAreKept
  <2> QED
    BY <2>1, <2>2
<1>10. ASSUME NEW h \in Host, Aggregate!Delete(h) PROVE KeptInv'
  <2>1. CASE Aggregate!Fail(h)
    BY <1>2, <2>1
  <2>2. CASE ~Aggregate!Fail(h)
    <3>1. aggregate' \in [Id -> Aggregates \cup {None}]
      BY <1>10, <2>2 DEF Aggregate!Delete, KnownType
    <3>2. KnownType' /\ Announced'
      BY <1>10, <2>2, <3>1, SucceedKeeps DEF Aggregate!Delete
    <3>3. granted' = {}
      BY <1>10, <2>2
      DEF Aggregate!Delete, Announced, Aggregate!Succeed, Aggregate!Dissolves
    <3> QED
      BY <3>2, <3>3 DEF Aggregate!HostsAreKept
  <2> QED
    BY <2>1, <2>2
<1>11. CASE UNCHANGED Aggregate!vars
  <2>1. KnownType' /\ Announced'
    BY <1>11 DEF Aggregate!vars, KnownType, Announced, Aggregate!Dissolves
  <2> QED
    BY <1>0, <1>11, <2>1 DEF Aggregate!vars
<1> QED
  BY <1>1, <1>2, <1>3, <1>4, <1>5, <1>6, <1>7, <1>8, <1>9, <1>10, <1>11
 
  DEF Aggregate!Next, Aggregate!Several, Aggregate!Gone, Aggregate!Refused,
      Aggregate!NoAggregate

(* Modules that run at once for any number of hosts do not take each       *)
(* other's hosts out of the aggregate, also when nova has made several.    *)
THEOREM HostsStay == Aggregate!Spec => []HostsAreKept
<1>1. KeptInv /\ [Aggregate!Next]_Aggregate!vars => KeptInv'
  BY KeptStep
<1>2. KeptInv => HostsAreKept
  BY DEF KeptInv, HostsAreKept
<1> QED
  BY KeptInit, <1>1, <1>2, PTL DEF Aggregate!Spec

-----------------------------------------------------------------------------
AggregateLabels ==
  {"idle", "ensure", "create", "update", "host", "change", "absent", "clean", "delete"}

LEMMA AggregateLabelsStep ==
  ASSUME apc \in [Host -> AggregateLabels], [Aggregate!Next]_Aggregate!vars
  PROVE  apc' \in [Host -> AggregateLabels]
<1> DEFINE Moves(h) == \E label \in AggregateLabels : apc' = [apc EXCEPT ![h] = label]
<1>1. ASSUME NEW h \in Host, Aggregate!End(h) PROVE Moves(h)
  BY <1>1 DEF Aggregate!End, AggregateLabels
<1>2. ASSUME NEW h \in Host, NEW label \in AggregateLabels, Aggregate!Goto(h, label)
      PROVE  Moves(h)
  BY <1>2 DEF Aggregate!Goto
<1>3. ASSUME NEW h \in Host, NEW r \in Aggregate!Request(h), Aggregate!Start(h, r)
      PROVE  Moves(h)
  BY <1>3 DEF Aggregate!Start, AggregateLabels
<1>4. ASSUME NEW h \in Host,
             \/ Aggregate!Several(h) \/ Aggregate!Gone(h) \/ Aggregate!Refused(h)
             \/ Aggregate!NoAggregate(h) \/ Aggregate!ChangeHost(h)
             \/ Aggregate!Delete(h)
      PROVE  Moves(h)
  BY <1>1, <1>4 DEF Aggregate!Several, Aggregate!Gone, Aggregate!Refused,
     Aggregate!NoAggregate, Aggregate!ChangeHost, Aggregate!Delete, Aggregate!Fail,
     Aggregate!Succeed
<1>5. ASSUME NEW h \in Host,
             \/ Aggregate!EnsureExists(h) \/ Aggregate!Create(h) \/ Aggregate!Update(h)
      PROVE  Moves(h)
  BY <1>1, <1>2, <1>5 DEF Aggregate!EnsureExists, Aggregate!Create, Aggregate!Update,
     Aggregate!Fail, AggregateLabels
<1>6. ASSUME NEW h \in Host,
             \/ Aggregate!EnsureHost(h) \/ Aggregate!EnsureAbsent(h)
             \/ \E o \in Host : Aggregate!RemoveHost(h, o)
      PROVE  Moves(h)
  BY <1>1, <1>2, <1>6 DEF Aggregate!EnsureHost, Aggregate!EnsureAbsent,
     Aggregate!RemoveHost, Aggregate!Succeed, Aggregate!Fail, AggregateLabels
<1>7. CASE UNCHANGED Aggregate!vars
  BY <1>7 DEF Aggregate!vars
<1>8. QED
  BY <1>3, <1>4, <1>5, <1>6, <1>7 DEF Aggregate!Next

LEMMA AggregateTypes == Aggregate!Spec => []Aggregate!TypeOK
<1>1. Aggregate!Init => KeptInv /\ apc \in [Host -> AggregateLabels]
  BY KeptInit DEF Aggregate!Init, AggregateLabels
<1>2. /\ KeptInv /\ apc \in [Host -> AggregateLabels]
      /\ [Aggregate!Next]_Aggregate!vars
      => (KeptInv /\ apc \in [Host -> AggregateLabels])'
  BY KeptStep, AggregateLabelsStep
<1>3. KeptInv /\ apc \in [Host -> AggregateLabels] => Aggregate!TypeOK
  BY DEF KeptInv, KnownType, Aggregates, AggregateLabels, Aggregate!TypeOK
<1>4. QED
  BY <1>1, <1>2, <1>3, PTL DEF Aggregate!Spec
=============================================================================
