---------------------------- MODULE HostAggregate ----------------------------
(***************************************************************************)
(* nova_host_aggregate: the play runs it for every compute host at once,   *)
(* each to put its own host into one aggregate.  Looking an aggregate up,  *)
(* creating it and changing its hosts are separate requests to nova.       *)
(***************************************************************************)
EXTENDS Naturals, FiniteSets

CONSTANTS
  Host, Zone, None,
  Id        \* what nova may call the aggregates of this name

VARIABLES
  aggregate,  \* aggregate[i]: [zone, hosts], or None
  pc, req,    \* of the module that runs for a host
  seen,       \* the aggregate that it looked up last, as [id, zone, hosts]
  left,       \* hosts to be removed before the aggregate is deleted
  granted     \* hosts put in, and not asked to be removed since

vars == <<aggregate, pc, req, seen, left, granted>>

Request(h) == [state : {"present", "absent"}, host : {h, None},
               zone : Zone \cup {None}, force : BOOLEAN]
Existing == {i \in Id : aggregate[i] # None}

Init ==
  /\ aggregate = [i \in Id |-> None]
  /\ pc = [h \in Host |-> "idle"]
  /\ req = [h \in Host |-> None]
  /\ seen = [h \in Host |-> None]
  /\ left = [h \in Host |-> {}]
  /\ granted = {}

-----------------------------------------------------------------------------
Goto(h, label) ==
  /\ pc' = [pc EXCEPT ![h] = label]
  /\ UNCHANGED <<req, granted>>
End(h) ==
  /\ pc' = [pc EXCEPT ![h] = "idle"]
  /\ req' = [req EXCEPT ![h] = None]
  /\ seen' = [seen EXCEPT ![h] = None]
  /\ left' = [left EXCEPT ![h] = {}]
Dissolves(h) == pc[h] # "idle" /\ req[h].state = "absent" /\ req[h].host = None
(* exit_json.  A host counts as put in unless another module is dissolving *)
(* the aggregate.                                                          *)
Succeed(h) ==
  /\ End(h)
  /\ granted' = IF /\ req[h].state = "present" /\ req[h].host = h
                   /\ \A o \in Host \ {h} : ~Dissolves(o)
                THEN granted \cup {h} ELSE granted
(* Any exception of dispatch: fail_json.                                   *)
Fail(h) == End(h) /\ UNCHANGED <<aggregate, granted>>

Start(h, r) ==
  /\ pc[h] = "idle"
  /\ pc' = [pc EXCEPT ![h] = IF r.state = "present" THEN "ensure"
                             ELSE IF r.host = h THEN "host" ELSE "absent"]
  /\ req' = [req EXCEPT ![h] = r]
  /\ granted' = IF r.state = "present" THEN granted
                ELSE IF r.host = h THEN granted \ {h} ELSE {}
  /\ UNCHANGED <<aggregate, seen, left>>

(* get_aggregate, by name: ValueError when there are several.              *)
Several(h) ==
  /\ pc[h] \in {"ensure", "host", "absent"}
  /\ Cardinality(Existing) > 1
  /\ Fail(h)

See(h, i) == seen' = [seen EXCEPT ![h] = [id |-> i, hosts |-> aggregate[i].hosts]]

(* ensure_aggregate_exists.                                                *)
EnsureExists(h) ==
  /\ pc[h] = "ensure"
  /\ \/ /\ Existing = {}
        /\ Goto(h, "create")
        /\ UNCHANGED seen
     \/ \E i \in Id :
          /\ Existing = {i}
          /\ See(h, i)
          /\ Goto(h, IF req[h].zone \in {None, aggregate[i].zone}
                     THEN "host" ELSE "update")
  /\ UNCHANGED <<aggregate, left>>

(* Another host's module may have created it meanwhile: nova refuses the   *)
(* second, or has two (which get_aggregate reckons with).                  *)
Create(h) ==
  /\ pc[h] = "create"
  /\ \/ Existing # {} /\ Fail(h)
     \/ /\ \E i \in Id \ Existing :
             aggregate' = [aggregate EXCEPT ![i] = [zone |-> req[h].zone, hosts |-> {}]]
        /\ Goto(h, "host")
        /\ UNCHANGED <<seen, left>>

(* A request about an aggregate that is gone, or for a host that another   *)
(* module has taken out, is an error.                                      *)
Gone(h) ==
  /\ pc[h] \in {"update", "change", "clean", "delete"}
  /\ aggregate[seen[h].id] = None
  /\ Fail(h)

Refused(h) ==
  /\ pc[h] = "change"
  /\ aggregate[seen[h].id] # None
  /\ (h \in aggregate[seen[h].id].hosts) = (req[h].state = "present")
  /\ Fail(h)

Update(h) ==
  /\ pc[h] = "update"
  /\ aggregate[seen[h].id] # None
  /\ aggregate' = [aggregate EXCEPT ![seen[h].id].zone = req[h].zone]
  /\ Goto(h, "host")
  /\ UNCHANGED <<seen, left>>

(* ensure_aggregate_host_exists and ensure_aggregate_host_absent.          *)
EnsureHost(h) ==
  /\ pc[h] = "host"
  /\ \/ /\ req[h].host = None
        /\ Succeed(h)
     \/ \E i \in Id :
          /\ req[h].host = h /\ Existing = {i}
          /\ IF (h \in aggregate[i].hosts) = (req[h].state = "present")
             THEN Succeed(h)
             ELSE See(h, i) /\ Goto(h, "change") /\ UNCHANGED left
  /\ UNCHANGED aggregate

NoAggregate(h) == pc[h] = "host" /\ req[h].host = h /\ Existing = {} /\ Fail(h)

SlipChangeHost(h) ==
  /\ pc[h] = "change"
  /\ aggregate[seen[h].id] # None
  /\ aggregate' = [aggregate EXCEPT ![seen[h].id].hosts =
       IF req[h].state = "present" THEN seen[h].hosts \cup {h} ELSE seen[h].hosts \ {h}]
  /\ Succeed(h)

(* add_host, remove_host.                                                  *)
ChangeHost(h) ==
  /\ pc[h] = "change"
  /\ aggregate[seen[h].id] # None
  /\ (h \in aggregate[seen[h].id].hosts) = (req[h].state = "absent")
  /\ aggregate' = [aggregate EXCEPT ![seen[h].id].hosts =
       IF req[h].state = "present" THEN @ \cup {h} ELSE @ \ {h}]
  /\ Succeed(h)

(* ensure_aggregate_absent.                                                *)
EnsureAbsent(h) ==
  /\ pc[h] = "absent"
  /\ \/ Existing = {} /\ Succeed(h)
     \/ \E i \in Id :
          /\ Existing = {i}
          /\ See(h, i)
          /\ left' = [left EXCEPT ![h] = IF req[h].force THEN aggregate[i].hosts ELSE {}]
          /\ Goto(h, IF left'[h] = {} THEN "delete" ELSE "clean")
  /\ UNCHANGED aggregate

RemoveHost(h, o) ==
  /\ pc[h] = "clean" /\ o \in left[h]
  /\ aggregate[seen[h].id] # None
  /\ IF o \in aggregate[seen[h].id].hosts
     THEN /\ aggregate' = [aggregate EXCEPT ![seen[h].id].hosts = @ \ {o}]
          /\ left' = [left EXCEPT ![h] = @ \ {o}]
          /\ Goto(h, IF left'[h] = {} THEN "delete" ELSE "clean")
          /\ UNCHANGED seen
     ELSE Fail(h)

(* nova does not delete an aggregate that has hosts.                       *)
Delete(h) ==
  /\ pc[h] = "delete"
  /\ aggregate[seen[h].id] # None
  /\ IF aggregate[seen[h].id].hosts = {}
     THEN /\ aggregate' = [aggregate EXCEPT ![seen[h].id] = None]
          /\ Succeed(h)
     ELSE Fail(h)

Next ==
  \E h \in Host :
    \/ \E r \in Request(h) : Start(h, r)
    \/ Several(h) \/ EnsureExists(h) \/ Create(h) \/ Gone(h) \/ Update(h)
    \/ EnsureHost(h) \/ NoAggregate(h) \/ ChangeHost(h) \/ Refused(h) \/ EnsureAbsent(h)
    \/ \E o \in Host : RemoveHost(h, o)
    \/ Delete(h)

Spec == Init /\ [][Next]_vars

-----------------------------------------------------------------------------
TypeOK ==
  /\ aggregate \in [Id -> [zone : Zone \cup {None}, hosts : SUBSET Host] \cup {None}]
  /\ pc \in [Host -> {"idle", "ensure", "create", "update", "host", "change",
                      "absent", "clean", "delete"}]
  /\ granted \subseteq Host
  /\ \A h \in Host : /\ pc[h] = "idle" \/ req[h] \in Request(h)
                     /\ pc[h] \in {"update", "change", "clean", "delete"} => seen[h].id \in Id

(* A host whose module has reported success is in an aggregate, until a    *)
(* module is run to take it out or to dissolve the aggregate: modules that *)
(* run for other hosts at the same time do not undo it, although each      *)
(* decides on a list of hosts it read earlier, nor do two of them that     *)
(* both found no aggregate (nova_host_aggregate:200).                      *)
HostsAreKept ==
  \A h \in granted : \E i \in Existing : h \in aggregate[i].hosts
=============================================================================
