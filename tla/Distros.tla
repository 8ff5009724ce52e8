------------------------------ MODULE Distros -------------------------------
(***************************************************************************)
(* add-distros.py: which nodes are to be installed with which distribution *)
(* is kept in servers.yml, from one run with its options to the next.  A   *)
(* node without a distro-id has the default one, which astack never        *)
(* changes.                                                                *)
(***************************************************************************)
EXTENDS Naturals

CONSTANTS
  Node, None, Torn,
  Place,             \* Place[n]: where servers.yml lists the node
  Distro, Default,   \* "sles" and "rhel"; the default one
  Role,              \* Role[n]: what its role says, of "compute" and "control"
  Kills              \* bound on the runs that are killed

VARIABLES
  file,     \* servers.yml; Torn if no run can get through it
  data,     \* servers_data: the same in memory
  dirty, pc, req, outcome, killed,
  cut,      \* whether a run was stopped while it wrote the file
  chosen    \* the distribution each node was last told

vars == <<file, data, dirty, pc, req, outcome, killed, cut, chosen>>

(* The options of a run; no nodes: all of them.                            *)
Request == [nodes : SUBSET Node, sles : SUBSET Node, rhel : SUBSET Node,
            compute : Distro \cup {None}, control : {"sles", None}]

(* The servers that are listed, and the distro-id of each.  When the file  *)
(* was cut, the last entry may be a stub: one that has no role, of a node  *)
(* or, if its id was cut as well, of none (Torn).  A role that was cut     *)
(* counts as the whole one: what is chosen by it is what is recorded.      *)
File == [servers : SUBSET Node, distro : [Node -> Distro \cup {None}],
         stub : Node \cup {None, Torn}]

Says(f, n) == IF f.distro[n] = None THEN Default ELSE f.distro[n]

Init ==
  /\ file \in [servers : {Node}, distro : [Node -> Distro \cup {None}], stub : {None}]
  /\ data = None /\ dirty = FALSE
  /\ pc = "idle" /\ req = None
  /\ outcome = "none" /\ killed = 0 /\ cut = FALSE
  /\ chosen = [n \in Node |-> Says(file, n)]

(* The program ends; what it had in memory is gone.                        *)
Stop(how) ==
  /\ pc' = "idle"
  /\ outcome' = how
  /\ data' = None /\ dirty' = FALSE /\ req' = None

Start(r) ==
  /\ pc = "idle"
  /\ pc' = "load"
  /\ req' = r
  /\ outcome' = "running"
  /\ UNCHANGED <<file, data, dirty, killed, cut, chosen>>

(* _load_servers, and server['id'] in the loop: an empty file is None to   *)
(* yaml, one cut inside a key or a quoted string does not parse, and no    *)
(* run gets past a list that is missing or an entry without an id.         *)
Load ==
  /\ pc = "load"
  /\ IF file = Torn
     THEN Stop("crashed")
     ELSE pc' = "choose" /\ data' = file /\ UNCHANGED <<dirty, req, outcome>>
  /\ UNCHANGED <<file, killed, cut, chosen>>

(* Named nodes first, then compute nodes, then control nodes.              *)
DistroOf(n) ==
  IF n \in req.sles THEN "sles"
  ELSE IF n \in req.rhel THEN "rhel"
  ELSE IF "compute" \in Role[n] /\ req.compute # None THEN req.compute
  ELSE IF "control" \in Role[n] /\ req.control # None THEN req.control
  ELSE Default

Cobbled(n) == req.nodes = {} \/ n \in req.nodes
(* The nodes that the run is told of: a name that is not listed is passed  *)
(* over without a word.                                                    *)
Told == {n \in data.servers : Cobbled(n)}

SlipDistroId(n) ==
  IF n \in Told /\ DistroOf(n) # Default THEN DistroOf(n) ELSE data.distro[n]

(* set_distro_id: the default one is not written down.                     *)
DistroId(n) ==
  IF n \notin Told THEN data.distro[n]
  ELSE IF DistroOf(n) = Default THEN None ELSE DistroOf(n)

(* server['role'] of a stub raises KeyError, unless --nodes skips it.      *)
Choose ==
  /\ pc = "choose"
  /\ IF data.stub # None /\ Cobbled(data.stub)
     THEN Stop("crashed")
     ELSE /\ data' = [data EXCEPT !.distro = [n \in Node |-> DistroId(n)]]
          /\ dirty' = \E n \in Told : DistroOf(n) # Default \/ data.distro[n] # None
          /\ pc' = "commit"
          /\ UNCHANGED <<req, outcome>>
  /\ UNCHANGED <<file, killed, cut, chosen>>

Record == chosen' = [n \in Node |-> IF n \in Told THEN DistroOf(n) ELSE chosen[n]]

NotDirty ==
  /\ pc = "commit" /\ ~dirty
  /\ Stop("ok") /\ Record
  /\ UNCHANGED <<file, killed, cut>>

(* _save_servers: open(..., "w") ...                                       *)
Truncate ==
  /\ pc = "commit" /\ dirty
  /\ file' = Torn
  /\ pc' = "save"
  /\ Record
  /\ UNCHANGED <<data, dirty, req, outcome, killed, cut>>

(* ... and yaml.dump.                                                      *)
Save ==
  /\ pc = "save"
  /\ file' = data
  /\ Stop("ok")
  /\ UNCHANGED <<killed, cut, chosen>>

Kill ==
  /\ pc \notin {"idle", "save"} /\ killed < Kills
  /\ killed' = killed + 1
  /\ Stop("killed")
  /\ UNCHANGED <<file, cut, chosen>>

(* The beginning of what is written that ends with the entry of last, or   *)
(* in the entry after it.                                                  *)
Beginning(last, stub) ==
  LET kept == {n \in data.servers : Place[n] <= Place[last]}
  IN  [servers |-> kept, stub |-> stub,
       distro |-> [n \in Node |-> IF n \in kept THEN data.distro[n] ELSE None]]

(* yaml.dump writes through a buffer: a kill, or a full disk, leaves the   *)
(* beginning of the document, which may be a document itself.              *)
CutShort ==
  /\ pc = "save" /\ killed < Kills
  /\ killed' = killed + 1
  /\ cut' = TRUE
  /\ \/ file' = Torn
     \/ file' = [servers |-> {}, distro |-> [n \in Node |-> None], stub |-> Torn]
     \/ \E last \in data.servers, stub \in Node \cup {None, Torn} :
          /\ stub \in {None, Torn, last}
          /\ data.stub = last => stub = last
          /\ stub = Torn => \/ data.stub = Torn
                            \/ \E n \in data.servers : Place[n] > Place[last]
          /\ file' = Beginning(last, stub)
  /\ Stop("killed")
  /\ UNCHANGED chosen

Next ==
  \/ \E r \in Request : Start(r)
  \/ Load \/ Choose \/ NotDirty \/ Truncate \/ Save \/ Kill \/ CutShort

Spec == Init /\ [][Next]_vars

-----------------------------------------------------------------------------
TypeOK ==
  /\ file \in File \cup {Torn}
  /\ data \in File \cup {None}
  /\ pc \in {"idle", "load", "choose", "commit", "save"}
  /\ pc # "idle" => req \in Request
  /\ dirty \in BOOLEAN /\ cut \in BOOLEAN /\ killed \in 0 .. Kills
  /\ chosen \in [Node -> Distro]

(* What servers.yml says of a node that it lists is what the last run that *)
(* was told of that node, and came to write it down, chose: through runs   *)
(* for other nodes, runs back to the default, and runs that were killed    *)
(* and left a shorter list, which later runs may take for the whole one.   *)
(* Only a run that was stopped while it wrote takes nodes off the list; if *)
(* it left nothing that can be read, no later run succeeds                 *)
(* (add-distros.py:155).                                                   *)
RecordedIsChosen ==
  pc = "idle" =>
    /\ file = Torn => outcome # "ok"
    /\ file # Torn => \A n \in file.servers : chosen[n] = Says(file, n)
    /\ ~cut => file # Torn /\ file.servers = Node
=============================================================================
