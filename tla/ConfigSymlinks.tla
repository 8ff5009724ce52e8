--------------------------- MODULE ConfigSymlinks ---------------------------
(***************************************************************************)
(* config_symlinks (symlinks.py): the links that the files of a service's  *)
(* configuration ask for.  A request is the set of pairs <<src, dest>> of  *)
(* all the files and keys it names, taken in any order (glob.glob, dict).  *)
(***************************************************************************)
EXTENDS Naturals, FiniteSets

CONSTANTS
  Src,   \* paths below config_path
  Dest,  \* what they may link to
  None   \* nothing at a path

VARIABLES
  at,      \* at[s]: the target of the link at s, None, or "file": not a link
  wanted,  \* the pairs of this request
  todo,    \* those not looked at yet
  state, linked,
  last     \* the request that has just succeeded, if nothing changed since

vars == <<at, wanted, todo, state, linked, last>>

Requests == {r \in SUBSET (Src \X Dest) : r # {} /\ Cardinality(r) <= 3}

Init ==
  /\ at \in [Src -> {None, "file"} \cup Dest]
  /\ wanted = {} /\ todo = {}
  /\ state = "none"
  /\ linked = FALSE
  /\ last = {}

Begin(r) ==
  /\ state # "running"
  /\ state' = "running"
  /\ last' = IF state = "ok" THEN wanted ELSE {}
  /\ wanted' = r /\ todo' = r
  /\ linked' = FALSE
  /\ UNCHANGED at

SlipLink(s, d) ==
  /\ state = "running" /\ <<s, d>> \in todo
  /\ at[s] # d
  /\ at' = [at EXCEPT ![s] = d]
  /\ linked' = TRUE
  /\ todo' = todo \ {<<s, d>>}
  /\ UNCHANGED <<wanted, state, last>>

(* A path that is not a link yet becomes one.                              *)
Link(s, d) ==
  /\ state = "running" /\ <<s, d>> \in todo
  /\ at[s] = None
  /\ at' = [at EXCEPT ![s] = d]
  /\ linked' = TRUE
  /\ todo' = todo \ {<<s, d>>}
  /\ UNCHANGED <<wanted, state, last>>

(* os.path.islink: whatever it links to.                                   *)
Keep(s, d) ==
  /\ state = "running" /\ <<s, d>> \in todo
  /\ at[s] \in Dest
  /\ todo' = todo \ {<<s, d>>}
  /\ UNCHANGED <<at, wanted, state, linked, last>>

(* os.symlink over a file or directory raises OSError.                     *)
Crash(s, d) ==
  /\ state = "running" /\ <<s, d>> \in todo
  /\ at[s] = "file"
  /\ state' = "crashed"
  /\ UNCHANGED <<at, wanted, todo, linked, last>>

Exit ==
  /\ state = "running"
  /\ todo = {}
  /\ state' = "ok"
  /\ UNCHANGED <<at, wanted, todo, linked, last>>

Next ==
  \/ \E r \in Requests : Begin(r)
  \/ \E s \in Src, d \in Dest : Link(s, d) \/ Keep(s, d) \/ Crash(s, d)
  \/ Exit

Spec == Init /\ [][Next]_vars

-----------------------------------------------------------------------------
TypeOK ==
  /\ at \in [Src -> {None, "file"} \cup Dest]
  /\ todo \subseteq wanted /\ wanted \subseteq Src \X Dest
  /\ state \in {"none", "running", "ok", "crashed"}
  /\ linked \in BOOLEAN

(* Asking again for what has just been granted changes nothing and reports *)
(* no change, even when two keys of a request ask for one path with        *)
(* different targets, of which only the first is linked                    *)
(* (symlinks.py:71).                                                       *)
RerunIsQuiet == state = "ok" /\ last = wanted => ~linked
=============================================================================
