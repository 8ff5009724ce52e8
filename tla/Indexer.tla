------------------------------- MODULE Indexer -------------------------------
(***************************************************************************)
(* create_index (indexer.py) step by step, in a directory that others      *)
(* write to: tarballs are copied in, written in place (venv_edit) and      *)
(* removed.  The index file is loaded, the directory listed, the files the *)
(* index does not name are opened by a pool of processes, and the index    *)
(* file is truncated and written.                                          *)
(***************************************************************************)
EXTENDS RepoIndex

CONSTANTS
  Torn,   \* an index file that was cut short and does not load
  Kills   \* how many invocations may be killed

ASSUME IndexerAssumption ==
  /\ Torn \notin Index \cup {None}
  /\ None \notin Index \cup Entries
  /\ Kills \in Nat

VARIABLES
  alone,      \* whether each invocation has the directory to itself, to its end
  files,      \* each tarball: "none", "cut" (not written to its end), "whole"
  indexFile,  \* the index file: None, Torn or an index
  pc,         \* where the invocation is
  old,        \* the index it loaded
  seen,       \* tarballs it takes to be in the directory
  toOpen,     \* those that it has still to open
  outcome,    \* how the last invocation ended
  kills,      \* invocations killed so far
  quiet       \* no tarball has changed since the last invocation started

vars == <<alone, files, indexFile, pc, old, seen, toOpen, outcome, kills, quiet>>

Present == {t \in Tarball : files[t] # "none"}
Named(index) == {t \in Tarball : \E v \in Listed(index, t[1]) : index[t[1]][v] = t[2]}

Init ==
  /\ alone \in BOOLEAN
  /\ files = [t \in Tarball |-> "none"]
  /\ indexFile = None
  /\ pc = "idle"
  /\ old = EmptyIndex
  /\ seen = {} /\ toOpen = {}
  /\ outcome = "none"
  /\ kills = 0
  /\ quiet = FALSE

-----------------------------------------------------------------------------
(* The directory: copied whole, written in place, removed.                 *)

Change(t, state) ==
  /\ alone => pc = "idle"
  /\ files' = [files EXCEPT ![t] = state]
  /\ quiet' = FALSE
  /\ UNCHANGED <<alone, indexFile, pc, old, seen, toOpen, outcome, kills>>

Copied(t) == files[t] # "whole" /\ Change(t, "whole")
WriteBegins(t) == files[t] = "none" /\ Change(t, "cut")
Removed(t) == files[t] # "none" /\ Change(t, "none")

-----------------------------------------------------------------------------
End(how) ==
  /\ pc' = "idle"
  /\ outcome' = how
  /\ old' = EmptyIndex
  /\ seen' = {} /\ toOpen' = {}

(* load_index: a missing file is IOError, which create_index catches.      *)
Load ==
  /\ pc = "idle"
  /\ indexFile # Torn
  /\ pc' = "list"
  /\ old' = IF indexFile = None THEN EmptyIndex ELSE indexFile
  /\ quiet' = TRUE
  /\ outcome' = "running"
  /\ UNCHANGED <<alone, files, indexFile, seen, toOpen, kills>>

(* yaml.load of a truncated file: no index, or no yaml.                    *)
LoadFails ==
  /\ pc = "idle"
  /\ indexFile = Torn
  /\ End("crashed")
  /\ quiet' = TRUE
  /\ UNCHANGED <<alone, files, indexFile, kills>>

SlipList ==
  /\ pc = "list"
  /\ pc' = "open"
  /\ seen' = Present \cup Named(old)
  /\ toOpen' = Present \ Named(old)
  /\ UNCHANGED <<alone, files, indexFile, old, outcome, kills, quiet>>

(* os.listdir; files_to_add are those the index does not name.             *)
List ==
  /\ pc = "list"
  /\ pc' = "open"
  /\ seen' = Present
  /\ toOpen' = Present \ Named(old)
  /\ UNCHANGED <<alone, files, indexFile, old, outcome, kills, quiet>>

(* get_version in the pool, in any order.                                  *)
Open(t) ==
  /\ pc = "open"
  /\ t \in toOpen
  /\ files[t] = "whole"
  /\ toOpen' = toOpen \ {t}
  /\ UNCHANGED <<alone, files, indexFile, pc, old, seen, outcome, kills, quiet>>

(* It was removed since it was listed: not isfile, no version.             *)
OpenVanished(t) ==
  /\ pc = "open"
  /\ t \in toOpen
  /\ files[t] = "none"
  /\ toOpen' = toOpen \ {t}
  /\ seen' = seen \ {t}
  /\ UNCHANGED <<alone, files, indexFile, pc, old, outcome, kills, quiet>>

(* Reading a cut file raises ReadError or IOError, and so does one that    *)
(* goes between isfile and open; get_version catches neither.              *)
OpenFails(t) ==
  /\ pc = "open"
  /\ t \in toOpen
  /\ files[t] # "whole"
  /\ End("crashed")
  /\ UNCHANGED <<alone, files, indexFile, kills, quiet>>

(* write_index: open(target, 'w') ...                                      *)
Truncate ==
  /\ pc = "open"
  /\ toOpen = {}
  /\ pc' = "write"
  /\ indexFile' = Torn
  /\ UNCHANGED <<alone, files, old, seen, toOpen, outcome, kills, quiet>>

(* ... and yaml.dump.                                                      *)
Write ==
  /\ pc = "write"
  /\ \E new \in Reindexed(old, seen) : indexFile' = new
  /\ End("ok")
  /\ UNCHANGED <<alone, files, kills, quiet>>

Step ==
  \/ Load \/ LoadFails \/ List \/ Truncate \/ Write
  \/ \E t \in Tarball : Open(t) \/ OpenVanished(t) \/ OpenFails(t)

(* Killed.  Of an index that was being written the file may hold nothing,  *)
(* a piece that does not load, or whole entries: some of them.             *)
Kill ==
  /\ ~alone
  /\ pc # "idle"
  /\ kills < Kills
  /\ kills' = kills + 1
  /\ End("killed")
  /\ \/ UNCHANGED indexFile
     \/ /\ pc = "write"
        /\ \E new \in Reindexed(old, seen), V \in SUBSET Version :
             indexFile' = [p \in Package |->
               IF new[p] = None THEN None
               ELSE [v \in V \cap DOMAIN new[p] |-> new[p][v]]]
  /\ UNCHANGED <<alone, files, quiet>>

Next ==
  \/ Step
  \/ Kill
  \/ \E t \in Tarball : Copied(t) \/ WriteBegins(t) \/ Removed(t)

Spec == Init /\ [][Next]_vars

-----------------------------------------------------------------------------
TypeOK ==
  /\ alone \in BOOLEAN
  /\ files \in [Tarball -> {"none", "cut", "whole"}]
  /\ indexFile \in Index \cup {None, Torn}
  /\ pc \in {"idle", "list", "open", "write"}
  /\ old \in Index
  /\ seen \subseteq Tarball
  /\ toOpen \subseteq seen
  /\ outcome \in {"none", "running", "ok", "crashed", "killed"}
  /\ kills \in 0 .. Kills
  /\ quiet \in BOOLEAN

Loaded(p) == IF indexFile \in {None, Torn} THEN {} ELSE Listed(indexFile, p)

(* However create_index was interrupted before, and whatever the index it  *)
(* found had lost: once it succeeds in a directory that did not change     *)
(* meanwhile, every tarball's version is in the index, and an entry leads  *)
(* to a tarball of that version (indexer.py:77-104).                       *)
IndexesTheDirectory ==
  pc = "idle" /\ outcome = "ok" /\ quiet =>
    /\ \A t \in Present : TarballVersion(t[1], t[2]) \in Loaded(t[1])
    /\ \A p \in Package : \A v \in Loaded(p) :
         /\ <<p, indexFile[p][v]>> \in Present
         /\ TarballVersion(p, indexFile[p][v]) = v

(* With the directory to itself create_index is the single step that       *)
(* Packager takes it for.                                                  *)
Atomic == INSTANCE IndexStore
  WITH index <- IF ~alone \/ indexFile = None THEN EmptyIndex
                ELSE IF pc = "write" THEN old ELSE indexFile,
       files <- IF alone THEN Present ELSE {}
ImplementsAtomicIndex == Atomic!Spec

-----------------------------------------------------------------------------
(* "Create an index file from the contents of a directory"                 *)
(* (indexer.py:59): a run in a directory of good tarballs that nobody      *)
(* disturbs does so, and does not crash, whatever a run before it left of  *)
(* the index file (indexer.py:136).                                        *)
CreatesIndex ==
  outcome = "crashed" => ~quiet \/ \E t \in Tarball : files[t] = "cut"
=============================================================================
