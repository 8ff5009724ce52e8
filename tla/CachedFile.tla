----------------------------- MODULE CachedFile -----------------------------
(***************************************************************************)
(* get-cached-file.yml: one artifact, its checksum file and the link to it *)
(* in the cache, against a server that swaps the artifact and its checksum *)
(* one after the other.  A version stands for the contents and for the     *)
(* checksum they have.                                                     *)
(***************************************************************************)
EXTENDS Naturals

CONSTANTS
  Version, None,
  Torn,        \* a download that was cut short
  Retries, MaxFaults

VARIABLES
  sum, served,           \* the server's checksum file and artifact
  sha256, file, tmp,     \* <name>.sha256, <name> and .<name>.tmp in the cache
  link,                  \* "absent", "file": a regular file, or "ours"
  pc,
  want,                  \* _server_sha256_result of this run
  valid,                 \* _sha256sum_result
  tries, outcome, faults

vars == <<sum, served, sha256, file, tmp, link, pc, want, valid, tries, outcome, faults>>
server == <<sum, served>>
cache == <<sha256, file, tmp, link>>

Init ==
  /\ sum \in Version /\ served \in Version
  /\ sha256 = None /\ file = None /\ tmp = None
  /\ link \in {"absent", "file"}
  /\ pc = "idle"
  /\ want = None /\ valid = FALSE
  /\ tries = 0
  /\ outcome = "none" /\ faults = 0

(* The server publishes, or takes back, a version.                         *)
SwapArtifact(v) == served' = v /\ UNCHANGED <<sum, cache, pc, want, valid, tries, outcome, faults>>
SwapSum(v) == sum' = v /\ UNCHANGED <<served, cache, pc, want, valid, tries, outcome, faults>>

(* Retrieve and extract the server's checksum.                             *)
FetchSum ==
  /\ pc = "idle"
  /\ want' = sum
  /\ tries' = 0
  /\ outcome' = "running"
  /\ pc' = "compare"
  /\ UNCHANGED <<server, cache, valid, faults>>

(* Delete the local file if the checksums differ ...                       *)
DeleteFile ==
  /\ pc = "compare"
  /\ file' = IF sha256 # want THEN None ELSE file
  /\ pc' = "sum"
  /\ UNCHANGED <<server, sha256, tmp, link, want, valid, tries, outcome, faults>>

SlipUpdateSum ==
  /\ pc = "sum"
  /\ sha256' = IF sha256 = None THEN want ELSE sha256
  /\ pc' = "validate"
  /\ UNCHANGED <<server, file, tmp, link, want, valid, tries, outcome, faults>>

(* ... and update the local checksum.                                      *)
UpdateSum ==
  /\ pc = "sum"
  /\ sha256' = want
  /\ pc' = "validate"
  /\ UNCHANGED <<server, file, tmp, link, want, valid, tries, outcome, faults>>

(* sha256sum -c against the local checksum file.                           *)
Validate ==
  /\ pc = "validate"
  /\ valid' = (file = sha256)
  /\ pc' = IF valid' THEN "link" ELSE "download"
  /\ UNCHANGED <<server, cache, want, tries, outcome, faults>>

SlipDownload ==
  /\ pc = "download"
  /\ \/ tmp' = served
     \/ faults < MaxFaults /\ tmp' = Torn
  /\ faults' = IF tmp' = Torn THEN faults + 1 ELSE faults
  /\ tries' = tries + 1
  /\ pc' = "move"
  /\ UNCHANGED <<server, sha256, file, link, want, valid, outcome>>

(* get_url with sha256sum, retried while the server has another version.   *)
Download ==
  /\ pc = "download"
  /\ \/ tmp' = served
     \/ faults < MaxFaults /\ tmp' = Torn
  /\ faults' = IF tmp' = Torn THEN faults + 1 ELSE faults
  /\ tries' = tries + 1
  /\ \/ tmp' = want /\ pc' = "move" /\ UNCHANGED outcome
     \/ tmp' # want /\ tries < Retries /\ UNCHANGED <<pc, outcome>>
     \/ tmp' # want /\ tries = Retries /\ pc' = "idle" /\ outcome' = "failed"
  /\ UNCHANGED <<server, sha256, file, link, want, valid>>

Move ==
  /\ pc = "move"
  /\ file' = tmp /\ tmp' = None
  /\ pc' = "link"
  /\ UNCHANGED <<server, sha256, link, want, valid, tries, outcome, faults>>

(* A regular file under the link's name is deleted, then the link made.    *)
Unlink ==
  /\ pc = "link"
  /\ link' = IF link = "file" THEN "absent" ELSE link
  /\ pc' = "relink"
  /\ UNCHANGED <<server, sha256, file, tmp, want, valid, tries, outcome, faults>>

Link ==
  /\ pc = "relink"
  /\ link' = "ours"
  /\ pc' = "idle"
  /\ outcome' = "ok"
  /\ UNCHANGED <<server, sha256, file, tmp, want, valid, tries, faults>>

Kill ==
  /\ pc # "idle"
  /\ faults < MaxFaults
  /\ faults' = faults + 1
  /\ pc' = "idle"
  /\ outcome' = "killed"
  /\ UNCHANGED <<server, cache, want, valid, tries>>

Next ==
  \/ \E v \in Version : SwapArtifact(v) \/ SwapSum(v)
  \/ FetchSum \/ DeleteFile \/ UpdateSum \/ Validate \/ Download \/ Move
  \/ Unlink \/ Link \/ Kill

Spec == Init /\ [][Next]_vars

-----------------------------------------------------------------------------
TypeOK ==
  /\ {sum, served} \subseteq Version
  /\ {sha256, want, file} \subseteq Version \cup {None}
  /\ tmp \in Version \cup {None, Torn}
  /\ link \in {"absent", "file", "ours"}
  /\ pc \in {"idle", "compare", "sum", "validate", "download", "move", "link", "relink"}
  /\ valid \in BOOLEAN /\ tries \in 0 .. Retries + 1
  /\ outcome \in {"none", "running", "ok", "failed", "killed"} /\ faults \in 0 .. MaxFaults

(* When the role succeeds, the link leads to an artifact with the checksum *)
(* that the server had when this run asked, whatever earlier runs, stopped *)
(* at any task, have left of older versions, and however the server's two  *)
(* files were swapped meanwhile (get-cached-file.yml:140).                 *)
CachedIsCurrent ==
  outcome = "ok" => file = want /\ sha256 = want /\ link = "ours"
=============================================================================
