------------------------------- MODULE MCStamps -------------------------------
(* Packager with tarballs that versions do not tell apart, for TLC: one of *)
(* three is not stamped, the two others were built of one version.         *)
EXTENDS MCPackager

CONSTANT x3

Alike == [p \in Package |-> (x1 :> None @@ x2 :> 2 @@ x3 :> 2)]
AlikeGuess == x1 :> 1 @@ x2 :> 3 @@ x3 :> 4

(* One service; what an earlier run returned names any of the tarballs.    *)
AlikeRequests ==
  {CacheUpdate, InstallLatest(s1), StageLatest(s1), InstallVersion(s1, 1),
   ActivateVersion(s1, 2), ActivateSuffix(s1, x1), ActivateLatest(s1),
   RemoveLatest(s1), RemoveVersion(s1, 1)}
    \cup {ActivateReturned(s1, x) : x \in {x1, x2, x3}}
    \cup {RemoveReturned(s1, x) : x \in {x1, x3}}
=============================================================================
