----------------------------- MODULE MCPackager -----------------------------
(* Instances of Packager for TLC: two services share one package of which  *)
(* two tarballs exist.                                                     *)
EXTENDS Packager, TLC

CONSTANTS p1, s1, s2, x1, x2

MCPackageOf == [s \in Service |-> p1]

(* Stamped tarballs of different versions.                                 *)
Stamped == [p \in Package |-> (x1 :> 1 @@ x2 :> 2)]

MCGuess == x1 :> 3 @@ x2 :> 4

AllTarballs == {p1} \X {x1, x2}
OneTarball == {<<p1, x1>>}

-----------------------------------------------------------------------------
Params(state, service, dict, version, suffix, activate) ==
  [cache |-> None, state |-> state, service |-> service, dict |-> dict,
   version |-> version, suffix |-> suffix, activate |-> activate]

CacheUpdate == [Params(None, None, FALSE, Latest, None, None)
                  EXCEPT !.cache = "update"]
InstallLatest(s) == Params("present", s, FALSE, Latest, None, None)
StageLatest(s) == Params("present", s, FALSE, Latest, None, "act_off")
InstallVersion(s, v) == Params("present", s, FALSE, v, None, None)
ActivateVersion(s, v) == Params(None, s, FALSE, v, None, None)
ActivateSuffix(s, x) == Params(None, s, FALSE, x, None, "act_on")
ActivateLatest(s) == Params(None, s, FALSE, Latest, None, "act_on")
RemoveLatest(s) == Params("absent", s, FALSE, Latest, None, None)
RemoveVersion(s, v) == Params("absent", s, FALSE, v, None, None)

(* The dictionary returned by the run that installed tarball x.            *)
ActivateReturned(s, x) ==
  Params(None, s, TRUE, TarballVersion(p1, x), x, "act_on")
RemoveReturned(s, x) ==
  Params("absent", s, TRUE, TarballVersion(p1, x), x, None)

(* One service, every kind of request.                                     *)
FullRequests ==
  {CacheUpdate, InstallLatest(s1), StageLatest(s1), InstallVersion(s1, 1),
   ActivateReturned(s1, x1), ActivateReturned(s1, x2), ActivateLatest(s1),
   ActivateVersion(s1, 2), ActivateSuffix(s1, x1), RemoveLatest(s1),
   RemoveVersion(s1, 1), RemoveReturned(s1, x2)}

(* Two services, the requests a deployment and an upgrade make: s1 is      *)
(* installed and activated at once, s2 is staged and activated later.      *)
SharedRequests ==
  {CacheUpdate, InstallLatest(s1), StageLatest(s2), RemoveLatest(s1),
   RemoveReturned(s2, x1)}
    \cup {ActivateReturned(s2, x) : x \in {x1, x2}}
=============================================================================
