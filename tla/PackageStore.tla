---------------------------- MODULE PackageStore ----------------------------
(***************************************************************************)
(* What install_package promises when nothing fails, with every directory  *)
(* appearing and disappearing at once: packages are unpacked and           *)
(* discarded, services are installed from unpacked packages, and at most   *)
(* one installed version of a service is active.  A package in use is not  *)
(* discarded, and an active version is not removed.                        *)
(***************************************************************************)
CONSTANTS Package, Suffix, Service, PackageOf, None

VARIABLES
  unpacked,    \* pairs <<p, x>>: tarballs that are completely extracted
  installed,   \* pairs <<s, x>>: service directories that are complete
  active       \* active[s]: suffix of the active version of s, or None

vars == <<unpacked, installed, active>>

Init ==
  /\ unpacked = {}
  /\ installed = {}
  /\ active = [s \in Service |-> None]

Unpack(p, x) ==
  /\ unpacked' = unpacked \cup {<<p, x>>}
  /\ UNCHANGED <<installed, active>>

Install(s, x) ==
  /\ <<PackageOf[s], x>> \in unpacked
  /\ installed' = installed \cup {<<s, x>>}
  /\ UNCHANGED <<unpacked, active>>

(* A version becomes active only when none is.                             *)
Activate(s, x) ==
  /\ active[s] = None
  /\ <<s, x>> \in installed
  /\ active' = [active EXCEPT ![s] = x]
  /\ UNCHANGED <<unpacked, installed>>

Deactivate(s) ==
  /\ active' = [active EXCEPT ![s] = None]
  /\ UNCHANGED <<unpacked, installed>>

Remove(s, x) ==
  /\ active[s] # x
  /\ installed' = installed \ {<<s, x>>}
  /\ UNCHANGED <<unpacked, active>>

Discard(p, x) ==
  /\ \A s \in Service : PackageOf[s] = p => <<s, x>> \notin installed
  /\ unpacked' = unpacked \ {<<p, x>>}
  /\ UNCHANGED <<installed, active>>

Next ==
  \/ \E p \in Package, x \in Suffix : Unpack(p, x) \/ Discard(p, x)
  \/ \E s \in Service :
       \/ Deactivate(s)
       \/ \E x \in Suffix : Install(s, x) \/ Activate(s, x) \/ Remove(s, x)

Spec == Init /\ [][Next]_vars
=============================================================================
