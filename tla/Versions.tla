------------------------------ MODULE Versions ------------------------------
(***************************************************************************)
(* What a tarball's name and its META-INF come to: package, suffix and     *)
(* Version (version.py, config.py).  Packages takes versions for numbers   *)
(* and names for pairs; this module says why it may.  A file name is the   *)
(* sequence of the words between its hyphens: nova-api-20160503T082438Z is *)
(* <<"nova", "api", t>>.  A part of a version is a number or a word; the   *)
(* releases of META-INF are of numbers only, of few digits (PyYAML and str *)
(* keep twelve).                                                           *)
(***************************************************************************)
EXTENDS Naturals, SequencesExt

CONSTANTS
  Ardana,     \* the word "ardana"
  Package,    \* names: sequences of words
  Timestamp,  \* suffixes of one word, which sort as these numbers do
  Dotted,     \* words like 4.0.0: digits and dots, with a dot
  Known,      \* versions.yml: Known[t] is the release of suffix t
  Release,    \* releases, in META-INF: sequences of numbers
  Patch,      \* patch numbers; 0 is none
  None

VARIABLES one, other   \* two tarballs: [package, suffix, meta]

(* META-INF/version.yml                                                    *)
Meta == [version : Release, timestamp : Timestamp, patch : Patch]
Suffix == {<<t>> : t \in Timestamp} \cup {<<Ardana, d>> : d \in Dotted}
Init ==
  /\ one \in [package : Package, suffix : Suffix, meta : Meta \cup {None}]
  /\ other \in [package : {one.package}, suffix : Suffix, meta : Meta \cup {None}]

-----------------------------------------------------------------------------
(* Python 2 orders numbers before words, and lists lexicographically; the  *)
(* parts of a Version are lists.                                           *)
Number(n) == [word |-> FALSE, value |-> n]
Word(t) == [word |-> TRUE, value |-> t]
PartLess(p, q) == IF p.word = q.word THEN p.value < q.value ELSE q.word
ListLess(s, t, less(_, _)) ==
  \/ IsStrictPrefix(s, t)
  \/ \E i \in DOMAIN s \cap DOMAIN t :
       less(s[i], t[i]) /\ SubSeq(s, 1, i - 1) = SubSeq(t, 1, i - 1)
Less(v, w) == ListLess(v, w, LAMBDA s, t : ListLess(s, t, PartLess))

SlipFromStr(n) == Word(IF n >= 10 THEN n \div 10 ELSE n)

(* from_str: isdigit.                                                      *)
FromStr(n) == Number(n)

Numbers(s) == [i \in DOMAIN s |-> FromStr(s[i])]

(* TAR_FORMAT: the first group is greedy, so the suffix is the last word   *)
(* if that can be one, and else Ardana with what follows it.               *)
Split(file) ==
  LET n == IF Last(file) \in Dotted THEN Len(file) - 2 ELSE Len(file) - 1
  IN  <<SubSeq(file, 1, n), SubSeq(file, n + 1, Len(file))>>

(* guess_from_suffix and best_guess: "2.0.0:" and the suffix, unless it is *)
(* in versions.yml.  Of ardana-4.0.0, which from_str takes for <<"ardana-  *)
(* 4", 0, 0>>, only the word is kept: no order is stated for it.           *)
BestGuess(suffix) ==
  IF Len(suffix) = 1 /\ Head(suffix) \in DOMAIN Known
  THEN <<Numbers(Known[Head(suffix)]), <<Word(Head(suffix))>>>>
  ELSE <<Numbers(<<2, 0, 0>>),
         IF Len(suffix) = 1 THEN <<Word(Head(suffix))>> ELSE <<Word(Ardana)>>>>

(* yaml.safe_load, and str of what it gives: venv_edit writes the release  *)
(* without quotes, so one of two parts is a float, and 3.10 is read as 3.1.*)
(* A release of three parts is text.                                       *)
Stripped[n \in Nat] == IF n > 0 /\ n % 10 = 0 THEN Stripped[n \div 10] ELSE n
SafeLoad(release) ==
  IF Len(release) = 2 THEN <<release[1], Stripped[release[2]]>> ELSE release

(* from_tarball: "version:timestamp", or "version:timestamp:patch".        *)
FromTarball(t) ==
  IF t.meta = None THEN BestGuess(Split(t.package \o t.suffix)[2])
  ELSE <<Numbers(SafeLoad(t.meta.version)), <<Word(t.meta.timestamp)>>>>
         \o (IF t.meta.patch = 0 THEN <<>> ELSE <<Numbers(<<t.meta.patch>>)>>)

-----------------------------------------------------------------------------
(* When a build was made, and of what release it is.                       *)
Earlier(s, t) == ListLess(s, t, LAMBDA m, n : m < n)
Built(t) ==
  IF t.meta # None THEN t.meta
  ELSE LET x == Head(t.suffix)
       IN  [version |-> IF x \in DOMAIN Known THEN Known[x] ELSE <<2, 0, 0>>,
            timestamp |-> x, patch |-> 0]

(* Builds whose release version.yml gives back as it was.                  *)
Kept(t) == t.meta # None => SafeLoad(t.meta.version) = t.meta.version

(* The packager takes the later of two builds of a package for the newer:  *)
(* by release, then by time, then by patch, each as numbers and not as     *)
(* text, if the release survives version.yml, which 3.10 does not; and the *)
(* name of a tarball falls into the package and the suffix it was made of, *)
(* although both may contain hyphens, so that a build without META-INF is  *)
(* as old as its suffix says (version.py:65, version.py:96, config.py:37). *)
LaterIsNewer ==
  /\ Split(one.package \o one.suffix) = <<one.package, one.suffix>>
  /\ /\ Head(one.suffix) \in Timestamp /\ Head(other.suffix) \in Timestamp
     /\ Kept(one) /\ Kept(other)
     => LET b == Built(one)
            c == Built(other)
        IN  Less(FromTarball(one), FromTarball(other))
            = (\/ Earlier(b.version, c.version)
               \/ /\ b.version = c.version
                  /\ \/ b.timestamp < c.timestamp
                     \/ b.timestamp = c.timestamp /\ b.patch < c.patch)
=============================================================================
