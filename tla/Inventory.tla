------------------------------ MODULE Inventory ------------------------------
(***************************************************************************)
(* hosts/vagrant.py --host: the inventory that reads the ssh configuration *)
(* of the virtual machines, line by line.  A line is [kind, word]: "host"  *)
(* names a box, "option" sets an option, "word" is one that the expression *)
(* for options does not match, "blank" ends a box.  What follows Host is   *)
(* one key, several names too.  The value of an option is stood for by the *)
(* number of its line.                                                     *)
(***************************************************************************)
EXTENDS Naturals

CONSTANTS
  Box, Option, None,
  Needed,    \* the options that are passed on as ansible_ssh_*
  MaxLines   \* bound on the lines of a file

VARIABLES
  lines,    \* the file vagrant-ssh-config, or what vagrant ssh-config says
  next,     \* output_iter: the number of the next line
  box,      \* the box whose block is read, or None
  config,
  asked,    \* --host
  outcome

vars == <<lines, next, box, config, asked, outcome>>

Line == [kind : {"host"}, word : Box] \cup [kind : {"option"}, word : Option]
          \cup [kind : {"word", "blank"}, word : {None}]

Init ==
  /\ lines \in UNION {[1 .. n -> Line] : n \in 0 .. MaxLines}
  /\ next = 1
  /\ box = None
  /\ config = <<>>
  /\ asked \in Box
  /\ outcome = "reading"

With(f, k, v) == [x \in DOMAIN f \cup {k} |-> IF x = k THEN v ELSE f[x]]
Left == next \in DOMAIN lines
Sees(kind) == outcome = "reading" /\ Left /\ lines[next].kind = kind
Advance == next' = next + 1 /\ UNCHANGED <<lines, asked, outcome>>
Ends(how) == outcome' = how /\ UNCHANGED <<lines, next, box, config, asked>>

SlipHost ==
  /\ box = None /\ Sees("host")
  /\ box' = lines[next].word
  /\ config' = With(config, box', IF box' \in DOMAIN config
                                 THEN With(config[box'], "Host", next)
                                 ELSE [option \in {"Host"} |-> next])
  /\ Advance

(* config[box] = {}; then the Host line is read as an option.              *)
Host ==
  /\ box = None /\ Sees("host")
  /\ box' = lines[next].word
  /\ config' = With(config, box', [option \in {"Host"} |-> next])
  /\ Advance

(* A Host line in the middle of a block is an option like any other.       *)
SetOption ==
  /\ box # None /\ (Sees("host") \/ Sees("option"))
  /\ LET option == IF lines[next].kind = "host" THEN "Host" ELSE lines[next].word
     IN  config' = [config EXCEPT ![box] = With(@, option, next)]
  /\ box' = box
  /\ Advance

(* matcher is None.                                                        *)
NoMatch == box # None /\ Sees("word") /\ Ends("crashed")

Blank ==
  /\ box # None /\ Sees("blank")
  /\ box' = None
  /\ UNCHANGED config
  /\ Advance

(* Between the blocks, lines are passed over.                              *)
Skip ==
  /\ box = None /\ (Sees("option") \/ Sees("word") \/ Sees("blank"))
  /\ UNCHANGED <<box, config>>
  /\ Advance

(* next(output_iter) raises StopIteration in a block that no blank line    *)
(* ends.                                                                   *)
Unended == outcome = "reading" /\ ~Left /\ box # None /\ Ends("crashed")

(* config[boxname] and the options that are passed through: KeyError when  *)
(* one is missing.                                                         *)
Answer ==
  /\ outcome = "reading" /\ ~Left /\ box = None
  /\ Ends(IF asked \in DOMAIN config /\ Needed \subseteq DOMAIN config[asked]
          THEN "ok" ELSE "crashed")

Next == Host \/ SetOption \/ NoMatch \/ Blank \/ Skip \/ Unended \/ Answer

Spec == Init /\ [][Next]_vars

-----------------------------------------------------------------------------
TypeOK ==
  /\ next \in 1 .. MaxLines + 1
  /\ box \in Box \cup {None}
  /\ DOMAIN config \subseteq Box
  /\ \A b \in DOMAIN config : DOMAIN config[b] \subseteq Option \cup {"Host"}
  /\ outcome \in {"reading", "ok", "crashed"}

(* The block of a box begins at the last Host line that names it and is    *)
(* not itself within a block; it reaches to the next blank line.           *)
Blanks == {i \in DOMAIN lines : lines[i].kind = "blank"}
Begins(i) ==
  /\ lines[i].kind = "host"
  /\ \A j \in 1 .. i - 1 : lines[j].kind = "host" => \E k \in Blanks : j < k /\ k < i
BlockOf(b) ==
  LET starts == {i \in DOMAIN lines : lines[i].word = b /\ Begins(i)}
      first == CHOOSE i \in starts : \A j \in starts : j <= i
  IN  {k \in DOMAIN lines : k >= first /\ \A j \in Blanks : j < first \/ k < j}
(* What the inventory answers for a box is what the last block for the box *)
(* says, each option as it is set last, and nothing that another block, or *)
(* an earlier one for the same box, says (vagrant.py:102).                 *)
AnswersFromItsBlock ==
  outcome = "ok" =>
    \A o \in DOMAIN config[asked] \ {"Host"} :
      LET said == {k \in BlockOf(asked) : lines[k].kind = "option" /\ lines[k].word = o}
      IN  config[asked][o] \in said /\ \A k \in said : k <= config[asked][o]
=============================================================================
