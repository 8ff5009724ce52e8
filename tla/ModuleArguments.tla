--------------------------- MODULE ModuleArguments ---------------------------
(***************************************************************************)
(* AnsibleModule.__init__ (ansible.py): what becomes of the arguments that *)
(* a module of the packager is called with.  An argument is a pair of a    *)
(* name and a text, a conversion of a text is a pair of a type and the     *)
(* text.  The checks run in a fixed order, each over the whole             *)
(* specification, and each may end the process.  The key NO_LOG, which     *)
(* turns off the logging, is left out.                                     *)
(***************************************************************************)
EXTENDS Sequences, SequencesExt

CONSTANTS
  Name, Alias, Other,  \* names in the specification, their aliases, any other
  Text, None,
  Argument,            \* argument_spec: [required, default, choices, type, aliases]
  Fits,                \* Fits[t]: the texts that convert to type t
  Exclusive, Together, OneOf,   \* sets of sets of names
  ChecksMode,          \* supports_check_mode
  MaxWords             \* bound on the words of a call

VARIABLES
  items,     \* the words of the call not looked at yet
  params,    \* a function from names to values
  pc,
  outcome,   \* "running", "accepted", "failed", "skipped" or "raised"
  check_mode

vars == <<items, params, pc, outcome, check_mode>>

Key == Name \cup Alias \cup Other \cup {"CHECKMODE"}
Type == {"str", "list", "dict", "bool", "int", "float"}
Value == Text \cup {None} \cup (Type \X Text)
Item == (Key \X Text) \cup {None}   \* None: a word without "="

With(f, k, v) == [x \in DOMAIN f \cup {k} |-> IF x = k THEN v ELSE f[x]]
Given == DOMAIN params

Init ==
  /\ items = << >> /\ params = << >>
  /\ pc = "idle"
  /\ outcome = "running"
  /\ check_mode = FALSE

Start(args) ==
  /\ pc = "idle"
  /\ items' = args
  /\ pc' = "load"
  /\ UNCHANGED <<params, outcome, check_mode>>

(* A process constructs one module.                                        *)
NewProcess ==
  /\ pc = "ended"
  /\ items' = << >> /\ params' = << >>
  /\ pc' = "idle"
  /\ outcome' = "running"
  /\ check_mode' = FALSE

-----------------------------------------------------------------------------
End(how) == pc' = "ended" /\ outcome' = how /\ UNCHANGED <<items, params, check_mode>>
Pass(next) == pc' = next /\ UNCHANGED <<items, params, outcome, check_mode>>
Become(p, next) == pc' = next /\ params' = p /\ UNCHANGED <<items, outcome, check_mode>>

(* _load_params: key=value words only, and no key twice.                   *)
LoadItem ==
  /\ pc = "load" /\ items # << >>
  /\ IF Head(items) = None \/ Head(items)[1] \in Given
     THEN End("failed")
     ELSE /\ params' = With(params, Head(items)[1], Head(items)[2])
          /\ items' = Tail(items)
          /\ UNCHANGED <<pc, outcome, check_mode>>

Loaded == pc = "load" /\ items = << >> /\ Pass("aliases")

GivenAliases(k) == {i \in DOMAIN Argument[k].aliases : Argument[k].aliases[i] \in Given}
Canonical ==
  [k \in Given \cup {n \in Name : GivenAliases(n) # {}} |->
     IF k \in Name /\ GivenAliases(k) # {}
     THEN params[Argument[k].aliases[Max(GivenAliases(k))]]
     ELSE params[k]]

(* _handle_aliases: the last alias given overrides; the aliases stay.      *)
HandleAliases ==
  /\ pc = "aliases"
  /\ IF \E k \in Name : Argument[k].required /\ Argument[k].default # None
     THEN End("failed")
     ELSE Become(Canonical, "legal")

Aliases == UNION {Range(Argument[k].aliases) : k \in Name}

CheckInvalid ==
  /\ pc = "legal"
  /\ IF Given \subseteq Name \cup Aliases \cup {"CHECKMODE"} THEN Pass("mode") ELSE End("failed")

(* Whatever the value of CHECKMODE.                                        *)
CheckMode ==
  /\ pc = "mode"
  /\ IF "CHECKMODE" \in Given /\ ~ChecksMode
     THEN End("skipped")
     ELSE /\ check_mode' = ("CHECKMODE" \in Given)
          /\ pc' = "exclusive"
          /\ UNCHANGED <<items, params, outcome>>

(* At most one of each set, of those that the caller gave.                 *)
CheckExclusive ==
  /\ pc = "exclusive"
  /\ IF \E s \in Exclusive : \E a, b \in s \cap Given : a # b
     THEN End("failed")
     ELSE Pass("defaults")

Defaulted(which) ==
  [k \in Given \cup which |-> IF k \in Given THEN params[k] ELSE Argument[k].default]

SlipSetDefaults ==
  /\ pc = "defaults"
  /\ Become(Defaulted(Name), "required")

(* _set_defaults(pre=True): those that are not None.                       *)
SetDefaults ==
  /\ pc = "defaults"
  /\ Become(Defaulted({k \in Name : Argument[k].default # None}), "required")

CheckRequired ==
  /\ pc = "required"
  /\ IF \A k \in Name : Argument[k].required => k \in Given
     THEN Pass("choices") ELSE End("failed")

(* Before the types: a choice is compared as text.                         *)
CheckValues ==
  /\ pc = "choices"
  /\ IF \A k \in Name \cap Given : Argument[k].choices = {} \/ params[k] \in Argument[k].choices
     THEN Pass("types") ELSE End("failed")

Typed(k) == k \in Name \cap Given /\ Argument[k].type # None
Converts(k) == params[k] \in Fits[Argument[k].type]

(* _check_argument_types: int() and float() raise ValueError, dict() may,  *)
(* the others fail.                                                        *)
CheckTypes ==
  /\ pc = "types"
  /\ \/ /\ \E k \in Name : Typed(k) /\ ~Converts(k)
        /\ \E k \in Name, how \in {"failed", "raised"} :
             /\ Typed(k) /\ ~Converts(k)
             /\ how = "failed" => Argument[k].type \notin {"int", "float"}
             /\ how = "raised" => Argument[k].type \in {"int", "float", "dict"}
             /\ End(how)
     \/ /\ \A k \in Name : Typed(k) => Converts(k)
        /\ Become([k \in Given |-> IF Typed(k) THEN <<Argument[k].type, params[k]>>
                                   ELSE params[k]],
                  "together")

(* Both count what was defaulted for given.                                *)
CheckTogether ==
  /\ pc = "together"
  /\ IF \A s \in Together : s \cap Given # {} => s \subseteq Given
     THEN Pass("one") ELSE End("failed")

CheckOneOf ==
  /\ pc = "one"
  /\ IF \A s \in OneOf : s \cap Given # {} THEN Pass("rest") ELSE End("failed")

(* _set_defaults(pre=False): None for the others.                          *)
SetRest ==
  /\ pc = "rest"
  /\ params' = Defaulted(Name)
  /\ pc' = "ended"
  /\ outcome' = "accepted"
  /\ UNCHANGED <<items, check_mode>>

Step ==
  \/ LoadItem \/ Loaded \/ HandleAliases \/ CheckInvalid \/ CheckMode
  \/ CheckExclusive \/ SetDefaults \/ CheckRequired \/ CheckValues \/ CheckTypes
  \/ CheckTogether \/ CheckOneOf \/ SetRest
Next == Step \/ NewProcess \/ \E args \in SeqOf(Item, MaxWords) : Start(args)

Spec == Init /\ [][Next]_vars

-----------------------------------------------------------------------------
TypeOK ==
  /\ items \in Seq(Item)
  /\ DOMAIN params \subseteq Key /\ \A k \in Given : params[k] \in Value
  /\ pc \in {"idle", "load", "aliases", "legal", "mode", "exclusive", "defaults",
             "required", "choices", "types", "together", "one", "rest", "ended"}
  /\ outcome \in {"running", "accepted", "failed", "skipped", "raised"}
  /\ check_mode \in BOOLEAN

(* What a module reads from params once it was constructed is what its     *)
(* specification says, whatever the caller gave under whichever name: a    *)
(* value for every name, converted and one of the choices, the required    *)
(* ones not None, no two exclusive ones that have no default, and one      *)
(* of every set of which one is required.  It takes the order of the       *)
(* checks: aliases before exclusion, exclusion before defaults, defaults   *)
(* before types (ansible.py:261-281).                                      *)
AcceptedAsSpecified ==
  outcome = "accepted" =>
    /\ Name \subseteq Given
    /\ \A k \in Name :
         LET a == Argument[k]
             text == IF a.type = None \/ params[k] = None THEN params[k] ELSE params[k][2]
         IN  /\ a.required => params[k] # None
             /\ params[k] # None /\ a.type # None => params[k][1] = a.type
             /\ a.choices # {} /\ params[k] # None => text \in a.choices
    /\ \A s \in Exclusive : \A k, b \in s :
         /\ k # b
         /\ Argument[k].default = None /\ Argument[b].default = None
         => None \in {params[k], params[b]}
    /\ \A s \in OneOf : \E k \in s : params[k] # None
=============================================================================
