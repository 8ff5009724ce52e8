------------------------------- MODULE MCHosts -------------------------------
(* Hosts for TLC: the initial state says which of the programs runs.       *)
EXTENDS Hosts, TLC

CONSTANTS opt_a, opt_b, opt_c, opt_d, opt_e, t, u

VARIABLE program

(* A required text, a bool with a default, a number with choices and an    *)
(* alias, and an untyped text that excludes the number.                    *)
Option(required, default, choices, type, aliases) ==
  [required |-> required, default |-> default, choices |-> choices,
   type |-> type, aliases |-> aliases]
MCArgument ==
  opt_a :> Option(TRUE, None, {}, None, <<>>)
    @@ opt_b :> Option(FALSE, t, {}, "bool", <<>>)
    @@ opt_c :> Option(FALSE, None, {t, u}, "int", <<opt_e>>)
    @@ opt_d :> Option(FALSE, None, {}, None, <<>>)
MCFits ==
  [type \in {"bool", "int", "float"} |-> {t}] @@ [type \in {"str", "list", "dict"} |-> {t, u}]

linksVars == <<at, wanted, todo, state, linked, last>>
commandVars == <<cpc, rpipes, rfd, pipe, sent, got, child, closed, daemon, rushed, rc>>
aggregateVars == <<aggregate, apc, req, seen, left, granted>>
vmVars == <<flags, keys, grown, vpc, vloaded, resized, vfaults>>
argumentVars == <<items, params, mpc, moutcome, check_mode>>
allVars == <<program, vars, linksVars, commandVars, aggregateVars, vmVars, argumentVars>>

MCInit ==
  /\ program \in {"setup_systemd", "config_symlinks", "run_command",
                  "nova_host_aggregate", "cloud-vm", "arguments"}
  /\ Init /\ Links!Init /\ Command!Init /\ Aggregate!Init /\ Vm!Init /\ Arguments!Init
  /\ program # "config_symlinks" => at = [s \in Src |-> None]

MCNext ==
  /\ UNCHANGED program
  /\ \/ /\ program = "setup_systemd" /\ Next
        /\ UNCHANGED <<linksVars, commandVars, aggregateVars, vmVars, argumentVars>>
     \/ /\ program = "config_symlinks" /\ Links!Next
        /\ UNCHANGED <<vars, commandVars, aggregateVars, vmVars, argumentVars>>
     \/ /\ program = "run_command" /\ Command!Next
        /\ UNCHANGED <<vars, linksVars, aggregateVars, vmVars, argumentVars>>
     \/ /\ program = "nova_host_aggregate" /\ Aggregate!Next
        /\ UNCHANGED <<vars, linksVars, commandVars, vmVars, argumentVars>>
     \/ /\ program = "cloud-vm" /\ Vm!Next
        /\ UNCHANGED <<vars, linksVars, commandVars, aggregateVars, argumentVars>>
     \/ /\ program = "arguments" /\ Arguments!Next
        /\ UNCHANGED <<vars, linksVars, commandVars, aggregateVars, vmVars>>

MCSpec == MCInit /\ [][MCNext]_allVars /\ Command!Fairness
=============================================================================
