--------------------------- MODULE UeReconciliation ---------------------------
(***************************************************************************)
(* What the registry of UE agents promises, without sessions, generations, *)
(* threads or frames: an agent runs its own configuration until a user     *)
(* changes it field by field, and every configuration it ever runs comes   *)
(* from its own by such changes.  (ues.py: "Never invent DL defaults over  *)
(* a live UL/TCP session"; "reconnect does not wipe UI-applied desired".)  *)
(*                                                                         *)
(* The one gap in the promise is an entry that is blank: a session has     *)
(* made it and what the agent declares is not in it yet.  A change is then *)
(* merged over the defaults, which may also reach the agent.               *)
(***************************************************************************)
CONSTANTS
    Fields,     \* the fields of a configuration
    Values,     \* the values of a field
    Local,      \* the configuration an agent process starts with
    Default,    \* the configuration of a blank entry
    Nothing     \* nobody has asked for a configuration

Config == [Fields -> Values]

VARIABLES
    wanted,     \* the configuration the user was answered last, or Nothing
    running,    \* the configuration the agent runs
    blank,      \* the agent's entry is blank
    legitimate  \* what may run: the agent's own configuration, all the user
                \* was answered, and the defaults once a blank entry was shown

vars == <<wanted, running, blank, legitimate>>

Changed(config, named, value) ==
    [f \in Fields |-> IF f \in named THEN value ELSE config[f]]

Init ==
    /\ wanted = Nothing
    /\ running = Local
    /\ blank = FALSE
    /\ legitimate = {Local}

(* What the fields that a change does not name are taken from.             *)
Bases ==
    CASE blank -> {Default}
      [] ~blank /\ wanted # Nothing -> {wanted}
      [] OTHER -> legitimate

(* The user changes some fields of what was wanted, or of what the agent   *)
(* has run if nothing was.                                                 *)
Change ==
    \E base \in Bases, named \in SUBSET Fields, value \in Values :
        /\ wanted' = Changed(base, named, value)
        /\ legitimate' = legitimate \cup {wanted'}
        /\ blank' = FALSE
        /\ UNCHANGED running

(* A session makes an entry, or what its agent declares comes into it.     *)
Enter ==
    /\ blank' \in BOOLEAN
    /\ UNCHANGED <<wanted, running, legitimate>>

(* A blank entry is shown to the agent. *)
Show ==
    /\ blank
    /\ legitimate' = legitimate \cup {Default}
    /\ UNCHANGED <<wanted, running, blank>>

(* The registry forgets what was wanted: a delete or a new process.        *)
Forget ==
    /\ wanted' = Nothing
    /\ blank' = FALSE
    /\ UNCHANGED <<running, legitimate>>

(* The agent takes a configuration over, or starts again.                  *)
Adopt ==
    /\ running' \in legitimate
    /\ UNCHANGED <<wanted, blank, legitimate>>

Next == Change \/ Enter \/ Show \/ Forget \/ Adopt

Spec == Init /\ [][Next]_vars
===============================================================================
