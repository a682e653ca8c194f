---- MODULE Firewall ----
(***************************************************************************)
(* What the privileged helper promises to its clients, whatever runs and   *)
(* fails inside it (helper/helper.cpp, helper/kcm_ufw_helper.py): it       *)
(* serves one command at a time; the firewall changes only while a command *)
(* is served, and only in what that command is about; it is enabled only   *)
(* by a command to enable it, or again if it was enabled when the command  *)
(* arrived.  StoreCalls implements this.                                   *)
(***************************************************************************)
VARIABLES
    fw,     \* the firewall: v4, v6, enabled, set, modules
    cmd,    \* the command being served: its name and whether it is one to enable
    was     \* the firewall was enabled when the command arrived

fvars == <<fw, cmd, was>>

Idle == [name |-> "none", on |-> FALSE]

RuleCmds == {"addRules", "removeRule", "moveRule", "editRule"}
AllCmds  == {"setProfile", "reset"}

\* The commands that may change each part of the firewall.
MayChange ==
    [rules   |-> RuleCmds \cup AllCmds,
     enabled |-> {"setStatus", "setDefaults"} \cup AllCmds,
     set     |-> {"setDefaults"} \cup AllCmds,
     modules |-> {"setModules"} \cup AllCmds]

CommandNames == {"query", "setStatus"} \cup UNION {MayChange[part] : part \in DOMAIN MayChange}

Permitted(name, on, new) ==
    /\ new.v4 # fw.v4 \/ new.v6 # fw.v6 => name \in MayChange.rules
    /\ new.set # fw.set                 => name \in MayChange.set
    /\ new.modules # fw.modules         => name \in MayChange.modules
    /\ new.enabled # fw.enabled         => name \in MayChange.enabled
    /\ new.enabled /\ ~fw.enabled       => was \/ on

Init == cmd = Idle /\ was = FALSE

Accept ==
    /\ cmd = Idle
    /\ \E name \in CommandNames, on \in BOOLEAN :
         /\ on => name = "setStatus"
         /\ cmd' = [name |-> name, on |-> on]
    /\ was' = fw.enabled
    /\ UNCHANGED fw

Change ==
    /\ cmd # Idle
    /\ Permitted(cmd.name, cmd.on, fw')
    /\ UNCHANGED <<cmd, was>>

Answer ==
    /\ cmd # Idle
    /\ cmd' = Idle
    /\ was' = FALSE
    /\ UNCHANGED fw

Next == Accept \/ Change \/ Answer

Spec == Init /\ [][Next]_fvars
====
