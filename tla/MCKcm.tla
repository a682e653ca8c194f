---- MODULE MCKcm ----
(* One rule for both families and one for each of them. *)
EXTENDS Kcm

MCAddrOf == [s \in Specs |-> CASE s = "lan4" -> "v4" [] s = "lan6" -> "v6" [] OTHER -> "any"]

MCDefaults == [name \in {"ipv6", "incoming", "outgoing", "loglevel"} |->
                 IF name = "ipv6" THEN "no" ELSE IF name = "loglevel" THEN "off" ELSE "allow"]

\* A profile as the window saves it, and a file that has no defaults.
MCProfiles ==
    LET rules == <<[spec |-> "ssh", act |-> "allow", v6 |-> FALSE]>>
    IN  {[rules |-> rules, defaults |-> [MCDefaults EXCEPT !["ipv6"] = "yes"], modules |-> Modules],
         [rules |-> rules, modules |-> Modules]}
====
