---- MODULE MCStoreCalls ----
(* A small firewall: one rule for both families, one IPv4 and one IPv6 rule, *)
(* and one that names addresses of both families.                            *)
EXTENDS StoreCalls

MCAddrOf == [s \in Specs |-> CASE s = "ssh" -> "any" [] s = "lan4" -> "v4"
                               [] s = "lan6" -> "v6" [] OTHER -> "mixed"]

MCDefaults == [name \in {"ipv6", "incoming", "outgoing", "loglevel"} |->
                 IF name = "ipv6" THEN "no" ELSE IF name = "loglevel" THEN "off" ELSE "allow"]

R(s, a) == [spec |-> s, act |-> a]
Allow(s) == R(s, "allow")
MCBatches == {<<>>} \cup {<<r>> : r \in Rules}
             \cup (IF {"ssh", "lan4"} \subseteq Specs THEN {<<Allow("ssh"), Allow("lan4")>>} ELSE {})

\* A full profile, one whose IPv6 rule needs IPv6, and one of modules only.
MCProfiles ==
    {[rules |-> <<Allow("ssh")>>, defaults |-> [MCDefaults EXCEPT !["ipv6"] = "yes"], modules |-> Modules],
     [rules |-> <<Allow("lan4"), Allow("lan6")>>, modules |-> Modules],
     [modules |-> {}]}
====
