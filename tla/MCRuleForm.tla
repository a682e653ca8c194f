---- MODULE MCRuleForm ----
(* One application of each kind, services with one port, with a range and  *)
(* with two ports, and rules that differ in which fields they use.         *)
EXTENDS RuleForm

Port(p, t) == [port |-> p, proto |-> t]

MCApps   == [a \in {"Web", "Dns"} |->
               IF a = "Web" THEN <<Port("80,443", "tcp")>> ELSE <<Port("53", "any")>>]
MCNoApps == [a \in {} |-> <<>>]

MCServices == {<<Port("22", "any")>>, <<Port("6881:6891", "tcp")>>,
               <<Port("6881", "tcp"), Port("4444", "udp")>>}

MCPortNumber == [s \in {"ssh"} |-> "22"]
MCSqueezed   == [t \in {"1.2.3.4", "5.6.7.8"} |-> IF t = "1.2.3.4" THEN "1234" ELSE "5678"]

Plain0 == MakeRule("allow", TRUE, "", "any", "", "", "", "", "", "", "", "")

\* Rules that this dialog can have made.
MCMade == {[Plain0 EXCEPT !.dport = "22"],
           [Plain0 EXCEPT !.dport = "1234", !.proto = "tcp", !.src = "1.2.3.4"],
           [Plain0 EXCEPT !.sport = "1234", !.proto = "tcp"],
           [Plain0 EXCEPT !.dport = "4444", !.proto = "udp", !.ifin = "eth0"],
           [Plain0 EXCEPT !.dport = "4444", !.src = "1.2.3.4"],
           [Plain0 EXCEPT !.src = "1.2.3.4", !.ifout = "eth0", !.incoming = FALSE, !.log = "log"]}

\* Others: one of the IPv6 list, one of an application as ufw lists it, one
\* with a protocol only.
MCListed == MCMade \cup
    {[Plain0 EXCEPT !.dport = "22", !.v6 = TRUE],
     [Plain0 EXCEPT !.dapp = "Web", !.dport = "80,443", !.proto = "tcp"],
     [Plain0 EXCEPT !.src = "1.2.3.4", !.proto = "udp"]}

MCLines == {[NoLine EXCEPT !.blocked = TRUE, !.in = "eth0", !.src = "1.2.3.4", !.dst = "5.6.7.8",
                           !.proto = "tcp", !.spt = "1234", !.dpt = "22"],
            [NoLine EXCEPT !.out = "eth0", !.src = "1.2.3.4", !.dst = "5.6.7.8", !.proto = "udp",
                           !.spt = "1234", !.dpt = "4444"]}
====
