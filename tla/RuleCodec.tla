---- MODULE RuleCodec ----
(***************************************************************************)
(* What happens to one rule on its way around: the window writes it as XML *)
(* (Rule::toXml), the Python helper reads it (fromXml), evens it out       *)
(* (insertRule) and gives it to ufw, which keeps one rule for each address *)
(* family; a query writes that as XML again (toXml, ruleDetails), and the  *)
(* window reads it back (Rule::Rule).  A profile's file holds rules as the *)
(* window writes them.  An XML element is the function from its attributes *)
(* to their values; "" is the empty text.                                  *)
(***************************************************************************)
EXTENDS Naturals, Sequences

CONSTANTS
    V6Addresses,    \* addresses with a colon
    PortNumber,     \* service name -> the text of its port number
    Apps            \* installed application -> its ports, in order

Policies  == {"allow", "deny", "reject", "limit"}
LogTypes  == {"", "log", "log-all"}
LogLevels == {"off", "low", "medium", "high", "full"}
Protocols == {"any", "tcp", "udp"}
PortParts == [port : STRING \ {"", "any"}, proto : Protocols]

ANY_ADDR    == "0.0.0.0/0"
ANY_ADDR_V6 == "::/0"

\* The empty text is a text, which the provers do not know.
ASSUME EmptyText == "" \in STRING

\* An address of IPv6 is one with a colon; the number of a service is not
\* the name of one.
ASSUME RuleCodecAssumption ==
    /\ V6Addresses \subseteq STRING \ {""}
    /\ ANY_ADDR_V6 \in V6Addresses /\ ANY_ADDR \notin V6Addresses
    /\ DOMAIN PortNumber \subseteq STRING \ {""}
    /\ \A name \in DOMAIN PortNumber : PortNumber[name] \in STRING \ ({"", "any"} \cup DOMAIN PortNumber)
    /\ DOMAIN Apps \subseteq STRING \ {""}
    /\ \A app \in DOMAIN Apps : Apps[app] \in Seq(PortParts) /\ Apps[app] # <<>>

\* A rule as the window has it.
WindowRules ==
    [action : Policies, incoming : BOOLEAN, v6 : BOOLEAN, proto : Protocols, log : LogTypes,
     dapp : STRING, sapp : STRING, dst : STRING, src : STRING,
     dport : STRING, sport : STRING, ifin : STRING, ifout : STRING]

\* The constructor, with its positional arguments.
MakeRule(pol, in, log, prot, srcHost, srcPort, destHost, destPort, ifaceIn, ifaceOut, srcApp, destApp) ==
    [action |-> pol, incoming |-> in, v6 |-> FALSE, proto |-> prot, log |-> log,
     dapp |-> destApp, sapp |-> srcApp, dst |-> destHost, src |-> srcHost,
     dport |-> destPort, sport |-> srcPort, ifin |-> ifaceIn, ifout |-> ifaceOut]

\* operator==, which does not look at logging, nor at the ports of a side
\* that names an application.
Equal(r, o) ==
    /\ \A f \in {"action", "incoming", "v6", "proto", "dapp", "sapp", "dst", "src", "ifin", "ifout"} :
         r[f] = o[f]
    /\ r.dapp = "" /\ o.dapp = "" => r.dport = o.dport
    /\ r.sapp = "" /\ o.sapp = "" => r.sport = o.sport

different(r, o) == r.log # o.log \/ ~Equal(r, o)

getPortNumber(port) == IF port \in DOMAIN PortNumber THEN PortNumber[port] ELSE port

-----------------------------------------------------------------------------
(* To the helper *)

Always == {"action", "direction", "logtype", "v6"}

\* Defect for toXml: the port is left out whenever either side names an
\* application.
MDropsOtherPort(r) ==
    LET noApp == r.dapp = "" /\ r.sapp = ""
        all   == [action |-> r.action, direction |-> IF r.incoming THEN "in" ELSE "out",
                  dapp |-> r.dapp, sapp |-> r.sapp,
                  dport |-> IF noApp THEN getPortNumber(r.dport) ELSE "",
                  sport |-> IF noApp THEN getPortNumber(r.sport) ELSE "",
                  protocol |-> IF r.proto = "any" THEN "" ELSE r.proto,
                  dst |-> r.dst, src |-> r.src, interface_in |-> r.ifin,
                  interface_out |-> r.ifout, logtype |-> r.log,
                  v6 |-> IF r.v6 THEN "True" ELSE "False"]
    IN  [a \in {a \in DOMAIN all : a \in Always \/ all[a] # ""} |-> all[a]]

\* Rule::toXml writes what is not empty, and no port beside an application.
toXml(r) ==
    LET all == [action |-> r.action, direction |-> IF r.incoming THEN "in" ELSE "out",
                dapp |-> r.dapp, sapp |-> r.sapp,
                dport |-> IF r.dapp = "" THEN getPortNumber(r.dport) ELSE "",
                sport |-> IF r.sapp = "" THEN getPortNumber(r.sport) ELSE "",
                protocol |-> IF r.proto = "any" THEN "" ELSE r.proto,
                dst |-> r.dst, src |-> r.src, interface_in |-> r.ifin,
                interface_out |-> r.ifout, logtype |-> r.log,
                v6 |-> IF r.v6 THEN "True" ELSE "False"]
    IN  [a \in {a \in DOMAIN all : a \in Always \/ all[a] # ""} |-> all[a]]

Attr(xml, name, default) == IF name \in DOMAIN xml THEN xml[name] ELSE default

\* fromXml of the helper: a rule of ufw, whose fields are never left out.
fromXml(xml) ==
    [action |-> Attr(xml, "action", ""), protocol |-> Attr(xml, "protocol", "any"),
     direction |-> Attr(xml, "direction", "in"),
     dapp |-> Attr(xml, "dapp", ""), sapp |-> Attr(xml, "sapp", ""),
     dport |-> Attr(xml, "dport", "any"), sport |-> Attr(xml, "sport", "any"),
     dst |-> Attr(xml, "dst", ANY_ADDR), src |-> Attr(xml, "src", ANY_ADDR),
     interface_in |-> Attr(xml, "interface_in", ""),
     interface_out |-> Attr(xml, "interface_out", ""),
     logtype |-> Attr(xml, "logtype", ""), v6 |-> Attr(xml, "v6", "False") = "True"]

\* insertRule: an application brings its own ports and protocol.
evenOut(u) ==
    IF u.sapp = "" /\ u.dapp = "" THEN u
    ELSE [u EXCEPT !.protocol = "any",
                   !.sport = IF u.sapp # "" THEN u.sapp ELSE @,
                   !.dport = IF u.dapp # "" THEN u.dapp ELSE @]

\* The families that ufw keeps the rule for (getProtocol): both without an
\* address, none if the addresses are of both, which raises.
Families(u) ==
    {family \in {"v4", "v6"} :
        \A a \in {u.dst, u.src} \ {ANY_ADDR} : family = IF a \in V6Addresses THEN "v6" ELSE "v4"}

-----------------------------------------------------------------------------
(* In ufw, and back *)

\* ufw's set_rule and get_rules: an application stands for its ports, of which
\* the helper lists the first ones only (getRulesList); an any-address is
\* that of the family.
Stored(u, family) ==
    LET any(addr) == IF addr = ANY_ADDR /\ family = "v6" THEN ANY_ADDR_V6 ELSE addr
        first(app) == Apps[app][1]
    IN  [u EXCEPT
           !.v6    = (family = "v6"),
           !.dst   = any(@), !.src = any(@),
           !.dport = IF u.dapp \in DOMAIN Apps THEN first(u.dapp).port ELSE @,
           !.sport = IF u.sapp \in DOMAIN Apps THEN first(u.sapp).port ELSE @,
           !.protocol = IF u.dapp \in DOMAIN Apps THEN first(u.dapp).proto
                        ELSE IF u.sapp \in DOMAIN Apps THEN first(u.sapp).proto
                        ELSE @]

\* ruleDetails and toXml of the helper write every field.
ruleDetails(u) == [u EXCEPT !.v6 = IF @ THEN "True" ELSE "False"]

\* Any-addresses and "any" become empty again.
hostOf(addr) == IF addr \in {ANY_ADDR, ANY_ADDR_V6} THEN "" ELSE addr
portOf(text) == IF text = "any" THEN "" ELSE text

\* Rule::Rule(QDomElement), where an attribute that is absent is empty.
ruleOf(xml) ==
    LET text(name) == Attr(xml, name, "")
        among(name, known, default) == IF text(name) \in known THEN text(name) ELSE default
    IN  [action |-> among("action", Policies, "allow"), incoming |-> text("direction") = "in",
         v6 |-> text("v6") = "True", proto |-> among("protocol", {"tcp", "udp"}, "any"),
         log |-> among("logtype", LogTypes \ {""}, ""),
         dapp |-> text("dapp"), sapp |-> text("sapp"),
         dst |-> hostOf(text("dst")), src |-> hostOf(text("src")),
         dport |-> portOf(text("dport")), sport |-> portOf(text("sport")),
         ifin |-> text("interface_in"), ifout |-> text("interface_out")]

\* What the window lists once it has sent a rule.
Sent(r)             == evenOut(fromXml(toXml(r)))
ReadBack(r, family) == ruleOf(ruleDetails(Stored(Sent(r), family)))

\* Two rules name the same traffic: ports as numbers, an application instead
\* of its ports and protocol, no address instead of any address.
SameTraffic(r, o) ==
    /\ \A f \in {"action", "incoming", "log", "dapp", "sapp", "ifin", "ifout"} : r[f] = o[f]
    /\ hostOf(r.dst) = o.dst /\ hostOf(r.src) = o.src
    /\ r.dapp = "" => portOf(getPortNumber(r.dport)) = o.dport
    /\ r.sapp = "" => portOf(getPortNumber(r.sport)) = o.sport
    /\ r.dapp = "" /\ r.sapp = "" => r.proto = o.proto

-----------------------------------------------------------------------------
(* A profile in a file, and back *)

Parts == {"rules", "defaults", "modules"}

\* Profile::toXml; toString of a policy and of a log level are one to one.
profileXml(p) ==
    [full |-> "true",
     defaults |-> [ipv6 |-> IF p.ipv6 THEN "yes" ELSE "no", loglevel |-> p.loglevel,
                   incoming |-> p.incoming, outgoing |-> p.outgoing],
     rules |-> [k \in DOMAIN p.rules |-> toXml(p.rules[k])],
     modules |-> p.modules]

\* Defect for SavedLevels: the loop starts one too late.
MLevelsFromMedium == LogLevels \ {"off", "low"}

\* The levels that load looks for.
SavedLevels == LogLevels \ {"off"}

\* Profile::load: what is absent or unknown stays as the constructor sets it;
\* a profile that says that it is full and lacks a part has no parts.
load(xml) ==
    LET present    == Parts \cap DOMAIN xml
        defaults   == IF "defaults" \in present THEN xml.defaults ELSE <<>>
        among(name, known, default) ==
            IF Attr(defaults, name, "") \in known THEN defaults[name] ELSE default
    IN  [fields   |-> IF Attr(xml, "full", "") = "true" /\ present # Parts THEN {} ELSE present,
         ipv6     |-> Attr(defaults, "ipv6", "") = "yes",
         loglevel |-> among("loglevel", SavedLevels, "off"),
         incoming |-> among("incoming", Policies \ {"limit"}, "allow"),
         outgoing |-> among("outgoing", Policies \ {"limit"}, "allow"),
         rules    |-> IF "rules" \in present
                      THEN [k \in DOMAIN xml.rules |-> ruleOf(xml.rules[k])] ELSE <<>>,
         modules  |-> IF "modules" \in present THEN xml.modules ELSE {}]

\* Profile::operator==
SameProfile(p, q) ==
    /\ \A f \in {"ipv6", "loglevel", "incoming", "outgoing", "modules"} : p[f] = q[f]
    /\ DOMAIN p.rules = DOMAIN q.rules
    /\ \A k \in DOMAIN p.rules : Equal(p.rules[k], q.rules[k])
====
