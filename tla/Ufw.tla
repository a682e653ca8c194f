---- MODULE Ufw ----
(***************************************************************************)
(* The firewall store that the ufw library keeps (/etc/ufw/user.rules,     *)
(* user6.rules, /etc/default/ufw, ufw.conf) and the library calls that     *)
(* helper/kcm_ufw_helper.py.cmake makes on it.  The library is outside     *)
(* this repository: only what the helper relies on is described, and each  *)
(* call is one atomic change of the store, as the library rewrites the     *)
(* file concerned before it returns.                                       *)
(*                                                                         *)
(* A rule is what it matches (spec: addresses, ports, protocol,            *)
(* interfaces, direction) and what it does (act: action and logging).      *)
(* There is one list for IPv4 and one for IPv6; users and helper number    *)
(* the rules through both, IPv4 first.  The IPv6 list is neither read nor  *)
(* written while IPv6 is off.                                              *)
(***************************************************************************)
EXTENDS Naturals, Sequences, SequencesExt

CONSTANTS
    Specs,      \* what a rule can match
    AddrOf,     \* the address family that a spec names: any, v4, v6 or mixed
    Acts,       \* what a rule can do
    Policies,   \* values of a default policy
    LogLevels,  \* values of the log level
    Modules     \* kernel modules that IPT_MODULES may list

ASSUME UfwAssumption ==
    /\ AddrOf \in [Specs -> {"any", "v4", "v6", "mixed"}]
    /\ Acts # {} /\ Policies # {} /\ LogLevels # {}

Rules == [spec : Specs, act : Acts]

\* The attributes of a <defaults> element, in the order they are applied.
SettingOrder == <<"ipv6", "incoming", "outgoing", "loglevel">>
SettingNames == ToSet(SettingOrder)

SettingValues(name) ==
    IF name = "ipv6" THEN {"yes", "no"}
    ELSE IF name = "loglevel" THEN LogLevels ELSE Policies

Settings == {s \in [SettingNames -> {"yes", "no"} \cup LogLevels \cup Policies] :
                \A name \in SettingNames : s[name] \in SettingValues(name)}

\* The attributes that a change sets.
Changes == UNION {{c \in [names -> {"yes", "no"} \cup LogLevels \cup Policies] :
                      \A name \in names : c[name] \in SettingValues(name)} :
                  names \in SUBSET SettingNames}

\* A store: what is on disk and in force.
Stores == [v4 : Seq(Rules), v6 : Seq(Rules), enabled : BOOLEAN,
           set : Settings, modules : SUBSET Modules]

\* What a list can hold: one rule for each spec, none of the other family.
\* ufw promises it; the numbering of rules relies on it.
Sound(list, family) ==
    /\ list \in Seq(Rules)
    /\ \A i \in DOMAIN list : AddrOf[list[i].spec] \in {"any", family}
    /\ \A i, j \in DOMAIN list : list[i].spec = list[j].spec => i = j

Ipv6On(b)  == b.set["ipv6"] = "yes"
Num4(b)    == Len(b.v4)
Num6(b)    == IF Ipv6On(b) THEN Len(b.v6) ELSE 0
NumRules(b) == Num4(b) + Num6(b)

\* backend.get_rule_by_number, with the family of the list it was found in.
RuleAt(b, n) ==
    IF n <= Num4(b) THEN [spec |-> b.v4[n].spec, act |-> b.v4[n].act, v6 |-> FALSE]
    ELSE LET r == b.v6[n - Num4(b)]
         IN  [spec |-> r.spec, act |-> r.act, v6 |-> TRUE]

\* backend.get_rules: the numbered list that users see.
Listing(b) == [n \in 1..NumRules(b) |-> RuleAt(b, n)]

\* The place of the rule for spec in a list, 0 if there is none.
Place(list, spec) ==
    IF \E i \in DOMAIN list : list[i].spec = spec
    THEN CHOOSE i \in DOMAIN list : list[i].spec = spec
    ELSE 0

\* backend.set_rule on one list: a rule that matches the same traffic keeps
\* its place and takes the new action, unless a position was asked for: then
\* the rule that is there already wins.
Put(list, r, pos) ==
    LET at == Place(list, r.spec)
    IN  IF at # 0 THEN IF pos = 0 THEN ReplaceAt(list, at, r) ELSE list
        ELSE IF pos = 0 THEN Append(list, r) ELSE InsertAt(list, pos, r)

Ok(b)     == [ok |-> TRUE,  store |-> b]
Raised(b) == [ok |-> FALSE, store |-> b]

SetV4(b, r, pos) ==
    IF pos > Num4(b) THEN Raised(b)
    ELSE Ok([b EXCEPT !.v4 = Put(@, r, pos)])

SetV6(b, r, pos) ==
    IF ~Ipv6On(b) \/ pos \in 1..Num4(b) THEN Raised(b)
    ELSE LET at == IF pos = 0 THEN 0 ELSE pos - Num4(b)
         IN  IF at > Len(b.v6) THEN Raised(b)
             ELSE Ok([b EXCEPT !.v6 = Put(@, r, at)])

\* A rule for both families: a position in one list is translated to the
\* place of the same rule in the other (find_other_position), and the IPv6
\* position is computed after the IPv4 list has been written.
SetBoth(b, r, pos) ==
    LET at4 == IF pos > Num4(b) THEN Place(b.v4, b.v6[pos - Num4(b)].spec) ELSE pos
        new4 == Put(b.v4, r, at4)
        at6 == IF pos = 0 THEN 0
               ELSE IF pos + 1 <= Len(new4) THEN Place(b.v6, new4[pos + 1].spec)
               ELSE pos + 1 - Len(new4)
        written == [b EXCEPT !.v4 = new4]
    IN  IF ~Ipv6On(b) THEN Ok([b EXCEPT !.v4 = Put(@, r, pos)])
        ELSE IF at6 > Len(b.v6) THEN Raised(written)
        ELSE Ok([written EXCEPT !.v6 = Put(@, r, at6)])

\* frontend.set_rule: positions count through both lists.
SetRule(b, r, pos, family) ==
    IF pos > NumRules(b) THEN Raised(b)
    ELSE IF family = "v4" THEN SetV4(b, r, pos)
    ELSE IF family = "v6" THEN SetV6(b, r, pos)
    ELSE SetBoth(b, r, pos)

\* frontend.delete_rule
DeleteRule(b, n) ==
    IF n \notin 1..NumRules(b) THEN Raised(b)
    ELSE IF n <= Num4(b) THEN Ok([b EXCEPT !.v4 = RemoveAt(@, n)])
    ELSE Ok([b EXCEPT !.v6 = RemoveAt(@, n - Num4(b))])

\* frontend.reset: the firewall is disabled and both rule files are replaced
\* by the distribution's, which have no user rules.
ResetStore(b) == [v4 |-> <<>>, v6 |-> <<>>, enabled |-> FALSE,
                  set |-> b.set, modules |-> b.modules]
====
