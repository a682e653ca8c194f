---- MODULE RuleForm ----
(***************************************************************************)
(* The rule dialog (kcm/ruledialog.cpp): the fields of its two pages, how  *)
(* they are filled from a rule, what the user can do to them, and which    *)
(* rules they stand for when the user confirms.  The window keeps one      *)
(* dialog for adding and one for editing, and each is filled again and     *)
(* again: what setRule and reset leave in place comes from the last use.   *)
(*                                                                         *)
(* A pair of radio button and field that a click on the field selects      *)
(* (LineEdit, ComboBox) is one action.  Policy, direction and logging are  *)
(* the same on both pages.  An interface of "" is "Any interface".         *)
(***************************************************************************)
EXTENDS RuleCodec

CONSTANTS
    Kinds,          \* which of the two dialogs: "add", "edit"
    Services,       \* predefined services: sequences of ports
    ListedRules,    \* the rules in the window's list
    LogLines,       \* lines of the log viewer
    Acts, Logs,     \* policies and kinds of logging
    Hosts, PortTexts, Interfaces,   \* what the user types, "" included
    Addresses,      \* the texts that checkAddress takes for addresses
    Ports,          \* the texts that checkPort takes for ports
    Lists,          \* those of them that are ranges or lists
    Squeezed,       \* interface text -> its letters and digits, if others too
    MaxTouches      \* bound on what the user does to the fields

LinesType == [blocked : BOOLEAN, in : STRING, out : STRING, src : STRING, dst : STRING,
              proto : Protocols, spt : STRING, dpt : STRING]

ASSUME RuleFormAssumption ==
    /\ Kinds \subseteq {"add", "edit"}
    /\ Services \subseteq Seq(PortParts) \ {<<>>} /\ Services # {}
    /\ \A s \in Services : \A k \in DOMAIN s : s[k].port \in Lists => s[k].proto # "any"
    /\ ListedRules \subseteq WindowRules /\ LogLines \subseteq LinesType
    /\ Acts \subseteq Policies /\ Logs \subseteq LogTypes
    /\ Hosts \cup PortTexts \cup Interfaces \subseteq STRING
    /\ "deny" \in Acts /\ "" \in Logs
    /\ \A text \in DOMAIN Squeezed : Squeezed[text] \in STRING
    /\ MaxTouches \in Nat

VARIABLES
    kind,       \* which dialog this is
    form,       \* its fields
    open,
    editing,    \* editingRule
    line,       \* history: the log line that it was filled from, if any
    touches,    \* what the user did to the fields so far
    touched,    \* history: to fields that say what the rule matches, since
                \* the dialog was filled
    sent        \* what the last step sent to the window

vars == <<kind, form, open, editing, line, touches, touched, sent>>

-----------------------------------------------------------------------------
(* Combos *)

\* An entry of a list of profiles: an application, or one or all of the
\* ports of a predefined service.
Entry(app)  == [app |-> app, parts |-> IF app \in DOMAIN Apps THEN Apps[app] ELSE <<>>]
Ports1(s)   == {[app |-> "", parts |-> <<s[k]>>] : k \in DOMAIN s}
Service(s)  == [app |-> "", parts |-> s]

\* addProfiles, addPredefinedPorts: the advanced page lists each port of a
\* service, the simple page does so in the edit dialog only.
Entries(split) ==
    {Entry(app) : app \in DOMAIN Apps}
    \cup IF split THEN UNION {Ports1(s) : s \in Services} ELSE {Service(s) : s \in Services}

\* Defect for SplitSimple: the edit dialog lists whole services too.
MNeverSplits == FALSE

SplitSimple == kind = "edit"
EntriesOf(side) == Entries(side # "simple" \/ SplitSimple)

\* Applications come before services.
First(entries) == CHOOSE e \in entries : (\E o \in entries : o.app # "") => e.app # ""

EntryType == [app : STRING, parts : Seq(PortParts)]
PickType  == [pick : {"any", "port", "profile"}, port : STRING, item : EntryType,
              extra : SUBSET STRING, anyHost : BOOLEAN, host : STRING]
FormType  == [page : {"simple", "advanced"}, action : Policies, incoming : BOOLEAN, log : LogTypes,
              simple : PickType, src : PickType, dst : PickType,
              sproto : Protocols, proto : Protocols, iface : STRING, shown : BOOLEAN]

\* The radio buttons as they are made; the first entry of each list is chosen.
Side(pick, split) ==
    [pick |-> pick, port |-> "", item |-> First(Entries(split)), extra |-> {},
     anyHost |-> TRUE, host |-> ""]

NewForm(split) ==
    [page |-> "simple", action |-> "deny", incoming |-> TRUE, log |-> "",
     simple |-> Side("profile", split), src |-> Side("any", TRUE), dst |-> Side("any", TRUE),
     sproto |-> "any", proto |-> "any", iface |-> "", shown |-> DOMAIN Apps # {}]

NoRule    == MakeRule("reject", TRUE, "", "any", "", "", "", "", "", "", "", "")
NoLine    == [blocked |-> FALSE, in |-> "", out |-> "", src |-> "", dst |-> "",
              proto |-> "any", spt |-> "", dpt |-> ""]
NoCommand == [cmd |-> "none", rules |-> <<>>, ipv6 |-> FALSE]

Init ==
    /\ kind \in Kinds
    /\ \E page \in {"simple", "advanced"} :     \* as the last dialog was left
         form = [NewForm(kind = "edit") EXCEPT !.page = page]
    /\ open = FALSE
    /\ editing = NoRule /\ line = NoLine
    /\ touches = 0 /\ touched = FALSE
    /\ sent = NoCommand

-----------------------------------------------------------------------------
(* Slots that keep the fields consistent *)

controlSimpleProtocol(f) ==
    IF f.simple.pick = "profile" THEN [f EXCEPT !.sproto = "any"] ELSE f

SelectableProto(f) ==
    /\ f.src.pick = "port" \/ f.dst.pick = "port"
    /\ f.src.pick # "profile" /\ f.dst.pick # "profile"

controlAdvancedProtocol(f) == IF SelectableProto(f) THEN f ELSE [f EXCEPT !.proto = "any"]

control(f, side) == IF side = "simple" THEN controlSimpleProtocol(f) ELSE controlAdvancedProtocol(f)

\* Another radio button of a side is checked: the slots run once it is, and
\* not at all if it was.
Pick(f, side, pick) ==
    IF f[side].pick = pick THEN f ELSE control([f EXCEPT ![side].pick = pick], side)

Choose(f, side, entry) == [Pick(f, side, "profile") EXCEPT ![side].item = entry]

\* setRuleType: the page that is shown takes over the destination port.
setRuleType(f) ==
    IF f.page = "simple" THEN [f EXCEPT !.simple.port = f.dst.port]
    ELSE [f EXCEPT !.dst.port = f.simple.port]

-----------------------------------------------------------------------------
(* Filling the dialog *)

\* Defects for setRulePort: a list entry is chosen for its port alone; the
\* simple page gets an "any" button.
MIgnoresProtocol(f, side, port, proto) ==
    IF port = "" THEN Pick(f, side, IF side = "simple" THEN "port" ELSE "any")
    ELSE LET typed == Pick(f, side, "port")
             same  == {e \in EntriesOf(side) : Len(e.parts) = 1 /\ e.parts[1].port = port}
         IN  IF same = {} THEN typed ELSE Choose(typed, side, First(same))

MAnyOnBothPages(f, side, port, proto) ==
    IF port = "" THEN Pick(f, side, "any")
    ELSE LET typed == Pick(f, side, "port")
             same  == {e \in EntriesOf(side) : e.parts = <<[port |-> port, proto |-> proto]>>}
         IN  IF same = {} THEN typed ELSE Choose(typed, side, First(same))

\* A port that a list entry stands for is shown as that entry.
setRulePort(f, side, port, proto) ==
    IF port = "" THEN Pick(f, side, IF side = "simple" THEN "port" ELSE "any")
    ELSE LET typed == Pick(f, side, "port")
             same  == {e \in EntriesOf(side) : e.parts = <<[port |-> port, proto |-> proto]>>}
         IN  IF same = {} THEN typed ELSE Choose(typed, side, First(same))

\* setProfileIndex: an application that is not listed gets an entry.
setProfileIndex(f, side, app) ==
    [Choose(f, side, Entry(app)) EXCEPT ![side].extra = @ \cup ({app} \ DOMAIN Apps)]

SetSide(f, side, app, port, proto) ==
    IF app = "" THEN setRulePort(f, side, port, proto) ELSE setProfileIndex(f, side, app)

\* setRule: all fields first, then the radio buttons, simple page and
\* destination before source.
setRule(f, r) ==
    LET fields == [f EXCEPT !.action = r.action, !.incoming = r.incoming, !.log = r.log,
                            !.simple = [@ EXCEPT !.port = r.dport], !.sproto = r.proto,
                            !.src = [@ EXCEPT !.host = r.src, !.port = r.sport],
                            !.dst = [@ EXCEPT !.host = r.dst, !.port = r.dport], !.proto = r.proto,
                            !.iface = IF r.incoming THEN r.ifin ELSE r.ifout, !.shown = TRUE]
        simple == SetSide(fields, "simple", r.dapp, r.dport, r.proto)
        dest   == SetSide(simple, "dst", r.dapp, r.dport, r.proto)
        source == SetSide(dest, "src", r.sapp, r.sport, r.proto)
        paged  == [source EXCEPT
                     !.page = IF {r.dst, r.src, r.sapp, r.sport, r.ifin, r.ifout} = {""}
                              THEN "simple" ELSE "advanced",
                     !.src.anyHost = (r.src = ""), !.dst.anyHost = (r.dst = "")]
    IN  setRuleType(controlSimpleProtocol(controlAdvancedProtocol(paged)))

\* reset; the lists keep what was chosen in them.
reset(f) ==
    LET side(s, pick) == [s EXCEPT !.pick = pick, !.port = "", !.anyHost = TRUE, !.host = ""]
    IN  [f EXCEPT !.action = "deny", !.incoming = TRUE, !.log = "",
                  !.simple = side(@, "profile"), !.src = side(@, "any"), !.dst = side(@, "any"),
                  !.sproto = "any", !.proto = "any", !.iface = ""]

\* LogViewer::createRule, which passes two arguments more than the
\* constructor has had since descriptions were removed from it.
createRule(l) ==
    MakeRule(IF l.blocked THEN "allow" ELSE "deny", l.out = "", "", l.proto, "", "",
             l.src, l.spt, l.dst, l.dpt, l.in, l.out)

Fill(f, r, l) ==
    /\ form' = f
    /\ editing' = r
    /\ line' = l
    /\ open' = TRUE /\ touched' = FALSE /\ sent' = NoCommand
    /\ UNCHANGED <<kind, touches>>

\* Kcm::editRule, ruleDoubleClicked: the edit dialog is modal.
OpenEdit ==
    /\ kind = "edit" /\ ~open
    /\ \E r \in ListedRules : Fill(setRule(form, r), r, NoLine)

\* Kcm::createRules
OpenAdd ==
    /\ kind = "add"
    /\ Fill(reset(form), editing, NoLine)

\* Kcm::createRule
OpenFromLog ==
    /\ kind = "add"
    /\ \E l \in LogLines : LET r == createRule(l) IN Fill(setRule(form, r), r, l)

-----------------------------------------------------------------------------
(* The user *)

Touch(f, matters) ==
    /\ open
    /\ touches < MaxTouches
    /\ form' = f
    /\ touches' = touches + 1
    /\ touched' = (touched \/ matters)
    /\ sent' = NoCommand
    /\ UNCHANGED <<kind, open, editing, line>>

UserCommon ==
    \/ \E a \in Acts \ {form.action} : Touch([form EXCEPT !.action = a], FALSE)
    \/ \E g \in Logs \ {form.log} : Touch([form EXCEPT !.log = g], FALSE)
    \/ Touch([form EXCEPT !.incoming = ~@], FALSE)

UserTurnPage ==
    \E page \in {"simple", "advanced"} \ {form.page} :
        Touch(setRuleType([form EXCEPT !.page = page]), TRUE)

\* The sides of the page that is shown.
Shown == IF form.page = "simple" THEN {"simple"} ELSE {"src", "dst"}

UserPickAny ==
    \E side \in Shown \ {"simple"} : Touch(Pick(form, side, "any"), TRUE)

UserTypePort ==
    \E side \in Shown : \E text \in PortTexts :
        Touch([Pick(form, side, "port") EXCEPT ![side].port = text], TRUE)

UserChooseProfile ==
    /\ form.shown
    /\ \E side \in Shown : \E e \in EntriesOf(side) \cup {Entry(a) : a \in form[side].extra} :
          Touch(Choose(form, side, e), TRUE)

UserSetHost ==
    /\ form.page = "advanced"
    /\ \E side \in {"src", "dst"} :
         \/ \E text \in Hosts :
              Touch([form EXCEPT ![side] = [@ EXCEPT !.anyHost = FALSE, !.host = text]], TRUE)
         \/ Touch([form EXCEPT ![side].anyHost = TRUE], TRUE)

UserSetProtocol ==
    \E p \in Protocols :
        \/ /\ form.page = "simple" /\ form.simple.pick = "port"
           /\ Touch([form EXCEPT !.sproto = p], TRUE)
        \/ /\ form.page = "advanced" /\ SelectableProto(form)
           /\ Touch([form EXCEPT !.proto = p], TRUE)

UserSetInterface ==
    /\ form.page = "advanced"
    /\ \E text \in Interfaces : Touch([form EXCEPT !.iface = text], TRUE)

Cancel ==
    /\ open
    /\ open' = FALSE /\ sent' = NoCommand
    /\ UNCHANGED <<kind, form, editing, line, touches, touched>>

-----------------------------------------------------------------------------
(* Confirming *)

\* Defect for blankMeansAny: a port field that was left empty stays chosen.
MKeepsBlankPorts(f) ==
    LET host(g, side) == IF g[side].host = "" THEN [g EXCEPT ![side].anyHost = TRUE] ELSE g
        hosts == host(host(IF f.simple.pick = "profile" THEN [f EXCEPT !.sproto = "any"] ELSE f,
                           "src"), "dst")
    IN  [hosts EXCEPT
           !.proto = IF "port" \in {hosts.src.pick, hosts.dst.pick} THEN @ ELSE "any",
           !.iface = IF @ \in DOMAIN Squeezed THEN Squeezed[@] ELSE @]

\* The first part of update: empty fields become "any".
blankMeansAny(f) ==
    LET host(g, side) == IF g[side].host = "" THEN [g EXCEPT ![side].anyHost = TRUE] ELSE g
        port(g, side) == IF g[side].pick = "port" /\ g[side].port = "" THEN Pick(g, side, "any") ELSE g
        hosts == host(host(IF f.simple.pick = "profile" THEN [f EXCEPT !.sproto = "any"] ELSE f,
                           "src"), "dst")
        ports == port(port(hosts, "src"), "dst")
    IN  [ports EXCEPT
           !.proto = IF "port" \in {ports.src.pick, ports.dst.pick} THEN @ ELSE "any",
           !.iface = IF @ \in DOMAIN Squeezed THEN Squeezed[@] ELSE @]

checkAddress(text) == text \in Addresses \cup {""}
checkPort(text)    == text \in Ports \cup {""}

Chosen(f, side)   == f[side].pick = "profile"
Predefined(f, side) == Chosen(f, side) /\ f[side].item.app = ""
App(f, side)      == IF Chosen(f, side) THEN f[side].item.app ELSE ""
Typed(f, side)    == IF f[side].pick = "port" THEN f[side].port ELSE ""

\* A predefined service becomes one rule for each of its ports.
SimpleRules(f) ==
    LET made(prot, port, app) == MakeRule(f.action, f.incoming, f.log, prot,
                                          "", "", "", port, "", "", "", app)
        parts   == f.simple.item.parts
        port    == Typed(f, "simple")
        app     == App(f, "simple")
        refused == \/ port = "" /\ app = ""
                   \/ ~checkPort(port)
                   \/ port \in Lists /\ f.sproto = "any"
    IN  IF Predefined(f, "simple")
        THEN [k \in DOMAIN parts |-> made(parts[k].proto, parts[k].port, "")]
        ELSE IF refused THEN <<>> ELSE <<made(f.sproto, port, app)>>

AdvancedRules(f, ipv6) ==
    LET part(side) == f[side].item.parts[1]
        port(side) == IF Predefined(f, side) THEN part(side).port ELSE Typed(f, side)
        host(side) == IF f[side].anyHost THEN "" ELSE f[side].host
        prot       == IF Predefined(f, "dst") THEN part("dst").proto
                      ELSE IF Predefined(f, "src") THEN part("src").proto
                      ELSE f.proto
        sides      == {"src", "dst"}
        refused ==
            \/ ~ipv6 /\ \E s \in sides : host(s) \in V6Addresses
            \/ /\ \A s \in sides : Predefined(f, s)
               /\ part("src").proto # part("dst").proto
            \/ \A s \in sides : host(s) = "" /\ port(s) = "" /\ App(f, s) = ""
            \/ \E s \in sides : ~checkAddress(host(s)) \/ (~Predefined(f, s) /\ ~checkPort(port(s)))
            \/ prot = "any" /\ \E s \in sides : port(s) \in Lists
    IN  IF refused THEN <<>>
        ELSE <<MakeRule(f.action, f.incoming, f.log, prot,
                        host("src"), port("src"), host("dst"), port("dst"),
                        IF f.incoming THEN f.iface ELSE "", IF f.incoming THEN "" ELSE f.iface,
                        App(f, "src"), App(f, "dst"))>>

RulesOf(f, ipv6) == IF f.page = "simple" THEN SimpleRules(f) ELSE AdvancedRules(f, ipv6)

\* Kcm::addRules refuses all of them if one is in the list already.
AlreadyListed(rules) == \E k \in DOMAIN rules : \E r \in ListedRules : Equal(rules[k], r)

\* update: an edit sends the first rule, if it differs.  The edit dialog
\* closes, the add dialog stays.
Confirm ==
    /\ open
    /\ \E ipv6 \in BOOLEAN :
         LET f     == blankMeansAny(form)
             rules == RulesOf(f, ipv6)
             sends == /\ rules # <<>>
                      /\ IF kind = "edit" THEN different(rules[1], editing) ELSE ~AlreadyListed(rules)
         IN  /\ form' = f
             /\ sent' = IF sends
                        THEN [cmd |-> IF kind = "edit" THEN "editRule" ELSE "addRules",
                              rules |-> rules, ipv6 |-> ipv6]
                        ELSE NoCommand
    /\ open' = (kind = "add")
    /\ UNCHANGED <<kind, editing, line, touches, touched>>

User == \/ UserCommon \/ UserTurnPage \/ UserPickAny \/ UserTypePort \/ UserChooseProfile
        \/ UserSetHost \/ UserSetProtocol \/ UserSetInterface

Next == OpenEdit \/ OpenAdd \/ OpenFromLog \/ User \/ Cancel \/ Confirm

Spec == Init /\ [][Next]_vars

-----------------------------------------------------------------------------
(* Properties *)

\* Every variable keeps to its type: setRule, reset and everything that the
\* user does leave a chosen entry and a selected button on each side.
TypeOK ==
    /\ kind \in Kinds
    /\ form \in FormType
    /\ form.simple.pick # "any"
    /\ \A side \in {"simple", "src", "dst"} :
         Predefined(form, side) => form[side].item.parts # <<>>
    /\ open \in BOOLEAN /\ touched \in BOOLEAN
    /\ editing \in WindowRules /\ line \in LinesType
    /\ touches \in 0..MaxTouches
    /\ sent.cmd \in {"none", "addRules", "editRule"}
    /\ sent.rules \in Seq(WindowRules) /\ sent.ipv6 \in BOOLEAN

\* A rule that leaves the dialog is one that ufw can take, whatever was shown
\* in its fields before: it matches something, its protocol belongs to a
\* port, ranges and lists have a protocol, and it names no IPv6 address while
\* IPv6 is off (update).
SentRulesAreWellFormed ==
    \A k \in DOMAIN sent.rules :
        LET r == sent.rules[k]
            ports == {r.dport, r.sport} \ {""}
        IN  /\ ports \cup ({r.dapp, r.sapp, r.dst, r.src} \ {""}) # {}
            /\ r.proto # "any" => ports # {}
            /\ ports \cap Lists # {} => r.proto # "any"
            /\ {r.dst, r.src} \cap V6Addresses # {} => sent.ipv6

\* Only the first rule of an edit is sent (update), and none is lost by that:
\* no choice in the edit dialog stands for more than one rule.
EditKeepsEveryPort == sent.cmd = "editRule" => Len(sent.rules) = 1

\* What the window lists after the rule went through both helpers and ufw
\* names the same traffic as what was sent (toXml, fromXml, insertRule,
\* ruleDetails, Rule::Rule).
ReadBackIsWhatWasSent ==
    \A k \in DOMAIN sent.rules :
        \A family \in Families(Sent(sent.rules[k])) :
            LET r == sent.rules[k]
                o == ReadBack(r, family)
            IN  SameTraffic(r, o) /\ o.v6 = (family = "v6")

\* A rule that the window lists survives a profile: saved in a file with
\* other settings (Kcm::saveProfile), the profile is the current one when it is read
\* again (Profile::load, getCurrentProfile), and loading it puts the rule into
\* its list as it was (Kcm::loadProfile, addRule).
ListedRuleSurvivesProfile ==
    \A k \in DOMAIN sent.rules :
        \A family \in Families(Sent(sent.rules[k])) :
            LET o == ReadBack(sent.rules[k], family)
            IN  /\ family \in Families(Sent(o)) /\ ReadBack(o, family) = o
                /\ \A level \in LogLevels :
                     LET saved == [ipv6 |-> sent.ipv6, loglevel |-> level,
                                   incoming |-> IF level = "off" THEN "reject" ELSE "allow",
                                   outgoing |-> "deny", rules |-> <<o>>, modules |-> {}]
                         read  == load(profileXml(saved))
                     IN  read.fields = Parts /\ SameProfile(read, saved)

\* A rule that the dialog shows as it is: for IPv4 or both families, without
\* application and protocol, not on a port that an application stands for, and
\* not on an interface whose name update squeezes.
Plain(r) ==
    /\ ~r.v6 /\ r.dapp = "" /\ r.sapp = "" /\ r.proto = "any"
    /\ {r.ifin, r.ifout} \cap DOMAIN Squeezed = {}
    /\ \A app \in DOMAIN Apps :
         Apps[app] \notin {<<[port |-> p, proto |-> "any"]>> : p \in {r.dport, r.sport}}

\* An edit of such a rule that only touches policy, direction or logging
\* changes nothing else: neither the entry that a port was turned into, nor
\* anything left from an earlier use of the dialog, becomes part of the rule.
\* Nothing is sent if nothing was changed (setRule, update, different).
EditChangesOnlyWhatWasTouched ==
    sent.cmd = "editRule" /\ ~touched /\ Plain(editing) =>
        LET iface == IF editing.incoming THEN editing.ifin ELSE editing.ifout
            wanted == [editing EXCEPT
                         !.action = form.action, !.log = form.log, !.incoming = form.incoming,
                         !.ifin  = IF form.incoming THEN iface ELSE "",
                         !.ifout = IF form.incoming THEN "" ELSE iface]
        IN  sent.rules = <<wanted>> /\ wanted # editing

-----------------------------------------------------------------------------
(* Documented promises that the code does not keep *)

\* kcm/rule.h:101: "'different' is used in the EditRule dialog to know whether
\* the rule has actually changed".  A rule that was opened and confirmed without
\* a change is not sent: neither one that the dialog itself can make, nor one
\* of an interface that the dialog can show.
Unchanged == ~touched /\ form.action = editing.action /\ form.log = editing.log
                      /\ form.incoming = editing.incoming
UnchangedRuleIsNotSent == sent.cmd = "editRule" => ~Unchanged

\* kcm/logviewer.cpp:339: "we are creating the inverse of what the log says".
\* A rule that was made from a line and not touched is about that line's
\* source.
LogRuleIsInverse ==
    sent.cmd = "addRules" /\ line # NoLine /\ ~touched =>
        \A k \in DOMAIN sent.rules : sent.rules[k].src = line.src
====
