---- MODULE StoreCalls ----
(***************************************************************************)
(* The helpers on their own: a client makes one call after another, with   *)
(* any argument that the user interface can send, and each call is         *)
(* followed through both runs of the Python helper.  What a call may do to *)
(* the firewall is stated here by comparing the store with what it was     *)
(* when the call arrived.                                                  *)
(***************************************************************************)
EXTENDS AuthHelper

CONSTANTS
    Batches,    \* sequences of rules that one addRules call can carry
    Profiles,   \* saved profiles: records with rules, defaults, modules
    Commands    \* the commands that the client uses

ASSUME StoreCallsAssumption ==
    /\ Batches \subseteq Seq(Rules)
    /\ \A p \in Profiles :
         /\ "rules" \in DOMAIN p => p.rules \in Seq(Rules)
         /\ "defaults" \in DOMAIN p => p.defaults \in Settings
         /\ "modules" \in DOMAIN p => p.modules \subseteq Modules
    /\ Commands \subseteq Cmds

VARIABLES
    began   \* history: the store when the current call arrived

vars == <<be, py, faults, kills, call, began>>

EmptyStore == [v4 |-> <<>>, v6 |-> <<>>, enabled |-> FALSE,
               set |-> DefaultSettings, modules |-> DefaultModules]

Init ==
    /\ be \in {EmptyStore, [EmptyStore EXCEPT !.set["ipv6"] = "yes"]}
    /\ began = be
    /\ py = NoProc
    /\ faults = 0
    /\ kills = 0
    /\ call = NoCall

Request(cmd, arg) ==
    /\ cmd \in Commands
    /\ call.phase = "none"
    /\ Submit(cmd, arg)
    /\ began' = be
    /\ UNCHANGED <<be, faults, kills>>

\* Rules are named by their number in the list that the client was shown,
\* which may have one rule more than the store.
Numbers == 1..(NumRules(be) + 1)

RequestQuery       == \E full \in BOOLEAN : Request("query", full)
RequestSetStatus   == \E on \in BOOLEAN : Request("setStatus", on)
RequestSetDefaults == \E name \in SettingNames : \E val \in SettingValues(name) :
                         Request("setDefaults", [n \in {name} |-> val])
RequestSetModules  == \E mods \in SUBSET Modules : Request("setModules", mods)
RequestSetProfile  == \E p \in Profiles : Request("setProfile", p)
RequestAddRules    == \E rules \in Batches : Request("addRules", rules)
RequestRemoveRule  == \E n \in Numbers : Request("removeRule", n)
RequestMoveRule    == \E n, m \in Numbers : n # m /\ Request("moveRule", [from |-> n, to |-> m])
RequestEditRule    == \E n \in Numbers : \E r \in Rules :
                         Request("editRule", [spec |-> r.spec, act |-> r.act, pos |-> n])
RequestReset       == Request("reset", 0)

\* The client takes the reply; the slot is free for the next call.
TakeReply ==
    /\ call.phase = "reply"
    /\ call' = NoCall
    /\ began' = be
    /\ UNCHANGED <<be, py, faults, kills>>

Serve == HelperStep /\ UNCHANGED began

Next ==
    \/ RequestQuery \/ RequestSetStatus \/ RequestSetDefaults \/ RequestSetModules
    \/ RequestSetProfile \/ RequestAddRules \/ RequestRemoveRule \/ RequestMoveRule
    \/ RequestEditRule \/ RequestReset
    \/ Serve
    \/ TakeReply

\* A process that runs makes progress: it computes, or QProcess's time limit
\* ends it; the helper returns once it has ended.
Fairness == WF_vars(Serve) /\ WF_vars(TakeReply)

Spec == Init /\ [][Next]_vars /\ Fairness

-----------------------------------------------------------------------------
(* Type invariant *)

\* Every variable keeps to its type; the lists of the store stay free of
\* duplicates and of rules of the other family.
TypeOK ==
    /\ be \in Stores /\ began \in Stores
    /\ Sound(be.v4, "v4") /\ Sound(be.v6, "v6")
    /\ py.state \in {"none", "running", "exited", "failed", "killed"}
    /\ py.pc \in Pcs /\ py.held \in Shown \cup {NoRule}
    /\ py.left \in Nat /\ py.was \in BOOLEAN /\ py.out \subseteq Parts
    /\ faults \in 0..MaxFaults /\ kills \in 0..MaxKills
    /\ call.phase \in Phases /\ call.cmd \in Cmds \cup {"none"}
    /\ call.ok \in BOOLEAN /\ call.parts \subseteq Parts

-----------------------------------------------------------------------------
(* What a call may do *)

Precedes(list, r, s) == \E i, j \in DOMAIN list : i <= j /\ list[i] = r /\ list[j] = s

\* The lists hold the same rules in the same order, but for those about specs.
SameOthers(list, old, specs) ==
    \A r, s \in {rule \in Rules : rule.spec \notin specs} :
        Precedes(list, r, s) <=> Precedes(old, r, s)

SpecsOf(rules)       == {rules[i].spec : i \in DOMAIN rules}
SpecAt(n)            == IF n \in 1..NumRules(began) THEN {RuleAt(began, n).spec} ELSE {}

\* The specs that a rule command is about.
Addressed ==
    CASE call.cmd = "addRules"   -> SpecsOf(call.arg)
      [] call.cmd = "removeRule" -> SpecAt(call.arg)
      [] call.cmd = "moveRule"   -> SpecAt(call.arg.from)
      [] call.cmd = "editRule"   -> SpecAt(call.arg.pos) \cup {call.arg.spec}
      [] OTHER                   -> {}

\* Whatever goes wrong, and wherever the process dies, a call about some
\* rules leaves every other rule in force, as it was and in the same order
\* (insertRule, updateRule, removeRule, moveRule).
OthersKeepTheirOrder ==
    call.phase # "none" /\ call.cmd \notin {"setProfile", "reset"} =>
        /\ SameOthers(be.v4, began.v4, Addressed)
        /\ SameOthers(be.v6, began.v6, Addressed)

\* No call but one to enable the firewall ever enables a disabled one: not
\* the re-enabling that setDefaults and reset do, in any interleaving with
\* failures.
OnlySetStatusEnables ==
    call.phase # "none" /\ be.enabled => began.enabled \/ (call.cmd = "setStatus" /\ call.arg)

\* The IPv4 list after rule number from was dragged to number to.
Moved(list, from, to) ==
    InsertAt(RemoveAt(list, from), IF to > Len(list) THEN Len(list) ELSE to, list[from])

\* The settings that a change leaves behind.
Overridden(set, change) ==
    [n \in SettingNames |-> IF n \in DOMAIN change THEN change[n] ELSE set[n]]

\* The rules in force: those of the IPv6 list only count while IPv6 is on.
InForce(b) == ToSet(b.v4) \cup (IF Ipv6On(b) THEN ToSet(b.v6) ELSE {})

\* The rules and modules of a loaded profile have taken the place of what was
\* there.  Defaults are never among what was loaded: Profile::defaultsXml
\* always writes the ipv6 attribute.
ProfileInForce(p) ==
    /\ "defaults" \notin DOMAIN p
    /\ "rules" \in DOMAIN p => {r.spec : r \in InForce(be)} = SpecsOf(p.rules)
    /\ "modules" \in DOMAIN p => be.modules = p.modules
    /\ be.enabled = began.enabled /\ be.set = began.set

\* What success promises when no process was killed.
Done(cmd, arg) ==
    CASE cmd = "setStatus"   -> be.enabled = arg
      [] cmd = "setDefaults" -> /\ "ipv6" \notin DOMAIN arg
                                /\ be.set = Overridden(began.set, arg)
                                /\ be.enabled = began.enabled
      [] cmd = "setModules"  -> be.modules = arg
      [] cmd = "removeRule"  -> Listing(be) = RemoveAt(Listing(began), arg)
      [] cmd = "moveRule"    -> ~Ipv6On(be) => be.v4 = Moved(began.v4, arg.from, arg.to)
      [] cmd = "addRules"    -> SpecsOf(arg) = {r.spec : r \in ToSet(arg) \cap InForce(be)}
      [] cmd = "setProfile"  -> ProfileInForce(arg)
      [] cmd = "reset"       -> ~be.enabled /\ be.v4 = <<>> /\ be.v6 = <<>>
      [] OTHER               -> TRUE

\* A call that is reported as done was done: an exit code of 0 covers every
\* step of setEnabled, setDefaults, setModules, removeRule, moveRule (while
\* there is only one list), addRule, setProfile and reset, and is never given
\* for a change of IPv6, which the code cannot make.
SuccessMeansDone ==
    call.phase = "reply" /\ call.ok /\ kills = 0 => Done(call.cmd, call.arg)

\* Every call is answered, whatever the Python helper does.
EveryCallIsAnswered == (call.phase \in {"first", "second"}) ~> (call.phase = "reply")

-----------------------------------------------------------------------------
(* The abstract firewall *)

\* A command is served until its reply: the two runs of the Python helper and
\* the steps within them are one change after another.
Serving == call.phase \in {"first", "second"}

Command == [name |-> IF Serving THEN call.cmd ELSE "none",
            on   |-> Serving /\ call.cmd = "setStatus" /\ call.arg]

F == INSTANCE Firewall WITH fw <- be, cmd <- Command, was <- Serving /\ began.enabled

\* Whatever the helper's processes do, run by run and step by step, with
\* exceptions and kills, a client sees one command at a time that changes only
\* what it is about.
ImplementsFirewall == F!Spec

-----------------------------------------------------------------------------
(* Documented promises that the code does not keep *)

\* doc/index.docbook:100: rules are re-ordered by moving them.  A move may
\* change the order of the rules, not which rules there are.
MoveKeepsRules ==
    call.phase = "reply" /\ call.cmd = "moveRule" =>
        ToSet(began.v4) \subseteq ToSet(be.v4) /\ ToSet(began.v6) \subseteq ToSet(be.v6)

\* ChangeLog:65: "Fix toggling of IPv6 disabling firewall."  A change of the
\* IPv6 setting leaves the firewall enabled or disabled as it was.
TogglingIpv6KeepsStatus ==
    call.phase = "reply" /\ call.cmd = "setDefaults" /\ "ipv6" \in DOMAIN call.arg =>
        be.enabled = began.enabled
====
