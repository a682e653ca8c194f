---- MODULE StoreCallsProofs ----
(***************************************************************************)
(* Theorems about StoreCalls: its types, with the soundness of the rule    *)
(* lists; that only setStatus enables the firewall; that a rule command    *)
(* leaves the other rules in their order; and that success means done.     *)
(* They hold for any specs, addresses, settings, modules, arguments,       *)
(* faults and kills.                                                       *)
(***************************************************************************)
EXTENDS StoreCalls, HelperProofs

-----------------------------------------------------------------------------
(* Types *)

\* The inductive type invariant: TypeOK and what the options, the held rule
\* and the call have to be for it.
TypeInv == HelperOK /\ began \in Stores /\ call.cmd \in Cmds \cup {"none"}

\* The inductive invariant is the type invariant, and more.
LEMMA TypeInvImplies == TypeInv => TypeOK
<1> SUFFICES ASSUME TypeInv PROVE TypeOK
    OBVIOUS
<1>1. /\ be \in Stores /\ Sound(be.v4, "v4") /\ Sound(be.v6, "v6") /\ began \in Stores
      /\ py \in Processes /\ faults \in 0..MaxFaults /\ kills \in 0..MaxKills
    BY DEF TypeInv, HelperOK, PyOK, ProcOK, Good
<1>2. call.phase \in Phases /\ call.ok \in BOOLEAN /\ call.parts \in SUBSET Parts
    BY DEF TypeInv, HelperOK, CallOK, Calls
<1>3. call.cmd \in Cmds \cup {"none"}
    BY DEF TypeInv
<1>4. /\ py.state \in {"none", "running", "exited", "failed", "killed"}
      /\ py.pc \in Pcs /\ py.held \in Shown \cup {NoRule}
      /\ py.left \in Nat /\ py.was \in BOOLEAN /\ py.out \in SUBSET Parts
    BY <1>1 DEF Processes
<1> QED  BY <1>1, <1>2, <1>3, <1>4 DEF TypeOK

\* Both initial stores are good.
LEMMA InitialStores ==
    ASSUME PyHelperAssumption
    PROVE  \A b \in {EmptyStore, [EmptyStore EXCEPT !.set["ipv6"] = "yes"]} : Good(b) /\ ~b.enabled
<1>1. DefaultSettings \in Settings /\ DefaultModules \in SUBSET Modules
    BY DEF PyHelperAssumption
<1>2. [DefaultSettings EXCEPT !["ipv6"] = "yes"] \in Settings
    BY <1>1, OneSetting, SettingFacts DEF SettingValues
<1>3. ASSUME NEW set \in Settings
      PROVE  Good([EmptyStore EXCEPT !.set = set]) /\ Good(EmptyStore)
    <2>1. <<>> \in Seq(Rules)
        OBVIOUS
    <2>2. EmptyStore \in Stores
        BY <1>1, <2>1 DEF EmptyStore, Stores
    <2>3. Good(EmptyStore)
        BY <2>1, <2>2 DEF EmptyStore, Good, Sound
    <2> QED  BY <2>3, NewSettings
<1>4. [EmptyStore EXCEPT !.set["ipv6"] = "yes"] =
        [EmptyStore EXCEPT !.set = [DefaultSettings EXCEPT !["ipv6"] = "yes"]]
    BY DEF EmptyStore
<1>5. Good([EmptyStore EXCEPT !.set = [DefaultSettings EXCEPT !["ipv6"] = "yes"]]) /\ Good(EmptyStore)
    BY <1>2, <1>3
<1>6. ~EmptyStore.enabled /\ ~[EmptyStore EXCEPT !.set["ipv6"] = "yes"].enabled
    BY DEF EmptyStore
<1> QED  BY <1>4, <1>5, <1>6

\* A request with a typed argument keeps the types.
LEMMA RequestType ==
    ASSUME TypeInv, NEW cmd \in Cmds, NEW arg, ArgOK(cmd, arg), Request(cmd, arg)
    PROVE  TypeInv'
<1>1. HelperOK /\ faults \in 0..MaxFaults /\ be \in Stores
    BY DEF TypeInv, HelperOK, PyOK, Good
<1>2. Submit(cmd, arg) /\ UNCHANGED <<be, kills>> /\ faults' = faults /\ began' = be
    BY DEF Request
<1>3. HelperOK' /\ call'.cmd = cmd
    BY <1>1, <1>2, SubmitType
<1> QED  BY <1>1, <1>2, <1>3 DEF TypeInv

\* A value for each setting is a change, one of IPv6 among them.
LEMMA WholeSettings == \A set \in Settings : set \in Changes /\ "ipv6" \in DOMAIN set
<1> SUFFICES ASSUME NEW set \in Settings
             PROVE  set \in Changes /\ "ipv6" \in DOMAIN set
    OBVIOUS
<1>1. /\ set \in [SettingNames -> {"yes", "no"} \cup LogLevels \cup Policies]
      /\ \A name \in SettingNames : set[name] \in SettingValues(name)
    BY DEF Settings
<1>2. SettingNames \in SUBSET SettingNames /\ "ipv6" \in SettingNames
    BY SettingFacts
<1> QED  BY <1>1, <1>2 DEF Changes

\* What the client sends is typed: rules as they are in the store, defaults of
\* a profile with the ipv6 attribute, and rules to be moved by two numbers that
\* the list has.
Exact(cmd, arg) ==
    /\ ArgOK(cmd, arg)
    /\ cmd = "setProfile" =>
         /\ "rules" \in DOMAIN arg => arg.rules \in Seq(Rules)
         /\ "defaults" \in DOMAIN arg => "ipv6" \in DOMAIN arg.defaults
    /\ cmd = "addRules" => arg \in Seq(Rules)
    /\ cmd = "moveRule" => arg.to \in Nat \ {0}

\* Every request of the client has such an argument.
LEMMA Requests ==
    ASSUME TypeInv, StoreCallsAssumption,
           \/ RequestQuery \/ RequestSetStatus \/ RequestSetDefaults \/ RequestSetModules
           \/ RequestSetProfile \/ RequestAddRules \/ RequestRemoveRule \/ RequestMoveRule
           \/ RequestEditRule \/ RequestReset
    PROVE  \E cmd \in Cmds : \E arg : Exact(cmd, arg) /\ ArgOK(cmd, arg) /\ Request(cmd, arg)
<1>1. Good(be)
    BY DEF TypeInv, HelperOK, PyOK
<1>2. Numbers \subseteq Nat \ {0}
    BY <1>1, Counts DEF Numbers
<1>3. CASE RequestQuery
    <2>1. PICK arg \in BOOLEAN : Request("query", arg)
        BY <1>3 DEF RequestQuery
    <2>2. Exact("query", arg) /\ ArgOK("query", arg)
        BY DEF ArgOK, Exact
    <2> QED  BY <2>1, <2>2 DEF Cmds
<1>4. CASE RequestSetStatus
    <2>1. PICK arg \in BOOLEAN : Request("setStatus", arg)
        BY <1>4 DEF RequestSetStatus
    <2>2. Exact("setStatus", arg) /\ ArgOK("setStatus", arg)
        BY DEF ArgOK, Exact
    <2> QED  BY <2>1, <2>2 DEF Cmds
<1>5. CASE RequestSetDefaults
    <2>0. PICK name \in SettingNames :
             \E val \in SettingValues(name) : Request("setDefaults", [n \in {name} |-> val])
        BY <1>5 DEF RequestSetDefaults
    <2>1. PICK val \in SettingValues(name) : Request("setDefaults", [n \in {name} |-> val])
        BY <2>0
    <2> DEFINE arg == [n \in {name} |-> val]
    <2>2. val \in {"yes", "no"} \cup LogLevels \cup Policies
        BY DEF SettingValues
    <2>3. /\ {name} \in SUBSET SettingNames
          /\ arg \in [{name} -> {"yes", "no"} \cup LogLevels \cup Policies]
          /\ \A n \in {name} : arg[n] \in SettingValues(n)
        BY <2>2
    <2> HIDE DEF arg
    <2>4. arg \in Changes
        BY <2>3 DEF Changes
    <2>5. Exact("setDefaults", arg) /\ ArgOK("setDefaults", arg)
        BY <2>4 DEF ArgOK, Exact
    <2> QED  BY <2>1, <2>5 DEF Cmds, arg
<1>6. CASE RequestSetModules
    <2>1. PICK arg \in SUBSET Modules : Request("setModules", arg)
        BY <1>6 DEF RequestSetModules
    <2>2. Exact("setModules", arg) /\ ArgOK("setModules", arg)
        BY DEF ArgOK, Exact
    <2> QED  BY <2>1, <2>2 DEF Cmds
<1>7. CASE RequestSetProfile
    <2>1. PICK p \in Profiles : Request("setProfile", p)
        BY <1>7 DEF RequestSetProfile
    <2>2. ASSUME NEW rules \in Seq(Rules)
          PROVE  rules \in Seq(Rules \cup Shown)
        BY SeqMonotonic
    <2>3. "defaults" \in DOMAIN p => p.defaults \in Changes /\ "ipv6" \in DOMAIN p.defaults
        BY WholeSettings DEF StoreCallsAssumption
    <2>4. Exact("setProfile", p) /\ ArgOK("setProfile", p)
        BY <2>2, <2>3 DEF ArgOK, StoreCallsAssumption, Exact
    <2> QED  BY <2>1, <2>4 DEF Cmds
<1>8. CASE RequestAddRules
    <2>1. PICK arg \in Batches : Request("addRules", arg)
        BY <1>8 DEF RequestAddRules
    <2>2. arg \in Seq(Rules)
        BY DEF StoreCallsAssumption
    <2>3. arg \in Seq(Rules \cup Shown)
        BY <2>2, SeqMonotonic
    <2>4. Exact("addRules", arg) /\ ArgOK("addRules", arg)
        BY <2>3 DEF ArgOK, Exact
    <2> QED  BY <2>1, <2>4 DEF Cmds
<1>9. CASE RequestRemoveRule
    <2>1. PICK n \in Numbers : Request("removeRule", n)
        BY <1>9 DEF RequestRemoveRule
    <2>2. Exact("removeRule", n) /\ ArgOK("removeRule", n)
        BY <1>2 DEF ArgOK, Exact
    <2> QED  BY <2>1, <2>2 DEF Cmds
<1>10. CASE RequestMoveRule
    <2>1. PICK n \in Numbers, m \in Numbers : Request("moveRule", [from |-> n, to |-> m])
        BY <1>10 DEF RequestMoveRule
    <2>2. Exact("moveRule", [from |-> n, to |-> m]) /\ ArgOK("moveRule", [from |-> n, to |-> m])
        BY <1>2 DEF ArgOK, Exact
    <2> QED  BY <2>1, <2>2 DEF Cmds
<1>11. CASE RequestEditRule
    <2>1. PICK n \in Numbers, r \in Rules :
             Request("editRule", [spec |-> r.spec, act |-> r.act, pos |-> n])
        BY <1>11 DEF RequestEditRule
    <2>2. Exact("editRule", [spec |-> r.spec, act |-> r.act, pos |-> n]) /\ ArgOK("editRule", [spec |-> r.spec, act |-> r.act, pos |-> n])
        BY <1>2 DEF ArgOK, Rules, Exact
    <2> QED  BY <2>1, <2>2 DEF Cmds
<1>12. CASE RequestReset
    <2>1. Exact("reset", 0) /\ ArgOK("reset", 0)
        BY DEF ArgOK, Exact
    <2> QED  BY <2>1, <1>12 DEF RequestReset, Cmds
<1> QED  BY <1>3, <1>4, <1>5, <1>6, <1>7, <1>8, <1>9, <1>10, <1>11, <1>12

\* The call that is none is typed.
LEMMA NoCallType == NoCall \in Calls("none", 0) /\ NoCall.cmd = "none" /\ NoCall.arg = 0
BY DEF NoCall, Calls, Phases

\* The invariant holds at the start.
LEMMA TypeInit ==
    ASSUME PyHelperAssumption, Init
    PROVE  TypeInv
<1>1. Good(be) /\ Good(began)
    BY InitialStores DEF Init
<1>2. ProcOK(py) /\ faults \in 0..MaxFaults /\ kills \in 0..MaxKills
    BY FreshProcess DEF Init, PyHelperAssumption
<1>3. CallOK /\ call.cmd = "none"
    BY NoCallType DEF Init, CallOK
<1> QED  BY <1>1, <1>2, <1>3 DEF TypeInv, HelperOK, PyOK, Good

\* Every step keeps the invariant.
LEMMA TypeStep ==
    ASSUME PyHelperAssumption, StoreCallsAssumption, TypeInv, [Next]_vars
    PROVE  TypeInv'
<1>1. CASE \/ RequestQuery \/ RequestSetStatus \/ RequestSetDefaults \/ RequestSetModules
           \/ RequestSetProfile \/ RequestAddRules \/ RequestRemoveRule \/ RequestMoveRule
           \/ RequestEditRule \/ RequestReset
    BY <1>1, Requests, RequestType
<1>2. CASE Serve
    <2>1. HelperStep /\ began' = began
        BY <1>2 DEF Serve
    <2>2. HelperOK' /\ call'.cmd = call.cmd
        BY <2>1, HelperStepType DEF TypeInv
    <2> QED  BY <2>1, <2>2 DEF TypeInv
<1>3. CASE TakeReply
    <2>1. call' = NoCall /\ began' = be /\ UNCHANGED <<be, py, faults, kills>>
        BY <1>3 DEF TakeReply
    <2>2. CallOK' /\ call'.cmd = "none"
        BY <2>1, NoCallType DEF CallOK
    <2>3. PyOK' /\ began' \in Stores
        BY <2>1 DEF TypeInv, HelperOK, PyOK, Good
    <2> QED  BY <2>2, <2>3 DEF TypeInv, HelperOK
<1>4. CASE UNCHANGED vars
    BY <1>4 DEF vars, TypeInv, HelperOK, PyOK, CallOK
<1> QED  BY <1>1, <1>2, <1>3, <1>4 DEF Next

\* Every variable of StoreCalls keeps to its type, and the lists of the store
\* stay free of duplicates and of rules of the other family, in every run of
\* any commands, faults and kills (insertRule, updateRule, moveRule).
THEOREM TypeCorrect == Spec => []TypeOK
<1>1. Init => TypeInv
    BY TypeInit, PyHelperAssumption
<1>2. TypeInv /\ [Next]_vars => TypeInv'
    BY TypeStep, PyHelperAssumption, StoreCallsAssumption
<1>3. Spec => []TypeInv
    BY <1>1, <1>2, PTL DEF Spec
<1> QED  BY <1>3, TypeInvImplies, PTL

-----------------------------------------------------------------------------
(* Who enables the firewall *)

\* A process that switches the firewall on, by an option or because it
\* remembers that it was on, does so only if g.
Quiet(p, g) ==
    /\ \A i \in 1..Len(p.opts) : p.opts[i].name = "setEnabled" /\ p.opts[i].arg = TRUE => g
    /\ p.was = TRUE => g

\* Processes without options are quiet.
LEMMA QuietEnd ==
    ASSUME NEW g
    PROVE  /\ Quiet(NoProc, g) /\ Quiet(Abort, g)
           /\ \A how : Quiet(Ended(how), g)
           /\ \A how, out : Quiet([Ended(how) EXCEPT !.out = out], g)
BY DEF Quiet, NoProc, Abort, Ended

\* A quiet process stays quiet when it goes on: to its next option, or within
\* the one that it is executing.
LEMMA QuietNext ==
    ASSUME PyOK, NEW g, Quiet(py, g)
    PROVE  /\ py.opts # <<>> => Quiet(NextOption, g)
           /\ py.opts # <<>> => \A out : Quiet([NextOption EXCEPT !.out = out], g)
           /\ \A pc, held : Quiet([py EXCEPT !.pc = pc, !.held = held], g)
           /\ \A pc, left : Quiet([py EXCEPT !.pc = pc, !.left = left], g)
           /\ \A pc : Quiet([py EXCEPT !.pc = pc], g)
           /\ \A left : Quiet([py EXCEPT !.left = left], g)
           /\ \A pc, left, was : (was = TRUE => g) =>
                Quiet([py EXCEPT !.pc = pc, !.left = left, !.was = was], g)
<1>1. py \in Processes /\ py.opts \in Seq(Options)
    BY DEF PyOK, ProcOK, Processes
<1>2. ASSUME py.opts # <<>>
      PROVE  /\ Quiet(NextOption, g)
             /\ \A out : Quiet([NextOption EXCEPT !.out = out], g)
    <2> DEFINE t == Tail(py.opts)
    <2>1. t \in Seq(Options) /\ Len(t) = Len(py.opts) - 1 /\ Len(py.opts) \in Nat
        BY <1>1, <1>2
    <2>2. \A i \in 1..Len(t) : t[i] = py.opts[i + 1]
        BY <1>1, <1>2
    <2> HIDE DEF t
    <2>3. \A i \in 1..Len(t) : t[i].name = "setEnabled" /\ t[i].arg = TRUE => g
        BY <2>1, <2>2 DEF Quiet
    <2>4. NextOption.opts = t /\ NextOption.was = FALSE
        BY DEF NextOption, Process, NoProc, t
    <2>5. \A out : /\ [NextOption EXCEPT !.out = out].opts = t
                   /\ [NextOption EXCEPT !.out = out].was = FALSE
        BY DEF NextOption, Process, NoProc, t
    <2> QED  BY <2>3, <2>4, <2>5 DEF Quiet
<1>3. ASSUME NEW pc, NEW held, NEW left, NEW was, was = TRUE => g
      PROVE  /\ Quiet([py EXCEPT !.pc = pc, !.held = held], g)
             /\ Quiet([py EXCEPT !.pc = pc, !.left = left], g)
             /\ Quiet([py EXCEPT !.pc = pc], g)
             /\ Quiet([py EXCEPT !.left = left], g)
             /\ Quiet([py EXCEPT !.pc = pc, !.left = left, !.was = was], g)
    BY <1>1, <1>3 DEF Quiet, Processes
<1> QED  BY <1>2, <1>3

\* A library call enables the firewall only if g, when its outcomes do.
LEMMA LibCallQuiet ==
    ASSUME NEW g, NEW result, NEW broken, NEW returned, NEW raised,
           LibCall(result, broken, returned, raised),
           result.store.enabled = TRUE => g, \A b \in broken : b.enabled = TRUE => g,
           result.ok => Quiet(returned, g), Quiet(raised, g)
    PROVE  (be'.enabled = TRUE => g) /\ Quiet(py', g)
BY DEF LibCall

\* A call that changes a rule does not enable the firewall.
LEMMA RuleCallQuiet ==
    ASSUME NEW g, NEW result, NEW returned, NEW raised,
           RuleCall(result, returned, raised), SameSettings(be, result.store),
           be.enabled = TRUE => g,
           result.ok => Quiet(returned, g), Quiet(raised, g)
    PROVE  (be'.enabled = TRUE => g) /\ Quiet(py', g)
<1>1. LibCall(result, {be, result.store}, returned, raised)
    BY DEF RuleCall
<1>2. /\ result.store.enabled = TRUE => g
      /\ \A b \in {be, result.store} : b.enabled = TRUE => g
    BY DEF SameSettings
<1> HIDE DEF RuleCall, LibCall
<1> QED  BY <1>1, <1>2, LibCallQuiet

\* A switch enables the firewall only if it is one to on.
LEMMA SwitchQuiet ==
    ASSUME PyOK, NEW g, NEW on \in BOOLEAN, NEW returned, Switch(on, returned),
           on = TRUE => g, Quiet(returned, g)
    PROVE  (be'.enabled = TRUE => g) /\ Quiet(py', g)
<1> DEFINE result == Ok([be EXCEPT !.enabled = on])
           broken == {[be EXCEPT !.enabled = FALSE]}
<1>1. LibCall(result, broken, returned, Abort)
    BY DEF Switch
<1>2. be \in Stores
    BY DEF PyOK, Good
<1>3. [be EXCEPT !.enabled = on].enabled = on /\ [be EXCEPT !.enabled = FALSE].enabled = FALSE
    BY <1>2 DEF Stores
<1>4. (result.store.enabled = TRUE => g) /\ \A b \in broken : b.enabled = TRUE => g
    BY <1>3 DEF Ok
<1> HIDE DEF result, broken
<1> QED  BY <1>1, <1>4, QuietEnd, LibCallQuiet

\* What the rule commands of a typed option leave alone.
LEMMA RuleStepQuiet ==
    ASSUME PyOK, PyHelperAssumption, NEW g, be.enabled = TRUE => g, Quiet(py, g),
           \/ AddRule \/ UpdateDelete \/ UpdateInsert \/ UpdateRestore \/ RemoveRule
           \/ MoveDelete \/ MoveInsert \/ ClearOne
    PROVE  (be'.enabled = TRUE => g) /\ Quiet(py', g)
<1>1. Good(be) /\ ProcOK(py)
    BY DEF PyOK
<1>2. Quiet(Abort, g) /\ (py.opts # <<>> => Quiet(NextOption, g))
    BY QuietEnd, QuietNext
<1>3. CASE AddRule
    <2> DEFINE result == InsertRule(be, Arg, 0, FamilyOf(Arg.spec))
    <2>1. At("add", "start") /\ py.opts # <<>> /\ RuleCall(result, NextOption, Abort)
        BY <1>3 DEF AddRule, At
    <2>2. Arg \in Rules \cup Shown
        BY <2>1, Executing, RuleArgs
    <2>3. Arg.spec \in Specs /\ Arg.act \in Acts /\ Suits(FamilyOf(Arg.spec), Arg.spec)
        BY <2>2, FamilySuits DEF Rules, Shown
    <2>4. SameSettings(be, result.store)
        BY <2>3, <1>1, InsertRuleGood
    <2> HIDE DEF result
    <2> QED  BY <2>1, <2>4, <1>2, RuleCallQuiet
<1>4. CASE UpdateDelete
    <2> DEFINE result == DeleteRule(be, Arg.pos)
               next == [py EXCEPT !.pc = "insert", !.held = RuleAt(be, Arg.pos)]
    <2>1. At("update", "start") /\ py.opts # <<>> /\ RuleCall(result, next, NextOption)
        BY <1>4 DEF UpdateDelete, At
    <2>2. Arg.pos \in Nat
        BY <2>1, Executing, RuleArgs
    <2>3. SameSettings(be, result.store) /\ Quiet(next, g)
        BY <2>2, <1>1, DeleteRuleGood, QuietNext
    <2> HIDE DEF result, next
    <2> QED  BY <2>1, <2>3, <1>2, RuleCallQuiet
<1>5. CASE UpdateInsert
    <2> DEFINE result == InsertRule(be, Arg, Arg.pos, FamilyOf(Arg.spec))
               again == [py EXCEPT !.pc = "restore"]
    <2>1. At("update", "insert") /\ py.opts # <<>> /\ RuleCall(result, NextOption, again)
        BY <1>5 DEF UpdateInsert, At
    <2>2. Arg \in [spec : Specs, act : Acts, pos : Nat]
        BY <2>1, Executing, RuleArgs
    <2>3. Arg.spec \in Specs /\ Arg.act \in Acts /\ Arg.pos \in Nat /\ Suits(FamilyOf(Arg.spec), Arg.spec)
        BY <2>2, FamilySuits
    <2>4. SameSettings(be, result.store)
        BY <2>3, <1>1, InsertRuleGood
    <2>5. Quiet(again, g)
        BY QuietNext
    <2> HIDE DEF result, again
    <2> QED  BY <2>1, <2>4, <2>5, <1>2, RuleCallQuiet
<1>6. CASE UpdateRestore
    <2> DEFINE result == InsertRule(be, py.held, 0, StoredFamily(py.held))
    <2>1. At("update", "restore") /\ py.opts # <<>> /\ py.pc = "restore" /\ RuleCall(result, NextOption, Abort)
        BY <1>6 DEF UpdateRestore, At
    <2>2. py.held \in Shown /\ (py.held.v6 => AddrOf[py.held.spec] \in {"any", "v6"})
        BY <2>1, <1>1 DEF ProcOK
    <2>3. py.held.spec \in Specs /\ py.held.act \in Acts /\ Suits(StoredFamily(py.held), py.held.spec)
        BY <2>2, FamilySuits DEF Shown
    <2>4. SameSettings(be, result.store)
        BY <2>3, <1>1, InsertRuleGood
    <2> HIDE DEF result
    <2> QED  BY <2>1, <2>4, <1>2, RuleCallQuiet
<1>7. CASE RemoveRule
    <2> DEFINE result == DeleteRule(be, Arg)
    <2>1. At("remove", "start") /\ py.opts # <<>> /\ RuleCall(result, NextOption, Abort)
        BY <1>7 DEF RemoveRule, At
    <2>2. Arg \in Nat
        BY <2>1, Executing, RuleArgs
    <2>3. SameSettings(be, result.store)
        BY <2>2, <1>1, DeleteRuleGood
    <2> HIDE DEF result
    <2> QED  BY <2>1, <2>3, <1>2, RuleCallQuiet
<1>8. CASE MoveDelete
    <2> DEFINE known == Arg.from # Arg.to /\ Arg.from \in 1..NumRules(be)
               result == IF known THEN DeleteRule(be, Arg.from) ELSE Raised(be)
               next == [py EXCEPT !.pc = "insert", !.held = RuleAt(be, Arg.from)]
    <2>1. At("move", "start") /\ RuleCall(result, next, Abort)
        BY <1>8 DEF MoveDelete
    <2>2. Arg.from \in Nat
        BY <2>1, Executing, RuleArgs
    <2>3. SameSettings(be, DeleteRule(be, Arg.from).store) /\ SameSettings(be, Raised(be).store)
        BY <2>2, <1>1, DeleteRuleGood DEF Raised, SameSettings
    <2>4. SameSettings(be, result.store) /\ Quiet(next, g)
        BY <2>3, QuietNext
    <2> HIDE DEF result, next
    <2> QED  BY <2>1, <2>4, <1>2, RuleCallQuiet
<1>9. CASE MoveInsert
    <2> DEFINE result == InsertRule(be, py.held, Arg.to, StoredFamily(py.held))
    <2>1. At("move", "insert") /\ py.opts # <<>> /\ py.pc = "insert" /\ RuleCall(result, NextOption, Abort)
        BY <1>9 DEF MoveInsert, At
    <2>2. /\ py.held \in Shown /\ (py.held.v6 => AddrOf[py.held.spec] \in {"any", "v6"})
          /\ Arg.to \in Nat
        BY <2>1, <1>1, Executing, RuleArgs DEF ProcOK
    <2>3. py.held.spec \in Specs /\ py.held.act \in Acts /\ Suits(StoredFamily(py.held), py.held.spec)
        BY <2>2, FamilySuits DEF Shown
    <2>4. SameSettings(be, result.store)
        BY <2>2, <2>3, <1>1, InsertRuleGood
    <2> HIDE DEF result
    <2> QED  BY <2>1, <2>4, <1>2, RuleCallQuiet
<1>10. CASE ClearOne
    <2> DEFINE result == DeleteRule(be, 1)
               done == [py EXCEPT !.left = @ - 1]
    <2>1. RuleCall(result, done, Abort)
        BY <1>10 DEF ClearOne
    <2>2. SameSettings(be, result.store)
        BY <1>1, DeleteRuleGood
    <2>3. Quiet(done, g)
        BY QuietNext
    <2> HIDE DEF result, done
    <2> QED  BY <2>1, <2>2, <2>3, <1>2, RuleCallQuiet
<1> QED  BY <1>3, <1>4, <1>5, <1>6, <1>7, <1>8, <1>9, <1>10

\* The other steps enable the firewall only where an option says so or where
\* setDefaults remembers that it was enabled; reset never does.
LEMMA OtherStepQuiet ==
    ASSUME PyOK, PyHelperAssumption, NEW g, be.enabled = TRUE => g, Quiet(py, g),
           \/ ClearCount \/ ClearDone \/ SetEnabled \/ DefaultsDisable \/ DefaultsSet
           \/ DefaultsEnable \/ SetModules \/ ResetDefaults \/ ResetWipe \/ Query \/ Exit \/ Kill
    PROVE  (be'.enabled = TRUE => g) /\ Quiet(py', g)
<1>1. be \in Stores /\ py \in Processes /\ py.opts \in Seq(Options)
    BY DEF PyOK, Good, ProcOK, Processes
<1>2. Quiet(Abort, g) /\ (py.opts # <<>> => Quiet(NextOption, g))
    BY QuietEnd, QuietNext
<1>3. CASE ClearCount
    BY <1>3, QuietNext DEF ClearCount
<1>4. CASE ClearDone
    <2>1. be' = be /\ py.opts # <<>> /\ (py' = NextOption \/ py' = [py EXCEPT !.pc = "wipe"])
        BY <1>4 DEF ClearDone, At
    <2>2. Quiet([py EXCEPT !.pc = "wipe"], g)
        BY QuietNext
    <2>3. CASE py' = NextOption
        BY <2>1, <2>3, <1>2
    <2>4. CASE py' = [py EXCEPT !.pc = "wipe"]
        BY <2>1, <2>2, <2>4
    <2> QED  BY <2>1, <2>3, <2>4
<1>5. CASE SetEnabled
    <2>1. At("setEnabled", "start") /\ py.opts # <<>>
        BY <1>5 DEF SetEnabled, At
    <2>2. Arg \in BOOLEAN /\ Head(py.opts).name = "setEnabled" /\ Arg = Head(py.opts).arg
        BY <2>1, Executing, RuleArgs
    <2>3. Head(py.opts) = py.opts[1] /\ 1 \in 1..Len(py.opts)
        BY <1>1, <2>1
    <2>4. Arg = TRUE => g
        BY <2>2, <2>3 DEF Quiet
    <2>5. CASE be.enabled = Arg
        BY <2>1, <2>5, <1>2, <1>5 DEF SetEnabled
    <2>6. CASE be.enabled # Arg
        <3>1. Switch(Arg, NextOption)
            BY <2>6, <1>5 DEF SetEnabled
        <3> QED  BY <3>1, <2>1, <2>2, <2>4, <1>2, SwitchQuiet
    <2> QED  BY <2>5, <2>6
<1>6. CASE DefaultsDisable
    <2> DEFINE begun == [py EXCEPT !.pc = "setting", !.left = Len(SettingOrder), !.was = be.enabled]
    <2>1. Quiet(begun, g)
        BY QuietNext
    <2>2. Switch(FALSE, begun) \/ (py' = begun /\ UNCHANGED <<be, faults, kills>>)
        BY <1>6 DEF DefaultsDisable
    <2> HIDE DEF begun
    <2>3. CASE Switch(FALSE, begun)
        <3>1. FALSE \in BOOLEAN /\ (FALSE = TRUE => g)
            OBVIOUS
        <3> QED  BY <2>1, <2>3, <3>1, SwitchQuiet
    <2>4. CASE py' = begun /\ UNCHANGED <<be, faults, kills>>
        BY <2>1, <2>4
    <2> QED  BY <2>2, <2>3, <2>4
<1>7. CASE DefaultsSet
    <2> DEFINE name    == SettingOrder[Len(SettingOrder) + 1 - py.left]
               written == [be EXCEPT !.set[name] = Arg[name]]
               next    == [py EXCEPT !.left = @ - 1]
    <2>1. Quiet(next, g)
        BY QuietNext
    <2>2. Ok(written).store = written /\ written.enabled = be.enabled
        BY <1>1 DEF Ok, Stores
    <2>3. \/ LibCall(Ok(written), {be, written}, next, Abort)
          \/ (py' = next \/ py' = Abort) /\ UNCHANGED <<be, faults, kills>>
        BY <1>7 DEF DefaultsSet
    <2> HIDE DEF written, next
    <2>4. CASE LibCall(Ok(written), {be, written}, next, Abort)
        <3>1. \A b \in {be, written} : b.enabled = TRUE => g
            BY <2>2
        <3>2. Ok(written).store.enabled = TRUE => g
            BY <2>2
        <3> QED  BY <2>1, <2>4, <3>1, <3>2, <1>2, LibCallQuiet
    <2>5. CASE (py' = next \/ py' = Abort) /\ UNCHANGED <<be, faults, kills>>
        BY <2>1, <2>5, <1>2
    <2> QED  BY <2>3, <2>4, <2>5
<1>8. CASE DefaultsEnable
    <2>1. At("setDefaults", "setting") /\ py.opts # <<>>
        BY <1>8 DEF DefaultsEnable, At
    <2>2. py.was \in BOOLEAN /\ (py.was = TRUE => g)
        BY <1>1 DEF Processes, Quiet
    <2>3. CASE py.was
        <3>1. Switch(TRUE, NextOption)
            BY <2>3, <1>8 DEF DefaultsEnable
        <3>2. TRUE \in BOOLEAN /\ (TRUE = TRUE => g)
            BY <2>2, <2>3
        <3> QED  BY <3>1, <3>2, <2>1, <1>2, SwitchQuiet
    <2>4. CASE ~py.was
        BY <2>1, <2>4, <1>2, <1>8 DEF DefaultsEnable
    <2> QED  BY <2>3, <2>4
<1>9. CASE SetModules
    <2> DEFINE new == [be EXCEPT !.modules = Arg]
    <2>1. py.opts # <<>> /\ LibCall(Ok(new), {be}, NextOption, Abort)
        BY <1>9 DEF SetModules, At
    <2>2. Ok(new).store = new /\ new.enabled = be.enabled
        BY <1>1 DEF Ok, Stores
    <2>3. Ok(new).store.enabled = TRUE => g
        BY <2>2
    <2>4. \A b \in {be} : b.enabled = TRUE => g
        OBVIOUS
    <2> HIDE DEF new
    <2> QED  BY <2>1, <2>3, <2>4, <1>2, LibCallQuiet
<1>10. CASE ResetDefaults
    <2> DEFINE all     == Loaded(Len(DefaultsOrder) + 1)
               broken  == {Loaded(k) : k \in 0..Len(DefaultsOrder)}
               cleared == [py EXCEPT !.pc = "clearing", !.left = NumRules(be)]
    <2>1. LibCall(Ok(all), broken, cleared, cleared)
        BY <1>10 DEF ResetDefaults
    <2>2. \A k : Loaded(k).enabled = be.enabled
        BY <1>1 DEF Loaded, Stores
    <2>3. Ok(all).store.enabled = be.enabled
        BY <2>2 DEF Ok
    <2>4. \A b \in broken : b.enabled = TRUE => g
        BY <2>2
    <2>5. Quiet(cleared, g)
        BY QuietNext
    <2> HIDE DEF all, broken, cleared
    <2> QED  BY <2>1, <2>3, <2>4, <2>5, LibCallQuiet
<1>11. CASE ResetWipe
    <2> DEFINE broken == {be, [be EXCEPT !.enabled = FALSE]}
    <2>1. py.opts # <<>> /\ LibCall(Ok(ResetStore(be)), broken, NextOption, Abort)
        BY <1>11 DEF ResetWipe, At
    <2>2. Ok(ResetStore(be)).store.enabled = FALSE
        BY DEF Ok, ResetStore
    <2>3. \A b \in broken : b.enabled = TRUE => g
        BY <1>1 DEF Stores
    <2> HIDE DEF broken
    <2> QED  BY <2>1, <2>2, <2>3, <1>2, LibCallQuiet
<1>12. CASE Query
    <2>1. PICK part \in Parts :
             At(part, "start") /\ LibCall(Ok(be), {be}, [NextOption EXCEPT !.out = @ \cup {part}], Abort)
        BY <1>12 DEF Query
    <2> DEFINE next == [NextOption EXCEPT !.out = @ \cup {part}]
    <2>2. Quiet(next, g)
        BY <2>1, QuietNext DEF At
    <2>3. Ok(be).store.enabled = TRUE => g
        BY DEF Ok
    <2>4. \A b \in {be} : b.enabled = TRUE => g
        OBVIOUS
    <2> HIDE DEF next
    <2> QED  BY <2>1, <2>2, <2>3, <2>4, <1>2, LibCallQuiet DEF next
<1>13. CASE Exit
    BY <1>13, QuietEnd DEF Exit
<1>14. CASE Kill
    BY <1>14, QuietEnd DEF Kill
<1> QED  BY <1>3, <1>4, <1>5, <1>6, <1>7, <1>8, <1>9, <1>10, <1>11, <1>12, <1>13, <1>14

\* Who the current call may enable the firewall for.
MayEnable == began.enabled = TRUE \/ (call.cmd = "setStatus" /\ call.arg = TRUE)

\* The inductive invariant: while no process is needed there is none; during
\* a call, neither the store nor the process says on unless the call may.
EnableInv ==
    /\ TypeInv
    /\ call.cmd = "setStatus" => call.arg \in BOOLEAN
    /\ call.phase \in {"none", "reply"} => py = NoProc
    /\ call.phase # "none" => (be.enabled = TRUE => MayEnable) /\ Quiet(py, MayEnable)

\* A command line that is not setStatus's never says on.
LEMMA CommandsQuiet ==
    ASSUME NEW g
    PROVE  /\ \A cmd, arg : Quiet(Process(Queries(SecondParts(cmd, arg))), g)
           /\ \A cmd \in Cmds \ {"query"} : \A arg :
                ArgOK(cmd, arg) /\ (cmd = "setStatus" /\ arg = TRUE => g)
                  => Quiet(Process(FirstOpts(cmd, arg)), g)
<1>1. ASSUME NEW opts, \A i \in 1..Len(opts) : opts[i].name = "setEnabled" /\ opts[i].arg = TRUE => g
      PROVE  Quiet(Process(opts), g)
    BY <1>1 DEF Quiet, Process, NoProc
<1>2. ASSUME NEW cmd, NEW arg
      PROVE  Quiet(Process(Queries(SecondParts(cmd, arg))), g)
    <2> DEFINE parts == SecondParts(cmd, arg)
    <2>1. parts \in Seq(Parts)
        <3>1. /\ <<"status", "defaults", "list", "modules">> \in Seq(Parts)
              /\ <<"status", "list">> \in Seq(Parts) /\ <<"status">> \in Seq(Parts)
              /\ <<"modules">> \in Seq(Parts) /\ <<"list">> \in Seq(Parts)
            BY DEF Parts
        <3>2. <<"defaults">> \o <<"list">> \in Seq(Parts) /\ <<"defaults">> \o <<>> \in Seq(Parts)
            BY DEF Parts
        <3> QED  BY <3>1, <3>2 DEF SecondParts, EveryPart
    <2> HIDE DEF parts
    <2>2. DOMAIN parts = 1..Len(parts) /\ Len(parts) \in Nat
        BY <2>1
    <2>3. Len(Queries(parts)) = Len(parts)
        BY <2>2 DEF Queries
    <2>4. \A i \in 1..Len(parts) : Queries(parts)[i].name # "setEnabled"
        BY <2>1, <2>2 DEF Queries, Opt, Parts
    <2> HIDE DEF Queries
    <2> QED  BY <2>3, <2>4, <1>1 DEF parts
<1>3. ASSUME NEW rules \in Seq(Rules \cup Shown)
      PROVE  \A i \in 1..Len(Adds(rules)) : Adds(rules)[i].name # "setEnabled"
    <2>1. DOMAIN rules = 1..Len(rules) /\ Len(rules) \in Nat
        OBVIOUS
    <2>2. Len(Adds(rules)) = Len(rules)
        BY <2>1 DEF Adds
    <2> QED  BY <2>1, <2>2 DEF Adds, Opt
<1>4. ASSUME NEW p, ArgOK("setProfile", p)
      PROVE  \A i \in 1..Len(ProfileOpts(p)) : ProfileOpts(p)[i].name # "setEnabled"
    <2> DEFINE Other(s) == s \in Seq(Options) /\ \A i \in 1..Len(s) : s[i].name # "setEnabled"
               first == <<Opt("clear", 0)>>
               a == IF "rules" \in DOMAIN p THEN first \o Adds(p.rules) ELSE <<>>
               b == IF "defaults" \in DOMAIN p THEN <<Opt("setDefaults", p.defaults)>> ELSE <<>>
               c == IF "modules" \in DOMAIN p THEN <<Opt("setModules", p.modules)>> ELSE <<>>
    <2>1. ASSUME NEW s, NEW t, Other(s), Other(t)
          PROVE  Other(s \o t)
        <3>1. /\ s \o t \in Seq(Options) /\ Len(s \o t) = Len(s) + Len(t)
              /\ Len(s) \in Nat /\ Len(t) \in Nat
            BY <2>1
        <3>2. ASSUME NEW i \in 1..Len(s \o t)
              PROVE  (s \o t)[i].name # "setEnabled"
            <4>1. CASE i <= Len(s)
                BY <4>1, <3>1, <2>1
            <4>2. CASE i > Len(s)
                <5>1. (s \o t)[i] = t[i - Len(s)] /\ i - Len(s) \in 1..Len(t)
                    BY <4>2, <3>1, <2>1
                <5> QED  BY <5>1, <2>1
            <4> QED  BY <4>1, <4>2, <3>1
        <3> QED  BY <3>1, <3>2
    <2>2. Other(<<>>)
        OBVIOUS
    <2>3. ASSUME NEW name \in {"clear", "setDefaults", "setModules"}, NEW arg, Opt(name, arg) \in Options
          PROVE  Other(<<Opt(name, arg)>>)
        BY <2>3 DEF Opt
    <2>4. Opt("clear", 0) \in Options
        BY DEF Opt, Options
    <2>5. "rules" \in DOMAIN p => Other(Adds(p.rules))
        <3> SUFFICES ASSUME "rules" \in DOMAIN p PROVE Other(Adds(p.rules))
            OBVIOUS
        <3>1. p.rules \in Seq(Rules \cup Shown)
            BY <1>4 DEF ArgOK
        <3>2. /\ "addRules" \in Cmds \ {"query"} /\ ArgOK("addRules", p.rules)
              /\ FirstOpts("addRules", p.rules) = Adds(p.rules)
            BY <3>1 DEF Cmds, ArgOK, FirstOpts
        <3>3. Adds(p.rules) \in Seq(Options)
            BY <3>2, CommandLines
        <3> QED  BY <3>1, <3>3, <1>3
    <2>6. "defaults" \in DOMAIN p => Opt("setDefaults", p.defaults) \in Options
        BY <1>4 DEF ArgOK, Opt, Options
    <2>7. "modules" \in DOMAIN p => Opt("setModules", p.modules) \in Options
        BY <1>4 DEF ArgOK, Opt, Options
    <2>8. Other(first)
        BY <2>3, <2>4
    <2> HIDE DEF Other, first
    <2>9. Other(a) /\ Other(b) /\ Other(c)
        BY <2>1, <2>2, <2>3, <2>5, <2>6, <2>7, <2>8
    <2>10. ProfileOpts(p) = (a \o b) \o c
        BY DEF ProfileOpts, first
    <2> HIDE DEF a, b, c
    <2>11. Other(ProfileOpts(p))
        BY <2>1, <2>9, <2>10
    <2> QED  BY <2>11 DEF Other
<1>5. ASSUME NEW cmd \in Cmds \ {"query"}, NEW arg, ArgOK(cmd, arg),
             cmd = "setStatus" /\ arg = TRUE => g
      PROVE  Quiet(Process(FirstOpts(cmd, arg)), g)
    <2>1. CASE cmd = "setProfile"
        <3>1. FirstOpts(cmd, arg) = ProfileOpts(arg)
            BY <2>1 DEF FirstOpts
        <3> QED  BY <3>1, <2>1, <1>4, <1>5, <1>1
    <2>2. CASE cmd = "addRules"
        <3>1. FirstOpts(cmd, arg) = Adds(arg) /\ arg \in Seq(Rules \cup Shown)
            BY <2>2, <1>5 DEF FirstOpts, ArgOK
        <3> QED  BY <3>1, <1>3, <1>1
    <2>3. CASE cmd \notin {"setProfile", "addRules"}
        <3> DEFINE name == CASE cmd = "setStatus"  -> "setEnabled"
                             [] cmd = "removeRule" -> "remove"
                             [] cmd = "moveRule"   -> "move"
                             [] cmd = "editRule"   -> "update"
                             [] OTHER              -> cmd
                   val == IF cmd = "reset" THEN 0 ELSE arg
        <3>1. FirstOpts(cmd, arg) = <<Opt(name, val)>>
            BY <2>3 DEF FirstOpts, Cmds
        <3>2. name = "setEnabled" => cmd = "setStatus" /\ val = arg
            BY DEF Cmds
        <3> HIDE DEF name, val
        <3>3. Opt(name, val).name = name /\ Opt(name, val).arg = val
            BY DEF Opt
        <3>4. \A i \in 1..Len(<<Opt(name, val)>>) :
                 <<Opt(name, val)>>[i].name = "setEnabled" /\ <<Opt(name, val)>>[i].arg = TRUE => g
            BY <3>2, <3>3, <1>5
        <3> QED  BY <3>1, <3>4, <1>1
    <2> QED  BY <2>1, <2>2, <2>3
<1> QED  BY <1>2, <1>5

\* A request starts with a quiet process.
LEMMA EnableRequest ==
    ASSUME EnableInv, NEW cmd \in Cmds, NEW arg, ArgOK(cmd, arg), Request(cmd, arg)
    PROVE  EnableInv'
<1> DEFINE g == be.enabled = TRUE \/ (cmd = "setStatus" /\ arg = TRUE)
           request == [NoCall EXCEPT !.cmd = cmd, !.arg = arg]
<1>1. TypeInv' /\ py = NoProc
    <2>1. TypeInv /\ call.phase = "none" /\ py = NoProc
        BY DEF EnableInv, Request
    <2> QED  BY <2>1, RequestType
<1>2. be' = be /\ began' = be /\ Submit(cmd, arg)
    BY DEF Request
<1>3. \A phase : /\ [request EXCEPT !.phase = phase].phase = phase
                 /\ [request EXCEPT !.phase = phase].cmd = cmd
                 /\ [request EXCEPT !.phase = phase].arg = arg
    BY DEF NoCall
<1>4. PICK phase \in {"first", "second", "reply"} :
         /\ call' = [request EXCEPT !.phase = phase]
         /\ phase = "reply" => py' = NoProc
         /\ Quiet(py', g)
    <2>1. CASE cmd = "query"
        <3>1. /\ call' = [request EXCEPT !.phase = "second"]
              /\ py' = Process(Queries(SecondParts(cmd, arg)))
            BY <1>2, <2>1 DEF Submit
        <3>2. Quiet(Process(Queries(SecondParts(cmd, arg))), g)
            BY CommandsQuiet
        <3> HIDE DEF g, request
        <3> QED  BY <3>1, <3>2
    <2>2. CASE cmd # "query" /\ FirstOpts(cmd, arg) = <<>>
        <3>1. call' = [request EXCEPT !.phase = "reply"] /\ py' = NoProc
            BY <1>1, <1>2, <2>2 DEF Submit
        <3> HIDE DEF g, request
        <3> QED  BY <3>1, QuietEnd
    <2>3. CASE cmd # "query" /\ FirstOpts(cmd, arg) # <<>>
        <3>1. call' = [request EXCEPT !.phase = "first"] /\ py' = Process(FirstOpts(cmd, arg))
            BY <1>2, <2>3 DEF Submit
        <3>2. cmd = "setStatus" /\ arg = TRUE => g
            OBVIOUS
        <3> HIDE DEF g, request
        <3>3. Quiet(Process(FirstOpts(cmd, arg)), g)
            BY <2>3, <3>2, CommandsQuiet
        <3> QED  BY <3>1, <3>3
    <2> QED  BY <2>1, <2>2, <2>3
<1>5. call'.phase = phase /\ call'.cmd = cmd /\ call'.arg = arg
    BY <1>3, <1>4
<1>6. MayEnable' = g
    BY <1>2, <1>5 DEF MayEnable
<1>7. be'.enabled = TRUE => g
    BY <1>2
<1>8. Quiet(py', g)
    BY <1>4
<1>9. cmd = "setStatus" => arg \in BOOLEAN
    BY DEF ArgOK
<1>10. call'.phase \in {"none", "reply"} => py' = NoProc
    BY <1>4, <1>5
<1> HIDE DEF g, request
<1> QED  BY <1>1, <1>5, <1>6, <1>7, <1>8, <1>9, <1>10 DEF EnableInv

\* A step of the helpers keeps to what the call may.
LEMMA EnableServe ==
    ASSUME PyHelperAssumption, EnableInv, Serve
    PROVE  EnableInv'
<1> DEFINE g == MayEnable
<1>1. HelperStep /\ began' = began /\ TypeInv /\ PyOK
    BY DEF Serve, EnableInv, TypeInv, HelperOK
<1>2. /\ HelperOK' /\ call'.cmd = call.cmd /\ call'.arg = call.arg
      /\ call'.cmd = "setStatus" => call'.arg \in BOOLEAN
    <2>1. HelperOK' /\ call'.cmd = call.cmd /\ call'.arg = call.arg
        BY <1>1, HelperStepType DEF TypeInv
    <2> QED  BY <2>1 DEF EnableInv
<1>3. TypeInv' /\ MayEnable' = g
    BY <1>1, <1>2 DEF TypeInv, MayEnable
<1>4. call.phase # "none" => (be.enabled = TRUE => g) /\ Quiet(py, g)
    BY DEF EnableInv
<1> HIDE DEF g
<1>5. SUFFICES /\ call'.phase \in {"none", "reply"} => py' = NoProc
               /\ (be'.enabled = TRUE => g) /\ Quiet(py', g)
    BY <1>2, <1>3 DEF EnableInv
<1>6. CASE (PyStep \/ Kill) /\ UNCHANGED call
    <2>1. py.state = "running"
        BY <1>6 DEF PyStep, Kill, At, AddRule, UpdateDelete, UpdateInsert, UpdateRestore, RemoveRule,
            MoveDelete, MoveInsert, ClearCount, ClearOne, ClearDone, SetEnabled, DefaultsDisable,
            DefaultsSet, DefaultsEnable, SetModules, ResetDefaults, ResetWipe, Query, Exit
    <2>2. py # NoProc
        BY <2>1 DEF NoProc
    <2>3. call.phase \notin {"none", "reply"} /\ call'.phase = call.phase
        BY <1>6, <2>2 DEF EnableInv
    <2>4. (be.enabled = TRUE => g) /\ Quiet(py, g)
        BY <1>4, <2>3
    <2>5. CASE \/ AddRule \/ UpdateDelete \/ UpdateInsert \/ UpdateRestore \/ RemoveRule
               \/ MoveDelete \/ MoveInsert \/ ClearOne
        <3>1. (be'.enabled = TRUE => g) /\ Quiet(py', g)
            BY PyHelperAssumption, <1>1, <2>4, <2>5, RuleStepQuiet
        <3> QED  BY <2>3, <3>1
    <2>6. CASE \/ ClearCount \/ ClearDone \/ SetEnabled \/ DefaultsDisable \/ DefaultsSet
               \/ DefaultsEnable \/ SetModules \/ ResetDefaults \/ ResetWipe \/ Query \/ Exit \/ Kill
        <3>1. (be'.enabled = TRUE => g) /\ Quiet(py', g)
            BY PyHelperAssumption, <1>1, <2>4, <2>6, OtherStepQuiet
        <3> QED  BY <2>3, <3>1
    <2> QED  BY <1>6, <2>5, <2>6 DEF PyStep
<1>7. CASE FirstEnded
    <2>1. be' = be /\ call.phase # "none"
        BY <1>7 DEF FirstEnded
    <2>2. CASE py' = SecondRun /\ call' = [call EXCEPT !.phase = "second"]
        <3>1. Quiet(py', g)
            BY <2>2, CommandsQuiet DEF SecondRun
        <3>2. call'.phase = "second"
            BY <1>1, <2>2 DEF TypeInv, HelperOK, CallOK, Calls
        <3> QED  BY <2>1, <3>1, <3>2, <1>4
    <2>3. CASE py' = NoProc
        BY <2>1, <2>3, <1>4, QuietEnd
    <2> QED  BY <2>2, <2>3, <1>7 DEF FirstEnded
<1>8. CASE SecondEnded
    <2>1. be' = be /\ call.phase # "none" /\ py' = NoProc
        BY <1>8 DEF SecondEnded
    <2> QED  BY <2>1, <1>4, QuietEnd
<1> QED  BY <1>1, <1>6, <1>7, <1>8 DEF HelperStep

\* The invariant holds at the start and is kept by every step.
LEMMA EnableInductive ==
    ASSUME PyHelperAssumption, StoreCallsAssumption
    PROVE  /\ Init => EnableInv
           /\ EnableInv /\ [Next]_vars => EnableInv'
<1>1. ASSUME Init PROVE EnableInv
    <2>1. TypeInv /\ py = NoProc /\ call.phase = "none" /\ call.cmd = "none"
        BY <1>1, TypeInit DEF Init, NoCall
    <2> QED  BY <2>1 DEF EnableInv
<1>2. ASSUME EnableInv, [Next]_vars PROVE EnableInv'
    <2>1. TypeInv /\ TypeInv'
        BY <1>2, TypeStep DEF EnableInv
    <2>2. CASE \/ RequestQuery \/ RequestSetStatus \/ RequestSetDefaults \/ RequestSetModules
               \/ RequestSetProfile \/ RequestAddRules \/ RequestRemoveRule \/ RequestMoveRule
               \/ RequestEditRule \/ RequestReset
        BY <1>2, <2>1, <2>2, Requests, EnableRequest
    <2>3. CASE Serve
        BY <1>2, <2>3, EnableServe
    <2>4. CASE TakeReply
        <3>1. py' = py /\ py = NoProc /\ call' = NoCall
            BY <2>4, <1>2 DEF TakeReply, EnableInv
        <3>2. call'.phase = "none" /\ call'.cmd = "none"
            BY <3>1 DEF NoCall
        <3> QED  BY <2>1, <3>1, <3>2 DEF EnableInv
    <2>5. CASE UNCHANGED vars
        <3>1. be' = be /\ py' = py /\ call' = call /\ began' = began
            BY <2>5 DEF vars
        <3> QED  BY <1>2, <2>1, <3>1 DEF EnableInv, MayEnable, Quiet
    <2> QED  BY <1>2, <2>2, <2>3, <2>4, <2>5 DEF Next
<1> QED  BY <1>1, <1>2

\* No call but setStatus(true) ever enables a disabled firewall: not the
\* re-enabling in setDefaults and reset, wherever a library call raises or the
\* process dies (setDefaults, reset of kcm_ufw_helper.py).
THEOREM OnlySetStatusEnablesAlways == Spec => []OnlySetStatusEnables
<1>1. Init => EnableInv
    BY EnableInductive, PyHelperAssumption, StoreCallsAssumption
<1>2. EnableInv /\ [Next]_vars => EnableInv'
    BY EnableInductive, PyHelperAssumption, StoreCallsAssumption
<1>3. EnableInv => OnlySetStatusEnables
    <2> SUFFICES ASSUME EnableInv, call.phase # "none", be.enabled
                 PROVE  began.enabled \/ (call.cmd = "setStatus" /\ call.arg)
        BY DEF OnlySetStatusEnables
    <2>1. be.enabled \in BOOLEAN
        BY DEF EnableInv, TypeInv, HelperOK, PyOK, Good, Stores
    <2>2. MayEnable
        BY <2>1 DEF EnableInv
    <2> QED  BY <2>2 DEF MayEnable
<1>4. Spec => []EnableInv
    BY <1>1, <1>2, PTL DEF Spec
<1> QED  BY <1>3, <1>4, PTL

-----------------------------------------------------------------------------
(* The rules that a call is not about *)

\* A place of the old list for each place of the new one that is not about
\* specs, and the other way round, in the same order.
LEMMA SamePlaces ==
    ASSUME NEW list, NEW new, NEW specs, NEW to,
           \A i \in DOMAIN list : list[i].spec \notin specs =>
               to[i] \in DOMAIN new /\ new[to[i]] = list[i],
           \A j \in DOMAIN new : new[j].spec \notin specs =>
               \E i \in DOMAIN list : to[i] = j /\ list[i].spec \notin specs,
           \A i, j \in DOMAIN list : list[i].spec \notin specs /\ list[j].spec \notin specs =>
               (i <= j <=> to[i] <= to[j])
    PROVE  SameOthers(new, list, specs)
<1> SUFFICES ASSUME NEW r, NEW s, r.spec \notin specs, s.spec \notin specs
             PROVE  Precedes(new, r, s) <=> Precedes(list, r, s)
    BY DEF SameOthers
<1>1. ASSUME Precedes(list, r, s) PROVE Precedes(new, r, s)
    BY <1>1 DEF Precedes
<1>2. ASSUME Precedes(new, r, s) PROVE Precedes(list, r, s)
    <2>1. PICK i \in DOMAIN new, j \in DOMAIN new : i <= j /\ new[i] = r /\ new[j] = s
        BY <1>2 DEF Precedes
    <2>2. PICK k \in DOMAIN list : to[k] = i /\ list[k].spec \notin specs
        BY <2>1
    <2>3. PICK l \in DOMAIN list : to[l] = j /\ list[l].spec \notin specs
        BY <2>1
    <2> QED  BY <2>1, <2>2, <2>3 DEF Precedes
<1> QED  BY <1>1, <1>2

\* Putting a rule into a list moves no other rule past another.
LEMMA PutOthers ==
    ASSUME NEW list \in Seq(Rules), NEW r \in Rules, NEW specs, r.spec \in specs,
           NEW new, PutIn(list, new, r)
    PROVE  SameOthers(new, list, specs)
<1> DEFINE at == Place(list, r.spec)
<1>1. DOMAIN list = 1..Len(list) /\ Len(list) \in Nat
    OBVIOUS
<1>2. at \in 0..Len(list) /\ (at # 0 => list[at].spec = r.spec)
    BY PlaceFact
<1>3. CASE new = list
    BY <1>3 DEF SameOthers
<1>4. ASSUME NEW pos \in 0..Len(list) + 1, new = Put(list, r, pos), new # list
      PROVE  SameOthers(new, list, specs)
    <2>1. new = IF at # 0 THEN IF pos = 0 THEN ReplaceAt(list, at, r) ELSE list
                ELSE IF pos = 0 THEN Append(list, r) ELSE InsertAt(list, pos, r)
        BY <1>4 DEF Put
    <2> HIDE DEF at
    <2>2. CASE at # 0
        <3>1. /\ DOMAIN new = DOMAIN list
              /\ \A i \in DOMAIN list : i # at => new[i] = list[i]
              /\ new[at] = r
            BY <1>1, <1>2, <1>4, <2>1, <2>2 DEF ReplaceAt
        <3> DEFINE to == [i \in DOMAIN list |-> i]
        <3>2. \A i \in DOMAIN list : list[i].spec \notin specs =>
                 to[i] \in DOMAIN new /\ new[to[i]] = list[i]
            BY <1>2, <2>2, <3>1
        <3>3. \A j \in DOMAIN new : new[j].spec \notin specs =>
                 \E i \in DOMAIN list : to[i] = j /\ list[i].spec \notin specs
            BY <3>1
        <3>4. \A i, j \in DOMAIN list : i <= j <=> to[i] <= to[j]
            OBVIOUS
        <3> HIDE DEF to
        <3> QED  BY <3>2, <3>3, <3>4, SamePlaces
    <2>3. CASE at = 0 /\ pos = 0
        <3>1. /\ DOMAIN new = 1..Len(list) + 1
              /\ \A i \in DOMAIN list : new[i] = list[i]
              /\ new[Len(list) + 1] = r
            BY <1>1, <2>1, <2>3
        <3> DEFINE to == [i \in DOMAIN list |-> i]
        <3>2. \A i \in DOMAIN list : to[i] \in DOMAIN new /\ new[to[i]] = list[i]
            BY <1>1, <3>1
        <3>3. \A j \in DOMAIN new : new[j].spec \notin specs =>
                 \E i \in DOMAIN list : to[i] = j /\ list[i].spec \notin specs
            BY <1>1, <3>1
        <3>4. \A i, j \in DOMAIN list : i <= j <=> to[i] <= to[j]
            OBVIOUS
        <3> HIDE DEF to
        <3> QED  BY <3>2, <3>3, <3>4, SamePlaces
    <2>4. CASE at = 0 /\ pos # 0
        <3>1. new \in Seq(Rules) /\ Inserted(new, list, pos, r) /\ pos \in 1..Len(list) + 1
            BY <1>1, <2>1, <2>4, InsertAtFact
        <3>2. /\ DOMAIN new = 1..Len(list) + 1
              /\ \A j \in 1..Len(list) + 1 :
                   new[j] = IF j < pos THEN list[j] ELSE IF j = pos THEN r ELSE list[j - 1]
            BY <3>1 DEF Inserted
        <3> DEFINE to == [i \in DOMAIN list |-> IF i < pos THEN i ELSE i + 1]
        <3>3. \A i \in DOMAIN list : to[i] \in DOMAIN new /\ new[to[i]] = list[i]
            BY <1>1, <3>1, <3>2
        <3>4. ASSUME NEW j \in DOMAIN new, new[j].spec \notin specs
              PROVE  \E i \in DOMAIN list : to[i] = j /\ list[i].spec \notin specs
            <4>1. CASE j < pos
                <5>1. j \in DOMAIN list /\ to[j] = j /\ new[j] = list[j]
                    BY <1>1, <3>1, <3>2, <4>1
                <5> QED  BY <3>4, <5>1
            <4>2. CASE j > pos
                <5>1. j - 1 \in DOMAIN list /\ to[j - 1] = j /\ new[j] = list[j - 1]
                    BY <1>1, <3>1, <3>2, <4>2
                <5> QED  BY <3>4, <5>1
            <4> QED  BY <1>1, <3>1, <3>2, <3>4, <4>1, <4>2
        <3>5. \A i, j \in DOMAIN list : i <= j <=> to[i] <= to[j]
            BY <1>1, <3>1
        <3> HIDE DEF to
        <3> QED  BY <3>3, <3>4, <3>5, SamePlaces
    <2> QED  BY <1>2, <2>2, <2>3, <2>4
<1> QED  BY <1>3, <1>4 DEF PutIn

\* Nor does removing one.
LEMMA RemoveOthers ==
    ASSUME NEW list \in Seq(Rules), NEW n \in 1..Len(list), NEW specs, list[n].spec \in specs
    PROVE  SameOthers(RemoveAt(list, n), list, specs)
<1> DEFINE new == RemoveAt(list, n)
           to  == [i \in DOMAIN list |-> IF i < n THEN i ELSE i - 1]
<1>1. DOMAIN list = 1..Len(list) /\ Len(list) \in Nat
    OBVIOUS
<1>2. /\ DOMAIN new = 1..Len(list) - 1
      /\ \A j \in 1..Len(list) - 1 : new[j] = IF j < n THEN list[j] ELSE list[j + 1]
    <2>1. /\ new \in Seq(Rules) /\ Len(new) = Len(list) - 1
          /\ \A j \in 1..Len(list) - 1 : new[j] = IF j < n THEN list[j] ELSE list[j + 1]
        BY RemoveAtFact
    <2> HIDE DEF new
    <2> QED  BY <2>1
<1> HIDE DEF new
<1>3. ASSUME NEW i \in DOMAIN list, list[i].spec \notin specs
      PROVE  to[i] \in DOMAIN new /\ new[to[i]] = list[i] /\ i # n
    BY <1>1, <1>2, <1>3
<1>4. ASSUME NEW j \in DOMAIN new, new[j].spec \notin specs
      PROVE  \E i \in DOMAIN list : to[i] = j /\ list[i].spec \notin specs
    <2>1. CASE j < n
        <3>1. j \in DOMAIN list /\ to[j] = j /\ new[j] = list[j]
            BY <1>1, <1>2, <2>1
        <3> QED  BY <1>4, <3>1
    <2>2. CASE j >= n
        <3>1. j + 1 \in DOMAIN list /\ to[j + 1] = j /\ new[j] = list[j + 1]
            BY <1>1, <1>2, <2>2
        <3> QED  BY <1>4, <3>1
    <2> QED  BY <1>1, <1>2, <2>1, <2>2
<1>5. ASSUME NEW i \in DOMAIN list, NEW j \in DOMAIN list,
             list[i].spec \notin specs, list[j].spec \notin specs
      PROVE  i <= j <=> to[i] <= to[j]
    <2>1. i # n /\ j # n
        BY <1>5
    <2> QED  BY <1>1, <2>1
<1> HIDE DEF to
<1>6. SameOthers(new, list, specs)
    BY <1>3, <1>4, <1>5, SamePlaces
<1> QED  BY <1>6 DEF new

\* Both lists of a store.
SameRules(b, old, specs) == SameOthers(b.v4, old.v4, specs) /\ SameOthers(b.v6, old.v6, specs)

\* Keeping the order of the other rules is reflexive and transitive.
LEMMA SameRulesOrder ==
    ASSUME NEW specs
    PROVE  /\ \A b, c : c.v4 = b.v4 /\ c.v6 = b.v6 => SameRules(c, b, specs)
           /\ \A b, c, d : SameRules(d, c, specs) /\ SameRules(c, b, specs) => SameRules(d, b, specs)
BY DEF SameRules, SameOthers

\* A call that inserts or deletes a rule about specs leaves the others alone.
LEMMA RuleChangeOthers ==
    ASSUME NEW b, Good(b), NEW specs
    PROVE  /\ \A r, family : \A pos \in Nat :
                r.spec \in Specs /\ r.act \in Acts /\ Suits(family, r.spec) /\ r.spec \in specs
                => SameRules(InsertRule(b, r, pos, family).store, b, specs)
           /\ \A n : (n \in 1..NumRules(b) => RuleAt(b, n).spec \in specs)
                => SameRules(DeleteRule(b, n).store, b, specs)
<1>1. b.v4 \in Seq(Rules) /\ b.v6 \in Seq(Rules)
    BY DEF Good, Sound
<1>2. ASSUME NEW r, NEW family, NEW pos \in Nat,
             r.spec \in Specs, r.act \in Acts, Suits(family, r.spec), r.spec \in specs
      PROVE  SameRules(InsertRule(b, r, pos, family).store, b, specs)
    <2> DEFINE rule == [spec |-> r.spec, act |-> r.act]
               c    == InsertRule(b, r, pos, family).store
    <2>1. rule \in Rules /\ rule.spec \in specs
        BY <1>2 DEF Rules
    <2>2. PutIn(b.v4, c.v4, rule) /\ PutIn(b.v6, c.v6, rule)
        BY <1>2, InsertRuleGood
    <2> HIDE DEF rule, c
    <2>3. SameRules(c, b, specs)
        BY <1>1, <2>1, <2>2, PutOthers DEF SameRules
    <2> QED  BY <2>3 DEF c
<1>3. ASSUME NEW n, n \in 1..NumRules(b) => RuleAt(b, n).spec \in specs
      PROVE  SameRules(DeleteRule(b, n).store, b, specs)
    <2>1. CASE n \notin 1..NumRules(b)
        BY <2>1, SameRulesOrder DEF DeleteRule, Raised
    <2>2. CASE n \in 1..NumRules(b)
        <3>1. CASE /\ n \in 1..Len(b.v4) /\ b.v4[n].spec \in specs
                   /\ DeleteRule(b, n).store = [b EXCEPT !.v4 = RemoveAt(b.v4, n)]
            <4>1. SameOthers(RemoveAt(b.v4, n), b.v4, specs)
                BY <1>1, <3>1, RemoveOthers
            <4>2. /\ [b EXCEPT !.v4 = RemoveAt(b.v4, n)].v4 = RemoveAt(b.v4, n)
                  /\ [b EXCEPT !.v4 = RemoveAt(b.v4, n)].v6 = b.v6
                BY NewList
            <4> QED  BY <3>1, <4>1, <4>2 DEF SameRules, SameOthers
        <3>2. CASE /\ n - Num4(b) \in 1..Len(b.v6) /\ b.v6[n - Num4(b)].spec \in specs
                   /\ DeleteRule(b, n).store = [b EXCEPT !.v6 = RemoveAt(b.v6, n - Num4(b))]
            <4> DEFINE new == RemoveAt(b.v6, n - Num4(b))
            <4>1. SameOthers(new, b.v6, specs)
                BY <1>1, <3>2, RemoveOthers
            <4>2. [b EXCEPT !.v6 = new].v6 = new /\ [b EXCEPT !.v6 = new].v4 = b.v4
                BY NewList
            <4> QED  BY <3>2, <4>1, <4>2 DEF SameRules, SameOthers
        <3> QED  BY <1>3, <2>2, <3>1, <3>2, DeleteRuleFact
    <2> QED  BY <2>1, <2>2
<1> QED  BY <1>2, <1>3

\* A process whose options are about specs only, as its store b stands when
\* they start; options that number a rule are alone on their command line.
Numbering == {"update", "remove", "move"}
Minds(p, b, specs) ==
    /\ \A i \in 1..Len(p.opts) :
         /\ p.opts[i].name \notin {"clear", "reset"}
         /\ p.opts[i].name \in {"add", "update"} => p.opts[i].arg.spec \in specs
         /\ p.opts[i].name \in Numbering => Len(p.opts) = 1
    /\ p.pc = "start" /\ p.opts # <<>> =>
         LET first == p.opts[1]
             About(n) == n \in 1..NumRules(b) => RuleAt(b, n).spec \in specs
         IN  /\ first.name = "update" => About(first.arg.pos)
             /\ first.name = "remove" => About(first.arg)
             /\ first.name = "move" => About(first.arg.from)
    /\ p.pc \in {"insert", "restore"} => p.held.spec \in specs

\* What is left of a command line is about the same specs.
LEMMA MindsFollows ==
    ASSUME PyOK, NEW b, NEW specs, Minds(py, b, specs), py.opts # <<>>, NEW p, Follows(p),
           p.opts = py.opts => p.pc # "start" \/ p.opts[1].name \notin Numbering,
           p.pc \in {"insert", "restore"} => p.held.spec \in specs, NEW c
    PROVE  Minds(p, c, specs)
<1>1. py.opts \in Seq(Options) /\ Len(py.opts) \in Nat /\ Len(py.opts) # 0
    BY DEF PyOK, ProcOK, Processes
<1>2. CASE p.opts = py.opts
    BY <1>2, <1>1 DEF Minds, Numbering
<1>3. CASE p.opts = Tail(py.opts)
    <2> DEFINE t == Tail(py.opts)
    <2>1. /\ t \in Seq(Options) /\ Len(t) = Len(py.opts) - 1
          /\ \A i \in 1..Len(t) : i + 1 \in 1..Len(py.opts) /\ t[i] = py.opts[i + 1]
        BY <1>1
    <2> HIDE DEF t
    <2>2. p.opts = t
        BY <1>3 DEF t
    <2>3. \A i \in 1..Len(t) :
            /\ t[i].name \notin {"clear", "reset"}
            /\ t[i].name \in {"add", "update"} => t[i].arg.spec \in specs
            /\ t[i].name \notin Numbering
        <3> SUFFICES ASSUME NEW i \in 1..Len(t)
                     PROVE  /\ t[i].name \notin {"clear", "reset"}
                            /\ t[i].name \in {"add", "update"} => t[i].arg.spec \in specs
                            /\ t[i].name \notin Numbering
            OBVIOUS
        <3>1. i + 1 \in 1..Len(py.opts) /\ t[i] = py.opts[i + 1] /\ Len(py.opts) # 1
            BY <1>1, <2>1
        <3> QED  BY <3>1 DEF Minds
    <2>4. t # <<>> => 1 \in 1..Len(t)
        BY <2>1
    <2> QED  BY <2>2, <2>3, <2>4 DEF Minds, Numbering
<1>4. CASE p.opts = <<>>
    BY <1>4 DEF Minds
<1> QED  BY <1>2, <1>3, <1>4 DEF Follows

\* A step that is not of an option that numbers a rule picks up no rule.
LEMMA HoldsNone ==
    ASSUME PyOK, PyStep \/ Kill, py.opts # <<>> => Head(py.opts).name \notin Numbering,
           py'.pc \in {"insert", "restore"}
    PROVE  py'.pc = py.pc /\ py'.held = py.held
<1>1. py \in Processes
    BY DEF PyOK, ProcOK
<1>2. NextOption.pc = "start" /\ NoProc.pc = "start" /\ Abort.pc = "start" /\ \A how : Ended(how).pc = "start"
    BY DEF NextOption, Process, NoProc, Ended, Abort
<1>3. /\ \A out : [NextOption EXCEPT !.out = out].pc = "start"
      /\ \A how, out : [Ended(how) EXCEPT !.out = out].pc = "start"
    BY DEF NextOption, Process, NoProc, Ended
<1>4. /\ \A left : /\ [py EXCEPT !.left = left].pc = py.pc
                    /\ [py EXCEPT !.left = left].held = py.held
      /\ \A pc, left : [py EXCEPT !.pc = pc, !.left = left].pc = pc
      /\ \A pc : [py EXCEPT !.pc = pc].pc = pc
      /\ \A pc, left, was : [py EXCEPT !.pc = pc, !.left = left, !.was = was].pc = pc
    BY <1>1 DEF Processes
<1>5. ~(UpdateDelete \/ UpdateInsert \/ UpdateRestore \/ RemoveRule \/ MoveDelete \/ MoveInsert)
    BY DEF UpdateDelete, UpdateInsert, UpdateRestore, RemoveRule, MoveDelete, MoveInsert, At, Numbering
<1>6. ASSUME NEW result, NEW broken, NEW returned, NEW raised,
             LibCall(result, broken, returned, raised)
      PROVE  py' = returned \/ py' = raised
    BY <1>6 DEF LibCall
<1>7. ASSUME NEW result, NEW returned, NEW raised, RuleCall(result, returned, raised)
      PROVE  py' = returned \/ py' = raised
    BY <1>7 DEF RuleCall, LibCall
<1>8. ASSUME NEW on, NEW returned, Switch(on, returned)
      PROVE  py' = returned \/ py' = Abort
    BY <1>8 DEF Switch, LibCall
<1> HIDE DEF LibCall, RuleCall, Switch
<1>9. CASE AddRule
    BY <1>2, <1>7, <1>9 DEF AddRule
<1>10. CASE ClearCount \/ ClearDone
    BY <1>2, <1>4, <1>10 DEF ClearCount, ClearDone
<1>11. CASE ClearOne
    <2> DEFINE done == [py EXCEPT !.left = @ - 1]
    <2>1. py' = done \/ py' = Abort
        BY <1>7, <1>11 DEF ClearOne
    <2>2. done.pc = py.pc /\ done.held = py.held
        BY <1>4
    <2> QED  BY <1>2, <2>1, <2>2
<1>12. CASE SetEnabled \/ SetModules
    BY <1>2, <1>6, <1>8, <1>12 DEF SetEnabled, SetModules
<1>13. CASE DefaultsDisable
    <2> DEFINE begun == [py EXCEPT !.pc = "setting", !.left = Len(SettingOrder), !.was = be.enabled]
    <2>1. py' = begun \/ py' = Abort
        BY <1>8, <1>13 DEF DefaultsDisable
    <2>2. begun.pc = "setting"
        BY <1>4
    <2> QED  BY <1>2, <2>1, <2>2
<1>14. CASE DefaultsSet
    <2> DEFINE next == [py EXCEPT !.left = @ - 1]
    <2>1. py' = next \/ py' = Abort
        BY <1>6, <1>14 DEF DefaultsSet
    <2>2. next.pc = py.pc /\ next.held = py.held
        BY <1>4
    <2> QED  BY <1>2, <2>1, <2>2
<1>15. CASE DefaultsEnable
    BY <1>2, <1>8, <1>15 DEF DefaultsEnable
<1>16. CASE ResetDefaults
    <2> DEFINE cleared == [py EXCEPT !.pc = "clearing", !.left = NumRules(be)]
    <2>1. py' = cleared
        BY <1>6, <1>16 DEF ResetDefaults
    <2> QED  BY <1>4, <2>1
<1>17. CASE ResetWipe
    BY <1>2, <1>6, <1>17 DEF ResetWipe
<1>18. CASE Query
    <2>1. PICK part \in Parts :
             LibCall(Ok(be), {be}, [NextOption EXCEPT !.out = @ \cup {part}], Abort)
        BY <1>18 DEF Query
    <2> DEFINE next == [NextOption EXCEPT !.out = @ \cup {part}]
    <2>2. next.pc = "start"
        BY <1>3
    <2> HIDE DEF next
    <2>3. py' = next \/ py' = Abort
        BY <1>6, <2>1 DEF next
    <2> QED  BY <1>2, <2>2, <2>3
<1>19. CASE Exit \/ Kill
    BY <1>2, <1>3, <1>19 DEF Exit, Kill
<1> QED
    BY <1>5, <1>9, <1>10, <1>11, <1>12, <1>13, <1>14, <1>15, <1>16, <1>17, <1>18, <1>19 DEF PyStep

\* A call that changes a rule about specs keeps to them.
LEMMA RuleCallOthers ==
    ASSUME NEW specs, NEW result, NEW returned, NEW raised,
           RuleCall(result, returned, raised), SameRules(result.store, be, specs),
           result.ok => \A c : Minds(returned, c, specs), \A c : Minds(raised, c, specs)
    PROVE  SameRules(be', be, specs) /\ Minds(py', be', specs)
BY SameRulesOrder DEF RuleCall, LibCall

\* A sequence of one element has no rest.
LEMMA TailOfOne ==
    ASSUME NEW S, NEW s \in Seq(S), s # <<>>, Len(s) = 1
    PROVE  Tail(s) = <<>>
<1>1. Tail(s) \in Seq(S) /\ Len(Tail(s)) = 0
    BY HeadTailProperties
<1>2. Tail(s) # <<>> => Len(Tail(s)) \in Nat \ {0}
    BY <1>1, EmptySeq, Zenon
<1> QED  BY <1>1, <1>2

\* Every step of a process that is about specs leaves the other rules alone.
LEMMA StepOthers ==
    ASSUME PyOK, PyHelperAssumption, PyStep \/ Kill, NEW specs, Minds(py, be, specs)
    PROVE  SameRules(be', be, specs) /\ Minds(py', be', specs)
<1>1. Good(be) /\ ProcOK(py) /\ py \in Processes /\ py.opts \in Seq(Options)
    BY DEF PyOK, ProcOK, Processes
<1>2. py.state = "running" /\ (StepEffect \/ (be' = be /\ py'.state # "running")) /\ Follows(py')
    BY ProcessStep
<1>3. Head(py.opts) = py.opts[1] /\ (py.opts # <<>> => 1 \in 1..Len(py.opts))
    BY <1>1
<1>4. Follows(Abort) /\ Abort.opts = <<>> /\ Abort.pc = "start"
    BY <1>2, Following DEF Abort, Ended, NoProc
<1>5. \A c : Minds(Abort, c, specs)
    BY <1>4 DEF Minds
<1>6. CASE UpdateDelete \/ UpdateInsert \/ UpdateRestore \/ RemoveRule \/ MoveDelete \/ MoveInsert
    <2>1. py.opts # <<>> /\ Head(py.opts).name \in Numbering
        BY <1>6 DEF UpdateDelete, UpdateInsert, UpdateRestore, RemoveRule, MoveDelete, MoveInsert,
            At, Numbering
    <2>2. Len(py.opts) = 1 /\ 1 \in 1..Len(py.opts)
        BY <1>3, <2>1 DEF Minds
    <2>3. NextOption.opts = <<>> /\ NextOption.pc = "start"
        <3>1. Tail(py.opts) = <<>>
            BY <1>1, <2>1, <2>2, TailOfOne
        <3> QED  BY <3>1 DEF NextOption, Process, NoProc
    <2>4. \A c : Minds(NextOption, c, specs)
        BY <2>3 DEF Minds
    <2>5. ASSUME NEW held, held.spec \in specs, NEW c
          PROVE  Minds([py EXCEPT !.pc = "insert", !.held = held], c, specs)
        <3> DEFINE p == [py EXCEPT !.pc = "insert", !.held = held]
        <3>1. p.opts = py.opts /\ p.pc = "insert" /\ p.held = held
            BY <1>1 DEF Processes
        <3> HIDE DEF p
        <3>2. Minds(p, c, specs)
            BY <2>5, <3>1 DEF Minds
        <3> QED  BY <3>2 DEF p
    <2>6. CASE UpdateDelete
        <3> DEFINE result == DeleteRule(be, Arg.pos)
                   next   == [py EXCEPT !.pc = "insert", !.held = RuleAt(be, Arg.pos)]
        <3>1. At("update", "start") /\ RuleCall(result, next, NextOption)
            BY <2>6 DEF UpdateDelete
        <3>2. Arg = py.opts[1].arg /\ Arg.pos \in 1..NumRules(be) => RuleAt(be, Arg.pos).spec \in specs
            BY <1>3, <2>1, <3>1 DEF At, Minds, Arg
        <3>3. SameRules(result.store, be, specs)
            BY <1>1, <1>3, <3>2, RuleChangeOthers DEF Arg
        <3>4. result.ok => Arg.pos \in 1..NumRules(be)
            BY DEF DeleteRule, Raised
        <3>5. result.ok => \A c : Minds(next, c, specs)
            BY <1>3, <2>5, <3>2, <3>4 DEF Arg
        <3> HIDE DEF result, next
        <3> QED  BY <2>4, <3>1, <3>3, <3>5, RuleCallOthers
    <2>7. CASE UpdateInsert
        <3> DEFINE result == InsertRule(be, Arg, Arg.pos, FamilyOf(Arg.spec))
                   again  == [py EXCEPT !.pc = "restore"]
        <3>1. At("update", "insert") /\ RuleCall(result, NextOption, again)
            BY <2>7 DEF UpdateInsert
        <3>2. Arg \in [spec : Specs, act : Acts, pos : Nat] /\ py.pc = "insert"
            BY <3>1, Executing, RuleArgs
        <3>3. Arg.spec \in specs
            BY <1>3, <2>2, <3>1 DEF At, Minds, Arg
        <3>4. SameRules(result.store, be, specs)
            BY <1>1, <3>2, <3>3, FamilySuits, RuleChangeOthers
        <3>5. again.opts = py.opts /\ again.pc = "restore" /\ again.held = py.held
            BY <1>1 DEF Processes
        <3> HIDE DEF result, again
        <3>6. \A c : Minds(again, c, specs)
            BY <3>2, <3>5 DEF Minds
        <3> QED  BY <2>4, <3>1, <3>4, <3>6, RuleCallOthers
    <2>8. CASE UpdateRestore
        <3> DEFINE result == InsertRule(be, py.held, 0, StoredFamily(py.held))
        <3>1. At("update", "restore") /\ py.pc = "restore" /\ RuleCall(result, NextOption, Abort)
            BY <2>8 DEF UpdateRestore, At
        <3>2. /\ py.held \in Shown /\ (py.held.v6 => AddrOf[py.held.spec] \in {"any", "v6"})
              /\ py.held.spec \in specs
            BY <1>1, <3>1 DEF ProcOK, Minds
        <3>3. py.held.spec \in Specs /\ py.held.act \in Acts /\ Suits(StoredFamily(py.held), py.held.spec)
            BY <3>2, FamilySuits DEF Shown
        <3>4. SameRules(result.store, be, specs)
            BY <1>1, <3>2, <3>3, RuleChangeOthers
        <3> HIDE DEF result
        <3> QED  BY <1>5, <2>4, <3>1, <3>4, RuleCallOthers
    <2>9. CASE RemoveRule
        <3> DEFINE result == DeleteRule(be, Arg)
        <3>1. At("remove", "start") /\ RuleCall(result, NextOption, Abort)
            BY <2>9 DEF RemoveRule
        <3>2. Arg \in 1..NumRules(be) => RuleAt(be, Arg).spec \in specs
            BY <1>3, <2>1, <3>1 DEF At, Minds, Arg
        <3>3. SameRules(result.store, be, specs)
            BY <1>1, <3>2, RuleChangeOthers
        <3> HIDE DEF result
        <3> QED  BY <1>5, <2>4, <3>1, <3>3, RuleCallOthers
    <2>10. CASE MoveDelete
        <3> DEFINE known  == Arg.from # Arg.to /\ Arg.from \in 1..NumRules(be)
                   result == IF known THEN DeleteRule(be, Arg.from) ELSE Raised(be)
                   next   == [py EXCEPT !.pc = "insert", !.held = RuleAt(be, Arg.from)]
        <3>1. At("move", "start") /\ RuleCall(result, next, Abort)
            BY <2>10 DEF MoveDelete
        <3>2. Arg.from \in 1..NumRules(be) => RuleAt(be, Arg.from).spec \in specs
            BY <1>3, <2>1, <3>1 DEF At, Minds, Arg
        <3>3. SameRules(DeleteRule(be, Arg.from).store, be, specs) /\ SameRules(Raised(be).store, be, specs)
            BY <1>1, <3>2, RuleChangeOthers, SameRulesOrder DEF Raised
        <3>4. SameRules(result.store, be, specs)
            BY <3>3
        <3>5. result.ok => Arg.from \in 1..NumRules(be)
            BY DEF Raised
        <3>6. result.ok => \A c : Minds(next, c, specs)
            BY <2>5, <3>2, <3>5
        <3> HIDE DEF result, next
        <3> QED  BY <1>5, <3>1, <3>4, <3>6, RuleCallOthers
    <2>11. CASE MoveInsert
        <3> DEFINE result == InsertRule(be, py.held, Arg.to, StoredFamily(py.held))
        <3>1. At("move", "insert") /\ py.pc = "insert" /\ RuleCall(result, NextOption, Abort)
            BY <2>11 DEF MoveInsert, At
        <3>2. /\ py.held \in Shown /\ (py.held.v6 => AddrOf[py.held.spec] \in {"any", "v6"})
              /\ py.held.spec \in specs /\ Arg.to \in Nat
            BY <1>1, <3>1, Executing, RuleArgs DEF ProcOK, Minds
        <3>3. py.held.spec \in Specs /\ py.held.act \in Acts /\ Suits(StoredFamily(py.held), py.held.spec)
            BY <3>2, FamilySuits DEF Shown
        <3>4. SameRules(result.store, be, specs)
            BY <1>1, <3>2, <3>3, RuleChangeOthers
        <3> HIDE DEF result
        <3> QED  BY <1>5, <2>4, <3>1, <3>4, RuleCallOthers
    <2> QED  BY <1>6, <2>6, <2>7, <2>8, <2>9, <2>10, <2>11
<1>7. CASE AddRule
    <2> DEFINE result == InsertRule(be, Arg, 0, FamilyOf(Arg.spec))
    <2>1. At("add", "start") /\ py.opts # <<>> /\ RuleCall(result, NextOption, Abort)
        BY <1>7 DEF AddRule, At
    <2>2. Arg \in Rules \cup Shown /\ Head(py.opts).name = "add"
        BY <2>1, Executing, RuleArgs
    <2>3. /\ Arg.spec \in Specs /\ Arg.act \in Acts /\ Suits(FamilyOf(Arg.spec), Arg.spec)
          /\ Arg.spec \in specs
        BY <1>3, <2>1, <2>2, FamilySuits DEF Rules, Shown, Minds, Arg
    <2>4. SameRules(result.store, be, specs)
        BY <1>1, <2>3, RuleChangeOthers
    <2>5. Follows(NextOption) /\ NextOption.pc = "start" /\ py.opts[1].name \notin Numbering
        BY <1>2, <1>3, <2>1, <2>2, Following DEF NextOption, Process, NoProc, Numbering
    <2>6. \A c : Minds(NextOption, c, specs)
        BY <2>1, <2>5, MindsFollows
    <2> HIDE DEF result
    <2> QED  BY <1>5, <2>1, <2>4, <2>6, RuleCallOthers
<1>8. CASE \/ ClearCount \/ ClearOne \/ ClearDone \/ SetEnabled \/ DefaultsDisable \/ DefaultsSet
           \/ DefaultsEnable \/ SetModules \/ ResetDefaults \/ ResetWipe \/ Query
    <2>1. /\ py.opts # <<>>
          /\ Head(py.opts).name \in {"clear", "reset", "setEnabled", "setDefaults", "setModules"} \cup Parts
        BY <1>8 DEF ClearCount, ClearOne, ClearDone, SetEnabled, DefaultsDisable, DefaultsSet,
            DefaultsEnable, SetModules, ResetDefaults, ResetWipe, Query, At
    <2>2. Head(py.opts).name \notin {"clear", "reset"}
        BY <1>3, <2>1 DEF Minds
    <2>3. Head(py.opts).name \notin Changing.rules /\ Head(py.opts).name \notin Numbering
        BY <2>1, <2>2 DEF Changing, Numbering, Parts
    <2>4. be'.v4 = be.v4 /\ be'.v6 = be.v6
        BY <1>2, <2>3 DEF StepEffect, Affects
    <2>5. py'.pc \in {"insert", "restore"} => py'.held.spec \in specs
        BY <2>3, HoldsNone DEF Minds
    <2>6. Minds(py', be', specs)
        BY <1>2, <1>3, <2>1, <2>3, <2>5, MindsFollows
    <2> QED  BY <2>4, <2>6, SameRulesOrder
<1>9. CASE Exit \/ Kill
    <2>1. be' = be /\ py'.opts = <<>> /\ py'.pc = "start"
        BY <1>9 DEF Exit, Kill, Ended, NoProc
    <2> QED  BY <2>1, SameRulesOrder DEF Minds
<1> QED  BY <1>6, <1>7, <1>8, <1>9 DEF PyStep

\* The command line of a call is about the specs that the call addresses.
LEMMA CommandsMind ==
    ASSUME NEW specs, NEW b
    PROVE  /\ \A cmd, arg : Minds(Process(Queries(SecondParts(cmd, arg))), b, specs)
           /\ \A cmd \in Cmds \ {"query", "setProfile", "reset"} : \A arg :
                /\ ArgOK(cmd, arg)
                /\ cmd = "addRules" => SpecsOf(arg) \subseteq specs
                /\ cmd = "removeRule" /\ arg \in 1..NumRules(b) => RuleAt(b, arg).spec \in specs
                /\ cmd = "moveRule" /\ arg.from \in 1..NumRules(b) => RuleAt(b, arg.from).spec \in specs
                /\ cmd = "editRule" =>
                     /\ arg.spec \in specs
                     /\ arg.pos \in 1..NumRules(b) => RuleAt(b, arg.pos).spec \in specs
                => Minds(Process(FirstOpts(cmd, arg)), b, specs)
<1>1. \A opts : Process(opts).opts = opts /\ Process(opts).pc = "start"
    BY DEF Process, NoProc
<1>2. ASSUME NEW cmd, NEW arg
      PROVE  Minds(Process(Queries(SecondParts(cmd, arg))), b, specs)
    <2> DEFINE opts == Queries(SecondParts(cmd, arg))
    <2>1. Within(opts, Parts) /\ opts \in Seq(Options)
        BY CommandsWithin, CommandLines
    <2>2. opts # <<>> => 1 \in 1..Len(opts)
        BY <2>1
    <2> HIDE DEF opts
    <2>3. \A i \in 1..Len(opts) : opts[i].name \in Parts
        BY <2>1 DEF Within
    <2> QED  BY <1>1, <2>2, <2>3 DEF Minds, Parts, Numbering, opts
<1>3. ASSUME NEW cmd \in Cmds \ {"query", "setProfile", "reset", "addRules"}, NEW arg, ArgOK(cmd, arg),
             cmd = "removeRule" /\ arg \in 1..NumRules(b) => RuleAt(b, arg).spec \in specs,
             cmd = "moveRule" /\ arg.from \in 1..NumRules(b) => RuleAt(b, arg.from).spec \in specs,
             cmd = "editRule" =>
                /\ arg.spec \in specs
                /\ arg.pos \in 1..NumRules(b) => RuleAt(b, arg.pos).spec \in specs
      PROVE  Minds(Process(FirstOpts(cmd, arg)), b, specs)
    <2> DEFINE name == CASE cmd = "setStatus"  -> "setEnabled"
                         [] cmd = "removeRule" -> "remove"
                         [] cmd = "moveRule"   -> "move"
                         [] cmd = "editRule"   -> "update"
                         [] OTHER              -> cmd
               opts == <<Opt(name, arg)>>
    <2>1. FirstOpts(cmd, arg) = opts
        BY <1>3 DEF FirstOpts, Cmds
    <2>2. /\ name \notin {"clear", "reset", "add"}
          /\ name = "update" => cmd = "editRule"
          /\ name = "remove" => cmd = "removeRule"
          /\ name = "move" => cmd = "moveRule"
        BY DEF Cmds
    <2> HIDE DEF name
    <2>3. Len(opts) = 1 /\ opts[1].name = name /\ opts[1].arg = arg
        BY DEF Opt
    <2> HIDE DEF opts
    <2>4. Minds(Process(opts), b, specs)
        BY <1>1, <1>3, <2>2, <2>3 DEF Minds
    <2> QED  BY <2>1, <2>4
<1>4. ASSUME NEW arg, ArgOK("addRules", arg), SpecsOf(arg) \subseteq specs
      PROVE  Minds(Process(FirstOpts("addRules", arg)), b, specs)
    <2> DEFINE opts == Adds(arg)
    <2>1. arg \in Seq(Rules \cup Shown) /\ DOMAIN arg = 1..Len(arg) /\ Len(arg) \in Nat
        BY <1>4 DEF ArgOK
    <2>2. /\ Len(opts) = Len(arg)
          /\ \A i \in 1..Len(arg) : opts[i].name = "add" /\ opts[i].arg = arg[i]
        BY <2>1 DEF Adds, Opt
    <2>3. opts # <<>> => 1 \in 1..Len(arg)
        BY <2>1 DEF Adds
    <2>4. FirstOpts("addRules", arg) = opts
        BY DEF FirstOpts
    <2> HIDE DEF opts
    <2>5. \A i \in 1..Len(arg) : arg[i].spec \in specs
        BY <1>4, <2>1 DEF SpecsOf
    <2> QED  BY <1>1, <2>2, <2>3, <2>4, <2>5 DEF Minds, Numbering
<1>5. Cmds \ {"query", "setProfile", "reset"} =
        {"addRules"} \cup (Cmds \ {"query", "setProfile", "reset", "addRules"})
    BY DEF Cmds
<1> QED  BY <1>2, <1>3, <1>4, <1>5

\* The calls that leave the rules that they are not about alone.
Sparing == call.phase # "none" /\ call.cmd \notin {"setProfile", "reset"}

\* The inductive invariant: the process has left the other rules alone, and
\* what it still has to do is about the addressed ones.
OthersInv ==
    /\ EnableInv
    /\ Sparing => SameRules(be, began, Addressed) /\ Minds(py, be, Addressed)

\* With no process there is nothing left that could touch a rule.
LEMMA NoProcMinds == \A b, specs : Minds(NoProc, b, specs)
BY DEF Minds, NoProc

\* A request starts from the rules as they are.
LEMMA OthersRequest ==
    ASSUME OthersInv, NEW cmd \in Cmds, NEW arg, ArgOK(cmd, arg), Request(cmd, arg)
    PROVE  OthersInv'
<1>1. EnableInv' /\ be' = be /\ began' = be /\ py = NoProc
    BY EnableRequest DEF OthersInv, EnableInv, Request
<1> DEFINE request == [NoCall EXCEPT !.cmd = cmd, !.arg = arg]
<1>2. PICK phase \in {"first", "second", "reply"} : call' = [request EXCEPT !.phase = phase]
    BY DEF Request, Submit
<1>3. call'.phase = phase /\ call'.cmd = cmd /\ call'.arg = arg
    BY <1>2 DEF NoCall
<1>4. SameRules(be, began, Addressed)'
    BY <1>1, SameRulesOrder DEF SameRules
<1>5. ASSUME cmd \notin {"setProfile", "reset"} PROVE Minds(py, be, Addressed)'
    <2> DEFINE specs == Addressed'
    <2>1. specs = CASE cmd = "addRules" -> SpecsOf(arg)
                    [] cmd = "removeRule" -> SpecAt(arg)'
                    [] cmd = "moveRule" -> SpecAt(arg.from)'
                    [] cmd = "editRule" -> SpecAt(arg.pos)' \cup {arg.spec}
                    [] OTHER -> {}
        BY <1>3 DEF Addressed, SpecAt
    <2>2. \A n \in 1..NumRules(be) : SpecAt(n)' = {RuleAt(be, n).spec}
        BY <1>1 DEF SpecAt
    <2> HIDE DEF specs
    <2>3. /\ cmd = "addRules" => SpecsOf(arg) \subseteq specs
          /\ cmd = "removeRule" /\ arg \in 1..NumRules(be) => RuleAt(be, arg).spec \in specs
          /\ cmd = "moveRule" /\ arg.from \in 1..NumRules(be) => RuleAt(be, arg.from).spec \in specs
          /\ cmd = "editRule" =>
               /\ arg.spec \in specs
               /\ arg.pos \in 1..NumRules(be) => RuleAt(be, arg.pos).spec \in specs
        BY <2>1, <2>2
    <2>4. \/ cmd = "query" /\ py' = Process(Queries(SecondParts(cmd, arg)))
          \/ cmd # "query" /\ py' = Process(FirstOpts(cmd, arg))
          \/ py' = NoProc
        BY <1>1 DEF Request, Submit
    <2>5. Minds(py', be, specs)
        BY <1>5, <2>3, <2>4, CommandsMind, NoProcMinds
    <2> QED  BY <1>1, <2>5 DEF specs
<1> QED  BY <1>1, <1>3, <1>4, <1>5 DEF OthersInv, Sparing

\* A step of the helper, or of its process, spares the other rules.
LEMMA OthersServe ==
    ASSUME PyHelperAssumption, OthersInv, Serve
    PROVE  OthersInv'
<1>1. HelperStep /\ began' = began /\ PyOK /\ EnableInv'
    BY EnableServe DEF Serve, OthersInv, EnableInv, TypeInv, HelperOK
<1>2. call'.cmd = call.cmd /\ call'.arg = call.arg /\ CallOK
    BY <1>1, HelperStepType DEF OthersInv, EnableInv, TypeInv, HelperOK
<1>3. Addressed' = Addressed
    BY <1>1, <1>2 DEF Addressed, SpecAt
<1>4. call.phase # "none"
    <2>1. CASE PyStep \/ Kill
        <3>1. py.state = "running"
            BY <1>1, <2>1, ProcessStep
        <3> QED  BY <3>1 DEF OthersInv, EnableInv, NoProc
    <2>2. CASE FirstEnded \/ SecondEnded
        BY <2>2 DEF FirstEnded, SecondEnded
    <2> QED  BY <1>1, <2>1, <2>2 DEF HelperStep
<1>5. ASSUME Sparing PROVE (SameRules(be, began, Addressed) /\ Minds(py, be, Addressed))'
    <2> DEFINE specs == Addressed
    <2>1. SameRules(be, began, specs) /\ Minds(py, be, specs)
        BY <1>5 DEF OthersInv
    <2> HIDE DEF specs
    <2>2. SameRules(be', be, specs) /\ Minds(py', be', specs)
        <3>1. CASE PyStep \/ Kill
            BY <1>1, <2>1, <3>1, StepOthers
        <3>2. CASE FirstEnded \/ SecondEnded
            <4>1. be' = be /\ (py' = NoProc \/ py' = SecondRun)
                BY <3>2 DEF FirstEnded, SecondEnded
            <4> QED  BY <4>1, CommandsMind, NoProcMinds, SameRulesOrder DEF SecondRun
        <3> QED  BY <1>1, <3>1, <3>2 DEF HelperStep
    <2>3. SameRules(be', began, specs)
        BY <2>1, <2>2, SameRulesOrder
    <2> QED  BY <1>1, <1>3, <2>2, <2>3 DEF specs, SameRules
<1> QED  BY <1>1, <1>2, <1>4, <1>5 DEF OthersInv, Sparing

\* The invariant about the other rules is inductive.
LEMMA OthersInductive ==
    ASSUME PyHelperAssumption, StoreCallsAssumption
    PROVE  /\ Init => OthersInv
           /\ OthersInv /\ [Next]_vars => OthersInv'
<1>1. ASSUME Init PROVE OthersInv
    <2>1. EnableInv /\ call.phase = "none"
        BY <1>1, EnableInductive DEF Init, NoCall
    <2> QED  BY <2>1 DEF OthersInv, Sparing
<1>2. ASSUME OthersInv, [Next]_vars PROVE OthersInv'
    <2>1. TypeInv /\ EnableInv'
        BY <1>2, EnableInductive DEF OthersInv, EnableInv
    <2>2. CASE \/ RequestQuery \/ RequestSetStatus \/ RequestSetDefaults \/ RequestSetModules
               \/ RequestSetProfile \/ RequestAddRules \/ RequestRemoveRule \/ RequestMoveRule
               \/ RequestEditRule \/ RequestReset
        BY <1>2, <2>1, <2>2, Requests, OthersRequest
    <2>3. CASE Serve
        BY <1>2, <2>3, OthersServe
    <2>4. CASE TakeReply
        <3>1. call'.phase = "none"
            BY <2>4 DEF TakeReply, NoCall
        <3> QED  BY <2>1, <3>1 DEF OthersInv, Sparing
    <2>5. CASE UNCHANGED vars
        <3>1. be' = be /\ py' = py /\ call' = call /\ began' = began
            BY <2>5 DEF vars
        <3> QED
            BY <1>2, <2>1, <3>1 DEF OthersInv, Sparing, Addressed, SpecAt, SameRules, Minds
    <2> QED  BY <1>2, <2>2, <2>3, <2>4, <2>5 DEF Next
<1> QED  BY <1>1, <1>2

\* Whatever raises and wherever the process dies, every call but setProfile and
\* reset leaves the rules that it is not about in force, in their order
\* (insertRule, updateRule, removeRule, moveRule of kcm_ufw_helper.py).
THEOREM OthersKeepTheirOrderAlways == Spec => []OthersKeepTheirOrder
<1>1. Init => OthersInv
    BY OthersInductive, PyHelperAssumption, StoreCallsAssumption
<1>2. OthersInv /\ [Next]_vars => OthersInv'
    BY OthersInductive, PyHelperAssumption, StoreCallsAssumption
<1>3. OthersInv => OthersKeepTheirOrder
    BY DEF OthersInv, Sparing, OthersKeepTheirOrder, SameRules
<1>4. Spec => []OthersInv
    BY <1>1, <1>2, PTL DEF Spec
<1> QED  BY <1>3, <1>4, PTL

-----------------------------------------------------------------------------
(* What success promises *)

\* An option that process p has not finished executing.
Waits(p, name, arg) == \E i \in 1..Len(p.opts) : p.opts[i].name = name /\ p.opts[i].arg = arg
Clears(p)           == \E i \in 1..Len(p.opts) : p.opts[i].name = "clear"

\* Process p is within setDefaults, and has been past these settings.
Setting(p) == p.opts # <<>> /\ p.pc = "setting"
Past(p)    == {SettingOrder[k] : k \in 1..4 - p.left}

\* A command line about rules R, changes D of the settings and sets M of
\* modules, of which there is at most one each: what p still has to do and what
\* it has done to store b add up to it.
Named(p, R, D, M) ==
    \A i \in 1..Len(p.opts) :
        \/ p.opts[i].name = "clear"
        \/ p.opts[i].name = "add" /\ p.opts[i].arg \in R
        \/ p.opts[i].name = "setDefaults" /\ p.opts[i].arg \in D
        \/ p.opts[i].name = "setModules" /\ p.opts[i].arg \in M

StatusDebt(p, b) ==
    IF Setting(p) THEN b.enabled = FALSE /\ p.was = began.enabled ELSE b.enabled = began.enabled

SettingsDebt(p, b, D) ==
    /\ b.set["ipv6"] = began.set["ipv6"] /\ (D = {} => b.set = began.set)
    /\ \A d \in D :
         /\ \A n \in SettingNames \ DOMAIN d : b.set[n] = began.set[n]
         /\ \/ Waits(p, "setDefaults", d)
            \/ "ipv6" \notin DOMAIN d /\ \A n \in DOMAIN d : b.set[n] = d[n]
         /\ Setting(p) => \A n \in DOMAIN d : n \in Past(p) => n # "ipv6" /\ b.set[n] = d[n]

ModulesDebt(p, b, M) == \A m \in M : Waits(p, "setModules", m) \/ b.modules = m

\* whole: the rules are to be R and no others.
RulesDebt(p, b, R, whole) ==
    /\ Clears(p) =>
         /\ p.opts[1].name = "clear" /\ \A i \in 2..Len(p.opts) : p.opts[i].name # "clear"
         /\ \A r \in R : Waits(p, "add", r)
         /\ p.pc = "clearing" => p.left = NumRules(b)
    /\ \A r \in R : Waits(p, "add", r) \/ \E s \in R \cap InForce(b) : s.spec = r.spec
    /\ whole /\ ~Clears(p) => \A s \in InForce(b) : \E r \in R : r.spec = s.spec

Debt(p, b, R, D, M, whole) ==
    /\ Named(p, R, D, M)
    /\ StatusDebt(p, b)
    /\ SettingsDebt(p, b, D)
    /\ ModulesDebt(p, b, M)
    /\ RulesDebt(p, b, R, whole)

\* What waits in the rest of a command line.
LEMMA RestWaits ==
    ASSUME PyOK, py.opts # <<>>, NEW p, p.opts = Tail(py.opts)
    PROVE  /\ \A i \in 1..Len(p.opts) : i + 1 \in 2..Len(py.opts) /\ i + 1 \in 1..Len(py.opts)
                                        /\ p.opts[i] = py.opts[i + 1]
           /\ \A name, arg : Waits(py, name, arg) =>
                Waits(p, name, arg) \/ (Head(py.opts).name = name /\ Arg = arg)
           /\ Clears(p) => \E i \in 2..Len(py.opts) : py.opts[i].name = "clear"
           /\ Head(py.opts) = py.opts[1] /\ 1 \in 1..Len(py.opts)
<1> DEFINE t == Tail(py.opts)
<1>1. py.opts \in Seq(Options) /\ Len(py.opts) \in Nat /\ Len(py.opts) # 0
    BY DEF PyOK, ProcOK, Processes
<1>2. /\ t \in Seq(Options) /\ Len(t) = Len(py.opts) - 1
      /\ \A i \in 1..Len(t) : t[i] = py.opts[i + 1]
    BY <1>1
<1>3. Head(py.opts) = py.opts[1] /\ 1 \in 1..Len(py.opts)
    BY <1>1
<1> HIDE DEF t
<1>4. p.opts = t
    BY DEF t
<1>5. \A i \in 1..Len(t) : i + 1 \in 2..Len(py.opts) /\ i + 1 \in 1..Len(py.opts)
                           /\ t[i] = py.opts[i + 1]
    BY <1>1, <1>2
<1>6. ASSUME NEW name, NEW arg, Waits(py, name, arg)
      PROVE  Waits(p, name, arg) \/ (Head(py.opts).name = name /\ Arg = arg)
    <2>1. PICK i \in 1..Len(py.opts) : py.opts[i].name = name /\ py.opts[i].arg = arg
        BY <1>6 DEF Waits
    <2>2. CASE i = 1
        BY <1>3, <2>1, <2>2 DEF Arg
    <2>3. CASE i # 1
        <3>1. i - 1 \in 1..Len(t) /\ t[i - 1] = py.opts[i]
            BY <1>1, <1>2, <2>3
        <3> QED  BY <1>4, <2>1, <3>1 DEF Waits
    <2> QED  BY <2>2, <2>3
<1>7. Clears(p) => \E i \in 2..Len(py.opts) : py.opts[i].name = "clear"
    BY <1>4, <1>5 DEF Clears
<1> QED  BY <1>3, <1>4, <1>5, <1>6, <1>7

\* Each debt is kept by an option of another kind.
LEMMA NamedKept ==
    ASSUME PyOK, NEW R, NEW D, NEW M, Named(py, R, D, M), NEW p,
           p.opts = py.opts \/ (py.opts # <<>> /\ p.opts = Tail(py.opts))
    PROVE  Named(p, R, D, M)
<1>1. CASE p.opts = py.opts
    BY <1>1 DEF Named
<1>2. CASE py.opts # <<>> /\ p.opts = Tail(py.opts)
    <2>1. \A i \in 1..Len(p.opts) : i + 1 \in 1..Len(py.opts) /\ p.opts[i] = py.opts[i + 1]
        BY <1>2, RestWaits
    <2> QED  BY <2>1 DEF Named
<1> QED  BY <1>1, <1>2

\* A step that writes no setting leaves what is owed of the settings.
LEMMA SettingsKept ==
    ASSUME PyOK, NEW D, SettingsDebt(py, be, D), NEW p, NEW b, b.set = be.set, ~Setting(p),
           p.opts = py.opts \/ (/\ py.opts # <<>> /\ p.opts = Tail(py.opts)
                                /\ Head(py.opts).name # "setDefaults")
    PROVE  SettingsDebt(p, b, D)
<1>1. \A d : Waits(py, "setDefaults", d) => Waits(p, "setDefaults", d)
    <2>1. CASE p.opts = py.opts
        BY <2>1 DEF Waits
    <2> QED  BY <2>1, RestWaits
<1> QED  BY <1>1 DEF SettingsDebt

\* A step that writes no modules leaves what is owed of the modules.
LEMMA ModulesKept ==
    ASSUME PyOK, NEW M, ModulesDebt(py, be, M), NEW p, NEW b, b.modules = be.modules,
           p.opts = py.opts \/ (/\ py.opts # <<>> /\ p.opts = Tail(py.opts)
                                /\ Head(py.opts).name # "setModules")
    PROVE  ModulesDebt(p, b, M)
<1>1. \A m : Waits(py, "setModules", m) => Waits(p, "setModules", m)
    <2>1. CASE p.opts = py.opts
        BY <2>1 DEF Waits
    <2> QED  BY <2>1, RestWaits
<1> QED  BY <1>1 DEF ModulesDebt

\* A step that neither adds nor clears rules leaves what is owed of the rules.
LEMMA RulesKept ==
    ASSUME PyOK, NEW R, NEW whole, RulesDebt(py, be, R, whole),
           NEW p, NEW b, b.v4 = be.v4, b.v6 = be.v6, b.set["ipv6"] = be.set["ipv6"],
           py.opts # <<>> => Head(py.opts).name \notin {"add", "clear"},
           p.opts = py.opts \/ (py.opts # <<>> /\ p.opts = Tail(py.opts))
    PROVE  RulesDebt(p, b, R, whole)
<1>1. ~Clears(py)
    <2> SUFFICES ASSUME Clears(py) PROVE FALSE
        OBVIOUS
    <2>1. py.opts \in Seq(Options)
        BY DEF PyOK, ProcOK, Processes
    <2>2. py.opts # <<>>
        BY DEF Clears
    <2>3. Head(py.opts) = py.opts[1]
        BY <2>1, <2>2
    <2> QED  BY <2>2, <2>3 DEF RulesDebt
<1>2. ~Clears(p) /\ \A r : Waits(py, "add", r) => Waits(p, "add", r)
    <2>1. CASE p.opts = py.opts
        BY <1>1, <2>1 DEF Waits, Clears
    <2>2. CASE py.opts # <<>> /\ p.opts = Tail(py.opts)
        <3>1. Clears(p) => \E i \in 2..Len(py.opts) : py.opts[i].name = "clear"
            BY <2>2, RestWaits
        <3>2. \A i \in 2..Len(py.opts) : i \in 1..Len(py.opts)
            OBVIOUS
        <3>3. ~Clears(p)
            BY <1>1, <3>1, <3>2 DEF Clears
        <3> QED  BY <2>2, <3>3, RestWaits
    <2> QED  BY <2>1, <2>2
<1>3. InForce(b) = InForce(be)
    BY DEF InForce, Ipv6On
<1> QED  BY <1>1, <1>2, <1>3 DEF RulesDebt

\* The option that is executed, and the process that goes on to the next.
LEMMA Executed ==
    ASSUME PyOK, py.opts # <<>>
    PROVE  /\ NextOption.opts = Tail(py.opts) /\ ~Setting(NextOption)
           /\ \A R, D, M : Named(py, R, D, M) =>
                \/ Head(py.opts).name = "clear"
                \/ Head(py.opts).name = "add" /\ Arg \in R
                \/ Head(py.opts).name = "setDefaults" /\ Arg \in D
                \/ Head(py.opts).name = "setModules" /\ Arg \in M
<1>1. Head(py.opts) = py.opts[1] /\ 1 \in 1..Len(py.opts)
    <2>1. py.opts \in Seq(Options)
        BY DEF PyOK, ProcOK, Processes
    <2> QED  BY <2>1
<1> QED  BY <1>1 DEF Named, Arg, NextOption, Process, NoProc, Setting

\* Adding a rule: it is held, and the rules for other specs are held as before.
LEMMA AddedHeld ==
    ASSUME NEW b, Good(b), NEW r \in Rules, InsertRule(b, r, 0, FamilyOf(r.spec)).ok
    PROVE  LET c == InsertRule(b, r, 0, FamilyOf(r.spec)).store
           IN  /\ r \in InForce(c) /\ SameSettings(b, c)
               /\ \A s \in InForce(b) : s.spec # r.spec => s \in InForce(c)
               /\ \A s \in InForce(c) : s.spec # r.spec => s \in InForce(b)
<1> DEFINE c == InsertRule(b, r, 0, FamilyOf(r.spec)).store
<1>1. r.spec \in Specs /\ r.act \in Acts
    BY DEF Rules
<1>2. Suits(FamilyOf(r.spec), r.spec)
    BY <1>1, FamilySuits
<1>3. SameRules(c, b, {r.spec})
    <2>1. \A family : \A pos \in Nat : Suits(family, r.spec) /\ r.spec \in {r.spec}
             => SameRules(InsertRule(b, r, pos, family).store, b, {r.spec})
        BY <1>1, RuleChangeOthers
    <2> QED  BY <1>2, <2>1
<1>4. Good(c)
    BY <1>1, <1>2, InsertRuleGood
<1>5. r \in InForce(c)
    <2>1. r \in ToSet(c.v4) \/ (Ipv6On(c) /\ r \in ToSet(c.v6))
        BY AddHolds
    <2> HIDE DEF c
    <2> QED  BY <2>1 DEF InForce
<1>6. SameSettings(b, c) /\ (Ipv6On(b) <=> Ipv6On(c))
    <2>1. SameSettings(b, c)
        BY RulesOnly DEF Good
    <2> HIDE DEF c
    <2> QED  BY <2>1 DEF SameSettings, Ipv6On
<1> HIDE DEF c
<1>7. \A list \in Seq(Rules) : \A s : s \in ToSet(list) <=> s \in Rules /\ Precedes(list, s, s)
    <2> SUFFICES ASSUME NEW list \in Seq(Rules), NEW s
                 PROVE  s \in ToSet(list) <=> s \in Rules /\ Precedes(list, s, s)
        OBVIOUS
    <2>1. DOMAIN list = 1..Len(list) /\ \A i \in DOMAIN list : list[i] \in Rules
        OBVIOUS
    <2>2. \A i \in DOMAIN list : i <= i
        BY <2>1
    <2> QED  BY <2>1, <2>2 DEF ToSet, Precedes
<1>8. /\ b.v4 \in Seq(Rules) /\ b.v6 \in Seq(Rules) /\ c.v4 \in Seq(Rules) /\ c.v6 \in Seq(Rules)
    BY <1>4 DEF Good, Sound
<1>9. \A s : s.spec # r.spec =>
         /\ s \in ToSet(b.v4) <=> s \in ToSet(c.v4)
         /\ s \in ToSet(b.v6) <=> s \in ToSet(c.v6)
    BY <1>3, <1>7, <1>8 DEF SameRules, SameOthers
<1>10. /\ \A s \in InForce(b) : s.spec # r.spec => s \in InForce(c)
       /\ \A s \in InForce(c) : s.spec # r.spec => s \in InForce(b)
    BY <1>6, <1>9 DEF InForce
<1> QED  BY <1>5, <1>6, <1>10 DEF c

\* addRule pays for its rule.
LEMMA DebtAdd ==
    ASSUME PyOK, AddRule, py'.state # "failed",
           NEW R, R \subseteq Rules, NEW D, NEW M, NEW whole,
           Debt(py, be, R, D, M, whole)
    PROVE  Debt(py', be', R, D, M, whole)
<1> DEFINE result == InsertRule(be, Arg, 0, FamilyOf(Arg.spec))
           c      == result.store
<1>1. At("add", "start") /\ LibCall(result, {be, result.store}, NextOption, Abort)
    BY DEF AddRule, RuleCall
<1>2. py.opts # <<>> /\ Head(py.opts).name = "add" /\ py.pc = "start" /\ Arg \in R
    <2>1. py.opts # <<>> /\ Head(py.opts).name = "add" /\ py.pc = "start"
        BY <1>1 DEF At
    <2> QED  BY <2>1, Executed DEF Debt
<1>3. Good(be) /\ Arg \in Rules
    BY <1>2 DEF PyOK
<1>4. result.ok /\ be' = c /\ py' = NextOption
    <2> HIDE DEF result
    <2> QED  BY <1>1, Returned
<1>5. /\ Arg \in InForce(c) /\ SameSettings(be, c)
      /\ \A s \in InForce(be) : s.spec # Arg.spec => s \in InForce(c)
      /\ \A s \in InForce(c) : s.spec # Arg.spec => s \in InForce(be)
    BY <1>3, <1>4, AddedHeld
<1> HIDE DEF result, c
<1>6. py'.opts = Tail(py.opts) /\ ~Setting(py') /\ ~Setting(py)
    BY <1>2, <1>4, Executed DEF Setting
<1>7. Named(py', R, D, M) /\ ModulesDebt(py', be', M) /\ SettingsDebt(py', be', D)
    BY <1>2, <1>4, <1>5, <1>6, NamedKept, ModulesKept, SettingsKept DEF Debt, SameSettings
<1>8. StatusDebt(py', be')
    BY <1>4, <1>5, <1>6 DEF Debt, StatusDebt, SameSettings
<1>9. RulesDebt(py', be', R, whole)
    <2>1. RulesDebt(py, be, R, whole)
        BY DEF Debt
    <2>2. ~Clears(py)
        BY <1>2, <2>1, RestWaits, <1>6 DEF RulesDebt
    <2>3. ~Clears(py')
        <3>1. Clears(py') => \E i \in 2..Len(py.opts) : py.opts[i].name = "clear"
            BY <1>2, <1>6, RestWaits
        <3>2. \A i \in 2..Len(py.opts) : i \in 1..Len(py.opts)
            OBVIOUS
        <3> QED  BY <2>2, <3>1, <3>2 DEF Clears
    <2>4. ASSUME NEW r \in R
          PROVE  Waits(py', "add", r) \/ \E s \in R \cap InForce(c) : s.spec = r.spec
        <3>1. CASE Waits(py, "add", r)
            <4>1. Waits(py', "add", r) \/ Arg = r
                BY <1>2, <1>6, <3>1, RestWaits
            <4> QED  BY <1>2, <1>5, <4>1
        <3>2. CASE \E s \in R \cap InForce(be) : s.spec = r.spec
            BY <1>2, <1>5, <3>2
        <3> QED  BY <2>1, <3>1, <3>2 DEF RulesDebt
    <2>5. ASSUME whole, NEW s \in InForce(c)
          PROVE  \E r \in R : r.spec = s.spec
        <3>1. \A t \in InForce(be) : \E r \in R : r.spec = t.spec
            BY <2>1, <2>2, <2>5 DEF RulesDebt
        <3> QED  BY <1>2, <1>5, <2>5, <3>1
    <2> QED  BY <1>4, <2>3, <2>4, <2>5 DEF RulesDebt
<1> QED  BY <1>7, <1>8, <1>9 DEF Debt

\* clearRules that does not fail empties the lists that are in force.
LEMMA DebtClear ==
    ASSUME PyOK, ClearCount \/ ClearOne \/ ClearDone, Head(py.opts).name = "clear",
           py'.state # "failed", NEW R, NEW D, NEW M, NEW whole,
           Debt(py, be, R, D, M, whole)
    PROVE  Debt(py', be', R, D, M, whole)
<1>1. py \in Processes /\ Good(be) /\ py.left \in Nat /\ py.opts \in Seq(Options)
    BY DEF PyOK, ProcOK, Processes
<1>2. /\ py.opts # <<>> /\ ~Setting(py) /\ Clears(py)
      /\ Head(py.opts) = py.opts[1] /\ 1 \in 1..Len(py.opts)
    <2>1. py.opts # <<>> /\ py.pc # "setting"
        BY DEF ClearCount, ClearOne, ClearDone, At
    <2>2. Head(py.opts) = py.opts[1] /\ 1 \in 1..Len(py.opts)
        BY <1>1, <2>1
    <2> QED  BY <2>1, <2>2 DEF Setting, Clears
<1>3. RulesDebt(py, be, R, whole) /\ StatusDebt(py, be)
    BY DEF Debt
<1>4. /\ \A i \in 2..Len(py.opts) : py.opts[i].name # "clear"
      /\ \A r \in R : Waits(py, "add", r)
      /\ py.pc = "clearing" => py.left = NumRules(be)
    BY <1>2, <1>3 DEF RulesDebt
<1>5. ASSUME NEW pc, NEW left
      PROVE  /\ [py EXCEPT !.pc = pc, !.left = left].opts = py.opts
             /\ [py EXCEPT !.pc = pc, !.left = left].pc = pc
             /\ [py EXCEPT !.pc = pc, !.left = left].left = left
             /\ [py EXCEPT !.left = left].opts = py.opts
             /\ [py EXCEPT !.left = left].pc = py.pc
             /\ [py EXCEPT !.left = left].left = left
    BY <1>1 DEF Processes
\* What the two lists do not matter for.
<1>6. ASSUME SameSettings(be, be'), ~Setting(py'),
             py'.opts = py.opts \/ py'.opts = Tail(py.opts)
      PROVE  /\ Named(py', R, D, M) /\ ModulesDebt(py', be', M) /\ SettingsDebt(py', be', D)
             /\ StatusDebt(py', be')
    <2>1. Named(py', R, D, M) /\ ModulesDebt(py', be', M) /\ SettingsDebt(py', be', D)
        BY <1>2, <1>6, NamedKept, ModulesKept, SettingsKept DEF Debt, SameSettings
    <2> QED  BY <1>2, <1>3, <1>6, <2>1 DEF StatusDebt, SameSettings
\* Within the option, every rule still waits.
<1>7. ASSUME py'.opts = py.opts,
             py'.pc = "clearing" => py'.left = NumRules(be')
      PROVE  RulesDebt(py', be', R, whole)
    <2>1. Clears(py') /\ \A r \in R : Waits(py', "add", r)
        BY <1>2, <1>4, <1>7 DEF Clears, Waits
    <2> QED  BY <1>2, <1>4, <1>7, <2>1 DEF RulesDebt
<1>8. CASE ClearCount
    <2>1. py' = [py EXCEPT !.pc = "clearing", !.left = NumRules(be)] /\ be' = be
        BY <1>8 DEF ClearCount
    <2>2. py'.opts = py.opts /\ py'.pc = "clearing" /\ py'.left = NumRules(be')
        BY <1>5, <2>1
    <2>3. SameSettings(be, be') /\ ~Setting(py')
        BY <2>1, <2>2 DEF SameSettings, Setting
    <2> QED  BY <1>6, <1>7, <2>1, <2>2, <2>3 DEF Debt
<1>9. CASE ClearOne
    <2> DEFINE result == DeleteRule(be, 1)
               done   == [py EXCEPT !.left = @ - 1]
    <2>1. py.pc = "clearing" /\ py.left > 0 /\ RuleCall(result, done, Abort)
        BY <1>9 DEF ClearOne, At
    <2>2. done.opts = py.opts /\ done.pc = py.pc /\ done.left = py.left - 1
        BY <1>5
    <2>3. SameSettings(be, result.store)
        BY <1>1, RulesOnly DEF Good
    <2>4. NumRules(result.store) = py.left - 1
        <3>1. py.left = NumRules(be)
            BY <1>4, <2>1
        <3>2. 1 \in 1..NumRules(be)
            BY <1>1, <2>1, <3>1
        <3> QED  BY <1>1, <3>1, <3>2, DeletedNumbers
    <2> HIDE DEF result, done
    <2>5. py' = done /\ be' = result.store
        BY <2>1, RuleReturned
    <2>6. SameSettings(be, be') /\ ~Setting(py')
        BY <2>1, <2>2, <2>3, <2>5 DEF Setting
    <2>7. py'.opts = py.opts /\ (py'.pc = "clearing" => py'.left = NumRules(be'))
        BY <2>2, <2>4, <2>5
    <2> QED  BY <1>6, <1>7, <2>6, <2>7 DEF Debt
<1>10. CASE ClearDone
    <2>1. py.left = 0 /\ py.pc = "clearing" /\ py' = NextOption /\ be' = be
        BY <1>10 DEF ClearDone, At
    <2>2. py'.opts = Tail(py.opts) /\ ~Setting(py') /\ SameSettings(be, be')
        BY <1>2, <2>1, Executed DEF SameSettings
    <2>3. ~Clears(py')
        <3>1. Clears(py') => \E i \in 2..Len(py.opts) : py.opts[i].name = "clear"
            BY <1>2, <2>2, RestWaits
        <3> QED  BY <1>4, <3>1
    <2>4. \A r \in R : Waits(py', "add", r)
        <3>1. \A r : Waits(py, "add", r) => Waits(py', "add", r) \/ Head(py.opts).name = "add"
            BY <1>2, <2>2, RestWaits
        <3> QED  BY <1>4, <3>1
    <2>5. InForce(be') = {}
        <3>1. be.v4 = <<>> /\ (Ipv6On(be) => be.v6 = <<>>)
            BY <1>1, <1>4, <2>1, NoRulesLeft
        <3> QED  BY <2>1, <3>1 DEF InForce, ToSet
    <2>6. RulesDebt(py', be', R, whole)
        BY <2>3, <2>4, <2>5 DEF RulesDebt
    <2> QED  BY <1>6, <2>2, <2>6 DEF Debt
<1> QED  BY <1>8, <1>9, <1>10

\* setDefaults pays for its settings, and leaves the status as it found it.
LEMMA DebtDefaults ==
    ASSUME PyOK, DefaultsDisable \/ DefaultsSet \/ DefaultsEnable, py'.state # "failed",
           NEW R, NEW D, D \subseteq Changes, \A d, e \in D : d = e, NEW M, NEW whole,
           Debt(py, be, R, D, M, whole)
    PROVE  Debt(py', be', R, D, M, whole)
<1>1. py \in Processes /\ be \in Stores /\ py.left \in Nat /\ began.enabled = began.enabled
    BY DEF PyOK, ProcOK, Processes, Good
<1>2. py.opts # <<>> /\ Head(py.opts).name = "setDefaults" /\ Arg \in D
    <2>1. py.opts # <<>> /\ Head(py.opts).name = "setDefaults"
        BY DEF DefaultsDisable, DefaultsSet, DefaultsEnable, At
    <2> QED  BY <2>1, Executed DEF Debt
<1>3. SettingsDebt(py, be, D) /\ StatusDebt(py, be) /\ ModulesDebt(py, be, M) /\ Named(py, R, D, M)
      /\ RulesDebt(py, be, R, whole)
    BY DEF Debt
<1>4. \A d \in D : d = Arg
    BY <1>2
<1>5. ASSUME NEW pc, NEW left, NEW was
      PROVE  /\ [py EXCEPT !.pc = pc, !.left = left, !.was = was].opts = py.opts
             /\ [py EXCEPT !.pc = pc, !.left = left, !.was = was].pc = pc
             /\ [py EXCEPT !.pc = pc, !.left = left, !.was = was].left = left
             /\ [py EXCEPT !.pc = pc, !.left = left, !.was = was].was = was
             /\ [py EXCEPT !.left = left].opts = py.opts
             /\ [py EXCEPT !.left = left].pc = py.pc
             /\ [py EXCEPT !.left = left].left = left
             /\ [py EXCEPT !.left = left].was = py.was
    BY <1>1 DEF Processes
\* What setDefaults does not change.
<1>6. ASSUME be'.v4 = be.v4, be'.v6 = be.v6, be'.modules = be.modules,
             be'.set["ipv6"] = be.set["ipv6"],
             py'.opts = py.opts \/ py'.opts = Tail(py.opts)
      PROVE  Named(py', R, D, M) /\ ModulesDebt(py', be', M) /\ RulesDebt(py', be', R, whole)
    BY <1>2, <1>3, <1>6, NamedKept, ModulesKept, RulesKept
<1>7. \A on : /\ [be EXCEPT !.enabled = on].v4 = be.v4 /\ [be EXCEPT !.enabled = on].v6 = be.v6
              /\ [be EXCEPT !.enabled = on].set = be.set
              /\ [be EXCEPT !.enabled = on].modules = be.modules
              /\ [be EXCEPT !.enabled = on].enabled = on
    BY <1>1 DEF Stores
<1>8. \A on, returned : Switch(on, returned) => be' = [be EXCEPT !.enabled = on] /\ py' = returned
    <2> SUFFICES ASSUME NEW on, NEW returned, Switch(on, returned)
                 PROVE  be' = [be EXCEPT !.enabled = on] /\ py' = returned
        OBVIOUS
    <2> DEFINE result == Ok([be EXCEPT !.enabled = on])
               broken == {[be EXCEPT !.enabled = FALSE]}
    <2>1. LibCall(result, broken, returned, Abort)
        BY DEF Switch
    <2>2. result.store = [be EXCEPT !.enabled = on]
        BY DEF Ok
    <2> HIDE DEF result, broken
    <2> QED  BY <2>1, <2>2, Returned
<1>9. CASE DefaultsDisable
    <2> DEFINE begun == [py EXCEPT !.pc = "setting", !.left = Len(SettingOrder), !.was = be.enabled]
    <2>1. py.pc = "start" /\ IF be.enabled THEN Switch(FALSE, begun) ELSE py' = begun /\ be' = be
        BY <1>9 DEF DefaultsDisable, At
    <2>2. /\ begun.opts = py.opts /\ begun.pc = "setting" /\ begun.was = be.enabled
          /\ begun.left = 4
        BY <1>5, SettingFacts
    <2> HIDE DEF begun
    <2>3. /\ py' = begun /\ be'.enabled = FALSE /\ be'.set = be.set
          /\ be'.v4 = be.v4 /\ be'.v6 = be.v6 /\ be'.modules = be.modules
        <3>1. CASE be.enabled
            <4>1. be' = [be EXCEPT !.enabled = FALSE] /\ py' = begun
                BY <1>8, <2>1, <3>1
            <4> QED  BY <1>7, <4>1
        <3>2. CASE ~be.enabled
            <4>1. be.enabled \in BOOLEAN
                BY <1>1 DEF Stores
            <4> QED  BY <2>1, <3>2, <4>1
        <3> QED  BY <3>1, <3>2
    <2>4. ~Setting(py) /\ Setting(py')
        BY <1>2, <2>1, <2>2, <2>3 DEF Setting
    <2>5. StatusDebt(py', be')
        BY <1>3, <2>2, <2>3, <2>4 DEF StatusDebt
    <2>6. Past(py') = {}
        BY <2>2, <2>3 DEF Past
    <2>7. SettingsDebt(py', be', D)
        BY <1>3, <2>2, <2>3, <2>6 DEF SettingsDebt, Waits
    <2> QED  BY <1>6, <2>2, <2>3, <2>5, <2>7 DEF Debt
<1>10. CASE DefaultsSet
    <2> DEFINE name    == SettingOrder[Len(SettingOrder) + 1 - py.left]
               written == [be EXCEPT !.set[name] = Arg[name]]
               next    == [py EXCEPT !.left = @ - 1]
    <2>1. /\ py.pc = "setting" /\ py.left > 0
          /\ IF name \in DOMAIN Arg
             THEN name # "ipv6" /\ LibCall(Ok(written), {be, written}, next, Abort)
             ELSE py' = next /\ be' = be
        <3>1. Abort.state = "failed"
            BY DEF Abort, Ended, NoProc
        <3> QED  BY <1>10, <3>1 DEF DefaultsSet, At
    <2>2. py.left \in 1..4 /\ name = SettingOrder[5 - py.left] /\ name \in SettingNames
        <3>1. py.left \in 1..4
            BY <1>1, <2>1 DEF PyOK, ProcOK
        <3>2. Len(SettingOrder) + 1 - py.left = 5 - py.left /\ 5 - py.left \in 1..4
            BY <3>1, SettingFacts
        <3> QED  BY <3>1, <3>2, SettingFacts
    <2>3. next.opts = py.opts /\ next.pc = "setting" /\ next.left = py.left - 1 /\ next.was = py.was
        BY <1>5, <2>1
    <2>4. /\ written.v4 = be.v4 /\ written.v6 = be.v6 /\ written.modules = be.modules
          /\ written.enabled = be.enabled
          /\ \A n \in SettingNames : written.set[n] = IF n = name THEN Arg[name] ELSE be.set[n]
        <3>1. /\ written.v4 = be.v4 /\ written.v6 = be.v6 /\ written.modules = be.modules
              /\ written.enabled = be.enabled
              /\ written.set = [be.set EXCEPT ![name] = Arg[name]]
            BY <1>1 DEF Stores
        <3>2. DOMAIN be.set = SettingNames
            BY <1>1 DEF Stores, Settings
        <3> HIDE DEF written, name
        <3> QED  BY <3>1, <3>2
    <2> HIDE DEF name, next
    <2>5. /\ py' = next /\ be'.enabled = be.enabled
          /\ be'.v4 = be.v4 /\ be'.v6 = be.v6 /\ be'.modules = be.modules
          /\ \A n \in SettingNames :
               be'.set[n] = IF n = name /\ name \in DOMAIN Arg THEN Arg[name] ELSE be.set[n]
          /\ name = "ipv6" => name \notin DOMAIN Arg
        <3>1. CASE name \in DOMAIN Arg
            <4>1. /\ LibCall(Ok(written), {be, written}, next, Abort) /\ Ok(written).store = written
                  /\ name # "ipv6"
                BY <2>1, <3>1 DEF Ok
            <4> HIDE DEF written
            <4>2. be' = written /\ py' = next
                BY <4>1, Returned
            <4> QED  BY <2>4, <3>1, <4>1, <4>2
        <3>2. CASE name \notin DOMAIN Arg
            BY <2>1, <3>2
        <3> QED  BY <3>1, <3>2
    <2>6. Setting(py) /\ Setting(py')
        BY <1>2, <2>1, <2>3, <2>5 DEF Setting
    <2>7. StatusDebt(py', be')
        BY <1>3, <2>3, <2>5, <2>6 DEF StatusDebt
    <2>8. \A n \in Past(py') : n \in Past(py) \/ n = name
        <3>1. py'.left = py.left - 1
            BY <2>3, <2>5
        <3>2. \A k \in 1..4 - py'.left : k \in 1..4 - py.left \/ k = 5 - py.left
            BY <2>2, <3>1
        <3> QED  BY <2>2, <3>2 DEF Past
    <2>9. be'.set["ipv6"] = be.set["ipv6"] /\ be'.set["ipv6"] = began.set["ipv6"]
        <3>1. "ipv6" \in SettingNames
            BY SettingFacts
        <3> QED  BY <1>3, <2>5, <3>1 DEF SettingsDebt
    <2>10. SettingsDebt(py', be', D)
        <3> SUFFICES ASSUME NEW d \in D
                     PROVE  /\ \A n \in SettingNames \ DOMAIN d : be'.set[n] = began.set[n]
                            /\ Waits(py', "setDefaults", d)
                            /\ \A n \in DOMAIN d : n \in Past(py') => n # "ipv6" /\ be'.set[n] = d[n]
            BY <1>2, <2>9 DEF SettingsDebt
        <3>1. d = Arg /\ DOMAIN d \subseteq SettingNames
            BY <1>4 DEF Changes
        <3>2. Waits(py', "setDefaults", d)
            <4>1. Head(py.opts) = py.opts[1] /\ 1 \in 1..Len(py.opts)
                <5>1. py.opts \in Seq(Options)
                    BY <1>1 DEF Processes
                <5> QED  BY <1>2, <5>1
            <4> QED  BY <1>2, <2>3, <2>5, <3>1, <4>1 DEF Waits, Arg
        <3>3. /\ \A n \in SettingNames \ DOMAIN d : be.set[n] = began.set[n]
              /\ \A n \in DOMAIN d : n \in Past(py) => n # "ipv6" /\ be.set[n] = d[n]
            BY <1>3, <2>6 DEF SettingsDebt
        <3> QED  BY <2>5, <2>8, <3>1, <3>2, <3>3
    <2> QED  BY <1>6, <2>3, <2>5, <2>7, <2>9, <2>10 DEF Debt
<1>11. CASE DefaultsEnable
    <2>1. /\ py.pc = "setting" /\ py.left = 0
          /\ IF py.was THEN Switch(TRUE, NextOption) ELSE py' = NextOption /\ be' = be
        BY <1>11 DEF DefaultsEnable, At
    <2>2. Setting(py)
        BY <1>2, <2>1 DEF Setting
    <2>3. /\ py' = NextOption /\ be'.enabled = began.enabled /\ be'.set = be.set
          /\ be'.v4 = be.v4 /\ be'.v6 = be.v6 /\ be'.modules = be.modules
        <3>1. be.enabled = FALSE /\ py.was = began.enabled /\ py.was \in BOOLEAN
            BY <1>1, <1>3, <2>2 DEF StatusDebt, Processes
        <3>2. CASE py.was
            <4>1. be' = [be EXCEPT !.enabled = TRUE] /\ py' = NextOption
                BY <1>8, <2>1, <3>2
            <4> QED  BY <1>7, <3>1, <3>2, <4>1
        <3>3. CASE ~py.was
            BY <2>1, <3>1, <3>3
        <3> QED  BY <3>2, <3>3
    <2>4. py'.opts = Tail(py.opts) /\ ~Setting(py')
        BY <1>2, <2>3, Executed
    <2>5. StatusDebt(py', be')
        BY <2>3, <2>4 DEF StatusDebt
    <2>6. Past(py) = SettingNames
        <3>1. 4 - py.left = 4
            BY <2>1
        <3>2. SettingNames = {SettingOrder[k] : k \in 1..4}
            BY SettingFacts DEF SettingNames, ToSet, SettingOrder
        <3> QED  BY <3>1, <3>2 DEF Past
    <2>7. SettingsDebt(py', be', D)
        <3> SUFFICES ASSUME NEW d \in D
                     PROVE  /\ \A n \in SettingNames \ DOMAIN d : be'.set[n] = began.set[n]
                            /\ \A n \in DOMAIN d : n # "ipv6" /\ be'.set[n] = d[n]
            BY <1>2, <1>3, <2>3, <2>4 DEF SettingsDebt
        <3>1. DOMAIN d \subseteq SettingNames
            BY DEF Changes
        <3> QED  BY <1>3, <2>2, <2>3, <2>6, <3>1 DEF SettingsDebt
    <2> QED  BY <1>6, <2>3, <2>4, <2>5, <2>7 DEF Debt
<1> QED  BY <1>9, <1>10, <1>11

\* setModules pays for its modules.
LEMMA DebtModules ==
    ASSUME PyOK, SetModules, py'.state # "failed",
           NEW R, NEW D, NEW M, \A l, m \in M : l = m, NEW whole,
           Debt(py, be, R, D, M, whole)
    PROVE  Debt(py', be', R, D, M, whole)
<1> DEFINE written == [be EXCEPT !.modules = Arg]
<1>1. /\ py.opts # <<>> /\ Head(py.opts).name = "setModules" /\ py.pc = "start"
      /\ LibCall(Ok(written), {be}, NextOption, Abort) /\ Ok(written).store = written
    BY DEF SetModules, At, Ok
<1>2. Arg \in M
    BY <1>1, Executed DEF Debt
<1>3. /\ written.v4 = be.v4 /\ written.v6 = be.v6 /\ written.modules = Arg
      /\ written.enabled = be.enabled /\ written.set = be.set
    BY DEF PyOK, Good, Stores
<1> HIDE DEF written
<1>4. be' = written /\ py' = NextOption
    BY <1>1, Returned
<1>5. py'.opts = Tail(py.opts) /\ ~Setting(py') /\ ~Setting(py)
    BY <1>1, <1>4, Executed DEF Setting
<1>6. Named(py', R, D, M) /\ SettingsDebt(py', be', D) /\ RulesDebt(py', be', R, whole)
    BY <1>1, <1>3, <1>4, <1>5, NamedKept, SettingsKept, RulesKept DEF Debt
<1>7. StatusDebt(py', be')
    BY <1>3, <1>4, <1>5 DEF Debt, StatusDebt
<1>8. ModulesDebt(py', be', M)
    BY <1>2, <1>3, <1>4 DEF ModulesDebt
<1> QED  BY <1>6, <1>7, <1>8 DEF Debt

\* A process that ends after its last option has paid, or failed.
LEMMA DebtExit ==
    ASSUME PyOK, Exit, NEW R, NEW D, NEW M, NEW whole,
           Debt(py, be, R, D, M, whole)
    PROVE  Debt(py', be', R, D, M, whole) /\ py'.opts = <<>>
<1>1. py.opts = <<>> /\ py'.opts = <<>> /\ be' = be
    BY DEF Exit, Ended, NoProc
<1>2. ~Setting(py) /\ ~Setting(py')
    BY <1>1 DEF Setting
<1>3. /\ Named(py', R, D, M) /\ ModulesDebt(py', be', M) /\ SettingsDebt(py', be', D)
      /\ RulesDebt(py', be', R, whole)
    BY <1>1, <1>2, NamedKept, ModulesKept, SettingsKept, RulesKept DEF Debt
<1>4. StatusDebt(py', be')
    BY <1>1, <1>2 DEF Debt, StatusDebt
<1> QED  BY <1>1, <1>3, <1>4 DEF Debt

\* A step of the process kills nothing.
LEMMA KillsNothing ==
    ASSUME PyOK, PyStep
    PROVE  kills' = kills /\ py'.state # "killed"
<1>0. py.state = "running" /\ py \in Processes
    BY ProcessStep DEF PyOK, ProcOK
<1>1. /\ NextOption.state = "running" /\ Abort.state = "failed"
      /\ \A out : [NextOption EXCEPT !.out = out].state = "running"
      /\ \A out : [Ended("exited") EXCEPT !.out = out].state = "exited"
      /\ \A pc, held, left, was :
           /\ [py EXCEPT !.pc = pc].state = "running"
           /\ [py EXCEPT !.left = left].state = "running"
           /\ [py EXCEPT !.pc = pc, !.held = held].state = "running"
           /\ [py EXCEPT !.pc = pc, !.left = left].state = "running"
           /\ [py EXCEPT !.pc = pc, !.left = left, !.was = was].state = "running"
    BY <1>0 DEF Processes, NextOption, Process, Abort, Ended, NoProc
<1>2. \A result, broken, returned, raised :
         LibCall(result, broken, returned, raised) =>
           /\ kills' = kills
           /\ py' = returned \/ py' = raised
    BY DEF LibCall
<1>3. \A result, returned, raised :
         RuleCall(result, returned, raised) =>
           /\ kills' = kills
           /\ py' = returned \/ py' = raised
    BY <1>2 DEF RuleCall
<1>4. \A on, returned : Switch(on, returned) =>
           /\ kills' = kills
           /\ py' = returned \/ py' = Abort
    BY <1>2 DEF Switch
<1> HIDE DEF LibCall, RuleCall, Switch
<1>5. CASE AddRule \/ UpdateInsert \/ UpdateRestore \/ RemoveRule \/ MoveInsert
    <2> DEFINE to      == [py EXCEPT !.pc = "restore"]
               add     == InsertRule(be, Arg, 0, FamilyOf(Arg.spec))
               update  == InsertRule(be, Arg, Arg.pos, FamilyOf(Arg.spec))
               restore == InsertRule(be, py.held, 0, StoredFamily(py.held))
               remove  == DeleteRule(be, Arg)
               move    == InsertRule(be, py.held, Arg.to, StoredFamily(py.held))
    <2>1. \/ RuleCall(add, NextOption, Abort) \/ RuleCall(update, NextOption, to)
          \/ RuleCall(restore, NextOption, Abort) \/ RuleCall(remove, NextOption, Abort)
          \/ RuleCall(move, NextOption, Abort)
        BY <1>5 DEF AddRule, UpdateInsert, UpdateRestore, RemoveRule, MoveInsert
    <2>2. to.state = "running"
        BY <1>1
    <2> HIDE DEF to, add, update, restore, remove, move
    <2> QED  BY <1>1, <1>3, <2>1, <2>2
<1>6. CASE UpdateDelete \/ MoveDelete \/ ClearOne
    <2> DEFINE known   == Arg.from # Arg.to /\ Arg.from \in 1..NumRules(be)
               update  == DeleteRule(be, Arg.pos)
               move    == IF known THEN DeleteRule(be, Arg.from) ELSE Raised(be)
               clear   == DeleteRule(be, 1)
               updated == [py EXCEPT !.pc = "insert", !.held = RuleAt(be, Arg.pos)]
               moved   == [py EXCEPT !.pc = "insert", !.held = RuleAt(be, Arg.from)]
               cleared == [py EXCEPT !.left = @ - 1]
    <2>1. \/ RuleCall(update, updated, NextOption) \/ RuleCall(move, moved, Abort)
          \/ RuleCall(clear, cleared, Abort)
        BY <1>6 DEF UpdateDelete, MoveDelete, ClearOne
    <2>2. updated.state = "running" /\ moved.state = "running" /\ cleared.state = "running"
        BY <1>1
    <2> HIDE DEF update, move, clear, updated, moved, cleared
    <2> QED  BY <1>1, <1>3, <2>1, <2>2
<1>7. CASE ClearCount \/ ClearDone \/ Exit
    <2> DEFINE counted == [py EXCEPT !.pc = "clearing", !.left = NumRules(be)]
               wiping  == [py EXCEPT !.pc = "wipe"]
               done    == [Ended("exited") EXCEPT !.out = py.out]
    <2>1. /\ kills' = kills
          /\ py' = counted \/ py' = NextOption \/ py' = wiping \/ py' = done
        BY <1>7 DEF ClearCount, ClearDone, Exit
    <2>2. counted.state = "running" /\ wiping.state = "running" /\ done.state = "exited"
        BY <1>1
    <2> HIDE DEF counted, wiping, done
    <2> QED  BY <1>1, <2>1, <2>2
<1>8. CASE SetEnabled \/ DefaultsDisable \/ DefaultsEnable
    <2> DEFINE begun == [py EXCEPT !.pc = "setting", !.left = Len(SettingOrder), !.was = be.enabled]
    <2>1. \/ Switch(Arg, NextOption) \/ Switch(FALSE, begun) \/ Switch(TRUE, NextOption)
          \/ kills' = kills /\ (py' = NextOption \/ py' = begun)
        BY <1>8 DEF SetEnabled, DefaultsDisable, DefaultsEnable
    <2>2. begun.state = "running"
        BY <1>1
    <2> HIDE DEF begun
    <2> QED  BY <1>1, <1>4, <2>1, <2>2
<1>9. CASE SetModules \/ ResetDefaults \/ ResetWipe
    <2> DEFINE set     == Ok([be EXCEPT !.modules = Arg])
               all     == Ok(Loaded(Len(DefaultsOrder) + 1))
               some    == {Loaded(k) : k \in 0..Len(DefaultsOrder)}
               cleared == [py EXCEPT !.pc = "clearing", !.left = NumRules(be)]
               wiped   == Ok(ResetStore(be))
               off     == {be, [be EXCEPT !.enabled = FALSE]}
    <2>1. \/ LibCall(set, {be}, NextOption, Abort) \/ LibCall(all, some, cleared, cleared)
          \/ LibCall(wiped, off, NextOption, Abort)
        BY <1>9 DEF SetModules, ResetDefaults, ResetWipe
    <2>2. cleared.state = "running"
        BY <1>1
    <2> HIDE DEF set, all, some, cleared, wiped, off
    <2> QED  BY <1>1, <1>2, <2>1, <2>2
<1>10. CASE Query
    <2>1. PICK part \in Parts :
            LibCall(Ok(be), {be}, [NextOption EXCEPT !.out = @ \cup {part}], Abort)
        BY <1>10 DEF Query
    <2> DEFINE next == [NextOption EXCEPT !.out = @ \cup {part}]
    <2>2. LibCall(Ok(be), {be}, next, Abort) /\ next.state = "running"
        BY <1>1, <2>1
    <2> HIDE DEF next
    <2> QED  BY <1>1, <1>2, <2>2
<1>11. CASE DefaultsSet
    <2> DEFINE name    == SettingOrder[Len(SettingOrder) + 1 - py.left]
               written == [be EXCEPT !.set[name] = Arg[name]]
               next    == [py EXCEPT !.left = @ - 1]
    <2>1. \/ LibCall(Ok(written), {be, written}, next, Abort)
          \/ kills' = kills /\ (py' = next \/ py' = Abort)
        BY <1>11 DEF DefaultsSet
    <2>2. next.state = "running"
        BY <1>1
    <2> HIDE DEF written, next
    <2> QED  BY <1>1, <1>2, <2>1, <2>2
<1> QED  BY <1>1, <1>5, <1>6, <1>7, <1>8, <1>9, <1>10, <1>11 DEF PyStep

\* A step of the process either does a part of what is owed or leaves it owed.
LEMMA DebtStep ==
    ASSUME PyOK, PyStep, py'.state # "failed", began' = began,
           NEW R, R \subseteq Rules, NEW D, D \subseteq Changes, \A d, e \in D : d = e,
           NEW M, \A l, m \in M : l = m, NEW whole, Debt(py, be, R, D, M, whole)
    PROVE  Debt(py', be', R, D, M, whole)
<1>1. CASE Exit
    BY <1>1, DebtExit
<1>2. CASE ~Exit
    <2>1. py.opts # <<>>
        BY <1>2 DEF PyStep, At, AddRule, UpdateDelete, UpdateInsert, UpdateRestore, RemoveRule,
            MoveDelete, MoveInsert, ClearCount, ClearOne, ClearDone, SetEnabled, DefaultsDisable,
            DefaultsSet, DefaultsEnable, SetModules, ResetDefaults, ResetWipe, Query
    <2>2. Head(py.opts).name \in {"clear", "add", "setDefaults", "setModules"}
        BY <2>1, Executed DEF Debt
    <2>3. \/ AddRule
          \/ (ClearCount \/ ClearOne \/ ClearDone) /\ Head(py.opts).name = "clear"
          \/ DefaultsDisable \/ DefaultsSet \/ DefaultsEnable
          \/ SetModules
        <3>1. ~(UpdateDelete \/ UpdateInsert \/ UpdateRestore \/ RemoveRule \/ MoveDelete
                \/ MoveInsert \/ SetEnabled \/ ResetDefaults \/ ResetWipe \/ Query)
            BY <2>2 DEF At, UpdateDelete, UpdateInsert, UpdateRestore, RemoveRule,
                MoveDelete, MoveInsert, SetEnabled, ResetDefaults, ResetWipe, Query, Parts
        <3>2. ClearCount \/ ClearOne \/ ClearDone => Head(py.opts).name = "clear"
            BY <2>2 DEF At, ClearCount, ClearOne, ClearDone
        <3> QED  BY <1>2, <3>1, <3>2 DEF PyStep
    <2>4. CASE AddRule
        BY <2>4, DebtAdd
    <2>5. CASE (ClearCount \/ ClearOne \/ ClearDone) /\ Head(py.opts).name = "clear"
        BY <2>5, DebtClear
    <2>6. CASE DefaultsDisable \/ DefaultsSet \/ DefaultsEnable
        BY <2>6, DebtDefaults
    <2>7. CASE SetModules
        BY <2>7, DebtModules
    <2> QED  BY <2>3, <2>4, <2>5, <2>6, <2>7
<1> QED  BY <1>1, <1>2

\* The command lines that are made of several options: rules R after a clear
\* if they are to be the whole, then changes D of the settings and modules M.
Planned == {"setDefaults", "setModules", "addRules", "setProfile"}

RulesOf(cmd, arg) ==
    IF cmd = "addRules" THEN ToSet(arg)
    ELSE IF cmd = "setProfile" /\ "rules" \in DOMAIN arg THEN ToSet(arg.rules) ELSE {}
ChangesOf(cmd, arg) ==
    IF cmd = "setDefaults" THEN {arg}
    ELSE IF cmd = "setProfile" /\ "defaults" \in DOMAIN arg THEN {arg.defaults} ELSE {}
ModulesOf(cmd, arg) ==
    IF cmd = "setModules" THEN {arg}
    ELSE IF cmd = "setProfile" /\ "modules" \in DOMAIN arg THEN {arg.modules} ELSE {}
Whole(cmd, arg) == cmd = "setProfile" /\ "rules" \in DOMAIN arg

Elements(opts) == {opts[i] : i \in 1..Len(opts)}

Orders(opts, R, D, M, whole) ==
    /\ opts \in Seq(Options)
    /\ Elements(opts) = {Opt("clear", 0) : w \in {TRUE} \cap {whole}} \cup {Opt("add", r) : r \in R}
                        \cup {Opt("setDefaults", d) : d \in D} \cup {Opt("setModules", m) : m \in M}
    /\ \A i \in 2..Len(opts) : opts[i].name # "clear"
    /\ whole => opts # <<>> /\ opts[1].name = "clear"

\* Putting two command lines together.
LEMMA Joined ==
    ASSUME NEW s \in Seq(Options), NEW t \in Seq(Options)
    PROVE  /\ s \o t \in Seq(Options)
           /\ Elements(s \o t) = Elements(s) \cup Elements(t)
           /\ s # <<>> => s \o t # <<>> /\ (s \o t)[1] = s[1]
           /\ (\A i \in 2..Len(s) : s[i].name # "clear") /\ (\A i \in 1..Len(t) : t[i].name # "clear")
              => \A i \in 2..Len(s \o t) : (s \o t)[i].name # "clear"
<1> DEFINE u == s \o t
<1>1. /\ u \in Seq(Options) /\ Len(u) = Len(s) + Len(t) /\ Len(s) \in Nat /\ Len(t) \in Nat
      /\ Len(u) \in Nat
    OBVIOUS
<1>2. /\ \A i \in 1..Len(s) : u[i] = s[i]
      /\ \A i \in 1..Len(u) : i > Len(s) => u[i] = t[i - Len(s)]
    BY <1>1
<1> HIDE DEF u
<1>3. \A i \in 1..Len(s) : i \in 1..Len(u)
    BY <1>1
<1>4. \A i \in 1..Len(u) : i \in 1..Len(s) \/ i - Len(s) \in 1..Len(t)
    BY <1>1
<1>5. \A i \in 1..Len(t) : i + Len(s) \in 1..Len(u) /\ u[i + Len(s)] = t[i]
    <2> SUFFICES ASSUME NEW i \in 1..Len(t)
                 PROVE  i + Len(s) \in 1..Len(u) /\ u[i + Len(s)] = t[i]
        OBVIOUS
    <2>1. i + Len(s) \in 1..Len(u) /\ i + Len(s) > Len(s) /\ (i + Len(s)) - Len(s) = i
        BY <1>1
    <2> QED  BY <1>2, <2>1
<1>6. \A i \in 1..Len(u) : (i \in 1..Len(s) /\ u[i] = s[i])
                           \/ (i - Len(s) \in 1..Len(t) /\ u[i] = t[i - Len(s)])
    <2> SUFFICES ASSUME NEW i \in 1..Len(u)
                 PROVE  (i \in 1..Len(s) /\ u[i] = s[i])
                        \/ (i - Len(s) \in 1..Len(t) /\ u[i] = t[i - Len(s)])
        OBVIOUS
    <2>1. i \in 1..Len(s) \/ i > Len(s)
        BY <1>1
    <2> QED  BY <1>1, <1>2, <2>1
<1>7. Elements(u) = Elements(s) \cup Elements(t)
    <2>1. ASSUME NEW o \in Elements(u) PROVE o \in Elements(s) \cup Elements(t)
        <3>1. PICK i \in 1..Len(u) : u[i] = o
            BY DEF Elements
        <3> QED  BY <1>6, <3>1 DEF Elements
    <2>2. ASSUME NEW o \in Elements(s) PROVE o \in Elements(u)
        <3>1. PICK i \in 1..Len(s) : s[i] = o
            BY DEF Elements
        <3> QED  BY <1>2, <1>3, <3>1 DEF Elements
    <2>3. ASSUME NEW o \in Elements(t) PROVE o \in Elements(u)
        <3>1. PICK i \in 1..Len(t) : t[i] = o
            BY DEF Elements
        <3> QED  BY <1>5, <3>1 DEF Elements
    <2> QED  BY <2>1, <2>2, <2>3
<1>8. s # <<>> => u # <<>> /\ u[1] = s[1]
    <2> SUFFICES ASSUME s # <<>> PROVE u # <<>> /\ u[1] = s[1]
        OBVIOUS
    <2>1. Len(s) # 0
        BY EmptySeq
    <2>2. 1 \in 1..Len(s) /\ Len(u) # 0
        BY <1>1, <2>1
    <2> QED  BY <1>2, <2>2
<1>9. ASSUME \A i \in 2..Len(s) : s[i].name # "clear", \A i \in 1..Len(t) : t[i].name # "clear",
             NEW i \in 2..Len(u)
      PROVE  u[i].name # "clear"
    <2>1. i \in 1..Len(u) /\ (i \in 1..Len(s) => i \in 2..Len(s))
        BY <1>1
    <2> QED  BY <1>6, <1>9, <2>1
<1> QED  BY <1>1, <1>7, <1>8, <1>9 DEF u

\* What is typed as a rule is added as one.
LEMMA AddsElements ==
    ASSUME NEW rules \in Seq(Rules)
    PROVE  /\ Adds(rules) \in Seq(Options) /\ Elements(Adds(rules)) = {Opt("add", r) : r \in ToSet(rules)}
           /\ \A i \in 1..Len(Adds(rules)) : Adds(rules)[i].name # "clear"
           /\ ToSet(rules) \subseteq Rules
<1>1. rules \in Seq(Rules \cup Shown)
    BY SeqMonotonic
<1>2. Adds(rules) \in Seq(Options)
    <2>1. /\ "addRules" \in Cmds \ {"query"} /\ ArgOK("addRules", rules)
          /\ FirstOpts("addRules", rules) = Adds(rules)
        BY <1>1 DEF Cmds, ArgOK, FirstOpts
    <2> QED  BY <2>1, CommandLines
<1>3. DOMAIN rules = 1..Len(rules) /\ Len(rules) \in Nat /\ \A i \in 1..Len(rules) : rules[i] \in Rules
    OBVIOUS
<1>4. Len(Adds(rules)) = Len(rules)
    BY <1>3 DEF Adds
<1>5. \A i \in 1..Len(rules) : Adds(rules)[i] = Opt("add", rules[i])
    BY <1>3 DEF Adds
<1>6. \A r : Opt("add", r).name # "clear"
    BY DEF Opt
<1> QED  BY <1>2, <1>3, <1>4, <1>5, <1>6 DEF Elements, ToSet

\* The command line of each such command.
LEMMA CommandOrders ==
    ASSUME NEW cmd \in Planned, NEW arg, Exact(cmd, arg)
    PROVE  /\ Orders(FirstOpts(cmd, arg), RulesOf(cmd, arg), ChangesOf(cmd, arg),
                     ModulesOf(cmd, arg), Whole(cmd, arg))
           /\ RulesOf(cmd, arg) \subseteq Rules /\ ChangesOf(cmd, arg) \subseteq Changes
           /\ \A d, e \in ChangesOf(cmd, arg) : d = e
           /\ \A l, m \in ModulesOf(cmd, arg) : l = m
<1>1. ArgOK(cmd, arg)
    BY DEF Exact
<1>2. \A o \in Options : /\ <<o>> \in Seq(Options) /\ Elements(<<o>>) = {o} /\ <<o>> # <<>>
                         /\ Len(<<o>>) = 1 /\ <<o>>[1] = o
    BY DEF Elements
<1>3. /\ <<>> \in Seq(Options) /\ Elements(<<>>) = {}
      /\ \A i \in 1..Len(<<>>) : <<>>[i].name # "clear"
    BY DEF Elements
<1>4. \A name, a : Opt(name, a).name = name
    BY DEF Opt
<1>5. CASE cmd = "setDefaults"
    <2>1. Opt(cmd, arg) \in Options /\ FirstOpts(cmd, arg) = <<Opt("setDefaults", arg)>>
        BY <1>1, <1>5 DEF ArgOK, Opt, Options, FirstOpts
    <2> QED
        BY <1>1, <1>2, <1>4, <1>5, <2>1 DEF Orders, RulesOf, ChangesOf, ModulesOf, Whole, ArgOK
<1>6. CASE cmd = "setModules"
    <2>1. Opt(cmd, arg) \in Options /\ FirstOpts(cmd, arg) = <<Opt("setModules", arg)>>
        BY <1>1, <1>6 DEF ArgOK, Opt, Options, FirstOpts
    <2>2. /\ RulesOf(cmd, arg) = {} /\ ChangesOf(cmd, arg) = {} /\ ModulesOf(cmd, arg) = {arg}
          /\ Whole(cmd, arg) = FALSE
        BY <1>6 DEF RulesOf, ChangesOf, ModulesOf, Whole
    <2>3. Elements(FirstOpts(cmd, arg)) = {Opt("setModules", m) : m \in {arg}}
        BY <1>2, <1>6, <2>1
    <2> QED  BY <1>2, <1>6, <2>1, <2>2, <2>3 DEF Orders
<1>7. CASE cmd = "addRules"
    <2>1. arg \in Seq(Rules) /\ FirstOpts(cmd, arg) = Adds(arg)
        BY <1>7 DEF Exact, FirstOpts
    <2>2. \A i \in 2..Len(Adds(arg)) : i \in 1..Len(Adds(arg))
        OBVIOUS
    <2> QED
        BY <1>7, <2>1, <2>2, AddsElements DEF Orders, RulesOf, ChangesOf, ModulesOf, Whole
<1>8. CASE cmd = "setProfile"
    <2> DEFINE R     == RulesOf(cmd, arg)
               D     == ChangesOf(cmd, arg)
               M     == ModulesOf(cmd, arg)
               whole == "rules" \in DOMAIN arg
               first == <<Opt("clear", 0)>>
               adds  == Adds(arg.rules)
               a     == IF whole THEN first \o adds ELSE <<>>
               b     == IF "defaults" \in DOMAIN arg THEN <<Opt("setDefaults", arg.defaults)>> ELSE <<>>
               c     == IF "modules" \in DOMAIN arg THEN <<Opt("setModules", arg.modules)>> ELSE <<>>
    <2>1. FirstOpts(cmd, arg) = (a \o b) \o c /\ Whole(cmd, arg) = whole
        <3>1. FirstOpts(cmd, arg) = ProfileOpts(arg) /\ Whole(cmd, arg) = whole
            BY <1>8 DEF FirstOpts, Whole
        <3>2. ProfileOpts(arg) = (a \o b) \o c
            BY DEF ProfileOpts
        <3> QED  BY <3>1, <3>2
    <2>2. /\ R = IF whole THEN ToSet(arg.rules) ELSE {}
          /\ D = IF "defaults" \in DOMAIN arg THEN {arg.defaults} ELSE {}
          /\ M = IF "modules" \in DOMAIN arg THEN {arg.modules} ELSE {}
        BY <1>8 DEF RulesOf, ChangesOf, ModulesOf
    <2>3. /\ whole => arg.rules \in Seq(Rules)
          /\ "defaults" \in DOMAIN arg => arg.defaults \in Changes
          /\ "modules" \in DOMAIN arg => arg.modules \in SUBSET Modules
        BY <1>1, <1>8 DEF ArgOK, Exact
    <2>4. R \subseteq Rules /\ D \subseteq Changes /\ (\A d, e \in D : d = e) /\ \A l, m \in M : l = m
        BY <2>2, <2>3, AddsElements
    <2>5. /\ Opt("clear", 0) \in Options
          /\ "defaults" \in DOMAIN arg => Opt("setDefaults", arg.defaults) \in Options
          /\ "modules" \in DOMAIN arg => Opt("setModules", arg.modules) \in Options
        BY <2>3 DEF Opt, Options
    <2>6. /\ b \in Seq(Options) /\ Elements(b) = {Opt("setDefaults", d) : d \in D}
          /\ \A i \in 1..Len(b) : b[i].name # "clear"
        BY <1>2, <1>3, <1>4, <2>2, <2>5
    <2>7. /\ c \in Seq(Options) /\ Elements(c) = {Opt("setModules", m) : m \in M}
          /\ \A i \in 1..Len(c) : c[i].name # "clear"
        BY <1>2, <1>3, <1>4, <2>2, <2>5
    <2>8. /\ first \in Seq(Options) /\ Elements(first) = {Opt("clear", 0)} /\ first # <<>>
          /\ first[1] = Opt("clear", 0) /\ \A i \in 2..Len(first) : first[i].name # "clear"
        BY <1>2, <2>5
    <2>9. /\ a \in Seq(Options)
          /\ Elements(a) = {Opt("clear", 0) : w \in {TRUE} \cap {whole}} \cup {Opt("add", r) : r \in R}
          /\ \A i \in 2..Len(a) : a[i].name # "clear"
          /\ whole => a # <<>> /\ a[1].name = "clear"
        <3>1. CASE whole
            <4>1. /\ adds \in Seq(Options) /\ Elements(adds) = {Opt("add", r) : r \in R}
                  /\ \A i \in 1..Len(adds) : adds[i].name # "clear"
                BY <2>2, <2>3, <3>1, AddsElements
            <4> HIDE DEF adds, first
            <4> DEFINE fa == first \o adds
            <4>2. /\ fa \in Seq(Options) /\ Elements(fa) = Elements(first) \cup Elements(adds)
                  /\ fa # <<>> /\ fa[1] = first[1]
                  /\ \A i \in 2..Len(fa) : fa[i].name # "clear"
                BY <2>8, <4>1, Joined
            <4>3. a = fa
                BY <3>1
            <4> HIDE DEF fa, a
            <4> QED  BY <1>4, <2>8, <3>1, <4>1, <4>2, <4>3
        <3>2. CASE ~whole
            <4>1. a = <<>> /\ R = {}
                BY <2>2, <3>2
            <4> QED  BY <1>3, <3>2, <4>1
        <3> QED  BY <3>1, <3>2
    <2> HIDE DEF a, b, c, R, D, M
    <2> DEFINE ab == a \o b
    <2>10. /\ ab \in Seq(Options) /\ Elements(ab) = Elements(a) \cup Elements(b)
           /\ \A i \in 2..Len(ab) : ab[i].name # "clear"
           /\ whole => ab # <<>> /\ ab[1].name = "clear"
        BY <2>6, <2>9, Joined
    <2> HIDE DEF ab
    <2> DEFINE abc == ab \o c
    <2>11. /\ abc \in Seq(Options) /\ Elements(abc) = Elements(ab) \cup Elements(c)
           /\ \A i \in 2..Len(abc) : abc[i].name # "clear"
           /\ whole => abc # <<>> /\ abc[1].name = "clear"
        BY <2>7, <2>10, Joined
    <2>12. FirstOpts(cmd, arg) = abc
        BY <2>1 DEF ab
    <2> HIDE DEF abc
    <2>13. Orders(abc, R, D, M, whole)
        BY <2>6, <2>7, <2>9, <2>10, <2>11 DEF Orders
    <2> QED  BY <2>1, <2>4, <2>12, <2>13 DEF R, D, M
<1> QED  BY <1>5, <1>6, <1>7, <1>8 DEF Planned

\* A command line that starts owes all that it is for.
LEMMA DebtBegins ==
    ASSUME NEW opts, NEW R, NEW D, NEW M, NEW whole, Orders(opts, R, D, M, whole),
           began' = be, be' = be, py' = Process(opts)
    PROVE  Debt(py, be, R, D, M, whole)'
<1> DEFINE p == Process(opts)
<1>1. p.opts = opts /\ p.pc = "start" /\ ~Setting(p)
    BY DEF Process, NoProc, Setting
<1>2. \A name, arg : Opt(name, arg).name = name /\ Opt(name, arg).arg = arg
    BY DEF Opt
<1> HIDE DEF p
<1>3. ASSUME NEW i \in 1..Len(opts)
      PROVE  \/ opts[i].name = "clear" /\ whole
             \/ opts[i].name = "add" /\ opts[i].arg \in R
             \/ opts[i].name = "setDefaults" /\ opts[i].arg \in D
             \/ opts[i].name = "setModules" /\ opts[i].arg \in M
    <2>1. opts[i] \in Elements(opts)
        BY DEF Elements
    <2> QED  BY <1>2, <2>1 DEF Orders
<1>4. Named(p, R, D, M)
    BY <1>1, <1>3 DEF Named
<1>5. ASSUME NEW name, NEW arg, Opt(name, arg) \in Elements(opts)
      PROVE  Waits(p, name, arg)
    <2>1. PICK i \in 1..Len(opts) : opts[i] = Opt(name, arg)
        BY <1>5 DEF Elements
    <2> QED  BY <1>1, <1>2, <2>1 DEF Waits
<1>6. /\ \A r \in R : Waits(p, "add", r)
      /\ \A d \in D : Waits(p, "setDefaults", d)
      /\ \A m \in M : Waits(p, "setModules", m)
    <2>1. /\ \A r \in R : Opt("add", r) \in Elements(opts)
          /\ \A d \in D : Opt("setDefaults", d) \in Elements(opts)
          /\ \A m \in M : Opt("setModules", m) \in Elements(opts)
        BY DEF Orders
    <2> QED  BY <1>5, <2>1
<1>7. Clears(p) => whole
    BY <1>1, <1>3 DEF Clears
<1>8. whole => Clears(p) /\ p.opts[1].name = "clear" /\ \A i \in 2..Len(p.opts) : p.opts[i].name # "clear"
    <2> SUFFICES ASSUME whole
                 PROVE  /\ Clears(p) /\ p.opts[1].name = "clear"
                        /\ \A i \in 2..Len(p.opts) : p.opts[i].name # "clear"
        OBVIOUS
    <2>1. /\ opts \in Seq(Options) /\ opts # <<>> /\ opts[1].name = "clear"
          /\ \A i \in 2..Len(opts) : opts[i].name # "clear"
        BY DEF Orders
    <2>2. 1 \in 1..Len(opts)
        BY <2>1
    <2> QED  BY <1>1, <2>1, <2>2 DEF Clears
<1>9. py' = p
    BY DEF p
<1> QED
    BY <1>1, <1>4, <1>6, <1>7, <1>8, <1>9
        DEF Debt, StatusDebt, SettingsDebt, ModulesDebt, RulesDebt

\* The debt as it stands after a step, and with the call's own store.
LEMMA DebtKept ==
    ASSUME NEW R, NEW D, NEW M, NEW whole, began' = began,
           Debt(py', be', R, D, M, whole)
    PROVE  Debt(py, be, R, D, M, whole)'
BY DEF Debt, StatusDebt, SettingsDebt, ModulesDebt, RulesDebt

\* When nothing waits any more, the command has done what success promises.
LEMMA DebtPaid ==
    ASSUME NEW cmd \in Planned, NEW arg, Exact(cmd, arg), PyOK, began \in Stores, py.opts = <<>>,
           Debt(py, be, RulesOf(cmd, arg), ChangesOf(cmd, arg), ModulesOf(cmd, arg),
                Whole(cmd, arg))
    PROVE  Done(cmd, arg)
<1> DEFINE R     == RulesOf(cmd, arg)
           D     == ChangesOf(cmd, arg)
           M     == ModulesOf(cmd, arg)
           whole == Whole(cmd, arg)
<1>1. ~Setting(py) /\ ~Clears(py) /\ \A name, a : ~Waits(py, name, a)
    BY DEF Setting, Clears, Waits
<1>2. be.enabled = began.enabled
    BY <1>1 DEF Debt, StatusDebt
<1>3. \A m \in M : be.modules = m
    BY <1>1 DEF Debt, ModulesDebt
<1>4. \A d \in D : "ipv6" \notin DOMAIN d /\ be.set = Overridden(began.set, d)
    <2> SUFFICES ASSUME NEW d \in D
                 PROVE  "ipv6" \notin DOMAIN d /\ be.set = Overridden(began.set, d)
        OBVIOUS
    <2>1. /\ "ipv6" \notin DOMAIN d
          /\ \A n \in SettingNames \ DOMAIN d : be.set[n] = began.set[n]
          /\ \A n \in DOMAIN d : be.set[n] = d[n]
        BY <1>1 DEF Debt, SettingsDebt
    <2>2. be.set = [n \in SettingNames |-> be.set[n]]
        BY DEF PyOK, Good, Stores, Settings
    <2> QED  BY <2>1, <2>2 DEF Overridden
<1>5. /\ \A r \in R : \E s \in R \cap InForce(be) : s.spec = r.spec
      /\ whole => \A s \in InForce(be) : \E r \in R : r.spec = s.spec
    BY <1>1 DEF Debt, RulesDebt
<1>6. D = {} => be.set = began.set
    BY DEF Debt, SettingsDebt
<1>7. \A rules : SpecsOf(rules) = {r.spec : r \in ToSet(rules)}
    BY DEF SpecsOf, ToSet
<1>8. CASE cmd = "setDefaults"
    BY <1>2, <1>4, <1>8 DEF Done, ChangesOf
<1>9. CASE cmd = "setModules"
    BY <1>3, <1>9 DEF Done, ModulesOf
<1>10. CASE cmd = "addRules"
    <2>1. R = ToSet(arg)
        BY <1>10 DEF RulesOf
    <2>2. {r.spec : r \in ToSet(arg)} = {r.spec : r \in ToSet(arg) \cap InForce(be)}
        BY <1>5, <2>1
    <2> QED  BY <1>7, <1>10, <2>2 DEF Done
<1>11. CASE cmd = "setProfile"
    <2>1. "rules" \in DOMAIN arg => R = ToSet(arg.rules) /\ whole
        BY <1>11 DEF RulesOf, Whole
    <2>2. "rules" \in DOMAIN arg => {r.spec : r \in InForce(be)} = SpecsOf(arg.rules)
        <3>1. "rules" \in DOMAIN arg =>
                {r.spec : r \in InForce(be)} = {r.spec : r \in ToSet(arg.rules)}
            BY <1>5, <2>1
        <3> QED  BY <1>7, <3>1
    <2>3. /\ D = IF "defaults" \in DOMAIN arg THEN {arg.defaults} ELSE {}
          /\ "modules" \in DOMAIN arg => M = {arg.modules}
        BY <1>11 DEF ChangesOf, ModulesOf
    <2>4. "defaults" \notin DOMAIN arg
        BY <1>4, <1>11, <2>3 DEF Exact
    <2>5. ProfileInForce(arg)
        BY <1>2, <1>3, <1>6, <2>2, <2>3, <2>4 DEF ProfileInForce
    <2> QED  BY <1>11, <2>5 DEF Done
<1> QED  BY <1>8, <1>9, <1>10, <1>11 DEF Planned

\* A rule that is moved while there is only one list.
LEMMA MovedList ==
    ASSUME NEW b, Good(b), ~Ipv6On(b), NEW from \in 1..NumRules(b), NEW to \in Nat \ {0}
    PROVE  InsertRule(DeleteRule(b, from).store, RuleAt(b, from), to, StoredFamily(RuleAt(b, from))).store.v4
             = Moved(b.v4, from, to)
BY MovedRule DEF Moved

\* The commands that are one option: what has been done while it is executed.
Sole == {"setStatus", "removeRule", "moveRule", "reset"}

OneDebt(cmd, arg) ==
    IF py.opts = <<>> THEN Done(cmd, arg)
    ELSE /\ py.opts = FirstOpts(cmd, arg)
         /\ cmd = "removeRule" => be = began
         /\ cmd = "moveRule" =>
              \/ py.pc = "start" /\ be = began
              \/ /\ py.pc = "insert" /\ arg.from \in 1..NumRules(began)
                 /\ be = DeleteRule(began, arg.from).store /\ py.held = RuleAt(began, arg.from)

\* The option of such a command.
LEMMA SoleOption ==
    ASSUME PyOK, NEW cmd \in Sole, NEW arg, py.opts = FirstOpts(cmd, arg)
    PROVE  /\ py.opts # <<>> /\ NextOption.opts = <<>> /\ (cmd # "reset" => Arg = arg)
           /\ Head(py.opts).name = CASE cmd = "setStatus"  -> "setEnabled"
                                     [] cmd = "removeRule" -> "remove"
                                     [] cmd = "moveRule"   -> "move"
                                     [] cmd = "reset"      -> "reset"
<1> DEFINE name == CASE cmd = "setStatus"  -> "setEnabled"
                     [] cmd = "removeRule" -> "remove"
                     [] cmd = "moveRule"   -> "move"
                     [] cmd = "reset"      -> "reset"
           val == IF cmd = "reset" THEN 0 ELSE arg
           o   == Opt(name, val)
<1>1. py.opts = <<o>>
    BY DEF FirstOpts, Sole
<1>2. o.name = name /\ o.arg = val
    BY DEF Opt
<1> HIDE DEF o
<1>3. py.opts # <<>> /\ Head(py.opts) = o /\ Tail(py.opts) = <<>>
    BY <1>1
<1>4. NextOption.opts = Tail(py.opts)
    BY DEF NextOption, Process, NoProc
<1>5. Arg = val
    BY <1>2, <1>3 DEF Arg
<1> QED  BY <1>2, <1>3, <1>4, <1>5

\* A step of such a command goes on with its option, or has done it.
LEMMA OneDebtStep ==
    ASSUME PyOK, PyStep, Good(began), began' = began, py'.state # "failed",
           NEW cmd \in Sole, NEW arg, Exact(cmd, arg), OneDebt(cmd, arg)
    PROVE  OneDebt(cmd, arg)'
<1>1. Good(be) /\ be \in Stores /\ py \in Processes
    BY DEF PyOK, ProcOK, Good
<1>2. CASE Exit
    <2>1. py.opts = <<>> /\ py'.opts = <<>> /\ be' = be
        BY <1>2 DEF Exit, Ended, NoProc
    <2>2. Done(cmd, arg)
        BY <2>1 DEF OneDebt
    <2>3. Done(cmd, arg)'
        BY <2>1, <2>2 DEF Done, Sole
    <2> QED  BY <2>1, <2>3 DEF OneDebt
<1>3. CASE ~Exit
    <2>1. py.opts # <<>>
        BY <1>3 DEF PyStep, At, AddRule, UpdateDelete, UpdateInsert, UpdateRestore, RemoveRule,
            MoveDelete, MoveInsert, ClearCount, ClearOne, ClearDone, SetEnabled, DefaultsDisable,
            DefaultsSet, DefaultsEnable, SetModules, ResetDefaults, ResetWipe, Query
    <2>2. py.opts = FirstOpts(cmd, arg)
        BY <2>1 DEF OneDebt
    <2>3. NextOption.opts = <<>> /\ (cmd # "reset" => Arg = arg)
        BY <2>2, SoleOption
    <2>4. CASE cmd = "setStatus"
        <3>1. Head(py.opts).name = "setEnabled"
            BY <2>2, <2>4, SoleOption
        <3>2. SetEnabled
            BY <1>3, <3>1 DEF PyStep, At, AddRule, UpdateDelete, UpdateInsert, UpdateRestore,
                RemoveRule, MoveDelete, MoveInsert, ClearCount, ClearOne, ClearDone, DefaultsDisable,
                DefaultsSet, DefaultsEnable, SetModules, ResetDefaults, ResetWipe, Query, Parts
        <3>3. py' = NextOption /\ be'.enabled = arg
            <4>1. CASE be.enabled = Arg
                BY <2>3, <2>4, <3>2, <4>1 DEF SetEnabled
            <4>2. CASE be.enabled # Arg
                <5> DEFINE on     == [be EXCEPT !.enabled = Arg]
                           result == Ok(on)
                           broken == {[be EXCEPT !.enabled = FALSE]}
                <5>1. LibCall(result, broken, NextOption, Abort)
                    BY <3>2, <4>2 DEF SetEnabled, Switch
                <5>2. result.store = on /\ on.enabled = Arg
                    BY <1>1 DEF Ok, Stores
                <5> HIDE DEF result, broken, on
                <5>3. be' = on /\ py' = NextOption
                    BY <5>1, <5>2, Returned
                <5> QED  BY <2>3, <2>4, <5>2, <5>3
            <4> QED  BY <4>1, <4>2
        <3> QED  BY <2>3, <2>4, <3>3 DEF OneDebt, Done
    <2>5. CASE cmd = "removeRule"
        <3> DEFINE result == DeleteRule(be, Arg)
        <3>1. Head(py.opts).name = "remove" /\ be = began
            BY <2>1, <2>2, <2>5, SoleOption DEF OneDebt
        <3>2. RemoveRule
            BY <1>3, <3>1 DEF PyStep, At, AddRule, UpdateDelete, UpdateInsert, UpdateRestore,
                MoveDelete, MoveInsert, ClearCount, ClearOne, ClearDone, SetEnabled, DefaultsDisable,
                DefaultsSet, DefaultsEnable, SetModules, ResetDefaults, ResetWipe, Query, Parts
        <3>3. RuleCall(result, NextOption, Abort)
            BY <3>2 DEF RemoveRule
        <3>4. result.ok => Arg \in 1..NumRules(be)
            BY DEF DeleteRule, Raised
        <3> HIDE DEF result
        <3>5. result.ok = TRUE /\ be' = result.store /\ py' = NextOption
            BY <3>3, RuleReturned
        <3>6. Listing(be') = RemoveAt(Listing(began), arg)
            <4>1. Arg \in 1..NumRules(be) /\ Arg = arg
                BY <2>3, <2>5, <3>4, <3>5
            <4> QED  BY <1>1, <3>1, <3>5, <4>1, DeletedListing DEF result
        <3>7. Listing(be)' = RemoveAt(Listing(began)', arg)
            BY <3>6 DEF Listing, RuleAt, NumRules, Num4, Num6, Ipv6On
        <3>8. Done(cmd, arg)'
            BY <2>5, <3>7 DEF Done
        <3> QED  BY <2>3, <3>5, <3>8 DEF OneDebt
    <2>6. CASE cmd = "moveRule"
        <3>1. Head(py.opts).name = "move"
            BY <2>2, <2>6, SoleOption
        <3>2. MoveDelete \/ MoveInsert
            BY <1>3, <3>1 DEF PyStep, At, AddRule, UpdateDelete, UpdateInsert, UpdateRestore,
                RemoveRule, ClearCount, ClearOne, ClearDone, SetEnabled, DefaultsDisable,
                DefaultsSet, DefaultsEnable, SetModules, ResetDefaults, ResetWipe, Query, Parts
        <3>3. \/ py.pc = "start" /\ be = began
              \/ /\ py.pc = "insert" /\ arg.from \in 1..NumRules(began)
                 /\ be = DeleteRule(began, arg.from).store /\ py.held = RuleAt(began, arg.from)
            BY <2>1, <2>6 DEF OneDebt
        <3>4. CASE MoveDelete
            <4> DEFINE known  == Arg.from # Arg.to /\ Arg.from \in 1..NumRules(be)
                       result == IF known THEN DeleteRule(be, Arg.from) ELSE Raised(be)
                       next   == [py EXCEPT !.pc = "insert", !.held = RuleAt(be, Arg.from)]
            <4>1. py.pc = "start" /\ RuleCall(result, next, Abort)
                BY <3>4 DEF MoveDelete, At
            <4>2. result.ok => known /\ result.store = DeleteRule(be, Arg.from).store
                BY DEF Raised
            <4>3. /\ next.opts = py.opts /\ next.pc = "insert"
                  /\ next.held = RuleAt(be, Arg.from)
                BY <1>1 DEF Processes
            <4> HIDE DEF result, next
            <4>4. result.ok = TRUE /\ be' = result.store /\ py' = next
                BY <4>1, RuleReturned
            <4>5. /\ arg.from \in 1..NumRules(began) /\ be' = DeleteRule(began, arg.from).store
                  /\ py'.held = RuleAt(began, arg.from)
                BY <2>3, <2>6, <3>3, <4>1, <4>2, <4>3, <4>4
            <4>6. /\ NumRules(began)' = NumRules(began)
                  /\ DeleteRule(began, arg.from)' = DeleteRule(began, arg.from)
                  /\ RuleAt(began, arg.from)' = RuleAt(began, arg.from)
                BY DEF DeleteRule, RuleAt, NumRules, Num4, Num6, Ipv6On, Ok, Raised
            <4> QED  BY <2>1, <2>2, <2>6, <4>3, <4>4, <4>5, <4>6 DEF OneDebt
        <3>5. CASE MoveInsert
            <4> DEFINE result == InsertRule(be, py.held, Arg.to, StoredFamily(py.held))
            <4>1. py.pc = "insert" /\ RuleCall(result, NextOption, Abort)
                BY <3>5 DEF MoveInsert, At
            <4>2. /\ arg.from \in 1..NumRules(began) /\ Arg = arg
                  /\ be = DeleteRule(began, arg.from).store /\ py.held = RuleAt(began, arg.from)
                BY <2>3, <2>6, <3>3, <4>1
            <4>3. arg.to \in Nat \ {0}
                BY <2>6 DEF Exact
            <4>4. SameSettings(began, be) /\ SameSettings(be, result.store)
                BY <1>1, <4>2, DeleteRuleGood, RulesOnly
            <4>5. ~Ipv6On(result.store) => result.store.v4 = Moved(began.v4, arg.from, arg.to)
                <5>1. Ipv6On(began) <=> Ipv6On(result.store)
                    BY <4>4 DEF SameSettings, Ipv6On
                <5> QED  BY <4>2, <4>3, <5>1, MovedList
            <4> HIDE DEF result
            <4>6. be' = result.store /\ py' = NextOption
                BY <4>1, RuleReturned
            <4>7. (~Ipv6On(be) => be.v4 = Moved(began.v4, arg.from, arg.to))'
                <5>1. ~Ipv6On(be') => be'.v4 = Moved(began.v4, arg.from, arg.to)
                    BY <4>5, <4>6
                <5> QED  BY <5>1 DEF Ipv6On, Moved
            <4>8. Done(cmd, arg)'
                BY <2>6, <4>7 DEF Done
            <4> QED  BY <2>3, <4>6, <4>8 DEF OneDebt
        <3> QED  BY <3>2, <3>4, <3>5
    <2>7. CASE cmd = "reset"
        <3>1. Head(py.opts).name = "reset"
            BY <2>2, <2>7, SoleOption
        <3>2. ResetDefaults \/ ClearOne \/ ClearDone \/ ResetWipe
            BY <1>3, <3>1 DEF PyStep, At, AddRule, UpdateDelete, UpdateInsert, UpdateRestore,
                RemoveRule, MoveDelete, MoveInsert, ClearCount, SetEnabled, DefaultsDisable,
                DefaultsSet, DefaultsEnable, SetModules, Query, Parts
        <3>3. CASE py'.opts = py.opts
            BY <2>1, <2>2, <2>7, <3>3 DEF OneDebt
        <3>4. CASE ResetDefaults
            <4> DEFINE all     == Ok(Loaded(Len(DefaultsOrder) + 1))
                       some    == {Loaded(k) : k \in 0..Len(DefaultsOrder)}
                       cleared == [py EXCEPT !.pc = "clearing", !.left = NumRules(be)]
            <4>1. LibCall(all, some, cleared, cleared) /\ cleared.opts = py.opts
                BY <1>1, <3>4 DEF ResetDefaults, Processes
            <4> HIDE DEF all, some, cleared
            <4>2. py' = cleared
                BY <4>1 DEF LibCall
            <4> QED  BY <3>3, <4>1, <4>2
        <3>5. CASE ClearOne
            <4> DEFINE result == DeleteRule(be, 1)
                       done   == [py EXCEPT !.left = @ - 1]
            <4>1. RuleCall(result, done, Abort) /\ done.opts = py.opts
                BY <1>1, <3>5 DEF ClearOne, Processes
            <4> HIDE DEF result, done
            <4>2. py' = done
                BY <4>1, RuleReturned
            <4> QED  BY <3>3, <4>1, <4>2
        <3>6. CASE ClearDone
            <4> DEFINE wiping == [py EXCEPT !.pc = "wipe"]
            <4>1. py' = wiping /\ wiping.opts = py.opts
                BY <1>1, <3>1, <3>6 DEF ClearDone, At, Processes
            <4> QED  BY <3>3, <4>1
        <3>7. CASE ResetWipe
            <4> DEFINE wiped == Ok(ResetStore(be))
                       off   == {be, [be EXCEPT !.enabled = FALSE]}
            <4>1. LibCall(wiped, off, NextOption, Abort)
                BY <3>7 DEF ResetWipe
            <4>2. /\ wiped.store.enabled = FALSE
                  /\ wiped.store.v4 = <<>> /\ wiped.store.v6 = <<>>
                BY DEF Ok, ResetStore
            <4> HIDE DEF wiped, off
            <4>3. py' = NextOption /\ be' = wiped.store
                BY <4>1, Returned
            <4>4. Done(cmd, arg)'
                BY <2>7, <4>2, <4>3 DEF Done
            <4> QED  BY <2>3, <4>3, <4>4 DEF OneDebt
        <3> QED  BY <3>2, <3>4, <3>5, <3>6, <3>7
    <2> QED  BY <2>4, <2>5, <2>6, <2>7 DEF Sole
<1> QED  BY <1>2, <1>3

\* What the first run of a command still owes.
Owed(cmd, arg) ==
    /\ cmd \in Planned =>
         Debt(py, be, RulesOf(cmd, arg), ChangesOf(cmd, arg), ModulesOf(cmd, arg), Whole(cmd, arg))
    /\ cmd \in Sole => OneDebt(cmd, arg)

\* How far a call has come, as long as nothing was killed.
Progress(cmd, arg) ==
    /\ py.state # "killed"
    /\ py.state # "running" => py.opts = <<>>
    /\ call.phase = "first" => py.state = "failed" \/ Owed(cmd, arg)
    /\ call.phase = "second" => Within(py.opts, Parts) /\ Done(cmd, arg)
    /\ call.phase = "reply" /\ call.ok => Done(cmd, arg)

\* The inductive invariant: the first run owes or has done what the call is
\* for, and the second leaves it done.
DoneInv ==
    /\ EnableInv
    /\ Good(began)
    /\ call.phase # "none" => Exact(call.cmd, call.arg)
    /\ kills = 0 => \A cmd, arg : call.cmd = cmd /\ call.arg = arg => Progress(cmd, arg)

\* What is done stays done while the store does.
LEMMA DoneKept ==
    ASSUME NEW cmd, NEW arg, be' = be, began' = began, Done(cmd, arg)
    PROVE  Done(cmd, arg)'
BY DEF Done, ProfileInForce, InForce, Listing, NumRules, Num4, Num6, Ipv6On, RuleAt

\* A first run that has executed its options has done what it is for.
LEMMA OwedPaid ==
    ASSUME NEW cmd, NEW arg, Exact(cmd, arg), PyOK, began \in Stores, py.opts = <<>>, Owed(cmd, arg)
    PROVE  Done(cmd, arg)
<1>1. CASE cmd \in Planned
    BY <1>1, DebtPaid DEF Owed
<1>2. CASE cmd \in Sole
    BY <1>2 DEF Owed, OneDebt
<1>3. CASE cmd \notin Planned \cup Sole
    BY <1>3 DEF Done, Planned, Sole
<1> QED  BY <1>1, <1>2, <1>3

\* A step of the first run pays.
LEMMA OwedStep ==
    ASSUME NEW cmd, NEW arg, Exact(cmd, arg), PyOK, PyStep, Good(began), began' = began,
           py'.state # "failed", Owed(cmd, arg)
    PROVE  Owed(cmd, arg)'
<1>1. ASSUME cmd \in Planned
      PROVE  Debt(py, be, RulesOf(cmd, arg), ChangesOf(cmd, arg), ModulesOf(cmd, arg),
                  Whole(cmd, arg))'
    <2> DEFINE R     == RulesOf(cmd, arg)
               D     == ChangesOf(cmd, arg)
               M     == ModulesOf(cmd, arg)
               whole == Whole(cmd, arg)
    <2>1. R \subseteq Rules /\ D \subseteq Changes /\ (\A d, e \in D : d = e) /\ \A l, m \in M : l = m
        BY <1>1, CommandOrders
    <2>2. Debt(py, be, R, D, M, whole)
        BY <1>1 DEF Owed
    <2> HIDE DEF R, D, M, whole
    <2>3. Debt(py', be', R, D, M, whole)
        BY <2>1, <2>2, DebtStep
    <2>4. Debt(py, be, R, D, M, whole)'
        BY <2>3, DebtKept
    <2> QED  BY <2>4 DEF R, D, M, whole
<1>2. ASSUME cmd \in Sole PROVE OneDebt(cmd, arg)'
    BY <1>2, OneDebtStep DEF Owed
<1> QED  BY <1>1, <1>2 DEF Owed

\* A step of the second run, which only reads, leaves it done.
LEMMA ReadingStep ==
    ASSUME NEW cmd, NEW arg, PyOK, PyHelperAssumption, PyStep, began' = began,
           Within(py.opts, Parts), Done(cmd, arg)
    PROVE  Within(py.opts, Parts)' /\ Done(cmd, arg)'
<1>1. StepEffect \/ be' = be
    BY ProcessStep
<1>2. Follows(py') /\ be \in Stores /\ be' \in Stores
    BY ProcessStep, PyStepType DEF PyOK, Good
<1>3. Within(py'.opts, Parts)
    BY <1>2, WithinFollows
<1>4. be' = be
    <2>1. CASE StepEffect
        <3>1. Head(py.opts).name \in Parts
            BY <2>1, FirstWithin DEF StepEffect
        <3>2. /\ be'.v4 = be.v4 /\ be'.v6 = be.v6 /\ be'.enabled = be.enabled
              /\ be'.set = be.set /\ be'.modules = be.modules
            BY <2>1, <3>1 DEF StepEffect, Affects, Changing, Parts
        <3> QED  BY <1>2, <3>2 DEF Stores
    <2> QED  BY <1>1, <2>1
<1> QED  BY <1>3, <1>4, DoneKept DEF Within

\* A request owes everything it asks for.
LEMMA DoneRequest ==
    ASSUME DoneInv, NEW cmd \in Cmds, NEW arg, Exact(cmd, arg), Request(cmd, arg)
    PROVE  DoneInv'
<1>1. ArgOK(cmd, arg) /\ EnableInv' /\ be' = be /\ began' = be /\ Good(be) /\ kills' = kills
    BY EnableRequest DEF DoneInv, EnableInv, TypeInv, HelperOK, PyOK, Request, Exact
<1>2. Submit(cmd, arg) /\ py = NoProc
    BY DEF Request, DoneInv, EnableInv
<1> DEFINE request == [NoCall EXCEPT !.cmd = cmd, !.arg = arg]
<1>3. \A phase : /\ [request EXCEPT !.phase = phase].phase = phase
                 /\ [request EXCEPT !.phase = phase].cmd = cmd
                 /\ [request EXCEPT !.phase = phase].arg = arg
                 /\ [request EXCEPT !.phase = phase].ok = FALSE
    BY DEF NoCall
<1>4. \A opts : Process(opts).opts = opts /\ Process(opts).state = "running" /\ Process(opts).pc = "start"
    BY DEF Process, NoProc
<1>5. call'.cmd = cmd /\ call'.arg = arg /\ call'.phase \in {"first", "second", "reply"}
    BY <1>2, <1>3 DEF Submit
<1>6. Progress(cmd, arg)'
    <2>1. CASE cmd = "query"
        <3>1. /\ call'.phase = "second" /\ py' = Process(Queries(SecondParts(cmd, arg)))
            BY <1>2, <1>3, <2>1 DEF Submit
        <3>2. Within(py'.opts, Parts) /\ py'.state = "running"
            BY <1>4, <3>1, CommandsWithin
        <3>3. Done(cmd, arg)'
            BY <2>1 DEF Done
        <3> QED  BY <3>1, <3>2, <3>3 DEF Progress, Within
    <2>2. CASE cmd # "query" /\ FirstOpts(cmd, arg) = <<>>
        <3>1. call'.phase = "reply" /\ call'.ok = FALSE /\ py' = NoProc
            BY <1>2, <1>3, <2>2 DEF Submit
        <3> QED  BY <3>1 DEF Progress, NoProc
    <2>3. CASE cmd # "query" /\ FirstOpts(cmd, arg) # <<>>
        <3>1. call'.phase = "first" /\ py' = Process(FirstOpts(cmd, arg))
            BY <1>2, <1>3, <2>3 DEF Submit
        <3>2. py'.state = "running" /\ py'.opts = FirstOpts(cmd, arg) /\ py'.pc = "start"
            BY <1>4, <3>1
        <3>3. cmd \in Planned =>
                Debt(py, be, RulesOf(cmd, arg), ChangesOf(cmd, arg), ModulesOf(cmd, arg),
                     Whole(cmd, arg))'
            BY <1>1, <3>1, CommandOrders, DebtBegins
        <3>4. OneDebt(cmd, arg)'
            BY <1>1, <2>3, <3>2 DEF OneDebt
        <3>5. Owed(cmd, arg)'
            BY <3>3, <3>4 DEF Owed
        <3> QED  BY <3>1, <3>2, <3>5 DEF Progress
    <2> QED  BY <2>1, <2>2, <2>3
<1>7. \A c, a : call'.cmd = c /\ call'.arg = a => c = cmd /\ a = arg
    BY <1>5
<1>8. (\A c, a : call.cmd = c /\ call.arg = a => Progress(c, a))'
    BY <1>6, <1>7
<1>9. Exact(call.cmd, call.arg)'
    BY <1>5
<1> QED  BY <1>1, <1>8, <1>9 DEF DoneInv

\* A step of the helper, or of its process, keeps track of what is owed.
LEMMA DoneServe ==
    ASSUME PyHelperAssumption, DoneInv, Serve
    PROVE  DoneInv'
<1>1. /\ HelperStep /\ began' = began /\ EnableInv /\ EnableInv' /\ PyOK /\ kills \in Nat
      /\ CallOK /\ Good(began) /\ began \in Stores
    <2>1. HelperStep /\ began' = began /\ EnableInv /\ Good(began)
        BY DEF Serve, DoneInv
    <2>2. PyOK /\ CallOK
        BY <2>1 DEF EnableInv, TypeInv, HelperOK
    <2>3. kills \in Nat
        BY <2>2 DEF PyOK
    <2>4. began \in Stores
        BY <2>1 DEF Good
    <2>5. EnableInv'
        BY <2>1, EnableServe
    <2> QED  BY <2>1, <2>2, <2>3, <2>4, <2>5
<1>2. call'.cmd = call.cmd /\ call'.arg = call.arg
    BY <1>1, HelperStepType DEF EnableInv, TypeInv
<1>3. PICK cmd, arg : call.cmd = cmd /\ call.arg = arg
    OBVIOUS
<1>4. call.phase # "none" /\ Exact(cmd, arg)
    <2>1. CASE PyStep \/ Kill
        <3>1. py.state = "running"
            BY <1>1, <2>1, ProcessStep
        <3> QED  BY <1>1, <1>3, <3>1 DEF DoneInv, EnableInv, NoProc
    <2>2. CASE FirstEnded \/ SecondEnded
        BY <1>3, <2>2 DEF FirstEnded, SecondEnded, DoneInv
    <2> QED  BY <1>1, <2>1, <2>2 DEF HelperStep
<1>5. Exact(call.cmd, call.arg)'
    BY <1>2, <1>3, <1>4
<1>6. ASSUME NEW phase, NEW ok, NEW parts
      PROVE  /\ [call EXCEPT !.phase = phase].phase = phase
             /\ [call EXCEPT !.phase = "reply", !.ok = ok, !.parts = parts].phase = "reply"
             /\ [call EXCEPT !.phase = "reply", !.ok = ok, !.parts = parts].ok = ok
    <2>1. /\ call = [phase |-> call.phase, cmd |-> call.cmd, arg |-> call.arg,
                     ok |-> call.ok, parts |-> call.parts]
        BY <1>1 DEF CallOK, Calls
    <2> QED  BY <2>1
<1>7. ASSUME kills' = 0 PROVE Progress(cmd, arg)'
    <2>1. kills = 0 /\ ~Kill
        <3>1. ~Kill
            BY <1>1, <1>7 DEF Kill
        <3>2. PyStep => kills' = kills
            BY <1>1, KillsNothing
        <3>3. FirstEnded \/ SecondEnded => kills' = kills
            BY DEF FirstEnded, SecondEnded
        <3> QED  BY <1>1, <1>7, <3>1, <3>2, <3>3 DEF HelperStep
    <2>2. Progress(cmd, arg)
        BY <1>3, <2>1 DEF DoneInv
    <2>3. CASE PyStep /\ UNCHANGED call
        <3>1. py.state = "running" /\ Follows(py') /\ py'.state # "killed"
            BY <1>1, <2>3, ProcessStep, KillsNothing
        <3>2. call'.phase = call.phase /\ call.phase \in {"first", "second"}
            <4>1. py # NoProc
                BY <3>1 DEF NoProc
            <4>2. call.phase \in Phases
                BY <1>1 DEF CallOK, Calls
            <4> QED  BY <1>1, <2>3, <4>1, <4>2 DEF EnableInv, Phases
        <3>3. py'.state # "running" => py'.opts = <<>>
            BY <3>1 DEF Follows
        <3>4. CASE call.phase = "first"
            <4>1. Owed(cmd, arg)
                BY <2>2, <3>1, <3>4 DEF Progress
            <4>2. py'.state = "failed" \/ Owed(cmd, arg)'
                BY <1>1, <1>4, <2>3, <4>1, OwedStep
            <4> QED  BY <3>1, <3>2, <3>3, <3>4, <4>2 DEF Progress
        <3>5. CASE call.phase = "second"
            <4>1. Within(py.opts, Parts)' /\ Done(cmd, arg)'
                BY <1>1, <2>2, <2>3, <3>5, ReadingStep DEF Progress
            <4> QED  BY <3>1, <3>2, <3>3, <3>5, <4>1 DEF Progress
        <3> QED  BY <3>2, <3>4, <3>5
    <2>4. CASE FirstEnded
        <3>1. be' = be /\ call.phase = "first" /\ py.state # "killed"
            BY <2>2, <2>4 DEF FirstEnded, Progress
        <3>2. CASE py.state = "exited"
            <4>1. py' = SecondRun /\ call' = [call EXCEPT !.phase = "second"]
                BY <2>4, <3>2 DEF FirstEnded
            <4>2. py.opts = <<>> /\ Owed(cmd, arg)
                BY <2>2, <3>1, <3>2 DEF Progress
            <4>3. Done(cmd, arg)'
                BY <1>1, <1>4, <3>1, <4>2, OwedPaid, DoneKept
            <4>4. py'.state = "running" /\ py'.opts = Queries(SecondParts(call.cmd, call.arg))
                BY <4>1 DEF SecondRun, Process, NoProc
            <4>5. Within(py'.opts, Parts)
                BY <4>4, CommandsWithin
            <4>6. call'.phase = "second"
                BY <1>6, <4>1
            <4> QED  BY <4>3, <4>4, <4>5, <4>6 DEF Progress, Within
        <3>3. CASE py.state # "exited"
            <4>1. py' = NoProc /\ call' = Replied(FALSE, {})
                BY <2>4, <3>1, <3>3 DEF FirstEnded
            <4>2. call'.phase = "reply" /\ call'.ok = FALSE
                BY <1>6, <4>1 DEF Replied
            <4> QED  BY <4>1, <4>2 DEF Progress, NoProc
        <3> QED  BY <3>2, <3>3
    <2>5. CASE SecondEnded
        <3>1. /\ be' = be /\ call.phase = "second" /\ py' = NoProc
              /\ call' = Replied(py.state # "failed", py.out)
            BY <2>5 DEF SecondEnded
        <3>2. call'.phase = "reply"
            BY <1>6, <3>1 DEF Replied
        <3>3. Done(cmd, arg)'
            BY <1>1, <2>2, <3>1, DoneKept DEF Progress
        <3> QED  BY <3>1, <3>2, <3>3 DEF Progress, NoProc
    <2> QED  BY <1>1, <2>1, <2>3, <2>4, <2>5 DEF HelperStep
<1>8. kills' = 0 => (\A c, a : call.cmd = c /\ call.arg = a => Progress(c, a))'
    BY <1>2, <1>3, <1>7
<1>9. Good(began)'
    BY <1>1
<1> QED  BY <1>1, <1>5, <1>8, <1>9 DEF DoneInv

\* The invariant about what is owed is inductive.
LEMMA DoneInductive ==
    ASSUME PyHelperAssumption, StoreCallsAssumption
    PROVE  /\ Init => DoneInv
           /\ DoneInv /\ [Next]_vars => DoneInv'
<1>1. ASSUME Init PROVE DoneInv
    <2>1. EnableInv /\ Good(began) /\ call.phase = "none" /\ py = NoProc
        BY <1>1, EnableInductive, InitialStores DEF Init, NoCall
    <2>2. \A cmd, arg : Progress(cmd, arg)
        BY <2>1 DEF Progress, NoProc
    <2> QED  BY <2>1, <2>2 DEF DoneInv
<1>2. ASSUME DoneInv, [Next]_vars PROVE DoneInv'
    <2>1. TypeInv /\ EnableInv /\ EnableInv'
        BY <1>2, EnableInductive DEF DoneInv, EnableInv
    <2>2. CASE \/ RequestQuery \/ RequestSetStatus \/ RequestSetDefaults \/ RequestSetModules
               \/ RequestSetProfile \/ RequestAddRules \/ RequestRemoveRule \/ RequestMoveRule
               \/ RequestEditRule \/ RequestReset
        BY <1>2, <2>1, <2>2, Requests, DoneRequest
    <2>3. CASE Serve
        BY <1>2, <2>3, DoneServe
    <2>4. CASE TakeReply
        <3>1. /\ call'.phase = "none" /\ py = NoProc /\ py' = py /\ began' = be /\ Good(be)
            BY <2>1, <2>4 DEF TakeReply, NoCall, EnableInv, TypeInv, HelperOK, PyOK
        <3>2. \A cmd, arg : Progress(cmd, arg)'
            BY <3>1 DEF Progress, NoProc
        <3>3. Good(began)'
            BY <3>1
        <3> QED  BY <2>1, <3>1, <3>2, <3>3 DEF DoneInv
    <2>5. CASE UNCHANGED vars
        <3>1. /\ be' = be /\ py' = py /\ call' = call /\ began' = began
              /\ kills' = kills
            BY <2>5 DEF vars
        <3>2. ASSUME NEW cmd, NEW arg, Progress(cmd, arg) PROVE Progress(cmd, arg)'
            <4>1. Done(cmd, arg) => Done(cmd, arg)'
                BY <3>1, DoneKept
            <4>2. Owed(cmd, arg) => Owed(cmd, arg)'
                BY <3>1, <4>1, DebtKept DEF Owed, OneDebt
            <4> QED  BY <3>1, <3>2, <4>1, <4>2 DEF Progress, Within
        <3> QED  BY <1>2, <2>1, <3>1, <3>2 DEF DoneInv
    <2> QED  BY <1>2, <2>2, <2>3, <2>4, <2>5 DEF Next
<1> QED  BY <1>1, <1>2

\* A call that is reported as done was done, unless a process was killed: the
\* exit code of 0 covers every step of setEnabled, setDefaults, setModules,
\* removeRule, moveRule, addRule, setProfile and reset (kcm_ufw_helper.py), the
\* deletions of clearRules included, and no change of IPv6 ever has it.
THEOREM SuccessMeansDoneAlways == Spec => []SuccessMeansDone
<1>1. Init => DoneInv
    BY DoneInductive, PyHelperAssumption, StoreCallsAssumption
<1>2. DoneInv /\ [Next]_vars => DoneInv'
    BY DoneInductive, PyHelperAssumption, StoreCallsAssumption
<1>3. DoneInv => SuccessMeansDone
    BY DEF DoneInv, Progress, SuccessMeansDone
<1>4. Spec => []DoneInv
    BY <1>1, <1>2, PTL DEF Spec
<1> QED  BY <1>3, <1>4, PTL
====
