---- MODULE HelperProofs ----
(***************************************************************************)
(* The helpers keep to their types: whatever a command line asks for, and  *)
(* wherever a run of the Python helper raises or is killed, the store      *)
(* stays typed and its lists stay sound.  Each option changes only its     *)
(* part of the store, and each command only what its options change.  The  *)
(* theorems about StoreCalls, the abstract firewall and the window rest on *)
(* these lemmas.                                                           *)
(***************************************************************************)
EXTENDS AuthHelper, UfwProofs

\* The options of a command line, with the argument that each takes.
RuleOptions ==
    [name : {"add"}, arg : Rules \cup Shown]
    \cup [name : {"update"}, arg : [spec : Specs, act : Acts, pos : Nat]]
    \cup [name : {"remove"}, arg : Nat]
    \cup [name : {"move"}, arg : [from : Nat, to : Nat]]
Options ==
    RuleOptions
    \cup [name : {"setEnabled"}, arg : BOOLEAN]
    \cup [name : {"setDefaults"}, arg : Changes]
    \cup [name : {"setModules"}, arg : SUBSET Modules]
    \cup [name : {"clear", "reset"} \cup Parts, arg : {0}]

Processes ==
    [state : {"none", "running", "exited", "failed", "killed"}, opts : Seq(Options), pc : Pcs,
     held : Shown \cup {NoRule}, left : Nat, was : BOOLEAN, out : SUBSET Parts]

\* A rule that is held for insertion can go back to where it was; the
\* settings that are left are settings.
ProcOK(p) ==
    /\ p \in Processes
    /\ p.pc \in {"insert", "restore"} =>
         p.held \in Shown /\ (p.held.v6 => AddrOf[p.held.spec] \in {"any", "v6"})
    /\ p.pc = "setting" => p.left <= 4

\* The invariant of the Python helper.
PyOK == Good(be) /\ ProcOK(py) /\ faults \in 0..MaxFaults /\ kills \in 0..MaxKills

-----------------------------------------------------------------------------
(* Processes *)

\* A fresh process, the next option, and an ended process are typed.
LEMMA FreshProcess ==
    /\ \A opts \in Seq(Options) : ProcOK(Process(opts))
    /\ \A how \in {"none", "running", "exited", "failed", "killed"} : ProcOK(Ended(how))
    /\ ProcOK(NoProc)
<1>1. <<>> \in Seq(Options)
    OBVIOUS
<1>2. ASSUME NEW opts \in Seq(Options), NEW how \in {"none", "running", "exited", "failed", "killed"}
      PROVE  ProcOK([NoProc EXCEPT !.state = how, !.opts = opts])
    BY DEF ProcOK, Processes, NoProc, Pcs
<1>3. \A opts \in Seq(Options) : ProcOK(Process(opts))
    BY <1>2 DEF Process
<1>4. ASSUME NEW how \in {"none", "running", "exited", "failed", "killed"}
      PROVE  ProcOK(Ended(how))
    BY <1>1 DEF ProcOK, Processes, NoProc, Pcs, Ended
<1>5. ProcOK(NoProc)
    BY <1>1 DEF ProcOK, Processes, NoProc, Pcs
<1> QED  BY <1>3, <1>4, <1>5

\* Where an option is being executed there is one; its successors are typed.
LEMMA Going ==
    ASSUME ProcOK(py), py.opts # <<>>
    PROVE  Head(py.opts) \in Options /\ ProcOK(NextOption) /\ ProcOK(Abort)
<1>1. py.opts \in Seq(Options) /\ py.out \in SUBSET Parts
    BY DEF ProcOK, Processes
<1>2. Head(py.opts) \in Options /\ Tail(py.opts) \in Seq(Options)
    BY <1>1
<1>3. ProcOK(NextOption)
    BY <1>1, <1>2 DEF ProcOK, Processes, NoProc, Pcs, Process, NextOption
<1>4. ProcOK(Abort)
    BY FreshProcess DEF Abort
<1> QED  BY <1>2, <1>3, <1>4

\* What a library call leaves behind.
LEMMA LibCallType ==
    ASSUME PyOK, NEW result, NEW broken, NEW returned, NEW raised,
           LibCall(result, broken, returned, raised),
           Good(result.store), \A b \in broken : Good(b),
           result.ok => ProcOK(returned), ProcOK(raised),
           MaxFaults \in Nat
    PROVE  PyOK'
<1>1. Good(be')
    BY DEF LibCall
<1>2. ProcOK(py')
    BY DEF LibCall
<1>3. faults' \in 0..MaxFaults /\ kills' \in 0..MaxKills
    BY DEF LibCall, PyOK
<1>4. Good(be)' /\ ProcOK(py)'
    BY <1>1, <1>2
<1> QED  BY <1>3, <1>4 DEF PyOK

-----------------------------------------------------------------------------
(* Settings *)

\* The four settings, in their order.
LEMMA SettingFacts ==
    /\ SettingNames = {"ipv6", "incoming", "outgoing", "loglevel"}
    /\ Len(SettingOrder) = 4
    /\ \A i \in 1..4 : SettingOrder[i] \in SettingNames
<1>1. Len(SettingOrder) = 4 /\ DOMAIN SettingOrder = 1..4
    BY DEF SettingOrder
<1>2. /\ SettingOrder[1] = "ipv6" /\ SettingOrder[2] = "incoming"
      /\ SettingOrder[3] = "outgoing" /\ SettingOrder[4] = "loglevel"
    BY DEF SettingOrder
<1> HIDE DEF SettingOrder
<1>3. \A i \in 1..4 : i = 1 \/ i = 2 \/ i = 3 \/ i = 4
    OBVIOUS
<1>4. SettingNames = {SettingOrder[i] : i \in 1..4}
    BY <1>1 DEF SettingNames, ToSet
<1> QED  BY <1>1, <1>2, <1>3, <1>4

\* A setting that is written keeps the settings typed.
LEMMA OneSetting ==
    ASSUME NEW set \in Settings, NEW name \in SettingNames, NEW val \in SettingValues(name)
    PROVE  [set EXCEPT ![name] = val] \in Settings
<1> DEFINE new == [set EXCEPT ![name] = val]
<1>1. /\ set \in [SettingNames -> {"yes", "no"} \cup LogLevels \cup Policies]
      /\ \A n \in SettingNames : set[n] \in SettingValues(n)
    BY DEF Settings
<1>2. val \in {"yes", "no"} \cup LogLevels \cup Policies
    BY DEF SettingValues
<1>3. new \in [SettingNames -> {"yes", "no"} \cup LogLevels \cup Policies]
    BY <1>1, <1>2
<1>4. \A n \in SettingNames : new[n] \in SettingValues(n)
    BY <1>1
<1> QED  BY <1>3, <1>4 DEF Settings

\* Writing the status, the settings or the modules keeps a store good.
LEMMA NewSettings ==
    ASSUME NEW b, Good(b)
    PROVE  /\ \A on \in BOOLEAN : Good([b EXCEPT !.enabled = on])
           /\ \A set \in Settings : Good([b EXCEPT !.set = set])
           /\ \A mods \in SUBSET Modules : Good([b EXCEPT !.modules = mods])
           /\ Good(ResetStore(b))
<1>1. b \in Stores /\ Sound(b.v4, "v4") /\ Sound(b.v6, "v6")
    BY DEF Good
<1>2. ASSUME NEW on \in BOOLEAN
      PROVE  Good([b EXCEPT !.enabled = on])
    <2> DEFINE c == [b EXCEPT !.enabled = on]
    <2>1. c \in Stores /\ c.v4 = b.v4 /\ c.v6 = b.v6
        BY <1>1 DEF Stores
    <2> QED  BY <1>1, <2>1 DEF Good
<1>3. ASSUME NEW set \in Settings
      PROVE  Good([b EXCEPT !.set = set])
    <2> DEFINE c == [b EXCEPT !.set = set]
    <2>1. c \in Stores /\ c.v4 = b.v4 /\ c.v6 = b.v6
        BY <1>1 DEF Stores
    <2> QED  BY <1>1, <2>1 DEF Good
<1>4. ASSUME NEW mods \in SUBSET Modules
      PROVE  Good([b EXCEPT !.modules = mods])
    <2> DEFINE c == [b EXCEPT !.modules = mods]
    <2>1. c \in Stores /\ c.v4 = b.v4 /\ c.v6 = b.v6
        BY <1>1 DEF Stores
    <2> QED  BY <1>1, <2>1 DEF Good
<1>5. Good(ResetStore(b))
    <2> DEFINE c == ResetStore(b)
    <2>0. <<>> \in Seq(Rules)
        OBVIOUS
    <2>1. c = [v4 |-> <<>>, v6 |-> <<>>, enabled |-> FALSE, set |-> b.set, modules |-> b.modules]
        BY DEF ResetStore
    <2>3. b.set \in Settings /\ b.modules \in SUBSET Modules
        BY <1>1 DEF Stores
    <2>4. c \in Stores /\ c.v4 = <<>> /\ c.v6 = <<>>
        BY <2>0, <2>1, <2>3 DEF Stores
    <2>2. \A family : Sound(<<>>, family)
        BY DEF Sound
    <2> QED  BY <2>4, <2>2 DEF Good
<1> QED  BY <1>2, <1>3, <1>4, <1>5

\* What reset has loaded, wherever it gave up, is typed.
LEMMA LoadedGood ==
    ASSUME PyOK, PyHelperAssumption
    PROVE  \A k \in 0..Len(DefaultsOrder) + 1 : Good(Loaded(k))
<1> SUFFICES ASSUME NEW k \in 0..Len(DefaultsOrder) + 1
             PROVE  Good(Loaded(k))
    OBVIOUS
<1> DEFINE read == {DefaultsOrder[i] : i \in (1..k) \cap DOMAIN DefaultsOrder}
           set == [name \in SettingNames |->
                      IF name \in read THEN DefaultSettings[name] ELSE be.set[name]]
           mods == IF k > Len(DefaultsOrder) THEN DefaultModules ELSE be.modules
<1>1. be \in Stores /\ Good(be)
    BY DEF PyOK, Good
<1>2. be.set \in Settings /\ be.modules \in SUBSET Modules
    BY <1>1 DEF Stores
<1>3. DefaultSettings \in Settings /\ DefaultModules \in SUBSET Modules
    BY DEF PyHelperAssumption
<1>4. set \in Settings
    <2> HIDE DEF read
    <2> QED  BY <1>2, <1>3 DEF Settings
<1>5. mods \in SUBSET Modules
    BY <1>2, <1>3
<1>6. Loaded(k) = [[be EXCEPT !.set = set] EXCEPT !.modules = mods]
    BY <1>1 DEF Loaded, Stores
<1> HIDE DEF set, mods
<1>7. Good([be EXCEPT !.set = set])
    BY <1>1, <1>4, NewSettings
<1>8. Good([[be EXCEPT !.set = set] EXCEPT !.modules = mods])
    BY <1>5, <1>7, NewSettings
<1> QED  BY <1>6, <1>8

-----------------------------------------------------------------------------
(* Rules *)

\* A family for which the addresses of a spec can be used.
Suits(family, spec) ==
    /\ family = "both" => AddrOf[spec] = "any"
    /\ family \in {"v4", "v6"} => AddrOf[spec] \in {"any", family}
    /\ family \in {"both", "v4", "v6", "mixed"}

\* getProtocol answers a family that suits the rule.
LEMMA FamilySuits ==
    /\ \A spec \in Specs : Suits(FamilyOf(spec), spec)
    /\ \A r \in Shown : (r.v6 => AddrOf[r.spec] \in {"any", "v6"}) => Suits(StoredFamily(r), r.spec)
<1>1. \A spec \in Specs : Suits(FamilyOf(spec), spec)
    BY UfwAssumption DEF UfwAssumption, FamilyOf, Suits
<1>2. ASSUME NEW r \in Shown, r.v6 => AddrOf[r.spec] \in {"any", "v6"}
      PROVE  Suits(StoredFamily(r), r.spec)
    <2>1. r.spec \in Specs
        BY DEF Shown
    <2>2. CASE r.v6
        BY <1>2, <2>2 DEF StoredFamily, Suits
    <2>3. CASE ~r.v6
        <3>1. StoredFamily(r) = FamilyOf(r.spec)
            BY <2>3 DEF StoredFamily
        <3> QED  BY <3>1, <2>1, <1>1
    <2> QED  BY <2>2, <2>3
<1> QED  BY <1>1, <1>2

\* Inserting a rule for a family that suits it puts the rule into the lists, or
\* not, and changes nothing else.
LEMMA InsertRuleGood ==
    ASSUME NEW b, NEW r, NEW pos \in Nat, NEW family, Good(b),
           r.spec \in Specs, r.act \in Acts, Suits(family, r.spec)
    PROVE  /\ Good(InsertRule(b, r, pos, family).store)
           /\ SameSettings(b, InsertRule(b, r, pos, family).store)
           /\ PutIn(b.v4, InsertRule(b, r, pos, family).store.v4, [spec |-> r.spec, act |-> r.act])
           /\ PutIn(b.v6, InsertRule(b, r, pos, family).store.v6, [spec |-> r.spec, act |-> r.act])
<1> DEFINE rule == [spec |-> r.spec, act |-> r.act]
           at == IF pos > NumRules(b) THEN 0 ELSE pos
<1>1. CASE family = "mixed"
    BY <1>1 DEF InsertRule, Raised, SameSettings, PutIn
<1>2. CASE family # "mixed"
    <2>1. InsertRule(b, r, pos, family) = SetRule(b, rule, at, family)
        BY <1>2 DEF InsertRule
    <2>2. at \in Nat
        OBVIOUS
    <2>3. /\ rule \in Rules
          /\ family # "v6" => AddrOf[rule.spec] \in {"any", "v4"}
          /\ family # "v4" => AddrOf[rule.spec] \in {"any", "v6"}
        BY <1>2 DEF Suits, Rules
    <2> HIDE DEF rule, at
    <2>4. /\ family # "v6" => Fits(rule, "v4")
          /\ family # "v4" => Fits(rule, "v6")
        BY <2>3 DEF Fits
    <2>5. /\ Good(SetRule(b, rule, at, family).store)
          /\ SameSettings(b, SetRule(b, rule, at, family).store)
          /\ PutIn(b.v4, SetRule(b, rule, at, family).store.v4, rule)
          /\ PutIn(b.v6, SetRule(b, rule, at, family).store.v6, rule)
        BY <2>2, <2>4, SetRuleGood
    <2> QED  BY <2>1, <2>5 DEF rule
<1> QED  BY <1>1, <1>2

\* A rule that was added is in one of the lists.
LEMMA AddHolds ==
    ASSUME NEW b, Good(b), NEW r \in Rules, InsertRule(b, r, 0, FamilyOf(r.spec)).ok
    PROVE  LET c == InsertRule(b, r, 0, FamilyOf(r.spec)).store
           IN  r \in ToSet(c.v4) \/ (Ipv6On(c) /\ r \in ToSet(c.v6))
<1> DEFINE family == FamilyOf(r.spec)
           result == InsertRule(b, r, 0, family)
           c      == result.store
<1>1. /\ b.v4 \in Seq(Rules) /\ b.v6 \in Seq(Rules)
      /\ ~(0 > NumRules(b)) /\ ~(0 > Num4(b)) /\ ~(0 > Len(b.v6)) /\ ~(0 \in 1..Num4(b))
    BY Counts
<1>2. [spec |-> r.spec, act |-> r.act] = r
    BY DEF Rules
<1>3. family # "mixed" /\ result = SetRule(b, r, 0, family)
    <2>1. family # "mixed"
        BY DEF InsertRule, Raised
    <2> HIDE DEF family
    <2> QED  BY <1>1, <1>2, <2>1 DEF InsertRule
<1>4. ASSUME NEW list \in Seq(Rules)
      PROVE  r \in ToSet(Put(list, r, 0))
    BY <1>4, PutHolds DEF ToSet
<1>5. result.ok /\ \A x : Ok(x).store = x /\ Raised(x).store = x /\ ~Raised(x).ok
    BY DEF Ok, Raised
<1>6. \A l, m : /\ [b EXCEPT !.v4 = l].v4 = l /\ [b EXCEPT !.v6 = l].v6 = l
                /\ [[b EXCEPT !.v4 = l] EXCEPT !.v6 = m].v4 = l
                /\ [b EXCEPT !.v6 = l].set = b.set
    BY DEF Good, Stores
<1> HIDE DEF family
<1>7. CASE family = "v4"
    <2>1. result = Ok([b EXCEPT !.v4 = Put(b.v4, r, 0)])
        BY <1>1, <1>3, <1>7 DEF SetRule, SetV4
    <2> DEFINE new == [b EXCEPT !.v4 = Put(b.v4, r, 0)]
    <2>2. new.v4 = Put(b.v4, r, 0)
        BY <1>6
    <2> HIDE DEF new
    <2>3. c = new
        BY <1>5, <2>1 DEF new
    <2> QED  BY <1>1, <1>4, <2>2, <2>3 DEF family
<1>8. CASE family = "v6"
    <2>1. result = Ok([b EXCEPT !.v6 = Put(b.v6, r, 0)]) /\ Ipv6On(b)
        <3>1. result = SetV6(b, r, 0)
            BY <1>1, <1>3, <1>8 DEF SetRule
        <3>2. Ipv6On(b)
            BY <1>5, <3>1 DEF SetV6
        <3> HIDE DEF result
        <3> QED  BY <1>1, <3>1, <3>2 DEF SetV6
    <2> DEFINE new == [b EXCEPT !.v6 = Put(b.v6, r, 0)]
    <2>2. new.v6 = Put(b.v6, r, 0) /\ Ipv6On(new)
        BY <1>6, <2>1 DEF Ipv6On
    <2> HIDE DEF new
    <2>3. c = new
        BY <1>5, <2>1 DEF new
    <2> QED  BY <1>1, <1>4, <2>2, <2>3 DEF family
<1>9. CASE family \notin {"v4", "v6"}
    <2> DEFINE written == [b EXCEPT !.v4 = Put(b.v4, r, 0)]
    <2>1. result = SetBoth(b, r, 0)
        BY <1>1, <1>3, <1>9 DEF SetRule
    <2>2. \/ result = Ok(written) \/ result = Raised(written)
          \/ result = Ok([written EXCEPT !.v6 = Put(@, r, 0)])
        BY <1>1, <2>1 DEF SetBoth
    <2>3. written.v4 = Put(b.v4, r, 0) /\ \A l : [written EXCEPT !.v6 = l].v4 = written.v4
        BY <1>6
    <2> HIDE DEF written
    <2> DEFINE both == [written EXCEPT !.v6 = Put(@, r, 0)]
    <2>4. both.v4 = written.v4
        BY <2>3
    <2> HIDE DEF both
    <2>5. c = written \/ c = both
        BY <1>5, <2>2 DEF both
    <2>6. c.v4 = Put(b.v4, r, 0)
        BY <2>3, <2>4, <2>5
    <2> HIDE DEF c
    <2> QED  BY <1>1, <1>4, <2>6 DEF c, family
<1> QED  BY <1>7, <1>8, <1>9

\* A rule call leaves the store as it was or as its result says.
LEMMA RuleCallType ==
    ASSUME PyOK, NEW result, NEW returned, NEW raised,
           RuleCall(result, returned, raised), Good(result.store),
           result.ok => ProcOK(returned), ProcOK(raised), PyHelperAssumption
    PROVE  PyOK'
<1>1. LibCall(result, {be, result.store}, returned, raised)
    BY DEF RuleCall
<1>2. \A b \in {be, result.store} : Good(b)
    BY DEF PyOK
<1>3. MaxFaults \in Nat
    BY DEF PyHelperAssumption
<1> HIDE DEF RuleCall, LibCall
<1> QED  BY <1>1, <1>2, <1>3, LibCallType

\* The options of the rule commands, by name.
LEMMA RuleArgs ==
    ASSUME NEW o \in Options
    PROVE  /\ o.name = "add" => o.arg \in Rules \cup Shown
           /\ o.name = "update" => o.arg \in [spec : Specs, act : Acts, pos : Nat]
           /\ o.name = "remove" => o.arg \in Nat
           /\ o.name = "move" => o.arg \in [from : Nat, to : Nat]
           /\ o.name = "setEnabled" => o.arg \in BOOLEAN
           /\ o.name = "setDefaults" => o.arg \in Changes
           /\ o.name = "setModules" => o.arg \in SUBSET Modules
BY DEF Options, RuleOptions, Parts

\* A process that is going to put back the rule with number n.
LEMMA Holding ==
    ASSUME PyOK, NEW n \in 1..NumRules(be)
    PROVE  ProcOK([py EXCEPT !.pc = "insert", !.held = RuleAt(be, n)])
<1> DEFINE p == [py EXCEPT !.pc = "insert", !.held = RuleAt(be, n)]
<1>1. Good(be) /\ py \in Processes
    BY DEF PyOK, ProcOK
<1>2. /\ RuleAt(be, n) \in Shown
      /\ RuleAt(be, n).v6 => AddrOf[RuleAt(be, n).spec] \in {"any", "v6"}
    BY <1>1, RuleAtFits DEF Shown
<1>3. p \in Processes /\ p.pc = "insert" /\ p.held = RuleAt(be, n)
    BY <1>1, <1>2 DEF Processes, Pcs
<1> QED  BY <1>2, <1>3 DEF ProcOK

-----------------------------------------------------------------------------
(* Steps *)

\* What holds where an option is being executed.
LEMMA Executing ==
    ASSUME PyOK, NEW name, NEW pc, At(name, pc)
    PROVE  /\ Arg = Head(py.opts).arg /\ Head(py.opts).name = name
           /\ Head(py.opts) \in Options
           /\ py.pc = pc /\ ProcOK(py) /\ Good(be)
           /\ ProcOK(NextOption) /\ ProcOK(Abort)
<1>1. py.opts # <<>> /\ Head(py.opts).name = name /\ py.pc = pc
    BY DEF At
<1>2. ProcOK(py) /\ Good(be)
    BY DEF PyOK
<1> QED  BY <1>1, <1>2, Going DEF Arg

\* The steps of the commands about one rule.
LEMMA RuleStepType ==
    ASSUME PyOK, PyHelperAssumption,
           \/ AddRule \/ UpdateDelete \/ UpdateInsert \/ UpdateRestore \/ RemoveRule
           \/ MoveDelete \/ MoveInsert
    PROVE  PyOK'
<1> USE DEF PyOK
<1>1. CASE AddRule
    <2>1. At("add", "start") /\ RuleCall(InsertRule(be, Arg, 0, FamilyOf(Arg.spec)), NextOption, Abort)
        BY <1>1 DEF AddRule
    <2>2. Arg \in Rules \cup Shown /\ ProcOK(NextOption) /\ ProcOK(Abort)
        BY <2>1, Executing, RuleArgs
    <2>3. Arg.spec \in Specs /\ Arg.act \in Acts /\ Suits(FamilyOf(Arg.spec), Arg.spec)
        BY <2>2, FamilySuits DEF Rules, Shown
    <2>4. Good(InsertRule(be, Arg, 0, FamilyOf(Arg.spec)).store)
        BY <2>3, InsertRuleGood
    <2> QED  BY <2>1, <2>2, <2>4, RuleCallType
<1>2. CASE UpdateDelete
    <2> DEFINE next == [py EXCEPT !.pc = "insert", !.held = RuleAt(be, Arg.pos)]
    <2>1. At("update", "start") /\ RuleCall(DeleteRule(be, Arg.pos), next, NextOption)
        BY <1>2 DEF UpdateDelete
    <2>2. Arg.pos \in Nat /\ ProcOK(NextOption)
        BY <2>1, Executing, RuleArgs
    <2>3. Good(DeleteRule(be, Arg.pos).store)
        BY <2>2, DeleteRuleGood
    <2>4. DeleteRule(be, Arg.pos).ok => ProcOK(next)
        <3>1. CASE Arg.pos \in 1..NumRules(be)
            BY <3>1, Holding
        <3>2. CASE Arg.pos \notin 1..NumRules(be)
            BY <3>2 DEF DeleteRule, Raised
        <3> QED  BY <3>1, <3>2
    <2> HIDE DEF next
    <2> QED  BY <2>1, <2>2, <2>3, <2>4, RuleCallType
<1>3. CASE UpdateInsert
    <2> DEFINE fam == FamilyOf(Arg.spec)
               again == [py EXCEPT !.pc = "restore"]
    <2>1. At("update", "insert") /\ RuleCall(InsertRule(be, Arg, Arg.pos, fam), NextOption, again)
        BY <1>3 DEF UpdateInsert
    <2>2. /\ Arg \in [spec : Specs, act : Acts, pos : Nat] /\ ProcOK(NextOption)
          /\ ProcOK(py) /\ py.pc = "insert"
        BY <2>1, Executing, RuleArgs
    <2>3. Arg.spec \in Specs /\ Arg.act \in Acts /\ Arg.pos \in Nat /\ Suits(fam, Arg.spec)
        BY <2>2, FamilySuits
    <2>4. Good(InsertRule(be, Arg, Arg.pos, fam).store)
        BY <2>3, InsertRuleGood
    <2>5. ProcOK(again)
        BY <2>2 DEF ProcOK, Processes, Pcs
    <2> HIDE DEF again, fam
    <2> QED  BY <2>1, <2>2, <2>4, <2>5, RuleCallType
<1>4. CASE UpdateRestore
    <2> DEFINE fam == StoredFamily(py.held)
    <2>1. At("update", "restore") /\ RuleCall(InsertRule(be, py.held, 0, fam), NextOption, Abort)
        BY <1>4 DEF UpdateRestore
    <2>2. ProcOK(py) /\ py.pc = "restore" /\ ProcOK(NextOption) /\ ProcOK(Abort)
        BY <2>1, Executing
    <2>3. py.held \in Shown /\ (py.held.v6 => AddrOf[py.held.spec] \in {"any", "v6"})
        BY <2>2 DEF ProcOK
    <2>4. py.held.spec \in Specs /\ py.held.act \in Acts /\ Suits(fam, py.held.spec)
        BY <2>3, FamilySuits DEF Shown
    <2>5. Good(InsertRule(be, py.held, 0, fam).store)
        BY <2>4, InsertRuleGood
    <2> HIDE DEF fam
    <2> QED  BY <2>1, <2>2, <2>5, RuleCallType
<1>5. CASE RemoveRule
    <2>1. At("remove", "start") /\ RuleCall(DeleteRule(be, Arg), NextOption, Abort)
        BY <1>5 DEF RemoveRule
    <2>2. Arg \in Nat /\ ProcOK(NextOption) /\ ProcOK(Abort)
        BY <2>1, Executing, RuleArgs
    <2>3. Good(DeleteRule(be, Arg).store)
        BY <2>2, DeleteRuleGood
    <2> QED  BY <2>1, <2>2, <2>3, RuleCallType
<1>6. CASE MoveDelete
    <2> DEFINE known == Arg.from # Arg.to /\ Arg.from \in 1..NumRules(be)
               result == IF known THEN DeleteRule(be, Arg.from) ELSE Raised(be)
               next == [py EXCEPT !.pc = "insert", !.held = RuleAt(be, Arg.from)]
    <2>1. At("move", "start") /\ RuleCall(result, next, Abort)
        BY <1>6 DEF MoveDelete
    <2>2. Arg.from \in Nat /\ ProcOK(Abort)
        BY <2>1, Executing, RuleArgs
    <2>3. Good(result.store)
        <3>1. Good(DeleteRule(be, Arg.from).store)
            BY <2>2, DeleteRuleGood
        <3>2. Good(Raised(be).store)
            BY DEF Raised
        <3> QED  BY <3>1, <3>2
    <2>4. result.ok => ProcOK(next)
        <3>1. CASE known
            BY <3>1, Holding
        <3>2. CASE ~known
            BY <3>2 DEF Raised
        <3> QED  BY <3>1, <3>2
    <2> HIDE DEF result, next
    <2> QED  BY <2>1, <2>2, <2>3, <2>4, RuleCallType
<1>7. CASE MoveInsert
    <2> DEFINE fam == StoredFamily(py.held)
    <2>1. At("move", "insert") /\ RuleCall(InsertRule(be, py.held, Arg.to, fam), NextOption, Abort)
        BY <1>7 DEF MoveInsert
    <2>2. /\ ProcOK(py) /\ py.pc = "insert" /\ ProcOK(NextOption) /\ ProcOK(Abort)
          /\ Arg.to \in Nat
        BY <2>1, Executing, RuleArgs
    <2>3. py.held \in Shown /\ (py.held.v6 => AddrOf[py.held.spec] \in {"any", "v6"})
        BY <2>2 DEF ProcOK
    <2>4. py.held.spec \in Specs /\ py.held.act \in Acts /\ Suits(fam, py.held.spec)
        BY <2>3, FamilySuits DEF Shown
    <2>5. Good(InsertRule(be, py.held, Arg.to, fam).store)
        BY <2>2, <2>4, InsertRuleGood
    <2> HIDE DEF fam
    <2> QED  BY <2>1, <2>2, <2>5, RuleCallType
<1> QED  BY <1>1, <1>2, <1>3, <1>4, <1>5, <1>6, <1>7

\* The steps of clearRules.
LEMMA ClearStepType ==
    ASSUME PyOK, PyHelperAssumption, ClearCount \/ ClearOne \/ ClearDone
    PROVE  PyOK'
<1>1. Good(be) /\ ProcOK(py) /\ py \in Processes
    BY DEF PyOK, ProcOK
<1>2. ASSUME ProcOK(py'), UNCHANGED <<be, faults, kills>>
      PROVE  PyOK'
    BY <1>1, <1>2 DEF PyOK
<1>3. CASE ClearCount
    <2>1. NumRules(be) \in Nat
        BY <1>1, Counts
    <2>2. py' = [py EXCEPT !.pc = "clearing", !.left = NumRules(be)]
        BY <1>3 DEF ClearCount
    <2>3. ProcOK(py')
        BY <1>1, <2>1, <2>2 DEF ProcOK, Processes, Pcs
    <2> QED  BY <2>3, <1>2, <1>3 DEF ClearCount
<1>4. CASE ClearOne
    <2> DEFINE done == [py EXCEPT !.left = @ - 1]
    <2>1. py.left > 0 /\ py.pc = "clearing" /\ RuleCall(DeleteRule(be, 1), done, Abort)
        BY <1>4 DEF ClearOne, At
    <2>2. py.left - 1 \in Nat
        BY <1>1, <2>1 DEF Processes
    <2>3. ProcOK(done) /\ ProcOK(Abort)
        <3>1. ProcOK(done)
            BY <1>1, <2>1, <2>2 DEF ProcOK, Processes
        <3>2. ProcOK(Abort)
            BY FreshProcess DEF Abort
        <3> QED  BY <3>1, <3>2
    <2>4. Good(DeleteRule(be, 1).store)
        BY <1>1, DeleteRuleGood
    <2> HIDE DEF done
    <2> QED  BY <2>1, <2>3, <2>4, RuleCallType
<1>5. CASE ClearDone
    <2>1. CASE At("clear", "clearing") /\ py' = NextOption
        <3>1. ProcOK(NextOption)
            BY <2>1, Executing
        <3> QED  BY <2>1, <3>1, <1>2, <1>5 DEF ClearDone
    <2>2. CASE py' = [py EXCEPT !.pc = "wipe"]
        <3>1. ProcOK(py')
            BY <2>2, <1>1 DEF ProcOK, Processes, Pcs
        <3> QED  BY <3>1, <1>2, <1>5 DEF ClearDone
    <2> QED  BY <2>1, <2>2, <1>5 DEF ClearDone
<1> QED  BY <1>3, <1>4, <1>5

\* Switching the firewall on or off.
LEMMA SwitchType ==
    ASSUME PyOK, PyHelperAssumption, NEW on \in BOOLEAN, NEW returned,
           Switch(on, returned), ProcOK(returned)
    PROVE  PyOK'
<1> DEFINE result == Ok([be EXCEPT !.enabled = on])
           broken == {[be EXCEPT !.enabled = FALSE]}
<1>1. LibCall(result, broken, returned, Abort)
    BY DEF Switch
<1>2. Good([be EXCEPT !.enabled = on]) /\ Good([be EXCEPT !.enabled = FALSE])
    BY NewSettings DEF PyOK
<1>3. Good(result.store) /\ \A b \in broken : Good(b)
    BY <1>2 DEF Ok
<1>4. ProcOK(Abort) /\ MaxFaults \in Nat
    BY FreshProcess DEF Abort, PyHelperAssumption
<1> HIDE DEF result, broken
<1> QED  BY <1>1, <1>3, <1>4, LibCallType

\* The steps that change status, settings and modules, reset, and queries.
LEMMA OtherStepType ==
    ASSUME PyOK, PyHelperAssumption,
           \/ SetEnabled \/ DefaultsDisable \/ DefaultsSet \/ DefaultsEnable
           \/ SetModules \/ ResetDefaults \/ ResetWipe \/ Query \/ Exit
    PROVE  PyOK'
<1>1. Good(be) /\ ProcOK(py) /\ py \in Processes /\ MaxFaults \in Nat
    BY DEF PyOK, ProcOK, PyHelperAssumption
<1>2. ASSUME ProcOK(py'), UNCHANGED <<be, faults, kills>>
      PROVE  PyOK'
    BY <1>1, <1>2 DEF PyOK
<1>3. CASE SetEnabled
    <2>1. At("setEnabled", "start")
        BY <1>3 DEF SetEnabled
    <2>2. Arg \in BOOLEAN /\ ProcOK(NextOption)
        BY <2>1, Executing, RuleArgs
    <2>3. CASE be.enabled = Arg
        BY <2>2, <2>3, <1>2, <1>3 DEF SetEnabled
    <2>4. CASE be.enabled # Arg
        <3>1. Switch(Arg, NextOption)
            BY <2>4, <1>3 DEF SetEnabled
        <3> QED  BY <3>1, <2>2, SwitchType
    <2> QED  BY <2>3, <2>4
<1>4. CASE DefaultsDisable
    <2> DEFINE begun == [py EXCEPT !.pc = "setting", !.left = Len(SettingOrder), !.was = be.enabled]
    <2>1. be.enabled \in BOOLEAN
        BY <1>1 DEF Good, Stores
    <2>2. ProcOK(begun)
        <3>1. ASSUME NEW on \in BOOLEAN
              PROVE  ProcOK([py EXCEPT !.pc = "setting", !.left = 4, !.was = on])
            <4> DEFINE p == [py EXCEPT !.pc = "setting", !.left = 4, !.was = on]
            <4>1. p \in Processes
                BY <1>1 DEF Processes, Pcs
            <4>2. p.pc = "setting" /\ p.left = 4
                BY <1>1 DEF Processes
            <4> QED  BY <4>1, <4>2 DEF ProcOK
        <3>2. Len(SettingOrder) = 4
            BY SettingFacts
        <3> QED  BY <2>1, <3>1, <3>2
    <2>3. Switch(FALSE, begun) \/ (py' = begun /\ UNCHANGED <<be, faults, kills>>)
        BY <1>4 DEF DefaultsDisable
    <2> HIDE DEF begun
    <2> QED  BY <2>2, <2>3, <1>2, SwitchType
<1>5. CASE DefaultsSet
    <2> DEFINE name    == SettingOrder[Len(SettingOrder) + 1 - py.left]
               written == [be EXCEPT !.set[name] = Arg[name]]
               next    == [py EXCEPT !.left = @ - 1]
    <2>1. At("setDefaults", "setting") /\ py.left > 0
        BY <1>5 DEF DefaultsSet
    <2>2. Arg \in Changes /\ py.pc = "setting" /\ ProcOK(Abort)
        BY <2>1, Executing, RuleArgs
    <2>3. py.left \in 1..4
        BY <1>1, <2>1, <2>2 DEF ProcOK, Processes
    <2>4. name \in SettingNames
        BY <2>3, SettingFacts
    <2>5. ProcOK(next)
        <3>1. py.left - 1 \in Nat /\ py.left - 1 <= 4
            BY <2>3
        <3> QED  BY <1>1, <2>2, <3>1 DEF ProcOK, Processes
    <2> HIDE DEF name, next
    <2>6. CASE name \notin DOMAIN Arg
        <3>1. py' = next /\ UNCHANGED <<be, faults, kills>>
            BY <2>6, <1>5 DEF DefaultsSet, name, next
        <3> QED  BY <3>1, <2>5, <1>2
    <2>7. CASE name \in DOMAIN Arg /\ name = "ipv6"
        <3>1. py' = Abort /\ UNCHANGED <<be, faults, kills>>
            BY <2>7, <1>5 DEF DefaultsSet, name
        <3> QED  BY <3>1, <2>2, <1>2
    <2>8. CASE name \in DOMAIN Arg /\ name # "ipv6"
        <3>1. LibCall(Ok(written), {be, written}, next, Abort)
            BY <2>8, <1>5 DEF DefaultsSet, name, next
        <3>2. Arg[name] \in SettingValues(name)
            BY <2>2, <2>8 DEF Changes
        <3>3. be \in Stores /\ be.set \in Settings
            BY <1>1 DEF Good, Stores
        <3>4. [be.set EXCEPT ![name] = Arg[name]] \in Settings
            BY <2>4, <3>2, <3>3, OneSetting
        <3>5. written = [be EXCEPT !.set = [be.set EXCEPT ![name] = Arg[name]]]
            BY <3>3 DEF Stores
        <3>6. Good(written)
            BY <3>4, <3>5, <1>1, NewSettings
        <3>7. Ok(written).store = written
            BY DEF Ok
        <3> HIDE DEF written
        <3>8. Good(Ok(written).store) /\ \A b \in {be, written} : Good(b)
            BY <3>6, <3>7, <1>1
        <3> QED  BY <3>1, <3>8, <2>2, <2>5, <1>1, LibCallType
    <2> QED  BY <2>6, <2>7, <2>8
<1>6. CASE DefaultsEnable
    <2>1. At("setDefaults", "setting")
        BY <1>6 DEF DefaultsEnable
    <2>2. ProcOK(NextOption)
        BY <2>1, Executing
    <2>3. Switch(TRUE, NextOption) \/ (py' = NextOption /\ UNCHANGED <<be, faults, kills>>)
        BY <1>6 DEF DefaultsEnable
    <2> QED  BY <2>2, <2>3, <1>2, SwitchType
<1>7. CASE SetModules
    <2> DEFINE new == [be EXCEPT !.modules = Arg]
    <2>1. At("setModules", "start") /\ LibCall(Ok(new), {be}, NextOption, Abort)
        BY <1>7 DEF SetModules
    <2>2. Arg \in SUBSET Modules /\ ProcOK(NextOption) /\ ProcOK(Abort)
        BY <2>1, Executing, RuleArgs
    <2>3. Good(Ok(new).store)
        BY <2>2, <1>1, NewSettings DEF Ok
    <2> HIDE DEF new
    <2> QED  BY <2>1, <2>2, <2>3, <1>1, LibCallType
<1>8. CASE ResetDefaults
    <2> DEFINE all     == Loaded(Len(DefaultsOrder) + 1)
               broken  == {Loaded(k) : k \in 0..Len(DefaultsOrder)}
               cleared == [py EXCEPT !.pc = "clearing", !.left = NumRules(be)]
    <2>1. LibCall(Ok(all), broken, cleared, cleared)
        BY <1>8 DEF ResetDefaults
    <2>2. NumRules(be) \in Nat
        BY <1>1, Counts
    <2>3. ProcOK(cleared)
        BY <1>1, <2>2 DEF ProcOK, Processes, Pcs
    <2>4. Len(DefaultsOrder) \in Nat
        BY DEF DefaultsOrder
    <2>5. Good(all) /\ \A b \in broken : Good(b)
        BY <2>4, LoadedGood
    <2>6. Good(Ok(all).store)
        BY <2>5 DEF Ok
    <2> HIDE DEF all, broken, cleared
    <2> QED  BY <2>1, <2>3, <2>5, <2>6, <1>1, LibCallType
<1>9. CASE ResetWipe
    <2> DEFINE broken == {be, [be EXCEPT !.enabled = FALSE]}
    <2>1. At("reset", "wipe") /\ LibCall(Ok(ResetStore(be)), broken, NextOption, Abort)
        BY <1>9 DEF ResetWipe
    <2>2. ProcOK(NextOption) /\ ProcOK(Abort)
        BY <2>1, Executing
    <2>3. Good(Ok(ResetStore(be)).store)
        BY <1>1, NewSettings DEF Ok
    <2>4. \A b \in broken : Good(b)
        BY <1>1, NewSettings
    <2> HIDE DEF broken
    <2> QED  BY <2>1, <2>2, <2>3, <2>4, <1>1, LibCallType
<1>10. CASE Query
    <2>1. PICK part \in Parts :
             At(part, "start") /\ LibCall(Ok(be), {be}, [NextOption EXCEPT !.out = @ \cup {part}], Abort)
        BY <1>10 DEF Query
    <2> DEFINE next == [NextOption EXCEPT !.out = @ \cup {part}]
    <2>2. ProcOK(NextOption) /\ ProcOK(Abort)
        BY <2>1, Executing
    <2>3. ProcOK(next)
        BY <2>2 DEF ProcOK, Processes
    <2>4. Good(Ok(be).store)
        BY <1>1 DEF Ok
    <2> HIDE DEF next
    <2> QED  BY <2>1, <2>2, <2>3, <2>4, <1>1, LibCallType DEF next
<1>11. CASE Exit
    <2>1. ProcOK(Ended("exited")) /\ py.out \in SUBSET Parts
        BY <1>1, FreshProcess DEF Processes
    <2>2. ProcOK([Ended("exited") EXCEPT !.out = py.out])
        BY <2>1 DEF ProcOK, Processes
    <2> QED  BY <2>2, <1>2, <1>11 DEF Exit
<1> QED  BY <1>3, <1>4, <1>5, <1>6, <1>7, <1>8, <1>9, <1>10, <1>11

\* Every step of the Python helper, and its being killed.
LEMMA PyStepType ==
    ASSUME PyOK, PyHelperAssumption, PyStep \/ Kill
    PROVE  PyOK'
<1>1. CASE Kill
    <2>1. ProcOK(py')
        BY <1>1, FreshProcess DEF Kill
    <2> QED  BY <2>1, <1>1 DEF Kill, PyOK, PyHelperAssumption
<1>2. CASE PyStep
    BY <1>2, RuleStepType, ClearStepType, OtherStepType DEF PyStep
<1> QED  BY <1>1, <1>2

-----------------------------------------------------------------------------
(* Calls *)

\* What the argument of a command can be.
ArgOK(cmd, arg) ==
    /\ cmd = "setStatus" => arg \in BOOLEAN
    /\ cmd = "setDefaults" => arg \in Changes
    /\ cmd = "setModules" => arg \in SUBSET Modules
    /\ cmd = "setProfile" =>
         /\ "rules" \in DOMAIN arg => arg.rules \in Seq(Rules \cup Shown)
         /\ "defaults" \in DOMAIN arg => arg.defaults \in Changes
         /\ "modules" \in DOMAIN arg => arg.modules \in SUBSET Modules
    /\ cmd = "addRules" => arg \in Seq(Rules \cup Shown)
    /\ cmd = "removeRule" => arg \in Nat
    /\ cmd = "moveRule" => arg \in [from : Nat, to : Nat]
    /\ cmd = "editRule" => arg \in [spec : Specs, act : Acts, pos : Nat]

\* The calls that have this command and argument, at any stage.
Calls(cmd, arg) ==
    [phase : Phases, cmd : {cmd}, arg : {arg}, ok : BOOLEAN, parts : SUBSET Parts]

\* A call has its five fields; its command is not looked at.
CallOK == call \in Calls(call.cmd, call.arg)

\* The invariant of both helpers.
HelperOK == PyOK /\ CallOK

\* The command lines of both runs are made of typed options.
LEMMA CommandLines ==
    /\ \A cmd, arg : Queries(SecondParts(cmd, arg)) \in Seq(Options)
    /\ \A cmd \in Cmds \ {"query"} : \A arg : ArgOK(cmd, arg) => FirstOpts(cmd, arg) \in Seq(Options)
<1>1. ASSUME NEW parts \in Seq(Parts)
      PROVE  Queries(parts) \in Seq(Options)
    <2>1. \A i \in DOMAIN parts : Opt(parts[i], 0) \in Options
        BY DEF Opt, Options
    <2>2. DOMAIN parts = 1..Len(parts) /\ Len(parts) \in Nat
        OBVIOUS
    <2> QED  BY <2>1, <2>2 DEF Queries
<1>2. ASSUME NEW cmd, NEW arg
      PROVE  SecondParts(cmd, arg) \in Seq(Parts)
    <2>1. /\ <<"status", "defaults", "list", "modules">> \in Seq(Parts)
          /\ <<"status", "list">> \in Seq(Parts) /\ <<"status">> \in Seq(Parts)
          /\ <<"modules">> \in Seq(Parts) /\ <<"list">> \in Seq(Parts)
        BY DEF Parts
    <2>2. /\ <<"defaults">> \o <<"list">> \in Seq(Parts)
          /\ <<"defaults">> \o <<>> \in Seq(Parts)
        BY DEF Parts
    <2> QED  BY <2>1, <2>2 DEF SecondParts, EveryPart
<1>3. ASSUME NEW rules \in Seq(Rules \cup Shown)
      PROVE  Adds(rules) \in Seq(Options)
    <2>1. \A i \in DOMAIN rules : Opt("add", rules[i]) \in Options
        BY DEF Opt, Options, RuleOptions
    <2>2. DOMAIN rules = 1..Len(rules) /\ Len(rules) \in Nat
        OBVIOUS
    <2> QED  BY <2>1, <2>2 DEF Adds
<1>4. ASSUME NEW p, ArgOK("setProfile", p)
      PROVE  ProfileOpts(p) \in Seq(Options)
    <2> DEFINE a == IF "rules" \in DOMAIN p THEN <<Opt("clear", 0)>> \o Adds(p.rules) ELSE <<>>
               b == IF "defaults" \in DOMAIN p THEN <<Opt("setDefaults", p.defaults)>> ELSE <<>>
               c == IF "modules" \in DOMAIN p THEN <<Opt("setModules", p.modules)>> ELSE <<>>
    <2>1. a \in Seq(Options)
        <3>1. CASE "rules" \in DOMAIN p
            <4>1. Adds(p.rules) \in Seq(Options)
                BY <3>1, <1>3, <1>4 DEF ArgOK
            <4>2. <<Opt("clear", 0)>> \in Seq(Options)
                BY DEF Opt, Options
            <4> HIDE DEF Adds
            <4> QED  BY <4>1, <4>2, <3>1
        <3>2. CASE "rules" \notin DOMAIN p
            BY <3>2
        <3> QED  BY <3>1, <3>2
    <2>2. b \in Seq(Options)
        <3>1. CASE "defaults" \in DOMAIN p
            <4>1. Opt("setDefaults", p.defaults) \in Options
                BY <3>1, <1>4 DEF ArgOK, Opt, Options
            <4> QED  BY <4>1, <3>1
        <3> QED  BY <3>1
    <2>3. c \in Seq(Options)
        <3>1. CASE "modules" \in DOMAIN p
            <4>1. Opt("setModules", p.modules) \in Options
                BY <3>1, <1>4 DEF ArgOK, Opt, Options
            <4> QED  BY <4>1, <3>1
        <3> QED  BY <3>1
    <2>4. ProfileOpts(p) = (a \o b) \o c
        BY DEF ProfileOpts
    <2> HIDE DEF a, b, c
    <2>5. a \o b \in Seq(Options)
        BY <2>1, <2>2
    <2> QED  BY <2>3, <2>4, <2>5
<1>5. ASSUME NEW cmd \in Cmds \ {"query"}, NEW arg, ArgOK(cmd, arg)
      PROVE  FirstOpts(cmd, arg) \in Seq(Options)
    <2>1. CASE cmd = "setProfile"
        BY <2>1, <1>4, <1>5 DEF FirstOpts
    <2>2. CASE cmd = "addRules"
        BY <2>2, <1>3, <1>5 DEF FirstOpts, ArgOK
    <2>3. CASE cmd \notin {"setProfile", "addRules"}
        <3> DEFINE name == CASE cmd = "setStatus"  -> "setEnabled"
                             [] cmd = "removeRule" -> "remove"
                             [] cmd = "moveRule"   -> "move"
                             [] cmd = "editRule"   -> "update"
                             [] OTHER              -> cmd
                   val == IF cmd = "reset" THEN 0 ELSE arg
        <3>1. FirstOpts(cmd, arg) = <<Opt(name, val)>>
            BY <2>3 DEF FirstOpts, Cmds
        <3>2. Opt(name, val) \in Options
            BY <2>3, <1>5 DEF ArgOK, Cmds, Opt, Options, RuleOptions
        <3> HIDE DEF name, val
        <3> QED  BY <3>1, <3>2
    <2> QED  BY <2>1, <2>2, <2>3
<1> QED  BY <1>1, <1>2, <1>5

\* A request that arrives is typed.
LEMMA SubmitType ==
    ASSUME HelperOK, NEW cmd \in Cmds, NEW arg, ArgOK(cmd, arg), Submit(cmd, arg),
           UNCHANGED <<be, kills>>, faults' \in 0..MaxFaults
    PROVE  HelperOK' /\ call'.cmd = cmd
<1> DEFINE request == [NoCall EXCEPT !.cmd = cmd, !.arg = arg]
<1>1. request \in Calls(cmd, arg)
    BY DEF NoCall, Calls, Phases
<1>2. /\ ProcOK(py')
      /\ \E phase \in Phases : call' = [request EXCEPT !.phase = phase]
    <2>1. CASE cmd = "query"
        <3>1. /\ py' = Process(Queries(SecondParts(cmd, arg)))
              /\ call' = [request EXCEPT !.phase = "second"]
            BY <2>1 DEF Submit
        <3>2. Queries(SecondParts(cmd, arg)) \in Seq(Options)
            BY CommandLines
        <3> QED  BY <3>1, <3>2, FreshProcess DEF Phases
    <2>2. CASE cmd # "query" /\ FirstOpts(cmd, arg) = <<>>
        BY <2>2 DEF Submit, Phases, HelperOK, PyOK
    <2>3. CASE cmd # "query" /\ FirstOpts(cmd, arg) # <<>>
        <3>1. py' = Process(FirstOpts(cmd, arg)) /\ call' = [request EXCEPT !.phase = "first"]
            BY <2>3 DEF Submit
        <3>2. FirstOpts(cmd, arg) \in Seq(Options)
            BY <2>3, CommandLines
        <3> QED  BY <3>1, <3>2, FreshProcess DEF Phases
    <2> QED  BY <2>1, <2>2, <2>3
<1> HIDE DEF request
<1>3. PICK phase \in Phases : call' = [request EXCEPT !.phase = phase]
    BY <1>2
<1>4. call' \in Calls(cmd, arg)
    BY <1>1, <1>3 DEF Calls
<1>5. CallOK' /\ call'.cmd = cmd
    <2>1. call'.cmd = cmd /\ call'.arg = arg
        BY <1>4 DEF Calls
    <2> QED  BY <1>4, <2>1 DEF CallOK, Calls
<1>6. PyOK'
    BY <1>2 DEF HelperOK, PyOK
<1> QED  BY <1>5, <1>6 DEF HelperOK

\* Every step of the helpers keeps to the types, and to the command.
LEMMA HelperStepType ==
    ASSUME HelperOK, PyHelperAssumption, HelperStep
    PROVE  HelperOK' /\ call'.cmd = call.cmd /\ call'.arg = call.arg
<1>1. PyOK /\ CallOK /\ ProcOK(py)
    BY DEF HelperOK, PyOK
<1>2. \A p : ProcOK(p) /\ py' = p /\ UNCHANGED <<be, faults, kills>> => PyOK'
    BY <1>1 DEF PyOK
<1>3. ProcOK(SecondRun)
    <2>1. Queries(SecondParts(call.cmd, call.arg)) \in Seq(Options)
        BY CommandLines
    <2> QED  BY <2>1, FreshProcess DEF SecondRun
<1>4. ASSUME call' \in Calls(call.cmd, call.arg)
      PROVE  CallOK' /\ call'.cmd = call.cmd /\ call'.arg = call.arg
    <2>1. call'.cmd = call.cmd /\ call'.arg = call.arg
        BY <1>4 DEF Calls
    <2> QED  BY <1>4, <2>1 DEF CallOK, Calls
<1>5. ASSUME NEW phase \in Phases, NEW ok \in BOOLEAN, NEW parts \in SUBSET Parts
      PROVE  /\ [call EXCEPT !.phase = phase] \in Calls(call.cmd, call.arg)
             /\ [call EXCEPT !.phase = phase, !.ok = ok, !.parts = parts] \in Calls(call.cmd, call.arg)
    BY <1>1 DEF CallOK, Calls
<1>6. CASE (PyStep \/ Kill) /\ UNCHANGED call
    <2>1. PyOK'
        BY <1>1, <1>6, PyStepType
    <2>2. CallOK'
        BY <1>1, <1>6 DEF CallOK
    <2> QED  BY <2>1, <2>2, <1>6 DEF HelperOK
<1>7. CASE FirstEnded
    <2>1. CASE py' = SecondRun /\ call' = [call EXCEPT !.phase = "second"]
        <3>1. PyOK'
            BY <2>1, <1>2, <1>3, <1>7 DEF FirstEnded
        <3> QED  BY <3>1, <2>1, <1>4, <1>5 DEF Phases, HelperOK
    <2>2. CASE py' = NoProc /\ call' = Replied(FALSE, {})
        <3>1. PyOK'
            BY <2>2, <1>2, <1>7, FreshProcess DEF FirstEnded
        <3>2. "reply" \in Phases /\ FALSE \in BOOLEAN /\ {} \in SUBSET Parts
            BY DEF Phases
        <3> QED  BY <3>1, <3>2, <2>2, <1>4, <1>5 DEF Replied, HelperOK
    <2> QED  BY <2>1, <2>2, <1>7 DEF FirstEnded
<1>8. CASE SecondEnded
    <2>1. PyOK'
        BY <1>2, <1>8, FreshProcess DEF SecondEnded
    <2> DEFINE good == py.state # "failed"
    <2>2. call' = [call EXCEPT !.phase = "reply", !.ok = good, !.parts = py.out]
        BY <1>8 DEF SecondEnded, Replied
    <2>3. "reply" \in Phases /\ good \in BOOLEAN /\ py.out \in SUBSET Parts
        BY <1>1 DEF ProcOK, Processes, Phases
    <2> HIDE DEF good
    <2> QED  BY <2>1, <2>2, <2>3, <1>4, <1>5 DEF HelperOK
<1> QED  BY <1>6, <1>7, <1>8 DEF HelperStep

-----------------------------------------------------------------------------
(* What an option changes *)

\* The options that change each part of the store.
Changing ==
    [rules   |-> {"add", "update", "remove", "move", "clear", "reset"},
     enabled |-> {"setEnabled", "setDefaults", "reset"},
     set     |-> {"setDefaults", "reset"},
     modules |-> {"setModules", "reset"}]

\* Store c differs from b only in what this option changes.
Affects(b, c, name) ==
    /\ c.v4 # b.v4 \/ c.v6 # b.v6 => name \in Changing.rules
    /\ c.enabled # b.enabled      => name \in Changing.enabled
    /\ c.set # b.set              => name \in Changing.set
    /\ c.modules # b.modules      => name \in Changing.modules

\* A process that goes on with the same options or one less, or has ended.
Follows(p) ==
    \/ p.state = "running" /\ (p.opts = py.opts \/ (py.opts # <<>> /\ p.opts = Tail(py.opts)))
    \/ p.state # "running" /\ p.opts = <<>> /\ p.pc = "start"

\* What the steps of a running process leave of it.
LEMMA Following ==
    ASSUME PyOK, py.state = "running"
    PROVE  /\ Follows(Abort) /\ Follows(NoProc) /\ Follows(Ended("killed"))
           /\ \A out : Follows([Ended("exited") EXCEPT !.out = out])
           /\ py.opts # <<>> => Follows(NextOption)
           /\ py.opts # <<>> => \A out : Follows([NextOption EXCEPT !.out = out])
           /\ \A pc, held : Follows([py EXCEPT !.pc = pc, !.held = held])
           /\ \A pc, left : Follows([py EXCEPT !.pc = pc, !.left = left])
           /\ \A pc : Follows([py EXCEPT !.pc = pc])
           /\ \A left : Follows([py EXCEPT !.left = left])
           /\ \A pc, left, was : Follows([py EXCEPT !.pc = pc, !.left = left, !.was = was])
<1>1. py \in Processes
    BY DEF PyOK, ProcOK
<1>2. Follows(Abort) /\ Follows(NoProc) /\ Follows(Ended("killed"))
    BY DEF Abort, Ended, NoProc, Follows
<1>3. \A out : Follows([Ended("exited") EXCEPT !.out = out])
    BY DEF Ended, NoProc, Follows
<1>4. /\ NextOption.opts = Tail(py.opts) /\ NextOption.state = "running"
      /\ \A out : /\ [NextOption EXCEPT !.out = out].opts = Tail(py.opts)
                  /\ [NextOption EXCEPT !.out = out].state = "running"
    BY DEF NextOption, Process, NoProc
<1>5. ASSUME NEW pc, NEW held, NEW left, NEW was
      PROVE  /\ Follows([py EXCEPT !.pc = pc, !.held = held])
             /\ Follows([py EXCEPT !.pc = pc, !.left = left])
             /\ Follows([py EXCEPT !.pc = pc])
             /\ Follows([py EXCEPT !.left = left])
             /\ Follows([py EXCEPT !.pc = pc, !.left = left, !.was = was])
    BY <1>1 DEF Processes, Follows
<1> QED  BY <1>2, <1>3, <1>4, <1>5 DEF Follows

\* Inserting and deleting a rule changes rules only.
LEMMA RulesOnly ==
    ASSUME NEW b \in Stores
    PROVE  /\ \A r, pos, family : SameSettings(b, InsertRule(b, r, pos, family).store)
           /\ \A n : SameSettings(b, DeleteRule(b, n).store)
           /\ SameSettings(b, Raised(b).store)
<1>1. /\ \A l : SameSettings(b, [b EXCEPT !.v4 = l])
      /\ \A l : SameSettings(b, [b EXCEPT !.v6 = l])
      /\ \A l, m : SameSettings(b, [[b EXCEPT !.v4 = l] EXCEPT !.v6 = m])
      /\ SameSettings(b, b)
    BY DEF SameSettings, Stores
<1>2. \A c : Ok(c).store = c /\ Raised(c).store = c
    BY DEF Ok, Raised
<1> HIDE DEF SameSettings
<1>3. ASSUME NEW r, NEW pos
      PROVE  SameSettings(b, SetV4(b, r, pos).store)
    <2> DEFINE new == [b EXCEPT !.v4 = Put(@, r, pos)]
    <2>1. SetV4(b, r, pos) = IF pos > Num4(b) THEN Raised(b) ELSE Ok(new)
        BY DEF SetV4
    <2>2. SameSettings(b, new)
        BY <1>1
    <2> HIDE DEF new
    <2> QED  BY <1>1, <1>2, <2>1, <2>2
<1>4. ASSUME NEW r, NEW pos
      PROVE  SameSettings(b, SetV6(b, r, pos).store)
    <2> DEFINE at == IF pos = 0 THEN 0 ELSE pos - Num4(b)
               new == [b EXCEPT !.v6 = Put(@, r, at)]
    <2>1. SetV6(b, r, pos) = Raised(b) \/ SetV6(b, r, pos) = Ok(new)
        BY DEF SetV6
    <2>2. SameSettings(b, new)
        BY <1>1
    <2> HIDE DEF new
    <2> QED  BY <1>1, <1>2, <2>1, <2>2
<1>5. ASSUME NEW r, NEW pos
      PROVE  SameSettings(b, SetBoth(b, r, pos).store)
    <2> DEFINE at4 == IF pos > Num4(b) THEN Place(b.v4, b.v6[pos - Num4(b)].spec) ELSE pos
               new4 == Put(b.v4, r, at4)
               at6 == IF pos = 0 THEN 0
                      ELSE IF pos + 1 <= Len(new4) THEN Place(b.v6, new4[pos + 1].spec)
                      ELSE pos + 1 - Len(new4)
               only4 == [b EXCEPT !.v4 = Put(@, r, pos)]
               written == [b EXCEPT !.v4 = new4]
               both == [written EXCEPT !.v6 = Put(@, r, at6)]
    <2>1. \/ SetBoth(b, r, pos) = Ok(only4) \/ SetBoth(b, r, pos) = Raised(written)
          \/ SetBoth(b, r, pos) = Ok(both)
        BY DEF SetBoth
    <2>2. SameSettings(b, only4) /\ SameSettings(b, written) /\ SameSettings(b, both)
        BY <1>1
    <2> HIDE DEF only4, written, both
    <2> QED  BY <1>2, <2>1, <2>2
<1>6. \A r, pos, family : SameSettings(b, SetRule(b, r, pos, family).store)
    BY <1>1, <1>2, <1>3, <1>4, <1>5 DEF SetRule
<1>7. \A r, pos, family : SameSettings(b, InsertRule(b, r, pos, family).store)
    BY <1>1, <1>2, <1>6 DEF InsertRule
<1>8. ASSUME NEW n
      PROVE  SameSettings(b, DeleteRule(b, n).store)
    <2> DEFINE new4 == [b EXCEPT !.v4 = RemoveAt(@, n)]
               new6 == [b EXCEPT !.v6 = RemoveAt(@, n - Num4(b))]
    <2>1. DeleteRule(b, n) = Raised(b) \/ DeleteRule(b, n) = Ok(new4) \/ DeleteRule(b, n) = Ok(new6)
        BY DEF DeleteRule
    <2>2. SameSettings(b, new4) /\ SameSettings(b, new6)
        BY <1>1
    <2> HIDE DEF new4, new6
    <2> QED  BY <1>1, <1>2, <2>1, <2>2
<1> QED  BY <1>1, <1>2, <1>7, <1>8

\* A library call ends in one of its outcomes.
LEMMA LibCallFollows ==
    ASSUME NEW result, NEW broken, NEW returned, NEW raised, NEW name,
           LibCall(result, broken, returned, raised),
           Affects(be, result.store, name), \A b \in broken : Affects(be, b, name),
           Follows(returned), Follows(raised)
    PROVE  Affects(be, be', name) /\ Follows(py')
<1>1. (be' = result.store \/ be' \in broken) /\ (py' = returned \/ py' = raised)
    BY DEF LibCall
<1> HIDE DEF Affects, Follows
<1> QED  BY <1>1

\* So does a call that changes a rule.
LEMMA RuleCallFollows ==
    ASSUME NEW result, NEW returned, NEW raised, NEW name \in Changing.rules,
           RuleCall(result, returned, raised), SameSettings(be, result.store),
           Follows(returned), Follows(raised)
    PROVE  Affects(be, be', name) /\ Follows(py')
<1>1. LibCall(result, {be, result.store}, returned, raised)
    BY DEF RuleCall
<1>2. \A b \in {be, result.store} : Affects(be, b, name)
    BY DEF SameSettings, Affects
<1> HIDE DEF LibCall, Affects, Follows
<1> QED  BY <1>1, <1>2, LibCallFollows

-----------------------------------------------------------------------------
(* Steps of a process *)

\* What a step of the option that is executed does to the store and to the
\* options that are left.
StepEffect == /\ py.opts # <<>> /\ Affects(be, be', Head(py.opts).name)
              /\ Follows(py')

\* The steps of the commands about one rule.
LEMMA RuleStepEffect ==
    ASSUME PyOK,
           \/ AddRule \/ UpdateDelete \/ UpdateInsert \/ UpdateRestore \/ RemoveRule
           \/ MoveDelete \/ MoveInsert \/ ClearOne
    PROVE  StepEffect
<1>0. py.state = "running"
    BY DEF At, AddRule, UpdateDelete, UpdateInsert, UpdateRestore, RemoveRule, MoveDelete, MoveInsert,
        ClearOne
<1>1. be \in Stores
    BY DEF PyOK, Good
<1>2. /\ \A r, pos, family : SameSettings(be, InsertRule(be, r, pos, family).store)
      /\ \A n : SameSettings(be, DeleteRule(be, n).store)
      /\ SameSettings(be, Raised(be).store)
    BY <1>1, RulesOnly
<1>3. ASSUME NEW name \in Changing.rules, NEW pc, At(name, pc),
             NEW result, NEW returned, NEW raised, RuleCall(result, returned, raised),
             SameSettings(be, result.store), Follows(returned), Follows(raised)
      PROVE  StepEffect
    <2>1. py.opts # <<>> /\ Head(py.opts).name = name
        BY <1>3 DEF At
    <2>2. Affects(be, be', name) /\ Follows(py')
        BY <1>3, RuleCallFollows
    <2> QED  BY <2>1, <2>2 DEF StepEffect
<1>4. /\ {"add", "update", "remove", "move", "clear", "reset"} \subseteq Changing.rules
      /\ \A name, pc : At(name, pc) => py.opts # <<>>
    BY DEF Changing, At
<1>5. /\ Follows(Abort)
      /\ py.opts # <<>> => Follows(NextOption)
      /\ \A pc, held : Follows([py EXCEPT !.pc = pc, !.held = held])
      /\ \A pc : Follows([py EXCEPT !.pc = pc])
      /\ \A left : Follows([py EXCEPT !.left = left])
    BY <1>0, Following
<1> HIDE DEF StepEffect, Follows, SameSettings, Changing
<1>6. CASE AddRule
    <2>1. At("add", "start") /\ RuleCall(InsertRule(be, Arg, 0, FamilyOf(Arg.spec)), NextOption, Abort)
        BY <1>6 DEF AddRule
    <2> QED  BY <2>1, <1>2, <1>3, <1>4, <1>5
<1>7. CASE UpdateDelete
    <2> DEFINE next == [py EXCEPT !.pc = "insert", !.held = RuleAt(be, Arg.pos)]
    <2>1. At("update", "start") /\ RuleCall(DeleteRule(be, Arg.pos), next, NextOption)
        BY <1>7 DEF UpdateDelete
    <2>2. Follows(next)
        BY <1>5
    <2> HIDE DEF next
    <2> QED  BY <2>1, <2>2, <1>2, <1>3, <1>4, <1>5
<1>8. CASE UpdateInsert
    <2> DEFINE next == [py EXCEPT !.pc = "restore"]
    <2>1. /\ At("update", "insert")
          /\ RuleCall(InsertRule(be, Arg, Arg.pos, FamilyOf(Arg.spec)), NextOption, next)
        BY <1>8 DEF UpdateInsert
    <2>2. Follows(next)
        BY <1>5
    <2> HIDE DEF next
    <2> QED  BY <2>1, <2>2, <1>2, <1>3, <1>4, <1>5
<1>9. CASE UpdateRestore
    <2>1. /\ At("update", "restore")
          /\ RuleCall(InsertRule(be, py.held, 0, StoredFamily(py.held)), NextOption, Abort)
        BY <1>9 DEF UpdateRestore
    <2> QED  BY <2>1, <1>2, <1>3, <1>4, <1>5
<1>10. CASE RemoveRule
    <2>1. At("remove", "start") /\ RuleCall(DeleteRule(be, Arg), NextOption, Abort)
        BY <1>10 DEF RemoveRule
    <2> QED  BY <2>1, <1>2, <1>3, <1>4, <1>5
<1>11. CASE MoveDelete
    <2> DEFINE known == Arg.from # Arg.to /\ Arg.from \in 1..NumRules(be)
               result == IF known THEN DeleteRule(be, Arg.from) ELSE Raised(be)
               next == [py EXCEPT !.pc = "insert", !.held = RuleAt(be, Arg.from)]
    <2>1. At("move", "start") /\ RuleCall(result, next, Abort)
        BY <1>11 DEF MoveDelete
    <2>2. Follows(next)
        BY <1>5
    <2>3. SameSettings(be, result.store)
        BY <1>2
    <2> HIDE DEF next, result
    <2> QED  BY <2>1, <2>2, <2>3, <1>3, <1>4, <1>5
<1>12. CASE MoveInsert
    <2>1. /\ At("move", "insert")
          /\ RuleCall(InsertRule(be, py.held, Arg.to, StoredFamily(py.held)), NextOption, Abort)
        BY <1>12 DEF MoveInsert
    <2> QED  BY <2>1, <1>2, <1>3, <1>4, <1>5
<1>13. CASE ClearOne
    <2> DEFINE done == [py EXCEPT !.left = @ - 1]
    <2>1. /\ At("clear", "clearing") \/ At("reset", "clearing")
          /\ RuleCall(DeleteRule(be, 1), done, Abort)
        BY <1>13 DEF ClearOne
    <2>2. Follows(done)
        BY <1>5
    <2> HIDE DEF done
    <2> QED  BY <2>1, <2>2, <1>2, <1>3, <1>4, <1>5
<1> QED  BY <1>6, <1>7, <1>8, <1>9, <1>10, <1>11, <1>12, <1>13

\* The other steps of a process, and its death.
LEMMA OtherStepEffect ==
    ASSUME PyOK,
           \/ ClearCount \/ ClearDone \/ SetEnabled \/ DefaultsDisable \/ DefaultsSet
           \/ DefaultsEnable \/ SetModules \/ ResetDefaults \/ ResetWipe \/ Query
    PROVE  StepEffect
<1>0. py.state = "running"
    BY DEF At, ClearCount, ClearDone, SetEnabled, DefaultsDisable, DefaultsSet, DefaultsEnable,
        SetModules, ResetDefaults, ResetWipe, Query
<1>1. be \in Stores
    BY DEF PyOK, Good
<1>2. ASSUME NEW name, NEW pc, At(name, pc),
             NEW result, NEW broken, NEW returned, NEW raised,
             LibCall(result, broken, returned, raised),
             Affects(be, result.store, name), \A b \in broken : Affects(be, b, name),
             Follows(returned), Follows(raised)
      PROVE  StepEffect
    <2>1. py.opts # <<>> /\ Head(py.opts).name = name
        BY <1>2 DEF At
    <2>2. Affects(be, be', name) /\ Follows(py')
        BY <1>2, LibCallFollows
    <2> QED  BY <2>1, <2>2 DEF StepEffect
<1>3. ASSUME NEW name, NEW pc, At(name, pc), be' = be, Follows(py')
      PROVE  StepEffect
    <2>1. py.opts # <<>> /\ Head(py.opts).name = name
        BY <1>3 DEF At
    <2> QED  BY <2>1, <1>3 DEF StepEffect, Affects
<1>4. /\ \A name, on : name \in Changing.enabled =>
           Affects(be, [be EXCEPT !.enabled = on], name)
      /\ \A name, setting, val : name \in Changing.set =>
           Affects(be, [be EXCEPT !.set[setting] = val], name)
      /\ \A name, mods : name \in Changing.modules => Affects(be, [be EXCEPT !.modules = mods], name)
      /\ \A c : Affects(be, c, "reset")
      /\ \A name : Affects(be, be, name)
    BY <1>1 DEF Affects, Changing, Stores
<1>5. /\ {"setEnabled", "setDefaults", "reset"} \subseteq Changing.enabled
      /\ "setDefaults" \in Changing.set /\ "setModules" \in Changing.modules
      /\ \A name, pc : At(name, pc) => py.opts # <<>>
    BY DEF Changing, At
<1>6. /\ Follows(Abort)
      /\ py.opts # <<>> => Follows(NextOption)
      /\ py.opts # <<>> => \A out : Follows([NextOption EXCEPT !.out = out])
      /\ \A pc, left : Follows([py EXCEPT !.pc = pc, !.left = left])
      /\ \A pc : Follows([py EXCEPT !.pc = pc])
      /\ \A left : Follows([py EXCEPT !.left = left])
      /\ \A pc, left, was : Follows([py EXCEPT !.pc = pc, !.left = left, !.was = was])
    BY <1>0, Following
<1>7. Follows(Abort) /\ (py.opts # <<>> => Follows(NextOption))
    BY <1>6
<1>8. \A b : Ok(b).store = b
    BY DEF Ok
<1> HIDE DEF StepEffect, Follows, Affects, Changing
<1>9. ASSUME NEW name \in Changing.enabled, NEW pc, At(name, pc), NEW on, NEW returned,
             Switch(on, returned), Follows(returned)
      PROVE  StepEffect
    <2> DEFINE result == Ok([be EXCEPT !.enabled = on])
               off == [be EXCEPT !.enabled = FALSE]
    <2>1. LibCall(result, {off}, returned, Abort)
        BY <1>9 DEF Switch
    <2>2. Affects(be, result.store, name) /\ Affects(be, off, name)
        BY <1>4, <1>8
    <2> HIDE DEF result, off
    <2>3. \A b \in {off} : Affects(be, b, name)
        BY <2>2
    <2> QED  BY <2>1, <2>2, <2>3, <1>2, <1>7, <1>9
<1>10. CASE ClearCount
    BY <1>10, <1>3, <1>6 DEF ClearCount
<1>11. CASE ClearDone
    BY <1>11, <1>3, <1>5, <1>6 DEF ClearDone
<1>12. CASE SetEnabled
    BY <1>12, <1>3, <1>5, <1>6, <1>9 DEF SetEnabled
<1>13. CASE DefaultsDisable
    <2> DEFINE begun == [py EXCEPT !.pc = "setting", !.left = Len(SettingOrder), !.was = be.enabled]
    <2>1. /\ At("setDefaults", "start")
          /\ Switch(FALSE, begun) \/ (py' = begun /\ be' = be)
        BY <1>13 DEF DefaultsDisable
    <2>2. Follows(begun)
        BY <1>6
    <2> HIDE DEF begun
    <2> QED  BY <2>1, <2>2, <1>3, <1>5, <1>9
<1>14. CASE DefaultsSet
    <2> DEFINE name == SettingOrder[Len(SettingOrder) + 1 - py.left]
               written == [be EXCEPT !.set[name] = Arg[name]]
               next == [py EXCEPT !.left = @ - 1]
    <2>1. /\ At("setDefaults", "setting")
          /\ \/ LibCall(Ok(written), {be, written}, next, Abort)
             \/ (py' = next \/ py' = Abort) /\ be' = be
        BY <1>14 DEF DefaultsSet
    <2>2. Follows(next)
        BY <1>6
    <2>3. Affects(be, written, "setDefaults")
        BY <1>4, <1>5
    <2> HIDE DEF next, written
    <2>4. \A b \in {be, written} : Affects(be, b, "setDefaults")
        BY <2>3, <1>4
    <2>5. Affects(be, Ok(written).store, "setDefaults")
        BY <2>3, <1>8
    <2> QED  BY <2>1, <2>2, <2>4, <2>5, <1>2, <1>3, <1>7
<1>15. CASE DefaultsEnable
    BY <1>15, <1>3, <1>5, <1>6, <1>9 DEF DefaultsEnable
<1>16. CASE SetModules
    <2> DEFINE new == [be EXCEPT !.modules = Arg]
    <2>1. At("setModules", "start") /\ LibCall(Ok(new), {be}, NextOption, Abort)
        BY <1>16 DEF SetModules
    <2>2. Affects(be, new, "setModules") /\ \A b \in {be} : Affects(be, b, "setModules")
        BY <1>4, <1>5
    <2> HIDE DEF new
    <2>3. Affects(be, Ok(new).store, "setModules")
        BY <2>2, <1>8
    <2> QED  BY <2>1, <2>2, <2>3, <1>2, <1>5, <1>7
<1>17. CASE ResetDefaults
    <2> DEFINE all == Loaded(Len(DefaultsOrder) + 1)
               cleared == [py EXCEPT !.pc = "clearing", !.left = NumRules(be)]
               broken == {Loaded(k) : k \in 0..Len(DefaultsOrder)}
    <2>1. At("reset", "start") /\ LibCall(Ok(all), broken, cleared, cleared)
        BY <1>17 DEF ResetDefaults
    <2>2. Follows(cleared)
        BY <1>6
    <2> HIDE DEF all, cleared, broken
    <2>3. Affects(be, Ok(all).store, "reset") /\ \A b \in broken : Affects(be, b, "reset")
        BY <1>4
    <2> QED  BY <2>1, <2>2, <2>3, <1>2
<1>18. CASE ResetWipe
    <2> DEFINE result == Ok(ResetStore(be))
               broken == {be, [be EXCEPT !.enabled = FALSE]}
    <2>1. At("reset", "wipe") /\ LibCall(result, broken, NextOption, Abort)
        BY <1>18 DEF ResetWipe
    <2> HIDE DEF result, broken
    <2>2. Affects(be, result.store, "reset") /\ \A b \in broken : Affects(be, b, "reset")
        BY <1>4
    <2> QED  BY <2>1, <2>2, <1>2, <1>5, <1>6
<1>19. CASE Query
    <2>1. PICK part \in Parts :
             /\ At(part, "start")
             /\ LibCall(Ok(be), {be}, [NextOption EXCEPT !.out = @ \cup {part}], Abort)
        BY <1>19 DEF Query
    <2> DEFINE next == [NextOption EXCEPT !.out = @ \cup {part}]
    <2>2. Follows(next)
        BY <2>1, <1>5, <1>6
    <2>3. Affects(be, Ok(be).store, part) /\ \A b \in {be} : Affects(be, b, part)
        BY <1>4, <1>8
    <2>4. LibCall(Ok(be), {be}, next, Abort)
        BY <2>1
    <2> HIDE DEF next
    <2> QED  BY <2>1, <2>2, <2>3, <2>4, <1>2, <1>7
<1> QED  BY <1>10, <1>11, <1>12, <1>13, <1>14, <1>15, <1>16, <1>17, <1>18, <1>19

-----------------------------------------------------------------------------
(* Command lines *)

\* The options that a run for this command can have.
RuleCommands == {"addRules", "removeRule", "moveRule", "editRule"}
MayRun(cmd) ==
    CASE cmd = "setStatus"      -> {"setEnabled"}
      [] cmd = "setDefaults"    -> {"setDefaults"}
      [] cmd = "setModules"     -> {"setModules"}
      [] cmd = "setProfile"     -> {"clear", "add", "setDefaults", "setModules"}
      [] cmd = "reset"          -> {"reset"}
      [] cmd \in RuleCommands   -> {"add", "update", "remove", "move"}
      [] OTHER                  -> {}

\* Every option of the command line has one of these names.
Within(opts, names) == \A i \in 1..Len(opts) : opts[i].name \in names

\* What is left of a command line keeps to its names.
LEMMA WithinFollows ==
    ASSUME PyOK, NEW names, Within(py.opts, names), NEW p, Follows(p)
    PROVE  Within(p.opts, names)
<1>1. py.opts \in Seq(Options)
    BY DEF PyOK, ProcOK, Processes
<1>2. CASE p.opts = <<>>
    BY <1>2 DEF Within
<1>3. CASE py.opts # <<>> /\ p.opts = Tail(py.opts)
    <2>1. /\ p.opts \in Seq(Options) /\ Len(p.opts) = Len(py.opts) - 1 /\ Len(py.opts) \in Nat
          /\ \A i \in 1..Len(p.opts) : p.opts[i] = py.opts[i + 1]
        BY <1>1, <1>3
    <2> QED  BY <2>1 DEF Within
<1> QED  BY <1>2, <1>3 DEF Follows

\* A run that executes options executes one of those of its command line.
LEMMA FirstWithin ==
    ASSUME PyOK, NEW names, Within(py.opts, names), py.opts # <<>>
    PROVE  Head(py.opts).name \in names
<1>1. py.opts \in Seq(Options)
    BY DEF PyOK, ProcOK, Processes
<1>2. Head(py.opts) = py.opts[1] /\ 1 \in 1..Len(py.opts)
    BY <1>1
<1> QED  BY <1>2 DEF Within

\* Every step of a process has the effect of the option that is executed, or
\* is its end.
LEMMA ProcessStep ==
    ASSUME PyOK, PyStep \/ Kill
    PROVE  /\ py.state = "running"
           /\ StepEffect \/ (be' = be /\ py'.state # "running")
           /\ Follows(py')
<1>1. py.state = "running"
    BY DEF PyStep, Kill, At, AddRule, UpdateDelete, UpdateInsert, UpdateRestore, RemoveRule,
        MoveDelete, MoveInsert, ClearCount, ClearOne, ClearDone, SetEnabled, DefaultsDisable,
        DefaultsSet, DefaultsEnable, SetModules, ResetDefaults, ResetWipe, Query, Exit
<1>2. CASE Exit \/ Kill
    <2>1. py' = Ended("killed") \/ py' = [Ended("exited") EXCEPT !.out = py.out]
        BY <1>2 DEF Exit, Kill
    <2>2. be' = be /\ py'.state # "running"
        BY <1>2, <2>1 DEF Exit, Kill, Ended, NoProc
    <2> QED  BY <1>1, <2>1, <2>2, Following
<1>3. CASE StepEffect
    BY <1>1, <1>3 DEF StepEffect
<1> QED  BY <1>2, <1>3, RuleStepEffect, OtherStepEffect DEF PyStep

\* A command line of either run keeps to its command.
LEMMA CommandsWithin ==
    /\ \A cmd, arg : Within(Queries(SecondParts(cmd, arg)), Parts)
    /\ \A cmd \in Cmds \ {"query"} : \A arg :
         ArgOK(cmd, arg) => Within(FirstOpts(cmd, arg), MayRun(cmd))
<1>1. ASSUME NEW cmd, NEW arg
      PROVE  Within(Queries(SecondParts(cmd, arg)), Parts)
    <2> DEFINE parts == SecondParts(cmd, arg)
    <2>1. parts \in Seq(Parts)
        <3>1. /\ <<"status", "defaults", "list", "modules">> \in Seq(Parts)
              /\ <<"status", "list">> \in Seq(Parts) /\ <<"status">> \in Seq(Parts)
              /\ <<"modules">> \in Seq(Parts) /\ <<"list">> \in Seq(Parts)
            BY DEF Parts
        <3>2. <<"defaults">> \o <<"list">> \in Seq(Parts) /\ <<"defaults">> \o <<>> \in Seq(Parts)
            BY DEF Parts
        <3> QED  BY <3>1, <3>2 DEF SecondParts, EveryPart
    <2> HIDE DEF parts
    <2>2. DOMAIN parts = 1..Len(parts) /\ Len(parts) \in Nat
        BY <2>1
    <2>3. Len(Queries(parts)) = Len(parts)
        BY <2>2 DEF Queries
    <2>4. \A i \in 1..Len(parts) : Queries(parts)[i].name \in Parts
        BY <2>1, <2>2 DEF Queries, Opt
    <2> HIDE DEF Queries
    <2> QED  BY <2>3, <2>4 DEF parts, Within
<1>2. ASSUME NEW rules \in Seq(Rules \cup Shown)
      PROVE  Within(Adds(rules), {"add"}) /\ Adds(rules) \in Seq(Options)
    <2>1. DOMAIN rules = 1..Len(rules) /\ Len(rules) \in Nat
        OBVIOUS
    <2>2. Len(Adds(rules)) = Len(rules)
        BY <2>1 DEF Adds
    <2>3. \A i \in 1..Len(rules) : Adds(rules)[i].name = "add"
        BY <2>1 DEF Adds, Opt
    <2>4. \A i \in DOMAIN rules : Opt("add", rules[i]) \in Options
        BY DEF Opt, Options, RuleOptions
    <2> QED  BY <2>1, <2>2, <2>3, <2>4 DEF Within, Adds
<1>3. ASSUME NEW p, ArgOK("setProfile", p)
      PROVE  Within(ProfileOpts(p), {"clear", "add", "setDefaults", "setModules"})
    <2> DEFINE names == {"clear", "add", "setDefaults", "setModules"}
               In(s) == s \in Seq(Options) /\ Within(s, names)
               first == <<Opt("clear", 0)>>
               a == IF "rules" \in DOMAIN p THEN first \o Adds(p.rules) ELSE <<>>
               b == IF "defaults" \in DOMAIN p THEN <<Opt("setDefaults", p.defaults)>> ELSE <<>>
               c == IF "modules" \in DOMAIN p THEN <<Opt("setModules", p.modules)>> ELSE <<>>
    <2>1. ASSUME NEW s, NEW t, In(s), In(t)
          PROVE  In(s \o t)
        <3>1. /\ s \o t \in Seq(Options) /\ Len(s \o t) = Len(s) + Len(t)
              /\ Len(s) \in Nat /\ Len(t) \in Nat
            BY <2>1
        <3>2. ASSUME NEW i \in 1..Len(s \o t)
              PROVE  (s \o t)[i].name \in names
            <4>1. CASE i <= Len(s)
                <5>1. (s \o t)[i] = s[i] /\ i \in 1..Len(s)
                    BY <4>1, <3>1, <2>1
                <5> QED  BY <5>1, <2>1 DEF Within
            <4>2. CASE i > Len(s)
                <5>1. (s \o t)[i] = t[i - Len(s)] /\ i - Len(s) \in 1..Len(t)
                    BY <4>2, <3>1, <2>1
                <5> QED  BY <5>1, <2>1 DEF Within
            <4> QED  BY <4>1, <4>2, <3>1
        <3> QED  BY <3>1, <3>2 DEF Within
    <2>2. In(<<>>)
        BY DEF Within
    <2>3. ASSUME NEW name \in names, NEW arg, Opt(name, arg) \in Options
          PROVE  In(<<Opt(name, arg)>>)
        BY <2>3 DEF Opt, Within
    <2>4. Opt("clear", 0) \in Options
        BY DEF Opt, Options
    <2>5. "rules" \in DOMAIN p => In(Adds(p.rules))
        BY <1>2, <1>3 DEF ArgOK, Within
    <2>6. "defaults" \in DOMAIN p => Opt("setDefaults", p.defaults) \in Options
        BY <1>3 DEF ArgOK, Opt, Options
    <2>7. "modules" \in DOMAIN p => Opt("setModules", p.modules) \in Options
        BY <1>3 DEF ArgOK, Opt, Options
    <2>8. In(first)
        BY <2>3, <2>4
    <2> HIDE DEF In, first
    <2>9. In(a) /\ In(b) /\ In(c)
        BY <2>1, <2>2, <2>3, <2>5, <2>6, <2>7, <2>8
    <2>10. ProfileOpts(p) = (a \o b) \o c
        BY DEF ProfileOpts, first
    <2> HIDE DEF a, b, c
    <2>11. In(ProfileOpts(p))
        BY <2>1, <2>9, <2>10
    <2> QED  BY <2>11 DEF In
<1>4. ASSUME NEW cmd \in Cmds \ {"query"}, NEW arg, ArgOK(cmd, arg)
      PROVE  Within(FirstOpts(cmd, arg), MayRun(cmd))
    <2>1. CASE cmd = "setProfile"
        <3>1. /\ FirstOpts(cmd, arg) = ProfileOpts(arg)
              /\ MayRun(cmd) = {"clear", "add", "setDefaults", "setModules"}
            BY <2>1 DEF FirstOpts, MayRun, RuleCommands
        <3> QED  BY <3>1, <2>1, <1>3, <1>4
    <2>2. CASE cmd = "addRules"
        <3>1. /\ FirstOpts(cmd, arg) = Adds(arg) /\ arg \in Seq(Rules \cup Shown)
              /\ "add" \in MayRun(cmd)
            BY <2>2, <1>4 DEF FirstOpts, ArgOK, MayRun, RuleCommands
        <3>2. Within(Adds(arg), {"add"})
            BY <3>1, <1>2
        <3> QED  BY <3>1, <3>2 DEF Within
    <2>3. CASE cmd \notin {"setProfile", "addRules"}
        <3> DEFINE name == CASE cmd = "setStatus"  -> "setEnabled"
                             [] cmd = "removeRule" -> "remove"
                             [] cmd = "moveRule"   -> "move"
                             [] cmd = "editRule"   -> "update"
                             [] OTHER              -> cmd
                   val == IF cmd = "reset" THEN 0 ELSE arg
        <3>1. FirstOpts(cmd, arg) = <<Opt(name, val)>>
            BY <2>3 DEF FirstOpts, Cmds
        <3>2. name \in MayRun(cmd)
            BY <2>3 DEF Cmds, MayRun, RuleCommands
        <3> HIDE DEF name, val
        <3>3. Opt(name, val).name = name
            BY DEF Opt
        <3> QED  BY <3>1, <3>2, <3>3 DEF Within
    <2> QED  BY <2>1, <2>2, <2>3
<1> QED  BY <1>1, <1>4

-----------------------------------------------------------------------------
(* Steps that succeed *)

\* What a call of an option that must not raise leaves behind.
LEMMA Returned ==
    ASSUME NEW result, NEW broken, NEW returned, LibCall(result, broken, returned, Abort),
           py'.state # "failed"
    PROVE  result.ok = TRUE /\ be' = result.store /\ py' = returned
<1>1. Abort.state = "failed"
    BY DEF Abort, Ended, NoProc
<1> QED  BY <1>1 DEF LibCall

\* A call on the rules that does not end the process has succeeded, and the
\* process goes on with what it returned.
LEMMA RuleReturned ==
    ASSUME NEW result, NEW returned, RuleCall(result, returned, Abort), py'.state # "failed"
    PROVE  result.ok = TRUE /\ be' = result.store /\ py' = returned
BY Returned DEF RuleCall

\* A rule that is deleted and inserted again, while there is only one list, is
\* where it was moved to.
LEMMA MovedRule ==
    ASSUME NEW b, Good(b), ~Ipv6On(b), NEW from \in 1..NumRules(b), NEW to \in Nat \ {0}
    PROVE  InsertRule(DeleteRule(b, from).store, RuleAt(b, from), to, StoredFamily(RuleAt(b, from))).store.v4
             = InsertAt(RemoveAt(b.v4, from), IF to > Len(b.v4) THEN Len(b.v4) ELSE to, b.v4[from])
<1> DEFINE list   == b.v4
           rest   == RemoveAt(list, from)
           c      == DeleteRule(b, from).store
           r      == RuleAt(b, from)
           e      == list[from]
           pos    == IF to > NumRules(c) THEN 0 ELSE to
           at     == IF to > Len(list) THEN Len(list) ELSE to
<1>1. /\ list \in Seq(Rules) /\ Len(list) \in Nat /\ from \in 1..Len(list)
      /\ NumRules(b) = Len(list) /\ Num4(b) = Len(list) /\ \A i \in 1..Len(list) : list[i] \in Rules
    <2>1. Num6(b) = 0
        BY DEF Num6
    <2> QED  BY <2>1, Counts
<1>2. /\ rest \in Seq(Rules) /\ Len(rest) = Len(list) - 1
      /\ \A j \in 1..Len(list) - 1 : rest[j] = IF j < from THEN list[j] ELSE list[j + 1]
    BY <1>1, RemoveAtFact
<1>3. e \in Rules /\ r = [spec |-> e.spec, act |-> e.act, v6 |-> FALSE]
    BY <1>1 DEF RuleAt
<1>4. e = [spec |-> r.spec, act |-> r.act] /\ r.v6 = FALSE /\ r.spec = e.spec
    BY <1>3 DEF Rules
<1>5. StoredFamily(r) \in {"both", "v4"}
    <2>1. AddrOf[e.spec] \in {"any", "v4"}
        BY <1>1 DEF Good, Sound
    <2> QED  BY <1>4, <2>1 DEF StoredFamily, FamilyOf
<1>6. c = [b EXCEPT !.v4 = rest]
    <2>1. from <= Num4(b)
        BY <1>1
    <2> QED  BY <2>1, DeleteRuleFact
<1>7. c.v4 = rest /\ ~Ipv6On(c) /\ NumRules(c) = Len(rest) /\ Num4(c) = Len(rest) /\ c \in Stores
    <2>1. c.v4 = rest /\ c.set = b.set
        BY <1>6 DEF Good, Stores
    <2>2. Good(c)
        BY DeleteRuleGood
    <2>3. ~Ipv6On(c) /\ Num6(c) = 0
        BY <2>1 DEF Ipv6On, Num6
    <2> QED  BY <1>2, <2>1, <2>2, <2>3 DEF NumRules, Num4, Good
<1>8. \A i \in 1..Len(rest) : rest[i].spec # e.spec
    <2> SUFFICES ASSUME NEW i \in 1..Len(rest) PROVE rest[i].spec # e.spec
        OBVIOUS
    <2>1. PICK k \in 1..Len(list) : rest[i] = list[k] /\ k # from
        <3>1. i \in 1..Len(list) - 1
            BY <1>2
        <3>2. CASE i < from
            <4>1. i \in 1..Len(list) /\ i # from /\ rest[i] = list[i]
                BY <1>1, <1>2, <3>1, <3>2
            <4> QED  BY <4>1
        <3>3. CASE ~(i < from)
            <4>1. i + 1 \in 1..Len(list) /\ i + 1 # from /\ rest[i] = list[i + 1]
                BY <1>1, <1>2, <3>1, <3>3
            <4> QED  BY <4>1
        <3> QED  BY <3>2, <3>3
    <2> QED  BY <1>1, <2>1 DEF Good, Sound
<1> HIDE DEF c, r, e, rest, list
<1>9. Place(rest, e.spec) = 0
    <2>1. DOMAIN rest = 1..Len(rest)
        BY <1>2
    <2> QED  BY <1>8, <2>1 DEF Place
<1>10. pos \in Nat /\ ~(pos > Len(rest))
    BY <1>2, <1>7
<1>11. InsertRule(c, r, to, StoredFamily(r)) = SetRule(c, e, pos, StoredFamily(r))
    <2>1. StoredFamily(r) # "mixed"
        BY <1>5
    <2> QED  BY <1>4, <2>1 DEF InsertRule
<1> HIDE DEF pos
<1>12. SetRule(c, e, pos, StoredFamily(r)) = Ok([c EXCEPT !.v4 = Put(@, e, pos)])
    <2>1. ~(pos > NumRules(c)) /\ ~(pos > Num4(c))
        BY <1>7, <1>10
    <2>2. CASE StoredFamily(r) = "v4"
        BY <2>1, <2>2 DEF SetRule, SetV4
    <2>3. CASE StoredFamily(r) = "both"
        <3>1. SetRule(c, e, pos, StoredFamily(r)) = SetBoth(c, e, pos)
            BY <2>1, <2>3 DEF SetRule
        <3>2. SetBoth(c, e, pos) = Ok([c EXCEPT !.v4 = Put(@, e, pos)])
            BY <1>7 DEF SetBoth
        <3> QED  BY <3>1, <3>2
    <2> QED  BY <1>5, <2>2, <2>3
<1>13. InsertRule(c, r, to, StoredFamily(r)).store.v4 = Put(rest, e, pos)
    <2> DEFINE d == [c EXCEPT !.v4 = Put(@, e, pos)]
    <2>1. d.v4 = Put(rest, e, pos)
        BY <1>7 DEF Stores
    <2>2. Ok(d).store = d
        BY DEF Ok
    <2> HIDE DEF d
    <2>3. SetRule(c, e, pos, StoredFamily(r)) = Ok(d)
        BY <1>12 DEF d
    <2> QED  BY <1>11, <2>1, <2>2, <2>3
<1>14. Put(rest, e, pos) = IF pos = 0 THEN Append(rest, e) ELSE InsertAt(rest, pos, e)
    BY <1>9 DEF Put
<1> DEFINE result == InsertRule(c, r, to, StoredFamily(r)).store.v4
           moved  == InsertAt(rest, at, e)
<1>15. ASSUME ~(to > Len(rest)) PROVE result = moved
    <2>1. pos = to /\ at = to /\ pos # 0
        BY <1>1, <1>2, <1>7, <1>15 DEF pos
    <2> QED  BY <1>13, <1>14, <2>1
<1>16. ASSUME to > Len(rest) PROVE result = moved
    <2> DEFINE n   == Len(rest) + 1
               app == Append(rest, e)
               ins == InsertAt(rest, n, e)
    <2>1. pos = 0 /\ at = n /\ n \in 1..Len(rest) + 1 /\ Len(rest) \in Nat
        BY <1>1, <1>2, <1>7, <1>16 DEF pos
    <2>2. app \in Seq(Rules) /\ Len(app) = n /\ \A j \in 1..n : app[j] = IF j < n THEN rest[j] ELSE e
        BY <1>2, <1>3
    <2>3. ins \in Seq(Rules) /\ Inserted(ins, rest, n, e)
        BY <1>2, <1>3, <2>1, InsertAtFact
    <2>4. Len(ins) = n /\ \A j \in 1..n : ins[j] = IF j < n THEN rest[j] ELSE e
        BY <2>1, <2>3 DEF Inserted
    <2> HIDE DEF app, ins, n
    <2>5. app = ins
        <3>1. \A j \in 1..Len(app) : app[j] = ins[j]
            BY <2>2, <2>4
        <3> QED  BY <2>2, <2>3, <2>4, <3>1, SeqEqual
    <2> QED  BY <1>13, <1>14, <2>1, <2>5 DEF app, ins
<1>17. result = moved
    BY <1>15, <1>16
<1> QED  BY <1>17 DEF c, r, e, rest, list
====
