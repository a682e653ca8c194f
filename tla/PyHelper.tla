---- MODULE PyHelper ----
(***************************************************************************)
(* One run of helper/kcm_ufw_helper.py: main() executes the options of its *)
(* command line in order against the ufw store.  A step of the model is    *)
(* the code between two library calls, because the process can be killed   *)
(* there and because a library call can raise.  An exception that reaches  *)
(* main() ends the process with a non-zero exit code and no output; error()*)
(* itself raises (print >> sys.stderr under Python 3), so it counts as     *)
(* one.  What was written before stays written.                            *)
(*                                                                         *)
(* Line 171 binds the global name ufw, until then the package, to the one  *)
(* UFWFrontend.  Code that needs the package after that raises an          *)
(* AttributeError: a second UFWFrontend (line 67, made by setDefaults for  *)
(* the ipv6 attribute) and the except clause of clearRules (line 472).     *)
(***************************************************************************)
EXTENDS Ufw

CONSTANTS
    DefaultSettings,    \* the installed helper/defaults file
    DefaultModules,
    MaxFaults,          \* bound on library calls that raise by themselves
    MaxKills            \* bound on processes that are killed

ASSUME PyHelperAssumption ==
    /\ DefaultSettings \in Settings
    /\ DefaultModules \subseteq Modules
    /\ MaxFaults \in Nat /\ MaxKills \in Nat

VARIABLES
    be,     \* the ufw store
    py,     \* the helper process
    faults, \* library calls that raised by themselves so far
    kills   \* processes killed so far

pyVars == <<be, py, faults, kills>>

NoRule == [spec |-> "none", act |-> "none", v6 |-> FALSE]
Shown  == [spec : Specs, act : Acts, v6 : BOOLEAN]
Parts  == {"status", "defaults", "list", "modules"}

\* Where the option being executed is, between two library calls.
Pcs == {"start", "insert", "restore", "setting", "clearing", "wipe"}

\* state:  none, or running, or how the process ended
\* opts:   the options still to execute; pc, held, left and was are the
\*         locals of the function that executes the first of them
\* out:    the parts of the store that the XML output describes
NoProc == [state |-> "none", opts |-> <<>>, pc |-> "start", held |-> NoRule,
           left |-> 0, was |-> FALSE, out |-> {}]

Process(opts) == [NoProc EXCEPT !.state = "running", !.opts = opts]
Ended(how)    == [NoProc EXCEPT !.state = how]

Arg == Head(py.opts).arg

At(name, pc) ==
    /\ py.state = "running"
    /\ py.opts # <<>>
    /\ Head(py.opts).name = name
    /\ py.pc = pc

NextOption == [Process(Tail(py.opts)) EXCEPT !.out = py.out]
Abort      == Ended("failed")

\* A library call either does what result says or, while faults remain,
\* raises by itself and leaves one of the stores in broken.
LibCall(result, broken, returned, raised) ==
    \/ /\ be' = result.store
       /\ py' = IF result.ok THEN returned ELSE raised
       /\ UNCHANGED <<faults, kills>>
    \/ /\ faults < MaxFaults
       /\ faults' = faults + 1
       /\ be' \in broken
       /\ py' = raised
       /\ UNCHANGED kills

\* A failing rule change has either been written to the file or not.
RuleCall(result, returned, raised) ==
    LibCall(result, {be, result.store}, returned, raised)

\* set_enabled: a firewall that cannot be started or stopped is disabled.
Switch(on, returned) ==
    LibCall(Ok([be EXCEPT !.enabled = on]), {[be EXCEPT !.enabled = FALSE]}, returned, Abort)

-----------------------------------------------------------------------------
(* Rules *)

\* Defect for FamilyOf: the addresses are not looked at.
MFamilyIgnoresAddresses(spec) == "both"

\* getProtocol of a rule that came in XML, where an any-address of either
\* family is written alike, and of a rule read from the store, where the
\* any-address of IPv6 is not ANY_ADDR.
FamilyOf(spec)  == IF AddrOf[spec] = "any" THEN "both" ELSE AddrOf[spec]
StoredFamily(r) == IF r.v6 THEN "v6" ELSE FamilyOf(r.spec)

\* insertRule: a position beyond the end means the end.
InsertRule(b, r, pos, family) ==
    IF family = "mixed" THEN Raised(b)
    ELSE SetRule(b, [spec |-> r.spec, act |-> r.act],
                 IF pos > NumRules(b) THEN 0 ELSE pos, family)

\* addRule
AddRule ==
    /\ At("add", "start")
    /\ RuleCall(InsertRule(be, Arg, 0, FamilyOf(Arg.spec)), NextOption, Abort)

\* updateRule: delete, insert, and put the old rule back if that raised.
\* Every exception but one of the last call is swallowed.
UpdateDelete ==
    /\ At("update", "start")
    /\ RuleCall(DeleteRule(be, Arg.pos),
                [py EXCEPT !.pc = "insert", !.held = RuleAt(be, Arg.pos)],
                NextOption)

UpdateInsert ==
    /\ At("update", "insert")
    /\ RuleCall(InsertRule(be, Arg, Arg.pos, FamilyOf(Arg.spec)),
                NextOption,
                [py EXCEPT !.pc = "restore"])

UpdateRestore ==
    /\ At("update", "restore")
    /\ RuleCall(InsertRule(be, py.held, 0, StoredFamily(py.held)), NextOption, Abort)

\* Defect for RemoveRule: the index counts from 0.
MRemoveFromZero ==
    /\ At("remove", "start")
    /\ RuleCall(DeleteRule(be, Arg + 1), NextOption, Abort)

\* removeRule: the index alone says which rule goes.
RemoveRule ==
    /\ At("remove", "start")
    /\ RuleCall(DeleteRule(be, Arg), NextOption, Abort)

\* moveRule: equal or unknown indexes raise before anything is deleted.
MoveDelete ==
    /\ At("move", "start")
    /\ LET known == Arg.from # Arg.to /\ Arg.from \in 1..NumRules(be)
       IN  RuleCall(IF known THEN DeleteRule(be, Arg.from) ELSE Raised(be),
                    [py EXCEPT !.pc = "insert", !.held = RuleAt(be, Arg.from)],
                    Abort)

MoveInsert ==
    /\ At("move", "insert")
    /\ RuleCall(InsertRule(be, py.held, Arg.to, StoredFamily(py.held)), NextOption, Abort)

\* clearRules counts the rules, then deletes the first one that many times.
ClearCount ==
    /\ At("clear", "start")
    /\ py' = [py EXCEPT !.pc = "clearing", !.left = NumRules(be)]
    /\ UNCHANGED <<be, faults, kills>>

\* Defect for ClearOne: a deletion that raises is skipped, as the except
\* clause was meant to do.
MClearSkips ==
    /\ At("clear", "clearing") \/ At("reset", "clearing")
    /\ py.left > 0
    /\ LET done == [py EXCEPT !.left = @ - 1]
       IN  RuleCall(DeleteRule(be, 1), done, done)

\* A deletion that raises ends the process: to see whether the exception is
\* a ufw.common.UFWError, line 472 asks a frontend for the package's common.
ClearOne ==
    /\ At("clear", "clearing") \/ At("reset", "clearing")
    /\ py.left > 0
    /\ RuleCall(DeleteRule(be, 1), [py EXCEPT !.left = @ - 1], Abort)

ClearDone ==
    /\ py.left = 0
    /\ \/ At("clear", "clearing") /\ py' = NextOption
       \/ At("reset", "clearing") /\ py' = [py EXCEPT !.pc = "wipe"]
    /\ UNCHANGED <<be, faults, kills>>

-----------------------------------------------------------------------------
(* Status, defaults, modules *)

\* setEnabled
SetEnabled ==
    /\ At("setEnabled", "start")
    /\ IF be.enabled = Arg
       THEN py' = NextOption /\ UNCHANGED <<be, faults, kills>>
       ELSE Switch(Arg, NextOption)

\* setDefaults disables an enabled firewall, writes the attributes that are
\* present one by one, and enables the firewall again.
DefaultsDisable ==
    /\ At("setDefaults", "start")
    /\ LET begun == [py EXCEPT !.pc = "setting", !.left = Len(SettingOrder), !.was = be.enabled]
       IN  IF be.enabled
           THEN Switch(FALSE, begun)
           ELSE py' = begun /\ UNCHANGED <<be, faults, kills>>

\* For the ipv6 attribute a second frontend is made before anything is
\* written, which always raises.
DefaultsSet ==
    /\ At("setDefaults", "setting")
    /\ py.left > 0
    /\ LET name    == SettingOrder[Len(SettingOrder) + 1 - py.left]
           written == [be EXCEPT !.set[name] = Arg[name]]
           next    == [py EXCEPT !.left = @ - 1]
       IN  \/ /\ name \notin DOMAIN Arg
              /\ py' = next /\ UNCHANGED <<be, faults, kills>>
           \/ /\ name \in DOMAIN Arg /\ name = "ipv6"
              /\ py' = Abort /\ UNCHANGED <<be, faults, kills>>
           \/ /\ name \in DOMAIN Arg /\ name # "ipv6"
              /\ LibCall(Ok(written), {be, written}, next, Abort)

\* Defect for DefaultsEnable: the old status is not looked at.
MAlwaysEnables ==
    /\ At("setDefaults", "setting")
    /\ py.left = 0
    /\ Switch(TRUE, NextOption)

DefaultsEnable ==
    /\ At("setDefaults", "setting")
    /\ py.left = 0
    /\ IF py.was
       THEN Switch(TRUE, NextOption)
       ELSE py' = NextOption /\ UNCHANGED <<be, faults, kills>>

\* Defect for SetModules: the firewall is disabled first, as setDefaults does.
MModulesDisable ==
    /\ At("setModules", "start")
    /\ LibCall(Ok([be EXCEPT !.modules = Arg, !.enabled = FALSE]), {be}, NextOption, Abort)

\* setModules
SetModules ==
    /\ At("setModules", "start")
    /\ LibCall(Ok([be EXCEPT !.modules = Arg]), {be}, NextOption, Abort)

\* reset: loadDefaultSettings (which gives up silently at the first setting
\* that raises, and may turn IPv6 off), clearRules (of the rules that were
\* read with IPv6 as it was), then the library's own reset, which leaves the
\* firewall disabled, so that the re-enabling code after it has nothing to do.
DefaultsOrder == <<"incoming", "outgoing", "loglevel", "ipv6">>

Loaded(k) ==
    LET read == {DefaultsOrder[i] : i \in (1..k) \cap DOMAIN DefaultsOrder}
    IN  [be EXCEPT
           !.set = [name \in SettingNames |->
                      IF name \in read THEN DefaultSettings[name] ELSE be.set[name]],
           !.modules = IF k > Len(DefaultsOrder) THEN DefaultModules ELSE @]

ResetDefaults ==
    /\ At("reset", "start")
    /\ LET all     == Loaded(Len(DefaultsOrder) + 1)
           cleared == [py EXCEPT !.pc = "clearing", !.left = NumRules(be)]
       IN  LibCall(Ok(all), {Loaded(k) : k \in 0..Len(DefaultsOrder)}, cleared, cleared)

ResetWipe ==
    /\ At("reset", "wipe")
    /\ LibCall(Ok(ResetStore(be)), {be, [be EXCEPT !.enabled = FALSE]}, NextOption, Abort)

-----------------------------------------------------------------------------
(* Queries, the end of the process *)

\* getStatus, getDefaults, getRules, getModules add their part of the output.
Query ==
    \E part \in Parts :
        /\ At(part, "start")
        /\ LibCall(Ok(be), {be}, [NextOption EXCEPT !.out = @ \cup {part}], Abort)

Exit ==
    /\ py.state = "running"
    /\ py.opts = <<>>
    /\ py' = [Ended("exited") EXCEPT !.out = py.out]
    /\ UNCHANGED <<be, faults, kills>>

\* The process does not start, crashes, or is killed by ~QProcess after the
\* 30 seconds that waitForFinished waits: it stops where it is.
Kill ==
    /\ py.state = "running"
    /\ kills < MaxKills
    /\ kills' = kills + 1
    /\ py' = Ended("killed")
    /\ UNCHANGED <<be, faults>>

PyStep ==
    \/ AddRule \/ UpdateDelete \/ UpdateInsert \/ UpdateRestore \/ RemoveRule
    \/ MoveDelete \/ MoveInsert \/ ClearCount \/ ClearOne \/ ClearDone
    \/ SetEnabled \/ DefaultsDisable \/ DefaultsSet \/ DefaultsEnable
    \/ SetModules \/ ResetDefaults \/ ResetWipe \/ Query \/ Exit
====
