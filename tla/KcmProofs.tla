---- MODULE KcmProofs ----
(***************************************************************************)
(* Theorems about Kcm, for any rules, settings, profiles and gestures, and *)
(* any number of faults and kills: its types, the blocker, the target of a *)
(* move, and that what the window shows between calls is the firewall.     *)
(***************************************************************************)
EXTENDS Kcm, HelperProofs

-----------------------------------------------------------------------------
(* Types *)

\* The inductive type invariant.
TypeInv ==
    /\ HelperOK
    /\ view \in Views /\ sel \in 0..Len(view.rules) /\ moveTo \in Nat
    /\ blocked \in BOOLEAN /\ known \in BOOLEAN /\ refused \in BOOLEAN
    /\ call.cmd \in Cmds \cup {"none", "viewlog"}

\* It implies the types of the window.
LEMMA TypeInvImplies == TypeInv => TypeOK
<1> SUFFICES ASSUME TypeInv PROVE TypeOK
    OBVIOUS
<1>1. be \in Stores
    BY DEF TypeInv, HelperOK, PyOK, Good
<1>2. call.phase \in Phases /\ call.ok \in BOOLEAN /\ call.parts \in SUBSET Parts
    BY DEF TypeInv, HelperOK, CallOK, Calls
<1> QED  BY <1>1, <1>2 DEF TypeInv, TypeOK

\* The parts that a call reads back.
Reads(cmd, arg) ==
    CASE cmd = "query"       -> IF arg THEN Parts ELSE {"status", "list"}
      [] cmd = "setStatus"   -> {"status"}
      [] cmd = "setDefaults" -> {"defaults"} \cup IF "ipv6" \in DOMAIN arg THEN {"list"} ELSE {}
      [] cmd = "setModules"  -> {"modules"}
      [] cmd \in {"setProfile", "reset"} -> Parts
      [] OTHER               -> {"list"}

\* Two views show the same of this part.
SamePart(part, v, w) ==
    /\ part = "status"   => v.enabled = w.enabled
    /\ part = "defaults" => v.set = w.set
    /\ part = "modules"  => v.modules = w.modules
    /\ part = "list"     => v.rules = w.rules

NumberCmds == {"removeRule", "moveRule", "editRule"}
NumberOf(cmd, arg) == CASE cmd = "removeRule" -> arg
                        [] cmd = "moveRule"   -> arg.from
                        [] cmd = "editRule"   -> arg.pos

\* What every slot that makes a call does: it shows only what the call reads
\* back, and it names a row that is shown.
UserCall(cmd, arg) ==
    /\ ArgOK(cmd, arg) /\ Execute(cmd, arg)
    /\ view' \in Views /\ view'.rules = view.rules /\ sel' = sel
    /\ \A part \in Parts \ Reads(cmd, arg) : SamePart(part, view, view')
    /\ IF cmd = "moveRule" THEN ~blocked /\ moveTo' = arg.to /\ moveTo' \in Nat \ {0}
       ELSE moveTo' = moveTo
    /\ cmd = "query" => ~blocked
    /\ cmd \in NumberCmds => NumberOf(cmd, arg) \in 1..Len(view.rules)

\* A view with another value in one part.
LEMMA OtherView ==
    ASSUME view \in Views
    PROVE  /\ \A on \in BOOLEAN : /\ [view EXCEPT !.enabled = on] \in Views
                                  /\ [view EXCEPT !.enabled = on].rules = view.rules
                                  /\ \A part \in Parts \ {"status"} :
                                       SamePart(part, view, [view EXCEPT !.enabled = on])
           /\ \A set \in Settings : /\ [view EXCEPT !.set = set] \in Views
                                    /\ [view EXCEPT !.set = set].rules = view.rules
                                    /\ \A part \in Parts \ {"defaults"} :
                                         SamePart(part, view, [view EXCEPT !.set = set])
           /\ \A mods \in SUBSET Modules : /\ [view EXCEPT !.modules = mods] \in Views
                                           /\ [view EXCEPT !.modules = mods].rules = view.rules
                                           /\ \A part \in Parts \ {"modules"} :
                                                SamePart(part, view, [view EXCEPT !.modules = mods])
           /\ \A part : SamePart(part, view, view)
BY DEF Views, SamePart, Parts

\* A combo or check mark that is turned.
LEMMA Turned ==
    ASSUME view \in Views, NEW name \in SettingNames, NEW val \in SettingValues(name)
    PROVE  /\ [view EXCEPT !.set[name] = val] \in Views
           /\ [view EXCEPT !.set[name] = val].rules = view.rules
           /\ \A part \in Parts \ {"defaults"} : SamePart(part, view, [view EXCEPT !.set[name] = val])
           /\ [n \in {name} |-> val] \in Changes /\ DOMAIN [n \in {name} |-> val] = {name}
<1>1. view.set \in Settings
    BY DEF Views
<1>2. [view.set EXCEPT ![name] = val] \in Settings
    BY <1>1, OneSetting
<1>3. [view EXCEPT !.set[name] = val] = [view EXCEPT !.set = [view.set EXCEPT ![name] = val]]
    OBVIOUS
<1>4. [n \in {name} |-> val] \in Changes
    <2> DEFINE arg == [n \in {name} |-> val]
    <2>1. val \in {"yes", "no"} \cup LogLevels \cup Policies
        BY DEF SettingValues
    <2>2. /\ {name} \in SUBSET SettingNames
          /\ arg \in [{name} -> {"yes", "no"} \cup LogLevels \cup Policies]
          /\ \A n \in {name} : arg[n] \in SettingValues(n)
        BY <2>1
    <2> HIDE DEF arg
    <2> QED  BY <2>2 DEF Changes, arg
<1>5. \A set \in Settings : /\ [view EXCEPT !.set = set] \in Views
                            /\ [view EXCEPT !.set = set].rules = view.rules
                            /\ \A part \in Parts \ {"defaults"} :
                                 SamePart(part, view, [view EXCEPT !.set = set])
    BY OtherView
<1> HIDE DEF SamePart
<1>6. /\ [view EXCEPT !.set = [view.set EXCEPT ![name] = val]] \in Views
      /\ [view EXCEPT !.set = [view.set EXCEPT ![name] = val]].rules = view.rules
      /\ \A part \in Parts \ {"defaults"} :
           SamePart(part, view, [view EXCEPT !.set = [view.set EXCEPT ![name] = val]])
    BY <1>2, <1>5
<1> QED  BY <1>3, <1>4, <1>6

\* Every slot of the window that makes a call is a UserCall.
LEMMA UserCalls ==
    ASSUME TypeInv, KcmAssumption, User
    PROVE  \/ UserSelect
           \/ \E cmd \in Cmds : \E arg : UserCall(cmd, arg)
<1>1. /\ view \in Views /\ view.enabled \in BOOLEAN /\ view.modules \in SUBSET Modules
      /\ view.set \in Settings /\ view.rules \in Seq(Shown) /\ sel \in 0..Len(view.rules)
    BY DEF TypeInv, Views
<1>2. /\ \A part : SamePart(part, view, view)
      /\ "query" \notin NumberCmds /\ "setStatus" \notin NumberCmds /\ "setDefaults" \notin NumberCmds
      /\ "setModules" \notin NumberCmds /\ "setProfile" \notin NumberCmds
      /\ "addRules" \notin NumberCmds /\ "reset" \notin NumberCmds
    BY DEF SamePart, NumberCmds
<1>3. CASE UserSetStatus
    <2> DEFINE on == ~view.enabled
    <2>1. view' = [view EXCEPT !.enabled = on] /\ Execute("setStatus", on) /\ UNCHANGED <<sel, moveTo>>
        BY <1>3 DEF UserSetStatus
    <2>2. on \in BOOLEAN
        OBVIOUS
    <2> HIDE DEF on
    <2>3. /\ view' \in Views /\ view'.rules = view.rules
          /\ \A part \in Parts \ {"status"} : SamePart(part, view, view')
        BY <1>1, <2>1, <2>2, OtherView
    <2>4. ArgOK("setStatus", on) /\ Reads("setStatus", on) = {"status"}
        BY <2>2 DEF ArgOK, Reads
    <2>5. UserCall("setStatus", on)
        BY <1>2, <2>1, <2>3, <2>4 DEF UserCall
    <2> QED  BY <2>5 DEF Cmds
<1>4. ASSUME NEW name \in SettingNames, NEW val \in SettingValues(name),
             view' = [view EXCEPT !.set[name] = val], Execute("setDefaults", [n \in {name} |-> val]),
             UNCHANGED <<sel, moveTo>>
      PROVE  \E arg : UserCall("setDefaults", arg)
    <2> DEFINE arg == [n \in {name} |-> val]
    <2>1. /\ view' \in Views /\ view'.rules = view.rules
          /\ \A part \in Parts \ {"defaults"} : SamePart(part, view, view')
          /\ arg \in Changes /\ Execute("setDefaults", arg)
        BY <1>1, <1>4, Turned
    <2> HIDE DEF arg
    <2>2. ArgOK("setDefaults", arg) /\ "defaults" \in Reads("setDefaults", arg)
        BY <2>1 DEF ArgOK, Reads
    <2>3. UserCall("setDefaults", arg)
        BY <1>2, <1>4, <2>1, <2>2 DEF UserCall
    <2> QED  BY <2>3
<1>5. CASE UserSetIpV6
    <2>1. Other(view.set["ipv6"]) \in SettingValues("ipv6")
        BY DEF Other, SettingValues
    <2> QED  BY <1>5, <2>1, <1>4, SettingFacts DEF UserSetIpV6, Cmds
<1>6. CASE UserTurnCombo
    <2>1. PICK name \in SettingNames \ {"ipv6"} :
             \E val \in SettingValues(name) \ {view.set[name]} :
               /\ view' = [view EXCEPT !.set[name] = val]
               /\ Execute("setDefaults", [n \in {name} |-> val])
        BY <1>6 DEF UserTurnCombo
    <2>2. UNCHANGED <<sel, moveTo>>
        BY <1>6 DEF UserTurnCombo
    <2> QED  BY <2>1, <2>2, <1>4 DEF Cmds
<1>7. CASE UserClickModule
    <2>1. PICK m \in Modules :
             LET flipped == IF m \in view.modules THEN view.modules \ {m} ELSE view.modules \cup {m}
                 mods    == IF blocked THEN view.modules ELSE flipped
             IN  /\ view' = [view EXCEPT !.modules = mods]
                 /\ Execute("setModules", mods)
        BY <1>7 DEF UserClickModule
    <2> DEFINE flipped == IF m \in view.modules THEN view.modules \ {m} ELSE view.modules \cup {m}
               mods == IF blocked THEN view.modules ELSE flipped
    <2>2. mods \in SUBSET Modules
        BY <1>1
    <2>3. view' = [view EXCEPT !.modules = mods] /\ Execute("setModules", mods)
          /\ UNCHANGED <<sel, moveTo>>
        BY <1>7, <2>1 DEF UserClickModule
    <2> HIDE DEF mods
    <2>4. /\ view' \in Views /\ view'.rules = view.rules
          /\ \A part \in Parts \ {"modules"} : SamePart(part, view, view')
        BY <1>1, <2>2, <2>3, OtherView
    <2>5. ArgOK("setModules", mods) /\ Reads("setModules", mods) = {"modules"}
        BY <2>2 DEF ArgOK, Reads
    <2>6. UserCall("setModules", mods)
        BY <1>2, <2>3, <2>4, <2>5 DEF UserCall
    <2> QED  BY <2>6 DEF Cmds
<1>8. ASSUME NEW cmd \in Cmds, NEW arg, UNCHANGED <<view, sel>>, Execute(cmd, arg), ArgOK(cmd, arg),
             IF cmd = "moveRule" THEN ~blocked /\ moveTo' = arg.to /\ moveTo' \in Nat \ {0}
             ELSE moveTo' = moveTo,
             cmd = "query" => ~blocked,
             cmd \in NumberCmds => NumberOf(cmd, arg) \in 1..Len(view.rules)
      PROVE  UserCall(cmd, arg)
    BY <1>1, <1>2, <1>8 DEF UserCall
<1>9. CASE UserDefaults
    <2>1. Execute("reset", 0) /\ UNCHANGED <<view, sel, moveTo>> /\ ArgOK("reset", 0)
        BY <1>9 DEF UserDefaults, ArgOK
    <2>2. "reset" \in Cmds
        BY DEF Cmds
    <2> QED  BY <1>2, <2>1, <2>2, <1>8
<1>10. CASE UserRefresh
    <2>1. /\ Execute("query", TRUE) /\ UNCHANGED <<view, sel, moveTo>> /\ ArgOK("query", TRUE)
          /\ ~blocked
        BY <1>10 DEF UserRefresh, ArgOK, Free
    <2>2. "query" \in Cmds
        BY DEF Cmds
    <2> QED  BY <1>2, <2>1, <2>2, <1>8
<1>11. CASE UserLoadProfile
    <2>1. PICK p \in SavedProfiles : Execute("setProfile", p)
        BY <1>11 DEF UserLoadProfile
    <2>2. /\ "rules" \in DOMAIN p => p.rules \in Seq(Shown)
          /\ "defaults" \in DOMAIN p => p.defaults \in Settings
          /\ "modules" \in DOMAIN p => p.modules \in SUBSET Modules
        BY DEF KcmAssumption
    <2>3. "rules" \in DOMAIN p => p.rules \in Seq(Rules \cup Shown)
        BY <2>2, SeqMonotonic
    <2>4. "defaults" \in DOMAIN p => p.defaults \in Changes
        <3> SUFFICES ASSUME "defaults" \in DOMAIN p PROVE p.defaults \in Changes
            OBVIOUS
        <3>1. /\ p.defaults \in [SettingNames -> {"yes", "no"} \cup LogLevels \cup Policies]
              /\ \A name \in SettingNames : p.defaults[name] \in SettingValues(name)
            BY <2>2 DEF Settings
        <3>2. SettingNames \in SUBSET SettingNames
            OBVIOUS
        <3> QED  BY <3>1, <3>2 DEF Changes
    <2>5. ArgOK("setProfile", p) /\ "setProfile" \in Cmds /\ UNCHANGED <<view, sel, moveTo>>
        BY <2>2, <2>3, <2>4, <1>11 DEF ArgOK, Cmds, UserLoadProfile
    <2> QED  BY <1>2, <2>1, <2>5, <1>8
<1>12. CASE UserAddRule
    <2>1. PICK r \in Rules : Execute("addRules", <<r>>)
        BY <1>12 DEF UserAddRule
    <2>2. <<r>> \in Seq(Rules \cup Shown)
        OBVIOUS
    <2>3. ArgOK("addRules", <<r>>) /\ "addRules" \in Cmds /\ UNCHANGED <<view, sel, moveTo>>
        BY <2>2, <1>12 DEF ArgOK, Cmds, UserAddRule
    <2> QED  BY <1>2, <2>1, <2>3, <1>8
<1>13. CASE UserEditRule
    <2>1. PICK r \in Rules : Execute("editRule", [spec |-> r.spec, act |-> r.act, pos |-> sel])
        BY <1>13 DEF UserEditRule
    <2> DEFINE arg == [spec |-> r.spec, act |-> r.act, pos |-> sel]
    <2>2. arg \in [spec : Specs, act : Acts, pos : Nat] /\ arg.pos = sel
        BY <1>1 DEF Rules
    <2>3. sel \in 1..Len(view.rules) /\ UNCHANGED <<view, sel, moveTo>> /\ Execute("editRule", arg)
        BY <1>1, <1>13, <2>1 DEF UserEditRule
    <2> HIDE DEF arg
    <2>4. ArgOK("editRule", arg) /\ "editRule" \in Cmds /\ NumberOf("editRule", arg) = sel
        BY <2>2 DEF ArgOK, Cmds, NumberOf
    <2> QED  BY <1>2, <2>3, <2>4, <1>8
<1>14. CASE UserRemoveRule
    <2>1. /\ sel \in 1..Len(view.rules) /\ UNCHANGED <<view, sel, moveTo>> /\ Execute("removeRule", sel)
        BY <1>1, <1>14 DEF UserRemoveRule
    <2>2. ArgOK("removeRule", sel) /\ "removeRule" \in Cmds /\ NumberOf("removeRule", sel) = sel
        BY <1>1 DEF ArgOK, Cmds, NumberOf
    <2> QED  BY <1>2, <2>1, <2>2, <1>8
<1>15. CASE UserMoveRule
    <2>1. PICK to \in (1..Len(view.rules) + 1) \ {sel} :
             moveTo' = to /\ Execute("moveRule", [from |-> sel, to |-> to])
        BY <1>15 DEF UserMoveRule
    <2> DEFINE arg == [from |-> sel, to |-> to]
    <2>2. arg \in [from : Nat, to : Nat] /\ arg.from = sel /\ moveTo' = arg.to /\ moveTo' \in Nat \ {0}
        BY <1>1, <2>1
    <2>3. /\ sel \in 1..Len(view.rules) /\ UNCHANGED <<view, sel>> /\ ~blocked
          /\ Execute("moveRule", arg)
        BY <1>1, <1>15, <2>1 DEF UserMoveRule, Free
    <2> HIDE DEF arg
    <2>4. ArgOK("moveRule", arg) /\ "moveRule" \in Cmds /\ NumberOf("moveRule", arg) = sel
        BY <2>2 DEF ArgOK, Cmds, NumberOf
    <2> QED  BY <1>2, <2>2, <2>3, <2>4, <1>8
<1> QED  BY <1>3, <1>5, <1>6, <1>7, <1>9, <1>10, <1>11, <1>12, <1>13, <1>14, <1>15 DEF User

\* The list that users see has typed rules.
LEMMA ListingType ==
    ASSUME NEW b, Good(b)
    PROVE  Listing(b) \in Seq(Shown) /\ Len(Listing(b)) = NumRules(b) /\ NumRules(b) \in Nat
<1>1. NumRules(b) \in Nat
    BY Counts
<1>2. \A n \in 1..NumRules(b) : RuleAt(b, n) \in Shown
    BY RuleAtFits DEF Shown
<1>3. Listing(b) \in Seq(Shown)
    BY <1>1, <1>2 DEF Listing
<1> QED  BY <1>1, <1>3 DEF Listing

\* A call that the window makes is submitted, denied or refused.
LEMMA ExecuteCases ==
    ASSUME TypeInv, KcmAssumption, PyHelperAssumption, NEW cmd \in Cmds, NEW arg, UserCall(cmd, arg)
    PROVE  /\ TypeInv' /\ blocked' = TRUE /\ UNCHANGED <<be, kills>>
           /\ \/ /\ call.phase = "none" /\ Submit(cmd, arg)
                 /\ UNCHANGED <<faults, known, refused>>
              \/ /\ call.phase = "none"
                 /\ call' = [NoCall EXCEPT !.phase = "reply", !.cmd = cmd, !.arg = arg]
                 /\ UNCHANGED <<py, known, refused>>
              \/ /\ call.phase # "none" /\ UNCHANGED <<call, py, faults>>
                 /\ known' = (known /\ view' = view)
                 /\ refused' = (refused \/ call.cmd = "viewlog")
<1>1. HelperOK /\ PyOK /\ faults \in 0..MaxFaults /\ MaxFaults \in Nat
    BY DEF TypeInv, HelperOK, PyOK, PyHelperAssumption
<1>2. ArgOK(cmd, arg) /\ Execute(cmd, arg)
    BY DEF UserCall
<1>3. /\ view' \in Views /\ sel' \in 0..Len(view'.rules) /\ moveTo' \in Nat
    BY DEF UserCall, TypeInv
<1>4. blocked' = TRUE /\ UNCHANGED <<be, kills>>
    BY <1>2 DEF Execute
<1>5. CASE call.phase = "none" /\ Submit(cmd, arg) /\ UNCHANGED <<faults, known, refused>>
    <2>1. HelperOK' /\ call'.cmd = cmd
        BY <1>1, <1>2, <1>4, <1>5, SubmitType
    <2> QED  BY <1>3, <1>4, <1>5, <2>1 DEF TypeInv
<1>6. CASE /\ call.phase = "none" /\ faults < MaxFaults /\ faults' = faults + 1
           /\ call' = [NoCall EXCEPT !.phase = "reply", !.cmd = cmd, !.arg = arg]
           /\ UNCHANGED <<py, known, refused>>
    <2>1. PyOK'
        BY <1>1, <1>4, <1>6 DEF PyOK
    <2>2. call'.cmd = cmd /\ call'.arg = arg
        BY <1>6 DEF NoCall
    <2>3. CallOK'
        BY <1>6, <2>2 DEF CallOK, Calls, NoCall, Phases
    <2>4. TypeInv'
        BY <1>3, <1>4, <1>6, <2>1, <2>2, <2>3 DEF TypeInv, HelperOK
    <2> QED  BY <1>4, <1>6, <2>4
<1>7. CASE /\ call.phase # "none" /\ UNCHANGED <<call, py, faults>>
           /\ known' = (known /\ view' = view) /\ refused' = (refused \/ call.cmd = "viewlog")
    <2>1. PyOK' /\ CallOK'
        BY <1>1, <1>4, <1>7 DEF PyOK, HelperOK, CallOK
    <2>2. known' \in BOOLEAN /\ refused' \in BOOLEAN
        BY <1>7 DEF TypeInv
    <2>3. call'.cmd \in Cmds \cup {"none", "viewlog"}
        BY <1>7 DEF TypeInv
    <2>4. TypeInv'
        BY <1>3, <1>4, <2>1, <2>2, <2>3 DEF TypeInv, HelperOK
    <2> QED  BY <1>4, <1>7, <2>4
<1> QED  BY <1>2, <1>5, <1>6, <1>7 DEF Execute

\* The invariant holds at the start.
LEMMA TypeInit == ASSUME KcmAssumption, PyHelperAssumption, Init PROVE TypeInv
<1>1. DefaultSettings \in Settings /\ DefaultModules \in SUBSET Modules
    BY DEF PyHelperAssumption
<1>2. Good(EmptyStore)
    <2>1. <<>> \in Seq(Rules)
        OBVIOUS
    <2>2. EmptyStore \in Stores
        BY <1>1, <2>1 DEF EmptyStore, Stores
    <2> QED  BY <2>1, <2>2 DEF EmptyStore, Good, Sound
<1>3. Good([EmptyStore EXCEPT !.set["ipv6"] = "yes", !.enabled = TRUE])
    <2> DEFINE set == [DefaultSettings EXCEPT !["ipv6"] = "yes"]
               on4 == [EmptyStore EXCEPT !.set = set]
    <2>1. set \in Settings
        BY <1>1, OneSetting, SettingFacts DEF SettingValues
    <2>2. [EmptyStore EXCEPT !.set["ipv6"] = "yes", !.enabled = TRUE] = [on4 EXCEPT !.enabled = TRUE]
        BY DEF EmptyStore
    <2> HIDE DEF set
    <2>3. Good(on4)
        BY <1>2, <2>1, NewSettings
    <2> HIDE DEF on4
    <2>4. Good([on4 EXCEPT !.enabled = TRUE])
        BY <2>3, NewSettings
    <2> QED  BY <2>2, <2>4
<1>4. Good(be)
    BY <1>2, <1>3 DEF Init
<1>5. ProcOK(py)
    <2>1. Queries(EveryPart) \in Seq(Options)
        <3>1. SecondParts("reset", 0) = EveryPart
            BY DEF SecondParts
        <3> QED  BY <3>1, CommandLines
    <2> QED  BY <2>1, FreshProcess DEF Init
<1>6. CallOK /\ call.cmd = "query"
    <2>1. call.cmd = "query" /\ call.arg = TRUE
        BY DEF Init, NoCall
    <2> QED  BY <2>1 DEF Init, CallOK, Calls, NoCall, Phases
<1>7. view \in Views /\ view.rules = <<>>
    BY DEF Init, BlankView, Views, KcmAssumption
<1>8. sel \in 0..Len(view.rules) /\ moveTo \in Nat
    BY <1>7 DEF Init
<1>9. "query" \in Cmds
    BY DEF Cmds
<1>10. faults \in 0..MaxFaults /\ kills \in 0..MaxKills
    BY DEF Init, PyHelperAssumption
<1>11. blocked \in BOOLEAN /\ known \in BOOLEAN /\ refused \in BOOLEAN
    BY DEF Init
<1> QED  BY <1>4, <1>5, <1>6, <1>7, <1>8, <1>9, <1>10, <1>11 DEF TypeInv, HelperOK, PyOK

\* The two windows' replies keep the types.
LEMMA DeliverType ==
    ASSUME TypeInv, KcmAssumption, PyHelperAssumption, Deliver \/ LogRefresh \/ UserSelect
    PROVE  TypeInv'
<1>1. /\ HelperOK /\ PyOK /\ CallOK /\ Good(be) /\ view \in Views
      /\ faults \in 0..MaxFaults /\ MaxFaults \in Nat
    BY DEF TypeInv, HelperOK, PyOK, PyHelperAssumption
<1>2. ASSUME call' = NoCall, UNCHANGED <<be, py, faults, kills>>
      PROVE  HelperOK' /\ call'.cmd = "none"
    <2>1. call'.cmd = "none" /\ call'.arg = 0
        BY <1>2 DEF NoCall
    <2>2. CallOK'
        BY <1>2, <2>1 DEF CallOK, Calls, NoCall, Phases
    <2>3. PyOK'
        BY <1>1, <1>2 DEF PyOK
    <2> QED  BY <2>1, <2>2, <2>3 DEF HelperOK
<1>3. CASE ReplyShown
    <2>1. /\ view' = Show(call.parts) /\ sel' = IF "list" \in call.parts THEN Reselect(Listing(be)) ELSE sel
          /\ moveTo' = IF call.cmd = "query" THEN moveTo ELSE 0
          /\ known' = IF call.parts = Parts THEN TRUE ELSE known /\ call.cmd # "query"
          /\ blocked' = FALSE /\ refused' = FALSE /\ call' = NoCall
          /\ UNCHANGED <<be, py, faults, kills>>
        BY <1>3 DEF ReplyShown
    <2>2. Listing(be) \in Seq(Shown) /\ Len(Listing(be)) = NumRules(be) /\ NumRules(be) \in Nat
        BY <1>1, ListingType
    <2>3. /\ be.enabled \in BOOLEAN /\ be.set \in Settings /\ be.modules \in SUBSET Modules
          /\ view.enabled \in BOOLEAN /\ view.set \in Settings /\ view.modules \in SUBSET Modules
          /\ view.rules \in Seq(Shown)
        BY <1>1 DEF Good, Stores, Views
    <2>4. view' \in Views
        BY <2>1, <2>2, <2>3 DEF Show, Views
    <2>5. view'.rules = IF "list" \in call.parts THEN Listing(be) ELSE view.rules
        BY <2>1 DEF Show
    <2>6. sel \in 0..Len(view.rules) /\ Len(view.rules) \in Nat /\ moveTo \in Nat
        BY <2>3 DEF TypeInv
    <2>7. Reselect(Listing(be)) \in 0..Len(Listing(be))
        BY <2>2, <2>6 DEF Reselect
    <2>8. sel' \in 0..Len(view'.rules)
        BY <2>1, <2>5, <2>6, <2>7
    <2>9. moveTo' \in Nat /\ known' \in BOOLEAN
        BY <2>1, <2>6 DEF TypeInv
    <2> QED  BY <2>1, <2>4, <2>8, <2>9, <1>2 DEF TypeInv
<1>4. CASE QueryFailed
    <2>1. call' = NoCall /\ UNCHANGED <<be, py, faults, kills, view, sel, moveTo>>
          /\ known' = FALSE /\ blocked' = FALSE /\ refused' = FALSE
        BY <1>4 DEF QueryFailed
    <2> QED  BY <2>1, <1>2 DEF TypeInv
<1>5. CASE ModifyFailed
    <2>1. /\ moveTo' = 0 /\ blocked' = TRUE /\ Submit("query", TRUE)
          /\ UNCHANGED <<be, faults, kills, view, sel, known, refused>>
        BY <1>5 DEF ModifyFailed
    <2>2. "query" \in Cmds /\ ArgOK("query", TRUE)
        BY DEF Cmds, ArgOK
    <2>3. HelperOK' /\ call'.cmd = "query"
        BY <2>1, <2>2, <1>1, SubmitType
    <2> QED  BY <2>1, <2>2, <2>3 DEF TypeInv
<1>6. CASE LogRefresh
    <2>1. call' = [NoCall EXCEPT !.phase = "reply", !.cmd = "viewlog", !.ok = TRUE]
          /\ UNCHANGED <<be, py, faults, kills, view, sel, moveTo, blocked, known, refused>>
        BY <1>6 DEF LogRefresh, guiVars
    <2>2. call'.cmd = "viewlog" /\ call'.arg = 0
        BY <2>1 DEF NoCall
    <2>3. CallOK'
        BY <2>1, <2>2 DEF CallOK, Calls, NoCall, Phases
    <2>4. PyOK'
        BY <2>1, <1>1 DEF PyOK
    <2> QED  BY <2>1, <2>2, <2>3, <2>4 DEF TypeInv, HelperOK
<1>7. CASE LogShown
    <2>1. call' = NoCall
          /\ UNCHANGED <<be, py, faults, kills, view, sel, moveTo, blocked, known, refused>>
        BY <1>7 DEF LogShown, guiVars
    <2> QED  BY <2>1, <1>2 DEF TypeInv
<1>8. CASE UserSelect
    <2>1. /\ sel' \in DOMAIN view.rules
          /\ UNCHANGED <<be, py, faults, kills, call, view, moveTo, blocked, known, refused>>
        BY <1>8 DEF UserSelect
    <2>2. DOMAIN view.rules = 1..Len(view.rules)
        BY <1>1 DEF Views
    <2>3. PyOK' /\ CallOK'
        BY <2>1, <1>1 DEF PyOK, CallOK
    <2> QED  BY <2>1, <2>2, <2>3 DEF TypeInv, HelperOK
<1> QED  BY <1>3, <1>4, <1>5, <1>6, <1>7, <1>8 DEF Deliver

\* Every step keeps the invariant.
LEMMA TypeStep ==
    ASSUME TypeInv, KcmAssumption, PyHelperAssumption, [Next]_vars
    PROVE  TypeInv'
<1>1. CASE User
    <2>1. CASE UserSelect
        BY <2>1, DeliverType
    <2>2. ASSUME NEW cmd \in Cmds, NEW arg, UserCall(cmd, arg)
          PROVE  TypeInv'
        BY <2>2, ExecuteCases
    <2> QED  BY <1>1, <2>1, <2>2, UserCalls
<1>2. CASE Serve
    <2>1. /\ HelperStep /\ known' = (known /\ kills' = kills)
          /\ UNCHANGED <<view, sel, moveTo, blocked, refused>>
        BY <1>2 DEF Serve
    <2>2. HelperOK' /\ call'.cmd = call.cmd
        BY <2>1, HelperStepType DEF TypeInv
    <2> QED  BY <2>1, <2>2 DEF TypeInv
<1>3. CASE Deliver \/ LogRefresh
    BY <1>3, DeliverType
<1>4. CASE UNCHANGED vars
    BY <1>4 DEF vars, TypeInv, HelperOK, PyOK, CallOK
<1> QED  BY <1>1, <1>2, <1>3, <1>4 DEF Next

\* Kcm.TypeOK for any instance: what the window and the helpers hold keeps to
\* its type, and the row that is selected exists whatever the replies did to
\* the list.
THEOREM TypeCorrect == Spec => []TypeOK
<1>1. Init => TypeInv
    BY TypeInit, KcmAssumption, PyHelperAssumption
<1>2. TypeInv /\ [Next]_vars => TypeInv'
    BY TypeStep, KcmAssumption, PyHelperAssumption
<1>3. TypeInv => TypeOK
    BY TypeInvImplies
<1> QED  BY <1>1, <1>2, <1>3, PTL DEF Spec

-----------------------------------------------------------------------------
(* The blocker and the target of a move *)

\* The three invariants about the blocker.  They are inductive with the last
\* two conjuncts: the log viewer has one step only, and a target is kept
\* behind the blocker, so that no query begins while there is one.
BlockerInv ==
    /\ BlockedWhileBusy /\ ReleasedWhenIdle /\ MoveTargetOnlyDuringMove
    /\ call.cmd = "viewlog" => call.phase = "reply"
    /\ moveTo # 0 => blocked /\ (Busy => call.cmd # "query")

\* A call that is submitted is in flight.
LEMMA SubmitPhase ==
    ASSUME NEW cmd, NEW arg, Submit(cmd, arg)
    PROVE  /\ call'.cmd = cmd /\ call'.arg = arg /\ call'.ok = FALSE
           /\ IF cmd = "query" THEN call'.phase = "second"
              ELSE IF FirstOpts(cmd, arg) = <<>> THEN call'.phase = "reply"
              ELSE call'.phase = "first"
<1> DEFINE request == [NoCall EXCEPT !.cmd = cmd, !.arg = arg]
<1>1. ASSUME NEW phase
      PROVE  /\ [request EXCEPT !.phase = phase].phase = phase
             /\ [request EXCEPT !.phase = phase].cmd = cmd
             /\ [request EXCEPT !.phase = phase].arg = arg
             /\ [request EXCEPT !.phase = phase].ok = FALSE
    BY DEF NoCall
<1>2. IF cmd = "query" THEN call' = [request EXCEPT !.phase = "second"]
      ELSE IF FirstOpts(cmd, arg) = <<>> THEN call' = [request EXCEPT !.phase = "reply"]
      ELSE call' = [request EXCEPT !.phase = "first"]
    BY DEF Submit
<1> HIDE DEF request
<1> QED  BY <1>1, <1>2

\* A step of the helpers goes on with the call in flight.
LEMMA HelperPhase ==
    ASSUME CallOK, HelperStep
    PROVE  \/ call' = call
           \/ /\ call'.cmd = call.cmd /\ call'.arg = call.arg
              /\ \/ call.phase = "first" /\ call'.phase = "second"
                 \/ call.phase \in {"first", "second"} /\ call'.phase = "reply"
BY DEF HelperStep, FirstEnded, SecondEnded, Replied, CallOK, Calls

\* The invariant holds of every step.
LEMMA BlockerStep ==
    ASSUME TypeInv, BlockerInv, KcmAssumption, PyHelperAssumption, [Next]_vars
    PROVE  BlockerInv'
<1> USE DEF BlockerInv, BlockedWhileBusy, ReleasedWhenIdle, MoveTargetOnlyDuringMove, Busy
<1>1. CallOK /\ blocked \in BOOLEAN /\ refused \in BOOLEAN /\ moveTo \in Nat
    BY DEF TypeInv, HelperOK
<1>2. ASSUME NEW cmd \in Cmds, NEW arg, UserCall(cmd, arg)
      PROVE  BlockerInv'
    <2>1. /\ moveTo' = moveTo \/ (cmd = "moveRule" /\ ~blocked)
          /\ cmd = "query" => ~blocked
          /\ cmd # "viewlog"
        BY <1>2 DEF UserCall, Cmds
    <2>2. /\ blocked' = TRUE
          /\ \/ call.phase = "none" /\ Submit(cmd, arg) /\ refused' = refused
             \/ /\ call.phase = "none" /\ refused' = refused
                /\ call' = [NoCall EXCEPT !.phase = "reply", !.cmd = cmd, !.arg = arg]
             \/ call.phase # "none" /\ call' = call /\ refused' = (refused \/ call.cmd = "viewlog")
        BY <1>2, ExecuteCases
    <2>3. CASE call.phase = "none" /\ Submit(cmd, arg) /\ refused' = refused
        <3>1. call'.cmd = cmd /\ call'.phase \in {"first", "second", "reply"}
            BY <2>3, SubmitPhase
        <3> QED  BY <2>1, <2>2, <2>3, <3>1
    <2>4. CASE /\ call.phase = "none" /\ refused' = refused
               /\ call' = [NoCall EXCEPT !.phase = "reply", !.cmd = cmd, !.arg = arg]
        <3>1. call'.cmd = cmd /\ call'.phase = "reply"
            BY <2>4 DEF NoCall
        <3> QED  BY <2>1, <2>2, <2>4, <3>1
    <2>5. CASE call.phase # "none" /\ call' = call /\ refused' = (refused \/ call.cmd = "viewlog")
        BY <2>1, <2>2, <2>5
    <2> QED  BY <2>2, <2>3, <2>4, <2>5
<1>3. CASE UserSelect
    BY <1>3 DEF UserSelect
<1>4. CASE Serve
    <2>1. HelperStep /\ UNCHANGED <<moveTo, blocked, refused>>
        BY <1>4 DEF Serve
    <2> QED  BY <2>1, <1>1, HelperPhase
<1>5. CASE ReplyShown
    BY <1>5 DEF ReplyShown, Answered, NoCall, Cmds
<1>6. CASE QueryFailed
    BY <1>6 DEF QueryFailed, Answered, NoCall
<1>7. CASE ModifyFailed
    <2>1. call'.cmd = "query" /\ call'.phase = "second"
        BY <1>7, SubmitPhase DEF ModifyFailed
    <2> QED  BY <1>7, <2>1 DEF ModifyFailed
<1>8. CASE LogRefresh
    BY <1>8 DEF LogRefresh, NoCall, guiVars
<1>9. CASE LogShown
    BY <1>9 DEF LogShown, NoCall, guiVars
<1>10. CASE UNCHANGED vars
    BY <1>10 DEF vars
<1>11. CASE User
    BY <1>11, <1>2, <1>3, UserCalls
<1> QED  BY <1>4, <1>5, <1>6, <1>7, <1>8, <1>9, <1>10, <1>11 DEF Next, Deliver

\* It is an invariant.
LEMMA BlockerInvariant == Spec => []BlockerInv
<1>1. Init => TypeInv
    BY TypeInit, KcmAssumption, PyHelperAssumption
<1>2. Init => BlockerInv
    <2> SUFFICES ASSUME Init PROVE BlockerInv
        OBVIOUS
    <2>1. call.phase = "second" /\ call.cmd = "query" /\ blocked /\ moveTo = 0
        BY DEF Init, NoCall
    <2> QED  BY <2>1 DEF BlockerInv, BlockedWhileBusy, ReleasedWhenIdle, MoveTargetOnlyDuringMove, Busy
<1>3. TypeInv /\ [Next]_vars => TypeInv'
    BY TypeStep, KcmAssumption, PyHelperAssumption
<1>4. TypeInv /\ BlockerInv /\ [Next]_vars => BlockerInv'
    BY BlockerStep, KcmAssumption, PyHelperAssumption
<1> QED  BY <1>1, <1>2, <1>3, <1>4, PTL DEF Spec

\* Kcm.BlockedWhileBusy for any instance: as long as a call of the window is
\* in flight, also the query after a failure, the guarded widgets are blocked.
THEOREM BusyIsBlocked == Spec => []BlockedWhileBusy
<1>1. BlockerInv => BlockedWhileBusy
    BY DEF BlockerInv
<1> QED  BY <1>1, BlockerInvariant, PTL

\* Kcm.ReleasedWhenIdle for any instance: the window is never left blocked
\* with nothing in flight, but for a call that the log viewer's call refused.
THEOREM IdleIsReleased == Spec => []ReleasedWhenIdle
<1>1. BlockerInv => ReleasedWhenIdle
    BY DEF BlockerInv
<1> QED  BY <1>1, BlockerInvariant, PTL

\* Kcm.MoveTargetOnlyDuringMove for any instance: the row that a move is to
\* is forgotten with the move's reply, so no other reply moves the selection.
THEOREM MoveTargetEnds == Spec => []MoveTargetOnlyDuringMove
<1>1. BlockerInv => MoveTargetOnlyDuringMove
    BY DEF BlockerInv
<1> QED  BY <1>1, BlockerInvariant, PTL

-----------------------------------------------------------------------------
(* Steps of the two runs *)

\* The steps that execute an option with this name.
LEMMA StepNames ==
    ASSUME PyStep
    PROVE  /\ py.opts = <<>> => Exit
           /\ py.opts # <<>> =>
                /\ Head(py.opts).name \in Parts => Query
                /\ Head(py.opts).name = "setDefaults" =>
                     DefaultsDisable \/ DefaultsSet \/ DefaultsEnable
                /\ Head(py.opts).name \in {"remove", "move", "update"} =>
                     \/ UpdateDelete \/ UpdateInsert \/ UpdateRestore
                     \/ RemoveRule \/ MoveDelete \/ MoveInsert
<1> DEFINE Name == Head(py.opts).name
<1>1. CASE AddRule
    <2>1. py.opts # <<>> /\ Name = "add"
        BY <1>1 DEF AddRule, At
    <2> QED  BY <2>1 DEF Parts
<1>2. CASE ClearCount \/ ClearOne \/ ClearDone
    <2>1. py.opts # <<>> /\ Name \in {"clear", "reset"}
        BY <1>2 DEF ClearCount, ClearOne, ClearDone, At
    <2> QED  BY <2>1 DEF Parts
<1>3. CASE UpdateDelete \/ UpdateInsert \/ UpdateRestore
    <2>1. py.opts # <<>> /\ Name = "update"
        BY <1>3 DEF UpdateDelete, UpdateInsert, UpdateRestore, At
    <2> QED  BY <1>3, <2>1 DEF Parts
<1>4. CASE RemoveRule
    <2>1. py.opts # <<>> /\ Name = "remove"
        BY <1>4 DEF RemoveRule, At
    <2> QED  BY <1>4, <2>1 DEF Parts
<1>5. CASE MoveDelete \/ MoveInsert
    <2>1. py.opts # <<>> /\ Name = "move"
        BY <1>5 DEF MoveDelete, MoveInsert, At
    <2> QED  BY <1>5, <2>1 DEF Parts
<1>6. CASE SetEnabled \/ SetModules \/ ResetDefaults \/ ResetWipe
    <2>1. py.opts # <<>> /\ Name \in {"setEnabled", "setModules", "reset"}
        BY <1>6 DEF SetEnabled, SetModules, ResetDefaults, ResetWipe, At
    <2> QED  BY <2>1 DEF Parts
<1>7. CASE DefaultsDisable \/ DefaultsSet \/ DefaultsEnable
    <2>1. py.opts # <<>> /\ Name = "setDefaults"
        BY <1>7 DEF DefaultsDisable, DefaultsSet, DefaultsEnable, At
    <2> QED  BY <1>7, <2>1 DEF Parts
<1>8. CASE Query
    <2>1. py.opts # <<>> /\ Name \in Parts
        BY <1>8 DEF Query, At
    <2> QED  BY <1>8, <2>1 DEF Parts
<1>9. CASE Exit
    BY <1>9 DEF Exit
<1> HIDE DEF Name
<1> QED  BY <1>1, <1>2, <1>3, <1>4, <1>5, <1>6, <1>7, <1>8, <1>9 DEF PyStep

\* A running process has not been killed, and what it becomes by a step.
LEMMA NotKilled ==
    ASSUME PyOK, PyStep
    PROVE  py'.state \in {"running", "exited", "failed"}
<1> DEFINE Alive(p) == p.state \in {"running", "exited", "failed"}
<1>1. py.state = "running" /\ py \in Processes
    BY ProcessStep DEF PyOK, ProcOK
<1>2. /\ Alive(NextOption) /\ Alive(Abort)
      /\ \A out : Alive([NextOption EXCEPT !.out = out])
      /\ \A out : Alive([Ended("exited") EXCEPT !.out = out])
    BY DEF NextOption, Abort, Process, Ended, NoProc
<1>3. /\ \A pc, held : Alive([py EXCEPT !.pc = pc, !.held = held])
      /\ \A pc, left : Alive([py EXCEPT !.pc = pc, !.left = left])
      /\ \A pc : Alive([py EXCEPT !.pc = pc])
      /\ \A left : Alive([py EXCEPT !.left = left])
      /\ \A pc, left, was : Alive([py EXCEPT !.pc = pc, !.left = left, !.was = was])
    BY <1>1 DEF Processes
<1>4. ASSUME NEW result, NEW broken, NEW returned, NEW raised,
             LibCall(result, broken, returned, raised), Alive(returned), Alive(raised)
      PROVE  Alive(py')
    <2>1. py' = returned \/ py' = raised
        BY <1>4 DEF LibCall
    <2> QED  BY <2>1, <1>4
<1> SUFFICES Alive(py')
    OBVIOUS
<1> HIDE DEF Alive
<1>5. CASE AddRule \/ RemoveRule \/ UpdateRestore \/ MoveInsert
    BY <1>5, <1>2, <1>4 DEF AddRule, RemoveRule, UpdateRestore, MoveInsert, RuleCall
<1>6. CASE UpdateDelete
    BY <1>6, <1>2, <1>3, <1>4 DEF UpdateDelete, RuleCall
<1>7. CASE UpdateInsert
    BY <1>7, <1>2, <1>3, <1>4 DEF UpdateInsert, RuleCall
<1>8. CASE MoveDelete
    BY <1>8, <1>2, <1>3, <1>4 DEF MoveDelete, RuleCall
<1>9. CASE ClearCount \/ ClearDone
    <2>1. \/ py' = NextOption \/ py' = [py EXCEPT !.pc = "wipe"]
          \/ py' = [py EXCEPT !.pc = "clearing", !.left = NumRules(be)]
        BY <1>9 DEF ClearCount, ClearDone
    <2> QED  BY <2>1, <1>1 DEF Alive, NextOption, Process, NoProc, Processes
<1>17. CASE ClearOne
    BY <1>17, <1>2, <1>3, <1>4 DEF ClearOne, RuleCall
<1>10. CASE SetEnabled \/ DefaultsEnable
    BY <1>10, <1>2, <1>4 DEF SetEnabled, DefaultsEnable, Switch
<1>11. CASE DefaultsDisable
    <2> DEFINE begun == [py EXCEPT !.pc = "setting", !.left = Len(SettingOrder), !.was = be.enabled]
    <2>1. Switch(FALSE, begun) \/ py' = begun
        BY <1>11 DEF DefaultsDisable
    <2>2. Alive(begun)
        BY <1>3
    <2> HIDE DEF begun
    <2> QED  BY <2>1, <2>2, <1>2, <1>4 DEF Switch
<1>12. CASE DefaultsSet
    BY <1>12, <1>2, <1>3, <1>4 DEF DefaultsSet
<1>13. CASE SetModules \/ ResetWipe
    BY <1>13, <1>2, <1>4 DEF SetModules, ResetWipe
<1>14. CASE ResetDefaults
    BY <1>14, <1>2, <1>3, <1>4 DEF ResetDefaults
<1>15. CASE Query
    BY <1>15, <1>2, <1>4 DEF Query
<1>16. CASE Exit
    BY <1>16, <1>2 DEF Exit
<1> QED  BY <1>5, <1>6, <1>7, <1>8, <1>9, <1>10, <1>11, <1>12, <1>13, <1>14, <1>15, <1>16, <1>17
    DEF PyStep

\* The steps of setDefaults that do not fail: they never reach ipv6, the
\* firewall is disabled while they write, and the old status comes back with
\* the last one.
LEMMA DefaultsStep ==
    ASSUME PyOK, DefaultsDisable \/ DefaultsSet \/ DefaultsEnable, py'.state # "failed"
    PROVE  /\ be'.set["ipv6"] = be.set["ipv6"]
           /\ \/ /\ py.pc = "start" /\ py'.pc = "setting" /\ py'.opts = py.opts
                 /\ py'.was = be.enabled /\ be'.enabled = FALSE
              \/ /\ py.pc = "setting" /\ py'.pc = "setting" /\ py'.opts = py.opts
                 /\ py'.was = py.was /\ be'.enabled = be.enabled
              \/ /\ py.pc = "setting" /\ py'.pc = "start"
                 /\ be'.enabled = IF py.was THEN TRUE ELSE be.enabled
<1>1. py \in Processes /\ be \in Stores
    BY DEF PyOK, ProcOK, Good
<1>2. Abort.state = "failed"
    BY DEF Abort, Ended, NoProc
<1>3. ASSUME NEW store, NEW broken, NEW returned, LibCall(Ok(store), broken, returned, Abort)
      PROVE  be' = store /\ py' = returned
    BY <1>2, <1>3 DEF LibCall, Ok
<1>4. CASE DefaultsDisable
    <2> DEFINE begun == [py EXCEPT !.pc = "setting", !.left = Len(SettingOrder), !.was = be.enabled]
               off == [be EXCEPT !.enabled = FALSE]
    <2>1. py.pc = "start"
        BY <1>4 DEF DefaultsDisable, At
    <2>2. py' = begun /\ (be' = off \/ (~be.enabled /\ be' = be))
        BY <1>3, <1>4 DEF DefaultsDisable, Switch
    <2>3. begun.pc = "setting" /\ begun.opts = py.opts /\ begun.was = be.enabled
        BY <1>1 DEF Processes
    <2>4. off.set = be.set /\ off.enabled = FALSE /\ be.enabled \in BOOLEAN
        BY <1>1 DEF Stores
    <2> HIDE DEF begun, off
    <2> QED  BY <2>1, <2>2, <2>3, <2>4
<1>5. CASE DefaultsSet
    <2> DEFINE name == SettingOrder[Len(SettingOrder) + 1 - py.left]
               written == [be EXCEPT !.set[name] = Arg[name]]
               next == [py EXCEPT !.left = @ - 1]
    <2>1. py.pc = "setting"
        BY <1>5 DEF DefaultsSet, At
    <2>2. py' = next /\ ((name # "ipv6" /\ be' = written) \/ be' = be)
        BY <1>2, <1>3, <1>5 DEF DefaultsSet
    <2>3. next.pc = py.pc /\ next.opts = py.opts /\ next.was = py.was
        BY <1>1 DEF Processes
    <2>4. written.enabled = be.enabled
        BY <1>1 DEF Stores
    <2>5. name # "ipv6" => written.set["ipv6"] = be.set["ipv6"]
        BY <1>1, SettingFacts DEF Stores, Settings
    <2> HIDE DEF next, written
    <2> QED  BY <2>1, <2>2, <2>3, <2>4, <2>5
<1>6. CASE DefaultsEnable
    <2> DEFINE on == [be EXCEPT !.enabled = TRUE]
    <2>1. py.pc = "setting"
        BY <1>6 DEF DefaultsEnable, At
    <2>2. py' = NextOption /\ be' = IF py.was THEN on ELSE be
        BY <1>3, <1>6 DEF DefaultsEnable, Switch
    <2>3. NextOption.pc = "start" /\ on.enabled = TRUE /\ on.set = be.set
        BY <1>1 DEF NextOption, Process, NoProc, Stores
    <2> HIDE DEF on
    <2> QED  BY <2>1, <2>2, <2>3
<1> QED  BY <1>4, <1>5, <1>6

\* The steps of the commands that use a rule number use it once.
LEMMA NumberStep ==
    ASSUME PyOK, \/ UpdateDelete \/ UpdateInsert \/ UpdateRestore
                 \/ RemoveRule \/ MoveDelete \/ MoveInsert
    PROVE  py'.opts = Tail(py.opts) \/ py'.opts = <<>> \/ py'.pc # "start"
<1> DEFINE Past(p) == p.opts = Tail(py.opts) \/ p.opts = <<>> \/ p.pc # "start"
<1>1. py \in Processes
    BY DEF PyOK, ProcOK
<1>2. Past(NextOption) /\ Past(Abort)
    BY DEF NextOption, Abort, Process, Ended, NoProc
<1>3. /\ \A held : Past([py EXCEPT !.pc = "insert", !.held = held])
      /\ Past([py EXCEPT !.pc = "restore"])
    BY <1>1 DEF Processes
<1>4. ASSUME NEW result, NEW returned, NEW raised,
             RuleCall(result, returned, raised), Past(returned), Past(raised)
      PROVE  Past(py')
    <2>1. py' = returned \/ py' = raised
        BY <1>4 DEF RuleCall, LibCall
    <2> QED  BY <2>1, <1>4
<1> SUFFICES Past(py')
    OBVIOUS
<1> HIDE DEF Past
<1>5. CASE RemoveRule \/ UpdateRestore \/ MoveInsert
    BY <1>5, <1>2, <1>4 DEF RemoveRule, UpdateRestore, MoveInsert
<1>6. CASE UpdateDelete
    BY <1>6, <1>2, <1>3, <1>4 DEF UpdateDelete
<1>7. CASE UpdateInsert
    BY <1>7, <1>2, <1>3, <1>4 DEF UpdateInsert
<1>8. CASE MoveDelete
    BY <1>8, <1>2, <1>3, <1>4 DEF MoveDelete
<1> QED  BY <1>5, <1>6, <1>7, <1>8

\* The steps of a run that reads back.
LEMMA QueryStep ==
    ASSUME PyOK, Query, py'.state # "failed"
    PROVE  be' = be /\ py' = [NextOption EXCEPT !.out = py.out \cup {Head(py.opts).name}]
<1>1. PICK part \in Parts :
         /\ At(part, "start")
         /\ LibCall(Ok(be), {be}, [NextOption EXCEPT !.out = @ \cup {part}], Abort)
    BY DEF Query
<1>2. Abort.state = "failed" /\ NextOption.out = py.out
    BY DEF Abort, Ended, NextOption, Process, NoProc
<1>3. Head(py.opts).name = part
    BY <1>1 DEF At
<1>4. be' = be /\ py' = [NextOption EXCEPT !.out = @ \cup {part}]
    BY <1>1, <1>2 DEF LibCall, Ok
<1>5. [NextOption EXCEPT !.out = @ \cup {part}] = [NextOption EXCEPT !.out = py.out \cup {part}]
    BY <1>2
<1> QED  BY <1>3, <1>4, <1>5

-----------------------------------------------------------------------------
(* What the window shows *)

\* The second run has read this part or is about to.
Asked(part) == part \in py.out \/ \E i \in 1..Len(py.opts) : py.opts[i].name = part

\* This part of the view is as the firewall is.
Shows(part) ==
    SamePart(part, view, [enabled |-> be.enabled, set |-> be.set, modules |-> be.modules,
                          rules |-> Listing(be)])

\* During the first run, what the call does not read back is shown as it is,
\* but for the status, which setDefaults takes away and brings back; a rule
\* number is about to be used only while the list is the one that is shown.
StatusKept == IF py.pc = "setting"
              THEN py.opts # <<>> /\ py.was = view.enabled /\ be.enabled = FALSE
              ELSE Shows("status")
FirstShows ==
    /\ Within(py.opts, MayRun(call.cmd))
    /\ call.cmd \in {"setDefaults"} \cup NumberCmds => py.opts \in {<<>>, FirstOpts(call.cmd, call.arg)}
    /\ py.state \in {"running", "exited", "failed"}
    /\ py.state # "running" => py.opts = <<>> /\ py.pc = "start"
    /\ py.state # "failed" =>
         /\ \A part \in Parts \ Reads(call.cmd, call.arg) :
              Shows(part) \/ (part = "status" /\ call.cmd = "setDefaults")
         /\ call.cmd = "setDefaults" => StatusKept
         /\ call.cmd \in NumberCmds =>
              /\ NumberOf(call.cmd, call.arg) \in 1..Len(view.rules)
              /\ py.pc = "start" /\ py.opts # <<>> => Shows("list")

\* During the second run, whatever is not shown as it is has been read back
\* or is about to be.
SecondShows ==
    /\ Within(py.opts, Parts)
    /\ py.state \in {"running", "exited", "failed"}
    /\ py.state # "running" => py.opts = <<>>
    /\ py.state # "failed" => \A part \in Parts : Shows(part) \/ Asked(part)

\* What the window shows while it knows the firewall.
ViewInv ==
    /\ call.phase \in {"none", "reply"} => py.state = "none"
    /\ known =>
         /\ call.phase = "none" \/ call.cmd = "viewlog" => \A part \in Parts : Shows(part)
         /\ call.phase = "first" => call.cmd \in Cmds \ {"query"} /\ FirstShows
         /\ call.phase = "second" => call.cmd \in Cmds /\ SecondShows
         /\ call.phase = "reply" /\ call.ok => \A part \in Parts \ call.parts : Shows(part)

\* The list depends on the rules and on the IPv6 setting only.
LEMMA ListingKept ==
    ASSUME NEW b, NEW c, c.v4 = b.v4, c.v6 = b.v6, c.set["ipv6"] = b.set["ipv6"]
    PROVE  Listing(c) = Listing(b)
BY DEF Listing, NumRules, Num4, Num6, RuleAt, Ipv6On

\* The second run asks for what the call reads back, and nothing else.
LEMMA ReadsAll ==
    ASSUME NEW cmd, NEW arg, NEW part \in Reads(cmd, arg)
    PROVE  \E i \in 1..Len(Queries(SecondParts(cmd, arg))) :
              Queries(SecondParts(cmd, arg))[i].name = part
<1> DEFINE parts == SecondParts(cmd, arg)
<1>1. parts \in Seq(Parts) /\ \E i \in 1..Len(parts) : parts[i] = part
    <2>1. CASE cmd = "query" /\ ~arg
        <3>1. parts = <<"status", "list">> /\ part \in {"status", "list"}
            BY <2>1 DEF SecondParts, Reads
        <3> QED  BY <3>1 DEF Parts
    <2>2. CASE (cmd = "query" /\ arg) \/ cmd \in {"setProfile", "reset"}
        <3>1. parts = <<"status", "defaults", "list", "modules">> /\ part \in Parts
            BY <2>2 DEF SecondParts, EveryPart, Reads
        <3> QED  BY <3>1 DEF Parts
    <2>3. CASE cmd = "setStatus"
        <3>1. parts = <<"status">> /\ part = "status"
            BY <2>3 DEF SecondParts, Reads
        <3> QED  BY <3>1 DEF Parts
    <2>4. CASE cmd = "setModules"
        <3>1. parts = <<"modules">> /\ part = "modules"
            BY <2>4 DEF SecondParts, Reads
        <3> QED  BY <3>1 DEF Parts
    <2>5. CASE cmd = "setDefaults" /\ "ipv6" \in DOMAIN arg
        <3>1. parts = <<"defaults">> \o <<"list">> /\ part \in {"defaults", "list"}
            BY <2>5 DEF SecondParts, Reads
        <3> HIDE DEF parts
        <3>2. parts \in Seq(Parts) /\ Len(parts) = 2 /\ parts[1] = "defaults" /\ parts[2] = "list"
            BY <3>1 DEF Parts
        <3> QED  BY <3>1, <3>2
    <2>6. CASE cmd = "setDefaults" /\ "ipv6" \notin DOMAIN arg
        <3>1. parts = <<"defaults">> \o <<>> /\ part = "defaults"
            BY <2>6 DEF SecondParts, Reads
        <3> HIDE DEF parts
        <3>2. parts \in Seq(Parts) /\ Len(parts) = 1 /\ parts[1] = "defaults"
            BY <3>1 DEF Parts
        <3> QED  BY <3>1, <3>2
    <2>7. CASE cmd \notin {"query", "setProfile", "reset", "setStatus", "setModules", "setDefaults"}
        <3>1. parts = <<"list">> /\ part = "list"
            BY <2>7 DEF SecondParts, Reads
        <3> QED  BY <3>1 DEF Parts
    <2> QED  BY <2>1, <2>2, <2>3, <2>4, <2>5, <2>6, <2>7
<1> HIDE DEF parts
<1>2. DOMAIN parts = 1..Len(parts) /\ Len(parts) \in Nat
    BY <1>1
<1>3. Len(Queries(parts)) = Len(parts)
    BY <1>2 DEF Queries
<1>4. \A i \in 1..Len(parts) : Queries(parts)[i].name = parts[i]
    BY <1>2 DEF Queries, Opt
<1> QED  BY <1>1, <1>3, <1>4 DEF parts

\* A step of the first run keeps what is shown.
LEMMA FirstStep ==
    ASSUME TypeInv, PyHelperAssumption, call.cmd \in Cmds \ {"query"}, FirstShows, PyStep,
           UNCHANGED <<call, view>>
    PROVE  FirstShows'
<1> DEFINE cmd == call.cmd
           arg == call.arg
           Name == Head(py.opts).name
<1>1. PyOK /\ py \in Processes /\ py.opts \in Seq(Options) /\ be \in Stores
    BY DEF TypeInv, HelperOK, PyOK, ProcOK, Processes, Good
<1>2. /\ py.state = "running" /\ Follows(py')
      /\ StepEffect \/ (be' = be /\ py'.state # "running")
      /\ py'.state \in {"running", "exited", "failed"}
    BY <1>1, ProcessStep, NotKilled
<1>3. Within(py'.opts, MayRun(cmd))
    BY <1>1, <1>2, WithinFollows DEF FirstShows
<1>4. cmd \in {"setDefaults"} \cup NumberCmds => py'.opts \in {<<>>, FirstOpts(cmd, arg)}
    <2> SUFFICES ASSUME cmd \in {"setDefaults"} \cup NumberCmds
                 PROVE  py'.opts \in {<<>>, FirstOpts(cmd, arg)}
        OBVIOUS
    <2>1. PICK o : FirstOpts(cmd, arg) = <<o>>
        BY DEF FirstOpts, NumberCmds
    <2>2. Tail(<<o>>) = <<>>
        OBVIOUS
    <2> QED  BY <1>2, <2>1, <2>2 DEF FirstShows, Follows
<1>5. py'.state # "running" => py'.opts = <<>> /\ py'.pc = "start"
    BY <1>2 DEF Follows
<1>6. py.opts # <<>> => Name \in MayRun(cmd)
    BY <1>1, FirstWithin DEF FirstShows
<1>7. /\ py.opts = <<>> => be' = be /\ py'.pc = "start"
      /\ py.opts # <<>> /\ cmd = "setDefaults" =>
           (DefaultsDisable \/ DefaultsSet \/ DefaultsEnable) /\ Arg = arg
      /\ py.opts # <<>> /\ cmd \in NumberCmds =>
           \/ UpdateDelete \/ UpdateInsert \/ UpdateRestore \/ RemoveRule \/ MoveDelete \/ MoveInsert
    <2>1. py.opts = <<>> => Exit
        BY StepNames
    <2>2. Exit => be' = be /\ py'.pc = "start"
        BY DEF Exit, Ended, NoProc
    <2>3. py.opts # <<>> /\ cmd = "setDefaults" => Name = "setDefaults" /\ Arg = arg
        BY DEF FirstShows, FirstOpts, Opt, Arg
    <2>4. py.opts # <<>> /\ cmd \in NumberCmds => Name \in {"remove", "move", "update"}
        BY DEF FirstShows, FirstOpts, Opt, NumberCmds
    <2> QED  BY <2>1, <2>2, <2>3, <2>4, StepNames
<1>8. ASSUME py'.state # "failed"
      PROVE  /\ \A part \in Parts \ Reads(cmd, arg) :
                  Shows(part)' \/ (part = "status" /\ cmd = "setDefaults")
             /\ cmd = "setDefaults" => StatusKept'
             /\ cmd \in NumberCmds =>
                  /\ NumberOf(cmd, arg) \in 1..Len(view.rules)
                  /\ py'.pc = "start" /\ py'.opts # <<>> => Shows("list")'
    <2>1. /\ \A part \in Parts \ Reads(cmd, arg) : Shows(part) \/ (part = "status" /\ cmd = "setDefaults")
          /\ cmd = "setDefaults" => StatusKept
          /\ cmd \in NumberCmds => NumberOf(cmd, arg) \in 1..Len(view.rules)
        BY <1>2 DEF FirstShows
    <2>2. cmd = "setDefaults" =>
            /\ be'.set["ipv6"] = be.set["ipv6"]
            /\ StatusKept'
        <3> SUFFICES ASSUME cmd = "setDefaults"
                     PROVE  /\ be'.set["ipv6"] = be.set["ipv6"]
                            /\ StatusKept'
            OBVIOUS
        <3>1. CASE py.opts = <<>>
            BY <3>1, <1>7, <2>1 DEF StatusKept, Shows, SamePart
        <3>2. CASE py.opts # <<>>
            <4>1. /\ be'.set["ipv6"] = be.set["ipv6"]
                  /\ \/ /\ py.pc = "start" /\ py'.pc = "setting" /\ py'.opts = py.opts
                        /\ py'.was = be.enabled /\ be'.enabled = FALSE
                     \/ /\ py.pc = "setting" /\ py'.pc = "setting" /\ py'.opts = py.opts
                        /\ py'.was = py.was /\ be'.enabled = be.enabled
                     \/ /\ py.pc = "setting" /\ py'.pc = "start"
                        /\ be'.enabled = IF py.was THEN TRUE ELSE be.enabled
                BY <1>1, <1>7, <1>8, <3>2, DefaultsStep
            <4>2. view.enabled \in BOOLEAN
                BY DEF TypeInv, Views
            <4> QED  BY <4>1, <4>2, <3>2, <2>1 DEF StatusKept, Shows, SamePart
        <3> QED  BY <3>1, <3>2
    <2>3. ASSUME NEW part \in Parts \ Reads(cmd, arg)
          PROVE  Shows(part)' \/ (part = "status" /\ cmd = "setDefaults")
        <3>1. CASE be' = be
            BY <3>1, <2>1 DEF Shows
        <3>2. CASE py.opts # <<>> /\ Affects(be, be', Name)
            <4>1. /\ part = "status" => be'.enabled = be.enabled \/ cmd = "setDefaults"
                  /\ part = "defaults" => be'.set = be.set
                  /\ part = "modules" => be'.modules = be.modules
                BY <3>2, <1>6, <2>3 DEF Affects, Changing, MayRun, Reads, RuleCommands, Cmds, Parts
            <4>2. part = "list" => Listing(be') = Listing(be)
                <5> SUFFICES ASSUME part = "list" PROVE Listing(be') = Listing(be)
                    OBVIOUS
                <5>1. be'.v4 = be.v4 /\ be'.v6 = be.v6 /\ (be'.set = be.set \/ cmd = "setDefaults")
                    BY <3>2, <1>6, <2>3 DEF Affects, Changing, MayRun, Reads, RuleCommands, Cmds, Parts
                <5> QED  BY <5>1, <2>2, ListingKept
            <4> QED  BY <4>1, <4>2, <2>1, <2>3 DEF Shows, SamePart, Parts
        <3> QED  BY <1>2, <3>1, <3>2 DEF StepEffect
    <2>4. cmd \in NumberCmds => ~(py'.pc = "start" /\ py'.opts # <<>>)
        <3> SUFFICES ASSUME cmd \in NumberCmds, py'.opts # <<>>
                     PROVE  py'.pc # "start"
            OBVIOUS
        <3>1. PICK o : FirstOpts(cmd, arg) = <<o>>
            BY DEF FirstOpts, NumberCmds
        <3>2. py.opts \in {<<>>, <<o>>}
            BY <3>1 DEF FirstShows
        <3>3. Tail(<<o>>) = <<>>
            OBVIOUS
        <3>4. py.opts = <<o>>
            BY <1>2, <1>5, <3>2 DEF Follows
        <3>5. py.opts # <<>> /\ Tail(py.opts) = <<>>
            BY <3>3, <3>4
        <3> QED  BY <1>1, <1>7, <3>5, NumberStep
    <2> QED  BY <2>1, <2>2, <2>3, <2>4
<1> HIDE DEF Name
<1> QED  BY <1>2, <1>3, <1>4, <1>5, <1>8 DEF FirstShows

\* A step of the second run changes nothing and forgets no part.
LEMMA StillAsked ==
    ASSUME PyOK, PyStep, Within(py.opts, Parts), py'.state # "failed"
    PROVE  be' = be /\ \A part : Asked(part) => Asked(part)'
<1>1. py.opts \in Seq(Options)
    BY DEF PyOK, ProcOK, Processes
<1>2. CASE py.opts = <<>>
    <2>1. be' = be /\ py' = [Ended("exited") EXCEPT !.out = py.out]
        BY <1>2, StepNames DEF Exit
    <2>2. py'.out = py.out
        BY <2>1 DEF Ended, NoProc
    <2>3. Len(py.opts) = 0
        BY <1>2
    <2> QED  BY <2>1, <2>2, <2>3 DEF Asked
<1>3. CASE py.opts # <<>>
    <2>1. Query
        BY <1>1, <1>3, FirstWithin, StepNames
    <2>2. be' = be /\ py' = [NextOption EXCEPT !.out = py.out \cup {Head(py.opts).name}]
        BY <2>1, QueryStep
    <2>3. py'.opts = Tail(py.opts) /\ py'.out = py.out \cup {Head(py.opts).name}
        BY <2>2 DEF NextOption, Process, NoProc
    <2>4. ASSUME NEW part, NEW i \in 1..Len(py.opts), py.opts[i].name = part
          PROVE  Asked(part)'
        <3>1. CASE i = 1
            BY <3>1, <2>3, <2>4, <1>1 DEF Asked
        <3>2. CASE i # 1
            <4>1. i - 1 \in 1..Len(Tail(py.opts)) /\ Tail(py.opts)[i - 1] = py.opts[i]
                BY <3>2, <1>1, <1>3
            <4> QED  BY <4>1, <2>3, <2>4 DEF Asked
        <3> QED  BY <3>1, <3>2
    <2>5. \A part : part \in py.out => Asked(part)'
        BY <2>3 DEF Asked
    <2>6. \A part : Asked(part) => Asked(part)'
        BY <2>4, <2>5 DEF Asked
    <2> QED  BY <2>2, <2>6
<1> QED  BY <1>2, <1>3

\* It keeps what is shown, too.
LEMMA SecondStep ==
    ASSUME TypeInv, SecondShows, PyStep, UNCHANGED <<call, view>>
    PROVE  SecondShows'
<1>1. PyOK
    BY DEF TypeInv, HelperOK
<1>2. /\ py.state = "running" /\ Follows(py')
      /\ py'.state \in {"running", "exited", "failed"}
    BY <1>1, ProcessStep, NotKilled
<1>3. Within(py'.opts, Parts)
    BY <1>1, <1>2, WithinFollows DEF SecondShows
<1>4. py'.state # "running" => py'.opts = <<>>
    BY <1>2 DEF Follows
<1>5. ASSUME py'.state # "failed", NEW part \in Parts
      PROVE  Shows(part)' \/ Asked(part)'
    <2>1. be' = be /\ (Asked(part) => Asked(part)')
        BY <1>1, <1>5, StillAsked DEF SecondShows
    <2>2. Shows(part) \/ Asked(part)
        BY <1>2, <1>5 DEF SecondShows
    <2> QED  BY <2>1, <2>2 DEF Shows
<1> QED  BY <1>2, <1>3, <1>4, <1>5 DEF SecondShows

-----------------------------------------------------------------------------
(* The view between calls *)

\* A second run that begins reads back whatever is not shown as it is.
LEMMA SecondBegins ==
    ASSUME NEW cmd, NEW arg, py' = Process(Queries(SecondParts(cmd, arg))),
           \A part \in Parts \ Reads(cmd, arg) : Shows(part)'
    PROVE  SecondShows' /\ py'.state = "running"
<1>1. py'.opts = Queries(SecondParts(cmd, arg)) /\ py'.state = "running"
    BY DEF Process, NoProc
<1>2. Within(py'.opts, Parts)
    BY <1>1, CommandsWithin
<1>3. ASSUME NEW part \in Parts
      PROVE  Shows(part)' \/ \E i \in 1..Len(py'.opts) : py'.opts[i].name = part
    <2>1. CASE part \in Reads(cmd, arg)
        BY <2>1, <1>1, ReadsAll
    <2> QED  BY <2>1
<1> QED  BY <1>1, <1>2, <1>3 DEF SecondShows, Asked

\* What changes nothing that the invariant is about keeps it.
LEMMA ViewKept ==
    ASSUME ViewInv, UNCHANGED <<be, py, call, view>>, known' => known
    PROVE  ViewInv'
BY DEF ViewInv, FirstShows, SecondShows, Asked, StatusKept, Shows

\* So does a call that the window makes.
LEMMA UserCallKeepsView ==
    ASSUME TypeInv, ViewInv, KcmAssumption, PyHelperAssumption,
           NEW cmd \in Cmds, NEW arg, UserCall(cmd, arg)
    PROVE  ViewInv'
<1>1. /\ UNCHANGED <<be, kills>>
      /\ \/ call.phase = "none" /\ Submit(cmd, arg) /\ known' = known
         \/ /\ call.phase = "none" /\ known' = known /\ py' = py
            /\ call' = [NoCall EXCEPT !.phase = "reply", !.cmd = cmd, !.arg = arg]
         \/ call.phase # "none" /\ UNCHANGED <<call, py>> /\ known' = (known /\ view' = view)
    BY ExecuteCases
<1>2. /\ ArgOK(cmd, arg) /\ view'.rules = view.rules
      /\ \A part \in Parts \ Reads(cmd, arg) : SamePart(part, view, view')
      /\ cmd \in NumberCmds => NumberOf(cmd, arg) \in 1..Len(view.rules)
    BY DEF UserCall
<1>3. CASE call.phase # "none" /\ UNCHANGED <<call, py>> /\ known' = (known /\ view' = view)
    <2>1. CASE known'
        BY <2>1, <1>1, <1>3, ViewKept
    <2>2. CASE ~known'
        BY <2>2, <1>3 DEF ViewInv
    <2> QED  BY <2>1, <2>2
<1>4. ASSUME call.phase = "none", known
      PROVE  /\ \A part \in Parts \ Reads(cmd, arg) : Shows(part)'
             /\ Shows("list")'
    <2>1. \A part \in Parts : Shows(part)
        BY <1>4 DEF ViewInv
    <2>2. \A part \in Parts \ Reads(cmd, arg) : Shows(part)'
        BY <2>1, <1>1, <1>2 DEF Shows, SamePart
    <2>3. Shows("list")'
        BY <2>1, <1>1, <1>2 DEF Shows, SamePart, Parts
    <2> QED  BY <2>2, <2>3
<1>5. CASE /\ call.phase = "none" /\ known' = known /\ py' = py
           /\ call' = [NoCall EXCEPT !.phase = "reply", !.cmd = cmd, !.arg = arg]
    <2>1. call'.phase = "reply" /\ call'.cmd = cmd /\ ~call'.ok
        BY <1>5 DEF NoCall
    <2> QED  BY <2>1, <1>5 DEF ViewInv, Cmds
<1>6. CASE call.phase = "none" /\ Submit(cmd, arg) /\ known' = known
    <2>1. /\ call'.cmd = cmd /\ call'.arg = arg /\ call'.ok = FALSE
          /\ IF cmd = "query" THEN call'.phase = "second"
             ELSE IF FirstOpts(cmd, arg) = <<>> THEN call'.phase = "reply"
             ELSE call'.phase = "first"
        BY <1>6, SubmitPhase
    <2>2. CASE cmd = "query"
        <3>1. py' = Process(Queries(SecondParts(cmd, arg)))
            BY <1>6, <2>2 DEF Submit
        <3>2. known => SecondShows'
            BY <3>1, <1>4, <1>6, SecondBegins
        <3> QED  BY <2>1, <2>2, <3>2, <1>6 DEF ViewInv
    <2>3. CASE cmd # "query" /\ FirstOpts(cmd, arg) = <<>>
        <3>1. py' = py
            BY <1>6, <2>3 DEF Submit
        <3> QED  BY <2>1, <2>3, <3>1, <1>6 DEF ViewInv, Cmds
    <2>4. CASE cmd # "query" /\ FirstOpts(cmd, arg) # <<>>
        <3>1. py' = Process(FirstOpts(cmd, arg))
            BY <1>6, <2>4 DEF Submit
        <3>2. py'.opts = FirstOpts(cmd, arg) /\ py'.state = "running" /\ py'.pc = "start"
            BY <3>1 DEF Process, NoProc
        <3>3. Within(py'.opts, MayRun(cmd))
            BY <3>2, <2>4, <1>2, CommandsWithin
        <3>4. cmd = "setDefaults" => "status" \in Parts \ Reads(cmd, arg)
            BY DEF Parts, Reads
        <3>5. ASSUME known PROVE FirstShows'
            <4>1. cmd = "setDefaults" => StatusKept'
                BY <3>2, <3>4, <3>5, <1>4, <1>6 DEF StatusKept
            <4> QED  BY <2>1, <3>2, <3>3, <3>5, <4>1, <1>2, <1>4, <1>6 DEF FirstShows
        <3> QED  BY <2>1, <2>4, <3>5, <1>6 DEF ViewInv, Cmds
    <2> QED  BY <2>2, <2>3, <2>4
<1> QED  BY <1>1, <1>3, <1>5, <1>6

\* So does a step of the helpers.
LEMMA ServeKeepsView ==
    ASSUME TypeInv, ViewInv, BlockerInv, PyHelperAssumption, Serve
    PROVE  ViewInv'
<1>1. /\ HelperStep /\ known' = (known /\ kills' = kills) /\ view' = view
      /\ PyOK /\ CallOK /\ kills \in Nat /\ call.phase \in Phases
    BY DEF Serve, TypeInv, HelperOK, PyOK, PyHelperAssumption, CallOK, Calls
<1>2. CASE (PyStep \/ Kill) /\ UNCHANGED call
    <2>1. py.state = "running"
        BY <1>1, <1>2, ProcessStep
    <2>2. call.phase \in {"first", "second"} /\ call'.phase = call.phase /\ call'.cmd = call.cmd
        BY <2>1, <1>1, <1>2 DEF ViewInv, Phases
    <2>3. call.cmd # "viewlog"
        BY <2>2 DEF BlockerInv
    <2>4. CASE Kill
        <3>1. kills' # kills
            BY <2>4, <1>1 DEF Kill
        <3> QED  BY <3>1, <2>2, <1>1 DEF ViewInv
    <2>5. CASE PyStep
        <3>1. CASE call.phase = "first"
            <4>1. known => call.cmd \in Cmds \ {"query"} /\ FirstShows
                BY <3>1 DEF ViewInv
            <4>2. known => FirstShows'
                BY <4>1, <1>1, <1>2, <2>5, FirstStep
            <4> QED  BY <4>1, <4>2, <3>1, <2>2, <2>3, <1>1 DEF ViewInv
        <3>2. CASE call.phase = "second"
            <4>1. known => call.cmd \in Cmds /\ SecondShows
                BY <3>2 DEF ViewInv
            <4>2. known => SecondShows'
                BY <4>1, <1>1, <1>2, <2>5, SecondStep
            <4> QED  BY <4>1, <4>2, <3>2, <2>2, <2>3, <1>1 DEF ViewInv
        <3> QED  BY <3>1, <3>2, <2>2
    <2> QED  BY <1>2, <2>4, <2>5
<1>3. CASE FirstEnded
    <2>1. call.phase = "first" /\ be' = be
        BY <1>3 DEF FirstEnded
    <2>2. known => call.cmd \in Cmds \ {"query"} /\ FirstShows
        BY <2>1 DEF ViewInv
    <2>3. CASE /\ py.state \in {"exited", "killed"} /\ py' = SecondRun
               /\ call' = [call EXCEPT !.phase = "second"]
        <3>1. call'.phase = "second" /\ call'.cmd = call.cmd
            BY <2>3, <1>1 DEF CallOK, Calls
        <3>2. py' = Process(Queries(SecondParts(call.cmd, call.arg)))
            BY <2>3 DEF SecondRun
        <3>3. ASSUME known
              PROVE  \A part \in Parts \ Reads(call.cmd, call.arg) : Shows(part)'
            <4>1. /\ py.state # "failed" /\ py.opts = <<>> /\ py.pc = "start"
                  /\ \A part \in Parts \ Reads(call.cmd, call.arg) :
                       Shows(part) \/ (part = "status" /\ call.cmd = "setDefaults")
                  /\ call.cmd = "setDefaults" => StatusKept
                BY <3>3, <2>2, <2>3 DEF FirstShows
            <4>2. \A part \in Parts \ Reads(call.cmd, call.arg) : Shows(part)
                BY <4>1 DEF StatusKept
            <4> QED  BY <4>2, <2>1, <1>1 DEF Shows
        <3>4. known => SecondShows'
            BY <3>2, <3>3, SecondBegins
        <3>5. call.cmd # "viewlog"
            BY <2>1 DEF BlockerInv
        <3> QED  BY <3>1, <3>4, <3>5, <2>2, <1>1 DEF ViewInv
    <2>4. CASE py' = NoProc /\ call' = Replied(FALSE, {})
        <3>1. call'.phase = "reply" /\ call'.cmd = call.cmd /\ ~call'.ok
            BY <2>4, <1>1 DEF CallOK, Calls, Replied
        <3>2. py'.state = "none" /\ call.cmd # "viewlog"
            BY <2>4, <2>1 DEF NoProc, BlockerInv
        <3> QED  BY <3>1, <3>2 DEF ViewInv
    <2> QED  BY <1>3, <2>3, <2>4 DEF FirstEnded
<1>4. CASE SecondEnded
    <2>1. /\ call.phase = "second" /\ be' = be /\ py.state \in {"exited", "killed", "failed"}
          /\ py' = NoProc /\ call' = Replied(py.state # "failed", py.out)
        BY <1>4 DEF SecondEnded
    <2>2. known => SecondShows
        BY <2>1 DEF ViewInv
    <2> DEFINE good == py.state # "failed"
    <2>3. call' = [call EXCEPT !.phase = "reply", !.ok = good, !.parts = py.out]
        BY <2>1 DEF Replied
    <2> HIDE DEF good
    <2>4. /\ call'.phase = "reply" /\ call'.cmd = call.cmd /\ call'.ok = good
          /\ call'.parts = py.out
        BY <2>3, <1>1 DEF CallOK, Calls
    <2>5. py'.state = "none" /\ call.cmd # "viewlog"
        BY <2>1 DEF NoProc, BlockerInv
    <2>6. ASSUME known, good, NEW part \in Parts \ py.out
          PROVE  Shows(part)'
        <3>1. py.opts = <<>>
            BY <2>1, <2>2, <2>6 DEF SecondShows
        <3>2. Len(py.opts) = 0
            BY <3>1
        <3>3. Shows(part)
            BY <3>2, <2>2, <2>6 DEF SecondShows, Asked, good
        <3> QED  BY <3>3, <2>1, <1>1 DEF Shows
    <2> QED  BY <2>4, <2>5, <2>6, <1>1 DEF ViewInv
<1> QED  BY <1>1, <1>2, <1>3, <1>4 DEF HelperStep

\* So does a reply.
LEMMA DeliverKeepsView ==
    ASSUME TypeInv, ViewInv, BlockerInv, PyHelperAssumption, Deliver \/ LogRefresh
    PROVE  ViewInv'
<1>1. CASE ReplyShown
    <2>1. /\ call.phase = "reply" /\ call.cmd \in Cmds /\ call.ok /\ view' = Show(call.parts)
          /\ known' = IF call.parts = Parts THEN TRUE ELSE known /\ call.cmd # "query"
          /\ call' = NoCall /\ UNCHANGED <<be, py>>
        BY <1>1 DEF ReplyShown, Answered
    <2>2. ASSUME known', NEW part \in Parts
          PROVE  Shows(part)'
        <3>1. CASE part \in call.parts
            BY <3>1, <2>1 DEF Show, Shows, SamePart
        <3>2. CASE part \notin call.parts
            <4>1. Shows(part)
                BY <3>2, <2>1, <2>2 DEF ViewInv
            <4> QED  BY <3>2, <4>1, <2>1 DEF Show, Shows, SamePart
        <3> QED  BY <3>1, <3>2
    <2>3. py'.state = "none" /\ call'.phase = "none"
        BY <2>1 DEF ViewInv, NoCall
    <2> QED  BY <2>2, <2>3 DEF ViewInv
<1>2. CASE QueryFailed
    <2>1. call.phase = "reply" /\ ~known' /\ call' = NoCall /\ py' = py
        BY <1>2 DEF QueryFailed, Answered
    <2> QED  BY <2>1 DEF ViewInv, NoCall
<1>3. CASE ModifyFailed
    <2>1. Submit("query", TRUE) /\ be' = be /\ view' = view
        BY <1>3 DEF ModifyFailed
    <2>2. call'.cmd = "query" /\ call'.phase = "second"
        BY <2>1, SubmitPhase
    <2>3. py' = Process(Queries(SecondParts("query", TRUE)))
        BY <2>1 DEF Submit
    <2>4. Reads("query", TRUE) = Parts
        BY DEF Reads
    <2>5. SecondShows'
        BY <2>3, <2>4, SecondBegins
    <2> QED  BY <2>2, <2>5 DEF ViewInv, Cmds
<1>4. CASE LogRefresh
    <2>1. /\ call.phase = "none" /\ call' = [NoCall EXCEPT !.phase = "reply", !.cmd = "viewlog", !.ok = TRUE]
          /\ UNCHANGED <<be, py, view, known>>
        BY <1>4 DEF LogRefresh, guiVars
    <2>2. call'.phase = "reply" /\ call'.parts = {}
        BY <2>1 DEF NoCall
    <2>3. known => \A part \in Parts : Shows(part)'
        BY <2>1 DEF ViewInv, Shows
    <2> QED  BY <2>1, <2>2, <2>3 DEF ViewInv
<1>5. CASE LogShown
    <2>1. /\ call.phase = "reply" /\ call.cmd = "viewlog" /\ call' = NoCall
          /\ UNCHANGED <<be, py, view, known>>
        BY <1>5 DEF LogShown, guiVars
    <2>2. known => \A part \in Parts : Shows(part)'
        BY <2>1 DEF ViewInv, Shows
    <2>3. call'.phase = "none"
        BY <2>1 DEF NoCall
    <2> QED  BY <2>1, <2>2, <2>3 DEF ViewInv
<1> QED  BY <1>1, <1>2, <1>3, <1>4, <1>5 DEF Deliver

\* What the window shows while it knows the firewall is an invariant.
LEMMA ViewInvariant == Spec => [](TypeInv /\ ViewInv)
<1>1. Init => TypeInv /\ BlockerInv /\ ViewInv
    <2>1. Init => TypeInv
        BY TypeInit, KcmAssumption, PyHelperAssumption
    <2> SUFFICES ASSUME Init PROVE BlockerInv /\ ViewInv
        BY <2>1
    <2>2. call.phase = "second" /\ call.cmd = "query" /\ blocked /\ moveTo = 0 /\ ~known
        BY DEF Init, NoCall
    <2> QED  BY <2>2 DEF BlockerInv, BlockedWhileBusy, ReleasedWhenIdle, MoveTargetOnlyDuringMove,
                 Busy, ViewInv
<1>2. TypeInv /\ [Next]_vars => TypeInv'
    BY TypeStep, KcmAssumption, PyHelperAssumption
<1>3. TypeInv /\ BlockerInv /\ [Next]_vars => BlockerInv'
    BY BlockerStep, KcmAssumption, PyHelperAssumption
<1>4. TypeInv /\ BlockerInv /\ ViewInv /\ [Next]_vars => ViewInv'
    <2> SUFFICES ASSUME TypeInv, BlockerInv, ViewInv, [Next]_vars
                 PROVE  ViewInv'
        OBVIOUS
    <2>1. CASE UserSelect \/ UNCHANGED vars
        BY <2>1, ViewKept DEF UserSelect, vars
    <2>2. ASSUME NEW cmd \in Cmds, NEW arg, UserCall(cmd, arg)
          PROVE  ViewInv'
        BY <2>2, UserCallKeepsView, KcmAssumption, PyHelperAssumption
    <2>3. CASE User
        BY <2>1, <2>2, <2>3, UserCalls, KcmAssumption
    <2>4. CASE Serve
        BY <2>4, ServeKeepsView, PyHelperAssumption
    <2>5. CASE Deliver \/ LogRefresh
        BY <2>5, DeliverKeepsView, PyHelperAssumption
    <2> QED  BY <2>1, <2>3, <2>4, <2>5 DEF Next
<1> QED  BY <1>1, <1>2, <1>3, <1>4, PTL DEF Spec

\* Kcm.IdleViewIsCurrent for any instance: although each call reads back only
\* what it is expected to change, the window shows the firewall as it is
\* whenever nothing is in flight, unless an answer was lost with a killed
\* process or a widget was turned for a call that was refused.  A call that
\* changes IPv6 always fails in the helper, half done, and so does a reset
\* whose deletions raise: the query after the failure restores the view.
THEOREM ViewIsCurrent == Spec => []IdleViewIsCurrent
<1>1. TypeInv /\ ViewInv => IdleViewIsCurrent
    <2> SUFFICES ASSUME TypeInv, ViewInv, call.phase = "none", known
                 PROVE  Current
        BY DEF IdleViewIsCurrent
    <2>1. \A part \in Parts : Shows(part)
        BY DEF ViewInv
    <2>2. /\ view.enabled = be.enabled /\ view.set = be.set /\ view.modules = be.modules
          /\ view.rules = Listing(be)
        BY <2>1 DEF Shows, SamePart, Parts
    <2>3. view = [enabled |-> view.enabled, set |-> view.set, modules |-> view.modules,
                  rules |-> view.rules]
        BY DEF TypeInv, Views
    <2> QED  BY <2>2, <2>3 DEF Current
<1> QED  BY <1>1, ViewInvariant, PTL

\* Kcm.NumberMeansShownRule for any instance: the rule that a number is about
\* to be used for is the one that the window shows under it.
THEOREM NumberIsOfShownRule == Spec => []NumberMeansShownRule
<1>1. TypeInv /\ ViewInv => NumberMeansShownRule
    <2> SUFFICES ASSUME TypeInv, ViewInv, known, call.phase = "first", call.cmd \in NumberCmds,
                        py.state = "running", py.pc = "start", py.opts # <<>>
                 PROVE  /\ NumberOf(call.cmd, call.arg) \in DOMAIN view.rules
                        /\ NumberOf(call.cmd, call.arg) \in 1..NumRules(be)
                        /\ view.rules[NumberOf(call.cmd, call.arg)] =
                             RuleAt(be, NumberOf(call.cmd, call.arg))
        BY DEF NumberMeansShownRule, NumberOf, NumberCmds
    <2>1. NumberOf(call.cmd, call.arg) \in 1..Len(view.rules) /\ Shows("list")
        BY DEF ViewInv, FirstShows
    <2>2. view.rules = Listing(be)
        BY <2>1 DEF Shows, SamePart
    <2>3. Good(be)
        BY DEF TypeInv, HelperOK, PyOK
    <2>4. Len(Listing(be)) = NumRules(be)
        BY <2>3, ListingType
    <2> QED  BY <2>1, <2>2, <2>4 DEF Listing
<1> QED  BY <1>1, ViewInvariant, PTL

-----------------------------------------------------------------------------
(* The selection after a move *)

\* The row of the view that is moved has arrived where it is to be selected.
Arrived ==
    LET last == Len(view.rules)
        at   == IF moveTo > last THEN last ELSE moveTo
    IN  /\ call.arg.from \in 1..last /\ Len(Listing(be)) = last
        /\ Listing(be)[at] = view.rules[call.arg.from]

\* It has been taken out of the list that is shown, and is held.
Taken ==
    \E b : /\ Good(b) /\ Listing(b) = view.rules /\ call.arg.from \in 1..NumRules(b)
           /\ be = DeleteRule(b, call.arg.from).store /\ py.held = RuleAt(b, call.arg.from)

\* How far a move has come, as long as the window knows the firewall.
MoveInv ==
    call.cmd = "moveRule" /\ call.phase # "none" =>
        /\ moveTo = call.arg.to /\ moveTo # 0
        /\ known =>
             /\ call.phase = "first" /\ py.state # "failed" =>
                  /\ py.opts = <<>> /\ ~Ipv6On(be) => Arrived
                  /\ py.opts # <<>> /\ py.pc # "start" => Taken
             /\ call.phase = "second" /\ py.state # "failed" =>
                  Asked("list") /\ (~Ipv6On(be) => Arrived)
             /\ call.phase = "reply" /\ call.ok =>
                  "list" \in call.parts /\ (~Ipv6On(be) => Arrived)

\* With one list, its rules are the rows.
LEMMA OneListing ==
    ASSUME NEW b, Good(b), ~Ipv6On(b)
    PROVE  /\ b.v4 \in Seq(Rules) /\ Len(b.v4) \in Nat
           /\ NumRules(b) = Len(b.v4) /\ Len(Listing(b)) = Len(b.v4)
           /\ \A n \in 1..Len(b.v4) : Listing(b)[n] = RuleAt(b, n)
           /\ \A n \in 1..Len(b.v4) :
                RuleAt(b, n) = [spec |-> b.v4[n].spec, act |-> b.v4[n].act, v6 |-> FALSE]
<1>1. Num6(b) = 0
    BY DEF Num6
<1>2. /\ b.v4 \in Seq(Rules) /\ Num4(b) = Len(b.v4) /\ Num4(b) \in Nat
      /\ NumRules(b) = Num4(b) + Num6(b) /\ Len(Listing(b)) = NumRules(b)
    BY Counts, ListingType
<1>3. NumRules(b) = Len(b.v4)
    BY <1>1, <1>2
<1>4. \A n \in 1..Len(b.v4) : Listing(b)[n] = RuleAt(b, n)
    BY <1>3 DEF Listing
<1>5. \A n \in 1..Len(b.v4) : RuleAt(b, n) = [spec |-> b.v4[n].spec, act |-> b.v4[n].act, v6 |-> FALSE]
    BY <1>2 DEF RuleAt
<1> QED  BY <1>2, <1>3, <1>4, <1>5

\* The rule that is put back is the row that the move was to.
LEMMA MovedRow ==
    ASSUME NEW b, Good(b), ~Ipv6On(b), NEW from \in 1..NumRules(b), NEW to \in Nat \ {0},
           NEW c, Good(c), ~Ipv6On(c),
           c.v4 = InsertAt(RemoveAt(b.v4, from), IF to > Len(b.v4) THEN Len(b.v4) ELSE to, b.v4[from])
    PROVE  /\ Len(Listing(b)) = NumRules(b) /\ Len(Listing(c)) = Len(Listing(b))
           /\ Listing(c)[IF to > Len(Listing(b)) THEN Len(Listing(b)) ELSE to] = Listing(b)[from]
<1> DEFINE list == b.v4
           rest == RemoveAt(list, from)
           at   == IF to > Len(list) THEN Len(list) ELSE to
           e    == list[from]
           new  == InsertAt(rest, at, e)
<1>1. /\ list \in Seq(Rules) /\ Len(list) \in Nat /\ from \in 1..Len(list) /\ NumRules(b) = Len(list)
      /\ Len(Listing(b)) = Len(list) /\ Listing(b)[from] = RuleAt(b, from) /\ e \in Rules
      /\ RuleAt(b, from) = [spec |-> e.spec, act |-> e.act, v6 |-> FALSE]
    BY OneListing
<1>2. rest \in Seq(Rules) /\ Len(rest) = Len(list) - 1
    BY <1>1, RemoveAtFact
<1>3. at \in 1..Len(list)
    BY <1>1
<1> HIDE DEF e, rest
<1>4. new \in Seq(Rules) /\ Len(new) = Len(list) /\ new[at] = e
    <2>1. at \in 1..Len(rest) + 1 /\ Len(rest) \in Nat /\ Len(rest) + 1 = Len(list)
        BY <1>1, <1>2, <1>3
    <2> HIDE DEF at
    <2>2. new \in Seq(Rules) /\ Inserted(new, rest, at, e)
        BY <1>1, <1>2, <2>1, InsertAtFact
    <2> HIDE DEF new
    <2>3. Len(new) = Len(rest) + 1 /\ new[at] = e
        BY <2>1, <2>2 DEF Inserted
    <2> QED  BY <2>1, <2>2, <2>3
<1>5. c.v4 = new
    BY DEF e, rest
<1> HIDE DEF new, at, list
<1>6. /\ Len(Listing(c)) = Len(list) /\ Listing(c)[at] = RuleAt(c, at)
      /\ RuleAt(c, at) = [spec |-> e.spec, act |-> e.act, v6 |-> FALSE]
    BY <1>3, <1>4, <1>5, OneListing
<1>7. Len(Listing(b)) = Len(list) /\ Listing(c)[at] = Listing(b)[from]
    BY <1>1, <1>6
<1> QED  BY <1>1, <1>6, <1>7 DEF at, list

\* What does not concern the move keeps the invariant.
LEMMA MoveKept ==
    ASSUME MoveInv, UNCHANGED <<be, py, call, moveTo>>, view'.rules = view.rules, known' => known
    PROVE  MoveInv'
BY DEF MoveInv, Arrived, Taken, Asked

\* A step of the first run takes the rule out, or puts it where it is to be.
LEMMA MoveFirstStep ==
    ASSUME TypeInv, TypeInv', FirstShows, MoveInv, known, call.cmd = "moveRule", call.phase = "first",
           PyStep, UNCHANGED <<call, view, moveTo>>, py'.state # "failed"
    PROVE  /\ py'.opts = <<>> /\ ~Ipv6On(be') => Arrived'
           /\ py'.opts # <<>> /\ py'.pc # "start" => Taken'
<1> DEFINE arg  == call.arg
           from == call.arg.from
<1>1. PyOK /\ py \in Processes /\ py.opts \in Seq(Options) /\ be \in Stores /\ Good(be) /\ Good(be')
    BY DEF TypeInv, HelperOK, PyOK, ProcOK, Processes, Good
<1>2. py.state # "failed" /\ moveTo = arg.to /\ moveTo \in Nat \ {0}
    BY <1>1, ProcessStep DEF MoveInv, TypeInv
<1>3. /\ py.opts \in {<<>>, <<Opt("move", arg)>>} /\ from \in 1..Len(view.rules)
      /\ py.pc = "start" /\ py.opts # <<>> => view.rules = Listing(be)
    BY <1>2 DEF FirstShows, FirstOpts, NumberCmds, NumberOf, Shows, SamePart
<1>4. CASE py.opts = <<>>
    <2>1. be' = be /\ py'.opts = <<>>
        BY <1>4, StepNames DEF Exit, Ended, NoProc
    <2>2. ~Ipv6On(be) => Arrived
        BY <1>2, <1>4 DEF MoveInv
    <2> QED  BY <2>1, <2>2 DEF Arrived
<1>5. CASE py.opts # <<>>
    <2>1. py.opts = <<Opt("move", arg)>>
        BY <1>3, <1>5
    <2>2. Head(py.opts).name = "move" /\ Arg = arg /\ NextOption.opts = <<>>
        <3>1. Head(py.opts) = Opt("move", arg) /\ Tail(py.opts) = <<>>
            BY <2>1
        <3> QED  BY <3>1 DEF Opt, Arg, NextOption, Process, NoProc
    <2>3. MoveDelete \/ MoveInsert
        BY <1>5, <2>2, StepNames DEF UpdateDelete, UpdateInsert, UpdateRestore, RemoveRule, At
    <2>4. CASE MoveDelete
        <3> DEFINE known0 == Arg.from # Arg.to /\ Arg.from \in 1..NumRules(be)
                   result == IF known0 THEN DeleteRule(be, Arg.from) ELSE Raised(be)
                   next   == [py EXCEPT !.pc = "insert", !.held = RuleAt(be, Arg.from)]
        <3>1. py.pc = "start" /\ RuleCall(result, next, Abort)
            BY <2>4 DEF MoveDelete, At
        <3>2. result.ok => known0 /\ result.store = DeleteRule(be, Arg.from).store
            BY DEF Raised
        <3>3. next.opts = py.opts /\ next.held = RuleAt(be, Arg.from)
            BY <1>1 DEF Processes
        <3> HIDE DEF result, next
        <3>4. result.ok = TRUE /\ be' = result.store /\ py' = next
            BY <3>1, RuleReturned
        <3>5. /\ from \in 1..NumRules(be) /\ be' = DeleteRule(be, from).store
              /\ py'.held = RuleAt(be, from) /\ Listing(be) = view.rules /\ py'.opts # <<>>
            BY <1>3, <1>5, <2>2, <3>1, <3>2, <3>3, <3>4
        <3>6. Taken'
            <4>1. call' = call /\ view' = view
                OBVIOUS
            <4>2. \E b : /\ Good(b) /\ Listing(b) = view'.rules /\ call'.arg.from \in 1..NumRules(b)
                         /\ be' = DeleteRule(b, call'.arg.from).store
                         /\ py'.held = RuleAt(b, call'.arg.from)
                BY <1>1, <3>5, <4>1
            <4> QED  BY <4>2 DEF Taken
        <3> QED  BY <3>5, <3>6
    <2>5. CASE MoveInsert
        <3> DEFINE result == InsertRule(be, py.held, Arg.to, StoredFamily(py.held))
        <3>1. py.pc = "insert" /\ RuleCall(result, NextOption, Abort)
            BY <2>5 DEF MoveInsert, At
        <3>2. PICK b : /\ Good(b) /\ Listing(b) = view.rules /\ from \in 1..NumRules(b)
                       /\ be = DeleteRule(b, from).store /\ py.held = RuleAt(b, from)
            BY <1>2, <1>5, <3>1 DEF MoveInv, Taken
        <3>3. SameSettings(b, be) /\ SameSettings(be, result.store)
            BY <1>1, <3>2, DeleteRuleGood, RulesOnly
        <3>4. ~Ipv6On(result.store) =>
                /\ ~Ipv6On(b)
                /\ result.store.v4 = InsertAt(RemoveAt(b.v4, from),
                                              IF arg.to > Len(b.v4) THEN Len(b.v4) ELSE arg.to, b.v4[from])
            <4>1. Ipv6On(b) <=> Ipv6On(result.store)
                BY <3>3 DEF SameSettings, Ipv6On
            <4> QED  BY <1>2, <2>2, <3>2, <4>1, MovedRule
        <3> HIDE DEF result
        <3>5. be' = result.store /\ py' = NextOption
            BY <3>1, RuleReturned
        <3>6. ASSUME ~Ipv6On(be') PROVE Arrived'
            <4>1. /\ Len(Listing(b)) = NumRules(b) /\ Len(Listing(be')) = Len(Listing(b))
                  /\ Listing(be')[IF moveTo > Len(Listing(b)) THEN Len(Listing(b)) ELSE moveTo]
                       = Listing(b)[from]
                BY <1>1, <1>2, <3>2, <3>4, <3>5, <3>6, MovedRow
            <4> QED  BY <3>2, <4>1 DEF Arrived
        <3> QED  BY <2>2, <3>5, <3>6
    <2> QED  BY <2>3, <2>4, <2>5
<1> QED  BY <1>4, <1>5

\* A call that the window makes starts a move or has nothing to do with it.
LEMMA UserCallKeepsMove ==
    ASSUME TypeInv, BlockerInv, MoveInv, KcmAssumption, PyHelperAssumption,
           NEW cmd \in Cmds, NEW arg, UserCall(cmd, arg)
    PROVE  MoveInv'
<1>1. /\ UNCHANGED be /\ view'.rules = view.rules
      /\ IF cmd = "moveRule" THEN ~blocked /\ moveTo' = arg.to /\ moveTo' \in Nat \ {0}
         ELSE moveTo' = moveTo
      /\ \/ call.phase = "none" /\ Submit(cmd, arg)
         \/ call.phase = "none" /\ call' = [NoCall EXCEPT !.phase = "reply", !.cmd = cmd, !.arg = arg]
         \/ call.phase # "none" /\ UNCHANGED <<call, py>> /\ known' = (known /\ view' = view)
    BY ExecuteCases DEF UserCall
<1>2. CASE call.phase = "none" /\ Submit(cmd, arg)
    <2>1. /\ call'.cmd = cmd /\ call'.arg = arg /\ call'.ok = FALSE
          /\ IF cmd = "query" THEN call'.phase = "second"
             ELSE IF FirstOpts(cmd, arg) = <<>> THEN call'.phase = "reply"
             ELSE call'.phase = "first"
        BY <1>2, SubmitPhase
    <2>2. CASE cmd = "moveRule"
        <3>1. FirstOpts(cmd, arg) = <<Opt("move", arg)>>
            BY <2>2 DEF FirstOpts
        <3>2. FirstOpts(cmd, arg) # <<>>
            BY <3>1
        <3>3. py' = Process(FirstOpts(cmd, arg)) /\ call'.phase = "first"
            BY <1>2, <2>1, <2>2, <3>2 DEF Submit
        <3>4. py'.opts # <<>> /\ py'.pc = "start"
            BY <3>2, <3>3 DEF Process, NoProc
        <3> QED  BY <1>1, <2>1, <2>2, <3>3, <3>4 DEF MoveInv
    <2>3. CASE cmd # "moveRule"
        BY <2>1, <2>3 DEF MoveInv
    <2> QED  BY <2>2, <2>3
<1>3. CASE call.phase = "none" /\ call' = [NoCall EXCEPT !.phase = "reply", !.cmd = cmd, !.arg = arg]
    <2>1. call'.phase = "reply" /\ call'.cmd = cmd /\ call'.arg = arg /\ ~call'.ok
        BY <1>3 DEF NoCall
    <2> QED  BY <1>1, <2>1 DEF MoveInv
<1>4. CASE call.phase # "none" /\ UNCHANGED <<call, py>> /\ known' = (known /\ view' = view)
    <2>1. CASE call.cmd = "moveRule"
        <3>1. moveTo' = moveTo
            BY <1>1, <1>4, <2>1 DEF BlockerInv, BlockedWhileBusy, Busy
        <3> QED  BY <1>1, <1>4, <3>1, MoveKept
    <2>2. CASE call.cmd # "moveRule"
        BY <1>4, <2>2 DEF MoveInv
    <2> QED  BY <2>1, <2>2
<1> QED  BY <1>1, <1>2, <1>3, <1>4

\* The helpers take the move through both runs.
LEMMA ServeKeepsMove ==
    ASSUME TypeInv, TypeInv', ViewInv, MoveInv, PyHelperAssumption, Serve
    PROVE  MoveInv'
<1>1. /\ HelperStep /\ known' = (known /\ kills' = kills) /\ UNCHANGED <<view, moveTo>>
      /\ PyOK /\ CallOK /\ kills \in Nat /\ call.phase \in Phases
    BY DEF Serve, TypeInv, HelperOK, PyOK, PyHelperAssumption, CallOK, Calls
<1>2. call'.cmd = call.cmd /\ call'.arg = call.arg /\ (call'.phase # "none" => call.phase # "none")
    <2>1. \/ call' = call
          \/ call'.cmd = call.cmd /\ call'.arg = call.arg /\ call.phase \in {"first", "second"}
        BY <1>1, HelperPhase
    <2> QED  BY <2>1
<1> SUFFICES ASSUME call.cmd = "moveRule", call.phase # "none", known'
             PROVE  MoveInv'
    BY <1>1, <1>2 DEF MoveInv
<1>3. /\ known /\ kills' = kills /\ moveTo = call.arg.to /\ moveTo # 0
      /\ call.phase = "first" => FirstShows
      /\ call.phase = "second" => SecondShows
    BY <1>1 DEF ViewInv, MoveInv
<1>4. CASE (PyStep \/ Kill) /\ UNCHANGED call
    <2>1. py.state = "running" /\ PyStep
        BY <1>1, <1>3, <1>4, ProcessStep DEF Kill
    <2>2. call.phase \in {"first", "second"} /\ py.state # "failed"
        BY <1>1, <2>1 DEF ViewInv, Phases
    <2>3. CASE call.phase = "first"
        <3>1. py'.state # "failed" =>
                /\ py'.opts = <<>> /\ ~Ipv6On(be') => Arrived'
                /\ py'.opts # <<>> /\ py'.pc # "start" => Taken'
            BY <1>1, <1>3, <1>4, <2>1, <2>3, MoveFirstStep
        <3>2. call'.phase = "first"
            BY <1>4, <2>3
        <3> QED  BY <1>1, <1>2, <1>3, <3>1, <3>2 DEF MoveInv
    <2>4. CASE call.phase = "second"
        <3>1. Asked("list") /\ (~Ipv6On(be) => Arrived)
            BY <1>3, <2>2, <2>4 DEF MoveInv
        <3>2. py'.state # "failed" => be' = be /\ Asked("list")'
            BY <1>1, <1>3, <2>1, <2>4, <3>1, StillAsked DEF SecondShows
        <3>3. py'.state # "failed" /\ ~Ipv6On(be') => Arrived'
            BY <1>1, <1>4, <3>1, <3>2 DEF Arrived
        <3>4. call'.phase = "second"
            BY <1>4, <2>4
        <3> QED  BY <1>1, <1>2, <1>3, <3>2, <3>3, <3>4 DEF MoveInv
    <2> QED  BY <2>2, <2>3, <2>4
<1>5. CASE FirstEnded
    <2>1. call.phase = "first" /\ be' = be
        BY <1>5 DEF FirstEnded
    <2>2. CASE /\ py.state \in {"exited", "killed"} /\ py' = SecondRun
               /\ call' = [call EXCEPT !.phase = "second"]
        <3>1. py.opts = <<>> /\ py.state # "failed" /\ call'.phase = "second"
            BY <1>1, <1>3, <2>1, <2>2 DEF FirstShows, CallOK, Calls
        <3>2. ~Ipv6On(be) => Arrived
            BY <1>3, <2>1, <3>1 DEF MoveInv
        <3>3. ~Ipv6On(be') => Arrived'
            BY <1>1, <1>2, <2>1, <3>2 DEF Arrived
        <3>4. py'.opts = Queries(SecondParts(call.cmd, call.arg))
            BY <2>2 DEF SecondRun, Process, NoProc
        <3>5. "list" \in Reads(call.cmd, call.arg)
            BY DEF Reads
        <3>6. Asked("list")'
            BY <3>4, <3>5, ReadsAll DEF Asked
        <3> QED  BY <1>1, <1>2, <1>3, <3>1, <3>3, <3>6 DEF MoveInv
    <2>3. CASE py' = NoProc /\ call' = Replied(FALSE, {})
        <3>1. call'.phase = "reply" /\ ~call'.ok
            BY <2>3, <1>1 DEF CallOK, Calls, Replied
        <3> QED  BY <1>1, <1>2, <1>3, <3>1 DEF MoveInv
    <2> QED  BY <1>5, <2>2, <2>3 DEF FirstEnded
<1>6. CASE SecondEnded
    <2>1. /\ call.phase = "second" /\ be' = be
          /\ call' = Replied(py.state # "failed", py.out)
        BY <1>6 DEF SecondEnded
    <2> DEFINE good == py.state # "failed"
    <2>2. call' = [call EXCEPT !.phase = "reply", !.ok = good, !.parts = py.out]
        BY <2>1 DEF Replied
    <2> HIDE DEF good
    <2>3. call'.phase = "reply" /\ call'.ok = good /\ call'.parts = py.out
        BY <2>2, <1>1 DEF CallOK, Calls
    <2>4. ASSUME good
          PROVE  "list" \in py.out /\ (~Ipv6On(be') => Arrived')
        <3>1. Asked("list") /\ (~Ipv6On(be) => Arrived)
            BY <1>3, <2>1, <2>4 DEF MoveInv, good
        <3>2. py.opts = <<>>
            BY <1>3, <1>6, <2>1 DEF SecondShows, SecondEnded
        <3>3. Len(py.opts) = 0
            BY <3>2
        <3>4. ~Ipv6On(be') => Arrived'
            BY <1>1, <1>2, <2>1, <3>1 DEF Arrived
        <3> QED  BY <3>1, <3>3, <3>4 DEF Asked
    <2> QED  BY <1>1, <1>2, <1>3, <2>3, <2>4 DEF MoveInv
<1> QED  BY <1>1, <1>4, <1>5, <1>6 DEF HelperStep

\* Replies end the call or begin a query.
LEMMA DeliverKeepsMove ==
    ASSUME MoveInv, Deliver \/ LogRefresh
    PROVE  MoveInv'
<1>1. CASE ReplyShown \/ QueryFailed \/ LogShown
    <2>1. call' = NoCall
        BY <1>1 DEF ReplyShown, QueryFailed, LogShown
    <2>2. call'.phase = "none"
        BY <2>1 DEF NoCall
    <2> QED  BY <2>2 DEF MoveInv
<1>2. CASE ModifyFailed
    <2>1. call'.cmd = "query"
        BY <1>2, SubmitPhase DEF ModifyFailed
    <2> QED  BY <2>1 DEF MoveInv
<1>3. CASE LogRefresh
    <2>1. call'.cmd = "viewlog"
        BY <1>3 DEF LogRefresh, NoCall
    <2> QED  BY <2>1 DEF MoveInv
<1> QED  BY <1>1, <1>2, <1>3 DEF Deliver

\* Kcm.MovedRuleStaysSelected for any instance: with one list of rules, the
\* row that is selected when the reply to a move is shown has the rule that
\* was moved, for any number of rules and any target, whatever the user
\* selects meanwhile.
THEOREM MovedRuleIsSelected == Spec => MovedRuleStaysSelected
<1> DEFINE Step == known /\ call.phase = "reply" /\ call.ok /\ call.cmd = "moveRule" /\ ~Ipv6On(be)
                     /\ call'.phase = "none"
                   => view'.rules[sel'] = view.rules[call.arg.from]
<1>1. Init => MoveInv
    BY DEF Init, NoCall, MoveInv
<1>2. TypeInv /\ TypeInv' /\ BlockerInv /\ ViewInv /\ MoveInv /\ [Next]_vars => MoveInv'
    <2> SUFFICES ASSUME TypeInv, TypeInv', BlockerInv, ViewInv, MoveInv, [Next]_vars
                 PROVE  MoveInv'
        OBVIOUS
    <2>1. CASE UserSelect \/ UNCHANGED vars
        BY <2>1, MoveKept DEF UserSelect, vars
    <2>2. ASSUME NEW cmd \in Cmds, NEW arg, UserCall(cmd, arg)
          PROVE  MoveInv'
        BY <2>2, UserCallKeepsMove, KcmAssumption, PyHelperAssumption
    <2>3. CASE User
        BY <2>1, <2>2, <2>3, UserCalls, KcmAssumption
    <2>4. CASE Serve
        BY <2>4, ServeKeepsMove, PyHelperAssumption
    <2>5. CASE Deliver \/ LogRefresh
        BY <2>5, DeliverKeepsMove
    <2> QED  BY <2>1, <2>3, <2>4, <2>5 DEF Next
<1>3. TypeInv /\ MoveInv /\ [Next]_vars => [Step]_vars
    <2> SUFFICES ASSUME TypeInv, MoveInv, Next, known, call.phase = "reply", call.ok,
                        call.cmd = "moveRule", ~Ipv6On(be), call'.phase = "none"
                 PROVE  view'.rules[sel'] = view.rules[call.arg.from]
        OBVIOUS
    <2>1. ReplyShown
        <3>1. ~UserSelect
            BY DEF UserSelect
        <3>2. ASSUME NEW cmd \in Cmds, NEW arg, UserCall(cmd, arg)
              PROVE  FALSE
            BY <3>2, ExecuteCases, KcmAssumption, PyHelperAssumption
        <3>3. ~User
            BY <3>1, <3>2, UserCalls, KcmAssumption
        <3>4. ~Serve
            BY HelperPhase DEF Serve, TypeInv, HelperOK
        <3>5. ~(QueryFailed \/ ModifyFailed \/ LogShown \/ LogRefresh)
            BY DEF QueryFailed, ModifyFailed, LogShown, LogRefresh
        <3> QED  BY <3>3, <3>4, <3>5 DEF Next, Deliver
    <2>2. /\ "list" \in call.parts /\ Arrived /\ moveTo # 0 /\ moveTo \in Nat
          /\ view.rules \in Seq(Shown)
        BY DEF MoveInv, TypeInv, Views
    <2>3. view'.rules = Listing(be) /\ sel' = Reselect(Listing(be))
        BY <2>1, <2>2 DEF ReplyShown, Show
    <2>4. view.rules # <<>> /\ Len(Listing(be)) = Len(view.rules)
        BY <2>2 DEF Arrived
    <2> QED  BY <2>2, <2>3, <2>4 DEF Reselect, Arrived
<1> HIDE DEF Step
<1>4. Spec => [][Step]_vars
    BY <1>1, <1>2, <1>3, BlockerInvariant, ViewInvariant, PTL DEF Spec
<1> QED  BY <1>4 DEF Step, MovedRuleStaysSelected
====
