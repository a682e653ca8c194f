---- MODULE Kcm ----
(***************************************************************************)
(* The control module's window (kcm/kcm.cpp) on top of the helpers: what   *)
(* its widgets show, the calls that its slots make, and what the two reply *)
(* slots do.  KAuth's execute() runs an event loop until the reply is in,  *)
(* so the user goes on acting during a call; the Blocker is there to stop  *)
(* that.  The log viewer is a second window of the same process and shares *)
(* the one slot that KAuth has for calls.                                  *)
(***************************************************************************)
EXTENDS AuthHelper

CONSTANTS
    Gestures,       \* what the user may do in a run, see the User... actions
    SavedProfiles,  \* profiles in the menu: rules, defaults and modules; a file
                    \* that the window did not write may lack some of them
    BlankSettings   \* first entry of each combo, IPv6 unchecked

ASSUME KcmAssumption ==
    /\ BlankSettings \in Settings
    /\ \A p \in SavedProfiles :
         /\ "rules" \in DOMAIN p => p.rules \in Seq(Shown)
         /\ "defaults" \in DOMAIN p => p.defaults \in Settings
         /\ "modules" \in DOMAIN p => p.modules \subseteq Modules

VARIABLES
    view,       \* what the widgets show
    sel,        \* number of the selected row of the rule list, 0 if none
    moveTo,     \* moveToPos: the row to select after a move, 0 if none
    blocked,    \* the blocker is active
    known,      \* history: a reply has shown everything, and since then no
                \* answer was lost and no change was shown but not asked for
    refused     \* history: KAuth refused a call of the window because the log
                \* viewer had its slot, and no reply came to the window since

guiVars == <<view, sel, moveTo, blocked, known, refused>>
vars    == <<be, py, faults, kills, call, view, sel, moveTo, blocked, known, refused>>

Views == [enabled : BOOLEAN, set : Settings, modules : SUBSET Modules, rules : Seq(Shown)]

BlankView == [enabled |-> FALSE, set |-> BlankSettings, modules |-> {}, rules |-> <<>>]

EmptyStore == [v4 |-> <<>>, v6 |-> <<>>, enabled |-> FALSE,
               set |-> DefaultSettings, modules |-> DefaultModules]

\* The constructor has queued queryStatus(), which runs before any input.
Init ==
    /\ be \in {EmptyStore, [EmptyStore EXCEPT !.set["ipv6"] = "yes", !.enabled = TRUE]}
    /\ faults = 0 /\ kills = 0
    /\ call = [NoCall EXCEPT !.phase = "second", !.cmd = "query", !.arg = TRUE]
    /\ py = Process(Queries(EveryPart))
    /\ view = BlankView
    /\ sel = 0 /\ moveTo = 0
    /\ blocked = TRUE
    /\ known = FALSE
    /\ refused = FALSE

-----------------------------------------------------------------------------
(* Calls *)

\* blocker->setActive(true); action.execute(): KAuth takes the call if it
\* has none, unless the user is denied; it refuses it silently otherwise,
\* and nobody looks at what execute() returns.
Execute(cmd, arg) ==
    /\ blocked' = TRUE
    /\ IF call.phase = "none"
       THEN /\ \/ Submit(cmd, arg) /\ UNCHANGED faults
               \/ /\ faults < MaxFaults
                  /\ faults' = faults + 1
                  /\ call' = [NoCall EXCEPT !.phase = "reply", !.cmd = cmd, !.arg = arg]
                  /\ UNCHANGED py
            /\ UNCHANGED <<known, refused>>
       ELSE /\ known' = (known /\ view' = view)
            /\ refused' = (refused \/ call.cmd = "viewlog")
            /\ UNCHANGED <<call, py, faults>>
    /\ UNCHANGED <<be, kills>>

\* The event filter lets mouse and key events through to a guarded widget.
Free == ~blocked

UserSetStatus ==
    /\ "status" \in Gestures /\ Free
    /\ view' = [view EXCEPT !.enabled = ~@]
    /\ Execute("setStatus", ~view.enabled)
    /\ UNCHANGED <<sel, moveTo>>

Other(yesNo) == IF yesNo = "yes" THEN "no" ELSE "yes"

\* Saying no to the question about IPv6 rules puts the check mark back.  The
\* helper fails at every change of IPv6, and the query that follows restores it.
UserSetIpV6 ==
    /\ "ipv6" \in Gestures /\ Free
    /\ LET new == Other(view.set["ipv6"])
       IN  /\ view' = [view EXCEPT !.set["ipv6"] = new]
           /\ Execute("setDefaults", [n \in {"ipv6"} |-> new])
    /\ UNCHANGED <<sel, moveTo>>

\* The event filter does not stop the mouse wheel, which turns combos too.
UserTurnCombo ==
    /\ \/ "combos" \in Gestures /\ Free
       \/ "wheel" \in Gestures
    /\ \E name \in SettingNames \ {"ipv6"} : \E val \in SettingValues(name) \ {view.set[name]} :
         /\ view' = [view EXCEPT !.set[name] = val]
         /\ Execute("setDefaults", [n \in {name} |-> val])
    /\ UNCHANGED <<sel, moveTo>>

\* A module that is clicked while the blocker is active gets its old check
\* mark back, but the slot goes on and makes the call all the same.
UserClickModule ==
    /\ "modules" \in Gestures
    /\ \E m \in Modules :
         LET flipped == IF m \in view.modules THEN view.modules \ {m} ELSE view.modules \cup {m}
             mods    == IF blocked THEN view.modules ELSE flipped
         IN  /\ view' = [view EXCEPT !.modules = mods]
             /\ Execute("setModules", mods)
    /\ UNCHANGED <<sel, moveTo>>

\* The Default button is not guarded.
UserDefaults ==
    /\ "defaults" \in Gestures
    /\ UNCHANGED <<view, sel, moveTo>>
    /\ Execute("reset", 0)

UserRefresh ==
    /\ "refresh" \in Gestures /\ Free
    /\ UNCHANGED <<view, sel, moveTo>>
    /\ Execute("query", TRUE)

\* Rules and modules that a profile lacks are none.  The defaults that it
\* lacks are not initialised: whether they are those shown is left open.
IsCurrent(p) ==
    /\ "defaults" \in DOMAIN p /\ p.defaults = view.set
    /\ view.rules = IF "rules" \in DOMAIN p THEN p.rules ELSE <<>>
    /\ view.modules = IF "modules" \in DOMAIN p THEN p.modules ELSE {}

\* The current profile is not loaded again, and one of nothing never.
UserLoadProfile ==
    /\ "profiles" \in Gestures /\ Free
    /\ UNCHANGED <<view, sel, moveTo>>
    /\ \E p \in SavedProfiles :
         /\ DOMAIN p # {} /\ ~IsCurrent(p)
         /\ Execute("setProfile", p)

-----------------------------------------------------------------------------
(* Rules *)

\* A rule made in the dialog is never marked as IPv6.
Made(r) == [spec |-> r.spec, act |-> r.act, v6 |-> FALSE]

\* With IPv6 off the dialog takes no IPv6 address.
Allowed(r) == view.set["ipv6"] = "yes" \/ AddrOf[r.spec] \notin {"v6", "mixed"}

\* The list is not guarded: rows can be selected during a call.
UserSelect ==
    /\ "select" \in Gestures
    /\ sel' \in DOMAIN view.rules \ {sel}
    /\ UNCHANGED <<be, py, faults, kills, call, view, moveTo, blocked, known, refused>>

UserAddRule ==
    /\ "rules" \in Gestures /\ Free
    /\ UNCHANGED <<view, sel, moveTo>>
    /\ \E r \in Rules :
         /\ Allowed(r)
         /\ ~Contains(view.rules, Made(r))
         /\ Execute("addRules", <<r>>)

\* The position is that of the row that is selected when OK is pressed.
UserEditRule ==
    /\ "rules" \in Gestures /\ Free /\ sel # 0
    /\ UNCHANGED <<view, sel, moveTo>>
    /\ \E r \in Rules :
         /\ Allowed(r)
         /\ Made(r) # view.rules[sel]
         /\ Execute("editRule", [spec |-> r.spec, act |-> r.act, pos |-> sel])

UserRemoveRule ==
    /\ "rules" \in Gestures /\ Free /\ sel # 0
    /\ UNCHANGED <<view, sel, moveTo>>
    /\ Execute("removeRule", sel)

\* Move Up, Move Down, or a drop on another row or below the last one.
UserMoveRule ==
    /\ "move" \in Gestures /\ Free /\ sel # 0
    /\ UNCHANGED <<view, sel>>
    /\ \E to \in (1..Len(view.rules) + 1) \ {sel} :
         /\ moveTo' = to
         /\ Execute("moveRule", [from |-> sel, to |-> to])

-----------------------------------------------------------------------------
(* Replies *)

\* setStatus, setDefaults, setModules, setRules(profile): each shows the part
\* that the reply has.
Show(parts) ==
    [enabled |-> IF "status" \in parts THEN be.enabled ELSE view.enabled,
     set     |-> IF "defaults" \in parts THEN be.set ELSE view.set,
     modules |-> IF "modules" \in parts THEN be.modules ELSE view.modules,
     rules   |-> IF "list" \in parts THEN Listing(be) ELSE view.rules]

\* Defects for Reselect: no clamp; the target of the move is not looked at.
MReselectUnbounded(rules) ==
    LET wanted == IF moveTo # 0 THEN moveTo ELSE sel
    IN  IF view.rules = <<>> THEN 0 ELSE wanted
MReselectOld(rules) ==
    IF view.rules = <<>> THEN 0 ELSE IF sel > Len(rules) THEN Len(rules) ELSE sel

\* setRules selects the row that was selected before, or the one that a move
\* was to; the last one if the list is shorter now.
Reselect(rules) ==
    LET wanted == IF moveTo # 0 THEN moveTo ELSE sel
    IN  IF view.rules = <<>> THEN 0
        ELSE IF wanted > Len(rules) THEN Len(rules) ELSE wanted

Answered == call.phase = "reply" /\ call.cmd \in Cmds

\* queryPerformed and the success branch of modifyPerformed.
ReplyShown ==
    /\ Answered /\ call.ok
    /\ view' = Show(call.parts)
    /\ sel' = IF "list" \in call.parts THEN Reselect(Listing(be)) ELSE sel
    /\ moveTo' = IF call.cmd = "query" THEN moveTo ELSE 0
    /\ known' = IF call.parts = Parts THEN TRUE ELSE known /\ call.cmd # "query"
    /\ blocked' = FALSE
    /\ refused' = FALSE
    /\ call' = NoCall
    /\ UNCHANGED <<be, py, faults, kills>>

\* Defect for QueryFailed: only an answer releases the blocker.
MFailedStaysBlocked ==
    /\ Answered /\ ~call.ok /\ call.cmd = "query"
    /\ known' = FALSE
    /\ call' = NoCall
    /\ UNCHANGED <<be, py, faults, kills, view, sel, moveTo, blocked, refused>>

\* queryPerformed of a failed query.
QueryFailed ==
    /\ Answered /\ ~call.ok /\ call.cmd = "query"
    /\ known' = FALSE
    /\ blocked' = FALSE
    /\ refused' = FALSE
    /\ call' = NoCall
    /\ UNCHANGED <<be, py, faults, kills, view, sel, moveTo>>

\* Defects for ModifyFailed: no query; the target of the move is kept; the
\* blocker is released after the query has begun.
MFailedGivesUp ==
    /\ Answered /\ ~call.ok /\ call.cmd # "query"
    /\ moveTo' = 0
    /\ blocked' = FALSE
    /\ call' = NoCall
    /\ UNCHANGED <<be, py, faults, kills, view, sel, known, refused>>
MFailedKeepsTarget ==
    /\ Answered /\ ~call.ok /\ call.cmd # "query"
    /\ blocked' = TRUE
    /\ Submit("query", TRUE)
    /\ UNCHANGED <<be, faults, kills, view, sel, moveTo, known, refused>>
MFailedUnblocks ==
    /\ Answered /\ ~call.ok /\ call.cmd # "query"
    /\ moveTo' = 0
    /\ blocked' = FALSE
    /\ Submit("query", TRUE)
    /\ UNCHANGED <<be, faults, kills, view, sel, known, refused>>

\* The failure branch of modifyPerformed queries everything again.  The slot
\* is free by then, and the blocker is inactive only within the handler.
ModifyFailed ==
    /\ Answered /\ ~call.ok /\ call.cmd # "query"
    /\ moveTo' = 0
    /\ blocked' = TRUE
    /\ Submit("query", TRUE)
    /\ UNCHANGED <<be, faults, kills, view, sel, known, refused>>

\* LogViewer::refresh, which is refused without a trace during a call, and
\* its reply.
LogRefresh ==
    /\ "log" \in Gestures
    /\ call.phase = "none"
    /\ call' = [NoCall EXCEPT !.phase = "reply", !.cmd = "viewlog", !.ok = TRUE]
    /\ UNCHANGED <<be, py, faults, kills, guiVars>>

LogShown ==
    /\ call.phase = "reply" /\ call.cmd = "viewlog"
    /\ call' = NoCall
    /\ UNCHANGED <<be, py, faults, kills, guiVars>>

-----------------------------------------------------------------------------

User == \/ UserSetStatus \/ UserSetIpV6 \/ UserTurnCombo \/ UserClickModule \/ UserDefaults
        \/ UserRefresh \/ UserLoadProfile \/ UserSelect \/ UserAddRule \/ UserEditRule
        \/ UserRemoveRule \/ UserMoveRule

Deliver == ReplyShown \/ QueryFailed \/ ModifyFailed \/ LogShown

\* A process that is killed may take its answer along.
Serve ==
    /\ HelperStep
    /\ known' = (known /\ kills' = kills)
    /\ UNCHANGED <<view, sel, moveTo, blocked, refused>>

Next == User \/ LogRefresh \/ Serve \/ Deliver

\* The helper's processes end, at the latest by QProcess's time limit, and
\* the event loop delivers the replies.
Fairness == WF_vars(Serve) /\ WF_vars(Deliver)

Spec == Init /\ [][Next]_vars /\ Fairness

-----------------------------------------------------------------------------
(* Properties *)

\* Every variable keeps to its type; a row that is selected exists.
TypeOK ==
    /\ be \in Stores /\ view \in Views
    /\ sel \in 0..Len(view.rules)
    /\ moveTo \in Nat
    /\ blocked \in BOOLEAN /\ known \in BOOLEAN /\ refused \in BOOLEAN
    /\ call.phase \in Phases /\ call.cmd \in Cmds \cup {"none", "viewlog"}
    /\ call.ok \in BOOLEAN /\ call.parts \subseteq Parts

Busy == call.phase # "none" /\ call.cmd # "viewlog"

\* While a call of the window is in flight its guarded widgets are blocked,
\* also across the query that follows a failure.
BlockedWhileBusy == Busy => blocked

\* The blocker is released with the last reply: the window stays blocked with
\* nothing in flight only if the log viewer had the slot when it called.
ReleasedWhenIdle == blocked => Busy \/ refused

Current == view = [enabled |-> be.enabled, set |-> be.set, modules |-> be.modules,
                   rules |-> Listing(be)]

\* Between calls every widget shows the firewall as it is, although each
\* call reads back only the part it is expected to change, and whatever
\* failed on the way; a full reply makes up for an answer that was lost with
\* a killed process, and for a widget that was turned while calls are refused.
IdleViewIsCurrent == call.phase = "none" /\ known => Current

\* When the helper is about to use a rule number, the rule that has it is
\* the one that the window shows under that number, whatever was selected,
\* moved or failed since (removeRule, editRule, moveRule).
NumberMeansShownRule ==
    known /\ call.phase = "first" /\ call.cmd \in {"removeRule", "moveRule", "editRule"}
      /\ py.state = "running" /\ py.pc = "start" /\ py.opts # <<>>
    => LET n == CASE call.cmd = "removeRule" -> call.arg
                  [] call.cmd = "moveRule"   -> call.arg.from
                  [] call.cmd = "editRule"   -> call.arg.pos
       IN  /\ n \in DOMAIN view.rules /\ n \in 1..NumRules(be)
           /\ view.rules[n] = RuleAt(be, n)

\* A row to select after a move is remembered during that move only: no
\* other reply moves the selection.  A move that was refused leaves its row
\* behind only until the window has its next reply.
MoveTargetOnlyDuringMove == moveTo # 0 => refused \/ (Busy /\ call.cmd = "moveRule")

\* With one list of rules, the rule that was moved is the selected one when
\* the list is shown again, so that Move Down twice moves one rule twice.
MovedRuleStaysSelected ==
    [][known /\ call.phase = "reply" /\ call.ok /\ call.cmd = "moveRule" /\ ~Ipv6On(be)
         /\ call'.phase = "none"
       => view'.rules[sel'] = view.rules[call.arg.from]]_vars

\* The window does not stay blocked, unless the log viewer had the slot.
EventuallyReleased == blocked ~> (~blocked \/ refused)

-----------------------------------------------------------------------------
(* A documented promise that the code does not keep *)

\* ChangeLog:32: "so that 'Log Viewer' and 'Add Rule' can be used
\* concurrently".  Rules that are added while the log viewer refreshes do not
\* leave the window blocked with nothing in flight.
AddRuleBesideLogViewer == call.phase = "none" => ~blocked
====
