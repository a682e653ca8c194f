# Verification of ufw-kde

ufw-kde is a KDE control module for ufw, the Linux firewall front end. A user
changes the firewall in a window; the window asks a privileged helper through
KAuth; the helper starts a Python script that uses the ufw library; a second
run of the script reads back what the window then shows. This directory holds
TLA+ modules of that chain, TLC configurations that check them on small
instances, and proofs that TLAPS checks for all instances.

Paths below are relative to `src/`.

## Inventory

| Part | State it keeps | Operations | Interacts with |
|---|---|---|---|
| Python helper, `helper/kcm_ufw_helper.py.cmake` | none between runs; during a run its options, locals, and XML output | `main` and one function per option: add, update, remove, move, clear, setEnabled, setDefaults, setModules, reset, four queries | the ufw library, which rewrites files in `/etc/ufw` and starts or stops the firewall |
| Privileged helper, `helper/helper.cpp` | profile files in `/etc/kcm_ufw` | `query`, `viewlog`, `modify` with its eleven commands, `run` | starts the Python helper once or twice per call; answers KAuth |
| Control module window, `kcm/kcm.cpp` | what its widgets show, selected row, `moveToPos`, `loadedProfile` | a slot per widget, `queryPerformed`, `modifyPerformed` | KAuth calls and replies; profile menus; rule dialog |
| Blocker, `kcm/blocker.cpp` | active flag | event filter of the guarded widgets | set by every slot that makes a call, cleared by the reply slots |
| Profile menus, in `kcm/kcm.cpp` | `profiles`, `existingProfiles`, the user's own profile files | `listUserProfiles`, `refreshProfiles`, `saveProfile`, `removeProfile` | listing in replies of the helper |
| Log viewer, `kcm/logviewer.cpp` | rows, last line | `refresh`, `queryPerformed`, `parse`, `createRule` | `viewlog` of the helper; shares KAuth's slot with the window; opens the rule dialog |
| Rule dialog, `kcm/ruledialog.cpp` | the fields of its two pages, `editingRule` | `setRule`, `reset`, slots of the fields, `update` | calls `addRules`, `editRule` of the window, which keeps one dialog for each |
| Codec, `kcm/rule.cpp`, `profile.cpp`, `types.cpp` | none | rule and profile to XML and back | everything that carries rules |
| Application profiles, widgets, forms, build files | layout, fixed data | | |

### What is hard, and what makes each part correct

* **Python helper.** A change is several library calls; any of them can raise,
  and the process can be killed between two of them. Correct means: rules that a
  command is not about stay as they are, in their order; the lists that number
  the rules stay free of duplicates and of rules of the wrong family; status is
  restored, never raised; exit code 0 means that the change was made.
* **Privileged helper.** Two runs per call and a process result that is not
  looked at: every call must be answered, success must mean that something was
  done, and a part that may have changed must be read back.
* **Window.** `KAuth::Action::execute()` runs an event loop: the user goes on
  while a call is in flight, and replies are handled in the middle of that.
  Rules are named by number, so the number must still mean the row that the user
  saw. Only parts of the state are read back. The blocker must be active through
  each call, and must be released.
* **Profile menus.** Three views of the same profiles (menu, remembered names,
  own files) are updated from listings that can be stale, failed, or (in replies
  to changes) not a listing at all.
* **Rule dialog.** The same rule can be entered in several ways, a field shown on
  one page is kept from the other, fields are filled while slots react to them, and
  a dialog is filled again and again. Correct means: what leaves the dialog can
  be a rule, and an edit changes what the user touched and nothing else.
* **Codec.** One rule passes through two XML codecs and ufw; an empty field, an
  absent attribute, "any" and an any-address mean the same thing in some places
  and not in others.
* **Log viewer.** The log is appended to, rotated, and read in the middle of a
  line between two refreshes.

`PROJECT.json` lists these hazards one by one with their lines and the
properties that are about them.

## Modules

    Ufw            the ufw library's store and calls (outside this repository)
     PyHelper       one run of the Python helper, between library calls
      AuthHelper     one KAuth call: first run, second run, reply
       StoreCalls     a client that calls the helper         <- MCStoreCalls
       Kcm            the window on top of the helper        <- MCKcm
    Firewall       what the helper promises; StoreCalls implements it
    RuleCodec      one rule through both XML codecs and ufw, as functions
     RuleForm       the rule dialog                          <- MCRuleForm
    ProfileMenu    profile files, menus, replies
    LogTail        log file, viewlog, log viewer
    ...Proofs      theorems about the module of that name;
                   HelperProofs is about PyHelper and AuthHelper

### Ufw

`be` in the modules above is one record: an IPv4 and an IPv6 rule list, the
status, the four settings, and the modules. A rule is what it matches (`spec`)
and what it does (`act`); `AddrOf` says whether the addresses in a `spec` are of
one family, both, or none. Library calls are functions of the store that
either succeed or raise. The module is written from how the helper uses the library: rules are
numbered through both lists; a rule that matches the same traffic is replaced;
a position in one list has a counterpart in the other; IPv6 rules are neither
read nor written while IPv6 is off.

### PyHelper

`py` is the process: its remaining options and the locals of the function that
executes the first of them. An action is what the code does between two library
calls. `LibCall` is the one place where a call can raise by itself; there, what
the library has written may or may not be in the store. An exception that
reaches `main` ends the process without output (`Abort`). The functions that
swallow exceptions (`updateRule`, `loadDefaultSettings`) are modelled with exactly
the ones that they swallow. `error()` itself raises under Python 3, which for its
callers is the same as leaving. `Kill` ends a process anywhere.

Line 171 of the script, `ufw=UFWFrontend(False)`, binds the name of the package to an
instance, and two places need the package after that. `setDefaults` makes a second
frontend for an ipv6 attribute (358), whose constructor reads `ufw.frontend` (67): it
always raises, with the firewall disabled and nothing written (`DefaultsSet`). The except
clause of `clearRules` reads `ufw.common` (472): it raises whenever it is needed, so that a
deletion that raises is not skipped but ends the process (`ClearOne`). So no change of
IPv6 and no profile with defaults is ever applied as a whole, and a reset that turns IPv6
off while there are IPv6 rules stops before `ufw.reset`, as it cannot delete all the rules
that it counts.

### AuthHelper

`call` is the one call that KAuth serves: `first` and `second` while a run is
under way, then `reply`. `FirstOpts` and `SecondParts` are the command lines of
both runs. A run that was killed counts as a success without output, as
`QProcess::exitCode()` is 0 then and nothing else is looked at.

### StoreCalls

Any client that sends one call after another with any argument that the window
can send, rule numbers one too large included (its list may be old). The history
variable `began` is the store at the time of the request, so that properties
can compare.

### Firewall

The abstract specification of the helpers: a record for the firewall, the command
that is being served, and whether the firewall was enabled when the command
arrived. `Accept`, any number of `Change`s, `Answer`. A `Change` may do anything to the parts of the firewall that the
command is about and nothing to the others, and it may enable the firewall only if
the command is to enable it or it was enabled before. This is weaker than "the
command is carried out or refused", which does not hold: a run that raises or is
killed stops halfway (`MoveLosesRules` is an example). `StoreCalls` implements it under the mapping `fw <- be`,
`cmd <-` the call while one of its runs is under way, `was <-` the status at the time of the
request: `ImplementsFirewall` is the instance's specification.

### Kcm

The window. `view` is what the widgets show; `Execute` is the pair
`blocker->setActive(true); action.execute()`, which does nothing but block when
KAuth's slot is taken. Each `User...` action is a slot. Widgets that the blocker
guards need `Free`; those that it does not guard (module list, Default button,
row selection, mouse wheel over a combo) do not. `ReplyShown`, `QueryFailed` and
`ModifyFailed` are the two reply slots. `LogRefresh` is the log viewer, which
takes the slot without the blocker. `Gestures` selects what the user does in a
run. Two variables are history. `known`: a full reply has been shown, and since then
no process was killed and no widget was turned for a call that was refused; without
it nothing can be said of what the window shows, as a killed run loses the answer
without an error and a widget that is turned during a call (module list, mouse wheel) keeps what it shows.
`refused`: a call of the window was refused because the log viewer had the slot.
A process that is killed while the window is blocked, and a wheel that turns a combo meanwhile, are
part of the runs; the properties say what is still true then, and that one full reply makes up for it.

### RuleCodec

Operators, no state. An XML element is a function from the attributes that are
present to their values. `toXml` is `Rule::toXml`; `fromXml`, `evenOut` (the
first half of `insertRule`), `Families` (`getProtocol`) and `ruleDetails` are the
helper's half (a rule that names addresses of both families belongs to none: `getProtocol`
raises and nothing is inserted); `Stored` is what ufw gives back, `ruleOf` is `Rule::Rule(QDomElement)`, and `ReadBack` is
the whole way. `profileXml`, `load` and `SameProfile` are the file of a profile. `Equal` and `different` are the two comparisons, which differ from
equality on purpose: `different` is what an edit is decided by.

### RuleForm

The dialog that adds rules (modeless, opened empty or from a line of the log) and
the one that edits a rule (modal). `form` has every field of both pages. `setRule` fills it in the
order of the code, with the slots that the radio buttons trigger on the way (`Pick`,
`control`); `reset` leaves what is chosen in the lists. `Touch` is one thing that the user
does; `Confirm` is `update`: blank fields become "any" one after the other, then the page
that is shown is turned into rules or refused. IPv6 is on or off at that moment. `touched` is
history: whether the user changed a field that says what the rule matches. `LogViewer::createRule` is
modelled with the arguments in the positions that it passes them in.

### ProfileMenu

`disk` is `/etc/kcm_ufw`, `own` the user's folder, `menu` the actions in the two
menus with their profile, `existing` is `existingProfiles`. Replies to
`saveProfile` and `deleteProfile` carry a list of names where `refreshProfiles`
reads a map; a conversion between the two gives an empty map, and the model
passes an empty listing. `stuck` are the own files that cannot be removed in a
refresh. Another window may change the files at any time (`Elsewhere`).

### LogTail

The daemon writes a line at once or in two parts and the log is rotated, at any
time. `Refresh` asks; `Open`, `ReadLine` (one turn of the loop) and `ReadEnd` are
`Helper::viewlog`, with the daemon's steps between any two of them. `reader` is the file as
the helper has it open: it grows with the log until the log is rotated, and a file that
is renamed stays open as it is. `ReadLine` takes the next line as far as it has been written, and
the rest of it later as a line of its own, as `readLine` does. `QueryPerformed`
appends rows and remembers the last line. Two variables are history. `torn`: a reply has had a firewall line
that was not whole, which no later search finds again. `split`: both parts of a line were
read one after the other, so that a line was there in the end that was never read as one.

## Runs

Every run has a bound on faults (`MaxFaults`: library calls that raise by
themselves, or denied calls), on killed processes (`MaxKills`), and on file
failures (`MaxFailures`). One of each is enough for the interesting cases, as
each lets a sequence of steps stop at every point; two independent failures in
one call are covered where one is a fault and the other a kill, or a refusal by
the library, which needs no budget.

| Run | Shows |
|---|---|
| Store | Every command, rule commands on one rule for both families, one per family and one that names both, and three profiles, with a fault and a kill: lists stay sound (`TypeOK`), rules that the command is not about keep their place whatever raises or is killed (`OthersKeepTheirOrder`), nothing but setStatus enables the firewall (`OnlySetStatusEnables`), success means done, for every command that can succeed (`SuccessMeansDone`), the helpers implement `Firewall` (`ImplementsFirewall`), and every call is answered (`EveryCallIsAnswered`). |
| KcmRules | Adding, editing, removing, moving, selecting during calls, changes of IPv6 that fail half way, and the log viewer taking the slot: the view is current between calls (`IdleViewIsCurrent`), numbers mean the row that is shown when the helper uses them (`NumberMeansShownRule`), the target of a move belongs to that move only (`MoveTargetOnlyDuringMove`), the blocker is released with the last reply (`ReleasedWhenIdle`), and the moved rule is the selected one (`MovedRuleStaysSelected`). |
| KcmSettings | The other widgets, guarded or not, mouse wheel, a profile with defaults (which fails) and one without (which succeeds), denied calls, a fault and a kill: the view is current between calls while it is known (`IdleViewIsCurrent`), guarded widgets are blocked during every call (`BlockedWhileBusy`), and released in the end (`EventuallyReleased`). |
| RuleForms | Both dialogs, filled from nine rules or two log lines or emptied, touched up to three times (`MaxTouches`), confirmed and filled again: what is sent is well formed (`SentRulesAreWellFormed`), an edit never stands for several rules (`EditKeepsEveryPort`), what comes back from ufw names the same traffic (`ReadBackIsWhatWasSent`) and goes through a profile and back without change (`ListedRuleSurvivesProfile`), and an edit changes what was touched only (`EditChangesOnlyWhatWasTouched`). |
| Profiles | Two names, two contents, everything that can happen to them: the menus, the remembered names and the own files agree. |
| Log | Four lines, whole or in parts; the daemon writes and rotates between any two turns of the helper's loop: each line is shown once and in order (`EachLineOnceInOrder`), and a refresh shows every whole firewall line that the file has when the reading ends (`RefreshShowsAll`). |

Why these sizes are enough: rules differ for the code only by family, by
position and by whether they match the same traffic. Three or four specs give each family, a
list of both, and a third rule to disturb; positions run one past the end. Two
values of a setting distinguish written from not written. Two profile names are needed as
`refreshProfiles` treats each name apart from the others and only set differences relate
them. In `RuleForms` each field has an empty, a valid and an invalid text, and where
the code asks for it a list of ports, a service name and an IPv6 address; there is an application with a
list of ports, one without a protocol, a service with one port, one with a range and one with two ports; three touches
reach every refusal from every filling, as a refusal depends on at most three fields that differ from what
the dialog is filled with, and a second use of the dialog needs none. Four lines give a last line, lines before it, lines after it, and one
after a rotation.

### What the code does not keep

Each of these runs checks one promise of the repository and ends in a
counterexample:

| Run | Promise | What happens |
|---|---|---|
| MoveLosesRules | Rules may be re-ordered by moving them (`doc/index.docbook:100`) | `moveRule` deletes first; inserting an IPv6 rule at an IPv4 position raises, and the rule is lost |
| ToggleIpv6 | "Fix toggling of IPv6 disabling firewall." (`ChangeLog:65`) | `setDefaults` disables the firewall, then the second `UFWFrontend` raises: the call fails, IPv6 is as it was, and the firewall stays disabled |
| LogBlocksWindow | Log viewer and Add Rule work concurrently (`ChangeLog:32`) | a rule added during a log refresh is refused after the blocker was activated; no reply releases it |
| SavedProfileIsListed | New profiles are added to the menus (`kcm/kcm.cpp:904`) | the refresh that answers a save reads an empty listing |
| UnchangedEdit | `different` tells whether the rule has actually changed (`kcm/rule.h:101`) | `setRule` sets the protocol, then the radio buttons, whose slots set it to "any" while the source still shows "any" from the rule that was open before: a rule with a source port and a protocol, opened after one with a destination port and confirmed unchanged, is sent without its protocol |
| LogRule | The rule is the inverse of what the log line says (`kcm/logviewer.cpp:339`) | `createRule` passes two arguments that the constructor no longer has; every later one is taken for another field |

`EditChangesOnlyWhatWasTouched`, which does hold, is about `Plain` rules: of the IPv4 list, without the protocol that UnchangedEdit
loses, on no port that an application stands for (it becomes that application), and on no interface whose
name `update` rewrites.

More that the models show but no run states: `update` takes everything but letters and digits out of an
interface, also when `setRule` put it there, so that a rule of `br-lan` that is confirmed without a change is sent as
one of `brlan` (`kcm/ruledialog.cpp:749`; TLC finds it when such a rule is among the `ListedRules` of
UnchangedEdit); any setting that raises leaves the
firewall disabled (`setDefaults` disables it first; the error is reported); a profile that
the window has saved always has defaults, so that loading it replaces the rules, disables the
firewall and fails (`doc/index.docbook:195` promises easy switching); a reset that turns IPv6
off while there are IPv6 rules fails half way, because rules are cleared before resetting
(`ChangeLog:45`); the IPv6 rules that such a reset leaves in their file are neither listed nor
cleared while IPv6 is off (`InForce`); every second
refresh forgets the profiles that it knew, so that deletions elsewhere go unseen; a
system profile saved again keeps its old content in the menu; a module clicked or a combo
turned with the wheel during a call is shown but not asked for; a second run that is
killed leaves the old view in place.

### Fairness

`WF(Serve)`: a Python process computes or is ended by QProcess's time limit,
and `run` goes on when it has ended. `WF(Deliver)`, `WF(TakeReply)`: the event
loop delivers replies. Nothing is assumed of the user. The log, profile and dialog
modules have safety properties only and need none; `Firewall` has none
because the refinement is about what may happen, and `EveryCallIsAnswered` says
of `StoreCalls` itself that it does.

## Proofs

TLAPS proves the following for every value of the constants: any sets of rules,
addresses, actions, settings, modules, profile names and contents, any arguments
of the client, and any number of faults and killed processes.

| Module | Theorem | Says |
|---|---|---|
| StoreCallsProofs | TypeCorrect | `StoreCalls!TypeOK`: the types of both helpers, and that the rule lists stay sound |
| StoreCallsProofs | OnlySetStatusEnablesAlways | `OnlySetStatusEnables` |
| FirewallProofs | HelpersImplementFirewall | `ImplementsFirewall`: the helpers implement the abstract firewall |
| StoreCallsProofs | OthersKeepTheirOrderAlways | `OthersKeepTheirOrder` |
| StoreCallsProofs | SuccessMeansDoneAlways | `SuccessMeansDone` |
| KcmProofs | TypeCorrect | `Kcm!TypeOK` |
| KcmProofs | BusyIsBlocked | `BlockedWhileBusy` |
| KcmProofs | IdleIsReleased | `ReleasedWhenIdle` |
| KcmProofs | MoveTargetEnds | `MoveTargetOnlyDuringMove` |
| KcmProofs | ViewIsCurrent | `IdleViewIsCurrent` |
| KcmProofs | NumberIsOfShownRule | `NumberMeansShownRule` |
| KcmProofs | MovedRuleIsSelected | `MovedRuleStaysSelected` |
| RuleFormProofs | TypeCorrect | `RuleForm!TypeOK` |
| RuleFormProofs | SentRulesFit | `SentRulesAreWellFormed` |
| RuleFormProofs | EditIsOneRule | `EditKeepsEveryPort` |
| RuleFormProofs | SentRulesComeBack | `ReadBackIsWhatWasSent` |
| RuleFormProofs | ProfileKeepsRules | `ListedRuleSurvivesProfile` |
| RuleFormProofs | EditIsWhatWasTouched | `EditChangesOnlyWhatWasTouched` |
| ProfileMenuProofs | TypeCorrect | `ProfileMenu!TypeOK` |
| ProfileMenuProofs | RememberedProfilesAreListed | `RememberedIsListed` |
| ProfileMenuProofs | FilesMatchEntries | `OwnEntriesHaveFiles` |
| ProfileMenuProofs | FullRefresh | `RefreshListsEverything` |
| ProfileMenuProofs | OwnProfilesAreKept | `OwnProfilesStay` |
| LogTailProofs | TypeCorrect | `LogTail!TypeOK` |
| LogTailProofs | EachLineOnce | `EachLineOnceInOrder` |
| LogTailProofs | RefreshIsComplete | `RefreshShowsAll` |

Assumptions: only the `ASSUME`s of the modules, which every run evaluates.
`UfwAssumption` types the addresses of specs and wants an action, a policy and a
log level to exist; `PyHelperAssumption` types the installed defaults and the
bounds; `StoreCallsAssumption` says that the rules and profiles that a client
sends are ones that the window can make; `KcmAssumption` types the saved profiles and the
blank widgets; `RuleCodecAssumption` and `RuleFormAssumption` type what can be typed and listed, and say that an
application and a service have a port, and that a service's range or list has a protocol, as all of those in
`kcm/types.cpp:86` have; the any-address of IPv6 is an IPv6 address and that of IPv4 is not; a service's
number is not itself the name of a service, empty, or "any"; actions, logging and texts that the user can
choose are among those that exist. `EmptyText` says that the empty text is a text, which TLC knows and the provers do
not. `ProfileMenu` and `LogTail` have their own.

**The helpers.** `TypeOK` is not inductive: that a list stays sound when a rule is
put back depends on the rule that the process holds, and what an option does to
the store depends on the arguments that it carries. The invariant that is,
`TypeInv`, adds `ProcOK`: options carry arguments of their type, and a rule that
is held for insertion, if it came from the IPv6 list, has addresses that fit that
list (`updateRule` and `moveRule` choose the list from the held rule). The
argument goes in three layers:

1. `UfwProofs`: what the library calls keep. The central fact is about `Put`: a
   rule is inserted into a list that fits it, at any position or at the end, after the rule with the same
   match was removed, so the list still has one rule per match (`PutSound`,
   `SetRuleGood`, `DeleteRuleGood`); a rule that is read from a
   list fits that list (`RuleAtFits`).
2. `HelperProofs`: each step of a run keeps `PyOK` (`PyStepType`, one case per
   action); command lines built from typed calls have typed options
   (`CommandLines`); each step of the privileged helper keeps `HelperOK`
   (`HelperStepType`).
3. `StoreCallsProofs`: requests have typed arguments (`Requests`), and
   `Init`, requests, steps and replies keep `TypeInv`.

**Who enables the firewall.** The property compares the store with an earlier one, so
the invariant has to follow the intention through the run: `EnableInv` says
that, unless the call may enable the firewall (`MayEnable`), the store is
disabled *and* the process is `Quiet`: none of its remaining options is
`setEnabled` to on, and it does not remember that the firewall was on.
`RuleStepQuiet` and `OtherStepQuiet` go through the steps; `CommandsQuiet` shows
that only `setStatus` puts `setEnabled` on a command line. That no process exists
outside of the two runs of a call is part of the invariant too.

**The refinement.** A step of a process must be a `Change` that the call permits, so
the invariant ties what the process still has to do to the call. `HelperProofs` has the
general facts: an option changes only its part of the store (`Affects`, from
`RuleStepEffect` and `OtherStepEffect`), a step leaves the options as they are, drops the first or all
(`Follows`), and a command line has only options of its command
(`CommandsWithin`). `ServingInv` of `FirewallProofs` says that the options of the first run are
within `MayRun` of the command and those of the second are queries. Then a
step of a process is a `Change` (`ProcessRefines`), a request is an `Accept` or
answered at once (`RequestRefines`), and the end of the last run is an `Answer`
(`EndRefines`). That nothing is enabled that was not comes from `EnableInv`.

**The window.** Every slot is reduced to one form first: `UserCall` says of a slot that it
shows only what its call reads back and names a row that is shown; `UserCalls` goes
through the slots, `ExecuteCases` through what may become of the call. The blocker's
properties follow from `BlockerInv`, which adds that the log viewer's call has one step
and that a move's target exists only behind the blocker: without that a query
could begin with a target left, and its reply would move the selection.
`IdleViewIsCurrent` speaks of the time between calls and says nothing of what happens
during one; `ViewInv` does: while the first run is under way, every part of the view
that the call does not read back is as in the store, but for the status, which
`setDefaults` takes away and brings back (`StatusKept`: the process remembers what the window
shows); during the second run each part is as in the store, or read already, or still to be read; a
successful reply lacks only parts that are as in the store. `FirstStep` needs the effects of
`HelperProofs` and, for `setDefaults`, that a step which does not fail leaves IPv6, and with it the list, as it is
(`DefaultsStep`, `ListingKept`); a failing one is followed by the query that reads everything. `NumberMeansShownRule` is the same fact about the list at the
moment before the number is used, which is used once (`NumberStep`).
`MovedRuleStaysSelected` needs the exact result of a move: `MoveInv` says that the row to select is the target of the
move that is in flight, that a rule that was taken out comes from the list that is shown (`Taken`), that after the first run it is at
that row, with no row more or less (`Arrived`, from `MovedRule` of `HelperProofs`), and that the second run reads the
list and does not forget it (`Asked`): a move that leaves the list as it was would otherwise be no reason to select anything.

**The rule dialog.** `IInv` of `RuleFormProofs` follows what is chosen on each side even
while another radio button is checked, as `reset` and the slots leave it there: it is an entry of
that side's list, or one that was put there for a rule's application (`Items`), and in the edit
dialog an entry without application has one port (`EntryOfService`). One lemma for each way to fill
or touch a field keeps this (`PickKeeps` to `ResetKeeps`, `UserKeeps`); `BlankedForm` says what is true of
the fields once `update` has turned blanks into "any", and `SimpleRulesFit` and
`AdvancedRuleFits` that the rules made of such fields are well formed.

**The profile menu.** `IInv` of `ProfileMenuProofs` strengthens the three state
properties by the types of the call in flight and by the fact that an unanswered
`saveProfile` carries the content of the profile it names. `RefreshKeepsMenu`
and `ServeKeepsIInv` carry most of the proof; the two action properties
follow from `IInv` and one step.

**Other rules stay.** `OthersKeepTheirOrder` compares the lists with those at the time of the request, and a
rule that was taken out is put back later, so the invariant looks at what is still to come.
`OthersInv` is `EnableInv`, that the rules of specs that the call does not address are now as they were then
and in the same order (`SameRules`), and `Minds`: what the process still has to do, with the rule it holds,
is about addressed specs only. `PutOthers` and `RemoveOthers` say that putting or removing a rule leaves the
order of all others, `StepOthers` goes through the steps of a process, and `CommandsMind` through the command lines.

**Success.** Nothing can be said of a store in the middle of a call but what is still missing. `DoneInv` therefore
speaks of a debt. For the commands whose parts add up (settings, modules, rules, profiles), `Debt` says of each thing
asked for that it is done or among the options that are left, and that no option that is left undoes it
(`DebtAdd` to `DebtModules`, one for each function of the helper). For the others
`OneDebt` says it exactly, locals included, down to where the two library calls of a move leave the rule
(`MovedList`). `Exact` ties the arguments on the command line to those of the call, and says that a profile's
defaults have an ipv6 attribute. That attribute is always part of the debt and nothing pays it, so a run with it cannot
end well; IPv6 being what it was when the call came, the lists that `clearRules` has emptied are the ones in
force when the profile's rules are added, and an empty count means empty lists (`NoRulesLeft` of `UfwProofs`). As a deletion that
raises ends the run, no exception has to be excused.

**Types of the rule dialog.** `TypeOK` needs `IInv`, and `HeldOK` for what the dialog holds beside its fields: the rule being edited, the line of the log, and the
rules that were sent.

**The codecs.** `ReadBackIs` writes the rule that comes back as one record of the fields of the rule that was sent, each
with its one condition (an absent attribute, "any", an any-address of the family, a service's number). Once that is there,
`ReadBackIsWhatWasSent` is a comparison of fields, and `ComesBackAgain` shows that reading back a rule that was read back
changes nothing; `SavedRule` and `SavedProfile` add the profile's own conversion.

**An edit.** `EditInv` says that while the edit dialog is open and nothing that names the traffic was touched, the form
shows the rule that it was opened with (`ShowsRule`), on whichever page. `RuleShown` establishes it: it follows
`setRule` through the slots of the radio buttons, from any state that an earlier use has left. `NothingBlank` says that blanks become "any" where
the rule has nothing, and `ShownRules` that what is made of such a form is that rule with the touched fields.

**The log viewer.** The search for the last line works because of an order that no single variable shows. The invariant
has six parts: types; `FileInv`, the file is the last lines that were logged, without a gap; `CallInv`
and `ReaderInv`, what is open is the log or an older file, and at which line the reading is; `OrderInv`, lines that
are listed and lines that are collected rise, the latter above the former, unless `torn`; `ShowInv`, each whole firewall line before the
position of the reader is listed or collected, unless `split`. `EachLineOnce` and `RefreshIsComplete` follow from the last two. The model
has one action for each turn of the loop, so that no fold needs to be reasoned about.

Each invariant and action property that a passing run checks is stated by a theorem. What stays with TLC is out of the
prover's reach: `EveryCallIsAnswered` and `EventuallyReleased` (liveness under
fairness), and the promises that the code does not keep. Nothing is proved about `ENABLED`, nor by induction over
data, which no argument above needs: an order of rules is a statement about positions, and a loop is an action for each turn.

## Not modelled

* The texts that rules are shown as (`Rule::toStr` and the parts of `types.cpp` that
  name things for the user).
* Profiles as files in `Kcm` and `ProfileMenu`: there they carry whole values (their codec is in
  `RuleCodec`), and a profile file that lacks a part is an argument of `setProfile` in `StoreCalls`.
* `loadedProfile`, the status text that names the profile, `loadMenuWasShown` (which tells
  loading from deleting by the menu that was shown last), import and export of profile
  files.
* The scan for kernel modules at start, and `otherModules` apart from listed ones.
* Another program that changes the firewall while the window is open: the window has
  no means to notice it.
* The ufw library beyond `Ufw`: `/etc/ufw` files, iptables, `before.rules`.
* The parser of ufw's application profiles, which runs once; what it yields is the
  constant `Apps` of `RuleForm`. Painting, sizes and tool tips; build, translation and
  policy files. They keep no state that others rely on, or none at all.

## Plan

Done, in the order of how much depends on it: `Ufw`, `PyHelper`, `AuthHelper`,
`StoreCalls`; `Kcm` on top; `ProfileMenu`; `LogTail`; `RuleCodec` and `RuleForm`;
`Firewall` and its refinement; proofs about `ProfileMenu`, `Ufw`, the helpers,
`StoreCalls`, the refinement, `Kcm`, `RuleForm` with `RuleCodec`, and `LogTail`.

Left:

1. `loadedProfile` and the status text, composed with `ProfileMenu`: which profile
   the status names after each reply, and `loadMenuWasShown`.
2. A second writer of the store in `StoreCalls`, to say what a rule number is
   worth when the list is old.
3. What is said of `viewlog` speaks of one viewer; liveness of a refresh would need a daemon that pauses.
