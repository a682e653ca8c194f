---- MODULE FirewallProofs ----
(***************************************************************************)
(* StoreCalls implements Firewall: whatever the two runs of the Python     *)
(* helper do, a client sees one command at a time that changes only what   *)
(* it is about.                                                            *)
(***************************************************************************)
EXTENDS StoreCallsProofs

-----------------------------------------------------------------------------
(* The refinement *)

\* The inductive invariant: a process that changes the firewall has only
\* options of the command being served, the one that reads it back has none
\* that changes anything.
ServingInv ==
    /\ EnableInv
    /\ Serving => call.cmd \in Cmds
    /\ call.phase = "first" => call.cmd # "query" /\ Within(py.opts, MayRun(call.cmd))
    /\ call.phase = "second" => Within(py.opts, Parts)

\* The options of a command change only what the command is about.
LEMMA OptionsPermitted ==
    /\ \A cmd \in Cmds \ {"query"} : \A name \in MayRun(cmd) :
         /\ name \in Changing.rules   => cmd \in F!MayChange.rules
         /\ name \in Changing.enabled => cmd \in F!MayChange.enabled
         /\ name \in Changing.set     => cmd \in F!MayChange.set
         /\ name \in Changing.modules => cmd \in F!MayChange.modules
    /\ \A part \in Parts : /\ part \notin Changing.rules /\ part \notin Changing.enabled
                           /\ part \notin Changing.set /\ part \notin Changing.modules
<1>1. /\ F!MayChange.rules = {"addRules", "removeRule", "moveRule", "editRule", "setProfile", "reset"}
      /\ F!MayChange.enabled = {"setStatus", "setDefaults", "setProfile", "reset"}
      /\ F!MayChange.set = {"setDefaults", "setProfile", "reset"}
      /\ F!MayChange.modules = {"setModules", "setProfile", "reset"}
    BY DEF F!MayChange, F!RuleCmds, F!AllCmds
<1>2. /\ Changing.rules = {"add", "update", "remove", "move", "clear", "reset"}
      /\ Changing.enabled = {"setEnabled", "setDefaults", "reset"}
      /\ Changing.set = {"setDefaults", "reset"}
      /\ Changing.modules = {"setModules", "reset"}
    BY DEF Changing
<1>3. \A part \in Parts : /\ part \notin Changing.rules /\ part \notin Changing.enabled
                          /\ part \notin Changing.set /\ part \notin Changing.modules
    BY <1>2 DEF Parts
<1>4. ASSUME NEW cmd \in Cmds \ {"query"}, NEW name \in MayRun(cmd)
      PROVE  /\ name \in Changing.rules   => cmd \in F!MayChange.rules
             /\ name \in Changing.enabled => cmd \in F!MayChange.enabled
             /\ name \in Changing.set     => cmd \in F!MayChange.set
             /\ name \in Changing.modules => cmd \in F!MayChange.modules
    BY <1>1, <1>2, <1>4 DEF MayRun, RuleCommands, Cmds
<1> QED  BY <1>3, <1>4

\* The commands of the helper are commands of the firewall.
LEMMA SameCommands == F!CommandNames = Cmds
<1>1. DOMAIN F!MayChange = {"rules", "enabled", "set", "modules"}
    BY DEF F!MayChange
<1>2. /\ F!MayChange["rules"] = {"addRules", "removeRule", "moveRule", "editRule", "setProfile", "reset"}
      /\ F!MayChange["enabled"] = {"setStatus", "setDefaults", "setProfile", "reset"}
      /\ F!MayChange["set"] = {"setDefaults", "setProfile", "reset"}
      /\ F!MayChange["modules"] = {"setModules", "setProfile", "reset"}
    BY DEF F!MayChange, F!RuleCmds, F!AllCmds
<1>3. UNION {F!MayChange[part] : part \in DOMAIN F!MayChange} =
        {"addRules", "removeRule", "moveRule", "editRule", "setProfile", "reset",
         "setStatus", "setDefaults", "setModules"}
    BY <1>1, <1>2
<1> QED  BY <1>3 DEF F!CommandNames, Cmds

\* A step of a process is a change that the command permits.
LEMMA ProcessRefines ==
    ASSUME PyHelperAssumption, ServingInv, EnableInv', (PyStep \/ Kill) /\ UNCHANGED <<call, began>>
    PROVE  ServingInv' /\ F!Change
<1>1. EnableInv /\ TypeInv /\ PyOK /\ PyOK' /\ be \in Stores /\ be' \in Stores
    BY DEF ServingInv, EnableInv, TypeInv, HelperOK, PyOK, Good
<1>2. call.phase \in {"first", "second"} /\ Serving
    <2>1. py.state = "running"
        BY <1>1, ProcessStep
    <2>2. py # NoProc
        BY <2>1 DEF NoProc
    <2>3. call.phase \in Phases
        BY <1>1 DEF TypeInv, HelperOK, CallOK, Calls
    <2> QED  BY <1>1, <2>2, <2>3 DEF EnableInv, Phases, Serving
<1>3. (StepEffect \/ be' = be) /\ Follows(py')
    BY <1>1, ProcessStep
<1> DEFINE names == IF call.phase = "first" THEN MayRun(call.cmd) ELSE Parts
<1>4. Within(py.opts, names)
    BY <1>2 DEF ServingInv
<1>5. Within(py'.opts, names)
    <2> HIDE DEF names
    <2> QED  BY <1>1, <1>3, <1>4, WithinFollows
<1>6. ServingInv'
    <2>1. call' = call
        OBVIOUS
    <2> QED  BY <2>1, <1>5 DEF ServingInv, Serving
<1>7. /\ be'.v4 # be.v4 \/ be'.v6 # be.v6 => call.cmd \in F!MayChange.rules
      /\ be'.enabled # be.enabled         => call.cmd \in F!MayChange.enabled
      /\ be'.set # be.set                 => call.cmd \in F!MayChange.set
      /\ be'.modules # be.modules         => call.cmd \in F!MayChange.modules
    <2>1. CASE be' = be
        BY <2>1
    <2>2. CASE StepEffect
        <3> DEFINE name == Head(py.opts).name
        <3>1. name \in names
            <4>1. py.opts # <<>>
                BY <2>2 DEF StepEffect
            <4> HIDE DEF names
            <4> QED  BY <1>1, <1>4, <4>1, FirstWithin
        <3>2. Affects(be, be', name)
            BY <2>2 DEF StepEffect
        <3> HIDE DEF name
        <3>3. call.cmd \in Cmds /\ (call.phase = "first" => call.cmd # "query")
            BY <1>2 DEF ServingInv
        <3>4. CASE call.phase = "first"
            BY <3>1, <3>2, <3>3, <3>4, OptionsPermitted DEF Affects
        <3>5. CASE call.phase = "second"
            BY <3>1, <3>2, <3>5, OptionsPermitted DEF Affects
        <3> QED  BY <1>2, <3>4, <3>5
    <2> QED  BY <1>3, <2>1, <2>2
<1>8. be'.enabled /\ ~be.enabled => (Serving /\ began.enabled) \/ (Serving /\ call.cmd = "setStatus" /\ call.arg)
    <2> SUFFICES ASSUME be'.enabled PROVE began.enabled \/ (call.cmd = "setStatus" /\ call.arg)
        BY <1>2
    <2>1. be'.enabled \in BOOLEAN
        BY <1>1 DEF Stores
    <2>2. MayEnable'
        BY <1>2, <2>1 DEF EnableInv
    <2> QED  BY <2>2 DEF MayEnable
<1>9. /\ Command.name = call.cmd
      /\ Command.on = (Serving /\ call.cmd = "setStatus" /\ call.arg)
    BY <1>2 DEF Command
<1>10. Command # F!Idle
    <2>1. call.cmd # "none"
        BY <1>2 DEF ServingInv, Cmds
    <2> QED  BY <2>1, <1>9 DEF F!Idle
<1>11. Command' = Command /\ (Serving /\ began.enabled)' = (Serving /\ began.enabled)
    BY DEF Command, Serving
<1>12. F!Permitted(Command.name, Command.on, be')
    BY <1>7, <1>8, <1>9 DEF F!Permitted
<1>13. F!Change
    BY <1>10, <1>11, <1>12 DEF F!Change
<1> QED  BY <1>6, <1>13

\* What the firewall sees while no command is served.
LEMMA NotServing ==
    /\ ~Serving => Command = F!Idle
    /\ ~Serving' => Command' = F!Idle
BY DEF Command, F!Idle

\* A request is accepted, or refused at once.
LEMMA RequestRefines ==
    ASSUME ServingInv, EnableInv', NEW cmd \in Cmds, NEW arg, ArgOK(cmd, arg), Request(cmd, arg)
    PROVE  ServingInv' /\ [F!Next]_(F!fvars)
<1> DEFINE request == [NoCall EXCEPT !.cmd = cmd, !.arg = arg]
<1>1. call.phase = "none" /\ Submit(cmd, arg) /\ be' = be /\ began' = be /\ py = NoProc
    BY DEF Request, ServingInv, EnableInv
<1>2. \A phase : /\ [request EXCEPT !.phase = phase].phase = phase
                 /\ [request EXCEPT !.phase = phase].cmd = cmd
                 /\ [request EXCEPT !.phase = phase].arg = arg
    BY DEF NoCall
<1>3. \/ /\ cmd = "query" /\ call'.phase = "second" /\ Within(py'.opts, Parts)
      \/ /\ cmd # "query" /\ call'.phase = "first" /\ Within(py'.opts, MayRun(cmd))
      \/ call'.phase = "reply"
    <2> HIDE DEF request
    <2>1. CASE cmd = "query"
        <3>1. /\ call' = [request EXCEPT !.phase = "second"]
              /\ py' = Process(Queries(SecondParts(cmd, arg)))
            BY <1>1, <2>1 DEF Submit, request
        <3>2. py'.opts = Queries(SecondParts(cmd, arg))
            BY <3>1 DEF Process, NoProc
        <3> QED  BY <3>1, <3>2, <2>1, <1>2, CommandsWithin
    <2>2. CASE cmd # "query" /\ FirstOpts(cmd, arg) = <<>>
        <3>1. call' = [request EXCEPT !.phase = "reply"]
            BY <1>1, <2>2 DEF Submit, request
        <3> QED  BY <3>1, <1>2
    <2>3. CASE cmd # "query" /\ FirstOpts(cmd, arg) # <<>>
        <3>1. call' = [request EXCEPT !.phase = "first"] /\ py' = Process(FirstOpts(cmd, arg))
            BY <1>1, <2>3 DEF Submit, request
        <3>2. py'.opts = FirstOpts(cmd, arg)
            BY <3>1 DEF Process, NoProc
        <3> QED  BY <3>1, <3>2, <2>3, <1>2, CommandsWithin
    <2> QED  BY <2>1, <2>2, <2>3
<1>4. call'.cmd = cmd /\ call'.arg = arg
    BY <1>1, <1>2 DEF Submit
<1> HIDE DEF request
<1>5. ServingInv'
    BY <1>3, <1>4 DEF ServingInv, Serving
<1>6. ~Serving /\ Command = F!Idle
    BY <1>1, NotServing DEF Serving
<1>7. CASE call'.phase = "reply"
    <2>1. ~Serving' /\ Command' = F!Idle
        BY <1>7, NotServing DEF Serving
    <2>2. (Serving /\ began.enabled)' = (Serving /\ began.enabled)
        BY <1>6, <2>1
    <2> QED  BY <1>1, <1>5, <1>6, <2>1, <2>2 DEF F!fvars
<1>8. CASE call'.phase \in {"first", "second"}
    <2>1. Serving'
        BY <1>8 DEF Serving
    <2> DEFINE on == cmd = "setStatus" /\ arg
    <2>2. Command' = [name |-> cmd, on |-> on]
        BY <1>4, <2>1 DEF Command
    <2>3. on \in BOOLEAN /\ (on => cmd = "setStatus")
        OBVIOUS
    <2>4. (Serving /\ began.enabled)' = be.enabled
        <3>1. be.enabled \in BOOLEAN
            BY DEF ServingInv, EnableInv, TypeInv, HelperOK, PyOK, Good, Stores
        <3> QED  BY <1>1, <2>1, <3>1
    <2> HIDE DEF on
    <2>5. F!Accept
        BY <1>1, <1>6, <2>2, <2>3, <2>4, SameCommands DEF F!Accept
    <2> QED  BY <1>5, <2>5 DEF F!Next
<1> QED  BY <1>3, <1>7, <1>8

\* The end of the first run goes on to the second, or is the answer, as the
\* end of the second run is.
LEMMA EndRefines ==
    ASSUME ServingInv, EnableInv', FirstEnded \/ SecondEnded, UNCHANGED began
    PROVE  ServingInv' /\ [F!Next]_(F!fvars)
<1>1. call \in Calls(call.cmd, call.arg) /\ call.cmd \in Cmds /\ Serving /\ be' = be
    <2>1. Serving
        BY DEF FirstEnded, SecondEnded, Serving
    <2> QED  BY <2>1 DEF ServingInv, EnableInv, TypeInv, HelperOK, CallOK, FirstEnded, SecondEnded
<1>2. CASE call' = [call EXCEPT !.phase = "second"] /\ py' = SecondRun
    <2>1. call'.phase = "second" /\ call'.cmd = call.cmd /\ call'.arg = call.arg
        BY <1>1, <1>2 DEF Calls
    <2>2. Within(py'.opts, Parts)
        <3>1. py'.opts = Queries(SecondParts(call.cmd, call.arg))
            BY <1>2 DEF SecondRun, Process, NoProc
        <3> QED  BY <3>1, CommandsWithin
    <2>3. ServingInv' /\ Serving'
        BY <1>1, <2>1, <2>2 DEF ServingInv, Serving
    <2>4. Command' = Command
        BY <1>1, <2>1, <2>3 DEF Command
    <2>5. (Serving /\ began.enabled)' = (Serving /\ began.enabled)
        BY <1>1, <2>3
    <2> QED  BY <1>1, <2>3, <2>4, <2>5 DEF F!fvars
<1>3. CASE \E ok, parts : call' = Replied(ok, parts)
    <2>1. call'.phase = "reply"
        BY <1>1, <1>3 DEF Replied, Calls
    <2>2. ServingInv' /\ ~Serving' /\ Command' = F!Idle
        BY <2>1, NotServing DEF ServingInv, Serving
    <2>3. Command # F!Idle
        BY <1>1 DEF Command, F!Idle, Cmds
    <2>4. F!Answer
        BY <1>1, <2>2, <2>3 DEF F!Answer
    <2> QED  BY <2>2, <2>4 DEF F!Next
<1> QED  BY <1>2, <1>3 DEF FirstEnded, SecondEnded

\* Every step keeps the invariant and is a step of the firewall or none.
LEMMA StepRefines ==
    ASSUME PyHelperAssumption, StoreCallsAssumption, ServingInv, [Next]_vars
    PROVE  ServingInv' /\ [F!Next]_(F!fvars)
<1>1. EnableInv /\ EnableInv' /\ TypeInv
    <2>1. EnableInv /\ EnableInv'
        BY EnableInductive DEF ServingInv
    <2> QED  BY <2>1 DEF EnableInv
<1>2. CASE \/ RequestQuery \/ RequestSetStatus \/ RequestSetDefaults \/ RequestSetModules
           \/ RequestSetProfile \/ RequestAddRules \/ RequestRemoveRule \/ RequestMoveRule
           \/ RequestEditRule \/ RequestReset
    BY <1>1, <1>2, Requests, RequestRefines
<1>3. CASE Serve
    <2>1. HelperStep /\ UNCHANGED began
        BY <1>3 DEF Serve
    <2>2. CASE (PyStep \/ Kill) /\ UNCHANGED call
        BY <1>1, <2>1, <2>2, ProcessRefines DEF F!Next
    <2>3. CASE FirstEnded \/ SecondEnded
        BY <1>1, <2>1, <2>3, EndRefines
    <2> QED  BY <2>1, <2>2, <2>3 DEF HelperStep
<1>4. CASE TakeReply
    <2>1. call.phase = "reply" /\ call'.phase = "none" /\ be' = be
        BY <1>4 DEF TakeReply, NoCall
    <2>2. ~Serving /\ ~Serving' /\ Command' = Command
        BY <2>1, NotServing DEF Serving
    <2>3. ServingInv'
        BY <1>1, <2>1, <2>2 DEF ServingInv
    <2> QED  BY <2>1, <2>2, <2>3 DEF F!fvars
<1>5. CASE UNCHANGED vars
    <2>1. be' = be /\ py' = py /\ call' = call /\ began' = began
        BY <1>5 DEF vars
    <2>2. ServingInv'
        BY <1>1, <2>1 DEF ServingInv, Serving
    <2>3. Command' = Command /\ (Serving /\ began.enabled)' = (Serving /\ began.enabled)
        BY <2>1 DEF Command, Serving
    <2> QED  BY <2>1, <2>2, <2>3 DEF F!fvars
<1> QED  BY <1>2, <1>3, <1>4, <1>5 DEF Next

\* The helpers implement the abstract firewall for any rules, settings,
\* arguments, faults and kills: one command at a time, no change without one,
\* none in what the command is not about, and nothing but setStatus(true)
\* enables (Helper::run, main() of kcm_ufw_helper.py).
THEOREM HelpersImplementFirewall == Spec => ImplementsFirewall
<1>1. Init => ServingInv /\ F!Init
    <2> SUFFICES ASSUME Init PROVE ServingInv /\ F!Init
        OBVIOUS
    <2>1. EnableInv /\ call.phase = "none"
        BY EnableInductive, PyHelperAssumption, StoreCallsAssumption DEF Init, NoCall
    <2>2. ~Serving
        BY <2>1 DEF Serving
    <2>3. ServingInv
        BY <2>1, <2>2 DEF ServingInv
    <2> QED  BY <2>2, <2>3, NotServing DEF F!Init
<1>2. ServingInv /\ [Next]_vars => ServingInv' /\ [F!Next]_(F!fvars)
    BY StepRefines, PyHelperAssumption, StoreCallsAssumption
<1> QED  BY <1>1, <1>2, PTL DEF Spec, ImplementsFirewall, F!Spec
====
