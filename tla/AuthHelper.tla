---- MODULE AuthHelper ----
(***************************************************************************)
(* The privileged helper (helper/helper.cpp): it turns one authorised call *)
(* into one run of the Python helper that changes the firewall and, when   *)
(* that run did not fail, a second run that reads back what the caller     *)
(* shows.  KAuth serves one call at a time.                                *)
(*                                                                         *)
(* Whether QProcess started and finished is not looked at: a process that  *)
(* was killed has exit code 0 and no output, which the helper reports as   *)
(* success.                                                                *)
(***************************************************************************)
EXTENDS PyHelper

VARIABLES
    call    \* the call being served

authVars == <<be, py, faults, kills, call>>

NoCall == [phase |-> "none", cmd |-> "none", arg |-> 0, ok |-> FALSE, parts |-> {}]

Phases == {"none", "first", "second", "reply"}

Cmds == {"query", "setStatus", "setDefaults", "setModules", "setProfile", "addRules",
         "removeRule", "moveRule", "editRule", "reset"}

Opt(name, arg) == [name |-> name, arg |-> arg]
Queries(parts) == [i \in DOMAIN parts |-> Opt(parts[i], 0)]
Adds(rules)    == [i \in DOMAIN rules |-> Opt("add", rules[i])]

EveryPart == <<"status", "defaults", "list", "modules">>

\* setProfile: rules first, then defaults, then modules, each if present.
ProfileOpts(p) ==
    (IF "rules" \in DOMAIN p THEN <<Opt("clear", 0)>> \o Adds(p.rules) ELSE <<>>)
    \o (IF "defaults" \in DOMAIN p THEN <<Opt("setDefaults", p.defaults)>> ELSE <<>>)
    \o (IF "modules" \in DOMAIN p THEN <<Opt("setModules", p.modules)>> ELSE <<>>)

\* The command line of the run that changes the firewall ...
FirstOpts(cmd, arg) ==
    CASE cmd = "setStatus"   -> <<Opt("setEnabled", arg)>>
      [] cmd = "setDefaults" -> <<Opt("setDefaults", arg)>>
      [] cmd = "setModules"  -> <<Opt("setModules", arg)>>
      [] cmd = "setProfile"  -> ProfileOpts(arg)
      [] cmd = "addRules"    -> Adds(arg)
      [] cmd = "removeRule"  -> <<Opt("remove", arg)>>
      [] cmd = "moveRule"    -> <<Opt("move", arg)>>
      [] cmd = "editRule"    -> <<Opt("update", arg)>>
      [] cmd = "reset"       -> <<Opt("reset", 0)>>

\* Defect for SecondParts: reset only reads the settings back.
MResetReadsSettings(cmd, arg) ==
    CASE cmd = "query"       -> EveryPart
      [] cmd = "setStatus"   -> <<"status">>
      [] cmd = "setDefaults" -> <<"defaults", "list">>
      [] cmd = "setModules"  -> <<"modules">>
      [] cmd = "setProfile"  -> EveryPart
      [] cmd = "reset"       -> <<"defaults", "list", "modules">>
      [] OTHER               -> <<"list">>

\* ... and of the run that reads it back.
SecondParts(cmd, arg) ==
    CASE cmd = "query"       -> IF arg THEN EveryPart ELSE <<"status", "list">>
      [] cmd = "setStatus"   -> <<"status">>
      [] cmd = "setDefaults" -> <<"defaults">> \o IF "ipv6" \in DOMAIN arg THEN <<"list">> ELSE <<>>
      [] cmd = "setModules"  -> <<"modules">>
      [] cmd \in {"setProfile", "reset"} -> EveryPart
      [] OTHER               -> <<"list">>

SecondRun == Process(Queries(SecondParts(call.cmd, call.arg)))

Replied(ok, parts) == [call EXCEPT !.phase = "reply", !.ok = ok, !.parts = parts]

\* A client's call arrives: query has one run only, and a command without
\* anything to do is refused as invalid.
Submit(cmd, arg) ==
    LET request == [NoCall EXCEPT !.cmd = cmd, !.arg = arg]
    IN  IF cmd = "query"
        THEN /\ call' = [request EXCEPT !.phase = "second"]
             /\ py' = Process(Queries(SecondParts(cmd, arg)))
        ELSE IF FirstOpts(cmd, arg) = <<>>
        THEN /\ call' = [request EXCEPT !.phase = "reply"]
             /\ UNCHANGED py
        ELSE /\ call' = [request EXCEPT !.phase = "first"]
             /\ py' = Process(FirstOpts(cmd, arg))

\* Defect for FirstEnded: a process that was killed is waited for.
MWaitsForExit ==
    /\ call.phase = "first"
    /\ \/ /\ py.state = "exited"
          /\ py' = SecondRun
          /\ call' = [call EXCEPT !.phase = "second"]
       \/ /\ py.state = "failed"
          /\ py' = NoProc
          /\ call' = Replied(FALSE, {})
    /\ UNCHANGED <<be, faults, kills>>

\* run(args, second, cmd): the second run follows unless the first failed.
FirstEnded ==
    /\ call.phase = "first"
    /\ \/ /\ py.state \in {"exited", "killed"}
          /\ py' = SecondRun
          /\ call' = [call EXCEPT !.phase = "second"]
       \/ /\ py.state = "failed"
          /\ py' = NoProc
          /\ call' = Replied(FALSE, {})
    /\ UNCHANGED <<be, faults, kills>>

SecondEnded ==
    /\ call.phase = "second"
    /\ py.state \in {"exited", "killed", "failed"}
    /\ py' = NoProc
    /\ call' = Replied(py.state # "failed", py.out)
    /\ UNCHANGED <<be, faults, kills>>

HelperStep ==
    \/ PyStep /\ UNCHANGED call
    \/ Kill /\ UNCHANGED call
    \/ FirstEnded
    \/ SecondEnded
====
