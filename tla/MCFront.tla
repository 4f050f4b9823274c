----------------------------- MODULE MCFront ----------------------------
EXTENDS CommandLine, ExternalBrowser, StopProcess, ProfileMove, Provision,
        CamoufoxHost

VARIABLE does   \* what the run is about; the rest keeps still

vars == <<does, cliVars, extVars, stopVars, moveVars, provisionVars, camoufoxVars>>

Plain == [lead |-> "none", verb |-> "page", inline |-> "none", endpoint |-> "no", chrome |-> "no",
          twice |-> FALSE, whole |-> TRUE, method |-> "plain"]
External == {[Plain EXCEPT !.verb = v, ![n] = "flag"] : v \in {"page", "raw"}, n \in {"endpoint", "chrome"}}

Init ==
  /\ does \in {"command", "external", "stop", "move", "registration", "engine", "camoufox"}
  /\ IF does \in {"command", "external"} THEN CliInit
     ELSE CliInit /\ inv = Plain /\ known = {}
  /\ IF does = "external"
     THEN ExtInit /\ inv \in External /\ known = {"a"} /\ (via = "profile" <=> inv.chrome = "flag")
     ELSE ExtInit /\ file = 1 /\ via = "ws" /\ at = [f \in Families |-> None] /\ family = "v4"
  /\ StopInit /\ (does # "stop" => proc = [p \in Pids |-> "absent"] /\ doing = "scan")
  /\ MoveInit /\ (does # "move" => root["old"].there)
  /\ ProvisionInit /\ CamoufoxInit /\ (does # "camoufox" => ~sentinel)
  /\ does # "registration" => source = "missing" /\ target = "none"
  /\ does # "engine" => tree = {} /\ ~marker

Still == UNCHANGED <<cliVars, extVars>>
Idle == UNCHANGED <<stopVars, moveVars, provisionVars, camoufoxVars>>

Alone == CliStep \/ Change \/ (\E b \in BOOLEAN : Discovered(b) \/ Driven(b))

(* discover_chrome is called by main, the connection by the verb.         *)
Handed ==
  \/ stage = "discover" /\ StartsDiscovery /\ UNCHANGED cliVars
  \/ step \in {"found", "refused"} /\ Discovered(step = "found") /\ UNCHANGED extVars
  \/ stage = "driving" /\ (StartsTyped \/ Connect) /\ UNCHANGED cliVars
  \/ step \in {"failed", "answered"} /\ Driven(step = "answered") /\ UNCHANGED extVars
  \/ CliStep /\ UNCHANGED extVars
  \/ ExtStep /\ UNCHANGED cliVars

External_Handed == does = "external" /\ Handed /\ Idle /\ UNCHANGED does

Next ==
  \/ External_Handed
  \/ /\ UNCHANGED does
     /\ \/ does = "command" /\ Alone /\ UNCHANGED extVars /\ Idle
        \/ does = "external" /\ stage # "done" /\ HostStep /\ UNCHANGED cliVars /\ Idle
        \/ does = "stop" /\ StopNext /\ Still /\ UNCHANGED <<moveVars, provisionVars, camoufoxVars>>
        \/ does = "move" /\ MoveNext /\ Still /\ UNCHANGED <<stopVars, provisionVars, camoufoxVars>>
        \/ /\ does = "registration" /\ Still /\ UNCHANGED <<stopVars, moveVars, camoufoxVars>>
           /\ RegistrationStep \/ OthersRegister \/ LaunchDies
        \/ does = "engine" /\ EngineStep /\ Still /\ UNCHANGED <<stopVars, moveVars, camoufoxVars>>
        \/ does = "camoufox" /\ CamoufoxNext /\ Still /\ UNCHANGED <<stopVars, moveVars, provisionVars>>

Spec == Init /\ [][Next]_vars /\ WF_vars(External_Handed)

------------------------------------------------------------------------
(* What an invocation drives is what it named, and what is refused drives *)
(* nothing (cli.main, check_preconditions, passthrough.send).             *)
InvocationIsHonest == CliTypeOK /\ RefusedDrivesNothing /\ DrivesTheOneNamed /\ SparesThePerson

(* A browser the tool does not own is dialled only where it has shown who *)
(* it is, and is left without a connection (external_browser_connection). *)
ExternalIsSafe == ExtTypeOK /\ DialsOnlyTheWriter /\ LeavesNoConnection

(* What the tool does to processes, profiles, registrations and packages  *)
(* survives whoever else is there and whoever dies (lifecycle,            *)
(* camoufox_runner, onepassword, insights).                               *)
HostIsKept ==
  /\ HarmsNobody /\ RetiresTheGone /\ ClosesThatTab
  /\ LoginSurvives /\ LaunchesWhole
  /\ KeepsRegistrations /\ EngineIsWhole /\ CamoufoxIsOne

(* An invocation on an external browser comes to its exit code, whatever  *)
(* becomes of the browser (ExternalClient.send, external_browser_connection). *)
Ends == does = "external" => <>(stage = "done")
=======================================================================
