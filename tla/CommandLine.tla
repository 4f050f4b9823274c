--------------------------- MODULE CommandLine --------------------------
(* One invocation, from its arguments to its exit code: which tokens name *)
(* an instance, which flags name another browser, what is refused, and    *)
(* which browser is driven. The registry is read anew at every step that  *)
(* asks it, and other commands change it in between.                      *)
EXTENDS Naturals, FiniteSets

CONSTANT MaxChanges   \* bound: how often the registry changes meanwhile

ASSUME CommandLineAssumption == MaxChanges \in Nat

Names == {"a", "b"}   \* the names that may be registered; "c" never is

VARIABLES
  known,     \* the registered names
  changes,   \* how often they have changed
  inv,       \* the invocation
  stage,     \* where main is
  instance,  \* the instance that was named, or "none"
  address,   \* what is to be driven: "typed", "found", a name, or "none"
  alone,     \* the only registered name, if that decided
  dialed,    \* what was driven
  exit       \* the exit code, 3 while there is none

registryVars == <<known, changes>>
cliVars == <<registryVars, inv, stage, instance, address, alone, dialed, exit>>

------------------------------------------------------------------------
(* The invocations. "stop" stands for the verbs of the registry, "type"   *)
(* for itself, since its operand may be text, and "page" for every other  *)
(* verb of a page. A flag is spelled as the scan of the arguments looks   *)
(* for it, or as a prefix of it, which only argparse understands.         *)
RegistryVerbs == {"stop"}
PageVerbs == {"page", "type"}
TakesEndpoint(verb) == verb \in PageVerbs \cup {"help"}
Spellings == {"no", "flag", "prefix"}

Invocations ==
  [lead : {"none", "a", "c"}, verb : RegistryVerbs \cup PageVerbs \cup {"help", "login", "raw"},
   inline : {"none", "a", "b"}, endpoint : Spellings, chrome : Spellings,
   twice : BOOLEAN, whole : BOOLEAN, method : {"plain", "focus", "lifetime", "params"}]

(* What each verb can be given: the raw line has a method and nothing that *)
(* argparse checks; "twice" is --target with --url.                       *)
Sensible(i) ==
  /\ IF i.verb = "raw" THEN i.inline = "none" /\ i.whole ELSE i.method = "plain"
  /\ i.twice => i.verb \in PageVerbs \cup {"raw"}

(* What the parser of the invocation makes of a flag.                     *)
Seen(spelling) == spelling = "flag" \/ (spelling = "prefix" /\ inv.verb # "raw")

------------------------------------------------------------------------
CliTypeOK ==
  /\ known \subseteq Names /\ changes \in 0..MaxChanges /\ inv \in Invocations
  /\ stage \in {"argv", "split", "head", "raw", "slots", "send", "parse", "select", "operands",
                "check", "discover", "resolve", "lookup", "guard", "work", "help", "dial",
                "driving", "done"}
  /\ instance \in Names \cup {"none"} /\ address \in Names \cup {"typed", "found", "none"}
  /\ alone \in Names \cup {"none"} /\ dialed \in Names \cup {"typed", "found", "none"}
  /\ exit \in 0..3

CliInit ==
  /\ known \in SUBSET Names /\ changes = 0 /\ inv \in {i \in Invocations : Sensible(i)}
  /\ stage = "argv" /\ instance = "none" /\ address = "none" /\ alone = "none"
  /\ dialed = "none" /\ exit = 3

(* Another command launches or retires instances.                         *)
Change ==
  /\ stage # "done" /\ changes < MaxChanges /\ changes' = changes + 1
  /\ known' \in SUBSET Names \ {known}
  /\ UNCHANGED <<inv, stage, instance, address, alone, dialed, exit>>

Goto(s) == stage' = s
Keep == UNCHANGED <<registryVars, inv, instance, address, alone, dialed, exit>>
Exits(code) ==
  /\ exit' = code /\ Goto("done")
  /\ UNCHANGED <<registryVars, inv, instance, address, alone, dialed>>
Refuse == Exits(2)

------------------------------------------------------------------------
(* main, before any parser: what cannot be meant is refused; then a first *)
(* token that is no verb is looked up, once as the instance of a verb and *)
(* once more as the head of the raw line.                                 *)
Misused ==
  /\ inv.verb \in RegistryVerbs
  /\ inv.chrome = "flag" \/ (inv.endpoint = "flag" /\ inv.lead = "none")
ReadArgv ==
  /\ stage = "argv"
  /\ IF Misused THEN Refuse
     ELSE Goto(IF inv.lead = "none" /\ inv.verb # "raw" THEN "parse" ELSE "split") /\ Keep

SplitLeading ==
  /\ stage = "split"
  /\ IF inv.verb # "raw" /\ inv.lead \in known
     THEN /\ instance' = inv.lead /\ Goto("parse")
          /\ UNCHANGED <<registryVars, inv, address, alone, dialed, exit>>
     ELSE Goto("head") /\ Keep

PassthroughHead ==
  /\ stage = "head"
  /\ IF inv.lead \in known \cup {"none"} THEN Goto("raw") /\ Keep ELSE Refuse

(* The raw line. Its flags are taken out wherever they stand; discovery   *)
(* reaches out only for a line whose method is not refused anyway.        *)
ExtractFlags ==
  /\ stage = "raw"
  /\ IF inv.chrome = "flag" /\ (inv.endpoint = "flag" \/ inv.method = "lifetime") THEN Refuse
     ELSE /\ Goto(IF inv.chrome = "flag" THEN "discover" ELSE "slots")
          /\ address' = IF inv.endpoint = "flag" THEN "typed" ELSE address
          /\ UNCHANGED <<registryVars, inv, instance, alone, dialed, exit>>

ResolveArgs ==
  /\ stage = "slots"
  /\ IF inv.twice \/ inv.verb # "raw" \/ inv.lead \notin known \cup {"none"} THEN Refuse
     ELSE /\ instance' = inv.lead /\ Goto("send")
          /\ UNCHANGED <<registryVars, inv, address, alone, dialed, exit>>

(* Browser.close and Browser.crash are for browsers the tool owns.        *)
EndsABrowser == inv.method = "lifetime" /\ address \in {"typed", "found"}
Send == stage = "send" /\ IF EndsABrowser THEN Refuse ELSE Goto("resolve") /\ Keep

TakesTheScreen == inv.method = "focus"
GuardFocus ==
  /\ stage = "guard"
  /\ IF TakesTheScreen \/ inv.method = "params" THEN Refuse ELSE Goto("dial") /\ Keep

------------------------------------------------------------------------
(* argparse: a verb that takes no endpoint refuses the flags it is shown, *)
(* and the two that name a browser exclude each other, but the profile    *)
(* flag that main has taken out is not shown.                             *)
NamedTwice == instance # "none" /\ inv.inline # "none"
Parse ==
  /\ stage = "parse"
  /\ IF \/ ~TakesEndpoint(inv.verb) /\ (inv.endpoint # "no" \/ inv.chrome = "prefix")
        \/ inv.endpoint # "no" /\ inv.chrome = "prefix"
        \/ NamedTwice
     THEN Refuse ELSE Goto("select") /\ Keep

(* Fault: the endpoint is looked for by its spelling only.                *)
BothBySpelling == inv.endpoint = "flag"
BothNamed == inv.endpoint # "no"

SelectProfile ==
  /\ stage = "select"
  /\ IF inv.chrome # "no" /\ (~TakesEndpoint(inv.verb) \/ BothNamed) THEN Refuse
     ELSE /\ Goto(IF inv.chrome # "no" THEN "discover" ELSE "operands")
          /\ address' = IF inv.endpoint # "no" THEN "typed" ELSE address
          /\ UNCHANGED <<registryVars, inv, instance, alone, dialed, exit>>

(* discover_chrome returns, or refuses. It replaces whatever was typed.   *)
OnRawLine == inv.verb = "raw" \/ (inv.lead # "none" /\ instance = "none")
Discovered(found) ==
  /\ stage = "discover"
  /\ IF ~found THEN Refuse
     ELSE /\ address' = "found" /\ Goto(IF OnRawLine THEN "slots" ELSE "operands")
          /\ UNCHANGED <<registryVars, inv, instance, alone, dialed, exit>>

(* The one operand of type --file is an instance if the registry knows    *)
(* it, and text otherwise, which --file excludes.                         *)
Operands ==
  /\ stage = "operands"
  /\ IF inv.verb = "type" /\ inv.inline \notin known \cup {"none"} THEN Refuse
     ELSE /\ instance' = IF inv.inline # "none" THEN inv.inline ELSE instance
          /\ Goto("check")
          /\ UNCHANGED <<registryVars, inv, address, alone, dialed, exit>>

CheckPreconditions ==
  /\ stage = "check"
  /\ IF inv.twice \/ ~inv.whole THEN Refuse
     ELSE /\ Goto(CASE inv.verb \in RegistryVerbs -> "work"
                    [] inv.verb = "help" -> "help" [] OTHER -> "resolve")
          /\ Keep

------------------------------------------------------------------------
(* resolve_cdp_port: a browser that was named by its address is not       *)
(* looked up; an instance that was not named must be the only one.        *)
Resolved == Goto(IF inv.verb = "raw" THEN "guard" ELSE "dial")
ResolvePort ==
  /\ stage = "resolve"
  /\ IF address # "none" THEN Resolved /\ Keep
     ELSE IF instance # "none" THEN Goto("lookup") /\ Keep
     ELSE IF Cardinality(known) # 1 THEN Exits(1)
     ELSE /\ alone' \in known /\ instance' = alone' /\ Goto("lookup")
          /\ UNCHANGED <<registryVars, inv, address, dialed, exit>>
Lookup ==
  /\ stage = "lookup"
  /\ IF instance \notin known THEN Exits(1)
     ELSE /\ address' = instance /\ Resolved
          /\ UNCHANGED <<registryVars, inv, instance, alone, dialed, exit>>

(* The verb's own work: on the registry, on a browser's schema over HTTP, *)
(* or on a page.                                                          *)
Work == stage = "work" /\ \E code \in {0, 1} : Exits(code)
RunHelp == stage = "help" /\ \E code \in {0, 1, 2} : Exits(code)
Dial ==
  /\ stage = "dial" /\ dialed' = address /\ Goto("driving")
  /\ UNCHANGED <<registryVars, inv, instance, address, alone, exit>>
Driven(well) == stage = "driving" /\ Exits(IF well THEN 0 ELSE 1)

CliStep ==
  \/ ReadArgv \/ SplitLeading \/ PassthroughHead \/ ExtractFlags \/ ResolveArgs \/ Send
  \/ GuardFocus \/ Parse \/ SelectProfile \/ Operands \/ CheckPreconditions \/ ResolvePort
  \/ Lookup \/ Work \/ RunHelp \/ Dial

------------------------------------------------------------------------
(* An invocation that is refused has driven nothing, and one that cannot  *)
(* be meant is never driven (usage.UsageError, check_preconditions).      *)
RefusedDrivesNothing ==
  /\ exit = 2 => dialed = "none"
  /\ dialed # "none" => /\ inv.whole /\ ~inv.twice /\ ~(Seen(inv.endpoint) /\ Seen(inv.chrome))
                        /\ inv.lead # "none" => inv.inline = "none"

(* The browser that is driven is the one that was named, or the only one  *)
(* there was; never another (main, resolve_cdp_port).                     *)
DrivesTheOneNamed ==
  dialed # "none" =>
    dialed = IF Seen(inv.endpoint) THEN "typed" ELSE IF Seen(inv.chrome) THEN "found"
             ELSE IF inv.lead # "none" THEN inv.lead
             ELSE IF inv.inline # "none" THEN inv.inline ELSE alone

(* No method takes the screen from the person at the machine, and none    *)
(* ends a browser the tool does not own (guard_focus,                     *)
(* refuse_browser_lifetime_method).                                       *)
SparesThePerson ==
  dialed # "none" => inv.method # "focus" /\ (inv.method = "lifetime" => dialed \in Names)
=======================================================================
