--------------------------- MODULE StepList ---------------------------
(* A Step List and its validation: every line is classified, and one line  *)
(* that cannot be a step refuses the list before a session is opened.      *)
EXTENDS Naturals, Sequences, SequencesExt, FiniteSets

CONSTANT External    \* the run drives a browser named by --endpoint

(* What a line's first word, flags and method can be. A curated verb is   *)
(* one of its ways of using the session: a wait window, a tool call, an   *)
(* input after a look at the page, a capture that is polled locally. A    *)
(* raw method is the enable or disable of a domain, input   *)
(* to the page, or another.                                               *)
Curated == {"wait", "tool", "press", "poll"}
Raw == {"enable", "disable", "input", "method"}
Runnable == Curated \union Raw

(* What validate refuses, each by its own rule.                           *)
NamesInstance == {"instance", "verb_with_instance"}
Excluded == {"launch", "attach", "nested_run"}
Retargets == {"verb_with_target", "method_with_target"}
OwnedDisable == {"Page.disable", "Runtime.disable", "Network.disable"}
TakesFocus == {"Target.activateTarget", "createTarget_foreground"}
Malformed == {"unknown", "bad_flag", "asks_help", "bad_json", "extra_operand"}
EndsBrowser == {"Browser.close", "Browser.crash"}

RefusesLifetime(line) == External /\ line \in EndsBrowser

RefusesMethod(line) ==
  \/ line \in OwnedDisable \union {"Target.setAutoAttach"} \union TakesFocus
  \/ RefusesLifetime(line)

IsStep(line) ==
  /\ line \notin NamesInstance \union Excluded \union Retargets \union Malformed
  /\ ~RefusesMethod(line)

Valid(lines) == lines # <<>> /\ \A i \in 1..Len(lines) : IsStep(lines[i])

Lines == Runnable \union NamesInstance \union Excluded \union Retargets
         \union OwnedDisable \union TakesFocus \union Malformed \union EndsBrowser
         \union {"Target.setAutoAttach"}
=======================================================================
