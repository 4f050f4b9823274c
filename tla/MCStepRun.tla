--------------------------- MODULE MCStepRun ---------------------------
(* A small instance of the step run for TLC: runs of one and two steps    *)
(* that share the session, and lists that hold a line of each refusal.    *)
EXTENDS StepRun

MCLists ==
  {<<"enable", "wait", "wait">>, <<"wait", "poll">>, <<"wait", "tool">>, <<"press">>, <<"enable", "disable">>, <<"input">>,
   <<"method", "wait">>, <<"poll", "method">>}
  \union {<<"tool", bad>> : bad \in Lines \ Runnable}

(* What the run document says is what was done: a refused list reached    *)
(* nothing, every step that was reached is told, and the status names     *)
(* what ended the run (step_run.run_steps, step_list.parse).              *)
RunIsTold == TypeOK /\ RefusedRunsNothing /\ NeverEndsTheirs /\ ReachedIsTold /\ StatusIsTrue

(* The session is given back as it was found: the clean-up shares one     *)
(* grace, a domain the run enabled is disabled and one the caller had is  *)
(* not, and an answer to a dialog in flight lands.                        *)
SessionIsGivenBack == CleanupSharesGrace /\ DomainsAreRestored /\ TheirsStaysOn /\ InFlightLands

(* The run ends although every step may open dialogs, and its document    *)
(* then lists every dialog with its end (DialogPolicy.document).          *)
RunEnds == Ends /\ DocumentIsWhole

=======================================================================
