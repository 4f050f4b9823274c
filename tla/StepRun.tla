--------------------------- MODULE StepRun ---------------------------
(* A Step Run: the list is validated, one session is opened, and the steps *)
(* run on it in order under one deadline. A step is a call submitted to    *)
(* the runtime's loop: a coroutine of a few commands, and a wait for it    *)
(* that the deadline clamps. A dialog may open at any time; the domains    *)
(* the steps enable are state of the session they share.                   *)
EXTENDS StepList, DialogPolicy

CONSTANTS
  Lists,       \* the step lists tried
  Timeouts,    \* the run's timeouts: 0 is no deadline
  Own,         \* a wait step's own timeout
  Slack,       \* what submit adds to it
  Grace,       \* DEADLINE_GRACE_SECONDS
  Floor,       \* TEARDOWN_FLOOR_SECONDS
  MaxTime      \* bound: the clock

ASSUME StepRunAssumption ==
  /\ MaxTime \in Nat /\ Lists \subseteq Seq(Lines) /\ Timeouts \subseteq 0..MaxTime
  /\ {Own, Slack, Grace, Floor} \subseteq 1..MaxTime /\ Floor <= Grace

Never == MaxTime + 1

VARIABLES
  list,        \* the lines of the source
  timeout,     \* the run's timeout
  pc,          \* where the run is
  now,         \* the clock
  deadline, graceUntil,
  step,        \* the number of the step
  until,       \* when the caller's wait for its call ends
  late,        \* when the first call was submitted after the deadline
  co,          \* the coroutine on the loop: the phase it is in
  own,         \* the wait step's own deadline
  cut,         \* the coroutine has been cancelled
  raised,      \* what the call raised: "none", "error", "timeout", "own"
  entries,     \* the statuses of the entries of the run document
  status, completed,
  reached,     \* the steps that have sent something
  caller,      \* domains a raw step turned on by hand
  theirs,      \* Log is on because a raw step asked for it
  on,          \* Log is enabled on the session
  mine         \* the coroutine has to turn it off again

time == <<now, deadline, graceUntil, until, late>>
coroutine == <<co, own, cut, mine>>
report == <<entries, status, completed>>
domains == <<caller, theirs, on>>
rest == <<list, timeout, reached>>
vars == <<dialogVars, time, coroutine, report, domains, rest, pc, step, raised>>

Phases == {"none", "first", "probe", "start", "again", "visible", "send", "enable", "window", "disable", "over"}
StepStatus == {"ok", "failed", "timeout"}

TypeOK ==
  /\ DialogTypeOK
  /\ list \in Lists /\ timeout \in Timeouts /\ now \in 0..MaxTime
  /\ {deadline, until, own, late} \subseteq 0..Never /\ graceUntil \in 0..(Never + Grace)
  /\ pc \in {"start", "refused", "loop", "call", "entry", "document", "teardown", "ended"}
  /\ step \in 1..Len(list) + 1 /\ co \in Phases
  /\ raised \in {"none", "error", "timeout", "own"}
  /\ entries \in Seq(StepStatus) /\ Len(entries) <= Len(list)
  /\ status \in StepStatus /\ completed \in 0..Len(entries)
  /\ reached \subseteq 1..Len(list)
  /\ {caller, theirs, on, mine, cut} \subseteq BOOLEAN

Init ==
  /\ DialogInit /\ list \in Lists /\ timeout \in Timeouts
  /\ pc = "start" /\ now = 0 /\ deadline = Never /\ graceUntil = Never + Grace
  /\ until = Never /\ late = Never /\ step = 1
  /\ co = "none" /\ own = Never /\ cut = FALSE /\ mine = FALSE /\ raised = "none"
  /\ entries = <<>> /\ status = "ok" /\ completed = 0 /\ reached = {}
  /\ caller = FALSE /\ theirs = FALSE /\ on = FALSE

------------------------------------------------------------------------
(* validate comes before the session.                                     *)
Refuse ==
  /\ pc = "start" /\ ~Valid(list) /\ pc' = "refused"
  /\ UNCHANGED <<dialogVars, time, coroutine, report, domains, rest, step, raised>>

Begin ==
  /\ pc = "start" /\ Valid(list) /\ pc' = "loop"
  /\ deadline' = IF timeout = 0 THEN Never ELSE now + timeout
  /\ UNCHANGED <<dialogVars, now, graceUntil, until, late, coroutine, report, domains, rest,
                 step, raised>>

(* bounded_timeout: the smaller of two waits, and one grace after it.     *)
(* Fault: every call that comes late gets a grace of its own.             *)
FreshGrace == now + Grace
OneGrace == IF graceUntil > MaxTime + Grace THEN now + Grace ELSE graceUntil

Overran == deadline # Never /\ now >= deadline

(* record_caller_enable: before the step looks for its session.           *)
TakesNote == caller \/ list[step] = "enable"

Least(S) == CHOOSE x \in S : \A y \in S : x <= y
Greatest(S) == CHOOSE x \in S : \A y \in S : y <= x

(* The caller waits for its coroutine until the bound.                    *)
Submits(timeoutAt) ==
  IF Overran
  THEN /\ graceUntil' = OneGrace
       /\ until' = Least({Never, Greatest({OneGrace, now + Floor})})
       /\ late' = Least({late, now})
  ELSE until' = Least({timeoutAt, deadline}) /\ UNCHANGED <<graceUntil, late>>

RunIsOver ==
  /\ pc = "loop"
  /\ \/ step > Len(list) /\ UNCHANGED status
     \/ step <= Len(list) /\ Overran /\ status' = "timeout"
  /\ pc' = "document" /\ deadline' = Never
  /\ UNCHANGED <<dialogVars, now, graceUntil, until, late, coroutine, entries, completed,
                 domains, rest, step, raised>>

StartStep ==
  /\ pc = "loop" /\ step <= Len(list) /\ ~Overran /\ pc' = "call" /\ co' = "first"
  /\ caller' = TakesNote
  /\ cut' = FALSE /\ mine' = FALSE /\ own' = Never /\ raised' = "none"
  /\ UNCHANGED <<dialogVars, time, report, theirs, on, rest, step>>

(* A step submits its first call: an input reads the page's visibility, a *)
(* capture starts. The second follows the look, or the local poll, which  *)
(* has no call in flight and clamps its own duration.                     *)
FirstCall ==
  CASE list[step] = "wait" -> "enable" [] list[step] = "input" -> "visible"
    [] list[step] = "press" -> "probe" [] list[step] = "poll" -> "start" [] OTHER -> "send"

Submit ==
  /\ pc = "call" /\ co \in {"first", "again"}
  /\ co' = IF co = "first" THEN FirstCall ELSE "send"
  /\ Submits(IF list[step] = "wait" /\ Own < MaxTime THEN Least({now + Own + Slack, Never}) ELSE Never)
  /\ reached' = reached \union {step}
  /\ UNCHANGED <<dialogVars, now, deadline, own, cut, mine, report, domains, list, timeout,
                 pc, step, raised>>

(* No session: the step fails before it sends.                            *)
NoSession ==
  /\ pc = "loop" /\ step <= Len(list) /\ ~Overran
  /\ pc' = "entry" /\ raised' = "error" /\ caller' = TakesNote
  /\ UNCHANGED <<dialogVars, time, coroutine, report, theirs, on, rest, step>>

------------------------------------------------------------------------
(* The coroutine. Script of the page does not run while a dialog shows.   *)
RunsScript == co \in {"probe", "visible", "send"} /\ list[step] \in {"tool", "press", "input"}
Answers == ~cut /\ (RunsScript => ~Showing)

(* A hidden tab refuses the input; a state that cannot be read does not.  *)
FirstAnswered ==
  /\ co \in {"probe", "start", "visible"} /\ Answers
  /\ \/ co' = (IF co = "visible" THEN "send" ELSE "again") /\ UNCHANGED raised
     \/ co' = "over" /\ raised' = "error"
  /\ UNCHANGED <<dialogVars, time, own, cut, mine, report, domains, rest, pc, step>>

(* The command is executed, or refused by the browser.                    *)
SendAnswered ==
  /\ co = "send" /\ Answers /\ co' = "over"
  /\ \/ /\ raised' = "none"
        /\ on' = CASE list[step] = "enable" -> TRUE [] list[step] = "disable" -> FALSE [] OTHER -> on
        /\ theirs' = CASE list[step] = "enable" -> TRUE [] list[step] = "disable" -> FALSE
                       [] OTHER -> theirs
     \/ raised' = "error" /\ UNCHANGED <<on, theirs>>
  /\ UNCHANGED <<dialogVars, time, own, cut, mine, report, caller, rest, pc, step>>

(* domains_enabled: what it turns on, and has to turn off.                *)
Undoes == ~caller

Enabled ==
  /\ co = "enable" /\ ~cut /\ co' = "window"
  /\ \/ on' = TRUE /\ mine' = Undoes
     \/ UNCHANGED on /\ mine' = FALSE
  /\ own' = IF Own < MaxTime THEN Least({now + Own, Never}) ELSE Never
  /\ UNCHANGED <<dialogVars, time, cut, report, caller, theirs, rest, pc, step, raised>>

(* The end of the body, by its event, its own deadline or a cancellation. *)
Leaves(how) == IF mine THEN "disable" ELSE "over"

WindowEnds ==
  /\ co = "window" /\ ~cut
  /\ \E how \in {"none", "own"} :
        /\ how = "own" => now >= own
        /\ raised' = how /\ co' = Leaves(how)
  /\ UNCHANGED <<dialogVars, time, own, cut, mine, report, domains, rest, pc, step>>

Disabled ==
  /\ co = "disable" /\ co' = "over"
  /\ on' = FALSE
  /\ UNCHANGED <<dialogVars, time, own, cut, mine, report, caller, theirs, rest, pc, step, raised>>

(* A cancelled coroutine: what it had sent may or may not be executed.    *)
CutShort ==
  /\ cut /\ co \in {"start", "visible", "send", "enable", "window"}
  /\ co' = IF co = "window" THEN Leaves("cut") ELSE "over"
  /\ on' \in (IF co = "enable" \/ (co = "send" /\ list[step] = "enable") THEN {on, TRUE} ELSE {on})
  /\ UNCHANGED <<dialogVars, time, own, cut, mine, report, caller, theirs, rest, pc, step, raised>>

------------------------------------------------------------------------
(* The caller: the call returned or raised, or its bound has passed.      *)
Returns ==
  /\ pc = "call" /\ co = "over" /\ pc' = "entry"
  /\ UNCHANGED <<dialogVars, time, coroutine, report, domains, rest, step, raised>>

BoundPasses ==
  /\ pc = "call" /\ co \notin {"over", "probe"} /\ now >= until
  /\ cut' = TRUE /\ raised' = "timeout" /\ pc' = "entry"
  /\ UNCHANGED <<dialogVars, time, co, own, mine, report, domains, rest, step>>

(* A visibility that is not read in time is unknown, and the input goes   *)
(* on, after the deadline as well.                                        *)
Unreadable ==
  /\ pc = "call" /\ co = "probe" /\ now >= until /\ co' = "again"
  /\ until' = Never
  /\ UNCHANGED <<dialogVars, now, deadline, graceUntil, late, own, cut, mine, report, domains,
                 rest, pc, step, raised>>

(* The entry of a step that raised: the clock tells a timeout of the run  *)
(* from a failure, except for a wait's own deadline.                      *)
(* Fault: every wait that ends after the deadline is the run's timeout.   *)
BlamesRunByClock == Overran
BlamesRun == Overran /\ raised # "own"

EntryOf == IF raised # "none" THEN (IF BlamesRun THEN "timeout" ELSE "failed")
           ELSE IF Overran THEN "timeout" ELSE "ok"

Enter ==
  /\ pc = "entry"
  /\ entries' = Append(entries, EntryOf)
  /\ IF EntryOf = "ok"
     THEN /\ completed' = completed + 1 /\ step' = step + 1 /\ pc' = "loop"
          /\ UNCHANGED <<status, deadline>>
     ELSE /\ status' = EntryOf /\ pc' = "document" /\ deadline' = Never
          /\ UNCHANGED <<completed, step>>
  /\ until' = Never
  /\ UNCHANGED <<dialogVars, now, graceUntil, late, coroutine, domains, rest, raised>>

(* The dialog document, and the teardown that follows it.                 *)
StartDocument ==
  /\ pc = "document" /\ Collect
  /\ UNCHANGED <<time, coroutine, report, domains, rest, pc, step, raised>>
DocumentDone ==
  /\ pc = "document" /\ drain = "done" /\ Disconnect /\ pc' = "teardown"
  /\ UNCHANGED <<time, coroutine, report, domains, rest, step, raised>>
Ended ==
  /\ pc = "teardown" /\ closing \in {"done", "cut"} /\ pc' = "ended"
  /\ UNCHANGED <<dialogVars, time, coroutine, report, domains, rest, step, raised>>

DialogStep ==
  /\ \/ pc \notin {"start", "refused", "ended"} /\ Opens
     \/ \E i \in 1..Len(dialogs) : Vanishes(i) \/ AnswerSends(i) \/ AnswerLands(i)
     \/ LoopHead \/ Gathered \/ SettleEnds \/ CloseEnds(TRUE) \/ CloseEnds(FALSE)
  /\ UNCHANGED <<time, coroutine, report, domains, rest, pc, step, raised>>

(* Time passes while a call is waited for, never past the caller's bound, *)
(* and between two calls up to the deadline.                              *)
Tick ==
  /\ pc = "call" /\ now < MaxTime /\ now < until /\ now' = now + 1
  /\ co \in {"first", "again"} => now < deadline
  /\ UNCHANGED <<dialogVars, deadline, graceUntil, until, late, coroutine, report, domains, rest,
                 pc, step, raised>>

------------------------------------------------------------------------
LoopRuns == FirstAnswered \/ SendAnswered \/ Enabled \/ WindowEnds \/ Disabled \/ CutShort
CallerRuns == Refuse \/ Begin \/ RunIsOver \/ StartStep \/ NoSession \/ Submit \/ Unreadable \/ Returns
              \/ BoundPasses \/ Enter \/ StartDocument \/ DocumentDone \/ Ended
Next == LoopRuns \/ CallerRuns \/ DialogStep \/ Tick

(* The threads run, the browser answers what it can run, and time passes. *)
DialogRuns ==
  /\ \/ \E i \in 1..Len(dialogs) : AnswerSends(i) \/ AnswerLands(i)
     \/ due /\ pc \notin {"start", "refused", "ended"} /\ Opens
     \/ LoopHead \/ Gathered \/ SettleEnds \/ CloseEnds(FALSE)
  /\ UNCHANGED <<time, coroutine, report, domains, rest, pc, step, raised>>
Fairness == WF_vars(LoopRuns) /\ WF_vars(CallerRuns) /\ WF_vars(DialogRuns) /\ WF_vars(Tick)
Spec == Init /\ [][Next]_vars /\ Fairness

------------------------------------------------------------------------
(* A list with a line that cannot be a step runs nothing of itself: the   *)
(* browser is untouched (step_list, "Validation, before any step runs").  *)
RefusedRunsNothing == (\E i \in 1..Len(list) : ~IsStep(list[i])) => reached = {} /\ entries = <<>>

(* Nor does a run on a browser that is not ours end it, or take the       *)
(* screen: what reached the browser is never such a method.               *)
NeverEndsTheirs == External => \A i \in reached : list[i] \notin EndsBrowser

(* The run document tells what reached the browser: once a run is over,   *)
(* each step that sent something has its entry, in order.                 *)
ReachedIsTold ==
  pc \in {"document", "teardown", "ended"} => \A i \in reached : i <= Len(entries)

(* The status is the truth: ok when every step is, and each in time;      *)
(* timeout only when the deadline cut the run short, never for a wait's   *)
(* own deadline.                                                          *)
StatusIsTrue ==
  pc \in {"document", "teardown", "ended"} =>
    /\ status = "ok" <=> completed = Len(list)
    /\ status = "ok" => \A i \in 1..Len(entries) : entries[i] = "ok"
    /\ status = "timeout" => timeout # 0 /\ now >= timeout /\ (completed < Len(entries) => raised # "own")
    /\ status = "failed" => raised = "own" \/ timeout = 0 \/ now < timeout

(* Whatever a step does after the deadline to clean up shares one grace:  *)
(* a call ends within it, but for the floor that no call goes below.      *)
CleanupSharesGrace ==
  pc = "call" /\ late < Never => now <= late + Grace + Floor

(* The session is left as it was found, by a step that fails as well: Log *)
(* is on after a step only when a raw step asked for it, unless the step  *)
(* was cut short and is still unwinding (domains_enabled).                *)
DomainsAreRestored == pc \in {"loop", "document"} /\ ~cut /\ on => caller

(* What a raw step turned on stays on until a raw step turns it off.      *)
TheirsStaysOn == theirs /\ pc = "loop" => on

(* A run ends, with or without a deadline: no dialog stops it for ever.   *)
Ends == <>(pc \in {"refused", "ended"})
=======================================================================
