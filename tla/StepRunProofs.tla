-------------------------- MODULE StepRunProofs --------------------------
(* What a run document says is what was done, and the session is given     *)
(* back, for every list, every timeout and any number of dialogs. The      *)
(* dialog policy and the run share no state but the session, and each has  *)
(* its part of the invariant.                                              *)
EXTENDS MCStepRun, TLAPS

(***************************************************************************)
(* The dialog policy.                                                      *)
(***************************************************************************)
TaskStates == TaskOver \cup {"opened", "sent", "unseen", "gone", "gone_sent"}

(* What document has collected is over, so an answer that lands while it   *)
(* looks is one it has yet to collect; only a close that was cut short     *)
(* leaves a task stuck.                                                    *)
Tasks == dialogs \in Seq(TaskStates) /\ Len(dialogs) <= MaxDialogs
Marks ==
  /\ due \in BOOLEAN /\ listening \in BOOLEAN /\ closed \in BOOLEAN
  /\ settled \in BOOLEAN /\ truncated \in BOOLEAN
  /\ drain \in {"none", "look", "gather", "settle", "done"}
  /\ closing \in {"none", "wait", "done", "cut"}
Counts == records \in 0..Len(dialogs) /\ upto \in 0..Len(dialogs)
CollectedIsOver == \A i \in 1..records : dialogs[i] \in TaskOver
SettledSawAll == settled /\ due => records < Len(dialogs)
DueFollows == due => Len(dialogs) > 0
StuckIsCut == closing # "cut" => \A i \in 1..Len(dialogs) : dialogs[i] # "stuck"

PolicyInv ==
  /\ Tasks /\ Marks /\ Counts /\ CollectedIsOver /\ SettledSawAll /\ DueFollows /\ StuckIsCut

(***************************************************************************)
(* The run.                                                                *)
(***************************************************************************)
Running == {"loop", "call", "entry"}
Reported == {"document", "teardown", "ended"}
Asking == {"probe", "start", "visible"}

Types ==
  /\ list \in Lists /\ timeout \in Timeouts /\ now \in 0..MaxTime
  /\ deadline \in 0..Never /\ until \in 0..Never /\ own \in 0..Never /\ late \in 0..Never
  /\ graceUntil \in 0..(Never + Grace)
  /\ pc \in {"start", "refused"} \cup Running \cup Reported
  /\ step \in 1..Len(list) + 1 /\ co \in Phases
  /\ raised \in {"none", "error", "timeout", "own"}
  /\ entries \in Seq(StepStatus) /\ status \in StepStatus
  /\ completed \in 0..Len(entries) /\ Len(entries) <= Len(list)
  /\ reached \subseteq 1..Len(list)
  /\ caller \in BOOLEAN /\ theirs \in BOOLEAN /\ on \in BOOLEAN
  /\ mine \in BOOLEAN /\ cut \in BOOLEAN

(* The run's own deadline, while it runs.                                  *)
DeadlineStands ==
  /\ pc \in {"start", "refused"} => now = 0
  /\ pc \in Running => deadline = IF timeout = 0 THEN Never ELSE timeout
  /\ pc \notin Running => deadline = Never

(* A list that is refused runs nothing; what runs is valid.                *)
OnlyValidRuns ==
  /\ pc \in {"start", "refused"} => reached = {} /\ entries = <<>>
  /\ pc \notin {"start", "refused"} => Valid(list)

(* Between two steps every step behind is entered, and went well.          *)
StepsAreEntered ==
  /\ pc \in {"start"} \cup Running =>
       /\ step = Len(entries) + 1 /\ completed = Len(entries) /\ status = "ok"
       /\ \A i \in 1..Len(entries) : entries[i] = "ok"
  /\ pc \in {"call", "entry"} => step <= Len(list)
  /\ pc = "loop" => \A i \in reached : i < step
  /\ pc \in {"call", "entry"} => \A i \in reached : i <= step
  /\ pc \in Reported => (\A i \in reached : i <= Len(entries)) /\ StatusIsTrue

(* The coroutine of a step ends before the caller goes on, or it has been  *)
(* cancelled, and then no other step follows.                              *)
CoroutineIsOwned ==
  /\ pc \in {"start", "refused", "loop"} => ~cut /\ co \in {"none", "over"}
  /\ pc = "call" => ~cut /\ co # "none"
  /\ pc = "entry" => (IF cut THEN raised = "timeout" ELSE co \in {"none", "over"})
  /\ pc \in Reported => cut \/ co \in {"none", "over"}

(* Nobody turns the domain on without either the caller's word for it or   *)
(* the duty to turn it off.                                                *)
DomainsAreOwned ==
  /\ on /\ ~caller /\ ~cut => mine /\ co \in {"window", "disable"}
  /\ co = "disable" => mine
  /\ co \in {"window", "disable"} /\ mine => ~caller
  /\ theirs => on /\ caller
  /\ pc = "call" /\ list[step] = "enable" => caller

(* The first call that came late fixed the grace, and no step follows it.  *)
GraceIsOne ==
  /\ late = Never => graceUntil = Never + Grace
  /\ late < Never =>
       /\ graceUntil = late + Grace /\ late <= now
       /\ pc \in {"call", "entry"} \cup Reported
       /\ pc \in {"call", "entry"} => deadline <= late
       /\ pc = "call" =>
            /\ co # "first" /\ now <= late + Grace + Floor
            /\ co # "again" => until <= late + Grace + Floor
            /\ co \in Asking => until <= late + Grace
            /\ co \in Asking \cup {"again"} => now <= late + Grace

RunInv ==
  /\ Types /\ DeadlineStands /\ OnlyValidRuns /\ StepsAreEntered
  /\ CoroutineIsOwned /\ DomainsAreOwned /\ GraceIsOne

---------------------------------------------------------------------------
LEMMA LeastIs ==
  ASSUME NEW a \in Int, NEW b \in Int
  PROVE  Least({a, b}) = IF a <= b THEN a ELSE b
BY DEF Least

LEMMA GreatestIs ==
  ASSUME NEW a \in Int, NEW b \in Int
  PROVE  Greatest({a, b}) = IF a <= b THEN b ELSE a
BY DEF Greatest

LEMMA Numbers ==
  /\ MaxTime \in Nat /\ Never \in Nat /\ Never = MaxTime + 1
  /\ {Own, Slack, Grace, Floor} \subseteq 1..MaxTime /\ Own \in Nat /\ Slack \in Nat
  /\ Grace \in Nat /\ Floor \in Nat /\ Floor <= Grace
BY StepRunAssumption DEF Never

(* What a run's bounds can be, from its types.                             *)
LEMMA Clocks ==
  ASSUME RunInv
  PROVE  /\ now \in Nat /\ now <= MaxTime /\ deadline \in Nat /\ until \in Nat /\ own \in Nat
         /\ late \in Nat /\ late <= Never /\ graceUntil \in Nat /\ timeout \in 0..MaxTime
         /\ step \in Nat /\ completed \in Nat /\ Len(list) \in Nat /\ Len(entries) \in Nat
         /\ list \in Seq(Lines)
BY StepRunAssumption, Numbers DEF RunInv, Types

---------------------------------------------------------------------------
(* The dialog policy keeps its own.                                        *)
LEMMA PolicyStarts == DialogInit => PolicyInv
<1>1. SUFFICES ASSUME DialogInit PROVE PolicyInv
  OBVIOUS
<1>2. dialogs \in Seq(TaskStates) /\ Len(dialogs) = 0
  BY <1>1 DEF DialogInit
<1>3. Marks
  BY <1>1 DEF DialogInit, Marks
<1>4. Tasks /\ Counts /\ CollectedIsOver /\ StuckIsCut
  BY <1>1, <1>2, DialogAssumption DEF DialogInit, Tasks, Counts, CollectedIsOver, StuckIsCut
<1>5. SettledSawAll /\ DueFollows
  BY <1>1 DEF DialogInit, SettledSawAll, DueFollows
<1>6. QED
  BY <1>3, <1>4, <1>5 DEF PolicyInv

LEMMA OpensKeeps ==
  ASSUME PolicyInv, Opens
  PROVE  PolicyInv'
<1>1. PICK d \in {"opened", "unseen"} : dialogs' = Append(dialogs, d)
  BY DEF Opens
<1>2. /\ dialogs \in Seq(TaskStates) /\ d \in TaskStates /\ d # "stuck" /\ Len(dialogs) \in Nat
      /\ Len(dialogs) < MaxDialogs
  BY <1>1 DEF PolicyInv, Tasks, Opens, TaskStates
<1>3. /\ dialogs' \in Seq(TaskStates) /\ Len(dialogs') = Len(dialogs) + 1
      /\ \A i \in 1..Len(dialogs) : dialogs'[i] = dialogs[i]
      /\ dialogs'[Len(dialogs) + 1] = d
  BY <1>1, <1>2
<1>4. /\ due' = FALSE
      /\ UNCHANGED <<listening, closed, drain, records, upto, settled, truncated, closing>>
  BY DEF Opens
<1>5. Marks' /\ SettledSawAll' /\ DueFollows'
  BY <1>4 DEF PolicyInv, Marks, SettledSawAll, DueFollows
<1>6. Tasks' /\ Counts'
  BY <1>2, <1>3, <1>4, DialogAssumption DEF PolicyInv, Tasks, Counts
<1>7. CollectedIsOver' /\ StuckIsCut'
  BY <1>2, <1>3, <1>4 DEF PolicyInv, Counts, CollectedIsOver, StuckIsCut
<1>8. QED
  BY <1>5, <1>6, <1>7 DEF PolicyInv

(* One task moves on, from a state that is not over.                       *)
LEMMA TaskMoves ==
  ASSUME PolicyInv, NEW i \in 1..Len(dialogs), NEW s \in TaskStates \ {"stuck"},
         dialogs[i] \notin TaskOver, dialogs' = [dialogs EXCEPT ![i] = s],
         due' \in BOOLEAN, due' => due \/ dialogs[i] = "sent",
         UNCHANGED <<listening, closed, drain, records, upto, settled, truncated, closing>>
  PROVE  PolicyInv'
<1>1. /\ dialogs \in Seq(TaskStates) /\ Len(dialogs) \in Nat
      /\ records \in 0..Len(dialogs) /\ i > records /\ Len(dialogs) > 0
  BY DEF PolicyInv, Tasks, Counts, CollectedIsOver
<1>2. /\ dialogs' \in Seq(TaskStates) /\ Len(dialogs') = Len(dialogs)
      /\ \A j \in 1..Len(dialogs) : dialogs'[j] = IF j = i THEN s ELSE dialogs[j]
  BY <1>1
<1>3. Marks'
  BY DEF PolicyInv, Marks
<1>4. records < Len(dialogs)
  BY <1>1
<1>5. SettledSawAll' /\ DueFollows'
  BY <1>1, <1>2, <1>4 DEF SettledSawAll, DueFollows
<1>6. Tasks' /\ Counts'
  BY <1>1, <1>2 DEF PolicyInv, Tasks, Counts
<1>7. CollectedIsOver' /\ StuckIsCut'
  BY <1>1, <1>2 DEF PolicyInv, CollectedIsOver, StuckIsCut
<1>8. QED
  BY <1>3, <1>5, <1>6, <1>7 DEF PolicyInv

LEMMA TasksKeep ==
  ASSUME PolicyInv, NEW i \in 1..Len(dialogs),
         Vanishes(i) \/ AnswerSends(i) \/ AnswerLands(i)
  PROVE  PolicyInv'
<1>1. /\ \A s \in {"opened", "sent", "gone", "gone_sent"} : s \notin TaskOver
      /\ {"gone_sent", "gone", "error", "refused", "sent", "answered"} \subseteq TaskStates
      /\ due \in BOOLEAN
  BY DEF TaskOver, TaskStates, PolicyInv, Marks
<1>2. CASE Vanishes(i)
  <2>1. PICK s \in {"gone_sent", "gone"} : dialogs' = [dialogs EXCEPT ![i] = s]
    BY <1>2 DEF Vanishes
  <2>2. QED
    BY <1>1, <1>2, <2>1, TaskMoves DEF Vanishes
<1>3. CASE AnswerSends(i)
  <2>1. PICK s \in {"error", "refused", "gone_sent", "sent"} : dialogs' = [dialogs EXCEPT ![i] = s]
    BY <1>3 DEF AnswerSends
  <2>2. QED
    BY <1>1, <1>3, <2>1, TaskMoves DEF AnswerSends
<1>4. CASE AnswerLands(i)
  <2>1. PICK s \in {"answered", "error"} : dialogs' = [dialogs EXCEPT ![i] = s]
    BY <1>4 DEF AnswerLands
  <2>2. due' \in BOOLEAN /\ (due' => due \/ dialogs[i] = "sent")
    BY <1>1, <1>4 DEF AnswerLands
  <2>3. QED
    BY <1>1, <1>4, <2>1, <2>2, TaskMoves DEF AnswerLands
<1>5. QED
  BY <1>2, <1>3, <1>4

(* What document and the disconnection do leaves the tasks as they are.    *)
LEMMA DocumentKeeps ==
  ASSUME PolicyInv, Collect \/ LoopHead \/ Gathered \/ SettleEnds \/ Disconnect
  PROVE  PolicyInv'
<1>1. /\ dialogs \in Seq(TaskStates) /\ Len(dialogs) \in Nat /\ UNCHANGED <<dialogs, due>>
      /\ Len(dialogs') = Len(dialogs)
  BY DEF PolicyInv, Tasks, Collect, LoopHead, Gathered, SettleEnds, Disconnect
<1>2. Tasks' /\ DueFollows'
  BY <1>1 DEF PolicyInv, Tasks, DueFollows
<1>3. Marks'
  BY <1>1 DEF PolicyInv, Marks, Collect, LoopHead, Gathers, BudgetSpent, Gathered, SettledAnew,
              SettleEnds, Disconnect
<1>4. Counts'
  BY <1>1 DEF PolicyInv, Counts, Collect, LoopHead, Gathers, BudgetSpent, Gathered, SettleEnds,
              Disconnect
<1>5. CollectedIsOver'
  BY <1>1 DEF PolicyInv, CollectedIsOver, Collect, LoopHead, Gathered, SettleEnds, Disconnect
<1>6. SettledSawAll'
  <2>1. CASE Gathered
    BY <2>1 DEF Gathered, SettledAnew, SettledSawAll
  <2>2. CASE SettleEnds
    BY <1>1, <2>2 DEF SettleEnds, SettledSawAll
  <2>3. CASE Collect \/ LoopHead \/ Disconnect
    <3>1. UNCHANGED <<settled, records>>
      BY <2>3 DEF Collect, LoopHead, Disconnect
    <3>2. QED
      BY <1>1, <3>1 DEF PolicyInv, SettledSawAll
  <2>4. QED
    BY <2>1, <2>2, <2>3
<1>7. StuckIsCut'
  <2>1. closing' # "cut" => closing # "cut"
    BY DEF Collect, LoopHead, Gathered, SettleEnds, Disconnect
  <2>2. QED
    BY <1>1, <2>1 DEF PolicyInv, StuckIsCut
<1>8. QED
  BY <1>2, <1>3, <1>4, <1>5, <1>6, <1>7 DEF PolicyInv

LEMMA CloseKeeps ==
  ASSUME PolicyInv, NEW spent \in BOOLEAN, CloseEnds(spent)
  PROVE  PolicyInv'
<1> DEFINE After(d) == CASE d \in {"opened", "sent"} -> "stuck"
                         [] d \in {"gone", "gone_sent"} -> "cancelled"
                         [] OTHER -> d
<1>1. dialogs \in Seq(TaskStates) /\ Len(dialogs) \in Nat /\ DOMAIN dialogs = 1..Len(dialogs)
      /\ \A i \in 1..Len(dialogs) : dialogs[i] \in TaskStates
  BY DEF PolicyInv, Tasks
<1>2. dialogs' = [i \in 1..Len(dialogs) |-> After(dialogs[i])]
  BY DEF CloseEnds
<1>3. \A d \in TaskStates : /\ After(d) \in TaskStates
                            /\ d \in TaskOver => After(d) = d
                            /\ After(d) = "stuck" => d = "stuck" \/ InFlight(d)
  BY DEF TaskStates, TaskOver, InFlight
<1> HIDE DEF After
<1>4. /\ dialogs' \in Seq(TaskStates) /\ Len(dialogs') = Len(dialogs)
      /\ \A i \in 1..Len(dialogs) : dialogs'[i] = After(dialogs[i])
  BY <1>1, <1>2, <1>3
<1>5. ~spent => \A i \in 1..Len(dialogs) : ~InFlight(dialogs[i])
  BY DEF CloseEnds, MayCancel
<1>6. /\ closing = "wait" /\ closing' = (IF spent THEN "cut" ELSE "done")
      /\ UNCHANGED <<due, listening, closed, drain, records, upto, settled, truncated>>
  BY DEF CloseEnds
<1>7. StuckIsCut'
  BY <1>1, <1>3, <1>4, <1>5, <1>6 DEF PolicyInv, StuckIsCut
<1>8. CollectedIsOver'
  BY <1>1, <1>3, <1>4, <1>6 DEF PolicyInv, Counts, CollectedIsOver
<1>9. Tasks' /\ Counts' /\ DueFollows'
  BY <1>4, <1>6 DEF PolicyInv, Tasks, Counts, DueFollows
<1>10. Marks'
  BY <1>6 DEF PolicyInv, Marks
<1>11. SettledSawAll'
  BY <1>4, <1>6 DEF PolicyInv, SettledSawAll
<1>12. QED
  BY <1>7, <1>8, <1>9, <1>10, <1>11 DEF PolicyInv

LEMMA PolicyKeeps == PolicyInv /\ [Next]_vars => PolicyInv'
<1>1. SUFFICES ASSUME PolicyInv, [Next]_vars PROVE PolicyInv'
  OBVIOUS
<1>2. UNCHANGED dialogVars => PolicyInv'
  BY <1>1 DEF dialogVars, PolicyInv, Tasks, Marks, Counts, CollectedIsOver, SettledSawAll,
              DueFollows, StuckIsCut
<1>3. DialogStep => PolicyInv'
  BY <1>1, OpensKeeps, TasksKeep, DocumentKeeps, CloseKeeps DEF DialogStep
<1>4. StartDocument \/ DocumentDone => PolicyInv'
  BY <1>1, DocumentKeeps DEF StartDocument, DocumentDone
<1>5. LoopRuns \/ Tick => UNCHANGED dialogVars
  BY DEF LoopRuns, FirstAnswered, SendAnswered, Enabled, WindowEnds, Disabled, CutShort, Tick
<1>6. CallerRuns => StartDocument \/ DocumentDone \/ UNCHANGED dialogVars
  BY DEF CallerRuns, Refuse, Begin, RunIsOver, StartStep, NoSession, Submit, Unreadable, Returns,
         BoundPasses, Enter, Ended
<1>7. QED
  BY <1>1, <1>2, <1>3, <1>4, <1>5, <1>6 DEF Next, vars

---------------------------------------------------------------------------
(* The run keeps its own.                                                  *)
LEMMA RunStands ==
  ASSUME RunInv, UNCHANGED <<time, coroutine, report, domains, rest, pc, step, raised>>
  PROVE  RunInv'
<1>1. /\ UNCHANGED <<now, deadline, graceUntil, until, late, co, own, cut, mine, entries, status>>
      /\ UNCHANGED <<completed, caller, theirs, on, list, timeout, reached, pc, step, raised>>
  BY DEF time, coroutine, report, domains, rest
<1>2. Types' /\ DeadlineStands' /\ OnlyValidRuns'
  BY <1>1 DEF RunInv, Types, DeadlineStands, OnlyValidRuns
<1>3. StepsAreEntered'
  BY <1>1 DEF RunInv, StepsAreEntered, StatusIsTrue
<1>4. CoroutineIsOwned' /\ DomainsAreOwned' /\ GraceIsOne'
  BY <1>1 DEF RunInv, CoroutineIsOwned, DomainsAreOwned, GraceIsOne
<1>5. QED
  BY <1>2, <1>3, <1>4 DEF RunInv

(* The document, the teardown and the end say nothing new of the run.      *)
LEMMA ReportStands ==
  ASSUME RunInv, pc \in Reported, pc' \in Reported,
         UNCHANGED <<time, coroutine, report, domains, rest, step, raised>>
  PROVE  RunInv'
<1>1. /\ UNCHANGED <<now, deadline, graceUntil, until, late, co, own, cut, mine, entries, status>>
      /\ UNCHANGED <<completed, caller, theirs, on, list, timeout, reached, step, raised>>
  BY DEF time, coroutine, report, domains, rest
<1>2. pc # "call" /\ pc' # "call" /\ pc \notin Running /\ pc' \notin Running
      /\ pc' \notin {"start", "refused"} /\ pc \notin {"start", "refused"}
  BY DEF Reported, Running
<1>3. Types' /\ DeadlineStands' /\ OnlyValidRuns'
  BY <1>1, <1>2 DEF RunInv, Types, DeadlineStands, OnlyValidRuns
<1>4. StepsAreEntered'
  BY <1>1, <1>2 DEF RunInv, StepsAreEntered, StatusIsTrue, Reported, Running
<1>5. CoroutineIsOwned' /\ DomainsAreOwned' /\ GraceIsOne'
  BY <1>1, <1>2 DEF RunInv, CoroutineIsOwned, DomainsAreOwned, GraceIsOne, Reported
<1>6. QED
  BY <1>3, <1>4, <1>5 DEF RunInv

LEMMA RunStarts == Init => RunInv
<1>1. SUFFICES ASSUME Init PROVE RunInv
  OBVIOUS
<1>2. Len(list) \in Nat /\ entries \in Seq(StepStatus) /\ Len(entries) = 0 /\ entries = <<>>
  BY <1>1, StepRunAssumption DEF Init
<1>3. Types
  <2>1. list \in Lists /\ timeout \in Timeouts /\ pc = "start" /\ co \in Phases /\ raised = "none"
        /\ status \in StepStatus /\ reached = {} /\ ~caller /\ ~theirs /\ ~on /\ ~mine /\ ~cut
        /\ caller \in BOOLEAN /\ theirs \in BOOLEAN /\ on \in BOOLEAN /\ mine \in BOOLEAN
        /\ cut \in BOOLEAN
    BY <1>1 DEF Init, Phases, StepStatus
  <2>2. /\ now \in 0..MaxTime /\ deadline \in 0..Never /\ until \in 0..Never /\ own \in 0..Never
        /\ late \in 0..Never /\ graceUntil \in 0..(Never + Grace)
    BY <1>1, Numbers DEF Init
  <2>3. /\ step \in 1..Len(list) + 1 /\ completed \in 0..Len(entries) /\ Len(entries) <= Len(list)
    BY <1>1, <1>2 DEF Init
  <2>4. QED
    BY <1>2, <2>1, <2>2, <2>3 DEF Types
<1>4. DeadlineStands /\ OnlyValidRuns /\ CoroutineIsOwned /\ GraceIsOne
  BY <1>1, Numbers DEF Init, DeadlineStands, OnlyValidRuns, CoroutineIsOwned, GraceIsOne, Running,
                       Reported
<1>5. StepsAreEntered
  BY <1>1, <1>2 DEF Init, StepsAreEntered, Running, Reported
<1>6. DomainsAreOwned
  BY <1>1 DEF Init, DomainsAreOwned
<1>7. QED
  BY <1>3, <1>4, <1>5, <1>6 DEF RunInv

(* Before the first late call there is no grace.                           *)
LEMMA NoGraceYet ==
  ASSUME RunInv, pc \in {"start", "refused", "loop"}
  PROVE  late = Never
BY Clocks, Numbers DEF RunInv, GraceIsOne, Reported

LEMMA RefuseKeeps ==
  ASSUME RunInv, Refuse
  PROVE  RunInv'
<1>1. /\ UNCHANGED <<now, deadline, graceUntil, until, late, co, own, cut, mine, entries, status>>
      /\ UNCHANGED <<completed, caller, theirs, on, list, timeout, reached, step, raised>>
      /\ pc = "start" /\ pc' = "refused"
  BY DEF Refuse, time, coroutine, report, domains, rest
<1>2. Types' /\ DeadlineStands' /\ OnlyValidRuns'
  BY <1>1 DEF RunInv, Types, DeadlineStands, OnlyValidRuns, Running, Reported
<1>3. StepsAreEntered'
  BY <1>1 DEF StepsAreEntered, Running, Reported
<1>4. CoroutineIsOwned' /\ DomainsAreOwned'
  BY <1>1 DEF RunInv, CoroutineIsOwned, DomainsAreOwned, Reported
<1>5. GraceIsOne'
  BY <1>1, NoGraceYet, Numbers DEF RunInv, GraceIsOne
<1>6. QED
  BY <1>2, <1>3, <1>4, <1>5 DEF RunInv

LEMMA BeginKeeps ==
  ASSUME RunInv, Begin
  PROVE  RunInv'
<1>1. /\ UNCHANGED <<now, graceUntil, until, late, co, own, cut, mine, entries, status>>
      /\ UNCHANGED <<completed, caller, theirs, on, list, timeout, reached, step, raised>>
      /\ pc = "start" /\ pc' = "loop" /\ Valid(list)
      /\ deadline' = IF timeout = 0 THEN Never ELSE now + timeout
  BY DEF Begin, coroutine, report, domains, rest
<1>2. now = 0 /\ timeout \in 0..MaxTime
  BY <1>1, Clocks DEF RunInv, DeadlineStands
<1>3. deadline' = IF timeout = 0 THEN Never ELSE timeout
  BY <1>1, <1>2
<1>4. Types' /\ DeadlineStands' /\ OnlyValidRuns'
  BY <1>1, <1>2, <1>3, Numbers DEF RunInv, Types, DeadlineStands, OnlyValidRuns, Running, Reported
<1>5. StepsAreEntered'
  BY <1>1 DEF RunInv, OnlyValidRuns, StepsAreEntered, Running, Reported
<1>6. CoroutineIsOwned' /\ DomainsAreOwned'
  BY <1>1 DEF RunInv, CoroutineIsOwned, DomainsAreOwned, Reported
<1>7. GraceIsOne'
  BY <1>1, NoGraceYet, Numbers DEF RunInv, GraceIsOne
<1>8. QED
  BY <1>4, <1>5, <1>6, <1>7 DEF RunInv

LEMMA RunIsOverKeeps ==
  ASSUME RunInv, RunIsOver
  PROVE  RunInv'
<1>1. /\ UNCHANGED <<now, graceUntil, until, late, co, own, cut, mine, entries>>
      /\ UNCHANGED <<completed, caller, theirs, on, list, timeout, reached, step, raised>>
      /\ pc = "loop" /\ pc' = "document" /\ deadline' = Never
      /\ \/ step > Len(list) /\ UNCHANGED status
         \/ step <= Len(list) /\ Overran /\ status' = "timeout"
  BY DEF RunIsOver, coroutine, domains, rest
<1>2. /\ step = Len(entries) + 1 /\ completed = Len(entries) /\ status = "ok"
      /\ Len(entries) \in Nat /\ Len(list) \in Nat /\ Len(entries) <= Len(list) /\ step \in Nat
      /\ \A i \in 1..Len(entries) : entries[i] = "ok"
      /\ \A i \in reached : i < step
      /\ reached \subseteq 1..Len(list)
  BY <1>1, Clocks DEF RunInv, StepsAreEntered, Running, Types
<1>3. Overran => timeout # 0 /\ now >= timeout
  BY <1>1, Clocks, Numbers DEF RunInv, DeadlineStands, Running, Overran
<1>4. Types' /\ DeadlineStands' /\ OnlyValidRuns'
  BY <1>1, Numbers DEF RunInv, Types, DeadlineStands, OnlyValidRuns, Running, Reported, StepStatus
<1>5. StatusIsTrue'
  BY <1>1, <1>2, <1>3 DEF StatusIsTrue
<1>6. \A i \in reached : i <= Len(entries)
  BY <1>2
<1>7. StepsAreEntered'
  BY <1>1, <1>5, <1>6 DEF StepsAreEntered, Running, Reported
<1>8. CoroutineIsOwned' /\ DomainsAreOwned'
  BY <1>1 DEF RunInv, CoroutineIsOwned, DomainsAreOwned, Reported
<1>9. GraceIsOne'
  BY <1>1, NoGraceYet, Numbers DEF RunInv, GraceIsOne
<1>10. QED
  BY <1>4, <1>7, <1>8, <1>9 DEF RunInv

LEMMA StartStepKeeps ==
  ASSUME RunInv, StartStep
  PROVE  RunInv'
<1>1. /\ UNCHANGED <<now, deadline, graceUntil, until, late, entries, status>>
      /\ UNCHANGED <<completed, theirs, on, list, timeout, reached, step>>
      /\ pc = "loop" /\ pc' = "call" /\ step <= Len(list) /\ co' = "first"
      /\ caller' = (caller \/ list[step] = "enable")
      /\ cut' = FALSE /\ mine' = FALSE /\ own' = Never /\ raised' = "none"
  BY DEF StartStep, TakesNote, time, report, rest
<1>2. late = Never
  BY <1>1, NoGraceYet
<1>3. ~cut /\ co \in {"none", "over"}
  BY <1>1 DEF RunInv, CoroutineIsOwned
<1>4. /\ caller' \in BOOLEAN /\ cut' \in BOOLEAN /\ mine' \in BOOLEAN
      /\ co' \in Phases /\ raised' \in {"none", "error", "timeout", "own"}
  BY <1>1 DEF Phases
<1>5. own' \in 0..Never
  BY <1>1, Numbers
<1>6. Types'
  BY <1>1, <1>4, <1>5 DEF RunInv, Types, Running
<1>7. DeadlineStands' /\ OnlyValidRuns'
  BY <1>1 DEF RunInv, DeadlineStands, OnlyValidRuns, Running
<1>8. StepsAreEntered'
  <2>1. \A i \in reached : i <= step
    BY <1>1, Clocks DEF RunInv, StepsAreEntered, Types
  <2>2. QED
    BY <1>1, <2>1 DEF RunInv, StepsAreEntered, Running, Reported
<1>9. CoroutineIsOwned'
  BY <1>1 DEF CoroutineIsOwned, Reported
<1>10. DomainsAreOwned'
  BY <1>1, <1>3 DEF RunInv, DomainsAreOwned
<1>11. GraceIsOne'
  BY <1>1, <1>2, Numbers DEF RunInv, GraceIsOne
<1>12. QED
  BY <1>6, <1>7, <1>8, <1>9, <1>10, <1>11 DEF RunInv

LEMMA NoSessionKeeps ==
  ASSUME RunInv, NoSession
  PROVE  RunInv'
<1>1. /\ UNCHANGED <<now, deadline, graceUntil, until, late, co, own, cut, mine, entries, status>>
      /\ UNCHANGED <<completed, theirs, on, list, timeout, reached, step>>
      /\ pc = "loop" /\ pc' = "entry" /\ step <= Len(list) /\ raised' = "error"
      /\ caller' = (caller \/ list[step] = "enable")
  BY DEF NoSession, TakesNote, time, coroutine, report, rest
<1>2. late = Never
  BY <1>1, NoGraceYet
<1>3. ~cut /\ co \in {"none", "over"}
  BY <1>1 DEF RunInv, CoroutineIsOwned
<1>4. caller' \in BOOLEAN
  BY <1>1
<1>5. Types'
  BY <1>1, <1>4, Numbers DEF RunInv, Types, Running, Phases
<1>6. DeadlineStands' /\ OnlyValidRuns'
  BY <1>1 DEF RunInv, DeadlineStands, OnlyValidRuns, Running
<1>7. StepsAreEntered'
  <2>1. \A i \in reached : i <= step
    BY <1>1, Clocks DEF RunInv, StepsAreEntered, Types
  <2>2. QED
    BY <1>1, <2>1 DEF RunInv, StepsAreEntered, Running, Reported
<1>8. CoroutineIsOwned'
  BY <1>1, <1>3 DEF CoroutineIsOwned, Reported
<1>9. DomainsAreOwned'
  BY <1>1, <1>3 DEF RunInv, DomainsAreOwned
<1>10. GraceIsOne'
  BY <1>1, <1>2, Numbers DEF RunInv, GraceIsOne
<1>11. QED
  BY <1>5, <1>6, <1>7, <1>8, <1>9, <1>10 DEF RunInv

(* The caller goes on with what the call left, be it its answer or the     *)
(* passing of its bound.                                                   *)
LEMMA CallEndsKeeps ==
  ASSUME RunInv, Returns \/ BoundPasses
  PROVE  RunInv'
<1>1. /\ UNCHANGED <<now, deadline, graceUntil, until, late, co, own, mine, entries, status>>
      /\ UNCHANGED <<completed, caller, theirs, on, list, timeout, reached, step>>
      /\ pc = "call" /\ pc' = "entry"
      /\ \/ cut' = TRUE /\ raised' = "timeout"
         \/ co = "over" /\ UNCHANGED <<cut, raised>>
  BY DEF Returns, BoundPasses, time, coroutine, report, domains, rest
<1>2. ~cut /\ cut' \in BOOLEAN
  BY <1>1 DEF RunInv, CoroutineIsOwned, Types
<1>3. Types'
  BY <1>1, <1>2 DEF RunInv, Types, Running
<1>4. DeadlineStands' /\ OnlyValidRuns' /\ StepsAreEntered'
  BY <1>1 DEF RunInv, DeadlineStands, OnlyValidRuns, StepsAreEntered, Running, Reported
<1>5. CoroutineIsOwned'
  BY <1>1, <1>2 DEF CoroutineIsOwned, Reported
<1>6. DomainsAreOwned'
  BY <1>1, <1>2 DEF RunInv, DomainsAreOwned
<1>7. GraceIsOne'
  BY <1>1 DEF RunInv, GraceIsOne
<1>8. QED
  BY <1>3, <1>4, <1>5, <1>6, <1>7 DEF RunInv

LEMMA UnreadableKeeps ==
  ASSUME RunInv, Unreadable
  PROVE  RunInv'
<1>1. /\ UNCHANGED <<now, deadline, graceUntil, late, own, cut, mine, entries, status>>
      /\ UNCHANGED <<completed, caller, theirs, on, list, timeout, reached, pc, step, raised>>
      /\ pc = "call" /\ co = "probe" /\ co' = "again" /\ until' = Never
  BY DEF Unreadable, report, domains, rest
<1>2. Types'
  BY <1>1, Numbers DEF RunInv, Types, Phases
<1>3. DeadlineStands' /\ OnlyValidRuns' /\ StepsAreEntered'
  BY <1>1 DEF RunInv, DeadlineStands, OnlyValidRuns, StepsAreEntered, Running, Reported
<1>4. CoroutineIsOwned' /\ DomainsAreOwned'
  BY <1>1 DEF RunInv, CoroutineIsOwned, DomainsAreOwned, Reported
<1>5. GraceIsOne'
  BY <1>1 DEF RunInv, GraceIsOne, Asking
<1>6. QED
  BY <1>2, <1>3, <1>4, <1>5 DEF RunInv

LEMMA TickKeeps ==
  ASSUME RunInv, Tick
  PROVE  RunInv'
<1>1. /\ UNCHANGED <<deadline, graceUntil, until, late, co, own, cut, mine, entries, status>>
      /\ UNCHANGED <<completed, caller, theirs, on, list, timeout, reached, pc, step, raised>>
      /\ pc = "call" /\ now < MaxTime /\ now < until /\ now' = now + 1
      /\ co \in {"first", "again"} => now < deadline
  BY DEF Tick, coroutine, report, domains, rest
<1>2. now \in Nat /\ now' \in 0..MaxTime
  BY <1>1, Clocks, Numbers
<1>3. Types'
  BY <1>1, <1>2 DEF RunInv, Types
<1>4. DeadlineStands' /\ OnlyValidRuns' /\ StepsAreEntered'
  BY <1>1 DEF RunInv, DeadlineStands, OnlyValidRuns, StepsAreEntered, Running, Reported
<1>5. CoroutineIsOwned' /\ DomainsAreOwned'
  BY <1>1 DEF RunInv, CoroutineIsOwned, DomainsAreOwned, Reported
<1>6. GraceIsOne'
  BY <1>1, <1>2, Clocks, Numbers DEF RunInv, GraceIsOne, Asking
<1>7. QED
  BY <1>3, <1>4, <1>5, <1>6 DEF RunInv

---------------------------------------------------------------------------
(* A call that is submitted: in time it is clamped by the deadline; late,  *)
(* it shares the one grace, but for the floor.                             *)
LEMMA OneGraceIs ==
  ASSUME RunInv, pc = "call"
  PROVE  OneGrace = IF late = Never THEN now + Grace ELSE late + Grace
<1>1. late = Never => graceUntil = Never + Grace
  BY DEF RunInv, GraceIsOne
<1>2. late < Never => graceUntil = late + Grace
  BY DEF RunInv, GraceIsOne
<1>3. /\ late \in Nat /\ late <= Never /\ Never = MaxTime + 1 /\ MaxTime \in Nat /\ Grace \in Nat
      /\ graceUntil \in Nat
  BY Clocks, Numbers
<1>4. QED
  BY <1>1, <1>2, <1>3 DEF OneGrace

LEMMA FirstIsAsked ==
  ASSUME RunInv, pc = "call"
  PROVE  FirstCall \in {"enable", "visible", "probe", "start", "send"}
BY DEF FirstCall

LEMMA SubmitsIs ==
  ASSUME RunInv, pc = "call", NEW at \in Nat, at <= Never, Submits(at)
  PROVE  \/ /\ ~Overran /\ UNCHANGED <<graceUntil, late>> /\ until' \in 0..Never
         \/ /\ Overran /\ graceUntil' = OneGrace
            /\ late' = IF late <= now THEN late ELSE now
            /\ until' \in 0..Never
            /\ until' <= OneGrace \/ until' <= now + Floor
<1>1. /\ now \in Nat /\ deadline \in Nat /\ late \in Nat /\ Never \in Nat /\ OneGrace \in Nat
      /\ Floor \in Nat /\ deadline <= Never
  BY Clocks, Numbers, OneGraceIs DEF RunInv, Types
<1>2. CASE Overran
  <2> DEFINE latest == IF OneGrace <= now + Floor THEN now + Floor ELSE OneGrace
  <2>1. Greatest({OneGrace, now + Floor}) = latest
    BY <1>1, GreatestIs
  <2>2. latest \in Int /\ latest >= 0
    BY <1>1
  <2> HIDE DEF latest
  <2>3. Least({Never, latest}) = IF Never <= latest THEN Never ELSE latest
    BY <1>1, <2>2, LeastIs
  <2>4. Least({late, now}) = IF late <= now THEN late ELSE now
    BY <1>1, LeastIs
  <2>5. /\ graceUntil' = OneGrace /\ until' = (IF Never <= latest THEN Never ELSE latest)
        /\ late' = IF late <= now THEN late ELSE now
    BY <1>2, <2>1, <2>3, <2>4 DEF Submits
  <2>6. until' \in 0..Never /\ until' <= latest
    BY <1>1, <2>2, <2>5
  <2>7. QED
    BY <1>1, <1>2, <2>5, <2>6 DEF latest
<1>3. CASE ~Overran
  <2>1. Least({at, deadline}) = IF at <= deadline THEN at ELSE deadline
    BY <1>1, LeastIs
  <2>2. QED
    BY <1>1, <1>3, <2>1 DEF Submits
<1>4. QED
  BY <1>2, <1>3

LEMMA SubmitKeeps ==
  ASSUME RunInv, Submit
  PROVE  RunInv'
<1> DEFINE at == IF list[step] = "wait" /\ Own < MaxTime THEN Least({now + Own + Slack, Never})
                 ELSE Never
<1>1. /\ UNCHANGED <<now, deadline, own, cut, mine, entries, status, completed>>
      /\ UNCHANGED <<caller, theirs, on, list, timeout, pc, step, raised>>
      /\ pc = "call" /\ co \in {"first", "again"} /\ reached' = reached \cup {step}
      /\ co' = (IF co = "first" THEN FirstCall ELSE "send") /\ Submits(at)
  BY DEF Submit, report, domains
<1>2. at \in Nat /\ at <= Never
  <2>1. now + Own + Slack \in Nat /\ Never \in Nat
    BY Clocks, Numbers
  <2>2. Least({now + Own + Slack, Never})
          = IF now + Own + Slack <= Never THEN now + Own + Slack ELSE Never
    BY <2>1, LeastIs
  <2>3. QED
    BY <2>1, <2>2
<1> HIDE DEF at
<1>3. \/ /\ ~Overran /\ UNCHANGED <<graceUntil, late>> /\ until' \in 0..Never
      \/ /\ Overran /\ graceUntil' = OneGrace /\ until' \in 0..Never
         /\ late' = IF late <= now THEN late ELSE now
         /\ until' <= OneGrace \/ until' <= now + Floor
  BY <1>1, <1>2, SubmitsIs
<1>4. OneGrace = IF late = Never THEN now + Grace ELSE late + Grace
  BY <1>1, OneGraceIs
<1>5. co' \in {"enable", "visible", "probe", "start", "send"}
  BY <1>1, FirstIsAsked
<1>6. step \in 1..Len(list) /\ \A i \in reached : i <= step
  BY <1>1, Clocks DEF RunInv, Types, StepsAreEntered
<1>7. /\ late' \in 0..Never /\ graceUntil' \in 0..(Never + Grace) /\ until' \in 0..Never
  BY <1>3, <1>4, Clocks, Numbers DEF RunInv, Types
<1>8. co' \in Phases
  BY <1>5 DEF Phases
<1>9. reached' \subseteq 1..Len(list) /\ \A i \in reached' : i <= step
  BY <1>1, <1>6 DEF RunInv, Types
<1>10. Types'
  BY <1>1, <1>7, <1>8, <1>9 DEF RunInv, Types
<1>11. DeadlineStands' /\ OnlyValidRuns'
  BY <1>1 DEF RunInv, DeadlineStands, OnlyValidRuns, Running
<1>12. StepsAreEntered'
  BY <1>1, <1>9 DEF RunInv, StepsAreEntered, Running, Reported
<1>13. CoroutineIsOwned' /\ DomainsAreOwned'
  BY <1>1, <1>5 DEF RunInv, CoroutineIsOwned, DomainsAreOwned, Reported
<1>14. GraceIsOne'
  <2>1. CASE late = Never
    <3>1. CASE ~Overran
      BY <1>1, <1>3, <2>1, <3>1, Numbers DEF RunInv, GraceIsOne
    <3>2. CASE Overran
      <4>1. late' = now /\ graceUntil' = now + Grace /\ until' <= now + Grace
        BY <1>3, <1>4, <2>1, <3>2, Clocks, Numbers
      <4>2. deadline <= now
        BY <3>2, Clocks DEF Overran
      <4>3. /\ now \in Nat /\ Grace \in Nat /\ Floor \in Nat /\ until' \in Nat /\ now < Never
            /\ Never \in Nat
        BY <1>7, Clocks, Numbers
      <4>4. co' # "first" /\ co' # "again" /\ now' = now /\ deadline' = deadline /\ pc' = "call"
        BY <1>1, <1>5
      <4>5. late' # Never
        BY <4>1, <4>3
      <4>6. /\ now <= now + Grace + Floor /\ until' <= now + Grace + Floor /\ now <= now + Grace
        BY <4>1, <4>3
      <4>7. QED
        BY <4>1, <4>2, <4>3, <4>4, <4>5, <4>6 DEF GraceIsOne
    <3>3. QED
      BY <3>1, <3>2
  <2>2. CASE late # Never
    <3>1. late < Never /\ late <= now /\ deadline <= late
      BY <1>1, <2>2, Clocks, Numbers DEF RunInv, GraceIsOne
    <3>2. Overran
      BY <3>1, Clocks, Numbers DEF Overran
    <3>3. co = "again" /\ now <= late + Grace
      BY <1>1, <3>1 DEF RunInv, GraceIsOne
    <3>4. late' = late /\ graceUntil' = late + Grace /\ co' = "send"
      BY <1>1, <1>3, <1>4, <2>2, <3>1, <3>2, <3>3
    <3>5. /\ now \in Nat /\ late \in Nat /\ Grace \in Nat /\ Floor \in Nat /\ until' \in Nat
          /\ Never \in Nat
      BY <1>7, Clocks, Numbers
    <3>6. OneGrace = late + Grace /\ (until' <= OneGrace \/ until' <= now + Floor)
      BY <1>3, <1>4, <2>2, <3>2
    <3>7. until' <= late + Grace + Floor /\ now <= late + Grace + Floor
      BY <3>3, <3>5, <3>6
    <3>8. /\ co' \notin Asking \cup {"again"} /\ co' # "first" /\ late' # Never
          /\ now' = now /\ deadline' = deadline /\ pc' = "call"
      BY <1>1, <3>1, <3>4, <3>5 DEF Asking
    <3>9. QED
      BY <3>1, <3>4, <3>7, <3>8 DEF GraceIsOne
  <2>3. QED
    BY <2>1, <2>2
<1>15. QED
  BY <1>10, <1>11, <1>12, <1>13, <1>14 DEF RunInv

---------------------------------------------------------------------------
(* An answer comes to a coroutine that a call waits for, and moves it one  *)
(* phase on.                                                               *)
LEMMA AnswersInACall ==
  ASSUME RunInv, ~cut, co \notin {"none", "over"}
  PROVE  pc = "call"
BY DEF RunInv, Types, CoroutineIsOwned, Running, Reported

LEMMA CallMoves ==
  ASSUME RunInv, pc = "call", ~cut, co \notin {"none", "first", "again"},
         co' \in {"again", "send", "window", "disable", "over"}, co' = "again" => co \in Asking,
         raised' \in {"none", "error", "timeout", "own"}, own' \in 0..Never,
         on' \in BOOLEAN, theirs' \in BOOLEAN, mine' \in BOOLEAN, DomainsAreOwned',
         UNCHANGED <<time, cut, report, caller, rest, pc, step>>
  PROVE  RunInv'
<1>1. /\ UNCHANGED <<now, deadline, graceUntil, until, late, cut, entries, status, completed>>
      /\ UNCHANGED <<caller, list, timeout, reached, pc, step>>
  BY DEF time, report, rest
<1>2. co' \in Phases /\ co' # "none" /\ co' # "first" /\ co' \notin Asking
  BY DEF Phases, Asking
<1>3. Types'
  BY <1>1, <1>2 DEF RunInv, Types
<1>4. DeadlineStands' /\ OnlyValidRuns' /\ StepsAreEntered' /\ CoroutineIsOwned'
  BY <1>1, <1>2 DEF RunInv, DeadlineStands, OnlyValidRuns, StepsAreEntered, CoroutineIsOwned,
                    Running, Reported
<1>5. GraceIsOne'
  BY <1>1, <1>2 DEF RunInv, GraceIsOne
<1>6. QED
  BY <1>3, <1>4, <1>5 DEF RunInv

LEMMA FirstAnsweredKeeps ==
  ASSUME RunInv, FirstAnswered
  PROVE  RunInv'
<1>1. /\ co \in {"probe", "start", "visible"} /\ ~cut /\ co' \in {"send", "again", "over"}
      /\ UNCHANGED <<time, own, cut, mine, report, caller, theirs, on, rest, pc, step>>
      /\ raised' = raised \/ raised' = "error"
  BY DEF FirstAnswered, Answers, domains
<1>2. pc = "call"
  BY <1>1, AnswersInACall
<1>3. DomainsAreOwned'
  <2>1. UNCHANGED list
    BY <1>1 DEF rest
  <2>2. QED
    BY <1>1, <2>1 DEF RunInv, DomainsAreOwned
<1>4. own' \in 0..Never /\ on' \in BOOLEAN /\ theirs' \in BOOLEAN /\ mine' \in BOOLEAN
  BY <1>1 DEF RunInv, Types
<1>5. QED
  <2>1. raised' \in {"none", "error", "timeout", "own"}
    BY <1>1 DEF RunInv, Types
  <2>2. co \in Asking /\ co' \in {"again", "send", "window", "disable", "over"}
    BY <1>1 DEF Asking
  <2>3. QED
    BY <1>1, <1>2, <1>3, <1>4, <2>1, <2>2, CallMoves

LEMMA SendAnsweredKeeps ==
  ASSUME RunInv, SendAnswered
  PROVE  RunInv'
<1>1. /\ co = "send" /\ ~cut /\ co' = "over" /\ raised' \in {"none", "error"}
      /\ UNCHANGED <<time, own, cut, mine, report, caller, rest, pc, step>>
  BY DEF SendAnswered, Answers
<1>2. pc = "call"
  BY <1>1, AnswersInACall
<1>3. /\ UNCHANGED <<caller, list, step, mine, pc, cut>> /\ own' \in 0..Never /\ mine' \in BOOLEAN
      /\ on \in BOOLEAN /\ theirs \in BOOLEAN /\ caller \in BOOLEAN
  BY <1>1 DEF RunInv, Types, rest
<1>4. \/ on' = TRUE /\ theirs' = TRUE /\ list[step] = "enable"
      \/ on' = FALSE /\ theirs' = FALSE
      \/ on' = on /\ theirs' = theirs
  BY DEF SendAnswered
<1>5. on' \in BOOLEAN /\ theirs' \in BOOLEAN
  BY <1>3, <1>4
<1>6. /\ list[step] = "enable" => caller
      /\ on /\ ~caller => FALSE
      /\ theirs => on /\ caller
  BY <1>1, <1>2 DEF RunInv, DomainsAreOwned
<1>7. DomainsAreOwned'
  BY <1>1, <1>2, <1>3, <1>4, <1>6 DEF DomainsAreOwned
<1>8. QED
  BY <1>1, <1>2, <1>3, <1>5, <1>7, CallMoves

LEMMA EnabledKeeps ==
  ASSUME RunInv, Enabled
  PROVE  RunInv'
<1>1. /\ co = "enable" /\ ~cut /\ co' = "window"
      /\ UNCHANGED <<time, cut, report, caller, theirs, rest, pc, step, raised>>
      /\ \/ on' = TRUE /\ mine' = ~caller
         \/ UNCHANGED on /\ mine' = FALSE
      /\ own' = IF Own < MaxTime THEN Least({now + Own, Never}) ELSE Never
  BY DEF Enabled, Undoes
<1>2. pc = "call"
  BY <1>1, AnswersInACall
<1>3. own' \in 0..Never
  <2>1. Least({now + Own, Never}) = IF now + Own <= Never THEN now + Own ELSE Never
    BY Clocks, Numbers, LeastIs
  <2>2. now + Own \in Nat /\ Never \in Nat
    BY Clocks, Numbers
  <2>3. QED
    BY <1>1, <2>1, <2>2
<1>4. /\ UNCHANGED <<list, theirs, caller, pc, step, cut>> /\ on \in BOOLEAN /\ theirs \in BOOLEAN
      /\ caller \in BOOLEAN /\ raised' \in {"none", "error", "timeout", "own"}
  BY <1>1 DEF RunInv, Types, rest
<1>5. on' \in BOOLEAN /\ theirs' \in BOOLEAN /\ mine' \in BOOLEAN
  BY <1>1, <1>4
<1>6. /\ list[step] = "enable" => caller
      /\ on /\ ~caller => FALSE
      /\ theirs => on /\ caller
  BY <1>1, <1>2 DEF RunInv, DomainsAreOwned
<1>7. DomainsAreOwned'
  <2>1. on' /\ ~caller => mine'
    BY <1>1, <1>4, <1>6
  <2>2. mine' => ~caller
    BY <1>1, <1>4
  <2>3. theirs => on' /\ caller
    BY <1>1, <1>4, <1>6
  <2>4. QED
    BY <1>1, <1>2, <1>4, <1>6, <2>1, <2>2, <2>3 DEF DomainsAreOwned
<1>8. QED
  BY <1>1, <1>2, <1>3, <1>4, <1>5, <1>7, CallMoves

LEMMA WindowEndsKeeps ==
  ASSUME RunInv, WindowEnds
  PROVE  RunInv'
<1>1. /\ co = "window" /\ ~cut /\ co' = (IF mine THEN "disable" ELSE "over")
      /\ raised' \in {"none", "own"}
      /\ UNCHANGED <<time, own, cut, mine, report, caller, theirs, on, rest, pc, step>>
  BY DEF WindowEnds, Leaves, domains
<1>2. pc = "call"
  BY <1>1, AnswersInACall
<1>3. /\ UNCHANGED <<list, mine, on, theirs, caller, pc, step, cut>> /\ own' \in 0..Never
      /\ on' \in BOOLEAN /\ theirs' \in BOOLEAN /\ mine' \in BOOLEAN
  BY <1>1 DEF RunInv, Types, rest
<1>4. DomainsAreOwned'
  BY <1>1, <1>3 DEF RunInv, DomainsAreOwned
<1>5. co' \in {"again", "send", "window", "disable", "over"} /\ co' # "again"
  BY <1>1
<1>6. QED
  BY <1>1, <1>2, <1>3, <1>4, <1>5, CallMoves

(* A cancelled coroutine unwinds after the caller has gone on.             *)
LEMMA Unwinds ==
  ASSUME RunInv, cut, co' \in Phases, on' \in BOOLEAN, DomainsAreOwned',
         UNCHANGED <<time, own, cut, mine, report, caller, theirs, rest, pc, step, raised>>
  PROVE  RunInv'
<1>1. /\ UNCHANGED <<now, deadline, graceUntil, until, late, own, cut, mine, entries, status>>
      /\ UNCHANGED <<completed, caller, theirs, list, timeout, reached, pc, step, raised>>
  BY DEF time, report, rest
<1>2. pc \notin {"start", "refused", "loop", "call"}
  BY DEF RunInv, CoroutineIsOwned
<1>3. Types' /\ DeadlineStands' /\ OnlyValidRuns'
  BY <1>1 DEF RunInv, Types, DeadlineStands, OnlyValidRuns
<1>4. StepsAreEntered'
  BY <1>1 DEF RunInv, StepsAreEntered, StatusIsTrue
<1>5. CoroutineIsOwned' /\ GraceIsOne'
  BY <1>1, <1>2 DEF RunInv, CoroutineIsOwned, GraceIsOne
<1>6. QED
  BY <1>3, <1>4, <1>5 DEF RunInv

LEMMA DisabledKeeps ==
  ASSUME RunInv, Disabled
  PROVE  RunInv'
<1>1. /\ co = "disable" /\ co' = "over" /\ on' = FALSE
      /\ UNCHANGED <<time, own, cut, mine, report, caller, theirs, rest, pc, step, raised>>
  BY DEF Disabled
<1>2. /\ UNCHANGED <<list, mine, theirs, caller, pc, step, cut>> /\ own' \in 0..Never
      /\ theirs' \in BOOLEAN /\ mine' \in BOOLEAN /\ cut \in BOOLEAN
      /\ raised' \in {"none", "error", "timeout", "own"}
  BY <1>1 DEF RunInv, Types, rest
<1>3. DomainsAreOwned'
  BY <1>1, <1>2 DEF RunInv, DomainsAreOwned
<1>4. on' \in BOOLEAN /\ co' \in Phases /\ co' \in {"again", "send", "window", "disable", "over"}
      /\ co' # "again"
  BY <1>1 DEF Phases
<1>5. CASE cut
  BY <1>1, <1>3, <1>4, <1>5, Unwinds
<1>6. CASE ~cut
  <2>1. pc = "call"
    BY <1>1, <1>6, AnswersInACall
  <2>2. QED
    BY <1>1, <1>2, <1>3, <1>4, <1>6, <2>1, CallMoves
<1>7. QED
  BY <1>5, <1>6

LEMMA CutShortKeeps ==
  ASSUME RunInv, CutShort
  PROVE  RunInv'
<1>1. /\ cut /\ co' = (IF co = "window" THEN IF mine THEN "disable" ELSE "over" ELSE "over")
      /\ on' = on \/ on' = TRUE
      /\ UNCHANGED <<time, own, cut, mine, report, caller, theirs, rest, pc, step, raised>>
  BY DEF CutShort, Leaves
<1>2. UNCHANGED <<list, mine, theirs, caller, pc, step, cut>> /\ on' \in BOOLEAN /\ on \in BOOLEAN
  BY <1>1 DEF RunInv, Types, rest
<1>3. pc # "call"
  BY <1>1 DEF RunInv, CoroutineIsOwned
<1>4. theirs => on'
  <2>1. theirs => on
    BY DEF RunInv, DomainsAreOwned
  <2>2. CASE on' = on
    BY <2>1, <2>2
  <2>3. CASE on' = TRUE
    BY <2>3
  <2>4. QED
    BY <1>1, <2>2, <2>3
<1>5. DomainsAreOwned'
  BY <1>1, <1>2, <1>3, <1>4 DEF RunInv, DomainsAreOwned
<1>6. co' \in Phases
  BY <1>1 DEF Phases
<1>7. QED
  BY <1>1, <1>2, <1>5, <1>6, Unwinds

---------------------------------------------------------------------------
(* The entry of a step. What it says is right: a step is told of as in     *)
(* time only when it was, and one that came late is the last.              *)
LEMMA EntryTells ==
  ASSUME RunInv, pc = "entry"
  PROVE  /\ EntryOf \in StepStatus
         /\ EntryOf = "ok" => ~cut /\ late = Never
         /\ EntryOf = "timeout" => timeout # 0 /\ now >= timeout /\ raised # "own"
         /\ EntryOf = "failed" => raised = "own" \/ timeout = 0 \/ now < timeout
<1>1. deadline = IF timeout = 0 THEN Never ELSE timeout
  BY DEF RunInv, DeadlineStands, Running
<1>2. timeout \in Nat /\ timeout < Never /\ Never \in Nat /\ now \in Nat /\ now < Never
      /\ deadline \in Nat /\ late \in Nat /\ late <= Never
  BY Clocks, Numbers
<1>3. Overran <=> timeout # 0 /\ now >= timeout
  BY <1>1, <1>2 DEF Overran
<1>4. late # Never => Overran
  <2>1. late < Never => deadline <= late /\ late <= now
    BY DEF RunInv, GraceIsOne
  <2>2. QED
    BY <1>2, <2>1 DEF Overran
<1>5. cut => raised = "timeout"
  BY DEF RunInv, CoroutineIsOwned
<1>6. CASE raised # "none"
  BY <1>2, <1>3, <1>6 DEF EntryOf, BlamesRun, StepStatus
<1>7. CASE raised = "none"
  BY <1>2, <1>3, <1>4, <1>5, <1>7 DEF EntryOf, StepStatus
<1>8. QED
  BY <1>6, <1>7

LEMMA EnterKeeps ==
  ASSUME RunInv, Enter
  PROVE  RunInv'
<1>1. /\ UNCHANGED <<now, graceUntil, late, co, own, cut, mine, caller, theirs, on, list>>
      /\ UNCHANGED <<timeout, reached, raised>>
      /\ pc = "entry" /\ entries' = Append(entries, EntryOf) /\ until' = Never
      /\ \/ /\ EntryOf = "ok" /\ completed' = completed + 1 /\ step' = step + 1 /\ pc' = "loop"
            /\ UNCHANGED <<status, deadline>>
         \/ /\ EntryOf # "ok" /\ status' = EntryOf /\ pc' = "document" /\ deadline' = Never
            /\ UNCHANGED <<completed, step>>
  BY DEF Enter, coroutine, domains, rest
<1>2. /\ EntryOf \in StepStatus
      /\ EntryOf = "ok" => ~cut /\ late = Never
      /\ EntryOf = "timeout" => timeout # 0 /\ now >= timeout /\ raised # "own"
      /\ EntryOf = "failed" => raised = "own" \/ timeout = 0 \/ now < timeout
  BY <1>1, EntryTells
<1>3. /\ entries \in Seq(StepStatus) /\ Len(entries) \in Nat /\ Len(list) \in Nat
      /\ step = Len(entries) + 1 /\ step <= Len(list) /\ completed = Len(entries) /\ status = "ok"
      /\ \A i \in 1..Len(entries) : entries[i] = "ok"
      /\ \A i \in reached : i <= step
      /\ reached \subseteq 1..Len(list)
  BY <1>1, Clocks DEF RunInv, Types, StepsAreEntered, Running
<1>4. /\ entries' \in Seq(StepStatus) /\ Len(entries') = Len(entries) + 1
      /\ \A i \in 1..Len(entries) : entries'[i] = entries[i]
      /\ entries'[Len(entries) + 1] = EntryOf
  BY <1>1, <1>2, <1>3
<1>5. pc' \notin {"start", "refused", "call", "entry"}
  BY <1>1
<1>6. /\ list \in Lists /\ timeout \in Timeouts /\ now \in 0..MaxTime
      /\ deadline' \in 0..Never /\ until' \in 0..Never /\ own \in 0..Never /\ late \in 0..Never
      /\ graceUntil \in 0..(Never + Grace)
  BY <1>1, Numbers DEF RunInv, Types
<1>7. /\ step' \in 1..Len(list) + 1 /\ completed' \in 0..Len(entries') /\ Len(entries') <= Len(list)
  BY <1>1, <1>3, <1>4
<1>8. status' \in StepStatus /\ pc' \in Running \cup Reported
  BY <1>1, <1>2 DEF Running, Reported, RunInv, Types
<1>9. Types'
  BY <1>1, <1>4, <1>6, <1>7, <1>8 DEF RunInv, Types
<1>10. DeadlineStands' /\ OnlyValidRuns'
  BY <1>1, <1>5 DEF RunInv, DeadlineStands, OnlyValidRuns, Running
<1>11. StepsAreEntered'
  <2>1. CASE EntryOf = "ok"
    <3>1. pc' = "loop" /\ status' = "ok" /\ step' = Len(entries') + 1 /\ completed' = Len(entries')
      BY <1>1, <1>3, <1>4, <2>1
    <3>2. \A i \in 1..Len(entries') : entries'[i] = "ok"
      BY <1>3, <1>4, <2>1
    <3>3. \A i \in reached' : i < step'
      BY <1>1, <1>3, <2>1
    <3>4. QED
      BY <3>1, <3>2, <3>3 DEF StepsAreEntered, Running, Reported
  <2>2. CASE EntryOf # "ok"
    <3>1. pc' = "document" /\ status' = EntryOf /\ completed' = Len(entries) /\ status' # "ok"
      BY <1>1, <1>3, <2>2
    <3>2. \A i \in reached' : i <= Len(entries')
      BY <1>1, <1>3, <1>4, <2>2
    <3>3. completed' # Len(list')
      BY <1>1, <1>3, <3>1
    <3>4. StatusIsTrue'
      BY <1>1, <1>2, <3>1, <3>3 DEF StatusIsTrue
    <3>5. QED
      BY <3>1, <3>2, <3>4 DEF StepsAreEntered, Running, Reported
  <2>3. QED
    BY <2>1, <2>2
<1>12. CoroutineIsOwned'
  BY <1>1, <1>2, <1>5 DEF RunInv, CoroutineIsOwned, Reported
<1>13. DomainsAreOwned'
  BY <1>1 DEF RunInv, DomainsAreOwned
<1>14. GraceIsOne'
  <2>1. late = Never => graceUntil = Never + Grace
    BY DEF RunInv, GraceIsOne
  <2>2. late < Never => graceUntil = late + Grace /\ late <= now
    BY DEF RunInv, GraceIsOne
  <2>3. late < Never => pc' \in Reported
    BY <1>1, <1>2, Numbers DEF Reported
  <2>4. QED
    BY <1>1, <1>5, <2>1, <2>2, <2>3 DEF GraceIsOne
<1>15. QED
  BY <1>9, <1>10, <1>11, <1>12, <1>13, <1>14 DEF RunInv

LEMMA RunKeeps == RunInv /\ [Next]_vars => RunInv'
<1>1. SUFFICES ASSUME RunInv, [Next]_vars PROVE RunInv'
  OBVIOUS
<1>2. CASE LoopRuns
  BY <1>1, <1>2, FirstAnsweredKeeps, SendAnsweredKeeps, EnabledKeeps, WindowEndsKeeps,
     DisabledKeeps, CutShortKeeps DEF LoopRuns
<1>3. DocumentDone \/ Ended => RunInv'
  BY <1>1, ReportStands DEF DocumentDone, Ended, Reported
<1>4. StartDocument => RunInv'
  BY <1>1, RunStands DEF StartDocument
<1>5. CASE CallerRuns
  BY <1>1, <1>3, <1>4, <1>5, RefuseKeeps, BeginKeeps, RunIsOverKeeps, StartStepKeeps,
     NoSessionKeeps, SubmitKeeps, UnreadableKeeps, CallEndsKeeps, EnterKeeps DEF CallerRuns
<1>6. CASE DialogStep
  BY <1>1, <1>6, RunStands DEF DialogStep
<1>7. CASE Tick
  BY <1>1, <1>7, TickKeeps
<1>8. CASE UNCHANGED vars
  BY <1>1, <1>8, RunStands DEF vars
<1>9. QED
  BY <1>1, <1>2, <1>5, <1>6, <1>7, <1>8 DEF Next

---------------------------------------------------------------------------
LEMMA RunsAlways == Spec => [](PolicyInv /\ RunInv)
<1>1. Init => PolicyInv /\ RunInv
  BY PolicyStarts, RunStarts DEF Init
<1>2. PolicyInv /\ RunInv /\ [Next]_vars => (PolicyInv /\ RunInv)'
  BY PolicyKeeps, RunKeeps
<1>3. QED
  BY <1>1, <1>2, PTL DEF Spec

(* A line that is a step of a run on a browser that is not ours does not   *)
(* end it.                                                                 *)
LEMMA StepsSpareTheirs ==
  ASSUME NEW line, IsStep(line), External
  PROVE  line \notin EndsBrowser
BY DEF IsStep, RefusesMethod, RefusesLifetime

(* What the run document says is what was done: a refused list reached     *)
(* nothing, every step that was reached is told, and the status names what *)
(* ended the run (step_run.run_steps, step_list.parse).                    *)
THEOREM RunIsToldTheorem == Spec => []RunIsTold
<1>1. PolicyInv /\ RunInv => RunIsTold
  <2>1. SUFFICES ASSUME PolicyInv, RunInv PROVE RunIsTold
    OBVIOUS
  <2>2. DialogTypeOK
    <3>1. /\ records \in 0..MaxDialogs /\ upto \in 0..MaxDialogs
          /\ \A i \in 1..Len(dialogs) : dialogs[i] \in TaskStates
      BY <2>1, DialogAssumption DEF PolicyInv, Tasks, Counts
    <3>2. QED
      BY <2>1, <3>1 DEF PolicyInv, Marks, DialogTypeOK, TaskStates
  <2>3. TypeOK
    BY <2>1, <2>2 DEF TypeOK, RunInv, Types, Running, Reported
  <2>4. pc \notin {"start", "refused"} => \A i \in 1..Len(list) : IsStep(list[i])
    BY <2>1 DEF RunInv, OnlyValidRuns, Valid
  <2>5. RefusedRunsNothing
    BY <2>1, <2>4 DEF RefusedRunsNothing, RunInv, OnlyValidRuns
  <2>6. NeverEndsTheirs
    <3>1. reached \subseteq 1..Len(list)
      BY <2>1 DEF RunInv, Types
    <3>2. reached # {} => \A i \in 1..Len(list) : IsStep(list[i])
      BY <2>1, <2>4 DEF RunInv, OnlyValidRuns
    <3>3. QED
      BY <3>1, <3>2, StepsSpareTheirs DEF NeverEndsTheirs
  <2>7. ReachedIsTold /\ StatusIsTrue
    BY <2>1 DEF RunInv, StepsAreEntered, Reported, ReachedIsTold, StatusIsTrue
  <2>8. QED
    BY <2>3, <2>5, <2>6, <2>7 DEF RunIsTold
<1>2. QED
  BY RunsAlways, <1>1, PTL

(* The session is given back as it was found: the clean-up shares one      *)
(* grace, a domain the run enabled is disabled and one the caller had is   *)
(* not, and an answer to a dialog in flight lands (bounded_timeout,        *)
(* domains_enabled, DialogPolicy.close).                                   *)
THEOREM SessionIsGivenBackTheorem == Spec => []SessionIsGivenBack
<1>1. PolicyInv /\ RunInv => SessionIsGivenBack
  <2>1. SUFFICES ASSUME PolicyInv, RunInv PROVE SessionIsGivenBack
    OBVIOUS
  <2>2. CleanupSharesGrace
    BY <2>1 DEF RunInv, GraceIsOne, CleanupSharesGrace
  <2>3. DomainsAreRestored
    BY <2>1 DEF RunInv, CoroutineIsOwned, DomainsAreOwned, DomainsAreRestored, Reported
  <2>4. TheirsStaysOn
    BY <2>1 DEF RunInv, DomainsAreOwned, TheirsStaysOn
  <2>5. InFlightLands
    BY <2>1 DEF PolicyInv, StuckIsCut, InFlightLands
  <2>6. QED
    BY <2>2, <2>3, <2>4, <2>5 DEF SessionIsGivenBack
<1>2. QED
  BY RunsAlways, <1>1, PTL

(* The document leaves out no dialog unless it says so: when it ends,      *)
(* every task has been collected, and nothing that the last answer         *)
(* released is still to open (DialogPolicy.document).                      *)
THEOREM DocumentIsWholeTheorem == Spec => DocumentIsWhole
<1> DEFINE Whole == drain # "done" /\ drain' = "done" /\ ~truncated'
                      => ~due /\ records = Len(dialogs)
<1>1. PolicyInv /\ [Next]_vars => [Whole]_dialogVars
  <2>1. SUFFICES ASSUME PolicyInv, [Next]_vars, drain # "done", drain' = "done", ~truncated'
                 PROVE  ~due /\ records = Len(dialogs)
    OBVIOUS
  <2>2. LoopHead
    <3>1. LoopRuns \/ Tick => UNCHANGED drain
      BY DEF LoopRuns, FirstAnswered, SendAnswered, Enabled, WindowEnds, Disabled, CutShort, Tick,
             dialogVars
    <3>2. CallerRuns => drain' \in {drain, "look"}
      BY DEF CallerRuns, Refuse, Begin, RunIsOver, StartStep, NoSession, Submit, Unreadable,
             Returns, BoundPasses, Enter, StartDocument, Collect, DocumentDone, Disconnect, Ended, dialogVars
    <3>3. DialogStep => LoopHead \/ drain' \in {drain, "look"}
      BY DEF DialogStep, Opens, Vanishes, AnswerSends, AnswerLands, Gathered, SettleEnds, CloseEnds
    <3>4. UNCHANGED vars => UNCHANGED drain
      BY DEF vars, dialogVars
    <3>5. QED
      BY <2>1, <3>1, <3>2, <3>3, <3>4 DEF Next
  <2>3. records = Len(dialogs) /\ (settled \/ dialogs = <<>>)
    BY <2>1, <2>2 DEF LoopHead, Gathers, BudgetSpent
  <2>4. dialogs = <<>> => Len(dialogs) = 0
    OBVIOUS
  <2>5. Len(dialogs) \in Nat
    BY <2>1 DEF PolicyInv, Tasks
  <2>6. QED
    BY <2>1, <2>3, <2>4, <2>5 DEF PolicyInv, SettledSawAll, DueFollows
<1>2. QED
  BY RunsAlways, <1>1, PTL DEF Spec, DocumentIsWhole
=======================================================================
