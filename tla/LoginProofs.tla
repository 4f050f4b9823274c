--------------------------- MODULE LoginProofs ---------------------------
(* What bt login reports is what happened, and what it inserts is whole    *)
(* and goes where it was validated, for every number of cancellations and  *)
(* documents, every value and every pipe. The transaction's invariant is    *)
(* proved of Login's own steps, the relay's of the relay's, and the two     *)
(* meet in the one fact that nothing is inserted before both values are in. *)
EXTENDS MCLogin, TLAPS

(***************************************************************************)
(* The relay.                                                              *)
(***************************************************************************)
Answers == {"none", "value", "refused"}

RelayTypes ==
  /\ rpc \in {"idle", "spawn", "wait", "group", "finish", "stop", "end"}
  /\ alive \in SUBSET {"child", "member", "escaped"}
  /\ status \in {"none", "zero", "bad"} /\ reaped \in BOOLEAN
  /\ size \in 0..(MaxValue + 1) /\ wrote \in 0..size /\ got \in 0..wrote
  /\ reader \in {"none", "reading", "eof", "overflow", "stopped"}
  /\ halt \in BOOLEAN /\ cancel \in BOOLEAN /\ answer \in Answers

(* The reader saw the end of the pipe only when nobody could write more;   *)
(* the child exited with zero only when it had written everything.         *)
PipeIsWhole ==
  /\ reader = "eof" => got = wrote /\ alive = {}
  /\ status = "zero" => wrote = size
  /\ status # "none" => "child" \notin alive
  /\ reader \in {"reading", "eof", "stopped"} => got <= MaxValue
  /\ answer = "value" => status = "zero" /\ reader = "eof"

(* No call is under way without its child, no child outlives its call.     *)
ChildIsReaped ==
  /\ rpc \in {"idle", "spawn"} => reader = "none" /\ alive = {} /\ status = "none" /\ got = 0
  /\ rpc \in {"group", "finish"} => reaped /\ "child" \notin alive
  /\ rpc \in {"stop", "end"} /\ reader # "none" => alive \subseteq {"escaped"} /\ reaped
  /\ rpc = "end" => reader # "reading"
  /\ rpc \in {"wait", "group", "finish", "stop"} => reader # "none"
  /\ rpc = "end" /\ reader = "none" => alive = {}

RelayInv == RelayTypes /\ PipeIsWhole /\ ChildIsReaped

(***************************************************************************)
(* The transaction.                                                        *)
(***************************************************************************)
Waiting == {calls[i] : i \in DOMAIN calls}
AskedOnce ==
  \A i, j \in DOMAIN calls :
     calls[i] = calls[j] /\ calls[i] \in {"fill", "submit"} => i = j

Replies == {"none", Failed, Expired, Cancelled, "ok", "refused", "untouched", "same",
            "changed", "yes", "no", "auth", "not_yet", "lost"}
Errors == {"timed_out", "session_failed", "refused", "changed_before_fill", "success_unmet"}
Kinds == {"none", "known", "unknown", "expired", "unmet", "cancelled"}
Causes == [kind : Kinds, error : Errors \cup {"none"}]
Reports == [msg : Messages, warn : BOOLEAN]
Knowns == [frame : 0..MaxDocs, bound : 0..MaxDocs]
Pages == [doc : 1..MaxDocs, held : SUBSET {"bound", "copy"}, swapped : BOOLEAN,
          inserted : BOOLEAN, submits : Nat, auth : BOOLEAN, seen : BOOLEAN]
Processes == [pid : {"ours", "stranger", "nobody"}, port : {"ours", "stranger", "nobody"},
              peer : {"none", "ours", "stranger"}]

Types ==
  /\ pc \in Unconnected \cup Awaits \cup {"done"} /\ reply \in Replies
  /\ calls \in Seq(Calls) /\ expired \in BOOLEAN /\ cancels \in 0..MaxCancels
  /\ phase \in Phases /\ stop \in Causes /\ result \in Reports
  /\ known \in Knowns /\ page \in Pages /\ sys \in Processes

Early == Unconnected \cup {"connect", "check", "recheck"}
Over == Closing \cup {"done"}
Finals == {"final", "final_loader"}

(* What may still wait in the page, and what the command knows then: the   *)
(* calls it gave up are never forgotten.                                   *)
Queue ==
  /\ reply \notin {"none", Failed, Expired, Cancelled} => calls = <<>>
  /\ pc \in Early \cup {"relay"} => calls = <<>>
  /\ "frame" \in Waiting => pc \in {"frame"} \cup Over /\ phase = "untouched"
  /\ "begin" \in Waiting => pc \in {"begin"} \cup Over /\ phase = "untouched"
  /\ "fill" \in Waiting => phase = "fill_dispatched" /\ ~page.inserted
  /\ "submit" \in Waiting => phase = "submit_dispatched" /\ page.submits = 0
  /\ AskedOnce

(* The phase is where the command is, and what it says of the page.        *)
Progress ==
  /\ pc \in Early \cup {"frame", "begin", "relay", "loader"} => phase = "untouched"
  /\ pc = "fill" => phase = "fill_dispatched"
  /\ pc = "submit" => phase = "submit_dispatched"
  /\ pc \in {"clear1", "clear1_loader", "probe"} => phase = "submit_response" /\ page.submits = 1
  /\ pc \in Finals => phase # "untouched" /\ (stop.kind = "none" => phase = "observed_success")
  /\ pc \notin Finals \cup Over => stop = NoCause
  /\ pc \notin Over => result = Pending
  /\ phase = "untouched" => ~page.inserted
  /\ phase \in {"untouched", "fill_dispatched", "fill_response"} => page.submits = 0
  /\ page.submits <= 1
  /\ phase = "observed_success" => page.submits = 1 /\ page.seen
  /\ pc = "submit" /\ reply = "ok" => page.submits = 1
  /\ pc = "fill" /\ reply = "untouched" => ~page.inserted
  /\ pc = "probe" /\ reply = "auth" => page.seen

(* The document the fields were validated in is the one the frame held.    *)
Documents ==
  /\ known.frame <= page.doc /\ known.bound <= page.doc
  /\ phase # "untouched" => known.bound = known.frame /\ known.bound # 0
  /\ pc \in {"relay", "loader"} \/ (pc = "begin" /\ reply = "ok")
       => known.frame <= known.bound /\ known.bound # 0
  /\ pc = "loader" /\ reply = "same" => known.frame = known.bound
  /\ page.held # {} => page.inserted /\ page.doc = known.bound

(* The form holds nothing where the command says nothing.                  *)
Cleanness ==
  /\ pc = "final" /\ reply = "yes" => page.held = {}
  /\ pc = "final_loader" /\ reply = "changed" => page.held = {}
  /\ pc \in Over /\ ~result.warn => page.held = {} /\ "fill" \notin Waiting

(* What a report says.                                                     *)
Sentences ==
  /\ stop.kind \notin {"none", "cancelled"} => stop.error \in Errors
  /\ stop.kind = "unmet" => phase = "submit_response" /\ page.submits = 1
  /\ stop.error = "changed_before_fill" => phase = "untouched"
  /\ stop.error = "success_unmet" => stop.kind = "unmet"
  /\ result.msg # "finalization_failed"
  /\ result.msg = "success" => phase = "observed_success"
  /\ result.msg \in {"fill_uncertain", "changed_during_fill"} => phase = "fill_dispatched"
  /\ result.msg = "changed_before_fill" => phase = "untouched"
  /\ result.msg \in {"fill_uncertain", "submit_uncertain", "success"} => ~result.warn
  /\ result.msg = "success_unmet" => phase = "submit_response" /\ page.submits = 1

(* From the last look at the processes on, the page is the recorded one's. *)
Owner ==
  /\ pc = "recheck" /\ sys.pid = "ours" => sys.peer = "ours"
  /\ pc \in Calls \cup {"relay", "dialogs"} => sys.peer = "ours"
  /\ calls # <<>> \/ page.inserted => sys.peer = "ours"

LoginInv ==
  Types /\ Queue /\ Progress /\ Documents /\ Cleanness /\ Sentences /\ Owner

(* Where both come together: whoever may still insert has both values.     *)
InsertPoints == {"loader", "fill", "submit", "clear1", "clear1_loader", "probe"}
Filling == "fill" \in Waiting \/ page.inserted \/ pc \in InsertPoints
BothRead == Filling => fields = 2 /\ answer = "value" /\ Idle

CompositeInv == RelayInv /\ LoginInv /\ fields \in 0..2 /\ BothRead

---------------------------------------------------------------------------
(* What a call sent, and a call run, does to the queue of the session.     *)
LEMMA AskQueues ==
  ASSUME calls \in Seq(Calls), NEW c \in Calls, Ask(c),
         c \notin {"fill", "submit"} \/ calls = <<>>
  PROVE  /\ calls' \in Seq(Calls) /\ pc' = c /\ reply' \in {"none", Expired}
         /\ Waiting' \subseteq Waiting \cup {c}
         /\ AskedOnce => AskedOnce'
<1>1. CASE expired /\ c \notin Finalizing
  <2>1. calls' = calls /\ pc' = c /\ reply' = Expired
    BY <1>1 DEF Ask
  <2>2. QED
    BY <2>1 DEF Waiting, AskedOnce
<1>2. CASE ~(expired /\ c \notin Finalizing)
  <2>1. calls' = Append(calls, c) /\ pc' = c /\ reply' = "none"
    BY <1>2 DEF Ask
  <2>2. /\ calls' \in Seq(Calls) /\ DOMAIN calls = 1..Len(calls)
        /\ Len(calls) \in Nat /\ DOMAIN calls' = 1..(Len(calls) + 1)
        /\ \A i \in 1..Len(calls) : calls'[i] = calls[i]
        /\ calls'[Len(calls) + 1] = c
    BY <2>1
  <2>3. Waiting' \subseteq Waiting \cup {c}
    BY <2>2 DEF Waiting
  <2>4. calls = <<>> => Len(calls) = 0
    OBVIOUS
  <2>5. AskedOnce => AskedOnce'
    BY <2>2, <2>4 DEF AskedOnce
  <2>6. QED
    BY <2>1, <2>2, <2>3, <2>5
<1>3. QED
  BY <1>1, <1>2

LEMMA AnsweredPops ==
  ASSUME calls \in Seq(Calls), calls # <<>>, NEW a, Answered(Head(calls), a)
  PROVE  /\ calls' \in Seq(Calls) /\ Head(calls) \in Waiting /\ Waiting \subseteq Calls
         /\ Waiting' \subseteq Waiting
         /\ AskedOnce => AskedOnce'
         /\ AskedOnce /\ Head(calls) \in {"fill", "submit"} => Head(calls) \notin Waiting'
         /\ \/ reply' = reply
            \/ reply' = a /\ pc = Head(calls) /\ calls' = <<>> /\ Waiting' = {}
<1>1. calls' = Tail(calls)
  BY DEF Answered
<1>2. /\ calls' \in Seq(Calls) /\ DOMAIN calls = 1..Len(calls) /\ Len(calls) \in Nat \ {0}
      /\ DOMAIN calls' = 1..(Len(calls) - 1) /\ Head(calls) = calls[1]
      /\ \A i \in 1..(Len(calls) - 1) : calls'[i] = calls[i + 1]
  BY <1>1
<1>3. Head(calls) \in Waiting /\ Waiting \subseteq Calls /\ Waiting' \subseteq Waiting
  BY <1>2 DEF Waiting
<1>4. ASSUME AskedOnce PROVE AskedOnce'
  <2>1. SUFFICES ASSUME NEW i \in DOMAIN calls', NEW j \in DOMAIN calls',
                        calls'[i] = calls'[j], calls'[i] \in {"fill", "submit"}
                 PROVE  i = j
    BY DEF AskedOnce
  <2>2. /\ i \in 1..(Len(calls) - 1) /\ j \in 1..(Len(calls) - 1)
        /\ i + 1 \in DOMAIN calls /\ j + 1 \in DOMAIN calls
        /\ calls'[i] = calls[i + 1] /\ calls'[j] = calls[j + 1]
    BY <1>2
  <2>3. i + 1 = j + 1
    BY <2>1, <2>2, <1>4 DEF AskedOnce
  <2>4. QED
    BY <2>2, <2>3
<1>5. AskedOnce /\ Head(calls) \in {"fill", "submit"} => Head(calls) \notin Waiting'
  BY <1>2 DEF AskedOnce, Waiting
<1>6. Len(calls) = 1 => calls' = <<>> /\ Waiting' = {}
  BY <1>1, <1>2 DEF Waiting
<1>7. QED
  BY <1>2, <1>3, <1>4, <1>5, <1>6 DEF Answered

LEMMA NothingWaits == calls = <<>> => Waiting = {}
BY DEF Waiting

LEMMA ReportFields ==
  ASSUME NEW m \in Messages
  PROVE  /\ Report(m) \in Reports /\ Report(m).msg = m /\ Report(m).warn = FALSE
         /\ Warned(m) \in Reports /\ Warned(m).msg = m /\ Warned(m).warn = TRUE
BY DEF Report, Warned, Reports

(* diagnosis, case by case: what it may say, and that it warns whenever the *)
(* final clear is uncertain.                                               *)
LEMMA DiagnosisSays ==
  ASSUME NEW ph \in Phases, NEW cause \in Causes, NEW cleared \in {"yes", "no", "replaced"},
         cause.kind \notin {"none", "cancelled"} => cause.error \in Errors,
         cause.kind = "none" => ph = "observed_success",
         ph = "untouched" => cause.kind # "unmet"
  PROVE  LET d == Diagnosis(ph, cause, cleared) IN
           /\ d \in Reports
           /\ d.msg # "finalization_failed"
           /\ ph # "untouched" /\ cleared = "no" => d.warn
           /\ d.msg = "success" => ph = "observed_success"
           /\ d.msg \in {"fill_uncertain", "changed_during_fill"} => ph = "fill_dispatched"
           /\ d.msg \in {"changed_before_fill", "success_unmet"} => cause.error = d.msg
                                                /\ cause.kind \notin {"none", "cancelled"}
           /\ d.msg \in {"fill_uncertain", "submit_uncertain", "success"} => ~d.warn
<1>1. CASE ph = "untouched"
  <2>1. Diagnosis(ph, cause, cleared) = DiagnosisUntouched(cause)
    BY <1>1 DEF Diagnosis, Dispatched
  <2>2. cause.kind \in {"known", "unknown", "expired", "cancelled"}
    BY <1>1 DEF Causes, Kinds
  <2>3. CASE cause.kind = "cancelled"
    <3>1. Diagnosis(ph, cause, cleared) = Report("cancelled")
      BY <2>1, <2>3 DEF DiagnosisUntouched, Propagate
    <3>2. QED
      BY <1>1, <3>1, ReportFields DEF Messages
  <2>4. CASE cause.kind # "cancelled"
    <3>1. Diagnosis(ph, cause, cleared) = Report(cause.error) /\ cause.error \in Errors
      BY <2>1, <2>2, <2>4 DEF DiagnosisUntouched
    <3>2. cause.error \in Messages \ {"finalization_failed", "success", "fill_uncertain",
                                      "submit_uncertain", "changed_during_fill"}
      BY <3>1 DEF Errors, Messages
    <3>3. QED
      BY <1>1, <2>2, <2>4, <3>1, <3>2, ReportFields
  <2>5. QED
    BY <2>3, <2>4
<1>2. CASE ph # "untouched" /\ cause.kind = "cancelled"
  <2>1. Diagnosis(ph, cause, cleared) = DiagnosisCancelled(ph, cleared)
    BY <1>2 DEF Diagnosis
  <2>2. QED
    BY <1>2, <2>1 DEF DiagnosisCancelled, Propagate, MayRemain, Warned, Report, Reports,
                      Messages, Phases, Dispatched
<1>3. CASE ph # "untouched" /\ cause.kind = "none"
  <2>1. Diagnosis(ph, cause, cleared) = DiagnosisNoCause(ph, cleared)
    BY <1>3 DEF Diagnosis
  <2>2. QED
    BY <1>3, <2>1 DEF DiagnosisNoCause, MayRemain, Warned, Report, Reports, Messages
<1>4. CASE ph \in Dispatched /\ cause.kind \in {"unknown", "expired"}
  <2>1. Diagnosis(ph, cause, cleared) = DiagnosisUncertain(ph, cleared)
    BY <1>4 DEF Diagnosis, Dispatched
  <2>2. QED
    BY <1>4, <2>1 DEF DiagnosisUncertain, MayRemain, Warned, Report, Reports, Messages,
                      Dispatched
<1>5. CASE /\ ph # "untouched" /\ cause.kind \notin {"none", "cancelled"}
           /\ ~(ph \in Dispatched /\ cause.kind \in {"unknown", "expired"})
  <2>1. Diagnosis(ph, cause, cleared) =
          IF cause.kind = "unmet"
          THEN IF cleared = "no" THEN MayRemain ELSE Report(cause.error)
          ELSE IF cleared = "no" THEN Warned(cause.error) ELSE Report(cause.error)
    BY <1>5 DEF Diagnosis
  <2>2. cause.error \in Messages \ {"finalization_failed", "success", "fill_uncertain",
                                    "submit_uncertain", "changed_during_fill"}
    BY <1>5 DEF Errors, Messages
  <2>3. CASE Diagnosis(ph, cause, cleared) = Warned("fields_may_remain")
    BY <2>3, ReportFields DEF Messages
  <2>4. CASE Diagnosis(ph, cause, cleared) = Warned(cause.error)
    BY <1>5, <2>2, <2>4, ReportFields
  <2>5. CASE cleared # "no" /\ Diagnosis(ph, cause, cleared) = Report(cause.error)
    BY <1>5, <2>2, <2>5, ReportFields
  <2>6. QED
    BY <2>1, <2>3, <2>4, <2>5 DEF MayRemain
<1>6. QED
  BY <1>1, <1>2, <1>3, <1>4, <1>5

---------------------------------------------------------------------------
(* The command's exits, each met in several of its steps.                  *)
PlainMessages == {"cancelled", "usage", "timed_out", "not_owner", "relay_failed",
                  "not_connected", "session_failed", "refused"}

LEMMA PlainReports ==
  ASSUME NEW m \in PlainMessages
  PROVE  Report(m) \in Reports /\ Report(m).msg = m /\ Report(m).warn = FALSE
<1>1. m \in Messages
  BY DEF PlainMessages, Messages
<1>2. QED
  BY <1>1, ReportFields

(* An end before anything was inserted: at once, to the teardown, or past  *)
(* the dialog guard.                                                       *)
LEMMA PlainExit ==
  ASSUME LoginInv, phase = "untouched", NEW m \in PlainMessages, NEW p \in Over,
         result' = Report(m), Goto(p), UNCHANGED <<phase, stop, world>>,
         p = "dialogs" => sys.peer = "ours"
  PROVE  LoginInv'
<1>1. /\ pc' = p /\ reply' = "none" /\ calls' = calls /\ phase' = phase /\ stop' = stop
      /\ known' = known /\ page' = page /\ sys' = sys /\ expired' = expired
      /\ cancels' = cancels /\ Waiting' = Waiting /\ AskedOnce' = AskedOnce
  BY DEF Goto, world, Waiting, AskedOnce
<1>2. /\ result' \in Reports /\ result'.msg = m /\ result'.warn = FALSE
  BY PlainReports
<1>3. /\ p \in Over /\ m \in PlainMessages
      /\ Types /\ Queue /\ Progress /\ Documents /\ Cleanness /\ Sentences /\ Owner
  BY DEF LoginInv
<1>4. Types'
  <2>1. pc' \in Unconnected \cup Awaits \cup {"done"} /\ reply' \in Replies
    BY <1>1, <1>3 DEF Over, Awaits, Replies
  <2>2. QED
    BY <1>1, <1>2, <1>3, <2>1 DEF Types
<1>5. Queue'
  BY <1>1, <1>3 DEF Queue, Over, Early, Closing, Unconnected
<1>6. Progress'
  BY <1>1, <1>3 DEF Progress, Over, Early, Closing, Finals
<1>7. Documents'
  BY <1>1, <1>3 DEF Documents, Over, Closing
<1>8. Cleanness'
  BY <1>1, <1>3 DEF Cleanness, Over, Closing, Documents, Progress, Queue
<1>9. Sentences'
  BY <1>1, <1>2, <1>3 DEF Sentences, PlainMessages
<1>10. Owner'
  BY <1>1, <1>3 DEF Owner, Over, Closing, Calls, BoundCalls, Finalizing
<1>11. QED
  BY <1>4, <1>5, <1>6, <1>7, <1>8, <1>9, <1>10 DEF LoginInv

(* _finalize, entered with any cause the work can end with.                *)
LEMMA StopsKeeps ==
  ASSUME LoginInv, NEW ph \in Phases, NEW cause \in Causes, Stops(ph, cause), UNCHANGED world,
         sys.peer = "ours", pc \notin Over \cup Finals,
         cause.kind # "none", cause.kind # "cancelled" => cause.error \in Errors,
         cause.error = "success_unmet" => cause.kind = "unmet",
         cause.error = "changed_before_fill" => ph = "untouched",
         cause.kind = "unmet" => ph = "submit_response" /\ page.submits = 1,
         ph # "observed_success",
         ph = "untouched" => ~page.inserted,
         ph # "untouched" => phase # "untouched",
         "fill" \in Waiting => ph = "fill_dispatched",
         "submit" \in Waiting => ph = "submit_dispatched",
         ph \in {"untouched", "fill_dispatched", "fill_response"} => page.submits = 0
  PROVE  LoginInv'
<1>1. /\ phase' = ph /\ stop' = cause /\ known' = known /\ page' = page /\ sys' = sys
      /\ expired' = expired /\ cancels' = cancels
  BY DEF Stops, world
<1>2. /\ ph \in Phases /\ cause \in Causes
      /\ Types /\ Queue /\ Progress /\ Documents /\ Cleanness /\ Sentences /\ Owner
  BY DEF LoginInv
<1>3. CASE ph = "untouched"
  <2>1. /\ result' = Diagnosis(ph, cause, "yes") /\ pc' = "dialogs" /\ reply' = "none"
        /\ calls' = calls /\ Waiting' = Waiting /\ AskedOnce' = AskedOnce
    BY <1>3 DEF Stops, Conclude, Goto, Waiting, AskedOnce
  <2>2. /\ result' \in Reports /\ result'.msg # "finalization_failed"
        /\ result'.msg \notin {"success", "fill_uncertain", "changed_during_fill"}
        /\ result'.msg \in {"changed_before_fill", "success_unmet"} =>
             cause.error = result'.msg /\ cause.kind \notin {"none", "cancelled"}
        /\ result'.msg \in {"fill_uncertain", "submit_uncertain", "success"} => ~result'.warn
    BY <1>3, <2>1, DiagnosisSays
  <2>3. Types'
    <3>1. pc' \in Unconnected \cup Awaits \cup {"done"} /\ reply' \in Replies
      BY <2>1 DEF Closing, Awaits, Replies
    <3>2. QED
      BY <1>1, <1>2, <2>1, <2>2, <3>1 DEF Types
  <2>4. Queue'
    BY <1>1, <1>2, <1>3, <2>1 DEF Queue, Over, Early, Closing, Unconnected
  <2>5. Progress'
    BY <1>1, <1>2, <1>3, <2>1 DEF Progress, Over, Early, Closing, Finals, Unconnected
  <2>6. Documents'
    BY <1>1, <1>2, <1>3, <2>1 DEF Documents
  <2>7. Cleanness'
    BY <1>1, <1>2, <1>3, <2>1 DEF Cleanness, Documents
  <2>8. Sentences'
    BY <1>1, <1>2, <1>3, <2>1, <2>2 DEF Sentences
  <2>9. Owner'
    BY <1>1, <1>2, <2>1 DEF Owner
  <2>10. QED
    BY <2>3, <2>4, <2>5, <2>6, <2>7, <2>8, <2>9 DEF LoginInv
<1>4. CASE ph # "untouched"
  <2>1. Ask("final") /\ result' = result
    BY <1>4 DEF Stops
  <2>2. /\ calls' \in Seq(Calls) /\ pc' = "final" /\ reply' \in {"none", Expired}
        /\ Waiting' \subseteq Waiting \cup {"final"}
        /\ AskedOnce => AskedOnce'
    BY <1>2, <2>1, AskQueues DEF Types, Calls, Finalizing
  <2>3. Types'
    BY <1>1, <1>2, <2>1, <2>2 DEF Types, Awaits, Calls, Finalizing, Replies
  <2>4. Queue'
    BY <1>1, <1>2, <1>4, <2>2 DEF Queue, Over, Early, Unconnected
  <2>5. Progress'
    BY <1>1, <1>2, <1>4, <2>1, <2>2 DEF Progress, Over, Early, Closing, Finals, Unconnected
  <2>6. Documents'
    BY <1>1, <1>2, <1>4, <2>2 DEF Documents
  <2>7. Cleanness'
    BY <2>2 DEF Cleanness, Over, Closing, Expired
  <2>8. Sentences'
    BY <1>1, <1>2, <1>4, <2>1 DEF Sentences, Progress, Pending, Report
  <2>9. Owner'
    BY <1>1, <1>2, <2>2 DEF Owner
  <2>10. QED
    BY <2>3, <2>4, <2>5, <2>6, <2>7, <2>8, <2>9 DEF LoginInv
<1>5. QED
  BY <1>3, <1>4

(* The report is chosen: after it the page may not fill what it calls clean. *)
LEMMA ConcludeKeeps ==
  ASSUME LoginInv, NEW r \in Reports, Conclude(r), UNCHANGED <<phase, stop, world>>,
         pc \notin Over, phase # "untouched", sys.peer = "ours",
         ~r.warn => page.held = {} /\ "fill" \notin Waiting,
         r.msg # "finalization_failed",
         r.msg = "success" => phase = "observed_success",
         r.msg \in {"fill_uncertain", "changed_during_fill"} => phase = "fill_dispatched",
         r.msg # "changed_before_fill",
         r.msg \in {"fill_uncertain", "submit_uncertain", "success"} => ~r.warn,
         r.msg = "success_unmet" => phase = "submit_response" /\ page.submits = 1
  PROVE  LoginInv'
<1>1. /\ pc' = "dialogs" /\ reply' = "none" /\ calls' = calls /\ phase' = phase
      /\ stop' = stop /\ result' = r /\ known' = known /\ page' = page /\ sys' = sys
      /\ expired' = expired /\ cancels' = cancels /\ Waiting' = Waiting
      /\ AskedOnce' = AskedOnce
  BY DEF Conclude, Goto, world, Waiting, AskedOnce
<1>2. /\ r \in Reports
      /\ Types /\ Queue /\ Progress /\ Documents /\ Cleanness /\ Sentences /\ Owner
  BY DEF LoginInv
<1>3. Types'
  <2>1. pc' \in Unconnected \cup Awaits \cup {"done"} /\ reply' \in Replies
    BY <1>1 DEF Closing, Awaits, Replies
  <2>2. QED
    BY <1>1, <1>2, <2>1 DEF Types
<1>4. Queue'
  BY <1>1, <1>2 DEF Queue, Over, Early, Closing, Unconnected
<1>5. Progress'
  BY <1>1, <1>2 DEF Progress, Over, Early, Closing, Finals, Unconnected
<1>6. Documents'
  BY <1>1, <1>2 DEF Documents
<1>7. Cleanness'
  BY <1>1, <1>2 DEF Cleanness
<1>8. Sentences'
  BY <1>1, <1>2 DEF Sentences
<1>9. Owner'
  BY <1>1, <1>2 DEF Owner
<1>10. QED
  BY <1>3, <1>4, <1>5, <1>6, <1>7, <1>8, <1>9 DEF LoginInv

(* One step forward before the first call of the session.                  *)
LEMMA ForwardKeeps ==
  ASSUME LoginInv, NEW p \in Early \cup {"relay"}, Goto(p),
         calls = <<>>, phase = "untouched", stop = NoCause, result = Pending,
         UNCHANGED <<expired, cancels, phase, stop, result, known, page>>,
         sys' \in Processes,
         p = "relay" => /\ known.frame <= known.bound /\ known.bound # 0
                        /\ sys'.peer = "ours",
         p = "recheck" /\ sys'.pid = "ours" => sys'.peer = "ours"
  PROVE  LoginInv'
<1>1. /\ pc' = p /\ reply' = "none" /\ calls' = calls /\ phase' = phase
      /\ stop' = stop /\ result' = result /\ known' = known /\ page' = page
      /\ expired' = expired /\ cancels' = cancels /\ Waiting' = Waiting /\ Waiting = {}
      /\ AskedOnce' = AskedOnce
  BY NothingWaits DEF Goto, Waiting, AskedOnce
<1>2. /\ p \in Early \cup {"relay"}
      /\ Types /\ Queue /\ Progress /\ Documents /\ Cleanness /\ Sentences /\ Owner
  BY DEF LoginInv
<1>3. Types'
  <2>1. pc' \in Unconnected \cup Awaits \cup {"done"} /\ reply' \in Replies
    BY <1>1, <1>2 DEF Early, Awaits, Replies
  <2>2. QED
    BY <1>1, <1>2, <2>1 DEF Types
<1>4. Queue'
  BY <1>1, <1>2 DEF Queue
<1>5. Progress'
  BY <1>1, <1>2 DEF Progress, Over, Early, Closing, Finals, Unconnected
<1>6. Documents'
  BY <1>1, <1>2 DEF Documents, Early, Unconnected
<1>7. Cleanness'
  BY <1>1, <1>2 DEF Cleanness, Early, Unconnected, Over, Closing
<1>8. Sentences'
  BY <1>1, <1>2 DEF Sentences
<1>9. Owner'
  BY <1>1, <1>2 DEF Owner, Progress, Early, Unconnected, Calls, BoundCalls, Finalizing
<1>10. QED
  BY <1>3, <1>4, <1>5, <1>6, <1>7, <1>8, <1>9 DEF LoginInv

(* The next call is sent, in the phase that belongs to it.                 *)
LEMMA AskKeeps ==
  ASSUME LoginInv, NEW c \in Calls, NEW ph \in Phases, Ask(c), phase' = ph,
         UNCHANGED <<stop, result, world>>, result = Pending,
         sys.peer = "ours", ph = phase \/ stop = NoCause,
         c \in {"frame", "begin", "fill", "submit"} => calls = <<>>,
         "frame" \notin Waiting, "begin" \notin Waiting,
         "fill" \in Waiting => ph = "fill_dispatched",
         "submit" \in Waiting => ph = "submit_dispatched",
         c \in {"frame", "begin", "loader"} => ph = "untouched",
         c = "fill" => ph = "fill_dispatched" /\ ~page.inserted,
         c = "submit" => ph = "submit_dispatched" /\ page.submits = 0,
         c \in {"clear1", "clear1_loader", "probe"} => ph = "submit_response" /\ page.submits = 1,
         c \in Finals => ph # "untouched" /\ (stop.kind = "none" => ph = "observed_success"),
         c \notin Finals => stop = NoCause,
         ph = "untouched" => ~page.inserted,
         ph \in {"untouched", "fill_dispatched", "fill_response"} => page.submits = 0,
         ph = "observed_success" => page.submits = 1 /\ page.seen,
         ph # "untouched" => known.bound = known.frame /\ known.bound # 0,
         c = "loader" => known.frame <= known.bound /\ known.bound # 0
  PROVE  LoginInv'
<1>1. /\ phase' = ph /\ stop' = stop /\ result' = result /\ known' = known /\ page' = page
      /\ sys' = sys /\ expired' = expired /\ cancels' = cancels
  BY DEF world
<1>2. /\ c \in Calls /\ ph \in Phases
      /\ Types /\ Queue /\ Progress /\ Documents /\ Cleanness /\ Sentences /\ Owner
  BY DEF LoginInv
<1>3. /\ calls' \in Seq(Calls) /\ pc' = c /\ reply' \in {"none", Expired}
      /\ Waiting' \subseteq Waiting \cup {c}
      /\ AskedOnce => AskedOnce'
  BY <1>2, AskQueues DEF Types
<1>4. c \notin Over \cup Early \cup {"relay", "recheck"}
  BY <1>2 DEF Calls, BoundCalls, Finalizing, Over, Closing, Early, Unconnected
<1>5. Types'
  <2>1. pc' \in Unconnected \cup Awaits \cup {"done"} /\ reply' \in Replies
    BY <1>2, <1>3 DEF Awaits, Replies
  <2>2. QED
    BY <1>1, <1>2, <1>3, <2>1 DEF Types
<1>6. Queue'
  BY <1>1, <1>2, <1>3, <1>4 DEF Queue, Expired
<1>7. Progress'
  BY <1>1, <1>2, <1>3, <1>4 DEF Progress, Expired, Finals, Early
<1>8. Documents'
  BY <1>1, <1>2, <1>3, <1>4 DEF Documents, Expired
<1>9. Cleanness'
  BY <1>3, <1>4 DEF Cleanness, Expired
<1>10. Sentences'
  BY <1>1, <1>2 DEF Sentences, NoCause, Pending, Report
<1>11. Owner'
  BY <1>1, <1>2, <1>3, <1>4 DEF Owner
<1>12. QED
  BY <1>5, <1>6, <1>7, <1>8, <1>9, <1>10, <1>11 DEF LoginInv

---------------------------------------------------------------------------
(* The steps of the command.                                               *)
LEMMA EarlyFacts ==
  ASSUME LoginInv, pc \in Early
  PROVE  /\ calls = <<>> /\ phase = "untouched" /\ stop = NoCause /\ result = Pending
         /\ known \in Knowns /\ sys \in Processes /\ pc \notin Over
BY DEF LoginInv, Types, Queue, Progress, Early, Unconnected, Finals, Over, Closing

LEMMA LoadPolicyKeeps == LoginInv /\ LoadPolicy => LoginInv'
<1>1. SUFFICES ASSUME LoginInv, LoadPolicy PROVE LoginInv'
  OBVIOUS
<1>2. pc \in Early
  BY <1>1 DEF LoadPolicy, Early, Unconnected
<1>3. CASE Refuses("usage")
  BY <1>1, <1>2, <1>3, EarlyFacts, PlainExit DEF Refuses, PlainMessages, Over
<1>4. CASE Goto("owner") /\ UNCHANGED <<phase, stop, result, world>>
  BY <1>1, <1>2, <1>4, EarlyFacts, ForwardKeeps DEF world, Early, Unconnected
<1>5. QED
  BY <1>1, <1>3, <1>4 DEF LoadPolicy

LEMMA VerifyRecordedOwnerKeeps == LoginInv /\ VerifyRecordedOwner => LoginInv'
<1>1. SUFFICES ASSUME LoginInv, VerifyRecordedOwner PROVE LoginInv'
  OBVIOUS
<1>2. pc \in Early
  BY <1>1 DEF VerifyRecordedOwner, Early, Unconnected
<1>3. CASE Refuses("timed_out") \/ Refuses("not_owner")
  BY <1>1, <1>2, <1>3, EarlyFacts, PlainExit DEF Refuses, PlainMessages, Over
<1>4. CASE Goto("relay_probe") /\ UNCHANGED <<phase, stop, result, world>>
  BY <1>1, <1>2, <1>4, EarlyFacts, ForwardKeeps DEF world, Early, Unconnected
<1>5. QED
  BY <1>1, <1>3, <1>4 DEF VerifyRecordedOwner

LEMMA EnsureRelayReadyKeeps == LoginInv /\ EnsureRelayReady => LoginInv'
<1>1. SUFFICES ASSUME LoginInv, EnsureRelayReady PROVE LoginInv'
  OBVIOUS
<1>2. pc \in Early
  BY <1>1 DEF EnsureRelayReady, Early, Unconnected
<1>3. CASE Refuses("timed_out") \/ Refuses("relay_failed")
  BY <1>1, <1>2, <1>3, EarlyFacts, PlainExit DEF Refuses, PlainMessages, Over
<1>4. CASE Goto("connect") /\ UNCHANGED <<phase, stop, result, world>>
  BY <1>1, <1>2, <1>4, EarlyFacts, ForwardKeeps DEF world, Early, Unconnected
<1>5. QED
  BY <1>1, <1>3, <1>4 DEF EnsureRelayReady

LEMMA ConnectKeeps == LoginInv /\ Connect => LoginInv'
<1>1. SUFFICES ASSUME LoginInv, Connect PROVE LoginInv'
  OBVIOUS
<1>2. pc \in Early
  BY <1>1 DEF Connect, Early, Unconnected
<1>3. CASE Refuses("cancelled") \/ Refuses("timed_out") \/ Refuses("not_connected")
  BY <1>1, <1>2, <1>3, EarlyFacts, PlainExit DEF Refuses, PlainMessages, Over
<1>4. CASE /\ sys.port # "nobody" /\ sys' = [sys EXCEPT !.peer = sys.port] /\ Goto("check")
           /\ UNCHANGED <<expired, cancels, phase, stop, result, known, page>>
  <2>1. sys' \in Processes
    BY <1>1, <1>2, <1>4, EarlyFacts DEF Processes
  <2>2. QED
    BY <1>1, <1>2, <1>4, <2>1, EarlyFacts, ForwardKeeps DEF Early, Unconnected
<1>5. QED
  BY <1>1, <1>3, <1>4 DEF Connect

LEMMA VerifyConnectedBrowserKeeps == LoginInv /\ VerifyConnectedBrowser => LoginInv'
<1>1. SUFFICES ASSUME LoginInv, VerifyConnectedBrowser PROVE LoginInv'
  OBVIOUS
<1>2. pc \in Early
  BY <1>1 DEF VerifyConnectedBrowser, Early, Unconnected
<1>3. CASE Leaves("cancelled") \/ Leaves("timed_out") \/ Leaves("not_owner")
  BY <1>1, <1>2, <1>3, EarlyFacts, PlainExit DEF Leaves, PlainMessages, Over, Closing
<1>4. CASE /\ PeerAtRecordedPid /\ Goto("recheck")
           /\ UNCHANGED <<phase, stop, result, world>>
  BY <1>1, <1>2, <1>4, EarlyFacts, ForwardKeeps DEF world, Early, Unconnected, PeerAtRecordedPid
<1>5. QED
  BY <1>1, <1>3, <1>4 DEF VerifyConnectedBrowser

LEMMA RecheckIdentityKeeps == LoginInv /\ RecheckIdentity => LoginInv'
<1>1. SUFFICES ASSUME LoginInv, RecheckIdentity PROVE LoginInv'
  OBVIOUS
<1>2. pc \in Early
  BY <1>1 DEF RecheckIdentity, Early
<1>3. CASE Leaves("cancelled") \/ Leaves("timed_out") \/ Leaves("not_owner")
  BY <1>1, <1>2, <1>3, EarlyFacts, PlainExit DEF Leaves, PlainMessages, Over, Closing
<1>4. CASE IdentityHolds /\ Ask("frame") /\ UNCHANGED <<phase, stop, result, world>>
  <2>1. sys.peer = "ours" /\ ~page.inserted /\ page.submits = 0
    BY <1>1, <1>2, <1>4, EarlyFacts
       DEF LoginInv, Owner, Progress, RecheckIdentity, IdentityHolds
  <2>2. "frame" \in Calls /\ "untouched" \in Phases /\ "frame" \notin Finals /\ Waiting = {}
    BY <1>1, <1>2, EarlyFacts, NothingWaits DEF Calls, Phases, Finals
  <2>3. QED
    BY <1>1, <1>2, <1>4, <2>1, <2>2, EarlyFacts, AskKeeps
<1>5. QED
  BY <1>1, <1>3, <1>4 DEF RecheckIdentity

LEMMA ReadFrameKeeps == LoginInv /\ ReadFrame => LoginInv'
<1>1. SUFFICES ASSUME LoginInv, ReadFrame PROVE LoginInv'
  OBVIOUS
<1>2. /\ pc = "frame" /\ phase = "untouched" /\ stop = NoCause /\ result = Pending
      /\ sys.peer = "ours" /\ ~page.inserted /\ page.submits = 0
  BY <1>1 DEF ReadFrame, LoginInv, Progress, Owner, Finals, Over, Closing, Calls
<1>3. CASE Ended
  <2>1. PICK m \in {"session_failed", "timed_out", "cancelled"} : Leaves(m)
    BY <1>1, <1>3 DEF ReadFrame, Ended, Failed, Expired, Cancelled
  <2>2. QED
    BY <1>1, <1>2, <2>1, PlainExit DEF Leaves, PlainMessages, Over, Closing
<1>4. CASE reply = "ok" /\ Ask("begin") /\ UNCHANGED <<phase, stop, result, world>>
  <2>1. calls = <<>> /\ Waiting = {}
    BY <1>1, <1>4, NothingWaits DEF LoginInv, Queue, Failed, Expired, Cancelled
  <2>2. "begin" \in Calls /\ "untouched" \in Phases /\ "begin" \notin Finals
    BY DEF Calls, Phases, Finals
  <2>3. QED
    BY <1>1, <1>2, <1>4, <2>1, <2>2, AskKeeps
<1>5. QED
  BY <1>1, <1>3, <1>4 DEF ReadFrame

(* The causes _finalize is entered with.                                   *)
LEMMA CauseFacts ==
  /\ \A k \in Kinds, e \in Errors \cup {"none"} :
       Cause(k, e) \in Causes /\ Cause(k, e).kind = k /\ Cause(k, e).error = e
  /\ Ended => /\ CauseOf(reply) \in Causes
              /\ CauseOf(reply).kind \in {"expired", "cancelled", "unknown"}
              /\ CauseOf(reply).kind # "cancelled"
                   => CauseOf(reply).error \in {"timed_out", "session_failed"}
              /\ CauseOf(reply).error \notin {"success_unmet", "changed_before_fill"}
  /\ /\ CauseOf(Expired) \in Causes /\ CauseOf(Expired).kind = "expired"
     /\ CauseOf(Expired).error = "timed_out"
<1>1. \A k \in Kinds, e \in Errors \cup {"none"} :
        Cause(k, e) \in Causes /\ Cause(k, e).kind = k /\ Cause(k, e).error = e
  BY DEF Cause, Causes
<1>2. /\ {"known", "unknown", "expired", "unmet", "cancelled"} \subseteq Kinds
      /\ {"timed_out", "session_failed", "refused", "success_unmet", "none"}
           \subseteq Errors \cup {"none"}
  BY DEF Kinds, Errors
<1>3. Ended => CauseOf(reply) \in {Cause("expired", "timed_out"), Cause("cancelled", "none"),
                                   Cause("unknown", "session_failed")}
  BY DEF CauseOf, Expired, Cancelled
<1>4. CauseOf(Expired) = Cause("expired", "timed_out")
  BY DEF CauseOf, Expired, Cancelled
<1>5. QED
  BY <1>1, <1>2, <1>3, <1>4

(* Before the fill: any cause the work ends with, and no fill in the page. *)
LEMMA StopsUntouched ==
  ASSUME LoginInv, pc \in {"begin", "relay", "loader"}, UNCHANGED world,
         NEW cause \in Causes, Stops(phase, cause),
         cause.kind \notin {"none", "unmet"},
         cause.kind # "cancelled" => cause.error \in Errors,
         cause.error # "success_unmet"
  PROVE  LoginInv'
<1>1. /\ phase = "untouched" /\ ~page.inserted /\ page.submits = 0 /\ phase \in Phases
      /\ "fill" \notin Waiting /\ "submit" \notin Waiting /\ sys.peer = "ours"
      /\ pc \notin Over \cup Finals
  BY DEF LoginInv, Types, Queue, Progress, Owner, Calls, Over, Closing, Finals
<1>2. QED
  BY <1>1, StopsKeeps

LEMMA ValidateKeeps == LoginInv /\ Validate => LoginInv'
<1>1. SUFFICES ASSUME LoginInv, Validate PROVE LoginInv'
  OBVIOUS
<1>2. /\ pc = "begin" /\ phase = "untouched" /\ stop = NoCause /\ result = Pending
      /\ sys.peer = "ours" /\ sys \in Processes
  BY <1>1 DEF Validate, LoginInv, Types, Progress, Owner, Finals, Over, Closing, Calls
<1>3. CASE Ended /\ Stops(phase, CauseOf(reply)) /\ UNCHANGED world
  BY <1>1, <1>2, <1>3, CauseFacts, StopsUntouched DEF Errors
<1>4. CASE Stops(phase, Cause("known", "refused")) /\ UNCHANGED world
  <2>1. "known" \in Kinds /\ "refused" \in Errors
    BY DEF Kinds, Errors
  <2>2. QED
    BY <1>1, <1>2, <1>4, <2>1, CauseFacts, StopsUntouched
<1>5. CASE reply = "ok" /\ Goto("relay") /\ UNCHANGED <<phase, stop, result, world>>
  <2>1. calls = <<>> /\ known.frame <= known.bound /\ known.bound # 0
    BY <1>1, <1>2, <1>5 DEF LoginInv, Queue, Documents, Failed, Expired, Cancelled
  <2>2. QED
    BY <1>1, <1>2, <1>5, <2>1, ForwardKeeps DEF world
<1>6. QED
  BY <1>1, <1>3, <1>4, <1>5 DEF Validate

LEMMA ReadCredentialsKeeps == LoginInv /\ ReadCredentials => LoginInv'
<1>1. SUFFICES ASSUME LoginInv, ReadCredentials PROVE LoginInv'
  OBVIOUS
<1>2. /\ pc = "relay" /\ phase = "untouched" /\ stop = NoCause /\ result = Pending
      /\ sys.peer = "ours" /\ ~page.inserted /\ page.submits = 0
      /\ calls = <<>> /\ known.frame <= known.bound /\ known.bound # 0
  BY <1>1 DEF ReadCredentials, LoginInv, Progress, Owner, Queue, Documents, Finals, Over, Closing
<1>3. CASE Ended /\ Stops(phase, CauseOf(reply)) /\ UNCHANGED world
  BY <1>1, <1>2, <1>3, CauseFacts, StopsUntouched DEF Errors
<1>4. CASE Stops(phase, CauseOf(Expired)) /\ UNCHANGED world
  BY <1>1, <1>2, <1>4, CauseFacts, StopsUntouched DEF Errors
<1>5. CASE Conclude(Report("relay_failed")) /\ UNCHANGED <<phase, stop, world>>
  BY <1>1, <1>2, <1>5, PlainExit DEF Conclude, PlainMessages, Over, Closing
<1>6. CASE Ask("loader") /\ UNCHANGED <<phase, stop, result, world>>
  <2>1. /\ "loader" \in Calls /\ "untouched" \in Phases /\ "loader" \notin Finals
        /\ Waiting = {}
    BY <1>2, NothingWaits DEF Calls, Phases, Finals
  <2>2. QED
    BY <1>1, <1>2, <1>6, <2>1, AskKeeps
<1>7. QED
  BY <1>1, <1>3, <1>4, <1>5, <1>6 DEF ReadCredentials

LEMMA CheckLoaderKeeps == LoginInv /\ CheckLoader => LoginInv'
<1>1. SUFFICES ASSUME LoginInv, CheckLoader PROVE LoginInv'
  OBVIOUS
<1>2. /\ pc = "loader" /\ phase = "untouched" /\ stop = NoCause /\ result = Pending
      /\ sys.peer = "ours" /\ ~page.inserted /\ page.submits = 0
      /\ known.bound # 0
  BY <1>1 DEF CheckLoader, LoginInv, Progress, Owner, Documents, Finals, Over, Closing, Calls
<1>3. CASE Ended /\ Stops(phase, CauseOf(reply)) /\ UNCHANGED world
  BY <1>1, <1>2, <1>3, CauseFacts, StopsUntouched DEF Errors
<1>4. CASE Stops(phase, Cause("known", "changed_before_fill")) /\ UNCHANGED world
  <2>1. "known" \in Kinds /\ "changed_before_fill" \in Errors
    BY DEF Kinds, Errors
  <2>2. QED
    BY <1>1, <1>2, <1>4, <2>1, CauseFacts, StopsUntouched
<1>5. CASE /\ reply = "same" /\ phase' = "fill_dispatched" /\ Ask("fill")
           /\ UNCHANGED <<stop, result, world>>
  <2>1. calls = <<>> /\ Waiting = {} /\ known.bound = known.frame
    BY <1>1, <1>2, <1>5, NothingWaits DEF LoginInv, Queue, Documents, Failed, Expired, Cancelled
  <2>2. "fill" \in Calls /\ "fill_dispatched" \in Phases /\ "fill" \notin Finals
    BY DEF Calls, BoundCalls, Phases, Dispatched, Finals
  <2>3. QED
    BY <1>1, <1>2, <1>5, <2>1, <2>2, AskKeeps
<1>6. QED
  BY <1>1, <1>3, <1>4, <1>5 DEF CheckLoader

LEMMA FillAnsweredKeeps == LoginInv /\ FillAnswered => LoginInv'
<1>1. SUFFICES ASSUME LoginInv, FillAnswered PROVE LoginInv'
  OBVIOUS
<1>2. /\ pc = "fill" /\ phase = "fill_dispatched" /\ stop = NoCause /\ result = Pending
      /\ sys.peer = "ours" /\ page.submits = 0 /\ pc \notin Over \cup Finals
      /\ known.bound = known.frame /\ known.bound # 0 /\ "submit" \notin Waiting
      /\ "frame" \notin Waiting /\ "begin" \notin Waiting
  BY <1>1 DEF FillAnswered, LoginInv, Progress, Queue, Owner, Documents, Finals, Over, Closing,
              Calls, BoundCalls
<1>3. /\ {"fill_dispatched", "fill_response", "untouched", "submit_dispatched"} \subseteq Phases
      /\ "known" \in Kinds /\ "refused" \in Errors
      /\ "submit" \in Calls /\ "submit" \notin Finals
  BY DEF Phases, Dispatched, Kinds, Errors, Calls, BoundCalls, Finals
<1>4. reply \in {"ok", "untouched", "refused"} => calls = <<>> /\ Waiting = {}
  BY <1>1, NothingWaits DEF LoginInv, Queue, Failed, Expired, Cancelled
<1>5. CASE /\ reply = "ok" /\ phase' = "submit_dispatched" /\ Ask("submit")
           /\ UNCHANGED <<stop, result, world>>
  BY <1>1, <1>2, <1>3, <1>4, <1>5, AskKeeps
<1>6. CASE reply = "untouched" /\ Stops("untouched", Cause("known", "refused")) /\ UNCHANGED world
  <2>1. ~page.inserted
    BY <1>1, <1>2, <1>6 DEF LoginInv, Progress
  <2>2. QED
    BY <1>1, <1>2, <1>3, <1>4, <1>6, <2>1, CauseFacts, StopsKeeps
<1>7. CASE reply = "refused" /\ Stops("fill_response", Cause("known", "refused")) /\ UNCHANGED world
  BY <1>1, <1>2, <1>3, <1>4, <1>7, CauseFacts, StopsKeeps
<1>8. CASE Ended /\ Stops(phase, CauseOf(reply)) /\ UNCHANGED world
  BY <1>1, <1>2, <1>3, <1>8, CauseFacts, StopsKeeps DEF Errors
<1>9. QED
  BY <1>1, <1>5, <1>6, <1>7, <1>8 DEF FillAnswered

LEMMA SubmitAnsweredKeeps == LoginInv /\ SubmitAnswered => LoginInv'
<1>1. SUFFICES ASSUME LoginInv, SubmitAnswered PROVE LoginInv'
  OBVIOUS
<1>2. /\ pc = "submit" /\ phase = "submit_dispatched" /\ stop = NoCause /\ result = Pending
      /\ sys.peer = "ours" /\ pc \notin Over \cup Finals
      /\ known.bound = known.frame /\ known.bound # 0 /\ "fill" \notin Waiting
      /\ "frame" \notin Waiting /\ "begin" \notin Waiting
  BY <1>1 DEF SubmitAnswered, LoginInv, Progress, Queue, Owner, Documents, Finals, Over, Closing,
              Calls, BoundCalls
<1>3. /\ {"submit_dispatched", "submit_response"} \subseteq Phases
      /\ "known" \in Kinds /\ "refused" \in Errors
      /\ "clear1" \in Calls /\ "clear1" \notin Finals
  BY DEF Phases, Dispatched, Kinds, Errors, Calls, BoundCalls, Finals
<1>4. reply \in {"ok", "refused"} => calls = <<>> /\ Waiting = {}
  BY <1>1, NothingWaits DEF LoginInv, Queue, Failed, Expired, Cancelled
<1>5. CASE /\ reply = "ok" /\ phase' = "submit_response" /\ Ask("clear1")
           /\ UNCHANGED <<stop, result, world>>
  <2>1. page.submits = 1
    BY <1>1, <1>2, <1>5 DEF LoginInv, Progress
  <2>2. QED
    BY <1>1, <1>2, <1>3, <1>4, <1>5, <2>1, AskKeeps
<1>6. CASE /\ reply = "refused" /\ Stops("submit_response", Cause("known", "refused"))
           /\ UNCHANGED world
  BY <1>1, <1>2, <1>3, <1>4, <1>6, CauseFacts, StopsKeeps
<1>7. CASE Ended /\ Stops(phase, CauseOf(reply)) /\ UNCHANGED world
  BY <1>1, <1>2, <1>3, <1>7, CauseFacts, StopsKeeps DEF Errors
<1>8. QED
  BY <1>1, <1>5, <1>6, <1>7 DEF SubmitAnswered

LEMMA SubmittedFacts ==
  ASSUME LoginInv, pc \in {"clear1", "clear1_loader", "probe"}
  PROVE  /\ phase = "submit_response" /\ page.submits = 1 /\ stop = NoCause /\ result = Pending
         /\ sys.peer = "ours" /\ pc \notin Over \cup Finals
         /\ known.bound = known.frame /\ known.bound # 0 /\ phase \in Phases
         /\ \A c \in {"frame", "begin", "fill", "submit"} : c \notin Waiting
BY DEF LoginInv, Types, Progress, Queue, Owner, Documents, Finals, Over, Closing,
       Calls, BoundCalls, Finalizing

LEMMA ConfirmClearKeeps == LoginInv /\ ConfirmClear => LoginInv'
<1>1. SUFFICES ASSUME LoginInv, ConfirmClear PROVE LoginInv'
  OBVIOUS
<1>2. pc \in {"clear1", "clear1_loader", "probe"} /\ UNCHANGED <<phase, stop, world>>
  BY <1>1 DEF ConfirmClear
<1>3. ASSUME NEW c \in {"probe", "clear1_loader"}, Ask(c), UNCHANGED result
      PROVE  LoginInv'
  <2>1. c \in Calls /\ c \notin Finals
    BY <1>3 DEF Calls, Finalizing, Finals
  <2>2. QED
    BY <1>1, <1>2, <1>3, <2>1, SubmittedFacts, AskKeeps
<1>4. CASE Conclude(MayRemain)
  <2>1. MayRemain \in Reports /\ MayRemain.msg = "fields_may_remain" /\ MayRemain.warn = TRUE
    BY ReportFields DEF MayRemain, Messages
  <2>2. QED
    BY <1>1, <1>2, <1>4, <2>1, SubmittedFacts, ConcludeKeeps
<1>5. QED
  BY <1>1, <1>3, <1>4 DEF ConfirmClear

LEMMA AwaitSuccessKeeps == LoginInv /\ AwaitSuccess => LoginInv'
<1>1. SUFFICES ASSUME LoginInv, AwaitSuccess PROVE LoginInv'
  OBVIOUS
<1>2. pc \in {"clear1", "clear1_loader", "probe"} /\ pc = "probe" /\ UNCHANGED world
  BY <1>1 DEF AwaitSuccess
<1>3. /\ {"unmet"} \subseteq Kinds /\ {"success_unmet", "session_failed"} \subseteq Errors
      /\ {"probe", "final"} \subseteq Calls /\ "final" \in Finals /\ "probe" \notin Finals
      /\ {"submit_response", "observed_success"} \subseteq Phases
  BY DEF Kinds, Errors, Calls, Finalizing, Finals, Phases
<1>4. CASE /\ reply = "auth" /\ phase' = "observed_success" /\ Ask("final")
           /\ UNCHANGED <<stop, result>>
  <2>1. page.seen
    BY <1>1, <1>2, <1>4 DEF LoginInv, Progress
  <2>2. QED
    BY <1>1, <1>2, <1>3, <1>4, <2>1, SubmittedFacts, AskKeeps
<1>5. CASE Ask("probe") /\ UNCHANGED <<phase, stop, result>>
  BY <1>1, <1>2, <1>3, <1>5, SubmittedFacts, AskKeeps
<1>6. ASSUME NEW e \in {"success_unmet", "session_failed"}, Stops(phase, Cause("unmet", e))
      PROVE  LoginInv'
  BY <1>1, <1>2, <1>3, <1>6, SubmittedFacts, CauseFacts, StopsKeeps
<1>7. CASE reply = Cancelled /\ Stops(phase, CauseOf(reply))
  <2>1. Ended
    BY <1>7 DEF Ended
  <2>2. QED
    BY <1>1, <1>2, <1>3, <1>7, <2>1, SubmittedFacts, CauseFacts, StopsKeeps DEF Errors
<1>8. QED
  BY <1>1, <1>4, <1>5, <1>6, <1>7 DEF AwaitSuccess

LEMMA FinalClearKeeps == LoginInv /\ FinalClear => LoginInv'
<1>1. SUFFICES ASSUME LoginInv, FinalClear PROVE LoginInv'
  OBVIOUS
<1>2. /\ pc \in Finals /\ pc \notin Over /\ phase # "untouched" /\ phase \in Phases
      /\ stop \in Causes /\ (stop.kind = "none" => phase = "observed_success")
      /\ stop.kind \notin {"none", "cancelled"} => stop.error \in Errors
      /\ result = Pending /\ sys.peer = "ours"
      /\ UNCHANGED <<phase, stop, world>>
  BY <1>1 DEF FinalClear, LoginInv, Types, Progress, Sentences, Owner, Finals, Over, Closing,
              Calls, BoundCalls, Finalizing
<1>3. ASSUME NEW cleared \in {"yes", "no", "replaced"},
             Conclude(Diagnosis(phase, stop, cleared)),
             cleared # "no" => page.held = {} /\ calls = <<>>
      PROVE  LoginInv'
  <2>1. Diagnosis(phase, stop, cleared) \in Reports
    BY <1>2, DiagnosisSays
  <2>2. PICK d \in Reports : d = Diagnosis(phase, stop, cleared)
    BY <2>1
  <2>3. /\ d.msg # "finalization_failed"
        /\ cleared = "no" => d.warn
        /\ d.msg = "success" => phase = "observed_success"
        /\ d.msg \in {"fill_uncertain", "changed_during_fill"} => phase = "fill_dispatched"
        /\ d.msg \in {"changed_before_fill", "success_unmet"} => stop.error = d.msg
                                             /\ stop.kind \notin {"none", "cancelled"}
        /\ d.msg \in {"fill_uncertain", "submit_uncertain", "success"} => ~d.warn
    BY <1>2, <2>2, DiagnosisSays
  <2>4. /\ stop.error # "changed_before_fill"
        /\ stop.error = "success_unmet" => phase = "submit_response" /\ page.submits = 1
    BY <1>1, <1>2 DEF LoginInv, Sentences
  <2>5. d.msg # "changed_before_fill"
        /\ (d.msg = "success_unmet" => phase = "submit_response" /\ page.submits = 1)
    BY <2>3, <2>4
  <2>6. ~d.warn => page.held = {} /\ "fill" \notin Waiting
    BY <1>3, <2>3, NothingWaits
  <2>7. QED
    BY <1>1, <1>2, <1>3, <2>2, <2>3, <2>5, <2>6, ConcludeKeeps
<1>4. CASE pc = "final" /\ reply \in {"yes", "no"} /\ Conclude(Diagnosis(phase, stop, reply))
  <2>1. calls = <<>> /\ (reply = "yes" => page.held = {})
    BY <1>1, <1>4 DEF LoginInv, Queue, Cleanness, Failed, Expired, Cancelled
  <2>2. QED
    BY <1>3, <1>4, <2>1
<1>5. CASE pc = "final" /\ Ask("final_loader") /\ UNCHANGED result
  <2>1. "final_loader" \in Calls /\ "final_loader" \in Finals
    BY DEF Calls, Finalizing, Finals
  <2>2. /\ "frame" \notin Waiting /\ "begin" \notin Waiting
        /\ "fill" \in Waiting => phase = "fill_dispatched"
        /\ "submit" \in Waiting => phase = "submit_dispatched"
        /\ phase \in {"untouched", "fill_dispatched", "fill_response"} => page.submits = 0
        /\ phase = "observed_success" => page.submits = 1 /\ page.seen
        /\ known.bound = known.frame /\ known.bound # 0
    BY <1>1, <1>2 DEF LoginInv, Queue, Progress, Documents
  <2>3. QED
    BY <1>1, <1>2, <1>5, <2>1, <2>2, AskKeeps DEF Finals
<1>6. CASE /\ pc = "final_loader"
           /\ Conclude(Diagnosis(phase, stop, IF reply = "changed" THEN "replaced" ELSE "no"))
  <2>1. reply = "changed" => calls = <<>> /\ page.held = {}
    BY <1>1, <1>6 DEF LoginInv, Queue, Cleanness, Failed, Expired, Cancelled
  <2>2. QED
    BY <1>3, <1>6, <2>1
<1>7. QED
  BY <1>1, <1>4, <1>5, <1>6 DEF FinalClear

(* The dialog guard and the session close; a cancellation may still replace *)
(* the report, never a warning.                                            *)
LEMMA ClosingKeeps ==
  ASSUME LoginInv, pc \in Closing, NEW p \in {"teardown", "done"}, Goto(p),
         UNCHANGED <<phase, stop, world>>,
         \/ result' = result
         \/ ~result.warn /\ result' \in {Propagate, Report("timed_out"), Report("session_failed")}
  PROVE  LoginInv'
<1>1. /\ pc' = p /\ reply' = "none" /\ calls' = calls /\ phase' = phase
      /\ stop' = stop /\ known' = known /\ page' = page /\ sys' = sys
      /\ expired' = expired /\ cancels' = cancels /\ Waiting' = Waiting
      /\ AskedOnce' = AskedOnce
  BY DEF Goto, world, Waiting, AskedOnce
<1>2. /\ p \in {"teardown", "done"} /\ pc \in Over
      /\ Types /\ Queue /\ Progress /\ Documents /\ Cleanness /\ Sentences /\ Owner
  BY DEF LoginInv, Over
<1>3. \/ result' = result
      \/ /\ ~result.warn /\ result' \in Reports
         /\ result'.msg \in PlainMessages /\ result'.warn = FALSE
  <2>1. {"cancelled", "timed_out", "session_failed"} \subseteq PlainMessages
    BY DEF PlainMessages
  <2>2. QED
    BY <2>1, PlainReports DEF Propagate
<1>4. Types'
  <2>1. pc' \in Unconnected \cup Awaits \cup {"done"} /\ reply' \in Replies
    BY <1>1, <1>2 DEF Closing, Awaits, Replies
  <2>2. QED
    BY <1>1, <1>2, <1>3, <2>1 DEF Types
<1>5. Queue'
  BY <1>1, <1>2 DEF Queue, Over, Early, Closing, Unconnected
<1>6. Progress'
  BY <1>1, <1>2 DEF Progress, Over, Early, Closing, Finals, Unconnected
<1>7. Documents'
  BY <1>1, <1>2 DEF Documents
<1>8. Cleanness'
  BY <1>1, <1>2, <1>3 DEF Cleanness, Over, Closing
<1>9. Sentences'
  BY <1>1, <1>2, <1>3 DEF Sentences, PlainMessages
<1>10. Owner'
  BY <1>1, <1>2 DEF Owner, Calls, BoundCalls, Finalizing
<1>11. QED
  BY <1>4, <1>5, <1>6, <1>7, <1>8, <1>9, <1>10 DEF LoginInv

LEMMA CloseDialogsKeeps == LoginInv /\ CloseDialogs => LoginInv'
BY ClosingKeeps DEF CloseDialogs, Closing

LEMMA TearDownKeeps == LoginInv /\ TearDown => LoginInv'
<1>1. SUFFICES ASSUME LoginInv, TearDown PROVE LoginInv'
  OBVIOUS
<1>2. result.msg = "success" => ~result.warn
  BY <1>1 DEF LoginInv, Sentences
<1>3. result.warn \in BOOLEAN
  BY <1>1 DEF LoginInv, Types, Reports
<1>4. \/ result' = result
      \/ ~result.warn /\ result' \in {Propagate, Report("timed_out"), Report("session_failed")}
  BY <1>1, <1>2, <1>3 DEF TearDown
<1>5. QED
  BY <1>1, <1>4, ClosingKeeps DEF TearDown, Closing

LEMMA StepKeeps == LoginInv /\ Step => LoginInv'
BY LoadPolicyKeeps, VerifyRecordedOwnerKeeps, EnsureRelayReadyKeeps, ConnectKeeps,
   VerifyConnectedBrowserKeeps, RecheckIdentityKeeps, ReadFrameKeeps, ValidateKeeps,
   ReadCredentialsKeeps, CheckLoaderKeeps, FillAnsweredKeeps, SubmitAnsweredKeeps,
   ConfirmClearKeeps, AwaitSuccessKeeps, FinalClearKeeps, CloseDialogsKeeps, TearDownKeeps
   DEF Step

---------------------------------------------------------------------------
(* The page runs a call: the command, the clock and the processes stand.   *)
LEMMA RunsKeeps ==
  ASSUME LoginInv, calls # <<>>, NEW a \in Replies, Answered(Head(calls), a),
         UNCHANGED <<pc, expired, cancels, phase, stop, result, sys>>,
         known' \in Knowns, page' \in Pages, page'.doc = page.doc,
         known' # known => /\ Head(calls) \in {"frame", "begin"} /\ page' = page
                           /\ known'.frame <= page.doc /\ known'.bound <= page.doc
                           /\ Head(calls) = "frame" => known'.bound = known.bound
                           /\ Head(calls) = "begin" => known'.frame = known.frame,
         a = "ok" /\ Head(calls) = "begin" => known'.bound = page.doc,
         a = "ok" /\ Head(calls) = "submit" => page'.submits = page.submits + 1,
         a = "same" => Head(calls) # "loader" \/ page.doc = known.frame,
         a = "changed" => page' = page /\ page.doc # known.frame,
         a = "untouched" => page' = page,
         a = "auth" => page'.seen,
         a = "yes" => page'.held = {},
         page.seen => page'.seen,
         page'.inserted # page.inserted => page'.inserted /\ Head(calls) = "fill",
         page'.submits # page.submits => /\ Head(calls) = "submit"
                                         /\ page'.submits = page.submits + 1,
         page'.held # {} => \/ page.held # {}
                            \/ /\ Head(calls) = "fill" /\ page'.inserted
                               /\ page.doc = known.bound
  PROVE  LoginInv'
<1> DEFINE c == Head(calls)
<1>1. /\ pc' = pc /\ phase' = phase /\ stop' = stop /\ result' = result /\ sys' = sys
      /\ expired' = expired /\ cancels' = cancels
      /\ Types /\ Queue /\ Progress /\ Documents /\ Cleanness /\ Sentences /\ Owner
  BY DEF LoginInv
<1>2. /\ calls' \in Seq(Calls) /\ c \in Waiting /\ Waiting \subseteq Calls
      /\ Waiting' \subseteq Waiting
      /\ AskedOnce => AskedOnce'
      /\ AskedOnce /\ c \in {"fill", "submit"} => c \notin Waiting'
      /\ \/ reply' = reply
         \/ reply' = a /\ pc = c /\ calls' = <<>> /\ Waiting' = {}
  BY <1>1, AnsweredPops DEF Types
<1>3. /\ page.submits \in Nat /\ page'.submits \in Nat
      /\ page.inserted \in BOOLEAN /\ page'.inserted \in BOOLEAN
      /\ page.seen \in BOOLEAN /\ page.doc \in Nat
      /\ known.frame \in Nat /\ known.bound \in Nat
      /\ known'.frame \in Nat /\ known'.bound \in Nat
  BY <1>1, BoundsAssumption DEF Types, Pages, Knowns
<1>4. Types'
  BY <1>1, <1>2 DEF Types
<1>5. Queue'
  BY <1>1, <1>2, <1>3 DEF Queue, Failed, Expired, Cancelled
<1>6. c \in {"frame", "begin"} => phase = "untouched" /\ ~page.inserted /\ page.held = {}
  BY <1>1, <1>2 DEF Queue, Progress, Documents
<1>7. Progress'
  <2>1. \/ page'.submits = page.submits
        \/ /\ c = "submit" /\ phase = "submit_dispatched"
           /\ page.submits = 0 /\ page'.submits = 1
    BY <1>1, <1>2, <1>3 DEF Queue, Failed, Expired, Cancelled
  <2>2. page'.inserted = page.inserted \/ (phase = "fill_dispatched" /\ c = "fill")
    BY <1>1, <1>2, <1>3 DEF Queue, Failed, Expired, Cancelled
  <2>3. pc = "submit" /\ reply' = "ok" => page'.submits = 1
    BY <1>1, <1>2, <1>3 DEF Queue, Failed, Expired, Cancelled
  <2>4. pc = "fill" /\ reply' = "untouched" => ~page'.inserted
    BY <1>1, <1>2, <1>3 DEF Queue, Failed, Expired, Cancelled
  <2>5. pc = "probe" /\ reply' = "auth" => page'.seen
    BY <1>1, <1>2, <1>3 DEF Queue, Failed, Expired, Cancelled
  <2>6. QED
    BY <1>1, <1>3, <2>1, <2>2, <2>3, <2>4, <2>5 DEF Progress
<1>8. Documents'
  <2>1. known'.frame <= page'.doc /\ known'.bound <= page'.doc
    BY <1>1, <1>3 DEF Documents
  <2>2. phase # "untouched" => known' = known
    BY <1>6
  <2>3. pc \in {"relay", "loader"} => known' = known
    BY <1>1, <1>2 DEF Queue, Over, Closing
  <2>4. pc = "begin" /\ reply' = "ok" => known'.frame <= known'.bound /\ known'.bound # 0
    <3>1. SUFFICES ASSUME pc = "begin", reply' = "ok", c = "begin", a = "ok"
                   PROVE  known'.frame <= known'.bound /\ known'.bound # 0
      BY <1>1, <1>2 DEF Queue, Failed, Expired, Cancelled
    <3>2. known'.bound = page.doc /\ page.doc # 0
      BY <1>1, <3>1 DEF Types, Pages
    <3>3. known'.frame = known.frame
      BY <3>1
    <3>4. QED
      BY <1>1, <1>3, <3>2, <3>3 DEF Documents
  <2>5. pc = "loader" /\ reply' = "same" => known'.frame = known'.bound
    <3>1. SUFFICES ASSUME pc = "loader", reply' = "same", reply' # reply
                   PROVE  known'.frame = known'.bound
      BY <1>1, <2>3 DEF Documents
    <3>2. page.doc = known.frame
      BY <1>2, <3>1
    <3>3. QED
      BY <1>1, <1>3, <2>3, <3>1, <3>2 DEF Documents
  <2>6. page'.held # {} => page'.inserted /\ page'.doc = known'.bound
    <3>1. SUFFICES ASSUME page'.held # {}
                   PROVE  page'.inserted /\ page'.doc = known'.bound
      OBVIOUS
    <3>2. page'.held = page.held => page'.inserted
      BY <1>1, <1>3, <3>1 DEF Documents
    <3>3. known' = known
      BY <1>6, <3>1
    <3>4. QED
      BY <1>1, <1>3, <3>1, <3>3 DEF Documents
  <2>7. QED
    BY <1>1, <2>1, <2>2, <2>3, <2>4, <2>5, <2>6 DEF Documents
<1>9. Cleanness'
  <2>1. pc = "final" /\ reply' = "yes" => page'.held = {}
    BY <1>1, <1>2 DEF Queue, Failed, Expired, Cancelled
  <2>2. pc = "final_loader" /\ reply' = "changed" => page'.held = {}
    <3>1. SUFFICES ASSUME pc = "final_loader", reply' = "changed"
                   PROVE  page'.held = {}
      OBVIOUS
    <3>2. a = "changed"
      BY <1>1, <1>2, <3>1 DEF Queue, Failed, Expired, Cancelled
    <3>3. known.bound = known.frame
      BY <1>1, <3>1 DEF Documents, Progress, Finals
    <3>4. QED
      BY <1>1, <3>2, <3>3 DEF Documents
  <2>3. pc \in Over /\ ~result.warn => page'.held = {} /\ "fill" \notin Waiting'
    BY <1>1, <1>2 DEF Cleanness
  <2>4. QED
    BY <1>1, <2>1, <2>2, <2>3 DEF Cleanness
<1>10. Sentences'
  BY <1>1, <1>2, <1>3 DEF Sentences, Queue
<1>11. Owner'
  BY <1>1, <1>2 DEF Owner
<1>12. QED
  BY <1>4, <1>5, <1>7, <1>8, <1>9, <1>10, <1>11 DEF LoginInv

(* Each call the page can run is one of these.                             *)
LEMMA PageRunsKeeps == LoginInv /\ PageRuns => LoginInv'
<1> DEFINE c == Head(calls)
<1>1. SUFFICES ASSUME LoginInv, calls # <<>>,
                      UNCHANGED <<pc, expired, cancels, phase, stop, result, sys>>,
                      \/ RunFrame(c) \/ RunBegin(c) \/ RunLoader(c) \/ RunFill(c)
                      \/ RunSubmit(c) \/ RunClear(c) \/ RunGone(c) \/ RunProbe(c)
               PROVE  LoginInv'
  BY DEF PageRuns
<1>2. /\ known \in Knowns /\ page \in Pages /\ page.doc \in 0..MaxDocs /\ page.submits \in Nat
      /\ known.frame <= page.doc /\ known.bound <= page.doc
      /\ page.held \in SUBSET {"bound", "copy"} /\ {"bound"} \in SUBSET {"bound", "copy"}
  BY <1>1 DEF LoginInv, Types, Documents, Pages
<1>3. /\ {"ok", "refused", "same", "changed", "untouched", "yes", "no", "auth", "not_yet",
          "lost", Failed} \subseteq Replies
      /\ Failed \notin {"ok", "same", "changed", "untouched", "auth", "yes"}
  BY DEF Replies, Failed
<1>4. CASE RunFrame(c)
  <2>1. /\ c = "frame" /\ Answered(c, "ok") /\ page' = page
        /\ known' = [known EXCEPT !.frame = page.doc]
    BY <1>4 DEF RunFrame
  <2>2. known' \in Knowns /\ known'.frame = page.doc /\ known'.bound = known.bound
    BY <1>2, <2>1 DEF Knowns
  <2>3. QED
    BY <1>1, <1>2, <1>3, <2>1, <2>2, RunsKeeps
<1>5. CASE RunBegin(c)
  <2>1. CASE Answered(c, "refused") /\ UNCHANGED <<known, page>>
    BY <1>1, <1>2, <1>3, <2>1, RunsKeeps
  <2>2. CASE /\ c = "begin" /\ Answered(c, "ok") /\ page' = page
             /\ known' = [known EXCEPT !.bound = page.doc]
    <3>1. known' \in Knowns /\ known'.bound = page.doc /\ known'.frame = known.frame
      BY <1>2, <2>2 DEF Knowns
    <3>2. QED
      BY <1>1, <1>2, <1>3, <2>2, <3>1, RunsKeeps
  <2>3. QED
    BY <1>5, <2>1, <2>2 DEF RunBegin
<1>6. CASE RunLoader(c)
  <2>1. CASE page.doc = known.frame /\ Answered(c, "same") /\ UNCHANGED <<known, page>>
    BY <1>1, <1>2, <1>3, <2>1, RunsKeeps
  <2>2. CASE page.doc # known.frame /\ Answered(c, "changed") /\ UNCHANGED <<known, page>>
    BY <1>1, <1>2, <1>3, <2>2, RunsKeeps
  <2>3. QED
    BY <1>6, <2>1, <2>2 DEF RunLoader
<1>7. CASE RunFill(c)
  <2>1. c = "fill" /\ page.doc = known.bound /\ known' = known
    BY <1>7 DEF RunFill, InBoundDocument
  <2>2. CASE Answered(c, "untouched") /\ page' = page
    BY <1>1, <1>2, <1>3, <2>1, <2>2, RunsKeeps
  <2>3. ASSUME NEW a \in {"ok", "refused"}, Answered(c, a),
               NEW swap \in BOOLEAN, NEW h \in SUBSET {"bound", "copy"},
               page' = [page EXCEPT !.inserted = TRUE, !.swapped = swap, !.held = h]
        PROVE  LoginInv'
    <3>1. /\ page' \in Pages /\ page'.inserted = TRUE /\ page'.doc = page.doc
          /\ page'.seen = page.seen /\ page'.submits = page.submits
      BY <1>2, <2>3 DEF Pages
    <3>2. QED
      BY <1>1, <1>2, <1>3, <2>1, <2>3, <3>1, RunsKeeps
  <2>4. CASE Answered(c, "ok") /\ page' = [page EXCEPT !.inserted = TRUE, !.held = {"bound"}]
    <3>1. /\ page' \in Pages /\ page'.inserted = TRUE /\ page'.doc = page.doc
          /\ page'.seen = page.seen /\ page'.submits = page.submits
      BY <1>2, <2>4 DEF Pages
    <3>2. QED
      BY <1>1, <1>2, <1>3, <2>1, <2>4, <3>1, RunsKeeps
  <2>5. QED
    BY <1>7, <2>2, <2>3, <2>4 DEF RunFill
<1>8. CASE RunSubmit(c)
  <2>1. PICK ok \in BOOLEAN, h \in SUBSET {"bound", "copy"} :
          /\ Cleared(page.held, h)
          /\ Answered(c, IF ok THEN "ok" ELSE "refused")
          /\ page' = [page EXCEPT !.submits = IF ok THEN @ + 1 ELSE @, !.held = h]
    BY <1>8 DEF RunSubmit
  <2>2. c = "submit" /\ known' = known /\ (page.held = {} => h = {})
    BY <1>8, <2>1 DEF RunSubmit, Cleared
  <2>3. /\ page' \in Pages /\ page'.inserted = page.inserted /\ page'.doc = page.doc
        /\ page'.seen = page.seen /\ page'.held = h
        /\ page'.submits = IF ok THEN page.submits + 1 ELSE page.submits
    <3> DEFINE s == IF ok THEN page.submits + 1 ELSE page.submits
    <3>1. s \in Nat
      BY <1>2
    <3>2. page' = [page EXCEPT !.submits = s, !.held = h]
      BY <2>1
    <3>3. HIDE DEF s
    <3>4. /\ page' \in Pages /\ page'.inserted = page.inserted /\ page'.doc = page.doc
          /\ page'.seen = page.seen /\ page'.held = h /\ page'.submits = s
      BY <1>2, <3>1, <3>2 DEF Pages
    <3>5. QED
      BY <3>4 DEF s
  <2>4. CASE ok
    BY <1>1, <1>2, <1>3, <2>1, <2>2, <2>3, <2>4, RunsKeeps
  <2>5. CASE ~ok
    BY <1>1, <1>2, <1>3, <2>1, <2>2, <2>3, <2>5, RunsKeeps
  <2>6. QED
    BY <2>4, <2>5
<1>9. CASE RunClear(c)
  <2>1. PICK h \in SUBSET {"bound", "copy"} :
          /\ Cleared(page.held, h)
          /\ Answered(c, IF h = {} THEN "yes" ELSE "no")
          /\ page' = [page EXCEPT !.held = h]
    BY <1>9 DEF RunClear
  <2>2. c \in {"clear1", "final"} /\ known' = known /\ (page.held = {} => h = {})
    BY <1>9, <2>1 DEF RunClear, Cleared
  <2>3. /\ page' \in Pages /\ page'.inserted = page.inserted /\ page'.doc = page.doc
        /\ page'.seen = page.seen /\ page'.held = h /\ page'.submits = page.submits
    BY <1>2, <2>1 DEF Pages
  <2>4. CASE h = {}
    BY <1>1, <1>2, <1>3, <2>1, <2>2, <2>3, <2>4, RunsKeeps
  <2>5. CASE h # {}
    BY <1>1, <1>2, <1>3, <2>1, <2>2, <2>3, <2>5, RunsKeeps
  <2>6. QED
    BY <2>4, <2>5
<1>10. CASE RunGone(c)
  <2>1. Answered(c, Failed) /\ known' = known /\ page' = page
    BY <1>10 DEF RunGone
  <2>2. QED
    BY <1>1, <1>2, <1>3, <2>1, RunsKeeps
<1>11. CASE RunProbe(c)
  <2>1. c = "probe" /\ known' = known
    BY <1>11 DEF RunProbe
  <2>2. CASE Answered(c, "auth") /\ page' = [page EXCEPT !.seen = TRUE]
    <3>1. /\ page' \in Pages /\ page'.inserted = page.inserted /\ page'.doc = page.doc
          /\ page'.seen = TRUE /\ page'.held = page.held /\ page'.submits = page.submits
      BY <1>2, <2>2 DEF Pages
    <3>2. QED
      BY <1>1, <1>2, <1>3, <2>1, <2>2, <3>1, RunsKeeps
  <2>3. ASSUME NEW a \in {"not_yet", "lost"}, Answered(c, a), page' = page
        PROVE  LoginInv'
    BY <1>1, <1>2, <1>3, <2>1, <2>3, RunsKeeps
  <2>4. QED
    BY <1>11, <2>1, <2>2, <2>3 DEF RunProbe
<1>12. QED
  BY <1>1, <1>4, <1>5, <1>6, <1>7, <1>8, <1>9, <1>10, <1>11

(* What the page does by itself never fills the form the command has       *)
(* found empty.                                                            *)
LEMMA PageActsKeeps == LoginInv /\ PageActs => LoginInv'
<1>1. SUFFICES ASSUME LoginInv, PageActs PROVE LoginInv'
  OBVIOUS
<1>2. /\ pc' = pc /\ reply' = reply /\ calls' = calls /\ phase' = phase /\ stop' = stop
      /\ result' = result /\ known' = known /\ sys' = sys
      /\ expired' = expired /\ cancels' = cancels /\ Waiting' = Waiting
      /\ AskedOnce' = AskedOnce
  BY <1>1 DEF PageActs, Waiting, AskedOnce
<1>3. /\ Types /\ Queue /\ Progress /\ Documents /\ Cleanness /\ Sentences /\ Owner
      /\ page \in Pages /\ page.doc \in 1..MaxDocs /\ page.doc \in Nat
      /\ known.frame \in Nat /\ known.bound \in Nat /\ MaxDocs \in Nat
  BY <1>1, BoundsAssumption DEF LoginInv, Types, Pages, Knowns
<1>4. /\ page' \in Pages /\ page'.inserted = page.inserted /\ page'.submits = page.submits
      /\ page'.seen = page.seen /\ page'.doc \in Nat /\ page'.doc >= page.doc
      /\ page'.held = {} \/ page'.doc = page.doc
      /\ page'.held # {} /\ page.held = {} =>
           page.inserted /\ page.doc = known.bound /\ ~LastClearRan
  <2>1. CASE Navigates
    <3>1. PICK shows \in BOOLEAN :
            page' = [page EXCEPT !.doc = @ + 1, !.held = {}, !.swapped = FALSE, !.auth = shows]
      BY <2>1 DEF Navigates
    <3>2. page.doc + 1 \in 1..MaxDocs
      BY <1>3, <2>1 DEF Navigates
    <3>3. /\ page' \in Pages /\ page'.inserted = page.inserted /\ page'.submits = page.submits
          /\ page'.seen = page.seen /\ page'.doc = page.doc + 1 /\ page'.held = {}
      BY <1>3, <3>1, <3>2 DEF Pages
    <3>4. QED
      BY <1>3, <3>3
  <2>2. CASE SwapsNodes
    <3>1. PICK h \in SUBSET {"bound", "copy"} :
            /\ page.held = {} => h = {}
            /\ page' = [page EXCEPT !.swapped = TRUE, !.held = h]
      BY <2>2 DEF SwapsNodes
    <3>2. /\ page' \in Pages /\ page'.inserted = page.inserted /\ page'.submits = page.submits
          /\ page'.seen = page.seen /\ page'.doc = page.doc /\ page'.held = h
      BY <1>3, <3>1 DEF Pages
    <3>3. QED
      BY <1>3, <3>1, <3>2
  <2>3. CASE RestoresValues
    <3>1. PICK h \in SUBSET {"bound", "copy"} : page' = [page EXCEPT !.held = h]
      BY <2>3 DEF RestoresValues
    <3>2. /\ page' \in Pages /\ page'.inserted = page.inserted /\ page'.submits = page.submits
          /\ page'.seen = page.seen /\ page'.doc = page.doc /\ page'.held = h
      BY <1>3, <3>1 DEF Pages
    <3>3. page.inserted /\ page.doc = known.bound /\ ~LastClearRan
      BY <2>3 DEF RestoresValues
    <3>4. QED
      BY <1>3, <3>2, <3>3
  <2>4. CASE ShowsSuccess
    <3>1. page' = [page EXCEPT !.auth = TRUE]
      BY <2>4 DEF ShowsSuccess
    <3>2. /\ page' \in Pages /\ page'.inserted = page.inserted /\ page'.submits = page.submits
          /\ page'.seen = page.seen /\ page'.doc = page.doc /\ page'.held = page.held
      BY <1>3, <3>1 DEF Pages
    <3>3. QED
      BY <1>3, <3>2
  <2>5. QED
    BY <1>1, <2>1, <2>2, <2>3, <2>4 DEF PageActs
<1>5. Types'
  BY <1>2, <1>3, <1>4 DEF Types
<1>6. Queue'
  BY <1>2, <1>3, <1>4 DEF Queue
<1>7. Progress'
  BY <1>2, <1>3, <1>4 DEF Progress
<1>8. Documents'
  BY <1>2, <1>3, <1>4 DEF Documents
<1>9. Cleanness'
  <2>1. pc = "final" /\ reply = "yes" => LastClearRan
    <3>1. pc = "final" /\ reply = "yes" => Waiting = {}
      BY <1>3, NothingWaits DEF Queue, Failed, Expired, Cancelled
    <3>2. QED
      BY <3>1 DEF LastClearRan, Waiting
  <2>2. pc = "final_loader" \/ pc \in Over => LastClearRan
    BY DEF LastClearRan, Over
  <2>3. QED
    BY <1>2, <1>3, <1>4, <2>1, <2>2 DEF Cleanness
<1>10. Sentences'
  BY <1>2, <1>3, <1>4 DEF Sentences
<1>11. Owner'
  BY <1>2, <1>3, <1>4 DEF Owner
<1>12. QED
  BY <1>5, <1>6, <1>7, <1>8, <1>9, <1>10, <1>11 DEF LoginInv

(* A call is given up: the timers, the lost session, a cancellation.       *)
LEMMA GivesUpKeeps ==
  ASSUME LoginInv, reply' \in {Failed, Expired, Cancelled}, cancels' \in 0..MaxCancels,
         UNCHANGED <<pc, calls, expired, phase, stop, result, known, page, sys>>
  PROVE  LoginInv'
<1>1. /\ pc' = pc /\ calls' = calls /\ phase' = phase /\ stop' = stop
      /\ result' = result /\ known' = known /\ page' = page /\ sys' = sys
      /\ expired' = expired /\ Waiting' = Waiting /\ AskedOnce' = AskedOnce
  BY DEF Waiting, AskedOnce
<1>2. /\ Types /\ Queue /\ Progress /\ Documents /\ Cleanness /\ Sentences /\ Owner
      /\ reply' \in Replies
      /\ reply' \notin {"ok", "untouched", "same", "changed", "yes", "auth"}
  BY DEF LoginInv, Failed, Expired, Cancelled, Replies
<1>3. Types' /\ Sentences' /\ Owner'
  BY <1>1, <1>2 DEF Types, Sentences, Owner
<1>4. Queue' /\ Progress'
  BY <1>1, <1>2 DEF Queue, Progress
<1>5. Documents' /\ Cleanness'
  BY <1>1, <1>2 DEF Documents, Cleanness
<1>6. QED
  BY <1>3, <1>4, <1>5 DEF LoginInv

(* The clock and the processes.                                            *)
LEMMA OutsideKeeps ==
  ASSUME LoginInv, expired' \in BOOLEAN, sys' \in Processes, sys'.peer = sys.peer,
         sys'.pid = "ours" => sys.pid = "ours",
         UNCHANGED <<pc, reply, calls, cancels, phase, stop, result, known, page>>
  PROVE  LoginInv'
<1>1. /\ pc' = pc /\ reply' = reply /\ calls' = calls /\ phase' = phase /\ stop' = stop
      /\ result' = result /\ known' = known /\ page' = page
      /\ cancels' = cancels /\ Waiting' = Waiting /\ AskedOnce' = AskedOnce
  BY DEF Waiting, AskedOnce
<1>2. /\ Types /\ Queue /\ Progress /\ Documents /\ Cleanness /\ Sentences /\ Owner
  BY DEF LoginInv
<1>3. Types' /\ Sentences' /\ Owner'
  BY <1>1, <1>2 DEF Types, Sentences, Owner
<1>4. Queue' /\ Progress' /\ Documents' /\ Cleanness'
  BY <1>1, <1>2 DEF Queue, Progress, Documents, Cleanness
<1>5. QED
  BY <1>3, <1>4 DEF LoginInv

LEMMA NextKeeps == LoginInv /\ [Next]_vars => LoginInv'
<1>1. SUFFICES ASSUME LoginInv, [Next]_vars PROVE LoginInv'
  OBVIOUS
<1>2. Types
  BY <1>1 DEF LoginInv
<1>3. CASE Step
  BY <1>1, <1>3, StepKeeps
<1>4. CASE TimesOut
  <2>1. reply' \in {Failed, Expired, Cancelled}
    BY <1>4 DEF TimesOut
  <2>2. QED
    BY <1>1, <1>2, <1>4, <2>1, GivesUpKeeps DEF TimesOut, world, Types
<1>5. CASE SessionFails
  BY <1>1, <1>2, <1>5, GivesUpKeeps DEF SessionFails, world, Types
<1>6. CASE Cancel
  <2>1. cancels' \in 0..MaxCancels
    BY <1>2, <1>6, BoundsAssumption DEF Types, Cancel
  <2>2. QED
    BY <1>1, <1>6, <2>1, GivesUpKeeps DEF Cancel
<1>7. CASE PageRuns
  BY <1>1, <1>7, PageRunsKeeps
<1>8. CASE PageActs
  BY <1>1, <1>8, PageActsKeeps
<1>9. CASE DeadlinePasses
  BY <1>1, <1>2, <1>9, OutsideKeeps DEF DeadlinePasses, Types
<1>10. CASE BrowserExits
  <2>1. PICK port \in {"ours", "stranger", "nobody"} :
          sys' = [sys EXCEPT !.pid = "nobody", !.port = port]
    BY <1>2, <1>10 DEF BrowserExits, Types, Processes
  <2>2. sys' \in Processes /\ sys'.peer = sys.peer /\ sys'.pid = "nobody"
    BY <1>2, <2>1 DEF Types, Processes
  <2>3. QED
    BY <1>1, <1>2, <1>10, <2>2, OutsideKeeps DEF BrowserExits, Types
<1>11. CASE StrangerStarts
  <2>1. PICK pid \in {"nobody", "stranger"} :
          sys' = [sys EXCEPT !.port = "stranger", !.pid = pid]
    BY <1>11 DEF StrangerStarts
  <2>2. sys' \in Processes /\ sys'.peer = sys.peer /\ sys'.pid = pid
    BY <1>2, <2>1 DEF Types, Processes
  <2>3. QED
    BY <1>1, <1>2, <1>11, <2>2, OutsideKeeps DEF StrangerStarts, Types
<1>12. CASE UNCHANGED vars
  BY <1>1, <1>2, <1>12, OutsideKeeps DEF vars, Types
<1>13. QED
  BY <1>1, <1>3, <1>4, <1>5, <1>6, <1>7, <1>8, <1>9, <1>10, <1>11, <1>12 DEF Next

LEMMA InitHolds == Init => LoginInv
<1>1. SUFFICES ASSUME Init PROVE LoginInv
  OBVIOUS
<1>2. /\ pc = "policy" /\ reply = "none" /\ calls = <<>> /\ expired = FALSE /\ cancels = 0
      /\ phase = "untouched" /\ stop = NoCause /\ result = Pending
      /\ known = [frame |-> 0, bound |-> 0]
      /\ page = [doc |-> 1, held |-> {}, swapped |-> FALSE, inserted |-> FALSE,
                 submits |-> 0, auth |-> FALSE, seen |-> FALSE]
      /\ Waiting = {} /\ AskedOnce
  BY <1>1, NothingWaits DEF Init, AskedOnce
<1>3. PICK who \in {"ours", "stranger"} : sys = [pid |-> "ours", port |-> who, peer |-> "none"]
  BY <1>1 DEF Init
<1>4. stop \in Causes /\ stop.kind = "none" /\ stop.error = "none"
  BY <1>2 DEF NoCause, Causes, Kinds, Errors
<1>5. result \in Reports /\ result.msg = "pending"
  BY <1>2, ReportFields DEF Pending, Messages
<1>6. known \in Knowns /\ page \in Pages /\ sys \in Processes
  BY <1>2, <1>3, BoundsAssumption DEF Knowns, Pages, Processes
<1>7. Types
  <2>1. pc \in Unconnected /\ reply \in Replies /\ phase \in Phases
    BY <1>2 DEF Unconnected, Replies, Phases
  <2>2. cancels \in 0..MaxCancels /\ expired \in BOOLEAN
    <3>1. 0 \in 0..MaxCancels
      BY BoundsAssumption
    <3>2. QED
      BY <1>2, <3>1
  <2>3. calls \in Seq(Calls)
    BY <1>2
  <2>4. QED
    BY <1>4, <1>5, <1>6, <2>1, <2>2, <2>3 DEF Types
<1>8. Queue /\ Progress
  BY <1>2 DEF Queue, Progress, Over, Closing, Finals
<1>9. Documents /\ Cleanness
  BY <1>2 DEF Documents, Cleanness, Over, Closing
<1>10. Sentences /\ Owner
  BY <1>2, <1>3, <1>4, <1>5 DEF Sentences, Owner, Calls, BoundCalls, Finalizing
<1>11. QED
  BY <1>7, <1>8, <1>9, <1>10 DEF LoginInv

---------------------------------------------------------------------------
(* The relay: its calls, its reader and the processes at the pipe.         *)
LEMMA RelayStarts == RelayInit => RelayInv
<1>1. SUFFICES ASSUME RelayInit PROVE RelayInv
  OBVIOUS
<1>2. RelayTypes
  <2>1. 0 \in 0..(MaxValue + 1) /\ 0 \in 0..0
    BY SizesAssumption
  <2>2. QED
    BY <1>1, <2>1 DEF RelayInit, RelayTypes, Answers
<1>3. PipeIsWhole /\ ChildIsReaped
  BY <1>1, SizesAssumption DEF RelayInit, PipeIsWhole, ChildIsReaped
<1>4. QED
  BY <1>2, <1>3 DEF RelayInv

LEMMA RelayKeeps ==
  RelayInv /\ (ReadReference \/ RelayNext) => RelayInv'
<1>1. SUFFICES ASSUME RelayInv, ReadReference \/ RelayNext PROVE RelayInv'
  OBVIOUS
<1> USE SizesAssumption
<1>2. /\ RelayTypes /\ PipeIsWhole /\ ChildIsReaped
      /\ MaxValue \in Nat /\ size \in Nat /\ wrote \in Nat /\ got \in Nat
      /\ size <= MaxValue + 1 /\ wrote <= size /\ got <= wrote
      /\ alive \subseteq {"child", "member", "escaped"}
  BY <1>1 DEF RelayInv, RelayTypes
<1>3. CASE ReadReference
  <2>1. RelayTypes'
    <3>1. size' \in 0..(MaxValue + 1) /\ wrote' \in 0..size' /\ got' \in 0..wrote'
      BY <1>2, <1>3 DEF ReadReference
    <3>2. QED
      BY <1>2, <1>3, <3>1 DEF ReadReference, RelayTypes, Answers
  <2>2. PipeIsWhole' /\ ChildIsReaped'
    BY <1>2, <1>3 DEF ReadReference, PipeIsWhole, ChildIsReaped
  <2>3. QED
    BY <2>1, <2>2 DEF RelayInv
<1>4. CASE SpawnRelay
  <2>1. RelayTypes'
    BY <1>2, <1>4 DEF SpawnRelay, RelayTypes, Answers
  <2>2. PipeIsWhole' /\ ChildIsReaped'
    <3>1. /\ reader = "none" /\ alive = {} /\ status = "none" /\ got = 0 /\ answer # "value"
          /\ status' = "none" /\ got' = 0 /\ wrote' = wrote /\ size' = size
      BY <1>2, <1>4 DEF SpawnRelay, PipeIsWhole, ChildIsReaped
    <3>2. \/ reader' = "reading" /\ rpc' = "wait" /\ answer' = answer
          \/ rpc' = "end" /\ answer' = "refused" /\ alive' = {} /\ reader' = "none"
      BY <1>4, <3>1 DEF SpawnRelay
    <3>3. PipeIsWhole'
      BY <1>2, <3>1, <3>2 DEF PipeIsWhole
    <3>4. ChildIsReaped'
      BY <3>1, <3>2 DEF ChildIsReaped
    <3>5. QED
      BY <3>3, <3>4
  <2>3. QED
    BY <2>1, <2>2 DEF RelayInv
<1>5. ASSUME Refuse, rpc \in {"wait", "group", "finish"} PROVE RelayInv'
  <2>1. RelayTypes'
    BY <1>2, <1>5 DEF Refuse, KillGroup, RelayTypes, Answers
  <2>2. PipeIsWhole' /\ ChildIsReaped'
    BY <1>2, <1>5 DEF Refuse, KillGroup, PipeIsWhole, ChildIsReaped, RelayTypes
  <2>3. QED
    BY <2>1, <2>2 DEF RelayInv
<1>6. CASE WaitChild
  <2>1. CASE Refuse
    BY <1>5, <1>6, <2>1 DEF WaitChild
  <2>2. CASE ~Refuse
    <3>1. RelayTypes'
      BY <1>2, <1>6, <2>2 DEF WaitChild, RelayTypes
    <3>2. PipeIsWhole' /\ ChildIsReaped'
      BY <1>2, <1>6, <2>2 DEF WaitChild, PipeIsWhole, ChildIsReaped
    <3>3. QED
      BY <3>1, <3>2 DEF RelayInv
  <2>3. QED
    BY <2>1, <2>2
<1>7. CASE KillAfterExit
  <2>1. CASE Refuse
    BY <1>5, <1>7, <2>1 DEF KillAfterExit
  <2>2. CASE ~Refuse
    <3>1. RelayTypes'
      BY <1>2, <1>7, <2>2 DEF KillAfterExit, KillGroup, RelayTypes
    <3>2. PipeIsWhole' /\ ChildIsReaped'
      BY <1>2, <1>7, <2>2 DEF KillAfterExit, KillGroup, PipeIsWhole, ChildIsReaped
    <3>3. QED
      BY <3>1, <3>2 DEF RelayInv
  <2>3. QED
    BY <2>1, <2>2
<1>8. CASE Finish
  <2>1. CASE Refuse
    BY <1>5, <1>8, <2>1 DEF Finish
  <2>2. CASE ~Refuse
    <3>1. RelayTypes'
      BY <1>2, <1>8, <2>2 DEF Finish, child, RelayTypes, Answers
    <3>2. PipeIsWhole' /\ ChildIsReaped'
      BY <1>2, <1>8, <2>2 DEF Finish, child, PipeIsWhole, ChildIsReaped
    <3>3. QED
      BY <3>1, <3>2 DEF RelayInv
  <2>3. QED
    BY <2>1, <2>2
<1>9. CASE Close
  <2>1. RelayTypes'
    BY <1>2, <1>9 DEF Close, child, RelayTypes
  <2>2. PipeIsWhole' /\ ChildIsReaped'
    BY <1>2, <1>9 DEF Close, child, PipeIsWhole, ChildIsReaped
  <2>3. QED
    BY <2>1, <2>2 DEF RelayInv
<1>10. CASE ReaderTurns
  <2>1. RelayTypes'
    BY <1>2, <1>10 DEF ReaderTurns, child, RelayTypes
  <2>2. PipeIsWhole' /\ ChildIsReaped'
    BY <1>2, <1>10 DEF ReaderTurns, child, PipeIsWhole, ChildIsReaped
  <2>3. QED
    BY <2>1, <2>2 DEF RelayInv
<1>11. CASE ChildRuns
  <2>1. RelayTypes'
    <3>1. size' = size /\ wrote' \in 0..size /\ got' \in 0..wrote'
      BY <1>2, <1>11 DEF ChildRuns
    <3>2. alive' \in SUBSET {"child", "member", "escaped"} /\ status' \in {"none", "zero", "bad"}
      BY <1>2, <1>11 DEF ChildRuns, RelayTypes
    <3>3. QED
      BY <1>2, <1>11, <3>1, <3>2 DEF ChildRuns, RelayTypes
  <2>2. PipeIsWhole' /\ ChildIsReaped'
    BY <1>2, <1>11 DEF ChildRuns, PipeIsWhole, ChildIsReaped, RelayTypes
  <2>3. QED
    BY <2>1, <2>2 DEF RelayInv
<1>12. CASE DescendantExits
  <2>1. RelayTypes'
    BY <1>2, <1>12 DEF DescendantExits, RelayTypes
  <2>2. PipeIsWhole' /\ ChildIsReaped'
    BY <1>2, <1>12 DEF DescendantExits, PipeIsWhole, ChildIsReaped
  <2>3. QED
    BY <2>1, <2>2 DEF RelayInv
<1>13. QED
  BY <1>1, <1>3, <1>4, <1>6, <1>7, <1>8, <1>9, <1>10, <1>11, <1>12 DEF RelayNext, RelayStep

---------------------------------------------------------------------------
(* The two together. Whatever the threads of the relay do, the transaction *)
(* makes one of its own steps or none.                                     *)
LEMMA LoginTakesItsStep == LRNext => [Next]_vars
<1>1. SUFFICES ASSUME LRNext PROVE [Next]_vars
  OBVIOUS
<1>2. CASE OtherStep
  BY <1>2 DEF OtherStep, Next, Step
<1>3. CASE CredentialsRead \/ LeaveRelay
  BY <1>3 DEF CredentialsRead, LeaveRelay, Next, Step
<1>4. CASE StartField \/ SignalRelay
  BY <1>4 DEF StartField, SignalRelay
<1>5. CASE RelayRuns \/ TimerFires \/ ClockRunsOut \/ World
  BY <1>5 DEF RelayRuns, TimerFires, ClockRunsOut, World, Next
<1>6. QED
  BY <1>1, <1>2, <1>3, <1>4, <1>5 DEF LRNext, LoginStep

(* And the relay one of its own.                                           *)
LEMMA RelayTakesItsStep ==
  RelayInv /\ [LRNext]_allvars => RelayInv'
<1>1. SUFFICES ASSUME RelayInv, [LRNext]_allvars PROVE RelayInv'
  OBVIOUS
<1>2. CASE UNCHANGED relay
  BY <1>1, <1>2 DEF relay, RelayInv, RelayTypes, PipeIsWhole, ChildIsReaped
<1>3. CASE StartField
  BY <1>1, <1>3, RelayKeeps DEF StartField
<1>4. CASE SignalRelay
  BY <1>1, <1>4 DEF SignalRelay, child, RelayInv, RelayTypes, PipeIsWhole, ChildIsReaped
<1>5. CASE RelayStep \/ ChildRuns \/ DescendantExits
  BY <1>1, <1>5, RelayKeeps DEF RelayNext
<1>6. QED
  BY <1>1, <1>2, <1>3, <1>4, <1>5
     DEF LRNext, LoginStep, OtherStep, CredentialsRead, LeaveRelay, RelayRuns, TimerFires,
         ClockRunsOut, World, allvars

(* The transaction comes to insert in one way only: the relay's step ends  *)
(* with the loader checked next.                                           *)
LEMMA FillingStarts ==
  ASSUME LoginInv, [Next]_vars, Filling', ~Filling
  PROVE  pc = "relay" /\ pc' = "loader" /\ ReadCredentials
<1>1. /\ calls \in Seq(Calls) /\ page \in Pages
      /\ pc \notin InsertPoints /\ "fill" \notin Waiting /\ ~page.inserted
  BY DEF LoginInv, Types, Filling
<1>2. ASSUME NEW c \in Calls \ InsertPoints, Ask(c), page' = page PROVE FALSE
  <2>1. c # "fill" /\ c # "submit"
    BY <1>2 DEF InsertPoints
  <2>2. pc' = c /\ Waiting' \subseteq Waiting \cup {c}
    BY <1>1, <1>2, <2>1, AskQueues
  <2>3. QED
    BY <1>1, <1>2, <2>1, <2>2 DEF Filling
<1>3. ASSUME NEW p, p \notin InsertPoints, Goto(p), page' = page PROVE FALSE
  BY <1>1, <1>3 DEF Goto, Filling, Waiting
<1>4. ASSUME NEW ph, NEW cause, Stops(ph, cause), page' = page PROVE FALSE
  <2>1. "final" \in Calls \ InsertPoints /\ "dialogs" \notin InsertPoints
    BY DEF Calls, Finalizing, InsertPoints
  <2>2. QED
    BY <1>2, <1>3, <1>4, <2>1 DEF Stops, Conclude
<1>5. /\ {"frame", "begin", "final", "final_loader"} \subseteq Calls \ InsertPoints
      /\ {"owner", "relay_probe", "connect", "check", "recheck", "relay", "dialogs", "teardown",
          "done"} \cap InsertPoints = {}
  BY DEF Calls, Finalizing, InsertPoints
<1>6. ~LoadPolicy /\ ~VerifyRecordedOwner /\ ~EnsureRelayReady
  BY <1>3, <1>5 DEF LoadPolicy, VerifyRecordedOwner, EnsureRelayReady, Refuses, world
<1>7. ~Connect /\ ~VerifyConnectedBrowser
  BY <1>3, <1>5 DEF Connect, VerifyConnectedBrowser, Refuses, Leaves, world
<1>8. ~RecheckIdentity /\ ~ReadFrame
  BY <1>2, <1>3, <1>5 DEF RecheckIdentity, ReadFrame, Leaves, world
<1>9. ~Validate
  BY <1>3, <1>4, <1>5 DEF Validate, world
<1>10. ~CheckLoader /\ ~FillAnswered /\ ~SubmitAnswered /\ ~ConfirmClear /\ ~AwaitSuccess
  BY <1>1 DEF CheckLoader, FillAnswered, SubmitAnswered, ConfirmClear, AwaitSuccess, InsertPoints
<1>11. ~FinalClear
  BY <1>2, <1>3, <1>5 DEF FinalClear, Conclude, world
<1>12. ~CloseDialogs /\ ~TearDown
  BY <1>3, <1>5 DEF CloseDialogs, TearDown, world
<1>13. ~PageRuns
  <2>1. SUFFICES ASSUME PageRuns PROVE FALSE
    OBVIOUS
  <2>2. PICK a : Answered(Head(calls), a)
    BY <2>1 DEF PageRuns, RunFrame, RunBegin, RunLoader, RunFill, RunSubmit, RunClear, RunGone,
                RunProbe
  <2>3. Head(calls) \in Waiting /\ Waiting' \subseteq Waiting
    BY <1>1, <2>1, <2>2, AnsweredPops DEF PageRuns
  <2>4. page'.inserted = page.inserted
    BY <1>1, <2>1, <2>3
       DEF PageRuns, RunFrame, RunBegin, RunLoader, RunFill, RunSubmit, RunClear, RunGone,
           RunProbe, Pages
  <2>5. QED
    BY <1>1, <2>1, <2>3, <2>4 DEF PageRuns, Filling
<1>14. ~PageActs
  <2>1. PageActs => page'.inserted = page.inserted
    BY <1>1 DEF PageActs, Navigates, SwapsNodes, RestoresValues, ShowsSuccess, Pages
  <2>2. QED
    BY <1>1, <2>1 DEF PageActs, Filling, Waiting
<1>15. ~TimesOut /\ ~SessionFails /\ ~Cancel /\ ~DeadlinePasses /\ ~BrowserExits
       /\ ~StrangerStarts /\ ~(UNCHANGED vars)
  BY <1>1 DEF TimesOut, SessionFails, Cancel, DeadlinePasses, BrowserExits, StrangerStarts,
              world, vars, Filling, Waiting
<1>16. ReadCredentials
  BY <1>6, <1>7, <1>8, <1>9, <1>10, <1>11, <1>12, <1>13, <1>14, <1>15 DEF Next, Step
<1>17. pc' = "loader"
  <2>1. SUFFICES ASSUME pc' # "loader" PROVE FALSE
    OBVIOUS
  <2>2. pc' = "loader" \/ (\E ph, cause : Stops(ph, cause)) \/ Goto("dialogs")
    BY <1>16 DEF ReadCredentials, Ask, Conclude
  <2>3. QED
    BY <1>3, <1>4, <1>5, <1>16, <2>1, <2>2 DEF ReadCredentials, world
<1>18. QED
  BY <1>16, <1>17 DEF ReadCredentials

LEMMA BothReadKeeps ==
  ASSUME RelayInv, LoginInv, fields \in 0..2, BothRead, [LRNext]_allvars
  PROVE  fields' \in 0..2 /\ BothRead'
<1>1. [Next]_vars
  BY LoginTakesItsStep DEF allvars
<1>2. fields' \in 0..2
  BY DEF LRNext, LoginStep, OtherStep, StartField, CredentialsRead, SignalRelay, LeaveRelay,
         RelayRuns, TimerFires, ClockRunsOut, World, allvars
<1>3. CASE ~Filling'
  BY <1>2, <1>3 DEF BothRead
<1>4. CASE Filling /\ Filling'
  <2>1. fields = 2 /\ answer = "value" /\ Idle
    BY <1>4 DEF BothRead
  <2>2. ~StartField
    BY <2>1 DEF StartField
  <2>3. fields' = fields /\ answer' = answer /\ Idle'
    BY <2>1, <2>2
       DEF LRNext, LoginStep, OtherStep, CredentialsRead, SignalRelay, LeaveRelay,
           RelayRuns, TimerFires, ClockRunsOut, World, allvars, relay, RelayStep, SpawnRelay,
           WaitChild, KillAfterExit, Finish, Close, ReaderTurns, ChildRuns, DescendantExits, Idle
  <2>4. QED
    BY <1>2, <2>1, <2>3 DEF BothRead
<1>5. CASE ~Filling /\ Filling'
  <2>1. pc = "relay" /\ pc' = "loader" /\ ReadCredentials
    BY <1>1, <1>5, FillingStarts
  <2>2. stop = NoCause /\ result = Pending
    BY <2>1 DEF LoginInv, Progress, Finals, Over, Closing
  <2>3. stop' = stop /\ result' = result
    BY <2>1 DEF ReadCredentials, Stops, Conclude, Goto, Ask
  <2>4. stop'.kind = "none" /\ result'.msg = "pending"
    BY <2>2, <2>3 DEF NoCause, Pending, Report
  <2>5. CASE CredentialsRead
    BY <1>2, <2>4, <2>5 DEF CredentialsRead, BothRead, Idle, relay
  <2>6. ~LeaveRelay
    BY <2>4 DEF LeaveRelay
  <2>7. ~OtherStep
    BY <2>1 DEF OtherStep, LoadPolicy, VerifyRecordedOwner, EnsureRelayReady, Connect,
                VerifyConnectedBrowser, RecheckIdentity, ReadFrame, Validate, CheckLoader,
                FillAnswered, SubmitAnswered, ConfirmClear, AwaitSuccess, FinalClear,
                CloseDialogs, TearDown
  <2>8. pc' # pc
    BY <2>1
  <2>9. CredentialsRead
    BY <2>6, <2>7, <2>8
       DEF LRNext, LoginStep, StartField, SignalRelay, RelayRuns, TimerFires, ClockRunsOut, World,
           allvars, vars, TimesOut, DeadlinePasses, PageRuns, PageActs, SessionFails, Cancel,
           BrowserExits, StrangerStarts
  <2>10. QED
    BY <2>5, <2>9
<1>6. QED
  BY <1>3, <1>4, <1>5

LEMMA CompositeStarts == LRInit => CompositeInv
<1>1. SUFFICES ASSUME LRInit PROVE CompositeInv
  OBVIOUS
<1>2. RelayInv /\ LoginInv /\ fields \in 0..2
  BY <1>1, RelayStarts, InitHolds DEF LRInit
<1>3. ~Filling
  BY <1>1, NothingWaits DEF LRInit, Init, Filling, InsertPoints
<1>4. QED
  BY <1>2, <1>3 DEF CompositeInv, BothRead

LEMMA CompositeKeeps == CompositeInv /\ [LRNext]_allvars => CompositeInv'
<1>1. SUFFICES ASSUME CompositeInv, [LRNext]_allvars PROVE CompositeInv'
  OBVIOUS
<1>2. RelayInv /\ LoginInv /\ fields \in 0..2 /\ BothRead
  BY <1>1 DEF CompositeInv
<1>3. [Next]_vars
  BY <1>1, LoginTakesItsStep DEF allvars
<1>4. LoginInv' /\ RelayInv'
  BY <1>1, <1>2, <1>3, NextKeeps, RelayTakesItsStep
<1>5. fields' \in 0..2 /\ BothRead'
  BY <1>1, <1>2, BothReadKeeps
<1>6. QED
  BY <1>4, <1>5 DEF CompositeInv

LEMMA CompositeInvariance == LRSpec => []CompositeInv
BY CompositeStarts, CompositeKeeps, PTL DEF LRSpec

---------------------------------------------------------------------------
(* The steps of the transaction with its threads, pipes and processes are  *)
(* the steps of the transaction in which reading the credentials is one    *)
(* step: the safety half of the refinement RefinesLogin.                   *)
THEOREM RelayRefinesTheorem == LRSpec => Init /\ [][Next]_vars
<1>1. LRInit => Init
  BY DEF LRInit
<1>2. [LRNext]_allvars => [Next]_vars
  BY LoginTakesItsStep DEF allvars
<1>3. QED
  BY <1>1, <1>2, PTL DEF LRSpec

(* Whatever the page, the clock and the processes do, bt login reports what *)
(* happened: a form left with a value is warned of, success was observed   *)
(* after the one submission, and the fixed sentences are true              *)
(* (login._run, login_contract.diagnosis).                                 *)
THEOREM LoginIsTruthfulTheorem == LRSpec => []LoginIsTruthful
<1>1. LoginInv => TypeOK
  BY BoundsAssumption
     DEF LoginInv, Types, Documents, Sentences, TypeOK, Causes, Kinds, Reports, Knowns, Pages,
         Replies
<1>2. LoginInv => WarnedIfLeft
  BY DEF LoginInv, Types, Cleanness, WarnedIfLeft, Over, Reports
<1>3. LoginInv => SuccessIsObserved
  BY DEF LoginInv, Progress, Sentences, SuccessIsObserved
<1>4. LoginInv => SaysWhatHappened
  BY DEF LoginInv, Types, Progress, Cleanness, Sentences, SaysWhatHappened, Over, Pages, Reports
<1>5. CompositeInv => LoginIsTruthful
  BY <1>1, <1>2, <1>3, <1>4 DEF CompositeInv, LoginIsTruthful
<1>6. QED
  BY <1>5, CompositeInvariance, PTL

(* Values go once, whole and both into the document that was validated, of *)
(* the recorded browser, and a finished read leaves neither a process of   *)
(* its group nor a thread at its pipe (login._insert,                      *)
(* credential_relay.read_reference).                                       *)
THEOREM InsertsSafelyTheorem == LRSpec => []InsertsSafely
<1>1. LoginInv => InsertsWhereValidated /\ NeverResubmits
  BY DEF LoginInv, Types, Progress, Documents, Owner, InsertsWhereValidated, NeverResubmits, Pages
<1>2. BothRead => InsertsBothValues
  BY DEF BothRead, Filling, InsertsBothValues
<1>3. RelayInv => WholeOrNothing
  BY SizesAssumption DEF RelayInv, RelayTypes, PipeIsWhole, WholeOrNothing
<1>4. RelayInv => NoProcessLeft /\ ClosedUnread
  BY DEF RelayInv, ChildIsReaped, NoProcessLeft, ClosedUnread
<1>5. CompositeInv => InsertsSafely
  BY <1>1, <1>2, <1>3, <1>4 DEF CompositeInv, InsertsSafely
<1>6. QED
  BY <1>5, CompositeInvariance, PTL
=======================================================================
