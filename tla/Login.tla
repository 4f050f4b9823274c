---------------------------- MODULE Login ----------------------------
(* bt login: one configured login on one page session (login.py,          *)
(* login_contract.py, login_ownership.py, login_guards.py, login_form.js). *)
(*                                                                        *)
(* Four parties run at once: the command, whose program counter is `pc`;  *)
(* the page, which executes the calls of the session in the order they    *)
(* were sent and otherwise does what it likes; the clock; and the system, *)
(* where the recorded browser may exit and another take its port or its   *)
(* process id. A call the command gave up stays queued in the page.       *)
EXTENDS Naturals, Sequences

CONSTANTS MaxCancels,   \* bound: cancellations of the command
          MaxDocs       \* bound: documents the frame holds, one after another

ASSUME BoundsAssumption == MaxCancels \in Nat /\ MaxDocs \in Nat \ {0}

VARIABLES
  pc,        \* what the command is doing; a name of Calls while it awaits that call
  reply,     \* the answer of the call it awaits, "none" while in flight
  calls,     \* the calls sent over the session that the page has not run yet
  expired,   \* the one operation deadline has passed
  cancels,   \* cancellations delivered so far
  phase,     \* Progress.state: Untouched, or the phase of BoundProgress
  stop,      \* Progress.stop: the stop cause with its own error
  result,    \* what the command will report
  known,     \* the loader id _read_frame returned, the document begin() bound
  page,      \* the document in the frame and its login form
  sys        \* who runs at the recorded pid, who listens at the port, who answers

vars == <<pc, reply, calls, expired, cancels, phase, stop, result, known, page, sys>>
world == <<expired, cancels, known, page, sys>>

Failed == "failed"          \* a send that raised: lost session, context gone, send timeout
Expired == "expired"        \* DeadlineExpiredError, or the wall around the work
Cancelled == "cancelled"    \* CancelledError

NoCause == [kind |-> "none", error |-> "none"]
Cause(k, e) == [kind |-> k, error |-> e]
Report(m) == [msg |-> m, warn |-> FALSE]
Warned(m) == [msg |-> m, warn |-> TRUE]
MayRemain == Warned("fields_may_remain")
Pending == Report("pending")
Propagate == Report("cancelled")

Dispatched == {"fill_dispatched", "submit_dispatched"}
Phases == Dispatched \cup {"untouched", "fill_response", "submit_response", "observed_success"}

(* The calls on the object begin() returned; they die with its document.  *)
BoundCalls == {"fill", "submit", "clear1", "final"}
(* Finalization draws on two seconds of its own, never on the deadline.   *)
Finalizing == {"clear1", "clear1_loader", "final", "final_loader"}
Calls == BoundCalls \cup Finalizing \cup {"frame", "begin", "loader", "probe"}
Unconnected == {"policy", "owner", "relay_probe"}
Closing == {"dialogs", "teardown"}
Awaits == Calls \cup Closing \cup {"connect", "check", "recheck", "relay"}

Init ==
  /\ pc = "policy" /\ reply = "none" /\ calls = <<>>
  /\ expired = FALSE /\ cancels = 0
  /\ phase = "untouched" /\ stop = NoCause /\ result = Pending
  /\ known = [frame |-> 0, bound |-> 0]
  /\ page = [doc |-> 1, held |-> {}, swapped |-> FALSE, inserted |-> FALSE,
             submits |-> 0, auth |-> FALSE, seen |-> FALSE]
  /\ \E who \in {"ours", "stranger"} : sys = [pid |-> "ours", port |-> who, peer |-> "none"]

(***************************************************************************)
(* diagnosis: the progress, the cause and the final clear's result pick    *)
(* the report. cleared is "yes", "no" (uncertain on a live document) or    *)
(* "replaced".                                                             *)
(***************************************************************************)
DiagnosisUntouched(cause) ==
  CASE cause.kind = "cancelled" -> Propagate
    [] cause.kind \in {"known", "unknown", "expired"} -> Report(cause.error)
    [] OTHER -> Report("finalization_failed")

DiagnosisCancelled(ph, cleared) ==
  CASE cleared = "no" -> MayRemain
    [] cleared = "replaced" /\ ph = "fill_dispatched" -> Report("changed_during_fill")
    [] cleared = "replaced" /\ ph = "submit_dispatched" -> Report("changed_before_submit")
    [] OTHER -> Propagate

DiagnosisNoCause(ph, cleared) ==
  CASE ph = "observed_success" -> IF cleared = "no" THEN MayRemain ELSE Report("success")
    [] ph # "observed_success" /\ cleared = "no" -> Warned("finalization_failed")
    [] OTHER -> Report("finalization_failed")

DiagnosisUncertain(ph, cleared) ==
  CASE cleared = "no" -> MayRemain
    [] cleared = "replaced" -> Report(IF ph = "fill_dispatched" THEN "changed_during_fill"
                                                               ELSE "changed_before_submit")
    [] OTHER -> Report(IF ph = "fill_dispatched" THEN "fill_uncertain" ELSE "submit_uncertain")

Diagnosis(ph, cause, cleared) ==
  CASE ph = "untouched" -> DiagnosisUntouched(cause)
    [] ph # "untouched" /\ cause.kind = "cancelled" -> DiagnosisCancelled(ph, cleared)
    [] ph # "untouched" /\ cause.kind = "none" -> DiagnosisNoCause(ph, cleared)
    [] ph \in Dispatched /\ cause.kind \in {"unknown", "expired"} -> DiagnosisUncertain(ph, cleared)
    [] ph # "untouched" /\ cause.kind = "unmet" ->
         IF cleared = "no" THEN MayRemain ELSE Report(cause.error)
    [] OTHER -> IF cleared = "no" THEN Warned(cause.error) ELSE Report(cause.error)

(***************************************************************************)
(* The page: it runs the head of the queue and answers it, unless the call *)
(* has been given up.                                                      *)
(***************************************************************************)
(* clearFields: the bound nodes are emptied, and confirmed together with   *)
(* the controls the selectors find now; a setter may fail.                 *)
Cleared(held, after) == after \in {held, held \ {"bound"}}

(* revalidate: the bound nodes are still the form's, and the page does not *)
(* show the success marker; any other check of the form may fail.          *)
FormHolds == ~page.swapped /\ ~page.auth

InBoundDocument == page.doc = known.bound

Answered(c, a) ==
  /\ calls' = Tail(calls)
  /\ reply' = IF Len(calls) = 1 /\ pc = c /\ reply = "none" THEN a ELSE reply

RunFrame(c) ==
  /\ c = "frame"
  /\ Answered(c, "ok")
  /\ known' = [known EXCEPT !.frame = page.doc]
  /\ UNCHANGED page

RunBegin(c) ==
  /\ c = "begin"
  /\ \/ /\ FormHolds
        /\ Answered(c, "ok")
        /\ known' = [known EXCEPT !.bound = page.doc]
     \/ Answered(c, "refused") /\ UNCHANGED known
  /\ UNCHANGED page

(* _loader_changed, asked before the fill and when a clear failed.        *)
RunLoader(c) ==
  /\ c \in {"loader", "clear1_loader", "final_loader"}
  /\ Answered(c, IF page.doc = known.frame THEN "same" ELSE "changed")
  /\ UNCHANGED <<known, page>>

(* fill: refused before any insertion; or both values are set with their   *)
(* events, and the page's handlers may replace the nodes, keeping copies:  *)
(* the second revalidation then clears and refuses.                        *)
RunFill(c) ==
  /\ c = "fill" /\ InBoundDocument
  /\ \/ Answered(c, "untouched") /\ UNCHANGED page
     \/ /\ FormHolds
        /\ \/ /\ Answered(c, "ok")
              /\ page' = [page EXCEPT !.inserted = TRUE, !.held = {"bound"}]
           \/ /\ Answered(c, "refused")
              /\ \E swap \in BOOLEAN, h \in SUBSET {"bound", "copy"} :
                   /\ Cleared(IF swap THEN {"bound", "copy"} ELSE {"bound"}, h)
                   /\ page' = [page EXCEPT !.inserted = TRUE, !.swapped = swap, !.held = h]
  /\ UNCHANGED known

(* submit: revalidated, checked and requested once; the fields are cleared *)
(* before the call returns, whatever happened.                             *)
RunSubmit(c) ==
  /\ c = "submit" /\ InBoundDocument
  /\ \E ok \in BOOLEAN, h \in SUBSET {"bound", "copy"} :
       /\ ok => FormHolds
       /\ Cleared(page.held, h)
       /\ Answered(c, IF ok THEN "ok" ELSE "refused")
       /\ page' = [page EXCEPT !.submits = IF ok THEN @ + 1 ELSE @, !.held = h]
  /\ UNCHANGED known

RunClear(c) ==
  /\ c \in {"clear1", "final"} /\ InBoundDocument
  /\ \E h \in SUBSET {"bound", "copy"} :
       /\ Cleared(page.held, h)
       /\ Answered(c, IF h = {} THEN "yes" ELSE "no")
       /\ page' = [page EXCEPT !.held = h]
  /\ UNCHANGED known

(* A call on the session object of a document that has gone.              *)
RunGone(c) ==
  /\ c \in BoundCalls /\ ~InBoundDocument
  /\ Answered(c, Failed)
  /\ UNCHANGED <<known, page>>

(* The success probe; a navigation between its two calls loses its context.*)
RunProbe(c) ==
  /\ c = "probe"
  /\ \/ page.auth /\ Answered(c, "auth") /\ page' = [page EXCEPT !.seen = TRUE]
     \/ ~page.auth /\ Answered(c, "not_yet") /\ UNCHANGED page
     \/ Answered(c, "lost") /\ UNCHANGED page
  /\ UNCHANGED known

PeerLives == sys.peer = "ours" => sys.pid = "ours"

PageRuns ==
  /\ calls # <<>> /\ PeerLives
  /\ LET c == Head(calls) IN
       \/ RunFrame(c) \/ RunBegin(c) \/ RunLoader(c) \/ RunFill(c)
       \/ RunSubmit(c) \/ RunClear(c) \/ RunGone(c) \/ RunProbe(c)
  /\ UNCHANGED <<pc, expired, cancels, phase, stop, result, sys>>

(* What the page does by itself: it loads another document, replaces the   *)
(* form's nodes (keeping what they held or not), puts remembered values    *)
(* back, and shows the success marker. Values come back only before the    *)
(* last clear has run: nothing looks at the form afterwards. A form that    *)
(* changes before the fill is one of the refusals of RunBegin and RunFill. *)
LastClearRan == pc \in Closing \cup {"done", "final_loader"} \/ (pc = "final" /\ "final" \notin {calls[i] : i \in DOMAIN calls})

Navigates ==
  /\ page.doc < MaxDocs
  /\ \E shows \in BOOLEAN :
       page' = [page EXCEPT !.doc = @ + 1, !.held = {}, !.swapped = FALSE, !.auth = shows]

SwapsNodes ==
  /\ page.inserted /\ ~page.swapped
  /\ \E h \in SUBSET {"bound", "copy"} :
       /\ page.held = {} => h = {}
       /\ page.held # {} => "copy" \in h \/ "bound" \in h
       /\ page' = [page EXCEPT !.swapped = TRUE, !.held = h]

RestoresValues ==
  /\ page.inserted /\ page.held = {} /\ page.doc = known.bound /\ ~LastClearRan
  /\ page' = [page EXCEPT !.held = {IF page.swapped THEN "copy" ELSE "bound"}]

ShowsSuccess == ~page.auth /\ page' = [page EXCEPT !.auth = TRUE]

PageActs ==
  /\ sys.peer # "none" /\ pc # "done"
  /\ Navigates \/ SwapsNodes \/ RestoresValues \/ ShowsSuccess
  /\ UNCHANGED <<pc, reply, calls, expired, cancels, phase, stop, result, known, sys>>

(***************************************************************************)
(* The clock, cancellation, the session and the processes.                 *)
(***************************************************************************)
DeadlinePasses ==
  /\ ~expired /\ pc # "done"
  /\ expired' = TRUE
  /\ UNCHANGED <<pc, reply, calls, cancels, phase, stop, result, known, page, sys>>

(* A bounded call that gets no answer in time: the send's own timeout, or  *)
(* the wall once the deadline has passed. A probe that times out is asked  *)
(* again, which is the same probe still in flight.                         *)
TimesOut ==
  /\ pc \in Calls /\ reply = "none"
  /\ pc = "probe" => expired
  /\ reply' \in {Failed} \cup (IF expired /\ pc \notin Finalizing THEN {Expired} ELSE {})
  /\ pc = "probe" => reply' = Expired
  /\ UNCHANGED <<pc, calls, phase, stop, result, world>>

SessionFails ==
  /\ pc \in Calls /\ reply = "none"
  /\ reply' = Failed
  /\ UNCHANGED <<pc, calls, phase, stop, result, world>>

Cancel ==
  /\ cancels < MaxCancels /\ pc \in Awaits /\ reply = "none"
  /\ cancels' = cancels + 1
  /\ reply' = Cancelled
  /\ UNCHANGED <<pc, calls, expired, phase, stop, result, known, page, sys>>

BrowserExits ==
  /\ sys.pid = "ours" /\ pc # "done"
  /\ sys' = [sys EXCEPT !.pid = "nobody", !.port = IF @ = "ours" THEN "nobody" ELSE @]
  /\ UNCHANGED <<pc, reply, calls, phase, stop, result, expired, cancels, known, page>>

(* Another browser starts on the free port, at a fresh pid or at the       *)
(* recorded one. After the last look at the processes nobody would see it. *)
StrangerStarts ==
  /\ sys.port = "nobody" /\ sys.pid = "nobody"
  /\ pc \in Unconnected \cup {"connect", "check", "recheck"}
  /\ \E pid \in {"nobody", "stranger"} : sys' = [sys EXCEPT !.port = "stranger", !.pid = pid]
  /\ UNCHANGED <<pc, reply, calls, phase, stop, result, expired, cancels, known, page>>

(***************************************************************************)
(* The command. Ask sends a call; a call of the work asked for after the   *)
(* deadline is not sent.                                                   *)
(***************************************************************************)
Ask(c) ==
  /\ pc' = c
  /\ IF expired /\ c \notin Finalizing
     THEN reply' = Expired /\ UNCHANGED calls
     ELSE reply' = "none" /\ calls' = Append(calls, c)

Goto(p) == pc' = p /\ reply' = "none" /\ UNCHANGED calls

Conclude(r) == result' = r /\ Goto("dialogs")

CauseOf(r) ==
  CASE r = Expired -> Cause("expired", "timed_out")
    [] r = Cancelled -> Cause("cancelled", "none")
    [] OTHER -> Cause("unknown", "session_failed")

(* _finalize: nothing inserted owes no clear; every other exit runs one.  *)
Stops(ph, cause) ==
  /\ phase' = ph /\ stop' = cause
  /\ IF ph = "untouched"
     THEN Conclude(Diagnosis(ph, cause, "yes"))
     ELSE Ask("final") /\ UNCHANGED result

Ended == reply \in {Failed, Expired, Cancelled}

(* Refused before the session is open: nothing to close.                  *)
Refuses(m) == result' = Report(m) /\ Goto("done") /\ UNCHANGED <<phase, stop, world>>

LoadPolicy ==
  /\ pc = "policy"
  /\ \/ Refuses("usage")
     \/ Goto("owner") /\ UNCHANGED <<phase, stop, result, world>>

IdentityHolds == sys.pid = "ours"

VerifyRecordedOwner ==
  /\ pc = "owner"
  /\ \/ expired /\ Refuses("timed_out")
     \/ ~IdentityHolds /\ Refuses("not_owner")
     \/ ~expired /\ IdentityHolds /\ Goto("relay_probe") /\ UNCHANGED <<phase, stop, result, world>>

EnsureRelayReady ==
  /\ pc = "relay_probe"
  /\ \/ Refuses(IF expired THEN "timed_out" ELSE "relay_failed")
     \/ ~expired /\ Goto("connect") /\ UNCHANGED <<phase, stop, result, world>>

(* one_shot_page_session under the acquisition wall: connect to whoever    *)
(* listens at the recorded port, choose the page, attach.                  *)
Connect ==
  /\ pc = "connect"
  /\ \/ reply = Cancelled /\ Refuses("cancelled")
     \/ reply = "none" /\ Refuses(IF expired THEN "timed_out" ELSE "not_connected")
     \/ /\ reply = "none" /\ ~expired /\ sys.port # "nobody"
        /\ sys' = [sys EXCEPT !.peer = sys.port]
        /\ Goto("check")
        /\ UNCHANGED <<expired, cancels, phase, stop, result, known, page>>

(* Before the dialog guard starts, a failure goes straight to teardown.   *)
Leaves(m) == result' = Report(m) /\ Goto("teardown") /\ UNCHANGED <<phase, stop, world>>

PeerAtRecordedPid == sys.peer = sys.pid

(* SystemInfo.getProcessInfo, answered by the browser process itself.     *)
VerifyConnectedBrowser ==
  /\ pc = "check"
  /\ \/ reply = Cancelled /\ Leaves("cancelled")
     \/ reply = "none" /\ Leaves(IF expired THEN "timed_out" ELSE "not_owner")
     \/ /\ reply = "none" /\ ~expired /\ PeerAtRecordedPid
        /\ Goto("recheck") /\ UNCHANGED <<phase, stop, result, world>>

(* Fault: the recorded pid alone names the process.                       *)
RecheckIdentitySkipped ==
  /\ pc = "recheck" /\ reply = "none"
  /\ Ask("frame") /\ UNCHANGED <<phase, stop, result, world>>

(* The identity again, in a worker thread, once the reply is in hand.     *)
RecheckIdentity ==
  /\ pc = "recheck"
  /\ \/ reply = Cancelled /\ Leaves("cancelled")
     \/ reply = "none" /\ expired /\ Leaves("timed_out")
     \/ reply = "none" /\ ~IdentityHolds /\ Leaves("not_owner")
     \/ /\ reply = "none" /\ ~expired /\ IdentityHolds
        /\ Ask("frame") /\ UNCHANGED <<phase, stop, result, world>>

ReadFrame ==
  /\ pc = "frame"
  /\ \/ reply = "ok" /\ Ask("begin") /\ UNCHANGED <<phase, stop, result, world>>
     \/ /\ Ended
        /\ Leaves(CASE reply = Failed -> "session_failed" [] reply = Expired -> "timed_out"
                    [] OTHER -> "cancelled")

Validate ==
  /\ pc = "begin"
  /\ \/ reply = "ok" /\ Goto("relay") /\ UNCHANGED <<phase, stop, result>>
     \/ reply = "refused" /\ Stops(phase, Cause("known", "refused"))
     \/ Ended /\ Stops(phase, CauseOf(reply))
  /\ UNCHANGED world

(* Both fields through the relay. A relay failure keeps its own text and   *)
(* only the owed clear runs; nothing has been inserted yet.                *)
ReadCredentials ==
  /\ pc = "relay"
  /\ \/ Ended /\ Stops(phase, CauseOf(reply))
     \/ reply = "none" /\ expired /\ Stops(phase, CauseOf(Expired))
     \/ reply = "none" /\ Conclude(Report("relay_failed")) /\ UNCHANGED <<phase, stop>>
     \/ reply = "none" /\ ~expired /\ Ask("loader") /\ UNCHANGED <<phase, stop, result>>
  /\ UNCHANGED world

CheckLoader ==
  /\ pc = "loader"
  /\ \/ reply = "same" /\ phase' = "fill_dispatched" /\ Ask("fill") /\ UNCHANGED <<stop, result>>
     \/ reply = "changed" /\ Stops(phase, Cause("known", "changed_before_fill"))
     \/ Ended /\ Stops(phase, CauseOf(reply))
  /\ UNCHANGED world

FillAnswered ==
  /\ pc = "fill"
  /\ \/ reply = "ok" /\ phase' = "submit_dispatched" /\ Ask("submit") /\ UNCHANGED <<stop, result>>
     \/ reply = "untouched" /\ Stops("untouched", Cause("known", "refused"))
     \/ reply = "refused" /\ Stops("fill_response", Cause("known", "refused"))
     \/ Ended /\ Stops(phase, CauseOf(reply))
  /\ UNCHANGED world

SubmitAnswered ==
  /\ pc = "submit"
  /\ \/ reply = "ok" /\ phase' = "submit_response" /\ Ask("clear1") /\ UNCHANGED <<stop, result>>
     \/ reply = "refused" /\ Stops("submit_response", Cause("known", "refused"))
     \/ Ended /\ Stops(phase, CauseOf(reply))
  /\ UNCHANGED world

(* _try_clear after the submission. A cancellation inside it is absorbed. *)
ConfirmClear ==
  /\ \/ /\ pc = "clear1"
        /\ \/ reply = "yes" /\ Ask("probe") /\ UNCHANGED result
           \/ reply = "no" /\ Conclude(MayRemain)
           \/ Ended /\ Ask("clear1_loader") /\ UNCHANGED result
     \/ /\ pc = "clear1_loader"
        /\ \/ reply = "changed" /\ Ask("probe") /\ UNCHANGED result
           \/ (reply = "same" \/ Ended) /\ Conclude(MayRemain)
  /\ UNCHANGED <<phase, stop, world>>

(* Fault: a clock that runs out only ends one poll.                       *)
AwaitSuccessPatient ==
  /\ pc = "probe"
  /\ \/ /\ reply = "auth"
        /\ phase' = "observed_success" /\ Ask("final") /\ UNCHANGED <<stop, result>>
     \/ reply \in {"not_yet", "lost", Expired} /\ Ask("probe") /\ UNCHANGED <<phase, stop, result>>
     \/ reply = Failed /\ Stops(phase, Cause("unmet", "session_failed"))
     \/ reply = Cancelled /\ Stops(phase, CauseOf(reply))
  /\ UNCHANGED world

(* _await_success: an answer is accepted only inside the deadline; an      *)
(* expiry inside the wait is the unmet condition.                          *)
AwaitSuccess ==
  /\ pc = "probe"
  /\ \/ /\ reply = "auth" /\ ~expired
        /\ phase' = "observed_success" /\ Ask("final") /\ UNCHANGED <<stop, result>>
     \/ reply \in {"not_yet", "lost"} /\ Ask("probe") /\ UNCHANGED <<phase, stop, result>>
     \/ (reply = Expired \/ (reply = "auth" /\ expired)) /\ Stops(phase, Cause("unmet", "success_unmet"))
     \/ reply = Failed /\ Stops(phase, Cause("unmet", "session_failed"))
     \/ reply = Cancelled /\ Stops(phase, CauseOf(reply))
  /\ UNCHANGED world

(* The one owed clear and the report it picks.                            *)
FinalClear ==
  /\ \/ /\ pc = "final"
        /\ \/ reply \in {"yes", "no"} /\ Conclude(Diagnosis(phase, stop, reply))
           \/ Ended /\ Ask("final_loader") /\ UNCHANGED result
     \/ /\ pc = "final_loader" /\ reply # "none"
        /\ Conclude(Diagnosis(phase, stop, IF reply = "changed" THEN "replaced" ELSE "no"))
  /\ UNCHANGED <<phase, stop, world>>

(* DialogGuard.close: pending dismissals settle or are cancelled, and a    *)
(* cancellation passes unless the fields may remain.                       *)
CloseDialogs ==
  /\ pc = "dialogs"
  /\ result' = IF reply = Cancelled /\ ~result.warn THEN Propagate ELSE result
  /\ Goto("teardown")
  /\ UNCHANGED <<phase, stop, world>>

Propagating == {"cancelled", "relay_failed", "not_owner"}

(* Fault: a cancelled teardown replaces any report.                       *)
TearDownReplaces ==
  /\ pc = "teardown"
  /\ result' = IF reply = Cancelled THEN Propagate ELSE result
  /\ Goto("done")
  /\ UNCHANGED <<phase, stop, world>>

(* The session is closed in a grace of its own; what goes wrong there is   *)
(* reported only when nothing else is.                                     *)
TearDown ==
  /\ pc = "teardown"
  /\ \/ /\ reply = Cancelled
        /\ result' = IF result.warn \/ result.msg \in Propagating THEN result ELSE Propagate
     \/ /\ reply = "none"
        /\ result' \in {result} \cup (IF result.msg = "success"
                                      THEN {Report("timed_out"), Report("session_failed")} ELSE {})
  /\ Goto("done")
  /\ UNCHANGED <<phase, stop, world>>

Step ==
  \/ LoadPolicy \/ VerifyRecordedOwner \/ EnsureRelayReady \/ Connect
  \/ VerifyConnectedBrowser \/ RecheckIdentity \/ ReadFrame \/ Validate
  \/ ReadCredentials \/ CheckLoader \/ FillAnswered \/ SubmitAnswered
  \/ ConfirmClear \/ AwaitSuccess \/ FinalClear \/ CloseDialogs \/ TearDown

Next ==
  \/ Step \/ TimesOut \/ PageRuns \/ PageActs \/ DeadlinePasses
  \/ SessionFails \/ Cancel \/ BrowserExits \/ StrangerStarts

(* The command runs, its timers fire and the deadline comes; the page and  *)
(* the processes owe nothing.                                              *)
Spec == Init /\ [][Next]_vars /\ WF_vars(Step) /\ WF_vars(TimesOut) /\ WF_vars(DeadlinePasses)

---------------------------------------------------------------------------
Messages == {"pending", "cancelled", "usage", "timed_out", "not_owner", "relay_failed",
  "not_connected", "session_failed", "refused", "changed_before_fill", "changed_during_fill",
  "changed_before_submit", "fill_uncertain", "submit_uncertain", "success_unmet", "success",
  "fields_may_remain", "finalization_failed"}

(* Types: a bound phase has its binding, a report is one of the fixed      *)
(* sentences, and the command never reports an impossible finalization.    *)
TypeOK ==
  /\ pc \in Unconnected \cup Awaits \cup {"done"}
  /\ reply \in {"none", Failed, Expired, Cancelled, "ok", "refused", "untouched", "same",
                "changed", "yes", "no", "auth", "not_yet", "lost"}
  /\ calls \in Seq(Calls)
  /\ expired \in BOOLEAN /\ cancels \in 0..MaxCancels
  /\ phase \in Phases
  /\ stop.kind \in {"none", "known", "unknown", "expired", "unmet", "cancelled"}
  /\ result.msg \in Messages \ {"finalization_failed"} /\ result.warn \in BOOLEAN
  /\ known.frame \in 0..MaxDocs /\ known.bound \in 0..MaxDocs
  /\ page.doc \in 1..MaxDocs /\ page.held \in SUBSET {"bound", "copy"}
  /\ page.submits \in Nat
  /\ phase # "untouched" => known.bound # 0

(* Whatever happened, a command that ends while the form it filled still   *)
(* holds a value says so: the warning outranks refusal, timeout, success   *)
(* and cancellation.                                                       *)
WarnedIfLeft == pc = "done" /\ page.held # {} => result.warn

(* Authenticated is reported only when the page, after this login's one    *)
(* submission, answered the success probe.                                 *)
SuccessIsObserved == result.msg = "success" => page.seen /\ page.submits = 1

(* The form is submitted at most once, whatever call was left unanswered.  *)
NeverResubmits == page.submits <= 1

(* Values are inserted only into the page of the browser the registry row  *)
(* names, in the document the frame held when the login looked.            *)
InsertsWhereValidated ==
  page.inserted => sys.peer = "ours" /\ known.bound = known.frame

(* The fixed sentences are true when they are printed: what they say of    *)
(* the submission, of the insertion and of the cleared fields.             *)
SaysWhatHappened ==
  pc = "done" =>
    /\ result.msg \in {"fill_uncertain", "changed_during_fill", "changed_before_fill"}
         => page.submits = 0
    /\ result.msg = "changed_before_fill" => ~page.inserted
    /\ result.msg \in {"fill_uncertain", "submit_uncertain"} => page.held = {}
    /\ result.msg = "success_unmet" => page.submits = 1

(* Every login ends, whatever the page, the relay or the session does.     *)
Ends == <>(pc = "done")
=======================================================================
