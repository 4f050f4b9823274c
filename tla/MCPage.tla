------------------------------ MODULE MCPage -----------------------------
(* The verbs on a page, one to an invocation: those that observe it, a    *)
(* snapshot with an action on one of its names, the curated verbs, and    *)
(* scripts in the frame that was selected.                                *)
(* Each runs by itself while the others stay where they start.            *)
EXTENDS EventWindow, Captures, Screencast, AttachStream, UidAction, CuratedVerbs,
        FrameContexts

VARIABLE does   \* what the invocation runs

observeVars == <<windowVars, captureVars, castVars, streamVars>>
vars == <<does, observeVars, uidVars, verbVars, contextVars>>

Init ==
  /\ does \in {"window", "capture", "screencast", "attach", "uid", "verb", "frame"}
  /\ WindowInit /\ CaptureInit /\ CastInit /\ StreamInit /\ UidInit /\ VerbInit /\ ContextInit
  /\ does # "window" => window = "wait" /\ backlog = 0
  /\ does # "capture" => capture = "trace" /\ was = "absent"
  /\ does # "attach" => by = "registry" /\ todo = StreamEvents /\ stdin = "open"
  /\ does # "uid" => rend = <<"page", "page">> /\ ~framesAll
  /\ does # "verb" => verb = "navigate" /\ pattern = "none" /\ ~shared
  /\ does # "frame" => ~allFrames

Window == does = "window" /\ UNCHANGED <<does, captureVars, castVars, streamVars, uidVars, verbVars, contextVars>>
Attach == does = "attach" /\ UNCHANGED <<does, windowVars, captureVars, castVars, uidVars, verbVars, contextVars>>
Verb == does = "verb" /\ UNCHANGED <<does, observeVars, uidVars, contextVars>>

Next ==
  \/ Window /\ WindowNext
  \/ /\ does = "capture" /\ CaptureNext
     /\ UNCHANGED <<does, windowVars, castVars, streamVars, uidVars, verbVars, contextVars>>
  \/ /\ does = "screencast" /\ CastNext
     /\ UNCHANGED <<does, windowVars, captureVars, streamVars, uidVars, verbVars, contextVars>>
  \/ Attach /\ StreamNext
  \/ does = "uid" /\ UidNext /\ UNCHANGED <<does, observeVars, verbVars, contextVars>>
  \/ Verb /\ VerbNext
  \/ does = "frame" /\ ContextNext /\ UNCHANGED <<does, observeVars, uidVars, verbVars>>

(* The loop of the process runs what is ready, the liveness loop of a     *)
(* stream comes back from its sleep, and the timers of the page run.      *)
Fairness ==
  /\ WF_vars(Window /\ WindowStep)
  /\ WF_vars(Attach /\ (InputEnds \/ SignalEnds \/ DropEnds))
  /\ WF_vars(Attach /\ Poll)
  /\ WF_vars(Verb /\ VerbStep)

Spec == Init /\ [][Next]_vars /\ Fairness

------------------------------------------------------------------------
(* Nothing that was sent is missed, whatever observes it: the events of a *)
(* window, the completion of a trace, and the frames of a screencast,     *)
(* whose stream does not stall (wait_on_session, TraceCapture.start,      *)
(* ScreencastRecorder.on_frame).                                          *)
ObservesAll ==
  /\ WindowTypeOK /\ CaptureTypeOK /\ CastTypeOK /\ StreamTypeOK
  /\ NothingMissed /\ CompletionIsHeard /\ StreamFlows /\ BufferIsPrefix

(* What a verb hands over is what it claims, the body of the last match   *)
(* and a whole file; and however it ends it leaves the session and the    *)
(* disk as it found them: no callback, no domain, no handle, no staged    *)
(* file, no task (ResponseBuffer.match, captures.heap, attach).           *)
HandsOverWhole ==
  /\ BodyIsOfLastMatch /\ CaptureIsWhole
  /\ NothingLeft /\ CaptureLeavesNothing /\ NoAckOutlives /\ Silenced /\ ReadyIsGraceful

(* What is there is found at once; a stream whose purpose has gone ends,  *)
(* but not for one look at the browser that failed; and a curated verb    *)
(* answers, a refused or a slow page notwithstanding                      *)
(* (ResponseBuffer.match, core.attach.run_attach, wait_idle).             *)
EndsInTime ==
  /\ FoundPromptly /\ OutlivesNothing /\ OneBlipIsForgiven
  /\ does = "verb" => VerbAnswers

(* A name of a snapshot is one node's, an input reaches the node that was *)
(* shown under it, no node on the screen is refused, and a script runs in *)
(* the frame that was selected, which holds the context it lives in       *)
(* (NativeSnapshotReader.build, NativeInteractor._backend_for,            *)
(* FrameManager.get_selected_context).                                    *)
NamesHold ==
  /\ UidTypeOK /\ NamesAreOne /\ ActsOnWhatItShowed /\ LiveIsNotRefused
  /\ ScriptRunsInItsFrame /\ ContextIsHeld

(* A verb that ends well did what it says, and what it borrowed is given  *)
(* back (curated_runtime, interstitial.detect_with_retry, storage_get).   *)
VerbsAreHonest ==
  VerbTypeOK /\ InputArrives /\ WaitsTellTheTruth /\ ReportsTheLastPass /\ HandsBack
=======================================================================
