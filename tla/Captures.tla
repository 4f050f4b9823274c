---------------------------- MODULE Captures ----------------------------
(* The two captures that end in a file. trace subscribes to the completion *)
(* of Chrome's trace, streams it from a handle into its destination and    *)
(* closes the handle. heap writes the chunks of a snapshot beside its      *)
(* destination and renames that file when the snapshot is complete.        *)
EXTENDS Naturals

CONSTANT Chunks   \* bound: parts of a trace or of a snapshot

ASSUME CapturesAssumption == Chunks \in Nat \ {0}

VARIABLES
  capture,   \* "trace" or "heap"
  phase,     \* where its coroutine is
  hooked,    \* its callback is registered
  tracing,   \* what Chrome does: "no", "yes", "flushing", "told"
  stream,    \* Chrome's handle: "none", "open", "closed"
  heard,     \* the completion the callback was given: "none", "bare", "stream"
  left,      \* parts still to come
  was,       \* what the destination was before the invocation
  dest,      \* what it is
  staged,    \* the file beside it
  spoilt,    \* a write failed
  live,      \* the connection
  result     \* what the verb says, or will say when it has cleaned up

captureVars == <<capture, phase, hooked, tracing, stream, heard, left, was, dest, staged,
                 spoilt, live, result>>
chromeVars == <<tracing, stream, left>>
fileVars == <<dest, staged, spoilt>>

CaptureTypeOK ==
  /\ capture \in {"trace", "heap"}
  /\ phase \in {"start", "open", "starting", "recording", "ending", "completing", "reading",
                "closing", "taking", "summary", "tidy", "over"}
  /\ tracing \in {"no", "yes", "flushing", "told"} /\ stream \in {"none", "open", "closed"}
  /\ heard \in {"none", "bare", "stream"} /\ left \in 0..Chunks
  /\ was \in {"absent", "old"} /\ dest \in {"absent", "old", "empty", "part", "whole"}
  /\ staged \in {"absent", "part", "whole"} /\ {hooked, spoilt, live} \subseteq BOOLEAN
  /\ result \in {"none", "failed", "timeout", "cut", "unclosed", "written"}

CaptureInit ==
  /\ capture \in {"trace", "heap"} /\ phase = "start" /\ hooked = FALSE /\ tracing = "no"
  /\ stream = "none" /\ heard = "none" /\ left = Chunks /\ was \in {"absent", "old"}
  /\ dest = was /\ staged = "absent" /\ spoilt = FALSE /\ live = TRUE /\ result = "none"

------------------------------------------------------------------------
Fails == {"failed", "timeout", "cut"}
To(p, how) == phase' = p /\ result' = how

(* The last thing a trace does is take its callback off. A heap takes it  *)
(* off before the file is looked at, and unlinks its staged file at last. *)
Over(how) == To("over", how) /\ hooked' = FALSE

(* A destination that cannot be written is refused before the capture: to *)
(* try it opens it for appending, which creates it.                       *)
Probe ==
  /\ phase = "start"
  /\ \/ Over("failed") /\ UNCHANGED dest
     \/ To("open", "none") /\ dest' = (IF dest = "absent" THEN "empty" ELSE dest) /\ UNCHANGED hooked
  /\ UNCHANGED <<capture, chromeVars, heard, was, staged, spoilt, live>>

Hooked(p) == p \in {"starting", "taking"}

OpenSession ==
  /\ phase = "open"
  /\ \/ To(IF capture = "heap" THEN "tidy" ELSE "over", "failed") /\ UNCHANGED <<hooked, staged>>
     \/ capture = "trace" /\ To("starting", "none") /\ hooked' = Hooked("starting") /\ UNCHANGED staged
     \/ capture = "heap" /\ To("taking", "none") /\ hooked' = Hooked("taking") /\ staged' = "part"
  /\ UNCHANGED <<capture, chromeVars, heard, was, dest, spoilt, live>>

------------------------------------------------------------------------
(* trace. Chrome may have started for a caller whose answer did not come. *)
Starting ==
  /\ phase = "starting"
  /\ \/ live /\ tracing' = "yes" /\ To("recording", "none") /\ UNCHANGED hooked
     \/ (\E how \in Fails : Over(how)) /\ tracing' \in {tracing, IF live THEN "yes" ELSE tracing}
  /\ UNCHANGED <<capture, stream, left, heard, was, fileVars, live>>

(* However the run inside it ends, the trace is finished.                 *)
Recorded ==
  /\ phase = "recording" /\ \E how \in {"none", "cut"} : To("ending", how)
  /\ UNCHANGED <<capture, hooked, chromeVars, heard, was, fileVars, live>>

ChromeEnds ==
  /\ live /\ phase = "ending" /\ tracing = "yes" /\ tracing' = "flushing"
  /\ UNCHANGED <<capture, phase, hooked, stream, heard, left, was, fileVars, live, result>>

ChromeCompletes ==
  /\ live /\ tracing = "flushing" /\ tracing' = "told"
  /\ \E what \in {"bare", "stream"} :
        /\ stream' = (IF what = "stream" THEN "open" ELSE "none")
        /\ heard' = IF hooked THEN what ELSE heard
  /\ UNCHANGED <<capture, phase, hooked, left, was, fileVars, live, result>>

EndAnswered ==
  /\ phase = "ending" /\ tracing \in {"flushing", "told"} /\ live
  /\ To("completing", result) /\ hooked' = (hooked \/ Hooked("completing"))
  /\ UNCHANGED <<capture, chromeVars, heard, was, fileVars, live>>

Completed ==
  /\ phase = "completing" /\ heard # "none"
  /\ \/ heard = "bare" /\ Over("failed") /\ UNCHANGED dest
     \/ heard = "stream" /\ To("reading", result) /\ dest' = "empty" /\ UNCHANGED hooked
     \/ heard = "stream" /\ To("closing", "failed") /\ UNCHANGED <<dest, hooked>>
  /\ UNCHANGED <<capture, chromeVars, heard, was, staged, spoilt, live>>

Wholeness == IF left' = 0 THEN "whole" ELSE "part"
ReadPart ==
  /\ phase = "reading" /\ live /\ left > 0
  /\ \/ /\ left' = left - 1 /\ dest' = Wholeness
        /\ IF left' = 0 THEN To("closing", IF result = "none" THEN "written" ELSE result)
           ELSE UNCHANGED <<phase, result>>
     \/ left' = left - 1 /\ UNCHANGED dest /\ To("closing", "failed")
  /\ UNCHANGED <<capture, hooked, tracing, stream, heard, was, staged, spoilt, live>>

(* One timeout bounds the end, the completion and the reads. It, a lost   *)
(* connection and a caller that gave up leave a reading by the close.     *)
Unwinds == IF phase = "reading" THEN "closing" ELSE "over"

CutOff ==
  /\ phase \in {"ending", "completing", "reading"}
  /\ \E how \in Fails : (how = "failed" => ~live) /\ To(Unwinds, how)
  /\ hooked' = (Unwinds # "over" /\ hooked)
  /\ UNCHANGED <<capture, chromeVars, heard, was, fileVars, live>>

Close ==
  /\ phase = "closing"
  /\ \/ live /\ stream' = "closed" /\ Over(result)
     \/ UNCHANGED stream /\ Over("unclosed")
  /\ UNCHANGED <<capture, tracing, left, heard, was, fileVars, live>>

------------------------------------------------------------------------
(* heap. A chunk that cannot be written is noted: it may not raise in the *)
(* reader. The snapshot's answer follows its last chunk.                  *)
TakeChunk ==
  /\ phase = "taking" /\ live /\ left > 0 /\ hooked /\ left' = left - 1
  /\ spoilt' \in {spoilt, TRUE}
  /\ UNCHANGED <<capture, phase, hooked, tracing, stream, heard, was, dest, staged, live, result>>

Taken ==
  /\ phase = "taking" /\ live /\ left = 0 /\ hooked' = FALSE
  /\ staged' = (IF spoilt THEN "part" ELSE "whole")
  /\ IF spoilt THEN To("tidy", "failed") ELSE To("summary", "none")
  /\ UNCHANGED <<capture, chromeVars, heard, was, dest, spoilt, live>>

TakeFails ==
  /\ phase = "taking" /\ hooked' = FALSE /\ \E how \in Fails : To("tidy", how)
  /\ UNCHANGED <<capture, chromeVars, heard, was, fileVars, live>>

(* The header of the staged file is read, and the file takes the place of *)
(* the destination in one step.                                           *)
Renames == dest' = staged /\ staged' = "absent"

Replace ==
  /\ phase = "summary"
  /\ \/ Renames /\ To("tidy", "written")
     \/ To("tidy", "failed") /\ UNCHANGED <<dest, staged>>
  /\ UNCHANGED <<capture, hooked, chromeVars, heard, was, spoilt, live>>

Tidy ==
  /\ phase = "tidy" /\ To("over", result) /\ staged' = "absent"
  /\ UNCHANGED <<capture, hooked, chromeVars, heard, was, dest, spoilt, live>>

Loses ==
  /\ live /\ phase \notin {"start", "open", "over"} /\ live' = FALSE
  /\ UNCHANGED <<capture, phase, hooked, chromeVars, heard, was, fileVars, result>>

CaptureStep ==
  \/ Probe \/ OpenSession \/ Starting \/ Recorded \/ EndAnswered \/ Completed \/ ReadPart
  \/ CutOff \/ Close \/ TakeChunk \/ Taken \/ TakeFails \/ Replace \/ Tidy
CaptureNext == CaptureStep \/ ChromeEnds \/ ChromeCompletes \/ Loses

------------------------------------------------------------------------
(* A capture is reported only when the file is complete, and a snapshot   *)
(* that was not reported leaves the old file as it was: what is there is  *)
(* never a part of one (captures.heap, TraceCapture.finish).              *)
CaptureIsWhole ==
  /\ result = "written" /\ phase = "over" => dest = "whole"
  /\ capture = "heap" => dest # "part"
  /\ capture = "heap" /\ was = "old" /\ result # "written" => dest = "old"

(* A capture leaves nothing, however it ends: no callback on a session    *)
(* that others share, no file beside the destination, and no handle that  *)
(* Chrome still serves, unless Chrome did not answer its close or the     *)
(* handle was never read (TraceCapture.finish, captures.heap).            *)
CaptureLeavesNothing ==
  phase = "over" =>
    /\ ~hooked /\ staged = "absent"
    /\ stream = "open" => dest # "part" \/ result = "unclosed" \/ ~live

(* The completion is heard whenever Chrome sends it, before the answer of *)
(* Tracing.end as after it (TraceCapture.start).                          *)
CompletionIsHeard == stream = "open" /\ phase # "over" => heard = "stream"
=======================================================================
