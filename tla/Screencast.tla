--------------------------- MODULE Screencast ---------------------------
(* ScreencastRecorder under one bounded screencast. The reader buffers a  *)
(* frame and makes a task that acknowledges it; Chrome holds back the     *)
(* next frame until then. A full buffer stops acknowledging, which ends   *)
(* the capture. Frames are their numbers.                                 *)
EXTENDS Naturals, FiniteSets

CONSTANTS
  MaxFrames,   \* the cap of the buffer
  Frames,      \* bound: the frames a page paints
  Unacked      \* the frames Chrome sends ahead of their acknowledgement

ASSUME CastAssumption == MaxFrames \in Nat /\ Frames \in Nat

VARIABLES
  castPhase,  \* where the verb is
  active,     \* the recorder's flag
  listening,  \* on_frame is registered
  buffer,     \* the frames kept
  acks,       \* the acknowledgements in flight
  casting,    \* Chrome sends frames
  waiting,    \* the frames Chrome has sent and has no acknowledgement of
  coming,     \* the frames on their way to the reader
  refused,    \* the frames whose acknowledgement failed
  online,     \* the connection
  wrote       \* what the verb reports

castVars == <<castPhase, active, listening, buffer, acks, casting, waiting, coming, refused,
              online, wrote>>
recorderVars == <<active, listening, buffer, acks>>
pageVars == <<casting, waiting, coming, refused>>

F == 1..Frames

CastTypeOK ==
  /\ castPhase \in {"idle", "starting", "recording", "stopping", "draining", "over"}
  /\ {active, listening, casting, online} \subseteq BOOLEAN
  /\ buffer \subseteq F /\ acks \subseteq F /\ waiting \subseteq F /\ coming \subseteq F
  /\ refused \subseteq F /\ wrote \in {"none", "failed", "refused", "written"}

CastInit ==
  /\ castPhase = "idle" /\ active = FALSE /\ listening = FALSE /\ buffer = {} /\ acks = {}
  /\ casting = FALSE /\ waiting = {} /\ coming = {} /\ refused = {} /\ online = TRUE
  /\ wrote = "none"

------------------------------------------------------------------------
(* start: subscribed and active before Chrome is asked.                   *)
CastStarts ==
  /\ castPhase = "idle" /\ castPhase' = "starting" /\ active' = TRUE /\ listening' = TRUE
  /\ buffer' = {} /\ acks' = {}
  /\ UNCHANGED <<pageVars, online, wrote>>

ChromeCasts ==
  /\ online /\ castPhase = "starting" /\ ~casting /\ casting' = TRUE
  /\ UNCHANGED <<castPhase, recorderVars, waiting, coming, refused, online, wrote>>

StartAnswered ==
  /\ castPhase = "starting"
  /\ \/ casting /\ online /\ castPhase' = "recording" /\ UNCHANGED <<active, listening, wrote>>
     \/ /\ ~casting \/ ~online
        /\ castPhase' = "over" /\ wrote' = "failed" /\ active' = FALSE /\ listening' = FALSE
  /\ UNCHANGED <<buffer, acks, pageVars, online>>

PageShows ==
  /\ online /\ casting /\ Cardinality(waiting) < Unacked
  /\ \E f \in F : /\ f = Cardinality(waiting \union buffer \union refused \union coming) + 1
                  /\ waiting' = waiting \union {f} /\ coming' = coming \union {f}
  /\ UNCHANGED <<castPhase, recorderVars, casting, refused, online, wrote>>

Holds(f) == {f}
HasRoom == Cardinality(buffer) < MaxFrames

FrameArrives ==
  /\ \E f \in coming :
        /\ \A g \in coming : f <= g
        /\ coming' = coming \ {f}
        /\ IF listening /\ active /\ HasRoom
           THEN buffer' = buffer \union {f} /\ acks' = acks \union Holds(f)
           ELSE UNCHANGED <<buffer, acks>>
  /\ UNCHANGED <<castPhase, active, listening, casting, waiting, refused, online, wrote>>

(* An acknowledgement reaches Chrome, and its task ends; or it fails.     *)
Acknowledges ==
  /\ online /\ \E f \in acks : waiting' = waiting \ {f} /\ acks' = acks \ {f}
  /\ UNCHANGED <<castPhase, active, listening, buffer, casting, coming, refused, online, wrote>>

AckFails ==
  /\ \E f \in acks : acks' = acks \ {f} /\ refused' = refused \union {f}
  /\ UNCHANGED <<castPhase, active, listening, buffer, casting, waiting, coming, online, wrote>>

(* The poll sees a full buffer, or the duration or the run's deadline     *)
(* passes; the recorder is stopped then and keeps what it has.            *)
Full == Cardinality(buffer) >= MaxFrames
PollEnds ==
  /\ castPhase = "recording" /\ castPhase' = "stopping" /\ active' = FALSE
  /\ UNCHANGED <<listening, buffer, acks, pageVars, online, wrote>>

(* stopScreencast is best effort. Frames may still come before its answer.*)
StopAnswered ==
  /\ castPhase = "stopping" /\ castPhase' = "draining" /\ listening' = FALSE
  /\ casting' \in {FALSE, casting}
  /\ UNCHANGED <<active, buffer, acks, waiting, coming, refused, online, wrote>>

Drains ==
  /\ castPhase = "draining" /\ acks' = {} /\ castPhase' = "over"
  /\ wrote' \in {"written", "refused"}
  /\ UNCHANGED <<active, listening, buffer, pageVars, online>>

CastDrops ==
  /\ online /\ castPhase \notin {"idle", "over"} /\ online' = FALSE /\ coming' = {}
  /\ UNCHANGED <<castPhase, recorderVars, casting, waiting, refused, wrote>>

Recorder ==
  \/ CastStarts \/ StartAnswered \/ PollEnds \/ StopAnswered \/ Drains
CastNext ==
  \/ Recorder \/ ChromeCasts \/ PageShows \/ FrameArrives \/ Acknowledges \/ AckFails \/ CastDrops

------------------------------------------------------------------------
(* The stream does not stall: while there is room, every frame that       *)
(* Chrome waits for is on its way or has an acknowledgement in flight     *)
(* that somebody holds (ScreencastRecorder.on_frame).                     *)
StreamFlows ==
  castPhase = "recording" /\ online /\ ~Full => waiting \subseteq coming \union acks \union refused

(* Frames come in order and the buffer is the first of them, up to its    *)
(* cap: a frame that comes after the stop, or into a full buffer, does    *)
(* not get in (ScreencastRecorder.on_frame).                              *)
BufferIsPrefix ==
  buffer = 1..Cardinality(buffer) /\ Cardinality(buffer) <= MaxFrames

(* No acknowledgement outlives the capture that made it: when it has been *)
(* stopped none is in flight and the callback is off.                     *)
NoAckOutlives ==
  castPhase = "over" => ~active /\ ~listening /\ (wrote # "failed" => acks = {})
=======================================================================
