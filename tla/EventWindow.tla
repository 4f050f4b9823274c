--------------------------- MODULE EventWindow ---------------------------
(* A verb that observes events over a session: it registers its callbacks, *)
(* enables the domain for its body, and undoes both however the body ends. *)
(* wait takes the first match, collect takes all, netget matches responses *)
(* with their completion, and heap writes the chunks of a snapshot to a    *)
(* staged file. One reader takes the messages of Chrome off the wire.      *)
EXTENDS Naturals, Sequences, SequencesExt, FiniteSets

CONSTANTS
  MaxEvents,    \* bound: events the page emits
  MaxBacklog,   \* bound: events before the verb, which a first enable replays
  Requests      \* the requests of the page that a network-get matches

ASSUME WindowAssumption == MaxBacklog \in Nat

Windows == {"wait", "collect", "netget", "heap"}
Answered == {"ok", "refused"}

VARIABLES
  window,      \* the verb
  step,        \* where its coroutine is
  asked,       \* the command Chrome has to handle
  wire,        \* what Chrome has sent and the reader has not read
  enabled,     \* the domain is on
  registered,  \* the callbacks are registered
  emitted,     \* what Chrome has sent of the events, in order
  backlog,     \* events before the enable
  got,         \* what the callbacks have been given
  examined,    \* how many of them a wait has examined
  late,        \* the verb's own deadline has passed
  up,          \* the connection
  outcome      \* what the verb returned or raised

windowVars == <<window, step, asked, wire, enabled, registered, emitted, backlog, got,
                examined, late, up, outcome>>

Match == <<"match", "page">>
Other == <<"other", "page">>
Chunk == <<"chunk", "page">>
Events == {Match, Other, Chunk} \union ({"received", "finished", "failed"} \X Requests)
Outcomes == {"none", "item", "list", "timeout", "unfinished", "broken", "body", "error", "cut", "written"}

WindowTypeOK ==
  /\ window \in Windows
  /\ step \in {"start", "enable", "body", "sleep", "fetch", "disable", "over"}
  /\ asked \in {"none", "enable", "disable", "fetch", "take"}
  /\ wire \in Seq(Events \union (Answered \X {"enable", "disable", "fetch", "take"}))
  /\ emitted \in Seq(Events) /\ got \in Seq(Events) /\ examined \in 0..Len(got)
  /\ backlog \in 0..MaxBacklog /\ outcome \in Outcomes
  /\ {enabled, registered, late, up} \subseteq BOOLEAN

WindowInit ==
  /\ window \in Windows /\ step = "start" /\ asked = "none" /\ wire = <<>>
  /\ enabled = FALSE /\ registered = FALSE /\ emitted = <<>>
  /\ backlog \in (IF window \in {"wait", "collect"} THEN 0..MaxBacklog ELSE {0})
  /\ got = <<>> /\ examined = 0 /\ late = FALSE /\ up = TRUE /\ outcome = "none"

------------------------------------------------------------------------
(* Fault: the callbacks are registered once the domain is on.             *)
RegistersLate(at) == at = "body"
Registers(at) == at = "start"

Begin ==
  /\ step = "start" /\ step' = "enable" /\ asked' = "enable"
  /\ registered' = Registers("start")
  /\ UNCHANGED <<window, wire, enabled, emitted, backlog, got, examined, late, up, outcome>>

(* Chrome executes a command: a first enable replays what came before it, *)
(* a heap snapshot is its chunks and then its answer.                     *)
Says(ms) == wire' = wire \o ms
ChromeEnables ==
  /\ up /\ asked = "enable"
  /\ \/ /\ enabled' = TRUE /\ backlog' = 0
        /\ \E replay \in [1..backlog -> {Match, Other}] :
              Says(replay \o <<<<"ok", "enable">>>>) /\ emitted' = emitted \o replay
     \/ Says(<<<<"refused", "enable">>>>) /\ UNCHANGED <<enabled, emitted, backlog>>
ChromeDisables == asked = "disable" /\ enabled' = FALSE /\ Says(<<<<"ok", "disable">>>>)
ChromeTakes ==
  /\ asked = "take"
  /\ \/ enabled /\ emitted # <<>> /\ Says(<<<<"ok", "take">>>>)
     \/ Says(<<<<"refused", "take">>>>)
ChromeFetches == asked = "fetch" /\ \E a \in Answered : Says(<<<<a, "fetch">>>>)

ChromeAnswers ==
  /\ up /\ asked' = "none"
  /\ \/ ChromeEnables
     \/ ChromeDisables /\ UNCHANGED <<emitted, backlog>>
     \/ (ChromeTakes \/ ChromeFetches) /\ UNCHANGED <<enabled, emitted, backlog>>
  /\ UNCHANGED <<window, step, registered, got, examined, late, up, outcome>>

(* What the page may emit next: a request is received, then it ends.      *)
Sent(what, q) == Contains(emitted, <<what, q>>)
Emits ==
  CASE window \in {"wait", "collect"} -> {Match, Other}
    [] window = "heap" -> IF asked = "take" THEN {Chunk} ELSE {}
    [] OTHER -> {e \in Events \ {Match, Other, Chunk} :
                   IF e[1] = "received" THEN ~Sent("received", e[2])
                   ELSE Sent("received", e[2]) /\ ~Sent("finished", e[2]) /\ ~Sent("failed", e[2])}

PageEmits ==
  /\ up /\ enabled /\ step # "over" /\ Len(emitted) < MaxEvents
  /\ \E e \in Emits : Says(<<e>>) /\ emitted' = Append(emitted, e)
  /\ UNCHANGED <<window, step, asked, enabled, registered, backlog, got, examined, late, up, outcome>>

Drops ==
  /\ up /\ step \notin {"start", "over"} /\ up' = FALSE /\ wire' = <<>> /\ asked' = "none"
  /\ UNCHANGED <<window, step, enabled, registered, emitted, backlog, got, examined, late, outcome>>

------------------------------------------------------------------------
(* The reader. An event goes to the callbacks, an answer to its waiter;   *)
(* the answer of a command that was given up is dropped.                  *)
AnswerOf(c) == wire # <<>> /\ Head(wire) \in Answered \X {c}
IsAnswer == wire # <<>> /\ Head(wire) \in Answered \X {"enable", "disable", "fetch", "take"}
Awaited == CASE step = "enable" -> "enable" [] step = "disable" -> "disable"
             [] step = "fetch" -> (IF window = "heap" THEN "take" ELSE "fetch") [] OTHER -> "none"

ReadEvent ==
  /\ wire # <<>> /\ ~IsAnswer /\ wire' = Tail(wire)
  /\ got' = IF registered THEN Append(got, Head(wire)) ELSE got
  /\ UNCHANGED <<window, step, asked, enabled, registered, emitted, backlog, examined, late, up, outcome>>

ReadStale ==
  /\ IsAnswer /\ ~AnswerOf(Awaited) /\ wire' = Tail(wire)
  /\ UNCHANGED <<window, step, asked, enabled, registered, emitted, backlog, got, examined, late, up, outcome>>

(* A domain that cannot be enabled is not an error, and is not disabled.  *)
EnableAnswered ==
  /\ step = "enable" /\ AnswerOf("enable") /\ wire' = Tail(wire)
  /\ step' = (IF window = "heap" THEN "fetch" ELSE "body")
  /\ asked' = IF window = "heap" THEN "take" ELSE asked
  /\ registered' = (registered \/ Registers("body"))
  /\ UNCHANGED <<window, enabled, emitted, backlog, got, examined, late, up, outcome>>

(* Leaving the body, whatever ended it, and the callbacks after that.     *)
Leave(how) ==
  /\ outcome' = how
  /\ IF enabled /\ up THEN step' = "disable" /\ asked' = "disable" /\ UNCHANGED registered
     ELSE step' = "over" /\ UNCHANGED asked /\ registered' = FALSE

(* Fault: the scope that takes the callbacks off opens after the enable.  *)
StaysRegistered == registered
TakenOff == FALSE

FailsInEnable(how) ==
  /\ step = "enable" /\ step' = "over" /\ outcome' = how /\ registered' = TakenOff
  /\ asked' = "none"

Disabled ==
  /\ step = "disable" /\ (AnswerOf("disable") \/ ~up)
  /\ wire' = IF up THEN Tail(wire) ELSE wire
  /\ step' = "over" /\ registered' = FALSE
  /\ UNCHANGED <<window, asked, enabled, emitted, backlog, got, examined, late, up, outcome>>

------------------------------------------------------------------------
(* wait: the next item, or its deadline.                                  *)
Examine ==
  /\ window = "wait" /\ step = "body" /\ examined < Len(got) /\ examined' = examined + 1
  /\ IF got[examined + 1] = Match THEN Leave("item") ELSE UNCHANGED <<step, asked, registered, outcome>>
  /\ UNCHANGED <<window, wire, enabled, emitted, backlog, got, late, up>>

WaitExpires ==
  /\ window = "wait" /\ step = "body" /\ late /\ Leave("timeout")
  /\ UNCHANGED <<window, wire, enabled, emitted, backlog, got, examined, late, up>>

(* collect: what was there when its window closed.                        *)
WindowCloses ==
  /\ window = "collect" /\ step = "body" /\ late /\ Leave("list")
  /\ examined' = Len(got)
  /\ UNCHANGED <<window, wire, enabled, emitted, backlog, got, late, up>>

(* ResponseBuffer.match: clear, inspect and then wait, with no await in   *)
(* between. The last match counts, when it has finished.                  *)
Matching == {i \in 1..Len(got) : got[i] \in {"received"} \X Requests}
LastMatch == got[CHOOSE i \in Matching : \A j \in Matching : j <= i][2]

Counts == LastMatch

Inspect ==
  /\ window = "netget" /\ step = "body"
  /\ examined' = Len(got)
  /\ LET ended(how) == Matching # {} /\ Contains(got, <<how, Counts>>)
     IN IF ended("failed") THEN Leave("broken")
        ELSE IF ended("finished")
             THEN step' = "fetch" /\ asked' = "fetch" /\ UNCHANGED <<registered, outcome>>
        ELSE IF late THEN Leave(IF Matching # {} THEN "unfinished" ELSE "timeout")
        ELSE step' = "sleep" /\ UNCHANGED <<asked, registered, outcome>>
  /\ UNCHANGED <<window, wire, enabled, emitted, backlog, got, late, up>>

(* Every callback sets the change.                                        *)
(* Fault: the end of a request wakes nobody.                              *)
ReceivedWakes == \E i \in examined + 1..Len(got) : got[i] \in {"received"} \X Requests
Changed == Len(got) > examined

Wakes ==
  /\ step = "sleep" /\ (Changed \/ late) /\ step' = "body"
  /\ UNCHANGED <<window, asked, wire, enabled, registered, emitted, backlog, got, examined, late, up, outcome>>

Fetched ==
  /\ step = "fetch" /\ AnswerOf(Awaited) /\ wire' = Tail(wire)
  /\ Leave(IF Head(wire)[1] = "refused" THEN "error" ELSE IF window = "heap" THEN "written" ELSE "body")
  /\ UNCHANGED <<window, enabled, emitted, backlog, got, examined, late, up>>

Deadline ==
  /\ step \in {"body", "sleep"} /\ ~late /\ late' = TRUE
  /\ UNCHANGED <<window, step, asked, wire, enabled, registered, emitted, backlog, got, examined, up, outcome>>

(* The connection is lost under a command, or the caller gives up.        *)
Raises(how) ==
  /\ \/ FailsInEnable(how)
     \/ step \in {"body", "sleep", "fetch"} /\ Leave(how)
  /\ UNCHANGED <<window, wire, enabled, emitted, backlog, got, examined, late, up>>
ConnectionLost == ~up /\ step \in {"enable", "fetch"} /\ Raises("error")
GivenUp == Raises("cut")

WindowStep ==
  \/ Begin \/ EnableAnswered \/ ReadEvent \/ ReadStale \/ Disabled \/ Examine \/ WaitExpires
  \/ WindowCloses \/ Inspect \/ Wakes \/ Fetched \/ ConnectionLost
WindowNext == WindowStep \/ ChromeAnswers \/ PageEmits \/ Drops \/ Deadline \/ GivenUp

------------------------------------------------------------------------
(* Subscribe first: what a verb was given is all that Chrome has sent     *)
(* since the enable, in order, with what the enable itself replayed       *)
(* (wait_on_session, collect_on_session, ResponseBuffer.capture).         *)
NothingMissed == IsPrefix(got, emitted)

(* The body is the last match's, and it has finished: an earlier response *)
(* that is complete does not stand in for it (ResponseBuffer.match).      *)
BodyIsOfLastMatch ==
  outcome = "body" =>
    LET seen == SubSeq(got, 1, examined)
        last == SelectLastInSeq(seen, LAMBDA e : e \in {"received"} \X Requests)
    IN last # 0 /\ Contains(seen, <<"finished", seen[last][2]>>)

(* A verb leaves the session as it found it, however it ends: no callback *)
(* of it stays registered on a session that other steps share, and the    *)
(* domain is off unless the verb was cut while it turned it on.           *)
NothingLeft ==
  step = "over" => ~registered /\ (enabled /\ up => outcome = "cut")

(* A response that is there is found without waiting for the deadline: no *)
(* change is lost between the inspection and the wait.                    *)
FoundPromptly ==
  []<>~(/\ window = "netget" /\ step \in {"body", "sleep"} /\ ~late
        /\ Matching # {} /\ Contains(got, <<"finished", LastMatch>>))
=======================================================================
