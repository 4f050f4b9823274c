--------------------------- MODULE CdpClient ---------------------------
(* The browser-level CDP client: send registers a future under its message *)
(* id, writes, and waits; one receive loop hands every answer to its       *)
(* future and every event to its callbacks. A command is a coroutine, so   *)
(* two of them interleave at their awaits only.                            *)
EXTENDS Naturals, Sequences, SequencesExt, FiniteSets

CONSTANTS
  Cmds,        \* the commands sent on the connection, each once
  Bounded,     \* those sent with a timeout
  MaxRaises    \* bound: event callbacks that raise

ASSUME CmdsAssumption == Bounded \subseteq Cmds /\ MaxRaises \in Nat

VARIABLES
  connected,   \* _connected
  recv,        \* the receive task: "none", "running", "ended"
  why,         \* what ended it
  socket,      \* the WebSocket: "none", "open", "closed"
  call,        \* each command's coroutine
  fut,         \* each command's future
  give,        \* a cancellation on its way to the coroutine, and whose
  pending,     \* the ids in _pending
  wire,        \* the commands Chrome has and has not answered
  inbox,       \* the messages on their way to the receive loop
  raises       \* callbacks that have raised

link == <<connected, recv, why, socket>>
clientVars == <<link, call, fut, give, pending, wire, inbox, raises>>

Calls == {"new", "sending", "waiting", "result", "error", "timeout", "lost",
          "refused", "cancelled", "cut"}
Over == Calls \ {"new", "sending", "waiting"}
Futures == {"none", "pending", "result", "error", "lost", "cancelled"}

ClientTypeOK ==
  /\ connected \in BOOLEAN /\ recv \in {"none", "running", "ended"}
  /\ why \in {"none", "closed", "raised", "answer"}
  /\ socket \in {"none", "open", "closed"}
  /\ call \in [Cmds -> Calls] /\ fut \in [Cmds -> Futures]
  /\ give \in [Cmds -> {"none", "timer", "cancel"}]
  /\ pending \subseteq Cmds /\ wire \subseteq Cmds /\ raises \in 0..MaxRaises

ClientInit ==
  /\ connected = FALSE /\ recv = "none" /\ why = "none" /\ socket = "none"
  /\ call = [c \in Cmds |-> "new"] /\ fut = [c \in Cmds |-> "none"]
  /\ give = [c \in Cmds |-> "none"] /\ pending = {} /\ wire = {}
  /\ inbox = <<>> /\ raises = 0

------------------------------------------------------------------------
(* A message answers a command, or is an event.                           *)
IsAnswer(m) == m.kind \in {"result", "error"}

(* connect: the socket, then the receive task.                            *)
Connect ==
  /\ socket = "none"
  /\ socket' = "open" /\ connected' = TRUE /\ recv' = "running"
  /\ UNCHANGED <<why, call, fut, give, pending, wire, inbox, raises>>

(* send up to its first await: the refusal, or the entry and the write.   *)
Send(c) ==
  /\ call[c] = "new"
  /\ \/ /\ ~connected
        /\ call' = [call EXCEPT ![c] = "refused"] /\ UNCHANGED <<fut, pending>>
     \/ /\ connected
        /\ call' = [call EXCEPT ![c] = "sending"]
        /\ fut' = [fut EXCEPT ![c] = "pending"]
        /\ pending' = pending \union {c}
  /\ UNCHANGED <<link, give, wire, inbox, raises>>

Written(c) ==
  /\ call[c] = "sending" /\ give[c] = "none" /\ socket = "open"
  /\ call' = [call EXCEPT ![c] = "waiting"] /\ wire' = wire \union {c}
  /\ UNCHANGED <<link, fut, give, pending, inbox, raises>>

(* The write raises: its entry goes, and the client refuses what follows, *)
(* while the receive loop still runs.                                     *)
WriteFails(c) ==
  /\ call[c] = "sending" /\ give[c] = "none" /\ socket = "closed"
  /\ call' = [call EXCEPT ![c] = "lost"]
  /\ pending' = pending \ {c} /\ connected' = FALSE
  /\ UNCHANGED <<recv, why, socket, fut, give, wire, inbox, raises>>

(* A cancellation in the write is no Exception: the entry stays, and      *)
(* Chrome may have the command.                                           *)
WriteCancelled(c) ==
  /\ call[c] = "sending" /\ give[c] = "cancel"
  /\ call' = [call EXCEPT ![c] = "cut"]
  /\ wire' \in IF socket = "open" THEN {wire, wire \union {c}} ELSE {wire}
  /\ UNCHANGED <<link, fut, give, pending, inbox, raises>>

(* Fault: the caller's missing timeout is passed on as no bound.          *)
HasTimerNot(c) == FALSE
HasTimer(c) == c \in Bounded

(* Task.cancel, by the timer of wait_for or by the caller: a future not   *)
(* done is cancelled, one that is done leaves the coroutine to be resumed *)
(* with the cancellation.                                                 *)
Abandon(c, who) ==
  /\ call[c] \in (IF who = "timer" THEN {"waiting"} ELSE {"sending", "waiting"})
  /\ who = "timer" => HasTimer(c)
  /\ give[c] = "none" /\ give' = [give EXCEPT ![c] = who]
  /\ fut' = [fut EXCEPT ![c] = IF call[c] = "waiting" /\ @ = "pending" THEN "cancelled" ELSE @]
  /\ UNCHANGED <<link, call, pending, wire, inbox, raises>>

(* The entries a coroutine that gave up leaves in _pending.               *)
Retired(c) == pending \ {c}

(* The coroutine goes on after its future, or after a cancellation.       *)
Resume(c) ==
  /\ call[c] = "waiting" /\ (fut[c] # "pending" \/ give[c] # "none")
  /\ call' = [call EXCEPT ![c] = CASE give[c] = "timer" -> "timeout"
                                   [] give[c] = "cancel" -> "cancelled"
                                   [] OTHER -> fut[c]]
  /\ pending' = IF give[c] = "none" THEN pending ELSE Retired(c)
  /\ UNCHANGED <<link, fut, give, wire, inbox, raises>>

------------------------------------------------------------------------
(* What the end of the loop does, whatever ended it: every future still   *)
(* waited for fails, with no await in between.                            *)
LoopOver(reason) ==
  /\ recv' = "ended" /\ why' = reason /\ connected' = FALSE
  /\ fut' = [c \in Cmds |-> IF c \in pending /\ fut[c] = "pending" THEN "lost" ELSE fut[c]]
  /\ pending' = {}

(* The answer to a registered command: its entry goes, and a future that  *)
(* is not done gets it. Setting the result of one that is done raises.    *)
(* Fault: an answer is given to its future without looking at it.         *)
DeliverBlind(m) ==
  IF fut[m.of] = "pending"
  THEN /\ fut' = [fut EXCEPT ![m.of] = m.kind] /\ pending' = pending \ {m.of}
       /\ UNCHANGED link
  ELSE LoopOver("answer") /\ UNCHANGED socket
Deliver(m) ==
  /\ fut' = [fut EXCEPT ![m.of] = IF @ = "pending" THEN m.kind ELSE @]
  /\ pending' = pending \ {m.of} /\ UNCHANGED link

ReceiveAnswer ==
  /\ recv = "running" /\ inbox # <<>> /\ IsAnswer(Head(inbox))
  /\ inbox' = Tail(inbox)
  /\ IF Head(inbox).of \in pending THEN Deliver(Head(inbox)) ELSE UNCHANGED <<link, fut, pending>>
  /\ UNCHANGED <<call, give, wire, raises>>

(* An event whose callbacks return: what they do is the composition's.    *)
ReceiveEvent ==
  /\ recv = "running" /\ inbox # <<>> /\ ~IsAnswer(Head(inbox))
  /\ inbox' = Tail(inbox)
  /\ UNCHANGED <<link, call, fut, give, pending, wire, raises>>

(* A callback that raises ends the loop.                                  *)
CallbackRaises ==
  /\ recv = "running" /\ inbox # <<>> /\ ~IsAnswer(Head(inbox))
  /\ raises < MaxRaises /\ raises' = raises + 1
  /\ inbox' = Tail(inbox) /\ LoopOver("raised")
  /\ UNCHANGED <<socket, call, give, wire>>

(* The closed socket ends the iteration once what it holds is read.       *)
LoopEnds ==
  /\ recv = "running" /\ socket = "closed" /\ inbox = <<>>
  /\ LoopOver("closed")
  /\ UNCHANGED <<socket, call, give, wire, inbox, raises>>

(* close: the socket, then it waits for the receive task.                 *)
Close ==
  /\ socket' = IF socket = "open" THEN "closed" ELSE socket
  /\ connected' = FALSE
  /\ UNCHANGED <<recv, why, call, fut, give, pending, wire, inbox, raises>>

------------------------------------------------------------------------
(* Chrome: it answers in any order, and may go away.                      *)
ChromeSays(c, kind, before) ==
  /\ c \in wire /\ socket = "open"
  /\ wire' = wire \ {c}
  /\ inbox' = inbox \o before \o <<[kind |-> kind, of |-> c]>>
  /\ UNCHANGED <<link, call, fut, give, pending, raises>>

ChromeEmits(m) ==
  /\ socket = "open" /\ inbox' = Append(inbox, m)
  /\ UNCHANGED <<link, call, fut, give, pending, wire, raises>>

SocketDrops ==
  /\ socket = "open" /\ socket' = "closed"
  /\ UNCHANGED <<connected, recv, why, call, fut, give, pending, wire, inbox, raises>>

------------------------------------------------------------------------
(* Nobody waits on a loop that is gone: a command whose future is not     *)
(* done when the loop ends would wait for ever, and so would one that     *)
(* registers after it (core/cdp_client.py, after the loop).               *)
NoWaiterOnDeadLoop ==
  recv = "ended" => \A c \in Cmds : call[c] \in {"sending", "waiting"} => fut[c] # "pending"

(* Only a closed socket or a raising callback ends the loop: an answer    *)
(* that comes after its command was given up is dropped, and the          *)
(* connection with the other commands on it lives (ticket of the late     *)
(* response in _recv_loop).                                               *)
LateAnswerIsHarmless == why # "answer"

(* A command given up while it waited has left _pending, so a late answer *)
(* finds no entry.                                                        *)
GivenUpIsRetired ==
  \A c \in pending : call[c] \notin {"timeout", "cancelled"}
=======================================================================
